------------------------ MODULE MCNotificationDispatch ------------------------
(* What the user sees: each behaviour is about one of three components that *)
(* share nothing.                                                          *)
(*   DISPATCH: the dispatcher of the server and that of the ingestion       *)
(*   script, both with one row, or the first alone with two.                *)
(*   STREAMS: the streams of the browser.                                   *)
(*   PAGE: the Today page, with two banks and a stock of Hong Kong whose    *)
(*   lot and sector are unknown.                                            *)
EXTENDS NotificationDispatch, LiveUpdates, TodayBrief

CONSTANTS d1, d2
VARIABLES
  shown,  \* the component of this behaviour
  crew    \* its dispatchers

MCRows == IF crew = {d1} THEN 2 ELSE 1

MCSectorOf == <<"BANK", "BANK", "UNKNOWN">>
MCLotOf == <<2, 1, 0>>

Setup(sym, strategy, state, trigger, stop, opportunity) ==
  [symbol |-> sym, strategy |-> strategy, state |-> state, low |-> 6, high |-> 7, trigger |-> trigger, stop |-> stop,
   target1 |-> 9, target2 |-> 10, opportunity |-> opportunity]
One(state) == Setup(1, 1, state, 7, 4, 1)
Two(state) == Setup(2, 1, state, 7, 5, 1)
MCBoards ==
  {{One("TRIGGERED"), Two("TRIGGERED")}, {One("TRIGGERED"), Two("ARMED_PULLBACK"), Setup(3, 1, "TRIGGERED", 7, 5, 1)},
   {One("ARMED_BREAKOUT"), Setup(1, 2, "ARMED_BREAKOUT", 8, 5, 2), Two("WATCH")},
   {One("ACTIVE"), Setup(1, 2, "TRIGGERED", 7, 5, 0), Setup(2, 1, "ARMED_BREAKOUT", 5, 4, 1)},
   {One("EXPIRED"), Setup(1, 2, "EXIT", 7, 0, 0), Two("DATA_INVALID"), Setup(2, 2, "OVEREXTENDED", 7, 4, 3)},
   {Setup(1, 1, "TRIGGERED", 0, 4, 1), Setup(2, 1, "TRIGGERED", 7, 8, 1), Setup(3, 1, "ARMED_PULLBACK", 7, 5, 0)}}

Quoted(last, observed, aged) == [last |-> last, observed |-> observed, aged |-> aged]
Fresh(last) == Quoted(last, "LIVE", "LIVE")
MCTicks ==
  <<{Fresh(7), Fresh(5), Fresh(4), Quoted(7, "LIVE", "DELAYED")},
    {Fresh(7), Fresh(9), Quoted(7, "LIVE", "STALE"), Quoted(0, "UNKNOWN", "LIVE")}, {Fresh(7)}>>

Profile(cash, risk, heat, sector, mode) ==
  [equity |-> 60, cash |-> cash, risk |-> risk, position |-> 40, heat |-> heat, sector |-> sector, theme |-> sector, mode |-> mode]
MCAccounts ==
  {{}, {Profile(60, 6, 12, 60, "BALANCED")}, {Profile(60, 12, 12, 30, "CONSERVATIVE")}, {Profile(20, 9, 10, 40, "BALANCED")},
   {Profile(60, 6, 4, 60, "BALANCED")}}

MCInit ==
  /\ Init /\ LiveInit /\ BriefInit
  /\ \/ shown = "DISPATCH" /\ crew \in {{d1}, {d1, d2}}
     \/ shown \in {"STREAMS", "PAGE"} /\ crew = {}
  /\ shown # "PAGE" => \A s \in board : s.state = "TRIGGERED" /\ s.trigger = 7
\* Beyond MaxTime the stamps that lie ahead come nearer instead of the clock moving on: every
\* comparison with the clock comes out the same.
Nearer(stamp) == IF stamp # None /\ stamp > clock THEN stamp - 1 ELSE stamp
NearerItem(i) == [i EXCEPT !.until = Nearer(@)]
ComesNearer ==
  /\ clock >= MaxTime /\ Waiting
  /\ outbox' = [k \in DOMAIN outbox |-> [outbox[k] EXCEPT !.next = Nearer(@)]]
  /\ batch' = [d \in Dispatchers |-> {NearerItem(i) : i \in batch[d]}]
  /\ item' = [d \in Dispatchers |-> IF item[d] = None THEN None ELSE NearerItem(item[d])]
  /\ UNCHANGED <<pc, clock>>
MCTick == crew # {} /\ ((clock < MaxTime /\ Tick) \/ ComesNearer)
MCDispatch(d) == d \in crew /\ Dispatch(d)
MCNext ==
  /\ UNCHANGED <<shown, crew>>
  /\ \/ /\ UNCHANGED <<liveVars, briefVars>>
        /\ \/ \E channels \in (SUBSET Channels) \ {{}} : crew # {} /\ Enqueue(channels) /\ Len(outbox') <= MCRows
           \/ \E d \in crew : Dispatch(d) \/ Abort(d)
           \/ MCTick
     \/ shown = "STREAMS" /\ LiveNext /\ UNCHANGED <<vars, briefVars>>
     \/ shown = "PAGE" /\ BriefNext /\ UNCHANGED <<vars, liveVars>>
MCSpec ==
  /\ MCInit /\ [][MCNext]_<<vars, shown, crew, liveVars, briefVars>>
  /\ WF_vars(MCTick) /\ \A d \in Dispatchers : WF_vars(MCDispatch(d))
=============================================================================
