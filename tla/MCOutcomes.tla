------------------------------ MODULE MCOutcomes ------------------------------
(* Behaviours of three kinds: one case of a signal that was triggered, with *)
(* all its facts and no finalizer; the two cases of an episode whose data  *)
(* was invalid, which cannot enter, and their finalizers; or a history of  *)
(* sessions on which orders are tried, or signals labelled and split.      *)
EXTENDS OutcomeFinalization, BarrierLabels, TLC

CONSTANTS p1, p2
VARIABLE kind   \* of behaviour

Plan == [episode |-> "e1", version |-> 1, requestedAt |-> 0, horizon |-> 1, minExit |-> 1,
         state |-> "TRIGGERED", data |-> "LIVE"]
Invalid == [Plan EXCEPT !.version = 2, !.state = "DATA_INVALID"]
MCSnapshots == {Plan, Invalid}
Bar(session, low, high, observable) ==
  [session |-> session, low |-> low, high |-> high, observable |-> observable]
MCBars == {Bar(0, 2, 2, TRUE), Bar(0, 1, 2, TRUE), Bar(1, 2, 3, TRUE), Bar(1, 1, 2, TRUE),
           Bar(1, 2, 2, TRUE), Bar(1, 2, 2, FALSE)}

\* Only an entry in session 0 can be followed to its horizon.  Costs that matter: of an entry under
\* the invalidation, of an exit between the barriers.
MCFill(f) ==
  /\ f.kind = "entry" => f.session = 0 /\ f.price # Above
  /\ f.cost # 0 => f.price = IF f.kind = "entry" THEN Under ELSE Between
\* A case that is closed by hand has one event less.
MCManual == \E i \in DOMAIN log : log[i].fact.kind = "request" /\ log[i].fact.reason = "MANUAL"
MCBound ==
  IF kind = "facts"
  THEN /\ calls' = 0 /\ Len(log') <= (IF MCManual' THEN 5 ELSE 6) /\ \A i \in DOMAIN log' : Mode(log'[i].case) = "LIVE_MANUAL"
       /\ \A i \in DOMAIN log' \ DOMAIN log : log'[i].fact.kind \in {"entry", "exit"} => MCFill(log'[i].fact)
  ELSE /\ clock' \in clock..1
       /\ \A c \in Opened' : (Snapshot(c))' = Invalid
       /\ \A i \in DOMAIN log' \ DOMAIN log :
            log'[i].fact.kind \in {"opened", "no_entry"} =>
              clock + calls = 0 /\ (Mode(log'[i].case) = "PAPER") = (i <= 2)
MCSymmetry == Permutations({p1, p2})

\* From session 3 on, what is bought is sold the next day at the earliest and the state
\* of the limits must be known; the lot of 2 ends with session 2; session 1 has no costs.
Terms(from, to) == [from |-> from, to |-> to, verified |-> TRUE]
MCRules ==
  {Terms(1, 2) @@ [lot |-> 1, nextDay |-> FALSE, limits |-> FALSE],
   Terms(3, 9) @@ [lot |-> 1, nextDay |-> TRUE, limits |-> TRUE]}
MCOverrides == {Terms(2, 2) @@ [lot |-> 2]}
MCSchedules ==
  {[Terms(1, 1) EXCEPT !.verified = FALSE] @@ [slip |-> 0, fee |-> 0, least |-> 0, tax |-> 0, share |-> 1],
   Terms(2, 9) @@ [slip |-> 1, fee |-> 0, least |-> 1, tax |-> 0, share |-> 2]}
Traded(open, high, low, volume, up, down) ==
  [state |-> "OPEN", open |-> open, high |-> high, low |-> low, volume |-> volume,
   up |-> up, down |-> down]
MCBarShapes ==
  {Traded(4, 6, 2, 4, FALSE, FALSE), Traded(6, 7, 5, 4, TRUE, FALSE), Traded(3, 3, 2, 2, FALSE, TRUE),
   Traded(4, 4, 4, 4, FALSE, Unknown),
   [Traded(4, 4, 4, 0, FALSE, FALSE) EXCEPT !.state = "HALTED"]}
Order(id, position, side, start, quantity, end) ==
  [id |-> id, position |-> position, side |-> side, start |-> start, quantity |-> quantity, end |-> end]
MCOrders ==
  {Order(1, "p", "BUY", 1, 2, 9), Order(2, "p", "BUY", 2, 2, 9), Order(3, "p", "SELL", 2, 2, 9),
   Order(4, "q", "BUY", 2, 1, 9), Order(5, "q", "BUY", 3, 2, 9), Order(6, "p", "SELL", 3, 1, 3)}
Config(target, horizon, delay, policy, resolution) ==
  [target |-> target, stop |-> 2, horizon |-> horizon, delay |-> delay, policy |-> policy,
   resolution |-> resolution, quantity |-> 2]
MCConfigs ==
  {Config(2, 2, 0, "MARK_AMBIGUOUS", Unset), Config(1, 2, 1, "WORST_CASE", Unset),
   Config(1, 2, 0, "LOWER_TIMEFRAME_REQUIRED", "TAKE_PROFIT"),
   Config(1, 1, 0, "LOWER_TIMEFRAME_REQUIRED", Unset)}
Split(train, rolling, gap, embargo) ==
  [train |-> train, rolling |-> rolling, validation |-> 1, step |-> 1, gap |-> gap, embargo |-> embargo]
MCSplits == {Split(1, Unset, 0, 0), Split(1, 2, 1, 1)}

MCInit == Init /\ LabelInit /\ kind \in {"facts", "finalization", "history"}
MCNext ==
  /\ UNCHANGED kind
  /\ \/ kind # "history" /\ Next /\ MCBound /\ UNCHANGED labelVars
     \/ kind = "history" /\ LabelNext /\ UNCHANGED vars
MCSpec == MCInit /\ [][MCNext]_<<vars, labelVars, kind>>
=============================================================================
