------------------------------ MODULE TodayBrief ------------------------------
(***************************************************************************)
(* The Today page (decision/, api/handlers.py get_today_brief): the        *)
(* signals in memory, their quotes, the positions and the account become a *)
(* brief of core opportunities, each with a plan and a number of shares,   *)
(* and of actions on what is held.                                         *)
(*                                                                         *)
(* A function that raises returns the empty set, one that returns a value  *)
(* the set of it.  Amounts are the account's percentages of its equity,    *)
(* prices and amounts are integers; symbols and strategies are numbered in *)
(* the order of their names.  Of a record's scores the opportunity ranks   *)
(* it; probabilities, names and wording are left out.                      *)
(***************************************************************************)
EXTENDS Integers, FiniteSetsExt, SequencesExt

CONSTANTS
  Symbols, SectorOf, LotOf,   \* an unknown sector is "UNKNOWN", an unknown lot 0
  Boards,       \* sets of signals the strategies may leave in memory
  Ticks,        \* quotes by symbol; one whose price is 0 was stored before it was judged
  Accounts,     \* profiles: the empty set, or one
  Chase,        \* no_chase_pct of a price
  MaxCore, MaxPerSector

\* A signal's id is its symbol and strategy, so a board has one of each; an account is one profile, or none.
ASSUME BriefAssumption ==
  /\ IsFiniteSet(Symbols) /\ \A sym \in Symbols : LotOf[sym] \in Nat
  /\ Chase \in Nat
  /\ \A b \in Boards : \A s \in b :
       /\ s.symbol \in Symbols /\ {s.strategy, s.low, s.high, s.trigger, s.stop} \subseteq Nat
       /\ s.state \in {"COLD", "WATCH", "ARMED_PULLBACK", "ARMED_BREAKOUT", "TRIGGERED", "ACTIVE", "TRIM", "OVEREXTENDED",
                      "EXIT", "INVALIDATED", "EXPIRED", "DATA_INVALID"}
       /\ \A t \in b : t.symbol = s.symbol /\ t.strategy = s.strategy => t = s
  /\ \A sym \in Symbols : \A q \in Ticks[sym] :
       q.last \in Nat /\ {q.observed, q.aged} \subseteq {"LIVE", "DELAYED", "STALE", "UNKNOWN"}
  /\ \A a \in Accounts : \A p \in a :
       /\ {p.equity, p.cash, p.risk, p.position, p.heat, p.sector, p.theme} \subseteq Nat
       /\ \A o \in a : o = p

VARIABLES board, quotes, holdings, account
briefVars == <<board, quotes, holdings, account>>

Nothing == [shares |-> 0, cost |-> 0]
NoTick == [last |-> 0, observed |-> "NONE", aged |-> "NONE"]
Held == {s \in Symbols : holdings[s].shares > 0}

-----------------------------------------------------------------------------
(* The status of a quote, and the action a signal maps to *)

Severity == [LIVE |-> 0, DELAYED |-> 1, STALE |-> 2, UNKNOWN |-> 3]
WorstStatus(statuses) == CHOOSE s \in statuses : \A t \in statuses : Severity[t] <= Severity[s]
QuoteStatus(q) == IF q = NoTick THEN "UNKNOWN" ELSE WorstStatus({q.observed, q.aged})

ActionOf(held) ==
  IF held
  THEN [COLD |-> "WARNING", WATCH |-> "WARNING", ARMED_PULLBACK |-> "HOLD", ARMED_BREAKOUT |-> "HOLD",
        TRIGGERED |-> "HOLD", ACTIVE |-> "HOLD", TRIM |-> "TRIM", OVEREXTENDED |-> "TRIM",
        EXIT |-> "EXIT", INVALIDATED |-> "EXIT", EXPIRED |-> "WARNING"]
  ELSE [COLD |-> "WATCH", WATCH |-> "WATCH", ARMED_PULLBACK |-> "WAIT_PULLBACK", ARMED_BREAKOUT |-> "WAIT_BREAKOUT",
        TRIGGERED |-> "EXECUTABLE", ACTIVE |-> "WATCH", TRIM |-> "AVOID", OVEREXTENDED |-> "AVOID",
        EXIT |-> "AVOID", INVALIDATED |-> "AVOID", EXPIRED |-> "AVOID"]
Actionable == {"EXECUTABLE", "TRIM", "EXIT"}

\* A quarter of the way from the invalidation to the entry is a warning.
Breached(s, q) == s.stop > 0 /\ q.last <= s.stop
Near(s, q) ==
  LET reference == IF s.high > 0 THEN s.high ELSE s.trigger
  IN s.stop > 0 /\ reference > s.stop /\ 4 * (q.last - s.stop) <= reference - s.stop

\* map_signal_to_action() for a quote that is missing or has a price
Verdict(action, actionable, blockers) == [action |-> action, actionable |-> actionable, blockers |-> blockers]
MapSignalToAction(s, q, held) ==
  LET status == QuoteStatus(q)
      guarded == held /\ status = "LIVE" /\ s.state # "DATA_INVALID"
  IN CASE status \in {"STALE", "UNKNOWN"} \/ s.state = "DATA_INVALID" -> Verdict("DATA_BLOCKED", FALSE, {"DATA_UNAVAILABLE"})
       [] guarded /\ Breached(s, q) -> Verdict("EXIT", TRUE, {})
       [] guarded /\ ~Breached(s, q) /\ Near(s, q) -> Verdict("WARNING", FALSE, {})
       [] s.state = "TRIGGERED" /\ status = "DELAYED" -> Verdict("DATA_BLOCKED", FALSE, {"EXECUTION_DATA_NOT_LIVE"})
       [] OTHER -> LET action == ActionOf(held)[s.state] IN Verdict(action, action \in Actionable, {})

-----------------------------------------------------------------------------
(* What the positions already risk: _portfolio_decision_context() *)

\* The price a position counts with, and the lowest invalidation below it.
Reference(sym) ==
  IF quotes[sym].last > 0 /\ QuoteStatus(quotes[sym]) \in {"LIVE", "DELAYED"} THEN quotes[sym].last ELSE holdings[sym].cost
Stops(sym) == {s.stop : s \in {t \in board : t.symbol = sym /\ t.stop > 0 /\ t.stop < Reference(sym)}}
RiskKnown(sym) ==
  quotes[sym].last > 0 /\ QuoteStatus(quotes[sym]) \in {"LIVE", "DELAYED"} /\ Stops(sym) # {}

TotalRisk ==
  SumFunction([sym \in {s \in Held : RiskKnown(s)} |-> holdings[sym].shares * (Reference(sym) - Min(Stops(sym)))])
Exposure(sector) ==
  SumFunction([sym \in {s \in Held : SectorOf[s] = sector} |-> holdings[sym].shares * Reference(sym)])
\* heat and exposures are ratios of the equity, at most 1
Ratio(amount, p) == Min({p.equity, amount})
PortfolioBlockers ==
  IF account # {} /\ \E sym \in Held : ~RiskKnown(sym) THEN {"PORTFOLIO_RISK_INCOMPLETE"} ELSE {}

-----------------------------------------------------------------------------
(* size_position(), build_trade_plan() *)

\* Mutant: the heat of the positions is not subtracted.
RoomAlone(limit, used) == limit
Room(limit, used) == Max({0, limit - used})

ShareLimits(p, entry, risk, heat, exposure) ==
  {p.risk \div risk, p.cash \div entry, p.position \div entry, Room(p.heat, heat) \div risk,
   Room(p.sector, exposure) \div entry, Room(p.theme, exposure) \div entry}
Sized(shares, entry, blockers) == [allowed |-> blockers = {}, shares |-> shares, entry |-> entry, blockers |-> blockers]
SizedIn(lot, shares, entry) ==
  IF shares < lot THEN Sized(0, entry, {"BELOW_MINIMUM_LOT"}) ELSE Sized((shares \div lot) * lot, entry, {})
SizePosition(p, s, entry, hard) ==
  LET lot == LotOf[s.symbol]
      limits == ShareLimits(p, entry, entry - s.stop, Ratio(TotalRisk, p), Ratio(Exposure(SectorOf[s.symbol]), p))
  IN IF entry <= s.stop \/ lot = 0 THEN {}
     ELSE {IF hard # {} THEN Sized(0, entry, hard) ELSE SizedIn(lot, Min(limits), entry)}

PricesGiven(s) == 0 \notin {s.low, s.high, s.trigger, s.stop, s.target1, s.target2}
NoChase(s) == LET top == Max({s.high, s.trigger}) IN top + (top * Chase) \div 100
PricesOrdered(s) ==
  /\ s.stop < s.low /\ s.low <= s.high /\ s.high < s.target1 /\ s.target1 <= s.target2
  /\ s.high <= NoChase(s) /\ s.trigger <= NoChase(s)
\* Mutant: the price of the moment is taken however far it has run.
EntryAtAnyPrice(s, action, q) ==
  CASE action = "WAIT_PULLBACK" -> s.high
    [] action = "EXECUTABLE" /\ s.stop < q.last -> q.last
    [] OTHER -> s.trigger
EntryReference(s, action, q) ==
  CASE action = "WAIT_PULLBACK" -> s.high
    [] action = "EXECUTABLE" /\ s.stop < q.last /\ q.last <= NoChase(s) -> q.last
    [] OTHER -> s.trigger

\* Mutant: a blocked plan stays executable.
ActionAsAsked(action, blocked) == action
EffectiveAction(action, blocked) == IF blocked # {} /\ action = "EXECUTABLE" THEN "AVOID" ELSE action

\* The balanced plan is the plan; an aggressive one halves the risk.
BuildTradePlan(s, action, size, hard, soft, aggressive) ==
  LET blocked == hard \union UNION {z.blockers : z \in size}
  IN IF PricesOrdered(s) /\ \A z \in size : s.low <= z.entry /\ z.entry <= NoChase(s)
     THEN {[action |-> EffectiveAction(action, blocked), size |-> size, hard |-> blocked, soft |-> soft,
            aggressive |-> IF soft # {} /\ blocked = {} THEN aggressive ELSE {}]}
     ELSE {}

-----------------------------------------------------------------------------
(* build_signal_record() *)

Opening == {"EXECUTABLE", "WAIT_PULLBACK", "WAIT_BREAKOUT"}
SoftBlockers(action, status, state) ==
  {b \in {"WAIT_PULLBACK", "WAIT_BREAKOUT"} : action = b}
  \union {b \in {"DATA_DELAYED"} : status = "DELAYED"}
  \union {b \in {"NO_CHASE_OVEREXTENDED"} : state = "OVEREXTENDED"}
Record(s, q, action, verdict, hard, soft, plan) ==
  [symbol |-> s.symbol, strategy |-> s.strategy, opportunity |-> s.opportunity, status |-> QuoteStatus(q),
   action |-> action, verdict |-> verdict, hard |-> hard, soft |-> soft, plan |-> plan]

BlockedAction(hard) ==
  IF hard \intersect {"DATA_UNAVAILABLE", "EXECUTION_DATA_NOT_LIVE"} # {} THEN "DATA_BLOCKED" ELSE "AVOID"
PlannedRecord(s, q, profile, verdict, hard, soft, sizes) ==
  LET action == IF \E z \in sizes : ~z.allowed THEN BlockedAction(hard) ELSE verdict.action
      bold == /\ soft # {} /\ hard = {} /\ QuoteStatus(q) = "LIVE" /\ action \in {"WAIT_PULLBACK", "WAIT_BREAKOUT"}
              /\ \E p \in profile : p.mode # "CONSERVATIVE"
  IN {Record(s, q, pl.action, verdict, hard, soft, {pl}) :
        pl \in BuildTradePlan(s, action, sizes, hard, soft, IF bold THEN {"EXECUTABLE"} ELSE {})}
SizeBlockers(profile, sizes) ==
  (UNION {z.blockers : z \in sizes}) \union (IF profile # {} /\ sizes = {} THEN {"POSITION_SIZE_UNAVAILABLE"} ELSE {})
OpeningRecord(s, q, profile, verdict, hard, soft) ==
  LET PlannedWith(sizes) == PlannedRecord(s, q, profile, verdict, hard \union SizeBlockers(profile, sizes), soft, sizes)
  IN PlannedWith(UNION {SizePosition(p, s, EntryReference(s, verdict.action, q), hard) : p \in profile})
JudgedRecord(s, q, profile, verdict, hard, soft) ==
  IF verdict.action \notin Opening THEN {Record(s, q, verdict.action, verdict, hard, soft, {})}
  ELSE IF ~PricesGiven(s) THEN {Record(s, q, "AVOID", verdict, hard \union {"INVALID_TRADE_PLAN"}, soft, {})}
  ELSE OpeningRecord(s, q, profile, verdict, hard, soft)
BuildSignalRecord(s, q, held, profile, external) ==
  LET Judged(verdict) ==
        JudgedRecord(s, q, profile, verdict, verdict.blockers \union external, SoftBlockers(verdict.action, QuoteStatus(q), s.state))
  IN IF q # NoTick /\ q.last = 0 THEN {} ELSE Judged(MapSignalToAction(s, q, held))

Unbound(sym) ==
  [symbol |-> sym, strategy |-> 0, opportunity |-> 0, status |-> QuoteStatus(quotes[sym]), action |-> "DATA_BLOCKED",
   verdict |-> Verdict("DATA_BLOCKED", FALSE, {}), hard |-> {"POSITION_THESIS_MISSING"}, soft |-> {}, plan |-> {}]

-----------------------------------------------------------------------------
(* get_today_brief(), build_decision_brief() *)

CoreRank == [EXECUTABLE |-> 0, WAIT_PULLBACK |-> 1, WAIT_BREAKOUT |-> 2, WATCH |-> 3, AVOID |-> 4, DATA_BLOCKED |-> 5]
HoldingRank == [EXIT |-> 0, TRIM |-> 1, WARNING |-> 2, HOLD |-> 3, DATA_BLOCKED |-> 4]
Before(a, b) == \E i \in DOMAIN a : a[i] < b[i] /\ \A j \in 1 .. i - 1 : a[j] = b[j]
CoreKey(r) == <<CoreRank[r.action], -r.opportunity, Severity[r.status], r.symbol, r.strategy>>
HoldingKey(r) == <<HoldingRank[r.action], r.strategy>>

RecordOf(s) ==
  BuildSignalRecord(s, quotes[s.symbol], s.symbol \in Held, IF s.symbol \in Held THEN {} ELSE account,
                    IF s.symbol \in Held THEN {} ELSE PortfolioBlockers)
Records(syms) == UNION {RecordOf(s) : s \in {t \in board : t.symbol \in syms}}
BestBySymbol(records) ==
  {r \in records : \A o \in records : o.symbol = r.symbol /\ o # r => Before(CoreKey(r), CoreKey(o))}
\* Unknown sectors are not counted together.
Bucket(r) == [sector |-> SectorOf[r.symbol], of |-> IF SectorOf[r.symbol] = "UNKNOWN" THEN r.symbol ELSE 0]
SelectCore(records) ==
  LET Take(chosen, r) ==
        IF Len(chosen) < MaxCore /\ Len(SelectSeq(chosen, LAMBDA c : Bucket(c) = Bucket(r))) < MaxPerSector
        THEN Append(chosen, r) ELSE chosen
  IN FoldLeft(Take, <<>>, SetToSortSeq(BestBySymbol(records), LAMBDA a, b : Before(CoreKey(a), CoreKey(b))))
FirstOf(sym, records) ==
  IF records = {} THEN Unbound(sym)
  ELSE CHOOSE r \in records : \A o \in records \ {r} : Before(HoldingKey(r), HoldingKey(o))
HoldingFor(sym) == FirstOf(sym, Records({sym}))
CoreRecords == Records(Symbols \ Held)
\* The signals whose record could not be built are counted; the first five reasons to avoid may name them.
TodayBrief ==
  [core |-> SelectCore(CoreRecords), holding |-> {HoldingFor(sym) : sym \in Held}, skipped |-> {s \in board : RecordOf(s) = {}}]

-----------------------------------------------------------------------------
(* What changes: quotes, signals, positions, the account *)

QuoteChanges(sym) ==
  /\ \E q \in Ticks[sym] \ {quotes[sym]} : quotes' = [quotes EXCEPT ![sym] = q]
  /\ UNCHANGED <<board, holdings, account>>
SignalsChange ==
  /\ board' \in Boards \ {board}
  /\ UNCHANGED <<quotes, holdings, account>>
\* post_portfolio_position(): the user follows a plan, and reports it, whether or not it is shown still
Buy ==
  /\ \E r \in CoreRecords : \E pl \in r.plan : \E z \in pl.size :
       /\ z.allowed /\ r.symbol \notin Held
       /\ holdings' = [holdings EXCEPT ![r.symbol] = [shares |-> z.shares, cost |-> z.entry]]
  /\ UNCHANGED <<board, quotes, account>>
DeletePosition(sym) ==
  /\ sym \in Held /\ holdings' = [holdings EXCEPT ![sym] = Nothing]
  /\ UNCHANGED <<board, quotes, account>>
\* put_portfolio_profile()
ProfileAccepted(p) ==
  /\ p.equity > 0 /\ p.cash <= p.equity /\ 0 < p.risk /\ p.risk <= p.heat
  /\ \A limit \in {p.heat, p.position, p.sector, p.theme} : 0 < limit /\ limit <= p.equity
PutProfile ==
  /\ account' \in Accounts /\ \A p \in account' : ProfileAccepted(p)
  /\ UNCHANGED <<board, quotes, holdings>>

BriefInit ==
  /\ board \in Boards /\ account = {}
  /\ quotes = [sym \in Symbols |-> NoTick] /\ holdings = [sym \in Symbols |-> Nothing]
BriefNext ==
  \/ \E sym \in Symbols : QuoteChanges(sym) \/ DeletePosition(sym)
  \/ SignalsChange \/ Buy \/ PutProfile
BriefSpec == BriefInit /\ [][BriefNext]_briefVars

-----------------------------------------------------------------------------
(* The contracts of types.py: what may not be constructed *)

VerdictContract(v, status, held) ==
  /\ v.action = "EXECUTABLE" => ~held /\ status = "LIVE" /\ v.actionable
  /\ v.action \in {"HOLD", "WARNING", "TRIM", "EXIT"} => held
  /\ v.action = "DATA_BLOCKED" \/ v.blockers # {} => ~v.actionable
SizeContract(z, s, p) ==
  /\ z.shares >= 0 /\ z.shares % LotOf[s] = 0 /\ z.shares * z.entry <= p.equity
  /\ IF z.allowed THEN z.shares > 0 /\ z.blockers = {} ELSE z.shares = 0 /\ z.blockers # {}
PlanContract(pl, status) ==
  /\ pl.hard # {} => pl.aggressive = {} /\ pl.action # "EXECUTABLE" /\ \A z \in pl.size : ~z.allowed
  /\ \A z \in pl.size : z.blockers \subseteq pl.hard
  /\ pl.action = "EXECUTABLE" => status = "LIVE"
  /\ pl.aggressive # {} => pl.soft # {} /\ status = "LIVE"
RecordContract(r, held) ==
  /\ VerdictContract(r.verdict, r.status, held)
  /\ r.action = "EXECUTABLE" => r.status = "LIVE"
  /\ r.action \in Opening => r.plan # {}
  /\ \A pl \in r.plan :
       /\ pl.action = r.action /\ PlanContract(pl, r.status)
       /\ \A z \in pl.size, p \in account : SizeContract(z, r.symbol, p)
BriefContract(b) ==
  LET core == Range(b.core)
      coreSymbols == {r.symbol : r \in core}
      heldSymbols == {r.symbol : r \in b.holding}
  IN /\ Cardinality(core) <= 5 /\ Cardinality(coreSymbols) = Len(b.core)
     /\ Cardinality(heldSymbols) = Cardinality(b.holding) /\ coreSymbols \intersect heldSymbols = {}
     /\ \A r \in core : r.action \in DOMAIN CoreRank
     /\ \A r \in b.holding : r.action \in DOMAIN HoldingRank

-----------------------------------------------------------------------------
(* Properties *)

\* What no record is built for: the quote was stored without a price; or the signal would open a
\* position, and its prices are given but not in order, or it is sized at a price under its entry zone.
NoRecordFor(s) ==
  LET q == quotes[s.symbol]
      action == MapSignalToAction(s, q, s.symbol \in Held).action
      entry == EntryReference(s, action, q)
  IN \/ q # NoTick /\ q.last = 0
     \/ /\ action \in Opening /\ PricesGiven(s)
        /\ ~PricesOrdered(s) \/ (account # {} /\ LotOf[s.symbol] > 0 /\ s.stop < entry /\ entry < s.low)

BriefSound(b, coreRecords) ==
  LET core == Range(b.core)
      Better(r, rivals) == {c \in rivals : Before(CoreKey(c), CoreKey(r))}
  IN /\ BriefContract(b) /\ b.skipped = {s \in board : NoRecordFor(s)}
     /\ \A r \in coreRecords : RecordContract(r, FALSE)
     /\ \A sym \in Held : \E r \in b.holding : r.symbol = sym /\ RecordContract(r, TRUE)
     /\ \A r \in coreRecords :
          \/ \E c \in core : c.symbol = r.symbol /\ ~Before(CoreKey(r), CoreKey(c))
          \/ Cardinality(Better(r, core)) >= MaxCore
          \/ Cardinality(Better(r, {c \in core : Bucket(c) = Bucket(r)})) >= MaxPerSector
     /\ \A r \in core \union b.holding : r.status \in {"STALE", "UNKNOWN"} => r.action = "DATA_BLOCKED"
\* The page can always be built. What one builder returns the next accepts, but where NoRecordFor
\* says: those signals, and no others, get_today_brief() skips and counts (a position that has no
\* other is shown as one without a plan). The contracts of types.py accept every record; every
\* position has one line; a record that could be shown and is not has MaxPerSector better ones of its
\* sector before it, or MaxCore better ones. Nothing is advised on a quote that is stale or unknown.
BriefIsSound == BriefSound(TodayBrief, CoreRecords)

\* Who follows a plan, whether or not it is among the best, stays within every limit of the account,
\* with what is held already, and no greater number of lots would: there are shares only where the
\* risk of every position is known.
PlansFit ==
  \A r \in CoreRecords : \A pl \in r.plan : \A z \in pl.size : \A p \in account :
    z.allowed =>
      LET stop == Min({s.stop : s \in {t \in board : t.symbol = r.symbol /\ t.strategy = r.strategy}})
          Fits(shares) ==
            /\ shares * z.entry <= Min({p.cash, p.position}) /\ shares * (z.entry - stop) <= p.risk
            /\ TotalRisk + shares * (z.entry - stop) <= p.heat
            /\ Exposure(SectorOf[r.symbol]) + shares * z.entry <= Min({p.sector, p.theme})
      IN /\ Fits(z.shares) /\ ~Fits(z.shares + LotOf[r.symbol])
         /\ \A sym \in Held : RiskKnown(sym)
=============================================================================
