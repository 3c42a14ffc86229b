------------------------------- MODULE Backtest -------------------------------
(* quant/backtest: what an order would have been filled at on a history of *)
(* bars, and the ledger of cash and positions that a list of orders leaves.*)
(* One instrument and one market; a session is its index in the history.   *)
(* Costs are whole amounts: what a share slips, the tax and commission of  *)
(* a share, and the least commission of an order.                          *)
EXTENDS Integers, FiniteSetsExt, SequencesExt

CONSTANTS
  BarShapes,   \* what a session can close with: [state, open, high, low, volume, up, down]
  Rules,       \* market rules: [from, to, verified, lot, nextDay, limits]
  Overrides,   \* the instrument's own: [from, to, verified, lot]
  Schedules,   \* cost schedules: [from, to, verified, slip, fee, least, tax, share]
  Orders,      \* [id, position, side, start, quantity, end]
  Funds,
  Unknown,     \* whether a price limit was locked is not known
  MaxSessions, MaxOrders   \* bounds

VARIABLES
  bars,        \* the history, one bar per session
  intents,     \* the orders of the run that are left, in order; <<>> before it
  cash,
  positions,   \* by position that is open: its entry fill
  events,      \* the ledger's fills and rejections
  phase        \* "history", "run" or "over"

backtestVars == <<bars, intents, cash, positions, events, phase>>

ASSUME BooksDoNotOverlap ==
  \A book \in {Rules, Overrides, Schedules} : \A r, q \in book : r # q => r.to < q.from \/ q.to < r.from
ASSUME AmountsAreWhole ==
  /\ Funds \in Nat
  /\ \A bar \in BarShapes : {bar.open, bar.high, bar.low, bar.volume} \subseteq Nat
  /\ \A rule \in Rules \union Overrides : rule.lot \in Nat \ {0}
  /\ \A s \in Schedules : {s.slip, s.fee, s.least, s.tax} \subseteq Nat /\ s.share \in Nat \ {0}
  /\ \A o \in Orders : o.side \in {"BUY", "SELL"} /\ {o.start, o.quantity} \subseteq Nat \ {0} /\ o.end \in Nat

Versions(book, day) == {r \in book : r.verified /\ r.from <= day /\ day <= r.to}
Covered(book, day) == Cardinality(Versions(book, day)) = 1
RuleOn(day) == CHOOSE r \in Versions(Rules, day) : TRUE
ScheduleOn(day) == CHOOSE r \in Versions(Schedules, day) : TRUE

LotOn(day) ==
  LET own == Versions(Overrides, day)
  IN IF own = {} THEN RuleOn(day).lot ELSE (CHOOSE r \in own : TRUE).lot

TooSoonButSameDay(i, side, acquired) == RuleOn(i).nextDay /\ side = "SELL" /\ i < acquired
TooSoon(i, side, acquired) == RuleOn(i).nextDay /\ side = "SELL" /\ i <= acquired

\* A missing rule is raised, everything else is a reason of the ledger.
Decision(b, i, side, acquired) ==
  IF ~Covered(Rules, i) THEN "RAISED"
  ELSE IF b[i].state # "OPEN" THEN "NOT_OPEN"
  ELSE IF TooSoon(i, side, acquired) THEN "T_PLUS_ONE"
  ELSE IF RuleOn(i).limits /\ Unknown \in {b[i].up, b[i].down} THEN "UNKNOWN_PRICE_LIMIT_STATE"
  ELSE IF side = "BUY" /\ b[i].up = TRUE THEN "LOCKED_LIMIT_UP"
  ELSE IF side = "SELL" /\ b[i].down = TRUE THEN "LOCKED_LIMIT_DOWN"
  ELSE "EXECUTABLE"

Rounded(i, quantity) == (quantity \div LotOn(i)) * LotOn(i)
Quantity(b, i, wanted) == Min({Rounded(i, wanted), Rounded(i, b[i].volume \div ScheduleOn(i).share)})
Clipped(bar, price) == Max({bar.low, Min({bar.high, price})})
Signed(side, amount) == IF side = "BUY" THEN amount ELSE 0 - amount

Refused(reason) == [kind |-> "REFUSED", reason |-> reason]
Fees(i, side, quantity) ==
  Max({ScheduleOn(i).least, ScheduleOn(i).fee * quantity})
    + IF side = "SELL" THEN ScheduleOn(i).tax * quantity ELSE 0
Fill(b, i, side, quantity, reference) ==
  LET price == Clipped(b[i], reference + Signed(side, ScheduleOn(i).slip))
  IN [kind |-> "FILL", at |-> i, side |-> side, quantity |-> quantity, price |-> price,
      amount |-> price * quantity + Signed(side, Fees(i, side, quantity))]

FillAt(b, i, side, wanted, acquired, reference) ==
  LET decision == Decision(b, i, side, acquired)
  IN IF decision # "EXECUTABLE" THEN Refused(decision)
     ELSE IF reference \notin b[i].low..b[i].high THEN Refused("REFERENCE")
     ELSE IF Rounded(i, wanted) = 0 THEN Refused("LOT")
     ELSE IF ~Covered(Schedules, i) THEN Refused("RAISED")
     ELSE IF Quantity(b, i, wanted) = 0 THEN Refused("PARTICIPATION")
     ELSE Fill(b, i, side, Quantity(b, i, wanted), reference)

\* The first session that is not refused outright decides.
Deciding(b, start, side, acquired, end) ==
  {i \in start..Min({Len(b), end}) :
     Decision(b, i, side, acquired) \in {"RAISED", "UNKNOWN_PRICE_LIMIT_STATE", "EXECUTABLE"}}
NextFill(b, start, side, wanted, acquired, end) ==
  LET deciding == Deciding(b, start, side, acquired, end)
  IN IF deciding = {} THEN Refused("NO_EXECUTABLE_SESSION")
     ELSE FillAt(b, Min(deciding), side, wanted, acquired, b[Min(deciding)].open)

-----------------------------------------------------------------------------
(* ExecutionBacktester.run(): the orders by start and id, one at a time.    *)
Intent == Head(intents)
Sooner(o, p) == o.start < p.start \/ (o.start = p.start /\ o.id < p.id)
Sorted(orders) ==
  {s \in [1..Cardinality(orders) -> orders] : \A i, j \in DOMAIN s : i < j => Sooner(s[i], s[j])}
Purchase(i) == events[i].type = "BUY"
Sale(i) == events[i].type = "SELL"
FilledSet == {i \in DOMAIN events : Purchase(i) \/ Sale(i)}
IsOpen(p) == p \in DOMAIN positions
NeverLate(fill) == FALSE
Late(fill) == FilledSet # {} /\ fill.at < events[Max(FilledSet)].fill.at

Attempt ==
  NextFill(bars, Intent.start, Intent.side, Intent.quantity,
           IF Intent.side = "SELL" THEN positions[Intent.position].at ELSE 0, Intent.end)
Affordable(fill) == fill.amount <= cash

Settle(type, fill, pnl) ==
  /\ events' = Append(events, [type |-> type, position |-> Intent.position, fill |-> fill, pnl |-> pnl])
  /\ intents' = Tail(intents)
  /\ phase' = IF Len(intents) = 1 THEN "over" ELSE "run"
  /\ UNCHANGED bars

\* An order that is not tried at all, or whose attempt is refused.
Tried ==
  IF Intent.side = "BUY" THEN ~IsOpen(Intent.position)
  ELSE IsOpen(Intent.position) /\ Intent.quantity = positions[Intent.position].quantity
Raised == Tried /\ Attempt = Refused("RAISED")
Accepted ==
  /\ Tried /\ Attempt.kind = "FILL" /\ ~Late(Attempt)
  /\ Intent.side = "BUY" => Affordable(Attempt)

Reject ==
  /\ ~Accepted /\ ~Raised
  /\ Settle("REJECT", Refused("REJECTED"), 0) /\ UNCHANGED <<cash, positions>>
Buy ==
  /\ Intent.side = "BUY" /\ Accepted
  /\ cash' = cash - Attempt.amount
  /\ positions' = [p \in DOMAIN positions \cup {Intent.position} |->
                     IF p = Intent.position THEN Attempt ELSE positions[p]]
  /\ Settle("BUY", Attempt, 0)
\* A sale that the volume of its session cuts down closes the whole position.
Sell ==
  /\ Intent.side = "SELL" /\ Accepted
  /\ cash' = cash + Attempt.amount
  /\ positions' = [p \in DOMAIN positions \ {Intent.position} |-> positions[p]]
  /\ Settle("SELL", Attempt, Attempt.amount - positions[Intent.position].amount)
\* Only what a refusal raises is caught: without a rule the whole run is lost.
Abandon == Raised /\ phase' = "over" /\ UNCHANGED <<bars, intents, cash, positions, events>>

CloseSession(shape) ==
  /\ phase = "history" /\ Len(bars) < MaxSessions
  /\ bars' = Append(bars, shape)
  /\ UNCHANGED <<intents, cash, positions, events, phase>>
Run(orders) ==
  /\ phase = "history" /\ Len(bars) = MaxSessions /\ orders # {}
  /\ intents' \in Sorted(orders) /\ phase' = "run"
  /\ UNCHANGED <<bars, cash, positions, events>>

BacktestInit ==
  /\ bars = <<>> /\ intents = <<>> /\ cash = Funds /\ events = <<>> /\ phase = "history"
  /\ positions = [p \in {} |-> Unknown]
BacktestNext ==
  \/ \E shape \in BarShapes : CloseSession(shape)
  \/ \E orders \in UNION {kSubset(n, Orders) : n \in 1..MaxOrders} : Run(orders)
  \/ phase = "run" /\ (Reject \/ Buy \/ Sell \/ Abandon)

(* A ledger that could have happened: when a purchase is made, the fills of *)
(* the earlier sessions and those before it in its own leave cash for it,  *)
(* whatever the order in which the intents were taken up; what is sold was *)
(* bought before, in an earlier session where the rule says so; and the    *)
(* cash is the funds, the profit of what was closed and the outlay of what *)
(* is open.                                                                *)
Before(i, j) ==
  events[i].fill.at < events[j].fill.at \/ (events[i].fill.at = events[j].fill.at /\ i < j)
Flow(i) == Signed(events[i].type, 0 - events[i].fill.amount)
LedgerIsPossible ==
  /\ \A i \in FilledSet : Purchase(i) =>
       Funds + Flow(i) + SumFunction([j \in {k \in FilledSet : Before(k, i)} |-> Flow(j)]) >= 0
  /\ \A i \in FilledSet : Sale(i) =>
       \E j \in FilledSet :
         /\ Purchase(j) /\ Before(j, i) /\ events[j].position = events[i].position
         /\ RuleOn(events[i].fill.at).nextDay => events[j].fill.at < events[i].fill.at
         /\ \A k \in FilledSet \ {i, j} :
              events[k].position = events[i].position => ~(Before(j, k) /\ Before(k, i))
  /\ cash = Funds + SumFunction([i \in FilledSet |-> events[i].pnl])
              - SumFunction([p \in DOMAIN positions |-> positions[p].amount])
=============================================================================
