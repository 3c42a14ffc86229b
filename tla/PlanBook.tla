------------------------------- MODULE PlanBook -------------------------------
(***************************************************************************)
(* The book of manual plans (portfolio_planning/domain.py, store.py): what *)
(* a person reserves of the shares and the cash they say they have.  Every *)
(* command is one transaction that replays the log, reduces the command    *)
(* and appends it; a command sent twice, or from an old page, changes      *)
(* nothing.  The positions are in another database and change any time.    *)
(*                                                                         *)
(* Left out: the lot size, the fees (part of the cost) and the validity of *)
(* a plan, which is checked once and releases nothing.                     *)
(***************************************************************************)
EXTENDS Naturals, FiniteSets, FiniteSetsExt

CONSTANTS
  Holdings,      \* ids of positions
  SymbolOf,      \* the symbol of each
  Currencies,
  CurrencyOf,    \* the currency of each symbol's market
  Purposes,
  PlanIds,
  Shares,        \* sizes of a position, of a sleeve, of a plan
  Limits,        \* the largest position confirmed
  Amounts,       \* cash and costs
  Window,        \* how long a confirmation holds at most
  MaxCommands,   \* MAX_COMMANDS
  MaxTick        \* bound: clock

ASSUME BookAssumption ==
  /\ IsFiniteSet(Currencies)
  /\ SymbolOf \in [Holdings -> DOMAIN CurrencyOf]
  /\ \A y \in DOMAIN CurrencyOf : CurrencyOf[y] \in Currencies
  /\ Shares \subseteq Nat /\ Limits \subseteq Nat /\ Amounts \subseteq Nat
  /\ Window \in Nat /\ MaxCommands \in Nat /\ Cardinality(Currencies) <= MaxCommands

VARIABLES
  tick,       \* the clock
  positions,  \* the shares of each open position, 0 when there is none
  book        \* what the log replays to

bookVars == <<tick, positions, book>>

\* What is set or confirmed is a set of at most one record, the last one.
EmptyBook ==
  [revision |-> 0, allocations |-> [h \in Holdings |-> {}],
   inventory |-> [h \in Holdings |-> {}], cash |-> [c \in Currencies |-> {}],
   plans |-> {}]

-----------------------------------------------------------------------------
\* A parent is known by its contents: a position that is what it was is the same.
Parent(h) == [holding |-> h, shares |-> positions[h]]
Open == {h \in Holdings : positions[h] > 0}
Currency(h) == CurrencyOf[SymbolOf[h]]

Active == {p \in book.plans : p.status \in {"RESERVED", "RECONCILIATION_REQUIRED"}}
ActiveOf(h) == {p \in Active : p.parent.holding = h}
ActiveIn(c) == {p \in Active : Currency(p.parent.holding) = c}
ActiveCurrencies == {Currency(p.parent.holding) : p \in Active}

Quantities(plans) == SumFunction([p \in plans |-> p.quantity])
Costs(plans) == SumFunction([p \in plans |-> p.cost])
Fresh(item) == tick < item.expires

\* Mutant: any command may use the end of the log.
RoomForAny(kind) == book.revision < MaxCommands
\* The end of the log is for the reconciliation of every currency.
Room(kind) ==
  /\ book.revision < MaxCommands
  /\ kind = "RECONCILE" \/ book.revision < MaxCommands - Cardinality(Currencies)
Commit(next) == book' = [next EXCEPT !.revision = book.revision + 1]

-----------------------------------------------------------------------------
(* reduce_command(), one action per kind.                                  *)

\* Sleeves of core and tactical shares; an empty one is not in the list.
SetAllocation(h, core, tactical) ==
  /\ Room("SET_ALLOCATION")
  /\ h \in Open /\ ActiveOf(h) = {}
  /\ MapThenSumSet(LAMBDA u : core[u] + tactical[u], Purposes) <= positions[h]
  /\ Commit([book EXCEPT !.allocations[h] =
               {[parent |-> Parent(h), core |-> core, tactical |-> tactical]}])
  /\ UNCHANGED <<tick, positions>>

ConfirmInventory(h, sellable, maximum, expires) ==
  /\ Room("CONFIRM_INVENTORY")
  /\ h \in Open /\ ActiveOf(h) = {}
  /\ sellable <= positions[h]
  /\ tick < expires /\ expires <= tick + Window
  /\ Commit([book EXCEPT !.inventory[h] =
               {[parent |-> Parent(h), sellable |-> sellable, maximum |-> maximum,
                 expires |-> expires]}])
  /\ UNCHANGED <<tick, positions>>

ConfirmCash(c, available, expires) ==
  /\ Room("CONFIRM_CASH")
  /\ ActiveIn(c) = {}
  /\ tick < expires /\ expires <= tick + Window
  /\ Commit([book EXCEPT !.cash[c] = {[available |-> available, expires |-> expires]}])
  /\ UNCHANGED <<tick, positions>>

\* Cash is shared by every plan of a currency.
CostsBefore(h) == Costs(ActiveIn(Currency(h)))
\* Mutant: only the plan's own position is looked at.
NoOlderParentOf(h) == \A p \in ActiveOf(h) : p.parent = Parent(h)
\* No plan is open on the same symbol as it was before.
NoOlderParent(h) ==
  \A p \in Active : SymbolOf[p.parent.holding] = SymbolOf[h] => p.parent = Parent(h)
\* Shares bought while a plan is open add to the position.
Peak(h, direction, quantity) ==
  positions[h] + Quantities({p \in ActiveOf(h) : p.direction = "BUY_THEN_SELL"})
  + IF direction = "BUY_THEN_SELL" THEN quantity ELSE 0

Reserve(id, h, purpose, direction, quantity, cost) ==
  /\ Room("RESERVE")
  /\ \A p \in book.plans : p.id # id
  /\ h \in Open /\ NoOlderParent(h)
  /\ \A p \in ActiveIn(Currency(h)) : p.status # "RECONCILIATION_REQUIRED"
  /\ \E money \in book.cash[Currency(h)] :
       Fresh(money) /\ cost <= money.available - CostsBefore(h)
  /\ \E sleeves \in book.allocations[h] :
       /\ sleeves.parent = Parent(h)
       /\ quantity <= sleeves.tactical[purpose]
                      - Quantities({p \in ActiveOf(h) : p.purpose = purpose})
  /\ \E stock \in book.inventory[h] :
       /\ stock.parent = Parent(h) /\ Fresh(stock)
       /\ quantity <= stock.sellable - Quantities(ActiveOf(h))
       /\ Peak(h, direction, quantity) <= stock.maximum
  /\ Commit([book EXCEPT !.plans = @ \cup
               {[id |-> id, parent |-> Parent(h), purpose |-> purpose, direction |-> direction,
                 quantity |-> quantity, cost |-> cost, status |-> "RESERVED"]}])
  /\ UNCHANGED <<tick, positions>>

Becomes(p, status) == (book.plans \ {p}) \cup {[p EXCEPT !.status = status]}
Cancel(p) ==
  /\ Room("CANCEL") /\ p.status = "RESERVED"
  /\ Commit([book EXCEPT !.plans = Becomes(p, "CANCELLED")])
  /\ UNCHANGED <<tick, positions>>
MarkExecuted(p) ==
  /\ Room("MARK_EXECUTED") /\ p.status = "RESERVED"
  /\ Commit([book EXCEPT !.plans = Becomes(p, "RECONCILIATION_REQUIRED")])
  /\ UNCHANGED <<tick, positions>>

\* Every plan of a currency is closed at once, and nothing confirmed for it stays.
Reconcile(c) ==
  /\ Room("RECONCILE") /\ ActiveIn(c) # {}
  /\ Commit([book EXCEPT
       !.plans = (@ \ ActiveIn(c)) \cup {[p EXCEPT !.status = "CLOSED"] : p \in ActiveIn(c)},
       !.cash[c] = {},
       !.inventory = [h \in Holdings |-> IF Currency(h) = c THEN {} ELSE @[h]]])
  /\ UNCHANGED <<tick, positions>>

-----------------------------------------------------------------------------
\* External: the positions.  A symbol has one open position.
ChangePosition(h, shares) ==
  /\ shares > 0 => \A g \in Open \ {h} : SymbolOf[g] # SymbolOf[h]
  /\ positions' = [positions EXCEPT ![h] = shares]
  /\ UNCHANGED <<tick, book>>

PassTick ==
  /\ tick < MaxTick /\ tick' = tick + 1
  /\ UNCHANGED <<positions, book>>

BookInit ==
  /\ tick = 0 /\ positions = [h \in Holdings |-> 0] /\ book = EmptyBook

BookCommand ==
  \/ \E h \in Holdings, core, tactical \in [Purposes -> Shares] : SetAllocation(h, core, tactical)
  \/ \E h \in Holdings, sellable \in Shares, maximum \in Limits, e \in tick..(tick + Window) :
       ConfirmInventory(h, sellable, maximum, e)
  \/ \E c \in Currencies, available \in Amounts, e \in tick..(tick + Window) :
       ConfirmCash(c, available, e)
  \/ \E id \in PlanIds, h \in Holdings, purpose \in Purposes,
        direction \in {"BUY_THEN_SELL", "SELL_THEN_BUY"},
        quantity \in Shares \ {0}, cost \in Amounts \ {0} :
       Reserve(id, h, purpose, direction, quantity, cost)
  \/ \E p \in book.plans : Cancel(p) \/ MarkExecuted(p)
  \/ \E c \in Currencies : Reconcile(c)
BookNext ==
  \/ BookCommand
  \/ \E h \in Holdings, shares \in Shares : ChangePosition(h, shares)
  \/ PassTick
BookSpec == BookInit /\ [][BookNext]_bookVars

-----------------------------------------------------------------------------
(* Properties.                                                             *)

Statuses == {"RESERVED", "RECONCILIATION_REQUIRED", "CANCELLED", "CLOSED"}
Parents == [holding : Holdings, shares : Nat]
Plans ==
  [id : PlanIds, parent : Parents, purpose : Purposes,
   direction : {"BUY_THEN_SELL", "SELL_THEN_BUY"}, quantity : Nat, cost : Nat,
   status : Statuses]
Allocations == [parent : Parents, core : [Purposes -> Nat], tactical : [Purposes -> Nat]]
Inventories == [parent : Parents, sellable : Nat, maximum : Nat, expires : Nat]
Monies == [available : Nat, expires : Nat]
BookTypeOK ==
  /\ tick \in Nat
  /\ positions \in [Holdings -> Nat]
  /\ book \in [revision : Nat, allocations : [Holdings -> SUBSET Allocations],
               inventory : [Holdings -> SUBSET Inventories],
               cash : [Currencies -> SUBSET Monies], plans : SUBSET Plans]

\* All open plans of a symbol mean the same position, the one its sleeves and
\* its inventory were set for.
SameParent ==
  \A p \in Active :
    /\ \A q \in Active :
         SymbolOf[q.parent.holding] = SymbolOf[p.parent.holding] => q.parent = p.parent
    /\ \E item \in book.allocations[p.parent.holding] : item.parent = p.parent
    /\ \E item \in book.inventory[p.parent.holding] : item.parent = p.parent

\* Whatever is confirmed, reserved, executed and changed in whatever order, the
\* open plans together never promise more than was confirmed for them: not the
\* cash of a currency, nor the sellable or the tactical shares of a symbol, nor
\* the largest position, and all plans of a symbol mean the same position.
NoOvercommit ==
  /\ SameParent
  /\ \A c \in Currencies :
       ActiveIn(c) # {} => \E money \in book.cash[c] : Costs(ActiveIn(c)) <= money.available
  /\ \A h \in Holdings :
       ActiveOf(h) # {} => \E sleeves \in book.allocations[h], stock \in book.inventory[h] :
         LET bought == {p \in ActiveOf(h) : p.direction = "BUY_THEN_SELL"}
         IN /\ Quantities(ActiveOf(h)) <= stock.sellable
            /\ \A u \in Purposes :
                 Quantities({p \in ActiveOf(h) : p.purpose = u}) <= sleeves.tactical[u]
            /\ bought # {} => stock.parent.shares + Quantities(bought) <= stock.maximum

\* The log never fills up before the plans of every currency could be closed:
\* what is reserved is never stuck in the book.
CanReconcile ==
  /\ book.revision <= MaxCommands
  /\ Cardinality(ActiveCurrencies) <= MaxCommands - book.revision
=============================================================================
