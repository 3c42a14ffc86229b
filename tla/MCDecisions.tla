------------------------------ MODULE MCDecisions ------------------------------
(* Records and decisions: each behaviour is about one of these components, *)
(* the state of the others stands still.                                    *)
(*   RECORDS: four documents, two of which share a key, in two partitions.  *)
(*   SIGNALS: the HOT and the WARM thread on one symbol.                    *)
(*   BOOK: a book of manual plans that is empty.                            *)
(*   PREPARED: one with two symbols of one currency and one of another, and *)
(*   everything confirmed; a symbol's position may be closed for another.   *)
(*   HISTORY: a point-in-time archive that grows.                           *)
(*   SOURCES: what several sources say of an exchange, and reports about it. *)
(*   ACTIONS: what they say of corporate actions, and what that makes bars.  *)
EXTENDS PhysicalStore, SignalPipeline, PlanBook, PointInTime, MCReconciliation

CONSTANTS k1, k2, k3, q1, q2

Doc(k, q, t, x) == [key |-> k, partition |-> q, observedAt |-> t, payload |-> x]
MCInputs == {Doc(k1, q1, 0, 1), Doc(k1, q1, 0, 2), Doc(k2, q2, 1, 1), Doc(k3, q1, 0, 1)}

MCSymbolOf == [a1 |-> "A", a2 |-> "A", b1 |-> "B", c1 |-> "C"]
MCCurrencyOf == [A |-> "CNY", B |-> "CNY", C |-> "USD"]
Held == [h \in Holdings |-> CASE h = "a1" -> 2 [] h = "a2" -> 0 [] OTHER -> 1]
Pos(h) == [holding |-> h, shares |-> IF h = "a1" THEN 2 ELSE 1]
Sleeves(h) ==
  [parent |-> Pos(h), core |-> [u \in Purposes |-> 0],
   tactical |-> [u \in Purposes |-> IF h = "a1" \/ u = "SWING" THEN 1 ELSE 0]]
Stock(h) == [parent |-> Pos(h), sellable |-> 1, maximum |-> 2, expires |-> 1]
\* What four allocations, three inventories and two confirmations of cash replay to.
Prepared ==
  [revision |-> 9, allocations |-> [h \in Holdings |-> {Sleeves(h)}],
   inventory |-> [h \in Holdings |-> IF Held[h] > 0 THEN {Stock(h)} ELSE {}],
   cash |-> [c \in Currencies |-> {[available |-> 2, expires |-> 1]}], plans |-> {}]

-----------------------------------------------------------------------------
(* Archives for the point-in-time books: each behaviour is about one of them. *)
Fact(name, source, of, part, from, to, state, rev, sup) ==
  [book |-> name, source |-> source, of |-> of, part |-> part, symbol |-> of, from |-> from, to |-> to,
   state |-> state, ref |-> 1, rev |-> rev, sup |-> sup, verified |-> TRUE, known |-> 0, usable |-> 0]
Cover(name, source, from, to, rev, sup) == Fact(name, source, "a", "", from, to, "complete", rev, sup)
Act(id, from, state, rev, sup) == Fact("action", "s", "a", id, from, from, state, rev, sup)
Event(from, state, rev, sup) == Fact("event", "e", "m", "n", from, from, state, rev, sup)
Confirm(state, ref) == [Fact("confirmation", "e", "m", "n", 0, 0, state, 1, 0) EXCEPT !.ref = ref]
Ident(of, from, to, rev) == Fact("identity", "i", of, "", from, to, "active", rev, 0)
Member(of, from, state, rev) == Fact("member", "u", of, "", from, from, state, rev, 0)
Status(of, from, state) == Fact("status", "i", of, "", from, from, state, 1, 0)
Day(from, state, rev, sup) == Fact("day", "k", "m", "", from, from, state, rev, sup)
Halt(from, ref, rev) == [Fact("session", "k", "a", "", from, from, "halted", rev, 0) EXCEPT !.ref = ref]
Class(to, rev, sup) == Fact("class", "t", "c", "", 0, to, "", rev, sup)
In(to, rev, sup) == Fact("class member", "t", "a", "c", 0, to, "included", rev, sup)

Covers == {Cover("action coverage", "s", 0, 1, 1, 0), Cover("event coverage", "e", 0, 1, 1, 0),
           Cover("class coverage", "t", 0, 1, 1, 0), Cover("universe coverage", "u", 0, 1, 1, 0),
           Cover("calendar coverage", "k", 0, 1, 1, 0)}
Base == Covers \union {Day(0, "open", 1, 0), Day(1, "open", 1, 0), Class(9, 1, 0),
                       Member("a", 0, "included", 1), Status("a", 0, "listed")}
A == Ident("a", 0, 9, 1)

MCArchives == {[known |-> k, coming |-> c] : <<k, c>> \in
  {Base \union {A}} \X {
  \* a plan that is announced, takes effect and is moved; then back, beside another one
  {Act("x", 0, "announced", 1, 0), Act("x", 1, "effective", 2, 1), Act("x", 0, "effective", 3, 2)},
  {Act("x", 1, "effective", 1, 0), Act("x", 0, "cancelled", 2, 1), Act("y", 1, "effective", 1, 0)},
  \* a coverage that is narrowed, another source
  {Cover("action coverage", "s", 0, 0, 2, 1), Cover("action coverage", "z", 1, 1, 1, 0), Act("x", 0, "effective", 1, 0)},
  \* an event that is moved or cancelled, and the market's answer to either revision
  {Event(0, "active", 1, 0), Event(1, "active", 2, 1), Confirm("confirmed", 1)},
  {Event(0, "active", 1, 0), Confirm("confirmed", 1), Confirm("denied", 1)},
  {Event(0, "cancelled", 1, 0), Confirm("confirmed", 1), Cover("event coverage", "e", 0, 0, 2, 1)},
  \* revisions that contradict each other
  {Event(0, "active", 1, 2), Event(1, "active", 2, 1), Event(0, "cancelled", 2, 0)},
  \* a membership of a class that ends, and a class that does
  {In(1, 1, 0), In(0, 2, 1), Class(0, 2, 1)},
  \* sessions: a day that is found closed, days without a bar
  {Day(1, "closed", 2, 1), Halt(1, 0, 1), Halt(1, 1, 2)},
  {Day(1, "closed", 2, 0), Halt(0, 1, 1), Cover("calendar coverage", "k", 1, 1, 2, 0)},
  \* an instrument that leaves
  {Member("a", 1, "excluded", 1), Member("a", 0, "excluded", 2), Status("a", 1, "listed")},
  \* an identity that is found to have ended, and then not to have
  {Ident("a", 0, 0, 2), Ident("a", 0, 9, 3), Status("a", 1, "listed"), Cover("universe coverage", "u", 0, 2, 2, 0)}}
  \union {
  \* one that joins, under a name that is in use
  <<Base \union {A, Status("a", 1, "listed"), Status("b", 0, "listed")},
    {Member("b", 0, "included", 1), Member("b", 1, "excluded", 1), Ident("b", 0, 1, 1)}>>,
  \* an identity that becomes known late
  <<Base, {A, Act("x", 0, "effective", 1, 0), In(1, 1, 0)}>>}}

-----------------------------------------------------------------------------
VARIABLE kind
mcVars == <<kind, vars, signalVars, bookVars, sourceVars, actionVars>>

MCInit ==
  /\ kind \in {"RECORDS", "SIGNALS", "BOOK", "PREPARED", "HISTORY", "SOURCES", "ACTIONS"}
  /\ Init /\ SignalInit
  /\ kind # "SIGNALS" => tape.last = "ABOVE"
  /\ IF kind = "PREPARED" THEN tick = 0 /\ positions = Held /\ book = Prepared ELSE BookInit
  /\ IF kind = "HISTORY" THEN HistoryInit ELSE today = 0 /\ learned = {} /\ coming = {}
  /\ IF kind = "SOURCES" THEN SourcesInit ELSE published = Set({}, {}) /\ calendars = {} /\ securities = {}
  /\ IF kind = "ACTIONS" THEN ActionsInit
     ELSE filing = Plainly({}) /\ captures = {} /\ bundles = {} /\ mapped = {} /\ instant = 1

\* An empty book sees three commands, a prepared one keeps its sleeves.
FewCommands ==
  IF kind = "BOOK"
  THEN /\ book'.revision <= 3 /\ tick' = 0
       /\ \A h \in Holdings \ {"a1"} : positions'[h] = 0
  ELSE /\ book'.allocations = book.allocations
       /\ positions'["a1"] \in {0, 2} /\ positions'["a2"] \in {0, 1}
       /\ positions'["b1"] = 1 /\ positions'["c1"] = 1

\* Documents are captured, then bound as of the first or the last instant, then mapped.
FewBundles ==
  /\ <<bundles, mapped>>' # <<bundles, mapped>> => instant = LastInstant
  /\ mapped' # mapped => \A c \in captures : \E b \in bundles : b.capture = c
  /\ \A b \in bundles' : b.asOf \in {1, LastInstant} /\ \A e \in bundles' : e.capture = b.capture => e = b
  /\ Cardinality(filing.documents) = 3 => \A a, b \in captures' : a.document = b.document => a = b

MCNext ==
  /\ UNCHANGED kind
  /\ \/ kind = "RECORDS" /\ Next /\ UNCHANGED <<signalVars, bookVars, sourceVars, actionVars>>
     \/ kind = "SIGNALS" /\ SignalNext /\ UNCHANGED <<vars, bookVars, sourceVars, actionVars>>
     \/ kind \in {"BOOK", "PREPARED"} /\ BookNext /\ FewCommands /\ UNCHANGED <<vars, signalVars, sourceVars, actionVars>>
     \/ kind = "HISTORY" /\ HistoryNext /\ UNCHANGED <<vars, signalVars, bookVars, published, calendars, securities, actionVars>>
     \/ kind = "SOURCES" /\ SourcesNext /\ UNCHANGED <<vars, signalVars, bookVars, actionVars>>
     \/ kind = "ACTIONS" /\ ActionsNext /\ FewBundles /\ UNCHANGED <<vars, signalVars, bookVars, sourceVars>>
MCSpec == MCInit /\ [][MCNext]_mcVars
=============================================================================
