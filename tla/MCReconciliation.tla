--------------------------- MODULE MCReconciliation ---------------------------
(* What is published, by source, and what is filed of corporate actions:   *)
(* each behaviour is about one of these sets.                              *)
EXTENDS Reconciliation, PriceAdjustment

Notice(family, version, type, from, to, table, rev, sup, delay) ==
  [family |-> family, version |-> version, type |-> type, inferred |-> type = "ANNUAL", from |-> from, to |-> to,
   table |-> table, rev |-> rev, sup |-> sup, delay |-> delay]
Year(family) == Notice(family, 1, "ANNUAL", 0, 2, <<>>, 1, 0, 0)
Change(type, date, state, rev, sup, delay) == Notice("x", 1, type, date, date, date :> state, rev, sup, delay)

Info(book, of, symbol, from, to, state, rev, delay) ==
  [book |-> book, of |-> of, part |-> "", symbol |-> symbol, from |-> from, to |-> to, state |-> state,
   trading |-> "unknown", risk |-> "NORMAL", rev |-> rev, delay |-> delay]
Named(of, symbol, from, to) == Info("identity", of, symbol, from, to, "active", 1, 0)
Joined(of, symbol, from, state, rev, delay) == Info("member", of, symbol, from, from, state, rev, delay)
Stands(of, symbol, from, state, trading, rev) ==
  [Info("status", of, symbol, from, from, state, rev, 0) EXCEPT !.trading = trading]
Listed(of, symbol, from) == Stands(of, symbol, from, "listed", "tradable", 1)
Paused(of, from, part, trading) == [Stands(of, "A", from, "listed", trading, 1) EXCEPT !.book = "interval", !.part = part]

Artifact(source, version, required, rows) ==
  [source |-> source, version |-> version, from |-> 0, to |-> 2, delay |-> 0, required |-> required,
   declared |-> FALSE, rows |-> rows]
\* Instrument i under the symbol A, and what the exchange says of it.
Plain == {Named("i", "A", 0, 9), Joined("i", "A", 0, "included", 1, 0), Listed("i", "A", 0), Listed("i", "A", 1)}
One(rows) == Artifact("s", 1, {0, 1}, rows)
Two(rows) == Artifact("t", 1, {1}, rows)

Set(notices, artifacts) == [notices |-> notices, artifacts |-> artifacts]
MCSources ==
  {Set(n, {One(Plain)}) : n \in {
     \* a year, and a family that agrees, or does not, on what a revision changes
     {Year("x"), Change("HOLIDAY", 1, "closed", 2, 1, 0), Notice("y", 1, "HOLIDAY", 1, 1, 1 :> "closed", 1, 0, 0)},
     {Year("x"), Change("HOLIDAY", 1, "closed", 3, 1, 0), Change("REVISION", 1, "open", 2, 3, 1)},
     {Year("x"), Change("TEMPORARY", 0, "half", 2, 1, 1), Change("REVISION", 0, "open", 3, 1, 0)},
     {Year("x"), Change("HOLIDAY", 1, "open", 2, 0, 0), Notice("y", 2, "HOLIDAY", 0, 1, 0 :> "open" @@ 1 :> "half", 1, 0, 0)},
     {Year("x"), Notice("x", 2, "REVISION", 1, 1, 1 :> "open", 2, 1, 0)}}}
  \union
  {Set({Year("x")}, a) : a \in {
     \* another source that knows when it left, first or by a correction
     {One(Plain), Two({Named("i", "A", 0, 9), Joined("i", "A", 0, "included", 1, 0), Joined("i", "A", 1, "excluded", 1, 0),
                       Listed("i", "A", 1)})},
     {One(Plain \union {Joined("i", "A", 0, "excluded", 2, 1)}), Two(Plain)},
     {One(Plain \union {Joined("i", "A", 1, "excluded", 1, 1), Joined("i", "A", 1, "included", 2, 1)}),
      Two(Plain \union {Joined("i", "A", 1, "included", 1, 0)})},
     \* two instruments of one symbol, an identity that is still open elsewhere
     {One(Plain), Two({Named("j", "A", 1, 9), Joined("j", "A", 1, "included", 1, 0), Listed("j", "A", 1)})},
     {One({Named("i", "A", 0, 0), Named("j", "A", 1, 9), Joined("i", "A", 0, "included", 1, 0), Joined("i", "A", 1, "excluded", 1, 0),
           Joined("j", "A", 1, "included", 1, 0), Listed("i", "A", 0), Listed("j", "A", 1)}), Two(Plain)},
     {One(Plain), Two({Named("i", "A", 0, 1), Named("i", "B", 2, 9), Joined("i", "A", 0, "included", 1, 0), Listed("i", "A", 1)})},
     \* a symbol that changes, and a membership that says so later
     {One({Named("i", "A", 0, 0), Named("i", "B", 1, 9), Joined("i", "A", 0, "included", 1, 0),
           Joined("i", "B", 1, "included", 1, 1), Listed("i", "A", 0), Listed("i", "B", 1)})},
     \* states that cannot be, one of them corrected
     {One(Plain), Two({Named("i", "A", 0, 9), Joined("i", "A", 0, "included", 1, 0), Stands("i", "A", 1, "listed", "suspended", 1)})},
     {One(Plain \union {Stands("i", "A", 1, "delisted", "suspended", 2)})},
     {One(Plain \union {Paused("i", 1, "am", "tradable")}), Two(Plain \union {Paused("i", 1, "am", "suspended")})},
     \* another version, rows the parser refuses, nothing about a required session
     {One(Plain), Artifact("s", 2, {1}, Plain)},
     {One(Plain \union {Joined("i", "A", 0, "excluded", 1, 0)}), Two(Plain \ {Listed("i", "A", 1)})}}}

-----------------------------------------------------------------------------
(* Corporate actions *)

Party(of, symbol, from, to, known) == [of |-> of, symbol |-> symbol, from |-> from, to |-> to, known |-> known, usable |-> known]
I == Party("i", "A", 0, 9, 0)
Link(owner, identity, known) == [owner |-> owner, security |-> "n", identity |-> identity, active |-> TRUE, known |-> known, usable |-> known]
Claim(owner, events, known) ==
  [of |-> "i", owner |-> owner, version |-> 1, from |-> 0, to |-> 3, events |-> events, cleared |-> TRUE, known |-> known, usable |-> known]
\* A split in two that is announced, by default in full.
Row(event, ex, rev, sup) ==
  [event |-> event, security |-> "n", symbol |-> "A", type |-> "SPLIT", lifecycle |-> "EFFECTIVE", published |-> {}, dayOnly |-> FALSE,
   ex |-> {ex}, recorded |-> {ex}, paid |-> {}, listed |-> {ex}, effective |-> {ex}, ratio |-> {4}, cash |-> {0}, rights |-> {0},
   price |-> {}, currency |-> {}, reference |-> {}, evidence |-> {}, rev |-> rev, sup |-> sup, actions |-> {"L"}]
Priced(r, reference) == [r EXCEPT !.currency = {"CNY"}, !.reference = {reference}, !.evidence = {"h"}]
Paying(event, ex, cash, rev, sup) == [Priced(Row(event, ex, rev, sup), 4) EXCEPT !.ratio = {2}, !.cash = {cash}]
Offering(event, ex) == [Priced(Row(event, ex, 1, 0), 4) EXCEPT !.ratio = {2}, !.rights = {1}, !.price = {3}]
Withdrawn(event, ex, rev, sup) == [Row(event, ex, rev, sup) EXCEPT !.lifecycle = "CANCELLED", !.ratio = {}, !.cash = {}, !.rights = {}]
Doc2(owner, family, rows) == [source |-> [owner |-> owner, family |-> family, version |-> 1], rows |-> rows]
X(rows) == Doc2("X", "ATTACHMENT", rows)
C(rows) == Doc2("C", "TABLE", rows)
Filing(documents, links, identities, claims) == [documents |-> documents, links |-> links, identities |-> identities, claims |-> claims]
Both == {Link("X", I, 0), Link("C", I, 0)}
Surveyed == {Claim("X", {"e", "f"}, 0), Claim("C", {"e", "f"}, 1)}
Plainly(documents) == Filing(documents, Both, {I}, Surveyed)
R == Row("e", 2, 1, 0)
MCFilings ==
  {Plainly(d) : d \in {
     \* a plan that becomes a split, and another source of it
     {X({[R EXCEPT !.lifecycle = "PROPOSED"]}), X({Row("e", 2, 2, 1)}), C({R})},
     \* a split that is moved, the analyst takes the revision for another action
     {X({Row("e", 1, 1, 0), [Row("e", 2, 2, 1) EXCEPT !.actions = {"L", "M"}]}), C({Row("f", 2, 1, 0)})},
     {X({Row("e", 1, 1, 0)}), X({Row("e", 2, 2, 1)}), C({R})},
     \* one revision, captured twice and taken for two actions, one of which has its successor, or a second root
     {X({[R EXCEPT !.actions = {"L", "M"}]}), X({[Row("e", 3, 2, 1) EXCEPT !.actions = {"M"}]})},
     {X({[R EXCEPT !.actions = {"L", "M"}]}), X({[Row("e", 3, 2, 0) EXCEPT !.actions = {"M"}]})},
     \* money, a price the sources do not agree on, and one that only one of them has
     {X({Paying("e", 2, 1, 1, 0)}), C({[Paying("e", 2, 1, 1, 0) EXCEPT !.reference = {5}]}), C({Paying("e", 2, 1, 2, 1)})},
     {X({Offering("e", 2)}), C({[Offering("e", 2) EXCEPT !.evidence = {}]}), C({[Offering("e", 2) EXCEPT !.rev = 2, !.sup = 1]})},
     \* two actions, one whose shares are listed later
     {X({[Priced(Row("e", 1, 1, 0), 4) EXCEPT !.listed = {2}], [Paying("f", 2, 1, 1, 0) EXCEPT !.actions = {"M"}]}),
      C({[Priced(Row("e", 1, 1, 0), 4) EXCEPT !.listed = {2}], [Paying("f", 2, 1, 1, 0) EXCEPT !.actions = {"M"}]})},
     {X({R, [Paying("f", 3, 2, 1, 0) EXCEPT !.actions = {"M"}]}), C({R, [Paying("f", 3, 2, 1, 0) EXCEPT !.actions = {"L", "M"}]})},
     \* terms that only the core refuses
     {X({[R EXCEPT !.currency = {"CNY"}]}), C({[R EXCEPT !.currency = {"CNY"}]})},
     {X({Paying("e", 2, 4, 1, 0)}), C({Paying("e", 2, 4, 1, 0)})},
     \* a split that is cancelled, what is published only later, what has no plain date
     {X({R}), X({Withdrawn("e", 2, 2, 1)}), C({Withdrawn("e", 2, 1, 0)})},
     {X({[R EXCEPT !.published = {2}]}), C({[R EXCEPT !.dayOnly = TRUE]}), C({[R EXCEPT !.rev = 2, !.sup = 1]})},
     {X({R, [R EXCEPT !.ex = {3}]}), X({[R EXCEPT !.ex = {}]}), C({[R EXCEPT !.type = "OTHER"]})}}}
  \union
  {Filing({X({R}), C({R})}, l, i, Surveyed) : <<l, i>> \in {
     <<Both \union {Link("X", Party("j", "A", 0, 9, 0), 2)}, {I, Party("j", "A", 0, 9, 0)}>>,
     <<{Link("X", I, 2), Link("C", I, 0)}, {I}>>,
     <<{Link("X", Party("i", "A", 0, 1, 0), 0), Link("C", I, 0)}, {I, Party("i", "A", 0, 1, 0)}>>,
     <<{Link("X", Party("i", "B", 0, 9, 0), 0), Link("C", I, 0)}, {I, Party("i", "B", 0, 9, 0)}>>}}
MCPolicies ==
  {[required |-> {"X", "C"}, sources |-> 2, priced |-> TRUE, licensed |-> TRUE, attached |-> TRUE, synthetic |-> TRUE],
   [required |-> {}, sources |-> 1, priced |-> FALSE, licensed |-> FALSE, attached |-> FALSE, synthetic |-> TRUE],
   [required |-> {}, sources |-> 1, priced |-> FALSE, licensed |-> FALSE, attached |-> FALSE, synthetic |-> FALSE]}
MCTapes == {[closes |-> <<4, 4, 3>>, opened |-> {1, 2, 3}, whole |-> TRUE, known |-> 3],
            [closes |-> 1 :> 4 @@ 3 :> 2, opened |-> {1, 2, 3}, whole |-> FALSE, known |-> 3]}
=============================================================================
