---------------------------- MODULE PriceAdjustment ----------------------------
(* From eligible candidates to adjusted bars: the core's facts and factors,  *)
(* quant/core/corporate_actions.py, and the dataset that multiplies the bars *)
(* of a range, quant/data/adjusted_market_data.py. Multipliers are exact     *)
(* fractions <<numerator, denominator>>; the code has fifty digits.          *)
EXTENDS CorporateActions

CONSTANTS
  Tapes    \* what bars there are: [closes, opened, whole, known], closes by date

ASSUME TapesAssumption ==
  \A t \in Tapes : \A date \in DOMAIN t.closes : date \in Nat /\ t.closes[date] \in Nat

Bases == {"SHARE_CHANGE_ONLY", "TOTAL_RETURN"}
Conventions == {"BACKWARD", "FORWARD"}

-----------------------------------------------------------------------------
(* CandidateCorporateAction.to_core_fact(), CorporateActionFact *)

The(amount) == CHOOSE x \in amount \union {0} : amount # {} => x \in amount
\* What is left of the reference price after the action, in `Unit`s.
Theoretical(r) == Unit * (The(r.reference) - The(r.cash)) + The(r.rights) * The(r.price)

FactAccepted(r) ==
  /\ \A later \in r.paid \union r.listed, x \in r.ex : x <= later
  /\ IF r.lifecycle = "CANCELLED" THEN NoTerms(r)
     ELSE /\ {} \notin {r.ratio, r.cash, r.rights} /\ ~NoOp(r)
          /\ SharesChange(r) => r.listed # {}
          /\ IF Positive(r.rights) THEN r.price # {} ELSE r.price = {}
          /\ IF Monetary(r) THEN r.currency # {} ELSE r.currency = {}
          /\ IF r.reference # {} THEN r.evidence # {} /\ Theoretical(r) > 0 ELSE r.evidence = {}

Phase(r) ==
  CASE r.lifecycle \in Implemented -> "effective"
    [] r.lifecycle = "CANCELLED" -> "cancelled"
    [] OTHER -> "announced"
ToCoreFact(c) ==
  IF c.row.type \in Supported /\ FactAccepted(c.row)
  THEN {[event |-> c.event, of |-> c.of, state |-> Phase(c.row), from |-> x, row |-> c.row] : x \in c.row.ex}
  ELSE {}
\* Automatic shares count from their listing, which only a change of their number has to have.
SharesFrom(f) == IF SharesChange(f.row) THEN The(f.row.listed) ELSE f.from

-----------------------------------------------------------------------------
(* backward_price_multiplier(), AdjustmentSeries *)

Inverse2(q) == <<q[2], q[1]>>
ShareRatio(f) == <<The(f.row.ratio), Unit>>
\* Raises where money was paid and no price is there to compare it with.
BackwardMultiplier(f, basis) ==
  LET r == f.row
  IN IF basis = "SHARE_CHANGE_ONLY" \/ ~Monetary(r) THEN {Inverse2(ShareRatio(f))}
     ELSE IF r.reference = {} THEN {}
     ELSE {<<Theoretical(r), The(r.reference) * (The(r.ratio) + The(r.rights))>>}

Multiplier(f, basis) == CHOOSE q \in BackwardMultiplier(f, basis) : TRUE

\* Of a fraction for each fact.
Product(q) ==
  LET Of(part) == FoldFunction(LAMBDA x, y : x * y, 1, [f \in DOMAIN q |-> q[f][part]])
  IN <<Of(1), Of(2)>>

\* The actions of one source in a range, as the book's snapshot has them, and their factors.
Series(facts, lo, hi, basis, convention) ==
  LET shown == {f \in facts : f.from \in lo .. hi}
      effective == {f \in shown : f.state = "effective"}
  IN IF /\ \A f \in shown : f.state # "announced"
        /\ \A f, g \in effective : f.from = g.from => f = g
        /\ \A f \in effective : BackwardMultiplier(f, basis) # {}
     THEN {[lo |-> lo, hi |-> hi, basis |-> basis, convention |-> convention, factors |-> effective]}
     ELSE {}

\* Between a session and the base date: what lies after the one, up to the other.
\* Mutant: the session of the ex-date counts as one before it.
BetweenFromEx(s, date, from) ==
  IF s.convention = "BACKWARD" THEN date <= from /\ from <= s.hi ELSE s.lo < from /\ from <= date
Between(s, date, from) ==
  IF s.convention = "BACKWARD" THEN date < from /\ from <= s.hi ELSE s.lo < from /\ from <= date
Turned(s, q) == IF s.convention = "BACKWARD" THEN q ELSE Inverse2(q)
PriceMultiplier(s, date) ==
  Product([f \in {g \in s.factors : Between(s, date, g.from)} |-> Turned(s, Multiplier(f, s.basis))])
ShareMultiplier(s, date) ==
  Product([f \in {g \in s.factors : Between(s, date, SharesFrom(g))} |-> Turned(s, ShareRatio(f))])

-----------------------------------------------------------------------------
(* AdjustedMarketDataDataset *)

Scaled(x, y) == <<x[1] * y[1], x[2] * y[2]>>
\* The caller lists the sessions that have no bar, where the policy lets it.
InSeries(s, dates) == {date \in dates : s.lo <= date /\ date <= s.hi}
Dataset(t, s, identity, asOf) ==
  LET sessions == InSeries(s, DOMAIN t.closes)
      Adjusted(date) == Scaled(<<t.closes[date], 1>>, PriceMultiplier(s, date))
  IN IF /\ sessions # {} /\ sessions \subseteq InSeries(s, t.opened)
        /\ t.known <= asOf /\ InForce(identity, asOf)
        /\ \A date \in sessions : date <= asOf /\ ActiveOn(identity, date)
        /\ t.whole => sessions = InSeries(s, t.opened)
     THEN {[series |-> s, prices |-> [date \in sessions |-> Adjusted(date)],
            shares |-> [date \in sessions |-> ShareMultiplier(s, date)]]}
     ELSE {}

-----------------------------------------------------------------------------
(* Properties *)

\* The revision of c was captured twice, and the other capture is taken, with e, for another action.
TakenApart(c, e, action) ==
  \E m, n \in mapped :
    /\ m.action = n.action /\ m.action # action /\ n.candidate = e
    /\ m.candidate # c /\ StreamOf(m.candidate) = StreamOf(c) /\ m.candidate.rev = c.rev

\* What a policy lets an analyst verify can be used whichever source is taken, and nothing visible
\* contradicts it: no candidate replaces a selected one, unless the replaced revision was captured
\* twice and the analyst took the two for different actions; none is known only later; the core
\* accepts each (but for a currency without money and a price an action eats up, which only the
\* core looks at); and two sources give one factor for one action.
EligibleIsUsable ==
  \A p \in Policies, asOf \in 1 .. instant :
    Eligible(p, asOf) =>
      \A action \in Logical(asOf) :
        LET chosen == Selected(action, asOf)
        IN /\ \A c \in chosen, e \in Gathered :
                StreamOf(e) = StreamOf(c) => e.known <= asOf /\ (e.sup = c.rev => TakenApart(c, e, action))
           /\ \A c \in chosen :
                \/ ToCoreFact(c) # {}
                \/ c.row.currency # {} /\ ~Monetary(c.row)
                \/ Theoretical(c.row) <= 0
           /\ \A basis \in Bases :
                Cardinality({<<f.of, f.from, SharesFrom(f), f.state, IF f.state = "effective" THEN BackwardMultiplier(f, basis) ELSE {}>> :
                               f \in UNION {ToCoreFact(c) : c \in chosen}}) <= 1

\* The core's book of what a source said of an instrument resolves the revisions itself, those of
\* every logical action together: it has datasets where it can.
ToldOf(of, source, asOf) == {e \in Seen(asOf) : e.of = of /\ e.source = source}
FactsOf(of, source, asOf) == UNION {ToCoreFact(e) : e \in Terminals(Streams(ToldOf(of, source, asOf), StreamOf))}
BookResolves(of, source, asOf) ==
  /\ Resolved(Streams(ToldOf(of, source, asOf), StreamOf))
  /\ \A e \in ToldOf(of, source, asOf) : ToCoreFact(e) # {}
Chosen(asOf) == UNION {Selected(action, asOf) : action \in Logical(asOf)}
Datasets(c, t, basis, asOf) ==
  LET facts == FactsOf(c.of, c.source, asOf)
      series == UNION {Series(facts, lo, hi, basis, convention) :
                         lo \in 1 .. asOf, hi \in 1 .. asOf, convention \in Conventions}
  IN IF BookResolves(c.of, c.source, asOf)
     THEN UNION {Dataset(t, s, c.identity, asOf) : s \in {s0 \in series : s0.lo <= s0.hi}}
     ELSE {}

\* The shares of an action are not listed yet, though its price is adjusted.
Awaited(s, date) == \E f \in s.factors : f.from <= date /\ date < SharesFrom(f)
BaseDate(s) == IF s.convention = "BACKWARD" THEN s.hi ELSE s.lo
Same(x, y) == x[2] > 0 /\ y[2] > 0 /\ x[1] * y[2] = y[1] * x[2]
\* An adjusted return does not depend on the convention, nor on the range that was asked for: in two
\* datasets of a source, a close is to a later close as it is in the other. Where only the number
\* of shares is adjusted, a holding is worth what it was, but between an ex-date and the listing.
ReturnsAgree ==
  \A asOf \in 1 .. instant : (\E p \in Policies : Eligible(p, asOf)) =>
    \A c \in Chosen(asOf), t \in Tapes, basis \in Bases : \A a, b \in Datasets(c, t, basis, asOf) :
      /\ \A s, u \in DOMAIN a.prices \intersect DOMAIN b.prices :
           Same(Scaled(a.prices[s], b.prices[u]), Scaled(a.prices[u], b.prices[s]))
      /\ basis = "SHARE_CHANGE_ONLY" =>
           \A s \in DOMAIN a.prices :
             \/ \E date \in {s, BaseDate(a.series)} : Awaited(a.series, date)
             \/ Same(Scaled(a.prices[s], a.shares[s]), <<t.closes[s], 1>>)
=============================================================================
