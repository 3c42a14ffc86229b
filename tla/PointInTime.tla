------------------------------ MODULE PointInTime ------------------------------
(* The point-in-time books of quant/core: facts are only ever added, each    *)
(* with the instant it became known and the one it may be used from; a       *)
(* snapshot answers a question as of an instant from the facts visible then, *)
(* or refuses. An instant is a date, a fact's place in its stream is `rev`,  *)
(* the revision it replaces is `sup` (0: none), `ref` names another fact.    *)
EXTENDS Integers, FiniteSets

CONSTANTS
  Archives,        \* [known |-> facts of the outset, coming |-> facts not yet known]
  EventStreams,    \* the streams an event snapshot requires
  TaxonomyOwner,
  BarDates,            \* the dates of which there is a bar of the aligned instrument
  Dates,           \* the dates one may ask about
  LastDate         \* bound of the clock

\* Facts that are used for the dates they span.
Spanning == {"universe coverage", "calendar coverage", "identity"}

\* What every revision carries. Only days of the calendar, corporate actions, events and classes
\* name a predecessor; memberships and the states of an instrument have none to name.
IsFact(f) ==
  /\ {"book", "from", "to", "known", "usable", "rev", "sup"} \subseteq DOMAIN f
  /\ f.from \in Int /\ f.known \in Nat /\ f.usable \in Nat /\ f.rev \in Nat \ {0} /\ f.sup \in Nat
  /\ f.book \in {"member", "status", "session"} => f.sup = 0
  /\ f.book \in Spanning => f.to \in Int

ASSUME HistoryAssumption ==
  /\ Dates \subseteq Int
  /\ \A a \in Archives : IsFiniteSet(a.known) /\ \A f \in a.known \union a.coming : IsFact(f)

VARIABLES today, learned, coming
historyVars == <<today, learned, coming>>

-----------------------------------------------------------------------------
(* Revisions *)

Visible(f, asOf) == f.verified /\ f.known <= asOf /\ f.usable <= asOf
Known(asOf) == {f \in learned : Visible(f, asOf)}
\* A confirmation has no instant of its own from which it may be used.
Heard(asOf) == {c \in learned : c.book = "confirmation" /\ c.known <= asOf}
Facts(known, name) == {f \in known : f.book = name}

BySource(f) == <<f.source, f.of, f.part>>
ByDate(f) == <<f.of, f.from>>
\* S is bound to T for TLC, which evaluates an argument again at every use.
Streams(S, Key(_)) == UNION {{{g \in T : Key(g) = Key(f)} : f \in T} : T \in {S}}

\* Every revision is one fact, its predecessor is there, and nothing precedes itself.
Ancestry(S) ==
  /\ \A f, g \in S : f.rev = g.rev => f = g
  /\ \A f \in S : f.sup # 0 => \E g \in S : g.rev = f.sup
  /\ \A C \in (SUBSET S) \ {{}} : \E f \in C : \A g \in C : g.rev # f.sup
Terminal(S) == {f \in S : \A g \in S : g.sup # f.rev}
Resolved(streams) == \A S \in streams : Ancestry(S) /\ Cardinality(Terminal(S)) = 1
Terminals(streams) == UNION {Terminal(S) : S \in streams}

\* Books without predecessors: what became known last, then the highest revision.
Newest(S) ==
  LET last == {f \in S : \A g \in S : g.known <= f.known}
  IN {f \in last : \A g \in last : g.rev <= f.rev}
Agreed(streams) == \A S \in streams : Cardinality(Newest(S)) = 1
Current(streams) == UNION {Newest(S) : S \in streams}

\* A day of the calendar has predecessors if one of its revisions names one.
HasGraph(S) == \E f \in S : f.sup # 0
DayRevision(S) == IF HasGraph(S) THEN Terminal(S) ELSE Newest(S)
DayAgreed(S) == (HasGraph(S) => Ancestry(S)) /\ Cardinality(DayRevision(S)) = 1

Answer(given, shown) == [given |-> given, shown |-> IF given THEN shown ELSE {}]
ActiveOn(f, date) == date \in f.from .. f.to
Bound(f, identity, date) ==
  /\ identity.of = f.of /\ identity.rev = f.ref /\ identity.symbol = f.symbol
  /\ ActiveOn(identity, date)

\* The identities that facts name, and the terminal facts whose date is in a range.
LookedUpById(S, known) == UNION {{i \in learned : i.book = "identity" /\ i.of = f.of /\ i.rev = f.ref} : f \in S}
IdentitiesOf(S, known) == UNION {{i \in Facts(known, "identity") : i.of = f.of /\ i.rev = f.ref} : f \in S}
RangeFirst(streams, lo, hi) == Terminals({{f \in S : f.from \in lo .. hi} : S \in streams})
InRange(streams, lo, hi) == {f \in Terminals(streams) : f.from \in lo .. hi}

-----------------------------------------------------------------------------
(* Snapshots, as the formal ones require: verified and complete. What a book answers is an   *)
(* operator of the facts it knows, a snapshot its answer from those known as of an instant. *)

\* What a snapshot checks of itself: every plan is settled and bound to the identity of its
\* date, and two plans do not take effect on one date.
ActionsHold(shown, identities) ==
  /\ \A f \in shown : f.state # "announced" /\ \E i \in identities : Bound(f, i, f.from)
  /\ \A f, g \in shown : f.state = "effective" /\ g.state = "effective" /\ f.from = g.from => f = g
ActionAnswer(known, asOf, lo, hi) ==
  LET coverages == Streams(Facts(known, "action coverage"), BySource)
      covering == {c \in Terminals(coverages) : c.from <= lo /\ hi <= c.to /\ c.state = "complete"}
      actions == Streams({f \in Facts(known, "action") : \E c \in covering : c.source = f.source}, BySource)
      shown == InRange(actions, lo, hi)
      identities == IdentitiesOf(shown, known)
  IN Answer(
       /\ hi <= asOf
       /\ Resolved(coverages) /\ Cardinality(covering) = 1
       /\ Resolved(actions)
       /\ ActionsHold(shown, identities),
       covering \union shown \union identities)
ActionSnapshot(asOf, lo, hi) == ActionAnswer(Known(asOf), asOf, lo, hi)

\* The market's answer to a fact: what was evaluated last, if it is one, and not too early.
Confirmations(f, heard) ==
  LET answers == {c \in heard : c.source = f.source /\ c.part = f.part /\ c.ref = f.rev}
  IN {c \in answers : \A d \in answers : d.known <= c.known}
ConfirmationHolds(f, c) == f.usable <= c.known /\ ~(f.state = "cancelled" /\ c.state = "confirmed")
EventAnswer(known, heard, asOf, lo, hi) ==
  LET coverages == Streams({c \in Facts(known, "event coverage") : c.source \in EventStreams}, BySource)
      events == Streams({f \in Facts(known, "event") : f.source \in EventStreams}, BySource)
      shown == InRange(events, lo, hi)
  IN Answer(
       /\ hi <= asOf
       /\ {c.source : c \in UNION coverages} = EventStreams
       /\ Resolved(coverages)
       /\ \A c \in Terminals(coverages) : c.from <= lo /\ hi <= c.to /\ c.state = "complete"
       /\ Resolved(events)
       /\ \A f \in shown : /\ Cardinality(Confirmations(f, heard)) <= 1
                           /\ \A c \in Confirmations(f, heard) : ConfirmationHolds(f, c),
       Terminals(coverages) \union shown \union UNION {Confirmations(f, heard) : f \in shown})
EventSnapshot(asOf, lo, hi) == EventAnswer(Known(asOf), Heard(asOf), asOf, lo, hi)

ClassesHold(members, classes, identities, day) ==
  \A f \in members : (\E c \in classes : c.of = f.part) /\ \E i \in identities : Bound(f, i, day)
ClassAnswer(known, asOf, day) ==
  LET coverages == Streams(Facts(known, "class coverage"), BySource)
      covering == {c \in Terminals(coverages) : ActiveOn(c, day) /\ c.state = "complete"}
      Of(name) == Streams({f \in Facts(known, name) : \E c \in covering : c.source = f.source}, BySource)
      classes == {f \in Terminals(Of("class")) : ActiveOn(f, day)}
      members == {f \in Terminals(Of("class member")) : ActiveOn(f, day)}
      identities == IdentitiesOf(members, known)
  IN Answer(
       /\ day <= asOf
       /\ Resolved(coverages) /\ Cardinality(covering) = 1
       /\ \A c \in covering : c.source = TaxonomyOwner
       /\ Resolved(Of("class")) /\ Resolved(Of("class member"))
       /\ ClassesHold(members, classes, identities, day),
       covering \union classes \union members \union identities)
ClassSnapshot(asOf, day) == ClassAnswer(Known(asOf), asOf, day)

\* The last of an instrument's facts by their date.
LastWhoStayed(S) == {f \in S : f.state # "excluded" /\ \A g \in S : g.of = f.of => g.from <= f.from}
LastOf(S) == {f \in S : \A g \in S : g.of = f.of => g.from <= f.from}
Included(m) == m.state = "included"
Instruments(S) == {f.of : f \in S}

UniverseHolds(members, identities, statuses) ==
  /\ Instruments(identities) = Instruments(members) /\ Instruments(statuses) = Instruments(members)
  /\ \A m \in members :
       /\ \A i \in identities : i.of = m.of => i.symbol = m.symbol
       /\ Included(m) => \A s \in statuses : s.of = m.of => s.symbol = m.symbol /\ s.state = "listed"
  /\ \A m, n \in members : Included(m) /\ Included(n) /\ m.symbol = n.symbol => m = n
UniverseAnswer(known, day) ==
  LET coverages == Streams({c \in Facts(known, "universe coverage") : ActiveOn(c, day) /\ c.state = "complete"},
                           BySource)
      events == Streams({m \in Facts(known, "member") :
                           m.from <= day /\ \E c \in Current(coverages) : c.source = m.source}, ByDate)
      members == LastOf(Current(events))
      Anchor(m) == IF Included(m) THEN day ELSE m.from
      named == Streams(UNION {{i \in Facts(known, "identity") : m.of = i.of /\ ActiveOn(i, Anchor(m))} : m \in members}, ByDate)
      states == Streams(UNION {{s \in Facts(known, "status") :
                                  m.of = s.of /\ IF Included(m) THEN s.from = day ELSE s.from <= m.from} : m \in members},
                        ByDate)
      identities == LastOf(Current(named))
      statuses == LastOf(Current(states))
  IN Answer(
       /\ Agreed(coverages) /\ Cardinality(Current(coverages)) = 1
       /\ Agreed(events) /\ Agreed(named) /\ Agreed(states)
       /\ members # {}
       /\ UniverseHolds(members, identities, statuses),
       Current(coverages) \union members \union identities \union statuses)
UniverseSnapshot(asOf, day) == UniverseAnswer(Known(asOf), day)

EveryDate(days, lo, hi) == {d.from : d \in UNION days} = lo .. hi
CalendarAnswer(known, lo, hi) ==
  LET coverages == Streams({c \in Facts(known, "calendar coverage") : c.from <= lo /\ hi <= c.to}, BySource)
      days == Streams({d \in Facts(known, "day") :
                         d.from \in lo .. hi /\ \E c \in Current(coverages) : c.source = d.source}, ByDate)
  IN Answer(
       /\ Agreed(coverages) /\ Cardinality(Current(coverages)) = 1
       /\ EveryDate(days, lo, hi)
       /\ \A S \in days : DayAgreed(S),
       Current(coverages) \union UNION {DayRevision(S) : S \in days})
CalendarSnapshot(asOf, lo, hi) == CalendarAnswer(Known(asOf), lo, hi)

OpenDates(calendar) == {d.from : d \in {f \in calendar.shown : f.book = "day" /\ f.state = "open"}}

\* Why there is no bar: by open date, the revisions of the instrument's state.
Reasons(open, known) == Streams({s \in Facts(known, "session") : s.from \in open}, ByDate)

\* align_bars(): each open date has a bar or a reason why not; a first date without a
\* bar needs a reference price (ref = 1).
AlignmentAnswer(known, lo, hi) ==
  LET calendar == CalendarAnswer(known, lo, hi)
      open == OpenDates(calendar)
      reasons == Reasons(open, known)
  IN Answer(
       /\ calendar.given /\ open # {}
       /\ BarDates \intersect (lo .. hi) \subseteq open
       /\ Agreed(reasons)
       /\ \A d \in open : (d \in BarDates) # (\E s \in Current(reasons) : s.from = d)
       /\ \A s \in Current(reasons) : s.ref = 0 => \E d \in open : d < s.from,
       calendar.shown \union Current(reasons))
Alignment(asOf, lo, hi) == AlignmentAnswer(Known(asOf), lo, hi)

\* One open session of a calendar with the universe of that session.
ResearchAnswer(known, lo, hi, day) ==
  LET calendar == CalendarAnswer(known, lo, hi)
      universe == UniverseAnswer(known, day)
  IN Answer(calendar.given /\ universe.given /\ day \in OpenDates(calendar),
            calendar.shown \union universe.shown)

-----------------------------------------------------------------------------
(* What happens: the archive's facts become known, some may be used only later *)

\* An adapter takes known_at from the first observation of the source and cannot date it back.
Learn(f, delay) ==
  /\ coming' = coming \ {f}
  /\ learned' = learned \union {[f EXCEPT !.known = today, !.usable = today + delay]}
  /\ UNCHANGED today

NextDate == today < LastDate /\ today' = today + 1 /\ UNCHANGED <<learned, coming>>

HistoryInit == today = 0 /\ \E a \in Archives : learned = a.known /\ coming = a.coming
HistoryNext == NextDate \/ \E f \in coming, delay \in {0, 1} : Learn(f, delay)
HistorySpec == HistoryInit /\ [][HistoryNext]_historyVars

-----------------------------------------------------------------------------
(* Properties *)

Ranges == {r \in Dates \X Dates : r[1] <= r[2]}
AllAnswers(known, heard, asOf) ==
  [ranges |-> [r \in Ranges |-> <<ActionAnswer(known, asOf, r[1], r[2]), EventAnswer(known, heard, asOf, r[1], r[2]),
                                  AlignmentAnswer(known, r[1], r[2])>>],
   dates |-> [d \in Dates |-> <<ClassAnswer(known, asOf, d), ResearchAnswer(known, d, d, d)>>]]
Answers(asOf) == {AllAnswers(known, heard, asOf) : known \in {Known(asOf)}, heard \in {Heard(asOf)}}

\* What a snapshot says as of an instant that has passed never changes, whatever becomes known
\* later, and neither does a refusal: a back-test sees what could have been seen.
AnswersStand == [][\A asOf \in 0 .. (today' - 1) : Answers(asOf)' = Answers(asOf)]_historyVars

SpansNoLess(g, f) ==
  /\ g.from <= f.from /\ f.to <= g.to /\ g.state = f.state
  /\ f.book = "identity" => g.from = f.from
Graphs == {"action coverage", "action", "event coverage", "event", "class coverage", "class", "class member"}
Replaces(g, f) ==
  /\ g.book = f.book /\ BySource(g) = BySource(f)
  /\ \/ f.book \in Graphs /\ g.sup = f.rev
     \/ f.book \in {"day", "session", "member", "status"} /\ g.from = f.from
        /\ (g.sup = f.rev \/ (f.sup = 0 /\ g.sup = 0 /\ g.known > f.known))
     \/ f.book = "confirmation" /\ g.ref = f.ref /\ g.known > f.known
     \/ f.book \in Spanning /\ SpansNoLess(g, f) /\ g.known > f.known
\* What an action or a class membership is bound to is the revision of an identity that it names.
ChosenOf(answer) == {f \in answer.shown : f.book # "identity"}
Shown(asOf) ==
  (UNION {UNION {ChosenOf(ActionSnapshot(asOf, r[1], r[2])), EventSnapshot(asOf, r[1], r[2]).shown,
                 Alignment(asOf, r[1], r[2]).shown} : r \in Ranges})
  \union UNION {ChosenOf(ClassSnapshot(asOf, d)) \union UniverseSnapshot(asOf, d).shown : d \in Dates}

\* No snapshot selects a revision that a visible one has replaced: not even where the new one moved
\* the event, the action or the end of a membership out of the range that is asked for. The books of
\* the universe and of the calendar look at what a coverage or an identity spans before they choose
\* its revision: one that was shortened since is still shown, and only a revision that spans no less
\* replaces it.
SupersededNeverShown ==
  LET shown == Shown(today)
  IN \A g \in learned : Visible(g, today) => \A f \in shown : ~Replaces(g, f)

\* An instrument that was in the universe of a session stays in every later answer about that or a
\* later session from the same source, as a member or as one that left: nobody drops out silently.
NoSurvivorshipBias ==
  \A d2 \in Dates :
    LET now == UniverseSnapshot(today, d2)
        Source(S) == {c.source : c \in {f \in S : f.book = "universe coverage"}}
        Members(S) == Instruments({f \in S : f.book = "member"})
    IN now.given =>
         \A asOf \in 0 .. today, d1 \in {d \in Dates : d <= d2} :
           LET before == UniverseSnapshot(asOf, d1).shown
           IN Source(before) = Source(now.shown) => Members(before) \subseteq Members(now.shown)
=============================================================================
