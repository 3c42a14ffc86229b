---------------------------- MODULE Reconciliation ----------------------------
(* Stage 2A, quant/data/reconciliation.py: what several sources say of one   *)
(* exchange is captured as notices and bundles, and a report as of an        *)
(* instant tells whether snapshots can be constructed from it. The report    *)
(* does not ask the point-in-time books: it selects revisions by itself.     *)
(* Only the findings of severity HARD_BLOCK are modelled; those the parsers  *)
(* rule out (a civil date without a fact, a symbol of another exchange, two  *)
(* ids for one source id) are left out.                                      *)
EXTENDS CalendarAdapter, UniverseAdapter, SequencesExt

CONSTANT Sources   \* what is published: [notices |-> .., artifacts |-> ..]

VARIABLES published, calendars, securities
sourceVars == <<published, calendars, securities, historyVars>>

Usable(f, asOf) == f.known <= asOf /\ f.usable <= asOf
UsableOf(facts, asOf) == {f \in facts : Usable(f, asOf)}

-----------------------------------------------------------------------------
(* _analyze_calendar() *)

\* A revision is one if all that is said of it agrees.
Semantics(S) == {[rev |-> f.rev, sup |-> f.sup, state |-> f.state, known |-> f.known] : f \in S}
Superseding(S) == Terminal(Semantics(S))
StreamResolves(S) == Ancestry(Semantics(S)) /\ Cardinality(Superseding(S)) = 1

DayFacts(docs, asOf) == UsableOf(UNION {d.days : d \in docs}, asOf)
ByStream(facts, date) ==
  {{g \in facts : g.from = date /\ g.source = f.source /\ g.version = f.version} :
     f \in {h \in facts : h.from = date}}

Observed(docs, asOf) == {f.from : f \in DayFacts(docs, asOf)}
\* The states that the streams which resolve select.
SelectedStates(docs, asOf, date) ==
  UNION {{f.state : f \in Superseding(S)} : S \in {T \in ByStream(DayFacts(docs, asOf), date) : StreamResolves(T)}}
OpenSessions(docs, asOf) ==
  {date \in Observed(docs, asOf) : SelectedStates(docs, asOf, date) \in {{"open"}, {"half"}}}

CalendarBlocked(docs, asOf) ==
  \/ \E d, e \in docs : d.notice.family = e.notice.family /\ d.notice.version # e.notice.version
  \/ \E date \in Observed(docs, asOf) :
       \/ \E S \in ByStream(DayFacts(docs, asOf), date) : ~StreamResolves(S)
       \/ Cardinality(SelectedStates(docs, asOf, date)) > 1

-----------------------------------------------------------------------------
(* _analyze_security() *)

VisibleBundles(bundles, asOf) == {b \in bundles : b.retrieved <= asOf}
Projected(b, asOf) == UsableOf(b.facts, asOf)
CoverageStable(b, asOf) == Projected(b, asOf) = b.facts

\* Mutant: the first revision of the last date.
MembersFirstRevision(facts, day) == MembersByDate(facts, day)

\* _membership_snapshot(): the last by date, knowledge and revision
MembersAt(facts, day) ==
  LET eligible == {m \in OfKind(facts, "member") : m.from <= day}
      Later(m, n) == \/ m.from > n.from
                     \/ m.from = n.from /\ (m.known > n.known \/ (m.known = n.known /\ m.rev > n.rev))
  IN {m \in eligible : ~ \E n \in eligible : n.of = m.of /\ Later(n, m)}

MemberBlocked(facts, m, day) ==
  \/ ~ \E i \in OfKind(facts, "identity") : i.of = m.of /\ ActiveOn(i, IdentityAnchor(m, day))
  \/ LET matching == {s \in Daily(facts) :
                        s.of = m.of /\ IF Included(m) THEN s.from = day ELSE s.from <= m.from}
     IN matching = {} \/ (Included(m) /\ \E s \in matching : s.state = "delisted")
SessionBlocked(docs, asOf, facts, day) ==
  \/ day \notin OpenSessions(docs, asOf)
  \/ \E m \in MembersAt(facts, day) : MemberBlocked(facts, m, day)

\* Between the bundles that require a session, and within each of them.
MembersDisagree(bundles, asOf) ==
  \E a, b \in bundles : \E day \in a.artifact.required \intersect b.artifact.required \intersect 0 .. asOf :
    \E m \in MembersAt(Projected(a, asOf), day), n \in MembersAt(Projected(b, asOf), day) :
      \/ m.of = n.of /\ m.state # n.state
      \/ m.of # n.of /\ Included(m) /\ Included(n) /\ m.symbol = n.symbol

\* _latest_identities(): of each bundle, and those that say the same are one
LatestIdentities(bundles, asOf) ==
  {[of |-> i.of, symbol |-> i.symbol, from |-> i.from, to |-> i.to] :
     i \in UNION {CurrentIdentities(Projected(b, asOf)) : b \in bundles}}
\* Only neighbours are compared. Two that begin on one date follow each other by their hashes, in
\* either order: a report passes if one order lets it.
NeighboursApart(S, Clash(_, _)) ==
  \E q \in SetToSeqs(S) :
    \A k \in 1 .. Len(q) - 1 : q[k].from <= q[k + 1].from /\ ~(Overlap(q[k], q[k + 1]) /\ Clash(q[k], q[k + 1]))
IdentitiesPass(bundles, asOf) ==
  LET latest == LatestIdentities(bundles, asOf)
      TwoSymbols(i, j) == i.symbol # j.symbol
      TwoInstruments(i, j) == i.of # j.of
  IN /\ \A x \in latest : NeighboursApart({i \in latest : i.of = x.of}, TwoSymbols)
     /\ \A x \in latest : NeighboursApart({i \in latest : i.symbol = x.symbol}, TwoInstruments)

\* _status_conflicts()
Contrary(s, t) ==
  \/ {s.trading, t.trading} = {"tradable", "suspended"}
  \/ {s.risk, t.risk} = {"ST", "STAR_ST"}
  \/ {s.state, t.state} = {"delisted", "listed"}
StatusConflict(bundles, asOf) ==
  LET facts == UNION {Projected(b, asOf) : b \in bundles}
  IN \/ \E s, t \in OfKind(facts, "status") : s.of = t.of /\ s.from = t.from /\ Contrary(s, t)
     \/ \E s, t \in OfKind(facts, "interval") :
          s.of = t.of /\ s.from = t.from /\ s.part = t.part /\ (s.trading # t.trading \/ s.state # t.state)

VersionsMixed(bundles) ==
  \E a, b \in bundles : a.artifact.source = b.artifact.source /\ a.artifact.version # b.artifact.version

SecurityBlocked(docs, bundles, asOf) ==
  LET visible == VisibleBundles(bundles, asOf)
  IN \/ visible # bundles
     \/ \E b \in visible :
          \/ CoverageStable(b, asOf) /\ b.blocked
          \/ \E day \in b.artifact.required \intersect 0 .. asOf :
               SessionBlocked(docs, asOf, Projected(b, asOf), day)
     \/ MembersDisagree(visible, asOf)
     \/ ~IdentitiesPass(visible, asOf)
     \/ StatusConflict(visible, asOf)
     \/ VersionsMixed(visible)

\* candidate_snapshot_state of a report, which needs an input of either kind.
Constructible(docs, bundles, asOf) ==
  /\ docs # {} /\ bundles # {}
  /\ ~CalendarBlocked(docs, asOf) /\ ~SecurityBlocked(docs, bundles, asOf)

-----------------------------------------------------------------------------
(* What happens: what is published is captured, at one time or another *)

CaptureNotice(n) ==
  /\ n \in published.notices /\ NoticeAccepted(n)
  /\ calendars' = calendars \union {ParsedNotice(n, today)}
  /\ published' = [published EXCEPT !.notices = @ \ {n}]
  /\ UNCHANGED <<securities, historyVars>>
Retrieve(a) ==
  /\ a \in published.artifacts /\ ArtifactAccepted(a)
  /\ securities' = securities \union {Bundle(a, today)}
  /\ published' = [published EXCEPT !.artifacts = @ \ {a}]
  /\ UNCHANGED <<calendars, historyVars>>

SourcesInit == published \in Sources /\ calendars = {} /\ securities = {}
SourcesNext ==
  \/ \E n \in published.notices : CaptureNotice(n)
  \/ \E a \in published.artifacts : Retrieve(a)
  \/ NextDate /\ UNCHANGED <<published, calendars, securities>>

-----------------------------------------------------------------------------
(* The books, asked about candidates: require_verified = require_complete = FALSE *)

Book(facts) == INSTANCE PointInTime WITH learned <- facts
Taken(facts) == {[f EXCEPT !.verified = TRUE] : f \in facts}
CandidateUniverse(b, asOf, day) == Book(Taken(BookFacts(b.facts) \union {b.coverage}))!UniverseSnapshot(asOf, day)
CandidateCalendar(docs, asOf, day) == Book(Taken(AssembledFacts(docs)))!CalendarSnapshot(asOf, day, day)

Reports == {asOf \in 0 .. today : Constructible(calendars, securities, asOf)}

\* Where a report lets candidates pass, the books agree with it, though it selects revisions by
\* itself: the universes of a session that two bundles require tell the same of an instrument and
\* no symbol twice; every stream that assembles, once its base is usable, gives each date, all
\* give one state, and the sessions the universes require are open.
CleanReportAgrees ==
  \A asOf \in Reports :
    /\ \A a, b \in securities :
         \A day \in a.artifact.required \intersect b.artifact.required \intersect 0 .. asOf :
           \A m \in CandidateUniverse(a, asOf, day).shown, n \in CandidateUniverse(b, asOf, day).shown :
             m.book = "member" /\ n.book = "member" =>
               /\ m.of = n.of => m.state = n.state
               /\ m.of # n.of /\ Included(m) /\ Included(n) => m.symbol # n.symbol
    /\ \A base \in Annual(calendars) :
         LET stream == {d \in calendars : SameStream(d, base)}
         IN Assembles(stream) /\ Usable(CandidateCoverage(base), asOf) =>
              \A day \in base.notice.from .. base.notice.to :
                LET given == CandidateCalendar(stream, asOf, day)
                    states == {f.state : f \in OfKind(given.shown, "day")}
                IN /\ given.given /\ states = SelectedStates(calendars, asOf, day)
                   /\ \A b \in securities : day \in b.artifact.required \intersect 0 .. asOf => "closed" \notin states
=============================================================================
