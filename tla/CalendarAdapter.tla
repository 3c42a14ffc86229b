---------------------------- MODULE CalendarAdapter ----------------------------
(* Candidate calendars, quant/data/calendar_adapter.py: an exchange's notice *)
(* is parsed into one candidate day per civil date of its range; the notices *)
(* of one family and version are assembled into an annual base and what      *)
(* overrides it. A session's times are left to its kind: open, half, closed. *)
(*   a notice: [family, version, type, inferred, from, to, table, rev, sup,  *)
(*   delay]; `inferred`: dates the table leaves out are those of a week.     *)
EXTENDS PointInTime

CONSTANT Weekend   \* the dates of a Saturday or Sunday

Priority == [ANNUAL |-> 10, HOLIDAY |-> 20, TECHNICAL |-> 30, TEMPORARY |-> 40, REVISION |-> 50]

-----------------------------------------------------------------------------
(* parse_calendar_document() *)

NoticeAccepted(n) ==
  /\ n.from <= n.to /\ n.rev # n.sup
  /\ DOMAIN n.table \subseteq n.from .. n.to
  /\ IF n.inferred THEN n.type = "ANNUAL" ELSE DOMAIN n.table = n.from .. n.to

StateOn(n, date) ==
  IF date \in DOMAIN n.table THEN n.table[date]
  ELSE IF date \in Weekend THEN "closed" ELSE "open"

\* A candidate is known from the capture of its raw bytes, whatever the notice says of its own date.
CandidateDay(n, date, at) ==
  [book |-> "day", source |-> n.family, version |-> n.version, of |-> "m", part |-> "", symbol |-> "m",
   from |-> date, to |-> date, state |-> StateOn(n, date), ref |-> 0, rev |-> n.rev, sup |-> n.sup,
   verified |-> FALSE, known |-> at, usable |-> at + n.delay]
ParsedNotice(n, at) ==
  [notice |-> n, captured |-> at, days |-> {CandidateDay(n, date, at) : date \in n.from .. n.to}]

-----------------------------------------------------------------------------
(* assemble_calendar_candidates() *)

DayOf(d, date) == CHOOSE f \in d.days : f.from = date
InNotice(d, date) == date \in d.notice.from .. d.notice.to
SameStream(d, e) == d.notice.family = e.notice.family /\ d.notice.version = e.notice.version

Earlier(d, e) ==
  \/ d.captured < e.captured
  \/ /\ d.captured = e.captured
     /\ LET p == Priority[d.notice.type]  q == Priority[e.notice.type]
        IN p < q \/ (p = q /\ d.notice.rev < e.notice.rev)

Annual(docs) == {d \in docs : d.notice.type = "ANNUAL"}
\* What overrides a date names what it replaces, and is no lesser notice.
OverridesNamed(docs) ==
  \A d \in docs :
    /\ \A e \in docs : Earlier(e, d) /\ e.notice.rev = d.notice.sup =>
         Priority[d.notice.type] >= Priority[e.notice.type]
    /\ \A date \in d.notice.from .. d.notice.to :
         LET before == {e \in docs : Earlier(e, d) /\ InNotice(e, date)}
         IN /\ \A e \in before : e.notice.rev # d.notice.rev
            /\ (\E e \in before : DayOf(e, date).state # DayOf(d, date).state) =>
                 \E e \in before : e.notice.rev = d.notice.sup
Assembles(docs) ==
  /\ \A d, e \in docs : SameStream(d, e)
  /\ Cardinality(Annual(docs)) = 1
  /\ \A base \in Annual(docs), d \in docs : base.notice.from <= d.notice.from /\ d.notice.to <= base.notice.to
  /\ OverridesNamed(docs)

\* The coverage is that of the base.
CandidateCoverage(base) ==
  [DayOf(base, base.notice.from) EXCEPT !.book = "calendar coverage", !.to = base.notice.to,
                                        !.state = "complete", !.sup = 0]
AssembledFacts(docs) ==
  (UNION {d.days : d \in docs}) \union {CandidateCoverage(base) : base \in Annual(docs)}
=============================================================================
