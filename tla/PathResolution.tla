---------------------------- MODULE PathResolution ----------------------------
(***************************************************************************)
(* Which barrier a position reached first, resolved from a prefix of the   *)
(* evidence that is frozen when the question is asked                      *)
(* (runtime_evidence/path_contracts.py).  A prefix knows some trading days *)
(* and has projected some of the stored trades to ticks and bars.          *)
(*                                                                         *)
(* The calendar is what it says and a day is covered only if nothing of it *)
(* was lost, which TransportCoverage shows.  A price is at the stop,       *)
(* between, or at the target.  Left out: identities, the blocker codes     *)
(* (which only say why), revisions of the authority facts.                 *)
(***************************************************************************)
EXTENDS Naturals, FiniteSets, SequencesExt

CONSTANTS
  Calendar,    \* the days: a sequence of sequences of segments
  EntryTimes,  \* when the position may have been filled, on the first day
  LastTime,    \* bound: clock
  MaxDeals    \* bound: trades

AtStop == 1
Inside == 2
AtTarget == 3

VARIABLES
  time,      \* the clock
  market,    \* the trades that were made, and which of them were stored
  filledAt,  \* entry_filled_at
  verdict,   \* the resolution the caller acted on
  edge       \* and where the coverage of its session ended

pathVars == <<time, market, filledAt, verdict, edge>>

-----------------------------------------------------------------------------
(* CalendarSessionFact.                                                    *)

Days == DOMAIN Calendar
OpenDays == {d \in Days : Calendar[d] # <<>>}
Opens(d) == Calendar[d][1].from
Closes(d) == Last(Calendar[d]).to
PermitsPriceInterval(d, from, to) ==
  \E s \in ToSet(Calendar[d]) :
     s.prices /\ s.from <= from /\ from < s.to /\ (to = from \/ to <= s.to)
ExecutionAllowed(d, t) == \E s \in ToSet(Calendar[d]) : s.execution /\ s.from <= t /\ t < s.to

EntryDay == 1
\* The entry's session is 0 and the horizon is one session.
HorizonDay == Min({d \in OpenDays : d > EntryDay})

\* A day is on one date; its segments leave no gap.
Segments == [from : Nat, to : Nat, prices : BOOLEAN, execution : BOOLEAN]
ASSUME CalendarAssumption ==
  /\ Calendar \in Seq(Seq(Segments)) /\ EntryTimes \subseteq Nat
  /\ \A d \in Days : \A i \in DOMAIN Calendar[d] :
       /\ Calendar[d][i].from < Calendar[d][i].to
       /\ i > 1 => Calendar[d][i - 1].to = Calendar[d][i].from
       /\ Calendar[d][i].execution => Calendar[d][i].prices
  /\ \A d, e \in OpenDays : d < e => Closes(d) <= Opens(e)
  /\ \E d \in OpenDays : d > EntryDay

-----------------------------------------------------------------------------
(* SourceCoverageFact, RuntimeSessionEvidence.                             *)

Kept == {i \in DOMAIN market : market[i].stored}
Within(i, from, to) == from <= market[i].at /\ market[i].at < to
Covered(from, to) == \A i \in DOMAIN market : Within(i, from, to) => i \in Kept

Evidence(d, status, through, coverage) ==
  [day |-> d, status |-> status, through |-> through, coverage |-> coverage]
CoverageStates(d, through) ==
  {"INCOMPLETE"} \cup
  IF ~(Opens(d) < through /\ Covered(Opens(d), through)) THEN {}
  ELSE {"COMPLETE_PREFIX"} \cup IF through = Closes(d) THEN {"COMPLETE_SESSION"} ELSE {}
Complete(e) == e.coverage \in {"COMPLETE_PREFIX", "COMPLETE_SESSION"}
\* What a session's three facts may not say together.
Consistent(e) ==
  /\ e.status = "NOT_TRADED" =>
       /\ e.coverage = "COMPLETE_SESSION"
       /\ ~\E i \in Kept : Within(i, Opens(e.day), Closes(e.day))
  /\ e.status = "MISSING_DATA" => ~Complete(e)
Statuses == {"TRADED", "NOT_TRADED", "MISSING_DATA"}
SessionEvidence(d) ==
  {e \in UNION {{Evidence(d, s, t, c) : c \in CoverageStates(d, t), s \in Statuses} :
                t \in Opens(d)..Min({Closes(d), time})} : Consistent(e)}
ClosedDay(d) == Evidence(d, "MARKET_CLOSED", 0, "NOT_APPLICABLE")

-----------------------------------------------------------------------------
(* RuntimePathObservation, PathProjectionManifest.                         *)

Observation(d, from, to, members) ==
  [day |-> d, from |-> from, to |-> to, members |-> members,
   high |-> Max({market[i].price : i \in members}), low |-> Min({market[i].price : i \in members})]
Ticks(e) ==
  {Observation(e.day, market[i].at, market[i].at, {i}) :
     i \in {j \in Kept : PermitsPriceInterval(e.day, market[j].at, market[j].at)}}
\* A bar consumes every stored trade of its interval, which must be covered.
Bars(e) ==
  LET members(b) == {i \in Kept : Within(i, b[1], b[2])}
  IN {Observation(e.day, b[1], b[2], members(b)) :
        b \in {c \in (Opens(e.day)..e.through) \X (Opens(e.day)..e.through) :
                 /\ c[1] < c[2] /\ PermitsPriceInterval(e.day, c[1], c[2])
                 /\ members(c) # {} /\ Covered(c[1], c[2])}}
Projectable(known) ==
  UNION {Ticks(e) \cup Bars(e) : e \in {k \in known : k.day \in OpenDays}}
\* A stored trade is consumed at most once.
Projections(known) ==
  {points \in SUBSET Projectable(known) :
     \A p, q \in points : p # q => p.members \cap q.members = {}}
Consumed(points) == UNION {p.members : p \in points}

-----------------------------------------------------------------------------
(* resolve_runtime_path(): what blocks a prefix as a whole.                *)

Knows(known, d) == \E e \in known : e.day = d
Of(known, d) == CHOOSE e \in known : e.day = d
EntryHolds(known) ==
  /\ Knows(known, EntryDay) /\ Of(known, EntryDay).status = "TRADED"
  /\ ExecutionAllowed(EntryDay, filledAt)
ConsecutiveDays(known) ==
  \A e \in known : e.day > EntryDay => Knows(known, e.day - 1)

\* Mutant: a point may be newer than the coverage of its session.
PointHoldsBeyond(known, p) ==
  /\ Of(known, p.day).status = "TRADED"
  /\ p.day = EntryDay => p.from > filledAt
PointHolds(known, p) ==
  /\ Of(known, p.day).status = "TRADED"
  /\ Complete(Of(known, p.day)) => p.to <= Of(known, p.day).through
  /\ p.day = EntryDay => p.from > filledAt
SourceCutoff(known) == IF Knows(known, HorizonDay) THEN Closes(HorizonDay) ELSE time
\* Mutant: a stored trade may be in no point.
ProjectedInPart(known, points) == TRUE
AllProjected(known, points) ==
  \A i \in Kept : Within(i, filledAt, SourceCutoff(known)) => i \in Consumed(points)
Admissible(known, points) ==
  /\ EntryHolds(known) /\ ConsecutiveDays(known)
  /\ \A p \in points : PointHolds(known, p)
  /\ AllProjected(known, points)

-----------------------------------------------------------------------------
(* resolve_runtime_path(): the sessions in their order, up to the first    *)
(* that decides.                                                           *)

Resolution(state, day, touch) == [state |-> state, day |-> day, touch |-> touch]
Only(state) == Resolution(state, 0, {})
Blocked == Only("BLOCKED")
Undecided == Only("UNDECIDED")

SourceOrder(p) == Min(p.members)
\* Mutant: points are taken in the reverse order.
EarlierBySource(p, q) == SourceOrder(p) > SourceOrder(q)
Earlier(p, q) ==
  \/ p.from < q.from
  \/ /\ p.from = q.from
     /\ p.to < q.to \/ (p.to = q.to /\ SourceOrder(p) < SourceOrder(q))
HitsTargetAt(p) == p.high >= AtTarget
HitsStopAt(p) == p.low <= AtStop
Touched(p) == HitsTargetAt(p) \/ HitsStopAt(p)
Ambiguous(p) == HitsTargetAt(p) /\ HitsStopAt(p)

\* The first point in order that touches a barrier or overlaps one before it decides.
\* (The first to overlap any before it overlaps the last before it.)
Overlaps(points, p) == \E q \in points : q.day = p.day /\ Earlier(q, p) /\ p.from < q.to
Deciding(points, d) == {p \in points : p.day = d /\ (Overlaps(points, p) \/ Touched(p))}
FirstOf(points) == CHOOSE p \in points : \A q \in points \ {p} : Earlier(p, q)
FirstTouch(points, d) ==
  LET first == FirstOf(Deciding(points, d))
  IN IF Deciding(points, d) = {} THEN Undecided
     ELSE IF Overlaps(points, first) \/ Ambiguous(first) THEN Blocked
     ELSE Resolution(IF HitsTargetAt(first) THEN "TARGET" ELSE "STOP", d, first.members)

\* Mutant: an incomplete session is passed over.
CoverageNeverBlocks(e) == FALSE
CoverageBlocks(e) == ~Complete(e)
\* Mutant: a session may be followed before it is known to its close.
ClosedAlways(known, e) == TRUE
ClosedBeforeNext(known, e) ==
  (\E f \in known : f.day \in OpenDays /\ f.day > e.day) => e.coverage = "COMPLETE_SESSION"

SessionResolution(known, points, d) ==
  LET e == Of(known, d)
  IN IF CoverageBlocks(e) \/ ~ClosedBeforeNext(known, e) THEN Blocked
     ELSE IF e.status = "TRADED" /\ ~(\E p \in points : p.day = d) /\ e.coverage = "COMPLETE_PREFIX"
          THEN Only("OPEN")
          ELSE FirstTouch(points, d)

\* Mutant: the horizon is reached before its session is complete.
HorizonResolutionEarly(known) ==
  IF ~Knows(known, HorizonDay) THEN Only("OPEN")
  ELSE Only("TIMEOUT")
HorizonResolution(known) ==
  IF ~Knows(known, HorizonDay) \/ Of(known, HorizonDay).coverage = "COMPLETE_PREFIX"
  THEN Only("OPEN")
  ELSE Only("TIMEOUT")

ResolveRuntimePath(known, points) ==
  LET decided(d) == SessionResolution(known, points, d) # Undecided
      deciding == {d \in OpenDays : Knows(known, d) /\ decided(d)}
  IN IF ~Admissible(known, points) THEN Blocked
     ELSE IF deciding # {} THEN SessionResolution(known, points, Min(deciding))
     ELSE HorizonResolution(known)

-----------------------------------------------------------------------------
(* The market, and a caller that freezes a prefix and asks.                *)

NoVerdict == Only("NONE")
PathInit ==
  /\ time = 0 /\ market = <<>> /\ filledAt \in EntryTimes /\ verdict = NoVerdict /\ edge = 0

PassTime ==
  /\ time < LastTime /\ time' = time + 1
  /\ UNCHANGED <<market, filledAt, verdict, edge>>

\* A trade is made in a session, and stored, or lost before it was.
InSession(t) == \E d \in OpenDays : Opens(d) <= t /\ t < Closes(d)
Deal ==
  /\ Len(market) < MaxDeals /\ InSession(time)
  /\ \E price \in AtStop..AtTarget, stored \in BOOLEAN :
       market' = Append(market, [at |-> time, price |-> price, stored |-> stored])
  /\ UNCHANGED <<time, filledAt, verdict, edge>>

\* RuntimeFrozenPathPrefix.from_verified_case_selection(): any days, what is
\* known of each, and any points of the days that are known.
Freeze ==
  /\ verdict = NoVerdict
  /\ \E days \in SUBSET (1..HorizonDay) :
       LET opened == days \cap OpenDays
           closed == {ClosedDay(d) : d \in days \ OpenDays}
       IN /\ \A d \in opened : Opens(d) <= time
          /\ \E f \in [opened -> UNION {SessionEvidence(d) : d \in opened}] :
               /\ \A d \in opened : f[d].day = d
               /\ LET known == closed \cup {f[d] : d \in opened}
                  IN \E points \in Projections(known) :
                       /\ verdict' = ResolveRuntimePath(known, points)
                       /\ verdict'.state \in {"TARGET", "STOP", "TIMEOUT"}
                       /\ edge' = IF verdict'.day = 0 THEN 0 ELSE f[verdict'.day].through
  /\ UNCHANGED <<time, market, filledAt>>

PathNext == PassTime \/ Deal \/ Freeze
PathSpec == PathInit /\ [][PathNext]_pathVars

-----------------------------------------------------------------------------
(* Properties.                                                             *)

\* The trades that touch a barrier after the entry, up to the horizon's close.
Touching ==
  {i \in DOMAIN market : /\ market[i].at > filledAt /\ market[i].at < Closes(HorizonDay)
                         /\ market[i].price # Inside}
\* A verdict that was ever given is what the market did: the barrier that was
\* touched first of all the trades that were made, stored or not, or none until
\* the horizon closed.  Nothing that is learnt later contradicts it, whichever
\* days were known and however the trades were projected to points.  But a tick
\* at the very instant the coverage ends is not itself covered.
VerdictIsTrue ==
  LET first == Min(Touching)
  IN /\ verdict.state = "TIMEOUT" => Touching = {} /\ time >= Closes(HorizonDay)
     /\ verdict.state \in {"TARGET", "STOP"} =>
          /\ Touching # {}
          /\ \/ /\ first \in verdict.touch
                /\ market[first].price = (IF verdict.state = "TARGET" THEN AtTarget ELSE AtStop)
             \/ market[first].at = edge /\ \E i \in verdict.touch : market[i].at = edge
=============================================================================
