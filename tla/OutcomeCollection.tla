--------------------------- MODULE OutcomeCollection ---------------------------
(***************************************************************************)
(* The outcome collection (quant/storage/outcome_collection.py): an        *)
(* append-only log of facts about cases.  A case is one runtime episode    *)
(* followed in one mode; what is known of it is read off its events.  Each *)
(* call is one transaction that replays the log and appends one event.     *)
(*                                                                         *)
(* A fact is its payload, and its hash is the fact.  A price is under the  *)
(* invalidation price, between, or at the target, with one price for a     *)
(* fill's reference and execution, and costs per share in the same units.  *)
(* Left out: the file identity of the database, and quantities other than  *)
(* whole or partial.                                                       *)
(***************************************************************************)
EXTENDS Naturals, FiniteSets, SequencesExt

CONSTANTS
  Snapshots,   \* what callers may open a case with
  Modes,
  Bars,        \* [session, low, high, observable]: what path points can show
  Costs,       \* of a share, beside its price
  ExitReasons, NoEntryReasons,
  Targets,     \* outcome ledgers
  MaxTime,     \* bound: clock
  MaxEvents    \* bound: log

Under == 1
Between == 2
Above == 3
Prices == {Under, Between, Above}
Time == 0..MaxTime

VARIABLES
  clock,   \* the wall clock, which may be set back
  log      \* outcome_collection_events

collectionVars == <<clock, log>>

-----------------------------------------------------------------------------
(* What the log says of a case: _project_case().                           *)

CaseId(snapshot, mode) == <<snapshot.episode, mode>>
Mode(c) == c[2]
Cases == {CaseId(s, m) : s \in Snapshots, m \in Modes}

Is(i, c, kind) == log[i].case = c /\ log[i].fact.kind = kind
Has(c, kind) == \E i \in DOMAIN log : Is(i, c, kind)
Fact(c, kind) == log[CHOOSE i \in DOMAIN log : Is(i, c, kind)].fact
Facts(c) == {log[i].fact : i \in {j \in DOMAIN log : log[j].case = c}}

Snapshot(c) == Fact(c, "opened").snapshot
Entry(c) == Fact(c, "entry")
Request(c) == Fact(c, "request")
Exit(c) == Fact(c, "exit")
\* The points of a path by their places in the log, whose order is theirs.
Path(c) == {i \in DOMAIN log : Is(i, c, "point")}
Point(i) == log[i].fact

State(c) ==
  IF Has(c, "finalized") THEN "FINALIZED"
  ELSE IF Has(c, "prepared") THEN "FINALIZATION_PREPARED"
  ELSE IF Has(c, "no_entry") \/ Has(c, "exit") THEN "TERMINAL_READY"
  ELSE IF Has(c, "request") THEN "EXIT_REQUESTED"
  ELSE IF Has(c, "entry") THEN "OPEN_POSITION"
  ELSE "AWAITING_ENTRY"

-----------------------------------------------------------------------------
(* Opening a case.                                                         *)

\* Mutant: a repeated call captures the snapshot again.
OpenFactNow(s, m) == [kind |-> "opened", snapshot |-> s, capturedAt |-> clock]
\* A repeated call takes the time the case was first captured.
OpenFact(s, m) ==
  LET c == CaseId(s, m)
  IN [kind |-> "opened", snapshot |-> s,
      capturedAt |-> IF Has(c, "opened") THEN Fact(c, "opened").capturedAt ELSE clock]

Capturable(s) == s.state \in {"TRIGGERED", "ACTIVE", "DATA_INVALID"} /\ s.requestedAt <= clock
\* The other mode of the episode must have been opened with the same evidence.
SameEvidence(s) ==
  \A c \in Cases : c[1] = s.episode /\ Has(c, "opened") => Snapshot(c) = s

-----------------------------------------------------------------------------
(* The facts of a case, each admissible or refused.                        *)

EntryFact(at, session, price, cost, evidence, whole) ==
  [kind |-> "entry", at |-> at, session |-> session, price |-> price, cost |-> cost,
   evidence |-> evidence, whole |-> whole]
NoEntryFact(at, reason, evidence) ==
  [kind |-> "no_entry", at |-> at, reason |-> reason, evidence |-> evidence]
PointFact(at, bar, evidence) == [kind |-> "point", at |-> at, bar |-> bar, evidence |-> evidence]
ExitFact(at, session, price, cost, evidence, whole) ==
  [EntryFact(at, session, price, cost, evidence, whole) EXCEPT !.kind = "exit"]

Evidenced(c, f) == Mode(c) = "LIVE_MANUAL" => f.evidence
Since(t, f) == f.at \in t..clock

EntryAdmissible(c, f) ==
  /\ Snapshot(c).state \in {"TRIGGERED", "ACTIVE"}
  /\ Snapshot(c).data \in {"LIVE"} \cup IF Mode(c) = "PAPER" THEN {"DELAYED"} ELSE {}
  /\ Evidenced(c, f) /\ Since(Snapshot(c).requestedAt, f)
  /\ f.whole

NoEntryAdmissible(c, f) == Evidenced(c, f) /\ Since(Snapshot(c).requestedAt, f)

\* Mutant: a point may be older than one already in the path.
AnyOrder(c, f) == f.bar.session >= Entry(c).session
InOrder(c, f) ==
  /\ f.bar.session >= Entry(c).session
  /\ Path(c) # {} => LET last == Point(Max(Path(c)))
                     IN f.at > last.at /\ f.bar.session >= last.bar.session
\* Mutant: a point may be stored at the time the exit was requested for.
AtRequest(c) == Has(c, "request") => clock >= Request(c).at
AfterRequest(c) == Has(c, "request") => clock > Request(c).at
PointAdmissible(c, f) ==
  Evidenced(c, f) /\ Since(Entry(c).at, f) /\ InOrder(c, f) /\ AfterRequest(c)

\* What of the path was stored when the exit was requested.
KnownAt(path, t) == {i \in path : log[i].observed <= t}
\* Mutant: a repeated request reads the path as it is now.
RequestPathNow(c, t) ==
  IF Has(c, "request") THEN Path(c) ELSE KnownAt(Path(c), t)
First(path, n) == {i \in path : Cardinality({j \in path : j <= i}) <= n}
\* A repeated request reads as many points as the first one froze.
RequestPath(c, t) ==
  IF Has(c, "request") THEN First(Path(c), Cardinality(Request(c).prefix)) ELSE KnownAt(Path(c), t)
RequestFact(c, at, reason, evidence, whole) ==
  [kind |-> "request", at |-> at, reason |-> reason, evidence |-> evidence, whole |-> whole,
   prefix |-> RequestPath(c, at)]

Horizon(c) == Entry(c).session + Snapshot(c).horizon
Observable(path, t) == {i \in path : Point(i).bar.observable /\ Point(i).at <= t}
HitsTarget(i) == Point(i).bar.high = Above
HitsStop(i) == Point(i).bar.low = Under
Touches(c, path) == {i \in path : Point(i).bar.session <= Horizon(c) /\ (HitsTarget(i) \/ HitsStop(i))}
\* Mutant: any touch of the barrier will do.
AnyTouch(c, f) ==
  LET touches == Touches(c, Observable(f.prefix, f.at))
  IN /\ f.reason = "TARGET" => \E i \in touches : HitsTarget(i)
     /\ f.reason = "STOP" => \E i \in touches : HitsStop(i)
\* _validate_exit_reason_at_request(): the first barrier touched explains the exit.
ReasonHolds(c, f) ==
  LET known == Observable(f.prefix, f.at)
      touches == Touches(c, known)
  IN /\ f.reason = "TARGET" => touches # {} /\ HitsTarget(Min(touches)) /\ ~HitsStop(Min(touches))
     /\ f.reason = "STOP" => touches # {} /\ HitsStop(Min(touches)) /\ ~HitsTarget(Min(touches))
     /\ f.reason = "TIMEOUT" => touches = {} /\ \E i \in known : Point(i).bar.session = Horizon(c)
RequestAdmissible(c, f) ==
  /\ Evidenced(c, f) /\ Since(Entry(c).at, f)
  /\ f.whole /\ ReasonHolds(c, f)

\* _validate_complete_path_coverage()
Shown(c, session) ==
  {Point(i).bar : i \in {j \in Path(c) : Point(j).bar.observable /\ Point(j).bar.session = session}}
InRange(price, bars) == (\E b \in bars : b.low <= price) /\ (\E b \in bars : price <= b.high)
\* Mutant: only the ends of the holding are looked at.
CoversEnds(c, f) == Shown(c, Entry(c).session) # {} /\ Shown(c, f.session) # {}
Covers(c, f) ==
  LET holding == f.session - Entry(c).session
  IN /\ holding >= Snapshot(c).minExit
     /\ Request(c).reason = "TIMEOUT" => holding >= Snapshot(c).horizon
     /\ \A session \in Entry(c).session..f.session : Shown(c, session) # {}
     /\ \A i \in Path(c) : Point(i).bar.session <= f.session
     /\ InRange(Entry(c).price, Shown(c, Entry(c).session))
     /\ InRange(f.price, Shown(c, f.session))
ExitAdmissible(c, f) ==
  /\ Evidenced(c, f) /\ Since(Request(c).at, f)
  /\ f.whole /\ f.session >= Entry(c).session
  /\ Path(c) # {} => Point(Max(Path(c))).at <= f.at
  /\ Covers(c, f)

\* The costed entry leaves a risk, the costed exit leaves a price (SignalOutcome, OutcomeMetrics).
Priced(c) == Entry(c).price + Entry(c).cost > Under /\ Exit(c).price > Exit(c).cost
\* _build_signal_outcome(): what SignalOutcome makes of the facts, or None of them.
Constructible(c) ==
  Has(c, "entry") =>
    /\ Priced(c)
    /\ \E i \in Path(c) : Point(i).bar.observable
    /\ \A i \in Path(c) : Point(i).at <= Exit(c).at /\ Point(i).bar.session <= Exit(c).session
Outcome(c, recordedAt) ==
  [case |-> c, recordedAt |-> recordedAt,
   facts |-> {f \in Facts(c) : f.kind \notin {"prepared", "finalized"}}]
PreparedFact(c, target) == [kind |-> "prepared", target |-> target, outcome |-> Outcome(c, clock)]
PreparedAdmissible(c) == State(c) = "TERMINAL_READY" /\ Constructible(c)

\* What FINALIZED must repeat of what was prepared.
FinalizedAdmissible(c, f) ==
  /\ State(c) = "FINALIZATION_PREPARED"
  /\ f.target = Fact(c, "prepared").target
  /\ f.outcome = Fact(c, "prepared").outcome

\* OutcomeCollectionCase.__post_init__(), which every replay runs for every case.
CaseHolds(c) ==
  /\ \A i \in Path(c) :
       /\ Point(i).at <= log[i].observed
       /\ \A j \in Path(c) : j <= i => log[j].observed <= log[i].observed
  /\ Has(c, "request") =>
       Request(c).prefix = KnownAt(Path(c), Request(c).at) /\ ReasonHolds(c, Request(c))
  /\ Has(c, "exit") => Covers(c, Exit(c))
  /\ Has(c, "prepared") =>
       Constructible(c) /\ Fact(c, "prepared").outcome = Outcome(c, Fact(c, "prepared").outcome.recordedAt)

-----------------------------------------------------------------------------
(* The calls.  One that is refused, or that repeats a stored fact, leaves  *)
(* the log alone.                                                          *)

\* _load_validated(): no event may have been observed after the cutoff.
Readable == log # <<>> => Last(log).observed <= clock
AppendEvent(c, fact) ==
  /\ Readable /\ Len(log) < MaxEvents
  /\ fact \notin Facts(c)
  /\ log' = Append(log, [case |-> c, fact |-> fact, observed |-> clock])
  /\ UNCHANGED clock

OpenCase(s, m) ==
  /\ Capturable(s) /\ SameEvidence(s)
  /\ ~Has(CaseId(s, m), "opened")
  /\ AppendEvent(CaseId(s, m), OpenFact(s, m))
Opened == {c \in Cases : Has(c, "opened")}

RecordEntryFill(c) == State(c) = "AWAITING_ENTRY" /\
  \E at \in Time, session \in {b.session : b \in Bars}, price \in Prices, cost \in Costs, evidence, whole \in BOOLEAN :
    LET f == EntryFact(at, session, price, cost, evidence, whole)
    IN EntryAdmissible(c, f) /\ AppendEvent(c, f)
RecordNoEntry(c) == State(c) = "AWAITING_ENTRY" /\
  \E at \in Time, reason \in NoEntryReasons, evidence \in BOOLEAN :
    LET f == NoEntryFact(at, reason, evidence)
    IN NoEntryAdmissible(c, f) /\ AppendEvent(c, f)
RecordPathPoint(c) == State(c) \in {"OPEN_POSITION", "EXIT_REQUESTED"} /\
  \E at \in Time, bar \in Bars, evidence \in BOOLEAN :
    LET f == PointFact(at, bar, evidence)
    IN PointAdmissible(c, f) /\ AppendEvent(c, f)
RecordExitRequest(c) == State(c) = "OPEN_POSITION" /\
  \E at \in Time, reason \in ExitReasons, evidence, whole \in BOOLEAN :
    LET f == RequestFact(c, at, reason, evidence, whole)
    IN RequestAdmissible(c, f) /\ AppendEvent(c, f)
RecordExitFill(c) == State(c) = "EXIT_REQUESTED" /\
  \E at \in Time, session \in {b.session : b \in Bars}, price \in Prices, cost \in Costs, evidence, whole \in BOOLEAN :
    LET f == ExitFact(at, session, price, cost, evidence, whole)
    IN ExitAdmissible(c, f) /\ AppendEvent(c, f)
PrepareFinalization(c, target) ==
  PreparedAdmissible(c) /\ AppendEvent(c, PreparedFact(c, target))

Record(c) ==
  \/ RecordEntryFill(c) \/ RecordNoEntry(c)
  \/ RecordPathPoint(c)
  \/ RecordExitRequest(c) \/ RecordExitFill(c)

SetClock(t) == clock' = t /\ t # clock /\ UNCHANGED log

CollectionInit == clock = 0 /\ log = <<>>

-----------------------------------------------------------------------------
(* A stop or a target that closed a case is the first barrier of its whole *)
(* path: what is stored after the request, of whatever market time, never  *)
(* explains or refutes the exit.  A timeout saw its last session, and no   *)
(* barrier that was known when it was requested (one that is stored later, *)
(* of a session the timeout had waited for, leaves it as it is).           *)
ReasonIsFirstBarrier ==
  \A c \in Opened :
    Has(c, "request") =>
      LET r == Request(c)
          seen == {i \in Path(c) : Point(i).bar.observable}
          touches == Touches(c, seen)
          Known(i) == log[i].observed <= r.at
      IN /\ r.reason \in {"TARGET", "STOP"} =>
              \E i \in touches :
                /\ \A j \in touches : Point(i).at <= Point(j).at
                /\ Known(i) /\ r.reason = IF HitsTarget(i) THEN "TARGET" ELSE "STOP"
         /\ r.reason = "TIMEOUT" =>
              /\ \A i \in touches : ~Known(i)
              /\ \E i \in seen : Known(i) /\ Point(i).bar.session = Horizon(c)

(* The log never locks itself out: a replay accepts every case, and finds  *)
(* the path an exit was decided on to be what was stored when it was       *)
(* requested, whatever was stored since and in whatever order it happened. *)
CasesHold == \A c \in Opened : CaseHolds(c)

(* A call that is made again, with the arguments it was accepted with and  *)
(* whatever was stored meanwhile, computes the fact that is stored: it is  *)
(* answered, not refused, and nothing is appended twice.                   *)
RepeatsAreAnswered ==
  \A i \in DOMAIN log :
    LET e == log[i]
    IN /\ e.fact.kind = "opened" => OpenFact(e.fact.snapshot, Mode(e.case)) = e.fact
       /\ e.fact.kind = "request" =>
            RequestFact(e.case, e.fact.at, e.fact.reason, e.fact.evidence, e.fact.whole) = e.fact

(* The log means the same at any later time, to a replay and to a caller.  *)
LogReplays == CasesHold /\ RepeatsAreAnswered
=============================================================================
