---------------------------- MODULE MarketIngestion ----------------------------
(***************************************************************************)
(* The ingestion of market events: the sidecar numbers the callbacks of a  *)
(* session and keeps the newest in a ring (sidecars/xtp/runtime.py), the   *)
(* client refuses a response that has lost some (collector/                *)
(* xtp_sidecar.py), and poll_once() (monitor/service.py) appends each      *)
(* event to the store, evaluates the monitor rules on it and moves its     *)
(* cursor.                                                                 *)
(*                                                                         *)
(* A callback takes its number and enters the ring in two critical         *)
(* sections: one that fails in between leaves a gap, and two at once may   *)
(* enter in the other order.                                               *)
(***************************************************************************)
EXTENDS MarketEventStore

CONSTANTS
  RingSize,      \* max_events of the sidecar
  Limit,         \* events per response
  MaxCrashes,    \* bound: crashes of the ingestion process
  MaxFaults      \* bound: disk, SQLite or evaluation errors

ASSUME IngestionAssumption ==
  /\ MaxSessions \in Nat \ {0} /\ MaxSeq \in Nat /\ None \notin Sessions
  /\ RingSize \in Nat \ {0} /\ Limit \in Nat \ {0}

VARIABLES
  sidecar,    \* [session, seq]: the session that runs and the last number it gave
  inFlight,   \* callbacks that have a number and are not in the ring
  ring,       \* _events
  pc, session, cursor,   \* of poll_once(): where it is, the session and cursor it keeps in memory
  batch,      \* events of the response still to be processed
  processed,  \* processed_cursor
  evaluated,  \* events the monitor rules were evaluated on
  crashes, faults,
  torn,       \* crashes and failed recoveries that may have left a manifest behind
  misread     \* sessions that a poll went on in from a cursor that was not theirs

sidecarVars == <<sidecar, inFlight, ring>>
memory == <<session, cursor, batch, processed>>
budget == <<crashes, faults, torn, misread>>
vars == <<storeVars, sidecarVars, pc, memory, evaluated, budget>>

Init ==
  /\ StoreInit
  /\ sidecar = [session |-> 1, seq |-> 0] /\ inFlight = {} /\ ring = <<>>
  /\ pc = "idle" /\ session = None /\ cursor = 0 /\ batch = {} /\ processed = 0
  /\ evaluated = {}
  /\ crashes = 0 /\ faults = 0 /\ torn = 0 /\ misread = {}

-----------------------------------------------------------------------------
(* The sidecar.                                                            *)

NextCallback(symbol) ==
  /\ sidecar.seq < MaxSeq
  /\ sidecar' = [sidecar EXCEPT !.seq = @ + 1]
  /\ inFlight' = inFlight \cup {[session |-> sidecar.session, seq |-> sidecar.seq + 1, symbol |-> symbol]}
  /\ UNCHANGED <<storeVars, ring, pc, memory, evaluated, budget>>

Enter(e) == Append(IF Len(ring) = RingSize THEN Tail(ring) ELSE ring, e)
RingAppend(e) ==
  /\ e \in inFlight
  /\ inFlight' = inFlight \ {e}
  /\ ring' = Enter(e)
  /\ UNCHANGED <<storeVars, sidecar, pc, memory, evaluated, budget>>

SidecarRestarts ==
  /\ sidecar.session < MaxSessions
  /\ sidecar' = [session |-> sidecar.session + 1, seq |-> 0]
  /\ inFlight' = {} /\ ring' = <<>>
  /\ UNCHANGED <<storeVars, pc, memory, evaluated, budget>>

\* events_after(): the first Limit events of the ring that are newer.
Newer(after) == {i \in DOMAIN ring : ring[i].seq > after}
Sent(after) == {i \in Newer(after) : Cardinality({j \in Newer(after) : j < i}) < Limit}
Selected(after) == {ring[i] : i \in Sent(after)}
\* Mutant: the evicted callbacks are never missed.
NeverLost(after) == FALSE
CursorLost(after) == ring # <<>> /\ after + 1 < Head(ring).seq
\* The client: refused when the cursor was evicted or the events are out of order.
Ordered(after) == \A i, j \in Sent(after) : i < j => ring[i].seq < ring[j].seq

-----------------------------------------------------------------------------
(* poll_once()                                                             *)

LastCursor(s) == lastSeq[s]
Snapshot ==
  /\ pc = "idle"
  /\ session' = sidecar.session
  /\ cursor' = IF session = sidecar.session THEN cursor ELSE LastCursor(sidecar.session)
  /\ pc' = "fetch"
  /\ UNCHANGED <<storeVars, sidecarVars, batch, processed, evaluated, budget>>

\* The read of the cursor fails. The session is taken over by then: the next poll does not
\* read again, and asks for what comes after the cursor that is left from before.
SnapshotBreaks ==
  /\ pc = "idle" /\ session # sidecar.session
  /\ faults < MaxFaults /\ faults' = faults + 1
  /\ session' = sidecar.session
  /\ misread' = IF cursor = LastCursor(sidecar.session) THEN misread ELSE misread \cup {sidecar.session}
  /\ UNCHANGED <<storeVars, sidecarVars, pc, cursor, batch, processed, evaluated, crashes, torn>>

Refused == sidecar.session # session \/ CursorLost(cursor) \/ ~Ordered(cursor)
Fetch ==
  /\ pc = "fetch"
  /\ IF Refused
     THEN pc' = "idle" /\ UNCHANGED <<batch, processed>>
     ELSE /\ pc' = "next"
          /\ batch' = Selected(cursor) /\ processed' = cursor
  /\ UNCHANGED <<storeVars, sidecarVars, session, cursor, evaluated, budget>>

\* The response is in order: its next event is the one with the lowest number.
Event == CHOOSE e \in batch : \A f \in batch : e.seq <= f.seq
AppendOpens ==
  /\ pc = "next" /\ batch # {}
  /\ IF IsDuplicate(Event)
     THEN /\ pc' = IF DuplicateIntact(Event) THEN "evaluate" ELSE "rebuild"
          /\ UNCHANGED storeVars
     ELSE IF Collides(Event)
     THEN pc' = "rebuild" /\ UNCHANGED storeVars
     ELSE pc' = "manifest" /\ WriteEventFile(Event)
  /\ UNCHANGED <<sidecarVars, memory, evaluated, budget>>

AppendManifest ==
  /\ pc = "manifest" /\ pc' = "commit"
  /\ WriteManifest
  /\ UNCHANGED <<sidecarVars, memory, evaluated, budget>>

AppendCommits ==
  /\ pc = "commit" /\ pc' = "evaluate"
  /\ Commit
  /\ UNCHANGED <<sidecarVars, memory, evaluated, budget>>

\* append() fails: its handler undoes what an open transaction has done, then rebuilds.
AppendBreaks ==
  /\ faults < MaxFaults /\ faults' = faults + 1
  /\ \/ pc \in {"manifest", "commit"} /\ pc' = "undo"
     \/ pc = "next" /\ batch # {} /\ pc' = "rebuild"
  /\ UNCHANGED <<storeVars, sidecarVars, memory, evaluated, crashes, torn, misread>>
Undo ==
  /\ pc = "undo" /\ pc' = "rebuild"
  /\ UndoAppend
  /\ UNCHANGED <<sidecarVars, memory, evaluated, budget>>
Rebuild ==
  /\ pc = "rebuild" /\ pc' = "finish"
  /\ RebuildManifest(Partition(Event))
  /\ UNCHANGED <<sidecarVars, memory, evaluated, budget>>
\* The recovery fails too, before or after the manifest file is replaced.
RebuildBreaks ==
  /\ faults < MaxFaults /\ faults' = faults + 1
  /\ pc = "rebuild" /\ pc' = "finish"
  /\ torn' = torn + 1
  /\ manifests' \in {manifests, [manifests EXCEPT ![Partition(Event)] = CommittedManifest(Partition(Event))]}
  /\ UNCHANGED <<rows, lastSeq, findings, partitions, files, tx>>
  /\ UNCHANGED <<sidecarVars, memory, evaluated, crashes, misread>>

Evaluate ==
  /\ pc = "evaluate" /\ pc' = "next"
  /\ evaluated' = evaluated \cup {Event}
  /\ processed' = Event.seq
  /\ batch' = batch \ {Event}
  /\ UNCHANGED <<storeVars, sidecarVars, session, cursor, budget>>
EvaluateBreaks ==
  /\ faults < MaxFaults /\ faults' = faults + 1
  /\ pc = "evaluate" /\ pc' = "finish"
  /\ UNCHANGED <<storeVars, sidecarVars, memory, evaluated, crashes, torn, misread>>

\* Mutant: what is stored is passed, evaluated or not.
PassedStored == lastSeq[session]
\* The finally clause: what was processed, and no more, is passed.
Passed == processed
Finish ==
  /\ pc = "finish" \/ (pc = "next" /\ batch = {})
  /\ pc' = "idle"
  /\ cursor' = Passed
  /\ batch' = {} /\ processed' = 0
  /\ UNCHANGED <<storeVars, sidecarVars, session, evaluated, budget>>

\* The process dies and starts again: an open transaction is rolled back, the files stay.
Crash ==
  /\ crashes < MaxCrashes /\ crashes' = crashes + 1
  /\ torn' = torn + 1
  /\ pc' = "idle" /\ session' = None /\ cursor' = 0
  /\ batch' = {} /\ processed' = 0
  /\ tx' = None
  /\ UNCHANGED <<rows, lastSeq, findings, partitions, files, manifests, sidecarVars, evaluated, faults, misread>>

Poll ==
  \/ Snapshot \/ SnapshotBreaks \/ Fetch
  \/ AppendOpens \/ AppendManifest \/ AppendCommits \/ AppendBreaks
  \/ Undo \/ Rebuild \/ RebuildBreaks
  \/ Evaluate \/ EvaluateBreaks \/ Finish
Next ==
  \/ \E symbol \in Symbols : NextCallback(symbol)
  \/ \E e \in inFlight : RingAppend(e)
  \/ SidecarRestarts
  \/ Poll
  \/ Crash

Spec == Init /\ [][Next]_vars

-----------------------------------------------------------------------------
(* Properties.                                                             *)

(* No committed event is ever without its file, and the hash chain of each *)
(* partition is unbroken: not while an append is open, not after one that  *)
(* failed, nor after a crash.                                              *)
RowsIntact == \A p \in Symbols : ChainIntact(p)

LeavesNoTrace ==
  torn = 0 /\ pc \notin {"manifest", "commit", "undo", "rebuild"} =>
    /\ \A p \in Symbols : Verifies(p) /\ manifests[p] = CommittedManifest(p)
    /\ \A f \in files : f.event \in Stored

(* An append that fails and recovers leaves the store as it was: every     *)
(* partition verifies, one without rows has no manifest file, and there is *)
(* no event file without its row. What a crash or a failed recovery leaves *)
(* behind never stays: the file without a row is adopted when its event    *)
(* comes again, and is no collision; a torn manifest heals with the next   *)
(* event of its partition. Not so in a session that was misread: its events *)
(* do not come again in the order in which they were begun.                *)
FailuresHeal ==
  /\ LeavesNoTrace
  /\ session \notin misread =>
       /\ pc = "evaluate" => Verifies(Partition(Event))
       /\ pc = "next" /\ batch # {} => IsDuplicate(Event) \/ ~Collides(Event)

\* The session has a recorded gap below e: a callback of it may still come late.
Overtaken(e) ==
  \E f \in findings : f.kind = "CALLBACK_SEQUENCE" /\ f.session = e.session /\ f.expected < e.seq

(* Up to the last callback stored of a session, each one is stored or lies *)
(* in a recorded gap, and the cursor is never past it: what the ring       *)
(* evicted, a callback that failed or came late, and what a failed poll    *)
(* did not process is never lost without a finding. The rules are          *)
(* evaluated on every event the cursor has passed, except for one at most  *)
(* for each crash, between the commit and the evaluation, and for events   *)
(* above a recorded gap: when the evaluation of such an event failed, a    *)
(* callback of the gap that comes late and leads the ring hides that the   *)
(* ring evicted the event before it could be sent again. A session that was *)
(* misread is excepted: what it numbered up to the cursor of the session   *)
(* before it is passed, and no finding tells.                              *)
NothingPassesUnseen ==
  /\ \A s \in Sessions \ misread : \A n \in 1..lastSeq[s] :
       \/ \E e \in Stored : e.session = s /\ e.seq = n
       \/ \E f \in findings : /\ f.kind = "CALLBACK_SEQUENCE" /\ f.session = s
                              /\ f.expected <= n /\ n < f.observed
  /\ session \notin misread \cup {None} =>
       /\ cursor <= lastSeq[session]
       /\ Cardinality({e \in Stored : /\ e.session = session /\ e.seq <= cursor
                                      /\ e \notin evaluated /\ ~Overtaken(e)}) <= crashes
=============================================================================
