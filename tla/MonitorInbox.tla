----------------------------- MODULE MonitorInbox -----------------------------
(***************************************************************************)
(* The monitor's inbox: MonitorEngine.evaluate_rule() of monitor/engine.py *)
(* over the tables of monitor/repository.py, for one rule and one symbol   *)
(* whose facts always match.  Triggers come from two kinds of observers:   *)
(* the event worker of the server stamps a trigger with the time it        *)
(* evaluates it; MonitorService.poll_once(), which runs in the process of  *)
(* scripts/ingest_xtp_sidecar.py, with the time the sidecar received the   *)
(* event, and it evaluates an event again when a poll is repeated.         *)
(*                                                                         *)
(* record_trigger() is one BEGIN IMMEDIATE transaction.  transition() and  *)
(* the two expire methods select first and write in a transaction that     *)
(* only starts with their UPDATE: between the two, the lock of the         *)
(* repository object keeps the other threads of the same process out, but  *)
(* not another process.                                                    *)
(***************************************************************************)
EXTENDS NotificationOutbox, SequencesExt

CONSTANTS
  Processes,
  Server,        \* the process that serves transition() and the rule editor
  Observers,     \* threads that evaluate rules
  Pollers,       \* the ones that run poll_once()
  Deployments,   \* in which process each observer runs
  Window,        \* suppress_window_sec
  Expiries,      \* what a user may set expires_at to
  MaxVersion, MaxInbox, MaxLog, MaxTime   \* bounds of the model

ASSUME InboxAssumption ==
  /\ Server \in Processes /\ Pollers \subseteq Observers
  /\ Deployments \subseteq [Observers -> Processes]
  /\ Window \in Nat

VARIABLES
  processOf, \* the deployment
  rule,      \* table monitor_rules: None or the rule
  inbox,     \* table monitor_inbox, in the order of insertion
  log,       \* table monitor_transitions
  task,      \* by observer: None, or the rule it has read and the time of the trigger
  pending,   \* by process: None, or the rows a method has selected and will update
  clock

vars == <<processOf, outbox, rule, inbox, log, task, pending, clock>>

Terminal == {"INVALIDATED", "EXPIRED", "RESOLVED"}
InboxStates == {"NEW", "ACKNOWLEDGED", "SNOOZED"} \cup Terminal

\* Mutant: terminal states are not looked at.
AllowedFromAnywhere(current, target) ==
  \/ target \in Terminal \ {current}
  \/ current = "NEW" /\ target \in {"ACKNOWLEDGED", "SNOOZED"}
  \/ current = "ACKNOWLEDGED" /\ target = "SNOOZED"
  \/ current = "SNOOZED" /\ target = "NEW"

\* state_transition_allowed()
Allowed(current, target) ==
  /\ current \notin Terminal
  /\ \/ target \in Terminal
     \/ current = "NEW" /\ target \in {"ACKNOWLEDGED", "SNOOZED"}
     \/ current = "ACKNOWLEDGED" /\ target = "SNOOZED"
     \/ current = "SNOOZED" /\ target = "NEW"

Init ==
  /\ processOf \in Deployments
  /\ outbox = <<>> /\ rule = None /\ inbox = <<>> /\ log = <<>>
  /\ task = [o \in Observers |-> None]
  /\ pending = [p \in Processes |-> None]
  /\ clock = 0

\* The repository's RLock.
LockFree(p) == pending[p] = None

-----------------------------------------------------------------------------
(* Rules.                                                                  *)

NextVersion == IF rule = None THEN 1 ELSE rule.version + 1
UpsertRule(enabled, expires, channels) ==
  /\ LockFree(Server)
  /\ NextVersion <= MaxVersion
  /\ rule' = [version |-> NextVersion, enabled |-> enabled, expires |-> expires, channels |-> channels]
  /\ UNCHANGED <<outbox, inbox, log, task, pending, clock>>

\* Refused while there is history, by the method and by the foreign key.
DeleteRule ==
  /\ LockFree(Server)
  /\ rule # None /\ inbox = <<>>
  /\ rule' = None
  /\ UNCHANGED <<outbox, inbox, log, task, pending, clock>>

-----------------------------------------------------------------------------
(* Triggers.                                                               *)

\* evaluate_all(): list_rules(), then evaluate_rule() for each.
Observe(o) ==
  /\ task[o] = None
  /\ rule # None /\ rule.enabled
  /\ \E at \in IF o \in Pollers THEN 0..clock ELSE {clock} :
       task' = [task EXCEPT ![o] = [at |-> at, rule |-> rule]]
  /\ UNCHANGED <<outbox, rule, inbox, log, pending, clock>>

Expired(t) == t.rule.expires # None /\ t.at >= t.rule.expires

\* The dedup key holds the version: ORDER BY last_triggered_at DESC LIMIT 1.
SameKey(version) == {i \in DOMAIN inbox : inbox[i].version = version}
Latest(version) ==
  {i \in SameKey(version) : \A j \in SameKey(version) : inbox[j].last <= inbox[i].last}

\* _insert_inbox_with_connection()
Insert(t) ==
  /\ inbox' = Append(inbox, [version |-> t.rule.version, state |-> "NEW", first |-> t.at,
                             last |-> t.at, count |-> 1, until |-> None])
  /\ outbox' = WithRows(Len(inbox'), t.rule.channels, t.at)

\* Mutant: only the order counts.
SuppressedByOrder(row, at) == at < row.last

Suppressed(row, at) == at < row.last \/ at - row.last < Window

Wakes(row, at) == row.state = "SNOOZED" /\ row.until <= at
\* Mutant: a trigger reopens.
MergedReopens(row, at) == [row EXCEPT !.last = at, !.count = row.count + 1, !.state = "NEW", !.until = None]

Merged(row, at) ==
  [row EXCEPT !.last = at, !.count = row.count + 1,
              !.state = IF Wakes(row, at) THEN "NEW" ELSE row.state,
              !.until = IF Wakes(row, at) THEN None ELSE row.until]

Merge(t, i) ==
  /\ inbox' = [inbox EXCEPT ![i] = Merged(inbox[i], t.at)]
  /\ outbox' = WithRows(i, t.rule.channels, t.at)

\* A first trigger of a rule deleted meanwhile fails on its foreign key.
InsertRefused == rule = None

RecordTrigger(o) ==
  LET t == task[o]  latest == Latest(t.rule.version)
  IN /\ t # None /\ ~Expired(t)
     /\ LockFree(processOf[o])
     /\ \/ /\ \A i \in latest : inbox[i].state \in Terminal
           /\ InsertRefused /\ UNCHANGED <<inbox, outbox>>
        \/ /\ latest = {} \/ \E i \in latest : inbox[i].state \in Terminal
           /\ ~InsertRefused /\ Len(inbox) < MaxInbox
           /\ Insert(t)
        \/ \E i \in latest :
             /\ inbox[i].state \notin Terminal
             /\ \/ Suppressed(inbox[i], t.at) /\ UNCHANGED <<inbox, outbox>>
                \/ ~Suppressed(inbox[i], t.at) /\ Merge(t, i)
     /\ task' = [task EXCEPT ![o] = None]
     /\ UNCHANGED <<rule, log, pending, clock>>

-----------------------------------------------------------------------------
(* Methods that select, then update.                                       *)

Selected(rows) == [i \in rows |-> inbox[i].state]
Select(p, rows, to, until, why) ==
  /\ LockFree(p)
  /\ pending' = [pending EXCEPT ![p] = [from |-> Selected(rows), to |-> to, until |-> until, why |-> why]]
  /\ UNCHANGED <<outbox, rule, inbox, log, clock>>

\* transition(), from the API
Transition(i, target, until) ==
  /\ Allowed(inbox[i].state, target)
  /\ (target = "SNOOZED") = (until # None)
  /\ Select(Server, {i}, target, until, "user")
  /\ UNCHANGED task

\* expire_due(), at the start of a poll
DueSnoozes == {i \in DOMAIN inbox : Wakes(inbox[i], clock)}
ExpireDue(o) ==
  /\ task[o] = None
  /\ DueSnoozes # {}
  /\ Select(processOf[o], DueSnoozes, "NEW", None, "snooze elapsed")
  /\ UNCHANGED task

\* expire_rule_events(), called for the rule the observer has read
Active == {i \in DOMAIN inbox : inbox[i].state \notin Terminal}
ExpireRule(o) ==
  /\ task[o] # None /\ Expired(task[o])
  /\ IF Active = {} THEN LockFree(processOf[o]) /\ UNCHANGED <<outbox, rule, inbox, log, pending, clock>>
     ELSE Select(processOf[o], Active, "EXPIRED", None, "monitor rule expired")
  /\ task' = [task EXCEPT ![o] = None]

\* The UPDATE and INSERT of every selected row, in one transaction; the rows come in
\* the order of the SELECT, which has no ORDER BY.
Written(work, i) == [inbox[i] EXCEPT !.state = work.to, !.until = work.until]
Entry(work, i) == [inbox |-> i, from |-> work.from[i], to |-> work.to, why |-> work.why]
Update(p) ==
  LET work == pending[p]  rows == DOMAIN work.from
  IN /\ work # None
     /\ Len(log) + Cardinality(rows) <= MaxLog
     /\ inbox' = [i \in DOMAIN inbox |-> IF i \in rows THEN Written(work, i) ELSE inbox[i]]
     /\ log' = log \o [k \in 1..Cardinality(rows) |-> Entry(work, SetToSeq(rows)[k])]
     /\ pending' = [pending EXCEPT ![p] = None]
     /\ UNCHANGED <<outbox, rule, task, clock>>

Tick == clock < MaxTime /\ clock' = clock + 1 /\ UNCHANGED <<outbox, rule, inbox, log, task, pending>>

Step ==
  \/ \E enabled \in BOOLEAN, expires \in Expiries, channels \in (SUBSET Channels) \ {{}} :
       UpsertRule(enabled, expires, channels)
  \/ DeleteRule
  \/ \E o \in Observers : Observe(o) \/ RecordTrigger(o) \/ ExpireRule(o)
  \/ \E o \in Pollers : ExpireDue(o)
  \/ \E i \in DOMAIN inbox, target \in InboxStates, until \in {None} \cup clock + 1..clock + 2 :
       Transition(i, target, until)
  \/ \E p \in Processes : Update(p)
  \/ Tick

Next == Step /\ UNCHANGED processOf
Spec == Init /\ [][Next]_vars

-----------------------------------------------------------------------------
(* However many observers match at once, in whatever order their triggers  *)
(* are stamped, two notifications of one inbox event on one channel are a  *)
(* cooldown apart, and every trigger that was counted has been notified,   *)
(* once.                                                                   *)
CooldownKept ==
  /\ \A j, k \in DOMAIN outbox :
       (j < k /\ outbox[j].inbox = outbox[k].inbox /\ outbox[j].channel = outbox[k].channel)
         => outbox[k].created >= outbox[j].created + Window
  /\ \A i \in DOMAIN inbox :
       inbox[i].count = Cardinality({outbox[k].created : k \in {j \in DOMAIN outbox : outbox[j].inbox = i}})

OneProcess == \A o \in Observers : processOf[o] = Server

(* In one process, whose lock covers the select and the update, a          *)
(* resolved, invalidated or expired event never changes again.             *)
TerminalIsFinal ==
  [][OneProcess => \A i \in DOMAIN inbox : inbox[i].state \in Terminal => inbox'[i] = inbox[i]]_vars

Follows(from, to) == to = from \/ (from = "SNOOZED" /\ to = "NEW")
\* Where the first n entries of the log leave event i, it may be in this state.
Continues(i, n, state) ==
  LET trail == {k \in 1..n : log[k].inbox = i}
  IN /\ trail = {} => Follows("NEW", state)
     /\ \A k \in trail : (\A j \in trail : j <= k) => Follows(log[k].to, state)

(* In one process the recorded transitions of an event are one path that   *)
(* ends in its state; the only step they do not show is a trigger's wake   *)
(* of a snooze that was due.                                               *)
HistoryExplainsState == OneProcess =>
  /\ \A i \in DOMAIN inbox : Continues(i, Len(log), inbox[i].state)
  /\ \A k \in DOMAIN log :
       /\ Continues(log[k].inbox, k - 1, log[k].from)
       /\ log[k].why = "user" => Allowed(log[k].from, log[k].to)

-----------------------------------------------------------------------------
(* What the code says of itself, and does otherwise.                       *)

(* "Create a new inbox event or append one trigger to an active event"     *)
(* (monitor/repository.py): a dedup identity has one active event.         *)
OneActive == \A i, j \in Active : inbox[i].version = inbox[j].version => i = j
=============================================================================
