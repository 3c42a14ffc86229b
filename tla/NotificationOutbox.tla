-------------------------- MODULE NotificationOutbox --------------------------
(***************************************************************************)
(* The table notification_outbox of monitor/repository.py.  A trigger adds *)
(* one row per channel of its rule; claim_pending_outbox() leases the rows *)
(* that are due; mark_outbox() settles one.  Each method is one BEGIN      *)
(* IMMEDIATE transaction, here one operator.                               *)
(*                                                                         *)
(* Rows are numbered in the order they were inserted.  An outbox_id is a   *)
(* random uuid, so rows created at the same time are in no given order.    *)
(***************************************************************************)
EXTENDS Integers, Sequences, FiniteSets

CONSTANTS
  Channels,      \* "BROWSER", "WEBHOOK"
  LeaseTime,     \* lease_seconds of a claim
  Limit,         \* rows one claim takes at most
  None

ASSUME OutboxAssumption ==
  /\ Channels \subseteq {"BROWSER", "WEBHOOK"}
  /\ LeaseTime \in Nat \ {0} /\ Limit \in Nat \ {0}
  /\ None \notin Nat

VARIABLE outbox

Final == {"DELIVERED", "FAILED", "DISABLED"}

Row(inbox, channel, at) ==
  [inbox |-> inbox, channel |-> channel, state |-> "PENDING", attempts |-> 0,
   next |-> at, created |-> at]

\* The outbox after a trigger at time at of a rule with these channels.
WithRows(inbox, channels, at) ==
  LET new == CHOOSE s \in [1..Cardinality(channels) -> channels] :
               \A c \in channels : \E k \in DOMAIN s : s[k] = c
  IN outbox \o [k \in 1..Cardinality(channels) |-> Row(inbox, new[k], at)]

\* Mutants: a lease is taken back while it runs; it is never taken back.
RecoveredEarly(row, at) ==
  IF row.state = "SENDING" THEN [row EXCEPT !.state = "PENDING", !.next = None] ELSE row
RecoveredNever(row, at) == row

\* A claim first takes back the rows whose lease has run out.
Recovered(row, at) ==
  IF row.state = "SENDING" /\ row.next <= at
  THEN [row EXCEPT !.state = "PENDING", !.next = None] ELSE row

Due(at) ==
  {k \in DOMAIN outbox :
     LET row == Recovered(outbox[k], at)
     IN row.state = "PENDING" /\ (row.next = None \/ row.next <= at)}

\* Oldest first, and no more than the limit.
Claimable(at) ==
  {S \in SUBSET Due(at) :
     /\ Cardinality(S) = IF Cardinality(Due(at)) < Limit THEN Cardinality(Due(at)) ELSE Limit
     /\ \A k \in S, j \in Due(at) \ S : outbox[k].created <= outbox[j].created}

\* claim_pending_outbox(): the rows of S are leased.
Lease(S, at) ==
  outbox' = [k \in DOMAIN outbox |->
               IF k \in S THEN [outbox[k] EXCEPT !.state = "SENDING", !.next = at + LeaseTime]
               ELSE Recovered(outbox[k], at)]

\* mark_outbox() with expected_state "SENDING".
CanMark(k) == outbox[k].state = "SENDING"
Mark(k, state, attempts, next) ==
  /\ CanMark(k)
  /\ outbox' = [outbox EXCEPT ![k] = [outbox[k] EXCEPT !.state = state, !.attempts = attempts, !.next = next]]
=============================================================================
