----------------------------- MODULE EvidenceLog -----------------------------
(* What the physical evidence store promises its callers: one append-only  *)
(* log of inputs in which a key occurs at most once, and answers that name *)
(* an entry of that log.  Catalogue, files, locks and crashes are absent.  *)
EXTENDS Integers, Sequences

CONSTANT Inputs

VARIABLES
  log,      \* the inputs published so far
  told      \* <<append order, input>> pairs given to callers

vars == <<log, told>>

Init == log = <<>> /\ told = {}

Fresh(i) == \A k \in 1..Len(log) : log[k].key # i.key

Publish(i) ==
  /\ Fresh(i)
  /\ log' = Append(log, i)
  /\ told' = told \cup {<<Len(log) + 1, i>>}

Answer(k) ==
  /\ told' = told \cup {<<k, log[k]>>}
  /\ UNCHANGED log

Next == (\E i \in Inputs : Publish(i)) \/ (\E k \in 1..Len(log) : Answer(k))

Spec == Init /\ [][Next]_vars
=============================================================================
