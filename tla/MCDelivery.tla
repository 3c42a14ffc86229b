------------------------------ MODULE MCDelivery ------------------------------
(* Two scenarios of the artifact lane, and the migration of its tables.     *)
(*   DELIVERY: one manager writes two occurrences; two workers with one     *)
(*   worker_id, leases that expire under them, a crash.                     *)
(*   RACES: two managers race from the same versions, a third worker was    *)
(*   built with another artifact store; no crash and no time passes.        *)
(*   MIGRATION: two calls of the migration beside the server.               *)
EXTENDS MCArtifactDelivery, RuntimeMigration

CONSTANT w3

MCCandidates == MCTwoCandidates \cup MCRacingCandidates

VARIABLE scenario
MCInit ==
  /\ scenario \in {"DELIVERY", "RACES", "MIGRATION"} /\ Init
  /\ MigrationInit /\ (scenario = "MIGRATION" \/ (main.version = 0 /\ main.sound))
DeliveryNext ==
  \/ /\ Len(outbox) < MaxOutbox /\ Persist("m1")
     /\ \A s \in Signals : signals'[s] \in {None, "w1", "x1"}
  \/ \E w \in {w1, w2} : WorkerStep(w) \/ AppendBreaks(w) \/ Crash(w)
  \/ Tick
RacesNext ==
  \/ \E m \in Managers : Persist(m) /\ signals'["S2"] = None
  \/ \E w \in Workers : WorkerStep(w)
MCNext ==
  /\ UNCHANGED scenario
  /\ \/ scenario = "DELIVERY" /\ DeliveryNext /\ UNCHANGED migrationVars
     \/ scenario = "RACES" /\ RacesNext /\ UNCHANGED migrationVars
     \/ scenario = "MIGRATION" /\ MigrationNext /\ UNCHANGED vars
MCSpec == MCInit /\ [][MCNext]_<<vars, migrationVars, scenario>>
=============================================================================
