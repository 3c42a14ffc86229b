---------------------------- MODULE MCMonitorInbox ----------------------------
(* The server with its event worker, and the polls of the ingestion        *)
(* script, in a process of its own or in the same one.                     *)
EXTENDS MonitorInbox, TLC

CONSTANTS server, script, bus, poll

MCOneProcess == [o \in Observers |-> server]
MCTwoProcesses == [o \in Observers |-> IF o \in Pollers THEN script ELSE server]
MCDeployments == {MCOneProcess, MCTwoProcesses}
MCJustTwoProcesses == {MCTwoProcesses}

\* One process: a longer trail and rules that expire.  Two: an edited rule.
MCBound ==
  IF OneProcess THEN rule' # None => rule'.version <= 1
  ELSE Len(log') <= 1 /\ (rule' # None => rule'.expires = None)
MCSpec == Init /\ [][Next /\ MCBound]_vars
=============================================================================
