--------------------------- MODULE MCMarketEvidence ---------------------------
(* From market events to verdicts: each behaviour is about one of the three *)
(* components, the state of the others stands still.                        *)
(*   INGESTION: two sessions of a sidecar with two symbols, a ring of two.  *)
(*   COVERAGE: a connection that is lost once and a market of two trades.   *)
(*   PATH: an entry day with a break, a holiday, a horizon day.             *)
EXTENDS MarketIngestion, TransportCoverage, PathResolution, TLC

CONSTANTS A, B

MCSymbols == {A, B}
MCSymmetry == Permutations(MCSymbols)

Seg(a, b, p, x) == [from |-> a, to |-> b, prices |-> p, execution |-> x]
MCCalendar ==
  <<<<Seg(0, 1, TRUE, TRUE), Seg(1, 2, FALSE, FALSE), Seg(2, 4, TRUE, TRUE)>>, <<>>,
    <<Seg(4, 5, TRUE, TRUE), Seg(5, 6, TRUE, FALSE)>>>>

VARIABLE kind
mcVars == <<kind, vars, feedVars, pathVars>>

MCInit ==
  /\ kind \in {"INGESTION", "COVERAGE", "PATH"}
  /\ Init /\ FeedInit /\ PathInit
  /\ kind # "COVERAGE" => scope = "SESSION"
  /\ kind # "PATH" => filledAt = 0

\* Rows of the transport log that tell nothing new are left out.
FewRows ==
  /\ Len(trades') <= Len(queue') + Len(records') + 1
  /\ Current = 0 => instant' = 0 /\ trades' = <<>>
  /\ \A r \in transport' \ transport :
       r.kind = "HEARTBEAT" =>
         instant \notin Stamps(Current, "CALLBACK_WATERMARK") \cup ToSet(trades)

MCNext ==
  /\ UNCHANGED kind
  /\ \/ kind = "INGESTION" /\ Next /\ UNCHANGED <<feedVars, pathVars>>
     \/ kind = "COVERAGE" /\ FeedNext /\ FewRows /\ UNCHANGED <<vars, pathVars>>
     \/ kind = "PATH" /\ PathNext /\ UNCHANGED <<vars, feedVars>>
MCSpec == MCInit /\ [][MCNext]_mcVars
=============================================================================
