--------------------------- MODULE MCProviderCircuit ---------------------------
(* Two providers, one of which serves both markets; doubles that hold 2^1.  *)
EXTENDS ProviderCircuit

MCServes == [p \in Providers |-> IF p = "tencent" THEN {"A", "HK"} ELSE {"A"}]
=============================================================================
