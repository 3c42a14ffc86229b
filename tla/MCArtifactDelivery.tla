------------------------- MODULE MCArtifactDelivery -------------------------
(* Two signals of one strategy: each is watched, then armed or triggered.  *)
EXTENDS ArtifactDelivery, TLC

CONSTANTS w1, w2

MCStateOf == [w1 |-> "WATCH", w2 |-> "WATCH", a1 |-> "ARMED", t1 |-> "TRIGGERED", x1 |-> "WATCH"]
C(signal, prev, target, evidence) ==
  [signal |-> signal, prev |-> prev, target |-> target, evidence |-> evidence]
\* Two occurrences of unrelated signals.
MCTwoCandidates == {C("S1", None, "w1", "draft"), C("S2", None, "x1", "draft")}
\* Managers that raced from the same versions, with and without evidence.
MCRacingCandidates ==
  {C("S1", None, "w1", "draft"), C("S1", "w1", "w2", "refresh"),
   C("S1", "w1", "a1", "draft"), C("S1", "w1", "t1", "draft"), C("S1", "w2", "t1", "draft"),
   C("S1", "a1", "t1", "invalid"), C("S1", "a1", "w2", "unavailable")}

MCSameId == [w \in Workers |-> "svc"]
MCOneStore == [w \in Workers |-> "store"]
MCSymmetry == Permutations({w1, w2})
MCTwoStores == [w \in Workers |-> IF w \in {w1, w2} THEN "store" ELSE "other"]
=============================================================================
