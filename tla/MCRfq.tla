------------------------------- MODULE MCRfq -------------------------------
(* Instance of Rfq.  A drift of 500 bps is allowed: from 1049 to 999 it is *)
(* 477, from 999 to 1049 it is 500.5, which counts as 501.  At a fair value *)
(* of 1 a Sell has no price: it rounds to 0, which /quote refuses.         *)
EXTENDS Rfq, TLC

Buying == [side \in {"Buy"} |-> 7000]
BothSides == [side \in Sides |-> IF side = "Buy" THEN 7000 ELSE 13]

Symmetry == Permutations(Workers) \cup Permutations(Nonces)
=============================================================================
