---------------------------- MODULE MCEscalation ----------------------------
(* FeeEscalation with two pools: one submits, the other has a reattached    *)
(* transaction.                                                             *)
EXTENDS FeeEscalation

CONSTANTS k1, k2, p, q

TwoKeys == {k1, k2}
OneReattached == {k2}
TwoPools == {p, q}
OneEach == [k \in TwoKeys |-> IF k = k1 THEN p ELSE q]
OneBaseFee == {5}
=============================================================================
