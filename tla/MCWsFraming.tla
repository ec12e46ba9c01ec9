---------------------------- MODULE MCWsFraming -----------------------------
(* Sizes on both sides of every boundary of the length field; the keys are *)
(* only compared with each other.                                          *)
EXTENDS WsFraming, TLC

BoundarySizes == {0, 125, 126, 65534, 65535, 65536}
KeySymmetry == Permutations(Keys)
=============================================================================
