---------------------------- MODULE MCBLEPairing ----------------------------
(***************************************************************************)
(* BLEPairing for TLC: this device creates at 2.4 GHz only, so one that    *)
(* creates at 5 GHz does, and one that creates nothing lets this one.      *)
(***************************************************************************)
EXTENDS BLEPairing

Both == {"24", "5"}
EachKind == {[create |-> {"5"}, join |-> Both], [create |-> {}, join |-> Both]}
At24 == {[create |-> {"24"}, join |-> Both]}
=============================================================================
