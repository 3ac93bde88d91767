------------------------------- MODULE MCUPin -------------------------------
(* Instances of UPin for TLC; UPinInv is there for what the proof that      *)
(* events run in time assumes.                                             *)
EXTENDS UPinInv, TLC

ASSUME AmpleAssumption == Ample

PinSymmetry == Permutations(Pins)

=============================================================================
