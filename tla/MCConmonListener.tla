-------------------------- MODULE MCConmonListener --------------------------
(* TLC instances of ConmonListener: two devices, one of them given twice; the machine the   *)
(* listener runs on may be one of the two.                                                  *)
EXTENDS ConmonListener, TLC

ThreeNames   == {"amp", "mixer", "self"}
CommandLine  == <<"amp", "mixer", "amp">>
SomeStatuses == {"NONE", "UNRESOLVED", "UNICAST"}

\* Ids are only compared with each other, and every property is an invariant.
SomeIds == Permutations(Ids)
=============================================================================
