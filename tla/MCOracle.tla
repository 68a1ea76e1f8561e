------------------------------ MODULE MCOracle ------------------------------
(***************************************************************************)
(* Values for the oracles' constants.                                      *)
(***************************************************************************)
EXTENDS Oracle

AllTypes == {"Pyth", "Stub", "SwitchboardV1", "SwitchboardV2", "RaydiumCLMM"}
AnyPrices == {-1, 0, 2, 5}
SomeStaleness == {-1, 0, 2}
AnyOrOneSlot == {-1, 1}
=============================================================================
