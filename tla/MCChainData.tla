---------------------------- MODULE MCChainData ----------------------------
(***************************************************************************)
(* Forks for the client's view of the chain.                               *)
(***************************************************************************)
EXTENDS ChainData

FourSlots == 1..4
\* Every way four slots can follow each other.
AllTrees == {t \in [1..4 -> 0..3] : \A s \in 1..4 : t[s] < s}
=============================================================================
