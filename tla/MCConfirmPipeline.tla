-------------------------- MODULE MCConfirmPipeline --------------------------
(***************************************************************************)
(* Instances of ConfirmPipeline for TLC: a send of a passkey account or a  *)
(* swap of a seed-phrase account; the calls are interchangeable.           *)
(***************************************************************************)
EXTENDS ConfirmPipeline

CONSTANTS s1, w1, ks, kw

OneKey == [d \in Drafts |-> IF d \in Swaps THEN kw ELSE ks]

CallSymmetry == Permutations(Calls)
=============================================================================
