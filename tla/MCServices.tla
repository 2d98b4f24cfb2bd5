----------------------------- MODULE MCServices -----------------------------
(***************************************************************************)
(* Values for the services: two concurrent calls of each; two tokens, the  *)
(* one fees are charged in worth a dollar, the other half a dollar.        *)
(***************************************************************************)
EXTENDS Services, TLC

MCFunds == "xlm" :> 2 @@ "eurc" :> 2
MCUnitsPerUsd == "xlm" :> 1 @@ "eurc" :> 2
=============================================================================
