--------------------------- MODULE MCFlowReport ---------------------------
(***************************************************************************)
(* Instances of FlowReport for TLC.                                        *)
(***************************************************************************)
EXTENDS FlowReport, TLC

CONSTANTS a, b

OneRank == a :> 1
TwoRanks == a :> 1 @@ b :> 2
=============================================================================
