-------------------------- MODULE MCPayloadPipeline --------------------------
(* Five payloads in two archives; the last is over any budget of less than   *)
(* four.                                                                     *)
EXTENDS PayloadPipeline

CONSTANTS a1, a2

Sizes == <<1, 2, 3, 1, 3>>
TwoArchives == <<a1, a1, a1, a2, a2>>
=============================================================================
