------------------------- MODULE MC_SSCheckpoint -------------------------
(* SSCheckpoint with the definitions of MC_SSWritePipeline.               *)
EXTENDS SSCheckpoint, MC_SSWritePipeline
====
