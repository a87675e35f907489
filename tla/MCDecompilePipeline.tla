------------------------- MODULE MCDecompilePipeline -------------------------
(***************************************************************************)
(* Model-checking instance of DecompilePipeline: three selectors, each of  *)
(* which may be a false positive (entry point 0) or real at one of two     *)
(* offsets, so dropped and kept selectors come in every order.             *)
(***************************************************************************)
EXTENDS DecompilePipeline

CONSTANTS s1, s2, s3, none

MCSelectors == <<s1, s2, s3>>

=============================================================================
