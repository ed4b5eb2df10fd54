-------------------------- MODULE MCIndexPipeline --------------------------
(***************************************************************************)
(* Small instances of IndexPipeline: two texts, a handful of changes.      *)
(***************************************************************************)
EXTENDS IndexPipeline

CONSTANTS old, new

=============================================================================
