-------------------------- MODULE MCMediaPipeline --------------------------
(***************************************************************************)
(* Small instances of MediaPipeline: one media id, completed with either   *)
(* of two staging objects, two workers, two jobs.  Workers are alike, and  *)
(* so are staging objects.                                                 *)
(***************************************************************************)
EXTENDS MediaPipeline, TLC

symmetry == Permutations(Workers) \cup Permutations(Keys)
=============================================================================
