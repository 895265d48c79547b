----------------------------- MODULE MCRenderJobs -----------------------------
(***************************************************************************)
(* RenderJobs with interchangeable families, films, callers and workers,   *)
(* for the safety run.                                                     *)
(***************************************************************************)
EXTENDS RenderJobs, TLC

Symmetry == Permutations(Families) \cup Permutations(Films) \cup Permutations(Submits) \cup Permutations(Workers)
=============================================================================
