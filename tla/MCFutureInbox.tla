---------------------------- MODULE MCFutureInbox ----------------------------
(***************************************************************************)
(* FutureInbox with interchangeable families, texts and callers.           *)
(***************************************************************************)
EXTENDS FutureInbox, TLC

Symmetry == Permutations(Families) \cup Permutations(Texts) \cup Permutations(Saves)
=============================================================================
