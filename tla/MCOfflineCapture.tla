-------------------------- MODULE MCOfflineCapture --------------------------
(***************************************************************************)
(* OfflineCapture on at most three captures: one without a file, a         *)
(* recording, and a photograph the server refuses for good.                *)
(***************************************************************************)
EXTENDS OfflineCapture, TLC

\* Drains, and the server's requests, are interchangeable (safety runs only).
Symmetry == Permutations(Drains) \cup Permutations(Requests)

=============================================================================
