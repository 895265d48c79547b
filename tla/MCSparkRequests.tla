-------------------------- MODULE MCSparkRequests ---------------------------
(***************************************************************************)
(* SparkRequests on two Sparks.  Days are few and the limits short: every  *)
(* order of capture, quiet period, offer, snooze and second offer fits.    *)
(***************************************************************************)
EXTENDS SparkRequests, TLC

\* Sparks, and requests in progress, are interchangeable.
Symmetry == Permutations(Sparks) \cup Permutations(Workers)

=============================================================================
