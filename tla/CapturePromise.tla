--------------------------- MODULE CapturePromise ---------------------------
(***************************************************************************)
(* What the phone promises about a capture once it has said "Saved."       *)
(* (packages/client/src/runtime/queue.ts): it stays safe on the phone      *)
(* until the archive has kept it, or has refused it for good; and a        *)
(* capture the archive can take does, in the end, arrive.                  *)
(***************************************************************************)
CONSTANTS
  Captures,
  Unacceptable  \* those the server will refuse however often they are sent

VARIABLE stands  \* where each capture is

Places == {"unsaved", "safe", "kept", "refused"}

Init == stands = [c \in Captures |-> "unsaved"]

Save(c) ==
  /\ stands[c] = "unsaved"
  /\ stands' = [stands EXCEPT ![c] = "safe"]

Settle(c) ==
  /\ stands[c] = "safe"
  /\ stands' = [stands EXCEPT ![c] = IF c \in Unacceptable THEN "refused" ELSE "kept"]

Next == \E c \in Captures : Save(c) \/ Settle(c)

Spec == Init /\ [][Next]_stands /\ \A c \in Captures : WF_stands(Settle(c))

=============================================================================
