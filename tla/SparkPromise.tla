---------------------------- MODULE SparkPromise ----------------------------
(***************************************************************************)
(* What the family is promised about each Spark, with no rows, requests or *)
(* transactions: ARCHITECTURE.md sections 3 and 4, as the code honours     *)
(* them.  A Spark may be offered only when its quiet time is over; an      *)
(* answer is taken literally; "not relevant anymore" is the end of it;     *)
(* something lived is kept; nothing a person said about it is taken back;  *)
(* what was erased does not come back.                                     *)
(***************************************************************************)
EXTENDS Integers

CONSTANTS Sparks, MinDaysBeforeReturn, SnoozeCooldown, Statements

VARIABLES
  day,
  phase,       \* where each Spark stands
  quietUntil,  \* the first day it may be offered (again)
  said         \* what people have stated about it

promiseVars == <<day, phase, quietUntil, said>>

Phases == { "unborn", "asked", "waiting", "offered", "planned",
            "lived", "stopped", "gone" }
Open   == {"asked", "waiting", "offered", "planned"}
Kept   == Phases \ {"unborn", "gone"}

Init ==
  /\ day = 0
  /\ phase      = [s \in Sparks |-> "unborn"]
  /\ quietUntil = [s \in Sparks |-> 0]
  /\ said       = [s \in Sparks |-> {}]

Move(s, from, to) ==
  /\ phase[s] \in from
  /\ phase' = [phase EXCEPT ![s] = to]

NextDay ==
  /\ day' = day + 1
  /\ UNCHANGED <<phase, quietUntil, said>>

\* Kept on day d (an import may bring an older day); quiet from then on.
Keep(s) == \E d \in 0 .. day, to \in {"asked", "waiting", "lived"}, st \in SUBSET Statements :
  /\ Move(s, {"unborn"}, to)
  /\ quietUntil' = [quietUntil EXCEPT ![s] = d + MinDaysBeforeReturn]
  /\ said' = [said EXCEPT ![s] = st]
  /\ UNCHANGED day

\* A capture that never reached the archive.
Miss(s) ==
  /\ Move(s, {"unborn"}, "gone")
  /\ UNCHANGED <<day, quietUntil, said>>

Offer(S) ==
  /\ \A s \in S : phase[s] \in {"waiting", "offered"} /\ quietUntil[s] <= day
  /\ phase' = [s \in Sparks |-> IF s \in S THEN "offered" ELSE phase[s]]
  \* Quiet time already over stays over; how it is recorded may change.
  /\ quietUntil' \in [Sparks -> Nat]
  /\ \A s \in Sparks : IF s \in S THEN quietUntil'[s] <= day
                                  ELSE quietUntil'[s] = quietUntil[s]
  /\ UNCHANGED <<day, said>>

MaybeLater(s) ==
  /\ Move(s, {"offered"}, "waiting")
  /\ quietUntil' \in [Sparks -> Nat]
  /\ quietUntil'[s] >= day + SnoozeCooldown
  /\ \A t \in Sparks \ {s} : quietUntil'[t] = quietUntil[t]
  /\ UNCHANGED <<day, said>>

LetsDoIt(s) ==
  /\ Move(s, {"offered"}, "planned")
  /\ UNCHANGED <<day, quietUntil, said>>

Stop(s) ==
  /\ Move(s, Open, "stopped")
  /\ UNCHANGED <<day, quietUntil, said>>

Live(s) ==
  /\ Move(s, Open, "lived")
  /\ UNCHANGED <<day, quietUntil, said>>

State(s) == \E st \in Statements :
  /\ phase[s] \in Kept
  /\ said' = [said EXCEPT ![s] = @ \cup {st}]
  /\ UNCHANGED <<day, phase, quietUntil>>

Erase(s) ==
  /\ Move(s, Kept, "gone")
  /\ quietUntil' = [quietUntil EXCEPT ![s] = 0]
  /\ said' = [said EXCEPT ![s] = {}]
  /\ UNCHANGED day

Next ==
  \/ NextDay
  \/ \E S \in SUBSET Sparks : Offer(S)
  \/ \E s \in Sparks : \/ Keep(s) \/ Miss(s) \/ MaybeLater(s) \/ LetsDoIt(s)
                       \/ Stop(s) \/ Live(s) \/ State(s) \/ Erase(s)

Spec == Init /\ [][Next]_promiseVars

=============================================================================
