-------------------------- MODULE RenderJobs_proofs --------------------------
(***************************************************************************)
(* Why a film has one job and a job its film, for any number of            *)
(* submissions, workers, families and films.                               *)
(*                                                                         *)
(* The database orders the statements and nothing else, so the argument    *)
(* is about who is where between two of them: a spec that only one worker  *)
(* is at, whose family submits one film at a time and none of whose jobs   *)
(* was written over is Quiet, and a job changes hands only through rows    *)
(* that say so.                                                            *)
(***************************************************************************)
EXTENDS RenderJobs, FiniteSetTheorems, WellFoundedInduction, TLAPS

\* A row is there once it was inserted, and names its spec.
RowsAreInserted ==
  /\ \A j \in Jobs : (j <= count <=> spec[j] # NoSpec) /\ (j <= count <=> status[j] # "NONE")
  /\ \A j \in revived : j <= count

\* One row for each submission that was answered with a new one.
Created == {s \in Submits : submit[s] = "created"}
CountIsCreated == count = Cardinality(Created)

\* What a caller and a worker hold, where they are.
HoldsWhatItSaid ==
  /\ \A s \in Submits : submit[s] \in {"select", "insert"} => wanted[s] \in Specs
  /\ \A w \in Workers :
       /\ job[w] = NoJob <=> worker[w] \in {"down", "idle"}
       /\ job[w] # NoJob => job[w] <= count
       /\ worker[w] \in {"check", "progress"} => round[w] < Rounds /\ held[w] # "NONE"

\* Only an erased family's rows are gone, and all of them.
GoneWithTheFamily ==
  \A j \in Jobs : spec[j] # NoSpec => (status[j] = "GONE" <=> FamilyOf(spec[j]) \in erased)

\* Two workers at one spec are known of.
Exclusive == \A v, w \in Workers :
  v # w /\ job[v] # NoJob /\ job[w] # NoJob /\ spec[job[v]] = spec[job[w]] => spec[job[v]] \in contested

\* What a lone worker may find its row to be.
Minded == \A w \in Workers : job[w] # NoJob /\ spec[job[w]] \notin contested =>
  /\ worker[w] = "update" => status[job[w]] \in {"PENDING", "CANCELLED", "GONE"}
  /\ worker[w] # "update" => status[job[w]] \in {"RUNNING", "CANCELLED", "GONE"}
  /\ worker[w] = "check" /\ held[w] # "RUNNING" => status[job[w]] # "RUNNING"
  /\ worker[w] = "progress" /\ held[w] # "RUNNING" => status[job[w]] = "GONE"

\* The exceptions of the properties.
Quiet(sp) == sp \notin contested /\ FamilyOf(sp) \notin raced /\ JobsOf(sp) \cap revived = {}
QuietFamily(f) ==
  /\ f \notin raced /\ {j \in Jobs : j \in revived /\ FamilyOf(spec[j]) = f} = {}
  /\ f \notin {FamilyOf(sp) : sp \in contested}

\* Beside the job that somebody is at, no other of its spec runs or is done.
Alone == \A w \in Workers : job[w] # NoJob /\ Quiet(spec[job[w]]) =>
  \A j \in JobsOf(spec[job[w]]) \ {job[w]} : status[j] \notin {"RUNNING", "COMPLETED"}

\* Whoever looked and found no live job is right until the row is in.
StillNone == \A s \in Submits :
  submit[s] = "insert" /\ Quiet(wanted[s]) => Standing(wanted[s]) = {}
OnlyOne == \A sp \in Specs : Quiet(sp) => \A j, k \in Standing(sp) : j = k

\* And there is still room in the queue.
RoomLeft == \A s \in Submits :
  submit[s] \in {"select", "insert"} /\ QuietFamily(FamilyOf(wanted[s])) =>
    Cardinality(WithStatus(FamilyOf(wanted[s]), Active)) < MaxQueued
NeverOverfull == \A f \in Families : QuietFamily(f) => Cardinality(WithStatus(f, Active)) <= MaxQueued

\* A film is whole from when it was drawn, and stays so under its job.
DrawnIsWhole == \A w \in Workers :
  worker[w] \in {"drawn", "complete"} /\ spec[job[w]] \notin contested => film[spec[job[w]]] = "whole"
DoneHasItsFilm == \A j \in Jobs :
  status[j] = "COMPLETED" /\ Quiet(spec[j]) => film[spec[j]] \in {"whole", "expired"}
StoppedLeavesNone == \A w \in Workers :
  worker[w] = "cancel" /\ spec[job[w]] \notin contested \cup kept => film[spec[job[w]]] \notin {"partial", "whole"}

IInv == /\ TypeOK /\ RowsAreInserted /\ CountIsCreated /\ HoldsWhatItSaid /\ GoneWithTheFamily
        /\ Exclusive /\ Minded /\ Alone /\ StillNone /\ OnlyOne /\ RoomLeft /\ NeverOverfull
        /\ DrawnIsWhole /\ DoneHasItsFilm /\ StoppedLeavesNone

---------------------------------------------------------------------------
(* Jobs, specs and numbers of jobs.                                        *)

\* The least of some numbers.
LEMMA LeastNat ==
  ASSUME NEW T, T \subseteq Nat, T # {}
  PROVE  \E x \in T : \A y \in T : x <= y
<1> DEFINE Less == {ss \in Nat \X Nat : ss[1] < ss[2]}
<1>1. IsWellFoundedOn(Less, Nat)
  BY NatLessThanWellFounded DEF OpToRel
<1>2. \A x, y \in Nat : ~ (<<y, x>> \in Less) => x <= y
  OBVIOUS
<1> HIDE DEF Less
<1>3. PICK x \in T : \A y \in T : ~ (<<y, x>> \in Less)
  BY <1>1, WFMin
<1>4. \A y \in T : x <= y
  BY <1>2, <1>3
<1> QED BY <1>4

\* Jobs are numbered, and finitely many.
LEMMA JobsAreNat ==
  /\ Cardinality(Submits) \in Nat /\ Jobs \subseteq Nat \ {0} /\ IsFiniteSet(Jobs) /\ NoJob \notin Jobs
<1>1. Cardinality(Submits) \in Nat
  BY RenderAssumption, FS_CardinalityType DEF RenderAssumption
<1>2. IsFiniteSet(1 .. Cardinality(Submits))
  BY <1>1, FS_Interval
<1> QED BY <1>1, <1>2 DEF Jobs, NoJob

\* A spec names a family.
LEMMA SpecsHaveFamilies == NoSpec \notin Specs /\ \A sp \in Specs : FamilyOf(sp) \in Families
BY DEF NoSpec, Specs, FamilyOf

\* There is an oldest job of the fairest family, and it is pending.
LEMMA FairestIsPending == Pending # {} => Min(Fairest) \in Pending
<1> SUFFICES ASSUME Pending # {} PROVE Min(Fairest) \in Pending
    OBVIOUS
<1>1. \A j \in Pending : Running(j) \in Nat
  <2> SUFFICES ASSUME NEW j \in Pending PROVE Running(j) \in Nat
      OBVIOUS
  <2> DEFINE W == WithStatus(FamilyOf(spec[j]), {"RUNNING"})
  <2>1. IsFiniteSet(W)
    BY JobsAreNat, FS_Subset DEF WithStatus
  <2> QED BY <2>1, FS_CardinalityType DEF Running
<1> DEFINE Loads == {Running(j) : j \in Pending}
<1>2. Loads \subseteq Nat /\ Loads # {}
  BY <1>1
<1>3. PICK n \in Loads : \A m \in Loads : n <= m
  <2> HIDE DEF Loads
  <2> QED BY <1>2, LeastNat
<1>4. Fairest # {}
  BY <1>3 DEF Fairest
<1>5. Fairest \subseteq Pending /\ Fairest \subseteq Nat
  BY JobsAreNat DEF Fairest, Pending
<1>6. \E j \in Fairest : \A k \in Fairest : j <= k
  BY <1>4, <1>5, LeastNat
<1>7. Min(Fairest) \in Fairest
  BY <1>6 DEF Min
<1> QED BY <1>5, <1>7

\* Fewer of them is no more of them.
LEMMA FewerJobs ==
  ASSUME NEW A, NEW B, B \subseteq Jobs, A \subseteq B
  PROVE  Cardinality(A) <= Cardinality(B) /\ Cardinality(A) \in Nat /\ Cardinality(B) \in Nat
<1>1. IsFiniteSet(B) /\ IsFiniteSet(A)
  BY JobsAreNat, FS_Subset
<1> QED BY <1>1, FS_Subset, FS_CardinalityType

\* A new one is one more.
LEMMA OneMoreJob ==
  ASSUME NEW A, NEW B, NEW j, B \subseteq Jobs, A \subseteq B \cup {j}
  PROVE  Cardinality(A) <= Cardinality(B) + 1 /\ Cardinality(A) \in Nat /\ Cardinality(B) \in Nat
<1>1. IsFiniteSet(B) /\ IsFiniteSet(B \cup {j})
  BY JobsAreNat, FS_Subset, FS_AddElement
<1>2. Cardinality(B) \in Nat /\ Cardinality(B \cup {j}) \in Nat
  BY <1>1, FS_CardinalityType
<1>3. Cardinality(B \cup {j}) = IF j \in B THEN Cardinality(B) ELSE Cardinality(B) + 1
  BY <1>1, FS_AddElement
<1>4. IsFiniteSet(A) /\ Cardinality(A) <= Cardinality(B \cup {j}) /\ Cardinality(A) \in Nat
  BY <1>1, FS_Subset, FS_CardinalityType
<1> QED BY <1>2, <1>3, <1>4

\* Where nobody asks and a quiet family's active jobs only become fewer, the queue keeps its bound.
Shrinks == \A f \in Families : QuietFamily(f)' =>
  QuietFamily(f) /\ WithStatus(f, Active)' \subseteq WithStatus(f, Active)
LEMMA QueueShrinks ==
  ASSUME IInv, UNCHANGED calls, Shrinks
  PROVE  RoomLeft' /\ NeverOverfull'
<1>1. \A f \in Families : QuietFamily(f)' => Cardinality(WithStatus(f, Active)') <= Cardinality(WithStatus(f, Active))
                                          /\ Cardinality(WithStatus(f, Active)') \in Nat /\ Cardinality(WithStatus(f, Active)) \in Nat
  <2> SUFFICES ASSUME NEW f \in Families, QuietFamily(f)'
               PROVE  Cardinality(WithStatus(f, Active)') <= Cardinality(WithStatus(f, Active))
                      /\ Cardinality(WithStatus(f, Active)') \in Nat /\ Cardinality(WithStatus(f, Active)) \in Nat
      OBVIOUS
  <2>1. WithStatus(f, Active) \subseteq Jobs
    BY DEF WithStatus
  <2>2. WithStatus(f, Active)' \subseteq WithStatus(f, Active)
    BY DEF Shrinks
  <2> QED BY <2>1, <2>2, FewerJobs
<1>2. MaxQueued \in Nat
  BY RenderAssumption DEF RenderAssumption
<1>3. NeverOverfull'
  <2> SUFFICES ASSUME NEW f \in Families, QuietFamily(f)' PROVE Cardinality(WithStatus(f, Active)') <= MaxQueued
      BY DEF NeverOverfull
  <2>1. Cardinality(WithStatus(f, Active)) <= MaxQueued
    BY DEF IInv, NeverOverfull, Shrinks
  <2> QED BY <2>1, <1>1, <1>2
<1>4. RoomLeft'
  <2>1. \A s \in Submits, f \in Families :
          submit'[s] \in {"select", "insert"} /\ FamilyOf(wanted'[s]) = f /\ QuietFamily(f)'
            => Cardinality(WithStatus(f, Active)') < MaxQueued
    <3> SUFFICES ASSUME NEW s \in Submits, NEW f \in Families, submit[s] \in {"select", "insert"},
                        FamilyOf(wanted[s]) = f, QuietFamily(f)'
                 PROVE  Cardinality(WithStatus(f, Active)') < MaxQueued
        BY DEF calls
    <3>1. Cardinality(WithStatus(f, Active)) < MaxQueued
      BY DEF IInv, RoomLeft, Shrinks
    <3> QED BY <3>1, <1>1, <1>2
  <2>2. \A s \in Submits : submit'[s] \in {"select", "insert"} => FamilyOf(wanted'[s]) \in Families
    BY SpecsHaveFamilies DEF IInv, HoldsWhatItSaid, calls
  <2> QED BY <2>1, <2>2 DEF RoomLeft, QuietFamily, WithStatus
<1> QED BY <1>3, <1>4

LEMMA CancelShrinks ==
  ASSUME IInv, NEW j \in Jobs, Cancel(j)
  PROVE  Shrinks
BY JobsAreNat DEF IInv, TypeOK, Cancel, Shrinks, QuietFamily, WithStatus, Active, Cancellable

LEMMA ProgressShrinks ==
  ASSUME IInv, NEW w \in Workers, Progress(w)
  PROVE  Shrinks
BY JobsAreNat DEF IInv, TypeOK, HoldsWhatItSaid, RowsAreInserted, Minded, Progress, Saves, Goes, Shrinks, QuietFamily, WithStatus, Active

LEMMA FinishShrinks ==
  ASSUME IInv, NEW w \in Workers, Finish(w)
  PROVE  Shrinks
BY JobsAreNat DEF IInv, TypeOK, HoldsWhatItSaid, RowsAreInserted, Minded, Finish, Saves, Drops, Goes, Shrinks, QuietFamily, WithStatus, Active

LEMMA EraseShrinks ==
  ASSUME IInv, NEW f \in Families, EraseFamily(f)
  PROVE  Shrinks
BY JobsAreNat DEF IInv, TypeOK, EraseFamily, past, Shrinks, QuietFamily, WithStatus, Active

LEMMA InsertCounts ==
  ASSUME IInv, NEW s \in Submits, Insert(s)
  PROVE  CountIsCreated' /\ count + 1 \in Jobs /\ count + 1 <= Cardinality(Submits)
<1>1. Created' = Created \cup {s} /\ s \notin Created /\ Created' \subseteq Submits
  BY DEF IInv, TypeOK, Insert, SubmitGoes, Created
<1>2. IsFiniteSet(Created) /\ IsFiniteSet(Created')
  BY <1>1, RenderAssumption, FS_Subset DEF RenderAssumption
<1>3. Cardinality(Created') = Cardinality(Created) + 1
  BY <1>1, <1>2, FS_AddElement
<1>4. Cardinality(Created') <= Cardinality(Submits)
  BY <1>1, RenderAssumption, FS_Subset DEF RenderAssumption
<1>5. count' = count + 1
  BY DEF Insert
<1> QED BY <1>3, <1>4, <1>5, JobsAreNat DEF IInv, TypeOK, CountIsCreated, Jobs

LEMMA ListKeepsRoom ==
  ASSUME IInv, NEW s \in Submits, List(s)
  PROVE  RoomLeft'
<1>1. PICK sp \in Specs : /\ wanted' = [wanted EXCEPT ![s] = sp]
                          /\ submit' = [submit EXCEPT ![s] = CASE NewestIsLive(sp) -> "same"
                               [] ~ NewestIsLive(sp) /\ QueueIsFull(FamilyOf(sp)) -> "refused"
                               [] OTHER -> "select"]
  BY DEF List, SubmitGoes
<1>2. submit'[s] = "select" => Cardinality(WithStatus(FamilyOf(sp), Active)) < MaxQueued
  <2>1. Cardinality(WithStatus(FamilyOf(sp), Active)) \in Nat
    BY FewerJobs DEF WithStatus
  <2>2. MaxQueued \in Nat
    BY RenderAssumption DEF RenderAssumption
  <2>3. submit'[s] = "select" => ~ QueueIsFull(FamilyOf(sp))
    BY <1>1 DEF IInv, TypeOK
  <2> QED BY <2>1, <2>2, <2>3 DEF QueueIsFull
<1>3. submit'[s] \in {"same", "refused", "select"} /\ wanted'[s] = sp
  BY <1>1 DEF IInv, TypeOK
<1>4. \A t \in Submits \ {s} : submit'[t] = submit[t] /\ wanted'[t] = wanted[t]
  BY <1>1 DEF IInv, TypeOK
<1>5. \A f \in Families : WithStatus(f, Active)' = WithStatus(f, Active) /\ (QuietFamily(f)' => QuietFamily(f))
  BY DEF List, table, past, WithStatus, QuietFamily
<1>6. \A t \in Submits, f \in Families :
        submit'[t] \in {"select", "insert"} /\ FamilyOf(wanted'[t]) = f /\ QuietFamily(f)'
          => Cardinality(WithStatus(f, Active)') < MaxQueued
  <2> SUFFICES ASSUME NEW t \in Submits, NEW f \in Families, submit'[t] \in {"select", "insert"},
                      FamilyOf(wanted'[t]) = f, QuietFamily(f)'
               PROVE  Cardinality(WithStatus(f, Active)) < MaxQueued
      BY <1>5
  <2>1. CASE t = s
    BY <2>1, <1>2, <1>3
  <2>2. CASE t # s
    BY <2>2, <1>4, <1>5 DEF IInv, RoomLeft
  <2> QED BY <2>1, <2>2
<1>7. \A t \in Submits : submit'[t] \in {"select", "insert"} => FamilyOf(wanted'[t]) \in Families
  BY <1>3, <1>4, SpecsHaveFamilies DEF IInv, HoldsWhatItSaid
<1> QED BY <1>6, <1>7 DEF RoomLeft, QuietFamily, WithStatus

LEMMA InsertKeepsRoom ==
  ASSUME IInv, NEW s \in Submits, Insert(s)
  PROVE  RoomLeft' /\ NeverOverfull'
<1>0. PICK g \in Families : g = FamilyOf(wanted[s])
  BY SpecsHaveFamilies DEF IInv, HoldsWhatItSaid, Insert
<1>1. count + 1 \in Jobs /\ count \in Nat /\ g \in Families
  <2>1. count + 1 \in Jobs
    BY InsertCounts
  <2> QED BY <2>1 DEF IInv, TypeOK
<1>2. /\ spec'[count + 1] = wanted[s] /\ spec[count + 1] = NoSpec /\ status'[count + 1] = "PENDING"
      /\ \A j \in Jobs \ {count + 1} : spec'[j] = spec[j] /\ status'[j] = status[j]
      /\ count + 1 \notin revived /\ status[count + 1] = "NONE"
  BY <1>1, JobsAreNat DEF IInv, TypeOK, RowsAreInserted, Insert
<1>3. \A f \in Families : QuietFamily(f)' => QuietFamily(f) /\ (f = g => Rivals(s) = {})
  BY <1>0, <1>2 DEF QuietFamily, Insert
<1>4. \A f \in Families \ {g} : WithStatus(f, Active)' \subseteq WithStatus(f, Active)
  BY <1>0, <1>1, <1>2 DEF WithStatus
<1>5. WithStatus(g, Active)' \subseteq WithStatus(g, Active) \cup {count + 1}
  BY <1>2 DEF WithStatus
<1>6. MaxQueued \in Nat
  BY RenderAssumption DEF RenderAssumption
<1>7. /\ submit'[s] = "created" /\ wanted' = wanted /\ submit[s] = "insert"
      /\ \A t \in Submits \ {s} : submit'[t] = submit[t]
  BY DEF IInv, TypeOK, Insert, SubmitGoes
<1>8. \A f \in Families \ {g} : /\ Cardinality(WithStatus(f, Active)') <= Cardinality(WithStatus(f, Active))
                               /\ Cardinality(WithStatus(f, Active)') \in Nat
                               /\ Cardinality(WithStatus(f, Active)) \in Nat
  <2> SUFFICES ASSUME NEW f \in Families \ {g}
               PROVE  /\ Cardinality(WithStatus(f, Active)') <= Cardinality(WithStatus(f, Active))
                      /\ Cardinality(WithStatus(f, Active)') \in Nat
                      /\ Cardinality(WithStatus(f, Active)) \in Nat
      OBVIOUS
  <2>1. WithStatus(f, Active) \subseteq Jobs
    BY DEF WithStatus
  <2> QED BY <2>1, <1>4, FewerJobs
<1>9. /\ Cardinality(WithStatus(g, Active)') <= Cardinality(WithStatus(g, Active)) + 1
      /\ Cardinality(WithStatus(g, Active)') \in Nat /\ Cardinality(WithStatus(g, Active)) \in Nat
  <2>1. WithStatus(g, Active) \subseteq Jobs
    BY DEF WithStatus
  <2> QED BY <2>1, <1>5, OneMoreJob
<1>10. NeverOverfull'
  <2> SUFFICES ASSUME NEW f \in Families, QuietFamily(f)'
               PROVE  Cardinality(WithStatus(f, Active)') <= MaxQueued
      BY DEF NeverOverfull
  <2>1. CASE f = g
    <3>1. Cardinality(WithStatus(g, Active)) < MaxQueued
      BY <2>1, <1>0, <1>3, <1>7 DEF IInv, RoomLeft
    <3> QED BY <3>1, <2>1, <1>6, <1>9
  <2>2. CASE f # g
    <3>1. Cardinality(WithStatus(f, Active)) <= MaxQueued
      BY <1>3 DEF IInv, NeverOverfull
    <3> QED BY <3>1, <2>2, <1>6, <1>8
  <2> QED BY <2>1, <2>2
<1>11. \A t \in Submits, f \in Families :
         submit'[t] \in {"select", "insert"} /\ FamilyOf(wanted'[t]) = f /\ QuietFamily(f)'
           => Cardinality(WithStatus(f, Active)') < MaxQueued
  <2> SUFFICES ASSUME NEW t \in Submits, NEW f \in Families, submit'[t] \in {"select", "insert"},
                      FamilyOf(wanted'[t]) = f, QuietFamily(f)'
               PROVE  Cardinality(WithStatus(f, Active)') < MaxQueued
      OBVIOUS
  <2>1. t # s /\ submit[t] \in {"select", "insert"} /\ FamilyOf(wanted[t]) = f
    BY <1>7
  <2>2. f # g
    BY <2>1, <1>0, <1>3 DEF Rivals
  <2>3. Cardinality(WithStatus(f, Active)) < MaxQueued
    BY <2>1, <1>3 DEF IInv, RoomLeft
  <2> QED BY <2>2, <2>3, <1>6, <1>8
<1>12. \A t \in Submits : submit'[t] \in {"select", "insert"} => FamilyOf(wanted'[t]) \in Families
  BY <1>7, SpecsHaveFamilies DEF IInv, HoldsWhatItSaid
<1>13. RoomLeft'
  BY <1>11, <1>12 DEF RoomLeft, QuietFamily, WithStatus
<1> QED BY <1>10, <1>13

LEMMA InsertKeepsTypes ==
  ASSUME IInv, NEW s \in Submits, Insert(s)
  PROVE  TypeOK'
<1>1. count + 1 \in Jobs /\ count' \in 0 .. Cardinality(Submits) /\ count' = count + 1
  <2>1. count + 1 \in Jobs /\ count + 1 <= Cardinality(Submits)
    BY InsertCounts
  <2> QED BY <2>1, JobsAreNat DEF IInv, TypeOK, Insert
<1>2. wanted[s] \in Specs
  BY DEF IInv, HoldsWhatItSaid, Insert
<1>3. status' \in [Jobs -> Active \cup Ended \cup {"NONE", "GONE"}]
  BY <1>1 DEF IInv, TypeOK, Insert, Active
<1>4. spec' \in [Jobs -> Specs \cup {NoSpec}]
  BY <1>1, <1>2 DEF IInv, TypeOK, Insert
<1>5. submit' \in [Submits -> {"start", "select", "insert", "same", "refused", "created"}]
  BY DEF IInv, TypeOK, Insert, SubmitGoes
<1>6. raced' \subseteq Families
  BY <1>2, SpecsHaveFamilies DEF IInv, TypeOK, Insert
<1>7. /\ UNCHANGED <<erased, film, wanted, worker, hands, crashes, kept, cancelled, revived, contested>>
      /\ TypeOK
  BY DEF IInv, Insert
<1> QED BY <1>1, <1>3, <1>4, <1>5, <1>6, <1>7 DEF TypeOK, hands

\* Of a worker's step, what it may do to the types.
LEMMA WorkerGoes ==
  ASSUME IInv, NEW w \in Workers, NEW there, Goes(w, there),
         there \in {"down", "idle", "update", "read", "check", "progress", "render",
                    "drawing", "drawn", "undrawn", "complete", "fail", "cancel", "clean"}
  PROVE  worker' \in [Workers -> {"down", "idle", "update", "read", "check", "progress", "render",
                                  "drawing", "drawn", "undrawn", "complete", "fail", "cancel", "clean"}]
BY DEF IInv, TypeOK, Goes

LEMMA WorkerIsAtOne ==
  ASSUME IInv, NEW w \in Workers, worker[w] \notin {"down", "idle"}
  PROVE  job[w] \in Jobs /\ spec[job[w]] \in Specs /\ status[job[w]] \in Active \cup Ended \cup {"GONE"}
<1>1. job[w] \in Jobs /\ job[w] <= count
  BY JobsAreNat DEF IInv, TypeOK, HoldsWhatItSaid
<1>2. spec[job[w]] # NoSpec /\ status[job[w]] # "NONE"
  BY <1>1 DEF IInv, RowsAreInserted
<1> QED BY <1>1, <1>2 DEF IInv, TypeOK

LEMMA UpdateKeepsTypes ==
  ASSUME IInv, NEW w \in Workers, Update(w)
  PROVE  TypeOK'
<1>1. job[w] \in Jobs
  BY WorkerIsAtOne DEF Update
<1>2. status' \in [Jobs -> Active \cup Ended \cup {"NONE", "GONE"}]
  BY <1>1 DEF IInv, TypeOK, Update, Claimed, Active
<1> QED BY <1>2, WorkerGoes DEF IInv, TypeOK, Update, calls, hands, past

LEMMA ReadKeepsTypes ==
  ASSUME IInv, NEW w \in Workers, Read(w)
  PROVE  TypeOK'
<1>1. held' \in [Workers -> Active \cup Ended \cup {"NONE"}]
  BY WorkerIsAtOne DEF IInv, TypeOK, Read
<1>2. round' \in [Workers -> 0 .. Rounds]
  BY RenderAssumption DEF RenderAssumption, IInv, TypeOK, Read
<1> QED BY <1>1, <1>2, WorkerGoes DEF IInv, TypeOK, Read, table, calls, past

LEMMA SavesKeepsTypes ==
  ASSUME IInv, NEW w \in Workers, worker[w] \notin {"down", "idle"},
         NEW new \in Active \cup Ended \cup {"NONE"}, Saves(w, new)
  PROVE  status' \in [Jobs -> Active \cup Ended \cup {"NONE", "GONE"}] /\ revived' \subseteq Jobs
BY WorkerIsAtOne DEF IInv, TypeOK, Saves

LEMMA ProgressKeepsTypes ==
  ASSUME IInv, NEW w \in Workers, Progress(w)
  PROVE  TypeOK'
<1>1. status' \in [Jobs -> Active \cup Ended \cup {"NONE", "GONE"}] /\ revived' \subseteq Jobs
  BY SavesKeepsTypes DEF IInv, TypeOK, Progress
<1>2. round' \in [Workers -> 0 .. Rounds]
  BY RenderAssumption DEF RenderAssumption, IInv, TypeOK, HoldsWhatItSaid, Progress
<1> QED BY <1>1, <1>2, WorkerGoes DEF IInv, TypeOK, Progress, Saves, AfterProgress, calls

LEMMA DrawKeepsTypes ==
  ASSUME IInv, NEW w \in Workers, Draw(w)
  PROVE  TypeOK'
<1>1. film' \in [Specs -> {"none", "partial", "whole", "expired"}]
  BY WorkerIsAtOne DEF IInv, TypeOK, Draw
<1> QED BY <1>1, WorkerGoes DEF IInv, TypeOK, Draw, table, calls, hands, past

LEMMA FinishKeepsTypes ==
  ASSUME IInv, NEW w \in Workers, Finish(w)
  PROVE  TypeOK'
<1>1. PICK new \in Ended : Saves(w, new)
  BY DEF Finish, Ended
<1>2. status' \in [Jobs -> Active \cup Ended \cup {"NONE", "GONE"}] /\ revived' \subseteq Jobs
  BY <1>1, SavesKeepsTypes DEF Finish
<1>3. /\ job' \in [Workers -> Jobs \cup {NoJob}] /\ held' \in [Workers -> Active \cup Ended \cup {"NONE"}]
      /\ round' \in [Workers -> 0 .. Rounds]
  BY RenderAssumption DEF RenderAssumption, IInv, TypeOK, Finish, Drops
<1> QED BY <1>1, <1>2, <1>3, WorkerGoes DEF IInv, TypeOK, Finish, Drops, Saves, calls

LEMMA CleanUpKeepsTypes ==
  ASSUME IInv, NEW w \in Workers, CleanUp(w)
  PROVE  TypeOK'
<1>1. film' \in [Specs -> {"none", "partial", "whole", "expired"}]
  BY WorkerIsAtOne DEF IInv, TypeOK, CleanUp, AfterCleaning
<1>2. kept' \subseteq Specs /\ crashes' \in 0 .. MaxCrashes
  BY WorkerIsAtOne, RenderAssumption DEF RenderAssumption, IInv, TypeOK, CleanUp
<1> QED BY <1>1, <1>2, WorkerGoes DEF IInv, TypeOK, CleanUp, table, calls, hands

\* A film changes under a lone worker's hands alone.
LEMMA DrawnKeepsFilms ==
  ASSUME IInv, NEW w \in Workers, Drawn(w)
  PROVE  DrawnIsWhole' /\ StoppedLeavesNone'
<1>1. job[w] \in Jobs /\ spec[job[w]] \in Specs
  BY WorkerIsAtOne DEF Drawn
<1>2. \A v \in Workers \ {w} : worker'[v] = worker[v]
  BY DEF IInv, TypeOK, Drawn, Goes
<1>3. /\ worker'[w] \in {"drawn", "undrawn"}
      /\ worker'[w] = "drawn" => film'[spec[job[w]]] = "whole"
      /\ \A sp \in Specs \ {spec[job[w]]} : film'[sp] = film[sp]
  BY <1>1 DEF IInv, TypeOK, Drawn, Goes
<1>4. \A v \in Workers \ {w} : worker[v] \notin {"down", "idle"} /\ spec[job[v]] \notin contested =>
        spec[job[v]] \in Specs \ {spec[job[w]]}
  BY <1>1, WorkerIsAtOne, JobsAreNat DEF IInv, Exclusive
<1> QED BY <1>2, <1>3, <1>4 DEF IInv, DrawnIsWhole, StoppedLeavesNone, Drawn, table, hands, past

LEMMA CleanUpKeepsFilms ==
  ASSUME IInv, NEW w \in Workers, CleanUp(w)
  PROVE  DrawnIsWhole' /\ StoppedLeavesNone'
<1>1. job[w] \in Jobs /\ spec[job[w]] \in Specs
  BY WorkerIsAtOne DEF CleanUp
<1>2. \A v \in Workers \ {w} : worker'[v] = worker[v]
  BY DEF IInv, TypeOK, CleanUp, Goes
<1>3. /\ worker'[w] = "cancel" /\ kept \subseteq kept'
      /\ spec[job[w]] \notin kept' => film'[spec[job[w]]] = "none"
      /\ \A sp \in Specs \ {spec[job[w]]} : film'[sp] = film[sp]
  BY <1>1 DEF IInv, TypeOK, CleanUp, AfterCleaning, Goes
<1>4. \A v \in Workers \ {w} : worker[v] \notin {"down", "idle"} /\ spec[job[v]] \notin contested =>
        spec[job[v]] \in Specs \ {spec[job[w]]}
  BY <1>1, WorkerIsAtOne, JobsAreNat DEF IInv, Exclusive
<1> QED BY <1>2, <1>3, <1>4 DEF IInv, DrawnIsWhole, StoppedLeavesNone, CleanUp, table, hands

LEMMA StartUpKeepsMinded ==
  ASSUME IInv, NEW w \in Workers, StartUp(w)
  PROVE  Minded'
<1>1. \A v \in Workers \ {w} : worker'[v] = worker[v]
  BY DEF IInv, TypeOK, StartUp, Goes
<1>2. job[w] = NoJob /\ job' = job /\ held' = held /\ spec' = spec
  BY DEF IInv, HoldsWhatItSaid, StartUp, hands
<1>3. \A v \in Workers : job[v] # NoJob /\ spec[job[v]] \notin contested' =>
        spec[job[v]] \notin contested /\ status'[job[v]] = status[job[v]]
  BY JobsAreNat DEF IInv, TypeOK, StartUp, Recovered, InHand
<1> QED BY <1>1, <1>2, <1>3 DEF IInv, Minded

---------------------------------------------------------------------------
(* Every step keeps the invariant.                                         *)

\* Whether the queue is full is read here, and its room is counted.
LEMMA ListKeeps ==
  ASSUME IInv, NEW s \in Submits, List(s)
  PROVE  IInv'
<1>1. RoomLeft'
  BY ListKeepsRoom
<1> USE DEF IInv, List, SubmitGoes, table, hands, past
<1>2. CountIsCreated'
  BY DEF CountIsCreated, Created
<1>3. TypeOK' /\ RowsAreInserted' /\ GoneWithTheFamily' /\ Exclusive' /\ Minded' /\ Alone'
      /\ StillNone' /\ OnlyOne' /\ NeverOverfull' /\ DrawnIsWhole' /\ DoneHasItsFilm'
      /\ StoppedLeavesNone'
  BY DEF TypeOK, Active, Ended, RowsAreInserted, GoneWithTheFamily, Exclusive, Minded, Alone,
         Quiet, JobsOf, StillNone, Standing, OnlyOne, NeverOverfull, QuietFamily, WithStatus,
         DrawnIsWhole, DoneHasItsFilm, StoppedLeavesNone
<1>4. HoldsWhatItSaid'
  BY DEF HoldsWhatItSaid, TypeOK, Active, Ended
<1> QED BY <1>1, <1>2, <1>3, <1>4

\* A look changes nothing but where the caller is.
LEMMA LookKeeps ==
  ASSUME IInv, NEW s \in Submits, Look(s)
  PROVE  IInv'
<1> USE DEF IInv, Look, SubmitGoes, LiveJobs, table, hands, past, JobsOf, Live, Active
<1>1. CountIsCreated'
  BY DEF CountIsCreated, Created
<1>2. TypeOK' /\ RowsAreInserted' /\ HoldsWhatItSaid' /\ GoneWithTheFamily' /\ Exclusive'
      /\ Minded' /\ Alone' /\ StillNone' /\ OnlyOne' /\ RoomLeft' /\ NeverOverfull'
      /\ DrawnIsWhole' /\ DoneHasItsFilm' /\ StoppedLeavesNone'
  BY DEF TypeOK, Ended, RowsAreInserted, HoldsWhatItSaid, GoneWithTheFamily, Exclusive, Minded,
         Alone, Quiet, StillNone, Standing, OnlyOne, RoomLeft, QuietFamily, WithStatus,
         NeverOverfull, DrawnIsWhole, DoneHasItsFilm, StoppedLeavesNone
<1> QED BY <1>1, <1>2

\* A row more: whoever else was between its look and its row is known of.
LEMMA InsertKeeps ==
  ASSUME IInv, NEW s \in Submits, Insert(s)
  PROVE  IInv'
<1>1. TypeOK'
  BY InsertKeepsTypes
<1>2. CountIsCreated'
  BY InsertCounts
<1>3. RoomLeft' /\ NeverOverfull'
  BY InsertKeepsRoom
<1> USE DEF IInv, Insert, SubmitGoes, Rivals, hands
<1>4. RowsAreInserted'
  BY JobsAreNat, SpecsHaveFamilies DEF RowsAreInserted, TypeOK, HoldsWhatItSaid, Active, Ended
<1>5. HoldsWhatItSaid'
  BY DEF HoldsWhatItSaid, TypeOK, Jobs, Active, Ended
<1>6. GoneWithTheFamily'
  BY DEF GoneWithTheFamily, TypeOK, Active, Ended
<1>7. Exclusive'
  BY DEF Exclusive, TypeOK, HoldsWhatItSaid, Active, Ended
<1>8. Minded'
  BY DEF Minded, TypeOK, HoldsWhatItSaid, Active, Ended
<1>9. Alone'
  BY DEF Alone, Quiet, JobsOf, TypeOK, RowsAreInserted, HoldsWhatItSaid, Active, Ended
<1>10. StillNone'
  BY DEF StillNone, Quiet, Standing, JobsOf, Active, TypeOK, RowsAreInserted, Ended
<1>11. OnlyOne'
  BY DEF OnlyOne, Quiet, Standing, JobsOf, Active, TypeOK, RowsAreInserted, StillNone, Ended
<1>12. DrawnIsWhole'
  BY DEF DrawnIsWhole, TypeOK, HoldsWhatItSaid, Active, Ended
<1>13. DoneHasItsFilm'
  BY DEF DoneHasItsFilm, Quiet, JobsOf, TypeOK, RowsAreInserted, Active, Ended
<1>14. StoppedLeavesNone'
  BY DEF StoppedLeavesNone, TypeOK, HoldsWhatItSaid, Active, Ended
<1> QED BY <1>1, <1>2, <1>3, <1>4, <1>5, <1>6, <1>7, <1>8, <1>9, <1>10, <1>11, <1>12, <1>13, <1>14

\* A row that is refused is none.
LEMMA InsertRefusedKeeps ==
  ASSUME IInv, NEW s \in Submits, InsertRefused(s)
  PROVE  IInv'
<1> USE DEF IInv, InsertRefused, SubmitGoes, table, hands, past
<1>1. CountIsCreated'
  BY DEF CountIsCreated, Created
<1>2. TypeOK' /\ RowsAreInserted' /\ HoldsWhatItSaid' /\ GoneWithTheFamily' /\ Exclusive'
      /\ Minded' /\ Alone' /\ StillNone' /\ OnlyOne' /\ RoomLeft' /\ NeverOverfull'
      /\ DrawnIsWhole' /\ DoneHasItsFilm' /\ StoppedLeavesNone'
  BY DEF TypeOK, Active, Ended, RowsAreInserted, HoldsWhatItSaid, GoneWithTheFamily, Exclusive,
         Minded, Alone, Quiet, JobsOf, StillNone, Standing, OnlyOne, RoomLeft, QuietFamily,
         WithStatus, NeverOverfull, DrawnIsWhole, DoneHasItsFilm, StoppedLeavesNone
<1> QED BY <1>1, <1>2

\* One active job fewer.
LEMMA CancelKeeps ==
  ASSUME IInv, NEW j \in Jobs, Cancel(j)
  PROVE  IInv'
<1>1. RoomLeft' /\ NeverOverfull'
  BY CancelShrinks, QueueShrinks DEF Cancel, calls
<1> USE DEF IInv, Cancel, Cancellable, calls, hands, Active
<1>2. TypeOK' /\ RowsAreInserted' /\ CountIsCreated' /\ HoldsWhatItSaid' /\ GoneWithTheFamily'
      /\ Exclusive' /\ Minded' /\ Alone' /\ StillNone' /\ OnlyOne' /\ DrawnIsWhole'
      /\ DoneHasItsFilm' /\ StoppedLeavesNone'
  BY DEF TypeOK, Ended, RowsAreInserted, CountIsCreated, Created, HoldsWhatItSaid,
         GoneWithTheFamily, Exclusive, Minded, Alone, Quiet, JobsOf, StillNone, Standing, OnlyOne,
         DrawnIsWhole, DoneHasItsFilm, StoppedLeavesNone
<1> QED BY <1>1, <1>2

\* What is taken from under another worker is known of.
LEMMA StartUpKeeps ==
  ASSUME IInv, NEW w \in Workers, StartUp(w)
  PROVE  IInv'
<1>1. Minded'
  BY StartUpKeepsMinded
<1> USE DEF IInv, StartUp, Recovered, InHand, Goes, calls, hands
<1>2. RowsAreInserted' /\ GoneWithTheFamily' /\ Exclusive'
  BY DEF RowsAreInserted, GoneWithTheFamily, Exclusive
<1>3. Alone'
  BY DEF Alone, Quiet, JobsOf
<1>4. StillNone' /\ OnlyOne' /\ DoneHasItsFilm'
  BY DEF StillNone, Quiet, Standing, JobsOf, Active, OnlyOne, DoneHasItsFilm
<1>5. CountIsCreated' /\ HoldsWhatItSaid' /\ RoomLeft' /\ NeverOverfull' /\ DrawnIsWhole'
      /\ StoppedLeavesNone'
  BY DEF CountIsCreated, Created, HoldsWhatItSaid, RoomLeft, QuietFamily, WithStatus, Active,
         NeverOverfull, DrawnIsWhole, StoppedLeavesNone
<1>6. TypeOK'
  BY DEF TypeOK, Active, Ended, RowsAreInserted
<1> QED BY <1>1, <1>2, <1>3, <1>4, <1>5, <1>6

\* It takes a pending job; who else is at its spec is known of.
LEMMA SelectKeeps ==
  ASSUME IInv, NEW w \in Workers, Select(w)
  PROVE  IInv'
<1> USE DEF IInv, Select, Pending, InHand, Goes, table, calls
<1>1. RowsAreInserted' /\ CountIsCreated' /\ GoneWithTheFamily' /\ Exclusive' /\ StillNone'
      /\ OnlyOne' /\ RoomLeft' /\ NeverOverfull' /\ DrawnIsWhole' /\ DoneHasItsFilm'
      /\ StoppedLeavesNone'
  BY DEF RowsAreInserted, CountIsCreated, Created, GoneWithTheFamily, Exclusive, StillNone, Quiet,
         Standing, JobsOf, Active, OnlyOne, RoomLeft, QuietFamily, WithStatus, NeverOverfull,
         DrawnIsWhole, DoneHasItsFilm, StoppedLeavesNone
<1>2. TypeOK'
  BY FairestIsPending DEF TypeOK, Active, Ended, RowsAreInserted
<1>3. HoldsWhatItSaid'
  BY JobsAreNat, FairestIsPending DEF HoldsWhatItSaid, TypeOK, RowsAreInserted, Active, Ended
<1>4. Minded'
  BY FairestIsPending DEF Minded, TypeOK, Active, Ended
<1>5. Alone'
  BY FairestIsPending DEF Alone, Quiet, JobsOf, TypeOK, RowsAreInserted, OnlyOne, Active, Ended,
                          Standing
<1> QED BY <1>1, <1>2, <1>3, <1>4, <1>5

\* It marks what is pending.
LEMMA UpdateKeeps ==
  ASSUME IInv, NEW w \in Workers, Update(w)
  PROVE  IInv'
<1>1. TypeOK'
  BY UpdateKeepsTypes
<1> USE DEF IInv, Update, Claimed, Goes, calls, hands, past
<1>2. RowsAreInserted' /\ CountIsCreated' /\ HoldsWhatItSaid' /\ GoneWithTheFamily' /\ Exclusive'
      /\ StillNone' /\ OnlyOne' /\ RoomLeft' /\ NeverOverfull' /\ DrawnIsWhole' /\ DoneHasItsFilm'
      /\ StoppedLeavesNone'
  BY DEF RowsAreInserted, CountIsCreated, Created, HoldsWhatItSaid, GoneWithTheFamily, Exclusive,
         StillNone, Quiet, Standing, JobsOf, Active, OnlyOne, RoomLeft, QuietFamily, WithStatus,
         NeverOverfull, DrawnIsWhole, DoneHasItsFilm, StoppedLeavesNone
<1>3. Minded'
  BY DEF Minded, TypeOK, Exclusive, Active, Ended
<1>4. Alone'
  BY JobsAreNat DEF Alone, Quiet, JobsOf, Exclusive
<1> QED BY <1>1, <1>2, <1>3, <1>4

\* What it holds is what the row says.
LEMMA ReadKeeps ==
  ASSUME IInv, NEW w \in Workers, Read(w)
  PROVE  IInv'
<1>1. TypeOK'
  BY ReadKeepsTypes
<1> USE DEF IInv, Read, Goes, table, calls, past
<1>2. RowsAreInserted' /\ CountIsCreated' /\ GoneWithTheFamily' /\ Exclusive' /\ Alone'
      /\ StillNone' /\ OnlyOne' /\ RoomLeft' /\ NeverOverfull' /\ DrawnIsWhole' /\ DoneHasItsFilm'
      /\ StoppedLeavesNone'
  BY DEF RowsAreInserted, CountIsCreated, Created, GoneWithTheFamily, Exclusive, Alone, Quiet,
         JobsOf, StillNone, Standing, Active, OnlyOne, RoomLeft, QuietFamily, WithStatus,
         NeverOverfull, DrawnIsWhole, DoneHasItsFilm, StoppedLeavesNone
<1>3. HoldsWhatItSaid'
  BY RenderAssumption DEF HoldsWhatItSaid, TypeOK, RowsAreInserted, Jobs, Active, Ended
<1>4. Minded'
  BY DEF Minded, TypeOK, Active, Ended
<1> QED BY <1>1, <1>2, <1>3, <1>4

\* A row that is gone is nobody's.
LEMMA ReadNothingKeeps ==
  ASSUME IInv, NEW w \in Workers, ReadNothing(w)
  PROVE  IInv'
<1> USE DEF IInv, ReadNothing, Drops, table, calls, past, Goes
<1>1. RowsAreInserted' /\ CountIsCreated' /\ GoneWithTheFamily' /\ Exclusive' /\ Minded' /\ Alone'
      /\ StillNone' /\ OnlyOne' /\ RoomLeft' /\ NeverOverfull' /\ DrawnIsWhole' /\ DoneHasItsFilm'
      /\ StoppedLeavesNone'
  BY DEF RowsAreInserted, CountIsCreated, Created, GoneWithTheFamily, Exclusive, Minded, Alone,
         Quiet, JobsOf, StillNone, Standing, Active, OnlyOne, RoomLeft, QuietFamily, WithStatus,
         NeverOverfull, DrawnIsWhole, DoneHasItsFilm, StoppedLeavesNone
<1>2. TypeOK'
  BY RenderAssumption DEF TypeOK, Active, Ended
<1>3. HoldsWhatItSaid'
  BY DEF HoldsWhatItSaid, TypeOK, Active, Ended
<1> QED BY <1>1, <1>2, <1>3

\* It goes on unless the row says cancelled.
LEMMA CheckKeeps ==
  ASSUME IInv, NEW w \in Workers, Check(w)
  PROVE  IInv'
<1> USE DEF IInv, Check, Goes, SeenCancelled, table, calls, hands, past
<1>1. TypeOK' /\ RowsAreInserted' /\ CountIsCreated' /\ HoldsWhatItSaid' /\ GoneWithTheFamily'
      /\ Exclusive' /\ Minded' /\ Alone' /\ StillNone' /\ OnlyOne' /\ RoomLeft' /\ NeverOverfull'
      /\ DrawnIsWhole' /\ DoneHasItsFilm' /\ StoppedLeavesNone'
  BY DEF TypeOK, Active, Ended, RowsAreInserted, CountIsCreated, Created, HoldsWhatItSaid,
         GoneWithTheFamily, Exclusive, Minded, Alone, Quiet, JobsOf, StillNone, Standing, OnlyOne,
         RoomLeft, QuietFamily, WithStatus, NeverOverfull, DrawnIsWhole, DoneHasItsFilm,
         StoppedLeavesNone
<1> QED BY <1>1

\* A save of a running job leaves it running, or is known of.
LEMMA ProgressKeeps ==
  ASSUME IInv, NEW w \in Workers, Progress(w)
  PROVE  IInv'
<1>1. TypeOK'
  BY ProgressKeepsTypes
<1>2. RoomLeft' /\ NeverOverfull'
  BY ProgressShrinks, QueueShrinks DEF Progress, calls
<1> USE DEF IInv, Progress, Saves, Goes, AfterProgress, calls
<1>3. CountIsCreated' /\ Exclusive' /\ DrawnIsWhole' /\ StoppedLeavesNone'
  BY DEF CountIsCreated, Created, Exclusive, DrawnIsWhole, StoppedLeavesNone
<1>4. RowsAreInserted'
  BY DEF RowsAreInserted, HoldsWhatItSaid
<1>5. HoldsWhatItSaid'
  BY DEF HoldsWhatItSaid, TypeOK, Active, Ended
<1>6. GoneWithTheFamily'
  BY DEF GoneWithTheFamily, TypeOK, Active, Ended
<1>7. Minded'
  BY DEF Minded, Exclusive
<1>8. Alone'
  BY JobsAreNat DEF Alone, Quiet, JobsOf, Minded
<1>9. StillNone'
  BY JobsAreNat DEF StillNone, Quiet, Standing, JobsOf, Active, Minded
<1>10. OnlyOne'
  BY JobsAreNat DEF OnlyOne, Quiet, Standing, JobsOf, Active, Minded
<1>11. DoneHasItsFilm'
  BY JobsAreNat DEF DoneHasItsFilm, Quiet, JobsOf, Minded
<1> QED BY <1>1, <1>2, <1>3, <1>4, <1>5, <1>6, <1>7, <1>8, <1>9, <1>10, <1>11

\* It draws where no other job of the spec is done.
LEMMA DrawKeeps ==
  ASSUME IInv, NEW w \in Workers, Draw(w)
  PROVE  IInv'
<1>1. TypeOK'
  BY DrawKeepsTypes
<1> USE DEF IInv, Draw, Goes, table, calls, hands, past
<1>2. RowsAreInserted' /\ CountIsCreated' /\ HoldsWhatItSaid' /\ GoneWithTheFamily' /\ Exclusive'
      /\ Minded' /\ Alone' /\ StillNone' /\ OnlyOne' /\ RoomLeft' /\ NeverOverfull'
  BY DEF RowsAreInserted, CountIsCreated, Created, HoldsWhatItSaid, GoneWithTheFamily, Exclusive,
         Minded, Alone, Quiet, JobsOf, StillNone, Standing, Active, OnlyOne, RoomLeft, QuietFamily,
         WithStatus, NeverOverfull
<1>3. DrawnIsWhole'
  BY DEF DrawnIsWhole, HoldsWhatItSaid, Exclusive
<1>4. DoneHasItsFilm'
  BY DEF DoneHasItsFilm, Quiet, JobsOf, HoldsWhatItSaid, Minded, Alone, DrawnIsWhole
<1>5. StoppedLeavesNone'
  BY DEF StoppedLeavesNone, HoldsWhatItSaid, Exclusive
<1> QED BY <1>1, <1>2, <1>3, <1>4, <1>5

\* The film is whole, or it is not drawn.
LEMMA DrawnKeeps ==
  ASSUME IInv, NEW w \in Workers, Drawn(w)
  PROVE  IInv'
<1>1. DrawnIsWhole' /\ StoppedLeavesNone'
  BY DrawnKeepsFilms
<1> USE DEF IInv, Drawn, Goes, table, calls, hands, past
<1>2. TypeOK' /\ RowsAreInserted' /\ CountIsCreated' /\ GoneWithTheFamily' /\ Exclusive' /\ Alone'
      /\ StillNone' /\ OnlyOne' /\ RoomLeft' /\ NeverOverfull'
  BY DEF TypeOK, Active, Ended, RowsAreInserted, CountIsCreated, Created, GoneWithTheFamily,
         Exclusive, Alone, Quiet, JobsOf, StillNone, Standing, OnlyOne, RoomLeft, QuietFamily,
         WithStatus, NeverOverfull
<1>3. HoldsWhatItSaid'
  BY DEF HoldsWhatItSaid, TypeOK, Active, Ended
<1>4. Minded'
  BY DEF Minded, TypeOK, Active, Ended
<1>5. DoneHasItsFilm'
  BY DEF DoneHasItsFilm, Quiet, JobsOf, TypeOK, RowsAreInserted, Active, Ended
<1> QED BY <1>1, <1>2, <1>3, <1>4, <1>5

\* Only what was drawn may be completed.
LEMMA AfterDrawingKeeps ==
  ASSUME IInv, NEW w \in Workers, AfterDrawing(w)
  PROVE  IInv'
<1> USE DEF IInv, AfterDrawing, Goes, SeenCancelled, Outcome, table, calls, hands, past
<1>1. TypeOK' /\ RowsAreInserted' /\ CountIsCreated' /\ HoldsWhatItSaid' /\ GoneWithTheFamily'
      /\ Exclusive' /\ Minded' /\ Alone' /\ StillNone' /\ OnlyOne' /\ RoomLeft' /\ NeverOverfull'
      /\ DrawnIsWhole' /\ DoneHasItsFilm' /\ StoppedLeavesNone'
  BY DEF TypeOK, Active, Ended, RowsAreInserted, CountIsCreated, Created, HoldsWhatItSaid,
         GoneWithTheFamily, Exclusive, Minded, Alone, Quiet, JobsOf, StillNone, Standing, OnlyOne,
         RoomLeft, QuietFamily, WithStatus, NeverOverfull, DrawnIsWhole, DoneHasItsFilm,
         StoppedLeavesNone
<1> QED BY <1>1

\* A job ends with its film.
LEMMA FinishKeeps ==
  ASSUME IInv, NEW w \in Workers, Finish(w)
  PROVE  IInv'
<1>1. TypeOK'
  BY FinishKeepsTypes
<1>2. RoomLeft' /\ NeverOverfull'
  BY FinishShrinks, QueueShrinks DEF Finish, calls
<1> USE DEF IInv, Finish, Saves, Drops, calls, Goes
<1>3. CountIsCreated' /\ GoneWithTheFamily' /\ Exclusive'
  BY DEF CountIsCreated, Created, GoneWithTheFamily, Exclusive
<1>4. RowsAreInserted'
  BY DEF RowsAreInserted, HoldsWhatItSaid
<1>5. HoldsWhatItSaid'
  BY DEF HoldsWhatItSaid, TypeOK, Active, Ended
<1>6. Minded'
  BY DEF Minded, TypeOK, Exclusive, Active, Ended
<1>7. Alone'
  BY JobsAreNat DEF Alone, Quiet, JobsOf, Minded
<1>8. StillNone'
  BY JobsAreNat DEF StillNone, Quiet, Standing, JobsOf, Active, Minded
<1>9. OnlyOne'
  BY JobsAreNat DEF OnlyOne, Quiet, Standing, JobsOf, Active, Minded
<1>10. DrawnIsWhole'
  BY DEF DrawnIsWhole, TypeOK, Active, Ended
<1>11. DoneHasItsFilm'
  BY DEF DoneHasItsFilm, Quiet, JobsOf, DrawnIsWhole
<1>12. StoppedLeavesNone'
  BY DEF StoppedLeavesNone, TypeOK, Active, Ended
<1> QED BY <1>1, <1>2, <1>3, <1>4, <1>5, <1>6, <1>7, <1>8, <1>9, <1>10, <1>11, <1>12

\* It takes away its own film, or that it could not is known of.
LEMMA CleanUpKeeps ==
  ASSUME IInv, NEW w \in Workers, CleanUp(w)
  PROVE  IInv'
<1>1. TypeOK'
  BY CleanUpKeepsTypes
<1>2. DrawnIsWhole' /\ StoppedLeavesNone'
  BY CleanUpKeepsFilms
<1> USE DEF IInv, CleanUp, AfterCleaning, Goes, table, calls, hands
<1>3. RowsAreInserted' /\ CountIsCreated' /\ HoldsWhatItSaid' /\ GoneWithTheFamily' /\ Exclusive'
      /\ Minded' /\ Alone' /\ StillNone' /\ OnlyOne' /\ RoomLeft' /\ NeverOverfull'
  BY DEF RowsAreInserted, CountIsCreated, Created, HoldsWhatItSaid, GoneWithTheFamily, Exclusive,
         Minded, Alone, Quiet, JobsOf, StillNone, Standing, Active, OnlyOne, RoomLeft, QuietFamily,
         WithStatus, NeverOverfull
<1>4. DoneHasItsFilm'
  BY DEF DoneHasItsFilm, Quiet, JobsOf, TypeOK, RowsAreInserted, HoldsWhatItSaid, Minded, Alone,
         Active, Ended
<1> QED BY <1>1, <1>2, <1>3, <1>4

\* A call that fails leads to a failed job.
LEMMA RaiseKeeps ==
  ASSUME IInv, NEW w \in Workers, Raise(w)
  PROVE  IInv'
<1> USE DEF IInv, Raise, Goes, table, calls, hands, past
<1>1. RowsAreInserted' /\ CountIsCreated' /\ HoldsWhatItSaid' /\ GoneWithTheFamily' /\ Exclusive'
      /\ Minded' /\ Alone' /\ StillNone' /\ OnlyOne' /\ RoomLeft' /\ NeverOverfull'
      /\ DrawnIsWhole' /\ DoneHasItsFilm' /\ StoppedLeavesNone'
  BY DEF RowsAreInserted, CountIsCreated, Created, HoldsWhatItSaid, GoneWithTheFamily, Exclusive,
         Minded, Alone, Quiet, JobsOf, StillNone, Standing, Active, OnlyOne, RoomLeft, QuietFamily,
         WithStatus, NeverOverfull, DrawnIsWhole, DoneHasItsFilm, StoppedLeavesNone
<1>2. TypeOK'
  BY RenderAssumption DEF TypeOK, Active, Ended
<1> QED BY <1>1, <1>2

\* Who dies holds nothing; the row stays as it is.
LEMMA CrashKeeps ==
  ASSUME IInv, NEW w \in Workers, Crash(w)
  PROVE  IInv'
<1> USE DEF IInv, Crash, Drops, table, calls, past, Goes
<1>1. RowsAreInserted' /\ CountIsCreated' /\ GoneWithTheFamily' /\ Exclusive' /\ Alone'
      /\ StillNone' /\ OnlyOne' /\ RoomLeft' /\ NeverOverfull' /\ DoneHasItsFilm'
  BY DEF RowsAreInserted, CountIsCreated, Created, GoneWithTheFamily, Exclusive, Alone, Quiet,
         JobsOf, StillNone, Standing, Active, OnlyOne, RoomLeft, QuietFamily, WithStatus,
         NeverOverfull, DoneHasItsFilm
<1>2. TypeOK'
  BY RenderAssumption DEF TypeOK, Active, Ended
<1>3. HoldsWhatItSaid'
  BY DEF HoldsWhatItSaid, TypeOK, Active, Ended
<1>4. Minded'
  BY DEF Minded, TypeOK, Active, Ended
<1>5. DrawnIsWhole'
  BY DEF DrawnIsWhole, TypeOK, Active, Ended
<1>6. StoppedLeavesNone'
  BY DEF StoppedLeavesNone, TypeOK, Active, Ended
<1> QED BY <1>1, <1>2, <1>3, <1>4, <1>5, <1>6

\* All rows of a family go at once.
LEMMA EraseFamilyKeeps ==
  ASSUME IInv, NEW f \in Families, EraseFamily(f)
  PROVE  IInv'
<1>1. RoomLeft' /\ NeverOverfull'
  BY EraseShrinks, QueueShrinks DEF EraseFamily, calls
<1> USE DEF IInv, EraseFamily, calls, hands, past
<1>2. TypeOK' /\ RowsAreInserted'
  BY DEF TypeOK, Active, Ended, RowsAreInserted
<1>3. GoneWithTheFamily' /\ HoldsWhatItSaid'
  BY DEF GoneWithTheFamily, HoldsWhatItSaid
<1>4. Alone'
  BY DEF Alone, Quiet, JobsOf
<1>5. StillNone' /\ OnlyOne' /\ DoneHasItsFilm'
  BY DEF StillNone, Quiet, Standing, JobsOf, Active, OnlyOne, DoneHasItsFilm
<1>6. CountIsCreated' /\ Exclusive' /\ DrawnIsWhole' /\ StoppedLeavesNone'
  BY DEF CountIsCreated, Created, Exclusive, DrawnIsWhole, StoppedLeavesNone
<1>7. Minded'
  BY DEF Minded, TypeOK, Active, Ended
<1> QED BY <1>1, <1>2, <1>3, <1>4, <1>5, <1>6, <1>7

\* A film expires where nobody is at work.
LEMMA ExpireKeeps ==
  ASSUME IInv, NEW sp \in Specs, Expire(sp)
  PROVE  IInv'
<1> USE DEF IInv, Expire, InHand, table, calls, hands, past
<1>1. TypeOK' /\ RowsAreInserted' /\ CountIsCreated' /\ HoldsWhatItSaid' /\ GoneWithTheFamily'
      /\ Exclusive' /\ Minded' /\ Alone' /\ StillNone' /\ OnlyOne' /\ RoomLeft' /\ NeverOverfull'
      /\ DoneHasItsFilm' /\ StoppedLeavesNone'
  BY DEF TypeOK, Active, Ended, RowsAreInserted, CountIsCreated, Created, HoldsWhatItSaid,
         GoneWithTheFamily, Exclusive, Minded, Alone, Quiet, JobsOf, StillNone, Standing, OnlyOne,
         RoomLeft, QuietFamily, WithStatus, NeverOverfull, DoneHasItsFilm, StoppedLeavesNone
<1>2. DrawnIsWhole'
  BY DEF DrawnIsWhole, HoldsWhatItSaid
<1> QED BY <1>1, <1>2

\* Nothing happens.
LEMMA StutterKeeps ==
  ASSUME IInv, UNCHANGED vars
  PROVE  IInv'
<1> USE DEF IInv, vars, table, calls, hands, past
<1>1. TypeOK' /\ RowsAreInserted' /\ CountIsCreated' /\ HoldsWhatItSaid' /\ GoneWithTheFamily'
      /\ Exclusive' /\ Minded' /\ Alone' /\ StillNone' /\ OnlyOne' /\ RoomLeft' /\ NeverOverfull'
      /\ DrawnIsWhole' /\ DoneHasItsFilm' /\ StoppedLeavesNone'
  BY DEF TypeOK, Active, Ended, RowsAreInserted, CountIsCreated, Created, HoldsWhatItSaid,
         GoneWithTheFamily, Exclusive, Minded, Alone, Quiet, JobsOf, StillNone, Standing, OnlyOne,
         RoomLeft, QuietFamily, WithStatus, NeverOverfull, DrawnIsWhole, DoneHasItsFilm,
         StoppedLeavesNone
<1> QED BY <1>1

\* What was told is final.
Final == \A j \in Jobs \ revived' :
  /\ status[j] \in Ended /\ spec[j] \notin contested' /\ FamilyOf(spec[j]) \notin erased' => status'[j] = status[j]
  /\ status[j] = "GONE" => status'[j] = "GONE"

LEMMA SavesIsFinal ==
  ASSUME IInv, NEW w \in Workers, worker[w] \notin {"down", "idle", "update"}, NEW new, Saves(w, new)
  PROVE  Final
<1>1. job[w] \in Jobs
  BY WorkerIsAtOne
<1>2. \A j \in Jobs \ {job[w]} : status'[j] = status[j]
  BY <1>1 DEF IInv, TypeOK, Saves
<1>3. status'[job[w]] = IF status[job[w]] = "GONE" THEN "GONE" ELSE new
  BY <1>1 DEF IInv, TypeOK, Saves
<1>4. contested' = contested /\ (status[job[w]] = "CANCELLED" /\ new # "CANCELLED" => job[w] \in revived')
  BY DEF Saves
<1>5. spec[job[w]] \notin contested => status[job[w]] \in {"RUNNING", "CANCELLED", "GONE"}
  BY <1>1, JobsAreNat DEF IInv, Minded
<1> QED BY <1>1, <1>2, <1>3, <1>4, <1>5 DEF Final, Ended

LEMMA EveryStepIsFinal ==
  ASSUME IInv, Next
  PROVE  Final
<1>1. ASSUME NEW s \in Submits, Insert(s) PROVE Final
  <2>1. count + 1 \in Jobs
    BY <1>1, InsertCounts
  <2>2. status[count + 1] = "NONE" /\ \A j \in Jobs \ {count + 1} : status'[j] = status[j]
    BY <1>1, <2>1, JobsAreNat DEF IInv, TypeOK, RowsAreInserted, Insert
  <2> QED BY <2>1, <2>2 DEF Final, Ended
<1>2. ASSUME NEW j \in Jobs, Cancel(j) PROVE Final
  BY <1>2 DEF IInv, TypeOK, Cancel, Cancellable, Active, Ended, Final
<1>3. ASSUME NEW w \in Workers, StartUp(w) PROVE Final
  BY <1>3 DEF IInv, TypeOK, StartUp, Recovered, Ended, Final
<1>4. ASSUME NEW w \in Workers, Update(w) PROVE Final
  <2>1. job[w] \in Jobs
    BY <1>4, WorkerIsAtOne DEF Update
  <2> QED BY <1>4, <2>1 DEF IInv, TypeOK, Update, Claimed, Ended, Final
<1>5. ASSUME NEW w \in Workers, Progress(w) PROVE Final
  BY <1>5, SavesIsFinal DEF Progress
<1>6. ASSUME NEW w \in Workers, Finish(w) PROVE Final
  BY <1>6, SavesIsFinal DEF Finish
<1>7. ASSUME NEW f \in Families, EraseFamily(f) PROVE Final
  BY <1>7 DEF IInv, TypeOK, GoneWithTheFamily, RowsAreInserted, EraseFamily, Ended, Final
<1>8. ASSUME UNCHANGED status PROVE Final
  BY <1>8 DEF Final
<1>9. ASSUME NEW w \in Workers, Select(w) \/ Read(w) \/ ReadNothing(w) \/ Check(w) \/ Draw(w) \/ Drawn(w)
                                \/ AfterDrawing(w) \/ CleanUp(w) \/ Raise(w) \/ Crash(w)
      PROVE  UNCHANGED status
  BY <1>9 DEF Select, Read, ReadNothing, Check, Draw, Drawn, AfterDrawing, CleanUp, Raise, Crash, table
<1>10. ASSUME NEW s \in Submits, List(s) \/ Look(s) \/ InsertRefused(s) PROVE UNCHANGED status
  BY <1>10 DEF List, Look, InsertRefused, table
<1>11. ASSUME NEW sp \in Specs, Expire(sp) PROVE UNCHANGED status
  BY <1>11 DEF Expire, table
<1> QED BY <1>1, <1>2, <1>3, <1>4, <1>5, <1>6, <1>7, <1>8, <1>9, <1>10, <1>11 DEF Next, Submit, Work

LEMMA InitIsSound == Init => IInv
<1> SUFFICES ASSUME Init PROVE IInv
    OBVIOUS
<1>1. TypeOK
  BY JobsAreNat, RenderAssumption DEF RenderAssumption, Init, TypeOK, Active, Ended
<1>2. CountIsCreated
  <2>1. Created = {}
    BY DEF Init, Created
  <2> QED BY <2>1, FS_EmptySet DEF Init, CountIsCreated
<1>3. NeverOverfull
  <2>1. \A f \in Families : WithStatus(f, Active) = {}
    BY DEF Init, WithStatus, Active
  <2>2. Cardinality({}) = 0 /\ MaxQueued \in Nat
    BY FS_EmptySet, RenderAssumption DEF RenderAssumption
  <2> QED BY <2>1, <2>2 DEF NeverOverfull
<1>4. RowsAreInserted /\ HoldsWhatItSaid /\ GoneWithTheFamily
  BY JobsAreNat DEF Init, RowsAreInserted, HoldsWhatItSaid, GoneWithTheFamily
<1>5. Exclusive /\ Minded /\ Alone /\ StillNone /\ RoomLeft
  BY DEF Init, Exclusive, Minded, Alone, StillNone, RoomLeft
<1>6. OnlyOne /\ DrawnIsWhole /\ DoneHasItsFilm /\ StoppedLeavesNone
  BY DEF Init, OnlyOne, Standing, JobsOf, DrawnIsWhole, DoneHasItsFilm, StoppedLeavesNone
<1> QED BY <1>1, <1>2, <1>3, <1>4, <1>5, <1>6 DEF IInv

\* At most one, from any two being the same.
LEMMA OneOfThem ==
  ASSUME NEW S, \A x, y \in S : x = y
  PROVE  Cardinality(S) <= 1
<1>1. CASE S = {}
  BY <1>1, FS_EmptySet
<1>2. CASE S # {}
  <2>1. PICK x \in S : S = {x}
    BY <1>2
  <2> QED BY <2>1, FS_Singleton
<1> QED BY <1>1, <1>2

LEMMA QueueIsSoundHere == IInv => QueueIsSound
<1> SUFFICES ASSUME IInv PROVE QueueIsSound
    OBVIOUS
<1>1. ASSUME NEW sp \in Specs \ contested, FamilyOf(sp) \notin raced, JobsOf(sp) \cap revived = {}
      PROVE  Cardinality(Standing(sp)) <= 1
  <2>1. \A j, k \in Standing(sp) : j = k
    BY <1>1 DEF IInv, OnlyOne, Quiet
  <2> QED BY <2>1, OneOfThem
<1>2. ASSUME NEW f \in Families \ raced, {j \in Jobs : j \in revived /\ FamilyOf(spec[j]) = f} = {},
             f \notin {FamilyOf(sp) : sp \in contested}
      PROVE  Cardinality(WithStatus(f, Active)) <= MaxQueued
  BY <1>2 DEF IInv, NeverOverfull, QuietFamily
<1> QED BY <1>1, <1>2 DEF QueueIsSound, OneJobPerFilm, IInv

LEMMA FilmsFollowHere == IInv => FilmsFollowJobs
BY DEF IInv, DoneHasItsFilm, StoppedLeavesNone, FilmsFollowJobs, Quiet

LEMMA EveryStepKeeps ==
  ASSUME IInv, [Next]_vars
  PROVE  IInv'
<1>1. ASSUME NEW s \in Submits, Submit(s) PROVE IInv'
  BY <1>1, ListKeeps, LookKeeps, InsertKeeps, InsertRefusedKeeps DEF Submit
<1>2. ASSUME NEW w \in Workers, Work(w) PROVE IInv'
  BY <1>2, SelectKeeps, UpdateKeeps, ReadKeeps, ReadNothingKeeps, CheckKeeps, ProgressKeeps,
     DrawKeeps, DrawnKeeps, AfterDrawingKeeps, FinishKeeps, CleanUpKeeps DEF Work
<1>3. ASSUME NEW w \in Workers, StartUp(w) \/ Raise(w) \/ Crash(w) PROVE IInv'
  BY <1>3, StartUpKeeps, RaiseKeeps, CrashKeeps
<1>4. ASSUME NEW j \in Jobs, Cancel(j) PROVE IInv'
  BY <1>4, CancelKeeps
<1>5. ASSUME NEW f \in Families, EraseFamily(f) PROVE IInv'
  BY <1>5, EraseFamilyKeeps
<1>6. ASSUME NEW sp \in Specs, Expire(sp) PROVE IInv'
  BY <1>6, ExpireKeeps
<1> QED BY <1>1, <1>2, <1>3, <1>4, <1>5, <1>6, StutterKeeps DEF Next

---------------------------------------------------------------------------
(* What a reader should know of.                                           *)

\* Whatever submissions, workers, cancels and crashes do, a step at a time, the rows, the
\* callers and the workers stay in the relations named above.
THEOREM RenderInvariant == Spec => []IInv
<1>1. IInv /\ [Next]_vars => IInv'
  BY EveryStepKeeps
<1> QED BY InitIsSound, <1>1, PTL DEF Spec

\* SubmitRenderJobUseCase and the workers: a retry is never a second film and no family fills
\* the queue, save for the races the property names; for any number of them.
THEOREM OneFilmOneJob == Spec => []QueueIsSound
BY RenderInvariant, QueueIsSoundHere, PTL

\* A job that says COMPLETED has its film, and a job that was stopped leaves none behind.
THEOREM FilmsStayWithTheirJobs == Spec => []FilmsFollowJobs
BY RenderInvariant, FilmsFollowHere, PTL

\* What the family was told of a job is final.
THEOREM ToldIsFinal == Spec => EndIsFinal
<1>1. IInv /\ [Next]_vars => [Final]_vars
  BY EveryStepIsFinal
<1>2. [][Final]_vars => EndIsFinal
  BY PTL DEF Final, EndIsFinal
<1> QED BY RenderInvariant, <1>1, <1>2, PTL DEF Spec

=============================================================================
