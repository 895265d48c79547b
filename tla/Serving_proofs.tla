---------------------------- MODULE Serving_proofs ----------------------------
(***************************************************************************)
(* Proofs about what serves one request after another: the transaction     *)
(* boundary (UnitOfWork), the Return Engine's arithmetic (ReturnScoring),  *)
(* what is promised in memory (MemoryPromises), the rate limiter           *)
(* (RateLimits) and the family's own words (FamilyLexicon).  The five      *)
(* share no variable, as in MCServing.                                     *)
(***************************************************************************)
EXTENDS UnitOfWork, ReturnScoring, MemoryPromises, RateLimits, FamilyLexicon,
        FiniteSetTheorems, SequenceTheorems, WellFoundedInduction, TLAPS

---------------------------------------------------------------------------
(* The transaction boundary, for any number of requests, imports and seals.*)
(*                                                                         *)
(* The counter and the connection are two pieces of state that no lock     *)
(* keeps together.  What ties them is who is where: the counter is the     *)
(* number of requests past __enter__ and before __exit__, and an open      *)
(* transaction always has a request that will still look at it.            *)

\* The requests the counter has counted, and those that will end a transaction.
CountedNow == {r \in Requests : pc[r] \in Counted}
Holding == Counted \cup {"count", "exit last"}

DepthCounts == depth = Cardinality(CountedNow)
OpenIsHeld  == open => \E r \in Requests : pc[r] \in Holding
DirtyIsOpen == dirty # {} => open

\* The inductive invariant behind NothingLeftOpen.
BoundaryInv == TypeOK /\ DepthCounts /\ OpenIsHeld /\ DirtyIsOpen

---------------------------------------------------------------------------
(* Lemmas about the counter.                                               *)

LEMMA CountedFinite == IsFiniteSet(CountedNow)
BY FS_Subset, RequestsAssumption DEF RequestsAssumption, CountedNow

\* One request moves: it joins the counted, leaves them, or changes nothing.
LEMMA CountedMoves ==
  ASSUME TypeOK, NEW r \in Requests, NEW step \in Steps, Goes(r, step)
  PROVE  CountedNow' = IF step \in Counted THEN CountedNow \cup {r} ELSE CountedNow \ {r}
BY DEF TypeOK, Goes, CountedNow

\* A seal is nowhere in the count.
LEMMA CountedIgnoresSeals ==
  ASSUME TypeOK, NEW q \in Seals, NEW step \in Steps, Goes(q, step)
  PROVE  CountedNow' = CountedNow /\ \A r \in Requests : pc'[r] = pc[r]
BY RequestsAssumption DEF RequestsAssumption, TypeOK, Goes, CountedNow

\* Joining adds one; leaving takes one, and there was one to take.
LEMMA CountUp ==
  ASSUME DepthCounts, NEW r \in Requests, pc[r] \notin Counted,
         CountedNow' = CountedNow \cup {r}, depth' = depth + 1
  PROVE  DepthCounts' /\ depth' \in Nat
<1>1. r \notin CountedNow
  BY DEF CountedNow
<1>2. Cardinality(CountedNow \cup {r}) = Cardinality(CountedNow) + 1
  BY <1>1, CountedFinite, FS_AddElement
<1>3. Cardinality(CountedNow) \in Nat
  BY CountedFinite, FS_CardinalityType
<1> QED BY <1>2, <1>3 DEF DepthCounts

LEMMA CountDown ==
  ASSUME DepthCounts, NEW r \in Requests, pc[r] \in Counted,
         CountedNow' = CountedNow \ {r}, depth' = depth - 1
  PROVE  DepthCounts' /\ depth' \in Nat /\ depth \in Nat \ {0}
<1>1. r \in CountedNow
  BY DEF CountedNow
<1>2. Cardinality(CountedNow \ {r}) = Cardinality(CountedNow) - 1
  BY <1>1, CountedFinite, FS_RemoveElement
<1>3. Cardinality(CountedNow) \in Nat /\ Cardinality(CountedNow) # 0
  BY <1>1, CountedFinite, FS_CardinalityType, FS_EmptySet
<1> QED BY <1>2, <1>3 DEF DepthCounts

---------------------------------------------------------------------------
(* The counter's half of a step.                                           *)

\* Whatever moves, the counter still counts.
LEMMA DepthStep ==
  ASSUME TypeOK, DepthCounts, Next
  PROVE  DepthCounts' /\ depth' \in Nat
<1>1. ASSUME NEW r \in Requests, Work(r) PROVE DepthCounts' /\ depth' \in Nat
  <2> DEFINE Same == depth' = depth /\ CountedNow' = CountedNow
  <2>1. Same => DepthCounts' /\ depth' \in Nat
    BY DEF DepthCounts, TypeOK
  <2>2. CASE Enter(r)
    <3>1. \E step \in {"begin", "count"} : Goes(r, step)
      BY <2>2 DEF Enter
    <3> QED BY <2>1, <2>2, <3>1, CountedMoves
            DEF Enter, At, CountedNow, Counted, Steps, Inside, Ended
  <2>3. CASE BeginWork(r)
    <3>1. \E step \in {"failed", "count"} : Goes(r, step)
      BY <2>3 DEF BeginWork, AfterBeginFails
    <3> QED BY <2>1, <2>3, <3>1, CountedMoves
            DEF BeginWork, At, CountedNow, Counted, Steps, Inside, Ended
  <2>4. CASE CountIn(r)
    <3>1. CountedNow' = CountedNow \cup {r}
      BY <2>4, CountedMoves DEF CountIn, Counted, Steps, Inside
    <3> QED BY <2>4, <3>1, CountUp DEF CountIn, At, Counted
  <2>5. CASE \E part \in Parts : Write(r, part) \/ WriteErr(r, part) \/ WriteRaises(r, part)
    <3>1. \E step \in {"second", "commit", "exit", "rollback"} : Goes(r, step)
      BY <2>5 DEF Write, WriteErr, WriteRaises, AfterErr, Parts
    <3>2. pc[r] \in Counted /\ depth' = depth
      BY <2>5 DEF Write, WriteErr, WriteRaises, At, Parts, Counted
    <3> QED BY <2>1, <3>1, <3>2, CountedMoves DEF CountedNow, Counted, Steps, Inside
  <2>6. CASE RollBack(r) \/ Commit(r) \/ CommitNow(r)
    <3>1. \E step \in {"exit", "commit now"} : Goes(r, step)
      BY <2>6 DEF RollBack, Commit, CommitNow
    <3>2. pc[r] \in Counted /\ depth' = depth
      BY <2>6 DEF RollBack, Commit, CommitNow, At, Counted
    <3> QED BY <2>1, <3>1, <3>2, CountedMoves DEF CountedNow, Counted, Steps, Inside
  <2>7. CASE Exit(r)
    <3>1. \E step \in {"exit last", "ok", "failed"} : Goes(r, step)
      BY <2>7 DEF Exit, AfterExit, Answer
    <3>2. CountedNow' = CountedNow \ {r}
      BY <3>1, CountedMoves DEF Counted, Steps, Inside, Ended
    <3> QED BY <2>7, <3>2, CountDown DEF Exit, At, Counted
  <2>8. CASE ExitLast(r)
    <3>1. \E step \in {"ok", "failed"} : Goes(r, step)
      BY <2>8 DEF ExitLast, Answer
    <3> QED BY <2>1, <2>8, <3>1, CountedMoves
            DEF ExitLast, At, CountedNow, Counted, Steps, Inside, Ended
  <2> QED BY <1>1, <2>2, <2>3, <2>4, <2>5, <2>6, <2>7, <2>8 DEF Work
<1>2. ASSUME NEW q \in Seals, Seal(q) \/ SealRefused(q) PROVE DepthCounts' /\ depth' \in Nat
  <2>1. \E step \in {"ok", "refused", "failed"} : Goes(q, step)
    BY <1>2 DEF Seal, SealRefused
  <2>2. CountedNow' = CountedNow /\ depth' = depth
    BY <1>2, <2>1, CountedIgnoresSeals DEF Seal, SealRefused, Steps, Ended
  <2> QED BY <2>2 DEF DepthCounts, TypeOK
<1>3. CASE Crash
  <2>1. \A r \in Requests : pc'[r] \in Ended
    BY <1>3 DEF Crash, TypeOK, Ended
  <2>2. CountedNow' = {}
    BY <2>1 DEF CountedNow, Counted, Ended
  <2> QED BY <1>3, <2>2, FS_EmptySet DEF Crash, DepthCounts
<1> QED BY <1>1, <1>2, <1>3 DEF Next

---------------------------------------------------------------------------
(* The connection's half of a step.                                        *)

\* Statements that are not of a use case leave pc where `Goes` says.
LEMMA PcMoves ==
  ASSUME TypeOK, NEW r \in Requests \cup Seals, NEW step \in Steps, Goes(r, step)
  PROVE  /\ pc' \in [Requests \cup Seals -> Steps]
         /\ pc'[r] = step
         /\ \A other \in (Requests \cup Seals) \ {r} : pc'[other] = pc[other]
BY DEF TypeOK, Goes

\* Every step of a request goes to some step.
LEMMA WorkGoes ==
  ASSUME TypeOK, NEW r \in Requests, Work(r)
  PROVE  \E step \in Steps : Goes(r, step)
<1>1. CASE Enter(r) \/ BeginWork(r) \/ CountIn(r)
  BY <1>1 DEF Enter, BeginWork, CountIn, AfterBeginFails, Steps, Inside, Ended, Counted
<1>2. CASE \E part \in Parts : Write(r, part) \/ WriteErr(r, part) \/ WriteRaises(r, part)
  BY <1>2 DEF Write, WriteErr, WriteRaises, AfterErr, Parts, Steps, Inside, Counted
<1>3. CASE RollBack(r) \/ Commit(r) \/ CommitNow(r)
  BY <1>3 DEF RollBack, Commit, CommitNow, Steps, Inside, Counted
<1>4. CASE Exit(r) \/ ExitLast(r)
  BY <1>4 DEF Exit, ExitLast, AfterExit, Answer, Steps, Inside, Ended
<1> QED BY <1>1, <1>2, <1>3, <1>4 DEF Work

\* Undoing robs only the requests whose rows it undoes.
LEMMA UndoingRobs ==
  ASSUME TypeOK, NEW r, UndoneBy(r)
  PROVE  /\ open' = FALSE /\ stable' = stable /\ dirty' = {} /\ robbed' \subseteq Requests
         /\ robbed \subseteq robbed'
         /\ \A other \in Requests \ robbed', part \in Parts :
              other = r \/ <<other, part>> \notin dirty
<1>1. \A row \in dirty : row[1] \in Requests
  BY DEF TypeOK
<1>2. {row[1] : row \in dirty} \subseteq Requests
  BY <1>1
<1> QED BY <1>1, <1>2 DEF UndoneBy, TypeOK

\* The rows of a transaction are of the type, and there are none without one.
LEMMA RowsStep ==
  ASSUME TypeOK, DirtyIsOpen, Next
  PROVE  /\ open' \in BOOLEAN
         /\ stable' \subseteq (Requests \cup Seals) \X Parts
         /\ dirty' \subseteq Requests \X Parts
         /\ robbed' \subseteq Requests
         /\ DirtyIsOpen'
<1> USE DEF TypeOK, DirtyIsOpen, store
<1>1. ASSUME NEW r \in Requests, Work(r)
      PROVE  /\ open' \in BOOLEAN
             /\ stable' \subseteq (Requests \cup Seals) \X Parts
             /\ dirty' \subseteq Requests \X Parts
             /\ robbed' \subseteq Requests
             /\ DirtyIsOpen'
  <2>1. CASE Enter(r) \/ BeginWork(r) \/ CountIn(r)
    BY <2>1 DEF Enter, BeginWork, CountIn
  <2>2. CASE \E part \in Parts : Write(r, part) \/ WriteErr(r, part) \/ WriteRaises(r, part)
    <3>1. ASSUME NEW part \in Parts, Written(<<r, part>>)
          PROVE  /\ open' = open
                 /\ stable' \subseteq stable \cup {<<r, part>>}
                 /\ dirty' \subseteq dirty \cup {<<r, part>>}
                 /\ ~ open => dirty' = dirty
      BY <3>1 DEF Written
    <3>2. ASSUME NEW part \in Parts
          PROVE  <<r, part>> \in Requests \X Parts
      OBVIOUS
    <3> QED BY <2>2, <3>1, <3>2 DEF Write, WriteErr, WriteRaises
  <2>3. CASE RollBack(r) \/ Commit(r) \/ CommitNow(r)
    <3>1. CASE RollBack(r)
      BY <3>1, UndoingRobs DEF RollBack
    <3>2. CASE Commit(r)
      BY <3>2 DEF Commit
    <3>3. CASE CommitNow(r)
      <4>1. Requests \X Parts \subseteq (Requests \cup Seals) \X Parts
        OBVIOUS
      <4>2. CASE open
        BY <3>3, <4>1, <4>2 DEF CommitNow, Committed
      <4>3. CASE ~ open
        BY <3>3, <4>3 DEF CommitNow
      <4> QED BY <4>2, <4>3
    <3> QED BY <2>3, <3>1, <3>2, <3>3
  <2>4. CASE Exit(r) \/ ExitLast(r)
    BY <2>4, UndoingRobs DEF Exit, ExitLast, Committed
  <2> QED BY <1>1, <2>1, <2>2, <2>3, <2>4 DEF Work
<1>2. ASSUME NEW q \in Seals, Seal(q) \/ SealRefused(q)
      PROVE  /\ open' \in BOOLEAN
             /\ stable' \subseteq (Requests \cup Seals) \X Parts
             /\ dirty' \subseteq Requests \X Parts
             /\ robbed' \subseteq Requests
             /\ DirtyIsOpen'
  <2>1. CASE Seal(q)
    <3>1. Rows(q) \subseteq (Requests \cup Seals) \X Parts
      BY DEF Rows
    <3> QED BY <2>1, <3>1 DEF Seal
  <2>2. CASE SealRefused(q)
    BY <2>2, UndoingRobs DEF SealRefused
  <2> QED BY <1>2, <2>1, <2>2
<1>3. CASE Crash
  <2>1. \A row \in dirty : row[1] \in Requests
    OBVIOUS
  <2> QED BY <1>3, <2>1 DEF Crash
<1> QED BY <1>1, <1>2, <1>3 DEF Next

\* An open transaction keeps its holder: a request that stops holding one has
\* just ended it, or left it to another that is counted.
LEMMA HeldStep ==
  ASSUME TypeOK, DepthCounts, OpenIsHeld, Next
  PROVE  OpenIsHeld'
<1> USE DEF Holding, Counted
<1>1. ASSUME NEW r \in Requests, Work(r) PROVE OpenIsHeld'
  <2>1. ASSUME open' => open, NEW step \in Holding, Goes(r, step) PROVE OpenIsHeld'
    BY <2>1, PcMoves DEF OpenIsHeld, Steps, Inside
  <2>2. CASE Enter(r)
    <3>1. \E step \in {"begin", "count"} : Goes(r, step)
      BY <2>2 DEF Enter
    <3>2. pc[r] = "start" /\ open' = open
      BY <2>2 DEF Enter, At, store
    <3> QED BY <3>1, <3>2, PcMoves DEF OpenIsHeld, Steps, Inside
  <2>3. CASE BeginWork(r)
    <3>1. CASE open
      <4>1. Goes(r, "failed") /\ pc[r] = "begin"
        BY <2>3, <3>1 DEF BeginWork, AfterBeginFails, At
      <4> QED BY <3>1, <4>1, PcMoves DEF OpenIsHeld, Steps, Ended
    <3>2. CASE ~ open
      BY <2>3, <3>2, PcMoves DEF BeginWork, OpenIsHeld, Steps, Inside
    <3> QED BY <3>1, <3>2
  <2>4. CASE CountIn(r)
    BY <2>1, <2>4 DEF CountIn, store
  <2>5. CASE \E part \in Parts : Write(r, part) \/ WriteErr(r, part) \/ WriteRaises(r, part)
    <3>1. \E step \in {"second", "commit", "exit", "rollback"} : Goes(r, step)
      BY <2>5 DEF Write, WriteErr, WriteRaises, AfterErr, Parts
    <3>2. open' = open
      BY <2>5 DEF Write, WriteErr, WriteRaises, Written, store
    <3> QED BY <2>1, <3>1, <3>2
  <2>6. CASE RollBack(r) \/ Commit(r) \/ CommitNow(r)
    BY <2>1, <2>6 DEF RollBack, Commit, CommitNow, Committed, UndoneBy, store
  <2>7. CASE Exit(r)
    <3>1. CASE depth = 1
      BY <2>1, <2>7, <3>1 DEF Exit, AfterExit, store
    <3>2. CASE depth # 1
      <4>1. depth \in Nat /\ r \in CountedNow
        BY <2>7 DEF Exit, At, CountedNow, TypeOK
      <4>2. Cardinality(CountedNow \ {r}) = depth - 1
        BY <4>1, CountedFinite, FS_RemoveElement DEF DepthCounts
      <4>3. CountedNow \ {r} # {}
        BY <3>2, <4>1, <4>2, FS_EmptySet
      <4>4. PICK other \in Requests \ {r} : pc[other] \in Counted
        BY <4>3 DEF CountedNow
      <4>5. \E step \in {"exit last", "ok", "failed"} : Goes(r, step)
        BY <2>7 DEF Exit, AfterExit, Answer
      <4>6. pc'[other] = pc[other]
        BY <4>4, <4>5, PcMoves DEF Steps, Inside, Ended
      <4> QED BY <4>4, <4>6 DEF OpenIsHeld
    <3> QED BY <3>1, <3>2
  <2>8. CASE ExitLast(r)
    BY <2>8 DEF ExitLast, Committed, UndoneBy, OpenIsHeld, store
  <2> QED BY <1>1, <2>2, <2>3, <2>4, <2>5, <2>6, <2>7, <2>8 DEF Work
<1>2. ASSUME NEW q \in Seals, Seal(q) \/ SealRefused(q) PROVE OpenIsHeld'
  <2>1. \E step \in {"ok", "refused", "failed"} : Goes(q, step)
    BY <1>2 DEF Seal, SealRefused
  <2>2. \A r \in Requests : pc'[r] = pc[r]
    BY <2>1, CountedIgnoresSeals DEF Steps, Ended
  <2>3. open' => open
    BY <1>2 DEF Seal, SealRefused, UndoneBy, store
  <2> QED BY <2>2, <2>3 DEF OpenIsHeld
<1>3. CASE Crash
  BY <1>3 DEF Crash, OpenIsHeld
<1> QED BY <1>1, <1>2, <1>3 DEF Next

---------------------------------------------------------------------------
(* The boundary mends itself.                                              *)

LEMMA BoundaryInit == Init => BoundaryInv
<1> SUFFICES ASSUME Init PROVE BoundaryInv
  OBVIOUS
<1>1. TypeOK
  BY DEF Init, TypeOK, Steps
<1>2. CountedNow = {}
  BY DEF Init, CountedNow, Counted
<1> QED BY <1>1, <1>2, FS_EmptySet DEF Init, BoundaryInv, DepthCounts, OpenIsHeld, DirtyIsOpen

LEMMA BoundaryStep == BoundaryInv /\ [Next]_vars => BoundaryInv'
<1> SUFFICES ASSUME BoundaryInv, [Next]_vars PROVE BoundaryInv'
  OBVIOUS
<1>1. TypeOK /\ DepthCounts /\ OpenIsHeld /\ DirtyIsOpen
  BY DEF BoundaryInv
<1>2. CASE Next
  <2>1. DepthCounts' /\ depth' \in Nat
    BY <1>1, <1>2, DepthStep
  <2>2. OpenIsHeld'
    BY <1>1, <1>2, HeldStep
  <2>3. /\ open' \in BOOLEAN
        /\ stable' \subseteq (Requests \cup Seals) \X Parts
        /\ dirty' \subseteq Requests \X Parts
        /\ robbed' \subseteq Requests
        /\ DirtyIsOpen'
    BY <1>1, <1>2, RowsStep
  <2>4. pc' \in [Requests \cup Seals -> Steps]
    <3>1. ASSUME NEW r \in Requests, Work(r) PROVE pc' \in [Requests \cup Seals -> Steps]
      BY <1>1, <3>1, WorkGoes, PcMoves
    <3>2. ASSUME NEW q \in Seals, Seal(q) \/ SealRefused(q)
          PROVE  pc' \in [Requests \cup Seals -> Steps]
      BY <1>1, <3>2, PcMoves DEF Seal, SealRefused, Steps, Ended
    <3>3. CASE Crash
      BY <1>1, <3>3 DEF Crash, TypeOK, Steps, Ended
    <3> QED BY <1>2, <3>1, <3>2, <3>3 DEF Next
  <2>5. outcome' \in [Requests -> {"ok", "err", "exception"}] /\ shared' \subseteq Requests
    <3>1. ASSUME NEW r \in Requests, Work(r)
          PROVE  outcome' \in [Requests -> {"ok", "err", "exception"}] /\ shared' \subseteq Requests
      BY <1>1, <3>1 DEF TypeOK, Work, Enter, BeginWork, CountIn, Write, WriteErr, WriteRaises,
                        RollBack, Commit, CommitNow, Exit, ExitLast, Others
    <3>2. ASSUME NEW q \in Seals, Seal(q) \/ SealRefused(q)
          PROVE  outcome' \in [Requests -> {"ok", "err", "exception"}] /\ shared' \subseteq Requests
      BY <1>1, <3>2 DEF TypeOK, Seal, SealRefused, Others
    <3>3. CASE Crash
      BY <1>1, <3>3 DEF TypeOK, Crash
    <3> QED BY <1>2, <3>1, <3>2, <3>3 DEF Next
  <2> QED BY <2>1, <2>2, <2>3, <2>4, <2>5 DEF BoundaryInv, TypeOK
<1>3. CASE UNCHANGED vars
  BY <1>1, <1>3 DEF vars, store, BoundaryInv, TypeOK, DepthCounts, CountedNow,
                    OpenIsHeld, DirtyIsOpen
<1> QED BY <1>2, <1>3

\* SqliteUnitOfWork's counter, the connection and the requests have their types,
\* the counter is what it counts, and no transaction is without its holder.
THEOREM BoundaryInvariant == Spec => []BoundaryInv
<1> QED BY BoundaryInit, BoundaryStep, PTL DEF Spec

\* Every variable of the unit of work has its type.
THEOREM BoundaryTypeCorrect == Spec => []TypeOK
<1>1. BoundaryInv => TypeOK
  BY DEF BoundaryInv
<1> QED BY <1>1, BoundaryInvariant, PTL

\* Once nobody is inside `with self._uow`, the depth is zero and the connection
\* has no transaction: a raced counter or a refused BEGIN never wedges it.
THEOREM BoundaryMends == Spec => []NothingLeftOpen
<1>1. BoundaryInv => NothingLeftOpen
  <2> SUFFICES ASSUME BoundaryInv, Idle PROVE depth = 0 /\ ~ open /\ dirty = {}
    BY DEF NothingLeftOpen
  <2>1. CountedNow = {}
    BY DEF Idle, CountedNow, Inside
  <2>2. depth = 0
    BY <2>1, FS_EmptySet DEF BoundaryInv, DepthCounts
  <2>3. ~ open
    BY DEF BoundaryInv, OpenIsHeld, Idle, Inside, Holding
  <2> QED BY <2>2, <2>3 DEF BoundaryInv, DirtyIsOpen
<1> QED BY <1>1, BoundaryInvariant, PTL

---------------------------------------------------------------------------
(* What was acknowledged.                                                  *)

Has(r, part) == <<r, part>> \in stable \cup dirty

\* A request that got past its writes has both rows, unless it was robbed; one
\* that rolls back will not be acknowledged.
AckOf(r) ==
  /\ pc[r] \in {"start", "begin", "count", "first", "second", "commit", "commit now"}
       => outcome[r] = "ok"
  /\ pc[r] = "rollback" => outcome[r] = "err" /\ r \notin Imports
  /\ r \notin robbed =>
       /\ pc[r] = "second" => Has(r, "first")
       /\ \/ pc[r] \in {"commit", "commit now", "ok"}
          \/ pc[r] \in {"exit", "exit last"} /\ outcome[r] = "ok"
          => Has(r, "first") /\ Has(r, "second")

AckInv == BoundaryInv /\ \A r \in Requests : AckOf(r)

\* How another's step may touch r: never its place, never a row into the store,
\* and a row out of it only by robbing r.
StoreElsewhere(r) ==
  /\ robbed \subseteq robbed'
  /\ \A part \in Parts : /\ Has(r, part)' => Has(r, part)
                         /\ Has(r, part) /\ r \notin robbed' => Has(r, part)'
                         /\ <<r, part>> \in dirty' => <<r, part>> \in dirty

Elsewhere(r) ==
  /\ pc'[r] = pc[r] /\ outcome'[r] = outcome[r]
  /\ shared \subseteq shared'
  /\ StoreElsewhere(r)

LEMMA OthersElsewhere ==
  ASSUME TypeOK, NEW r \in Requests, NEW x \in Requests \ {r}, Work(x)
  PROVE  Elsewhere(r)
<1> USE DEF Has, store
<1>1. pc'[r] = pc[r]
  BY WorkGoes, PcMoves
<1>2. outcome'[r] = outcome[r] /\ shared \subseteq shared'
  BY DEF TypeOK, Work, Enter, BeginWork, CountIn, Write, WriteErr, WriteRaises,
         RollBack, Commit, CommitNow, Exit, ExitLast
<1>3. CASE UndoneBy(x)
  BY <1>1, <1>2, <1>3, UndoingRobs DEF Elsewhere, StoreElsewhere
<1>4. CASE Enter(x) \/ BeginWork(x) \/ CountIn(x) \/ Exit(x) \/ Commit(x)
  <2>1. StoreElsewhere(r)
    BY <1>4 DEF StoreElsewhere, Enter, BeginWork, CountIn, Exit, Commit
  <2> QED BY <1>1, <1>2, <2>1 DEF Elsewhere
<1>5. CASE \E part \in Parts : Write(x, part) \/ WriteErr(x, part) \/ WriteRaises(x, part)
  <2>1. StoreElsewhere(r)
    BY <1>5 DEF StoreElsewhere, Write, WriteErr, WriteRaises, Written
  <2> QED BY <1>1, <1>2, <2>1 DEF Elsewhere
<1>6. CASE (RollBack(x) \/ CommitNow(x) \/ ExitLast(x)) /\ ~ UndoneBy(x)
  <2>1. StoreElsewhere(r)
    BY <1>6 DEF StoreElsewhere, RollBack, CommitNow, ExitLast, Committed
  <2> QED BY <1>1, <1>2, <2>1 DEF Elsewhere
<1> QED BY <1>3, <1>4, <1>5, <1>6 DEF Work

LEMMA SealsElsewhere ==
  ASSUME TypeOK, NEW r \in Requests, NEW q \in Seals, Seal(q) \/ SealRefused(q)
  PROVE  Elsewhere(r)
<1>1. \E step \in {"ok", "refused", "failed"} : Goes(q, step)
  BY DEF Seal, SealRefused
<1>2. pc'[r] = pc[r]
  BY <1>1, CountedIgnoresSeals DEF Steps, Ended
<1>3. r # q
  BY RequestsAssumption DEF RequestsAssumption
<1>4. CASE UndoneBy(q) /\ SealRefused(q)
  BY <1>2, <1>3, <1>4, UndoingRobs DEF Elsewhere, StoreElsewhere, Has, SealRefused
<1>5. CASE ~ UndoneBy(q) \/ Seal(q)
  BY <1>2, <1>3, <1>5 DEF Elsewhere, StoreElsewhere, Has, Seal, SealRefused, Rows, store
<1> QED BY <1>4, <1>5

\* What others do leaves r acknowledged as it was.
LEMMA AckElsewhere ==
  ASSUME NEW r \in Requests, AckOf(r), Elsewhere(r)
  PROVE  AckOf(r)'
BY DEF AckOf, Elsewhere, StoreElsewhere, Parts

\* What r does itself.
LEMMA AckOwn ==
  ASSUME TypeOK, NEW r \in Requests, AckOf(r), Work(r)
  PROVE  AckOf(r)'
<1> USE DEF AckOf, Has, store, At, Goes, TypeOK
<1>1. CASE Enter(r)
  BY <1>1 DEF Enter, Steps, Inside
<1>2. CASE BeginWork(r)
  BY <1>2 DEF BeginWork, AfterBeginFails, Steps, Inside, Ended
<1>3. CASE CountIn(r)
  BY <1>3 DEF CountIn, Steps, Inside, Counted
<1>4. CASE \E part \in Parts : Write(r, part)
  <2>1. CASE Write(r, "first")
    BY <2>1 DEF Write, Written, Steps, Inside, Counted
  <2>2. CASE Write(r, "second")
    BY <2>2 DEF Write, Written, Steps, Inside, Counted
  <2> QED BY <1>4, <2>1, <2>2 DEF Parts
<1>5. CASE \E part \in Parts : WriteErr(r, part)
  <2>1. PICK part \in Parts : WriteErr(r, part)
    BY <1>5
  <2>2. outcome'[r] = "err"
    BY <2>1 DEF WriteErr, TypeOK
  <2>3. \/ pc'[r] = "exit"
        \/ pc'[r] = "rollback" /\ r \notin Imports
    BY <2>1 DEF WriteErr, AfterErr, Steps, Inside, Counted
  <2> QED BY <2>2, <2>3
<1>6. CASE \E part \in Parts : WriteRaises(r, part)
  <2>1. outcome'[r] = "exception" /\ pc'[r] = "exit"
    BY <1>6 DEF WriteRaises, TypeOK, Steps, Inside, Counted
  <2> QED BY <2>1
<1>7. CASE RollBack(r)
  BY <1>7 DEF RollBack, Steps, Inside, Counted
<1>8. CASE Commit(r) \/ Exit(r)
  BY <1>8 DEF Commit, Exit, AfterExit, Answer, Steps, Inside, Counted, Ended
<1>9. CASE CommitNow(r)
  BY <1>9 DEF CommitNow, Committed, Steps, Inside, Counted
<1>10. CASE ExitLast(r)
  <2>1. CASE outcome[r] = "ok"
    BY <1>10, <2>1 DEF ExitLast, LastCommits, Committed, Answer, Steps, Ended
  <2>2. CASE outcome[r] # "ok"
    BY <1>10, <2>2 DEF ExitLast, Answer, Steps, Ended
  <2> QED BY <2>1, <2>2
<1> QED BY <1>1, <1>2, <1>3, <1>4, <1>5, <1>6, <1>7, <1>8, <1>9, <1>10 DEF Work

\* A crash forgets only the rows of the requests it robs.
LEMMA CrashForgets ==
  ASSUME TypeOK, Crash, NEW r \in Requests
  PROVE  /\ pc'[r] = IF pc[r] \in Ended THEN pc[r] ELSE "killed"
         /\ outcome'[r] = outcome[r] /\ stable' = stable /\ dirty' = {}
         /\ robbed \subseteq robbed' /\ shared' = shared
         /\ \A part \in Parts : r \notin robbed' => <<r, part>> \notin dirty
BY DEF TypeOK, Crash

LEMMA AckStep == AckInv /\ [Next]_vars => AckInv'
<1> SUFFICES ASSUME AckInv, [Next]_vars PROVE AckInv'
  OBVIOUS
<1>1. BoundaryInv' /\ TypeOK
  BY BoundaryStep DEF AckInv, BoundaryInv
<1>2. ASSUME NEW r \in Requests PROVE AckOf(r)'
  <2>1. AckOf(r)
    BY DEF AckInv
  <2>2. ASSUME NEW x \in Requests, Work(x) PROVE AckOf(r)'
    BY <1>1, <2>1, <2>2, AckOwn, OthersElsewhere, AckElsewhere
  <2>3. ASSUME NEW q \in Seals, Seal(q) \/ SealRefused(q) PROVE AckOf(r)'
    BY <1>1, <2>1, <2>3, SealsElsewhere, AckElsewhere
  <2>4. CASE Crash
    BY <1>1, <2>1, <2>4, CrashForgets DEF AckOf, Has, Parts, Ended
  <2>5. CASE UNCHANGED vars
    BY <2>1, <2>5 DEF vars, store, AckOf, Has
  <2> QED BY <2>2, <2>3, <2>4, <2>5 DEF Next
<1> QED BY <1>1, <1>2 DEF AckInv

(* In every reachable state, each acknowledged request that nobody robbed has *)
(* its rows in the archive or in the transaction still open: what makes the   *)
(* theorem after this one inductive.                                          *)
THEOREM AckInvariant == Spec => []AckInv
<1>1. Init => AckInv
  BY BoundaryInit DEF AckInv, AckOf, Init
<1> QED BY <1>1, AckStep, PTL DEF Spec

\* SqliteUnitOfWork loses an acknowledged write only to another request's
\* rollback, or to a crash while the write sat in a transaction others held.
THEOREM AcknowledgedIsKept == Spec => []LostOnlyToOthers
<1>1. AckInv => LostOnlyToOthers
  <2> SUFFICES ASSUME AckInv, Idle,
                      NEW r \in Requests, pc[r] = "ok", r \notin robbed
               PROVE  Rows(r) \subseteq stable
    BY DEF LostOnlyToOthers
  <2>1. dirty = {}
    BY DEF AckInv, BoundaryInv, OpenIsHeld, DirtyIsOpen, Idle, Inside, Holding
  <2>2. Has(r, "first") /\ Has(r, "second")
    BY DEF AckInv, AckOf
  <2> QED BY <2>1, <2>2 DEF Has, Rows, Parts
<1> QED BY <1>1, AckInvariant, PTL

---------------------------------------------------------------------------
(* A request that meets nobody.                                            *)

\* A request that will be answered with a failure, imports aside.
Failing(r) == /\ r \notin Imports
              /\ \/ pc[r] \in {"exit", "exit last"} /\ outcome[r] = "err"
                 \/ pc[r] = "failed"

\* One that wrote what its own transaction can still take back.
Undoable(r) == \/ pc[r] \in {"count", "first", "second", "rollback"}
               \/ pc[r] \in {"exit", "exit last"} /\ outcome[r] = "exception"

AloneOf(r) ==
  /\ pc[r] \in {"start", "begin", "count", "first"} => \A part \in Parts : ~ Has(r, part)
  /\ r \notin shared =>
       /\ pc[r] \in Inside => Others(r) = {}
       /\ Undoable(r) => open /\ \A part \in Parts : <<r, part>> \notin stable
       /\ Failing(r) => \A part \in Parts : ~ Has(r, part)
       /\ pc[r] \in Ended => \A part \in Parts : <<r, part>> \notin dirty

AloneInv == AckInv /\ \A r \in Requests : AloneOf(r)

\* While r is alone inside, the counter counts r and nobody else.
LEMMA AloneDepth ==
  ASSUME BoundaryInv, NEW r \in Requests, Others(r) = {}
  PROVE  depth = IF pc[r] \in Counted THEN 1 ELSE 0
<1>1. CountedNow = IF pc[r] \in Counted THEN {r} ELSE {}
  BY DEF Others, CountedNow, Inside
<1>2. Cardinality({r}) = 1
  <2>1. Cardinality({} \cup {r}) = Cardinality({}) + 1
    BY FS_EmptySet, FS_AddElement
  <2> QED BY <2>1, FS_EmptySet
<1> QED BY <1>1, <1>2, FS_EmptySet DEF BoundaryInv, DepthCounts

\* Nobody else can act inside while r is alone there: they would have to enter.
LEMMA AloneStays ==
  ASSUME TypeOK, NEW r \in Requests, pc[r] \in Inside, Others(r) = {},
         NEW x \in Requests \ {r}, Work(x)
  PROVE  r \in shared'
<1>1. pc[x] \notin Inside
  BY DEF Others
<1>2. Enter(x)
  BY <1>1 DEF Work, BeginWork, CountIn, Write, WriteErr, WriteRaises, RollBack, Commit,
              CommitNow, Exit, ExitLast, At, Parts, Inside, Counted
<1>3. r \in Others(x)
  BY DEF Others
<1> QED BY <1>2, <1>3 DEF Enter

\* What others do leaves a lonely request as it was, or no longer alone.
LEMMA AloneOthers ==
  ASSUME TypeOK, NEW r \in Requests, AloneOf(r), NEW x \in Requests \ {r}, Work(x)
  PROVE  AloneOf(r)'
<1>1. Elsewhere(r)
  BY OthersElsewhere
<1>2. CASE pc[r] \in Inside
  <2>1. r \in shared'
    BY <1>1, <1>2, AloneStays DEF AloneOf, Elsewhere
  <2> QED BY <1>1, <2>1 DEF AloneOf, Elsewhere, StoreElsewhere
<1>3. CASE pc[r] \notin Inside
  BY <1>1, <1>3 DEF AloneOf, Elsewhere, StoreElsewhere, Undoable, Failing, Inside, Counted
<1> QED BY <1>2, <1>3

LEMMA AloneSeals ==
  ASSUME TypeOK, NEW r \in Requests, AloneOf(r), NEW q \in Seals, Seal(q) \/ SealRefused(q)
  PROVE  AloneOf(r)'
<1>1. Elsewhere(r)
  BY SealsElsewhere
<1>2. CASE pc[r] \notin Inside
  BY <1>1, <1>2 DEF AloneOf, Elsewhere, StoreElsewhere, Undoable, Failing, Inside, Counted
<1>3. CASE pc[r] \in Inside /\ SealRefused(q)
  <2>1. r \in shared'
    BY <1>3, RequestsAssumption DEF RequestsAssumption, SealRefused, Others
  <2> QED BY <1>1, <2>1 DEF AloneOf, Elsewhere, StoreElsewhere
<1>4. CASE pc[r] \in Inside /\ Seal(q)
  <2>1. \A x \in Requests : pc'[x] = pc[x]
    BY <1>4, CountedIgnoresSeals DEF Seal, Steps, Ended
  <2>2. Others(r)' = Others(r)
    BY <2>1 DEF Others
  <2>3. open' = open /\ shared' = shared /\ dirty' = dirty
    BY <1>4 DEF Seal
  <2>4. \A part \in Parts : <<r, part>> \in stable' => <<r, part>> \in stable
    BY <1>4, RequestsAssumption DEF RequestsAssumption, Seal, Rows
  <2> QED BY <1>1, <2>2, <2>3, <2>4
          DEF AloneOf, Elsewhere, StoreElsewhere, Undoable, Failing, Has
<1> QED BY <1>2, <1>3, <1>4

\* What r does itself, alone or not.
LEMMA AloneOwn ==
  ASSUME BoundaryInv, NEW r \in Requests, AckOf(r), AloneOf(r), Work(r)
  PROVE  AloneOf(r)'
<1>1. TypeOK /\ DirtyIsOpen
  BY DEF BoundaryInv
<1>2. \A x \in Requests \ {r} : pc'[x] = pc[x]
  BY <1>1, WorkGoes, PcMoves
<1>3. Others(r)' = Others(r)
  BY <1>2 DEF Others
<1>4. CASE Enter(r)
  <2>1. pc[r] = "start" /\ pc'[r] \in {"begin", "count"} /\ UNCHANGED store
    BY <1>1, <1>4 DEF Enter, At, Goes, TypeOK
  <2>2. r \notin shared' => Others(r) = {}
    BY <1>4 DEF Enter
  <2>3. r \notin shared' => pc'[r] = "begin"
    BY <1>1, <1>4, <2>1, <2>2, AloneDepth DEF Enter, Goes, TypeOK, Counted
  <2> QED BY <1>3, <2>1, <2>2, <2>3
          DEF AloneOf, Undoable, Failing, Has, store, Ended
<1>5. ASSUME ~ Enter(r) PROVE shared' = shared /\ pc[r] \in Inside
  BY <1>5 DEF Work, BeginWork, CountIn, Write, WriteErr, WriteRaises, RollBack, Commit,
              CommitNow, Exit, ExitLast, At, Parts, Inside, Counted
<1>5a. Others(r) = {} /\ pc[r] = "commit" => depth = 1
  BY AloneDepth DEF Counted
<1> USE <1>1, <1>3, <1>5 DEF AloneOf, Undoable, Failing, Has, store, Ended, At, Goes, TypeOK
<1>6. CASE BeginWork(r) /\ ~ Enter(r)
  BY <1>6 DEF BeginWork, AfterBeginFails
<1>7. CASE CountIn(r) /\ ~ Enter(r)
  BY <1>7 DEF CountIn
<1>8. CASE ~ Enter(r) /\ \E part \in Parts : Write(r, part)
  <2>1. CASE Write(r, "first")
    <3>1. pc[r] = "first" /\ pc'[r] = "second"
      BY <2>1 DEF Write
    <3>2. r \notin shared => open' /\ stable' = stable
      BY <2>1, <3>1 DEF Write, Written
    <3> QED BY <1>8, <3>1, <3>2 DEF Inside
  <2>2. CASE Write(r, "second")
    BY <1>8, <2>2 DEF Write
  <2> QED BY <1>8, <2>1, <2>2 DEF Parts
<1>9. CASE ~ Enter(r) /\ \E part \in Parts : WriteErr(r, part)
  <2>1. PICK part \in Parts : WriteErr(r, part)
    BY <1>9
  <2>2. pc[r] \in {"first", "second"} /\ UNCHANGED store
    BY <2>1 DEF WriteErr, Parts
  <2>3. \/ pc'[r] = "exit" /\ outcome'[r] = "err" /\ r \in Imports
        \/ pc'[r] = "rollback"
    BY <2>1 DEF WriteErr, AfterErr
  <2> QED BY <1>9, <2>2, <2>3
<1>10. CASE ~ Enter(r) /\ \E part \in Parts : WriteRaises(r, part)
  <2>1. pc[r] \in {"first", "second"} /\ UNCHANGED store
    BY <1>10 DEF WriteRaises, Parts
  <2>2. pc'[r] = "exit" /\ outcome'[r] = "exception"
    BY <1>10 DEF WriteRaises
  <2> QED BY <1>10, <2>1, <2>2
<1>11. CASE ~ Enter(r) /\ RollBack(r)
  <2>1. pc[r] = "rollback" /\ pc'[r] = "exit" /\ outcome'[r] = "err"
    BY <1>11 DEF RollBack, AckOf
  <2>2. r \notin shared => stable' = stable /\ dirty' = {}
    BY <1>11, <2>1 DEF RollBack, UndoneBy
  <2> QED BY <1>11, <2>1, <2>2
<1>12. CASE ~ Enter(r) /\ Commit(r)
  <2>1. r \notin shared => pc'[r] = "commit now"
    <3>1. pc[r] = "commit"
      BY <1>12 DEF Commit
    <3>2. r \notin shared => Others(r) = {}
      BY <1>12, <3>1 DEF Inside, Counted
    <3>3. ASSUME r \notin shared PROVE depth <= 1
      BY <1>5a, <3>1, <3>2, <3>3
    <3>4. depth <= 1 => Goes(r, "commit now")
      BY <1>12 DEF Commit
    <3> QED BY <3>3, <3>4
  <2>2. pc[r] = "commit" /\ pc'[r] \in {"commit now", "exit"}
    BY <1>12 DEF Commit
  <2>3. outcome[r] = "ok" /\ outcome' = outcome
    BY <1>12, <2>2 DEF Commit, AckOf
  <2> QED BY <1>12, <2>1, <2>2, <2>3
<1>13. CASE ~ Enter(r) /\ CommitNow(r)
  <2>1. pc'[r] = "exit" /\ outcome'[r] = "ok"
    BY <1>13 DEF CommitNow, AckOf
  <2> QED BY <1>13, <2>1
<1>14. CASE ~ Enter(r) /\ Exit(r)
  <2>1. pc[r] = "exit" /\ UNCHANGED <<store, outcome>>
    BY <1>14 DEF Exit
  <2>2. r \notin shared => pc'[r] = "exit last"
    BY <1>14, <2>1, AloneDepth DEF Exit, AfterExit, Inside, Counted
  <2>3. pc'[r] \in {"exit last", "ok", "failed"}
    BY <1>14 DEF Exit, AfterExit, Answer
  <2> QED BY <1>14, <2>1, <2>2, <2>3
<1>15. CASE ~ Enter(r) /\ ExitLast(r)
  <2>1. pc[r] = "exit last" /\ pc'[r] = Answer(r) /\ outcome' = outcome
    BY <1>15 DEF ExitLast
  <2>2. dirty' = {}
    BY <1>15 DEF ExitLast, Committed, UndoneBy, DirtyIsOpen
  <2>3. CASE outcome[r] = "ok"
    BY <1>15, <2>1, <2>2, <2>3 DEF Answer, Inside
  <2>4. CASE outcome[r] = "err"
    <3>1. stable' \subseteq stable \cup dirty
      BY <1>15 DEF ExitLast, Committed, UndoneBy
    <3> QED BY <1>15, <2>1, <2>2, <2>4, <3>1 DEF Answer, Inside
  <2>5. CASE outcome[r] = "exception"
    <3>1. stable' = stable
      BY <1>15, <2>5 DEF ExitLast, LastCommits, UndoneBy
    <3> QED BY <1>15, <2>1, <2>2, <2>5, <3>1 DEF Answer, Inside
  <2> QED BY <2>3, <2>4, <2>5
<1> QED BY <1>4, <1>6, <1>7, <1>8, <1>9, <1>10, <1>11, <1>12, <1>13, <1>14, <1>15 DEF Work

LEMMA AloneStep == AloneInv /\ [Next]_vars => AloneInv'
<1> SUFFICES ASSUME AloneInv, [Next]_vars PROVE AloneInv'
  OBVIOUS
<1>1. AckInv' /\ BoundaryInv /\ TypeOK
  BY AckStep DEF AloneInv, AckInv, BoundaryInv
<1>2. ASSUME NEW r \in Requests PROVE AloneOf(r)'
  <2>1. AloneOf(r) /\ AckOf(r)
    BY DEF AloneInv, AckInv
  <2>2. ASSUME NEW x \in Requests, Work(x) PROVE AloneOf(r)'
    BY <1>1, <2>1, <2>2, AloneOwn, AloneOthers
  <2>3. ASSUME NEW q \in Seals, Seal(q) \/ SealRefused(q) PROVE AloneOf(r)'
    BY <1>1, <2>1, <2>3, AloneSeals
  <2>4. CASE Crash
    <3>1. pc'[r] \in Ended /\ (pc[r] \notin Ended => pc'[r] = "killed")
      BY <1>1, <2>4, CrashForgets DEF Ended
    <3> QED BY <1>1, <2>1, <2>4, <3>1, CrashForgets
            DEF AloneOf, Undoable, Failing, Has, Ended, Inside, Counted
  <2>5. CASE UNCHANGED vars
    BY <2>1, <2>5 DEF vars, store, AloneOf, Undoable, Failing, Has, Others
  <2> QED BY <2>2, <2>3, <2>4, <2>5 DEF Next
<1> QED BY <1>1, <1>2 DEF AloneInv

\* Alone, SqliteUnitOfWork is the atomic boundary its docstring describes: every
\* row of the request or none, whichever of its writes fails and however.
THEOREM AtomicWhenAlone == Spec => []AloneIsAtomic
<1>1. Init => AloneInv
  BY BoundaryInit DEF AloneInv, AloneOf, AckInv, AckOf, Init, Has, Undoable, Failing,
                      Inside, Counted, Ended
<1>2. AloneInv => AloneIsAtomic
  <2> SUFFICES ASSUME AloneInv, NEW r \in Requests \ (shared \cup Imports)
               PROVE  /\ pc[r] = "ok" /\ r \notin robbed => Rows(r) \subseteq stable
                      /\ pc[r] = "failed" => Rows(r) \cap (stable \cup dirty) = {}
    BY DEF AloneIsAtomic
  <2>1. AloneOf(r) /\ AckOf(r)
    BY DEF AloneInv, AckInv
  <2>2. ASSUME pc[r] = "ok", r \notin robbed PROVE Rows(r) \subseteq stable
    <3>1. Has(r, "first") /\ Has(r, "second")
      BY <2>1, <2>2 DEF AckOf
    <3>2. \A part \in Parts : <<r, part>> \notin dirty
      BY <2>1, <2>2 DEF AloneOf, Ended
    <3> QED BY <3>1, <3>2 DEF Has, Rows, Parts
  <2>3. ASSUME pc[r] = "failed" PROVE Rows(r) \cap (stable \cup dirty) = {}
    BY <2>1, <2>3 DEF AloneOf, Failing, Has, Rows
  <2> QED BY <2>2, <2>3
<1> QED BY <1>1, <1>2, AloneStep, PTL DEF Spec

---------------------------------------------------------------------------
(* What the Return Engine's arithmetic guarantees, for any Sparks, traits, *)
(* days, cap and horizon.                                                  *)

\* A floor holds, and a quotient of naturals lies between zero and its dividend.
LEMMA Floored == ASSUME NEW n \in Int, NEW f \in Int
                 PROVE AtLeast(n, f) \in Int /\ AtLeast(n, f) >= f /\ AtLeast(n, f) >= n
                       /\ (AtLeast(n, f) = n \/ AtLeast(n, f) = f)
BY DEF AtLeast

LEMMA Quotient == ASSUME NEW a \in Nat, NEW b \in Nat \ {0}
                  PROVE a \div b \in Nat /\ a \div b <= a
BY SMT

\* What matures never takes anything away (ReturnEngine._maturation).
LEMMA MaturationAdds == ASSUME NEW n \in Int
                        PROVE Maturation(n) \in Nat /\ Maturation(n) <= 2700
<1>1. Horizon \in Nat \ {0} BY ScoringAssumption
<1>2. CASE n >= Horizon BY <1>2 DEF Maturation
<1>3. CASE n < Horizon
  <2> DEFINE m == AtLeast(n, 0)
  <2>1. m \in Nat /\ m <= Horizon BY <1>1, <1>3 DEF AtLeast
  <2>2. 2700 * m \in Nat BY <2>1
  <2>3. (2700 * m) \div Horizon \in Nat BY <1>1, <2>2, Quotient
  <2>4. (2700 * m) \div Horizon <= 2700 BY <1>1, <2>1, SMTT(60)
  <2> QED BY <1>1, <1>3, <2>3, <2>4 DEF Maturation
<1> QED BY <1>1, <1>2, <1>3

---------------------------------------------------------------------------
(* Types                                                                   *)

\* No transition leaves the shape of a row.
LEMMA RowsStayRows ==
  ASSUME NEW row \in Rules!Row, NEW d \in Nat
  PROVE /\ Rules!Suggested(row, d) \in Rules!Row /\ Rules!Snoozed(row, d) \in Rules!Row
        /\ Rules!Planned(row) \in Rules!Row /\ Rules!Archived(row) \in Rules!Row
<1> USE DEF Rules!Row, Rules!Status, Rules!Days, Rules!NoDay
<1>1. Rules!Suggested(row, d) \in Rules!Row BY DEF Rules!Suggested
<1>2. Rules!Snoozed(row, d) \in Rules!Row
  <2>1. SnoozeCooldown \in Nat BY ScoringAssumption
  <2>2. d + SnoozeCooldown \in Nat BY <2>1
  <2> QED BY <2>2 DEF Rules!Snoozed
<1>3. Rules!Planned(row) \in Rules!Row BY DEF Rules!Planned
<1>4. Rules!Archived(row) \in Rules!Row BY DEF Rules!Archived
<1> QED BY <1>1, <1>2, <1>3, <1>4

\* Every row the screen leaves behind is a row (ReturnUseCase, the answers).
THEOREM ScoringTypeCorrect == ScoringSpec => []ScoringTypeOK
<1>1. ScoringInit => ScoringTypeOK
  <2> SUFFICES ASSUME ScoringInit PROVE ScoringTypeOK
    OBVIOUS
  <2>1. day \in Dates /\ day \in Nat BY ScoringAssumption DEF ScoringInit
  <2>2. \A said \in SUBSET {"why"} : Rules!NewRow(day, "WAITING", said) \in Rules!Row
    BY <2>1 DEF Rules!NewRow, Rules!Row, Rules!Status, Rules!Days, Rules!Statements, Rules!NoDay
  <2>3. spark \in [Sparks -> Rules!Row] BY <2>2 DEF ScoringInit
  <2>4. looks \in 0 .. MaxLooks BY ScoringAssumption DEF ScoringInit
  <2> QED BY <2>1, <2>3, <2>4 DEF ScoringInit, ScoringTypeOK
<1>2. ScoringTypeOK /\ [ScoringNext]_scoringVars => ScoringTypeOK'
  <2> SUFFICES ASSUME ScoringTypeOK, [ScoringNext]_scoringVars PROVE ScoringTypeOK'
    OBVIOUS
  <2>1. day \in Nat BY ScoringAssumption DEF ScoringTypeOK
  <2>2. CASE Look
    <3>1. \A s \in Sparks : Rules!Suggested(spark[s], day) \in Rules!Row
      BY <2>1, RowsStayRows DEF ScoringTypeOK
    <3>2. Selected \subseteq Sparks BY DEF Selected, Candidates
    <3>3. spark' \in [Sparks -> Rules!Row] BY <2>2, <3>1 DEF Look, ScoringTypeOK
    <3>4. times' \in [Sparks -> Nat] BY <2>2 DEF Look, ScoringTypeOK
    <3>5. looks' \in 0 .. MaxLooks BY <2>2, ScoringAssumption DEF Look, ScoringTypeOK
    <3> QED BY <2>2, <3>2, <3>3, <3>4, <3>5 DEF Look, ScoringTypeOK
  <2>3. ASSUME NEW s \in Sparks, NEW row \in Rules!Row, AnswerOffer(s, row) PROVE ScoringTypeOK'
    BY <2>3 DEF AnswerOffer, ScoringTypeOK
  <2>4. \A s \in Sparks : spark[s] \in Rules!Row BY DEF ScoringTypeOK
  <2>5. ASSUME NEW s \in Sparks, MaybeLater(s) PROVE ScoringTypeOK'
    BY <2>1, <2>3, <2>4, <2>5, RowsStayRows DEF MaybeLater
  <2>6. ASSUME NEW s \in Sparks, LetsDoIt(s) PROVE ScoringTypeOK'
    BY <2>1, <2>3, <2>4, <2>6, RowsStayRows DEF LetsDoIt
  <2>7. ASSUME NEW s \in Sparks, NotRelevantAnymore(s) PROVE ScoringTypeOK'
    BY <2>1, <2>3, <2>4, <2>7, RowsStayRows DEF NotRelevantAnymore
  <2>8. ASSUME NEW d \in Dates, TimePasses(d) PROVE ScoringTypeOK'
    BY <2>8 DEF TimePasses, ScoringTypeOK
  <2>9. CASE UNCHANGED scoringVars BY <2>9 DEF scoringVars, ScoringTypeOK
  <2> QED BY <2>2, <2>5, <2>6, <2>7, <2>8, <2>9 DEF ScoringNext
<1> QED BY <1>1, <1>2, PTL DEF ScoringSpec

---------------------------------------------------------------------------
(* Scores                                                                  *)

\* The years a Spark is for add nothing less than nothing, whatever the age.
LEMMA AgeFitAdds ==
  ASSUME NEW w \in {NoWindow} \cup Windows, NEW age \in Nat
  PROVE AgeFit(w, age) \in Nat /\ AgeFit(w, age) <= 4500
<1>1. CASE w = NoWindow BY <1>1 DEF AgeFit
<1>2. CASE w # NoWindow
  <2>1. w[1] \in Nat /\ w[2] \in Nat BY <1>2 DEF Windows
  <2>2. CASE InWindow(w, age) BY <1>2, <2>2 DEF AgeFit
  <2>3. CASE ~ InWindow(w, age) /\ age < w[1]
    <3> DEFINE fit == 4500 - 1575 * (w[1] - age)
    <3>1. fit \in Int /\ fit <= 4500 BY <2>1, <2>3
    <3>2. AgeFit(w, age) = AtLeast(fit, 0) BY <1>2, <2>3 DEF AgeFit
    <3> QED BY <3>1, <3>2 DEF AtLeast
  <2>4. CASE ~ InWindow(w, age) /\ ~ (age < w[1])
    <3> DEFINE fit == 2700 - 450 * (age - w[2])
    <3>1. age > w[2] BY <1>2, <2>1, <2>4 DEF InWindow
    <3>2. fit \in Int /\ fit <= 4500 BY <2>1, <3>1
    <3>3. AgeFit(w, age) = AtLeast(fit, 450) BY <1>2, <2>4 DEF AgeFit
    <3> QED BY <3>2, <3>3 DEF AtLeast
  <2> QED BY <2>2, <2>3, <2>4
<1> QED BY <1>1, <1>2

LEMMA NoveltyAdds == ASSUME NEW n \in Nat PROVE Novelty(n) \in Nat /\ Novelty(n) <= 360
<1>1. 1 + n \in Nat \ {0} OBVIOUS
<1> QED BY <1>1, Quotient DEF Novelty

\* Each signal is a number that adds between nothing and its weight.
LEMMA SignalsBounded ==
  ASSUME ScoringTypeOK, NEW s \in Sparks
  PROVE /\ AgeFit(Traits[s].window, AgeOn(day)) \in Nat /\ AgeFit(Traits[s].window, AgeOn(day)) <= 4500
        /\ Maturation(day - spark[s].captured) \in Nat /\ Maturation(day - spark[s].captured) <= 2700
        /\ OccasionFit(Traits[s].actionable, day) \in Nat /\ Actionability(Traits[s].actionable) \in Nat
        /\ OccasionFit(Traits[s].actionable, day) + Actionability(Traits[s].actionable) >= 1260
        /\ OccasionFit(Traits[s].actionable, day) + Actionability(Traits[s].actionable) <= 2700
        /\ SeasonFit(Traits[s].season, day) \in Nat
        /\ SeasonFit(Traits[s].season, day) >= 540 /\ SeasonFit(Traits[s].season, day) <= 2700
        /\ WhyPresent(spark[s].said) \in Nat /\ WhyPresent(spark[s].said) <= 540
        /\ Novelty(times[s]) \in Nat /\ Novelty(times[s]) <= 360
<1>1. day \in Nat /\ spark[s].captured \in Nat /\ times[s] \in Nat
  BY ScoringAssumption DEF ScoringTypeOK, Rules!Row
<1>2. AgeOn(day) \in Nat BY <1>1, Quotient DEF AgeOn
<1>3. AgeFit(Traits[s].window, AgeOn(day)) \in Nat /\ AgeFit(Traits[s].window, AgeOn(day)) <= 4500
  <2>1. Traits[s].window \in {NoWindow} \cup Windows BY ScoringAssumption
  <2> DEFINE w == Traits[s].window   age == AgeOn(day)
  <2>2. w \in {NoWindow} \cup Windows /\ age \in Nat BY <1>2, <2>1
  <2> HIDE DEF w, age
  <2>3. AgeFit(w, age) \in Nat /\ AgeFit(w, age) <= 4500 BY ONLY <2>2, AgeFitAdds, SMT
  <2> QED BY <2>3 DEF w, age
<1>4. Maturation(day - spark[s].captured) \in Nat /\ Maturation(day - spark[s].captured) <= 2700
  BY <1>1, MaturationAdds
<1>5. /\ OccasionFit(Traits[s].actionable, day) \in Nat /\ Actionability(Traits[s].actionable) \in Nat
      /\ OccasionFit(Traits[s].actionable, day) + Actionability(Traits[s].actionable) >= 1260
      /\ OccasionFit(Traits[s].actionable, day) + Actionability(Traits[s].actionable) <= 2700
  BY DEF OccasionFit, Actionability
<1>6. /\ SeasonFit(Traits[s].season, day) \in Nat
      /\ SeasonFit(Traits[s].season, day) >= 540 /\ SeasonFit(Traits[s].season, day) <= 2700
  BY DEF SeasonFit
<1>7. WhyPresent(spark[s].said) \in Nat /\ WhyPresent(spark[s].said) <= 540 BY DEF WhyPresent
<1>8. Novelty(times[s]) \in Nat /\ Novelty(times[s]) <= 360 BY <1>1, NoveltyAdds
<1> QED BY <1>3, <1>4, <1>5, <1>6, <1>7, <1>8

\* The weights add up: a total never leaves 0 .. 1.0, so the clamp in
\* ReturnEngine.score never changes one.
THEOREM ScoreIsAShare ==
  ASSUME ScoringTypeOK, NEW s \in Sparks PROVE Score(s) \in Nat /\ Score(s) <= Full
BY SignalsBounded DEF Score, ScoreOf, NotAsked, Full

\* A Spark the child has grown into clears any threshold up to 0.475, in every season, on
\* every day of the week, and however often it was offered (ReturnEngine.score).
THEOREM GrownIntoClears ==
  ASSUME ScoringTypeOK, Threshold <= 8550, NEW s \in Sparks, InWindow(Traits[s].window, AgeOn(day))
  PROVE Clears(s)
<1>1. AgeFit(Traits[s].window, AgeOn(day)) = 4500 BY DEF AgeFit, InWindow
<1>2. Score(s) >= 8550 BY <1>1, SignalsBounded DEF Score, ScoreOf, NotAsked
<1>3. Score(s) \in Nat BY ScoreIsAShare
<1>4. Threshold \in Int BY ScoringAssumption DEF Full
<1> QED BY <1>2, <1>3, <1>4 DEF Clears

---------------------------------------------------------------------------
(* Selection                                                               *)

\* ReadyIsOffered: what the child has grown into is passed over only for MaxSuggestions
\* others that score no less (ReturnEngine.select), under any threshold up to 0.475.
THEOREM ReadyComesBack == ASSUME Threshold <= 8550 PROVE ScoringSpec => ReadyIsOffered
<1>1. ScoringTypeOK /\ [ScoringNext]_scoringVars => LookBringsReady
  <2> SUFFICES ASSUME ScoringTypeOK, [ScoringNext]_scoringVars, looks' # looks,
                      NEW s \in Sparks, Ready(s), s \notin offered'
               PROVE Cardinality(NoWorse(s)) >= MaxSuggestions
    BY DEF LookBringsReady
  <2>1. Look
    BY DEF ScoringNext, scoringVars, MaybeLater, LetsDoIt, NotRelevantAnymore, AnswerOffer, TimePasses
  <2>2. s \in Candidates BY GrownIntoClears DEF Ready, Candidates
  <2> DEFINE Ahead == {t \in Candidates : Before(t, s)}
  <2>3. ~ (Cardinality(Ahead) < MaxSuggestions) BY <2>1, <2>2 DEF Look, Selected
  <2>4. Ahead \subseteq NoWorse(s)
    <3> SUFFICES ASSUME NEW t \in Candidates, Before(t, s) PROVE t \in NoWorse(s)
      OBVIOUS
    <3>1. t \in Sparks /\ Rules!IsEligible(spark[t], day) BY DEF Candidates
    <3>2. Score(t) \in Int /\ Score(s) \in Int BY <3>1, ScoreIsAShare
    <3>3. s \in Nat /\ t \in Nat BY <3>1, ScoringAssumption
    <3> QED BY <3>1, <3>2, <3>3 DEF Before, NoWorse
  <2>5. IsFiniteSet(NoWorse(s)) BY ScoringAssumption, FS_Subset DEF NoWorse
  <2>6. IsFiniteSet(Ahead) /\ Cardinality(Ahead) <= Cardinality(NoWorse(s)) BY <2>4, <2>5, FS_Subset
  <2>7. Cardinality(Ahead) \in Nat /\ Cardinality(NoWorse(s)) \in Nat BY <2>5, <2>6, FS_CardinalityType
  <2> HIDE DEF Ahead
  <2> QED BY <2>3, <2>6, <2>7, ScoringAssumption
<1> QED BY <1>1, ScoringTypeCorrect, PTL DEF ScoringSpec, ReadyIsOffered

---------------------------------------------------------------------------
(* What memory alone promises, for any people, secrets, calls and days.    *)
(*                                                                         *)
(* An invitation is inside one call, was used and is forgotten, or was     *)
(* accepted twice at once; what was told is settled, about to be, or lost  *)
(* with the process; a call that sends knows the preference, or is on      *)
(* record as one over whose reading another wrote.                         *)

Call == [step : {"save", "forget"}, token : Tokens, person : People]
Message == [step : {"check", "send"}, last : Nat \cup {Never}, at : Nat \cup {Never}, behind : BOOLEAN]
DaysTyped == /\ dayNo \in Nat /\ lastSent \in Nat \cup {Never} /\ sentToday \in Nat
             /\ sending \in [Callers -> Message \cup {NotCalled}]
InvitesTyped ==
  /\ invited \in [Tokens -> Nat \cup {Never}] /\ cameBy \in [People -> Tokens \cup {Founding, NotAMember}]
  /\ accepting \in [Callers -> Call \cup {NotCalled}]

\* An invitation that was not accepted twice at once: one call is inside it, nobody came by it
\* before that call saves, and whoever did left it forgotten, or about to be.
IsInside(c, t) == accepting[c] # NotCalled /\ accepting[c].token = t
OneCall == \A t \in Tokens \ overlapped : \A c, d \in Callers : IsInside(c, t) /\ IsInside(d, t) => c = d
NobodyYet == \A t \in Tokens \ overlapped : \A c \in Callers :
  IsInside(c, t) /\ accepting[c].step = "save" => \A p \in People : cameBy[p] # t
UsedUp == \A t \in Tokens \ overlapped : \A p \in People : cameBy[p] = t =>
  invited[t] = Never \/ \E c \in Callers : IsInside(c, t) /\ accepting[c].step = "forget"
OneCame == \A t \in Tokens \ overlapped : \A p, q \in People : cameBy[p] = t /\ cameBy[q] = t => p = q

\* What was told is settled, about to be, or was lost.
NoZero == 0 \notin settled /\ 0 \notin replied
Told == \A age \in replied : age \in settled \/ age \in lost \/ age = noting
AskedIsOpen == asked \notin settled

\* A call over whose reading nobody wrote knows the preference; one that passed the ceiling passed
\* it by what it read; so a message sent today is remembered, unless forgiven or crossed.
KnowsPreference == \A c \in Callers : Sending(c) /\ ~ sending[c].behind => ~ silenced /\ sending[c].last = lastSent
PassedCeiling == \A c \in Callers : Sending(c) /\ sending[c].step = "send" =>
  /\ sending[c].at \in 0 .. dayNo
  /\ sending[c].last = Never \/ sending[c].at - sending[c].last >= 1
FirstIsKnown == ~ (forgiven \/ crossed) => sentToday <= 1 /\ (sentToday = 1 => lastSent = dayNo)
HushIsKept == hushed => silenced \/ undone
SentIsKnown == KnowsPreference /\ PassedCeiling /\ FirstIsKnown /\ HushIsKept

WhyIsSaid == compiled \subseteq why
CapsulesHold == \A c \in capsules : c[3] # {} /\ (c[2] = "THE_UNFINISHED" => c[3] \subseteq why)

PromiseInv == /\ DaysTyped /\ InvitesTyped /\ OneCall /\ NobodyYet /\ UsedUp /\ OneCame
        /\ NoZero /\ Told /\ AskedIsOpen /\ SentIsKnown /\ WhyIsSaid /\ CapsulesHold

LEMMA NotACall == NotCalled \notin Call
BY DEF NotCalled, Call

\* What was listed had its why, and a why stays said.
LEMMA SealedHasWhy == ASSUME PromiseInv, SealTheUnfinished PROVE CapsulesHold'
<1>1. /\ compiled # {} /\ compiled \subseteq why /\ why' = why
      /\ capsules' = capsules \cup {<<sealings', "THE_UNFINISHED", compiled>>}
  BY DEF PromiseInv, WhyIsSaid, SealTheUnfinished, SealCapsule
<1>2. ASSUME NEW c \in capsules' PROVE c[3] # {} /\ (c[2] = "THE_UNFINISHED" => c[3] \subseteq why)
  <2>1. CASE c \in capsules
    BY <2>1 DEF PromiseInv, CapsulesHold
  <2>2. CASE c = <<sealings', "THE_UNFINISHED", compiled>>
    <3>1. c[3] = compiled
      BY <2>2
    <3> QED BY <1>1, <3>1
  <2> QED BY <1>1, <1>2, <2>1, <2>2
<1> QED BY <1>1, <1>2 DEF CapsulesHold

\* A new secret: nobody came by it, and no call is inside it.
LEMMA CreateInvitationKeepsPromises ==
  ASSUME PromiseInv, NEW t \in Tokens, NEW inviter \in People, CreateInvitation(t, inviter)
  PROVE  PromiseInv'
<1> USE DEF PromiseInv, CreateInvitation, askVars, capsuleVars, quietVars
<1>1. DaysTyped'
  BY DEF DaysTyped
<1>2. OneCall' /\ NobodyYet' /\ UsedUp' /\ OneCame' /\ NoZero' /\ Told'
  BY DEF OneCall, IsInside, NobodyYet, UsedUp, OneCame, NoZero, Told
<1>3. AskedIsOpen' /\ SentIsKnown' /\ WhyIsSaid' /\ CapsulesHold'
  BY DEF AskedIsOpen, SentIsKnown, KnowsPreference, PassedCeiling, FirstIsKnown, HushIsKept, Sending,
         WhyIsSaid, CapsulesHold
<1>4. InvitesTyped'
  BY DEF InvitesTyped, DaysTyped
<1> QED BY <1>1, <1>2, <1>3, <1>4 DEF PromiseInv

\* Whoever finds a call inside is on record.
LEMMA AcceptReadsKeepsPromises ==
  ASSUME PromiseInv, NEW c \in Callers, NEW t \in Tokens, NEW p \in People, AcceptReads(c, t, p)
  PROVE  PromiseInv'
<1> USE DEF PromiseInv, AcceptReads, askVars, capsuleVars, quietVars
<1>1. DaysTyped'
  BY DEF DaysTyped
<1>2. UsedUp' /\ OneCame' /\ NoZero' /\ Told' /\ AskedIsOpen' /\ SentIsKnown'
  BY DEF UsedUp, IsInside, OneCame, NoZero, Told, AskedIsOpen, SentIsKnown, KnowsPreference,
         PassedCeiling, FirstIsKnown, HushIsKept, Sending
<1>3. WhyIsSaid' /\ CapsulesHold'
  BY DEF WhyIsSaid, CapsulesHold
<1>4. InvitesTyped'
  BY DEF InvitesTyped, Call
<1>5. OneCall'
  BY DEF OneCall, IsInside, InUse
<1>6. NobodyYet'
  BY DEF NobodyYet, IsInside, UsedUp, InUse
<1> QED BY <1>1, <1>2, <1>3, <1>4, <1>5, <1>6 DEF PromiseInv

\* One comes by it, before it is forgotten.
LEMMA AcceptSavesKeepsPromises ==
  ASSUME PromiseInv, NEW c \in Callers, AcceptSaves(c)
  PROVE  PromiseInv'
<1> USE DEF PromiseInv, AcceptSaves, askVars, capsuleVars, quietVars
<1>1. DaysTyped'
  BY DEF DaysTyped
<1>2. OneCall' /\ NoZero' /\ Told' /\ AskedIsOpen' /\ SentIsKnown' /\ WhyIsSaid'
  BY DEF OneCall, IsInside, NoZero, Told, AskedIsOpen, SentIsKnown, KnowsPreference, PassedCeiling,
         FirstIsKnown, HushIsKept, Sending, WhyIsSaid
<1>3. CapsulesHold'
  BY DEF CapsulesHold
<1>4. InvitesTyped'
  BY DEF InvitesTyped, Call
<1>5. NobodyYet'
  BY DEF NobodyYet, IsInside, InvitesTyped, OneCall
<1>6. UsedUp'
  BY NotACall DEF UsedUp, IsInside, InvitesTyped, Call
<1>7. OneCame'
  BY DEF OneCame, NobodyYet, IsInside
<1> QED BY <1>1, <1>2, <1>3, <1>4, <1>5, <1>6, <1>7 DEF PromiseInv

\* It is forgotten when the call is done.
LEMMA AcceptForgetsKeepsPromises ==
  ASSUME PromiseInv, NEW c \in Callers, AcceptForgets(c)
  PROVE  PromiseInv'
<1> USE DEF PromiseInv, AcceptForgets, askVars, capsuleVars, quietVars
<1>1. DaysTyped'
  BY DEF DaysTyped
<1>2. OneCall' /\ NobodyYet' /\ OneCame' /\ NoZero' /\ Told' /\ AskedIsOpen'
  BY DEF OneCall, IsInside, NobodyYet, OneCame, NoZero, Told, AskedIsOpen
<1>3. SentIsKnown' /\ WhyIsSaid' /\ CapsulesHold'
  BY DEF SentIsKnown, KnowsPreference, PassedCeiling, FirstIsKnown, HushIsKept, Sending, WhyIsSaid,
         CapsulesHold
<1>4. InvitesTyped'
  BY DEF InvitesTyped, Call
<1>5. UsedUp'
  BY DEF UsedUp, IsInside, InvitesTyped
<1> QED BY <1>1, <1>2, <1>3, <1>4, <1>5 DEF PromiseInv

\* What is settled is not asked.
LEMMA CheckEligiblePromptKeepsPromises ==
  ASSUME PromiseInv, CheckEligiblePrompt
  PROVE  PromiseInv'
<1> USE DEF PromiseInv, CheckEligiblePrompt, HasBirthday, MilestoneAge, IsDue, inviteVars, capsuleVars,
            quietVars
<1>1. DaysTyped'
  BY DEF DaysTyped
<1>2. InvitesTyped'
  BY DEF InvitesTyped
<1>3. OneCall' /\ NobodyYet' /\ UsedUp' /\ OneCame' /\ NoZero' /\ Told'
  BY DEF OneCall, IsInside, NobodyYet, UsedUp, OneCame, NoZero, Told
<1>4. SentIsKnown' /\ WhyIsSaid' /\ CapsulesHold'
  BY DEF SentIsKnown, KnowsPreference, PassedCeiling, FirstIsKnown, HushIsKept, Sending, WhyIsSaid,
         CapsulesHold
<1>5. AskedIsOpen'
  BY DEF AskedIsOpen, NoZero
<1> QED BY <1>1, <1>2, <1>3, <1>4, <1>5 DEF PromiseInv

\* What was asked is settled.
LEMMA SkipForeverKeepsPromises ==
  ASSUME PromiseInv, SkipForever
  PROVE  PromiseInv'
<1> USE DEF PromiseInv, SkipForever, inviteVars, capsuleVars, quietVars
<1>1. DaysTyped'
  BY DEF DaysTyped
<1>2. InvitesTyped'
  BY DEF InvitesTyped
<1>3. OneCall' /\ NobodyYet' /\ UsedUp' /\ OneCame' /\ NoZero' /\ Told'
  BY DEF OneCall, IsInside, NobodyYet, UsedUp, OneCame, NoZero, Told
<1>4. SentIsKnown' /\ WhyIsSaid' /\ CapsulesHold'
  BY DEF SentIsKnown, KnowsPreference, PassedCeiling, FirstIsKnown, HushIsKept, Sending, WhyIsSaid,
         CapsulesHold
<1>5. AskedIsOpen'
  BY DEF AskedIsOpen, NoZero
<1> QED BY <1>1, <1>2, <1>3, <1>4, <1>5 DEF PromiseInv

\* What is told is about to be noted.
LEMMA RespondCommitsKeepsPromises ==
  ASSUME PromiseInv, RespondCommits
  PROVE  PromiseInv'
<1> USE DEF PromiseInv, RespondCommits, inviteVars, capsuleVars, quietVars
<1>1. DaysTyped'
  BY DEF DaysTyped
<1>2. InvitesTyped'
  BY DEF InvitesTyped
<1>3. OneCall' /\ NobodyYet' /\ UsedUp' /\ OneCame' /\ NoZero' /\ AskedIsOpen'
  BY DEF OneCall, IsInside, NobodyYet, UsedUp, OneCame, NoZero, AskedIsOpen
<1>4. SentIsKnown' /\ WhyIsSaid' /\ CapsulesHold'
  BY DEF SentIsKnown, KnowsPreference, PassedCeiling, FirstIsKnown, HushIsKept, Sending, WhyIsSaid,
         CapsulesHold
<1>5. Told'
  BY DEF Told, NoZero
<1> QED BY <1>1, <1>2, <1>3, <1>4, <1>5 DEF PromiseInv

\* What was told is settled.
LEMMA RespondNotesKeepsPromises ==
  ASSUME PromiseInv, RespondNotes
  PROVE  PromiseInv'
<1> USE DEF PromiseInv, RespondNotes, inviteVars, capsuleVars, quietVars
<1>1. DaysTyped'
  BY DEF DaysTyped
<1>2. InvitesTyped'
  BY DEF InvitesTyped
<1>3. OneCall' /\ NobodyYet' /\ UsedUp' /\ OneCame' /\ NoZero' /\ Told'
  BY DEF OneCall, IsInside, NobodyYet, UsedUp, OneCame, NoZero, Told
<1>4. SentIsKnown' /\ WhyIsSaid' /\ CapsulesHold'
  BY DEF SentIsKnown, KnowsPreference, PassedCeiling, FirstIsKnown, HushIsKept, Sending, WhyIsSaid,
         CapsulesHold
<1>5. AskedIsOpen'
  BY DEF AskedIsOpen, NoZero
<1> QED BY <1>1, <1>2, <1>3, <1>4, <1>5 DEF PromiseInv

\* A Spark's status is no matter.
LEMMA MovesKeepsPromises ==
  ASSUME PromiseInv, NEW w \in Wishes, NEW status \in {"lived", "archived"}, Moves(w, status)
  PROVE  PromiseInv'
<1> USE DEF PromiseInv, Moves, inviteVars, askVars, quietVars
<1>1. DaysTyped'
  BY DEF DaysTyped
<1>2. InvitesTyped'
  BY DEF InvitesTyped
<1>3. OneCall' /\ NobodyYet' /\ UsedUp' /\ OneCame' /\ NoZero' /\ Told'
  BY DEF OneCall, IsInside, NobodyYet, UsedUp, OneCame, NoZero, Told
<1>4. AskedIsOpen' /\ SentIsKnown' /\ WhyIsSaid' /\ CapsulesHold'
  BY DEF AskedIsOpen, SentIsKnown, KnowsPreference, PassedCeiling, FirstIsKnown, HushIsKept, Sending,
         WhyIsSaid, CapsulesHold
<1> QED BY <1>1, <1>2, <1>3, <1>4 DEF PromiseInv

\* A why stays said.
LEMMA SaysWhyKeepsPromises ==
  ASSUME PromiseInv, NEW w \in Wishes, SaysWhy(w)
  PROVE  PromiseInv'
<1> USE DEF PromiseInv, SaysWhy, inviteVars, askVars, quietVars
<1>1. DaysTyped'
  BY DEF DaysTyped
<1>2. InvitesTyped'
  BY DEF InvitesTyped
<1>3. OneCall' /\ NobodyYet' /\ UsedUp' /\ OneCame' /\ NoZero' /\ Told'
  BY DEF OneCall, IsInside, NobodyYet, UsedUp, OneCame, NoZero, Told
<1>4. AskedIsOpen' /\ SentIsKnown' /\ WhyIsSaid' /\ CapsulesHold'
  BY DEF AskedIsOpen, SentIsKnown, KnowsPreference, PassedCeiling, FirstIsKnown, HushIsKept, Sending,
         WhyIsSaid, CapsulesHold
<1> QED BY <1>1, <1>2, <1>3, <1>4 DEF PromiseInv

\* What is listed has its why.
LEMMA ListsUnfinishedKeepsPromises ==
  ASSUME PromiseInv, ListsUnfinished
  PROVE  PromiseInv'
<1> USE DEF PromiseInv, ListsUnfinished, Unfinished, inviteVars, askVars, quietVars, Unlived
<1>1. DaysTyped'
  BY DEF DaysTyped
<1>2. InvitesTyped'
  BY DEF InvitesTyped
<1>3. OneCall' /\ NobodyYet' /\ UsedUp' /\ OneCame' /\ NoZero' /\ Told'
  BY DEF OneCall, IsInside, NobodyYet, UsedUp, OneCame, NoZero, Told
<1>4. AskedIsOpen' /\ SentIsKnown' /\ WhyIsSaid' /\ CapsulesHold'
  BY DEF AskedIsOpen, SentIsKnown, KnowsPreference, PassedCeiling, FirstIsKnown, HushIsKept, Sending,
         WhyIsSaid, CapsulesHold
<1> QED BY <1>1, <1>2, <1>3, <1>4 DEF PromiseInv

\* What was listed is sealed.
LEMMA SealTheUnfinishedKeepsPromises ==
  ASSUME PromiseInv, SealTheUnfinished
  PROVE  PromiseInv'
<1>1. CapsulesHold'
  BY SealedHasWhy
<1> USE DEF PromiseInv, SealTheUnfinished, SealCapsule, inviteVars, askVars, quietVars
<1>2. DaysTyped'
  BY DEF DaysTyped
<1>3. InvitesTyped'
  BY DEF InvitesTyped
<1>4. OneCall' /\ NobodyYet' /\ UsedUp' /\ OneCame' /\ NoZero' /\ Told'
  BY DEF OneCall, IsInside, NobodyYet, UsedUp, OneCame, NoZero, Told
<1>5. AskedIsOpen' /\ SentIsKnown' /\ WhyIsSaid'
  BY DEF AskedIsOpen, SentIsKnown, KnowsPreference, PassedCeiling, FirstIsKnown, HushIsKept, Sending,
         WhyIsSaid
<1> QED BY <1>1, <1>2, <1>3, <1>4, <1>5 DEF PromiseInv

\* What its caller chose is sealed.
LEMMA SealAgeNKeepsPromises ==
  ASSUME PromiseInv, NEW items \in SUBSET Wishes, SealAgeN(items)
  PROVE  PromiseInv'
<1> USE DEF PromiseInv, SealAgeN, SealCapsule, inviteVars, askVars, quietVars
<1>1. DaysTyped'
  BY DEF DaysTyped
<1>2. InvitesTyped'
  BY DEF InvitesTyped
<1>3. OneCall' /\ NobodyYet' /\ UsedUp' /\ OneCame' /\ NoZero' /\ Told'
  BY DEF OneCall, IsInside, NobodyYet, UsedUp, OneCame, NoZero, Told
<1>4. AskedIsOpen' /\ SentIsKnown' /\ WhyIsSaid' /\ CapsulesHold'
  BY DEF AskedIsOpen, SentIsKnown, KnowsPreference, PassedCeiling, FirstIsKnown, HushIsKept, Sending,
         WhyIsSaid, CapsulesHold
<1> QED BY <1>1, <1>2, <1>3, <1>4 DEF PromiseInv

LEMMA NotAMessage == NotCalled \notin Message
BY DEF NotCalled, Message

\* The day is forgiven, and whoever read before is behind.
LEMMA SetPreferenceKeepsPromises ==
  ASSUME PromiseInv, NEW quiet \in BOOLEAN, SetPreference(quiet)
  PROVE  PromiseInv'
<1> USE DEF PromiseInv, SetPreference, inviteVars, askVars, capsuleVars
<1>1. DaysTyped'
  BY NotAMessage DEF DaysTyped, Outdated, Sending, Message
<1>2. InvitesTyped'
  BY DEF InvitesTyped
<1>3. OneCall' /\ NobodyYet' /\ UsedUp' /\ OneCame' /\ NoZero' /\ Told'
  BY DEF OneCall, IsInside, NobodyYet, UsedUp, OneCame, NoZero, Told
<1>4. AskedIsOpen' /\ WhyIsSaid' /\ CapsulesHold'
  BY DEF AskedIsOpen, WhyIsSaid, CapsulesHold
<1>5. SentIsKnown'
  <2>1. ASSUME NEW c \in Callers, Sending(c)'
        PROVE  /\ sending'[c].behind
               /\ sending'[c].step = sending[c].step /\ sending'[c].at = sending[c].at
               /\ sending'[c].last = sending[c].last /\ Sending(c)
    BY <2>1, NotAMessage DEF Sending, Outdated, DaysTyped, Message
  <2>2. KnowsPreference' /\ PassedCeiling'
    BY <2>1 DEF KnowsPreference, PassedCeiling, SentIsKnown
  <2>3. FirstIsKnown' /\ HushIsKept'
    BY DEF FirstIsKnown, HushIsKept
  <2> QED BY <2>2, <2>3 DEF SentIsKnown
<1> QED BY <1>1, <1>2, <1>3, <1>4, <1>5 DEF PromiseInv

\* What a call reads is what is known.
LEMMA MessageReadsKeepsPromises ==
  ASSUME PromiseInv, NEW c \in Callers, MessageReads(c)
  PROVE  PromiseInv'
<1> USE DEF PromiseInv, MessageReads, inviteVars, askVars, capsuleVars
<1>1. DaysTyped'
  BY DEF DaysTyped, Message
<1>2. InvitesTyped'
  BY DEF InvitesTyped
<1>3. OneCall' /\ NobodyYet' /\ UsedUp' /\ OneCame' /\ NoZero' /\ Told'
  BY DEF OneCall, IsInside, NobodyYet, UsedUp, OneCame, NoZero, Told
<1>4. AskedIsOpen' /\ WhyIsSaid' /\ CapsulesHold'
  BY DEF AskedIsOpen, WhyIsSaid, CapsulesHold
<1>5. SentIsKnown'
  <2>1. KnowsPreference' /\ PassedCeiling'
    BY DEF KnowsPreference, PassedCeiling, SentIsKnown, Sending, DaysTyped
  <2>2. FirstIsKnown' /\ HushIsKept'
    BY DEF FirstIsKnown, HushIsKept, SentIsKnown
  <2> QED BY <2>1, <2>2 DEF SentIsKnown
<1> QED BY <1>1, <1>2, <1>3, <1>4, <1>5 DEF PromiseInv

\* The ceiling is held against what was read.
LEMMA MessageChecksKeepsPromises ==
  ASSUME PromiseInv, NEW c \in Callers, MessageChecks(c)
  PROVE  PromiseInv'
<1> USE DEF PromiseInv, MessageChecks, inviteVars, askVars, capsuleVars
<1>1. sending[c] \in Message
  BY DEF DaysTyped, Sending
<1>2. DaysTyped'
  BY <1>1 DEF DaysTyped, Message
<1>3. InvitesTyped'
  BY DEF InvitesTyped
<1>4. OneCall' /\ NobodyYet' /\ UsedUp' /\ OneCame' /\ NoZero' /\ Told'
  BY DEF OneCall, IsInside, NobodyYet, UsedUp, OneCame, NoZero, Told
<1>5. AskedIsOpen' /\ WhyIsSaid' /\ CapsulesHold'
  BY DEF AskedIsOpen, WhyIsSaid, CapsulesHold
<1>6. SentIsKnown'
  <2>1. KnowsPreference'
    BY <1>1 DEF KnowsPreference, SentIsKnown, Sending, DaysTyped, Message
  <2>2. PassedCeiling'
    BY <1>1 DEF PassedCeiling, SentIsKnown, Sending, DaysTyped, Message
  <2>3. FirstIsKnown' /\ HushIsKept'
    BY DEF FirstIsKnown, HushIsKept, SentIsKnown
  <2> QED BY <2>1, <2>2, <2>3 DEF SentIsKnown
<1> QED BY <1>2, <1>3, <1>4, <1>5, <1>6 DEF PromiseInv

\* A call that knows the preference finds no message of today in it, and nobody asking for silence.
LEMMA MessageSendsKeepsPromises ==
  ASSUME PromiseInv, NEW c \in Callers, MessageSends(c)
  PROVE  PromiseInv'
<1> USE DEF PromiseInv, MessageSends, inviteVars, askVars, capsuleVars
<1>1. sending[c] \in Message /\ sending[c].at \in Nat /\ sending[c].at <= dayNo
  BY DEF DaysTyped, Sending, SentIsKnown, PassedCeiling
<1>2. DaysTyped'
  <2> DEFINE others == Outdated(Callers \ {c})
  <2>1. others \in [Callers -> Message \cup {NotCalled}]
    BY NotAMessage DEF DaysTyped, Outdated, Sending, Message
  <2>2. sending' = [others EXCEPT ![c] = NotCalled]
    OBVIOUS
  <2> HIDE DEF others
  <2>3. sending' \in [Callers -> Message \cup {NotCalled}]
    BY <2>1, <2>2
  <2>4. dayNo' \in Nat /\ lastSent' \in Nat \cup {Never} /\ sentToday' \in Nat
    BY <1>1 DEF DaysTyped
  <2> QED BY <2>3, <2>4 DEF DaysTyped
<1>3. InvitesTyped'
  BY DEF InvitesTyped
<1>4. OneCall' /\ NobodyYet' /\ UsedUp' /\ OneCame' /\ NoZero' /\ Told'
  BY DEF OneCall, IsInside, NobodyYet, UsedUp, OneCame, NoZero, Told
<1>5. AskedIsOpen' /\ WhyIsSaid' /\ CapsulesHold'
  BY DEF AskedIsOpen, WhyIsSaid, CapsulesHold
<1>6. SentIsKnown'
  <2>1. ASSUME NEW d \in Callers, Sending(d)'
        PROVE  /\ sending'[d].behind
               /\ sending'[d].step = sending[d].step /\ sending'[d].at = sending[d].at
               /\ sending'[d].last = sending[d].last /\ Sending(d)
    BY <2>1, NotAMessage DEF Sending, Outdated, DaysTyped, Message
  <2>2. KnowsPreference' /\ PassedCeiling'
    BY <2>1 DEF KnowsPreference, PassedCeiling, SentIsKnown
  <2>3. ~ sending[c].behind =>
          ~ silenced /\ sending[c].last = lastSent /\ (lastSent = Never \/ sending[c].at - lastSent >= 1)
    BY DEF SentIsKnown, KnowsPreference, PassedCeiling
  <2>4. HushIsKept'
    BY <2>3, <1>1 DEF HushIsKept, SentIsKnown, Message
  <2>5. FirstIsKnown'
    <3>1. SUFFICES ASSUME ~ forgiven, ~ crossed, ~ sending[c].behind
                   PROVE  sentToday' <= 1 /\ (sentToday' = 1 => lastSent' = dayNo)
      BY <1>1 DEF FirstIsKnown, Message
    <3>2. sentToday <= 1 /\ (sentToday = 1 => lastSent = dayNo) /\ sentToday \in Nat /\ dayNo \in Nat
      BY <3>1 DEF SentIsKnown, FirstIsKnown, DaysTyped
    <3>3. sentToday = 0
      <4>1. SUFFICES ASSUME lastSent = dayNo PROVE FALSE
        BY <3>2
      <4>2. lastSent # Never
        BY <4>1, <3>2 DEF Never
      <4> QED BY <2>3, <3>1, <3>2, <1>1, <4>1, <4>2
    <3> QED BY <3>2, <3>3
  <2> QED BY <2>2, <2>4, <2>5 DEF SentIsKnown
<1> QED BY <1>2, <1>3, <1>4, <1>5, <1>6 DEF PromiseInv

\* A plan is no matter.
LEMMA GiftKeepsPromises ==
  ASSUME PromiseInv, Gift
  PROVE  PromiseInv'
<1> USE DEF PromiseInv, Gift, inviteVars, askVars, capsuleVars
<1>1. DaysTyped'
  BY DEF DaysTyped
<1>2. InvitesTyped'
  BY DEF InvitesTyped
<1>3. OneCall' /\ NobodyYet' /\ UsedUp' /\ OneCame' /\ NoZero' /\ Told'
  BY DEF OneCall, IsInside, NobodyYet, UsedUp, OneCame, NoZero, Told
<1>4. AskedIsOpen' /\ SentIsKnown' /\ WhyIsSaid' /\ CapsulesHold'
  BY DEF AskedIsOpen, SentIsKnown, KnowsPreference, PassedCeiling, FirstIsKnown, HushIsKept, Sending,
         WhyIsSaid, CapsulesHold
<1> QED BY <1>1, <1>2, <1>3, <1>4 DEF PromiseInv

\* A new day has had no message.
LEMMA NextDayKeepsPromises ==
  ASSUME PromiseInv, NextDay
  PROVE  PromiseInv'
<1> USE DEF PromiseInv, NextDay, inviteVars, askVars, capsuleVars
<1>1. DaysTyped'
  BY DEF DaysTyped
<1>2. InvitesTyped'
  BY DEF InvitesTyped
<1>3. OneCall' /\ NobodyYet' /\ UsedUp' /\ OneCame' /\ NoZero' /\ Told'
  BY DEF OneCall, IsInside, NobodyYet, UsedUp, OneCame, NoZero, Told
<1>4. AskedIsOpen' /\ WhyIsSaid' /\ CapsulesHold'
  BY DEF AskedIsOpen, WhyIsSaid, CapsulesHold
<1>5. SentIsKnown'
  <2>1. KnowsPreference' /\ FirstIsKnown' /\ HushIsKept'
    BY DEF SentIsKnown, KnowsPreference, FirstIsKnown, HushIsKept, Sending
  <2>2. PassedCeiling'
    BY DEF SentIsKnown, PassedCeiling, DaysTyped, Sending
  <2> QED BY <2>1, <2>2 DEF SentIsKnown
<1> QED BY <1>1, <1>2, <1>3, <1>4, <1>5 DEF PromiseInv

\* What the memory held is lost, and on record.
LEMMA RestartKeepsPromises ==
  ASSUME PromiseInv, Restart
  PROVE  PromiseInv'
<1> USE DEF PromiseInv, Restart
<1>1. DaysTyped'
  BY DEF DaysTyped
<1>2. InvitesTyped'
  BY DEF InvitesTyped
<1>3. OneCall' /\ NobodyYet' /\ UsedUp' /\ OneCame' /\ NoZero' /\ Told'
  BY DEF OneCall, IsInside, NobodyYet, UsedUp, OneCame, NoZero, Told
<1>4. AskedIsOpen' /\ SentIsKnown' /\ WhyIsSaid' /\ CapsulesHold'
  BY DEF AskedIsOpen, SentIsKnown, KnowsPreference, PassedCeiling, FirstIsKnown, HushIsKept, Sending,
         WhyIsSaid, CapsulesHold
<1> QED BY <1>1, <1>2, <1>3, <1>4 DEF PromiseInv

\* Nothing happens.
LEMMA RestKeepsPromises ==
  ASSUME PromiseInv, UNCHANGED memoryVars
  PROVE  PromiseInv'
<1> USE DEF PromiseInv, memoryVars, inviteVars, askVars, capsuleVars, quietVars
<1>1. DaysTyped'
  BY DEF DaysTyped
<1>2. InvitesTyped'
  BY DEF InvitesTyped
<1>3. OneCall' /\ NobodyYet' /\ UsedUp' /\ OneCame' /\ NoZero' /\ Told'
  BY DEF OneCall, IsInside, NobodyYet, UsedUp, OneCame, NoZero, Told
<1>4. AskedIsOpen' /\ SentIsKnown' /\ WhyIsSaid' /\ CapsulesHold'
  BY DEF AskedIsOpen, SentIsKnown, KnowsPreference, PassedCeiling, FirstIsKnown, HushIsKept, Sending,
         WhyIsSaid, CapsulesHold
<1> QED BY <1>1, <1>2, <1>3, <1>4 DEF PromiseInv

\* The invariant holds to begin with.
LEMMA PromiseBegins == MemoryInit => PromiseInv
<1> SUFFICES ASSUME MemoryInit PROVE PromiseInv
    OBVIOUS
<1> USE DEF MemoryInit
<1>1. DaysTyped
  BY MemoryAssumption DEF MemoryAssumption, DaysTyped
<1>2. InvitesTyped
  BY DEF InvitesTyped
<1>3. OneCall /\ NobodyYet
  BY DEF OneCall, NobodyYet, IsInside
<1>4. UsedUp /\ OneCame
  BY TokensAssumption DEF UsedUp, OneCame
<1>5. NoZero /\ Told /\ AskedIsOpen
  BY DEF NoZero, Told, AskedIsOpen
<1>6. SentIsKnown /\ WhyIsSaid /\ CapsulesHold
  BY DEF SentIsKnown, KnowsPreference, PassedCeiling, FirstIsKnown, HushIsKept, Sending, WhyIsSaid,
         CapsulesHold
<1> QED BY <1>1, <1>2, <1>3, <1>4, <1>5, <1>6 DEF PromiseInv

\* Every step keeps it.
LEMMA PromiseSteps == PromiseInv /\ [MemoryNext]_memoryVars => PromiseInv'
<1> SUFFICES ASSUME PromiseInv, [MemoryNext]_memoryVars PROVE PromiseInv'
    OBVIOUS
<1>1. CASE \E t \in Tokens, inviter \in People : CreateInvitation(t, inviter)
  BY <1>1, CreateInvitationKeepsPromises
<1>2. CASE \E c \in Callers, t \in Tokens, p \in People : AcceptReads(c, t, p)
  BY <1>2, AcceptReadsKeepsPromises
<1>3. CASE \E c \in Callers : AcceptSaves(c)
  BY <1>3, AcceptSavesKeepsPromises
<1>4. CASE \E c \in Callers : AcceptForgets(c)
  BY <1>4, AcceptForgetsKeepsPromises
<1>5. CASE CheckEligiblePrompt
  BY <1>5, CheckEligiblePromptKeepsPromises
<1>6. CASE SkipForever
  BY <1>6, SkipForeverKeepsPromises
<1>7. CASE RespondCommits
  BY <1>7, RespondCommitsKeepsPromises
<1>8. CASE RespondNotes
  BY <1>8, RespondNotesKeepsPromises
<1>9. CASE \E w \in Wishes : Moves(w, "lived") \/ Moves(w, "archived")
  BY <1>9, MovesKeepsPromises
<1>10. CASE \E w \in Wishes : SaysWhy(w)
  BY <1>10, SaysWhyKeepsPromises
<1>11. CASE ListsUnfinished
  BY <1>11, ListsUnfinishedKeepsPromises
<1>12. CASE SealTheUnfinished
  BY <1>12, SealTheUnfinishedKeepsPromises
<1>13. CASE \E items \in SUBSET Wishes : SealAgeN(items)
  BY <1>13, SealAgeNKeepsPromises
<1>14. CASE \E quiet \in BOOLEAN : SetPreference(quiet)
  BY <1>14, SetPreferenceKeepsPromises
<1>15. CASE \E c \in Callers : MessageReads(c) \/ MessageChecks(c) \/ MessageSends(c)
  BY <1>15, MessageReadsKeepsPromises, MessageChecksKeepsPromises, MessageSendsKeepsPromises
<1>16. CASE Gift
  BY <1>16, GiftKeepsPromises
<1>17. CASE NextDay
  BY <1>17, NextDayKeepsPromises
<1>18. CASE Restart
  BY <1>18, RestartKeepsPromises
<1>19. CASE UNCHANGED memoryVars
  BY <1>19, RestKeepsPromises
<1> QED BY <1>1, <1>2, <1>3, <1>4, <1>5, <1>6, <1>7, <1>8, <1>9, <1>10, <1>11, <1>12, <1>13, <1>14,
           <1>15, <1>16, <1>17, <1>18, <1>19 DEF MemoryNext, InvitationNext, AskNext, CapsuleNext, QuietNext

\* A set whose members are all the same.
LEMMA AtMostOne == ASSUME NEW S, \A x, y \in S : x = y PROVE Cardinality(S) <= 1
<1>1. CASE S = {}
  <2>1. Cardinality(S) = 0
    BY <1>1, FS_EmptySet
  <2> QED BY <2>1
<1>2. CASE S # {}
  <2>1. PICK x \in S : TRUE
    BY <1>2
  <2>2. S = {x}
    BY <2>1
  <2>3. Cardinality({x}) = 1
    BY FS_Singleton
  <2> QED BY <2>2, <2>3
<1> QED BY <1>1, <1>2

\* One who came by an invitation is one at most, and what was told and is open is noted, or was lost.
LEMMA PromiseProves == PromiseInv => PromisesInMemory
<1> SUFFICES ASSUME PromiseInv PROVE PromisesInMemory
    OBVIOUS
<1>1. ASSUME NEW t \in Tokens \ overlapped PROVE Cardinality({p \in People : cameBy[p] = t}) <= 1
  <2>1. \A p, q \in {p \in People : cameBy[p] = t} : p = q
    BY DEF PromiseInv, OneCame
  <2> QED BY <2>1, AtMostOne
<1>2. asked \in replied => asked = noting \/ asked \in lost
  BY DEF PromiseInv, Told, AskedIsOpen
<1>3. asked \notin settled /\ \A c \in capsules : c[3] # {} /\ (c[2] = "THE_UNFINISHED" => c[3] \subseteq why)
  BY DEF PromiseInv, AskedIsOpen, CapsulesHold
<1>4. (sentToday > 1 => forgiven \/ crossed) /\ (hushed => silenced \/ undone)
  BY DEF PromiseInv, SentIsKnown, FirstIsKnown, HushIsKept, DaysTyped
<1> QED BY <1>1, <1>2, <1>3, <1>4 DEF PromisesInMemory

\* What memory alone promises is kept as long as nothing takes the memory: for any people, tokens and
\* calls at once, an invitation lets in one person unless two accepted it at once; a grandparent is not
\* asked again; a second message in a day takes a forgotten first, or a call whose reading another wrote
\* over; asked-for silence lasts until such a call, or a stop, takes it back; a capsule is as it was
\* promised.
THEOREM PromisesAreKept == MemorySpec => []PromisesInMemory
<1>1. MemorySpec => []PromiseInv
  BY PromiseBegins, PromiseSteps, PTL DEF MemorySpec
<1> QED BY <1>1, PromiseProves, PTL

---------------------------------------------------------------------------
(* The rate limiter, for any rules, routes and moments.                    *)
(*                                                                         *)
(* The window forgets, so what it holds has to be tied to what it let in:  *)
(* the bucket is the end of everything let in, and all before it is past.  *)
(* A request let in while a bucket of max holds fewer is then a window     *)
(* later than the one max before it.  What is said about waiting holds     *)
(* only while the bucket is full: a refused client is told all of the      *)
(* wait but its last half second, and is refused once more at most.        *)

\* The order the library's well-foundedness is about is the order of the numbers.
LEMMA LessIs == \A x, y \in Nat : <<x, y>> \in OpToRel(<, Nat) <=> x < y
BY DEF OpToRel

\* A set of numbers has a least one.
LEMMA Least == ASSUME NEW T \in SUBSET Nat, T # {} PROVE \E x \in T : \A y \in T : x <= y
<1>1. IsWellFoundedOn(OpToRel(<, Nat), Nat)
  BY NatLessThanWellFounded
<1>2. PICK x \in T : \A y \in T : ~(<<y, x>> \in OpToRel(<, Nat))
  BY <1>1, WFMin, Zenon
<1>3. \A y \in T : ~(y < x)
  BY <1>2, LessIs
<1> QED BY <1>3

\* Type correctness, as far as the proof needs it.
Stamped == /\ tick \in Nat
           /\ bucket \in [Tiers -> Seq(Nat)] /\ letIn \in [Tiers -> Seq(Nat)]
           /\ waitUntil \in [Tiers -> Nat \cup {None}] /\ refusedAgain \in [Tiers -> Nat]
\* One sequence is the end of another, and what it leaves out is past.
EndOf(w, s, past) ==
  /\ Len(w) <= Len(s)
  /\ \A i \in 1 .. Len(w) : w[i] = s[Len(s) - Len(w) + i]
  /\ \A i \in 1 .. Len(s) - Len(w) : s[i] <= past
\* The bucket is the end of what was let in, and no more than the rule allows.
BucketIsTheEnd == \A t \in Tiers :
  Len(bucket[t]) <= MaxRequests[t] /\ EndOf(bucket[t], letIn[t], tick - Window)
\* What was let in a rule's worth of requests ago is a window ago.
Spaced == \A t \in Tiers : \A n \in 1 .. Len(letIn[t]) :
  n > MaxRequests[t] => letIn[t][n] - letIn[t][n - MaxRequests[t]] >= Window
\* While the bucket is full, who was told to wait is told all but the last half second.
AtLimit(t) == Len(bucket[t]) = MaxRequests[t]
WaitsEnough == \A t \in Tiers : AtLimit(t) /\ waitUntil[t] # None => waitUntil[t] >= bucket[t][1] + Window - 1
\* Who was refused after that has the last half second to wait, and is told so.
OnceMore == \A t \in Tiers :
  /\ refusedAgain[t] <= 1
  /\ AtLimit(t) /\ refusedAgain[t] = 1 =>
       waitUntil[t] # None /\ waitUntil[t] >= bucket[t][1] + Window /\ bucket[t][1] + Window <= tick + 1

\* The inductive invariant behind LimitsAreFair.
LimitInv == Stamped /\ BucketIsTheEnd /\ Spaced /\ WaitsEnough /\ OnceMore

LEMMA WindowIs == Window \in Nat \ {0, 1} /\ TicksASecond = 2
BY LimitAssumption DEF Window, TicksASecond

\* Where the window begins.
LEMMA FirstIs ==
  ASSUME tick \in Nat, NEW s \in Seq(Nat)
  PROVE  /\ First(s) \in 1 .. Len(s) + 1
         /\ First(s) <= Len(s) => s[First(s)] > tick - Window
         /\ \A m \in 1 .. First(s) - 1 : s[m] <= tick - Window
<1> DEFINE T == {n \in 1 .. Len(s) + 1 : n <= Len(s) => s[n] > tick - Window}
<1>1. Len(s) \in Nat /\ Len(s) + 1 \in T
  OBVIOUS
<1>2. T \in SUBSET Nat /\ T # {}
  BY <1>1
<1>3. PICK n \in T : \A y \in T : n <= y
  BY <1>2, Least
<1>4. \A m \in 1 .. n - 1 : s[m] <= tick - Window
  <2> SUFFICES ASSUME NEW m \in 1 .. n - 1 PROVE s[m] <= tick - Window
    OBVIOUS
  <2>1. m \in 1 .. Len(s) /\ m \notin T
    BY <1>1, <1>3
  <2>2. s[m] \in Nat
    BY <2>1
  <2> QED BY <2>1, <2>2, WindowIs
<1> DEFINE Starts(x) == /\ x <= Len(s) => s[x] > tick - Window
                        /\ \A m \in 1 .. x - 1 : s[m] <= tick - Window
<1>5. \E x \in 1 .. Len(s) + 1 : Starts(x)
  BY <1>3, <1>4
<1>6. First(s) = CHOOSE x \in 1 .. Len(s) + 1 : Starts(x)
  BY DEF First
<1> HIDE DEF Starts
<1>7. First(s) \in 1 .. Len(s) + 1 /\ Starts(First(s))
  BY <1>5, <1>6, Zenon
<1> QED BY <1>7 DEF Starts

\* What is within it.
LEMMA WithinIs ==
  ASSUME tick \in Nat, NEW s \in Seq(Nat), NEW w, w = Within(s)
  PROVE  w \in Seq(Nat) /\ EndOf(w, s, tick - Window) /\ (Len(w) # 0 => w[1] > tick - Window)
<1>1. /\ First(s) \in 1 .. Len(s) + 1
      /\ First(s) <= Len(s) => s[First(s)] > tick - Window
      /\ \A m \in 1 .. First(s) - 1 : s[m] <= tick - Window
  BY FirstIs
<1>2. Len(s) \in Nat
  OBVIOUS
<1>3. /\ w \in Seq(Nat) /\ Len(w) = IF First(s) <= Len(s) THEN Len(s) - First(s) + 1 ELSE 0
      /\ \A i \in 1 .. Len(s) - First(s) + 1 : w[i] = s[First(s) + i - 1]
  <2>1. PICK m \in Int : m = First(s)
    BY <1>1, <1>2
  <2>2. \A i \in m .. Len(s) : s[i] \in Nat
    BY <1>1, <1>2, <2>1
  <2>3. w = SubSeq(s, m, Len(s))
    BY <2>1 DEF Within
  <2>4. /\ SubSeq(s, m, Len(s)) \in Seq(Nat)
        /\ Len(SubSeq(s, m, Len(s))) = IF m <= Len(s) THEN Len(s) - m + 1 ELSE 0
        /\ \A i \in 1 .. Len(s) - m + 1 : SubSeq(s, m, Len(s))[i] = s[m + i - 1]
    BY <1>2, <2>2, SubSeqProperties
  <2> QED BY <2>1, <2>3, <2>4
<1>4. Len(w) = Len(s) + 1 - First(s) /\ Len(w) \in 0 .. Len(s)
  <2>1. PICK a \in Nat : a = Len(s)
    BY <1>2
  <2>2. PICK m \in 1 .. a + 1 : m = First(s)
    BY <1>1, <2>1
  <2>3. Len(w) = IF m <= a THEN a - m + 1 ELSE 0
    BY <1>3, <2>1, <2>2
  <2>4. Len(w) = a + 1 - m /\ Len(w) \in 0 .. a
    BY <2>1, <2>2, <2>3
  <2> QED BY <2>1, <2>2, <2>4
<1>5. \A i \in 1 .. Len(w) : w[i] = s[Len(s) - Len(w) + i]
  <2> SUFFICES ASSUME NEW i \in 1 .. Len(w) PROVE w[i] = s[Len(s) - Len(w) + i]
    OBVIOUS
  <2>1. PICK a \in Nat, m \in Nat, z \in Nat : a = Len(s) /\ m = First(s) /\ z = Len(w)
    BY <1>1, <1>2, <1>3
  <2>2. z = a + 1 - m /\ m \in 1 .. a + 1
    BY <1>1, <1>4, <2>1
  <2>3. m + i - 1 = a - z + i /\ i \in 1 .. a - m + 1
    BY <2>1, <2>2
  <2>4. w[i] = s[m + i - 1]
    BY <1>3, <2>1, <2>3
  <2> QED BY <2>1, <2>3, <2>4
<1>6. Len(w) # 0 => w[1] > tick - Window
  <2> SUFFICES ASSUME Len(w) # 0 PROVE w[1] > tick - Window
    OBVIOUS
  <2>1. First(s) <= Len(s) /\ 1 \in 1 .. Len(w) /\ Len(s) - Len(w) + 1 = First(s)
    BY <1>1, <1>2, <1>4
  <2> QED BY <1>1, <1>5, <2>1
<1>7. \A i \in 1 .. Len(s) - Len(w) : s[i] <= tick - Window
  BY <1>1, <1>2, <1>4
<1> QED BY <1>3, <1>4, <1>5, <1>6, <1>7 DEF EndOf

\* The end of the end is the end, and stays so when the same is appended to both.
LEMMA EndOfEnd ==
  ASSUME NEW l \in Seq(Nat), NEW b \in Seq(Nat), NEW w \in Seq(Nat), NEW past \in Int,
         EndOf(b, l, past), EndOf(w, b, past)
  PROVE  EndOf(w, l, past)
<1>1. PICK x \in Nat, y \in Nat, z \in Nat : x = Len(l) /\ y = Len(b) /\ z = Len(w)
  OBVIOUS
<1>2. z <= y /\ y <= x
  BY <1>1 DEF EndOf
<1>3. ASSUME NEW i \in 1 .. z PROVE w[i] = l[x - z + i]
  <2>1. w[i] = b[y - z + i]
    BY <1>1 DEF EndOf
  <2> DEFINE k == y - z + i
  <2>2. k \in 1 .. y /\ k = y - z + i
    BY <1>1, <1>2
  <2> HIDE DEF k
  <2>3. b[k] = l[x - y + k]
    BY <1>1, <2>2 DEF EndOf
  <2>4. x - y + k = x - z + i
    BY <1>1, <2>2
  <2> QED BY <2>1, <2>2, <2>3, <2>4
<1>4. ASSUME NEW i \in 1 .. x - z PROVE l[i] <= past
  <2>1. CASE i \in 1 .. x - y
    BY <1>1, <2>1 DEF EndOf
  <2>2. CASE i \notin 1 .. x - y
    <3> DEFINE k == i - (x - y)
    <3>1. k \in 1 .. y - z /\ k = i - (x - y)
      BY <1>1, <1>2, <2>2
    <3> HIDE DEF k
    <3>2. k \in 1 .. y /\ x - y + k = i
      BY <1>1, <1>2, <3>1
    <3>3. b[k] = l[x - y + k]
      BY <1>1, <3>2 DEF EndOf
    <3>4. b[k] <= past
      BY <1>1, <3>1 DEF EndOf
    <3> QED BY <3>2, <3>3, <3>4
  <2> QED BY <2>1, <2>2
<1> QED BY <1>1, <1>2, <1>3, <1>4 DEF EndOf

\* What Append does, in facts the provers can use.
LEMMA AppendIs ==
  ASSUME NEW s \in Seq(Nat), NEW x \in Nat, NEW c, c = Append(s, x)
  PROVE  /\ c \in Seq(Nat) /\ Len(c) = Len(s) + 1 /\ c[Len(s) + 1] = x
         /\ \A i \in 1 .. Len(s) : c[i] = s[i]
OBVIOUS

LEMMA EndGrows ==
  ASSUME NEW l \in Seq(Nat), NEW w \in Seq(Nat), NEW past \in Int, NEW x \in Nat, EndOf(w, l, past),
         NEW c, c = Append(w, x), NEW m, m = Append(l, x)
  PROVE  EndOf(c, m, past)
<1>1. PICK a \in Nat, z \in Nat : a = Len(l) /\ z = Len(w)
  OBVIOUS
<1>2. Len(c) = z + 1 /\ c[z + 1] = x /\ \A i \in 1 .. z : c[i] = w[i]
  BY <1>1, AppendIs
<1>3. Len(m) = a + 1 /\ m[a + 1] = x /\ \A i \in 1 .. a : m[i] = l[i]
  BY <1>1, AppendIs
<1>4. z <= a /\ \A i \in 1 .. a - z : l[i] <= past
  BY <1>1 DEF EndOf
<1>5. ASSUME NEW i \in 1 .. z + 1 PROVE c[i] = m[a - z + i]
  <2>1. CASE i = z + 1
    <3>1. a - z + i = a + 1
      BY <1>1, <2>1
    <3> QED BY <1>2, <1>3, <2>1, <3>1
  <2>2. CASE i # z + 1
    <3>1. i \in 1 .. z /\ a - z + i \in 1 .. a
      BY <1>1, <1>4, <2>2
    <3>2. w[i] = l[a - z + i]
      BY <1>1, <3>1 DEF EndOf
    <3> QED BY <1>2, <1>3, <3>1, <3>2
  <2> QED BY <2>1, <2>2
<1>6. a + 1 - (z + 1) = a - z
  BY <1>1
<1>7. \A i \in 1 .. z + 1 : c[i] = m[(a + 1) - (z + 1) + i]
  <2> SUFFICES ASSUME NEW i \in 1 .. z + 1 PROVE c[i] = m[(a + 1) - (z + 1) + i]
    OBVIOUS
  <2>1. (a + 1) - (z + 1) + i = a - z + i
    BY <1>1
  <2> QED BY <1>5, <2>1
<1>8. \A i \in 1 .. (a + 1) - (z + 1) : m[i] <= past
  BY <1>1, <1>3, <1>4, <1>6
<1>9. PICK d \in Nat, e \in Nat : d = a + 1 /\ e = z + 1
  BY <1>1
<1>10. Len(m) = d /\ Len(c) = e /\ e <= d
  BY <1>2, <1>3, <1>4, <1>9
<1>11. \A i \in 1 .. e : c[i] = m[d - e + i]
  BY <1>7, <1>9
<1>12. \A i \in 1 .. d - e : m[i] <= past
  BY <1>8, <1>9
<1> QED BY <1>10, <1>11, <1>12 DEF EndOf

\* A request that is let in is one more of its tier in the window.
LEMMA AllowedKeeps ==
  ASSUME LimitInv, NEW t \in Tiers, IsAllowed(t), UNCHANGED tick
  PROVE  LimitInv'
<1>1. PICK b \in Seq(Nat), l \in Seq(Nat), max \in Nat \ {0}, past \in Int :
        b = bucket[t] /\ l = letIn[t] /\ max = MaxRequests[t] /\ past = tick - Window
  BY WindowIs, LimitAssumption DEF LimitInv, Stamped
<1>2. PICK w : w = Within(b)
  OBVIOUS
<1>3. w \in Seq(Nat) /\ EndOf(w, b, past)
  BY <1>1, <1>2, WithinIs DEF LimitInv, Stamped
<1>4. Len(b) <= max /\ EndOf(b, l, past)
  BY <1>1 DEF LimitInv, BucketIsTheEnd
<1>5. PICK c, m : c = Append(w, tick) /\ m = Append(l, tick)
  OBVIOUS
<1>6. /\ Len(w) < max /\ tick \in Nat
      /\ bucket' = [bucket EXCEPT ![t] = c] /\ letIn' = [letIn EXCEPT ![t] = m]
      /\ waitUntil' = [waitUntil EXCEPT ![t] = None] /\ refusedAgain' = [refusedAgain EXCEPT ![t] = 0]
  BY <1>1, <1>2, <1>5 DEF IsAllowed, LimitInv, Stamped
<1>7. c \in Seq(Nat) /\ Len(c) = Len(w) + 1
  BY <1>3, <1>5, <1>6, AppendIs
<1>8. m \in Seq(Nat) /\ Len(m) = Len(l) + 1 /\ m[Len(l) + 1] = tick /\ \A i \in 1 .. Len(l) : m[i] = l[i]
  BY <1>1, <1>5, <1>6, AppendIs
<1>9. EndOf(w, l, past)
  BY <1>3, <1>4, EndOfEnd
<1>10. EndOf(c, m, past)
  BY <1>3, <1>5, <1>6, <1>9, EndGrows
<1>11. /\ bucket'[t] = c /\ letIn'[t] = m /\ waitUntil'[t] = None /\ refusedAgain'[t] = 0
       /\ \A u \in Tiers : u # t => /\ bucket'[u] = bucket[u] /\ letIn'[u] = letIn[u]
                                   /\ waitUntil'[u] = waitUntil[u] /\ refusedAgain'[u] = refusedAgain[u]
  BY <1>6 DEF LimitInv, Stamped
<1>12. Stamped'
  BY <1>6, <1>7, <1>8 DEF LimitInv, Stamped
<1>13. Len(c) <= max
  BY <1>3, <1>6, <1>7
<1>14. BucketIsTheEnd'
  <2>1. (Len(bucket[t]) <= MaxRequests[t] /\ EndOf(bucket[t], letIn[t], tick - Window))'
    BY <1>1, <1>10, <1>11, <1>13 DEF EndOf, Window
  <2>2. ASSUME NEW u \in Tiers, u # t
        PROVE  (Len(bucket[u]) <= MaxRequests[u] /\ EndOf(bucket[u], letIn[u], tick - Window))'
    <3>1. Len(bucket'[u]) <= MaxRequests[u] /\ EndOf(bucket'[u], letIn'[u], tick' - Window)
      BY <1>11, <2>2 DEF LimitInv, BucketIsTheEnd
    <3> QED BY <3>1 DEF EndOf, Window
  <2> QED BY <2>1, <2>2 DEF BucketIsTheEnd
<1>15. ASSUME NEW n \in 1 .. Len(m), n > max PROVE m[n] - m[n - max] >= Window
  <2>1. PICK a \in Nat, z \in Nat : a = Len(l) /\ z = Len(w)
    BY <1>3
  <2> DEFINE k == n - max
  <2>2. n \in 1 .. a + 1 /\ n > max /\ max \in Nat \ {0}
    BY <1>1, <1>8, <1>15, <2>1
  <2>3. k \in 1 .. a /\ k = n - max
    BY <2>1, <2>2
  <2> HIDE DEF k
  <2>4. CASE n = a + 1
    <3>1. k \in 1 .. a - z
      BY <1>6, <2>1, <2>3, <2>4
    <3>2. \A i \in 1 .. a - z : l[i] <= past
      BY <1>9, <2>1 DEF EndOf
    <3>3. l[k] <= past /\ l[k] \in Nat
      BY <2>1, <2>3, <3>1, <3>2
    <3>4. m[n] = tick /\ m[k] = l[k]
      BY <1>8, <2>1, <2>3, <2>4
    <3>5. tick - m[k] >= Window
      BY <1>1, <1>6, <3>3, <3>4, WindowIs
    <3> QED BY <2>3, <3>4, <3>5
  <2>5. CASE n # a + 1
    <3>1. n \in 1 .. a
      BY <2>1, <2>2, <2>5
    <3>2. \A j \in 1 .. a : j > max => l[j] - l[j - max] >= Window
      BY <1>1, <2>1 DEF LimitInv, Spaced
    <3>3. l[n] - l[k] >= Window
      BY <2>2, <2>3, <3>1, <3>2
    <3>4. m[n] = l[n] /\ m[k] = l[k]
      BY <1>8, <2>1, <2>3, <3>1
    <3> QED BY <2>3, <3>3, <3>4
  <2> QED BY <2>4, <2>5
<1>16. Spaced'
  BY <1>1, <1>11, <1>15 DEF LimitInv, Spaced, Window
<1>17. WaitsEnough' /\ OnceMore'
  <2>1. \A u \in Tiers : u = t \/ u # t
    OBVIOUS
  <2>2. WaitsEnough'
    BY <1>11 DEF LimitInv, WaitsEnough, AtLimit, Window
  <2>3. OnceMore'
    BY <1>6, <1>11 DEF LimitInv, OnceMore, AtLimit, Window
  <2> QED BY <2>2, <2>3
<1> QED BY <1>12, <1>14, <1>16, <1>17 DEF LimitInv

\* A request that is refused is told to wait for the oldest in the window.
LEMMA RefusedKeeps ==
  ASSUME LimitInv, NEW t \in Tiers, IsRefused(t), UNCHANGED tick
  PROVE  LimitInv'
<1>1. PICK b \in Seq(Nat) : b = bucket[t]
  BY DEF LimitInv, Stamped
<1>2. PICK w : w = Within(b)
  OBVIOUS
<1>3. tick \in Nat /\ Len(b) \in Nat /\ MaxRequests[t] \in Nat \ {0}
  BY LimitAssumption DEF LimitInv, Stamped
<1>4. /\ w \in Seq(Nat) /\ Len(w) \in 0 .. Len(b)
      /\ \A i \in 1 .. Len(w) : w[i] = b[Len(b) - Len(w) + i]
      /\ Len(w) # 0 => w[1] > tick - Window
  <2>1. w \in Seq(Nat) /\ EndOf(w, b, tick - Window) /\ (Len(w) # 0 => w[1] > tick - Window)
    BY <1>2, <1>3, WithinIs
  <2>2. Len(w) \in Nat
    BY <2>1
  <2> QED BY <1>3, <2>1, <2>2 DEF EndOf
<1>5. PICK told : told = tick + TicksASecond * RetryAfter(w)
  OBVIOUS
<1>6. /\ Len(w) >= MaxRequests[t] /\ bucket' = [bucket EXCEPT ![t] = w]
      /\ waitUntil' = [waitUntil EXCEPT ![t] = told] /\ letIn' = letIn
      /\ refusedAgain' = IF waitUntil[t] # None /\ tick >= waitUntil[t]
                         THEN [refusedAgain EXCEPT ![t] = @ + 1] ELSE refusedAgain
  BY <1>1, <1>2, <1>5 DEF IsRefused
<1>7. Len(b) <= MaxRequests[t]
  BY <1>1 DEF LimitInv, BucketIsTheEnd
<1>8. Len(w) = Len(b) /\ Len(b) = MaxRequests[t]
  BY <1>3, <1>4, <1>6, <1>7
<1>9. w = b
  <2>1. \A i \in 1 .. Len(b) : w[i] = b[i]
    BY <1>3, <1>4, <1>8
  <2> QED BY <1>4, <1>8, <2>1, SeqEqual
<1>10. bucket' = bucket
  BY <1>1, <1>6, <1>9 DEF LimitInv, Stamped
<1>11. b[1] \in Nat /\ b[1] > tick - Window /\ b # << >>
  BY <1>3, <1>4, <1>8, <1>9
<1>12. told \in Nat /\ told >= b[1] + Window - 1 /\ told >= tick + 2
  <2>1. Head(w) = b[1]
    BY <1>9, <1>11
  <2>2. PICK r \in Nat \ {0} : r = b[1] + Window - tick
    BY <1>3, <1>11, WindowIs
  <2>3. RetryAfter(w) = IF r \div 2 < 1 THEN 1 ELSE r \div 2
    BY <2>1, <2>2, WindowIs DEF RetryAfter, AtLeastOne
  <2>4. told = tick + 2 * (IF r \div 2 < 1 THEN 1 ELSE r \div 2)
    BY <1>5, <2>3, WindowIs
  <2>5. told \in Nat /\ told >= tick + r - 1 /\ told >= tick + 2
    BY <1>3, <2>2, <2>4
  <2>6. tick + r = b[1] + Window
    BY <1>3, <1>11, <2>2, WindowIs
  <2>7. PICK sum \in Nat : sum = tick + r
    BY <1>3, <2>2
  <2>8. told >= sum - 1
    BY <1>3, <2>2, <2>5, <2>7
  <2>9. PICK head \in Nat : head = b[1]
    BY <1>11
  <2>10. PICK win \in Nat : win = Window
    BY WindowIs
  <2>11. sum = head + win
    BY <2>6, <2>7, <2>9, <2>10
  <2>12. told >= head + win - 1
    BY <2>5, <2>8, <2>11
  <2> QED BY <2>5, <2>9, <2>10, <2>12
<1>13. /\ waitUntil'[t] = told /\ \A u \in Tiers : u # t => waitUntil'[u] = waitUntil[u]
       /\ \A u \in Tiers : u # t => refusedAgain'[u] = refusedAgain[u]
       /\ refusedAgain'[t] = IF waitUntil[t] # None /\ tick >= waitUntil[t]
                             THEN refusedAgain[t] + 1 ELSE refusedAgain[t]
  BY <1>6 DEF LimitInv, Stamped
<1>14. waitUntil[t] \in Nat \cup {None} /\ refusedAgain[t] \in Nat /\ refusedAgain[t] <= 1
  BY DEF LimitInv, Stamped, OnceMore
<1>15. Stamped'
  <2>1. waitUntil' \in [Tiers -> Nat \cup {None}] /\ refusedAgain' \in [Tiers -> Nat]
    BY <1>6, <1>12, <1>14 DEF LimitInv, Stamped
  <2> QED BY <1>6, <1>10, <2>1 DEF LimitInv, Stamped
<1>16. BucketIsTheEnd' /\ Spaced'
  BY <1>6, <1>10 DEF LimitInv, BucketIsTheEnd, EndOf, Spaced, Window
<1>17. WaitsEnough'
  BY <1>1, <1>10, <1>12, <1>13 DEF LimitInv, WaitsEnough, AtLimit, Window
<1>18. AtLimit(t) /\ bucket[t] = b
  BY <1>1, <1>8 DEF AtLimit
<1>19. PICK old \in Int : old = waitUntil[t]
  BY <1>14 DEF None
<1>20. PICK earlier \in Nat : earlier = refusedAgain[t]
  BY <1>14
<1>21. PICK later \in Nat : later = refusedAgain'[t]
  BY <1>13, <1>14
<1>22. PICK head \in Nat : head = b[1]
  BY <1>11
<1>23. PICK win \in Nat \ {0, 1} : win = Window
  BY WindowIs
<1>24. /\ head > tick - win /\ told >= head + win - 1 /\ told >= tick + 2 /\ earlier <= 1
       /\ later = IF old # None /\ tick >= old THEN earlier + 1 ELSE earlier
  BY <1>11, <1>12, <1>13, <1>14, <1>19, <1>20, <1>21, <1>22, <1>23
<1>25. old # None => old >= head + win - 1
  BY <1>18, <1>19, <1>22, <1>23 DEF LimitInv, WaitsEnough
<1>26. earlier = 1 => old # None /\ old >= head + win /\ head + win <= tick + 1
  BY <1>18, <1>19, <1>20, <1>22, <1>23 DEF LimitInv, OnceMore
<1>27. refusedAgain'[t] <= 1 /\ (refusedAgain'[t] = 1 => told >= b[1] + Window /\ b[1] + Window <= tick + 1)
  <2>1. later <= 1 /\ (later = 1 => told >= head + win /\ head + win <= tick + 1)
    BY <1>3, <1>12, <1>24, <1>25, <1>26
  <2> QED BY <2>1, <1>21, <1>22, <1>23
<1>28. told # None
  BY <1>12 DEF None
<1>29. OnceMore'
  BY <1>1, <1>10, <1>13, <1>18, <1>28, <1>27 DEF LimitInv, OnceMore, AtLimit, Window
<1> QED BY <1>15, <1>16, <1>17, <1>29 DEF LimitInv

\* Time goes on, and what was told stays so.
LEMMA TimeKeeps == ASSUME LimitInv, TimeGoesOn PROVE LimitInv'
<1> USE DEF LimitInv, TimeGoesOn
<1>1. Stamped'
  BY DEF Stamped
<1>2. BucketIsTheEnd'
  <2> SUFFICES ASSUME NEW t \in Tiers, NEW i \in 1 .. Len(letIn[t]) - Len(bucket[t])
               PROVE  letIn[t][i] <= tick' - Window
    BY DEF BucketIsTheEnd, EndOf, Window
  <2>1. letIn[t][i] <= tick - Window /\ letIn[t] \in Seq(Nat) /\ i \in 1 .. Len(letIn[t])
    BY DEF BucketIsTheEnd, EndOf, Stamped
  <2>2. letIn[t][i] \in Nat
    BY <2>1
  <2> QED BY <2>1, <2>2, WindowIs DEF Stamped
<1>3. Spaced' /\ WaitsEnough'
  BY DEF Spaced, WaitsEnough, AtLimit, Window
<1>4. OnceMore'
  <2> SUFFICES ASSUME NEW t \in Tiers, AtLimit(t), refusedAgain[t] = 1
               PROVE  bucket[t][1] + Window <= tick' + 1
    BY DEF OnceMore, AtLimit, Window
  <2>1. bucket[t][1] + Window <= tick + 1
    BY DEF OnceMore
  <2>2. bucket[t] \in Seq(Nat) /\ Len(bucket[t]) = MaxRequests[t] /\ MaxRequests[t] \in Nat \ {0}
    BY LimitAssumption DEF Stamped, AtLimit
  <2>3. bucket[t][1] \in Nat
    BY <2>2
  <2> QED BY <2>1, <2>3, WindowIs DEF Stamped
<1> QED BY <1>1, <1>2, <1>3, <1>4

\* The end of nothing is nothing.
LEMMA NothingIsLeft == ASSUME NEW past PROVE EndOf(<< >>, << >>, past)
BY DEF EndOf

\* A process that starts again knows of no request, and neither does its client's count.
LEMMA ForgetsKeeps == ASSUME LimitInv, Forgets PROVE LimitInv'
<1>1. << >> \in Seq(Nat) /\ Len(<< >>) = 0
  OBVIOUS
<1>2. /\ \A t \in Tiers : bucket'[t] = << >> /\ letIn'[t] = << >>
      /\ UNCHANGED <<tick, waitUntil, refusedAgain>>
  BY DEF Forgets
<1>3. \A t \in Tiers : MaxRequests[t] \in Nat \ {0}
  BY LimitAssumption
<1>4. Stamped'
  BY <1>1 DEF LimitInv, Stamped, Forgets
<1>5. BucketIsTheEnd' /\ Spaced'
  <2>1. \A t \in Tiers : Len(bucket'[t]) = 0 /\ Len(letIn'[t]) = 0
    BY <1>1, <1>2
  <2>2. Spaced'
    BY <1>3, <2>1 DEF Spaced
  <2>3. \A t \in Tiers : Len(bucket'[t]) <= MaxRequests[t] /\ EndOf(bucket'[t], letIn'[t], tick' - Window)
    BY <1>2, <1>3, <2>1, NothingIsLeft
  <2> QED BY <2>2, <2>3 DEF BucketIsTheEnd, EndOf, Window
<1>6. WaitsEnough' /\ OnceMore'
  BY <1>1, <1>2, <1>3 DEF LimitInv, WaitsEnough, OnceMore, AtLimit
<1> QED BY <1>4, <1>5, <1>6 DEF LimitInv

\* A process begins with empty buckets.
LEMMA LimitBegins == LimitInit => LimitInv
<1> SUFFICES ASSUME LimitInit PROVE LimitInv
  OBVIOUS
<1>1. << >> \in Seq(Nat) /\ Len(<< >>) = 0
  OBVIOUS
<1>2. \A t \in Tiers : bucket[t] = << >> /\ letIn[t] = << >> /\ waitUntil[t] = None /\ refusedAgain[t] = 0
  BY DEF LimitInit
<1>3. \A t \in Tiers : MaxRequests[t] \in Nat \ {0}
  BY LimitAssumption
<1>4. Stamped
  BY <1>1 DEF Stamped, LimitInit
<1>5. BucketIsTheEnd /\ Spaced
  <2>1. \A t \in Tiers : Len(bucket[t]) = 0 /\ Len(letIn[t]) = 0
    BY <1>1, <1>2
  <2>2. Spaced
    BY <1>3, <2>1 DEF Spaced
  <2>3. \A t \in Tiers : (Len(bucket[t]) <= MaxRequests[t] /\ EndOf(bucket[t], letIn[t], tick - Window))
    BY <1>2, <1>3, <2>1, NothingIsLeft
  <2> QED BY <2>2, <2>3 DEF BucketIsTheEnd
<1>6. WaitsEnough /\ OnceMore
  BY <1>1, <1>2, <1>3 DEF WaitsEnough, OnceMore, AtLimit
<1> QED BY <1>4, <1>5, <1>6 DEF LimitInv

\* Every step of the limiter keeps the invariant.
LEMMA LimitSteps == LimitInv /\ [LimitNext]_limitVars => LimitInv'
<1> SUFFICES ASSUME LimitInv, [LimitNext]_limitVars PROVE LimitInv'
  OBVIOUS
<1>1. CASE \E route \in Routes : Request(route)
  <2>1. PICK route \in Routes : Request(route)
    BY <1>1
  <2>2. TierOf(route) \in Tiers
    BY DEF TierOf, Tiers
  <2> QED BY <2>1, <2>2, AllowedKeeps, RefusedKeeps DEF Request
<1>2. CASE TimeGoesOn
  BY <1>2, TimeKeeps
<1>3. CASE Forgets
  BY <1>3, ForgetsKeeps
<1>4. CASE UNCHANGED limitVars
  BY <1>4 DEF limitVars, LimitInv, Stamped, BucketIsTheEnd, EndOf, Spaced, WaitsEnough, OnceMore, AtLimit, Window
<1> QED BY <1>1, <1>2, <1>3, <1>4 DEF LimitNext

\* In no window are more requests of a tier let in than its rule allows, wherever the window starts,
\* for any rules and any clock; and a client that waits as it was told is refused once more at most.
THEOREM LimitsHold == LimitSpec => []LimitsAreFair
<1>1. LimitInv => LimitsAreFair
  BY DEF LimitInv, Spaced, OnceMore, LimitsAreFair
<1> QED BY <1>1, LimitBegins, LimitSteps, PTL DEF LimitSpec

---------------------------------------------------------------------------
(* The family's own words, for any words, meanings and overrides at once.  *)
(*                                                                         *)
(* An override takes its lesson with it between two statements, so what    *)
(* the table says is tied to what was tapped by what is still to come: the *)
(* count of a key, wherever a copy of it is, and the overrides that have   *)
(* not loaded yet, are together no more than the taps.  Unless two         *)
(* overrides overlapped, one alone is under way, and the table and its     *)
(* rows to insert are apart and tell together what was answered.  The      *)
(* bound holds because strength is a strict order of a finite table, and   *)
(* such an order has an end.                                               *)

\* A strict order of a finite set has an end.
LEMMA AnEnd ==
  ASSUME NEW K, IsFiniteSet(K), K # {}, NEW R,
         \A k \in K : <<k, k>> \notin R,
         \A j, k, l \in K : <<j, k>> \in R /\ <<k, l>> \in R => <<j, l>> \in R
  PROVE  \E k \in K : \A j \in K : <<k, j>> \notin R
<1> DEFINE Beyond(k) == {j \in K : <<k, j>> \in R}
<1>1. \A k \in K : Beyond(k) \in SUBSET K /\ \A j \in K : j \in Beyond(k) <=> <<k, j>> \in R
  OBVIOUS
<1> HIDE DEF Beyond
<1>2. \A k \in K : IsFiniteSet(Beyond(k)) /\ Cardinality(Beyond(k)) \in Nat
  BY <1>1, FS_Subset, FS_CardinalityType
<1> DEFINE Sizes == {Cardinality(Beyond(k)) : k \in K}
<1>3. Sizes \in SUBSET Nat /\ Sizes # {} /\ \A k \in K : Cardinality(Beyond(k)) \in Sizes
  BY <1>2
<1>4. PICK n \in Sizes : \A m \in Sizes : n <= m
  BY <1>3, Least
<1>5. PICK k \in K : n = Cardinality(Beyond(k))
  OBVIOUS
<1>6. ASSUME NEW j \in K, <<k, j>> \in R PROVE FALSE
  <2>1. j \in Beyond(k) /\ j \notin Beyond(j) /\ \A l \in Beyond(j) : l \in Beyond(k)
    BY <1>1, <1>6
  <2>2. Beyond(j) \in SUBSET Beyond(k) /\ Beyond(j) # Beyond(k)
    BY <2>1
  <2>3. Cardinality(Beyond(j)) <= Cardinality(Beyond(k)) /\ Cardinality(Beyond(j)) # Cardinality(Beyond(k))
    BY <1>2, <2>2, FS_Subset
  <2>4. n <= Cardinality(Beyond(j))
    BY <1>3, <1>4
  <2> QED BY <1>2, <1>5, <2>3, <2>4
<1> QED BY <1>6

\* A table of evidence: a function on finitely many keys.
IsTable(e) ==
  /\ e = [k \in DOMAIN e |-> e[k]] /\ DOMAIN e \in SUBSET WordKeys /\ IsFiniteSet(DOMAIN e)
  /\ \A k \in DOMAIN e : e[k] \in Evidence

\* What a key is.
LEMMA KeyIs == ASSUME NEW k \in WordKeys
  PROVE k = <<k[1], k[2], k[3]>> /\ k[1] \in WordFields /\ k[2] \in Nat /\ k[3] \in Nat
<1>1. k \in WordFields \X Learnable \X UNION {Meanings[f] : f \in WordFields} /\ k[3] \in Meanings[k[1]]
  BY DEF WordKeys
<1>2. k = <<k[1], k[2], k[3]>> /\ k[1] \in WordFields /\ k[2] \in Learnable
  BY <1>1
<1> QED BY <1>1, <1>2, LexiconAssumption

\* Strength is a strict order, and total: the words tell two entries apart where the counts do not.
LEMMA StrongerOrders ==
  ASSUME NEW e, IsTable(e)
  PROVE  /\ \A k \in DOMAIN e : ~ Stronger(e, k, k)
         /\ \A j, k, l \in DOMAIN e : Stronger(e, j, k) /\ Stronger(e, k, l) => Stronger(e, j, l)
         /\ \A j, k \in DOMAIN e : j = k \/ Stronger(e, j, k) \/ Stronger(e, k, j)
<1>1. \A k \in DOMAIN e : k \in WordKeys /\ e[k].times \in Nat /\ e[k].last \in Nat
  BY DEF IsTable, Evidence
<1>2. \A k \in DOMAIN e : ~ Stronger(e, k, k)
  BY <1>1, KeyIs DEF Stronger
<1>3. ASSUME NEW j \in DOMAIN e, NEW k \in DOMAIN e, NEW l \in DOMAIN e, Stronger(e, j, k), Stronger(e, k, l)
      PROVE  Stronger(e, j, l)
  <2>1. \A x \in {j, k, l} : /\ e[x].times \in Nat /\ e[x].last \in Nat
                             /\ x[2] \in Nat /\ x[3] \in Nat
    BY <1>1, KeyIs
  <2> QED BY <1>3, <2>1 DEF Stronger
<1>4. ASSUME NEW j \in DOMAIN e, NEW k \in DOMAIN e, j # k PROVE Stronger(e, j, k) \/ Stronger(e, k, j)
  <2>1. \A x \in {j, k} : /\ e[x].times \in Nat /\ e[x].last \in Nat /\ x[2] \in Nat /\ x[3] \in Nat
                          /\ x[1] \in {"INTENT", "CATEGORY"}
    BY <1>1, KeyIs DEF WordFields
  <2>2. j[1] # k[1] \/ j[2] # k[2] \/ j[3] # k[3]
    BY <1>1, <1>4, KeyIs
  <2> QED BY <2>1, <2>2 DEF Stronger
<1> QED BY <1>2, <1>3, <1>4

\* The ends of a table, by strength.
LEMMA EndsOf ==
  ASSUME NEW e, IsTable(e), NEW K \in SUBSET DOMAIN e, K # {}
  PROVE  /\ \E k \in K : \A j \in K : ~ Stronger(e, j, k)
         /\ \E k \in K : \A j \in K \ {k} : Stronger(e, j, k)
<1>1. IsFiniteSet(K)
  BY FS_Subset DEF IsTable
<1>2. PICK R : R = {p \in K \X K : Stronger(e, p[2], p[1])}
  OBVIOUS
<1>3. PICK S : S = {p \in K \X K : Stronger(e, p[1], p[2])}
  OBVIOUS
<1>4. \A j, k \in K : (<<k, j>> \in R <=> Stronger(e, j, k)) /\ (<<k, j>> \in S <=> Stronger(e, k, j))
  BY <1>2, <1>3
<1>5. /\ \A k \in K : ~ Stronger(e, k, k)
      /\ \A j, k, l \in K : Stronger(e, j, k) /\ Stronger(e, k, l) => Stronger(e, j, l)
      /\ \A j, k \in K : j = k \/ Stronger(e, j, k) \/ Stronger(e, k, j)
  BY StrongerOrders
<1>6. PICK k \in K : \A j \in K : <<k, j>> \notin R
  <2>1. /\ \A k \in K : <<k, k>> \notin R
        /\ \A j, k, l \in K : <<j, k>> \in R /\ <<k, l>> \in R => <<j, l>> \in R
    BY <1>4, <1>5
  <2> QED BY <1>1, <2>1, AnEnd
<1>7. PICK w \in K : \A j \in K : <<w, j>> \notin S
  <2>1. /\ \A k1 \in K : <<k1, k1>> \notin S
        /\ \A j, k1, l \in K : <<j, k1>> \in S /\ <<k1, l>> \in S => <<j, l>> \in S
    BY <1>4, <1>5
  <2> QED BY <1>1, <2>1, AnEnd
<1> QED BY <1>4, <1>5, <1>6, <1>7

\* The bound keeps what the table said of the keys it keeps, and no more than MaxTerms of them.
LEMMA BoundHolds ==
  ASSUME NEW e, IsTable(e), NEW w, w = WithinBounds(e)
  PROVE  /\ IsTable(w) /\ DOMAIN w \subseteq DOMAIN e /\ \A k \in DOMAIN w : w[k] = e[k]
         /\ Cardinality(DOMAIN w) \in Nat /\ Cardinality(DOMAIN w) <= MaxTerms
<1> DEFINE Above(k) == {j \in DOMAIN e : Stronger(e, j, k)}
           D == {k \in DOMAIN e : Cardinality(Above(k)) < MaxTerms}
<1>1. w = [k \in D |-> e[k]]
  BY DEF WithinBounds, Restrict
<1>2. D \in SUBSET DOMAIN e /\ DOMAIN w = D /\ \A k \in D : w[k] = e[k]
  BY <1>1
<1>3. IsFiniteSet(D) /\ Cardinality(D) \in Nat
  BY <1>2, FS_Subset, FS_CardinalityType DEF IsTable
<1>4. IsTable(w)
  <2>1. w = [k \in DOMAIN w |-> w[k]]
    BY <1>1
  <2> QED BY <1>2, <1>3, <2>1 DEF IsTable
<1>5. Cardinality(D) <= MaxTerms
  <2>1. CASE D = {}
    <3>1. Cardinality(D) = 0
      BY <2>1, FS_EmptySet
    <3> QED BY <3>1, LexiconAssumption
  <2>2. CASE D # {}
    <3>1. PICK k \in D : \A j \in D \ {k} : Stronger(e, j, k)
      BY <1>2, <2>2, EndsOf
    <3>2. D \ {k} \in SUBSET Above(k) /\ Above(k) \in SUBSET DOMAIN e
      BY <1>2, <3>1
    <3>3. IsFiniteSet(Above(k))
      BY <3>2, FS_Subset DEF IsTable
    <3>4. Cardinality(D \ {k}) <= Cardinality(Above(k)) /\ Cardinality(Above(k)) \in Nat
      BY <3>2, <3>3, FS_Subset, FS_CardinalityType
    <3>5. Cardinality(D \ {k}) = Cardinality(D) - 1
      BY <1>3, <3>1, FS_RemoveElement
    <3>6. Cardinality(Above(k)) < MaxTerms
      BY <3>1
    <3>7. MaxTerms \in Nat
      BY LexiconAssumption
    <3> QED BY <1>3, <3>4, <3>5, <3>6, <3>7
  <2> QED BY <2>1, <2>2
<1> QED BY <1>2, <1>3, <1>4, <1>5

\* What a correction adds to a key.
Adds(c, k) == IF k \in KeysOf(c) THEN 1 ELSE 0

\* What a correction is about.
LEMMA CorrectionIs ==
  ASSUME NEW c \in Corrections
  PROVE  KeysOf(c) \in SUBSET WordKeys /\ IsFiniteSet(KeysOf(c)) /\ (c.words = {} => KeysOf(c) = {})
<1>1. PICK f \in WordFields : c \in [field : {f}, words : SparkWords, to : Meanings[f]]
  BY DEF Corrections
<1>2. c.field = f /\ c.words \in SparkWords /\ c.to \in Meanings[f]
  BY <1>1
<1>3. c.words \subseteq Learnable /\ IsFiniteSet(c.words)
  BY <1>2, LexiconAssumption DEF Learnable
<1>4. KeysOf(c) \in SUBSET WordKeys
  <2> SUFFICES ASSUME NEW term \in c.words PROVE <<c.field, term, c.to>> \in WordKeys
    BY DEF KeysOf
  <2>1. term \in Learnable /\ c.to \in UNION {Meanings[g] : g \in WordFields}
    BY <1>2, <1>3
  <2> QED BY <1>2, <2>1 DEF WordKeys
<1>5. IsFiniteSet(KeysOf(c))
  <2> DEFINE h == [term \in c.words |-> <<c.field, term, c.to>>]
  <2>1. h \in Surjection(c.words, KeysOf(c))
    BY DEF Surjection, KeysOf
  <2> QED BY <1>3, <2>1, FS_Surjection
<1> QED BY <1>4, <1>5 DEF KeysOf

\* A count is a number.
LEMMA TimesIs == ASSUME NEW e, IsTable(e), NEW k PROVE Times(e, k) \in Nat /\ (k \notin DOMAIN e => Times(e, k) = 0)
BY DEF Times, IsTable, Evidence

\* Learning adds the correction, up to what the bound drops.
LEMMA LearnIs ==
  ASSUME NEW e, IsTable(e), NEW c \in Corrections, NEW now \in Nat, NEW w, w = Learn(e, c, now)
  PROVE  /\ IsTable(w) /\ DOMAIN w \subseteq DOMAIN e \cup KeysOf(c)
         /\ \A k \in DOMAIN w : Times(w, k) = Times(e, k) + Adds(c, k)
         /\ Cardinality(DOMAIN e) <= MaxTerms => Cardinality(DOMAIN w) <= MaxTerms
<1>1. CASE c.words = {}
  <2>1. w = e /\ KeysOf(c) = {}
    BY <1>1, CorrectionIs DEF Learn
  <2>2. \A k \in DOMAIN e : Times(e, k) \in Nat
    BY TimesIs
  <2> QED BY <2>1, <2>2 DEF Adds
<1>2. CASE c.words # {}
  <2>1. PICK t : t = Tallied(e, c, now)
    OBVIOUS
  <2>2. t = [k \in DOMAIN e \cup KeysOf(c) |->
               IF k \in KeysOf(c) THEN [times |-> Times(e, k) + 1, last |-> now] ELSE e[k]]
    BY <2>1 DEF Tallied
  <2>3. DOMAIN t = DOMAIN e \cup KeysOf(c) /\ IsFiniteSet(DOMAIN t)
    BY <2>2, CorrectionIs, FS_Union DEF IsTable
  <2>4. ASSUME NEW k \in DOMAIN t PROVE t[k] \in Evidence /\ t[k].times = Times(e, k) + Adds(c, k)
    <3>1. CASE k \in KeysOf(c)
      <4>1. t[k] = [times |-> Times(e, k) + 1, last |-> now]
        BY <2>2, <2>3, <3>1
      <4>2. Times(e, k) \in Nat
        BY TimesIs
      <4> QED BY <3>1, <4>1, <4>2 DEF Evidence, Adds
    <3>2. CASE k \notin KeysOf(c)
      <4>1. t[k] = e[k] /\ k \in DOMAIN e
        BY <2>2, <2>3, <2>4, <3>2
      <4>2. e[k] \in Evidence /\ Times(e, k) = e[k].times
        BY <4>1 DEF IsTable, Times
      <4>3. Times(e, k) + Adds(c, k) = Times(e, k)
        BY <3>2, TimesIs DEF Adds
      <4> QED BY <4>1, <4>2, <4>3
    <3> QED BY <3>1, <3>2
  <2>5. IsTable(t)
    <3>1. t = [k \in DOMAIN t |-> t[k]] /\ DOMAIN t \in SUBSET WordKeys
      BY <2>2, <2>3, CorrectionIs DEF IsTable
    <3> QED BY <2>3, <2>4, <3>1 DEF IsTable
  <2>6. w = WithinBounds(t)
    BY <1>2, <2>1 DEF Learn
  <2>7. /\ IsTable(w) /\ DOMAIN w \subseteq DOMAIN t /\ \A k \in DOMAIN w : w[k] = t[k]
        /\ Cardinality(DOMAIN w) <= MaxTerms
    BY <2>5, <2>6, BoundHolds
  <2>8. \A k \in DOMAIN w : Times(w, k) = Times(e, k) + Adds(c, k)
    <3> SUFFICES ASSUME NEW k \in DOMAIN w PROVE Times(w, k) = Times(e, k) + Adds(c, k)
      OBVIOUS
    <3>1. Times(w, k) = w[k].times /\ w[k] = t[k] /\ k \in DOMAIN t
      BY <2>7 DEF Times
    <3> QED BY <2>4, <3>1
  <2> QED BY <2>3, <2>7, <2>8
<1> QED BY <1>1, <1>2

\* An override that has read and learned, and has rows to save.
Asked(a) == asking[a] \in {"delete", "insert"}
\* Type correctness, as far as the proof needs it.
WordsTyped ==
  /\ tapped \in [WordKeys -> Nat] /\ taken \in [WordKeys -> Nat] /\ clock \in Nat
  /\ asking \in [Askers -> {"idle", "load", "delete", "insert"}]
  /\ lesson = [a \in Askers |-> lesson[a]]
  /\ IsTable(terms) /\ IsTable(before)
LessonsTyped == \A a \in Askers :
  /\ asking[a] = "load" => lesson[a] \in Corrections
  /\ Asked(a) => /\ lesson[a] = [said |-> lesson[a].said, rows |-> lesson[a].rows]
                 /\ lesson[a].said \in Corrections /\ IsTable(lesson[a].rows)

\* The overrides that will still add one to a key.
Pending(k) == {a \in Askers : asking[a] = "load" /\ k \in KeysOf(lesson[a])}
ToCome(k) == Cardinality(Pending(k))
\* What a table says of a key, with what is still to come, is no more than was said.
Covered(e) == \A k \in WordKeys : Times(e, k) + ToCome(k) <= tapped[k]
SaidSo == /\ Covered(terms) /\ Covered(before)
          /\ \A a \in Askers : Asked(a) => Covered(lesson[a].rows)

\* Up to what the bound dropped.
Agrees(k, n, m) == IF k \in evicted THEN n <= m ELSE n = m
Tells(e) == Cardinality(DOMAIN e) <= MaxTerms /\ \A k \in WordKeys : Agrees(k, Times(e, k), taken[k])
Calm ==
  /\ \A a, b \in Askers : Busy(a) /\ Busy(b) => a = b
  /\ Cardinality(DOMAIN terms) <= MaxTerms
  /\ (\A a \in Askers : asking[a] # "insert") => Tells(terms)
  /\ \A a \in Askers : Busy(a) => working /\ Tells(before)
DeletesNext == \A a \in Askers : asking[a] = "delete" =>
  /\ Cardinality(DOMAIN lesson[a].rows) <= MaxTerms
  /\ \A k \in WordKeys : Agrees(k, Times(lesson[a].rows, k), taken[k] + Adds(lesson[a].said, k))
InsertsNext == \A a \in Askers : asking[a] = "insert" =>
  /\ DOMAIN terms \cap DOMAIN lesson[a].rows = {}
  /\ Cardinality(DOMAIN terms \cup DOMAIN lesson[a].rows) <= MaxTerms
  /\ \A k \in WordKeys :
       Agrees(k, Times(terms, k) + Times(lesson[a].rows, k), taken[k] + Adds(lesson[a].said, k))
\* Unless overrides overlapped, the table tells what was answered with Ok, and while one is under
\* way, the table, what a rollback would bring back and the rows to insert do so together.
WhileCalm == ~ met => Calm /\ DeletesNext /\ InsertsNext
Quiet == turnedAway => met

\* The inductive invariant behind WordsAreTheirs.
WordInv == WordsTyped /\ LessonsTyped /\ SaidSo /\ WhileCalm /\ Quiet

\* The empty table.
LEMMA NothingSaid == IsTable(NoWords) /\ DOMAIN NoWords = {} /\ Cardinality(DOMAIN NoWords) = 0
<1>1. DOMAIN NoWords = {}
  BY DEF NoWords
<1>2. NoWords = [k \in DOMAIN NoWords |-> NoWords[k]]
  BY DEF NoWords
<1> QED BY <1>1, <1>2, FS_EmptySet DEF IsTable

\* Another table has a key.
LEMMA SomethingSaid == ASSUME NEW e, IsTable(e), e # NoWords PROVE DOMAIN e # {}
<1> SUFFICES ASSUME DOMAIN e = {} PROVE FALSE
  OBVIOUS
<1>1. e = [k \in {} |-> e[k]]
  BY DEF IsTable
<1>2. NoWords = [k \in {} |-> e[k]]
  BY DEF NoWords
<1> QED BY <1>1, <1>2

\* The next row to insert is one of the rows.
LEMMA NextRowIs == ASSUME NEW e, IsTable(e), e # NoWords PROVE NextRow(e) \in DOMAIN e
<1>1. DOMAIN e # {}
  BY SomethingSaid
<1>2. \E k \in DOMAIN e : \A j \in DOMAIN e : ~ Stronger(e, j, k)
  BY <1>1, EndsOf
<1> QED BY <1>2 DEF NextRow

\* The overrides still to count are finitely many.
LEMMA ToComeIs == \A k : IsFiniteSet(Pending(k)) /\ ToCome(k) \in Nat
<1> SUFFICES ASSUME NEW k PROVE IsFiniteSet(Pending(k)) /\ ToCome(k) \in Nat
  OBVIOUS
<1>1. Pending(k) \in SUBSET Askers
  BY DEF Pending
<1>2. IsFiniteSet(Pending(k))
  BY <1>1, FS_Subset, LexiconAssumption
<1> QED BY <1>2, FS_CardinalityType DEF ToCome

\* Nobody comes to load: no more is to come.
LEMMA FewerToCome ==
  ASSUME \A b \in Askers : asking'[b] = "load" => asking[b] = "load" /\ lesson'[b] = lesson[b]
  PROVE  \A k : ToCome(k)' \in Nat /\ ToCome(k)' <= ToCome(k)
<1> SUFFICES ASSUME NEW k PROVE ToCome(k)' \in Nat /\ ToCome(k)' <= ToCome(k)
  OBVIOUS
<1>1. Pending(k)' \in SUBSET Pending(k)
  BY DEF Pending, KeysOf
<1>2. IsFiniteSet(Pending(k)')
  BY <1>1, ToComeIs, FS_Subset
<1>3. Cardinality(Pending(k)') <= Cardinality(Pending(k))
  BY <1>1, ToComeIs, FS_Subset
<1> QED BY <1>2, <1>3, FS_CardinalityType DEF ToCome

\* One comes to load: its correction is to come.
LEMMA OneMoreToCome ==
  ASSUME NEW a \in Askers, asking[a] # "load", asking'[a] = "load",
         \A b \in Askers \ {a} : asking'[b] = asking[b] /\ lesson'[b] = lesson[b]
  PROVE  \A k : ToCome(k)' = ToCome(k) + Adds(lesson'[a], k)
<1> SUFFICES ASSUME NEW k PROVE ToCome(k)' = ToCome(k) + Adds(lesson'[a], k)
  OBVIOUS
<1>1. a \notin Pending(k)
  BY DEF Pending
<1>2. CASE k \in KeysOf(lesson'[a])
  <2>1. Pending(k)' = Pending(k) \cup {a}
    BY <1>2 DEF Pending, KeysOf
  <2>2. Cardinality(Pending(k) \cup {a}) = Cardinality(Pending(k)) + 1
    BY <1>1, ToComeIs, FS_AddElement
  <2> QED BY <1>2, <2>1, <2>2 DEF ToCome, Adds
<1>3. CASE k \notin KeysOf(lesson'[a])
  <2>1. Pending(k)' = Pending(k)
    BY <1>3 DEF Pending, KeysOf
  <2>2. ToCome(k)' = ToCome(k) /\ ToCome(k) \in Nat
    BY <2>1, ToComeIs DEF ToCome
  <2> QED BY <1>3, <2>2 DEF Adds
<1> QED BY <1>2, <1>3

\* One has loaded: its correction is no longer to come.
LEMMA OneLessToCome ==
  ASSUME NEW a \in Askers, asking[a] = "load", asking'[a] # "load",
         \A b \in Askers \ {a} : asking'[b] = asking[b] /\ lesson'[b] = lesson[b]
  PROVE  \A k : ToCome(k)' + Adds(lesson[a], k) = ToCome(k)
<1> SUFFICES ASSUME NEW k PROVE ToCome(k)' + Adds(lesson[a], k) = ToCome(k)
  OBVIOUS
<1>1. CASE k \in KeysOf(lesson[a])
  <2>1. Pending(k)' = Pending(k) \ {a} /\ a \in Pending(k)
    BY <1>1 DEF Pending, KeysOf
  <2>2. Cardinality(Pending(k) \ {a}) = Cardinality(Pending(k)) - 1
    BY <2>1, ToComeIs, FS_RemoveElement
  <2> QED BY <1>1, <2>1, <2>2, ToComeIs DEF ToCome, Adds
<1>2. CASE k \notin KeysOf(lesson[a])
  <2>1. Pending(k)' = Pending(k)
    BY <1>2 DEF Pending, KeysOf
  <2>2. ToCome(k)' = ToCome(k) /\ ToCome(k) \in Nat
    BY <2>1, ToComeIs DEF ToCome
  <2> QED BY <1>2, <2>2 DEF Adds
<1> QED BY <1>1, <1>2

\* What was covered stays so, while nothing more is to come.
LEMMA StaysCovered ==
  ASSUME NEW k \in WordKeys, NEW n \in Nat, NEW m \in Nat, WordsTyped, tapped' = tapped,
         ToCome(k)' \in Nat, ToCome(k)' <= ToCome(k), n + ToCome(k) <= tapped[k], m <= n
  PROVE  m + ToCome(k)' <= tapped'[k]
<1>1. tapped[k] \in Nat /\ ToCome(k) \in Nat
  BY ToComeIs DEF WordsTyped
<1> QED BY <1>1

\* Some leave, and what is open is taken back.
LEMMA UndoneKeeps ==
  ASSUME WordInv, NEW S \in SUBSET Askers, \E a \in S : Busy(a),
         \A b \in Askers : IF b \in S THEN asking'[b] = "idle" ELSE asking'[b] = asking[b] /\ lesson'[b] = lesson[b],
         asking' \in [Askers -> {"idle", "load", "delete", "insert"}], lesson' = [b \in Askers |-> lesson'[b]],
         TakenBack, UNCHANGED <<clock, evicted, tapped, taken, met>>, turnedAway' => met
  PROVE  WordInv'
<1>1. before' = NoWords /\ working' = FALSE /\ terms' = IF working THEN before ELSE terms
  BY DEF TakenBack, LetGo
<1>2. WordsTyped'
  BY <1>1, NothingSaid DEF WordInv, WordsTyped, IsTable
<1>3. LessonsTyped'
  BY DEF WordInv, LessonsTyped, Asked, IsTable
<1>4. \A k : ToCome(k)' \in Nat /\ ToCome(k)' <= ToCome(k)
  BY FewerToCome
<1>5. SaidSo'
  <2>1. ASSUME NEW k \in WordKeys PROVE Times(terms', k) + ToCome(k)' <= tapped'[k]
    <3>1. Times(terms, k) + ToCome(k) <= tapped[k] /\ Times(before, k) + ToCome(k) <= tapped[k]
      BY DEF WordInv, SaidSo, Covered
    <3>2. Times(terms, k) \in Nat /\ Times(before, k) \in Nat
      BY TimesIs DEF WordInv, WordsTyped
    <3> QED BY <1>1, <1>4, <3>1, <3>2, StaysCovered DEF WordInv
  <2>2. ASSUME NEW k \in WordKeys PROVE Times(before', k) + ToCome(k)' <= tapped'[k]
    <3>1. Times(before', k) = 0
      BY <1>1, NothingSaid, TimesIs
    <3>2. Times(terms, k) \in Nat /\ Times(terms, k) + ToCome(k) <= tapped[k]
      BY TimesIs DEF WordInv, WordsTyped, SaidSo, Covered
    <3>3. 0 \in Nat /\ 0 <= Times(terms, k)
      BY <3>2
    <3> QED BY <1>4, <3>1, <3>2, <3>3, StaysCovered DEF WordInv
  <2>3. ASSUME NEW b \in Askers, Asked(b)', NEW k \in WordKeys PROVE Times(lesson'[b].rows, k) + ToCome(k)' <= tapped'[k]
    <3>1. lesson'[b] = lesson[b] /\ Asked(b)
      BY <2>3 DEF Asked
    <3>2. IsTable(lesson[b].rows) /\ Times(lesson[b].rows, k) + ToCome(k) <= tapped[k]
      BY <3>1 DEF WordInv, LessonsTyped, SaidSo, Covered
    <3>3. Times(lesson[b].rows, k) \in Nat
      BY <3>2, TimesIs
    <3> QED BY <1>4, <3>1, <3>2, <3>3, StaysCovered DEF WordInv
  <2> QED BY <2>1, <2>2, <2>3 DEF SaidSo, Covered, Times
<1>6. WhileCalm'
  <2> SUFFICES ASSUME ~ met PROVE (Calm /\ DeletesNext /\ InsertsNext)'
    BY DEF WhileCalm
  <2>1. Calm
    BY DEF WordInv, WhileCalm
  <2>2. \A b \in Askers : asking'[b] = "idle"
    BY <2>1 DEF Calm, Busy
  <2>3. working /\ Tells(before)
    BY <2>1 DEF Calm
  <2>4. terms' = before
    BY <1>1, <2>3
  <2>5. Tells(terms)'
    BY <2>3, <2>4 DEF Tells, Agrees, Times
  <2> QED BY <2>2, <2>5 DEF Calm, Busy, DeletesNext, InsertsNext, Tells
<1>7. Quiet'
  BY DEF Quiet
<1> QED BY <1>2, <1>3, <1>5, <1>6, <1>7 DEF WordInv

\* One of several leaves, and what is open goes on.
LEMMA LeavesKeeps ==
  ASSUME WordInv, NEW a \in Askers, Busy(a), ~ Alone(a), Leaves(a), UNCHANGED <<terms, before, working>>,
         UNCHANGED <<clock, evicted, tapped, taken, met>>
  PROVE  WordInv'
<1>1. met
  BY DEF WordInv, WhileCalm, Calm, Alone
<1>2. /\ asking' = [asking EXCEPT ![a] = "idle"] /\ lesson' = [lesson EXCEPT ![a] = NoWords]
  BY DEF Leaves, GoesTo, Carries
<1>3. asking'[a] = "idle" /\ \A b \in Askers \ {a} : asking'[b] = asking[b] /\ lesson'[b] = lesson[b]
  BY <1>2 DEF WordInv, WordsTyped
<1>4. WordsTyped'
  BY <1>2 DEF WordInv, WordsTyped, IsTable
<1>5. LessonsTyped'
  BY <1>3 DEF WordInv, LessonsTyped, Asked, IsTable
<1>6. \A k : ToCome(k)' \in Nat /\ ToCome(k)' <= ToCome(k)
  BY <1>3, FewerToCome
<1>7. SaidSo'
  <2>1. ASSUME NEW e, IsTable(e), Covered(e), NEW k \in WordKeys PROVE Times(e, k) + ToCome(k)' <= tapped'[k]
    <3>1. Times(e, k) \in Nat /\ Times(e, k) + ToCome(k) <= tapped[k]
      BY <2>1, TimesIs DEF Covered
    <3> QED BY <1>6, <3>1, StaysCovered DEF WordInv
  <2>2. IsTable(terms) /\ IsTable(before) /\ Covered(terms) /\ Covered(before)
    BY DEF WordInv, WordsTyped, SaidSo
  <2>3. ASSUME NEW b \in Askers, Asked(b)' PROVE lesson'[b] = lesson[b] /\ IsTable(lesson[b].rows) /\ Covered(lesson[b].rows)
    BY <1>3, <2>3 DEF Asked, WordInv, LessonsTyped, SaidSo
  <2> QED BY <2>1, <2>2, <2>3 DEF SaidSo, Covered, Times
<1>8. WhileCalm' /\ Quiet'
  BY <1>1 DEF WhileCalm, Quiet
<1> QED BY <1>4, <1>5, <1>7, <1>8 DEF WordInv

\* One raises: the last one out takes the transaction back.
LEMMA RaisesKeeps ==
  ASSUME WordInv, NEW a \in Askers, Busy(a), Raises(a), turnedAway' => met
  PROVE  WordInv'
<1>1. /\ asking' = [asking EXCEPT ![a] = "idle"] /\ lesson' = [lesson EXCEPT ![a] = NoWords]
      /\ UNCHANGED <<clock, evicted, tapped, taken, met>>
  BY DEF Raises, Leaves, GoesTo, Carries, WordRead
<1>2. asking'[a] = "idle" /\ \A b \in Askers \ {a} : asking'[b] = asking[b] /\ lesson'[b] = lesson[b]
  BY <1>1 DEF WordInv, WordsTyped
<1>3. asking' \in [Askers -> {"idle", "load", "delete", "insert"}] /\ lesson' = [b \in Askers |-> lesson'[b]]
  BY <1>1 DEF WordInv, WordsTyped
<1>4. CASE Alone(a)
  <2>1. TakenBack
    BY <1>4 DEF Raises
  <2>2. {a} \in SUBSET Askers /\ \E b \in {a} : Busy(b)
    OBVIOUS
  <2>3. \A b \in Askers : IF b \in {a} THEN asking'[b] = "idle" ELSE asking'[b] = asking[b] /\ lesson'[b] = lesson[b]
    BY <1>2
  <2> QED BY <1>1, <1>3, <2>1, <2>2, <2>3, UndoneKeeps
<1>5. CASE ~ Alone(a)
  <2>1. UNCHANGED <<terms, before, working>> /\ Leaves(a) /\ turnedAway' \in {turnedAway', TRUE}
    BY <1>5 DEF Raises
  <2> QED BY <1>1, <1>5, <2>1, LeavesKeeps
<1> QED BY <1>4, <1>5

\* The save of the Spark is refused.
LEMMA RefusedKeepsWords == ASSUME WordInv, NEW a \in Askers, OverrideRefused(a) PROVE WordInv'
<1>1. /\ asking' = [asking EXCEPT ![a] = "idle"] /\ lesson' = [lesson EXCEPT ![a] = NoWords]
      /\ UNCHANGED <<clock, evicted, tapped, taken, met, turnedAway>> /\ TakenBack
  BY DEF OverrideRefused, Leaves, GoesTo, Carries, WordRead
<1>2. \A b \in Askers : IF b \in {a} THEN asking'[b] = "idle" ELSE asking'[b] = asking[b] /\ lesson'[b] = lesson[b]
  BY <1>1 DEF WordInv, WordsTyped
<1>3. asking' \in [Askers -> {"idle", "load", "delete", "insert"}] /\ lesson' = [b \in Askers |-> lesson'[b]]
  BY <1>1 DEF WordInv, WordsTyped
<1>4. {a} \in SUBSET Askers /\ \E b \in {a} : Busy(b)
  BY DEF OverrideRefused, Busy
<1>5. turnedAway' => met
  BY <1>1 DEF WordInv, Quiet
<1> QED BY <1>1, <1>2, <1>3, <1>4, <1>5, UndoneKeeps

\* The box stops.
LEMMA StopsKeepsWords == ASSUME WordInv, LexiconStops PROVE WordInv'
<1>1. /\ asking' = [b \in Askers |-> "idle"] /\ lesson' = [b \in Askers |-> NoWords]
      /\ UNCHANGED <<clock, evicted, tapped, taken, met, turnedAway>> /\ TakenBack
      /\ \E b \in Askers : Busy(b)
  BY DEF LexiconStops, WordRead
<1>2. \A b \in Askers : IF b \in Askers THEN asking'[b] = "idle" ELSE asking'[b] = asking[b] /\ lesson'[b] = lesson[b]
  BY <1>1
<1>3. asking' \in [Askers -> {"idle", "load", "delete", "insert"}] /\ lesson' = [b \in Askers |-> lesson'[b]]
  BY <1>1
<1>4. turnedAway' => met
  BY <1>1 DEF WordInv, Quiet
<1> QED BY <1>1, <1>2, <1>3, <1>4, UndoneKeeps

\* A statement raises.
LEMMA StatementRaisesKeeps == ASSUME WordInv, NEW a \in Askers, StatementRaises(a) PROVE WordInv'
<1>1. Busy(a) /\ Raises(a) /\ (turnedAway' => met)
  BY DEF StatementRaises, Busy, WordInv, Quiet
<1> QED BY <1>1, RaisesKeeps

\* A row collides, which takes another override's rows in the table.
LEMMA CollidesKeeps == ASSUME WordInv, NEW a \in Askers, InsertCollides(a) PROVE WordInv'
<1>1. asking[a] = "insert" /\ lesson[a].rows # NoWords /\ NextRow(lesson[a].rows) \in DOMAIN terms /\ Raises(a)
  BY DEF InsertCollides
<1>2. NextRow(lesson[a].rows) \in DOMAIN lesson[a].rows
  BY <1>1, NextRowIs DEF WordInv, LessonsTyped, Asked
<1>3. met
  BY <1>1, <1>2 DEF WordInv, WhileCalm, InsertsNext
<1> QED BY <1>1, <1>3, RaisesKeeps DEF Busy

\* An override enters.
LEMMA OverrideKeeps == ASSUME WordInv, NEW a \in Askers, Override(a) PROVE WordInv'
<1>1. PICK c \in Corrections :
        /\ lesson' = [lesson EXCEPT ![a] = c]
        /\ tapped' = [k \in WordKeys |-> tapped[k] + IF k \in KeysOf(c) THEN 1 ELSE 0]
  BY DEF Override, Carries
<1>2. /\ asking[a] = "idle" /\ asking' = [asking EXCEPT ![a] = "load"]
      /\ IF Alone(a) THEN working' = TRUE /\ before' = terms ELSE UNCHANGED <<working, before>>
      /\ met' = (met \/ ~ Alone(a)) /\ clock' = clock + 1
      /\ UNCHANGED <<terms, taken, evicted, turnedAway>>
  BY DEF Override, GoesTo, Busy
<1>3. /\ asking'[a] = "load" /\ lesson'[a] = c
      /\ \A b \in Askers \ {a} : asking'[b] = asking[b] /\ lesson'[b] = lesson[b]
  BY <1>1, <1>2 DEF WordInv, WordsTyped
<1>4. WordsTyped'
  <2>1. tapped' \in [WordKeys -> Nat]
    BY <1>1 DEF WordInv, WordsTyped
  <2>2. lesson' = [b \in Askers |-> lesson'[b]]
    BY <1>1 DEF WordInv, WordsTyped
  <2>3. \A e \in {terms, before} : IsTable(e)
    BY DEF WordInv, WordsTyped
  <2>4. terms' \in {terms, before} /\ before' \in {terms, before}
    BY <1>2
  <2>5. IsTable(terms)' /\ IsTable(before)'
    BY <2>3, <2>4 DEF IsTable
  <2>6. /\ taken' \in [WordKeys -> Nat] /\ clock' \in Nat
        /\ asking' \in [Askers -> {"idle", "load", "delete", "insert"}]
    BY <1>2 DEF WordInv, WordsTyped
  <2> QED BY <2>1, <2>2, <2>5, <2>6 DEF WordsTyped
<1>5. LessonsTyped'
  BY <1>3 DEF WordInv, LessonsTyped, Asked, IsTable
<1>6. \A k : ToCome(k)' = ToCome(k) + Adds(c, k)
  BY <1>2, <1>3, OneMoreToCome
<1>7. \A k \in WordKeys : tapped'[k] = tapped[k] + Adds(c, k) /\ Adds(c, k) \in Nat
  BY <1>1 DEF Adds
<1>8. SaidSo'
  <2>1. ASSUME NEW e, IsTable(e), Covered(e), NEW k \in WordKeys PROVE Times(e, k) + ToCome(k)' <= tapped'[k]
    <3>1. Times(e, k) \in Nat /\ ToCome(k) \in Nat /\ Times(e, k) + ToCome(k) <= tapped[k] /\ tapped[k] \in Nat
      BY <2>1, TimesIs, ToComeIs DEF Covered, WordInv, WordsTyped
    <3> QED BY <1>6, <1>7, <3>1
  <2>2. IsTable(terms) /\ IsTable(before) /\ Covered(terms) /\ Covered(before)
    BY DEF WordInv, WordsTyped, SaidSo
  <2>3. before' \in {before, terms}
    BY <1>2
  <2>4. ASSUME NEW b \in Askers, Asked(b)' PROVE lesson'[b] = lesson[b] /\ IsTable(lesson[b].rows) /\ Covered(lesson[b].rows)
    BY <1>3, <2>4 DEF Asked, WordInv, LessonsTyped, SaidSo
  <2> QED BY <1>2, <2>1, <2>2, <2>3, <2>4 DEF SaidSo, Covered, Times
<1>9. WhileCalm'
  <2> SUFFICES ASSUME ~ met' PROVE (Calm /\ DeletesNext /\ InsertsNext)'
    BY DEF WhileCalm
  <2>1. ~ met /\ Alone(a) /\ Calm
    BY <1>2 DEF WordInv, WhileCalm
  <2>2. \A b \in Askers : asking[b] = "idle"
    BY <1>2, <2>1 DEF Alone, Busy
  <2>3. Tells(terms)
    BY <2>1, <2>2 DEF Calm
  <2>4. working' = TRUE /\ before' = terms /\ terms' = terms
    BY <1>2, <2>1
  <2>5. Tells(terms)' /\ Tells(before)'
    BY <1>2, <2>3, <2>4 DEF Tells, Agrees, Times
  <2>6. \A b \in Askers : asking'[b] = IF b = a THEN "load" ELSE "idle"
    BY <1>3, <2>2
  <2> QED BY <2>4, <2>5, <2>6 DEF Calm, Busy, DeletesNext, InsertsNext, Tells
<1>10. Quiet'
  BY <1>2 DEF WordInv, Quiet
<1> QED BY <1>4, <1>5, <1>8, <1>9, <1>10 DEF WordInv

\* An override loads and learns.
LEMMA LoadKeeps == ASSUME WordInv, NEW a \in Askers, LoadWords(a) PROVE WordInv'
<1>1. PICK c \in Corrections : c = lesson[a]
  BY DEF WordInv, LessonsTyped, LoadWords
<1>2. PICK w : w = Learn(terms, c, clock)
  OBVIOUS
<1>3. /\ asking[a] = "load" /\ asking' = [asking EXCEPT ![a] = "delete"]
      /\ lesson' = [lesson EXCEPT ![a] = [said |-> c, rows |-> w]]
      /\ evicted' = evicted \cup ((DOMAIN terms \cup KeysOf(c)) \ DOMAIN w)
      /\ UNCHANGED <<terms, before, working, clock, tapped, taken, met, turnedAway>>
  BY <1>1, <1>2 DEF LoadWords, GoesTo, Carries
<1>4. /\ asking'[a] = "delete" /\ lesson'[a] = [said |-> c, rows |-> w]
      /\ \A b \in Askers \ {a} : asking'[b] = asking[b] /\ lesson'[b] = lesson[b]
  BY <1>3 DEF WordInv, WordsTyped
<1>5. IsTable(terms) /\ clock \in Nat
  BY DEF WordInv, WordsTyped
<1>6. /\ IsTable(w) /\ DOMAIN w \subseteq DOMAIN terms \cup KeysOf(c)
      /\ \A k \in DOMAIN w : Times(w, k) = Times(terms, k) + Adds(c, k)
      /\ Cardinality(DOMAIN terms) <= MaxTerms => Cardinality(DOMAIN w) <= MaxTerms
  BY <1>2, <1>5, LearnIs
<1>7. WordsTyped'
  BY <1>3 DEF WordInv, WordsTyped, IsTable
<1>8. LessonsTyped'
  BY <1>4, <1>6 DEF WordInv, LessonsTyped, Asked, IsTable
<1>9. \A k : ToCome(k)' + Adds(c, k) = ToCome(k)
  BY <1>1, <1>3, <1>4, OneLessToCome
<1>10. \A b \in Askers : asking'[b] = "load" => asking[b] = "load" /\ lesson'[b] = lesson[b]
  BY <1>4
<1>11. \A k : ToCome(k)' \in Nat /\ ToCome(k)' <= ToCome(k)
  BY <1>10, FewerToCome
<1>12. \A k : Adds(c, k) \in Nat
  BY DEF Adds
<1>13. SaidSo'
  <2>1. ASSUME NEW e, IsTable(e), Covered(e), NEW k \in WordKeys PROVE Times(e, k) + ToCome(k)' <= tapped'[k]
    <3>1. Times(e, k) \in Nat /\ Times(e, k) + ToCome(k) <= tapped[k]
      BY <2>1, TimesIs DEF Covered
    <3> QED BY <1>3, <1>11, <3>1, StaysCovered DEF WordInv
  <2>2. IsTable(terms) /\ IsTable(before) /\ Covered(terms) /\ Covered(before)
    BY DEF WordInv, WordsTyped, SaidSo
  <2>3. ASSUME NEW b \in Askers \ {a}, Asked(b)' PROVE lesson'[b] = lesson[b] /\ IsTable(lesson[b].rows) /\ Covered(lesson[b].rows)
    BY <1>4, <2>3 DEF Asked, WordInv, LessonsTyped, SaidSo
  <2>4. ASSUME NEW k \in WordKeys PROVE Times(w, k) + ToCome(k)' <= tapped'[k]
    <3>1. Times(terms, k) \in Nat /\ Times(terms, k) + ToCome(k) <= tapped[k]
      BY <2>2, TimesIs DEF Covered
    <3>2. CASE k \in DOMAIN w
      BY <1>3, <1>6, <1>9, <1>11, <1>12, <3>1, <3>2
    <3>3. CASE k \notin DOMAIN w
      <4>1. Times(w, k) = 0 /\ 0 \in Nat /\ 0 <= Times(terms, k)
        BY <1>6, <3>1, <3>3, TimesIs
      <4> QED BY <1>3, <1>11, <3>1, <4>1, StaysCovered DEF WordInv
    <3> QED BY <3>2, <3>3
  <2>5. lesson'[a].rows = w
    BY <1>4
  <2>6. Covered(terms)' /\ Covered(before)'
    BY <1>3, <2>1, <2>2 DEF Covered, Times
  <2>7. ASSUME NEW b \in Askers, Asked(b)' PROVE Covered(lesson[b].rows)'
    <3>1. CASE b = a
      BY <2>4, <2>5, <3>1 DEF Covered, Times
    <3>2. CASE b # a
      <4>1. lesson'[b] = lesson[b] /\ IsTable(lesson[b].rows) /\ Covered(lesson[b].rows)
        BY <2>3, <2>7, <3>2
      <4> QED BY <2>1, <4>1 DEF Covered, Times
    <3> QED BY <3>1, <3>2
  <2> QED BY <2>6, <2>7 DEF SaidSo
<1>14. WhileCalm'
  <2> SUFFICES ASSUME ~ met' PROVE (Calm /\ DeletesNext /\ InsertsNext)'
    BY DEF WhileCalm
  <2>1. ~ met /\ Calm
    BY <1>3 DEF WordInv, WhileCalm
  <2>2. \A b \in Askers \ {a} : asking[b] = "idle"
    BY <1>3, <2>1 DEF Calm, Busy
  <2>3. Tells(terms) /\ working /\ Tells(before)
    BY <1>3, <2>1, <2>2 DEF Calm, Busy
  <2>4. ASSUME NEW e, IsTable(e), Tells(e), NEW k \in WordKeys
        PROVE  IF k \in evicted' THEN Times(e, k) <= taken[k] ELSE Times(e, k) = taken[k]
    <3>1. IF k \in evicted THEN Times(e, k) <= taken[k] ELSE Times(e, k) = taken[k]
      BY <2>4 DEF Tells, Agrees
    <3>2. Times(e, k) \in Nat /\ taken[k] \in Nat
      BY <2>4, TimesIs DEF WordInv, WordsTyped
    <3> QED BY <1>3, <3>1, <3>2
  <2>5. Tells(terms)' /\ Tells(before)'
    <3>1. IsTable(before)
      BY DEF WordInv, WordsTyped
    <3> QED BY <1>3, <1>5, <2>3, <2>4, <3>1 DEF Tells, Agrees, Times
  <2>6. ASSUME NEW k \in WordKeys
        PROVE  IF k \in evicted' THEN Times(w, k) <= taken[k] + Adds(c, k) ELSE Times(w, k) = taken[k] + Adds(c, k)
    <3>1. IF k \in evicted' THEN Times(terms, k) <= taken[k] ELSE Times(terms, k) = taken[k]
      BY <1>5, <2>3, <2>4
    <3>2. Times(terms, k) \in Nat /\ taken[k] \in Nat /\ Adds(c, k) \in Nat
      BY <1>5, <1>12, TimesIs DEF WordInv, WordsTyped
    <3>3. CASE k \in DOMAIN w
      BY <1>6, <3>1, <3>2, <3>3
    <3>4. CASE k \notin DOMAIN w
      <4>1. Times(w, k) = 0
        BY <1>6, <3>4, TimesIs
      <4>2. CASE k \in evicted'
        BY <3>2, <4>1, <4>2
      <4>3. CASE k \notin evicted'
        <5>1. k \notin DOMAIN terms /\ k \notin KeysOf(c)
          BY <1>3, <3>4, <4>3
        <5>2. Times(terms, k) = 0 /\ Adds(c, k) = 0
          BY <1>5, <5>1, TimesIs DEF Adds
        <5> QED BY <3>1, <4>1, <4>3, <5>2
      <4> QED BY <4>2, <4>3
    <3> QED BY <3>3, <3>4
  <2>7. Cardinality(DOMAIN w) <= MaxTerms
    BY <1>6, <2>3 DEF Tells
  <2>8. lesson'[a].rows = w /\ lesson'[a].said = c
    BY <1>4
  <2>9. \A b \in Askers : asking'[b] = IF b = a THEN "delete" ELSE "idle"
    BY <1>4, <2>2
  <2>10. DeletesNext'
    BY <1>3, <2>6, <2>7, <2>8, <2>9 DEF DeletesNext, Agrees, Times, Adds, KeysOf
  <2>11. Calm'
    BY <1>3, <2>3, <2>5, <2>9 DEF Calm, Busy, Tells
  <2> QED BY <2>9, <2>10, <2>11 DEF InsertsNext
<1>15. Quiet'
  BY <1>3 DEF WordInv, Quiet
<1> QED BY <1>7, <1>8, <1>13, <1>14, <1>15 DEF WordInv

\* An override empties the table.
LEMMA DeleteKeeps == ASSUME WordInv, NEW a \in Askers, DeleteWords(a) PROVE WordInv'
<1>1. /\ asking[a] = "delete" /\ terms' = NoWords /\ asking' = [asking EXCEPT ![a] = "insert"]
      /\ UNCHANGED <<before, working, lesson, clock, tapped, taken, evicted, met, turnedAway>>
  BY DEF DeleteWords, GoesTo, tallies
<1>2. asking'[a] = "insert" /\ \A b \in Askers \ {a} : asking'[b] = asking[b]
  BY <1>1 DEF WordInv, WordsTyped
<1>3. WordsTyped'
  <2>1. IsTable(terms)' /\ IsTable(before)'
    BY <1>1, NothingSaid DEF WordInv, WordsTyped, IsTable
  <2> QED BY <1>1, <2>1 DEF WordInv, WordsTyped
<1>4. LessonsTyped'
  BY <1>1, <1>2 DEF WordInv, LessonsTyped, Asked, IsTable
<1>5. \A k : ToCome(k)' \in Nat /\ ToCome(k)' <= ToCome(k)
  <2>1. \A b \in Askers : asking'[b] = "load" => asking[b] = "load" /\ lesson'[b] = lesson[b]
    BY <1>1, <1>2
  <2> QED BY <2>1, FewerToCome
<1>6. SaidSo'
  <2>1. ASSUME NEW e, IsTable(e), Covered(e), NEW k \in WordKeys PROVE Times(e, k) + ToCome(k)' <= tapped'[k]
    <3>1. Times(e, k) \in Nat /\ Times(e, k) + ToCome(k) <= tapped[k]
      BY <2>1, TimesIs DEF Covered
    <3> QED BY <1>1, <1>5, <3>1, StaysCovered DEF WordInv
  <2>2. IsTable(before) /\ Covered(before) /\ IsTable(terms) /\ Covered(terms)
    BY DEF WordInv, WordsTyped, SaidSo
  <2>3. ASSUME NEW k \in WordKeys PROVE Times(NoWords, k) + ToCome(k)' <= tapped'[k]
    <3>1. Times(NoWords, k) = 0 /\ 0 \in Nat
      BY NothingSaid, TimesIs
    <3>2. Times(terms, k) \in Nat /\ Times(terms, k) + ToCome(k) <= tapped[k]
      BY <2>2, TimesIs DEF Covered
    <3>3. 0 <= Times(terms, k)
      BY <3>2
    <3> QED BY <1>1, <1>5, <3>1, <3>2, <3>3, StaysCovered DEF WordInv
  <2>4. Covered(terms)' /\ Covered(before)'
    BY <1>1, <2>1, <2>2, <2>3 DEF Covered, Times
  <2>5. ASSUME NEW b \in Askers, Asked(b)' PROVE Covered(lesson[b].rows)'
    <3>1. Asked(b)
      BY <1>1, <1>2, <2>5 DEF Asked
    <3>2. IsTable(lesson[b].rows) /\ Covered(lesson[b].rows)
      BY <3>1 DEF WordInv, LessonsTyped, SaidSo
    <3> QED BY <1>1, <2>1, <3>2 DEF Covered, Times
  <2> QED BY <2>4, <2>5 DEF SaidSo
<1>7. WhileCalm'
  <2> SUFFICES ASSUME ~ met' PROVE (Calm /\ DeletesNext /\ InsertsNext)'
    BY DEF WhileCalm
  <2>1. ~ met /\ Calm /\ DeletesNext
    BY <1>1 DEF WordInv, WhileCalm
  <2>2. \A b \in Askers : asking'[b] = IF b = a THEN "insert" ELSE "idle"
    BY <1>1, <1>2, <2>1 DEF Calm, Busy
  <2>3. working /\ Tells(before)
    BY <1>1, <2>1 DEF Calm, Busy
  <2>4. Tells(before)'
    BY <1>1, <2>3 DEF Tells, Agrees, Times
  <2>5. Cardinality(DOMAIN terms') <= MaxTerms /\ DOMAIN terms' = {}
    BY <1>1, NothingSaid, LexiconAssumption
  <2>6. Calm'
    BY <1>1, <2>2, <2>3, <2>4, <2>5 DEF Calm, Busy
  <2>7. InsertsNext'
    <3>1. PICK w : w = lesson[a].rows
      OBVIOUS
    <3>2. PICK c : c = lesson[a].said
      OBVIOUS
    <3>3. IsTable(w) /\ Cardinality(DOMAIN w) <= MaxTerms
      BY <1>1, <2>1, <3>1 DEF WordInv, LessonsTyped, Asked, DeletesNext
    <3>4. ASSUME NEW k \in WordKeys
          PROVE  IF k \in evicted THEN Times(terms', k) + Times(w, k) <= taken[k] + Adds(c, k)
                                  ELSE Times(terms', k) + Times(w, k) = taken[k] + Adds(c, k)
      <4>1. IF k \in evicted THEN Times(w, k) <= taken[k] + Adds(c, k) ELSE Times(w, k) = taken[k] + Adds(c, k)
        BY <1>1, <2>1, <3>1, <3>2 DEF DeletesNext, Agrees
      <4>2. Times(terms', k) = 0 /\ Times(w, k) \in Nat
        BY <1>1, <3>3, NothingSaid, TimesIs
      <4> QED BY <4>1, <4>2
    <3>5. DOMAIN terms' \cup DOMAIN w = DOMAIN w /\ DOMAIN terms' \cap DOMAIN w = {}
      BY <2>5
    <3>6. ASSUME NEW b \in Askers, asking'[b] = "insert"
          PROVE  /\ DOMAIN terms' \cap DOMAIN lesson'[b].rows = {}
                 /\ Cardinality(DOMAIN terms' \cup DOMAIN lesson'[b].rows) <= MaxTerms
                 /\ \A k \in WordKeys :
                      IF k \in evicted' THEN Times(terms', k) + Times(lesson'[b].rows, k) <= taken'[k] + Adds(lesson'[b].said, k)
                                        ELSE Times(terms', k) + Times(lesson'[b].rows, k) = taken'[k] + Adds(lesson'[b].said, k)
      <4>1. b = a /\ lesson'[b].rows = w /\ lesson'[b].said = c /\ evicted' = evicted /\ taken' = taken
        BY <1>1, <2>2, <3>1, <3>2, <3>6
      <4> QED BY <3>3, <3>4, <3>5, <4>1
    <3> QED BY <3>6 DEF InsertsNext, Agrees, Times, Adds, KeysOf
  <2> QED BY <2>2, <2>6, <2>7 DEF DeletesNext
<1>8. Quiet'
  BY <1>1 DEF WordInv, Quiet
<1> QED BY <1>3, <1>4, <1>6, <1>7, <1>8 DEF WordInv

\* A row of w that goes to e, and what is left of w.
RowIn(e, w, k) == [j \in DOMAIN e \cup {k} |-> IF j = k THEN w[k] ELSE e[j]]
RowOut(w, k) == Restrict(w, DOMAIN w \ {k})
RowGone(e, w, k) ==
  /\ IsTable(RowIn(e, w, k)) /\ DOMAIN RowIn(e, w, k) = DOMAIN e \cup {k}
  /\ IsTable(RowOut(w, k)) /\ DOMAIN RowOut(w, k) = DOMAIN w \ {k}
  /\ \A j : Times(RowIn(e, w, k), j) = (IF j = k THEN Times(w, j) ELSE Times(e, j))
  /\ \A j : Times(RowOut(w, k), j) = (IF j = k THEN 0 ELSE Times(w, j))

\* A row goes from what is still to insert to the table.
LEMMA RowGoes ==
  ASSUME NEW e, IsTable(e), NEW w, IsTable(w), NEW k, k \in DOMAIN w, k \notin DOMAIN e
  PROVE  RowGone(e, w, k)
<1> DEFINE f == RowIn(e, w, k)
           v == RowOut(w, k)
<1>1. DOMAIN f = DOMAIN e \cup {k} /\ f[k] = w[k] /\ \A j \in DOMAIN e : f[j] = e[j]
  BY DEF RowIn
<1>2. v = [j \in DOMAIN w \ {k} |-> w[j]]
  BY DEF Restrict, RowOut
<1>3. DOMAIN v = DOMAIN w \ {k} /\ \A j \in DOMAIN v : v[j] = w[j]
  BY <1>2
<1>4. IsTable(f)
  <2>1. IsFiniteSet(DOMAIN f)
    BY <1>1, FS_AddElement DEF IsTable
  <2>2. f = [j \in DOMAIN f |-> f[j]]
    BY DEF RowIn
  <2>3. DOMAIN f \in SUBSET WordKeys /\ \A j \in DOMAIN f : f[j] \in Evidence
    BY <1>1 DEF IsTable
  <2> QED BY <2>1, <2>2, <2>3 DEF IsTable
<1>5. IsTable(v)
  <2>1. IsFiniteSet(DOMAIN v)
    BY <1>3, FS_RemoveElement DEF IsTable
  <2>2. v = [j \in DOMAIN v |-> v[j]]
    BY <1>2
  <2>3. DOMAIN v \in SUBSET WordKeys /\ \A j \in DOMAIN v : v[j] \in Evidence
    BY <1>3 DEF IsTable
  <2> QED BY <2>1, <2>2, <2>3 DEF IsTable
<1>6. \A j : Times(f, j) = (IF j = k THEN Times(w, j) ELSE Times(e, j))
  BY <1>1 DEF Times
<1>7. \A j : Times(v, j) = (IF j = k THEN 0 ELSE Times(w, j))
  BY <1>3 DEF Times
<1> QED BY <1>1, <1>3, <1>4, <1>5, <1>6, <1>7 DEF RowGone

\* An override inserts a row.
LEMMA InsertKeeps == ASSUME WordInv, NEW a \in Askers, InsertWord(a) PROVE WordInv'
<1>1. PICK w : w = lesson[a].rows
  OBVIOUS
<1>2. PICK c \in Corrections : c = lesson[a].said
  BY DEF WordInv, LessonsTyped, Asked, InsertWord
<1>3. asking[a] = "insert" /\ w # NoWords /\ IsTable(w) /\ lesson[a] = [said |-> c, rows |-> w]
  BY <1>1, <1>2 DEF WordInv, LessonsTyped, Asked, InsertWord
<1>4. PICK k \in DOMAIN w : k = NextRow(w)
  BY <1>3, NextRowIs
<1>5. PICK v : v = Restrict(w, DOMAIN w \ {k})
  OBVIOUS
<1>6. /\ k \notin DOMAIN terms
      /\ terms' = [j \in DOMAIN terms \cup {k} |-> IF j = k THEN w[k] ELSE terms[j]]
      /\ lesson' = [lesson EXCEPT ![a] = [said |-> c, rows |-> v]]
      /\ UNCHANGED <<before, working, asking, clock, tapped, taken, evicted, met, turnedAway>>
  <2>1. [lesson[a] EXCEPT !.rows = Restrict(w, DOMAIN w \ {k})] = [said |-> c, rows |-> v]
    BY <1>3, <1>5
  <2> QED BY <1>1, <1>4, <2>1 DEF InsertWord, Carries, tallies
<1>7. IsTable(terms)
  BY DEF WordInv, WordsTyped
<1>8. /\ IsTable(terms') /\ DOMAIN terms' = DOMAIN terms \cup {k} /\ IsTable(v) /\ DOMAIN v = DOMAIN w \ {k}
      /\ \A j : Times(terms', j) = (IF j = k THEN Times(w, j) ELSE Times(terms, j))
      /\ \A j : Times(v, j) = (IF j = k THEN 0 ELSE Times(w, j))
  <2>1. PICK e : e = terms
    OBVIOUS
  <2>2. IsTable(w) /\ IsTable(e) /\ k \in DOMAIN w /\ k \notin DOMAIN e
    BY <1>3, <1>4, <1>6, <1>7, <2>1
  <2>3. RowGone(e, w, k)
    BY <2>2, RowGoes
  <2>4. terms' = RowIn(e, w, k) /\ v = RowOut(w, k)
    BY <1>5, <1>6, <2>1 DEF RowIn, RowOut
  <2> QED BY <2>1, <2>3, <2>4 DEF RowGone
<1>9. lesson'[a] = [said |-> c, rows |-> v] /\ \A b \in Askers \ {a} : lesson'[b] = lesson[b]
  BY <1>6 DEF WordInv, WordsTyped
<1>10. WordsTyped'
  <2>1. IsTable(terms') /\ IsTable(before) /\ before' = before
    BY <1>6, <1>8 DEF WordInv, WordsTyped
  <2>2. IsTable(terms)' /\ IsTable(before)'
    BY <2>1 DEF IsTable
  <2>3. lesson' = [b \in Askers |-> lesson'[b]]
    BY <1>6 DEF WordInv, WordsTyped
  <2> QED BY <1>6, <2>3, <2>2 DEF WordInv, WordsTyped
<1>11. LessonsTyped'
  <2>1. ASSUME NEW b \in Askers
        PROVE  /\ asking'[b] = "load" => lesson'[b] \in Corrections
               /\ asking'[b] \in {"delete", "insert"} =>
                    /\ lesson'[b] = [said |-> lesson'[b].said, rows |-> lesson'[b].rows]
                    /\ lesson'[b].said \in Corrections /\ IsTable(lesson'[b].rows)
    <3>1. CASE b = a
      BY <1>3, <1>6, <1>8, <1>9, <3>1
    <3>2. CASE b # a
      BY <1>6, <1>9, <3>2 DEF WordInv, LessonsTyped, Asked
    <3> QED BY <3>1, <3>2
  <2> QED BY <2>1 DEF LessonsTyped, Asked, IsTable
<1>12. \A j : ToCome(j)' \in Nat /\ ToCome(j)' <= ToCome(j)
  <2>1. \A b \in Askers : asking'[b] = "load" => asking[b] = "load" /\ lesson'[b] = lesson[b]
    BY <1>3, <1>6, <1>9
  <2> QED BY <2>1, FewerToCome
<1>13. SaidSo'
  <2>1. ASSUME NEW e, IsTable(e), Covered(e), NEW j \in WordKeys PROVE Times(e, j) + ToCome(j)' <= tapped'[j]
    <3>1. Times(e, j) \in Nat /\ Times(e, j) + ToCome(j) <= tapped[j]
      BY <2>1, TimesIs DEF Covered
    <3> QED BY <1>6, <1>12, <3>1, StaysCovered DEF WordInv
  <2>2. IsTable(before) /\ Covered(before) /\ Covered(terms) /\ Covered(w)
    BY <1>1, <1>3 DEF WordInv, WordsTyped, SaidSo, Asked
  <2>3. ASSUME NEW j \in WordKeys
        PROVE  Times(terms', j) + ToCome(j)' <= tapped'[j] /\ Times(v, j) + ToCome(j)' <= tapped'[j]
    <3>1. Times(terms, j) + ToCome(j)' <= tapped'[j] /\ Times(w, j) + ToCome(j)' <= tapped'[j]
      BY <1>3, <1>7, <2>1, <2>2
    <3>2. Times(w, j) \in Nat /\ ToCome(j)' \in Nat /\ tapped'[j] \in Nat
      BY <1>3, <1>6, <1>12, TimesIs DEF WordInv, WordsTyped
    <3> QED BY <1>8, <3>1, <3>2
  <2>4. Covered(terms)' /\ Covered(before)'
    BY <1>6, <2>1, <2>2, <2>3 DEF Covered, Times
  <2>5. ASSUME NEW b \in Askers, Asked(b)' PROVE Covered(lesson[b].rows)'
    <3>1. CASE b = a
      <4>1. lesson'[b].rows = v
        BY <1>9, <3>1
      <4> QED BY <2>3, <4>1 DEF Covered, Times
    <3>2. CASE b # a
      <4>1. lesson'[b] = lesson[b] /\ IsTable(lesson[b].rows) /\ Covered(lesson[b].rows)
        BY <1>6, <1>9, <2>5, <3>2 DEF WordInv, LessonsTyped, SaidSo, Asked
      <4> QED BY <2>1, <4>1 DEF Covered, Times
    <3> QED BY <3>1, <3>2
  <2> QED BY <2>4, <2>5 DEF SaidSo
<1>14. WhileCalm'
  <2> SUFFICES ASSUME ~ met' PROVE (Calm /\ DeletesNext /\ InsertsNext)'
    BY DEF WhileCalm
  <2>1. ~ met /\ Calm /\ InsertsNext
    BY <1>6 DEF WordInv, WhileCalm
  <2>2. \A b \in Askers : asking'[b] = IF b = a THEN "insert" ELSE "idle"
    BY <1>3, <1>6, <2>1 DEF Calm, Busy
  <2>3. working /\ Tells(before)
    BY <1>3, <2>1 DEF Calm, Busy
  <2>4. Tells(before)'
    BY <1>6, <2>3 DEF Tells, Agrees, Times
  <2>5. /\ DOMAIN terms \cap DOMAIN w = {} /\ Cardinality(DOMAIN terms \cup DOMAIN w) <= MaxTerms
        /\ \A j \in WordKeys : Agrees(j, Times(terms, j) + Times(w, j), taken[j] + Adds(c, j))
    BY <1>1, <1>2, <1>3, <2>1 DEF InsertsNext
  <2>6. DOMAIN terms' \cap DOMAIN v = {} /\ DOMAIN terms' \cup DOMAIN v = DOMAIN terms \cup DOMAIN w
    BY <1>8, <2>5
  <2>7. Cardinality(DOMAIN terms') <= MaxTerms
    <3>1. DOMAIN terms' \in SUBSET (DOMAIN terms \cup DOMAIN w) /\ IsFiniteSet(DOMAIN terms \cup DOMAIN w)
      BY <1>3, <1>7, <2>6, FS_Union DEF IsTable
    <3>2. /\ Cardinality(DOMAIN terms') <= Cardinality(DOMAIN terms \cup DOMAIN w)
          /\ Cardinality(DOMAIN terms') \in Nat /\ Cardinality(DOMAIN terms \cup DOMAIN w) \in Nat
      BY <3>1, FS_Subset, FS_CardinalityType
    <3> QED BY <2>5, <3>2, LexiconAssumption
  <2>8. ASSUME NEW j \in WordKeys PROVE Times(terms', j) + Times(v, j) = Times(terms, j) + Times(w, j)
    <3>1. Times(terms, j) \in Nat /\ Times(w, j) \in Nat /\ (j = k => Times(terms, j) = 0)
      BY <1>3, <1>6, <1>7, TimesIs
    <3> QED BY <1>8, <3>1
  <2>9. Calm'
    BY <1>6, <2>2, <2>3, <2>4, <2>7 DEF Calm, Busy
  <2>10. InsertsNext'
    <3>1. lesson'[a].rows = v /\ lesson'[a].said = c
      BY <1>9
    <3>2. ASSUME NEW j \in WordKeys
          PROVE  IF j \in evicted THEN Times(terms', j) + Times(v, j) <= taken[j] + Adds(c, j)
                                  ELSE Times(terms', j) + Times(v, j) = taken[j] + Adds(c, j)
      BY <2>5, <2>8 DEF Agrees
    <3>3. ASSUME NEW b \in Askers, asking'[b] = "insert"
          PROVE  /\ DOMAIN terms' \cap DOMAIN lesson'[b].rows = {}
                 /\ Cardinality(DOMAIN terms' \cup DOMAIN lesson'[b].rows) <= MaxTerms
                 /\ \A j \in WordKeys :
                      IF j \in evicted' THEN Times(terms', j) + Times(lesson'[b].rows, j) <= taken'[j] + Adds(lesson'[b].said, j)
                                        ELSE Times(terms', j) + Times(lesson'[b].rows, j) = taken'[j] + Adds(lesson'[b].said, j)
      <4>1. b = a /\ lesson'[b].rows = v /\ lesson'[b].said = c /\ evicted' = evicted /\ taken' = taken
        BY <1>6, <2>2, <3>1, <3>3
      <4> QED BY <2>5, <2>6, <3>2, <4>1
    <3> QED BY <3>3 DEF InsertsNext, Agrees, Times, Adds, KeysOf
  <2> QED BY <2>2, <2>9, <2>10 DEF DeletesNext
<1>15. Quiet'
  BY <1>6 DEF WordInv, Quiet
<1> QED BY <1>10, <1>11, <1>13, <1>14, <1>15 DEF WordInv

\* An override ends.
LEMMA LearnedKeeps == ASSUME WordInv, NEW a \in Askers, Learned(a) PROVE WordInv'
<1>1. PICK c \in Corrections : c = lesson[a].said
  BY DEF WordInv, LessonsTyped, Asked, Learned
<1>2. /\ asking[a] = "insert" /\ lesson[a].rows = NoWords
      /\ taken' = [k \in WordKeys |-> taken[k] + IF k \in KeysOf(c) THEN 1 ELSE 0]
      /\ IF Alone(a) THEN working' = FALSE /\ before' = NoWords ELSE UNCHANGED <<before, working>>
      /\ asking' = [asking EXCEPT ![a] = "idle"] /\ lesson' = [lesson EXCEPT ![a] = NoWords]
      /\ UNCHANGED <<terms, clock, evicted, tapped, met, turnedAway>>
  BY <1>1 DEF Learned, LetGo, Leaves, GoesTo, Carries, WordRead
<1>3. asking'[a] = "idle" /\ \A b \in Askers \ {a} : asking'[b] = asking[b] /\ lesson'[b] = lesson[b]
  BY <1>2 DEF WordInv, WordsTyped
<1>4. WordsTyped'
  <2>1. taken' \in [WordKeys -> Nat]
    BY <1>2 DEF WordInv, WordsTyped
  <2>2. \A e \in {terms, before, NoWords} : IsTable(e)
    BY NothingSaid DEF WordInv, WordsTyped
  <2>3. terms' \in {terms, before, NoWords} /\ before' \in {terms, before, NoWords}
    BY <1>2
  <2>4. IsTable(terms)' /\ IsTable(before)'
    BY <2>2, <2>3 DEF IsTable
  <2>5. /\ tapped' \in [WordKeys -> Nat] /\ clock' \in Nat /\ lesson' = [b \in Askers |-> lesson'[b]]
        /\ asking' \in [Askers -> {"idle", "load", "delete", "insert"}]
    BY <1>2 DEF WordInv, WordsTyped
  <2> QED BY <2>1, <2>4, <2>5 DEF WordsTyped
<1>5. LessonsTyped'
  BY <1>3 DEF WordInv, LessonsTyped, Asked, IsTable
<1>6. \A k : ToCome(k)' \in Nat /\ ToCome(k)' <= ToCome(k)
  BY <1>3, FewerToCome
<1>7. SaidSo'
  <2>1. ASSUME NEW e, IsTable(e), Covered(e), NEW k \in WordKeys PROVE Times(e, k) + ToCome(k)' <= tapped'[k]
    <3>1. Times(e, k) \in Nat /\ Times(e, k) + ToCome(k) <= tapped[k]
      BY <2>1, TimesIs DEF Covered
    <3> QED BY <1>2, <1>6, <3>1, StaysCovered DEF WordInv
  <2>2. IsTable(terms) /\ IsTable(before) /\ Covered(terms) /\ Covered(before)
    BY DEF WordInv, WordsTyped, SaidSo
  <2>3. ASSUME NEW k \in WordKeys PROVE Times(NoWords, k) + ToCome(k)' <= tapped'[k]
    <3>1. Times(NoWords, k) = 0 /\ 0 \in Nat
      BY NothingSaid, TimesIs
    <3>2. Times(terms, k) \in Nat /\ Times(terms, k) + ToCome(k) <= tapped[k]
      BY <2>2, TimesIs DEF Covered
    <3>3. 0 <= Times(terms, k)
      BY <3>2
    <3> QED BY <1>2, <1>6, <3>1, <3>2, <3>3, StaysCovered DEF WordInv
  <2>4. before' \in {before, NoWords}
    BY <1>2
  <2>5. Covered(terms)' /\ Covered(before)'
    BY <1>2, <2>1, <2>2, <2>3, <2>4 DEF Covered, Times
  <2>6. ASSUME NEW b \in Askers, Asked(b)' PROVE Covered(lesson[b].rows)'
    <3>1. lesson'[b] = lesson[b] /\ IsTable(lesson[b].rows) /\ Covered(lesson[b].rows)
      BY <1>3, <2>6 DEF WordInv, LessonsTyped, SaidSo, Asked
    <3> QED BY <2>1, <3>1 DEF Covered, Times
  <2> QED BY <2>5, <2>6 DEF SaidSo
<1>8. WhileCalm'
  <2> SUFFICES ASSUME ~ met' PROVE (Calm /\ DeletesNext /\ InsertsNext)'
    BY DEF WhileCalm
  <2>1. ~ met /\ Calm /\ InsertsNext
    BY <1>2 DEF WordInv, WhileCalm
  <2>2. \A b \in Askers : asking'[b] = "idle"
    BY <1>2, <1>3, <2>1 DEF Calm, Busy
  <2>3. Cardinality(DOMAIN terms) <= MaxTerms
    BY <2>1 DEF Calm
  <2>4. ASSUME NEW k \in WordKeys PROVE IF k \in evicted' THEN Times(terms', k) <= taken'[k] ELSE Times(terms', k) = taken'[k]
    <3>1. Agrees(k, Times(terms, k) + Times(NoWords, k), taken[k] + Adds(c, k))
      BY <1>1, <1>2, <2>1 DEF InsertsNext
    <3>2. Times(NoWords, k) = 0 /\ Times(terms, k) \in Nat
      BY NothingSaid, TimesIs DEF WordInv, WordsTyped
    <3>3. taken'[k] = taken[k] + Adds(c, k)
      BY <1>2 DEF Adds
    <3> QED BY <1>2, <3>1, <3>2, <3>3 DEF Agrees
  <2>5. Tells(terms)'
    BY <1>2, <2>3, <2>4 DEF Tells, Agrees, Times
  <2> QED BY <2>2, <2>5 DEF Calm, Busy, DeletesNext, InsertsNext, Tells
<1>9. Quiet'
  BY <1>2 DEF WordInv, Quiet
<1> QED BY <1>4, <1>5, <1>7, <1>8, <1>9 DEF WordInv

\* A family begins with no words of its own.
LEMMA WordsBegin == LexiconInit => WordInv
<1> SUFFICES ASSUME LexiconInit PROVE WordInv
  OBVIOUS
<1>1. /\ terms = NoWords /\ before = NoWords /\ \A a \in Askers : asking[a] = "idle"
      /\ \A k \in WordKeys : tapped[k] = 0 /\ taken[k] = 0
  BY DEF LexiconInit
<1>2. WordsTyped
  BY NothingSaid DEF LexiconInit, WordsTyped
<1>3. LessonsTyped
  BY <1>1 DEF LessonsTyped, Asked
<1>4. \A k : ToCome(k) = 0
  <2>1. \A k : Pending(k) = {}
    BY <1>1 DEF Pending
  <2> QED BY <2>1, FS_EmptySet DEF ToCome
<1>5. \A k : Times(NoWords, k) = 0
  BY NothingSaid, TimesIs
<1>6. SaidSo
  BY <1>1, <1>4, <1>5 DEF SaidSo, Covered, Asked
<1>7. Tells(NoWords)
  BY <1>1, <1>5, NothingSaid, LexiconAssumption DEF Tells, Agrees
<1>8. WhileCalm /\ Quiet
  BY <1>1, <1>7 DEF WhileCalm, Calm, Busy, DeletesNext, InsertsNext, Quiet, LexiconInit, Tells
<1> QED BY <1>2, <1>3, <1>6, <1>8 DEF WordInv

\* Every step of the lexicon keeps the invariant.
LEMMA WordsStep == WordInv /\ [LexiconNext]_lexiconVars => WordInv'
<1> SUFFICES ASSUME WordInv, [LexiconNext]_lexiconVars PROVE WordInv'
  OBVIOUS
<1>1. CASE LexiconStops
  BY <1>1, StopsKeepsWords
<1>2. ASSUME NEW a \in Askers,
             \/ Override(a) \/ OverrideRefused(a) \/ LoadWords(a) \/ DeleteWords(a)
             \/ InsertWord(a) \/ InsertCollides(a) \/ StatementRaises(a) \/ Learned(a)
      PROVE  WordInv'
  BY <1>2, OverrideKeeps, RefusedKeepsWords, LoadKeeps, DeleteKeeps, InsertKeeps, CollidesKeeps,
     StatementRaisesKeeps, LearnedKeeps
<1>3. CASE UNCHANGED lexiconVars
  <2> USE <1>3 DEF lexiconVars, wordVars, tallies
  <2>1. WordsTyped' /\ LessonsTyped' /\ Quiet'
    BY DEF WordInv, WordsTyped, LessonsTyped, Asked, IsTable, Quiet
  <2>2. SaidSo'
    BY DEF WordInv, SaidSo, Covered, Asked, Times, ToCome, Pending, KeysOf
  <2>3. WhileCalm'
    BY DEF WordInv, WhileCalm, Calm, Busy, Tells, Agrees, DeletesNext, InsertsNext, Times, Adds, KeysOf
  <2> QED BY <2>1, <2>2, <2>3 DEF WordInv
<1> QED BY <1>1, <1>2, <1>3 DEF LexiconNext

\* A word with one meaning has it by habit.
LEMMA HabitIs ==
  ASSUME WordInv, NEW term \in Learnable, NEW words, term \in words, NEW v \in Unambiguous(terms, "INTENT", term)
  PROVE  v \in Intents /\ FollowsAHabit(words, v)
<1> DEFINE S == Speaking(terms, "INTENT", term)
<1>1. v \in S /\ Cardinality(S) = 1
  BY DEF Unambiguous
<1>2. S \in SUBSET Intents /\ "INTENT" \in WordFields
  BY DEF Speaking, Intents, WordFields
<1>3. ASSUME NEW w \in Intents PROVE <<"INTENT", term, w>> \in WordKeys
  BY <1>2, <1>3 DEF WordKeys, Intents
<1>4. IsFiniteSet(S)
  <2>1. IsFiniteSet(DOMAIN terms)
    BY DEF WordInv, WordsTyped, IsTable
  <2> DEFINE h == [w \in S |-> <<"INTENT", term, w>>]
  <2>2. h \in Injection(S, DOMAIN terms)
    BY DEF Injection, IsInjective, Speaking
  <2> QED BY <2>1, <2>2, FS_Injection
<1>5. S = {v}
  BY <1>1, <1>4, FS_Singleton
<1>6. \A w \in Intents : w \in S <=> LET k == <<"INTENT", term, w>> IN k \in DOMAIN terms /\ terms[k].times >= MinEvidence
  BY DEF Speaking, Speaks, Intents
<1>7. \A k \in WordKeys : Times(terms, k) \in Nat /\ ToCome(k) \in Nat /\ Times(terms, k) + ToCome(k) <= tapped[k] /\ tapped[k] \in Nat
  BY TimesIs, ToComeIs DEF WordInv, WordsTyped, SaidSo, Covered
<1>8. tapped[<<"INTENT", term, v>>] >= MinEvidence
  <2>1. PICK k \in WordKeys : k = <<"INTENT", term, v>>
    BY <1>1, <1>2, <1>3
  <2>2. k \in DOMAIN terms /\ terms[k].times >= MinEvidence
    BY <1>1, <1>2, <1>6, <2>1
  <2>3. Times(terms, k) >= MinEvidence
    BY <2>2 DEF Times
  <2>4. tapped[k] >= MinEvidence
    BY <1>7, <2>3, LexiconAssumption
  <2> QED BY <2>1, <2>4
<1>9. ASSUME NEW w \in Intents \ {v}
      PROVE  \/ taken[<<"INTENT", term, w>>] < MinEvidence \/ <<"INTENT", term, w>> \in evicted \/ met
             \/ \E a \in Askers : asking[a] = "insert"
  <2> SUFFICES ASSUME <<"INTENT", term, w>> \notin evicted, ~ met, \A a \in Askers : asking[a] # "insert"
               PROVE  taken[<<"INTENT", term, w>>] < MinEvidence
    OBVIOUS
  <2>1. PICK k \in WordKeys : k = <<"INTENT", term, w>>
    BY <1>3
  <2>2. Tells(terms)
    BY DEF WordInv, WhileCalm, Calm
  <2>3. Times(terms, k) = taken[k]
    BY <2>1, <2>2 DEF Tells, Agrees
  <2>4. ~(k \in DOMAIN terms /\ terms[k].times >= MinEvidence)
    BY <1>5, <1>6, <2>1
  <2>5. Times(terms, k) < MinEvidence
    <3>1. CASE k \in DOMAIN terms
      BY <1>7, <2>4, <3>1, LexiconAssumption DEF Times
    <3>2. CASE k \notin DOMAIN terms
      BY <3>2, LexiconAssumption DEF Times
    <3> QED BY <3>1, <3>2
  <2> QED BY <2>1, <2>3, <2>5
<1> QED BY <1>1, <1>2, <1>8, <1>9 DEF FollowsAHabit

\* Where no word means a value, the family's words weigh nothing for it.
LEMMA NoWordNoWeight ==
  ASSUME NEW words, NEW v, {term \in words : v \in Unambiguous(terms, "INTENT", term)} = {}
  PROVE  WeightFor(terms, "INTENT", words, v) = 0
BY DEF WeightFor, MapThenSumSet, MapThenFoldSet

\* A guess that leaves general English has a word to leave it for.
LEMMA GuessLeaves ==
  ASSUME NEW words \in SparkWords, Guess(words) # EnglishGuess(words)
  PROVE  \E v \in Intents : \E term \in words : v \in Unambiguous(terms, "INTENT", term)
<1> SUFFICES ASSUME \A v \in Intents : {term \in words : v \in Unambiguous(terms, "INTENT", term)} = {}
             PROVE  FALSE
  OBVIOUS
<1>1. \A v \in Intents : WeightFor(terms, "INTENT", words, v) = 0
  BY NoWordNoWeight
<1>2. English[words] \in [Intents -> Nat]
  BY LexiconAssumption
<1>3. [v \in Intents |-> English[words][v] + WeightFor(terms, "INTENT", words, v)] = English[words]
  BY <1>1, <1>2
<1> QED BY <1>3 DEF Guess, EnglishGuess

\* What a parent said, and nothing else, is what the family's words say: for any words and meanings,
\* however many overrides overlap, raise or are undone.
THEOREM WordsHold == LexiconSpec => []WordsAreTheirs
<1>1. ASSUME WordInv PROVE WordsAreTheirs
  <2> USE <1>1
  <2>1. NothingInvented
    <3>1. ASSUME NEW k \in DOMAIN terms PROVE terms[k].times <= tapped[k]
      <4>1. k \in WordKeys
        BY DEF WordInv, WordsTyped, IsTable
      <4>2. Times(terms, k) = terms[k].times /\ Times(terms, k) \in Nat /\ ToCome(k) \in Nat
        BY TimesIs, ToComeIs DEF WordInv, WordsTyped, Times
      <4>3. Times(terms, k) + ToCome(k) <= tapped[k] /\ tapped[k] \in Nat
        BY <4>1 DEF WordInv, WordsTyped, SaidSo, Covered
      <4> QED BY <4>2, <4>3
    <3> QED BY <3>1 DEF NothingInvented, WordInv, WhileCalm, Calm
  <2>2. LessonFollowsItsCorrection
    <3> SUFFICES ASSUME ~ met, \A a \in Askers : ~ Busy(a)
                 PROVE  \A k \in WordKeys : IF k \in evicted THEN Times(terms, k) <= taken[k]
                                                              ELSE Times(terms, k) = taken[k]
      BY DEF LessonFollowsItsCorrection
    <3>1. Tells(terms)
      BY DEF WordInv, WhileCalm, Calm, Busy
    <3> QED BY <3>1 DEF Tells, Agrees
  <2>3. LearningIsQuiet
    BY DEF LearningIsQuiet, WordInv, Quiet
  <2>4. GuessesFollowHabits
    <3>1. ASSUME NEW words \in SparkWords, Guess(words) # EnglishGuess(words)
          PROVE  \E v \in Intents : FollowsAHabit(words, v)
      <4>1. PICK v \in Intents, term \in words : v \in Unambiguous(terms, "INTENT", term)
        BY <3>1, GuessLeaves
      <4>2. term \in Learnable
        BY DEF Learnable
      <4> QED BY <4>1, <4>2, HabitIs
    <3>2. ASSUME NEW term \in Learnable, NEW v \in SearchedIntents(term) PROVE FollowsAHabit({term}, v)
      <4>1. v \in Unambiguous(terms, "INTENT", term) /\ term \in {term}
        BY <3>2 DEF SearchedIntents
      <4> QED BY <4>1, HabitIs
    <3> QED BY <3>1, <3>2 DEF GuessesFollowHabits
  <2> QED BY <2>1, <2>2, <2>3, <2>4 DEF WordsAreTheirs
<1> QED BY <1>1, WordsBegin, WordsStep, PTL DEF LexiconSpec

=============================================================================
