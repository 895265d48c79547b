------------------------ MODULE SparkRequests_proofs ------------------------
(***************************************************************************)
(* Proofs about SparkRequests, for every number of Sparks, workers and     *)
(* days and every setting of the limits.                                   *)
(*                                                                         *)
(* The first half holds however requests overlap.  Rows are written whole, *)
(* so it is enough that every row a handler can compute is a good row: the *)
(* inductive invariant says so of the stored rows and of those about to be *)
(* written alike.                                                          *)
(***************************************************************************)
EXTENDS SparkRequests, TLAPS

\* What is true of any row the domain builds, on any day from `day` on.
WholeRow(row, day) ==
  /\ row.suggestedOn # NoDay =>
       /\ row.suggestedOn <= day
       /\ row.suggestedOn - row.captured >= MinDaysBeforeReturn
  /\ row.status \in {"SUGGESTED", "PLANNED"} => row.suggestedOn # NoDay
  /\ row.status = "SUGGESTED" => row.snoozedUntil = NoDay
  /\ row.snoozedUntil # NoDay =>
       /\ row.suggestedOn # NoDay
       /\ row.snoozedUntil >= row.suggestedOn + SnoozeCooldown

RowsWhole == \A s \in Sparks : Present(s) => WholeRow(rows[s], today)
WritesWhole == \A w \in Workers, s \in Sparks :
  pending[w].writes[s] # NoRow => WholeRow(pending[w].writes[s], today)

OverlapInv == TypeOK /\ RowsWhole /\ WritesWhole

---------------------------------------------------------------------------
(* Lemmas about the domain's transitions.                                  *)

\* A new Spark is a good row.
LEMMA NewRowWhole ==
  ASSUME NEW day \in Nat, NEW d \in Nat, NEW status \in Status, NEW said \in SUBSET Statements,
         status \notin {"SUGGESTED", "PLANNED"}
  PROVE  NewRow(d, status, said) \in Row /\ WholeRow(NewRow(d, status, said), day)
BY DEF NewRow, Row, WholeRow, Days, NoDay

\* mark_suggested, on a Spark the engine found eligible.
LEMMA SuggestedWhole ==
  ASSUME NEW day \in Nat, NEW row \in Row, WholeRow(row, day), IsEligible(row, day)
  PROVE  Suggested(row, day) \in Row /\ WholeRow(Suggested(row, day), day)
<1>1. Suggested(row, day) \in Row
  BY DEF Suggested, Row, Days, Status
<1>2. /\ Suggested(row, day).status = "SUGGESTED"
      /\ Suggested(row, day).suggestedOn = day
      /\ Suggested(row, day).snoozedUntil = NoDay
      /\ Suggested(row, day).captured = row.captured
  BY DEF Suggested, Row
<1>3. day - row.captured >= MinDaysBeforeReturn
  BY DEF IsEligible
<1> QED BY <1>1, <1>2, <1>3 DEF WholeRow, NoDay

\* snooze: the cooldown runs from an offer that was made.
LEMMA SnoozedWhole ==
  ASSUME NEW day \in Nat, NEW row \in Row, WholeRow(row, day), CanSnooze(row)
  PROVE  Snoozed(row, day) \in Row /\ WholeRow(Snoozed(row, day), day)
<1>0. day + SnoozeCooldown \in Nat
  BY LimitsAssumption DEF LimitsAssumption
<1>1. Snoozed(row, day) \in Row
  BY <1>0 DEF Snoozed, Row, Days, Status
<1>2. /\ Snoozed(row, day).status = "WAITING"
      /\ Snoozed(row, day).suggestedOn = row.suggestedOn
      /\ Snoozed(row, day).snoozedUntil = day + SnoozeCooldown
      /\ Snoozed(row, day).captured = row.captured
  BY DEF Snoozed, Row
<1>3. row.suggestedOn # NoDay /\ row.suggestedOn \in Nat /\ row.suggestedOn <= day
  BY DEF CanSnooze, WholeRow, Row, Days
<1> QED BY <1>1, <1>2, <1>3, LimitsAssumption DEF LimitsAssumption, WholeRow

\* plan follows an offer; archive, experience and a statement touch no date.
LEMMA AnsweredWhole ==
  ASSUME NEW day \in Nat, NEW row \in Row, WholeRow(row, day)
  PROVE  /\ CanPlan(row) => Planned(row) \in Row /\ WholeRow(Planned(row), day)
         /\ Archived(row) \in Row /\ WholeRow(Archived(row), day)
         /\ Experienced(row) \in Row /\ WholeRow(Experienced(row), day)
         /\ \A st \in Statements : Stated(row, st) \in Row /\ WholeRow(Stated(row, st), day)
BY DEF CanPlan, Planned, Archived, Experienced, Stated, Row, WholeRow, Status

\* A good row stays good as days pass.
LEMMA WholeLater ==
  ASSUME NEW day \in Nat, NEW row \in Row, WholeRow(row, day)
  PROVE  WholeRow(row, day + 1)
BY DEF WholeRow, Row, Days, NoDay

---------------------------------------------------------------------------
(* Lemmas about requests.                                                  *)

\* The request of one new row writes that row and no other.
LEMMA WriteOne ==
  ASSUME NEW op \in Ops, NEW s \in Sparks, NEW row \in Row, NEW makes \in SUBSET Sparks
  PROVE  /\ Write(op, s, row, makes) \in Request
         /\ Write(op, s, row, makes).op = op
         /\ Write(op, s, row, makes).makes = makes
         /\ Write(op, s, row, makes).erases = {}
         /\ Write(op, s, row, makes).writes[s] = row
         /\ \A t \in Sparks \ {s} : Write(op, s, row, makes).writes[t] = NoRow
BY DEF Write, Request, Nothing

LEMMA IdleRequest == /\ Idle \in Request
                     /\ Idle.op = "idle"
                     /\ Idle.makes = {} /\ Idle.erases = {}
                     /\ \A s \in Sparks : Idle.writes[s] = NoRow
BY DEF Idle, Request, Nothing, Ops

\* Beginning a request whose rows are good keeps the invariant.
LEMMA BeginWhole ==
  ASSUME OverlapInv, NEW w \in Workers, NEW request \in Request, Begin(w, request),
         \A s \in Sparks : request.writes[s] # NoRow => WholeRow(request.writes[s], today),
         used' \subseteq Sparks
  PROVE  OverlapInv'
<1>1. TypeOK'
  BY DEF OverlapInv, TypeOK, Begin
<1>2. RowsWhole'
  BY DEF OverlapInv, RowsWhole, Begin, Present
<1>3. WritesWhole'
  BY DEF OverlapInv, WritesWhole, Begin, TypeOK
<1> QED BY <1>1, <1>2, <1>3 DEF OverlapInv

\* The same, for the requests that write one row.
LEMMA BeginWriteWhole ==
  ASSUME OverlapInv, NEW w \in Workers, NEW op \in Ops, NEW s \in Sparks, NEW row \in Row,
         NEW makes \in SUBSET Sparks, Begin(w, Write(op, s, row, makes)),
         WholeRow(row, today), used' \subseteq Sparks
  PROVE  OverlapInv'
<1> DEFINE request == Write(op, s, row, makes)
<1>1. request \in Request
  BY WriteOne
<1>2. \A t \in Sparks : request.writes[t] # NoRow => WholeRow(request.writes[t], today)
  BY WriteOne
<1> HIDE DEF request
<1> QED BY <1>1, <1>2, BeginWhole DEF request

---------------------------------------------------------------------------
(* The overlap half.                                                       *)

\* Every step keeps the rows, stored or about to be, good.
LEMMA OverlapStep ==
  ASSUME OverlapInv, [Next]_vars
  PROVE  OverlapInv'
<1> USE DEF OverlapInv
<1>0. \A s \in Sparks : Present(s) => rows[s] \in Row /\ WholeRow(rows[s], today)
  BY DEF TypeOK, RowsWhole, Present
<1>t. today \in Nat
  BY DEF TypeOK
<1>1. CASE NextDay
  <2>1. TypeOK'
    BY <1>1 DEF NextDay, TypeOK
  <2>2. RowsWhole'
    BY <1>0, <1>1, <1>t, WholeLater DEF NextDay, RowsWhole, Present
  <2>3. WritesWhole'
    BY <1>1, <1>t, WholeLater DEF NextDay, WritesWhole, TypeOK, Request
  <2> QED BY <2>1, <2>2, <2>3
<1>2. CASE Restart
  <2>1. TypeOK'
    BY <1>2, IdleRequest DEF Restart, TypeOK
  <2>2. RowsWhole' /\ WritesWhole'
    BY <1>2, IdleRequest DEF Restart, RowsWhole, WritesWhole, Present
  <2> QED BY <2>1, <2>2
<1>3. ASSUME NEW w \in Workers, Save(w)
      PROVE  OverlapInv'
  <2>1. pending[w] \in Request
    BY DEF TypeOK
  <2>2. TypeOK'
    BY <1>3, <2>1, IdleRequest DEF Save, Saved, SavedMoments, TypeOK, Request
  <2>3. RowsWhole'
    BY <1>3, <2>1 DEF Save, Saved, RowsWhole, WritesWhole, Present, TypeOK
  <2>4. WritesWhole'
    BY <1>3, IdleRequest DEF Save, WritesWhole, TypeOK
  <2> QED BY <2>2, <2>3, <2>4
<1>4. ASSUME NEW w \in Workers, Conflict(w)
      PROVE  OverlapInv'
  <2>1. TypeOK'
    BY <1>4, IdleRequest DEF Conflict, TypeOK
  <2>2. RowsWhole' /\ WritesWhole'
    BY <1>4, IdleRequest DEF Conflict, RowsWhole, WritesWhole, Present, TypeOK
  <2> QED BY <2>1, <2>2
<1>5. ASSUME NEW w \in Workers, CaptureSpark(w) \/ AskForLater(w)
      PROVE  OverlapInv'
  <2>1. /\ "WAITING" \in Status \ {"SUGGESTED", "PLANNED"}
        /\ "CAPTURED" \in Status \ {"SUGGESTED", "PLANNED"}
        /\ {} \in SUBSET Statements /\ {"override"} \in SUBSET Statements
    BY DEF Status, Statements
  <2>2. /\ Captured(today) \in Row /\ WholeRow(Captured(today), today)
        /\ AskedForLater(today) \in Row /\ WholeRow(AskedForLater(today), today)
    BY <1>t, <2>1, NewRowWhole DEF Captured, AskedForLater
  <2>3. PICK s \in Sparks, op \in {"capture", "ask"}, row \in {Captured(today), AskedForLater(today)} :
          Begin(w, Write(op, s, row, {})) /\ used' = used \cup {s}
    BY <1>5 DEF CaptureSpark, AskForLater, BeginNew
  <2>4. used' \subseteq Sparks /\ op \in Ops
    BY <2>3 DEF TypeOK, Ops
  <2> QED BY <2>2, <2>3, <2>4, BeginWriteWhole
<1>6. ASSUME NEW w \in Workers, ImportNotes(w) \/ ImportPhotos(w)
      PROVE  OverlapInv'
  <2>1. /\ "WAITING" \in Status \ {"SUGGESTED", "PLANNED"}
        /\ "EXPERIENCED" \in Status \ {"SUGGESTED", "PLANNED"}
        /\ {} \in SUBSET Statements
    BY DEF Status
  <2>2. PICK d \in 0 .. today, s \in Sparks, status \in {"WAITING", "EXPERIENCED"},
             makes \in SUBSET Sparks :
          /\ Begin(w, Write("import", s, NewRow(d, status, {}), makes))
          /\ used' = used \cup {s}
    BY <1>6 DEF ImportNotes, ImportPhotos, BeginNew
  <2>3. used' \subseteq Sparks /\ "import" \in Ops /\ d \in Nat
    BY <1>t, <2>2 DEF TypeOK, Ops
  <2>4. NewRow(d, status, {}) \in Row /\ WholeRow(NewRow(d, status, {}), today)
    BY <1>t, <2>1, <2>3, NewRowWhole
  <2> QED BY <2>2, <2>3, <2>4, BeginWriteWhole
<1>7. ASSUME NEW w \in Workers, BringBack(w)
      PROVE  OverlapInv'
  <2>1. PICK shown \in SUBSET {s \in Sparks : Present(s)} :
          /\ \A s \in shown : IsEligible(rows[s], today)
          /\ Begin(w, [op     |-> "bring_back",
                       writes |-> [s \in Sparks |-> IF s \in shown THEN Suggested(rows[s], today)
                                                                   ELSE NoRow],
                       makes  |-> {},
                       erases |-> {}])
          /\ UNCHANGED used
    BY <1>7 DEF BringBack
  <2> DEFINE request == [op     |-> "bring_back",
                         writes |-> [s \in Sparks |-> IF s \in shown THEN Suggested(rows[s], today)
                                                                     ELSE NoRow],
                         makes  |-> {},
                         erases |-> {}]
  <2>2. \A s \in shown : Suggested(rows[s], today) \in Row /\ WholeRow(Suggested(rows[s], today), today)
    BY <1>0, <1>t, <2>1, SuggestedWhole
  <2>3. request \in Request
    BY <2>2 DEF Request, Ops
  <2>4. \A s \in Sparks : request.writes[s] # NoRow => WholeRow(request.writes[s], today)
    BY <2>2
  <2>5. used' \subseteq Sparks /\ Begin(w, request)
    BY <2>1 DEF TypeOK
  <2> HIDE DEF request
  <2> QED BY <2>3, <2>4, <2>5, BeginWhole
<1>8. ASSUME NEW w \in Workers, NEW s \in Sparks,
             \/ MaybeLater(w, s) \/ LetsDoIt(w, s) \/ NotRelevantAnymore(w, s)
             \/ MarkAsDone(w, s) \/ AnswerQuestion(w, s) \/ StateSomething(w, s)
      PROVE  OverlapInv'
  <2>1. Present(s)
    BY <1>8 DEF MaybeLater, LetsDoIt, NotRelevantAnymore, MarkAsDone, AnswerQuestion, StateSomething
  <2>2. rows[s] \in Row /\ WholeRow(rows[s], today)
    BY <1>0, <2>1
  <2>3. Spoken \subseteq Statements
    BY ConstantsAssumption DEF ConstantsAssumption
  <2>4. PICK op \in Ops, row \in Row, makes \in SUBSET Sparks :
          WholeRow(row, today) /\ BeginOn(w, op, s, row, makes)
    <3>1. {"respond", "done", "answer", "state"} \subseteq Ops
      BY DEF Ops
    <3>2. CASE MaybeLater(w, s)
      BY <1>t, <2>2, <3>1, <3>2, SnoozedWhole DEF MaybeLater
    <3>3. CASE LetsDoIt(w, s)
      BY <1>t, <2>2, <3>1, <3>3, AnsweredWhole DEF LetsDoIt
    <3>4. CASE NotRelevantAnymore(w, s)
      BY <1>t, <2>2, <3>1, <3>4, AnsweredWhole DEF NotRelevantAnymore
    <3>5. CASE MarkAsDone(w, s)
      BY <1>t, <2>2, <3>1, <3>5, AnsweredWhole DEF MarkAsDone
    <3>6. CASE AnswerQuestion(w, s)
      BY <1>t, <2>2, <3>1, <3>6, AnsweredWhole DEF AnswerQuestion
    <3>7. CASE StateSomething(w, s)
      <4>1. PICK st \in Spoken : BeginOn(w, "state", s, Stated(rows[s], st), {})
        BY <3>7 DEF StateSomething
      <4>2. Stated(rows[s], st) \in Row /\ WholeRow(Stated(rows[s], st), today)
        BY <1>t, <2>2, <2>3, AnsweredWhole
      <4> QED BY <3>1, <4>1, <4>2
    <3> QED BY <1>8, <3>2, <3>3, <3>4, <3>5, <3>6, <3>7
  <2>5. Begin(w, Write(op, s, row, makes)) /\ used' \subseteq Sparks
    BY <2>4 DEF BeginOn, TypeOK
  <2> QED BY <2>4, <2>5, BeginWriteWhole
<1>9. ASSUME NEW w \in Workers, NEW s \in Sparks, DeleteChildContent(w, s)
      PROVE  OverlapInv'
  <2> DEFINE request == [op |-> "erase", writes |-> Nothing, makes |-> {}, erases |-> {s}]
  <2>1. request \in Request /\ \A t \in Sparks : request.writes[t] = NoRow
    BY DEF Request, Ops, Nothing
  <2>2. Begin(w, request) /\ used' \subseteq Sparks
    BY <1>9 DEF DeleteChildContent, TypeOK
  <2> HIDE DEF request
  <2> QED BY <2>1, <2>2, BeginWhole
<1>10. CASE UNCHANGED vars
  BY <1>10 DEF vars, TypeOK, RowsWhole, WritesWhole, Present
<1> QED BY <1>1, <1>2, <1>3, <1>4, <1>5, <1>6, <1>7, <1>8, <1>9, <1>10 DEF Next

\* OverlapInv is an invariant of the requests, however they overlap.
THEOREM OverlapInvariant == Spec => []OverlapInv
<1>1. Init => OverlapInv
  BY IdleRequest DEF Init, OverlapInv, TypeOK, RowsWhole, WritesWhole, Present, Nothing
<1>2. OverlapInv /\ [Next]_vars => OverlapInv'
  BY OverlapStep
<1> QED BY <1>1, <1>2, PTL DEF Spec

\* Types: no handler can store, or be about to store, anything but a row.
THEOREM TypeCorrect == Spec => []TypeOK
<1>1. OverlapInv => TypeOK
  BY DEF OverlapInv
<1> QED BY <1>1, OverlapInvariant, PTL

\* No Spark is brought back before its quiet period is over, and no interleaving
\* of requests, midnights and restarts can change that.
THEOREM QuietPeriodHolds == Spec => []QuietBeforeReturning
<1>1. OverlapInv => QuietBeforeReturning
  BY DEF OverlapInv, RowsWhole, WholeRow, QuietBeforeReturning
<1> QED BY <1>1, OverlapInvariant, PTL

\* The columns of a stored row always tell one story.
THEOREM AnswersAlwaysFollowOffers == Spec => []AnswersFollowOffers
<1>1. OverlapInv => AnswersFollowOffers
  BY DEF OverlapInv, RowsWhole, WholeRow, AnswersFollowOffers
<1> QED BY <1>1, OverlapInvariant, PTL

\* Erasing a Spark erases its Moment in the same step, whatever overlaps.
THEOREM ErasureIsWhole == Spec => ErasureTakesTheMoment
<1>1. [Next]_vars => [\A s \in Sparks : Present(s) /\ rows'[s] = NoRow => s \notin moments']_vars
  <2> SUFFICES ASSUME [Next]_vars, vars' # vars, NEW s \in Sparks, Present(s), rows'[s] = NoRow
               PROVE  s \notin moments'
    OBVIOUS
  <2>1. PICK w \in Workers : Save(w)
    BY DEF Next, NextDay, Restart, Conflict, CaptureSpark, AskForLater, ImportNotes,
           ImportPhotos, BringBack, MaybeLater, LetsDoIt, NotRelevantAnymore, MarkAsDone,
           AnswerQuestion, StateSomething, DeleteChildContent, BeginNew, BeginOn, Begin,
           Present, vars
  <2>2. s \in pending[w].erases
    BY <2>1 DEF Save, Saved, Present
  <2> QED BY <2>1, <2>2 DEF Save, SavedMoments
<1> QED BY <1>1, PTL DEF Spec, ErasureTakesTheMoment

---------------------------------------------------------------------------
(* The serialised half.  When requests do not overlap, what a request is    *)
(* about to write is what its handler would compute from the archive as it  *)
(* is now: the two halves are one step.  That is the strengthening, and     *)
(* both the link of the two tables and the refinement follow from it.       *)

\* What each handler would put in `pending` if it ran now.
IsNew(request) == \E s \in used, d \in 0 .. today, st \in {"CAPTURED", "WAITING", "EXPERIENCED"},
                     said \in SUBSET Statements :
  /\ ~ Present(s)
  /\ request.writes = [Nothing EXCEPT ![s] = NewRow(d, st, said)]
  /\ request.makes = IF st \in Lived THEN {s} ELSE {}
  /\ request.erases = {}

IsOffer(request) == \E shown \in SUBSET {s \in Sparks : Present(s)} :
  /\ \A s \in shown : IsEligible(rows[s], today)
  /\ request.writes = [s \in Sparks |-> IF s \in shown THEN Suggested(rows[s], today) ELSE NoRow]
  /\ request.makes = {} /\ request.erases = {}

IsWrite(request, s, row, makes) ==
  /\ request.writes = [Nothing EXCEPT ![s] = row]
  /\ request.makes = makes /\ request.erases = {}

Answer(s, row, makes) ==
  \/ CanSnooze(rows[s]) /\ row = Snoozed(rows[s], today) /\ makes = {}
  \/ CanPlan(rows[s]) /\ row = Planned(rows[s]) /\ makes = {}
  \/ CanArchive(rows[s]) /\ row = Archived(rows[s]) /\ makes = {}
  \/ CanExperience(rows[s]) /\ row = Experienced(rows[s]) /\ makes = {s}
  \/ (\E st \in Statements : row = Stated(rows[s], st)) /\ makes = {}
IsAnswer(request) == \E s \in Sparks, row \in Row, makes \in SUBSET Sparks :
  Present(s) /\ Answer(s, row, makes) /\ IsWrite(request, s, row, makes)

IsErasure(request) == \E s \in Sparks :
  Present(s) /\ request.writes = Nothing /\ request.makes = {} /\ request.erases = {s}

Fresh(request) == IsNew(request) \/ IsOffer(request) \/ IsAnswer(request) \/ IsErasure(request)

OneAtATime == \A v, w \in Workers : pending[v] # Idle /\ pending[w] # Idle => v = w
RowsAreUsed == \A s \in Sparks : Present(s) => s \in used
Linked == \A s \in Sparks : s \in moments <=> Present(s) /\ rows[s].status \in Lived
Current == \A w \in Workers : pending[w] # Idle => Busy(w) /\ Fresh(pending[w])

SerialInv == OverlapInv /\ OneAtATime /\ RowsAreUsed /\ Linked /\ Current

\* A request begins: the archive stands still, and the request is the only one.
LEMMA BeginSerial ==
  ASSUME Serialised, SerialInv, OverlapInv', NEW w \in Workers, NEW request, Begin(w, request),
         request.op # "idle", used \subseteq used', Fresh(request)'
  PROVE  SerialInv'
<1>1. pending' = [pending EXCEPT ![w] = request] /\ pending \in [Workers -> Request]
  BY DEF Begin, SerialInv, OverlapInv, TypeOK
<1>2. \A v \in Workers : pending[v] = Idle
  BY DEF Begin, Free
<1>3. UNCHANGED <<today, rows, moments>>
  BY DEF Begin
<1>4. OneAtATime'
  BY <1>1, <1>2 DEF OneAtATime
<1>5. RowsAreUsed' /\ Linked'
  BY <1>3 DEF SerialInv, RowsAreUsed, Linked, Present
<1>6. Current'
  <2> SUFFICES ASSUME NEW v \in Workers, pending'[v] # Idle
               PROVE  Busy(v)' /\ Fresh(pending[v])'
    BY DEF Current
  <2>1. v = w /\ pending'[v] = request
    BY <1>1, <1>2
  <2>2. Busy(v)'
    BY <2>1 DEF Busy
  <2>3. Fresh(pending[v])'
    BY <2>1
  <2> QED BY <2>2, <2>3
<1> QED BY <1>4, <1>5, <1>6 DEF SerialInv

\* What the transaction of a request that is still fresh does to the two tables: what its
\* handler would do in one step.
Puts(s, row, makes) ==
  /\ rows' = [rows EXCEPT ![s] = row]
  /\ moments' = moments \cup makes
Offers(shown) ==
  /\ rows' = [s \in Sparks |-> IF s \in shown THEN Suggested(rows[s], today) ELSE rows[s]]
  /\ moments' = moments
Erases(s) ==
  /\ rows' = [rows EXCEPT ![s] = NoRow]
  /\ moments' = moments \ {s}

SavesNew == \E s \in used, d \in 0 .. today, st \in {"CAPTURED", "WAITING", "EXPERIENCED"},
               said \in SUBSET Statements :
  ~ Present(s) /\ Puts(s, NewRow(d, st, said), IF st \in Lived THEN {s} ELSE {})
SavesOffer == \E shown \in SUBSET {s \in Sparks : Present(s)} :
  (\A s \in shown : IsEligible(rows[s], today)) /\ Offers(shown)
SavesAnswer == \E s \in Sparks, row \in Row, makes \in SUBSET Sparks :
  Present(s) /\ Answer(s, row, makes) /\ Puts(s, row, makes)
SavesErasure == \E s \in Sparks : Present(s) /\ Erases(s)

LEMMA RowIsRow == ASSUME NEW row \in Row PROVE row # NoRow
BY ConstantsAssumption DEF ConstantsAssumption

\* The save of one row.
LEMMA SaveOne ==
  ASSUME SerialInv, NEW w \in Workers, Save(w), NEW s \in Sparks, NEW row \in Row,
         NEW makes \in SUBSET Sparks, IsWrite(pending[w], s, row, makes)
  PROVE  Puts(s, row, makes)
<1>1. rows \in [Sparks -> Row \cup {NoRow}] /\ row # NoRow
  BY RowIsRow DEF SerialInv, OverlapInv, TypeOK
<1>2. rows' = [rows EXCEPT ![s] = row]
  BY <1>1 DEF Save, Saved, IsWrite, Nothing
<1>3. moments' = moments \cup makes
  BY DEF Save, SavedMoments, IsWrite
<1> QED BY <1>2, <1>3 DEF Puts

LEMMA SaveIsOneStep ==
  ASSUME SerialInv, NEW w \in Workers, Save(w)
  PROVE  SavesNew \/ SavesOffer \/ SavesAnswer \/ SavesErasure
<1>1. Fresh(pending[w])
  BY DEF SerialInv, Current, Save, Busy, Idle
<1>2. /\ rows \in [Sparks -> Row \cup {NoRow}] /\ today \in Nat /\ used \subseteq Sparks
      /\ \A s \in Sparks : Present(s) => rows[s] \in Row /\ WholeRow(rows[s], today)
  BY DEF SerialInv, OverlapInv, TypeOK, RowsWhole, Present
<1>3. CASE IsNew(pending[w])
  <2>1. PICK s \in used, d \in 0 .. today, st \in {"CAPTURED", "WAITING", "EXPERIENCED"},
             said \in SUBSET Statements :
          ~ Present(s) /\ IsWrite(pending[w], s, NewRow(d, st, said), IF st \in Lived THEN {s} ELSE {})
    BY <1>3 DEF IsNew, IsWrite
  <2>2. NewRow(d, st, said) \in Row
    BY <1>2, <2>1, NewRowWhole DEF Status
  <2>3. Puts(s, NewRow(d, st, said), IF st \in Lived THEN {s} ELSE {})
    BY <1>2, <2>1, <2>2, SaveOne
  <2> QED BY <2>1, <2>3 DEF SavesNew
<1>4. CASE IsOffer(pending[w])
  <2>1. PICK shown \in SUBSET {s \in Sparks : Present(s)} :
          /\ \A s \in shown : IsEligible(rows[s], today)
          /\ pending[w].writes = [s \in Sparks |-> IF s \in shown THEN Suggested(rows[s], today) ELSE NoRow]
          /\ pending[w].makes = {} /\ pending[w].erases = {}
    BY <1>4 DEF IsOffer
  <2>2. \A s \in shown : Suggested(rows[s], today) # NoRow
    BY <1>2, <2>1, SuggestedWhole, RowIsRow
  <2>3. Offers(shown)
    BY <1>2, <2>1, <2>2 DEF Offers, Save, Saved, SavedMoments
  <2> QED BY <2>1, <2>3 DEF SavesOffer
<1>5. CASE IsAnswer(pending[w])
  BY <1>5, SaveOne DEF IsAnswer, SavesAnswer
<1>6. CASE IsErasure(pending[w])
  <2>1. PICK s \in Sparks : Present(s) /\ pending[w].writes = Nothing /\ pending[w].makes = {}
                            /\ pending[w].erases = {s}
    BY <1>6 DEF IsErasure
  <2>2. Erases(s)
    BY <1>2, <2>1 DEF Erases, Save, Saved, SavedMoments, Nothing
  <2> QED BY <2>1, <2>2 DEF SavesErasure
<1> QED BY <1>1, <1>3, <1>4, <1>5, <1>6 DEF Fresh

\* What an answer makes of a row.
LEMMA AnswerStatus ==
  ASSUME NEW row \in Row, NEW day \in Nat
  PROVE  /\ Snoozed(row, day).status = "WAITING" /\ Planned(row).status = "PLANNED"
         /\ Archived(row).status = "ARCHIVED" /\ Experienced(row).status = "EXPERIENCED"
         /\ \A st \in Statements : Stated(row, st).status = row.status
BY DEF Snoozed, Planned, Archived, Experienced, Stated, Row

LEMMA AnswerIsRow ==
  ASSUME NEW s \in Sparks, today \in Nat, rows[s] \in Row, WholeRow(rows[s], today),
         NEW row, NEW makes, Answer(s, row, makes)
  PROVE  row \in Row
BY SnoozedWhole, AnsweredWhole DEF Answer

\* No step of a serialised archive parts the two tables, or leaves a request stale.
LEMMA SerialStep ==
  ASSUME Serialised, SerialInv, [Next]_vars
  PROVE  SerialInv'
<1>0. /\ OverlapInv' /\ Spoken \subseteq Statements
      /\ rows \in [Sparks -> Row \cup {NoRow}] /\ today \in Nat /\ used \subseteq Sparks
      /\ pending \in [Workers -> Request] /\ moments \subseteq Sparks
      /\ \A s \in Sparks : Present(s) => rows[s] \in Row /\ WholeRow(rows[s], today)
  BY OverlapStep, ConstantsAssumption
     DEF ConstantsAssumption, SerialInv, OverlapInv, TypeOK, RowsWhole, Present
<1>i. Idle' = Idle /\ Idle.op = "idle"
  BY DEF Idle, Nothing
<1>1. CASE NextDay
  BY <1>0, <1>1 DEF NextDay, SerialInv, OneAtATime, RowsAreUsed, Linked, Current, Present
<1>2. CASE Restart
  BY <1>0, <1>2 DEF Restart, SerialInv, OneAtATime, RowsAreUsed, Linked, Current, Present
<1>3. ASSUME NEW w \in Workers, Conflict(w)
      PROVE  SerialInv'
  <2>1. \A v \in Workers : pending'[v] = Idle
    BY <1>0, <1>3, <1>i DEF Conflict, Busy, SerialInv, OneAtATime
  <2> QED BY <1>0, <1>3, <1>i, <2>1 DEF Conflict, SerialInv, OneAtATime, RowsAreUsed, Linked, Current, Present
<1>4. ASSUME NEW w \in Workers, Save(w)
      PROVE  SerialInv'
  <2>1. pending' = [pending EXCEPT ![w] = Idle] /\ UNCHANGED <<today, used>>
    BY <1>4 DEF Save
  <2>2. \A v \in Workers : pending'[v] = Idle
    BY <1>0, <1>4, <1>i, <2>1 DEF Save, Busy, SerialInv, OneAtATime
  <2>3. OneAtATime' /\ Current'
    BY <1>i, <2>2 DEF OneAtATime, Current
  <2>4. CASE SavesNew
    <3>1. PICK s \in used, d \in 0 .. today, st \in {"CAPTURED", "WAITING", "EXPERIENCED"},
               said \in SUBSET Statements :
            ~ Present(s) /\ Puts(s, NewRow(d, st, said), IF st \in Lived THEN {s} ELSE {})
      BY <2>4 DEF SavesNew
    <3>2. NewRow(d, st, said) \in Row /\ NewRow(d, st, said).status = st
      BY <1>0, NewRowWhole DEF Status, NewRow
    <3> QED BY <1>0, <2>1, <2>3, <3>1, <3>2, RowIsRow
            DEF Puts, SerialInv, RowsAreUsed, Linked, Present
  <2>5. CASE SavesOffer
    <3>1. PICK shown \in SUBSET {s \in Sparks : Present(s)} :
            (\A s \in shown : IsEligible(rows[s], today)) /\ Offers(shown)
      BY <2>5 DEF SavesOffer
    <3>2. \A s \in shown : /\ Suggested(rows[s], today) \in Row
                           /\ Suggested(rows[s], today).status \notin Lived
                           /\ rows[s].status \notin Lived
      BY <1>0, <3>1, SuggestedWhole DEF Suggested, Row, IsEligible, Returnable, Lived
    <3> QED BY <1>0, <2>1, <2>3, <3>1, <3>2, RowIsRow
            DEF Offers, SerialInv, RowsAreUsed, Linked, Present
  <2>6. CASE SavesAnswer
    <3>1. PICK s \in Sparks, row \in Row, makes \in SUBSET Sparks :
            Present(s) /\ Answer(s, row, makes) /\ Puts(s, row, makes)
      BY <2>6 DEF SavesAnswer
    <3>2. makes \subseteq {s} /\ (row.status \in Lived <=> rows[s].status \in Lived \/ s \in makes)
      BY <1>0, <3>1, AnswerStatus DEF CanSnooze, CanPlan, CanArchive, CanExperience, Lived, Returnable, Answer
    <3> QED BY <1>0, <2>1, <2>3, <3>1, <3>2, RowIsRow DEF Puts, SerialInv, RowsAreUsed, Linked, Present
  <2>7. CASE SavesErasure
    BY <1>0, <2>1, <2>3, <2>7 DEF SavesErasure, Erases, SerialInv, RowsAreUsed, Linked, Present
  <2> QED BY <1>4, <2>4, <2>5, <2>6, <2>7, SaveIsOneStep
<1>5. ASSUME NEW w \in Workers, CaptureSpark(w) \/ AskForLater(w) \/ ImportNotes(w) \/ ImportPhotos(w)
      PROVE  SerialInv'
  <2>1. PICK op \in Ops \ {"idle"}, s \in Sparks \ used, d \in 0 .. today,
             st \in {"CAPTURED", "WAITING", "EXPERIENCED"}, said \in SUBSET Statements :
          /\ Begin(w, Write(op, s, NewRow(d, st, said), IF st \in Lived THEN {s} ELSE {}))
          /\ used' = used \cup {s}
    <3>1. today \in 0 .. today /\ {"override"} \subseteq Statements
      BY <1>0 DEF Statements
    <3>2. /\ {"capture", "ask", "import"} \subseteq Ops \ {"idle"}
          /\ "CAPTURED" \notin Lived /\ "WAITING" \notin Lived /\ "EXPERIENCED" \in Lived
      BY DEF Ops, Lived
    <3> QED BY <1>5, <3>1, <3>2 DEF CaptureSpark, AskForLater, ImportNotes, ImportPhotos, BeginNew,
                                    Captured, AskedForLater
  <2> DEFINE request == Write(op, s, NewRow(d, st, said), IF st \in Lived THEN {s} ELSE {})
  <2>2. IsNew(request)'
    <3>1. ~ Present(s)' /\ today' = today /\ s \in used'
      BY <2>1 DEF Begin, Present, SerialInv, RowsAreUsed
    <3> QED BY <2>1, <3>1 DEF IsNew, Write
  <2>3. request.op # "idle"
    BY <2>1 DEF Write
  <2>4. Begin(w, request) /\ used \subseteq used' /\ Fresh(request)'
    BY <2>1, <2>2 DEF Fresh
  <2> HIDE DEF request
  <2> QED BY <1>0, <2>3, <2>4, BeginSerial
<1>6. ASSUME NEW w \in Workers, BringBack(w)
      PROVE  SerialInv'
  <2>1. PICK request :
          Begin(w, request) /\ IsOffer(request) /\ request.op # "idle" /\ UNCHANGED used
    BY <1>6 DEF BringBack, IsOffer
  <2>2. UNCHANGED <<today, rows>>
    BY <2>1 DEF Begin
  <2>3. Fresh(request)'
    BY <2>1, <2>2 DEF Fresh, IsOffer, Present
  <2> QED BY <1>0, <2>1, <2>3, BeginSerial
<1>7. ASSUME NEW w \in Workers, NEW s \in Sparks,
             \/ MaybeLater(w, s) \/ LetsDoIt(w, s) \/ NotRelevantAnymore(w, s)
             \/ MarkAsDone(w, s) \/ AnswerQuestion(w, s) \/ StateSomething(w, s)
      PROVE  SerialInv'
  <2>1. PICK op \in Ops \ {"idle"}, row \in Row, makes \in SUBSET Sparks :
          Present(s) /\ Answer(s, row, makes) /\ BeginOn(w, op, s, row, makes)
    <3>1. Present(s) /\ {"respond", "done", "answer", "state"} \subseteq Ops \ {"idle"}
      BY <1>7 DEF MaybeLater, LetsDoIt, NotRelevantAnymore, MarkAsDone, AnswerQuestion, StateSomething, Ops
    <3>2. \E op \in Ops \ {"idle"}, makes \in SUBSET Sparks : \E row :
            Answer(s, row, makes) /\ BeginOn(w, op, s, row, makes)
      <4>1. CASE MaybeLater(w, s)
        BY <3>1, <4>1 DEF MaybeLater, Answer
      <4>2. CASE LetsDoIt(w, s)
        BY <3>1, <4>2 DEF LetsDoIt, Answer
      <4>3. CASE NotRelevantAnymore(w, s)
        BY <3>1, <4>3 DEF NotRelevantAnymore, Answer
      <4>4. CASE MarkAsDone(w, s)
        BY <3>1, <4>4 DEF MarkAsDone, Answer
      <4>5. CASE AnswerQuestion(w, s)
        BY <3>1, <4>5 DEF AnswerQuestion, Answer
      <4>6. CASE StateSomething(w, s)
        BY <1>0, <3>1, <4>6 DEF StateSomething, Answer
      <4> QED BY <1>7, <4>1, <4>2, <4>3, <4>4, <4>5, <4>6
    <3> QED BY <1>0, <3>1, <3>2, AnswerIsRow
  <2> DEFINE request == Write(op, s, row, makes)
  <2>2. Begin(w, request) /\ used \subseteq used' /\ request.op # "idle"
    BY <2>1 DEF BeginOn, Write
  <2>3. IsAnswer(request) /\ UNCHANGED <<today, rows>>
    BY <2>1, <2>2 DEF IsAnswer, IsWrite, Write, Begin
  <2> HIDE DEF request
  <2>4. Fresh(request)'
    <3>1. PICK t \in Sparks, r \in Row, m \in SUBSET Sparks :
            Present(t) /\ Answer(t, r, m) /\ IsWrite(request, t, r, m)
      BY <2>3 DEF IsAnswer
    <3> QED BY <2>3, <3>1 DEF Fresh, IsAnswer, IsWrite, Answer, Present
  <2> QED BY <1>0, <2>2, <2>4, BeginSerial
<1>8. ASSUME NEW w \in Workers, NEW s \in Sparks, DeleteChildContent(w, s)
      PROVE  SerialInv'
  <2>1. PICK request :
          Begin(w, request) /\ IsErasure(request) /\ request.op # "idle" /\ UNCHANGED used
    BY <1>8 DEF DeleteChildContent, IsErasure
  <2>2. UNCHANGED <<today, rows>>
    BY <2>1 DEF Begin
  <2>3. Fresh(request)'
    BY <2>1, <2>2 DEF Fresh, IsErasure, Present
  <2> QED BY <1>0, <2>1, <2>3, BeginSerial
<1>9. CASE UNCHANGED vars
  <2>1. UNCHANGED <<today, rows, moments, used, pending>>
    BY <1>9 DEF vars
  <2>2. ASSUME NEW request PROVE Fresh(request) => Fresh(request)'
    <3>1. IsNew(request) => IsNew(request)'
      BY <2>1 DEF IsNew, Present
    <3>2. IsOffer(request) => IsOffer(request)'
      BY <2>1 DEF IsOffer, Present
    <3>3. IsAnswer(request) => IsAnswer(request)'
      BY <2>1 DEF IsAnswer, IsWrite, Answer, Present
    <3>4. IsErasure(request) => IsErasure(request)'
      BY <2>1 DEF IsErasure, Present
    <3> QED BY <3>1, <3>2, <3>3, <3>4 DEF Fresh
  <2>3. Current'
    BY <1>i, <2>1, <2>2 DEF SerialInv, Current, Busy
  <2> QED BY <1>0, <1>i, <2>1, <2>3 DEF SerialInv, OneAtATime, RowsAreUsed, Linked, Present
<1> QED BY <1>1, <1>2, <1>3, <1>4, <1>5, <1>6, <1>7, <1>8, <1>9 DEF Next

\* When requests do not overlap, every request about to write is what its handler would
\* compute now, and the tables of Sparks and of Moments agree.
THEOREM SerialInvariant == ASSUME Serialised PROVE Spec => []SerialInv
<1>1. Init => SerialInv
  BY IdleRequest DEF Init, SerialInv, OverlapInv, TypeOK, RowsWhole, WritesWhole, OneAtATime, RowsAreUsed,
                     Linked, Current, Present, Nothing
<1>2. SerialInv /\ [Next]_vars => SerialInv'
  BY SerialStep
<1> QED BY <1>1, <1>2, PTL DEF Spec

\* A Spark has been lived exactly when it has a Moment: no order of marking, answering,
\* importing, archiving and erasing parts the two tables.
THEOREM MomentsFollowLives == Spec => []LivedIffMoment
<1>1. CASE Serialised
  <2>1. SerialInv => LivedIffMoment
    BY DEF SerialInv, Linked, LivedIffMoment
  <2> QED BY <1>1, <2>1, SerialInvariant, PTL
<1>2. CASE ~ Serialised
  <2>1. LivedIffMoment
    BY <1>2 DEF LivedIffMoment
  <2> QED BY <2>1, PTL
<1> QED BY <1>1, <1>2

---------------------------------------------------------------------------
(* The refinement.  Deciding, conflicting and restarting change no promise, *)
(* save that a capture that never reached the archive is missed; the        *)
(* transaction is the promised step.                                        *)

Said(s) == IF Present(s) THEN rows[s].said ELSE {}

\* An id is given out, and its row is on its way.
Coming(s) == s \notin used \/ \E w \in Workers : pending[w].writes[s] # NoRow

\* The promises of all Sparks but s, or but those of S, stand still.
Still(s) == Phase(s)' = Phase(s) /\ QuietUntil(s)' = QuietUntil(s) /\ Said(s)' = Said(s)
OthersStill(S) == \A t \in Sparks \ S : Still(t)

\* A Spark's promise is a matter of its row, and without one of whether it is coming.
LEMMA SameRowSamePromise ==
  ASSUME NEW s \in Sparks, rows'[s] = rows[s], Present(s) \/ (Coming(s)' <=> Coming(s))
  PROVE  Still(s)
<1>1. CASE Present(s)
  BY <1>1 DEF Still, Phase, QuietUntil, Said, Present
<1>2. CASE ~ Present(s)
  <2>1. Phase(s) = IF Coming(s) THEN "unborn" ELSE "gone"
    BY <1>2 DEF Phase, Coming
  <2>2. Phase(s)' = IF Coming(s)' THEN "unborn" ELSE "gone"
    BY <1>2 DEF Phase, Coming, Present
  <2> QED BY <1>2, <2>1, <2>2 DEF Still, QuietUntil, Said, Present
<1> QED BY <1>1, <1>2

LEMMA PhaseOfRow ==
  ASSUME NEW s \in Sparks, Present(s), rows[s] \in Row
  PROVE  /\ Phase(s) = "asked" <=> rows[s].status = "CAPTURED"
         /\ Phase(s) = "waiting" <=> rows[s].status \in {"WAITING", "RELEVANT"}
         /\ Phase(s) = "offered" <=> rows[s].status = "SUGGESTED"
         /\ Phase(s) = "planned" <=> rows[s].status = "PLANNED"
         /\ Phase(s) = "stopped" <=> rows[s].status = "ARCHIVED"
         /\ Phase(s) = "lived" <=> rows[s].status \in Lived
         /\ Phase(s) \notin {"unborn", "gone"}
BY DEF Phase, Row, Status, Lived

\* Only a request that makes a Spark writes the row of one that has none.
LEMMA OnlyNewComes ==
  ASSUME SerialInv, NEW w \in Workers, NEW s \in Sparks, ~ Present(s), pending[w].writes[s] # NoRow
  PROVE  IsNew(pending[w])
<1>1. pending[w] # Idle
  BY IdleRequest
<1>2. Fresh(pending[w])
  BY <1>1 DEF SerialInv, Current
<1>3. ~ IsOffer(pending[w])
  BY DEF IsOffer
<1>4. ~ IsAnswer(pending[w])
  BY DEF IsAnswer, IsWrite, Nothing
<1>5. ~ IsErasure(pending[w])
  BY DEF IsErasure, Nothing
<1> QED BY <1>2, <1>3, <1>4, <1>5 DEF Fresh

\* A transaction leaves the promise of a Spark whose row it leaves.
LEMMA SaveLeaves ==
  ASSUME Serialised, SerialInv, NEW w \in Workers, Save(w), NEW s \in Sparks, rows'[s] = rows[s]
  PROVE  Still(s)
<1>1. CASE Present(s)
  BY <1>1, SameRowSamePromise
<1>2. CASE ~ Present(s)
  <2>1. \A v \in Workers : pending'[v].writes[s] = NoRow
    BY IdleRequest DEF Save, Busy, SerialInv, OneAtATime, OverlapInv, TypeOK
  <2>2. pending[w].writes[s] = NoRow
    <3>1. Fresh(pending[w])
      BY IdleRequest DEF SerialInv, Current, Save, Busy
    <3>2. s \in pending[w].erases => pending[w].writes = Nothing
      BY <3>1 DEF Fresh, IsNew, IsOffer, IsAnswer, IsErasure, IsWrite
    <3> QED BY <1>2, <3>2 DEF Save, Saved, Present, Nothing
  <2>3. \A v \in Workers : pending[v].writes[s] = NoRow
    <3> SUFFICES ASSUME NEW v \in Workers, v # w
                 PROVE  pending[v].writes[s] = NoRow
      BY <2>2
    <3>1. pending[v] = Idle
      BY IdleRequest DEF Save, Busy, SerialInv, OneAtATime
    <3> QED BY <3>1, IdleRequest
  <2>4. Coming(s)' <=> Coming(s)
    BY <2>1, <2>3 DEF Coming, Save
  <2> QED BY <1>2, <2>4, SameRowSamePromise
<1> QED BY <1>1, <1>2

\* A request that writes to no absent Spark leaves every promise when it begins or is given up.
LEMMA NothingMoves ==
  ASSUME UNCHANGED <<today, rows, used>>,
         \A w \in Workers, s \in Sparks : ~ Present(s) =>
           pending[w].writes[s] = NoRow /\ pending'[w].writes[s] = NoRow
  PROVE  UNCHANGED Promise!promiseVars
<1>1. \A s \in Sparks : Still(s)
  <2> SUFFICES ASSUME NEW s \in Sparks
               PROVE  Still(s)
    OBVIOUS
  <2>1. ~ Present(s) => (Coming(s)' <=> Coming(s))
    BY DEF Coming
  <2> QED BY <2>1, SameRowSamePromise
<1> QED BY <1>1 DEF Promise!promiseVars, Still, Said

\* One promise changes: how the abstract actions see it.
LEMMA MoveOne ==
  ASSUME NEW s \in Sparks, OthersStill({s}), NEW from, NEW to, Phase(s) \in from, Phase(s)' = to
  PROVE  /\ Promise!Move(s, from, to)
         /\ [t \in Sparks |-> QuietUntil(t)'] = [[t \in Sparks |-> QuietUntil(t)] EXCEPT ![s] = QuietUntil(s)']
         /\ [t \in Sparks |-> Said(t)'] = [[t \in Sparks |-> Said(t)] EXCEPT ![s] = Said(s)']
BY DEF OthersStill, Still, Promise!Move

\* A saved capture, question or import is kept.
LEMMA SaveKeeps ==
  ASSUME Serialised, SerialInv, SerialInv', NEW w \in Workers, Save(w), SavesNew
  PROVE  \E s \in Sparks : Promise!Keep(s)
<1>1. PICK s \in used, d \in 0 .. today, st \in {"CAPTURED", "WAITING", "EXPERIENCED"},
           said \in SUBSET Statements :
        ~ Present(s) /\ Puts(s, NewRow(d, st, said), IF st \in Lived THEN {s} ELSE {})
  BY DEF SavesNew
<1>2. s \in Sparks /\ today \in Nat /\ rows \in [Sparks -> Row \cup {NoRow}] /\ today' = today
      /\ MinDaysBeforeReturn \in Nat
  BY LimitsAssumption DEF LimitsAssumption, SerialInv, OverlapInv, TypeOK, Save
<1>3. NewRow(d, st, said) \in Row /\ NewRow(d, st, said) # NoRow /\ rows'[s] = NewRow(d, st, said)
  BY <1>1, <1>2, NewRowWhole, RowIsRow DEF Status, Puts
<1>4. OthersStill({s})
  BY <1>1, <1>2, SaveLeaves DEF OthersStill, Puts
<1>5. Phase(s) = "unborn"
  <2>1. pending[w].writes[s] # NoRow
    BY <1>1, <1>2, <1>3 DEF Save, Saved, Present
  <2> QED BY <1>1, <2>1 DEF Phase
<1>6. Phase(s)' = IF st = "CAPTURED" THEN "asked" ELSE IF st = "WAITING" THEN "waiting" ELSE "lived"
  BY <1>3 DEF Phase, Present, NewRow
<1>7. QuietUntil(s)' = d + MinDaysBeforeReturn /\ Said(s)' = said
  BY <1>2, <1>3 DEF QuietUntil, Said, Present, NewRow, NoDay
<1>8. \E to \in {"asked", "waiting", "lived"} : Promise!Move(s, {"unborn"}, to)
  <2>1. PICK to \in {"asked", "waiting", "lived"} : Phase(s)' = to
    BY <1>6
  <2>2. Phase(s) \in {"unborn"}
    BY <1>5
  <2>3. Promise!Move(s, {"unborn"}, to)
    BY <1>2, <1>4, <2>1, <2>2 DEF OthersStill, Still, Promise!Move
  <2> QED BY <2>3
<1>9. /\ [t \in Sparks |-> QuietUntil(t)'] = [[t \in Sparks |-> QuietUntil(t)] EXCEPT ![s] = d + MinDaysBeforeReturn]
      /\ [t \in Sparks |-> Said(t)'] = [[t \in Sparks |-> Said(t)] EXCEPT ![s] = said]
  BY <1>2, <1>4, <1>7 DEF OthersStill, Still
<1> QED BY <1>2, <1>8, <1>9 DEF Promise!Keep, Said

\* Sparks brought back are offered, each with its quiet time over.
LEMMA SaveOffers ==
  ASSUME Serialised, SerialInv, SerialInv', NEW w \in Workers, Save(w), SavesOffer
  PROVE  \E S \in SUBSET Sparks : Promise!Offer(S)
<1>1. PICK shown \in SUBSET {s \in Sparks : Present(s)} :
        (\A s \in shown : IsEligible(rows[s], today)) /\ Offers(shown)
  BY DEF SavesOffer
<1>2. /\ today \in Nat /\ rows \in [Sparks -> Row \cup {NoRow}] /\ today' = today
      /\ MinDaysBeforeReturn \in Nat /\ shown \in SUBSET Sparks
      /\ \A s \in Sparks : Present(s) => rows[s] \in Row /\ WholeRow(rows[s], today)
  BY <1>1, LimitsAssumption DEF LimitsAssumption, SerialInv, OverlapInv, TypeOK, Save, RowsWhole, Present
<1>3. OthersStill(shown)
  BY <1>1, <1>2, SaveLeaves DEF OthersStill, Offers
<1>4. ASSUME NEW s \in shown
      PROVE  /\ Phase(s) \in {"waiting", "offered"} /\ QuietUntil(s) <= today
             /\ Phase(s)' = "offered" /\ QuietUntil(s)' <= today /\ Said(s)' = Said(s)
  <2>1. Present(s) /\ rows[s] \in Row /\ rows'[s] = Suggested(rows[s], today) /\ IsEligible(rows[s], today)
    BY <1>1, <1>2 DEF Offers
  <2>2. Suggested(rows[s], today) \in Row /\ Present(s)'
    BY <1>2, <2>1, SuggestedWhole, RowIsRow DEF Present
  <2>3. /\ rows'[s].status = "SUGGESTED" /\ rows'[s].snoozedUntil = NoDay
        /\ rows'[s].captured = rows[s].captured /\ rows'[s].said = rows[s].said
    BY <2>1 DEF Suggested, Row
  <2>4. rows[s].captured \in Nat /\ rows[s].snoozedUntil \in Days
    BY <2>1 DEF Row
  <2>5. Phase(s) \in {"waiting", "offered"} /\ Phase(s)' = "offered"
    BY <2>1, <2>2, <2>3, PhaseOfRow DEF IsEligible, Returnable, Phase
  <2>6. QuietUntil(s) <= today /\ QuietUntil(s)' <= today
    BY <1>2, <2>1, <2>2, <2>3, <2>4 DEF QuietUntil, IsEligible, IsSnoozedAt, NoDay, Days
  <2> QED BY <2>1, <2>2, <2>3, <2>5, <2>6 DEF Said
<1>5. \A s \in Sparks : QuietUntil(s)' \in Nat
  <2> SUFFICES ASSUME NEW s \in Sparks
               PROVE  QuietUntil(s)' \in Nat
    OBVIOUS
  <2>1. rows' \in [Sparks -> Row \cup {NoRow}]
    BY DEF SerialInv, OverlapInv, TypeOK
  <2> QED BY <1>2, <2>1 DEF QuietUntil, Present, Row, Days, NoDay
<1>6. [t \in Sparks |-> Phase(t)'] = [t \in Sparks |-> IF t \in shown THEN "offered" ELSE Phase(t)]
  BY <1>2, <1>3, <1>4 DEF OthersStill, Still
<1>7. [t \in Sparks |-> Said(t)'] = [t \in Sparks |-> Said(t)]
  BY <1>2, <1>3, <1>4 DEF OthersStill, Still
<1> QED BY <1>2, <1>3, <1>4, <1>5, <1>6, <1>7 DEF Promise!Offer, OthersStill, Still, Said

\* An answer, a mark of done or a statement is taken literally.
LEMMA SaveAnswers ==
  ASSUME Serialised, SerialInv, SerialInv', NEW w \in Workers, Save(w), SavesAnswer
  PROVE  \E s \in Sparks : \/ Promise!MaybeLater(s) \/ Promise!LetsDoIt(s) \/ Promise!Stop(s)
                           \/ Promise!Live(s) \/ Promise!State(s)
<1>1. PICK s \in Sparks, row \in Row, makes \in SUBSET Sparks :
        Present(s) /\ Answer(s, row, makes) /\ Puts(s, row, makes)
  BY DEF SavesAnswer
<1>2. /\ today \in Nat /\ rows \in [Sparks -> Row \cup {NoRow}] /\ rows' \in [Sparks -> Row \cup {NoRow}]
      /\ today' = today /\ MinDaysBeforeReturn \in Nat /\ SnoozeCooldown \in Nat
      /\ rows[s] \in Row /\ rows'[s] = row /\ row # NoRow /\ Present(s)'
  BY <1>1, LimitsAssumption, RowIsRow
     DEF LimitsAssumption, SerialInv, OverlapInv, TypeOK, Save, Present, Puts
<1>3. OthersStill({s})
  BY <1>1, <1>2, SaveLeaves DEF OthersStill, Puts
<1>4. \A t \in Sparks : QuietUntil(t)' \in Nat
  <2> SUFFICES ASSUME NEW t \in Sparks
               PROVE  QuietUntil(t)' \in Nat
    OBVIOUS
  <2> QED BY <1>2 DEF QuietUntil, Present, Row, Days, NoDay
<1>5. CASE CanSnooze(rows[s]) /\ row = Snoozed(rows[s], today)
  <2>1. /\ row.status = "WAITING" /\ row.said = rows[s].said /\ row.snoozedUntil = today + SnoozeCooldown
        /\ row.captured = rows[s].captured /\ rows[s].captured \in Nat
    BY <1>2, <1>5 DEF Snoozed, Row
  <2>2. Phase(s) \in {"offered"} /\ Phase(s)' = "waiting"
    BY <1>1, <1>2, <1>5, <2>1, PhaseOfRow DEF CanSnooze, Phase
  <2>3. Said(s)' = Said(s) /\ QuietUntil(s)' >= today + SnoozeCooldown
    BY <1>1, <1>2, <2>1 DEF Said, QuietUntil
  <2>4. Promise!Move(s, {"offered"}, "waiting")
    BY <1>3, <2>2 DEF OthersStill, Still, Promise!Move
  <2>5. Promise!MaybeLater(s)
    BY <1>2, <1>3, <1>4, <2>3, <2>4 DEF Promise!MaybeLater, OthersStill, Still, Said
  <2> QED BY <2>5
<1>6. CASE \/ CanPlan(rows[s]) /\ row = Planned(rows[s])
           \/ CanArchive(rows[s]) /\ row = Archived(rows[s])
           \/ CanExperience(rows[s]) /\ row = Experienced(rows[s])
  <2>1. /\ row.said = rows[s].said /\ row.snoozedUntil = rows[s].snoozedUntil /\ row.captured = rows[s].captured
        /\ row.status = CASE row = Planned(rows[s]) -> "PLANNED"
                          [] row = Archived(rows[s]) -> "ARCHIVED"
                          [] OTHER -> "EXPERIENCED"
    BY <1>2, <1>6 DEF Planned, Archived, Experienced, Row
  <2>2. UNCHANGED <<today, [t \in Sparks |-> QuietUntil(t)], [t \in Sparks |-> Said(t)]>>
    BY <1>1, <1>2, <1>3, <2>1 DEF OthersStill, Still, QuietUntil, Said
  <2>3. CASE CanPlan(rows[s]) /\ row = Planned(rows[s])
    <3>1. row.status = "PLANNED"
      BY <1>2, <2>3 DEF Planned, Row
    <3>2. Phase(s) \in {"offered"} /\ Phase(s)' = "planned"
      BY <1>1, <1>2, <2>3, <3>1, PhaseOfRow DEF CanPlan, Phase
    <3>3. Promise!Move(s, {"offered"}, "planned")
      BY <1>3, <3>2 DEF OthersStill, Still, Promise!Move
    <3> QED BY <2>2, <3>3 DEF Promise!LetsDoIt, Said
  <2>4. CASE CanArchive(rows[s]) /\ row = Archived(rows[s])
    <3>1. row.status = "ARCHIVED"
      BY <1>2, <2>4 DEF Archived, Row
    <3>2. Phase(s) \in Promise!Open /\ Phase(s)' = "stopped"
      BY <1>1, <1>2, <2>4, <3>1, PhaseOfRow DEF CanArchive, Phase, Promise!Open, Row, Status, Lived
    <3>3. Promise!Move(s, Promise!Open, "stopped")
      BY <1>3, <3>2, MoveOne
    <3> QED BY <2>2, <3>3 DEF Promise!Stop, Said
  <2>5. CASE CanExperience(rows[s]) /\ row = Experienced(rows[s])
    <3>1. row.status = "EXPERIENCED"
      BY <1>2, <2>5 DEF Experienced, Row
    <3>2. Phase(s) \in Promise!Open /\ Phase(s)' = "lived"
      BY <1>1, <1>2, <2>5, <3>1, PhaseOfRow DEF CanExperience, Phase, Promise!Open, Returnable
    <3>3. Promise!Move(s, Promise!Open, "lived")
      BY <1>3, <3>2, MoveOne
    <3> QED BY <2>2, <3>3 DEF Promise!Live, Said
  <2> QED BY <1>6, <2>3, <2>4, <2>5
<1>7. CASE \E st \in Statements : row = Stated(rows[s], st)
  <2>1. PICK st \in Statements : row = Stated(rows[s], st)
    BY <1>7
  <2>2. /\ row.status = rows[s].status /\ row.snoozedUntil = rows[s].snoozedUntil
        /\ row.captured = rows[s].captured /\ row.said = rows[s].said \cup {st}
    BY <1>2, <2>1 DEF Stated, Row
  <2>3. UNCHANGED <<today, [t \in Sparks |-> Phase(t)], [t \in Sparks |-> QuietUntil(t)]>>
    BY <1>1, <1>2, <1>3, <2>2 DEF OthersStill, Still, QuietUntil, Phase
  <2>4. [t \in Sparks |-> Said(t)'] = [[t \in Sparks |-> Said(t)] EXCEPT ![s] = @ \cup {st}]
    BY <1>1, <1>2, <1>3, <2>2 DEF OthersStill, Still, Said
  <2>5. Phase(s) \in Promise!Kept
    BY <1>1, <1>2, PhaseOfRow DEF Phase, Promise!Kept, Promise!Phases
  <2>6. Promise!State(s)
    BY <2>3, <2>4, <2>5 DEF Promise!State, Said
  <2> QED BY <2>6
<1> QED BY <1>1, <1>5, <1>6, <1>7 DEF Answer

\* What was erased is gone.
LEMMA SaveErases ==
  ASSUME Serialised, SerialInv, SerialInv', NEW w \in Workers, Save(w), SavesErasure
  PROVE  \E s \in Sparks : Promise!Erase(s)
<1>1. PICK s \in Sparks : Present(s) /\ Erases(s)
  BY DEF SavesErasure
<1>2. /\ rows \in [Sparks -> Row \cup {NoRow}] /\ rows[s] \in Row /\ rows'[s] = NoRow
      /\ today' = today /\ used' = used /\ s \in used
  BY <1>1 DEF SerialInv, OverlapInv, TypeOK, Save, Present, Erases, RowsAreUsed
<1>3. OthersStill({s})
  BY <1>1, <1>2, SaveLeaves DEF OthersStill, Erases
<1>4. \A v \in Workers : pending'[v].writes[s] = NoRow
  BY IdleRequest DEF Save, Busy, SerialInv, OneAtATime, OverlapInv, TypeOK
<1>5. Phase(s) \in Promise!Kept /\ Phase(s)' = "gone" /\ QuietUntil(s)' = 0 /\ Said(s)' = {}
  BY <1>1, <1>2, <1>4, PhaseOfRow DEF Phase, QuietUntil, Said, Present, Promise!Kept, Promise!Phases
<1>6. /\ Promise!Move(s, Promise!Kept, "gone")
      /\ [t \in Sparks |-> QuietUntil(t)'] = [[t \in Sparks |-> QuietUntil(t)] EXCEPT ![s] = 0]
      /\ [t \in Sparks |-> Said(t)'] = [[t \in Sparks |-> Said(t)] EXCEPT ![s] = {}]
  BY <1>3, <1>5, MoveOne
<1> QED BY <1>2, <1>6 DEF Promise!Erase, Said


\* A request on Sparks that are there begins.
LEMMA BeginMovesNothing ==
  ASSUME Serialised, SerialInv, NEW w \in Workers, NEW request, Begin(w, request), UNCHANGED used,
         \A s \in Sparks : ~ Present(s) => request.writes[s] = NoRow
  PROVE  UNCHANGED Promise!promiseVars
<1>1. /\ \A v \in Workers : pending[v] = Idle
      /\ pending' = [pending EXCEPT ![w] = request] /\ pending \in [Workers -> Request]
      /\ UNCHANGED <<today, rows>>
  BY DEF Begin, Free, SerialInv, OverlapInv, TypeOK
<1>2. \A v \in Workers, s \in Sparks : ~ Present(s) =>
        pending[v].writes[s] = NoRow /\ pending'[v].writes[s] = NoRow
  BY <1>1, IdleRequest
<1> QED BY <1>1, <1>2, NothingMoves

\* A request that makes a Spark begins: its id was not given out, and now its row is coming.
LEMMA BeginNewMovesNothing ==
  ASSUME Serialised, SerialInv, NEW w \in Workers, NEW op, NEW row, row # NoRow, NEW lived,
         BeginNew(w, op, row, lived)
  PROVE  UNCHANGED Promise!promiseVars
<1>1. PICK s \in Sparks \ used :
        Begin(w, Write(op, s, row, IF lived THEN {s} ELSE {})) /\ used' = used \cup {s}
  BY DEF BeginNew
<1>2. /\ \A v \in Workers : pending[v] = Idle
      /\ pending' = [pending EXCEPT ![w] = Write(op, s, row, IF lived THEN {s} ELSE {})]
      /\ pending \in [Workers -> Request] /\ UNCHANGED <<today, rows>>
  BY <1>1 DEF Begin, Free, SerialInv, OverlapInv, TypeOK
<1>3. \A t \in Sparks : pending'[w].writes[t] = IF t = s THEN row ELSE NoRow
  BY <1>1, <1>2 DEF Write, Nothing
<1>4. \A v \in Workers \ {w} : pending'[v] = Idle
  BY <1>2
<1>5. ASSUME NEW t \in Sparks PROVE Still(t)
  <2>1. Coming(t) <=> t \notin used
    BY <1>2, IdleRequest DEF Coming
  <2>2. Coming(t)' <=> t \notin used
    BY <1>1, <1>3, <1>4, IdleRequest DEF Coming
  <2> QED BY <1>2, <2>1, <2>2, SameRowSamePromise
<1> QED BY <1>2, <1>5 DEF Promise!promiseVars, Still, Said

\* A request is given up, by a conflict or a restart: nothing moves, unless it would have made
\* a Spark, which is then missed.
LEMMA GivingUp ==
  ASSUME SerialInv, UNCHANGED <<today, rows, used>>, NEW w \in Workers,
         \A v \in Workers : pending'[v] = Idle, \A v \in Workers \ {w} : pending[v] = Idle
  PROVE  UNCHANGED Promise!promiseVars \/ (IsNew(pending[w]) /\ \E s \in Sparks : Promise!Miss(s))
<1>1. CASE ~ IsNew(pending[w])
  <2>1. \A v \in Workers, s \in Sparks : ~ Present(s) =>
          pending[v].writes[s] = NoRow /\ pending'[v].writes[s] = NoRow
    BY <1>1, IdleRequest, OnlyNewComes
  <2> QED BY <2>1, NothingMoves
<1>2. CASE IsNew(pending[w])
  <2>1. PICK s \in used, d \in 0 .. today, st \in {"CAPTURED", "WAITING", "EXPERIENCED"},
             said \in SUBSET Statements :
          /\ ~ Present(s)
          /\ pending[w].writes = [Nothing EXCEPT ![s] = NewRow(d, st, said)]
          /\ pending[w].makes = (IF st \in Lived THEN {s} ELSE {})
          /\ pending[w].erases = {}
    BY <1>2 DEF IsNew
  <2>2. s \in Sparks /\ today \in Nat
    BY DEF SerialInv, OverlapInv, TypeOK
  <2>3. NewRow(d, st, said) # NoRow
    BY <2>1, <2>2, NewRowWhole, RowIsRow DEF Status
  <2>4. \A t \in Sparks : pending[w].writes[t] = IF t = s THEN NewRow(d, st, said) ELSE NoRow
    BY <2>1, <2>2 DEF Nothing
  <2>5. OthersStill({s})
    <3> SUFFICES ASSUME NEW t \in Sparks \ {s}
                 PROVE  Still(t)
      BY DEF OthersStill
    <3>1. Coming(t)' <=> Coming(t)
      BY <2>4, IdleRequest DEF Coming
    <3> QED BY <3>1, SameRowSamePromise
  <2>6. Phase(s) = "unborn" /\ Phase(s)' = "gone"
    <3>1. \A v \in Workers : pending'[v].writes[s] = NoRow
      BY <2>2, IdleRequest
    <3>2. pending[w].writes[s] # NoRow
      BY <2>2, <2>3, <2>4
    <3> QED BY <2>1, <3>1, <3>2 DEF Phase, Present
  <2>7. /\ [t \in Sparks |-> QuietUntil(t)'] = [t \in Sparks |-> QuietUntil(t)]
        /\ [t \in Sparks |-> Said(t)'] = [t \in Sparks |-> Said(t)]
    BY <2>1, <2>5 DEF OthersStill, Still, QuietUntil, Said, Present
  <2>8. Promise!Move(s, {"unborn"}, "gone")
    BY <2>2, <2>5, <2>6 DEF OthersStill, Still, Promise!Move
  <2> QED BY <1>2, <2>2, <2>7, <2>8 DEF Promise!Miss, Said
<1> QED BY <1>1, <1>2


\* Every step of the archive is a promised step, or moves nothing.
LEMMA PromiseStep ==
  ASSUME Serialised, SerialInv, SerialInv', [Next]_vars
  PROVE  [Promise!Next]_Promise!promiseVars
<1>1. CASE NextDay
  <2>1. /\ \A v \in Workers : pending[v] = Idle /\ pending'[v] = Idle
        /\ UNCHANGED <<rows, used>> /\ today' = today + 1
    BY <1>1 DEF NextDay
  <2>2. \A s \in Sparks : Still(s)
    <3> SUFFICES ASSUME NEW s \in Sparks
                 PROVE  Still(s)
      OBVIOUS
    <3>1. Coming(s)' <=> Coming(s)
      BY <2>1 DEF Coming
    <3> QED BY <2>1, <3>1, SameRowSamePromise
  <2>3. Promise!NextDay
    BY <2>1, <2>2 DEF Promise!NextDay, Still, Said
  <2> QED BY <2>3 DEF Promise!Next
<1>2. CASE Restart
  <2>1. PICK w \in Workers : Busy(w)
    BY <1>2 DEF Restart
  <2>2. /\ \A v \in Workers : pending'[v] = Idle
        /\ \A v \in Workers \ {w} : pending[v] = Idle
        /\ UNCHANGED <<today, rows, used>>
    BY <1>2, <2>1, IdleRequest DEF Restart, Busy, SerialInv, OneAtATime
  <2> QED BY <2>2, GivingUp DEF Promise!Next
<1>3. ASSUME NEW w \in Workers, Conflict(w)
      PROVE  [Promise!Next]_Promise!promiseVars
  <2>1. /\ \A v \in Workers : pending'[v] = Idle
        /\ \A v \in Workers \ {w} : pending[v] = Idle
        /\ UNCHANGED <<today, rows, used>>
    BY <1>3, IdleRequest DEF Conflict, Busy, SerialInv, OneAtATime, OverlapInv, TypeOK
  <2>2. ~ IsNew(pending[w])
    BY <1>3 DEF Conflict, IsNew, SerialInv, Linked, OverlapInv, TypeOK
  <2> QED BY <2>1, <2>2, GivingUp
<1>4. ASSUME NEW w \in Workers, Save(w)
      PROVE  [Promise!Next]_Promise!promiseVars
  <2>1. SavesNew \/ SavesOffer \/ SavesAnswer \/ SavesErasure
    BY <1>4, SaveIsOneStep
  <2>2. CASE SavesNew
    BY <1>4, <2>2, SaveKeeps DEF Promise!Next
  <2>3. CASE SavesOffer
    BY <1>4, <2>3, SaveOffers DEF Promise!Next
  <2>4. CASE SavesAnswer
    BY <1>4, <2>4, SaveAnswers DEF Promise!Next
  <2>5. CASE SavesErasure
    BY <1>4, <2>5, SaveErases DEF Promise!Next
  <2> QED BY <2>1, <2>2, <2>3, <2>4, <2>5
<1>5. ASSUME NEW w \in Workers,
             CaptureSpark(w) \/ AskForLater(w) \/ ImportNotes(w) \/ ImportPhotos(w)
      PROVE  UNCHANGED Promise!promiseVars
  <2>1. today \in Nat /\ today \in 0 .. today /\ {"override"} \in SUBSET Statements
    BY DEF SerialInv, OverlapInv, TypeOK, Statements
  <2>2. \E st \in {"CAPTURED", "WAITING", "EXPERIENCED"}, d \in 0 .. today, said \in SUBSET Statements :
          \E op, lived : BeginNew(w, op, NewRow(d, st, said), lived)
    <3>1. CASE CaptureSpark(w)
      BY <2>1, <3>1, Zenon DEF CaptureSpark, Captured
    <3>2. CASE AskForLater(w)
      BY <2>1, <3>2, Zenon DEF AskForLater, AskedForLater
    <3>3. CASE ImportNotes(w)
      BY <3>3 DEF ImportNotes
    <3>4. CASE ImportPhotos(w)
      BY <3>4 DEF ImportPhotos
    <3> QED BY <1>5, <3>1, <3>2, <3>3, <3>4
  <2>3. PICK st \in {"CAPTURED", "WAITING", "EXPERIENCED"}, d \in 0 .. today,
             said \in SUBSET Statements :
          \E op, lived : BeginNew(w, op, NewRow(d, st, said), lived)
    BY <2>2
  <2>4. NewRow(d, st, said) # NoRow
    <3>1. NewRow(d, st, said) \in Row
      BY <2>1, NewRowWhole DEF Status
    <3> QED BY <3>1, RowIsRow
  <2>5. PICK op, lived : BeginNew(w, op, NewRow(d, st, said), lived)
    BY <2>3
  <2> QED BY <2>4, <2>5, BeginNewMovesNothing
<1>6. ASSUME NEW w \in Workers, BringBack(w)
      PROVE  UNCHANGED Promise!promiseVars
  <2>1. PICK request : /\ Begin(w, request) /\ UNCHANGED used
                       /\ \A s \in Sparks : ~ Present(s) => request.writes[s] = NoRow
    BY <1>6 DEF BringBack
  <2> QED BY <2>1, BeginMovesNothing
<1>7. ASSUME NEW w \in Workers, NEW s \in Sparks,
             \/ MaybeLater(w, s) \/ LetsDoIt(w, s) \/ NotRelevantAnymore(w, s)
             \/ MarkAsDone(w, s) \/ AnswerQuestion(w, s) \/ StateSomething(w, s)
             \/ DeleteChildContent(w, s)
      PROVE  UNCHANGED Promise!promiseVars
  <2>1. Present(s)
    BY <1>7 DEF MaybeLater, LetsDoIt, NotRelevantAnymore, MarkAsDone, AnswerQuestion,
                StateSomething, DeleteChildContent
  <2>2. CASE DeleteChildContent(w, s)
    <3>1. PICK request : Begin(w, request) /\ UNCHANGED used /\ request.writes = Nothing
      BY <2>2 DEF DeleteChildContent
    <3> QED BY <3>1, BeginMovesNothing DEF Nothing
  <2>3. CASE ~ DeleteChildContent(w, s)
    <3>1. \E op, row, makes : BeginOn(w, op, s, row, makes)
      BY <1>7, <2>3 DEF MaybeLater, LetsDoIt, NotRelevantAnymore, MarkAsDone, AnswerQuestion, StateSomething
    <3>2. PICK op, row, makes : BeginOn(w, op, s, row, makes)
      BY <3>1
    <3>3. \A t \in Sparks : ~ Present(t) => Write(op, s, row, makes).writes[t] = NoRow
      BY <2>1 DEF Write, Nothing
    <3> QED BY <3>2, <3>3, BeginMovesNothing DEF BeginOn
  <2> QED BY <2>2, <2>3
<1>8. CASE UNCHANGED vars
  <2>1. UNCHANGED <<today, rows, used, pending>>
    BY <1>8 DEF vars
  <2>2. \A s \in Sparks : Still(s)
    BY <2>1, SameRowSamePromise DEF Coming
  <2> QED BY <2>1, <2>2 DEF Promise!promiseVars, Still, Said
<1> QED BY <1>1, <1>2, <1>3, <1>4, <1>5, <1>6, <1>7, <1>8 DEF Next

\* The archive keeps its promise to the family: when requests do not overlap, every behaviour of
\* the handlers is one of SparkPromise, under the mapping that reads a phase off each row.
THEOREM PromiseKept == ASSUME Serialised PROVE Spec => KeepsItsPromise
<1>1. Init => Promise!Init
  BY DEF Init, Promise!Init, Phase, QuietUntil, Present, Nothing
<1>2. SerialInv /\ SerialInv' /\ [Next]_vars => [Promise!Next]_Promise!promiseVars
  BY PromiseStep
<1> QED BY <1>1, <1>2, SerialInvariant, PTL DEF Spec, KeepsItsPromise, Promise!Spec

=============================================================================
