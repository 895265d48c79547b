---------------------------- MODULE Upkeep_proofs ----------------------------
(***************************************************************************)
(* What is kept for decades, proved part by part: the letters' terms, the  *)
(* family's keys and their receipts, the schema and its version, and the   *)
(* custody of the bytes behind the catalogue.                              *)
(***************************************************************************)
EXTENDS FamilyKeys, Letters, SchemaUpkeep, MediaCustody, TLAPS

---------------------------------------------------------------------------
(* Letters: what was sealed is never sealed again, so an opening that kept *)
(* the terms when it was answered keeps them.                              *)

Terms == [key : Calendar \cup Personal, care : {"ORDINARY", "SENSITIVE"}, text : Words, on : Days]
Opening == [letter : Messages, by : {"calendar", Child, Parent}, on : Days, text : Words]

LettersInv ==
  /\ today \in Days /\ terms \in [Messages -> {Unsealed} \cup Terms]
  /\ openings \subseteq Opening /\ \A o \in openings : terms[o.letter] \in Terms
  /\ LettersOpenAsPromised

\* No letter is sealed by nothing.
LEMMA TermsAreSealed == \A t \in Terms : t # Unsealed
BY DEF Terms, Unsealed

\* The day a calendar's letter is due is the birthday, or 28 February.
LEMMA DueIsNotEarly ==
  ASSUME NEW l \in Messages, today \in Days, Due(l), NEW age, age = Ages[terms[l].key]
  PROVE  /\ today[1] - Born[1] >= age
         /\ today[1] - Born[1] = age =>
              \/ today[2] > Born[2] \/ (today[2] = Born[2] /\ today[3] >= Born[3])
              \/ Born[2] = 2 /\ Born[3] = 29 /\ ~Leap(today[1]) /\ today[2] = 2 /\ today[3] >= 28
<1>1. age \in Int
  BY DEF Due, Ages, Calendar
<1>2. /\ Born[1] \in Int /\ Born[2] \in 1 .. 12 /\ Born[3] \in 1 .. 31
      /\ today[1] \in Int /\ today[2] \in 1 .. 12 /\ today[3] \in 1 .. 31
  BY LetterAssumption DEF LetterAssumption, Dates
<1>3. NotBefore(today, Birthday(age))
  BY DEF Due
<1>4. CASE <<Born[2], Born[3]>> = <<2, 29>> /\ ~Leap(Born[1] + age)
  <2>1. Birthday(age) = <<Born[1] + age, 2, 28>>
    BY <1>4 DEF Birthday
  <2>2. Born[2] = 2 /\ Born[3] = 29
    BY <1>4
  <2>3. \/ today[1] > Born[1] + age
        \/ today[1] = Born[1] + age /\ (today[2] > 2 \/ (today[2] = 2 /\ today[3] >= 28))
    BY <1>3, <2>1 DEF NotBefore
  <2>4. today[1] = Born[1] + age => ~Leap(today[1])
    BY <1>4
  <2> QED BY <1>1, <1>2, <2>2, <2>3, <2>4
<1>5. CASE ~ (<<Born[2], Born[3]>> = <<2, 29>> /\ ~Leap(Born[1] + age))
  <2>1. Birthday(age) = <<Born[1] + age, Born[2], Born[3]>>
    BY <1>5 DEF Birthday
  <2>2. \/ today[1] > Born[1] + age
        \/ today[1] = Born[1] + age /\ (today[2] > Born[2] \/ (today[2] = Born[2] /\ today[3] >= Born[3]))
    BY <1>3, <2>1 DEF NotBefore
  <2> QED BY <1>1, <1>2, <2>2
<1> QED BY <1>4, <1>5

\* NotBefore is about days, and a day is not before itself.
LEMMA LettersInit == LetterInit => LettersInv
BY DEF LetterInit, LettersInv, LettersOpenAsPromised

LEMMA SealKeeps ==
  ASSUME LettersInv, NEW l \in Messages, NEW text \in Words, NEW key \in Calendar \cup Personal,
         NEW care \in {"ORDINARY", "SENSITIVE"}, Seal(l, key, care, text)
  PROVE  LettersInv'
<1>1. [key |-> key, care |-> care, text |-> text, on |-> today] \in Terms
  BY DEF LettersInv, Terms
<1>2. terms' \in [Messages -> {Unsealed} \cup Terms] /\ openings' = openings /\ today' = today
  BY <1>1 DEF LettersInv, Seal
<1>3. \A o \in openings : terms'[o.letter] = terms[o.letter]
  BY TermsAreSealed DEF LettersInv, Opening, Seal
<1> QED BY <1>2, <1>3 DEF LettersInv, LettersOpenAsPromised

\* An opening that is answered keeps the terms it was answered under.
LEMMA OpenedKeeps ==
  ASSUME LettersInv, NEW l \in Messages, NEW text \in Words, NEW by \in {"calendar", Child, Parent},
         terms[l] \in Terms, Opened(l, by, text),
         IF terms[l].key \in Calendar
         THEN /\ by = "calendar" /\ terms[l].care = "ORDINARY"
              /\ today[1] - Born[1] >= Ages[terms[l].key]
              /\ today[1] - Born[1] = Ages[terms[l].key] =>
                   \/ today[2] > Born[2] \/ (today[2] = Born[2] /\ today[3] >= Born[3])
                   \/ Born[2] = 2 /\ Born[3] = 29 /\ ~Leap(today[1]) /\ today[2] = 2 /\ today[3] >= 28
         ELSE by = Child \/ (by = Parent /\ terms[l].key = "LEAVING_HOME")
  PROVE  LettersInv'
<1> DEFINE new == [letter |-> l, by |-> by, on |-> today, text |-> text]
<1>1. /\ new.letter = l /\ new.by = by /\ new.on = today /\ new.text = text /\ new \in Opening
      /\ openings' = openings \cup {new} /\ terms' = terms /\ today' = today
      /\ text = terms[l].text /\ NotBefore(today, terms[l].on)
  BY DEF Opened, Opening, LettersInv
<1> HIDE DEF new
<1> QED BY <1>1 DEF LettersInv, LettersOpenAsPromised

LEMMA LettersKeep ==
  ASSUME LettersInv, [LetterNext]_letterVars
  PROVE  LettersInv'
<1>1. ASSUME NEW l \in Messages, NEW text \in Words, NEW key \in Calendar \cup Personal,
             NEW care \in {"ORDINARY", "SENSITIVE"}, Seal(l, key, care, text)
      PROVE  LettersInv'
  BY <1>1, SealKeeps
<1>2. ASSUME NEW l \in Messages, NEW text \in Words, OpenAutomatically(l, text) PROVE LettersInv'
  <2>1. terms[l] \in Terms /\ today \in Days /\ Due(l) /\ Opened(l, "calendar", text)
    BY <1>2 DEF OpenAutomatically, LettersInv
  <2>2. terms[l].key \in Calendar /\ terms[l].care = "ORDINARY"
    BY <2>1 DEF Due, Terms
  <2> QED BY <2>1, <2>2, DueIsNotEarly, OpenedKeeps
<1>3. ASSUME NEW l \in Messages, NEW text \in Words, NEW key \in Personal, NEW person \in {Child, Parent},
             OpenByChoice(l, key, person, text)
      PROVE  LettersInv'
  <2>1. terms[l] \in Terms /\ MayOpen(l, key, person) /\ Opened(l, person, text)
    BY <1>3 DEF OpenByChoice, LettersInv
  <2>2. terms[l].key \notin Calendar /\ (person = Child \/ (person = Parent /\ terms[l].key = "LEAVING_HOME"))
    BY <2>1 DEF MayOpen, Personal
  <2> QED BY <2>1, <2>2, OpenedKeeps
<1>4. ASSUME NEW d \in Days, ClockMoves(d) PROVE LettersInv'
  BY <1>4 DEF ClockMoves, LettersInv, LettersOpenAsPromised
<1>5. CASE UNCHANGED letterVars
  BY <1>5 DEF letterVars, LettersInv, LettersOpenAsPromised
<1> QED BY <1>1, <1>2, <1>3, <1>4, <1>5 DEF LetterNext

\* FutureMessage and SealedArtifact: a letter is opened as it was sealed, when its terms say
\* and to whom, whatever the clocks do and whatever bytes storage comes up with.
THEOREM LettersOpenAsSealed == LetterSpec => []LettersOpenAsPromised
<1>1. LettersInv /\ [LetterNext]_letterVars => LettersInv'
  BY LettersKeep
<1>2. LettersInv => LettersOpenAsPromised
  BY DEF LettersInv
<1> QED BY LettersInit, <1>1, <1>2, PTL DEF LetterSpec

---------------------------------------------------------------------------
(* Keys: a rotation writes the bundle before the key file, so that a key   *)
(* but the first is never in the key file alone.                           *)

Bundle == [key : 1 .. made, version : Versions]
AReceipt == [key : 1 .. made, edition : 0 .. 1, whole : BOOLEAN]

KeysAreWell ==
  /\ made \in 1 .. MaxKeys /\ keyFile \in 0 .. made /\ ceremony \in 0 .. made
  /\ bundles \in [Paths -> {Nothing} \cup Bundle]
  /\ edition \in [Films -> 0 .. 1] /\ receipts \in [Documents -> {Nothing} \cup AReceipt]
  /\ covered \subseteq Documents \X AReceipt
  /\ stops \in 0 .. MaxStops /\ overwritten \subseteq 1 .. made /\ neverBackedUp \subseteq {1}

\* A key is never only in the key file, but for the first; and that one, nowhere else, is not
\* replaced without notice.
EveryKeyIsKept ==
  /\ \A k \in 2 .. made : Bundled(k) \/ k \in overwritten
  /\ keyFile = 1 \/ Bundled(1) \/ 1 \in overwritten \cup neverBackedUp

CoveredIsBundled == \A c \in covered : c[2].key \in overwritten \/ Bundled(c[2].key)

KeysInv == KeysAreWell /\ EveryKeyIsKept /\ CoveredIsBundled

LEMMA BundleIsSomething == \A b : (\E k, v : b = [key |-> k, version |-> v]) => b # Nothing
BY DEF Nothing

LEMMA ReceiptIsSomething == \A b : (\E k, v, w : b = [key |-> k, edition |-> v, whole |-> w]) => b # Nothing
BY DEF Nothing

\* A bundle written over another is on record.
LEMMA BundleIsWritten ==
  ASSUME KeysAreWell, NEW p \in Paths, NEW k \in Nat, NEW v \in Versions, WriteBundle(p, k, v)
  PROVE  /\ bundles'[p] = [key |-> k, version |-> v] /\ bundles'[p] # Nothing
         /\ \A q \in Paths : q # p => bundles'[q] = bundles[q]
         /\ Bundled(k)' /\ overwritten \subseteq overwritten'
         /\ \A j : Bundled(j) => Bundled(j)' \/ j \in overwritten'
         /\ \A j \in overwritten' : j \in overwritten \/ j \in 1 .. made
         /\ bundles' \in [Paths -> {Nothing} \cup Bundle \cup {[key |-> k, version |-> v]}]
<1>1. /\ bundles'[p] = [key |-> k, version |-> v] /\ bundles'[p] # Nothing
      /\ \A q \in Paths : q # p => bundles'[q] = bundles[q]
  BY BundleIsSomething DEF WriteBundle, KeysAreWell
<1>2. Bundled(k)' /\ overwritten \subseteq overwritten'
  BY <1>1 DEF Bundled, WriteBundle
<1>3. ASSUME NEW j, Bundled(j) PROVE Bundled(j)' \/ j \in overwritten'
  <2>1. PICK q \in Paths : bundles[q] # Nothing /\ bundles[q].key = j
    BY <1>3 DEF Bundled
  <2>2. CASE q # p
    BY <1>1, <2>1, <2>2 DEF Bundled
  <2>3. CASE q = p
    BY <1>2, <2>1, <2>3 DEF WriteBundle
  <2> QED BY <2>2, <2>3
<1>4. \A j \in overwritten' : j \in overwritten \/ j \in 1 .. made
  BY DEF WriteBundle, KeysAreWell, Bundle
<1>5. bundles' \in [Paths -> {Nothing} \cup Bundle \cup {[key |-> k, version |-> v]}]
  BY DEF WriteBundle, KeysAreWell
<1> QED BY <1>1, <1>2, <1>3, <1>4, <1>5

\* The first key, where no bundle has it, is not replaced without notice.
LEMMA KeyFileIsReplaced ==
  ASSUME KeysAreWell, NEW k, WriteKeyFile(k)
  PROVE  /\ keyFile' = k /\ neverBackedUp \subseteq neverBackedUp' /\ neverBackedUp' \subseteq {1}
         /\ keyFile = 1 => k = 1 \/ Bundled(1) \/ 1 \in neverBackedUp'
BY DEF WriteKeyFile, KeysAreWell

LEMMA BackupKeepsKeys ==
  ASSUME KeysInv, NEW p \in Paths, NEW v \in Versions, Backup(p, v)
  PROVE  KeysInv'
<1>1. PICK k : k = keyFile
  OBVIOUS
<1>2. k \in 1 .. made' /\ made' \in 1 .. MaxKeys /\ made <= made' /\ made \in 1 .. MaxKeys
  BY <1>1, KeyAssumption DEF KeyAssumption, Backup, KeysInv, KeysAreWell
<1>3. /\ Bundled(k)' /\ overwritten \subseteq overwritten'
      /\ \A j : Bundled(j) => Bundled(j)' \/ j \in overwritten'
      /\ \A j \in overwritten' : j \in overwritten \/ j \in 1 .. made
      /\ bundles' \in [Paths -> {Nothing} \cup Bundle \cup {[key |-> k, version |-> v]}]
  <2>1. KeysAreWell /\ k \in Nat /\ WriteBundle(p, k, v)
    BY <1>1, <1>2, KeyAssumption DEF KeyAssumption, Backup, KeysInv
  <2> QED BY <2>1, BundleIsWritten
<1>4. KeysAreWell'
  <2>1. 1 .. made \subseteq 1 .. made'
    BY <1>2, KeyAssumption DEF KeyAssumption
  <2>2. Bundle \subseteq Bundle' /\ AReceipt \subseteq AReceipt' /\ [key |-> k, version |-> v] \in Bundle'
    BY <1>2, <2>1 DEF Bundle, AReceipt
  <2>3. bundles' \in [Paths -> {Nothing} \cup Bundle']
    BY <1>3, <2>2
  <2>4. /\ receipts' \in [Documents -> {Nothing} \cup AReceipt'] /\ covered' \subseteq Documents \X AReceipt'
    BY <2>2 DEF Backup, KeysInv, KeysAreWell
  <2>5. overwritten' \subseteq 1 .. made'
    BY <1>3, <2>1 DEF KeysInv, KeysAreWell
  <2>6. /\ keyFile' \in 0 .. made' /\ ceremony' \in 0 .. made' /\ edition' = edition
        /\ stops' = stops /\ neverBackedUp' = neverBackedUp
    BY <1>1, <1>2, KeyAssumption DEF KeyAssumption, Backup, KeysInv, KeysAreWell
  <2> QED BY <1>2, <2>3, <2>4, <2>5, <2>6 DEF KeysInv, KeysAreWell
<1>5. EveryKeyIsKept'
  <2>1. \A j \in 2 .. made' : j = k \/ j \in 2 .. made
    BY <1>2 DEF Backup
  <2>2. /\ \A j \in 2 .. made' : Bundled(j)' \/ j \in overwritten'
        /\ keyFile' = 1 \/ Bundled(1)' \/ 1 \in overwritten' \cup neverBackedUp'
    BY <1>3, <2>1 DEF Backup, KeysInv, EveryKeyIsKept
  <2> QED BY <2>2 DEF EveryKeyIsKept
<1>6. CoveredIsBundled'
  <2>1. \A c \in covered : c[2].key \in overwritten' \/ Bundled(c[2].key)'
    BY <1>3 DEF KeysInv, CoveredIsBundled
  <2> QED BY <2>1 DEF Backup, CoveredIsBundled
<1> QED BY <1>4, <1>5, <1>6 DEF KeysInv

LEMMA RotateKeepsKeys ==
  ASSUME KeysInv, NEW p \in Paths, NEW v \in Versions, Rotate(p, v)
  PROVE  KeysInv'
<1>1. PICK k : k = made'
  OBVIOUS
<1>2. k \in 1 .. made' /\ made' \in 1 .. MaxKeys /\ made <= made' /\ made \in 1 .. MaxKeys
  BY <1>1, KeyAssumption DEF KeyAssumption, Rotate, KeysInv, KeysAreWell
<1>3. /\ Bundled(k)' /\ overwritten \subseteq overwritten'
      /\ \A j : Bundled(j) => Bundled(j)' \/ j \in overwritten'
      /\ \A j \in overwritten' : j \in overwritten \/ j \in 1 .. made
      /\ bundles' \in [Paths -> {Nothing} \cup Bundle \cup {[key |-> k, version |-> v]}]
  <2>1. KeysAreWell /\ k \in Nat /\ WriteBundle(p, k, v)
    BY <1>1, <1>2, KeyAssumption DEF KeyAssumption, Rotate, KeysInv
  <2> QED BY <2>1, BundleIsWritten
<1>4. KeysAreWell'
  <2>1. 1 .. made \subseteq 1 .. made'
    BY <1>2, KeyAssumption DEF KeyAssumption
  <2>2. Bundle \subseteq Bundle' /\ AReceipt \subseteq AReceipt' /\ [key |-> k, version |-> v] \in Bundle'
    BY <1>2, <2>1 DEF Bundle, AReceipt
  <2>3. bundles' \in [Paths -> {Nothing} \cup Bundle']
    BY <1>3, <2>2
  <2>4. /\ receipts' \in [Documents -> {Nothing} \cup AReceipt'] /\ covered' \subseteq Documents \X AReceipt'
    BY <2>2 DEF Rotate, KeysInv, KeysAreWell
  <2>5. overwritten' \subseteq 1 .. made'
    BY <1>3, <2>1 DEF KeysInv, KeysAreWell
  <2>6. /\ keyFile' \in 0 .. made' /\ ceremony' \in 0 .. made' /\ edition' = edition
        /\ stops' = stops /\ neverBackedUp' = neverBackedUp
    BY <1>1, <1>2, KeyAssumption DEF KeyAssumption, Rotate, KeysInv, KeysAreWell
  <2> QED BY <1>2, <2>3, <2>4, <2>5, <2>6 DEF KeysInv, KeysAreWell
<1>5. EveryKeyIsKept'
  <2>1. \A j \in 2 .. made' : j = k \/ j \in 2 .. made
    BY <1>1, <1>2, KeyAssumption DEF KeyAssumption, Rotate
  <2>2. /\ \A j \in 2 .. made' : Bundled(j)' \/ j \in overwritten'
        /\ keyFile' = 1 \/ Bundled(1)' \/ 1 \in overwritten' \cup neverBackedUp'
    BY <1>3, <2>1 DEF Rotate, KeysInv, EveryKeyIsKept
  <2> QED BY <2>2 DEF EveryKeyIsKept
<1>6. CoveredIsBundled'
  <2>1. \A c \in covered : c[2].key \in overwritten' \/ Bundled(c[2].key)'
    BY <1>3 DEF KeysInv, CoveredIsBundled
  <2> QED BY <2>1 DEF Rotate, CoveredIsBundled
<1> QED BY <1>4, <1>5, <1>6 DEF KeysInv

LEMMA RecoverKeyKeepsKeys ==
  ASSUME KeysInv, NEW p \in Paths, RecoverKey(p)
  PROVE  KeysInv'
<1>1. KeysAreWell'
  BY KeyAssumption, KeyFileIsReplaced DEF KeyAssumption, RecoverKey, KeysInv, KeysAreWell, Bundle, AReceipt, keyVars, Receipt, Edition, Documents, Cut
<1>2. EveryKeyIsKept'
  BY KeyFileIsReplaced DEF RecoverKey, KeysInv, KeysAreWell, EveryKeyIsKept, Bundled, Bundle, keyVars
<1>3. CoveredIsBundled'
  BY DEF RecoverKey, KeysInv, KeysAreWell, CoveredIsBundled, Bundled, keyVars
<1> QED BY <1>1, <1>2, <1>3 DEF KeysInv

LEMMA RotateEndsKeepsKeys ==
  ASSUME KeysInv, RotateEnds
  PROVE  KeysInv'
<1>1. KeysAreWell'
  BY KeyAssumption, KeyFileIsReplaced DEF KeyAssumption, RotateEnds, KeysInv, KeysAreWell, Bundle, AReceipt, keyVars, Receipt, Edition, Documents, Cut
<1>2. EveryKeyIsKept'
  BY KeyFileIsReplaced DEF RotateEnds, KeysInv, KeysAreWell, EveryKeyIsKept, Bundled, Bundle, keyVars
<1>3. CoveredIsBundled'
  BY DEF RotateEnds, KeysInv, KeysAreWell, CoveredIsBundled, Bundled, keyVars
<1> QED BY <1>1, <1>2, <1>3 DEF KeysInv

LEMMA RotateStopsKeepsKeys ==
  ASSUME KeysInv, RotateStops
  PROVE  KeysInv'
<1>1. KeysAreWell'
  BY KeyAssumption DEF KeyAssumption, RotateStops, KeysInv, KeysAreWell, Bundle, AReceipt, keyVars, Receipt, Edition, Documents, Cut
<1>2. EveryKeyIsKept'
  BY DEF RotateStops, KeysInv, KeysAreWell, EveryKeyIsKept, Bundled, Bundle, keyVars
<1>3. CoveredIsBundled'
  BY DEF RotateStops, KeysInv, KeysAreWell, CoveredIsBundled, Bundled, keyVars
<1> QED BY <1>1, <1>2, <1>3 DEF KeysInv

LEMMA KeyFileLostKeepsKeys ==
  ASSUME KeysInv, KeyFileLost
  PROVE  KeysInv'
<1>1. KeysAreWell'
  BY KeyAssumption, KeyFileIsReplaced DEF KeyAssumption, KeyFileLost, KeysInv, KeysAreWell, Bundle, AReceipt, keyVars, Receipt, Edition, Documents, Cut
<1>2. EveryKeyIsKept'
  BY KeyFileIsReplaced DEF KeyFileLost, KeysInv, KeysAreWell, EveryKeyIsKept, Bundled, Bundle, keyVars
<1>3. CoveredIsBundled'
  BY DEF KeyFileLost, KeysInv, KeysAreWell, CoveredIsBundled, Bundled, keyVars
<1> QED BY <1>1, <1>2, <1>3 DEF KeysInv

LEMMA InventoryKeepsKeys ==
  ASSUME KeysInv, Inventory
  PROVE  KeysInv'
<1>1. KeysAreWell'
  BY KeyAssumption DEF KeyAssumption, Inventory, KeysInv, KeysAreWell, Bundle, AReceipt, keyVars, Receipt, Edition, Documents, Cut
<1>2. EveryKeyIsKept'
  BY DEF Inventory, KeysInv, KeysAreWell, EveryKeyIsKept, Bundled, Bundle, keyVars
<1>3. CoveredIsBundled'
  BY DEF Inventory, KeysInv, KeysAreWell, CoveredIsBundled, Bundled, keyVars
<1> QED BY <1>1, <1>2, <1>3 DEF KeysInv

LEMMA AnchorKeepsKeys ==
  ASSUME KeysInv, NEW d \in Documents, Anchor(d)
  PROVE  KeysInv'
<1>1. KeysAreWell'
  BY KeyAssumption DEF KeyAssumption, Anchor, KeysInv, KeysAreWell, Bundle, AReceipt, keyVars, Receipt, Edition, Documents, Cut
<1>2. EveryKeyIsKept'
  BY DEF Anchor, KeysInv, KeysAreWell, EveryKeyIsKept, Bundled, Bundle, keyVars
<1>3. CoveredIsBundled'
  BY DEF Anchor, KeysInv, KeysAreWell, CoveredIsBundled, Bundled, keyVars
<1> QED BY <1>1, <1>2, <1>3 DEF KeysInv

LEMMA AnchorStopsKeepsKeys ==
  ASSUME KeysInv, NEW d \in Documents, AnchorStops(d)
  PROVE  KeysInv'
<1>1. KeysAreWell'
  <2>1. [Receipt(d, keyFile) EXCEPT !.whole = FALSE] \in AReceipt
    <3>1. Edition(d) \in 0 .. 1 /\ keyFile \in 1 .. made
      <4>1. d \in Films /\ keyFile # 0
        BY DEF AnchorStops
      <4>2. edition[d] \in 0 .. 1 /\ keyFile \in 0 .. made /\ made \in 1 .. MaxKeys
        BY <4>1 DEF KeysInv, KeysAreWell
      <4> QED BY <4>1, <4>2, KeyAssumption DEF KeyAssumption, Edition
    <3>2. Receipt(d, keyFile) \in AReceipt
      BY <3>1 DEF AReceipt, Receipt
    <3>3. \A receipt \in AReceipt : [receipt EXCEPT !.whole = FALSE] \in AReceipt
      BY DEF AReceipt
    <3> QED BY <3>2, <3>3
  <2>2. receipts' \in [Documents -> {Nothing} \cup AReceipt]
    BY <2>1 DEF AnchorStops, KeysInv, KeysAreWell
  <2>3. stops' \in 0 .. MaxStops
    BY KeyAssumption DEF KeyAssumption, AnchorStops, KeysInv, KeysAreWell, Cut
  <2> QED BY <2>2, <2>3 DEF AnchorStops, KeysInv, KeysAreWell, Bundle, AReceipt, keyVars
<1>2. EveryKeyIsKept'
  BY DEF AnchorStops, KeysInv, KeysAreWell, EveryKeyIsKept, Bundled, Bundle, keyVars
<1>3. CoveredIsBundled'
  BY DEF AnchorStops, KeysInv, KeysAreWell, CoveredIsBundled, Bundled, keyVars
<1> QED BY <1>1, <1>2, <1>3 DEF KeysInv

LEMMA RenderAgainKeepsKeys ==
  ASSUME KeysInv, NEW d \in Films, RenderAgain(d)
  PROVE  KeysInv'
<1>1. KeysAreWell'
  BY KeyAssumption DEF KeyAssumption, RenderAgain, KeysInv, KeysAreWell, Bundle, AReceipt, keyVars, Receipt, Edition, Documents, Cut
<1>2. EveryKeyIsKept'
  BY DEF RenderAgain, KeysInv, KeysAreWell, EveryKeyIsKept, Bundled, Bundle, keyVars
<1>3. CoveredIsBundled'
  BY DEF RenderAgain, KeysInv, KeysAreWell, CoveredIsBundled, Bundled, keyVars
<1> QED BY <1>1, <1>2, <1>3 DEF KeysInv

LEMMA KeysBegin == KeyInit => KeysInv
BY KeyAssumption DEF KeyAssumption, KeyInit, KeysInv, KeysAreWell, EveryKeyIsKept, CoveredIsBundled

LEMMA KeysStutter == KeysInv /\ UNCHANGED receiptVars => KeysInv'
BY DEF KeysInv, KeysAreWell, EveryKeyIsKept, CoveredIsBundled, Bundled, Bundle, AReceipt, receiptVars, keyVars

LEMMA KeysProve == KeysInv => ReceiptsStayProvable
<1> SUFFICES ASSUME KeysInv PROVE ReceiptsStayProvable
    OBVIOUS
<1>1. ASSUME NEW d \in Documents, receipts[d] # Nothing, receipts[d].whole, receipts[d].edition = Edition(d),
             receipts[d].key \notin overwritten \cup neverBackedUp
      PROVE  Provable(d)
  <2>1. receipts[d] \in AReceipt
    BY <1>1 DEF KeysInv, KeysAreWell
  <2>2. PICK k \in 1 .. made : receipts[d].key = k
    BY <2>1 DEF AReceipt
  <2>3. receipts[d] = Receipt(d, k)
    BY <1>1, <2>1, <2>2 DEF AReceipt, Receipt
  <2>4. keyFile = k \/ Bundled(k)
    BY <1>1, <2>2 DEF KeysInv, KeysAreWell, EveryKeyIsKept
  <2> QED BY <2>3, <2>4 DEF Provable, Authentic
<1> QED BY <1>1 DEF ReceiptsStayProvable, KeysInv, CoveredIsBundled

\* Whatever is rotated, recovered, cut off or lost, a receipt's key is in the key file or in a
\* bundle, with the exceptions the property names (adapters/key_recovery.py).
THEOREM ReceiptsProvable == KeySpec => []ReceiptsStayProvable
<1>1. KeysInv /\ [KeyNext]_receiptVars => KeysInv'
  BY BackupKeepsKeys, RotateKeepsKeys, RecoverKeyKeepsKeys, RotateEndsKeepsKeys, RotateStopsKeepsKeys, KeyFileLostKeepsKeys,
     InventoryKeepsKeys, AnchorKeepsKeys, AnchorStopsKeepsKeys, RenderAgainKeepsKeys, KeysStutter DEF KeyNext
<1> QED BY <1>1, KeysBegin, KeysProve, PTL DEF KeySpec

---------------------------------------------------------------------------
(* The schema: whoever migrates forwards has only whole versions behind    *)
(* it, and whoever rolls back is alone and takes only what its version     *)
(* made, so that the version, wherever it is stamped, promises no more.    *)

TableNames == { "family", "member", "child_profile", "spark", "moment", "little_thing", "right_now",
                "media", "domain_event", "device", "pairing_request", "pairing_attempt", "idempotency",
                "voice_note", "lexicon_term", "future_inbox", "render_job" }

\* What a script makes, and its rollback takes away.
MadeBy(v) == ToSet(Script[v])

\* The scripts as sets; a rollback takes what its script made, and no two make one table.
LEMMA ScriptsAreSets ==
  /\ MadeBy(1) = {"family", "member", "child_profile", "spark", "moment", "little_thing", "right_now", "media", "domain_event"}
  /\ MadeBy(2) = {"device", "pairing_request", "pairing_attempt", "idempotency"}
  /\ MadeBy(3) = {"voice_note"} /\ MadeBy(4) = {"lexicon_term"}
  /\ MadeBy(5) = {"future_inbox"} /\ MadeBy(6) = {"render_job"}
<1>1. /\ DOMAIN Script[1] = 1 .. 9 /\ DOMAIN Script[2] = 1 .. 4 /\ DOMAIN Script[3] = 1 .. 1
      /\ DOMAIN Script[4] = 1 .. 1 /\ DOMAIN Script[5] = 1 .. 1 /\ DOMAIN Script[6] = 1 .. 1
  BY DEF Script
<1> QED BY <1>1 DEF MadeBy, ToSet, Script

LEMMA RollbacksAreSets == \A v \in 1 .. 6 : ToSet(Rollback[v]) = MadeBy(v)
<1>1. /\ DOMAIN Rollback[1] = 1 .. 9 /\ DOMAIN Rollback[2] = 1 .. 4 /\ DOMAIN Rollback[3] = 1 .. 1
      /\ DOMAIN Rollback[4] = 1 .. 1 /\ DOMAIN Rollback[5] = 1 .. 1 /\ DOMAIN Rollback[6] = 1 .. 1
  BY DEF Rollback
<1>2. ToSet(Rollback[1]) = MadeBy(1)
  BY <1>1, ScriptsAreSets DEF Rollback, ToSet
<1>3. ToSet(Rollback[2]) = MadeBy(2) /\ ToSet(Rollback[3]) = MadeBy(3)
  BY <1>1, ScriptsAreSets DEF Rollback, ToSet
<1>4. ToSet(Rollback[4]) = MadeBy(4) /\ ToSet(Rollback[5]) = MadeBy(5) /\ ToSet(Rollback[6]) = MadeBy(6)
  BY <1>1, ScriptsAreSets DEF Rollback, ToSet
<1> QED BY <1>2, <1>3, <1>4

LEMMA ScriptsAreApart == \A u, v \in 1 .. 6 : u # v => MadeBy(u) \cap MadeBy(v) = {}
<1> SUFFICES ASSUME NEW u \in 1 .. 6, NEW v \in 1 .. 6, u # v
             PROVE  MadeBy(u) \cap MadeBy(v) = {}
    OBVIOUS
<1>1. v = 1 \/ v = 2 \/ v = 3 \/ v = 4 \/ v = 5 \/ v = 6
  OBVIOUS
<1>2. CASE u = 1
  BY <1>1, <1>2, ScriptsAreSets
<1>3. CASE u = 2
  BY <1>1, <1>3, ScriptsAreSets
<1>4. CASE u = 3
  BY <1>1, <1>4, ScriptsAreSets
<1>5. CASE u = 4
  BY <1>1, <1>5, ScriptsAreSets
<1>6. CASE u = 5
  BY <1>1, <1>6, ScriptsAreSets
<1>7. CASE u = 6
  BY <1>1, <1>7, ScriptsAreSets
<1>8. u = 1 \/ u = 2 \/ u = 3 \/ u = 4 \/ u = 5 \/ u = 6
  OBVIOUS
<1> QED BY <1>2, <1>3, <1>4, <1>5, <1>6, <1>7, <1>8

LEMMA ScriptsAreSequences == \A v \in 1 .. 6 : Script[v] \in Seq(TableNames) /\ Rollback[v] \in Seq(TableNames)
<1>1. Script[1] \in Seq(TableNames) /\ Rollback[1] \in Seq(TableNames)
  BY DEF Script, Rollback, TableNames
<1>2. Script[2] \in Seq(TableNames) /\ Rollback[2] \in Seq(TableNames)
  BY DEF Script, Rollback, TableNames
<1>3. Script[3] \in Seq(TableNames) /\ Rollback[3] \in Seq(TableNames)
  BY DEF Script, Rollback, TableNames
<1>4. Script[4] \in Seq(TableNames) /\ Rollback[4] \in Seq(TableNames)
  BY DEF Script, Rollback, TableNames
<1>5. Script[5] \in Seq(TableNames) /\ Rollback[5] \in Seq(TableNames)
  BY DEF Script, Rollback, TableNames
<1>6. Script[6] \in Seq(TableNames) /\ Rollback[6] \in Seq(TableNames)
  BY DEF Script, Rollback, TableNames
<1>7. \A v \in 1 .. 6 : v = 1 \/ v = 2 \/ v = 3 \/ v = 4 \/ v = 5 \/ v = 6
  OBVIOUS
<1> QED BY <1>1, <1>2, <1>3, <1>4, <1>5, <1>6, <1>7

\* What is left of a script is its next statement and the rest.
LEMMA HeadAndTail == \A s \in Seq(TableNames) : s # << >> =>
  /\ Head(s) \in ToSet(s) /\ Tail(s) \in Seq(TableNames)
  /\ \A t \in ToSet(s) : t = Head(s) \/ t \in ToSet(Tail(s))
  /\ ToSet(Tail(s)) \subseteq ToSet(s)
<1> SUFFICES ASSUME NEW s \in Seq(TableNames), s # << >>
             PROVE  /\ Head(s) \in ToSet(s) /\ Tail(s) \in Seq(TableNames)
                    /\ \A t \in ToSet(s) : t = Head(s) \/ t \in ToSet(Tail(s))
                    /\ ToSet(Tail(s)) \subseteq ToSet(s)
    OBVIOUS
<1>1. Len(s) \in Nat /\ Len(s) > 0 /\ DOMAIN s = 1 .. Len(s) /\ Head(s) = s[1]
  OBVIOUS
<1>2. /\ Tail(s) \in Seq(TableNames) /\ DOMAIN Tail(s) = 1 .. Len(s) - 1
      /\ \A i \in 1 .. Len(s) - 1 : Tail(s)[i] = s[i + 1]
  OBVIOUS
<1>3. Head(s) \in ToSet(s)
  BY <1>1 DEF ToSet
<1>4. ToSet(Tail(s)) \subseteq ToSet(s)
  <2>1. \A i \in 1 .. Len(s) - 1 : i + 1 \in 1 .. Len(s)
    BY <1>1
  <2> QED BY <1>1, <1>2, <2>1 DEF ToSet
<1>5. ASSUME NEW t \in ToSet(s) PROVE t = Head(s) \/ t \in ToSet(Tail(s))
  <2>1. PICK i \in 1 .. Len(s) : t = s[i]
    BY <1>1 DEF ToSet
  <2>2. CASE i = 1
    BY <1>1, <2>1, <2>2
  <2>3. CASE i # 1
    <3>1. i - 1 \in 1 .. Len(s) - 1 /\ Tail(s)[i - 1] = s[i]
      BY <1>1, <1>2, <2>3
    <3> QED BY <1>2, <2>1, <3>1 DEF ToSet
  <2> QED BY <2>2, <2>3
<1> QED BY <1>2, <1>3, <1>4, <1>5

LEMMA NoneLeft == ToSet(<< >>) = {}
  BY DEF ToSet

Runner == [at : {"off", "script"}, from : 0 .. Latest, to : 0 .. Latest, step : 0 .. Latest, left : Seq(TableNames)]
SchemaIsSound ==
  /\ version \in 0 .. Latest /\ runner \in [Runners -> Runner] /\ beside \in BOOLEAN
  /\ \A p \in Runners : Migrating(p) =>
       /\ runner[p].step \in 1 .. Latest /\ ToSet(runner[p].left) \subseteq MadeBy(runner[p].step)
       /\ IF Backward(p) THEN runner[p].to < runner[p].step ELSE runner[p].step <= runner[p].to

\* A rollback is alone, at the version it takes back.
RollsAlone == \A p \in Runners : Migrating(p) /\ Backward(p) =>
  version = runner[p].step /\ \A q \in Runners \ {p} : ~ Migrating(q)

\* Whoever migrates forwards has every version behind it, and of this one what is not left.
Whole(v) == v \in undone \/ MadeBy(v) \subseteq tables
ClimbsOnWhole == \A p \in Runners : Migrating(p) /\ ~ Backward(p) =>
  /\ \A v \in 1 .. runner[p].step - 1 : Whole(v)
  /\ \A t \in MadeBy(runner[p].step) : t \in ToSet(runner[p].left) \/ t \in tables

VersionIsWhole == \A v \in 1 .. version :
  Whole(v) \/ \E p \in Runners : Migrating(p) /\ Backward(p) /\ runner[p].step = v

SchemaInv == SchemaIsSound /\ (beside \/ (RollsAlone /\ ClimbsOnWhole /\ VersionIsWhole))

\* Where a runner goes next.
LEMMA OnwardMeans ==
  ASSUME NEW r \in Runner
  PROVE  /\ r.step < r.to => /\ Onward(r) \in Runner /\ Onward(r).at = "script" /\ Onward(r).step = r.step + 1
                             /\ Onward(r).from = r.from /\ Onward(r).to = r.to
                             /\ Onward(r).left = Script[r.step + 1]
         /\ r.step > r.to => /\ Onward(r) \in Runner /\ Onward(r).at = "script" /\ Onward(r).step = r.step
                             /\ Onward(r).from = r.from /\ Onward(r).to = r.to /\ Onward(r).left = Rollback[r.step]
         /\ r.step = r.to => Onward(r) = Off
         /\ Onward(r) \in Runner /\ Off \in Runner /\ Off.at = "off"
<1>1. Latest \in 1 .. 6 /\ Latest \in Nat /\ r.step \in 0 .. Latest /\ r.to \in 0 .. Latest
  BY SchemaAssumption DEF SchemaAssumption, Runner
<1>2. Off \in Runner /\ Off.at = "off"
  BY SchemaAssumption DEF SchemaAssumption, Runner, Off
<1>3. ASSUME r.step < r.to
      PROVE  /\ Onward(r) \in Runner /\ Onward(r).at = "script" /\ Onward(r).step = r.step + 1
             /\ Onward(r).from = r.from /\ Onward(r).to = r.to
             /\ Onward(r).left = Script[r.step + 1]
  <2>1. r.step + 1 \in 0 .. Latest /\ r.step + 1 \in 1 .. 6
    BY <1>1, <1>3
  <2>2. Script[r.step + 1] \in Seq(TableNames)
    BY <2>1, ScriptsAreSequences
  <2>3. Onward(r) = [r EXCEPT !.at = "script", !.step = @ + 1, !.left = Script[r.step + 1]]
    BY <1>1, <1>3 DEF Onward
  <2> DEFINE new == [r EXCEPT !.at = "script", !.step = r.step + 1, !.left = Script[r.step + 1]]
  <2>4. /\ new.at = "script" /\ new.step = r.step + 1 /\ new.from = r.from /\ new.to = r.to
        /\ new.left = Script[r.step + 1]
    BY DEF Runner
  <2>5. new \in Runner
    BY <2>1, <2>2 DEF Runner
  <2>6. Onward(r) = new
    BY <2>3
  <2> HIDE DEF new
  <2> QED BY <2>4, <2>5, <2>6
<1>4. ASSUME r.step > r.to
      PROVE  /\ Onward(r) \in Runner /\ Onward(r).at = "script" /\ Onward(r).step = r.step
             /\ Onward(r).from = r.from /\ Onward(r).to = r.to /\ Onward(r).left = Rollback[r.step]
  <2>1. r.step \in 1 .. 6
    BY <1>1, <1>4
  <2>2. Rollback[r.step] \in Seq(TableNames)
    BY <2>1, ScriptsAreSequences
  <2>3. Onward(r) = [r EXCEPT !.at = "script", !.left = Rollback[r.step]]
    BY <1>1, <1>4 DEF Onward
  <2> DEFINE new == [r EXCEPT !.at = "script", !.left = Rollback[r.step]]
  <2>4. /\ new.at = "script" /\ new.step = r.step /\ new.from = r.from /\ new.to = r.to
        /\ new.left = Rollback[r.step]
    BY DEF Runner
  <2>5. new \in Runner
    BY <2>2 DEF Runner
  <2>6. Onward(r) = new
    BY <2>3
  <2> HIDE DEF new
  <2> QED BY <2>4, <2>5, <2>6
<1>5. r.step = r.to => Onward(r) = Off
  BY <1>1 DEF Onward
<1> QED BY <1>1, <1>2, <1>3, <1>4, <1>5


\* What is to be climbed is a script, and what is to be rolled back one that is there.
LEMMA BeginsKeeps ==
  ASSUME SchemaInv, NEW p \in Runners, NEW target \in 0 .. Latest, Begins(p, target)
  PROVE  SchemaInv'
<1> DEFINE r == [Off EXCEPT !.from = version, !.step = version, !.to = target]
<1>1. /\ Latest \in 1 .. 6 /\ version \in 0 .. Latest /\ runner \in [Runners -> Runner] /\ beside \in BOOLEAN
  BY SchemaAssumption DEF SchemaAssumption, SchemaInv, SchemaIsSound
<1>2. r \in Runner /\ r.from = version /\ r.step = version /\ r.to = target
  <2>1. Off \in Runner
    BY <1>1 DEF Runner, Off
  <2>2. r \in Runner
    BY <1>1, <2>1 DEF Runner
  <2>3. r.from = version /\ r.step = version /\ r.to = target
    BY <2>1 DEF Runner
  <2> QED BY <2>2, <2>3
<1>3. /\ version # target /\ runner' = [runner EXCEPT ![p] = Onward(r)]
      /\ beside' = (beside \/ \E q \in Runners : Migrating(q) /\ (target < version \/ Backward(q)))
      /\ version' = version /\ tables' = tables /\ undone' = undone
      /\ runner[p] = Off /\ (target > version => target = Latest)
  BY DEF Begins
<1> HIDE DEF r
<1>4. /\ Onward(r) \in Runner /\ Onward(r).at = "script" /\ Onward(r).from = version /\ Onward(r).to = target
      /\ target > version => Onward(r).step = version + 1 /\ Onward(r).left = Script[version + 1]
      /\ target < version => Onward(r).step = version /\ Onward(r).left = Rollback[version]
  BY <1>1, <1>2, <1>3, OnwardMeans
<1>5. /\ runner'[p] = Onward(r) /\ \A q \in Runners \ {p} : runner'[q] = runner[q]
      /\ runner' \in [Runners -> Runner]
  BY <1>1, <1>3, <1>4
<1>6. /\ Migrating(p)' /\ (Backward(p)' <=> target < version)
      /\ \A q \in Runners \ {p} : /\ (Migrating(q)' <=> Migrating(q)) /\ (Backward(q)' <=> Backward(q))
  BY <1>4, <1>5 DEF Migrating, Backward
<1>7. ~ Migrating(p)
  BY <1>3, OnwardMeans, <1>2 DEF Migrating
<1>8. runner'[p].step \in 1 .. 6 /\ ToSet(runner'[p].left) = MadeBy(runner'[p].step)
  <2>1. CASE target > version
    BY <1>1, <1>4, <1>5, <2>1 DEF MadeBy
  <2>2. CASE target < version
    BY <1>1, <1>4, <1>5, <2>2, RollbacksAreSets
  <2> QED BY <1>1, <1>3, <2>1, <2>2
<1>9. SchemaIsSound'
  BY <1>1, <1>3, <1>4, <1>5, <1>6, <1>8 DEF SchemaInv, SchemaIsSound
<1>10. ASSUME ~ beside' PROVE (RollsAlone /\ ClimbsOnWhole /\ VersionIsWhole)'
  <2>1. ~ (beside \/ \E q \in Runners : Migrating(q) /\ (target < version \/ Backward(q)))
    BY <1>3, <1>10
  <2>2. /\ ~ beside /\ RollsAlone /\ ClimbsOnWhole /\ VersionIsWhole
        /\ \A q \in Runners : Migrating(q) => ~ Backward(q) /\ target > version
    BY <1>1, <1>3, <2>1 DEF SchemaInv
  <2>3. RollsAlone'
    BY <1>1, <1>3, <1>4, <1>5, <1>6, <2>2 DEF RollsAlone
  <2>4. \A v : Whole(v)' <=> Whole(v)
    BY <1>3 DEF Whole
  <2>5. \A v \in 1 .. version : Whole(v)
    BY <2>2 DEF VersionIsWhole
  <2>6. ClimbsOnWhole'
    BY <1>1, <1>3, <1>4, <1>5, <1>6, <1>8, <2>2, <2>4, <2>5 DEF ClimbsOnWhole
  <2>7. VersionIsWhole'
    BY <1>3, <2>4, <2>5 DEF VersionIsWhole
  <2> QED BY <2>3, <2>6, <2>7
<1> QED BY <1>9, <1>10 DEF SchemaInv

\* A statement of a rollback takes only what its own version made.
LEMMA ExecutesKeeps ==
  ASSUME SchemaInv, NEW p \in Runners, Executes(p)
  PROVE  SchemaInv'
<1> DEFINE l == runner[p].left
<1>1. /\ Latest \in 1 .. 6 /\ version \in 0 .. Latest /\ runner \in [Runners -> Runner] /\ beside \in BOOLEAN
      /\ l \in Seq(TableNames) /\ runner[p].step \in 1 .. 6 /\ ToSet(l) \subseteq MadeBy(runner[p].step)
  <2>1. /\ Latest \in 1 .. 6 /\ version \in 0 .. Latest /\ runner \in [Runners -> Runner] /\ beside \in BOOLEAN
        /\ Migrating(p) /\ runner[p].step \in 1 .. Latest /\ ToSet(l) \subseteq MadeBy(runner[p].step)
    BY SchemaAssumption DEF SchemaAssumption, SchemaInv, SchemaIsSound, Executes
  <2>2. l \in Seq(TableNames) /\ runner[p].step \in 1 .. 6
    BY <2>1 DEF Runner
  <2> QED BY <2>1, <2>2
<1>2. /\ Migrating(p) /\ l # << >>
      /\ tables' = IF Backward(p) THEN tables \ {Head(l)} ELSE tables \cup {Head(l)}
      /\ version' = version /\ undone' = undone /\ beside' = beside
      /\ runner' = [runner EXCEPT ![p].left = Tail(@)]
  BY DEF Executes
<1>3. /\ Head(l) \in ToSet(l) /\ Tail(l) \in Seq(TableNames)
      /\ \A t \in ToSet(l) : t = Head(l) \/ t \in ToSet(Tail(l))
      /\ ToSet(Tail(l)) \subseteq ToSet(l)
  BY <1>1, <1>2, HeadAndTail
<1>4. PICK rest \in Seq(TableNames) : rest = Tail(l)
  BY <1>3
<1>5. runner' = [runner EXCEPT ![p].left = rest]
  BY <1>2, <1>4
<1>6. /\ runner' \in [Runners -> Runner]
      /\ \A q \in Runners : /\ runner'[q].at = runner[q].at /\ runner'[q].from = runner[q].from
                            /\ runner'[q].to = runner[q].to /\ runner'[q].step = runner[q].step
                            /\ q # p => runner'[q].left = runner[q].left
      /\ runner'[p].left = rest
  BY <1>1, <1>5 DEF Runner
<1>7. \A q \in Runners : (Migrating(q)' <=> Migrating(q)) /\ (Backward(q)' <=> Backward(q))
  <2>1. ASSUME NEW q \in Runners
        PROVE  (Migrating(q)' <=> Migrating(q)) /\ (Backward(q)' <=> Backward(q))
    <3>1. runner'[q].at = runner[q].at /\ runner'[q].from = runner[q].from /\ runner'[q].to = runner[q].to
      BY <1>6
    <3>2. Migrating(q)' <=> Migrating(q)
      BY <3>1 DEF Migrating
    <3>3. Backward(q)' <=> Backward(q)
      BY <3>1, Zenon DEF Backward
    <3> QED BY <3>2, <3>3
  <2> QED BY <2>1
<1>8. SchemaIsSound'
  <2>1. ASSUME NEW q \in Runners, Migrating(q)
        PROVE  /\ runner'[q].step \in 1 .. Latest /\ ToSet(runner'[q].left) \subseteq MadeBy(runner'[q].step)
               /\ IF Backward(q) THEN runner'[q].to < runner'[q].step ELSE runner'[q].step <= runner'[q].to
    <3>1. /\ runner[q].step \in 1 .. Latest /\ ToSet(runner[q].left) \subseteq MadeBy(runner[q].step)
          /\ IF Backward(q) THEN runner[q].to < runner[q].step ELSE runner[q].step <= runner[q].to
      BY <2>1 DEF SchemaInv, SchemaIsSound
    <3>2. runner'[q].step = runner[q].step /\ runner'[q].to = runner[q].to
      BY <1>6
    <3>3. ToSet(runner'[q].left) \subseteq MadeBy(runner[q].step)
      BY <1>1, <1>3, <1>4, <1>6, <3>1
    <3> QED BY <3>1, <3>2, <3>3
  <2> QED BY <1>1, <1>2, <1>6, <1>7, <2>1 DEF SchemaIsSound
<1>9. ASSUME ~ beside PROVE (RollsAlone /\ ClimbsOnWhole /\ VersionIsWhole)'
  <2>1. RollsAlone /\ ClimbsOnWhole /\ VersionIsWhole
    BY <1>9 DEF SchemaInv
  <2>2. RollsAlone'
    BY <1>2, <1>6, <1>7, <2>1 DEF RollsAlone
  <2>3. CASE ~ Backward(p)
    <3>1. tables \subseteq tables' /\ \A v : Whole(v) => Whole(v)'
      BY <1>2, <2>3 DEF Whole
    <3>2. ClimbsOnWhole'
      BY <1>2, <1>3, <1>4, <1>6, <1>7, <2>1, <2>3, <3>1 DEF ClimbsOnWhole
    <3>3. VersionIsWhole'
      BY <1>2, <1>6, <1>7, <2>1, <3>1 DEF VersionIsWhole
    <3> QED BY <2>2, <3>2, <3>3
  <2>4. CASE Backward(p)
    <3>1. \A q \in Runners : Migrating(q)' => q = p
      BY <1>2, <1>7, <2>1, <2>4 DEF RollsAlone
    <3>2. \A v \in 1 .. 6 : v # runner[p].step => (Whole(v) => Whole(v)')
      BY <1>1, <1>2, <1>3, <2>4, ScriptsAreApart DEF Whole
    <3>3. ClimbsOnWhole'
      BY <1>7, <2>4, <3>1 DEF ClimbsOnWhole
    <3>4. VersionIsWhole'
      BY <1>1, <1>2, <1>6, <1>7, <2>1, <2>4, <3>2 DEF VersionIsWhole
    <3> QED BY <2>2, <3>3, <3>4
  <2> QED BY <2>3, <2>4
<1> QED BY <1>2, <1>8, <1>9 DEF SchemaInv


\* What was done is stamped, and nobody forgets what is not whole but a rollback that is through.
LEMMA StampsKeeps ==
  ASSUME SchemaInv, NEW p \in Runners, Stamps(p)
  PROVE  SchemaInv'
<1> DEFINE r == [runner[p] EXCEPT !.step = version']
<1>1. /\ Latest \in 1 .. 6 /\ version \in 0 .. Latest /\ runner \in [Runners -> Runner] /\ beside \in BOOLEAN
      /\ Migrating(p) /\ runner[p].step \in 1 .. Latest
      /\ IF Backward(p) THEN runner[p].to < runner[p].step ELSE runner[p].step <= runner[p].to
  BY SchemaAssumption DEF SchemaAssumption, SchemaInv, SchemaIsSound, Stamps
<1>2. /\ version' = IF Backward(p) THEN runner[p].step - 1 ELSE runner[p].step
      /\ version' \in 0 .. Latest
  BY <1>1 DEF Stamps
<1>3. /\ runner' = [runner EXCEPT ![p] = Onward(r)] /\ ToSet(runner[p].left) = {}
      /\ undone' = undone \ {runner[p].step} /\ tables' = tables /\ beside' = beside
  BY NoneLeft DEF Stamps
<1>4. PICK now \in 0 .. Latest : now = version'
  BY <1>2
<1>5. r \in Runner /\ r.from = runner[p].from /\ r.step = now /\ r.to = runner[p].to
  <2>1. [runner[p] EXCEPT !.step = now] \in Runner
    BY <1>1 DEF Runner
  <2> QED BY <1>1, <1>4, <2>1 DEF Runner
<1> HIDE DEF r
<1>6. /\ Onward(r) \in Runner
      /\ r.step = r.to => Onward(r).at = "off"
      /\ r.step # r.to => Onward(r).at = "script" /\ Onward(r).from = r.from /\ Onward(r).to = r.to
      /\ r.step < r.to => Onward(r).step = r.step + 1 /\ Onward(r).left = Script[r.step + 1]
      /\ r.step > r.to => Onward(r).step = r.step /\ Onward(r).left = Rollback[r.step]
  <2>1. r.step \in Nat /\ r.to \in Nat
    BY <1>1, <1>5 DEF Runner
  <2>2. r.step < r.to \/ r.step > r.to \/ r.step = r.to
    BY <2>1
  <2> QED BY <1>5, <2>1, <2>2, OnwardMeans
<1>7. /\ runner'[p] = Onward(r) /\ \A q \in Runners \ {p} : runner'[q] = runner[q]
      /\ runner' \in [Runners -> Runner]
  BY <1>1, <1>3, <1>6
<1>8. \A q \in Runners \ {p} : (Migrating(q)' <=> Migrating(q)) /\ (Backward(q)' <=> Backward(q))
  BY <1>7 DEF Migrating, Backward
<1>9. Migrating(p)' =>
        /\ Backward(p)' <=> Backward(p)
        /\ runner'[p].step = IF Backward(p) THEN now ELSE now + 1
        /\ runner'[p].step \in 1 .. Latest /\ ToSet(runner'[p].left) = MadeBy(runner'[p].step)
        /\ IF Backward(p) THEN runner'[p].to < runner'[p].step ELSE runner'[p].step <= runner'[p].to
  <2>1. /\ runner[p].to \in 0 .. Latest /\ runner[p].from \in 0 .. Latest /\ runner[p].step \in Nat
        /\ now = IF Backward(p) THEN runner[p].step - 1 ELSE runner[p].step
    BY <1>1, <1>2, <1>4 DEF Runner
  <2>2. CASE ~ Backward(p) /\ now < runner[p].to
    <3>1. /\ runner'[p].step = now + 1 /\ runner'[p].left = Script[now + 1]
          /\ runner'[p].from = runner[p].from /\ runner'[p].to = runner[p].to
      BY <1>5, <1>6, <1>7, <2>2, <2>1
    <3>2. now + 1 \in 1 .. Latest /\ now + 1 <= runner[p].to
      BY <1>1, <2>1, <2>2
    <3> QED BY <2>2, <3>1, <3>2 DEF MadeBy, Backward
  <2>3. CASE Backward(p) /\ now > runner[p].to
    <3>1. /\ runner'[p].step = now /\ runner'[p].left = Rollback[now]
          /\ runner'[p].from = runner[p].from /\ runner'[p].to = runner[p].to
      BY <1>5, <1>6, <1>7, <2>3, <2>1
    <3>2. now \in 1 .. Latest /\ now \in 1 .. 6
      BY <1>1, <2>1, <2>3
    <3> QED BY <2>3, <3>1, <3>2, RollbacksAreSets DEF Backward
  <2>4. CASE now = runner[p].to
    BY <1>5, <1>6, <1>7, <2>4 DEF Migrating
  <2> QED BY <1>1, <2>1, <2>2, <2>3, <2>4
<1>10. SchemaIsSound'
  BY <1>1, <1>2, <1>3, <1>7, <1>8, <1>9 DEF SchemaInv, SchemaIsSound
<1>11. ASSUME ~ beside PROVE (RollsAlone /\ ClimbsOnWhole /\ VersionIsWhole)'
  <2>1. RollsAlone /\ ClimbsOnWhole /\ VersionIsWhole
    BY <1>11 DEF SchemaInv
  <2>2. \A v : v # runner[p].step => (Whole(v) => Whole(v)')
    BY <1>3 DEF Whole
  <2>3. CASE Backward(p)
    <3>1. \A q \in Runners \ {p} : ~ Migrating(q)
      BY <1>1, <2>1, <2>3 DEF RollsAlone
    <3>2. RollsAlone'
      BY <1>4, <1>8, <1>9, <2>3, <3>1 DEF RollsAlone
    <3>3. ClimbsOnWhole'
      BY <1>8, <1>9, <2>3, <3>1 DEF ClimbsOnWhole
    <3>4. \A v \in 1 .. now : Whole(v)
      BY <1>1, <1>2, <1>4, <2>1, <2>3, <3>1 DEF RollsAlone, VersionIsWhole
    <3>5. VersionIsWhole'
      BY <1>1, <1>2, <1>4, <2>2, <2>3, <3>4 DEF VersionIsWhole
    <3> QED BY <3>2, <3>3, <3>5
  <2>4. CASE ~ Backward(p)
    <3>1. \A q \in Runners : Migrating(q) => ~ Backward(q)
      BY <1>1, <2>1, <2>4 DEF RollsAlone
    <3>2. MadeBy(now) \subseteq tables /\ now = runner[p].step /\ \A v \in 1 .. now : Whole(v)
      <4>1. now = runner[p].step /\ MadeBy(now) \subseteq tables
        BY <1>1, <1>2, <1>3, <1>4, <2>1, <2>4 DEF ClimbsOnWhole
      <4>2. \A v \in 1 .. runner[p].step - 1 : Whole(v)
        BY <1>1, <2>1, <2>4 DEF ClimbsOnWhole
      <4>3. \A v \in 1 .. now : v = now \/ v \in 1 .. runner[p].step - 1
        BY <1>1, <4>1
      <4>4. Whole(now)
        BY <4>1 DEF Whole
      <4> QED BY <4>1, <4>2, <4>3, <4>4
    <3>3. \A v : Whole(v) => Whole(v)'
      BY <1>3, <2>2, <3>2 DEF Whole
    <3>4. RollsAlone'
      BY <1>8, <1>9, <2>4, <3>1 DEF RollsAlone
    <3>5. VersionIsWhole'
      BY <1>4, <3>2, <3>3 DEF VersionIsWhole
    <3>6. ASSUME NEW q \in Runners, Migrating(q)', ~ Backward(q)'
          PROVE  /\ \A v \in 1 .. runner'[q].step - 1 : Whole(v)'
                 /\ \A t \in MadeBy(runner'[q].step) : t \in ToSet(runner'[q].left) \/ t \in tables'
      <4>1. CASE q = p
        <5>1. runner'[p].step = now + 1 /\ ToSet(runner'[p].left) = MadeBy(runner'[p].step)
          BY <1>9, <2>4, <3>6, <4>1
        <5>2. runner'[p].step - 1 = now
          BY <5>1
        <5> QED BY <3>2, <3>3, <4>1, <5>1, <5>2
      <4>2. CASE q # p
        <5>1. runner'[q] = runner[q] /\ Migrating(q) /\ ~ Backward(q)
          BY <1>7, <1>8, <3>6, <4>2
        <5> QED BY <1>3, <2>1, <3>3, <5>1 DEF ClimbsOnWhole
      <4> QED BY <4>1, <4>2
    <3>7. ClimbsOnWhole'
      BY <3>6 DEF ClimbsOnWhole
    <3> QED BY <3>4, <3>5, <3>7
  <2> QED BY <2>3, <2>4
<1> QED BY <1>3, <1>10, <1>11 DEF SchemaInv

\* A rollback that was killed is on record.
LEMMA InterruptedKeeps ==
  ASSUME SchemaInv, NEW p \in Runners, Interrupted(p)
  PROVE  SchemaInv'
<1>1. /\ Latest \in 1 .. 6 /\ version \in 0 .. Latest /\ runner \in [Runners -> Runner] /\ beside \in BOOLEAN
  BY SchemaAssumption DEF SchemaAssumption, SchemaInv, SchemaIsSound
<1>2. /\ Migrating(p) /\ undone' = IF Backward(p) THEN undone \cup {runner[p].step} ELSE undone
      /\ runner' = [runner EXCEPT ![p] = Off]
      /\ version' = version /\ tables' = tables /\ beside' = beside
  BY DEF Interrupted
<1>3. Off \in Runner /\ Off.at = "off"
  BY <1>1 DEF Runner, Off
<1>4. /\ runner' \in [Runners -> Runner] /\ ~ Migrating(p)'
      /\ \A q \in Runners \ {p} : runner'[q] = runner[q]
  BY <1>1, <1>2, <1>3 DEF Migrating
<1>5. \A q \in Runners \ {p} : (Migrating(q)' <=> Migrating(q)) /\ (Backward(q)' <=> Backward(q))
  BY <1>4 DEF Migrating, Backward
<1>6. SchemaIsSound'
  BY <1>1, <1>2, <1>4, <1>5 DEF SchemaInv, SchemaIsSound
<1>7. ASSUME ~ beside PROVE (RollsAlone /\ ClimbsOnWhole /\ VersionIsWhole)'
  <2>1. RollsAlone /\ ClimbsOnWhole /\ VersionIsWhole
    BY <1>7 DEF SchemaInv
  <2>2. /\ \A v : Whole(v) => Whole(v)'
        /\ \A v : v = runner[p].step /\ Backward(p) => Whole(v)'
    <3>1. CASE Backward(p)
      BY <1>2, <3>1 DEF Whole
    <3>2. CASE ~ Backward(p)
      BY <1>2, <3>2 DEF Whole
    <3> QED BY <3>1, <3>2
  <2>3. RollsAlone'
    BY <1>2, <1>4, <1>5, <2>1 DEF RollsAlone
  <2>4. ClimbsOnWhole'
    BY <1>2, <1>4, <1>5, <2>1, <2>2 DEF ClimbsOnWhole
  <2>5. VersionIsWhole'
    <3> SUFFICES ASSUME NEW v \in 1 .. version,
                        ~ \E q \in Runners : Migrating(q)' /\ Backward(q)' /\ runner'[q].step = v
                 PROVE  Whole(v)'
        BY <1>2 DEF VersionIsWhole
    <3>1. CASE Whole(v)
      BY <2>2, <3>1
    <3>2. CASE \E q \in Runners : Migrating(q) /\ Backward(q) /\ runner[q].step = v
      BY <1>4, <1>5, <2>2, <3>2
    <3> QED BY <2>1, <3>1, <3>2 DEF VersionIsWhole
  <2> QED BY <2>3, <2>4, <2>5
<1> QED BY <1>2, <1>6, <1>7 DEF SchemaInv

LEMMA SchemaBegins == SchemaInit => SchemaInv
<1> SUFFICES ASSUME SchemaInit PROVE SchemaInv
    OBVIOUS
<1>1. Latest \in 1 .. 6 /\ Off \in Runner /\ Off.at = "off"
  BY SchemaAssumption DEF SchemaAssumption, Runner, Off
<1>2. \A p \in Runners : ~ Migrating(p)
  BY <1>1 DEF SchemaInit, Migrating
<1>3. SchemaIsSound
  BY <1>1, <1>2 DEF SchemaInit, SchemaIsSound
<1>4. RollsAlone /\ ClimbsOnWhole
  BY <1>2 DEF RollsAlone, ClimbsOnWhole
<1>5. VersionIsWhole
  BY DEF SchemaInit, VersionIsWhole, Whole, Tables, MadeBy
<1> QED BY <1>3, <1>4, <1>5 DEF SchemaInv

LEMMA SchemaStutter == SchemaInv /\ UNCHANGED schemaVars => SchemaInv'
BY DEF SchemaInv, SchemaIsSound, RollsAlone, ClimbsOnWhole, VersionIsWhole, Whole, Migrating, Backward, schemaVars

LEMMA SchemaProves == SchemaInv => SchemaIsWhole
BY DEF SchemaInv, VersionIsWhole, Whole, MadeBy, SchemaIsWhole

\* However many processes migrate forwards at once, and whoever is killed, the version
\* promises no table that is not there (adapters/persistence/migrations.py).
THEOREM VersionPromisesNoMore == SchemaSpec => []SchemaIsWhole
<1>1. SchemaInv /\ [SchemaNext]_schemaVars => SchemaInv'
  BY BeginsKeeps, ExecutesKeeps, StampsKeeps, InterruptedKeeps, SchemaStutter DEF SchemaNext
<1> QED BY <1>1, SchemaBegins, SchemaProves, PTL DEF SchemaSpec

---------------------------------------------------------------------------
(* Custody: a file that is not whole has its reason, a row that has no     *)
(* file was parted from it, and a walk that left nothing behind left no    *)
(* file under the old key, but for those on record.                        *)

Files == {Gone} \cup [key : {Old, New}, state : {"whole", "torn", "rotten"}]
Writer == [at : {"free", "write", "writing", "record"}, medium : SUBSET Media, row : BOOLEAN]
Walk == [ at : {"no", "walking", "read", "writing", "done", "broken"}, left : SUBSET Media,
          medium : SUBSET Media, failed : BOOLEAN ]
Copy == [ at : {"no", "files", "done"}, rows : SUBSET Media, left : SUBSET Media,
          held : [Media -> Files], listed : [Media -> Files], excused : SUBSET Media ]
Restoring == [at : {"no", "files", "done", "served"}, left : SUBSET Media, replayed : BOOLEAN]

RowsAndFiles == catalogue \subseteq Media /\ parted \subseteq Media /\ store \in [Media -> Files]
KeysTyped ==
  settings \in {<<Old>>, <<New, Old>>, <<New>>} /\ ring \in {<<>>, <<Old>>, <<New, Old>>, <<New>>}
WritersTyped == writer \in [Writers -> Writer]
WalkTyped == walk \in Walk
CopyTyped == copy \in Copy
OthersTyped == restoring \in Restoring /\ erasure \in {"no", "files"} /\ wal \in BOOLEAN

\* Whoever writes writes one file.
OneEach ==
  /\ \A w \in Writers : \A a, b \in writer[w].medium : a = b
  /\ \A a, b \in walk.medium : a = b
  /\ walk.at \notin {"read", "writing"} => walk.medium = {}

\* Nobody writes while the server is stopped, and only a stopped server, with nobody walking,
\* is restored, from a backup that was verified.
Stopped == ring = <<>> => (\A w \in Writers : writer[w] = Free) /\ erasure = "no"
RestoredAlone == restoring.at \in {"files", "done"} =>
  /\ ring = <<>> /\ walk.at \notin {"walking", "read", "writing"}
  /\ copy.at = "done" /\ copy.held = copy.listed /\ (catalogue = copy.rows \/ restoring.replayed)
  /\ restoring.left \subseteq {m \in Media : copy.held[m] # Gone}
  /\ restoring.at = "done" => restoring.left = {}

\* What is not whole has its reason.
TornIsKnown == \A m \in Media : store[m].state = "torn" =>
  m \in cut \cup Writing \/ (walk.at = "writing" /\ m \in walk.medium)
RottenIsKnown == \A m \in Media : store[m].state = "rotten" => m \in rotten

\* A row has its file; while files come back, the snapshot's may still lack theirs, and no other.
RowsHaveFiles == restoring.at # "files" => \A m \in catalogue \ parted : OnDisk(m)
FilesComeBack == restoring.at = "files" =>
  \A m \in catalogue :
    OnDisk(m) \/ m \in parted \/ (m \in copy.rows /\ (m \in restoring.left \/ copy.held[m] = Gone))
RecordedAreThere == \A w \in Writers : writer[w].at \in {"writing", "record"} =>
  \A m \in writer[w].medium : OnDisk(m) \/ m \in parted

\* A walk that left nothing behind left no file under the old key, but for those on record.
OldBefore == settings = <<Old>> =>
  /\ ring \in {<<>>, <<Old>>} /\ walk = NotWalking
  /\ \A m \in Media : store[m].key = Old /\ copy.held[m].key = Old
OldIsLeft == walk.at \in {"walking", "read", "writing", "done"} /\ ~ walk.failed =>
  \A m \in Media : store[m].state = "whole" /\ store[m].key = Old =>
    m \in walk.left \cup walk.medium \cup late \cup broughtBack
RetiredIsDone == settings = <<New>> => walk.at = "done" /\ ~ walk.failed
DoneIsDone == walk.at = "done" => walk.left = {}

\* The backup copied what was whole.
CopiesWhole == copy.at # "no" =>
  \A m \in copy.rows \ copy.excused :
    IF m \in copy.left THEN OnDisk(m) ELSE copy.listed[m].state = "whole"
CopiedAll == /\ copy.at = "done" => copy.left = {}
             /\ copy.at = "files" => restoring.at \in {"no", "served"}
ComesBack == restoring.at \in {"files", "done"} =>
  \A m \in Media : copy.held[m] # Gone /\ m \notin restoring.left => store[m] = copy.held[m]

CustodyInv == /\ RowsAndFiles /\ KeysTyped /\ WritersTyped /\ WalkTyped /\ CopyTyped /\ OthersTyped
       /\ OneEach /\ Stopped /\ RestoredAlone /\ TornIsKnown /\ RottenIsKnown
        /\ RowsHaveFiles /\ FilesComeBack /\ RecordedAreThere /\ OldBefore /\ OldIsLeft /\ RetiredIsDone /\ DoneIsDone
        /\ CopiesWhole /\ CopiedAll /\ ComesBack

\* A running server has a key.
LEMMA HeadOfRing == KeysTyped /\ ring # << >> => Head(ring) \in {Old, New}
BY DEF KeysTyped

\* What File makes is a file.
LEMMA FileIsAFile == \A k \in {Old, New}, s \in {"whole", "torn", "rotten"} : File(k, s) \in Files
BY DEF File, Files

\* A torn file is a file, under the active key.
LEMMA TruncatesFiles == ASSUME CustodyInv, NEW w \in Writers, Truncates(w) PROVE RowsAndFiles'
<1>1. ring # << >>
  BY DEF CustodyInv, Truncates, Stopped, Free
<1>2. \A m : File(Head(ring), "torn") \in Files
  BY <1>1, HeadOfRing, FileIsAFile DEF CustodyInv
<1> QED BY <1>2 DEF CustodyInv, Truncates, RowsAndFiles

\* So is one that was written.
LEMMA WritesFiles == ASSUME CustodyInv, NEW w \in Writers, Writes(w) PROVE RowsAndFiles'
<1>1. ring # << >>
  BY DEF CustodyInv, Writes, Stopped, Free
<1>2. \A m : File(Head(ring), "whole") \in Files
  BY <1>1, HeadOfRing, FileIsAFile DEF CustodyInv
<1> QED BY <1>2 DEF CustodyInv, Writes, RowsAndFiles

\* The walk is of media.
LEMMA WalkListsTyped == ASSUME CustodyInv, WalkLists PROVE WalkTyped'
<1>1. walk' = [at |-> "walking", left |-> {m \in Media : OnDisk(m)}, medium |-> {}, failed |-> FALSE]
  BY DEF WalkLists, NotWalking
<1> QED BY <1>1 DEF WalkTyped, Walk

\* What an update of the walk is.
LEMMA WalkMoves ==
  ASSUME WalkTyped
  PROVE  /\ \A a : walk' = [walk EXCEPT !.at = a, !.medium = {}] =>
              walk' = [at |-> a, left |-> walk.left, medium |-> {}, failed |-> walk.failed]
         /\ \A m : walk' = [walk EXCEPT !.at = "read", !.medium = {m}, !.left = @ \ {m}] =>
              walk' = [at |-> "read", left |-> walk.left \ {m}, medium |-> {m}, failed |-> walk.failed]
         /\ \A m : walk' = [walk EXCEPT !.left = @ \ {m}, !.failed = TRUE] =>
              walk' = [at |-> walk.at, left |-> walk.left \ {m}, medium |-> walk.medium, failed |-> TRUE]
BY DEF WalkTyped, Walk

LEMMA WalkWritesTyped == ASSUME CustodyInv, WalkWrites PROVE WalkTyped'
<1>1. walk' = [at |-> "walking", left |-> walk.left, medium |-> {}, failed |-> walk.failed]
  BY WalkMoves DEF WalkWrites, CustodyInv
<1> QED BY <1>1 DEF WalkTyped, Walk, CustodyInv

LEMMA WalkBreaksTyped == ASSUME CustodyInv, WalkBreaks PROVE WalkTyped'
<1>1. walk' = [at |-> "broken", left |-> {}, medium |-> {}, failed |-> FALSE]
  BY DEF WalkBreaks, NotWalking
<1> QED BY <1>1 DEF WalkTyped, Walk

\* The walk takes a file in hand, or leaves it behind.
LEMMA WalkReadsMeans ==
  ASSUME CustodyInv, NEW m \in Media, WalkReads(m)
  PROVE  \/ /\ Opens(store[m], settings)
            /\ walk' = [at |-> "read", left |-> walk.left \ {m}, medium |-> {m}, failed |-> walk.failed]
         \/ /\ ~ Opens(store[m], settings)
            /\ walk' = [at |-> "walking", left |-> walk.left \ {m}, medium |-> walk.medium, failed |-> TRUE]
<1>1. CASE Opens(store[m], settings)
  BY <1>1, WalkMoves DEF WalkReads, CustodyInv
<1>2. CASE ~ Opens(store[m], settings)
  BY <1>2, WalkMoves DEF WalkReads, CustodyInv
<1> QED BY <1>1, <1>2

LEMMA WalkReadsKeep ==
  ASSUME CustodyInv, NEW m \in Media, WalkReads(m)
  PROVE  WalkTyped' /\ OneEach' /\ OldIsLeft' /\ DoneIsDone'
<1> DEFINE read == [at |-> "read", left |-> walk.left \ {m}, medium |-> {m}, failed |-> walk.failed]
           skip == [at |-> "walking", left |-> walk.left \ {m}, medium |-> walk.medium, failed |-> TRUE]
<1>1. CASE Opens(store[m], settings) /\ walk' = read
  <2>1. WalkTyped'
    BY <1>1 DEF CustodyInv, WalkTyped, Walk
  <2>2. OneEach'
    <3>1. \A a, b \in walk'.medium : a = b
      BY <1>1
    <3>2. walk'.at = "read" /\ writer' = writer
      BY <1>1 DEF WalkReads
    <3> QED BY <3>1, <3>2 DEF CustodyInv, OneEach
  <2>3. DoneIsDone'
    <3>1. walk'.at = "read"
      BY <1>1
    <3> QED BY <3>1 DEF DoneIsDone
  <2>4. OldIsLeft'
    <3>1. /\ walk.at = "walking" /\ walk.medium = {} /\ UNCHANGED <<store, late, broughtBack>>
          /\ walk'.left = walk.left \ {m} /\ walk'.medium = {m} /\ walk'.failed = walk.failed
      BY <1>1 DEF CustodyInv, OneEach, WalkReads
    <3> QED BY <3>1 DEF CustodyInv, OldIsLeft
  <2> QED BY <2>1, <2>2, <2>3, <2>4
<1>2. CASE ~ Opens(store[m], settings) /\ walk' = skip
  <2>1. WalkTyped'
    BY <1>2 DEF CustodyInv, WalkTyped, Walk
  <2>2. OneEach' /\ DoneIsDone' /\ OldIsLeft'
    BY <1>2 DEF CustodyInv, OneEach, DoneIsDone, OldIsLeft, WalkReads
  <2> QED BY <2>1, <2>2
<1> QED BY <1>1, <1>2, WalkReadsMeans

\* The copy is of media.
LEMMA BackupBeginsTyped == ASSUME CustodyInv, BackupBegins PROVE CopyTyped'
<1>1. copy' = [at |-> "files", rows |-> catalogue, left |-> Media, held |-> [m \in Media |-> Gone],
               listed |-> [m \in Media |-> Gone], excused |-> parted]
  BY DEF BackupBegins, NoCopy
<1>2. parted \subseteq Media
  BY DEF CustodyInv, RowsAndFiles
<1> QED BY <1>1, <1>2 DEF CustodyInv, RowsAndFiles, CopyTyped, Copy, Files

LEMMA BackupCopiesTyped == ASSUME CustodyInv, NEW m \in Media, BackupCopies(m) PROVE CopyTyped'
<1>1. copy' = [copy EXCEPT !.left = copy.left \ {m}, !.held = [copy.held EXCEPT ![m] = store[m]],
                           !.listed = [copy.listed EXCEPT ![m] = store[m]],
                           !.excused = IF Spoilt(m) THEN copy.excused \cup {m} ELSE copy.excused]
  BY DEF BackupCopies
<1>2. store[m] \in Files
  BY DEF CustodyInv, RowsAndFiles
<1>3. /\ [copy.held EXCEPT ![m] = store[m]] \in [Media -> Files]
      /\ [copy.listed EXCEPT ![m] = store[m]] \in [Media -> Files]
  BY <1>2 DEF CustodyInv, CopyTyped, Copy
<1> QED BY <1>1, <1>3 DEF CustodyInv, CopyTyped, Copy

\* A stopped server records nothing.
LEMMA RestoreCopiesRecorded == ASSUME CustodyInv, NEW m \in Media, RestoreCopies(m) PROVE RecordedAreThere'
<1>1. \A w \in Writers : writer[w] = Free
  BY DEF CustodyInv, RestoreCopies, RestoredAlone, Stopped
<1> QED BY <1>1 DEF RestoreCopies, RecordedAreThere, Free

\* What rots is a file still.
LEMMA RotsTyped == ASSUME CustodyInv, NEW m \in Media, Rots(m) PROVE CopyTyped'
<1>1. CASE copy' = copy
  BY <1>1 DEF CustodyInv, CopyTyped
<1>2. CASE copy.held[m].state = "whole" /\ copy' = [copy EXCEPT !.held[m].state = "rotten"]
  <2> DEFINE rotten1 == [copy.held[m] EXCEPT !.state = "rotten"]
  <2>1. copy.held \in [Media -> Files] /\ copy.held[m] \in [key : {Old, New}, state : {"whole", "torn", "rotten"}]
    BY <1>2 DEF CustodyInv, CopyTyped, Copy, Files, Gone
  <2>2. rotten1 \in Files
    BY <2>1 DEF Files
  <2>3. copy' = [copy EXCEPT !.held = [copy.held EXCEPT ![m] = rotten1]]
    BY <1>2
  <2>4. [copy.held EXCEPT ![m] = rotten1] \in [Media -> Files]
    BY <2>1, <2>2
  <2> QED BY <2>3, <2>4 DEF CustodyInv, CopyTyped, Copy
<1> QED BY <1>1, <1>2 DEF Rots

\* Looking changes nothing but where the request is.
LEMMA PutLooksKeepsCustody ==
  ASSUME CustodyInv, NEW w \in Writers, NEW m \in Media, PutLooks(w, m)
  PROVE  CustodyInv'
<1> USE DEF CustodyInv, PutLooks, Serving, Free, OneMoreWrite, AfterLook, OnDisk, Gone
<1>1. RowsAndFiles' /\ KeysTyped' /\ WritersTyped' /\ WalkTyped' /\ CopyTyped' /\ OthersTyped'
  BY DEF RowsAndFiles, Files, KeysTyped, WritersTyped, Writer, WalkTyped, Walk, CopyTyped, Copy,
         OthersTyped, Restoring
<1>2. OneEach' /\ Stopped' /\ RestoredAlone' /\ TornIsKnown' /\ RottenIsKnown' /\ RowsHaveFiles'
      /\ FilesComeBack'
  BY DEF OneEach, Stopped, RestoredAlone, TornIsKnown, Writing, RottenIsKnown, RowsHaveFiles,
         FilesComeBack
<1>3. RecordedAreThere' /\ OldBefore' /\ OldIsLeft' /\ RetiredIsDone' /\ DoneIsDone'
      /\ CopiesWhole' /\ CopiedAll'
  BY DEF RecordedAreThere, OldBefore, NotWalking, OldIsLeft, RetiredIsDone, DoneIsDone,
         CopiesWhole, CopiedAll
<1>4. ComesBack'
  BY DEF ComesBack
<1> QED BY <1>1, <1>2, <1>3, <1>4 DEF CustodyInv

\* A repair takes a medium with a row.
LEMMA RepairBeginsKeepsCustody ==
  ASSUME CustodyInv, NEW w \in Writers, NEW m \in Media, RepairBegins(w, m)
  PROVE  CustodyInv'
<1> USE DEF CustodyInv, RepairBegins, Serving, Free, OneMoreWrite, OnDisk, Gone
<1>1. RowsAndFiles' /\ KeysTyped' /\ WritersTyped' /\ WalkTyped' /\ CopyTyped' /\ OthersTyped'
  BY DEF RowsAndFiles, Files, KeysTyped, WritersTyped, Writer, WalkTyped, Walk, CopyTyped, Copy,
         OthersTyped, Restoring
<1>2. OneEach' /\ Stopped' /\ RestoredAlone' /\ TornIsKnown' /\ RottenIsKnown' /\ RowsHaveFiles'
      /\ FilesComeBack'
  BY DEF OneEach, Stopped, RestoredAlone, TornIsKnown, Writing, RottenIsKnown, RowsHaveFiles,
         FilesComeBack
<1>3. RecordedAreThere' /\ OldBefore' /\ OldIsLeft' /\ RetiredIsDone' /\ DoneIsDone'
      /\ CopiesWhole' /\ CopiedAll'
  BY DEF RecordedAreThere, OldBefore, NotWalking, OldIsLeft, RetiredIsDone, DoneIsDone,
         CopiesWhole, CopiedAll
<1>4. ComesBack'
  BY DEF ComesBack
<1> QED BY <1>1, <1>2, <1>3, <1>4 DEF CustodyInv

\* A file that is written is torn, and its writer is known.
LEMMA TruncatesKeepsCustody ==
  ASSUME CustodyInv, NEW w \in Writers, Truncates(w)
  PROVE  CustodyInv'
<1>1. RowsAndFiles'
  BY TruncatesFiles
<1> USE DEF CustodyInv, Truncates, File
<1>2. KeysTyped' /\ WritersTyped' /\ WalkTyped' /\ CopyTyped' /\ OthersTyped'
  BY DEF KeysTyped, WritersTyped, Writer, WalkTyped, Walk, CopyTyped, Copy, Files, Gone,
         OthersTyped, Restoring
<1>3. OneEach' /\ Stopped' /\ RestoredAlone' /\ RottenIsKnown' /\ RowsHaveFiles' /\ FilesComeBack'
      /\ OldIsLeft'
  BY DEF OneEach, Stopped, Free, RestoredAlone, Gone, RottenIsKnown, RowsHaveFiles, OnDisk,
         FilesComeBack, OldIsLeft
<1>4. RetiredIsDone' /\ DoneIsDone' /\ CopiesWhole' /\ CopiedAll'
  BY DEF RetiredIsDone, DoneIsDone, CopiesWhole, OnDisk, Gone, CopiedAll
<1>5. TornIsKnown'
  BY DEF TornIsKnown, Writing, WritersTyped, Writer
<1>6. RecordedAreThere'
  BY DEF RecordedAreThere, OnDisk, Gone, RowsAndFiles, WritersTyped, OneEach, Files, Writer
<1>7. OldBefore'
  BY DEF OldBefore, NotWalking, Stopped, Free
<1>8. ComesBack'
  BY DEF ComesBack, Gone, RestoredAlone, Stopped, Free
<1> QED BY <1>1, <1>2, <1>3, <1>4, <1>5, <1>6, <1>7, <1>8 DEF CustodyInv

\* What was torn is whole, and under the server's key.
LEMMA WritesKeepsCustody ==
  ASSUME CustodyInv, NEW w \in Writers, Writes(w)
  PROVE  CustodyInv'
<1>1. RowsAndFiles'
  BY WritesFiles
<1> USE DEF CustodyInv, Writes, OnDisk, File, Listed, AfterWrite, Gone, Free
<1>2. KeysTyped' /\ WritersTyped' /\ WalkTyped' /\ CopyTyped' /\ OthersTyped'
  BY DEF KeysTyped, WritersTyped, Writer, WalkTyped, Walk, CopyTyped, Copy, Files, OthersTyped,
         Restoring
<1>3. OneEach' /\ Stopped' /\ RestoredAlone' /\ RowsHaveFiles' /\ FilesComeBack'
      /\ RecordedAreThere' /\ RetiredIsDone'
  BY DEF OneEach, Stopped, RestoredAlone, RowsHaveFiles, FilesComeBack, RecordedAreThere,
         RetiredIsDone
<1>4. DoneIsDone' /\ CopiesWhole' /\ CopiedAll'
  BY DEF DoneIsDone, CopiesWhole, CopiedAll
<1>5. TornIsKnown'
  BY DEF TornIsKnown, Writing, RowsAndFiles, OneEach, Files
<1>6. RottenIsKnown'
  BY DEF RottenIsKnown, RowsAndFiles, Files
<1>7. OldBefore'
  BY DEF OldBefore, NotWalking, Stopped
<1>8. OldIsLeft'
  BY DEF OldIsLeft, RowsAndFiles, Files
<1>9. ComesBack'
  BY DEF ComesBack, RestoredAlone, Stopped
<1> QED BY <1>1, <1>2, <1>3, <1>4, <1>5, <1>6, <1>7, <1>8, <1>9 DEF CustodyInv

\* The row comes last, with its file there.
LEMMA RecordsKeepsCustody ==
  ASSUME CustodyInv, NEW w \in Writers, Records(w)
  PROVE  CustodyInv'
<1> USE DEF CustodyInv, Records, Free
<1>1. KeysTyped' /\ WritersTyped' /\ WalkTyped' /\ CopyTyped' /\ OthersTyped'
  BY DEF KeysTyped, WritersTyped, Writer, WalkTyped, Walk, CopyTyped, Copy, Files, Gone,
         OthersTyped, Restoring
<1>2. OneEach' /\ Stopped' /\ TornIsKnown' /\ RottenIsKnown' /\ RecordedAreThere' /\ OldBefore'
      /\ OldIsLeft'
  BY DEF OneEach, Stopped, TornIsKnown, Writing, RottenIsKnown, RecordedAreThere, OnDisk, Gone,
         OldBefore, NotWalking, OldIsLeft
<1>3. RetiredIsDone' /\ DoneIsDone' /\ CopiesWhole' /\ CopiedAll' /\ ComesBack'
  BY DEF RetiredIsDone, DoneIsDone, CopiesWhole, OnDisk, Gone, CopiedAll, ComesBack
<1>4. RowsAndFiles'
  BY DEF RowsAndFiles, Files, Gone, WritersTyped, Writer
<1>5. RestoredAlone'
  BY DEF RestoredAlone, Gone, Stopped
<1>6. RowsHaveFiles'
  BY DEF RowsHaveFiles, OnDisk, Gone, RecordedAreThere
<1>7. FilesComeBack'
  BY DEF FilesComeBack, Gone, OnDisk, RecordedAreThere
<1> QED BY <1>1, <1>2, <1>3, <1>4, <1>5, <1>6, <1>7 DEF CustodyInv

\* A writer that fails leaves a cut file.
LEMMA WriteFailsKeepsCustody ==
  ASSUME CustodyInv, NEW w \in Writers, WriteFails(w)
  PROVE  CustodyInv'
<1> USE DEF CustodyInv, WriteFails, Mishap, Free
<1>1. RowsAndFiles' /\ KeysTyped' /\ WritersTyped' /\ WalkTyped' /\ CopyTyped' /\ OthersTyped'
  BY DEF RowsAndFiles, Files, Gone, KeysTyped, WritersTyped, Writer, WalkTyped, Walk, CopyTyped,
         Copy, OthersTyped, Restoring
<1>2. OneEach' /\ Stopped' /\ RestoredAlone' /\ TornIsKnown' /\ RottenIsKnown' /\ RowsHaveFiles'
      /\ FilesComeBack'
  BY DEF OneEach, Stopped, RestoredAlone, Gone, TornIsKnown, Writing, RottenIsKnown, RowsHaveFiles,
         OnDisk, FilesComeBack
<1>3. RecordedAreThere' /\ OldBefore' /\ OldIsLeft' /\ RetiredIsDone' /\ DoneIsDone'
      /\ CopiesWhole' /\ CopiedAll'
  BY DEF RecordedAreThere, OnDisk, Gone, OldBefore, NotWalking, OldIsLeft, RetiredIsDone,
         DoneIsDone, CopiesWhole, CopiedAll
<1>4. ComesBack'
  BY DEF ComesBack, Gone
<1> QED BY <1>1, <1>2, <1>3, <1>4 DEF CustodyInv

\* Whatever has a row, or is about to get one, is parted from its file.
LEMMA EraseFilesKeepsCustody ==
  ASSUME CustodyInv, EraseFiles
  PROVE  CustodyInv'
<1> USE DEF CustodyInv, EraseFiles, Serving, Gone, InFlight
<1>1. KeysTyped' /\ WritersTyped' /\ WalkTyped' /\ CopyTyped' /\ OthersTyped'
  BY DEF KeysTyped, WritersTyped, Writer, WalkTyped, Walk, CopyTyped, Copy, Files, OthersTyped,
         Restoring
<1>2. OneEach' /\ Stopped' /\ RestoredAlone' /\ TornIsKnown' /\ RottenIsKnown' /\ RowsHaveFiles'
      /\ FilesComeBack'
  BY DEF OneEach, Stopped, Free, RestoredAlone, TornIsKnown, Writing, RottenIsKnown, RowsHaveFiles,
         OnDisk, FilesComeBack
<1>3. RecordedAreThere' /\ OldBefore' /\ OldIsLeft' /\ RetiredIsDone' /\ DoneIsDone'
      /\ CopiesWhole' /\ CopiedAll'
  BY DEF RecordedAreThere, OnDisk, OldBefore, NotWalking, OldIsLeft, RetiredIsDone, DoneIsDone,
         CopiesWhole, CopiedAll
<1>4. RowsAndFiles'
  BY DEF RowsAndFiles, Files, WritersTyped, Writer
<1>5. ComesBack'
  BY DEF ComesBack, RestoredAlone
<1> QED BY <1>1, <1>2, <1>3, <1>4, <1>5 DEF CustodyInv

\* Only what is on its way can be without its file now.
LEMMA EraseRowsKeepsCustody ==
  ASSUME CustodyInv, EraseRows
  PROVE  CustodyInv'
<1> USE DEF CustodyInv, EraseRows, InFlight
<1>1. KeysTyped' /\ WritersTyped' /\ WalkTyped' /\ CopyTyped' /\ OthersTyped'
  BY DEF KeysTyped, WritersTyped, Writer, WalkTyped, Walk, CopyTyped, Copy, Files, Gone,
         OthersTyped, Restoring
<1>2. OneEach' /\ Stopped' /\ TornIsKnown' /\ RottenIsKnown' /\ RowsHaveFiles' /\ FilesComeBack'
      /\ RecordedAreThere'
  BY DEF OneEach, Stopped, Free, TornIsKnown, Writing, RottenIsKnown, RowsHaveFiles, OnDisk, Gone,
         FilesComeBack, RecordedAreThere
<1>3. OldBefore' /\ OldIsLeft' /\ RetiredIsDone' /\ DoneIsDone' /\ CopiesWhole' /\ CopiedAll'
      /\ ComesBack'
  BY DEF OldBefore, NotWalking, OldIsLeft, RetiredIsDone, DoneIsDone, CopiesWhole, OnDisk, Gone,
         CopiedAll, ComesBack
<1>4. RowsAndFiles'
  BY DEF RowsAndFiles, Files, Gone, WritersTyped, Writer
<1>5. RestoredAlone'
  BY DEF RestoredAlone, Gone, Stopped, Free
<1> QED BY <1>1, <1>2, <1>3, <1>4, <1>5 DEF CustodyInv

\* Nobody is at work.
LEMMA StopKeepsCustody ==
  ASSUME CustodyInv, Stop
  PROVE  CustodyInv'
<1> USE DEF CustodyInv, Stop, Serving, Free, StoppedWith, Writing
<1>1. RowsAndFiles' /\ KeysTyped' /\ WritersTyped' /\ WalkTyped' /\ CopyTyped' /\ OthersTyped'
  BY DEF RowsAndFiles, Files, Gone, KeysTyped, WritersTyped, Writer, WalkTyped, Walk, CopyTyped,
         Copy, OthersTyped, Restoring
<1>2. OneEach' /\ Stopped' /\ RestoredAlone' /\ TornIsKnown' /\ RottenIsKnown' /\ RowsHaveFiles'
      /\ FilesComeBack'
  BY DEF OneEach, Stopped, RestoredAlone, Gone, TornIsKnown, RottenIsKnown, RowsHaveFiles, OnDisk,
         FilesComeBack
<1>3. RecordedAreThere' /\ OldBefore' /\ OldIsLeft' /\ RetiredIsDone' /\ DoneIsDone'
      /\ CopiesWhole' /\ CopiedAll'
  BY DEF RecordedAreThere, OnDisk, Gone, OldBefore, NotWalking, OldIsLeft, RetiredIsDone,
         DoneIsDone, CopiesWhole, CopiedAll
<1>4. ComesBack'
  BY DEF ComesBack, Gone
<1> QED BY <1>1, <1>2, <1>3, <1>4 DEF CustodyInv

\* Who was writing leaves a cut file.
LEMMA KilledKeepsCustody ==
  ASSUME CustodyInv, Killed
  PROVE  CustodyInv'
<1> USE DEF CustodyInv, Killed, Serving, Mishap, StoppedWith, Free, Writing
<1>1. RowsAndFiles' /\ KeysTyped' /\ WritersTyped' /\ WalkTyped' /\ CopyTyped' /\ OthersTyped'
  BY DEF RowsAndFiles, Files, Gone, KeysTyped, WritersTyped, Writer, WalkTyped, Walk, CopyTyped,
         Copy, OthersTyped, Restoring
<1>2. OneEach' /\ Stopped' /\ RestoredAlone' /\ TornIsKnown' /\ RottenIsKnown' /\ RowsHaveFiles'
      /\ FilesComeBack'
  BY DEF OneEach, Stopped, RestoredAlone, Gone, TornIsKnown, RottenIsKnown, RowsHaveFiles, OnDisk,
         FilesComeBack
<1>3. RecordedAreThere' /\ OldBefore' /\ OldIsLeft' /\ RetiredIsDone' /\ DoneIsDone'
      /\ CopiesWhole' /\ CopiedAll'
  BY DEF RecordedAreThere, OnDisk, Gone, OldBefore, NotWalking, OldIsLeft, RetiredIsDone,
         DoneIsDone, CopiesWhole, CopiedAll
<1>4. ComesBack'
  BY DEF ComesBack, Gone
<1> QED BY <1>1, <1>2, <1>3, <1>4 DEF CustodyInv

\* Nothing is being restored.
LEMMA StartKeepsCustody ==
  ASSUME CustodyInv, Start
  PROVE  CustodyInv'
<1> USE DEF CustodyInv, Start, Serving
<1>1. RowsAndFiles' /\ KeysTyped' /\ WritersTyped' /\ WalkTyped' /\ CopyTyped' /\ OthersTyped'
  BY DEF RowsAndFiles, Files, Gone, KeysTyped, WritersTyped, Writer, WalkTyped, Walk, CopyTyped,
         Copy, OthersTyped, Restoring
<1>2. OneEach' /\ Stopped' /\ RestoredAlone' /\ TornIsKnown' /\ RottenIsKnown' /\ RowsHaveFiles'
      /\ FilesComeBack'
  BY DEF OneEach, Stopped, Free, RestoredAlone, Gone, TornIsKnown, Writing, RottenIsKnown,
         RowsHaveFiles, OnDisk, FilesComeBack
<1>3. RecordedAreThere' /\ OldBefore' /\ OldIsLeft' /\ RetiredIsDone' /\ DoneIsDone'
      /\ CopiesWhole' /\ CopiedAll'
  BY DEF RecordedAreThere, OnDisk, Gone, OldBefore, NotWalking, OldIsLeft, RetiredIsDone,
         DoneIsDone, CopiesWhole, CopiedAll
<1>4. ComesBack'
  BY DEF ComesBack, Gone
<1> QED BY <1>1, <1>2, <1>3, <1>4 DEF CustodyInv

\* The ring of the running server is of the old key.
LEMMA PromoteKeepsCustody ==
  ASSUME CustodyInv, Promote
  PROVE  CustodyInv'
<1> USE DEF CustodyInv, Promote
<1>1. RowsAndFiles' /\ KeysTyped' /\ WritersTyped' /\ WalkTyped' /\ CopyTyped' /\ OthersTyped'
  BY DEF RowsAndFiles, Files, Gone, KeysTyped, WritersTyped, Writer, WalkTyped, Walk, CopyTyped,
         Copy, OthersTyped, Restoring
<1>2. OneEach' /\ Stopped' /\ RestoredAlone' /\ TornIsKnown' /\ RottenIsKnown' /\ RowsHaveFiles'
      /\ FilesComeBack'
  BY DEF OneEach, Stopped, Free, RestoredAlone, Gone, TornIsKnown, Writing, RottenIsKnown,
         RowsHaveFiles, OnDisk, FilesComeBack
<1>3. RecordedAreThere' /\ OldBefore' /\ OldIsLeft' /\ RetiredIsDone' /\ DoneIsDone'
      /\ CopiesWhole' /\ CopiedAll'
  BY DEF RecordedAreThere, OnDisk, Gone, OldBefore, NotWalking, OldIsLeft, RetiredIsDone,
         DoneIsDone, CopiesWhole, CopiedAll
<1>4. ComesBack'
  BY DEF ComesBack, Gone
<1> QED BY <1>1, <1>2, <1>3, <1>4 DEF CustodyInv

\* Whatever is on disk is left to do.
LEMMA WalkListsKeepsCustody ==
  ASSUME CustodyInv, WalkLists
  PROVE  CustodyInv'
<1>1. WalkTyped'
  BY WalkListsTyped
<1> USE DEF CustodyInv, WalkLists, NotWalking, OnDisk, Gone
<1>2. RowsAndFiles' /\ KeysTyped' /\ WritersTyped' /\ CopyTyped' /\ OthersTyped'
  BY DEF RowsAndFiles, Files, KeysTyped, WritersTyped, Writer, CopyTyped, Copy, OthersTyped,
         Restoring
<1>3. OneEach' /\ Stopped' /\ RestoredAlone' /\ TornIsKnown' /\ RottenIsKnown' /\ RowsHaveFiles'
      /\ FilesComeBack'
  BY DEF OneEach, Stopped, Free, RestoredAlone, TornIsKnown, Writing, RottenIsKnown, RowsHaveFiles,
         FilesComeBack
<1>4. RecordedAreThere' /\ OldBefore' /\ OldIsLeft' /\ RetiredIsDone' /\ DoneIsDone'
      /\ CopiesWhole' /\ CopiedAll'
  BY DEF RecordedAreThere, OldBefore, OldIsLeft, RetiredIsDone, DoneIsDone, CopiesWhole, CopiedAll
<1>5. ComesBack'
  BY DEF ComesBack
<1> QED BY <1>1, <1>2, <1>3, <1>4, <1>5 DEF CustodyInv

\* The file in hand is torn.
LEMMA WalkTruncatesKeepsCustody ==
  ASSUME CustodyInv, WalkTruncates
  PROVE  CustodyInv'
<1> USE DEF CustodyInv, WalkTruncates, OnDisk, File, Gone
<1>1. KeysTyped' /\ WritersTyped' /\ WalkTyped' /\ CopyTyped' /\ OthersTyped'
  BY DEF KeysTyped, WritersTyped, Writer, WalkTyped, Walk, CopyTyped, Copy, Files, OthersTyped,
         Restoring
<1>2. OneEach' /\ Stopped' /\ RestoredAlone' /\ TornIsKnown' /\ RottenIsKnown' /\ RowsHaveFiles'
      /\ FilesComeBack'
  BY DEF OneEach, Stopped, Free, RestoredAlone, TornIsKnown, Writing, RottenIsKnown, RowsHaveFiles,
         FilesComeBack
<1>3. RecordedAreThere' /\ OldBefore' /\ OldIsLeft' /\ RetiredIsDone' /\ DoneIsDone'
      /\ CopiesWhole' /\ CopiedAll'
  BY DEF RecordedAreThere, OldBefore, NotWalking, OldIsLeft, RetiredIsDone, DoneIsDone,
         CopiesWhole, CopiedAll
<1>4. RowsAndFiles'
  BY DEF RowsAndFiles, Files, WalkTyped, Walk
<1>5. ComesBack'
  BY DEF ComesBack, RestoredAlone
<1> QED BY <1>1, <1>2, <1>3, <1>4, <1>5 DEF CustodyInv

\* The file in hand has the new key.
LEMMA WalkWritesKeepsCustody ==
  ASSUME CustodyInv, WalkWrites
  PROVE  CustodyInv'
<1>1. WalkTyped'
  BY WalkWritesTyped
<1> USE DEF CustodyInv, WalkWrites, OnDisk, File, Gone
<1>2. KeysTyped' /\ WritersTyped' /\ CopyTyped' /\ OthersTyped'
  BY DEF KeysTyped, WritersTyped, Writer, CopyTyped, Copy, Files, OthersTyped, Restoring
<1>3. OneEach' /\ Stopped' /\ RestoredAlone' /\ RowsHaveFiles' /\ FilesComeBack'
      /\ RecordedAreThere' /\ OldBefore'
  BY DEF OneEach, Stopped, Free, RestoredAlone, RowsHaveFiles, FilesComeBack, RecordedAreThere,
         OldBefore, NotWalking
<1>4. RetiredIsDone' /\ DoneIsDone' /\ CopiesWhole' /\ CopiedAll'
  BY DEF RetiredIsDone, DoneIsDone, CopiesWhole, CopiedAll
<1>5. RowsAndFiles'
  BY DEF RowsAndFiles, Files, WalkTyped, Walk
<1>6. TornIsKnown'
  BY DEF TornIsKnown, Writing, RowsAndFiles, OneEach, Files
<1>7. RottenIsKnown'
  BY DEF RottenIsKnown, RowsAndFiles, Files
<1>8. OldIsLeft'
  BY CustodyAssumption DEF OldIsLeft, RowsAndFiles, OneEach, Files, CustodyAssumption
<1>9. ComesBack'
  BY DEF ComesBack, RestoredAlone
<1> QED BY <1>1, <1>2, <1>3, <1>4, <1>5, <1>6, <1>7, <1>8, <1>9 DEF CustodyInv

\* Nothing is left.
LEMMA WalkEndsKeepsCustody ==
  ASSUME CustodyInv, WalkEnds
  PROVE  CustodyInv'
<1> USE DEF CustodyInv, WalkEnds
<1>1. RowsAndFiles' /\ KeysTyped' /\ WritersTyped' /\ WalkTyped' /\ CopyTyped' /\ OthersTyped'
  BY DEF RowsAndFiles, Files, Gone, KeysTyped, WritersTyped, Writer, WalkTyped, Walk, CopyTyped,
         Copy, OthersTyped, Restoring
<1>2. OneEach' /\ Stopped' /\ RestoredAlone' /\ TornIsKnown' /\ RottenIsKnown' /\ RowsHaveFiles'
      /\ FilesComeBack'
  BY DEF OneEach, Stopped, Free, RestoredAlone, Gone, TornIsKnown, Writing, RottenIsKnown,
         RowsHaveFiles, OnDisk, FilesComeBack
<1>3. RecordedAreThere' /\ OldBefore' /\ OldIsLeft' /\ RetiredIsDone' /\ DoneIsDone'
      /\ CopiesWhole' /\ CopiedAll'
  BY DEF RecordedAreThere, OnDisk, Gone, OldBefore, NotWalking, OldIsLeft, RetiredIsDone,
         DoneIsDone, CopiesWhole, CopiedAll
<1>4. ComesBack'
  BY DEF ComesBack, Gone
<1> QED BY <1>1, <1>2, <1>3, <1>4 DEF CustodyInv

\* A walk that broke promises nothing.
LEMMA WalkBreaksKeepsCustody ==
  ASSUME CustodyInv, WalkBreaks
  PROVE  CustodyInv'
<1>1. WalkTyped'
  BY WalkBreaksTyped
<1> USE DEF CustodyInv, WalkBreaks, OnDisk, Mishap, NotWalking, Gone
<1>2. RowsAndFiles' /\ KeysTyped' /\ WritersTyped' /\ CopyTyped' /\ OthersTyped'
  BY DEF RowsAndFiles, Files, KeysTyped, WritersTyped, Writer, CopyTyped, Copy, OthersTyped,
         Restoring
<1>3. OneEach' /\ Stopped' /\ RestoredAlone' /\ TornIsKnown' /\ RottenIsKnown' /\ RowsHaveFiles'
      /\ FilesComeBack'
  BY DEF OneEach, Stopped, Free, RestoredAlone, TornIsKnown, Writing, RottenIsKnown, RowsHaveFiles,
         FilesComeBack
<1>4. RecordedAreThere' /\ OldBefore' /\ OldIsLeft' /\ RetiredIsDone' /\ DoneIsDone'
      /\ CopiesWhole' /\ CopiedAll'
  BY DEF RecordedAreThere, OldBefore, OldIsLeft, RetiredIsDone, DoneIsDone, CopiesWhole, CopiedAll
<1>5. ComesBack'
  BY DEF ComesBack
<1> QED BY <1>1, <1>2, <1>3, <1>4, <1>5 DEF CustodyInv

\* Every file with the old key is known of.
LEMMA RetireKeepsCustody ==
  ASSUME CustodyInv, Retire
  PROVE  CustodyInv'
<1> USE DEF CustodyInv, Retire, Retirable
<1>1. RowsAndFiles' /\ KeysTyped' /\ WritersTyped' /\ WalkTyped' /\ CopyTyped' /\ OthersTyped'
  BY DEF RowsAndFiles, Files, Gone, KeysTyped, WritersTyped, Writer, WalkTyped, Walk, CopyTyped,
         Copy, OthersTyped, Restoring
<1>2. OneEach' /\ Stopped' /\ RestoredAlone' /\ TornIsKnown' /\ RottenIsKnown' /\ RowsHaveFiles'
      /\ FilesComeBack'
  BY DEF OneEach, Stopped, Free, RestoredAlone, Gone, TornIsKnown, Writing, RottenIsKnown,
         RowsHaveFiles, OnDisk, FilesComeBack
<1>3. RecordedAreThere' /\ OldIsLeft' /\ RetiredIsDone' /\ DoneIsDone' /\ CopiesWhole'
      /\ CopiedAll' /\ ComesBack'
  BY DEF RecordedAreThere, OnDisk, Gone, OldIsLeft, RetiredIsDone, DoneIsDone, CopiesWhole,
         CopiedAll, ComesBack
<1>4. OldBefore'
  BY CustodyAssumption DEF OldBefore, NotWalking, CustodyAssumption
<1> QED BY <1>1, <1>2, <1>3, <1>4 DEF CustodyInv

\* The walk starts over.
LEMMA WalkAgainKeepsCustody ==
  ASSUME CustodyInv, WalkAgain
  PROVE  CustodyInv'
<1> USE DEF CustodyInv, WalkAgain, NotWalking
<1>1. RowsAndFiles' /\ KeysTyped' /\ WritersTyped' /\ WalkTyped' /\ CopyTyped' /\ OthersTyped'
  BY DEF RowsAndFiles, Files, Gone, KeysTyped, WritersTyped, Writer, WalkTyped, Walk, CopyTyped,
         Copy, OthersTyped, Restoring
<1>2. OneEach' /\ Stopped' /\ RestoredAlone' /\ TornIsKnown' /\ RottenIsKnown' /\ RowsHaveFiles'
      /\ FilesComeBack'
  BY DEF OneEach, Stopped, Free, RestoredAlone, Gone, TornIsKnown, Writing, RottenIsKnown,
         RowsHaveFiles, OnDisk, FilesComeBack
<1>3. RecordedAreThere' /\ OldBefore' /\ OldIsLeft' /\ RetiredIsDone' /\ DoneIsDone'
      /\ CopiesWhole' /\ CopiedAll'
  BY DEF RecordedAreThere, OnDisk, Gone, OldBefore, OldIsLeft, RetiredIsDone, DoneIsDone,
         CopiesWhole, CopiedAll
<1>4. ComesBack'
  BY DEF ComesBack, Gone
<1> QED BY <1>1, <1>2, <1>3, <1>4 DEF CustodyInv

\* Every row that is not parted has its file.
LEMMA BackupBeginsKeepsCustody ==
  ASSUME CustodyInv, BackupBegins
  PROVE  CustodyInv'
<1>1. CopyTyped'
  BY BackupBeginsTyped
<1> USE DEF CustodyInv, BackupBegins, NoCopy, Gone
<1>2. RowsAndFiles' /\ KeysTyped' /\ WritersTyped' /\ WalkTyped' /\ OthersTyped'
  BY DEF RowsAndFiles, Files, KeysTyped, WritersTyped, Writer, WalkTyped, Walk, OthersTyped,
         Restoring
<1>3. OneEach' /\ Stopped' /\ RestoredAlone' /\ TornIsKnown' /\ RottenIsKnown' /\ RowsHaveFiles'
      /\ FilesComeBack'
  BY DEF OneEach, Stopped, Free, RestoredAlone, TornIsKnown, Writing, RottenIsKnown, RowsHaveFiles,
         OnDisk, FilesComeBack
<1>4. RecordedAreThere' /\ OldBefore' /\ OldIsLeft' /\ RetiredIsDone' /\ DoneIsDone' /\ ComesBack'
  BY DEF RecordedAreThere, OnDisk, OldBefore, NotWalking, OldIsLeft, RetiredIsDone, DoneIsDone,
         ComesBack
<1>5. CopiesWhole'
  BY DEF CopiesWhole, OnDisk, RowsAndFiles, RowsHaveFiles, RestoredAlone, Files
<1>6. CopiedAll'
  BY DEF CopiedAll, OthersTyped, RestoredAlone, Restoring
<1> QED BY <1>1, <1>2, <1>3, <1>4, <1>5, <1>6 DEF CustodyInv

\* Every file was copied.
LEMMA BackupEndsKeepsCustody ==
  ASSUME CustodyInv, BackupEnds
  PROVE  CustodyInv'
<1> USE DEF CustodyInv, BackupEnds
<1>1. RowsAndFiles' /\ KeysTyped' /\ WritersTyped' /\ WalkTyped' /\ CopyTyped' /\ OthersTyped'
  <2>1. RowsAndFiles' /\ KeysTyped' /\ WritersTyped' /\ WalkTyped' /\ OthersTyped'
    BY DEF RowsAndFiles, KeysTyped, WritersTyped, WalkTyped, OthersTyped
  <2>2. CopyTyped'
    BY DEF CopyTyped, Copy
  <2> QED BY <2>1, <2>2
<1>2. OneEach' /\ Stopped' /\ RestoredAlone' /\ TornIsKnown' /\ RottenIsKnown' /\ RowsHaveFiles'
      /\ FilesComeBack'
  BY DEF OneEach, Stopped, Free, RestoredAlone, Gone, TornIsKnown, Writing, RottenIsKnown,
         RowsHaveFiles, OnDisk, FilesComeBack
<1>3. RecordedAreThere' /\ OldBefore' /\ OldIsLeft' /\ RetiredIsDone' /\ DoneIsDone'
      /\ CopiesWhole' /\ CopiedAll'
  BY DEF RecordedAreThere, OnDisk, Gone, OldBefore, NotWalking, OldIsLeft, RetiredIsDone,
         DoneIsDone, CopiesWhole, CopiedAll
<1>4. ComesBack'
  BY DEF ComesBack, Gone
<1> QED BY <1>1, <1>2, <1>3, <1>4 DEF CustodyInv

\* The rows are those of the copy, or of it and of the log that was replayed over it.
LEMMA RestoreBeginsKeepsCustody ==
  ASSUME CustodyInv, RestoreBegins
  PROVE  CustodyInv'
<1> USE DEF CustodyInv, RestoreBegins, Serving, Verified, Gone
<1>1. KeysTyped' /\ WritersTyped' /\ WalkTyped' /\ CopyTyped' /\ OneEach' /\ Stopped'
  BY DEF KeysTyped, WritersTyped, Writer, WalkTyped, Walk, CopyTyped, Copy, Files, OneEach, Stopped, Free
<1>2. catalogue' \subseteq catalogue \cup copy.rows /\ copy.rows \subseteq Media
  BY DEF CopyTyped, Copy
<1>3. RowsAndFiles'
  BY <1>2 DEF RowsAndFiles
<1>4. TornIsKnown' /\ RottenIsKnown' /\ RecordedAreThere' /\ OldBefore' /\ OldIsLeft' /\ RetiredIsDone'
      /\ DoneIsDone' /\ CopiesWhole'
  BY DEF TornIsKnown, Writing, RottenIsKnown, OnDisk, RecordedAreThere, OldBefore, NotWalking, OldIsLeft,
         RetiredIsDone, DoneIsDone, CopiesWhole
<1>5. CASE UNCHANGED restoring /\ parted' = parted \cup copy.rows
  <2>1. OthersTyped' /\ RestoredAlone' /\ CopiedAll' /\ ComesBack' /\ FilesComeBack'
    BY <1>5 DEF OthersTyped, RestoredAlone, CopiedAll, ComesBack, FilesComeBack
  <2>2. RowsHaveFiles'
    BY <1>2, <1>5 DEF RowsHaveFiles, OnDisk
  <2> QED BY <1>1, <1>3, <1>4, <2>1, <2>2 DEF CustodyInv
<1>6. CASE /\ restoring' = [at |-> "files", left |-> {m \in Media : copy.held[m] # Gone}, replayed |-> wal]
           /\ UNCHANGED parted
  <2>1. RestoredAlone' /\ CopiedAll' /\ ComesBack' /\ RowsHaveFiles'
    BY <1>6 DEF RestoredAlone, CopiedAll, ComesBack, RowsHaveFiles
  <2>2. FilesComeBack'
    <3>1. ASSUME NEW m \in copy.rows PROVE m \in restoring'.left \/ copy.held[m] = Gone
      BY <1>2, <1>6
    <3>2. ASSUME NEW m \in catalogue PROVE OnDisk(m) \/ m \in parted
      BY DEF RowsHaveFiles
    <3>3. UNCHANGED <<store, copy, parted>>
      BY <1>6
    <3>4. ASSUME NEW m \in catalogue'
          PROVE  \/ store'[m] # Gone \/ m \in parted'
                 \/ m \in copy'.rows /\ (m \in restoring'.left \/ copy'.held[m] = Gone)
      <4>1. CASE m \in catalogue
        BY <4>1, <3>2, <3>3 DEF OnDisk
      <4>2. CASE m \in copy.rows
        BY <4>2, <3>1, <3>3
      <4> QED BY <1>2, <4>1, <4>2
    <3> QED BY <3>4 DEF FilesComeBack, OnDisk
  <2>3. OthersTyped'
    BY <1>6 DEF OthersTyped, Restoring
  <2> QED BY <1>1, <1>3, <1>4, <2>1, <2>2, <2>3 DEF CustodyInv
<1> QED BY <1>5, <1>6

\* Every file is again what was copied.
LEMMA RestoreEndsKeepsCustody ==
  ASSUME CustodyInv, RestoreEnds
  PROVE  CustodyInv'
<1> USE DEF CustodyInv, RestoreEnds, Gone
<1>1. KeysTyped' /\ WritersTyped' /\ WalkTyped' /\ CopyTyped' /\ OthersTyped'
  BY DEF KeysTyped, WritersTyped, Writer, WalkTyped, Walk, CopyTyped, Copy, Files, OthersTyped,
         Restoring
<1>2. OneEach' /\ Stopped' /\ RestoredAlone' /\ TornIsKnown' /\ RottenIsKnown' /\ FilesComeBack'
      /\ RecordedAreThere'
  BY DEF OneEach, Stopped, Free, RestoredAlone, TornIsKnown, Writing, RottenIsKnown, FilesComeBack,
         OnDisk, RecordedAreThere
<1>3. OldBefore' /\ OldIsLeft' /\ RetiredIsDone' /\ DoneIsDone' /\ CopiesWhole' /\ CopiedAll'
      /\ ComesBack'
  BY DEF OldBefore, NotWalking, OldIsLeft, RetiredIsDone, DoneIsDone, CopiesWhole, OnDisk,
         CopiedAll, ComesBack
<1>4. RowsAndFiles'
  BY DEF RowsAndFiles, Files, CopyTyped, Copy
<1>5. RowsHaveFiles'
  BY DEF RowsHaveFiles, OnDisk, RestoredAlone, FilesComeBack
<1> QED BY <1>1, <1>2, <1>3, <1>4, <1>5 DEF CustodyInv

\* Half a restoration parts its rows from their files.
LEMMA RestoreStopsKeepsCustody ==
  ASSUME CustodyInv, RestoreStops
  PROVE  CustodyInv'
<1> USE DEF CustodyInv, RestoreStops, Mishap, File, NotRestoring
<1>1. KeysTyped' /\ WritersTyped' /\ WalkTyped' /\ CopyTyped' /\ OthersTyped'
  BY DEF KeysTyped, WritersTyped, Writer, WalkTyped, Walk, CopyTyped, Copy, Files, Gone,
         OthersTyped, Restoring
<1>2. OneEach' /\ Stopped' /\ RestoredAlone' /\ FilesComeBack' /\ RetiredIsDone' /\ DoneIsDone'
      /\ CopiedAll'
  BY DEF OneEach, Stopped, Free, RestoredAlone, Gone, FilesComeBack, OnDisk, RetiredIsDone,
         DoneIsDone, CopiedAll
<1>3. ComesBack'
  BY DEF ComesBack, Gone
<1>4. RowsAndFiles'
  BY DEF RowsAndFiles, Files, Gone, CopyTyped, Copy
<1>5. TornIsKnown'
  BY DEF TornIsKnown, Writing, RowsAndFiles, Files, Gone
<1>6. RottenIsKnown'
  BY DEF RottenIsKnown, RowsAndFiles, Files, Gone
<1>7. RowsHaveFiles'
  BY DEF RowsHaveFiles, FilesComeBack, OnDisk, Gone, RowsAndFiles
<1>8. RecordedAreThere'
  BY DEF RecordedAreThere, OnDisk, Gone, RowsAndFiles, WritersTyped, Files, Writer
<1>9. OldBefore'
  BY DEF OldBefore, NotWalking, RowsAndFiles, Files, Gone
<1>10. OldIsLeft'
  BY DEF OldIsLeft, RowsAndFiles, Files, Gone
<1>11. CopiesWhole'
  BY DEF CopiesWhole, OnDisk, Gone, RestoredAlone, CopiedAll
<1> QED BY <1>1, <1>2, <1>3, <1>4, <1>5, <1>6, <1>7, <1>8, <1>9, <1>10, <1>11 DEF CustodyInv

\* What is read is in hand; what does not open is a failure.
LEMMA WalkReadsKeepsCustody ==
  ASSUME CustodyInv, NEW m \in Media, WalkReads(m)
  PROVE  CustodyInv'
<1>1. WalkTyped' /\ OneEach' /\ OldIsLeft' /\ DoneIsDone'
  BY WalkReadsKeep
<1> USE DEF CustodyInv, WalkReads, OnDisk, Opens, Gone
<1>2. RowsAndFiles' /\ KeysTyped' /\ WritersTyped' /\ CopyTyped' /\ OthersTyped'
  BY DEF RowsAndFiles, Files, KeysTyped, WritersTyped, Writer, CopyTyped, Copy, OthersTyped,
         Restoring
<1>3. Stopped' /\ RestoredAlone' /\ TornIsKnown' /\ RottenIsKnown' /\ RowsHaveFiles'
      /\ FilesComeBack' /\ RecordedAreThere'
  BY DEF Stopped, Free, RestoredAlone, TornIsKnown, Writing, RottenIsKnown, RowsHaveFiles,
         FilesComeBack, RecordedAreThere
<1>4. OldBefore' /\ RetiredIsDone' /\ CopiesWhole' /\ CopiedAll' /\ ComesBack'
  BY DEF OldBefore, NotWalking, RetiredIsDone, CopiesWhole, CopiedAll, ComesBack
<1> QED BY <1>1, <1>2, <1>3, <1>4 DEF CustodyInv

\* What is copied is whole, or excused.
LEMMA BackupCopiesKeepsCustody ==
  ASSUME CustodyInv, NEW m \in Media, BackupCopies(m)
  PROVE  CustodyInv'
<1>1. CopyTyped'
  BY BackupCopiesTyped
<1> USE DEF CustodyInv, BackupCopies, Spoilt, Writing
<1>2. RowsAndFiles' /\ KeysTyped' /\ WritersTyped' /\ WalkTyped' /\ OthersTyped'
  BY DEF RowsAndFiles, Files, Gone, KeysTyped, WritersTyped, Writer, WalkTyped, Walk, OthersTyped,
         Restoring
<1>3. OneEach' /\ Stopped' /\ RestoredAlone' /\ TornIsKnown' /\ RottenIsKnown' /\ RowsHaveFiles'
      /\ FilesComeBack'
  BY DEF OneEach, Stopped, Free, RestoredAlone, Gone, TornIsKnown, RottenIsKnown, RowsHaveFiles,
         OnDisk, FilesComeBack
<1>4. RecordedAreThere' /\ OldBefore' /\ OldIsLeft' /\ RetiredIsDone' /\ DoneIsDone' /\ CopiedAll'
      /\ ComesBack'
  BY DEF RecordedAreThere, OnDisk, Gone, OldBefore, NotWalking, OldIsLeft, RetiredIsDone,
         DoneIsDone, CopiedAll, ComesBack
<1>5. CopiesWhole'
  BY DEF CopiesWhole, OnDisk, Gone, RowsAndFiles, CopyTyped, TornIsKnown, RottenIsKnown, Files,
         Copy
<1> QED BY <1>1, <1>2, <1>3, <1>4, <1>5 DEF CustodyInv

\* What rots is known of.
LEMMA RotsKeepsCustody ==
  ASSUME CustodyInv, NEW m \in Media, Rots(m)
  PROVE  CustodyInv'
<1>1. CopyTyped'
  BY RotsTyped
<1> USE DEF CustodyInv, Rots, Mishap, Writing
<1>2. KeysTyped' /\ WritersTyped' /\ WalkTyped' /\ OthersTyped'
  BY DEF KeysTyped, WritersTyped, Writer, WalkTyped, Walk, OthersTyped, Restoring
<1>3. RowsAndFiles'
  BY DEF RowsAndFiles, Files, Gone
<1>4. OneEach' /\ Stopped' /\ RestoredAlone' /\ FilesComeBack' /\ RetiredIsDone' /\ DoneIsDone'
      /\ ComesBack'
  BY DEF OneEach, Stopped, Free, RestoredAlone, Gone, FilesComeBack, OnDisk, RetiredIsDone,
         DoneIsDone, ComesBack
<1>5. TornIsKnown'
  BY DEF TornIsKnown, RowsAndFiles, Files, Gone
<1>6. RottenIsKnown'
  BY DEF RottenIsKnown, RowsAndFiles, Files, Gone
<1>7. RowsHaveFiles'
  BY DEF RowsHaveFiles, OnDisk, Gone, RowsAndFiles, Files
<1>8. RecordedAreThere'
  BY DEF RecordedAreThere, OnDisk, Gone, RowsAndFiles, WritersTyped, Files, Writer
<1>9. OldBefore'
  <2>1. CASE store' = [store EXCEPT ![m].state = "rotten"] /\ UNCHANGED copy
    BY <2>1 DEF OldBefore, RowsAndFiles, Files, Gone
  <2>2. CASE copy' = [copy EXCEPT !.held[m].state = "rotten"] /\ UNCHANGED store
    BY <2>2 DEF OldBefore, CopyTyped, Copy, Files, Gone
  <2> QED BY <2>1, <2>2
<1>10. OldIsLeft'
  BY DEF OldIsLeft, RowsAndFiles, Files, Gone
<1>11. CopiesWhole'
  <2>1. CASE store' = [store EXCEPT ![m].state = "rotten"] /\ UNCHANGED copy
    BY <2>1 DEF CopiesWhole, OnDisk, Gone, RowsAndFiles, Files
  <2>2. CASE copy' = [copy EXCEPT !.held[m].state = "rotten"] /\ UNCHANGED store
    BY <2>2 DEF CopiesWhole, OnDisk, CopyTyped, Copy
  <2> QED BY <2>1, <2>2
<1>12. CopiedAll'
  BY DEF CopiedAll, CopyTyped, Copy, Files, Gone
<1> QED BY <1>1, <1>2, <1>3, <1>4, <1>5, <1>6, <1>7, <1>8, <1>9, <1>10, <1>11, <1>12 DEF CustodyInv

\* A file is again what was copied.
LEMMA RestoreCopiesKeepsCustody ==
  ASSUME CustodyInv, NEW m \in Media, RestoreCopies(m)
  PROVE  CustodyInv'
<1>1. RecordedAreThere'
  BY RestoreCopiesRecorded
<1> USE DEF CustodyInv, RestoreCopies, Listed
<1>2. KeysTyped' /\ WritersTyped' /\ WalkTyped' /\ CopyTyped' /\ OthersTyped'
  BY DEF KeysTyped, WritersTyped, Writer, WalkTyped, Walk, CopyTyped, Copy, Files, Gone,
         OthersTyped, Restoring
<1>3. OneEach' /\ Stopped' /\ RestoredAlone' /\ RowsHaveFiles' /\ OldBefore' /\ OldIsLeft'
      /\ RetiredIsDone'
  BY DEF OneEach, Stopped, Free, RestoredAlone, Gone, RowsHaveFiles, OnDisk, OldBefore, NotWalking,
         OldIsLeft, RetiredIsDone
<1>4. DoneIsDone' /\ CopiedAll'
  BY DEF DoneIsDone, CopiedAll
<1>5. RowsAndFiles'
  BY DEF RowsAndFiles, Files, Gone, CopyTyped, Copy
<1>6. TornIsKnown'
  BY DEF TornIsKnown, Writing, RowsAndFiles, Files, Gone
<1>7. RottenIsKnown'
  BY DEF RottenIsKnown, RowsAndFiles, Files, Gone
<1>8. FilesComeBack'
  BY DEF FilesComeBack, Gone, OnDisk, RowsAndFiles, Files, RestoredAlone
<1>9. CopiesWhole'
  BY DEF CopiesWhole, OnDisk, Gone, RestoredAlone
<1>10. ComesBack'
  BY DEF ComesBack, Gone, RowsAndFiles, Files
<1> QED BY <1>1, <1>2, <1>3, <1>4, <1>5, <1>6, <1>7, <1>8, <1>9, <1>10 DEF CustodyInv

\* Nothing happens.
LEMMA StutterKeepsCustody ==
  ASSUME CustodyInv, UNCHANGED custodyVars
  PROVE  CustodyInv'
<1> USE DEF CustodyInv, custodyVars
<1>1. RowsAndFiles' /\ KeysTyped' /\ WritersTyped' /\ WalkTyped' /\ CopyTyped' /\ OthersTyped'
  BY DEF RowsAndFiles, KeysTyped, WritersTyped, WalkTyped, CopyTyped, OthersTyped
<1>2. OneEach' /\ Stopped' /\ RestoredAlone' /\ TornIsKnown' /\ RottenIsKnown' /\ RowsHaveFiles'
      /\ FilesComeBack'
  BY DEF OneEach, Stopped, Free, RestoredAlone, Gone, TornIsKnown, Writing, RottenIsKnown,
         RowsHaveFiles, OnDisk, FilesComeBack
<1>3. RecordedAreThere' /\ OldBefore' /\ OldIsLeft' /\ RetiredIsDone' /\ DoneIsDone'
      /\ CopiesWhole' /\ CopiedAll'
  BY DEF RecordedAreThere, OnDisk, Gone, OldBefore, NotWalking, OldIsLeft, RetiredIsDone,
         DoneIsDone, CopiesWhole, CopiedAll
<1>4. ComesBack'
  BY DEF ComesBack, Gone
<1> QED BY <1>1, <1>2, <1>3, <1>4 DEF CustodyInv

LEMMA CustodyBegins == CustodyInit => CustodyInv
<1> SUFFICES ASSUME CustodyInit PROVE CustodyInv
    OBVIOUS
<1> USE DEF CustodyInit
<1>1. RowsAndFiles /\ KeysTyped
  BY DEF RowsAndFiles, KeysTyped, Files, File, Gone
<1>2. OthersTyped
  BY DEF OthersTyped, Restoring, NotRestoring
<1>3. WritersTyped /\ WalkTyped
  BY DEF WritersTyped, WalkTyped, Writer, Free, Walk, NotWalking
<1>4. CopyTyped
  BY DEF CopyTyped, Copy, NoCopy, Files
<1>5. OneEach /\ Stopped /\ RestoredAlone
  BY DEF OneEach, Free, NotWalking, Stopped, RestoredAlone, NotRestoring
<1>6. TornIsKnown /\ RottenIsKnown
  BY DEF TornIsKnown, RottenIsKnown, Gone, File
<1>7. RowsHaveFiles /\ FilesComeBack /\ RecordedAreThere
  BY DEF RowsHaveFiles, FilesComeBack, RecordedAreThere, OnDisk, Gone, File, NotRestoring, Free
<1>8. OldBefore
  BY DEF OldBefore, Gone, File, NoCopy
<1>9. OldIsLeft /\ RetiredIsDone /\ DoneIsDone
  BY CustodyAssumption DEF OldIsLeft, RetiredIsDone, DoneIsDone, NotWalking, CustodyAssumption
<1>10. CopiesWhole /\ CopiedAll /\ ComesBack
  BY DEF CopiesWhole, CopiedAll, ComesBack, NoCopy, NotRestoring
<1> QED BY <1>1, <1>3, <1>4, <1>5, <1>6, <1>7, <1>8, <1>9, <1>10, <1>2 DEF CustodyInv

\* Every step keeps it.
LEMMA CustodySteps == CustodyInv /\ [CustodyNext]_custodyVars => CustodyInv'
<1> SUFFICES ASSUME CustodyInv, [CustodyNext]_custodyVars PROVE CustodyInv'
    OBVIOUS
<1>1. CASE \E w \in Writers, m \in Media : PutLooks(w, m)
  BY <1>1, PutLooksKeepsCustody
<1>2. CASE \E w \in Writers, m \in Media : RepairBegins(w, m)
  BY <1>2, RepairBeginsKeepsCustody
<1>3. CASE \E w \in Writers : Truncates(w)
  BY <1>3, TruncatesKeepsCustody
<1>4. CASE \E w \in Writers : Writes(w)
  BY <1>4, WritesKeepsCustody
<1>5. CASE \E w \in Writers : Records(w)
  BY <1>5, RecordsKeepsCustody
<1>6. CASE \E w \in Writers : WriteFails(w)
  BY <1>6, WriteFailsKeepsCustody
<1>7. CASE EraseFiles
  BY <1>7, EraseFilesKeepsCustody
<1>8. CASE EraseRows
  BY <1>8, EraseRowsKeepsCustody
<1>9. CASE Stop
  BY <1>9, StopKeepsCustody
<1>10. CASE Killed
  BY <1>10, KilledKeepsCustody
<1>11. CASE Start
  BY <1>11, StartKeepsCustody
<1>12. CASE Promote
  BY <1>12, PromoteKeepsCustody
<1>13. CASE WalkLists
  BY <1>13, WalkListsKeepsCustody
<1>14. CASE WalkTruncates
  BY <1>14, WalkTruncatesKeepsCustody
<1>15. CASE WalkWrites
  BY <1>15, WalkWritesKeepsCustody
<1>16. CASE WalkEnds
  BY <1>16, WalkEndsKeepsCustody
<1>17. CASE WalkBreaks
  BY <1>17, WalkBreaksKeepsCustody
<1>18. CASE Retire
  BY <1>18, RetireKeepsCustody
<1>19. CASE WalkAgain
  BY <1>19, WalkAgainKeepsCustody
<1>20. CASE BackupBegins
  BY <1>20, BackupBeginsKeepsCustody
<1>21. CASE BackupEnds
  BY <1>21, BackupEndsKeepsCustody
<1>22. CASE RestoreBegins
  BY <1>22, RestoreBeginsKeepsCustody
<1>23. CASE RestoreEnds
  BY <1>23, RestoreEndsKeepsCustody
<1>24. CASE RestoreStops
  BY <1>24, RestoreStopsKeepsCustody
<1>25. CASE \E m \in Media : WalkReads(m)
  BY <1>25, WalkReadsKeepsCustody
<1>26. CASE \E m \in Media : BackupCopies(m)
  BY <1>26, BackupCopiesKeepsCustody
<1>27. CASE \E m \in Media : Rots(m)
  BY <1>27, RotsKeepsCustody
<1>28. CASE \E m \in Media : RestoreCopies(m)
  BY <1>28, RestoreCopiesKeepsCustody
<1>29. CASE UNCHANGED custodyVars
  BY <1>29, StutterKeepsCustody
<1> QED BY <1>1, <1>2, <1>3, <1>4, <1>5, <1>6, <1>7, <1>8, <1>9, <1>10, <1>11, <1>12, <1>13, <1>14,
           <1>15, <1>16, <1>17, <1>18, <1>19, <1>20, <1>21, <1>22, <1>23, <1>24, <1>25, <1>26,
           <1>27, <1>28, <1>29 DEF CustodyNext

\* A walk that left nothing behind, and a ring that is the settings' or older.
LEMMA CustodyProves == CustodyInv => BytesBehindRows /\ RestoredIsWhole
<1> SUFFICES ASSUME CustodyInv PROVE BytesBehindRows /\ RestoredIsWhole
    OBVIOUS
<1>1. ASSUME Serving, NEW m \in catalogue \ (parted \cup rotten)
      PROVE  /\ OnDisk(m)
             /\ store[m].state = "torn" => m \in cut \cup Writing \cup walk.medium
             /\ store[m].state = "whole" =>
                  "VERIFIED" \in {Audit(m, ring), Audit(m, settings)} \/ m \in late \cup broughtBack
  <2>1. m \in Media /\ store[m] \in Files /\ restoring.at # "files"
    BY <1>1 DEF CustodyInv, RowsAndFiles, RestoredAlone, Serving
  <2>2. OnDisk(m)
    BY <1>1, <2>1 DEF CustodyInv, RowsHaveFiles
  <2>3. store[m].state = "torn" => m \in cut \cup Writing \cup walk.medium
    BY <2>1 DEF CustodyInv, TornIsKnown
  <2>4. ASSUME store[m].state = "whole" PROVE Opens(store[m], settings) \/ m \in late \cup broughtBack
    <3>1. store[m].key \in {Old, New}
      BY <2>1, <2>2 DEF Files, OnDisk
    <3>2. CASE settings = <<Old>>
      <4>1. store[m].key = Old
        BY <2>1, <3>2 DEF CustodyInv, OldBefore
      <4> QED BY <2>4, <3>2, <4>1 DEF Opens
    <3>3. CASE settings = <<New, Old>>
      BY <2>4, <3>1, <3>3 DEF Opens
    <3>4. CASE settings = <<New>> /\ store[m].key = New
      BY <2>4, <3>4 DEF Opens
    <3>5. CASE settings = <<New>> /\ store[m].key = Old
      <4>1. walk.at = "done" /\ ~ walk.failed /\ walk.left = {} /\ walk.medium = {}
        BY <3>5 DEF CustodyInv, RetiredIsDone, DoneIsDone, OneEach
      <4> QED BY <2>1, <2>4, <3>5, <4>1 DEF CustodyInv, OldIsLeft
    <3> QED BY <3>1, <3>2, <3>3, <3>4, <3>5 DEF CustodyInv, KeysTyped
  <2>5. Opens(store[m], settings) => Audit(m, settings) = "VERIFIED"
    BY <1>1, <2>2 DEF Audit, Readable
  <2> QED BY <2>2, <2>3, <2>4, <2>5
<1>2. ASSUME restoring.at = "done", NEW m \in copy.rows \ copy.excused
      PROVE  store[m] = copy.listed[m] /\ store[m].state = "whole"
  <2>1. /\ restoring.left = {} /\ copy.at = "done" /\ copy.held = copy.listed
        /\ copy.left = {} /\ m \in Media
    BY <1>2 DEF CustodyInv, RestoredAlone, CopiedAll, CopyTyped, Copy
  <2>2. copy.listed[m].state = "whole"
    BY <1>2, <2>1 DEF CustodyInv, CopiesWhole
  <2>3. copy.held[m] # Gone
    BY <2>1, <2>2 DEF Gone
  <2> QED BY <1>2, <2>1, <2>2, <2>3 DEF CustodyInv, ComesBack
<1>3. restoring.at = "done" => catalogue = copy.rows \/ restoring.replayed
  BY DEF CustodyInv, RestoredAlone
<1> QED BY <1>1, <1>2, <1>3 DEF BytesBehindRows, RestoredIsWhole

\* Behind every row is its file, and it opens under the server's ring or the settings', over overlapping
\* uploads, a rotation at any moment, repairs, restorations and restarts, but for what BytesBehindRows excepts.
THEOREM RowsHaveTheirBytes == CustodySpec => []BytesBehindRows
<1>1. CustodySpec => []CustodyInv
  BY CustodyBegins, CustodySteps, PTL DEF CustodySpec
<1> QED BY <1>1, CustodyProves, PTL

\* After an "Ok" of restore_backup the rows are the snapshot's, unless a stopped server's log was
\* replayed over them; and behind every row of the snapshot is the file the backup copied, whole, but
\* for what an erasure took after the snapshot and what was spoilt already.
THEOREM RestorationIsWhole == CustodySpec => []RestoredIsWhole
<1>1. CustodySpec => []CustodyInv
  BY CustodyBegins, CustodySteps, PTL DEF CustodySpec
<1> QED BY <1>1, CustodyProves, PTL

=============================================================================
