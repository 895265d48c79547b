------------------------------ MODULE Household ------------------------------
(***************************************************************************)
(* Who may come in and what is kept for them: pairing, authentication and  *)
(* revocation (application/access.py), media and recordings                *)
(* (media/filesystem.py, voice.py), and the erasure of a family            *)
(* (privacy.py), as requests of the threadpool see one another.            *)
(*                                                                         *)
(* A request that acts for a device is first authenticated, which reads    *)
(* the device's row and saves it whole.  A read, a transaction, a file     *)
(* operation is a step each; UnitOfWork looks inside the transaction.      *)
(* Every table but media and domain_event has a foreign key to family.     *)
(***************************************************************************)
EXTENDS Naturals, FiniteSets

CONSTANTS
  Requests,       \* slots of the threadpool
  Families, Devices, Codes, Media,
  ContentOf(_),   \* what a media object's bytes are
  None,
  MaxAttempts,    \* MAX_ATTEMPTS
  CodeTtl,        \* CODE_TTL, in ticks
  MaxNow, MaxRequests, MaxFaults   \* bounds

\* What a device asks for.
Asked == {"open", "revoke", "child", "erase", "export", "upload", "keep", "correct"}

ASSUME HouseholdAssumption ==
  /\ {MaxAttempts, CodeTtl, MaxNow, MaxRequests, MaxFaults} \subseteq Nat /\ CodeTtl > 0 /\ MaxAttempts > 0
  /\ \A m \in Media : ContentOf(m) # None
  /\ None \notin Families \cup Devices \cup Codes \cup Media \cup Asked \cup {"claim"}
  /\ None \notin [family : Families, words : {"nobody", "machine", "human"}]
  /\ IsFiniteSet(Requests)

VARIABLES
  families,     \* table family, with its members and children
  devices,      \* table device: the family a device belongs to, and whether it is revoked
  codes,        \* table pairing_request: family, expiry, claimed
  attempts,     \* table pairing_attempt: the failures, a row with its number and time
  media,        \* table media: whose
  files,        \* files on disk: <<family, content>>
  notes,        \* table voice_note: family, and whose words ("nobody", "machine", "human")
  ledger,       \* table idempotency: <<family, recording>> whose keep was remembered
  trail,        \* families with rows in domain_event
  request,      \* what each request is doing, and what it has read
  given,        \* ids given out
  now, begun, faults,
  \* histories
  out,          \* devices whose revocation was answered
  overtaken,    \* ... while an authentication had read the row
  cameBy,       \* the code a device was paired with
  together,     \* doors two requests went through together
  corrected,    \* recordings a parent's words were saved for
  shaky,        \* ... kept twice at once, or kept and not remembered
  disturbed,    \* families erased while an upload, or a new child, was under way
  halted        \* families whose erasure stopped before its last step

tables == <<families, devices, codes, media, notes, ledger>>
counts == <<now, begun, faults>>
histories == <<out, overtaken, cameBy, together, corrected, shaky, disturbed, halted>>
houseVars == <<tables, attempts, files, trail, request, given, counts, histories>>

Idle == [at |-> "idle", op |-> None, who |-> None, fam |-> None, row |-> None, what |-> None,
         since |-> 0, after |-> FALSE]
Box == "box"      \* the door of the server itself

At(r, there) == request[r].at = there
Fam(r) == request[r].fam
What(r) == request[r].what
Busy(r) == request[r].at # "idle"

Goes(r, there) == request' = [request EXCEPT ![r].at = there]
Holds(r, there, row) == request' = [request EXCEPT ![r] = [@ EXCEPT !.at = there, !.row = row]]
Ends(r) == request' = [request EXCEPT ![r] = Idle]

\* An insert for a family that is gone raises; an update of a row that is there does not.
\* A slip: without PRAGMA foreign_keys.
MayWriteAnyway(row, fam) == TRUE
MayWrite(row, fam) == row # None \/ fam \in families

\* An upload and the event of an export have no key to family, and adding a child writes the
\* family itself.
Late == {"upload", "child", "export"}

\* Such a request and an erasure of its family overlap.
Meets(r, op, fam) ==
  \E q \in Requests \ {r} :
    /\ Busy(q) /\ Fam(q) = fam
    /\ \/ op = "erase" /\ request[q].op \in Late
       \/ op \in Late /\ request[q].op = "erase"

---------------------------------------------------------------------------
(* AuthenticateDeviceUseCase, which every request below starts with.       *)

Wanted(op) == CASE op = "revoke" -> Devices
                [] op \in {"keep", "correct"} -> Media
                [] OTHER -> {None}

\* A slip: any row will do.
AuthenticatesAnyone(d) == devices[d] # None
Authenticates(d) == devices[d] # None /\ ~devices[d].revoked

Arrives(r) ==
  /\ At(r, "idle") /\ begun < MaxRequests
  /\ \E d \in Devices, op \in Asked :
       /\ Authenticates(d)
       /\ \E what \in Wanted(op) :
            request' = [request EXCEPT ![r] =
              [Idle EXCEPT !.at = "seen", !.op = op, !.who = d, !.fam = devices[d].family,
                           !.row = devices[d], !.what = what, !.after = d \in out]]
       /\ disturbed' = IF Meets(r, op, devices[d].family) THEN disturbed \cup {devices[d].family} ELSE disturbed
  /\ begun' = begun + 1
  /\ UNCHANGED <<tables, attempts, files, trail, given, now, faults,
                 out, overtaken, cameBy, together, corrected, shaky, halted>>

\* seen_at, in autocommit: every column of the row it read.
Seen(r) ==
  /\ At(r, "seen")
  /\ LET d == request[r].who
     IN  IF MayWrite(devices[d], Fam(r))
           THEN devices' = [devices EXCEPT ![d] = request[r].row] /\ Goes(r, request[r].op)
           ELSE Ends(r) /\ UNCHANGED devices
  /\ UNCHANGED <<families, codes, media, notes, ledger, attempts, files, trail, given, counts, histories>>

---------------------------------------------------------------------------
(* RevokeDeviceUseCase                                                     *)

RevokeReads(r) ==
  /\ At(r, "revoke")
  /\ LET row == devices[What(r)]
     IN  IF row # None /\ row.family = Fam(r) THEN Holds(r, "revoking", row) ELSE Ends(r)
  /\ UNCHANGED <<tables, attempts, files, trail, given, counts, histories>>

Revoked(row) == [row EXCEPT !.revoked = TRUE]

RevokeSaves(r) ==
  /\ At(r, "revoking")
  /\ LET d == What(r)
     IN  IF MayWrite(devices[d], Fam(r))
           THEN /\ devices' = [devices EXCEPT ![d] = Revoked(request[r].row)]
                /\ trail' = trail \cup {Fam(r)}
                /\ out' = out \cup {d}
                /\ overtaken' = IF \E q \in Requests : At(q, "seen") /\ request[q].who = d
                                  THEN overtaken \cup {d} ELSE overtaken
           ELSE UNCHANGED <<devices, trail, out, overtaken>>
  /\ Ends(r)
  /\ UNCHANGED <<families, codes, media, notes, ledger, attempts, files, given, counts,
                 cameBy, together, corrected, shaky, disturbed, halted>>

---------------------------------------------------------------------------
(* POST /v1/families on a production box, then PairDeviceUseCase           *)

\* A slip: nobody counts.
TakenNever == FALSE
Taken == families # {}

CountFamilies(r) ==
  /\ At(r, "idle") /\ begun < MaxRequests /\ ~Taken
  /\ Families \ given # {}
  /\ LET f == CHOOSE f \in Families \ given : TRUE
     IN  /\ request' = [request EXCEPT ![r] = [Idle EXCEPT !.at = "founding", !.fam = f]]
         /\ given' = given \cup {f}
  /\ begun' = begun + 1
  /\ together' = IF \E q \in Requests : At(q, "founding") THEN together \cup {Box} ELSE together
  /\ UNCHANGED <<tables, attempts, files, trail, now, faults,
                 out, overtaken, cameBy, corrected, shaky, disturbed, halted>>

FoundFamily(r) ==
  /\ At(r, "founding")
  /\ families' = families \cup {Fam(r)}
  /\ Goes(r, "pairing")
  /\ UNCHANGED <<devices, codes, media, notes, ledger, attempts, files, trail, given, counts, histories>>

\* A device with a name and a family is paired; a blank name, or no family, is not.
Pairs(r, by) ==
  \E d \in Devices \ given :
    /\ devices' = [devices EXCEPT ![d] = [family |-> Fam(r), revoked |-> FALSE]]
    /\ given' = given \cup {d}
    /\ cameBy' = [cameBy EXCEPT ![d] = by]
    /\ trail' = trail \cup {Fam(r)}

FoundersDevice(r) ==
  /\ At(r, "pairing") /\ Ends(r)
  /\ IF Fam(r) \in families THEN Pairs(r, None) ELSE UNCHANGED <<devices, given, cameBy, trail>>
  /\ UNCHANGED <<families, codes, media, notes, ledger, attempts, files, counts,
                 out, overtaken, together, corrected, shaky, disturbed, halted>>

---------------------------------------------------------------------------
(* OpenPairingUseCase and ClaimPairingUseCase                              *)

\* A slip: a code lives twice as long.
ExpiryTwice(t) == t + 2 * CodeTtl
Expiry(t) == t + CodeTtl

OpenCode(r) ==
  /\ At(r, "open") /\ Ends(r)
  /\ \E c \in Codes \ given :
       IF Fam(r) \in families
         THEN /\ codes' = [codes EXCEPT ![c] = [family |-> Fam(r), until |-> Expiry(now), claimed |-> FALSE]]
              /\ given' = given \cup {c}
         ELSE UNCHANGED <<codes, given>>
  /\ UNCHANGED <<families, devices, media, notes, ledger, attempts, files, trail, counts, histories>>

\* failures_since(since - CODE_TTL)
Recent(since) == Cardinality({row \in attempts : row.at + CodeTtl >= since})

Locked(since) == Recent(since) >= MaxAttempts

\* PairingCode.parse: somebody types a code, or something that is none.
Typed == (Codes \cap given) \cup {None}

ClaimBegins(r) ==
  /\ At(r, "idle") /\ begun < MaxRequests /\ ~Locked(now)
  /\ \E typed \in Typed :
       request' = [request EXCEPT ![r] =
         [Idle EXCEPT !.at = "find", !.op = "claim", !.what = typed, !.since = now]]
  /\ begun' = begun + 1
  /\ UNCHANGED <<tables, attempts, files, trail, given, now, faults, histories>>

\* PairingRequest.is_open_at, of the moment the request began.
IsOpen(row, at) == row # None /\ ~row.claimed /\ at < row.until

CodeRow(c) == IF c = None THEN None ELSE codes[c]

FindCode(r) ==
  /\ At(r, "find")
  /\ LET c == What(r)
         row == CodeRow(c)
     IN  IF IsOpen(row, request[r].since) /\ row.family \in families
           THEN /\ request' = [request EXCEPT ![r] = [@ EXCEPT !.at = "consume", !.row = row, !.fam = row.family]]
                /\ together' = IF \E q \in Requests : At(q, "consume") /\ What(q) = c
                                 THEN together \cup {c} ELSE together
           ELSE Goes(r, "wrong") /\ UNCHANGED together
  /\ UNCHANGED <<tables, attempts, files, trail, given, counts,
                 out, overtaken, cameBy, corrected, shaky, disturbed, halted>>

Spent(row) == [row EXCEPT !.claimed = TRUE]

Consume(r) ==
  /\ At(r, "consume")
  /\ LET c == What(r)
     IN  IF MayWrite(codes[c], Fam(r))
           THEN codes' = [codes EXCEPT ![c] = Spent(request[r].row)] /\ Goes(r, "join")
           ELSE Ends(r) /\ UNCHANGED codes
  /\ UNCHANGED <<families, devices, media, notes, ledger, attempts, files, trail, given, counts, histories>>

Join(r) ==
  /\ At(r, "join") /\ Fam(r) \in families
  /\ Ends(r) /\ Pairs(r, What(r))
  /\ UNCHANGED <<families, codes, media, notes, ledger, attempts, files, counts,
                 out, overtaken, together, corrected, shaky, disturbed, halted>>

\* No name for the device, or (an exception) no family for it.
JoinFails(r) ==
  /\ At(r, "join")
  /\ IF Fam(r) \in families THEN Goes(r, "wrong") ELSE Ends(r)
  /\ UNCHANGED <<tables, attempts, files, trail, given, counts, histories>>

\* record_attempt, under the time the request began.
RecordFailure(r) ==
  /\ At(r, "wrong") /\ Ends(r)
  /\ attempts' = attempts \cup {[id |-> Cardinality(attempts) + 1, at |-> request[r].since]}
  /\ UNCHANGED <<tables, files, trail, given, counts, histories>>

---------------------------------------------------------------------------
(* POST /v1/families/.../children: the family as it was read, saved whole. *)

AddChildReads(r) ==
  /\ At(r, "child")
  /\ IF Fam(r) \in families THEN Goes(r, "naming") ELSE Ends(r)
  /\ UNCHANGED <<tables, attempts, files, trail, given, counts, histories>>

AddChildSaves(r) ==
  /\ At(r, "naming") /\ Ends(r)
  /\ families' = families \cup {Fam(r)}
  /\ UNCHANGED <<devices, codes, media, notes, ledger, attempts, files, trail, given, counts, histories>>

---------------------------------------------------------------------------
(* ExportFamilyDataUseCase: what it reads is FamilyArchive's matter; here, *)
(* the family it found, and the event it leaves at its end.                *)

ExportReads(r) ==
  /\ At(r, "export")
  /\ IF Fam(r) \in families THEN Goes(r, "publishing") ELSE Ends(r)
  /\ UNCHANGED <<tables, attempts, files, trail, given, counts, histories>>

ExportPublishes(r) ==
  /\ At(r, "publishing") /\ Ends(r)
  /\ trail' = trail \cup {Fam(r)}
  /\ UNCHANGED <<tables, attempts, files, given, counts, histories>>

---------------------------------------------------------------------------
(* EncryptedFilesystemMediaStore.put: bytes of a content are kept once.    *)

UploadBytes(r) ==
  /\ At(r, "upload")
  /\ \E m \in Media \ given :
       /\ files' = files \cup {<<Fam(r), ContentOf(m)>>}
       /\ given' = given \cup {m}
       /\ request' = [request EXCEPT ![r] = [@ EXCEPT !.at = "recording", !.what = m]]
  /\ UNCHANGED <<tables, attempts, trail, counts, histories>>

\* The catalogue's table has no foreign key.
UploadRecords(r) ==
  /\ At(r, "recording") /\ Ends(r)
  /\ media' = [media EXCEPT ![What(r)] = Fam(r)]
  /\ UNCHANGED <<families, devices, codes, notes, ledger, attempts, files, trail, given, counts, histories>>

---------------------------------------------------------------------------
(* KeepVoiceNoteUseCase within replay_or_perform, CorrectTranscriptUseCase *)

HasBytes(m) == media[m] # None /\ <<media[m], ContentOf(m)>> \in files

\* A slip: the ledger is not asked.
AnsweredNever(m) == FALSE
Answered(m) == \E f \in Families : <<f, m>> \in ledger

\* VoiceNote.kept, indexed_by and corrected_to.
Kept(fam) == [family |-> fam, words |-> "nobody"]
IndexedBy(note, heard) ==
  IF note.words = "human" \/ heard = "nobody" THEN note ELSE [note EXCEPT !.words = heard]
CorrectedTo(note) == [note EXCEPT !.words = "human"]

\* _indexed: the phone's reading, the box's, or none; a reading that cannot
\* be had is no reason to lose the recording.
Readings == {"machine", "nobody"}

\* A recording is kept under one key; a key that was answered is answered again.
KeepReads(r) ==
  /\ At(r, "keep")
  /\ LET m == What(r)
         kept == \E q \in Requests \ {r} : request[q].op = "keep" /\ What(q) = m /\ request[q].at \in {"keeping", "remember"}
     IN  IF ~Answered(m) /\ Fam(r) \in families /\ media[m] = Fam(r) /\ HasBytes(m)
           THEN /\ \E heard \in Readings : Holds(r, "keeping", IndexedBy(Kept(Fam(r)), heard))
                /\ shaky' = IF kept THEN shaky \cup {m} ELSE shaky
           ELSE Ends(r) /\ UNCHANGED shaky
  /\ UNCHANGED <<tables, attempts, files, trail, given, counts,
                 out, overtaken, cameBy, together, corrected, disturbed, halted>>

\* The whole transcript, whatever is there.
KeepSaves(r) ==
  /\ At(r, "keeping")
  /\ LET m == What(r)
     IN  IF Fam(r) \in families
           THEN /\ notes' = [notes EXCEPT ![m] = request[r].row] /\ trail' = trail \cup {Fam(r)}
                /\ Goes(r, "remember")
           ELSE Ends(r) /\ UNCHANGED <<notes, trail>>
  /\ UNCHANGED <<families, devices, codes, media, ledger, attempts, files, given, counts, histories>>

Remember(r) ==
  /\ At(r, "remember") /\ Ends(r)
  /\ ledger' = IF Fam(r) \in families THEN ledger \cup {<<Fam(r), What(r)>>} ELSE ledger
  /\ UNCHANGED <<families, devices, codes, media, notes, attempts, files, trail, given, counts, histories>>

CorrectReads(r) ==
  /\ At(r, "correct")
  /\ LET row == notes[What(r)]
     IN  IF row # None /\ row.family = Fam(r) THEN Holds(r, "correcting", row) ELSE Ends(r)
  /\ UNCHANGED <<tables, attempts, files, trail, given, counts, histories>>

CorrectSaves(r) ==
  /\ At(r, "correcting") /\ Ends(r)
  /\ LET m == What(r)
     IN  IF MayWrite(notes[m], Fam(r))
           THEN /\ notes' = [notes EXCEPT ![m] = CorrectedTo(request[r].row)]
                /\ trail' = trail \cup {Fam(r)}
                /\ corrected' = corrected \cup {m}
           ELSE UNCHANGED <<notes, trail, corrected>>
  /\ UNCHANGED <<families, devices, codes, media, ledger, attempts, files, given, counts,
                 out, overtaken, cameBy, together, shaky, disturbed, halted>>

---------------------------------------------------------------------------
(* DeleteFamilyDataUseCase: the bytes, their rows, the tables, the trail.  *)

EraseBegins(r) ==
  /\ At(r, "erase")
  /\ IF Fam(r) \in families THEN Goes(r, "emptying") ELSE Ends(r)
  /\ UNCHANGED <<tables, attempts, files, trail, given, counts, histories>>

OfFamily(f) == {file \in files : file[1] = f}

EraseFiles(r) ==
  /\ At(r, "emptying") /\ Goes(r, "folder")
  /\ files' = files \ OfFamily(Fam(r))
  /\ UNCHANGED <<tables, attempts, trail, given, counts, histories>>

\* rmdir raises when a file has come since.
EraseFolder(r) ==
  /\ At(r, "folder")
  /\ IF OfFamily(Fam(r)) = {} THEN Goes(r, "unlisting") ELSE Ends(r)
  /\ UNCHANGED <<tables, attempts, files, trail, given, counts, histories>>

EraseCatalogue(r) ==
  /\ At(r, "unlisting") /\ Goes(r, "rows")
  /\ media' = [m \in Media |-> IF media[m] = Fam(r) THEN None ELSE media[m]]
  /\ UNCHANGED <<families, devices, codes, notes, ledger, attempts, files, trail, given, counts, histories>>

Without(table, f) == [x \in DOMAIN table |-> IF table[x] # None /\ table[x].family = f THEN None ELSE table[x]]

\* One transaction; deleting the family cascades.
EraseRows(r) ==
  /\ At(r, "rows") /\ Goes(r, "trail")
  /\ LET f == Fam(r)
     IN  /\ families' = families \ {f}
         /\ devices' = Without(devices, f) /\ codes' = Without(codes, f) /\ notes' = Without(notes, f)
         /\ ledger' = {kept \in ledger : kept[1] # f}
         /\ corrected' = {m \in corrected : notes'[m] # None}
  /\ UNCHANGED <<media, attempts, files, trail, given, counts,
                 out, overtaken, cameBy, together, shaky, disturbed, halted>>

\* Only that it was erased is kept.
EraseTrail(r) ==
  /\ At(r, "trail") /\ Ends(r)
  /\ trail' = trail \ {Fam(r)}
  /\ UNCHANGED <<tables, attempts, files, given, counts, histories>>
---------------------------------------------------------------------------
(* A request that raises, and the end of the process.                      *)

Stop(some) ==
  /\ faults < MaxFaults /\ faults' = faults + 1
  /\ request' = [r \in Requests |-> IF r \in some THEN Idle ELSE request[r]]
  /\ shaky' = shaky \cup {What(r) : r \in {r \in some : At(r, "remember")}}
  /\ halted' = halted \cup {Fam(r) : r \in {r \in some : At(r, "trail")}}
  /\ UNCHANGED <<tables, attempts, files, trail, given, now, begun,
                 out, overtaken, cameBy, together, corrected, disturbed>>

Raises(r) == Busy(r) /\ Stop({r})
Restart == (\E r \in Requests : Busy(r)) /\ Stop(Requests)

TimePasses ==
  /\ now < MaxNow /\ now' = now + 1
  /\ UNCHANGED <<tables, attempts, files, trail, request, given, begun, faults, histories>>

---------------------------------------------------------------------------
\* A box nobody has, or a family with two devices and a recording uploaded.
HouseInit ==
  /\ \/ families = {} /\ given = {} /\ trail = {} /\ files = {}
        /\ devices = [d \in Devices |-> None] /\ media = [m \in Media |-> None]
     \/ \E f \in Families, d, e \in Devices, m \in Media :
          /\ d # e
          /\ families = {f} /\ given = {f, d, e, m} /\ trail = {f} /\ files = {<<f, ContentOf(m)>>}
          /\ devices = [x \in Devices |-> IF x \in {d, e} THEN [family |-> f, revoked |-> FALSE] ELSE None]
          /\ media = [x \in Media |-> IF x = m THEN f ELSE None]
  /\ codes = [c \in Codes |-> None] /\ notes = [m \in Media |-> None] /\ ledger = {}
  /\ attempts = {}
  /\ request = [r \in Requests |-> Idle]
  /\ now = 0 /\ begun = 0 /\ faults = 0
  /\ out = {} /\ overtaken = {} /\ together = {} /\ corrected = {} /\ shaky = {}
  /\ disturbed = {} /\ halted = {}
  /\ cameBy = [d \in Devices |-> None]

Access(r) == \/ Arrives(r) \/ Seen(r) \/ RevokeReads(r) \/ RevokeSaves(r) \/ OpenCode(r)
             \/ CountFamilies(r) \/ FoundFamily(r) \/ FoundersDevice(r)
Claiming(r) == ClaimBegins(r) \/ FindCode(r) \/ Consume(r) \/ Join(r) \/ JoinFails(r) \/ RecordFailure(r)
Keeping(r) == \/ AddChildReads(r) \/ AddChildSaves(r) \/ ExportReads(r) \/ ExportPublishes(r)
              \/ UploadBytes(r) \/ UploadRecords(r)
              \/ KeepReads(r) \/ KeepSaves(r) \/ Remember(r) \/ CorrectReads(r) \/ CorrectSaves(r)
Erasing(r) == EraseBegins(r) \/ EraseFiles(r) \/ EraseFolder(r) \/ EraseCatalogue(r) \/ EraseRows(r) \/ EraseTrail(r)

HouseNext ==
  \/ \E r \in Requests : Access(r) \/ Claiming(r) \/ Keeping(r) \/ Erasing(r) \/ Raises(r)
  \/ Restart \/ TimePasses

HouseSpec == HouseInit /\ [][HouseNext]_houseVars

---------------------------------------------------------------------------
(* Properties                                                              *)

HouseTypeOK ==
  /\ families \subseteq Families /\ trail \subseteq Families
  /\ devices \in [Devices -> {None} \cup [family : Families, revoked : BOOLEAN]]
  /\ codes \in [Codes -> {None} \cup [family : Families, until : 0 .. MaxNow + CodeTtl, claimed : BOOLEAN]]
  /\ \A c \in Codes : codes[c] # None => codes[c].until <= now + CodeTtl
  /\ attempts \subseteq [id : 1 .. MaxRequests, at : 0 .. MaxNow]
  /\ media \in [Media -> {None} \cup Families]
  /\ files \subseteq Families \X {ContentOf(m) : m \in Media}
  /\ notes \in [Media -> {None} \cup [family : Families, words : {"nobody", "machine", "human"}]]
  /\ ledger \subseteq Families \X Media
  /\ cameBy \in [Devices -> {None} \cup Codes]
  /\ now \in 0 .. MaxNow /\ begun \in 0 .. MaxRequests /\ faults \in 0 .. MaxFaults

\* A phone that was cut off stays out: once the revocation was answered its row stays
\* revoked and no request of it is let in.  Only an authentication that had read the row
\* before, and saves it after, brings it back.
RevokedStaysOut ==
  /\ \A d \in out \ overtaken : devices[d] # None => devices[d].revoked
  /\ \A r \in Requests : request[r].after => request[r].who \in overtaken

\* A door lets one through and closes: one device per code, whatever is retried, raised
\* or restarted, and one family per box.  Except where two were in it at once, or a late
\* request wrote an erased family back.  And within one window, failures are at most the
\* limit and what was under way when it bit.
OneDevicePerCode == \A c \in Codes \ together : Cardinality({d \in Devices : cameBy[d] = c}) <= 1
OneFamilyPerBox == Box \in together \/ Cardinality(families \ disturbed) <= 1
Within(t) == {row \in attempts : row.at <= t /\ row.at + CodeTtl >= t}
FailuresAreFew == \A t \in 0 .. MaxNow : Cardinality(Within(t)) <= MaxAttempts + Cardinality(Requests) - 1
DoorsCloseBehind == OneDevicePerCode /\ OneFamilyPerBox /\ FailuresAreFew

\* What a parent wrote for a recording stays until the family is erased: a replay of the
\* keep is answered, not performed.  Except when two keeps overlapped, or one was stopped
\* before it was remembered, or a late request wrote the erased family back.
CorrectionStands ==
  \A m \in corrected \ shaky :
    notes[m] # None /\ (notes[m].words = "human" \/ notes[m].family \in disturbed)

\* Nothing of a family outlives its row, at any moment and wherever an erasure stopped:
\* not a device, code or note, not a file, not a media row; and its trail only until the
\* last step.  Except where an upload, a child being added, or an export overlapped the erasure.
NothingOutlivesTheFamily ==
  \A f \in Families \ (families \cup disturbed) :
    /\ \A table \in {devices, codes, notes} : \A x \in DOMAIN table : table[x] = None \/ table[x].family # f
    /\ OfFamily(f) = {} /\ \A m \in Media : media[m] # f
    /\ f \in trail => f \in halted \/ \E r \in Requests : At(r, "trail") /\ Fam(r) = f
=============================================================================
