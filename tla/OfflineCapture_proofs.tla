----------------------- MODULE OfflineCapture_proofs -----------------------
(***************************************************************************)
(* Theorems about OfflineCapture, for any number of captures, drains and   *)
(* requests, and any number of failures.                                   *)
(*                                                                         *)
(* The argument: a row leaves the queue only on an answer, and an answer   *)
(* is of a request this drain alone waits for; so what was ever queued is  *)
(* still there, or was kept or turned away (Safe).  A file's row leaves    *)
(* the spool only in the hands of a drain whose entry is already safe in   *)
(* that sense, and the file only once an id was given out for its bytes.   *)
(* On the server, a capture that was not raced has one request at work at  *)
(* most, and is kept only where the ledger or that request knows of it.    *)
(***************************************************************************)
EXTENDS OfflineCapture, FiniteSetTheorems, TLAPS

---------------------------------------------------------------------------
(* The invariant.                                                          *)

PhoneTyped ==
  /\ saved \subseteq Captures /\ files \subseteq Files
  /\ spool \in [Captures -> Stored \cup {Absent}] /\ queue \in [Captures -> Stored \cup {Absent}]
DrainsTyped == drain \in [Drains -> Drain]
BoxTyped ==
  /\ uploads \in [Captures -> Nat] /\ ledger \in [Captures -> Nat \cup {Absent}]
  /\ archive \subseteq [of : Captures, media : Nat, copy : Nat] /\ IsFiniteSet(archive)
ServerTyped == server \in [Requests -> Request \cup {Absent}]
OthersTyped ==
  /\ paired \in BOOLEAN /\ sealed \subseteq Captures
  /\ raced \subseteq Captures /\ unwelcome \subseteq Captures
  /\ faults \in 0 .. MaxFaults

\* A drain past its list has an entry in hand, and one that has not listed yet has none.
HandsFull == \A d \in Drains :
  /\ drain[d].stage \in {"uploading", "uploaded", "queued", "removed", "sending"} => drain[d].on \in Entry
  /\ drain[d].stage \in {"idle", "listing"} => drain[d].todo = {}

\* A media id is one the archive gave out, and only to bytes it takes.
FileEntry(e) == e.of \in Files /\ e.media \in 0 .. uploads[e.of]
NoteEntry(e) == e.of \in Files => e.media \in 1 .. uploads[e.of]
BytesAreTaken == \A c \in Captures : uploads[c] > 0 => c \in Files \ Unacceptable
SpoolIds == \A c \in Captures : spool[c] # Absent => c \in Files /\ spool[c].media \in 0 .. uploads[c]
QueueIds == \A c \in Files : queue[c] # Absent => queue[c].media \in 1 .. uploads[c]
TodoIds == \A d \in Drains : \A e \in drain[d].todo :
  /\ drain[d].stage \in {"spool", "uploading", "uploaded", "queued", "removed"} => FileEntry(e)
  /\ drain[d].stage \in {"queue", "sending"} => NoteEntry(e)
HandIds == \A d \in Drains :
  /\ drain[d].stage \in {"uploading", "uploaded", "queued", "removed"} => FileEntry(drain[d].on)
  /\ drain[d].stage \in {"uploaded", "queued", "removed", "sending"} => NoteEntry(drain[d].on)

\* What left the queue, or never needed it, was kept or turned away.
OutOfQueue(c) == Kept(c) \/ c \in unwelcome \cup Unacceptable
Safe(c) == queue[c] # Absent \/ OutOfQueue(c)
LedgerKnows == \A c \in Captures : ledger[c] # Absent => Kept(c)
ServerKnows == \A r \in Requests : server[r] # Absent =>
  /\ server[r].stage \in {"kept", "performed"} => Kept(server[r].of)
  /\ server[r].stage = "refused" => OutOfQueue(server[r].of)
Waits == \A r \in Requests : server[r] # Absent /\ server[r].from # Nobody =>
  LET d == server[r].from IN
  /\ drain[d].stage = "sending" /\ drain[d].on.of = server[r].of
  /\ \A q \in Requests : server[q] # Absent /\ server[q].from = d => q = r
InHandIsSafe == \A d \in Drains : drain[d].stage \in {"queued", "removed"} => Safe(drain[d].on.of)
SavedIsSafe == \A c \in saved : Safe(c) \/ (c \in Files /\ spool[c] # Absent /\ c \in files)
SealedIsQueued == sealed \subseteq {c \in Captures : queue[c] # Absent}
FilesStay == \A c \in saved \cap Files : c \in files \/ uploads[c] > 0

\* But for a capture that was raced, one request at most is at work on it, and it is kept only
\* where the ledger, or that request, knows.
AtWorkAlone == \A c \in Captures \ raced : \A q, r \in AtWork(c) : q = r
KeptIsKnown == \A c \in Captures \ raced :
  Kept(c) => ledger[c] # Absent \/ \E r \in AtWork(c) : server[r].stage = "performed"
NotYetKept == \A c \in Captures \ raced : \A r \in AtWork(c) : server[r].stage = "performing" => ~ Kept(c)
KeptOnce == \A c \in Captures \ raced : \A x, y \in archive : x.of = c /\ y.of = c => x = y

CaptureInv == /\ PhoneTyped /\ DrainsTyped /\ BoxTyped /\ ServerTyped /\ OthersTyped /\ HandsFull
        /\ BytesAreTaken /\ SpoolIds /\ QueueIds /\ TodoIds /\ HandIds
        /\ LedgerKnows /\ ServerKnows /\ Waits /\ InHandIsSafe /\ SavedIsSafe /\ SealedIsQueued /\ FilesStay
        /\ AtWorkAlone /\ KeptIsKnown /\ NotYetKept /\ KeptOnce

---------------------------------------------------------------------------
(* What the operations come to.                                            *)

\* What is due are entries.
LEMMA DueIsEntries == \A table \in [Captures -> Stored \cup {Absent}] : Due(table) \subseteq Entry
<1> SUFFICES ASSUME NEW table \in [Captures -> Stored \cup {Absent}], NEW c \in Captures, table[c] # Absent
             PROVE  [of |-> c, media |-> table[c].media] \in Entry
    BY DEF Due
<1> QED BY DEF Stored, Entry

\* An upsert into the spool leaves the row it was given, and every other row.
LEMMA SpoolWritten ==
  ASSUME PhoneTyped, NEW e \in Entry, NEW due \in BOOLEAN, PutSpool(e, due)
  PROVE  /\ spool' \in [Captures -> Stored \cup {Absent}]
         /\ spool'[e.of] = [media |-> e.media, due |-> due] /\ spool'[e.of] # Absent
         /\ \A c \in Captures : c # e.of => spool'[c] = spool[c]
<1>1. [media |-> e.media, due |-> due] \in Stored /\ e.of \in Captures
  BY DEF Entry, Stored
<1> QED BY <1>1, AbsentAssumption DEF PhoneTyped, PutSpool

\* An upsert into the queue leaves a row there, with the body it had, and every other row.
LEMMA QueueWritten ==
  ASSUME PhoneTyped, NEW e \in Entry, NEW due \in BOOLEAN, PutQueue(e, due)
  PROVE  /\ queue' \in [Captures -> Stored \cup {Absent}]
         /\ queue'[e.of] = [media |-> IF queue[e.of] = Absent THEN e.media ELSE queue[e.of].media, due |-> due]
         /\ \A c \in Captures : c # e.of => queue'[c] = queue[c]
         /\ \A c \in Captures : queue[c] # Absent \/ c = e.of => queue'[c] # Absent
<1> DEFINE row == [media |-> IF queue[e.of] = Absent THEN e.media ELSE queue[e.of].media, due |-> due]
<1>1. e.of \in Captures /\ e.media \in Nat
  BY DEF Entry
<1>2. row \in Stored
  BY <1>1 DEF PhoneTyped, Stored
<1>3. row # Absent
  BY <1>2, AbsentAssumption
<1>4. queue' = [queue EXCEPT ![e.of] = row]
  BY DEF PutQueue
<1> HIDE DEF row
<1>5. queue' \in [Captures -> Stored \cup {Absent}] /\ queue'[e.of] = row
  BY <1>1, <1>2, <1>4 DEF PhoneTyped
<1>6. \A c \in Captures : c # e.of => queue'[c] = queue[c]
  BY <1>1, <1>4 DEF PhoneTyped
<1> QED BY <1>3, <1>5, <1>6 DEF row

\* What the updates of a row, of a drain and of an entry come to, field by field.
LEMMA DueRow ==
  ASSUME NEW row \in Stored, NEW x, x = [row EXCEPT !.due = TRUE]
  PROVE  x = [media |-> row.media, due |-> TRUE]
BY DEF Stored

LEMMA DrainMoves ==
  ASSUME NEW x \in Drain, NEW s, NEW t, NEW y, y = [x EXCEPT !.stage = s, !.todo = t]
  PROVE  y = [stage |-> s, todo |-> t, on |-> x.on, keeps |-> x.keeps]
BY DEF Drain

LEMMA DrainTakes ==
  ASSUME NEW x \in Drain, NEW s, NEW e, NEW y, y = [x EXCEPT !.stage = s, !.on = e]
  PROVE  y = [stage |-> s, todo |-> x.todo, on |-> e, keeps |-> x.keeps]
BY DEF Drain

LEMMA DrainBegins ==
  ASSUME NEW y, y = [Asleep EXCEPT !.stage = "listing", !.keeps = TRUE]
  PROVE  y \in Drain
BY DEF Asleep, Drain, Stages

LEMMA DrainGoesOn ==
  ASSUME NEW t \in SUBSET Entry, NEW y, y = [Asleep EXCEPT !.stage = "queue", !.todo = t]
  PROVE  y = [stage |-> "queue", todo |-> t, on |-> Absent, keeps |-> FALSE]
BY DEF Asleep

LEMMA DrainFails ==
  ASSUME NEW k, NEW y, y = [Asleep EXCEPT !.stage = "spool", !.keeps = k]
  PROVE  y = [stage |-> "spool", todo |-> {}, on |-> Absent, keeps |-> k]
BY DEF Asleep

LEMMA EntryTakes ==
  ASSUME NEW e \in Entry, NEW m, NEW y, y = [e EXCEPT !.media = m]
  PROVE  y = [of |-> e.of, media |-> m]
BY DEF Entry

\* A row whose backoff ends is the same row, due.
LEMMA RowWaits ==
  ASSUME NEW table \in [Captures -> Stored \cup {Absent}], NEW c \in Captures, table[c] # Absent
  PROVE  /\ [table EXCEPT ![c].due = TRUE] \in [Captures -> Stored \cup {Absent}]
         /\ [table EXCEPT ![c].due = TRUE][c] = [media |-> table[c].media, due |-> TRUE]
         /\ [table EXCEPT ![c].due = TRUE][c] # Absent
<1>1. table[c] \in Stored
  OBVIOUS
<1>2. [table[c] EXCEPT !.due = TRUE] = [media |-> table[c].media, due |-> TRUE]
  BY <1>1, DueRow
<1>3. [media |-> table[c].media, due |-> TRUE] \in Stored
  BY <1>1 DEF Stored
<1>4. [table EXCEPT ![c].due = TRUE] = [table EXCEPT ![c] = [media |-> table[c].media, due |-> TRUE]]
  BY <1>2
<1>5. [table EXCEPT ![c].due = TRUE][c] = [media |-> table[c].media, due |-> TRUE]
  BY <1>4
<1>6. [table EXCEPT ![c].due = TRUE] \in [Captures -> Stored \cup {Absent}]
  BY <1>3, <1>4
<1> QED BY <1>3, <1>5, <1>6, AbsentAssumption

\* What is safe stays safe while the queue, the archive and the refusals grow.
LEMMA StaysSafe ==
  ASSUME CaptureInv, unwelcome \subseteq unwelcome', archive \subseteq archive',
         \A c \in Captures : queue[c] # Absent => queue'[c] # Absent
  PROVE  \A c \in Captures : Safe(c) => Safe(c)'
BY DEF Safe, OutOfQueue, Kept

\* So does what the drains have in hand.
LEMMA InHandStays ==
  ASSUME CaptureInv, drain' = drain, \A c \in Captures : Safe(c) => Safe(c)'
  PROVE  InHandIsSafe'
<1> SUFFICES ASSUME NEW d \in Drains, drain[d].stage \in {"queued", "removed"}
             PROVE  Safe(drain[d].on.of)'
    BY DEF InHandIsSafe, Safe, OutOfQueue, Kept
<1>1. drain[d].on \in Entry
  BY DEF CaptureInv, HandsFull
<1>2. drain[d].on.of \in Captures
  BY <1>1 DEF Entry
<1>3. Safe(drain[d].on.of)
  BY DEF CaptureInv, InHandIsSafe
<1> QED BY <1>2, <1>3 DEF Safe, OutOfQueue, Kept

\* Requests that performed stay at work.
LEMMA PerformedStay ==
  ASSUME CaptureInv, UNCHANGED <<archive, ledger, raced>>,
         \A q \in Requests : server[q] # Absent /\ server[q].stage = "performed" =>
           server'[q] # Absent /\ server'[q].of = server[q].of /\ server'[q].stage = "performed"
  PROVE  KeptIsKnown'
<1> SUFFICES ASSUME NEW c \in Captures \ raced, \E x \in archive : x.of = c, ledger[c] = Absent
             PROVE  \E r \in Requests : /\ server'[r] # Absent /\ server'[r].of = c
                                        /\ server'[r].stage \in {"performing", "performed"}
                                        /\ server'[r].stage = "performed"
    BY DEF KeptIsKnown, AtWork, Kept
<1>1. PICK r \in AtWork(c) : server[r].stage = "performed"
  BY DEF CaptureInv, KeptIsKnown, Kept
<1> QED BY <1>1 DEF AtWork

\* And what was saved, if the spool and the files grow as well.
LEMMA StillSaved ==
  ASSUME CaptureInv, saved' = saved, files \subseteq files',
         \A c \in Captures : Safe(c) => Safe(c)', \A c \in Captures : spool[c] # Absent => spool'[c] # Absent
  PROVE  SavedIsSafe'
BY DEF CaptureInv, PhoneTyped, SavedIsSafe, Safe, OutOfQueue, Kept

\* A note that is enqueued is in the queue.
LEMMA EnqueuedIsSafe ==
  ASSUME CaptureInv, NEW c \in Captures, EnqueueCapture(c)
  PROVE  SavedIsSafe' /\ SealedIsQueued'
<1>1. [of |-> c, media |-> NoMedia] \in Entry
  BY DEF Entry, NoMedia
<1>2. \A x \in Captures : queue[x] # Absent \/ x = c => queue'[x] # Absent
  BY <1>1, QueueWritten DEF CaptureInv, EnqueueCapture
<1>3. saved' = saved \cup {c} /\ UNCHANGED <<spool, files, archive, unwelcome, sealed>>
  BY DEF EnqueueCapture, New, box, history, keys
<1>4. \A x \in Captures : Safe(x) => Safe(x)'
  BY <1>2, <1>3, StaysSafe
<1>5. SealedIsQueued'
  BY <1>2, <1>3 DEF CaptureInv, SealedIsQueued
<1>6. Safe(c)'
  BY <1>2 DEF Safe
<1>7. ASSUME NEW x \in saved PROVE (Safe(x) \/ (x \in Files /\ spool[x] # Absent /\ x \in files))'
  <2>1. x \in Captures
    BY DEF CaptureInv, PhoneTyped
  <2>2. Safe(x) \/ (x \in Files /\ spool[x] # Absent /\ x \in files)
    BY DEF CaptureInv, SavedIsSafe
  <2> QED BY <1>3, <1>4, <2>1, <2>2
<1> QED BY <1>3, <1>5, <1>6, <1>7 DEF SavedIsSafe

\* A file that is spooled is saved.
LEMMA SpooledIsSaved ==
  ASSUME CaptureInv, NEW c \in Files, Spooled(c), UNCHANGED <<queue, archive, unwelcome, uploads>>
  PROVE  SavedIsSafe' /\ SpoolIds'
<1>1. [of |-> c, media |-> NoMedia] \in Entry /\ c \in Captures
  BY CapturesAssumption DEF Entry, NoMedia
<1>2. /\ spool'[c] = [media |-> NoMedia, due |-> TRUE] /\ spool'[c] # Absent
      /\ \A x \in Captures : x # c => spool'[x] = spool[x]
  <2> DEFINE e == [of |-> c, media |-> NoMedia]
  <2>1. e \in Entry /\ e.of = c /\ e.media = NoMedia /\ PutSpool(e, TRUE)
    BY <1>1 DEF Spooled
  <2> HIDE DEF e
  <2> QED BY <2>1, SpoolWritten DEF CaptureInv
<1>3. saved' = saved \cup {c} /\ files' = files \cup {c}
  BY DEF Spooled, New
<1>4. \A x \in Captures : Safe(x) => Safe(x)'
  BY StaysSafe
<1>5. \A x \in Captures : spool[x] # Absent => spool'[x] # Absent
  BY <1>2
<1>6. ASSUME NEW x \in saved PROVE (Safe(x) \/ (x \in Files /\ spool[x] # Absent /\ x \in files))'
  <2>1. x \in Captures
    BY DEF CaptureInv, PhoneTyped
  <2>2. Safe(x) \/ (x \in Files /\ spool[x] # Absent /\ x \in files)
    BY DEF CaptureInv, SavedIsSafe
  <2> QED BY <1>3, <1>4, <1>5, <2>1, <2>2
<1>7. SavedIsSafe'
  BY <1>2, <1>3, <1>6 DEF SavedIsSafe
<1>8. uploads[c] \in Nat /\ NoMedia \in 0 .. uploads[c]
  BY <1>1 DEF CaptureInv, BoxTyped, NoMedia
<1>9. SpoolIds'
  BY <1>2, <1>8 DEF CaptureInv, SpoolIds
<1> QED BY <1>7, <1>9

\* A backoff that ends takes no row away, in the spool or in the queue.
LEMMA SpoolBackoffIsSafe ==
  ASSUME CaptureInv, NEW c \in Captures, SpoolBackoffEnds(c)
  PROVE  PhoneTyped' /\ SavedIsSafe'
<1>1. /\ spool' \in [Captures -> Stored \cup {Absent}] /\ spool'[c] # Absent
  BY RowWaits DEF CaptureInv, PhoneTyped, SpoolBackoffEnds
<1>2. \A x \in Captures : spool[x] # Absent => spool'[x] # Absent
  BY <1>1 DEF CaptureInv, PhoneTyped, SpoolBackoffEnds
<1>3. UNCHANGED <<saved, files, queue, archive, unwelcome>>
  BY DEF SpoolBackoffEnds, box, history
<1>4. PhoneTyped'
  BY <1>1, <1>3 DEF CaptureInv, PhoneTyped
<1>5. \A x \in Captures : Safe(x) => Safe(x)'
  BY <1>3, StaysSafe
<1> QED BY <1>2, <1>3, <1>4, <1>5, StillSaved

LEMMA QueueBackoffIsSafe ==
  ASSUME CaptureInv, NEW c \in Captures, QueueBackoffEnds(c)
  PROVE  PhoneTyped' /\ InHandIsSafe' /\ SavedIsSafe' /\ SealedIsQueued'
<1>1. /\ queue' \in [Captures -> Stored \cup {Absent}] /\ queue'[c] # Absent
  BY RowWaits DEF CaptureInv, PhoneTyped, QueueBackoffEnds
<1>2. \A x \in Captures : queue[x] # Absent => queue'[x] # Absent
  BY <1>1 DEF CaptureInv, PhoneTyped, QueueBackoffEnds
<1>3. UNCHANGED <<saved, files, spool, archive, unwelcome, drain, sealed>>
  BY DEF QueueBackoffEnds, box, history, keys
<1>4. PhoneTyped'
  BY <1>1, <1>3 DEF CaptureInv, PhoneTyped
<1>5. \A x \in Captures : Safe(x) => Safe(x)'
  BY <1>2, <1>3, StaysSafe
<1>6. SavedIsSafe'
  BY <1>3, <1>5, StillSaved
<1>7. SealedIsQueued'
  BY <1>2, <1>3 DEF CaptureInv, SealedIsQueued
<1>8. InHandIsSafe'
  BY <1>3, <1>5, InHandStays
<1> QED BY <1>4, <1>6, <1>7, <1>8

\* A recording is saved as any file is, and its drain is about to list.
LEMMA RecordingIsSaved ==
  ASSUME CaptureInv, NEW c \in Captures, NEW d \in Drains, KeepRecording(c, d)
  PROVE  DrainsTyped' /\ SpoolIds' /\ SavedIsSafe'
<1>1. SavedIsSafe' /\ SpoolIds'
  BY SpooledIsSaved, CapturesAssumption DEF KeepRecording, box, history
<1>2. [Asleep EXCEPT !.stage = "listing", !.keeps = TRUE] \in Drain
  BY DrainBegins
<1>3. DrainsTyped'
  BY <1>2 DEF CaptureInv, DrainsTyped, KeepRecording
<1> QED BY <1>1, <1>3

\* A drain that is set is as it was set, and every other as it was.
LEMMA DrainSet ==
  ASSUME DrainsTyped, NEW d \in Drains, NEW y \in Drain, drain' = [drain EXCEPT ![d] = y]
  PROVE  /\ DrainsTyped' /\ drain'[d] = y
         /\ \A x \in Drains : x # d => drain'[x] = drain[x]
BY DEF DrainsTyped

\* A snapshot is of entries.
LEMMA ListsEntries ==
  ASSUME CaptureInv, NEW d \in Drains, StartDrain(d)
  PROVE  /\ DrainsTyped' /\ drain'[d].stage = "spool" /\ drain'[d].todo = Due(spool)
         /\ \A x \in Drains : x # d => drain'[x] = drain[x]
<1>1. Due(spool) \in SUBSET Entry
  BY DueIsEntries DEF CaptureInv, PhoneTyped
<1>2. drain[d] \in Drain
  BY DEF CaptureInv, DrainsTyped
<1> DEFINE y == [stage |-> "spool", todo |-> Due(spool), on |-> drain[d].on, keeps |-> drain[d].keeps]
<1>3. [drain[d] EXCEPT !.stage = "spool", !.todo = Due(spool)] = y
  BY <1>2, DrainMoves
<1>4. y \in Drain
  BY <1>1, <1>2 DEF Drain, Stages
<1>5. drain' = [drain EXCEPT ![d] = y]
  BY <1>3 DEF StartDrain
<1>6. y.stage = "spool" /\ y.todo = Due(spool)
  OBVIOUS
<1> HIDE DEF y
<1> QED BY <1>4, <1>5, <1>6, DrainSet DEF CaptureInv

\* The entry that is taken is in hand, and no longer on the list.
LEMMA TakesAnEntry ==
  ASSUME CaptureInv, NEW d \in Drains, NEW entry \in drain[d].todo, NEW stage \in Stages,
         Takes(d, entry, stage)
  PROVE  /\ DrainsTyped' /\ entry \in Entry
         /\ drain'[d].stage = stage /\ drain'[d].on = entry /\ drain'[d].todo = drain[d].todo \ {entry}
         /\ \A x \in Drains : x # d => drain'[x] = drain[x]
<1>1. drain[d] \in Drain
  BY DEF CaptureInv, DrainsTyped
<1>2. entry \in Entry
  BY <1>1 DEF Drain
<1> DEFINE y == [stage |-> stage, todo |-> drain[d].todo \ {entry}, on |-> entry, keeps |-> drain[d].keeps]
<1>3. y \in Drain
  BY <1>1, <1>2 DEF Drain
<1>4. y.stage = stage /\ y.on = entry /\ y.todo = drain[d].todo \ {entry}
  OBVIOUS
<1>5. drain' = [drain EXCEPT ![d] = y]
  BY DEF Takes
<1> HIDE DEF y
<1> QED BY <1>2, <1>3, <1>4, <1>5, DrainSet DEF CaptureInv

\* A drain that goes on has nothing in hand, and its list still.
LEMMA GoesOnward ==
  ASSUME CaptureInv, NEW d \in Drains, NEW stage \in Stages, Onward(d, stage)
  PROVE  /\ DrainsTyped'
         /\ drain'[d].stage = stage /\ drain'[d].todo = drain[d].todo
         /\ \A x \in Drains : x # d => drain'[x] = drain[x]
<1>1. drain[d] \in Drain
  BY DEF CaptureInv, DrainsTyped
<1> DEFINE y == [stage |-> stage, todo |-> drain[d].todo, on |-> Absent, keeps |-> drain[d].keeps]
<1>2. [drain[d] EXCEPT !.stage = stage, !.on = Absent] = y
  BY <1>1, DrainTakes
<1>3. y \in Drain
  BY <1>1 DEF Drain
<1>4. y.stage = stage /\ y.todo = drain[d].todo
  OBVIOUS
<1>5. drain' = [drain EXCEPT ![d] = y]
  BY <1>2 DEF Onward
<1> HIDE DEF y
<1> QED BY <1>3, <1>4, <1>5, DrainSet DEF CaptureInv

\* One whose upload failed has nothing in hand and nothing left.
LEMMA FailsUpward ==
  ASSUME CaptureInv, NEW d \in Drains, UploadFails(d)
  PROVE  /\ DrainsTyped' /\ drain'[d].stage = "spool" /\ drain'[d].todo = {}
         /\ \A x \in Drains : x # d => drain'[x] = drain[x]
<1>1. drain[d].keeps \in BOOLEAN
  BY DEF CaptureInv, DrainsTyped, Drain
<1> DEFINE y == [stage |-> "spool", todo |-> {}, on |-> Absent, keeps |-> drain[d].keeps]
<1>2. [Asleep EXCEPT !.stage = "spool", !.keeps = drain[d].keeps] = y
  BY DrainFails
<1>3. y \in Drain
  BY <1>1 DEF Drain, Stages
<1>4. y.stage = "spool" /\ y.todo = {}
  OBVIOUS
<1>5. drain' = [drain EXCEPT ![d] = y]
  BY <1>2 DEF UploadFails
<1> HIDE DEF y
<1> QED BY <1>3, <1>4, <1>5, DrainSet DEF CaptureInv

LEMMA GoesOnToTheQueue ==
  ASSUME CaptureInv, NEW d \in Drains, OutboxDone(d)
  PROVE  DrainsTyped'
<1>1. DueToSend \in SUBSET Entry
  BY DueIsEntries DEF CaptureInv, PhoneTyped, DueToSend
<1>2. [Asleep EXCEPT !.stage = "queue", !.todo = DueToSend]
        = [stage |-> "queue", todo |-> DueToSend, on |-> Absent, keeps |-> FALSE]
  BY <1>1, DrainGoesOn
<1>3. [stage |-> "queue", todo |-> DueToSend, on |-> Absent, keeps |-> FALSE] \in Drain
  BY <1>1 DEF Drain, Stages
<1>4. Asleep \in Drain
  BY DEF Asleep, Drain, Stages
<1>5. PICK x \in Drain : drain' = [drain EXCEPT ![d] = x]
  BY <1>2, <1>3, <1>4 DEF OutboxDone
<1> QED BY <1>5 DEF CaptureInv, DrainsTyped

\* An upload leaves the drain with the same entry, under its new media id.
LEMMA TakesTheMediaId ==
  ASSUME CaptureInv, NEW d \in Drains, UploadSucceeds(d)
  PROVE  /\ DrainsTyped' /\ drain'[d].stage = "uploaded" /\ drain'[d].todo = drain[d].todo
         /\ drain'[d].on.of = drain[d].on.of /\ drain'[d].on.media = uploads'[drain[d].on.of]
         /\ drain'[d].on \in Entry /\ drain[d].on \in Entry /\ drain[d].on.of \in Captures
         /\ \A x \in Drains : x # d => drain'[x] = drain[x]
<1>1. drain[d].on \in Entry /\ drain[d] \in Drain
  BY DEF CaptureInv, HandsFull, DrainsTyped, UploadSucceeds, Uploading
<1> DEFINE c == drain[d].on.of
           e == [of |-> c, media |-> uploads'[c]]
           y == [stage |-> "uploaded", todo |-> drain[d].todo, on |-> e, keeps |-> drain[d].keeps]
<1>2. c \in Captures
  BY <1>1 DEF Entry
<1>3. uploads'[c] \in Nat
  BY <1>2 DEF CaptureInv, BoxTyped, UploadSucceeds, BytesStored, InHand
<1>4. e \in Entry
  BY <1>2, <1>3 DEF Entry
<1>5. [drain[d].on EXCEPT !.media = uploads'[c]] = e
  BY <1>1, EntryTakes
<1>6. e.of = c /\ e.media = uploads'[c]
  OBVIOUS
<1> HIDE DEF e
<1>7. drain' = [drain EXCEPT ![d] = [drain[d] EXCEPT !.stage = "uploaded", !.on = e]]
  BY <1>5 DEF UploadSucceeds, InHand
<1> HIDE DEF c
<1>8. [drain[d] EXCEPT !.stage = "uploaded", !.on = e] = y
  BY <1>1, DrainTakes
<1>9. y \in Drain
  BY <1>1, <1>4 DEF Drain, Stages
<1>10. y.stage = "uploaded" /\ y.todo = drain[d].todo /\ y.on = e
  OBVIOUS
<1> HIDE DEF y
<1>11. drain' = [drain EXCEPT ![d] = y]
  BY <1>7, <1>8
<1>12. /\ DrainsTyped' /\ drain'[d] = y
       /\ \A x \in Drains : x # d => drain'[x] = drain[x]
  BY <1>9, <1>11, DrainSet DEF CaptureInv
<1> QED BY <1>1, <1>2, <1>4, <1>6, <1>10, <1>12 DEF c

\* A row that takes its media id, or is put back, is in the spool.
LEMMA RowStays ==
  ASSUME CaptureInv, NEW e \in Entry, NEW due \in BOOLEAN, PutSpool(e, due),
         UNCHANGED <<saved, files, queue, archive, unwelcome>>
  PROVE  SavedIsSafe'
<1>1. \A c \in Captures : spool[c] # Absent => spool'[c] # Absent
  BY SpoolWritten DEF CaptureInv
<1>2. \A c \in Captures : Safe(c) => Safe(c)'
  BY StaysSafe
<1> QED BY <1>1, <1>2, StillSaved

LEMMA UploadedIsSafe ==
  ASSUME CaptureInv, NEW d \in Drains, UploadSucceeds(d)
  PROVE  SavedIsSafe'
<1> DEFINE e == [of |-> drain[d].on.of, media |-> uploads'[drain[d].on.of]]
<1>1. drain[d].on.of \in Captures
  BY TakesTheMediaId
<1>2. uploads'[drain[d].on.of] \in Nat
  BY <1>1 DEF CaptureInv, BoxTyped, UploadSucceeds, BytesStored, InHand
<1>3. e \in Entry
  BY <1>1, <1>2 DEF Entry
<1>4. PutSpool(e, TRUE) /\ UNCHANGED <<saved, files, queue, archive, unwelcome>>
  BY DEF UploadSucceeds, InHand, history
<1> HIDE DEF e
<1> QED BY <1>3, <1>4, RowStays

LEMMA PutBackIsSpooled ==
  ASSUME CaptureInv, NEW d \in Drains, UploadFails(d)
  PROVE  SavedIsSafe'
<1>1. drain[d].on \in Entry
  BY DEF CaptureInv, HandsFull, UploadFails, Uploading
<1>2. PutSpool(drain[d].on, FALSE) /\ UNCHANGED <<saved, files, queue, archive, unwelcome>>
  BY DEF UploadFails, InHand, history
<1> QED BY <1>1, <1>2, RowStays

\* Bytes that were stored with no answer give out one id more.
LEMMA QueueKeepsItsIds ==
  ASSUME CaptureInv, NEW d \in Drains, UploadFails(d)
  PROVE  QueueIds'
<1>1. \A c \in Captures : uploads[c] \in Nat /\ uploads'[c] \in Nat /\ uploads'[c] >= uploads[c]
  BY DEF CaptureInv, BoxTyped, UploadFails, BytesStored
<1>2. queue' = queue
  BY DEF UploadFails
<1>3. \A c \in Files : c \in Captures
  BY CapturesAssumption
<1>4. ASSUME NEW c \in Files, queue[c] # Absent PROVE queue[c].media \in 1 .. uploads'[c]
  <2>1. queue[c].media \in 1 .. uploads[c]
    BY <1>4 DEF CaptureInv, QueueIds
  <2> QED BY <1>1, <1>3, <2>1
<1> QED BY <1>2, <1>4 DEF QueueIds

\* The entry a drain queues is in the queue when its row is removed.
LEMMA FollowOnIsSafe ==
  ASSUME CaptureInv, NEW d \in Drains, QueueFollowOn(d)
  PROVE  SavedIsSafe' /\ InHandIsSafe' /\ SealedIsQueued'
<1>1. drain[d].on \in Entry /\ drain[d].on.of \in Captures
  BY DEF CaptureInv, HandsFull, QueueFollowOn, Entry
<1>2. PhoneTyped /\ PutQueue(drain[d].on, TRUE) /\ UNCHANGED <<saved, files, spool, archive, unwelcome, sealed>>
  BY DEF CaptureInv, QueueFollowOn, InHand, box, history, keys
<1>3. \A x \in Captures : queue[x] # Absent \/ x = drain[d].on.of => queue'[x] # Absent
  BY <1>1, <1>2, QueueWritten
<1>4. \A x \in Captures : Safe(x) => Safe(x)'
  BY <1>2, <1>3, StaysSafe
<1>5. SavedIsSafe'
  BY <1>2, <1>4, StillSaved
<1>6. SealedIsQueued'
  BY <1>2, <1>3 DEF CaptureInv, SealedIsQueued
<1>7. /\ drain'[d].stage = "queued" /\ drain'[d].on = drain[d].on
      /\ \A x \in Drains : x # d => drain'[x] = drain[x]
  BY DEF CaptureInv, DrainsTyped, Drain, QueueFollowOn, Goes
<1>8. ASSUME NEW x \in Drains, drain'[x].stage \in {"queued", "removed"} PROVE Safe(drain[x].on.of)'
  <2>1. CASE x = d
    BY <1>1, <1>3, <1>7, <2>1 DEF Safe
  <2>2. CASE x # d
    <3>1. drain'[x] = drain[x] /\ Safe(drain[x].on.of)
      BY <1>7, <1>8, <2>2 DEF CaptureInv, InHandIsSafe
    <3>2. drain[x].on \in Entry /\ drain[x].on.of \in Captures
      BY <1>8, <3>1 DEF CaptureInv, HandsFull, Entry
    <3> QED BY <1>4, <3>1, <3>2 DEF Safe, OutOfQueue, Kept
  <2> QED BY <2>1, <2>2
<1>9. InHandIsSafe'
  BY <1>8 DEF InHandIsSafe, Safe, OutOfQueue, Kept
<1> QED BY <1>5, <1>6, <1>9

\* A request that moves on is the same request.
LEMMA RequestMoves ==
  ASSUME NEW q \in Request, NEW s, NEW x, x = [q EXCEPT !.stage = s]
  PROVE  x = [of |-> q.of, media |-> q.media, from |-> q.from, stage |-> s]
BY DEF Request

LEMMA RequestIsLeft ==
  ASSUME NEW q \in Request, NEW x, x = [q EXCEPT !.from = Nobody]
  PROVE  x = [of |-> q.of, media |-> q.media, from |-> Nobody, stage |-> q.stage]
BY DEF Request

\* What Moves leaves of the requests.
LEMMA MovesTo ==
  ASSUME ServerTyped, NEW r \in Requests, server[r] # Absent,
         NEW s \in {"arrived", "performing", "performed", "kept", "refused", "dead"}, Moves(r, s)
  PROVE  /\ server'[r] = [of |-> server[r].of, media |-> server[r].media, from |-> server[r].from, stage |-> s]
         /\ server'[r] # Absent
         /\ \A q \in Requests : q # r => server'[q] = server[q]
<1>1. server[r] \in Request
  BY DEF ServerTyped
<1> DEFINE y == [of |-> server[r].of, media |-> server[r].media, from |-> server[r].from, stage |-> s]
<1>2. [server[r] EXCEPT !.stage = s] = y
  BY <1>1, RequestMoves
<1>3. y \in Request
  BY <1>1 DEF Request
<1>4. server' = [server EXCEPT ![r] = y]
  BY <1>2 DEF Moves
<1> HIDE DEF y
<1>5. server'[r] = y /\ \A q \in Requests : q # r => server'[q] = server[q]
  BY <1>4 DEF ServerTyped
<1> QED BY <1>3, <1>5, RequestAssumption DEF y

\* A capture that is put back is in the queue; who had performed it is on the server still.
LEMMA PutBackIsSafe ==
  ASSUME CaptureInv, NEW d \in Drains, SendFails(d)
  PROVE  SavedIsSafe' /\ InHandIsSafe' /\ SealedIsQueued' /\ KeptIsKnown'
<1>1. drain[d].stage = "sending"
  BY DEF SendFails, Awaits
<1>2. drain[d].on \in Entry /\ drain[d].on.of \in Captures
  BY <1>1 DEF CaptureInv, HandsFull, Entry
<1>3. /\ PhoneTyped /\ PutQueue(drain[d].on, FALSE)
      /\ UNCHANGED <<saved, files, spool, archive, ledger, unwelcome, raced, sealed>>
  BY DEF CaptureInv, SendFails, InHand, box, history, keys
<1>4. \A x \in Captures : queue[x] # Absent \/ x = drain[d].on.of => queue'[x] # Absent
  BY <1>2, <1>3, QueueWritten
<1>5. \A x \in Captures : Safe(x) => Safe(x)'
  BY <1>3, <1>4, StaysSafe
<1>6. SavedIsSafe'
  BY <1>3, <1>5, StillSaved
<1>7. SealedIsQueued'
  BY <1>3, <1>4 DEF CaptureInv, SealedIsQueued
<1>8. ASSUME NEW x \in Drains, drain'[x].stage \in {"queued", "removed"} PROVE Safe(drain[x].on.of)'
  <2>1. x # d /\ drain'[x] = drain[x]
    BY <1>8 DEF CaptureInv, DrainsTyped, SendFails, Asleep
  <2>2. Safe(drain[x].on.of)
    BY <1>8, <2>1 DEF CaptureInv, InHandIsSafe
  <2>3. drain[x].on \in Entry /\ drain[x].on.of \in Captures
    BY <1>8, <2>1 DEF CaptureInv, HandsFull, Entry
  <2> QED BY <1>5, <2>1, <2>2, <2>3 DEF Safe, OutOfQueue, Kept
<1>9. InHandIsSafe'
  BY <1>8 DEF InHandIsSafe, Safe, OutOfQueue, Kept
<1>10. PICK r \in Requests :
         /\ server[r] # Absent
         /\ \/ server[r].stage # "performed" /\ server' = [server EXCEPT ![r] = Absent]
            \/ server' = [server EXCEPT ![r].from = Nobody]
  BY DEF SendFails, Awaits
<1>11. ASSUME NEW q \in Requests, server[q] # Absent, server[q].stage = "performed"
       PROVE  server'[q] # Absent /\ server'[q].of = server[q].of /\ server'[q].stage = "performed"
  <2>1. server[r] \in Request
    BY <1>10 DEF CaptureInv, ServerTyped
  <2> DEFINE y == [of |-> server[r].of, media |-> server[r].media, from |-> Nobody, stage |-> server[r].stage]
  <2>2. [server[r] EXCEPT !.from = Nobody] = y
    BY <2>1, RequestIsLeft
  <2>3. y \in Request /\ y.of = server[r].of /\ y.stage = server[r].stage
    BY <2>1 DEF Request
  <2>4. \/ server[r].stage # "performed" /\ server' = [server EXCEPT ![r] = Absent]
        \/ server' = [server EXCEPT ![r] = y]
    BY <1>10, <2>2
  <2> HIDE DEF y
  <2>5. CASE q = r
    BY <1>11, <2>3, <2>4, <2>5, RequestAssumption DEF CaptureInv, ServerTyped
  <2>6. CASE q # r
    <3>1. server'[q] = server[q]
      BY <2>4, <2>6 DEF CaptureInv, ServerTyped
    <3> QED BY <1>11, <3>1
  <2> QED BY <2>5, <2>6
<1>12. KeptIsKnown'
  BY <1>3, <1>11, PerformedStay
<1> QED BY <1>6, <1>7, <1>9, <1>12

\* A kill leaves every request that performed at work.
LEMMA KilledIsKnown ==
  ASSUME CaptureInv, AppKilled
  PROVE  KeptIsKnown'
<1>1. UNCHANGED <<archive, ledger, raced>>
  BY DEF AppKilled, box, history
<1>2. ASSUME NEW q \in Requests, server[q] # Absent, server[q].stage = "performed"
      PROVE  server'[q] # Absent /\ server'[q].of = server[q].of /\ server'[q].stage = "performed"
  <2>1. server[q] \in Request
    BY <1>2 DEF CaptureInv, ServerTyped
  <2> DEFINE y == [of |-> server[q].of, media |-> server[q].media, from |-> Nobody, stage |-> server[q].stage]
  <2>2. [server[q] EXCEPT !.from = Nobody] = y
    BY <2>1, RequestIsLeft
  <2>3. y \in Request /\ y.of = server[q].of /\ y.stage = server[q].stage
    BY <2>1 DEF Request
  <2>4. server'[q] = y
    BY <1>2, <2>2 DEF AppKilled
  <2> QED BY <1>2, <2>3, <2>4, RequestAssumption
<1> QED BY <1>1, <1>2, PerformedStay

LEMMA RevokedTyped ==
  ASSUME CaptureInv, TokenRevoked
  PROVE  OthersTyped'
<1>1. faults' \in 0 .. MaxFaults
  BY CapturesAssumption DEF CaptureInv, OthersTyped, TokenRevoked, Fault
<1>2. paired' \in BOOLEAN
  BY DEF TokenRevoked
<1> QED BY <1>1, <1>2 DEF CaptureInv, OthersTyped, TokenRevoked, history

\* What Perform does: the request moves on, and the archive takes one record or none.
LEMMA PerformMeans ==
  ASSUME CaptureInv, NEW r \in Requests, Perform(r)
  PROVE  /\ server[r] # Absent /\ server[r] \in Request /\ server[r].stage = "performing"
         /\ server'[r] # Absent /\ server'[r].of = server[r].of
         /\ \A q \in Requests : q # r => server'[q] = server[q]
         /\ UNCHANGED <<saved, files, spool, queue, drain, uploads, ledger, raced, unwelcome>>
         /\ \/ server'[r].stage = "refused" /\ server[r].of \in Unacceptable /\ archive' = archive
            \/ /\ server'[r].stage = "performed"
               /\ archive' = archive \cup {Made(server[r].of, server[r].media)}
<1>1. server[r] # Absent /\ server[r] \in Request /\ server[r].stage = "performing" /\ ServerTyped
  BY DEF CaptureInv, ServerTyped, Perform
<1>2. UNCHANGED <<saved, files, spool, queue, drain, uploads, ledger, raced, unwelcome>>
  BY DEF Perform, phone, history
<1>3. CASE server[r].of \in Unacceptable
  <2>1. Moves(r, "refused") /\ archive' = archive
    BY <1>3 DEF Perform
  <2>2. "refused" \in {"arrived", "performing", "performed", "kept", "refused", "dead"}
    OBVIOUS
  <2>3. /\ server'[r] = [of |-> server[r].of, media |-> server[r].media, from |-> server[r].from, stage |-> "refused"]
        /\ server'[r] # Absent /\ \A q \in Requests : q # r => server'[q] = server[q]
    BY <1>1, <2>1, <2>2, MovesTo
  <2> QED BY <1>1, <1>2, <1>3, <2>1, <2>3
<1>4. CASE server[r].of \notin Unacceptable
  <2>1. Moves(r, "performed") /\ archive' = archive \cup {Made(server[r].of, server[r].media)}
    BY <1>4 DEF Perform
  <2>2. "performed" \in {"arrived", "performing", "performed", "kept", "refused", "dead"}
    OBVIOUS
  <2>3. /\ server'[r] = [of |-> server[r].of, media |-> server[r].media, from |-> server[r].from, stage |-> "performed"]
        /\ server'[r] # Absent /\ \A q \in Requests : q # r => server'[q] = server[q]
    BY <1>1, <2>1, <2>2, MovesTo
  <2> QED BY <1>1, <1>2, <2>1, <2>3
<1> QED BY <1>3, <1>4

\* A record is of its capture.
LEMMA MadeIs ==
  ASSUME BoxTyped, NEW c \in Captures, NEW media \in Nat
  PROVE  Made(c, media) \in [of : Captures, media : Nat, copy : Nat] /\ Made(c, media).of = c
<1>1. IsFiniteSet({x \in archive : x.of = c})
  BY FS_Subset DEF BoxTyped
<1>2. Cardinality({x \in archive : x.of = c}) \in Nat
  BY <1>1, FS_CardinalityType
<1> QED BY <1>2 DEF Made

\* Nothing that was safe is less so for a capture performed.
LEMMA PerformedIsSafe ==
  ASSUME CaptureInv, NEW r \in Requests, Perform(r)
  PROVE  BoxTyped' /\ LedgerKnows' /\ ServerKnows' /\ InHandIsSafe' /\ SavedIsSafe'
<1> DEFINE c == server[r].of
           m == Made(c, server[r].media)
<1>1. c \in Captures /\ server[r].media \in Nat
  BY PerformMeans DEF Request
<1>2. m \in [of : Captures, media : Nat, copy : Nat] /\ m.of = c
  BY <1>1, MadeIs DEF CaptureInv
<1>3. archive' = archive \/ archive' = archive \cup {m}
  BY PerformMeans
<1>4. server'[r].stage = "performed" => archive' = archive \cup {m}
  BY PerformMeans
<1> HIDE DEF m
<1>5. IsFiniteSet(archive')
  BY <1>3, FS_AddElement DEF CaptureInv, BoxTyped
<1>6. BoxTyped'
  BY <1>2, <1>3, <1>5, PerformMeans DEF CaptureInv, BoxTyped
<1>7. archive \subseteq archive'
  BY <1>3
<1>8. UNCHANGED <<saved, files, spool, queue, drain, ledger, unwelcome>>
  BY PerformMeans
<1>9. \A x \in Captures : Safe(x) => Safe(x)'
  BY <1>7, <1>8, StaysSafe
<1>10. LedgerKnows'
  BY <1>7, <1>8 DEF CaptureInv, LedgerKnows, Kept
<1>11. InHandIsSafe' /\ SavedIsSafe'
  BY <1>8, <1>9, InHandStays, StillSaved
<1>12. ASSUME NEW q \in Requests, server'[q] # Absent
       PROVE  /\ server'[q].stage \in {"kept", "performed"} => \E x \in archive' : x.of = server'[q].of
              /\ server'[q].stage = "refused" =>
                   \/ \E x \in archive' : x.of = server'[q].of
                   \/ server'[q].of \in unwelcome' \cup Unacceptable
  <2>1. CASE q = r
    BY <1>2, <1>4, <2>1, PerformMeans
  <2>2. CASE q # r
    <3>1. server'[q] = server[q]
      BY <2>2, PerformMeans
    <3> QED BY <1>7, <1>8, <1>12, <3>1 DEF CaptureInv, ServerKnows, OutOfQueue, Kept
  <2> QED BY <2>1, <2>2
<1>13. ServerKnows'
  BY <1>12 DEF ServerKnows, OutOfQueue, Kept
<1> QED BY <1>6, <1>10, <1>11, <1>13

\* A capture that was not raced was not kept before it is performed.
LEMMA PerformedOnce ==
  ASSUME CaptureInv, NEW r \in Requests, Perform(r)
  PROVE  KeptIsKnown' /\ NotYetKept' /\ KeptOnce'
<1> DEFINE c == server[r].of
           m == Made(c, server[r].media)
<1>1. c \in Captures /\ server[r].media \in Nat
  BY PerformMeans DEF Request
<1>2. m.of = c
  BY <1>1, MadeIs DEF CaptureInv
<1>3. \/ server'[r].stage = "refused" /\ archive' = archive
      \/ server'[r].stage = "performed" /\ archive' = archive \cup {m}
  BY PerformMeans
<1> HIDE DEF m
<1>4. /\ server[r] # Absent /\ server[r].stage = "performing"
      /\ server'[r] # Absent /\ server'[r].of = c
      /\ \A q \in Requests : q # r => server'[q] = server[q]
      /\ UNCHANGED <<ledger, raced>>
  BY PerformMeans
<1>5. r \in AtWork(c)
  BY <1>4 DEF AtWork
<1>6. c \notin raced => ~ \E x \in archive : x.of = c
  BY <1>1, <1>4, <1>5 DEF CaptureInv, NotYetKept, Kept
<1>7. c \notin raced => \A q \in AtWork(c) : q = r
  BY <1>1, <1>5 DEF CaptureInv, AtWorkAlone
<1> HIDE DEF c
<1>8. ASSUME NEW x \in Captures \ raced', \E y \in archive' : y.of = x, ledger'[x] = Absent
      PROVE  \E q \in Requests : /\ server'[q] # Absent /\ server'[q].of = x
                                 /\ server'[q].stage = "performed"
  <2>1. CASE \E y \in archive : y.of = x
    <3>1. PICK q \in AtWork(x) : server[q].stage = "performed"
      BY <1>4, <1>8, <2>1 DEF CaptureInv, KeptIsKnown, Kept
    <3>2. q # r /\ q \in Requests /\ server[q] # Absent /\ server[q].of = x
      BY <1>4, <3>1 DEF AtWork
    <3> QED BY <1>4, <3>1, <3>2
  <2>2. CASE ~ \E y \in archive : y.of = x
    <3>1. x = c /\ server'[r].stage = "performed"
      BY <1>2, <1>3, <1>8, <2>2
    <3> QED BY <1>4, <3>1
  <2> QED BY <2>1, <2>2
<1>9. KeptIsKnown'
  BY <1>8 DEF KeptIsKnown, AtWork, Kept
<1>10. ASSUME NEW x \in Captures \ raced', NEW q \in Requests, server'[q] # Absent, server'[q].of = x,
              server'[q].stage = "performing", NEW y \in archive', y.of = x
       PROVE  FALSE
  <2>1. q # r
    BY <1>3, <1>10
  <2>2. q \in AtWork(x) /\ server[q].stage = "performing"
    BY <1>4, <1>10, <2>1 DEF AtWork
  <2>3. x # c
    BY <1>4, <1>7, <1>10, <2>1, <2>2
  <2>4. y \in archive
    BY <1>2, <1>3, <1>10, <2>3
  <2> QED BY <1>4, <1>10, <2>2, <2>4 DEF CaptureInv, NotYetKept, Kept
<1>11. NotYetKept'
  BY <1>10 DEF NotYetKept, AtWork, Kept
<1>12. ASSUME NEW x \in Captures \ raced', NEW a \in archive', NEW b \in archive', a.of = x, b.of = x
       PROVE  a = b
  <2>1. CASE a \in archive /\ b \in archive
    BY <1>4, <1>12, <2>1 DEF CaptureInv, KeptOnce
  <2>2. CASE a \notin archive \/ b \notin archive
    <3>1. x = c
      BY <1>2, <1>3, <1>12, <2>2
    <3> QED BY <1>3, <1>4, <1>6, <1>12, <2>2, <3>1
  <2> QED BY <2>1, <2>2
<1>13. KeptOnce'
  BY <1>12 DEF KeptOnce
<1> QED BY <1>9, <1>11, <1>13

\* The request that answers is the one this drain waits for: its capture was kept or turned away.
LEMMA AnsweredIsSafe ==
  ASSUME CaptureInv, NEW d \in Drains, Answered(d)
  PROVE  SavedIsSafe' /\ InHandIsSafe'
<1> DEFINE c == drain[d].on.of
<1>1. PICK r \in Requests :
        /\ drain[d].stage = "sending" /\ server[r] # Absent /\ server[r].from = d
        /\ server[r].stage \in {"kept", "refused"}
  BY DEF Answered, Awaits
<1>2. c \in Captures /\ c = server[r].of
  BY <1>1, CapturesAssumption DEF CaptureInv, HandsFull, Entry, Waits
<1>3. OutOfQueue(c)
  BY <1>1, <1>2 DEF CaptureInv, ServerKnows, OutOfQueue
<1>4. queue' = Without(queue, c) /\ UNCHANGED <<saved, files, spool, archive, unwelcome>>
  BY DEF Answered, InHand, box, history
<1> HIDE DEF c
<1>5. ASSUME NEW x \in Captures, Safe(x) PROVE Safe(x)'
  <2>1. CASE x = c
    BY <1>3, <1>4, <2>1 DEF Safe, OutOfQueue, Kept
  <2>2. CASE x # c
    <3>1. queue'[x] = queue[x]
      BY <1>4, <2>2 DEF CaptureInv, PhoneTyped, Without
    <3> QED BY <1>4, <1>5, <3>1 DEF Safe, OutOfQueue, Kept
  <2> QED BY <2>1, <2>2
<1>6. SavedIsSafe'
  BY <1>4, <1>5, StillSaved
<1>7. drain'[d].stage = "queue" /\ \A x \in Drains : x # d => drain'[x] = drain[x]
  BY DEF CaptureInv, DrainsTyped, Drain, Answered, Onward
<1>8. ASSUME NEW x \in Drains, drain'[x].stage \in {"queued", "removed"} PROVE Safe(drain[x].on.of)'
  <2>1. x # d /\ drain'[x] = drain[x]
    BY <1>7, <1>8
  <2>2. Safe(drain[x].on.of)
    BY <1>8, <2>1 DEF CaptureInv, InHandIsSafe
  <2>3. drain[x].on \in Entry /\ drain[x].on.of \in Captures
    BY <1>8, <2>1 DEF CaptureInv, HandsFull, Entry
  <2> QED BY <1>5, <2>1, <2>2, <2>3 DEF Safe, OutOfQueue, Kept
<1>9. InHandIsSafe'
  BY <1>8 DEF InHandIsSafe, Safe, OutOfQueue, Kept
<1> QED BY <1>6, <1>9

\* What a request remembers, the ledger knows from then on.
LEMMA RememberedIsKnown ==
  ASSUME CaptureInv, NEW r \in Requests, Remember(r)
  PROVE  KeptIsKnown'
<1> DEFINE c == server[r].of
<1>1. server[r] # Absent /\ server[r] \in Request /\ ServerTyped
  BY DEF CaptureInv, ServerTyped, Remember
<1>2. c \in Captures /\ server[r].media \in Nat
  BY <1>1 DEF Request
<1>3. ledger' = [ledger EXCEPT ![c] = IF @ = Absent THEN server[r].media ELSE @] /\ UNCHANGED <<archive, raced>>
  BY DEF Remember, history
<1>4. Moves(r, "kept")
  BY DEF Remember
<1>5. \A q \in Requests : q # r => server'[q] = server[q]
  BY <1>4 DEF CaptureInv, ServerTyped, Moves
<1> HIDE DEF c
<1>6. ledger'[c] # Absent /\ \A x \in Captures : x # c => ledger'[x] = ledger[x]
  BY <1>2, <1>3, AbsentAssumption DEF CaptureInv, BoxTyped
<1>7. ASSUME NEW x \in Captures \ raced, \E y \in archive : y.of = x, ledger'[x] = Absent
      PROVE  \E q \in Requests : /\ server'[q] # Absent /\ server'[q].of = x
                                 /\ server'[q].stage = "performed"
  <2>1. x # c /\ ledger[x] = Absent
    BY <1>6, <1>7
  <2>2. PICK q \in AtWork(x) : server[q].stage = "performed"
    BY <1>7, <2>1 DEF CaptureInv, KeptIsKnown, Kept
  <2>3. q # r /\ q \in Requests /\ server[q] # Absent /\ server[q].of = x
    BY <2>1, <2>2 DEF AtWork, c
  <2> QED BY <1>5, <2>2, <2>3
<1> QED BY <1>3, <1>7 DEF KeptIsKnown, AtWork, Kept

\* A photograph is spooled.
LEMMA ShareIsSaved ==
  ASSUME CaptureInv, NEW c \in Captures, SpoolShare(c)
  PROVE  SpoolIds' /\ SavedIsSafe'
BY SpooledIsSaved DEF SpoolShare, box, history

---------------------------------------------------------------------------
(* The invariant holds, one lemma per action.                              *)

\* A note is saved in the queue.
LEMMA EnqueueCaptureKeeps ==
  ASSUME CaptureInv, NEW c \in Captures, EnqueueCapture(c)
  PROVE  CaptureInv'
<1>1. SavedIsSafe' /\ SealedIsQueued'
  BY EnqueuedIsSafe
<1> USE DEF CaptureInv, EnqueueCapture, New, PutQueue, NoMedia, keys, box, history
<1>2. PhoneTyped' /\ DrainsTyped' /\ BoxTyped' /\ ServerTyped' /\ OthersTyped'
  BY DEF PhoneTyped, Stored, DrainsTyped, Drain, Stages, Entry, BoxTyped, ServerTyped, Request,
         OthersTyped
<1>3. HandsFull' /\ BytesAreTaken' /\ SpoolIds' /\ QueueIds' /\ TodoIds' /\ HandIds'
  BY DEF HandsFull, Entry, BytesAreTaken, SpoolIds, QueueIds, TodoIds, FileEntry, NoteEntry,
         HandIds
<1>4. LedgerKnows' /\ ServerKnows' /\ Waits' /\ FilesStay' /\ AtWorkAlone' /\ KeptIsKnown'
  BY DEF LedgerKnows, Kept, ServerKnows, OutOfQueue, Waits, FilesStay, AtWorkAlone, AtWork,
         KeptIsKnown
<1>5. NotYetKept' /\ KeptOnce'
  BY DEF NotYetKept, AtWork, Kept, KeptOnce
<1>6. InHandIsSafe'
  BY DEF InHandIsSafe, Safe, OutOfQueue, Kept, HandIds, FileEntry, NoteEntry
<1> QED BY <1>1, <1>2, <1>3, <1>4, <1>5, <1>6 DEF CaptureInv

\* A photograph is saved in the spool, with its file.
LEMMA SpoolShareKeeps ==
  ASSUME CaptureInv, NEW c \in Captures, SpoolShare(c)
  PROVE  CaptureInv'
<1>1. SpoolIds' /\ SavedIsSafe'
  BY ShareIsSaved
<1> USE DEF CaptureInv, SpoolShare, Spooled, keys, box, history, New, PutSpool, NoMedia
<1>2. PhoneTyped' /\ DrainsTyped' /\ BoxTyped' /\ ServerTyped' /\ OthersTyped'
  BY DEF PhoneTyped, Stored, DrainsTyped, Drain, Stages, Entry, BoxTyped, ServerTyped, Request,
         OthersTyped
<1>3. HandsFull' /\ BytesAreTaken' /\ QueueIds' /\ TodoIds' /\ HandIds' /\ LedgerKnows'
  BY DEF HandsFull, Entry, BytesAreTaken, QueueIds, TodoIds, FileEntry, NoteEntry, HandIds,
         LedgerKnows, Kept
<1>4. ServerKnows' /\ Waits' /\ InHandIsSafe' /\ SealedIsQueued' /\ FilesStay' /\ AtWorkAlone'
  BY DEF ServerKnows, Kept, OutOfQueue, Waits, InHandIsSafe, Safe, SealedIsQueued, FilesStay,
         AtWorkAlone, AtWork
<1>5. KeptIsKnown' /\ NotYetKept' /\ KeptOnce'
  BY DEF KeptIsKnown, Kept, AtWork, NotYetKept, KeptOnce
<1> QED BY <1>1, <1>2, <1>3, <1>4, <1>5 DEF CaptureInv

\* A row is due, and stays.
LEMMA SpoolBackoffEndsKeeps ==
  ASSUME CaptureInv, NEW c \in Captures, SpoolBackoffEnds(c)
  PROVE  CaptureInv'
<1>1. PhoneTyped' /\ SavedIsSafe'
  BY SpoolBackoffIsSafe
<1> USE DEF CaptureInv, SpoolBackoffEnds, keys, box, history
<1>2. DrainsTyped' /\ BoxTyped' /\ ServerTyped' /\ OthersTyped'
  BY DEF DrainsTyped, Drain, Stages, Entry, BoxTyped, ServerTyped, Request, OthersTyped
<1>3. HandsFull' /\ BytesAreTaken' /\ SpoolIds' /\ QueueIds' /\ TodoIds' /\ HandIds'
  BY DEF HandsFull, Entry, BytesAreTaken, SpoolIds, QueueIds, TodoIds, FileEntry, NoteEntry,
         HandIds
<1>4. LedgerKnows' /\ ServerKnows' /\ Waits' /\ InHandIsSafe' /\ SealedIsQueued' /\ FilesStay'
  BY DEF LedgerKnows, Kept, ServerKnows, OutOfQueue, Waits, InHandIsSafe, Safe, SealedIsQueued,
         FilesStay
<1>5. AtWorkAlone' /\ KeptIsKnown' /\ NotYetKept' /\ KeptOnce'
  BY DEF AtWorkAlone, AtWork, KeptIsKnown, Kept, NotYetKept, KeptOnce
<1> QED BY <1>1, <1>2, <1>3, <1>4, <1>5 DEF CaptureInv

\* A row is due, and stays.
LEMMA QueueBackoffEndsKeeps ==
  ASSUME CaptureInv, NEW c \in Captures, QueueBackoffEnds(c)
  PROVE  CaptureInv'
<1>1. PhoneTyped' /\ InHandIsSafe' /\ SavedIsSafe' /\ SealedIsQueued'
  BY QueueBackoffIsSafe
<1> USE DEF CaptureInv, QueueBackoffEnds, keys, box, history
<1>2. DrainsTyped' /\ BoxTyped' /\ ServerTyped' /\ OthersTyped'
  BY DEF DrainsTyped, Drain, Stages, Entry, BoxTyped, ServerTyped, Request, OthersTyped
<1>3. HandsFull' /\ BytesAreTaken' /\ SpoolIds' /\ QueueIds' /\ TodoIds' /\ HandIds'
  BY DEF HandsFull, Entry, BytesAreTaken, SpoolIds, QueueIds, TodoIds, FileEntry, NoteEntry,
         HandIds
<1>4. LedgerKnows' /\ ServerKnows' /\ Waits' /\ FilesStay' /\ AtWorkAlone' /\ KeptIsKnown'
  BY DEF LedgerKnows, Kept, ServerKnows, OutOfQueue, Waits, FilesStay, AtWorkAlone, AtWork,
         KeptIsKnown
<1>5. NotYetKept' /\ KeptOnce'
  BY DEF NotYetKept, AtWork, Kept, KeptOnce
<1> QED BY <1>1, <1>2, <1>3, <1>4, <1>5 DEF CaptureInv

\* A recording is saved as a photograph is, and its drain is about to list.
LEMMA KeepRecordingKeeps ==
  ASSUME CaptureInv, NEW c \in Captures, NEW d \in Drains, KeepRecording(c, d)
  PROVE  CaptureInv'
<1>1. DrainsTyped' /\ SpoolIds' /\ SavedIsSafe'
  BY RecordingIsSaved
<1> USE DEF CaptureInv, KeepRecording, Asleep, Spooled, keys, box, history, New, PutSpool, NoMedia
<1>2. BoxTyped' /\ ServerTyped' /\ OthersTyped'
  BY DEF BoxTyped, ServerTyped, Request, OthersTyped
<1>3. HandsFull' /\ BytesAreTaken' /\ QueueIds' /\ TodoIds' /\ HandIds' /\ LedgerKnows'
  BY DEF HandsFull, Entry, BytesAreTaken, QueueIds, TodoIds, FileEntry, NoteEntry, HandIds,
         LedgerKnows, Kept
<1>4. ServerKnows' /\ Waits' /\ InHandIsSafe' /\ SealedIsQueued' /\ FilesStay' /\ AtWorkAlone'
  BY DEF ServerKnows, Kept, OutOfQueue, Waits, InHandIsSafe, Safe, SealedIsQueued, FilesStay,
         AtWorkAlone, AtWork
<1>5. KeptIsKnown' /\ NotYetKept' /\ KeptOnce'
  BY DEF KeptIsKnown, Kept, AtWork, NotYetKept, KeptOnce
<1>6. PhoneTyped'
  BY CapturesAssumption DEF PhoneTyped, Stored
<1> QED BY <1>1, <1>2, <1>3, <1>4, <1>5, <1>6 DEF CaptureInv

\* The snapshot is of the spool.
LEMMA StartDrainKeeps ==
  ASSUME CaptureInv, NEW d \in Drains, StartDrain(d)
  PROVE  CaptureInv'
<1>1. /\ DrainsTyped' /\ drain'[d].stage = "spool" /\ drain'[d].todo = Due(spool)
      /\ \A x \in Drains : x # d => drain'[x] = drain[x]
  BY ListsEntries
<1> USE DEF CaptureInv, StartDrain, Due, phone, keys, box, history
<1>2. PhoneTyped' /\ BoxTyped' /\ ServerTyped' /\ OthersTyped'
  BY DEF PhoneTyped, Stored, BoxTyped, ServerTyped, Request, OthersTyped
<1>3. BytesAreTaken' /\ SpoolIds' /\ QueueIds' /\ LedgerKnows' /\ ServerKnows' /\ SavedIsSafe'
  BY DEF BytesAreTaken, SpoolIds, QueueIds, LedgerKnows, Kept, ServerKnows, OutOfQueue,
         SavedIsSafe, Safe
<1>4. SealedIsQueued' /\ FilesStay' /\ AtWorkAlone' /\ KeptIsKnown' /\ NotYetKept' /\ KeptOnce'
  BY DEF SealedIsQueued, FilesStay, AtWorkAlone, AtWork, KeptIsKnown, Kept, NotYetKept, KeptOnce
<1>5. HandsFull'
  BY <1>1 DEF HandsFull
<1>6. TodoIds'
  BY <1>1 DEF TodoIds, FileEntry, NoteEntry, SpoolIds
<1>7. HandIds'
  BY <1>1 DEF HandIds, FileEntry, NoteEntry
<1>8. Waits'
  BY <1>1 DEF Waits, ServerTyped, Request
<1>9. InHandIsSafe'
  BY <1>1 DEF InHandIsSafe, Safe, OutOfQueue, Kept
<1> QED BY <1>1, <1>2, <1>3, <1>4, <1>5, <1>6, <1>7, <1>8, <1>9 DEF CaptureInv

\* A row with a media id has bytes in the archive.
LEMMA TakeFileKeeps ==
  ASSUME CaptureInv, NEW d \in Drains, TakeFile(d)
  PROVE  CaptureInv'
<1>0. PICK entry \in drain[d].todo :
        /\ DrainsTyped' /\ entry \in Entry
        /\ drain'[d].stage = NextForFile(entry.media) /\ drain'[d].on = entry
        /\ drain'[d].todo = drain[d].todo \ {entry}
        /\ \A x \in Drains : x # d => drain'[x] = drain[x]
  BY TakesAnEntry DEF TakeFile, NextForFile, Stages
<1> USE DEF CaptureInv, TakeFile, NextForFile, phone, keys, box, history, NoMedia
<1>1. PhoneTyped' /\ DrainsTyped' /\ BoxTyped' /\ ServerTyped' /\ OthersTyped'
  BY <1>0 DEF PhoneTyped, Stored, BoxTyped, ServerTyped, Request, OthersTyped
<1>2. BytesAreTaken' /\ SpoolIds' /\ QueueIds' /\ LedgerKnows' /\ ServerKnows' /\ SavedIsSafe'
  BY DEF BytesAreTaken, SpoolIds, QueueIds, LedgerKnows, Kept, ServerKnows, OutOfQueue,
         SavedIsSafe, Safe
<1>3. SealedIsQueued' /\ FilesStay' /\ AtWorkAlone' /\ KeptIsKnown' /\ NotYetKept' /\ KeptOnce'
  BY DEF SealedIsQueued, FilesStay, AtWorkAlone, AtWork, KeptIsKnown, Kept, NotYetKept, KeptOnce
<1>4. HandsFull'
  BY <1>0 DEF HandsFull
<1>5. TodoIds'
  BY <1>0 DEF TodoIds, FileEntry, NoteEntry
<1>6. HandIds'
  BY <1>0 DEF HandIds, TodoIds, FileEntry, NoteEntry, Entry
<1>7. Waits'
  BY <1>0 DEF Waits, ServerTyped, Request
<1>8. InHandIsSafe'
  BY <1>0 DEF InHandIsSafe, Safe, OutOfQueue, Kept
<1> QED BY <1>1, <1>2, <1>3, <1>4, <1>5, <1>6, <1>7, <1>8 DEF CaptureInv

\* The new media id is one the archive gave out.
LEMMA UploadSucceedsKeeps ==
  ASSUME CaptureInv, NEW d \in Drains, UploadSucceeds(d)
  PROVE  CaptureInv'
<1>1. /\ DrainsTyped' /\ drain'[d].stage = "uploaded" /\ drain'[d].todo = drain[d].todo
      /\ drain'[d].on.of = drain[d].on.of /\ drain'[d].on.media = uploads'[drain[d].on.of]
      /\ drain'[d].on \in Entry /\ drain[d].on.of \in Captures
      /\ \A x \in Drains : x # d => drain'[x] = drain[x]
  BY TakesTheMediaId
<1>15. SavedIsSafe'
  BY UploadedIsSafe
<1> USE DEF CaptureInv, UploadSucceeds, InHand, Uploading, BytesStored, PutSpool, keys, history
<1>2. ServerTyped' /\ OthersTyped'
  BY DEF ServerTyped, Request, OthersTyped
<1>3. LedgerKnows' /\ ServerKnows' /\ SealedIsQueued' /\ FilesStay' /\ AtWorkAlone' /\ KeptIsKnown'
  BY DEF LedgerKnows, Kept, ServerKnows, OutOfQueue, SealedIsQueued, FilesStay, AtWorkAlone,
         AtWork, KeptIsKnown
<1>4. NotYetKept' /\ KeptOnce'
  BY DEF NotYetKept, AtWork, Kept, KeptOnce
<1>5. PhoneTyped'
  BY CapturesAssumption DEF PhoneTyped, Stored, BoxTyped
<1>6. BoxTyped'
  BY DEF BoxTyped, HandsFull, Entry
<1>7. HandsFull'
  BY <1>1 DEF HandsFull
<1>8. BytesAreTaken'
  BY DEF BytesAreTaken, PhoneTyped, Stored
<1>9. SpoolIds'
  BY DEF SpoolIds, PhoneTyped, BoxTyped, Stored
<1>10. QueueIds'
  BY DEF QueueIds, BoxTyped
<1>11. TodoIds'
  BY DEF TodoIds, FileEntry, NoteEntry, DrainsTyped, BoxTyped, Drain, Stages, Entry
<1>12. HandIds'
  BY <1>1 DEF HandIds, FileEntry, NoteEntry, BoxTyped
<1>13. Waits'
  BY DEF Waits, DrainsTyped, ServerTyped, Drain, Request, Stages, Entry
<1>14. InHandIsSafe'
  BY DEF InHandIsSafe, Safe, OutOfQueue, Kept, DrainsTyped, Drain, Stages, Entry
<1> QED BY <1>1, <1>2, <1>3, <1>4, <1>5, <1>6, <1>7, <1>8, <1>9, <1>10, <1>11, <1>12, <1>13, <1>14,
           <1>15 DEF CaptureInv

\* What leaves the spool was turned away.
LEMMA UploadRefusedKeeps ==
  ASSUME CaptureInv, NEW d \in Drains, UploadRefused(d)
  PROVE  CaptureInv'
<1> USE DEF CaptureInv, UploadRefused, InHand, Uploading, Without, Goes, AfterRefusal, keys, box
<1>1. DrainsTyped' /\ BoxTyped' /\ ServerTyped'
  BY DEF DrainsTyped, Drain, Stages, Entry, BoxTyped, ServerTyped, Request
<1>2. HandsFull' /\ BytesAreTaken' /\ SpoolIds' /\ QueueIds' /\ TodoIds' /\ HandIds'
  BY DEF HandsFull, Entry, BytesAreTaken, SpoolIds, QueueIds, TodoIds, FileEntry, NoteEntry,
         HandIds
<1>3. LedgerKnows' /\ ServerKnows' /\ Waits' /\ InHandIsSafe' /\ SavedIsSafe' /\ SealedIsQueued'
  BY DEF LedgerKnows, Kept, ServerKnows, OutOfQueue, Waits, InHandIsSafe, Safe, SavedIsSafe,
         SealedIsQueued
<1>4. FilesStay' /\ AtWorkAlone' /\ KeptIsKnown' /\ NotYetKept' /\ KeptOnce'
  BY DEF FilesStay, AtWorkAlone, AtWork, KeptIsKnown, Kept, NotYetKept, KeptOnce
<1>5. PhoneTyped'
  BY DEF PhoneTyped, Stored, HandsFull, Entry
<1>6. OthersTyped'
  BY DEF OthersTyped, HandsFull, Entry
<1> QED BY <1>1, <1>2, <1>3, <1>4, <1>5, <1>6 DEF CaptureInv

\* The row that is put back has its file, or its bytes are up.
LEMMA UploadFailsKeeps ==
  ASSUME CaptureInv, NEW d \in Drains, UploadFails(d)
  PROVE  CaptureInv'
<1>1. QueueIds'
  BY QueueKeepsItsIds
<1>0. /\ DrainsTyped' /\ drain'[d].stage = "spool" /\ drain'[d].todo = {}
      /\ \A x \in Drains : x # d => drain'[x] = drain[x]
  BY FailsUpward
<1>15. SavedIsSafe'
  BY PutBackIsSpooled
<1> USE DEF CaptureInv, UploadFails, InHand, Uploading, Fault, BytesStored, PutSpool, keys, history
<1>2. BoxTyped' /\ ServerTyped'
  BY DEF BoxTyped, ServerTyped, Request
<1>3. LedgerKnows' /\ ServerKnows' /\ SealedIsQueued' /\ AtWorkAlone' /\ KeptIsKnown'
      /\ NotYetKept'
  BY DEF LedgerKnows, Kept, ServerKnows, OutOfQueue, SealedIsQueued, AtWorkAlone, AtWork,
         KeptIsKnown, NotYetKept
<1>4. KeptOnce'
  BY DEF KeptOnce
<1>5. PhoneTyped'
  BY DEF PhoneTyped, Stored, HandsFull, Entry
<1>6. DrainsTyped'
  BY <1>0
<1>7. OthersTyped'
  BY CapturesAssumption DEF OthersTyped
<1>8. HandsFull'
  BY DEF HandsFull, Entry, DrainsTyped, Drain, Stages
<1>9. BytesAreTaken'
  BY DEF BytesAreTaken, PhoneTyped, BoxTyped, Stored
<1>10. SpoolIds'
  BY DEF SpoolIds, BoxTyped, HandIds, FileEntry, NoteEntry
<1>11. TodoIds'
  <2>1. \A c \in Captures : uploads[c] \in Nat /\ uploads'[c] \in Nat /\ uploads[c] <= uploads'[c]
    BY DEF BoxTyped
  <2>2. \A x \in Drains : \A e \in drain[x].todo : e \in Entry
    BY DEF DrainsTyped, Drain
  <2>3. \A e \in Entry : (FileEntry(e) => FileEntry(e)') /\ (NoteEntry(e) => NoteEntry(e)')
    BY <2>1 DEF Entry, FileEntry, NoteEntry
  <2> QED BY <1>0, <2>2, <2>3 DEF TodoIds, FileEntry, NoteEntry
<1>12. HandIds'
  BY <1>0 DEF HandIds, FileEntry, NoteEntry, BoxTyped, HandsFull, Entry
<1>13. Waits'
  BY DEF Waits, DrainsTyped, ServerTyped, Drain, Request, Stages, Entry
<1>14. InHandIsSafe'
  BY DEF InHandIsSafe, Safe, OutOfQueue, Kept, DrainsTyped, Drain, Stages, Entry
<1>16. FilesStay'
  BY DEF FilesStay, PhoneTyped, BoxTyped, Stored
<1> QED BY <1>1, <1>2, <1>3, <1>4, <1>5, <1>6, <1>7, <1>8, <1>9, <1>10, <1>11, <1>12, <1>13, <1>14,
           <1>15, <1>16 DEF CaptureInv

\* What is queued is safe there.
LEMMA QueueFollowOnKeeps ==
  ASSUME CaptureInv, NEW d \in Drains, QueueFollowOn(d)
  PROVE  CaptureInv'
<1>1. InHandIsSafe' /\ SavedIsSafe' /\ SealedIsQueued'
  BY FollowOnIsSafe
<1> USE DEF CaptureInv, QueueFollowOn, PutQueue, InHand, Goes, keys, box, history
<1>2. DrainsTyped' /\ BoxTyped' /\ ServerTyped' /\ OthersTyped'
  BY DEF DrainsTyped, Drain, Stages, Entry, BoxTyped, ServerTyped, Request, OthersTyped
<1>3. HandsFull' /\ BytesAreTaken' /\ SpoolIds' /\ TodoIds' /\ HandIds' /\ LedgerKnows'
  BY DEF HandsFull, Entry, BytesAreTaken, SpoolIds, TodoIds, FileEntry, NoteEntry, HandIds,
         LedgerKnows, Kept
<1>4. ServerKnows' /\ Waits' /\ FilesStay' /\ AtWorkAlone' /\ KeptIsKnown' /\ NotYetKept'
  BY DEF ServerKnows, Kept, OutOfQueue, Waits, FilesStay, AtWorkAlone, AtWork, KeptIsKnown,
         NotYetKept
<1>5. KeptOnce'
  BY DEF KeptOnce
<1>6. PhoneTyped'
  BY DEF PhoneTyped, Stored, HandsFull, Entry
<1>7. QueueIds'
  BY DEF QueueIds, HandIds, FileEntry, NoteEntry
<1> QED BY <1>1, <1>2, <1>3, <1>4, <1>5, <1>6, <1>7 DEF CaptureInv

\* What leaves the spool is in the queue, or was.
LEMMA RemoveRowKeeps ==
  ASSUME CaptureInv, NEW d \in Drains, RemoveRow(d)
  PROVE  CaptureInv'
<1> USE DEF CaptureInv, RemoveRow, Without, InHand, Goes, keys, box, history
<1>1. DrainsTyped' /\ BoxTyped' /\ ServerTyped' /\ OthersTyped'
  BY DEF DrainsTyped, Drain, Stages, Entry, BoxTyped, ServerTyped, Request, OthersTyped
<1>2. HandsFull' /\ BytesAreTaken' /\ SpoolIds' /\ QueueIds' /\ TodoIds' /\ HandIds'
  BY DEF HandsFull, Entry, BytesAreTaken, SpoolIds, QueueIds, TodoIds, FileEntry, NoteEntry,
         HandIds
<1>3. LedgerKnows' /\ ServerKnows' /\ Waits' /\ InHandIsSafe' /\ SealedIsQueued' /\ FilesStay'
  BY DEF LedgerKnows, Kept, ServerKnows, OutOfQueue, Waits, InHandIsSafe, Safe, SealedIsQueued,
         FilesStay
<1>4. AtWorkAlone' /\ KeptIsKnown' /\ NotYetKept' /\ KeptOnce'
  BY DEF AtWorkAlone, AtWork, KeptIsKnown, Kept, NotYetKept, KeptOnce
<1>5. PhoneTyped'
  BY DEF PhoneTyped, Stored, HandsFull, Entry
<1>6. SavedIsSafe'
  BY DEF SavedIsSafe, Safe, OutOfQueue, Kept, InHandIsSafe
<1> QED BY <1>1, <1>2, <1>3, <1>4, <1>5, <1>6 DEF CaptureInv

\* A file that goes has its bytes up.
LEMMA ReleaseFileKeeps ==
  ASSUME CaptureInv, NEW d \in Drains, ReleaseFile(d)
  PROVE  CaptureInv'
<1>0. /\ DrainsTyped' /\ drain'[d].stage = "spool" /\ drain'[d].todo = drain[d].todo
      /\ \A x \in Drains : x # d => drain'[x] = drain[x]
  BY GoesOnward DEF ReleaseFile, Stages
<1> USE DEF CaptureInv, ReleaseFile, InHand, Onward, keys, box, history
<1>1. PhoneTyped' /\ BoxTyped' /\ ServerTyped' /\ OthersTyped'
  BY DEF PhoneTyped, Stored, BoxTyped, ServerTyped, Request, OthersTyped
<1>2. BytesAreTaken' /\ SpoolIds' /\ QueueIds' /\ LedgerKnows' /\ ServerKnows' /\ SealedIsQueued'
  BY DEF BytesAreTaken, SpoolIds, QueueIds, LedgerKnows, Kept, ServerKnows, OutOfQueue,
         SealedIsQueued
<1>3. AtWorkAlone' /\ KeptIsKnown' /\ NotYetKept' /\ KeptOnce'
  BY DEF AtWorkAlone, AtWork, KeptIsKnown, Kept, NotYetKept, KeptOnce
<1>4. DrainsTyped'
  BY <1>0
<1>5. HandsFull'
  BY DEF HandsFull, Entry, DrainsTyped, Drain, Stages
<1>6. TodoIds'
  BY DEF TodoIds, FileEntry, NoteEntry, DrainsTyped, Drain, Stages, Entry
<1>7. HandIds'
  BY DEF HandIds, FileEntry, NoteEntry, DrainsTyped, Drain, Stages, Entry
<1>8. Waits'
  BY DEF Waits, DrainsTyped, ServerTyped, Drain, Request, Stages, Entry
<1>9. InHandIsSafe'
  BY DEF InHandIsSafe, Safe, OutOfQueue, Kept, DrainsTyped, Drain, Stages, Entry
<1>10. SavedIsSafe'
  BY DEF SavedIsSafe, Safe, OutOfQueue, Kept, InHandIsSafe
<1>11. FilesStay'
  BY DEF FilesStay, PhoneTyped, BoxTyped, HandIds, Stored, FileEntry, NoteEntry
<1> QED BY <1>1, <1>2, <1>3, <1>4, <1>5, <1>6, <1>7, <1>8, <1>9, <1>10, <1>11 DEF CaptureInv

\* The snapshot is of the queue.
LEMMA OutboxDoneKeeps ==
  ASSUME CaptureInv, NEW d \in Drains, OutboxDone(d)
  PROVE  CaptureInv'
<1>1. DrainsTyped'
  BY GoesOnToTheQueue
<1> USE DEF CaptureInv, OutboxDone, Asleep, DueToSend, phone, keys, box, history, Due
<1>2. PhoneTyped' /\ BoxTyped' /\ ServerTyped' /\ OthersTyped'
  BY DEF PhoneTyped, Stored, BoxTyped, ServerTyped, Request, OthersTyped
<1>3. HandsFull' /\ BytesAreTaken' /\ SpoolIds' /\ QueueIds' /\ HandIds' /\ LedgerKnows'
  BY DEF HandsFull, Entry, BytesAreTaken, SpoolIds, QueueIds, HandIds, FileEntry, NoteEntry,
         LedgerKnows, Kept
<1>4. ServerKnows' /\ Waits' /\ InHandIsSafe' /\ SavedIsSafe' /\ SealedIsQueued' /\ FilesStay'
  BY DEF ServerKnows, Kept, OutOfQueue, Waits, InHandIsSafe, Safe, SavedIsSafe, SealedIsQueued,
         FilesStay
<1>5. AtWorkAlone' /\ KeptIsKnown' /\ NotYetKept' /\ KeptOnce'
  BY DEF AtWorkAlone, AtWork, KeptIsKnown, Kept, NotYetKept, KeptOnce
<1>6. TodoIds'
  BY DEF TodoIds, FileEntry, NoteEntry, QueueIds
<1> QED BY <1>1, <1>2, <1>3, <1>4, <1>5, <1>6 DEF CaptureInv

\* A request is of a drain that waits for it alone.
LEMMA SendKeeps ==
  ASSUME CaptureInv, NEW d \in Drains, Send(d)
  PROVE  CaptureInv'
<1>a. PICK entry \in drain[d].todo, r \in Requests :
        /\ drain[d].stage = "queue" /\ server[r] = Absent /\ Takes(d, entry, "sending")
        /\ server' = [server EXCEPT ![r] = [of |-> entry.of, media |-> entry.media,
                                           from |-> d, stage |-> "arrived"]]
  BY DEF Send
<1>0. /\ DrainsTyped' /\ entry \in Entry
      /\ drain'[d].stage = "sending" /\ drain'[d].on = entry
      /\ drain'[d].todo = drain[d].todo \ {entry}
      /\ \A x \in Drains : x # d => drain'[x] = drain[x]
  BY <1>a, TakesAnEntry DEF Stages
<1> USE DEF CaptureInv, Send, phone, keys, box, history
<1>1. PhoneTyped' /\ DrainsTyped' /\ BoxTyped' /\ OthersTyped'
  BY <1>0 DEF PhoneTyped, Stored, BoxTyped, OthersTyped
<1>2. BytesAreTaken' /\ SpoolIds' /\ QueueIds' /\ LedgerKnows' /\ ServerKnows' /\ SavedIsSafe'
  BY DEF BytesAreTaken, SpoolIds, QueueIds, LedgerKnows, Kept, ServerKnows, OutOfQueue,
         SavedIsSafe, Safe
<1>3. SealedIsQueued' /\ FilesStay' /\ AtWorkAlone' /\ KeptIsKnown' /\ NotYetKept' /\ KeptOnce'
  BY DEF SealedIsQueued, FilesStay, AtWorkAlone, AtWork, KeptIsKnown, Kept, NotYetKept, KeptOnce
<1>4. ServerTyped'
  BY <1>0, <1>a DEF ServerTyped, Request, Entry
<1>5. HandsFull'
  BY <1>0 DEF HandsFull
<1>6. TodoIds'
  BY <1>0, <1>a DEF TodoIds, FileEntry, NoteEntry
<1>7. HandIds'
  BY <1>0, <1>a DEF HandIds, TodoIds, FileEntry, NoteEntry
<1>8. Waits'
  BY <1>0, <1>a DEF Waits, ServerTyped, Request
<1>9. InHandIsSafe'
  BY <1>0 DEF InHandIsSafe, Safe, OutOfQueue, Kept
<1> QED BY <1>1, <1>2, <1>3, <1>4, <1>5, <1>6, <1>7, <1>8, <1>9 DEF CaptureInv

\* What leaves the queue was kept or turned away.
LEMMA AnsweredKeeps ==
  ASSUME CaptureInv, NEW d \in Drains, Answered(d)
  PROVE  CaptureInv'
<1>1. InHandIsSafe' /\ SavedIsSafe'
  BY AnsweredIsSafe
<1>0. /\ DrainsTyped' /\ drain'[d].stage = "queue" /\ drain'[d].todo = drain[d].todo
      /\ \A x \in Drains : x # d => drain'[x] = drain[x]
  BY GoesOnward DEF Answered, Stages
<1> USE DEF CaptureInv, Answered, Awaits, Without, InHand, Onward, box, history
<1>2. BoxTyped' /\ ServerTyped' /\ OthersTyped'
  BY DEF BoxTyped, ServerTyped, Request, OthersTyped
<1>3. BytesAreTaken' /\ SpoolIds' /\ QueueIds' /\ LedgerKnows' /\ ServerKnows' /\ SealedIsQueued'
  BY DEF BytesAreTaken, SpoolIds, QueueIds, LedgerKnows, Kept, ServerKnows, OutOfQueue,
         SealedIsQueued
<1>4. FilesStay' /\ AtWorkAlone' /\ KeptIsKnown' /\ NotYetKept' /\ KeptOnce'
  BY DEF FilesStay, AtWorkAlone, AtWork, KeptIsKnown, Kept, NotYetKept, KeptOnce
<1>5. PhoneTyped'
  BY DEF PhoneTyped, Stored, HandsFull, Entry
<1>6. DrainsTyped'
  BY <1>0
<1>7. HandsFull'
  BY DEF HandsFull, Entry, DrainsTyped, Drain, Stages
<1>8. TodoIds'
  BY DEF TodoIds, FileEntry, NoteEntry, DrainsTyped, Drain, Stages, Entry
<1>9. HandIds'
  BY DEF HandIds, FileEntry, NoteEntry, DrainsTyped, Drain, Stages, Entry
<1>10. Waits'
  BY DEF Waits, DrainsTyped, ServerTyped, Drain, Request, Stages, Entry
<1> QED BY <1>1, <1>2, <1>3, <1>4, <1>5, <1>6, <1>7, <1>8, <1>9, <1>10 DEF CaptureInv

\* What is put back was never away, or comes back.
LEMMA SendFailsKeeps ==
  ASSUME CaptureInv, NEW d \in Drains, SendFails(d)
  PROVE  CaptureInv'
<1>1. InHandIsSafe' /\ SavedIsSafe' /\ SealedIsQueued' /\ KeptIsKnown'
  BY PutBackIsSafe
<1> USE DEF CaptureInv, SendFails, Awaits, Fault, PutQueue, InHand, Asleep, keys, box, history
<1>2. DrainsTyped' /\ BoxTyped' /\ ServerTyped'
  BY DEF DrainsTyped, Drain, Stages, Entry, BoxTyped, ServerTyped, Request
<1>3. HandsFull' /\ BytesAreTaken' /\ SpoolIds' /\ TodoIds' /\ HandIds' /\ LedgerKnows'
  BY DEF HandsFull, Entry, BytesAreTaken, SpoolIds, TodoIds, FileEntry, NoteEntry, HandIds,
         LedgerKnows, Kept
<1>4. FilesStay' /\ KeptOnce'
  BY DEF FilesStay, KeptOnce
<1>5. PhoneTyped'
  BY DEF PhoneTyped, Stored, HandsFull, Entry
<1>6. OthersTyped'
  BY CapturesAssumption DEF OthersTyped
<1>7. QueueIds'
  BY DEF QueueIds, HandIds, FileEntry, NoteEntry
<1>8. ServerKnows'
  BY DEF ServerKnows, Kept, OutOfQueue, ServerTyped, Request
<1>9. Waits'
  BY DEF Waits, ServerTyped, Request
<1>10. AtWorkAlone'
  BY DEF AtWorkAlone, AtWork, PhoneTyped, ServerTyped, Stored, Request
<1>11. NotYetKept'
  BY DEF NotYetKept, AtWork, Kept, ServerTyped, Request
<1> QED BY <1>1, <1>2, <1>3, <1>4, <1>5, <1>6, <1>7, <1>8, <1>9, <1>10, <1>11 DEF CaptureInv

\* Nothing is in hand.
LEMMA QueueDoneKeeps ==
  ASSUME CaptureInv, NEW d \in Drains, QueueDone(d)
  PROVE  CaptureInv'
<1> USE DEF CaptureInv, QueueDone, Asleep, phone, keys, box, history
<1>1. PhoneTyped' /\ DrainsTyped' /\ BoxTyped' /\ ServerTyped' /\ OthersTyped'
  BY DEF PhoneTyped, Stored, DrainsTyped, Drain, Stages, Entry, BoxTyped, ServerTyped, Request,
         OthersTyped
<1>2. HandsFull' /\ BytesAreTaken' /\ SpoolIds' /\ QueueIds' /\ TodoIds' /\ HandIds'
  BY DEF HandsFull, Entry, BytesAreTaken, SpoolIds, QueueIds, TodoIds, FileEntry, NoteEntry,
         HandIds
<1>3. LedgerKnows' /\ ServerKnows' /\ Waits' /\ InHandIsSafe' /\ SavedIsSafe' /\ SealedIsQueued'
  BY DEF LedgerKnows, Kept, ServerKnows, OutOfQueue, Waits, InHandIsSafe, Safe, SavedIsSafe,
         SealedIsQueued
<1>4. FilesStay' /\ AtWorkAlone' /\ KeptIsKnown' /\ NotYetKept' /\ KeptOnce'
  BY DEF FilesStay, AtWorkAlone, AtWork, KeptIsKnown, Kept, NotYetKept, KeptOnce
<1> QED BY <1>1, <1>2, <1>3, <1>4 DEF CaptureInv

\* A second request at work is a race.
LEMMA RecallKeeps ==
  ASSUME CaptureInv, NEW r \in Requests, Recall(r)
  PROVE  CaptureInv'
<1> USE DEF CaptureInv, Recall, Moves, Recalled, history, AtWork, phone, keys, box
<1>1. PhoneTyped' /\ DrainsTyped' /\ BoxTyped' /\ ServerTyped'
  BY DEF PhoneTyped, Stored, DrainsTyped, Drain, Stages, Entry, BoxTyped, ServerTyped, Request
<1>2. HandsFull' /\ BytesAreTaken' /\ SpoolIds' /\ QueueIds' /\ TodoIds' /\ HandIds'
  BY DEF HandsFull, Entry, BytesAreTaken, SpoolIds, QueueIds, TodoIds, FileEntry, NoteEntry,
         HandIds
<1>3. LedgerKnows' /\ InHandIsSafe' /\ SavedIsSafe' /\ SealedIsQueued' /\ FilesStay' /\ KeptOnce'
  BY DEF LedgerKnows, Kept, InHandIsSafe, Safe, OutOfQueue, SavedIsSafe, SealedIsQueued, FilesStay,
         KeptOnce
<1>4. OthersTyped'
  BY DEF OthersTyped, ServerTyped, Request
<1>5. ServerKnows'
  BY DEF ServerKnows, Kept, OutOfQueue, ServerTyped, LedgerKnows, Request
<1>6. Waits'
  BY DEF Waits, ServerTyped, Request
<1>7. AtWorkAlone'
  BY DEF AtWorkAlone, ServerTyped, Request
<1>8. KeptIsKnown'
  BY DEF KeptIsKnown, Kept, ServerTyped, Request
<1>9. NotYetKept'
  BY DEF NotYetKept, Kept, ServerTyped, KeptIsKnown, Request
<1> QED BY <1>1, <1>2, <1>3, <1>4, <1>5, <1>6, <1>7, <1>8, <1>9 DEF CaptureInv

\* What is performed is kept, and alone unless raced.
LEMMA PerformKeeps ==
  ASSUME CaptureInv, NEW r \in Requests, Perform(r)
  PROVE  CaptureInv'
<1>1. BoxTyped' /\ LedgerKnows' /\ ServerKnows' /\ InHandIsSafe' /\ SavedIsSafe'
  BY PerformedIsSafe
<1>2. KeptIsKnown' /\ NotYetKept' /\ KeptOnce'
  BY PerformedOnce
<1> USE DEF CaptureInv, Perform, Moves, Made, phone, keys, history
<1>3. PhoneTyped' /\ DrainsTyped' /\ ServerTyped' /\ OthersTyped'
  BY DEF PhoneTyped, Stored, DrainsTyped, Drain, Stages, Entry, ServerTyped, Request, OthersTyped
<1>4. HandsFull' /\ BytesAreTaken' /\ SpoolIds' /\ QueueIds' /\ TodoIds' /\ HandIds'
  BY DEF HandsFull, Entry, BytesAreTaken, SpoolIds, QueueIds, TodoIds, FileEntry, NoteEntry,
         HandIds
<1>5. SealedIsQueued' /\ FilesStay'
  BY DEF SealedIsQueued, FilesStay
<1>6. Waits'
  BY DEF Waits, ServerTyped, Request
<1>7. AtWorkAlone'
  BY DEF AtWorkAlone, AtWork, ServerTyped, Request
<1> QED BY <1>1, <1>2, <1>3, <1>4, <1>5, <1>6, <1>7 DEF CaptureInv

\* What the ledger knows is kept.
LEMMA RememberKeeps ==
  ASSUME CaptureInv, NEW r \in Requests, Remember(r)
  PROVE  CaptureInv'
<1>1. KeptIsKnown'
  BY RememberedIsKnown
<1> USE DEF CaptureInv, Remember, Moves, phone, keys, history
<1>2. PhoneTyped' /\ DrainsTyped' /\ ServerTyped' /\ OthersTyped'
  BY DEF PhoneTyped, Stored, DrainsTyped, Drain, Stages, Entry, ServerTyped, Request, OthersTyped
<1>3. HandsFull' /\ BytesAreTaken' /\ SpoolIds' /\ QueueIds' /\ TodoIds' /\ HandIds'
  BY DEF HandsFull, Entry, BytesAreTaken, SpoolIds, QueueIds, TodoIds, FileEntry, NoteEntry,
         HandIds
<1>4. ServerKnows' /\ Waits' /\ InHandIsSafe' /\ SavedIsSafe' /\ SealedIsQueued' /\ FilesStay'
  BY DEF ServerKnows, Kept, OutOfQueue, Waits, InHandIsSafe, Safe, SavedIsSafe, SealedIsQueued,
         FilesStay
<1>5. AtWorkAlone' /\ NotYetKept' /\ KeptOnce'
  BY DEF AtWorkAlone, AtWork, NotYetKept, Kept, KeptOnce
<1>6. BoxTyped'
  BY DEF BoxTyped, ServerTyped, Request
<1>7. LedgerKnows'
  BY DEF LedgerKnows, Kept, ServerKnows, OutOfQueue
<1> QED BY <1>1, <1>2, <1>3, <1>4, <1>5, <1>6, <1>7 DEF CaptureInv

\* An answer nobody waits for changes nothing.
LEMMA DropKeeps ==
  ASSUME CaptureInv, NEW r \in Requests, Drop(r)
  PROVE  CaptureInv'
<1> USE DEF CaptureInv, Drop, phone, keys, box, history
<1>1. PhoneTyped' /\ DrainsTyped' /\ BoxTyped' /\ ServerTyped' /\ OthersTyped'
  BY DEF PhoneTyped, Stored, DrainsTyped, Drain, Stages, Entry, BoxTyped, ServerTyped, Request,
         OthersTyped
<1>2. HandsFull' /\ BytesAreTaken' /\ SpoolIds' /\ QueueIds' /\ TodoIds' /\ HandIds'
  BY DEF HandsFull, Entry, BytesAreTaken, SpoolIds, QueueIds, TodoIds, FileEntry, NoteEntry,
         HandIds
<1>3. LedgerKnows' /\ ServerKnows' /\ Waits' /\ InHandIsSafe' /\ SavedIsSafe' /\ SealedIsQueued'
  BY DEF LedgerKnows, Kept, ServerKnows, OutOfQueue, Waits, InHandIsSafe, Safe, SavedIsSafe,
         SealedIsQueued
<1>4. FilesStay' /\ AtWorkAlone' /\ KeptIsKnown' /\ NotYetKept' /\ KeptOnce'
  BY DEF FilesStay, AtWorkAlone, AtWork, KeptIsKnown, Kept, NotYetKept, KeptOnce
<1> QED BY <1>1, <1>2, <1>3, <1>4 DEF CaptureInv

\* Who had performed and not remembered is raced.
LEMMA ServerRestartsKeeps ==
  ASSUME CaptureInv, ServerRestarts
  PROVE  CaptureInv'
<1> USE DEF CaptureInv, ServerRestarts, Fault, phone, keys, box
<1>1. PhoneTyped' /\ DrainsTyped' /\ BoxTyped' /\ ServerTyped'
  BY DEF PhoneTyped, Stored, DrainsTyped, Drain, Stages, Entry, BoxTyped, ServerTyped, Request
<1>2. HandsFull' /\ BytesAreTaken' /\ SpoolIds' /\ QueueIds' /\ TodoIds' /\ HandIds'
  BY DEF HandsFull, Entry, BytesAreTaken, SpoolIds, QueueIds, TodoIds, FileEntry, NoteEntry,
         HandIds
<1>3. LedgerKnows' /\ ServerKnows' /\ Waits' /\ InHandIsSafe' /\ SavedIsSafe' /\ SealedIsQueued'
  BY DEF LedgerKnows, Kept, ServerKnows, OutOfQueue, Waits, InHandIsSafe, Safe, SavedIsSafe,
         SealedIsQueued
<1>4. FilesStay' /\ AtWorkAlone' /\ KeptIsKnown' /\ NotYetKept' /\ KeptOnce'
  BY DEF FilesStay, AtWorkAlone, AtWork, KeptIsKnown, Kept, NotYetKept, KeptOnce
<1>5. OthersTyped'
  BY CapturesAssumption DEF OthersTyped, ServerTyped, Request
<1> QED BY <1>1, <1>2, <1>3, <1>4, <1>5 DEF CaptureInv

\* The tables are what they were.
LEMMA AppKilledKeeps ==
  ASSUME CaptureInv, AppKilled
  PROVE  CaptureInv'
<1>1. KeptIsKnown'
  BY KilledIsKnown
<1> USE DEF CaptureInv, AppKilled, Fault, Asleep, phone, keys, box, history
<1>2. PhoneTyped' /\ DrainsTyped' /\ BoxTyped' /\ ServerTyped'
  BY DEF PhoneTyped, Stored, DrainsTyped, Drain, Stages, Entry, BoxTyped, ServerTyped, Request
<1>3. HandsFull' /\ BytesAreTaken' /\ SpoolIds' /\ QueueIds' /\ TodoIds' /\ HandIds'
  BY DEF HandsFull, Entry, BytesAreTaken, SpoolIds, QueueIds, TodoIds, FileEntry, NoteEntry,
         HandIds
<1>4. LedgerKnows' /\ ServerKnows' /\ Waits' /\ InHandIsSafe' /\ SavedIsSafe' /\ SealedIsQueued'
  BY DEF LedgerKnows, Kept, ServerKnows, OutOfQueue, Waits, InHandIsSafe, Safe, SavedIsSafe,
         SealedIsQueued
<1>5. FilesStay' /\ AtWorkAlone' /\ NotYetKept' /\ KeptOnce'
  BY DEF FilesStay, AtWorkAlone, AtWork, NotYetKept, Kept, KeptOnce
<1>6. OthersTyped'
  BY CapturesAssumption DEF OthersTyped
<1> QED BY <1>1, <1>2, <1>3, <1>4, <1>5, <1>6 DEF CaptureInv

\* Only the token.
LEMMA TokenRevokedKeeps ==
  ASSUME CaptureInv, TokenRevoked
  PROVE  CaptureInv'
<1>1. OthersTyped'
  BY RevokedTyped
<1> USE DEF CaptureInv, TokenRevoked, Fault, phone, box, history
<1>2. PhoneTyped' /\ DrainsTyped' /\ BoxTyped' /\ ServerTyped'
  BY DEF PhoneTyped, Stored, DrainsTyped, Drain, Stages, Entry, BoxTyped, ServerTyped, Request
<1>3. HandsFull' /\ BytesAreTaken' /\ SpoolIds' /\ QueueIds' /\ TodoIds' /\ HandIds'
  BY DEF HandsFull, Entry, BytesAreTaken, SpoolIds, QueueIds, TodoIds, FileEntry, NoteEntry,
         HandIds
<1>4. LedgerKnows' /\ ServerKnows' /\ Waits' /\ InHandIsSafe' /\ SavedIsSafe' /\ SealedIsQueued'
  BY DEF LedgerKnows, Kept, ServerKnows, OutOfQueue, Waits, InHandIsSafe, Safe, SavedIsSafe,
         SealedIsQueued
<1>5. FilesStay' /\ AtWorkAlone' /\ KeptIsKnown' /\ NotYetKept' /\ KeptOnce'
  BY DEF FilesStay, AtWorkAlone, AtWork, KeptIsKnown, Kept, NotYetKept, KeptOnce
<1> QED BY <1>1, <1>2, <1>3, <1>4, <1>5 DEF CaptureInv

\* Only the token.
LEMMA PairedAgainKeeps ==
  ASSUME CaptureInv, PairedAgain
  PROVE  CaptureInv'
<1> USE DEF CaptureInv, PairedAgain, phone, box, history
<1>1. PhoneTyped' /\ DrainsTyped' /\ BoxTyped' /\ ServerTyped' /\ OthersTyped'
  BY DEF PhoneTyped, Stored, DrainsTyped, Drain, Stages, Entry, BoxTyped, ServerTyped, Request,
         OthersTyped
<1>2. HandsFull' /\ BytesAreTaken' /\ SpoolIds' /\ QueueIds' /\ TodoIds' /\ HandIds'
  BY DEF HandsFull, Entry, BytesAreTaken, SpoolIds, QueueIds, TodoIds, FileEntry, NoteEntry,
         HandIds
<1>3. LedgerKnows' /\ ServerKnows' /\ Waits' /\ InHandIsSafe' /\ SavedIsSafe' /\ SealedIsQueued'
  BY DEF LedgerKnows, Kept, ServerKnows, OutOfQueue, Waits, InHandIsSafe, Safe, SavedIsSafe,
         SealedIsQueued
<1>4. FilesStay' /\ AtWorkAlone' /\ KeptIsKnown' /\ NotYetKept' /\ KeptOnce'
  BY DEF FilesStay, AtWorkAlone, AtWork, KeptIsKnown, Kept, NotYetKept, KeptOnce
<1> QED BY <1>1, <1>2, <1>3, <1>4 DEF CaptureInv

\* Whatever is in the queue is sealed.
LEMMA KeyReplacedKeeps ==
  ASSUME CaptureInv, KeyReplaced
  PROVE  CaptureInv'
<1> USE DEF CaptureInv, KeyReplaced, Fault, Asleep, phone, box, history
<1>1. PhoneTyped' /\ DrainsTyped' /\ BoxTyped' /\ ServerTyped'
  BY DEF PhoneTyped, Stored, DrainsTyped, Drain, Stages, Entry, BoxTyped, ServerTyped, Request
<1>2. HandsFull' /\ BytesAreTaken' /\ SpoolIds' /\ QueueIds' /\ TodoIds' /\ HandIds'
  BY DEF HandsFull, Entry, BytesAreTaken, SpoolIds, QueueIds, TodoIds, FileEntry, NoteEntry,
         HandIds
<1>3. LedgerKnows' /\ ServerKnows' /\ Waits' /\ InHandIsSafe' /\ SavedIsSafe' /\ SealedIsQueued'
  BY DEF LedgerKnows, Kept, ServerKnows, OutOfQueue, Waits, InHandIsSafe, Safe, SavedIsSafe,
         SealedIsQueued
<1>4. FilesStay' /\ AtWorkAlone' /\ KeptIsKnown' /\ NotYetKept' /\ KeptOnce'
  BY DEF FilesStay, AtWorkAlone, AtWork, KeptIsKnown, Kept, NotYetKept, KeptOnce
<1>5. OthersTyped'
  BY CapturesAssumption DEF OthersTyped
<1> QED BY <1>1, <1>2, <1>3, <1>4, <1>5 DEF CaptureInv

\* Nothing happens.
LEMMA StutterKeeps ==
  ASSUME CaptureInv, UNCHANGED vars
  PROVE  CaptureInv'
<1> USE DEF CaptureInv, vars, phone, keys, box, history
<1>1. PhoneTyped' /\ DrainsTyped' /\ BoxTyped' /\ ServerTyped' /\ OthersTyped'
  BY DEF PhoneTyped, Stored, DrainsTyped, Drain, Stages, Entry, BoxTyped, ServerTyped, Request,
         OthersTyped
<1>2. HandsFull' /\ BytesAreTaken' /\ SpoolIds' /\ QueueIds' /\ TodoIds' /\ HandIds'
  BY DEF HandsFull, Entry, BytesAreTaken, SpoolIds, QueueIds, TodoIds, FileEntry, NoteEntry,
         HandIds
<1>3. LedgerKnows' /\ ServerKnows' /\ Waits' /\ InHandIsSafe' /\ SavedIsSafe' /\ SealedIsQueued'
  BY DEF LedgerKnows, Kept, ServerKnows, OutOfQueue, Waits, InHandIsSafe, Safe, SavedIsSafe,
         SealedIsQueued
<1>4. FilesStay' /\ AtWorkAlone' /\ KeptIsKnown' /\ NotYetKept' /\ KeptOnce'
  BY DEF FilesStay, AtWorkAlone, AtWork, KeptIsKnown, Kept, NotYetKept, KeptOnce
<1> QED BY <1>1, <1>2, <1>3, <1>4 DEF CaptureInv

\* The invariant holds to begin with.
LEMMA CaptureBegins == Init => CaptureInv
<1> SUFFICES ASSUME Init PROVE CaptureInv
    OBVIOUS
<1> USE DEF Init
<1>1. PhoneTyped /\ OthersTyped
  BY CapturesAssumption DEF PhoneTyped, OthersTyped, CapturesAssumption
<1>2. DrainsTyped /\ ServerTyped
  BY DEF DrainsTyped, Drain, Stages, Asleep, ServerTyped
<1>3. BoxTyped
  BY FS_EmptySet DEF BoxTyped
<1>4. HandsFull /\ TodoIds /\ HandIds /\ InHandIsSafe
  BY DEF HandsFull, TodoIds, HandIds, InHandIsSafe, Asleep
<1>5. BytesAreTaken /\ SpoolIds /\ QueueIds /\ FilesStay
  BY CapturesAssumption DEF BytesAreTaken, SpoolIds, QueueIds, FilesStay, CapturesAssumption
<1>6. LedgerKnows /\ ServerKnows /\ Waits /\ SavedIsSafe /\ SealedIsQueued
  BY DEF LedgerKnows, ServerKnows, Waits, SavedIsSafe, SealedIsQueued
<1>7. AtWorkAlone /\ KeptIsKnown /\ NotYetKept /\ KeptOnce
  BY DEF AtWorkAlone, KeptIsKnown, NotYetKept, KeptOnce, AtWork, Kept
<1> QED BY <1>1, <1>2, <1>3, <1>4, <1>5, <1>6, <1>7 DEF CaptureInv

\* Every step keeps it.
LEMMA CaptureSteps == CaptureInv /\ [Next]_vars => CaptureInv'
<1> SUFFICES ASSUME CaptureInv, [Next]_vars PROVE CaptureInv'
    OBVIOUS
<1>1. ASSUME NEW c \in Captures, EnqueueCapture(c) \/ SpoolShare(c) \/ SpoolBackoffEnds(c) \/ QueueBackoffEnds(c)
      PROVE  CaptureInv'
  <2>1. CASE EnqueueCapture(c)
    BY <2>1, EnqueueCaptureKeeps
  <2>2. CASE SpoolShare(c)
    BY <2>2, SpoolShareKeeps
  <2>3. CASE SpoolBackoffEnds(c)
    BY <2>3, SpoolBackoffEndsKeeps
  <2>4. CASE QueueBackoffEnds(c)
    BY <2>4, QueueBackoffEndsKeeps
  <2> QED BY <1>1, <2>1, <2>2, <2>3, <2>4
<1>2. ASSUME NEW d \in Drains, DrainStep(d)
      PROVE  CaptureInv'
  <2>1. CASE TakeFile(d)
    BY <2>1, TakeFileKeeps
  <2>2. CASE UploadSucceeds(d)
    BY <2>2, UploadSucceedsKeeps
  <2>3. CASE UploadRefused(d)
    BY <2>3, UploadRefusedKeeps
  <2>4. CASE UploadFails(d)
    BY <2>4, UploadFailsKeeps
  <2>5. CASE QueueFollowOn(d)
    BY <2>5, QueueFollowOnKeeps
  <2>6. CASE RemoveRow(d)
    BY <2>6, RemoveRowKeeps
  <2>7. CASE ReleaseFile(d)
    BY <2>7, ReleaseFileKeeps
  <2>8. CASE OutboxDone(d)
    BY <2>8, OutboxDoneKeeps
  <2>9. CASE Send(d)
    BY <2>9, SendKeeps
  <2>10. CASE Answered(d)
    BY <2>10, AnsweredKeeps
  <2>11. CASE SendFails(d)
    BY <2>11, SendFailsKeeps
  <2>12. CASE QueueDone(d)
    BY <2>12, QueueDoneKeeps
  <2> QED BY <1>2, <2>1, <2>2, <2>3, <2>4, <2>5, <2>6, <2>7, <2>8, <2>9, <2>10, <2>11, <2>12 DEF DrainStep
<1>3. ASSUME NEW r \in Requests, ServerStep(r)
      PROVE  CaptureInv'
  <2>1. CASE Recall(r)
    BY <2>1, RecallKeeps
  <2>2. CASE Perform(r)
    BY <2>2, PerformKeeps
  <2>3. CASE Remember(r)
    BY <2>3, RememberKeeps
  <2>4. CASE Drop(r)
    BY <2>4, DropKeeps
  <2> QED BY <1>3, <2>1, <2>2, <2>3, <2>4 DEF ServerStep
<1>4. CASE \E c \in Captures, d \in Drains : KeepRecording(c, d)
  BY <1>4, KeepRecordingKeeps
<1>5. CASE \E d \in Drains : StartDrain(d)
  BY <1>5, StartDrainKeeps
<1>6. CASE ServerRestarts
  BY <1>6, ServerRestartsKeeps
<1>7. CASE AppKilled
  BY <1>7, AppKilledKeeps
<1>8. CASE TokenRevoked
  BY <1>8, TokenRevokedKeeps
<1>9. CASE PairedAgain
  BY <1>9, PairedAgainKeeps
<1>10. CASE KeyReplaced
  BY <1>10, KeyReplacedKeeps
<1>11. CASE UNCHANGED vars
  BY <1>11, StutterKeeps
<1> QED BY <1>1, <1>2, <1>3, <1>4, <1>5, <1>6, <1>7, <1>8, <1>9, <1>10, <1>11 DEF Next

LEMMA CaptureHolds == Spec => []CaptureInv
BY CaptureBegins, CaptureSteps, PTL DEF Spec

\* What is saved and left the queue was kept or turned away; what is in the spool has its file.  And
\* a file goes only where its bytes are up, which those of an unacceptable capture never are.
LEMMA CaptureLosesNothing == CaptureInv => NothingLost
<1> SUFFICES ASSUME CaptureInv PROVE NothingLost
    OBVIOUS
<1>1. ASSUME NEW c \in saved \ (Unacceptable \cup unwelcome \cup sealed) PROVE OnPhone(c) \/ Kept(c)
  BY DEF CaptureInv, SavedIsSafe, Safe, OutOfQueue, OnPhone
<1>2. ASSUME NEW c \in saved \cap Files \cap Unacceptable PROVE c \in files
  <2>1. c \in Captures /\ (c \in files \/ uploads[c] > 0)
    BY DEF CaptureInv, PhoneTyped, FilesStay
  <2> QED BY <2>1 DEF CaptureInv, BytesAreTaken
<1> QED BY <1>1, <1>2 DEF NothingLost

LEMMA CaptureIsSound == CaptureInv => PhoneIsSound
<1> SUFFICES ASSUME CaptureInv PROVE PhoneIsSound
    OBVIOUS
<1>1. TypeOK
  BY DEF CaptureInv, PhoneTyped, DrainsTyped, BoxTyped, ServerTyped, OthersTyped, TypeOK
<1>2. BytesBeforeNotes
  BY DEF CaptureInv, FilesStay, QueueIds, BytesBeforeNotes
<1> QED BY <1>1, <1>2 DEF PhoneIsSound

\* Two records of one capture are one, and one is not more than one.
LEMMA CaptureIsKeptOnce == CaptureInv => OnceUnlessRaced
<1> SUFFICES ASSUME CaptureInv, NEW c \in Captures \ raced PROVE Copies(c) <= 1
    BY DEF OnceUnlessRaced
<1> DEFINE S == {x \in archive : x.of = c}
<1>1. \A x, y \in S : x = y
  BY DEF CaptureInv, KeptOnce
<1>2. CASE S = {}
  <2>1. Cardinality(S) = 0
    BY <1>2, FS_EmptySet
  <2> QED BY <2>1 DEF Copies
<1>3. CASE S # {}
  <2>1. PICK x \in S : TRUE
    BY <1>3
  <2>2. S = {x}
    BY <1>1, <2>1
  <2> HIDE DEF S
  <2>3. Cardinality(S) = 1
    BY <2>2, FS_Singleton
  <2> QED BY <2>3 DEF Copies, S
<1> QED BY <1>2, <1>3

---------------------------------------------------------------------------
(* The theorems.                                                           *)

\* Whatever the phone said is saved is on the phone or in the archive, but for what a 401 turned away and
\* what a replaced vault key sealed: with any number of drains that overlap and put rows back, kills,
\* restarts and answers that are lost.  The file of a capture the archive will not take stays.
THEOREM NoCaptureIsLost == Spec => []NothingLost
BY CaptureHolds, CaptureLosesNothing, PTL

\* What is on the phone is well formed, no file is released before its bytes are up, and no note in the
\* queue names a media id the archive did not give out.
THEOREM NotesFollowTheirBytes == Spec => []PhoneIsSound
BY CaptureHolds, CaptureIsSound, PTL

\* A capture whose requests were never performed at the same time, nor cut short between performing and
\* remembering, is in the archive once at most, however often it is sent.
THEOREM KeptAtMostOnce == Spec => []OnceUnlessRaced
BY CaptureHolds, CaptureIsKeptOnce, PTL

=============================================================================
