--------------------------- MODULE OfflineCapture ---------------------------
(***************************************************************************)
(* One capture's way from the phone to the archive: the outbox of files    *)
(* (apps/anuvritti/src/upload/spool.ts), the queue of captures             *)
(* (packages/client/src/runtime/queue.ts), and the server's idempotency    *)
(* ledger (interfaces/http/idempotency.py).                                *)
(*                                                                         *)
(* A capture is its idempotency key.  Its body is abstracted to the media  *)
(* id in it, NoMedia for one that points at no file.  A row's clock is     *)
(* abstracted to `due`; a drain reads its list once, so what is not due    *)
(* then is skipped by that drain.  The order of a list is left open.       *)
(*                                                                         *)
(* provider.tsx starts a drain on launch, on the network, on coming to the *)
(* front and after a share, and never waits for the one before: several    *)
(* run at once, each on its own snapshot.  A step is one await.            *)
(***************************************************************************)
EXTENDS Integers, FiniteSets

CONSTANTS
  Captures,
  Files,         \* captures that are a file first: recordings and photographs
  Voice,         \* the recordings; a voice note's identity is its media id
  Unacceptable,  \* captures the server refuses for good: 413, 415, 422
  Drains,        \* drains at once
  Requests,      \* requests the server works on at once
  Absent,        \* no row
  Nobody,        \* no one is waiting for this request any more
  Revocable,     \* TRUE: the device's token may stop working
  VaultMayFail,  \* TRUE: the keychain may fail to read the vault's key
  MaxFaults      \* bound: failures in a run

ASSUME CapturesAssumption ==
  /\ Voice \subseteq Files
  /\ Files \subseteq Captures
  /\ Unacceptable \subseteq Captures
  /\ Nobody \notin Drains
  /\ Revocable \in BOOLEAN /\ VaultMayFail \in BOOLEAN
  /\ MaxFaults \in Nat

NoMedia == 0

Stored == [media : Nat, due : BOOLEAN]   \* a row of `spooled` or of `pending`
Entry  == [of : Captures, media : Nat]   \* what a drain remembers of a row

ASSUME AbsentAssumption ==
  Absent \notin Stored /\ Absent \notin Entry /\ Absent \notin Nat

VARIABLES
  saved,    \* captures the phone has said "Saved." of
  files,    \* captures whose file is in the app's keeping
  spool,    \* table spooled
  queue,    \* table pending
  drain,    \* the drains in progress
  paired,   \* the token is good
  sealed,   \* captures whose row in the queue the vault can no longer open
  uploads,  \* how often each capture's bytes have been stored: its media ids
  archive,  \* the Sparks and voice notes the captures became
  ledger,   \* table idempotency: the body each key was first used for
  server,   \* requests in progress on the server
  raced,    \* history: captures performed twice at once, or cut short in between
  unwelcome,  \* history: captures answered 401 at some time
  faults

phone == <<saved, files, spool, queue>>
box   == <<uploads, archive, ledger>>
history == <<raced, unwelcome>>
keys  == <<paired, sealed>>
vars  == <<phone, drain, keys, box, server, history, faults>>

Stages == { "idle", "listing", "spool", "uploading", "uploaded", "queued", "removed",
            "queue", "sending" }

Drain == [ stage : Stages,
           todo  : SUBSET Entry,          \* the rest of its snapshot
           on    : Entry \cup {Absent},   \* the entry in hand
           keeps : BOOLEAN ]              \* started by keepRecording: no queue half

Asleep == [stage |-> "idle", todo |-> {}, on |-> Absent, keeps |-> FALSE]

Request == [ of : Captures, media : Nat, from : Drains \cup {Nobody},
             stage : {"arrived", "performing", "performed", "kept", "refused", "dead"} ]

ASSUME RequestAssumption == Absent \notin Request

Init ==
  /\ saved = {} /\ files = {}
  /\ spool = [c \in Captures |-> Absent]
  /\ queue = [c \in Captures |-> Absent]
  /\ drain = [d \in Drains |-> Asleep]
  /\ paired = TRUE /\ sealed = {}
  /\ uploads = [c \in Captures |-> 0]
  /\ archive = {}
  /\ ledger = [c \in Captures |-> Absent]
  /\ server = [r \in Requests |-> Absent]
  /\ raced = {}
  /\ unwelcome = {}
  /\ faults = 0

---------------------------------------------------------------------------
(* The two tables.  put is one upsert used for append and replace alike.   *)

Due(table) == {[of |-> c, media |-> table[c].media] :
                 c \in {x \in Captures : table[x] # Absent /\ table[x].due}}

\* encryptedQueueStore.list skips the rows it cannot decrypt; they stay in the table.
DueToSend == {entry \in Due(queue) : entry.of \notin sealed}

\* spool-store.ts: a row already there takes the new media id too.
PutSpool(entry, due) ==
  spool' = [spool EXCEPT ![entry.of] = [media |-> entry.media, due |-> due]]

\* queue-store.ts: a row already there keeps its body.
PutQueue(entry, due) ==
  queue' = [queue EXCEPT ![entry.of] =
              [media |-> IF @ = Absent THEN entry.media ELSE @.media, due |-> due]]

Without(table, c) == [table EXCEPT ![c] = Absent]

Goes(d, stage) == drain' = [drain EXCEPT ![d].stage = stage]
Onward(d, stage) == drain' = [drain EXCEPT ![d] = [@ EXCEPT !.stage = stage, !.on = Absent]]

\* The next entry of the list is in hand.
Takes(d, entry, stage) == drain' = [drain EXCEPT ![d] =
  [stage |-> stage, todo |-> drain[d].todo \ {entry}, on |-> entry, keeps |-> drain[d].keeps]]

Fault == faults < MaxFaults /\ faults' = faults + 1

---------------------------------------------------------------------------
(* Saving: written down before it is sent, and never with the network.     *)

New(c) == c \notin saved /\ saved' = saved \cup {c}

EnqueueCapture(c) ==
  /\ c \notin Files
  /\ New(c)
  /\ PutQueue([of |-> c, media |-> NoMedia], TRUE)
  /\ UNCHANGED <<files, spool, drain, keys, box, server, history, faults>>

\* custody.keep, then the row.  A kill between the two leaves a file that
\* nobody was told is saved.
Spooled(c) ==
  /\ New(c)
  /\ files' = files \cup {c}
  /\ PutSpool([of |-> c, media |-> NoMedia], TRUE)

SpoolShare(c) ==
  /\ c \in Files \ Voice
  /\ Spooled(c)
  /\ UNCHANGED <<queue, drain, keys, box, server, history, faults>>

\* keepRecording drains the outbox itself as soon as the row is written.
KeepRecording(c, d) ==
  /\ c \in Voice
  /\ drain[d] = Asleep
  /\ Spooled(c)
  /\ drain' = [drain EXCEPT ![d] = [Asleep EXCEPT !.stage = "listing", !.keeps = TRUE]]
  /\ UNCHANGED <<queue, keys, box, server, history, faults>>

---------------------------------------------------------------------------
(* Outbox.drain.                                                           *)

StartDrain(d) ==
  /\ drain[d].stage \in {"idle", "listing"}
  /\ drain' = [drain EXCEPT ![d] = [@ EXCEPT !.stage = "spool", !.todo = Due(spool)]]
  /\ UNCHANGED <<phone, keys, box, server, history, faults>>

\* Slips: a row whose bytes are up is taken for done; the upload is forgotten.
NextForFileHasty(media) == IF media = NoMedia THEN "uploading" ELSE "queued"
NextForFileBlind(media) == "uploaded"

\* A row that has its media id skips straight past the upload.
NextForFile(media) == IF media = NoMedia THEN "uploading" ELSE "uploaded"

TakeFile(d) == \E entry \in drain[d].todo :
  /\ drain[d].stage = "spool"
  /\ Takes(d, entry, NextForFile(entry.media))
  /\ UNCHANGED <<phone, keys, box, server, history, faults>>

Uploading(d) == drain[d].stage = "uploading"
InHand(d) == drain[d].on

\* POST /v1/media gives the bytes a new id every time; the row takes it.
BytesStored(c) == uploads' = [uploads EXCEPT ![c] = @ + 1]

UploadSucceeds(d) == LET c == InHand(d).of IN
  /\ Uploading(d)
  /\ paired /\ c \in files \ Unacceptable
  /\ BytesStored(c)
  /\ PutSpool([of |-> c, media |-> uploads'[c]], TRUE)
  /\ drain' = [drain EXCEPT ![d] =
       [@ EXCEPT !.stage = "uploaded", !.on = [InHand(d) EXCEPT !.media = uploads'[c]]]]
  /\ UNCHANGED <<saved, files, queue, keys, archive, ledger, server, history, faults>>

\* A slip: a refusal is tried again at once.
AfterRefusalStubborn == "uploading"

AfterRefusal == "spool"

\* Not retryable: out of the spool, and the file stays where it is.
UploadRefused(d) == LET c == InHand(d).of IN
  /\ Uploading(d)
  /\ \/ ~ paired /\ unwelcome' = unwelcome \cup {c}
     \/ paired /\ c \in files \cap Unacceptable /\ UNCHANGED unwelcome
  /\ spool' = Without(spool, c)
  /\ Goes(d, AfterRefusal)
  /\ UNCHANGED <<saved, files, queue, keys, box, server, raced, faults>>

\* Retryable: no network, no answer (the bytes may be stored all the same), or
\* no file to read.  The row is put back as this drain remembers it.
UploadFails(d) == LET c == InHand(d).of IN
  /\ Uploading(d)
  /\ \/ c \notin files /\ UNCHANGED <<uploads, faults>>
     \/ Fault /\ UNCHANGED uploads
     \/ Fault /\ paired /\ c \in files \ Unacceptable /\ BytesStored(c)
  /\ PutSpool(InHand(d), FALSE)
  /\ drain' = [drain EXCEPT ![d] = [Asleep EXCEPT !.stage = "spool", !.keeps = drain[d].keeps]]
  /\ UNCHANGED <<saved, files, queue, keys, archive, ledger, server, history>>

\* Queued under the row's own id.
QueueFollowOn(d) ==
  /\ drain[d].stage = "uploaded"
  /\ PutQueue(InHand(d), TRUE)
  /\ Goes(d, "queued")
  /\ UNCHANGED <<saved, files, spool, keys, box, server, history, faults>>

RemoveRow(d) ==
  /\ drain[d].stage = "queued"
  /\ spool' = Without(spool, InHand(d).of)
  /\ Goes(d, "removed")
  /\ UNCHANGED <<saved, files, queue, keys, box, server, history, faults>>

ReleaseFile(d) ==
  /\ drain[d].stage = "removed"
  /\ files' = files \ {InHand(d).of}
  /\ Onward(d, "spool")
  /\ UNCHANGED <<saved, spool, queue, keys, box, server, history, faults>>

\* The provider goes on to the queue; keepRecording stops here.
OutboxDone(d) ==
  /\ drain[d].stage = "spool" /\ drain[d].todo = {}
  /\ drain' = [drain EXCEPT ![d] =
       IF @.keeps THEN Asleep
       ELSE [Asleep EXCEPT !.stage = "queue", !.todo = DueToSend]]
  /\ UNCHANGED <<phone, keys, box, server, history, faults>>

---------------------------------------------------------------------------
(* CaptureQueue.drain.                                                     *)

Send(d) == \E entry \in drain[d].todo, r \in Requests :
  /\ drain[d].stage = "queue"
  /\ server[r] = Absent
  /\ server' = [server EXCEPT ![r] = [of |-> entry.of, media |-> entry.media,
                                      from |-> d, stage |-> "arrived"]]
  /\ Takes(d, entry, "sending")
  /\ UNCHANGED <<phone, keys, box, history, faults>>

QueueDone(d) ==
  /\ drain[d].stage = "queue" /\ drain[d].todo = {}
  /\ drain' = [drain EXCEPT ![d] = Asleep]
  /\ UNCHANGED <<phone, keys, box, server, history, faults>>

Awaits(d, r) == drain[d].stage = "sending" /\ server[r] # Absent /\ server[r].from = d

\* Sent, or refused in a way no retry can fix: out of the queue either way.
Answered(d) == \E r \in Requests :
  /\ Awaits(d, r) /\ server[r].stage \in {"kept", "refused"}
  /\ queue' = Without(queue, InHand(d).of)
  /\ sealed' = sealed \ {InHand(d).of}
  /\ server' = [server EXCEPT ![r] = Absent]
  /\ Onward(d, "queue")
  /\ UNCHANGED <<saved, files, spool, paired, box, history, faults>>

\* Offline, 429 or 5xx (the request is gone), or no answer in eight seconds (it
\* goes on without us).  The row is put back with a backoff, and the drain ends.
SendFails(d) == \E r \in Requests :
  /\ Awaits(d, r)
  /\ \/ server[r].stage = "dead" /\ server' = [server EXCEPT ![r] = Absent]
                                 /\ UNCHANGED faults
     \/ server[r].stage \in {"arrived", "performing"} /\ Fault
          /\ server' = [server EXCEPT ![r] = Absent]
     \/ server[r].stage # "dead" /\ Fault
          /\ server' = [server EXCEPT ![r].from = Nobody]
  /\ PutQueue(InHand(d), FALSE)
  /\ drain' = [drain EXCEPT ![d] = Asleep]
  /\ UNCHANGED <<saved, files, spool, keys, box, history>>

---------------------------------------------------------------------------
(* The server: authenticate, recall, perform, remember, as four steps that *)
(* requests with one key may take at the same time.  Each write is taken   *)
(* to last: what another request's rollback may undo is in UnitOfWork.     *)

Moves(r, stage) == server' = [server EXCEPT ![r].stage = stage]

AtWork(c) == {r \in Requests : /\ server[r] # Absent /\ server[r].of = c
                               /\ server[r].stage \in {"performing", "performed"}}

\* A slip: the ledger answers only when the body is the same.
RecalledForgetful(key, media) == ledger[key] = media
Recalled(key, media) == ledger[key] # Absent

Recall(r) == LET c == server[r].of IN
  /\ server[r] # Absent /\ server[r].stage = "arrived"
  /\ CASE ~ paired ->
            Moves(r, "refused") /\ unwelcome' = unwelcome \cup {c} /\ UNCHANGED raced
       [] paired /\ Recalled(c, server[r].media) ->
            /\ Moves(r, IF ledger[c] = server[r].media THEN "kept" ELSE "refused")
            /\ UNCHANGED history
       [] OTHER ->
            /\ Moves(r, "performing")
            /\ raced' = IF AtWork(c) = {} THEN raced ELSE raced \cup {c}
            /\ UNCHANGED unwelcome
  /\ UNCHANGED <<phone, drain, keys, box, faults>>

\* A new Spark each time; a voice note is an upsert by media id.
Made(c, media) == [ of |-> c, media |-> media,
                    copy |-> IF c \in Voice THEN 0
                             ELSE Cardinality({x \in archive : x.of = c}) ]

Perform(r) == LET c == server[r].of IN
  /\ server[r] # Absent /\ server[r].stage = "performing"
  /\ IF c \in Unacceptable
     THEN Moves(r, "refused") /\ UNCHANGED archive
     ELSE Moves(r, "performed") /\ archive' = archive \cup {Made(c, server[r].media)}
  /\ UNCHANGED <<phone, drain, keys, uploads, ledger, history, faults>>

\* ON CONFLICT DO NOTHING: the first body stays.
Remember(r) == LET c == server[r].of IN
  /\ server[r] # Absent /\ server[r].stage = "performed"
  /\ ledger' = [ledger EXCEPT ![c] = IF @ = Absent THEN server[r].media ELSE @]
  /\ Moves(r, "kept")
  /\ UNCHANGED <<phone, drain, keys, uploads, archive, history, faults>>

\* The answer to a request nobody waits for.
Drop(r) ==
  /\ server[r] # Absent
  /\ server[r].from = Nobody /\ server[r].stage \in {"kept", "refused"}
  /\ server' = [server EXCEPT ![r] = Absent]
  /\ UNCHANGED <<phone, drain, keys, box, history, faults>>

---------------------------------------------------------------------------
(* What goes wrong, and what passes with time.                             *)

ServerRestarts ==
  /\ Fault
  /\ \E r \in Requests : server[r] # Absent
  /\ server' = [r \in Requests |->
       IF server[r] = Absent \/ server[r].from = Nobody THEN Absent
       ELSE [server[r] EXCEPT !.stage = "dead"]]
  /\ raced' = raced \cup {server[r].of : r \in {q \in Requests :
                            server[q] # Absent /\ server[q].stage = "performed"}}
  /\ UNCHANGED <<phone, drain, keys, box, unwelcome>>

\* The app is killed: what it held in memory is gone, the tables are not.
AppKilled ==
  /\ Fault
  /\ \E d \in Drains : drain[d] # Asleep
  /\ drain' = [d \in Drains |-> Asleep]
  /\ server' = [r \in Requests |->
       IF server[r] = Absent \/ server[r].stage = "dead" THEN Absent
       ELSE [server[r] EXCEPT !.from = Nobody]]
  /\ UNCHANGED <<phone, keys, box, history>>

SpoolBackoffEnds(c) ==
  /\ spool[c] # Absent /\ ~ spool[c].due
  /\ spool' = [spool EXCEPT ![c].due = TRUE]
  /\ UNCHANGED <<saved, files, queue, drain, keys, box, server, history, faults>>

QueueBackoffEnds(c) ==
  /\ queue[c] # Absent /\ ~ queue[c].due
  /\ queue' = [queue EXCEPT ![c].due = TRUE]
  /\ UNCHANGED <<saved, files, spool, drain, keys, box, server, history, faults>>

\* The token stops working, here or on the server; pairing again mends it.
TokenRevoked ==
  /\ Revocable /\ paired /\ Fault
  /\ paired' = FALSE
  /\ UNCHANGED <<phone, drain, sealed, box, server, history>>
PairedAgain ==
  /\ ~ paired
  /\ paired' = TRUE
  /\ UNCHANGED <<phone, drain, sealed, box, server, history, faults>>

\* The app starts again and cannot read the vault's key: it makes a new one, and
\* stores it over the one the queue was written with.
KeyReplaced ==
  /\ VaultMayFail /\ Fault
  /\ \A d \in Drains : drain[d] = Asleep
  /\ sealed' = {c \in Captures : queue[c] # Absent}
  /\ UNCHANGED <<phone, drain, paired, box, server, history>>

---------------------------------------------------------------------------

DrainStep(d) ==
  \/ TakeFile(d) \/ UploadSucceeds(d) \/ UploadRefused(d) \/ UploadFails(d)
  \/ QueueFollowOn(d) \/ RemoveRow(d) \/ ReleaseFile(d) \/ OutboxDone(d)
  \/ Send(d) \/ Answered(d) \/ SendFails(d) \/ QueueDone(d)

ServerStep(r) == Recall(r) \/ Perform(r) \/ Remember(r) \/ Drop(r)

Next ==
  \/ \E c \in Captures : \/ EnqueueCapture(c) \/ SpoolShare(c)
                         \/ SpoolBackoffEnds(c) \/ QueueBackoffEnds(c)
  \/ \E c \in Captures, d \in Drains : KeepRecording(c, d)
  \/ \E d \in Drains : StartDrain(d) \/ DrainStep(d)
  \/ \E r \in Requests : ServerStep(r)
  \/ ServerRestarts \/ AppKilled \/ TokenRevoked \/ PairedAgain \/ KeyReplaced

\* The phone is opened again and again, time passes, code that runs goes on
\* running.  Nothing is assumed of what fails, except that a run has at most
\* MaxFaults failures.
Fairness ==
  /\ \A d \in Drains : WF_vars(StartDrain(d)) /\ WF_vars(DrainStep(d))
  /\ \A r \in Requests : WF_vars(ServerStep(r))
  /\ \A c \in Captures : WF_vars(SpoolBackoffEnds(c)) /\ WF_vars(QueueBackoffEnds(c))

Spec == Init /\ [][Next]_vars /\ Fairness

---------------------------------------------------------------------------
(* Properties.                                                             *)

\* Tables, drains and requests hold values of their types.
TypeOK ==
  /\ saved \subseteq Captures
  /\ files \subseteq Files
  /\ spool \in [Captures -> Stored \cup {Absent}]
  /\ queue \in [Captures -> Stored \cup {Absent}]
  /\ drain \in [Drains -> Drain]
  /\ paired \in BOOLEAN /\ sealed \subseteq Captures
  /\ uploads \in [Captures -> Nat]
  /\ archive \subseteq [of : Captures, media : Nat, copy : Nat]
  /\ ledger \in [Captures -> Nat \cup {Absent}]
  /\ server \in [Requests -> Request \cup {Absent}]
  /\ raced \subseteq Captures /\ unwelcome \subseteq Captures
  /\ faults \in 0 .. MaxFaults

Copies(c) == Cardinality({x \in archive : x.of = c})
Kept(c) == \E x \in archive : x.of = c

\* On the phone, in a shape that can still be sent.
OnPhone(c) ==
  \/ queue[c] # Absent /\ c \notin sealed
  \/ spool[c] # Absent /\ (spool[c].media # NoMedia \/ c \in files)

\* "The queue stays" (provider.tsx:106): what the phone said is saved is on the
\* phone until the archive has it, whatever becomes of the token.
TheQueueStays == \A c \in saved \ Unacceptable : OnPhone(c) \/ Kept(c)

\* Nothing is lost but what the server turned away with a 401, or what a replaced
\* vault key sealed: not by overlapping drains that put back what another removed,
\* nor by a kill, a restart or a lost answer anywhere.  And "nothing is deleted because
\* a server said no" (spool.ts:39): the file of a capture the archive will not take is
\* never released.
NothingLost ==
  /\ \A c \in saved \ (Unacceptable \cup unwelcome \cup sealed) : OnPhone(c) \/ Kept(c)
  /\ saved \cap Files \cap Unacceptable \subseteq files

\* A file leaves the phone only once the archive holds its bytes, and a body in
\* the queue only names a media id the archive gave out.
BytesBeforeNotes ==
  /\ \A c \in saved \cap Files : c \in files \/ uploads[c] > 0
  /\ \A c \in Files : queue[c] # Absent => queue[c].media \in 1 .. uploads[c]

\* What lies on the phone is well formed, and no note runs ahead of its bytes.
PhoneIsSound == TypeOK /\ BytesBeforeNotes

\* The ledger's promise as far as the code keeps it: a capture is in the archive
\* twice only if two requests with its key were performed at the same time, or
\* the server stopped between performing and remembering one.
OnceUnlessRaced == \A c \in Captures \ raced : Copies(c) <= 1

\* The phone and the server together implement CapturePromise, its liveness
\* included: what is saved is safe until it is kept, and it is kept in the end.
Where(c) ==
  CASE c \notin saved -> "unsaved"
    [] Kept(c)        -> "kept"
    [] OnPhone(c)     -> "safe"
    [] c \in saved /\ ~ Kept(c) /\ ~ OnPhone(c) -> "refused"

Promise == INSTANCE CapturePromise WITH stands <- [c \in Captures |-> Where(c)]

CapturesArrive == Promise!Spec

=============================================================================
