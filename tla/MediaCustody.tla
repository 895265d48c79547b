---------------------------- MODULE MediaCustody ----------------------------
(***************************************************************************)
(* The bytes behind the catalogue, over years: the media store's writes    *)
(* (adapters/media/filesystem.py), a key rotation and the walk that        *)
(* re-encrypts everything (scripts/rotate_keys.py), a backup, its check    *)
(* and its restoration (adapters/backup.py), rot, and repair               *)
(* (application/fixity.py).                                                *)
(*                                                                         *)
(* One family; a medium stands for its content, so its file is found by    *)
(* its hash.  Path.write_bytes truncates and then writes, so a file that   *)
(* is being written is "torn" for every reader, and stays so when the      *)
(* writer is stopped.  Fernet refuses torn and rotten bytes, and those of  *)
(* a key it was not given.                                                 *)
(***************************************************************************)
EXTENDS Integers, FiniteSets, Sequences

CONSTANTS
  Media,         \* contents a family may upload
  Writers,       \* upload and repair requests under way at once
  Old, New,      \* the media keys before and after the rotation
  MaxWrites,     \* uploads and repairs that begin
  MaxMishaps     \* kills, unwritable files and rot

ASSUME CustodyAssumption == Old # New /\ MaxWrites \in Nat /\ MaxMishaps \in Nat

VARIABLES
  catalogue,  \* the rows of table media
  store,      \* the file of each medium: Gone, or [key, state]
  settings,   \* ANUVRITTI_MEDIA_KEY: the active key, then the historical ones
  ring,       \* the key ring of the running server; <<>> while it is stopped
  writer,     \* each request in put() or restore(): [at, medium, row]
  walk,       \* the rotation's walk: [at, left, medium, failed]
  erasure,    \* an erasure of the family: "no" or, with the files gone, "files"
  copy,       \* the backup: [at, rows, left, held, listed, excused]; excused are media
              \* an erasure took, or somebody was writing, while it was made
  wal,        \* does the write-ahead log of a stopped server lie beside its database
  restoring,  \* a restoration: [at, left, replayed]; was such a log replayed over it
  writes, mishaps,
  \* What the properties except: files a writer was stopped over, files rot
  \* reached, files written with the old key after the walk had listed them,
  \* files brought back with it, media whose row and file were parted by an
  \* erasure
  cut, rotten, late, broughtBack, parted

custodyVars == <<catalogue, store, settings, ring, writer, walk, erasure, copy, wal, restoring,
                 writes, mishaps, cut, rotten, late, broughtBack, parted>>

Gone == [key |-> Old, state |-> "gone"]
File(k, s) == [key |-> k, state |-> s]
OnDisk(m) == store[m] # Gone

\* KeyRing.decrypt: MultiFernet tries every key of the ring; torn and rotten bytes open with none.
Opens(f, keys) == f.state = "whole" /\ \E i \in 1 .. Len(keys) : keys[i] = f.key
\* EncryptedFilesystemMediaStore.get: the row, the file, the decryption, the hash.
Readable(m, keys) == m \in catalogue /\ OnDisk(m) /\ Opens(store[m], keys)
\* FixityEngine.audit_family: get() answers MEDIA_NOT_FOUND for a file that does not open, too.
Audit(m, keys) == IF Readable(m, keys) THEN "VERIFIED" ELSE "MISSING"

NotWalking == [at |-> "no", left |-> {}, medium |-> {}, failed |-> FALSE]
NotRestoring == [at |-> "no", left |-> {}, replayed |-> FALSE]
NoCopy == [at |-> "no", rows |-> {}, left |-> {}, held |-> [m \in Media |-> Gone],
           listed |-> [m \in Media |-> Gone], excused |-> {}]
Free == [at |-> "free", medium |-> {}, row |-> FALSE]

Serving == ring # <<>>
Listed == walk.at # "no"
Mishap == mishaps < MaxMishaps /\ mishaps' = mishaps + 1
OneMoreWrite == writes < MaxWrites /\ writes' = writes + 1

---------------------------------------------------------------------------
(* Uploads and repairs                                                     *)

\* put(): checked, hashed; the file is written only if none is there.
AfterLook(m) == IF OnDisk(m) THEN "record" ELSE "write"
PutLooks(w, m) ==
  /\ Serving /\ writer[w] = Free /\ OneMoreWrite
  /\ writer' = [writer EXCEPT ![w] = [at |-> AfterLook(m), medium |-> {m}, row |-> TRUE]]
  /\ UNCHANGED <<catalogue, store, settings, ring, walk, erasure, copy, wal, restoring, mishaps,
                 cut, rotten, late, broughtBack, parted>>

\* FixityEngine.repair_media: a row of the family, bytes of the recorded hash; then
\* EncryptedFilesystemMediaStore.restore() writes over what is there, readable or not.
RepairBegins(w, m) ==
  /\ Serving /\ writer[w] = Free /\ m \in catalogue /\ OneMoreWrite
  /\ writer' = [writer EXCEPT ![w] = [at |-> "write", medium |-> {m}, row |-> FALSE]]
  /\ UNCHANGED <<catalogue, store, settings, ring, walk, erasure, copy, wal, restoring, mishaps,
                 cut, rotten, late, broughtBack, parted>>

\* write_bytes opens the file ...
Truncates(w) ==
  /\ writer[w].at = "write"
  /\ \E m \in writer[w].medium : store' = [store EXCEPT ![m] = File(Head(ring), "torn")]
  /\ writer' = [writer EXCEPT ![w].at = "writing"]
  /\ UNCHANGED <<catalogue, settings, ring, walk, erasure, copy, wal, restoring, writes, mishaps,
                 cut, rotten, late, broughtBack, parted>>

\* ... and writes it, encrypted with the active key of the server's ring.  An unlinked
\* file takes the bytes and stays unlinked.
AfterWrite(w) == IF writer[w].row THEN [writer[w] EXCEPT !.at = "record"] ELSE Free
Writes(w) ==
  /\ writer[w].at = "writing"
  /\ \E m \in writer[w].medium :
       /\ store' = IF OnDisk(m) THEN [store EXCEPT ![m] = File(Head(ring), "whole")] ELSE store
       /\ cut' = cut \ {m} /\ rotten' = rotten \ {m} /\ broughtBack' = broughtBack \ {m}
       /\ late' = IF Listed /\ Head(ring) = Old THEN late \cup {m} ELSE late \ {m}
  /\ writer' = [writer EXCEPT ![w] = AfterWrite(w)]
  /\ UNCHANGED <<catalogue, settings, ring, walk, erasure, copy, wal, restoring, writes, mishaps, parted>>

Records(w) ==
  /\ writer[w].at = "record"
  /\ catalogue' = catalogue \cup writer[w].medium
  /\ writer' = [writer EXCEPT ![w] = Free]
  /\ UNCHANGED <<store, settings, ring, walk, erasure, copy, wal, restoring, writes, mishaps,
                 cut, rotten, late, broughtBack, parted>>

\* The disk is full, or the file cannot be opened: the request answers 500.
WriteFails(w) ==
  /\ writer[w].at \in {"write", "writing"} /\ Mishap
  /\ cut' = IF writer[w].at = "writing" THEN cut \cup writer[w].medium ELSE cut
  /\ writer' = [writer EXCEPT ![w] = Free]
  /\ UNCHANGED <<catalogue, store, settings, ring, walk, erasure, copy, wal, restoring, writes,
                 rotten, late, broughtBack, parted>>

\* delete_for_family: every file, then every row.
InFlight == UNION {writer[w].medium : w \in Writers}
EraseFiles ==
  /\ Serving /\ erasure = "no" /\ catalogue # {}
  /\ store' = [m \in Media |-> Gone] /\ erasure' = "files"
  /\ parted' = parted \cup catalogue \cup InFlight
  /\ copy' = [copy EXCEPT !.excused = @ \cup copy.left]
  /\ UNCHANGED <<catalogue, settings, ring, writer, walk, wal, restoring, writes, mishaps,
                 cut, rotten, late, broughtBack>>
EraseRows ==
  /\ erasure = "files"
  /\ catalogue' = {} /\ erasure' = "no" /\ parted' = InFlight
  /\ UNCHANGED <<store, settings, ring, writer, walk, copy, wal, restoring, writes, mishaps,
                 cut, rotten, late, broughtBack>>

---------------------------------------------------------------------------
(* The server's life and the key rotation                                  *)

Writing == {m \in Media : \E w \in Writers : writer[w].at = "writing" /\ m \in writer[w].medium}
StoppedWith ==
  /\ ring' = <<>> /\ writer' = [w \in Writers |-> Free] /\ erasure' = "no"
  /\ cut' = cut \cup Writing
  /\ UNCHANGED <<catalogue, store, settings, walk, copy, restoring, writes, rotten, late, broughtBack, parted>>
\* The operator stops an idle server; a kill finds it as it is.  Nothing calls Container.close,
\* so only the interpreter's end may close the connections, and the log with the last of them.
Stop == /\ Serving /\ erasure = "no" /\ (\A w \in Writers : writer[w] = Free) /\ StoppedWith
        /\ wal' \in BOOLEAN /\ UNCHANGED mishaps
Killed == Serving /\ Mishap /\ StoppedWith /\ wal' = TRUE
Start ==
  /\ ~Serving /\ restoring.at # "files"
  /\ ring' = settings /\ wal' = FALSE
  /\ restoring' = IF restoring.at = "done" THEN [restoring EXCEPT !.at = "served"] ELSE restoring
  /\ UNCHANGED <<catalogue, store, settings, writer, walk, erasure, copy, writes, mishaps,
                 cut, rotten, late, broughtBack, parted>>

\* A new key is put in front of the old one.
Promote ==
  /\ settings = <<Old>> /\ settings' = <<New, Old>>
  /\ UNCHANGED <<catalogue, store, ring, writer, walk, erasure, copy, wal, restoring, writes, mishaps,
                 cut, rotten, late, broughtBack, parted>>

\* rotate_keys.py with the settings' keys: rewrap_directory lists the files ...
WalkLists ==
  /\ settings = <<New, Old>> /\ walk = NotWalking /\ restoring.at \in {"no", "served"}
  /\ walk' = [NotWalking EXCEPT !.at = "walking", !.left = {m \in Media : OnDisk(m)}]
  /\ UNCHANGED <<catalogue, store, settings, ring, writer, erasure, copy, wal, restoring, writes, mishaps,
                 cut, rotten, late, broughtBack, parted>>

\* ... reads one; one that opens with no key is named, not skipped ...
WalkReads(m) ==
  /\ walk.at = "walking" /\ m \in walk.left /\ OnDisk(m)
  /\ IF Opens(store[m], settings)
     THEN walk' = [walk EXCEPT !.at = "read", !.medium = {m}, !.left = @ \ {m}]
     ELSE walk' = [walk EXCEPT !.left = @ \ {m}, !.failed = TRUE]
  /\ UNCHANGED <<catalogue, store, settings, ring, writer, erasure, copy, wal, restoring, writes, mishaps,
                 cut, rotten, late, broughtBack, parted>>

\* ... opens it again, which truncates it (rotate() always gives new bytes) ...
WalkTruncates ==
  /\ walk.at = "read"
  /\ \E m \in walk.medium : OnDisk(m) /\ store' = [store EXCEPT ![m] = File(New, "torn")]
  /\ walk' = [walk EXCEPT !.at = "writing"]
  /\ UNCHANGED <<catalogue, settings, ring, writer, erasure, copy, wal, restoring, writes, mishaps,
                 cut, rotten, late, broughtBack, parted>>

\* ... and writes what it had read, under the active key.
WalkWrites ==
  /\ walk.at = "writing"
  /\ \E m \in walk.medium :
       /\ store' = IF OnDisk(m) THEN [store EXCEPT ![m] = File(New, "whole")] ELSE store
       /\ cut' = cut \ {m} /\ rotten' = rotten \ {m} /\ late' = late \ {m}
       /\ broughtBack' = broughtBack \ {m}
  /\ walk' = [walk EXCEPT !.at = "walking", !.medium = {}]
  /\ UNCHANGED <<catalogue, settings, ring, writer, erasure, copy, wal, restoring, writes, mishaps, parted>>

\* A file listed and gone when it is opened raises; so does a kill.
WalkBreaks ==
  /\ walk.at \in {"walking", "read", "writing"}
  /\ \/ /\ walk.at # "writing" /\ UNCHANGED mishaps
        /\ \E m \in walk.left \cup walk.medium : ~OnDisk(m)
     \/ Mishap
  /\ cut' = IF walk.at = "writing" THEN cut \cup {m \in walk.medium : OnDisk(m)} ELSE cut
  /\ walk' = [NotWalking EXCEPT !.at = "broken"]
  /\ UNCHANGED <<catalogue, store, settings, ring, writer, erasure, copy, wal, restoring, writes,
                 rotten, late, broughtBack, parted>>

WalkEnds ==
  /\ walk.at = "walking" /\ walk.left = {}
  /\ walk' = [walk EXCEPT !.at = "done"]
  /\ UNCHANGED <<catalogue, store, settings, ring, writer, erasure, copy, wal, restoring, writes, mishaps,
                 cut, rotten, late, broughtBack, parted>>

\* Rewrap.retirable: no file was left behind; then the operator drops the old key.
RetirableByCount == walk.at = "done"   \* mutant: the report is a count
Retirable == walk.at = "done" /\ ~walk.failed
Retire ==
  /\ settings = <<New, Old>> /\ Retirable
  /\ settings' = <<New>>
  /\ UNCHANGED <<catalogue, store, ring, writer, walk, erasure, copy, wal, restoring, writes, mishaps,
                 cut, rotten, late, broughtBack, parted>>
\* After a walk that broke or left files behind, the operator runs it again.
WalkAgain ==
  /\ walk.at = "broken" \/ (walk.at = "done" /\ walk.failed)
  /\ walk' = NotWalking
  /\ UNCHANGED <<catalogue, store, settings, ring, writer, erasure, copy, wal, restoring, writes, mishaps,
                 cut, rotten, late, broughtBack, parted>>

---------------------------------------------------------------------------
(* Backup, rot, restoration                                                *)

\* create_backup: SQLite's online backup first; the last connection to close takes the log with it ...
BackupBegins ==
  /\ copy = NoCopy /\ catalogue # {}
  /\ copy' = [NoCopy EXCEPT !.at = "files", !.rows = catalogue, !.left = Media, !.excused = parted]
  /\ wal' = FALSE
  /\ UNCHANGED <<catalogue, store, settings, ring, writer, walk, erasure, restoring, writes, mishaps,
                 cut, rotten, late, broughtBack, parted>>

Spoilt(m) == m \in cut \cup rotten \cup parted \cup Writing \cup walk.medium
\* ... then each file as it is, its hash taken from the copy ...
BackupCopies(m) ==
  /\ copy.at = "files" /\ m \in copy.left
  /\ copy' = [copy EXCEPT !.left = @ \ {m}, !.held = [@ EXCEPT ![m] = store[m]],
                           !.listed = [@ EXCEPT ![m] = store[m]],
                           !.excused = IF Spoilt(m) THEN @ \cup {m} ELSE @]
  /\ UNCHANGED <<catalogue, store, settings, ring, writer, walk, erasure, wal, restoring, writes, mishaps,
                 cut, rotten, late, broughtBack, parted>>

\* ... and the manifest last, without which verify_backup refuses the directory.
BackupEnds ==
  /\ copy.at = "files" /\ copy.left = {}
  /\ copy' = [copy EXCEPT !.at = "done"]
  /\ UNCHANGED <<catalogue, store, settings, ring, writer, walk, erasure, wal, restoring, writes, mishaps,
                 cut, rotten, late, broughtBack, parted>>

\* Years pass over a file, here or in the backup.
Rots(m) ==
  /\ Mishap /\ restoring.at \in {"no", "served"}
  /\ \/ /\ store[m].state = "whole" /\ m \notin Writing /\ m \notin walk.medium
        /\ store' = [store EXCEPT ![m].state = "rotten"] /\ rotten' = rotten \cup {m}
        /\ UNCHANGED copy
     \/ /\ copy.at = "done" /\ copy.held[m].state = "whole"
        /\ copy' = [copy EXCEPT !.held[m].state = "rotten"]
        /\ UNCHANGED <<store, rotten>>
  /\ UNCHANGED <<catalogue, settings, ring, writer, walk, erasure, wal, restoring, writes,
                 cut, late, broughtBack, parted>>

\* verify_backup: the manifest is there and every file it lists has its hash.
VerifiedByName == copy.at = "done" /\ \A m \in Media : copy.listed[m] # Gone => copy.held[m] # Gone   \* mutant: no hashes
Verified == copy.at = "done" /\ copy.held = copy.listed
\* restore_backup, of a stopped server: the database's main file first.  A log that lies beside
\* it is replayed over it, page by page, by the connection that asks for quick_check: rows of the
\* snapshot and of the stopped server, and an answer that may be "ok" or not.
RestoreBegins ==
  /\ ~Serving /\ restoring.at = "no" /\ Verified /\ walk.at \notin {"walking", "read", "writing"}
  /\ IF wal THEN catalogue' \in SUBSET (catalogue \cup copy.rows) ELSE catalogue' = copy.rows
  /\ \/ /\ restoring' = [at |-> "files", left |-> {m \in Media : copy.held[m] # Gone}, replayed |-> wal]
        /\ UNCHANGED parted
     \/ wal /\ parted' = parted \cup copy.rows /\ UNCHANGED restoring   \* Err, and no file restored
  /\ wal' = FALSE
  /\ UNCHANGED <<store, settings, ring, writer, walk, erasure, copy, writes, mishaps,
                 cut, rotten, late, broughtBack>>

\* ... then every file, over what is there; files the backup does not have stay.
RestoreCopies(m) ==
  /\ restoring.at = "files" /\ m \in restoring.left
  /\ restoring' = [restoring EXCEPT !.left = @ \ {m}]
  /\ store' = [store EXCEPT ![m] = copy.held[m]]
  /\ broughtBack' = IF copy.held[m].key = Old /\ Listed THEN broughtBack \cup {m} ELSE broughtBack
  /\ cut' = IF copy.held[m].state = "torn" THEN cut \cup {m} ELSE cut \ {m}
  /\ rotten' = IF copy.held[m].state = "rotten" THEN rotten \cup {m} ELSE rotten \ {m}
  /\ UNCHANGED <<catalogue, settings, ring, writer, walk, erasure, copy, wal, writes, mishaps, late, parted>>

RestoreEnds ==
  /\ restoring.at = "files" /\ restoring.left = {}
  /\ restoring' = [restoring EXCEPT !.at = "done"]
  /\ parted' = parted \cup {m \in copy.rows : copy.held[m] = Gone}
  /\ UNCHANGED <<catalogue, store, settings, ring, writer, walk, erasure, copy, wal, writes, mishaps,
                 cut, rotten, late, broughtBack>>

\* Killed between two files, it leaves the new database over some of the old ones; it is run again.
RestoreStops ==
  /\ restoring.at = "files" /\ restoring.left # {} /\ Mishap
  /\ \/ UNCHANGED <<store, cut>>
     \/ \E m \in restoring.left : /\ store' = [store EXCEPT ![m] = File(copy.held[m].key, "torn")]
                                  /\ cut' = cut \cup {m}
  /\ restoring' = NotRestoring
  /\ parted' = parted \cup copy.rows
  /\ UNCHANGED <<catalogue, settings, ring, writer, walk, erasure, copy, wal, writes, rotten, late, broughtBack>>

---------------------------------------------------------------------------
CustodyInit ==
  /\ \E M \in SUBSET Media :
       /\ catalogue = M
       /\ store = [m \in Media |-> IF m \in M THEN File(Old, "whole") ELSE Gone]
  /\ settings = <<Old>> /\ ring = <<Old>>
  /\ writer = [w \in Writers |-> Free]
  /\ walk = NotWalking /\ erasure = "no" /\ copy = NoCopy /\ wal = FALSE /\ restoring = NotRestoring
  /\ writes = 0 /\ mishaps = 0
  /\ cut = {} /\ rotten = {} /\ late = {} /\ broughtBack = {} /\ parted = {}

CustodyNext ==
  \/ \E w \in Writers, m \in Media : PutLooks(w, m) \/ RepairBegins(w, m)
  \/ \E w \in Writers : Truncates(w) \/ Writes(w) \/ Records(w) \/ WriteFails(w)
  \/ EraseFiles \/ EraseRows \/ Stop \/ Killed \/ Start
  \/ Promote \/ WalkLists \/ (\E m \in Media : WalkReads(m)) \/ WalkTruncates \/ WalkWrites \/ WalkEnds
  \/ WalkBreaks \/ Retire \/ WalkAgain
  \/ BackupBegins \/ (\E m \in Media : BackupCopies(m)) \/ BackupEnds \/ (\E m \in Media : Rots(m))
  \/ RestoreBegins \/ (\E m \in Media : RestoreCopies(m)) \/ RestoreEnds \/ RestoreStops

CustodySpec == CustodyInit /\ [][CustodyNext]_custodyVars

---------------------------------------------------------------------------
(* Properties                                                              *)

CustodyTypeOK ==
  LET Files == {Gone} \cup [key : {Old, New}, state : {"whole", "torn", "rotten"}] IN
  /\ catalogue \subseteq Media /\ store \in [Media -> Files]
  /\ settings \in {<<Old>>, <<New, Old>>, <<New>>} /\ ring \in {<<>>, <<Old>>, <<New, Old>>, <<New>>}
  /\ \A w \in Writers : writer[w].medium \subseteq Media /\ Cardinality(writer[w].medium) <= 1
  /\ \A w \in Writers : writer[w].at \in {"free", "write", "writing", "record"}
  /\ walk.left \subseteq Media /\ walk.at \in {"no", "walking", "read", "writing", "done", "broken"}
  /\ Cardinality(walk.medium) = IF walk.at \in {"read", "writing"} THEN 1 ELSE 0
  /\ copy.rows \cup copy.left \cup copy.excused \subseteq Media /\ copy.held \in [Media -> Files] /\ copy.listed \in [Media -> Files]
  /\ wal \in BOOLEAN /\ restoring.left \subseteq Media /\ writes \in 0 .. MaxWrites /\ mishaps \in 0 .. MaxMishaps

\* What the catalogue promises is on disk and opens, at once or after the restart that
\* brings the server its settings: through uploads that overlap, a
\* rotation at any moment, repairs, restorations and restarts.  Excepted are a file that
\* is being written or whose writer was stopped, one that rotted, one whose row or file an
\* erasure or a partial restoration took, and one left under, or brought back with, a key
\* that was retired since.
BytesBehindRows ==
  Serving =>
    \A m \in catalogue \ (parted \cup rotten) :
      /\ OnDisk(m)
      /\ store[m].state = "torn" => m \in cut \cup Writing \cup walk.medium
      /\ store[m].state = "whole" =>
           "VERIFIED" \in {Audit(m, ring), Audit(m, settings)} \/ m \in late \cup broughtBack

\* "Ok" from restore_backup: the rows are the snapshot's, and behind every one of them is the file
\* the backup copied, whole.  Excepted are rows over which a stopped server's log was replayed,
\* and the files of what an erasure took after the snapshot, or what was being written, or was
\* spoilt already, when it was copied.
RestoredIsWhole ==
  restoring.at = "done" =>
    /\ catalogue = copy.rows \/ restoring.replayed
    /\ \A m \in copy.rows \ copy.excused : store[m] = copy.listed[m] /\ store[m].state = "whole"
=============================================================================
