----------------------------- MODULE FutureInbox -----------------------------
(***************************************************************************)
(* The Future Inbox store (adapters/persistence/inbox.py): a letter is a   *)
(* row of the ledger and an encrypted file, published as one seal, though  *)
(* SQLite cannot take a file rename into its transaction.                  *)
(*                                                                         *)
(* Several saves and family erasures run in the threadpool of one process  *)
(* over one connection.  They hold the connection's lock from BEGIN to the *)
(* end of the `with` block; the except clause of save runs without it.     *)
(* The process may be killed, or the power lost, between any two steps,    *)
(* and recover() runs at every start before anything is served.            *)
(*                                                                         *)
(* A file's name is a hash of its letter, so a letter stands for its file  *)
(* too.  Encryption, opening and listing read and change nothing.          *)
(***************************************************************************)
EXTENDS Naturals, FiniteSets

CONSTANTS
  Families,
  Numbers,      \* letters of a family
  Texts,        \* what a letter may say
  Nothing,      \* no row, no file, no transaction
  Saves,        \* calls of save, each for any letter
  Erasures,     \* calls of delete_for_family
  Others,       \* other use cases that write through the connection
  MaxFailures,  \* bound: calls to SQLite or to the filesystem that raise
  MaxCrashes    \* bound: kills and power losses

Letters == Families \X Numbers
FamilyOf(letter) == letter[1]
OfFamily(f) == {letter \in Letters : FamilyOf(letter) = f}

Contents == [Letters -> Texts \cup {Nothing}]

ASSUME InboxAssumption ==
  /\ Nothing \notin Texts /\ Nothing \notin Contents
  /\ MaxFailures \in Nat /\ MaxCrashes \in Nat

VARIABLES
  server,     \* "down", the parts of recover(), then "up"
  families,   \* rows of family, which the ledger references
  rows,       \* the ledger as committed
  tx,         \* the ledger as the open transaction sees it, or Nothing
  file,       \* the sealed files, as the process sees them
  durable,    \* the sealed files, as a power loss would surely leave them
  temp,       \* saves whose staging file is there
  step,       \* where each save is
  letter,     \* what it saves
  text,
  published,  \* saves that renamed their file into place
  erasing,    \* where each erasure is, of which family, with what left to unlink
  other,      \* where each other use case is
  failures,   \* calls that raised
  crashes,
  promised,   \* history: letters acknowledged and not erased since
  crossed     \* history: letters that met a failed save of them still unwinding

ledger == <<rows, tx, families>>
disk   == <<file, durable, temp>>
call   == <<letter, text>>
bounds == <<failures, crashes>>
past   == <<promised, crossed>>
vars == <<server, ledger, disk, step, call, published, erasing, other, bounds, past>>

Sealing   == {"exists", "publish", "sync", "insert", "commit", "conflict"}
Unwinding == {"undo", "untemp", "unfinal"}
Ended     == {"ok", "refused", "failed", "raised", "killed"}
Steps     == {"start", "begin"} \cup Sealing \cup Unwinding \cup Ended

LockFree == /\ \A s \in Saves : step[s] \notin Sealing
            /\ \A e \in Erasures : erasing[e].step \notin {"unlink", "commit"}

Empty == [l \in Letters |-> Nothing]

Init ==
  /\ server = "up"
  /\ families = Families
  /\ rows = Empty /\ tx = Nothing
  /\ file = Empty /\ durable = Empty /\ temp = {}
  /\ step = [s \in Saves |-> "start"]
  /\ letter = [s \in Saves |-> Nothing] /\ text = [s \in Saves |-> Nothing]
  /\ published = {}
  /\ erasing = [e \in Erasures |-> [step |-> "start", family |-> Nothing, doomed |-> {}]]
  /\ other = [o \in Others |-> "start"]
  /\ failures = 0 /\ crashes = 0
  /\ promised = {} /\ crossed = {}

Goes(s, there) == step' = [step EXCEPT ![s] = there]

---------------------------------------------------------------------------
(* save                                                                    *)

\* The artifact was verified against the ledger entry: one text for both.  The
\* staging file is private to the call, and durable before the lock is asked for.
Stage(s) ==
  /\ step[s] = "start" /\ server = "up"
  /\ \E l \in Letters, t \in Texts :
       letter' = [letter EXCEPT ![s] = l] /\ text' = [text EXCEPT ![s] = t]
  /\ temp' = temp \cup {s}
  /\ Goes(s, "begin")
  /\ UNCHANGED <<server, ledger, file, durable, published, erasing, other, bounds, past>>

\* BEGIN IMMEDIATE raises within a transaction: some other use case's, or one
\* that was left open.
Begin(s) ==
  /\ step[s] = "begin" /\ LockFree
  /\ IF tx = Nothing THEN tx' = rows /\ Goes(s, "exists")
                     ELSE UNCHANGED tx /\ Goes(s, "undo")
  /\ UNCHANGED <<server, rows, families, disk, call, published, erasing, other, bounds, past>>

Stored(l) == tx[l] # Nothing

Exists(s) ==
  /\ step[s] = "exists"
  /\ IF Stored(letter[s]) THEN tx' = Nothing /\ Goes(s, "conflict")
                          ELSE UNCHANGED tx /\ Goes(s, "publish")
  /\ UNCHANGED <<server, rows, families, disk, call, published, erasing, other, bounds, past>>

Conflict(s) ==
  /\ step[s] = "conflict"
  /\ temp' = temp \ {s}
  /\ Goes(s, "refused")
  /\ UNCHANGED <<server, ledger, file, durable, call, published, erasing, other, bounds, past>>

\* Saves of the same letter that failed after publishing and still unwind.
Rivals(l) == {s \in published : letter[s] = l /\ step[s] \in Unwinding}

Publish(s) ==
  /\ step[s] = "publish"
  /\ file' = [file EXCEPT ![letter[s]] = text[s]]
  /\ temp' = temp \ {s}
  /\ published' = published \cup {s}
  /\ crossed' = IF Rivals(letter[s]) = {} THEN crossed ELSE crossed \cup {letter[s]}
  /\ Goes(s, "sync")
  /\ UNCHANGED <<server, ledger, durable, call, erasing, other, bounds, promised>>

\* A slip: the rename is not made durable.
SyncedNothing(f) == {}
Synced(f) == OfFamily(f)

\* A family's letters share a directory; its fsync covers them all.
FsyncDirectory(s) ==
  /\ step[s] = "sync"
  /\ durable' = [l \in Letters |->
                   IF l \in Synced(FamilyOf(letter[s])) THEN file[l] ELSE durable[l]]
  /\ Goes(s, "insert")
  /\ UNCHANGED <<server, ledger, file, temp, call, published, erasing, other, bounds, past>>

\* The primary key and the reference to family may refuse the row.
Insert(s) ==
  /\ step[s] = "insert"
  /\ IF tx[letter[s]] = Nothing /\ FamilyOf(letter[s]) \in families
       THEN tx' = [tx EXCEPT ![letter[s]] = text[s]] /\ Goes(s, "commit")
       ELSE UNCHANGED tx /\ Goes(s, "undo")
  /\ UNCHANGED <<server, rows, families, disk, call, published, erasing, other, bounds, past>>

Commit(s) ==
  /\ step[s] = "commit"
  /\ rows' = tx /\ tx' = Nothing
  /\ promised' = promised \cup {letter[s]}
  /\ Goes(s, "ok")
  /\ UNCHANGED <<server, families, disk, call, published, erasing, other, bounds, crossed>>

\* OSError or sqlite3.Error inside the try block; leaving it releases the lock
\* and not the transaction.
Raise(s) ==
  /\ step[s] \in {"begin"} \cup Sealing
  /\ failures < MaxFailures /\ failures' = failures + 1
  /\ Goes(s, "undo")
  /\ UNCHANGED <<server, ledger, disk, call, published, erasing, other, crashes, past>>

---------------------------------------------------------------------------
(* The except clause of save, outside the lock.                            *)

Undone == Nothing

\* Only the rollback itself waits for the lock.
Undo(s) ==
  /\ step[s] = "undo"
  /\ tx = Nothing \/ LockFree
  /\ tx' = Undone
  /\ Goes(s, "untemp")
  /\ UNCHANGED <<server, rows, families, disk, call, published, erasing, other, bounds, past>>

\* A slip: the published file is forgotten.
UnlinksFinalNever(s) == FALSE
UnlinksFinal(s) == s \in published

Untemp(s) ==
  /\ step[s] = "untemp"
  /\ temp' = temp \ {s}
  /\ Goes(s, IF UnlinksFinal(s) THEN "unfinal" ELSE "failed")
  /\ UNCHANGED <<server, ledger, file, durable, call, published, erasing, other, bounds, past>>

Unfinal(s) ==
  /\ step[s] = "unfinal"
  /\ file' = [file EXCEPT ![letter[s]] = Nothing]
  /\ Goes(s, "failed")
  /\ UNCHANGED <<server, ledger, durable, temp, call, published, erasing, other, bounds, past>>

\* An unlink that raises leaves the caller an exception, and the file.
RaiseAgain(s) ==
  /\ step[s] \in {"untemp", "unfinal"}
  /\ failures < MaxFailures /\ failures' = failures + 1
  /\ Goes(s, "raised")
  /\ UNCHANGED <<server, ledger, disk, call, published, erasing, other, crashes, past>>

---------------------------------------------------------------------------
(* delete_for_family                                                       *)

EraseGoes(e, there) == erasing' = [erasing EXCEPT ![e].step = there]

Without(all, f) == [l \in Letters |-> IF l \in OfFamily(f) THEN Nothing ELSE all[l]]

EraseBegin(e) ==
  /\ erasing[e].step = "start" /\ server = "up" /\ LockFree
  /\ IF tx = Nothing
       THEN \E f \in Families :
            /\ tx' = rows
            /\ erasing' = [erasing EXCEPT ![e] =
                 [step |-> "unlink", family |-> f,
                  doomed |-> {l \in OfFamily(f) : rows[l] # Nothing}]]
            /\ promised' = promised \ OfFamily(f)
       ELSE EraseGoes(e, "raised") /\ UNCHANGED <<tx, promised>>
  /\ UNCHANGED <<server, rows, families, disk, step, call, published, other, bounds, crossed>>

EraseUnlink(e) ==
  /\ erasing[e].step = "unlink"
  /\ \E l \in erasing[e].doomed :
       /\ file' = [file EXCEPT ![l] = Nothing]
       /\ erasing' = [erasing EXCEPT ![e].doomed = @ \ {l}]
  /\ UNCHANGED <<server, ledger, durable, temp, step, call, published, other, bounds, past>>

EraseDelete(e) ==
  /\ erasing[e].step = "unlink" /\ erasing[e].doomed = {}
  /\ tx' = Without(tx, erasing[e].family)
  /\ EraseGoes(e, "commit")
  /\ UNCHANGED <<server, rows, families, disk, step, call, published, other, bounds, past>>

EraseCommit(e) ==
  /\ erasing[e].step = "commit"
  /\ rows' = tx /\ tx' = Nothing
  /\ EraseGoes(e, "done")
  /\ UNCHANGED <<server, families, disk, step, call, published, other, bounds, past>>

\* Nothing catches what an erasure raises: its transaction stays open.
EraseRaise(e) ==
  /\ erasing[e].step \in {"unlink", "commit"}
  /\ failures < MaxFailures /\ failures' = failures + 1
  /\ EraseGoes(e, "raised")
  /\ UNCHANGED <<server, ledger, disk, step, call, published, other, crashes, past>>

---------------------------------------------------------------------------
(* The other use cases of the connection, through SqliteUnitOfWork: only   *)
(* the first inside begins, only the last commits, and each may roll back  *)
(* whatever transaction it finds.  UnitOfWork has the whole of it.         *)

Inside == {o \in Others : other[o] = "inside"}

OtherGoes(o, there) == other' = [other EXCEPT ![o] = there]

OtherEnters(o) ==
  /\ other[o] = "start" /\ server = "up"
  /\ IF Inside # {} THEN UNCHANGED tx ELSE LockFree /\ tx = Nothing /\ tx' = rows
  /\ OtherGoes(o, "inside")
  /\ UNCHANGED <<server, rows, families, disk, step, call, published, erasing, bounds, past>>

OtherCommits(o) ==
  /\ Inside = {o} /\ LockFree /\ tx # Nothing
  /\ rows' = tx /\ tx' = Nothing
  /\ UNCHANGED <<server, families, disk, step, call, published, erasing, other, bounds, past>>

OtherRollsBack(o) ==
  /\ other[o] = "inside" /\ LockFree /\ tx # Nothing
  /\ tx' = Nothing
  /\ UNCHANGED <<server, rows, families, disk, step, call, published, erasing, other, bounds, past>>

\* The last one out leaves no transaction that it could have ended.
OtherLeaves(o) ==
  /\ other[o] = "inside"
  /\ Inside # {o} \/ tx = Nothing
  /\ OtherGoes(o, "left")
  /\ UNCHANGED <<server, ledger, disk, step, call, published, erasing, bounds, past>>

\* DeleteFamilyDataUseCase: the row of family goes, the ledger's rows cascade,
\* and the sealed files are not touched.
ForgetFamily(f) ==
  /\ server = "up" /\ LockFree /\ tx = Nothing
  /\ f \in families
  /\ families' = families \ {f}
  /\ rows' = Without(rows, f)
  /\ promised' = promised \ OfFamily(f)
  /\ UNCHANGED <<server, tx, disk, step, call, published, erasing, other, bounds, crossed>>

---------------------------------------------------------------------------
(* Crashes, and recover() at the next start.                               *)

Stops ==
  /\ server # "down" /\ server' = "down"
  /\ crashes < MaxCrashes /\ crashes' = crashes + 1
  /\ tx' = Nothing
  /\ step' = [s \in Saves |-> IF step[s] \in {"start"} \cup Ended THEN step[s] ELSE "killed"]
  /\ erasing' = [e \in Erasures |->
       IF erasing[e].step \in {"unlink", "commit"}
         THEN [erasing[e] EXCEPT !.step = "killed"] ELSE erasing[e]]
  /\ other' = [o \in Others |-> IF o \in Inside THEN "left" ELSE other[o]]
  /\ UNCHANGED <<rows, families, call, published, failures, past>>

Kill == Stops /\ UNCHANGED disk

\* Directory entries written since the last fsync may each be lost or not.
LosePower ==
  /\ Stops
  /\ \E lost \in SUBSET Letters :
       file' = [l \in Letters |-> IF l \in lost THEN durable[l] ELSE file[l]]
  /\ durable' = file'
  /\ temp' \in SUBSET (temp \cup published)

Restart ==
  /\ server = "down" /\ server' = "staging"
  /\ UNCHANGED <<ledger, disk, step, call, published, erasing, other, bounds, past>>

RemoveStaged ==
  /\ server = "staging"
  /\ IF temp = {} THEN server' = "ledger" /\ UNCHANGED temp
                  ELSE (\E s \in temp : temp' = temp \ {s}) /\ UNCHANGED server
  /\ UNCHANGED <<ledger, file, durable, step, call, published, erasing, other, bounds, past>>

\* A slip: a ledger whose file is missing is kept.
MissingNever(l) == FALSE
Missing(l) == rows[l] # Nothing /\ file[l] = Nothing

RemoveIncomplete ==
  /\ server = "ledger" /\ server' = "orphans"
  /\ rows' = [l \in Letters |-> IF Missing(l) THEN Nothing ELSE rows[l]]
  /\ UNCHANGED <<tx, families, disk, step, call, published, erasing, other, bounds, past>>

Orphans == {l \in Letters : file[l] # Nothing /\ rows[l] = Nothing}

RemoveOrphans ==
  /\ server = "orphans"
  /\ IF Orphans = {} THEN server' = "up" /\ UNCHANGED file
       ELSE (\E l \in Orphans : file' = [file EXCEPT ![l] = Nothing]) /\ UNCHANGED server
  /\ UNCHANGED <<ledger, durable, temp, step, call, published, erasing, other, bounds, past>>

---------------------------------------------------------------------------
Save(s) == \/ Begin(s) \/ Exists(s) \/ Conflict(s) \/ Publish(s)
           \/ FsyncDirectory(s) \/ Insert(s) \/ Commit(s)
           \/ Undo(s) \/ Untemp(s) \/ Unfinal(s)
Erase(e) == EraseUnlink(e) \/ EraseDelete(e) \/ EraseCommit(e)
Recover == RemoveStaged \/ RemoveIncomplete \/ RemoveOrphans

Trouble == \/ \E s \in Saves : Raise(s) \/ RaiseAgain(s)
           \/ \E e \in Erasures : EraseRaise(e)
           \/ Kill \/ LosePower
Other == \/ \E o \in Others : OtherEnters(o) \/ OtherCommits(o) \/ OtherRollsBack(o) \/ OtherLeaves(o)
         \/ \E f \in Families : ForgetFamily(f)

Next == \/ \E s \in Saves : Stage(s) \/ Save(s)
        \/ \E e \in Erasures : EraseBegin(e) \/ Erase(e)
        \/ Other \/ Trouble \/ Restart \/ Recover

Spec == Init /\ [][Next]_vars

---------------------------------------------------------------------------
(* Properties                                                              *)

TypeOK ==
  /\ server \in {"up", "down", "staging", "ledger", "orphans"}
  /\ families \subseteq Families
  /\ rows \in Contents /\ tx \in Contents \cup {Nothing}
  /\ file \in Contents /\ durable \in Contents
  /\ temp \subseteq Saves /\ published \subseteq Saves
  /\ step \in [Saves -> Steps]
  /\ letter \in [Saves -> Letters \cup {Nothing}] /\ text \in [Saves -> Texts \cup {Nothing}]
  /\ erasing \in [Erasures ->
       [step : {"start", "unlink", "commit", "done", "raised", "killed"},
        family : Families \cup {Nothing}, doomed : SUBSET Letters]]
  /\ other \in [Others -> {"start", "inside", "left"}]
  /\ failures \in 0 .. MaxFailures /\ crashes \in 0 .. MaxCrashes
  /\ promised \subseteq Letters /\ crossed \subseteq Letters

\* A letter whose save was answered Ok stays, row and bytes, through kills, power
\* losses, recoveries and other people's failures, until somebody erases it; the
\* letters of a save that crossed an unwinding one are excepted.  And a seal is never
\* overwritten by a second seal of its id: where the ledger and the disk both have a
\* letter, they have the same one.
AcknowledgedLetterStays ==
  /\ \A l \in promised \ crossed : rows[l] # Nothing /\ file[l] = rows[l]
  /\ \A l \in Letters : rows[l] # Nothing /\ file[l] # Nothing => file[l] = rows[l]

\* The store serves nobody before the ledger and the disk agree again and the
\* staging directory is empty, whatever crash came before, in recover() too.
StartsClean ==
  [][server # "up" /\ server' = "up" =>
       temp' = {} /\ \A l \in Letters : (rows'[l] = Nothing) <=> (file'[l] = Nothing)]_vars

\* While it serves, ciphertext no ledger knows is on disk only because a save is
\* on its way or could not unlink it, or the family's deletion left it; and a transaction
\* is open only for somebody who will end it, or because an erasure raised and left it.
NothingLeftBehind ==
  /\ server = "up" =>
       /\ \A l \in Orphans :
            \/ \E s \in published : letter[s] = l /\ step[s] \notin {"ok", "failed", "killed"}
            \/ FamilyOf(l) \notin families
       /\ \A s \in temp : step[s] \in Unwinding \cup Sealing \cup {"begin", "raised"}
  /\ tx # Nothing => \/ \E s \in Saves : step[s] \in Sealing \cup {"undo"}
                     \/ \E e \in Erasures : erasing[e].step \in {"unlink", "commit", "raised"}
                     \/ Inside # {}

\* schema.py on the ledger: no half-seal is readable.
NoHalfSeal == server = "up" /\ LockFree => \A l \in Letters : rows[l] # Nothing => file[l] # Nothing

\* The store as a whole: its types, and nothing left behind by a save or an erasure that
\* nobody is still going to clean.
StoreIsSound == TypeOK /\ NothingLeftBehind
=============================================================================
