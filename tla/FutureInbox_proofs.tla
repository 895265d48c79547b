------------------------- MODULE FutureInbox_proofs -------------------------
(***************************************************************************)
(* Why an acknowledged letter stays, for any number of families, letters,  *)
(* callers, failures and crashes.                                          *)
(*                                                                         *)
(* The lock is the argument: whoever is between BEGIN and the end of its   *)
(* `with` block is alone, so that the transaction it sees is the ledger    *)
(* plus its own writes, and the file it published is the one it renamed,   *)
(* unless a save of the same letter is still unwinding outside the lock.   *)
(* Each conjunct below says a part of that; together they are inductive.   *)
(***************************************************************************)
EXTENDS FutureInbox, TLAPS

Erases(e) == erasing[e].step \in {"unlink", "commit"}

\* Who holds the connection's lock holds it alone.
OneHolder ==
  /\ \A s, t \in Saves : step[s] \in Sealing /\ step[t] \in Sealing => s = t
  /\ \A d, e \in Erasures : Erases(d) /\ Erases(e) => d = e
  /\ \A s \in Saves, e \in Erasures : ~ (step[s] \in Sealing /\ Erases(e))

\* Until the store serves, nobody is inside.
Quiet == server # "up" =>
  /\ \A s \in Saves : step[s] \in {"start"} \cup Ended
  /\ \A e \in Erasures : ~ Erases(e)
  /\ Inside = {} /\ tx = Nothing

\* A call has its letter; only one that got as far has published and lost its staging file.
CallsKnow == \A s \in Saves :
  /\ step[s] # "start" => letter[s] \in Letters /\ text[s] \in Texts
  /\ s \in published => step[s] \notin {"start", "begin", "exists", "publish", "conflict", "refused"}
  /\ step[s] = "unfinal" => s \in published
  /\ step[s] \in {"sync", "insert", "commit"} => s \in published
  /\ step[s] \in {"sync", "insert", "commit", "unfinal"} => s \notin temp

\* What the transaction of a save sees: the ledger, plus its own write.
SaveSees == \A s \in Saves :
  /\ step[s] \in Sealing => (tx = Nothing <=> step[s] = "conflict")
  /\ step[s] \in {"exists", "publish", "sync", "insert"} => tx = rows
  /\ step[s] \in {"publish", "sync", "insert", "commit"} => rows[letter[s]] = Nothing
  /\ step[s] = "commit" => tx = [rows EXCEPT ![letter[s]] = text[s]]

\* What the transaction of an erasure sees.
ErasureSees == \A e \in Erasures :
  /\ Erases(e) => tx # Nothing
  /\ erasing[e].step = "unlink" => tx = rows
  /\ erasing[e].step = "commit" => tx = Without(rows, erasing[e].family)

\* The file a holder published is there until it commits, unless a rival took it away.
IsSealed(l, t, files) == files[l] = t \/ (files[l] = Nothing /\ l \in crossed)
HolderSealed == \A s \in Saves :
  /\ step[s] \in {"sync", "insert", "commit"} => IsSealed(letter[s], text[s], file)
  /\ step[s] \in {"insert", "commit"} => IsSealed(letter[s], text[s], durable)

\* A ledger, committed or not, and the disk tell the same of a letter that both have, and
\* both have every letter that was promised and not crossed.
Agrees(ledgerRows) == \A l \in Letters :
  /\ ledgerRows[l] # Nothing => /\ file[l] \in {Nothing, ledgerRows[l]}
                                /\ durable[l] \in {Nothing, ledgerRows[l]}
  /\ l \in promised \ crossed => /\ ledgerRows[l] # Nothing
                                 /\ file[l] = ledgerRows[l] /\ durable[l] = ledgerRows[l]

\* A transaction deletes the row of a letter only when its file is gone.
Books ==
  /\ Agrees(rows)
  /\ tx # Nothing => /\ Agrees(tx)
                     /\ \A l \in Letters : rows[l] # Nothing /\ tx[l] = Nothing => file[l] = Nothing

\* A save that unwinds will unlink no promised letter but a crossed one.
Unwound ==
  /\ \A s \in published : step[s] \in Unwinding /\ letter[s] \in promised => letter[s] \in crossed
  /\ \A s \in Saves : step[s] \in {"sync", "insert", "commit"} /\ Rivals(letter[s]) # {} => letter[s] \in crossed

\* An erasure has nothing promised before it, and knows which files are left.
ErasureKnows == \A e \in Erasures : Erases(e) =>
  /\ erasing[e].family \in Families
  /\ promised \cap OfFamily(erasing[e].family) = {}
  /\ erasing[e].doomed \subseteq OfFamily(erasing[e].family)
  /\ \A l \in OfFamily(erasing[e].family) :
       rows[l] # Nothing => l \in erasing[e].doomed \/ file[l] = Nothing

\* What each part of recover() has done.
Recovered ==
  /\ server \in {"ledger", "orphans"} => temp = {}
  /\ server = "orphans" => \A l \in Letters : rows[l] # Nothing => file[l] # Nothing

IInv == /\ TypeOK /\ OneHolder /\ Quiet /\ CallsKnow /\ SaveSees /\ ErasureSees
        /\ HolderSealed /\ Books /\ Unwound /\ ErasureKnows /\ Recovered /\ NothingLeftBehind

---------------------------------------------------------------------------
(* A step of each action.                                                 *)

USE DEF Sealing, Unwinding, Ended, Steps

\* A save begins: only its own call and staging file change.
LEMMA StageKeeps ==
  ASSUME IInv, NEW s \in Saves, Stage(s)
  PROVE  IInv'
<1> USE DEF IInv, Stage, Goes, ledger, bounds, past
<1>1. TypeOK' /\ OneHolder' /\ Quiet' /\ CallsKnow' /\ SaveSees' /\ ErasureSees' /\ HolderSealed'
      /\ Books' /\ Unwound' /\ ErasureKnows' /\ Recovered'
  BY DEF TypeOK, OneHolder, Erases, Quiet, Inside, CallsKnow, SaveSees,
         ErasureSees, HolderSealed, IsSealed, Books, Agrees, Unwound, Rivals,
         ErasureKnows, Recovered
<1>2. NothingLeftBehind'
  BY DEF NothingLeftBehind, Orphans, Inside, TypeOK, CallsKnow
<1> QED BY <1>1, <1>2

\* BEGIN IMMEDIATE: the new holder's transaction is the ledger, or somebody else's is to be rolled back.
LEMMA BeginKeeps ==
  ASSUME IInv, NEW s \in Saves, Begin(s)
  PROVE  IInv'
<1> USE DEF IInv, Begin, LockFree, Goes, disk, call, bounds, past
<1>1. TypeOK' /\ OneHolder' /\ Quiet' /\ CallsKnow' /\ SaveSees' /\ ErasureSees' /\ HolderSealed'
      /\ Books' /\ ErasureKnows' /\ Recovered' /\ NothingLeftBehind'
  BY InboxAssumption DEF TypeOK, OneHolder, Erases, Quiet, Inside, CallsKnow, SaveSees,
                         ErasureSees, HolderSealed, IsSealed, Books, Agrees, ErasureKnows,
                         Recovered, NothingLeftBehind, Orphans
<1>2. Unwound'
  BY DEF Unwound, Rivals, TypeOK, CallsKnow
<1> QED BY <1>1, <1>2

\* The letter is there and the transaction ends, or it is not there.
LEMMA ExistsKeeps ==
  ASSUME IInv, NEW s \in Saves, Exists(s)
  PROVE  IInv'
<1> USE DEF IInv, Exists, Stored, Goes, disk, call, bounds, past
<1>1. TypeOK' /\ OneHolder' /\ Quiet' /\ CallsKnow' /\ HolderSealed' /\ Books' /\ Unwound'
      /\ ErasureKnows' /\ Recovered' /\ NothingLeftBehind'
  BY DEF TypeOK, OneHolder, Erases, Quiet, Inside, CallsKnow, HolderSealed,
         IsSealed, Books, Agrees, Unwound, Rivals, ErasureKnows, Recovered,
         NothingLeftBehind, Orphans
<1>2. SaveSees'
  BY DEF SaveSees, TypeOK, OneHolder, Erases
<1>3. ErasureSees'
  BY DEF ErasureSees, Erases, OneHolder
<1> QED BY <1>1, <1>2, <1>3

\* A refused save leaves the lock without a transaction.
LEMMA ConflictKeeps ==
  ASSUME IInv, NEW s \in Saves, Conflict(s)
  PROVE  IInv'
<1> USE DEF IInv, Conflict, Goes, ledger, call, bounds, past
<1>1. TypeOK' /\ OneHolder' /\ Quiet' /\ CallsKnow' /\ SaveSees' /\ ErasureSees' /\ HolderSealed'
      /\ Books' /\ Unwound' /\ ErasureKnows' /\ Recovered'
  BY DEF TypeOK, OneHolder, Erases, Quiet, Inside, CallsKnow, SaveSees,
         ErasureSees, HolderSealed, IsSealed, Books, Agrees, Unwound, Rivals,
         ErasureKnows, Recovered
<1>2. NothingLeftBehind'
  BY DEF NothingLeftBehind, Orphans, Inside, SaveSees
<1> QED BY <1>1, <1>2

\* The rename: no ledger has the letter yet, and whoever still unwinds a save of it is a rival.
LEMMA PublishKeeps ==
  ASSUME IInv, NEW s \in Saves, Publish(s)
  PROVE  IInv'
<1> USE DEF IInv, Publish, Rivals, Goes, ledger, call, bounds
<1>1. TypeOK'
  BY DEF TypeOK, Contents, CallsKnow
<1>2. OneHolder' /\ Quiet' /\ CallsKnow' /\ SaveSees' /\ ErasureSees' /\ Unwound'
      /\ NothingLeftBehind'
  BY DEF OneHolder, Erases, Quiet, Inside, CallsKnow, SaveSees, ErasureSees,
         Unwound, NothingLeftBehind, Orphans, TypeOK
<1>3. HolderSealed'
  BY InboxAssumption, <1>1 DEF HolderSealed, IsSealed, TypeOK, OneHolder, Contents, Erases
<1>4. Books'
  BY DEF Books, Agrees, SaveSees
<1>5. ErasureKnows'
  BY DEF ErasureKnows, Erases, SaveSees
<1>6. Recovered'
  BY DEF Recovered, Quiet, Erases, Inside
<1> QED BY <1>1, <1>2, <1>3, <1>4, <1>5, <1>6

\* The directory entry of the published file is now safe.
LEMMA FsyncDirectoryKeeps ==
  ASSUME IInv, NEW s \in Saves, FsyncDirectory(s)
  PROVE  IInv'
<1> USE DEF IInv, FsyncDirectory, Synced, Goes, ledger, call, bounds, past
<1>1. TypeOK'
  BY DEF TypeOK, Contents
<1>2. OneHolder' /\ Quiet' /\ CallsKnow' /\ SaveSees' /\ ErasureSees' /\ Books' /\ Unwound'
      /\ ErasureKnows' /\ Recovered' /\ NothingLeftBehind'
  BY DEF OneHolder, Erases, Quiet, Inside, CallsKnow, SaveSees, ErasureSees, Books,
         Agrees, Unwound, Rivals, ErasureKnows, Recovered, NothingLeftBehind,
         Orphans
<1>3. HolderSealed'
  BY DEF HolderSealed, IsSealed, CallsKnow, OfFamily
<1> QED BY <1>1, <1>2, <1>3

\* The row joins a transaction that was the ledger, with a file that was published and synced.
LEMMA InsertKeeps ==
  ASSUME IInv, NEW s \in Saves, Insert(s)
  PROVE  IInv'
<1> USE DEF IInv, Insert, Goes, disk, call, bounds, past
<1>1. TypeOK'
  BY DEF TypeOK, Contents, CallsKnow, SaveSees, ErasureSees, Without, Erases
<1>2. OneHolder' /\ Quiet' /\ CallsKnow' /\ HolderSealed' /\ ErasureKnows' /\ Recovered'
      /\ NothingLeftBehind'
  BY DEF OneHolder, Erases, Quiet, Inside, CallsKnow, HolderSealed, IsSealed,
         ErasureKnows, Recovered, NothingLeftBehind, Orphans, TypeOK
<1>3. SaveSees'
  BY InboxAssumption DEF SaveSees, TypeOK, OneHolder, CallsKnow, Contents, Erases
<1>4. ErasureSees'
  BY DEF ErasureSees, Erases, OneHolder
<1>5. Books'
  BY DEF Books, Agrees, TypeOK, SaveSees, HolderSealed, Contents, IsSealed
<1>6. Unwound'
  BY DEF Unwound, Rivals, TypeOK, OneHolder, SaveSees, Books, Erases, Agrees
<1> QED BY <1>1, <1>2, <1>3, <1>4, <1>5, <1>6

\* The letter is promised: its row, its file and its directory entry are there.
LEMMA CommitKeeps ==
  ASSUME IInv, NEW s \in Saves, Commit(s)
  PROVE  IInv'
<1> USE DEF IInv, Commit, Goes, disk, call, bounds
<1>1. TypeOK'
  BY DEF TypeOK, CallsKnow, SaveSees
<1>2. OneHolder' /\ Quiet' /\ CallsKnow' /\ HolderSealed' /\ Unwound'
  BY DEF OneHolder, Erases, Quiet, Inside, CallsKnow, HolderSealed, IsSealed,
         Unwound, Rivals
<1>3. SaveSees'
  BY DEF SaveSees, TypeOK, OneHolder, Erases
<1>4. ErasureSees'
  BY DEF ErasureSees, Erases, OneHolder
<1>5. Books'
  BY InboxAssumption DEF Books, Agrees, TypeOK, CallsKnow, SaveSees, HolderSealed, Contents,
                         IsSealed
<1>6. ErasureKnows'
  BY DEF ErasureKnows, Erases, OneHolder
<1>7. Recovered'
  BY DEF Recovered, Quiet, Erases, Inside
<1>8. NothingLeftBehind'
  BY InboxAssumption DEF NothingLeftBehind, Orphans, Inside, TypeOK, CallsKnow, SaveSees, Contents
<1> QED BY <1>1, <1>2, <1>3, <1>4, <1>5, <1>6, <1>7, <1>8

\* The holder lets go of the lock; what it published is not promised.
LEMMA RaiseKeeps ==
  ASSUME IInv, NEW s \in Saves, Raise(s)
  PROVE  IInv'
<1> USE DEF IInv, Raise, Goes, ledger, disk, call, past
<1>1. TypeOK' /\ OneHolder' /\ Quiet' /\ CallsKnow' /\ SaveSees' /\ ErasureSees' /\ HolderSealed'
      /\ Books' /\ ErasureKnows' /\ Recovered' /\ NothingLeftBehind'
  BY InboxAssumption DEF TypeOK, OneHolder, Erases, Quiet, Inside, CallsKnow, SaveSees,
                         ErasureSees, HolderSealed, IsSealed, Books, Agrees, ErasureKnows,
                         Recovered, NothingLeftBehind, Orphans
<1>2. Unwound'
  BY DEF Unwound, Rivals, OneHolder, CallsKnow, SaveSees, Books, Erases, Agrees
<1> QED BY <1>1, <1>2

\* The rollback ends no transaction of a holder.
LEMMA UndoKeeps ==
  ASSUME IInv, NEW s \in Saves, Undo(s)
  PROVE  IInv'
<1> USE DEF IInv, Undo, LockFree, Undone, Goes, disk, call, bounds, past
<1>1. TypeOK' /\ OneHolder' /\ Quiet' /\ CallsKnow' /\ SaveSees' /\ ErasureSees' /\ HolderSealed'
      /\ Books' /\ Unwound' /\ ErasureKnows' /\ Recovered' /\ NothingLeftBehind'
  BY DEF TypeOK, OneHolder, Erases, Quiet, Inside, CallsKnow, SaveSees,
         ErasureSees, HolderSealed, IsSealed, Books, Agrees, Unwound, Rivals,
         ErasureKnows, Recovered, NothingLeftBehind, Orphans
<1> QED BY <1>1

\* The staging file goes.
LEMMA UntempKeeps ==
  ASSUME IInv, NEW s \in Saves, Untemp(s)
  PROVE  IInv'
<1> USE DEF IInv, Untemp, Goes, UnlinksFinal, ledger, call, bounds, past
<1>1. TypeOK' /\ OneHolder' /\ Quiet' /\ CallsKnow' /\ SaveSees' /\ ErasureSees' /\ HolderSealed'
      /\ Books' /\ Unwound' /\ ErasureKnows' /\ Recovered' /\ NothingLeftBehind'
  BY DEF TypeOK, OneHolder, Erases, Quiet, Inside, CallsKnow, SaveSees,
         ErasureSees, HolderSealed, IsSealed, Books, Agrees, Unwound, Rivals,
         ErasureKnows, Recovered, NothingLeftBehind, Orphans
<1> QED BY <1>1

\* The published file goes: it was not promised, unless it was crossed.
LEMMA UnfinalKeeps ==
  ASSUME IInv, NEW s \in Saves, Unfinal(s)
  PROVE  IInv'
<1> USE DEF IInv, Unfinal, Goes, ledger, call, bounds, past
<1>1. TypeOK'
  BY DEF TypeOK, Contents, CallsKnow
<1>2. OneHolder' /\ Quiet' /\ CallsKnow' /\ SaveSees' /\ ErasureSees' /\ Unwound' /\ ErasureKnows'
  BY DEF OneHolder, Erases, Quiet, Inside, CallsKnow, SaveSees, ErasureSees,
         Unwound, Rivals, ErasureKnows
<1>3. HolderSealed'
  BY DEF HolderSealed, IsSealed, CallsKnow, Unwound, Rivals
<1>4. Books'
  BY DEF Books, Agrees, CallsKnow, Unwound, Rivals
<1>5. Recovered'
  BY DEF Recovered, Quiet, Erases, Inside
<1>6. NothingLeftBehind'
  BY DEF NothingLeftBehind, Orphans, Inside, TypeOK, CallsKnow, Contents
<1> QED BY <1>1, <1>2, <1>3, <1>4, <1>5, <1>6

\* An unlink that raises.
LEMMA RaiseAgainKeeps ==
  ASSUME IInv, NEW s \in Saves, RaiseAgain(s)
  PROVE  IInv'
<1> USE DEF IInv, RaiseAgain, Goes, ledger, disk, call, past
<1>1. TypeOK' /\ OneHolder' /\ Quiet' /\ CallsKnow' /\ SaveSees' /\ ErasureSees' /\ HolderSealed'
      /\ Books' /\ Unwound' /\ ErasureKnows' /\ Recovered' /\ NothingLeftBehind'
  BY InboxAssumption DEF TypeOK, OneHolder, Erases, Quiet, Inside, CallsKnow, SaveSees,
                         ErasureSees, HolderSealed, IsSealed, Books, Agrees, Unwound, Rivals,
                         ErasureKnows, Recovered, NothingLeftBehind, Orphans
<1> QED BY <1>1

\* The erasure takes back the promises of its family and learns what to unlink.
LEMMA EraseBeginKeeps ==
  ASSUME IInv, NEW e \in Erasures, EraseBegin(e)
  PROVE  IInv'
<1> USE DEF IInv, EraseBegin, LockFree, EraseGoes, disk, call, bounds
<1>1. TypeOK'
  <2>1. CASE tx = Nothing
    <3>1. PICK f \in Families :
            /\ tx' = rows /\ promised' = promised \ OfFamily(f)
            /\ erasing' = [erasing EXCEPT ![e] =
                 [step |-> "unlink", family |-> f,
                  doomed |-> {l \in OfFamily(f) : rows[l] # Nothing}]]
      BY <2>1
    <3>2. {l \in OfFamily(f) : rows[l] # Nothing} \in SUBSET Letters
      BY DEF OfFamily
    <3> QED BY <3>1, <3>2 DEF TypeOK
  <2>2. CASE tx # Nothing
    BY <2>2 DEF TypeOK
  <2> QED BY <2>1, <2>2
<1>2. OneHolder' /\ Quiet' /\ CallsKnow' /\ SaveSees' /\ ErasureSees' /\ HolderSealed' /\ Books'
      /\ Unwound' /\ ErasureKnows' /\ Recovered' /\ NothingLeftBehind'
  BY InboxAssumption DEF TypeOK, OneHolder, Erases, Quiet, Inside, CallsKnow, SaveSees,
                         ErasureSees, HolderSealed, IsSealed, Books, Agrees, Unwound, Rivals,
                         ErasureKnows, Recovered, NothingLeftBehind, Orphans
<1> QED BY <1>1, <1>2

\* A file of the doomed goes; nobody was promised it.
LEMMA EraseUnlinkKeeps ==
  ASSUME IInv, NEW e \in Erasures, EraseUnlink(e)
  PROVE  IInv'
<1> USE DEF IInv, EraseUnlink, ledger, call, bounds, past
<1>1. TypeOK'
  BY DEF TypeOK, Contents
<1>2. OneHolder' /\ Quiet' /\ CallsKnow' /\ SaveSees' /\ ErasureSees' /\ Unwound'
      /\ NothingLeftBehind'
  BY DEF OneHolder, Erases, Quiet, Inside, CallsKnow, SaveSees, ErasureSees,
         Unwound, Rivals, NothingLeftBehind, Orphans
<1>3. HolderSealed'
  BY DEF HolderSealed, IsSealed, OneHolder, Erases
<1>4. Books'
  BY DEF Books, Agrees, ErasureKnows, Erases
<1>5. ErasureKnows'
  BY DEF ErasureKnows, Erases, TypeOK, Contents
<1>6. Recovered'
  BY DEF Recovered, Quiet, Erases, Inside
<1> QED BY <1>1, <1>2, <1>3, <1>4, <1>5, <1>6

\* The rows go from the transaction once their files are gone.
LEMMA EraseDeleteKeeps ==
  ASSUME IInv, NEW e \in Erasures, EraseDelete(e)
  PROVE  IInv'
<1> USE DEF IInv, EraseDelete, EraseGoes, disk, call, bounds, past
<1>0. TypeOK'
  <2>1. tx = rows
    BY DEF ErasureSees
  <2>2. tx' \in Contents
    BY <2>1 DEF TypeOK, Without, Contents
  <2> QED BY <2>2 DEF TypeOK
<1>1. OneHolder' /\ Quiet' /\ CallsKnow' /\ HolderSealed' /\ Unwound' /\ ErasureKnows' /\ Recovered'
      /\ NothingLeftBehind'
  BY DEF TypeOK, OneHolder, Erases, Quiet, Inside, CallsKnow, HolderSealed,
         IsSealed, Unwound, Rivals, ErasureKnows, Recovered, NothingLeftBehind,
         Orphans
<1>2. SaveSees'
  BY DEF SaveSees, OneHolder, Erases
<1>3. ErasureSees'
  BY InboxAssumption DEF ErasureSees, Erases, Without, TypeOK, OneHolder, Contents
<1>4. Books'
  BY DEF Books, Agrees, ErasureSees, ErasureKnows, Without, Erases
<1> QED BY <1>0, <1>1, <1>2, <1>3, <1>4

\* The ledger becomes what the erasure made of it.
LEMMA EraseCommitKeeps ==
  ASSUME IInv, NEW e \in Erasures, EraseCommit(e)
  PROVE  IInv'
<1> USE DEF IInv, EraseCommit, EraseGoes, disk, call, bounds, past
<1>1. TypeOK'
  BY DEF TypeOK, Contents, ErasureSees, ErasureKnows, Without, Erases
<1>2. OneHolder' /\ Quiet' /\ CallsKnow' /\ HolderSealed' /\ Unwound'
  BY DEF OneHolder, Erases, Quiet, Inside, CallsKnow, HolderSealed, IsSealed,
         Unwound, Rivals
<1>3. SaveSees'
  BY DEF SaveSees, OneHolder, Erases
<1>4. ErasureSees'
  BY DEF ErasureSees, Erases, TypeOK, OneHolder
<1>5. Books'
  BY DEF Books, Agrees, ErasureSees, Erases
<1>6. ErasureKnows'
  BY DEF ErasureKnows, Erases, TypeOK, OneHolder
<1>7. Recovered'
  BY DEF Recovered, Quiet, Erases, Inside
<1>8. NothingLeftBehind'
  BY DEF NothingLeftBehind, Orphans, Inside, ErasureSees, Books, Erases, Agrees
<1> QED BY <1>1, <1>2, <1>3, <1>4, <1>5, <1>6, <1>7, <1>8

\* The erasure lets go of the lock and leaves its transaction.
LEMMA EraseRaiseKeeps ==
  ASSUME IInv, NEW e \in Erasures, EraseRaise(e)
  PROVE  IInv'
<1> USE DEF IInv, EraseRaise, EraseGoes, ledger, disk, call, past
<1>1. TypeOK' /\ OneHolder' /\ Quiet' /\ CallsKnow' /\ SaveSees' /\ ErasureSees' /\ HolderSealed'
      /\ Books' /\ Unwound' /\ ErasureKnows' /\ Recovered' /\ NothingLeftBehind'
  BY InboxAssumption DEF TypeOK, OneHolder, Erases, Quiet, Inside, CallsKnow, SaveSees,
                         ErasureSees, HolderSealed, IsSealed, Books, Agrees, Unwound, Rivals,
                         ErasureKnows, Recovered, NothingLeftBehind, Orphans
<1> QED BY <1>1

\* Another use case opens a transaction, or shares one.
LEMMA OtherEntersKeeps ==
  ASSUME IInv, NEW o \in Others, OtherEnters(o)
  PROVE  IInv'
<1> USE DEF IInv, OtherEnters, Inside, LockFree, OtherGoes, disk, call, bounds, past
<1>1. TypeOK' /\ OneHolder' /\ Quiet' /\ CallsKnow' /\ SaveSees' /\ ErasureSees' /\ HolderSealed'
      /\ Books' /\ Unwound' /\ ErasureKnows' /\ Recovered' /\ NothingLeftBehind'
  BY DEF TypeOK, OneHolder, Erases, Quiet, CallsKnow, SaveSees, ErasureSees,
         HolderSealed, IsSealed, Books, Agrees, Unwound, Rivals, ErasureKnows,
         Recovered, NothingLeftBehind, Orphans
<1> QED BY <1>1

\* Another use case commits whatever transaction it finds.
LEMMA OtherCommitsKeeps ==
  ASSUME IInv, NEW o \in Others, OtherCommits(o)
  PROVE  IInv'
<1> USE DEF IInv, OtherCommits, Inside, LockFree, disk, call, bounds, past
<1>1. TypeOK' /\ OneHolder' /\ Quiet' /\ CallsKnow' /\ SaveSees' /\ ErasureSees' /\ HolderSealed'
      /\ Books' /\ Unwound' /\ ErasureKnows'
  BY DEF TypeOK, OneHolder, Erases, Quiet, CallsKnow, SaveSees, ErasureSees,
         HolderSealed, IsSealed, Books, Agrees, Unwound, Rivals, ErasureKnows
<1>2. Recovered'
  BY DEF Recovered, Quiet, Erases
<1>3. NothingLeftBehind'
  BY DEF NothingLeftBehind, Orphans, Books, Agrees
<1> QED BY <1>1, <1>2, <1>3

\* Another use case rolls back whatever transaction it finds.
LEMMA OtherRollsBackKeeps ==
  ASSUME IInv, NEW o \in Others, OtherRollsBack(o)
  PROVE  IInv'
<1> USE DEF IInv, OtherRollsBack, LockFree, disk, call, bounds, past
<1>1. TypeOK' /\ OneHolder' /\ Quiet' /\ CallsKnow' /\ SaveSees' /\ ErasureSees' /\ HolderSealed'
      /\ Books' /\ Unwound' /\ ErasureKnows' /\ Recovered' /\ NothingLeftBehind'
  BY DEF TypeOK, OneHolder, Erases, Quiet, Inside, CallsKnow, SaveSees,
         ErasureSees, HolderSealed, IsSealed, Books, Agrees, Unwound, Rivals,
         ErasureKnows, Recovered, NothingLeftBehind, Orphans
<1> QED BY <1>1

\* The last one out leaves no transaction.
LEMMA OtherLeavesKeeps ==
  ASSUME IInv, NEW o \in Others, OtherLeaves(o)
  PROVE  IInv'
<1> USE DEF IInv, OtherLeaves, Inside, OtherGoes, ledger, disk, call, bounds, past
<1>1. TypeOK' /\ OneHolder' /\ Quiet' /\ CallsKnow' /\ SaveSees' /\ ErasureSees' /\ HolderSealed'
      /\ Books' /\ Unwound' /\ ErasureKnows' /\ Recovered' /\ NothingLeftBehind'
  BY DEF TypeOK, OneHolder, Erases, Quiet, CallsKnow, SaveSees, ErasureSees,
         HolderSealed, IsSealed, Books, Agrees, Unwound, Rivals, ErasureKnows,
         Recovered, NothingLeftBehind, Orphans
<1> QED BY <1>1

\* The rows of a family cascade and its files stay: they are no longer promised.
LEMMA ForgetFamilyKeeps ==
  ASSUME IInv, NEW f \in Families, ForgetFamily(f)
  PROVE  IInv'
<1> USE DEF IInv, ForgetFamily, LockFree, disk, call, bounds
<1>1. TypeOK'
  BY DEF TypeOK, Contents, Without
<1>2. OneHolder' /\ Quiet' /\ CallsKnow' /\ SaveSees' /\ ErasureSees' /\ HolderSealed' /\ Unwound'
      /\ ErasureKnows' /\ Recovered'
  BY DEF OneHolder, Erases, Quiet, Inside, CallsKnow, SaveSees, ErasureSees,
         HolderSealed, IsSealed, Unwound, Rivals, ErasureKnows, Recovered
<1>3. Books'
  BY DEF Books, Agrees, Without
<1>4. NothingLeftBehind'
  BY DEF NothingLeftBehind, Orphans, Inside, Without, OfFamily
<1> QED BY <1>1, <1>2, <1>3, <1>4

\* A kill: nobody is inside, and the disk is as it was.
LEMMA KillKeeps ==
  ASSUME IInv, Kill
  PROVE  IInv'
<1> USE DEF IInv, Kill, Stops, disk, Inside, call, past
<1>1. TypeOK' /\ OneHolder' /\ Quiet' /\ CallsKnow' /\ SaveSees' /\ ErasureSees' /\ HolderSealed'
      /\ Books' /\ Unwound' /\ ErasureKnows' /\ Recovered' /\ NothingLeftBehind'
  BY InboxAssumption DEF TypeOK, OneHolder, Erases, Quiet, CallsKnow, SaveSees, ErasureSees,
                         HolderSealed, IsSealed, Books, Agrees, Unwound, Rivals, ErasureKnows,
                         Recovered, NothingLeftBehind, Orphans
<1> QED BY <1>1

\* A power loss: every directory entry is as it is or as it was last synced.
LEMMA LosePowerKeeps ==
  ASSUME IInv, LosePower
  PROVE  IInv'
<1> USE DEF IInv, LosePower, Stops, Inside, call, past
<1>1. TypeOK'
  BY InboxAssumption DEF TypeOK, Contents
<1>2. OneHolder' /\ Quiet' /\ CallsKnow' /\ SaveSees' /\ ErasureSees' /\ HolderSealed' /\ Books'
      /\ Unwound' /\ ErasureKnows' /\ Recovered' /\ NothingLeftBehind'
  BY DEF OneHolder, Erases, Quiet, CallsKnow, SaveSees, ErasureSees, HolderSealed,
         IsSealed, Books, Agrees, Unwound, Rivals, ErasureKnows, Recovered,
         NothingLeftBehind, Orphans, TypeOK
<1> QED BY <1>1, <1>2

\* recover() starts.
LEMMA RestartKeeps ==
  ASSUME IInv, Restart
  PROVE  IInv'
<1> USE DEF IInv, Restart, ledger, disk, call, bounds, past
<1>1. TypeOK' /\ OneHolder' /\ Quiet' /\ CallsKnow' /\ SaveSees' /\ ErasureSees' /\ HolderSealed'
      /\ Books' /\ Unwound' /\ ErasureKnows' /\ Recovered' /\ NothingLeftBehind'
  BY DEF TypeOK, OneHolder, Erases, Quiet, Inside, CallsKnow, SaveSees,
         ErasureSees, HolderSealed, IsSealed, Books, Agrees, Unwound, Rivals,
         ErasureKnows, Recovered, NothingLeftBehind, Orphans
<1> QED BY <1>1

\* recover() empties the staging directory.
LEMMA RemoveStagedKeeps ==
  ASSUME IInv, RemoveStaged
  PROVE  IInv'
<1> USE DEF IInv, RemoveStaged, ledger, call, bounds, past
<1>1. TypeOK' /\ OneHolder' /\ Quiet' /\ CallsKnow' /\ SaveSees' /\ ErasureSees' /\ HolderSealed'
      /\ Books' /\ Unwound' /\ ErasureKnows' /\ Recovered' /\ NothingLeftBehind'
  BY DEF TypeOK, OneHolder, Erases, Quiet, Inside, CallsKnow, SaveSees,
         ErasureSees, HolderSealed, IsSealed, Books, Agrees, Unwound, Rivals,
         ErasureKnows, Recovered, NothingLeftBehind, Orphans
<1> QED BY <1>1

\* recover() removes the rows whose file is missing: none of them was promised.
LEMMA RemoveIncompleteKeeps ==
  ASSUME IInv, RemoveIncomplete
  PROVE  IInv'
<1> USE DEF IInv, RemoveIncomplete, Missing, disk, call, bounds, past
<1>1. TypeOK'
  BY DEF TypeOK, Contents
<1>2. OneHolder' /\ Quiet' /\ CallsKnow' /\ HolderSealed' /\ Books' /\ Unwound' /\ Recovered'
      /\ NothingLeftBehind'
  BY DEF OneHolder, Erases, Quiet, Inside, CallsKnow, HolderSealed, IsSealed,
         Books, Agrees, Unwound, Rivals, Recovered, NothingLeftBehind, Orphans
<1>3. SaveSees'
  BY DEF SaveSees, Quiet, Erases, Inside
<1>4. ErasureSees'
  BY DEF ErasureSees, Erases, Quiet, Inside
<1>5. ErasureKnows'
  BY DEF ErasureKnows, Erases, OfFamily
<1> QED BY <1>1, <1>2, <1>3, <1>4, <1>5

\* recover() removes the files of no row: none of them was promised.
LEMMA RemoveOrphansKeeps ==
  ASSUME IInv, RemoveOrphans
  PROVE  IInv'
<1> USE DEF IInv, RemoveOrphans, Orphans, ledger, call, bounds, past
<1>1. TypeOK'
  BY DEF TypeOK, Contents
<1>2. OneHolder' /\ Quiet' /\ CallsKnow' /\ SaveSees' /\ ErasureSees' /\ Unwound'
  BY DEF OneHolder, Erases, Quiet, Inside, CallsKnow, SaveSees, ErasureSees,
         Unwound, Rivals
<1>3. HolderSealed'
  BY DEF HolderSealed, IsSealed, Quiet, Erases, Inside
<1>4. Books'
  BY DEF Books, Agrees, TypeOK, Contents
<1>5. ErasureKnows'
  BY DEF ErasureKnows, Erases, OfFamily, TypeOK, Contents
<1>6. Recovered'
  BY DEF Recovered, TypeOK, Contents
<1>7. NothingLeftBehind'
  BY DEF NothingLeftBehind, Inside, Recovered
<1> QED BY <1>1, <1>2, <1>3, <1>4, <1>5, <1>6, <1>7

\* Nothing happens.
LEMMA StutterKeeps ==
  ASSUME IInv, UNCHANGED vars
  PROVE  IInv'
<1> USE DEF IInv, vars, ledger, disk, call, bounds, past
<1>1. TypeOK' /\ OneHolder' /\ Quiet' /\ CallsKnow' /\ SaveSees' /\ ErasureSees' /\ HolderSealed'
      /\ Books' /\ Unwound' /\ ErasureKnows' /\ Recovered' /\ NothingLeftBehind'
  BY DEF TypeOK, OneHolder, Erases, Quiet, Inside, CallsKnow, SaveSees,
         ErasureSees, HolderSealed, IsSealed, Books, Agrees, Unwound, Rivals,
         ErasureKnows, Recovered, NothingLeftBehind, Orphans
<1> QED BY <1>1

---------------------------------------------------------------------------
(* The theorems.                                                           *)

\* An empty store is in order.
LEMMA StartsWell == Init => IInv
BY InboxAssumption
   DEF Init, IInv, TypeOK, OneHolder, Erases, Quiet, Inside, CallsKnow, SaveSees, ErasureSees,
       HolderSealed, Books, Agrees, Unwound, ErasureKnows, Recovered, NothingLeftBehind, Orphans,
       Empty, Contents

\* Whatever happens next, it stays so.
LEMMA EveryStepKeeps == IInv /\ [Next]_vars => IInv'
<1> SUFFICES ASSUME IInv, [Next]_vars
             PROVE  IInv'
  OBVIOUS
<1>1. ASSUME NEW s \in Saves, Stage(s) \/ Save(s) \/ Raise(s) \/ RaiseAgain(s)
      PROVE  IInv'
  BY <1>1, StageKeeps, BeginKeeps, ExistsKeeps, ConflictKeeps, PublishKeeps, FsyncDirectoryKeeps,
     InsertKeeps, CommitKeeps, UndoKeeps, UntempKeeps, UnfinalKeeps, RaiseKeeps, RaiseAgainKeeps
     DEF Save
<1>2. ASSUME NEW e \in Erasures, EraseBegin(e) \/ Erase(e) \/ EraseRaise(e)
      PROVE  IInv'
  BY <1>2, EraseBeginKeeps, EraseUnlinkKeeps, EraseDeleteKeeps, EraseCommitKeeps, EraseRaiseKeeps
     DEF Erase
<1>3. CASE Other
  BY <1>3, OtherEntersKeeps, OtherCommitsKeeps, OtherRollsBackKeeps, OtherLeavesKeeps,
     ForgetFamilyKeeps DEF Other
<1>4. CASE Kill \/ LosePower \/ Restart \/ Recover
  BY <1>4, KillKeeps, LosePowerKeeps, RestartKeeps, RemoveStagedKeeps, RemoveIncompleteKeeps,
     RemoveOrphansKeeps DEF Recover
<1>5. CASE UNCHANGED vars
  BY <1>5, StutterKeeps
<1> QED BY <1>1, <1>2, <1>3, <1>4, <1>5 DEF Next, Trouble

\* The store's state always fits together as IInv says, through any interleaving of saves,
\* erasures, other use cases, failures, kills, power losses and recoveries.
THEOREM InboxInvariant == Spec => []IInv
<1> QED BY StartsWell, EveryStepKeeps, PTL DEF Spec

\* A letter whose save was answered Ok stays, row and bytes, unless its save crossed one that
\* was unwinding; and the ledger and the disk never have two texts for one letter.
THEOREM LettersStay == Spec => []AcknowledgedLetterStays
<1>1. IInv => AcknowledgedLetterStays
  BY DEF IInv, TypeOK, Books, Agrees, AcknowledgedLetterStays
<1> QED BY <1>1, InboxInvariant, PTL

\* Types, and no ciphertext, staging file or open transaction that nobody will clean up.
THEOREM NothingIsLeft == Spec => []StoreIsSound
<1>1. IInv => StoreIsSound
  BY DEF IInv, StoreIsSound
<1> QED BY <1>1, InboxInvariant, PTL

\* The store serves nobody before recover() has made the ledger and the disk agree.
THEOREM ServesOnlyClean == Spec => StartsClean
<1>1. IInv /\ [Next]_vars =>
        [server # "up" /\ server' = "up" =>
           temp' = {} /\ \A l \in Letters : (rows'[l] = Nothing) <=> (file'[l] = Nothing)]_vars
  <2> SUFFICES ASSUME IInv, [Next]_vars, server # "up", server' = "up"
               PROVE  temp' = {} /\ \A l \in Letters : (rows'[l] = Nothing) <=> (file'[l] = Nothing)
    OBVIOUS
  <2>1. RemoveOrphans
    BY DEF Next, Save, Erase, Other, Trouble, Recover, Stage, Begin, Exists, Conflict, Publish,
           FsyncDirectory, Insert, Commit, Raise, Undo, Untemp, Unfinal, RaiseAgain, EraseBegin,
           EraseUnlink, EraseDelete, EraseCommit, EraseRaise, OtherEnters, OtherCommits,
           OtherRollsBack, OtherLeaves, ForgetFamily, Kill, LosePower, Stops, Restart,
           RemoveStaged, RemoveIncomplete, vars
  <2>2. temp' = {}
    BY <2>1 DEF RemoveOrphans, IInv, Recovered
  <2>3. Orphans = {} /\ UNCHANGED <<rows, file>>
    BY <2>1 DEF RemoveOrphans, ledger
  <2>4. \A l \in Letters : (rows[l] = Nothing) <=> (file[l] = Nothing)
    BY <2>1, <2>3 DEF RemoveOrphans, Orphans, IInv, Recovered
  <2> QED BY <2>2, <2>3, <2>4
<1> QED BY <1>1, InboxInvariant, PTL DEF Spec, StartsClean

=============================================================================
