----------------------------- MODULE UnitOfWork -----------------------------
(***************************************************************************)
(* The transaction boundary every writing use case shares                  *)
(* (adapters/persistence/sqlite.py, SqliteUnitOfWork) over the one         *)
(* connection of the process (schema.py, GuardedConnection).               *)
(*                                                                         *)
(* The connection's lock is held for one statement at a time.  The unit of *)
(* work takes no lock: it is one object, with one depth counter, entered   *)
(* by every request of the threadpool.  So a step here is one statement,   *)
(* or one look at the counter.  Each request writes two rows, as a Spark   *)
(* and its Moment are, and either write may fail.                          *)
(*                                                                         *)
(* SparkRequests takes the whole transaction for one step; this module is  *)
(* what that step is made of.                                              *)
(***************************************************************************)
EXTENDS Integers, FiniteSets

CONSTANTS
  Requests,  \* use cases that run `with self._uow`
  Imports,   \* those that return Err inside it without rolling back (import_.py)
  Seals      \* Future Inbox seals: BEGIN IMMEDIATE under the lock (inbox.py)

ASSUME RequestsAssumption ==
  /\ IsFiniteSet(Requests)
  /\ Imports \subseteq Requests
  /\ Requests \cap Seals = {}

VARIABLES
  depth,    \* SqliteUnitOfWork._depth
  open,     \* connection.in_transaction
  stable,   \* rows committed
  dirty,    \* rows of the open transaction
  pc,       \* where each request is
  outcome,  \* how its body went: Ok, Err or an exception
  shared,   \* history: requests that met another, or a refused seal, while inside
  robbed    \* history: requests whose rows another request, or a crash, undid

store == <<open, stable, dirty>>
vars == <<depth, store, pc, outcome, shared, robbed>>

Counted == {"first", "second", "rollback", "commit", "commit now", "exit"}
Inside  == Counted \cup {"begin", "count", "exit last"}
Ended   == {"ok", "failed", "killed"}
Steps   == Inside \cup Ended \cup {"start", "refused"}

Parts == {"first", "second"}
Rows(r) == {r} \X Parts

Init ==
  /\ depth = 0
  /\ open = FALSE /\ stable = {} /\ dirty = {}
  /\ pc = [r \in Requests \cup Seals |-> "start"]
  /\ outcome = [r \in Requests |-> "ok"]
  /\ shared = {} /\ robbed = {}

---------------------------------------------------------------------------
(* The connection, one statement at a time.  Outside a transaction sqlite  *)
(* commits each statement by itself.                                       *)

Written(row) ==
  IF open THEN dirty' = dirty \cup {row} /\ UNCHANGED <<open, stable>>
          ELSE stable' = stable \cup {row} /\ UNCHANGED <<open, dirty>>

Committed == open' = FALSE /\ stable' = stable \cup dirty /\ dirty' = {}

\* What r undoes may be what others wrote.
UndoneBy(r) ==
  /\ open' = FALSE /\ dirty' = {} /\ UNCHANGED stable
  /\ robbed' = robbed \cup ({row[1] : row \in dirty} \ {r})

At(r, step) == pc[r] = step
Goes(r, step) == pc' = [pc EXCEPT ![r] = step]

---------------------------------------------------------------------------
(* __enter__                                                               *)

Others(r) == {q \in Requests \ {r} : pc[q] \in Inside}

Enter(r) ==
  /\ At(r, "start")
  /\ Goes(r, IF depth = 0 THEN "begin" ELSE "count")
  /\ shared' = IF Others(r) = {} THEN shared ELSE shared \cup {r} \cup Others(r)
  /\ UNCHANGED <<depth, store, outcome, robbed>>

\* A slip: an entry that failed is taken back all the same.
AfterBeginFailsUncounted == "exit"
AfterBeginFails == "failed"

\* BEGIN within a transaction is an OperationalError: the request is a 500.
BeginWork(r) ==
  /\ At(r, "begin")
  /\ IF open THEN Goes(r, AfterBeginFails) /\ UNCHANGED open
             ELSE Goes(r, "count") /\ open' = TRUE
  /\ UNCHANGED <<depth, stable, dirty, outcome, shared, robbed>>

CountIn(r) ==
  /\ At(r, "count")
  /\ depth' = depth + 1
  /\ Goes(r, "first")
  /\ UNCHANGED <<store, outcome, shared, robbed>>

---------------------------------------------------------------------------
(* The body of a use case.                                                 *)

Write(r, part) ==
  /\ At(r, part)
  /\ Written(<<r, part>>)
  /\ Goes(r, IF part = "first" THEN "second" ELSE "commit")
  /\ UNCHANGED <<depth, outcome, shared, robbed>>

\* A slip: a save that failed is returned, and nothing is rolled back.
AfterErrForgetful(r) == "exit"

AfterErr(r) == IF r \in Imports THEN "exit" ELSE "rollback"

\* A save that returns Err, and one that raises.
WriteErr(r, part) ==
  /\ At(r, part)
  /\ Goes(r, AfterErr(r))
  /\ outcome' = [outcome EXCEPT ![r] = "err"]
  /\ UNCHANGED <<depth, store, shared, robbed>>
WriteRaises(r, part) ==
  /\ At(r, part)
  /\ Goes(r, "exit")
  /\ outcome' = [outcome EXCEPT ![r] = "exception"]
  /\ UNCHANGED <<depth, store, shared, robbed>>

\* rollback() does not look at the depth.
RollBack(r) ==
  /\ At(r, "rollback")
  /\ IF open THEN UndoneBy(r) ELSE UNCHANGED <<store, robbed>>
  /\ Goes(r, "exit")
  /\ UNCHANGED <<depth, outcome, shared>>

\* commit() leaves the work to an outer unit of work, or to another request.
Commit(r) ==
  /\ At(r, "commit")
  /\ Goes(r, IF depth <= 1 THEN "commit now" ELSE "exit")
  /\ UNCHANGED <<depth, store, outcome, shared, robbed>>

CommitNow(r) ==
  /\ At(r, "commit now")
  /\ IF open THEN Committed ELSE UNCHANGED store
  /\ Goes(r, "exit")
  /\ UNCHANGED <<depth, outcome, shared, robbed>>

---------------------------------------------------------------------------
(* __exit__                                                                *)

Answer(r) == IF outcome[r] = "ok" THEN "ok" ELSE "failed"

\* A slip: the last one out leaves the transaction as it is.
AfterExitCareless(r) == Answer(r)

AfterExit(r) == IF depth = 1 THEN "exit last" ELSE Answer(r)

Exit(r) ==
  /\ At(r, "exit")
  /\ depth' = depth - 1
  /\ Goes(r, AfterExit(r))
  /\ UNCHANGED <<store, outcome, shared, robbed>>

\* A slip: the last one out always takes the transaction back.
LastCommitsNever(r) == FALSE
LastCommits(r) == outcome[r] # "exception"

\* Whoever brought the depth to zero ends the transaction, if there is one.
ExitLast(r) ==
  /\ At(r, "exit last")
  /\ \/ ~ open /\ UNCHANGED <<store, robbed>>
     \/ open /\ LastCommits(r) /\ Committed /\ UNCHANGED robbed
     \/ open /\ ~ LastCommits(r) /\ UndoneBy(r)
  /\ Goes(r, Answer(r))
  /\ UNCHANGED <<depth, outcome, shared>>

---------------------------------------------------------------------------
(* A Future Inbox seal holds the lock from BEGIN IMMEDIATE to COMMIT.  If  *)
(* BEGIN fails, it rolls back whatever transaction it finds.               *)

Seal(q) ==
  /\ At(q, "start")
  /\ IF open THEN Goes(q, "refused") /\ UNCHANGED stable
             ELSE Goes(q, "ok") /\ stable' = stable \cup Rows(q)
  /\ UNCHANGED <<depth, open, dirty, outcome, shared, robbed>>

SealRefused(q) ==
  /\ At(q, "refused")
  /\ IF open THEN UndoneBy(q) ELSE UNCHANGED <<store, robbed>>
  /\ Goes(q, "failed")
  /\ shared' = shared \cup Others(q)
  /\ UNCHANGED <<depth, outcome>>

\* The process stops; sqlite forgets what was not committed.
Crash ==
  /\ \E r \in Requests : pc[r] \in Inside
  /\ depth' = 0
  /\ open' = FALSE /\ dirty' = {} /\ UNCHANGED stable
  /\ pc' = [r \in DOMAIN pc |-> IF pc[r] \in Ended THEN pc[r] ELSE "killed"]
  /\ robbed' = robbed \cup {row[1] : row \in dirty}
  /\ UNCHANGED <<outcome, shared>>

Work(r) ==
  \/ Enter(r) \/ BeginWork(r) \/ CountIn(r)
  \/ \E part \in Parts : Write(r, part) \/ WriteErr(r, part) \/ WriteRaises(r, part)
  \/ RollBack(r) \/ Commit(r) \/ CommitNow(r) \/ Exit(r) \/ ExitLast(r)

Next ==
  \/ \E r \in Requests : Work(r)
  \/ \E q \in Seals : Seal(q) \/ SealRefused(q)
  \/ Crash

Spec == Init /\ [][Next]_vars

---------------------------------------------------------------------------
(* Properties.                                                             *)

\* The counter, the connection and each request hold values of their types.
TypeOK ==
  /\ depth \in Nat
  /\ open \in BOOLEAN
  /\ stable \subseteq (Requests \cup Seals) \X Parts
  /\ dirty \subseteq Requests \X Parts
  /\ pc \in [Requests \cup Seals -> Steps]
  /\ outcome \in [Requests -> {"ok", "err", "exception"}]
  /\ shared \subseteq Requests
  /\ robbed \subseteq Requests

Idle == \A r \in Requests : pc[r] \notin Inside

\* The boundary mends itself: once nobody is inside, the counter is back at zero
\* and no transaction is left open, for which every later BEGIN would fail.
NothingLeftOpen == Idle => depth = 0 /\ ~ open /\ dirty = {}

\* A request that was alone inside wrote all of its rows or none: all when it
\* was acknowledged, none when it failed.  An import's early Err is excepted.
AloneIsAtomic == \A r \in Requests \ (shared \cup Imports) :
  /\ pc[r] = "ok" /\ r \notin robbed => Rows(r) \subseteq stable
  /\ pc[r] = "failed" => Rows(r) \cap (stable \cup dirty) = {}

\* What was acknowledged is in the archive once nobody is inside, unless another
\* request's rollback, or a crash while it shared a transaction, undid it.
LostOnlyToOthers == Idle =>
  \A r \in Requests : pc[r] = "ok" /\ r \notin robbed => Rows(r) \subseteq stable

\* "A family archive is never left half-written" (sqlite.py:53), because the unit
\* of work "holds the same lock for a whole transaction" (ADR-0003:15).
NeverHalfWritten == Idle =>
  \A r \in Requests : Rows(r) \subseteq stable \/ Rows(r) \cap stable = {}

=============================================================================
