------------------------------ MODULE RenderJobs ------------------------------
(***************************************************************************)
(* Film compilation as durable jobs (application/render_jobs.py over       *)
(* SqliteRenderJobRepository).  The family server submits and cancels; the *)
(* render workers (scripts/render_worker.py) are other processes over the  *)
(* same database, each with a connection in autocommit.  Nobody holds a    *)
(* lock over two statements, so a step is one statement.                   *)
(*                                                                         *)
(* A job's film goes to a path named by the hash of its spec: every job of *)
(* a spec writes the same file.  The manifest beside it shares its fate.   *)
(* created_at is taken to follow the order of insertion.  The token of     *)
(* CancellationToken is never shared with a worker, so a cancel is only    *)
(* what the row says.                                                      *)
(***************************************************************************)
EXTENDS Naturals, FiniteSets, FiniteSetsExt

CONSTANTS
  Families,
  Films,       \* specs of a family
  Submits,     \* calls of SubmitRenderJobUseCase
  Workers,
  MaxQueued,   \* max_queued_jobs
  Rounds,      \* progress saves before the film is drawn
  MaxCrashes   \* bound: workers that die, and calls of theirs that fail

ASSUME RenderAssumption ==
  /\ IsFiniteSet(Submits) /\ IsFiniteSet(Families)
  /\ MaxQueued \in Nat /\ Rounds \in Nat \ {0} /\ MaxCrashes \in Nat

Specs == Families \X Films
FamilyOf(spec) == spec[1]
Jobs == 1 .. Cardinality(Submits)
NoJob == 0
NoSpec == << >>

VARIABLES
  count,      \* jobs inserted so far
  status,     \* render_job.status, "NONE" before it is inserted, "GONE" with its family
  spec,       \* its family and spec_hash
  erased,     \* families that were deleted
  film,       \* the file at each spec's destination
  submit,     \* where each submission is
  wanted,     \* what it asks for
  worker,     \* where each worker is
  job,        \* the job it claims or renders
  held,       \* the status of its copy of the row
  round,      \* how many progress saves it made
  crashes,
  kept,       \* history: specs whose film could not be unlinked
  cancelled,  \* history: jobs whose cancel was answered True
  raced,      \* history: families with two submissions at once
  revived,    \* history: jobs written over after their cancel
  contested   \* history: specs that two workers were at

table == <<count, status, spec, erased>>
calls == <<submit, wanted>>
hands == <<job, held, round>>
past  == <<kept, cancelled, raced, revived, contested>>
vars == <<table, film, calls, worker, hands, crashes, past>>

Active == {"PENDING", "RUNNING"}
Ended  == {"COMPLETED", "FAILED", "CANCELLED"}

\* A slip: a film that is done is compiled again on retry.
LiveUnlessDone == Active
Live == Active \cup {"COMPLETED"}

JobsOf(sp) == {j \in Jobs : status[j] \notin {"NONE", "GONE"} /\ spec[j] = sp}
LiveJobs(sp) == {j \in JobsOf(sp) : status[j] \in Live}
WithStatus(f, ss) == {j \in Jobs : status[j] \in ss /\ FamilyOf(spec[j]) = f}

Init ==
  /\ count = 0
  /\ status = [j \in Jobs |-> "NONE"]
  /\ spec = [j \in Jobs |-> NoSpec]
  /\ erased = {}
  /\ film = [sp \in Specs |-> "none"]
  /\ submit = [s \in Submits |-> "start"]
  /\ wanted = [s \in Submits |-> NoSpec]
  /\ worker = [w \in Workers |-> "down"]
  /\ job = [w \in Workers |-> NoJob]
  /\ held = [w \in Workers |-> "NONE"]
  /\ round = [w \in Workers |-> 0]
  /\ crashes = 0
  /\ kept = {} /\ cancelled = {} /\ raced = {} /\ revived = {} /\ contested = {}

---------------------------------------------------------------------------
(* SubmitRenderJobUseCase                                                  *)

SubmitGoes(s, there) == submit' = [submit EXCEPT ![s] = there]

NewestIsLive(sp) == JobsOf(sp) # {} /\ status[Max(JobsOf(sp))] \in Live

QueueIsFull(f) == Cardinality(WithStatus(f, Active)) >= MaxQueued

\* The queue's limit and the newest job of the spec, read before the
\* transaction that inserts.
List(s) ==
  /\ submit[s] = "start"
  /\ \E sp \in Specs :
       /\ wanted' = [wanted EXCEPT ![s] = sp]
       /\ SubmitGoes(s, CASE NewestIsLive(sp) -> "same"
                          [] ~ NewestIsLive(sp) /\ QueueIsFull(FamilyOf(sp)) -> "refused"
                          [] OTHER -> "select")
  /\ UNCHANGED <<table, film, worker, hands, crashes, past>>

\* repository.submit: look for a live job, then insert.
Look(s) ==
  /\ submit[s] = "select"
  /\ SubmitGoes(s, IF LiveJobs(wanted[s]) = {} THEN "insert" ELSE "same")
  /\ UNCHANGED <<table, film, wanted, worker, hands, crashes, past>>

\* Submissions for the family that have read and not written.
Rivals(s) == {t \in Submits \ {s} : /\ submit[t] \in {"select", "insert"}
                                    /\ FamilyOf(wanted[t]) = FamilyOf(wanted[s])}

Insert(s) ==
  /\ submit[s] = "insert" /\ FamilyOf(wanted[s]) \notin erased
  /\ count' = count + 1
  /\ status' = [status EXCEPT ![count + 1] = "PENDING"]
  /\ spec' = [spec EXCEPT ![count + 1] = wanted[s]]
  /\ SubmitGoes(s, "created")
  /\ raced' = IF Rivals(s) = {} THEN raced ELSE raced \cup {FamilyOf(wanted[s])}
  /\ UNCHANGED <<erased, film, wanted, worker, hands, crashes, kept, cancelled, revived, contested>>

\* The row's family is gone: the foreign key refuses it.
InsertRefused(s) ==
  /\ submit[s] = "insert" /\ FamilyOf(wanted[s]) \in erased
  /\ SubmitGoes(s, "refused")
  /\ UNCHANGED <<table, film, wanted, worker, hands, crashes, past>>

\* A slip: a job that ended can still be cancelled.
CancellableAlways(j) == status[j] # "NONE"
Cancellable(j) == status[j] \in Active

\* CancelRenderJobUseCase; once a job, as a bound.
Cancel(j) ==
  /\ Cancellable(j) /\ j \notin cancelled
  /\ status' = [status EXCEPT ![j] = "CANCELLED"]
  /\ cancelled' = cancelled \cup {j}
  /\ UNCHANGED <<count, spec, erased, film, calls, worker, hands, crashes, kept, raced, revived, contested>>

---------------------------------------------------------------------------
(* RenderJobWorker, a step a statement                                     *)

Goes(w, there) == worker' = [worker EXCEPT ![w] = there]

\* process_next ends, or its process: what it held is gone.
Drops(w, there) ==
  /\ Goes(w, there)
  /\ job' = [job EXCEPT ![w] = NoJob]
  /\ held' = [held EXCEPT ![w] = "NONE"]
  /\ round' = [round EXCEPT ![w] = 0]

\* The specs of the jobs workers are at.
InHand == {spec[job[v]] : v \in {u \in Workers : job[u] # NoJob}}

\* A slip: an interrupted job is left as it is.
RecoveredNone == {}

\* recover_interrupted_jobs does not know whose a running job is.
Recovered == {j \in Jobs : status[j] = "RUNNING"}

StartUp(w) ==
  /\ worker[w] = "down"
  /\ status' = [j \in Jobs |-> IF j \in Recovered THEN "PENDING" ELSE status[j]]
  /\ contested' = contested \cup ({spec[j] : j \in Recovered} \cap InHand)
  /\ Goes(w, "idle")
  /\ UNCHANGED <<count, spec, erased, film, calls, hands, crashes, kept, cancelled, raced, revived>>

\* The family with the fewest running jobs first, then the oldest job.
Pending == {j \in Jobs : status[j] = "PENDING"}
Running(j) == Cardinality(WithStatus(FamilyOf(spec[j]), {"RUNNING"}))
Fairest == {j \in Pending : \A k \in Pending : Running(j) <= Running(k)}

Select(w) ==
  /\ worker[w] = "idle" /\ Pending # {}
  /\ job' = [job EXCEPT ![w] = Min(Fairest)]
  /\ contested' = contested \cup ({spec[Min(Fairest)]} \cap InHand)
  /\ Goes(w, "update")
  /\ UNCHANGED <<table, film, calls, held, round, crashes, kept, cancelled, raced, revived>>

\* Only a pending job is marked; whether it was is not looked at.
Claimed(j) == IF status[j] = "PENDING" THEN "RUNNING" ELSE status[j]

Update(w) ==
  /\ worker[w] = "update"
  /\ status' = [status EXCEPT ![job[w]] = Claimed(job[w])]
  /\ Goes(w, "read")
  /\ UNCHANGED <<count, spec, erased, film, calls, hands, crashes, past>>

Read(w) ==
  /\ worker[w] = "read" /\ status[job[w]] # "GONE"
  /\ held' = [held EXCEPT ![w] = status[job[w]]]
  /\ round' = [round EXCEPT ![w] = 0]
  /\ Goes(w, "check")
  /\ UNCHANGED <<table, film, calls, job, crashes, past>>

\* The row went between two statements of the claim: there is no job.
ReadNothing(w) ==
  /\ worker[w] = "read" /\ status[job[w]] = "GONE"
  /\ Drops(w, "idle")
  /\ UNCHANGED <<table, film, calls, crashes, past>>

\* A row that is gone is not a cancelled one: the worker goes on.
SeenCancelled(w) == status[job[w]] = "CANCELLED"

Check(w) ==
  /\ worker[w] = "check"
  /\ Goes(w, IF SeenCancelled(w) THEN "clean" ELSE "progress")
  /\ UNCHANGED <<table, film, calls, hands, crashes, past>>

\* repository.save writes the whole row, whatever it has become, if there is one.
Saves(w, new) ==
  /\ status' = [status EXCEPT ![job[w]] = IF @ = "GONE" THEN @ ELSE new]
  /\ revived' = IF status[job[w]] = "CANCELLED" /\ new # "CANCELLED"
                  THEN revived \cup {job[w]} ELSE revived
  /\ UNCHANGED <<count, spec, erased, kept, cancelled, raced, contested>>

\* After the last save there is no check before the film is drawn.
AfterProgress(w) == IF round[w] + 1 < Rounds THEN "check" ELSE "render"

Progress(w) ==
  /\ worker[w] = "progress"
  /\ Saves(w, held[w])
  /\ round' = [round EXCEPT ![w] = @ + 1]
  /\ Goes(w, AfterProgress(w))
  /\ UNCHANGED <<film, calls, job, held, crashes>>

\* The renderer writes the destination itself, so it is first a part of a film.
Draw(w) ==
  /\ worker[w] = "render"
  /\ film' = [film EXCEPT ![spec[job[w]]] = "partial"]
  /\ Goes(w, "drawing")
  /\ UNCHANGED <<table, calls, hands, crashes, past>>

Drawn(w) ==
  /\ worker[w] = "drawing"
  /\ \/ film' = [film EXCEPT ![spec[job[w]]] = "whole"] /\ Goes(w, "drawn")
     \/ UNCHANGED film /\ Goes(w, "undrawn")
  /\ UNCHANGED <<table, calls, hands, crashes, past>>

\* A slip: what the renderer returned is not looked at.
OutcomeUnseen(w) == "complete"
Outcome(w) == IF worker[w] = "drawn" THEN "complete" ELSE "fail"

AfterDrawing(w) ==
  /\ worker[w] \in {"drawn", "undrawn"}
  /\ Goes(w, IF SeenCancelled(w) THEN "clean" ELSE Outcome(w))
  /\ UNCHANGED <<table, film, calls, hands, crashes, past>>

Finish(w) ==
  /\ worker[w] \in {"complete", "fail", "cancel"}
  /\ Saves(w, CASE worker[w] = "complete" -> "COMPLETED"
                [] worker[w] = "fail" -> "FAILED"
                [] worker[w] = "cancel" -> "CANCELLED")
  /\ Drops(w, "idle")
  /\ UNCHANGED <<film, calls, crashes>>

AfterCleaning(w) == [film EXCEPT ![spec[job[w]]] = "none"]

\* _handle_cancellation unlinks the film, or warns that it could not, and then
\* saves the row.
CleanUp(w) ==
  /\ worker[w] = "clean"
  /\ \/ film' = AfterCleaning(w) /\ UNCHANGED <<crashes, kept>>
     \/ /\ crashes < MaxCrashes /\ crashes' = crashes + 1
        /\ kept' = kept \cup {spec[job[w]]}
        /\ UNCHANGED film
  /\ Goes(w, "cancel")
  /\ UNCHANGED <<table, calls, hands, cancelled, raced, revived, contested>>

\* SQLite or the renderer raises inside the try block: the job is failed.
Raise(w) ==
  /\ worker[w] \in {"check", "progress", "drawing", "drawn", "undrawn", "complete", "cancel"}
  /\ crashes < MaxCrashes /\ crashes' = crashes + 1
  /\ Goes(w, "fail")
  /\ UNCHANGED <<table, film, calls, hands, past>>

\* Killed, or raised outside the try block, which the daemon's loop does not catch.
Crash(w) ==
  /\ worker[w] # "down"
  /\ crashes < MaxCrashes /\ crashes' = crashes + 1
  /\ Drops(w, "down")
  /\ UNCHANGED <<table, film, calls, past>>

---------------------------------------------------------------------------
(* What happens to jobs and films from outside                             *)

\* The family is erased, and its jobs with it (ON DELETE CASCADE); its films are not.
EraseFamily(f) ==
  /\ f \notin erased
  /\ erased' = erased \cup {f}
  /\ status' = [j \in Jobs |-> IF spec[j] # NoSpec /\ FamilyOf(spec[j]) = f THEN "GONE" ELSE status[j]]
  /\ UNCHANGED <<count, spec, film, calls, worker, hands, crashes, past>>

\* prune_expired_render_artifacts: what lay on the render host for 48 hours. The row of its
\* job stays as it is. (That it goes while a worker holds the job and has not begun to draw
\* is as if it went before.)
Expire(sp) ==
  /\ film[sp] \in {"partial", "whole"} /\ sp \notin InHand
  /\ film' = [film EXCEPT ![sp] = "expired"]
  /\ UNCHANGED <<table, calls, worker, hands, crashes, past>>

---------------------------------------------------------------------------
Submit(s) == List(s) \/ Look(s) \/ Insert(s) \/ InsertRefused(s)
Work(w) == \/ Select(w) \/ Update(w) \/ Read(w) \/ ReadNothing(w) \/ Check(w)
           \/ Progress(w) \/ Draw(w) \/ Drawn(w) \/ AfterDrawing(w) \/ Finish(w) \/ CleanUp(w)

Next == \/ \E s \in Submits : Submit(s)
        \/ \E j \in Jobs : Cancel(j)
        \/ \E w \in Workers : StartUp(w) \/ Work(w) \/ Raise(w) \/ Crash(w)
        \/ \E f \in Families : EraseFamily(f)
        \/ \E sp \in Specs : Expire(sp)

\* A worker that is up goes on; the renderer has timeouts, so drawing ends.
\* Nothing is assumed to start a worker: no file of the repository does.
Fairness == \A w \in Workers : WF_vars(Work(w))

Spec == Init /\ [][Next]_vars /\ Fairness

---------------------------------------------------------------------------
(* Properties                                                              *)

TypeOK ==
  /\ count \in 0 .. Cardinality(Submits)
  /\ status \in [Jobs -> Active \cup Ended \cup {"NONE", "GONE"}]
  /\ erased \subseteq Families
  /\ spec \in [Jobs -> Specs \cup {NoSpec}]
  /\ film \in [Specs -> {"none", "partial", "whole", "expired"}]
  /\ submit \in [Submits -> {"start", "select", "insert", "same", "refused", "created"}]
  /\ wanted \in [Submits -> Specs \cup {NoSpec}]
  /\ worker \in [Workers -> {"down", "idle", "update", "read", "check", "progress", "render",
                             "drawing", "drawn", "undrawn", "complete", "fail", "cancel", "clean"}]
  /\ job \in [Workers -> Jobs \cup {NoJob}]
  /\ held \in [Workers -> Active \cup Ended \cup {"NONE"}]
  /\ round \in [Workers -> 0 .. Rounds]
  /\ crashes \in 0 .. MaxCrashes
  /\ kept \subseteq Specs /\ cancelled \subseteq Jobs /\ raced \subseteq Families
  /\ revived \subseteq Jobs /\ contested \subseteq Specs

\* The jobs of a spec that a retry should find.
Standing(sp) == {j \in JobsOf(sp) : status[j] \in Active \cup {"COMPLETED"}}

\* A retry is never a second film: a spec has one job waiting, running or done,
\* whatever workers, cancels and crashes do, unless two submissions raced, two
\* workers were at it, or a cancelled one was written over by its worker.
\* And no family fills the queue: with one submission at a time its active jobs stay
\* within the limit, though ended jobs may be submitted again and interrupted ones
\* return to the queue, with the same exceptions.
OneJobPerFilm ==
  /\ \A sp \in Specs \ contested :
       FamilyOf(sp) \notin raced /\ JobsOf(sp) \cap revived = {} => Cardinality(Standing(sp)) <= 1
  /\ \A f \in Families \ raced :
       {j \in Jobs : j \in revived /\ FamilyOf(spec[j]) = f} = {} /\ f \notin {FamilyOf(sp) : sp \in contested}
         => Cardinality(WithStatus(f, Active)) <= MaxQueued

\* A job that says COMPLETED has its film, whole, on disk until it expires: nobody draws
\* over it or unlinks it for another job, unless two workers were at the spec or
\* it came to have two live jobs.  And a worker that stopped a job leaves no part of its
\* film behind, unless the file could not be unlinked, or another worker was at the spec.
FilmsFollowJobs ==
  /\ \A j \in Jobs :
       status[j] = "COMPLETED" =>
         \/ film[spec[j]] \in {"whole", "expired"}
         \/ spec[j] \in contested \/ FamilyOf(spec[j]) \in raced
         \/ JobsOf(spec[j]) \cap revived # {}
  /\ \A w \in Workers :
       worker[w] = "cancel" /\ spec[job[w]] \notin contested \cup kept
         => film[spec[job[w]]] \notin {"partial", "whole"}

\* What is told to the family is final: no later save, cancel or recovery changes
\* a job that ended, unless two workers were at its spec or its cancel was overwritten;
\* only its family's erasure takes it away, and nothing brings back a job that is gone.
EndIsFinal ==
  [][\A j \in Jobs \ revived' :
       /\ status[j] \in Ended /\ spec[j] \notin contested' /\ FamilyOf(spec[j]) \notin erased'
            => status'[j] = status[j]
       /\ status[j] = "GONE" => status'[j] = "GONE"]_vars

StaysUp(w) == <>[](worker[w] # "down")
ComesBack(w) == []<>(worker[w] # "down")

\* As long as one worker stays up, no job waits for ever, and no job keeps that worker for
\* ever, whatever becomes of the others. And if every worker that dies is started again
\* by somebody, every job ends: no crash, cancel or shared claim leaves one running for
\* ever. That somebody starts it is a hypothesis here, and nothing the code sees to: a job
\* whose worker died stays RUNNING until a worker starts.
JobsSettle ==
  /\ \A w \in Workers : StaysUp(w) =>
       \A j \in Jobs : /\ status[j] = "PENDING" ~> status[j] # "PENDING"
                      /\ job[w] = j ~> job[w] # j
  /\ (\A w \in Workers : ComesBack(w)) =>
       \A j \in Jobs : status[j] \in Active ~> status[j] \in Ended \cup {"GONE"}

\* The queue as a whole: its rows and workers are in states the code can write down, and
\* no film has two jobs nor a family more than its share, save for the races named above.
QueueIsSound == TypeOK /\ OneJobPerFilm
=============================================================================
