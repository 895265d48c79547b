# TLA+ models of Anuvritti

Anuvritti keeps a family's Sparks (things to do together, some day), brings a few of them
back at the right time, and keeps the Moments that became of them. One FastAPI process per
family server works on one SQLite connection; phones capture offline and replay; render
workers are separate processes; letters to a child are files beside the database.

The pure rules of the domain are small and well tested. What is hard is everything that
happens *between* two steps of the code: requests of the threadpool that read, wait and
write back; one transaction object shared by all of them; drains on a phone that overlap;
a kill between a file and its row; an archive that changes while it is exported, filmed or
copied. These modules are about that.

Paths below are relative to `src/anuvritti/` unless they begin with `apps/`, `packages/`,
`scripts/` or `docs/`. "filmkit" is `packages/filmkit/src/filmkit/`.

## 1. Inventory

Each part: what it keeps, what it does, what is hard, when it is correct.

### What the family asks of the server
- **Spark lifecycle and Return Engine** (`domain/spark.py`, `values.py`, `return_engine.py`).
  A row per Spark: status, dates, what people said. Capture, suggest, snooze, plan, archive,
  experience, override, record a why, hide; and the engine's scores, threshold, order and
  cap. *Correct when* a Spark is offered only after its quiet time, a stop is a stop, and a
  Spark the child has grown into comes back.
- **Spark and Moment requests** (`application/capture.py`, `returning.py`, `moments.py`,
  `presence.py`, `privacy.py`). A use case reads outside any transaction, computes new rows
  and saves whole rows. *Hard*: two on one Spark, midnight or a restart between.
- **Transaction boundary** (`adapters/persistence/sqlite.py`, `schema.py`). One connection,
  one `_depth`, for all threads. *Hard*: the lock is held for a statement only.
- **Device access** (`application/access.py`, `domain/access.py`). Founding, pairing codes,
  claims, lock-out, authentication, revocation. *Hard*: authentication saves the row it read.
- **Voice notes** (`application/voice.py`). Keep, transcribe, correct. *Correct when* a
  parent's correction is never written over.
- **Family deletion and uploads** (`application/privacy.py`). Files, media rows, the cascade,
  the audit trail. *Correct when* nothing outlives the family's row.
- **Imports, little things, exports, child vaults** (`application/export.py`, `import_.py`,
  `presence.py`, `domain/artifact.py`). *Hard*: read table by table beside writers.
- **The family's own words** (`domain/lexicon.py`, `adapters/intent/heuristic.py`). Counts of
  corrections; a deleted-and-rewritten table. *Hard*: overlapping corrections.
- **Promises kept in memory** (`application/invitations.py`, `capsules.py`, `messaging.py`,
  `billing.py`). Dictionaries of the process. *Hard*: restarts, two callers at once.
- **HTTP rate limits** (`interfaces/http/limits.py`). Sliding windows per tier.

### What the phone does
- **Offline capture** (`apps/anuvritti/src/upload/spool.ts`, `storage/*`, `provider.tsx`,
  `packages/client/src/runtime/queue.ts`, `transport.ts`; on the server
  `interfaces/http/idempotency.py`). Outbox, queue, files, vault key, token; the ledger of
  idempotency keys. *Hard*: drains are started by launch, network, foreground and shares
  and do not wait for one another. *Correct when* nothing saved is lost or doubled, and all
  arrives.

### What lasts for decades
- **Future Inbox store** (`adapters/persistence/inbox.py`) and **letters** (`domain/inbox.py`).
  A ledger row and a sealed file per letter; opening by birthday or by choice. *Hard*: a
  rename is no part of a transaction; power may go between any two steps.
- **Media store, key ring, rotation, backup, fixity** (`adapters/media/filesystem.py`,
  `adapters/backup.py`, `application/fixity.py`, `scripts/rotate_keys.py`). *Hard*: files are
  written in place beside a serving box.
- **Family key and receipts** (`adapters/key_recovery.py`, `adapters/film/verify.py`,
  `adapters/inbox/authenticity.py`). Ceremonies of two files. *Correct when* every receipt
  stays provable.
- **Schema migrations** (`adapters/persistence/schema.py`, `migrations.py`). *Hard*: scripts in
  autocommit, several processes at boot.

### Films
- **Composition, provenance, export** (`application/film.py`, `provenance.py`,
  `domain/film.py`, `adapters/film/`, filmkit's timing). *Hard*: minutes between reading,
  checking and writing, while the archive loses rows and files.
- **Drawing and its caches** (`adapters/film/render.py`, filmkit's browser and compositor).
  *Hard*: one workspace for all workers, keys of caches.
- **Render jobs** (`application/render_jobs.py`, `scripts/render_worker.py`). *Hard*: workers
  are processes in autocommit.

## 2. The modules

| module | models | how state and actions correspond |
|---|---|---|
| `SparkRules` | the domain's transitions and hard rules, as operators | a row of `spark` |
| `SparkRequests` | the use cases | one action reads and decides (`pending`), `Save` or `Conflict` writes `rows`, `moments` |
| `SparkPromise` | abstract: what the family is promised of a Spark | refined by `SparkRequests` |
| `ReturnScoring` | scores in exact parts, threshold, order, cap, and the screen that asks | built from `SparkRules` |
| `UnitOfWork` | `__enter__`, body, `commit`, `rollback`, `__exit__`, a statement a step | `depth` is `_depth`, `open` is `in_transaction` |
| `MemoryPromises` | invitations, the grandparent's question, capsules, messages, gifts | a variable per dictionary; accepting and sending read, then write; `Restart` empties all |
| `FamilyLexicon` | learn, bound, weigh; an override statement by statement | `terms` is `lexicon_term` |
| `RateLimits` | `classify_route_tier`, `is_allowed` | `bucket` is `_buckets` |
| `Household` | founding, pairing, authentication, revocation, voice notes, uploads, the event of an export, erasure | a variable per table; a read, a transaction, a file operation is a step |
| `OfflineCapture`, `CapturePromise` | both drains await by await and the server's three steps; abstract: safe, then kept or refused | the two tables, files, drains' snapshots, archive, ledger |
| `FutureInbox` | save, erase, recover, other transactions, kill and power loss | ledger, transaction, disk as seen and as durable |
| `Letters` | sealing and opening, birthdays, clocks set back | terms fixed at sealing |
| `MediaCustody` | put, rotation's walk, backup, verify, restore, audit, repair | a file is whole, torn or rotten, under a key; `wal`: a stopped server left its log |
| `FamilyKeys` | backup, rotate, recover, inventory; anchoring receipts | key file, bundles, receipts |
| `SchemaUpkeep` | boots and rollbacks that race and are killed | `version` is `user_version` |
| `FamilyArchive` | writers, imports, three exports, the sealed bundle | rows per table, what an export has read |
| `FilmMaking` | compose, check, compile, export, verify | archive, scenes, timeline, folder |
| `FilmDrawing` | pages, frames, clips, caches, joining | the workspace's files by name |
| `RenderJobs` | submit, cancel, worker loop, a statement a step; erasure of the family, expiry of films | `render_job`, films, what a worker holds |
| `SparkRequests_proofs`, `FutureInbox_proofs`, `RenderJobs_proofs`, `Household_proofs`, `OfflineCapture_proofs`, `FilmDrawing_proofs` | theorems of the module of that name | |
| `Serving_proofs` | theorems of `UnitOfWork`, `ReturnScoring`, `MemoryPromises`, `RateLimits`, `FamilyLexicon` | a section each |
| `Upkeep_proofs` | theorems of `Letters`, `FamilyKeys`, `SchemaUpkeep`, `MediaCustody` | a section each |

### How they compose
- `SparkRequests` takes a transaction for one step; `UnitOfWork` looks inside that step.
  `FutureInbox` sees other use cases as visitors of one unit of work; `UnitOfWork` sees a
  seal as one step. `FamilyLexicon` takes the shared transaction for its own statements.
- `SparkRequests` implements `SparkPromise`, and `OfflineCapture` implements `CapturePromise`,
  by `INSTANCE ... WITH` a refinement mapping.
- `MCServing` puts what one process holds side by side (`UnitOfWork`, `ReturnScoring`,
  `MemoryPromises`, `FamilyLexicon`, `RateLimits`), `MCUpkeep` what is kept for decades
  (`MediaCustody`, `SchemaUpkeep`, `FamilyKeys`, `Letters`, `FamilyArchive`), `MCFilms` the two
  halves of a film. The modules of one of these share no variable, so a behaviour is of one
  part and the others rest; a product of them would show nothing more and could not be
  explored. What they do share in the code is modelled inside one of them.

### Choices of abstraction
- **SparkRequests.** Time is days. Scores only choose among eligible Sparks, so there the
  choice is open; `ReturnScoring` makes it, for one child. `mark_relevant` and `remember` are never
  called by the application.
- **UnitOfWork.** A use case writes two rows; the test and the statement of
  `in_transaction: commit()` are one step. A crash is final: the property is about those
  acknowledged.
- **Household.** A production box. Content stands for its hash. What the transcriber hears is
  a choice. A fault is an exception or a restart at any step of a request. A recording is
  always kept under one idempotency key. Of an export only its end is there, the event it
  writes; what it reads is in `FamilyArchive`.
- **MemoryPromises.** No route calls these use cases yet. The container makes each once and
  its callers would be threads of the server, as for every other use case; so a call that
  reads and then writes does so in two steps. Times of day are days.
- **OfflineCapture.** A capture is its idempotency key, a body the media id in it. A vault
  that cannot encrypt means "Saved." is never said; one whose key was replaced seals rows.
  That an error of `remember` is ignored (`idempotency.py:98`) has the effect of the stop
  between performing and remembering, which is modelled.
- **FutureInbox.** A letter stands for its file. The directory entry of a new family
  directory is taken as durable with the first fsync in it. One process uses the store.
- **MediaCustody, FamilyKeys.** Fernet refuses torn bytes and other keys' bytes; the
  passphrase is right; two keys; `write_bytes` truncates, then writes. A killed server leaves
  its write-ahead log, one that was stopped may; whoever opens the database next takes it
  away, and restoration, which copies the main file only, has it replayed: the rows are then
  any of the snapshot's and the server's, and quick_check may pass or not. The connections
  of render workers, which could keep a log longer, are left out. What a repair writes is
  the file as the row's hash has it, also over a file that is readable.
- **FamilyLexicon.** A word is a number; the scores of general English are given. Rows are
  rewritten in the order of their strength, where the code keeps the dictionary's.
- **FilmMaking.** Lengths are whole twentieths of a second: that the timeline rounds to four
  digits is left out, and so are wording and languages. A caption is nobody's, a machine's or
  a person's words. Two exports at once into one folder are not in it, only one after another.
- **FamilyArchive.** An import stays within a day; the lists of an export are written in one
  step, and an erasure of the family is one step (its own steps are in `Household`).
- **RenderJobs.** The spec's manifest shares the film's fate. No token is shared between
  server and worker. A job is cancelled once, as a bound. A film lies where the retention cycle
  looks (`var/film`), and expires while no worker holds its job; the cascade takes a family's
  rows in one step and leaves its films. The worker's loop is modelled as its script has it,
  though at this commit the script stops at its settings (finding 22).
- **Exceptions by history.** Where the code does lose something, a history variable names
  the race that does it (`robbed`, `raced`, `unwelcome`, `crossed`, `revived`, `contested`,
  `overtaken`, `disturbed`, `halted`, `late`, `cut`, `soiled`, `met`, `overlapped` ...) and the
  property says that nothing *else* can. Such a property is only as good as its history is
  narrow: each is added to in one or two actions, at the moment of the race.

## 3. The runs

| run | properties | bounds | result |
|---|---|---|---|
| `spark_serial` | `KeepsItsPromise` (refinement of SparkPromise), `LivedIffMoment` | 2 Sparks, days 0-3, one request at a time | holds |
| `spark_overlap` | `QuietBeforeReturning`, `AnswersFollowOffers`, `ErasureTakesTheMoment` | 2 Sparks, 2 requests, days 0-2, restarts | holds |
| `spark_stop` | `StopIsPermanent` | the same | **violated**, finding 1 |
| `serving` | `NothingLeftOpen`, `AloneIsAtomic`, `LostOnlyToOthers` | 2 requests, 1 import, 1 seal | holds |
| | `ReadyIsOffered` | 3 Sparks, 6 dates over six years, cap 1, 3 looks | |
| | `PromisesInMemory` | 2 invitations, 2 callers, 2 capsules, 7 days of a 3-day year; 2 senders, 3 messages a day, 3 days | |
| | `WordsAreTheirs` | 2 words, 2 meanings, 4 corrections one by one or 3 overlapping, room for 2 words | |
| | `LimitsAreFair` | limits 1 and 2, a window of 2 s, 3.5 s in half seconds | |
| `household` | `RevokedStaysOut`, `DoorsCloseBehind`, `CorrectionStands`, `NothingOutlivesTheFamily` | 2 families, 3 devices, 1 code, 2 media; 2 requests at once, 4 in all, 1 fault | holds |
| `offline_overlap` | `NothingLost`, `PhoneIsSound`, `OnceUnlessRaced` | a reel, a recording, a refused photograph; 2 drains, 2 server requests, 1 failure | holds |
| `offline_arrives` | `CapturesArrive` (refinement of CapturePromise, with its liveness) | the same, 1 drain, 2 failures | holds |
| `inbox` | `AcknowledgedLetterStays`, `StoreIsSound`, `StartsClean` | 2 families of 1 letter, 2 texts, 2 saves, 1 erasure, 1 other, 2 failing calls, 2 crashes | holds |
| `render` | `QueueIsSound`, `FilmsFollowJobs`, `EndIsFinal` | 2 specs, 2 submissions, 2 workers, limit 1, 3 progress saves, 1 failure, an erasure, expiry | holds |
| `render_settle` | `JobsSettle` | 1 job, 2 workers, 2 progress saves, 2 failures, a cancel, an erasure | holds |
| `films` | `NothingUnfounded`, `VoicesAreHeard`, `FolderIsSound` | 1 Moment with its why and picture, 1 little thing, 1 change, 1 harmed file | holds |
| | `FilmShowsItsOwn` | 2 workers, 2 editions of 2 scenes, 3 films | |
| `upkeep` | `BytesBehindRows`, `RestoredIsWhole` | 2 media and 1 upload, or 1 medium, 2 uploads and an erasure, with a rotation or a backup; 1 mishap | holds |
| | `SchemaIsWhole` | 2 processes, the first 3 of 6 versions, 2 kills, 1 rollback | |
| | `ReceiptsStayProvable` | 3 keys, 2 bundles, a letter's ledger and a film | |
| | `LettersOpenAsPromised` | a child born on 29 February, 3 days around two birthdays | |
| | `ExportHoldsTogether` | 2 stories, one export of any kind beside 2 changes, or two into one folder | |

Types: `ServingTypeOK`, `HouseTypeOK`, `UpkeepTypeOK` are invariants of their runs; in `PhoneIsSound`,
`StoreIsSound`, `QueueIsSound` and `FolderIsSound` the types are a conjunct beside the safety one. The
type invariant of `SparkRequests` is proved (section 5) and not run.

Four more configurations state what a document says and the code does not do; TLC finds
each violated: `UnitOfWorkHalf.cfg` (`tlc -config UnitOfWorkHalf.cfg UnitOfWork`),
`OfflineRevoked.cfg` (MCOfflineCapture), `FutureInboxHalf.cfg` (MCFutureInbox), `FilmsStale.cfg`
(MCFilms). The races they show are what the exceptions in the passing runs name.

**Why the bounds are enough.** The hazards are pairwise: a stale write needs two requests on
one row, a split transaction two requests inside, a resurrected row two drains, a shared
claim two workers, a mixed folder two exports. Two of each actor are the least number with
which everything interesting happens; a third is there for another *kind* of actor. Two
Sparks let one request write several rows and a cap of one bite; three let the cap choose.
One failure anywhere is every single failure; two are given where a failure during the
recovery from the first matters. Limits are so small that they are met. The dates of
`ReturnScoring` fall into two windows of ages, both weekdays and weekends, three seasons, and past
the horizon. `Rounds = 3` is the code's own number of progress saves.

Symmetry is used in safety runs only, over interchangeable model values. `CHECK_DEADLOCK
FALSE` is given where a finite set of calls can be used up: the end of the run and not of
the program. The runs of OfflineCapture check deadlock.

**Fairness.**
- *OfflineCapture*: drains are started again (launch, network, foreground), code that runs
  goes on, the server's threads go on, backoffs end. Nothing is assumed of failures but
  that a run has at most `MaxFaults`. Overlapping drains can starve a capture, so liveness is
  checked with one drain at a time.
- *RenderJobs*: weak fairness of the loop of each worker that is up, and nothing else. Drawing
  ends because node, ffmpeg and the sandbox run with timeouts. No file of the repository
  starts a worker or starts it again (`deploy/`, `docker/`, the Makefile, the workflows and
  the runbook have nothing for `render_worker.py`), so no fairness is given to its start.
  `JobsSettle` therefore says two things: while one worker stays up, no job waits for ever
  and none keeps it for ever; and *if* every worker that dies comes back, every job ends.
  The second is what recovery at start is for, and only a hypothesis of whoever runs it:
  otherwise a job whose worker died stays RUNNING.

**Mutants.** Beside definitions a property rests on stands a slip of it (`...Forgetful`,
`...Unseen`, `...Anyway`): the definition as a plausible bug would have it. PROJECT.json pairs each
property of a passing run with the slip that breaks it.

## 4. Findings

All are in PROJECT.json with the lines they quote. By what they cost a family:

*Something said or kept is lost or undone.* (1) A stop is undone: use cases save the whole
Spark they read (`StopIsPermanent`). (2) Half a request is committed, or taken back by
another's rollback (`LostOnlyToOthers`, `UnitOfWorkHalf.cfg`). (3) A capture is dropped on a 401
(`OfflineRevoked.cfg`). (4) A committed letter loses its bytes when a failing save of the same id
unlinks after another published (`FutureInboxHalf.cfg`). (5) A put that was killed leaves a torn file
which its retry takes for the upload. (6) Two overlapping corrections: one is answered with
an error, though a failed lesson is meant to be swallowed. (7) Two calls that accept one
invitation add two members. (25) A restoration over a server that was killed copies the main
file only: the `-wal` that lies beside it is replayed, and the report of an archive that is
the dead server's, or a mixture, says it was verified; the runbook's `cp` does the same. (26) A
silence asked for while a message is on its way is written over by it.

*Something that should have ended goes on.* (8) A revocation is undone by an authentication
that read the row before. (9) An erasure that is stopped leaves the trail of a family nobody
can ask about again; what overlaps it, an
upload, a child or the event of an export, is left behind. (10) Founding in two transactions can
leave a box shut with no device. (23) An erasure leaves the films of its family on disk, and a
worker that is at one draws it to its end: a missing row is not a cancelled one.

*A claim is not kept.* (11) `retirable` after a rotation does not know of the running
server's old ring. (12) A backup made beside an erasure verifies and restores rows without
files. (13) The frame cache is keyed by name and shows an old picture; two workers share
frames and clips. (14) Captions are centred where the voice is not. (15) Hiding does not
keep a Moment out of films. (16) Archive exports are read table by table and leave out
right-now snapshots. (17) `RenderBudget` is never checked. (18) A second message in a day after
a preference is set, or by two calls at once. (19) The grandparent's question raises for a child
born on 29 February.
(20) A word used both ways speaks once the bound drops a meaning; one Spark corrected twice
makes a habit; search does not share the lexicon's normaliser. (21) The Return Engine is
given no birthdays, interests or events; the "Ask Papa" answer becomes no Spark. (24) A film
that expired keeps its COMPLETED row, so asking again is answered with a job without a film.

*Scripts that cannot run.* (22) `fixity_cron.py`, `retention_cron.py` and `render_worker.py` call settings
loaders that do not exist or lack an argument; `--sandbox` returns what the worker cannot read.

What the passing runs show beside these: within their bounds, rows, captures, letters,
media, receipts and films are lost or mixed in no other way than the exceptions name.

## 5. Proofs

Checked by TLAPS for every value of the constants that satisfies the named assumptions: any
number of requests, phones, workers, letters, media, days. Every invariant below was first
checked by TLC on the instance of its run. The properties are those of section 3, with
their exceptions; a theorem says no more than the property it names.

The pattern is the same everywhere. A property of the tables is not inductive, since it says
nothing of what a request has read and is *about* to write. So the invariant is the property,
the types, and what every actor knows at each of its steps: a part for "where it is, what it
holds" and a part for "why that is still true", which fails only where a history says who
raced whom. One lemma per action shows that the action keeps the invariant, with a step for
each part that it can disturb.

**`SparkRequests_proofs`** (`LimitsAssumption`, `ConstantsAssumption`).
- Overlapping: `OverlapInv` is the types, `RowsWhole` (every stored row is one the domain could
  have built) and `WritesWhole` (so is every row about to be written). It stays true because a
  row is whole by itself, whichever row it replaces. Gives `TypeCorrect`, `QuietPeriodHolds`,
  `AnswersAlwaysFollowOffers`; `ErasureIsWhole` follows from `Save` being the only step that
  removes a row.
- One at a time (`Serialised`): `SerialInv` adds that what is about to be written is what its
  handler would compute *now*, and that Moments and lived Sparks agree. Gives
  `MomentsFollowLives`, and `PromiseKept`: the handlers implement `SparkPromise`, a step for each
  kind of save.

**`Serving_proofs`**
- *UnitOfWork* (`RequestsAssumption`). `BoundaryInv`: `depth` is the number of requests counted in, an
  open transaction has a holder who will end it. `AckInv`: each row a request has written is in
  the store unless another robbed it; a step of another touches r only by robbing it
  (`Elsewhere`). `AloneInv`: for a request that met nobody the transaction is its own. Gives
  `BoundaryMends`, `AcknowledgedIsKept`, `AtomicWhenAlone`.
- *ReturnScoring* (`ScoringAssumption`). `ScoreIsAShare`: each signal is bounded by its weight and
  the weights add up. `GrownIntoClears`: a Spark whose window the child is in clears any threshold
  up to 0.475 (the default is 0.45) in any season, however often it was offered. `ReadyComesBack`:
  it is then cut off only by the cap, by others that score at least as high.
- *MemoryPromises* (`MemoryAssumption`, `TokensAssumption`: a token is no one's name). `PromisesAreKept`. Unless two
  accepted it at once, one call is inside an invitation, nobody came by it before that call
  saves, and whoever did left it forgotten or about to be. What was told is settled, about to be,
  or lost with the process. A call over whose reading nobody wrote knows the preference as it
  is (`KnowsPreference`), so a message sent today is remembered unless forgiven or crossed.
- *RateLimits* (`LimitAssumption`). `LimitsHold`, for any rules and moments: the bucket is the end of what
  was let in and all before it is past; so requests a rule's worth apart are a window apart.
  Who waited as told lacks at most the last half second. `Within` takes the end of a bucket; that
  this is what the code's filter keeps is checked by TLC (`WindowIsAFilter`).
- *FamilyLexicon* (`LexiconAssumption`). `WordsHold`: what the table says of a key, with what overrides under way will
  still add, is never more than the taps that were made; and unless overrides overlapped one
  alone is under way, and the table, what a rollback would bring back and the rows still to
  insert tell together exactly what was answered. The bound needs an order of strength
  that is total. The model breaks ties by the field as well; the code's sort key leaves the
  field out, although `lexicon.py:353` calls the result independent of the order.

**`FutureInbox_proofs`** (`InboxAssumption`). The lock has one holder; what its transaction sees is the
ledger and its own writes; a published file is there until the commit unless a rival took it;
ledger and disk, committed or not, tell the same of a letter both have. Gives `LettersStay`,
`NothingIsLeft`, `ServesOnlyClean`.

**`RenderJobs_proofs`** (`RenderAssumption`). Which job a worker holds, in which status, between which two
statements; who looked and found no live job is right until its row is in, unless raced; a
film is whole from when it was drawn and stays so under its job. Gives `OneFilmOneJob`,
`FilmsStayWithTheirJobs`, `ToldIsFinal`. (An exception the property had turned out in the proof to be redundant, and is gone.)

**`Household_proofs`** (`HouseholdAssumption`). Ids are given out once, so whatever two requests know of one device,
code or recording names one family; a late request and an erasure of its family are together
only where the family is disturbed; an authentication that read before a revocation is in
`overtaken` from then on; an unshaken keep is the only one of its recording; a code is open
only until somebody goes through. Failures: those in a window *and* the claims still under way
that may yet fail are counted together, which is why the bound can exceed the limit by the
requests that were inside. Gives `HouseTypes`, `RevokedPhonesStayOut`, `DoorsClose`,
`ParentsWordsStand`, `NothingIsLeftBehind`.

**`OfflineCapture_proofs`** (`CapturesAssumption`, `AbsentAssumption`, `RequestAssumption`). Safe: in the queue, in the archive, turned
away, or one the archive does not take. A row leaves the queue only on the answer to a request
this drain alone waits for, so what a drain holds past that point is safe; a file's row
leaves the spool only in the hands of a drain whose follow-on is safe; an id in any table,
list or hand was given out by the archive. An unraced capture has one request at work, and is
kept only where the ledger or that request knows. Gives `NoCaptureIsLost`, `NotesFollowTheirBytes`,
`KeptAtMostOnce`.

**`FilmDrawing_proofs`.** Who never drew beside another owns the workspace: batch, documents, pages,
paint and clips are of its edition; a cache holds under a key what the key says, or the key is
soiled. Gives `DrawnAloneIsItsOwn`, which says nothing of the looks of clips from the scene cache
(finding 13).

**`Upkeep_proofs`**
- *Letters* (`LetterAssumption`). `LettersOpenAsSealed`: an opened letter is opened by its terms,
  with 29 February and letters to one person as the code has them.
- *FamilyKeys* (`KeyAssumption`). `ReceiptsProvable`: a key is never only in the key file but for the first,
  since the bundle is written before the file.
- *SchemaUpkeep* (`SchemaAssumption`). `VersionPromisesNoMore`: whoever migrates forwards has only whole versions
  behind it, and a rollback is alone.
- *MediaCustody* (`CustodyAssumption`). `RowsHaveTheirBytes` and `RestorationIsWhole`: a file that is not whole has its reason
  on record; a row without a file was parted from it; a walk that left nothing behind left no
  file under the old key but those on record; while files come back, only the snapshot's rows
  may lack theirs, unless a log was replayed.

*Form.* An updated function is written with one path per `EXCEPT` (`[f EXCEPT ![x] = [@ EXCEPT
!.a = ..., !.b = ...]]`): several paths through one argument, as in `![x].a = ..., ![x].b = ...`, are
encoded by tlapm 1.4.5 so that more can be proved than is true. The obligations sent to the solver
were searched for that encoding; none has it.

**Only model-checked.** Liveness (`CapturesArrive`, `JobsSettle`). The films from archive to folder
(`NothingUnfounded`, `VoicesAreHeard`, `FolderIsSound`) and `ExportHoldsTogether`: their operators are folds
and flattenings of sequences of any length, and what these compute would need induction with an
operator as a parameter of the library's theorems, which the installed provers cannot instantiate.
(The least element of a set of numbers is all the induction the proofs above use.) The types of the composed runs (`ServingTypeOK`, `UpkeepTypeOK`): the proofs use as much
of the types as they need. `KeepsItsPromise` is proved for requests that do not overlap, which is also where
it is true.

## 6. Not modelled, and why

- *Device vault*: only what a replaced key does to the queue. Two first uses that generate
  two keys would be a module of two steps.
- *Resumable uploader*: nothing in the app calls it at this commit.
- *Retention of spools, pairing codes and soft-deleted Sparks*: its script cannot start, and
  no code sets the marks the last one waits for. (The expiry of films is in `RenderJobs`.)
- *Entitlements, analytics, support, e-mail ingest*: assignments to dictionaries or pure
  parsing; no route or use case reads them. (Giving a gift is in `MemoryPromises`.)
- *Search, constellations, print, preserved pages, interviews, sound beds*: reading and
  layout, without state of their own.
- *filmkit's mixing, captions, languages; the render sandbox*: calls to ffmpeg and docker.
- *Bedtime films, credits, the wording of scenes; `delete_for_family` of render jobs*: the same
  control as what is modelled, over other data; the last is called by nothing.
- *Spoken dates, tags, categories*: string scoring that restricts no transition.
- *Observability, configuration, screens, widgets, generated contract*: pure I/O.
- The limiter's clock set back, and several server processes on one database: the
  deployment runs one.

## 7. Plan

Done: the server (Sparks, transaction, access, voice, erasure, words, memory, limits), the
phone, what lasts (letters, custody, keys, schema, archives), the films from archive to frame
and their jobs; and the invariants of all of them but the films' making and the archives.

What would come next:
1. The device vault's two keys, as a module of its own beside `OfflineCapture`.
2. `FamilyArchive` beside the steps of `UnitOfWork`: what an export reads of an open transaction.
3. `FilmMaking` with two exports at once into one folder, and with the timeline's rounding.
4. `ExportHoldsTogether` as a theorem: the order of the reads as a strengthening, table by table.
5. Several server processes on one database, should the deployment come to run them.
