--------------------------- MODULE SparkRequests ----------------------------
(***************************************************************************)
(* The requests that read and write Sparks and Moments (application/       *)
(* capture.py, returning.py, moments.py, returns.py, presence.py,          *)
(* privacy.py, import_.py), as they run on the threadpool.                 *)
(*                                                                         *)
(* Every handler has the same shape: read what it needs outside any        *)
(* transaction, compute new rows from what it read, then write whole rows  *)
(* in one `with self._uow` block.  So a request is two steps: the action   *)
(* named for the handler reads and decides, Save or Conflict writes.       *)
(* Between the two, other requests and midnight may come.  Here the write  *)
(* is one step; module UnitOfWork looks inside it.                         *)
(***************************************************************************)
EXTENDS SparkRules, FiniteSets

CONSTANTS
  Sparks,          \* spark ids; ids.new_id() never returns one twice
  Workers,         \* requests in progress at once
  NoRow,           \* the row of an id that has none
  MaxSuggestions,  \* ANUVRITTI_MAX_SUGGESTIONS_PER_DAY, default 3
  Serialised,      \* TRUE: requests, and midnight, do not overlap
  Spoken,          \* bound: the statements people make in a run
  MaxDay           \* bound: the last day of a run

ASSUME ConstantsAssumption ==
  /\ NoRow \notin Row
  /\ MaxSuggestions \in Nat \ {0}
  /\ Serialised \in BOOLEAN
  /\ Spoken \subseteq Statements
  /\ MaxDay \in Nat

VARIABLES
  today,    \* the clock, in days
  rows,     \* table spark
  moments,  \* table moment, by its UNIQUE spark_id
  used,     \* ids handed out
  pending   \* per worker, what its request is about to write

vars == <<today, rows, moments, used, pending>>

Ops == { "idle", "capture", "import", "ask", "bring_back", "respond", "done",
         "answer", "state", "erase" }

\* The new rows of a request, the sparks it makes a moment for, and those it deletes.
Request == [ op     : Ops,
             writes : [Sparks -> Row \cup {NoRow}],
             makes  : SUBSET Sparks,
             erases : SUBSET Sparks ]

Nothing == [s \in Sparks |-> NoRow]
Idle == [op |-> "idle", writes |-> Nothing, makes |-> {}, erases |-> {}]

Write(op, s, row, makes) ==
  [op |-> op, writes |-> [Nothing EXCEPT ![s] = row], makes |-> makes, erases |-> {}]

Present(s) == rows[s] # NoRow

Init ==
  /\ today = 0
  /\ rows = Nothing
  /\ moments = {}
  /\ used = {}
  /\ pending = [w \in Workers |-> Idle]

---------------------------------------------------------------------------
(* The first half of each handler: read, check, decide.                    *)

Free(w) ==
  /\ pending[w] = Idle
  /\ Serialised => \A v \in Workers : pending[v] = Idle

Begin(w, request) ==
  /\ Free(w)
  /\ pending' = [pending EXCEPT ![w] = request]
  /\ UNCHANGED <<today, rows, moments>>

BeginNew(w, op, row, lived) == \E s \in Sparks \ used :
  /\ Begin(w, Write(op, s, row, IF lived THEN {s} ELSE {}))
  /\ used' = used \cup {s}

BeginOn(w, op, s, row, makes) ==
  /\ Begin(w, Write(op, s, row, makes))
  /\ UNCHANGED used

CaptureSpark(w) == BeginNew(w, "capture", Captured(today), FALSE)

AskForLater(w) == BeginNew(w, "ask", AskedForLater(today), FALSE)

\* Old notes wait to be returned; old photographs and chats have been lived.
ImportNotes(w) == \E d \in 0 .. today :
  BeginNew(w, "import", NewRow(d, "WAITING", {}), FALSE)
ImportPhotos(w) == \E d \in 0 .. today :
  BeginNew(w, "import", NewRow(d, "EXPERIENCED", {}), TRUE)

\* Scoring, the threshold, visibility and the child filter only choose which
\* of the eligible Sparks come back, so the choice is left open.
BringBack(w) == \E shown \in SUBSET {s \in Sparks : Present(s)} :
  /\ shown # {}
  /\ \A s \in shown : IsEligible(rows[s], today) /\ CanSuggest(rows[s])
  /\ Cardinality(shown) <= MaxSuggestions
  /\ Begin(w, [op     |-> "bring_back",
               writes |-> [s \in Sparks |-> IF s \in shown THEN Suggested(rows[s], today)
                                                           ELSE NoRow],
               makes  |-> {},
               erases |-> {}])
  /\ UNCHANGED used

MaybeLater(w, s) ==
  Present(s) /\ CanSnooze(rows[s]) /\ BeginOn(w, "respond", s, Snoozed(rows[s], today), {})
LetsDoIt(w, s) ==
  Present(s) /\ CanPlan(rows[s]) /\ BeginOn(w, "respond", s, Planned(rows[s]), {})
NotRelevantAnymore(w, s) ==
  Present(s) /\ CanArchive(rows[s]) /\ BeginOn(w, "respond", s, Archived(rows[s]), {})

MarkAsDone(w, s) ==
  /\ Present(s)
  /\ s \notin moments
  /\ CanExperience(rows[s])
  /\ BeginOn(w, "done", s, Experienced(rows[s]), {s})

\* answer_question never looks for an existing moment: the table's UNIQUE does.
AnswerQuestion(w, s) ==
  /\ Present(s)
  /\ CanExperience(rows[s])
  /\ BeginOn(w, "answer", s, Experienced(rows[s]), {s})

\* RecordWhy, OverrideField and HideChildContent.
StateSomething(w, s) == \E st \in Spoken :
  Present(s) /\ BeginOn(w, "state", s, Stated(rows[s], st), {})

DeleteChildContent(w, s) ==
  /\ Present(s)
  /\ Begin(w, [op |-> "erase", writes |-> Nothing, makes |-> {}, erases |-> {s}])
  /\ UNCHANGED used

---------------------------------------------------------------------------
(* The second half: one transaction.  save is an upsert of every column.   *)

Busy(w) == pending[w].op # "idle"

Saved(request) ==
  [s \in Sparks |-> IF s \in request.erases THEN NoRow
                    ELSE IF request.writes[s] # NoRow THEN request.writes[s]
                    ELSE rows[s]]

\* A slip: the Spark goes and its Moment stays.
SavedMomentsKeepingAll(request) == moments \cup request.makes
SavedMoments(request) == (moments \cup request.makes) \ request.erases

Save(w) ==
  /\ Busy(w)
  /\ pending[w].makes \cap moments = {}
  /\ rows' = Saved(pending[w])
  /\ moments' = SavedMoments(pending[w])
  /\ pending' = [pending EXCEPT ![w] = Idle]
  /\ UNCHANGED <<today, used>>

\* IntegrityError on moment.spark_id: CONFLICT, and the transaction rolls back.
Conflict(w) ==
  /\ Busy(w)
  /\ pending[w].makes \cap moments # {}
  /\ pending' = [pending EXCEPT ![w] = Idle]
  /\ UNCHANGED <<today, rows, moments, used>>

---------------------------------------------------------------------------
(* The world.                                                              *)

NextDay ==
  /\ today < MaxDay
  /\ Serialised => \A w \in Workers : pending[w] = Idle
  /\ today' = today + 1
  /\ UNCHANGED <<rows, moments, used, pending>>

\* The process stops: what was not committed never happened.
Restart ==
  /\ \E w \in Workers : Busy(w)
  /\ pending' = [w \in Workers |-> Idle]
  /\ UNCHANGED <<today, rows, moments, used>>

Next ==
  \/ NextDay
  \/ Restart
  \/ \E w \in Workers :
       \/ CaptureSpark(w) \/ AskForLater(w) \/ ImportNotes(w) \/ ImportPhotos(w)
       \/ BringBack(w)
       \/ Save(w) \/ Conflict(w)
       \/ \E s \in Sparks : \/ MaybeLater(w, s) \/ LetsDoIt(w, s)
                            \/ NotRelevantAnymore(w, s)
                            \/ MarkAsDone(w, s) \/ AnswerQuestion(w, s)
                            \/ StateSomething(w, s) \/ DeleteChildContent(w, s)

Spec == Init /\ [][Next]_vars

---------------------------------------------------------------------------
(* Properties.                                                             *)

\* Every table and every request in progress holds values of its type.
TypeOK ==
  /\ today \in Nat
  /\ rows \in [Sparks -> Row \cup {NoRow}]
  /\ moments \subseteq Sparks
  /\ used \subseteq Sparks
  /\ pending \in [Workers -> Request]

\* A Spark is returned for the first time, and every time after, only once its
\* quiet period is over: GetWorthBringingBack's is_eligible, whatever overlaps.
QuietBeforeReturning == \A s \in Sparks :
  Present(s) /\ rows[s].suggestedOn # NoDay =>
    rows[s].suggestedOn - rows[s].captured >= MinDaysBeforeReturn

\* The columns of a stored row tell one story although three handlers write
\* them: a plan or a snooze follows an offer, a snooze lasts the whole cooldown
\* from that offer, and an open offer is not snoozed.
AnswersFollowOffers == \A s \in Sparks : Present(s) =>
  /\ rows[s].status \in {"SUGGESTED", "PLANNED"} => rows[s].suggestedOn # NoDay
  /\ rows[s].status = "SUGGESTED" => rows[s].snoozedUntil = NoDay
  /\ rows[s].snoozedUntil # NoDay =>
       /\ rows[s].suggestedOn # NoDay
       /\ rows[s].snoozedUntil >= rows[s].suggestedOn + SnoozeCooldown

\* DeleteChildContent: when a Spark is erased its Moment goes in the same step.
ErasureTakesTheMoment ==
  [][\A s \in Sparks : Present(s) /\ rows'[s] = NoRow => s \notin moments']_vars

\* When requests do not overlap, a Spark has been lived exactly when it has a
\* Moment: MarkAsDone, answer_question, import and erasure keep the two tables
\* together, and no answer to a suggestion takes a lived Spark away.
LivedIffMoment == Serialised => \A s \in Sparks :
  s \in moments <=> Present(s) /\ rows[s].status \in Lived

\* The archive implements what SparkPromise promises: a row is a phase, and
\* what is left of its quiet time.
Phase(s) ==
  CASE ~ Present(s) ->
         IF s \in used /\ \A w \in Workers : pending[w].writes[s] = NoRow
         THEN "gone" ELSE "unborn"
    [] Present(s) /\ rows[s].status = "CAPTURED" -> "asked"
    [] Present(s) /\ rows[s].status \in {"WAITING", "RELEVANT"} -> "waiting"
    [] Present(s) /\ rows[s].status = "SUGGESTED" -> "offered"
    [] Present(s) /\ rows[s].status = "PLANNED" -> "planned"
    [] Present(s) /\ rows[s].status = "ARCHIVED" -> "stopped"
    [] OTHER -> "lived"

QuietUntil(s) ==
  LET quiet == rows[s].captured + MinDaysBeforeReturn
  IN  IF ~ Present(s) THEN 0
      ELSE IF rows[s].snoozedUntil > quiet THEN rows[s].snoozedUntil ELSE quiet

Promise == INSTANCE SparkPromise WITH
  day        <- today,
  phase      <- [s \in Sparks |-> Phase(s)],
  quietUntil <- [s \in Sparks |-> QuietUntil(s)],
  said       <- [s \in Sparks |-> IF Present(s) THEN rows[s].said ELSE {}]

KeepsItsPromise == Promise!Spec

\* "Not relevant anymore" is permanent (application/returning.py:7): a Spark
\* that is ARCHIVED stays ARCHIVED for as long as it exists.
StopIsPermanent ==
  [][\A s \in Sparks : Present(s) /\ rows[s].status = "ARCHIVED" =>
       rows'[s] = NoRow \/ rows'[s].status = "ARCHIVED"]_vars

=============================================================================
