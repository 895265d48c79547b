----------------------------- MODULE SparkRules -----------------------------
(***************************************************************************)
(* The rules one Spark obeys (domain/spark.py, domain/values.py) and the   *)
(* hard limits of the Return Engine (domain/return_engine.py), as          *)
(* operators over a stored row.  No variables: SparkRequests drives them.  *)
(*                                                                         *)
(* A row keeps what the lifecycle tells apart.  Time is counted in days,   *)
(* the unit of both limits.  Title, tags, scores and attributions are      *)
(* abstracted to the set `said` of things a person has stated about the    *)
(* Spark: a corrected field, a why, a wish that it be hidden.              *)
(***************************************************************************)
EXTENDS Integers

CONSTANTS
  MinDaysBeforeReturn,  \* ANUVRITTI_MIN_DAYS_BEFORE_RETURN, default 7
  SnoozeCooldown        \* ANUVRITTI_SNOOZE_COOLDOWN_DAYS, default 30

\* settings.py reads the first with minimum 0 and the second with minimum 1.
ASSUME LimitsAssumption ==
  /\ MinDaysBeforeReturn \in Nat
  /\ SnoozeCooldown \in Nat \ {0}

NoDay == -1  \* a NULL date column

Days == Nat \cup {NoDay}

Status == { "CAPTURED", "WAITING", "RELEVANT", "SUGGESTED", "PLANNED",
            "EXPERIENCED", "REMEMBERED", "ARCHIVED" }

Statements == {"override", "why", "hidden"}

Row == [ status       : Status,
         captured     : Nat,                 \* created_at
         suggestedOn  : Days,                \* last_suggested_at
         snoozedUntil : Days,
         said         : SUBSET Statements ]

Returnable == {"WAITING", "RELEVANT", "SUGGESTED"}
Lived      == {"EXPERIENCED", "REMEMBERED"}

---------------------------------------------------------------------------
(* Creation.                                                               *)

NewRow(day, status, said) ==
  [ status |-> status, captured |-> day, suggestedOn |-> NoDay,
    snoozedUntil |-> NoDay, said |-> said ]

\* Spark.capture, then apply_inference moves CAPTURED on to WAITING.
Captured(day) == NewRow(day, "WAITING", {})

\* A question put off (TASK-811): override_intent, and no inference after it.
AskedForLater(day) == NewRow(day, "CAPTURED", {"override"})

---------------------------------------------------------------------------
(* The Return Engine's hard rules, applied before any scoring.             *)

IsSnoozedAt(row, day) == row.snoozedUntil # NoDay /\ day < row.snoozedUntil

\* Slips a run must notice: the quiet period, or the cooldown, forgotten.
IsEligibleWhenFresh(row, day) ==
  row.status \in Returnable /\ ~ IsSnoozedAt(row, day)
IsEligibleWhenSnoozed(row, day) ==
  row.status \in Returnable /\ day - row.captured >= MinDaysBeforeReturn

IsEligible(row, day) ==
  /\ row.status \in Returnable
  /\ day - row.captured >= MinDaysBeforeReturn
  /\ ~ IsSnoozedAt(row, day)

---------------------------------------------------------------------------
(* Transitions.  Can... is the guard whose failure is an Err, with nothing *)
(* changed; the operator after it is the row the transition returns.       *)

\* A slip: the new offer keeps the old snooze.
SuggestedStillSnoozed(row, day) ==
  [row EXCEPT !.status = "SUGGESTED", !.suggestedOn = day]

CanSuggest(row) == row.status \in Returnable
Suggested(row, day) ==
  [row EXCEPT !.status = "SUGGESTED", !.suggestedOn = day, !.snoozedUntil = NoDay]

\* The other refusal, until <= updated_at, cannot happen: updated_at is never
\* ahead of the clock and the cooldown is at least one day.
CanSnooze(row) == row.status = "SUGGESTED"
Snoozed(row, day) ==
  [row EXCEPT !.status = "WAITING", !.snoozedUntil = day + SnoozeCooldown]

CanPlan(row) == row.status = "SUGGESTED"
Planned(row) == [row EXCEPT !.status = "PLANNED"]

\* A slip: a Spark already lived may be dismissed.
CanArchiveAnything(row) == row.status # "ARCHIVED"

CanArchive(row) == row.status \notin Lived \cup {"ARCHIVED"}
Archived(row) == [row EXCEPT !.status = "ARCHIVED"]

CanExperience(row) == row.status \in Returnable \cup {"PLANNED", "CAPTURED"}
Experienced(row) == [row EXCEPT !.status = "EXPERIENCED"]

\* record_why, override_intent / _category / _age_range, change_visibility:
\* none of them looks at the status.
Stated(row, statement) == [row EXCEPT !.said = @ \cup {statement}]

=============================================================================
