---------------------------- MODULE ReturnScoring ----------------------------
(***************************************************************************)
(* What the Return Engine brings back of all that may come back: scores,   *)
(* threshold, order and cap (domain/return_engine.py), driven by the       *)
(* screen that asks and the answers given (application/returning.py).      *)
(*                                                                         *)
(* The engine adds ten weighted signals between 0 and 1.  Here a signal is *)
(* what it adds, in parts of Full = 1.0, small enough for every weight to  *)
(* be whole.  A day is its number since the child was born: a year has     *)
(* 365 of them, and day 5 was a Saturday.  One child; what the words of a  *)
(* Spark say of a season is part of its traits.                            *)
(***************************************************************************)
EXTENDS Integers, FiniteSets

CONSTANTS
  Sparks,           \* their ids: numbers, whose order settles ties
  Traits,           \* of each: [window, actionable, season]
  Dates,            \* the days the screen is opened, or answers are given
  MaxSuggestions,   \* ANUVRITTI_MAX_SUGGESTIONS_PER_DAY, default 3
  Threshold,        \* ANUVRITTI_SUGGESTION_THRESHOLD, default 0.45
  Horizon,          \* ANUVRITTI_MATURATION_HORIZON_DAYS, default 180
  MinDaysBeforeReturn, SnoozeCooldown,   \* as in SparkRules
  MaxLooks          \* bound: how often the screen asks

Rules == INSTANCE SparkRules

Full == 18000
Seasons == {"winter", "spring", "summer", "autumn"}
NoWindow == << >>
\* AgeRange: years, the first not after the last; a Spark may have none.
Windows == {w \in Nat \X Nat : w[1] <= w[2]}

ASSUME ScoringAssumption ==
  /\ Sparks \subseteq Nat /\ IsFiniteSet(Sparks) /\ Dates \subseteq Nat
  /\ \A s \in Sparks : /\ Traits[s].window = NoWindow \/ Traits[s].window \in Windows
                       /\ Traits[s].actionable \in BOOLEAN
                       /\ Traits[s].season \in Seasons \cup {"none"}
  /\ MaxSuggestions \in Nat \ {0} /\ Threshold \in 0 .. Full /\ Horizon \in Nat \ {0}
  /\ MinDaysBeforeReturn \in Nat /\ SnoozeCooldown \in Nat \ {0} /\ MaxLooks \in Nat

VARIABLES
  day,
  spark,    \* the row of each Spark (SparkRules)
  times,    \* suggested_count
  offered,  \* what the screen shows since it last asked
  looks     \* how often it asked

scoringVars == <<day, spark, times, offered, looks>>

---------------------------------------------------------------------------
(* The signals, each with its weight                                       *)

AtLeast(n, floor) == IF n < floor THEN floor ELSE n

AgeOn(d) == d \div 365
IsWeekend(d) == d % 7 \in {5, 6}
\* _current_season, for a child born on the first of March.
SeasonOn(d) == LET n == d % 365 IN
  IF n < 92 THEN "spring" ELSE IF n < 184 THEN "summer" ELSE IF n < 275 THEN "autumn" ELSE "winter"

InWindow(window, age) == window # NoWindow /\ window[1] <= age /\ age <= window[2]
\* A slip: the last year of the window taken for late.
AgeFitUpToLast(window, age) ==
  IF window = NoWindow THEN 2250
  ELSE IF window[1] <= age /\ age < window[2] THEN 4500
  ELSE IF age < window[1] THEN AtLeast(4500 - 1575 * (window[1] - age), 0)
  ELSE AtLeast(2700 - 450 * (age - window[2]), 450)
\* 0.25: grown into it, 0.35 less for each year early, from 0.6 down when late.
AgeFit(window, age) ==
  IF window = NoWindow THEN 2250
  ELSE IF InWindow(window, age) THEN 4500
  ELSE IF age < window[1] THEN AtLeast(4500 - 1575 * (window[1] - age), 0)
  ELSE AtLeast(2700 - 450 * (age - window[2]), 450)
\* 0.15: how much of the horizon has passed.
Maturation(waited) == IF waited >= Horizon THEN 2700 ELSE (2700 * AtLeast(waited, 0)) \div Horizon
\* 0.10: what can be done at once waits for a weekend.
OccasionFit(actionable, d) == IF ~ actionable THEN 900 ELSE IF IsWeekend(d) THEN 1800 ELSE 720
\* 0.15: the season its words name, another one, or none.
SeasonFit(season, d) == IF season = SeasonOn(d) THEN 2700 ELSE IF season = "none" THEN 1350 ELSE 540
\* 0.10, 0.10 and 0.05: the screen passes no birthdays, interests or events.
NotAsked == 900 + 900 + 450
\* 0.05, 0.03 and 0.02.
Actionability(actionable) == IF actionable THEN 900 ELSE 360
WhyPresent(said) == IF "why" \in said THEN 540 ELSE 0
Novelty(count) == 360 \div (1 + count)

ScoreOf(trait, row, count, d) ==
  AgeFit(trait.window, AgeOn(d)) + Maturation(d - row.captured) + OccasionFit(trait.actionable, d)
    + SeasonFit(trait.season, d) + NotAsked + Actionability(trait.actionable)
    + WhyPresent(row.said) + Novelty(count)

---------------------------------------------------------------------------
(* Selection                                                               *)

Score(s) == ScoreOf(Traits[s], spark[s], times[s], day)
Clears(s) == Score(s) >= Threshold
Candidates == {s \in Sparks : Rules!IsEligible(spark[s], day) /\ Clears(s)}
\* Descending by score, then by id.
Before(t, s) == Score(t) > Score(s) \/ (Score(t) = Score(s) /\ t < s)
Selected == {s \in Candidates : Cardinality({t \in Candidates : Before(t, s)}) < MaxSuggestions}

Look ==
  /\ looks < MaxLooks /\ looks' = looks + 1
  /\ offered' = Selected
  /\ spark' = [s \in Sparks |-> IF s \in Selected THEN Rules!Suggested(spark[s], day) ELSE spark[s]]
  /\ times' = [s \in Sparks |-> IF s \in Selected THEN times[s] + 1 ELSE times[s]]
  /\ UNCHANGED day

AnswerOffer(s, row) == /\ spark' = [spark EXCEPT ![s] = row] /\ offered' = offered \ {s}
                       /\ UNCHANGED <<day, times, looks>>
MaybeLater(s) == s \in offered /\ Rules!CanSnooze(spark[s]) /\ AnswerOffer(s, Rules!Snoozed(spark[s], day))
LetsDoIt(s) == s \in offered /\ Rules!CanPlan(spark[s]) /\ AnswerOffer(s, Rules!Planned(spark[s]))
NotRelevantAnymore(s) == s \in offered /\ Rules!CanArchive(spark[s]) /\ AnswerOffer(s, Rules!Archived(spark[s]))

TimePasses(d) == d \in Dates /\ d > day /\ day' = d /\ UNCHANGED <<spark, times, offered, looks>>

ScoringInit ==
  /\ day \in Dates
  /\ \E why \in SUBSET Sparks :
       spark = [s \in Sparks |-> Rules!NewRow(day, "WAITING", IF s \in why THEN {"why"} ELSE {})]
  /\ times = [s \in Sparks |-> 0] /\ offered = {} /\ looks = 0

ScoringNext ==
  \/ Look
  \/ \E s \in Sparks : MaybeLater(s) \/ LetsDoIt(s) \/ NotRelevantAnymore(s)
  \/ \E d \in Dates : TimePasses(d)

ScoringSpec == ScoringInit /\ [][ScoringNext]_scoringVars

ScoringTypeOK ==
  /\ day \in Dates /\ spark \in [Sparks -> Rules!Row] /\ times \in [Sparks -> Nat] /\ offered \subseteq Sparks
  /\ looks \in 0 .. MaxLooks

---------------------------------------------------------------------------
(* What the engine promises                                                *)

\* A Spark that may come back and that the child is in the years for.
Ready(s) == Rules!IsEligible(spark[s], day) /\ InWindow(Traits[s].window, AgeOn(day))
\* The others that may come back and score no less.
NoWorse(s) == {t \in Sparks \ {s} : Rules!IsEligible(spark[t], day) /\ Score(t) >= Score(s)}

\* ReadyIsOffered: when the screen asks, a Spark the child has grown into is among the
\* answers - in any season, on any day of the week, however often it was offered before -
\* unless as many others as fit score at least as high (ReturnEngine.score, select).
LookBringsReady == looks' # looks => \A s \in Sparks : Ready(s) =>
                     s \in offered' \/ Cardinality(NoWorse(s)) >= MaxSuggestions
ReadyIsOffered == [][LookBringsReady]_scoringVars
=============================================================================
