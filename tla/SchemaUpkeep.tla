---------------------------- MODULE SchemaUpkeep ----------------------------
(***************************************************************************)
(* The schema of the archive and its version                               *)
(* (adapters/persistence/schema.py and migrations.py).  A connection is in *)
(* autocommit, so executescript commits each statement by itself, and      *)
(* PRAGMA user_version is one more statement after the last: whoever is    *)
(* killed leaves a half-run script.  The server migrates when it boots,    *)
(* render_worker.py and teaser.py when they start, and an operator may go  *)
(* back; nothing keeps them apart.                                         *)
(*                                                                         *)
(* Every script only creates tables (and their indexes) that are not there *)
(* and every rollback only drops those that are, so a script is its tables *)
(* in their order; an index goes with its table.                           *)
(***************************************************************************)
EXTENDS Integers, Sequences, SequencesExt

CONSTANTS Runners,    \* processes that migrate: servers, workers, operators
          Latest,     \* SCHEMA_VERSION
          MaxKills,   \* processes killed while they migrate
          MaxBacks    \* rollbacks begun

ASSUME SchemaAssumption == Latest \in 1 .. 6 /\ MaxKills \in Nat /\ MaxBacks \in Nat

\* _MIGRATIONS
Script == <<
  <<"family", "member", "child_profile", "spark", "moment", "little_thing", "right_now",
    "media", "domain_event">>,
  <<"device", "pairing_request", "pairing_attempt", "idempotency">>,
  <<"voice_note">>, <<"lexicon_term">>, <<"future_inbox">>, <<"render_job">> >>

\* _ROLLBACKS: what a later statement refers to is dropped first.
Rollback == <<
  <<"domain_event", "media", "right_now", "little_thing", "moment", "spark", "child_profile",
    "member", "family">>,
  <<"idempotency", "pairing_attempt", "pairing_request", "device">>,
  <<"voice_note">>, <<"lexicon_term">>, <<"future_inbox">>, <<"render_job">> >>

Tables(v) == UNION {ToSet(Script[u]) : u \in 1 .. v}

VARIABLES
  version,   \* PRAGMA user_version of the live file
  tables,    \* its tables
  runner,    \* each process: where it is, from and to which version, at which one, with
             \* what left of its script
  kills, backs,
  undone,    \* history: versions whose rollback was killed inside its script
  beside     \* history: a rollback and another migration were under way at once

schemaVars == <<version, tables, runner, kills, backs, undone, beside>>

Off == [at |-> "off", from |-> 0, to |-> 0, step |-> 0, left |-> << >>]
Migrating(p) == runner[p].at = "script"
Backward(p) == runner[p].to < runner[p].from

\* Mutant: only the target's script is run.
OnwardAtOnce(r) ==
  CASE r.step < r.to -> [r EXCEPT !.at = "script", !.step = r.to, !.left = Script[r.to]]
    [] r.step > r.to -> [r EXCEPT !.at = "script", !.left = Rollback[r.step]]
    [] OTHER         -> Off

\* Mutant: one version past the target.
OnwardPastTarget(r) ==
  CASE r.step <= r.to -> [r EXCEPT !.at = "script", !.step = @ + 1, !.left = Script[r.step + 1]]
    [] OTHER          -> Off

\* The versions between the one that was read and the target, one by one.
Onward(r) ==
  CASE r.step < r.to -> [r EXCEPT !.at = "script", !.step = @ + 1, !.left = Script[r.step + 1]]
    [] r.step > r.to -> [r EXCEPT !.at = "script", !.left = Rollback[r.step]]
    [] OTHER         -> Off

\* What is to be done is decided once, from the version read here.  The rehearsal before
\* it is on a copy and leaves the live file alone; schema.migrate has none.
Begins(p, target) ==
  /\ runner[p] = Off /\ version # target
  /\ target < version => backs < MaxBacks /\ target < Latest
  /\ target > version => target = Latest
  /\ backs' = IF target < version THEN backs + 1 ELSE backs
  /\ runner' = [runner EXCEPT ![p] =
                  Onward([Off EXCEPT !.from = version, !.step = version, !.to = target])]
  /\ beside' = (beside \/ \E q \in Runners : Migrating(q) /\ (target < version \/ Backward(q)))
  /\ UNCHANGED <<version, tables, kills, undone>>

\* One statement of executescript.
Executes(p) ==
  /\ Migrating(p) /\ runner[p].left # << >>
  /\ tables' = IF Backward(p) THEN tables \ {Head(runner[p].left)} ELSE tables \cup {Head(runner[p].left)}
  /\ runner' = [runner EXCEPT ![p].left = Tail(@)]
  /\ UNCHANGED <<version, kills, backs, undone, beside>>

\* The script is through: PRAGMA user_version, and on to the next version.
Stamps(p) ==
  /\ Migrating(p) /\ runner[p].left = << >>
  /\ version' = IF Backward(p) THEN runner[p].step - 1 ELSE runner[p].step
  /\ runner' = [runner EXCEPT ![p] = Onward([@ EXCEPT !.step = version'])]
  /\ undone' = undone \ {runner[p].step}
  /\ UNCHANGED <<tables, kills, backs, beside>>

Interrupted(p) ==
  /\ Migrating(p) /\ kills < MaxKills /\ kills' = kills + 1
  /\ undone' = IF Backward(p) THEN undone \cup {runner[p].step} ELSE undone
  /\ runner' = [runner EXCEPT ![p] = Off]
  /\ UNCHANGED <<version, tables, backs, beside>>

SchemaInit ==
  /\ version \in 0 .. Latest /\ tables = Tables(version)
  /\ runner = [p \in Runners |-> Off]
  /\ kills = 0 /\ backs = 0 /\ undone = {} /\ beside = FALSE

SchemaNext == \E p \in Runners :
  \/ \E target \in 0 .. Latest : Begins(p, target)
  \/ Executes(p) \/ Stamps(p) \/ Interrupted(p)

SchemaSpec == SchemaInit /\ [][SchemaNext]_schemaVars

---------------------------------------------------------------------------
(* Properties                                                              *)

SchemaTypeOK ==
  /\ version \in 0 .. Latest /\ tables \subseteq Tables(Latest)
  /\ \A p \in Runners : runner[p].at \in {"off", "script"} /\ {runner[p].from, runner[p].to, runner[p].step} \subseteq 0 .. Latest
  /\ undone \subseteq 1 .. Latest /\ kills \in 0 .. MaxKills /\ backs \in 0 .. MaxBacks

\* The version never promises a table that is not there, whoever was killed and however
\* many processes migrate forwards at once, so the next boot can build on it.  Except the
\* version a rollback is taking back, or was killed in, or a rollback beside another migration.
SchemaIsWhole ==
  beside \/ \A v \in 1 .. version :
              \/ v \in undone \/ \E p \in Runners : Migrating(p) /\ Backward(p) /\ runner[p].step = v
              \/ ToSet(Script[v]) \subseteq tables
=============================================================================
