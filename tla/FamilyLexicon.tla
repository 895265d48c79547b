---------------------------- MODULE FamilyLexicon ----------------------------
(***************************************************************************)
(* A family's own words (domain/lexicon.py): every correction of a Spark's *)
(* intent or category is counted against the words of that Spark, and what *)
(* was said twice weighs in the next guess (adapters/intent/heuristic.py)  *)
(* and in a search (application/vault.py).                                 *)
(*                                                                         *)
(* The override loads the lexicon, learns and writes it back whole, DELETE *)
(* and INSERTs, inside the unit of work every request shares.  A step here *)
(* is one statement; entering and leaving the unit of work are one step    *)
(* each (UnitOfWork takes them apart).  Words and meanings are numbers in  *)
(* the order of the alphabet.  Weights are counted in halves.              *)
(***************************************************************************)
EXTENDS Integers, FiniteSets, Functions, FiniteSetsExt

CONSTANTS
  Askers,       \* requests of OverrideFieldUseCase
  SparkWords,      \* Sparks a parent may correct: each a set of learnable words
  Meanings,     \* of each field, the values a parent may choose
  English,      \* of each Spark, the score of each intent in general English
  MaxTerms,     \* 512
  MinEvidence,  \* MIN_EVIDENCE_TO_SPEAK: 2
  MaxWeight,    \* 5 halves
  MaxCorrections  \* bound: how often anybody is corrected

WordFields  == {"INTENT", "CATEGORY"}
Intents == Meanings["INTENT"]
Learnable == UNION SparkWords
WordKeys == {k \in WordFields \X Learnable \X UNION {Meanings[f] : f \in WordFields} : k[3] \in Meanings[k[1]]}

ASSUME LexiconAssumption ==
  /\ Meanings \in [WordFields -> SUBSET (Nat \ {0})] /\ Learnable \subseteq Nat
  /\ English \in [SparkWords -> [Intents -> Nat]]
  /\ {MaxTerms, MaxWeight, MaxCorrections} \subseteq Nat /\ MinEvidence \in Nat \ {0}
  /\ IsFiniteSet(Askers) /\ \A words \in SparkWords : IsFiniteSet(words)

VARIABLES
  terms,    \* rows of lexicon_term, as the connection reads them
  before,   \* what a rollback would bring back, while a transaction is open
  working,  \* whether one is
  asking,   \* where each override is
  lesson,   \* what it has still to do: the correction, or the rows to insert
  clock,    \* how many corrections have been made
  tapped,   \* history: of each key, how often a parent said it
  taken,    \* history: of each key, how often that was answered with Ok
  evicted,  \* history: keys the bound dropped
  met,      \* history: two overrides were inside at once
  turnedAway  \* history: a correction failed because of its lesson

wordVars == <<terms, before, working, asking, lesson, clock>>
tallies  == <<tapped, taken, evicted, met, turnedAway>>
lexiconVars == <<wordVars, tallies>>

Evidence == [times : Nat, last : Nat]
NoWords  == <<>>

---------------------------------------------------------------------------
(* The lexicon as a value.                                                 *)

\* A slip: one tap is a habit.
SpeaksAtOnce(evidence) == evidence.times >= 1
Speaks(evidence) == evidence.times >= MinEvidence
Weight(evidence) == Min({MaxWeight, evidence.times})

\* An intent and a category of one name tie even by their words: the rows' order, here the
\* intent's before, decides.
Stronger(entries, j, k) ==
  LET e == entries[j]  f == entries[k] IN
  \/ e.times > f.times
  \/ e.times = f.times /\ e.last > f.last
  \/ /\ e.times = f.times /\ e.last = f.last
     /\ \/ j[2] < k[2]
        \/ j[2] = k[2] /\ j[3] < k[3]
        \/ j[2] = k[2] /\ j[3] = k[3] /\ j[1] = "INTENT" /\ k[1] = "CATEGORY"

\* _within_bounds
WithinBounds(entries) ==
  Restrict(entries, {k \in DOMAIN entries :
                      Cardinality({j \in DOMAIN entries : Stronger(entries, j, k)}) < MaxTerms})

\* Correction.from_override, of a Spark with these learnable words.
Corrections == UNION {[field : {field}, words : SparkWords, to : Meanings[field]] : field \in WordFields}
KeysOf(c) == {<<c.field, term, c.to>> : term \in c.words}
Times(entries, k) == IF k \in DOMAIN entries THEN entries[k].times ELSE 0

\* learn, before the bound.
Tallied(entries, c, now) ==
  [k \in DOMAIN entries \cup KeysOf(c) |->
     IF k \in KeysOf(c) THEN [times |-> Times(entries, k) + 1, last |-> now] ELSE entries[k]]
Learn(entries, c, now) ==
  IF c.words = {} THEN entries ELSE WithinBounds(Tallied(entries, c, now))

Speaking(entries, field, term) ==
  {value \in Meanings[field] :
     LET k == <<field, term, value>> IN k \in DOMAIN entries /\ Speaks(entries[k])}

\* _unambiguous: empty for None.
Unambiguous(entries, field, term) ==
  IF Cardinality(Speaking(entries, field, term)) = 1 THEN Speaking(entries, field, term) ELSE {}

\* weights_for, of one value.
WeightFor(entries, field, words, value) ==
  MapThenSumSet(LAMBDA term : Weight(entries[<<field, term, value>>]),
                {term \in words : value \in Unambiguous(entries, field, term)})

---------------------------------------------------------------------------
(* HeuristicIntentEngine: the guess for a Spark of these words.  0 is      *)
(* REMEMBER for want of anything better.                                   *)

Best(scores) ==
  IF \A v \in Intents : scores[v] = 0 THEN 0
  ELSE Max({v \in Intents : \A w \in Intents : scores[v] >= scores[w]})

EnglishGuess(words) == Best(English[words])
Guess(words) ==
  Best([v \in Intents |-> English[words][v] + WeightFor(terms, "INTENT", words, v)])

\* SearchVaultUseCase, for a search of one word.
SearchedIntents(term) == Unambiguous(terms, "INTENT", term)
---------------------------------------------------------------------------
(* The table, and the transaction the overrides share.                     *)

LexiconInit ==
  /\ terms = NoWords /\ before = NoWords /\ working = FALSE
  /\ asking = [a \in Askers |-> "idle"] /\ lesson = [a \in Askers |-> NoWords]
  /\ clock = 0
  /\ tapped = [k \in WordKeys |-> 0] /\ taken = [k \in WordKeys |-> 0]
  /\ evicted = {} /\ met = FALSE /\ turnedAway = FALSE

Busy(a) == asking[a] # "idle"
Alone(a) == \A b \in Askers \ {a} : ~ Busy(b)
GoesTo(a, step) == asking' = [asking EXCEPT ![a] = step]
Carries(a, what) == lesson' = [lesson EXCEPT ![a] = what]
Leaves(a) == GoesTo(a, "idle") /\ Carries(a, NoWords)

LetGo == working' = FALSE /\ before' = NoWords
TakenBack == LetGo /\ terms' = IF working THEN before ELSE terms
WordRead == UNCHANGED <<clock, evicted>>

\* The Spark was read; the unit of work is entered, and the Spark saved.
Override(a) ==
  /\ ~ Busy(a) /\ clock < MaxCorrections
  /\ \E c \in Corrections :
       /\ Carries(a, c)
       /\ tapped' = [k \in WordKeys |-> tapped[k] + IF k \in KeysOf(c) THEN 1 ELSE 0]
  /\ GoesTo(a, "load")
  /\ IF Alone(a) THEN working' = TRUE /\ before' = terms
                 ELSE UNCHANGED <<working, before>>
  /\ met' = (met \/ ~ Alone(a))
  /\ clock' = clock + 1
  /\ UNCHANGED <<terms, taken, evicted, turnedAway>>

\* The save of the Spark is refused: rollback() takes back what is open,
\* whoever began it.
OverrideRefused(a) ==
  /\ asking[a] = "load"
  /\ TakenBack /\ Leaves(a)
  /\ WordRead /\ UNCHANGED <<tapped, taken, met, turnedAway>>

\* _learn_from: load and learn.
LoadWords(a) ==
  /\ asking[a] = "load"
  /\ LET learnt == Learn(terms, lesson[a], clock) IN
     /\ Carries(a, [said |-> lesson[a], rows |-> learnt])
     /\ evicted' = evicted \cup ((DOMAIN terms \cup KeysOf(lesson[a])) \ DOMAIN learnt)
  /\ GoesTo(a, "delete")
  /\ UNCHANGED <<terms, before, working, clock, tapped, taken, met, turnedAway>>

\* save: DELETE, then an INSERT for each row, in one order of theirs.
NextRow(entries) == CHOOSE k \in DOMAIN entries : \A j \in DOMAIN entries : ~ Stronger(entries, j, k)
DeleteWords(a) ==
  /\ asking[a] = "delete"
  /\ terms' = NoWords
  /\ GoesTo(a, "insert")
  /\ UNCHANGED <<before, working, lesson, clock, tallies>>
InsertWord(a) ==
  /\ asking[a] = "insert" /\ lesson[a].rows # NoWords
  /\ LET k == NextRow(lesson[a].rows) IN
       /\ k \notin DOMAIN terms
       /\ terms' = [j \in DOMAIN terms \cup {k} |-> IF j = k THEN lesson[a].rows[k] ELSE terms[j]]
       /\ Carries(a, [lesson[a] EXCEPT !.rows = Restrict(lesson[a].rows, DOMAIN lesson[a].rows \ {k})])
  /\ UNCHANGED <<before, working, asking, clock, tallies>>

\* The last one out takes the transaction back; another's goes on.
Raises(a) ==
  /\ IF Alone(a) THEN TakenBack ELSE UNCHANGED <<terms, before, working>>
  /\ Leaves(a)
  /\ WordRead /\ UNCHANGED <<tapped, taken, met>>

\* The primary key is taken: an exception, which nobody swallows.
InsertCollides(a) ==
  /\ asking[a] = "insert" /\ lesson[a].rows # NoWords
  /\ NextRow(lesson[a].rows) \in DOMAIN terms
  /\ turnedAway' = TRUE /\ Raises(a)

\* Any statement may raise (a full disk).
StatementRaises(a) ==
  /\ asking[a] \in {"load", "delete", "insert"}
  /\ Raises(a) /\ UNCHANGED turnedAway

\* commit() of a request alone; otherwise the last one out commits.
Learned(a) ==
  /\ asking[a] = "insert" /\ lesson[a].rows = NoWords
  /\ taken' = [k \in WordKeys |-> taken[k] + IF k \in KeysOf(lesson[a].said) THEN 1 ELSE 0]
  /\ IF Alone(a) THEN LetGo ELSE UNCHANGED <<before, working>>
  /\ Leaves(a)
  /\ WordRead /\ UNCHANGED <<terms, tapped, met, turnedAway>>

\* The box stops: what was not committed is gone.
LexiconStops ==
  /\ \E a \in Askers : Busy(a)
  /\ TakenBack
  /\ asking' = [a \in Askers |-> "idle"] /\ lesson' = [a \in Askers |-> NoWords]
  /\ WordRead /\ UNCHANGED <<tapped, taken, met, turnedAway>>

LexiconNext ==
  \/ LexiconStops
  \/ \E a \in Askers : \/ Override(a) \/ OverrideRefused(a) \/ LoadWords(a) \/ DeleteWords(a)
                       \/ InsertWord(a) \/ InsertCollides(a) \/ StatementRaises(a) \/ Learned(a)
LexiconSpec == LexiconInit /\ [][LexiconNext]_lexiconVars

---------------------------------------------------------------------------
(* Properties                                                              *)

Tallies(entries) == DOMAIN entries \subseteq WordKeys /\ \A k \in DOMAIN entries : entries[k] \in Evidence
LexiconTypeOK ==
  /\ Tallies(terms) /\ Tallies(before) /\ working \in BOOLEAN
  /\ asking \in [Askers -> {"idle", "load", "delete", "insert"}] /\ clock \in 0 .. MaxCorrections
  /\ evicted \subseteq WordKeys /\ met \in BOOLEAN /\ turnedAway \in BOOLEAN

\* Nothing is counted that a parent did not say, however overrides overlap,
\* raise or are undone; and the table holds no more than its bound.
NothingInvented ==
  /\ \A k \in DOMAIN terms : terms[k].times <= tapped[k]
  /\ ~ met => Cardinality(DOMAIN terms) <= MaxTerms

\* Unless two overrides overlapped, the table between requests is the tally
\* of the corrections that were answered with Ok: a correction that failed
\* left nothing, and one that succeeded is there, unless the bound dropped it.
LessonFollowsItsCorrection ==
  (~ met /\ \A a \in Askers : ~ Busy(a)) =>
    \A k \in WordKeys : IF k \in evicted THEN Times(terms, k) <= taken[k]
                                         ELSE Times(terms, k) = taken[k]

\* A correction is not turned away for its lesson, unless overrides overlap.
LearningIsQuiet == turnedAway => met

\* A guess that leaves general English, and a search that is read as an
\* intent, follow a word this family said so more than once; and unless
\* overlaps or the bound lost some of it, said in no other way so often.
\* Also for a capture or a search in the middle of an override.
FollowsAHabit(words, v) ==
  \E term \in words :
    /\ tapped[<<"INTENT", term, v>>] >= MinEvidence
    /\ \A w \in Intents \ {v} :
         taken[<<"INTENT", term, w>>] < MinEvidence \/ <<"INTENT", term, w>> \in evicted \/ met
         \/ \E a \in Askers : asking[a] = "insert"
GuessesFollowHabits ==
  /\ \A words \in SparkWords : Guess(words) # EnglishGuess(words) =>
       \E v \in Intents : FollowsAHabit(words, v)
  /\ \A term \in Learnable : \A v \in SearchedIntents(term) : FollowsAHabit({term}, v)

WordsAreTheirs ==
  NothingInvented /\ LessonFollowsItsCorrection /\ LearningIsQuiet /\ GuessesFollowHabits
=============================================================================
