------------------------------- MODULE Letters -------------------------------
(***************************************************************************)
(* A letter to a child: its terms, fixed when it is sealed, and its        *)
(* opening, by the calendar or by a person (domain/inbox.py).  Storage     *)
(* may come up with any bytes, and clocks are set forwards and back.       *)
(***************************************************************************)
EXTENDS Integers

CONSTANTS
  Messages,
  Words,            \* what a letter may say
  Child, Parent,
  Born, Days        \* the child's birth, and the days things happen on: <<year, month, day>>

Dates == Int \X (1 .. 12) \X (1 .. 31)
ASSUME LetterAssumption == Child # Parent /\ Born \in Dates /\ Days \subseteq Dates

VARIABLES
  today,
  terms,      \* of each letter: nothing, or what its ledger fixes
  openings    \* every opening that was answered with a content

letterVars == <<today, terms, openings>>
Unsealed == << >>

\* OpeningKey, and the ages of the calendar's.
Ages == [FIFTH_BIRTHDAY |-> 5, TENTH_BIRTHDAY |-> 10, THIRTEENTH_BIRTHDAY |-> 13, EIGHTEENTH_BIRTHDAY |-> 18]
Calendar == DOMAIN Ages
Personal == {"LEAVING_HOME", "WHENEVER_YOU_CHOOSE"}

Leap(year) == year % 4 = 0 /\ (year % 100 # 0 \/ year % 400 = 0)
NotBefore(d, e) ==
  \/ d[1] > e[1]
  \/ d[1] = e[1] /\ (d[2] > e[2] \/ (d[2] = e[2] /\ d[3] >= e[3]))

\* _birthday: replace() raises where there is no 29 February.
Birthday(age) ==
  LET year == Born[1] + age IN
  IF <<Born[2], Born[3]>> = <<2, 29>> /\ ~Leap(year) THEN <<year, 2, 28>> ELSE <<year, Born[2], Born[3]>>

\* FutureMessage._seal refuses a sensitive letter a calendar's key.
MaySeal(key, care) == ~(care = "SENSITIVE" /\ key \in Calendar)
Seal(l, key, care, text) ==
  /\ terms[l] = Unsealed /\ MaySeal(key, care)
  /\ terms' = [terms EXCEPT ![l] = [key |-> key, care |-> care, text |-> text, on |-> today]]
  /\ UNCHANGED <<today, openings>>

\* SealedArtifact.verify, and an opening not before the sealing.
Opened(l, by, text) ==
  /\ text = terms[l].text /\ NotBefore(today, terms[l].on)
  /\ openings' = openings \cup {[letter |-> l, by |-> by, on |-> today, text |-> text]}
  /\ UNCHANGED <<today, terms>>

\* open_automatically, with whatever bytes storage came up with.
\* Mutant: the year is enough.
DueThisYear(l) == terms[l].key \in Calendar /\ terms[l].care # "SENSITIVE" /\ today[1] >= Born[1] + Ages[terms[l].key]
Due(l) == /\ terms[l].key \in Calendar /\ terms[l].care # "SENSITIVE"
          /\ NotBefore(today, Birthday(Ages[terms[l].key]))
OpenAutomatically(l, text) == terms[l] # Unsealed /\ Due(l) /\ Opened(l, "calendar", text)

\* open_by_choice: leaving home is anybody's to say, the child's own choice is not.
MayOpen(l, key, person) ==
  /\ terms[l].key \notin Calendar /\ key = terms[l].key
  /\ key = "WHENEVER_YOU_CHOOSE" => person = Child
OpenByChoice(l, key, person, text) ==
  terms[l] # Unsealed /\ MayOpen(l, key, person) /\ Opened(l, person, text)

\* Clocks of servers and phones are set forwards and back.
ClockMoves(d) ==
  /\ d # today /\ today' = d
  /\ UNCHANGED <<terms, openings>>

---------------------------------------------------------------------------
LetterInit == today \in Days /\ terms = [l \in Messages |-> Unsealed] /\ openings = {}

LetterNext ==
  \/ \E l \in Messages, text \in Words :
       \/ \E key \in Calendar \cup Personal, care \in {"ORDINARY", "SENSITIVE"} : Seal(l, key, care, text)
       \/ OpenAutomatically(l, text)
       \/ \E key \in Personal, person \in {Child, Parent} : OpenByChoice(l, key, person, text)
  \/ \E d \in Days : ClockMoves(d)

LetterSpec == LetterInit /\ [][LetterNext]_letterVars

---------------------------------------------------------------------------
(* Properties                                                              *)

LettersTypeOK == today \in Days /\ \A o \in openings : o.letter \in Messages /\ o.on \in Days

\* A letter is opened as it was sealed and to whom: the calendar opens no sensitive letter
\* and none before the birthday it names, which is on 28 February where there is no 29th; the
\* child's own choice is the child's; a clock set back opens nothing earlier than it was sealed.
LettersOpenAsPromised ==
  \A o \in openings :
    LET t == terms[o.letter] IN
    /\ o.text = t.text /\ NotBefore(o.on, t.on)
    /\ IF t.key \in Calendar
       THEN /\ o.by = "calendar" /\ t.care = "ORDINARY"
            /\ o.on[1] - Born[1] >= Ages[t.key]
            /\ o.on[1] - Born[1] = Ages[t.key] =>
                 \/ o.on[2] > Born[2] \/ (o.on[2] = Born[2] /\ o.on[3] >= Born[3])
                 \/ Born[2] = 2 /\ Born[3] = 29 /\ ~Leap(o.on[1]) /\ o.on[2] = 2 /\ o.on[3] >= 28
       ELSE o.by = Child \/ (o.by = Parent /\ t.key = "LEAVING_HOME")
=============================================================================
