------------------------------- MODULE MCFilms -------------------------------
(***************************************************************************)
(* FilmMaking and FilmDrawing side by side.  They share no variable: a     *)
(* folder once accepted is only read.  So one moves while the other rests. *)
(***************************************************************************)
EXTENDS FilmMaking, FilmDrawing, TLC

MCDayOf(i) == IF i = 2 THEN 1 ELSE 2
MCLength(f) == IF f[2] = 1 THEN 60 ELSE 110

\* Two editions: another title card, and a kept scene that was corrected.
MCLooks(e, s) == <<e, s>>
MCSounds(e, s) == s

Init == FilmInit /\ DrawInit
\* The workshop draws beside one plain archive; which one makes no difference to it.
Plain == /\ step = "idle" /\ changes = 0 /\ folder = EmptyFolder
         /\ named = Pictures \cup Recordings
         /\ owner = [f \in Files |-> IF f \in named THEN "ours" ELSE "none"]
         /\ note = [f \in Recordings |-> "machine"]

Next == \/ FilmNext /\ renders = 0 /\ UNCHANGED drawVars
        \/ DrawNext /\ Plain /\ UNCHANGED filmVars

Spec == Init /\ [][Next]_<<filmVars, drawVars>>

TypeOK == FilmTypeOK /\ DrawTypeOK

\* Workers and editions play the same part.
Symmetry == Permutations(Workers) \cup Permutations(Editions)

\* Both halves keep their types, and a folder that verify.py and the renderer take holds
\* one film, whole: document, ledger and media of one making.
FolderIsSound == TypeOK /\ OneFilmPerFolder
=============================================================================
