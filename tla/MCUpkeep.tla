------------------------------- MODULE MCUpkeep -------------------------------
(***************************************************************************)
(* What is kept for decades, checked side by side: the custody of media,   *)
(* the schema, the family's keys, the letters' terms, the archive and its  *)
(* exports.  They share no variable, so a behaviour is of one part and the *)
(* others rest in a plain state.  Their processes are given the same       *)
(* names, so that one small symmetry serves several parts.                 *)
(***************************************************************************)
EXTENDS MediaCustody, SchemaUpkeep, FamilyKeys, Letters, FamilyArchive, TLC

CONSTANTS First, Second   \* a medium and story; an export

VARIABLE part

MCBorn == <<2004, 2, 29>>
MCDays == {<<2009, 2, 27>>, <<2009, 2, 28>>, <<2014, 3, 1>>}

upkeepVars == <<custodyVars, schemaVars, receiptVars, letterVars, archiveVars, part>>

Plain == /\ catalogue \in CASE part = "custody" -> {{First}}
                          [] part = "races" -> {{}, {First}}
                          [] OTHER -> {{}}
         /\ part # "schema" => version = 0
         /\ part # "letters" => today = <<2009, 2, 27>>
         /\ listed \in CASE part = "folder" -> {{First}}
                       [] part = "handing" -> {{}, {First}}
                       [] OTHER -> {{}}
UpkeepInit ==
  /\ part \in {"custody", "races", "schema", "keys", "letters", "handing", "folder"}
  /\ CustodyInit /\ SchemaInit /\ KeyInit /\ LetterInit /\ ArchiveInit /\ Plain

\* Custody is explored with one upload or repair over two media, the first there from
\* the start, beside a rotation, a backup and a restoration in any order; and with two, and
\* an erasure, over the first alone, beside a rotation or a backup.
Touched == {m \in Media : OnDisk(m)} \cup catalogue \cup InFlight
Custody == /\ CustodyNext
           /\ part = "custody" => writes' <= 1 /\ erasure' = "no"
           /\ part = "races" => /\ Touched' \subseteq {First}
                                /\ settings' = <<Old>> \/ copy'.at = "no"

\* The archive is explored with one export of any kind in a busy family, and with two
\* archives into one folder in a quiet one; there the bundle goes from hand to hand.
Archive == /\ ArchiveNext
           /\ part = "handing" => changes' <= 2 /\ export'[Second] = NoExport /\ bundle' = NoBundle
           /\ part = "folder" => /\ changes' <= IF bundle' = NoBundle THEN 1 ELSE 3
                                 /\ \A e \in Exports : export'[e].what \in {"none", "archive"}

UpkeepNext ==
  /\ UNCHANGED part
  /\ \/ /\ part \in {"custody", "races"} /\ Custody
        /\ UNCHANGED <<schemaVars, receiptVars, letterVars, archiveVars>>
     \/ /\ part = "schema" /\ SchemaNext
        /\ UNCHANGED <<custodyVars, receiptVars, letterVars, archiveVars>>
     \/ /\ part = "keys" /\ KeyNext
        /\ UNCHANGED <<custodyVars, schemaVars, letterVars, archiveVars>>
     \/ /\ part = "letters" /\ LetterNext
        /\ UNCHANGED <<custodyVars, schemaVars, receiptVars, archiveVars>>
     \/ /\ part \in {"handing", "folder"} /\ Archive
        /\ UNCHANGED <<custodyVars, schemaVars, receiptVars, letterVars>>

UpkeepSpec == UpkeepInit /\ [][UpkeepNext]_upkeepVars

UpkeepTypeOK == CustodyTypeOK /\ SchemaTypeOK /\ KeysTypeOK /\ LettersTypeOK /\ ArchiveTypeOK

Symmetry == Permutations(Writers)
=============================================================================
