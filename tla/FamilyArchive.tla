---------------------------- MODULE FamilyArchive ----------------------------
(***************************************************************************)
(* What a family keeps, taken in and handed on: captures and keeps         *)
(* (application/presence.py and its fellows), imports of an older archive  *)
(* (application/import_.py), the three exports (application/export.py,     *)
(* application/privacy.py) and the sealed bundle (domain/artifact.py).     *)
(*                                                                         *)
(* An export reads one list after the other, outside any transaction, on   *)
(* the connection everybody shares: it sees what is committed between two  *)
(* reads, and rows of an import that are not committed yet.                *)
(*                                                                         *)
(* A story is what rows of several tables are about, and stands for the    *)
(* one medium they name.  How requests that write lose each other's rows   *)
(* is UnitOfWork's subject: here each write is one step, none in the       *)
(* middle of an import.                                                    *)
(***************************************************************************)
EXTENDS Integers, FiniteSets, Sequences

CONSTANTS
  Stories,
  Exports,      \* exports that may be asked for, each once
  TellWired,    \* whether CaptureRightNowUseCase is given a Spark repository
  MaxChanges    \* changes of the archive

ASSUME ArchiveAssumption == TellWired \in BOOLEAN /\ MaxChanges \in Nat

VARIABLES
  rows,        \* <<table, story>>
  pictured,    \* the rows that name their story's medium
  listed,      \* table media
  bytes,       \* the media that can be read
  household,   \* whether the family exists
  batch,       \* an import under way: [open, rows, media], what it has added so far
  export,      \* each export: [what, at, left, got, pics, media, counted]
  folder,      \* the archive's destination: [made, lists, media, root, manifest]
  bundle,      \* a .fap bundle: [title, manifest, payload, seal], or none
  changes,
  \* What the property needs to remember of each export: the rows and media that
  \* were there all along, the stories captured meanwhile, exports that shared a folder
  lasted, intact, newcomers, shared

archiveVars == <<rows, pictured, listed, bytes, household, batch, export, folder, bundle, changes,
                 lasted, intact, newcomers, shared>>

Lists == {"spark", "moment", "voice", "thing", "rightnow", "words"}
Pictures == {"spark", "moment", "voice", "thing"}   \* the tables with media ids

NoBatch == [open |-> FALSE, rows |-> {}, media |-> {}]
NoExport == [what |-> "none", at |-> "no", left |-> << >>, got |-> {}, pics |-> {}, media |-> {}, counted |-> 0]
Bare == [made |-> FALSE, lists |-> {}, media |-> {}, root |-> << >>, manifest |-> << >>]
NoBundle == << >>

---------------------------------------------------------------------------
(* The family's days                                                       *)

Running(e) == export[e].at \notin {"no", "done", "stopped"}
\* One change of the archive, and what every export under way would remember of it.
Change(new, pics, media, readable) ==
  /\ changes < MaxChanges /\ changes' = changes + 1
  /\ rows' = new /\ pictured' = pics /\ listed' = media /\ bytes' = readable
  /\ lasted' = [e \in Exports |-> lasted[e] \cap new]
  /\ intact' = [e \in Exports |-> intact[e] \cap media \cap readable]
  /\ newcomers' = [e \in Exports |-> newcomers[e] \cup
                     {s \in Stories : <<"spark", s>> \in new \ rows}]
  /\ UNCHANGED <<export, folder, bundle, shared>>
Day(new, pics, media, readable) ==
  household /\ ~batch.open /\ bundle = NoBundle /\ Change(new, pics, media, readable)
            /\ UNCHANGED <<household, batch>>
\* A row that names its story's medium, or does not.
Keep(new, pics) == Day(rows \cup new, pictured \cup pics, listed, bytes)
Named(s, row) == IF s \in listed THEN {{}, {row}} ELSE {{}}

Upload(s) == s \notin listed /\ Day(rows, pictured, listed \cup {s}, bytes \cup {s})
CaptureSpark(s) == \E p \in Named(s, <<"spark", s>>) :
  <<"spark", s>> \notin rows /\ Keep({<<"spark", s>>}, p)
MarkDone(s) == \E p \in Named(s, <<"moment", s>>) :
  <<"spark", s>> \in rows /\ <<"moment", s>> \notin rows /\ Keep({<<"moment", s>>}, p)
KeepVoice(s) == s \in listed /\ <<"voice", s>> \notin rows /\ Keep({<<"voice", s>>}, {<<"voice", s>>})
CaptureLittleThing(s) == \E p \in Named(s, <<"thing", s>>) :
  <<"thing", s>> \notin rows /\ Keep({<<"thing", s>>}, p)
LearnWords(s) == <<"spark", s>> \in rows /\ <<"words", s>> \notin rows /\ Keep({<<"words", s>>}, {})

\* The prompt of the day is the question he could not be answered, or another one.
TellSpark(asks, s) == IF asks /\ TellWired THEN {<<"spark", s>>} ELSE {}
CaptureRightNow(s) == \E asks \in BOOLEAN :
  <<"rightnow", s>> \notin rows /\ Keep({<<"rightnow", s>>} \cup TellSpark(asks, s), {})

\* DeleteChildContentUseCase: the Spark and its Moment go; the medium stays.
Forgotten(s) == {<<"spark", s>>, <<"moment", s>>}
DeleteContent(s) ==
  <<"spark", s>> \in rows /\ Day(rows \ Forgotten(s), pictured \ Forgotten(s), listed, bytes)
LoseBytes(s) == s \in bytes /\ Day(rows, pictured, listed, bytes \ {s})
EraseFamily ==
  /\ household /\ ~batch.open /\ bundle = NoBundle
  /\ household' = FALSE /\ Change({}, {}, {}, {}) /\ UNCHANGED batch

---------------------------------------------------------------------------
(* Imports: every item of one file inside one unit of work                 *)

BeginImport ==
  /\ household /\ ~batch.open /\ bundle = NoBundle /\ changes < MaxChanges
  /\ batch' = [NoBatch EXCEPT !.open = TRUE]
  /\ UNCHANGED <<rows, pictured, listed, bytes, household, export, folder, bundle, changes,
                 lasted, intact, newcomers, shared>>
ImportItem(new, pics, media) ==
  /\ batch.open /\ Change(rows \cup new, pictured \cup pics, listed \cup media, bytes \cup media)
  /\ batch' = [batch EXCEPT !.rows = @ \cup new, !.media = @ \cup media]
  /\ UNCHANGED household
\* A photograph, in an album or a chat, becomes a medium, a Spark and a Moment; a note
\* a Spark; a line of a chat a little thing.  Each gets an id of its own: no item is known again.
Lived(s) == {<<"spark", s>>, <<"moment", s>>}
NewToUs(s) == s \notin listed /\ \A t \in Lists : <<t, s>> \notin rows
ImportPhoto(s) == NewToUs(s) /\ ImportItem(Lived(s), Lived(s), {s})
ImportNote(s) == NewToUs(s) /\ ImportItem({<<"spark", s>>}, {}, {})
ImportMessage(s) == NewToUs(s) /\ ImportItem({<<"thing", s>>}, {}, {})
\* The end of the file, or a medium that is refused: return Err in the block commits.
EndImport ==
  /\ batch.open /\ batch' = NoBatch
  /\ UNCHANGED <<rows, pictured, listed, bytes, household, export, folder, bundle, changes,
                 lasted, intact, newcomers, shared>>
\* A line whose date is none raises: the rows are rolled back, the files stay.
ImportRaises ==
  /\ batch.open /\ batch' = NoBatch
  /\ Change(rows \ batch.rows, pictured \ batch.rows, listed \ batch.media, bytes)
  /\ UNCHANGED household

---------------------------------------------------------------------------
(* Exports                                                                 *)

\* A slip: the Moments before the Sparks they came from.
ReadsMomentsFirst(what) ==
  CASE what = "archive"  -> <<"moment", "spark", "voice", "thing", "words">>
    [] what = "document" -> <<"moment", "spark", "thing", "rightnow", "voice", "media", "words">>
    [] what = "vault"    -> <<"moment", "spark", "thing", "rightnow", "media">>
\* What each export reads, in that order.
Reads(what) ==
  CASE what = "archive"  -> <<"spark", "moment", "voice", "thing", "words">>
    [] what = "document" -> <<"spark", "moment", "thing", "rightnow", "voice", "media", "words">>
    [] what = "vault"    -> <<"spark", "moment", "thing", "rightnow", "media">>

Holding == UNCHANGED <<rows, pictured, listed, bytes, household, batch, changes, lasted, intact, newcomers>>
At(e, state) == Running(e) /\ export[e].at = state

\* A destination with anything in it is refused.
NothingThere == folder = Bare
BeginExport(e, what) ==
  /\ export[e].at = "no" /\ household /\ bundle = NoBundle
  /\ export' = [export EXCEPT ![e] = [NoExport EXCEPT !.what = what, !.left = Reads(what),
                                        !.at = IF what = "archive" THEN "check" ELSE "read"]]
  /\ lasted' = [lasted EXCEPT ![e] = rows] /\ intact' = [intact EXCEPT ![e] = listed \cap bytes]
  /\ newcomers' = [newcomers EXCEPT ![e] = {}]
  /\ UNCHANGED <<rows, pictured, listed, bytes, household, batch, folder, bundle, changes, shared>>
CheckFolder(e) ==
  /\ At(e, "check")
  /\ export' = [export EXCEPT ![e].at = IF NothingThere THEN "mkdir" ELSE "stopped"]
  /\ shared' = IF NothingThere /\ \E f \in Exports \ {e} : export[f].at = "mkdir"
               THEN shared \cup {e} \cup {f \in Exports : export[f].at = "mkdir"} ELSE shared
  /\ Holding /\ UNCHANGED <<folder, bundle>>
MakeFolder(e) ==
  /\ At(e, "mkdir") /\ folder' = [folder EXCEPT !.made = TRUE]
  /\ export' = [export EXCEPT ![e].at = "read"] /\ Holding /\ UNCHANGED <<bundle, shared>>

\* The vault leaves out a Moment whose Spark it has not read.
Wanted(e, r) == export[e].what = "vault" /\ r[1] = "moment" => <<"spark", r[2]>> \in export[e].got
ReadList(e) ==
  /\ At(e, "read") /\ export[e].left # << >>
  /\ LET t == Head(export[e].left)
         found == {r \in rows : r[1] = t /\ Wanted(e, r)}
     IN export' = [export EXCEPT ![e].left = Tail(@), ![e].got = @ \cup found,
                                 ![e].pics = @ \cup (pictured \cap found),
                                 ![e].media = IF t = "media" THEN listed ELSE @]
  /\ Holding /\ UNCHANGED <<folder, bundle, shared>>
Answers(e) ==
  /\ At(e, "read") /\ export[e].left = << >> /\ export[e].what # "archive"
  /\ export' = [export EXCEPT ![e].at = "done"] /\ Holding /\ UNCHANGED <<folder, bundle, shared>>

\* The media the lists name, whoever named them.
MediaOf(pics) == {r[2] : r \in pics}
\* Only another export into the same folder could tell the five files apart.
WriteLists(e) ==
  /\ At(e, "read") /\ export[e].left = << >> /\ export[e].what = "archive"
  /\ folder' = [folder EXCEPT !.lists = export[e].got]
  /\ export' = [export EXCEPT ![e].at = "media", ![e].media = MediaOf(export[e].pics)]
  /\ Holding /\ UNCHANGED <<bundle, shared>>
\* A medium that cannot be read is passed over.
CopyMedium(e) ==
  /\ At(e, "media") /\ export[e].media # {}
  /\ \E s \in export[e].media :
       LET readable == s \in listed \cap bytes
       IN /\ folder' = [folder EXCEPT !.media = IF readable THEN @ \cup {s} ELSE @]
          /\ export' = [export EXCEPT ![e].media = @ \ {s},
                                      ![e].counted = IF readable THEN @ + 1 ELSE @]
  /\ Holding /\ UNCHANGED <<bundle, shared>>
WriteRoot(e) ==
  /\ At(e, "media") /\ export[e].media = {}
  /\ folder' = [folder EXCEPT !.root = <<Cardinality(export[e].got), export[e].counted>>]
  /\ export' = [export EXCEPT ![e].at = "manifest"] /\ Holding /\ UNCHANGED <<bundle, shared>>
\* The manifest lists and hashes whatever lies in the folder.
WriteManifest(e) ==
  /\ At(e, "manifest")
  /\ folder' = [folder EXCEPT !.manifest = <<folder.lists, folder.media, folder.root>>]
  /\ export' = [export EXCEPT ![e].at = "done"] /\ Holding /\ UNCHANGED <<bundle, shared>>
\* The process ends, or a read or a write raises: what was written stays.
ExportStops(e) ==
  /\ Running(e) /\ export[e].what = "archive" /\ folder.made
  /\ export' = [export EXCEPT ![e].at = "stopped"] /\ Holding /\ UNCHANGED <<folder, bundle, shared>>

---------------------------------------------------------------------------
(* The sealed bundle.  Hashes stand for their content, the signature for   *)
(* what it covers; the files of a finished archive are what gets packed.   *)

Files == {<<"lists">>, <<"root">>} \cup {<<"medium", s>> : s \in folder.media}
Packed == [p \in Files |-> "own"]
SealBundle(title, items) == <<"signed", title, items>>

Pack ==
  /\ bundle = NoBundle /\ \A e \in Exports : ~Running(e)
  /\ \E e \in Exports : export[e].what = "archive" /\ export[e].at = "done"
  /\ bundle' = [title |-> "ours", manifest |-> Packed, payload |-> Packed, seal |-> SealBundle("ours", Packed)]
  /\ Holding /\ UNCHANGED <<export, folder, shared>>
\* What befalls a file that is handed across generations.
Handled(b) ==
  /\ bundle # NoBundle /\ changes < MaxChanges /\ changes' = changes + 1 /\ bundle' = b
  /\ UNCHANGED <<rows, pictured, listed, bytes, household, batch, export, folder, lasted, intact,
                 newcomers, shared>>
RotItem(p) == bundle # NoBundle /\ p \in DOMAIN bundle.payload
              /\ Handled([bundle EXCEPT !.payload = [@ EXCEPT ![p] = "rotten"]])
LoseItem(p) == bundle # NoBundle /\ p \in DOMAIN bundle.payload
               /\ Handled([bundle EXCEPT !.payload = [q \in DOMAIN @ \ {p} |-> @[q]]])
Relist == bundle # NoBundle /\ Handled([bundle EXCEPT !.manifest = bundle.payload])
Retitle == bundle # NoBundle /\ Handled([bundle EXCEPT !.title = "another's"])

\* unpack: every file of the manifest is there and hashes to what it says.
Unpacks(b) == /\ DOMAIN b.manifest \subseteq DOMAIN b.payload
              /\ \A p \in DOMAIN b.manifest : b.payload[p] = b.manifest[p]
\* verify_seal signs the header and the items that were unpacked again.
VerifySeal(b) == b.seal = SealBundle(b.title, b.manifest)

---------------------------------------------------------------------------
\* A family that has kept everything about some stories, and nothing about others.
ArchiveInit ==
  /\ \E kept \in SUBSET Stories :
       rows = Lists \X kept /\ pictured = Pictures \X kept /\ listed = kept /\ bytes = kept
  /\ household = TRUE
  /\ batch = NoBatch /\ export = [e \in Exports |-> NoExport] /\ folder = Bare /\ bundle = NoBundle
  /\ changes = 0
  /\ lasted = [e \in Exports |-> {}] /\ intact = [e \in Exports |-> {}]
  /\ newcomers = [e \in Exports |-> {}] /\ shared = {}

ArchiveNext ==
  \/ \E s \in Stories :
       \/ Upload(s) \/ CaptureSpark(s) \/ MarkDone(s) \/ KeepVoice(s) \/ CaptureLittleThing(s)
       \/ LearnWords(s) \/ CaptureRightNow(s) \/ DeleteContent(s) \/ LoseBytes(s)
       \/ ImportPhoto(s) \/ ImportNote(s) \/ ImportMessage(s)
  \/ EraseFamily \/ BeginImport \/ EndImport \/ ImportRaises
  \/ \E e \in Exports :
       \/ \E what \in {"archive", "document", "vault"} : BeginExport(e, what)
       \/ CheckFolder(e) \/ MakeFolder(e) \/ ReadList(e) \/ Answers(e) \/ WriteLists(e)
       \/ CopyMedium(e) \/ WriteRoot(e) \/ WriteManifest(e) \/ ExportStops(e)
  \/ Pack \/ Relist \/ Retitle
  \/ bundle # NoBundle /\ \E p \in Files : RotItem(p) \/ LoseItem(p)

ArchiveTypeOK ==
  /\ rows \subseteq Lists \X Stories /\ pictured \subseteq rows \cap (Pictures \X Stories)
  /\ listed \subseteq Stories /\ bytes \subseteq Stories
  /\ batch.rows \subseteq rows /\ batch.media \subseteq listed
  /\ \A e \in Exports : export[e].got \subseteq Lists \X Stories /\ export[e].pics \subseteq export[e].got

\* Everything an export reads that was there all along is in it, and a Moment comes with its
\* Spark unless that was captured meanwhile (export.py, privacy.py: one list after the other).
ListsHold(e) ==
  /\ {r \in lasted[e] : \E i \in DOMAIN Reads(export[e].what) : Reads(export[e].what)[i] = r[1]}
       \subseteq export[e].got
  /\ \A s \in Stories : <<"moment", s>> \in export[e].got =>
       <<"spark", s>> \in export[e].got \/ s \in newcomers[e]
\* Every medium an exported row names, readable all along, is copied, or in the index.
MediaHold(e) == MediaOf(export[e].pics) \cap intact[e] \subseteq
                  IF export[e].what = "archive" THEN folder.media ELSE export[e].media
\* What lies in the folder is what the archive counted and its manifest lists.
ManifestHolds(e) ==
  export[e].what = "archive" =>
    /\ folder.lists = export[e].got
    /\ folder.root = <<Cardinality(folder.lists), Cardinality(folder.media)>>
    /\ folder.manifest = <<folder.lists, folder.media, folder.root>>
\* A bundle that unpacks and whose seal verifies is the one that was packed.
BundleHolds == (bundle # NoBundle /\ Unpacks(bundle) /\ VerifySeal(bundle)) =>
                 bundle.title = "ours" /\ bundle.manifest = Packed

\* ExportHoldsTogether: a finished export is whole and agrees with itself, whatever the
\* family, imports, erasures and other exports do while it is made, and stays recognisable
\* afterwards.  Two archives that both found the folder empty are excepted.
ExportHoldsTogether ==
  /\ \A e \in Exports \ shared : export[e].at = "done" => ListsHold(e) /\ MediaHold(e) /\ ManifestHolds(e)
  /\ BundleHolds
=============================================================================
