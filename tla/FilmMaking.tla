----------------------------- MODULE FilmMaking -----------------------------
(***************************************************************************)
(* A film, from the archive to a folder a renderer will take               *)
(* (application/film.py and provenance.py, domain/film.py, adapters/film/, *)
(* filmkit's timing): compose, follow every citation, compile, export, and *)
(* at the far end read and verify.                                         *)
(*                                                                         *)
(* Nothing here holds a lock: the archive may lose a row or a file between *)
(* any two reads, the export may stop half-way, and the folder may be      *)
(* harmed on its way.  Lengths are in twentieths of a second.              *)
(***************************************************************************)
EXTENDS Naturals, Sequences, FiniteSets, SequencesExt, FiniteSetsExt

CONSTANTS
  Moments,       \* lived Sparks, each with its Moment; ids are numbers
  Things,        \* little things, other numbers
  Promised,      \* Moments whose Spark may have a recorded why
  Pictured,      \* Moments that may have a photograph
  About,         \* rows about the child the film is for
  DayOf(_), Since, Until,   \* days, and the window asked for
  Length(_),     \* the measured length of a recording
  LeadIn, TailOut, SilentHold, OpeningHold, ClosingHold,
  MaxChanges,    \* bound: rows erased and files harmed in the archive
  MaxJolts       \* bound: files harmed in the folder

ASSUME FilmAssumption ==
  /\ Moments \subseteq Nat /\ Things \subseteq Nat /\ Moments \cap Things = {}
  /\ Promised \subseteq Moments /\ Pictured \subseteq Moments
  /\ {LeadIn, TailOut, SilentHold, OpeningHold, ClosingHold, MaxChanges, MaxJolts} \subseteq Nat

Items == Moments \cup Things
Row(i)   == <<"row", i>>
Photo(i) == <<"photo", i>>
Trace(i) == <<"trace", i>>
Why(i)   == <<"why", i>>
Card(k)  == <<k, 0>>        \* a connective line, read into a file
Nothing  == <<"nothing", 0>>

Pictures   == {Photo(i) : i \in Pictured}
Recordings == {Trace(i) : i \in Items} \cup {Why(i) : i \in Promised}
Cards      == {Card("OPENING"), Card("CLOSING")}
Files      == Pictures \cup Recordings \cup Cards

\* What a note's transcript comes to on a caption: nobody's words, a machine's,
\* a person's, or a person's in a script the world bundle cannot draw.
Words == {"none", "machine", "said", "undrawable"}

VARIABLES
  rows,     \* rows of moment (with its spark) and little_thing
  named,    \* the files those rows name
  owner,    \* whose catalogue row a file has: "ours", "theirs" or "none"
  bytes,    \* what is on disk: "sound", "altered" or "gone"
  note,     \* the voice_note of a recording: its words, or "unmeasured"
  step,     \* where the film is
  asked,    \* the command
  listed,   \* the rows it read
  scenes,   \* its FilmSpec
  ledger,   \* its Provenance, so far
  film,     \* its CompiledFilm, or nothing
  unsent,   \* the files of its bundle that its export has not reached
  folder,   \* the folder it is exported into
  taken,    \* what the renderer said of the folder
  changes, jolts,
  lost      \* history: what the archive had lost when this film was begun

archive == <<rows, named, owner, bytes, note>>
making  == <<step, asked, listed, scenes, ledger, film, unsent>>
counts  == <<changes, jolts>>
filmVars == <<archive, making, folder, taken, counts, lost>>

\* film.json and provenance.json are each of one make, or of none.
NoMake == 0
Earlier == 1
This == 2
NoDocument == [make |-> NoMake, holds |-> <<>>]
EmptyFolder == [there |-> FALSE, media |-> [f \in Files |-> "none"],
                film |-> NoDocument, ledger |-> NoDocument]

Refuse == step' = "refused" /\ UNCHANGED <<asked, listed, scenes, ledger, film, unsent>>

---------------------------------------------------------------------------
(* The archive's side of what a film reads.                                *)

\* MediaStore.describe, then the family check every caller makes.
Described(f) == owner[f] = "ours"

Measured(f) == f \in DOMAIN note /\ note[f] # "unmeasured"

\* A slip: the row is taken for the file.
VerdictByRow(f) == IF Described(f) THEN "VERIFIED" ELSE "MISSING"
Verdict(f) == IF ~Described(f) \/ bytes[f] = "gone" THEN "MISSING"
              ELSE IF bytes[f] = "altered" THEN "ALTERED" ELSE "VERIFIED"

---------------------------------------------------------------------------
(* ComposeFilmUseCase                                                      *)

\* TheYear asks for one child and for the little things; a first film for neither.
FilmBegins ==
  /\ step = "idle" /\ step' = "list"
  /\ \E little \in BOOLEAN : asked' = [everyone |-> ~little, little |-> little]
  /\ lost' = {Row(i) : i \in Items \ rows} \cup {f \in Files : bytes[f] # "sound"}
  /\ UNCHANGED <<archive, listed, scenes, ledger, film, unsent, folder, taken, counts>>

Within(i) == DayOf(i) \in Since .. Until

ListMoments ==
  /\ step = "list" /\ step' = "gather"
  /\ listed' = {i \in rows \cap Moments : Within(i) /\ (asked.everyone \/ i \in About)}
  /\ UNCHANGED <<archive, asked, scenes, ledger, film, unsent, folder, taken, counts, lost>>

\* The Spark of each Moment is read by itself, and may be gone by now.
Gather ==
  /\ step = "gather"
  /\ LET small == {i \in rows \cap Things : asked.little /\ Within(i) /\ i \in About}
     IN  IF listed \subseteq rows /\ listed \cup small # {}
           THEN listed' = listed \cup small /\ step' = "scenes"
                /\ UNCHANGED <<asked, scenes, ledger, film, unsent>>
           ELSE Refuse
  /\ UNCHANGED <<archive, folder, taken, counts, lost>>

Cite(kind, what) == <<kind, what>>

Voice(origin, f, seconds, caption) ==
  [origin |-> origin, file |-> f, seconds |-> seconds, caption |-> caption]
Silence == Voice("SILENT", Nothing, 0, "none")

\* A machine's reading of a recording is not a quotation.
Caption(f) == IF note[f] = "machine" THEN "none" ELSE note[f]
Recorded(f) == Voice("RECORDED", f, Length(f), Caption(f))

\* Both readings in one caption, which always says how long was between.
Together(f, g) ==
  Voice("RECORDED", f, Length(f) + Length(g),
        IF "undrawable" \in {Caption(f), Caption(g)} THEN "undrawable" ELSE "said")

NamedBy(i, f) == f \in named
KeptPromise(i) ==
  /\ i \in Promised /\ NamedBy(i, Why(i)) /\ NamedBy(i, Trace(i))
  /\ Measured(Why(i)) /\ Measured(Trace(i))

Sources(i) ==
  IF i \in Things THEN <<Cite("LITTLE_THING", Row(i))>>
  ELSE <<Cite("MOMENT", Row(i)), Cite("SPARK", Row(i))>>
       \o (IF i \in Pictured /\ NamedBy(i, Photo(i)) THEN <<Cite("MEDIA", Photo(i))>> ELSE <<>>)

SceneOf(i, kind, voice, cites) ==
  [item |-> i, kind |-> kind, voice |-> voice, least |-> SilentHold, cites |-> cites]

Scene(i) ==
  IF KeptPromise(i)
  THEN SceneOf(i, "PROMISE_KEPT", Together(Why(i), Trace(i)),
               Sources(i) \o <<Cite("VOICE_NOTE", Why(i)), Cite("VOICE_NOTE", Trace(i))>>)
  ELSE IF NamedBy(i, Trace(i))
  THEN SceneOf(i, IF i \in Things THEN "LITTLE_THING" ELSE "VOICE", Recorded(Trace(i)),
               Append(Sources(i), Cite("VOICE_NOTE", Trace(i))))
  ELSE SceneOf(i, IF i \in Things THEN "LITTLE_THING" ELSE "MOMENT", Silence, Sources(i))

\* A recording nobody measured refuses the film; an unmeasured why only the promise.
Heard(i) == NamedBy(i, Trace(i)) => Measured(Trace(i))

CardScene(kind, voice, least) ==
  [item |-> 0, kind |-> kind, voice |-> voice, least |-> least, cites |-> <<>>]

\* By day, then by the scene's id, which starts with what it is.
IdRank(scene) == CASE scene.kind = "LITTLE_THING" -> 1 [] scene.kind = "PROMISE_KEPT" -> 3 [] OTHER -> 2
Before(s, t) ==
  LET key(x) == <<DayOf(x.item), IdRank(x), x.item>>
      k == key(s)  l == key(t)
  IN  \/ k[1] < l[1]
      \/ k[1] = l[1] /\ k[2] < l[2]
      \/ k[1] = l[1] /\ k[2] = l[2] /\ k[3] < l[3]

\* SceneVoice.synthetic: one of the four lines, and its caption says so.
Synthetic(f) == Voice("SYNTHETIC", f, Length(f), "marked")

\* The narrator may read either card into a file of ours, or fail, or not be there.
Connective(kind, spoken) ==
  IF Card(kind) \in spoken THEN Synthetic(Card(kind)) ELSE Silence

Planned(items, spoken) ==
  <<CardScene("OPENING", Connective("OPENING", spoken), OpeningHold)>>
  \o SetToSortSeq({Scene(i) : i \in items}, Before)
  \o <<CardScene("CLOSING", Connective("CLOSING", spoken), ClosingHold)>>

ComposeScenes ==
  /\ step = "scenes"
  /\ IF \A i \in listed : Heard(i)
       THEN \E spoken \in SUBSET Cards :
            /\ scenes' = Planned(listed, spoken)
            /\ owner' = [f \in Files |-> IF f \in spoken THEN "ours" ELSE owner[f]]
            /\ step' = "bundle" /\ UNCHANGED <<asked, listed, ledger, film, unsent>>
       ELSE Refuse /\ UNCHANGED owner
  /\ UNCHANGED <<rows, named, bytes, note, folder, taken, counts, lost>>

ScenesOf(spec) == {spec[n] : n \in DOMAIN spec}
MediaOf(scene) ==
  ({scene.voice.file} \ {Nothing}) \cup {c[2] : c \in {c \in ToSet(scene.cites) : c[1] = "MEDIA"}}
MediaIds(spec) == UNION {MediaOf(s) : s \in ScenesOf(spec)}

Bundle ==
  /\ step = "bundle"
  /\ IF \A f \in MediaIds(scenes) : Described(f)
       THEN step' = "check" /\ UNCHANGED <<asked, listed, scenes, ledger, film, unsent>>
       ELSE Refuse
  /\ UNCHANGED <<archive, folder, taken, counts, lost>>

---------------------------------------------------------------------------
(* VerifyProvenanceUseCase                                                 *)

\* What the film claims, in its order: a scene, and one citation within it.
Claims(spec) ==
  FlattenSeq([n \in DOMAIN spec |-> [k \in DOMAIN spec[n].cites |-> <<spec[n].item, spec[n].cites[k]>>]])

FoundRow(i) == IF i \in rows THEN "VERIFIED" ELSE "MISSING"
Answer(claim) ==
  LET kind == claim[2][1]  what == claim[2][2]
  IN  IF kind \in {"MOMENT", "SPARK", "LITTLE_THING"} THEN FoundRow(what[2])
      ELSE IF kind = "VOICE_NOTE" /\ ~Measured(what) THEN "MISSING"
      ELSE Verdict(what)

FollowCitation ==
  /\ step = "check" /\ Len(ledger) < Len(Claims(scenes))
  /\ LET claim == Claims(scenes)[Len(ledger) + 1]
     IN  ledger' = Append(ledger, <<claim, Answer(claim)>>)
  /\ UNCHANGED <<archive, step, asked, listed, scenes, film, unsent, folder, taken, counts, lost>>

---------------------------------------------------------------------------
(* CompileFilmUseCase and filmkit's arithmetic                             *)

IsClean(receipts) == \A n \in DOMAIN receipts : receipts[n][2] = "VERIFIED"
Drawable(spec) == \A s \in ScenesOf(spec) : s.voice.caption # "undrawable"

\* A slip: the quiet around a voice is forgotten.
HoldBare(scene) == Max({scene.voice.seconds, scene.least})
Hold(scene) == Max({scene.voice.seconds + LeadIn + TailOut, scene.least})

\* Scenes lie end to end, and a caption sits in the middle of its scene.
Placed(spec) ==
  LET starts[n \in 0 .. Len(spec)] == IF n = 0 THEN 0 ELSE starts[n - 1] + Hold(spec[n])
      quiet(n) == Hold(spec[n]) - spec[n].voice.seconds
  IN  [n \in DOMAIN spec |->
         [start |-> starts[n - 1], hold |-> Hold(spec[n]), voice |-> spec[n].voice,
          cue |-> starts[n - 1] + quiet(n) \div 2]]

\* CompiledScene and FilmPackage refuse to exist otherwise.
HoldsItsVoice(plan) == \A n \in DOMAIN plan : plan[n].voice.seconds <= plan[n].hold
Vouched(receipts) == {receipts[n][1] : n \in DOMAIN receipts}
Packable(spec, receipts) ==
  Vouched(receipts) = ToSet(Claims(spec)) /\ IsClean(receipts)

Compile ==
  /\ step = "check" /\ Len(ledger) = Len(Claims(scenes))
  /\ IF IsClean(ledger) /\ Drawable(scenes) /\ HoldsItsVoice(Placed(scenes)) /\ Packable(scenes, ledger)
       THEN film' = Placed(scenes) /\ step' = "package" /\ UNCHANGED <<asked, listed, scenes, ledger, unsent>>
       ELSE Refuse
  /\ UNCHANGED <<archive, folder, taken, counts, lost>>

---------------------------------------------------------------------------
(* FilesystemFilmExporter: the files first, then the three documents.      *)

\* A slip: a folder that holds something is exported into.
FreeAnyway == TRUE
Free == folder = EmptyFolder

Goes(there) == step' = there /\ UNCHANGED <<asked, listed, scenes, ledger, film, unsent>>

ExportOpens ==
  /\ step = "package"
  /\ IF Free
       THEN /\ step' = "media" /\ unsent' = MediaIds(scenes)
            /\ folder' = [folder EXCEPT !.there = TRUE]
            /\ UNCHANGED <<asked, listed, scenes, ledger, film>>
       ELSE Refuse /\ UNCHANGED folder
  /\ UNCHANGED <<archive, taken, counts, lost>>

\* The bundle is sorted by id.
NextOf(some) == IF some = {} THEN {} ELSE {CHOOSE f \in some : TRUE}

\* The store's get hashes what it read, and so does the exporter.
ExportMedia ==
  /\ step = "media"
  /\ \E f \in NextOf(unsent) :
       IF Verdict(f) = "VERIFIED"
         THEN /\ folder' = [folder EXCEPT !.media[f] = "sound"] /\ unsent' = unsent \ {f}
              /\ UNCHANGED <<step, asked, listed, scenes, ledger, film>>
         ELSE Refuse /\ UNCHANGED folder
  /\ UNCHANGED <<archive, taken, counts, lost>>

ExportFilm ==
  /\ step = "media" /\ unsent = {}
  /\ folder' = [folder EXCEPT !.film = [make |-> This, holds |-> scenes]]
  /\ Goes("receipts")
  /\ UNCHANGED <<archive, taken, counts, lost>>

\* The render requirements follow; no renderer reads them.
ExportLedger ==
  /\ step = "receipts"
  /\ folder' = [folder EXCEPT !.ledger = [make |-> This, holds |-> ledger]]
  /\ Goes("exported")
  /\ UNCHANGED <<archive, taken, counts, lost>>

Making == {"list", "gather", "scenes", "bundle", "check", "package", "media", "receipts"}

\* A write raises or the process is killed; before the export there is nothing to leave.
Breaks ==
  /\ step \in {"media", "receipts"} /\ jolts < MaxJolts /\ jolts' = jolts + 1
  /\ Goes("crashed")
  /\ UNCHANGED <<archive, folder, taken, changes, lost>>

---------------------------------------------------------------------------
(* On the way, and at the renderer: _read_and_verify.                      *)

\* A copy loses a document or a file, changes its bytes, or leaves it twice.
Travels ==
  /\ step \in {"refused", "exported", "crashed"} /\ taken = "unread"
  /\ jolts < MaxJolts /\ jolts' = jolts + 1
  /\ \/ folder.film.make # NoMake /\ folder' = [folder EXCEPT !.film = NoDocument]
     \/ folder.ledger.make # NoMake /\ folder' = [folder EXCEPT !.ledger = NoDocument]
     \/ \E f \in Files, harm \in {"none", "changed", "twice"} :
          folder.media[f] = "sound" /\ folder' = [folder EXCEPT !.media[f] = harm]
  /\ UNCHANGED <<archive, making, taken, changes, lost>>

Claimed(spec) == ToSet(Claims(spec))
Checked(receipts) == {receipts[n][1] : n \in {n \in DOMAIN receipts : receipts[n][2] = "VERIFIED"}}

\* One file by that name, of that size and hash.
Resolves(f) == folder.media[f] = "sound"
InSync(spec) == \A s \in ScenesOf(spec) : s.voice.seconds <= Hold(s)

Takes ==
  /\ folder.film.make # NoMake /\ folder.ledger.make # NoMake
  /\ Claimed(folder.film.holds) = Checked(folder.ledger.holds) /\ IsClean(folder.ledger.holds)
  /\ \A f \in MediaIds(folder.film.holds) : Resolves(f)
  /\ InSync(folder.film.holds)

ReadAndVerify ==
  /\ step \in {"refused", "exported", "crashed"} /\ folder.there /\ taken = "unread"
  /\ taken' = IF Takes THEN "accepted" ELSE "refused"
  /\ UNCHANGED <<archive, making, folder, counts, lost>>

---------------------------------------------------------------------------
(* Meanwhile, in the archive.                                              *)

Changes == taken = "unread" /\ changes < MaxChanges /\ changes' = changes + 1

\* DeleteChildContent: the row goes, and its spark; its files stay.
EraseRow ==
  /\ Changes
  /\ \E i \in rows : rows' = rows \ {i}
  /\ UNCHANGED <<named, owner, bytes, note, making, folder, taken, jolts, lost>>

\* The disk, or a deletion, takes bytes whose row is there.
HarmBytes ==
  /\ Changes
  /\ \E f \in named, harm \in {"altered", "gone"} :
       bytes[f] = "sound" /\ bytes' = [bytes EXCEPT ![f] = harm]
  /\ UNCHANGED <<rows, named, owner, note, making, folder, taken, jolts, lost>>

\* A parent writes over what a machine heard, or the note is kept at last.
Correct ==
  /\ Changes
  /\ \E f \in DOMAIN note : note[f] # "said" /\ note' = [note EXCEPT ![f] = "said"]
  /\ UNCHANGED <<rows, named, owner, bytes, making, folder, taken, jolts, lost>>

---------------------------------------------------------------------------
(* To start with, at most one file is out of the ordinary, in whose it is  *)
(* or in its words, and the folder may hold the film of an earlier make.   *)

EarlierFilm == Planned({i \in Moments : Within(i)}, {})
Receipts(spec) == [n \in DOMAIN Claims(spec) |-> <<Claims(spec)[n], Answer(Claims(spec)[n])>>]
EarlierFolder ==
  [there |-> TRUE,
   media |-> [f \in Files |-> IF f \in MediaIds(EarlierFilm) THEN "sound" ELSE "none"],
   film |-> [make |-> Earlier, holds |-> EarlierFilm],
   ledger |-> [make |-> Earlier, holds |-> Receipts(EarlierFilm)]]

FilmInit ==
  /\ rows = Items
  /\ named \in {n \in SUBSET (Pictures \cup Recordings) :
                   Cardinality((Pictures \cup Recordings) \ n) <= 1}
  /\ \E odd \in named \cup {Nothing}, whose \in {"ours", "theirs", "none"},
        words \in Words \cup {"unmeasured"} :
       /\ whose = "ours" \/ words = "machine"
       /\ owner = [f \in Files |-> IF f = odd THEN whose ELSE IF f \in named THEN "ours" ELSE "none"]
       /\ note = [f \in Recordings \cap named |-> IF f = odd THEN words ELSE "machine"]
  /\ bytes = [f \in Files |-> "sound"]
  /\ step = "idle" /\ asked = [everyone |-> TRUE, little |-> FALSE]
  /\ listed = {} /\ scenes = <<>> /\ ledger = <<>> /\ film = <<>> /\ unsent = {}
  /\ taken = "unread" /\ changes = 0 /\ jolts = 0 /\ lost = {}
  /\ \/ folder = EmptyFolder
     \/ /\ \A i \in Moments : Heard(i)
        /\ IsClean(Receipts(EarlierFilm))
        /\ folder = EarlierFolder

---------------------------------------------------------------------------
Compose == ListMoments \/ Gather \/ ComposeScenes \/ Bundle
Export  == ExportOpens \/ ExportMedia \/ ExportFilm \/ ExportLedger
Meanwhile == EraseRow \/ HarmBytes \/ Correct

FilmNext == \/ FilmBegins \/ Compose \/ FollowCitation \/ Compile \/ Export
            \/ Breaks \/ Travels \/ ReadAndVerify \/ Meanwhile

FilmSpec == FilmInit /\ [][FilmNext]_filmVars

---------------------------------------------------------------------------
(* Properties                                                              *)

FilmTypeOK ==
  /\ rows \subseteq Items /\ named \subseteq Files
  /\ owner \in [Files -> {"ours", "theirs", "none"}]
  /\ bytes \in [Files -> {"sound", "altered", "gone"}]
  /\ note \in [Recordings \cap named -> Words \cup {"unmeasured"}]
  /\ step \in Making \cup {"idle", "refused", "exported", "crashed"}
  /\ listed \subseteq rows \cup Items /\ unsent \subseteq Files
  /\ Len(ledger) <= Len(Claims(scenes)) /\ Len(film) \in {0, Len(scenes)}
  /\ folder.media \in [Files -> {"none", "sound", "changed", "twice"}]
  /\ taken \in {"unread", "accepted", "refused"}
  /\ changes \in 0 .. MaxChanges /\ jolts \in 0 .. MaxJolts

\* A film that was compiled claims nothing, and names no file, that the archive had
\* already lost when the film was begun: rows erased, bytes gone or altered.
NothingUnfounded ==
  film # <<>> => \A claim \in ToSet(Claims(scenes)) : claim[2][2] \notin lost

\* No voice is left out and none is cut off: every recording a listed row names is
\* played by that row's scene, whole, after the scene before has ended and before the
\* next begins.  The trace of a kept promise is the exception the code makes: its time
\* is in the scene, and only the why is played.
VoicesAreHeard ==
  film # <<>> =>
    /\ \A i \in {i \in listed : NamedBy(i, Trace(i))} :
         \E n \in DOMAIN film :
           /\ scenes[n].item = i
           /\ film[n].voice.file = IF scenes[n].kind = "PROMISE_KEPT" THEN Why(i) ELSE Trace(i)
           /\ Length(film[n].voice.file) <= film[n].voice.seconds
    /\ \A n \in DOMAIN film :
         LET next == IF n = Len(film) THEN film[n].start + film[n].hold ELSE film[n + 1].start
         IN  /\ film[n].start + LeadIn + film[n].voice.seconds + TailOut <= next
             /\ film[n].start <= film[n].cue /\ film[n].cue + film[n].voice.seconds <= next

\* A folder the renderer takes is one film: film.json, the ledger and every file come
\* from one make, complete, whatever was retried into the folder, killed on the way or
\* harmed in the post.
OneFilmPerFolder ==
  taken = "accepted" =>
    /\ folder.film.make = folder.ledger.make
    /\ \A s \in ScenesOf(folder.film.holds) :
         /\ \A f \in MediaOf(s) : folder.media[f] = "sound"
         /\ s.kind \in {"OPENING", "CLOSING"} \/ s.cites # <<>>
=============================================================================
