-------------------------- MODULE FilmDrawing_proofs --------------------------
(***************************************************************************)
(* Proofs about FilmDrawing, for any workers, editions and scenes, and     *)
(* whatever these look and sound like.                                     *)
(*                                                                         *)
(* A worker that was never beside another owns the workspace from its      *)
(* batch to its last clip: what lies under a scene's name is what it put   *)
(* there.  What a cache has under a key is what the key says, or the key   *)
(* was soiled by two at once.                                              *)
(***************************************************************************)
EXTENDS FilmDrawing, TLAPS

---------------------------------------------------------------------------
(* The invariant.                                                          *)

APage == {Looks(e, s) : e \in Editions, s \in Scenes} \cup {Blank}
WorkerRow == [at : Working \cup {"idle"}, edition : Editions \cup {Blank}, pages : [Scenes -> APage],
              todo : SUBSET Scenes, left : SUBSET Scenes, now : Scenes \cup {Blank}]

\* Frames and clips are one for each scene, whatever they are.
PerScene(f) == f = [s \in Scenes |-> f[s]]
IsClip(c) == c = [look |-> c.look, sound |-> c.sound, cached |-> c.cached]

WorkersTyped == worker \in [Workers -> WorkerRow]
PagesTyped == document \in [Scenes -> APage]
FramesTyped == PerScene(frame)
ClipsTyped == PerScene(clip) /\ reel = [e \in Editions |-> reel[e]]

\* Whoever draws has an edition, and whoever saves has made a clip.
HasEdition == \A w \in Workers : worker[w].at # "idle" => Edition(w) \in Editions
HasBatch == \A w \in Workers : worker[w].at = "node" => batch \in Editions
Saves == \A w \in Workers : worker[w].at = "save" => worker[w].now \in Scenes /\ IsClip(clip[worker[w].now])

\* Who is not crossed draws alone.
Alone(w) == worker[w].at # "idle" /\ w \notin crossed
OneDraws == \A w, v \in Workers : Alone(w) /\ worker[v].at # "idle" => v = w

\* What it finds in the workspace is of its own edition: the batch, the documents, the pages it read.
OwnBatch == \A w \in Workers : Alone(w) /\ At(w, "node") => batch = Edition(w)
OwnDocument == \A w \in Workers : Alone(w) /\ At(w, "pages") => \A s \in Scenes : document[s] = Looks(Edition(w), s)
OwnPages == \A w \in Workers : Alone(w) /\ ~At(w, "node") /\ ~At(w, "pages") =>
  \A s \in Scenes : Page(w, s) = Looks(Edition(w), s)
\* What it does not paint is in the cache; what it has painted is still there when it is kept.
OwnPaint == \A w \in Workers : Alone(w) /\ At(w, "paint") => worker[w].left \subseteq worker[w].todo /\
  \A s \in Scenes : IF s \in worker[w].todo THEN s \in worker[w].left \/ frame[s] = Page(w, s)
                    ELSE Found(frameCache, FrameKey(s, Page(w, s)))
OwnFrames == \A w \in Workers : Alone(w) /\ At(w, "keep") =>
  \A s \in Scenes : IF s \in worker[w].left THEN frame[s] = Page(w, s) ELSE Found(frameCache, FrameKey(s, Page(w, s)))
\* What it encodes are its pages, unless a cache has another's under a soiled key.
OwnPictures == \A w \in Workers : Alone(w) /\ worker[w].at \in {"encode", "save"} =>
  \A s \in Scenes : frame[s] = Page(w, s) \/ FrameKey(s, Page(w, s)) \in soiled

\* So are its clips, but a clip found may look as another edition does.
SoundsOwn(e, s, c) == c.sound = Sounds(e, s) \/ SceneKey(e, s) \in soiled
LooksOwn(e, s, c) == c.look = Looks(e, s) \/ c.cached \/ FrameKey(s, Looks(e, s)) \in soiled
OwnSounds == \A w \in Workers : Alone(w) /\ worker[w].at \in {"encode", "save"} =>
  \A s \in Scenes \ worker[w].left : SoundsOwn(Edition(w), s, clip[s])
OwnLooks == \A w \in Workers : Alone(w) /\ worker[w].at \in {"encode", "save"} =>
  \A s \in Scenes \ worker[w].left : LooksOwn(Edition(w), s, clip[s])
OwnClip == \A w \in Workers : Alone(w) /\ At(w, "save") =>
  clip[worker[w].now].sound = Sounds(Edition(w), worker[w].now)

\* What a cache has under a key is what the key says, or the key is soiled.
KeptFrames == \A entry \in frameCache, s \in Scenes, page \in APage :
  entry.key = FrameKey(s, page) => entry.holds = page \/ FrameKey(s, page) \in soiled
KeptClips == \A entry \in sceneCache : IsClip(entry.holds)
KeptSounds == \A entry \in sceneCache, e \in Editions, s \in Scenes :
  entry.key = SceneKey(e, s) => entry.holds.sound = Sounds(e, s) \/ SceneKey(e, s) \in soiled

DrawInv == /\ WorkersTyped /\ PagesTyped /\ FramesTyped /\ ClipsTyped /\ HasEdition /\ HasBatch /\ Saves
        /\ OneDraws /\ OwnBatch /\ OwnDocument /\ OwnPages /\ OwnPaint /\ OwnFrames /\ OwnPictures
        /\ OwnSounds /\ OwnLooks /\ OwnClip /\ KeptFrames /\ KeptClips /\ KeptSounds /\ FilmShowsItsOwn

---------------------------------------------------------------------------
(* The caches, and what a step does to a worker.                           *)

\* The keys of a picture and of a clip say whose they are.
LEMMA FrameKeyNames == \A s, t, p, q : FrameKey(s, p) = FrameKey(t, q) => s = t /\ p = q
BY DEF FrameKey

LEMMA SceneKeyNames == \A e, f, s, t : SceneKey(e, s) = SceneKey(f, t) => s = t /\ Sounds(e, s) = Sounds(f, t)
BY DEF SceneKey

LEMMA KeysDiffer == \A e, s, t, p : FrameKey(s, p) # SceneKey(e, t)
BY DEF SceneKey, FrameKey

\* What a cache has under a key, and what a copy does to it.
LEMMA FoundHolds == \A cache, key : Found(cache, key) =>
  \E entry \in cache : entry.key = key /\ Under(cache, key) = entry.holds
BY DEF Found, Under

LEMMA ReplacedFinds == \A cache, key, what, other :
  Found(Replaced(cache, key, what), other) <=> Found(cache, other) \/ other = key
<1> SUFFICES ASSUME NEW cache, NEW key, NEW what, NEW other
             PROVE Found(Replaced(cache, key, what), other) <=> Found(cache, other) \/ other = key
    OBVIOUS
<1>1. [key |-> key, holds |-> what].key = key
  OBVIOUS
<1> QED BY <1>1 DEF Found, Replaced

LEMMA ReplacedEntries == \A cache, key, what : \A entry \in Replaced(cache, key, what) :
   entry \in cache \/ (entry.key = key /\ entry.holds = what)
BY DEF Replaced

\* A clip is a clip.
LEMMA ClipsAreClips == \A l, s, c : IsClip([look |-> l, sound |-> s, cached |-> c])
BY DEF IsClip

\* What the updates of a worker leave is a worker.
LEMMA RowAt == ASSUME NEW row \in WorkerRow, NEW a \in Working \cup {"idle"}, NEW x, x = [row EXCEPT !.at = a]
  PROVE x \in WorkerRow
BY DEF WorkerRow

LEMMA RowLeft == ASSUME NEW row \in WorkerRow, NEW l \in SUBSET Scenes, NEW x, x = [row EXCEPT !.left = l]
  PROVE x \in WorkerRow
BY DEF WorkerRow

LEMMA RowEdition == ASSUME NEW row \in WorkerRow, NEW e \in Editions, NEW x, x = [row EXCEPT !.edition = e]
  PROVE x \in WorkerRow
BY DEF WorkerRow

LEMMA RowsTyped == ASSUME WorkersTyped, NEW w \in Workers, NEW row \in WorkerRow, worker' = [worker EXCEPT ![w] = row]
  PROVE WorkersTyped'
BY DEF WorkersTyped

LEMMA AtTyped == ASSUME WorkersTyped, NEW w \in Workers, NEW there \in Working \cup {"idle"},
                      worker' = [worker EXCEPT ![w].at = there]
  PROVE WorkersTyped'
<1>1. worker[w] \in WorkerRow
  BY DEF WorkersTyped
<1>2. PICK x : x = [worker[w] EXCEPT !.at = there]
  OBVIOUS
<1>3. x \in WorkerRow
  BY <1>1, <1>2, RowAt
<1>4. worker' = [worker EXCEPT ![w] = x]
  BY <1>2, Zenon
<1> QED BY <1>3, <1>4, RowsTyped

\* A worker that goes on, or is done with a scene.
LEMMA TurnsTyped == ASSUME WorkersTyped, NEW w \in Workers, NEW there \in Working \cup {"idle"}, NEW some \in SUBSET Scenes,
                         Turns(w, there, some)
  PROVE WorkersTyped'
<1>1. worker[w] \in WorkerRow
  BY DEF WorkersTyped
<1>2. PICK x : x = [worker[w] EXCEPT !.at = there]
  OBVIOUS
<1>3. x \in WorkerRow
  BY <1>1, <1>2, RowAt
<1>4. PICK f : f = [worker EXCEPT ![w] = x]
  OBVIOUS
<1>5. f \in [Workers -> WorkerRow] /\ f[w] = x
  BY <1>3, <1>4 DEF WorkersTyped
<1>6. PICK y : y = [f[w] EXCEPT !.left = some]
  OBVIOUS
<1>7. y \in WorkerRow
  BY <1>3, <1>5, <1>6, RowLeft
<1>8. worker' = [f EXCEPT ![w] = y]
  BY <1>2, <1>4, <1>6, Zenon DEF Turns
<1> QED BY <1>5, <1>7, <1>8 DEF WorkersTyped

\* What a turn leaves of the workers.
LEMMA Turned == ASSUME WorkersTyped, NEW w \in Workers, NEW there, NEW some, Turns(w, there, some)
  PROVE /\ worker'[w].at = there /\ worker'[w].left = some /\ worker'[w].now = worker[w].now
        /\ worker'[w].edition = worker[w].edition /\ worker'[w].pages = worker[w].pages
        /\ worker'[w].todo = worker[w].todo
        /\ \A v \in Workers : v # w => worker'[v] = worker[v]
<1>1. PICK x : x = [worker[w] EXCEPT !.at = there, !.left = some]
  OBVIOUS
<1>2. worker' = [worker EXCEPT ![w] = x]
  BY <1>1, Zenon DEF Turns
<1>3. /\ x.at = there /\ x.left = some /\ x.now = worker[w].now /\ x.edition = worker[w].edition
      /\ x.pages = worker[w].pages /\ x.todo = worker[w].todo
  BY <1>1 DEF WorkersTyped, WorkerRow
<1> QED BY <1>2, <1>3 DEF WorkersTyped

LEMMA DoneTyped == ASSUME WorkersTyped, NEW w \in Workers, NEW s, Done(w, s)
  PROVE WorkersTyped'
<1>1. worker[w] \in WorkerRow /\ worker[w].left \ {s} \in SUBSET Scenes
  BY DEF WorkersTyped, WorkerRow
<1>2. PICK x : x = [worker[w] EXCEPT !.left = @ \ {s}]
  OBVIOUS
<1>3. x \in WorkerRow
  BY <1>1, <1>2, RowLeft
<1>4. worker' = [worker EXCEPT ![w] = x]
  BY <1>2, Zenon DEF Done
<1> QED BY <1>3, <1>4 DEF WorkersTyped

\* A worker that has encoded a scene.
LEMMA EncodeMissTurns == ASSUME WorkersTyped, NEW w \in Workers, EncodeMiss(w)
  PROVE /\ worker'[w].at = "save" /\ worker'[w].left = worker[w].left \ {worker'[w].now}
        /\ worker'[w].now \in worker[w].left /\ ~Found(sceneCache, SceneKey(Edition(w), worker'[w].now))
        /\ clip' = [clip EXCEPT ![worker'[w].now] =
             [look |-> frame[worker'[w].now], sound |-> Sounds(Edition(w), worker'[w].now), cached |-> FALSE]]
        /\ worker'[w].edition = worker[w].edition /\ worker'[w].pages = worker[w].pages
        /\ worker'[w].todo = worker[w].todo
        /\ \A v \in Workers : v # w => worker'[v] = worker[v]
        /\ WorkersTyped'
<1>1. PICK s \in worker[w].left :
        /\ ~Found(sceneCache, SceneKey(Edition(w), s))
        /\ clip' = [clip EXCEPT ![s] =
             [look |-> frame[s], sound |-> Sounds(Edition(w), s), cached |-> FALSE]]
        /\ worker' = [worker EXCEPT ![w] =
             [at |-> "save", edition |-> Edition(w), pages |-> worker[w].pages,
              todo |-> worker[w].todo, left |-> worker[w].left \ {s}, now |-> s]]
  BY DEF EncodeMiss
<1> DEFINE row == [at |-> "save", edition |-> worker[w].edition, pages |-> worker[w].pages,
                   todo |-> worker[w].todo, left |-> worker[w].left \ {s}, now |-> s]
<1>3. worker' = [worker EXCEPT ![w] = row]
  BY <1>1 DEF Edition
<1>4. row = [at |-> "save", edition |-> worker[w].edition, pages |-> worker[w].pages,
             todo |-> worker[w].todo, left |-> worker[w].left \ {s}, now |-> s]
  OBVIOUS
<1> HIDE DEF row
<1>5. worker'[w] = row /\ \A v \in Workers : v # w => worker'[v] = worker[v]
  BY <1>3 DEF WorkersTyped
<1>6. /\ s = worker'[w].now /\ worker'[w].at = "save" /\ worker'[w].left = worker[w].left \ {s}
      /\ worker'[w].edition = worker[w].edition /\ worker'[w].pages = worker[w].pages
      /\ worker'[w].todo = worker[w].todo
  BY <1>4, <1>5
<1>7. row \in WorkerRow
  <2>1. s \in Scenes /\ worker[w].left \ {s} \in SUBSET Scenes
    BY DEF WorkersTyped, WorkerRow
  <2> QED BY <1>4, <2>1 DEF WorkersTyped, WorkerRow, Working
<1>8. WorkersTyped'
  BY <1>3, <1>7, RowsTyped
<1> QED BY <1>1, <1>5, <1>6, <1>8, Zenon

\* A worker that begins.
LEMMA BeginsTyped == ASSUME WorkersTyped, NEW w \in Workers, RenderBegins(w) PROVE WorkersTyped'
<1>1. PICK e \in Editions : worker' = [worker EXCEPT ![w] = [Idle EXCEPT !.at = "node", !.edition = e]]
  BY DEF RenderBegins
<1>2. Idle \in WorkerRow
  BY DEF WorkerRow, Idle, APage
<1>3. PICK x : x = [Idle EXCEPT !.at = "node"]
  OBVIOUS
<1>4. x \in WorkerRow
  BY <1>2, <1>3, RowAt DEF Working
<1>5. PICK y : y = [x EXCEPT !.edition = e]
  OBVIOUS
<1>6. y \in WorkerRow
  BY <1>4, <1>5, RowEdition
<1>7. worker' = [worker EXCEPT ![w] = y]
  BY <1>1, <1>3, <1>5, Zenon
<1> QED BY <1>6, <1>7 DEF WorkersTyped

\* A worker that has read its pages.
LEMMA ReadPagesTyped == ASSUME WorkersTyped, PagesTyped, HasEdition, NEW w \in Workers, ReadPages(w)
  PROVE WorkersTyped'
<1> DEFINE row == [at |-> "paint", edition |-> Edition(w), pages |-> document,
                   todo |-> Unpainted(document), left |-> Unpainted(document), now |-> worker[w].now]
<1>1. Unpainted(document) \in SUBSET Scenes
  BY DEF Unpainted
<1>2. row \in WorkerRow
  BY <1>1 DEF WorkersTyped, WorkerRow, PagesTyped, Working, Edition
<1>3. worker' = [worker EXCEPT ![w] = row]
  BY Zenon DEF ReadPages
<1> HIDE DEF row
<1> QED BY <1>2, <1>3 DEF WorkersTyped

\* What it does not paint is in the cache.
LEMMA ReadPagesUnpainted == ASSUME DrawInv, NEW w \in Workers, ReadPages(w) PROVE OwnPaint'
<1>1. worker' = [worker EXCEPT ![w] =
       [at |-> "paint", edition |-> Edition(w), pages |-> document,
        todo |-> Unpainted(document), left |-> Unpainted(document), now |-> worker[w].now]]
  BY Zenon DEF ReadPages
<1>2. \A s \in Scenes : s \notin Unpainted(document) => Found(frameCache, FrameKey(s, document[s]))
  BY DEF Unpainted
<1>3. worker'[w].pages = document /\ worker'[w].todo = Unpainted(document) /\ worker'[w].left = Unpainted(document)
  BY <1>1 DEF DrawInv, WorkersTyped
<1>4. \A v \in Workers : v # w => worker'[v] = worker[v]
  BY <1>1 DEF DrawInv, WorkersTyped
<1>5. frameCache' = frameCache /\ frame' = frame /\ crossed' = crossed
  BY DEF ReadPages, workspace
<1> SUFFICES ASSUME NEW v \in Workers, Alone(v)', At(v, "paint")'
             PROVE (worker'[v].left \subseteq worker'[v].todo /\
               \A s \in Scenes : IF s \in worker'[v].todo THEN s \in worker'[v].left \/ frame'[s] = Page(v, s)'
                    ELSE Found(frameCache', FrameKey(s, Page(v, s)')))
    BY DEF OwnPaint
<1>6. CASE v = w
  BY <1>2, <1>3, <1>5, <1>6 DEF Page
<1>7. CASE v # w
  BY <1>4, <1>5, <1>7 DEF Page, DrawInv, OwnPaint, Alone, At
<1> QED BY <1>6, <1>7

\* One frame is painted.
LEMMA PaintsFrames == ASSUME FramesTyped, NEW w \in Workers, Paint(w) PROVE FramesTyped'
<1>1. PICK s : frame' = [frame EXCEPT ![s] = Page(w, s)]
  BY DEF Paint
<1> QED BY <1>1 DEF FramesTyped, PerScene

\* A clip found in the cache is a clip, and is heard and seen as it was kept.
LEMMA ClipKept == ASSUME NEW c, IsClip(c), NEW x, x = [c EXCEPT !.cached = TRUE]
  PROVE x = [look |-> c.look, sound |-> c.sound, cached |-> TRUE]
<1>1. PICK l, s, k : c = [look |-> l, sound |-> s, cached |-> k]
  BY DEF IsClip
<1> QED BY <1>1

LEMMA HitIs == ASSUME DrawInv, NEW w \in Workers, EncodeHit(w)
  PROVE \E s \in Scenes, entry \in sceneCache : \E x :
            IsClip(x) /\ x.sound = entry.holds.sound /\ x.look = entry.holds.look
          /\ clip' = [clip EXCEPT ![s] = x] /\ Done(w, s)
<1>1. PICK s \in worker[w].left :
       /\ Found(sceneCache, SceneKey(Edition(w), s))
       /\ clip' = [clip EXCEPT ![s] = [Under(sceneCache, SceneKey(Edition(w), s)) EXCEPT !.cached = TRUE]]
       /\ Done(w, s)
  BY DEF EncodeHit
<1>2. s \in Scenes
  BY DEF DrawInv, WorkersTyped, WorkerRow
<1>3. PICK entry \in sceneCache : Under(sceneCache, SceneKey(Edition(w), s)) = entry.holds
  BY <1>1, FoundHolds
<1>4. IsClip(entry.holds)
  BY DEF DrawInv, KeptClips
<1>5. PICK x : x = [entry.holds EXCEPT !.cached = TRUE]
  OBVIOUS
<1>6. x = [look |-> entry.holds.look, sound |-> entry.holds.sound, cached |-> TRUE]
  BY <1>4, <1>5, ClipKept
<1>7. IsClip(x) /\ x.sound = entry.holds.sound /\ x.look = entry.holds.look
  BY <1>6, ClipsAreClips
<1>8. clip' = [clip EXCEPT ![s] = x]
  BY <1>1, <1>3, <1>5, Zenon
<1> QED BY <1>1, <1>2, <1>7, <1>8

\* So every scene still has a clip, or none.
LEMMA HitsAreClips == ASSUME DrawInv, NEW w \in Workers, EncodeHit(w) PROVE ClipsTyped'
<1>1. PICK s, x : clip' = [clip EXCEPT ![s] = x]
  BY HitIs
<1>2. PerScene(clip')
  BY <1>1 DEF DrawInv, ClipsTyped, PerScene
<1> QED BY <1>2 DEF DrawInv, ClipsTyped, EncodeHit

LEMMA HitsSave == ASSUME DrawInv, NEW w \in Workers, EncodeHit(w) PROVE Saves'
<1>0. PICK s \in Scenes : \E x : IsClip(x) /\ clip' = [clip EXCEPT ![s] = x] /\ Done(w, s)
  BY HitIs
<1>1. PICK x : IsClip(x) /\ clip' = [clip EXCEPT ![s] = x] /\ Done(w, s)
  BY <1>0
<1>2. \A v \in Workers : worker'[v].at = worker[v].at /\ worker'[v].now = worker[v].now
  BY <1>1 DEF Done, DrawInv, WorkersTyped, WorkerRow
<1>3. \A t \in Scenes : IsClip(clip[t]) => IsClip(clip'[t])
  BY <1>1 DEF DrawInv, ClipsTyped, PerScene
<1> QED BY <1>2, <1>3 DEF DrawInv, Saves

\* The film is the clips that are there, and was drawn alone if its worker was.
LEMMA JoinIs == ASSUME DrawInv, NEW w \in Workers, Join(w)
  PROVE \E film : /\ film.parts = clip /\ (film.alone => w \notin crossed)
                  /\ reel' = [reel EXCEPT ![Edition(w)] = film]
<1>1. PICK film : film = [parts |-> clip, alone |-> w \notin crossed]
  OBVIOUS
<1>2. reel' = [reel EXCEPT ![Edition(w)] = film]
  BY <1>1, Zenon DEF Join
<1>3. film.parts = clip /\ (film.alone => w \notin crossed)
  BY <1>1, Zenon
<1> QED BY <1>2, <1>3

LEMMA JoinsClips == ASSUME DrawInv, NEW w \in Workers, Join(w) PROVE ClipsTyped'
<1>1. PICK film : reel' = [reel EXCEPT ![Edition(w)] = film]
  BY JoinIs
<1>2. reel' = [e \in Editions |-> reel'[e]]
  BY <1>1 DEF DrawInv, ClipsTyped
<1> QED BY <1>2 DEF DrawInv, ClipsTyped, PerScene, Join, workspace

LEMMA JoinsOwn == ASSUME DrawInv, NEW w \in Workers, Join(w) PROVE FilmShowsItsOwn'
<1>1. PICK film : /\ film.parts = clip /\ (film.alone => w \notin crossed)
                  /\ reel' = [reel EXCEPT ![Edition(w)] = film]
  BY JoinIs
<1>2. At(w, "encode") /\ worker[w].left = {} /\ UNCHANGED <<workspace, renders, crossed, soiled>>
  BY DEF Join
<1> SUFFICES ASSUME NEW e \in Editions, reel'[e] # Blank, reel'[e].alone, NEW s \in Scenes
             PROVE LET part == reel'[e].parts[s]
                   IN  /\ part.sound = Sounds(e, s) \/ SceneKey(e, s) \in soiled'
                       /\ part.look = Looks(e, s) \/ part.cached \/ FrameKey(s, Looks(e, s)) \in soiled'
    BY DEF FilmShowsItsOwn
<1>3. CASE e = Edition(w)
  <2>1. reel'[e] = film
    BY <1>1, <1>3 DEF DrawInv, ClipsTyped
  <2>2. Alone(w)
    BY <1>1, <1>2, <2>1 DEF Alone, At
  <2>3. SoundsOwn(e, s, clip[s]) /\ LooksOwn(e, s, clip[s])
    BY <1>2, <1>3, <2>2 DEF DrawInv, OwnSounds, OwnLooks, At
  <2> QED BY <1>1, <1>2, <2>1, <2>3 DEF SoundsOwn, LooksOwn
<1>4. CASE e # Edition(w)
  <2>1. reel'[e] = reel[e]
    BY <1>1, <1>4 DEF DrawInv, ClipsTyped
  <2> QED BY <1>2, <2>1 DEF DrawInv, FilmShowsItsOwn
<1> QED BY <1>3, <1>4

\* The invariant holds to begin with.
LEMMA DrawBegins == DrawInit => DrawInv
<1> SUFFICES ASSUME DrawInit PROVE DrawInv
    OBVIOUS
<1> USE DEF DrawInit
<1>1. WorkersTyped /\ PagesTyped
  BY DEF WorkersTyped, PagesTyped, WorkerRow, APage, Idle
<1>2. FramesTyped /\ ClipsTyped
  BY DEF FramesTyped, ClipsTyped, PerScene
<1>3. \A w \in Workers : worker[w].at = "idle"
  BY DEF Idle
<1>4. HasEdition /\ HasBatch /\ Saves /\ OneDraws
  BY <1>3 DEF HasEdition, HasBatch, Saves, OneDraws, Alone
<1>5. OwnBatch /\ OwnDocument /\ OwnPages /\ OwnPaint /\ OwnFrames /\ OwnPictures /\ OwnSounds /\ OwnLooks /\ OwnClip
  BY <1>3 DEF OwnBatch, OwnDocument, OwnPages, OwnPaint, OwnFrames, OwnPictures, OwnSounds, OwnLooks, OwnClip, Alone
<1>6. KeptFrames /\ KeptClips /\ KeptSounds /\ FilmShowsItsOwn
  BY DEF KeptFrames, KeptClips, KeptSounds, FilmShowsItsOwn
<1> QED BY <1>1, <1>2, <1>4, <1>5, <1>6 DEF DrawInv

---------------------------------------------------------------------------
(* One lemma for each action.                                              *)

\* Who begins beside another is crossed, and so is the other.
LEMMA RenderBeginsKeeps ==
  ASSUME DrawInv, NEW w \in Workers, RenderBegins(w)
  PROVE  DrawInv'
<1>1. WorkersTyped'
  BY BeginsTyped DEF DrawInv
<1> USE DEF DrawInv, RenderBegins, At, Idle
<1>2. PagesTyped' /\ FramesTyped' /\ ClipsTyped' /\ HasEdition' /\ HasBatch'
  BY DEF PagesTyped, FramesTyped, ClipsTyped, HasEdition, Edition, HasBatch
<1>3. Saves' /\ OwnDocument' /\ OwnPages' /\ OwnPaint' /\ OwnFrames'
  BY DEF Saves, OwnDocument, Alone, Edition, OwnPages, Page, OwnPaint, OwnFrames
<1>4. OwnPictures' /\ OwnClip' /\ KeptFrames' /\ KeptClips' /\ KeptSounds'
  BY DEF OwnPictures, Alone, Page, OwnClip, Edition, KeptFrames, KeptClips, KeptSounds
<1>5. FilmShowsItsOwn'
  BY DEF FilmShowsItsOwn
<1>6. OneDraws'
  BY DEF OneDraws, Alone, Busy
<1>7. OwnBatch'
  BY DEF OwnBatch, Alone, Edition, Busy
<1>8. OwnSounds'
  BY DEF OwnSounds, Alone, Edition, Busy
<1>9. OwnLooks'
  BY DEF OwnLooks, Alone, Edition, Busy
<1> QED BY <1>1, <1>2, <1>3, <1>4, <1>5, <1>6, <1>7, <1>8, <1>9 DEF DrawInv

\* The batch of who is alone is its own.
LEMMA NodeWritesKeeps ==
  ASSUME DrawInv, NEW w \in Workers, NodeWrites(w)
  PROVE  DrawInv'
<1>1. WorkersTyped'
  BY TurnsTyped DEF DrawInv, NodeWrites, WorkersTyped, WorkerRow, Working
<1> USE DEF DrawInv, NodeWrites, At, Turns
<1>2. FramesTyped' /\ ClipsTyped' /\ HasBatch' /\ KeptFrames' /\ KeptClips'
  BY DEF FramesTyped, ClipsTyped, HasBatch, KeptFrames, KeptClips
<1>3. KeptSounds' /\ FilmShowsItsOwn'
  BY DEF KeptSounds, FilmShowsItsOwn
<1>4. PagesTyped'
  BY DEF PagesTyped, APage, HasBatch
<1>5. HasEdition'
  BY DEF HasEdition, Edition, WorkersTyped
<1>6. Saves'
  BY DEF Saves, WorkersTyped
<1>7. OneDraws'
  BY DEF OneDraws, Alone, WorkersTyped
<1>8. OwnBatch'
  BY DEF OwnBatch, Alone, Edition, WorkersTyped
<1>9. OwnDocument'
  BY DEF OwnDocument, Alone, Edition, WorkersTyped, OneDraws, OwnBatch
<1>10. OwnPages'
  BY DEF OwnPages, Alone, Page, Edition, WorkersTyped
<1>11. OwnPaint'
  BY DEF OwnPaint, Alone, Page, WorkersTyped
<1>12. OwnFrames'
  BY DEF OwnFrames, Alone, Page, WorkersTyped
<1>13. OwnPictures'
  BY DEF OwnPictures, Alone, Page, WorkersTyped, OneDraws
<1>14. OwnSounds'
  BY DEF OwnSounds, Alone, Edition, WorkersTyped, OneDraws
<1>15. OwnLooks'
  BY DEF OwnLooks, Alone, Edition, WorkersTyped, OneDraws
<1>16. OwnClip'
  BY DEF OwnClip, Alone, Edition, WorkersTyped
<1> QED BY <1>1, <1>2, <1>3, <1>4, <1>5, <1>6, <1>7, <1>8, <1>9, <1>10, <1>11, <1>12, <1>13, <1>14,
           <1>15, <1>16 DEF DrawInv

\* The pages of who is alone are its own.
LEMMA ReadPagesKeeps ==
  ASSUME DrawInv, NEW w \in Workers, ReadPages(w)
  PROVE  DrawInv'
<1>1. WorkersTyped'
  BY ReadPagesTyped DEF DrawInv
<1>2. OwnPaint'
  BY ReadPagesUnpainted
<1> USE DEF DrawInv, ReadPages, At, Edition, workspace
<1>3. PagesTyped' /\ FramesTyped' /\ ClipsTyped' /\ HasEdition' /\ HasBatch'
  BY DEF PagesTyped, FramesTyped, ClipsTyped, HasEdition, HasBatch
<1>4. Saves' /\ OneDraws' /\ OwnBatch' /\ OwnDocument' /\ OwnFrames'
  BY DEF Saves, OneDraws, Alone, OwnBatch, OwnDocument, OwnFrames, Page
<1>5. OwnPictures' /\ OwnClip' /\ KeptFrames' /\ KeptClips' /\ KeptSounds'
  BY DEF OwnPictures, Alone, Page, OwnClip, KeptFrames, KeptClips, KeptSounds
<1>6. FilmShowsItsOwn'
  BY DEF FilmShowsItsOwn
<1>7. OwnPages'
  BY DEF OwnPages, Alone, Page, OwnDocument
<1>8. OwnSounds'
  BY DEF OwnSounds, Alone, OneDraws
<1>9. OwnLooks'
  BY DEF OwnLooks, Alone, OneDraws
<1> QED BY <1>1, <1>2, <1>3, <1>4, <1>5, <1>6, <1>7, <1>8, <1>9 DEF DrawInv

\* A page is painted by its scene's name.
LEMMA PaintKeeps ==
  ASSUME DrawInv, NEW w \in Workers, Paint(w)
  PROVE  DrawInv'
<1>1. WorkersTyped'
  BY DoneTyped DEF DrawInv, Paint
<1>2. FramesTyped'
  BY PaintsFrames DEF DrawInv
<1> USE DEF DrawInv, Paint, At, Page, Done
<1>3. PagesTyped' /\ ClipsTyped' /\ HasEdition' /\ HasBatch' /\ Saves'
  BY DEF PagesTyped, ClipsTyped, HasEdition, Edition, HasBatch, Saves
<1>4. OneDraws' /\ OwnBatch' /\ OwnDocument' /\ OwnPages' /\ OwnClip'
  BY DEF OneDraws, Alone, OwnBatch, Edition, OwnDocument, OwnPages, OwnClip
<1>5. KeptFrames' /\ KeptClips' /\ KeptSounds' /\ FilmShowsItsOwn'
  BY DEF KeptFrames, KeptClips, KeptSounds, FilmShowsItsOwn
<1>6. OwnPaint'
  BY DEF OwnPaint, Alone, OneDraws, FramesTyped, PerScene
<1>7. OwnFrames'
  BY DEF OwnFrames, Alone, OneDraws
<1>8. OwnPictures'
  BY DEF OwnPictures, Alone, OneDraws
<1>9. OwnSounds'
  BY DEF OwnSounds, Alone, Edition, OneDraws
<1>10. OwnLooks'
  BY DEF OwnLooks, Alone, Edition, OneDraws
<1> QED BY <1>1, <1>2, <1>3, <1>4, <1>5, <1>6, <1>7, <1>8, <1>9, <1>10 DEF DrawInv

\* What was to be painted is.
LEMMA PaintedKeeps ==
  ASSUME DrawInv, NEW w \in Workers, Painted(w)
  PROVE  DrawInv'
<1>1. WorkersTyped'
  BY TurnsTyped DEF DrawInv, Painted, WorkersTyped, WorkerRow, Working
<1> USE DEF DrawInv, Painted, At, Turns, workspace
<1>2. PagesTyped' /\ FramesTyped' /\ ClipsTyped' /\ KeptFrames' /\ KeptClips'
  BY DEF PagesTyped, FramesTyped, ClipsTyped, KeptFrames, KeptClips
<1>3. KeptSounds' /\ FilmShowsItsOwn'
  BY DEF KeptSounds, FilmShowsItsOwn
<1>4. HasEdition'
  BY DEF HasEdition, Edition, WorkersTyped
<1>5. HasBatch'
  BY DEF HasBatch, WorkersTyped
<1>6. Saves'
  BY DEF Saves, WorkersTyped
<1>7. OneDraws'
  BY DEF OneDraws, Alone, WorkersTyped
<1>8. OwnBatch'
  BY DEF OwnBatch, Alone, Edition, WorkersTyped
<1>9. OwnDocument'
  BY DEF OwnDocument, Alone, Edition, WorkersTyped
<1>10. OwnPages'
  BY DEF OwnPages, Alone, Page, Edition, WorkersTyped
<1>11. OwnPaint'
  BY DEF OwnPaint, Alone, Page, WorkersTyped
<1>12. OwnFrames'
  BY DEF OwnFrames, Alone, Page, WorkersTyped, OwnPaint
<1>13. OwnPictures'
  BY DEF OwnPictures, Alone, Page, WorkersTyped, OneDraws
<1>14. OwnSounds'
  BY DEF OwnSounds, Alone, Edition, WorkersTyped, OneDraws
<1>15. OwnLooks'
  BY DEF OwnLooks, Alone, Edition, WorkersTyped, OneDraws
<1>16. OwnClip'
  BY DEF OwnClip, Alone, Edition, WorkersTyped
<1> QED BY <1>1, <1>2, <1>3, <1>4, <1>5, <1>6, <1>7, <1>8, <1>9, <1>10, <1>11, <1>12, <1>13, <1>14,
           <1>15, <1>16 DEF DrawInv

\* Who is alone keeps its own pictures; who is not soils the key.
LEMMA KeepFrameKeeps ==
  ASSUME DrawInv, NEW w \in Workers, KeepFrame(w)
  PROVE  DrawInv'
<1>1. WorkersTyped'
  BY DoneTyped DEF DrawInv, KeepFrame
<1> USE DEF DrawInv, KeepFrame, At, Page, Soils, Done
<1>2. PagesTyped' /\ FramesTyped' /\ ClipsTyped' /\ HasEdition' /\ HasBatch'
  BY DEF PagesTyped, FramesTyped, ClipsTyped, HasEdition, Edition, HasBatch
<1>3. Saves' /\ OneDraws' /\ OwnBatch' /\ OwnDocument' /\ OwnPages'
  BY DEF Saves, OneDraws, Alone, OwnBatch, Edition, OwnDocument, OwnPages
<1>4. OwnPictures' /\ OwnClip' /\ KeptClips' /\ KeptSounds' /\ FilmShowsItsOwn'
  BY DEF OwnPictures, Alone, OwnClip, Edition, KeptClips, KeptSounds, FilmShowsItsOwn
<1>5. OwnPaint'
  BY DEF OwnPaint, Alone, OneDraws
<1>6. OwnFrames'
  BY ReplacedFinds DEF OwnFrames, Alone
<1>7. OwnSounds'
  BY DEF OwnSounds, Alone, Edition, OneDraws
<1>8. OwnLooks'
  BY DEF OwnLooks, Alone, Edition, OneDraws
<1>9. KeptFrames'
  BY ReplacedEntries, FrameKeyNames DEF KeptFrames, OwnFrames, Alone
<1> QED BY <1>1, <1>2, <1>3, <1>4, <1>5, <1>6, <1>7, <1>8, <1>9 DEF DrawInv

\* The cache has a picture for every page.
LEMMA PlaceFramesKeeps ==
  ASSUME DrawInv, NEW w \in Workers, PlaceFrames(w)
  PROVE  DrawInv'
<1>1. WorkersTyped'
  BY TurnsTyped DEF DrawInv, PlaceFrames, WorkersTyped, WorkerRow, Working
<1>0. /\ worker'[w].at = "encode" /\ worker'[w].left = Scenes /\ worker'[w].now = worker[w].now
      /\ worker'[w].edition = worker[w].edition /\ worker'[w].pages = worker[w].pages
      /\ worker'[w].todo = worker[w].todo
      /\ \A v \in Workers : v # w => worker'[v] = worker[v]
  BY Turned DEF DrawInv, PlaceFrames
<1> USE DEF DrawInv, PlaceFrames, At, Page
<1>2. PagesTyped' /\ ClipsTyped' /\ KeptFrames' /\ KeptClips' /\ KeptSounds'
  BY DEF PagesTyped, ClipsTyped, KeptFrames, KeptClips, KeptSounds
<1>3. FilmShowsItsOwn'
  BY DEF FilmShowsItsOwn
<1>4. FramesTyped'
  BY DEF FramesTyped, PerScene
<1>5. HasEdition'
  BY <1>0 DEF HasEdition, Edition, WorkersTyped
<1>6. HasBatch'
  BY <1>0 DEF HasBatch, WorkersTyped
<1>7. Saves'
  BY <1>0 DEF Saves, WorkersTyped
<1>8. OneDraws'
  BY <1>0 DEF OneDraws, Alone, WorkersTyped
<1>9. OwnBatch'
  BY <1>0 DEF OwnBatch, Alone, Edition, WorkersTyped
<1>10. OwnDocument'
  BY <1>0 DEF OwnDocument, Alone, Edition, WorkersTyped
<1>11. OwnPages'
  BY <1>0 DEF OwnPages, Alone, Edition, WorkersTyped
<1>12. \A v \in Workers : v # w => ~Alone(v)
  BY DEF OneDraws, Alone
<1>13. OwnPaint' /\ OwnFrames' /\ OwnClip'
  BY <1>0, <1>12 DEF OwnPaint, OwnFrames, OwnClip, Alone
<1>14. OwnPictures'
  <2>1. ASSUME NEW s \in Scenes, Alone(w)
        PROVE  frame'[s] = Page(w, s) \/ FrameKey(s, Page(w, s)) \in soiled
    <3>1. Found(frameCache, FrameKey(s, Page(w, s)))
      BY <2>1 DEF OwnFrames
    <3>2. PICK entry \in frameCache : /\ entry.key = FrameKey(s, Page(w, s))
                                      /\ Under(frameCache, FrameKey(s, Page(w, s))) = entry.holds
      BY <3>1, FoundHolds
    <3>3. Page(w, s) \in APage
      BY DEF WorkersTyped, WorkerRow
    <3> QED BY <3>2, <3>3 DEF KeptFrames
  <2> QED BY <1>0, <1>12, <2>1 DEF OwnPictures, Alone
<1>15. OwnSounds'
  BY <1>0, <1>12 DEF OwnSounds, Alone
<1>16. OwnLooks'
  BY <1>0, <1>12 DEF OwnLooks, Alone
<1> QED BY <1>1, <1>2, <1>3, <1>4, <1>5, <1>6, <1>7, <1>8, <1>9, <1>10, <1>11, <1>12, <1>13, <1>14,
           <1>15, <1>16 DEF DrawInv

\* A clip found is known by what is heard.
LEMMA EncodeHitKeeps ==
  ASSUME DrawInv, NEW w \in Workers, EncodeHit(w)
  PROVE  DrawInv'
<1>1. WorkersTyped'
  BY DoneTyped DEF DrawInv, EncodeHit
<1>2. ClipsTyped'
  BY HitsAreClips
<1>3. Saves'
  BY HitsSave
<1> USE DEF DrawInv, EncodeHit, At, Edition, Done
<1>4. PagesTyped' /\ FramesTyped' /\ HasEdition' /\ HasBatch' /\ OneDraws'
  BY DEF PagesTyped, FramesTyped, HasEdition, HasBatch, OneDraws, Alone
<1>5. OwnBatch' /\ OwnDocument' /\ OwnPages' /\ OwnPaint' /\ OwnFrames'
  BY DEF OwnBatch, Alone, OwnDocument, OwnPages, Page, OwnPaint, OwnFrames
<1>6. OwnPictures' /\ KeptFrames' /\ KeptClips' /\ KeptSounds' /\ FilmShowsItsOwn'
  BY DEF OwnPictures, Alone, Page, KeptFrames, KeptClips, KeptSounds, FilmShowsItsOwn
<1>7. OwnSounds'
  BY FoundHolds DEF OwnSounds, Alone, SoundsOwn, OneDraws, ClipsTyped, KeptSounds, HasEdition,
                    PerScene
<1>8. OwnLooks'
  BY DEF OwnLooks, Alone, LooksOwn, ClipsTyped, PerScene
<1>9. OwnClip'
  BY DEF OwnClip, Alone, OneDraws
<1> QED BY <1>1, <1>2, <1>3, <1>4, <1>5, <1>6, <1>7, <1>8, <1>9 DEF DrawInv

\* A clip made is of the frame that is there.
LEMMA EncodeMissKeeps ==
  ASSUME DrawInv, NEW w \in Workers, EncodeMiss(w)
  PROVE  DrawInv'
<1>n. PICK n : n = worker'[w].now
  OBVIOUS
<1>0. /\ worker'[w].now = n /\ worker'[w].at = "save" /\ worker'[w].left = worker[w].left \ {n}
      /\ n \in worker[w].left /\ ~Found(sceneCache, SceneKey(Edition(w), n))
      /\ clip' = [clip EXCEPT ![n] =
           [look |-> frame[n], sound |-> Sounds(Edition(w), n), cached |-> FALSE]]
      /\ worker'[w].edition = worker[w].edition /\ worker'[w].pages = worker[w].pages
      /\ worker'[w].todo = worker[w].todo
      /\ \A v \in Workers : v # w => worker'[v] = worker[v]
      /\ WorkersTyped' /\ worker[w].at = "encode"
      /\ UNCHANGED <<batch, document, frame, frameCache, sceneCache, reel, renders, crossed, soiled>>
  BY <1>n, EncodeMissTurns DEF DrawInv, EncodeMiss, At
<1> USE DEF DrawInv, At, Edition
<1>1. PagesTyped' /\ FramesTyped' /\ KeptFrames' /\ KeptClips' /\ KeptSounds'
  BY <1>0 DEF PagesTyped, FramesTyped, KeptFrames, KeptClips, KeptSounds
<1>2. FilmShowsItsOwn'
  BY <1>0 DEF FilmShowsItsOwn
<1>3. n \in Scenes
  BY <1>0 DEF WorkersTyped, WorkerRow
<1>4. ClipsTyped'
  BY <1>0 DEF ClipsTyped, PerScene
<1>5. HasEdition'
  BY <1>0 DEF HasEdition
<1>6. HasBatch'
  BY <1>0 DEF HasBatch
<1>7. Saves'
  <2> DEFINE new == [look |-> frame[n], sound |-> Sounds(Edition(w), n), cached |-> FALSE]
  <2>1. IsClip(new)
    BY ClipsAreClips
  <2> HIDE DEF new
  <2>2. \A s \in Scenes : clip'[s] = IF s = n THEN new ELSE clip[s]
    BY <1>0 DEF ClipsTyped, PerScene, new
  <2>3. IsClip(clip'[n])
    BY <1>3, <2>1, <2>2
  <2>4. ASSUME NEW v \in Workers, v # w, worker'[v].at = "save"
        PROVE  worker'[v].now \in Scenes /\ IsClip(clip'[worker'[v].now])
    <3>1. worker'[v].now \in Scenes /\ IsClip(clip[worker'[v].now])
      BY <1>0, <2>4 DEF Saves
    <3> QED BY <2>1, <2>2, <3>1
  <2> QED BY <1>0, <1>3, <2>3, <2>4 DEF Saves
<1>8. OneDraws'
  BY <1>0 DEF OneDraws, Alone, WorkersTyped
<1>9. OwnBatch'
  BY <1>0 DEF OwnBatch, Alone, WorkersTyped
<1>10. OwnDocument'
  BY <1>0 DEF OwnDocument, Alone, WorkersTyped
<1>11. OwnPages'
  BY <1>0 DEF OwnPages, Alone, Page, WorkersTyped
<1>12. OwnPaint'
  BY <1>0 DEF OwnPaint, Alone, Page, WorkersTyped
<1>13. OwnFrames'
  BY <1>0 DEF OwnFrames, Alone, Page, WorkersTyped
<1>14. OwnPictures'
  BY <1>0 DEF OwnPictures, Alone, Page, WorkersTyped
<1>15. \A v \in Workers : v # w => ~Alone(v)
  BY <1>0 DEF OneDraws, Alone
<1>16. /\ clip'[n].look = frame[n] /\ clip'[n].sound = Sounds(Edition(w), n)
       /\ \A s \in Scenes : s # n => clip'[s] = clip[s]
  BY <1>0, <1>3 DEF ClipsTyped, PerScene
<1>17. OwnSounds'
  BY <1>0, <1>15, <1>16 DEF OwnSounds, Alone, SoundsOwn
<1>18. OwnLooks'
  <2>1. ASSUME NEW s \in Scenes, s \notin worker'[w].left, Alone(w)
        PROVE  LooksOwn(Edition(w), s, clip'[s])
    <3>1. CASE s = n
      <4>1. frame[s] = Page(w, s) \/ FrameKey(s, Page(w, s)) \in soiled
        BY <1>0, <2>1 DEF OwnPictures
      <4>2. Page(w, s) = Looks(Edition(w), s)
        BY <1>0, <2>1 DEF OwnPages
      <4>3. clip'[s].look = frame[s]
        BY <1>16, <3>1
      <4> QED BY <1>0, <4>1, <4>2, <4>3 DEF LooksOwn
    <3>2. CASE s # n
      BY <1>0, <1>16, <2>1, <3>2 DEF OwnLooks
    <3> QED BY <3>1, <3>2
  <2>2. Alone(w)' => Alone(w)
    BY <1>0 DEF Alone
  <2>3. ASSUME NEW v \in Workers, Alone(v)', NEW s \in Scenes \ worker'[v].left
        PROVE  LooksOwn(Edition(v), s, clip[s])'
    <3>1. v = w
      BY <1>0, <1>15, <2>3 DEF Alone
    <3> QED BY <1>0, <2>1, <2>2, <2>3, <3>1 DEF LooksOwn
  <2> QED BY <2>3 DEF OwnLooks
<1>19. OwnClip'
  BY <1>0, <1>3, <1>15, <1>16 DEF OwnClip, Alone
<1> QED BY <1>0, <1>1, <1>2, <1>3, <1>4, <1>5, <1>6, <1>7, <1>8, <1>9, <1>10, <1>11, <1>12, <1>13, <1>14,
           <1>15, <1>16, <1>17, <1>18, <1>19 DEF DrawInv

\* What is saved was heard, unless the key is soiled.
LEMMA SaveClipKeeps ==
  ASSUME DrawInv, NEW w \in Workers, SaveClip(w)
  PROVE  DrawInv'
<1>1. WorkersTyped'
  BY AtTyped DEF DrawInv, SaveClip, Working
<1> USE DEF DrawInv, SaveClip, At, Edition, Soils
<1>2. PagesTyped' /\ FramesTyped' /\ ClipsTyped' /\ HasEdition' /\ HasBatch'
  BY DEF PagesTyped, FramesTyped, ClipsTyped, HasEdition, HasBatch
<1>3. Saves' /\ OneDraws' /\ OwnBatch' /\ OwnDocument' /\ OwnPages'
  BY DEF Saves, OneDraws, Alone, OwnBatch, OwnDocument, OwnPages, Page
<1>4. OwnPaint' /\ OwnFrames' /\ OwnPictures' /\ OwnClip' /\ KeptFrames'
  BY DEF OwnPaint, Alone, Page, OwnFrames, OwnPictures, OwnClip, KeptFrames
<1>5. FilmShowsItsOwn'
  BY DEF FilmShowsItsOwn
<1>6. OwnSounds'
  BY DEF OwnSounds, Alone, SoundsOwn
<1>7. OwnLooks'
  BY DEF OwnLooks, Alone, LooksOwn
<1>8. KeptClips'
  BY ReplacedEntries DEF KeptClips, Saves
<1>9. KeptSounds'
  BY ReplacedEntries, SceneKeyNames DEF KeptSounds, OwnClip, Alone
<1> QED BY <1>1, <1>2, <1>3, <1>4, <1>5, <1>6, <1>7, <1>8, <1>9 DEF DrawInv

\* The film is made of the clips that are there.
LEMMA JoinKeeps ==
  ASSUME DrawInv, NEW w \in Workers, Join(w)
  PROVE  DrawInv'
<1>1. ClipsTyped'
  BY JoinsClips
<1>2. FilmShowsItsOwn'
  BY JoinsOwn
<1> USE DEF DrawInv, Join, At, Edition, Idle, workspace
<1>3. PagesTyped' /\ FramesTyped' /\ HasEdition' /\ HasBatch' /\ Saves'
  BY DEF PagesTyped, FramesTyped, HasEdition, HasBatch, Saves
<1>4. OneDraws' /\ OwnBatch' /\ OwnDocument' /\ OwnPages' /\ OwnPaint'
  BY DEF OneDraws, Alone, OwnBatch, OwnDocument, OwnPages, Page, OwnPaint
<1>5. OwnFrames' /\ OwnPictures' /\ OwnClip' /\ KeptFrames' /\ KeptClips'
  BY DEF OwnFrames, Alone, Page, OwnPictures, OwnClip, KeptFrames, KeptClips
<1>6. KeptSounds'
  BY DEF KeptSounds
<1>7. WorkersTyped'
  BY DEF WorkersTyped, WorkerRow, Working, APage
<1>8. OwnSounds'
  BY DEF OwnSounds, Alone, WorkersTyped, OneDraws
<1>9. OwnLooks'
  BY DEF OwnLooks, Alone, WorkersTyped, OneDraws
<1> QED BY <1>1, <1>2, <1>3, <1>4, <1>5, <1>6, <1>7, <1>8, <1>9 DEF DrawInv

\* Who stops leaves the workspace.
LEMMA RenderStopsKeeps ==
  ASSUME DrawInv, NEW w \in Workers, RenderStops(w)
  PROVE  DrawInv'
<1> USE DEF DrawInv, RenderStops, Idle, workspace
<1>1. PagesTyped' /\ FramesTyped' /\ ClipsTyped' /\ HasEdition' /\ HasBatch'
  BY DEF PagesTyped, FramesTyped, ClipsTyped, HasEdition, Edition, HasBatch
<1>2. Saves' /\ OneDraws' /\ OwnBatch' /\ OwnDocument' /\ OwnPages'
  BY DEF Saves, OneDraws, Alone, OwnBatch, At, Edition, OwnDocument, OwnPages, Page
<1>3. OwnPaint' /\ OwnFrames' /\ OwnPictures' /\ OwnClip' /\ KeptFrames'
  BY DEF OwnPaint, Alone, At, Page, OwnFrames, OwnPictures, OwnClip, Edition, KeptFrames
<1>4. KeptClips' /\ KeptSounds' /\ FilmShowsItsOwn'
  BY DEF KeptClips, KeptSounds, FilmShowsItsOwn
<1>5. WorkersTyped'
  BY DEF WorkersTyped, WorkerRow, Working, APage
<1>6. OwnSounds'
  BY DEF OwnSounds, Alone, Edition, WorkersTyped, OneDraws
<1>7. OwnLooks'
  BY DEF OwnLooks, Alone, Edition, WorkersTyped, OneDraws
<1> QED BY <1>1, <1>2, <1>3, <1>4, <1>5, <1>6, <1>7 DEF DrawInv

\* Nothing happens.
LEMMA RestKeepsDrawing ==
  ASSUME DrawInv, UNCHANGED drawVars
  PROVE  DrawInv'
<1> USE DEF DrawInv, drawVars, workspace
<1>1. WorkersTyped' /\ PagesTyped' /\ FramesTyped' /\ ClipsTyped' /\ HasEdition'
  BY DEF WorkersTyped, PagesTyped, FramesTyped, ClipsTyped, HasEdition, Edition
<1>2. HasBatch' /\ Saves' /\ OneDraws' /\ OwnBatch' /\ OwnDocument'
  BY DEF HasBatch, Saves, OneDraws, Alone, OwnBatch, At, Edition, OwnDocument
<1>3. OwnPages' /\ OwnPaint' /\ OwnFrames' /\ OwnPictures' /\ OwnClip'
  BY DEF OwnPages, Alone, At, Page, Edition, OwnPaint, OwnFrames, OwnPictures, OwnClip
<1>4. KeptFrames' /\ KeptClips' /\ KeptSounds' /\ FilmShowsItsOwn'
  BY DEF KeptFrames, KeptClips, KeptSounds, FilmShowsItsOwn
<1>5. OwnSounds'
  BY DEF OwnSounds, Alone, SoundsOwn, Edition
<1>6. OwnLooks'
  BY DEF OwnLooks, Alone, LooksOwn, Edition
<1> QED BY <1>1, <1>2, <1>3, <1>4, <1>5, <1>6 DEF DrawInv

\* Every step keeps it.
LEMMA DrawSteps == DrawInv /\ [DrawNext]_drawVars => DrawInv'
<1> SUFFICES ASSUME DrawInv, [DrawNext]_drawVars PROVE DrawInv'
    OBVIOUS
<1>1. CASE DrawNext
  <2>1. PICK w \in Workers : RenderBegins(w) \/ Draw(w) \/ RenderStops(w)
    BY <1>1 DEF DrawNext
  <2>2. CASE RenderBegins(w)
    BY <2>2, RenderBeginsKeeps
  <2>3. CASE NodeWrites(w)
    BY <2>3, NodeWritesKeeps
  <2>4. CASE ReadPages(w)
    BY <2>4, ReadPagesKeeps
  <2>5. CASE Paint(w)
    BY <2>5, PaintKeeps
  <2>6. CASE Painted(w)
    BY <2>6, PaintedKeeps
  <2>7. CASE KeepFrame(w)
    BY <2>7, KeepFrameKeeps
  <2>8. CASE PlaceFrames(w)
    BY <2>8, PlaceFramesKeeps
  <2>9. CASE EncodeHit(w)
    BY <2>9, EncodeHitKeeps
  <2>10. CASE EncodeMiss(w)
    BY <2>10, EncodeMissKeeps
  <2>11. CASE SaveClip(w)
    BY <2>11, SaveClipKeeps
  <2>12. CASE Join(w)
    BY <2>12, JoinKeeps
  <2>13. CASE RenderStops(w)
    BY <2>13, RenderStopsKeeps
  <2> QED BY <2>1, <2>2, <2>3, <2>4, <2>5, <2>6, <2>7, <2>8, <2>9, <2>10, <2>11, <2>12, <2>13 DEF Draw
<1>2. CASE UNCHANGED drawVars
  BY <1>2, RestKeepsDrawing
<1> QED BY <1>1, <1>2

---------------------------------------------------------------------------
(* The theorem.                                                            *)

\* A film drawn while nobody else drew sounds as its edition says, and every scene it encoded itself
\* looks as its edition says, whatever was drawn, corrected or killed before in the same workspace: for
\* any workers, editions, scenes, looks and sounds, and any number of films.  Nothing is said of the
\* look of a clip from the scene cache, whose key does not tell a corrected picture (compositor.py:80),
\* nor of entries that two workers at once put into a cache.
THEOREM DrawnAloneIsItsOwn == DrawSpec => []FilmShowsItsOwn
<1>1. DrawSpec => []DrawInv
  BY DrawBegins, DrawSteps, PTL DEF DrawSpec
<1>2. DrawInv => FilmShowsItsOwn
  BY DEF DrawInv
<1> QED BY <1>1, <1>2, PTL

=============================================================================
