----------------------------- MODULE FilmDrawing -----------------------------
(***************************************************************************)
(* Drawing exported films (adapters/film/render.py and filmkit's browser,  *)
(* compositor, cachestore and files).  Render workers are processes, and   *)
(* all of them use one workspace: documents, frames and clips named after  *)
(* a scene, and two caches that outlive every film.                        *)
(*                                                                         *)
(* An edition is an export the renderer accepted.  A correction exported   *)
(* again is another edition with the same scenes and the same recordings;  *)
(* the opening card of every film is a scene "opening".                    *)
(***************************************************************************)
EXTENDS Naturals, FiniteSets

CONSTANTS
  Workers,
  Editions,
  Scenes,          \* scene ids
  Looks(_, _),     \* what an edition's scene looks like, on paper
  Sounds(_, _),    \* what is heard over it; its length fixes the scene's
  Blank,           \* nothing there
  MaxRenders       \* bound: films begun

VARIABLES
  batch,      \* world-scenes.json
  document,   \* the page of a scene
  frame,      \* the picture of a scene, by its name
  clip,       \* the encoded scene, by its name
  frameCache, sceneCache,
  reel,       \* the film at each edition's destination
  worker,     \* where a worker is, with which edition, the pages it read, those to be
              \* painted, what its loop has not reached, and the scene it encoded last
  renders,
  crossed,    \* history: workers another one worked beside
  soiled      \* history: what such a worker put into a cache

workspace == <<batch, document, frame, clip, frameCache, sceneCache>>
drawVars == <<workspace, reel, worker, renders, crossed, soiled>>

Working == {"node", "pages", "paint", "keep", "place", "encode", "save", "join"}
Idle == [at |-> "idle", edition |-> Blank, pages |-> [s \in Scenes |-> Blank], todo |-> {}, left |-> {}, now |-> Blank]
Busy == {w \in Workers : worker[w].at # "idle"}

DrawInit ==
  /\ batch = Blank /\ reel = [e \in Editions |-> Blank]
  /\ document = [s \in Scenes |-> Blank] /\ frame = [s \in Scenes |-> Blank]
  /\ clip = [s \in Scenes |-> Blank]
  /\ frameCache = {} /\ sceneCache = {}
  /\ worker = [w \in Workers |-> Idle]
  /\ renders = 0 /\ crossed = {} /\ soiled = {}

\* A cache: a set of keys with what is under them; a later copy replaces the entry.
Found(cache, key) == \E entry \in cache : entry.key = key
Under(cache, key) == (CHOOSE entry \in cache : entry.key = key).holds
Replaced(cache, key, what) ==
  {entry \in cache : entry.key # key} \cup {[key |-> key, holds |-> what]}

\* A slip: a page is known by its scene.
FrameKeyByScene(s, page) == <<"frame", s, s>>
FrameKey(s, page) == <<"frame", s, page>>

\* The frame counts by its name alone, which is the scene's.
SceneKey(e, s) == <<"scene", s, Sounds(e, s)>>

At(w, there) == worker[w].at = there
Edition(w) == worker[w].edition
Page(w, s) == worker[w].pages[s]
Turns(w, there, some) == worker' = [worker EXCEPT ![w] = [@ EXCEPT !.at = there, !.left = some]]
Done(w, s) == worker' = [worker EXCEPT ![w].left = @ \ {s}]

---------------------------------------------------------------------------
RenderBegins(w) ==
  /\ At(w, "idle") /\ renders < MaxRenders /\ renders' = renders + 1
  /\ \E e \in Editions :
       worker' = [worker EXCEPT ![w] = [Idle EXCEPT !.at = "node", !.edition = e]] /\ batch' = e
  /\ crossed' = IF Busy = {} THEN crossed \ {w} ELSE crossed \cup Busy \cup {w}
  /\ UNCHANGED <<document, frame, clip, frameCache, sceneCache, reel, soiled>>

\* Node reads the batch that is there and writes a page for each of its scenes.
NodeWrites(w) ==
  /\ At(w, "node")
  /\ document' = [s \in Scenes |-> Looks(batch, s)]
  /\ Turns(w, "pages", {})
  /\ UNCHANGED <<batch, frame, clip, frameCache, sceneCache, reel, renders, crossed, soiled>>

\* Frames already in the cache are not painted.
Unpainted(pages) == {s \in Scenes : ~Found(frameCache, FrameKey(s, pages[s]))}

ReadPages(w) ==
  /\ At(w, "pages")
  /\ worker' = [worker EXCEPT ![w] =
       [at |-> "paint", edition |-> Edition(w), pages |-> document,
        todo |-> Unpainted(document), left |-> Unpainted(document), now |-> worker[w].now]]
  /\ UNCHANGED <<workspace, reel, renders, crossed, soiled>>

\* One browser paints all that are missing before any is kept.
Paint(w) ==
  /\ At(w, "paint")
  /\ \E s \in worker[w].left : frame' = [frame EXCEPT ![s] = Page(w, s)] /\ Done(w, s)
  /\ UNCHANGED <<batch, document, clip, frameCache, sceneCache, reel, renders, crossed, soiled>>

Painted(w) ==
  /\ At(w, "paint") /\ worker[w].left = {}
  /\ Turns(w, "keep", worker[w].todo)
  /\ UNCHANGED <<workspace, reel, renders, crossed, soiled>>

Soils(w, key) == soiled' = IF w \in crossed THEN soiled \cup {key} ELSE soiled

\* atomic_copy of the file by the scene's name, whoever painted it last.
KeepFrame(w) ==
  /\ At(w, "keep")
  /\ \E s \in worker[w].left :
       /\ frameCache' = Replaced(frameCache, FrameKey(s, Page(w, s)), frame[s])
       /\ Soils(w, FrameKey(s, Page(w, s)))
       /\ Done(w, s)
  /\ UNCHANGED <<batch, document, frame, clip, sceneCache, reel, renders, crossed>>

PlaceFrames(w) ==
  /\ At(w, "keep") /\ worker[w].left = {}
  /\ frame' = [s \in Scenes |-> Under(frameCache, FrameKey(s, Page(w, s)))]
  /\ Turns(w, "encode", Scenes)
  /\ UNCHANGED <<batch, document, clip, frameCache, sceneCache, reel, renders, crossed, soiled>>

EncodeHit(w) ==
  /\ At(w, "encode")
  /\ \E s \in worker[w].left :
       /\ Found(sceneCache, SceneKey(Edition(w), s))
       /\ clip' = [clip EXCEPT ![s] = [Under(sceneCache, SceneKey(Edition(w), s)) EXCEPT !.cached = TRUE]]
       /\ Done(w, s)
  /\ UNCHANGED <<batch, document, frame, frameCache, sceneCache, reel, renders, crossed, soiled>>

EncodeMiss(w) ==
  /\ At(w, "encode")
  /\ \E s \in worker[w].left :
       /\ ~Found(sceneCache, SceneKey(Edition(w), s))
       /\ clip' = [clip EXCEPT ![s] =
            [look |-> frame[s], sound |-> Sounds(Edition(w), s), cached |-> FALSE]]
       /\ worker' = [worker EXCEPT ![w] =
            [at |-> "save", edition |-> Edition(w), pages |-> worker[w].pages,
             todo |-> worker[w].todo, left |-> worker[w].left \ {s}, now |-> s]]
  /\ UNCHANGED <<batch, document, frame, frameCache, sceneCache, reel, renders, crossed, soiled>>

\* atomic_copy again, of whatever the scene's name now holds.
SaveClip(w) ==
  /\ At(w, "save")
  /\ LET s == worker[w].now  key == SceneKey(Edition(w), s)
     IN  /\ sceneCache' = Replaced(sceneCache, key, clip[s])
         /\ Soils(w, key)
  /\ worker' = [worker EXCEPT ![w].at = "encode"]
  /\ UNCHANGED <<batch, document, frame, clip, frameCache, reel, renders, crossed>>

\* concat, probe and the manifest.
Join(w) ==
  /\ At(w, "encode") /\ worker[w].left = {}
  /\ reel' = [reel EXCEPT ![Edition(w)] = [parts |-> clip, alone |-> w \notin crossed]]
  /\ worker' = [worker EXCEPT ![w] = Idle]
  /\ UNCHANGED <<workspace, renders, crossed, soiled>>

\* Any step may raise, and any worker may be killed; the workspace stays as it is.
RenderStops(w) ==
  /\ worker[w].at # "idle"
  /\ worker' = [worker EXCEPT ![w] = Idle]
  /\ UNCHANGED <<workspace, reel, renders, crossed, soiled>>

Draw(w) == \/ NodeWrites(w) \/ ReadPages(w) \/ Paint(w) \/ Painted(w) \/ KeepFrame(w)
           \/ PlaceFrames(w) \/ EncodeHit(w) \/ EncodeMiss(w) \/ SaveClip(w) \/ Join(w)

DrawNext == \E w \in Workers : RenderBegins(w) \/ Draw(w) \/ RenderStops(w)

DrawSpec == DrawInit /\ [][DrawNext]_drawVars

---------------------------------------------------------------------------
(* Properties                                                              *)

DrawTypeOK ==
  /\ \A w \in Workers : worker[w].at \in Working \cup {"idle"} /\ worker[w].left \subseteq Scenes
  /\ \A e \in Editions : reel[e] = Blank \/ reel[e].parts \in
       [Scenes -> [look : {Looks(x, s) : x \in Editions, s \in Scenes},
                   sound : {Sounds(x, s) : x \in Editions, s \in Scenes}, cached : BOOLEAN]]
  /\ crossed \subseteq Workers /\ renders \in 0 .. MaxRenders

\* A film drawn while nobody else drew sounds as its edition says, and every scene it
\* encoded itself looks as its edition says, whatever was drawn, corrected or killed before
\* in the same workspace.  Nothing is said of the look of a clip from the scene cache, nor of
\* entries that two workers at once put into a cache.
FilmShowsItsOwn ==
  \A e \in Editions : reel[e] # Blank /\ reel[e].alone =>
    \A s \in Scenes :
      LET part == reel[e].parts[s]
      IN  /\ part.sound = Sounds(e, s) \/ SceneKey(e, s) \in soiled
          /\ part.look = Looks(e, s) \/ part.cached \/ FrameKey(s, Looks(e, s)) \in soiled

\* compositor.py, "Cached on everything that could change the picture": every film looks
\* as its edition says.
PicturesAreCurrent ==
  \A e \in Editions : reel[e] # Blank /\ reel[e].alone =>
    \A s \in Scenes : reel[e].parts[s].look = Looks(e, s)
=============================================================================
