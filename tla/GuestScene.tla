----------------------------- MODULE GuestScene -----------------------------
(***************************************************************************)
(* The scene the driver traces.  The stage extension publishes the meshes  *)
(* of the USD stage in a file; vkQueueSubmit builds the application's      *)
(* top-level structure from them when the application has built none, and  *)
(* keeps the Metal resources of each mesh in a cache keyed by content, its *)
(* textures shared and counted.  The host may refuse any request on the    *)
(* way.  One device; pixels and transforms are abstract.                   *)
(***************************************************************************)
EXTENDS Integers, Sequences, FiniteSets, Functions, Tables

CONSTANTS
  Manifests,     \* what may be published: [meshes, lights], each mesh
                 \*   [shape, authored, textures, descriptor]
  TopLevels,     \* handles of top-level acceleration structures
  BottomLevels,  \* handles of the application's other structures
  Shapes,        \* triangle counts and bounds, as far as they tell meshes apart
  MaxSequence,   \* bound on meshSequence
  MaxRequests,   \* no submit makes more requests than this
  MaxResource    \* bound on the host's resource IDs

NoHandle == "none"

ASSUME SceneAssumption ==
  /\ MaxSequence \in Nat /\ MaxRequests \in Nat /\ MaxResource \in Nat
  /\ TopLevels \cap BottomLevels = {} /\ NoHandle \notin TopLevels
  /\ \A m \in Manifests :
       /\ m.meshes \in Seq(Range(m.meshes)) /\ m.lights \in Seq(Range(m.lights))
       /\ \A mesh \in Range(m.meshes) : mesh.textures \in Seq(Range(mesh.textures))

VARIABLES
  published,   \* the scene file: [sequence, manifest], sequence 0 for none
  device,      \* the device exists
  structures,  \* gState.accelerationStructuresKHR
  sceneMeshes, \* gState.sceneMetalMeshes
  sceneTextures, \* gState.sceneMetalTextures: [content, refs] by resource ID
  host,        \* the host's live resources: the children of each
  pinned,      \* of these, what an unfinished command of the host's holds
  nextResource,
  submit,      \* the submit that builds, and has yet to trace: what it read
  traced       \* the last submit: its result, and the structure it traced

cacheVars == <<sceneMeshes, sceneTextures, host, pinned, nextResource>>
sceneVars == <<published, device, structures, sceneMeshes, sceneTextures, host, pinned,
               nextResource, submit, traced>>

NoScene == [sequence |-> 0, manifest |-> [meshes |-> <<>>, lights |-> <<>>]]
NoSubmit == [scene |-> NoScene, top |-> NoHandle]
NotTraced == [result |-> "none", structure |-> NoHandle]

SceneInit ==
  /\ published = NoScene
  /\ device = FALSE
  /\ structures = EmptyTable
  /\ sceneMeshes = {}
  /\ sceneTextures = EmptyTable
  /\ host = EmptyTable
  /\ pinned = {}
  /\ nextResource = 1
  /\ submit = NoSubmit
  /\ traced = NotTraced

----------------------------------------------------------------------------
(* Requests.  A handler works on a record of the state it changes, with    *)
(* the number of requests the host still grants it; once one is refused    *)
(* "ok" is FALSE and nothing more is asked for.  "made" and "held" are the *)
(* resources and textures of the mesh, or trace, in hand.                  *)

Working(grants) ==
  [host |-> host, pinned |-> pinned, next |-> nextResource, textures |-> sceneTextures,
   meshes |-> sceneMeshes, grants |-> grants, ok |-> TRUE, made |-> {}, held |-> <<>>]

Request(w) ==
  IF w.ok /\ w.grants > 0 THEN [w EXCEPT !.grants = @ - 1] ELSE [w EXCEPT !.ok = FALSE]

NewResource(w) ==
  LET r == Request(w)
  IN  IF ~r.ok THEN r
      ELSE [r EXCEPT !.host = Put(@, w.next, {}), !.next = @ + 1, !.made = @ \cup {w.next}]

\* The host refuses to destroy what is pinned; the driver does not mind, and
\* forgets the resource all the same.
Destroyed(w, ids) == [w EXCEPT !.host = [id \in DOMAIN @ \ (ids \ w.pinned) |-> @[id]]]

\* acquireSceneTextureResourceLocked
AcquireTexture(w, content) ==
  LET cached  == {id \in DOMAIN w.textures : w.textures[id].content = content}
      shared  == CHOOSE id \in cached : TRUE
      created == Request(w)
      written == Request(created)
  IN  IF ~w.ok THEN w
      ELSE IF cached # {}
      THEN [w EXCEPT !.textures[shared].refs = @ + 1, !.held = Append(@, shared)]
      ELSE IF ~written.ok
      THEN [written EXCEPT !.next = IF created.ok THEN @ + 1 ELSE @]
      ELSE [written EXCEPT !.host = Put(@, w.next, {}), !.next = @ + 1,
                           !.textures = Put(@, w.next, [content |-> content, refs |-> 1]),
                           !.held = Append(@, w.next)]

AcquireAll(w, contents) ==
  LET after[n \in 0 .. Len(contents)] ==
        IF n = 0 THEN w ELSE AcquireTexture(after[n - 1], contents[n])
  IN  after[Len(contents)]

\* releaseSceneTextureResourceLocked, lost[id] times for each texture: the last
\* use of one takes it away.
ReleaseUses(w, lost) ==
  LET unused == {id \in DOMAIN w.textures : lost[id] > 0 /\ w.textures[id].refs <= lost[id]}
      left   == DOMAIN w.textures \ unused
  IN  Destroyed([w EXCEPT !.textures =
                   [id \in left |-> [content |-> @[id].content, refs |-> @[id].refs - lost[id]]]],
                unused)

\* The slots of meshes, and of what is in hand, that name a texture.
Slots(e, id) == {<<e.resource, i>> : i \in {j \in DOMAIN e.textures : e.textures[j] = id}}
SlotsOf(meshes, id) == UNION {Slots(e, id) : e \in meshes}
Holding(held, id) == {i \in DOMAIN held : held[i] = id}

ReleaseHeld(w) ==
  ReleaseUses(w, [id \in DOMAIN w.textures |-> Cardinality(Holding(w.held, id))])

\* Vertices interleaved with attributes need no index buffer.
Interleaved(mesh) == mesh.textures # <<>>
CreateBuffers(w, mesh) ==
  IF Interleaved(mesh) THEN NewResource(w) ELSE NewResource(NewResource(w))
FillBuffers(w, mesh) == IF Interleaved(mesh) THEN Request(w) ELSE Request(Request(w))

\* Mutant: what was acquired before the failure is not given back.
UndoKeepingTextures(w) == Destroyed(w, w.made)

\* destroyCreatedResources
Undo(w) == ReleaseHeld(Destroyed(w, w.made))

Cached(w, mesh) == {e \in w.meshes : e.mesh = mesh}

Described(w, mesh) == IF mesh.descriptor THEN Request(NewResource(w)) ELSE w

\* The structure is what was made last.
Entry(w, mesh) ==
  [mesh |-> mesh, resource |-> w.next - 1, buffers |-> w.made \ {w.next - 1}, textures |-> w.held]

\* What the requests for a mesh come to.
Kept(w, mesh) == IF ~w.ok THEN Undo(w) ELSE [w EXCEPT !.meshes = @ \cup {Entry(w, mesh)}]

\* bridgeSceneMeshAccelerationStructureLocked
MeshStructure(w, mesh) ==
  LET fresh    == [w EXCEPT !.made = {}, !.held = <<>>]
      textured == AcquireAll(CreateBuffers(fresh, mesh), mesh.textures)
      filled   == FillBuffers(Described(textured, mesh), mesh)
      built    == Request(NewResource(filled))
  IN  IF Cached(w, mesh) # {} THEN w ELSE Kept(built, mesh)

ResourceOf(w, mesh) == (CHOOSE e \in w.meshes : e.mesh = mesh).resource

----------------------------------------------------------------------------
(* bridgeFallbackInstanceAccelerationStructureBuildLocked.                 *)

Tops == DOMAIN structures \cap TopLevels
Built(s) == structures[s].built
SceneBuilt == {s \in Tops : Built(s) /\ structures[s].fromScene}
Native == {s \in Tops : Built(s) /\ ~structures[s].fromScene}

\* The one built from the scene before, else the first of the table.
Candidates == IF SceneBuilt # {} THEN SceneBuilt ELSE Tops

\* The application's structures that look like a mesh without geometry.
Matches(mesh, taken) ==
  {structures[b].resource : b \in {c \in DOMAIN structures \cap BottomLevels :
                                    Built(c) /\ structures[c].shape = mesh.shape}} \ taken

Smallest(ids) == CHOOSE id \in ids : \A other \in ids : id <= other

\* One mesh of the manifest, for which the driver has "w" now: "children" so
\* far, and of them the scene's own.
Joined(walk, mesh, w) ==
  LET looks == Matches(mesh, walk.children)
  IN  IF mesh.authored
      THEN IF ~w.ok THEN [walk EXCEPT !.w = w]
           ELSE [w |-> w, children |-> walk.children \cup {ResourceOf(w, mesh)},
                 active |-> walk.active \cup {ResourceOf(w, mesh)}]
      ELSE IF looks = {} THEN walk
      ELSE [walk EXCEPT !.children = @ \cup {Smallest(looks)}]
Instanced(walk, mesh) ==
  IF ~walk.w.ok THEN walk ELSE Joined(walk, mesh, MeshStructure(walk.w, mesh))

Walk(w, meshes) ==
  LET after[n \in 0 .. Len(meshes)] ==
        IF n = 0 THEN [w |-> w, children |-> {}, active |-> {}]
        ELSE Instanced(after[n - 1], meshes[n])
  IN  after[Len(meshes)]

\* What a mesh of the cache has of the host, its textures apart.
Own(e) == {e.resource} \cup e.buffers

\* The cached meshes the new structure does not use
Reclaimed(w, active) ==
  LET gone == {e \in w.meshes : e.resource \notin active}
  IN  ReleaseUses(
        Destroyed([w EXCEPT !.meshes = @ \ gone], UNION {Own(e) : e \in gone}),
        [id \in DOMAIN w.textures |-> Cardinality(SlotsOf(gone, id))])

\* Mutant: the cache is cleaned before the host has built the structure.
BuildAfterReclaim(w, top, walk) ==
  LET request == Request(Reclaimed(w, walk.active))
  IN  IF ~request.ok THEN request
      ELSE [request EXCEPT !.host[structures[top].resource] = walk.children]

\* The host builds the structure, then what it no longer needs is reclaimed.
BuildFallback(w, top, walk) ==
  LET request == Request(w)
  IN  IF ~request.ok THEN request
      ELSE Reclaimed([request EXCEPT !.host[structures[top].resource] = walk.children], walk.active)

\* Mutant: a structure built from the scene once is never built again.
CurrentOnce(top) == Built(top) /\ structures[top].fromScene

Current(top) ==
  Built(top) /\ structures[top].fromScene /\ structures[top].sequence = published.sequence

\* What the fallback makes of the top-level structure it chose.
FallbackOf(w, top, walk) ==
  LET built == BuildFallback(walk.w, top, walk)
  IN  IF Current(top) THEN [result |-> "built", w |-> w, top |-> NoHandle]
      ELSE IF ~walk.w.ok THEN [result |-> "failed", w |-> walk.w, top |-> NoHandle]
      ELSE IF walk.children = {} THEN [result |-> "absent", w |-> walk.w, top |-> NoHandle]
      ELSE IF ~built.ok THEN [result |-> "failed", w |-> built, top |-> NoHandle]
      ELSE [result |-> "built", w |-> built, top |-> top]
Fallback(w, top) == FallbackOf(w, top, Walk(w, published.manifest.meshes))

FallbackBuilds(w) ==
  IF Native # {} THEN {[result |-> "built", w |-> w, top |-> NoHandle]}
  ELSE IF Tops = {} THEN {[result |-> "absent", w |-> w, top |-> NoHandle]}
  ELSE {Fallback(w, top) : top \in Candidates}

----------------------------------------------------------------------------
(* The scene trace of vkQueueSubmit.                                       *)

\* The structure a descriptor names, else the first built one of the table.
Traceable(top) ==
  {s \in Tops : Built(s)} \cup (IF top = NoHandle THEN {} ELSE {top})

\* What the host's command names, and pins until its fence is waited for.
Pin(w, s) == [w EXCEPT !.pinned = @ \cup {structures[s].resource} \cup Range(w.held)]

\* submitRayTrace, waitFence and readImage: a wait that is refused leaves the
\* command unfinished for good.
Awaited(w, s) ==
  LET submitted == Request(w)
      waited    == Request(submitted)
  IN  IF submitted.ok /\ ~waited.ok THEN Pin(waited, s) ELSE Request(waited)

\* Light textures are the trace's own; a guard gives them back at its end.
\* The host refuses a structure that lost a child.
Traced(w, s) ==
  LET lit    == AcquireAll([w EXCEPT !.held = <<>>], published.manifest.lights)
      whole  == lit.host[structures[s].resource] \subseteq DOMAIN lit.host
      done   == Awaited(IF whole THEN lit ELSE [lit EXCEPT !.ok = FALSE], s)
  IN  [ReleaseHeld(done) EXCEPT !.held = <<>>]

\* What a handler leaves.
Becomes(w) ==
  /\ w.next <= MaxResource + 1
  /\ host' = w.host
  /\ pinned' = w.pinned
  /\ nextResource' = w.next
  /\ sceneTextures' = w.textures
  /\ sceneMeshes' = w.meshes

\* Structure "top" was built from the published scene.
FromScene(top) ==
  IF top = NoHandle THEN structures
  ELSE [structures EXCEPT ![top].built = TRUE, ![top].fromScene = TRUE,
                          ![top].sequence = published.sequence]

\* A submit of a trace with the scene's ray generation shader, up to the
\* structure it traces.  It reads the scene file here, and again to trace.
SubmitScene(grants) ==
  /\ device /\ submit = NoSubmit
  /\ IF published.sequence = 0
     THEN /\ UNCHANGED <<structures, cacheVars, submit>>
          /\ traced' = [result |-> "deferred", structure |-> NoHandle]
     ELSE \E f \in FallbackBuilds(Working(grants)) :
            /\ Becomes(f.w)
            /\ IF f.result # "built"
               THEN /\ UNCHANGED <<structures, submit>>
                    /\ traced' = [result |-> f.result, structure |-> NoHandle]
               ELSE /\ structures' = FromScene(f.top)
                    /\ submit' = [scene |-> published, top |-> f.top]
                    /\ traced' = NotTraced
  /\ UNCHANGED <<published, device>>

\* A texture takes two requests, the trace three.
TraceRequests == 2 * Len(published.manifest.lights) + 3

TraceScene(grants) ==
  /\ submit # NoSubmit
  /\ \E s \in Traceable(submit.top) :
       LET w == Traced(Working(grants), s)
       IN  /\ Becomes(w)
           /\ traced' = [result |-> IF w.ok THEN "acknowledged" ELSE "failed", structure |-> s]
  /\ submit' = NoSubmit
  /\ UNCHANGED <<published, device, structures>>

----------------------------------------------------------------------------
(* The stage extension, which publishes whatever the driver is doing, and  *)
(* what the application does by itself: its calls wait for the submit.     *)

Unsubmitted == submit = NoSubmit /\ submit' = NoSubmit /\ traced' = NotTraced

\* The scene changed: a new sequence, and the file replaced in one step.
Publish(m) ==
  /\ published.manifest # m \/ published.sequence = 0
  /\ published.sequence < MaxSequence
  /\ published' = [sequence |-> published.sequence + 1, manifest |-> m]
  /\ traced' = NotTraced
  /\ UNCHANGED <<device, structures, cacheVars, submit>>

CreateDevice ==
  /\ ~device
  /\ device' = TRUE
  /\ Unsubmitted
  /\ UNCHANGED <<published, structures, cacheVars>>

\* vkDestroyDevice; the application has destroyed its structures before.
DestroyDevice ==
  /\ device /\ DOMAIN structures = {}
  /\ device' = FALSE
  /\ Becomes(Reclaimed(Working(0), {}))
  /\ Unsubmitted
  /\ UNCHANGED <<published, structures>>

CreateStructure(s) ==
  /\ device /\ s \notin DOMAIN structures
  /\ Becomes(NewResource(Working(1)))
  /\ structures' = Put(structures, s,
       [resource |-> nextResource, built |-> FALSE, fromScene |-> FALSE, sequence |-> 0, shape |-> NoHandle])
  /\ Unsubmitted
  /\ UNCHANGED <<published, device>>

DestroyStructure(s) ==
  /\ s \in DOMAIN structures
  /\ structures' = Drop(structures, s)
  /\ Becomes(Destroyed(Working(0), {structures[s].resource}))
  /\ Unsubmitted
  /\ UNCHANGED <<published, device>>

\* Replayed builds of the application's own, once the host has done them.
BuildStructure(s, children, shape) ==
  /\ structures' = [structures EXCEPT ![s].built = TRUE, ![s].fromScene = FALSE,
                                      ![s].sequence = 0, ![s].shape = shape]
  /\ Becomes([Working(0) EXCEPT !.host[structures[s].resource] = children])
  /\ Unsubmitted
  /\ UNCHANGED <<published, device>>

BuildPrimitive(b, shape) ==
  /\ b \in DOMAIN structures \cap BottomLevels
  /\ BuildStructure(b, {}, shape)

BuildInstance(t, bottoms) ==
  /\ t \in Tops /\ bottoms # {}
  /\ bottoms \subseteq {b \in DOMAIN structures \cap BottomLevels : Built(b)}
  /\ BuildStructure(t, {structures[b].resource : b \in bottoms}, NoHandle)

Application ==
  \/ CreateDevice
  \/ DestroyDevice
  \/ \E s \in TopLevels \cup BottomLevels : CreateStructure(s) \/ DestroyStructure(s)
  \/ \E b \in BottomLevels, shape \in Shapes : BuildPrimitive(b, shape)
  \/ \E t \in TopLevels, bottoms \in SUBSET BottomLevels : BuildInstance(t, bottoms)

Publisher == \E m \in Manifests : Publish(m)

SceneNext ==
  \/ Application \/ Publisher
  \/ \E grants \in 0 .. MaxRequests : SubmitScene(grants)
  \/ \E grants \in 0 .. TraceRequests : TraceScene(grants)

SceneSpec == SceneInit /\ [][SceneNext]_sceneVars

----------------------------------------------------------------------------

\* What the driver's tables name of the host: the application's structures,
\* the cached meshes and the cached textures.
Remembered ==
  {structures[s].resource : s \in DOMAIN structures}
    \cup (UNION {Own(e) : e \in sceneMeshes}) \cup DOMAIN sceneTextures

\* All of it is there, and the host keeps nothing else but what a command
\* whose wait failed still holds: a mesh that could not be finished leaves
\* nothing behind.
HostAccounted == DOMAIN host = Remembered \cup pinned

\* A texture counts the slots of cached meshes that name it, and every slot
\* names a texture that is there.
TexturesCounted ==
  /\ \A e \in sceneMeshes : Range(e.textures) \subseteq DOMAIN sceneTextures
  /\ \A id \in DOMAIN sceneTextures :
       LET uses == Cardinality(SlotsOf(sceneMeshes, id))
       IN  sceneTextures[id].refs = uses /\ uses > 0

\* Whatever request is refused, the driver names no resource of the host that
\* is gone, and forgets none that the host would have destroyed.
ResourcesAccounted == HostAccounted /\ TexturesCounted

\* A mesh of the cache that a structure built from the scene instances is
\* not reclaimed, whatever request was refused.
SceneGeometryKept ==
  [][\A e \in sceneMeshes, s \in DOMAIN structures' :
       structures'[s].fromScene /\ e.resource \in host'[structures'[s].resource]
         => e \in sceneMeshes']_sceneVars

\* As long as the application has built no top-level structure itself, a
\* trace that is acknowledged showed the geometry last published when its
\* submit read the scene, whatever was published since.
Shown == {e.mesh : e \in {x \in sceneMeshes : x.resource \in host[structures[traced.structure].resource]}}
Authored(manifest) == {m \in Range(manifest.meshes) : m.authored}
TracesShowScene ==
  [][traced'.result = "acknowledged" /\ Native' = {} =>
       Shown' = Authored(submit.scene.manifest)]_sceneVars

=============================================================================
