--------------------------- MODULE BridgeSession ---------------------------
(***************************************************************************)
(* BridgeSession (host/Sources/IMBHostCore/BridgeSession.swift): the host  *)
(* end of one IMB connection.  handle(frame) is called with one frame at a *)
(* time and answers it before the next is read, so an action is one        *)
(* request and its reply; only WAIT_FENCE and the end of the session block *)
(* inside the backend, and are two actions each, with the GPU running in   *)
(* between.                                                                *)
(*                                                                         *)
(* Ghosts: uploadsBegun numbers the image uploads, so that a texture cell  *)
(* can say which of them wrote it; reply keeps what the last request was   *)
(* told.                                                                   *)
(***************************************************************************)
EXTENDS MetalBackend

CONSTANTS
    MaxResourceID,   \* bound: the last resource ID a run may issue
    MaxFenceID,      \* bound: the last fence ID a run may issue
    MaxUploads,      \* bound: the image uploads a run may begin
    ClientDescs,     \* the resources the client asks for
    HelloRanges      \* the version ranges clients offer in HELLO

\* A resource as the session remembers it; format is the acceleration
\* structure's type when that is its kind.
Resource ==
    [kind : {"buffer", "pipeline"}, format : {"none"}, sparse : {FALSE}]
        \cup [kind : {"image"}, format : Formats, sparse : BOOLEAN]
        \cup [kind : {"accel"}, format : AccelTypes, sparse : {FALSE}]

ASSUME SessionAssumption ==
    /\ MaxResourceID \in Nat
    /\ MaxFenceID \in Nat
    /\ MaxUploads \in Nat
    /\ ClientDescs \subseteq Resource
    /\ HelloRanges \subseteq [lo : Nat \X Nat, hi : Nat \X Nat]

VARIABLES
    phase,            \* where the session is in its life
    waiting,          \* the fence a WAIT_FENCE is blocked on; 0: none
    resources,        \* resource ID -> Resource
    imageUploads,     \* image ID -> the upload it has received a part of
    fences,           \* fences the client may wait for
    fenceResources,   \* fence -> the resources its command named
    nextResourceID,
    nextFenceID,
    uploadsBegun,     \* ghost
    reply             \* ghost

sessionTables == <<resources, imageUploads, fences, fenceResources>>
counters == <<nextResourceID, nextFenceID, uploadsBegun>>
sessionVars == <<phase, waiting, sessionTables, counters>>
vars == <<sessionVars, reply, mtlVars>>

Phases == {"hello", "serving", "waiting", "resetting", "closed"}
Requests == {"hello", "query", "createResource", "build", "destroyResource", "writeResource",
             "readResource", "submitCommand", "waitFence", "error"}
\* Error codes a property tells apart; "refused" stands for every other one.
Statuses == {"ok", "refused", "resourceInUse", "resourceNotFound", "gpuFailure"}
Replies == [type : Requests, id : Nat, status : Statuses]

Init ==
    /\ MtlInit
    /\ phase = "hello"
    /\ waiting = 0
    /\ resources = EmptyTable
    /\ imageUploads = EmptyTable
    /\ fences = {}
    /\ fenceResources = EmptyTable
    /\ nextResourceID = 1
    /\ nextFenceID = 1
    /\ uploadsBegun = 0
    /\ reply = [type |-> "error", id |-> 0, status |-> "refused"]

-----------------------------------------------------------------------------
(* Replies and lookups.                                                    *)

Serving == phase = "serving"

Answer(type, id, status) == reply' = [type |-> type, id |-> id, status |-> status]

\* A request that only reports changes nothing.
Report(type, id, status) ==
    /\ Answer(type, id, status)
    /\ UNCHANGED <<sessionVars, mtlVars>>

\* Any frame may be malformed, out of range, unknown, before its time or of the
\* wrong version, and any Metal allocation or compilation may fail: the request
\* is answered with an error and leaves no trace.
RefuseRequest ==
    /\ phase \in {"hello", "serving"}
    /\ Report("error", 0, "refused")

IsA(id, kind) == id \in DOMAIN resources /\ resources[id].kind = kind
AllAre(ids, kind) == \A id \in ids : IsA(id, kind)
OfKind(kind) == {id \in DOMAIN resources : resources[id].kind = kind}

Requested == 0..MaxResourceID

-----------------------------------------------------------------------------
(* Negotiation.                                                            *)

HostVersion == <<1, 22>>

NoLater(v, w) == v[1] < w[1] \/ (v[1] = w[1] /\ v[2] <= w[2])

Supported(range) == NoLater(range.lo, HostVersion) /\ NoLater(HostVersion, range.hi)

\* handleHello; a second HELLO is one of the refused requests.
Hello(range) ==
    /\ phase = "hello"
    /\ Supported(range)
    /\ phase' = "serving"
    /\ Answer("hello", 0, "ok")
    /\ UNCHANGED <<waiting, sessionTables, counters, mtlVars>>

\* QUERY_CAPABILITIES, PING, QUERY_SPARSE_IMAGE_PROPERTIES
Query ==
    /\ Serving
    /\ Report("query", 0, "ok")

-----------------------------------------------------------------------------
(* Resources.                                                              *)

\* Mutant: the lowest free ID is issued next, and so an old one again.
RegisterReusing(desc) ==
    /\ resources' = Put(resources, nextResourceID, desc)
    /\ nextResourceID' = CHOOSE id \in 1..(MaxResourceID + 1) :
                            /\ id \notin DOMAIN resources'
                            /\ 1..(id - 1) \subseteq DOMAIN resources'
    /\ Answer("createResource", nextResourceID, "ok")
    /\ UNCHANGED <<phase, waiting, imageUploads, fences, fenceResources,
                   nextFenceID, uploadsBegun, commandBuffers, mtlFrames, gpu>>

\* The one way an ID is issued: the backend created the object under it first.
Register(desc) ==
    /\ resources' = Put(resources, nextResourceID, desc)
    /\ nextResourceID' = nextResourceID + 1
    /\ Answer("createResource", nextResourceID, "ok")
    /\ UNCHANGED <<phase, waiting, imageUploads, fences, fenceResources,
                   nextFenceID, uploadsBegun, commandBuffers, mtlFrames, gpu>>

\* CREATE_RESOURCE knows RGBA32 float for sparse images only.
WellFormed(desc) ==
    desc.kind = "image" => desc.sparse \/ desc.format # "rgba32f"

MtlCreate(id, desc) ==
    CASE desc.kind = "buffer"   -> MtlCreateBuffer(id)
      [] desc.kind = "image"    -> MtlCreateImage(id, desc.format, desc.sparse)
      [] desc.kind = "pipeline" -> MtlCreateComputePipeline(id)
      [] OTHER                  -> MtlCreateAccelerationStructure(id, desc.format)

\* CREATE_RESOURCE, CREATE_COMPUTE_PIPELINE, CREATE_ACCELERATION_STRUCTURE
Create(desc) ==
    /\ Serving
    /\ WellFormed(desc)
    /\ nextResourceID <= MaxResourceID
    /\ CanCreate(nextResourceID, desc.kind)
    /\ MtlCreate(nextResourceID, desc)
    /\ Register(desc)

\* UPDATE_SPARSE_IMAGE_MAPPING moves tiles of the image's own heap and waits
\* for the GPU to have done so.
UpdateSparseImageMapping(id) ==
    /\ Serving
    /\ IsA(id, "image") /\ resources[id].sparse
    /\ id \in DOMAIN images
    /\ Report("query", id, "ok")

\* Mutant: only the newest command is looked at.
PinnedByNewest(id) ==
    nextFenceID - 1 \in DOMAIN fenceResources /\ id \in fenceResources[nextFenceID - 1]

Pinned(id) == \E f \in DOMAIN fenceResources : id \in fenceResources[f]

DestroyUnknown(id) ==
    /\ Serving
    /\ id \notin DOMAIN resources
    /\ Report("destroyResource", id, "resourceNotFound")

DestroyBusy(id) ==
    /\ Serving
    /\ id \in DOMAIN resources
    /\ Pinned(id)
    /\ Report("destroyResource", id, "resourceInUse")

DestroyResource(id) ==
    /\ Serving
    /\ id \in DOMAIN resources
    /\ ~Pinned(id)
    /\ CanDestroy(id, resources[id].kind)
    /\ MtlDestroy(id, resources[id].kind)
    /\ imageUploads' = Drop(imageUploads, id)
    /\ resources' = Drop(resources, id)
    /\ Answer("destroyResource", id, "ok")
    /\ UNCHANGED <<phase, waiting, fences, fenceResources, counters,
                   commandBuffers, mtlFrames, gpu>>

-----------------------------------------------------------------------------
(* Acceleration structure builds.                                          *)

BuildPrimitive(id, geometry) ==
    /\ Serving
    /\ IsA(id, "accel")
    /\ geometry # {} /\ AllAre(geometry, "buffer")
    /\ CanBuildPrimitive(id, geometry)
    /\ MtlBuildPrimitive(id)
    /\ Answer("build", id, "ok")
    /\ UNCHANGED <<sessionVars, buffers, images, computePipelines,
                   commandBuffers, mtlFrames, gpu>>

\* A structure may be an instance of another: never of itself, and never a
\* top-level one.
MayInstance(id, child) ==
    /\ child # id
    /\ IsA(child, "accel")
    /\ resources[child].format # "top"

BuildInstance(id, children, materials) ==
    /\ Serving
    /\ IsA(id, "accel") /\ resources[id].format # "bottom"
    /\ children # {} /\ \A c \in children : MayInstance(id, c)
    /\ CanBuildInstance(id, children)
    /\ materials \subseteq DOMAIN images
    /\ MtlBuildInstance(id, children, materials)
    /\ Answer("build", id, "ok")
    /\ UNCHANGED <<sessionVars, buffers, images, computePipelines,
                   commandBuffers, mtlFrames, gpu>>

-----------------------------------------------------------------------------
(* Uploads and readbacks.  An image arrives as chunks of its tightly packed *)
(* bytes, the units from..(to - 1), and reaches the texture with the last.  *)

WriteBuffer(id) ==
    /\ Serving
    /\ IsA(id, "buffer") /\ id \in buffers
    /\ Report("writeResource", id, "ok")

\* Offset zero abandons what had been received and begins again.
Continues(id, from) == from = 0 \/ id \in DOMAIN imageUploads

UploadAt(id, from) ==
    IF from = 0
    THEN [data |-> [u \in Units |-> 0], next |-> 0, epoch |-> uploadsBegun + 1]
    ELSE imageUploads[id]

\* Mutant: a chunk may leave a hole before it.
ContiguousOrLater(upload, from) == upload.next <= from

Contiguous(upload, from) == upload.next = from

Partial(to) == to < ImageUnits

Received(upload, from, to) ==
    [upload EXCEPT !.data = [u \in Units |-> IF from <= u /\ u < to THEN upload.epoch ELSE @[u]],
                   !.next = to]

AcceptsChunk(id, from, to) ==
    /\ Serving
    /\ IsA(id, "image")
    /\ from <= to /\ to <= ImageUnits
    /\ Continues(id, from)
    /\ Contiguous(UploadAt(id, from), from)
    /\ from = 0 => uploadsBegun < MaxUploads
    /\ uploadsBegun' = IF from = 0 THEN uploadsBegun + 1 ELSE uploadsBegun

UploadTouchesOnly ==
    UNCHANGED <<phase, waiting, resources, fences, fenceResources, nextResourceID, nextFenceID,
                commandBuffers, mtlFrames, gpu>>

WriteImageChunk(id, from, to) ==
    /\ AcceptsChunk(id, from, to)
    /\ Partial(to)
    /\ imageUploads' = Put(imageUploads, id, Received(UploadAt(id, from), from, to))
    /\ Answer("writeResource", id, "ok")
    /\ UploadTouchesOnly
    /\ UNCHANGED mtlTables

WriteImageEnd(id, from) ==
    /\ AcceptsChunk(id, from, ImageUnits)
    /\ CanWriteImage(id)
    /\ MtlWriteImage(id, Received(UploadAt(id, from), from, ImageUnits).data)
    /\ imageUploads' = Drop(imageUploads, id)
    /\ Answer("writeResource", id, "ok")
    /\ UploadTouchesOnly

\* writeImage throws half way: what had been received before the last chunk is
\* still there, for the client to send that chunk again.
WriteImageTears(id, from, copied) ==
    /\ AcceptsChunk(id, from, ImageUnits)
    /\ CanWriteImage(id)
    /\ MtlTearImage(id, Received(UploadAt(id, from), from, ImageUnits).data, copied)
    /\ UNCHANGED imageUploads
    /\ Answer("error", 0, "refused")
    /\ UploadTouchesOnly

ReadResource(id) ==
    /\ Serving
    /\ \/ IsA(id, "buffer") /\ id \in buffers
       \/ IsA(id, "image") /\ id \in DOMAIN images
    /\ Report("readResource", id, "ok")

-----------------------------------------------------------------------------
(* SUBMIT_COMMAND.  The fence is issued after the backend committed.        *)

MaySubmit == Serving /\ nextFenceID <= MaxFenceID

IssueFence(pins) ==
    /\ fences' = fences \cup {nextFenceID}
    /\ fenceResources' =
           IF pins = {} THEN fenceResources ELSE Put(fenceResources, nextFenceID, pins)
    /\ nextFenceID' = nextFenceID + 1
    /\ Answer("submitCommand", nextFenceID, "ok")
    /\ UNCHANGED <<phase, waiting, resources, imageUploads, nextResourceID, uploadsBegun,
                   mtlTables, frameOutputDisabled, lastFrame>>

SubmitNoop ==
    /\ MaySubmit
    /\ MtlSubmit(nextFenceID, {})
    /\ IssueFence({})

SubmitAddUInt32(buffer) ==
    /\ MaySubmit
    /\ IsA(buffer, "buffer")
    /\ Stored({buffer}, {})
    /\ MtlSubmit(nextFenceID, {buffer})
    /\ IssueFence({buffer})

SubmitTriangle(image) ==
    /\ MaySubmit
    /\ IsA(image, "image")
    /\ Stored({}, {image})
    /\ MtlSubmit(nextFenceID, {image})
    /\ IssueFence({image})

\* Mutant: the textures of the draws are forgotten.
PinsOfUIButTextures(target, vertices, indices, textures) == {target, vertices, indices}

\* Mutant: the target is forgotten.
PinsOfUIButTarget(target, vertices, indices, textures) == {vertices, indices} \cup textures

PinsOfUI(target, vertices, indices, textures) == {target, vertices, indices} \cup textures

SubmitIndexedUI(target, vertices, indices, textures) ==
    /\ MaySubmit
    /\ IsA(target, "image") /\ resources[target].format = "bgra8"
    /\ AllAre({vertices, indices}, "buffer") /\ AllAre(textures, "image")
    /\ Stored({vertices, indices}, {target})
    /\ MtlSubmitFrame(nextFenceID, {target, vertices, indices} \cup textures, {}, target)
    /\ IssueFence(PinsOfUI(target, vertices, indices, textures))

LightImage(id) ==
    IsA(id, "image") /\ resources[id].format = "rgba8" /\ ~resources[id].sparse

\* The children and the material images are not pinned.
PinsOfRays(target, top, lights) == {target, top} \cup lights

SubmitRayTrace(target, top, lights) ==
    /\ MaySubmit
    /\ IsA(target, "image")
    /\ IsA(top, "accel") /\ resources[top].format = "top"
    /\ \A l \in lights : LightImage(l)
    /\ CanRayTrace(target, top, lights)
    /\ MtlSubmitFrame(nextFenceID, {target, top} \cup lights, Borrowed(top), target)
    /\ IssueFence(PinsOfRays(target, top, lights))

\* A child destroyed since the build: submitRayTrace throws resourceNotFound.
RayTraceLostChild(target, top) ==
    /\ MaySubmit
    /\ IsA(target, "image") /\ Built(top)
    /\ \E c \in accelerationStructures[top].children : ~Built(c)
    /\ Report("submitCommand", 0, "resourceNotFound")

SubmitEmptyStageGrid(target) ==
    /\ MaySubmit
    /\ IsA(target, "image")
    /\ Stored({}, {target}) /\ images[target].format = "rgba8"
    /\ MtlSubmitFrame(nextFenceID, {target}, {}, target)
    /\ IssueFence({target})

\* The bindings, then the pipeline, join commandResources.
PinsOfCompute(pipeline, bound) == bound \cup {pipeline}

SubmitCompute(pipeline, bufferBindings, textureBindings) ==
    /\ MaySubmit
    /\ IsA(pipeline, "pipeline") /\ pipeline \in computePipelines
    /\ AllAre(bufferBindings, "buffer") /\ AllAre(textureBindings, "image")
    /\ Stored(bufferBindings, textureBindings)
    /\ MtlSubmit(nextFenceID, {pipeline} \cup bufferBindings \cup textureBindings)
    /\ IssueFence(PinsOfCompute(pipeline, bufferBindings \cup textureBindings))

-----------------------------------------------------------------------------
(* WAIT_FENCE.  handle() is stuck in backend.waitFence between WaitBegin and *)
(* one of WaitCompleted and WaitFailed.                                      *)

WaitUnknown(f) ==
    /\ Serving
    /\ f \notin fences
    /\ Report("waitFence", f, "resourceNotFound")

\* The session knows the fence, the backend no longer has its command buffer.
WaitGone(f) ==
    /\ Serving
    /\ f \in fences \ commandBuffers
    /\ Report("waitFence", f, "resourceNotFound")

WaitBegin(f) ==
    /\ Serving
    /\ f \in fences \cap commandBuffers
    /\ MtlTakeCommandBuffer(f)
    /\ phase' = "waiting"
    /\ waiting' = f
    /\ UNCHANGED <<sessionTables, counters, reply, mtlTables, mtlFrames, gpu>>

\* Mutant: waitFence does not look at the status of the command buffer.
WaitedForEither(outcome) ==
    /\ phase = "waiting"
    /\ ~Running(waiting)
    /\ outcome = "completed"

\* Mutant: waitFence does not wait.
WaitedForNothing(outcome) ==
    /\ phase = "waiting"
    /\ outcome = "completed"

\* waitUntilCompleted has returned, with the command completed or failed.
WaitedFor(outcome) ==
    /\ phase = "waiting"
    /\ gpu[waiting].status = outcome

\* Mutant: the reply is never sent.
KeepWaiting == UNCHANGED <<phase, waiting>>

Resume ==
    /\ phase' = "serving"
    /\ waiting' = 0

WaitCompleted ==
    /\ WaitedFor("completed")
    /\ MtlHarvest(waiting)
    /\ fences' = fences \ {waiting}
    /\ fenceResources' = Drop(fenceResources, waiting)
    /\ Answer("waitFence", waiting, "ok")
    /\ Resume
    /\ UNCHANGED <<resources, imageUploads, counters, mtlTables, commandBuffers, gpu>>

\* waitFence throws commandFailed before the session has dropped anything.
WaitFailed ==
    /\ WaitedFor("error")
    /\ Answer("waitFence", waiting, "gpuFailure")
    /\ Resume
    /\ UNCHANGED <<sessionTables, counters, mtlVars>>

-----------------------------------------------------------------------------
(* The end: SHUTDOWN, or the connection going away between two frames.  The  *)
(* backend is reset by the SHUTDOWN handler or by deinit.                    *)

ClearTables ==
    /\ resources' = EmptyTable
    /\ fences' = {}
    /\ fenceResources' = EmptyTable

\* SHUTDOWN leaves imageUploads alone; its reply waits for the reset.
Shutdown ==
    /\ Serving
    /\ phase' = "resetting"
    /\ ClearTables
    /\ UNCHANGED <<waiting, imageUploads, counters, reply, mtlVars>>

Disconnect ==
    /\ phase \in {"hello", "serving"}
    /\ phase' = "resetting"
    /\ ClearTables
    /\ imageUploads' = EmptyTable
    /\ UNCHANGED <<waiting, counters, reply, mtlVars>>

\* Mutant: SHUTDOWN's result does not say shouldShutdown, and serving goes on.
ResetAndServe ==
    /\ phase = "resetting"
    /\ CanReset
    /\ MtlReset
    /\ phase' = "serving"
    /\ imageUploads' = EmptyTable
    /\ UNCHANGED <<waiting, resources, fences, fenceResources, counters, reply,
                   frameOutputDisabled, lastFrame, gpu>>

ResetDone ==
    /\ phase = "resetting"
    /\ CanReset
    /\ MtlReset
    /\ phase' = "closed"
    /\ imageUploads' = EmptyTable
    /\ UNCHANGED <<waiting, resources, fences, fenceResources, counters, reply,
                   frameOutputDisabled, lastFrame, gpu>>

\* The GPU is another actor: it finishes commands whatever the session does.
Gpu(f) ==
    /\ \E outcome \in {"completed", "error"} : GpuFinish(f, outcome)
    /\ UNCHANGED <<sessionVars, reply, mtlTables, commandBuffers, mtlFrames>>

\* A closed session is gone; this step only keeps it from being a deadlock.
Gone == phase = "closed" /\ UNCHANGED vars

-----------------------------------------------------------------------------
Negotiate == RefuseRequest \/ Query \/ \E range \in HelloRanges : Hello(range)

Manage ==
    \/ \E desc \in ClientDescs : Create(desc)
    \/ \E id \in Requested :
          \/ UpdateSparseImageMapping(id)
          \/ DestroyUnknown(id)
          \/ DestroyBusy(id)
          \/ DestroyResource(id)
          \/ \E geometry \in SUBSET OfKind("buffer") : BuildPrimitive(id, geometry)
          \/ \E children \in SUBSET OfKind("accel"), materials \in SUBSET OfKind("image") :
                BuildInstance(id, children, materials)

Transfer ==
    \E id \in DOMAIN resources :
        \/ WriteBuffer(id)
        \/ ReadResource(id)
        \/ \E from, to \in 0..ImageUnits : WriteImageChunk(id, from, to)
        \/ \E from \in 0..ImageUnits : WriteImageEnd(id, from)
        \/ \E from \in 0..ImageUnits, copied \in SUBSET Units : WriteImageTears(id, from, copied)

Submit ==
    \/ SubmitNoop
    \/ \E id \in DOMAIN resources :
          \/ SubmitAddUInt32(id)
          \/ SubmitTriangle(id)
          \/ SubmitEmptyStageGrid(id)
          \/ \E vertices, indices \in OfKind("buffer"), textures \in SUBSET OfKind("image") :
                SubmitIndexedUI(id, vertices, indices, textures)
          \/ \E top \in OfKind("accel") :
                \/ RayTraceLostChild(id, top)
                \/ \E lights \in SUBSET OfKind("image") : SubmitRayTrace(id, top, lights)
          \/ \E bs \in SUBSET OfKind("buffer"), ts \in SUBSET OfKind("image") :
                SubmitCompute(id, bs, ts)

Wait ==
    \/ \E f \in 0..MaxFenceID : WaitUnknown(f) \/ WaitGone(f) \/ WaitBegin(f)
    \/ WaitCompleted
    \/ WaitFailed

Finish == Shutdown \/ Disconnect \/ ResetDone

Next ==
    \/ Negotiate
    \/ Manage
    \/ Transfer
    \/ Submit
    \/ Wait
    \/ Finish
    \/ \E f \in 1..MaxFenceID : Gpu(f)
    \/ Gone

Spec == Init /\ [][Next]_vars

\* Metal finishes or aborts every committed command, and a call that
\* waitUntilCompleted has returned to runs on; nothing obliges the client.
Fairness ==
    /\ \A f \in 1..MaxFenceID : WF_vars(Gpu(f))
    /\ WF_vars(WaitCompleted \/ WaitFailed)
    /\ WF_vars(ResetDone)

FairSpec == Spec /\ Fairness

-----------------------------------------------------------------------------
(* Properties.  Answering: the client still has a session; once it ends, the *)
(* session's tables go first and the backend's follow at the reset.          *)

Answering == phase \in {"hello", "serving", "waiting"}

IssuedIDs == 1..(nextResourceID - 1)
IssuedFences == 1..(nextFenceID - 1)
Epochs == 0..uploadsBegun
Pins(f) == IF f \in DOMAIN fenceResources THEN fenceResources[f] ELSE {}

Upload == [data : [Units -> Epochs], next : Units, epoch : Epochs]
Texture == [format : Formats, sparse : BOOLEAN, torn : BOOLEAN, texels : [Units -> Epochs]]
Accel == [type : AccelTypes, built : BOOLEAN, children : SUBSET IssuedIDs,
          materials : SUBSET IssuedIDs]
Command == [status : GpuStatus, named : SUBSET IssuedIDs, borrowed : SUBSET IssuedIDs]

SessionTypeOK ==
    /\ phase \in Phases
    /\ waiting \in {0} \cup IssuedFences
    /\ IsTable(resources, IssuedIDs, Resource)
    /\ IsTable(imageUploads, IssuedIDs, Upload)
    /\ fences \subseteq IssuedFences
    /\ IsTable(fenceResources, IssuedFences, SUBSET IssuedIDs)
    /\ nextResourceID \in Nat \ {0}
    /\ nextFenceID \in Nat \ {0}
    /\ uploadsBegun \in Nat
    /\ reply \in Replies

BackendTypeOK ==
    /\ buffers \subseteq IssuedIDs
    /\ IsTable(images, IssuedIDs, Texture)
    /\ computePipelines \subseteq IssuedIDs
    /\ IsTable(accelerationStructures, IssuedIDs, Accel)
    /\ commandBuffers \subseteq IssuedFences
    /\ IsTable(frameImages, IssuedFences, IssuedIDs)
    /\ frameOutputDisabled \in BOOLEAN
    /\ lastFrame \in {0} \cup IssuedFences
    /\ gpu \in [IssuedFences -> Command]

\* Every table holds what its declaration says, and no ID that was not issued;
\* in particular an upload that has arrived whole is not left pending.
TypeOK == SessionTypeOK /\ BackendTypeOK

\* The session and the Metal backend agree on which IDs are live and what each
\* of them is, after any sequence of requests and failures: neither leaks an
\* object the other has forgotten.
TablesAgree ==
    Answering =>
        /\ buffers = OfKind("buffer")
        /\ DOMAIN images = OfKind("image")
        /\ computePipelines = OfKind("pipeline")
        /\ DOMAIN accelerationStructures = OfKind("accel")
        /\ \A id \in DOMAIN images :
              /\ images[id].format = resources[id].format
              /\ images[id].sparse = resources[id].sparse
        /\ \A id \in DOMAIN accelerationStructures :
              accelerationStructures[id].type = resources[id].format

\* While the GPU may still run a command, its fence is known to the session and
\* everything the request named is alive and cannot be destroyed.  The request
\* of a ray trace does not name the children of its structure and their material
\* images: a client may destroy those under it, and only Metal's own references
\* keep them until the trace is done.
UnfinishedCommandsPinned ==
    Answering =>
        \A f \in DOMAIN gpu : Running(f) =>
            /\ f \in fences
            /\ gpu[f].named \subseteq Pins(f) \cap DOMAIN resources

\* What a fence pins is alive until that fence is retired.
PinnedResourcesLive ==
    \A f \in DOMAIN fenceResources :
        f \in fences /\ fenceResources[f] \subseteq DOMAIN resources

\* A fence the client may wait for is one the backend can wait on, is being
\* waited on, or belongs to a command whose failure has been reported.
FencesBacked ==
    \A f \in fences :
        f \in commandBuffers \/ waiting = f \/ gpu[f].status = "error"

\* A fence is forgotten only when its command has completed: a failed command
\* is never reported as a success.
RetiredFencesCompleted ==
    Answering => \A f \in IssuedFences \ fences : gpu[f].status = "completed"

\* waitFence can always show the frame it harvests: the target is still there.
FrameTargetsLive ==
    \A f \in fences \cap DOMAIN frameImages : frameImages[f] \in DOMAIN images

\* The viewer's file never holds a frame of a command that is still running,
\* has failed or was not waited for.
PublishedFrameFinished ==
    lastFrame # 0 => gpu[lastFrame].status = "completed" /\ lastFrame \notin fences

\* A pending upload is exactly a prefix of one upload.
UploadsArePrefixes ==
    \A id \in DOMAIN imageUploads : \A u \in Units :
        imageUploads[id].data[u] =
            IF u < imageUploads[id].next THEN imageUploads[id].epoch ELSE 0

\* The texture of an image holds one whole upload, however the chunks of several
\* uploads, retries and failures interleave; only a failed blit may leave a mix,
\* and it was answered with an error.
TexturesWhole ==
    \A id \in DOMAIN images :
        ~images[id].torn => \A u, v \in Units : images[id].texels[u] = images[id].texels[v]

\* A child of an instance structure is gone or is still a built structure that
\* may be instanced: its ID never comes to name anything else.
ChildrenStayInstanceable ==
    \A a \in DOMAIN accelerationStructures :
        \A c \in accelerationStructures[a].children :
            /\ c < nextResourceID
            /\ c \in buffers \cup DOMAIN images \cup computePipelines
                    \cup DOMAIN accelerationStructures => Instanceable(c)

\* A session that has ended owns nothing, and the GPU is done with all it gave it.
ClosedMeansReleased ==
    phase = "closed" =>
        /\ buffers \cup computePipelines \cup commandBuffers \cup fences = {}
        /\ DOMAIN images \cup DOMAIN accelerationStructures \cup DOMAIN frameImages = {}
        /\ DOMAIN resources \cup DOMAIN imageUploads \cup DOMAIN fenceResources = {}
        /\ \A f \in DOMAIN gpu : ~Running(f)

-----------------------------------------------------------------------------
\* The session keeps the promises of the abstract ledger: what it still answers
\* for is what a client may rely on.
Ledger == INSTANCE ResourceLedger WITH
    open <- Answering,
    live <- DOMAIN resources,
    issued <- nextResourceID - 1,
    pending <- [f \in fences |-> Pins(f)],
    fenced <- nextFenceID - 1,
    finished <- {f \in DOMAIN gpu : ~Running(f)}

LedgerSpec == Ledger!LedgerSpec

\* WAIT_FENCE always returns, whether the command completed or failed.
WaitsReturn == phase = "waiting" ~> phase = "serving"

\* A session that is shutting down, or whose client went away, is released.
SessionsEnd == phase = "resetting" ~> phase = "closed"

-----------------------------------------------------------------------------
(* What the documentation and the error texts say, and the code does not do. *)

\* protocol/README.md, WAIT_FENCE: "Wait for a known Metal command buffer and
\* return its completion state."  A fence the session knows has such a state.
KnownFencesAnswered ==
    reply.type = "waitFence" /\ reply.id \in fences => reply.status # "resourceNotFound"

\* DESTROY_RESOURCE, refused: "resource N has an unfinished command".  Some
\* command that named it has still to be finished or waited for.
BusyMeansUnfinished ==
    Serving /\ reply.type = "destroyResource" /\ reply.status = "resourceInUse" =>
        \E f \in commandBuffers : reply.id \in Pins(f)

\* docs/architecture.md: the host captures "completed Kit UI targets" for the
\* viewer.  No command is drawing into the target a frame is captured from.
CapturesCompletedTargets ==
    [][lastFrame' # lastFrame =>
          \A f \in DOMAIN gpu : Running(f) => frameImages[lastFrame'] \notin gpu[f].named]_vars

=============================================================================
