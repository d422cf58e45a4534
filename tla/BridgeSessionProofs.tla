------------------------ MODULE BridgeSessionProofs ------------------------
(***************************************************************************)
(* Proofs about BridgeSession for every bound, every set of resources the  *)
(* client asks for and every setting of the frame output.                  *)
(*                                                                         *)
(* The many requests change the state in a few ways only: Step lists them, *)
(* and each part of the inductive invariant is proved by cases on Step.    *)
(***************************************************************************)
EXTENDS BridgeSession, TLAPS

USE DEF Serving

\* The requests that only report.
Quiet == UNCHANGED <<sessionVars, mtlVars>>

Rebuilds(id, children, materials) ==
    /\ Serving
    /\ id \in DOMAIN accelerationStructures
    /\ \A c \in children : Instanceable(c)
    /\ materials \subseteq DOMAIN images
    /\ MtlBuildInstance(id, children, materials)
    /\ UNCHANGED <<sessionVars, buffers, images, computePipelines,
                   commandBuffers, mtlFrames, gpu>>

\* What every accepted SUBMIT_COMMAND does.
Commits(named, borrowed) ==
    /\ Serving
    /\ IssueFence(named)
    /\ \/ borrowed = {} /\ MtlSubmit(nextFenceID, named)
       \/ \E t \in named \cap DOMAIN images : MtlSubmitFrame(nextFenceID, named, borrowed, t)

\* A trace borrows structures and images the backend has.
Lent == SUBSET (DOMAIN accelerationStructures \cup DOMAIN images)

SomeCommit == \E named \in SUBSET DOMAIN resources, borrowed \in Lent : Commits(named, borrowed)

SomeChunk == \E id \in DOMAIN resources : \E from, to \in 0..ImageUnits : WriteImageChunk(id, from, to)
SomeEnd == \E id \in DOMAIN resources : \E from \in 0..ImageUnits : WriteImageEnd(id, from)
SomeTear ==
    \E id \in DOMAIN resources : \E from \in 0..ImageUnits, copied \in SUBSET Units :
        WriteImageTears(id, from, copied)

Step ==
    \/ Quiet
    \/ \E range \in HelloRanges : Hello(range)
    \/ \E desc \in ClientDescs : Create(desc)
    \/ \E id \in Requested : DestroyResource(id)
    \/ \E id \in Requested : \E children, materials : Rebuilds(id, children, materials)
    \/ SomeChunk
    \/ SomeEnd
    \/ SomeTear
    \/ SomeCommit
    \/ \E f \in 0..MaxFenceID : WaitBegin(f)
    \/ WaitCompleted
    \/ WaitFailed
    \/ Shutdown
    \/ Disconnect
    \/ ResetDone
    \/ \E f \in 1..MaxFenceID : Gpu(f)

-----------------------------------------------------------------------------
\* Whatever the command, what it names is pinned, and its frame is one of those.
LEMMA SubmitShape ==
    Submit => Quiet \/ SomeCommit
<1> SUFFICES ASSUME Submit
             PROVE  Quiet \/ SomeCommit
    OBVIOUS
<1> USE DEF MaySubmit, IsA, AllAre, OfKind, Stored, CanRayTrace, SomeCommit, Lent
<1>1. CASE SubmitNoop
    <2>1. Commits({}, {})
        BY <1>1 DEF SubmitNoop, Commits
    <2> QED
        BY <2>1
<1>2. ASSUME NEW id \in DOMAIN resources, SubmitAddUInt32(id)
      PROVE  SomeCommit
    <2>1. Commits({id}, {})
        BY <1>2 DEF SubmitAddUInt32, Commits
    <2> QED
        BY <2>1
<1>3. ASSUME NEW id \in DOMAIN resources, SubmitTriangle(id)
      PROVE  SomeCommit
    <2>1. Commits({id}, {})
        BY <1>3 DEF SubmitTriangle, Commits
    <2> QED
        BY <2>1
<1>4. ASSUME NEW id \in DOMAIN resources, SubmitEmptyStageGrid(id)
      PROVE  SomeCommit
    <2>1. Commits({id}, {})
        BY <1>4 DEF SubmitEmptyStageGrid, Commits
    <2> QED
        BY <2>1
<1>5. ASSUME NEW id \in DOMAIN resources,
             NEW vertices \in OfKind("buffer"), NEW indices \in OfKind("buffer"),
             NEW textures \in SUBSET OfKind("image"),
             SubmitIndexedUI(id, vertices, indices, textures)
      PROVE  SomeCommit
    <2>1. Commits({id, vertices, indices} \cup textures, {})
        BY <1>5 DEF SubmitIndexedUI, PinsOfUI, Commits
    <2> QED
        BY <2>1
<1>6. ASSUME NEW id \in DOMAIN resources, NEW top \in OfKind("accel"),
             NEW lights \in SUBSET OfKind("image"), SubmitRayTrace(id, top, lights)
      PROVE  SomeCommit
    <2>1. Commits({id, top} \cup lights, Borrowed(top))
        BY <1>6 DEF SubmitRayTrace, PinsOfRays, Commits
    <2>2. Borrowed(top) \in Lent
        BY <1>6 DEF SubmitRayTrace, Borrowed, Built
    <2>3. {id, top} \cup lights \in SUBSET DOMAIN resources
        BY <1>6
    <2> QED
        BY <2>1, <2>2, <2>3
<1>7. ASSUME NEW id \in DOMAIN resources,
             NEW bs \in SUBSET OfKind("buffer"), NEW ts \in SUBSET OfKind("image"),
             SubmitCompute(id, bs, ts)
      PROVE  SomeCommit
    <2>1. {id} \cup bs \cup ts = (bs \cup ts) \cup {id}
        OBVIOUS
    <2>2. Commits({id} \cup bs \cup ts, {})
        BY <1>7, <2>1 DEF SubmitCompute, PinsOfCompute, Commits
    <2> QED
        BY <2>2
<1>8. ASSUME NEW id \in DOMAIN resources, NEW top \in OfKind("accel"), RayTraceLostChild(id, top)
      PROVE  Quiet
    BY <1>8 DEF RayTraceLostChild, Report, Quiet
<1> QED
    BY <1>1, <1>2, <1>3, <1>4, <1>5, <1>6, <1>7, <1>8 DEF Submit

LEMMA NextSteps == [Next]_vars => Step
<1> SUFFICES ASSUME [Next]_vars PROVE Step
    OBVIOUS
<1>1. CASE UNCHANGED vars
    BY <1>1 DEF vars, Quiet, Step
<1>2. CASE Negotiate
    BY <1>2 DEF Negotiate, RefuseRequest, Query, Report, Quiet, Step
<1>3. CASE Manage
    <2>1. ASSUME NEW id \in Requested, NEW geometry, BuildPrimitive(id, geometry)
          PROVE  Rebuilds(id, {}, {})
        BY <2>1 DEF BuildPrimitive, CanBuildPrimitive, MtlBuildPrimitive, MtlBuildInstance, Rebuilds
    <2>2. ASSUME NEW id \in Requested, NEW children, NEW materials, BuildInstance(id, children, materials)
          PROVE  Rebuilds(id, children, materials)
        BY <2>2 DEF BuildInstance, CanBuildInstance, Rebuilds
    <2>3. ASSUME NEW id \in Requested,
                 UpdateSparseImageMapping(id) \/ DestroyUnknown(id) \/ DestroyBusy(id)
          PROVE  Quiet
        BY <2>3 DEF UpdateSparseImageMapping, DestroyUnknown, DestroyBusy, Report, Quiet
    <2> QED
        BY <1>3, <2>1, <2>2, <2>3 DEF Manage, Step
<1>4. CASE Transfer
    <2>1. ASSUME NEW id, WriteBuffer(id) \/ ReadResource(id)
          PROVE  Quiet
        BY <2>1 DEF WriteBuffer, ReadResource, Report, Quiet
    <2> QED
        BY <1>4, <2>1 DEF Transfer, SomeChunk, SomeEnd, SomeTear, Step
<1>5. CASE Submit
    BY <1>5, SubmitShape DEF Step
<1>6. CASE Wait
    <2>1. ASSUME NEW f, WaitUnknown(f) \/ WaitGone(f)
          PROVE  Quiet
        BY <2>1 DEF WaitUnknown, WaitGone, Report, Quiet
    <2> QED
        BY <1>6, <2>1 DEF Wait, Step
<1>7. CASE Finish
    BY <1>7 DEF Finish, Step
<1>8. CASE \E f \in 1..MaxFenceID : Gpu(f)
    BY <1>8 DEF Step
<1>9. CASE Gone
    BY <1>9 DEF Gone, vars, Quiet, Step
<1> QED
    BY <1>1, <1>2, <1>3, <1>4, <1>5, <1>6, <1>7, <1>8, <1>9 DEF Next

-----------------------------------------------------------------------------
(* Tables.                                                                 *)

LEMMA PutTable ==
    ASSUME NEW K, NEW V, NEW table, IsTable(table, K, V), NEW k \in K, NEW v \in V
    PROVE  IsTable(Put(table, k, v), K, V)
BY DEF IsTable, Put

LEMMA DropTable ==
    ASSUME NEW K, NEW V, NEW table, IsTable(table, K, V), NEW k
    PROVE  IsTable(Drop(table, k), K, V)
BY DEF IsTable, Drop

LEMMA EmptyIsTable ==
    ASSUME NEW K, NEW V
    PROVE  IsTable(EmptyTable, K, V)
BY DEF IsTable, EmptyTable

LEMMA WidenTable ==
    ASSUME NEW K, NEW V, NEW table, IsTable(table, K, V), NEW L, K \subseteq L, NEW W, V \subseteq W
    PROVE  IsTable(table, L, W)
BY DEF IsTable

-----------------------------------------------------------------------------
(* Type correctness.                                                       *)

LEMMA InitTyped == Init => TypeOK
<1> SUFFICES ASSUME Init PROVE TypeOK
    OBVIOUS
<1> USE DEF Init, MtlInit
<1>1. IssuedFences = {}
    BY DEF IssuedFences
<1>2. SessionTypeOK
    BY EmptyIsTable DEF SessionTypeOK, Phases, Replies, Requests, Statuses
<1>3. gpu \in [{} -> Command]
    BY DEF EmptyTable
<1>4. BackendTypeOK
    BY <1>1, <1>3, EmptyIsTable DEF BackendTypeOK
<1> QED
    BY <1>2, <1>4 DEF TypeOK

\* What is issued is never taken back, so every type only grows.
LEMMA TypesGrow ==
    ASSUME TypeOK, Step
    PROVE  /\ nextResourceID' \in Nat \ {0} /\ nextFenceID' \in Nat \ {0} /\ uploadsBegun' \in Nat
           /\ IssuedIDs \subseteq IssuedIDs'
           /\ IssuedFences \subseteq IssuedFences'
           /\ Epochs \subseteq Epochs'
           /\ Upload \subseteq Upload' /\ Texture \subseteq Texture'
           /\ Accel \subseteq Accel' /\ Command \subseteq Command'
<1>1. /\ nextResourceID' \in {nextResourceID, nextResourceID + 1}
      /\ nextFenceID' \in {nextFenceID, nextFenceID + 1}
      /\ uploadsBegun' \in {uploadsBegun, uploadsBegun + 1}
    BY DEF Step, Quiet, Hello, Create, Register, DestroyResource, Rebuilds, SomeChunk, SomeEnd,
           SomeTear, WriteImageChunk, WriteImageEnd, WriteImageTears, AcceptsChunk,
           UploadTouchesOnly, SomeCommit, Commits, IssueFence, WaitBegin, WaitCompleted, WaitFailed,
           Shutdown, Disconnect, ResetDone, Gpu, vars, sessionVars, sessionTables, counters
<1>2. nextResourceID \in Nat \ {0} /\ nextFenceID \in Nat \ {0} /\ uploadsBegun \in Nat
    BY DEF TypeOK, SessionTypeOK
<1>3. ASSUME NEW m \in Nat, NEW n, n \in {m, m + 1}
      PROVE  1..(m - 1) \subseteq 1..(n - 1) /\ 0..m \subseteq 0..n
    BY <1>3
<1>4. IssuedIDs \subseteq IssuedIDs'
    BY <1>1, <1>2, <1>3 DEF IssuedIDs
<1>5. IssuedFences \subseteq IssuedFences'
    BY <1>1, <1>2, <1>3 DEF IssuedFences
<1>6. Epochs \subseteq Epochs'
    BY <1>1, <1>2, <1>3 DEF Epochs
<1>7. [Units -> Epochs] \subseteq [Units -> Epochs']
    BY <1>6
<1>8. Upload \subseteq Upload'
    BY <1>6, <1>7 DEF Upload
<1>9. Texture \subseteq Texture'
    BY <1>7 DEF Texture
<1>10. Accel \subseteq Accel' /\ Command \subseteq Command'
    BY <1>4 DEF Accel, Command
<1> QED
    BY <1>1, <1>2, <1>4, <1>5, <1>6, <1>8, <1>9, <1>10

\* So the tables as they were have the types of the next state.
OldTyped ==
    /\ waiting \in {0} \cup IssuedFences'
    /\ IsTable(resources, IssuedIDs', Resource)
    /\ IsTable(imageUploads, IssuedIDs', Upload')
    /\ fences \subseteq IssuedFences'
    /\ IsTable(fenceResources, IssuedFences', SUBSET IssuedIDs')
    /\ buffers \subseteq IssuedIDs'
    /\ IsTable(images, IssuedIDs', Texture')
    /\ computePipelines \subseteq IssuedIDs'
    /\ IsTable(accelerationStructures, IssuedIDs', Accel')
    /\ commandBuffers \subseteq IssuedFences'
    /\ IsTable(frameImages, IssuedFences', IssuedIDs')
    /\ lastFrame \in {0} \cup IssuedFences'
    /\ gpu \in [IssuedFences -> Command']

LEMMA OldTypes ==
    ASSUME TypeOK, Step
    PROVE  OldTyped
<1> USE DEF TypeOK, SessionTypeOK, BackendTypeOK
<1>1. /\ IssuedIDs \subseteq IssuedIDs'
      /\ IssuedFences \subseteq IssuedFences'
      /\ SUBSET IssuedIDs \subseteq SUBSET IssuedIDs'
      /\ Upload \subseteq Upload' /\ Texture \subseteq Texture'
      /\ Accel \subseteq Accel' /\ Command \subseteq Command'
    BY TypesGrow
<1>2. IsTable(resources, IssuedIDs', Resource)
    BY <1>1, WidenTable
<1>3. IsTable(imageUploads, IssuedIDs', Upload')
    BY <1>1, WidenTable
<1>4. IsTable(fenceResources, IssuedFences', SUBSET IssuedIDs')
    BY <1>1, WidenTable
<1>5. IsTable(images, IssuedIDs', Texture')
    BY <1>1, WidenTable
<1>6. IsTable(accelerationStructures, IssuedIDs', Accel')
    BY <1>1, WidenTable
<1>7. IsTable(frameImages, IssuedFences', IssuedIDs')
    BY <1>1, WidenTable
<1>8. gpu \in [IssuedFences -> Command']
    BY <1>1
<1> QED
    BY <1>1, <1>2, <1>3, <1>4, <1>5, <1>6, <1>7, <1>8 DEF OldTyped

LEMMA ReplyTyped ==
    ASSUME TypeOK, [Next]_vars
    PROVE  reply' \in Replies
<1> USE SessionAssumption DEF Replies, Requests, Statuses, Report, Answer
<1>1. /\ reply \in Replies
      /\ DOMAIN resources \subseteq Nat
      /\ nextResourceID \in Nat /\ nextFenceID \in Nat /\ waiting \in Nat
      /\ Requested \subseteq Nat /\ 0..MaxFenceID \subseteq Nat
    BY DEF TypeOK, SessionTypeOK, IsTable, IssuedIDs, IssuedFences, Requested
<1>2. CASE Negotiate
    BY <1>2 DEF Negotiate, RefuseRequest, Query, Hello
<1>3. CASE Manage
    <2>1. ASSUME NEW desc, Create(desc) PROVE reply' \in Replies
        BY <1>1, <2>1 DEF Create, Register
    <2>2. ASSUME NEW id \in Requested,
                 \/ UpdateSparseImageMapping(id) \/ DestroyUnknown(id) \/ DestroyBusy(id)
                 \/ DestroyResource(id)
                 \/ \E geometry : BuildPrimitive(id, geometry)
                 \/ \E children, materials : BuildInstance(id, children, materials)
          PROVE  reply' \in Replies
        BY <1>1, <2>2 DEF UpdateSparseImageMapping, DestroyUnknown, DestroyBusy, DestroyResource,
                          BuildPrimitive, BuildInstance
    <2> QED
        BY <1>3, <2>1, <2>2 DEF Manage
<1>4. CASE Transfer
    BY <1>1, <1>4 DEF Transfer, WriteBuffer, ReadResource, WriteImageChunk, WriteImageEnd,
                      WriteImageTears
<1>5. CASE Submit
    <2>1. ASSUME NEW id, NEW top, RayTraceLostChild(id, top) PROVE reply' \in Replies
        BY <2>1 DEF RayTraceLostChild
    <2>2. ASSUME NEW named, IssueFence(named) PROVE reply' \in Replies
        BY <1>1, <2>2 DEF IssueFence
    <2> QED
        BY <1>5, <2>1, <2>2 DEF Submit, SubmitNoop, SubmitAddUInt32, SubmitTriangle,
               SubmitEmptyStageGrid, SubmitIndexedUI, SubmitRayTrace, SubmitCompute
<1>6. CASE Wait
    BY <1>1, <1>6 DEF Wait, WaitUnknown, WaitGone, WaitBegin, WaitCompleted, WaitFailed
<1>7. CASE Finish
    BY <1>1, <1>7 DEF Finish, Shutdown, Disconnect, ResetDone
<1>8. CASE (\E f \in 1..MaxFenceID : Gpu(f)) \/ Gone \/ UNCHANGED vars
    BY <1>1, <1>8 DEF Gpu, Gone, vars
<1> QED
    BY <1>2, <1>3, <1>4, <1>5, <1>6, <1>7, <1>8 DEF Next

\* What an upload has become with one more chunk.
LEMMA ReceivedTyped ==
    ASSUME TypeOK, NEW id, NEW from \in 0..ImageUnits, NEW to \in 0..ImageUnits,
           AcceptsChunk(id, from, to), Upload \subseteq Upload', uploadsBegun' \in Nat
    PROVE  /\ Received(UploadAt(id, from), from, to) \in
                  [data : [Units -> Epochs'], next : {to}, epoch : Epochs']
           /\ Received(UploadAt(id, from), from, to).data \in [Units -> Epochs']
<1>1. UploadAt(id, from) \in Upload'
    <2>1. CASE from = 0
        <3>1. 0 \in Units
            BY BackendAssumption DEF Units
        <3>2. 0 \in Epochs' /\ uploadsBegun + 1 \in Epochs'
            BY <2>1 DEF Epochs, AcceptsChunk
        <3> QED
            BY <2>1, <3>1, <3>2 DEF UploadAt, Upload
    <2>2. CASE from # 0
        BY <2>2 DEF UploadAt, AcceptsChunk, Continues, TypeOK, SessionTypeOK, IsTable
    <2> QED
        BY <2>1, <2>2
<1> DEFINE upload == UploadAt(id, from)
           data == [u \in Units |-> IF from <= u /\ u < to THEN upload.epoch ELSE upload.data[u]]
<1>2. Received(UploadAt(id, from), from, to) = [upload EXCEPT !.data = data, !.next = to]
    BY <1>1 DEF Received, Upload
<1>3. upload \in Upload'
    BY <1>1
<1> HIDE DEF upload
<1>4. data \in [Units -> Epochs']
    BY <1>3 DEF Upload
<1> HIDE DEF data
<1> QED
    BY <1>2, <1>3, <1>4 DEF Upload

\* Every table keeps its type; the cases are the ones of Step.
LEMMA StepTyped ==
    ASSUME TypeOK, [Next]_vars
    PROVE  TypeOK'
<1> USE SessionAssumption, BackendAssumption
<1>1. Step
    BY NextSteps
<1>2. /\ reply' \in Replies
      /\ nextResourceID' \in Nat \ {0} /\ nextFenceID' \in Nat \ {0} /\ uploadsBegun' \in Nat
      /\ Upload \subseteq Upload'
    BY <1>1, ReplyTyped, TypesGrow
<1>3. OldTyped
    BY <1>1, OldTypes
<1>4. phase \in Phases /\ frameOutputDisabled \in BOOLEAN
    BY DEF TypeOK, SessionTypeOK, BackendTypeOK
\* What a case leaves alone needs no further step.
<1>5. nextFenceID' = nextFenceID => IssuedFences' = IssuedFences
    BY DEF IssuedFences
<1> USE <1>2, <1>3, <1>4, <1>5
<1> USE DEF OldTyped, TypeOK, SessionTypeOK, BackendTypeOK, sessionVars, sessionTables, counters,
            mtlVars, mtlTables, mtlFrames
<1>6. CASE Quiet
    BY <1>6 DEF Quiet
<1>7. ASSUME NEW range \in HelloRanges, Hello(range) PROVE TypeOK'
    BY <1>7 DEF Hello, Phases
<1>8. ASSUME NEW desc \in ClientDescs, Create(desc) PROVE TypeOK'
    <2> USE DEF Create, Register
    <2>1. /\ nextResourceID \in IssuedIDs' /\ desc \in Resource
        BY <1>8 DEF IssuedIDs
    <2>2. desc.kind \in {"buffer", "image", "pipeline", "accel"}
        BY <2>1 DEF Resource
    <2>3. IsTable(resources', IssuedIDs', Resource)
        BY <1>8, <2>1, PutTable
    <2>4. IsTable(images', IssuedIDs', Texture')
        <3>1. CASE desc.kind = "image"
            <4> DEFINE texture == [format |-> desc.format, sparse |-> desc.sparse, torn |-> FALSE,
                                   texels |-> [u \in Units |-> 0]]
            <4>1. desc.format \in Formats /\ desc.sparse \in BOOLEAN
                BY <2>1, <3>1 DEF Resource
            <4>2. 0 \in Epochs'
                BY DEF Epochs
            <4>3. texture \in Texture'
                BY <4>1, <4>2 DEF Texture
            <4>4. images' = Put(images, nextResourceID, texture)
                BY <1>8, <3>1 DEF MtlCreate, MtlCreateImage
            <4> HIDE DEF texture
            <4> QED
                BY <2>1, <4>3, <4>4, PutTable
        <3>2. CASE desc.kind # "image"
            BY <1>8, <2>2, <3>2
               DEF MtlCreate, MtlCreateBuffer, MtlCreateComputePipeline,
                   MtlCreateAccelerationStructure
        <3> QED
            BY <3>1, <3>2
    <2>5. IsTable(accelerationStructures', IssuedIDs', Accel')
        <3>1. CASE desc.kind = "accel"
            <4> DEFINE accel == [type |-> desc.format, built |-> FALSE, children |-> {}, materials |-> {}]
            <4>1. desc.format \in AccelTypes
                BY <2>1, <3>1 DEF Resource
            <4>2. accel \in Accel'
                BY <4>1 DEF Accel
            <4>3. accelerationStructures' = Put(accelerationStructures, nextResourceID, accel)
                BY <1>8, <3>1 DEF MtlCreate, MtlCreateAccelerationStructure
            <4> HIDE DEF accel
            <4> QED
                BY <2>1, <4>2, <4>3, PutTable
        <3>2. CASE desc.kind # "accel"
            BY <1>8, <2>2, <3>2
               DEF MtlCreate, MtlCreateBuffer, MtlCreateImage, MtlCreateComputePipeline
        <3> QED
            BY <3>1, <3>2
    <2>6. buffers' \subseteq IssuedIDs' /\ computePipelines' \subseteq IssuedIDs'
        BY <1>8, <2>1
           DEF MtlCreate, MtlCreateBuffer, MtlCreateImage, MtlCreateComputePipeline,
               MtlCreateAccelerationStructure
    <2> QED
        BY <1>8, <2>3, <2>4, <2>5, <2>6
<1>9. ASSUME NEW id \in Requested, DestroyResource(id) PROVE TypeOK'
    <2> USE DEF DestroyResource, MtlDestroy
    <2>1. IsTable(resources', IssuedIDs', Resource) /\ IsTable(imageUploads', IssuedIDs', Upload')
        BY <1>9, DropTable
    <2>2. images' = images \/ images' = Drop(images, id)
        BY <1>9
    <2>3. IsTable(images', IssuedIDs', Texture')
        BY <2>2, DropTable
    <2>4. \/ accelerationStructures' = accelerationStructures
          \/ accelerationStructures' = Drop(accelerationStructures, id)
        BY <1>9
    <2>5. IsTable(accelerationStructures', IssuedIDs', Accel')
        BY <2>4, DropTable
    <2> QED
        BY <1>9, <2>1, <2>3, <2>5
<1>10. ASSUME NEW id \in Requested, NEW children, NEW materials, Rebuilds(id, children, materials) PROVE TypeOK'
    <2> USE DEF Rebuilds, MtlBuildInstance
    <2>1. children \subseteq IssuedIDs'
        BY <1>10 DEF Instanceable, Built, IsTable
    <2>2. IsTable(accelerationStructures', IssuedIDs', Accel')
        BY <1>10, <2>1 DEF IsTable, Accel
    <2> QED
        BY <1>10, <2>2
<1>11. CASE SomeChunk
    <2>1. PICK id \in DOMAIN resources, from \in 0..ImageUnits, to \in 0..ImageUnits :
              WriteImageChunk(id, from, to)
        BY <1>11 DEF SomeChunk
    <2>2. AcceptsChunk(id, from, to) /\ to \in Units
        BY <2>1 DEF WriteImageChunk, Partial, Units
    <2>3. Received(UploadAt(id, from), from, to) \in Upload'
        BY <2>2, ReceivedTyped DEF Upload
    <2>4. imageUploads' = Put(imageUploads, id, Received(UploadAt(id, from), from, to))
        BY <2>1 DEF WriteImageChunk
    <2>5. IsTable(imageUploads, IssuedIDs', Upload') /\ id \in IssuedIDs'
        BY <2>1 DEF IsTable
    <2>6. IsTable(imageUploads', IssuedIDs', Upload')
        <3> HIDE DEF OldTyped, TypeOK, SessionTypeOK, BackendTypeOK
        <3> QED
            BY <2>3, <2>4, <2>5, PutTable
    <2> QED
        BY <2>1, <2>6 DEF WriteImageChunk, AcceptsChunk, UploadTouchesOnly
<1>12. CASE SomeEnd
    <2>1. PICK id \in DOMAIN resources, from \in 0..ImageUnits : WriteImageEnd(id, from)
        BY <1>12 DEF SomeEnd
    <2>2. AcceptsChunk(id, from, ImageUnits) /\ id \in DOMAIN images
        BY <2>1 DEF WriteImageEnd, CanWriteImage
    <2> DEFINE data == Received(UploadAt(id, from), from, ImageUnits).data
    <2>3. data \in [Units -> Epochs']
        BY <2>2, ReceivedTyped
    <2>4. images' = [images EXCEPT ![id].texels = data, ![id].torn = FALSE]
        BY <2>1 DEF WriteImageEnd, MtlWriteImage
    <2> HIDE DEF data
    <2>5. IsTable(images', IssuedIDs', Texture')
        <3>1. images[id] \in Texture'
            BY <2>2 DEF IsTable
        <3>2. [images[id] EXCEPT !.texels = data, !.torn = FALSE] \in Texture'
            BY <2>3, <3>1 DEF Texture
        <3> QED
            BY <2>2, <2>4, <3>2 DEF IsTable
    <2>6. IsTable(imageUploads', IssuedIDs', Upload')
        BY <2>1, DropTable DEF WriteImageEnd
    <2> QED
        BY <2>1, <2>5, <2>6 DEF WriteImageEnd, MtlWriteImage, AcceptsChunk, UploadTouchesOnly
<1>13. CASE SomeTear
    <2>1. PICK id \in DOMAIN resources, from \in 0..ImageUnits, copied \in SUBSET Units :
              WriteImageTears(id, from, copied)
        BY <1>13 DEF SomeTear
    <2>2. AcceptsChunk(id, from, ImageUnits) /\ id \in DOMAIN images
        BY <2>1 DEF WriteImageTears, CanWriteImage
    <2> DEFINE data == Received(UploadAt(id, from), from, ImageUnits).data
               texels == [u \in Units |-> IF u \in copied THEN data[u] ELSE images[id].texels[u]]
    <2>3. data \in [Units -> Epochs']
        BY <2>2, ReceivedTyped
    <2>4. images' = [images EXCEPT ![id].texels = texels, ![id].torn = TRUE]
        BY <2>1 DEF WriteImageTears, MtlTearImage
    <2>5. images[id] \in Texture'
        BY <2>2 DEF IsTable
    <2> HIDE DEF data
    <2>6. texels \in [Units -> Epochs']
        BY <2>3, <2>5 DEF Texture
    <2> HIDE DEF texels
    <2>7. [images[id] EXCEPT !.texels = texels, !.torn = TRUE] \in Texture'
        BY <2>5, <2>6 DEF Texture
    <2>8. IsTable(images', IssuedIDs', Texture')
        BY <2>2, <2>4, <2>7 DEF IsTable
    <2> QED
        BY <2>1, <2>8 DEF WriteImageTears, MtlTearImage, AcceptsChunk, UploadTouchesOnly
<1>14. ASSUME NEW named \in SUBSET DOMAIN resources, NEW borrowed \in Lent,
             Commits(named, borrowed) PROVE TypeOK'
    <2> USE DEF SomeCommit, Commits, IssueFence, MtlSubmit, MtlSubmitFrame, Commit
    <2>1. nextFenceID' = nextFenceID + 1 /\ nextFenceID \in Nat \ {0}
        BY <1>14
    <2>2. IssuedFences' = IssuedFences \cup {nextFenceID} /\ nextFenceID \in IssuedFences'
        BY <2>1 DEF IssuedFences
    <2>3. named \in SUBSET IssuedIDs'
        BY DEF IsTable
    <2>4. IsTable(fenceResources', IssuedFences', SUBSET IssuedIDs')
        <3>1. fenceResources' = fenceResources \/ fenceResources' = Put(fenceResources, nextFenceID, named)
            BY <1>14
        <3> QED
            BY <2>2, <2>3, <3>1, PutTable
    <2>5. IsTable(frameImages', IssuedFences', IssuedIDs')
        <3>1. \/ frameImages' = frameImages
              \/ \E t \in named : frameImages' = Put(frameImages, nextFenceID, t)
            BY <1>14
        <3> QED
            BY <2>2, <2>3, <3>1, PutTable
    <2>6. gpu' \in [IssuedFences' -> Command']
        <3>1. borrowed \in SUBSET IssuedIDs'
            BY DEF Lent, IsTable
        <3>2. [status |-> "running", named |-> named, borrowed |-> borrowed] \in Command'
            BY <2>3, <3>1 DEF GpuStatus, Command
        <3>3. gpu' = Put(gpu, nextFenceID,
                         [status |-> "running", named |-> named, borrowed |-> borrowed])
            BY <1>14
        <3> QED
            BY <2>2, <3>2, <3>3 DEF Put
    <2> QED
        BY <1>14, <2>2, <2>4, <2>5, <2>6
<1>15. ASSUME NEW f \in 0..MaxFenceID, WaitBegin(f) PROVE TypeOK'
    BY <1>15 DEF WaitBegin, MtlTakeCommandBuffer, Phases
<1>16. CASE WaitCompleted
    <2> USE DEF WaitCompleted, WaitedFor, Resume, MtlHarvest, PublishFrame
    <2>1. IsTable(fenceResources', IssuedFences', SUBSET IssuedIDs')
        BY <1>16, DropTable
    <2>2. IsTable(frameImages', IssuedFences', IssuedIDs')
        BY <1>16, DropTable
    <2>3. lastFrame' \in {0} \cup IssuedFences' /\ frameOutputDisabled' \in BOOLEAN
        BY <1>16
    <2> QED
        BY <1>16, <2>1, <2>2, <2>3 DEF Phases
<1>17. CASE WaitFailed
    BY <1>17 DEF WaitFailed, Resume, Phases
<1>18. CASE Shutdown
    BY <1>18, EmptyIsTable DEF Shutdown, ClearTables, Phases
<1>19. CASE Disconnect
    BY <1>19, EmptyIsTable DEF Disconnect, ClearTables, Phases
<1>20. CASE ResetDone
    BY <1>20, EmptyIsTable DEF ResetDone, MtlReset, Phases
<1>21. ASSUME NEW f \in 1..MaxFenceID, Gpu(f) PROVE TypeOK'
    <2>1. PICK outcome \in {"completed", "error"} : GpuFinish(f, outcome)
        BY <1>21 DEF Gpu
    <2>2. f \in IssuedFences /\ gpu' = [gpu EXCEPT ![f].status = outcome]
        BY <2>1 DEF GpuFinish, Running
    <2>3. [gpu[f] EXCEPT !.status = outcome] \in Command'
        BY <2>2 DEF Command, GpuStatus
    <2>4. gpu' \in [IssuedFences' -> Command']
        BY <1>21, <2>2, <2>3 DEF Gpu
    <2> QED
        BY <1>21, <2>4 DEF Gpu
<1> QED
    BY <1>1, <1>6, <1>7, <1>8, <1>9, <1>10, <1>11, <1>12, <1>13, <1>14, <1>15, <1>16, <1>17,
       <1>18, <1>19, <1>20, <1>21 DEF Step, SomeCommit

\* Every table of the session and of its Metal backend always holds what its
\* declaration says, under IDs that were issued; an upload that has arrived whole
\* is never left pending, and every issued fence has a command.
THEOREM TypeCorrect == Spec => []TypeOK
<1>1. Init => TypeOK
    BY InitTyped
<1>2. TypeOK /\ [Next]_vars => TypeOK'
    BY StepTyped
<1> QED
    BY <1>1, <1>2, PTL DEF Spec

-----------------------------------------------------------------------------
(* The inductive invariant.  None of the properties of the fences is         *)
(* inductive alone: they lean on each other and on where a fence, its        *)
(* command buffer and its command are in each phase.                         *)

\* A blocked WAIT_FENCE has taken a command buffer of a fence it still knows, and
\* a session that is ending has forgotten its resources and fences.
PhaseOK ==
    /\ phase = "waiting" => waiting \in fences /\ waiting \notin commandBuffers
    /\ phase # "waiting" => waiting = 0
    /\ ~Answering => fences \cup DOMAIN resources \cup DOMAIN fenceResources = {}

\* A running command is in the backend's table or being waited for, and its
\* request named nothing its fence does not pin.
CommandsOK ==
    /\ Answering => commandBuffers \subseteq fences
    /\ \A f \in IssuedFences : Running(f) => f \in commandBuffers \cup {waiting}
    /\ \A f \in fences : gpu[f].named \subseteq Pins(f)

\* A harvested frame is of an image its command named.
FrameTargetsNamed ==
    \A f \in fences \cap DOMAIN frameImages : frameImages[f] \in gpu[f].named

FenceInv ==
    /\ PhaseOK
    /\ CommandsOK
    /\ PinnedResourcesLive
    /\ FencesBacked
    /\ RetiredFencesCompleted
    /\ FrameTargetsNamed
    /\ FrameTargetsLive
    /\ PublishedFrameFinished

ObjectInv ==
    /\ TablesAgree
    /\ UploadsArePrefixes
    /\ TexturesWhole
    /\ ChildrenStayInstanceable
    /\ ClosedMeansReleased

IInv == TypeOK /\ FenceInv /\ ObjectInv

LEMMA InitInv == Init => IInv
<1> SUFFICES ASSUME Init PROVE IInv
    OBVIOUS
<1>1. TypeOK
    BY InitTyped
<1>2. FenceInv
    <2>1. IssuedFences = {}
        BY DEF Init, IssuedFences
    <2> QED
        BY <2>1 DEF Init, MtlInit, EmptyTable, FenceInv, PhaseOK, CommandsOK, PinnedResourcesLive,
               FencesBacked, RetiredFencesCompleted, FrameTargetsNamed, FrameTargetsLive,
               PublishedFrameFinished, Answering
<1>3. ObjectInv
    BY DEF Init, MtlInit, EmptyTable, ObjectInv, TablesAgree, UploadsArePrefixes, TexturesWhole,
           ChildrenStayInstanceable, ClosedMeansReleased, OfKind
<1> QED
    BY <1>1, <1>2, <1>3 DEF IInv

-----------------------------------------------------------------------------
(* Fences.                                                                 *)

\* Steps that may add resources and images but leave every fence alone.
FencesAlone ==
    /\ UNCHANGED <<fences, fenceResources, commandBuffers, gpu, frameImages, lastFrame,
                    waiting, nextFenceID>>
    /\ \/ phase \in {"hello", "serving"} /\ phase' \in {"hello", "serving"}
       \/ UNCHANGED phase
    /\ DOMAIN resources \subseteq DOMAIN resources'
    /\ DOMAIN images \subseteq DOMAIN images'
    /\ Answering \/ UNCHANGED resources

LEMMA AloneSteps ==
    ASSUME \/ Quiet
           \/ \E range \in HelloRanges : Hello(range)
           \/ \E desc \in ClientDescs : Create(desc)
           \/ \E id \in Requested : \E children, materials : Rebuilds(id, children, materials)
           \/ SomeChunk \/ SomeEnd \/ SomeTear
    PROVE  FencesAlone
<1> USE DEF FencesAlone, Answering, sessionVars, sessionTables, counters, mtlVars, mtlTables,
            mtlFrames
<1>1. CASE Quiet
    BY <1>1 DEF Quiet
<1>2. CASE \E range \in HelloRanges : Hello(range)
    BY <1>2 DEF Hello
<1>3. CASE \E desc \in ClientDescs : Create(desc)
    BY <1>3 DEF Create, Register, MtlCreate, MtlCreateBuffer, MtlCreateImage,
                MtlCreateComputePipeline, MtlCreateAccelerationStructure, Put
<1>4. CASE \E id \in Requested : \E children, materials : Rebuilds(id, children, materials)
    BY <1>4 DEF Rebuilds
<1>5. CASE SomeChunk
    BY <1>5 DEF SomeChunk, WriteImageChunk, AcceptsChunk, UploadTouchesOnly
<1>6. CASE SomeEnd
    <2>1. PICK id \in DOMAIN resources : \E from \in 0..ImageUnits : WriteImageEnd(id, from)
        BY <1>6 DEF SomeEnd
    <2> QED
        BY <2>1 DEF WriteImageEnd, UploadTouchesOnly, MtlWriteImage
<1>7. CASE SomeTear
    <2>1. PICK id \in DOMAIN resources, from \in 0..ImageUnits, copied \in SUBSET Units :
              WriteImageTears(id, from, copied)
        BY <1>7 DEF SomeTear
    <2> QED
        BY <2>1 DEF WriteImageTears, AcceptsChunk, UploadTouchesOnly, MtlTearImage
<1> QED
    BY <1>1, <1>2, <1>3, <1>4, <1>5, <1>6, <1>7

LEMMA FencesKept ==
    ASSUME IInv, [Next]_vars
    PROVE  FenceInv'
<1> USE DEF FenceInv, PhaseOK, CommandsOK, PinnedResourcesLive, FencesBacked,
            RetiredFencesCompleted, FrameTargetsNamed, FrameTargetsLive, PublishedFrameFinished,
            Answering, Running, Pins
<1>1. Step
    BY NextSteps
<1>2. /\ FenceInv
      /\ fences \subseteq IssuedFences /\ commandBuffers \subseteq IssuedFences
      /\ DOMAIN fenceResources \subseteq IssuedFences
      /\ DOMAIN frameImages \subseteq IssuedFences
      /\ DOMAIN gpu = IssuedFences /\ gpu \in [IssuedFences -> Command]
      /\ lastFrame \in {0} \cup IssuedFences
      /\ 0 \notin IssuedFences
      /\ nextFenceID \in Nat \ {0}
      /\ phase \in Phases
    BY DEF IInv, TypeOK, SessionTypeOK, BackendTypeOK, IsTable, IssuedFences
<1>3. nextFenceID' = nextFenceID => IssuedFences' = IssuedFences
    BY DEF IssuedFences
<1>4. CASE FencesAlone
    BY <1>2, <1>3, <1>4 DEF FencesAlone
<1>5. ASSUME NEW id \in Requested, DestroyResource(id) PROVE FenceInv'
    <2> USE DEF DestroyResource, counters, mtlFrames
    <2>1. /\ UNCHANGED <<phase, waiting, fences, fenceResources, commandBuffers, gpu,
                         frameImages, lastFrame, nextFenceID>>
          /\ DOMAIN resources' = DOMAIN resources \ {id}
          /\ DOMAIN images \ {id} \subseteq DOMAIN images'
          /\ \A f \in DOMAIN fenceResources : id \notin fenceResources[f]
        BY <1>5 DEF Pinned, MtlDestroy, Drop
    <2>2. \A f \in fences \cap DOMAIN frameImages : frameImages[f] # id
        BY <1>2, <2>1
    <2> QED
        BY <1>2, <1>3, <2>1, <2>2
<1>6. ASSUME NEW named \in SUBSET DOMAIN resources, NEW borrowed \in Lent,
             Commits(named, borrowed) PROVE FenceInv'
    <2>1. /\ fences' = fences \cup {nextFenceID}
          /\ commandBuffers' = commandBuffers \cup {nextFenceID}
          /\ fenceResources' = IF named = {} THEN fenceResources
                                             ELSE Put(fenceResources, nextFenceID, named)
          /\ gpu' = Put(gpu, nextFenceID, [status |-> "running", named |-> named, borrowed |-> borrowed])
          /\ \/ frameImages' = frameImages
             \/ \E t \in named \cap DOMAIN images : frameImages' = Put(frameImages, nextFenceID, t)
          /\ nextFenceID' = nextFenceID + 1
          /\ phase = "serving"
          /\ UNCHANGED <<phase, waiting, resources, images, lastFrame>>
        BY <1>6 DEF SomeCommit, Commits, IssueFence, MtlSubmit, MtlSubmitFrame, Commit, mtlTables
    <2>2. IssuedFences' = IssuedFences \cup {nextFenceID} /\ nextFenceID \notin IssuedFences
        BY <1>2, <2>1 DEF IssuedFences
    <2>3. /\ DOMAIN gpu' = IssuedFences'
          /\ gpu'[nextFenceID] = [status |-> "running", named |-> named, borrowed |-> borrowed]
          /\ \A f \in IssuedFences : gpu'[f] = gpu[f]
        BY <1>2, <2>1, <2>2 DEF Put
    <2>4. /\ DOMAIN fenceResources' \subseteq DOMAIN fenceResources \cup {nextFenceID}
          /\ \A f \in IssuedFences : Pins(f)' = Pins(f)
          /\ \A f : f = nextFenceID => Pins(f)' = named
          /\ \A f \in DOMAIN fenceResources' : fenceResources'[f] = Pins(f)'
        <3>1. CASE named = {}
            BY <1>2, <2>1, <2>2, <3>1
        <3>2. CASE named # {}
            <4>1. fenceResources' = Put(fenceResources, nextFenceID, named)
                BY <2>1, <3>2
            <4>2. /\ DOMAIN fenceResources' = DOMAIN fenceResources \cup {nextFenceID}
                  /\ fenceResources'[nextFenceID] = named
                  /\ \A f \in DOMAIN fenceResources : f # nextFenceID =>
                        fenceResources'[f] = fenceResources[f]
                BY <4>1 DEF Put
            <4> QED
                BY <1>2, <2>2, <4>2
        <3> QED
            BY <3>1, <3>2
    <2>5. /\ DOMAIN frameImages' \subseteq DOMAIN frameImages \cup {nextFenceID}
          /\ \A f \in DOMAIN frameImages : frameImages'[f] = frameImages[f]
          /\ nextFenceID \in DOMAIN frameImages' =>
                 frameImages'[nextFenceID] \in named \cap DOMAIN images
        BY <1>2, <2>1, <2>2 DEF Put
    <2>6. PhaseOK'
        BY <1>2, <2>1, <2>2
    <2>7. CommandsOK'
        <3> HIDE DEF Pins
        <3>1. \A f \in fences' : gpu'[f].named \subseteq Pins(f)'
            BY <1>2, <2>1, <2>3, <2>4
        <3>2. \A f \in IssuedFences' : Running(f)' => f \in commandBuffers' \cup {waiting'}
            BY <1>2, <2>1, <2>2, <2>3
        <3> QED
            BY <1>2, <2>1, <3>1, <3>2
    <2>8. PinnedResourcesLive'
        BY <1>2, <2>1, <2>2, <2>4
    <2>9. FencesBacked' /\ RetiredFencesCompleted' /\ PublishedFrameFinished'
        BY <1>2, <2>1, <2>2, <2>3
    <2>10. FrameTargetsNamed' /\ FrameTargetsLive'
        BY <1>2, <2>1, <2>2, <2>3, <2>5
    <2> QED
        BY <2>6, <2>7, <2>8, <2>9, <2>10
<1>7. ASSUME NEW f \in 0..MaxFenceID, WaitBegin(f) PROVE FenceInv'
    BY <1>2, <1>3, <1>7
       DEF WaitBegin, MtlTakeCommandBuffer, sessionTables, counters, mtlTables, mtlFrames
<1>8. CASE WaitCompleted
    <2>1. /\ phase = "waiting" /\ phase' = "serving" /\ waiting' = 0
          /\ gpu[waiting].status = "completed"
          /\ fences' = fences \ {waiting}
          /\ fenceResources' = Drop(fenceResources, waiting)
          /\ frameImages' = Drop(frameImages, waiting)
          /\ lastFrame' \in {lastFrame, waiting}
          /\ UNCHANGED <<resources, images, commandBuffers, gpu, nextFenceID>>
        BY <1>8 DEF WaitCompleted, WaitedFor, Resume, MtlHarvest, PublishFrame, counters, mtlTables
    <2>2. /\ DOMAIN fenceResources' = DOMAIN fenceResources \ {waiting}
          /\ \A f \in DOMAIN fenceResources' : fenceResources'[f] = fenceResources[f]
          /\ DOMAIN frameImages' = DOMAIN frameImages \ {waiting}
          /\ \A f \in DOMAIN frameImages' : frameImages'[f] = frameImages[f]
        BY <2>1 DEF Drop
    <2> QED
        BY <1>2, <1>3, <2>1, <2>2
<1>9. CASE WaitFailed
    BY <1>2, <1>3, <1>9
       DEF WaitFailed, WaitedFor, Resume, sessionTables, counters, mtlVars, mtlTables, mtlFrames
<1>10. CASE Shutdown \/ Disconnect
    BY <1>2, <1>3, <1>10
       DEF Shutdown, Disconnect, ClearTables, EmptyTable, counters, mtlVars, mtlTables, mtlFrames
<1>11. CASE ResetDone
    BY <1>2, <1>3, <1>11 DEF ResetDone, CanReset, MtlReset, EmptyTable, counters
<1>12. ASSUME NEW f \in 1..MaxFenceID, Gpu(f) PROVE FenceInv'
    <2>1. PICK outcome \in {"completed", "error"} : GpuFinish(f, outcome)
        BY <1>12 DEF Gpu
    <2>2. gpu[f].status = "running" /\ gpu' = [gpu EXCEPT ![f].status = outcome]
        BY <2>1 DEF GpuFinish
    <2>3. /\ DOMAIN gpu' = DOMAIN gpu
          /\ \A g \in DOMAIN gpu : gpu'[g].named = gpu[g].named /\ (g # f => gpu'[g] = gpu[g])
          /\ gpu'[f].status # "running"
        <3>1. f \in IssuedFences /\ gpu[f] \in Command
            BY <1>2, <2>1 DEF GpuFinish
        <3>2. gpu'[f] = [gpu[f] EXCEPT !.status = outcome]
            BY <1>2, <2>2, <3>1
        <3>3. gpu'[f].named = gpu[f].named /\ gpu'[f].status = outcome
            BY <3>1, <3>2 DEF Command
        <3> QED
            BY <1>2, <2>2, <3>3
    <2>4. UNCHANGED <<phase, waiting, resources, fences, fenceResources, images, commandBuffers,
                      frameImages, lastFrame, nextFenceID>>
        BY <1>12 DEF Gpu, sessionVars, sessionTables, counters, mtlTables, mtlFrames
    <2> QED
        BY <1>2, <1>3, <2>2, <2>3, <2>4
<1> QED
    BY <1>1, <1>4, <1>5, <1>6, <1>7, <1>8, <1>9, <1>10, <1>11, <1>12, AloneSteps DEF Step, SomeCommit

-----------------------------------------------------------------------------
(* Objects.                                                                *)

\* The session's tables and the backend's change together.
LEMMA TablesKept ==
    ASSUME IInv, [Next]_vars
    PROVE  TablesAgree'
<1> USE DEF TablesAgree, OfKind, Answering
<1>1. Step
    BY NextSteps
<1>2. TablesAgree /\ IsTable(resources, IssuedIDs, Resource)
    BY DEF IInv, ObjectInv, TypeOK, SessionTypeOK
<1>3. CASE UNCHANGED <<phase, resources, mtlTables>>
    BY <1>2, <1>3 DEF mtlTables
<1>4. ASSUME NEW range \in HelloRanges, Hello(range) PROVE TablesAgree'
    BY <1>2, <1>4 DEF Hello, sessionTables, mtlVars, mtlTables
<1>5. ASSUME NEW desc \in ClientDescs, Create(desc) PROVE TablesAgree'
    <2>1. /\ Answering /\ Answering'
          /\ resources' = Put(resources, nextResourceID, desc)
          /\ MtlCreate(nextResourceID, desc)
        BY <1>5 DEF Create, Register
    <2>2. nextResourceID \notin DOMAIN resources
        BY <1>2 DEF IsTable, IInv, TypeOK, SessionTypeOK, IssuedIDs
    <2>3. /\ DOMAIN resources' = DOMAIN resources \cup {nextResourceID}
          /\ resources'[nextResourceID] = desc
          /\ \A id \in DOMAIN resources : resources'[id] = resources[id]
        BY <2>1, <2>2 DEF Put
    <2>4. desc.kind \in {"buffer", "pipeline", "image", "accel"}
        BY SessionAssumption DEF Resource
    <2> HIDE DEF OfKind
    <2>5. \A kind : OfKind(kind)' = IF desc.kind = kind THEN OfKind(kind) \cup {nextResourceID}
                                                       ELSE OfKind(kind)
        BY <2>2, <2>3 DEF OfKind
    <2>6. CASE desc.kind = "buffer" \/ desc.kind = "pipeline"
        <3>1. /\ buffers' = IF desc.kind = "buffer" THEN buffers \cup {nextResourceID} ELSE buffers
              /\ computePipelines' = IF desc.kind = "pipeline"
                                     THEN computePipelines \cup {nextResourceID}
                                     ELSE computePipelines
              /\ UNCHANGED <<images, accelerationStructures>>
            BY <2>1, <2>6 DEF MtlCreate, MtlCreateBuffer, MtlCreateComputePipeline
        <3>2. OfKind("image") \cup OfKind("accel") \subseteq DOMAIN resources
            BY DEF OfKind
        <3> QED
            BY <1>2, <2>1, <2>3, <2>5, <2>6, <3>1, <3>2
    <2>7. CASE desc.kind = "image"
        <3>1. UNCHANGED <<buffers, computePipelines, accelerationStructures>>
            BY <2>1, <2>7 DEF MtlCreate, MtlCreateImage
        <3>2. /\ DOMAIN images' = DOMAIN images \cup {nextResourceID}
              /\ images'[nextResourceID].format = desc.format
              /\ images'[nextResourceID].sparse = desc.sparse
              /\ \A id \in DOMAIN images : id # nextResourceID => images'[id] = images[id]
            BY <2>1, <2>7 DEF MtlCreate, MtlCreateImage, Put
        <3>3. OfKind("image") \cup OfKind("accel") \subseteq DOMAIN resources
            BY DEF OfKind
        <3> QED
            BY <1>2, <2>1, <2>2, <2>3, <2>5, <2>7, <3>1, <3>2, <3>3
    <2>8. CASE desc.kind = "accel"
        <3>1. UNCHANGED <<buffers, computePipelines, images>>
            BY <2>1, <2>8 DEF MtlCreate, MtlCreateAccelerationStructure
        <3>2. /\ DOMAIN accelerationStructures' = DOMAIN accelerationStructures \cup {nextResourceID}
              /\ accelerationStructures'[nextResourceID].type = desc.format
              /\ \A id \in DOMAIN accelerationStructures :
                    id # nextResourceID => accelerationStructures'[id] = accelerationStructures[id]
            BY <2>1, <2>8 DEF MtlCreate, MtlCreateAccelerationStructure, Put
        <3>3. OfKind("image") \cup OfKind("accel") \subseteq DOMAIN resources
            BY DEF OfKind
        <3> QED
            BY <1>2, <2>1, <2>2, <2>3, <2>5, <2>8, <3>1, <3>2, <3>3
    <2> QED
        BY <2>4, <2>6, <2>7, <2>8
<1>6. ASSUME NEW id \in Requested, DestroyResource(id) PROVE TablesAgree'
    <2>1. /\ id \in DOMAIN resources /\ Answering /\ Answering'
          /\ MtlDestroy(id, resources[id].kind)
          /\ resources' = Drop(resources, id)
        BY <1>6 DEF DestroyResource
    <2>2. /\ DOMAIN resources' = DOMAIN resources \ {id}
          /\ \A j \in DOMAIN resources' : resources'[j] = resources[j]
        BY <2>1 DEF Drop
    <2>3. \A kind : OfKind(kind)' = OfKind(kind) \ {id}
        BY <2>2
    <2>4. resources[id].kind \in {"buffer", "pipeline", "image", "accel"}
        BY <1>2, <2>1 DEF IsTable, Resource
    <2>5. /\ buffers' = buffers \ {id}
          /\ computePipelines' = computePipelines \ {id}
        BY <1>2, <2>1, <2>4 DEF MtlDestroy
    <2>6. /\ DOMAIN images' = DOMAIN images \ {id}
          /\ \A j \in DOMAIN images' : images'[j] = images[j]
        BY <1>2, <2>1, <2>4 DEF MtlDestroy, Drop
    <2>7. /\ DOMAIN accelerationStructures' = DOMAIN accelerationStructures \ {id}
          /\ \A j \in DOMAIN accelerationStructures' :
                accelerationStructures'[j] = accelerationStructures[j]
        BY <1>2, <2>1, <2>4 DEF MtlDestroy, Drop
    <2>8. OfKind("image") \cup OfKind("accel") \subseteq DOMAIN resources
        OBVIOUS
    <2> HIDE DEF OfKind
    <2> QED
        BY <1>2, <2>1, <2>2, <2>3, <2>5, <2>6, <2>7, <2>8
<1>7. ASSUME NEW id \in Requested, NEW children, NEW materials, Rebuilds(id, children, materials) PROVE TablesAgree'
    <2>1. IsTable(accelerationStructures, IssuedIDs, Accel)
        BY DEF IInv, TypeOK, BackendTypeOK
    <2>2. /\ DOMAIN accelerationStructures' = DOMAIN accelerationStructures
          /\ \A j \in DOMAIN accelerationStructures :
                accelerationStructures'[j].type = accelerationStructures[j].type
        BY <1>7, <2>1 DEF Rebuilds, MtlBuildInstance, IsTable, Accel
    <2> QED
        BY <1>2, <1>7, <2>2 DEF Rebuilds, sessionVars, sessionTables
<1>8. CASE SomeEnd \/ SomeTear
    <2>1. IsTable(images, IssuedIDs, Texture)
        BY DEF IInv, TypeOK, BackendTypeOK
    <2>2. PICK id, data, torn :
              /\ id \in DOMAIN images
              /\ images' = [images EXCEPT ![id].texels = data, ![id].torn = torn]
        BY <1>8 DEF SomeEnd, SomeTear, WriteImageEnd, WriteImageTears, MtlWriteImage, MtlTearImage,
                    CanWriteImage
    <2>3. /\ DOMAIN images' = DOMAIN images
          /\ \A j \in DOMAIN images :
                images'[j].format = images[j].format /\ images'[j].sparse = images[j].sparse
        <3>1. images[id] \in Texture
            BY <2>1, <2>2 DEF IsTable
        <3>2. images'[id] = [images[id] EXCEPT !.texels = data, !.torn = torn]
            BY <2>1, <2>2 DEF IsTable
        <3>3. images'[id].format = images[id].format /\ images'[id].sparse = images[id].sparse
            BY <3>1, <3>2 DEF Texture
        <3> QED
            BY <2>1, <2>2, <3>3 DEF IsTable
    <2>4. UNCHANGED <<phase, resources, buffers, computePipelines, accelerationStructures>>
        BY <1>8 DEF SomeEnd, SomeTear, WriteImageEnd, WriteImageTears, MtlWriteImage, MtlTearImage,
                    UploadTouchesOnly
    <2> QED
        BY <1>2, <2>3, <2>4
<1>9. CASE \/ Quiet \/ SomeChunk \/ SomeCommit
           \/ (\E f \in 1..MaxFenceID : Gpu(f))
    <2> USE DEF sessionVars, sessionTables, mtlVars
    <2>1. CASE Quiet
        BY <1>3, <2>1 DEF Quiet
    <2>2. CASE SomeChunk
        BY <1>3, <2>2 DEF SomeChunk, WriteImageChunk, UploadTouchesOnly
    <2>3. CASE SomeCommit
        BY <1>3, <2>3 DEF SomeCommit, Commits, IssueFence
    <2>4. CASE \E f \in 1..MaxFenceID : Gpu(f)
        BY <1>3, <2>4 DEF Gpu
    <2> QED
        BY <1>9, <2>1, <2>2, <2>3, <2>4
<1>10. CASE (\E f \in 0..MaxFenceID : WaitBegin(f)) \/ WaitCompleted \/ WaitFailed
    <2> USE DEF sessionTables, mtlVars, mtlTables
    <2>1. CASE \E f \in 0..MaxFenceID : WaitBegin(f)
        BY <1>2, <2>1 DEF WaitBegin
    <2>2. CASE WaitCompleted
        BY <1>2, <2>2 DEF WaitCompleted, WaitedFor
    <2>3. CASE WaitFailed
        BY <1>2, <2>3 DEF WaitFailed, WaitedFor
    <2> QED
        BY <1>10, <2>1, <2>2, <2>3
<1>11. CASE Shutdown \/ Disconnect \/ ResetDone
    BY <1>11 DEF Shutdown, Disconnect, ResetDone
<1> QED
    BY <1>1, <1>4, <1>5, <1>6, <1>7, <1>8, <1>9, <1>10, <1>11 DEF Step

\* Uploads are received contiguously, so what reaches a texture is one upload.
LEMMA UploadsKept ==
    ASSUME IInv, [Next]_vars
    PROVE  UploadsArePrefixes' /\ TexturesWhole'
<1> USE DEF UploadsArePrefixes, TexturesWhole
<1>1. Step
    BY NextSteps
<1>2. /\ UploadsArePrefixes /\ TexturesWhole
      /\ IsTable(imageUploads, IssuedIDs, Upload)
      /\ IsTable(images, IssuedIDs, Texture)
    BY DEF IInv, ObjectInv, TypeOK, SessionTypeOK, BackendTypeOK
<1>3. ASSUME NEW id, NEW from \in 0..ImageUnits, NEW to \in 0..ImageUnits, AcceptsChunk(id, from, to)
      PROVE  LET received == Received(UploadAt(id, from), from, to)
             IN  /\ received.next = to
                 /\ \A u \in Units : received.data[u] = IF u < to THEN received.epoch ELSE 0
    <2> DEFINE upload == UploadAt(id, from)
               data == [u \in Units |-> IF from <= u /\ u < to THEN upload.epoch ELSE upload.data[u]]
    <2>1. /\ upload = [data |-> upload.data, next |-> from, epoch |-> upload.epoch]
          /\ \A u \in Units : upload.data[u] = IF u < from THEN upload.epoch ELSE 0
        <3>1. CASE from = 0
            BY <3>1 DEF UploadAt, Units
        <3>2. CASE from # 0
            BY <1>2, <1>3, <3>2 DEF UploadAt, AcceptsChunk, Continues, Contiguous, IsTable, Upload
        <3> QED
            BY <3>1, <3>2
    <2>2. Received(upload, from, to) = [upload EXCEPT !.data = data, !.next = to]
        BY <2>1 DEF Received
    <2> HIDE DEF upload
    <2>3. \A u \in Units : data[u] = IF u < to THEN upload.epoch ELSE 0
        BY <1>3, <2>1, BackendAssumption DEF Units, AcceptsChunk
    <2> HIDE DEF data
    <2>4. Received(upload, from, to) = [data |-> data, next |-> to, epoch |-> upload.epoch]
        BY <2>1, <2>2
    <2> QED
        BY <2>3, <2>4 DEF upload
<1>4. CASE UNCHANGED <<imageUploads, images>>
    BY <1>2, <1>4
<1>5. ASSUME NEW desc \in ClientDescs, Create(desc)
      PROVE  UploadsArePrefixes' /\ TexturesWhole'
    <2>1. UNCHANGED imageUploads
        BY <1>5 DEF Create, Register
    <2>2. \/ UNCHANGED images
          \/ images' = Put(images, nextResourceID,
                           [format |-> desc.format, sparse |-> desc.sparse, torn |-> FALSE,
                            texels |-> [u \in Units |-> 0]])
        BY <1>5 DEF Create, MtlCreate, MtlCreateBuffer, MtlCreateImage, MtlCreateComputePipeline,
                    MtlCreateAccelerationStructure
    <2> QED
        BY <1>2, <2>1, <2>2 DEF Put
<1>6. ASSUME NEW id \in Requested, DestroyResource(id)
      PROVE  UploadsArePrefixes' /\ TexturesWhole'
    BY <1>2, <1>6 DEF DestroyResource, MtlDestroy, Drop
<1>7. CASE SomeChunk
    <2>1. PICK id \in DOMAIN resources, from \in 0..ImageUnits, to \in 0..ImageUnits :
              WriteImageChunk(id, from, to)
        BY <1>7 DEF SomeChunk
    <2> DEFINE received == Received(UploadAt(id, from), from, to)
    <2>2. /\ imageUploads' = Put(imageUploads, id, received)
          /\ AcceptsChunk(id, from, to)
          /\ UNCHANGED images
        BY <2>1 DEF WriteImageChunk, mtlTables
    <2>3. /\ received.next = to
          /\ \A u \in Units : received.data[u] = IF u < to THEN received.epoch ELSE 0
        BY <1>3, <2>2
    <2> HIDE DEF received
    <2>4. /\ DOMAIN imageUploads' = DOMAIN imageUploads \cup {id}
          /\ imageUploads'[id] = received
          /\ \A j \in DOMAIN imageUploads : j # id => imageUploads'[j] = imageUploads[j]
        BY <2>2 DEF Put
    <2> QED
        BY <1>2, <2>2, <2>3, <2>4
<1>8. CASE SomeEnd
    <2>1. PICK id \in DOMAIN resources, from \in 0..ImageUnits : WriteImageEnd(id, from)
        BY <1>8 DEF SomeEnd
    <2> DEFINE received == Received(UploadAt(id, from), from, ImageUnits)
    <2>2. /\ images' = [images EXCEPT ![id].texels = received.data, ![id].torn = FALSE]
          /\ imageUploads' = Drop(imageUploads, id)
          /\ id \in DOMAIN images
          /\ AcceptsChunk(id, from, ImageUnits)
        BY <2>1 DEF WriteImageEnd, MtlWriteImage, CanWriteImage
    <2>3. \A u \in Units : received.data[u] = received.epoch
        BY <1>3, <2>2, BackendAssumption DEF Units
    <2> HIDE DEF received
    <2>4. /\ DOMAIN images' = DOMAIN images
          /\ images'[id].texels = received.data
          /\ \A j \in DOMAIN images : j # id => images'[j] = images[j]
        BY <1>2, <2>2 DEF IsTable, Texture
    <2>5. TexturesWhole'
        BY <1>2, <2>3, <2>4
    <2>6. UploadsArePrefixes'
        BY <1>2, <2>2 DEF Drop
    <2> QED
        BY <2>5, <2>6
<1>9. CASE SomeTear
    <2>1. PICK id, texels :
              /\ id \in DOMAIN images
              /\ images' = [images EXCEPT ![id].texels = texels, ![id].torn = TRUE]
        BY <1>9 DEF SomeTear, WriteImageTears, MtlTearImage, CanWriteImage
    <2>2. /\ DOMAIN images' = DOMAIN images
          /\ images'[id].torn
          /\ \A j \in DOMAIN images : j # id => images'[j] = images[j]
        BY <1>2, <2>1 DEF IsTable, Texture
    <2>3. UNCHANGED imageUploads
        BY <1>9 DEF SomeTear, WriteImageTears
    <2> QED
        BY <1>2, <2>2, <2>3
<1>10. CASE Disconnect
    BY <1>2, <1>10 DEF Disconnect, EmptyTable, mtlVars, mtlTables
<1>11. CASE ResetDone
    BY <1>11 DEF ResetDone, MtlReset, EmptyTable
<1>12. CASE \/ Quiet \/ (\E range \in HelloRanges : Hello(range))
           \/ (\E id \in Requested : \E children, materials : Rebuilds(id, children, materials))
           \/ SomeCommit
           \/ (\E f \in 0..MaxFenceID : WaitBegin(f)) \/ WaitCompleted \/ WaitFailed \/ Shutdown
           \/ (\E f \in 1..MaxFenceID : Gpu(f))
    BY <1>4, <1>12 DEF Quiet, Hello, Rebuilds, SomeCommit, Commits, IssueFence, WaitBegin, WaitCompleted,
           WaitFailed, Shutdown, Gpu, sessionVars, sessionTables, mtlVars, mtlTables
<1> QED
    BY <1>1, <1>5, <1>6, <1>7, <1>8, <1>9, <1>10, <1>11, <1>12 DEF Step

\* IDs are not issued again, so an ID an instance structure keeps names the
\* structure it was built from or nothing.
LEMMA ChildrenKept ==
    ASSUME IInv, [Next]_vars
    PROVE  ChildrenStayInstanceable'
<1> USE DEF ChildrenStayInstanceable, Instanceable, Built
<1>1. Step
    BY NextSteps
<1>2. /\ ChildrenStayInstanceable
      /\ IsTable(accelerationStructures, IssuedIDs, Accel)
      /\ nextResourceID \in Nat \ {0}
    BY DEF IInv, ObjectInv, TypeOK, SessionTypeOK, BackendTypeOK
<1>3. CASE /\ UNCHANGED <<buffers, computePipelines, accelerationStructures, nextResourceID>>
           /\ DOMAIN images' = DOMAIN images
    BY <1>2, <1>3
<1>4. ASSUME NEW desc \in ClientDescs, Create(desc) PROVE ChildrenStayInstanceable'
    <2>1. /\ nextResourceID' = nextResourceID + 1
          /\ buffers' \subseteq buffers \cup {nextResourceID}
          /\ computePipelines' \subseteq computePipelines \cup {nextResourceID}
          /\ DOMAIN images' \subseteq DOMAIN images \cup {nextResourceID}
          /\ \/ UNCHANGED accelerationStructures
             \/ accelerationStructures' = Put(accelerationStructures, nextResourceID,
                     [type |-> desc.format, built |-> FALSE, children |-> {}, materials |-> {}])
        BY <1>4 DEF Create, Register, MtlCreate, MtlCreateBuffer, MtlCreateImage,
               MtlCreateComputePipeline, MtlCreateAccelerationStructure, Put
    <2>2. nextResourceID \notin DOMAIN accelerationStructures
        BY <1>2 DEF IsTable, IssuedIDs
    <2>3. /\ DOMAIN accelerationStructures \subseteq DOMAIN accelerationStructures'
          /\ \A a \in DOMAIN accelerationStructures :
                accelerationStructures'[a] = accelerationStructures[a]
          /\ \A a \in DOMAIN accelerationStructures' :
                a \notin DOMAIN accelerationStructures =>
                    a = nextResourceID /\ accelerationStructures'[a].children = {}
        BY <2>1, <2>2 DEF Put
    <2>4. ASSUME NEW a \in DOMAIN accelerationStructures',
                 NEW c \in accelerationStructures'[a].children
          PROVE  /\ c < nextResourceID'
                 /\ c \in buffers' \cup DOMAIN images' \cup computePipelines'
                         \cup DOMAIN accelerationStructures' => Instanceable(c)'
        <3>1. a \in DOMAIN accelerationStructures /\ c \in accelerationStructures[a].children
            BY <2>3, <2>4
        <3>2. c \in Nat /\ c < nextResourceID /\ c # nextResourceID
            BY <1>2, <3>1 DEF IsTable, Accel, IssuedIDs
        <3> QED
            BY <1>2, <2>1, <2>3, <3>1, <3>2
    <2> QED
        BY <2>4
<1>5. ASSUME NEW id \in Requested, DestroyResource(id) PROVE ChildrenStayInstanceable'
    <2>1. /\ nextResourceID' = nextResourceID
          /\ id \in DOMAIN resources
          /\ MtlDestroy(id, resources[id].kind)
          /\ resources[id].kind \in {"buffer", "image", "pipeline", "accel"}
          /\ TablesAgree /\ Answering
        BY <1>5 DEF DestroyResource, counters, Answering, IInv, ObjectInv, TypeOK, SessionTypeOK,
                    IsTable, Resource
    <2>2. /\ buffers' = buffers \ {id} /\ computePipelines' = computePipelines \ {id}
          /\ DOMAIN images' = DOMAIN images \ {id}
          /\ DOMAIN accelerationStructures' = DOMAIN accelerationStructures \ {id}
          /\ \A a \in DOMAIN accelerationStructures' :
                accelerationStructures'[a] = accelerationStructures[a]
        BY <2>1 DEF MtlDestroy, Drop, TablesAgree, OfKind
    <2> QED
        BY <1>2, <2>1, <2>2
<1>6. ASSUME NEW id \in Requested, NEW children, NEW materials, Rebuilds(id, children, materials)
      PROVE  ChildrenStayInstanceable'
    <2>1. /\ UNCHANGED <<buffers, images, computePipelines, nextResourceID>>
          /\ id \in DOMAIN accelerationStructures
          /\ \A c \in children : Instanceable(c)
        BY <1>6 DEF Rebuilds, sessionVars, counters
    <2>2. /\ DOMAIN accelerationStructures' = DOMAIN accelerationStructures
          /\ \A a \in DOMAIN accelerationStructures :
                /\ accelerationStructures'[a].type = accelerationStructures[a].type
                /\ accelerationStructures[a].built => accelerationStructures'[a].built
                /\ a # id => accelerationStructures'[a] = accelerationStructures[a]
          /\ accelerationStructures'[id].children = children
        BY <1>2, <1>6 DEF Rebuilds, MtlBuildInstance, IsTable, Accel
    <2>3. \A c : Instanceable(c) => Instanceable(c)' /\ c \in IssuedIDs
        BY <1>2, <2>2 DEF IsTable
    <2> QED
        BY <1>2, <2>1, <2>2, <2>3 DEF IssuedIDs
<1>7. CASE ResetDone
    BY <1>7 DEF ResetDone, MtlReset, EmptyTable
<1>8. CASE Quiet \/ \E range \in HelloRanges : Hello(range)
    BY <1>3, <1>8 DEF Quiet, Hello, sessionVars, sessionTables, counters, mtlVars, mtlTables
<1>9. CASE SomeChunk \/ SomeEnd \/ SomeTear
    <2>1. UNCHANGED <<buffers, computePipelines, accelerationStructures, nextResourceID>>
          /\ DOMAIN images' = DOMAIN images
        <3>1. CASE SomeChunk
            BY <3>1 DEF SomeChunk, WriteImageChunk, UploadTouchesOnly, mtlVars, mtlTables
        <3>2. CASE SomeEnd
            BY <3>2 DEF SomeEnd, WriteImageEnd, UploadTouchesOnly, MtlWriteImage
        <3>3. CASE SomeTear
            BY <3>3 DEF SomeTear, WriteImageTears, UploadTouchesOnly, MtlTearImage
        <3> QED
            BY <1>9, <3>1, <3>2, <3>3
    <2> QED
        BY <1>3, <2>1
<1>10. CASE \/ SomeCommit
            \/ \E f \in 0..MaxFenceID : WaitBegin(f)
            \/ WaitCompleted \/ WaitFailed
    BY <1>3, <1>10 DEF SomeCommit, Commits, IssueFence, WaitBegin, WaitCompleted, WaitFailed, sessionVars,
           sessionTables, counters, mtlVars, mtlTables
<1>11. CASE Shutdown \/ Disconnect \/ \E f \in 1..MaxFenceID : Gpu(f)
    BY <1>3, <1>11 DEF Shutdown, Disconnect, Gpu, sessionVars, sessionTables, counters, mtlVars,
           mtlTables
<1> QED
    BY <1>1, <1>4, <1>5, <1>6, <1>7, <1>8, <1>9, <1>10, <1>11 DEF Step

LEMMA ReleasedKept ==
    ASSUME IInv, [Next]_vars
    PROVE  ClosedMeansReleased'
<1> USE DEF ClosedMeansReleased
<1>1. Step
    BY NextSteps
<1>2. /\ ClosedMeansReleased /\ PhaseOK /\ CommandsOK
      /\ DOMAIN gpu = IssuedFences
    BY DEF IInv, ObjectInv, FenceInv, TypeOK, BackendTypeOK
<1>3. CASE ResetDone
    <2>1. /\ phase = "resetting"
          /\ \A f \in commandBuffers : ~Running(f)
          /\ MtlReset /\ imageUploads' = EmptyTable
          /\ UNCHANGED <<resources, fences, fenceResources, gpu>>
        BY <1>3 DEF ResetDone, CanReset
    <2>2. fences \cup DOMAIN resources \cup DOMAIN fenceResources = {} /\ waiting = 0
        BY <1>2, <2>1 DEF PhaseOK, Answering
    <2>3. \A f \in DOMAIN gpu : ~Running(f)
        BY <1>2, <2>1, <2>2 DEF CommandsOK, IssuedFences
    <2> QED
        BY <2>1, <2>2, <2>3 DEF MtlReset, EmptyTable, Running
<1>4. CASE Quiet
    BY <1>2, <1>4 DEF Quiet, sessionVars, sessionTables, mtlVars, mtlTables, mtlFrames, Running
<1>5. ASSUME NEW f \in 1..MaxFenceID, Gpu(f) PROVE ClosedMeansReleased'
    <2>1. phase # "closed" /\ UNCHANGED phase
        BY <1>2, <1>5 DEF Gpu, GpuFinish, Running, sessionVars
    <2> QED
        BY <2>1
<1>6. CASE \/ (\E range \in HelloRanges : Hello(range))
           \/ (\E desc \in ClientDescs : Create(desc))
           \/ (\E id \in Requested : DestroyResource(id))
           \/ (\E id \in Requested : \E children, materials : Rebuilds(id, children, materials))
           \/ SomeChunk \/ SomeEnd \/ SomeTear
           \/ SomeCommit
           \/ (\E f \in 0..MaxFenceID : WaitBegin(f)) \/ WaitCompleted \/ WaitFailed
           \/ Shutdown \/ Disconnect
    BY <1>6 DEF Hello, Create, Register, DestroyResource, Rebuilds, SomeChunk, SomeEnd, SomeTear,
           SomeCommit, WriteImageChunk, WriteImageEnd, WriteImageTears, AcceptsChunk, UploadTouchesOnly,
           SomeCommit, Commits, IssueFence, WaitBegin, WaitCompleted, WaitFailed, Resume, Shutdown, Disconnect,
           sessionVars
<1> QED
    BY <1>1, <1>3, <1>4, <1>5, <1>6 DEF Step

-----------------------------------------------------------------------------
(* The theorems.                                                           *)

\* The inductive invariant holds of every behaviour, whatever the bounds.
THEOREM Invariance == Spec => []IInv
<1>1. Init => IInv
    BY InitInv
<1>2. IInv /\ [Next]_vars => IInv'
    <2> SUFFICES ASSUME IInv, [Next]_vars PROVE IInv'
        OBVIOUS
    <2>1. TypeOK'
        BY StepTyped DEF IInv
    <2>2. FenceInv'
        BY FencesKept
    <2>3. ObjectInv'
        BY TablesKept, UploadsKept, ChildrenKept, ReleasedKept DEF ObjectInv
    <2> QED
        BY <2>1, <2>2, <2>3 DEF IInv
<1> QED
    BY <1>1, <1>2, PTL DEF Spec

\* While the GPU may still run a command, the session answers for its fence, and
\* nothing its request named can be destroyed under it.  Of a ray trace that is
\* the target, the structure and the light images: the children and the material
\* images of the structure (borrowed) are not in the claim, and are not pinned.
THEOREM CommandsArePinned == Spec => []UnfinishedCommandsPinned
<1>1. IInv => UnfinishedCommandsPinned
    <2> SUFFICES ASSUME IInv, Answering, NEW f \in DOMAIN gpu, Running(f)
                 PROVE  f \in fences /\ gpu[f].named \subseteq Pins(f) \cap DOMAIN resources
        BY DEF UnfinishedCommandsPinned
    <2>1. f \in IssuedFences /\ f # 0
        BY DEF IInv, TypeOK, BackendTypeOK, IssuedFences
    <2>2. f \in fences /\ gpu[f].named \subseteq Pins(f)
        BY <2>1 DEF IInv, FenceInv, PhaseOK, CommandsOK
    <2>3. Pins(f) \subseteq DOMAIN resources
        BY DEF IInv, FenceInv, PinnedResourcesLive, Pins
    <2> QED
        BY <2>2, <2>3
<1> QED
    BY <1>1, Invariance, PTL

\* What a fence pins is alive until the fence is retired.
THEOREM PinsAreLive == Spec => []PinnedResourcesLive
<1>1. IInv => PinnedResourcesLive
    BY DEF IInv, FenceInv
<1> QED
    BY <1>1, Invariance, PTL

\* A fence the client may wait for can be waited on, or its failure was reported.
THEOREM FencesAreBacked == Spec => []FencesBacked
<1>1. IInv => FencesBacked
    BY DEF IInv, FenceInv
<1> QED
    BY <1>1, Invariance, PTL

\* A fence is retired only when its command completed: no failure is lost.
THEOREM FailuresAreReported == Spec => []RetiredFencesCompleted
<1>1. IInv => RetiredFencesCompleted
    BY DEF IInv, FenceInv
<1> QED
    BY <1>1, Invariance, PTL

\* The frame a wait publishes is of an image that is still there.
THEOREM FramesAreOfLiveTargets == Spec => []FrameTargetsLive
<1>1. IInv => FrameTargetsLive
    BY DEF IInv, FenceInv
<1> QED
    BY <1>1, Invariance, PTL

\* The frame in the viewer's file is of a command that completed and was waited
\* for.
THEOREM FramesAreFinished == Spec => []PublishedFrameFinished
<1>1. IInv => PublishedFrameFinished
    BY DEF IInv, FenceInv
<1> QED
    BY <1>1, Invariance, PTL

\* The session and the backend never disagree on what is live, nor on its kind.
THEOREM Agreement == Spec => []TablesAgree
<1>1. IInv => TablesAgree
    BY DEF IInv, ObjectInv
<1> QED
    BY <1>1, Invariance, PTL

\* However chunks, restarts and failures interleave, an upload is received as a
\* prefix.
THEOREM UploadsAreOrdered == Spec => []UploadsArePrefixes
<1>1. IInv => UploadsArePrefixes
    BY DEF IInv, ObjectInv
<1> QED
    BY <1>1, Invariance, PTL

\* A texture holds one whole upload unless a blit failed half way.
THEOREM UploadsAreWhole == Spec => []TexturesWhole
<1>1. IInv => TexturesWhole
    BY DEF IInv, ObjectInv
<1> QED
    BY <1>1, Invariance, PTL

\* An ID kept as a child of an instance structure never names anything else.
THEOREM ChildrenAreStable == Spec => []ChildrenStayInstanceable
<1>1. IInv => ChildrenStayInstanceable
    BY DEF IInv, ObjectInv
<1> QED
    BY <1>1, Invariance, PTL

\* A session that ended left nothing behind, and the GPU is done with it.
THEOREM EndReleasesAll == Spec => []ClosedMeansReleased
<1>1. IInv => ClosedMeansReleased
    BY DEF IInv, ObjectInv
<1> QED
    BY <1>1, Invariance, PTL

-----------------------------------------------------------------------------
(* The session implements the ledger.                                      *)

LEMMA LedgerStarts == Init => Ledger!LedgerInit
<1> SUFFICES ASSUME Init PROVE Ledger!LedgerInit
    OBVIOUS
<1>1. DOMAIN gpu = {} /\ DOMAIN resources = {} /\ fences = {} /\ Answering
    BY DEF Init, MtlInit, EmptyTable, Answering
<1> QED
    BY <1>1 DEF Init, Ledger!LedgerInit, EmptyTable, Ledger!EmptyTable

\* Every step is one of the ledger, or invisible in it.
LEMMA LedgerSteps ==
    ASSUME IInv, [Next]_vars
    PROVE  [Ledger!LedgerNext]_(Ledger!ledgerVars)
<1> DEFINE pending == [f \in fences |-> Pins(f)]
           finished == {f \in DOMAIN gpu : ~Running(f)}
           Same == /\ UNCHANGED <<nextResourceID, nextFenceID, gpu>>
                   /\ Answering' = Answering
                   /\ DOMAIN resources' = DOMAIN resources
                   /\ UNCHANGED <<fences, fenceResources>>
<1>1. Step
    BY NextSteps
<1>2. /\ TypeOK
      /\ nextResourceID \in Nat \ {0} /\ nextFenceID \in Nat \ {0}
      /\ fences \subseteq IssuedFences
      /\ DOMAIN fenceResources \subseteq IssuedFences
      /\ DOMAIN gpu = IssuedFences
      /\ gpu \in [IssuedFences -> Command]
    BY DEF IInv, TypeOK, SessionTypeOK, BackendTypeOK, IsTable
<1>3. UNCHANGED gpu => finished' = finished
    BY DEF Running
<1>4. UNCHANGED <<fences, fenceResources>> => pending' = pending
    BY DEF Pins
<1>5. CASE Same
    BY <1>3, <1>4, <1>5 DEF Ledger!ledgerVars
<1>6. CASE \/ Quiet \/ (\E range \in HelloRanges : Hello(range))
           \/ (\E id \in Requested : \E children, materials : Rebuilds(id, children, materials))
           \/ SomeChunk \/ SomeEnd \/ SomeTear
           \/ (\E f \in 0..MaxFenceID : WaitBegin(f)) \/ WaitFailed \/ ResetDone
    <2>1. Same
        BY <1>6 DEF Answering, Quiet, Hello, Rebuilds, SomeChunk, SomeEnd, SomeTear,
               WriteImageChunk, WriteImageEnd, WriteImageTears, AcceptsChunk, UploadTouchesOnly,
               WaitBegin, WaitFailed, WaitedFor, Resume, ResetDone, sessionVars, sessionTables,
               counters, mtlVars
    <2> QED
        BY <1>5, <2>1
<1>7. ASSUME NEW desc \in ClientDescs, Create(desc) PROVE Ledger!Create
    <2>1. /\ nextResourceID' = nextResourceID + 1
          /\ DOMAIN resources' = DOMAIN resources \cup {nextResourceID}
          /\ Answering /\ Answering'
          /\ UNCHANGED <<nextFenceID, gpu, fences, fenceResources>>
        BY <1>7 DEF Create, Register, Answering, Put
    <2>2. nextResourceID' - 1 = (nextResourceID - 1) + 1 /\ nextResourceID = (nextResourceID - 1) + 1
        BY <1>2, <2>1
    <2> QED
        BY <1>3, <1>4, <2>1, <2>2 DEF Ledger!Create
<1>8. ASSUME NEW id \in Requested, DestroyResource(id) PROVE Ledger!LedgerNext
    <2>1. /\ id \in DOMAIN resources
          /\ DOMAIN resources' = DOMAIN resources \ {id}
          /\ Answering /\ Answering'
          /\ UNCHANGED <<nextResourceID, nextFenceID, gpu, fences, fenceResources>>
        BY <1>8 DEF DestroyResource, Answering, Drop, counters
    <2>2. Ledger!Free(id)
        BY <1>8 DEF DestroyResource, Pinned, Pins, Ledger!Free
    <2>3. Ledger!Destroy(id)
        BY <1>3, <1>4, <2>1, <2>2 DEF Ledger!Destroy
    <2> QED
        BY <2>1, <2>3 DEF Ledger!LedgerNext
<1>9. ASSUME NEW named \in SUBSET DOMAIN resources, NEW borrowed \in Lent,
             Commits(named, borrowed) PROVE Ledger!LedgerNext
    <2>1. /\ fences' = fences \cup {nextFenceID}
          /\ fenceResources' = IF named = {} THEN fenceResources
                                             ELSE Put(fenceResources, nextFenceID, named)
          /\ gpu' = Put(gpu, nextFenceID, [status |-> "running", named |-> named, borrowed |-> borrowed])
          /\ nextFenceID' = nextFenceID + 1
          /\ Answering /\ Answering'
          /\ UNCHANGED <<resources, nextResourceID>>
        BY <1>9 DEF SomeCommit, Commits, IssueFence, MtlSubmit, MtlSubmitFrame, Commit, Answering
    <2>2. nextFenceID' - 1 = (nextFenceID - 1) + 1 /\ nextFenceID = (nextFenceID - 1) + 1
        BY <1>2, <2>1
    <2>3. nextFenceID \notin IssuedFences
        BY <1>2 DEF IssuedFences
    <2>4. finished' = finished
        <3>1. /\ DOMAIN gpu' = DOMAIN gpu \cup {nextFenceID}
              /\ \A f \in DOMAIN gpu : gpu'[f] = gpu[f]
              /\ gpu'[nextFenceID].status = "running"
            BY <1>2, <2>1, <2>3 DEF Put
        <3> QED
            BY <3>1 DEF Running
    <2>5. pending' = Put(pending, nextFenceID, named)
        <3>1. \A f \in fences : Pins(f)' = Pins(f)
            BY <1>2, <2>1, <2>3 DEF Pins, Put
        <3>2. \A f : f = nextFenceID => Pins(f)' = named
            BY <1>2, <2>1, <2>3 DEF Pins, Put
        <3> HIDE DEF Pins
        <3> QED
            BY <1>2, <2>1, <2>3, <3>1, <3>2 DEF Put
    <2>6. Ledger!Submit(named)
        BY <2>1, <2>2, <2>4, <2>5 DEF Ledger!Submit, Ledger!Put, Put
    <2> QED
        BY <2>6 DEF Ledger!LedgerNext
<1>10. CASE WaitCompleted
    <2>1. /\ waiting \in fences
          /\ gpu[waiting].status = "completed"
          /\ fences' = fences \ {waiting}
          /\ fenceResources' = Drop(fenceResources, waiting)
          /\ Answering /\ Answering'
          /\ UNCHANGED <<resources, nextResourceID, nextFenceID, gpu>>
        BY <1>10 DEF IInv, FenceInv, PhaseOK, WaitCompleted, WaitedFor, Resume, Answering, counters
    <2>2. waiting \in finished
        BY <1>2, <2>1 DEF Running
    <2>3. pending' = Drop(pending, waiting)
        BY <2>1 DEF Pins, Drop
    <2>4. Ledger!Retire(waiting)
        BY <1>3, <2>1, <2>2, <2>3 DEF Ledger!Retire, Ledger!Drop, Drop
    <2> QED
        BY <2>1, <2>4 DEF Ledger!LedgerNext
<1>11. CASE Shutdown \/ Disconnect
    <2>1. /\ Answering /\ ~Answering'
          /\ DOMAIN resources' = {} /\ fences' = {}
          /\ UNCHANGED <<nextResourceID, nextFenceID, gpu>>
        BY <1>11 DEF Shutdown, Disconnect, ClearTables, Answering, EmptyTable, counters, mtlVars
    <2>2. pending' = EmptyTable
        BY <2>1 DEF EmptyTable
    <2>3. Ledger!Close
        BY <1>3, <2>1, <2>2 DEF Ledger!Close, Ledger!EmptyTable, EmptyTable
    <2> QED
        BY <2>3 DEF Ledger!LedgerNext
<1>12. ASSUME NEW f \in 1..MaxFenceID, Gpu(f) PROVE Ledger!LedgerNext
    <2>1. PICK outcome \in {"completed", "error"} : GpuFinish(f, outcome)
        BY <1>12 DEF Gpu
    <2>2. /\ f \in IssuedFences /\ Running(f)
          /\ gpu' = [gpu EXCEPT ![f].status = outcome]
        BY <1>2, <2>1 DEF GpuFinish, Running
    <2>3. f \notin finished /\ finished' = finished \cup {f}
        BY <1>2, <2>2 DEF Running, Command
    <2>4. /\ UNCHANGED <<resources, fences, fenceResources, nextResourceID, nextFenceID>>
          /\ Answering' = Answering
        BY <1>12 DEF Gpu, sessionVars, sessionTables, counters, Answering
    <2>5. Ledger!Finish(f)
        BY <1>4, <2>3, <2>4 DEF Ledger!Finish
    <2> QED
        BY <2>2, <2>5 DEF Ledger!LedgerNext, IssuedFences
<1> QED
    BY <1>1, <1>6, <1>7, <1>8, <1>9, <1>10, <1>11, <1>12 DEF Step, Ledger!LedgerNext, SomeCommit

\* Whatever the client does and however the GPU fares, the session promises what
\* the ledger says: IDs are issued once, a resource a pending command named is not
\* destroyed, a fence is retired after its command finished, the end releases all.
THEOREM ImplementsLedger == Spec => LedgerSpec
<1>1. IInv /\ [Next]_vars => [Ledger!LedgerNext]_(Ledger!ledgerVars)
    BY LedgerSteps
<1> QED
    BY <1>1, LedgerStarts, Invariance, PTL DEF Spec, LedgerSpec, Ledger!LedgerSpec

=============================================================================
