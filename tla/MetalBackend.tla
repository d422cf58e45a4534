---------------------------- MODULE MetalBackend ----------------------------
(***************************************************************************)
(* MetalGPUBackend (host/Sources/IMBHostCore/MetalGPUBackend.swift): the   *)
(* host's tables of Metal objects, the command buffers it has committed    *)
(* and the GPU that executes them.                                         *)
(*                                                                         *)
(* An operator named Mtl... is the effect of one backend method that       *)
(* returns; the condition under which the method throws instead is the     *)
(* operator Can... beside it.  A Metal allocation may fail at any time, so *)
(* callers add a throwing alternative to every method that allocates.      *)
(*                                                                         *)
(* Data is abstract: a texture is a row of ImageUnits cells, and a cell    *)
(* holds the number of the upload that wrote it (0: never written); buffer *)
(* contents, sizes and shaders are left out.                               *)
(***************************************************************************)
EXTENDS Naturals, Tables

CONSTANTS
    ImageUnits,    \* cells of a texture: the tightly packed size, in upload chunks
    FrameOutput,   \* IMB_FRAME_OUTPUT names a file
    UIOnly         \* IMB_FRAME_OUTPUT_UI_ONLY is "1"

ASSUME BackendAssumption ==
    /\ ImageUnits \in Nat \ {0}
    /\ FrameOutput \in BOOLEAN
    /\ UIOnly \in BOOLEAN

VARIABLES
    buffers,                 \* IDs of live MTLBuffers
    images,                  \* ID -> texture
    computePipelines,        \* IDs of live MTLComputePipelineStates
    accelerationStructures,  \* ID -> acceleration structure
    commandBuffers,          \* fences whose command buffer nobody has waited for
    frameImages,             \* fence -> the target image a viewer may be shown
    frameOutputDisabled,     \* frameOutputDisabledAfterError
    lastFrame,               \* the fence whose frame the viewer file holds; 0: none
    gpu                      \* fence -> what the GPU knows of its command

mtlTables == <<buffers, images, computePipelines, accelerationStructures>>
mtlFrames == <<frameImages, frameOutputDisabled, lastFrame>>
mtlVars == <<mtlTables, commandBuffers, mtlFrames, gpu>>

Units == 0..(ImageUnits - 1)
Formats == {"rgba8", "bgra8", "rgba32f"}
AccelTypes == {"top", "bottom", "generic"}
GpuStatus == {"running", "completed", "error"}

MtlInit ==
    /\ buffers = {}
    /\ images = EmptyTable
    /\ computePipelines = {}
    /\ accelerationStructures = EmptyTable
    /\ commandBuffers = {}
    /\ frameImages = EmptyTable
    /\ frameOutputDisabled = FALSE
    /\ lastFrame = 0
    /\ gpu = EmptyTable

-----------------------------------------------------------------------------
(* Objects.  A create method refuses an ID the older kinds already use.    *)

CanCreate(id, kind) ==
    /\ id \notin buffers \cup DOMAIN images
    /\ kind \in {"pipeline", "accel"} => id \notin computePipelines
    /\ kind = "accel" => id \notin DOMAIN accelerationStructures

MtlCreateBuffer(id) ==
    /\ buffers' = buffers \cup {id}
    /\ UNCHANGED <<images, computePipelines, accelerationStructures>>

MtlCreateImage(id, format, sparse) ==
    /\ images' = Put(images, id,
                     [format |-> format, sparse |-> sparse, torn |-> FALSE,
                      texels |-> [u \in Units |-> 0]])
    /\ UNCHANGED <<buffers, computePipelines, accelerationStructures>>

MtlCreateComputePipeline(id) ==
    /\ computePipelines' = computePipelines \cup {id}
    /\ UNCHANGED <<buffers, images, accelerationStructures>>

MtlCreateAccelerationStructure(id, type) ==
    /\ accelerationStructures' =
           Put(accelerationStructures, id,
               [type |-> type, built |-> FALSE, children |-> {}, materials |-> {}])
    /\ UNCHANGED <<buffers, images, computePipelines>>

\* destroyBuffer, destroyImage, destroyComputePipeline and
\* destroyAccelerationStructure throw when the ID is not in their own table.
CanDestroy(id, kind) ==
    CASE kind = "buffer"   -> id \in buffers
      [] kind = "image"    -> id \in DOMAIN images
      [] kind = "pipeline" -> id \in computePipelines
      [] OTHER             -> id \in DOMAIN accelerationStructures

\* Mutant: a compute pipeline is left in its table.
MtlDestroyButPipelines(id, kind) ==
    /\ buffers' = IF kind = "buffer" THEN buffers \ {id} ELSE buffers
    /\ images' = IF kind = "image" THEN Drop(images, id) ELSE images
    /\ accelerationStructures' =
           IF kind = "accel" THEN Drop(accelerationStructures, id)
                             ELSE accelerationStructures
    /\ UNCHANGED computePipelines

MtlDestroy(id, kind) ==
    /\ buffers' = IF kind = "buffer" THEN buffers \ {id} ELSE buffers
    /\ images' = IF kind = "image" THEN Drop(images, id) ELSE images
    /\ computePipelines' =
           IF kind = "pipeline" THEN computePipelines \ {id} ELSE computePipelines
    /\ accelerationStructures' =
           IF kind = "accel" THEN Drop(accelerationStructures, id)
                             ELSE accelerationStructures

-----------------------------------------------------------------------------
(* Acceleration structures.  A build runs to completion before it returns, *)
(* and assigns the table entry last: a build that throws changes nothing.  *)

Built(id) == id \in DOMAIN accelerationStructures /\ accelerationStructures[id].built

\* A structure an instance can refer to: built, and not a top-level one.
Instanceable(id) == Built(id) /\ accelerationStructures[id].type # "top"

CanBuildPrimitive(id, geometry) ==
    /\ id \in DOMAIN accelerationStructures
    /\ accelerationStructures[id].type # "top"
    /\ geometry \subseteq buffers

MtlBuildPrimitive(id) ==
    accelerationStructures' =
        [accelerationStructures EXCEPT
            ![id] = [type |-> @.type, built |-> TRUE, children |-> {}, materials |-> {}]]

CanBuildInstance(id, children) ==
    /\ id \in DOMAIN accelerationStructures
    /\ accelerationStructures[id].type # "bottom"
    /\ \A c \in children : Instanceable(c)

\* Of the children, and of the images the instances' materials name, only the
\* IDs are kept; a material image that is not there is left out.
MtlBuildInstance(id, children, materials) ==
    accelerationStructures' =
        [accelerationStructures EXCEPT
            ![id] = [type |-> @.type, built |-> TRUE, children |-> children,
                     materials |-> materials]]

-----------------------------------------------------------------------------
(* Uploads.  writeImage has no case for RGBA32 float.                      *)

CanWriteImage(id) == id \in DOMAIN images /\ images[id].format # "rgba32f"

MtlWriteImage(id, data) ==
    /\ images' = [images EXCEPT ![id].texels = data, ![id].torn = FALSE]
    /\ UNCHANGED <<buffers, computePipelines, accelerationStructures>>

\* A sparse image is written by a blit, and a blit that fails may have copied
\* some of the cells before writeImage throws; torn is a ghost of that.
MtlTearImage(id, data, copied) ==
    /\ images[id].sparse
    /\ images' = [images EXCEPT
           ![id].texels = [u \in Units |-> IF u \in copied THEN data[u] ELSE @[u]],
           ![id].torn = TRUE]
    /\ UNCHANGED <<buffers, computePipelines, accelerationStructures>>

-----------------------------------------------------------------------------
(* Command buffers.  Two ghosts say what the command was given to use:     *)
(* named, what its request named, and borrowed, what a ray trace reaches   *)
(* through its structure, which the backend binds as well.                 *)

Stored(bs, is) == bs \subseteq buffers /\ is \subseteq DOMAIN images

\* Mutant: the command buffer is committed and not kept.
CommitAndForget(f, named, borrowed) ==
    /\ gpu' = Put(gpu, f, [status |-> "running", named |-> named, borrowed |-> borrowed])
    /\ UNCHANGED commandBuffers

Commit(f, named, borrowed) ==
    /\ commandBuffers' = commandBuffers \cup {f}
    /\ gpu' = Put(gpu, f, [status |-> "running", named |-> named, borrowed |-> borrowed])

\* submitNoop, submitAddUInt32, submitTriangle and submitCompute
MtlSubmit(f, named) ==
    /\ Commit(f, named, {})
    /\ UNCHANGED frameImages

\* submitIndexedUI, submitRayTrace and submitEmptyStageGrid also remember the
\* target as a frame
MtlSubmitFrame(f, named, borrowed, target) ==
    /\ Commit(f, named, borrowed)
    /\ frameImages' = Put(frameImages, f, target)

\* A material image destroyed since the build is replaced by a white texture,
\* but every child of the structure must still be there, and built.
CanRayTrace(image, top, lights) ==
    /\ Stored({}, {image} \cup lights)
    /\ Built(top)
    /\ accelerationStructures[top].type = "top"
    /\ \A c \in accelerationStructures[top].children : Built(c)

\* What a ray trace reaches through its structure: every child, and the material
\* images that are left.
Borrowed(top) ==
    accelerationStructures[top].children
        \cup (accelerationStructures[top].materials \cap DOMAIN images)

Given(f) == gpu[f].named \cup gpu[f].borrowed

Running(f) == f \in DOMAIN gpu /\ gpu[f].status = "running"

\* The GPU finishes a command with either outcome.  All command buffers are of
\* one queue, and Metal tracks the hazards between them: those that share a
\* resource finish in the order they were committed, others in any order.
GpuFinish(f, outcome) ==
    /\ Running(f)
    /\ \A g \in DOMAIN gpu :
          g < f /\ Running(g) => Given(g) \cap Given(f) = {}
    /\ gpu' = [gpu EXCEPT ![f].status = outcome]

\* waitFence takes the command buffer out of its table before it blocks on it.
MtlTakeCommandBuffer(f) == commandBuffers' = commandBuffers \ {f}

\* writeFrameIfRequested returns early unless a frame is wanted; a write that
\* fails turns the frame output off for the rest of the process.
WantsFrame(f) ==
    /\ FrameOutput
    /\ ~frameOutputDisabled
    /\ f \in DOMAIN frameImages
    /\ frameImages[f] \in DOMAIN images
    /\ UIOnly => images[frameImages[f]].format = "bgra8"

PublishFrame(f) ==
    \/ /\ ~WantsFrame(f)
       /\ UNCHANGED <<lastFrame, frameOutputDisabled>>
    \/ /\ WantsFrame(f)
       /\ lastFrame' = f
       /\ UNCHANGED frameOutputDisabled
    \/ /\ WantsFrame(f)
       /\ frameOutputDisabled' = TRUE
       /\ UNCHANGED lastFrame

\* The second half of waitFence for a command that completed.
MtlHarvest(f) ==
    /\ frameImages' = Drop(frameImages, f)
    /\ PublishFrame(f)

\* Mutant: the reset waits for nothing.
CanResetAtOnce == TRUE

\* reset() waits for every command buffer still in the table, then clears.
CanReset == \A f \in commandBuffers : ~Running(f)

MtlReset ==
    /\ buffers' = {}
    /\ images' = EmptyTable
    /\ computePipelines' = {}
    /\ accelerationStructures' = EmptyTable
    /\ commandBuffers' = {}
    /\ frameImages' = EmptyTable

=============================================================================
