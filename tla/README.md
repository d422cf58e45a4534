# IsaacMetalBridge: a TLA+ development

IsaacMetalBridge lets an unmodified NVIDIA Isaac Sim / Kit, running in a Linux
ARM64 container VM on a Mac, draw through Metal.  A Vulkan driver and a CUDA
shim in the guest turn API calls into requests of a small binary protocol, the
*IMB protocol*; a Swift process on the Mac answers them with Metal objects and
commands.  This directory holds models of that system, the runs that
model-check them with TLC, and theorems about them checked by TLAPS.

Paths below are relative to the repository's root.  `PROJECT.json` lists the
same things for tools: `map` gives the source lines of every definition, and
`hazards` the places where the code is hard to test, with the properties that
guard them.

## 1. Inventory

### Host

| Component | State it keeps | Operations | Correct when |
|---|---|---|---|
| **Host session** `BridgeSession.swift` | `negotiated`; `resources` (ID to kind, format, size, sparse); `imageUploads` (an image received in chunks); `fences`; `fenceResources` (fence to the IDs its command named); `nextResourceID`, `nextFenceID` | `handle(frame)`: HELLO, QUERY, PING, create, update sparse, build, destroy, write, read, submit (six command kinds), WAIT_FENCE, SHUTDOWN; `deinit` | it and the backend agree on what is alive; nothing an unfinished command names is destroyed; a fence is retired only after its command completed; image uploads arrive whole; the end releases everything |
| **Metal backend** `MetalGPUBackend.swift` | buffers, images (and the heap of a sparse one), compute pipelines, acceleration structures, `commandBuffers` by fence, `frameImages` by fence, `frameOutputDisabledAfterError` | one method per request; `waitFence` blocks; `reset` blocks; `writeFrameIfRequested` publishes a frame for the viewer | objects live as long as commands and structures use them; a published frame is of a finished command |
| **Wire codec** `Protocol.swift`, `protocol/include/imb_protocol.h` | none | encode / decode of the 32-byte header, version 1.22, payload layouts | both ends agree |
| **Stream server** `BridgeStreamServer.swift`, `imb-host/main.swift` | the byte position in the stream | read a header, read a payload, handle, write the reply; clean EOF only between frames | one reply per request, in order; a session ends with its stream |
| **Container adapter** `imb-container-host/main.swift` | session index, dial attempts, the exit monitor of the container | dial (once for the first session, 200 times 100 ms for the others), serve, tell a clean end from a crash, report the exit status | every guest process gets its session; a crash is reported and never waited for by something that waits for the adapter |
| **SPIR-V cross compiler** `SPIRVCrossCompiler.swift` | temporary files, child processes | translate SPIR-V to MSL for a pipeline | pure: the shader means the same |
| **Capabilities** `MetalCapabilities.swift` | none | read the device once | pure |
| **Viewer** `imb-viewer/main.swift`, `ViewerInputProtocol.swift` | the input file's handle, `sequence`, the last frame's modification date | poll the frame file, append one 48-byte record per event | frames are whole; every press is delivered and later released |
| **Shader probe** `imb-shader-probe/main.swift` | none | a diagnostic program over the backend | a test, not a part of the system |

### Guest

| Component | State it keeps | Operations | Correct when |
|---|---|---|---|
| **ICD: connection** `imb_vulkan_icd.cpp` 2054-2845 | socket, `nextRequestID_`, capabilities | listen and accept the host, HELLO, `exchange` for every request, `shutdown` | a reply belongs to the request it is returned for; after a framing error no later reply is misread |
| **ICD: queues, fences, semaphores** 13689-16550 | `FenceState`, binary and timeline semaphores (with a file for the exported ones), queries, events | submit, wait, reset, status, signal, import/export | a fence signals after its command and its readback; a timeline never goes back |
| **ICD: memory, images, sparse binding** 5311-6590, 14230-14340 | memory bytes in the guest, dirty ranges, the external file, host resource IDs, sparse bindings | allocate, map, flush, invalidate, bind, copy, upload, read back | what the application wrote reaches Metal, and what Metal wrote reaches the application, exactly once and in order |
| **ICD: scene cache and live scene** 260-1550, 3411-3481, 9677-10300 | scene file v3-v20, meshes and textures shared by content and counted | read the sideband, rebuild changed meshes, refresh the top-level structure | no resource is leaked or released twice, also when a rebuild fails half way |
| **ICD: recording and descriptors** 8876-9113, 12008-13690 | command buffers, pools, descriptor sets | record, reset, execute | a replayed command buffer uses the bindings recorded |
| **CUDA shim** `imb_cuda_shim.cpp` | contexts, allocations, streams, events, modules, external memory, per-context storage with destructors | the start-up subset of the driver API, in guest memory only | handles are valid exactly while alive; context storage is destroyed once |
| **Clock shim** `imb_clock_shim.cpp` | a lock-free table of 256 call sites | delays a calibrating call site's first 512 `clock_gettime` calls by 2 microseconds | a call site keeps one slot and its budget |
| **Kit stage extension** `.../stage/extension.py` | camera and static scene sequences, texture and mesh caches | publish the scene by `os.replace`, restore the layout, capture the sensor | a reader sees one publication whole; static sequence moves exactly when static content does |
| **Kit input extension** `.../input/extension.py` | file offset, last sequence, pending records, navigation mode | read whole records, coalesce moves, dispatch until the first transition | events are delivered once, in order; a press and its release are in different updates |
| **Probes, diagnostics, scripts** `guest/src/main.cpp`, `imb_vulkan_probe.cpp`, `imb_file_open_trace.cpp`, `scripts/*.sh` | none of their own | tests and launchers | not parts of the system |

### How they interact

The guest ICD listens on a vsock port and the container adapter dials it.  From
then on every interaction is one request and one reply on that stream: the ICD
holds its global mutex during an exchange, the server reads one frame, calls
`handle`, writes the reply and only then reads again.  `handle` calls the backend
synchronously.  The only concurrency on the host is therefore between the
session's thread and the GPU, which runs committed command buffers; the session
meets it in `waitFence` and in `reset`.  Kit's extensions and the viewer are
beside that stream: they exchange *files* (the scene, the frame, the input
records, the sensor) that one process writes and another polls.

### What is hard here

* a command is in flight while the client goes on: it creates, destroys, writes,
  rebuilds and submits again, on the same IDs the GPU is using;
* `waitFence` first forgets the command buffer, then blocks, then looks at the
  outcome, and only then does the session forget the fence: a failure in the
  middle leaves the two with different ideas of the fence;
* the frame shown to the viewer is read from a live texture, at the time of the
  wait and not at the time of the draw;
* structures name other structures by ID long after they were built;
* an upload is spread over requests that may be repeated, restarted, interleaved
  with others and refused at the last one;
* the client may vanish at any point, with commands still running;
* one allocation of the guest lives in up to four places (the driver's bytes, a file
  shared with CUDA, a Metal buffer, a Metal texture), and each path of the driver
  copies between some of them only;
* a semaphore shared with CUDA lives in a record and in a file, and not every path
  of a submit looks at the file;
* the driver records commands in one list per kind and has to find their order again
  when it replays them; it has one pipeline slot for three bind points;
* a scene is published while a submit builds from the last one, and the host may
  refuse any of the thirty requests such a build makes;
* the CUDA shim's handles are addresses that the C library hands out again, and its
  lock is not held when they are allocated or freed; the clock shim has no lock.

## 2. Modules

| Module | Models | Form |
|---|---|---|
| `Tables` | dictionaries from IDs to values (`Put`, `Drop`, `IsTable`) | operators |
| `ResourceLedger` | what a session promises its client about IDs and fences, after `docs/architecture.md` section 7 | abstract specification |
| `MetalBackend` | the backend's tables, its command buffers, the GPU | state and one operator per method |
| `BridgeSession` | the session; composed with the backend and the GPU | complete specification |
| `MCBridgeSession`, `MCSessionTurns` | what clients ask for in each run | instances for TLC |
| `ContainerSessions` | the drivers of a container's processes, the adapter that dials and serves them one after another, the container's end | complete specification and its runs |
| `GuestMemory` | device memory in the guest's driver: its four copies, mapping, dirty ranges, every command that moves its contents | complete specification |
| `GuestSparse` | vkQueueBindSparse: the ranges of a sparse buffer, the tiles of a sparse image in guest and host | complete specification |
| `SparsePages` | a page table | abstract specification |
| `GuestQueue` | fences, semaphores and the files CUDA shares, every path of vkQueueSubmit through them | complete specification |
| `IdealSemaphores` | one payload per semaphore | abstract specification |
| `GuestCommands` | command buffers and pools, recording, the replay of a submit, what becomes of ray traces; descriptor pools | complete specification |
| `CommandLog` | a command buffer as one log | abstract specification |
| `GuestBindings` | pipelines, descriptor sets, constants, buffers and passes bound while recording, beside what Vulkan says is bound | complete specification |
| `GuestImages` | the layout of an image's bytes and the copies replayed on it, beside what Vulkan says each block holds | algorithms and complete specification |
| `GuestScene` | the published scene, the top-level structure built from it, the cache of meshes and textures, requests refused at any point | complete specification |
| `CudaDriver` | the CUDA shim's sets of handles and pointers, threads between allocation and insertion, erasure and release | complete specification |
| `ClockShim` | the lock-free table of call sites, one atomic operation per step | complete specification |
| `MCGuestMemory`, `MCGuestSubmits` | the guest's parts side by side | instances for TLC |
| `BridgeSessionProofs`, `ContainerSessionsProofs`, `GuestMemoryProofs`, `GuestSceneProofs`, `GuestQueueProofs`, `GuestRecordingProofs`, `CudaDriverProofs`, `ClockShimProofs` | invariants and theorems | proofs |

### `MetalBackend`

One variable per Swift property, under its name (`buffers`, `images`,
`computePipelines`, `accelerationStructures`, `commandBuffers`, `frameImages`,
`frameOutputDisabled`), the contents of the viewer's file (`lastFrame`) and the
GPU (`gpu`: what the request of each committed command named, what else the command
was given with it (`borrowed`: the children of a traced structure, the images of their
materials), and whether it runs, completed or failed).  `Mtl...` operators are the effect of a method that returns, `Can...`
operators the guards under which it does not throw.  `GpuFinish` is the hardware:
all command buffers come from one queue and Metal tracks hazards between them, so
commands that share a resource finish in the order committed and others in any
order, with either outcome.

Abstracted: sizes, contents of buffers, shaders and pixels.  A texture is
`ImageUnits` cells, and a cell holds the number of the upload that last wrote it:
exactly what is needed to tell whether a texture is one upload or a mixture.

### `BridgeSession`

One action per request and outcome; `handle` runs to completion before the next
frame is read, so an action is a request together with its reply, except the two
requests that block.  WAIT_FENCE is `WaitBegin` (the backend takes the command
buffer out of its table) followed by `WaitCompleted` or `WaitFailed`; the end is
`Shutdown` or `Disconnect` followed by `ResetDone`.  In between, only the GPU
moves.  `Gpu(f)` may happen at any time.

| Code | Actions |
|---|---|
| guards of `handle`, every `failure(...)` that leaves no trace | `RefuseRequest`, `DestroyUnknown`, `DestroyBusy`, `WaitUnknown`, `WaitGone`, `RayTraceLostChild` |
| `handleHello` | `Hello` |
| QUERY, PING, sparse properties | `Query` |
| CREATE_RESOURCE, CREATE_COMPUTE_PIPELINE, CREATE_ACCELERATION_STRUCTURE | `Create` |
| UPDATE_SPARSE_IMAGE_MAPPING | `UpdateSparseImageMapping` |
| BUILD_PRIMITIVE / BUILD_INSTANCE_ACCELERATION_STRUCTURE | `BuildPrimitive`, `BuildInstance` |
| DESTROY_RESOURCE | `DestroyResource` |
| WRITE_RESOURCE | `WriteBuffer`, `WriteImageChunk`, `WriteImageEnd`, `WriteImageTears` |
| READ_RESOURCE | `ReadResource` |
| SUBMIT_COMMAND, cases 0 to 5 | `SubmitNoop`, `SubmitAddUInt32`, `SubmitTriangle`, `SubmitIndexedUI`, `SubmitRayTrace`, `SubmitEmptyStageGrid`, `SubmitCompute` |
| WAIT_FENCE | `WaitBegin`, `WaitCompleted`, `WaitFailed` |
| SHUTDOWN, `deinit`, `reset` | `Shutdown`, `Disconnect`, `ResetDone` |

Ghosts: `uploadsBegun` numbers uploads; `reply` keeps what the last request was
told, for the properties that speak of replies.

Not in the model: a session without a backend (no Metal device; every GPU
request is then refused); payload layouts and their range checks, which are
represented by `RefuseRequest`; which tiles of a sparse image are mapped (that is in
`GuestSparse`).

### `ContainerSessions`

The life of the streams, one level above the requests: each process of the
container has a driver (`guest`: no instance, in `accept`, in the constructor's
HELLO or QUERY_CAPABILITIES, with an instance, in SHUTDOWN, or exited); the
adapter dials, serves, awaits the container's exit or has stopped; the stream
between them has an owner (`served`), is still held by the container or not
(`held`), and carries at most one request (`wire`), which may be half written when
its process dies.

| Code | Actions |
|---|---|
| `vkCreateInstance`, `BridgeConnection` (`acceptHost`, `hello`, `queryCapabilities`) | `Listen`, `Receive`, `Reject`, `LoseHost` |
| `exchange` | `BeginRequest`, `FinishRequest`, `Receive` |
| `vkDestroyInstance`, `shutdown` | `DestroyInstance`, `FinishShutdown` |
| the adapter's dial loop | `DialConnects`, `DialFails` |
| `BridgeStreamServer.serve` | `Answer`, `CleanEnd`, `BrokenEnd` |
| `sessionLoop`, its `catch` clauses, `exitMonitor` | `SessionComplete`, `Broken`, `ObserveExit` (parts of the above, or an action) |
| a process, the container or the adapter ends | `Exit`, `ContainerExits`, `AdapterDies` |

Whether the host suffices for the drivers (`acceptable`) is fixed at the start, as
its version and its Metal device are.  What a request does to the session is
`BridgeSession`'s business; malformed replies are not modelled.  A bind that fails
because another process listens on the port returns at once and changes nothing, so
`Listen` is only guarded.

### The guest's driver

All of `imb_vulkan_icd.cpp` works under one mutex, so an action is one entry point of
Vulkan from lock to unlock, and the interleavings that matter are of calls, of the
host's completions, of CUDA and of the stage extension.  The driver is modelled in
parts that share no state with each other: what a submit does to memory, to
semaphores, to its command lists and so on.

**`GuestMemory`** (`memory`, `bound`, `dirty`, `pending` for `gState.memories`, the
`memory` pointers of buffers and images, `ImageState.dirty`, and fences whose readback
is due).  Contents are not values: `current` holds, for each cell of an allocation, the
places whose copy is what was last written there.  A write leaves one such place, a
copy passes on what its source has, current or not.  The application may write through
a mapping at any time that it is mapped, by a pointer of its first map or of a second; a
cell written so while no dirty range covers it is "unmarked" until another write, and
`observed` tells a command that misses such a write ("unseen") from one that reads a copy
the driver itself left behind ("stale").

| Code | Actions |
|---|---|
| vkAllocateMemory, vkFreeMemory, vkBindBufferMemory, vkBindImageMemory, vkDestroyBuffer, vkDestroyImage | `AllocateMemory`, `FreeMemory`, `BindMemory`, `DestroyResource` |
| vkMapMemory, vkUnmapMemory, vkFlush/InvalidateMappedMemoryRanges | `MapMemory`, `UnmapMemory`, `FlushMemory`, `InvalidateMemory` |
| vkGetMemoryFdKHR, `syncMemoryToExternalFDLocked`, `refreshMemoryFromExternalFDLocked` | `GetMemoryFd`, `SyncTo`, `RefreshFrom` |
| replayed fills, copies, clears, builds, dispatches | `FillBuffer`, `CopyBuffer`, `ClearImage`, `CopyToImage`, `CopyImageToBuffer`, `BuildFromBuffer`, `DispatchToBuffer`, `DispatchToImage` |
| scene traces, UI draws, the fixed addition and triangle | `TraceRays`, `DrawUI`, `SubmitAdd`, `SubmitTriangle` |
| `completeFenceLocked` | `Completed`, `WaitForFence` |
| the application and CUDA | `HostWrite`, `CudaWrite` |

**`GuestSparse`** keeps `BufferState.sparseBindings` as a set of ranges (`ranges`, cut and
extended by `BindBuffer`, `UnbindBuffer`, `FreeSparse`), and of a sparse image what the
application bound (`resident`) beside what the host's texture has mapped (`mapped`):
guest tiles are two Metal tiles wide, small levels form one mip tail, a bind may fail
between two requests (`BindTiles`, `BindTail`, `BindTilesFails`).

**`GuestQueue`** has the driver's records (`semaphores`, `vkFences`), the files of exported
semaphores (`files`, with CUDA's descriptors `cuda`) and the host's fences (`hostFences`).
vkQueueSubmit takes one of three paths, which treat a shared semaphore differently:
`SubmitExact` reads and writes its file, `SubmitPlain` and `SubmitConservative` only the
record; vkQueueBindSparse is a fourth.  `SubmitDeferred` leaves a fence in flight;
`WaitForFences` and `DeviceWaitIdle` ask the host.

**`GuestCommands`** records commands with the numbers `nextCommandSequence` hands out,
one list per kind (`RecordTransfer`, `RecordBuild`, `RecordDispatch`, `RecordRays`,
`RecordDraw`); `ReplayOrder` is the merge of `executeRecordedCommandsLocked`, `Classified`
the decision vkQueueSubmit makes about ray traces of seven kinds: whether it traces them,
puts them off, takes them for an initialization, refuses the submit or drops what is
beside a scene, and in which of these cases it signals the fence and answers VK_SUCCESS.
Pools of command buffers and of descriptor sets are its other actions.

**`GuestBindings`** follows what is bound: `command` is the driver's `CommandBufferState`,
`bound` what Vulkan has bound, `asked` the commands the application recorded with it;
`Present` runs the command buffer and `frame` is what it ran: a dispatch that Metal cannot
run, of unset constants or of a resource that is gone, is skipped and the submit succeeds
(`imb_vulkan_icd.cpp:9071-9093`).

**`GuestImages`** computes the place of a block in the bytes of an image by the code's
formulas (`SubresourceOffset`, `Place`, rows and slices of buffers) and keeps
beside it `ideal`, indexed by level, layer and block; a level the driver takes for
unwritten is made up from the one above (`Prepared`).

**`GuestScene`** walks the manifest in `SubmitScene` (meshes found in the cache or built
from up to six requests each, textures shared and counted, the structure built, the rest
reclaimed) and traces in `TraceScene`; between the two the stage extension may publish
again (`Publish`).  `grants` is the number of requests the host still answers: every
failure point is a value of it, the submit, the wait and the read of a trace included.
Destroying is not counted by `grants`: the host refuses a destroy exactly of what a command
whose wait failed has `pinned`, and the driver forgets the resource all the same
(`Destroyed`).

### The shims

**`CudaDriver`**: `space` says what the process has at each address, `tables` the shim's sets.
A constructor allocates (`New`, and the actions of ranges, files and libraries), then
inserts under the mutex (`Insert`); a destructor erases, then frees (`Release`).  `calls` is
what each thread has yet to do.  The application uses a handle from one thread at a time.

**`ClockShim`**: a call of clock_gettime is `Call`, `Probe` (compare and exchange, one site
at a time), `Judge`, `Resolve`, `Count` (fetch and add), `Return`; every atomic operation
is a step of its own.

### How the guest is put together

`MCGuestMemory` and `MCGuestSubmits` hold several of these modules.  Since the parts share
no variable, what one does cannot disturb another, and a product of their states would
only multiply their numbers; each behaviour is therefore of one part, chosen at the
start (`turn`).  A few modules are split further along the same line (a sparse
buffer's ranges and a sparse image's tiles, CUDA's pointers, external memory and modules,
the bind points), so that their tables are large enough to be interesting.

`MCSessionTurns` does the same for the clients of one session: a behaviour is of a client
that draws and computes, of one that traces rays, of one that uploads, or of one that waits
for frames, each with its own bounds on what it asks for (`Within`); what the session, the
GPU and the ends of waits do is bounded by none of them.

## 3. Runs

| Run | Question | Bounds | States |
|---|---|---|---|
| `commands` | whatever the order of creates, builds, submits, GPU completions, waits, destroys and the end: do session and backend agree, is everything a command names pinned, is every fence backed, is every published frame of a finished command, do the children of instance structures stay what they were, under a running trace too, does the end release all, and does the session implement the ledger? | 3 resource IDs of 4 kinds and 2 fences; or 4 IDs with structures of all three types, and 1 fence | 697 000 |
| `uploads` | are uploads whole, through restarts, repeats, refusals and torn blits; does every wait return and every end complete, once the GPU finishes? | 1 image of 3 chunks (ordinary and sparse, all formats), 3 uploads; or 2 IDs and 2 fences | 174 000 |
| `container` | while processes create and destroy instances and die half way, and the adapter may be killed: does a driver keep its session, is every one that waits dialled while sessions are left, does the adapter end with the container and report its status? | 2 processes, 3 sessions, 2 dial attempts, host acceptable or not | 1 400 |
| `guest_memory` | is nothing written to device memory lost or read stale, are sparse pages and tiles where they were bound, is no resource of the scene leaked that the host would destroy, or reclaimed in use, are the CUDA shim's handles alive, is no call site delayed too often? | see below | 779 000 |
| `guest_submits` | does a submit replay what was recorded, in order, with what was bound, to the right blocks; do semaphores behave like Vulkan's and do fences signal? | see below | 110 000 |
| `forgotten_command` | a known fence that is answered "not found" | 1 ID, 1 fence | violated |
| `stuck_resource` | a resource refused as busy though no command is unfinished | 1 ID, 1 fence | violated |
| `torn_frame` | a frame captured from a target a later command is drawing into | 2 IDs, 2 fences | violated |
| `abandoned_session` | a driver left waiting although sessions are left, after it refused the host | 1 process, 2 sessions | violated |
| `unseen_write` | a write through mapped memory that the next command does not read | as `guest_memory` | violated |
| `reexport` | a timeline that falls when it is exported again | 1 semaphore, 1 file | violated |
| `nv_acknowledged` | NV ray tracing commands acknowledged without having run | 2 ray commands | violated |

*Why these bounds.*  IDs are never reused, so the number of IDs is the length of
the resource history.  Two fences are what it takes for a command to be pinned by
an older one, waited for out of order, or to draw into a target another frame is
captured from; three resources give a UI draw its target, buffer and texture, and
let one of them be destroyed and replaced.  Four IDs let an instance structure, built
over a child that takes a buffer to build, lose that child and see another object
created after it, which may be the target of the trace that finds the child gone; or let the
child be destroyed under a running trace.  The two commands of `uploads` may share
one of two resources, so that one waits for the other.  Three
chunks are a first, a middle and a last one; three uploads are one in the texture,
one abandoned and one pending.  In `container`, two
processes let one wait while the other is served, three sessions are a first, an
inner and a last one, and two attempts (200 in the code) are one that is followed by
another and one that is not.

In `guest_memory`: one allocation of three cells, two buffers and an image in it, one
fence, a mapping counted twice; a sparse buffer of three pages over two memories of three
pages (a bind can cut another in the middle), an image nine texels wide whose tiles are
four texels in the guest and two on the host (four levels, of which two are tail, and
partial tiles at their edges); three scenes that share a texture, use one twice, repeat a
mesh, and leave one to be matched; two publications, as many requests as the longest
build makes, and seven resource IDs: a top-level structure, the four of the largest mesh
and the two of the next one, which shares its texture, or the one that replaces a texture the
host refused to destroy; two threads and four addresses for
CUDA, so that one address can be freed by one thread and allocated by the other while a
third object refers to it, and an external memory can have its mapping, an array and a
level of it; two threads,
three places and two sites for the clock shim, so that the table fills and two places
start at the same site.

In `guest_submits`: three semaphores, one binary and two timelines, one file; two fences,
each of whose waits may be for the first of both; one command buffer with three numbered
commands, three rays of any of the seven kinds and a draw; three descriptor sets in a pool of two; one descriptor set
with two elements and two slots; three images (layered, deep, and of blocks that levels
do not divide into), six regions at rims and corners, three transfers, the last of them a
copy back to the buffer.

What the parts of a run cannot see of each other is left out turn by turn (in the MC
modules, each with its reason): commands in sequence are followed apart from ray commands,
which take no number; the UI's draws apart from the triangle's, which share only the pass
and its colour; CUDA's reservations apart from its external memory; and once the application has built a top-level structure itself, the scene
is followed with that one only, as the driver then builds none.

*The application.*  Vulkan lets an application do things this driver does not follow.  Each
is named in a constant that the runs leave empty and that a reader can fill to see what
breaks: `Liberties` of `GuestMemory` (mapping, drawing from and copying images in memory it
shares with CUDA, as the probe `imb_vulkan_probe.cpp:743-792` does; using memory before
the fence), `Liberties` of `GuestBindings` (dynamic offsets,
rebinding after a draw, updating sets after recording, several bind points at once), its
`Bindings` (sampled images in other bindings than 0),
`Interop` of `GuestQueue` (exporting twice, importing a timeline that is behind, shared
semaphores in submits that look at no file), `ForeignWriters` of `GuestImages`,
`OldBuffers` of `CudaDriver`, `AllocationFails` of `GuestCommands`.  Each is also
a hazard in `PROJECT.json`, at its line.  Keeping memory mapped, mapping it again and
writing through either pointer at any time is no liberty: it is in every run.

Three assumptions on the application have no constant.  It binds the mip tail of a
sparse image whole: the driver accepts a bind of any of its blocks
(`imb_vulkan_icd.cpp:14441`) and maps or unmaps every level of the tail for it (14562).
While one of its threads is in cuMemMap, no other unmaps or frees what is being mapped:
the shim checks the reservation under its lock (`imb_cuda_shim.cpp:1315`) and maps
after it (1333), one step here (`MemMap`).  And it maps one buffer of an external memory at
a time, at offset 0.

*Deadlock.*  The runs of the host and of the container check it; a closed session
stutters (`Gone`), and so does a container whose adapter has stopped too (`Ended`).  The
guest's two runs do not: an application may stop after any call, and the bounds on
transfers and calls end some behaviours.

*Views.*  `commands` uses `VIEW InTurnSilently`, which leaves out the ghost
`reply`: no action reads it and none of the run's properties mentions it.  `guest_memory`
uses `VIEW AllButTraced`: `traced` says what the last step did and only an action
property reads it, in the step that sets it.

*Fairness* (`FairSpec`, `FairTurnSpec`): Metal finishes or aborts every committed command
(`WF(Gpu(f))`: macOS aborts commands that hang); a call that
`waitUntilCompleted` returned to goes on (`WF(WaitCompleted \/ WaitFailed)`,
`WF(ResetDone)`).  The client owes nothing: it may stop sending at any point.
In `ContainerSessions` the adapter's loop goes on (`WF(Adapter)`), and a driver goes
on with a call it is in: constructor, exchange, shutdown.  Nothing obliges a process
to create or use an instance, to destroy it or to exit.  In `GuestQueue`
(`QueueFairness`) the host finishes what it was given, and the application goes on
waiting for fences in flight; it does not have to submit.

## 4. What the runs found

* **A failed command is forgotten by the backend and remembered by the session.**
  `waitFence` (`MetalGPUBackend.swift:4957`) removes the command buffer before it
  looks at its status, and `BridgeSession.swift:738` only drops the fence when the
  call returns.  A second WAIT_FENCE of a fence the session knows is answered
  `resourceNotFound`, while `protocol/README.md:58` has WAIT_FENCE "Wait for a known
  Metal command buffer and return its completion state."  (`KnownFencesAnswered`)
* **What it named can never be destroyed again**: DESTROY_RESOURCE answers
  "resource N has an unfinished command" (`BridgeSession.swift:620`) until the
  session ends, although no command is unfinished.  (`BusyMeansUnfinished`)
* **The frame captured may be of a later, unfinished draw**: `docs/architecture.md:119`
  has the host capture "completed Kit UI targets", and `writeFrameIfRequested` reads
  the live target, in which a later submission may be drawing.
  (`CapturesCompletedTargets`)
* **A driver that refuses the host blocks its second `vkCreateInstance`.**
  `BridgeConnection`'s constructor throws (`imb_vulkan_icd.cpp:2060`) with `fd_` open,
  and the destructor of an object that was never constructed does not run.  The
  adapter serves the forgotten connection; the next `vkCreateInstance` waits in
  `accept`, with `gState.mutex` held, for as long as the process lives, where
  `docs/architecture.md:89` has the ICD "return standard errors for unsupported
  behavior."  (`ListenersAreDialled`; with an acceptable host it does not happen:
  `AcceptedListenersAreDialled`)
* **A timeline falls when it is exported again.**  vkGetSemaphoreFdKHR writes the
  driver's record over the file it already shares (`imb_vulkan_icd.cpp:13830`)
  without reading it first, so a value CUDA has signaled through the first descriptor is
  lost, while the comment at `imb_vulkan_icd.cpp:3318` has the file hold "the
  monotonically increasing counter for timeline semaphores".  (`TimelineFilesGrow`)
* **A write through a mapping may never reach Metal.**  Only the first vkMapMemory marks its
  range; the first command that uploads clears it (`imb_vulkan_icd.cpp:9147`), and neither a
  second map of the range (6434-6466) nor vkFlushMappedMemoryRanges of memory that is not
  exported (6533-6538) marks it again.  What the application writes afterwards through the
  pointer it holds is not uploaded, and the next command reads what was there before,
  where `docs/vulkan-icd.md:28` lists "host-visible/coherent memory" and line 53 has Kit map
  "the same persistent upload allocation" twice.  (`MappedWritesReachMetal`;
  that nothing *else* is ever read stale is `CommandsReadCurrent`)
* **NV ray tracing commands may be acknowledged.**  A submit that traces the known scene
  returns success before it looks at its other ray commands
  (`imb_vulkan_icd.cpp:15393`), where the comment at 15409 says they "are deliberately
  never acknowledged as complete".  (`NVNeverAcknowledged`)

The first three do not break the safety theorems: what is pinned too long is still
alive, and a frame is published only after its own command completed.  A few oddities
are modelled as they are coded because no document speaks of them: vkWaitForFences for
any of several fences waits for the first, with a timeout of zero it may answer success,
and vkGetFenceStatus never asks the host.

## 5. Proofs

`BridgeSessionProofs` proves, for every value of the constants that satisfies
`SessionAssumption` and `BackendAssumption` (bounds are numbers, descriptions are
well-typed resources, a texture has at least one unit):

| Theorem | States |
|---|---|
| `TypeCorrect` | `Spec => []TypeOK` |
| `Invariance` | `Spec => []IInv` |
| `Agreement` | `TablesAgree`: session and backend have the same live IDs, kinds, formats |
| `CommandsArePinned` | `UnfinishedCommandsPinned`: what the request of an unfinished command *named* is pinned; the children and material images a ray trace reaches through its structure are `borrowed`, not named (`BridgeSession.swift:1415-1419`), and only Metal's own references keep them |
| `PinsAreLive` | `PinnedResourcesLive` |
| `FencesAreBacked`, `FailuresAreReported` | `FencesBacked`, `RetiredFencesCompleted` |
| `FramesAreOfLiveTargets` | `FrameTargetsLive` |
| `FramesAreFinished` | `PublishedFrameFinished` |
| `UploadsAreOrdered` | `UploadsArePrefixes` |
| `UploadsAreWhole` | `TexturesWhole` |
| `ChildrenAreStable` | `ChildrenStayInstanceable` |
| `EndReleasesAll` | `ClosedMeansReleased` |
| `ImplementsLedger` | `Spec => LedgerSpec`: the session refines the abstract ledger |

*The argument.*  None of these is inductive alone.  Destroying a resource keeps a
running command's named objects alive only because the command's fence is still known
(`UnfinishedCommandsPinned`), everything its request names is among that fence's pins, and
a fence is dropped only by a wait that saw its command complete; that in turn needs
to know that the fence being waited for was known (`PhaseOK`), that the domain of
`gpu` is exactly the fences issued, and that no command buffer belongs to a fence
the session has dropped.  `IInv` is the conjunction of the type invariant, the
public properties and these linking facts, each a named definition with a
comment.  A child of an instance structure stays what it was because IDs are
never reissued (every ID in a table is below `nextResourceID`) and because a
structure's type is never assigned again.  `Init => IInv`, then one lemma per
action for `IInv /\ [Next]_vars => IInv'`, then the temporal step.  For the
refinement each action is shown to be a ledger step or a stutter, using the
invariant where the ledger is stricter than the code's own guard (`Destroy` asks
that no *pending* fence names the resource; `Retire` that its command finished).

`ContainerSessionsProofs` proves, for any number of processes, sessions and
attempts, with `--wait-exit` or without (`ContainerAssumption`):

| Theorem | States |
|---|---|
| `Invariance` | `Spec => []IInv` |
| `StreamTypes` | `TypeOK` |
| `InstancesServed` | `InstancesAreServed`: no session ends or begins under a driver with an instance |
| `SuccessReported` | `SuccessIsTheContainers`: success is reported only if the container succeeded |

`InstancesAreServed` is not inductive: that a stream the container closed belonged
to a process that has exited, and that the adapter serves a stream exactly while it
is in `serve`, has to be known with it (`StreamIsServed`).  Every step that ends a
session goes through one lemma (`Unserved`): a stream may be forgotten when no driver
has an instance on it.

`GuestMemoryProofs` proves, for any number of allocations, cells, buffers, images and
fences, under `Liberties = {}` (section 3, *The application*) and with nothing placed over an
image's cell (`Usual`); memory may be mapped, mapped again and written to at any time:

| Theorem | States |
|---|---|
| `MemoryInvariant` | `MemorySpec => []MemoryInv` |
| `WritesKept` | `NothingLost` |
| `ReadsCurrent` | `CommandsReadCurrent`: only writes through a mapping whose range an upload has taken are missed, as `unseen_write` shows they are |
| `ResultsVisible`, `FilesCurrent` | `HostSeesResults`, `SharedPagesCurrent` |

"Some place holds it" is not inductive, because a transfer from a stale source makes its
target stale.  `MemoryInv` says which place holds everything: the shared pages of memory
shared with CUDA, the driver's bytes of other memory (`Fine`), and of memory an
unfinished submit writes, what the readback will need (`Due`: the texture's cell of a
triangle, all of Metal's buffer for an addition).  Beside it, `Tracked` says why Metal
never reads an old vertex the driver knew of: a buffer's cell is current on Metal, in the
dirty range, or unmarked; `Pictured` says the same of an image that is not dirty and its
texture.  Each path of the driver is one lemma about one allocation
(`Uploaded`, `WrittenFine`, `ReadBackFine`, ...), and a command is a composition of them
(`Kept`); uploads make no copy stale (`Keeps`), which is what lets a command upload two
resources of one allocation.  `Usual` holds in the instance the run checks.

For sparse resources it proves, for all sizes of buffers, memories and binds:

| Theorem | States |
|---|---|
| `SparseInvariance` | `SparseSpec => []IsList`: ranges lie in the buffer, name allocations that exist, and no page is in two |
| `RangesAreDisjoint` | `RangesDisjoint` |
| `ImplementsPageTable` | `SparseSpec => ListIsPageTable`: the list of ranges refines the page table |
| `ResidencyIsExact` | `ResidencyExact`: a texel has memory on the host exactly if its tile is bound |

For the list of ranges, the core is what `Cut` leaves (`CutParts`: outside the range, each part inside one old
range, at the old memory offset; `CutKeeps`: a page outside resolves as before) and that,
once ranges are disjoint, the first range a lookup finds is the only one (`Lookup`).  For a sparse image it is that
two tile sizes, one twice the other, divide a level in compatible ways (`Halves`,
`TilesExact`), at its last texel as inside.  The widths of the levels are a recursive function;
that it exists and is positive is shown by a least counterexample (`WidthsExist`, `Widths`).

`GuestSceneProofs` proves, for any published scenes, any number of meshes, textures, lights
and structures, with creations, writes, builds, traces, waits and reads refused anywhere, and
destroys refused of what an unfinished command holds:

| Theorem | States |
|---|---|
| `SceneInvariance` | `SceneSpec => []SceneInv`: one owner for every resource that no failed command holds, and exact counts |
| `SceneAccounts` | `ResourcesAccounted`: what the driver forgets and the host keeps is held by a command whose wait failed |
| `SceneShown` | `SceneSpec => []ShownInv`: at most one structure is the scene's, and what it shows |
| `SceneKeepsGeometry` | `SceneGeometryKept` |
| `SceneTracesShow` | `TracesShowScene` |

`SceneInv` says that the resources of the application's structures, of cached meshes and of
cached textures are apart from each other and, with what failed commands hold, all that the
host has (`Places`), that IDs are not issued again, and that a
texture's count is the number of slots of cached meshes that name it (`Counting`).  Within a
handler it does not hold: a mesh in hand has resources and textures of its own.  `InHand` is
the same statement with these counted, and every request preserves it (`NewResourceInHand`,
`AcquireInHand`); giving up (`UndoSettled`) and putting the mesh in the cache (`KeptSettled`)
both lead back to the invariant, since slots of different meshes are different
(`SlotsOfMore`, `SlotsOfFewer`).  The loops over a mesh's textures and a scene's meshes are
recursive functions: that they exist and that every prefix preserves the statement is shown
by a least counterexample (`AcquiresExist`, `WalksExist`, `WalkDone`).  For what is shown, `WalkInv`
says of every prefix that the meshes it authored are instanced, each by its own structure, and
that any other child is the application's; reclaiming what is not active therefore spares every
mesh instanced.  What a refused build leaves is unchanged because a new mesh has a new ID, and
what was instanced has an older one (`Later`).  `SubmitInv` carries what a submit read
past publications to its trace.  `SceneAssumption` asks that manifests are lists and that
`VK_NULL_HANDLE` is no structure.

`GuestQueueProofs` proves, for any number of semaphores, files, values and fences:

| Theorem | States |
|---|---|
| `FencesAreAwaited` | `HostFencesAwaited`, whatever the application does |
| `SemaphoresAreIdeal` | under `Interop = {}`, `QueueSpec => SemaphoresIdeal`: records and files refine ideal semaphores |
| `TimelinesGrow` | under `Interop = {}`, `TimelineFilesGrow` |
| `QueueTypes` | under `Interop = {}`, `QueueTypeOK` |

`HostFencesAwaited` needs to know that a fence in flight holds an ID below the next one:
an ID that comes back would be awaited twice.  `SemaphoresIdeal` rests on four facts: the
record of a shared timeline never runs ahead of its file, a file is of one kind, a binary
file holds 0 or 1, and every descriptor has its file.  The assumption is where the code
departs from the promise: the run `reexport` violates `TimelineFilesGrow` without it.

`GuestRecordingProofs` proves, for any number of pools, sets, command buffers, slots,
buffers and images:

| Theorem | States |
|---|---|
| `PoolsCount` | `CommandSpec => []PoolsCountSets` |
| `AcknowledgedRan` | `CommandSpec => []AcknowledgedRaysRan`: which ray commands an acknowledged submit may leave unrun, for commands of any kind |
| `ReplaysLogs` | while no allocation fails, `CommandSpec => ReplayIsLog` |
| `RecordingsRunAsBound` | under `Liberties = {}` and `Bindings = {0}`, `BindingSpec => []RecordedAsBound` |
| `ImagesReadBack` | if `ForeignWriters` names sparse images only, `ImageSpec => []ReadbackExact` |

`PoolsCountSets` needs to know that every set has a pool that exists: otherwise a pool
created anew would start with sets.  `AcknowledgedRaysRan` has to follow the ray commands
through the recording and through `FlattenSeq`, again by a least counterexample
(`Flattened`); a submit counts as acknowledged whenever the code signals its fence and
answers VK_SUCCESS, put off (15509) and initialized (15528) ones included.  The stronger
promise of the comment at 15409 is what the run `nv_acknowledged` violates.  `RecordedAsBound` compares what the driver keeps per
recording with what Vulkan says is bound, so its invariant (`BindingInv`) relates the two
everywhere: what is bound now, what each set holds, and each recorded dispatch, trace and
draw, down to that a texture a draw took from its set is still alive.  A dispatch may be
skipped, but only one whose constants were unset or whose resources are gone.  Both assumptions
are on the application (section 3, *The application*).

`ReplayIsLog` is the refinement of `CommandLog` under `Log`: the log of a command buffer is
its commands by their numbers (`InOrder`), which no variable of the driver holds.  The
invariant (`LogInv`) says of every record that each number is of one list at most, that every
list is in the order of its numbers, and that the next number is of none (`Numbering`).
Then a recorder adds one command at the end of the log or none (`OrderGrows`, `OrderStays`), and
the merge is that order (`Replays`): after m turns it has run the commands up to some number,
no less than m, unless no list has one left (`TurnReaches`), because the smallest head is
the smallest number not yet run.  That the merge ends in fewer than `next` turns is part of
it.  Its assumption excludes the recorder that clears its list when memory runs out.

`ReadbackExact` speaks of the buffer; its invariant (`ImageInv`) of every image: each block
that was ever written is at its place in the driver's bytes (`ImagesExact`), and a level
without its mark holds nothing yet (`UnmarkedUnwritten`), so that making it up when it is
read loses nothing.  What carries it is that no two blocks share a place: the offset of a
subresource, the rows and the slices are the digits of a number in a mixed radix
(`LevelPlaces`, `LayerPlaces`, `Places`), the regions a transfer accepts round to whole
blocks inside their level (`Rounded`, `CellBlocks`), and a layout of rows at least as long as
the region's keeps the blocks of the buffer apart (`BufferPlaces`).  The loops over levels and
the levels prepared are recursive functions; that they exist, and what they keep from one
value to the next, is shown once (`Recursion`, `StepByStep`) by a least counterexample.  The
assumption leaves out a foreign write to a level the driver takes for unwritten (section 3, *The application*):
preparing that level would replace it.

`CudaDriverProofs` proves, for any number of threads, objects and addresses, under
`~OldBuffers`, an application that frees a buffer before the memory it was mapped from:

| Theorem | States |
|---|---|
| `CudaSafety` | `CudaSpec => []CudaInv` |
| `EntriesStayAlive` | `EntriesAlive`: the driver's sets name live memory only |
| `HandlesStayKnown` | `HandlesKnown` |
| `ReferencesStayAlive` | `ReferencesAlive` |

None of the three is inductive: between the two halves of a call an object is in the heap and
in no set, or out of its set and not yet freed, and any other thread may be given an address
in between.  `CudaInv` therefore says that every address that is not free has *one owner*
(`Owned`): a set, the handle of another object, or a thread in the middle of a call.  The owner is
a pair of functions the invariant says exist; each step shows how they change.  A step that
inserts, frees or hands over then cannot touch what another owns.

`ClockShimProofs` proves, for any number of threads, places and sites and any hash:

| Theorem | States |
|---|---|
| `ShimInvariance` | a site a search has passed, or works on, is taken by the right place for good |
| `DelaysAreBounded` | `DelaysBounded` |

Two sites for one place are impossible because a search takes the first site that is
free or its own: every site before it is another's and never becomes free again.  A
place's delays are then counted at its one site, together with the callers that have
counted and not yet returned.  `ShimAssumption` has the counter not wrap (`MaxCalls <
CounterWidth`; it is 32 bits wide in the code).

*Only model-checked:* the liveness properties `WaitsReturn`, `SessionsEnd`,
`AdapterEnds`, `AcceptedListenersAreDialled` and `FencesSignal` (liveness under fairness
is beyond this prover).

## 6. Not modelled

* **Query pools and events** of the driver, `vkCmdPipelineBarrier` and the layouts of images:
  they change nothing the modelled parts read.  **Memory requirements, format and
  feature queries**: pure functions of the arguments.
* **The order of ray traces, UI draws and the addition relative to the transfers of a
  submit**: they run after all of them; no document promises another order.
* **Framing after a malformed reply** (`imb_vulkan_icd.cpp:2143`): the host of this repository
  sends none.
* **CUDA's generic allocations** (`cuMemCreate`, `cuMemRelease`): a number for a file of its own;
  what `cuMemMap` puts at an address of a reservation is modelled, not what it is of.
* **The encoder and the residency of a ray trace on Metal** (`MetalGPUBackend.swift:4850-4855`):
  the models keep IDs, not Metal's own references.
* **CUDA's copies, kernels, graphs, attributes and contexts**: copies move bytes in the caller,
  kernels and graphs are accepted and not run, there is one context token, and the 64
  entries of per-context storage are written without a lock, for whose callers no
  contract is documented.
* **The viewer and the Kit input extension**: window and input queues of other programs around a
  file of records; **the stage extension's walk** of a USD stage: data.
* **SPIR-V translation, Metal shaders, capabilities, payload layouts**: pure data; that a
  translation or an allocation may fail is in the models.
* **Probes, diagnostics and scripts**: tests and launchers.

## 7. Plan

What is left, most useful first: the viewer's event file between its writer, its
restart and the input extension's reader; the framing of one connection with a fault
model for the host; the order of traces and draws within a submit, once the code states
one; pure algorithms against reference definitions (the packed size of a mip chain,
range checks in 64-bit arithmetic).
