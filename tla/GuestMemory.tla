---------------------------- MODULE GuestMemory ----------------------------
(***************************************************************************)
(* The device memory of the guest's Vulkan driver: DeviceMemoryState, the  *)
(* buffers and images bound to it, and the commands whose replay moves its *)
(* contents.  One allocation exists in up to four places: the driver's own *)
(* bytes, the pages of the file it shares with CUDA, the Metal buffer and  *)
(* the Metal texture on the host.  Contents are not modelled as values:    *)
(* "current" says, for every cell, which places hold what was last written *)
(* to it.  Every operation is one critical section of gState.mutex.        *)
(***************************************************************************)
EXTENDS Integers, FiniteSets, Tables

CONSTANTS
  Memories,   \* VkDeviceMemory handles; freed ones may be reused
  Size,       \* cells of an allocation
  Buffers,    \* VkBuffer handles, one cell each
  Images,     \* VkImage handles, one cell each
  Placement,  \* the cell at which the application binds each resource
  MaxMaps,    \* bound on mapReferenceCount
  Fences,     \* VkFence handles given to vkQueueSubmit
  Liberties   \* what the application may do that the driver has no answer to:
              \*   "shared"      map, draw and copy images in memory it
              \*                 shares with CUDA
              \*   "overlap"     use memory before the fence is waited for

ASSUME MemoryAssumption ==
  /\ Size \in Nat \ {0}
  /\ MaxMaps \in Nat \ {0}
  /\ Placement \in [Buffers \cup Images -> 0 .. Size - 1]
  /\ Liberties \subseteq {"shared", "overlap"}
  /\ Buffers \cap Images = {}

VARIABLES
  memory,    \* gState.memories
  bound,     \* BufferState.memory, ImageState.memory of the resources bound
  dirty,     \* ImageState.dirty of the images bound
  pending,   \* fences submitted and not signaled: what completion reads back
  observed   \* how what the last command read was stale

memoryVars == <<memory, bound, dirty, pending, observed>>

Cells == 0 .. Size - 1
Places == {"bytes", "pages", "metal", "texture"}

\* "current" of a cell also holds "unmarked" while its last write came through
\* a mapping and nothing was marked for Metal.
Holders == Places \cup {"unmarked"}

----------------------------------------------------------------------------
(* Ranges and copies.                                                      *)

\* dirtyOffset == VK_WHOLE_SIZE, dirtyEnd == 0
Clean == [from |-> Size, to |-> 0]
Whole == [from |-> 0, to |-> Size]
Ranges == [from : 0 .. Size, to : 0 .. Size]
CellsOf(r) == r.from .. (r.to - 1)

\* Mutant: the dirty range is the last one written.
LastOf(r, s) == s

\* The dirty range is a hull: one interval around everything written.
Hull(r, s) == [from |-> IF r.from <= s.from THEN r.from ELSE s.from,
               to   |-> IF r.to >= s.to THEN r.to ELSE s.to]

Cell(x) == [from |-> Placement[x], to |-> Placement[x] + 1]

\* A write at one place makes every other copy of those cells stale.
Store(current, place, r) ==
  [c \in Cells |-> IF c \in CellsOf(r) THEN {place} ELSE current[c]]

\* A copy between places passes on what the source holds, current or not.
Transfer(current, from, to, r) ==
  [c \in Cells |->
    IF c \notin CellsOf(r) THEN current[c]
    ELSE IF from \in current[c] THEN current[c] \cup {to} ELSE current[c] \ {to}]

\* A read of r at a place is stale in a cell that place does not hold: the
\* driver made it so, or it never saw the application's write.
Stale(current, place, r) ==
  {IF place # "bytes" /\ "unmarked" \in current[c] THEN "unseen" ELSE "stale" :
     c \in {d \in CellsOf(r) : place \notin current[d]}}

\* syncMemoryToExternalFDLocked
SyncTo(s, r) ==
  IF s.fd THEN [s EXCEPT !.current = Transfer(@, "bytes", "pages", r)] ELSE s

\* refreshMemoryFromExternalFDLocked
RefreshFrom(s, r) ==
  IF s.fd THEN [s EXCEPT !.current = Transfer(@, "pages", "bytes", r)] ELSE s

\* The dirty range goes to Metal's buffer.
UploadDirty(s) == [s EXCEPT !.current = Transfer(@, "bytes", "metal", s.dirty), !.dirty = Clean]

\* uploadBufferForMetalLocked of a buffer that occupies r
UploadBuffer(s, r) ==
  IF s.fd
  THEN [RefreshFrom(s, r) EXCEPT !.current = Transfer(@, "bytes", "metal", r)]
  ELSE UploadDirty(s)

\* What writeBufferBytesLocked does once it has copied into the bytes.
Written(s, r) ==
  [SyncTo([s EXCEPT !.current = Store(@, "bytes", r)], r)
     EXCEPT !.dirty = IF s.fd THEN Clean ELSE Hull(@, r)]

----------------------------------------------------------------------------
(* One more fact about an allocation that only the application knows:      *)
(* "unflushed", the cells of shared memory it wrote through the mapping    *)
(* and did not flush.                                                      *)

NewMemory(shared) ==
  [fd |-> shared, mapped |-> Clean, refs |-> 0,
   dirty |-> IF shared THEN Whole ELSE Clean,
   unflushed |-> {},
   current |-> [c \in Cells |->
     IF shared THEN {"bytes", "pages"} ELSE {"bytes", "metal"}]]

MemoryInit ==
  /\ memory = EmptyTable
  /\ bound = EmptyTable
  /\ dirty = EmptyTable
  /\ pending = EmptyTable
  /\ observed = {}

\* vkAllocateMemory; importing an OPAQUE_FD reads its pages into the bytes.
AllocateMemory(m, imported) ==
  /\ m \notin DOMAIN memory
  /\ memory' = Put(memory, m, NewMemory(imported))
  /\ observed' = {}
  /\ UNCHANGED <<bound, dirty, pending>>

\* vkFreeMemory; buffers and images keep their pointers, so the application
\* destroys them first.
FreeMemory(m) ==
  /\ m \in DOMAIN memory
  /\ \A x \in DOMAIN bound : bound[x] # m
  /\ memory' = Drop(memory, m)
  /\ observed' = {}
  /\ UNCHANGED <<bound, dirty, pending>>

NewTexture(s, i) ==
  [s EXCEPT !.current = [s.current EXCEPT ![Placement[i]] = @ \cup {"texture"}]]

\* vkBindBufferMemory, vkBindImageMemory.  What a new image shows is undefined,
\* so its new texture on the host is as good as what its cell held.
BindMemory(x, m) ==
  /\ m \in DOMAIN memory
  /\ x \in (Buffers \cup Images) \ DOMAIN bound
  /\ bound' = Put(bound, x, m)
  /\ dirty' = IF x \in Images THEN Put(dirty, x, FALSE) ELSE dirty
  /\ memory' = IF x \in Images THEN [memory EXCEPT ![m] = NewTexture(@, x)] ELSE memory
  /\ observed' = {}
  /\ UNCHANGED pending

\* vkDestroyBuffer, vkDestroyImage
DestroyResource(x) ==
  /\ x \in DOMAIN bound
  /\ \A f \in DOMAIN pending : pending[f].of # x
  /\ bound' = Drop(bound, x)
  /\ dirty' = Drop(dirty, x)
  /\ observed' = {}
  /\ UNCHANGED <<memory, pending>>

----------------------------------------------------------------------------
(* The application and CUDA beside the driver.                             *)

Pending(m) == \E f \in DOMAIN pending : bound[pending[f].of] = m

\* The application leaves memory alone while a command it has not waited
\* for uses it.
Settled(m) == "overlap" \in Liberties \/ ~Pending(m)

\* Memory shared with CUDA is neither mapped nor used by the paths that take
\* no notice of its file.
Private(m) == "shared" \in Liberties \/ ~memory[m].fd

IsMapped(s) == s.refs > 0

ImageCells(m) == {Placement[i] : i \in {j \in Images \cap DOMAIN bound : bound[j] = m}}

\* Whether the range a mapping, a flush or a command marked will take what the
\* application writes to c: to Metal's buffer, never to a texture.
Marked(m, c) == memory[m].fd \/ c \in CellsOf(memory[m].dirty) \ ImageCells(m)

\* The application writes through the pointer, at any time that it is mapped:
\* the driver does not see it.
HostWrite(m, c) ==
  /\ m \in DOMAIN memory
  /\ Settled(m) /\ IsMapped(memory[m])
  /\ c \in CellsOf(memory[m].mapped)
  /\ memory' = [memory EXCEPT ![m] =
       [memory[m] EXCEPT
          !.current = [@ EXCEPT ![c] = {"bytes"} \cup IF Marked(m, c) THEN {} ELSE {"unmarked"}],
          !.unflushed = IF memory[m].fd THEN @ \cup {c} ELSE @]]
  /\ observed' = {}
  /\ UNCHANGED <<bound, dirty, pending>>

CudaWrite(m, c) ==
  /\ m \in DOMAIN memory
  /\ Settled(m) /\ memory[m].fd /\ memory[m].unflushed = {}
  /\ memory' = [memory EXCEPT ![m] =
       [memory[m] EXCEPT !.current = [@ EXCEPT ![c] = {"pages"}]]]
  /\ observed' = {}
  /\ UNCHANGED <<bound, dirty, pending>>

----------------------------------------------------------------------------
(* Mapping, flushing and exporting.                                        *)

\* vkMapMemory: the first mapping makes its range dirty, an identical one
\* only counts.
MapMemory(m, r) ==
  /\ m \in DOMAIN memory /\ Settled(m) /\ Private(m)
  /\ r.from < r.to
  /\ \/ /\ ~IsMapped(memory[m])
        /\ memory' = [memory EXCEPT ![m] =
             [memory[m] EXCEPT !.mapped = r, !.refs = 1, !.dirty = Hull(@, r)]]
     \/ /\ IsMapped(memory[m])
        /\ memory[m].mapped = r /\ memory[m].refs < MaxMaps
        /\ memory' = [memory EXCEPT ![m] = [memory[m] EXCEPT !.refs = @ + 1]]
  /\ observed' = {}
  /\ UNCHANGED <<bound, dirty, pending>>

\* vkUnmapMemory
UnmapMemory(m) ==
  /\ m \in DOMAIN memory /\ Settled(m) /\ IsMapped(memory[m])
  /\ LET s == SyncTo(memory[m], memory[m].dirty)
         last == [s EXCEPT !.refs = 0, !.mapped = Clean, !.unflushed = {},
                           !.dirty = IF s.fd THEN Clean ELSE @]
     IN  memory' = [memory EXCEPT ![m] =
           IF s.refs > 1 THEN [s EXCEPT !.refs = @ - 1] ELSE last]
  /\ observed' = {}
  /\ UNCHANGED <<bound, dirty, pending>>

\* vkFlushMappedMemoryRanges: shared memory goes to its file, and nothing of it
\* is dirty any more; of the driver's own memory nothing is marked.
FlushMemory(m, r) ==
  /\ m \in DOMAIN memory /\ Settled(m) /\ IsMapped(memory[m])
  /\ r.from < r.to
  /\ LET s == SyncTo(memory[m], r)
     IN  memory' = [memory EXCEPT ![m] =
           [s EXCEPT !.dirty = IF s.fd THEN Clean ELSE @, !.unflushed = @ \ CellsOf(r)]]
  /\ observed' = {}
  /\ UNCHANGED <<bound, dirty, pending>>

\* vkInvalidateMappedMemoryRanges
InvalidateMemory(m, r) ==
  /\ m \in DOMAIN memory /\ Settled(m) /\ IsMapped(memory[m])
  /\ r.from < r.to /\ memory[m].unflushed = {}
  /\ memory' = [memory EXCEPT ![m] = RefreshFrom(@, r)]
  /\ observed' = {}
  /\ UNCHANGED <<bound, dirty, pending>>

\* Mutant: the new file gets what is dirty and no more.
ExportDirtyOnly(m) ==
  /\ m \in DOMAIN memory /\ Settled(m)
  /\ Private(m) /\ ("shared" \in Liberties \/ ~IsMapped(memory[m]))
  /\ LET exported == SyncTo([memory[m] EXCEPT !.fd = TRUE], memory[m].dirty)
     IN  memory' = [memory EXCEPT ![m] =
           [exported EXCEPT !.dirty = Clean, !.unflushed = {}]]
  /\ observed' = {}
  /\ UNCHANGED <<bound, dirty, pending>>

\* vkGetMemoryFdKHR: the first export writes everything to a new file, a
\* later one only what is dirty.
GetMemoryFd(m) ==
  /\ m \in DOMAIN memory /\ Settled(m)
  /\ Private(m) /\ ("shared" \in Liberties \/ ~IsMapped(memory[m]))
  /\ LET s == memory[m]
         exported == SyncTo([s EXCEPT !.fd = TRUE], IF s.fd THEN s.dirty ELSE Whole)
     IN  memory' = [memory EXCEPT ![m] =
           [exported EXCEPT !.dirty = Clean, !.unflushed = {}]]
  /\ observed' = {}
  /\ UNCHANGED <<bound, dirty, pending>>

----------------------------------------------------------------------------
(* Commands.  Each action is one vkQueueSubmit that replays one recorded   *)
(* command, up to the state its VkResult leaves.                           *)

Usable(x) == x \in DOMAIN bound /\ Settled(bound[x])
PrivateTo(x) == Private(bound[x])

\* What a command leaves behind: the memory it changed, what it read stale.
Ran(newMemory, stale) ==
  /\ memory' = newMemory
  /\ observed' = stale
  /\ UNCHANGED <<bound, pending>>

\* A read of a buffer by the replay itself: copyDeviceAddressBytesLocked
\* refreshes from the file first.
ReadBytes(s, x) == RefreshFrom(s, Cell(x))

\* vkCmdFillBuffer, vkCmdUpdateBuffer
FillBuffer(b) ==
  /\ b \in Buffers /\ Usable(b)
  /\ Ran([memory EXCEPT ![bound[b]] = Written(@, Cell(b))], {})
  /\ UNCHANGED dirty

\* vkCmdCopyBuffer
CopyBuffer(a, b) ==
  /\ {a, b} \subseteq Buffers /\ Usable(a) /\ Usable(b) /\ a # b
  /\ LET read == [memory EXCEPT ![bound[a]] = ReadBytes(@, a)]
     IN  Ran([read EXCEPT ![bound[b]] = Written(@, Cell(b))],
             Stale(read[bound[a]].current, "bytes", Cell(a)))
  /\ UNCHANGED dirty

\* What the replay writes to an image goes to the bytes of its memory;
\* syncTransferredImageLocked passes it on to the file at the end.
ImageWritten(s, i) ==
  LET stored == [s EXCEPT !.current = Store(@, "bytes", Cell(i))]
  IN  IF s.fd THEN [SyncTo(stored, Cell(i)) EXCEPT !.dirty = Clean] ELSE stored

\* vkCmdClearColorImage
ClearImage(i) ==
  /\ i \in Images /\ Usable(i) /\ PrivateTo(i)
  /\ Ran([memory EXCEPT ![bound[i]] = ImageWritten(@, i)], {})
  /\ dirty' = [dirty EXCEPT ![i] = TRUE]

\* vkCmdCopyBufferToImage and vkCmdCopyImage read the bytes as they are.
CopyToImage(x, i) ==
  /\ i \in Images /\ x # i /\ Usable(x) /\ Usable(i) /\ PrivateTo(x) /\ PrivateTo(i)
  /\ Ran([memory EXCEPT ![bound[i]] = ImageWritten(@, i)],
         Stale(memory[bound[x]].current, "bytes", Cell(x)))
  /\ dirty' = [dirty EXCEPT ![i] = TRUE]

\* vkCmdCopyImageToBuffer
CopyImageToBuffer(i, b) ==
  /\ i \in Images /\ b \in Buffers /\ Usable(i) /\ Usable(b) /\ PrivateTo(i) /\ PrivateTo(b)
  /\ LET stored == [memory[bound[b]] EXCEPT !.current = Store(@, "bytes", Cell(b)),
                                            !.dirty = Hull(@, Cell(b))]
     IN  Ran([memory EXCEPT ![bound[b]] = SyncTo(stored, Cell(b))],
             Stale(memory[bound[i]].current, "bytes", Cell(i)))
  /\ UNCHANGED dirty

\* Metal reads a buffer: acceleration-structure builds upload its vertices.
BuildFromBuffer(b) ==
  /\ b \in Buffers /\ Usable(b)
  /\ LET s == UploadBuffer(memory[bound[b]], Cell(b))
     IN  Ran([memory EXCEPT ![bound[b]] = s], Stale(s.current, "metal", Cell(b)))
  /\ UNCHANGED dirty

\* Mutant: Metal's result stays with Metal.
LeftOnMetal(s, place, x) == [s EXCEPT !.current = Store(@, place, Cell(x))]

\* Metal writes a cell and the driver reads it back and passes it on.
ReadBack(s, place, x) ==
  SyncTo([s EXCEPT !.current =
    Transfer(Store(@, place, Cell(x)), place, "bytes", Cell(x))], Cell(x))

\* bridgeComputeDispatchLocked: a dispatch with one buffer to read and one
\* buffer or image to write.
DispatchToBuffer(a, b) ==
  /\ {a, b} \subseteq Buffers /\ Usable(a) /\ Usable(b)
  /\ LET first == [memory EXCEPT ![bound[a]] = UploadBuffer(@, Cell(a))]
         both  == [first EXCEPT ![bound[b]] = UploadBuffer(@, Cell(b))]
     IN  Ran([both EXCEPT ![bound[b]] = ReadBack(@, "metal", b)],
             Stale(both[bound[a]].current, "metal", Cell(a))
               \cup Stale(both[bound[b]].current, "metal", Cell(b)))
  /\ UNCHANGED dirty

\* uploadComputeImageForMetalLocked
UploadImage(s, i) ==
  [RefreshFrom(s, Cell(i)) EXCEPT !.current = Transfer(@, "bytes", "texture", Cell(i))]

DispatchToImage(a, i) ==
  /\ a \in Buffers /\ i \in Images /\ Usable(a) /\ Usable(i)
  /\ LET first == [memory EXCEPT ![bound[a]] = UploadBuffer(@, Cell(a))]
         both  == [first EXCEPT ![bound[i]] = UploadImage(@, i)]
     IN  Ran([both EXCEPT ![bound[i]] = ReadBack(@, "texture", i)],
             Stale(both[bound[a]].current, "metal", Cell(a))
               \cup Stale(both[bound[i]].current, "texture", Cell(i)))
  /\ dirty' = [dirty EXCEPT ![i] = TRUE]

\* A scene trace renders into the storage image and is read back.
TraceRays(i) ==
  /\ i \in Images /\ Usable(i)
  /\ Ran([memory EXCEPT ![bound[i]] = ReadBack(@, "texture", i)], {})
  /\ dirty' = [dirty EXCEPT ![i] = TRUE]

----------------------------------------------------------------------------
(* The Kit UI and the two submits whose result is read back at the fence.  *)

\* The dirty range of the vertices goes to Metal, a dirty texture is
\* written, and the draw waits for the host.
DrawUI(b, i, scene) ==
  /\ b \in Buffers /\ i \in Images /\ Usable(b) /\ Usable(i) /\ PrivateTo(b)
  /\ scene \/ PrivateTo(i)
  /\ LET uploaded == UploadDirty(memory[bound[b]])
         one == [memory EXCEPT ![bound[b]] = uploaded]
         target == IF scene
                   THEN SyncTo([one[bound[i]] EXCEPT !.current = Store(@, "bytes", Cell(i))],
                               Cell(i))
                   ELSE one[bound[i]]
         shown == IF dirty[i] \/ scene
                  THEN [target EXCEPT !.current = Transfer(@, "bytes", "texture", Cell(i))]
                  ELSE target
     IN  Ran([one EXCEPT ![bound[i]] = shown],
             Stale(uploaded.current, "metal", Cell(b))
               \cup Stale(shown.current, "texture", Cell(i)))
  /\ dirty' = [dirty EXCEPT ![i] = FALSE]

\* completeFenceLocked: an image's result comes back cell by cell, a
\* buffer's as the whole allocation; neither is passed on to the file.
Completed(s, x) ==
  IF x \in Images
  THEN [s EXCEPT !.current = Transfer(@, "texture", "bytes", Cell(x))]
  ELSE [s EXCEPT !.current = Transfer(@, "metal", "bytes", Whole)]

\* Metal's result of the submit, and what becomes of it with and without a
\* fence.
Submitted(newMemory, x, f, stale) ==
  /\ observed' = stale
  /\ \/ /\ f \in Fences \ DOMAIN pending
        /\ memory' = newMemory
        /\ pending' = Put(pending, f, [of |-> x])
     \/ /\ f = "none"
        /\ memory' = [newMemory EXCEPT ![bound[x]] = Completed(@, x)]
        /\ UNCHANGED pending
  /\ UNCHANGED bound

\* Mutant: ADD_U32 uploads the dirty range like everybody else.
AddUploadingDirty(b, f) ==
  /\ b \in Buffers /\ Usable(b) /\ PrivateTo(b) /\ Placement[b] = 0
  /\ LET s == UploadBuffer(memory[bound[b]], Cell(b))
     IN  Submitted([memory EXCEPT ![bound[b]] =
                      [s EXCEPT !.current = Store(@, "metal", Cell(b))]],
                   b, f, Stale(s.current, "metal", Cell(b)))
  /\ UNCHANGED dirty

\* ADD_U32: the whole allocation is written to Metal, whatever is dirty.
SubmitAdd(b, f) ==
  /\ b \in Buffers /\ Usable(b) /\ PrivateTo(b) /\ Placement[b] = 0
  /\ LET s == [memory[bound[b]] EXCEPT !.current = Transfer(@, "bytes", "metal", Whole)]
     IN  Submitted([memory EXCEPT ![bound[b]] =
                      [s EXCEPT !.current = Store(@, "metal", Cell(b))]],
                   b, f, Stale(s.current, "metal", Cell(b)))
  /\ UNCHANGED dirty

\* The fixed triangle overwrites its target.
SubmitTriangle(i, f) ==
  /\ i \in Images /\ Usable(i) /\ PrivateTo(i)
  /\ LET s == memory[bound[i]]
     IN  Submitted([memory EXCEPT ![bound[i]] =
                      [s EXCEPT !.current = Store(@, "texture", Cell(i))]], i, f, {})
  /\ UNCHANGED dirty

\* vkWaitForFences, vkDeviceWaitIdle, vkQueueWaitIdle
WaitForFence(f) ==
  /\ f \in DOMAIN pending
  /\ LET x == pending[f].of
     IN  memory' = [memory EXCEPT ![bound[x]] = Completed(@, x)]
  /\ pending' = Drop(pending, f)
  /\ observed' = {}
  /\ UNCHANGED <<bound, dirty>>

----------------------------------------------------------------------------

Host ==
  \E m \in Memories :
    \/ \E imported \in BOOLEAN : AllocateMemory(m, imported)
    \/ FreeMemory(m)
    \/ \E x \in Buffers \cup Images : BindMemory(x, m)
    \/ \E r \in Ranges : MapMemory(m, r)
    \/ \E c \in Cells : HostWrite(m, c)
    \/ UnmapMemory(m)
    \/ \E r \in Ranges : FlushMemory(m, r)
    \/ \E r \in Ranges : InvalidateMemory(m, r)
    \/ GetMemoryFd(m)
    \/ \E c \in Cells : CudaWrite(m, c)

Replay ==
  \/ \E x \in Buffers \cup Images : DestroyResource(x)
  \/ \E b \in Buffers : FillBuffer(b) \/ BuildFromBuffer(b)
  \/ \E a, b \in Buffers : CopyBuffer(a, b) \/ DispatchToBuffer(a, b)
  \/ \E i \in Images : ClearImage(i) \/ TraceRays(i)
  \/ \E x \in Buffers \cup Images, i \in Images : CopyToImage(x, i)
  \/ \E i \in Images, b \in Buffers : CopyImageToBuffer(i, b) \/ DispatchToImage(b, i)

Present ==
  \/ \E i \in Images, b \in Buffers, scene \in BOOLEAN : DrawUI(b, i, scene)
  \/ \E b \in Buffers, f \in Fences \cup {"none"} : SubmitAdd(b, f)
  \/ \E i \in Images, f \in Fences \cup {"none"} : SubmitTriangle(i, f)
  \/ \E f \in Fences : WaitForFence(f)

MemoryNext == Host \/ Replay \/ Present

----------------------------------------------------------------------------

MemoryStates ==
  [fd : BOOLEAN, mapped : Ranges, refs : 0 .. MaxMaps, dirty : Ranges,
   unflushed : SUBSET Cells, current : [Cells -> SUBSET Holders]]

\* The tables name only what exists, and a pending fence a bound resource.
MemoryTypeOK ==
  /\ IsTable(memory, Memories, MemoryStates)
  /\ IsTable(bound, Buffers \cup Images, DOMAIN memory)
  /\ IsTable(dirty, Images, BOOLEAN)
  /\ DOMAIN dirty = Images \cap DOMAIN bound
  /\ IsTable(pending, Fences, [of : DOMAIN bound])
  /\ observed \subseteq {"stale", "unseen"}

\* Whatever was last written to a cell, by the application, by CUDA, by a
\* replayed command or by Metal, is still held in some place: no copy
\* between bytes, file and Metal overwrites its only instance.
NothingLost ==
  \A m \in DOMAIN memory : \A c \in Cells : memory[m].current[c] \cap Places # {}

\* Whatever a command reads, from the driver's bytes or from Metal, is what
\* was last written there by a command, by Metal, by CUDA or through a mapping
\* whose range was marked; only a write the driver has no mark of may be missed.
CommandsReadCurrent == "stale" \notin observed

\* Memory is host-coherent: what the application has written through a mapping
\* is there for every command it submits afterwards.
MappedWritesReachMetal == "unseen" \notin observed

\* Once its submits are waited for, memory the driver alone owns can be read
\* through a mapping without any further call.
HostSeesResults ==
  \A m \in DOMAIN memory :
    ~memory[m].fd /\ ~Pending(m) => \A c \in Cells : "bytes" \in memory[m].current[c]

\* Once its submits are waited for, CUDA finds in the shared file whatever
\* Vulkan wrote.
SharedPagesCurrent ==
  \A m \in DOMAIN memory :
    memory[m].fd /\ ~Pending(m) /\ ~IsMapped(memory[m])
      => \A c \in Cells : "pages" \in memory[m].current[c]

MemorySpec == MemoryInit /\ [][MemoryNext]_memoryVars

=============================================================================
