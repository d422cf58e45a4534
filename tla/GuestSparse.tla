---------------------------- MODULE GuestSparse ----------------------------
(***************************************************************************)
(* Sparse binding in the guest's Vulkan driver.  A sparse buffer keeps a   *)
(* list of bound ranges that every bind cuts and extends; its pages are    *)
(* looked up in that list.  A sparse image lives in a Metal sparse texture *)
(* whose tiles are half as wide as the tiles Vulkan is shown, and whose    *)
(* small mip levels are one mip tail.  Offsets are in pages of 64 KiB, and *)
(* an image has one dimension: width, tiles and rounding are per axis.     *)
(***************************************************************************)
EXTENDS Integers, FiniteSets

CONSTANTS
  SparseMemories,     \* VkDeviceMemory handles
  MemoryPages,  \* pages of an allocation
  Pages,        \* pages of the buffer
  Width,        \* texels of the image's level 0
  Levels,       \* its mip levels
  MetalTile     \* texels of a Metal tile

ASSUME SparseAssumption ==
  /\ MemoryPages \in Nat \ {0} /\ Pages \in Nat \ {0}
  /\ Width \in Nat \ {0} /\ Levels \in Nat \ {0} /\ MetalTile \in Nat \ {0}
  /\ "none" \notin SparseMemories

VARIABLES
  allocated,  \* the allocations that exist
  ranges,     \* BufferState.sparseBindings
  resident,   \* the guest tiles and the mip tail the application has bound
  mapped,     \* the tiles mapped in the host's Metal texture
  lost        \* a vkQueueBindSparse has returned VK_ERROR_DEVICE_LOST

sparseVars == <<allocated, ranges, resident, mapped, lost>>

----------------------------------------------------------------------------
(* Buffers.                                                                *)

Binding(from, size, m, at) == [from |-> from, size |-> size, memory |-> m, at |-> at]
End(r) == r.from + r.size
Covers(r, p) == r.from <= p /\ p < End(r)

\* The lookup takes the first range that covers a page; the list is sorted.
Found(p) ==
  CHOOSE r \in ranges : Covers(r, p) /\ \A s \in ranges : Covers(s, p) => r.from <= s.from

Resolved(p) ==
  IF \E r \in ranges : Covers(r, p)
  THEN <<Found(p).memory, Found(p).at + p - Found(p).from>>
  ELSE <<"none", 0>>

\* Mutant: what is left to the right keeps the memory offset of the whole.
CutSharingOffset(from, size) ==
  LET end == from + size
  IN  {r \in ranges : End(r) <= from \/ r.from >= end}
        \cup {Binding(r.from, from - r.from, r.memory, r.at) :
                r \in {s \in ranges : s.from < from /\ End(s) > from}}
        \cup {Binding(end, End(r) - end, r.memory, r.at) :
                r \in {s \in ranges : s.from < end /\ End(s) > end}}

\* Mutant: only ranges the bind covers entirely give way.
CutCoveredOnly(from, size) == {r \in ranges : r.from < from \/ End(r) > from + size}

\* What a bind leaves of the ranges it meets: their parts to the left and to
\* the right of it.
Cut(from, size) ==
  LET end == from + size
  IN  {r \in ranges : End(r) <= from \/ r.from >= end}
        \cup {Binding(r.from, from - r.from, r.memory, r.at) :
                r \in {s \in ranges : s.from < from /\ End(s) > from}}
        \cup {Binding(end, End(r) - end, r.memory, r.at + end - r.from) :
                r \in {s \in ranges : s.from < end /\ End(s) > end}}

SparseInit ==
  /\ allocated = {}
  /\ ranges = {}
  /\ resident = {}
  /\ mapped = {}
  /\ lost = FALSE

AllocateSparse(m) ==
  /\ m \in SparseMemories \ allocated
  /\ allocated' = allocated \cup {m}
  /\ UNCHANGED <<ranges, resident, mapped, lost>>

\* vkFreeMemory; an image's tiles stay mapped.
FreeSparse(m) ==
  /\ m \in allocated
  /\ allocated' = allocated \ {m}
  /\ ranges' = {r \in ranges : r.memory # m}
  /\ UNCHANGED <<resident, mapped, lost>>

\* One VkSparseMemoryBind of a buffer, with memory or without.
BindBuffer(from, size, m, at) ==
  /\ ~lost /\ m \in allocated
  /\ from + size <= Pages /\ at + size <= MemoryPages
  /\ ranges' = Cut(from, size) \cup {Binding(from, size, m, at)}
  /\ UNCHANGED <<allocated, resident, mapped, lost>>

UnbindBuffer(from, size) ==
  /\ ~lost /\ from + size <= Pages
  /\ ranges' = Cut(from, size)
  /\ UNCHANGED <<allocated, resident, mapped, lost>>

----------------------------------------------------------------------------
(* Images.                                                                 *)

\* sparseImageGranularity: two Metal tiles in each direction
GuestTile == 2 * MetalTile

\* max(1, extent >> level)
LevelWidth ==
  LET width[level \in 0 .. Levels - 1] ==
        IF level = 0 THEN Width
        ELSE IF width[level - 1] = 1 THEN 1 ELSE width[level - 1] \div 2
  IN  width

CeilDiv(a, b) == (a + b - 1) \div b

\* sparseImageRequirements: the mip tail starts at the first level smaller
\* than a guest tile.
TailFrom(level) == \E l \in 0 .. level : LevelWidth[l] < GuestTile
MipTail == {level \in 0 .. Levels - 1 : TailFrom(level)}
Tiled == (0 .. Levels - 1) \ MipTail

\* The mip tail counts as one tile, below all levels.
TailTile == <<Levels, 0>>
GuestTiles == {t \in Tiled \X (0 .. Width) : t[2] * GuestTile < LevelWidth[t[1]]}

\* Mutant: a partial tile at the edge of a level is not counted.
WholeTilesOnly(level, offset, extent) ==
  {<<level, x>> : x \in offset \div MetalTile .. (offset \div MetalTile) + (extent \div MetalTile) - 1}

\* The Metal tiles of a texel range, as updateSparseImageMapping names them.
MetalTiles(level, offset, extent) ==
  {<<level, x>> : x \in offset \div MetalTile .. (offset \div MetalTile) + CeilDiv(extent, MetalTile) - 1}

Update(tiles, map) == IF map THEN mapped \cup tiles ELSE mapped \ tiles

\* One VkSparseImageMemoryBind over whole guest tiles, with memory (map) or
\* without: extents end at a tile or at the edge of the level.
BindTiles(level, first, last, map) ==
  LET extent == IF (last + 1) * GuestTile > LevelWidth[level]
                THEN LevelWidth[level] - first * GuestTile
                ELSE (last + 1 - first) * GuestTile
  IN  /\ ~lost
      /\ <<level, first>> \in GuestTiles /\ <<level, last>> \in GuestTiles /\ first <= last
      /\ mapped' = Update(MetalTiles(level, first * GuestTile, extent), map)
      /\ resident' = LET tiles == {<<level, t>> : t \in first .. last}
                      IN  IF map THEN resident \cup tiles ELSE resident \ tiles
      /\ UNCHANGED <<allocated, ranges, lost>>

\* One opaque bind over the mip tail: a request to the host for each of its
\* levels.  When one fails the levels before it keep their new mapping.  The
\* driver takes a bind of any blocks of the tail for one of all its levels;
\* the application binds the tail whole.
BindTail(map, failing) ==
  LET done == {level \in MipTail : level < failing}
  IN  /\ ~lost /\ MipTail # {} /\ failing \in MipTail \cup {Levels}
      /\ mapped' = Update(UNION {MetalTiles(level, 0, LevelWidth[level]) : level \in done}, map)
      /\ lost' = (failing # Levels)
      /\ resident' = IF failing # Levels THEN resident
                     ELSE IF map THEN resident \cup {TailTile} ELSE resident \ {TailTile}
      /\ UNCHANGED <<allocated, ranges>>

\* A tile bind fails on its one request: the mapping is as it was.
BindTilesFails ==
  /\ ~lost
  /\ lost' = TRUE
  /\ UNCHANGED <<allocated, ranges, resident, mapped>>

BufferBinds ==
  \/ \E m \in SparseMemories : AllocateSparse(m) \/ FreeSparse(m)
  \/ \E from \in 0 .. Pages - 1, size \in 1 .. Pages :
       \/ UnbindBuffer(from, size)
       \/ \E m \in SparseMemories, at \in 0 .. MemoryPages - 1 : BindBuffer(from, size, m, at)

ImageBinds ==
  \/ \E level \in Tiled, first, last \in 0 .. Width, map \in BOOLEAN :
       BindTiles(level, first, last, map)
  \/ \E map \in BOOLEAN, failing \in 0 .. Levels : BindTail(map, failing)
  \/ BindTilesFails

SparseNext == BufferBinds \/ ImageBinds

----------------------------------------------------------------------------

\* A range of the buffer over pages of a memory.
Bindings == [from : 0 .. Pages - 1, size : 1 .. Pages, memory : SparseMemories, at : 0 .. MemoryPages - 1]

\* No page is in two ranges: which of them a lookup finds first is moot.
RangesDisjoint ==
  \A r, s \in ranges : r # s => End(r) <= s.from \/ End(s) <= r.from

\* However binds overlap, cut and free each other, the list is a page table.
PageTable == INSTANCE SparsePages WITH Memories <- SparseMemories, pages <- [p \in 0 .. Pages - 1 |-> Resolved(p)]
ListIsPageTable == PageTable!Spec

\* Until the driver reports the device lost, a texel has memory on the host
\* exactly if the application has bound the tile, or the mip tail, it lies
\* in: no rounding between the two tile sizes maps or unmaps a neighbour.
ResidencyExact ==
  ~lost => \A level \in 0 .. Levels - 1 : \A x \in 0 .. LevelWidth[level] - 1 :
    <<level, x \div MetalTile>> \in mapped
      <=> IF level \in MipTail THEN TailTile \in resident
                            ELSE <<level, x \div GuestTile>> \in resident

SparseSpec == SparseInit /\ [][SparseNext]_sparseVars

=============================================================================
