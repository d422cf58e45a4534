---------------------------- MODULE GuestImages ----------------------------
(***************************************************************************)
(* The bytes the guest's driver keeps of its images, and the copies it     *)
(* replays on them itself: buffer to image, image to image, image to       *)
(* buffer and clears.  An image is its layers one after the other, each    *)
(* its mip levels one after the other, each its blocks row by row.  Beside *)
(* the bytes stands what Vulkan says every block of an image holds.        *)
(*                                                                         *)
(* Bytes are counted in blocks: all formats here have one size of block.   *)
(***************************************************************************)
EXTENDS Integers

CONSTANTS
  Images,         \* of one device
  Shape,          \* per image: block and extent as <<width, height, depth>>,
                  \*   mips, layers, and whether it is bound sparsely
  BufferBlocks,   \* size of the two buffers, in blocks
  Regions,        \* [level, layer, layers, offset, extent], in texels
  Layouts,        \* [from, rowLength, imageHeight] of the buffer of a copy
  MaxTransfers,   \* bound on the transfers
  ForeignWriters  \* images of which CUDA or a mapping writes levels the driver
                  \*   takes for unwritten

ASSUME ImageAssumption ==
  /\ BufferBlocks \in Nat \ {0} /\ MaxTransfers \in Nat
  /\ ForeignWriters \subseteq Images
  /\ \A i \in Images :
       /\ Shape[i].block \in [1 .. 3 -> Nat \ {0}] /\ Shape[i].extent \in [1 .. 3 -> Nat \ {0}]
       /\ Shape[i].mips \in Nat \ {0} /\ Shape[i].layers \in Nat \ {0}
  /\ Regions \subseteq [level : Nat, layer : Nat, layers : Nat,
                        offset : [1 .. 3 -> Nat], extent : [1 .. 3 -> Nat]]
  /\ Layouts \subseteq [from : Nat, rowLength : Nat, imageHeight : Nat]

VARIABLES
  bytes,        \* memory->bytes, or sparseBytes, of each image
  initialized,  \* initializedSubresources, as pairs of level and layer
  readback,     \* the buffer images are copied to
  ideal,        \* what Vulkan says images and that buffer hold
  outcome,      \* of the last transfer
  transfers     \* how many there were

imageVars == <<bytes, initialized, readback, ideal, outcome, transfers>>

Undefined == -1
Zero == 0
\* The buffer images are filled from: every block another value.
Source == [n \in 0 .. BufferBlocks - 1 |-> n + 1]

----------------------------------------------------------------------------
(* The layout.                                                             *)

Divided(n, by) == (n + by - 1) \div by
InBlocks(i, extent) == [k \in 1 .. 3 |-> Divided(extent[k], Shape[i].block[k])]

\* std::max(1U, extent >> level)
Halved(extent, level) ==
  LET at[m \in 0 .. level] ==
        IF m = 0 THEN extent ELSE IF at[m - 1] = 1 THEN 1 ELSE at[m - 1] \div 2
  IN  at[level]
LevelExtent(i, level) == [k \in 1 .. 3 |-> Halved(Shape[i].extent[k], level)]

LevelBlocks(i, level) == InBlocks(i, LevelExtent(i, level))
MipByteSize(i, level) ==
  LET n == LevelBlocks(i, level) IN n[1] * n[2] * n[3]
\* The bytes of the first levels of a layer.
LevelsByteSize(i, levels) ==
  LET size[m \in 0 .. levels] == IF m = 0 THEN 0 ELSE size[m - 1] + MipByteSize(i, m - 1)
  IN  size[levels]
LayerByteSize(i) == LevelsByteSize(i, Shape[i].mips)

\* Mutant: the levels below are counted without the layers before.
SubresourceOffsetInLayer(i, level, layer) == LevelsByteSize(i, level)

SubresourceOffset(i, level, layer) == LayerByteSize(i) * layer + LevelsByteSize(i, level)

\* The place of the block at of a subresource.
Place(i, level, layer, at) ==
  LET n == LevelBlocks(i, level) IN
  SubresourceOffset(i, level, layer) + (at[3] * n[2] + at[2]) * n[1] + at[1]

ImageSize(i) == LayerByteSize(i) * Shape[i].layers

Cells(n) == {<<x, y, z>> : x \in 0 .. n[1] - 1, y \in 0 .. n[2] - 1, z \in 0 .. n[3] - 1}
Blocks(i) ==
  UNION {{<<m, l, at>> : at \in Cells(LevelBlocks(i, m))} :
           m \in 0 .. Shape[i].mips - 1, l \in 0 .. Shape[i].layers - 1}

\* vkCreateImage: memory is zero, no subresource has been written.
ImageInit ==
  /\ bytes = [i \in Images |-> [n \in 0 .. ImageSize(i) - 1 |-> Zero]]
  /\ initialized = [i \in Images |-> {}]
  /\ readback = [n \in 0 .. BufferBlocks - 1 |-> Zero]
  /\ ideal = [images |-> [i \in Images |-> [b \in Blocks(i) |-> Undefined]],
              readback |-> [n \in 0 .. BufferBlocks - 1 |-> Zero]]
  /\ outcome = "none"
  /\ transfers = 0

----------------------------------------------------------------------------
(* Regions.                                                                *)

\* What the replay of a copy between a buffer and an image asks of a region.
InImage(i, r) ==
  LET level == LevelExtent(i, r.level) block == Shape[i].block IN
  /\ r.level < Shape[i].mips /\ r.layer + r.layers <= Shape[i].layers
  /\ \A k \in 1 .. 3 :
       /\ r.offset[k] + r.extent[k] <= level[k]
       /\ r.offset[k] % block[k] = 0
       /\ r.extent[k] % block[k] # 0 => r.offset[k] + r.extent[k] = level[k]

OffsetBlocks(i, r) == [k \in 1 .. 3 |-> r.offset[k] \div Shape[i].block[k]]
\* The cells of a region: the layer, counted in the region, and the block.
CellsOf(i, r) == (0 .. r.layers - 1) \X Cells(InBlocks(i, r.extent))
\* Where a cell of a region is in the image.
InSubresource(i, r, cell) == [k \in 1 .. 3 |-> OffsetBlocks(i, r)[k] + cell[2][k]]
PlaceOf(i, r, cell) == Place(i, r.level, r.layer + cell[1], InSubresource(i, r, cell))
BlockOf(i, r, cell) ==
  LET at == InSubresource(i, r, cell) IN <<r.level, r.layer + cell[1], <<at[1], at[2], at[3]>>>>
Subresources(r) == {<<r.level, r.layer + l>> : l \in 0 .. r.layers - 1}

RowBlocks(i, r, layout) ==
  IF layout.rowLength = 0 THEN InBlocks(i, r.extent)[1]
  ELSE Divided(layout.rowLength, Shape[i].block[1])
ImageRows(i, r, layout) ==
  IF layout.imageHeight = 0 THEN InBlocks(i, r.extent)[2]
  ELSE Divided(layout.imageHeight, Shape[i].block[2])

\* The block of the buffer a cell of a region is copied from or to.
BufferPlace(i, r, layout, cell) ==
  layout.from
    + (cell[1] * InBlocks(i, r.extent)[3] + cell[2][3]) * RowBlocks(i, r, layout)
        * ImageRows(i, r, layout)
    + cell[2][2] * RowBlocks(i, r, layout) + cell[2][1]

Fits(i, r, layout) ==
  /\ layout.rowLength % Shape[i].block[1] = 0 /\ layout.imageHeight % Shape[i].block[2] = 0
  /\ RowBlocks(i, r, layout) >= InBlocks(i, r.extent)[1]
  /\ ImageRows(i, r, layout) >= InBlocks(i, r.extent)[2]
  /\ \A cell \in CellsOf(i, r) : BufferPlace(i, r, layout, cell) < BufferBlocks

\* f with what is written to it, as pairs of a place and a value.
Overlaid(f, written) ==
  [n \in DOMAIN f |->
     IF \E w \in written : w[1] = n THEN (CHOOSE w \in written : w[1] = n)[2] ELSE f[n]]

----------------------------------------------------------------------------
(* The transfers.                                                          *)

\* markImageSubresourceInitialized
Mark(i, subresources) ==
  initialized' = [initialized EXCEPT ![i] = @ \cup subresources]

Counted(result) ==
  /\ transfers < MaxTransfers /\ transfers' = transfers + 1
  /\ outcome' = result

\* executeBufferToImageCopyLocked: what content becomes.
Uploaded(i, r, layout, content) ==
  Overlaid(content, {<<PlaceOf(i, r, cell), Source[BufferPlace(i, r, layout, cell)]>> :
                       cell \in CellsOf(i, r)})

\* vkCmdCopyBufferToImage and its replay.
CopyBufferToImage(i, r, layout) ==
  /\ InImage(i, r) /\ Fits(i, r, layout)
  /\ Counted("success")
  /\ bytes' = [bytes EXCEPT ![i] = Uploaded(i, r, layout, @)]
  /\ Mark(i, Subresources(r))
  /\ ideal' = [ideal EXCEPT !.images[i] =
       Overlaid(@, {<<BlockOf(i, r, cell), Source[BufferPlace(i, r, layout, cell)]>> :
                      cell \in CellsOf(i, r)})]
  /\ UNCHANGED readback

\* executeImageClearLocked
ClearedTo(blocks, value, i, content) ==
  Overlaid(content, {<<Place(i, b[1], b[2], b[3]), value>> : b \in blocks})

\* vkCmdClearColorImage and its replay: whole levels of whole layers.  A format
\* in blocks has no texel to repeat.
ClearColorImage(i, levels, layers, value) ==
  /\ Shape[i].block = <<1, 1, 1>>
  /\ levels # {} /\ levels \subseteq 0 .. Shape[i].mips - 1
  /\ layers # {} /\ layers \subseteq 0 .. Shape[i].layers - 1
  /\ Counted("success")
  /\ LET cleared == {b \in Blocks(i) : b[1] \in levels /\ b[2] \in layers} IN
     /\ bytes' = [bytes EXCEPT ![i] = ClearedTo(cleared, value, i, @)]
     /\ ideal' = [ideal EXCEPT !.images[i] =
          Overlaid(@, {<<b, value>> : b \in cleared})]
  /\ Mark(i, levels \X layers)
  /\ UNCHANGED readback

\* executeImageCopyLocked: what the bytes of j become, whose region is target.
Copied(i, r, j, target, content) ==
  Overlaid(content, {<<PlaceOf(j, target, cell), bytes[i][PlaceOf(i, r, cell)]>> :
                       cell \in CellsOf(i, r)})

\* vkCmdCopyImage records regions inside both images; the replay rounds their
\* extent up to whole blocks.  A copy within one image does not overlap itself.
CopyImage(i, j, r, to) ==
  LET target == [r EXCEPT !.level = to.level, !.layer = to.layer, !.offset = to.offset] IN
  /\ Shape[i].block = Shape[j].block
  /\ InImage(i, r) /\ InImage(j, target)
  /\ i = j => {BlockOf(i, r, cell) : cell \in CellsOf(i, r)}
                 \cap {BlockOf(j, target, cell) : cell \in CellsOf(j, target)} = {}
  /\ Counted("success")
  /\ bytes' = [bytes EXCEPT ![j] = Copied(i, r, j, target, @)]
  /\ Mark(j, Subresources(target))
  /\ ideal' = [ideal EXCEPT !.images[j] =
       Overlaid(@, {<<BlockOf(j, target, cell), ideal.images[i][BlockOf(i, r, cell)]>> :
                      cell \in CellsOf(i, r)})]
  /\ UNCHANGED readback

\* ensureLinearImageMipInitializedLocked: a level never written is made, when
\* it is read, from the level above, and that from the one above it; the base
\* level is taken as it is.
Sampled(i, level, at) ==
  [k \in 1 .. 3 |-> LET above == LevelBlocks(i, level - 1)[k] - 1 IN
                    IF 2 * at[k] < above THEN 2 * at[k] ELSE above]
Generated(i, content, level, layer) ==
  Overlaid(content, {<<Place(i, level, layer, at),
                       content[Place(i, level - 1, layer, Sampled(i, level, at))]>> :
                       at \in Cells(LevelBlocks(i, level))})
Prepared(i, level, layer) ==
  LET made[m \in 0 .. level] ==
        IF <<m, layer>> \in initialized[i] \/ m = 0
        THEN bytes[i] ELSE Generated(i, made[m - 1], m, layer)
  IN made[level]
\* The levels that counted as written once level is prepared.
Made(i, level, layer) ==
  {<<m, layer>> : m \in {m \in 0 .. level :
     \A n \in m + 1 .. level : <<n, layer>> \notin initialized[i]}}

\* executeImageToBufferCopyLocked: what the buffer becomes.
ReadBackFrom(i, r, layout, content) ==
  Overlaid(readback, {<<BufferPlace(i, r, layout, cell), content[PlaceOf(i, r, cell)]>> :
                        cell \in CellsOf(i, r)})

\* vkCmdCopyImageToBuffer and its replay.  One layer: each prepares its own.
CopyImageToBuffer(i, r, layout) ==
  /\ InImage(i, r) /\ Fits(i, r, layout) /\ r.layers = 1
  /\ LET prepares == ~Shape[i].sparse /\ <<r.level, r.layer>> \notin initialized[i] IN
     \/ /\ prepares /\ Shape[i].block # <<1, 1, 1>>
        /\ Counted("unsupported")
        /\ UNCHANGED <<bytes, initialized, readback, ideal>>
     \/ /\ prepares => Shape[i].block = <<1, 1, 1>>
        /\ Counted("success")
        /\ bytes' = [bytes EXCEPT ![i] = IF prepares THEN Prepared(i, r.level, r.layer) ELSE @]
        /\ Mark(i, IF prepares THEN Made(i, r.level, r.layer) ELSE {})
        /\ readback' = ReadBackFrom(i, r, layout, bytes'[i])
        /\ ideal' = [ideal EXCEPT !.readback =
             Overlaid(@, {<<BufferPlace(i, r, layout, cell), ideal.images[i][BlockOf(i, r, cell)]>> :
                            cell \in CellsOf(i, r)})]

\* CUDA, or the application through a mapping, writes a level the driver knows
\* to be written; of those in ForeignWriters, any.
ForeignWrite(i, level, layer) ==
  /\ level = 0 \/ <<level, layer>> \in initialized[i] \/ i \in ForeignWriters
  /\ Counted("success")
  /\ LET b == <<level, layer, <<0, 0, 0>>>> IN
     /\ bytes' = [bytes EXCEPT ![i][Place(i, level, layer, <<0, 0, 0>>)] = BufferBlocks + 1]
     /\ ideal' = [ideal EXCEPT !.images[i][b] = BufferBlocks + 1]
  /\ UNCHANGED <<initialized, readback>>

----------------------------------------------------------------------------
Corners == {[level |-> r.level, layer |-> r.layer, offset |-> r.offset] : r \in Regions}

ImageNext ==
  \/ \E i \in Images, r \in Regions, layout \in Layouts :
       CopyBufferToImage(i, r, layout) \/ CopyImageToBuffer(i, r, layout)
  \/ \E i, j \in Images, r \in Regions, to \in Corners : CopyImage(i, j, r, to)
  \/ \E i \in Images : \E levels \in SUBSET (0 .. Shape[i].mips - 1) :
       \E layers \in SUBSET (0 .. Shape[i].layers - 1) :
         ClearColorImage(i, levels, layers, BufferBlocks + 2)
  \/ \E i \in Images : \E level \in 0 .. Shape[i].mips - 1 : ForeignWrite(i, level, 0)

ImageSpec == ImageInit /\ [][ImageNext]_imageVars

\* What comes back to the application from its images is what it put there:
\* every block a copy out of an image brings to the buffer is the one Vulkan
\* says that image holds, through uploads, copies and clears of any level and
\* layer, unless nothing ever wrote it.  The levels the driver makes up when
\* it reads them never replace one that was written.
ReadbackExact ==
  \A n \in DOMAIN readback :
    ideal.readback[n] # Undefined => readback[n] = ideal.readback[n]

=============================================================================
