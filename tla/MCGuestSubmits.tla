--------------------------- MODULE MCGuestSubmits ---------------------------
(***************************************************************************)
(* An instance for TLC of what a submit of the guest deals with: its       *)
(* semaphores, its fence, the commands it replays, what is bound to them   *)
(* per bind point, and the images they copy.  A submit treats each apart   *)
(* from the others, so each behaviour is of one of them, "turn".           *)
(***************************************************************************)
EXTENDS GuestQueue, GuestCommands, GuestBindings, GuestImages

\* Two images of single texels, one of them deep, and one of blocks of 2 x 2.
MCShape ==
  LET Texels(block, extent, layers) ==
        [block |-> block, extent |-> extent, mips |-> 2, layers |-> layers, sparse |-> FALSE]
  IN [flat |-> Texels(<<1, 1, 1>>, <<3, 2, 1>>, 2),
      deep |-> Texels(<<1, 1, 1>>, <<2, 1, 2>>, 1),
      packed |-> Texels(<<2, 2, 1>>, <<3, 2, 1>>, 1)]

\* Whole levels, corners at the rims of a level, several layers, small levels.
MCRegions ==
  LET Region(level, layer, layers, offset, extent) ==
        [level |-> level, layer |-> layer, layers |-> layers,
         offset |-> offset, extent |-> extent]
  IN {Region(0, 0, 2, <<0, 0, 0>>, <<3, 2, 1>>), Region(0, 1, 1, <<1, 0, 0>>, <<2, 1, 1>>),
      Region(0, 1, 1, <<2, 0, 0>>, <<1, 2, 1>>), Region(0, 0, 1, <<0, 0, 0>>, <<2, 1, 2>>),
      Region(1, 1, 1, <<0, 0, 0>>, <<1, 1, 1>>), Region(1, 0, 1, <<0, 0, 0>>, <<1, 1, 1>>)}

\* Rows and slices as large as the region, and larger.
MCLayouts ==
  {[from |-> 0, rowLength |-> 0, imageHeight |-> 0],
   [from |-> 1, rowLength |-> 4, imageHeight |-> 2]}

VARIABLE turn

\* What a turn leaves out, because what it looks at does not depend on it: ray
\* commands take no place in the order of the others; the UI's draws read set 0
\* alone, and share with the triangle's only the pass and its colour, which no
\* texture changes; after the last transfer nobody reads an image.
WithoutRays == \A c \in DOMAIN commandBuffers' : commandBuffers'[c].rays = <<>>
OnlyRays == \A c \in DOMAIN commandBuffers' : commandBuffers'[c].lists = NoLists
OnlyUI == asked'.triangles = <<>> /\ (\A s \in Slots \ {0} : bound'.sets["graphics"][s] = Unset)
WithTriangles == bound'.sets = NoSets /\ bound'.texture = 0 /\ UNCHANGED contents
EndingInReadback ==
  \/ transfers + 1 < MaxTransfers /\ ImageNext
  \/ \E i \in Images, r \in Regions, layout \in Layouts : CopyImageToBuffer(i, r, layout)

SubmitInit ==
  /\ turn \in {"semaphores", "fences", "commands", "ray commands", "descriptors", "compute", "rays",
              "ui", "triangles", "images"}
  /\ QueueInit /\ CommandInit /\ BindingInit /\ ImageInit

SubmitNext ==
  /\ UNCHANGED turn
  /\ \/ /\ \/ turn = "semaphores" /\ (Semaphore \/ Submit)
           \/ turn = "fences" /\ (Fence \/ WaitFence \/ Submit)
        /\ UNCHANGED <<commandVars, bindingVars, imageVars>>
     \/ /\ \/ turn = "commands" /\ (Recorders \/ Submits) /\ WithoutRays
           \/ turn = "ray commands" /\ (Recorders \/ Submits) /\ OnlyRays
           \/ turn = "descriptors" /\ Descriptors
        /\ UNCHANGED <<queueVars, bindingVars, imageVars>>
     \/ /\ \/ turn = "compute" /\ (Binding("compute") \/ Updating("buffer") \/ ComputeUse)
           \/ turn = "rays" /\ (Binding("rays") \/ Updating("storage") \/ TraceRays)
           \/ turn \in {"ui", "triangles"}
                /\ (Binding("graphics") \/ Updating("sampled") \/ GraphicsUse)
           \/ turn \in {"compute", "rays", "ui", "triangles"}
                /\ (Lifetime \/ Destroying \/ Present)
        /\ (turn = "ui" => OnlyUI) /\ (turn = "triangles" => WithTriangles)
        /\ UNCHANGED <<queueVars, commandVars, imageVars>>
     \/ /\ turn = "images" /\ EndingInReadback
        /\ UNCHANGED <<queueVars, commandVars, bindingVars>>

GuestSubmitSpec ==
  /\ SubmitInit /\ QueueFairness
  /\ [][SubmitNext]_<<turn, queueVars, commandVars, bindingVars, imageVars>>

=============================================================================
