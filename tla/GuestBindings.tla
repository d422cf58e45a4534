--------------------------- MODULE GuestBindings ---------------------------
(***************************************************************************)
(* What a command of the guest's driver is recorded with: the descriptor   *)
(* sets, constants, buffers and render pass bound when it was recorded.    *)
(* The driver has one pipeline slot for all bind points, copies some of    *)
(* what is bound into each command and reads the rest when the commands    *)
(* are submitted.  Beside it stands what Vulkan says is bound.             *)
(*                                                                         *)
(* Nothing bound is shared between command buffers: there is one here.     *)
(***************************************************************************)
EXTENDS Integers, Sequences, FiniteSets, Tables

CONSTANTS
  Sets,          \* descriptor sets, allocated and empty at the start
  Slots,         \* the set numbers of a pipeline layout
  Bindings,      \* bindings of a set that hold sampled images, 0 among them
  Elements,      \* array elements of a binding
  Textures,      \* images, all of the size and format of a ray trace
  Buffers,
  Words,         \* how many 32-bit words of constants a pipeline declares
  MaxRecorded,   \* bound on the dispatches, the traces and the draws
  Liberties      \* what the application does besides, of what Vulkan allows:
                 \*   "dynamic"  binds compute and ray sets at dynamic offsets
                 \*   "rebind"   changes buffers, clear colour or pass after
                 \*              a draw
                 \*   "update"   updates a set recorded draws have read
                 \*   "points"   binds the pipelines of several bind points
                 \*              before it uses the first

ASSUME BindingAssumption ==
  /\ 0 \in Slots /\ (\E last \in Nat \cap Slots : Slots \subseteq 0 .. last)
  /\ 0 \in Bindings
  /\ Words \in Nat /\ MaxRecorded \in Nat
  /\ Liberties \subseteq {"dynamic", "rebind", "update", "points"}

Unset == "none"
Points == {"compute", "rays", "graphics"}
PointOf ==
  [dispatch |-> "compute", trace |-> "rays", ui |-> "graphics", triangle |-> "graphics"]
Pipelines == DOMAIN PointOf

VARIABLES
  command,   \* CommandBufferState
  contents,  \* DescriptorSetState of each set
  alive,     \* gState.images and gState.buffers
  frame,     \* what the last vkQueueSubmit ran
  written,   \* what the application wrote into each set
  bound,     \* what Vulkan has bound in this recording
  asked      \* and the commands the recording holds

bindingVars == <<command, contents, alive, frame, written, bound, asked>>
ghosts == <<written, bound, asked>>

NoSets == [p \in Points |-> [s \in Slots |-> Unset]]
NoFrame == [result |-> Unset, dispatches |-> <<>>, traces |-> <<>>, ui |-> <<>>, triangle |-> <<>>]

\* vkBeginCommandBuffer and vkResetCommandBuffer clear every field.
Cleared ==
  [recording |-> FALSE, executable |-> FALSE, pipeline |-> Unset, sets |-> NoSets,
   constants |-> <<>>, texture |-> 0, scissor |-> Unset, vertex |-> Unset, index |-> Unset,
   pass |-> FALSE, clear |-> 0, drew |-> FALSE,
   dispatches |-> <<>>, traces |-> <<>>, draws |-> <<>>]
Unbound ==
  [pipeline |-> [p \in Points |-> Unset], sets |-> NoSets, constants |-> EmptyTable,
   texture |-> 0, scissor |-> Unset, vertex |-> Unset, index |-> Unset, clear |-> 0]
NothingAsked == [dispatches |-> <<>>, traces |-> <<>>, draws |-> <<>>, triangles |-> <<>>]

BindingInit ==
  /\ command = Cleared
  /\ contents = [d \in Sets |-> [sampled |-> EmptyTable, bindings |-> EmptyTable]]
  /\ alive = Textures \cup Buffers
  /\ frame = NoFrame
  /\ written = [d \in Sets |-> EmptyTable]
  /\ bound = Unbound
  /\ asked = NothingAsked

\* Every operation but a submit: frame is what the last step submitted.
NotRun == frame' = NoFrame
NotRead == UNCHANGED <<contents, alive, written>> /\ NotRun

----------------------------------------------------------------------------
(* The life of the recording.                                              *)

\* Mutant: a new recording finds the sets of the last one bound.
BeginKeepingSets ==
  /\ ~command.recording
  /\ command' = [Cleared EXCEPT !.recording = TRUE, !.sets = command.sets]
  /\ bound' = Unbound /\ asked' = NothingAsked
  /\ NotRead

Begin ==
  /\ ~command.recording
  /\ command' = [Cleared EXCEPT !.recording = TRUE]
  /\ bound' = Unbound /\ asked' = NothingAsked
  /\ NotRead

End ==
  /\ command.recording /\ ~command.pass
  /\ command' = [command EXCEPT !.recording = FALSE, !.executable = TRUE]
  /\ UNCHANGED <<bound, asked>>
  /\ NotRead

Reset ==
  /\ command' = Cleared
  /\ bound' = Unbound /\ asked' = NothingAsked
  /\ NotRead

----------------------------------------------------------------------------
(* Descriptors.  A write is kept under its binding and element; a sampled  *)
(* image also under its element alone, for the draws of the UI.            *)

Kinds == {"sampled", "storage", "buffer"}
Key(kind, binding, element) == <<kind, binding, element>>
Holds(kind) == IF kind = "buffer" THEN Buffers ELSE Textures

\* A recorded draw holds the image its set had: Vulkan reads the set later.
ReadByDraw(d) == \E n \in DOMAIN asked.draws : asked.draws[n].set = d

UpdateImageDescriptor(d, kind, binding, e, image) ==
  /\ kind \in {"sampled", "storage"} /\ image \in Textures \cap alive
  /\ (kind = "storage") => (binding = 0)
  /\ ReadByDraw(d) => "update" \in Liberties
  /\ contents' = [contents EXCEPT
       ![d].sampled = IF kind = "sampled" THEN Put(@, e, image) ELSE @,
       ![d].bindings = Put(@, Key(kind, binding, e), image)]
  /\ written' = [written EXCEPT ![d] = Put(@, Key(kind, binding, e), image)]
  /\ NotRun
  /\ UNCHANGED <<command, alive, bound, asked>>

UpdateBufferDescriptor(d, e, buffer) ==
  /\ buffer \in Buffers \cap alive
  /\ contents' = [contents EXCEPT ![d].bindings = Put(@, Key("buffer", 0, e), buffer)]
  /\ written' = [written EXCEPT ![d] = Put(@, Key("buffer", 0, e), buffer)]
  /\ NotRun
  /\ UNCHANGED <<command, alive, bound, asked>>

\* Images and buffers go while sets still name them; what a command being
\* recorded, or recorded, draws with stays.
DrawnWith(o) ==
  \/ o \in {bound.vertex, bound.index}
  \/ \E n \in DOMAIN command.draws : o = command.draws[n].texture
Destroy(o) ==
  /\ o \in alive /\ ~DrawnWith(o)
  /\ alive' = alive \ {o}
  /\ NotRun
  /\ UNCHANGED <<command, contents, ghosts>>

----------------------------------------------------------------------------
(* What is bound.                                                          *)

BindPipelineSlot(pipeline) ==
  LET point == PointOf[pipeline] IN
  /\ command.recording
  /\ command' = [command EXCEPT !.pipeline = pipeline]
  /\ bound' = [bound EXCEPT !.pipeline[point] = pipeline]
  /\ UNCHANGED asked
  /\ NotRead

\* Compute and ray sets bound at dynamic offsets are not bound at all.
BindDescriptorSet(point, slot, d, dynamic) ==
  /\ command.recording /\ (dynamic => "dynamic" \in Liberties)
  /\ command' = IF dynamic /\ point # "graphics" THEN command
                ELSE [command EXCEPT !.sets[point][slot] = d]
  /\ bound' = [bound EXCEPT !.sets[point][slot] = d]
  /\ UNCHANGED asked
  /\ NotRead

Grown(constants, size) ==
  [w \in 1..(IF size > Len(constants) THEN size ELSE Len(constants)) |->
     IF w <= Len(constants) THEN constants[w] ELSE 0]

\* The compute constants grow with zeros to the end of what is pushed.
PushConstant(word, value) ==
  /\ command.recording /\ word \in 1..Words
  /\ command' = [command EXCEPT !.constants = [Grown(@, word) EXCEPT ![word] = value]]
  /\ bound' = [bound EXCEPT !.constants = Put(@, word, value)]
  /\ UNCHANGED asked
  /\ NotRead

\* For the fragment stage: which texture the next draw samples.
PushTexture(e) ==
  /\ command.recording
  /\ command' = [command EXCEPT !.texture = e]
  /\ bound' = [bound EXCEPT !.texture = e]
  /\ UNCHANGED asked
  /\ NotRead

Drawn == Len(asked.draws) + Len(asked.triangles) > 0

BindVertexBuffer(buffer) ==
  /\ command.recording /\ buffer \in Buffers \cap alive
  /\ Drawn => "rebind" \in Liberties
  /\ command' = [command EXCEPT !.vertex = buffer]
  /\ bound' = [bound EXCEPT !.vertex = buffer]
  /\ UNCHANGED asked
  /\ NotRead

BindIndexBuffer(buffer) ==
  /\ command.recording /\ buffer \in Buffers \cap alive
  /\ Drawn => "rebind" \in Liberties
  /\ command' = [command EXCEPT !.index = buffer]
  /\ bound' = [bound EXCEPT !.index = buffer]
  /\ UNCHANGED asked
  /\ NotRead

SetScissor(scissor) ==
  /\ command.recording
  /\ command' = [command EXCEPT !.scissor = scissor]
  /\ bound' = [bound EXCEPT !.scissor = scissor]
  /\ UNCHANGED asked
  /\ NotRead

\* The framebuffer, the clear colour and the triangle are the command
\* buffer's: those of its last pass.
BeginRenderPass(colour) ==
  /\ command.recording /\ ~command.pass
  /\ Drawn => "rebind" \in Liberties
  /\ command' = [command EXCEPT !.pass = TRUE, !.clear = colour, !.drew = FALSE]
  /\ bound' = [bound EXCEPT !.clear = colour]
  /\ UNCHANGED asked
  /\ NotRead

EndRenderPass ==
  /\ command.recording /\ command.pass
  /\ command' = [command EXCEPT !.pass = FALSE]
  /\ UNCHANGED <<bound, asked>>
  /\ NotRead

ClearAttachments(colour) ==
  /\ command.recording /\ command.pass
  /\ Drawn => "rebind" \in Liberties
  /\ command' = [command EXCEPT !.clear = colour]
  /\ bound' = [bound EXCEPT !.clear = colour]
  /\ UNCHANGED asked
  /\ NotRead

----------------------------------------------------------------------------
(* The commands.  Vulkan runs each with the pipeline of its bind point;    *)
(* the driver has only the pipeline bound last.                            *)

InUse(point) ==
  /\ bound.pipeline[point] # Unset
  /\ command.pipeline = bound.pipeline[point] \/ "points" \in Liberties

\* Every word the pipeline declares has been pushed: vkCmdDispatch marks the
\* dispatch as one Metal can run only then.
Dispatch ==
  /\ command.recording /\ InUse("compute") /\ Len(command.dispatches) < MaxRecorded
  /\ command' = [command EXCEPT !.dispatches = Append(@,
       [pipeline |-> command.pipeline, sets |-> command.sets["compute"],
        constants |-> command.constants, eligible |-> Len(command.constants) >= Words])]
  /\ asked' = [asked EXCEPT !.dispatches = Append(@,
       [pipeline |-> bound.pipeline["compute"], sets |-> bound.sets["compute"],
        constants |-> bound.constants])]
  /\ UNCHANGED bound
  /\ NotRead

\* vkCmdTraceRaysKHR: a pipeline of another bind point records nothing.
TraceRays ==
  /\ command.recording /\ InUse("rays") /\ Len(asked.traces) < MaxRecorded
  /\ command' = IF command.pipeline # "trace" THEN command
                ELSE [command EXCEPT !.traces = Append(@,
                       [pipeline |-> command.pipeline, sets |-> command.sets["rays"]])]
  /\ asked' = [asked EXCEPT !.traces = Append(@,
       [pipeline |-> bound.pipeline["rays"], sets |-> bound.sets["rays"]])]
  /\ UNCHANGED bound
  /\ NotRead

\* The image element e of a set's table holds, Unset if it has none.
At(table, e) == IF e \in DOMAIN table THEN table[e] ELSE Unset
SampledBy(d, e) == IF d = Unset THEN Unset ELSE At(contents[d].sampled, e)

\* vkCmdDrawIndexed looks the texture up now; buffers, pass and clear colour
\* are read when the commands are submitted.  The application samples images
\* that exist.
DrawIndexed ==
  /\ command.recording /\ command.pass
  /\ bound.pipeline["graphics"] = "ui" /\ InUse("graphics")
  /\ bound.vertex # Unset /\ bound.index # Unset
  /\ Len(asked.draws) < MaxRecorded
  /\ SampledBy(bound.sets["graphics"][0], bound.texture) \in alive \cup {Unset}
  /\ command' = IF command.pipeline # "ui" THEN command
                ELSE [command EXCEPT !.draws = Append(@,
                       [texture |-> SampledBy(command.sets["graphics"][0], command.texture),
                        scissor |-> command.scissor])]
  /\ asked' = [asked EXCEPT !.draws = Append(@,
       [set |-> bound.sets["graphics"][0], element |-> bound.texture,
        scissor |-> bound.scissor, vertex |-> bound.vertex, index |-> bound.index,
        clear |-> bound.clear])]
  /\ UNCHANGED bound
  /\ NotRead

\* vkCmdDraw of the one triangle the driver knows.
Draw ==
  /\ command.recording /\ command.pass
  /\ bound.pipeline["graphics"] = "triangle" /\ InUse("graphics")
  /\ Len(asked.triangles) < MaxRecorded
  /\ command' = [command EXCEPT !.drew = @ \/ command.pipeline = "triangle"]
  /\ asked' = [asked EXCEPT !.triangles = Append(@, bound.clear)]
  /\ UNCHANGED bound
  /\ NotRead

----------------------------------------------------------------------------
(* vkQueueSubmit.                                                          *)

\* What a dispatch's sets hold, as the bindings of SUBMIT_COMPUTE.
Sent(sets) ==
  [s \in {s \in Slots : sets[s] # Unset} |-> contents[sets[s]].bindings]
Described(d) == {contents[d].bindings[key] : key \in DOMAIN contents[d].bindings}

\* bridgeComputeDispatchLocked takes every descriptor of every set, those the
\* shader does not use included.
Dispatched(dispatch) ==
  /\ dispatch.pipeline = "dispatch" /\ dispatch.eligible
  /\ \A s \in Slots : dispatch.sets[s] # Unset => Described(dispatch.sets[s]) \subseteq alive

\* executeRecordedCommandsLocked skips a dispatch Metal cannot run, one with a
\* descriptor that is gone, and goes on: "it must not poison the Vulkan queue".
Skipped == [pipeline |-> Unset, bindings |-> EmptyTable, constants |-> <<>>]
DispatchRun(dispatch) ==
  IF Dispatched(dispatch)
  THEN [pipeline |-> dispatch.pipeline, bindings |-> Sent(dispatch.sets),
        constants |-> dispatch.constants]
  ELSE Skipped

\* The storage images of a set, and the one a trace writes: of the last set
\* that has any; else the one most recently written to a descriptor, taken
\* here as any.
Stored(table) == {table[key] : key \in {k \in DOMAIN table : k[1] = "storage"}}
LiveOutputs(d) == IF d = Unset THEN {} ELSE Stored(contents[d].bindings) \cap alive
Targets(trace) ==
  LET naming == {s \in Slots : LiveOutputs(trace.sets[s]) # {}} IN
  IF naming = {} THEN Textures \cap alive
  ELSE LiveOutputs(trace.sets[CHOOSE s \in naming : \A t \in naming : t <= s])

\* targets: the image chosen for each trace.
RunOf(targets) ==
  [result |-> "success",
   dispatches |-> [n \in DOMAIN command.dispatches |-> DispatchRun(command.dispatches[n])],
   traces |-> [n \in DOMAIN command.traces |->
     [pipeline |-> command.traces[n].pipeline, target |-> targets[n]]],
   ui |-> [n \in DOMAIN command.draws |->
     [texture |-> IF command.draws[n].texture \in alive THEN command.draws[n].texture ELSE Unset,
      scissor |-> command.draws[n].scissor, vertex |-> command.vertex,
      index |-> command.index, clear |-> command.clear]],
   triangle |-> IF command.drew THEN <<command.clear>> ELSE <<>>]

Present ==
  /\ command.executable
  /\ \/ \E targets \in [DOMAIN command.traces -> Textures] :
          /\ \A n \in DOMAIN command.traces : targets[n] \in Targets(command.traces[n])
          /\ frame' = RunOf(targets)
     \/ /\ \E n \in DOMAIN command.traces : Targets(command.traces[n]) = {}
        /\ frame' = [NoFrame EXCEPT !.result = "failed"]
  /\ UNCHANGED <<command, contents, alive, ghosts>>

----------------------------------------------------------------------------
Lifetime == Begin \/ End \/ Reset

Binding(point) ==
  \/ \E pipeline \in Pipelines : PointOf[pipeline] = point /\ BindPipelineSlot(pipeline)
  \/ \E slot \in Slots, d \in Sets, dynamic \in BOOLEAN :
       BindDescriptorSet(point, slot, d, dynamic)

Updating(kind) ==
  \/ \E d \in Sets, binding \in Bindings, e \in Elements, o \in Textures :
       UpdateImageDescriptor(d, kind, binding, e, o)
  \/ \E d \in Sets, e \in Elements, o \in Buffers :
       kind = "buffer" /\ UpdateBufferDescriptor(d, e, o)

Destroying == \E o \in Textures \cup Buffers : Destroy(o)

ComputeUse == Dispatch \/ (\E word \in 1..Words : PushConstant(word, 1))
GraphicsUse ==
  \/ \E e \in Elements : PushTexture(e)
  \/ \E b \in Buffers : BindVertexBuffer(b) \/ BindIndexBuffer(b)
  \/ SetScissor("s") \/ EndRenderPass \/ DrawIndexed \/ Draw
  \/ \E colour \in {1, 2} : BeginRenderPass(colour) \/ ClearAttachments(colour)

BindingNext ==
  \/ Lifetime \/ Present \/ Destroying \/ ComputeUse \/ TraceRays \/ GraphicsUse
  \/ \E point \in Points : Binding(point)
  \/ \E kind \in Kinds : Updating(kind)

BindingSpec == BindingInit /\ [][BindingNext]_bindingVars

----------------------------------------------------------------------------
(* Properties.                                                             *)

\* What the application wrote into the sets of a dispatch, and the outputs
\* the sets of a trace name.
WrittenTo(sets) == [s \in {s \in Slots : sets[s] # Unset} |-> written[sets[s]]]
OutputsOf(sets) == UNION {Stored(written[sets[s]]) : s \in {s \in Slots : sets[s] # Unset}}

\* What may be skipped: a constant the pipeline declares was not pushed, or
\* something the application wrote into the sets is gone.
MaySkip(wanted) ==
  \/ ~(1..Words \subseteq DOMAIN wanted.constants)
  \/ \E s \in Slots : /\ wanted.sets[s] # Unset
                      /\ \E key \in DOMAIN written[wanted.sets[s]] :
                           written[wanted.sets[s]][key] \notin alive

DispatchAsAsked(ran, wanted) ==
  \/ ran = Skipped /\ MaySkip(wanted)
  \/ /\ ran.pipeline = wanted.pipeline
     /\ ran.bindings = WrittenTo(wanted.sets)
     /\ \A w \in DOMAIN wanted.constants : ran.constants[w] = wanted.constants[w]

\* With several outputs in its sets the driver takes one of them.
TraceAsAsked(ran, wanted) ==
  /\ ran.pipeline = wanted.pipeline
  /\ OutputsOf(wanted.sets) \cap alive # {} => ran.target \in OutputsOf(wanted.sets)

DrawAsAsked(ran, wanted) ==
  /\ wanted.set # Unset =>
       ran.texture = At(written[wanted.set], Key("sampled", 0, wanted.element))
  /\ wanted.set = Unset => ran.texture = Unset
  /\ ran.scissor = wanted.scissor /\ ran.vertex = wanted.vertex
  /\ ran.index = wanted.index /\ ran.clear = wanted.clear

\* A submit that succeeds runs every trace and draw of the recording it is
\* given, and every dispatch but those of unset constants or of resources that
\* are gone, each with the pipeline, sets, constants, buffers and clear colour
\* bound when it was recorded and with none an earlier recording of the command
\* buffer left.
RecordedAsBound ==
  (frame.result = "success") =>
    /\ DOMAIN frame.dispatches = DOMAIN asked.dispatches
    /\ \A n \in DOMAIN frame.dispatches :
         DispatchAsAsked(frame.dispatches[n], asked.dispatches[n])
    /\ DOMAIN frame.traces = DOMAIN asked.traces
    /\ \A n \in DOMAIN frame.traces : TraceAsAsked(frame.traces[n], asked.traces[n])
    /\ DOMAIN frame.ui = DOMAIN asked.draws
    /\ \A n \in DOMAIN frame.ui : DrawAsAsked(frame.ui[n], asked.draws[n])
    /\ (asked.triangles # <<>>) =>
         frame.triangle = <<asked.triangles[Len(asked.triangles)]>>

=============================================================================
