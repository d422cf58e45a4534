--------------------------- MODULE GuestCommands ---------------------------
(***************************************************************************)
(* Command buffers and descriptor pools of the guest's Vulkan driver.  A   *)
(* command buffer keeps one list per kind of command; the numbers it gives *)
(* its commands are all that says how the lists interleave.  vkQueueSubmit *)
(* replays the numbered lists itself, then decides from the ray traces     *)
(* what becomes of the rest.  What a replayed command does to memory is    *)
(* GuestMemory's subject, what a submit signals GuestQueue's.              *)
(***************************************************************************)
EXTENDS Integers, FiniteSets, SequencesExt, Tables

CONSTANTS
  CommandPools,
  CommandBuffers,
  Transfers,       \* the lists of transfer commands
  RayCommands,     \* kinds of ray commands the application records:
                   \*   "scene"  the known scene ray generation shader
                   \*   "null"   a known initialization trace, no structure
                   \*   "other"  any other KHR trace, its shader resolved
                   \*   "unresolved"  a KHR trace whose shader is not found
                   \*   "probe"  the ray probe the driver can run as it is
                   \*   "nv"     NV builds, copies and traces
                   \*   "copy"   a KHR copy of a structure
  MaxCommands,     \* bound on the numbered commands of a command buffer
  MaxRays,         \* bound on its ray commands
  MaxDraws,        \* bound on its UI draws
  MaxSubmit,       \* bound on the command buffers of a submit
  AllocationFails, \* the outcomes of the allocations recording makes
  DescriptorPools,
  DescriptorSets,
  MaxSets          \* maxSets of every descriptor pool

ASSUME CommandAssumption ==
  /\ RayCommands \subseteq {"scene", "null", "other", "unresolved", "probe", "nv", "copy"}
  /\ Transfers \cap {"build", "dispatch"} = {}
  /\ MaxCommands \in Nat /\ MaxRays \in Nat /\ MaxDraws \in Nat
  /\ MaxSubmit \in Nat \ {0} /\ MaxSets \in Nat \ {0}
  /\ AllocationFails \subseteq BOOLEAN
  /\ IsFiniteSet(DescriptorSets)

VARIABLES
  commandPools,    \* gState.commandPools
  commandBuffers,  \* gState.commandBuffers
  ran,             \* the commands the last vkQueueSubmit replayed
  verdict,         \* its outcome, with the ray traces it ran on Metal
  descriptorPools, \* gState.descriptorPools: allocatedSets of each
  descriptorSets   \* gState.descriptorSets: the pool of each

recordingVars == <<commandPools, commandBuffers>>
submitVars == <<ran, verdict>>
descriptorVars == <<descriptorPools, descriptorSets>>
commandVars == <<commandPools, commandBuffers, ran, verdict, descriptorPools, descriptorSets>>

Lists == Transfers \cup {"build", "dispatch"}
NoLists == [k \in Lists |-> <<>>]
\* The ray commands of a submit that ran are the numbers of "traced".
Verdict(result, asked, traced, presented) ==
  [result |-> result, asked |-> asked, traced |-> traced, presented |-> presented]
NoVerdict == Verdict("none", <<>>, {}, 0)

CommandInit ==
  /\ commandPools = {}
  /\ commandBuffers = EmptyTable
  /\ ran = <<>>
  /\ verdict = NoVerdict
  /\ descriptorPools = EmptyTable
  /\ descriptorSets = EmptyTable

\* What every operation but vkQueueSubmit leaves of the last submit.
NotSubmitted == ran' = <<>> /\ verdict' = NoVerdict

----------------------------------------------------------------------------
(* Pools and the life of a command buffer.                                 *)

CreateCommandPool(p) ==
  /\ p \in CommandPools \ commandPools
  /\ commandPools' = commandPools \cup {p}
  /\ NotSubmitted
  /\ UNCHANGED commandBuffers
  /\ UNCHANGED descriptorVars

OfPool(p) == {c \in DOMAIN commandBuffers : commandBuffers[c].pool = p}

DestroyCommandPool(p) ==
  /\ p \in commandPools
  /\ commandPools' = commandPools \ {p}
  /\ commandBuffers' = [c \in DOMAIN commandBuffers \ OfPool(p) |-> commandBuffers[c]]
  /\ NotSubmitted
  /\ UNCHANGED descriptorVars

\* vkResetCommandPool forgets all but the UI draws.
ResetCommandPool(p) ==
  /\ p \in commandPools
  /\ commandBuffers' = [c \in DOMAIN commandBuffers |->
       IF c \notin OfPool(p) THEN commandBuffers[c]
       ELSE [commandBuffers[c] EXCEPT !.recording = FALSE, !.executable = FALSE,
               !.pipeline = "none", !.next = 1, !.lists = NoLists, !.rays = <<>>]]
  /\ NotSubmitted
  /\ UNCHANGED commandPools
  /\ UNCHANGED descriptorVars

Fresh(pool) ==
  [pool |-> pool, recording |-> FALSE, executable |-> FALSE, pipeline |-> "none",
   next |-> 1, lists |-> NoLists, rays |-> <<>>, draws |-> 0]

AllocateCommandBuffer(p, c) ==
  /\ p \in commandPools /\ c \in CommandBuffers \ DOMAIN commandBuffers
  /\ commandBuffers' = Put(commandBuffers, c, Fresh(p))
  /\ NotSubmitted
  /\ UNCHANGED commandPools
  /\ UNCHANGED descriptorVars

FreeCommandBuffer(c) ==
  /\ c \in DOMAIN commandBuffers
  /\ commandBuffers' = Drop(commandBuffers, c)
  /\ NotSubmitted
  /\ UNCHANGED commandPools
  /\ UNCHANGED descriptorVars

\* Any change of one command buffer.
Becomes(c, record) ==
  /\ commandBuffers' = [commandBuffers EXCEPT ![c] = record]
  /\ NotSubmitted
  /\ UNCHANGED commandPools
  /\ UNCHANGED descriptorVars

BeginCommandBuffer(c) ==
  /\ c \in DOMAIN commandBuffers /\ ~commandBuffers[c].recording
  /\ Becomes(c, [Fresh(commandBuffers[c].pool) EXCEPT !.recording = TRUE])

EndCommandBuffer(c) ==
  /\ c \in DOMAIN commandBuffers /\ commandBuffers[c].recording
  /\ Becomes(c, [commandBuffers[c] EXCEPT !.recording = FALSE, !.executable = TRUE])

ResetCommandBuffer(c) ==
  /\ c \in DOMAIN commandBuffers
  /\ Becomes(c, Fresh(commandBuffers[c].pool))

----------------------------------------------------------------------------
(* Recording.  Commands whose arguments the driver refuses are not here:   *)
(* it drops them without a word.                                           *)

Recording(c) == c \in DOMAIN commandBuffers /\ commandBuffers[c].recording
Room(c) == commandBuffers[c].next <= MaxCommands

\* One slot serves all bind points.
BindPipeline(c, kind) ==
  /\ Recording(c) /\ commandBuffers[c].pipeline # kind
  /\ Becomes(c, [commandBuffers[c] EXCEPT !.pipeline = kind])

\* The next number is taken before the list grows; when that fails the
\* earlier commands of the list go too.
Numbered(record, k, fails) ==
  [record EXCEPT !.next = @ + 1,
                 !.lists[k] = IF fails THEN <<>> ELSE Append(@, record.next)]

\* vkCmdCopyBuffer, vkCmdUpdateBuffer, vkCmdFillBuffer and the image commands
RecordTransfer(c, k, fails) ==
  /\ Recording(c) /\ Room(c) /\ k \in Transfers
  /\ Becomes(c, Numbered(commandBuffers[c], k, fails))

\* vkCmdBuildAccelerationStructuresKHR keeps its list when it fails.
RecordBuild(c, fails) ==
  /\ Recording(c) /\ Room(c)
  /\ Becomes(c, IF fails THEN [commandBuffers[c] EXCEPT !.next = @ + 1]
                         ELSE Numbered(commandBuffers[c], "build", FALSE))

\* vkCmdDispatch; the application has bound its compute pipeline last.
RecordDispatch(c) ==
  /\ Recording(c) /\ Room(c) /\ commandBuffers[c].pipeline = "compute"
  /\ Becomes(c, Numbered(commandBuffers[c], "dispatch", FALSE))

\* Ray commands have a list of their own; only the KHR copy takes a number.
RecordRays(c, kind) ==
  /\ Recording(c) /\ kind \in RayCommands
  /\ Len(commandBuffers[c].rays) < MaxRays
  /\ kind \in {"nv", "copy"} \/ commandBuffers[c].pipeline = "rays"
  /\ kind = "copy" => Room(c)
  /\ Becomes(c, [commandBuffers[c] EXCEPT !.rays = Append(@, kind),
                                          !.next = IF kind = "copy" THEN @ + 1 ELSE @])

\* vkCmdDrawIndexed of the Kit UI
RecordDraw(c) ==
  /\ Recording(c) /\ commandBuffers[c].pipeline = "graphics"
  /\ commandBuffers[c].draws < MaxDraws
  /\ Becomes(c, [commandBuffers[c] EXCEPT !.draws = @ + 1])

----------------------------------------------------------------------------
(* executeRecordedCommandsLocked.                                          *)

Unreplayed(record, index) == {k \in Lists : index[k] <= Len(record.lists[k])}

\* Mutant: the lists are replayed one after the other.
FirstList(record, index) == CHOOSE k \in Unreplayed(record, index) : TRUE

\* The list whose next command has the smallest number.
NextList(record, index) ==
  CHOOSE k \in Unreplayed(record, index) : \A j \in Unreplayed(record, index) :
    record.lists[k][index[k]] <= record.lists[j][index[j]]

\* One turn of the loop: the next command of list k.
Replayed(state, k) ==
  [index |-> [state.index EXCEPT ![k] = @ + 1], order |-> Append(state.order, k)]

\* The loop ends when no list has a command left; there are fewer than "next".
ReplayOrder(record) ==
  LET after[n \in 0 .. record.next - 1] ==
        IF n = 0 THEN [index |-> [k \in Lists |-> 1], order |-> <<>>]
        ELSE IF Unreplayed(record, after[n - 1].index) = {} THEN after[n - 1]
        ELSE Replayed(after[n - 1], NextList(record, after[n - 1].index))
  IN  after[record.next - 1].order

----------------------------------------------------------------------------
(* vkQueueSubmit.                                                          *)

\* Mutant: a submit is put off whatever comes with its scene traces.
PutOffAnyway(kinds, manifest) == "scene" \in kinds /\ ~manifest

\* Until the stage extension has published its meshes, a submit of KHR traces
\* alone, all of them resolved, is put off.
PutOff(kinds, manifest) ==
  "scene" \in kinds /\ ~manifest /\ kinds \cap {"nv", "copy", "unresolved"} = {}

SceneOnly(rays) == {i \in DOMAIN rays : rays[i] = "scene"}

\* What becomes of a submit's ray commands.  "manifest": the stage extension
\* has published its meshes; "fallback": the scene structure built of them.
\* A submit that is put off, or is taken for the initialization of a scene
\* without structures, clears its images, traces nothing, and is acknowledged
\* like any other: its fence signals.  Scene traces that can run are all that
\* runs: what comes with them is dropped, the UI's draws too.
Classified(rays, manifest, fallback, presented) ==
  LET kinds  == {rays[i] : i \in DOMAIN rays}
      probes == {i \in DOMAIN rays : rays[i] = "probe"}
      others == \/ kinds \cap {"nv", "copy", "other", "unresolved"} # {}
                \/ Cardinality(probes) > 1
      built  == "scene" \in kinds /\ manifest /\ fallback = "built"
      initial == ~others /\ "null" \in kinds
  IN  IF "scene" \in kinds /\ manifest /\ fallback = "fails"
      THEN Verdict("failed", rays, {}, 0)
      ELSE IF built THEN Verdict("acknowledged", rays, SceneOnly(rays), 0)
      ELSE IF PutOff(kinds, manifest) \/ initial THEN Verdict("acknowledged", rays, {}, 0)
      ELSE IF others \/ "scene" \in kinds THEN Verdict("unsupported", rays, {}, 0)
      ELSE IF probes # {} THEN Verdict("acknowledged", rays, probes, 0)
      ELSE Verdict("acknowledged", rays, {}, presented)

\* The UI command list with the most draws, the first of several.
Presented(cs) ==
  LET draws(i) == IF commandBuffers[cs[i]].pipeline = "graphics"
                  THEN commandBuffers[cs[i]].draws ELSE 0
  IN  CHOOSE d \in {draws(i) : i \in DOMAIN cs} : \A i \in DOMAIN cs : draws(i) <= d

\* The first commands of all, but for the skipped.
Replay(all, stop, skipped) ==
  LET after[i \in 0 .. stop] ==
        IF i = 0 THEN <<>>
        ELSE IF i \in skipped THEN after[i - 1] ELSE Append(after[i - 1], all[i])
  IN  after[stop]

\* The replay stops at the first command that fails, after "stop" of them;
\* dispatches and builds it cannot translate are "skipped".  Once all have
\* run, the images they wrote may still fail to synchronize.
QueueSubmit(cs) ==
  LET all  == FlattenSeq([i \in DOMAIN cs |-> ReplayOrder(commandBuffers[cs[i]])])
      rays == FlattenSeq([i \in DOMAIN cs |-> commandBuffers[cs[i]].rays])
  IN  \E stop \in 0 .. Len(all) :
        /\ \E skipped \in SUBSET {i \in 1 .. stop : all[i] \in {"build", "dispatch"}} :
             ran' = Replay(all, stop, skipped)
        /\ \/ verdict' = Verdict("failed", rays, {}, 0)
           \/ /\ stop = Len(all)
              /\ \E manifest \in BOOLEAN, fallback \in {"built", "absent", "fails"} :
                   verdict' = Classified(rays, manifest, fallback, Presented(cs))
        /\ UNCHANGED recordingVars
        /\ UNCHANGED descriptorVars

----------------------------------------------------------------------------
(* Descriptor pools.                                                       *)

DescriptorsChange == NotSubmitted /\ UNCHANGED recordingVars

CreateDescriptorPool(p) ==
  /\ p \in DescriptorPools \ DOMAIN descriptorPools
  /\ descriptorPools' = Put(descriptorPools, p, 0)
  /\ UNCHANGED descriptorSets
  /\ DescriptorsChange

\* The sets of pool p
SetsOf(p) == {d \in DOMAIN descriptorSets : descriptorSets[d] = p}
Without(gone) == [d \in DOMAIN descriptorSets \ gone |-> descriptorSets[d]]

DestroyDescriptorPool(p) ==
  /\ p \in DOMAIN descriptorPools
  /\ descriptorPools' = Drop(descriptorPools, p)
  /\ descriptorSets' = Without(SetsOf(p))
  /\ DescriptorsChange

\* Mutant: resetting a pool forgets to give its places back.
ResetKeepingCount(p) ==
  /\ p \in DOMAIN descriptorPools
  /\ UNCHANGED descriptorPools
  /\ descriptorSets' = Without(SetsOf(p))
  /\ DescriptorsChange

ResetDescriptorPool(p) ==
  /\ p \in DOMAIN descriptorPools
  /\ descriptorPools' = [descriptorPools EXCEPT ![p] = 0]
  /\ descriptorSets' = Without(SetsOf(p))
  /\ DescriptorsChange

\* vkAllocateDescriptorSets of "wanted" sets; when the memory runs out the
\* sets before, "made", stay.
AllocateDescriptorSets(p, wanted, made) ==
  /\ p \in DOMAIN descriptorPools /\ wanted # {}
  /\ wanted \cap DOMAIN descriptorSets = {}
  /\ Cardinality(wanted) <= MaxSets - descriptorPools[p]
  /\ made \subseteq wanted
  /\ descriptorSets' = [d \in DOMAIN descriptorSets \cup made |->
       IF d \in made THEN p ELSE descriptorSets[d]]
  /\ descriptorPools' = [descriptorPools EXCEPT ![p] = @ + Cardinality(made)]
  /\ DescriptorsChange

FreeDescriptorSets(p, gone) ==
  /\ p \in DOMAIN descriptorPools /\ gone # {} /\ gone \subseteq SetsOf(p)
  /\ descriptorSets' = Without(gone)
  /\ descriptorPools' = [descriptorPools EXCEPT ![p] = @ - Cardinality(gone)]
  /\ DescriptorsChange

----------------------------------------------------------------------------

Recorders ==
  \/ \E p \in CommandPools :
       \/ CreateCommandPool(p) \/ DestroyCommandPool(p) \/ ResetCommandPool(p)
       \/ \E c \in CommandBuffers : AllocateCommandBuffer(p, c)
  \/ \E c \in CommandBuffers :
       \/ FreeCommandBuffer(c) \/ ResetCommandBuffer(c)
       \/ BeginCommandBuffer(c) \/ EndCommandBuffer(c)
       \/ \E kind \in {"compute", "rays", "graphics"} : BindPipeline(c, kind)
       \/ \E k \in Transfers, fails \in AllocationFails : RecordTransfer(c, k, fails)
       \/ \E fails \in AllocationFails : RecordBuild(c, fails)
       \/ RecordDispatch(c)
       \/ \E kind \in RayCommands : RecordRays(c, kind)
       \/ RecordDraw(c)

Submits ==
  \E n \in 1 .. MaxSubmit :
    \E cs \in [1 .. n -> {c \in DOMAIN commandBuffers : commandBuffers[c].executable}] :
      QueueSubmit(cs)

Descriptors ==
  \E p \in DescriptorPools :
    \/ CreateDescriptorPool(p) \/ DestroyDescriptorPool(p) \/ ResetDescriptorPool(p)
    \/ \E wanted, made \in SUBSET DescriptorSets : AllocateDescriptorSets(p, wanted, made)
    \/ \E gone \in SUBSET DescriptorSets : FreeDescriptorSets(p, gone)

CommandNext == Recorders \/ Submits \/ Descriptors

----------------------------------------------------------------------------

CommandBufferStates ==
  [pool : commandPools, recording : BOOLEAN, executable : BOOLEAN,
   pipeline : {"none", "compute", "rays", "graphics"}, next : 1 .. MaxCommands + 1,
   lists : [Lists -> Seq(1 .. MaxCommands)], rays : Seq(RayCommands), draws : 0 .. MaxDraws]

\* Command buffers and descriptor sets belong to pools that exist.
CommandTypeOK ==
  /\ commandPools \subseteq CommandPools
  /\ IsTable(commandBuffers, CommandBuffers, CommandBufferStates)
  /\ \A c \in DOMAIN commandBuffers :
       ~(commandBuffers[c].recording /\ commandBuffers[c].executable)
  /\ ran \in Seq(Lists)
  /\ IsTable(descriptorPools, DescriptorPools, 0 .. MaxSets)
  /\ IsTable(descriptorSets, DescriptorSets, DOMAIN descriptorPools)

\* A descriptor pool's counter is the number of its sets, whatever was
\* freed one by one, by a reset or not at all: no place is lost or doubled.
PoolsCountSets ==
  \A p \in DOMAIN descriptorPools : descriptorPools[p] = Cardinality(SetsOf(p))

\* A submit that vkQueueSubmit acknowledges has traced all of its scenes, or
\* every ray command it holds, or none at all; and none only when it is a
\* scene's traces or initialization, with no NV command, no copy and no trace
\* of a shader that is not known: "Defer only a pure KHR-trace submit with
\* resolved shader records".
AcknowledgedRaysRan ==
  LET Of(kinds) == {i \in DOMAIN verdict.asked : verdict.asked[i] \in kinds}
  IN  verdict.result = "acknowledged" =>
        \/ verdict.traced = Of({"scene"}) /\ verdict.traced # {}
        \/ verdict.traced = DOMAIN verdict.asked
        \/ /\ verdict.traced = {} /\ Of({"scene", "null"}) # {}
           /\ Of({"nv", "copy", "unresolved"}) = {}

\* "NV ray-tracing commands are deliberately never acknowledged as complete
\* until they have a real Metal acceleration-structure / shader backend."
NVNeverAcknowledged ==
  verdict.result = "acknowledged" => \A i \in DOMAIN verdict.asked : verdict.asked[i] # "nv"

\* The lists of a record with a command of number n; its commands by number.
ListsAt(record, n) == {k \in Lists : \E i \in DOMAIN record.lists[k] : record.lists[k][i] = n}
InOrder(record) ==
  LET upto[n \in 0 .. record.next - 1] ==
        IF n = 0 THEN <<>>
        ELSE IF ListsAt(record, n) = {} THEN upto[n - 1]
        ELSE Append(upto[n - 1], CHOOSE k \in ListsAt(record, n) : TRUE)
  IN  upto[record.next - 1]
LogOf(record) ==
  IF record.recording \/ record.executable
  THEN [state |-> IF record.recording THEN "recording" ELSE "executable",
        commands |-> InOrder(record), draws |-> record.draws]
  ELSE [state |-> "initial", commands |-> <<>>, draws |-> 0]
Logs == [c \in DOMAIN commandBuffers |-> LogOf(commandBuffers[c])]
Done == [ran |-> ran, presented |-> verdict.presented]
Log == INSTANCE CommandLog WITH
  Commands <- Lists, Optional <- {"build", "dispatch"}, log <- Logs, done <- Done

\* However the kinds of commands are interleaved, reset and recorded again,
\* a submit replays each command buffer in its recorded order, presents the
\* draws of one recording, and a failure leaves a beginning of it done.
ReplayIsLog == Log!Spec

CommandSpec == CommandInit /\ [][CommandNext]_commandVars

=============================================================================
