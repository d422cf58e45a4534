----------------------------- MODULE GuestQueue -----------------------------
(***************************************************************************)
(* Fences and semaphores of the guest's Vulkan driver, and the files in    *)
(* which it shares semaphores with CUDA.  A submit has executed everything *)
(* when vkQueueSubmit returns, except the fixed ADD_U32 and triangle,      *)
(* whose fence stays in flight until a wait asks the host.  What commands  *)
(* do to memory is GuestMemory's subject; this module is about who is told *)
(* that they are done.  Every operation holds gState.mutex throughout.     *)
(***************************************************************************)
EXTENDS Integers, FiniteSets, Sequences, Tables

CONSTANTS
  Semaphores,   \* VkSemaphore handles
  Timelines,    \* those created with VK_SEMAPHORE_TYPE_TIMELINE
  Files,        \* the files that hold exported payloads
  MaxValue,     \* bound on timeline values
  VkFences,     \* VkFence handles
  MaxHostFence, \* bound on the fence IDs the host hands out
  Interop       \* what applications do with shared semaphores beyond the
                \* paths that keep the file current:
                \*   "reexport"  call vkGetSemaphoreFdKHR twice
                \*   "import"    import a timeline that is behind
                \*   "submit"    use them in submits that touch no file

None == "none"

ASSUME QueueAssumption ==
  /\ Timelines \subseteq Semaphores
  /\ MaxValue \in Nat \ {0}
  /\ MaxHostFence \in Nat
  /\ Files \cap Semaphores = {}
  /\ None \notin Files \cup Semaphores \cup VkFences
  /\ Interop \subseteq {"reexport", "import", "submit"}

VARIABLES
  semaphores,  \* SemaphoreState of every semaphore created
  files,       \* the first eight bytes of every file
  cuda,        \* the files CUDA holds a descriptor of
  vkFences,    \* FenceState of every fence created
  hostFences,  \* the host's unretired fences: "running" or "done"
  nextHost,    \* the next ID the host hands out
  connected    \* no request of the bridge has failed

semaphoreVars == <<semaphores, files, cuda>>
fenceVars == <<vkFences, hostFences, nextHost, connected>>
queueVars == <<semaphores, files, cuda, vkFences, hostFences, nextHost, connected>>

Larger(a, b) == IF a >= b THEN a ELSE b

QueueInit ==
  /\ semaphores = EmptyTable
  /\ files = EmptyTable
  /\ cuda = {}
  /\ vkFences = EmptyTable
  /\ hostFences = EmptyTable
  /\ nextHost = 1
  /\ connected = TRUE

----------------------------------------------------------------------------
(* Semaphores.  The state of one is a pair of its record and its file.     *)

Shared(s) == semaphores[s].file # None

\* What the driver's record alone says.
Recorded(s) ==
  IF s \in Timelines THEN semaphores[s].value
  ELSE IF semaphores[s].signaled THEN 1 ELSE 0

\* What is true of the semaphore: for a shared one, what its file says.
Payload(s) == IF Shared(s) THEN files[semaphores[s].file] ELSE Recorded(s)

\* Mutant: the driver trusts its own record.
NotRefreshed(s, record) == record

\* refreshSemaphoreFromExternalFDLocked
Refreshed(s, record) ==
  IF record.file = None THEN record
  ELSE IF s \in Timelines
  THEN LET value == Larger(record.value, files[record.file])
       IN  [record EXCEPT !.value = value, !.signaled = value # 0]
  ELSE [record EXCEPT !.signaled = files[record.file] # 0]

\* syncSemaphoreToExternalFDLocked
SyncedFiles(s, record) ==
  IF record.file = None THEN files
  ELSE [files EXCEPT ![record.file] =
         IF s \in Timelines THEN record.value ELSE IF record.signaled THEN 1 ELSE 0]

CreateSemaphore(s, initial) ==
  /\ s \notin DOMAIN semaphores
  /\ initial = 0 \/ s \in Timelines
  /\ semaphores' = Put(semaphores, s,
       [signaled |-> initial # 0, value |-> initial, file |-> None])
  /\ UNCHANGED <<files, cuda>>
  /\ UNCHANGED fenceVars

DestroySemaphore(s) ==
  /\ s \in DOMAIN semaphores
  /\ semaphores' = Drop(semaphores, s)
  /\ UNCHANGED <<files, cuda>>
  /\ UNCHANGED fenceVars

\* vkGetSemaphoreFdKHR, whose descriptor goes to cuImportExternalSemaphore
GetSemaphoreFd(s, f) ==
  /\ s \in DOMAIN semaphores
  /\ IF Shared(s) THEN f = semaphores[s].file /\ "reexport" \in Interop
                  ELSE f \in Files \ DOMAIN files
  /\ LET record == [semaphores[s] EXCEPT !.file = f]
     IN  /\ semaphores' = [semaphores EXCEPT ![s] = record]
         /\ files' = IF Shared(s) THEN SyncedFiles(s, record) ELSE Put(files, f, Recorded(s))
  /\ cuda' = cuda \cup {f}
  /\ UNCHANGED fenceVars

\* The descriptor of f comes from a semaphore of the same kind.
SameKind(s, f) ==
  \E t \in DOMAIN semaphores : semaphores[t].file = f /\ (s \in Timelines <=> t \in Timelines)

\* vkImportSemaphoreFdKHR
ImportSemaphoreFd(s, f) ==
  /\ s \in DOMAIN semaphores /\ f \in DOMAIN files /\ SameKind(s, f)
  /\ "import" \in Interop \/ (s \in Timelines => Recorded(s) <= files[f])
  /\ semaphores' = [semaphores EXCEPT ![s] = Refreshed(s, [semaphores[s] EXCEPT !.file = f])]
  /\ UNCHANGED <<files, cuda>>
  /\ UNCHANGED fenceVars

\* vkGetSemaphoreCounterValue and vkWaitSemaphores, which never blocks, read
\* the file before they answer.
RefreshSemaphore(s) ==
  /\ s \in DOMAIN semaphores /\ Shared(s)
  /\ semaphores' = [semaphores EXCEPT ![s] = Refreshed(s, semaphores[s])]
  /\ UNCHANGED <<files, cuda>>
  /\ UNCHANGED fenceVars

\* vkSignalSemaphore; Vulkan wants a timeline and a value above its own.
SignalSemaphore(s, v) ==
  /\ s \in DOMAIN semaphores \cap Timelines
  /\ v > Payload(s)
  /\ LET record == [semaphores[s] EXCEPT !.value = Larger(@, v), !.signaled = TRUE]
     IN  /\ semaphores' = [semaphores EXCEPT ![s] = record]
         /\ files' = SyncedFiles(s, record)
  /\ UNCHANGED cuda
  /\ UNCHANGED fenceVars

\* cuSignalExternalSemaphoresAsync
CudaSignal(f, v) ==
  /\ f \in cuda
  /\ \E s \in DOMAIN semaphores :
       semaphores[s].file = f /\ IF s \in Timelines THEN v > files[f] ELSE v = 1
  /\ files' = [files EXCEPT ![f] = v]
  /\ UNCHANGED <<semaphores, cuda>>
  /\ UNCHANGED fenceVars

\* cuDestroyExternalSemaphore
CudaClose(f) ==
  /\ f \in cuda
  /\ cuda' = cuda \ {f}
  /\ UNCHANGED <<semaphores, files>>
  /\ UNCHANGED fenceVars

\* The last descriptor of an unlinked file is closed.
FileGone(f) ==
  /\ f \in DOMAIN files \ cuda
  /\ \A s \in DOMAIN semaphores : semaphores[s].file # f
  /\ files' = Drop(files, f)
  /\ UNCHANGED <<semaphores, cuda>>
  /\ UNCHANGED fenceVars

----------------------------------------------------------------------------
(* The submits that have finished when vkQueueSubmit returns.              *)

\* The application waits on a binary semaphore that is signaled, and on a
\* timeline that has got there: no submit looks.
Waitable(w) ==
  w # None => w \in DOMAIN semaphores /\ (w \notin Timelines => Payload(w) = 1)

Signalable(g, v) ==
  g # None => g \in DOMAIN semaphores /\ (g \in Timelines => v > Payload(g))

PathFollowsFiles(w, g) ==
  "submit" \in Interop \/ \A s \in {w, g} \ {None} : ~Shared(s)

\* What a wait leaves of a semaphore's record.
WaitedRecord(s, record) == IF s \in Timelines THEN record ELSE [record EXCEPT !.signaled = FALSE]

Free(f) == f # None => f \in DOMAIN vkFences /\ ~vkFences[f].submitted /\ ~vkFences[f].signaled

SignalFence(f) ==
  vkFences' = IF f = None THEN vkFences
              ELSE [vkFences EXCEPT ![f] = [vkFences[f] EXCEPT !.signaled = TRUE]]

\* completeQueueSubmitSynchronizationLocked: after a scene trace, and for a
\* UI frame that is not presented.
SubmitExact(w, g, v, f) ==
  /\ connected /\ Waitable(w) /\ Signalable(g, v) /\ Free(f)
  /\ LET waited == IF w = None THEN semaphores
                   ELSE [semaphores EXCEPT ![w] = WaitedRecord(w, Refreshed(w, semaphores[w]))]
         after  == IF w = None THEN files ELSE SyncedFiles(w, waited[w])
         record == [waited[g] EXCEPT !.value = IF g \in Timelines THEN Larger(@, v) ELSE @,
                                     !.signaled = TRUE]
     IN  IF g = None
         THEN semaphores' = waited /\ files' = after
         ELSE /\ semaphores' = [waited EXCEPT ![g] = record]
              /\ files' = IF record.file = None THEN after
                          ELSE [after EXCEPT ![record.file] = SyncedFiles(g, record)[record.file]]
  /\ SignalFence(f)
  /\ UNCHANGED <<cuda, hostFences, nextHost, connected>>

\* The records after a wait that looks at no file.
WaitedInMemory(w) ==
  IF w = None THEN semaphores
  ELSE [semaphores EXCEPT ![w] = WaitedRecord(w, semaphores[w])]

\* What the other paths do, file or no file.
SubmitInMemory(w, g, f, value) ==
  /\ Waitable(w) /\ Free(f) /\ PathFollowsFiles(w, g)
  /\ LET waited == WaitedInMemory(w)
         record == [waited[g] EXCEPT !.value = IF g \in Timelines THEN value ELSE @,
                                     !.signaled = TRUE]
     IN  semaphores' = IF g = None THEN waited ELSE [waited EXCEPT ![g] = record]
  /\ SignalFence(f)
  /\ UNCHANGED <<files, cuda, hostFences, nextHost, connected>>

\* A submit without Metal work reaches the value the application asks for.
SubmitPlain(w, g, v, f) ==
  /\ Signalable(g, v)
  /\ SubmitInMemory(w, g, f, IF g = None THEN 0 ELSE Larger(semaphores[g].value, v))

\* A deferred scene trace and a presented UI frame may contain work the
\* driver skips: they advance a timeline by one step only.
SubmitConservative(w, g, v, f) ==
  /\ connected /\ Signalable(g, v)
  /\ SubmitInMemory(w, g, f, IF g = None THEN 0 ELSE semaphores[g].value + 1)

\* vkQueueBindSparse refuses a binary wait that is not signaled, signals no
\* timeline, and leaves its waits consumed when a later step fails.
QueueBindSparse(w, g, f, fails) ==
  /\ w \in (Semaphores \ Timelines) \cup {None} /\ Waitable(w) /\ Signalable(g, MaxValue)
  /\ w # None => semaphores[w].signaled
  /\ Free(f) /\ PathFollowsFiles(w, g)
  /\ LET waited == WaitedInMemory(w)
         record == [waited[g] EXCEPT !.signaled = TRUE]
     IN  semaphores' = IF fails \/ g = None \/ g \in Timelines THEN waited
                       ELSE [waited EXCEPT ![g] = record]
  /\ IF fails THEN UNCHANGED vkFences ELSE SignalFence(f)
  /\ UNCHANGED <<files, cuda, hostFences, nextHost, connected>>

----------------------------------------------------------------------------
(* Fences, and the two submits that leave one in flight.                   *)

InFlight == {f \in DOMAIN vkFences : vkFences[f].submitted /\ ~vkFences[f].signaled}

Unsubmitted(signaled) == [submitted |-> FALSE, signaled |-> signaled, host |-> 0]

CreateFence(f, signaled) ==
  /\ f \notin DOMAIN vkFences
  /\ vkFences' = Put(vkFences, f, Unsubmitted(signaled))
  /\ UNCHANGED <<hostFences, nextHost, connected>>
  /\ UNCHANGED semaphoreVars

\* vkDestroyFence; the application must not destroy one in flight.
DestroyFence(f) ==
  /\ f \in DOMAIN vkFences \ InFlight
  /\ vkFences' = Drop(vkFences, f)
  /\ UNCHANGED <<hostFences, nextHost, connected>>
  /\ UNCHANGED semaphoreVars

\* Mutant: vkResetFences accepts a fence in flight.
ResetInFlight(f) ==
  /\ f \in DOMAIN vkFences
  /\ vkFences' = [vkFences EXCEPT ![f] = Unsubmitted(FALSE)]
  /\ UNCHANGED <<hostFences, nextHost, connected>>
  /\ UNCHANGED semaphoreVars

\* vkResetFences
ResetFence(f) ==
  /\ f \in DOMAIN vkFences \ InFlight
  /\ vkFences' = [vkFences EXCEPT ![f] = Unsubmitted(FALSE)]
  /\ UNCHANGED <<hostFences, nextHost, connected>>
  /\ UNCHANGED semaphoreVars

\* ADD_U32 and the triangle; without a fence the submit waits itself.
SubmitDeferred(f) ==
  /\ connected /\ Free(f) /\ nextHost <= MaxHostFence
  /\ nextHost' = nextHost + 1
  /\ IF f = None
     THEN UNCHANGED <<vkFences, hostFences>>
     ELSE /\ vkFences' = [vkFences EXCEPT
               ![f] = [vkFences[f] EXCEPT !.submitted = TRUE, !.host = nextHost]]
          /\ hostFences' = Put(hostFences, nextHost, "running")
  /\ UNCHANGED connected
  /\ UNCHANGED semaphoreVars

HostFinishes(id) ==
  /\ id \in DOMAIN hostFences /\ hostFences[id] = "running"
  /\ hostFences' = [hostFences EXCEPT ![id] = "done"]
  /\ UNCHANGED <<vkFences, nextHost, connected>>
  /\ UNCHANGED semaphoreVars

\* Mutant: the wait returns with the host's fence where it was.
ReturnOnly(fs) ==
  /\ \A f \in fs : hostFences[vkFences[f].host] = "done"
  /\ UNCHANGED <<vkFences, hostFences>>

\* completeFenceLocked for the fences of fs: blocks until the host has
\* finished them and retires their IDs there.
Complete(fs) ==
  LET ids == {vkFences[f].host : f \in fs}
  IN  /\ \A id \in ids : hostFences[id] = "done"
      /\ vkFences' = [f \in DOMAIN vkFences |->
           IF f \in fs THEN [vkFences[f] EXCEPT !.signaled = TRUE] ELSE vkFences[f]]
      /\ hostFences' = [id \in DOMAIN hostFences \ ids |-> hostFences[id]]

\* vkWaitForFences with a timeout goes through its fences in order until one
\* is not even submitted; with waitAll false it only looks at the first.
WaitForFences(wanted, waitAll) ==
  LET reached == {i \in DOMAIN wanted :
                    /\ i > 1 => waitAll
                    /\ \A j \in 1 .. i : vkFences[wanted[j]].submitted \/ vkFences[wanted[j]].signaled}
      waited == {wanted[i] : i \in reached} \cap InFlight
  IN  /\ connected /\ waited # {}
      /\ Complete(waited)
      /\ UNCHANGED <<nextHost, connected>>
      /\ UNCHANGED semaphoreVars

\* vkDeviceWaitIdle, vkQueueWaitIdle
DeviceWaitIdle ==
  /\ connected /\ InFlight # {}
  /\ Complete(InFlight)
  /\ UNCHANGED <<nextHost, connected>>
  /\ UNCHANGED semaphoreVars

\* The host is gone; with the result of f unread it had retired the fence.
BridgeFails(f) ==
  /\ connected
  /\ connected' = FALSE
  /\ IF f \in InFlight /\ hostFences[vkFences[f].host] = "done"
     THEN hostFences' = Drop(hostFences, vkFences[f].host)
     ELSE UNCHANGED hostFences
  /\ UNCHANGED <<vkFences, nextHost>>
  /\ UNCHANGED semaphoreVars

----------------------------------------------------------------------------

Semaphore ==
  \/ \E s \in Semaphores :
       \/ \E v \in 0 .. MaxValue : CreateSemaphore(s, v)
       \/ DestroySemaphore(s)
       \/ RefreshSemaphore(s)
       \/ \E f \in Files : GetSemaphoreFd(s, f) \/ ImportSemaphoreFd(s, f)
       \/ \E v \in 1 .. MaxValue : SignalSemaphore(s, v)
  \/ \E f \in Files :
       \/ \E v \in 1 .. MaxValue : CudaSignal(f, v)
       \/ CudaClose(f)
       \/ FileGone(f)

Submit ==
  \E w, g \in Semaphores \cup {None}, f \in VkFences \cup {None} :
    \/ \E v \in 1 .. MaxValue :
         SubmitExact(w, g, v, f) \/ SubmitPlain(w, g, v, f) \/ SubmitConservative(w, g, v, f)
    \/ \E fails \in BOOLEAN : QueueBindSparse(w, g, f, fails)

IsInjection(s) == \A i, j \in DOMAIN s : s[i] = s[j] => i = j

\* The fences of one vkWaitForFences, in the order of its array.
Waits == {s \in UNION {[1 .. n -> DOMAIN vkFences] : n \in 1 .. 2} : IsInjection(s)}

Fence ==
  \/ \E f \in VkFences :
       \/ \E signaled \in BOOLEAN : CreateFence(f, signaled)
       \/ DestroyFence(f)
       \/ ResetFence(f)
  \/ \E f \in VkFences \cup {None} : SubmitDeferred(f) \/ BridgeFails(f)
  \/ \E id \in 1 .. MaxHostFence : HostFinishes(id)

WaitFence == (\E wanted \in Waits, waitAll \in BOOLEAN : WaitForFences(wanted, waitAll)) \/ DeviceWaitIdle

QueueNext == Semaphore \/ Submit \/ Fence \/ WaitFence

----------------------------------------------------------------------------

SemaphoreStates ==
  [signaled : BOOLEAN, value : 0 .. MaxValue, file : Files \cup {None}]
FenceStates == [submitted : BOOLEAN, signaled : BOOLEAN, host : 0 .. MaxHostFence]

\* Descriptors refer to files that exist, and payloads stay in their bounds.
QueueTypeOK ==
  /\ IsTable(semaphores, Semaphores, SemaphoreStates)
  /\ IsTable(files, Files, 0 .. MaxValue)
  /\ \A s \in DOMAIN semaphores : Shared(s) => semaphores[s].file \in DOMAIN files
  /\ cuda \subseteq DOMAIN files
  /\ IsTable(vkFences, VkFences, FenceStates)
  /\ IsTable(hostFences, 1 .. MaxHostFence, {"running", "done"})
  /\ nextHost \in 1 .. MaxHostFence + 1
  /\ connected \in BOOLEAN

\* As long as the bridge works, every fence in flight waits for a host fence
\* of its own that nobody has retired, and every fence the host keeps is
\* waited for by one of them: none leaks, none is waited for twice.
HostFencesAwaited ==
  connected =>
    /\ DOMAIN hostFences = {vkFences[f].host : f \in InFlight}
    /\ \A f, g \in InFlight : vkFences[f].host = vkFences[g].host => f = g

\* Vulkan and CUDA see one payload: what the driver records and what the
\* files hold is, through every submit, an ideal semaphore.
Objects == [s \in DOMAIN semaphores |-> IF Shared(s) THEN semaphores[s].file ELSE s]
Payloads ==
  [o \in DOMAIN files \cup {s \in DOMAIN semaphores : ~Shared(s)} |->
    IF o \in DOMAIN files THEN files[o] ELSE Recorded(o)]
Ideal == INSTANCE IdealSemaphores WITH object <- Objects, payload <- Payloads
SemaphoresIdeal == Ideal!Spec

\* A timeline shared with CUDA never falls: "the monotonically increasing
\* counter for timeline semaphores".
TimelineFilesGrow ==
  [][\A s \in DOMAIN semaphores \cap DOMAIN semaphores' :
       s \in Timelines /\ Shared(s) /\ semaphores'[s].file = semaphores[s].file
         => files'[semaphores[s].file] >= files[semaphores[s].file]]_queueVars

QueueSpec == QueueInit /\ [][QueueNext]_queueVars

\* The application waits for what it submits, and the host's commands end.
QueueFairness ==
  /\ WF_queueVars(WaitFence)
  /\ \A id \in 1 .. MaxHostFence : WF_queueVars(HostFinishes(id))

\* Every fence in flight is signaled, unless the bridge fails.
FencesSignal ==
  \A f \in VkFences : f \in InFlight ~> f \notin InFlight \/ ~connected

=============================================================================
