-------------------------- MODULE GuestQueueProofs --------------------------
(***************************************************************************)
(* What GuestQueue promises, for any number of fences, host commands,      *)
(* semaphores, files and values: of fences whatever is done with shared    *)
(* semaphores, of semaphores while applications keep to the paths that     *)
(* keep a shared one's file current.                                       *)
(***************************************************************************)
EXTENDS GuestQueue, TLAPS

\* The host hands out IDs in order, and a fence in flight has one of them.
FenceInv ==
  /\ IsTable(vkFences, VkFences, FenceStates)
  /\ IsTable(hostFences, 1 .. MaxHostFence, {"running", "done"})
  /\ nextHost \in 1 .. MaxHostFence + 1
  /\ connected \in BOOLEAN
  /\ \A id \in DOMAIN hostFences : id < nextHost
  /\ \A f \in InFlight : vkFences[f].host < nextHost
  /\ HostFencesAwaited

----------------------------------------------------------------------------
\* A change of one fence that leaves it out of flight, as it was.
LEMMA QuietFence ==
  ASSUME FenceInv, NEW f \in VkFences, f \notin InFlight, NEW state \in FenceStates,
         ~(state.submitted /\ ~state.signaled),
         vkFences' = Put(vkFences, f, state),
         UNCHANGED <<hostFences, nextHost, connected>>
  PROVE  FenceInv'
<1> USE QueueAssumption
<1>1. /\ DOMAIN vkFences' = DOMAIN vkFences \cup {f} /\ vkFences'[f] = state
      /\ \A g \in DOMAIN vkFences \ {f} : vkFences'[g] = vkFences[g]
  BY DEF Put
<1>2. IsTable(vkFences, VkFences, FenceStates)' /\ InFlight' = InFlight
  <2>1. IsTable(vkFences, VkFences, FenceStates)'
    BY <1>1 DEF FenceInv, IsTable, Put
  <2>2. InFlight' = InFlight
    BY <1>1 DEF InFlight
  <2> QED BY <2>1, <2>2
<1>3. \A g \in InFlight : vkFences'[g] = vkFences[g]
  BY <1>1 DEF InFlight
<1>4. HostFencesAwaited'
  BY <1>2, <1>3 DEF FenceInv, HostFencesAwaited
<1> QED BY <1>2, <1>3, <1>4 DEF FenceInv, IsTable

\* An assignment to a key a table has.
LEMMA AssignIsPut ==
  ASSUME NEW Keys, NEW Values, NEW table, IsTable(table, Keys, Values),
         NEW key \in DOMAIN table, NEW value
  PROVE  [table EXCEPT ![key] = value] = Put(table, key, value)
BY DEF IsTable, Put

\* A submit that has finished signals a fence nobody had submitted.
LEMMA SignalsFence ==
  ASSUME FenceInv, NEW f \in VkFences \cup {None}, Free(f), SignalFence(f),
         UNCHANGED <<hostFences, nextHost, connected>>
  PROVE  FenceInv'
<1> USE QueueAssumption
<1>1. CASE f = None
  BY <1>1 DEF SignalFence, FenceInv, InFlight, HostFencesAwaited
<1>2. CASE f # None
  <2> DEFINE state == [vkFences[f] EXCEPT !.signaled = TRUE]
  <2>1. /\ f \in DOMAIN vkFences /\ ~vkFences[f].submitted
        /\ vkFences[f] \in FenceStates
    BY <1>2 DEF Free, FenceInv, IsTable
  <2>2. state \in FenceStates /\ ~(state.submitted /\ ~state.signaled)
    BY <2>1 DEF FenceStates
  <2>3. vkFences' = Put(vkFences, f, state)
    <3>1. IsTable(vkFences, VkFences, FenceStates)
      BY DEF FenceInv
    <3>2. vkFences' = [vkFences EXCEPT ![f] = state]
      BY <1>2 DEF SignalFence
    <3> HIDE DEF state
    <3> QED BY <2>1, <3>1, <3>2, AssignIsPut
  <2>4. f \in VkFences /\ f \notin InFlight
    BY <1>2, <2>1 DEF InFlight
  <2> HIDE DEF state
  <2> QED BY <2>2, <2>3, <2>4, QuietFence
<1> QED BY <1>1, <1>2

\* What the host keeps when the fences of fs are waited for and retired.
LEMMA CompletesFences ==
  ASSUME FenceInv, connected, NEW fs \in SUBSET InFlight, Complete(fs),
         UNCHANGED <<nextHost, connected>>
  PROVE  FenceInv'
<1> USE QueueAssumption
<1> DEFINE ids == {vkFences[f].host : f \in fs}
<1>1. /\ vkFences' = [f \in DOMAIN vkFences |->
           IF f \in fs THEN [vkFences[f] EXCEPT !.signaled = TRUE] ELSE vkFences[f]]
      /\ hostFences' = [id \in DOMAIN hostFences \ ids |-> hostFences[id]]
  BY DEF Complete
<1>2. IsTable(vkFences, VkFences, FenceStates)'
  <2>1. /\ DOMAIN vkFences \subseteq VkFences
        /\ \A f \in DOMAIN vkFences : vkFences[f] \in FenceStates
    BY DEF FenceInv, IsTable
  <2>2. \A s \in FenceStates : [s EXCEPT !.signaled = TRUE] \in FenceStates
    BY DEF FenceStates
  <2>3. /\ DOMAIN vkFences' = DOMAIN vkFences
        /\ \A f \in DOMAIN vkFences : vkFences'[f] \in FenceStates
    BY <1>1, <2>1, <2>2
  <2>4. vkFences' = [f \in DOMAIN vkFences' |-> vkFences'[f]]
    BY ONLY <1>1
  <2> QED BY <2>1, <2>3, <2>4 DEF IsTable
<1>3. IsTable(hostFences, 1 .. MaxHostFence, {"running", "done"})'
  BY <1>1 DEF FenceInv, IsTable
<1>4. \A f \in DOMAIN vkFences : vkFences[f] \in FenceStates
  BY DEF FenceInv, IsTable
<1>5. /\ InFlight' = InFlight \ fs
      /\ \A f \in InFlight \ fs : vkFences'[f] = vkFences[f]
  BY <1>1, <1>4 DEF InFlight, FenceStates
<1>6. HostFencesAwaited'
  <2>1. /\ DOMAIN hostFences = {vkFences[f].host : f \in InFlight}
        /\ \A f, g \in InFlight : vkFences[f].host = vkFences[g].host => f = g
    BY DEF FenceInv, HostFencesAwaited
  <2>2. DOMAIN hostFences' = {vkFences[f].host : f \in InFlight \ fs}
    BY <1>1, <2>1
  <2>3. DOMAIN hostFences' = {vkFences'[f].host : f \in InFlight'}
    BY <1>5, <2>2
  <2> QED BY <1>5, <2>1, <2>3 DEF HostFencesAwaited
<1>7. \A id \in DOMAIN hostFences' : id < nextHost'
  BY <1>1 DEF FenceInv
<1> QED BY <1>2, <1>3, <1>5, <1>6, <1>7 DEF FenceInv

----------------------------------------------------------------------------
\* Every step is one about semaphores only, a submit that has finished, or
\* one of the fences'.
LEMMA FenceStep == FenceInv /\ [QueueNext]_queueVars => FenceInv'
<1> USE QueueAssumption
<1> SUFFICES ASSUME FenceInv, [QueueNext]_queueVars PROVE FenceInv'
  OBVIOUS
<1>1. ASSUME UNCHANGED fenceVars PROVE FenceInv'
  BY <1>1 DEF fenceVars, FenceInv, InFlight, HostFencesAwaited
<1>2. CASE UNCHANGED queueVars
  BY <1>1, <1>2 DEF queueVars, fenceVars
<1>3. CASE Semaphore
  <2>1. UNCHANGED fenceVars
    BY <1>3 DEF Semaphore, CreateSemaphore, DestroySemaphore, RefreshSemaphore, GetSemaphoreFd,
                ImportSemaphoreFd, SignalSemaphore, CudaSignal, CudaClose, FileGone
  <2> QED BY <1>1, <2>1
<1>4. CASE Submit
  <2>1. PICK f \in VkFences \cup {None} :
          /\ Free(f)
          /\ SignalFence(f) \/ UNCHANGED vkFences
          /\ UNCHANGED <<hostFences, nextHost, connected>>
    <3> DEFINE P(f) == /\ Free(f)
                       /\ SignalFence(f) \/ UNCHANGED vkFences
                       /\ UNCHANGED <<hostFences, nextHost, connected>>
    <3>1. ASSUME NEW w, NEW g, NEW f, NEW v, SubmitExact(w, g, v, f) PROVE P(f)
      BY <3>1 DEF SubmitExact
    <3>2. ASSUME NEW w, NEW g, NEW f, NEW value, SubmitInMemory(w, g, f, value) PROVE P(f)
      BY <3>2 DEF SubmitInMemory
    <3>3. ASSUME NEW w, NEW g, NEW f, NEW fails, QueueBindSparse(w, g, f, fails) PROVE P(f)
      BY <3>3 DEF QueueBindSparse
    <3>4. ASSUME NEW w, NEW g, NEW f, NEW v, SubmitPlain(w, g, v, f) \/ SubmitConservative(w, g, v, f)
          PROVE  P(f)
      BY <3>2, <3>4 DEF SubmitPlain, SubmitConservative
    <3> HIDE DEF P
    <3>5. \E f \in VkFences \cup {None} : P(f)
      BY <1>4, <3>1, <3>3, <3>4 DEF Submit
    <3> QED BY <3>5 DEF P
  <2>2. CASE SignalFence(f)
    BY <2>1, <2>2, SignalsFence
  <2>3. CASE UNCHANGED vkFences
    BY <1>1, <2>1, <2>3 DEF fenceVars
  <2> QED BY <2>1, <2>2, <2>3
<1>5. CASE Fence
  <2>1. ASSUME NEW f \in VkFences, NEW signaled \in BOOLEAN, CreateFence(f, signaled)
        PROVE  FenceInv'
    <3>1. f \notin DOMAIN vkFences /\ vkFences' = Put(vkFences, f, Unsubmitted(signaled))
          /\ UNCHANGED <<hostFences, nextHost, connected>>
      BY <2>1 DEF CreateFence
    <3>2. f \notin InFlight
      BY <3>1 DEF InFlight
    <3>3. /\ Unsubmitted(signaled) \in FenceStates
          /\ ~(Unsubmitted(signaled).submitted /\ ~Unsubmitted(signaled).signaled)
      BY DEF Unsubmitted, FenceStates
    <3> QED BY <3>1, <3>2, <3>3, QuietFence
  <2>2. ASSUME NEW f \in VkFences, ResetFence(f)
        PROVE  FenceInv'
    <3>1. /\ f \in DOMAIN vkFences /\ f \notin InFlight
          /\ vkFences' = [vkFences EXCEPT ![f] = Unsubmitted(FALSE)]
          /\ UNCHANGED <<hostFences, nextHost, connected>>
      BY <2>2 DEF ResetFence
    <3>2. /\ Unsubmitted(FALSE) \in FenceStates
          /\ ~(Unsubmitted(FALSE).submitted /\ ~Unsubmitted(FALSE).signaled)
      BY DEF Unsubmitted, FenceStates
    <3>3. vkFences' = Put(vkFences, f, Unsubmitted(FALSE))
      <4>1. IsTable(vkFences, VkFences, FenceStates)
        BY DEF FenceInv
      <4> DEFINE table == vkFences
                 state == Unsubmitted(FALSE)
      <4> HIDE DEF table, state
      <4>2. [table EXCEPT ![f] = state] = Put(table, f, state)
        BY <3>1, <4>1, AssignIsPut DEF table
      <4> QED BY <3>1, <4>2 DEF table, state
    <3> QED BY <3>1, <3>2, <3>3, QuietFence
  <2>3. ASSUME NEW f \in VkFences, DestroyFence(f)
        PROVE  FenceInv'
    <3>1. /\ vkFences' = [g \in DOMAIN vkFences \ {f} |-> vkFences[g]]
          /\ UNCHANGED <<hostFences, nextHost, connected>> /\ f \notin InFlight
      BY <2>3 DEF DestroyFence, Drop
    <3>2. /\ InFlight' = InFlight
          /\ \A g \in InFlight : vkFences'[g] = vkFences[g]
      BY <3>1 DEF InFlight
    <3>3. IsTable(vkFences, VkFences, FenceStates)'
      BY <3>1 DEF FenceInv, IsTable
    <3>4. HostFencesAwaited'
      <4>1. {vkFences'[g].host : g \in InFlight'} = {vkFences[g].host : g \in InFlight}
        BY <3>2
      <4>2. UNCHANGED <<hostFences, connected>> /\ HostFencesAwaited
        BY <3>1 DEF FenceInv
      <4> QED BY <3>2, <4>1, <4>2 DEF HostFencesAwaited
    <3> QED BY <3>1, <3>2, <3>3, <3>4 DEF FenceInv, IsTable
  <2>4. ASSUME NEW id \in 1 .. MaxHostFence, HostFinishes(id)
        PROVE  FenceInv'
    <3>1. /\ hostFences' = [hostFences EXCEPT ![id] = "done"]
          /\ UNCHANGED <<vkFences, nextHost, connected>>
      BY <2>4 DEF HostFinishes
    <3>2. InFlight' = InFlight /\ DOMAIN hostFences' = DOMAIN hostFences
      BY <3>1 DEF InFlight
    <3>3. IsTable(hostFences, 1 .. MaxHostFence, {"running", "done"})'
      BY <3>1 DEF FenceInv, IsTable
    <3> QED BY <3>1, <3>2, <3>3 DEF FenceInv, HostFencesAwaited
  <2>5. ASSUME SubmitDeferred(None)
        PROVE  FenceInv'
    <3>1. UNCHANGED <<vkFences, hostFences, connected>> /\ nextHost' = nextHost + 1
          /\ nextHost' \in 1 .. MaxHostFence + 1
      BY <2>5 DEF SubmitDeferred, FenceInv
    <3> QED BY <3>1 DEF FenceInv, InFlight, HostFencesAwaited, IsTable, FenceStates
  <2>6. ASSUME NEW f \in VkFences, SubmitDeferred(f)
        PROVE  FenceInv'
    <3> DEFINE state == [vkFences[f] EXCEPT !.submitted = TRUE, !.host = nextHost]
    <3>1. /\ connected /\ f \in DOMAIN vkFences /\ vkFences[f] \in FenceStates
          /\ ~vkFences[f].submitted /\ ~vkFences[f].signaled
          /\ nextHost \in 1 .. MaxHostFence
          /\ nextHost' = nextHost + 1 /\ connected' = connected
          /\ vkFences' = [vkFences EXCEPT ![f] = state]
          /\ hostFences' = Put(hostFences, nextHost, "running")
      BY <2>6 DEF SubmitDeferred, Free, FenceInv, IsTable
    <3>2. state \in FenceStates /\ state.submitted /\ ~state.signaled /\ state.host = nextHost
      <4>1. nextHost \in 0 .. MaxHostFence
        BY <3>1
      <4>2. \A r \in FenceStates, h \in 0 .. MaxHostFence :
              LET q == [r EXCEPT !.submitted = TRUE, !.host = h]
              IN  q \in FenceStates /\ q.submitted /\ q.signaled = r.signaled /\ q.host = h
        BY DEF FenceStates
      <4> QED BY <3>1, <4>1, <4>2
    <3> HIDE DEF state
    <3>3. IsTable(vkFences, VkFences, FenceStates)'
      BY <3>1, <3>2 DEF FenceInv, IsTable
    <3>4. IsTable(hostFences, 1 .. MaxHostFence, {"running", "done"})'
      BY <3>1 DEF FenceInv, IsTable, Put
    <3>5. /\ vkFences'[f] = state /\ DOMAIN vkFences' = DOMAIN vkFences
          /\ \A g \in DOMAIN vkFences \ {f} : vkFences'[g] = vkFences[g]
      BY <3>1 DEF FenceInv, IsTable
    <3>6. /\ f \notin InFlight /\ InFlight' = InFlight \cup {f}
          /\ \A g \in InFlight : vkFences'[g] = vkFences[g]
      BY <3>1, <3>2, <3>5 DEF InFlight
    <3>7. /\ DOMAIN hostFences' = DOMAIN hostFences \cup {nextHost}
          /\ \A id \in DOMAIN hostFences : id < nextHost
          /\ \A g \in InFlight : vkFences[g].host < nextHost
      BY <3>1 DEF Put, FenceInv
    <3>8. /\ DOMAIN hostFences = {vkFences[g].host : g \in InFlight}
          /\ \A g, h \in InFlight : vkFences[g].host = vkFences[h].host => g = h
      BY <3>1 DEF FenceInv, HostFencesAwaited
    <3>9. HostFencesAwaited'
      <4>1. DOMAIN hostFences' = {vkFences'[g].host : g \in InFlight'}
        BY <3>2, <3>5, <3>6, <3>7, <3>8
      <4>2. \A g, h \in InFlight' : vkFences'[g].host = vkFences'[h].host => g = h
        BY <3>1, <3>2, <3>5, <3>6, <3>7, <3>8
      <4> QED BY <4>1, <4>2 DEF HostFencesAwaited
    <3>10. /\ \A id \in DOMAIN hostFences' : id < nextHost'
           /\ \A g \in InFlight' : vkFences'[g].host < nextHost'
      <4>1. \A id \in DOMAIN hostFences : id \in Int
        BY DEF FenceInv, IsTable
      <4>2. \A g \in InFlight : vkFences[g].host \in Int
        BY DEF FenceInv, IsTable, InFlight, FenceStates
      <4> QED BY <3>1, <3>2, <3>5, <3>6, <3>7, <4>1, <4>2
    <3>11. nextHost' \in 1 .. MaxHostFence + 1
      BY <3>1
    <3> QED BY <3>1, <3>3, <3>4, <3>9, <3>10, <3>11 DEF FenceInv
  <2>7. ASSUME NEW f \in VkFences \cup {None}, BridgeFails(f)
        PROVE  FenceInv'
    <3>1. /\ connected' = FALSE /\ UNCHANGED <<vkFences, nextHost>>
          /\ \/ UNCHANGED hostFences
             \/ hostFences' = Drop(hostFences, vkFences[f].host)
      BY <2>7 DEF BridgeFails
    <3>2. /\ DOMAIN hostFences' \subseteq DOMAIN hostFences
          /\ IsTable(hostFences, 1 .. MaxHostFence, {"running", "done"})'
      BY <3>1 DEF FenceInv, IsTable, Drop
    <3> QED BY <3>1, <3>2 DEF FenceInv, HostFencesAwaited, InFlight
  <2> QED BY <1>5, <2>1, <2>2, <2>3, <2>4, <2>5, <2>6, <2>7 DEF Fence
<1>6. CASE WaitFence
  <2>1. PICK fs \in SUBSET InFlight :
          connected /\ Complete(fs) /\ UNCHANGED <<nextHost, connected>>
    BY <1>6 DEF WaitFence, WaitForFences, DeviceWaitIdle
  <2> QED BY <2>1, CompletesFences
<1> QED BY <1>2, <1>3, <1>4, <1>5, <1>6 DEF QueueNext

\* Until the bridge fails, the host keeps exactly the fences that fences in
\* flight wait for, one each, whatever is waited for, reset and destroyed.
THEOREM FencesAreAwaited == QueueSpec => []HostFencesAwaited
<1>1. QueueInit => FenceInv
  BY QueueAssumption DEF QueueInit, FenceInv, IsTable, EmptyTable, InFlight, HostFencesAwaited
<1>2. FenceInv => HostFencesAwaited
  BY DEF FenceInv
<1> QED BY <1>1, <1>2, FenceStep, PTL DEF QueueSpec

----------------------------------------------------------------------------
(* Semaphores, while applications keep to the paths that keep a shared     *)
(* semaphore's file current (Interop = {}).                                *)

\* Objects and Payloads for any records S of semaphores and any files F.
RecordedOf(s, record) ==
  IF s \in Timelines THEN record.value ELSE IF record.signaled THEN 1 ELSE 0
ObjectsOf(S) == [s \in DOMAIN S |-> IF S[s].file # None THEN S[s].file ELSE s]
PayloadsOf(S, F) ==
  [o \in DOMAIN F \cup {s \in DOMAIN S : S[s].file = None} |->
    IF o \in DOMAIN F THEN F[o] ELSE RecordedOf(o, S[o])]

\* A shared timeline's record trails its file, a shared binary semaphore's
\* file is 0 or 1, and a file belongs to semaphores of one kind.
SemaphoreInvOf(S, F) ==
  /\ IsTable(S, Semaphores, SemaphoreStates)
  /\ IsTable(F, Files, 0 .. MaxValue)
  /\ \A s \in DOMAIN S : S[s].file # None => S[s].file \in DOMAIN F
  /\ \A s \in DOMAIN S : s \in Timelines /\ S[s].file # None => S[s].value <= F[S[s].file]
  /\ \A s \in DOMAIN S : s \notin Timelines /\ S[s].file # None => F[S[s].file] \in {0, 1}
  /\ \A s, t \in DOMAIN S :
       S[s].file # None /\ S[s].file = S[t].file => (s \in Timelines <=> t \in Timelines)
SemaphoreInv == SemaphoreInvOf(semaphores, files)

\* The files of shared timelines only grow from F to G.
Grown(S, F, G) ==
  \A s \in DOMAIN S : s \in Timelines /\ S[s].file # None => G[S[s].file] >= F[S[s].file]

LEMMA OfTheSemaphores ==
  /\ Objects = ObjectsOf(semaphores) /\ Objects' = ObjectsOf(semaphores')
  /\ Payloads = PayloadsOf(semaphores, files) /\ Payloads' = PayloadsOf(semaphores', files')
  /\ \A s : Recorded(s) = RecordedOf(s, semaphores[s])
<1>1. Objects = ObjectsOf(semaphores) /\ Objects' = ObjectsOf(semaphores')
  BY DEF Objects, ObjectsOf, Shared
<1>2. /\ \A s : Recorded(s) = RecordedOf(s, semaphores[s])
      /\ \A s : Recorded(s)' = RecordedOf(s, semaphores'[s])
  BY DEF Recorded, RecordedOf
<1>3. Payloads = PayloadsOf(semaphores, files) /\ Payloads' = PayloadsOf(semaphores', files')
  BY <1>2 DEF Payloads, PayloadsOf, Shared
<1> QED BY <1>1, <1>2, <1>3

\* A payload is found under the semaphore's object.
LEMMA PayloadFound ==
  ASSUME NEW S, NEW F, SemaphoreInvOf(S, F), NEW s \in DOMAIN S
  PROVE  /\ ObjectsOf(S)[s] \in DOMAIN PayloadsOf(S, F)
         /\ PayloadsOf(S, F)[ObjectsOf(S)[s]]
              = IF S[s].file # None THEN F[S[s].file] ELSE RecordedOf(s, S[s])
         /\ PayloadsOf(S, F)[ObjectsOf(S)[s]] \in Int
         /\ s \in Timelines => S[s].value <= PayloadsOf(S, F)[ObjectsOf(S)[s]]
<1> USE QueueAssumption
<1>1. /\ S[s] \in SemaphoreStates /\ s \in Semaphores
      /\ S[s].file # None => S[s].file \in DOMAIN F
      /\ DOMAIN F \subseteq Files /\ \A f \in DOMAIN F : F[f] \in 0 .. MaxValue
      /\ s \in Timelines /\ S[s].file # None => S[s].value <= F[S[s].file]
  BY DEF SemaphoreInvOf, IsTable
<1>2. RecordedOf(s, S[s]) \in Int /\ (s \in Timelines => RecordedOf(s, S[s]) = S[s].value)
  BY <1>1 DEF RecordedOf, SemaphoreStates
<1>3. /\ ObjectsOf(S)[s] \in DOMAIN PayloadsOf(S, F)
      /\ PayloadsOf(S, F)[ObjectsOf(S)[s]]
           = IF S[s].file # None THEN F[S[s].file] ELSE RecordedOf(s, S[s])
  BY <1>1 DEF ObjectsOf, PayloadsOf
<1>4. S[s].value \in Int
  BY <1>1 DEF SemaphoreStates
<1> QED BY <1>1, <1>2, <1>3, <1>4

\* One semaphore's record is replaced, and its file follows.
WithRecord(S, s, record) == [S EXCEPT ![s] = record]
WithFile(F, s, record) ==
  IF record.file = None THEN F ELSE [F EXCEPT ![record.file] = RecordedOf(s, record)]

\* Then its payload is what the record says, and no other has changed.
LEMMA SetsPayload ==
  ASSUME NEW S, NEW F, SemaphoreInvOf(S, F), NEW s \in DOMAIN S,
         NEW record \in SemaphoreStates, record.file = S[s].file,
         s \in Timelines => record.value >= PayloadsOf(S, F)[ObjectsOf(S)[s]]
  PROVE  LET S2 == WithRecord(S, s, record)
             F2 == WithFile(F, s, record)
         IN  /\ SemaphoreInvOf(S2, F2)
             /\ ObjectsOf(S2) = ObjectsOf(S)
             /\ PayloadsOf(S2, F2)
                  = [PayloadsOf(S, F) EXCEPT ![ObjectsOf(S)[s]] = RecordedOf(s, record)]
             /\ DOMAIN S2 = DOMAIN S /\ \A t \in DOMAIN S : S2[t].file = S[t].file
             /\ Grown(S, F, F2)
<1> USE QueueAssumption
<1> DEFINE S2 == WithRecord(S, s, record)
           F2 == WithFile(F, s, record)
           x == RecordedOf(s, record)
<1>a. S2 = [S EXCEPT ![s] = record]
  BY DEF WithRecord
<1>b. F2 = IF record.file = None THEN F ELSE [F EXCEPT ![record.file] = x]
  BY DEF WithFile
<1>c. x \in 0 .. MaxValue
  BY DEF RecordedOf, SemaphoreStates
<1>d. s \in Timelines => x >= PayloadsOf(S, F)[ObjectsOf(S)[s]]
  BY DEF RecordedOf
<1>5. s \in Timelines => x = record.value
  BY DEF RecordedOf
<1>e. x = RecordedOf(s, record)
  OBVIOUS
<1> HIDE DEF S2, F2, x
<1>1. /\ IsTable(S, Semaphores, SemaphoreStates) /\ IsTable(F, Files, 0 .. MaxValue)
      /\ \A t \in DOMAIN S : S[t].file # None => S[t].file \in DOMAIN F
      /\ \A t \in DOMAIN S : t \in Timelines /\ S[t].file # None => S[t].value <= F[S[t].file]
      /\ \A t \in DOMAIN S : t \notin Timelines /\ S[t].file # None => F[S[t].file] \in {0, 1}
      /\ \A t, u \in DOMAIN S :
           S[t].file # None /\ S[t].file = S[u].file => (t \in Timelines <=> u \in Timelines)
  BY DEF SemaphoreInvOf
<1>2. /\ DOMAIN S2 = DOMAIN S /\ S2[s] = record
      /\ \A t \in DOMAIN S \ {s} : S2[t] = S[t]
      /\ \A t \in DOMAIN S : S2[t].file = S[t].file
      /\ IsTable(S2, Semaphores, SemaphoreStates)
  BY <1>1, <1>a DEF IsTable
<1>3. /\ DOMAIN F2 = DOMAIN F /\ IsTable(F2, Files, 0 .. MaxValue)
      /\ S[s].file # None => F2[S[s].file] = x
      /\ \A f \in DOMAIN F : f # S[s].file => F2[f] = F[f]
  BY <1>1, <1>b, <1>c DEF IsTable
<1>4. \A f \in DOMAIN F : F[f] \in Int /\ F2[f] \in Int
  BY <1>1, <1>3 DEF IsTable
<1>6. \A t \in DOMAIN S : S[t].value \in Int
  BY <1>1 DEF IsTable, SemaphoreStates
<1>7. s \in Timelines /\ S[s].file # None => x >= F[S[s].file]
  BY <1>d, PayloadFound
<1>8. Grown(S, F, F2)
  <2> SUFFICES ASSUME NEW t \in DOMAIN S, t \in Timelines, S[t].file # None
               PROVE  F2[S[t].file] >= F[S[t].file]
    BY DEF Grown
  <2>1. S[t].file \in DOMAIN F
    BY <1>1
  <2>2. CASE S[t].file = S[s].file
    BY <1>1, <1>3, <1>7, <2>2
  <2>3. CASE S[t].file # S[s].file
    BY <1>3, <1>4, <2>1, <2>3
  <2> QED BY <2>2, <2>3
<1>9. \A t \in DOMAIN S : t \in Timelines /\ S[t].file # None => S2[t].value <= F2[S[t].file]
  <2> SUFFICES ASSUME NEW t \in DOMAIN S, t \in Timelines, S[t].file # None
               PROVE  S2[t].value <= F2[S[t].file]
    OBVIOUS
  <2>1. CASE t = s
    BY <1>2, <1>3, <1>5, <1>c, <2>1
  <2>2. CASE t # s
    <3>1. F2[S[t].file] >= F[S[t].file] /\ S[t].file \in DOMAIN F
      BY <1>1, <1>8 DEF Grown
    <3>2. S2[t].value = S[t].value /\ S[t].value <= F[S[t].file]
      BY <1>1, <1>2, <2>2
    <3> QED BY <1>4, <1>6, <3>1, <3>2
  <2> QED BY <2>1, <2>2
<1>f. s \notin Timelines => x \in {0, 1}
  BY <1>e DEF RecordedOf, SemaphoreStates
<1>g. \A t \in DOMAIN S : t \notin Timelines /\ S[t].file # None => F2[S[t].file] \in {0, 1}
  BY <1>1, <1>3, <1>f
<1>10. SemaphoreInvOf(S2, F2)
  BY <1>1, <1>2, <1>3, <1>9, <1>g DEF SemaphoreInvOf
<1>11. ObjectsOf(S2) = ObjectsOf(S)
  BY <1>2 DEF ObjectsOf
<1>12. PayloadsOf(S2, F2) = [PayloadsOf(S, F) EXCEPT ![ObjectsOf(S)[s]] = x]
  <2>1. DOMAIN S \subseteq Semaphores /\ DOMAIN F \subseteq Files
    BY <1>1 DEF IsTable
  <2>2. {t \in DOMAIN S2 : S2[t].file = None} = {t \in DOMAIN S : S[t].file = None}
    BY <1>2
  <2>3. DOMAIN PayloadsOf(S2, F2) = DOMAIN PayloadsOf(S, F)
    BY <1>3, <2>2 DEF PayloadsOf
  <2>4. ASSUME NEW o \in DOMAIN PayloadsOf(S, F)
        PROVE  PayloadsOf(S2, F2)[o]
                 = IF o = ObjectsOf(S)[s] THEN x ELSE PayloadsOf(S, F)[o]
    <3>1. o \in DOMAIN F \cup {t \in DOMAIN S : S[t].file = None}
      BY DEF PayloadsOf
    <3>2. /\ PayloadsOf(S, F)[o] = IF o \in DOMAIN F THEN F[o] ELSE RecordedOf(o, S[o])
          /\ PayloadsOf(S2, F2)[o] = IF o \in DOMAIN F THEN F2[o] ELSE RecordedOf(o, S2[o])
      BY <1>3, <2>2, <3>1 DEF PayloadsOf
    <3>3. ObjectsOf(S)[s] = IF S[s].file # None THEN S[s].file ELSE s
      BY DEF ObjectsOf
    <3>4. CASE o \in DOMAIN F
      BY <1>1, <1>3, <2>1, <3>2, <3>3, <3>4
    <3>5. CASE o \notin DOMAIN F
      BY <1>1, <1>2, <1>e, <2>1, <3>1, <3>2, <3>3, <3>5
    <3> QED BY <3>4, <3>5
  <2> QED BY <2>3, <2>4 DEF PayloadsOf
<1> QED BY <1>2, <1>8, <1>10, <1>11, <1>12 DEF S2, F2, x

\* The same for the records and files of the state.
LEMMA SetsRecord ==
  ASSUME SemaphoreInvOf(semaphores, files), NEW s \in DOMAIN semaphores,
         NEW record \in SemaphoreStates, record.file = semaphores[s].file,
         s \in Timelines => record.value >= PayloadsOf(semaphores, files)[ObjectsOf(semaphores)[s]],
         NEW S2, S2 = WithRecord(semaphores, s, record),
         NEW F2, F2 = WithFile(files, s, record)
  PROVE  /\ SemaphoreInvOf(S2, F2)
         /\ ObjectsOf(S2) = ObjectsOf(semaphores)
         /\ PayloadsOf(S2, F2) = [PayloadsOf(semaphores, files) EXCEPT
                                    ![ObjectsOf(semaphores)[s]] = RecordedOf(s, record)]
         /\ DOMAIN S2 = DOMAIN semaphores
         /\ \A t \in DOMAIN semaphores : S2[t].file = semaphores[t].file
         /\ Grown(semaphores, files, F2)
BY SetsPayload

\* S1 and F1 are the records and files a submit has after waiting on w.
Waited(w, S1, F1) ==
  LET payload == PayloadsOf(semaphores, files)
      object == ObjectsOf(semaphores)
  IN  /\ SemaphoreInvOf(S1, F1)
      /\ ObjectsOf(S1) = object
      /\ DOMAIN S1 = DOMAIN semaphores
      /\ \A t \in DOMAIN semaphores : S1[t].file = semaphores[t].file
      /\ Grown(semaphores, files, F1)
      /\ PayloadsOf(S1, F1) = IF w \in {None} \cup Timelines THEN payload
                              ELSE [payload EXCEPT ![object[w]] = 0]

\* A step keeps the invariant, is one of the ideal semaphores' or none, and
\* lets no shared timeline fall.
Grows ==
  \A s \in DOMAIN semaphores \cap DOMAIN semaphores' :
    s \in Timelines /\ Shared(s) /\ semaphores'[s].file = semaphores[s].file
      => files'[semaphores[s].file] >= files[semaphores[s].file]
IdealStep ==
  /\ SemaphoreInv'
  /\ Ideal!Next \/ UNCHANGED <<Objects, Payloads>>
  /\ Grows

\* What a wait does to a semaphore that has no file.
LEMMA WaitsInMemory ==
  ASSUME SemaphoreInv, NEW w \in Semaphores \cup {None},
         w # None => w \in DOMAIN semaphores /\ ~Shared(w)
  PROVE  Waited(w, WaitedInMemory(w), files)
<1> USE QueueAssumption
<1>1. SemaphoreInvOf(semaphores, files) /\ IsTable(semaphores, Semaphores, SemaphoreStates)
      /\ IsTable(files, Files, 0 .. MaxValue)
  BY DEF SemaphoreInv, SemaphoreInvOf
<1>2. Grown(semaphores, files, files)
  <2>1. \A s \in DOMAIN semaphores : s \in Timelines /\ semaphores[s].file # None
          => files[semaphores[s].file] \in Int
    BY <1>1 DEF SemaphoreInvOf, IsTable
  <2> QED BY <2>1 DEF Grown
<1>3. CASE w = None
  BY <1>1, <1>2, <1>3 DEF Waited, WaitedInMemory
<1>4. CASE w # None /\ w \in Timelines
  <2>1. WaitedInMemory(w) = semaphores
    BY <1>1, <1>4 DEF WaitedInMemory, WaitedRecord, IsTable
  <2> QED BY <1>1, <1>2, <1>4, <2>1 DEF Waited
<1>5. CASE w # None /\ w \notin Timelines
  <2> DEFINE record == [semaphores[w] EXCEPT !.signaled = FALSE]
  <2>1. WaitedInMemory(w) = [semaphores EXCEPT ![w] = record]
    BY <1>5 DEF WaitedInMemory, WaitedRecord
  <2>2. semaphores[w] \in SemaphoreStates /\ semaphores[w].file = None
    BY <1>1, <1>5 DEF IsTable, Shared
  <2>3. record \in SemaphoreStates /\ record.file = semaphores[w].file
        /\ RecordedOf(w, record) = 0
    BY <1>5, <2>2 DEF SemaphoreStates, RecordedOf
  <2> HIDE DEF record
  <2>4. /\ SemaphoreInvOf(WaitedInMemory(w), files)
        /\ ObjectsOf(WaitedInMemory(w)) = ObjectsOf(semaphores)
        /\ PayloadsOf(WaitedInMemory(w), files)
             = [PayloadsOf(semaphores, files) EXCEPT ![ObjectsOf(semaphores)[w]] = 0]
        /\ DOMAIN WaitedInMemory(w) = DOMAIN semaphores
        /\ \A t \in DOMAIN semaphores : WaitedInMemory(w)[t].file = semaphores[t].file
    <3>1. w \in DOMAIN semaphores
      BY <1>5
    <3>2. files = WithFile(files, w, record) /\ WaitedInMemory(w) = WithRecord(semaphores, w, record)
      BY <2>1, <2>2, <2>3 DEF WithFile, WithRecord
    <3> QED BY <1>1, <1>5, <2>3, <3>1, <3>2, SetsPayload
  <2> QED BY <1>2, <1>5, <2>4 DEF Waited
<1> QED BY <1>3, <1>4, <1>5

\* What completeQueueSubmitSynchronizationLocked does to one, file or not.
LEMMA WaitsExactly ==
  ASSUME SemaphoreInv, NEW w \in DOMAIN semaphores,
         NEW S1, S1 = [semaphores EXCEPT ![w] = WaitedRecord(w, Refreshed(w, semaphores[w]))],
         NEW F1, F1 = SyncedFiles(w, S1[w])
  PROVE  Waited(w, S1, F1)
<1> USE QueueAssumption
<1> DEFINE record == WaitedRecord(w, Refreshed(w, semaphores[w]))
<1>1. SemaphoreInvOf(semaphores, files) /\ IsTable(semaphores, Semaphores, SemaphoreStates)
      /\ IsTable(files, Files, 0 .. MaxValue)
  BY DEF SemaphoreInv, SemaphoreInvOf
<1>2. /\ w \in Semaphores /\ semaphores[w] \in SemaphoreStates
      /\ semaphores[w].file # None => files[semaphores[w].file] \in 0 .. MaxValue
      /\ w \in Timelines /\ semaphores[w].file # None
           => semaphores[w].value <= files[semaphores[w].file]
  BY <1>1 DEF SemaphoreInvOf, IsTable
<1>3. semaphores[w].value \in 0 .. MaxValue /\ semaphores[w].file \in Files \cup {None}
      /\ semaphores[w].signaled \in BOOLEAN
  BY <1>2 DEF SemaphoreStates
<1>4. S1[w] = record
  BY <1>1 DEF IsTable
<1>5. CASE w \in Timelines
  <2>1. record = IF semaphores[w].file = None THEN semaphores[w]
                 ELSE [semaphores[w] EXCEPT !.value = files[semaphores[w].file],
                                            !.signaled = files[semaphores[w].file] # 0]
    <3>1. semaphores[w].file # None
            => Larger(semaphores[w].value, files[semaphores[w].file]) = files[semaphores[w].file]
      BY <1>2, <1>3, <1>5 DEF Larger
    <3>2. record = Refreshed(w, semaphores[w])
      BY <1>5 DEF WaitedRecord
    <3> HIDE DEF record
    <3>3. CASE semaphores[w].file = None
      BY <3>2, <3>3 DEF Refreshed
    <3>4. CASE semaphores[w].file # None
      BY <1>5, <3>1, <3>2, <3>4 DEF Refreshed
    <3> QED BY <3>3, <3>4
  <2>2. /\ record \in SemaphoreStates /\ record.file = semaphores[w].file
        /\ record.value = PayloadsOf(semaphores, files)[ObjectsOf(semaphores)[w]]
        /\ record.value \in 0 .. MaxValue
    <3>1. PayloadsOf(semaphores, files)[ObjectsOf(semaphores)[w]]
            = IF semaphores[w].file = None THEN semaphores[w].value
              ELSE files[semaphores[w].file]
      BY <1>1, <1>5, PayloadFound DEF RecordedOf
    <3>2. \A r \in SemaphoreStates, x \in 0 .. MaxValue :
            LET q == [r EXCEPT !.value = x, !.signaled = x # 0]
            IN  q \in SemaphoreStates /\ q.file = r.file /\ q.value = x
      BY DEF SemaphoreStates
    <3> HIDE DEF record
    <3>3. CASE semaphores[w].file = None
      BY <1>2, <1>3, <2>1, <3>1, <3>3
    <3>4. CASE semaphores[w].file # None
      <4> DEFINE x == files[semaphores[w].file]
      <4>1. x \in 0 .. MaxValue /\ semaphores[w] \in SemaphoreStates
        BY <1>2, <3>4
      <4>2. record = [semaphores[w] EXCEPT !.value = x, !.signaled = x # 0]
        BY <2>1, <3>4
      <4>3. PayloadsOf(semaphores, files)[ObjectsOf(semaphores)[w]] = x
        BY <3>1, <3>4
      <4>4. record \in SemaphoreStates /\ record.file = semaphores[w].file /\ record.value = x
        BY ONLY <3>2, <4>1, <4>2
      <4> QED BY <4>1, <4>3, <4>4
    <3> QED BY <3>3, <3>4
  <2>3. F1 = WithFile(files, w, record)
    BY <1>4, <1>5 DEF SyncedFiles, WithFile, RecordedOf
  <2>4. RecordedOf(w, record) = record.value
    BY <1>5 DEF RecordedOf
  <2>5. record.value >= PayloadsOf(semaphores, files)[ObjectsOf(semaphores)[w]]
    BY <2>2
  <2>6. S1 = WithRecord(semaphores, w, record)
    BY DEF WithRecord
  <2> HIDE DEF record
  <2>7. /\ SemaphoreInvOf(S1, F1)
        /\ ObjectsOf(S1) = ObjectsOf(semaphores)
        /\ PayloadsOf(S1, F1)
             = [PayloadsOf(semaphores, files) EXCEPT ![ObjectsOf(semaphores)[w]] = record.value]
        /\ DOMAIN S1 = DOMAIN semaphores
        /\ \A t \in DOMAIN semaphores : S1[t].file = semaphores[t].file
        /\ Grown(semaphores, files, F1)
    BY ONLY <1>1, <2>2, <2>3, <2>4, <2>5, <2>6, w \in DOMAIN semaphores, SetsRecord
  <2>8. PayloadsOf(S1, F1) = PayloadsOf(semaphores, files)
    <3> DEFINE P == PayloadsOf(semaphores, files)
               o == ObjectsOf(semaphores)[w]
    <3>1. P = [p \in DOMAIN P |-> P[p]]
      BY DEF PayloadsOf
    <3>2. PayloadsOf(S1, F1) = [P EXCEPT ![o] = P[o]]
      BY <2>2, <2>7
    <3> HIDE DEF P, o
    <3>3. PayloadsOf(S1, F1) = P
      BY <3>1, <3>2
    <3> QED BY <3>3 DEF P
  <2> QED BY <1>5, <2>7, <2>8 DEF Waited
<1>6. CASE w \notin Timelines
  <2>1. /\ record \in SemaphoreStates /\ record.file = semaphores[w].file
        /\ RecordedOf(w, record) = 0 /\ record.signaled = FALSE
    BY <1>2, <1>6 DEF WaitedRecord, Refreshed, SemaphoreStates, RecordedOf
  <2>2. F1 = WithFile(files, w, record)
    BY <1>4, <1>6, <2>1 DEF SyncedFiles, WithFile, RecordedOf
  <2>3. S1 = WithRecord(semaphores, w, record)
    BY DEF WithRecord
  <2> HIDE DEF record
  <2>4. /\ SemaphoreInvOf(S1, F1)
        /\ ObjectsOf(S1) = ObjectsOf(semaphores)
        /\ PayloadsOf(S1, F1)
             = [PayloadsOf(semaphores, files) EXCEPT ![ObjectsOf(semaphores)[w]] = 0]
        /\ DOMAIN S1 = DOMAIN semaphores
        /\ \A t \in DOMAIN semaphores : S1[t].file = semaphores[t].file
        /\ Grown(semaphores, files, F1)
    BY ONLY <1>1, <1>6, <2>1, <2>2, <2>3, w \in DOMAIN semaphores, SetsRecord
  <2> QED BY <1>2, <1>6, <2>4 DEF Waited
<1> QED BY <1>5, <1>6

\* A semaphore's payload is the one its object has.
LEMMA PayloadOfObject ==
  ASSUME SemaphoreInv, NEW s \in DOMAIN semaphores
  PROVE  /\ Payload(s) = PayloadsOf(semaphores, files)[ObjectsOf(semaphores)[s]]
         /\ ObjectsOf(semaphores)[s] \in DOMAIN PayloadsOf(semaphores, files)
         /\ Payload(s) \in Int
         /\ s \in Timelines => semaphores[s].value <= Payload(s)
<1>1. Payload(s) = IF semaphores[s].file # None THEN files[semaphores[s].file]
                   ELSE RecordedOf(s, semaphores[s])
  BY OfTheSemaphores DEF Payload, Shared
<1> QED BY <1>1, PayloadFound DEF SemaphoreInv

\* A wait leaves every timeline's payload alone.
LEMMA WaitKeepsTimelines ==
  ASSUME SemaphoreInv, NEW w \in Semaphores \cup {None}, w # None => w \in DOMAIN semaphores,
         NEW g \in DOMAIN semaphores, g \in Timelines,
         NEW S1, NEW F1, Waited(w, S1, F1)
  PROVE  PayloadsOf(S1, F1)[ObjectsOf(semaphores)[g]] = Payload(g)
<1> USE QueueAssumption
<1> DEFINE P == PayloadsOf(semaphores, files)
           O == ObjectsOf(semaphores)
<1>1. /\ IsTable(semaphores, Semaphores, SemaphoreStates)
      /\ \A s, t \in DOMAIN semaphores :
           semaphores[s].file # None /\ semaphores[s].file = semaphores[t].file
             => (s \in Timelines <=> t \in Timelines)
      /\ PayloadsOf(S1, F1) = IF w \in {None} \cup Timelines THEN P ELSE [P EXCEPT ![O[w]] = 0]
  BY DEF Waited, SemaphoreInv, SemaphoreInvOf
<1>2. P[O[g]] = Payload(g) /\ O[g] \in DOMAIN P
  BY PayloadOfObject
<1>3. CASE w \in {None} \cup Timelines
  BY <1>1, <1>2, <1>3
<1>4. CASE w \notin {None} \cup Timelines
  <2>1. \A s \in DOMAIN semaphores :
          /\ O[s] = IF semaphores[s].file # None THEN semaphores[s].file ELSE s
          /\ s \in Semaphores /\ semaphores[s].file # None => semaphores[s].file \in Files
    BY <1>1 DEF ObjectsOf, IsTable, SemaphoreStates
  <2>2. O[g] # O[w]
    BY <1>1, <1>4, <2>1
  <2> QED BY <1>1, <1>2, <1>4, <2>2
<1> QED BY <1>3, <1>4

\* A submit that waited on w as it must signals g: an ideal submit.
LEMMA Signals ==
  ASSUME SemaphoreInv, NEW w \in Semaphores \cup {None}, NEW g \in Semaphores \cup {None},
         NEW v \in 1 .. MaxValue, {w, g} \ {None} \subseteq DOMAIN semaphores,
         w \notin Timelines \cup {None} => Payload(w) = 1,
         NEW S1, NEW F1, Waited(w, S1, F1),
         NEW record,
         g = None => semaphores' = S1 /\ files' = F1,
         g # None => /\ record \in SemaphoreStates /\ record.file = S1[g].file
                     /\ semaphores' = WithRecord(S1, g, record)
                     /\ files' = WithFile(F1, g, record),
         g \in Timelines => Payload(g) <= record.value /\ record.value <= v,
         g \notin Timelines \cup {None} => record.signaled = TRUE
  PROVE  IdealStep
<1> USE QueueAssumption
<1> DEFINE P == PayloadsOf(semaphores, files)
           O == ObjectsOf(semaphores)
           P1 == PayloadsOf(S1, F1)
<1>1. /\ SemaphoreInvOf(semaphores, files) /\ SemaphoreInvOf(S1, F1)
      /\ ObjectsOf(S1) = O /\ DOMAIN S1 = DOMAIN semaphores
      /\ \A t \in DOMAIN semaphores : S1[t].file = semaphores[t].file
      /\ Grown(semaphores, files, F1)
      /\ P1 = IF w \in {None} \cup Timelines THEN P ELSE [P EXCEPT ![O[w]] = 0]
  BY DEF Waited, SemaphoreInv
<1>2. /\ Objects = O /\ Objects' = ObjectsOf(semaphores')
      /\ Payloads = P /\ Payloads' = PayloadsOf(semaphores', files')
  BY OfTheSemaphores
<1>3. \A s \in DOMAIN semaphores : Payload(s) = P[O[s]] /\ O[s] \in DOMAIN P /\ P[O[s]] \in Int
  BY PayloadOfObject
<1>4. DOMAIN O = DOMAIN semaphores
  BY DEF ObjectsOf
<1>5. g \in Timelines => P1[O[g]] = P[O[g]]
  <2> SUFFICES ASSUME g \in Timelines PROVE P1[O[g]] = P[O[g]]
    OBVIOUS
  <2>1. g \in DOMAIN semaphores /\ (w # None => w \in DOMAIN semaphores)
    OBVIOUS
  <2> HIDE DEF P, O, P1
  <2>2. PayloadsOf(S1, F1)[ObjectsOf(semaphores)[g]] = Payload(g)
    BY <2>1, WaitKeepsTimelines
  <2> QED BY <1>3, <2>1, <2>2 DEF P1, O
<1>6. g # None =>
        /\ SemaphoreInvOf(semaphores', files')
        /\ ObjectsOf(semaphores') = O
        /\ PayloadsOf(semaphores', files') = [P1 EXCEPT ![O[g]] = RecordedOf(g, record)]
        /\ Grown(S1, F1, files')
        /\ \A t \in DOMAIN semaphores : semaphores'[t].file = semaphores[t].file
  <2> SUFFICES ASSUME g # None
               PROVE  /\ SemaphoreInvOf(semaphores', files')
                      /\ ObjectsOf(semaphores') = O
                      /\ PayloadsOf(semaphores', files') = [P1 EXCEPT ![O[g]] = RecordedOf(g, record)]
                      /\ Grown(S1, F1, files')
                      /\ \A t \in DOMAIN semaphores : semaphores'[t].file = semaphores[t].file
    OBVIOUS
  <2>1. g \in DOMAIN S1 /\ record \in SemaphoreStates /\ record.file = S1[g].file
    BY <1>1
  <2>2. g \in Timelines => record.value >= PayloadsOf(S1, F1)[ObjectsOf(S1)[g]]
    <3> SUFFICES ASSUME g \in Timelines PROVE record.value >= P1[O[g]]
      BY <1>1
    <3>1. Payload(g) <= record.value /\ P1[O[g]] = Payload(g) /\ Payload(g) \in Int
      BY <1>1, <1>3, <1>5, <2>1
    <3>2. record.value \in Int
      BY <2>1 DEF SemaphoreStates
    <3> HIDE DEF P1, O
    <3> QED BY <3>1, <3>2
  <2> DEFINE S2 == WithRecord(S1, g, record)
             F2 == WithFile(F1, g, record)
  <2>3. /\ SemaphoreInvOf(S2, F2)
        /\ ObjectsOf(S2) = ObjectsOf(S1)
        /\ PayloadsOf(S2, F2) = [PayloadsOf(S1, F1) EXCEPT ![ObjectsOf(S1)[g]] = RecordedOf(g, record)]
        /\ DOMAIN S2 = DOMAIN S1 /\ \A t \in DOMAIN S1 : S2[t].file = S1[t].file
        /\ Grown(S1, F1, F2)
    BY ONLY <1>1, <2>1, <2>2, SetsPayload
  <2>4. semaphores' = S2 /\ files' = F2
    OBVIOUS
  <2> HIDE DEF S2, F2
  <2> QED BY <1>1, <2>3, <2>4
<1>7. /\ SemaphoreInv' /\ Objects' = O
      /\ Payloads' = IF g = None THEN P1 ELSE [P1 EXCEPT ![O[g]] = RecordedOf(g, record)]
  <2>1. SemaphoreInvOf(semaphores', files')
    BY <1>1, <1>6
  <2>2. ObjectsOf(semaphores') = O
    BY <1>1, <1>6
  <2>3. Payloads' = IF g = None THEN P1 ELSE [P1 EXCEPT ![O[g]] = RecordedOf(g, record)]
    BY <1>2, <1>6
  <2> QED BY <1>2, <2>1, <2>2, <2>3 DEF SemaphoreInv
<1>8. Grows
  <2> SUFFICES ASSUME NEW s \in DOMAIN semaphores \cap DOMAIN semaphores',
                      s \in Timelines, Shared(s),
                      semaphores'[s].file = semaphores[s].file
               PROVE  files'[semaphores[s].file] >= files[semaphores[s].file]
    BY DEF Grows
  <2>1. F1[semaphores[s].file] >= files[semaphores[s].file]
    BY <1>1 DEF Grown, Shared
  <2>2. CASE g = None
    BY <2>1, <2>2
  <2>3. CASE g # None
    <3>1. files'[semaphores[s].file] >= F1[semaphores[s].file]
      BY <1>1, <1>6, <2>3 DEF Grown, Shared
    <3>2. files[semaphores[s].file] \in Int /\ F1[semaphores[s].file] \in Int
      BY <1>1 DEF SemaphoreInvOf, IsTable, Shared
    <3>3. files'[semaphores[s].file] \in Int
      BY <1>1, <1>6, <2>3 DEF SemaphoreInvOf, IsTable, Shared
    <3> QED BY <2>1, <3>1, <3>2, <3>3
  <2> QED BY <2>2, <2>3
<1>9. Ideal!Next
  <2> DEFINE w0 == IF w \in Timelines THEN None ELSE w
  <2>1. /\ w0 \in Semaphores \cup {None} /\ {w0, g} \ {None} \subseteq DOMAIN O
        /\ w0 # None => w0 \notin Timelines /\ P[O[w0]] = 1
    BY <1>3, <1>4
  <2>2. P1 = IF w0 = None THEN P ELSE [P EXCEPT ![O[w0]] = 0]
    BY <1>1
  <2>3. g \in Timelines => RecordedOf(g, record) \in P[O[g]] .. v
    <3> SUFFICES ASSUME g \in Timelines PROVE RecordedOf(g, record) \in P[O[g]] .. v
      OBVIOUS
    <3>1. RecordedOf(g, record) = record.value /\ record.value \in Int
      BY DEF RecordedOf, SemaphoreStates
    <3>2. Payload(g) = P[O[g]] /\ P[O[g]] \in Int
      BY <1>3
    <3> HIDE DEF P, O
    <3> QED BY <3>1, <3>2
  <2>4. g \notin Timelines \cup {None} => RecordedOf(g, record) = 1
    BY DEF RecordedOf
  <2> HIDE DEF P, P1, O, w0
  <2>5. Ideal!Submit(w0, g, v)
    BY <1>2, <1>7, <2>1, <2>2, <2>3, <2>4 DEF Ideal!Submit, Ideal!Consumed, Ideal!None, None
  <2> QED BY <2>1, <2>5 DEF Ideal!Next, Ideal!None, None
<1> QED BY <1>7, <1>8, <1>9 DEF IdealStep

\* A step that is about fences only.
LEMMA LeavesSemaphores ==
  ASSUME SemaphoreInv, UNCHANGED <<semaphores, files>>
  PROVE  IdealStep
<1>1. UNCHANGED <<Objects, Payloads>>
  BY OfTheSemaphores
<1>2. Grows
  BY DEF Grows, Shared, SemaphoreInv, SemaphoreInvOf, IsTable
<1> QED BY <1>1, <1>2 DEF IdealStep, SemaphoreInv

\* Creation, destruction, and the descriptors of files.
LEMMA LifetimeSteps ==
  ASSUME SemaphoreInv, Interop = {}, NEW s \in Semaphores
  PROVE  /\ \A v \in 0 .. MaxValue : CreateSemaphore(s, v) => IdealStep
         /\ DestroySemaphore(s) => IdealStep
         /\ RefreshSemaphore(s) => IdealStep
         /\ \A f \in Files : GetSemaphoreFd(s, f) => IdealStep
         /\ \A f \in Files : ImportSemaphoreFd(s, f) => IdealStep
<1> USE QueueAssumption
<1>1. /\ IsTable(semaphores, Semaphores, SemaphoreStates) /\ IsTable(files, Files, 0 .. MaxValue)
      /\ \A t \in DOMAIN semaphores : semaphores[t].file # None => semaphores[t].file \in DOMAIN files
      /\ \A t \in DOMAIN semaphores : t \in Timelines /\ semaphores[t].file # None
           => semaphores[t].value <= files[semaphores[t].file]
      /\ \A t \in DOMAIN semaphores : t \notin Timelines /\ semaphores[t].file # None
           => files[semaphores[t].file] \in {0, 1}
      /\ \A t, u \in DOMAIN semaphores :
           semaphores[t].file # None /\ semaphores[t].file = semaphores[u].file
             => (t \in Timelines <=> u \in Timelines)
  BY DEF SemaphoreInv, SemaphoreInvOf
<1>2. /\ DOMAIN semaphores \subseteq Semaphores /\ DOMAIN files \subseteq Files
      /\ \A t \in DOMAIN semaphores : semaphores[t] \in SemaphoreStates
      /\ \A f \in DOMAIN files : files[f] \in 0 .. MaxValue /\ files[f] >= files[f]
  BY <1>1 DEF IsTable
<1>3. ASSUME NEW v \in 0 .. MaxValue, CreateSemaphore(s, v) PROVE IdealStep
  <2> DEFINE record == [signaled |-> v # 0, value |-> v, file |-> None]
  <2>1. /\ semaphores' = Put(semaphores, s, record) /\ files' = files
        /\ s \notin DOMAIN semaphores /\ (v = 0 \/ s \in Timelines)
    BY <1>3 DEF CreateSemaphore
  <2>2. record \in SemaphoreStates /\ record.file = None /\ RecordedOf(s, record) = v
    BY <2>1 DEF SemaphoreStates, RecordedOf
  <2> HIDE DEF record
  <2>3. /\ DOMAIN semaphores' = DOMAIN semaphores \cup {s} /\ semaphores'[s] = record
        /\ \A t \in DOMAIN semaphores : semaphores'[t] = semaphores[t]
    BY <2>1 DEF Put
  <2>4. SemaphoreInv'
    <3>1. IsTable(semaphores', Semaphores, SemaphoreStates)
      BY <1>1, <2>1, <2>2 DEF IsTable, Put
    <3> QED BY <1>1, <2>1, <2>2, <2>3, <3>1 DEF SemaphoreInv, SemaphoreInvOf
  <2>5. Grows
    BY <1>1, <1>2, <2>1 DEF Grows, Shared
  <2>6. Objects' = Put(Objects, s, s)
    BY <2>2, <2>3, OfTheSemaphores DEF ObjectsOf, Put
  <2>7. Payloads' = Put(Payloads, s, v)
    <3>1. {t \in DOMAIN semaphores' : semaphores'[t].file = None}
            = {t \in DOMAIN semaphores : semaphores[t].file = None} \cup {s}
      BY <2>2, <2>3
    <3>2. s \notin DOMAIN files
      BY <1>2
    <3> QED BY <2>1, <2>2, <2>3, <3>1, <3>2, OfTheSemaphores DEF PayloadsOf, Put
  <2>8. Ideal!Create(s, v)
    BY <2>1, <2>6, <2>7, OfTheSemaphores DEF Ideal!Create, ObjectsOf, Ideal!Put, Put
  <2> QED BY <2>4, <2>5, <2>8 DEF IdealStep, Ideal!Next
<1>4. ASSUME DestroySemaphore(s) PROVE IdealStep
  <2>1. /\ semaphores' = Drop(semaphores, s) /\ files' = files /\ s \in DOMAIN semaphores
    BY <1>4 DEF DestroySemaphore
  <2>2. /\ DOMAIN semaphores' = DOMAIN semaphores \ {s}
        /\ \A t \in DOMAIN semaphores \ {s} : semaphores'[t] = semaphores[t]
    BY <2>1 DEF Drop
  <2>3. SemaphoreInv'
    <3>1. IsTable(semaphores', Semaphores, SemaphoreStates)
      BY <1>1, <2>1 DEF IsTable, Drop
    <3> QED BY <1>1, <2>1, <2>2, <3>1 DEF SemaphoreInv, SemaphoreInvOf
  <2>4. Grows
    BY <1>1, <1>2, <2>1 DEF Grows, Shared
  <2>5. Objects' = Drop(Objects, s)
    BY <2>2, OfTheSemaphores DEF ObjectsOf, Drop
  <2>6. Payloads' = Drop(Payloads, s)
    <3>1. {t \in DOMAIN semaphores' : semaphores'[t].file = None}
            = {t \in DOMAIN semaphores : semaphores[t].file = None} \ {s}
      BY <2>2
    <3>2. s \notin DOMAIN files
      BY <1>2
    <3> QED BY <2>1, <2>2, <3>1, <3>2, OfTheSemaphores DEF PayloadsOf, Drop
  <2>7. Ideal!Destroy(s)
    BY <2>1, <2>5, <2>6, OfTheSemaphores DEF Ideal!Destroy, ObjectsOf, Ideal!Drop, Drop
  <2> QED BY <2>3, <2>4, <2>7 DEF IdealStep, Ideal!Next
<1>5. ASSUME NEW t \in DOMAIN semaphores, semaphores[t].file # None
      PROVE  /\ Refreshed(t, semaphores[t]) \in SemaphoreStates
             /\ Refreshed(t, semaphores[t]).file = semaphores[t].file
             /\ t \in Timelines => Refreshed(t, semaphores[t]).value = files[semaphores[t].file]
  <2>1. /\ semaphores[t] \in SemaphoreStates /\ files[semaphores[t].file] \in 0 .. MaxValue
        /\ semaphores[t].value \in 0 .. MaxValue
    BY <1>1, <1>2, <1>5 DEF SemaphoreStates
  <2>2. CASE t \in Timelines
    <3>1. Larger(semaphores[t].value, files[semaphores[t].file]) = files[semaphores[t].file]
      BY <1>1, <1>5, <2>1, <2>2 DEF Larger
    <3>2. Refreshed(t, semaphores[t])
            = [semaphores[t] EXCEPT !.value = files[semaphores[t].file],
                                    !.signaled = files[semaphores[t].file] # 0]
      BY <1>5, <2>2, <3>1 DEF Refreshed
    <3>3. \A r \in SemaphoreStates, x \in 0 .. MaxValue :
            LET q == [r EXCEPT !.value = x, !.signaled = x # 0]
            IN  q \in SemaphoreStates /\ q.file = r.file /\ q.value = x
      BY DEF SemaphoreStates
    <3> DEFINE r == semaphores[t]
               x == files[r.file]
    <3>4. LET q == [r EXCEPT !.value = x, !.signaled = x # 0]
          IN  q \in SemaphoreStates /\ q.file = r.file /\ q.value = x
      <4> HIDE DEF r
      <4>1. r \in SemaphoreStates /\ x \in 0 .. MaxValue
        BY <2>1 DEF r
      <4> HIDE DEF x
      <4> QED BY ONLY <3>3, <4>1
    <3> QED BY <3>2, <3>4
  <2>3. CASE t \notin Timelines
    <3>1. Refreshed(t, semaphores[t])
            = [semaphores[t] EXCEPT !.signaled = files[semaphores[t].file] # 0]
      BY <1>5, <2>3 DEF Refreshed
    <3>2. \A r \in SemaphoreStates, x \in BOOLEAN :
            LET q == [r EXCEPT !.signaled = x]
            IN  q \in SemaphoreStates /\ q.file = r.file
      BY DEF SemaphoreStates
    <3>3. (files[semaphores[t].file] # 0) \in BOOLEAN
      OBVIOUS
    <3> QED BY ONLY <2>1, <2>3, <3>1, <3>2, <3>3
  <2> QED BY <2>2, <2>3
<1>6. ASSUME RefreshSemaphore(s) PROVE IdealStep
  <2> DEFINE record == Refreshed(s, semaphores[s])
  <2>1. /\ semaphores' = [semaphores EXCEPT ![s] = record] /\ files' = files
        /\ s \in DOMAIN semaphores /\ semaphores[s].file # None
    BY <1>6 DEF RefreshSemaphore, Shared
  <2>2. /\ record \in SemaphoreStates /\ record.file = semaphores[s].file
        /\ s \in Timelines => record.value = files[semaphores[s].file]
    BY <1>5, <2>1
  <2> HIDE DEF record
  <2>3. /\ DOMAIN semaphores' = DOMAIN semaphores /\ semaphores'[s] = record
        /\ \A t \in DOMAIN semaphores \ {s} : semaphores'[t] = semaphores[t]
        /\ \A t \in DOMAIN semaphores : semaphores'[t].file = semaphores[t].file
        /\ IsTable(semaphores', Semaphores, SemaphoreStates)
    BY <1>1, <2>1, <2>2 DEF IsTable
  <2>4. SemaphoreInv'
    BY <1>1, <1>2, <2>1, <2>2, <2>3 DEF SemaphoreInv, SemaphoreInvOf
  <2>5. Grows
    BY <1>1, <1>2, <2>1 DEF Grows, Shared
  <2>6. Objects' = Objects
    BY <2>3, OfTheSemaphores DEF ObjectsOf
  <2>7. Payloads' = Payloads
    <3>1. {t \in DOMAIN semaphores' : semaphores'[t].file = None}
            = {t \in DOMAIN semaphores : semaphores[t].file = None}
      BY <2>3
    <3>2. \A t \in DOMAIN semaphores : semaphores[t].file = None => semaphores'[t] = semaphores[t]
      BY <2>1, <2>3
    <3> QED BY <2>1, <3>1, <3>2, OfTheSemaphores DEF PayloadsOf
  <2> QED BY <2>4, <2>5, <2>6, <2>7 DEF IdealStep
<1>7. ASSUME NEW f \in Files, GetSemaphoreFd(s, f) PROVE IdealStep
  <2> DEFINE record == [semaphores[s] EXCEPT !.file = f]
             x == RecordedOf(s, semaphores[s])
  <2>1. /\ semaphores' = [semaphores EXCEPT ![s] = record]
        /\ files' = Put(files, f, x) /\ f \notin DOMAIN files
        /\ s \in DOMAIN semaphores /\ semaphores[s].file = None
    BY <1>7, OfTheSemaphores DEF GetSemaphoreFd, Shared
  <2>2. /\ semaphores[s] \in SemaphoreStates
        /\ record \in SemaphoreStates /\ record.file = f
        /\ record.value = semaphores[s].value
    BY <1>2, <2>1 DEF SemaphoreStates
  <2>3. /\ x \in 0 .. MaxValue
        /\ s \in Timelines => x = record.value
        /\ s \notin Timelines => x \in {0, 1}
    BY <2>2 DEF RecordedOf, SemaphoreStates
  <2> HIDE DEF record, x
  <2>4. /\ DOMAIN semaphores' = DOMAIN semaphores /\ semaphores'[s] = record
        /\ \A t \in DOMAIN semaphores \ {s} : semaphores'[t] = semaphores[t]
        /\ IsTable(semaphores', Semaphores, SemaphoreStates)
    BY <1>1, <2>1, <2>2 DEF IsTable
  <2>5. /\ DOMAIN files' = DOMAIN files \cup {f} /\ files'[f] = x
        /\ \A g \in DOMAIN files : files'[g] = files[g]
        /\ IsTable(files', Files, 0 .. MaxValue)
    BY <1>1, <2>1, <2>3 DEF IsTable, Put
  <2>6. \A t \in DOMAIN semaphores \ {s} : semaphores[t].file # f
    BY <1>1, <2>1
  <2>7. SemaphoreInv'
    <3>1. \A t \in DOMAIN semaphores : semaphores'[t].file # None
            => semaphores'[t].file \in DOMAIN files'
      BY <1>1, <2>2, <2>4, <2>5
    <3>2. \A t \in DOMAIN semaphores : t \in Timelines /\ semaphores'[t].file # None
            => semaphores'[t].value <= files'[semaphores'[t].file]
      <4>1. x \in Int
        BY <2>3
      <4> QED BY <1>1, <2>2, <2>3, <2>4, <2>5, <4>1
    <3>3. \A t \in DOMAIN semaphores : t \notin Timelines /\ semaphores'[t].file # None
            => files'[semaphores'[t].file] \in {0, 1}
      BY <1>1, <2>2, <2>3, <2>4, <2>5
    <3>4. \A t, u \in DOMAIN semaphores :
            semaphores'[t].file # None /\ semaphores'[t].file = semaphores'[u].file
              => (t \in Timelines <=> u \in Timelines)
      BY <1>1, <2>2, <2>4, <2>6
    <3> QED BY <2>4, <2>5, <3>1, <3>2, <3>3, <3>4 DEF SemaphoreInv, SemaphoreInvOf
  <2>8. Grows
    BY <1>1, <1>2, <2>5 DEF Grows, Shared
  <2>9. Objects' = [Objects EXCEPT ![s] = f] /\ Objects[s] = s
    BY <2>1, <2>2, <2>4, OfTheSemaphores DEF ObjectsOf
  <2>10. /\ Payloads' = Put(Drop(Payloads, s), f, Payloads[s]) /\ f \notin DOMAIN Payloads
    <3>1. {t \in DOMAIN semaphores' : semaphores'[t].file = None}
            = {t \in DOMAIN semaphores : semaphores[t].file = None} \ {s}
      BY <2>2, <2>4
    <3>2. s \notin DOMAIN files /\ f \notin DOMAIN semaphores /\ s # f
      BY <1>2
    <3>3. DOMAIN Payloads = DOMAIN files \cup {t \in DOMAIN semaphores : semaphores[t].file = None}
      BY OfTheSemaphores DEF PayloadsOf
    <3>4. Payloads[s] = x
      BY <2>1, <3>2, OfTheSemaphores DEF PayloadsOf, x
    <3>5. f \notin DOMAIN Payloads
      BY <2>1, <3>2, <3>3
    <3>6. DOMAIN Payloads' = (DOMAIN Payloads \ {s}) \cup {f}
      BY <2>5, <3>1, <3>2, <3>3, OfTheSemaphores DEF PayloadsOf
    <3>7. \A o \in DOMAIN Payloads \ {s} : Payloads'[o] = Payloads[o]
      <4> SUFFICES ASSUME NEW o \in DOMAIN Payloads \ {s} PROVE Payloads'[o] = Payloads[o]
        OBVIOUS
      <4>1. o \in DOMAIN Payloads' /\ o # f
        BY <3>5, <3>6
      <4>2. CASE o \in DOMAIN files
        BY <2>5, <3>1, <3>3, <4>1, <4>2, OfTheSemaphores DEF PayloadsOf
      <4>3. CASE o \notin DOMAIN files
        <5>1. o \in DOMAIN semaphores \ {s} /\ semaphores[o].file = None
          BY <3>3, <4>3
        <5>2. o \notin DOMAIN files' /\ semaphores'[o] = semaphores[o]
          BY <2>4, <2>5, <4>1, <4>3, <5>1
        <5> QED BY <2>4, <4>3, <5>1, <5>2, OfTheSemaphores DEF PayloadsOf
      <4> QED BY <4>2, <4>3
    <3>8. Payloads'[f] = x
      BY <2>5, OfTheSemaphores DEF PayloadsOf
    <3>9. Payloads' = [o \in DOMAIN Payloads' |-> Payloads'[o]]
      BY OfTheSemaphores DEF PayloadsOf
    <3> QED BY <3>4, <3>5, <3>6, <3>7, <3>8, <3>9 DEF Put, Drop
  <2>11. Ideal!Export(s, f)
    BY <2>1, <2>9, <2>10, OfTheSemaphores
       DEF Ideal!Export, Ideal!Put, Ideal!Drop, Put, Drop, ObjectsOf
  <2> QED BY <2>7, <2>8, <2>11 DEF IdealStep, Ideal!Next
<1>8. ASSUME NEW f \in Files, ImportSemaphoreFd(s, f) PROVE IdealStep
  <2> DEFINE r == [semaphores[s] EXCEPT !.file = f]
             record == Refreshed(s, r)
  <2>1. /\ semaphores' = [semaphores EXCEPT ![s] = record] /\ files' = files
        /\ s \in DOMAIN semaphores /\ f \in DOMAIN files
        /\ s \in Timelines => Recorded(s) <= files[f]
    BY <1>8 DEF ImportSemaphoreFd
  <2>2. PICK t \in DOMAIN semaphores : semaphores[t].file = f /\ (s \in Timelines <=> t \in Timelines)
    BY <1>8 DEF ImportSemaphoreFd, SameKind
  <2>3. /\ r \in SemaphoreStates /\ r.file = f /\ r.value = semaphores[s].value
        /\ r.file # None /\ files[f] \in 0 .. MaxValue
    BY <1>2, <2>1 DEF SemaphoreStates
  <2>4. s \in Timelines => r.value <= files[f]
    BY <2>1, <2>3, OfTheSemaphores DEF RecordedOf
  <2> HIDE DEF r
  <2>5. /\ record \in SemaphoreStates /\ record.file = f
        /\ s \in Timelines => record.value = files[f]
    <3>1. CASE s \in Timelines
      <4>1. Larger(r.value, files[f]) = files[f]
        BY <2>3, <2>4, <3>1 DEF Larger, SemaphoreStates
      <4>2. record = [r EXCEPT !.value = files[f], !.signaled = files[f] # 0]
        BY <2>3, <3>1, <4>1 DEF Refreshed
      <4>3. \A q \in SemaphoreStates, x \in 0 .. MaxValue :
              LET p == [q EXCEPT !.value = x, !.signaled = x # 0]
              IN  p \in SemaphoreStates /\ p.file = q.file /\ p.value = x
        BY DEF SemaphoreStates
      <4> HIDE DEF record
      <4> QED BY ONLY <2>3, <4>2, <4>3
    <3>2. CASE s \notin Timelines
      <4>1. record = [r EXCEPT !.signaled = files[f] # 0]
        BY <2>3, <3>2 DEF Refreshed
      <4>2. \A q \in SemaphoreStates, x \in BOOLEAN :
              LET p == [q EXCEPT !.signaled = x]
              IN  p \in SemaphoreStates /\ p.file = q.file
        BY DEF SemaphoreStates
      <4>3. (files[f] # 0) \in BOOLEAN
        OBVIOUS
      <4> HIDE DEF record
      <4> QED BY ONLY <2>3, <3>2, <4>1, <4>2, <4>3
    <3> QED BY <3>1, <3>2
  <2> HIDE DEF record
  <2>6. /\ DOMAIN semaphores' = DOMAIN semaphores /\ semaphores'[s] = record
        /\ \A u \in DOMAIN semaphores \ {s} : semaphores'[u] = semaphores[u]
        /\ IsTable(semaphores', Semaphores, SemaphoreStates)
    BY <1>1, <2>1, <2>5 DEF IsTable
  <2>7. SemaphoreInv'
    <3>1. \A u \in DOMAIN semaphores : semaphores'[u].file # None
            => semaphores'[u].file \in DOMAIN files
      BY <1>1, <2>1, <2>5, <2>6
    <3>2. \A u \in DOMAIN semaphores : u \in Timelines /\ semaphores'[u].file # None
            => semaphores'[u].value <= files[semaphores'[u].file]
      BY <1>1, <2>3, <2>5, <2>6
    <3>3. \A u \in DOMAIN semaphores : u \notin Timelines /\ semaphores'[u].file # None
            => files[semaphores'[u].file] \in {0, 1}
      BY <1>1, <2>2, <2>3, <2>5, <2>6
    <3>4. \A u, v \in DOMAIN semaphores :
            semaphores'[u].file # None /\ semaphores'[u].file = semaphores'[v].file
              => (u \in Timelines <=> v \in Timelines)
      BY <1>1, <2>2, <2>3, <2>5, <2>6
    <3> QED BY <1>1, <2>1, <2>6, <3>1, <3>2, <3>3, <3>4 DEF SemaphoreInv, SemaphoreInvOf
  <2>8. Grows
    BY <1>1, <1>2, <2>1 DEF Grows, Shared
  <2>9. Objects' = [Objects EXCEPT ![s] = f]
    BY <2>1, <2>3, <2>5, <2>6, OfTheSemaphores DEF ObjectsOf
  <2>10. Payloads' = Drop(Payloads, s)
    <3>1. {u \in DOMAIN semaphores' : semaphores'[u].file = None}
            = {u \in DOMAIN semaphores : semaphores[u].file = None} \ {s}
      BY <2>3, <2>5, <2>6
    <3>2. s \notin DOMAIN files
      BY <1>2
    <3>3. \A u \in DOMAIN semaphores \ {s} : semaphores'[u] = semaphores[u]
      BY <2>6
    <3> QED BY <2>1, <3>1, <3>2, <3>3, OfTheSemaphores DEF PayloadsOf, Drop
  <2>11. f \in DOMAIN Payloads /\ s \in DOMAIN Objects
    BY <2>1, OfTheSemaphores DEF PayloadsOf, ObjectsOf
  <2>12. Ideal!Import(s, f)
    BY <2>9, <2>10, <2>11 DEF Ideal!Import, Ideal!Drop, Drop
  <2> QED BY <2>7, <2>8, <2>12 DEF IdealStep, Ideal!Next
<1> QED BY <1>3, <1>4, <1>6, <1>7, <1>8

\* CUDA's side of a file.
LEMMA FileSteps ==
  ASSUME SemaphoreInv, NEW f \in Files
  PROVE  /\ \A v \in 1 .. MaxValue : CudaSignal(f, v) => IdealStep
         /\ CudaClose(f) => IdealStep
         /\ FileGone(f) => IdealStep
<1> USE QueueAssumption
<1>1. /\ IsTable(semaphores, Semaphores, SemaphoreStates) /\ IsTable(files, Files, 0 .. MaxValue)
      /\ \A t \in DOMAIN semaphores : semaphores[t].file # None => semaphores[t].file \in DOMAIN files
      /\ \A t \in DOMAIN semaphores : t \in Timelines /\ semaphores[t].file # None
           => semaphores[t].value <= files[semaphores[t].file]
      /\ \A t \in DOMAIN semaphores : t \notin Timelines /\ semaphores[t].file # None
           => files[semaphores[t].file] \in {0, 1}
      /\ \A t, u \in DOMAIN semaphores :
           semaphores[t].file # None /\ semaphores[t].file = semaphores[u].file
             => (t \in Timelines <=> u \in Timelines)
  BY DEF SemaphoreInv, SemaphoreInvOf
<1>2. /\ DOMAIN semaphores \subseteq Semaphores /\ DOMAIN files \subseteq Files
      /\ \A g \in DOMAIN files : files[g] \in 0 .. MaxValue
      /\ \A t \in DOMAIN semaphores : semaphores[t].value \in Int
  BY <1>1 DEF IsTable, SemaphoreStates
<1>3. ASSUME NEW v \in 1 .. MaxValue, CudaSignal(f, v) PROVE IdealStep
  <2>1. PICK t \in DOMAIN semaphores :
          semaphores[t].file = f /\ IF t \in Timelines THEN v > files[f] ELSE v = 1
    BY <1>3 DEF CudaSignal
  <2>2. /\ f \in DOMAIN files /\ v >= files[f]
        /\ files' = [files EXCEPT ![f] = v] /\ semaphores' = semaphores
    BY <1>1, <1>2, <1>3, <2>1 DEF CudaSignal
  <2>3. /\ DOMAIN files' = DOMAIN files /\ files'[f] = v
        /\ \A g \in DOMAIN files \ {f} : files'[g] = files[g]
        /\ \A g \in DOMAIN files : files'[g] >= files[g] /\ files'[g] \in Int
        /\ IsTable(files', Files, 0 .. MaxValue)
    BY <1>1, <1>2, <2>2 DEF IsTable
  <2>4. SemaphoreInv'
    <3>1. \A u \in DOMAIN semaphores : u \in Timelines /\ semaphores[u].file # None
            => semaphores[u].value <= files'[semaphores[u].file]
      BY <1>1, <1>2, <2>3
    <3>2. \A u \in DOMAIN semaphores : u \notin Timelines /\ semaphores[u].file # None
            => files'[semaphores[u].file] \in {0, 1}
      BY <1>1, <2>1, <2>2, <2>3
    <3> QED BY <1>1, <2>2, <2>3, <3>1, <3>2 DEF SemaphoreInv, SemaphoreInvOf
  <2>5. Grows
    BY <1>1, <2>2, <2>3 DEF Grows, Shared
  <2>6. Objects' = Objects
    BY <2>2, OfTheSemaphores
  <2>7. Payloads' = [Payloads EXCEPT ![f] = v]
    BY <2>2, <2>3, OfTheSemaphores DEF PayloadsOf
  <2>8. f \in DOMAIN Payloads /\ Payloads[f] = files[f]
    BY <2>2, OfTheSemaphores DEF PayloadsOf
  <2>9. Ideal!SignalFile(f, v)
    BY <2>2, <2>6, <2>7, <2>8 DEF Ideal!SignalFile
  <2> QED BY <2>4, <2>5, <2>9 DEF IdealStep, Ideal!Next
<1>4. ASSUME CudaClose(f) PROVE IdealStep
  BY <1>4, LeavesSemaphores DEF CudaClose
<1>5. ASSUME FileGone(f) PROVE IdealStep
  <2>1. /\ f \in DOMAIN files /\ files' = Drop(files, f) /\ semaphores' = semaphores
        /\ \A t \in DOMAIN semaphores : semaphores[t].file # f
    BY <1>5 DEF FileGone
  <2>2. /\ DOMAIN files' = DOMAIN files \ {f}
        /\ \A g \in DOMAIN files \ {f} : files'[g] = files[g]
        /\ IsTable(files', Files, 0 .. MaxValue)
    BY <1>1, <2>1 DEF IsTable, Drop
  <2>3. SemaphoreInv'
    BY <1>1, <2>1, <2>2 DEF SemaphoreInv, SemaphoreInvOf
  <2>4. Grows
    BY <1>1, <1>2, <2>1, <2>2 DEF Grows, Shared
  <2>5. Objects' = Objects /\ Payloads' = Drop(Payloads, f)
    <3>1. f \notin DOMAIN semaphores
      BY <1>2
    <3> QED BY <2>1, <2>2, <3>1, OfTheSemaphores DEF PayloadsOf, Drop
  <2>6. f \in DOMAIN Payloads /\ ~Ideal!InUse(f)
    <3>1. \A t \in DOMAIN semaphores : t # f
      BY <1>2
    <3> QED BY <2>1, <3>1, OfTheSemaphores DEF PayloadsOf, ObjectsOf, Ideal!InUse
  <2>7. Ideal!Forget(f)
    BY <2>5, <2>6 DEF Ideal!Forget, Ideal!Drop, Drop
  <2> QED BY <2>3, <2>4, <2>7 DEF IdealStep, Ideal!Next
<1> QED BY <1>3, <1>4, <1>5

\* A signal of Vulkan's host side, and every submit.
LEMMA SignalSteps ==
  ASSUME SemaphoreInv, Interop = {},
         NEW w \in Semaphores \cup {None}, NEW g \in Semaphores \cup {None}, NEW f,
         NEW v \in 1 .. MaxValue
  PROVE  /\ g # None /\ SignalSemaphore(g, v) => IdealStep
         /\ SubmitExact(w, g, v, f) => IdealStep
         /\ SubmitPlain(w, g, v, f) => IdealStep
         /\ SubmitConservative(w, g, v, f) => IdealStep
         /\ \A fails \in BOOLEAN : QueueBindSparse(w, g, f, fails) => IdealStep
<1> USE QueueAssumption
<1>1. /\ SemaphoreInvOf(semaphores, files) /\ IsTable(semaphores, Semaphores, SemaphoreStates)
      /\ \A t \in DOMAIN semaphores : semaphores[t] \in SemaphoreStates
      /\ \A t \in DOMAIN semaphores : semaphores[t].value \in Nat
  BY DEF SemaphoreInv, SemaphoreInvOf, IsTable, SemaphoreStates
<1>2. \A t \in DOMAIN semaphores :
        Payload(t) \in Int /\ (t \in Timelines => semaphores[t].value <= Payload(t))
  BY PayloadOfObject
\* The record of g once a submit has signaled it, a timeline up to x.
<1>3. ASSUME NEW S1, NEW F1, Waited(w, S1, F1), g \in DOMAIN semaphores,
             NEW x, g \in Timelines => x \in 0 .. MaxValue
      PROVE  LET record == [S1[g] EXCEPT !.value = IF g \in Timelines THEN x ELSE @,
                                         !.signaled = TRUE]
             IN  /\ record \in SemaphoreStates /\ record.file = S1[g].file
                 /\ record.signaled = TRUE
                 /\ g \in Timelines => record.value = x
  <2> DEFINE y == IF g \in Timelines THEN x ELSE S1[g].value
             record == [S1[g] EXCEPT !.value = y, !.signaled = TRUE]
  <2>1. S1[g] \in SemaphoreStates
    BY <1>3 DEF Waited, SemaphoreInvOf, IsTable
  <2>2. y \in 0 .. MaxValue
    BY <1>3, <2>1 DEF SemaphoreStates
  <2>3. \A r \in SemaphoreStates, z \in 0 .. MaxValue :
          LET q == [r EXCEPT !.value = z, !.signaled = TRUE]
          IN  q \in SemaphoreStates /\ q.file = r.file /\ q.value = z /\ q.signaled = TRUE
    BY DEF SemaphoreStates
  <2>4. /\ record \in SemaphoreStates /\ record.file = S1[g].file
        /\ record.signaled = TRUE /\ record.value = y
    <3> HIDE DEF y
    <3> QED BY ONLY <2>1, <2>2, <2>3
  <2> QED BY <2>4
<1>4. ASSUME w # None => w \in DOMAIN semaphores, Waitable(w)
      PROVE  w \notin Timelines \cup {None} => Payload(w) = 1
  BY <1>4 DEF Waitable
<1>5. ASSUME NEW x, SubmitInMemory(w, g, f, x),
             g # None => g \in DOMAIN semaphores,
             g \in Timelines => x \in 0 .. MaxValue /\ Payload(g) <= x /\ x <= v
      PROVE  IdealStep
  <2> DEFINE S1 == WaitedInMemory(w)
             record == [S1[g] EXCEPT !.value = IF g \in Timelines THEN x ELSE @, !.signaled = TRUE]
  <2>1. /\ Waitable(w) /\ PathFollowsFiles(w, g)
        /\ semaphores' = IF g = None THEN S1 ELSE [S1 EXCEPT ![g] = record]
        /\ files' = files
    BY <1>5 DEF SubmitInMemory
  <2>2. /\ w # None => w \in DOMAIN semaphores /\ ~Shared(w)
        /\ g # None => ~Shared(g)
    BY <2>1 DEF Waitable, PathFollowsFiles
  <2>3. Waited(w, S1, files)
    BY <2>2, WaitsInMemory
  <2>4. w \notin Timelines \cup {None} => Payload(w) = 1
    BY <1>4, <2>1, <2>2
  <2>5. g # None => /\ record \in SemaphoreStates /\ record.file = S1[g].file
                    /\ record.signaled = TRUE
                    /\ g \in Timelines => record.value = x
    BY <1>3, <1>5, <2>3
  <2>6. g # None => S1[g].file = None
    BY <1>5, <2>2, <2>3 DEF Waited, Shared
  <2> HIDE DEF S1, record
  <2>7. /\ g = None => semaphores' = S1 /\ files' = files
        /\ g # None => semaphores' = WithRecord(S1, g, record) /\ files' = WithFile(files, g, record)
    BY <2>1, <2>5, <2>6 DEF WithRecord, WithFile
  <2>8. {w, g} \ {None} \subseteq DOMAIN semaphores
    BY <1>5, <2>2
  <2>9. /\ g \in Timelines => Payload(g) <= record.value /\ record.value <= v
        /\ g \notin Timelines \cup {None} => record.signaled = TRUE
    BY <1>5, <2>5
  <2> QED BY ONLY SemaphoreInv, w \in Semaphores \cup {None}, g \in Semaphores \cup {None},
                  v \in 1 .. MaxValue, <2>3, <2>4, <2>5, <2>7, <2>8, <2>9, Signals
<1>6. ASSUME g # None, SignalSemaphore(g, v) PROVE IdealStep
  <2> DEFINE x == Larger(semaphores[g].value, v)
             record == [semaphores[g] EXCEPT !.value = x, !.signaled = TRUE]
  <2>1. /\ g \in DOMAIN semaphores /\ g \in Timelines /\ v > Payload(g)
        /\ semaphores' = [semaphores EXCEPT ![g] = record] /\ files' = SyncedFiles(g, record)
    BY <1>6 DEF SignalSemaphore
  <2>2. x = v
    BY <1>1, <1>2, <2>1 DEF Larger
  <2>3. /\ record \in SemaphoreStates /\ record.file = semaphores[g].file
        /\ record.value = v
    <3>1. \A r \in SemaphoreStates, y \in 0 .. MaxValue :
            LET q == [r EXCEPT !.value = y, !.signaled = TRUE]
            IN  q \in SemaphoreStates /\ q.file = r.file /\ q.value = y
      BY DEF SemaphoreStates
    <3>2. semaphores[g] \in SemaphoreStates /\ x \in 0 .. MaxValue
      BY <1>1, <2>1, <2>2
    <3> HIDE DEF x
    <3> QED BY ONLY <2>2, <3>1, <3>2
  <2> HIDE DEF record
  <2>4. semaphores' = WithRecord(semaphores, g, record) /\ files' = WithFile(files, g, record)
    BY <2>1 DEF WithRecord, WithFile, SyncedFiles, RecordedOf
  <2>5. Waited(None, semaphores, files)
    <3>1. WaitedInMemory(None) = semaphores
      BY DEF WaitedInMemory
    <3> QED BY <3>1, WaitsInMemory
  <2>6. {None, g} \ {None} \subseteq DOMAIN semaphores
    BY <2>1
  <2>7. Payload(g) <= record.value /\ record.value <= v
    BY <1>2, <2>1, <2>3
  <2> DEFINE none == None
  <2>8. /\ none \in Semaphores \cup {None} /\ none = None /\ g \in Timelines
        /\ Waited(none, semaphores, files) /\ {none, g} \ {None} \subseteq DOMAIN semaphores
    BY <2>1, <2>5, <2>6
  <2> HIDE DEF none
  <2> QED BY ONLY SemaphoreInv, g \in Semaphores \cup {None}, v \in 1 .. MaxValue,
                  <1>6, <2>3, <2>4, <2>7, <2>8, Signals
<1>7. ASSUME SubmitExact(w, g, v, f) PROVE IdealStep
  <2> DEFINE S1 == IF w = None THEN semaphores
                   ELSE [semaphores EXCEPT ![w] = WaitedRecord(w, Refreshed(w, semaphores[w]))]
             F1 == IF w = None THEN files ELSE SyncedFiles(w, S1[w])
             x == Larger(S1[g].value, v)
             record == [S1[g] EXCEPT !.value = IF g \in Timelines THEN x ELSE @, !.signaled = TRUE]
  <2>1. /\ Waitable(w) /\ Signalable(g, v)
        /\ g = None => semaphores' = S1 /\ files' = F1
        /\ g # None => /\ semaphores' = [S1 EXCEPT ![g] = record]
                       /\ files' = IF record.file = None THEN F1
                                   ELSE [F1 EXCEPT ![record.file] = SyncedFiles(g, record)[record.file]]
    BY <1>7 DEF SubmitExact
  <2>2. {w, g} \ {None} \subseteq DOMAIN semaphores
    BY <2>1 DEF Waitable, Signalable
  <2>3. w \notin Timelines \cup {None} => Payload(w) = 1
    BY <1>4, <2>1, <2>2
  <2>4. Waited(w, S1, F1)
    <3>1. CASE w = None
      <4>1. WaitedInMemory(None) = semaphores
        BY DEF WaitedInMemory
      <4> QED BY <3>1, <4>1, WaitsInMemory
    <3>2. CASE w # None
      BY <2>2, <3>2, WaitsExactly
    <3> QED BY <3>1, <3>2
  <2> HIDE DEF S1, F1
  <2>5. g \in Timelines => Payload(g) <= v /\ x = v
    <3> SUFFICES ASSUME g \in Timelines PROVE Payload(g) <= v /\ x = v
      OBVIOUS
    <3>1. g \in DOMAIN semaphores /\ v > Payload(g) /\ (w # None => w \in DOMAIN semaphores)
      BY <2>1, <2>2 DEF Signalable
    <3>2. /\ SemaphoreInvOf(S1, F1) /\ g \in DOMAIN S1
          /\ ObjectsOf(S1) = ObjectsOf(semaphores)
      BY <2>4, <3>1 DEF Waited
    <3>3. S1[g].value \in Int
      BY <3>2 DEF SemaphoreInvOf, IsTable, SemaphoreStates
    <3>4. S1[g].value <= Payload(g)
      BY <2>4, <3>1, <3>2, PayloadFound, WaitKeepsTimelines
    <3>5. Payload(g) \in Int
      BY <1>2, <3>1
    <3> QED BY <3>1, <3>3, <3>4, <3>5 DEF Larger
  <2>6. g # None => /\ record \in SemaphoreStates /\ record.file = S1[g].file
                    /\ record.signaled = TRUE
                    /\ g \in Timelines => record.value = v
    <3>1. g # None => g \in DOMAIN semaphores
      BY <2>2
    <3>2. g \in Timelines => x \in 0 .. MaxValue
      BY <2>5
    <3> QED BY <1>3, <2>4, <2>5, <3>1, <3>2
  <2> HIDE DEF record, x
  <2>7. g # None => /\ semaphores' = WithRecord(S1, g, record)
                    /\ files' = WithFile(F1, g, record)
    <3>1. SyncedFiles(g, record)[record.file] = RecordedOf(g, record)
          \/ record.file = None \/ record.file \notin DOMAIN files
      BY DEF SyncedFiles, RecordedOf
    <3>2. g # None => record.file = None \/ record.file \in DOMAIN files
      <4>1. g # None => record.file = semaphores[g].file
        BY <2>2, <2>4, <2>6 DEF Waited
      <4> QED BY <1>1, <2>2, <4>1 DEF SemaphoreInvOf
    <3> QED BY <2>1, <3>1, <3>2 DEF WithRecord, WithFile
  <2>8. /\ g \in Timelines => Payload(g) <= record.value /\ record.value <= v
        /\ g \notin Timelines \cup {None} => record.signaled = TRUE
    BY <2>5, <2>6
  <2>9. g = None => semaphores' = S1 /\ files' = F1
    BY <2>1
  <2> QED BY ONLY SemaphoreInv, w \in Semaphores \cup {None}, g \in Semaphores \cup {None},
                  v \in 1 .. MaxValue, <2>2, <2>3, <2>4, <2>6, <2>7, <2>8, <2>9, Signals
<1>8. ASSUME SubmitPlain(w, g, v, f) PROVE IdealStep
  <2> DEFINE x == IF g = None THEN 0 ELSE Larger(semaphores[g].value, v)
  <2>1. SubmitInMemory(w, g, f, x) /\ Signalable(g, v)
    BY <1>8 DEF SubmitPlain
  <2>2. g \in Timelines => x \in 0 .. MaxValue /\ Payload(g) <= x /\ x <= v
    BY <1>1, <1>2, <2>1 DEF Signalable, Larger
  <2>3. g # None => g \in DOMAIN semaphores
    BY <2>1 DEF Signalable
  <2> HIDE DEF x
  <2> QED BY <1>5, <2>1, <2>2, <2>3
<1>9. ASSUME SubmitConservative(w, g, v, f) PROVE IdealStep
  <2> DEFINE x == IF g = None THEN 0 ELSE semaphores[g].value + 1
  <2>1. SubmitInMemory(w, g, f, x) /\ Signalable(g, v) /\ PathFollowsFiles(w, g)
    BY <1>9 DEF SubmitConservative, SubmitInMemory
  <2>2. g \in Timelines => g \in DOMAIN semaphores /\ semaphores[g].value = Payload(g)
    BY <2>1, OfTheSemaphores DEF Signalable, PathFollowsFiles, Payload, RecordedOf
  <2>3. g \in Timelines => x \in 0 .. MaxValue /\ Payload(g) <= x /\ x <= v
    BY <1>1, <1>2, <2>1, <2>2 DEF Signalable
  <2>4. g # None => g \in DOMAIN semaphores
    BY <2>1 DEF Signalable
  <2> HIDE DEF x
  <2> QED BY <1>5, <2>1, <2>3, <2>4
\* It signals no timeline, and nothing when it fails.
<1>10. ASSUME NEW fails \in BOOLEAN, QueueBindSparse(w, g, f, fails) PROVE IdealStep
  <2> DEFINE S1 == WaitedInMemory(w)
             record == [S1[g] EXCEPT !.signaled = TRUE]
             g0 == IF fails \/ g \in Timelines THEN None ELSE g
  <2>1. /\ Waitable(w) /\ Signalable(g, MaxValue) /\ PathFollowsFiles(w, g)
        /\ semaphores' = IF g0 = None THEN S1 ELSE [S1 EXCEPT ![g0] = record]
        /\ files' = files
    BY <1>10 DEF QueueBindSparse
  <2>2. /\ w # None => w \in DOMAIN semaphores /\ ~Shared(w)
        /\ g # None => g \in DOMAIN semaphores /\ ~Shared(g)
    BY <2>1 DEF Waitable, Signalable, PathFollowsFiles
  <2>3. Waited(w, S1, files)
    BY <2>2, WaitsInMemory
  <2>4. w \notin Timelines \cup {None} => Payload(w) = 1
    BY <1>4, <2>1, <2>2
  <2>5. g # None => /\ record \in SemaphoreStates /\ record.file = S1[g].file
                    /\ record.file = None /\ record.signaled = TRUE
    <3>1. g # None => S1[g] \in SemaphoreStates /\ S1[g].file = None
      BY <2>2, <2>3 DEF Waited, SemaphoreInvOf, IsTable, Shared
    <3> HIDE DEF S1
    <3> QED BY <3>1 DEF SemaphoreStates
  <2>6. g0 = None \/ (g0 = g /\ g0 # None)
    OBVIOUS
  <2>7. /\ g0 \in Semaphores \cup {None} /\ g0 \notin Timelines
        /\ {w, g0} \ {None} \subseteq DOMAIN semaphores
    BY <2>2
  <2> HIDE DEF S1, record, g0
  <2>8. /\ g0 = None => semaphores' = S1 /\ files' = files
        /\ g0 # None => /\ record \in SemaphoreStates /\ record.file = S1[g0].file
                        /\ semaphores' = WithRecord(S1, g0, record)
                        /\ files' = WithFile(files, g0, record)
        /\ g0 \notin Timelines \cup {None} => record.signaled = TRUE
    BY <2>1, <2>5, <2>6 DEF WithRecord, WithFile
  <2> QED BY ONLY SemaphoreInv, w \in Semaphores \cup {None}, v \in 1 .. MaxValue,
                  <2>3, <2>4, <2>7, <2>8, Signals
<1> QED BY <1>6, <1>7, <1>8, <1>9, <1>10

----------------------------------------------------------------------------
\* Every step of the driver and of CUDA is one of the ideal semaphores.
LEMMA SemaphoreStep ==
  ASSUME Interop = {}, SemaphoreInv, [QueueNext]_queueVars
  PROVE  IdealStep
<1>1. CASE UNCHANGED queueVars
  BY <1>1, LeavesSemaphores DEF queueVars
<1>2. CASE Semaphore
  BY <1>2, LifetimeSteps, FileSteps, SignalSteps, QueueAssumption DEF Semaphore
<1>3. CASE Submit
  <2>1. PICK w \in Semaphores \cup {None}, g \in Semaphores \cup {None}, f \in VkFences \cup {None} :
          \/ \E v \in 1 .. MaxValue :
               SubmitExact(w, g, v, f) \/ SubmitPlain(w, g, v, f) \/ SubmitConservative(w, g, v, f)
          \/ \E fails \in BOOLEAN : QueueBindSparse(w, g, f, fails)
    BY <1>3 DEF Submit
  <2>2. CASE \E v \in 1 .. MaxValue :
               SubmitExact(w, g, v, f) \/ SubmitPlain(w, g, v, f) \/ SubmitConservative(w, g, v, f)
    BY <2>2, SignalSteps
  <2>3. CASE \E fails \in BOOLEAN : QueueBindSparse(w, g, f, fails)
    <3>1. 1 \in 1 .. MaxValue
      BY QueueAssumption
    <3> QED BY <2>3, <3>1, SignalSteps
  <2> QED BY <2>1, <2>2, <2>3
<1>4. CASE Fence \/ WaitFence
  <2>1. UNCHANGED <<semaphores, files>>
    BY <1>4 DEF Fence, WaitFence, CreateFence, DestroyFence, ResetFence, SubmitDeferred, BridgeFails,
                HostFinishes, WaitForFences, DeviceWaitIdle, semaphoreVars
  <2> QED BY <2>1, LeavesSemaphores
<1> QED BY <1>1, <1>2, <1>3, <1>4 DEF QueueNext

LEMMA SemaphoreStarts == QueueInit => SemaphoreInv /\ Ideal!Init
<1> SUFFICES ASSUME QueueInit PROVE SemaphoreInv /\ Ideal!Init
  OBVIOUS
<1>1. SemaphoreInv
  BY DEF QueueInit, SemaphoreInv, SemaphoreInvOf, IsTable, EmptyTable
<1>2. Objects = EmptyTable /\ Payloads = EmptyTable
  BY DEF QueueInit, Objects, Payloads, EmptyTable
<1> QED BY <1>1, <1>2 DEF Ideal!Init, Ideal!EmptyTable, EmptyTable

\* As long as applications export a semaphore once, import no timeline that
\* is behind, and submit shared ones only where the driver follows the file,
\* Vulkan's records and CUDA's files are together an ideal semaphore.
THEOREM SemaphoresAreIdeal == ASSUME Interop = {} PROVE QueueSpec => SemaphoresIdeal
<1>1. QueueInit => SemaphoreInv /\ Ideal!Init
  BY SemaphoreStarts
<1>2. SemaphoreInv /\ [QueueNext]_queueVars
        => SemaphoreInv' /\ (Ideal!Next \/ UNCHANGED <<Objects, Payloads>>)
  BY SemaphoreStep DEF IdealStep
<1> QED BY <1>1, <1>2, PTL DEF QueueSpec, SemaphoresIdeal, Ideal!Spec, Ideal!vars

\* A timeline CUDA and Vulkan share never falls.
THEOREM TimelinesGrow == ASSUME Interop = {} PROVE QueueSpec => TimelineFilesGrow
<1>1. QueueInit => SemaphoreInv
  BY SemaphoreStarts
<1>2. SemaphoreInv /\ [QueueNext]_queueVars => SemaphoreInv' /\ Grows
  BY SemaphoreStep DEF IdealStep
<1> QED BY <1>1, <1>2, PTL DEF QueueSpec, TimelineFilesGrow, Grows

\* CUDA's descriptors keep their files.
LEMMA DescriptorStep ==
  ASSUME Interop = {}, cuda \subseteq DOMAIN files, [QueueNext]_queueVars
  PROVE  cuda' \subseteq DOMAIN files'
<1>1. CASE UNCHANGED queueVars
  BY <1>1 DEF queueVars
<1>2. \A s, record : DOMAIN SyncedFiles(s, record) = DOMAIN files
  BY DEF SyncedFiles
<1>3. CASE Semaphore
  <2>1. ASSUME NEW s, NEW v, CreateSemaphore(s, v) \/ DestroySemaphore(s) \/ RefreshSemaphore(s)
        PROVE  cuda' \subseteq DOMAIN files'
    BY <2>1 DEF CreateSemaphore, DestroySemaphore, RefreshSemaphore
  <2>2. ASSUME NEW s, NEW f \in Files, GetSemaphoreFd(s, f)
        PROVE  cuda' \subseteq DOMAIN files'
    BY <2>2 DEF GetSemaphoreFd, Put
  <2>3. ASSUME NEW s, NEW f, ImportSemaphoreFd(s, f) PROVE cuda' \subseteq DOMAIN files'
    BY <2>3 DEF ImportSemaphoreFd
  <2>4. ASSUME NEW s, NEW v, SignalSemaphore(s, v) PROVE cuda' \subseteq DOMAIN files'
    BY <1>2, <2>4 DEF SignalSemaphore
  <2>5. ASSUME NEW f, NEW v, CudaSignal(f, v) \/ CudaClose(f) PROVE cuda' \subseteq DOMAIN files'
    BY <2>5 DEF CudaSignal, CudaClose
  <2>6. ASSUME NEW f, FileGone(f) PROVE cuda' \subseteq DOMAIN files'
    BY <2>6 DEF FileGone, Drop
  <2> QED BY <1>3, <2>1, <2>2, <2>3, <2>4, <2>5, <2>6 DEF Semaphore
<1>4. CASE Submit
  <2>1. ASSUME NEW w, NEW g, NEW v, NEW f, SubmitExact(w, g, v, f)
        PROVE  cuda' = cuda /\ DOMAIN files' = DOMAIN files
    <3> DEFINE S1 == IF w = None THEN semaphores
                     ELSE [semaphores EXCEPT ![w] = WaitedRecord(w, Refreshed(w, semaphores[w]))]
               F1 == IF w = None THEN files ELSE SyncedFiles(w, S1[w])
    <3>1. DOMAIN F1 = DOMAIN files
      BY <1>2
    <3> HIDE DEF S1
    <3>2. DOMAIN files' = DOMAIN F1
      BY <2>1 DEF SubmitExact, S1
    <3> QED BY <2>1, <3>1, <3>2 DEF SubmitExact
  <2>2. ASSUME NEW w, NEW g, NEW v, NEW f, SubmitInMemory(w, g, f, v)
        PROVE  cuda' = cuda /\ files' = files
    BY <2>2 DEF SubmitInMemory
  <2>3. ASSUME NEW w, NEW g, NEW f, NEW fails, QueueBindSparse(w, g, f, fails)
        PROVE  cuda' = cuda /\ files' = files
    BY <2>3 DEF QueueBindSparse
  <2>4. ASSUME NEW w, NEW g, NEW v, NEW f, SubmitPlain(w, g, v, f) \/ SubmitConservative(w, g, v, f)
        PROVE  cuda' = cuda /\ files' = files
    BY <2>2, <2>4 DEF SubmitPlain, SubmitConservative
  <2> QED BY <1>4, <2>1, <2>3, <2>4 DEF Submit
<1>5. CASE Fence \/ WaitFence
  BY <1>5 DEF Fence, WaitFence, CreateFence, DestroyFence, ResetFence, SubmitDeferred, BridgeFails,
              HostFinishes, WaitForFences, DeviceWaitIdle, semaphoreVars
<1> QED BY <1>1, <1>3, <1>4, <1>5 DEF QueueNext

\* While applications keep to those paths every table holds what it should,
\* values stay in their bounds, and no descriptor outlives its file.
THEOREM QueueTypes == ASSUME Interop = {} PROVE QueueSpec => []QueueTypeOK
<1> DEFINE TypesInv == FenceInv /\ SemaphoreInv /\ cuda \subseteq DOMAIN files
<1>1. QueueInit => TypesInv
  BY SemaphoreStarts, QueueAssumption
     DEF QueueInit, FenceInv, IsTable, EmptyTable, InFlight, HostFencesAwaited
<1>2. TypesInv /\ [QueueNext]_queueVars => TypesInv'
  BY FenceStep, SemaphoreStep, DescriptorStep DEF IdealStep
<1>3. TypesInv => QueueTypeOK
  BY DEF QueueTypeOK, FenceInv, SemaphoreInv, SemaphoreInvOf, Shared, None
<1> QED BY <1>1, <1>2, <1>3, PTL DEF QueueSpec

=============================================================================
