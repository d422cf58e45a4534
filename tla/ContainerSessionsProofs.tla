---------------------- MODULE ContainerSessionsProofs ----------------------
(***************************************************************************)
(* What ContainerSessions promises, for any number of processes, sessions  *)
(* and attempts to dial, with --wait-exit or without it.                   *)
(***************************************************************************)
EXTENDS ContainerSessions, TLAPS

\* The adapter serves a connection exactly while it is in serve, and a
\* connection that its process no longer holds belonged to a process that has
\* exited: the driver closes one itself only after the reply to SHUTDOWN.
StreamIsServed ==
    /\ adapter = "serving" <=> served # Nobody
    /\ held => served # Nobody
    /\ served # Nobody => (held <=> guest[served] # "exited")

\* The inductive invariant.
IInv ==
    /\ TypeOK
    /\ StreamIsServed
    /\ InstancesAreServed
    /\ SuccessIsTheContainers

-----------------------------------------------------------------------------
\* A driver's state may change to any of the states a driver has.
LEMMA BecomesTyped ==
    ASSUME TypeOK, NEW p \in Processes, NEW s \in GuestStates, Becomes(p, s)
    PROVE  /\ guest' \in [Processes -> GuestStates]
           /\ guest'[p] = s
           /\ \A q \in Processes \ {p} : guest'[q] = guest[q]
BY DEF TypeOK, Becomes

\* Everything holds before the container's first vkCreateInstance.
LEMMA InitIInv == Init => IInv
<1> SUFFICES ASSUME Init PROVE IInv
  OBVIOUS
<1>1. acceptable \in BOOLEAN
  BY Zenon, ContainerAssumption DEF Init
<1>2. session \in 1..Sessions /\ attempt \in 1..DialAttempts
  BY ContainerAssumption DEF Init
<1>3. guest \in [Processes -> GuestStates]
  BY DEF Init, GuestStates
<1>4. TypeOK
  BY Zenon, <1>1, <1>2, <1>3 DEF Init, TypeOK, Statuses
<1>5. StreamIsServed /\ InstancesAreServed /\ SuccessIsTheContainers
  BY ContainerAssumption
     DEF Init, StreamIsServed, InstancesAreServed, SuccessIsTheContainers
<1> QED BY <1>4, <1>5 DEF IInv

\* One step of a driver.
LEMMA DriverIInv ==
    ASSUME IInv, NEW p \in Processes, Driver(p)
    PROVE  IInv'
<1> USE ContainerAssumption
<1> DEFINE Kept == UNCHANGED <<acceptable, container, served, adapterVars>>
\* A step that leaves the connection and does not give a driver an instance.
<1>1. ASSUME Kept, held' = held, wire' \in {"quiet", "torn", "asked", "answered"},
             NEW s \in GuestStates, Becomes(p, s), s # "exited", guest[p] # "exited",
             s \in {"hello", "capabilities", "ready"} => served = p
      PROVE  IInv'
  <2>1. /\ guest' \in [Processes -> GuestStates]
        /\ guest'[p] = s
        /\ \A q \in Processes \ {p} : guest'[q] = guest[q]
    BY <1>1, BecomesTyped DEF IInv
  <2>2. TypeOK'
    BY <1>1, <2>1 DEF IInv, TypeOK, adapterVars
  <2>3. StreamIsServed'
    <3>1. served # Nobody => served \in Processes
      BY DEF IInv, TypeOK
    <3>2. CASE served = p
      BY <1>1, <2>1, <3>2 DEF IInv, StreamIsServed, adapterVars
    <3>3. CASE served # p
      BY <1>1, <2>1, <3>1, <3>3 DEF IInv, StreamIsServed, adapterVars
    <3> QED BY <3>2, <3>3
  <2>4. InstancesAreServed'
    BY <1>1, <2>1 DEF IInv, InstancesAreServed, adapterVars
  <2>5. SuccessIsTheContainers'
    BY <1>1 DEF IInv, SuccessIsTheContainers, adapterVars
  <2> QED BY <2>2, <2>3, <2>4, <2>5 DEF IInv
<1>2. CASE Listen(p)
  BY <1>2, <1>1 DEF Listen, streamVars, GuestStates, IInv, TypeOK
\* A request under way changes no driver's state.
<1>3. CASE BeginRequest(p) \/ FinishRequest(p)
  BY <1>3 DEF BeginRequest, FinishRequest, guestVars, adapterVars, IInv, TypeOK,
              StreamIsServed, InstancesAreServed, SuccessIsTheContainers
<1>4. CASE Receive(p)
  <2>1. /\ guest[p] \in {"hello", "capabilities", "ready", "shutdown"}
        /\ served = p
    BY <1>4 DEF Receive, Connected
  <2>2. /\ AfterReply(guest[p]) \in GuestStates
        /\ AfterReply(guest[p]) # "exited"
    BY <2>1 DEF AfterReply, GuestStates
  <2> QED BY <1>1, <1>4, <2>1, <2>2 DEF Receive
<1>5. CASE Reject(p)
  BY <1>5, <1>1 DEF Reject, GuestStates
<1>6. CASE LoseHost(p) \/ DestroyInstance(p) \/ FinishShutdown(p)
  BY <1>6, <1>1 DEF LoseHost, DestroyInstance, FinishShutdown, streamVars, GuestStates,
                    IInv, TypeOK
<1>7. CASE Exit(p)
  <2>1. /\ guest' \in [Processes -> GuestStates]
        /\ guest'[p] = "exited"
        /\ \A q \in Processes \ {p} : guest'[q] = guest[q]
    BY <1>7, BecomesTyped DEF IInv, Exit, GuestStates
  <2>2. TypeOK'
    BY <1>7, <2>1 DEF Exit, IInv, TypeOK, adapterVars
  <2>3. StreamIsServed'
    <3>1. served # Nobody => served \in Processes
      BY DEF IInv, TypeOK
    <3>2. CASE served = p
      BY <1>7, <2>1, <3>2 DEF Exit, IInv, StreamIsServed, adapterVars
    <3>3. CASE served # p
      BY <1>7, <2>1, <3>1, <3>3 DEF Exit, IInv, TypeOK, StreamIsServed, adapterVars
    <3> QED BY <3>2, <3>3
  <2>4. InstancesAreServed'
    BY <1>7, <2>1 DEF Exit, IInv, InstancesAreServed, adapterVars
  <2>5. SuccessIsTheContainers'
    BY <1>7 DEF Exit, IInv, SuccessIsTheContainers, adapterVars
  <2> QED BY <2>2, <2>3, <2>4, <2>5 DEF IInv
<1> QED BY <1>2, <1>3, <1>4, <1>5, <1>6, <1>7 DEF Driver

-----------------------------------------------------------------------------
\* A stream may be forgotten when no driver has an instance on it.
LEMMA Unserved ==
    ASSUME IInv, NoStream, UNCHANGED <<guest, acceptable, container>>,
           adapter' # "serving", adapter' \in {"dialing", "awaitingExit", "stopped"},
           session' \in 1..Sessions, attempt' \in 1..DialAttempts,
           \/ adapter' = "stopped"
           \/ served \in Processes /\ guest[served] \in {"shutdown", "exited"},
           exitCode' \in Statuses,
           exitCode' # exitCode /\ exitCode' = "ok" => ~WaitExit
    PROVE  IInv'
<1> USE ContainerAssumption
<1>1. TypeOK'
  BY DEF IInv, TypeOK, NoStream
<1>2. StreamIsServed'
  BY DEF NoStream, StreamIsServed
<1>3. InstancesAreServed'
  <2>1. SUFFICES ASSUME adapter' # "stopped", NEW p \in Processes,
                        guest[p] \in {"hello", "capabilities", "ready"}
                 PROVE  FALSE
    BY DEF InstancesAreServed
  <2>2. served \in Processes /\ guest[served] \in {"shutdown", "exited"}
    BY <2>1
  <2>3. adapter = "serving"
    BY <2>2 DEF IInv, StreamIsServed
  <2>4. served = p
    BY <2>1, <2>3 DEF IInv, InstancesAreServed
  <2> QED BY <2>1, <2>2, <2>4
<1>4. SuccessIsTheContainers'
  BY DEF IInv, SuccessIsTheContainers
<1> QED BY <1>1, <1>2, <1>3, <1>4 DEF IInv

\* The end of a session and the next one's beginning, when no driver has an
\* instance on the stream.
LEMMA CompleteIInv ==
    ASSUME IInv, SessionComplete, UNCHANGED guestVars,
           served \in Processes, guest[served] \in {"shutdown", "exited"}
    PROVE  IInv'
<1> USE ContainerAssumption
<1>1. /\ NoStream
      /\ UNCHANGED <<guest, acceptable, container>>
  BY DEF SessionComplete, guestVars
<1>2. CASE session < Sessions /\ session' = session + 1 /\ attempt' = 1
           /\ adapter' = "dialing" /\ UNCHANGED exitCode
  <2>1. session' \in 1..Sessions /\ attempt' \in 1..DialAttempts /\ exitCode' \in Statuses
    BY <1>2 DEF IInv, TypeOK
  <2> QED BY <1>1, <1>2, <2>1, Unserved
<1>3. CASE session = Sessions /\ WaitExit /\ adapter' = "awaitingExit"
           /\ UNCHANGED <<exitCode, session, attempt>>
  <2>1. session' \in 1..Sessions /\ attempt' \in 1..DialAttempts /\ exitCode' \in Statuses
    BY <1>3 DEF IInv, TypeOK
  <2> QED BY <1>1, <1>3, <2>1, Unserved
<1>4. CASE session = Sessions /\ ~WaitExit /\ Stop("ok") /\ UNCHANGED <<session, attempt>>
  <2>1. session' \in 1..Sessions /\ attempt' \in 1..DialAttempts /\ exitCode' \in Statuses
    BY <1>4 DEF IInv, TypeOK, Stop, Statuses
  <2> QED BY <1>1, <1>4, <2>1, Unserved DEF Stop
<1> QED BY <1>2, <1>3, <1>4 DEF SessionComplete

\* One step of the adapter or of the container's init process.
LEMMA AdapterIInv ==
    ASSUME IInv, Adapter \/ AdapterDies \/ ContainerExits
    PROVE  IInv'
<1> USE ContainerAssumption
<1>1. CASE DialConnects
  <2>1. PICK p \in Processes : guest[p] = "listening" /\ Becomes(p, "hello") /\ served' = p
    BY <1>1 DEF DialConnects
  <2>2. /\ guest' \in [Processes -> GuestStates]
        /\ guest'[p] = "hello"
        /\ \A q \in Processes \ {p} : guest'[q] = guest[q]
    BY <2>1, BecomesTyped DEF IInv, GuestStates
  <2>3. TypeOK' /\ StreamIsServed' /\ SuccessIsTheContainers'
    BY <1>1, <2>1, <2>2 DEF DialConnects, IInv, TypeOK, StreamIsServed, SuccessIsTheContainers
  <2>4. InstancesAreServed'
    <3>1. served = Nobody /\ adapter # "stopped"
      BY <1>1 DEF DialConnects, IInv, StreamIsServed
    <3>2. \A q \in Processes : guest[q] \notin {"hello", "capabilities", "ready"}
      BY <3>1 DEF IInv, InstancesAreServed
    <3> QED BY <2>1, <2>2, <3>2 DEF InstancesAreServed
  <2> QED BY <2>3, <2>4 DEF IInv
<1>2. CASE DialFails
  <2>1. attempt' \in 1..DialAttempts
    BY <1>2 DEF DialFails, AnotherAttempt, Redial, MaximumAttempts, IInv, TypeOK
  <2>2. adapter = "dialing" /\ adapter' \in {"dialing", "stopped"}
        /\ exitCode' \in Statuses /\ (exitCode' = exitCode \/ exitCode' = "failed")
        /\ (adapter' = "stopped" \/ adapter' = adapter)
    BY <1>2 DEF DialFails, Stop, IInv, TypeOK, Statuses
  <2> QED BY <1>2, <2>1, <2>2
          DEF DialFails, guestVars, streamVars, IInv, TypeOK, StreamIsServed,
              InstancesAreServed, SuccessIsTheContainers
<1>3. CASE Answer
  <2>1. CASE EndsWithReply /\ SessionComplete
    BY <1>3, <2>1, CompleteIInv DEF Answer, EndsWithReply, IInv, TypeOK, StreamIsServed
  <2>2. CASE wire' = "answered" /\ UNCHANGED <<served, held, adapterVars>>
    BY <1>3, <2>2 DEF Answer, guestVars, adapterVars, IInv, TypeOK, StreamIsServed,
                      InstancesAreServed, SuccessIsTheContainers
  <2> QED BY <1>3, <2>1, <2>2 DEF Answer
<1>4. CASE CleanEnd
  BY <1>4, CompleteIInv DEF CleanEnd, IInv, TypeOK, StreamIsServed
<1>5. CASE BrokenEnd
  <2>1. served \in Processes /\ guest[served] \in {"shutdown", "exited"}
    BY <1>5 DEF BrokenEnd, IInv, TypeOK, StreamIsServed
  <2>2. /\ NoStream
        /\ UNCHANGED <<guest, acceptable, container>>
        /\ session' \in 1..Sessions
        /\ attempt' \in 1..DialAttempts
    BY <1>5 DEF BrokenEnd, Broken, guestVars, IInv, TypeOK
  <2>3. /\ adapter' \in {"awaitingExit", "stopped"}
        /\ exitCode' \in Statuses
        /\ exitCode' = exitCode \/ exitCode' = "failed"
    BY <1>5 DEF BrokenEnd, Broken, Stop, IInv, TypeOK, Statuses
  <2> QED BY <2>1, <2>2, <2>3, Unserved
<1>6. CASE ObserveExit
  BY <1>6 DEF ObserveExit, Stop, guestVars, streamVars, IInv, TypeOK, StreamIsServed,
              InstancesAreServed, SuccessIsTheContainers
<1>7. CASE AdapterDies
  <2>1. /\ NoStream
        /\ UNCHANGED <<guest, acceptable, container>>
        /\ session' \in 1..Sessions
        /\ attempt' \in 1..DialAttempts
        /\ adapter' = "stopped"
        /\ exitCode' = "failed"
    BY <1>7 DEF AdapterDies, Stop, guestVars, IInv, TypeOK
  <2> QED BY <2>1, Unserved DEF Statuses
<1>8. CASE ContainerExits
  BY <1>8 DEF ContainerExits, streamVars, adapterVars, IInv, TypeOK, StreamIsServed,
              InstancesAreServed, SuccessIsTheContainers, Statuses
<1> QED BY <1>1, <1>2, <1>3, <1>4, <1>5, <1>6, <1>7, <1>8 DEF Adapter

\* The invariant survives every step.
LEMMA NextIInv == IInv /\ [Next]_vars => IInv'
<1> SUFFICES ASSUME IInv, [Next]_vars PROVE IInv'
  OBVIOUS
<1>1. CASE \E p \in Processes : Driver(p)
  BY <1>1, DriverIInv
<1>2. CASE Adapter \/ AdapterDies \/ ContainerExits
  BY <1>2, AdapterIInv
<1>3. CASE Ended \/ UNCHANGED vars
  BY <1>3 DEF Ended, vars, guestVars, streamVars, adapterVars, IInv, TypeOK, StreamIsServed,
              InstancesAreServed, SuccessIsTheContainers
<1> QED BY <1>1, <1>2, <1>3 DEF Next

-----------------------------------------------------------------------------
\* Every reachable state satisfies the invariant.
THEOREM Invariance == Spec => []IInv
BY InitIInv, NextIInv, PTL DEF Spec

\* The variables keep their types; in particular the adapter never begins more
\* sessions than --sessions, nor attempts to dial more often than it may.
THEOREM StreamTypes == Spec => []TypeOK
BY Invariance, PTL DEF IInv

\* vkCreateInstance to vkDestroyInstance: no session ends, and none begins,
\* under a driver that has an instance.
THEOREM InstancesServed == Spec => []InstancesAreServed
BY Invariance, PTL DEF IInv

\* --wait-exit: the adapter reports success only if the container did.
THEOREM SuccessReported == Spec => []SuccessIsTheContainers
BY Invariance, PTL DEF IInv

=============================================================================
