------------------------- MODULE ContainerSessions -------------------------
(***************************************************************************)
(* The life of the streams between a container and the Mac: the Vulkan     *)
(* drivers of the container's processes, each listening for the host when  *)
(* it creates a VkInstance (BridgeConnection in                            *)
(* guest/vulkan_icd/imb_vulkan_icd.cpp), and the adapter that dials them   *)
(* one after another (imb-container-host, with BridgeStreamServer.serve).  *)
(*                                                                         *)
(* What a request does is BridgeSession's business: here it is being       *)
(* written, complete, or answered.  At most one is under way, since the    *)
(* driver holds its mutex through an exchange.                             *)
(***************************************************************************)
EXTENDS Naturals

CONSTANTS
    Processes,      \* the processes of the container that load the driver
    Nobody,         \* no process
    Sessions,       \* --sessions
    DialAttempts,   \* bound: attempts to dial a session after the first; 200
    WaitExit,       \* --wait-exit
    Acceptances     \* whether the driver may find the host acceptable, or not

ASSUME ContainerAssumption ==
    /\ Nobody \notin Processes
    /\ Sessions \in Nat \ {0}
    /\ DialAttempts \in Nat \ {0}
    /\ WaitExit \in BOOLEAN
    /\ Acceptances \subseteq BOOLEAN

VARIABLES
    acceptable,  \* the host speaks the drivers' version and has all they require
    guest,       \* process -> what its driver is doing
    served,      \* the process whose connection the adapter serves, or Nobody
    held,        \* the container still has that connection open
    wire,        \* the request on that connection
    adapter,     \* what the adapter is doing
    session,     \* sessionIndex
    attempt,     \* attempt to dial it
    exitCode,    \* the adapter's exit status
    container    \* the exit status of the container's init process

guestVars == <<acceptable, guest, container>>
streamVars == <<served, held, wire>>
adapterVars == <<adapter, session, attempt, exitCode>>
vars == <<guestVars, streamVars, adapterVars>>

\* hello and capabilities: inside BridgeConnection's constructor; shutdown:
\* inside vkDestroyInstance.
GuestStates == {"idle", "listening", "hello", "capabilities", "ready", "shutdown", "exited"}
Statuses == {"none", "ok", "failed"}

TypeOK ==
    /\ acceptable \in BOOLEAN
    /\ guest \in [Processes -> GuestStates]
    /\ served \in Processes \cup {Nobody}
    /\ held \in BOOLEAN
    /\ wire \in {"quiet", "torn", "asked", "answered"}
    /\ adapter \in {"dialing", "serving", "awaitingExit", "stopped"}
    /\ session \in 1..Sessions
    /\ attempt \in 1..DialAttempts
    /\ exitCode \in Statuses
    /\ container \in Statuses

Init ==
    /\ acceptable \in Acceptances
    /\ guest = [p \in Processes |-> "idle"]
    /\ served = Nobody
    /\ held = FALSE
    /\ wire = "quiet"
    /\ adapter = "dialing"
    /\ session = 1
    /\ attempt = 1
    /\ exitCode = "none"
    /\ container = "none"

-----------------------------------------------------------------------------
(* The driver.                                                             *)

Becomes(p, state) == guest' = [guest EXCEPT ![p] = state]

NobodyListens == \A p \in Processes : guest[p] # "listening"

\* vkCreateInstance with no instance: it binds the port, which fails while
\* another process listens on it, and blocks in accept.
Listen(p) ==
    /\ guest[p] = "idle"
    /\ NobodyListens
    /\ Becomes(p, "listening")
    /\ UNCHANGED <<acceptable, container, streamVars, adapterVars>>

\* The driver's current connection is the one the adapter serves.
Connected(p) == served = p /\ guest[p] \in {"hello", "capabilities", "ready", "shutdown"}

\* exchange: the request is written in pieces, and the reply is read whole.
BeginRequest(p) ==
    /\ Connected(p)
    /\ wire = "quiet"
    /\ wire' = "torn"
    /\ UNCHANGED <<guestVars, served, held, adapterVars>>

FinishRequest(p) ==
    /\ Connected(p)
    /\ wire = "torn"
    /\ wire' = "asked"
    /\ UNCHANGED <<guestVars, served, held, adapterVars>>

\* Mutant: the test of the host's capabilities is the wrong way round.
AcceptedIfNot == ~acceptable

\* HELLO is answered with a version, and QUERY_CAPABILITIES with every bit of
\* kRequiredCapabilities.
Accepted == acceptable

AfterReply(state) ==
    CASE state = "hello"        -> "capabilities"
      [] state = "capabilities" -> "ready"
      [] OTHER                  -> state

Receive(p) ==
    /\ Connected(p)
    /\ wire = "answered"
    /\ guest[p] = "capabilities" => Accepted
    /\ wire' = "quiet"
    /\ Becomes(p, AfterReply(guest[p]))
    /\ UNCHANGED <<acceptable, container, served, held, adapterVars>>

\* The constructor throws.  The object was never constructed, so its destructor
\* does not close the socket: the process still holds the connection.
Reject(p) ==
    /\ Connected(p)
    /\ wire = "answered"
    /\ guest[p] \in {"hello", "capabilities"}
    /\ ~Accepted
    /\ wire' = "quiet"
    /\ Becomes(p, "idle")
    /\ UNCHANGED <<acceptable, container, served, held, adapterVars>>

\* The adapter has gone, in the middle of the constructor.
LoseHost(p) ==
    /\ guest[p] \in {"hello", "capabilities"}
    /\ served # p
    /\ Becomes(p, "idle")
    /\ UNCHANGED <<acceptable, container, streamVars, adapterVars>>

\* vkDestroyInstance: the mutex keeps it out of another thread's exchange.
DestroyInstance(p) ==
    /\ guest[p] = "ready"
    /\ served = p => wire = "quiet"
    /\ Becomes(p, "shutdown")
    /\ UNCHANGED <<acceptable, container, streamVars, adapterVars>>

\* SHUTDOWN was answered, or the exchange failed: the socket is closed.
FinishShutdown(p) ==
    /\ guest[p] = "shutdown"
    /\ served # p
    /\ Becomes(p, "idle")
    /\ UNCHANGED <<acceptable, container, streamVars, adapterVars>>

\* A process ends, in order or not, wherever it is; its sockets are closed.
Exit(p) ==
    /\ guest[p] # "exited"
    /\ Becomes(p, "exited")
    /\ held' = (held /\ served # p)
    /\ UNCHANGED <<acceptable, container, served, wire, adapterVars>>

\* The container's init process ends after the others, with a status of its own.
ContainerExits ==
    /\ container = "none"
    /\ \A p \in Processes : guest[p] = "exited"
    /\ container' \in {"ok", "failed"}
    /\ UNCHANGED <<acceptable, guest, streamVars, adapterVars>>

-----------------------------------------------------------------------------
(* The adapter.                                                            *)

NoStream == served' = Nobody /\ held' = FALSE /\ wire' = "quiet"

DialConnects ==
    /\ adapter = "dialing"
    /\ adapter' = "serving"
    /\ \E p \in Processes :
          /\ guest[p] = "listening"
          /\ Becomes(p, "hello")
          /\ served' = p
    /\ held' = TRUE
    /\ wire' = "quiet"
    /\ UNCHANGED <<acceptable, container, session, attempt, exitCode>>

Stop(status) ==
    /\ adapter' = "stopped"
    /\ exitCode' = status

MaximumAttempts == IF session = 1 THEN 1 ELSE DialAttempts

AnotherAttempt == attempt < MaximumAttempts

\* Mutant: the attempts are not counted.
RedialForever == attempt' = attempt

Redial == attempt' = attempt + 1

\* Nobody listens: the adapter tries again 100 ms later, or gives up.
DialFails ==
    /\ adapter = "dialing"
    /\ NobodyListens
    /\ \/ /\ AnotherAttempt
          /\ Redial
          /\ UNCHANGED <<adapter, exitCode>>
       \/ /\ ~AnotherAttempt
          /\ Stop("failed")
          /\ UNCHANGED attempt
    /\ UNCHANGED <<guestVars, streamVars, session>>

\* serve returned: the next session, or the end of the loop.
SessionComplete ==
    /\ NoStream
    /\ \/ /\ session < Sessions
          /\ session' = session + 1
          /\ attempt' = 1
          /\ adapter' = "dialing"
          /\ UNCHANGED exitCode
       \/ /\ session = Sessions
          /\ IF WaitExit THEN adapter' = "awaitingExit" /\ UNCHANGED exitCode ELSE Stop("ok")
          /\ UNCHANGED <<session, attempt>>

\* Mutant: a broken stream is the end of a session like any other.
BrokenIsComplete == NoStream /\ Stop("ok") /\ UNCHANGED <<session, attempt>>

\* serve threw unexpectedEOF or a transport disconnect: with --wait-exit, what
\* it means is for the container's status to say.
Broken ==
    /\ NoStream
    /\ IF WaitExit THEN adapter' = "awaitingExit" /\ UNCHANGED exitCode ELSE Stop("failed")
    /\ UNCHANGED <<session, attempt>>

\* Mutant: every reply ends the session.
EndsWithAnyReply == held

EndsWithReply == held /\ guest[served] = "shutdown"

\* serve read a whole request, handled it and wrote the reply; with the reply to
\* SHUTDOWN it returns.
Answer ==
    /\ adapter = "serving"
    /\ held
    /\ wire = "asked"
    /\ \/ EndsWithReply /\ SessionComplete
       \/ /\ ~EndsWithReply
          /\ wire' = "answered"
          /\ UNCHANGED <<served, held, adapterVars>>
    /\ UNCHANGED guestVars

\* The container closed the stream.  Between two frames that is a clean end;
\* a request it left complete is still handled, and its reply may vanish.
CleanEnd ==
    /\ adapter = "serving"
    /\ ~held
    /\ wire # "torn"
    /\ SessionComplete
    /\ UNCHANGED guestVars

\* In the middle of a frame it is not, and neither when the reply is refused.
BrokenEnd ==
    /\ adapter = "serving"
    /\ ~held
    /\ wire # "quiet"
    /\ Broken
    /\ UNCHANGED guestVars

ObserveExit ==
    /\ adapter = "awaitingExit"
    /\ container # "none"
    /\ Stop(container)
    /\ UNCHANGED <<guestVars, streamVars, session, attempt>>

\* The adapter is killed, or crashes, at any point.
AdapterDies ==
    /\ adapter # "stopped"
    /\ Stop("failed")
    /\ NoStream
    /\ UNCHANGED <<guestVars, session, attempt>>

\* Everything has ended; this step only keeps it from being a deadlock.
Ended == adapter = "stopped" /\ container # "none" /\ UNCHANGED vars

-----------------------------------------------------------------------------
Driver(p) ==
    \/ Listen(p)
    \/ BeginRequest(p)
    \/ FinishRequest(p)
    \/ Receive(p)
    \/ Reject(p)
    \/ LoseHost(p)
    \/ DestroyInstance(p)
    \/ FinishShutdown(p)
    \/ Exit(p)

Adapter == DialConnects \/ DialFails \/ Answer \/ CleanEnd \/ BrokenEnd \/ ObserveExit

Next ==
    \/ \E p \in Processes : Driver(p)
    \/ ContainerExits
    \/ Adapter
    \/ AdapterDies
    \/ Ended

Spec == Init /\ [][Next]_vars

\* A call the driver has begun goes on while its process lives, and so does the
\* adapter; nothing obliges a process to create an instance, to use one, to
\* destroy it or to exit.
Fairness ==
    /\ WF_vars(Adapter)
    /\ \A p \in Processes :
          /\ WF_vars(guest[p] # "ready" /\ BeginRequest(p))
          /\ WF_vars(FinishRequest(p))
          /\ WF_vars(Receive(p) \/ Reject(p))
          /\ WF_vars(LoseHost(p) \/ FinishShutdown(p))

FairSpec == Spec /\ Fairness

-----------------------------------------------------------------------------
(* Properties.                                                             *)

\* A driver that has an instance is the one the adapter serves, for as long as
\* the adapter runs: a session is never ended, nor another one begun, under it.
InstancesAreServed ==
    adapter # "stopped" =>
        \A p \in Processes :
            guest[p] \in {"hello", "capabilities", "ready"} => served = p

\* With --wait-exit the adapter reports success only if the container did,
\* however its last stream ended.
SuccessIsTheContainers == WaitExit /\ exitCode = "ok" => container = "ok"

\* Once the container has ended the adapter ends too, whatever it was doing.
AdapterEnds == container # "none" ~> adapter = "stopped"

\* A driver waits to be dialled while the adapter serves a connection that no
\* driver uses, or none at all.
Neglected(p) ==
    /\ guest[p] = "listening"
    /\ adapter \in {"dialing", "serving"}
    /\ \A q \in Processes : ~Connected(q)

\* While the adapter still has sessions to serve, no driver is left waiting for
\* it, if the drivers find the host acceptable.
AcceptedListenersAreDialled ==
    \A p \in Processes : acceptable /\ Neglected(p) ~> ~Neglected(p)

\* docs/architecture.md, section 5: the driver must "return standard errors for
\* unsupported behavior".  vkCreateInstance does return, whatever the host is.
ListenersAreDialled == \A p \in Processes : Neglected(p) ~> ~Neglected(p)

=============================================================================
