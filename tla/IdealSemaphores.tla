-------------------------- MODULE IdealSemaphores --------------------------
(***************************************************************************)
(* What the guest's semaphores promise Vulkan and CUDA together.  A        *)
(* semaphore has one payload, wherever it is stored: its own, or that of   *)
(* the file it was exported to or imported from, which CUDA signals too.   *)
(* A binary payload is 1 from a signal to the one wait that consumes it; a *)
(* timeline's only grows, and never past what a signaller asked for.       *)
(***************************************************************************)
EXTENDS Integers, Tables

CONSTANTS Semaphores, Timelines, Files, MaxValue

VARIABLES
  object,   \* the payload each semaphore uses: its own handle, or a file
  payload   \* the value of every payload in use

vars == <<object, payload>>

None == "none"
InUse(f) == \E s \in DOMAIN object : object[s] = f

Init == object = EmptyTable /\ payload = EmptyTable

Create(s, v) ==
  /\ s \notin DOMAIN object
  /\ v = 0 \/ s \in Timelines
  /\ object' = Put(object, s, s)
  /\ payload' = Put(payload, s, v)

Destroy(s) ==
  /\ s \in DOMAIN object
  /\ object' = Drop(object, s)
  /\ payload' = Drop(payload, s)

\* Exporting moves the payload, value and all, to a new file.
Export(s, f) ==
  /\ s \in DOMAIN object /\ f \notin DOMAIN payload
  /\ object[s] = s
  /\ object' = [object EXCEPT ![s] = f]
  /\ payload' = Put(Drop(payload, s), f, payload[s])

Import(s, f) ==
  /\ s \in DOMAIN object /\ f \in DOMAIN payload \cap Files
  /\ object' = [object EXCEPT ![s] = f]
  /\ payload' = Drop(payload, s)

\* A file nobody refers to any more is gone.
Forget(f) ==
  /\ f \in DOMAIN payload \cap Files
  /\ ~InUse(f)
  /\ UNCHANGED object
  /\ payload' = Drop(payload, f)

Consumed(w) == IF w = None THEN payload ELSE [payload EXCEPT ![object[w]] = 0]

\* A submit waits on w and signals g, a timeline with the value v or less.
Submit(w, g, v) ==
  /\ {w, g} \ {None} \subseteq DOMAIN object
  /\ w # None => w \notin Timelines /\ payload[object[w]] = 1
  /\ UNCHANGED object
  /\ IF g = None THEN payload' = Consumed(w)
     ELSE IF g \in Timelines
     THEN \E reached \in payload[object[g]] .. v :
            payload' = [Consumed(w) EXCEPT ![object[g]] = reached]
     ELSE payload' = [Consumed(w) EXCEPT ![object[g]] = 1]

\* CUDA signals a file.
SignalFile(f, v) ==
  /\ f \in DOMAIN payload \cap Files
  /\ v >= payload[f]
  /\ UNCHANGED object
  /\ payload' = [payload EXCEPT ![f] = v]

Next ==
  \/ \E s \in Semaphores :
       \/ \E v \in 0 .. MaxValue : Create(s, v)
       \/ Destroy(s)
       \/ \E f \in Files : Export(s, f) \/ Import(s, f)
  \/ \E f \in Files :
       \/ Forget(f)
       \/ \E v \in 1 .. MaxValue : SignalFile(f, v)
  \/ \E w, g \in Semaphores \cup {None}, v \in 1 .. MaxValue : Submit(w, g, v)

Spec == Init /\ [][Next]_vars

=============================================================================
