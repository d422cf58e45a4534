--------------------------- MODULE MCSessionTurns ---------------------------
(***************************************************************************)
(* Instances of BridgeSession for TLC in which one client uploads, another *)
(* draws, another traces rays: what one kind of client may ask for is      *)
(* bounded apart from the others.  Each behaviour is of one kind, "turn".  *)
(***************************************************************************)
EXTENDS MCBridgeSession, FiniteSets

CONSTANT Turns  \* bounds of each kind: [descs, ids, commands, uploads]

VARIABLE turn

Bounds(descs, ids, commands, uploads) ==
  [descs |-> descs, ids |-> ids, commands |-> commands, uploads |-> uploads]

\* Two commands of every kind but rays; one command over structures, which
\* take more resources to be built over each other.
CommandTurns ==
  [commands |-> Bounds(CommandDescs, 3, 2, 0), rays |-> Bounds(RayDescs, 4, 1, 0)]

\* Uploads alone; two frames of targets that may be the same.
UploadTurns ==
  [uploads |-> Bounds(UploadDescs, 1, 0, 3), frames |-> Bounds(FrameDescs, 2, 2, 0)]

DescsOfTurns == UNION {Turns[t].descs : t \in DOMAIN Turns}

\* The client asks for no more than its turn has.
Within(bounds) ==
  /\ nextResourceID' <= bounds.ids + 1
  /\ Cardinality(DOMAIN gpu') <= bounds.commands
  /\ uploadsBegun' <= bounds.uploads
  /\ \A id \in DOMAIN resources' : resources'[id] \in bounds.descs

TurnInit == Init /\ turn \in DOMAIN Turns

TurnNext ==
  /\ Next
  /\ UNCHANGED turn
  /\ Within(Turns[turn])

TurnSpec == TurnInit /\ [][TurnNext]_<<vars, turn>>

\* Only what the client asks for is bounded: what fairness speaks of is not.
FairTurnSpec == TurnSpec /\ Fairness

InTurnSilently == <<turn, Silently>>

=============================================================================
