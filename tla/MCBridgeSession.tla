-------------------------- MODULE MCBridgeSession --------------------------
(***************************************************************************)
(* Instances of BridgeSession for TLC: what the clients of each run ask    *)
(* for.                                                                    *)
(***************************************************************************)
EXTENDS BridgeSession

Desc(kind, format, sparse) == [kind |-> kind, format |-> format, sparse |-> sparse]
ABuffer == Desc("buffer", "none", FALSE)
APipeline == Desc("pipeline", "none", FALSE)
AnImage(format) == Desc("image", format, FALSE)
ASparseImage(format) == Desc("image", format, TRUE)
AnAccel(type) == Desc("accel", type, FALSE)

\* Commands of every kind but rays; a UI draw has a target and a texture.
CommandDescs == {ABuffer, AnImage("bgra8"), AnImage("rgba8"), APipeline}
\* One buffer, and frames of both kinds.
FrameDescs == {ABuffer, AnImage("bgra8"), AnImage("rgba8")}
RayDescs == {AnImage("rgba8"), ABuffer, AnAccel("top"), AnAccel("bottom"), AnAccel("generic")}
UploadDescs == {AnImage("rgba8"), AnImage("rgba32f"), ASparseImage("rgba32f"), ASparseImage("bgra8")}
BufferOnly == {ABuffer}

\* An exact match, a range around the host's version, and two beside it.
AllRanges == {[lo |-> <<1, 22>>, hi |-> <<1, 22>>], [lo |-> <<0, 9>>, hi |-> <<2, 0>>],
              [lo |-> <<1, 0>>, hi |-> <<1, 21>>], [lo |-> <<1, 23>>, hi |-> <<2, 5>>]}
ExactRange == {[lo |-> <<1, 22>>, hi |-> <<1, 22>>]}

\* Two states that differ in the last reply alone behave alike; the runs whose
\* properties do not read the reply see them as one.
Silently == <<sessionVars, mtlVars>>

=============================================================================
