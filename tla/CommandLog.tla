----------------------------- MODULE CommandLog -----------------------------
(***************************************************************************)
(* What the guest's command buffers promise: each is one log, emptied by   *)
(* its begin and by every reset, and closed by its end.  A submit replays  *)
(* the logs of its buffers in order.  It may leave out a dispatch or a     *)
(* build it cannot translate, and stops at the first command that fails.   *)
(***************************************************************************)
EXTENDS Integers, SequencesExt, Tables

CONSTANTS CommandBuffers, Commands, Optional, MaxSubmit

VARIABLES
  log,   \* every command buffer: its state, its commands and its UI draws
  done   \* what the last operation executed, and the draws it presented

vars == <<log, done>>

Empty(state) == [state |-> state, commands |-> <<>>, draws |-> 0]
Nothing == [ran |-> <<>>, presented |-> 0]

Init == log = EmptyTable /\ done = Nothing

Allocate(c) == c \notin DOMAIN log /\ log' = Put(log, c, Empty("initial")) /\ done' = Nothing

Free(gone) == log' = [c \in DOMAIN log \ gone |-> log[c]] /\ done' = Nothing

Reset(some) ==
  /\ log' = [c \in DOMAIN log |-> IF c \in some THEN Empty("initial") ELSE log[c]]
  /\ done' = Nothing

Begin(c) ==
  /\ c \in DOMAIN log /\ log[c].state # "recording"
  /\ log' = [log EXCEPT ![c] = Empty("recording")]
  /\ done' = Nothing

Record(c, k) ==
  /\ c \in DOMAIN log /\ log[c].state = "recording"
  /\ log' = [log EXCEPT ![c].commands = Append(@, k)]
  /\ done' = Nothing

Draw(c) ==
  /\ c \in DOMAIN log /\ log[c].state = "recording"
  /\ log' = [log EXCEPT ![c].draws = @ + 1]
  /\ done' = Nothing

End(c) ==
  /\ c \in DOMAIN log /\ log[c].state = "recording"
  /\ log' = [log EXCEPT ![c].state = "executable"]
  /\ done' = Nothing

\* The first commands of all, but for those left out.
Beginning(all, stop, left) ==
  LET run[i \in 0 .. stop] ==
        IF i = 0 THEN <<>> ELSE IF i \in left THEN run[i - 1] ELSE Append(run[i - 1], all[i])
  IN  run[stop]

\* run is a beginning of all without some of its optional commands.
Executes(run, all) ==
  \E stop \in 0 .. Len(all) :
    \E left \in SUBSET {i \in 1 .. stop : all[i] \in Optional} :
      run = Beginning(all, stop, left)

Submit(cs) ==
  /\ \A i \in DOMAIN cs : cs[i] \in DOMAIN log /\ log[cs[i]].state = "executable"
  /\ UNCHANGED log
  /\ Executes(done'.ran, FlattenSeq([i \in DOMAIN cs |-> log[cs[i]].commands]))
  /\ done'.presented \in {0} \cup {log[cs[i]].draws : i \in DOMAIN cs}

Next ==
  \/ \E c \in CommandBuffers :
       \/ Allocate(c) \/ Begin(c) \/ Draw(c) \/ End(c)
       \/ \E k \in Commands : Record(c, k)
  \/ \E some \in SUBSET CommandBuffers : Free(some) \/ Reset(some)
  \/ \E n \in 1 .. MaxSubmit : \E cs \in [1 .. n -> DOMAIN log] : Submit(cs)

Spec == Init /\ [][Next]_vars

=============================================================================
