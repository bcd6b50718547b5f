------------------------------ MODULE BytePipe ------------------------------
(***************************************************************************)
(* What one direction of the socket relay promises: a pipe that delivers   *)
(* the bytes given to it in order, each once, and all of them for as long  *)
(* as it is open.  A pipe that breaks may drop what it still holds, but    *)
(* never delivers a byte after a gap.                                      *)
(***************************************************************************)
EXTENDS Integers, Sequences

CONSTANT Byte

VARIABLES
    src,    \* every byte given to the pipe
    dst,    \* every byte it has delivered
    state   \* "idle" until the two ends are joined, then "open", or "broken"

pipeVars == <<src, dst, state>>

PipeTypeOK == /\ src \in Seq(Byte) /\ dst \in Seq(Byte)
              /\ state \in {"idle", "open", "broken"}

PipeInit == src = <<>> /\ dst = <<>> /\ state = "idle"

Send(b) == src' = Append(src, b) /\ UNCHANGED <<dst, state>>

Open == state = "idle" /\ state' = "open" /\ UNCHANGED <<src, dst>>

Deliver ==
    /\ state # "idle"
    /\ \E n \in (Len(dst) + 1)..Len(src) : dst' = SubSeq(src, 1, n)
    /\ UNCHANGED <<src, state>>

\* What breaks the pipe may take part of a delivery with it.
Break ==
    /\ state # "broken" /\ state' = "broken"
    /\ \E n \in Len(dst)..Len(src) : dst' = SubSeq(src, 1, n)
    /\ UNCHANGED src

PipeNext == (\E b \in Byte : Send(b)) \/ Open \/ Deliver \/ Break

PipeSafe == PipeInit /\ [][PipeNext]_pipeVars
Delivery == WF_pipeVars(state = "open" /\ Deliver)
PipeSpec == PipeSafe /\ Delivery
=============================================================================
