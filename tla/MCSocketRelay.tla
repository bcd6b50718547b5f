--------------------------- MODULE MCSocketRelay ---------------------------
(* SocketRelay for TLC.  The relay never looks at a byte, so a stream of   *)
(* bytes that all differ stands for every stream, and shows a lost, a      *)
(* repeated and a swapped byte best: OneStream keeps to it.  A buffer of   *)
(* three and a header of one make the two directions' chunks differ, as    *)
(* 4096 and 4092 do.                                                       *)
EXTENDS SocketRelay

MCByte == 1..4
Stream == <<1, 2, 3, 4>>
OneStream == /\ cliSent = Take(Stream, Len(cliSent))
             /\ svcSent = Take(Stream, Len(svcSent))

NoFaults == {}
\* Every failure; a failed OPEN ends the process before it has a client.
AllFaults  == FaultKinds
LiveFaults == FaultKinds \ {"open"}
=============================================================================
