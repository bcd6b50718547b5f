---------------------------- MODULE SocketRelay ----------------------------
(***************************************************************************)
(* host/socket_relay/main.c: a process that opens a relay (a TCP           *)
(* connection made by the drive to a service inside the CSD), accepts one  *)
(* client on a local port and then moves bytes both ways with two threads, *)
(*                                                                         *)
(*   client  -> socket -> relay_to_nvme_thread_fn   -> WRITE -> service    *)
(*   client <-  socket <- relay_from_nvme_thread_fn <- READ  <- service    *)
(*                                                                         *)
(* NVMe commands are synchronous for the thread that issues them and are   *)
(* executed by the drive at any later moment: cmd[op] is the state of the  *)
(* one command of that kind that can be outstanding.  The drive, the       *)
(* client, the service and the kernel's sockets are the environment.       *)
(***************************************************************************)
EXTENDS Integers, Sequences

CONSTANTS
    Byte,       \* the values a byte of either stream can take
    SIZE_4K,    \* size of the threads' buffers and of a command's data
    HDR,        \* bytes of a READ's data that hold its length
    SockCap,    \* bytes the socket holds in each direction
    MaxUp,      \* bound: bytes the client sends
    MaxDown,    \* bound: bytes the service sends
    Faults      \* what may go wrong that the drive and the peers do not cause

FaultKinds == {"open", "write", "read", "close", "create", "signal"}

ASSUME SizeAssumption ==
    /\ SIZE_4K \in Nat /\ HDR \in Nat /\ 0 < HDR /\ HDR < SIZE_4K
    /\ SockCap \in Nat \ {0}
    /\ MaxUp \in Nat /\ MaxDown \in Nat
    /\ Faults \subseteq FaultKinds

VARIABLES
    main,       \* control of main() and communicate()
    to,         \* control of relay_to_nvme_thread_fn
    from,       \* control of relay_from_nvme_thread_fn
    cmd,        \* the NVMe commands: cmd[op] of each operation
    toBuf,      \* bytes read from the socket that the drive has not taken
    fromBuf,    \* bytes a READ returned that are not in the socket yet
    hostShut,   \* shutdown(connfd, SHUT_RDWR) was called
    cli,        \* the client's end of the connection
    cliSent,    \* every byte the client has sent
    sockIn,     \* those that are still on the way to read()
    sockOut,    \* bytes written to the socket, on the way to the client
    cliGot,     \* every byte the client has received
    relay,      \* the relay descriptor in the drive
    svc,        \* the service's end of the relayed connection
    svcSent,    \* every byte the service has sent
    downQ,      \* those that no READ has returned yet
    svcGot      \* every byte the service has received

procVars == <<main, to, from, hostShut>>
upVars   == <<cliSent, sockIn, toBuf, svcGot>>
downVars == <<svcSent, downQ, fromBuf, sockOut, cliGot>>
vars     == <<main, to, from, hostShut, cmd, cli, relay, svc,
              cliSent, sockIn, toBuf, svcGot,
              svcSent, downQ, fromBuf, sockOut, cliGot>>

Op       == {"open", "close", "write", "read"}
CmdState == {"idle", "sent", "ok", "fail"}
MainPc   == {"start", "opening", "setup", "accept", "spawn_to", "spawn_from",
             "join_to", "join_from", "exited", "failed", "killed"}
ToPc     == {"none", "read", "write", "close", "done", "absent"}
FromPc   == {"none", "read", "write", "shutdown", "done", "absent"}
CliState == {"none", "open", "half", "closed", "reset"}

Take(s, n) == SubSeq(s, 1, n)
Drop(s, n) == SubSeq(s, n + 1, Len(s))

Ended     == main \in {"exited", "failed", "killed"}
Receiving == cli \in {"open", "half"}
Issue(op) == cmd[op] = "idle" /\ cmd' = [cmd EXCEPT ![op] = "sent"]
Complete(op, res) == cmd' = [cmd EXCEPT ![op] = res]

TypeOK ==
    /\ main \in MainPc /\ to \in ToPc /\ from \in FromPc /\ hostShut \in BOOLEAN
    /\ cmd \in [Op -> CmdState]
    /\ cli \in CliState /\ relay \in {"none", "open", "closed"}
    /\ svc \in {"up", "down"}
    /\ cliSent \in Seq(Byte) /\ sockIn \in Seq(Byte) /\ svcGot \in Seq(Byte)
    /\ svcSent \in Seq(Byte) /\ downQ \in Seq(Byte)
    /\ sockOut \in Seq(Byte) /\ cliGot \in Seq(Byte)
    /\ toBuf \in Seq(Byte) /\ Len(toBuf) <= SIZE_4K
    /\ fromBuf \in Seq(Byte) /\ Len(fromBuf) <= SIZE_4K - HDR

Init ==
    /\ main = "start" /\ to = "none" /\ from = "none" /\ hostShut = FALSE
    /\ cmd = [op \in Op |-> "idle"]
    /\ cli = "none" /\ relay = "none" /\ svc = "up"
    /\ cliSent = <<>> /\ sockIn = <<>> /\ toBuf = <<>> /\ svcGot = <<>>
    /\ svcSent = <<>> /\ downQ = <<>> /\ fromBuf = <<>>
    /\ sockOut = <<>> /\ cliGot = <<>>

-----------------------------------------------------------------------------
(* main(): the relay is opened first, then the port, then one client.      *)

\* The command line, csGetCSxFromPath and csOpenCSx, each with exit(-1).
NoDevice ==
    /\ main = "start" /\ main' = "failed"
    /\ UNCHANGED <<to, from, hostShut, cmd, cli, relay, svc, upVars, downVars>>

OpenRelay ==
    /\ main = "start" /\ main' = "opening"
    /\ Issue("open")
    /\ UNCHANGED <<to, from, hostShut, cli, relay, svc, upVars, downVars>>

OpenRelayDone ==
    /\ main = "opening" /\ cmd["open"] \in {"ok", "fail"}
    /\ main' = IF cmd["open"] = "ok" THEN "setup" ELSE "failed"
    /\ UNCHANGED <<to, from, hostShut, cmd, cli, relay, svc, upVars, downVars>>

\* socket(), bind(), listen(): the first that fails ends the process, with
\* the relay open.
Listen ==
    /\ main = "setup" /\ main' \in {"accept", "failed"}
    /\ UNCHANGED <<to, from, hostShut, cmd, cli, relay, svc, upVars, downVars>>

Accept ==
    /\ main = "accept"
    /\ \/ main' = "spawn_to" /\ cli' = "open"
       \/ main' = "failed" /\ UNCHANGED cli
    /\ UNCHANGED <<to, from, hostShut, cmd, relay, svc, upVars, downVars>>

\* communicate() does not look at what pthread_create returns.
SpawnTo ==
    /\ main = "spawn_to" /\ main' = "spawn_from"
    /\ \/ to' = "read"
       \/ "create" \in Faults /\ to' = "absent"
    /\ UNCHANGED <<from, hostShut, cmd, cli, relay, svc, upVars, downVars>>

SpawnFrom ==
    /\ main = "spawn_from" /\ main' = "join_to"
    /\ \/ from' = "read"
       \/ "create" \in Faults /\ from' = "absent"
    /\ UNCHANGED <<to, hostShut, cmd, cli, relay, svc, upVars, downVars>>

\* Joining a thread that was never created reads an uninitialised pthread_t:
\* the call returns or the process crashes.
JoinTo ==
    /\ main = "join_to" /\ to \in {"done", "absent"}
    /\ \/ main' = "join_from"
       \/ to = "absent" /\ main' = "killed"
    /\ UNCHANGED <<to, from, hostShut, cmd, cli, relay, svc, upVars, downVars>>

\* Mutant: communicate() returns without joining the second thread.
JoinFromSkipped ==
    /\ main = "join_from" /\ main' = "exited"
    /\ UNCHANGED <<to, from, hostShut, cmd, cli, relay, svc, upVars, downVars>>

JoinFrom ==
    /\ main = "join_from" /\ from \in {"done", "absent"}
    /\ \/ main' = "exited"
       \/ from = "absent" /\ main' = "killed"
    /\ UNCHANGED <<to, from, hostShut, cmd, cli, relay, svc, upVars, downVars>>

\* No handler is installed: a signal ends the process wherever it is.
Signal ==
    /\ ~Ended /\ "signal" \in Faults /\ main' = "killed"
    /\ UNCHANGED <<to, from, hostShut, cmd, cli, relay, svc, upVars, downVars>>

-----------------------------------------------------------------------------
(* relay_to_nvme_thread_fn                                                 *)

\* Mutant: read() is given more than the buffer's size.
ToReadUnbounded ==
    /\ ~Ended /\ to = "read" /\ sockIn # <<>>
    /\ toBuf' = sockIn /\ sockIn' = <<>> /\ to' = "write"
    /\ UNCHANGED <<main, from, hostShut, cmd, cli, relay, svc,
                   cliSent, svcGot, downVars>>

\* read() returns what is there, at most a buffer.
ToRead ==
    /\ ~Ended /\ to = "read" /\ sockIn # <<>>
    /\ \E n \in 1..Len(sockIn) :
        /\ n <= SIZE_4K
        /\ toBuf' = Take(sockIn, n) /\ sockIn' = Drop(sockIn, n)
    /\ to' = "write"
    /\ UNCHANGED <<main, from, hostShut, cmd, cli, relay, svc,
                   cliSent, svcGot, downVars>>

\* Mutant: the end of the connection is acted on ahead of queued bytes.
ToEofEarly ==
    /\ ~Ended /\ to = "read" /\ to' = "close"
    /\ cli \in {"half", "closed", "reset"} \/ hostShut
    /\ UNCHANGED <<main, from, hostShut, cmd, cli, relay, svc, upVars, downVars>>

\* Mutant: the thread ends without closing the relay.
ToEofNoClose ==
    /\ ~Ended /\ to = "read" /\ to' = "done"
    /\ \/ sockIn = <<>> /\ (cli \in {"half", "closed"} \/ hostShut)
       \/ cli = "reset"
    /\ UNCHANGED <<main, from, hostShut, cmd, cli, relay, svc, upVars, downVars>>

\* read() returns 0, after every queued byte, or -1: both close the relay.
ToEof ==
    /\ ~Ended /\ to = "read" /\ to' = "close"
    /\ \/ sockIn = <<>> /\ (cli \in {"half", "closed"} \/ hostShut)
       \/ cli = "reset"
    /\ UNCHANGED <<main, from, hostShut, cmd, cli, relay, svc, upVars, downVars>>

WriteRelay ==
    /\ ~Ended /\ to = "write" /\ Issue("write")
    /\ UNCHANGED <<procVars, cli, relay, svc, upVars, downVars>>

\* Mutant: a WRITE that fails does not leave the loop.
WriteRelayDoneGoesOn ==
    /\ ~Ended /\ to = "write" /\ cmd["write"] \in {"ok", "fail"}
    /\ to' = "read" /\ Complete("write", "idle")
    /\ UNCHANGED <<main, from, hostShut, cli, relay, svc, upVars, downVars>>

\* A WRITE that fails ends the thread: no CLOSE, no shutdown.
WriteRelayDone ==
    /\ ~Ended /\ to = "write"
    /\ \/ cmd["write"] = "ok" /\ to' = "read" /\ Complete("write", "idle")
       \/ cmd["write"] = "fail" /\ to' = "done" /\ UNCHANGED cmd
    /\ UNCHANGED <<main, from, hostShut, cli, relay, svc, upVars, downVars>>

CloseRelay ==
    /\ ~Ended /\ to = "close" /\ Issue("close")
    /\ UNCHANGED <<procVars, cli, relay, svc, upVars, downVars>>

\* Mutant: no break after the relay has been closed.
CloseRelayDoneGoesOn ==
    /\ ~Ended /\ to = "close" /\ cmd["close"] \in {"ok", "fail"} /\ to' = "read"
    /\ UNCHANGED <<main, from, hostShut, cmd, cli, relay, svc, upVars, downVars>>

\* A CLOSE that fails is only reported.
CloseRelayDone ==
    /\ ~Ended /\ to = "close" /\ cmd["close"] \in {"ok", "fail"} /\ to' = "done"
    /\ UNCHANGED <<main, from, hostShut, cmd, cli, relay, svc, upVars, downVars>>

-----------------------------------------------------------------------------
(* relay_from_nvme_thread_fn                                               *)

ReadRelay ==
    /\ ~Ended /\ from = "read" /\ Issue("read")
    /\ UNCHANGED <<procVars, cli, relay, svc, upVars, downVars>>

\* A length of 0 and a failed READ both leave the loop.
ReadRelayDone ==
    /\ ~Ended /\ from = "read"
    /\ \/ /\ cmd["read"] = "ok" /\ fromBuf # <<>>
          /\ from' = "write" /\ Complete("read", "idle")
       \/ /\ cmd["read"] = "fail" \/ (cmd["read"] = "ok" /\ fromBuf = <<>>)
          /\ from' = "shutdown" /\ UNCHANGED cmd
    /\ UNCHANGED <<main, to, hostShut, cli, relay, svc, upVars, downVars>>

\* Mutant: write() returns when a part is copied, the rest is forgotten.
SockWriteForgets ==
    /\ ~Ended /\ from = "write" /\ Receiving
    /\ \E n \in 1..Len(fromBuf) :
        /\ Len(sockOut) + n <= SockCap
        /\ sockOut' = sockOut \o Take(fromBuf, n) /\ fromBuf' = <<>>
        /\ from' = "read"
    /\ UNCHANGED <<main, to, hostShut, cmd, cli, relay, svc, upVars,
                   svcSent, downQ, cliGot>>

\* write() copies as the socket drains and returns when all is copied.
SockWrite ==
    /\ ~Ended /\ from = "write" /\ Receiving
    /\ \E n \in 1..Len(fromBuf) :
        /\ Len(sockOut) + n <= SockCap
        /\ sockOut' = sockOut \o Take(fromBuf, n) /\ fromBuf' = Drop(fromBuf, n)
        /\ from' = IF n = Len(fromBuf) THEN "read" ELSE "write"
    /\ UNCHANGED <<main, to, hostShut, cmd, cli, relay, svc, upVars,
                   svcSent, downQ, cliGot>>

\* The client has closed: what is written is thrown away and answered with a
\* reset, and a write after the reset fails or raises SIGPIPE.  A write that
\* has copied a part when the reset comes returns that part's length.
SockWriteGone ==
    /\ ~Ended /\ from = "write"
    /\ \/ /\ cli = "closed" /\ cli' \in {"closed", "reset"}
          /\ from' = "read" /\ UNCHANGED main
       \/ /\ cli = "reset" /\ UNCHANGED cli
          /\ \/ from' \in {"read", "shutdown"} /\ UNCHANGED main
             \/ main' = "killed" /\ UNCHANGED from
    /\ fromBuf' = <<>>
    /\ UNCHANGED <<to, hostShut, cmd, relay, svc, upVars,
                   svcSent, downQ, sockOut, cliGot>>

\* Mutant: the thread ends without shutdown().
ShutdownForgotten ==
    /\ ~Ended /\ from = "shutdown" /\ from' = "done"
    /\ UNCHANGED <<main, to, hostShut, cmd, cli, relay, svc, upVars, downVars>>

Shutdown ==
    /\ ~Ended /\ from = "shutdown" /\ hostShut' = TRUE /\ from' = "done"
    /\ UNCHANGED <<main, to, cmd, cli, relay, svc, upVars, downVars>>

-----------------------------------------------------------------------------
(* The client.  It does not send into a connection the host has shut.      *)

CliSend(b) ==
    /\ ~Ended /\ cli = "open" /\ ~hostShut
    /\ Len(cliSent) < MaxUp /\ Len(sockIn) < SockCap
    /\ cliSent' = Append(cliSent, b) /\ sockIn' = Append(sockIn, b)
    /\ UNCHANGED <<procVars, cmd, cli, relay, svc, toBuf, svcGot, downVars>>

CliRecv ==
    /\ Receiving /\ sockOut # <<>>
    /\ cliGot' = Append(cliGot, Head(sockOut)) /\ sockOut' = Tail(sockOut)
    /\ UNCHANGED <<procVars, cmd, cli, relay, svc, upVars,
                   svcSent, downQ, fromBuf>>

CliHalfClose ==
    /\ ~Ended /\ cli = "open" /\ cli' = "half"
    /\ UNCHANGED <<procVars, cmd, relay, svc, upVars, downVars>>

CliClose ==
    /\ ~Ended /\ Receiving /\ cli' \in {"closed", "reset"}
    /\ UNCHANGED <<procVars, cmd, relay, svc, upVars, downVars>>

-----------------------------------------------------------------------------
(* The service inside the CSD, which may speak before any client is there. *)

SvcSend(b) ==
    /\ relay = "open" /\ svc = "up" /\ Len(svcSent) < MaxDown
    /\ svcSent' = Append(svcSent, b) /\ downQ' = Append(downQ, b)
    /\ UNCHANGED <<procVars, cmd, cli, relay, svc, upVars,
                   fromBuf, sockOut, cliGot>>

SvcDown ==
    /\ relay = "open" /\ svc = "up" /\ svc' = "down"
    /\ UNCHANGED <<procVars, cmd, cli, relay, upVars, downVars>>

-----------------------------------------------------------------------------
(* The drive.  A process that dies leaves its outstanding commands to it.  *)

DevOpen ==
    /\ cmd["open"] = "sent"
    /\ \/ relay' = "open" /\ Complete("open", "ok")
       \/ relay' = "none" /\ Complete("open", "fail")
       \/ "open" \in Faults /\ relay' = "open" /\ Complete("open", "fail")
    /\ UNCHANGED <<procVars, cli, svc, upVars, downVars>>

DevWrite ==
    /\ cmd["write"] = "sent"
    /\ \/ /\ relay = "open" /\ svc = "up" /\ Complete("write", "ok")
          /\ svcGot' = svcGot \o toBuf /\ toBuf' = <<>>
       \/ /\ relay = "open" /\ svc = "down" /\ UNCHANGED svcGot
          /\ \/ Complete("write", "ok") /\ toBuf' = <<>>
             \/ Complete("write", "fail") /\ UNCHANGED toBuf
       \/ /\ relay # "open" /\ Complete("write", "fail")
          /\ UNCHANGED <<svcGot, toBuf>>
    /\ UNCHANGED <<procVars, cli, relay, svc, cliSent, sockIn, downVars>>

\* "unless the socket is disconnected or data is read, no completion is sent"
DevRead ==
    /\ cmd["read"] = "sent"
    /\ \/ /\ relay = "open" /\ Complete("read", "ok")
          /\ \E n \in 1..Len(downQ) :
              /\ n <= SIZE_4K - HDR
              /\ fromBuf' = Take(downQ, n) /\ downQ' = Drop(downQ, n)
       \/ /\ relay = "open" /\ downQ = <<>> /\ svc = "down"
          /\ Complete("read", "ok") \/ Complete("read", "fail")
          /\ UNCHANGED <<fromBuf, downQ>>
       \/ /\ relay # "open" /\ Complete("read", "fail")
          /\ UNCHANGED <<fromBuf, downQ>>
    /\ UNCHANGED <<procVars, cli, relay, svc, upVars, svcSent, sockOut, cliGot>>

DevClose ==
    /\ cmd["close"] = "sent"
    /\ IF relay = "open"
         THEN relay' = "closed" /\ downQ' = <<>> /\ Complete("close", "ok")
         ELSE Complete("close", "fail") /\ UNCHANGED <<relay, downQ>>
    /\ UNCHANGED <<procVars, cli, svc, upVars, svcSent, fromBuf, sockOut, cliGot>>

\* A command that fails or times out, before, during or after its execution.
WriteFault ==
    /\ "write" \in Faults /\ cmd["write"] = "sent" /\ Complete("write", "fail")
    /\ \E n \in 0..Len(toBuf) :
        svcGot' = IF relay = "open" /\ svc = "up" THEN svcGot \o Take(toBuf, n)
                                                  ELSE svcGot
    /\ UNCHANGED <<procVars, cli, relay, svc, cliSent, sockIn, toBuf, downVars>>

ReadFault ==
    /\ "read" \in Faults /\ cmd["read"] = "sent" /\ Complete("read", "fail")
    /\ \E n \in 0..Len(downQ) : n <= SIZE_4K - HDR /\ downQ' = Drop(downQ, n)
    /\ UNCHANGED <<procVars, cli, relay, svc, upVars,
                   svcSent, fromBuf, sockOut, cliGot>>

CloseFault ==
    /\ "close" \in Faults /\ cmd["close"] = "sent" /\ Complete("close", "fail")
    /\ \/ UNCHANGED <<relay, downQ>>
       \/ relay = "open" /\ relay' = "closed" /\ downQ' = <<>>
    /\ UNCHANGED <<procVars, cli, svc, upVars, svcSent, fromBuf, sockOut, cliGot>>

-----------------------------------------------------------------------------
Startup      == NoDevice \/ OpenRelay \/ OpenRelayDone \/ Listen \/ Accept
Communicate  == SpawnTo \/ SpawnFrom \/ JoinTo \/ JoinFrom
ToThread     == \/ ToRead \/ ToEof \/ WriteRelay \/ WriteRelayDone
                \/ CloseRelay \/ CloseRelayDone
FromThread   == \/ ReadRelay \/ ReadRelayDone
                \/ SockWrite \/ SockWriteGone \/ Shutdown
Device       == DevOpen \/ DevWrite \/ DevRead \/ DevClose
DeviceFault  == WriteFault \/ ReadFault \/ CloseFault
Client       == \/ \E b \in Byte : CliSend(b)
                \/ CliRecv \/ CliHalfClose \/ CliClose
Service      == (\E b \in Byte : SvcSend(b)) \/ SvcDown

Next == \/ Startup \/ Communicate \/ Signal \/ ToThread \/ FromThread
        \/ Device \/ DeviceFault \/ Client \/ Service

(* The scheduler runs the threads, and the drive answers a READ or a CLOSE *)
(* that can be answered.  Nobody has to connect, to send, to close or to   *)
(* fail.  The client need not read its socket, nor the drive answer a      *)
(* WRITE, which the service inside may hold up: a property that needs them *)
(* to says so.                                                             *)
RelayFair == /\ WF_vars(Communicate) /\ WF_vars(ToThread) /\ WF_vars(FromThread)
             /\ WF_vars(DevRead) /\ WF_vars(DevClose)

SafeSpec == Init /\ [][Next]_vars
LiveSpec == SafeSpec /\ RelayFair
Spec     == LiveSpec /\ WF_vars(DevWrite) /\ WF_vars(CliRecv)

\* What the peers may leave out: a client that reads empties its socket again
\* and again, and a WRITE is not left without an answer for ever.
ClientReads    == []<>(sockOut = <<>> \/ ~Receiving)
WritesAnswered == []<>(cmd["write"] # "sent")

-----------------------------------------------------------------------------
(* Safety                                                                  *)

\* Nothing is lost, repeated or reordered between the client's send() and the
\* service while the service listens and no WRITE has failed: what the client
\* sent is what the service got, the thread's buffer and the socket's queue.
UpNoLoss ==
    svc = "up" /\ cmd["write"] # "fail" => cliSent = svcGot \o toBuf \o sockIn

\* Nothing is lost, repeated or reordered between the service and the client
\* while the relay is open, the client listens and no READ has failed, also
\* for what the service says before the client has connected.
DownNoLoss ==
    relay = "open" /\ cli \notin {"closed", "reset"} /\ cmd["read"] # "fail"
        => svcSent = cliGot \o sockOut \o fromBuf \o downQ

\* relay_to_nvme_thread_fn closes the relay on the client's end of file only
\* after every byte the client sent before it has reached the service.
DrainedBeforeClose ==
    relay = "closed" /\ svc = "up" /\ cli # "reset" => svcGot = cliSent

\* relay_from_nvme_thread_fn shuts the socket on a READ of length 0 only after
\* every byte the service sent has been handed to the client's connection.
DrainedBeforeShutdown ==
    hostShut /\ cmd["read"] = "ok" /\ cli \notin {"closed", "reset"}
        => cliGot \o sockOut = svcSent

\* thread_arg_st lives on communicate()'s stack: no thread may be running
\* when communicate() has returned.
ArgAlive ==
    main = "exited" => to \in {"done", "absent"} /\ from \in {"done", "absent"}

\* A process that returns from main() leaves the relay open in the drive only
\* if a WRITE or the CLOSE failed, or the thread that closes never existed.
ExitClosesRelay ==
    main = "exited" /\ relay = "open"
        => cmd["write"] = "fail" \/ cmd["close"] = "fail" \/ to = "absent"

-----------------------------------------------------------------------------
(* The inductive invariant behind the safety properties: what the control  *)
(* of a thread says of its command, its buffer and the relay.              *)

OpenCtl ==
    /\ main = "start" => cmd["open"] = "idle"
    /\ cmd["open"] \in {"idle", "sent"} => relay = "none"
    /\ cmd["open"] = "ok" => relay # "none"
    /\ main \notin {"start", "opening", "failed", "killed"} => relay # "none"
    /\ main \in {"start", "opening", "setup", "accept"} => cli = "none"
    /\ relay = "none" =>
        /\ to = "none" /\ from = "none" /\ cli = "none"
        /\ svcSent = <<>> /\ downQ = <<>> /\ fromBuf = <<>>
        /\ sockOut = <<>> /\ cliGot = <<>>

ToCtl ==
    /\ to \in {"none", "read", "close", "absent"} =>
            toBuf = <<>> /\ cmd["write"] = "idle"
    /\ cmd["write"] = "ok" => toBuf = <<>>
    /\ cmd["write"] = "sent" => to = "write"
    /\ to = "done" => cmd["write"] = "fail" \/ cmd["close"] \in {"ok", "fail"}
    /\ main \in {"start", "opening", "setup", "accept", "spawn_to"} => to = "none"
    /\ main \in {"join_from", "exited"} => to \in {"done", "absent"}

FromCtl ==
    /\ from # "write" /\ cmd["read"] # "ok" => fromBuf = <<>>
    /\ from \in {"none", "shutdown", "done", "absent"} => fromBuf = <<>>
    /\ from \in {"none", "write", "absent"} => cmd["read"] = "idle"
    /\ cmd["read"] = "sent" => from = "read"
    /\ hostShut => from = "done"
    /\ main \in {"start", "opening", "setup", "accept", "spawn_to", "spawn_from"}
            => from = "none"
    /\ main = "exited" => from \in {"done", "absent"}

\* From the decision to close on, no byte can be between the client and the
\* service, unless the connection was reset.
CloseCtl ==
    /\ cmd["close"] = "sent" => to = "close"
    /\ cmd["close"] # "idle" => to \in {"close", "done"}
    /\ cmd["close"] = "ok" => relay = "closed"
    /\ relay = "closed" => cmd["close"] \in {"ok", "fail"}
    /\ to = "close" \/ cmd["close"] # "idle" =>
        /\ cmd["write"] = "idle" /\ toBuf = <<>>
        /\ cli = "reset" \/ (sockIn = <<>> /\ (cli \in {"half", "closed"} \/ hostShut))

\* A READ of length 0 was the last word of the service.
EndCtl ==
    cmd["read"] = "ok" /\ fromBuf = <<>> =>
        /\ svc = "down"
        /\ cli \notin {"closed", "reset"} => svcSent = cliGot \o sockOut

\* The control facts together with the two flows: inductive, and it implies
\* every safety property above.
IInv == /\ TypeOK
        /\ OpenCtl /\ ToCtl /\ FromCtl /\ CloseCtl /\ EndCtl
        /\ UpNoLoss /\ DownNoLoss

-----------------------------------------------------------------------------
(* Each direction implements a pipe (BytePipe), whatever the other does.   *)

UpBroken == \/ Ended \/ svc = "down" \/ relay = "closed" \/ cli = "reset"
            \/ cmd["write"] = "fail" \/ to = "absent"

DownBroken == \/ Ended \/ relay = "closed" \/ cli \in {"closed", "reset"}
              \/ cmd["read"] = "fail" \/ from = "absent"

PipeState(broken) == IF broken THEN "broken"
                     ELSE IF cli = "none" THEN "idle" ELSE "open"

Up == INSTANCE BytePipe WITH
          src <- cliSent, dst <- svcGot, state <- PipeState(UpBroken)

Down == INSTANCE BytePipe WITH
          src <- svcSent, dst <- cliGot \o sockOut, state <- PipeState(DownBroken)

\* The client's bytes reach the service in the order they were sent, each once
\* and none after a gap, also once something has failed: what a failed WRITE
\* takes with it is the end of the stream.
UpInOrder == Up!PipeSafe

\* The service's bytes reach the client's connection in order, each once and
\* none after a gap, also those a READ had fetched before the relay was closed.
DownInOrder == Down!PipeSafe

\* The client's bytes reach the service in order, and all of them while
\* nothing breaks, even if the client never reads its own socket.
UpPipe == UpInOrder /\ (WritesAnswered => Up!Delivery)

\* The service's bytes reach the client's connection in order, and all of them
\* while nothing breaks, even if the service never takes a WRITE.
DownPipe == DownInOrder /\ (ClientReads => Down!Delivery)

-----------------------------------------------------------------------------
(* Liveness                                                                *)

Joined == main \in {"spawn_to", "spawn_from", "join_to", "join_from"}

\* A client that closes its side ends the process: the relay is closed, which
\* completes the READ that blocks the other thread.  The exceptions are a
\* WRITE that has failed, which leaves nobody to notice, and a failed CLOSE.
Hangup ==
    ClientReads /\ WritesAnswered =>
        (cli \in {"half", "closed", "reset"} ~>
            Ended \/ cmd["write"] = "fail" \/ cmd["close"] = "fail" \/ to = "absent")

\* A service that closes its side ends the process: the last READ returns 0,
\* the socket is shut and that wakes the thread blocked in read().
ServiceEnd ==
    ClientReads /\ WritesAnswered => (svc = "down" /\ Joined ~> Ended \/ from = "absent")

\* README.md:18 "When the socket is closed the relay also closes", for a
\* client that closes its end of the socket.
RelayClosesWithSocket == cli \in {"closed", "reset"} ~> relay # "open"
=============================================================================
