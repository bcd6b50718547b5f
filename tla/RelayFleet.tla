----------------------------- MODULE RelayFleet -----------------------------
(***************************************************************************)
(* Several processes of host/socket_relay/main.c and the drive's table of  *)
(* relay descriptors.  A process names its relay in every command by the   *)
(* number that OPEN_RELAY returned, so a command that the drive executes   *)
(* after the relay was closed reaches whatever has that number then.       *)
(*                                                                         *)
(* A process relays one client and ends; a relaunch is another process.    *)
(* What SocketRelay says of one process in detail is kept to its control:  *)
(* which thread may issue which command when, and what is left behind when *)
(* a process dies or the host gives up on a command.                       *)
(***************************************************************************)
CONSTANTS
    Proc,     \* the processes, each launched at most once
    Desc,     \* the descriptors the drive has
    NoProc,   \* the owner of a descriptor that is free
    NoDesc,   \* the descriptor of a process that has none
    Reuse     \* whether the drive may give a descriptor out again

ASSUME FleetAssumption ==
    NoProc \notin Proc /\ NoDesc \notin Desc /\ Reuse \subseteq BOOLEAN

VARIABLES
    main,     \* control of main() and communicate() of each process
    to,       \* control of its relay_to_nvme_thread_fn
    from,     \* control of its relay_from_nvme_thread_fn
    cli,      \* its client's end of the connection
    desc,     \* its relay_desc
    cmd,      \* its commands in the drive; "late": the host has given up on it
    table,    \* the process whose relay each descriptor is
    used,     \* the descriptors that have been given out
    reuse,    \* whether one of these may be given out again
    writtenBy, readBy, closedBy, \* the processes whose commands have written
              \* to, read from and closed the relay of each process
    failed    \* the processes that were killed or saw a command fail

thread == <<main, to, from, cli, desc>>
drive  == <<table, used, reuse, writtenBy, readBy, closedBy>>
vars   == <<thread, cmd, drive, failed>>

Op == {"open", "write", "read", "close"}

TypeOK ==
    /\ main \in [Proc -> {"off", "opening", "accept", "run", "ended"}]
    /\ to \in [Proc -> {"none", "read", "write", "close", "done", "absent"}]
    /\ from \in [Proc -> {"none", "read", "write", "shutdown", "done", "absent"}]
    /\ cli \in [Proc -> {"none", "open", "half", "gone"}]
    /\ desc \in [Proc -> Desc \cup {NoDesc}]
    /\ cmd \in [Proc -> [Op -> {"idle", "sent", "late"}]]
    /\ table \in [Desc -> Proc \cup {NoProc}]
    /\ used \subseteq Desc /\ reuse \in BOOLEAN /\ failed \subseteq Proc
    /\ writtenBy \in [Proc -> SUBSET Proc]
    /\ readBy \in [Proc -> SUBSET Proc]
    /\ closedBy \in [Proc -> SUBSET Proc]
    /\ \A p \in Proc : main[p] \in {"accept", "run"} => desc[p] \in Desc

Init ==
    /\ main = [p \in Proc |-> "off"] /\ cli = [p \in Proc |-> "none"]
    /\ to = [p \in Proc |-> "none"] /\ from = [p \in Proc |-> "none"]
    /\ desc = [p \in Proc |-> NoDesc]
    /\ cmd = [p \in Proc |-> [op \in Op |-> "idle"]]
    /\ table = [d \in Desc |-> NoProc] /\ used = {} /\ reuse \in Reuse
    /\ writtenBy = [p \in Proc |-> {}] /\ readBy = [p \in Proc |-> {}]
    /\ closedBy = [p \in Proc |-> {}] /\ failed = {}

Go(f, p, pc)    == f' = [f EXCEPT ![p] = pc]
Issue(p, op)    == cmd[p][op] = "idle" /\ cmd' = [cmd EXCEPT ![p][op] = "sent"]
Complete(p, op) == cmd' = [cmd EXCEPT ![p][op] = "idle"]
Fail(p)         == failed' = failed \cup {p}

\* A process that waits for the answer gets it; one that has died, or has
\* given up on the command, does not.
Waits(p, op) == cmd[p][op] = "sent" /\ main[p] # "ended"

-----------------------------------------------------------------------------
(* The processes                                                           *)

OpenRelay(p) ==
    /\ main[p] = "off" /\ Go(main, p, "opening") /\ Issue(p, "open")
    /\ UNCHANGED <<to, from, cli, desc, drive, failed>>

\* A call that opens the port or waits for the client fails: exit(-1).
AcceptFails(p) ==
    /\ main[p] = "accept" /\ Go(main, p, "ended")
    /\ UNCHANGED <<to, from, cli, desc, cmd, drive, failed>>

\* communicate(): whether pthread_create() succeeds is not looked at.
Accept(p) ==
    /\ main[p] = "accept" /\ Go(main, p, "run") /\ Go(cli, p, "open")
    /\ \E pc \in {"read", "absent"} : Go(to, p, pc)
    /\ \E pc \in {"read", "absent"} : Go(from, p, pc)
    /\ UNCHANGED <<desc, cmd, drive, failed>>

\* read() returns a chunk, which may have been sent before the client hung up.
ToRead(p) ==
    /\ main[p] = "run" /\ to[p] = "read"
    /\ Go(to, p, "write") /\ Issue(p, "write")
    /\ UNCHANGED <<main, from, cli, desc, drive, failed>>

\* Mutant: the thread ends without closing the relay.
ToEofNoClose(p) ==
    /\ main[p] = "run" /\ to[p] = "read"
    /\ cli[p] \in {"half", "gone"} \/ from[p] = "done"
    /\ Go(to, p, "done")
    /\ UNCHANGED <<main, from, cli, desc, cmd, drive, failed>>

\* End of file, from the client or from the other thread's shutdown().
ToEof(p) ==
    /\ main[p] = "run" /\ to[p] = "read"
    /\ cli[p] \in {"half", "gone"} \/ from[p] = "done"
    /\ Go(to, p, "close")
    /\ UNCHANGED <<main, from, cli, desc, cmd, drive, failed>>

CloseRelay(p) ==
    /\ main[p] = "run" /\ to[p] = "close" /\ Issue(p, "close")
    /\ UNCHANGED <<thread, drive, failed>>

ReadRelay(p) ==
    /\ main[p] = "run" /\ from[p] = "read" /\ Issue(p, "read")
    /\ UNCHANGED <<thread, drive, failed>>

\* write() to a client that is gone goes on, fails or kills the process.
SockWrite(p) ==
    /\ main[p] = "run" /\ from[p] = "write"
    /\ \/ Go(from, p, "read") /\ UNCHANGED <<main, failed>>
       \/ cli[p] = "gone" /\ Go(from, p, "shutdown") /\ UNCHANGED <<main, failed>>
       \/ cli[p] = "gone" /\ Go(main, p, "ended") /\ Fail(p) /\ UNCHANGED from
    /\ UNCHANGED <<to, cli, desc, cmd, drive>>

\* Mutant: both threads close the relay.
ShutdownCloses(p) ==
    /\ main[p] = "run" /\ from[p] = "shutdown" /\ Go(from, p, "done")
    /\ Issue(p, "close")
    /\ UNCHANGED <<main, to, cli, desc, drive, failed>>

Shutdown(p) ==
    /\ main[p] = "run" /\ from[p] = "shutdown" /\ Go(from, p, "done")
    /\ UNCHANGED <<main, to, cli, desc, cmd, drive, failed>>

\* Joining a thread that was never created returns, or the process crashes,
\* which is a Signal.
Join(p) ==
    /\ main[p] = "run" /\ Go(main, p, "ended")
    /\ to[p] \in {"done", "absent"} /\ from[p] \in {"done", "absent"}
    /\ UNCHANGED <<to, from, cli, desc, cmd, drive, failed>>

Signal(p) ==
    /\ main[p] \notin {"off", "ended"} /\ Go(main, p, "ended") /\ Fail(p)
    /\ UNCHANGED <<to, from, cli, desc, cmd, drive>>

Hangup(p) ==
    /\ main[p] = "run"
    /\ \/ cli[p] = "open" /\ Go(cli, p, "half")
       \/ cli[p] \in {"open", "half"} /\ Go(cli, p, "gone")
    /\ UNCHANGED <<main, to, from, desc, cmd, drive, failed>>

-----------------------------------------------------------------------------
(* What a process does with the answer to a command.                       *)

\* Mutant: a negative descriptor is not taken for an error.
OpenedUnchecked(p, ok) == Go(main, p, "accept") /\ UNCHANGED <<to, from>>

Opened(p, ok) ==
    Go(main, p, IF ok THEN "accept" ELSE "ended") /\ UNCHANGED <<to, from>>

\* Mutant: the relay is closed also when a WRITE has failed.
WrittenCloses(p, ok) ==
    Go(to, p, IF ok THEN "read" ELSE "close") /\ UNCHANGED <<main, from>>

\* A WRITE that fails ends the thread without a CLOSE.
Written(p, ok) ==
    Go(to, p, IF ok THEN "read" ELSE "done") /\ UNCHANGED <<main, from>>

HasRead(p, ok) ==
    Go(from, p, IF ok THEN "write" ELSE "shutdown") /\ UNCHANGED <<main, to>>

Closed(p, ok) == Go(to, p, "done") /\ UNCHANGED <<main, from>>

Answer(p, op, ok) ==
    IF Waits(p, op)
      THEN CASE op = "open"  -> Opened(p, ok)
             [] op = "write" -> Written(p, ok)
             [] op = "read"  -> HasRead(p, ok)
             [] op = "close" -> Closed(p, ok)
      ELSE UNCHANGED <<main, to, from>>

\* The host gives up on a command; the drive still has it.
Timeout(p, op) ==
    /\ Waits(p, op) /\ Answer(p, op, FALSE)
    /\ cmd' = [cmd EXCEPT ![p][op] = "late"]
    /\ IF op = "read" THEN UNCHANGED failed ELSE Fail(p)
    /\ UNCHANGED <<cli, desc, drive>>

-----------------------------------------------------------------------------
(* The drive                                                               *)

Owner(p) == IF desc[p] = NoDesc THEN NoProc ELSE table[desc[p]]

DevOpen(p) ==
    /\ cmd[p]["open"] # "idle" /\ Complete(p, "open")
    /\ \/ \E d \in Desc :
            /\ table[d] = NoProc /\ (reuse \/ d \notin used)
            /\ table' = [table EXCEPT ![d] = p] /\ used' = used \cup {d}
            /\ desc' = [desc EXCEPT ![p] = d] /\ Answer(p, "open", TRUE)
       \/ Answer(p, "open", FALSE) /\ UNCHANGED <<table, used, desc>>
    /\ UNCHANGED <<cli, reuse, writtenBy, readBy, closedBy, failed>>

DevWrite(p) ==
    LET q == Owner(p) IN
    /\ cmd[p]["write"] # "idle" /\ Complete(p, "write")
    /\ \/ /\ q # NoProc /\ Answer(p, "write", TRUE)
          /\ writtenBy' = [writtenBy EXCEPT ![q] = @ \cup {p}] /\ UNCHANGED failed
       \/ Answer(p, "write", FALSE) /\ Fail(p) /\ UNCHANGED writtenBy
    /\ UNCHANGED <<cli, desc, table, used, reuse, readBy, closedBy>>

\* Data of the service behind the descriptor, its end, or a failure.
DevRead(p) ==
    LET q == Owner(p) IN
    /\ cmd[p]["read"] # "idle" /\ Complete(p, "read")
    /\ \/ /\ q # NoProc /\ Answer(p, "read", TRUE)
          /\ readBy' = [readBy EXCEPT ![q] = @ \cup {p}]
       \/ Answer(p, "read", FALSE) /\ UNCHANGED readBy
    /\ UNCHANGED <<cli, desc, table, used, reuse, writtenBy, closedBy, failed>>

DevClose(p) ==
    LET q == Owner(p) IN
    /\ cmd[p]["close"] # "idle" /\ Complete(p, "close")
    /\ \/ /\ q # NoProc /\ Answer(p, "close", TRUE)
          /\ table' = [table EXCEPT ![desc[p]] = NoProc]
          /\ closedBy' = [closedBy EXCEPT ![q] = @ \cup {p}] /\ UNCHANGED failed
       \/ Answer(p, "close", FALSE) /\ Fail(p) /\ UNCHANGED <<table, closedBy>>
    /\ UNCHANGED <<cli, desc, used, reuse, writtenBy, readBy>>

-----------------------------------------------------------------------------
Process(p) == \/ OpenRelay(p) \/ Accept(p) \/ AcceptFails(p) \/ ToRead(p) \/ ToEof(p)
              \/ CloseRelay(p) \/ ReadRelay(p) \/ SockWrite(p) \/ Shutdown(p) \/ Join(p)
              \/ Signal(p) \/ \E op \in Op : Timeout(p, op)
Drive(p)   == DevOpen(p) \/ DevWrite(p) \/ DevRead(p) \/ DevClose(p)

Next == \E p \in Proc : Process(p) \/ Drive(p) \/ Hangup(p)
Spec == Init /\ [][Next]_vars

-----------------------------------------------------------------------------
\* What a service receives comes from the client of its own relay, also when
\* descriptors are used again and the drive executes commands that the host
\* has given up on or whose process has died.
WritesOwn == \A p \in Proc : writtenBy[p] \subseteq {p}

\* tsp_nvme_close_relay(): a process never closes the relay of another one.
ClosesOwn == \A p \in Proc : closedBy[p] \subseteq {p}

\* The client has hung up, or relay_from_nvme_thread_fn() has stopped reading.
Leaving(p) == cli[p] \in {"half", "gone"} \/ from[p] \in {"shutdown", "done"}

\* A READ takes bytes only of the relay of its own process.  The exception is
\* a process that has closed its relay, on its client's end of file or after
\* its own READ failed, with another READ issued after that or left behind in
\* the drive: if the drive has given the descriptor out again by then, that READ
\* takes the bytes of another process.  While its client is there and its
\* READs succeed, a process never does.
ReadsOwn ==
    \A p, q \in Proc : p \in readBy[q] /\ p # q =>
        reuse /\ p \in closedBy[p] /\ Leaving(p)

\* A process that relayed a client and has ended holds no descriptor of the
\* drive, unless it was killed, saw a command other than a READ fail, or ran
\* without relay_to_nvme_thread_fn(), which alone closes the relay.  One that
\* ends before it has a client is not meant: it keeps its descriptor.
DescriptorReturned ==
    \A p \in Proc :
        main[p] = "ended" /\ cli[p] # "none" /\ p \notin failed /\ to[p] # "absent"
            => \A d \in Desc : table[d] # p
=============================================================================
