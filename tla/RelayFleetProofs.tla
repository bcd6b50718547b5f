-------------------------- MODULE RelayFleetProofs --------------------------
(***************************************************************************)
(* What RelayFleet promises, for any number of processes and descriptors,  *)
(* with and without descriptors that are used again.                       *)
(***************************************************************************)
EXTENDS RelayFleet, TLAPS

Out(p, op) == cmd[p][op] # "idle"
Open(p)    == closedBy[p] = {}

\* A process has no descriptor before its OPEN is executed, and no thread
\* before it has a client.
StartCtl(p) ==
    /\ main[p] \in {"off", "opening"} \/ Out(p, "open") => desc[p] = NoDesc
    /\ Out(p, "open") => main[p] \in {"opening", "ended"}
    /\ cmd[p]["open"] = "late" => main[p] = "ended"
    /\ main[p] \in {"off", "opening", "accept"} =>
            to[p] = "none" /\ from[p] = "none" /\ cli[p] = "none"
    /\ \A op \in {"write", "read", "close"} : Out(p, op) => desc[p] \in Desc

\* A WRITE and a CLOSE are never outstanding together, and none of them behind
\* an executed CLOSE: the thread that issues both goes on only when it has the
\* answer, and ends when it gives up.
ToCtl(p) ==
    /\ to[p] \in {"none", "read", "write", "absent"} => Open(p) /\ ~Out(p, "close")
    /\ main[p] = "run" /\ to[p] = "close" /\ ~Out(p, "close") => Open(p)
    /\ Out(p, "write") => Open(p) /\ ~Out(p, "close") /\ to[p] \in {"write", "done"}
    /\ Out(p, "close") => Open(p) /\ ~Out(p, "write") /\ to[p] \in {"close", "done"}
    /\ cmd[p]["close"] = "late" => to[p] = "done"

\* A descriptor that is not closed is its process's, and a relay has one.
TableCtl(p) ==
    /\ desc[p] \in Desc /\ Open(p) => table[desc[p]] = p
    /\ \A d \in Desc : table[d] = p => desc[p] = d
    /\ desc[p] \in Desc => desc[p] \in used
    /\ desc[p] \in Desc /\ ~reuse => table[desc[p]] \in {p, NoProc}

\* The relay is closed only after the client hung up or reading was given up,
\* and a process whose READ is not answered yet is still reading.
ReadCtl(p) ==
    /\ cmd[p]["read"] = "sent" => from[p] = "read"
    /\ ~Open(p) \/ Out(p, "close") \/ to[p] = "close" => Leaving(p)

\* A process that had a client and the thread that closes, and saw no command
\* fail, ends with its relay closed or never open.
EndCtl(p) == p \notin failed =>
    /\ to[p] = "done" => \A d \in Desc : table[d] # p
    /\ main[p] = "ended" => to[p] \in {"done", "absent"} \/ desc[p] = NoDesc \/ cli[p] = "none"
    /\ Out(p, "open") => main[p] = "opening"
    /\ \A op \in {"open", "write", "close"} : cmd[p][op] # "late"

Inv == /\ TypeOK /\ WritesOwn /\ ClosesOwn /\ ReadsOwn
       /\ \A p \in Proc : StartCtl(p) /\ ToCtl(p) /\ TableCtl(p) /\ ReadCtl(p) /\ EndCtl(p)

-----------------------------------------------------------------------------
\* Every variable starts in its type.
LEMMA TypeInit == Init => TypeOK
  <1> SUFFICES ASSUME Init PROVE TypeOK
    OBVIOUS
  <1>1. cmd \in [Proc -> [Op -> {"idle", "sent", "late"}]]
    BY DEF Init
  <1>2. reuse \in BOOLEAN
    BY FleetAssumption DEF Init
  <1>3. QED
    BY <1>1, <1>2 DEF Init, TypeOK

\* What the answer to a command does to the threads of its process.
LEMMA AnswerEffect ==
    ASSUME NEW p \in Proc, NEW op \in Op, NEW ok \in BOOLEAN, Answer(p, op, ok)
    PROVE  /\ main' = IF Waits(p, op) /\ op = "open"
                        THEN [main EXCEPT ![p] = IF ok THEN "accept" ELSE "ended"] ELSE main
           /\ to' = IF Waits(p, op) /\ op \in {"write", "close"}
                      THEN [to EXCEPT ![p] = IF ok /\ op = "write" THEN "read" ELSE "done"]
                      ELSE to
           /\ from' = IF Waits(p, op) /\ op = "read"
                        THEN [from EXCEPT ![p] = IF ok THEN "write" ELSE "shutdown"] ELSE from
  <1>1. CASE ~Waits(p, op)
    BY <1>1 DEF Answer
  <1>2. CASE Waits(p, op) /\ op = "open"
    BY <1>2 DEF Answer, Opened, Go
  <1>3. CASE Waits(p, op) /\ op = "write"
    BY <1>3 DEF Answer, Written, Go
  <1>4. CASE Waits(p, op) /\ op = "read"
    BY <1>4 DEF Answer, HasRead, Go
  <1>5. CASE Waits(p, op) /\ op = "close"
    BY <1>5 DEF Answer, Closed, Go
  <1>6. QED
    BY <1>1, <1>2, <1>3, <1>4, <1>5 DEF Op

\* No answer takes a control variable out of its type, and only the answer to
\* an OPEN that succeeded lets a process accept clients.
LEMMA AnswerType ==
    ASSUME TypeOK, NEW p \in Proc, NEW op \in Op, NEW ok \in BOOLEAN, Answer(p, op, ok)
    PROVE  /\ main' \in [Proc -> {"off", "opening", "accept", "run", "ended"}]
           /\ to' \in [Proc -> {"none", "read", "write", "close", "done", "absent"}]
           /\ from' \in [Proc -> {"none", "read", "write", "shutdown", "done", "absent"}]
           /\ \A q \in Proc : main'[q] \in {"accept", "run"} =>
                main[q] \in {"accept", "run"} \/ (q = p /\ op = "open" /\ ok)
  <1> DEFINE opened == IF ok THEN "accept" ELSE "ended"
             wrote  == IF ok /\ op = "write" THEN "read" ELSE "done"
             hasRead == IF ok THEN "write" ELSE "shutdown"
  <1>0. /\ main' = IF Waits(p, op) /\ op = "open" THEN [main EXCEPT ![p] = opened] ELSE main
        /\ to' = IF Waits(p, op) /\ op \in {"write", "close"}
                   THEN [to EXCEPT ![p] = wrote] ELSE to
        /\ from' = IF Waits(p, op) /\ op = "read" THEN [from EXCEPT ![p] = hasRead] ELSE from
    BY AnswerEffect
  <1>1. /\ opened \in {"accept", "ended"} /\ (opened = "accept" => ok)
        /\ wrote \in {"read", "done"} /\ hasRead \in {"write", "shutdown"}
    OBVIOUS
  <1> HIDE DEF opened, wrote, hasRead
  <1>2. CASE Waits(p, op) /\ op = "open"
    BY <1>0, <1>1, <1>2 DEF TypeOK
  <1>3. CASE Waits(p, op) /\ op \in {"write", "close"}
    BY <1>0, <1>1, <1>3 DEF TypeOK
  <1>4. CASE Waits(p, op) /\ op = "read"
    BY <1>0, <1>1, <1>4 DEF TypeOK
  <1>5. CASE ~Waits(p, op)
    BY <1>0, <1>5 DEF TypeOK
  <1>6. QED
    BY <1>2, <1>3, <1>4, <1>5 DEF Op

\* A command is executed on the relay of the descriptor its process has, if any.
LEMMA OwnerType ==
    ASSUME TypeOK, NEW p \in Proc
    PROVE  /\ Owner(p) \in Proc \cup {NoProc}
           /\ Owner(p) # NoProc => desc[p] \in Desc /\ Owner(p) = table[desc[p]]
  BY DEF TypeOK, Owner

\* Recording a process keeps the type of the record.
LEMMA Recorded ==
    ASSUME NEW f \in [Proc -> SUBSET Proc], NEW q \in Proc, NEW p \in Proc
    PROVE  [f EXCEPT ![q] = @ \cup {p}] \in [Proc -> SUBSET Proc]
  OBVIOUS

\* An OPEN gives its process a descriptor before it may accept a client.
LEMMA DevOpenType == ASSUME TypeOK, NEW p \in Proc, DevOpen(p) PROVE TypeOK'
  <1> USE DEF TypeOK, Op
  <1>1. cmd' \in [Proc -> [Op -> {"idle", "sent", "late"}]]
    BY DEF DevOpen, Complete
  <1>2. CASE Answer(p, "open", FALSE) /\ UNCHANGED <<table, used, desc>>
    BY <1>1, <1>2, AnswerType DEF DevOpen
  <1>3. ASSUME NEW d \in Desc, table' = [table EXCEPT ![d] = p], used' = used \cup {d},
               desc' = [desc EXCEPT ![p] = d], Answer(p, "open", TRUE)
        PROVE  TypeOK'
    <2>1. \A q \in Proc : main'[q] \in {"accept", "run"} => desc'[q] \in Desc
      BY <1>3, AnswerType
    <2>2. table' \in [Desc -> Proc \cup {NoProc}] /\ used' \subseteq Desc
      BY <1>3
    <2>3. desc' \in [Proc -> Desc \cup {NoDesc}]
      BY <1>3
    <2>4. /\ main' \in [Proc -> {"off", "opening", "accept", "run", "ended"}]
          /\ to' \in [Proc -> {"none", "read", "write", "close", "done", "absent"}]
          /\ from' \in [Proc -> {"none", "read", "write", "shutdown", "done", "absent"}]
      BY <1>3, AnswerType
    <2>5. UNCHANGED <<cli, reuse, writtenBy, readBy, closedBy, failed>>
      BY DEF DevOpen
    <2>6. QED
      BY <1>1, <2>1, <2>2, <2>3, <2>4, <2>5
  <1>4. QED
    BY <1>2, <1>3 DEF DevOpen

\* A WRITE is recorded with the relay it was executed on.
LEMMA DevWriteType == ASSUME TypeOK, NEW p \in Proc, DevWrite(p) PROVE TypeOK'
  <1> USE DEF TypeOK, Op
  <1>1. cmd' \in [Proc -> [Op -> {"idle", "sent", "late"}]]
    BY DEF DevWrite, Complete
  <1>2. writtenBy' \in [Proc -> SUBSET Proc]
    <2>1. CASE UNCHANGED writtenBy
      BY <2>1
    <2>2. CASE Owner(p) \in Proc /\ writtenBy' = [writtenBy EXCEPT ![Owner(p)] = @ \cup {p}]
      BY <2>2, Recorded
    <2>3. QED
      BY <2>1, <2>2, OwnerType DEF DevWrite
  <1>4. failed' \subseteq Proc
    BY DEF DevWrite, Fail
  <1>3. \E ok \in BOOLEAN : Answer(p, "write", ok)
    BY DEF DevWrite
  <1>6. QED
    BY <1>1, <1>2, <1>4, <1>3, AnswerType DEF DevWrite

\* A READ is recorded with the relay it was executed on.
LEMMA DevReadType == ASSUME TypeOK, NEW p \in Proc, DevRead(p) PROVE TypeOK'
  <1> USE DEF TypeOK, Op
  <1>1. cmd' \in [Proc -> [Op -> {"idle", "sent", "late"}]]
    BY DEF DevRead, Complete
  <1>2. readBy' \in [Proc -> SUBSET Proc]
    <2>1. CASE UNCHANGED readBy
      BY <2>1
    <2>2. CASE Owner(p) \in Proc /\ readBy' = [readBy EXCEPT ![Owner(p)] = @ \cup {p}]
      BY <2>2, Recorded
    <2>3. QED
      BY <2>1, <2>2, OwnerType DEF DevRead
  <1>4. failed' \subseteq Proc
    BY DEF DevRead
  <1>3. \E ok \in BOOLEAN : Answer(p, "read", ok)
    BY DEF DevRead
  <1>6. QED
    BY <1>1, <1>2, <1>4, <1>3, AnswerType DEF DevRead

\* A CLOSE is recorded, and frees the descriptor.
LEMMA DevCloseType == ASSUME TypeOK, NEW p \in Proc, DevClose(p) PROVE TypeOK'
  <1> USE DEF TypeOK, Op
  <1>1. cmd' \in [Proc -> [Op -> {"idle", "sent", "late"}]]
    BY DEF DevClose, Complete
  <1>2. closedBy' \in [Proc -> SUBSET Proc]
    <2>1. CASE UNCHANGED closedBy
      BY <2>1
    <2>2. CASE Owner(p) \in Proc /\ closedBy' = [closedBy EXCEPT ![Owner(p)] = @ \cup {p}]
      BY <2>2, Recorded
    <2>3. QED
      BY <2>1, <2>2, OwnerType DEF DevClose
  <1>4. failed' \subseteq Proc
    BY DEF DevClose, Fail
  <1>5. table' \in [Desc -> Proc \cup {NoProc}]
    BY DEF DevClose
  <1>3. \E ok \in BOOLEAN : Answer(p, "close", ok)
    BY DEF DevClose
  <1>6. QED
    BY <1>1, <1>2, <1>4, <1>5, <1>3, AnswerType DEF DevClose

\* Giving up on a command answers it with a failure and leaves it in the drive.
LEMMA TimeoutType ==
    ASSUME TypeOK, NEW p \in Proc, NEW op \in Op, Timeout(p, op) PROVE TypeOK'
  <1> USE DEF TypeOK
  <1>1. cmd' \in [Proc -> [Op -> {"idle", "sent", "late"}]]
    BY DEF Timeout
  <1>2. failed' \subseteq Proc
    BY DEF Timeout, Fail
  <1>3. Answer(p, op, FALSE) /\ UNCHANGED <<cli, desc, drive>>
    BY DEF Timeout
  <1>4. /\ main' \in [Proc -> {"off", "opening", "accept", "run", "ended"}]
        /\ to' \in [Proc -> {"none", "read", "write", "close", "done", "absent"}]
        /\ from' \in [Proc -> {"none", "read", "write", "shutdown", "done", "absent"}]
        /\ \A q \in Proc : main'[q] \in {"accept", "run"} => main[q] \in {"accept", "run"}
    BY <1>3, AnswerType
  <1>5. QED
    BY <1>1, <1>2, <1>3, <1>4 DEF drive

\* No action leaves the types.
LEMMA TypeStep == TypeOK /\ [Next]_vars => TypeOK'
  <1> SUFFICES ASSUME TypeOK, [Next]_vars PROVE TypeOK'
    OBVIOUS
  <1> USE DEF TypeOK, Op, thread, drive
  <1>0. CASE UNCHANGED vars
    BY <1>0 DEF vars
  <1>1. ASSUME NEW p \in Proc, OpenRelay(p) PROVE TypeOK'
    BY <1>1 DEF OpenRelay, Go, Issue
  <1>2. ASSUME NEW p \in Proc, Accept(p) PROVE TypeOK'
    BY <1>2 DEF Accept, Go
  <1>3. ASSUME NEW p \in Proc, ToRead(p) PROVE TypeOK'
    BY <1>3 DEF ToRead, Go, Issue
  <1>4. ASSUME NEW p \in Proc, ToEof(p) PROVE TypeOK'
    BY <1>4 DEF ToEof, Go
  <1>5. ASSUME NEW p \in Proc, CloseRelay(p) PROVE TypeOK'
    BY <1>5 DEF CloseRelay, Issue
  <1>6. ASSUME NEW p \in Proc, ReadRelay(p) PROVE TypeOK'
    BY <1>6 DEF ReadRelay, Issue
  <1>7. ASSUME NEW p \in Proc, SockWrite(p) PROVE TypeOK'
    <2>1. UNCHANGED <<to, cli, desc, cmd, drive>>
      BY <1>7 DEF SockWrite
    <2>2. CASE /\ UNCHANGED <<main, failed>>
               /\ \E pc \in {"read", "shutdown"} : from' = [from EXCEPT ![p] = pc]
      BY <2>1, <2>2
    <2>3. CASE /\ main' = [main EXCEPT ![p] = "ended"] /\ failed' = failed \cup {p}
               /\ UNCHANGED from
      BY <2>1, <2>3
    <2>4. QED
      BY <1>7, <2>2, <2>3 DEF SockWrite, Go, Fail
  <1>8. ASSUME NEW p \in Proc, Shutdown(p) PROVE TypeOK'
    BY <1>8 DEF Shutdown, Go
  <1>9. ASSUME NEW p \in Proc, Join(p) PROVE TypeOK'
    BY <1>9 DEF Join, Go
  <1>10. ASSUME NEW p \in Proc, Signal(p) PROVE TypeOK'
    BY <1>10 DEF Signal, Go, Fail
  <1>11. ASSUME NEW p \in Proc, Hangup(p) PROVE TypeOK'
    BY <1>11 DEF Hangup, Go
  <1>12. ASSUME NEW p \in Proc, DevOpen(p) PROVE TypeOK'
    BY <1>12, DevOpenType
  <1>13. ASSUME NEW p \in Proc, DevWrite(p) PROVE TypeOK'
    BY <1>13, DevWriteType
  <1>14. ASSUME NEW p \in Proc, DevRead(p) PROVE TypeOK'
    BY <1>14, DevReadType
  <1>15. ASSUME NEW p \in Proc, DevClose(p) PROVE TypeOK'
    BY <1>15, DevCloseType
  <1>16. ASSUME NEW p \in Proc, NEW op \in Op, Timeout(p, op) PROVE TypeOK'
    BY <1>16, TimeoutType
  <1>17. ASSUME NEW p \in Proc, AcceptFails(p) PROVE TypeOK'
    BY <1>17 DEF AcceptFails, Go
  <1>18. QED
    BY <1>0, <1>1, <1>2, <1>3, <1>4, <1>5, <1>6, <1>7, <1>8, <1>9, <1>10, <1>11, <1>12,
       <1>13, <1>14, <1>15, <1>16, <1>17 DEF Next, Process, Drive

\* Each action keeps what holds of a process until its OPEN is answered.
LEMMA StartStep ==
    ASSUME Inv, [Next]_vars, TypeOK'
    PROVE  \A q \in Proc : StartCtl(q)'
  <1> SUFFICES ASSUME NEW q \in Proc PROVE StartCtl(q)'
    OBVIOUS
  <1> USE FleetAssumption DEF Inv, TypeOK, Op, thread, drive, Out, Open, StartCtl, ToCtl, TableCtl
  <1>0. CASE UNCHANGED vars
    BY <1>0 DEF vars
  <1>1. ASSUME NEW p \in Proc, OpenRelay(p) PROVE StartCtl(q)'
    BY <1>1 DEF OpenRelay, Go, Issue
  <1>2. ASSUME NEW p \in Proc, Accept(p) PROVE StartCtl(q)'
    BY <1>2 DEF Accept, Go, Fail
  <1>3. ASSUME NEW p \in Proc, ToRead(p) PROVE StartCtl(q)'
    BY <1>3 DEF ToRead, Go, Issue
  <1>4. ASSUME NEW p \in Proc, ToEof(p) PROVE StartCtl(q)'
    BY <1>4 DEF ToEof, Go
  <1>5. ASSUME NEW p \in Proc, CloseRelay(p) PROVE StartCtl(q)'
    BY <1>5 DEF CloseRelay, Issue
  <1>6. ASSUME NEW p \in Proc, ReadRelay(p) PROVE StartCtl(q)'
    BY <1>6 DEF ReadRelay, Issue
  <1>7. ASSUME NEW p \in Proc, SockWrite(p) PROVE StartCtl(q)'
    BY <1>7 DEF SockWrite, Go, Fail
  <1>8. ASSUME NEW p \in Proc, Shutdown(p) PROVE StartCtl(q)'
    BY <1>8 DEF Shutdown, Go
  <1>9. ASSUME NEW p \in Proc, Join(p) PROVE StartCtl(q)'
    BY <1>9 DEF Join, Go
  <1>10. ASSUME NEW p \in Proc, Signal(p) PROVE StartCtl(q)'
    BY <1>10 DEF Signal, Go, Fail
  <1>11. ASSUME NEW p \in Proc, Hangup(p) PROVE StartCtl(q)'
    BY <1>11 DEF Hangup, Go
  <1>12. ASSUME NEW p \in Proc, DevOpen(p) PROVE StartCtl(q)'
    <2>1. CASE Answer(p, "open", FALSE) /\ UNCHANGED <<table, used, desc>>
      BY <1>12, <2>1 DEF DevOpen, Answer, Opened, Waits, Go, Complete
    <2>2. ASSUME NEW d \in Desc, desc' = [desc EXCEPT ![p] = d], Answer(p, "open", TRUE)
          PROVE  StartCtl(q)'
      BY <1>12, <2>2 DEF DevOpen, Answer, Opened, Waits, Go, Complete
    <2>3. QED
      BY <1>12, <2>1, <2>2 DEF DevOpen
  <1>13. ASSUME NEW p \in Proc, DevWrite(p) PROVE StartCtl(q)'
    BY <1>13 DEF DevWrite, Answer, Written, Waits, Go, Fail, Complete
  <1>14. ASSUME NEW p \in Proc, DevRead(p) PROVE StartCtl(q)'
    BY <1>14 DEF DevRead, Answer, HasRead, Waits, Go, Complete, ReadCtl
  <1>15. ASSUME NEW p \in Proc, DevClose(p) PROVE StartCtl(q)'
    BY <1>15 DEF DevClose, Answer, Closed, Waits, Go, Fail, Complete
  <1>16. ASSUME NEW p \in Proc, NEW op \in Op, Timeout(p, op) PROVE StartCtl(q)'
    <2>1. CASE op = "open"
      BY <1>16, <2>1 DEF Timeout, Answer, Opened, Waits, Go, Fail
    <2>2. CASE op = "write"
      BY <1>16, <2>2 DEF Timeout, Answer, Written, Waits, Go, Fail
    <2>3. CASE op = "read"
      BY <1>16, <2>3 DEF Timeout, Answer, HasRead, Waits, Go, Fail, ReadCtl
    <2>4. CASE op = "close"
      BY <1>16, <2>4 DEF Timeout, Answer, Closed, Waits, Go, Fail
    <2>5. QED
      BY <2>1, <2>2, <2>3, <2>4
  <1>17. ASSUME NEW p \in Proc, AcceptFails(p) PROVE StartCtl(q)'
    BY <1>17 DEF AcceptFails, Go
  <1>18. QED
    BY <1>0, <1>1, <1>2, <1>3, <1>4, <1>5, <1>6, <1>7, <1>8, <1>9, <1>10, <1>11, <1>12,
       <1>13, <1>14, <1>15, <1>16, <1>17 DEF Next, Process, Drive

\* Each action keeps the order of the commands that the to-thread issues.
LEMMA ToStep ==
    ASSUME Inv, [Next]_vars, TypeOK'
    PROVE  \A q \in Proc : ToCtl(q)'
  <1> SUFFICES ASSUME NEW q \in Proc PROVE ToCtl(q)'
    OBVIOUS
  <1> USE FleetAssumption
      DEF Inv, TypeOK, Op, thread, drive, Out, Open, ToCtl, StartCtl, TableCtl, ClosesOwn
  <1>0. CASE UNCHANGED vars
    BY <1>0 DEF vars
  <1>1. ASSUME NEW p \in Proc, OpenRelay(p) PROVE ToCtl(q)'
    BY <1>1 DEF OpenRelay, Go, Issue
  <1>2. ASSUME NEW p \in Proc, Accept(p) PROVE ToCtl(q)'
    <2>1. main[p] = "accept" /\ to[p] = "none" /\ UNCHANGED <<desc, cmd, drive>>
      BY <1>2 DEF Accept
    <2>2. ~Out(p, "write") /\ ~Out(p, "close")
      BY <2>1
    <2>3. PICK pc \in {"read", "absent"} : to' = [to EXCEPT ![p] = pc]
      BY <1>2 DEF Accept, Go
    <2>4. main' = [main EXCEPT ![p] = "run"]
      BY <1>2 DEF Accept, Go
    <2>5. QED
      BY <2>1, <2>2, <2>3, <2>4
  <1>3. ASSUME NEW p \in Proc, ToRead(p) PROVE ToCtl(q)'
    BY <1>3 DEF ToRead, Go, Issue
  <1>4. ASSUME NEW p \in Proc, ToEof(p) PROVE ToCtl(q)'
    BY <1>4 DEF ToEof, Go
  <1>5. ASSUME NEW p \in Proc, CloseRelay(p) PROVE ToCtl(q)'
    BY <1>5 DEF CloseRelay, Issue
  <1>6. ASSUME NEW p \in Proc, ReadRelay(p) PROVE ToCtl(q)'
    BY <1>6 DEF ReadRelay, Issue
  <1>7. ASSUME NEW p \in Proc, SockWrite(p) PROVE ToCtl(q)'
    <2>1. main[p] = "run" /\ UNCHANGED <<to, desc, cmd, drive>>
      BY <1>7 DEF SockWrite
    <2>2. main'[q] = "run" => main[q] = "run"
      BY <1>7 DEF SockWrite, Go
    <2>3. QED
      BY <2>1, <2>2
  <1>8. ASSUME NEW p \in Proc, Shutdown(p) PROVE ToCtl(q)'
    BY <1>8 DEF Shutdown, Go
  <1>9. ASSUME NEW p \in Proc, Join(p) PROVE ToCtl(q)'
    BY <1>9 DEF Join, Go
  <1>10. ASSUME NEW p \in Proc, Signal(p) PROVE ToCtl(q)'
    BY <1>10 DEF Signal, Go, Fail
  <1>11. ASSUME NEW p \in Proc, Hangup(p) PROVE ToCtl(q)'
    BY <1>11 DEF Hangup, Go
  <1>12. ASSUME NEW p \in Proc, DevOpen(p) PROVE ToCtl(q)'
    BY <1>12 DEF DevOpen, Answer, Opened, Waits, Go, Complete
  <1>13. ASSUME NEW p \in Proc, DevWrite(p) PROVE ToCtl(q)'
    BY <1>13 DEF DevWrite, Answer, Written, Waits, Go, Fail, Complete
  <1>14. ASSUME NEW p \in Proc, DevRead(p) PROVE ToCtl(q)'
    BY <1>14 DEF DevRead, Answer, HasRead, Waits, Go, Complete
  <1>15. ASSUME NEW p \in Proc, DevClose(p) PROVE ToCtl(q)'
    BY <1>15 DEF DevClose, Answer, Closed, Waits, Go, Fail, Complete, Owner
  <1>16. ASSUME NEW p \in Proc, NEW op \in Op, Timeout(p, op) PROVE ToCtl(q)'
    <2>1. CASE op = "open"
      BY <1>16, <2>1 DEF Timeout, Answer, Opened, Waits, Go, Fail
    <2>2. CASE op = "write"
      BY <1>16, <2>2 DEF Timeout, Answer, Written, Waits, Go, Fail
    <2>3. CASE op = "read"
      BY <1>16, <2>3 DEF Timeout, Answer, HasRead, Waits, Go, Fail
    <2>4. CASE op = "close"
      BY <1>16, <2>4 DEF Timeout, Answer, Closed, Waits, Go, Fail
    <2>5. QED
      BY <2>1, <2>2, <2>3, <2>4
  <1>17. ASSUME NEW p \in Proc, AcceptFails(p) PROVE ToCtl(q)'
    BY <1>17 DEF AcceptFails, Go
  <1>18. QED
    BY <1>0, <1>1, <1>2, <1>3, <1>4, <1>5, <1>6, <1>7, <1>8, <1>9, <1>10, <1>11, <1>12,
       <1>13, <1>14, <1>15, <1>16, <1>17 DEF Next, Process, Drive

\* Each action keeps the drive's table in step with the descriptors.
LEMMA TableStep ==
    ASSUME Inv, [Next]_vars, TypeOK'
    PROVE  \A q \in Proc : TableCtl(q)'
  <1> SUFFICES ASSUME NEW q \in Proc PROVE TableCtl(q)'
    OBVIOUS
  <1> USE FleetAssumption
      DEF Inv, TypeOK, Op, thread, drive, Out, Open, TableCtl, StartCtl, ToCtl, ClosesOwn
  <1>0. CASE UNCHANGED vars
    BY <1>0 DEF vars
  <1>1. ASSUME NEW p \in Proc, OpenRelay(p) PROVE TableCtl(q)'
    BY <1>1 DEF OpenRelay, Go, Issue
  <1>2. ASSUME NEW p \in Proc, Accept(p) PROVE TableCtl(q)'
    BY <1>2 DEF Accept, Go, Fail
  <1>3. ASSUME NEW p \in Proc, ToRead(p) PROVE TableCtl(q)'
    BY <1>3 DEF ToRead, Go, Issue
  <1>4. ASSUME NEW p \in Proc, ToEof(p) PROVE TableCtl(q)'
    BY <1>4 DEF ToEof, Go
  <1>5. ASSUME NEW p \in Proc, CloseRelay(p) PROVE TableCtl(q)'
    BY <1>5 DEF CloseRelay, Issue
  <1>6. ASSUME NEW p \in Proc, ReadRelay(p) PROVE TableCtl(q)'
    BY <1>6 DEF ReadRelay, Issue
  <1>7. ASSUME NEW p \in Proc, SockWrite(p) PROVE TableCtl(q)'
    BY <1>7 DEF SockWrite, Go, Fail
  <1>8. ASSUME NEW p \in Proc, Shutdown(p) PROVE TableCtl(q)'
    BY <1>8 DEF Shutdown, Go
  <1>9. ASSUME NEW p \in Proc, Join(p) PROVE TableCtl(q)'
    BY <1>9 DEF Join, Go
  <1>10. ASSUME NEW p \in Proc, Signal(p) PROVE TableCtl(q)'
    BY <1>10 DEF Signal, Go, Fail
  <1>11. ASSUME NEW p \in Proc, Hangup(p) PROVE TableCtl(q)'
    BY <1>11 DEF Hangup, Go
  <1>12. ASSUME NEW p \in Proc, DevOpen(p) PROVE TableCtl(q)'
    BY <1>12 DEF DevOpen, Answer, Opened, Waits, Go, Complete
  <1>13. ASSUME NEW p \in Proc, DevWrite(p) PROVE TableCtl(q)'
    BY <1>13 DEF DevWrite, Answer, Written, Waits, Go, Fail, Complete
  <1>14. ASSUME NEW p \in Proc, DevRead(p) PROVE TableCtl(q)'
    BY <1>14 DEF DevRead, Answer, HasRead, Waits, Go, Complete
  <1>15. ASSUME NEW p \in Proc, DevClose(p) PROVE TableCtl(q)'
    <2>1. Open(p) /\ desc[p] \in Desc /\ table[desc[p]] = p /\ Owner(p) = p
      BY <1>15 DEF DevClose, Owner
    <2>2. UNCHANGED <<desc, used, reuse>>
      BY <1>15 DEF DevClose
    <2>3. CASE UNCHANGED <<table, closedBy>>
      BY <2>2, <2>3
    <2>4. CASE /\ table' = [table EXCEPT ![desc[p]] = NoProc]
               /\ closedBy' = [closedBy EXCEPT ![p] = @ \cup {p}]
      <3>1. \A r \in Proc : closedBy'[r] = IF r = p THEN closedBy[p] \cup {p} ELSE closedBy[r]
        BY <2>4
      <3>2. \A d \in Desc : table'[d] = IF d = desc[p] THEN NoProc ELSE table[d]
        BY <2>4
      <3>3. CASE q = p
        <4>1. closedBy'[p] # {} /\ table'[desc[p]] = NoProc
          <5>1. closedBy'[p] = closedBy[p] \cup {p}
            BY <3>1
          <5>2. p \in closedBy'[p]
            BY <5>1
          <5>3. QED
            BY <2>1, <3>2, <5>2
        <4>2. \A d \in Desc : table'[d] = p => desc[p] = d
          BY <3>2
        <4>3. QED
          BY <2>1, <2>2, <3>3, <4>1, <4>2
      <3>4. CASE q # p
        BY <2>1, <2>2, <3>1, <3>2, <3>4
      <3>5. QED
        BY <3>3, <3>4
    <2>5. QED
      BY <1>15, <2>1, <2>3, <2>4 DEF DevClose
  <1>16. ASSUME NEW p \in Proc, NEW op \in Op, Timeout(p, op) PROVE TableCtl(q)'
    BY <1>16 DEF Timeout, Answer, Opened, Written, HasRead, Closed, Go
  <1>17. ASSUME NEW p \in Proc, AcceptFails(p) PROVE TableCtl(q)'
    BY <1>17 DEF AcceptFails, Go
  <1>18. QED
    BY <1>0, <1>1, <1>2, <1>3, <1>4, <1>5, <1>6, <1>7, <1>8, <1>9, <1>10, <1>11, <1>12,
       <1>13, <1>14, <1>15, <1>16, <1>17 DEF Next, Process, Drive

\* Each action keeps what makes a process close its relay.
LEMMA ReadStep ==
    ASSUME Inv, [Next]_vars, TypeOK'
    PROVE  \A q \in Proc : ReadCtl(q)'
  <1> SUFFICES ASSUME NEW q \in Proc PROVE ReadCtl(q)'
    OBVIOUS
  <1> USE FleetAssumption
      DEF Inv, TypeOK, Op, thread, drive, Out, Open, Leaving, ReadCtl, ToCtl, StartCtl, TableCtl
  <1>0. CASE UNCHANGED vars
    BY <1>0 DEF vars
  <1>1. ASSUME NEW p \in Proc, OpenRelay(p) PROVE ReadCtl(q)'
    BY <1>1 DEF OpenRelay, Go, Issue
  <1>2. ASSUME NEW p \in Proc, Accept(p) PROVE ReadCtl(q)'
    <2>1. main[p] = "accept" /\ to[p] = "none" /\ UNCHANGED <<desc, cmd, drive>>
      BY <1>2 DEF Accept
    <2>2. Open(p) /\ ~Out(p, "close")
      BY <2>1
    <2>3. PICK pc \in {"read", "absent"} : to' = [to EXCEPT ![p] = pc]
      BY <1>2 DEF Accept, Go
    <2>4. PICK rc \in {"read", "absent"} : from' = [from EXCEPT ![p] = rc]
      BY <1>2 DEF Accept, Go
    <2>5. cmd[p]["read"] # "sent"
      BY <2>1
    <2>6. cli' = [cli EXCEPT ![p] = "open"]
      BY <1>2 DEF Accept, Go
    <2>7. QED
      BY <2>1, <2>2, <2>3, <2>4, <2>5, <2>6
  <1>3. ASSUME NEW p \in Proc, ToRead(p) PROVE ReadCtl(q)'
    BY <1>3 DEF ToRead, Go, Issue
  <1>4. ASSUME NEW p \in Proc, ToEof(p) PROVE ReadCtl(q)'
    BY <1>4 DEF ToEof, Go
  <1>5. ASSUME NEW p \in Proc, CloseRelay(p) PROVE ReadCtl(q)'
    BY <1>5 DEF CloseRelay, Issue
  <1>6. ASSUME NEW p \in Proc, ReadRelay(p) PROVE ReadCtl(q)'
    BY <1>6 DEF ReadRelay, Issue
  <1>7. ASSUME NEW p \in Proc, SockWrite(p) PROVE ReadCtl(q)'
    <2>1. from[p] = "write" /\ UNCHANGED <<to, cli, desc, cmd, drive>>
      BY <1>7 DEF SockWrite
    <2>2. \/ from' = [from EXCEPT ![p] = "read"]
          \/ from' = [from EXCEPT ![p] = "shutdown"] /\ cli[p] = "gone"
          \/ UNCHANGED from
      BY <1>7 DEF SockWrite, Go
    <2>3. QED
      BY <2>1, <2>2
  <1>8. ASSUME NEW p \in Proc, Shutdown(p) PROVE ReadCtl(q)'
    BY <1>8 DEF Shutdown, Go
  <1>9. ASSUME NEW p \in Proc, Join(p) PROVE ReadCtl(q)'
    BY <1>9 DEF Join, Go
  <1>10. ASSUME NEW p \in Proc, Signal(p) PROVE ReadCtl(q)'
    BY <1>10 DEF Signal, Go, Fail
  <1>11. ASSUME NEW p \in Proc, Hangup(p) PROVE ReadCtl(q)'
    BY <1>11 DEF Hangup, Go
  <1>12. ASSUME NEW p \in Proc, DevOpen(p) PROVE ReadCtl(q)'
    BY <1>12 DEF DevOpen, Answer, Opened, Waits, Go, Complete
  <1>13. ASSUME NEW p \in Proc, DevWrite(p) PROVE ReadCtl(q)'
    BY <1>13 DEF DevWrite, Answer, Written, Waits, Go, Fail, Complete
  <1>14. ASSUME NEW p \in Proc, DevRead(p) PROVE ReadCtl(q)'
    BY <1>14 DEF DevRead, Answer, HasRead, Waits, Go, Complete
  <1>15. ASSUME NEW p \in Proc, DevClose(p) PROVE ReadCtl(q)'
    BY <1>15 DEF DevClose, Answer, Closed, Waits, Go, Fail, Complete, Owner
  <1>16. ASSUME NEW p \in Proc, NEW op \in Op, Timeout(p, op) PROVE ReadCtl(q)'
    <2>1. CASE op = "open"
      BY <1>16, <2>1 DEF Timeout, Answer, Opened, Waits, Go, Fail
    <2>2. CASE op = "write"
      BY <1>16, <2>2 DEF Timeout, Answer, Written, Waits, Go, Fail
    <2>3. CASE op = "read"
      BY <1>16, <2>3 DEF Timeout, Answer, HasRead, Waits, Go, Fail
    <2>4. CASE op = "close"
      BY <1>16, <2>4 DEF Timeout, Answer, Closed, Waits, Go, Fail
    <2>5. QED
      BY <2>1, <2>2, <2>3, <2>4
  <1>17. ASSUME NEW p \in Proc, AcceptFails(p) PROVE ReadCtl(q)'
    BY <1>17 DEF AcceptFails, Go
  <1>18. QED
    BY <1>0, <1>1, <1>2, <1>3, <1>4, <1>5, <1>6, <1>7, <1>8, <1>9, <1>10, <1>11, <1>12,
       <1>13, <1>14, <1>15, <1>16, <1>17 DEF Next, Process, Drive

\* Each action keeps what a process leaves behind when nothing fails.
LEMMA EndStep ==
    ASSUME Inv, [Next]_vars, TypeOK'
    PROVE  \A q \in Proc : EndCtl(q)'
  <1> SUFFICES ASSUME NEW q \in Proc PROVE EndCtl(q)'
    OBVIOUS
  <1> USE FleetAssumption
      DEF Inv, TypeOK, Op, thread, drive, Out, Open, EndCtl, StartCtl, ToCtl, TableCtl
  <1>0. CASE UNCHANGED vars
    BY <1>0 DEF vars
  <1>1. ASSUME NEW p \in Proc, OpenRelay(p) PROVE EndCtl(q)'
    BY <1>1 DEF OpenRelay, Go, Issue
  <1>2. ASSUME NEW p \in Proc, Accept(p) PROVE EndCtl(q)'
    BY <1>2 DEF Accept, Go, Fail
  <1>3. ASSUME NEW p \in Proc, ToRead(p) PROVE EndCtl(q)'
    BY <1>3 DEF ToRead, Go, Issue
  <1>4. ASSUME NEW p \in Proc, ToEof(p) PROVE EndCtl(q)'
    BY <1>4 DEF ToEof, Go
  <1>5. ASSUME NEW p \in Proc, CloseRelay(p) PROVE EndCtl(q)'
    BY <1>5 DEF CloseRelay, Issue
  <1>6. ASSUME NEW p \in Proc, ReadRelay(p) PROVE EndCtl(q)'
    BY <1>6 DEF ReadRelay, Issue
  <1>7. ASSUME NEW p \in Proc, SockWrite(p) PROVE EndCtl(q)'
    BY <1>7 DEF SockWrite, Go, Fail
  <1>8. ASSUME NEW p \in Proc, Shutdown(p) PROVE EndCtl(q)'
    BY <1>8 DEF Shutdown, Go
  <1>9. ASSUME NEW p \in Proc, Join(p) PROVE EndCtl(q)'
    BY <1>9 DEF Join, Go
  <1>10. ASSUME NEW p \in Proc, Signal(p) PROVE EndCtl(q)'
    BY <1>10 DEF Signal, Go, Fail
  <1>11. ASSUME NEW p \in Proc, Hangup(p) PROVE EndCtl(q)'
    BY <1>11 DEF Hangup, Go
  <1>12. ASSUME NEW p \in Proc, DevOpen(p) PROVE EndCtl(q)'
    BY <1>12 DEF DevOpen, Answer, Opened, Waits, Go, Complete
  <1>13. ASSUME NEW p \in Proc, DevWrite(p) PROVE EndCtl(q)'
    BY <1>13 DEF DevWrite, Answer, Written, Waits, Go, Fail, Complete
  <1>14. ASSUME NEW p \in Proc, DevRead(p) PROVE EndCtl(q)'
    BY <1>14 DEF DevRead, Answer, HasRead, Waits, Go, Complete
  <1>15. ASSUME NEW p \in Proc, DevClose(p) PROVE EndCtl(q)'
    BY <1>15 DEF DevClose, Answer, Closed, Waits, Go, Fail, Complete, Owner
  <1>16. ASSUME NEW p \in Proc, NEW op \in Op, Timeout(p, op) PROVE EndCtl(q)'
    <2>1. CASE op = "open"
      BY <1>16, <2>1 DEF Timeout, Answer, Opened, Waits, Go, Fail
    <2>2. CASE op = "write"
      BY <1>16, <2>2 DEF Timeout, Answer, Written, Waits, Go, Fail
    <2>3. CASE op = "read"
      BY <1>16, <2>3 DEF Timeout, Answer, HasRead, Waits, Go, Fail
    <2>4. CASE op = "close"
      BY <1>16, <2>4 DEF Timeout, Answer, Closed, Waits, Go, Fail
    <2>5. QED
      BY <2>1, <2>2, <2>3, <2>4
  <1>17. ASSUME NEW p \in Proc, AcceptFails(p) PROVE EndCtl(q)'
    BY <1>17 DEF AcceptFails, Go
  <1>18. QED
    BY <1>0, <1>1, <1>2, <1>3, <1>4, <1>5, <1>6, <1>7, <1>8, <1>9, <1>10, <1>11, <1>12,
       <1>13, <1>14, <1>15, <1>16, <1>17 DEF Next, Process, Drive

-----------------------------------------------------------------------------
\* A WRITE and a CLOSE are executed on the relay of the process that issued
\* them; a READ too, unless the process has closed that relay.
LEMMA OwnRelay ==
    ASSUME Inv, NEW p \in Proc, Owner(p) # NoProc
    PROVE  /\ Out(p, "write") \/ Out(p, "close") => Owner(p) = p
           /\ Owner(p) # p => reuse /\ p \in closedBy[p]
  <1>1. desc[p] \in Desc /\ Owner(p) = table[desc[p]]
    BY OwnerType DEF Inv
  <1>2. Open(p) => Owner(p) = p
    BY <1>1 DEF Inv, TableCtl
  <1>3. Out(p, "write") \/ Out(p, "close") => Open(p)
    BY DEF Inv, ToCtl
  <1>4. ~Open(p) => p \in closedBy[p]
    BY DEF Inv, ClosesOwn, Open
  <1>5. ~reuse => Owner(p) = p
    BY <1>1 DEF Inv, TypeOK, TableCtl
  <1>6. QED
    BY <1>2, <1>3, <1>4, <1>5 DEF Inv, TypeOK

\* Recording a process with its own relay.
LEMMA OwnRecorded ==
    ASSUME NEW f \in [Proc -> SUBSET Proc], \A q \in Proc : f[q] \subseteq {q}, NEW p \in Proc
    PROVE  \A q \in Proc : [f EXCEPT ![p] = @ \cup {p}][q] \subseteq {q}
  OBVIOUS

\* Only an executed WRITE could record a foreign writer.
LEMMA WritesStep == ASSUME Inv, [Next]_vars PROVE WritesOwn'
  <1>1. CASE UNCHANGED writtenBy
    BY <1>1 DEF Inv, WritesOwn
  <1>2. ASSUME NEW p \in Proc, DevWrite(p) PROVE WritesOwn'
    <2>1. Out(p, "write")
      BY <1>2 DEF DevWrite, Out
    <2>2. UNCHANGED writtenBy \/ writtenBy' = [writtenBy EXCEPT ![p] = @ \cup {p}]
      BY <1>2, <2>1, OwnRelay DEF DevWrite
    <2>3. QED
      BY <2>2, OwnRecorded DEF Inv, TypeOK, WritesOwn
  <1>3. QED
    BY <1>1, <1>2 DEF Next, Process, Drive, vars, drive, OpenRelay, Accept, AcceptFails, ToRead, ToEof,
       CloseRelay, ReadRelay, SockWrite, Shutdown, Join, Signal, Timeout, Hangup,
       DevOpen, DevRead, DevClose

\* Only an executed CLOSE could record a foreign closer.
LEMMA ClosesStep == ASSUME Inv, [Next]_vars PROVE ClosesOwn'
  <1>1. CASE UNCHANGED closedBy
    BY <1>1 DEF Inv, ClosesOwn
  <1>2. ASSUME NEW p \in Proc, DevClose(p) PROVE ClosesOwn'
    <2>1. Out(p, "close")
      BY <1>2 DEF DevClose, Out
    <2>2. UNCHANGED closedBy \/ closedBy' = [closedBy EXCEPT ![p] = @ \cup {p}]
      BY <1>2, <2>1, OwnRelay DEF DevClose
    <2>3. QED
      BY <2>2, OwnRecorded DEF Inv, TypeOK, ClosesOwn
  <1>3. QED
    BY <1>1, <1>2 DEF Next, Process, Drive, vars, drive, OpenRelay, Accept, AcceptFails, ToRead, ToEof,
       CloseRelay, ReadRelay, SockWrite, Shutdown, Join, Signal, Timeout, Hangup,
       DevOpen, DevWrite, DevRead

\* Only an executed READ could record a foreign reader.
LEMMA ReadsStep ==
    ASSUME Inv, [Next]_vars, TypeOK', \A p \in Proc : ReadCtl(p)'
    PROVE  ReadsOwn'
  <1>0. \A p \in Proc : p \in closedBy'[p] => Leaving(p)'
    BY DEF ReadCtl, Open
  <1>1. CASE UNCHANGED <<readBy, reuse, closedBy>>
    BY <1>0, <1>1 DEF Inv, ReadsOwn
  <1>2. ASSUME NEW p \in Proc, DevClose(p) PROVE ReadsOwn'
    <2>1. UNCHANGED <<readBy, reuse>> /\ \A q \in Proc : closedBy[q] \subseteq closedBy'[q]
      <3>1. CASE UNCHANGED closedBy
        BY <1>2, <3>1 DEF DevClose
      <3>2. CASE closedBy' = [closedBy EXCEPT ![Owner(p)] = @ \cup {p}]
        BY <1>2, <3>2 DEF DevClose, Inv, TypeOK
      <3>3. QED
        BY <1>2, <3>1, <3>2 DEF DevClose
    <2>2. QED
      BY <1>0, <2>1 DEF Inv, ReadsOwn
  <1>3. ASSUME NEW p \in Proc, DevRead(p) PROVE ReadsOwn'
    <2>1. UNCHANGED <<reuse, closedBy>>
      BY <1>3 DEF DevRead
    <2>2. CASE UNCHANGED readBy
      BY <1>0, <2>1, <2>2 DEF Inv, ReadsOwn
    <2>3. CASE Owner(p) # NoProc /\ readBy' = [readBy EXCEPT ![Owner(p)] = @ \cup {p}]
      <3>1. Owner(p) # p => reuse /\ p \in closedBy[p]
        BY <2>3, OwnRelay
      <3>2. ASSUME NEW r \in Proc, NEW q \in Proc, r \in readBy'[q]
            PROVE  r \in readBy[q] \/ (r = p /\ q = Owner(p))
        BY <2>3, <3>2 DEF Inv, TypeOK
      <3>3. QED
        BY <1>0, <2>1, <3>1, <3>2 DEF Inv, ReadsOwn
    <2>4. QED
      BY <1>3, <2>2, <2>3 DEF DevRead
  <1>4. QED
    BY <1>1, <1>2, <1>3 DEF Next, Process, Drive, vars, drive, OpenRelay, Accept, AcceptFails, ToRead,
       ToEof, CloseRelay, ReadRelay, SockWrite, Shutdown, Join, Signal, Timeout, Hangup,
       DevOpen, DevWrite

\* The invariant holds before any process is launched.
LEMMA InvInit == Init => Inv
  <1> SUFFICES ASSUME Init PROVE Inv
    OBVIOUS
  <1>1. TypeOK
    BY TypeInit
  <1>2. WritesOwn /\ ClosesOwn /\ ReadsOwn
    BY DEF Init, WritesOwn, ClosesOwn, ReadsOwn
  <1>3. ASSUME NEW p \in Proc PROVE StartCtl(p) /\ ToCtl(p) /\ TableCtl(p) /\ ReadCtl(p) /\ EndCtl(p)
    <2>1. \A op \in Op : ~Out(p, op)
      BY DEF Init, Out
    <2>2. StartCtl(p)
      BY <2>1 DEF Init, StartCtl, Op
    <2>3. ToCtl(p)
      BY <2>1 DEF Init, ToCtl, Open, Op
    <2>4. TableCtl(p)
      BY FleetAssumption DEF Init, TableCtl
    <2>5. EndCtl(p)
      BY <2>1 DEF Init, EndCtl, Op, Out
    <2>6. ReadCtl(p)
      BY <2>1 DEF Init, ReadCtl, Open, Op
    <2>7. QED
      BY <2>2, <2>3, <2>4, <2>5, <2>6
  <1>4. QED
    BY <1>1, <1>2, <1>3 DEF Inv

\* The inductive invariant: which thread may have which command in the drive,
\* and whose relay the descriptor of a process is until it is closed.
THEOREM Invariance == Spec => []Inv
  <1>1. Init => Inv
    BY InvInit
  <1>2. Inv /\ [Next]_vars => Inv'
    <2> SUFFICES ASSUME Inv, [Next]_vars PROVE Inv'
      OBVIOUS
    <2>1. TypeOK'
      BY TypeStep DEF Inv
    <2>2. \A p \in Proc :
            StartCtl(p)' /\ ToCtl(p)' /\ TableCtl(p)' /\ ReadCtl(p)' /\ EndCtl(p)'
      BY <2>1, StartStep, ToStep, TableStep, ReadStep, EndStep
    <2>3. WritesOwn' /\ ClosesOwn' /\ ReadsOwn'
      BY <2>1, <2>2, WritesStep, ClosesStep, ReadsStep
    <2>4. QED
      BY <2>1, <2>2, <2>3 DEF Inv
  <1>3. QED
    BY <1>1, <1>2, PTL DEF Spec

\* The type invariant, for any number of processes and descriptors.
THEOREM FleetTypeCorrect == Spec => []TypeOK
  <1>1. Inv => TypeOK
    BY DEF Inv
  <1>2. QED
    BY <1>1, Invariance, PTL

\* What a service receives comes from the client of its own relay, however many
\* processes share the drive: relay_to_nvme_thread_fn() has the answer to its
\* last WRITE before it closes the relay, and gives up on both for good.
THEOREM ServiceHearsOwnClient == Spec => []WritesOwn
  <1>1. Inv => WritesOwn
    BY DEF Inv
  <1>2. QED
    BY <1>1, Invariance, PTL

\* A process never closes the relay of another one, though it closes by a number
\* that may have been given out again: it issues one CLOSE at most.
THEOREM OwnRelayClosed == Spec => []ClosesOwn
  <1>1. Inv => ClosesOwn
    BY DEF Inv
  <1>2. QED
    BY <1>1, Invariance, PTL

\* The bytes of a service are taken by another process only if descriptors are
\* used again, and only by one that has closed its own relay already, since its
\* client hung up or a READ of its own failed.
THEOREM ForeignReadsAfterClose == Spec => []ReadsOwn
  <1>1. Inv => ReadsOwn
    BY DEF Inv
  <1>2. QED
    BY <1>1, Invariance, PTL

\* The drive gets every descriptor back from a process that relayed a client,
\* was not killed, saw no OPEN, WRITE or CLOSE fail and had the thread that
\* closes, whatever becomes of its READs.
THEOREM DescriptorComesBack == Spec => []DescriptorReturned
  <1>1. Inv => DescriptorReturned
    <2> SUFFICES ASSUME Inv, NEW p \in Proc, main[p] = "ended", p \notin failed,
                        cli[p] # "none", to[p] # "absent", NEW d \in Desc
                 PROVE  table[d] # p
      BY DEF DescriptorReturned
    <2>1. CASE to[p] = "done"
      BY <2>1 DEF Inv, EndCtl
    <2>2. CASE desc[p] = NoDesc
      BY <2>2, FleetAssumption DEF Inv, TableCtl
    <2>3. QED
      BY <2>1, <2>2 DEF Inv, EndCtl
  <1>2. QED
    BY <1>1, Invariance, PTL
=============================================================================
