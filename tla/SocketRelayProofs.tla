------------------------- MODULE SocketRelayProofs -------------------------
(***************************************************************************)
(* Proofs about SocketRelay, for every Byte, buffer size, socket capacity, *)
(* bound and set of faults.                                                *)
(***************************************************************************)
EXTENDS SocketRelay, SequenceTheorems, TLAPS

-----------------------------------------------------------------------------
(* Sequences                                                               *)

\* Cutting a sequence in two loses nothing: what read() and a READ command do
\* to the bytes that wait.
LEMMA TakeDrop ==
    ASSUME NEW S, NEW s \in Seq(S), NEW n \in 0..Len(s)
    PROVE  /\ Take(s, n) \in Seq(S) /\ Drop(s, n) \in Seq(S)
           /\ Len(Take(s, n)) = n /\ Len(Drop(s, n)) = Len(s) - n
           /\ Take(s, n) \o Drop(s, n) = s
<1>1. Len(s) \in Nat /\ \A i \in 1..Len(s) : s[i] \in S
  BY LenProperties, ElementOfSeq
<1>2. Take(s, n) \in Seq(S) /\ Len(Take(s, n)) = n
  <2>1. \A i \in 1..n : s[i] \in S
    BY <1>1
  <2> QED BY <1>1, <2>1, SubSeqProperties DEF Take
<1>3. Drop(s, n) \in Seq(S) /\ Len(Drop(s, n)) = Len(s) - n
  <2>1. \A i \in (n + 1)..Len(s) : s[i] \in S
    BY <1>1
  <2> QED BY <1>1, <2>1, SubSeqProperties DEF Drop
<1>4. Take(s, n) \o Drop(s, n) = s
  <2>1. 1 \in 1..Len(s) + 1 /\ n \in 1 - 1..Len(s) /\ Len(s) \in n..Len(s)
    BY <1>1
  <2>2. SubSeq(s, 1, n) \o SubSeq(s, n + 1, Len(s)) = SubSeq(s, 1, Len(s))
    BY <2>1, ConcatAdjacentSubSeq
  <2> QED BY <2>2, SubSeqFull DEF Take, Drop
<1> QED BY <1>2, <1>3, <1>4

\* Concatenation of streams, with the set of bytes fixed.
LEMMA Concat ==
    /\ <<>> \in Seq(Byte) /\ \A b \in Byte : <<b>> \in Seq(Byte)
    /\ \A a, b \in Seq(Byte) : a \o b \in Seq(Byte)
<1>1. <<>> \in Seq(Byte) /\ \A b \in Byte : <<b>> \in Seq(Byte)
  BY EmptySeq
<1>2. \A a, b \in Seq(Byte) : a \o b \in Seq(Byte)
  BY ConcatProperties
<1> QED BY <1>1, <1>2

\* Moving a chunk from one queue to the next only moves the brackets.
LEMMA Assoc == \A a, b, c \in Seq(Byte) : (a \o b) \o c = a \o (b \o c)
BY ConcatAssociative

\* A queue that is empty does not show in the flow.
LEMMA Empty == \A a \in Seq(Byte) : a \o <<>> = a /\ <<>> \o a = a
BY ConcatEmptySeq

\* Sending a byte adds it at the end of the flow.
LEMMA Appended == \A a \in Seq(Byte), b \in Byte : Append(a, b) = a \o <<b>>
BY AppendIsConcat

\* Receiving the head of the second queue into the first.
LEMMA FlowHead ==
    ASSUME NEW S, NEW a \in Seq(S), NEW b \in Seq(S), b # <<>>
    PROVE  /\ Append(a, Head(b)) \in Seq(S) /\ Tail(b) \in Seq(S)
           /\ Append(a, Head(b)) \o Tail(b) = a \o b
<1>1. Head(b) \in S /\ Tail(b) \in Seq(S) /\ Len(b) \in Nat \ {0}
  BY HeadTailProperties, EmptySeq
<1>2. b = <<Head(b)>> \o Tail(b)
  <2>1. 1 \in 1..Len(b) /\ Len(b) \in 1..Len(b)
    BY <1>1
  <2>2. SubSeq(b, 1, Len(b)) = <<b[1]>> \o SubSeq(b, 1 + 1, Len(b))
    BY <2>1, SubSeqRecursiveFirst
  <2>3. SubSeq(b, 1, Len(b)) = b
    BY SubSeqFull
  <2>4. Head(b) = b[1]
    BY <1>1
  <2>5. Tail(b) = SubSeq(b, 2, Len(b))
    BY TailIsSubSeq
  <2> QED BY <2>2, <2>3, <2>4, <2>5
<1>3. Append(a, Head(b)) = a \o <<Head(b)>> /\ Append(a, Head(b)) \in Seq(S)
  BY <1>1, AppendIsConcat, AppendProperties
<1>4. <<Head(b)>> \in Seq(S)
  BY <1>1
<1>5. (a \o <<Head(b)>>) \o Tail(b) = a \o (<<Head(b)>> \o Tail(b))
  BY <1>1, <1>4, ConcatAssociative
<1> QED BY <1>1, <1>2, <1>3, <1>5

-----------------------------------------------------------------------------
(* Types                                                                   *)

\* The types hold before main() has done anything.
LEMMA TypeInit == Init => TypeOK
<1> SUFFICES ASSUME Init PROVE TypeOK
  OBVIOUS
<1>1. /\ cliSent \in Seq(Byte) /\ sockIn \in Seq(Byte) /\ svcGot \in Seq(Byte)
      /\ svcSent \in Seq(Byte) /\ downQ \in Seq(Byte)
      /\ sockOut \in Seq(Byte) /\ cliGot \in Seq(Byte)
  BY EmptySeq DEF Init
<1>2. toBuf \in Seq(Byte) /\ Len(toBuf) = 0 /\ fromBuf \in Seq(Byte) /\ Len(fromBuf) = 0
  BY EmptySeq DEF Init
<1>3. Len(toBuf) <= SIZE_4K /\ Len(fromBuf) <= SIZE_4K - HDR
  BY <1>2, SizeAssumption
<1>4. /\ main \in MainPc /\ to \in ToPc /\ from \in FromPc /\ hostShut \in BOOLEAN
      /\ cmd \in [Op -> CmdState] /\ cli \in CliState
      /\ relay \in {"none", "open", "closed"} /\ svc \in {"up", "down"}
  BY DEF Init, MainPc, ToPc, FromPc, CliState, Op, CmdState
<1> QED BY <1>1, <1>2, <1>3, <1>4 DEF TypeOK

\* Every action keeps the types, the bounds of the two buffers included.
LEMMA TypeStep == TypeOK /\ [Next]_vars => TypeOK'
<1> SUFFICES ASSUME TypeOK, [Next]_vars PROVE TypeOK'
  OBVIOUS
<1> USE DEF TypeOK, procVars, upVars, downVars, MainPc, ToPc, FromPc, CliState,
            Op, CmdState, Issue, Complete
<1>1. CASE Startup
  BY <1>1 DEF Startup, NoDevice, OpenRelay, OpenRelayDone, Listen, Accept
<1>2. CASE Communicate
  BY <1>2 DEF Communicate, SpawnTo, SpawnFrom, JoinTo, JoinFrom
<1>3. CASE Signal
  BY <1>3 DEF Signal
<1>4. CASE ToThread
  <2>1. CASE ToRead
    <3>1. PICK n \in 1..Len(sockIn) :
              n <= SIZE_4K /\ toBuf' = Take(sockIn, n) /\ sockIn' = Drop(sockIn, n)
      BY <2>1 DEF ToRead
    <3>2. n \in 0..Len(sockIn)
      OBVIOUS
    <3>3. toBuf' \in Seq(Byte) /\ Len(toBuf') = n /\ sockIn' \in Seq(Byte)
      BY <3>1, <3>2, TakeDrop
    <3> QED BY <2>1, <3>1, <3>3 DEF ToRead
  <2>2. CASE ToEof \/ WriteRelay \/ WriteRelayDone \/ CloseRelay \/ CloseRelayDone
    BY <2>2 DEF ToEof, WriteRelay, WriteRelayDone, CloseRelay, CloseRelayDone
  <2> QED BY <1>4, <2>1, <2>2 DEF ToThread
<1>5. CASE FromThread
  <2>1. CASE SockWrite
    <3>1. PICK n \in 1..Len(fromBuf) :
              sockOut' = sockOut \o Take(fromBuf, n) /\ fromBuf' = Drop(fromBuf, n)
              /\ from' \in {"read", "write"}
      BY <2>1 DEF SockWrite
    <3>2. n \in 0..Len(fromBuf) /\ Len(fromBuf) \in Nat
      OBVIOUS
    <3>3. Take(fromBuf, n) \in Seq(Byte) /\ fromBuf' \in Seq(Byte)
          /\ Len(fromBuf') = Len(fromBuf) - n
      BY <3>1, <3>2, TakeDrop
    <3>4. sockOut' \in Seq(Byte)
      BY <3>1, <3>3, ConcatProperties
    <3>5. Len(fromBuf') <= SIZE_4K - HDR
      BY <3>2, <3>3, SizeAssumption
    <3> QED BY <2>1, <3>1, <3>3, <3>4, <3>5 DEF SockWrite
  <2>2. CASE SockWriteGone
    <3>1. fromBuf' \in Seq(Byte) /\ Len(fromBuf') = 0
      BY <2>2, EmptySeq DEF SockWriteGone
    <3> QED BY <2>2, <3>1, SizeAssumption DEF SockWriteGone
  <2>3. CASE ReadRelay \/ ReadRelayDone \/ Shutdown
    BY <2>3 DEF ReadRelay, ReadRelayDone, Shutdown
  <2> QED BY <1>5, <2>1, <2>2, <2>3 DEF FromThread
<1>6. CASE Device
  <2>1. CASE DevOpen
    BY <2>1 DEF DevOpen
  <2>2. CASE DevWrite
    <3>1. svcGot' \in Seq(Byte)
      <4>1. svcGot \o toBuf \in Seq(Byte)
        BY ConcatProperties
      <4>2. svcGot' = svcGot \/ svcGot' = svcGot \o toBuf
        BY <2>2 DEF DevWrite
      <4> QED BY <4>1, <4>2
    <3>2. toBuf' = toBuf \/ toBuf' = <<>>
      BY <2>2 DEF DevWrite
    <3>3. toBuf' \in Seq(Byte) /\ Len(toBuf') <= SIZE_4K
      <4>1. CASE toBuf' = toBuf
        BY <4>1
      <4>2. CASE toBuf' = <<>>
        <5>1. toBuf' \in Seq(Byte) /\ Len(toBuf') = 0
          BY <4>2, EmptySeq
        <5> QED BY <5>1, SizeAssumption
      <4> QED BY <3>2, <4>1, <4>2
    <3> QED BY <2>2, <3>1, <3>3 DEF DevWrite
  <2>3. CASE DevRead
    <3>1. fromBuf' \in Seq(Byte) /\ Len(fromBuf') <= SIZE_4K - HDR /\ downQ' \in Seq(Byte)
      <4>1. CASE UNCHANGED <<fromBuf, downQ>>
        BY <4>1
      <4>2. CASE \E n \in 1..Len(downQ) : /\ n <= SIZE_4K - HDR
                     /\ fromBuf' = Take(downQ, n) /\ downQ' = Drop(downQ, n)
        <5>1. PICK n \in 1..Len(downQ) : /\ n <= SIZE_4K - HDR
                     /\ fromBuf' = Take(downQ, n) /\ downQ' = Drop(downQ, n)
          BY <4>2
        <5>2. n \in 0..Len(downQ)
          OBVIOUS
        <5> QED BY <5>1, <5>2, TakeDrop
      <4> QED BY <2>3, <4>1, <4>2 DEF DevRead
    <3> QED BY <2>3, <3>1 DEF DevRead
  <2>4. CASE DevClose
    <3>1. downQ' \in Seq(Byte)
      BY <2>4, EmptySeq DEF DevClose
    <3> QED BY <2>4, <3>1 DEF DevClose
  <2> QED BY <1>6, <2>1, <2>2, <2>3, <2>4 DEF Device
<1>7. CASE DeviceFault
  <2>1. CASE WriteFault
    <3>1. \A n \in 0..Len(toBuf) : svcGot \o Take(toBuf, n) \in Seq(Byte)
      BY TakeDrop, ConcatProperties
    <3> QED BY <2>1, <3>1 DEF WriteFault
  <2>2. CASE ReadFault
    <3>1. \A n \in 0..Len(downQ) : Drop(downQ, n) \in Seq(Byte)
      BY TakeDrop
    <3> QED BY <2>2, <3>1 DEF ReadFault
  <2>3. CASE CloseFault
    <3>1. downQ' \in Seq(Byte)
      BY <2>3, EmptySeq DEF CloseFault
    <3> QED BY <2>3, <3>1 DEF CloseFault
  <2> QED BY <1>7, <2>1, <2>2, <2>3 DEF DeviceFault
<1>8. CASE Client
  <2>1. ASSUME NEW b \in Byte, CliSend(b) PROVE TypeOK'
    <3>1. Append(cliSent, b) \in Seq(Byte) /\ Append(sockIn, b) \in Seq(Byte)
      BY AppendProperties
    <3> QED BY <2>1, <3>1 DEF CliSend
  <2>2. CASE CliRecv
    <3>1. Append(cliGot, Head(sockOut)) \in Seq(Byte) /\ Tail(sockOut) \in Seq(Byte)
      BY <2>2, FlowHead DEF CliRecv
    <3> QED BY <2>2, <3>1 DEF CliRecv
  <2>3. CASE CliHalfClose \/ CliClose
    BY <2>3 DEF CliHalfClose, CliClose
  <2> QED BY <1>8, <2>1, <2>2, <2>3 DEF Client
<1>9. CASE Service
  <2>1. ASSUME NEW b \in Byte, SvcSend(b) PROVE TypeOK'
    <3>1. Append(svcSent, b) \in Seq(Byte) /\ Append(downQ, b) \in Seq(Byte)
      BY AppendProperties
    <3> QED BY <2>1, <3>1 DEF SvcSend
  <2>2. CASE SvcDown
    BY <2>2 DEF SvcDown
  <2> QED BY <1>9, <2>1, <2>2 DEF Service
<1>10. CASE UNCHANGED vars
  BY <1>10 DEF vars
<1> QED BY <1>1, <1>2, <1>3, <1>4, <1>5, <1>6, <1>7, <1>8, <1>9, <1>10 DEF Next

\* Every variable keeps its type, and no chunk outgrows the buffer it is in.
THEOREM TypeCorrect == SafeSpec => []TypeOK
<1>1. TypeOK /\ [Next]_vars => TypeOK'
  BY TypeStep
<1> QED BY TypeInit, <1>1, PTL DEF SafeSpec

-----------------------------------------------------------------------------
(* Control                                                                 *)

\* The relay exists from the OPEN command on and never twice.
LEMMA OpenCtlStep == TypeOK /\ OpenCtl /\ FromCtl /\ [Next]_vars => OpenCtl'
<1> SUFFICES ASSUME TypeOK, OpenCtl, FromCtl, [Next]_vars PROVE OpenCtl'
  OBVIOUS
<1> USE DEF OpenCtl, FromCtl, TypeOK, procVars, upVars, downVars, Ended, Issue, Complete,
            Op, CmdState
<1>1. CASE Startup
  BY <1>1 DEF Startup, NoDevice, OpenRelay, OpenRelayDone, Listen, Accept
<1>2. CASE Communicate
  BY <1>2 DEF Communicate, SpawnTo, SpawnFrom, JoinTo, JoinFrom
<1>3. CASE Signal
  BY <1>3 DEF Signal
<1>4. CASE ToThread
  BY <1>4 DEF ToThread, ToRead, ToEof, WriteRelay, WriteRelayDone, CloseRelay, CloseRelayDone
<1>5. CASE FromThread
  BY <1>5 DEF FromThread, ReadRelay, ReadRelayDone, SockWrite, SockWriteGone, Shutdown
<1>6. CASE Device
  BY <1>6 DEF Device, DevOpen, DevWrite, DevRead, DevClose
<1>7. CASE DeviceFault
  BY <1>7 DEF DeviceFault, WriteFault, ReadFault, CloseFault
<1>8. CASE Client
  <2>1. ASSUME NEW b \in Byte, CliSend(b) PROVE OpenCtl'
    BY <2>1 DEF CliSend
  <2>2. CASE CliRecv
    BY <2>2 DEF CliRecv, Receiving
  <2>3. CASE CliHalfClose \/ CliClose
    BY <2>3 DEF CliHalfClose, CliClose, Receiving
  <2> QED BY <1>8, <2>1, <2>2, <2>3 DEF Client
<1>9. CASE Service
  BY <1>9 DEF Service, SvcSend, SvcDown
<1>10. CASE UNCHANGED vars
  BY <1>10 DEF vars
<1> QED BY <1>1, <1>2, <1>3, <1>4, <1>5, <1>6, <1>7, <1>8, <1>9, <1>10 DEF Next

\* Control of relay_to_nvme_thread_fn.
LEMMA ToCtlStep == TypeOK /\ ToCtl /\ CloseCtl /\ [Next]_vars => ToCtl'
<1> SUFFICES ASSUME TypeOK, ToCtl, CloseCtl, [Next]_vars PROVE ToCtl'
  OBVIOUS
<1> USE DEF ToCtl, CloseCtl, TypeOK, procVars, upVars, downVars, Ended, Issue, Complete,
            Op, CmdState
<1>1. CASE Startup
  BY <1>1 DEF Startup, NoDevice, OpenRelay, OpenRelayDone, Listen, Accept
<1>2. CASE Communicate
  BY <1>2 DEF Communicate, SpawnTo, SpawnFrom, JoinTo, JoinFrom
<1>3. CASE Signal
  BY <1>3 DEF Signal
<1>4. CASE ToThread
  BY <1>4 DEF ToThread, ToRead, ToEof, WriteRelay, WriteRelayDone, CloseRelay, CloseRelayDone
<1>5. CASE FromThread
  BY <1>5 DEF FromThread, ReadRelay, ReadRelayDone, SockWrite, SockWriteGone, Shutdown
<1>6. CASE Device
  BY <1>6 DEF Device, DevOpen, DevWrite, DevRead, DevClose
<1>7. CASE DeviceFault
  BY <1>7 DEF DeviceFault, WriteFault, ReadFault, CloseFault
<1>8. CASE Client
  BY <1>8 DEF Client, CliSend, CliRecv, CliHalfClose, CliClose
<1>9. CASE Service
  BY <1>9 DEF Service, SvcSend, SvcDown
<1>10. CASE UNCHANGED vars
  BY <1>10 DEF vars
<1> QED BY <1>1, <1>2, <1>3, <1>4, <1>5, <1>6, <1>7, <1>8, <1>9, <1>10 DEF Next

\* Control of relay_from_nvme_thread_fn.
LEMMA FromCtlStep == TypeOK /\ FromCtl /\ [Next]_vars => FromCtl'
<1> SUFFICES ASSUME TypeOK, FromCtl, [Next]_vars PROVE FromCtl'
  OBVIOUS
<1> USE DEF FromCtl, TypeOK, procVars, upVars, downVars, Ended, Issue, Complete,
            Op, CmdState
<1>1. CASE Startup
  BY <1>1 DEF Startup, NoDevice, OpenRelay, OpenRelayDone, Listen, Accept
<1>2. CASE Communicate
  BY <1>2 DEF Communicate, SpawnTo, SpawnFrom, JoinTo, JoinFrom
<1>3. CASE Signal
  BY <1>3 DEF Signal
<1>4. CASE ToThread
  BY <1>4 DEF ToThread, ToRead, ToEof, WriteRelay, WriteRelayDone, CloseRelay, CloseRelayDone
<1>5. CASE FromThread
  <2>1. CASE SockWrite
    <3>1. PICK n \in 1..Len(fromBuf) :
              /\ fromBuf' = Drop(fromBuf, n)
              /\ from' = IF n = Len(fromBuf) THEN "read" ELSE "write"
      BY <2>1 DEF SockWrite
    <3>2. n = Len(fromBuf) => fromBuf' = <<>>
      BY <3>1, SubSeqEmpty DEF Drop
    <3> QED BY <2>1, <3>1, <3>2 DEF SockWrite
  <2>2. CASE ReadRelay \/ ReadRelayDone \/ SockWriteGone \/ Shutdown
    BY <2>2 DEF ReadRelay, ReadRelayDone, SockWriteGone, Shutdown
  <2> QED BY <1>5, <2>1, <2>2 DEF FromThread
<1>6. CASE Device
  BY <1>6 DEF Device, DevOpen, DevWrite, DevRead, DevClose
<1>7. CASE DeviceFault
  BY <1>7 DEF DeviceFault, WriteFault, ReadFault, CloseFault
<1>8. CASE Client
  BY <1>8 DEF Client, CliSend, CliRecv, CliHalfClose, CliClose
<1>9. CASE Service
  BY <1>9 DEF Service, SvcSend, SvcDown
<1>10. CASE UNCHANGED vars
  BY <1>10 DEF vars
<1> QED BY <1>1, <1>2, <1>3, <1>4, <1>5, <1>6, <1>7, <1>8, <1>9, <1>10 DEF Next

\* From the decision to close on, the upstream queues are empty.
LEMMA CloseCtlStep == TypeOK /\ OpenCtl /\ ToCtl /\ CloseCtl /\ [Next]_vars => CloseCtl'
<1> SUFFICES ASSUME TypeOK, OpenCtl, ToCtl, CloseCtl, [Next]_vars PROVE CloseCtl'
  OBVIOUS
<1> USE DEF OpenCtl, ToCtl, CloseCtl, TypeOK, procVars, upVars, downVars, Ended, Issue, Complete,
            Op, CmdState
<1>1. CASE Startup
  BY <1>1 DEF Startup, NoDevice, OpenRelay, OpenRelayDone, Listen, Accept
<1>2. CASE Communicate
  BY <1>2 DEF Communicate, SpawnTo, SpawnFrom, JoinTo, JoinFrom
<1>3. CASE Signal
  BY <1>3 DEF Signal
<1>4. CASE ToThread
  BY <1>4 DEF ToThread, ToRead, ToEof, WriteRelay, WriteRelayDone, CloseRelay, CloseRelayDone
<1>5. CASE FromThread
  BY <1>5 DEF FromThread, ReadRelay, ReadRelayDone, SockWrite, SockWriteGone, Shutdown
<1>6. CASE Device
  BY <1>6 DEF Device, DevOpen, DevWrite, DevRead, DevClose
<1>7. CASE DeviceFault
  BY <1>7 DEF DeviceFault, WriteFault, ReadFault, CloseFault
<1>8. CASE Client
  <2>1. ASSUME NEW b \in Byte, CliSend(b) PROVE CloseCtl'
    BY <2>1 DEF CliSend
  <2>2. CASE CliRecv
    BY <2>2 DEF CliRecv, Receiving
  <2>3. CASE CliHalfClose \/ CliClose
    BY <2>3 DEF CliHalfClose, CliClose, Receiving
  <2> QED BY <1>8, <2>1, <2>2, <2>3 DEF Client
<1>9. CASE Service
  BY <1>9 DEF Service, SvcSend, SvcDown
<1>10. CASE UNCHANGED vars
  BY <1>10 DEF vars
<1> QED BY <1>1, <1>2, <1>3, <1>4, <1>5, <1>6, <1>7, <1>8, <1>9, <1>10 DEF Next

-----------------------------------------------------------------------------
(* Flows                                                                   *)

\* The client's bytes only move from the socket to the thread's buffer and
\* from there to the service, and none is lost before a WRITE fails.
LEMMA UpStep == TypeOK /\ OpenCtl /\ ToCtl /\ UpNoLoss /\ [Next]_vars => UpNoLoss'
<1> SUFFICES ASSUME TypeOK, OpenCtl, ToCtl, UpNoLoss, [Next]_vars,
                    svc' = "up", cmd'["write"] # "fail"
             PROVE  cliSent' = svcGot' \o toBuf' \o sockIn'
  BY DEF UpNoLoss
<1>0. /\ svcGot \in Seq(Byte) /\ toBuf \in Seq(Byte) /\ sockIn \in Seq(Byte)
      /\ cliSent \in Seq(Byte)
  BY DEF TypeOK
<1>cmd. cmd \in [Op -> CmdState]
  BY DEF TypeOK
<1> USE DEF procVars, upVars, downVars, Issue, Complete, Op, CmdState
<1>1. CASE Startup
  BY <1>0, <1>cmd, <1>1 DEF UpNoLoss, Startup, NoDevice, OpenRelay, OpenRelayDone, Listen, Accept
<1>2. CASE Communicate
  BY <1>0, <1>cmd, <1>2 DEF UpNoLoss, Communicate, SpawnTo, SpawnFrom, JoinTo, JoinFrom
<1>3. CASE Signal
  BY <1>0, <1>cmd, <1>3 DEF UpNoLoss, Signal
<1>4. CASE ToThread
  <2>1. CASE ToRead
    <3>1. PICK n \in 1..Len(sockIn) :
              toBuf' = Take(sockIn, n) /\ sockIn' = Drop(sockIn, n)
      BY <1>0, <1>cmd, <2>1 DEF UpNoLoss, ToRead
    <3>2. toBuf = <<>> /\ cliSent = svcGot \o toBuf \o sockIn
      BY <1>0, <1>cmd, <2>1 DEF UpNoLoss, ToRead, ToCtl
    <3>3. /\ toBuf' \in Seq(Byte) /\ sockIn' \in Seq(Byte)
          /\ toBuf' \o sockIn' = sockIn
      <4>1. n \in 0..Len(sockIn)
        OBVIOUS
      <4> QED BY <1>0, <3>1, <4>1, TakeDrop
    <3>4. svcGot \o <<>> = svcGot
      BY <1>0, Empty
    <3>5. (svcGot \o toBuf') \o sockIn' = svcGot \o (toBuf' \o sockIn')
      <4>1. svcGot \in Seq(Byte) /\ toBuf' \in Seq(Byte) /\ sockIn' \in Seq(Byte)
        BY <1>0, <3>3
      <4> QED BY <4>1, Assoc, Zenon
    <3> QED BY <1>0, <1>cmd, <2>1, <3>2, <3>3, <3>4, <3>5 DEF UpNoLoss, ToRead
  <2>2. CASE ToEof \/ WriteRelay \/ WriteRelayDone \/ CloseRelay \/ CloseRelayDone
    BY <1>0, <1>cmd, <2>2 DEF UpNoLoss, ToEof, WriteRelay, WriteRelayDone, CloseRelay, CloseRelayDone
  <2> QED BY <1>4, <2>1, <2>2 DEF ToThread
<1>5. CASE FromThread
  BY <1>0, <1>cmd, <1>5 DEF UpNoLoss, FromThread, ReadRelay, ReadRelayDone, SockWrite, SockWriteGone, Shutdown
<1>6. CASE Device
  <2>1. CASE DevWrite
    <3>1. svcGot' = svcGot \o toBuf /\ toBuf' = <<>>
      BY <1>0, <1>cmd, <2>1 DEF UpNoLoss, DevWrite
    <3>2. svcGot \o toBuf \in Seq(Byte)
      BY <1>0, Concat
    <3>3. (svcGot \o toBuf) \o <<>> = svcGot \o toBuf
      BY <3>2, Empty
    <3> QED BY <1>0, <1>cmd, <2>1, <3>1, <3>3 DEF UpNoLoss, DevWrite
  <2>2. CASE DevOpen \/ DevRead \/ DevClose
    BY <1>0, <1>cmd, <2>2 DEF UpNoLoss, DevOpen, DevRead, DevClose
  <2> QED BY <1>6, <2>1, <2>2 DEF Device
<1>7. CASE DeviceFault
  BY <1>0, <1>cmd, <1>7 DEF UpNoLoss, DeviceFault, WriteFault, ReadFault, CloseFault
<1>8. CASE Client
  <2>1. ASSUME NEW b \in Byte, CliSend(b)
        PROVE  cliSent' = svcGot' \o toBuf' \o sockIn'
    <3> DEFINE u == <<b>>
               w == svcGot \o toBuf
    <3>1. cliSent' = Append(cliSent, b) /\ sockIn' = Append(sockIn, b)
          /\ UNCHANGED <<svcGot, toBuf>> /\ cliSent = w \o sockIn
      BY <1>0, <1>cmd, <2>1 DEF UpNoLoss, CliSend
    <3>2. u \in Seq(Byte) /\ w \in Seq(Byte)
      BY <1>0, Concat
    <3>3. cliSent' = cliSent \o u /\ sockIn' = sockIn \o u
      BY <1>0, <3>1, Appended
    <3> HIDE DEF u, w
    <3>4. (w \o sockIn) \o u = w \o (sockIn \o u)
      <4>1. w \in Seq(Byte) /\ sockIn \in Seq(Byte) /\ u \in Seq(Byte)
        BY <1>0, <3>2
      <4> QED BY <4>1, Assoc, Zenon
    <3> USE DEF w
    <3> QED BY <3>1, <3>3, <3>4
  <2>2. CASE CliRecv \/ CliHalfClose \/ CliClose
    BY <1>0, <1>cmd, <2>2 DEF UpNoLoss, CliRecv, CliHalfClose, CliClose
  <2> QED BY <1>8, <2>1, <2>2 DEF Client
<1>9. CASE Service
  BY <1>0, <1>cmd, <1>9 DEF UpNoLoss, Service, SvcSend, SvcDown
<1>10. CASE UNCHANGED vars
  BY <1>10 DEF vars, UpNoLoss
<1> QED BY <1>1, <1>2, <1>3, <1>4, <1>5, <1>6, <1>7, <1>8, <1>9, <1>10 DEF Next

\* The service's bytes only move from the drive to the thread's buffer, the
\* socket and the client, and none is lost while both connections live.
LEMMA DownStep ==
    TypeOK /\ OpenCtl /\ FromCtl /\ DownNoLoss /\ [Next]_vars => DownNoLoss'
<1> SUFFICES ASSUME TypeOK, OpenCtl, FromCtl, DownNoLoss, [Next]_vars, relay' = "open",
                    cli' \notin {"closed", "reset"}, cmd'["read"] # "fail"
             PROVE  svcSent' = cliGot' \o sockOut' \o fromBuf' \o downQ'
  BY DEF DownNoLoss
<1>0. /\ cliGot \in Seq(Byte) /\ sockOut \in Seq(Byte) /\ fromBuf \in Seq(Byte)
      /\ downQ \in Seq(Byte) /\ svcSent \in Seq(Byte)
  BY DEF TypeOK
<1>cmd. cmd \in [Op -> CmdState]
  BY DEF TypeOK
<1> USE DEF procVars, upVars, downVars, Issue, Complete, Op, CmdState
<1>1. CASE Startup
  BY <1>0, <1>cmd, <1>1 DEF DownNoLoss, Startup, NoDevice, OpenRelay, OpenRelayDone, Listen, Accept, OpenCtl
<1>2. CASE Communicate
  BY <1>0, <1>cmd, <1>2 DEF DownNoLoss, Communicate, SpawnTo, SpawnFrom, JoinTo, JoinFrom
<1>3. CASE Signal
  BY <1>0, <1>cmd, <1>3 DEF DownNoLoss, Signal
<1>4. CASE ToThread
  BY <1>0, <1>cmd, <1>4 DEF DownNoLoss, ToThread, ToRead, ToEof, WriteRelay, WriteRelayDone, CloseRelay, CloseRelayDone
<1>5. CASE FromThread
  <2>1. CASE SockWrite
    <3>1. PICK n \in 1..Len(fromBuf) :
              sockOut' = sockOut \o Take(fromBuf, n) /\ fromBuf' = Drop(fromBuf, n)
      BY <1>0, <1>cmd, <2>1 DEF DownNoLoss, SockWrite
    <3> DEFINE t == Take(fromBuf, n)
    <3>2. t \in Seq(Byte) /\ fromBuf' \in Seq(Byte) /\ t \o fromBuf' = fromBuf
      <4>1. n \in 0..Len(fromBuf)
        OBVIOUS
      <4> QED BY <1>0, <3>1, <4>1, TakeDrop
    <3>3. svcSent = ((cliGot \o sockOut) \o fromBuf) \o downQ
          /\ UNCHANGED <<svcSent, cliGot, downQ>>
      BY <1>0, <1>cmd, <2>1 DEF DownNoLoss, SockWrite
    <3>4. (cliGot \o sockOut) \o t = cliGot \o (sockOut \o t)
      <4> HIDE DEF t
      <4>1. cliGot \in Seq(Byte) /\ sockOut \in Seq(Byte) /\ t \in Seq(Byte)
        BY <1>0, <3>2
      <4> QED BY <4>1, Assoc, Zenon
    <3>6. cliGot \o sockOut \in Seq(Byte)
      BY <1>0, Concat
    <3>5. ((cliGot \o sockOut) \o t) \o fromBuf' = (cliGot \o sockOut) \o (t \o fromBuf')
      BY <3>2, <3>6, Assoc
    <3> QED BY <3>1, <3>2, <3>3, <3>4, <3>5
  <2>2. CASE ReadRelay \/ ReadRelayDone \/ SockWriteGone \/ Shutdown
    BY <1>0, <1>cmd, <2>2 DEF DownNoLoss, ReadRelay, ReadRelayDone, SockWriteGone, Shutdown
  <2> QED BY <1>5, <2>1, <2>2 DEF FromThread
<1>6. CASE Device
  <2>1. CASE DevRead
    <3>1. CASE UNCHANGED <<fromBuf, downQ>>
      BY <1>0, <1>cmd, <2>1, <3>1 DEF DownNoLoss, DevRead
    <3>2. CASE \E n \in 1..Len(downQ) :
                   fromBuf' = Take(downQ, n) /\ downQ' = Drop(downQ, n)
      <4>1. fromBuf' \in Seq(Byte) /\ downQ' \in Seq(Byte) /\ fromBuf' \o downQ' = downQ
        <5>1. PICK n \in 1..Len(downQ) : fromBuf' = Take(downQ, n) /\ downQ' = Drop(downQ, n)
          BY <3>2
        <5>2. n \in 0..Len(downQ)
          OBVIOUS
        <5> QED BY <1>0, <5>1, <5>2, TakeDrop
      <4>2. fromBuf = <<>> /\ svcSent = ((cliGot \o sockOut) \o fromBuf) \o downQ
            /\ UNCHANGED <<svcSent, cliGot, sockOut>>
        BY <1>0, <1>cmd, <2>1 DEF DownNoLoss, DevRead, FromCtl
      <4>3. cliGot \o sockOut \in Seq(Byte)
        BY <1>0, Concat
      <4>4. (cliGot \o sockOut) \o <<>> = cliGot \o sockOut
        BY <4>3, Empty
      <4>5. ((cliGot \o sockOut) \o fromBuf') \o downQ'
                = (cliGot \o sockOut) \o (fromBuf' \o downQ')
        BY <4>1, <4>3, Assoc
      <4> QED BY <4>1, <4>2, <4>4, <4>5
    <3> QED BY <1>0, <1>cmd, <2>1, <3>1, <3>2 DEF DownNoLoss, DevRead
  <2>2. CASE DevOpen
    <3>1. /\ svcSent' = <<>> /\ downQ' = <<>> /\ fromBuf' = <<>>
          /\ sockOut' = <<>> /\ cliGot' = <<>>
      BY <1>0, <1>cmd, <2>2 DEF DownNoLoss, DevOpen, OpenCtl
    <3>2. <<>> \o <<>> = <<>>
      BY Empty
    <3> QED BY <3>1, <3>2
  <2>3. CASE DevWrite \/ DevClose
    BY <1>0, <1>cmd, <2>3 DEF DownNoLoss, DevWrite, DevClose
  <2> QED BY <1>6, <2>1, <2>2, <2>3 DEF Device
<1>7. CASE DeviceFault
  BY <1>0, <1>cmd, <1>7 DEF DownNoLoss, DeviceFault, WriteFault, ReadFault, CloseFault
<1>8. CASE Client
  <2>1. CASE CliRecv
    <3>1. /\ cliGot' = Append(cliGot, Head(sockOut)) /\ sockOut' = Tail(sockOut)
          /\ svcSent = ((cliGot \o sockOut) \o fromBuf) \o downQ
          /\ UNCHANGED <<svcSent, fromBuf, downQ>>
      BY <1>0, <1>cmd, <2>1 DEF DownNoLoss, CliRecv
    <3>2. cliGot' \o sockOut' = cliGot \o sockOut
      BY <1>0, <1>cmd, <2>1, <3>1, FlowHead DEF DownNoLoss, CliRecv
    <3> QED BY <3>1, <3>2
  <2>2. CASE (\E b \in Byte : CliSend(b)) \/ CliHalfClose \/ CliClose
    BY <1>0, <1>cmd, <2>2 DEF DownNoLoss, CliSend, CliHalfClose, CliClose, Receiving
  <2> QED BY <1>8, <2>1, <2>2 DEF Client
<1>9. CASE Service
  <2>1. ASSUME NEW b \in Byte, SvcSend(b)
        PROVE  svcSent' = cliGot' \o sockOut' \o fromBuf' \o downQ'
    <3> DEFINE w == (cliGot \o sockOut) \o fromBuf
    <3>1. /\ svcSent' = Append(svcSent, b) /\ downQ' = Append(downQ, b)
          /\ UNCHANGED <<cliGot, sockOut, fromBuf>> /\ svcSent = w \o downQ
      BY <1>0, <1>cmd, <2>1 DEF DownNoLoss, SvcSend
    <3> DEFINE u == <<b>>
    <3>2. u \in Seq(Byte) /\ w \in Seq(Byte)
      BY <1>0, Concat
    <3>3. svcSent' = svcSent \o u /\ downQ' = downQ \o u
      BY <1>0, <3>1, Appended
    <3> HIDE DEF u, w
    <3>4. (w \o downQ) \o u = w \o (downQ \o u)
      <4>1. w \in Seq(Byte) /\ downQ \in Seq(Byte) /\ u \in Seq(Byte)
        BY <1>0, <3>2
      <4> QED BY <4>1, Assoc, Zenon
    <3> USE DEF w
    <3> QED BY <3>1, <3>3, <3>4
  <2>2. CASE SvcDown
    BY <1>0, <1>cmd, <2>2 DEF DownNoLoss, SvcDown
  <2> QED BY <1>9, <2>1, <2>2 DEF Service
<1>10. CASE UNCHANGED vars
  BY <1>10 DEF vars, DownNoLoss
<1> QED BY <1>1, <1>2, <1>3, <1>4, <1>5, <1>6, <1>7, <1>8, <1>9, <1>10 DEF Next

\* Once a READ has returned 0 the service has spoken for the last time and all
\* it said has been handed over.
LEMMA EndCtlStep ==
    TypeOK /\ FromCtl /\ DownNoLoss /\ EndCtl /\ [Next]_vars => EndCtl'
<1> SUFFICES ASSUME TypeOK, FromCtl, DownNoLoss, EndCtl, [Next]_vars,
                    cmd'["read"] = "ok", fromBuf' = <<>>
             PROVE  /\ svc' = "down"
                    /\ cli' \notin {"closed", "reset"} => svcSent' = cliGot' \o sockOut'
  BY DEF EndCtl
<1>0. /\ cliGot \in Seq(Byte) /\ sockOut \in Seq(Byte) /\ fromBuf \in Seq(Byte)
      /\ downQ \in Seq(Byte)
  BY DEF TypeOK
<1>cmd. cmd \in [Op -> CmdState]
  BY DEF TypeOK
<1> USE DEF procVars, upVars, downVars, Issue, Complete, Op, CmdState
<1>1. CASE Startup
  BY <1>cmd, <1>1 DEF EndCtl, FromCtl, OpenCtl, Startup, NoDevice, OpenRelay, OpenRelayDone, Listen, Accept
<1>2. CASE Communicate
  BY <1>cmd, <1>2 DEF EndCtl, Communicate, SpawnTo, SpawnFrom, JoinTo, JoinFrom
<1>3. CASE Signal
  BY <1>cmd, <1>3 DEF EndCtl, Signal
<1>4. CASE ToThread
  BY <1>cmd, <1>4 DEF EndCtl, ToThread, ToRead, ToEof, WriteRelay, WriteRelayDone,
                      CloseRelay, CloseRelayDone
<1>5. CASE FromThread
  BY <1>cmd, <1>5 DEF EndCtl, FromCtl, FromThread, ReadRelay, ReadRelayDone,
                      SockWrite, SockWriteGone, Shutdown
<1>6. CASE Device
  <2>1. CASE DevRead
    <3>1. CASE \E n \in 1..Len(downQ) : fromBuf' = Take(downQ, n)
      <4>1. PICK n \in 1..Len(downQ) : fromBuf' = Take(downQ, n)
        BY <3>1
      <4>2. n \in 0..Len(downQ) /\ n > 0
        OBVIOUS
      <4>3. fromBuf' \in Seq(Byte) /\ Len(fromBuf') = n
        BY <1>0, <4>1, <4>2, TakeDrop
      <4> QED BY <4>2, <4>3, EmptySeq
    <3>2. CASE relay = "open" /\ downQ = <<>> /\ svc = "down"
      <4>1. /\ fromBuf = <<>> /\ cmd["read"] = "sent"
            /\ UNCHANGED <<svc, cli, svcSent, cliGot, sockOut>>
        BY <2>1, <3>2 DEF DevRead, FromCtl
      <4>2. cli \notin {"closed", "reset"} =>
                svcSent = ((cliGot \o sockOut) \o <<>>) \o <<>>
        BY <3>2, <4>1 DEF DownNoLoss
      <4>3. cliGot \o sockOut \in Seq(Byte)
        BY <1>0, Concat
      <4>4. ((cliGot \o sockOut) \o <<>>) \o <<>> = cliGot \o sockOut
        BY <4>3, Empty
      <4> QED BY <3>2, <4>1, <4>2, <4>4
    <3> QED BY <1>cmd, <2>1, <3>1, <3>2 DEF DevRead
  <2>2. CASE DevOpen \/ DevWrite \/ DevClose
    BY <1>cmd, <2>2 DEF EndCtl, DevOpen, DevWrite, DevClose
  <2> QED BY <1>6, <2>1, <2>2 DEF Device
<1>7. CASE DeviceFault
  BY <1>cmd, <1>7 DEF EndCtl, DeviceFault, WriteFault, ReadFault, CloseFault
<1>8. CASE Client
  <2>1. CASE CliRecv
    <3>1. cliGot' = Append(cliGot, Head(sockOut)) /\ sockOut' = Tail(sockOut)
          /\ UNCHANGED <<cmd, fromBuf, svc, cli, svcSent>>
      BY <2>1 DEF CliRecv
    <3>2. cliGot' \o sockOut' = cliGot \o sockOut
      BY <1>0, <2>1, <3>1, FlowHead DEF CliRecv
    <3> QED BY <3>1, <3>2 DEF EndCtl
  <2>2. CASE (\E b \in Byte : CliSend(b)) \/ CliHalfClose \/ CliClose
    BY <1>cmd, <2>2 DEF EndCtl, CliSend, CliHalfClose, CliClose, Receiving
  <2> QED BY <1>8, <2>1, <2>2 DEF Client
<1>9. CASE Service
  BY <1>cmd, <1>9 DEF EndCtl, Service, SvcSend, SvcDown
<1>10. CASE UNCHANGED vars
  BY <1>10 DEF EndCtl, vars
<1> QED BY <1>1, <1>2, <1>3, <1>4, <1>5, <1>6, <1>7, <1>8, <1>9, <1>10 DEF Next

-----------------------------------------------------------------------------
(* The invariant and what it implies                                       *)

\* The invariant holds before main() has done anything.
LEMMA IInvInit == Init => IInv
<1> SUFFICES ASSUME Init PROVE IInv
  OBVIOUS
<1>1. OpenCtl /\ ToCtl /\ FromCtl /\ CloseCtl /\ EndCtl
  BY DEF Init, OpenCtl, ToCtl, FromCtl, CloseCtl, EndCtl, Op
<1>2. <<>> \o <<>> = <<>>
  BY Concat, Empty
<1>3. UpNoLoss /\ DownNoLoss
  BY <1>2 DEF Init, UpNoLoss, DownNoLoss
<1> QED BY <1>1, <1>3, TypeInit DEF IInv

\* Every action keeps the invariant: its parts are kept by their own lemmas.
LEMMA IInvStep == IInv /\ [Next]_vars => IInv'
BY TypeStep, OpenCtlStep, ToCtlStep, FromCtlStep, CloseCtlStep, EndCtlStep, UpStep, DownStep
   DEF IInv

\* The control facts and both flows hold in every reachable state.
THEOREM Inductive == SafeSpec => []IInv
<1>1. IInv /\ [Next]_vars => IInv'
  BY IInvStep
<1> QED BY IInvInit, <1>1, PTL DEF SafeSpec

\* CloseCtl empties the two upstream queues of the flow, and what is left of
\* it says that the service has every byte.
LEMMA DrainedUp == IInv => DrainedBeforeClose
<1> SUFFICES ASSUME IInv, relay = "closed", svc = "up", cli # "reset"
             PROVE  svcGot = cliSent
  BY DEF DrainedBeforeClose
<1>1. toBuf = <<>> /\ sockIn = <<>> /\ cmd["write"] = "idle"
  BY DEF IInv, CloseCtl
<1>2. svcGot \in Seq(Byte) /\ cliSent = (svcGot \o <<>>) \o <<>>
  BY <1>1 DEF IInv, TypeOK, UpNoLoss
<1> QED BY <1>2, Empty

\* shutdown() comes after the loop, and EndCtl says what a READ of length 0 means.
LEMMA DrainedDown == IInv => DrainedBeforeShutdown
BY DEF IInv, FromCtl, EndCtl, DrainedBeforeShutdown

\* While the service listens and no WRITE has failed, no byte of the client is
\* lost, repeated or reordered on its way through the relay.
THEOREM ClientBytesSafe == SafeSpec => []UpNoLoss
<1>1. IInv => UpNoLoss
  BY DEF IInv
<1> QED BY Inductive, <1>1, PTL

\* While the relay is open and the client listens, no byte of the service is
\* lost, repeated or reordered, from before the client has connected.
THEOREM ServiceBytesSafe == SafeSpec => []DownNoLoss
<1>1. IInv => DownNoLoss
  BY DEF IInv
<1> QED BY Inductive, <1>1, PTL

\* The relay is closed only when every byte sent before the client's end of
\* file is with the service.
THEOREM CloseAfterDrain == SafeSpec => []DrainedBeforeClose
BY Inductive, DrainedUp, PTL

\* A READ of length 0 shuts the socket only when every byte of the service has
\* been handed to the client's connection.
THEOREM ShutdownAfterDrain == SafeSpec => []DrainedBeforeShutdown
BY Inductive, DrainedDown, PTL

\* No thread outlives the stack frame that holds its argument.
THEOREM ArgumentOutlivesThreads == SafeSpec => []ArgAlive
<1>1. IInv => ArgAlive
  BY DEF IInv, ToCtl, FromCtl, ArgAlive
<1> QED BY Inductive, <1>1, PTL

\* A return from main() leaves the relay open only after a failed command or a
\* thread that never existed.
THEOREM ExitLeavesNoRelay == SafeSpec => []ExitClosesRelay
<1>1. IInv => ExitClosesRelay
  BY DEF IInv, ToCtl, CloseCtl, ExitClosesRelay
<1> QED BY Inductive, <1>1, PTL
=============================================================================
