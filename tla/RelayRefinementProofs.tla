----------------------- MODULE RelayRefinementProofs -----------------------
(***************************************************************************)
(* Each direction of the socket relay implements a pipe: every step of the *)
(* two threads, the drive, the client, the service and of every failure is *)
(* a step of BytePipe in each direction, or changes nothing there.         *)
(***************************************************************************)
EXTENDS SocketRelayProofs

\* A thread that moves the client's bytes has a client.
CliCtl == main = "spawn_to" \/ to # "none" => cli # "none"

\* What has left the drive towards a client that listens is the beginning of
\* what the service has said, also after the relay has been closed.
DownPrefix ==
    cli \notin {"closed", "reset"} =>
        \E rest \in Seq(Byte) : svcSent = ((cliGot \o sockOut) \o fromBuf) \o rest

PipeInv == IInv /\ CliCtl /\ DownPrefix

-----------------------------------------------------------------------------
(* Sequences                                                               *)

\* The first part of a stream is the stream up to that part's length.
LEMMA FirstPart ==
    ASSUME NEW a \in Seq(Byte), NEW b \in Seq(Byte)
    PROVE  /\ Len(a) \in Nat /\ Len(b) \in Nat /\ Len(a \o b) = Len(a) + Len(b)
           /\ SubSeq(a \o b, 1, Len(a)) = a
<1>1. Len(a) \in Nat /\ Len(b) \in Nat /\ Len(a \o b) = Len(a) + Len(b)
  BY LenProperties, ConcatProperties
<1>2. CASE a = <<>>
  <2>1. Len(a) = 0
    BY <1>2, EmptySeq
  <2>2. a \o b = b
    BY <1>2, Empty
  <2>3. SubSeq(b, 1, 0) = <<>>
    BY SubSeqEmpty
  <2> QED BY <1>1, <1>2, <2>1, <2>2, <2>3
<1>3. CASE a # <<>>
  <2>1. 1 \in 1..Len(a) /\ Len(a) \in 1..Len(a)
    BY <1>1, <1>3, EmptySeq
  <2>2. SubSeq(a \o b, 1, Len(a)) = SubSeq(a, 1, Len(a))
    BY <2>1, SubSeqOfConcat1
  <2> QED BY <1>1, <2>2, SubSeqFull
<1> QED BY <1>2, <1>3

\* A chunk that moves from a queue to the part before it.
LEMMA Moved ==
    \A a, b \in Seq(Byte) : \A n \in 0..Len(b) :
        /\ Take(b, n) \in Seq(Byte) /\ Drop(b, n) \in Seq(Byte) /\ Len(Take(b, n)) = n
        /\ a \o Take(b, n) \in Seq(Byte)
        /\ (a \o Take(b, n)) \o Drop(b, n) = a \o b
<1> SUFFICES ASSUME NEW a \in Seq(Byte), NEW b \in Seq(Byte), NEW n \in 0..Len(b)
             PROVE  /\ Take(b, n) \in Seq(Byte) /\ Drop(b, n) \in Seq(Byte)
                    /\ Len(Take(b, n)) = n
                    /\ a \o Take(b, n) \in Seq(Byte)
                    /\ (a \o Take(b, n)) \o Drop(b, n) = a \o b
  OBVIOUS
<1>1. PICK t, d : t = Take(b, n) /\ d = Drop(b, n)
  OBVIOUS
<1>2. t \in Seq(Byte) /\ d \in Seq(Byte) /\ Len(t) = n /\ t \o d = b
  BY <1>1, TakeDrop
<1>3. a \o t \in Seq(Byte)
  BY <1>2, Concat
<1>4. (a \o t) \o d = a \o (t \o d)
  <2>1. a \in Seq(Byte) /\ t \in Seq(Byte) /\ d \in Seq(Byte)
    BY <1>2
  <2> QED BY <2>1, Assoc, Zenon
<1> QED BY <1>1, <1>2, <1>3, <1>4

\* The first of three parts is the stream up to its length.
LEMMA FirstOfThree ==
    \A t, d, c \in Seq(Byte) :
        /\ Len(t) \in 0..Len((t \o d) \o c)
        /\ t = SubSeq((t \o d) \o c, 1, Len(t))
<1> SUFFICES ASSUME NEW t \in Seq(Byte), NEW d \in Seq(Byte), NEW c \in Seq(Byte)
             PROVE  /\ Len(t) \in 0..Len((t \o d) \o c)
                    /\ t = SubSeq((t \o d) \o c, 1, Len(t))
  OBVIOUS
<1>1. d \o c \in Seq(Byte)
  BY Concat
<1>2. (t \o d) \o c = t \o (d \o c)
  BY Assoc
<1>3. /\ Len(t) \in Nat /\ Len(d \o c) \in Nat
      /\ Len(t \o (d \o c)) = Len(t) + Len(d \o c)
      /\ SubSeq(t \o (d \o c), 1, Len(t)) = t
  BY <1>1, FirstPart
<1> QED BY <1>2, <1>3

\* A chunk taken from the second of three parts: what is delivered afterwards
\* is again the first part of the stream.
LEMMA Chunk ==
    \A a, b, c \in Seq(Byte) : \A n \in 0..Len(b) : \A t :
        t = a \o Take(b, n) =>
            /\ Len(a) \in Nat /\ Len(t) = Len(a) + n
            /\ Len(t) \in 0..Len((a \o b) \o c)
            /\ t = SubSeq((a \o b) \o c, 1, Len(t))
            /\ n = 0 => t = a
<1> SUFFICES ASSUME NEW a \in Seq(Byte), NEW b \in Seq(Byte), NEW c \in Seq(Byte),
                    NEW n \in 0..Len(b), NEW t, t = a \o Take(b, n)
             PROVE  /\ Len(a) \in Nat /\ Len(t) = Len(a) + n
                    /\ Len(t) \in 0..Len((a \o b) \o c)
                    /\ t = SubSeq((a \o b) \o c, 1, Len(t))
                    /\ n = 0 => t = a
  OBVIOUS
<1>1. PICK h, d : h = Take(b, n) /\ d = Drop(b, n)
  OBVIOUS
<1>2. h \in Seq(Byte) /\ d \in Seq(Byte) /\ Len(h) = n /\ t \in Seq(Byte) /\ t \o d = a \o b
  BY <1>1, Moved
<1>3. Len(t) \in 0..Len((t \o d) \o c) /\ t = SubSeq((t \o d) \o c, 1, Len(t))
  <2>1. t \in Seq(Byte) /\ d \in Seq(Byte) /\ c \in Seq(Byte)
    BY <1>2
  <2> QED BY <2>1, FirstOfThree, Zenon
<1>4. Len(a) \in Nat /\ Len(t) = Len(a) + n
  <2>1. t = a \o h
    BY <1>1
  <2>2. Len(a) \in Nat /\ Len(a \o h) = Len(a) + Len(h)
    BY <1>2, FirstPart
  <2> QED BY <1>2, <2>1, <2>2
<1>5. n = 0 => t = a
  <2>1. n = 0 => h = <<>>
    BY <1>2, EmptySeq
  <2> QED BY <1>1, <2>1, Empty
<1> QED BY <1>2, <1>3, <1>4, <1>5

-----------------------------------------------------------------------------
(* The invariant                                                           *)

\* No thread is started before a client has been accepted, and a client that
\* has been there is never forgotten.
LEMMA CliCtlStep == TypeOK /\ CliCtl /\ [Next]_vars => CliCtl'
<1> SUFFICES ASSUME TypeOK, CliCtl, [Next]_vars PROVE CliCtl'
  OBVIOUS
<1> USE DEF CliCtl, TypeOK, procVars, upVars, downVars, Ended, Receiving
<1>1. CASE Startup
  BY <1>1 DEF Startup, NoDevice, OpenRelay, OpenRelayDone, Listen, Accept
<1>2. CASE Communicate
  BY <1>2 DEF Communicate, SpawnTo, SpawnFrom, JoinTo, JoinFrom
<1>3. CASE Signal
  BY <1>3 DEF Signal
<1>4. CASE ToThread
  BY <1>4 DEF ToThread, ToRead, ToEof, WriteRelay, WriteRelayDone, CloseRelay, CloseRelayDone
<1>5. CASE FromThread
  BY <1>5 DEF FromThread, ReadRelay, ReadRelayDone, SockWrite, SockWriteGone, Shutdown
<1>6. CASE Device
  BY <1>6 DEF Device, DevOpen, DevWrite, DevRead, DevClose
<1>7. CASE DeviceFault
  BY <1>7 DEF DeviceFault, WriteFault, ReadFault, CloseFault
<1>8. CASE Client
  BY <1>8 DEF Client, CliSend, CliRecv, CliHalfClose, CliClose
<1>9. CASE Service
  BY <1>9 DEF Service, SvcSend, SvcDown
<1>10. CASE UNCHANGED vars
  BY <1>10 DEF vars
<1> QED BY <1>1, <1>2, <1>3, <1>4, <1>5, <1>6, <1>7, <1>8, <1>9, <1>10 DEF Next

\* A client that has closed or reset its connection does not come back.
LEMMA CliStays ==
    ASSUME TypeOK, OpenCtl, [Next]_vars
    PROVE  /\ cli \in {"closed", "reset"} => cli' \in {"closed", "reset"}
           /\ cli = "reset" => cli' = "reset"
           /\ cli # "none" => cli' # "none"
<1> USE DEF TypeOK, CliState, procVars, upVars, downVars, Ended, Receiving
<1>1. CASE Startup
  BY <1>1 DEF Startup, NoDevice, OpenRelay, OpenRelayDone, Listen, Accept, OpenCtl
<1>2. CASE Communicate
  BY <1>2 DEF Communicate, SpawnTo, SpawnFrom, JoinTo, JoinFrom
<1>3. CASE Signal
  BY <1>3 DEF Signal
<1>4. CASE ToThread
  BY <1>4 DEF ToThread, ToRead, ToEof, WriteRelay, WriteRelayDone, CloseRelay, CloseRelayDone
<1>5. CASE FromThread
  BY <1>5 DEF FromThread, ReadRelay, ReadRelayDone, SockWrite, SockWriteGone, Shutdown
<1>6. CASE Device
  BY <1>6 DEF Device, DevOpen, DevWrite, DevRead, DevClose
<1>7. CASE DeviceFault
  BY <1>7 DEF DeviceFault, WriteFault, ReadFault, CloseFault
<1>8. CASE Client
  BY <1>8 DEF Client, CliSend, CliRecv, CliHalfClose, CliClose
<1>9. CASE Service
  BY <1>9 DEF Service, SvcSend, SvcDown
<1>10. CASE UNCHANGED vars
  BY <1>10 DEF vars
<1> QED BY <1>1, <1>2, <1>3, <1>4, <1>5, <1>6, <1>7, <1>8, <1>9, <1>10 DEF Next

\* Bytes that have left the drive keep their place in the stream, whatever is
\* closed behind them.
LEMMA DownPrefixStep ==
    TypeOK /\ OpenCtl /\ FromCtl /\ DownNoLoss /\ DownPrefix /\ [Next]_vars => DownPrefix'
<1> SUFFICES ASSUME TypeOK, OpenCtl, FromCtl, DownNoLoss, DownPrefix, [Next]_vars,
                    cli' \notin {"closed", "reset"}
             PROVE  \E rest \in Seq(Byte) :
                        svcSent' = ((cliGot' \o sockOut') \o fromBuf') \o rest
  BY DEF DownPrefix
<1>0. /\ cliGot \in Seq(Byte) /\ sockOut \in Seq(Byte) /\ fromBuf \in Seq(Byte)
      /\ downQ \in Seq(Byte) /\ svcSent \in Seq(Byte)
      /\ cliGot \o sockOut \in Seq(Byte) /\ (cliGot \o sockOut) \o fromBuf \in Seq(Byte)
  BY Concat DEF TypeOK
<1>cli. cli \notin {"closed", "reset"}
  BY CliStays
<1>rest. PICK rest \in Seq(Byte) : svcSent = ((cliGot \o sockOut) \o fromBuf) \o rest
  BY <1>cli DEF DownPrefix
<1>same. CASE UNCHANGED <<svcSent, cliGot, sockOut, fromBuf>>
  BY <1>same, <1>rest
<1> USE DEF procVars, upVars, downVars
<1>1. CASE Startup \/ Communicate \/ Signal
  BY <1>1, <1>same DEF Startup, NoDevice, OpenRelay, OpenRelayDone, Listen, Accept,
                       Communicate, SpawnTo, SpawnFrom, JoinTo, JoinFrom, Signal
<1>2. CASE ToThread
  BY <1>2, <1>same DEF ToThread, ToRead, ToEof, WriteRelay, WriteRelayDone,
                       CloseRelay, CloseRelayDone
<1>3. CASE FromThread
  <2>1. CASE SockWrite
    <3>1. PICK n \in 1..Len(fromBuf) :
              /\ sockOut' = sockOut \o Take(fromBuf, n) /\ fromBuf' = Drop(fromBuf, n)
              /\ UNCHANGED <<svcSent, cliGot>>
      BY <2>1 DEF SockWrite
    <3>2. n \in 0..Len(fromBuf)
      OBVIOUS
    <3>3. PICK a, t : a = cliGot \o sockOut /\ t = Take(fromBuf, n)
      OBVIOUS
    <3>4. a \in Seq(Byte) /\ t \in Seq(Byte) /\ (a \o t) \o fromBuf' = a \o fromBuf
      BY <1>0, <3>1, <3>2, <3>3, Moved
    <3>5. cliGot' \o sockOut' = a \o t
      <4>1. cliGot \in Seq(Byte) /\ sockOut \in Seq(Byte) /\ t \in Seq(Byte)
        BY <1>0, <3>4
      <4>2. (cliGot \o sockOut) \o t = cliGot \o (sockOut \o t)
        BY <4>1, Assoc, Zenon
      <4> QED BY <3>1, <3>3, <4>2
    <3> QED BY <1>rest, <3>1, <3>3, <3>4, <3>5
  <2>2. CASE SockWriteGone
    BY <1>cli, <2>2 DEF SockWriteGone
  <2>3. CASE ReadRelay \/ ReadRelayDone \/ Shutdown
    BY <2>3, <1>same DEF ReadRelay, ReadRelayDone, Shutdown
  <2> QED BY <1>3, <2>1, <2>2, <2>3 DEF FromThread
<1>4. CASE Device
  <2>1. CASE DevRead
    <3>1. CASE UNCHANGED fromBuf
      BY <1>same, <2>1, <3>1 DEF DevRead
    <3>2. ASSUME NEW n \in 1..Len(downQ), relay = "open", cmd["read"] = "sent",
                 fromBuf' = Take(downQ, n), UNCHANGED <<svcSent, cliGot, sockOut>>
          PROVE  \E r \in Seq(Byte) :
                     svcSent' = ((cliGot' \o sockOut') \o fromBuf') \o r
      <4>1. fromBuf = <<>>
        BY <3>2 DEF FromCtl
      <4>2. svcSent = ((cliGot \o sockOut) \o <<>>) \o downQ
        BY <1>cli, <3>2, <4>1 DEF DownNoLoss
      <4>3. PICK a, d : a = cliGot \o sockOut /\ d = Drop(downQ, n)
        OBVIOUS
      <4>4. n \in 0..Len(downQ)
        OBVIOUS
      <4>5. a \in Seq(Byte) /\ d \in Seq(Byte) /\ fromBuf' \in Seq(Byte)
            /\ (a \o fromBuf') \o d = a \o downQ
        BY <1>0, <3>2, <4>3, <4>4, Moved
      <4>6. a \o <<>> = a
        BY <4>5, Empty
      <4> QED BY <3>2, <4>2, <4>3, <4>5, <4>6
    <3> QED BY <2>1, <3>1, <3>2 DEF DevRead
  <2>2. CASE DevOpen \/ DevWrite \/ DevClose
    BY <2>2, <1>same DEF DevOpen, DevWrite, DevClose
  <2> QED BY <1>4, <2>1, <2>2 DEF Device
<1>5. CASE DeviceFault
  BY <1>5, <1>same DEF DeviceFault, WriteFault, ReadFault, CloseFault
<1>6. CASE Client
  <2>1. CASE CliRecv
    <3>1. /\ sockOut # <<>> /\ cliGot' = Append(cliGot, Head(sockOut)) /\ sockOut' = Tail(sockOut)
          /\ UNCHANGED <<svcSent, fromBuf>>
      BY <2>1 DEF CliRecv
    <3>2. cliGot' \o sockOut' = cliGot \o sockOut
      BY <1>0, <3>1, FlowHead
    <3> QED BY <1>rest, <3>1, <3>2
  <2>2. CASE (\E b \in Byte : CliSend(b)) \/ CliHalfClose \/ CliClose
    BY <2>2, <1>same DEF CliSend, CliHalfClose, CliClose
  <2> QED BY <1>6, <2>1, <2>2 DEF Client
<1>7. CASE Service
  <2>1. ASSUME NEW b \in Byte, SvcSend(b)
        PROVE  \E r \in Seq(Byte) : svcSent' = ((cliGot' \o sockOut') \o fromBuf') \o r
    <3>1. svcSent' = Append(svcSent, b) /\ UNCHANGED <<cliGot, sockOut, fromBuf>>
      BY <2>1 DEF SvcSend
    <3>2. PICK w, u : w = (cliGot \o sockOut) \o fromBuf /\ u = <<b>>
      OBVIOUS
    <3>3. w \in Seq(Byte) /\ u \in Seq(Byte) /\ rest \in Seq(Byte) /\ rest \o u \in Seq(Byte)
      BY <1>0, <1>rest, <3>2, Concat
    <3>4. svcSent' = svcSent \o u
      BY <1>0, <3>1, <3>2, Appended
    <3>5. (w \o rest) \o u = w \o (rest \o u)
      BY <3>3, Assoc, Zenon
    <3> QED BY <1>rest, <3>1, <3>2, <3>3, <3>4, <3>5
  <2>2. CASE SvcDown
    BY <2>2, <1>same DEF SvcDown
  <2> QED BY <1>7, <2>1, <2>2 DEF Service
<1>8. CASE UNCHANGED vars
  BY <1>8, <1>same DEF vars
<1> QED BY <1>1, <1>2, <1>3, <1>4, <1>5, <1>6, <1>7, <1>8 DEF Next

\* The strengthened invariant holds in every reachable state.
LEMMA PipeInvariance == SafeSpec => []PipeInv
<1>1. Init => PipeInv
  <2> SUFFICES ASSUME Init PROVE PipeInv
    OBVIOUS
  <2>1. CliCtl
    BY DEF Init, CliCtl
  <2>2. DownPrefix
    <3>1. <<>> \in Seq(Byte) /\ <<>> \o <<>> = <<>>
      BY Concat, Empty
    <3> QED BY <3>1 DEF Init, DownPrefix
  <2> QED BY <2>1, <2>2, IInvInit DEF PipeInv
<1>2. PipeInv /\ [Next]_vars => PipeInv'
  BY IInvStep, CliCtlStep, DownPrefixStep DEF PipeInv, IInv
<1> QED BY <1>1, <1>2, PTL DEF SafeSpec

-----------------------------------------------------------------------------
(* Breaking                                                                *)

\* What breaks a direction lasts: nothing is opened, started or issued twice.
LEMMA Lasting ==
    ASSUME TypeOK, OpenCtl, ToCtl, FromCtl, [Next]_vars
    PROVE  /\ Ended => Ended'
           /\ svc = "down" => svc' = "down"
           /\ relay = "closed" => relay' = "closed"
           /\ cmd["write"] = "fail" => cmd'["write"] = "fail"
           /\ cmd["read"] = "fail" => cmd'["read"] = "fail"
           /\ to = "absent" => to' = "absent"
           /\ from = "absent" => from' = "absent"
<1> USE DEF TypeOK, Op, CmdState, procVars, upVars, downVars, Ended, Issue, Complete
<1>1. CASE Startup
  BY <1>1 DEF Startup, NoDevice, OpenRelay, OpenRelayDone, Listen, Accept
<1>2. CASE Communicate
  BY <1>2 DEF Communicate, SpawnTo, SpawnFrom, JoinTo, JoinFrom, ToCtl, FromCtl
<1>3. CASE Signal
  BY <1>3 DEF Signal
<1>4. CASE ToThread
  BY <1>4 DEF ToThread, ToRead, ToEof, WriteRelay, WriteRelayDone, CloseRelay, CloseRelayDone
<1>5. CASE FromThread
  BY <1>5 DEF FromThread, ReadRelay, ReadRelayDone, SockWrite, SockWriteGone, Shutdown
<1>6. CASE Device
  BY <1>6 DEF Device, DevOpen, DevWrite, DevRead, DevClose, OpenCtl
<1>7. CASE DeviceFault
  BY <1>7 DEF DeviceFault, WriteFault, ReadFault, CloseFault
<1>8. CASE Client
  BY <1>8 DEF Client, CliSend, CliRecv, CliHalfClose, CliClose
<1>9. CASE Service
  BY <1>9 DEF Service, SvcSend, SvcDown
<1>10. CASE UNCHANGED vars
  BY <1>10 DEF vars
<1> QED BY <1>1, <1>2, <1>3, <1>4, <1>5, <1>6, <1>7, <1>8, <1>9, <1>10 DEF Next

\* How the state of either pipe can change in a step.
LEMMA StateChanges ==
    ASSUME IInv, [Next]_vars,
           NEW p, NEW q, \/ p = PipeState(UpBroken) /\ q = PipeState(UpBroken)'
                         \/ p = PipeState(DownBroken) /\ q = PipeState(DownBroken)'
    PROVE  \/ p = q
           \/ p = "idle" /\ q = "open"
           \/ p \in {"idle", "open"} /\ q = "broken"
<1>1. UpBroken => UpBroken'
  BY Lasting, CliStays DEF IInv, UpBroken
<1>2. DownBroken => DownBroken'
  BY Lasting, CliStays DEF IInv, DownBroken
<1>3. cli # "none" => cli' # "none"
  BY CliStays DEF IInv
<1> QED BY <1>1, <1>2, <1>3 DEF PipeState

-----------------------------------------------------------------------------
(* Up: from the client to the service                                      *)

\* A step that the client's stream does not take part in: the pipe stutters,
\* opens, or breaks without a delivery.
LEMMA UpStill ==
    ASSUME PipeInv, [Next]_vars, UNCHANGED <<cliSent, svcGot>>
    PROVE  [Up!PipeNext]_(Up!pipeVars)
<1>1. PICK p, q : p = PipeState(UpBroken) /\ q = PipeState(UpBroken)'
  OBVIOUS
<1>2. CASE p = q
  BY <1>1, <1>2 DEF Up!pipeVars
<1>3. CASE p = "idle" /\ q = "open"
  BY <1>1, <1>3 DEF Up!PipeNext, Up!Open
<1>4. CASE p \in {"idle", "open"} /\ q = "broken"
  <2>1. svc = "up" /\ cmd["write"] # "fail"
    BY <1>1, <1>4 DEF PipeState, UpBroken, PipeInv, IInv, TypeOK
  <2>2. cliSent = (svcGot \o toBuf) \o sockIn
    BY <2>1 DEF PipeInv, IInv, UpNoLoss
  <2>3. svcGot \in Seq(Byte) /\ toBuf \in Seq(Byte) /\ sockIn \in Seq(Byte)
    BY DEF PipeInv, IInv, TypeOK
  <2>4. Len(svcGot) \in 0..Len(cliSent) /\ svcGot = SubSeq(cliSent, 1, Len(svcGot))
    BY <2>2, <2>3, FirstOfThree, Zenon
  <2>5. Len(svcGot) \in Len(svcGot)..Len(cliSent)
    <3>1. Len(svcGot) \in Nat /\ Len(cliSent) \in Nat
      BY LenProperties DEF PipeInv, IInv, TypeOK
    <3> QED BY <2>4, <3>1
  <2>6. Up!Break
    BY <1>1, <1>4, <2>4, <2>5 DEF Up!Break
  <2> QED BY <2>6 DEF Up!PipeNext
<1> QED BY <1>1, <1>2, <1>3, <1>4, StateChanges DEF PipeInv

\* A WRITE, or the part of one that fails, is a delivery.
LEMMA UpDelivers ==
    ASSUME PipeInv, [Next]_vars, UNCHANGED cliSent, svc = "up", cmd["write"] = "sent",
           NEW n \in 0..Len(toBuf), svcGot' = svcGot \o Take(toBuf, n)
    PROVE  [Up!PipeNext]_(Up!pipeVars)
<1>0. svcGot \in Seq(Byte) /\ toBuf \in Seq(Byte) /\ sockIn \in Seq(Byte)
  BY DEF PipeInv, IInv, TypeOK
<1>1. cliSent = (svcGot \o toBuf) \o sockIn
  BY DEF PipeInv, IInv, UpNoLoss
<1>2. /\ Len(svcGot) \in Nat /\ Len(svcGot') = Len(svcGot) + n
      /\ Len(svcGot') \in 0..Len(cliSent)
      /\ svcGot' = SubSeq(cliSent, 1, Len(svcGot'))
      /\ n = 0 => svcGot' = svcGot
  <2>1. \A k \in 0..Len(toBuf) : \A t : t = svcGot \o Take(toBuf, k) =>
            /\ Len(svcGot) \in Nat /\ Len(t) = Len(svcGot) + k
            /\ Len(t) \in 0..Len((svcGot \o toBuf) \o sockIn)
            /\ t = SubSeq((svcGot \o toBuf) \o sockIn, 1, Len(t))
            /\ k = 0 => t = svcGot
    BY <1>0, Chunk, Zenon
  <2>2. PICK t : t = svcGot'
    OBVIOUS
  <2>3. /\ Len(svcGot) \in Nat /\ Len(t) = Len(svcGot) + n
        /\ Len(t) \in 0..Len((svcGot \o toBuf) \o sockIn)
        /\ t = SubSeq((svcGot \o toBuf) \o sockIn, 1, Len(t))
        /\ n = 0 => t = svcGot
    BY <2>1, <2>2
  <2> QED BY <1>1, <2>2, <2>3
<1>3. n \in Nat /\ Len(cliSent) \in Nat
  BY <1>0, LenProperties DEF PipeInv, IInv, TypeOK
<1>4. CASE n = 0
  BY <1>2, <1>4, UpStill
<1>5. CASE n # 0
  <2>1. PICK m : m = Len(svcGot')
    OBVIOUS
  <2>2. m \in (Len(svcGot) + 1)..Len(cliSent) /\ m \in Len(svcGot)..Len(cliSent)
        /\ svcGot' = SubSeq(cliSent, 1, m)
    BY <1>2, <1>3, <1>5, <2>1
  <2>3. PICK p, q : p = PipeState(UpBroken) /\ q = PipeState(UpBroken)'
    OBVIOUS
  <2>4. p # "idle"
    <3>1. to = "write"
      BY DEF PipeInv, IInv, ToCtl
    <3> QED BY <2>3, <3>1 DEF PipeInv, CliCtl, PipeState
  <2>5. CASE p = q
    <3>1. Up!Deliver
      BY <2>2, <2>3, <2>4, <2>5 DEF Up!Deliver
    <3> QED BY <3>1 DEF Up!PipeNext
  <2>6. CASE p = "open" /\ q = "broken"
    <3>1. Up!Break
      BY <2>2, <2>3, <2>6 DEF Up!Break
    <3> QED BY <3>1 DEF Up!PipeNext
  <2> QED BY <2>3, <2>4, <2>5, <2>6, StateChanges DEF PipeInv
<1> QED BY <1>4, <1>5

\* The client's send() is the pipe's.
LEMMA UpSends ==
    ASSUME PipeInv, NEW b \in Byte, CliSend(b)
    PROVE  Up!PipeNext
<1>1. Up!Send(b)
  BY DEF CliSend, Up!Send, PipeState, UpBroken, Ended, procVars, downVars
<1> QED BY <1>1 DEF Up!PipeNext

\* Every step of the relay is a step of the pipe from the client.
LEMMA UpMaps == PipeInv /\ [Next]_vars => [Up!PipeNext]_(Up!pipeVars)
<1> SUFFICES ASSUME PipeInv, [Next]_vars PROVE [Up!PipeNext]_(Up!pipeVars)
  OBVIOUS
<1>still. CASE UNCHANGED <<cliSent, svcGot>>
  BY <1>still, UpStill
<1> USE DEF procVars, upVars, downVars
<1>1. CASE Startup \/ Communicate \/ Signal
  BY <1>1, <1>still DEF Startup, NoDevice, OpenRelay, OpenRelayDone, Listen, Accept,
                        Communicate, SpawnTo, SpawnFrom, JoinTo, JoinFrom, Signal
<1>2. CASE ToThread
  BY <1>2, <1>still DEF ToThread, ToRead, ToEof, WriteRelay, WriteRelayDone,
                        CloseRelay, CloseRelayDone
<1>3. CASE FromThread
  BY <1>3, <1>still DEF FromThread, ReadRelay, ReadRelayDone, SockWrite, SockWriteGone, Shutdown
<1>4. CASE Device
  <2>1. CASE DevWrite
    <3>1. CASE UNCHANGED svcGot
      BY <1>still, <2>1, <3>1 DEF DevWrite
    <3>2. CASE svc = "up" /\ svcGot' = svcGot \o toBuf
      <4>1. toBuf \in Seq(Byte)
        BY DEF PipeInv, IInv, TypeOK
      <4>2. Len(toBuf) \in 0..Len(toBuf) /\ Take(toBuf, Len(toBuf)) = toBuf
        <5>1. Len(toBuf) \in Nat
          BY <4>1, LenProperties
        <5> QED BY <4>1, <5>1, SubSeqFull DEF Take
      <4> QED BY <2>1, <3>2, <4>2, UpDelivers DEF DevWrite
    <3> QED BY <2>1, <3>1, <3>2 DEF DevWrite
  <2>2. CASE DevOpen \/ DevRead \/ DevClose
    BY <1>still, <2>2 DEF DevOpen, DevRead, DevClose
  <2> QED BY <1>4, <2>1, <2>2 DEF Device
<1>5. CASE DeviceFault
  <2>1. CASE WriteFault
    <3>1. CASE UNCHANGED svcGot
      BY <1>still, <2>1, <3>1 DEF WriteFault
    <3>2. ASSUME NEW n \in 0..Len(toBuf), svc = "up", svcGot' = svcGot \o Take(toBuf, n)
          PROVE  [Up!PipeNext]_(Up!pipeVars)
      BY <2>1, <3>2, UpDelivers DEF WriteFault
    <3> QED BY <2>1, <3>1, <3>2 DEF WriteFault
  <2>2. CASE ReadFault \/ CloseFault
    BY <1>still, <2>2 DEF ReadFault, CloseFault
  <2> QED BY <1>5, <2>1, <2>2 DEF DeviceFault
<1>6. CASE Client
  <2>1. ASSUME NEW b \in Byte, CliSend(b) PROVE [Up!PipeNext]_(Up!pipeVars)
    BY <2>1, UpSends
  <2>2. CASE CliRecv \/ CliHalfClose \/ CliClose
    BY <1>still, <2>2 DEF CliRecv, CliHalfClose, CliClose
  <2> QED BY <1>6, <2>1, <2>2 DEF Client
<1>7. CASE Service
  BY <1>7, <1>still DEF Service, SvcSend, SvcDown
<1>8. CASE UNCHANGED vars
  BY <1>8, <1>still DEF vars
<1> QED BY <1>1, <1>2, <1>3, <1>4, <1>5, <1>6, <1>7, <1>8 DEF Next

\* The bytes of the client reach the service in the order they were sent, each
\* once and none after a gap, whatever fails.
THEOREM ClientPipe == SafeSpec => UpInOrder
<1>1. Init => Up!PipeInit
  BY DEF Init, Up!PipeInit, PipeState, UpBroken, Ended, Op
<1> QED BY <1>1, UpMaps, PipeInvariance, PTL DEF SafeSpec, UpInOrder, Up!PipeSafe

-----------------------------------------------------------------------------
(* Down: from the service to the client's connection                       *)

\* A step that the service's stream does not take part in: the pipe stutters,
\* opens, or breaks without a delivery.
LEMMA DownStill ==
    ASSUME PipeInv, [Next]_vars, UNCHANGED svcSent, cliGot' \o sockOut' = cliGot \o sockOut
    PROVE  [Down!PipeNext]_(Down!pipeVars)
<1>1. PICK p, q : p = PipeState(DownBroken) /\ q = PipeState(DownBroken)'
  OBVIOUS
<1>2. CASE p = q
  BY <1>1, <1>2 DEF Down!pipeVars
<1>3. CASE p = "idle" /\ q = "open"
  BY <1>1, <1>3 DEF Down!PipeNext, Down!Open
<1>4. CASE p \in {"idle", "open"} /\ q = "broken"
  <2>1. cli \notin {"closed", "reset"}
    BY <1>1, <1>4 DEF PipeState, DownBroken
  <2>2. PICK rest \in Seq(Byte) : svcSent = ((cliGot \o sockOut) \o fromBuf) \o rest
    BY <2>1 DEF PipeInv, DownPrefix
  <2>3. PICK d : d = cliGot \o sockOut
    OBVIOUS
  <2>4. d \in Seq(Byte) /\ fromBuf \in Seq(Byte) /\ rest \in Seq(Byte)
    BY <2>2, <2>3, Concat DEF PipeInv, IInv, TypeOK
  <2>5. Len(d) \in 0..Len((d \o fromBuf) \o rest) /\ d = SubSeq((d \o fromBuf) \o rest, 1, Len(d))
    BY <2>4, FirstOfThree, Zenon
  <2>6. Len(d) \in Len(d)..Len(svcSent) /\ d = SubSeq(svcSent, 1, Len(d))
    <3>1. Len(d) \in Nat /\ Len(svcSent) \in Nat
      BY <2>4, LenProperties DEF PipeInv, IInv, TypeOK
    <3> QED BY <2>2, <2>3, <2>5, <3>1
  <2>7. Down!Break
    BY <1>1, <1>4, <2>3, <2>6 DEF Down!Break
  <2> QED BY <2>7 DEF Down!PipeNext
<1> QED BY <1>1, <1>2, <1>3, <1>4, StateChanges DEF PipeInv

\* What write() copies into the socket is a delivery.
LEMMA DownDelivers ==
    ASSUME PipeInv, [Next]_vars, UNCHANGED <<svcSent, cliGot>>, Receiving,
           NEW n \in 1..Len(fromBuf), sockOut' = sockOut \o Take(fromBuf, n)
    PROVE  [Down!PipeNext]_(Down!pipeVars)
<1>0. /\ cliGot \in Seq(Byte) /\ sockOut \in Seq(Byte) /\ fromBuf \in Seq(Byte)
      /\ cliGot \o sockOut \in Seq(Byte) /\ Len(svcSent) \in Nat
  BY Concat, LenProperties DEF PipeInv, IInv, TypeOK
<1>1. PICK rest \in Seq(Byte) : svcSent = ((cliGot \o sockOut) \o fromBuf) \o rest
  BY DEF PipeInv, DownPrefix, Receiving
<1>2. PICK d, e, k : /\ d = cliGot \o sockOut /\ e = cliGot' \o sockOut'
                     /\ k = Take(fromBuf, n)
  OBVIOUS
<1>3. n \in 0..Len(fromBuf) /\ n \in Nat /\ n # 0
  BY <1>0, LenProperties
<1>4. e = d \o k
  <2>1. k \in Seq(Byte)
    BY <1>0, <1>2, <1>3, Moved
  <2>2. (cliGot \o sockOut) \o k = cliGot \o (sockOut \o k)
    <3>1. cliGot \in Seq(Byte) /\ sockOut \in Seq(Byte) /\ k \in Seq(Byte)
      BY <1>0, <2>1
    <3> QED BY <3>1, Assoc, Zenon
  <2> QED BY <1>2, <2>2
<1>5. Len(d) \in Nat /\ Len(e) = Len(d) + n /\ Len(e) \in 0..Len(svcSent)
      /\ e = SubSeq(svcSent, 1, Len(e))
  <2>1. d \in Seq(Byte) /\ fromBuf \in Seq(Byte) /\ rest \in Seq(Byte)
    BY <1>0, <1>1, <1>2
  <2>2. \A i \in 0..Len(fromBuf) : \A t : t = d \o Take(fromBuf, i) =>
            /\ Len(d) \in Nat /\ Len(t) = Len(d) + i
            /\ Len(t) \in 0..Len((d \o fromBuf) \o rest)
            /\ t = SubSeq((d \o fromBuf) \o rest, 1, Len(t))
            /\ i = 0 => t = d
    BY <2>1, Chunk, Zenon
  <2>3. /\ Len(d) \in Nat /\ Len(e) = Len(d) + n
        /\ Len(e) \in 0..Len((d \o fromBuf) \o rest)
        /\ e = SubSeq((d \o fromBuf) \o rest, 1, Len(e))
    BY <1>2, <1>3, <1>4, <2>2
  <2> QED BY <1>1, <1>2, <2>3
<1>6. PICK m : m = Len(e)
  OBVIOUS
<1>7. m \in (Len(d) + 1)..Len(svcSent) /\ m \in Len(d)..Len(svcSent)
      /\ e = SubSeq(svcSent, 1, m)
  BY <1>0, <1>3, <1>5, <1>6
<1>8. PICK p, q : p = PipeState(DownBroken) /\ q = PipeState(DownBroken)'
  OBVIOUS
<1>9. p # "idle"
  BY <1>8 DEF PipeState, Receiving
<1>10. CASE p = q
  <2>1. Down!Deliver
    BY <1>2, <1>7, <1>8, <1>9, <1>10 DEF Down!Deliver
  <2> QED BY <2>1 DEF Down!PipeNext
<1>11. CASE p = "open" /\ q = "broken"
  <2>1. Down!Break
    BY <1>2, <1>7, <1>8, <1>11 DEF Down!Break
  <2> QED BY <2>1 DEF Down!PipeNext
<1> QED BY <1>8, <1>9, <1>10, <1>11, StateChanges DEF PipeInv

\* The service's send() is the pipe's, before a client has come too.
LEMMA DownSends ==
    ASSUME PipeInv, NEW b \in Byte, SvcSend(b)
    PROVE  Down!PipeNext
<1>1. Down!Send(b)
  BY DEF SvcSend, Down!Send, PipeState, DownBroken, Ended, procVars, upVars
<1> QED BY <1>1 DEF Down!PipeNext

\* Every step of the relay is a step of the pipe from the service.
LEMMA DownMaps == PipeInv /\ [Next]_vars => [Down!PipeNext]_(Down!pipeVars)
<1> SUFFICES ASSUME PipeInv, [Next]_vars PROVE [Down!PipeNext]_(Down!pipeVars)
  OBVIOUS
<1>still. CASE UNCHANGED <<svcSent, cliGot, sockOut>>
  BY <1>still, DownStill
<1> USE DEF procVars, upVars, downVars
<1>1. CASE Startup \/ Communicate \/ Signal
  BY <1>1, <1>still DEF Startup, NoDevice, OpenRelay, OpenRelayDone, Listen, Accept,
                        Communicate, SpawnTo, SpawnFrom, JoinTo, JoinFrom, Signal
<1>2. CASE ToThread
  BY <1>2, <1>still DEF ToThread, ToRead, ToEof, WriteRelay, WriteRelayDone,
                        CloseRelay, CloseRelayDone
<1>3. CASE FromThread
  <2>1. CASE SockWrite
    <3>1. PICK n \in 1..Len(fromBuf) : sockOut' = sockOut \o Take(fromBuf, n)
      BY <2>1 DEF SockWrite
    <3> QED BY <2>1, <3>1, DownDelivers DEF SockWrite
  <2>2. CASE ReadRelay \/ ReadRelayDone \/ SockWriteGone \/ Shutdown
    BY <1>still, <2>2 DEF ReadRelay, ReadRelayDone, SockWriteGone, Shutdown
  <2> QED BY <1>3, <2>1, <2>2 DEF FromThread
<1>4. CASE Device
  BY <1>4, <1>still DEF Device, DevOpen, DevWrite, DevRead, DevClose
<1>5. CASE DeviceFault
  BY <1>5, <1>still DEF DeviceFault, WriteFault, ReadFault, CloseFault
<1>6. CASE Client
  <2>1. CASE CliRecv
    <3>1. /\ sockOut # <<>> /\ cliGot' = Append(cliGot, Head(sockOut)) /\ sockOut' = Tail(sockOut)
          /\ UNCHANGED svcSent
      BY <2>1 DEF CliRecv
    <3>2. cliGot \in Seq(Byte) /\ sockOut \in Seq(Byte)
      BY DEF PipeInv, IInv, TypeOK
    <3>3. cliGot' \o sockOut' = cliGot \o sockOut
      BY <3>1, <3>2, FlowHead
    <3> QED BY <3>1, <3>3, DownStill
  <2>2. CASE (\E b \in Byte : CliSend(b)) \/ CliHalfClose \/ CliClose
    BY <1>still, <2>2 DEF CliSend, CliHalfClose, CliClose
  <2> QED BY <1>6, <2>1, <2>2 DEF Client
<1>7. CASE Service
  <2>1. ASSUME NEW b \in Byte, SvcSend(b) PROVE [Down!PipeNext]_(Down!pipeVars)
    BY <2>1, DownSends
  <2>2. CASE SvcDown
    BY <1>still, <2>2 DEF SvcDown
  <2> QED BY <1>7, <2>1, <2>2 DEF Service
<1>8. CASE UNCHANGED vars
  BY <1>8, <1>still DEF vars
<1> QED BY <1>1, <1>2, <1>3, <1>4, <1>5, <1>6, <1>7, <1>8 DEF Next

\* The bytes of the service reach the client's connection in the order they
\* were sent, each once and none after a gap, whatever fails.
THEOREM ServicePipe == SafeSpec => DownInOrder
<1>1. Init => Down!PipeInit
  <2>1. <<>> \o <<>> = <<>>
    BY Concat, Empty
  <2> QED BY <2>1 DEF Init, Down!PipeInit, PipeState, DownBroken, Ended, Op
<1> QED BY <1>1, DownMaps, PipeInvariance, PTL DEF SafeSpec, DownInOrder, Down!PipeSafe

-----------------------------------------------------------------------------
(* What a pipe is good for                                                 *)

Begins(d, s) == Len(d) <= Len(s) /\ d = SubSeq(s, 1, Len(d))

\* A stream that grows still begins with what it began with.
LEMMA BeginsSend ==
    ASSUME NEW s \in Seq(Byte), NEW d \in Seq(Byte), Begins(d, s), NEW b \in Byte
    PROVE  Begins(d, Append(s, b))
<1>1. PICK u : u = <<b>>
  OBVIOUS
<1>2. u \in Seq(Byte) /\ Append(s, b) = s \o u /\ Len(u) \in Nat
  BY <1>1, Concat, Appended, LenProperties
<1>3. Len(d) \in Nat /\ Len(s) \in Nat /\ Len(s \o u) = Len(s) + Len(u)
  BY <1>2, FirstPart
<1>4. SubSeq(s \o u, 1, Len(d)) = SubSeq(s, 1, Len(d))
  <2>1. CASE Len(d) = 0
    BY <2>1, SubSeqEmpty
  <2>2. CASE Len(d) # 0
    <3>1. 1 \in 1..Len(s) /\ Len(d) \in 1..Len(s)
      BY <1>3, <2>2 DEF Begins
    <3> QED BY <1>2, <3>1, SubSeqOfConcat1
  <2> QED BY <2>1, <2>2
<1> QED BY <1>2, <1>3, <1>4 DEF Begins

\* A delivery gives out a beginning of the stream.
LEMMA BeginsDeliver ==
    ASSUME NEW s \in Seq(Byte), NEW n \in 0..Len(s)
    PROVE  Begins(SubSeq(s, 1, n), s)
<1>1. Len(Take(s, n)) = n
  BY TakeDrop
<1>2. n <= Len(s)
  BY LenProperties
<1> QED BY <1>1, <1>2 DEF Begins, Take

\* At every moment, whatever has failed, what the service has got is a
\* beginning of what the client has sent.
THEOREM ServiceGotBeginning == SafeSpec => []Begins(svcGot, cliSent)
<1> DEFINE B == Begins(svcGot, cliSent)
<1>1. Up!PipeInit => B
  <2>1. Len(<<>>) = 0 /\ <<>> = SubSeq(<<>>, 1, 0)
    BY EmptySeq, SubSeqEmpty
  <2> QED BY <2>1 DEF Up!PipeInit, Begins
<1>2. TypeOK /\ B /\ [Up!PipeNext]_(Up!pipeVars) => B'
  <2> SUFFICES ASSUME TypeOK, B, [Up!PipeNext]_(Up!pipeVars) PROVE B'
    OBVIOUS
  <2>0. cliSent \in Seq(Byte) /\ svcGot \in Seq(Byte) /\ Len(svcGot) \in Nat
    BY LenProperties DEF TypeOK
  <2>1. ASSUME NEW b \in Byte, Up!Send(b) PROVE B'
    BY <2>0, <2>1, BeginsSend DEF Up!Send
  <2>2. CASE UNCHANGED <<cliSent, svcGot>>
    BY <2>2 DEF Begins
  <2>3. ASSUME NEW n \in 0..Len(cliSent), svcGot' = SubSeq(cliSent, 1, n), UNCHANGED cliSent
        PROVE  B'
    <3>1. Begins(SubSeq(cliSent, 1, n), cliSent)
      BY <2>0, BeginsDeliver
    <3> QED BY <2>3, <3>1
  <2>4. CASE Up!Deliver \/ Up!Break
    <3>0. Len(cliSent) \in Nat
      BY <2>0, LenProperties
    <3>1. PICK n \in Len(svcGot)..Len(cliSent) : svcGot' = SubSeq(cliSent, 1, n)
      <4>1. CASE Up!Deliver
        <5>1. PICK n \in (Len(svcGot) + 1)..Len(cliSent) : svcGot' = SubSeq(cliSent, 1, n)
          BY <4>1 DEF Up!Deliver
        <5>2. n \in Len(svcGot)..Len(cliSent)
          BY <2>0, <3>0
        <5> QED BY <5>1, <5>2
      <4>2. CASE Up!Break
        BY <4>2 DEF Up!Break
      <4> QED BY <2>4, <4>1, <4>2
    <3>2. n \in 0..Len(cliSent) /\ UNCHANGED cliSent
      BY <2>0, <2>4 DEF Up!Deliver, Up!Break
    <3> QED BY <2>3, <3>1, <3>2
  <2> QED BY <2>1, <2>2, <2>4 DEF Up!PipeNext, Up!Open, Up!pipeVars
<1> QED BY <1>1, <1>2, ClientPipe, TypeCorrect, PTL DEF UpInOrder, Up!PipeSafe

\* At every moment, whatever has failed, the client's connection has got a
\* beginning of what the service has said.
THEOREM ClientGotBeginning == SafeSpec => []Begins(cliGot \o sockOut, svcSent)
<1> DEFINE B == Begins(cliGot \o sockOut, svcSent)
<1>1. Down!PipeInit => B
  <2>1. Len(<<>>) = 0 /\ <<>> = SubSeq(<<>>, 1, 0)
    BY EmptySeq, SubSeqEmpty
  <2> QED BY <2>1 DEF Down!PipeInit, Begins
<1>2. TypeOK /\ B /\ [Down!PipeNext]_(Down!pipeVars) => B'
  <2> SUFFICES ASSUME TypeOK, B, [Down!PipeNext]_(Down!pipeVars) PROVE B'
    OBVIOUS
  <2>0. svcSent \in Seq(Byte) /\ cliGot \o sockOut \in Seq(Byte)
        /\ Len(cliGot \o sockOut) \in Nat
    <3>1. svcSent \in Seq(Byte) /\ cliGot \o sockOut \in Seq(Byte)
      BY Concat DEF TypeOK
    <3> QED BY <3>1, LenProperties
  <2>d. PICK d, e : d = cliGot \o sockOut /\ e = cliGot' \o sockOut'
    OBVIOUS
  <2>b. d \in Seq(Byte) /\ Len(d) \in Nat /\ Begins(d, svcSent)
    BY <2>0, <2>d
  <2> SUFFICES Begins(e, svcSent')
    BY <2>d
  <2>1. ASSUME NEW b \in Byte, Down!Send(b) PROVE Begins(e, svcSent')
    <3>1. e = d /\ svcSent' = Append(svcSent, b)
      BY <2>1, <2>d DEF Down!Send
    <3> QED BY <2>0, <2>b, <3>1, BeginsSend
  <2>2. CASE e = d /\ UNCHANGED svcSent
    BY <2>2, <2>b
  <2>4. CASE Down!Deliver \/ Down!Break
    <3>0. Len(svcSent) \in Nat
      BY <2>0, LenProperties
    <3>1. PICK n \in Len(d)..Len(svcSent) : e = SubSeq(svcSent, 1, n)
      <4>1. CASE Down!Deliver
        <5>1. PICK n \in (Len(d) + 1)..Len(svcSent) : e = SubSeq(svcSent, 1, n)
          BY <2>d, <4>1 DEF Down!Deliver
        <5>2. n \in Len(d)..Len(svcSent)
          BY <2>b, <3>0
        <5> QED BY <5>1, <5>2
      <4>2. CASE Down!Break
        BY <2>d, <4>2 DEF Down!Break
      <4> QED BY <2>4, <4>1, <4>2
    <3>2. n \in 0..Len(svcSent) /\ UNCHANGED svcSent
      BY <2>b, <2>4 DEF Down!Deliver, Down!Break
    <3>3. Begins(SubSeq(svcSent, 1, n), svcSent)
      BY <2>0, <3>2, BeginsDeliver
    <3> QED BY <3>1, <3>2, <3>3
  <2> QED BY <2>1, <2>2, <2>4, <2>d DEF Down!PipeNext, Down!Open, Down!pipeVars
<1> QED BY <1>1, <1>2, ServicePipe, TypeCorrect, PTL DEF DownInOrder, Down!PipeSafe
=============================================================================
