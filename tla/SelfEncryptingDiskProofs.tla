---------------------- MODULE SelfEncryptingDiskProofs ----------------------
(***************************************************************************)
(* What SelfEncryptingDisk promises, for any number of host threads and    *)
(* workers, any disk, any size of commands, and all the faults.            *)
(***************************************************************************)
EXTENDS SelfEncryptingDisk, SequenceTheorems, TLAPS

Under(data, n) == \A i \in DOMAIN data : data[i].enc = n

\* How often the sectors of a command are encrypted on their way.
SlotCtl(s) ==
    /\ s.st = "issued" => Under(s.data, 0)
    /\ s.st \in {"queued", "worker", "lost"} => Under(s.data, IF s.op = "read" THEN 1 ELSE 0)
    /\ s.st = "answered" /\ s.ok => Under(s.data, IF s.op = "read" THEN 0 ELSE 1)
    /\ s.st = "done" /\ s.op = "read" => Under(s.data, 0)
    /\ s.st \in {"issued", "queued", "worker", "lost"} => s.ok
    /\ s.st = "answered" /\ s.ok => s.op # "other"
    /\ s.st # "idle" => s.lo \in Lba /\ s.op \in Opcode
    /\ s.st \in {"issued", "queued", "worker", "answered"} =>
        Len(s.data) > 0 /\ s.lo + Len(s.data) - 1 \in Lba

\* A worker that handles a command has it for itself, and an answer with
\* status 0 holds its sectors, transformed.
WorkerCtl(q) ==
    /\ wpc[q] \in {"handle", "write"} => win[q] \in Host
    /\ wpc[q] = "write" /\ wok[q] =>
        /\ slot[win[q]].op # "other"
        /\ \A i \in 1..Len(slot[win[q]].data) :
            out[q][i] = IF slot[win[q]].op = "read" THEN aes_decrypt(slot[win[q]].data[i])
                                                    ELSE aes_encrypt(slot[win[q]].data[i])

Inv == /\ TypeOK /\ EncryptedAtRest /\ OnePlace
       /\ \A h \in Host : SlotCtl(slot[h])
       /\ \A q \in Queue : WorkerCtl(q)

-----------------------------------------------------------------------------
\* The data of a command keeps its length when its sectors are replaced.
LEMMA Replaced ==
    ASSUME NEW d \in Seq(Sector), NEW f \in [DOMAIN d -> Sector]
    PROVE  f \in Seq(Sector) /\ Len(f) = Len(d) /\ DOMAIN f = DOMAIN d
  <1>1. DOMAIN d = 1..Len(d) /\ Len(d) \in Nat
    OBVIOUS
  <1>2. f \in [1..Len(d) -> Sector]
    BY <1>1
  <1>3. QED
    BY <1>1, <1>2, SeqDef

\* One more encryption, or one less.
LEMMA Aes ==
    ASSUME NEW s \in Sector
    PROVE  /\ s.enc \in 0..1 => aes_encrypt(s) \in Sector /\ aes_decrypt(s) \in Sector
           /\ aes_encrypt(s).enc = s.enc + 1 /\ aes_decrypt(s).enc = s.enc - 1
  BY DEF Sector, aes_encrypt, aes_decrypt

\* A value that the host writes is a sector that is not encrypted.
LEMMA PlainSector == ASSUME NEW v \in Val PROVE Plain(v) \in Sector /\ Plain(v).enc = 0
  BY DEF Plain, Sector

-----------------------------------------------------------------------------
\* A step that changes the command of one thread changes nothing of another's.
LEMMA OneSlot ==
    ASSUME Inv, NEW h \in Host, NEW r \in SlotType, slot' = [slot EXCEPT ![h] = r],
           Len(r.data) <= MaxBlocks, SlotCtl(r)
    PROVE  /\ slot' \in [Host -> SlotType]
           /\ \A g \in Host : Len(slot'[g].data) <= MaxBlocks /\ SlotCtl(slot'[g])
           /\ slot'[h] = r /\ \A g \in Host \ {h} : slot'[g] = slot[g]
  BY DEF Inv, TypeOK

\* A command that is neither queued nor with a worker is no worker's business.
LEMMA OutsideWorkers ==
    ASSUME Inv, NEW h \in Host, slot[h].st \notin {"queued", "worker"},
           \A g \in Host \ {h} : slot'[g] = slot[g],
           UNCHANGED <<queue, wpc, win, out, wok>>
    PROVE  OnePlace' /\ \A q \in Queue : WorkerCtl(q)'
  <1>1. \A q \in Queue : wpc[q] \in {"handle", "write"} => win[q] \in Host \ {h}
    BY DEF Inv, OnePlace, WorkerCtl
  <1>2. \A q \in Queue : \A i \in DOMAIN queue[q] : queue[q][i] \in Host \ {h}
    BY DEF Inv, TypeOK, OnePlace
  <1>3. OnePlace'
    BY <1>1, <1>2 DEF Inv, OnePlace
  <1>4. ASSUME NEW q \in Queue PROVE WorkerCtl(q)'
    BY <1>1 DEF Inv, WorkerCtl
  <1>5. QED
    BY <1>3, <1>4

\* No command waits twice.
LEMMA Unqueued ==
    ASSUME Inv, NEW q \in Queue, NEW i \in DOMAIN queue[q],
           NEW t \in Queue, NEW j \in DOMAIN queue[t], queue[q][i] = queue[t][j]
    PROVE  q = t /\ i = j
  BY DEF Inv, OnePlace

\* A command starts with plain sectors.
LEMMA IssueStep == ASSUME Inv, NEW h \in Host, Issue(h) PROVE Inv'
  <1>1. PICK op \in Opcode, lo \in Lba, n \in 1..MaxBlocks : \E v \in [1..n -> Val] :
            /\ lo + n - 1 \in Lba
            /\ op \in {"read", "write_zeroes"} => \A i \in 1..n : v[i] = Zero
            /\ slot' = [slot EXCEPT ![h] = [st |-> "issued", op |-> op, lo |-> lo,
                            data |-> [i \in 1..n |-> Plain(v[i])], ok |-> TRUE]]
    BY Zenon DEF Issue
  <1>2. PICK v \in [1..n -> Val] :
            /\ lo + n - 1 \in Lba
            /\ op \in {"read", "write_zeroes"} => \A i \in 1..n : v[i] = Zero
            /\ slot' = [slot EXCEPT ![h] = [st |-> "issued", op |-> op, lo |-> lo,
                            data |-> [i \in 1..n |-> Plain(v[i])], ok |-> TRUE]]
    BY <1>1, Zenon
  <1> DEFINE data == [i \in 1..n |-> Plain(v[i])]
             r == [st |-> "issued", op |-> op, lo |-> lo, data |-> data, ok |-> TRUE]
  <1>3. data \in [1..n -> Sector] /\ n \in Nat /\ n > 0 /\ n <= MaxBlocks
    BY PlainSector, DiskAssumption
  <1>4. data \in Seq(Sector) /\ Len(data) = n /\ DOMAIN data = 1..n
    BY <1>3, SeqDef
  <1>5. Under(data, 0)
    BY <1>3, PlainSector DEF Under
  <1>6. r \in SlotType
    BY <1>4 DEF SlotType
  <1>7. SlotCtl(r) /\ Len(r.data) <= MaxBlocks
    BY <1>2, <1>3, <1>4, <1>5 DEF SlotCtl
  <1>8. slot' = [slot EXCEPT ![h] = r]
    BY <1>2
  <1>9. UNCHANGED <<disk, queue, wpc, win, out, wok>> /\ slot[h].st = "idle"
    BY DEF Issue
  <1> HIDE DEF r, data
  <1>10. /\ slot' \in [Host -> SlotType]
         /\ \A g \in Host : Len(slot'[g].data) <= MaxBlocks /\ SlotCtl(slot'[g])
         /\ \A g \in Host \ {h} : slot'[g] = slot[g]
    BY <1>6, <1>7, <1>8, OneSlot
  <1>11. OnePlace' /\ \A q \in Queue : WorkerCtl(q)'
    BY <1>9, <1>10, OutsideWorkers
  <1>12. TypeOK' /\ EncryptedAtRest'
    BY <1>9, <1>10 DEF Inv, TypeOK, EncryptedAtRest
  <1>13. QED
    BY <1>10, <1>11, <1>12 DEF Inv

\* Collecting a command forgets it.
LEMMA CollectStep == ASSUME Inv, NEW h \in Host, Collect(h) PROVE Inv'
  <1>1. slot' = [slot EXCEPT ![h] = Idle] /\ slot[h].st = "done"
        /\ UNCHANGED <<disk, queue, wpc, win, out, wok>>
    BY DEF Collect
  <1>2. Idle \in SlotType /\ Idle.data = <<>> /\ Idle.st = "idle"
    BY EmptySeq DEF Idle, SlotType
  <1>3. SlotCtl(Idle) /\ Len(Idle.data) <= MaxBlocks
    BY <1>2, DiskAssumption DEF SlotCtl, Under
  <1>10. /\ slot' \in [Host -> SlotType]
         /\ \A g \in Host : Len(slot'[g].data) <= MaxBlocks /\ SlotCtl(slot'[g])
         /\ \A g \in Host \ {h} : slot'[g] = slot[g]
    BY <1>1, <1>2, <1>3, OneSlot
  <1>11. OnePlace' /\ \A q \in Queue : WorkerCtl(q)'
    BY <1>1, <1>10, OutsideWorkers
  <1>12. TypeOK' /\ EncryptedAtRest'
    BY <1>1, <1>10 DEF Inv, TypeOK, EncryptedAtRest
  <1>13. QED
    BY <1>10, <1>11, <1>12 DEF Inv

\* What a successful write stores is under one encryption.
LEMMA FinishStep == ASSUME Inv, NEW h \in Host, Finish(h) PROVE Inv'
  <1> DEFINE s == slot[h]
             d == IF s.ok THEN s.data ELSE <<>>
             r == [s EXCEPT !.st = "done", !.data = d]
  <1>1. slot' = [slot EXCEPT ![h] = r] /\ s.st = "answered"
        /\ UNCHANGED <<queue, wpc, win, out, wok>>
    BY DEF Finish, Inv, TypeOK
  <1>2. s \in SlotType /\ Len(s.data) <= MaxBlocks /\ SlotCtl(s)
    BY DEF Inv, TypeOK
  <1>3. d \in Seq(Sector) /\ Len(d) <= MaxBlocks
    <2>1. CASE s.ok
      BY <1>2, <2>1 DEF SlotType
    <2>2. CASE ~s.ok
      BY <2>2, EmptySeq, DiskAssumption
    <2>3. QED
      BY <2>1, <2>2
  <1>4. s.op = "read" => Under(d, 0)
    <2>1. CASE s.ok
      BY <1>1, <1>2, <2>1 DEF SlotCtl
    <2>2. CASE ~s.ok
      BY <2>2 DEF Under
    <2>3. QED
      BY <2>1, <2>2
  <1>5. s.lo \in Lba /\ s.op \in Opcode
    BY <1>1, <1>2 DEF SlotCtl
  <1> HIDE DEF d
  <1>6. r \in SlotType /\ Len(r.data) <= MaxBlocks /\ SlotCtl(r)
    <2>1. r \in SlotType /\ r.st = "done" /\ r.data = d /\ r.op = s.op /\ r.lo = s.lo
      BY <1>2, <1>3 DEF SlotType
    <2>2. QED
      BY <1>3, <1>4, <1>5, <2>1 DEF SlotCtl
  <1>7. /\ slot' \in [Host -> SlotType]
        /\ \A g \in Host : Len(slot'[g].data) <= MaxBlocks /\ SlotCtl(slot'[g])
        /\ \A g \in Host \ {h} : slot'[g] = slot[g]
    BY <1>1, <1>6, OneSlot
  <1>8. OnePlace' /\ \A q \in Queue : WorkerCtl(q)'
    BY <1>1, <1>7, OutsideWorkers
  <1>9. disk' \in [Lba -> Sector] /\ EncryptedAtRest'
    <2>1. CASE s.op \in {"write", "write_zeroes"} /\ s.ok
      <3>1. disk' = [l \in Lba |-> IF l - s.lo + 1 \in DOMAIN s.data
                                   THEN s.data[l - s.lo + 1] ELSE disk[l]]
        BY <2>1 DEF Finish
      <3>2. Under(s.data, 1)
        BY <1>1, <1>2, <2>1 DEF SlotCtl
      <3>3. \A i \in DOMAIN s.data : s.data[i] \in Sector
        BY <1>2 DEF SlotType
      <3>4. QED
        BY <3>1, <3>2, <3>3 DEF Inv, TypeOK, EncryptedAtRest, Under
    <2>2. CASE ~(s.op \in {"write", "write_zeroes"} /\ s.ok)
      BY <2>2 DEF Finish, Inv, TypeOK, EncryptedAtRest
    <2>3. QED
      BY <2>1, <2>2
  <1>10. TypeOK'
    BY <1>1, <1>7, <1>9 DEF Inv, TypeOK
  <1>11. QED
    BY <1>7, <1>8, <1>9, <1>10 DEF Inv

\* A command enters one queue; a read takes encrypted sectors along.
LEMMA ForwardStep == ASSUME Inv, NEW h \in Host, NEW p \in Queue, Forward(h, p) PROVE Inv'
  <1> DEFINE s == slot[h]
             f == [i \in DOMAIN s.data |-> disk[s.lo + i - 1]]
             r == [s EXCEPT !.st = "queued", !.data = IF s.op # "read" THEN @ ELSE f]
  <1>1. /\ slot' = [slot EXCEPT ![h] = r] /\ s.st = "issued"
        /\ queue' = [queue EXCEPT ![p] = Append(@, h)]
        /\ UNCHANGED <<disk, wpc, win, out, wok>>
    BY DEF Forward, Inv, TypeOK
  <1>2. s \in SlotType /\ Len(s.data) <= MaxBlocks /\ SlotCtl(s)
    BY DEF Inv, TypeOK
  <1>3. r.st = "queued" /\ r.op = s.op /\ r.lo = s.lo /\ r.data = IF s.op # "read" THEN s.data ELSE f
    BY <1>2 DEF SlotType
  <1>4. /\ s.data \in Seq(Sector) /\ DOMAIN s.data = 1..Len(s.data) /\ Len(s.data) \in Nat
        /\ s.lo \in Lba /\ s.lo + Len(s.data) - 1 \in Lba
    BY <1>1, <1>2 DEF SlotType, SlotCtl
  <1>5. \A i \in DOMAIN s.data : s.lo + i - 1 \in Lba
    <2>1. s.lo..(s.lo + Len(s.data) - 1) \subseteq Lba /\ s.lo \in Nat
      BY <1>4, DiskAssumption
    <2>2. QED
      BY <1>4, <2>1
  <1>6. f \in [DOMAIN s.data -> Sector] /\ Under(f, 1)
    BY <1>5 DEF Inv, TypeOK, EncryptedAtRest, Under
  <1>7. f \in Seq(Sector) /\ Len(f) = Len(s.data) /\ DOMAIN f = DOMAIN s.data
    BY <1>4, <1>6, Replaced
  <1> HIDE DEF f
  <1>8. r \in SlotType /\ Len(r.data) = Len(s.data)
    BY <1>2, <1>7 DEF SlotType
  <1>9. SlotCtl(r)
    BY <1>1, <1>2, <1>3, <1>6, <1>8 DEF SlotCtl
  <1> HIDE DEF r
  <1>10. /\ slot' \in [Host -> SlotType]
         /\ \A g \in Host : Len(slot'[g].data) <= MaxBlocks /\ SlotCtl(slot'[g])
         /\ \A g \in Host \ {h} : slot'[g] = slot[g]
         /\ slot'[h] = r
    BY <1>1, <1>2, <1>8, <1>9, OneSlot
  <1>11. \A q \in Queue : wpc[q] \in {"handle", "write"} => win[q] \in Host \ {h}
    BY <1>1 DEF Inv, OnePlace, WorkerCtl
  <1>12. \A q \in Queue : /\ queue'[q] \in Seq(Host)
                          /\ q # p => queue'[q] = queue[q]
    BY <1>1, AppendProperties DEF Inv, TypeOK
  <1>13. /\ DOMAIN queue'[p] = 1..(Len(queue[p]) + 1) /\ DOMAIN queue[p] = 1..Len(queue[p])
         /\ queue'[p][Len(queue[p]) + 1] = h /\ Len(queue[p]) \in Nat
         /\ \A i \in DOMAIN queue[p] : queue'[p][i] = queue[p][i]
    BY <1>1 DEF Inv, TypeOK
  <1>14. \A q \in Queue : \A i \in DOMAIN queue[q] : queue[q][i] \in Host \ {h}
    BY <1>1 DEF Inv, TypeOK, OnePlace
  <1>15. \A q \in Queue : \A i \in DOMAIN queue'[q] :
            \/ i \in DOMAIN queue[q] /\ queue'[q][i] = queue[q][i]
            \/ q = p /\ i = Len(queue[p]) + 1 /\ queue'[q][i] = h
    BY <1>12, <1>13
  <1>16. OnePlace'
    <2>1. \A q \in Queue : \A i \in DOMAIN queue'[q] : slot'[queue'[q][i]].st = "queued"
      BY <1>3, <1>10, <1>14, <1>15 DEF Inv, OnePlace
    <2>2. ASSUME NEW q \in Queue, NEW i \in DOMAIN queue'[q],
                 NEW t \in Queue, NEW j \in DOMAIN queue'[t], queue'[q][i] = queue'[t][j]
          PROVE  q = t /\ i = j
      <3>1. CASE i \in DOMAIN queue[q] /\ queue'[q][i] = queue[q][i]
        <4>1. queue[q][i] # h
          BY <1>14, <3>1
        <4>2. j \in DOMAIN queue[t] /\ queue'[t][j] = queue[t][j]
          BY <1>15, <2>2, <3>1, <4>1
        <4>3. queue[q][i] = queue[t][j]
          BY <2>2, <3>1, <4>2
        <4>4. QED
          BY <3>1, <4>2, <4>3, Unqueued
      <3>2. CASE q = p /\ i = Len(queue[p]) + 1 /\ queue'[q][i] = h
        BY <1>14, <1>15, <2>2, <3>2
      <3>3. QED
        BY <1>15, <3>1, <3>2
    <2>3. \A q \in Queue : wpc'[q] \in {"handle", "write"} =>
            /\ slot'[win'[q]].st = "worker"
            /\ \A t \in Queue \ {q} : wpc'[t] \in {"handle", "write"} => win'[t] # win'[q]
      BY <1>1, <1>10, <1>11 DEF Inv, OnePlace
    <2>4. QED
      BY <2>1, <2>2, <2>3 DEF OnePlace
  <1>17. ASSUME NEW q \in Queue PROVE WorkerCtl(q)'
    BY <1>1, <1>10, <1>11 DEF Inv, WorkerCtl
  <1>18. TypeOK' /\ EncryptedAtRest'
    BY <1>1, <1>10, <1>12 DEF Inv, TypeOK, EncryptedAtRest
  <1>19. QED
    BY <1>10, <1>16, <1>17, <1>18 DEF Inv

\* A worker takes the command out of its queue.
LEMMA ReadStep == ASSUME Inv, NEW p \in Queue, Read(p) PROVE Inv'
  <1> DEFINE h == Head(queue[p])
             s == slot[h]
             r == [s EXCEPT !.st = "worker"]
  <1>1. /\ queue[p] \in Seq(Host) /\ queue[p] # <<>> /\ wpc[p] = "read"
        /\ queue' = [queue EXCEPT ![p] = Tail(@)]
        /\ win' = [win EXCEPT ![p] = h] /\ wpc' = [wpc EXCEPT ![p] = "handle"]
        /\ slot' = [slot EXCEPT ![h].st = "worker"]
        /\ UNCHANGED <<disk, out, wok>>
    BY DEF Read, Inv, TypeOK
  <1>2. /\ h \in Host /\ h = queue[p][1] /\ 1 \in DOMAIN queue[p] /\ Tail(queue[p]) \in Seq(Host)
        /\ \A i \in DOMAIN Tail(queue[p]) :
            i + 1 \in DOMAIN queue[p] /\ i + 1 # 1 /\ Tail(queue[p])[i] = queue[p][i + 1]
    BY <1>1, HeadTailProperties
  <1>3. s.st = "queued"
    BY <1>2 DEF Inv, OnePlace
  <1> HIDE DEF h
  <1>4. slot' = [slot EXCEPT ![h] = r]
    BY <1>1, <1>2 DEF Inv, TypeOK
  <1>5. s \in SlotType /\ Len(s.data) <= MaxBlocks /\ SlotCtl(s)
    BY <1>2 DEF Inv, TypeOK
  <1>6. /\ r \in SlotType /\ r.st = "worker" /\ r.data = s.data
        /\ r.op = s.op /\ r.lo = s.lo /\ r.ok = s.ok
    BY <1>5 DEF SlotType
  <1> HIDE DEF r
  <1>7. SlotCtl(r)
    BY <1>3, <1>5, <1>6 DEF SlotCtl
  <1>8. /\ slot' \in [Host -> SlotType]
        /\ \A g \in Host : Len(slot'[g].data) <= MaxBlocks /\ SlotCtl(slot'[g])
        /\ \A g \in Host \ {h} : slot'[g] = slot[g]
        /\ slot'[h] = r
    BY <1>2, <1>4, <1>5, <1>6, <1>7, OneSlot
  <1>9. \A q \in Queue : /\ queue'[q] = IF q = p THEN Tail(queue[p]) ELSE queue[q]
                         /\ win'[q] = IF q = p THEN h ELSE win[q]
                         /\ wpc'[q] = IF q = p THEN "handle" ELSE wpc[q]
    BY <1>1 DEF Inv, TypeOK
  <1>10. ASSUME NEW q \in Queue, NEW i \in DOMAIN queue'[q]
         PROVE  \E k \in DOMAIN queue[q] : /\ k = IF q = p THEN i + 1 ELSE i
                                           /\ queue'[q][i] = queue[q][k]
                                           /\ queue[q][k] \in Host \ {h}
    <2>1. CASE q = p
      <3>1. i \in DOMAIN Tail(queue[p]) /\ queue'[q][i] = Tail(queue[p])[i]
        BY <1>9, <2>1
      <3>2. i + 1 \in DOMAIN queue[p] /\ i + 1 # 1 /\ queue'[q][i] = queue[p][i + 1]
        BY <1>2, <3>1
      <3>3. queue[p][i + 1] # h
        BY <1>2, <3>2, Unqueued
      <3>4. queue[p][i + 1] \in Host
        BY <1>1, <3>2
      <3>5. QED
        BY <2>1, <3>2, <3>3, <3>4
    <2>2. CASE q # p
      <3>1. i \in DOMAIN queue[q] /\ queue'[q][i] = queue[q][i]
        BY <1>9, <2>2
      <3>2. queue[q][i] # h
        BY <1>2, <2>2, <3>1, Unqueued
      <3>3. queue[q][i] \in Host
        BY <3>1 DEF Inv, TypeOK
      <3>4. QED
        BY <2>2, <3>1, <3>2, <3>3
    <2>3. QED
      BY <2>1, <2>2
  <1>11. \A q \in Queue : wpc[q] \in {"handle", "write"} => win[q] \in Host \ {h}
    BY <1>3 DEF Inv, OnePlace, WorkerCtl
  <1>12. OnePlace'
    <2>1. \A q \in Queue : \A i \in DOMAIN queue'[q] : slot'[queue'[q][i]].st = "queued"
      BY <1>8, <1>10 DEF Inv, OnePlace
    <2>2. ASSUME NEW q \in Queue, NEW i \in DOMAIN queue'[q],
                 NEW t \in Queue, NEW j \in DOMAIN queue'[t], queue'[q][i] = queue'[t][j]
          PROVE  q = t /\ i = j
      <3>1. PICK k \in DOMAIN queue[q] : /\ k = IF q = p THEN i + 1 ELSE i
                                         /\ queue'[q][i] = queue[q][k]
        BY <1>10
      <3>2. PICK l \in DOMAIN queue[t] : /\ l = IF t = p THEN j + 1 ELSE j
                                         /\ queue'[t][j] = queue[t][l]
        BY <1>10
      <3>3. queue[q][k] = queue[t][l]
        BY <2>2, <3>1, <3>2
      <3>4. q = t /\ k = l
        BY <3>3, Unqueued
      <3>5. queue'[q] \in Seq(Host) /\ queue'[t] \in Seq(Host)
        BY <1>2, <1>9 DEF Inv, TypeOK
      <3>6. i \in Int /\ j \in Int
        BY <3>5
      <3>7. QED
        BY <3>1, <3>2, <3>4, <3>6
    <2>3. \A q \in Queue : wpc'[q] \in {"handle", "write"} =>
            /\ slot'[win'[q]].st = "worker"
            /\ \A t \in Queue \ {q} : wpc'[t] \in {"handle", "write"} => win'[t] # win'[q]
      BY <1>6, <1>8, <1>9, <1>11 DEF Inv, OnePlace
    <2>4. QED
      BY <2>1, <2>2, <2>3 DEF OnePlace
  <1>13. ASSUME NEW q \in Queue PROVE WorkerCtl(q)'
    BY <1>1, <1>2, <1>8, <1>9, <1>11 DEF Inv, WorkerCtl
  <1>14. TypeOK' /\ EncryptedAtRest'
    BY <1>1, <1>2, <1>8 DEF Inv, TypeOK, EncryptedAtRest
  <1>15. QED
    BY <1>8, <1>12, <1>13, <1>14 DEF Inv

\* A worker that ends leaves its queue as it is.
LEMMA ReadEndStep == ASSUME Inv, NEW p \in Queue, ReadEnd(p) PROVE Inv'
  <1>1. /\ wpc' = [wpc EXCEPT ![p] = "dead"]
        /\ UNCHANGED <<disk, slot, queue, win, out, wok>>
    BY DEF ReadEnd
  <1>2. TypeOK' /\ EncryptedAtRest'
    BY <1>1 DEF Inv, TypeOK, EncryptedAtRest
  <1>3. \A q \in Queue : wpc'[q] \in {"handle", "write"} => wpc[q] = wpc'[q]
    BY <1>1 DEF Inv, TypeOK
  <1>4. OnePlace'
    BY <1>1, <1>3 DEF Inv, OnePlace
  <1>5. ASSUME NEW q \in Queue PROVE WorkerCtl(q)'
    BY <1>1, <1>3 DEF Inv, WorkerCtl
  <1>6. QED
    BY <1>1, <1>2, <1>4, <1>5 DEF Inv

\* A worker that turns to the answer, with status 0 or not: the first n sectors
\* of its output are transformed, in the direction of the command, and the rest
\* is what the buffer held.
LEMMA Answering ==
    ASSUME Inv, NEW p \in Queue, wpc[p] = "handle", NEW n \in 0..Len(slot[win[p]].data),
           NEW ok \in BOOLEAN,
           ok => slot[win[p]].op # "other" /\ n = Len(slot[win[p]].data),
           out' = [out EXCEPT ![p] = LbaMap(slot[win[p]].op, slot[win[p]].data, n, @)],
           wok' = [wok EXCEPT ![p] = ok], wpc' = [wpc EXCEPT ![p] = "write"],
           UNCHANGED <<disk, slot, queue, win>>
    PROVE  Inv'
  <1> DEFINE s == slot[win[p]]
             op == s.op
             data == s.data
             new == LbaMap(op, data, n, out[p])
  <1>1. win[p] \in Host /\ s.st = "worker"
    BY DEF Inv, OnePlace, WorkerCtl
  <1>2. s.data \in Seq(Sector) /\ Len(s.data) <= MaxBlocks /\ SlotCtl(s)
    BY <1>1 DEF Inv, TypeOK, SlotType
  <1>3. Under(s.data, IF s.op = "read" THEN 1 ELSE 0)
    BY <1>1, <1>2 DEF SlotCtl
  <1>4. out[p] \in [1..MaxBlocks -> Sector]
    BY DEF Inv, TypeOK
  <1>5. n \in 0..Len(data) /\ (ok => op # "other" /\ n = Len(data))
    OBVIOUS
  <1> HIDE DEF op, data
  <1>6. data \in Seq(Sector) /\ Len(data) <= MaxBlocks /\ Under(data, IF op = "read" THEN 1 ELSE 0)
    BY <1>2, <1>3 DEF op, data
  <1>7. /\ new \in [1..MaxBlocks -> Sector]
        /\ op # "other" => \A i \in 1..n :
            new[i] = IF op = "read" THEN aes_decrypt(data[i]) ELSE aes_encrypt(data[i])
    <2>1. \A i \in 1..n : data[i] \in Sector /\ data[i].enc = IF op = "read" THEN 1 ELSE 0
      BY <1>5, <1>6 DEF Under
    <2>2. \A i \in 1..n : /\ op = "read" => aes_decrypt(data[i]) \in Sector
                          /\ op # "read" => aes_encrypt(data[i]) \in Sector
      BY <2>1, Aes
    <2>3. 1..n \subseteq 1..MaxBlocks
      BY <1>5, <1>6, DiskAssumption
    <2>4. new = [i \in 1..MaxBlocks |->
                  IF i > n THEN out[p][i]
                  ELSE IF op = "read" THEN aes_decrypt(data[i])
                  ELSE IF op = "other" THEN data[i]
                  ELSE aes_encrypt(data[i])]
      BY DEF LbaMap
    <2> HIDE DEF new
    <2>5. \A i \in 1..MaxBlocks : /\ i <= n => i \in 1..n
                                 /\ i > n => out[p][i] \in Sector
      BY <1>4, <1>5
    <2>6. \A i \in 1..MaxBlocks : new[i] \in Sector
      BY <2>1, <2>2, <2>4, <2>5, <1>5
    <2>7. new \in [1..MaxBlocks -> Sector]
      BY <2>4, <2>6
    <2>8. op # "other" => \A i \in 1..n :
            new[i] = IF op = "read" THEN aes_decrypt(data[i]) ELSE aes_encrypt(data[i])
      BY <1>5, <2>3, <2>4
    <2>9. QED
      BY <2>7, <2>8
  <1>8. out' = [out EXCEPT ![p] = new]
    BY DEF op, data
  <1> HIDE DEF new
  <1>9. TypeOK' /\ EncryptedAtRest'
    BY <1>7, <1>8 DEF Inv, TypeOK, EncryptedAtRest
  <1>10. \A q \in Queue : wpc'[q] \in {"handle", "write"} => wpc[q] \in {"handle", "write"}
    BY DEF Inv, TypeOK
  <1>11. OnePlace'
    BY <1>10 DEF Inv, OnePlace
  <1>12. ASSUME NEW q \in Queue PROVE WorkerCtl(q)'
    <2>1. CASE q = p
      <3>1. out'[p] = new /\ wok'[p] = ok
        BY <1>8 DEF Inv, TypeOK
      <3>2. QED
        BY <1>1, <1>5, <1>7, <2>1, <3>1 DEF WorkerCtl, op, data
    <2>2. CASE q # p
      <3>1. out'[q] = out[q] /\ wok'[q] = wok[q] /\ wpc'[q] = wpc[q]
        BY <2>2 DEF Inv, TypeOK
      <3>2. QED
        BY <3>1 DEF Inv, WorkerCtl
    <2>3. QED
      BY <2>1, <2>2
  <1>13. QED
    BY <1>9, <1>11, <1>12 DEF Inv

\* A worker that transforms all sectors may report success.
LEMMA HandleStep == ASSUME Inv, NEW p \in Queue, Handle(p) PROVE Inv'
  <1> DEFINE s == slot[win[p]]
             ok == s.op # "other"
  <1>1. win[p] \in Host
    BY DEF Handle, Inv, WorkerCtl
  <1>2. Len(s.data) \in 0..Len(s.data)
    BY <1>1 DEF Inv, TypeOK, SlotType
  <1>3. /\ wpc[p] = "handle"
        /\ out' = [out EXCEPT ![p] = LbaMap(s.op, s.data, Len(s.data), @)]
        /\ wok' = [wok EXCEPT ![p] = ok]
        /\ wpc' = [wpc EXCEPT ![p] = "write"]
        /\ UNCHANGED <<disk, slot, queue, win>>
    BY DEF Handle
  <1>4. ok \in BOOLEAN /\ (ok => s.op # "other")
    OBVIOUS
  <1> HIDE DEF ok
  <1>5. QED
    BY <1>2, <1>3, <1>4, Answering

\* A worker whose OpenSSL call fails does not.
LEMMA HandleErrorStep == ASSUME Inv, NEW p \in Queue, HandleError(p) PROVE Inv'
  <1> DEFINE s == slot[win[p]]
  <1>1. win[p] \in Host
    BY DEF HandleError, Inv, WorkerCtl
  <1>2. Len(s.data) \in Nat
    BY <1>1 DEF Inv, TypeOK, SlotType
  <1>3. PICK k \in 1..Len(s.data) :
            out' = [out EXCEPT ![p] = LbaMap(s.op, s.data, k - 1, @)]
    BY DEF HandleError
  <1>4. /\ wpc[p] = "handle" /\ wok' = [wok EXCEPT ![p] = FALSE]
        /\ wpc' = [wpc EXCEPT ![p] = "write"] /\ UNCHANGED <<disk, slot, queue, win>>
    BY DEF HandleError
  <1>5. k - 1 \in 0..Len(s.data)
    BY <1>2, <1>3
  <1>6. QED
    BY <1>3, <1>4, <1>5, Answering

\* A worker's answer, or its loss, takes the command from it.
LEMMA WriteStep == ASSUME Inv, NEW p \in Queue, Write(p) PROVE Inv'
  <1> DEFINE h == win[p]
             s == slot[h]
             d == [i \in DOMAIN s.data |-> out[p][i]]
             done == [s EXCEPT !.st = "answered", !.ok = wok[p], !.data = d]
             lost == [s EXCEPT !.st = "lost"]
  <1>1. /\ wpc[p] = "write" /\ wpc' = [wpc EXCEPT ![p] = "read"]
        /\ win' = [win EXCEPT ![p] = NoCmd] /\ wok' = [wok EXCEPT ![p] = TRUE]
        /\ UNCHANGED <<disk, queue, out>>
    BY DEF Write
  <1>2. h \in Host /\ s.st = "worker"
    BY <1>1 DEF Inv, OnePlace, WorkerCtl
  <1>3. s \in SlotType /\ Len(s.data) <= MaxBlocks /\ SlotCtl(s) /\ s.data \in Seq(Sector)
    BY <1>2 DEF Inv, TypeOK, SlotType
  <1>4. out[p] \in [1..MaxBlocks -> Sector] /\ wok[p] \in BOOLEAN
    BY DEF Inv, TypeOK
  <1>5. DOMAIN s.data = 1..Len(s.data) /\ DOMAIN s.data \subseteq 1..MaxBlocks
    BY <1>3, DiskAssumption
  <1>6. d \in [DOMAIN s.data -> Sector]
    BY <1>4, <1>5
  <1>7. d \in Seq(Sector) /\ Len(d) = Len(s.data) /\ DOMAIN d = DOMAIN s.data
    BY <1>3, <1>6, Replaced
  <1>8. wok[p] => s.op # "other" /\ Under(d, IF s.op = "read" THEN 0 ELSE 1)
    <2>1. \A i \in DOMAIN s.data : /\ s.data[i] \in Sector
                                   /\ s.data[i].enc = IF s.op = "read" THEN 1 ELSE 0
      BY <1>2, <1>3 DEF SlotCtl, Under
    <2>2. wok[p] => /\ s.op # "other"
                    /\ \A i \in DOMAIN s.data : d[i] = IF s.op = "read"
                            THEN aes_decrypt(s.data[i]) ELSE aes_encrypt(s.data[i])
      BY <1>1, <1>5 DEF Inv, WorkerCtl
    <2> HIDE DEF d
    <2>3. QED
      BY <1>7, <2>1, <2>2, Aes DEF Under
  <1> HIDE DEF d
  <1>9. \E r \in SlotType : /\ slot' = [slot EXCEPT ![h] = r]
                            /\ Len(r.data) <= MaxBlocks /\ SlotCtl(r)
                            /\ r.st \in {"answered", "lost"}
    <2>1. CASE slot' = [slot EXCEPT ![h].st = "answered", ![h].ok = wok[p],
                                    ![h].data = [i \in DOMAIN @ |-> out[p][i]]]
      <3>1. slot' = [slot EXCEPT ![h] = done]
        BY <1>2, <2>1 DEF Inv, TypeOK, d
      <3>2. /\ done \in SlotType /\ done.st = "answered" /\ done.data = d
            /\ done.op = s.op /\ done.lo = s.lo /\ done.ok = wok[p]
        BY <1>3, <1>4, <1>7 DEF SlotType
      <3> HIDE DEF done
      <3>3. SlotCtl(done)
        BY <1>2, <1>3, <1>7, <1>8, <3>2 DEF SlotCtl
      <3>4. QED
        BY <1>3, <1>7, <3>1, <3>2, <3>3
    <2>2. CASE slot' = [slot EXCEPT ![h].st = "lost"]
      <3>1. slot' = [slot EXCEPT ![h] = lost]
        BY <1>2, <2>2 DEF Inv, TypeOK
      <3>2. /\ lost \in SlotType /\ lost.st = "lost" /\ lost.data = s.data
            /\ lost.op = s.op /\ lost.lo = s.lo /\ lost.ok = s.ok
        BY <1>3 DEF SlotType
      <3> HIDE DEF lost
      <3>3. SlotCtl(lost)
        BY <1>2, <1>3, <3>2 DEF SlotCtl
      <3>4. QED
        BY <1>3, <3>1, <3>2, <3>3
    <2>3. QED
      BY <2>1, <2>2 DEF Write
  <1>10. PICK r \in SlotType : /\ slot' = [slot EXCEPT ![h] = r]
                               /\ Len(r.data) <= MaxBlocks /\ SlotCtl(r)
                               /\ r.st \in {"answered", "lost"}
    BY <1>9
  <1>11. /\ slot' \in [Host -> SlotType]
         /\ \A g \in Host : Len(slot'[g].data) <= MaxBlocks /\ SlotCtl(slot'[g])
         /\ \A g \in Host \ {h} : slot'[g] = slot[g]
    BY <1>2, <1>10, OneSlot
  <1>12. \A q \in Queue : /\ win'[q] = IF q = p THEN NoCmd ELSE win[q]
                          /\ wpc'[q] = IF q = p THEN "read" ELSE wpc[q]
                          /\ q # p => wok'[q] = wok[q]
    BY <1>1 DEF Inv, TypeOK
  <1>13. \A q \in Queue \ {p} : wpc[q] \in {"handle", "write"} => win[q] \in Host \ {h}
    BY <1>1 DEF Inv, OnePlace, WorkerCtl
  <1>14. \A q \in Queue : \A i \in DOMAIN queue[q] : queue[q][i] \in Host \ {h}
    BY <1>2 DEF Inv, TypeOK, OnePlace
  <1> HIDE DEF h
  <1>15. OnePlace'
    <2>1. \A q \in Queue : \A i \in DOMAIN queue[q] :
            /\ slot'[queue[q][i]].st = "queued"
            /\ \A t \in Queue : \A j \in DOMAIN queue[t] :
                queue[q][i] = queue[t][j] => q = t /\ i = j
      BY <1>11, <1>14 DEF Inv, OnePlace
    <2>2. \A q \in Queue : wpc'[q] \in {"handle", "write"} =>
            /\ slot'[win'[q]].st = "worker"
            /\ \A t \in Queue \ {q} : wpc'[t] \in {"handle", "write"} => win'[t] # win'[q]
      BY <1>11, <1>12, <1>13 DEF Inv, OnePlace
    <2>3. QED
      BY <1>1, <2>1, <2>2 DEF OnePlace
  <1>16. ASSUME NEW q \in Queue PROVE WorkerCtl(q)'
    <2>1. CASE wpc'[q] \notin {"handle", "write"}
      BY <2>1 DEF WorkerCtl
    <2>2. CASE wpc'[q] \in {"handle", "write"}
      <3>1. /\ q # p /\ win'[q] = win[q] /\ wok'[q] = wok[q] /\ wpc'[q] = wpc[q]
            /\ win[q] \in Host /\ slot'[win[q]] = slot[win[q]]
        BY <1>11, <1>12, <1>13, <2>2
      <3>2. QED
        BY <1>1, <3>1 DEF Inv, WorkerCtl
    <2>3. QED
      BY <2>1, <2>2
  <1>17. TypeOK' /\ EncryptedAtRest'
    BY <1>1, <1>11 DEF Inv, TypeOK, EncryptedAtRest
  <1>18. QED
    BY <1>11, <1>15, <1>16, <1>17 DEF Inv

-----------------------------------------------------------------------------
\* The invariant holds of a formatted disk with no commands.
LEMMA InvInit == Init => Inv
  <1> SUFFICES ASSUME Init PROVE Inv
    OBVIOUS
  <1>1. /\ aes_encrypt(Plain(Zero)) \in Sector /\ aes_encrypt(Plain(Zero)).enc = 1
        /\ Plain(Zero) \in Sector
    BY DiskAssumption, PlainSector, Aes
  <1>2. Idle \in SlotType /\ Idle.data = <<>> /\ Idle.st = "idle" /\ Len(Idle.data) <= MaxBlocks
    BY EmptySeq, DiskAssumption DEF Idle, SlotType
  <1>3. \A q \in Queue : queue[q] \in Seq(Host) /\ DOMAIN queue[q] = {}
    BY EmptySeq DEF Init
  <1>4. TypeOK
    BY <1>1, <1>2, <1>3 DEF Init, TypeOK
  <1>5. EncryptedAtRest
    BY <1>1 DEF Init, EncryptedAtRest
  <1>6. OnePlace
    BY <1>3 DEF Init, OnePlace
  <1>7. \A h \in Host : SlotCtl(slot[h])
    BY <1>2 DEF Init, SlotCtl
  <1>8. \A q \in Queue : WorkerCtl(q)
    BY DEF Init, WorkerCtl
  <1>9. QED
    BY <1>4, <1>5, <1>6, <1>7, <1>8 DEF Inv

\* The inductive invariant: every command is in one place, and its sectors are
\* encrypted as often as that place says.
THEOREM Invariance == SafeSpec => []Inv
  <1>1. Init => Inv
    BY InvInit
  <1>2. Inv /\ [Next]_vars => Inv'
    <2> SUFFICES ASSUME Inv, [Next]_vars PROVE Inv'
      OBVIOUS
    <2>1. CASE UNCHANGED vars
      BY <2>1 DEF vars, Inv, TypeOK, EncryptedAtRest, OnePlace, SlotCtl, WorkerCtl, Under
    <2>2. CASE \E h \in Host : Issue(h) \/ Driver(h) \/ Collect(h)
      BY <2>2, IssueStep, ForwardStep, FinishStep, CollectStep DEF Driver
    <2>3. CASE \E q \in Queue : Worker(q) \/ ReadEnd(q)
      BY <2>3, ReadStep, HandleStep, HandleErrorStep, WriteStep, ReadEndStep DEF Worker
    <2>4. QED
      BY <2>1, <2>2, <2>3 DEF Next
  <1>3. QED
    BY <1>1, <1>2, PTL DEF SafeSpec

\* The type invariant, for every disk and every size of commands.
THEOREM DiskTypeCorrect == SafeSpec => []TypeOK
  <1>1. Inv => TypeOK
    BY DEF Inv
  <1>2. QED
    BY <1>1, Invariance, PTL

\* Every sector of the backend is under exactly one encryption, however many
\* workers transform commands at once and whatever fails.
THEOREM BackendEncrypted == SafeSpec => []EncryptedAtRest
  <1>1. Inv => EncryptedAtRest
    BY DEF Inv
  <1>2. QED
    BY <1>1, Invariance, PTL

\* A read that succeeds returns decrypted sectors, also where its answer shares
\* buffer_out with what another command left there.
THEOREM ReadsDecrypted == SafeSpec => []ReadIsPlain
  <1>1. Inv => ReadIsPlain
    BY DEF Inv, SlotCtl, Under, ReadIsPlain
  <1>2. QED
    BY <1>1, Invariance, PTL

\* A command is in one queue once, with one worker or with the driver.
THEOREM CommandInOnePlace == SafeSpec => []OnePlace
  <1>1. Inv => OnePlace
    BY DEF Inv
  <1>2. QED
    BY <1>1, Invariance, PTL
=============================================================================
