------------------------ MODULE DiskRefinementProofs ------------------------
(***************************************************************************)
(* The self-encrypting disk implements the standard disk: every step of    *)
(* the host, the driver and the workers is a step of StandardDisk, or      *)
(* changes nothing that the host can see.                                  *)
(***************************************************************************)
EXTENDS SelfEncryptingDiskProofs

content == [l \in Lba |-> Value(disk[l], 1)]
req     == [h \in Host |-> HostReq(slot[h])]

\* What the host sees of a command whose sectors are under n encryptions.
Seen(s, st, n) == [st |-> st, op |-> s.op, lo |-> s.lo, ok |-> TRUE,
                   data |-> [i \in DOMAIN s.data |-> Value(s.data[i], n)]]

Failed(s) == [st |-> "done", op |-> s.op, lo |-> s.lo, ok |-> FALSE, data |-> <<>>]

Fetched(s, data) == [st |-> "fetched", op |-> s.op, lo |-> s.lo, ok |-> TRUE,
                     data |-> data]

\* What the host sees of a command at each point of its way.
LEMMA Seeing ==
    ASSUME NEW s \in SlotType, SlotCtl(s)
    PROVE  /\ s.st = "idle" => HostReq(s) = Idle
           /\ s.st = "issued" => HostReq(s) = Seen(s, "issued", 0)
           /\ s.st \in {"queued", "worker", "lost"} =>
                HostReq(s) = IF s.op = "read" THEN Seen(s, "fetched", 1) ELSE Seen(s, "issued", 0)
           /\ s.st = "answered" /\ s.ok =>
                HostReq(s) = IF s.op = "read" THEN Seen(s, "fetched", 0) ELSE Seen(s, "issued", 1)
           /\ s.st = "done" /\ s.ok =>
                HostReq(s) = IF s.op = "read" THEN Seen(s, "done", 0) ELSE Seen(s, "done", 1)
           /\ s.st \in {"answered", "done"} /\ ~s.ok => HostReq(s) = Failed(s)
  <1>1. s.st \in {"issued", "queued", "worker", "lost"} => s.ok
    BY DEF SlotCtl
  <1>2. CASE s.st = "idle"
    BY <1>2 DEF HostReq
  <1>3. CASE s.st = "issued"
    BY <1>3 DEF HostReq, Seen
  <1>4. CASE s.st \in {"queued", "worker", "lost"}
    BY <1>1, <1>4 DEF HostReq, Seen
  <1>5. CASE s.st \in {"answered", "done"} /\ ~s.ok
    BY <1>5 DEF HostReq, Failed
  <1>6. CASE s.st = "answered" /\ s.ok
    BY <1>6 DEF HostReq, Seen
  <1>7. CASE s.st = "done" /\ s.ok
    BY <1>7 DEF HostReq, Seen
  <1>8. QED
    BY <1>2, <1>3, <1>4, <1>5, <1>6, <1>7 DEF SlotType

\* A sector that is encrypted or decrypted on its way keeps its value.
LEMMA SameValue ==
    ASSUME NEW s \in Sector, NEW n \in Int
    PROVE  /\ Value(aes_encrypt(s), n + 1) = Value(s, n)
           /\ Value(aes_decrypt(s), n - 1) = Value(s, n)
  BY DEF Value, aes_encrypt, aes_decrypt, Sector

\* A step that changes one command changes one request.
LEMMA OneReq ==
    ASSUME Inv, NEW h \in Host, NEW r, slot' = [slot EXCEPT ![h] = r]
    PROVE  /\ req \in [Host -> {HostReq(slot[g]) : g \in Host}]
           /\ req[h] = HostReq(slot[h]) /\ req' = [req EXCEPT ![h] = HostReq(r)]
  BY DEF Inv, TypeOK, req

\* Two commands look the same if their sectors have the same values.
LEMMA SameSeen ==
    ASSUME NEW s, NEW r, NEW st, NEW m, NEW n, r.op = s.op, r.lo = s.lo,
           DOMAIN r.data = DOMAIN s.data,
           \A i \in DOMAIN s.data : Value(r.data[i], n) = Value(s.data[i], m)
    PROVE  Seen(r, st, n) = Seen(s, st, m)
  BY DEF Seen

\* A step after which its command looks the same is invisible.
LEMMA Unseen ==
    ASSUME Inv, NEW h \in Host, NEW r, slot' = [slot EXCEPT ![h] = r],
           HostReq(r) = HostReq(slot[h]), UNCHANGED disk
    PROVE  UNCHANGED <<content, req>>
  BY OneReq DEF req, content

\* The updates of a request in StandardDisk, as records.
FailUpdate(r)     == [r EXCEPT !.st = "done", !.ok = FALSE, !.data = <<>>]
FetchUpdate(r, d) == [r EXCEPT !.st = "fetched", !.data = d]

LEMMA Failing ==
    ASSUME NEW s, NEW st, NEW n, NEW r, r = Seen(s, st, n)
    PROVE  FailUpdate(r) = Failed(s)
  <1> DEFINE Rec == [st : {"done"}, op : {s.op}, lo : {s.lo}, ok : {FALSE}, data : {<<>>}]
             a == FailUpdate(r)
             b == Failed(s)
  <1>1. /\ a \in Rec /\ b \in Rec /\ a.st = b.st /\ a.op = b.op
        /\ a.lo = b.lo /\ a.ok = b.ok /\ a.data = b.data
    BY DEF Seen, Failed, Fetched, FailUpdate, FetchUpdate
  <1> HIDE DEF a, b
  <1>2. a = b
    BY <1>1
  <1>3. QED
    BY <1>2 DEF a, b

LEMMA Fetching ==
    ASSUME NEW s, NEW st, NEW n, NEW d, NEW r, r = Seen(s, st, n)
    PROVE  FetchUpdate(r, d) = Fetched(s, d)
  <1> DEFINE Rec == [st : {"fetched"}, op : {s.op}, lo : {s.lo}, ok : {TRUE}, data : {d}]
             a == FetchUpdate(r, d)
             b == Fetched(s, d)
  <1>1. /\ a \in Rec /\ b \in Rec /\ a.st = b.st /\ a.op = b.op
        /\ a.lo = b.lo /\ a.ok = b.ok /\ a.data = b.data
    BY DEF Seen, Failed, Fetched, FailUpdate, FetchUpdate
  <1> HIDE DEF a, b
  <1>2. a = b
    BY <1>1
  <1>3. QED
    BY <1>2 DEF a, b

LEMMA Completing ==
    ASSUME NEW s, NEW st, NEW n, NEW r, r = Seen(s, st, n)
    PROVE  [r EXCEPT !.st = "done"] = Seen(s, "done", n)
  <1> DEFINE Rec == [st : {"done"}, op : {s.op}, lo : {s.lo}, ok : {TRUE},
                     data : {Seen(s, "done", n).data}]
             a == [r EXCEPT !.st = "done"]
             b == Seen(s, "done", n)
  <1>1. /\ a \in Rec /\ b \in Rec /\ a.st = b.st /\ a.op = b.op
        /\ a.lo = b.lo /\ a.ok = b.ok /\ a.data = b.data
    BY DEF Seen, Failed, Fetched, FailUpdate, FetchUpdate
  <1> HIDE DEF a, b
  <1>2. a = b
    BY <1>1
  <1>3. QED
    BY <1>2 DEF a, b

-----------------------------------------------------------------------------
\* Issuing a command is issuing it to the standard disk.
LEMMA IssueMaps == ASSUME Inv, NEW h \in Host, Issue(h) PROVE Standard!IssueCmd(h)
  <1>1. PICK op \in Opcode, lo \in Lba, n \in 1..MaxBlocks : \E v \in [1..n -> Val] :
            /\ lo + n - 1 \in Lba
            /\ op \in {"read", "write_zeroes"} => \A i \in 1..n : v[i] = Zero
            /\ slot' = [slot EXCEPT ![h] = [st |-> "issued", op |-> op, lo |-> lo,
                            data |-> [i \in 1..n |-> Plain(v[i])], ok |-> TRUE]]
    BY Zenon DEF Issue
  <1>2. PICK v \in [1..n -> Val] :
            /\ lo + n - 1 \in Lba
            /\ op \in {"read", "write_zeroes"} => \A i \in 1..n : v[i] = Zero
            /\ slot' = [slot EXCEPT ![h] = [st |-> "issued", op |-> op, lo |-> lo,
                            data |-> [i \in 1..n |-> Plain(v[i])], ok |-> TRUE]]
    BY <1>1, Zenon
  <1> DEFINE r == [st |-> "issued", op |-> op, lo |-> lo,
                   data |-> [i \in 1..n |-> Plain(v[i])], ok |-> TRUE]
             new == [st |-> "issued", op |-> op, lo |-> lo, data |-> v, ok |-> TRUE]
  <1>3. slot[h].st = "idle" /\ UNCHANGED disk
    BY DEF Issue
  <1>4. HostReq(slot[h]) = Idle
    BY <1>3 DEF HostReq
  <1>5. HostReq(r) = Seen(r, "issued", 0)
    BY DEF HostReq, Seen
  <1>6. Seen(r, "issued", 0) = new
    <2>1. \A i \in 1..n : Value(Plain(v[i]), 0) = v[i]
      BY DEF Value, Plain
    <2>2. [i \in 1..n |-> Value(Plain(v[i]), 0)] = v
      BY <2>1
    <2>3. QED
      BY <2>2 DEF Seen
  <1>7. req[h].st = "idle" /\ req' = [req EXCEPT ![h] = new] /\ UNCHANGED content
    <2>1. slot' = [slot EXCEPT ![h] = r] /\ HostReq(r) = new
      BY <1>2, <1>5, <1>6
    <2> HIDE DEF r, new
    <2>2. req[h] = Idle /\ req' = [req EXCEPT ![h] = new]
      BY <1>4, <2>1, OneReq
    <2>3. QED
      BY <1>3, <2>2 DEF Idle, content
  <1>8. QED
    BY <1>2, <1>7 DEF Standard!IssueCmd, req, content

\* So is collecting its outcome.
LEMMA CollectMaps == ASSUME Inv, NEW h \in Host, Collect(h) PROVE Standard!Reap(h)
  <1> DEFINE s == slot[h]
  <1>1. slot' = [slot EXCEPT ![h] = Idle] /\ s.st = "done" /\ UNCHANGED disk
    BY DEF Collect
  <1>2. s \in SlotType /\ SlotCtl(s)
    BY DEF Inv, TypeOK
  <1>3. HostReq(s).st = "done"
    BY <1>1, <1>2, Seeing DEF Seen, Failed, SlotType
  <1>4. HostReq(Idle) = Idle /\ Idle = Standard!None
    BY DEF HostReq, Idle, Standard!None
  <1>5. req[h].st = "done" /\ req' = [req EXCEPT ![h] = Standard!None] /\ UNCHANGED content
    BY <1>1, <1>3, <1>4, OneReq DEF content
  <1>6. QED
    BY <1>5 DEF Standard!Reap, req, content

\* The driver fetches the sectors of a read at one moment; nothing else of
\* queueing a command shows.
LEMMA ForwardMaps ==
    ASSUME Inv, NEW h \in Host, NEW p \in Queue, Forward(h, p)
    PROVE  Standard!Snapshot(h) \/ UNCHANGED <<content, req>>
  <1> DEFINE s == slot[h]
             f == [i \in DOMAIN s.data |-> disk[s.lo + i - 1]]
             r == [s EXCEPT !.st = "queued", !.data = IF s.op # "read" THEN @ ELSE f]
  <1>1. slot' = [slot EXCEPT ![h] = r] /\ s.st = "issued" /\ UNCHANGED disk
    BY DEF Forward, Inv, TypeOK
  <1>2. s \in SlotType /\ SlotCtl(s)
    BY DEF Inv, TypeOK
  <1>3. HostReq(s) = Seen(s, "issued", 0)
    BY <1>1, <1>2, Seeing
  <1>4. /\ r.st = "queued" /\ r.op = s.op /\ r.lo = s.lo
        /\ r.data = IF s.op # "read" THEN s.data ELSE f
    BY <1>2 DEF SlotType
  <1>5. HostReq(r) = IF r.op = "read" THEN Seen(r, "fetched", 1) ELSE Seen(r, "issued", 0)
    BY <1>4 DEF HostReq, Seen
  <1> HIDE DEF r
  <1>6. CASE s.op # "read"
    <2>1. HostReq(r) = HostReq(s)
      BY <1>3, <1>4, <1>5, <1>6 DEF Seen
    <2>2. QED
      BY <1>1, <2>1, Unseen
  <1>7. CASE s.op = "read"
    <2>1. \A i \in DOMAIN s.data : s.lo + i - 1 \in Lba
      <3>1. /\ s.data \in Seq(Sector) /\ DOMAIN s.data = 1..Len(s.data) /\ Len(s.data) \in Nat
            /\ s.lo \in Lba /\ s.lo + Len(s.data) - 1 \in Lba
        BY <1>1, <1>2 DEF SlotType, SlotCtl
      <3>2. s.lo..(s.lo + Len(s.data) - 1) \subseteq Lba /\ s.lo \in Nat
        BY <3>1, DiskAssumption
      <3>3. QED
        BY <3>1, <3>2
    <2> DEFINE fetched == [i \in DOMAIN s.data |-> content[s.lo + i - 1]]
    <2>2. HostReq(r) = Fetched(s, fetched)
      BY <1>4, <1>5, <1>7, <2>1 DEF Seen, Fetched, content
    <2>3. /\ req[h] = Seen(s, "issued", 0)
          /\ req' = [req EXCEPT ![h] = HostReq(r)] /\ UNCHANGED content
      BY <1>1, <1>3, OneReq DEF content
    <2>4. /\ req[h].st = "issued" /\ req[h].op = "read" /\ req[h].lo = s.lo
          /\ DOMAIN req[h].data = DOMAIN s.data
      BY <1>7, <2>3 DEF Seen
    <2>5. HostReq(r) = [req[h] EXCEPT !.st = "fetched", !.data =
                            [i \in DOMAIN @ |-> content[req[h].lo + i - 1]]]
      <3>1. [i \in DOMAIN req[h].data |-> content[req[h].lo + i - 1]] = fetched
        BY <2>4
      <3> HIDE DEF fetched
      <3>2. [req[h] EXCEPT !.st = "fetched", !.data = fetched] = HostReq(r)
        <4>1. req[h] = Seen(s, "issued", 0)
          BY <2>3
        <4>2. FetchUpdate(req[h], fetched) = Fetched(s, fetched)
          BY <4>1, Fetching
        <4>3. QED
          BY <2>2, <4>2 DEF FetchUpdate
      <3>3. QED
        BY <3>1, <3>2
    <2>6. req' = [req EXCEPT ![h].st = "fetched", ![h].data =
                    [i \in DOMAIN @ |-> content[req[h].lo + i - 1]]]
      BY <2>3, <2>5 DEF req
    <2>7. QED
      BY <2>3, <2>4, <2>6 DEF Standard!Snapshot, req, content
  <1>8. QED
    BY <1>6, <1>7

\* The commands that the host has given up hope for, or that failed, are done
\* at once; the answer to any other shows nothing.
LEMMA WriteMaps ==
    ASSUME Inv, NEW p \in Queue, Write(p)
    PROVE  (\E h \in Host : Standard!Fail(h)) \/ UNCHANGED <<content, req>>
  <1> DEFINE h == win[p]
             s == slot[h]
             d == [i \in DOMAIN s.data |-> out[p][i]]
             done == [s EXCEPT !.st = "answered", !.ok = wok[p], !.data = d]
             lost == [s EXCEPT !.st = "lost"]
  <1>1. wpc[p] = "write" /\ UNCHANGED disk
    BY DEF Write
  <1>2. h \in Host /\ s.st = "worker"
    BY <1>1 DEF Inv, OnePlace, WorkerCtl
  <1>3. s \in SlotType /\ SlotCtl(s) /\ s.data \in Seq(Sector) /\ wok[p] \in BOOLEAN
    BY <1>2 DEF Inv, TypeOK, SlotType
  <1>4. HostReq(s) = IF s.op = "read" THEN Seen(s, "fetched", 1) ELSE Seen(s, "issued", 0)
    BY <1>2, <1>3, Seeing
  <1>5. CASE slot' = [slot EXCEPT ![h].st = "lost"]
    <2>1. slot' = [slot EXCEPT ![h] = lost]
      BY <1>2, <1>5 DEF Inv, TypeOK
    <2>2. lost.st = "lost" /\ lost.data = s.data /\ lost.op = s.op /\ lost.lo = s.lo
      BY <1>3 DEF SlotType
    <2> HIDE DEF lost
    <2>3. HostReq(lost) = IF s.op = "read" THEN Seen(s, "fetched", 1) ELSE Seen(s, "issued", 0)
      BY <2>2 DEF HostReq, Seen
    <2>4. QED
      BY <1>1, <1>2, <1>4, <2>1, <2>3, Unseen
  <1>6. CASE slot' = [slot EXCEPT ![h].st = "answered", ![h].ok = wok[p],
                                  ![h].data = [i \in DOMAIN @ |-> out[p][i]]]
    <2>1. slot' = [slot EXCEPT ![h] = done]
      BY <1>2, <1>6 DEF Inv, TypeOK
    <2>2. /\ done.st = "answered" /\ done.data = d /\ done.op = s.op /\ done.lo = s.lo
          /\ done.ok = wok[p]
      BY <1>3 DEF SlotType
    <2> HIDE DEF done
    <2>3. CASE wok[p]
      <3>1. \A i \in DOMAIN s.data : /\ s.data[i] \in Sector
                                     /\ d[i] = IF s.op = "read" THEN aes_decrypt(s.data[i])
                                                                ELSE aes_encrypt(s.data[i])
        BY <1>1, <1>3, <2>3 DEF Inv, WorkerCtl
      <3>2. DOMAIN d = DOMAIN s.data
        OBVIOUS
      <3> HIDE DEF d
      <3>3. HostReq(done) = IF s.op = "read" THEN Seen(done, "fetched", 0)
                                             ELSE Seen(done, "issued", 1)
        BY <2>2, <2>3 DEF HostReq, Seen
      <3>4. CASE s.op = "read"
        <4>1. \A i \in DOMAIN s.data : Value(d[i], 1 - 1) = Value(s.data[i], 1)
          BY <3>1, <3>4, SameValue
        <4>2. Seen(done, "fetched", 0) = Seen(s, "fetched", 1)
          BY <2>2, <3>2, <4>1, SameSeen
        <4>3. QED
          BY <1>1, <1>2, <1>4, <2>1, <3>3, <3>4, <4>2, Unseen
      <3>5. CASE s.op # "read"
        <4>1. \A i \in DOMAIN s.data : Value(d[i], 0 + 1) = Value(s.data[i], 0)
          BY <3>1, <3>5, SameValue
        <4>2. Seen(done, "issued", 1) = Seen(s, "issued", 0)
          BY <2>2, <3>2, <4>1, SameSeen
        <4>3. QED
          BY <1>1, <1>2, <1>4, <2>1, <3>3, <3>5, <4>2, Unseen
      <3>6. QED
        BY <3>4, <3>5
    <2>4. CASE ~wok[p]
      <3>1. HostReq(done) = Failed(s)
        BY <2>2, <2>4 DEF HostReq, Failed
      <3>2. /\ req[h] = HostReq(s) /\ req' = [req EXCEPT ![h] = Failed(s)]
            /\ UNCHANGED content
        BY <1>1, <1>2, <2>1, <3>1, OneReq DEF content
      <3>3. req[h].st \in {"issued", "fetched"}
        BY <1>4, <3>2 DEF Seen
      <3>4. FailUpdate(req[h]) = Failed(s)
        <4>1. CASE s.op = "read"
          <5>1. req[h] = Seen(s, "fetched", 1)
            BY <1>4, <3>2, <4>1
          <5>2. QED
            BY <5>1, Failing
        <4>2. CASE s.op # "read"
          <5>1. req[h] = Seen(s, "issued", 0)
            BY <1>4, <3>2, <4>2
          <5>2. QED
            BY <5>1, Failing
        <4>3. QED
          BY <4>1, <4>2
      <3>5. req' = [req EXCEPT ![h].st = "done", ![h].ok = FALSE, ![h].data = <<>>]
        BY <1>2, <3>2, <3>4 DEF req, FailUpdate
      <3>6. Standard!Fail(h)
        BY <3>2, <3>3, <3>5 DEF Standard!Fail, req, content
      <3>7. QED
        BY <1>2, <3>6
    <2>5. QED
      BY <1>3, <2>3, <2>4
  <1>7. QED
    BY <1>5, <1>6 DEF Write

\* Block l is in the range of a command exactly when its place in the data is.
LEMMA Shifted ==
    ASSUME NEW lo \in Nat, NEW len \in Nat, NEW l \in Nat
    PROVE  l \in lo..(lo + len - 1) <=> l - lo + 1 \in 1..len
  OBVIOUS

\* A write takes effect when the driver stores it, a read is done when the
\* driver passes it on, and an answer with an error changes nothing.
LEMMA FinishMaps ==
    ASSUME Inv, NEW h \in Host, Finish(h)
    PROVE  Standard!Apply(h) \/ Standard!ReadDone(h) \/ UNCHANGED <<content, req>>
  <1> DEFINE s == slot[h]
             d == IF s.ok THEN s.data ELSE <<>>
             r == [s EXCEPT !.st = "done", !.data = d]
  <1>1. slot' = [slot EXCEPT ![h] = r] /\ s.st = "answered"
    BY DEF Finish, Inv, TypeOK
  <1>2. s \in SlotType /\ SlotCtl(s) /\ s.data \in Seq(Sector) /\ s.ok \in BOOLEAN
    BY DEF Inv, TypeOK, SlotType
  <1>3. r.st = "done" /\ r.op = s.op /\ r.lo = s.lo /\ r.ok = s.ok /\ r.data = d
    BY <1>2 DEF SlotType
  <1> HIDE DEF r
  <1>4. /\ s.op \in {"read", "write", "write_zeroes", "other"} /\ s.lo \in Lba
        /\ s.lo + Len(s.data) - 1 \in Lba /\ Lba \subseteq Nat
        /\ DOMAIN s.data = 1..Len(s.data) /\ Len(s.data) \in Nat
    <2>1. s.op \in Opcode /\ s.lo \in Lba
      BY <1>1, <1>2 DEF SlotCtl
    <2>2. DOMAIN s.data = 1..Len(s.data) /\ Len(s.data) \in Nat
      BY <1>2
    <2>3. s.lo + Len(s.data) - 1 \in Lba
      BY <1>1, <1>2 DEF SlotCtl
    <2>4. QED
      BY <2>1, <2>2, <2>3, DiskAssumption
  <1>5. CASE ~s.ok
    <2>1. HostReq(s) = Failed(s) /\ HostReq(r) = Failed(s) /\ UNCHANGED disk
      BY <1>1, <1>3, <1>5 DEF HostReq, Failed, Finish
    <2>2. QED
      BY <1>1, <2>1, Unseen
  <1>6. CASE s.ok /\ s.op = "read"
    <2>1. HostReq(s) = Seen(s, "fetched", 0) /\ HostReq(r) = Seen(s, "done", 0)
          /\ UNCHANGED disk
      BY <1>1, <1>3, <1>6 DEF HostReq, Seen, Finish
    <2>2. req[h] = Seen(s, "fetched", 0) /\ req' = [req EXCEPT ![h] = Seen(s, "done", 0)]
          /\ UNCHANGED content
      BY <1>1, <2>1, OneReq DEF content
    <2>3. [req[h] EXCEPT !.st = "done"] = Seen(s, "done", 0)
      BY <2>2, Completing
    <2>4. req' = [req EXCEPT ![h].st = "done"]
      BY <2>2, <2>3 DEF req
    <2>5. req[h].st = "fetched"
      BY <2>2 DEF Seen
    <2>6. QED
      BY <2>2, <2>4, <2>5 DEF Standard!ReadDone, req, content
  <1>7. CASE s.ok /\ s.op # "read"
    <2>1. s.op \in {"write", "write_zeroes"}
      BY <1>1, <1>2, <1>4, <1>7 DEF SlotCtl
    <2>2. HostReq(s) = Seen(s, "issued", 1) /\ HostReq(r) = Seen(s, "done", 1)
      BY <1>1, <1>3, <1>7 DEF HostReq, Seen
    <2>3. req[h] = Seen(s, "issued", 1) /\ req' = [req EXCEPT ![h] = Seen(s, "done", 1)]
      BY <1>1, <2>2, OneReq
    <2>4. /\ req[h].st = "issued" /\ req[h].op = s.op /\ req[h].lo = s.lo
          /\ \A i \in DOMAIN s.data : req[h].data[i] = Value(s.data[i], 1)
      BY <2>3 DEF Seen
    <2>done. [req[h] EXCEPT !.st = "done"] = Seen(s, "done", 1)
      BY <2>3, Completing
    <2>5. req' = [req EXCEPT ![h].st = "done"]
      BY <2>3, <2>done DEF req
    <2>6. Len(req[h].data) = Len(s.data)
      <3>1. req[h].data = [i \in 1..Len(s.data) |-> Value(s.data[i], 1)]
        BY <1>4, <2>3 DEF Seen
      <3>2. QED
        BY <1>4, <3>1
    <2>7. disk' = [l \in Lba |-> IF l - s.lo + 1 \in DOMAIN s.data
                                 THEN s.data[l - s.lo + 1] ELSE disk[l]]
      <3>1. s.op \in {"write", "write_zeroes"} /\ s.ok
        BY <1>7, <2>1
      <3>2. QED
        BY <3>1 DEF Finish
    <2>8. content' = [l \in Lba |-> IF l \in s.lo..(s.lo + Len(s.data) - 1)
                                    THEN req[h].data[l - s.lo + 1] ELSE content[l]]
      <3>1. \A l \in Lba : l \in s.lo..(s.lo + Len(s.data) - 1)
                                <=> l - s.lo + 1 \in DOMAIN s.data
        <4>1. Lba \subseteq Nat /\ s.lo \in Nat /\ Len(s.data) \in Nat
              /\ DOMAIN s.data = 1..Len(s.data)
          BY <1>4
        <4> HIDE DEF s
        <4>2. QED
          BY <4>1, Shifted, SMTT(60)
      <3>2. \A l \in Lba : Value(disk'[l], 1) =
                IF l \in s.lo..(s.lo + Len(s.data) - 1)
                THEN req[h].data[l - s.lo + 1] ELSE content[l]
        BY <2>4, <2>7, <3>1 DEF content
      <3>3. QED
        BY <3>2 DEF content
    <2>9. Standard!Blocks(req[h]) = s.lo..(s.lo + Len(s.data) - 1)
      BY <2>4, <2>6 DEF Standard!Blocks
    <2>10. Standard!Apply(h)
      <3>1. req[h].op # "read" /\ req[h].op # "other"
        BY <2>1, <2>4
      <3>2. content' = [l \in Lba |-> IF l \in Standard!Blocks(req[h])
                                      THEN req[h].data[l - req[h].lo + 1] ELSE content[l]]
        BY <2>4, <2>8, <2>9
      <3>3. QED
        BY <2>4, <2>5, <3>1, <3>2 DEF Standard!Apply, req, content
    <2>11. QED
      BY <2>10
  <1>8. QED
    BY <1>2, <1>5, <1>6, <1>7

\* The workers change nothing that the host sees before they answer.
LEMMA WorkerMaps ==
    ASSUME Inv, NEW p \in Queue, Read(p) \/ Handle(p) \/ HandleError(p) \/ ReadEnd(p)
    PROVE  UNCHANGED <<content, req>>
  <1>1. CASE Handle(p) \/ HandleError(p) \/ ReadEnd(p)
    BY <1>1 DEF Handle, HandleError, ReadEnd, content, req
  <1>2. CASE Read(p)
    <2> DEFINE h == Head(queue[p])
               s == slot[h]
               r == [s EXCEPT !.st = "worker"]
    <2>1. queue[p] \in Seq(Host) /\ queue[p] # <<>>
      BY <1>2 DEF Read, Inv, TypeOK
    <2>2. h \in Host /\ h = queue[p][1] /\ 1 \in DOMAIN queue[p]
      BY <2>1, HeadTailProperties
    <2>3. s.st = "queued" /\ s \in SlotType /\ SlotCtl(s)
      BY <2>2 DEF Inv, TypeOK, OnePlace
    <2>4. slot' = [slot EXCEPT ![h].st = "worker"] /\ UNCHANGED disk
      BY <1>2 DEF Read
    <2> HIDE DEF h
    <2>5. slot' = [slot EXCEPT ![h] = r]
      BY <2>2, <2>4 DEF Inv, TypeOK
    <2>6. r.st = "worker" /\ r.data = s.data /\ r.op = s.op /\ r.lo = s.lo
      BY <2>3 DEF SlotType
    <2> HIDE DEF r
    <2>7. HostReq(r) = HostReq(s)
      BY <2>3, <2>6, Seeing DEF HostReq, Seen
    <2>8. QED
      BY <2>2, <2>4, <2>5, <2>7, Unseen
  <1>3. QED
    BY <1>1, <1>2

\* A disk that was formatted through the workers holds zeroes.
LEMMA InitMaps == Init => Standard!DiskInit
  <1> SUFFICES ASSUME Init PROVE Standard!DiskInit
    OBVIOUS
  <1>1. Value(aes_encrypt(Plain(Zero)), 1) = Zero
    BY DEF Value, aes_encrypt, Plain
  <1>2. content = [l \in Lba |-> Zero]
    BY <1>1 DEF Init, content
  <1>3. HostReq(Idle) = Idle /\ Idle = Standard!None
    BY DEF HostReq, Idle, Standard!None
  <1>4. req = [h \in Host |-> Standard!None]
    BY <1>3 DEF Init, req
  <1>5. QED
    BY <1>2, <1>4 DEF Standard!DiskInit, content, req

\* firmware/README.md:54 "The disk will work as a standard disk seen from the
\* host", however many workers handle commands out of order and whatever fails.
THEOREM ImplementsStandardDisk == SafeSpec => IsStandardDisk
  <1>1. Init => Standard!DiskInit
    BY InitMaps
  <1>2. Inv /\ [Next]_vars => [Standard!DiskNext]_<<content, req>>
    <2> SUFFICES ASSUME Inv, [Next]_vars PROVE Standard!DiskNext \/ UNCHANGED <<content, req>>
      OBVIOUS
    <2>1. CASE UNCHANGED vars
      BY <2>1 DEF vars, content, req
    <2>2. ASSUME NEW h \in Host, Issue(h) \/ Collect(h) \/ Finish(h)
          PROVE  Standard!DiskNext \/ UNCHANGED <<content, req>>
      BY <2>2, IssueMaps, CollectMaps, FinishMaps DEF Standard!DiskNext
    <2>3. ASSUME NEW h \in Host, NEW q \in Queue, Forward(h, q)
          PROVE  Standard!DiskNext \/ UNCHANGED <<content, req>>
      BY <2>3, ForwardMaps DEF Standard!DiskNext
    <2>4. ASSUME NEW q \in Queue, Worker(q) \/ ReadEnd(q)
          PROVE  Standard!DiskNext \/ UNCHANGED <<content, req>>
      BY <2>4, WriteMaps, WorkerMaps DEF Worker, Standard!DiskNext
    <2>5. QED
      BY <2>1, <2>2, <2>3, <2>4 DEF Next, Driver
  <1>3. [Standard!DiskNext]_<<content, req>> => [Standard!DiskNext]_(Standard!diskVars)
    BY DEF Standard!diskVars, content, req
  <1>4. QED
    BY <1>1, <1>2, <1>3, Invariance, PTL DEF SafeSpec, IsStandardDisk, Standard!DiskSpec
=============================================================================
