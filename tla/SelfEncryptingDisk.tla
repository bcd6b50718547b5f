------------------------- MODULE SelfEncryptingDisk -------------------------
(***************************************************************************)
(* firmware/crypt: the processes that make the CSD a self-encrypting disk. *)
(* With the user path enabled the endpoint driver hands every command, with*)
(* its data, to one of the character devices /dev/tsp-N.  A process per    *)
(* device reads a command, encrypts or decrypts its data sector by sector  *)
(* and writes back a completion with the data:                             *)
(*                                                                         *)
(*   write:  host -> driver -> worker (encrypts) -> driver -> backend      *)
(*   read:   backend -> driver -> worker (decrypts) -> driver -> host      *)
(*                                                                         *)
(* The driver (pci-epf-nvme.c) is not in the repository: it fetches the    *)
(* sectors of a read before it queues the command, stores the answer of a  *)
(* write whose status is 0, and takes what is written to a device as the   *)
(* answer to the command last read from it.                                *)
(***************************************************************************)
EXTENDS Integers, Sequences

CONSTANTS
    NoCmd,      \* no command
    Host,       \* the host's threads, each with one command outstanding
    Queue,      \* the devices /dev/tsp-N, one worker each
    Lba,        \* the sectors
    Val, Zero,  \* what a sector can hold, and the sector of zeroes
    Opcode,     \* the commands that take the user path
    MaxBlocks,  \* bound: sectors of a command (PCI_EPF_NVME_MDTS)
    Faults      \* "aes": OpenSSL fails; "reply": write() fails;
                \* "eof": read() returns 0, too little or an error

ASSUME DiskAssumption ==
    /\ Lba \subseteq Nat /\ \A a, b \in Lba : a..b \subseteq Lba
    /\ Zero \in Val /\ MaxBlocks \in Nat \ {0}
    /\ NoCmd \notin Host
    /\ Opcode \subseteq {"read", "write", "write_zeroes", "other"}
    /\ Faults \subseteq {"aes", "reply", "eof"}

VARIABLES
    disk,       \* the backend: a sector is a value under some encryptions
    slot,       \* the host threads' commands
    queue,      \* queue[q]: the host threads whose commands wait in q
    wpc,        \* control of the worker of each queue
    win,        \* the command in buffer_in, while it is being handled
    out,        \* the sectors of buffer_out, which is never cleared
    wok         \* the status in buffer_out is 0, while it is to be written

vars == <<disk, slot, queue, wpc, win, out, wok>>

-----------------------------------------------------------------------------
(* AES-256-CBC of a sector, with the fixed key and iv: a permutation and    *)
(* its inverse, so a sector is its value and the number of encryptions on  *)
(* it.                                                                     *)

Sector   == [val : Val, enc : -1..2]
Plain(v) == [val |-> v, enc |-> 0]

\* Mutant: the encryption context is initialised for decryption.
aes_encrypt_swapped(s) == [s EXCEPT !.enc = @ - 1]

aes_encrypt(s) == [s EXCEPT !.enc = @ + 1]
aes_decrypt(s) == [s EXCEPT !.enc = @ - 1]

\* Mutant: a write zeroes is not encrypted.
LbaMapPlainZeroes(op, data, n, old) ==
    [i \in 1..MaxBlocks |->
        IF i > n THEN old[i]
        ELSE IF op = "read" THEN aes_decrypt(data[i])
        ELSE IF op \in {"other", "write_zeroes"} THEN data[i]
        ELSE aes_encrypt(data[i])]

\* Mutant: the loop stops one sector early.
LbaMapShort(op, data, n, old) ==
    [i \in 1..MaxBlocks |->
        IF i >= n THEN old[i]
        ELSE IF op = "read" THEN aes_decrypt(data[i])
        ELSE IF op = "other" THEN data[i]
        ELSE aes_encrypt(data[i])]

\* lba_encrypt and lba_decrypt work through the sectors and stop where
\* OpenSSL fails: the output is done up to there, and as it was after it.
LbaMap(op, data, n, old) ==
    [i \in 1..MaxBlocks |->
        IF i > n THEN old[i]
        ELSE IF op = "read" THEN aes_decrypt(data[i])
        ELSE IF op = "other" THEN data[i]
        ELSE aes_encrypt(data[i])]

-----------------------------------------------------------------------------
Idle == [st |-> "idle", op |-> "none", lo |-> 0, data |-> <<>>, ok |-> TRUE]

SlotType == [st : {"idle", "issued", "queued", "worker", "lost", "answered", "done"},
             op : Opcode \cup {"none"}, lo : Lba \cup {0},
             data : Seq(Sector), ok : BOOLEAN]

TypeOK ==
    /\ disk \in [Lba -> Sector]
    /\ slot \in [Host -> SlotType]
    /\ \A h \in Host : Len(slot[h].data) <= MaxBlocks
    /\ queue \in [Queue -> Seq(Host)]
    /\ wpc \in [Queue -> {"read", "handle", "write", "dead"}]
    /\ win \in [Queue -> Host \cup {NoCmd}]
    /\ out \in [Queue -> [1..MaxBlocks -> Sector]]
    /\ wok \in [Queue -> BOOLEAN]

\* The disk was formatted through the workers; the buffers come from malloc.
Init ==
    /\ disk = [l \in Lba |-> aes_encrypt(Plain(Zero))]
    /\ slot = [h \in Host |-> Idle]
    /\ queue = [q \in Queue |-> <<>>]
    /\ wpc = [q \in Queue |-> "read"]
    /\ win = [q \in Queue |-> NoCmd]
    /\ out = [q \in Queue |-> [i \in 1..MaxBlocks |-> Plain(Zero)]]
    /\ wok = [q \in Queue |-> TRUE]

-----------------------------------------------------------------------------
(* The host and the driver                                                 *)

Issue(h) ==
    /\ slot[h].st = "idle"
    /\ \E op \in Opcode, lo \in Lba, n \in 1..MaxBlocks :
        \E v \in [1..n -> Val] :
            /\ lo + n - 1 \in Lba
            /\ op \in {"read", "write_zeroes"} => \A i \in 1..n : v[i] = Zero
            /\ slot' = [slot EXCEPT ![h] = [st |-> "issued", op |-> op, lo |-> lo,
                            data |-> [i \in 1..n |-> Plain(v[i])], ok |-> TRUE]]
    /\ UNCHANGED <<disk, queue, wpc, win, out, wok>>

\* A write zeroes is queued with its sectors of zeroes, as the worker expects.
Forward(h, q) ==
    /\ slot[h].st = "issued"
    /\ queue' = [queue EXCEPT ![q] = Append(@, h)]
    /\ slot' = [slot EXCEPT ![h].st = "queued", ![h].data =
                 IF slot[h].op # "read" THEN @
                 ELSE [i \in DOMAIN @ |-> disk[slot[h].lo + i - 1]]]
    /\ UNCHANGED <<disk, wpc, win, out, wok>>

Finish(h) ==
    /\ slot[h].st = "answered"
    /\ slot' = [slot EXCEPT ![h].st = "done", ![h].data = IF slot[h].ok THEN @ ELSE <<>>]
    /\ disk' = IF slot[h].op \in {"write", "write_zeroes"} /\ slot[h].ok
               THEN [l \in Lba |-> IF l - slot[h].lo + 1 \in DOMAIN slot[h].data
                                   THEN slot[h].data[l - slot[h].lo + 1] ELSE disk[l]]
               ELSE disk
    /\ UNCHANGED <<queue, wpc, win, out, wok>>

Collect(h) ==
    /\ slot[h].st = "done" /\ slot' = [slot EXCEPT ![h] = Idle]
    /\ UNCHANGED <<disk, queue, wpc, win, out, wok>>

-----------------------------------------------------------------------------
(* main() of a worker                                                      *)

Read(q) ==
    /\ wpc[q] = "read" /\ queue[q] # <<>>
    /\ win' = [win EXCEPT ![q] = Head(queue[q])]
    /\ queue' = [queue EXCEPT ![q] = Tail(@)]
    /\ slot' = [slot EXCEPT ![Head(queue[q])].st = "worker"]
    /\ wpc' = [wpc EXCEPT ![q] = "handle"]
    /\ UNCHANGED <<disk, out, wok>>

\* read() returns 0, less than a command or -1: the process ends.
ReadEnd(q) ==
    /\ "eof" \in Faults /\ wpc[q] = "read"
    /\ wpc' = [wpc EXCEPT ![q] = "dead"]
    /\ UNCHANGED <<disk, slot, queue, win, out, wok>>

\* The sectors are transformed and the status is 0 if lba_encrypt or
\* lba_decrypt returned their size; the copy of another command's data
\* leaves ret at 0, which is not their size.
Handle(q) ==
    LET s == slot[win[q]] IN
    /\ wpc[q] = "handle"
    /\ out' = [out EXCEPT ![q] = LbaMap(s.op, s.data, Len(s.data), @)]
    /\ wok' = [wok EXCEPT ![q] = s.op # "other"]
    /\ wpc' = [wpc EXCEPT ![q] = "write"]
    /\ UNCHANGED <<disk, slot, queue, win>>

\* Mutant: the status does not depend on what was transformed.
HandleErrorIgnored(q) ==
    LET s == slot[win[q]] IN
    /\ "aes" \in Faults /\ wpc[q] = "handle" /\ s.op # "other"
    /\ \E k \in 1..Len(s.data) :
        out' = [out EXCEPT ![q] = LbaMap(s.op, s.data, k - 1, @)]
    /\ wok' = [wok EXCEPT ![q] = TRUE]
    /\ wpc' = [wpc EXCEPT ![q] = "write"]
    /\ UNCHANGED <<disk, slot, queue, win>>

\* Mutant: an error of OpenSSL ends the process.
HandleErrorEnds(q) ==
    /\ "aes" \in Faults /\ wpc[q] = "handle" /\ slot[win[q]].op # "other"
    /\ wpc' = [wpc EXCEPT ![q] = "dead"]
    /\ UNCHANGED <<disk, slot, queue, win, out, wok>>

\* OpenSSL fails on a sector: NVME_SC_INTERNAL, with what buffer_out holds.
HandleError(q) ==
    LET s == slot[win[q]] IN
    /\ "aes" \in Faults /\ wpc[q] = "handle" /\ s.op # "other"
    /\ \E k \in 1..Len(s.data) :
        out' = [out EXCEPT ![q] = LbaMap(s.op, s.data, k - 1, @)]
    /\ wok' = [wok EXCEPT ![q] = FALSE]
    /\ wpc' = [wpc EXCEPT ![q] = "write"]
    /\ UNCHANGED <<disk, slot, queue, win>>

\* Mutant: a command whose answer failed is handled once more.
WriteRetries(q) ==
    LET h == win[q] IN
    /\ wpc[q] = "write"
    /\ \/ /\ slot' = [slot EXCEPT ![h].st = "answered", ![h].ok = wok[q],
                                  ![h].data = [i \in DOMAIN @ |-> out[q][i]]]
          /\ wpc' = [wpc EXCEPT ![q] = "read"]
          /\ win' = [win EXCEPT ![q] = NoCmd] /\ wok' = [wok EXCEPT ![q] = TRUE]
       \/ /\ "reply" \in Faults /\ slot' = [slot EXCEPT ![h].st = "lost"]
          /\ wpc' = [wpc EXCEPT ![q] = "handle"] /\ UNCHANGED <<win, wok>>
    /\ UNCHANGED <<disk, queue, out>>

\* What write() returns is not looked at.
Write(q) ==
    LET h == win[q] IN
    /\ wpc[q] = "write"
    /\ \/ slot' = [slot EXCEPT ![h].st = "answered", ![h].ok = wok[q],
                               ![h].data = [i \in DOMAIN @ |-> out[q][i]]]
       \/ "reply" \in Faults /\ slot' = [slot EXCEPT ![h].st = "lost"]
    /\ wpc' = [wpc EXCEPT ![q] = "read"]
    /\ win' = [win EXCEPT ![q] = NoCmd] /\ wok' = [wok EXCEPT ![q] = TRUE]
    /\ UNCHANGED <<disk, queue, out>>

-----------------------------------------------------------------------------
Driver(h) == (\E q \in Queue : Forward(h, q)) \/ Finish(h)
Worker(q) == Read(q) \/ Handle(q) \/ HandleError(q) \/ Write(q)

Next == \/ \E h \in Host : Issue(h) \/ Driver(h) \/ Collect(h)
        \/ \E q \in Queue : Worker(q) \/ ReadEnd(q)

Fairness == /\ \A h \in Host : WF_vars(Driver(h))
            /\ \A q \in Queue : WF_vars(Worker(q))

SafeSpec == Init /\ [][Next]_vars
Spec     == SafeSpec /\ Fairness

-----------------------------------------------------------------------------
\* firmware/README.md:54 "data writtent to the backend will be encrypted":
\* every sector of the backend is under exactly one encryption, whatever
\* fails and however the workers interleave.
EncryptedAtRest == \A l \in Lba : disk[l].enc = 1

\* A read that succeeds returns sectors that are decrypted, once.
ReadIsPlain ==
    \A h \in Host : slot[h].st = "done" /\ slot[h].op = "read" =>
        \A i \in DOMAIN slot[h].data : slot[h].data[i].enc = 0

\* A command is in exactly one place: waiting in one queue once, with one
\* worker, or with the driver; no two workers answer the same command.
OnePlace ==
    /\ \A q \in Queue : \A i \in DOMAIN queue[q] :
        /\ slot[queue[q][i]].st = "queued"
        /\ \A r \in Queue : \A j \in DOMAIN queue[r] :
            queue[q][i] = queue[r][j] => q = r /\ i = j
    /\ \A q \in Queue : wpc[q] \in {"handle", "write"} =>
        /\ slot[win[q]].st = "worker"
        /\ \A r \in Queue \ {q} :
            wpc[r] \in {"handle", "write"} => win[r] # win[q]

\* firmware/README.md:54 "The disk will work as a standard disk seen from the
\* host": the plain contents are what StandardDisk says they are.
Value(s, n) == IF s.enc = n THEN s.val ELSE "garbage"

\* The request the host sees: an error is an error as soon as it is answered,
\* a read has its sectors from the moment the driver fetched them, and a write
\* happens when the driver stores it.
HostReq(s) ==
    LET req(st, n) == [st |-> st, op |-> s.op, lo |-> s.lo, ok |-> TRUE,
                       data |-> [i \in DOMAIN s.data |-> Value(s.data[i], n)]]
        moving == s.st \in {"queued", "worker", "lost"}
        failed == s.st \in {"answered", "done"} /\ ~s.ok
    IN CASE s.st = "idle"   -> Idle
         [] s.st = "issued" -> req("issued", 0)
         [] moving          -> IF s.op = "read" THEN req("fetched", 1) ELSE req("issued", 0)
         [] failed          -> [req("done", 0) EXCEPT !.ok = FALSE, !.data = <<>>]
         [] s.st = "answered" /\ s.ok ->
                IF s.op = "read" THEN req("fetched", 0) ELSE req("issued", 1)
         [] s.st = "done" /\ s.ok ->
                IF s.op = "read" THEN req("done", 0) ELSE req("done", 1)

Standard == INSTANCE StandardDisk WITH
    content <- [l \in Lba |-> Value(disk[l], 1)],
    req     <- [h \in Host |-> HostReq(slot[h])]

IsStandardDisk == Standard!DiskSpec

\* A command is completed, with or without success, unless the process that
\* holds its queue has ended or its answer could not be written.
Completes ==
    \A h \in Host : slot[h].st = "issued" ~>
        \/ slot[h].st \in {"done", "lost"}
        \/ \E q \in Queue : wpc[q] = "dead" /\ \E i \in DOMAIN queue[q] : queue[q][i] = h
=============================================================================
