--------------------------- MODULE ComputeSession ---------------------------
(***************************************************************************)
(* host/snia_cs_api (cs_api_nvme_tsp.c) as host/demos use it: processes    *)
(* that run checksum or sleep and share one drive.                         *)
(*                                                                         *)
(*   checksum:  path, open, props, caps, function, stat, alloc x 2, read,  *)
(*              compute x iterations, result                               *)
(*   sleep:     path, open, props, caps, compute, result                   *)
(*                                                                         *)
(* A call of the API is one action with the outcomes its returns allow; a  *)
(* compute request is synchronous for the process and executed by the      *)
(* drive at any later moment, also after the host has timed out.           *)
(* The drive's allocator, its compute engine and the file are environment. *)
(***************************************************************************)
EXTENDS Integers, Sequences

CONSTANTS
    Proc,        \* the processes
    Programs,    \* what they run: "checksum", "sleep"
    Iterations,  \* the values of -i
    PAGE,        \* words of 4096 bytes
    Pages,       \* pages of device memory
    ALLOC_MAX,   \* words of 4096*1024 bytes, the limit of csAllocMem
    INT_MOD,     \* words of 2^32 bytes: csAllocMem takes an int
    Files,       \* the contents the file can have, sequences of words
    WORD_MOD,    \* 2^32: a word, and the checksum, are less
    Checksum(_), \* the drive's checksum function, of a sequence of words
    JUNK,        \* what device memory holds before it is written
    Faults       \* "device": a command fails; "timeout": compute takes an hour;
                 \* "map": /dev/mem; "io": the file; "edit": it changes

ASSUME SessionAssumption ==
    /\ Programs \subseteq {"checksum", "sleep"} /\ Iterations \subseteq Int
    /\ PAGE \in Nat \ {0} /\ Pages \in Nat /\ ALLOC_MAX \in Nat
    /\ INT_MOD \in Nat \ {0} /\ INT_MOD % PAGE = 0
    /\ WORD_MOD \in Nat \ {0} /\ JUNK \in 0..(WORD_MOD - 1)
    /\ Files \subseteq Seq(0..(WORD_MOD - 1)) /\ Files # {}
    /\ \A n \in 0..(Pages * PAGE) : \A words \in [1..n -> 0..(WORD_MOD - 1)] :
            Checksum(words) \in 0..(WORD_MOD - 1)
    /\ Faults \subseteq {"device", "timeout", "map", "io", "edit"}

VARIABLES
    ses,    \* the state of each process
    jobs,   \* the compute requests the drive has not executed
    taken,  \* the pages of device memory the allocator has given out
    mem,    \* the words of device memory, by address
    file    \* the file's content

vars == <<ses, jobs, taken, mem, file>>

\* CS_STATUS, and the NVMe status of a failed command (-1: no completion)
CS_SUCCESS              == 0
CS_COULD_NOT_MAP_MEMORY == 1
CS_DEVICE_NOT_AVAILABLE == 3
CS_INVALID_ARG          == 13
CS_NOT_ENOUGH_MEMORY    == 25
NVME_SC_INTERNAL        == 6
TIMED_OUT               == -1

Word    == 0..(WORD_MOD - 1)
Address == PAGE..((Pages + 1) * PAGE - 1)
Pc      == {"stopped", "path", "open", "props", "caps", "function", "stat",
            "alloc", "read", "loop", "wait", "done", "quit"}

-----------------------------------------------------------------------------
(* Arithmetic of the buffers, in words.                                    *)

\* Mutant: the size is aligned downwards.
AlignDown(n) == (n \div PAGE) * PAGE

\* __ALIGN(FILESIZE, 4096)
Align(n) == ((n + PAGE - 1) \div PAGE) * PAGE

\* The conversion of an u64 to csAllocMem's int.
ToInt(n) == LET m == n % INT_MOD IN IF m >= INT_MOD \div 2 THEN m - INT_MOD ELSE m

\* The pages of an allocation of n words at address a.
PagesOf(a, n) == IF n = 0 THEN {} ELSE (a \div PAGE)..((a + n - 1) \div PAGE)

\* What the drive's allocator may answer for n words.
FreeAt(n) == {pg * PAGE : pg \in {pg \in 1..Pages :
                 PagesOf(pg * PAGE, n) \subseteq (1..Pages) \ taken}}

\* The n words at address a.
Words(a, n) == [i \in 1..n |-> mem[a + i - 1]]

-----------------------------------------------------------------------------
New(prog, iters) ==
    [pc |-> "path", prog |-> prog, left |-> iters, size |-> 0,
     buf |-> <<>>, mapped |-> <<>>, status |-> CS_SUCCESS, result |-> JUNK]

Never == [New("sleep", 0) EXCEPT !.pc = "stopped"]

SesType == [pc : Pc, prog : {"checksum", "sleep"}, left : Int, size : Nat,
            buf : Seq(Address), mapped : Seq(1..ALLOC_MAX), status : Int, result : Word]

JobType == [p : Proc, live : BOOLEAN, data : Nat, len : Nat, res : Address \cup {0}]

TypeOK ==
    /\ ses \in [Proc -> SesType] /\ jobs \subseteq JobType
    /\ \A p \in Proc : Len(ses[p].buf) = Len(ses[p].mapped) /\ Len(ses[p].buf) <= 2
    /\ taken \subseteq 1..Pages
    /\ mem \in [Address -> Word] /\ file \in Files

Init ==
    /\ ses = [p \in Proc |-> Never]
    /\ jobs = {} /\ taken = {}
    /\ mem = [a \in Address |-> JUNK]
    /\ file \in Files

Go(p, pc)      == ses' = [ses EXCEPT ![p].pc = pc]
Quit(p, stat)  == ses' = [ses EXCEPT ![p].pc = "quit", ![p].status = stat]
Fails(fault)   == fault \in Faults
DeviceFails(p) == Fails("device") /\ Quit(p, CS_DEVICE_NOT_AVAILABLE)

-----------------------------------------------------------------------------
(* main() of the demos, up to the request                                  *)

\* Mutant: the end of a process returns its memory to the drive.
StartAfterRelease(p) ==
    /\ ses[p].pc \in {"stopped", "done", "quit"}
    /\ \E prog \in Programs :
        \E i \in (IF prog = "checksum" THEN Iterations ELSE {1}) :
            ses' = [ses EXCEPT ![p] = New(prog, i)]
    /\ taken' = taken \ UNION {PagesOf(ses[p].buf[k], ses[p].mapped[k]) : k \in DOMAIN ses[p].buf}
    /\ UNCHANGED <<jobs, mem, file>>

\* A process that has ended is started again; exit() frees nothing on the
\* drive, and csFreeMem would not either.
Start(p) ==
    /\ ses[p].pc \in {"stopped", "done", "quit"}
    /\ \E prog \in Programs :
        \E i \in (IF prog = "checksum" THEN Iterations ELSE {1}) :
            ses' = [ses EXCEPT ![p] = New(prog, i)]
    /\ UNCHANGED <<jobs, taken, mem, file>>

csGetCSxFromPath(p) ==
    /\ ses[p].pc = "path"
    /\ Go(p, "open") \/ DeviceFails(p)
    /\ UNCHANGED <<jobs, taken, mem, file>>

csOpenCSx(p) ==
    /\ ses[p].pc = "open"
    /\ Go(p, "props") \/ DeviceFails(p)
    /\ UNCHANGED <<jobs, taken, mem, file>>

csQueryDeviceProperties(p) ==
    /\ ses[p].pc = "props"
    /\ Go(p, "caps") \/ DeviceFails(p)
    /\ UNCHANGED <<jobs, taken, mem, file>>

\* checksum also ends here if the drive lists no checksum function, and either
\* demo after the properties if the first CSE has no function at all.
csQueryDeviceCapabilities(p) ==
    /\ ses[p].pc = "caps"
    /\ \/ Go(p, IF ses[p].prog = "checksum" THEN "function" ELSE "loop")
       \/ DeviceFails(p)
    /\ UNCHANGED <<jobs, taken, mem, file>>

csGetFunction(p) ==
    /\ ses[p].pc = "function"
    /\ Go(p, "stat") \/ DeviceFails(p)
    /\ UNCHANGED <<jobs, taken, mem, file>>

\* A file that cannot be examined has size 0.
FileSize(p) ==
    /\ ses[p].pc = "stat"
    /\ \E n \in {Len(file)} \cup (IF Fails("io") THEN {0} ELSE {}) :
        ses' = [ses EXCEPT ![p].pc = "alloc", ![p].size = n]
    /\ UNCHANGED <<jobs, taken, mem, file>>

\* Mutant: the file is examined again for the allocation.
BytesOfFileNow(p) == IF ses[p].buf = <<>> THEN ToInt(Align(Len(file))) ELSE PAGE

\* Array 0 holds the file, array 1 the result.
Bytes(p) == IF ses[p].buf = <<>> THEN ToInt(Align(ses[p].size)) ELSE PAGE

\* The drive answers with the address of free memory, or with 0.
tsp_allocate_memory(p, a) ==
    /\ a \in FreeAt(Bytes(p)) /\ taken' = taken \cup PagesOf(a, Bytes(p))

Mapped(p, a) ==
    ses' = [ses EXCEPT ![p].pc = IF ses[p].buf = <<>> THEN "alloc" ELSE "read",
                       ![p].buf = Append(@, a), ![p].mapped = Append(@, Bytes(p))]

\* Mutant: an address of 0 is taken for memory.
NoMemoryUnchecked(p) == FreeAt(Bytes(p)) = {} /\ Mapped(p, 0) /\ UNCHANGED taken

NoMemory(p) ==
    /\ FreeAt(Bytes(p)) = {} /\ Quit(p, CS_NOT_ENOUGH_MEMORY) /\ UNCHANGED taken

\* A failed command, or /dev/mem, leaves what the drive has given out taken.
csAllocMem(p) ==
    /\ ses[p].pc = "alloc"
    /\ \/ Bytes(p) <= 0 /\ Quit(p, CS_INVALID_ARG) /\ UNCHANGED taken
       \/ Bytes(p) > ALLOC_MAX /\ Quit(p, CS_NOT_ENOUGH_MEMORY) /\ UNCHANGED taken
       \/ /\ Bytes(p) \in 1..ALLOC_MAX
          /\ \/ NoMemory(p)
             \/ DeviceFails(p) /\ UNCHANGED taken
             \/ \E a \in Address :
                /\ tsp_allocate_memory(p, a)
                /\ \/ DeviceFails(p)
                   \/ Fails("map") /\ Quit(p, CS_COULD_NOT_MAP_MEMORY)
                   \/ Mapped(p, a)
    /\ UNCHANGED <<jobs, mem, file>>

\* pread() into the mapping: what the file has now, up to the size it had.
\* Only a return of 0 is an error: a part of the file, or -1, is not.
ReadFile(p) ==
    LET least(S) == CHOOSE n \in S : \A m \in S : n <= m
        full == least({Len(file), ses[p].size, ses[p].mapped[1]})
        base == ses[p].buf[1]
        load(n) == mem' = [a \in Address |->
                        IF a \in base..(base + n - 1) THEN file[a - base + 1] ELSE mem[a]]
    IN
    /\ ses[p].pc = "read"
    /\ \/ full = 0 /\ Quit(p, CS_SUCCESS) /\ UNCHANGED mem
       \/ full > 0 /\ Go(p, "loop") /\ load(full)
       \/ Fails("io") /\ Quit(p, CS_SUCCESS) /\ UNCHANGED mem
       \/ Fails("io") /\ Go(p, "loop") /\ \E n \in 0..full : load(n)
    /\ UNCHANGED <<jobs, taken, file>>

-----------------------------------------------------------------------------
(* The compute request                                                     *)

\* A size is taken from the argument list as 32 bits, an address as it is.
csHelperSetComputeArg(Type, value) ==
    IF Type = "CS_32BIT_VALUE_TYPE" THEN value % INT_MOD ELSE value

\* The data, its length, and where the result goes.
ChecksumRequest(p) ==
    [p |-> p, live |-> TRUE,
     data |-> csHelperSetComputeArg("CS_AFDM_TYPE", ses[p].buf[1]),
     len  |-> csHelperSetComputeArg("CS_32BIT_VALUE_TYPE", ses[p].size),
     res  |-> csHelperSetComputeArg("CS_AFDM_TYPE", ses[p].buf[2])]

\* The one argument is a duration; the request touches no device memory.
SleepRequest(p) == [p |-> p, live |-> TRUE, data |-> 0, len |-> 0, res |-> 0]

csQueueComputeRequest(p) ==
    /\ ses[p].pc = "loop" /\ ses[p].left > 0
    /\ jobs' = jobs \cup {IF ses[p].prog = "sleep" THEN SleepRequest(p)
                                                  ELSE ChecksumRequest(p)}
    /\ Go(p, "wait")
    /\ UNCHANGED <<taken, mem, file>>

\* The call returns what nvme_admin_passthru returned, as a CS_STATUS; the
\* loop keeps the last one.
Returns(p, stat) ==
    ses' = [ses EXCEPT ![p].pc = "loop", ![p].left = @ - 1, ![p].status = stat]

\* Mutant: the status of the last request is not looked at.
FinishUnchecked(p) ==
    /\ ses[p].pc = "loop" /\ ses[p].left <= 0
    /\ ses' = [ses EXCEPT ![p].pc = "done", ![p].result =
                  IF ses[p].prog = "sleep" THEN @ ELSE mem[ses[p].buf[2]]]
    /\ UNCHANGED <<jobs, taken, mem, file>>

\* Mutant: the loop counts down to exactly 0.
FinishAtZero(p) ==
    /\ ses[p].pc = "loop" /\ ses[p].left = 0
    /\ ses' = [ses EXCEPT ![p].pc = IF ses[p].status = CS_SUCCESS THEN "done" ELSE "quit"]
    /\ UNCHANGED <<jobs, taken, mem, file>>

\* After the loop: the status is checked and the result read from memory.
Finish(p) ==
    /\ ses[p].pc = "loop" /\ ses[p].left <= 0
    /\ \/ ses[p].status # CS_SUCCESS /\ Go(p, "quit")
       \/ /\ ses[p].status = CS_SUCCESS
          /\ ses' = [ses EXCEPT ![p].pc = "done", ![p].result =
                        IF ses[p].prog = "sleep" THEN @ ELSE mem[ses[p].buf[2]]]
    /\ UNCHANGED <<jobs, taken, mem, file>>

-----------------------------------------------------------------------------
(* The drive and the driver's timeout                                      *)

Execute(j) ==
    /\ jobs' = jobs \ {j}
    /\ mem' = IF j.res = 0 THEN mem ELSE [mem EXCEPT ![j.res] = Checksum(Words(j.data, j.len))]
    /\ IF j.live THEN Returns(j.p, CS_SUCCESS) ELSE UNCHANGED ses
    /\ UNCHANGED <<taken, file>>

Reject(j) ==
    /\ Fails("device") /\ jobs' = jobs \ {j}
    /\ IF j.live THEN Returns(j.p, NVME_SC_INTERNAL) ELSE UNCHANGED ses
    /\ UNCHANGED <<taken, mem, file>>

\* The host gives up after an hour; the drive still has the request.
Timeout(j) ==
    /\ Fails("timeout") /\ j.live
    /\ jobs' = (jobs \ {j}) \cup {[j EXCEPT !.live = FALSE]}
    /\ Returns(j.p, TIMED_OUT)
    /\ UNCHANGED <<taken, mem, file>>

EditFile ==
    /\ Fails("edit") /\ file' \in Files
    /\ UNCHANGED <<ses, jobs, taken, mem>>

-----------------------------------------------------------------------------
Session(p) == \/ csGetCSxFromPath(p) \/ csOpenCSx(p) \/ csQueryDeviceProperties(p)
              \/ csQueryDeviceCapabilities(p) \/ csGetFunction(p) \/ FileSize(p)
              \/ csAllocMem(p) \/ ReadFile(p) \/ csQueueComputeRequest(p) \/ Finish(p)

Drive(p) == \E j \in jobs : j.p = p /\ (Execute(j) \/ Reject(j) \/ Timeout(j))

Next == (\E p \in Proc : Start(p) \/ Session(p) \/ Drive(p)) \/ EditFile

SafeSpec == Init /\ [][Next]_vars

\* A process runs, and each of its requests is answered or times out.
Spec == SafeSpec /\ \A p \in Proc : WF_vars(Session(p)) /\
                                    WF_vars(\E j \in jobs : j.p = p /\ j.live /\
                                                (Execute(j) \/ Reject(j) \/ Timeout(j)))

-----------------------------------------------------------------------------
(* Safety                                                                  *)

Running(p)   == ses[p].pc \notin {"stopped", "done", "quit"}
Held(p)      == UNION {PagesOf(ses[p].buf[i], ses[p].mapped[i]) : i \in DOMAIN ses[p].buf}
Written(j)   == IF j.res = 0 THEN {} ELSE PagesOf(j.res, 1)

\* Device memory is held by one process at a time, the two arrays of a process
\* do not overlap, and a request that outlives its process, because the host
\* has timed out, writes nothing that another process or a later run holds.
ExclusiveMemory ==
    \A p \in Proc : Running(p) =>
        /\ Held(p) \subseteq taken
        /\ Len(ses[p].buf) = 2 =>
                PagesOf(ses[p].buf[1], ses[p].mapped[1])
                    \cap PagesOf(ses[p].buf[2], ses[p].mapped[2]) = {}
        /\ \A q \in Proc \ {p} : Running(q) => Held(p) \cap Held(q) = {}
        /\ \A j \in jobs : Written(j) \cap Held(p) # {} =>
                j.p = p /\ Len(ses[p].buf) = 2 /\ j.res = ses[p].buf[2]

\* checksum.c:148, 217: the checksum that is printed is that of the file, if
\* at least one iteration is asked for and the file does not change, whatever
\* other processes and requests that have timed out do to the drive meanwhile.
PrintsFileChecksum ==
    \A p \in Proc : ses[p].pc = "done" /\ ses[p].prog = "checksum" =>
        ses[p].result = Checksum(file)

\* checksum.c:158 "array 0 of file size, aligned on 4k": the mapping that
\* pread() fills is not smaller than the size it is given, for a file that
\* changes at any time and is smaller than the 2^32 bytes an int wraps at.
ReadFitsMapping ==
    \A p \in Proc : ses[p].pc = "read" /\ ses[p].size <= INT_MOD - PAGE
        => ses[p].size <= ses[p].mapped[1]

-----------------------------------------------------------------------------
\* Every run ends, with a result or with an error, whatever the drive answers.
EveryRunEnds == \A p \in Proc : ses[p].pc = "path" ~> ses[p].pc \in {"done", "quit"}
=============================================================================
