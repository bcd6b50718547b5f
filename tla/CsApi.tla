------------------------------- MODULE CsApi -------------------------------
(***************************************************************************)
(* host/snia_cs_api/cs_api_nvme_tsp.c under any caller: the threads of one *)
(* process call the functions of the API in any order, with the arguments  *)
(* cs.h allows.  They share the file descriptors of the process and the    *)
(* memory of the drives.  (ComputeSession has the calls as the demos make  *)
(* them, in several processes.)                                            *)
(*                                                                         *)
(* A call takes a step for each descriptor it opens, for what it does with *)
(* it until it is closed, and for each command that changes a drive.       *)
(***************************************************************************)
EXTENDS Integers, FiniteSets

CONSTANTS
    Thread,      \* the threads of the process
    Drive,       \* the drives with compute
    Other,       \* what else nvme_open() opens: "disk", "file"
    Page,        \* the device memory of the drives, one page an allocation
    Fd,          \* the file descriptors the process may have
    DEV_HANDLE,  \* __CS_PLACE_HOLDER_DEV_HANDLE
    CSE_HANDLE,  \* __CS_PLACE_HOLDER_CSE_HANDLE
    NumCSEs,     \* what a drive may report
    Lengths,     \* the lengths of buffers that callers pass
    ArgCounts,   \* the numbers of arguments of a request
    Faults       \* "open": no permission; "io": fstat(), a command; "map": mmap()

ASSUME ApiAssumption ==
    /\ Fd \subseteq Nat /\ DEV_HANDLE \in Nat /\ CSE_HANDLE \in Nat
    /\ NumCSEs \subseteq Nat /\ Lengths \subseteq Nat /\ ArgCounts \subseteq Nat
    /\ Faults \subseteq {"open", "io", "map"}
    /\ Other \subseteq {"disk", "file"}
    /\ Drive \cap {"free", "disk", "file", "none", "mem"} = {}

VARIABLES
    fds,     \* what is behind each file descriptor
    handles, \* the descriptors that callers were given by csOpenCSx
    cse,     \* whether a caller was given a handle by csOpenCSE
    taken,   \* the pages the drives have given out
    known,   \* the pages callers were given a CS_MEM_HANDLE of
    lost,    \* the pages given out by commands that failed on the host
    call,    \* the call each thread is in
    ret      \* what the last call to return has returned

process == <<fds, handles, cse>>
memory  == <<taken, known, lost>>
vars    == <<process, memory, call, ret>>

-----------------------------------------------------------------------------
(* cs.h: the packed structures, in bytes.                                  *)

CSEProperties    == 2 + 2 + 32 + 2 + 4 + 4 + 4
CSxProperties    == 2 + 2 + 2 + 2 + 32 + 4 + 4 + 8 + 2 + CSEProperties
CsComputeArg     == 4 + 16
CsComputeRequest == 4 + 4 + 4 + CsComputeArg
CsCapabilities   == 8
CS_FUNCTION_ID   == 4
POINTER          == 8

BUFFER   == 4096                     \* of every command
NAME     == 6                        \* "nvme0" and its end
CSE_NAME == 14                       \* __CS_PLACE_HOLDER_CSE_NAME and its end

\* Mutant: the argument that the structure holds is counted twice.
RequestSizeOneMore(n) == CsComputeRequest + n * CsComputeArg

\* get_request_size(): the structure holds one argument.
RequestSize(n) ==
    IF n = 0 THEN CsComputeRequest ELSE CsComputeRequest + (n - 1) * CsComputeArg

\* Mutant: the size of the structure, whatever the number of CSEs.
PropertiesSizeOfOne(n) == CSxProperties

\* tsp_nvme_get_properties(): the structure holds one CSE, a command 4k.
PropertiesSize(n) ==
    LET full == CSxProperties + CSEProperties * (n - 1) IN
    IF n <= 1 THEN CSxProperties ELSE IF full > BUFFER THEN BUFFER ELSE full

\* Where printCSxProperties() ends reading, for n CSEs.
PrintedSize(n) == CSxProperties - CSEProperties + CSEProperties * n

-----------------------------------------------------------------------------
(* A call: its arguments are chosen as it begins, those it does not look   *)
(* at again are forgotten.  `null' stands for a pointer that is NULL.      *)

Name   == Drive \cup Other \cup {"none"}
Handle == handles \cup {-1, DEV_HANDLE} \cup (IF cse THEN {CSE_HANDLE} ELSE {})

Idle     == [step |-> "idle"]
Identify == [step : {"identify"}, fd : Fd]
Allocate == [step : {"allocate"}, drive : Drive \cup {"none"}, map : BOOLEAN]
Answered == [step : {"answered"}, page : Page, map : BOOLEAN]
Mapping  == [step : {"map"}, fd : Fd]
Request  == [step : {"request"}, h : Int, of : Fd, args : ArgCounts, size : Nat]

\* fn: the function, if the call was more than refused; room: what the caller's
\* buffer holds; wrote: what the function has written; told: the number of CSEs
\* in the properties; by: the drive that has executed a request; of: the drive
\* the caller meant by its CSE.
NoResult == [fn |-> "none", status |-> "none", room |-> 0, wrote |-> 0, told |-> 0,
             by |-> "none", of |-> "none"]

TypeOK ==
    /\ fds \in [Fd -> Drive \cup {"free", "disk", "file", "mem"}]
    /\ handles \subseteq Fd /\ cse \in BOOLEAN
    /\ taken \subseteq Page /\ known \subseteq taken /\ lost \subseteq taken
    /\ call \in [Thread -> {Idle} \cup Identify \cup Allocate \cup Answered
                                \cup Mapping \cup Request]
    /\ ret.room \in Nat /\ ret.wrote \in Nat

Init ==
    /\ fds = [d \in Fd |-> "free"] /\ handles = {} /\ cse = FALSE
    /\ taken = {} /\ known = {} /\ lost = {}
    /\ call = [t \in Thread |-> Idle] /\ ret = NoResult

Begins(t)      == call[t] = Idle
At(t, step)    == call[t].step = step
Goes(t, state) == call' = [call EXCEPT ![t] = state] /\ UNCHANGED ret
Ends(t)        == call' = [call EXCEPT ![t] = Idle]
Fails(fault)   == fault \in Faults

Return(t, stat) == Ends(t) /\ ret' = [NoResult EXCEPT !.status = stat]
Success(t, fn, room, n) ==
    /\ Ends(t)
    /\ ret' = [NoResult EXCEPT !.fn = fn, !.status = "CS_SUCCESS", !.room = room, !.wrote = n]

\* open() takes the lowest free descriptor.
Opens(d, what) == /\ fds[d] = "free" /\ \A e \in Fd : fds[e] = "free" => d <= e
                  /\ fds' = [fds EXCEPT ![d] = what]
NoFd           == \A d \in Fd : fds[d] # "free"
Close(d)       == fds' = [fds EXCEPT ![d] = "free"]

\* The drive that a command on a handle reaches, if any.
Behind(h)      == IF h \in Fd /\ fds[h] \in Drive THEN fds[h] ELSE "none"
Answers(h)     == Behind(h) # "none"
NoAnswer(h)    == ~Answers(h) \/ Fails("io")

-----------------------------------------------------------------------------
(* Discovery and access                                                    *)

NvmeFails(name) == name = "none" \/ NoFd \/ Fails("open")

csGetCSxFromPath(t) ==
    /\ Begins(t)
    /\ \/ Return(t, "CS_INVALID_ARG") /\ UNCHANGED fds
       \/ \E name \in Name : NvmeFails(name)
             /\ Return(t, "CS_NO_SUCH_ENTITY_EXISTS") /\ UNCHANGED fds
       \/ \E name \in Name \ {"none"}, d \in Fd :
             Opens(d, name) /\ Goes(t, [step |-> "identify", fd |-> d])
    /\ UNCHANGED <<handles, cse, memory>>

\* The rest of csGetCSxFromPath: fstat(), tsp_nvme_device_has_cs(), the name.
DeviceName(t, fd) ==
    \/ (fds[fd] = "file" \/ Fails("io")) /\ Return(t, "CS_ENXIO")
    \/ /\ fds[fd] # "file" /\ NoAnswer(fd)
       /\ Return(t, "CS_ENTITY_NOT_ON_DEVICE")
    \/ /\ Answers(fd)
       /\ \E len \in Lengths :
            IF len < NAME THEN Return(t, "CS_INVALID_LENGTH")
                          ELSE Success(t, "csGetCSxFromPath", len, NAME)

\* Mutant: a name that does not fit leaves the descriptor open.
CheckDeviceLeaks(t) ==
    /\ At(t, "identify") /\ DeviceName(t, call[t].fd)
    /\ IF ret'.status = "CS_INVALID_LENGTH" THEN UNCHANGED fds ELSE Close(call[t].fd)
    /\ UNCHANGED <<handles, cse, memory>>

CheckDevice(t) ==
    /\ At(t, "identify") /\ DeviceName(t, call[t].fd)
    /\ Close(call[t].fd)
    /\ UNCHANGED <<handles, cse, memory>>

csOpenCSx(t) ==
    /\ Begins(t)
    /\ \/ Return(t, "CS_INVALID_ARG") /\ UNCHANGED <<fds, handles>>
       \/ \E name \in Name : NvmeFails(name)
             /\ Return(t, "CS_NO_SUCH_ENTITY_EXISTS") /\ UNCHANGED <<fds, handles>>
       \/ \E name \in Name \ {"none"}, d \in Fd :
             Opens(d, name) /\ handles' = handles \cup {d} /\ Return(t, "CS_SUCCESS")
    /\ UNCHANGED <<cse, memory>>

csGetCSEFromCSx(t) ==
    /\ Begins(t)
    /\ \/ Return(t, "CS_INVALID_ARG")
       \/ \E h \in Handle, len \in Lengths : h >= 0
             /\ IF len < CSE_NAME THEN Return(t, "CS_INVALID_LENGTH")
                                  ELSE Success(t, "csGetCSEFromCSx", len, CSE_NAME)
    /\ UNCHANGED <<process, memory>>

\* The handle is __CS_PLACE_HOLDER_CSE_HANDLE.
csOpenCSE(t) ==
    /\ Begins(t)
    /\ \/ Return(t, "CS_ENTITY_NOT_ON_DEVICE") /\ UNCHANGED cse
       \/ Return(t, "CS_SUCCESS") /\ cse' = TRUE
    /\ UNCHANGED <<fds, handles, memory>>

-----------------------------------------------------------------------------
(* Memory                                                                  *)

\* Bytes out of 1..4096*1024 and a NULL MemHandle get no further.
csAllocMem(t) ==
    /\ Begins(t)
    /\ \/ \E stat \in {"CS_INVALID_ARG", "CS_NOT_ENOUGH_MEMORY"} : Return(t, stat)
       \/ \E h \in Handle, map \in BOOLEAN :
             Goes(t, [step |-> "allocate", drive |-> Behind(h), map |-> map])
    /\ UNCHANGED <<process, memory>>

\* The ALLOCATE command, which can fail behind the drive's allocator.
tsp_allocate_memory(t) ==
    LET drive == call[t].drive IN
    /\ At(t, "allocate")
    /\ \/ /\ drive = "none" \/ Fails("io")
          /\ Return(t, "CS_DEVICE_NOT_AVAILABLE") /\ UNCHANGED <<taken, lost>>
       \/ /\ drive # "none" /\ taken = Page
          /\ Return(t, "CS_NOT_ENOUGH_MEMORY") /\ UNCHANGED <<taken, lost>>
       \/ \E p \in Page \ taken :
            /\ drive # "none" /\ taken' = taken \cup {p}
            /\ \/ /\ Goes(t, [step |-> "answered", page |-> p, map |-> call[t].map])
                  /\ UNCHANGED lost
               \/ /\ Fails("io") /\ Return(t, "CS_DEVICE_NOT_AVAILABLE")
                  /\ lost' = lost \cup {p}
    /\ UNCHANGED <<process, known>>

\* Mutant: the descriptor of /dev/mem is not tested.
MapMemoryUntested(t) ==
    \/ ~call[t].map /\ Return(t, "CS_SUCCESS") /\ UNCHANGED fds
    \/ /\ call[t].map /\ (NoFd \/ Fails("map"))
       /\ Goes(t, [step |-> "map", fd |-> -1]) /\ UNCHANGED fds
    \/ call[t].map /\ \E d \in Fd : Opens(d, "mem") /\ Goes(t, [step |-> "map", fd |-> d])

\* /dev/mem is opened if the caller wants a mapping.
MapMemory(t) ==
    \/ ~call[t].map /\ Return(t, "CS_SUCCESS") /\ UNCHANGED fds
    \/ /\ call[t].map /\ (NoFd \/ Fails("map"))
       /\ Return(t, "CS_COULD_NOT_MAP_MEMORY") /\ UNCHANGED fds
    \/ call[t].map /\ \E d \in Fd : Opens(d, "mem") /\ Goes(t, [step |-> "map", fd |-> d])

\* Mutant: *MemHandle is stored once nothing can fail any more.
AllocatedLate(t) ==
    /\ At(t, "answered") /\ MapMemory(t)
    /\ known' = known \cup
          (IF ret'.status = "CS_COULD_NOT_MAP_MEMORY" THEN {} ELSE {call[t].page})
    /\ UNCHANGED <<handles, cse, taken, lost>>

\* *MemHandle is stored before anything else.
Allocated(t) ==
    /\ At(t, "answered") /\ MapMemory(t)
    /\ known' = known \cup {call[t].page}
    /\ UNCHANGED <<handles, cse, taken, lost>>

\* mmap(); the descriptor is closed whether it fails or not.
Map(t) ==
    /\ At(t, "map") /\ Close(call[t].fd)
    /\ \/ Fails("map") /\ Return(t, "CS_COULD_NOT_MAP_MEMORY")
       \/ Return(t, "CS_SUCCESS")
    /\ UNCHANGED <<handles, cse, memory>>

csFreeMem(t) ==
    /\ Begins(t) /\ known # {} /\ Return(t, "CS_SUCCESS")
    /\ UNCHANGED <<process, memory>>

-----------------------------------------------------------------------------
(* Functions and requests                                                  *)

\* tsp_nvme_get_function_id() copies sizeof(fid), which is that of a pointer.
csGetFunction(t) ==
    /\ Begins(t)
    /\ \/ \E stat \in {"CS_INVALID_ARG", "CS_INVALID_OPTION"} : Return(t, stat)
       \/ \E h \in Handle :
            \/ NoAnswer(h) /\ Return(t, "CS_DEVICE_NOT_AVAILABLE")
            \/ Answers(h) /\ Success(t, "csGetFunction", CS_FUNCTION_ID, POINTER)
    /\ UNCHANGED <<process, memory>>

\* The request is copied into the buffer of a command.
csQueueComputeRequest(t) ==
    /\ Begins(t)
    /\ \/ Return(t, "CS_INVALID_ARG")
       \/ \E h \in Handle, of \in handles, n \in ArgCounts :
            /\ h = of \/ (h = CSE_HANDLE /\ cse)
            /\ Goes(t, [step |-> "request", h |-> h, of |-> of, args |-> n,
                        size |-> RequestSize(n)])
    /\ UNCHANGED <<process, memory>>

Executed(t, stat, by) ==
    /\ Ends(t)
    /\ ret' = [NoResult EXCEPT !.fn = "csQueueComputeRequest", !.status = stat, !.by = by,
                               !.of = Behind(call[t].of)]

\* The command goes to whatever is behind CSEHandle.  It is synchronous, also
\* for a caller that passes a callback, which is never called; its NVMe status, or -1, is returned,
\* and a drive may have executed what the host sees fail.
tsp_compute_operation(t) ==
    /\ At(t, "request")
    /\ \/ NoAnswer(call[t].h) /\ Executed(t, "failed", "none")
       \/ Answers(call[t].h) /\ Executed(t, "CS_SUCCESS", Behind(call[t].h))
       \/ Answers(call[t].h) /\ Fails("io") /\ Executed(t, "failed", Behind(call[t].h))
    /\ UNCHANGED <<process, memory>>

-----------------------------------------------------------------------------
(* Device management                                                       *)

\* Only the placeholder is a valid handle; nothing is filled in.
csQueryDeviceForComputeList(t) ==
    /\ Begins(t)
    /\ \E h \in Handle, stat \in {"CS_INVALID_HANDLE", "CS_INVALID_ARG", "CS_SUCCESS"} :
        /\ stat = "CS_INVALID_HANDLE" <=> h # DEV_HANDLE
        /\ Return(t, stat)
    /\ UNCHANGED <<process, memory>>

Properties(t, stat, len, n, size) ==
    /\ Ends(t)
    /\ ret' = [NoResult EXCEPT !.fn = "csQueryDeviceProperties", !.status = stat,
                               !.room = len, !.told = n, !.wrote = size]

\* Mutant: the length is not compared with what the CSEs need.
tsp_nvme_get_properties_unchecked(t, len, n) ==
    Properties(t, "CS_SUCCESS", len, n, PropertiesSize(n))

\* A buffer too short for every CSE gets the structure, and an error.
tsp_nvme_get_properties(t, len, n) ==
    IF len < PropertiesSize(n)
      THEN Properties(t, "CS_INVALID_LENGTH", len, n, CSxProperties)
      ELSE Properties(t, "CS_SUCCESS", len, n, PropertiesSize(n))

csQueryDeviceProperties(t) ==
    /\ Begins(t)
    /\ \E h \in Handle, len \in Lengths :
        \/ h < 0 /\ Return(t, "CS_INVALID_HANDLE")
        \/ h >= 0 /\ NoAnswer(h) /\ Return(t, "CS_DEVICE_NOT_AVAILABLE")
        \/ Answers(h) /\ Return(t, "CS_INVALID_ARG")
        \/ Answers(h) /\ len < CSxProperties /\ Return(t, "CS_INVALID_LENGTH")
        \/ /\ Answers(h) /\ len >= CSxProperties
           /\ \E n \in NumCSEs : tsp_nvme_get_properties(t, len, n)
    /\ UNCHANGED <<process, memory>>

csQueryDeviceCapabilities(t) ==
    /\ Begins(t)
    /\ \E h \in Handle :
        \/ h < 0 /\ Return(t, "CS_INVALID_HANDLE")
        \/ h >= 0 /\ Return(t, "CS_INVALID_ARG")
        \/ h >= 0 /\ NoAnswer(h) /\ Return(t, "CS_DEVICE_NOT_AVAILABLE")
        \/ Answers(h) /\ Success(t, "csQueryDeviceCapabilities", CsCapabilities, CsCapabilities)
    /\ UNCHANGED <<process, memory>>

-----------------------------------------------------------------------------
Call(t) ==
    \/ csGetCSxFromPath(t) \/ CheckDevice(t) \/ csOpenCSx(t)
    \/ csGetCSEFromCSx(t) \/ csOpenCSE(t)
    \/ csAllocMem(t) \/ tsp_allocate_memory(t) \/ Allocated(t) \/ Map(t) \/ csFreeMem(t)
    \/ csGetFunction(t) \/ csQueueComputeRequest(t) \/ tsp_compute_operation(t)
    \/ csQueryDeviceForComputeList(t) \/ csQueryDeviceProperties(t)
    \/ csQueryDeviceCapabilities(t)

Next == \E t \in Thread : Call(t)
Spec == Init /\ [][Next]_vars

-----------------------------------------------------------------------------
Uses(t)  == IF call[t].step \in {"identify", "map"} THEN {call[t].fd} ELSE {}
Holds(t) == IF At(t, "answered") THEN {call[t].page} ELSE {}

\* Every descriptor that the API has opened is a handle a caller was given or
\* in use by one call, whatever fails and however calls are interleaved: no
\* path leaves one open, and none closes a handle or what another call uses.
DescriptorsBalanced ==
    /\ {d \in Fd : fds[d] # "free"} = handles \cup UNION {Uses(t) : t \in Thread}
    /\ \A t \in Thread : Uses(t) \cap handles = {}
    /\ \A t, u \in Thread : t # u => Uses(t) \cap Uses(u) = {}

\* Memory that a drive has given out can be found by the caller of csAllocMem,
\* also by one that is told that it could not be mapped; only what was given
\* out by a command that fails on the host is lost.
MemoryTraceable == taken = known \cup lost \cup UNION {Holds(t) : t \in Thread}

\* No function writes more to a caller's buffer than the caller has said it
\* holds, or its type does; csGetFunction alone writes four bytes too many.
OutputFits ==
    ret.wrote <= ret.room + (IF ret.fn = "csGetFunction" THEN POINTER - CS_FUNCTION_ID ELSE 0)

\* A caller that goes through the CSEs it is told of, as printCSxProperties()
\* does, reads only what the call has written.  It is told of more than it is
\* given if the drive has more than a command of 4k holds.
PrintsWhatWasWritten ==
    ret.fn = "csQueryDeviceProperties" /\ ret.status = "CS_SUCCESS"
    /\ PrintedSize(ret.told) <= BUFFER => PrintedSize(ret.told) <= ret.wrote

\* cs.h:288-296: a request is a structure with its arguments behind it.  No
\* more and no less than that is copied, and up to 204 arguments it fits the
\* buffer of a command.
RequestFits ==
    \A t \in Thread : At(t, "request") =>
        /\ call[t].size = CsComputeRequest - CsComputeArg
                            + CsComputeArg * (IF call[t].args = 0 THEN 1 ELSE call[t].args)
        /\ call[t].args <= 204 => call[t].size <= BUFFER

\* cs.h:499 "Return a handle to the CSE associated with the specified device
\* name": what the CSE of a drive is asked for, that drive executes.
CSEOfDevice ==
    ret.fn = "csQueueComputeRequest" /\ ret.status = "CS_SUCCESS" /\ ret.of # "none"
        => ret.by = ret.of
=============================================================================
