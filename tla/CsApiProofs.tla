----------------------------- MODULE CsApiProofs -----------------------------
(***************************************************************************)
(* What CsApi promises, for any number of threads, drives, descriptors and *)
(* pages, any lengths and counts, and all the faults.                      *)
(***************************************************************************)
EXTENDS CsApi, TLAPS

Calls == {Idle} \cup Identify \cup Allocate \cup Answered \cup Mapping \cup Request

\* What a function has returned, and what it has written to get there.
RetOK == ret.room \in Nat /\ ret.wrote \in Nat
         /\ OutputFits /\ PrintsWhatWasWritten

\* The types of everything but the result, and what is shared.
ProcessOK == /\ fds \in [Fd -> Drive \cup {"free", "disk", "file", "mem"}]
             /\ handles \subseteq Fd /\ cse \in BOOLEAN /\ DescriptorsBalanced
MemoryOK  == /\ taken \subseteq Page /\ known \subseteq taken /\ lost \subseteq taken
             /\ MemoryTraceable
CallOK    == call \in [Thread -> Calls] /\ RequestFits

Inv == RetOK /\ ProcessOK /\ MemoryOK /\ CallOK

-----------------------------------------------------------------------------
(* Results *)

\* A call that returns only a status, one that returns a buffer, properties or
\* the status of a request.
LEMMA ReturnRet == ASSUME NEW t, NEW stat, Return(t, stat) PROVE RetOK'
  BY DEF Return, NoResult, RetOK, OutputFits, PrintsWhatWasWritten

LEMMA SuccessRet ==
    ASSUME NEW t, NEW fn, NEW room \in Nat, NEW n \in Nat, Success(t, fn, room, n),
           fn \notin {"csQueryDeviceProperties", "csQueueComputeRequest"},
           n <= room \/ (fn = "csGetFunction" /\ n <= room + POINTER - CS_FUNCTION_ID)
    PROVE  RetOK'
  BY DEF Success, NoResult, RetOK, OutputFits, PrintsWhatWasWritten,
         POINTER, CS_FUNCTION_ID

LEMMA GoesRet == ASSUME RetOK, NEW t, NEW state, Goes(t, state) PROVE RetOK'
  BY DEF Goes, RetOK, OutputFits, PrintsWhatWasWritten

LEMMA PropertiesRet ==
    ASSUME NEW t, NEW len \in Nat, NEW n \in Nat, len >= CSxProperties,
           tsp_nvme_get_properties(t, len, n)
    PROVE  RetOK'
  <1>1. PropertiesSize(n) \in Nat /\ CSxProperties \in Nat
    BY DEF PropertiesSize, CSxProperties, CSEProperties, BUFFER
  <1>2. PrintedSize(n) <= BUFFER => PrintedSize(n) <= PropertiesSize(n)
    BY DEF PropertiesSize, PrintedSize, CSxProperties, CSEProperties, BUFFER
  <1>3. \E stat, size : /\ Properties(t, stat, len, n, size) /\ size \in Nat /\ size <= len
                        /\ stat = "CS_SUCCESS" => size = PropertiesSize(n)
    <2>1. CASE len < PropertiesSize(n)
      <3>1. Properties(t, "CS_INVALID_LENGTH", len, n, CSxProperties)
        BY <2>1 DEF tsp_nvme_get_properties
      <3>2. QED
        BY <1>1, <3>1
    <2>2. CASE ~(len < PropertiesSize(n))
      BY <1>1, <2>2 DEF tsp_nvme_get_properties
    <2>3. QED
      BY <2>1, <2>2
  <1>4. PICK stat, size : /\ Properties(t, stat, len, n, size) /\ size \in Nat /\ size <= len
                          /\ stat = "CS_SUCCESS" => size = PropertiesSize(n)
    BY <1>3
  <1>5. /\ ret'.fn = "csQueryDeviceProperties" /\ ret'.status = stat /\ ret'.room = len
        /\ ret'.told = n /\ ret'.wrote = size
    BY <1>4 DEF Properties, NoResult
  <1>6. QED
    BY <1>2, <1>4, <1>5 DEF RetOK, OutputFits, PrintsWhatWasWritten

LEMMA ExecutedRet ==
    ASSUME NEW t, NEW stat, NEW by, Executed(t, stat, by) PROVE RetOK'
  BY DEF Executed, NoResult, RetOK, OutputFits, PrintsWhatWasWritten

-----------------------------------------------------------------------------
(* What is shared *)

\* A call that is not using a descriptor, nor holding memory, may take steps
\* that leave both alone without being noticed.
Aside(c) == c \in Calls /\ c.step \notin {"identify", "map", "answered"}

LEMMA AsideStep ==
    ASSUME Inv, NEW t \in Thread, NEW c, Aside(call[t]), Aside(c),
           call' = [call EXCEPT ![t] = c], UNCHANGED memory
    PROVE  /\ UNCHANGED <<fds, handles, cse>> => ProcessOK'
           /\ MemoryOK' /\ call' \in [Thread -> Calls]
           /\ \A u \in Thread : Uses(u)' = Uses(u)
  <1>1. \A u \in Thread : call'[u] = IF u = t THEN c ELSE call[u]
    BY DEF Inv, CallOK
  <1>2. \A u \in Thread : Uses(u)' = Uses(u) /\ Holds(u)' = Holds(u)
    BY <1>1 DEF Aside, Uses, Holds, At
  <1>3. UNCHANGED <<fds, handles, cse>> => ProcessOK'
    BY <1>2 DEF Inv, ProcessOK, DescriptorsBalanced
  <1>4. MemoryOK'
    BY <1>2 DEF Inv, MemoryOK, MemoryTraceable, memory
  <1>5. call' \in [Thread -> Calls]
    BY DEF Inv, CallOK, Aside
  <1>6. QED
    BY <1>2, <1>3, <1>4, <1>5

\* No other call has what a call has for itself.
LEMMA RequestsKept ==
    ASSUME Inv, NEW t \in Thread, NEW c, c.step # "request", call' = [call EXCEPT ![t] = c]
    PROVE  RequestFits'
  BY DEF Inv, CallOK, RequestFits, At

LEMMA IdleAside == Aside(Idle)
  BY DEF Aside, Calls, Idle

\* A call that begins and returns, and leaves what is shared alone.
LEMMA AtOnce ==
    ASSUME Inv, NEW t \in Thread, Begins(t), Ends(t), UNCHANGED <<process, memory>>, RetOK'
    PROVE  Inv'
  <1>1. /\ Aside(call[t]) /\ call' = [call EXCEPT ![t] = Idle]
        /\ UNCHANGED memory /\ UNCHANGED <<fds, handles, cse>>
    BY IdleAside DEF Begins, Ends, process
  <1>2. ProcessOK' /\ MemoryOK' /\ call' \in [Thread -> Calls]
    BY <1>1, IdleAside, AsideStep
  <1>3. RequestFits'
    BY <1>1, RequestsKept DEF Idle
  <1>4. QED
    BY <1>2, <1>3 DEF Inv, CallOK

-----------------------------------------------------------------------------
(* The functions *)

\* Functions that open nothing and change nothing that is shared.
LEMMA QuietSteps ==
    ASSUME Inv, NEW t \in Thread,
           \/ csGetCSEFromCSx(t) \/ csFreeMem(t) \/ csGetFunction(t)
           \/ csQueryDeviceForComputeList(t) \/ csQueryDeviceProperties(t)
           \/ csQueryDeviceCapabilities(t)
    PROVE  Inv'
  <1>1. Begins(t) /\ UNCHANGED <<process, memory>>
    BY DEF csGetCSEFromCSx, csFreeMem, csGetFunction, csQueryDeviceForComputeList,
       csQueryDeviceProperties, csQueryDeviceCapabilities
  <1>2. Ends(t)
    BY DEF csGetCSEFromCSx, csFreeMem, csGetFunction, csQueryDeviceForComputeList,
       csQueryDeviceProperties, csQueryDeviceCapabilities, Return, Success,
       tsp_nvme_get_properties, Properties
  <1>3. ASSUME csGetCSEFromCSx(t) PROVE RetOK'
    <2>1. \/ \E stat : Return(t, stat)
          \/ \E len \in Lengths : /\ ~(len < CSE_NAME)
                                  /\ Success(t, "csGetCSEFromCSx", len, CSE_NAME)
      BY <1>3 DEF csGetCSEFromCSx
    <2>2. Lengths \subseteq Nat /\ CSE_NAME \in Nat
      BY ApiAssumption DEF CSE_NAME
    <2>3. QED
      BY <2>1, <2>2, ReturnRet, SuccessRet
  <1>4. ASSUME csGetFunction(t) PROVE RetOK'
    BY <1>4, ReturnRet, SuccessRet DEF csGetFunction, CS_FUNCTION_ID, POINTER
  <1>5. ASSUME csQueryDeviceProperties(t) PROVE RetOK'
    <2>1. \/ \E stat : Return(t, stat)
          \/ \E len \in Lengths, n \in NumCSEs :
                len >= CSxProperties /\ tsp_nvme_get_properties(t, len, n)
      BY <1>5, Zenon DEF csQueryDeviceProperties
    <2>2. Lengths \subseteq Nat /\ NumCSEs \subseteq Nat
      BY ApiAssumption
    <2>3. QED
      BY <2>1, <2>2, ReturnRet, PropertiesRet
  <1>6. ASSUME csQueryDeviceCapabilities(t) PROVE RetOK'
    BY <1>6, ReturnRet, SuccessRet DEF csQueryDeviceCapabilities, CsCapabilities
  <1>7. ASSUME csFreeMem(t) \/ csQueryDeviceForComputeList(t) PROVE RetOK'
    BY <1>7, ReturnRet DEF csFreeMem, csQueryDeviceForComputeList
  <1>8. QED
    BY <1>1, <1>2, <1>3, <1>4, <1>5, <1>6, <1>7, AtOnce

\* csOpenCSE remembers only that there is a handle.
LEMMA OpenCSEStep == ASSUME Inv, NEW t \in Thread, csOpenCSE(t) PROVE Inv'
  <1>1. /\ Aside(call[t]) /\ call' = [call EXCEPT ![t] = Idle] /\ cse' \in BOOLEAN
        /\ UNCHANGED <<fds, handles>> /\ UNCHANGED memory
    BY IdleAside DEF csOpenCSE, Begins, Return, Ends, Inv, ProcessOK
  <1>2. /\ MemoryOK' /\ call' \in [Thread -> Calls] /\ \A u \in Thread : Uses(u)' = Uses(u)
    BY <1>1, IdleAside, AsideStep
  <1>3. ProcessOK'
    BY <1>1, <1>2 DEF Inv, ProcessOK, DescriptorsBalanced
  <1>4. RequestFits'
    BY <1>1, RequestsKept DEF Idle
  <1>5. RetOK'
    BY ReturnRet DEF csOpenCSE
  <1>6. QED
    BY <1>2, <1>3, <1>4, <1>5 DEF Inv, CallOK

\* A request is made up, and then executed.
LEMMA QueueStep == ASSUME Inv, NEW t \in Thread, csQueueComputeRequest(t) PROVE Inv'
  <1>1. CASE Return(t, "CS_INVALID_ARG")
    BY <1>1, ReturnRet, AtOnce DEF csQueueComputeRequest, Return
  <1>2. ASSUME NEW h \in Handle, NEW of \in handles, NEW n \in ArgCounts,
               Goes(t, [step |-> "request", h |-> h, of |-> of, args |-> n,
                        size |-> RequestSize(n)])
        PROVE  Inv'
    <2> DEFINE c == [step |-> "request", h |-> h, of |-> of, args |-> n,
                     size |-> RequestSize(n)]
    <2>1. /\ n \in Nat /\ h \in Int /\ of \in Fd
      <3>1. handles \subseteq Fd
        BY DEF Inv, ProcessOK
      <3>2. QED
        BY <3>1, ApiAssumption DEF Handle
    <2>2. /\ RequestSize(n) \in Nat
          /\ RequestSize(n) = CsComputeRequest - CsComputeArg
                                + CsComputeArg * (IF n = 0 THEN 1 ELSE n)
          /\ n <= 204 => RequestSize(n) <= BUFFER
      BY <2>1 DEF RequestSize, CsComputeRequest, CsComputeArg, BUFFER
    <2>3. c \in Request
      BY <2>1, <2>2 DEF Request
    <2>4. /\ c.step = "request" /\ c.args = n /\ c.size = RequestSize(n)
      OBVIOUS
    <2>5. call' = [call EXCEPT ![t] = c]
      BY <1>2 DEF Goes
    <2> HIDE DEF c
    <2>6. /\ Aside(call[t]) /\ Aside(c)
          /\ UNCHANGED <<fds, handles, cse>> /\ UNCHANGED memory
      BY <2>3, <2>4, IdleAside DEF csQueueComputeRequest, Begins, Aside, Calls, process
    <2>7. ProcessOK' /\ MemoryOK' /\ call' \in [Thread -> Calls]
      BY <2>5, <2>6, AsideStep
    <2>8. RequestFits'
      BY <2>2, <2>4, <2>5 DEF Inv, CallOK, RequestFits, At
    <2>9. RetOK'
      BY <1>2, GoesRet DEF Inv
    <2>10. QED
      BY <2>7, <2>8, <2>9 DEF Inv, CallOK
  <1>3. QED
    BY <1>1, <1>2 DEF csQueueComputeRequest

LEMMA ComputeStep == ASSUME Inv, NEW t \in Thread, tsp_compute_operation(t) PROVE Inv'
  <1>1. /\ Aside(call[t]) /\ call' = [call EXCEPT ![t] = Idle]
        /\ UNCHANGED <<fds, handles, cse>> /\ UNCHANGED memory
    <2>1. call[t].step = "request" /\ call[t] \in Calls
      BY DEF tsp_compute_operation, At, Inv, CallOK
    <2>2. QED
      BY <2>1 DEF tsp_compute_operation, Executed, Ends, Aside, process
  <1>2. ProcessOK' /\ MemoryOK' /\ call' \in [Thread -> Calls]
    BY <1>1, IdleAside, AsideStep
  <1>3. RequestFits'
    BY <1>1, RequestsKept DEF Idle
  <1>4. RetOK'
    BY ExecutedRet DEF tsp_compute_operation
  <1>5. QED
    BY <1>2, <1>3, <1>4 DEF Inv, CallOK

-----------------------------------------------------------------------------
(* Descriptors and memory *)

Opened == Drive \cup {"disk", "file", "mem"}

\* A call that opens a descriptor has it for itself until it closes it.
LEMMA UseOpened ==
    ASSUME Inv, NEW t \in Thread, NEW d \in Fd, NEW what \in Opened, NEW c,
           Uses(t) = {}, Opens(d, what), c.step \in {"identify", "map"}, c.fd = d,
           call' = [call EXCEPT ![t] = c], UNCHANGED <<handles, cse>>
    PROVE  ProcessOK'
  <1> USE DEF Inv, ProcessOK, CallOK, DescriptorsBalanced
  <1>1. what # "free"
    BY ApiAssumption DEF Opened
  <1>2. /\ fds[d] = "free" /\ fds' = [fds EXCEPT ![d] = what]
        /\ fds' \in [Fd -> Drive \cup {"free", "disk", "file", "mem"}]
    BY DEF Opens, Opened
  <1>3. \A u \in Thread : Uses(u)' = IF u = t THEN {d} ELSE Uses(u)
    BY DEF Uses
  <1>4. d \notin handles /\ \A u \in Thread : d \notin Uses(u)
    BY <1>2
  <1>5. {e \in Fd : fds'[e] # "free"} = {e \in Fd : fds[e] # "free"} \cup {d}
    BY <1>1, <1>2
  <1>6. UNION {Uses(u)' : u \in Thread} = (UNION {Uses(u) : u \in Thread}) \cup {d}
    BY <1>3
  <1>7. QED
    BY <1>2, <1>3, <1>4, <1>5, <1>6

\* It closes that one and no other.
LEMMA UseClosed ==
    ASSUME Inv, NEW t \in Thread, NEW d \in Fd, Uses(t) = {d}, Close(d),
           call' = [call EXCEPT ![t] = Idle], UNCHANGED <<handles, cse>>
    PROVE  ProcessOK'
  <1> USE DEF Inv, ProcessOK, CallOK, DescriptorsBalanced
  <1>1. /\ fds' = [fds EXCEPT ![d] = "free"]
        /\ fds' \in [Fd -> Drive \cup {"free", "disk", "file", "mem"}]
    BY DEF Close
  <1>2. \A u \in Thread : Uses(u)' = IF u = t THEN {} ELSE Uses(u)
    BY DEF Uses, Idle
  <1>3. d \notin handles /\ \A u \in Thread \ {t} : d \notin Uses(u)
    OBVIOUS
  <1>4. {e \in Fd : fds'[e] # "free"} = {e \in Fd : fds[e] # "free"} \ {d}
    BY <1>1
  <1>5. UNION {Uses(u)' : u \in Thread} = (UNION {Uses(u) : u \in Thread}) \ {d}
    BY <1>2, <1>3
  <1>6. QED
    BY <1>1, <1>2, <1>3, <1>4, <1>5

\* A call that uses no descriptor before nor after a step.
LEMMA UsesNone ==
    ASSUME Inv, NEW t \in Thread, NEW c, Uses(t) = {}, c.step \notin {"identify", "map"},
           call' = [call EXCEPT ![t] = c], UNCHANGED <<fds, handles, cse>>
    PROVE  ProcessOK'
  <1>1. \A u \in Thread : Uses(u)' = Uses(u)
    BY DEF Uses, Inv, CallOK
  <1>2. QED
    BY <1>1 DEF Inv, ProcessOK, DescriptorsBalanced

\* A call that holds no memory before nor after a step.
LEMMA HoldsNone ==
    ASSUME Inv, NEW t \in Thread, NEW c, Holds(t) = {}, c.step # "answered",
           call' = [call EXCEPT ![t] = c], UNCHANGED memory
    PROVE  MemoryOK'
  <1>1. \A u \in Thread : Holds(u)' = Holds(u)
    BY DEF Holds, At, Inv, CallOK
  <1>2. QED
    BY <1>1 DEF Inv, MemoryOK, MemoryTraceable, memory

\* What a thread is in stays a call.
LEMMA CallStep ==
    ASSUME Inv, NEW t \in Thread, NEW c \in Calls, c.step # "request",
           call' = [call EXCEPT ![t] = c]
    PROVE  CallOK'
  BY RequestsKept DEF Inv, CallOK

LEMMA Ending ==
    ASSUME Inv, NEW t \in Thread, Ends(t)
    PROVE  CallOK' /\ Idle.step = "idle" /\ call' = [call EXCEPT ![t] = Idle]
  BY CallStep DEF Ends, Idle, Calls

LEMMA PathStep == ASSUME Inv, NEW t \in Thread, csGetCSxFromPath(t) PROVE Inv'
  <1>1. CASE (\E stat : Return(t, stat)) /\ UNCHANGED fds
    BY <1>1, ReturnRet, AtOnce DEF csGetCSxFromPath, Return, process
  <1>2. ASSUME NEW name \in Name \ {"none"}, NEW d \in Fd, Opens(d, name),
               Goes(t, [step |-> "identify", fd |-> d])
        PROVE  Inv'
    <2> DEFINE c == [step |-> "identify", fd |-> d]
    <2>1. c \in Calls /\ c.step = "identify" /\ c.fd = d
      BY DEF Calls, Identify
    <2>2. call' = [call EXCEPT ![t] = c]
      BY <1>2 DEF Goes
    <2> HIDE DEF c
    <2>3. UNCHANGED <<handles, cse>> /\ UNCHANGED memory
      BY DEF csGetCSxFromPath
    <2>4. Uses(t) = {} /\ Holds(t) = {}
      BY DEF csGetCSxFromPath, Begins, Idle, Uses, Holds, At
    <2>5. name \in Opened
      BY ApiAssumption DEF Name, Opened
    <2>6. ProcessOK'
      BY <1>2, <2>1, <2>2, <2>3, <2>4, <2>5, UseOpened
    <2>7. MemoryOK'
      BY <2>1, <2>2, <2>3, <2>4, HoldsNone
    <2>8. CallOK'
      BY <2>1, <2>2, CallStep
    <2>9. RetOK'
      BY <1>2, GoesRet DEF Inv
    <2>10. QED
      BY <2>6, <2>7, <2>8, <2>9 DEF Inv
  <1>3. QED
    BY <1>1, <1>2 DEF csGetCSxFromPath

LEMMA CheckStep == ASSUME Inv, NEW t \in Thread, CheckDevice(t) PROVE Inv'
  <1>1. call[t] \in Calls /\ call[t].step = "identify"
    BY DEF CheckDevice, At, Inv, CallOK
  <1>2. call[t].fd \in Fd /\ Uses(t) = {call[t].fd} /\ Holds(t) = {}
    BY <1>1 DEF Calls, Idle, Identify, Allocate, Answered, Mapping, Request, Uses, Holds, At
  <1>3. Ends(t) /\ Close(call[t].fd) /\ UNCHANGED <<handles, cse>> /\ UNCHANGED memory
    BY DEF CheckDevice, DeviceName, Return, Success
  <1>4. ProcessOK'
    BY <1>2, <1>3, Ending, UseClosed
  <1>5. MemoryOK' /\ CallOK'
    BY <1>2, <1>3, Ending, HoldsNone
  <1>6. RetOK'
    <2>1. Lengths \subseteq Nat /\ NAME \in Nat
      BY ApiAssumption DEF NAME
    <2>2. \/ \E stat : Return(t, stat)
          \/ \E len \in Lengths : ~(len < NAME) /\ Success(t, "csGetCSxFromPath", len, NAME)
      BY DEF CheckDevice, DeviceName
    <2>3. QED
      BY <2>1, <2>2, ReturnRet, SuccessRet
  <1>7. QED
    BY <1>4, <1>5, <1>6 DEF Inv

LEMMA OpenStep == ASSUME Inv, NEW t \in Thread, csOpenCSx(t) PROVE Inv'
  <1>1. /\ call[t] = Idle /\ Uses(t) = {} /\ Holds(t) = {} /\ UNCHANGED memory
        /\ UNCHANGED cse /\ Ends(t) /\ RetOK'
    BY ReturnRet DEF csOpenCSx, Begins, Idle, Uses, Holds, At, Return
  <1>2. MemoryOK' /\ CallOK'
    BY <1>1, Ending, HoldsNone
  <1>3. ProcessOK'
    <2>1. CASE UNCHANGED <<fds, handles>>
      BY <1>1, <2>1, Ending, UsesNone
    <2>2. ASSUME NEW name \in Name \ {"none"}, NEW d \in Fd, Opens(d, name),
                 handles' = handles \cup {d}
          PROVE  ProcessOK'
      <3> USE DEF Inv, ProcessOK, CallOK, DescriptorsBalanced
      <3>1. name \in Opened /\ name # "free"
        BY ApiAssumption DEF Name, Opened
      <3>2. /\ fds[d] = "free" /\ fds' = [fds EXCEPT ![d] = name]
            /\ fds' \in [Fd -> Drive \cup {"free", "disk", "file", "mem"}]
        BY <2>2, <3>1 DEF Opens, Opened
      <3>3. \A u \in Thread : Uses(u)' = Uses(u)
        BY <1>1, Ending DEF Uses, Idle
      <3>4. \A u \in Thread : d \notin Uses(u)
        BY <3>2
      <3>5. {e \in Fd : fds'[e] # "free"} = {e \in Fd : fds[e] # "free"} \cup {d}
        BY <3>1, <3>2
      <3>6. UNION {Uses(u)' : u \in Thread} = UNION {Uses(u) : u \in Thread}
        BY <3>3
      <3>7. QED
        BY <1>1, <2>2, <3>2, <3>3, <3>4, <3>5, <3>6
    <2>3. QED
      BY <2>1, <2>2 DEF csOpenCSx
  <1>4. QED
    BY <1>1, <1>2, <1>3 DEF Inv

LEMMA AllocStep == ASSUME Inv, NEW t \in Thread, csAllocMem(t) PROVE Inv'
  <1>1. CASE \E stat : Return(t, stat)
    BY <1>1, ReturnRet, AtOnce DEF csAllocMem, Return
  <1>2. ASSUME NEW h \in Handle, NEW map \in BOOLEAN,
               Goes(t, [step |-> "allocate", drive |-> Behind(h), map |-> map])
        PROVE  Inv'
    <2> DEFINE c == [step |-> "allocate", drive |-> Behind(h), map |-> map]
    <2>1. Behind(h) \in Drive \cup {"none"}
      BY DEF Behind
    <2>2. c \in Calls /\ c.step = "allocate"
      BY <2>1 DEF Calls, Allocate
    <2>3. call' = [call EXCEPT ![t] = c]
      BY <1>2 DEF Goes
    <2> HIDE DEF c
    <2>4. /\ Aside(call[t]) /\ Aside(c)
          /\ UNCHANGED <<fds, handles, cse>> /\ UNCHANGED memory
      BY <2>2, IdleAside DEF csAllocMem, Begins, Aside, process
    <2>5. ProcessOK' /\ MemoryOK'
      BY <2>3, <2>4, AsideStep
    <2>6. CallOK'
      BY <2>2, <2>3, CallStep
    <2>7. RetOK'
      BY <1>2, GoesRet DEF Inv
    <2>8. QED
      BY <2>5, <2>6, <2>7 DEF Inv
  <1>3. QED
    BY <1>1, <1>2 DEF csAllocMem

\* A page that the drive gives out is held by the call, or lost.
LEMMA AllocateStep == ASSUME Inv, NEW t \in Thread, tsp_allocate_memory(t) PROVE Inv'
  <1>1. /\ call[t].step = "allocate" /\ call[t] \in Calls
        /\ UNCHANGED <<fds, handles, cse>> /\ UNCHANGED known
    BY DEF tsp_allocate_memory, At, Inv, CallOK, process
  <1>2. Uses(t) = {} /\ Holds(t) = {} /\ call[t].map \in BOOLEAN
    BY <1>1 DEF Calls, Idle, Identify, Allocate, Answered, Mapping, Request, Uses, Holds, At
  <1>3. CASE (\E stat : Return(t, stat)) /\ UNCHANGED <<taken, lost>>
    <2>1. Ends(t) /\ UNCHANGED memory /\ RetOK'
      BY <1>1, <1>3, ReturnRet DEF Return, memory
    <2>2. ProcessOK' /\ MemoryOK' /\ CallOK'
      BY <1>1, <1>2, <2>1, Ending, UsesNone, HoldsNone
    <2>3. QED
      BY <2>1, <2>2 DEF Inv
  <1>4. ASSUME NEW p \in Page \ taken, taken' = taken \cup {p},
               Goes(t, [step |-> "answered", page |-> p, map |-> call[t].map]),
               UNCHANGED lost
        PROVE  Inv'
    <2> DEFINE c == [step |-> "answered", page |-> p, map |-> call[t].map]
    <2>1. c \in Calls /\ c.step = "answered" /\ c.page = p
      BY <1>2 DEF Calls, Answered
    <2>2. call' = [call EXCEPT ![t] = c]
      BY <1>4 DEF Goes
    <2> HIDE DEF c
    <2>3. ProcessOK' /\ CallOK'
      BY <1>1, <1>2, <2>1, <2>2, UsesNone, CallStep
    <2>4. \A u \in Thread : Holds(u)' = IF u = t THEN {p} ELSE Holds(u)
      BY <2>1, <2>2 DEF Holds, At, Inv, CallOK
    <2>5. UNION {Holds(u)' : u \in Thread} = (UNION {Holds(u) : u \in Thread}) \cup {p}
      BY <1>2, <2>4
    <2>6. MemoryOK'
      BY <1>1, <1>4, <2>5 DEF Inv, MemoryOK, MemoryTraceable
    <2>7. RetOK'
      BY <1>4, GoesRet DEF Inv
    <2>8. QED
      BY <2>3, <2>6, <2>7 DEF Inv
  <1>5. ASSUME NEW p \in Page \ taken, taken' = taken \cup {p},
               Return(t, "CS_DEVICE_NOT_AVAILABLE"), lost' = lost \cup {p}
        PROVE  Inv'
    <2>1. Ends(t) /\ RetOK'
      BY <1>5, ReturnRet DEF Return
    <2>2. ProcessOK' /\ CallOK'
      BY <1>1, <1>2, <2>1, Ending, UsesNone
    <2>3. \A u \in Thread : Holds(u)' = Holds(u)
      BY <1>2, <2>1, Ending DEF Holds, At, Inv, CallOK
    <2>4. MemoryOK'
      BY <1>1, <1>5, <2>3 DEF Inv, MemoryOK, MemoryTraceable
    <2>5. QED
      BY <2>1, <2>2, <2>4 DEF Inv
  <1>6. QED
    BY <1>3, <1>4, <1>5 DEF tsp_allocate_memory

\* The page passes from the call to the caller.
LEMMA AllocatedStep == ASSUME Inv, NEW t \in Thread, Allocated(t) PROVE Inv'
  <1>1. /\ call[t].step = "answered" /\ call[t] \in Calls /\ MapMemory(t)
        /\ UNCHANGED <<handles, cse, taken, lost>> /\ known' = known \cup {call[t].page}
    BY DEF Allocated, At, Inv, CallOK
  <1>2. Uses(t) = {} /\ Holds(t) = {call[t].page}
    BY <1>1 DEF Uses, Holds, At
  <1>3. ASSUME NEW c, call' = [call EXCEPT ![t] = c], c.step # "answered"
        PROVE  MemoryOK'
    <2>1. \A u \in Thread : Holds(u)' = IF u = t THEN {} ELSE Holds(u)
      BY <1>3 DEF Holds, At, Inv, CallOK
    <2>2. known' \cup (UNION {Holds(u)' : u \in Thread})
             = known \cup (UNION {Holds(u) : u \in Thread})
      BY <1>1, <1>2, <2>1
    <2>3. call[t].page \in taken
      BY <1>2 DEF Inv, MemoryOK, MemoryTraceable
    <2>4. QED
      BY <1>1, <2>2, <2>3 DEF Inv, MemoryOK, MemoryTraceable
  <1>4. CASE (\E stat : Return(t, stat)) /\ UNCHANGED fds
    <2>1. Ends(t) /\ RetOK'
      BY <1>4, ReturnRet DEF Return
    <2>2. QED
      BY <1>1, <1>2, <1>3, <1>4, <2>1, Ending, UsesNone DEF Inv
  <1>5. ASSUME NEW d \in Fd, Opens(d, "mem"), Goes(t, [step |-> "map", fd |-> d])
        PROVE  Inv'
    <2> DEFINE c == [step |-> "map", fd |-> d]
    <2>1. c \in Calls /\ c.step = "map" /\ c.fd = d
      BY DEF Calls, Mapping
    <2>2. call' = [call EXCEPT ![t] = c]
      BY <1>5 DEF Goes
    <2> HIDE DEF c
    <2>3. ProcessOK'
      BY <1>1, <1>2, <1>5, <2>1, <2>2, UseOpened DEF Opened
    <2>4. MemoryOK' /\ CallOK'
      BY <1>3, <2>1, <2>2, CallStep
    <2>5. RetOK'
      BY <1>5, GoesRet DEF Inv
    <2>6. QED
      BY <2>3, <2>4, <2>5 DEF Inv
  <1>6. QED
    BY <1>1, <1>4, <1>5 DEF MapMemory

LEMMA MapStep == ASSUME Inv, NEW t \in Thread, Map(t) PROVE Inv'
  <1>1. call[t] \in Calls /\ call[t].step = "map"
    BY DEF Map, At, Inv, CallOK
  <1>2. call[t].fd \in Fd /\ Uses(t) = {call[t].fd} /\ Holds(t) = {}
    BY <1>1 DEF Calls, Idle, Identify, Allocate, Answered, Mapping, Request, Uses, Holds, At
  <1>3. /\ Ends(t) /\ Close(call[t].fd) /\ UNCHANGED <<handles, cse>> /\ UNCHANGED memory
        /\ RetOK'
    BY ReturnRet DEF Map, Return
  <1>4. ProcessOK' /\ MemoryOK' /\ CallOK'
    BY <1>2, <1>3, Ending, UseClosed, HoldsNone
  <1>5. QED
    BY <1>3, <1>4 DEF Inv

-----------------------------------------------------------------------------
LEMMA InvInit == Init => Inv
  <1> SUFFICES ASSUME Init PROVE Inv
    OBVIOUS
  <1> USE DEF Init
  <1>1. RetOK
    BY DEF RetOK, NoResult, OutputFits, PrintsWhatWasWritten
  <1>2. \A t \in Thread : Uses(t) = {} /\ Holds(t) = {} /\ ~At(t, "request")
    BY DEF Uses, Holds, At, Idle
  <1>3. ProcessOK
    BY <1>2 DEF ProcessOK, DescriptorsBalanced
  <1>4. MemoryOK
    BY <1>2 DEF MemoryOK, MemoryTraceable
  <1>5. CallOK
    BY <1>2 DEF CallOK, Calls, RequestFits
  <1>6. QED
    BY <1>1, <1>3, <1>4, <1>5 DEF Inv

LEMMA InvNext == Inv /\ [Next]_vars => Inv'
  <1> SUFFICES ASSUME Inv, [Next]_vars PROVE Inv'
    OBVIOUS
  <1>1. ASSUME NEW t \in Thread, Call(t) PROVE Inv'
    BY <1>1, QuietSteps, OpenCSEStep, QueueStep, ComputeStep, PathStep, CheckStep, OpenStep,
       AllocStep, AllocateStep, AllocatedStep, MapStep DEF Call
  <1>2. CASE UNCHANGED vars
    BY <1>2 DEF vars, process, memory, Inv, RetOK, ProcessOK, MemoryOK, CallOK, OutputFits,
       PrintsWhatWasWritten, DescriptorsBalanced, MemoryTraceable,
       RequestFits, Uses, Holds, At
  <1>3. QED
    BY <1>1, <1>2 DEF Next

\* The strengthened invariant holds in every state: cs_api_nvme_tsp.c under any
\* callers, in any interleaving of its calls.
THEOREM Invariance == Spec => []Inv
  BY InvInit, InvNext, PTL DEF Spec

\* Every variable keeps its type, and a call that is under way is one of those
\* the functions of cs_api_nvme_tsp.c make.
THEOREM ApiTypeCorrect == Spec => []TypeOK
  <1>1. Inv => TypeOK
    BY DEF Inv, RetOK, ProcessOK, MemoryOK, CallOK, Calls, TypeOK
  <1>2. QED
    BY <1>1, Invariance, PTL

\* No path of csGetCSxFromPath() or csAllocMem() leaves a descriptor open, and
\* none closes a handle or a descriptor that another call uses.
THEOREM NoDescriptorLeaks == Spec => []DescriptorsBalanced
  <1>1. Inv => DescriptorsBalanced
    BY DEF Inv, ProcessOK
  <1>2. QED
    BY <1>1, Invariance, PTL

\* The caller of csAllocMem() gets the handle of the memory that was given out,
\* also if it cannot be mapped.
THEOREM MemoryFound == Spec => []MemoryTraceable
  <1>1. Inv => MemoryTraceable
    BY DEF Inv, MemoryOK
  <1>2. QED
    BY <1>1, Invariance, PTL

\* No function writes more than the caller's buffer holds, csGetFunction() alone
\* excepted.
THEOREM OutputBounded == Spec => []OutputFits
  <1>1. Inv => OutputFits
    BY DEF Inv, RetOK
  <1>2. QED
    BY <1>1, Invariance, PTL

\* printCSxProperties() reads what csQueryDeviceProperties() has written, for as
\* many CSEs as a command holds, whatever length the caller passes.
THEOREM PropertiesComplete == Spec => []PrintsWhatWasWritten
  <1>1. Inv => PrintsWhatWasWritten
    BY DEF Inv, RetOK
  <1>2. QED
    BY <1>1, Invariance, PTL

\* csQueueComputeRequest() copies the structure with all of its arguments, and
\* up to 204 of them fit a command.
THEOREM RequestCopied == Spec => []RequestFits
  <1>1. Inv => RequestFits
    BY DEF Inv, CallOK
  <1>2. QED
    BY <1>1, Invariance, PTL
=============================================================================
