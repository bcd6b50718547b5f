# Verification of the NVMe computational storage device

TLA+ models of the programs of this repository, the TLC runs that check them and
the TLAPS proofs about them. `PROJECT.json` lists the same facts for tools: the
components, runs, the source lines behind each definition, the hazards and the
findings. Paths below are relative to the repository.

## 1. Inventory

| Component | State | Operations | Hard behaviour | What makes it correct |
|---|---|---|---|---|
| **Socket relay** `host/socket_relay/main.c` | one TCP connection, one relay descriptor in the drive, two threads each with a buffer, at most one outstanding command of each kind | open the relay, listen, accept, `relay_to_nvme_thread_fn` (socket to WRITE), `relay_from_nvme_thread_fn` (READ to socket), close, shutdown, join | two threads blocked in calls that only the other side ends; several processes whose relays are numbers in one table of the drive; end of file behind data in flight; half-close; failing or timed-out commands; SIGPIPE | each direction is a pipe: nothing lost, repeated or reordered; close and shutdown only behind the last byte; a hangup at either end ends the process; a process that ends closes its relay; no process touches the relay of another |
| **Crypt workers** `firmware/crypt` | a pair of buffers per process, the command in hand; the backend's sectors; the queues behind `/dev/tsp-N` | read a command, `lba_encrypt` / `lba_decrypt`, set the status, write the completion | several workers in parallel on the same sectors; OpenSSL failing in the middle of a command; buffers that are never cleared; a process that ends with commands in its queue | the backend is under exactly one encryption; the host sees a standard disk; commands are completed |
| **Computational Storage API** `host/snia_cs_api` | file descriptors, device memory handles and mappings | discover, open, CSEs, properties, capabilities, function, allocate, free, compute | descriptors shared by threads; device memory shared by processes and never freed; timed-out requests that the drive still executes; integer widths and lengths; partial failure of an allocation | no descriptor leaks or is closed under another call; memory is held by one process at a time and can be found; buffers are not overrun; a request goes to the drive its handle is of |
| **Demos** `host/demos/checksum`, `sleep` | command line, file size, two buffers, request, status of the last iteration | the sequence of API calls | the file changes under the program; short reads; repeated runs | the printed checksum is that of the file; every run ends |
| **Latency tools** `firmware/latency` | the driver's two buffers of time stamps, two buffers and two files | dump both buffers, print a dump as lines | the driver records and clears meanwhile; short reads and writes that go unnoticed; a default size that is no multiple of a record; old files | the lines that the user takes are the records of the commands |
| **Endpoint driver** `pci-epf-nvme.c` | NVMe queues, relays, CMB allocator, character devices | the commands above | everything concurrent | not in the repository: modelled as the environment, from what the programs rely on |
| Benchmarks, platforms, PCB, FPGA script | none | none | none | no program logic, not modelled |

How they interact: relay, API and demos send admin command `0xC0` through libnvme,
one ioctl per call, to the endpoint driver in the drive; `CDW10` selects the
operation. The driver executes commands of different threads and processes
concurrently. Crypt workers read commands from a character device and answer by
writing to it. The programs share nothing else; only the drive's state (relays,
device memory, sectors) connects them.

## 2. Modules

| Module | Models | Size of the state |
|---|---|---|
| `BytePipe` | abstract: one direction of the relay as a pipe that may break | source, destination, open or not |
| `SocketRelay` | `host/socket_relay/main.c`, one process and its environment | 17 variables |
| `RelayFleet` | several such processes and the drive's table of relay descriptors | 13 variables |
| `StandardDisk` | abstract: a disk of plain sectors with concurrent commands | content, requests |
| `SelfEncryptingDisk` | `firmware/crypt` and its environment | 7 variables |
| `CsApi` | `cs_api_nvme_tsp.c` under any caller | 8 variables |
| `ComputeSession` | `cs_api_nvme_tsp.c` as called by `checksum.c` and `sleep.c`, in several processes | 5 variables |
| `LatencyDump` | `extract_statistics.c`, `csv_from_buffer.cpp` and the driver's buffers | 9 variables |
| `SocketRelayProofs`, `RelayRefinementProofs`, `RelayFleetProofs`, `SelfEncryptingDiskProofs`, `DiskRefinementProofs`, `CsApiProofs`, `ComputeSessionProofs`, `LatencyDumpProofs` | theorems about these | |
| `MC*` | the constants for TLC | |

An operator whose comment begins with `Mutant:` is a wrong version of the
definition that follows it, used to see that a property fails when the code is
wrong in that way; no specification uses one.

### SocketRelay

`main`, `to` and `from` are the program counters of `main()` with `communicate()`
and of the two threads. An NVMe command is two steps for its thread, `X` and
`XDone`, with the drive's step between them in `cmd[X]`; so a command can be
executed at any moment, fail after it took effect, or be outstanding when the
process dies. The two flows are kept as sequences: what the client has sent
(`cliSent`), what is in the socket (`sockIn`), in the thread's buffer (`toBuf`) and
with the service (`svcGot`); and `svcSent`, `downQ`, `fromBuf`, `sockOut`, `cliGot`
the other way. `cliSent`, `svcSent` are history, everything else is state of the
system.

| Action | Code |
|---|---|
| `NoDevice`, `OpenRelay`, `OpenRelayDone`, `Listen`, `Accept` | `main` 232-303 |
| `SpawnTo`, `SpawnFrom`, `JoinTo`, `JoinFrom` | `communicate` 190-202 |
| `ToRead`, `ToEof`, `WriteRelay(Done)`, `CloseRelay(Done)` | `relay_to_nvme_thread_fn` 133-160 |
| `ReadRelay(Done)`, `SockWrite`, `SockWriteGone`, `Shutdown` | `relay_from_nvme_thread_fn` 162-188 |
| `Signal` | no handler is installed (todo at line 56) |
| `CliX`, `SvcX`, `DevX`, `XFault` | client, service and drive: external |

Assumptions on the drive, which the code relies on: CLOSE completes a pending READ
with a failure; READ and WRITE of one relay are executed concurrently; a relay whose
service is gone completes a READ with length 0 or a failure once its data is read.
Of the sockets: TCP keeps order; end of file comes behind data; a write to a closed
connection is answered with a reset, and a write after that with an error or SIGPIPE
(both are allowed, since only the first of the two is an error the code sees).
`Faults` selects failures the peers do not cause: commands that fail or time out
(`open`, `write`, `read`, `close`; a part of the command may have happened),
`pthread_create` (`create`) and signals (`signal`).

`UpPipe` and `DownPipe` have a safe part, in order and nothing invented, and a fair
part, delivery, which rests on what the peers may leave out: a client that keeps
reading (`ClientReads`), a WRITE that is answered in the end (`WritesAnswered`). Each
direction names only the premise it needs, so neither depends on the other.

`Up` and `Down` instantiate `BytePipe`: the pipe is open from `accept()` on and
broken once the process has ended or the service, the relay, the client's end or a
command is gone. In `Down` the pipe ends in the client's receive queue.

### RelayFleet

What `SocketRelay` says of one process in detail is kept to its control here: which
thread may issue which command when. A command carries the number that OPEN_RELAY
returned, so what matters is when the drive executes it: `cmd` is `"late"` once the
host has given up on a command (`Timeout`), or stays `"sent"` when its process has
died, and the drive may still execute it; `DevX` acts on the process that `table`
gives for the number at that moment. `writtenBy`, `readBy` and `closedBy` record whose
commands have reached the relay of each process. The drive may give a descriptor
out again or never (`reuse`); its source is not in the repository. An action's
answer is `Opened`, `Written`, `HasRead` or `Closed`, the code behind the command.
`failed` holds the processes that were killed or saw a command other than a READ fail,
and nothing else: a process that `AcceptFails` ends is not in it. `Accept` starts
either thread or, since `pthread_create` is not checked, leaves it `"absent"`; joining
a thread that was never created returns (`Join`) or crashes (a `Signal`).

| Action | Code |
|---|---|
| `OpenRelay`, `AcceptFails`, `Signal` | `main` 254-300 |
| `Accept`, `Join` | `communicate` 190-202 |
| `ToRead`, `ToEof`, `CloseRelay` | `relay_to_nvme_thread_fn` 133-160 |
| `ReadRelay`, `SockWrite`, `Shutdown` | `relay_from_nvme_thread_fn` 162-188 |
| `Opened`, `Written`, `HasRead`, `Closed` | what the code does with an answer, 68-77, 153-157, 119-131, 86-89 |
| `Timeout`, `Hangup`, `DevX` | host driver, client and drive: external |

### SelfEncryptingDisk

A sector is its plain value and the number of encryptions on it, because AES-CBC
with one fixed key and iv is a permutation. The worker's loop is `Read`, `Handle` or
`HandleError`, `Write`; `ReadEnd` is every way of leaving it. `HandleError` is
OpenSSL failing on the k-th sector: the sectors before it are done, the rest of
`buffer_out` is what an earlier command left. The host and the driver (`Issue`,
`Forward`, `Finish`, `Collect`) are external: the driver fetches the sectors of a
read before it queues the command, stores what a successful write's answer holds,
and takes an answer to belong to the command last read from that device. A write
zeroes is queued with its sectors, as line 380 expects.

`Standard` instantiates `StandardDisk`: the content is what one decryption of the
backend gives. A read takes effect when the driver fetches its sectors and a write
when the driver stores its answer, wherever the workers are.

### CsApi

The threads of one process call every function of `cs_api_nvme_tsp.c` in any order,
with the null pointers that the code tests for, names of drives, disks and files,
handles they hold, and lengths from a set. (`csGetCSEFromCSx` and `csOpenCSE` use
`CSEName` and `CSEHandle` untested; a caller that passes NULL there is not modelled.) A call is one step, unless something can happen in between: a descriptor
that is open while others are opened (`csGetCSxFromPath`, then `CheckDevice`;
`Allocated`, then `Map`), the ALLOCATE command, and a request. `fds` is the
process's descriptor table, where `open()` takes the lowest free one; `handles`, `cse`
and `known` are what callers were given; `taken` and `lost` what drives have given
out; `ret` what the last call returned, with the length of the caller's buffer and
what was written to it. Sizes are in bytes, from the packed structures of `cs.h`.

What a reader of the properties should know of: `csGetFunction` writes eight bytes
over the caller's four (the exception in `OutputFits`);
`csQueueComputeRequest` ignores callback and event, so a request is synchronous for every
caller, `CS_QUEUED` (`cs.h:602`) is never returned and nobody is called back; a request of more than 204 arguments does not fit the 4096 bytes it is copied to, and of more than 80
CSEs the properties are cut but counted in full (the bounds in `RequestFits` and
`PrintsWhatWasWritten`); `csFreeMem` does nothing; `csQueryDeviceForComputeList` accepts
only a placeholder and fills in nothing.

### ComputeSession

A process of `Proc` runs `checksum` or `sleep`, ends and may be run again; a call of
the API is one action with its outcomes. Device memory is an array of words in
pages of `PAGE` words; the drive's allocator gives out any free pages (`FreeAt`).
A compute request is in `jobs` until the drive executes it; `Timeout` returns to the
host with the request still there (`live` false), so that it may be executed during
a later iteration, after the process has ended, or in a later run. Nothing is ever
freed: `csFreeMem` is empty and the demos do not call it. `Faults` selects failing
commands (`device`), timeouts, `/dev/mem` (`map`), file errors (`io`) and a file that
changes (`edit`). `__ALIGN`, the conversion to `int` and to 32 bits are in words
(`INT_MOD`). What the drive computes is the constant operator `Checksum`, any function
of the words in memory; TLC takes their sum.

### LatencyDump

The driver records a command in the next entry of its buffer (`Completed`) until it is
full, or the user clears it (`Clear`); `extract_statistics` is `ReadSize`, `Malloc`,
`Fread` of both buffers and `Fwrite` of both files. `fread()` reads the driver's buffer
in parts, between which it may change, and what it returns is never negative, so that
a short one is no error; `fopen()` or `malloc()` failing is. `Csv` is
`csv_from_buffer` as a function of the file: always 1000 lines, whatever the file
holds. Words that were never written are `JUNK`. `seen` is what the user looked up
before the run, since `firmware/latency/README.md:53` says to take as many lines.

## 3. Runs

Passing runs. The properties are stated, with the code they are about, in the modules.

| Run | Constants | Shows |
|---|---|---|
| `relay_safe` | buffer 3, header 1, socket 4, 4 bytes up, 3 down, all faults | types and the inductive invariant; no byte lost in either direction, and none delivered behind a gap once something has failed (the safe part of `BytePipe`); close and shutdown behind the last byte; a return from `main()` leaves the relay open only after a failed WRITE or CLOSE or without the closing thread (a signal and an `exit(-1)` before there is a client are other ends); no thread outlives its argument |
| `relay_live` | buffer 3, header 1, socket 1, 3 bytes each way, all faults after OPEN | each direction implements `BytePipe`, delivery included; a hangup at either end ends the process |
| `fleet` | 2 processes, 2 descriptors, with and without reuse | a process writes to and closes only its own relay, reads another's only after its own client hung up or its READ failed; one that relayed a client gives its descriptor back, with three named exceptions |
| `disk_queues` | 2 host threads, 2 workers, 1 sector, all faults | one encryption at rest; a command is in one place; refinement of `StandardDisk`; every command is completed, with two named exceptions |
| `disk_blocks` | 2 host threads, 1 worker, 2 sectors, commands of one and two sectors, other opcodes | no stale or still encrypted sector is returned, none stored under other than one encryption, whichever sector of a command fails; refinement |
| `session_safe` | 2 processes, 4 pages, files of 2 and 3 words, 1 or 2 iterations | memory is exclusive; the checksum printed is the file's |
| `api` | 2 threads, 1 drive, 2 pages, 3 descriptors, lengths 5, 14, 108 and 4096, 0, 2, 80 or 81 CSEs, 0 or 204 arguments, all faults | descriptors are balanced, memory is traceable, callers' buffers are not overrun but by `csGetFunction`, a request of up to 204 arguments is copied whole and fits |
| `latency` | records of 2 words, 2 commands, default size of 3 words, reads of at most 3 words, one clear | the lines taken are the records, in order |
| `session_ends` | 1 process run again and again, both demos, -i of -1 and 1, files of 3, 5 and 7 words, all faults | what is read fits in what is mapped; every run ends |

Violated properties. Each states what a document or comment of the repository says,
and TLC's counterexample is what the code does.

| Run | Property | What happens |
|---|---|---|
| `relay_gone` | `RelayClosesWithSocket` | the client closes while data comes down: SIGPIPE ends the process and nobody closes the relay |
| `api_cse` | `CSEOfDevice` | with two drives open, the placeholder handle of a CSE is the descriptor of one of them, and the request meant for the other goes there |
| `session_read` | `PrintsFileChecksum` | `pread` fails or is short and a checksum of old memory is printed |

Behaviour that the models have and that a reader of the properties should know of,
since the properties name it as an exception or leave it out:

- A WRITE that fails ends the process with the relay open (the exceptions of
  `ExitClosesRelay` and `Hangup`).
- A process that ends before it has a client, by `exit(-1)` or by a signal, leaves its
  relay open, and so does one whose `relay_to_nvme_thread_fn` could not be created
  (`DescriptorReturned` is about the others). A launch on a port that is taken costs the
  drive a descriptor in this way; the todo at `main.c:56` has it.
- A process that has closed its relay on the client's end of file may issue READs
  after that, and one whose READ the host gave up on closes with that READ in the
  drive; if the drive has given the number to another process by then, the READ takes
  that one's bytes (the exception of `ReadsOwn`), which a client that has only closed
  its sending side even receives.
- A client's FIN closes both directions; what the service has not said by then is
  lost (`DownNoLoss` speaks of an open relay).
- A command that is neither a read nor a write is copied and answered with an
  internal error, since `ret` stays 0 (`Handle`).
- A mapping or a command that fails after the drive has allocated leaves the memory
  taken for good (`csAllocMem`).
- A file of 4 GiB or more is allocated modulo 2^32 and `pread` is given its whole
  size: `ReadFitsMapping` is about smaller files, and is false without that condition.
- With `-i 0` or less, `checksum` prints what the result's memory held.

### Why the bounds are enough

Relay: the relay never looks at a byte, so one stream of bytes that all differ stands
for every stream, and shows a loss, a repetition or a swap (`OneStream`, a
constraint on what the peers send; no send has fairness, so it cuts off no
obligation). In `relay_safe` the client sends more than a buffer and the socket holds
more than a buffer, so `read()` is cut at the buffer's size; in `relay_live` a chunk of
two goes through a socket of one, so `write()` copies it in parts and blocks. The
theorems cover every size. Fleet: a command that is late needs one process that has
ended and one that has got its number, and two descriptors let a number be another's
or nobody's; processes and descriptors are symmetric. The theorems cover any number.
Disk: two workers and two threads let two commands on one sector overtake each
other at every step; a command of one sector after one of two leaves the other's
second sector in the buffer. Host threads are symmetric in `disk_blocks` (no operator
tells them apart), which checks no liveness; `disk_queues` does and has no symmetry.
Session: two processes need four pages for two small files and have four, so the
second of two large runs fails in the middle; a process that is run again meets the
requests that timed out in its earlier run; a run after that meets an exhausted
drive. In `session_ends` a file of 5 words is more than `csAllocMem` gives and one of
7 is negative as an `int`, and the file may change between any of these sizes. Memory
that is never freed bounds the state without a counter. The processes are symmetric
in `session_safe`, a safety run.
API: two calls that are under way at once hold two descriptors, and the third is a
handle, so tables that are full and descriptors that are used again by another call
both occur; two pages are used up by two calls. The lengths are one below and one at
each boundary of the code (a name, the name of a CSE, one CSE, a command), 80 CSEs the
most a command holds. The placeholder of a CSE is 1 instead of 43 in `api_cse`: a
process with 44 files open has that descriptor. Threads and pages are symmetric in
`api`, a safety run. Latency: two records show a line that is shifted, of the other
kind or of another command; a read of three words ends inside a record, and so does
the default size, as 64000 bytes do.

`CHECK_DEADLOCK FALSE` is set for relay, fleet, disk and latency: relay processes end,
so may every worker, and `extract_statistics` does. `ComputeSession` can always start
another run, and `CsApi` make another call.

### Fairness

Only what the scheduler, the drive and the kernel give:

- relay: `RelayFair` is weak fairness of the join sequence, of each thread, and of the
  drive for READ and CLOSE when they can be completed. `LiveSpec` has no more; what the
  client and the service may leave out are premises of the properties (`ClientReads`,
  `WritesAnswered`). OPEN, `accept`, the client's and the service's sends and closes,
  faults and signals have none. A READ with nothing to return is not enabled in the
  drive, which is what "unless the socket is disconnected or data is read, no
  completion is sent" says. `relay_gone` adds fairness of WRITE and of the client's
  reads, so that its counterexample is not a peer that stops.
- disk: weak fairness of a worker's loop and of the driver for each command; not of the
  host, of faults, or of the end of a worker.
- session: weak fairness of each process's own steps, and of the answer of its live
  request, which the timeout of one hour guarantees. Nothing makes the drive execute a
  request that has timed out.
- fleet, API, latency: none, only safety is checked.

## 4. Proofs

Each module of theorems is about every value of the constants that satisfies the named
assumption of its model; the runs show the same properties on a small instance.

### SocketRelayProofs

For every set of bytes, every buffer, header and socket size with `SizeAssumption`
(`0 < HDR < SIZE_4K`, the socket holds at least a byte) and every set of faults:

| Theorem | Property |
|---|---|
| `TypeCorrect` | `TypeOK`, with the bounds of both buffers |
| `Inductive` | `IInv` |
| `ClientBytesSafe`, `ServiceBytesSafe` | `UpNoLoss`, `DownNoLoss` |
| `CloseAfterDrain`, `ShutdownAfterDrain` | `DrainedBeforeClose`, `DrainedBeforeShutdown` |
| `ArgumentOutlivesThreads` | `ArgAlive` |
| `ExitLeavesNoRelay` | `ExitClosesRelay` |

The flows alone are not inductive. A WRITE appends the thread's buffer to what the
service has, which is right only if the buffer still holds the bytes it held when the
command was issued; a new chunk overwrites the buffer, which is right only if it is
empty. So `IInv` adds what the control of each thread says of its command and buffer
(`ToCtl`, `FromCtl`), when the relay exists (`OpenCtl`), that from the decision to
close on both upstream queues are empty for good (`CloseCtl`), and that a READ of
length 0 was the last word of the service (`EndCtl`). Each part has a lemma that
every action keeps it, one step per action that can disturb it. `CloseCtl` turns
`UpNoLoss` into `DrainedBeforeClose`, and `EndCtl` is `DrainedBeforeShutdown` at the
moment of the READ. The lemmas `TakeDrop`, `Concat`, `Assoc`, `Empty`, `Appended` and
`FlowHead` are the facts about sequences: moving a chunk from one queue to the next
does not change their concatenation.

### RelayRefinementProofs

Under the same assumption, `ClientPipe` (`SafeSpec => UpInOrder`) and `ServicePipe`
(`SafeSpec => DownInOrder`): in each direction the relay implements the safe part of
`BytePipe`. `UpMaps` and `DownMaps` show that a step of either thread, the drive, the
peers or a failure is a `Send`, an `Open`, a `Deliver`, a `Break` or a stutter. What breaks
a direction lasts (`Lasting`, `CliStays`), so that the state of a pipe only goes from idle
to open to broken (`StateChanges`). A WRITE, or the part of one that fails, delivers what
`UpNoLoss` says comes next; that holds as long as no WRITE has failed, and no WRITE is
issued after that. Downwards `DownNoLoss` is not enough: it ends with the relay, while
bytes that a READ has fetched before the relay was closed are still written to the socket
after it. `DownPrefix` says of them that they continue what the client has, also then;
`CliCtl` that a thread has a client, so that an idle pipe delivers nothing. Both were
checked by TLC under the constants of `relay_safe` first.

`ServiceGotBeginning` and `ClientGotBeginning` say what that is good for, from the two
refinements and `BytePipe` alone: at every moment, whatever has failed, what one end has
got is a beginning of what the other has sent.

### RelayFleetProofs

For any number of processes and descriptors, reuse or not: `FleetTypeCorrect`,
`ServiceHearsOwnClient` (`WritesOwn`), `OwnRelayClosed` (`ClosesOwn`),
`ForeignReadsAfterClose` (`ReadsOwn`) and `DescriptorComesBack` (`DescriptorReturned`: of the processes that relayed a client).

A WRITE or CLOSE that the drive executes late reaches the right relay only because
nothing can have closed it: the thread that writes is the one that closes, and it
issues no CLOSE after a WRITE that was not answered with success. `ToCtl` says so of
each control point of that thread, `TableCtl` that a descriptor whose process has not
closed it is still its process's, `ReadCtl` that a process closes only after its client
hung up or its reading thread stopped, `StartCtl` what holds before there is a client and
`EndCtl` what a process that saw no failure has left behind. `Inv` is these five for
every process with the types and the three `Own` properties. `AnswerEffect` and
`AnswerType` state once what the answer to a command changes.

### SelfEncryptingDiskProofs and DiskRefinementProofs

For any numbers of host threads, workers, values, blocks and faults, and any set of
sectors without gaps (`DiskAssumption`; a command names a first sector and a number):
`DiskTypeCorrect`, `BackendEncrypted` (`EncryptedAtRest`), `ReadsDecrypted`
(`ReadIsPlain`) and `CommandInOnePlace` (`OnePlace`). `Inv` adds to these `SlotCtl`, under
how many encryptions the sectors of a command are at each point of its way, and
`WorkerCtl`: an answer with status 0 that a worker is about to write holds the
transformed sectors of its command, all of them, so that what stays in `buffer_out`
behind a failure is never behind a success. `OnePlace` is needed in the induction:
only because no other worker has the command does it not change between `Read` and
`Write`.

`ImplementsStandardDisk` is the refinement, `SafeSpec => IsStandardDisk`: under `Inv`, a
step of the host, the driver or a worker is a step of `StandardDisk` on the mapped
`content` and `req`, or changes neither. Each action has a lemma (`IssueMaps`,
`ForwardMaps`, `WriteMaps`, `FinishMaps`, `CollectMaps`, `WorkerMaps`); `Seeing` says what
the host sees of a command at each point, `SameValue` that an encryption does not change
it. The worker's steps are invisible, except that a read whose answer is an error fails.

### CsApiProofs

For any number of threads, drives, descriptors and pages, any lengths and counts and
all faults, each invariant of the run `api`: `ApiTypeCorrect`, `NoDescriptorLeaks`,
`MemoryFound`, `OutputBounded`, `PropertiesComplete` and `RequestCopied`. `Inv` is their conjunction, in four parts: what was returned
(`RetOK`), descriptors (`ProcessOK`), memory (`MemoryOK`) and calls (`CallOK`). A
descriptor passes from free to a call and back (`UseOpened`, `UseClosed`), a page from
the drive to a call to the caller; every other step leaves both alone (`AsideStep`,
`UsesNone`, `HoldsNone`). The numbers 80 and 204 are found by the arithmetic of
`PropertiesRet` and `QueueStep`.

### ComputeSessionProofs

For any number of processes, programs and iterations, any sizes of pages, device memory
and `int` and any files and faults with `SessionAssumption`, and any function of the drive:
`SessionTypeCorrect` (`TypeOK`), `MemoryExclusive` (`ExclusiveMemory`) and `ReadIsMapped`
(`ReadFitsMapping`). `ExclusiveMemory` is not inductive: a request that timed out in an
earlier run writes to a page that must not have been given to anyone since. `Inv` says
that whatever was given out stays taken and is in one array (`PartsCtl`), that a request
writes only to such memory, and only to what is nobody's now or the result of a process
that would issue the same request again (`JobMem`), that a process waits for one request
(`JobLive`), and what it has allocated at each point, as large as `csAllocMem` understood
its size (`Shape`). The allocations are in words and the drive's pages are numbers, so the
proofs rest on the lemmas about quotients and remainders (`DivUnique`, `InPages`,
`Addressed`, `Aligned`, `SizeFits`).

`ChecksumIsOfFile` is `PrintsFileChecksum` under `SteadyFile`: `pread` does not fail and the
file does not change (without the first of these the run `session_read` has a
counterexample), at least one iteration is asked for, and the file is smaller than 2^32
bytes. Failing commands, timeouts and a failing `/dev/mem` stay allowed. `AllData` says that
a process that has read its file has it in device memory, and its checksum once a request
has succeeded; a request of anyone that is executed late leaves both alone or writes the
same checksum again (`Harmless`). TLC checked `Inv` and `AllData` under the constants of
`session_safe`, and `Inv` under those of `session_ends`, before they were proved.

### LatencyDumpProofs

For any length of a record, number of commands, default size, answer of the driver and
length of a read with `LatencyAssumption`: `DumpTypeCorrect` (`TypeOK`) and `LinesCorrect`
(`LinesAreRecords`). The lines are right at the end only because every piece that was read
was: `Inv` says that the driver's records are those since the last clear (`Recorded`), that
every word read belongs to the record that was there when the user looked, if that one was
recorded by then (`Copied`), that the buffers are read no further than their size (`Limits`)
and, unless something was cut, up to it, and stand in the file (`Whole`). `InRecord`, `WordOf`
and `Piece` relate the place of a word in the buffer, in a piece of it and in a record. TLC
checked `Inv` under the constants of `latency` first.

### Only model-checked

Every safety property of a passing run has a theorem (`PrintsFileChecksum` under
`SteadyFile`, which `session_safe` satisfies). The liveness properties `Hangup`,
`ServiceEnd`, `Completes` and `EveryRunEnds`, the deliveries that `UpPipe` and `DownPipe` add
to `UpInOrder` and `DownInOrder`, and everything else that needs fairness or ENABLED are
out of the prover's reach and stay with TLC. So do the three violated properties, which
are shown by their counterexamples.

## 5. Not modelled, and why

- Several clients on the listening socket: the code accepts one, the others wait in
  the backlog until the process ends.
- A service that half-closes: the drive's behaviour is not in the repository.
- The bytes of commands, `strncpy` of node and service names, printing, timing.
- The relation between a character device's read size and `data_size` (lines 351, 363
  of `firmware/crypt/main.c`): the driver hands over whole commands.
- The contents of properties and capabilities, and their lengths: the demos only test
  the first CSE and the checksum bit, and end if they are missing, as after a failure.
- A completion's command identifier, which the worker never sets: the driver pairs
  answers with commands by order.
- `CDW10` bit 0, which routes compute requests to user space: compiled to 0.
- A NULL `CSEName` or `CSEHandle`, on which `csGetCSEFromCSx` and `csOpenCSE` crash.
- `ByteOffset` of a device memory argument: the programs pass 0.
- Requests with a negative number of arguments, which `get_request_size` turns into a
  huge size; the deprecated `tsp_nvme_get_csx_request`, which nothing calls, and the
  code under `#if 0`.
- A caller that uses a buffer after another thread has freed it, or passes a length
  its buffer does not have.
- `SO_REUSEPORT` in the relay: two processes on one port share its clients, and each
  client still has one process and one relay, which is what `RelayFleet` has.
- The endpoint driver itself, the benchmarks (fio command lines), the boards' documents,
  the generated FPGA script and the electronics.

## 6. Plan

Done: the relay with its abstract pipe, the fleet of relays, the crypt workers with the
abstract disk, the API under any caller and as the demos use it, the latency tools; proofs
of every safety property that a run checks, of the relay's refinement of the pipe in both
directions and of the disk's of the standard disk.

Next:

1. What a host may conclude from `IsStandardDisk`, stated of `StandardDisk` alone: a read
   that nothing overlaps returns what was written last.
2. For `ComputeSession`, the part of `PrintsFileChecksum` that holds with a file that
   changes: the checksum printed is that of some contents the memory had.
3. A request of `ComputeSession` as a step of `CsApi`, so that the two models of the same
   calls are related by more than their source.
