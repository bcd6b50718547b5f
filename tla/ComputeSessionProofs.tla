------------------------ MODULE ComputeSessionProofs ------------------------
(***************************************************************************)
(* What ComputeSession promises for any number of processes, size of the   *)
(* device memory, page and int, any files, any faults and any function     *)
(* that the drive computes.                                                *)
(***************************************************************************)
EXTENDS ComputeSession, TLAPS

Cells(a, n) == a..(a + n - 1)
Part(p, i)  == PagesOf(ses[p].buf[i], ses[p].mapped[i])

\* What a process has allocated at each point, and how much: the first array is
\* as large as csAllocMem understood it.
Shape(s) ==
    /\ s.pc \in {"stopped", "path", "open", "props", "caps", "function", "stat"} => s.buf = <<>>
    /\ s.pc \in {"function", "stat", "alloc", "read"} => s.prog = "checksum"
    /\ s.pc = "alloc" => Len(s.buf) <= 1
    /\ s.pc = "read" => Len(s.buf) = 2
    /\ s.pc \in {"loop", "wait"} => Len(s.buf) = IF s.prog = "checksum" THEN 2 ELSE 0
    /\ Len(s.buf) >= 1 => s.mapped[1] = ToInt(Align(s.size))

\* What was ever given out stays taken, and is given to one array only.
PartsCtl ==
    /\ \A p \in Proc : \A i \in DOMAIN ses[p].buf : Part(p, i) \subseteq taken
    /\ \A p, q \in Proc : \A i \in DOMAIN ses[p].buf, k \in DOMAIN ses[q].buf :
            p # q \/ i # k => Part(p, i) \cap Part(q, k) = {}

\* A request, also one of a run that is over, reads device memory and writes to
\* memory that was given out.  What it writes to is nobody's now, or it is the
\* result of a process that would issue the same request again.
JobMem(j) == j.res # 0 =>
    /\ Written(j) \subseteq taken /\ Cells(j.data, j.len) \subseteq Address
    /\ \A p \in Proc : \A i \in DOMAIN ses[p].buf : Written(j) \cap Part(p, i) # {} =>
            /\ j.p = p /\ i = 2 /\ Len(ses[p].buf) = 2 /\ j.res = ses[p].buf[2]
            /\ j.data = ses[p].buf[1] /\ j.len = ses[p].size % INT_MOD

\* A process waits for one request at most.
Request(p) == IF ses[p].prog = "sleep" THEN SleepRequest(p) ELSE ChecksumRequest(p)
JobLive(j) == j.live => ses[j.p].pc = "wait" /\ j = Request(j.p)

Inv == /\ TypeOK /\ PartsCtl
       /\ \A p \in Proc : Shape(ses[p])
       /\ \A j \in jobs : JobMem(j) /\ JobLive(j)

-----------------------------------------------------------------------------
(* Arithmetic                                                              *)

\* A quotient, and its remainder.
LEMMA DivMod ==
    ASSUME NEW n \in Int, NEW d \in Nat \ {0}
    PROVE  /\ n \div d \in Int /\ n % d \in 0..(d - 1)
           /\ n = d * (n \div d) + (n % d)
  OBVIOUS

\* They are the only ones.
LEMMA DivUnique ==
    ASSUME NEW d \in Nat \ {0}, NEW q \in Int, NEW r \in 0..(d - 1), NEW n, n = d * q + r
    PROVE  n \div d = q /\ n % d = r
  OBVIOUS

\* A larger number has no smaller quotient.
LEMMA DivMonotone ==
    ASSUME NEW a \in Int, NEW b \in Int, a <= b, NEW d \in Nat \ {0}
    PROVE  a \div d <= b \div d
  OBVIOUS

\* A word of an allocation is in one of its pages.
LEMMA InPages ==
    ASSUME NEW a \in Nat, NEW n \in Nat, NEW w \in Cells(a, n)
    PROVE  w \in Nat /\ w \div PAGE \in PagesOf(a, n)
  <1>1. w \in Nat /\ a <= w /\ w <= a + n - 1 /\ n # 0
    BY DEF Cells
  <1> DEFINE last == a + n - 1
  <1>0. a \in Int /\ w \in Int /\ last \in Int /\ PAGE \in Nat \ {0} /\ w <= last
    BY <1>1, SessionAssumption
  <1> HIDE DEF last
  <1>2. a \div PAGE <= w \div PAGE
    BY <1>0, <1>1, DivMonotone
  <1>3. w \div PAGE <= last \div PAGE
    BY <1>0, DivMonotone
  <1>4. a \div PAGE \in Int /\ w \div PAGE \in Int /\ last \div PAGE \in Int
    BY <1>0, DivMod
  <1>5. QED
    BY <1>1, <1>2, <1>3, <1>4 DEF PagesOf, last

\* A word in a page of the drive is a word of device memory.
LEMMA Addressed ==
    ASSUME NEW w \in Nat, w \div PAGE \in 1..Pages
    PROVE  w \in Address
  <1>1. PICK q \in 1..Pages : q = w \div PAGE
    OBVIOUS
  <1>2. PAGE * q <= w /\ w < PAGE * q + PAGE
    BY <1>1, SessionAssumption
  <1>3. PAGE <= PAGE * q /\ PAGE * q + PAGE <= (Pages + 1) * PAGE
    BY SessionAssumption
  <1>4. QED
    BY <1>2, <1>3, SessionAssumption DEF Address

\* __ALIGN rounds up to whole pages, by less than one.
LEMMA Aligned ==
    ASSUME NEW n \in Nat
    PROVE  \E k \in Nat : Align(n) = PAGE * k /\ n <= PAGE * k /\ PAGE * k <= n + PAGE - 1
  <1>1. PICK k \in Int : k = (n + PAGE - 1) \div PAGE
    <2>1. n + PAGE - 1 \in Int /\ PAGE \in Nat \ {0}
      BY SessionAssumption
    <2>2. (n + PAGE - 1) \div PAGE \in Int
      BY <2>1, DivMod
    <2>3. QED
      BY <2>2
  <1>2. PAGE * k <= n + PAGE - 1 /\ n + PAGE - 1 < PAGE * k + PAGE
    BY <1>1, SessionAssumption
  <1>3. Align(n) = PAGE * k
    BY <1>1, SessionAssumption DEF Align
  <1>4. k \in Nat
    BY <1>2, SessionAssumption
  <1>5. QED
    BY <1>2, <1>3, <1>4, SessionAssumption

\* A size of less than 2^32 is passed as it is.
LEMMA Counted ==
    ASSUME NEW n \in Nat, n < INT_MOD
    PROVE  n % INT_MOD = n
  BY SessionAssumption

\* A size that csAllocMem takes for a positive int holds what the request says
\* is there, since both lose the same multiple of 2^32, and the whole file if
\* that is smaller than 2^32 bytes.
LEMMA SizeFits ==
    ASSUME NEW n \in Nat, ToInt(Align(n)) > 0
    PROVE  /\ n % INT_MOD \in Nat /\ n % INT_MOD <= ToInt(Align(n))
           /\ n < INT_MOD => n <= ToInt(Align(n))
  <1>1. PICK k \in Nat : Align(n) = PAGE * k /\ n <= PAGE * k /\ PAGE * k <= n + PAGE - 1
    BY Aligned
  <1> DEFINE m == (PAGE * k) % INT_MOD
             q == (PAGE * k) \div INT_MOD
  <1>2. PAGE * k \in Nat
    BY SessionAssumption
  <1>3. /\ m \in 0..(INT_MOD - 1) /\ q \in Int /\ PAGE * k = INT_MOD * q + m
    BY <1>2, DivMod, SessionAssumption
  <1>4. INT_MOD \div 2 \in Int
    BY SessionAssumption
  <1> HIDE DEF m, q
  <1>5. ToInt(Align(n)) = m /\ m > 0
    <2>1. ToInt(Align(n)) = IF m >= INT_MOD \div 2 THEN m - INT_MOD ELSE m
      BY <1>1 DEF ToInt, m
    <2>2. QED
      BY <2>1, <1>3, <1>4, SessionAssumption
  <1>6. INT_MOD * q <= n
    <2>1. PICK c \in Nat : INT_MOD = PAGE * c
      <3> DEFINE c == INT_MOD \div PAGE
      <3>1. INT_MOD \in Int /\ PAGE \in Nat \ {0} /\ INT_MOD % PAGE = 0
        BY SessionAssumption
      <3>2. c \in Int /\ INT_MOD = PAGE * c + (INT_MOD % PAGE)
        BY <3>1, DivMod
      <3> HIDE DEF c
      <3>3. INT_MOD = PAGE * c
        BY <3>1, <3>2
      <3>4. c \in Nat
        BY <3>2, <3>3, SessionAssumption
      <3>5. QED
        BY <3>3, <3>4
    <2>2. m = PAGE * (k - c * q)
      BY <1>3, <2>1, SessionAssumption
    <2>3. k - c * q >= 1
      BY <1>3, <1>5, <2>2, SessionAssumption
    <2>4. m >= PAGE
      BY <1>3, <2>2, <2>3, SessionAssumption
    <2>5. QED
      BY <1>1, <1>2, <1>3, <2>4, SessionAssumption
  <1>7. n - INT_MOD * q \in 0..m /\ n - INT_MOD * q \in 0..(INT_MOD - 1)
    BY <1>1, <1>2, <1>3, <1>6, SessionAssumption
  <1>8. n % INT_MOD = n - INT_MOD * q
    <2>1. PICK r \in 0..(INT_MOD - 1) : r = n - INT_MOD * q
      BY <1>7
    <2>2. INT_MOD \in Nat \ {0} /\ q \in Int /\ n = INT_MOD * q + r
      BY <1>3, <2>1, SessionAssumption
    <2>3. n % INT_MOD = r
      BY <2>2, DivUnique
    <2>4. QED
      BY <2>1, <2>3
  <1>9. n < INT_MOD => n % INT_MOD = n
    BY Counted
  <1>10. QED
    BY <1>3, <1>5, <1>7, <1>8, <1>9

-----------------------------------------------------------------------------
(* The invariant is inductive                                              *)

\* The steps of a process, or of the drive for it, that give it no memory: it
\* keeps its arrays, or it starts without any.
LEMMA Step ==
    ASSUME Inv, NEW p \in Proc, NEW s \in SesType, ses' = [ses EXCEPT ![p] = s],
           \/ s.buf = <<>> /\ s.mapped = <<>>
           \/ s.buf = ses[p].buf /\ s.mapped = ses[p].mapped /\ s.size = ses[p].size,
           Shape(s), jobs' \subseteq JobType, \A j \in jobs' : JobMem(j),
           \A j \in jobs' : j.live =>
                IF j.p = p THEN /\ s.pc = "wait" /\ s.prog = ses[p].prog
                                /\ s.buf = ses[p].buf /\ s.size = ses[p].size
                                /\ j = Request(p)
                           ELSE JobLive(j),
           taken \subseteq taken', taken' \subseteq 1..Pages,
           mem' \in [Address -> Word], file' \in Files
    PROVE  Inv'
  <1>1. ses \in [Proc -> SesType]
    BY DEF Inv, TypeOK
  <1>2. ses'[p] = s /\ \A q \in Proc \ {p} : ses'[q] = ses[q]
    BY <1>1
  <1>3. ses' \in [Proc -> SesType]
    BY <1>1
  <1>4. \A q \in Proc : Len(ses'[q].buf) = Len(ses'[q].mapped) /\ Len(ses'[q].buf) <= 2
    BY <1>2 DEF Inv, TypeOK
  <1>5. TypeOK'
    BY <1>3, <1>4 DEF TypeOK, SesType, JobType, Pc, Word, Address
  <1>6. ASSUME NEW q \in Proc, NEW i \in DOMAIN ses'[q].buf
        PROVE  /\ ses'[q].buf = ses[q].buf /\ ses'[q].mapped = ses[q].mapped
               /\ ses'[q].size = ses[q].size
    <2>1. CASE q # p
      BY <2>1, <1>2
    <2>2. CASE q = p
      <3>1. s.buf # <<>>
        BY <2>2, <1>2
      <3>2. QED
        BY <2>2, <3>1, <1>2
    <2>3. QED
      BY <2>1, <2>2
  <1>7. ASSUME NEW q \in Proc, NEW i \in DOMAIN ses'[q].buf
        PROVE  i \in DOMAIN ses[q].buf /\ Part(q, i)' = Part(q, i)
    BY <1>6 DEF Part, PagesOf
  <1>8. PartsCtl'
    <2>1. ASSUME NEW q \in Proc, NEW i \in DOMAIN ses'[q].buf
          PROVE  Part(q, i)' \subseteq taken'
      <3>1. Part(q, i) \subseteq taken
        BY <1>7 DEF Inv, PartsCtl
      <3>2. QED
        BY <3>1, <1>7
    <2>2. ASSUME NEW q \in Proc, NEW r \in Proc, NEW i \in DOMAIN ses'[q].buf,
                 NEW k \in DOMAIN ses'[r].buf, q # r \/ i # k
          PROVE  Part(q, i)' \cap Part(r, k)' = {}
      <3>1. Part(q, i) \cap Part(r, k) = {}
        BY <2>2, <1>7 DEF Inv, PartsCtl
      <3>2. QED
        BY <3>1, <1>7
    <2>3. QED
      BY <2>1, <2>2 DEF PartsCtl
  <1>9. \A q \in Proc : Shape(ses'[q])
    BY <1>2 DEF Inv
  <1>10. ASSUME NEW j \in jobs'
         PROVE  JobMem(j)'
    <2>1. SUFFICES ASSUME j.res # 0
                   PROVE  JobMem(j)'
      BY DEF JobMem
    <2>2. Written(j) \subseteq taken' /\ Cells(j.data, j.len) \subseteq Address
      BY <2>1 DEF JobMem
    <2>3. ASSUME NEW q \in Proc, NEW i \in DOMAIN ses'[q].buf, Written(j) \cap Part(q, i)' # {}
          PROVE  /\ j.p = q /\ i = 2 /\ Len(ses'[q].buf) = 2 /\ j.res = ses'[q].buf[2]
                 /\ j.data = ses'[q].buf[1] /\ j.len = ses'[q].size % INT_MOD
      <3>1. i \in DOMAIN ses[q].buf /\ Written(j) \cap Part(q, i) # {}
        BY <2>3, <1>7
      <3>2. /\ j.p = q /\ i = 2 /\ Len(ses[q].buf) = 2 /\ j.res = ses[q].buf[2]
            /\ j.data = ses[q].buf[1] /\ j.len = ses[q].size % INT_MOD
        BY <2>1, <3>1 DEF JobMem
      <3>3. QED
        BY <3>2, <1>6
    <2>4. QED
      BY <2>2, <2>3 DEF JobMem, Written, PagesOf, Cells, Address
  <1>11. ASSUME NEW j \in jobs'
         PROVE  JobLive(j)'
    <2>1. SUFFICES ASSUME j.live
                   PROVE  ses'[j.p].pc = "wait" /\ j = Request(j.p)'
      BY DEF JobLive
    <2>2. j.p \in Proc
      BY DEF JobType
    <2>3. CASE j.p = p
      BY <2>1, <2>3, <1>2
        DEF Request, SleepRequest, ChecksumRequest, csHelperSetComputeArg
    <2>4. CASE j.p # p
      <3>1. ses[j.p].pc = "wait" /\ j = Request(j.p)
        BY <2>1, <2>4 DEF JobLive
      <3>2. QED
        BY <2>2, <2>4, <3>1, <1>2
          DEF Request, SleepRequest, ChecksumRequest, csHelperSetComputeArg
    <2>5. QED
      BY <2>3, <2>4
  <1>12. QED
    BY <1>5, <1>8, <1>9, <1>10, <1>11 DEF Inv, Shape

\* The same, if the process does not wait before and after, and no request is
\* made or ended.
LEMMA Moves ==
    ASSUME Inv, NEW p \in Proc, NEW s \in SesType, ses' = [ses EXCEPT ![p] = s],
           \/ s.buf = <<>> /\ s.mapped = <<>>
           \/ s.buf = ses[p].buf /\ s.mapped = ses[p].mapped /\ s.size = ses[p].size,
           Shape(s), ses[p].pc # "wait", jobs' = jobs,
           taken \subseteq taken', taken' \subseteq 1..Pages,
           mem' \in [Address -> Word], file' \in Files
    PROVE  Inv'
  <1>1. jobs' \subseteq JobType /\ \A j \in jobs' : JobMem(j)
    BY DEF Inv, TypeOK
  <1>2. \A j \in jobs' : JobLive(j) /\ (j.live => j.p # p)
    BY DEF Inv, JobLive
  <1>3. QED
    BY <1>1, <1>2, Step

\* A process goes on, or ends.
LEMMA Goes ==
    ASSUME Inv, NEW p \in Proc, NEW pc \in Pc, Go(p, pc), ses[p].pc # "wait",
           Shape([ses[p] EXCEPT !.pc = pc]), UNCHANGED <<jobs, taken, file>>,
           mem' \in [Address -> Word]
    PROVE  Inv'
  <1> DEFINE s == [ses[p] EXCEPT !.pc = pc]
  <1>1. ses \in [Proc -> SesType] /\ ses[p] \in SesType
    BY DEF Inv, TypeOK
  <1>2. s \in SesType
    BY <1>1 DEF SesType
  <1>3. s.buf = ses[p].buf /\ s.mapped = ses[p].mapped /\ s.size = ses[p].size
    BY <1>1 DEF SesType
  <1>4. ses' = [ses EXCEPT ![p] = s]
    BY DEF Go
  <1>5. taken \subseteq taken' /\ taken' \subseteq 1..Pages /\ file' \in Files
    BY DEF Inv, TypeOK
  <1> HIDE DEF s
  <1>6. Shape(s)
    BY DEF s
  <1>7. QED
    BY <1>2, <1>3, <1>4, <1>5, <1>6, Moves

LEMMA Quits ==
    ASSUME Inv, NEW p \in Proc, NEW stat \in Int, Quit(p, stat), ses[p].pc # "wait",
           taken \subseteq taken', taken' \subseteq 1..Pages, UNCHANGED <<jobs, mem, file>>
    PROVE  Inv'
  <1> DEFINE s == [ses[p] EXCEPT !.pc = "quit", !.status = stat]
  <1>1. ses \in [Proc -> SesType] /\ ses[p] \in SesType /\ Shape(ses[p])
    BY DEF Inv, TypeOK
  <1>2. s \in SesType
    BY <1>1 DEF SesType, Pc
  <1>3. /\ s.buf = ses[p].buf /\ s.mapped = ses[p].mapped /\ s.size = ses[p].size
        /\ s.pc = "quit"
    BY <1>1 DEF SesType
  <1>4. ses' = [ses EXCEPT ![p] = s]
    BY DEF Quit
  <1>5. mem' \in [Address -> Word] /\ file' \in Files
    BY DEF Inv, TypeOK
  <1> HIDE DEF s
  <1>6. Shape(s)
    BY <1>1, <1>3 DEF Shape
  <1>7. QED
    BY <1>2, <1>3, <1>4, <1>5, <1>6, Moves

\* The calls that find the device and the function.
LEMMA Discovers ==
    ASSUME Inv, NEW p \in Proc,
           \/ csGetCSxFromPath(p) \/ csOpenCSx(p) \/ csQueryDeviceProperties(p)
           \/ csQueryDeviceCapabilities(p) \/ csGetFunction(p)
    PROVE  Inv'
  <1>1. /\ ses[p] \in SesType /\ Shape(ses[p]) /\ ses[p].pc # "wait"
        /\ UNCHANGED <<jobs, taken, mem, file>>
    BY DEF Inv, TypeOK, csGetCSxFromPath, csOpenCSx, csQueryDeviceProperties,
           csQueryDeviceCapabilities, csGetFunction
  <1>2. taken' \subseteq 1..Pages /\ mem' \in [Address -> Word]
    BY <1>1 DEF Inv, TypeOK
  <1>3. CASE DeviceFails(p)
    BY <1>1, <1>2, <1>3, Quits DEF DeviceFails, CS_DEVICE_NOT_AVAILABLE
  <1>4. CASE ~DeviceFails(p)
    <2>1. PICK pc \in Pc : Go(p, pc) /\ Shape([ses[p] EXCEPT !.pc = pc])
      <3>1. CASE csGetCSxFromPath(p)
        BY <1>1, <1>4, <3>1 DEF csGetCSxFromPath, Pc, Shape, SesType
      <3>2. CASE csOpenCSx(p)
        BY <1>1, <1>4, <3>2 DEF csOpenCSx, Pc, Shape, SesType
      <3>3. CASE csQueryDeviceProperties(p)
        BY <1>1, <1>4, <3>3 DEF csQueryDeviceProperties, Pc, Shape, SesType
      <3>4. CASE csQueryDeviceCapabilities(p) /\ ses[p].prog = "checksum"
        BY <1>1, <1>4, <3>4 DEF csQueryDeviceCapabilities, Pc, Shape, SesType
      <3>5. CASE csQueryDeviceCapabilities(p) /\ ses[p].prog # "checksum"
        BY <1>1, <1>4, <3>5 DEF csQueryDeviceCapabilities, Pc, Shape, SesType
      <3>6. CASE csGetFunction(p)
        BY <1>1, <1>4, <3>6 DEF csGetFunction, Pc, Shape, SesType
      <3>7. QED
        BY <3>1, <3>2, <3>3, <3>4, <3>5, <3>6
    <2>2. QED
      BY <1>1, <1>2, <2>1, Goes
  <1>5. QED
    BY <1>3, <1>4

LEMMA Starts ==
    ASSUME Inv, NEW p \in Proc, Start(p)
    PROVE  Inv'
  <1>1. PICK prog \in Programs, i \in Int : ses' = [ses EXCEPT ![p] = New(prog, i)]
    <2>1. PICK prog \in Programs :
            \E i \in (IF prog = "checksum" THEN Iterations ELSE {1}) :
              ses' = [ses EXCEPT ![p] = New(prog, i)]
      BY DEF Start
    <2>2. Iterations \subseteq Int /\ {1} \subseteq Int
      BY SessionAssumption
    <2>3. QED
      BY <2>1, <2>2
  <1>2. New(prog, i) \in SesType
    BY SessionAssumption DEF New, SesType, Pc, Word, CS_SUCCESS
  <1>3. New(prog, i).buf = <<>> /\ New(prog, i).mapped = <<>> /\ Shape(New(prog, i))
    BY DEF New, Shape
  <1>4. /\ taken' \subseteq 1..Pages /\ mem' \in [Address -> Word] /\ file' \in Files
        /\ taken \subseteq taken' /\ jobs' = jobs /\ ses[p].pc # "wait"
    BY DEF Inv, TypeOK, Start
  <1>5. QED
    BY <1>1, <1>2, <1>3, <1>4, Moves

LEMMA Stats ==
    ASSUME Inv, NEW p \in Proc, FileSize(p)
    PROVE  Inv'
  <1>1. ses[p] \in SesType /\ Shape(ses[p]) /\ ses[p].pc = "stat" /\ Len(file) \in Nat
    BY SessionAssumption DEF Inv, TypeOK, FileSize
  <1>2. PICK n \in Nat : ses' = [ses EXCEPT ![p].pc = "alloc", ![p].size = n]
    BY <1>1 DEF FileSize
  <1> DEFINE s == [ses[p] EXCEPT !.pc = "alloc", !.size = n]
  <1>3. s \in SesType /\ ses' = [ses EXCEPT ![p] = s]
    BY <1>1, <1>2 DEF SesType, Pc
  <1>4. s.buf = <<>> /\ s.prog = "checksum" /\ s.pc = "alloc"
    BY <1>1 DEF Shape, SesType
  <1>5. s.mapped = <<>>
    <2>1. Len(ses[p].mapped) = 0 /\ ses[p].mapped \in Seq(1..ALLOC_MAX)
      BY <1>1 DEF Inv, TypeOK, Shape, SesType
    <2>2. QED
      BY <1>1, <2>1 DEF SesType
  <1> HIDE DEF s
  <1>6. Shape(s)
    BY <1>4 DEF Shape
  <1>7. /\ taken' \subseteq 1..Pages /\ mem' \in [Address -> Word] /\ file' \in Files
        /\ taken \subseteq taken' /\ jobs' = jobs /\ ses[p].pc # "wait"
    BY <1>1 DEF Inv, TypeOK, FileSize
  <1>8. QED
    BY <1>3, <1>4, <1>5, <1>6, <1>7, Moves

\* The drive gives out pages that are free, and the process has them in a new array.
LEMMA Maps ==
    ASSUME Inv, NEW p \in Proc, ses[p].pc = "alloc", NEW a \in Address,
           NEW n \in 1..ALLOC_MAX, n = Bytes(p), Mapped(p, a),
           NEW pages, pages = PagesOf(a, n), pages \subseteq (1..Pages) \ taken,
           taken' = taken \cup pages, UNCHANGED <<jobs, mem, file>>
    PROVE  Inv'
  <1> DEFINE s == [ses[p] EXCEPT !.pc = IF ses[p].buf = <<>> THEN "alloc" ELSE "read",
                                 !.buf = Append(@, a), !.mapped = Append(@, n)]
  <1>1. /\ ses \in [Proc -> SesType] /\ ses[p] \in SesType /\ Shape(ses[p])
        /\ Len(ses[p].buf) = Len(ses[p].mapped) /\ Len(ses[p].buf) \in 0..1
        /\ ses[p].prog = "checksum"
    <2>1. /\ ses \in [Proc -> SesType] /\ ses[p] \in SesType /\ Shape(ses[p])
          /\ Len(ses[p].buf) = Len(ses[p].mapped)
      BY DEF Inv, TypeOK
    <2>2. Len(ses[p].buf) \in Nat
      BY <2>1 DEF SesType
    <2>3. Len(ses[p].buf) <= 1
      BY <2>1 DEF Shape
    <2>4. ses[p].prog = "checksum"
      BY <2>1 DEF Shape
    <2>5. Len(ses[p].buf) \in 0..1
      <3>1. \A k \in Nat : k <= 1 => k \in 0..1
        OBVIOUS
      <3>2. QED
        BY <2>2, <2>3, <3>1
    <2>6. QED
      BY <2>1, <2>4, <2>5
  <1>2. ses' = [ses EXCEPT ![p] = s]
    BY DEF Mapped
  <1>3. ses'[p] = s /\ \A q \in Proc \ {p} : ses'[q] = ses[q]
    BY <1>1, <1>2
  <1>4. /\ s.pc = (IF ses[p].buf = <<>> THEN "alloc" ELSE "read")
        /\ s.buf = Append(ses[p].buf, a) /\ s.mapped = Append(ses[p].mapped, n)
        /\ s.prog = "checksum" /\ s.size = ses[p].size /\ s.size \in Nat
        /\ s.left \in Int /\ s.status \in Int /\ s.result \in Word
        /\ DOMAIN s = {"pc", "prog", "left", "size", "buf", "mapped", "status", "result"}
    BY <1>1 DEF SesType
  <1>5. s \in SesType
    <2>1. ses[p].buf \in Seq(Address) /\ ses[p].mapped \in Seq(1..ALLOC_MAX)
      BY <1>1 DEF SesType
    <2>2. /\ Append(ses[p].buf, a) \in Seq(Address)
          /\ Append(ses[p].mapped, n) \in Seq(1..ALLOC_MAX)
      BY <2>1
    <2>3. (IF ses[p].buf = <<>> THEN "alloc" ELSE "read") \in Pc
      BY DEF Pc
    <2>4. QED
      BY <1>1, <2>2, <2>3 DEF SesType
  <1> HIDE DEF s
  <1>6. /\ Len(s.buf) = Len(ses[p].buf) + 1 /\ Len(s.mapped) = Len(s.buf)
        /\ s.buf[Len(s.buf)] = a /\ s.mapped[Len(s.buf)] = n
        /\ \A i \in DOMAIN ses[p].buf : s.buf[i] = ses[p].buf[i] /\ s.mapped[i] = ses[p].mapped[i]
        /\ DOMAIN ses[p].buf = 1..Len(ses[p].buf) /\ DOMAIN s.buf = 1..Len(s.buf)
    BY <1>1, <1>4 DEF SesType
  <1>7. ses' \in [Proc -> SesType]
    BY <1>1, <1>2, <1>5
  <1>8. TypeOK'
    <2>1. \A q \in Proc : Len(ses'[q].buf) = Len(ses'[q].mapped) /\ Len(ses'[q].buf) <= 2
      BY <1>1, <1>3, <1>6 DEF Inv, TypeOK
    <2>2. taken' \subseteq 1..Pages
      BY DEF Inv, TypeOK
    <2>3. QED
      BY <1>7, <2>1, <2>2 DEF Inv, TypeOK, SesType, JobType, Pc, Word, Address
  <1>9. Shape(s)
    <2>1. CASE ses[p].buf = <<>>
      <3>1. s.pc = "alloc" /\ Len(s.buf) = 1 /\ s.mapped[1] = n
        BY <1>4, <1>6, <2>1
      <3>2. n = ToInt(Align(s.size))
        BY <1>4, <2>1 DEF Bytes
      <3>3. QED
        BY <1>4, <3>1, <3>2 DEF Shape
    <2>2. CASE ses[p].buf # <<>>
      <3>1. Len(ses[p].buf) = 1
        BY <1>1, <2>2 DEF SesType
      <3>2. s.pc = "read" /\ Len(s.buf) = 2 /\ s.mapped[1] = ses[p].mapped[1]
        BY <1>4, <1>6, <2>2, <3>1
      <3>3. ses[p].mapped[1] = ToInt(Align(s.size))
        BY <1>1, <1>4, <3>1 DEF Shape
      <3>4. QED
        BY <1>4, <3>2, <3>3 DEF Shape
    <2>3. QED
      BY <2>1, <2>2
  <1>10. \A q \in Proc : Shape(ses'[q])
    BY <1>3, <1>9 DEF Inv
  <1> DEFINE fresh(q, i) == q = p /\ i = Len(s.buf)
  <1>11. \A q \in Proc : \A i \in DOMAIN ses'[q].buf :
              ~fresh(q, i) => i \in DOMAIN ses[q].buf /\ Part(q, i)' = Part(q, i)
    <2>1. ASSUME NEW q \in Proc, NEW i \in DOMAIN ses'[q].buf, ~fresh(q, i)
          PROVE  i \in DOMAIN ses[q].buf /\ Part(q, i)' = Part(q, i)
      <3>1. CASE q # p
        BY <3>1, <1>3 DEF Part, PagesOf
      <3>2. CASE q = p
        <4>1. i \in DOMAIN ses[q].buf
          BY <1>1, <1>3, <1>6, <2>1, <3>2
        <4>2. ses'[q].buf[i] = ses[q].buf[i] /\ ses'[q].mapped[i] = ses[q].mapped[i]
          BY <1>3, <1>6, <3>2, <4>1
        <4>3. QED
          BY <4>1, <4>2 DEF Part, PagesOf
      <3>3. QED
        BY <3>1, <3>2
    <2>2. QED
      BY <2>1
  <1>12. \A q \in Proc : \A i \in DOMAIN ses'[q].buf : fresh(q, i) => Part(q, i)' = pages
    BY <1>3, <1>6 DEF Part, PagesOf
  <1>13. \A q \in Proc : \A i \in DOMAIN ses'[q].buf :
              ~fresh(q, i) => Part(q, i)' \subseteq taken
    BY <1>11 DEF Inv, PartsCtl
  <1> HIDE DEF fresh
  <1>14. PartsCtl'
    <2>1. ASSUME NEW q \in Proc, NEW i \in DOMAIN ses'[q].buf
          PROVE  Part(q, i)' \subseteq taken'
      BY <1>12, <1>13
    <2>2. ASSUME NEW q \in Proc, NEW r \in Proc, NEW i \in DOMAIN ses'[q].buf,
                 NEW k \in DOMAIN ses'[r].buf, q # r \/ i # k
          PROVE  Part(q, i)' \cap Part(r, k)' = {}
      <3>1. ~fresh(q, i) \/ ~fresh(r, k)
        BY <2>2 DEF fresh
      <3>2. CASE ~fresh(q, i) /\ ~fresh(r, k)
        <4>1. Part(q, i) \cap Part(r, k) = {}
          BY <2>2, <3>2, <1>11 DEF Inv, PartsCtl
        <4>2. QED
          BY <3>2, <4>1, <1>11
      <3>3. CASE fresh(q, i) /\ ~fresh(r, k)
        BY <3>3, <1>12, <1>13
      <3>4. CASE ~fresh(q, i) /\ fresh(r, k)
        BY <3>4, <1>12, <1>13
      <3>5. QED
        BY <3>1, <3>2, <3>3, <3>4
    <2>3. QED
      BY <2>1, <2>2 DEF PartsCtl
  <1>15. ASSUME NEW j \in jobs
         PROVE  JobMem(j)'
    <2>1. SUFFICES ASSUME j.res # 0
                   PROVE  JobMem(j)'
      BY DEF JobMem
    <2>2. Written(j) \subseteq taken /\ Cells(j.data, j.len) \subseteq Address
      BY <2>1 DEF JobMem, Inv
    <2>3. ASSUME NEW q \in Proc, NEW i \in DOMAIN ses'[q].buf, Written(j) \cap Part(q, i)' # {}
          PROVE  /\ j.p = q /\ i = 2 /\ Len(ses'[q].buf) = 2 /\ j.res = ses'[q].buf[2]
                 /\ j.data = ses'[q].buf[1] /\ j.len = ses'[q].size % INT_MOD
      <3>1. ~fresh(q, i)
        BY <2>2, <2>3, <1>12
      <3>2. i \in DOMAIN ses[q].buf /\ Written(j) \cap Part(q, i) # {}
        BY <2>3, <3>1, <1>11
      <3>3. /\ j.p = q /\ i = 2 /\ Len(ses[q].buf) = 2 /\ j.res = ses[q].buf[2]
            /\ j.data = ses[q].buf[1] /\ j.len = ses[q].size % INT_MOD
        BY <2>1, <3>2 DEF JobMem, Inv
      <3>4. q # p
        BY <1>1, <3>3
      <3>5. QED
        BY <3>3, <3>4, <1>3
    <2>4. QED
      BY <2>2, <2>3 DEF JobMem, Written, PagesOf, Cells, Address
  <1>16. ASSUME NEW j \in jobs
         PROVE  JobLive(j)'
    <2>1. SUFFICES ASSUME j.live
                   PROVE  ses'[j.p].pc = "wait" /\ j = Request(j.p)'
      BY DEF JobLive
    <2>2. j.p \in Proc /\ ses[j.p].pc = "wait" /\ j = Request(j.p)
      BY <2>1 DEF Inv, TypeOK, JobLive, JobType
    <2>3. j.p # p
      BY <2>2
    <2>4. QED
      BY <2>2, <2>3, <1>3 DEF Request, SleepRequest, ChecksumRequest, csHelperSetComputeArg
  <1>17. QED
    BY <1>8, <1>10, <1>14, <1>15, <1>16 DEF Inv, Shape

LEMMA Allocates ==
    ASSUME Inv, NEW p \in Proc, csAllocMem(p)
    PROVE  Inv'
  <1>1. /\ ses[p].pc = "alloc" /\ UNCHANGED <<jobs, mem, file>> /\ taken \subseteq 1..Pages
    BY DEF Inv, TypeOK, csAllocMem
  <1>2. CASE \E stat \in Int : Quit(p, stat) /\ UNCHANGED taken
    BY <1>1, <1>2, Quits
  <1>3. CASE /\ Bytes(p) \in 1..ALLOC_MAX
             /\ \E a \in Address :
                   /\ tsp_allocate_memory(p, a)
                   /\ \/ DeviceFails(p)
                      \/ Fails("map") /\ Quit(p, CS_COULD_NOT_MAP_MEMORY)
                      \/ Mapped(p, a)
    <2>1. PICK a \in Address :
                   /\ tsp_allocate_memory(p, a)
                   /\ \/ \E stat \in Int : Quit(p, stat)
                      \/ Mapped(p, a)
      BY <1>3 DEF DeviceFails, CS_DEVICE_NOT_AVAILABLE, CS_COULD_NOT_MAP_MEMORY
    <2>2. PICK n \in 1..ALLOC_MAX : n = Bytes(p)
      BY <1>3
    <2>3. PICK pages : pages = PagesOf(a, n)
      OBVIOUS
    <2>4. pages \subseteq (1..Pages) \ taken /\ taken' = taken \cup pages
      BY <2>1, <2>2, <2>3 DEF tsp_allocate_memory, FreeAt
    <2>5. taken \subseteq taken' /\ taken' \subseteq 1..Pages
      BY <1>1, <2>4
    <2>6. CASE \E stat \in Int : Quit(p, stat)
      BY <1>1, <2>5, <2>6, Quits
    <2>7. CASE Mapped(p, a)
      BY <1>1, <2>2, <2>3, <2>4, <2>7, Maps
    <2>8. QED
      BY <2>1, <2>6, <2>7
  <1>4. QED
    BY <1>2, <1>3 DEF csAllocMem, NoMemory, DeviceFails, CS_INVALID_ARG,
                      CS_NOT_ENOUGH_MEMORY, CS_DEVICE_NOT_AVAILABLE

\* The elements of a pair.
LEMMA Elements ==
    ASSUME NEW S, NEW q \in Seq(S), Len(q) = 2
    PROVE  q[1] \in S /\ q[2] \in S
  <1>1. q[1] \in S
    OBVIOUS
  <1>2. q[2] \in S
    OBVIOUS
  <1>3. QED
    BY <1>1, <1>2

\* There is a least of three numbers.
LEMMA Least ==
    ASSUME NEW a \in Nat, NEW b \in Nat, NEW c \in Nat,
           NEW n, n = CHOOSE x \in {a, b, c} : \A y \in {a, b, c} : x <= y
    PROVE  n \in {a, b, c} /\ n <= a /\ n <= b /\ n <= c
  <1>1. \E x \in {a, b, c} : \A y \in {a, b, c} : x <= y
    <2>1. CASE a <= b /\ a <= c
      BY <2>1
    <2>2. CASE b <= a /\ b <= c
      BY <2>2
    <2>3. CASE c <= a /\ c <= b
      BY <2>3
    <2>4. QED
      BY <2>1, <2>2, <2>3
  <1>2. n \in {a, b, c} /\ \A y \in {a, b, c} : n <= y
    BY <1>1
  <1>3. QED
    BY <1>2

\* What pread() does to the mapping: it fills it from its start, with no more
\* than the file has, the size the file had and the mapping holds.
LEMMA Loads ==
    ASSUME Inv, NEW p \in Proc, ReadFile(p)
    PROVE  /\ ses[p].pc = "read" /\ UNCHANGED <<jobs, taken, file>>
           /\ \/ Quit(p, CS_SUCCESS) /\ UNCHANGED mem
              \/ /\ Go(p, "loop")
                 /\ \E n \in Nat :
                       /\ n <= Len(file) /\ n <= ses[p].size /\ n <= ses[p].mapped[1]
                       /\ "io" \in Faults \/ n \in {Len(file), ses[p].size, ses[p].mapped[1]}
                       /\ mem' = [a \in Address |-> IF a \in Cells(ses[p].buf[1], n)
                                     THEN file[a - ses[p].buf[1] + 1] ELSE mem[a]]
  <1> DEFINE S    == {Len(file), ses[p].size, ses[p].mapped[1]}
             base == ses[p].buf[1]
             load(n) == mem' = [a \in Address |-> IF a \in Cells(base, n)
                                     THEN file[a - base + 1] ELSE mem[a]]
  <1>1. ses[p].pc = "read" /\ UNCHANGED <<jobs, taken, file>>
    BY DEF ReadFile
  <1>2. Len(file) \in Nat /\ ses[p].size \in Nat /\ ses[p].mapped[1] \in Nat
    <2>1. ses[p] \in SesType /\ Shape(ses[p]) /\ file \in Files
          /\ Len(ses[p].buf) = Len(ses[p].mapped)
      BY DEF Inv, TypeOK
    <2>2. Len(file) \in Nat
      BY <2>1, SessionAssumption
    <2>3. Len(ses[p].mapped) = 2
      BY <1>1, <2>1 DEF Shape
    <2>4. ses[p].mapped[1] \in 1..ALLOC_MAX
      <3>1. ses[p].mapped \in Seq(1..ALLOC_MAX)
        BY <2>1 DEF SesType
      <3>2. QED
        BY <2>3, <3>1, Elements
    <2>5. QED
      BY <2>1, <2>2, <2>4, SessionAssumption DEF SesType
  <1>3. PICK full : full = CHOOSE x \in S : \A y \in S : x <= y
    OBVIOUS
  <1>4. full \in S /\ full <= Len(file) /\ full <= ses[p].size /\ full <= ses[p].mapped[1]
    BY <1>2, <1>3, Least
  <1>5. full \in Nat
    BY <1>2, <1>4
  <1> HIDE DEF S
  <1>6. \/ Quit(p, CS_SUCCESS) /\ UNCHANGED mem
        \/ Go(p, "loop") /\ load(full)
        \/ "io" \in Faults /\ Go(p, "loop") /\ \E n \in 0..full : load(n)
    BY <1>3 DEF ReadFile, Cells, Fails, S
  <1> HIDE DEF load
  <1>7. CASE Quit(p, CS_SUCCESS) /\ UNCHANGED mem
    BY <1>1, <1>7
  <1>8. CASE Go(p, "loop") /\ load(full)
    BY <1>1, <1>4, <1>5, <1>8 DEF S, load
  <1>9. CASE "io" \in Faults /\ Go(p, "loop") /\ \E n \in 0..full : load(n)
    <2>1. PICK n \in 0..full : load(n)
      BY <1>9
    <2>2. n \in Nat /\ n <= Len(file) /\ n <= ses[p].size /\ n <= ses[p].mapped[1]
      BY <1>2, <1>4, <1>5
    <2>3. QED
      BY <1>1, <1>9, <2>1, <2>2 DEF load
  <1>10. QED
    BY <1>6, <1>7, <1>8, <1>9

LEMMA Reads ==
    ASSUME Inv, NEW p \in Proc, ReadFile(p)
    PROVE  Inv'
  <1>1. /\ ses[p] \in SesType /\ Shape(ses[p]) /\ ses[p].pc = "read"
        /\ UNCHANGED <<jobs, taken, file>> /\ taken \subseteq 1..Pages
        /\ mem \in [Address -> Word] /\ file \in Seq(Word)
    BY Loads, SessionAssumption DEF Inv, TypeOK, Word
  <1>2. CASE Quit(p, CS_SUCCESS) /\ UNCHANGED mem
    BY <1>1, <1>2, Quits DEF CS_SUCCESS
  <1>3. CASE ~(Quit(p, CS_SUCCESS) /\ UNCHANGED mem)
    <2>1. PICK n \in Nat :
            /\ Go(p, "loop") /\ n <= Len(file)
            /\ mem' = [a \in Address |-> IF a \in Cells(ses[p].buf[1], n)
                          THEN file[a - ses[p].buf[1] + 1] ELSE mem[a]]
      BY <1>3, Loads
    <2>2. PICK base \in Int : base = ses[p].buf[1]
      <3>1. Len(ses[p].buf) = 2 /\ ses[p].buf \in Seq(Address)
        BY <1>1 DEF Shape, SesType
      <3>2. ses[p].buf[1] \in Address
        BY <3>1
      <3>3. QED
        BY <3>2, SessionAssumption DEF Address
    <2>3. ASSUME NEW a \in Address
          PROVE  (IF a \in Cells(base, n) THEN file[a - base + 1] ELSE mem[a]) \in Word
      <3>1. CASE a \in Cells(base, n)
        <4>1. a \in Int /\ base <= a /\ a <= base + n - 1
          BY <3>1, SessionAssumption DEF Cells, Address
        <4>2. a - base + 1 \in 1..Len(file)
          BY <1>1, <2>1, <4>1
        <4>3. file[a - base + 1] \in Word
          BY <1>1, <4>2
        <4>4. QED
          BY <3>1, <4>3
      <3>2. CASE a \notin Cells(base, n)
        BY <1>1, <3>2
      <3>3. QED
        BY <3>1, <3>2
    <2>4. mem' \in [Address -> Word]
      BY <2>1, <2>2, <2>3
    <2>5. "loop" \in Pc /\ Shape([ses[p] EXCEPT !.pc = "loop"])
      BY <1>1 DEF Shape, SesType, Pc
    <2>6. QED
      BY <1>1, <2>1, <2>4, <2>5, Goes
  <1>4. QED
    BY <1>2, <1>3

\* The content of the file does not matter here.
LEMMA Edits ==
    ASSUME Inv, UNCHANGED <<ses, jobs, taken, mem>>, file' \in Files
    PROVE  Inv'
  <1>1. UNCHANGED <<ses, jobs, taken, mem>>
    OBVIOUS
  <1>2. TypeOK' /\ PartsCtl'
    BY <1>1 DEF Inv, TypeOK, PartsCtl, Part, PagesOf, SesType, JobType, Pc, Word, Address
  <1>3. \A j \in jobs : JobMem(j)' /\ JobLive(j)'
    BY <1>1 DEF Inv, JobMem, JobLive, Written, Cells, Part, PagesOf, Address, Request,
                SleepRequest, ChecksumRequest, csHelperSetComputeArg
  <1>4. QED
    BY <1>1, <1>2, <1>3 DEF Inv, Shape

\* The two arrays of a process that computes a checksum: the first one holds
\* the data of its request, and the second one is not the first one.
LEMMA Arrays ==
    ASSUME Inv, NEW p \in Proc, Len(ses[p].buf) = 2
    PROVE  /\ ses[p].buf[1] \in Address /\ ses[p].buf[2] \in Address
           /\ ses[p].mapped[1] \in 1..ALLOC_MAX
           /\ ses[p].size % INT_MOD \in Nat /\ ses[p].size % INT_MOD <= ses[p].mapped[1]
           /\ ses[p].size < INT_MOD => ses[p].size <= ses[p].mapped[1]
           /\ PagesOf(ses[p].buf[2], 1) \subseteq Part(p, 2)
           /\ \A w \in Cells(ses[p].buf[1], ses[p].mapped[1]) :
                    w \in Address /\ w \div PAGE \in Part(p, 1)
           /\ Part(p, 1) \subseteq taken /\ Part(p, 2) \subseteq taken
           /\ Part(p, 1) \cap Part(p, 2) = {}
  <1>1. /\ ses[p].buf \in Seq(Address) /\ ses[p].mapped \in Seq(1..ALLOC_MAX)
        /\ ses[p].size \in Nat /\ Len(ses[p].mapped) = 2 /\ Shape(ses[p])
        /\ taken \subseteq 1..Pages
    BY DEF Inv, TypeOK, SesType
  <1>2. PICK a \in Address, b \in Address, m \in 1..ALLOC_MAX, n \in 1..ALLOC_MAX :
            a = ses[p].buf[1] /\ b = ses[p].buf[2] /\ m = ses[p].mapped[1] /\ n = ses[p].mapped[2]
    <2>1. ses[p].buf[1] \in Address /\ ses[p].buf[2] \in Address
      BY <1>1, Elements
    <2>2. ses[p].mapped[1] \in 1..ALLOC_MAX /\ ses[p].mapped[2] \in 1..ALLOC_MAX
      BY <1>1, Elements
    <2>3. QED
      BY <2>1, <2>2
  <1>3. a \in Nat /\ b \in Nat /\ m \in Nat /\ n \in Nat /\ m > 0 /\ n > 0
    BY SessionAssumption DEF Address
  <1>4. Part(p, 1) = PagesOf(a, m) /\ Part(p, 2) = PagesOf(b, n)
    BY <1>2 DEF Part
  <1>5. /\ Part(p, 1) \subseteq taken /\ Part(p, 2) \subseteq taken
        /\ Part(p, 1) \cap Part(p, 2) = {}
    <2>1. 1 \in DOMAIN ses[p].buf /\ 2 \in DOMAIN ses[p].buf
      BY <1>1
    <2>2. QED
      BY <2>1 DEF Inv, PartsCtl
  <1>6. m = ToInt(Align(ses[p].size))
    BY <1>1, <1>2 DEF Shape
  <1>7. /\ ses[p].size % INT_MOD \in Nat /\ ses[p].size % INT_MOD <= m
        /\ ses[p].size < INT_MOD => ses[p].size <= m
    BY <1>1, <1>3, <1>6, SizeFits
  <1>8. PagesOf(b, 1) \subseteq PagesOf(b, n)
    <2>1. b \in Cells(b, n) /\ b + 1 - 1 = b
      BY <1>3 DEF Cells
    <2>2. b \div PAGE \in PagesOf(b, n)
      BY <1>3, <2>1, InPages
    <2>3. PICK q \in Int : q = b \div PAGE
      BY <1>3, SessionAssumption
    <2>4. PagesOf(b, 1) = {q}
      BY <2>1, <2>3 DEF PagesOf
    <2>5. QED
      BY <2>2, <2>3, <2>4
  <1>9. ASSUME NEW w \in Cells(a, m)
        PROVE  w \in Address /\ w \div PAGE \in PagesOf(a, m)
    <2>1. w \in Nat /\ w \div PAGE \in PagesOf(a, m)
      BY <1>3, InPages
    <2>2. w \div PAGE \in 1..Pages
      BY <1>1, <1>4, <1>5, <2>1
    <2>3. QED
      BY <2>1, <2>2, Addressed
  <1>10. QED
    BY <1>2, <1>4, <1>5, <1>7, <1>8, <1>9

LEMMA Finishes ==
    ASSUME Inv, NEW p \in Proc, Finish(p)
    PROVE  Inv'
  <1>1. /\ ses[p] \in SesType /\ Shape(ses[p]) /\ ses[p].pc = "loop"
        /\ UNCHANGED <<jobs, taken, mem, file>> /\ taken \subseteq 1..Pages
        /\ mem \in [Address -> Word] /\ file \in Files
    BY DEF Inv, TypeOK, Finish
  <1>2. CASE Go(p, "quit")
    <2>1. "quit" \in Pc /\ Shape([ses[p] EXCEPT !.pc = "quit"])
      BY <1>1 DEF Shape, SesType, Pc
    <2>2. QED
      BY <1>1, <1>2, <2>1, Goes
  <1>3. CASE ~Go(p, "quit")
    <2>1. PICK r : /\ r = IF ses[p].prog = "sleep" THEN ses[p].result ELSE mem[ses[p].buf[2]]
                   /\ ses' = [ses EXCEPT ![p].pc = "done", ![p].result = r]
      BY <1>3 DEF Finish
    <2>2. r \in Word
      <3>1. CASE ses[p].prog = "sleep"
        BY <1>1, <2>1, <3>1 DEF SesType
      <3>2. CASE ses[p].prog = "checksum"
        <4>1. Len(ses[p].buf) = 2
          BY <1>1, <3>2 DEF Shape
        <4>2. ses[p].buf[2] \in Address
          BY <4>1, Arrays
        <4>3. QED
          BY <1>1, <2>1, <3>2, <4>2
      <3>3. QED
        BY <1>1, <3>1, <3>2 DEF SesType
    <2> DEFINE s == [ses[p] EXCEPT !.pc = "done", !.result = r]
    <2>3. s \in SesType /\ ses' = [ses EXCEPT ![p] = s]
      BY <1>1, <2>1, <2>2 DEF SesType, Pc
    <2>4. s.buf = ses[p].buf /\ s.mapped = ses[p].mapped /\ s.size = ses[p].size /\ s.pc = "done"
      BY <1>1 DEF SesType
    <2> HIDE DEF s
    <2>5. Shape(s)
      BY <1>1, <2>4 DEF Shape
    <2>6. QED
      BY <1>1, <2>3, <2>4, <2>5, Moves
  <1>4. QED
    BY <1>2, <1>3

LEMMA Queues ==
    ASSUME Inv, NEW p \in Proc, csQueueComputeRequest(p)
    PROVE  Inv'
  <1>1. /\ ses[p] \in SesType /\ Shape(ses[p]) /\ ses[p].pc = "loop"
        /\ UNCHANGED <<taken, mem, file>> /\ taken \subseteq 1..Pages
        /\ mem \in [Address -> Word] /\ file \in Files /\ jobs \subseteq JobType
    BY DEF Inv, TypeOK, csQueueComputeRequest
  <1>2. jobs' = jobs \cup {Request(p)}
    BY DEF csQueueComputeRequest, Request
  <1>3. Request(p).p = p /\ Request(p).live
    BY DEF Request, SleepRequest, ChecksumRequest
  <1>4. Request(p) \in JobType /\ JobMem(Request(p))
    <2>1. CASE ses[p].prog = "sleep"
      <3>1. Request(p) = [p |-> p, live |-> TRUE, data |-> 0, len |-> 0, res |-> 0]
        BY <2>1 DEF Request, SleepRequest
      <3>2. QED
        BY <3>1 DEF JobType, JobMem
    <2>2. CASE ses[p].prog = "checksum"
      <3>1. Len(ses[p].buf) = 2
        BY <1>1, <2>2 DEF Shape
      <3>2. PICK a \in Address, b \in Address, n \in Nat :
                a = ses[p].buf[1] /\ b = ses[p].buf[2] /\ n = ses[p].size % INT_MOD
        BY <3>1, Arrays
      <3>3. Request(p) = [p |-> p, live |-> TRUE, data |-> a, len |-> n, res |-> b]
        BY <2>2, <3>2 DEF Request, ChecksumRequest, csHelperSetComputeArg
      <3>4. a \in Nat /\ b \in Nat /\ b # 0
        BY SessionAssumption DEF Address
      <3>5. Request(p) \in JobType
        BY <3>3, <3>4 DEF JobType
      <3>6. PICK m \in Nat : m = ses[p].mapped[1] /\ n <= m
        BY <3>1, <3>2, Arrays
      <3>7. Cells(a, n) \subseteq Cells(a, m)
        BY <3>4, <3>6 DEF Cells
      <3>8. Cells(a, n) \subseteq Address
        BY <3>1, <3>2, <3>6, <3>7, Arrays
      <3>9. Written(Request(p)) \subseteq Part(p, 2) /\ Part(p, 2) \subseteq taken
        BY <3>1, <3>2, <3>3, Arrays DEF Written
      <3>10. ASSUME NEW q \in Proc, NEW i \in DOMAIN ses[q].buf,
                    Written(Request(p)) \cap Part(q, i) # {}
             PROVE  q = p /\ i = 2
        <4>1. Part(p, 2) \cap Part(q, i) # {}
          BY <3>9, <3>10
        <4>2. 2 \in DOMAIN ses[p].buf
          <5>1. ses[p].buf \in Seq(Address)
            BY <1>1 DEF SesType
          <5>2. QED
            BY <3>1, <5>1
        <4>3. QED
          BY <4>1, <4>2 DEF Inv, PartsCtl
      <3>11. JobMem(Request(p))
        <4>1. /\ Request(p).p = p /\ Request(p).res = ses[p].buf[2]
              /\ Request(p).data = ses[p].buf[1] /\ Request(p).len = ses[p].size % INT_MOD
          BY <3>2, <3>3
        <4>2. /\ Written(Request(p)) \subseteq taken
              /\ Cells(Request(p).data, Request(p).len) \subseteq Address
          <5>1. Request(p).data = a /\ Request(p).len = n
            BY <3>3
          <5>2. QED
            BY <3>8, <3>9, <5>1
        <4>3. QED
          BY <3>1, <3>10, <4>1, <4>2 DEF JobMem
      <3>12. QED
        BY <3>5, <3>11
    <2>3. QED
      BY <1>1, <2>1, <2>2 DEF SesType
  <1> DEFINE s == [ses[p] EXCEPT !.pc = "wait"]
  <1>5. s \in SesType /\ ses' = [ses EXCEPT ![p] = s]
    BY <1>1 DEF SesType, Pc, csQueueComputeRequest, Go
  <1>6. /\ s.buf = ses[p].buf /\ s.mapped = ses[p].mapped /\ s.size = ses[p].size
        /\ s.prog = ses[p].prog /\ s.pc = "wait"
    BY <1>1 DEF SesType
  <1> HIDE DEF s
  <1>7. Shape(s)
    BY <1>1, <1>6 DEF Shape
  <1>8. jobs' \subseteq JobType /\ \A j \in jobs' : JobMem(j)
    BY <1>1, <1>2, <1>4 DEF Inv
  <1>9. ASSUME NEW j \in jobs', j.live
        PROVE  IF j.p = p THEN /\ s.pc = "wait" /\ s.prog = ses[p].prog
                               /\ s.buf = ses[p].buf /\ s.size = ses[p].size /\ j = Request(p)
                          ELSE JobLive(j)
    <2>1. CASE j \in jobs
      <3>1. JobLive(j) /\ j.p # p
        BY <1>1, <1>9, <2>1 DEF Inv, JobLive
      <3>2. QED
        BY <3>1
    <2>2. CASE j = Request(p)
      BY <1>3, <1>6, <2>2
    <2>3. QED
      BY <1>2, <2>1, <2>2
  <1>10. QED
    BY <1>1, <1>5, <1>6, <1>7, <1>8, <1>9, Step

\* The drive answers a request, or the host gives up on it.
LEMMA Ends ==
    ASSUME Inv, NEW j \in jobs, NEW left, jobs' = (jobs \ {j}) \cup left,
           left \subseteq {[j EXCEPT !.live = FALSE]},
           IF j.live THEN \E stat \in Int : Returns(j.p, stat) ELSE UNCHANGED ses,
           UNCHANGED <<taken, file>>, mem' \in [Address -> Word]
    PROVE  Inv'
  <1>1. PICK p \in Proc : p = j.p
    BY DEF Inv, TypeOK, JobType
  <1>2. /\ ses \in [Proc -> SesType] /\ ses[p] \in SesType /\ Shape(ses[p])
        /\ jobs \subseteq JobType
        /\ taken \subseteq taken' /\ taken' \subseteq 1..Pages /\ file' \in Files
    BY DEF Inv, TypeOK
  <1>3. \A k \in left : k \in JobType /\ ~k.live /\ JobMem(k)
    <2>1. JobMem(j) /\ j \in JobType
      BY <1>2 DEF Inv
    <2> DEFINE k == [j EXCEPT !.live = FALSE]
    <2>2. /\ k \in JobType /\ ~k.live /\ k.res = j.res /\ k.data = j.data
          /\ k.len = j.len /\ k.p = j.p
      BY <2>1 DEF JobType
    <2> HIDE DEF k
    <2>3. JobMem(k)
      BY <2>1, <2>2 DEF JobMem, Written
    <2>4. QED
      BY <2>2, <2>3 DEF k
  <1>4. jobs' \subseteq JobType /\ \A k \in jobs' : JobMem(k)
    BY <1>2, <1>3 DEF Inv
  <1>5. CASE j.live
    <2>1. PICK stat \in Int : Returns(p, stat)
      BY <1>1, <1>5
    <2> DEFINE s == [ses[p] EXCEPT !.pc = "loop", !.left = @ - 1, !.status = stat]
    <2>2. ses[p].left - 1 \in Int
      BY <1>2 DEF SesType
    <2>3. s \in SesType
      BY <1>2, <2>2 DEF SesType, Pc
    <2>4. ses' = [ses EXCEPT ![p] = s]
      BY <2>1 DEF Returns
    <2>5. /\ s.buf = ses[p].buf /\ s.mapped = ses[p].mapped /\ s.size = ses[p].size
          /\ s.prog = ses[p].prog /\ s.pc = "loop"
      BY <1>2 DEF SesType
    <2> HIDE DEF s
    <2>6. ses[p].pc = "wait" /\ j = Request(p)
      BY <1>1, <1>5 DEF Inv, JobLive
    <2>7. Shape(s)
      BY <1>2, <2>5, <2>6 DEF Shape
    <2>8. \A k \in jobs' : k.live => JobLive(k) /\ k.p # p
      <3>1. SUFFICES ASSUME NEW k \in jobs', k.live
                     PROVE  JobLive(k) /\ k.p # p
        OBVIOUS
      <3>2. k \in jobs /\ k # j
        BY <1>3, <3>1
      <3>3. JobLive(k)
        BY <3>2 DEF Inv
      <3>4. k.p = p => k = j
        BY <2>6, <3>1, <3>3 DEF JobLive
      <3>5. QED
        BY <3>2, <3>3, <3>4
    <2>9. QED
      BY <1>2, <1>4, <2>3, <2>4, <2>5, <2>7, <2>8, Step
  <1>6. CASE ~j.live
    <2>1. ses' = [ses EXCEPT ![p] = ses[p]]
      BY <1>2, <1>6
    <2>2. \A k \in jobs' : k.live => JobLive(k)
      BY <1>3 DEF Inv
    <2>3. \A k \in jobs' : k.live /\ k.p = p => ses[p].pc = "wait" /\ k = Request(p)
      BY <2>2 DEF JobLive
    <2>4. PICK s \in SesType : s = ses[p]
      BY <1>2
    <2>5. QED
      BY <1>2, <1>4, <2>1, <2>2, <2>3, <2>4, Step
  <1>7. QED
    BY <1>5, <1>6

\* What the drive reads of device memory is a sequence of words of it.
LEMMA ReadsWords ==
    ASSUME Inv, NEW j \in jobs, j.res # 0
    PROVE  /\ Words(j.data, j.len) \in [1..j.len -> Word]
           /\ Checksum(Words(j.data, j.len)) \in Word
  <1>1. /\ j \in JobType /\ Cells(j.data, j.len) \subseteq Address
        /\ mem \in [Address -> Word]
    BY DEF Inv, TypeOK, JobMem
  <1>2. PICK a \in Nat, n \in Nat : a = j.data /\ n = j.len
    BY <1>1 DEF JobType
  <1>3. \A i \in 1..n : a + i - 1 \in Cells(a, n)
    BY DEF Cells
  <1>4. \A i \in 1..n : mem[a + i - 1] \in Word
    BY <1>1, <1>2, <1>3
  <1>5. Words(a, n) \in [1..n -> Word]
    BY <1>4 DEF Words
  <1>6. n \in 0..(Pages * PAGE)
    <2>1. PICK size \in Nat : size = Pages * PAGE
      BY SessionAssumption
    <2>2. (Pages + 1) * PAGE = size + PAGE
      BY <2>1, SessionAssumption
    <2>3. CASE n = 0
      BY <2>1, <2>3
    <2>4. CASE n > 0
      <3>1. a \in Cells(a, n) /\ a + n - 1 \in Cells(a, n)
        BY <2>4 DEF Cells
      <3>2. a \in Address /\ a + n - 1 \in Address
        BY <1>1, <1>2, <3>1
      <3>3. PAGE <= a /\ a + n - 1 <= size + PAGE - 1
        BY <2>2, <3>2, SessionAssumption DEF Address
      <3>4. QED
        BY <2>1, <3>3, SessionAssumption
    <2>5. QED
      BY <2>3, <2>4
  <1>7. Checksum(Words(a, n)) \in Word
    BY <1>5, <1>6, SessionAssumption DEF Word
  <1>8. QED
    BY <1>2, <1>5, <1>7

LEMMA Drives ==
    ASSUME Inv, NEW p \in Proc, Drive(p)
    PROVE  Inv'
  <1>1. PICK j \in jobs : Execute(j) \/ Reject(j) \/ Timeout(j)
    BY DEF Drive
  <1>2. mem \in [Address -> Word] /\ j \in JobType
    BY DEF Inv, TypeOK
  <1>3. CASE Execute(j)
    <2>1. mem' \in [Address -> Word]
      <3>1. CASE j.res = 0
        BY <1>2, <1>3, <3>1 DEF Execute
      <3>2. CASE j.res # 0
        <4>1. PICK sum \in Word : sum = Checksum(Words(j.data, j.len))
          BY <3>2, ReadsWords
        <4>2. mem' = [mem EXCEPT ![j.res] = sum]
          BY <1>3, <3>2, <4>1 DEF Execute
        <4>3. QED
          BY <1>2, <4>2
      <3>3. QED
        BY <3>1, <3>2
    <2>2. PICK left : left = {}
      OBVIOUS
    <2>3. /\ jobs' = (jobs \ {j}) \cup left /\ left \subseteq {[j EXCEPT !.live = FALSE]}
          /\ UNCHANGED <<taken, file>>
      BY <1>3, <2>2 DEF Execute
    <2>4. IF j.live THEN \E stat \in Int : Returns(j.p, stat) ELSE UNCHANGED ses
      BY <1>3 DEF Execute, CS_SUCCESS
    <2>5. QED
      BY <2>1, <2>3, <2>4, Ends
  <1>4. CASE Reject(j)
    <2>1. PICK left : left = {}
      OBVIOUS
    <2>2. /\ jobs' = (jobs \ {j}) \cup left /\ left \subseteq {[j EXCEPT !.live = FALSE]}
          /\ UNCHANGED <<taken, file>> /\ mem' \in [Address -> Word]
      BY <1>2, <1>4, <2>1 DEF Reject
    <2>3. IF j.live THEN \E stat \in Int : Returns(j.p, stat) ELSE UNCHANGED ses
      BY <1>4 DEF Reject, NVME_SC_INTERNAL
    <2>4. QED
      BY <2>2, <2>3, Ends
  <1>5. CASE Timeout(j)
    <2>1. /\ jobs' = (jobs \ {j}) \cup {[j EXCEPT !.live = FALSE]}
          /\ UNCHANGED <<taken, file>> /\ mem' \in [Address -> Word]
      BY <1>2, <1>5 DEF Timeout
    <2>2. -1 \in Int
      OBVIOUS
    <2>3. IF j.live THEN \E stat \in Int : Returns(j.p, stat) ELSE UNCHANGED ses
      BY <1>5, <2>2 DEF Timeout, TIMED_OUT
    <2>4. QED
      BY <2>1, <2>3, Ends
  <1>6. QED
    BY <1>1, <1>3, <1>4, <1>5

-----------------------------------------------------------------------------
LEMMA InitInv ==
    ASSUME Init
    PROVE  Inv
  <1>1. Never \in SesType /\ Never.buf = <<>> /\ Never.mapped = <<>> /\ Shape(Never)
    <2>1. Never = [pc |-> "stopped", prog |-> "sleep", left |-> 0, size |-> 0,
                   buf |-> <<>>, mapped |-> <<>>, status |-> 0, result |-> JUNK]
      BY DEF Never, New, CS_SUCCESS
    <2>2. JUNK \in Word /\ "stopped" \in Pc
      BY SessionAssumption DEF Word, Pc
    <2>3. Never \in SesType
      BY <2>1, <2>2 DEF SesType
    <2>4. QED
      BY <2>1, <2>3 DEF Shape
  <1>2. ses = [p \in Proc |-> Never] /\ jobs = {} /\ taken = {} /\ file \in Files
    BY DEF Init
  <1>3. mem \in [Address -> Word]
    BY SessionAssumption DEF Init, Word
  <1>4. TypeOK
    BY <1>1, <1>2, <1>3 DEF TypeOK
  <1>5. PartsCtl /\ \A p \in Proc : Shape(ses[p])
    BY <1>1, <1>2 DEF PartsCtl
  <1>6. QED
    BY <1>2, <1>4, <1>5 DEF Inv

LEMMA NextInv ==
    ASSUME Inv, [Next]_vars
    PROVE  Inv'
  <1>1. CASE UNCHANGED vars
    BY <1>1, Edits DEF vars, Inv, TypeOK
  <1>2. CASE EditFile
    BY <1>2, Edits DEF EditFile
  <1>3. CASE \E p \in Proc : Start(p) \/ Session(p) \/ Drive(p)
    <2>1. PICK p \in Proc : Start(p) \/ Session(p) \/ Drive(p)
      BY <1>3
    <2>2. CASE Start(p)
      BY <2>2, Starts
    <2>3. CASE Session(p)
      BY <2>3, Discovers, Stats, Allocates, Reads, Queues, Finishes DEF Session
    <2>4. CASE Drive(p)
      BY <2>4, Drives
    <2>5. QED
      BY <2>1, <2>2, <2>3, <2>4
  <1>4. QED
    BY <1>1, <1>2, <1>3 DEF Next

LEMMA Invariance == SafeSpec => []Inv
  <1>1. Init => Inv
    BY InitInv
  <1>2. Inv /\ [Next]_vars => Inv'
    BY NextInv
  <1>3. QED
    BY <1>1, <1>2, PTL DEF SafeSpec

\* Every variable keeps its type, whatever the drive answers.
THEOREM SessionTypeCorrect == SafeSpec => []TypeOK
  <1>1. Inv => TypeOK
    BY DEF Inv
  <1>2. QED
    BY <1>1, Invariance, PTL

\* Device memory has one holder, who alone gets results in it, for any number
\* of processes and any faults.
THEOREM MemoryExclusive == SafeSpec => []ExclusiveMemory
  <1>1. ASSUME Inv
        PROVE  ExclusiveMemory
    <2>1. ASSUME NEW p \in Proc
          PROVE  /\ Held(p) \subseteq taken
                 /\ \A w \in Held(p) : \E i \in DOMAIN ses[p].buf : w \in Part(p, i)
      BY <1>1 DEF Inv, PartsCtl, Held, Part
    <2>2. ASSUME NEW p \in Proc, Len(ses[p].buf) = 2
          PROVE  PagesOf(ses[p].buf[1], ses[p].mapped[1])
                     \cap PagesOf(ses[p].buf[2], ses[p].mapped[2]) = {}
      BY <1>1, <2>2, Arrays DEF Part
    <2>3. ASSUME NEW p \in Proc, NEW q \in Proc \ {p}
          PROVE  Held(p) \cap Held(q) = {}
      <3>1. ASSUME NEW w \in Held(p), w \in Held(q)
            PROVE  FALSE
        <4>1. PICK i \in DOMAIN ses[p].buf : w \in Part(p, i)
          BY <2>1
        <4>2. PICK k \in DOMAIN ses[q].buf : w \in Part(q, k)
          BY <2>1, <3>1
        <4>3. Part(p, i) \cap Part(q, k) = {}
          BY <1>1 DEF Inv, PartsCtl
        <4>4. QED
          BY <4>1, <4>2, <4>3
      <3>2. QED
        BY <3>1
    <2>4. ASSUME NEW p \in Proc, NEW j \in jobs, Written(j) \cap Held(p) # {}
          PROVE  j.p = p /\ Len(ses[p].buf) = 2 /\ j.res = ses[p].buf[2]
      <3>1. PICK w : w \in Written(j) /\ w \in Held(p)
        BY <2>4
      <3>2. PICK i \in DOMAIN ses[p].buf : w \in Part(p, i)
        BY <2>1, <3>1
      <3>3. j.res # 0 /\ Written(j) \cap Part(p, i) # {}
        BY <3>1, <3>2 DEF Written
      <3>4. QED
        BY <1>1, <3>3 DEF Inv, JobMem
    <2>5. QED
      BY <2>1, <2>2, <2>3, <2>4 DEF ExclusiveMemory
  <1>2. QED
    BY <1>1, Invariance, PTL

\* pread() is given no more than was mapped, for any file that is more than a
\* page short of 2^32 bytes, and whenever it changes.
THEOREM ReadIsMapped == SafeSpec => []ReadFitsMapping
  <1>1. ASSUME Inv
        PROVE  ReadFitsMapping
    <2>1. SUFFICES ASSUME NEW p \in Proc, ses[p].pc = "read", ses[p].size <= INT_MOD - PAGE
                   PROVE  ses[p].size <= ses[p].mapped[1]
      BY DEF ReadFitsMapping
    <2>2. Shape(ses[p]) /\ ses[p].size \in Nat
      BY <1>1 DEF Inv, TypeOK, SesType
    <2>3. Len(ses[p].buf) = 2
      BY <2>1, <2>2 DEF Shape
    <2>4. ses[p].size < INT_MOD
      BY <2>1, <2>2, SessionAssumption
    <2>5. QED
      BY <1>1, <2>3, <2>4, Arrays
  <1>2. QED
    BY <1>1, Invariance, PTL

-----------------------------------------------------------------------------
(* The checksum that is printed                                            *)

\* What a run of checksum has at each point, if its file can be read and does
\* not change: the drive's memory holds the file, and then its checksum.
Data(s) == s.prog = "checksum" =>
    /\ s.pc \in {"path", "open", "props", "caps", "function", "stat", "alloc", "read"}
            => s.left > 0
    /\ s.pc \in {"alloc", "read", "loop", "wait"} => s.size = Len(file)
    /\ s.pc \in {"loop", "wait"} => \A i \in 1..Len(file) : mem[s.buf[1] + i - 1] = file[i]
    /\ s.pc = "loop" /\ s.left <= 0 /\ s.status = CS_SUCCESS => mem[s.buf[2]] = Checksum(file)
    /\ s.pc = "done" => s.result = Checksum(file)

AllData == \A p \in Proc : Data(ses[p])

\* The file is read whole and does not change, at least one iteration is asked
\* for, and the file is smaller than the 2^32 bytes that the request can count.
SteadyFile == /\ "io" \notin Faults /\ "edit" \notin Faults
              /\ \A n \in Iterations : n > 0
              /\ \A f \in Files : Len(f) < INT_MOD

\* A step that leaves device memory and the file alone.
LEMMA DataMoves ==
    ASSUME Inv, AllData, NEW p \in Proc, NEW s, ses' = [ses EXCEPT ![p] = s],
           Data(s), UNCHANGED <<mem, file>>
    PROVE  AllData'
  <1>1. ses'[p] = s /\ \A q \in Proc \ {p} : ses'[q] = ses[q]
    BY DEF Inv, TypeOK
  <1>2. \A q \in Proc : Data(ses'[q])
    BY <1>1 DEF AllData
  <1>3. QED
    BY <1>2 DEF AllData, Data

LEMMA DataGoes ==
    ASSUME Inv, AllData, NEW p \in Proc, NEW pc, Go(p, pc), UNCHANGED <<mem, file>>,
           Data([ses[p] EXCEPT !.pc = pc])
    PROVE  AllData'
  <1>1. PICK s : s = [ses[p] EXCEPT !.pc = pc]
    OBVIOUS
  <1>2. ses' = [ses EXCEPT ![p] = s]
    BY <1>1 DEF Go
  <1>3. QED
    BY <1>1, <1>2, DataMoves

LEMMA DataQuits ==
    ASSUME Inv, AllData, NEW p \in Proc, NEW stat, Quit(p, stat), UNCHANGED <<mem, file>>
    PROVE  AllData'
  <1>1. PICK s : s = [ses[p] EXCEPT !.pc = "quit", !.status = stat]
    OBVIOUS
  <1>2. ses' = [ses EXCEPT ![p] = s]
    BY <1>1 DEF Quit
  <1>3. s.pc = "quit"
    BY <1>1 DEF Inv, TypeOK, SesType
  <1>4. Data(s)
    BY <1>3 DEF Data
  <1>5. QED
    BY <1>2, <1>4, DataMoves

LEMMA DataPrepares ==
    ASSUME Inv, AllData, SteadyFile, NEW p \in Proc,
           \/ Start(p) \/ csGetCSxFromPath(p) \/ csOpenCSx(p) \/ csQueryDeviceProperties(p)
           \/ csQueryDeviceCapabilities(p) \/ csGetFunction(p) \/ FileSize(p)
           \/ csQueueComputeRequest(p)
    PROVE  AllData'
  <1>1. ses[p] \in SesType /\ Data(ses[p]) /\ Shape(ses[p])
    BY DEF Inv, TypeOK, AllData
  <1>2. UNCHANGED <<mem, file>>
    BY DEF Start, csGetCSxFromPath, csOpenCSx, csQueryDeviceProperties,
           csQueryDeviceCapabilities, csGetFunction, FileSize, csQueueComputeRequest
  <1>3. CASE DeviceFails(p)
    BY <1>2, <1>3, DataQuits DEF DeviceFails
  <1>4. CASE Start(p)
    <2>1. PICK prog \in Programs :
            \E i \in (IF prog = "checksum" THEN Iterations ELSE {1}) :
              ses' = [ses EXCEPT ![p] = New(prog, i)]
      BY <1>4 DEF Start
    <2>2. \A i \in (IF prog = "checksum" THEN Iterations ELSE {1}) : i > 0
      BY DEF SteadyFile
    <2>3. PICK i : i > 0 /\ ses' = [ses EXCEPT ![p] = New(prog, i)]
      BY <2>1, <2>2
    <2>4. PICK s : s = New(prog, i)
      OBVIOUS
    <2>5. s.pc = "path" /\ s.left > 0
      BY <2>3, <2>4 DEF New
    <2>6. Data(s)
      BY <2>5 DEF Data
    <2>7. QED
      BY <1>2, <2>3, <2>4, <2>6, DataMoves
  <1>5. CASE FileSize(p)
    <2>1. ses' = [ses EXCEPT ![p].pc = "alloc", ![p].size = Len(file)] /\ ses[p].pc = "stat"
      BY <1>5 DEF FileSize, SteadyFile, Fails
    <2>2. PICK s : s = [ses[p] EXCEPT !.pc = "alloc", !.size = Len(file)]
      OBVIOUS
    <2>3. s.pc = "alloc" /\ s.size = Len(file) /\ s.left = ses[p].left /\ s.prog = ses[p].prog
      BY <1>1, <2>2 DEF SesType
    <2>4. Data(s)
      BY <1>1, <2>1, <2>3 DEF Data
    <2>5. ses' = [ses EXCEPT ![p] = s]
      BY <2>1, <2>2
    <2>6. QED
      BY <1>2, <2>4, <2>5, DataMoves
  <1>6. CASE ~(DeviceFails(p) \/ Start(p) \/ FileSize(p))
    <2>1. PICK pc : Go(p, pc) /\ Data([ses[p] EXCEPT !.pc = pc])
      <3>1. CASE csGetCSxFromPath(p)
        BY <1>1, <1>6, <3>1 DEF csGetCSxFromPath, Data, SesType
      <3>2. CASE csOpenCSx(p)
        BY <1>1, <1>6, <3>2 DEF csOpenCSx, Data, SesType
      <3>3. CASE csQueryDeviceProperties(p)
        BY <1>1, <1>6, <3>3 DEF csQueryDeviceProperties, Data, SesType
      <3>4. CASE csQueryDeviceCapabilities(p) /\ ses[p].prog = "checksum"
        BY <1>1, <1>6, <3>4 DEF csQueryDeviceCapabilities, Data, SesType
      <3>5. CASE csQueryDeviceCapabilities(p) /\ ses[p].prog # "checksum"
        BY <1>1, <1>6, <3>5 DEF csQueryDeviceCapabilities, Data, SesType
      <3>6. CASE csGetFunction(p)
        BY <1>1, <1>6, <3>6 DEF csGetFunction, Data, SesType
      <3>7. CASE csQueueComputeRequest(p)
        BY <1>1, <3>7 DEF csQueueComputeRequest, Data, SesType
      <3>8. QED
        BY <1>6, <3>1, <3>2, <3>3, <3>4, <3>5, <3>6, <3>7
    <2>2. QED
      BY <1>2, <2>1, DataGoes
  <1>7. QED
    BY <1>3, <1>4, <1>5, <1>6

LEMMA DataAllocates ==
    ASSUME Inv, AllData, NEW p \in Proc, csAllocMem(p)
    PROVE  AllData'
  <1>1. /\ ses[p] \in SesType /\ Data(ses[p]) /\ UNCHANGED <<mem, file>>
        /\ ses[p].pc = "alloc"
    BY DEF Inv, TypeOK, AllData, csAllocMem
  <1>2. CASE \E stat \in Int : Quit(p, stat)
    BY <1>1, <1>2, DataQuits
  <1>3. CASE \E a \in Address : Mapped(p, a)
    <2>1. PICK a : Mapped(p, a)
      BY <1>3
    <2>2. PICK s : s = [ses[p] EXCEPT !.pc = IF ses[p].buf = <<>> THEN "alloc" ELSE "read",
                                      !.buf = Append(@, a), !.mapped = Append(@, Bytes(p))]
      OBVIOUS
    <2>3. ses' = [ses EXCEPT ![p] = s]
      BY <2>1, <2>2 DEF Mapped
    <2>4. /\ s.pc \in {"alloc", "read"} /\ s.size = ses[p].size /\ s.left = ses[p].left
          /\ s.prog = ses[p].prog
      BY <1>1, <2>2 DEF SesType
    <2>5. Data(s)
      BY <1>1, <2>4 DEF Data
    <2>6. QED
      BY <1>1, <2>3, <2>5, DataMoves
  <1>4. QED
    BY <1>2, <1>3 DEF csAllocMem, NoMemory, DeviceFails, CS_INVALID_ARG, CS_NOT_ENOUGH_MEMORY,
                      CS_DEVICE_NOT_AVAILABLE, CS_COULD_NOT_MAP_MEMORY

LEMMA DataFinishes ==
    ASSUME Inv, AllData, NEW p \in Proc, Finish(p)
    PROVE  AllData'
  <1>1. /\ ses[p] \in SesType /\ Data(ses[p]) /\ UNCHANGED <<mem, file>>
        /\ ses[p].pc = "loop" /\ ses[p].left <= 0
    BY DEF Inv, TypeOK, AllData, Finish
  <1>2. CASE Go(p, "quit")
    <2>1. Data([ses[p] EXCEPT !.pc = "quit"])
      BY <1>1 DEF Data, SesType
    <2>2. QED
      BY <1>1, <1>2, <2>1, DataGoes
  <1>3. CASE ~Go(p, "quit")
    <2>1. PICK r : /\ r = IF ses[p].prog = "sleep" THEN ses[p].result ELSE mem[ses[p].buf[2]]
                   /\ ses' = [ses EXCEPT ![p].pc = "done", ![p].result = r]
      BY <1>3 DEF Finish
    <2>2. ses[p].status = CS_SUCCESS
      BY <1>3 DEF Finish
    <2>3. PICK s : s = [ses[p] EXCEPT !.pc = "done", !.result = r]
      OBVIOUS
    <2>4. ses' = [ses EXCEPT ![p] = s]
      BY <2>1, <2>3
    <2>5. s.pc = "done" /\ s.result = r /\ s.prog = ses[p].prog
      BY <1>1, <2>3 DEF SesType
    <2>6. s.prog = "checksum" => r = Checksum(file)
      BY <1>1, <2>1, <2>2, <2>5 DEF Data
    <2>7. Data(s)
      BY <2>5, <2>6 DEF Data
    <2>8. QED
      BY <1>1, <2>4, <2>7, DataMoves
  <1>4. QED
    BY <1>2, <1>3

\* The words a process has in device memory, when it holds the file there.
LEMMA Holding ==
    ASSUME Inv, AllData, SteadyFile, NEW p \in Proc, ses[p].prog = "checksum",
           ses[p].pc \in {"read", "loop", "wait"}
    PROVE  /\ Len(ses[p].buf) = 2 /\ ses[p].size = Len(file) /\ Len(file) \in Nat
           /\ ses[p].size % INT_MOD = Len(file) /\ Len(file) <= ses[p].mapped[1]
           /\ \A i \in 1..Len(file) : /\ ses[p].buf[1] + i - 1 \in Address
                                      /\ (ses[p].buf[1] + i - 1) \div PAGE \in Part(p, 1)
  <1>1. Len(ses[p].buf) = 2 /\ ses[p].size = Len(file) /\ file \in Files
    BY DEF Inv, TypeOK, Shape, AllData, Data
  <1>2. PICK n \in Nat : n = Len(file) /\ n < INT_MOD
    BY <1>1, SessionAssumption DEF SteadyFile
  <1>3. n % INT_MOD = n
    BY <1>2, Counted
  <1>4. PICK a \in Address, m \in 1..ALLOC_MAX : a = ses[p].buf[1] /\ m = ses[p].mapped[1]
    BY <1>1, Arrays
  <1>5. n <= m
    BY <1>1, <1>2, <1>4, Arrays
  <1>6. a \in Nat /\ m \in Nat
    BY SessionAssumption DEF Address
  <1>7. \A i \in 1..n : a + i - 1 \in Cells(a, m)
    BY <1>5, <1>6 DEF Cells
  <1>8. \A i \in 1..n : a + i - 1 \in Address /\ (a + i - 1) \div PAGE \in Part(p, 1)
    BY <1>1, <1>4, <1>7, Arrays
  <1>9. QED
    BY <1>1, <1>2, <1>3, <1>4, <1>5, <1>8

\* The word a result is written to.
LEMMA ResultPage ==
    ASSUME Inv, NEW p \in Proc, Len(ses[p].buf) = 2
    PROVE  /\ ses[p].buf[2] \in Address
           /\ ses[p].buf[2] \div PAGE \in Part(p, 2)
  <1>1. PICK b \in Address : b = ses[p].buf[2] /\ PagesOf(b, 1) \subseteq Part(p, 2)
    BY Arrays
  <1>2. b \in Nat /\ b + 1 - 1 = b
    BY SessionAssumption DEF Address
  <1>3. PICK q \in Int : q = b \div PAGE
    BY <1>2, SessionAssumption
  <1>4. PagesOf(b, 1) = {q}
    BY <1>2, <1>3 DEF PagesOf
  <1>5. QED
    BY <1>1, <1>3, <1>4

LEMMA DataReads ==
    ASSUME Inv, AllData, SteadyFile, NEW p \in Proc, ReadFile(p)
    PROVE  AllData'
  <1>1. /\ ses \in [Proc -> SesType] /\ ses[p] \in SesType /\ Data(ses[p]) /\ Shape(ses[p])
        /\ ses[p].pc = "read" /\ UNCHANGED file
    BY Loads DEF Inv, TypeOK, AllData
  <1>2. CASE Quit(p, CS_SUCCESS) /\ UNCHANGED mem
    BY <1>1, <1>2, DataQuits
  <1>3. CASE ~(Quit(p, CS_SUCCESS) /\ UNCHANGED mem)
    <2>1. PICK n \in Nat :
            /\ Go(p, "loop") /\ n <= Len(file) /\ n <= ses[p].size /\ n <= ses[p].mapped[1]
            /\ n \in {Len(file), ses[p].size, ses[p].mapped[1]}
            /\ mem' = [a \in Address |-> IF a \in Cells(ses[p].buf[1], n)
                          THEN file[a - ses[p].buf[1] + 1] ELSE mem[a]]
      BY <1>3, Loads DEF SteadyFile
    <2>2. ses[p].prog = "checksum"
      BY <1>1 DEF Shape
    <2>3. PICK a \in Address, m \in 1..ALLOC_MAX : a = ses[p].buf[1] /\ m = ses[p].mapped[1]
      BY <1>1, <2>2, Holding, Arrays
    <2>4. a \in Nat /\ m \in Nat
      BY SessionAssumption DEF Address
    <2>5. n = Len(file) /\ n <= m
      BY <1>1, <2>1, <2>2, <2>3, <2>4, Holding
    <2>6. \A w \in Address : mem'[w] = IF w \in Cells(a, n) THEN file[w - a + 1] ELSE mem[w]
      BY <2>1, <2>3
    <2>7. \A i \in 1..n : a + i - 1 \in Address /\ mem'[a + i - 1] = file[i]
      <3>1. SUFFICES ASSUME NEW i \in 1..n
                     PROVE  a + i - 1 \in Address /\ mem'[a + i - 1] = file[i]
        OBVIOUS
      <3>2. a + i - 1 \in Address
        BY <1>1, <2>2, <2>3, <2>5, Holding
      <3>3. PICK w \in Address : w = a + i - 1
        BY <3>2
      <3>4. w \in Cells(a, n) /\ w - a + 1 = i
        BY <2>4, <3>3 DEF Cells
      <3>5. mem'[w] = file[i]
        BY <2>6, <3>4
      <3>6. QED
        BY <3>3, <3>5
    <2>8. \A w \in Address : w \div PAGE \notin Part(p, 1) => mem'[w] = mem[w]
      <3>1. \A w \in Cells(a, n) : w \in Cells(a, m)
        BY <2>4, <2>5 DEF Cells
      <3>2. \A w \in Cells(a, m) : w \div PAGE \in Part(p, 1)
        BY <1>1, <2>2, <2>3, Holding, Arrays
      <3>3. QED
        BY <2>6, <3>1, <3>2
    <2>9. ses' = [ses EXCEPT ![p].pc = "loop"]
      BY <2>1 DEF Go
    <2>10. Data(ses[p])'
      <3>1. /\ ses'[p].pc = "loop" /\ ses'[p].size = ses[p].size /\ ses'[p].left = ses[p].left
            /\ ses'[p].buf = ses[p].buf
        BY <1>1, <2>9 DEF SesType
      <3>2. ses[p].left > 0 /\ ses[p].left \in Int /\ ses[p].size = Len(file)
        BY <1>1, <2>2 DEF Data, SesType
      <3>3. QED
        BY <1>1, <2>3, <2>5, <2>7, <3>1, <3>2 DEF Data
    <2>11. ASSUME NEW q \in Proc \ {p}
           PROVE  Data(ses[q])'
      <3>1. ses'[q] = ses[q] /\ Data(ses[q])
        BY <1>1, <2>9 DEF AllData
      <3>2. CASE ses[q].prog = "checksum" /\ ses[q].pc \in {"loop", "wait"}
        <4>1. Len(ses[q].buf) = 2 /\ Len(ses[p].buf) = 2
          BY <1>1, <2>2, <3>2, Holding
        <4>2. 1 \in DOMAIN ses[p].buf /\ 1 \in DOMAIN ses[q].buf /\ 2 \in DOMAIN ses[q].buf
          BY <4>1 DEF Inv, TypeOK, SesType
        <4>3. Part(q, 1) \cap Part(p, 1) = {} /\ Part(q, 2) \cap Part(p, 1) = {}
          BY <4>2 DEF Inv, PartsCtl
        <4>4. \A i \in 1..Len(file) : mem'[ses[q].buf[1] + i - 1] = mem[ses[q].buf[1] + i - 1]
          <5>1. \A i \in 1..Len(file) :
                    /\ ses[q].buf[1] + i - 1 \in Address
                    /\ (ses[q].buf[1] + i - 1) \div PAGE \in Part(q, 1)
            BY <3>2, Holding
          <5>2. QED
            BY <2>8, <4>3, <5>1
        <4>5. mem'[ses[q].buf[2]] = mem[ses[q].buf[2]]
          <5>1. ses[q].buf[2] \in Address /\ ses[q].buf[2] \div PAGE \in Part(q, 2)
            BY <4>1, ResultPage
          <5>2. QED
            BY <2>8, <4>3, <5>1
        <4>6. QED
          BY <1>1, <3>1, <3>2, <4>4, <4>5 DEF Data
      <3>3. CASE ~(ses[q].prog = "checksum" /\ ses[q].pc \in {"loop", "wait"})
        BY <1>1, <3>1, <3>3 DEF Data
      <3>4. QED
        BY <3>2, <3>3
    <2>12. QED
      BY <2>10, <2>11 DEF AllData
  <1>4. QED
    BY <1>2, <1>3

\* Memory that has the words of a sequence, read as a sequence.
LEMMA SameWords ==
    ASSUME NEW S, NEW q \in Seq(S), NEW n \in Nat, n = Len(q), NEW m, NEW a,
           \A i \in 1..n : m[a + i - 1] = q[i]
    PROVE  [i \in 1..n |-> m[a + i - 1]] = q
  OBVIOUS

\* A request, whoever made it, and also one the host gave up on, writes nothing
\* to the data of a process, and to its result only what it would get anyway.
LEMMA Harmless ==
    ASSUME Inv, AllData, SteadyFile, NEW j \in jobs, j.res # 0, NEW p \in Proc,
           ses[p].prog = "checksum", ses[p].pc \in {"loop", "wait"}
    PROVE  /\ \A i \in 1..Len(file) : ses[p].buf[1] + i - 1 # j.res
           /\ j.res = ses[p].buf[2] => Words(j.data, j.len) = file
  <1>1. /\ JobMem(j) /\ j \in JobType /\ Len(ses[p].buf) = 2
        /\ file \in Seq(Word) /\ ses[p].buf \in Seq(Address)
    BY Holding, SessionAssumption DEF Inv, TypeOK, Word, SesType
  <1>2. 1 \in DOMAIN ses[p].buf /\ 2 \in DOMAIN ses[p].buf
    BY <1>1
  <1>3. Written(j) = {j.res \div PAGE}
    <2>1. PICK b \in Nat : b = j.res /\ b + 1 - 1 = b
      BY <1>1, SessionAssumption DEF JobType, Address
    <2>2. PICK q \in Int : q = b \div PAGE
      BY <2>1, SessionAssumption
    <2>3. PagesOf(b, 1) = {q}
      BY <2>1, <2>2 DEF PagesOf
    <2>4. QED
      BY <2>1, <2>2, <2>3 DEF Written
  <1>4. ASSUME NEW i \in 1..Len(file), ses[p].buf[1] + i - 1 = j.res
        PROVE  FALSE
    <2>1. (ses[p].buf[1] + i - 1) \div PAGE \in Part(p, 1)
      BY Holding
    <2>2. Written(j) \cap Part(p, 1) # {}
      BY <1>3, <1>4, <2>1
    <2>3. 1 = 2
      BY <1>1, <1>2, <2>2 DEF JobMem
    <2>4. QED
      BY <2>3
  <1>5. ASSUME j.res = ses[p].buf[2]
        PROVE  Words(j.data, j.len) = file
    <2>1. Written(j) \cap Part(p, 2) # {}
      BY <1>1, <1>3, <1>5, ResultPage
    <2>2. j.data = ses[p].buf[1] /\ j.len = ses[p].size % INT_MOD
      BY <1>1, <1>2, <2>1 DEF JobMem
    <2>3. PICK n \in Nat : n = Len(file) /\ n = j.len
      BY <2>2, Holding
    <2>4. \A i \in 1..n : mem[j.data + i - 1] = file[i]
      BY <2>2, <2>3 DEF AllData, Data
    <2>5. [i \in 1..n |-> mem[j.data + i - 1]] = file
      <3>1. PICK a, m, S : a = j.data /\ m = mem /\ S = Word
        OBVIOUS
      <3>2. file \in Seq(S) /\ n = Len(file) /\ \A i \in 1..n : m[a + i - 1] = file[i]
        BY <1>1, <2>3, <2>4, <3>1
      <3>3. [i \in 1..n |-> m[a + i - 1]] = file
        BY <2>3, <3>2, SameWords
      <3>4. QED
        BY <3>1, <3>3
    <2>6. QED
      BY <2>3, <2>5 DEF Words
  <1>6. QED
    BY <1>4, <1>5

\* A request ends, for a process that looks at its status after the last one.
LEMMA DataReturns ==
    ASSUME Inv, AllData, NEW j \in jobs,
           \/ ~j.live /\ UNCHANGED ses
           \/ \E stat : j.live /\ Returns(j.p, stat) /\
                  (stat = CS_SUCCESS /\ ses[j.p].prog = "checksum"
                        => mem'[ses[j.p].buf[2]] = Checksum(file)),
           UNCHANGED file,
           \A p \in Proc : ses[p].prog = "checksum" /\ ses[p].pc \in {"loop", "wait"} =>
                /\ \A i \in 1..Len(file) :
                        mem'[ses[p].buf[1] + i - 1] = mem[ses[p].buf[1] + i - 1]
                /\ \/ mem'[ses[p].buf[2]] = mem[ses[p].buf[2]]
                   \/ mem'[ses[p].buf[2]] = Checksum(file)
    PROVE  AllData'
  <1>1. ses \in [Proc -> SesType] /\ j.p \in Proc /\ file' = file
    BY DEF Inv, TypeOK, JobType
  <1>2. ASSUME NEW p \in Proc, ses'[p] = ses[p]
        PROVE  Data(ses[p])'
    <2>1. Data(ses[p])
      BY DEF AllData
    <2>2. CASE ses[p].prog = "checksum" /\ ses[p].pc \in {"loop", "wait"}
      BY <1>1, <1>2, <2>1, <2>2 DEF Data
    <2>3. CASE ~(ses[p].prog = "checksum" /\ ses[p].pc \in {"loop", "wait"})
      BY <1>1, <1>2, <2>1, <2>3 DEF Data
    <2>4. QED
      BY <2>2, <2>3
  <1>3. CASE ~j.live /\ UNCHANGED ses
    BY <1>2, <1>3 DEF AllData
  <1>4. CASE j.live
    <2>1. PICK stat : /\ Returns(j.p, stat)
                      /\ stat = CS_SUCCESS /\ ses[j.p].prog = "checksum"
                            => mem'[ses[j.p].buf[2]] = Checksum(file)
      BY <1>4
    <2>2. ses[j.p].pc = "wait" /\ Data(ses[j.p]) /\ ses[j.p] \in SesType
      BY <1>1, <1>4 DEF Inv, JobLive, AllData
    <2>3. \A p \in Proc : p # j.p => ses'[p] = ses[p]
      BY <1>1, <2>1 DEF Returns
    <2>4. /\ ses'[j.p].pc = "loop" /\ ses'[j.p].size = ses[j.p].size
          /\ ses'[j.p].buf = ses[j.p].buf /\ ses'[j.p].status = stat
          /\ ses'[j.p].prog = ses[j.p].prog
      BY <1>1, <2>1, <2>2 DEF Returns, SesType
    <2>5. PICK p \in Proc : p = j.p
      BY <1>1
    <2>6. Data(ses[p])'
      <3>1. CASE ses[p].prog # "checksum"
        BY <2>4, <2>5, <3>1 DEF Data
      <3>2. CASE ses[p].prog = "checksum"
        <4>1. ses[p].size = Len(file) /\ \A i \in 1..Len(file) : mem[ses[p].buf[1] + i - 1] = file[i]
          BY <2>2, <2>5, <3>2 DEF Data
        <4>2. \A i \in 1..Len(file) : mem'[ses[p].buf[1] + i - 1] = file[i]
          BY <2>2, <2>5, <3>2, <4>1
        <4>3. stat = CS_SUCCESS => mem'[ses[p].buf[2]] = Checksum(file)
          BY <2>1, <2>5, <3>2
        <4>4. QED
          BY <1>1, <2>4, <2>5, <4>1, <4>2, <4>3 DEF Data, CS_SUCCESS
      <3>3. QED
        BY <3>1, <3>2
    <2>7. \A q \in Proc : Data(ses[q])'
      BY <1>2, <2>3, <2>5, <2>6
    <2>8. QED
      BY <2>7 DEF AllData
  <1>5. QED
    BY <1>3, <1>4

LEMMA DataDrives ==
    ASSUME Inv, AllData, SteadyFile, NEW p \in Proc, Drive(p)
    PROVE  AllData'
  <1>1. PICK j \in jobs : Execute(j) \/ Reject(j) \/ Timeout(j)
    BY DEF Drive
  <1>2. mem \in [Address -> Word] /\ j \in JobType /\ JobLive(j)
    BY DEF Inv, TypeOK
  <1>3. CASE Reject(j) \/ Timeout(j)
    <2>1. UNCHANGED <<mem, file>>
      BY <1>3 DEF Reject, Timeout
    <2>2. \/ ~j.live /\ UNCHANGED ses
          \/ \E stat \in {NVME_SC_INTERNAL, TIMED_OUT} : j.live /\ Returns(j.p, stat)
      BY <1>3 DEF Reject, Timeout
    <2>3. NVME_SC_INTERNAL # CS_SUCCESS /\ TIMED_OUT # CS_SUCCESS
      BY DEF NVME_SC_INTERNAL, TIMED_OUT, CS_SUCCESS
    <2>4. QED
      BY <2>1, <2>2, <2>3, DataReturns
  <1>4. CASE Execute(j) /\ j.res = 0
    <2>1. UNCHANGED <<mem, file>>
      BY <1>4 DEF Execute
    <2>2. j.live => ses[j.p].prog = "sleep"
      <3>1. SUFFICES ASSUME j.live, ses[j.p].prog # "sleep"
                     PROVE  FALSE
        OBVIOUS
      <3>2. PICK q \in Proc : q = j.p
        BY <1>2 DEF JobType
      <3>3. ses[q].pc = "wait" /\ j = ChecksumRequest(q) /\ ses[q].prog = "checksum"
        BY <1>2, <3>1, <3>2 DEF JobLive, Request, Inv, TypeOK, SesType
      <3>4. Len(ses[q].buf) = 2
        BY <3>3 DEF Inv, Shape
      <3>5. ses[q].buf[2] \in Address /\ j.res = ses[q].buf[2]
        BY <3>3, <3>4, Arrays DEF ChecksumRequest, csHelperSetComputeArg
      <3>6. QED
        BY <1>4, <3>5, SessionAssumption DEF Address
    <2>3. \/ ~j.live /\ UNCHANGED ses
          \/ j.live /\ Returns(j.p, CS_SUCCESS) /\ ses[j.p].prog # "checksum"
      BY <1>4, <2>2 DEF Execute
    <2>4. QED
      BY <2>1, <2>3, DataReturns
  <1>5. CASE Execute(j) /\ j.res # 0
    <2>1. PICK sum \in Word : sum = Checksum(Words(j.data, j.len))
      BY <1>5, ReadsWords
    <2>2. mem' = [mem EXCEPT ![j.res] = sum] /\ UNCHANGED file
      BY <1>5, <2>1 DEF Execute
    <2>3. j.res \in Address
      BY <1>2, <1>5 DEF JobType
    <2>4. mem'[j.res] = sum /\ \A a \in Address : a # j.res => mem'[a] = mem[a]
      BY <1>2, <2>2, <2>3
    <2>5. ASSUME NEW q \in Proc, ses[q].prog = "checksum", ses[q].pc \in {"loop", "wait"}
          PROVE  /\ \A i \in 1..Len(file) :
                        mem'[ses[q].buf[1] + i - 1] = mem[ses[q].buf[1] + i - 1]
                 /\ IF ses[q].buf[2] = j.res THEN mem'[ses[q].buf[2]] = Checksum(file)
                                             ELSE mem'[ses[q].buf[2]] = mem[ses[q].buf[2]]
      <3>1. \A i \in 1..Len(file) : /\ ses[q].buf[1] + i - 1 \in Address
                                    /\ ses[q].buf[1] + i - 1 # j.res
        BY <1>5, <2>5, Holding, Harmless
      <3>2. ses[q].buf[2] \in Address
        BY <2>5, Holding, ResultPage
      <3>3. j.res = ses[q].buf[2] => Words(j.data, j.len) = file
        BY <1>5, <2>5, Harmless
      <3>4. ses[q].buf[2] = j.res => mem'[ses[q].buf[2]] = Checksum(file)
        BY <2>1, <2>4, <3>3
      <3>5. ses[q].buf[2] # j.res => mem'[ses[q].buf[2]] = mem[ses[q].buf[2]]
        BY <2>4, <3>2
      <3>6. QED
        BY <2>4, <3>1, <3>4, <3>5
    <2>6. j.live /\ ses[j.p].prog = "checksum" => mem'[ses[j.p].buf[2]] = Checksum(file)
      <3>1. SUFFICES ASSUME j.live, ses[j.p].prog = "checksum"
                     PROVE  mem'[ses[j.p].buf[2]] = Checksum(file)
        OBVIOUS
      <3>2. PICK q \in Proc : q = j.p
        BY <1>2 DEF JobType
      <3>3. ses[q].pc = "wait" /\ j = ChecksumRequest(q)
        BY <1>2, <3>1, <3>2 DEF JobLive, Request
      <3>4. j.res = ses[q].buf[2]
        BY <3>3 DEF ChecksumRequest, csHelperSetComputeArg
      <3>5. QED
        BY <2>5, <3>1, <3>2, <3>3, <3>4
    <2>7. \/ ~j.live /\ UNCHANGED ses
          \/ j.live /\ Returns(j.p, CS_SUCCESS)
      BY <1>5 DEF Execute
    <2>8. QED
      BY <2>2, <2>5, <2>6, <2>7, DataReturns
  <1>6. QED
    BY <1>1, <1>3, <1>4, <1>5

LEMMA InitData ==
    ASSUME Init
    PROVE  AllData
  <1>1. Never.prog = "sleep"
    BY DEF Never, New
  <1>2. QED
    BY <1>1 DEF Init, AllData, Data

LEMMA NextData ==
    ASSUME Inv, AllData, SteadyFile, [Next]_vars
    PROVE  AllData'
  <1>1. CASE UNCHANGED vars
    BY <1>1 DEF vars, AllData, Data
  <1>2. CASE EditFile
    BY <1>2 DEF EditFile, SteadyFile, Fails
  <1>3. CASE \E p \in Proc : Start(p) \/ Session(p) \/ Drive(p)
    <2>1. PICK p \in Proc : Start(p) \/ Session(p) \/ Drive(p)
      BY <1>3
    <2>2. CASE Start(p)
      BY <2>2, DataPrepares
    <2>3. CASE Session(p)
      BY <2>3, DataPrepares, DataAllocates, DataReads, DataFinishes DEF Session
    <2>4. CASE Drive(p)
      BY <2>4, DataDrives
    <2>5. QED
      BY <2>1, <2>2, <2>3, <2>4
  <1>4. QED
    BY <1>1, <1>2, <1>3 DEF Next

\* What is printed is the checksum of the file, whatever the drive computes
\* under that name, whatever commands fail or time out, and whatever other
\* processes and late requests do.
THEOREM ChecksumIsOfFile ==
    ASSUME SteadyFile
    PROVE  SafeSpec => []PrintsFileChecksum
  <1>1. Init => AllData
    BY InitData
  <1>2. Inv /\ AllData /\ [Next]_vars => AllData'
    BY NextData
  <1>3. AllData => PrintsFileChecksum
    BY DEF AllData, Data, PrintsFileChecksum
  <1>4. QED
    BY <1>1, <1>2, <1>3, Invariance, PTL DEF SafeSpec
=============================================================================
