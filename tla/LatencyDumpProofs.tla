------------------------- MODULE LatencyDumpProofs -------------------------
(***************************************************************************)
(* What LatencyDump promises for any record, any number of commands and    *)
(* any size of the buffer, of a read() of the driver and of the driver's   *)
(* answer.                                                                 *)
(***************************************************************************)
EXTENDS LatencyDump, TLAPS

Entry == (Kind \X Nat \X (1..COMMANDS)) \cup {NONE}

\* The command that a word of a dump belongs to, and its place in the record.
CommandOf(w) == ((w - 1) \div RECORD) + 1
Place(w)     == ((w - 1) % RECORD) + 1

\* Where the buffer of a kind has been read, and where it has been written.
Past(k)  == IF k = "rd" THEN {"wr", "dump_rd", "dump_wr", "ok"} ELSE {"dump_rd", "dump_wr", "ok"}
Saved(k) == IF k = "rd" THEN {"dump_wr", "ok"} ELSE {"ok"}

Types ==
    /\ stats \in [Kind -> [1..COMMANDS -> Entry]] /\ filled \in [Kind -> 0..COMMANDS]
    /\ clears \in 0..MaxClears /\ size \in Nat /\ cut \in BOOLEAN
    /\ seen \in [filled : [Kind -> 0..COMMANDS], clears : Nat]
    /\ buf \in [Kind -> Seq(Word)] /\ file \in [Kind -> Seq(Word)]
    /\ pc \in {"stopped", "size", "malloc", "rd", "wr", "dump_rd", "dump_wr", "ok", "failed"}

\* The buffers are read once their size is known, and no further than that.
Limits ==
    /\ pc \in {"stopped", "size", "malloc"} => \A k \in Kind : buf[k] = <<>>
    /\ \A k \in Kind : Len(buf[k]) <= size /\ Len(buf[k]) <= COMMANDS * RECORD

\* The driver's records are those since the last clear; unless there was one
\* since the user looked, those that the user saw are still there.
Recorded ==
    /\ \A k \in Kind : \A i \in 1..filled[k] : stats[k][i] = <<k, clears, i>>
    /\ pc # "stopped" => seen.clears <= clears
    /\ pc # "stopped" /\ clears = seen.clears => \A k \in Kind : seen.filled[k] <= filled[k]

\* What was read of them is right, although it was read piece by piece.
Copied ==
    pc # "stopped" /\ clears = seen.clears =>
        \A k \in Kind : \A w \in 1..Len(buf[k]) :
            CommandOf(w) <= seen.filled[k] => buf[k][w] = <<<<k, clears, CommandOf(w)>>, Place(w)>>

\* All of a buffer was read, and all of it was written.
Whole ==
    ~cut => \A k \in Kind :
        /\ pc \in Past(k) => Len(buf[k]) \in {size, COMMANDS * RECORD}
        /\ pc \in Saved(k) => file[k] = Dumped(buf[k])

Inv == Types /\ Limits /\ Recorded /\ Copied /\ Whole

-----------------------------------------------------------------------------
(* The words of a dump                                                     *)

\* A quotient, and its remainder.
LEMMA DivMod ==
    ASSUME NEW n \in Int, NEW d \in Nat \ {0}
    PROVE  /\ n \div d \in Int /\ n % d \in 0..(d - 1)
           /\ n = d * (n \div d) + (n % d)
  OBVIOUS

\* They are the only ones.
LEMMA DivUnique ==
    ASSUME NEW d \in Nat \ {0}, NEW q \in Int, NEW r \in 0..(d - 1), NEW n, n = d * q + r
    PROVE  n \div d = q /\ n % d = r
  OBVIOUS

\* A word of the driver's buffer is one of a command it records.
LEMMA InRecord ==
    ASSUME NEW w \in 1..(COMMANDS * RECORD)
    PROVE  CommandOf(w) \in 1..COMMANDS /\ Place(w) \in 1..RECORD
  <1>1. RECORD \in Nat \ {0} /\ COMMANDS \in Nat /\ w \in Nat /\ w >= 1
    BY LatencyAssumption
  <1> DEFINE n == w - 1
             q == n \div RECORD
             r == n % RECORD
  <1>2. n \in Int
    BY <1>1
  <1> HIDE DEF n
  <1>3. q \in Int /\ r \in 0..(RECORD - 1) /\ n = RECORD * q + r
    BY <1>1, <1>2, DivMod
  <1> HIDE DEF q, r
  <1>4. 0 <= n /\ n < COMMANDS * RECORD
    BY <1>1 DEF n
  <1>5. q >= 0
    BY <1>1, <1>3, <1>4
  <1>6. q < COMMANDS
    <2>1. SUFFICES ASSUME q >= COMMANDS
                   PROVE  FALSE
      BY <1>1, <1>3
    <2>2. RECORD * q >= RECORD * COMMANDS
      BY <1>1, <1>3, <2>1
    <2>3. QED
      BY <1>1, <1>3, <1>4, <2>2
  <1>7. CommandOf(w) = q + 1 /\ Place(w) = r + 1
    BY DEF CommandOf, Place, n, q, r
  <1>8. QED
    BY <1>1, <1>3, <1>5, <1>6, <1>7

\* The words of a record, in a dump that holds the record.
LEMMA WordOf ==
    ASSUME NEW i \in 1..COMMANDS, NEW f \in 1..RECORD, NEW w, w = (i - 1) * RECORD + f
    PROVE  /\ w \in 1..(COMMANDS * RECORD) /\ w <= i * RECORD
           /\ CommandOf(w) = i /\ Place(w) = f
  <1>1. RECORD \in Nat \ {0} /\ COMMANDS \in Nat \ {0} /\ i \in Nat /\ f \in Nat
    BY LatencyAssumption
  <1>2. PICK q \in Int, r \in 0..(RECORD - 1), n \in Int : q = i - 1 /\ r = f - 1 /\ n = w - 1
    BY <1>1
  <1>3. n = RECORD * q + r
    BY <1>1, <1>2
  <1>4. n \div RECORD = q /\ n % RECORD = r
    BY <1>1, <1>3, DivUnique
  <1>5. CommandOf(w) = i /\ Place(w) = f
    BY <1>1, <1>2, <1>4 DEF CommandOf, Place
  <1>6. (i - 1) * RECORD = i * RECORD - RECORD /\ (i - 1) * RECORD >= 0
    BY <1>1
  <1>7. i * RECORD <= COMMANDS * RECORD
    BY <1>1
  <1>8. i * RECORD \in Nat /\ COMMANDS * RECORD \in Nat
    BY <1>1
  <1>9. w \in 1..(COMMANDS * RECORD) /\ w <= i * RECORD
    BY <1>1, <1>6, <1>7, <1>8
  <1>10. QED
    BY <1>5, <1>9

\* What read() returns of the driver's buffer.
LEMMA WordsOf ==
    ASSUME Inv, NEW k \in Kind
    PROVE  /\ Words(k) \in Seq(Word) /\ Len(Words(k)) = COMMANDS * RECORD
           /\ \A w \in 1..(COMMANDS * RECORD) :
                Words(k)[w] = <<stats[k][CommandOf(w)], Place(w)>>
  <1>1. PICK size1 \in Nat : size1 = COMMANDS * RECORD
    BY LatencyAssumption
  <1>2. ASSUME NEW w \in 1..size1
        PROVE  <<stats[k][CommandOf(w)], Place(w)>> \in Word
    <2>1. CommandOf(w) \in 1..COMMANDS /\ Place(w) \in 1..RECORD
      BY <1>1, InRecord
    <2>2. stats[k][CommandOf(w)] \in Entry
      <3>1. stats[k] \in [1..COMMANDS -> Entry]
        BY DEF Inv, Types
      <3>2. QED
        BY <2>1, <3>1
    <2>3. QED
      BY <2>1, <2>2, LatencyAssumption DEF Word, Entry
  <1>3. Words(k) = [w \in 1..size1 |-> <<stats[k][CommandOf(w)], Place(w)>>]
    BY <1>1 DEF Words, CommandOf, Place
  <1>4. QED
    BY <1>1, <1>2, <1>3

\* A sequence that grows by a piece of another one, from where it ends.
LEMMA Piece ==
    ASSUME NEW S, NEW b \in Seq(S), NEW v \in Seq(S), NEW got \in Nat,
           Len(b) < got, got <= Len(v), NEW c, c = b \o SubSeq(v, Len(b) + 1, got)
    PROVE  /\ c \in Seq(S) /\ Len(c) = got
           /\ \A w \in 1..Len(b) : c[w] = b[w]
           /\ \A w \in (Len(b) + 1)..got : c[w] = v[w]
  <1>1. PICK had \in Nat : had = Len(b)
    OBVIOUS
  <1>2. PICK p : p = SubSeq(v, had + 1, got)
    OBVIOUS
  <1>3. p \in Seq(S) /\ Len(p) = got - had /\ \A i \in 1..(got - had) : p[i] = v[had + i]
    BY <1>1, <1>2
  <1>4. c = b \o p
    BY <1>1, <1>2
  <1>5. c \in Seq(S) /\ Len(c) = got /\ \A w \in 1..Len(b) : c[w] = b[w]
    BY <1>1, <1>3, <1>4
  <1>6. ASSUME NEW w \in (had + 1)..got
        PROVE  c[w] = v[w]
    <2>1. c[w] = p[w - had]
      <3>1. w \in (Len(b) + 1)..(Len(b) + Len(p))
        BY <1>1, <1>3
      <3>2. (b \o p)[w] = p[w - Len(b)]
        BY <1>3, <3>1
      <3>3. QED
        BY <1>1, <1>4, <3>2
    <2>2. w - had \in 1..(got - had) /\ had + (w - had) = w
      BY <1>1
    <2>3. QED
      BY <1>3, <2>1, <2>2
  <1>7. QED
    BY <1>1, <1>5, <1>6

\* What is written of a buffer.
LEMMA DumpedOf ==
    ASSUME NEW b \in Seq(Word), size \in Nat, Len(b) <= size
    PROVE  /\ Dumped(b) \in Seq(Word) /\ Len(Dumped(b)) = size
           /\ \A w \in 1..Len(b) : Dumped(b)[w] = b[w]
  <1>1. JUNK \in Word
    BY LatencyAssumption DEF JUNK, NONE, Word
  <1>2. PICK n \in Nat : n = size - Len(b)
    OBVIOUS
  <1>3. PICK t : t = [w \in 1..n |-> JUNK]
    OBVIOUS
  <1>4. t \in Seq(Word) /\ Len(t) = n
    BY <1>1, <1>3
  <1>5. Dumped(b) = b \o t
    BY <1>2, <1>3 DEF Dumped
  <1>6. QED
    BY <1>2, <1>4, <1>5

-----------------------------------------------------------------------------
(* The invariant is inductive                                              *)

\* The driver records a command, also while its buffer is read.
LEMMA Completes ==
    ASSUME Inv, NEW k \in Kind, Completed(k)
    PROVE  Inv'
  <1>1. /\ stats \in [Kind -> [1..COMMANDS -> Entry]] /\ filled \in [Kind -> 0..COMMANDS]
        /\ clears \in Nat /\ filled[k] < COMMANDS
        /\ UNCHANGED <<clears, seen, pc, size, buf, cut, file>>
    BY LatencyAssumption DEF Inv, Types, Completed
  <1>2. PICK n \in 1..COMMANDS : n = filled[k] + 1 /\ filled[k] = n - 1
    BY <1>1, LatencyAssumption
  <1>3. PICK e : e = <<k, clears, n>>
    OBVIOUS
  <1>4. e \in Entry
    BY <1>1, <1>3 DEF Entry
  <1>5. stats' = [stats EXCEPT ![k][n] = e] /\ filled' = [filled EXCEPT ![k] = n]
    BY <1>2, <1>3 DEF Completed
  <1>6. /\ stats' \in [Kind -> [1..COMMANDS -> Entry]] /\ filled' \in [Kind -> 0..COMMANDS]
        /\ stats'[k][n] = e /\ filled'[k] = n
        /\ \A i \in 1..COMMANDS : i # n => stats'[k][i] = stats[k][i]
        /\ \A j \in Kind : j # k => stats'[j] = stats[j] /\ filled'[j] = filled[j]
    <2>1. PICK r : r = [stats[k] EXCEPT ![n] = e]
      OBVIOUS
    <2>2. /\ r \in [1..COMMANDS -> Entry] /\ r[n] = e
          /\ \A i \in 1..COMMANDS : i # n => r[i] = stats[k][i]
      <3>1. stats[k] \in [1..COMMANDS -> Entry]
        BY <1>1
      <3>2. QED
        BY <1>4, <2>1, <3>1
    <2>3. stats' = [stats EXCEPT ![k] = r]
      BY <1>5, <2>1
    <2>4. /\ stats' \in [Kind -> [1..COMMANDS -> Entry]] /\ stats'[k] = r
          /\ \A j \in Kind : j # k => stats'[j] = stats[j]
      BY <1>1, <2>2, <2>3
    <2>5. n \in 0..COMMANDS
      OBVIOUS
    <2>6. /\ filled' \in [Kind -> 0..COMMANDS] /\ filled'[k] = n
          /\ \A j \in Kind : j # k => filled'[j] = filled[j]
      BY <1>1, <1>5, <2>5
    <2>7. QED
      BY <2>2, <2>4, <2>6
  <1>7. Types'
    BY <1>1, <1>6 DEF Inv, Types, Word, Entry
  <1>8. Limits' /\ Copied' /\ Whole'
    BY <1>1 DEF Inv, Limits, Copied, Whole, Dumped
  <1>9. \A j \in Kind : \A i \in 1..filled'[j] : stats'[j][i] = <<j, clears, i>>
    <2>1. SUFFICES ASSUME NEW j \in Kind, NEW i \in 1..filled'[j]
                   PROVE  stats'[j][i] = <<j, clears, i>>
      OBVIOUS
    <2>2. CASE j # k
      BY <1>6, <2>1, <2>2 DEF Inv, Recorded
    <2>3. CASE j = k /\ i = n
      BY <1>3, <1>6, <2>3
    <2>4. CASE j = k /\ i # n
      <3>1. i \in 1..filled[k] /\ i \in 1..COMMANDS
        <4>1. i \in 1..n /\ i # n /\ n \in Nat /\ n <= COMMANDS /\ COMMANDS \in Nat
          BY <1>6, <2>1, <2>4, LatencyAssumption
        <4>2. i \in 1..(n - 1) /\ i \in 1..COMMANDS
          BY <4>1
        <4>3. QED
          BY <1>2, <4>2
      <3>2. stats[k][i] = <<k, clears, i>>
        BY <3>1 DEF Inv, Recorded
      <3>3. QED
        BY <1>6, <2>4, <3>1, <3>2
    <2>5. QED
      BY <2>2, <2>3, <2>4
  <1>10. \A j \in Kind : filled[j] <= filled'[j] /\ filled[j] \in Nat /\ filled'[j] \in Nat
    BY <1>1, <1>2, <1>6, LatencyAssumption
  <1>11. Recorded'
    <2>1. pc # "stopped" /\ clears = seen.clears => \A j \in Kind : seen.filled[j] <= filled'[j]
      <3>1. SUFFICES ASSUME pc # "stopped", clears = seen.clears, NEW j \in Kind
                     PROVE  seen.filled[j] <= filled'[j]
        OBVIOUS
      <3>2. seen.filled[j] <= filled[j] /\ seen.filled[j] \in Int
        BY <3>1 DEF Inv, Types, Recorded
      <3>3. QED
        BY <1>10, <3>2
    <2>2. pc # "stopped" => seen.clears <= clears
      BY DEF Inv, Recorded
    <2>3. QED
      BY <1>1, <1>9, <2>1, <2>2 DEF Recorded
  <1>12. QED
    BY <1>7, <1>8, <1>11 DEF Inv

LEMMA Clears ==
    ASSUME Inv, Clear
    PROVE  Inv'
  <1>1. /\ UNCHANGED <<stats, seen, pc, size, buf, cut, file>>
        /\ clears' = clears + 1 /\ clears < MaxClears /\ filled' = [k \in Kind |-> 0]
        /\ clears \in Nat /\ seen.clears \in Nat
    BY LatencyAssumption DEF Inv, Types, Clear
  <1>2. pc # "stopped" => seen.clears < clears'
    BY <1>1 DEF Inv, Recorded
  <1>3. Types'
    <2>1. clears' \in 0..MaxClears /\ filled' \in [Kind -> 0..COMMANDS]
      BY <1>1, LatencyAssumption
    <2>2. QED
      BY <1>1, <2>1 DEF Inv, Types, Word, Entry
  <1>4. Limits' /\ Whole'
    BY <1>1 DEF Inv, Limits, Whole, Dumped
  <1>5. clears' = seen.clears => pc = "stopped"
    BY <1>1, <1>2
  <1>6. Recorded' /\ Copied'
    BY <1>1, <1>2, <1>5 DEF Recorded, Copied
  <1>7. QED
    BY <1>3, <1>4, <1>6 DEF Inv

LEMMA Starts ==
    ASSUME Inv, Start
    PROVE  Inv'
  <1>1. /\ pc = "stopped" /\ pc' = "size" /\ seen' = [filled |-> filled, clears |-> clears]
        /\ UNCHANGED <<driver, size, buf, cut, file>>
        /\ filled \in [Kind -> 0..COMMANDS] /\ clears \in 0..MaxClears
    BY DEF Inv, Types, Start
  <1>2. \A k \in Kind : filled[k] \in Int /\ filled[k] <= filled[k]
    BY <1>1, LatencyAssumption
  <1>3. clears \in Nat
    BY <1>1, LatencyAssumption
  <1>4. Types'
    BY <1>1, <1>3 DEF Inv, Types, Word, Entry, driver
  <1>5. Limits' /\ Whole'
    BY <1>1 DEF Inv, Limits, Whole, Past, Saved, driver
  <1>6. Recorded'
    BY <1>1, <1>2, <1>3 DEF Inv, Recorded, driver
  <1>7. Copied'
    <2>1. \A k \in Kind : buf'[k] = <<>>
      BY <1>1 DEF Inv, Limits
    <2>2. QED
      BY <2>1 DEF Copied
  <1>8. QED
    BY <1>4, <1>5, <1>6, <1>7 DEF Inv

LEMMA SizesUp ==
    ASSUME Inv, ReadSize
    PROVE  Inv'
  <1>1. /\ pc = "size" /\ pc' \in {"failed", "malloc"}
        /\ UNCHANGED <<driver, seen, buf, cut, file>>
    BY DEF ReadSize
  <1>2. size' \in Nat
    BY LatencyAssumption DEF ReadSize
  <1>3. \A k \in Kind : buf[k] = <<>>
    BY <1>1 DEF Inv, Limits
  <1>4. Types'
    BY <1>1, <1>2 DEF Inv, Types, Word, Entry, driver
  <1>5. Limits'
    BY <1>1, <1>2, <1>3, LatencyAssumption DEF Inv, Limits
  <1>6. Whole'
    BY <1>1 DEF Whole, Past, Saved
  <1>7. Recorded' /\ Copied'
    BY <1>1 DEF Inv, Recorded, Copied, driver
  <1>8. QED
    BY <1>4, <1>5, <1>6, <1>7 DEF Inv

\* A step of the program that reads and writes nothing.
LEMMA GoesOn ==
    ASSUME Inv, pc \notin {"stopped", "size"}, pc' \in {"rd", "failed"},
           UNCHANGED <<driver, seen, size, buf, file, cut>>
    PROVE  Inv'
  <1>1. Types'
    BY DEF Inv, Types, Word, Entry, driver
  <1>2. Limits' /\ Whole'
    BY DEF Inv, Limits, Whole, Past, Saved, driver
  <1>3. Recorded' /\ Copied'
    BY DEF Inv, Recorded, Copied, driver
  <1>4. QED
    BY <1>1, <1>2, <1>3 DEF Inv

\* The least of three numbers.
LEMMA Least ==
    ASSUME NEW a \in Nat, NEW b \in Nat, NEW c \in Nat,
           NEW n, n = CHOOSE x \in {a, b, c} : \A y \in {a, b, c} : x <= y
    PROVE  n \in {a, b, c} /\ n <= a /\ n <= b /\ n <= c
  <1>1. \E x \in {a, b, c} : \A y \in {a, b, c} : x <= y
    <2>1. CASE a <= b /\ a <= c
      BY <2>1
    <2>2. CASE b <= a /\ b <= c
      BY <2>2
    <2>3. CASE c <= a /\ c <= b
      BY <2>3
    <2>4. QED
      BY <2>1, <2>2, <2>3
  <1>2. n \in {a, b, c} /\ \A y \in {a, b, c} : n <= y
    BY <1>1
  <1>3. QED
    BY <1>2

\* A piece of the driver's buffer is added to what has been read of it: the
\* records that the user saw are the same in all pieces.
LEMMA Grows ==
    ASSUME Inv, NEW k \in Kind, pc = k, NEW got \in Nat, Len(buf[k]) < got,
           got <= size, got <= COMMANDS * RECORD,
           buf' = [buf EXCEPT ![k] = @ \o SubSeq(Words(k), Len(buf[k]) + 1, got)],
           UNCHANGED <<driver, seen, pc, size, cut, file>>
    PROVE  Inv'
  <1>1. /\ buf \in [Kind -> Seq(Word)] /\ buf[k] \in Seq(Word)
        /\ k \in {"rd", "wr"}
    BY DEF Inv, Types, Kind
  <1>2. PICK b : b = buf[k] \o SubSeq(Words(k), Len(buf[k]) + 1, got)
    OBVIOUS
  <1>3. /\ b \in Seq(Word) /\ Len(b) = got
        /\ \A w \in 1..Len(buf[k]) : b[w] = buf[k][w]
        /\ \A w \in (Len(buf[k]) + 1)..got : b[w] = Words(k)[w]
    BY <1>1, <1>2, WordsOf, Piece
  <1>4. buf' = [buf EXCEPT ![k] = b]
    BY <1>2
  <1>5. /\ buf' \in [Kind -> Seq(Word)] /\ buf'[k] = b
        /\ \A j \in Kind : j # k => buf'[j] = buf[j]
    BY <1>1, <1>3, <1>4
  <1>6. Types'
    BY <1>5 DEF Inv, Types, Word, Entry, driver
  <1>7. Limits'
    BY <1>1, <1>3, <1>5 DEF Inv, Limits
  <1>8. Recorded'
    BY DEF Inv, Recorded, driver
  <1>9. Copied'
    <2>1. SUFFICES ASSUME clears = seen.clears, NEW j \in Kind, NEW w \in 1..Len(buf'[j]),
                          CommandOf(w) <= seen.filled[j]
                   PROVE  buf'[j][w] = <<<<j, clears, CommandOf(w)>>, Place(w)>>
      BY DEF Copied, driver
    <2>2. CASE j # k \/ w \in 1..Len(buf[k])
      <3>1. w \in 1..Len(buf[j]) /\ buf'[j][w] = buf[j][w]
        BY <1>3, <1>5, <2>1, <2>2
      <3>2. QED
        BY <1>1, <2>1, <3>1 DEF Inv, Copied
    <2>3. CASE j = k /\ w \notin 1..Len(buf[k])
      <3>1. w \in (Len(buf[k]) + 1)..got /\ w \in 1..(COMMANDS * RECORD)
        BY <1>1, <1>3, <1>5, <2>1, <2>3, LatencyAssumption
      <3>2. b[w] = <<stats[k][CommandOf(w)], Place(w)>>
        BY <1>3, <3>1, WordsOf
      <3>3. CommandOf(w) \in 1..filled[k]
        <4>1. CommandOf(w) \in 1..COMMANDS
          BY <3>1, InRecord
        <4>2. seen.filled[k] <= filled[k] /\ seen.filled[k] \in Nat /\ filled[k] \in Nat
          BY <1>1, <2>1, LatencyAssumption DEF Inv, Types, Recorded
        <4>3. PICK c \in Nat : c = CommandOf(w) /\ c >= 1 /\ c <= seen.filled[k]
          BY <2>1, <2>3, <4>1, LatencyAssumption
        <4>4. QED
          BY <4>2, <4>3
      <3>4. stats[k][CommandOf(w)] = <<k, clears, CommandOf(w)>>
        BY <3>3 DEF Inv, Recorded
      <3>5. QED
        BY <1>5, <2>3, <3>2, <3>4
    <2>4. QED
      BY <2>2, <2>3
  <1>10. Whole'
    <2>1. SUFFICES ASSUME ~cut, NEW j \in Kind
                   PROVE  /\ pc \in Past(j) => Len(buf'[j]) \in {size, COMMANDS * RECORD}
                          /\ pc \in Saved(j) => file[j] = Dumped(buf'[j])
      BY DEF Whole, Dumped
    <2>2. CASE j = k
      BY <1>1, <2>2 DEF Past, Saved
    <2>3. CASE j # k
      BY <1>5, <2>1, <2>3 DEF Inv, Whole
    <2>4. QED
      BY <2>2, <2>3
  <1>11. QED
    BY <1>6, <1>7, <1>8, <1>9, <1>10 DEF Inv

\* The program goes to the next buffer, and knows it has all of this one, or
\* that a read was cut.
LEMMA Advances ==
    ASSUME Inv, NEW k \in Kind, NEW next,
           (k = "rd" /\ next = "wr") \/ (k = "wr" /\ next = "dump_rd"),
           pc = k, pc' = next,
           cut' \/ (cut' = cut /\ Len(buf[k]) \in {size, COMMANDS * RECORD}),
           cut' \in BOOLEAN, UNCHANGED <<driver, seen, size, buf, file>>
    PROVE  Inv'
  <1>1. (k = "rd" /\ next = "wr") \/ (k = "wr" /\ next = "dump_rd")
    OBVIOUS
  <1>2. Types'
    BY <1>1 DEF Inv, Types, Word, Entry, driver
  <1>3. Limits' /\ Recorded' /\ Copied'
    BY <1>1 DEF Inv, Limits, Recorded, Copied, driver
  <1>4. Whole'
    <2>1. SUFFICES ASSUME ~cut', NEW j \in Kind
                   PROVE  /\ pc' \in Past(j) => Len(buf[j]) \in {size, COMMANDS * RECORD}
                          /\ pc' \notin Saved(j)
      BY DEF Whole
    <2>2. CASE j = k
      BY <1>1, <2>1, <2>2 DEF Saved
    <2>3. CASE j # k
      BY <1>1, <2>1, <2>3 DEF Inv, Whole, Past, Saved, Kind
    <2>4. QED
      BY <2>2, <2>3
  <1>5. QED
    BY <1>2, <1>3, <1>4 DEF Inv

LEMMA Reads ==
    ASSUME Inv, NEW k \in Kind, NEW next,
           (k = "rd" /\ next = "wr") \/ (k = "wr" /\ next = "dump_rd"),
           Fread(k, next)
    PROVE  Inv'
  <1>1. /\ buf[k] \in Seq(Word) /\ Len(buf[k]) \in Nat /\ size \in Nat
        /\ Len(buf[k]) <= size /\ Len(buf[k]) <= COMMANDS * RECORD /\ cut \in BOOLEAN
    BY DEF Inv, Types, Limits
  <1>2. PICK all \in Nat, had \in Nat : all = COMMANDS * RECORD /\ had = Len(buf[k])
    BY <1>1, LatencyAssumption
  <1>3. PICK more \in Nat : more = had + CHUNK /\ more > had
    BY LatencyAssumption
  <1>4. PICK got : got = CHOOSE n \in {size, all, more} : \A m \in {size, all, more} : n <= m
    OBVIOUS
  <1>5. got \in {size, all, more} /\ got <= size /\ got <= all
    BY <1>1, <1>4, Least
  <1>6. got \in Nat
    BY <1>1, <1>5
  <1>7. /\ pc = k /\ UNCHANGED <<driver, seen, size, file>>
        /\ \/ /\ got > had /\ buf' = [buf EXCEPT ![k] = @ \o SubSeq(Words(k), had + 1, got)]
              /\ UNCHANGED <<pc, cut>>
           \/ got = had /\ pc' = next /\ UNCHANGED <<buf, cut>>
           \/ Fails /\ pc' = next /\ cut' = TRUE /\ UNCHANGED buf
           \/ Fails /\ had = 0 /\ pc' = "failed" /\ UNCHANGED <<buf, cut>>
    BY <1>2, <1>3, <1>4 DEF Fread
  <1>8. CASE got > had /\ UNCHANGED <<pc, cut>>
             /\ buf' = [buf EXCEPT ![k] = @ \o SubSeq(Words(k), had + 1, got)]
    BY <1>2, <1>5, <1>6, <1>7, <1>8, Grows
  <1>9. CASE got = had /\ pc' = next /\ UNCHANGED <<buf, cut>>
    <2>1. Len(buf[k]) \in {size, COMMANDS * RECORD}
      BY <1>2, <1>3, <1>5, <1>9
    <2>2. QED
      BY <1>1, <1>7, <1>9, <2>1, Advances
  <1>10. CASE pc' = next /\ cut' = TRUE /\ UNCHANGED buf
    BY <1>7, <1>10, Advances
  <1>11. CASE pc' = "failed" /\ UNCHANGED <<buf, cut>>
    BY <1>7, <1>11, GoesOn DEF Kind
  <1>12. QED
    BY <1>7, <1>8, <1>9, <1>10, <1>11

\* A buffer is written, or a part of it, and the program goes to the next one.
LEMMA Saves ==
    ASSUME Inv, NEW at, NEW k \in Kind, NEW next,
           \/ at = "dump_rd" /\ k = "rd" /\ next = "dump_wr"
           \/ at = "dump_wr" /\ k = "wr" /\ next = "ok",
           pc = at, pc' = next, NEW b \in Seq(Word), file' = [file EXCEPT ![k] = b],
           cut' \/ (cut' = cut /\ b = Dumped(buf[k])), cut' \in BOOLEAN,
           UNCHANGED <<driver, seen, size, buf>>
    PROVE  Inv'
  <1>1. \/ at = "dump_rd" /\ k = "rd" /\ next = "dump_wr"
        \/ at = "dump_wr" /\ k = "wr" /\ next = "ok"
    OBVIOUS
  <1>2. /\ file' \in [Kind -> Seq(Word)] /\ file'[k] = b
        /\ \A j \in Kind : j # k => file'[j] = file[j]
    BY DEF Inv, Types
  <1>3. Types'
    BY <1>1, <1>2 DEF Inv, Types, Word, Entry, driver
  <1>4. Limits' /\ Recorded' /\ Copied'
    BY <1>1 DEF Inv, Limits, Recorded, Copied, driver
  <1>5. Whole'
    <2>1. SUFFICES ASSUME ~cut', NEW j \in Kind
                   PROVE  /\ pc' \in Past(j) => Len(buf[j]) \in {size, COMMANDS * RECORD}
                          /\ pc' \in Saved(j) => file'[j] = Dumped(buf[j])
      BY DEF Whole, Dumped
    <2>2. ~cut /\ pc \in Past(j)
      BY <1>1, <2>1 DEF Past
    <2>3. Len(buf[j]) \in {size, COMMANDS * RECORD} /\ (pc \in Saved(j) => file[j] = Dumped(buf[j]))
      BY <2>2 DEF Inv, Whole
    <2>4. CASE j = k
      BY <1>2, <2>1, <2>3, <2>4
    <2>5. CASE j # k
      BY <1>1, <1>2, <2>3, <2>5 DEF Saved, Kind
    <2>6. QED
      BY <2>4, <2>5
  <1>6. QED
    BY <1>3, <1>4, <1>5 DEF Inv

LEMMA Writes ==
    ASSUME Inv, NEW at, NEW k \in Kind, NEW next,
           \/ at = "dump_rd" /\ k = "rd" /\ next = "dump_wr"
           \/ at = "dump_wr" /\ k = "wr" /\ next = "ok",
           Fwrite(at, k, next)
    PROVE  Inv'
  <1>1. /\ buf[k] \in Seq(Word) /\ size \in Nat /\ Len(buf[k]) <= size /\ cut \in BOOLEAN
        /\ at \in {"dump_rd", "dump_wr"} /\ pc = at /\ UNCHANGED <<driver, seen, size, buf>>
    BY DEF Inv, Types, Limits, Fwrite
  <1>2. PICK b \in Seq(Word) : b = Dumped(buf[k]) /\ Len(b) = size
    BY <1>1, DumpedOf
  <1>3. CASE pc' = next /\ file' = [file EXCEPT ![k] = Dumped(buf[k])] /\ UNCHANGED cut
    <2>1. file' = [file EXCEPT ![k] = b]
      BY <1>2, <1>3
    <2>2. cut' = cut /\ b = Dumped(buf[k]) /\ cut' \in BOOLEAN
      BY <1>1, <1>2, <1>3
    <2>3. QED
      BY <1>1, <1>3, <2>1, <2>2, Saves
  <1>4. CASE /\ pc' = next /\ cut' = TRUE
             /\ \E n \in 0..(size - 1) : file' = [file EXCEPT ![k] = SubSeq(Dumped(buf[k]), 1, n)]
    <2>1. PICK n \in 0..(size - 1) : file' = [file EXCEPT ![k] = SubSeq(b, 1, n)]
      BY <1>2, <1>4
    <2>2. PICK part \in Seq(Word) : part = SubSeq(b, 1, n)
      <3>1. SubSeq(b, 1, n) \in Seq(Word)
        BY <1>1, <1>2
      <3>2. QED
        BY <3>1
    <2>3. file' = [file EXCEPT ![k] = part] /\ cut' /\ cut' \in BOOLEAN
      BY <1>4, <2>1, <2>2
    <2>4. QED
      BY <1>1, <1>4, <2>3, Saves
  <1>5. CASE pc' = "failed" /\ UNCHANGED <<file, cut>>
    BY <1>1, <1>5, GoesOn
  <1>6. QED
    BY <1>3, <1>4, <1>5 DEF Fwrite

-----------------------------------------------------------------------------
LEMMA InitInv ==
    ASSUME Init
    PROVE  Inv
  <1>1. /\ stats = [k \in Kind |-> [i \in 1..COMMANDS |-> NONE]]
        /\ filled = [k \in Kind |-> 0] /\ clears = 0
        /\ seen = [filled |-> filled, clears |-> 0]
        /\ pc = "stopped" /\ size = DEFAULT /\ buf = [k \in Kind |-> <<>>] /\ cut = FALSE
    BY DEF Init
  <1>2. 0 \in 0..COMMANDS /\ 0 \in 0..MaxClears /\ DEFAULT \in Nat /\ COMMANDS * RECORD \in Nat
    BY LatencyAssumption
  <1>3. JUNK \in Word /\ NONE \in Entry
    BY LatencyAssumption DEF JUNK, NONE, Word, Entry
  <1>4. [w \in 1..(COMMANDS * RECORD) |-> JUNK] \in Seq(Word)
    <2>1. PICK n \in Nat : n = COMMANDS * RECORD
      BY <1>2
    <2>2. [w \in 1..n |-> JUNK] \in Seq(Word)
      BY <1>3
    <2>3. QED
      BY <2>1, <2>2
  <1>5. file \in [Kind -> Seq(Word)]
    <2>1. PICK x \in Seq(Word) : x = [w \in 1..(COMMANDS * RECORD) |-> JUNK]
      BY <1>4
    <2>2. file \in [Kind -> {<<>>, x}]
      BY <2>1 DEF Init
    <2>3. {<<>>, x} \subseteq Seq(Word)
      OBVIOUS
    <2>4. QED
      BY <2>2, <2>3
  <1>6. Types
    <2>1. stats \in [Kind -> [1..COMMANDS -> Entry]] /\ filled \in [Kind -> 0..COMMANDS]
      BY <1>1, <1>2, <1>3
    <2>2. seen \in [filled : [Kind -> 0..COMMANDS], clears : Nat]
      BY <1>1, <2>1
    <2>3. buf \in [Kind -> Seq(Word)]
      BY <1>1
    <2>4. QED
      BY <1>1, <1>2, <1>5, <2>1, <2>2, <2>3 DEF Types
  <1>7. Limits
    BY <1>1, <1>2 DEF Limits
  <1>8. Recorded /\ Copied
    BY <1>1 DEF Recorded, Copied
  <1>9. Whole
    BY <1>1 DEF Whole, Past, Saved
  <1>10. QED
    BY <1>6, <1>7, <1>8, <1>9 DEF Inv

LEMMA NextInv ==
    ASSUME Inv, [Next]_vars
    PROVE  Inv'
  <1>1. CASE UNCHANGED vars
    BY <1>1 DEF vars, driver, Inv, Types, Limits, Recorded, Copied, Whole, Dumped, Word, Entry
  <1>2. CASE Start \/ Clear \/ \E k \in Kind : Completed(k)
    BY <1>2, Starts, Clears, Completes
  <1>3. CASE ReadSize
    BY <1>3, SizesUp
  <1>4. CASE Malloc
    BY <1>4, GoesOn DEF Malloc
  <1>5. CASE Fread("rd", "wr") \/ Fread("wr", "dump_rd")
    <2>1. "rd" \in Kind /\ "wr" \in Kind
      BY DEF Kind
    <2>2. CASE Fread("rd", "wr")
      BY <2>1, <2>2, Reads
    <2>3. CASE Fread("wr", "dump_rd")
      BY <2>1, <2>3, Reads
    <2>4. QED
      BY <1>5, <2>2, <2>3
  <1>6. CASE Fwrite("dump_rd", "rd", "dump_wr") \/ Fwrite("dump_wr", "wr", "ok")
    <2>1. "rd" \in Kind /\ "wr" \in Kind
      BY DEF Kind
    <2>2. CASE Fwrite("dump_rd", "rd", "dump_wr")
      BY <2>1, <2>2, Writes
    <2>3. CASE Fwrite("dump_wr", "wr", "ok")
      BY <2>1, <2>3, Writes
    <2>4. QED
      BY <1>6, <2>2, <2>3
  <1>7. QED
    BY <1>1, <1>2, <1>3, <1>4, <1>5, <1>6 DEF Next, Extract

LEMMA Invariance == Spec => []Inv
  <1>1. Init => Inv
    BY InitInv
  <1>2. Inv /\ [Next]_vars => Inv'
    BY NextInv
  <1>3. QED
    BY <1>1, <1>2, PTL DEF Spec

\* Every variable keeps its type, and neither buffer is filled beyond its size.
THEOREM DumpTypeCorrect == Spec => []TypeOK
  <1>1. Inv => TypeOK
    BY DEF Inv, Types, Limits, TypeOK
  <1>2. QED
    BY <1>1, Invariance, PTL

\* What is printed of a run that was not cut are the records that the user saw,
\* in their order, for any size of the buffer and any pace of the driver.
THEOREM LinesCorrect == Spec => []LinesAreRecords
  <1>1. ASSUME Inv
        PROVE  LinesAreRecords
    <2>1. SUFFICES ASSUME pc = "ok", ~cut, clears = seen.clears, NEW k \in Kind,
                          NEW i \in 1..COMMANDS, i <= seen.filled[k], i * RECORD <= size
                   PROVE  Csv(k)[i] = Line(<<k, clears, i>>)
      BY DEF LinesAreRecords
    <2>2. /\ buf[k] \in Seq(Word) /\ Len(buf[k]) <= size /\ size \in Nat
          /\ Len(buf[k]) \in {size, COMMANDS * RECORD} /\ file[k] = Dumped(buf[k])
      BY <1>1, <2>1 DEF Inv, Types, Limits, Whole, Past, Saved, Kind
    <2>3. /\ Len(file[k]) = size
          /\ \A w \in 1..Len(buf[k]) : file[k][w] = buf[k][w]
      BY <2>2, DumpedOf
    <2>4. ASSUME NEW f \in 1..RECORD, NEW w, w = (i - 1) * RECORD + f
          PROVE  w <= Len(file[k]) /\ file[k][w] = <<<<k, clears, i>>, f>>
      <3>1. /\ w \in 1..(COMMANDS * RECORD) /\ w <= i * RECORD
            /\ CommandOf(w) = i /\ Place(w) = f
        BY <2>4, WordOf
      <3>2. i * RECORD \in Nat /\ w \in Nat
        BY <3>1, LatencyAssumption
      <3>3. w <= size
        BY <2>1, <2>2, <3>1, <3>2
      <3>4. w \in 1..Len(buf[k])
        BY <2>2, <3>1, <3>3
      <3>5. buf[k][w] = <<<<k, clears, i>>, f>>
        BY <1>1, <2>1, <3>1, <3>4 DEF Inv, Copied
      <3>6. QED
        BY <2>3, <3>3, <3>4, <3>5
    <2>5. Csv(k)[i] = [f \in 1..RECORD |-> <<<<k, clears, i>>, f>>]
      BY <2>4 DEF Csv
    <2>6. QED
      BY <2>5 DEF Line
  <1>2. QED
    BY <1>1, Invariance, PTL
=============================================================================
