---------------------------- MODULE LatencyDump ----------------------------
(***************************************************************************)
(* firmware/latency: the time stamps that the endpoint driver records for  *)
(* reads and writes, extract_statistics.c that dumps them to two files     *)
(* while the driver goes on, and csv_from_buffer.cpp that prints a dump.   *)
(* The user has looked up how many commands are recorded and takes as many *)
(* lines, as firmware/latency/README.md says.                              *)
(*                                                                         *)
(* Sizes are in words of eight bytes.  A time stamp is a word: the command *)
(* it belongs to and its place in the record of that command.              *)
(***************************************************************************)
EXTENDS Integers, Sequences

CONSTANTS
    RECORD,     \* the time stamps of a command: 11
    COMMANDS,   \* the commands that the driver records: 1000
    DEFAULT,    \* buffer_size if the driver does not tell: 8000
    SizeFiles,  \* what statistics_buffer_size says, -1 if there is none
    CHUNK,      \* what one read() of the driver's buffer returns
    MaxClears,  \* bounds how often the user clears the statistics
    Faults      \* "io": malloc(), fopen(), fread() or fwrite() fails

ASSUME LatencyAssumption ==
    /\ RECORD \in Nat \ {0} /\ COMMANDS \in Nat \ {0} /\ DEFAULT \in Nat \ {0}
    /\ CHUNK \in Nat \ {0} /\ SizeFiles \subseteq Nat \cup {-1}
    /\ MaxClears \in Nat /\ Faults \subseteq {"io"}

VARIABLES
    stats,  \* the commands whose records the driver's buffers hold
    filled, \* how many of them are recorded
    clears, \* how often they were cleared
    seen,   \* what the user has seen of `filled' and `clears'
    pc,     \* control of extract_statistics
    size,   \* buffer_size
    buf,    \* rd_buffer and wr_buffer, as far as they were written
    cut,    \* whether fread() or fwrite() has done less than it was asked to
    file    \* binary_dump_rd_stats.bin and binary_dump_wr_stats.bin

driver == <<stats, filled, clears>>
vars   == <<driver, seen, pc, size, buf, cut, file>>

Kind  == {"rd", "wr"}
NONE  == <<"none", 0, 0>>              \* an entry that is not filled
JUNK  == <<NONE, 0>>                   \* memory that was never written
Word  == ((Kind \X Nat \X (1..COMMANDS)) \cup {NONE}) \X (0..RECORD)
Fails == "io" \in Faults

\* The words of the driver's buffer, and the line of a command.
Words(k) == [w \in 1..(COMMANDS * RECORD) |->
                <<stats[k][((w - 1) \div RECORD) + 1], ((w - 1) % RECORD) + 1>>]
Line(c)  == [f \in 1..RECORD |-> <<c, f>>]

TypeOK ==
    /\ \A k \in Kind :
        /\ DOMAIN stats[k] = 1..COMMANDS /\ filled[k] \in 0..COMMANDS
        /\ buf[k] \in Seq(Word) /\ Len(buf[k]) <= size /\ file[k] \in Seq(Word)
    /\ clears \in 0..MaxClears /\ size \in Nat /\ cut \in BOOLEAN
    /\ pc \in {"stopped", "size", "malloc", "rd", "wr", "dump_rd", "dump_wr", "ok", "failed"}

\* The files may be there from an earlier run.
Init ==
    /\ stats = [k \in Kind |-> [i \in 1..COMMANDS |-> NONE]]
    /\ filled = [k \in Kind |-> 0] /\ clears = 0
    /\ seen = [filled |-> filled, clears |-> 0]
    /\ pc = "stopped" /\ size = DEFAULT /\ buf = [k \in Kind |-> <<>>] /\ cut = FALSE
    /\ file \in [Kind -> {<<>>, [w \in 1..(COMMANDS * RECORD) |-> JUNK]}]

-----------------------------------------------------------------------------
(* The driver: a buffer that is full records no more.                      *)

Completed(k) ==
    /\ filled[k] < COMMANDS /\ filled' = [filled EXCEPT ![k] = @ + 1]
    /\ stats' = [stats EXCEPT ![k][filled[k] + 1] = <<k, clears, filled[k] + 1>>]
    /\ UNCHANGED <<clears, seen, pc, size, buf, cut, file>>

Clear ==
    /\ clears < MaxClears /\ clears' = clears + 1 /\ filled' = [k \in Kind |-> 0]
    /\ UNCHANGED <<stats, seen, pc, size, buf, cut, file>>

-----------------------------------------------------------------------------
(* extract_statistics                                                      *)

\* The user reads `statistics' and starts the program.
Start ==
    /\ pc = "stopped" /\ pc' = "size"
    /\ seen' = [filled |-> filled, clears |-> clears]
    /\ UNCHANGED <<driver, size, buf, cut, file>>

\* Mutant: what fscanf() returns for no number is taken for the size.
ReadSizeUnchecked ==
    /\ pc = "size"
    /\ size' \in SizeFiles /\ pc' = IF size' = 0 THEN "failed" ELSE "malloc"
    /\ UNCHANGED <<driver, seen, buf, cut, file>>

\* Without the file, or with one that is no number, the default is kept.
ReadSize ==
    /\ pc = "size"
    /\ \E n \in SizeFiles : size' = IF n = -1 THEN DEFAULT ELSE n
    /\ pc' = IF size' = 0 THEN "failed" ELSE "malloc"
    /\ UNCHANGED <<driver, seen, buf, cut, file>>

Malloc ==
    /\ pc = "malloc"
    /\ pc' = "rd" \/ (Fails /\ pc' = "failed")
    /\ UNCHANGED <<driver, seen, size, buf, cut, file>>

\* fread() takes what there is, in several reads; that it ends before the
\* buffer is full goes unnoticed, since its result is never negative.
Fread(k, next) ==
    LET had  == Len(buf[k])
        upto == {size, COMMANDS * RECORD, had + CHUNK}
        got  == CHOOSE n \in upto : \A m \in upto : n <= m
    IN
    /\ pc = k
    /\ \/ /\ got > had /\ buf' = [buf EXCEPT ![k] = @ \o SubSeq(Words(k), had + 1, got)]
          /\ UNCHANGED <<pc, cut>>
       \/ got = had /\ pc' = next /\ UNCHANGED <<buf, cut>>
       \/ Fails /\ pc' = next /\ cut' = TRUE /\ UNCHANGED buf
       \/ Fails /\ had = 0 /\ pc' = "failed" /\ UNCHANGED <<buf, cut>>
    /\ UNCHANGED <<driver, seen, size, file>>

\* All of the buffer is written, with what its end was allocated with.
Dumped(b) == b \o [w \in 1..(size - Len(b)) |-> JUNK]

\* Mutant: both files are written from the first buffer.
FwriteFirst(at, k, next) ==
    /\ pc = at /\ pc' = next
    /\ file' = [file EXCEPT ![k] = Dumped(buf["rd"])]
    /\ UNCHANGED <<driver, seen, size, buf, cut>>

\* The result of fwrite() is not looked at; the file was truncated before.
Fwrite(at, k, next) ==
    /\ pc = at
    /\ \/ pc' = next /\ file' = [file EXCEPT ![k] = Dumped(buf[k])] /\ UNCHANGED cut
       \/ /\ Fails /\ pc' = next /\ cut' = TRUE
          /\ \E n \in 0..(size - 1) : file' = [file EXCEPT ![k] = SubSeq(Dumped(buf[k]), 1, n)]
       \/ Fails /\ pc' = "failed" /\ UNCHANGED <<file, cut>>
    /\ UNCHANGED <<driver, seen, size, buf>>

-----------------------------------------------------------------------------
\* The lines that csv_from_buffer prints of a file, however long it is; what
\* the file does not hold is what the stack held.
Csv(k) ==
    LET word(w) == IF w <= Len(file[k]) THEN file[k][w] ELSE JUNK IN
    [i \in 1..COMMANDS |-> [f \in 1..RECORD |-> word((i - 1) * RECORD + f)]]

-----------------------------------------------------------------------------
Extract == \/ ReadSize \/ Malloc \/ Fread("rd", "wr") \/ Fread("wr", "dump_rd")
           \/ Fwrite("dump_rd", "rd", "dump_wr") \/ Fwrite("dump_wr", "wr", "ok")

Next == Start \/ Extract \/ Clear \/ \E k \in Kind : Completed(k)
Spec == Init /\ [][Next]_vars

\* firmware/latency/README.md:53: of the lines printed after a run that has
\* exited with 0, as many as the user saw recorded are the records of the
\* commands in their order, whatever the driver has recorded since and whatever an earlier run
\* has left in the files.  That is so as far as the buffer goes, which is 727
\* lines if the driver does not tell its size, if no read or write was cut,
\* and unless the statistics were cleared meanwhile.
LinesAreRecords ==
    pc = "ok" /\ ~cut /\ clears = seen.clears =>
        \A k \in Kind, i \in 1..COMMANDS :
            i <= seen.filled[k] /\ i * RECORD <= size => Csv(k)[i] = Line(<<k, clears, i>>)
=============================================================================
