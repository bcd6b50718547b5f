---------------------------- MODULE StandardDisk ----------------------------
(***************************************************************************)
(* What the self-encrypting disk promises its host (firmware/README.md:    *)
(* "The disk will work as a standard disk seen from the host"): an array   *)
(* of plain sectors.  A read returns the sectors as they are at one moment *)
(* between its issue and its completion, a write changes all its sectors   *)
(* at one such moment, and a command that fails has no effect.             *)
(***************************************************************************)
EXTENDS Integers, Sequences

CONSTANTS Host, Lba, Val, Zero, Opcode, MaxBlocks

VARIABLES content, req

diskVars == <<content, req>>

None == [st |-> "idle", op |-> "none", lo |-> 0, data |-> <<>>, ok |-> TRUE]

Blocks(r) == r.lo..(r.lo + Len(r.data) - 1)

DiskInit == content = [l \in Lba |-> Zero] /\ req = [h \in Host |-> None]

IssueCmd(h) ==
    /\ req[h].st = "idle"
    /\ \E op \in Opcode, lo \in Lba, n \in 1..MaxBlocks :
        \E data \in [1..n -> Val] :
            /\ lo + n - 1 \in Lba
            /\ req' = [req EXCEPT ![h] =
                        [st |-> "issued", op |-> op, lo |-> lo, data |-> data, ok |-> TRUE]]
    /\ UNCHANGED content

Snapshot(h) ==
    /\ req[h].st = "issued" /\ req[h].op = "read"
    /\ req' = [req EXCEPT ![h].st = "fetched", ![h].data =
                [i \in DOMAIN @ |-> content[req[h].lo + i - 1]]]
    /\ UNCHANGED content

ReadDone(h) ==
    /\ req[h].st = "fetched" /\ req' = [req EXCEPT ![h].st = "done"]
    /\ UNCHANGED content

\* A write, a write zeroes, or a command that leaves the sectors alone.
Apply(h) ==
    /\ req[h].st = "issued" /\ req[h].op # "read"
    /\ req' = [req EXCEPT ![h].st = "done"]
    /\ content' = IF req[h].op = "other" THEN content
                  ELSE [l \in Lba |-> IF l \in Blocks(req[h])
                                      THEN req[h].data[l - req[h].lo + 1]
                                      ELSE content[l]]

Fail(h) ==
    /\ req[h].st \in {"issued", "fetched"}
    /\ req' = [req EXCEPT ![h].st = "done", ![h].ok = FALSE, ![h].data = <<>>]
    /\ UNCHANGED content

Reap(h) ==
    /\ req[h].st = "done" /\ req' = [req EXCEPT ![h] = None]
    /\ UNCHANGED content

DiskNext == \E h \in Host : \/ IssueCmd(h) \/ Snapshot(h) \/ ReadDone(h)
                            \/ Apply(h) \/ Fail(h) \/ Reap(h)

DiskSpec == DiskInit /\ [][DiskNext]_diskVars
=============================================================================
