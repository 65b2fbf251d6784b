------------------------------- MODULE LoadTest -------------------------------
(***************************************************************************)
(* The load tester (hw10/loadtest/main.go, -leaderless) against the nodes  *)
(* of Leaderless: each write and each read is one job of a worker.  What   *)
(* the program is for is the column "stale" of its records, decided from a *)
(* tracker of versions that all workers share.                             *)
(*                                                                         *)
(* Workers run their jobs in any order and any number of them at a time;   *)
(* latencies and the times of writes, which plot.py uses, are left out.    *)
(***************************************************************************)
EXTENDS Leaderless

CONSTANT Reads     \* the jobs that read the key

VARIABLES
    tracked,   \* versionTracker.versions[key] (0: no such key)
    writer,    \* where the worker of each write stands
    back,      \* the version it read back (0: a 404)
    reader,    \* where the worker of each read stands
    seen,      \* the version it was answered (0: a 404)
    stale,     \* record.Stale
    recorded,  \* writes recorded in the tracker when the read was answered
    settled    \* writes acknowledged when the read was answered

client   == <<tracked, writer, back, reader, seen, stale, recorded, settled>>
loadVars == <<vars, client>>

Acked    == {w \in Writes : phase[w] = "acked"}
Recorded == {w \in Writes : writer[w] = "recorded"}

LoadInit ==
    /\ Init
    /\ tracked  = 0
    /\ writer   = [w \in Writes |-> "posting"]
    /\ back     = [w \in Writes |-> 0]
    /\ reader   = [r \in Reads |-> "idle"]
    /\ seen     = [r \in Reads |-> 0]
    /\ stale    = [r \in Reads |-> FALSE]
    /\ recorded = [r \in Reads |-> {}]
    /\ settled  = [r \in Reads |-> {}]

-----------------------------------------------------------------------------
(* A write: /set at some node (HandleSet to Ack), then a read back.        *)

\* doWrite has returned: doRead at the same node.
ReadBack(w) ==
    /\ phase[w] = "acked"
    /\ writer[w] = "posting"
    /\ back' = [back EXCEPT ![w] = store[coordinator[w]].version]
    /\ writer' = [writer EXCEPT ![w] = "read"]
    /\ UNCHANGED <<vars, tracked, reader, seen, stale, recorded, settled>>

\* doWrite returns an error (its time is over, or the connection breaks), or
\* the doRead after it does: the write is not recorded.
ClientFails(w) ==
    /\ faults < MaxFaults
    /\ phase[w] \in {"open", "acked"}
    /\ writer[w] = "posting"
    /\ writer' = [writer EXCEPT ![w] = "failed"]
    /\ faults' = faults + 1
    /\ UNCHANGED <<store, phase, coordinator, version, request, reply, history>>
    /\ UNCHANGED <<tracked, back, reader, seen, stale, recorded, settled>>

\* A bug to tell apart: the tracker takes the version that was read last.
LastOf(v, w) == w

\* The comparison of versionTracker.setWritten.
HigherOf(v, w) == IF w > v THEN w ELSE v

\* vt.setWritten; a 404 of the read back, version 0, changes nothing.
SetWritten(w) ==
    /\ writer[w] = "read"
    /\ tracked' = HigherOf(tracked, back[w])
    /\ writer' = [writer EXCEPT ![w] = "recorded"]
    /\ UNCHANGED <<vars, back, reader, seen, stale, recorded, settled>>

-----------------------------------------------------------------------------
(* A read, at any node; one that fails leaves no record.                   *)

\* doRead: the node's handleGet answers with its own copy.
DoRead(r, n) ==
    /\ reader[r] = "idle"
    /\ seen' = [seen EXCEPT ![r] = store[n].version]
    /\ reader' = [reader EXCEPT ![r] = "answered"]
    /\ recorded' = [recorded EXCEPT ![r] = Recorded]
    /\ settled' = [settled EXCEPT ![r] = Acked]
    /\ UNCHANGED <<vars, tracked, writer, back, stale>>

\* The tracker is only asked when the answer is there; a 404 is not stale.
RecordRead(r) ==
    /\ reader[r] = "answered"
    /\ stale' = [stale EXCEPT ![r] = seen[r] > 0 /\ seen[r] < tracked]
    /\ reader' = [reader EXCEPT ![r] = "recorded"]
    /\ UNCHANGED <<vars, tracked, writer, back, seen, recorded, settled>>

-----------------------------------------------------------------------------
LoadNext ==
    \/ Next /\ UNCHANGED client
    \/ \E w \in Writes : ReadBack(w) \/ ClientFails(w) \/ SetWritten(w)
    \/ \E r \in Reads, n \in Node : DoRead(r, n)
    \/ \E r \in Reads : RecordRead(r)

LoadSpec == LoadInit /\ [][LoadNext]_loadVars

-----------------------------------------------------------------------------
(* Properties.                                                             *)

\* Every variable of the nodes and of the client has its type.
LoadTypeOK ==
    /\ TypeOK
    /\ tracked \in Nat
    /\ writer \in [Writes -> {"posting", "failed", "read", "recorded"}]
    /\ back \in [Writes -> Nat]
    /\ reader \in [Reads -> {"idle", "answered", "recorded"}]
    /\ seen \in [Reads -> Nat]
    /\ stale \in [Reads -> BOOLEAN]
    /\ recorded \in [Reads -> SUBSET Writes]
    /\ settled \in [Reads -> SUBSET Writes]

\* A read answered below a write that was in the tracker before - below what
\* its worker read back, or below its own version as long as its coordinator
\* kept its map - is recorded as stale if the answer was an entry, although
\* workers record their writes in any order and a read back may see another's
\* write.  A 404 is below every write and never recorded as stale: the column
\* misses it, and so it misses nodes that a write did not reach or that
\* restarted, until they have an entry again.
OldReadIsStale ==
    \A r \in Reads : \A w \in recorded[r] :
        (/\ reader[r] = "recorded"
         /\ \/ seen[r] < back[w]
            \/ coordinator[w] \notin restarted /\ seen[r] < version[w])
            => (stale[r] <=> seen[r] > 0)

\* What the column shows when writes do not overlap and nothing fails: a read
\* recorded as stale overlaps a write, one that was not acknowledged when the
\* node answered, so W=N never leaves a stale copy behind its 201.
StaleReadOverlapsWrite ==
    (overlapped = {} /\ faults = 0) =>
        \A r \in Reads : stale[r] =>
            \E w \in Writes \ settled[r] :
                phase[w] # "new" /\ seen[r] < version[w]
=============================================================================
