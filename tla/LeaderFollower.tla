--------------------------- MODULE LeaderFollower ---------------------------
(***************************************************************************)
(* The write path of the leader/follower key-value store: client /set at   *)
(* the leader, its replication to the followers in the three modes, and    *)
(* /internal/replicate at a follower (hw10/internal/leader/handler.go).    *)
(*                                                                         *)
(* Peers are numbered in the order of the leader's PEERS list, which is    *)
(* the order in which it sends and the order "the first two" refers to.    *)
(* The simulated delays order nothing and are left out.                    *)
(***************************************************************************)
EXTENDS VersionedStore, FiniteSets

CONSTANTS
    NumPeers,     \* followers in the PEERS list
    Mode,         \* "w5r1" | "w1r5" | "quorum"
    MaxOpen,      \* client writes that wait for their 201 at one time
    MaxFaults,    \* lost requests, broken connections and restarts
    Restartable   \* the nodes that may restart (with an empty map)

Leader == 0
Peer   == 1..NumPeers
Node   == 0..NumPeers

ASSUME NumPeersAssumption == NumPeers \in Nat

ASSUME ModeAssumption ==
    /\ Mode \in {"w5r1", "w1r5", "quorum"}
    /\ Mode = "quorum" => NumPeers >= 2    \* h.peers[2:] panics otherwise

ASSUME BoundsAssumption ==
    /\ MaxOpen \in Nat
    /\ MaxFaults \in Nat
    /\ Restartable \subseteq Node

VARIABLES
    store,       \* the key's entry at each node
    phase,       \* where handleSet of each write stands
    version,     \* req.Version: what the leader's Set returned (0 before)
    request,     \* the replicate request of a write to a peer
    reply,       \* what sendReplicate of that request came back with
    faults,      \* faults so far
    restarted,   \* nodes that have restarted
    overlapped   \* writes that began before another's 201

\* What is only remembered for the properties.
history == <<restarted, overlapped>>

vars == <<store, phase, version, request, reply, faults, history>>

Phase   == {"new", "open", "acked", "dropped"}
Request == {"unsent", "inflight", "applied", "lost"}
Reply   == {"none", "ok", "error"}

Open    == {w \in Writes : phase[w] = "open"}
Started == {w \in Writes : phase[w] # "new"}

\* How many peers, from the front of the list, handleSet waits for.
SyncCount ==
    CASE Mode = "w5r1"   -> NumPeers
      [] Mode = "w1r5"   -> 0
      [] Mode = "quorum" -> 2

SyncPeer == 1..SyncCount

\* wg.Wait() of replicateSync has returned.
SyncReturned(w) == \A p \in SyncPeer : reply[w][p] # "none"

Init ==
    /\ store      = [n \in Node |-> NoEntry]
    /\ phase      = [w \in Writes |-> "new"]
    /\ version    = [w \in Writes |-> 0]
    /\ request    = [w \in Writes |-> [p \in Peer |-> "unsent"]]
    /\ reply      = [w \in Writes |-> [p \in Peer |-> "none"]]
    /\ faults     = 0
    /\ restarted  = {}
    /\ overlapped = {}

-----------------------------------------------------------------------------
(* The leader.                                                             *)

\* handleSet up to its switch: the local Set gives the write its version.
HandleSet(w) ==
    /\ phase[w] = "new"
    /\ Cardinality(Open) < MaxOpen
    /\ store' = [store EXCEPT ![Leader] = Set(@, w, 0)]
    /\ version' = [version EXCEPT ![w] = NewVersion(store[Leader], 0)]
    /\ phase' = [phase EXCEPT ![w] = "open"]
    /\ overlapped' = IF Open = {} THEN overlapped ELSE overlapped \union {w}
    /\ UNCHANGED <<request, reply, faults, restarted>>

\* A bug to tell apart: the tail of the list is never sent to.
SendToSyncOnly(w, p) ==
    /\ phase[w] \in {"open", "acked"}
    /\ request[w][p] = "unsent"
    /\ p \in SyncPeer
    /\ \A q \in 1..(p - 1) : request[w][q] # "unsent"
    /\ request' = [request EXCEPT ![w][p] = "inflight"]
    /\ UNCHANGED <<store, phase, version, reply, faults, history>>

\* The loops of replicateSync and replicateToPeers start one sendReplicate
\* after the other, in list order; the peers handleSet does not wait for come
\* after those it does (at once in w1r5, after wg.Wait in quorum).
Send(w, p) ==
    /\ phase[w] \in {"open", "acked"}
    /\ request[w][p] = "unsent"
    /\ \A q \in 1..(p - 1) : request[w][q] # "unsent"
    /\ p > SyncCount => SyncReturned(w)
    /\ request' = [request EXCEPT ![w][p] = "inflight"]
    /\ UNCHANGED <<store, phase, version, reply, faults, history>>

\* A bug to tell apart: a request without an answer is waited for.
SendReturnsAnswered(w, p) ==
    /\ reply[w][p] = "none"
    /\ request[w][p] = "applied"
    /\ reply' = [reply EXCEPT ![w][p] = "ok"]
    /\ UNCHANGED <<store, phase, version, request, faults, history>>

\* sendReplicate returns; an error is logged and otherwise like an answer.
SendReturns(w, p) ==
    /\ reply[w][p] = "none"
    /\ request[w][p] \in {"applied", "lost"}
    /\ reply' = [reply EXCEPT ![w][p] =
                    IF request[w][p] = "applied" THEN "ok" ELSE "error"]
    /\ UNCHANGED <<store, phase, version, request, faults, history>>

\* A bug to tell apart: the 201 does not wait for the replies.
AckAtOnce(w) ==
    /\ phase[w] = "open"
    /\ \A p \in SyncPeer : request[w][p] # "unsent"
    /\ phase' = [phase EXCEPT ![w] = "acked"]
    /\ UNCHANGED <<store, version, request, reply, faults, history>>

\* w.WriteHeader(http.StatusCreated).
Ack(w) ==
    /\ phase[w] = "open"
    /\ SyncReturned(w)
    /\ phase' = [phase EXCEPT ![w] = "acked"]
    /\ UNCHANGED <<store, version, request, reply, faults, history>>

-----------------------------------------------------------------------------
(* A follower.                                                             *)

\* handleReplicate: whenever it runs, and in whatever order.
HandleReplicate(w, p) ==
    /\ request[w][p] = "inflight"
    /\ store' = [store EXCEPT ![p] = Set(@, w, version[w])]
    /\ request' = [request EXCEPT ![w][p] = "applied"]
    /\ UNCHANGED <<phase, version, reply, faults, history>>

-----------------------------------------------------------------------------
(* What can go wrong around the handlers.                                  *)

\* The request never reaches its peer: http.Post will return an error.
LoseRequest(w, p) ==
    /\ faults < MaxFaults
    /\ request[w][p] = "inflight"
    /\ request' = [request EXCEPT ![w][p] = "lost"]
    /\ faults' = faults + 1
    /\ UNCHANGED <<store, phase, version, reply, history>>

\* http.Post returns an error while the peer still works on the request.
BreakConnection(w, p) ==
    /\ faults < MaxFaults
    /\ request[w][p] = "inflight"
    /\ reply[w][p] = "none"
    /\ reply' = [reply EXCEPT ![w][p] = "error"]
    /\ faults' = faults + 1
    /\ UNCHANGED <<store, phase, version, request, history>>

\* A follower starts again with store.New(); of the requests on their way
\* those it had already received are gone.
RestartPeer(p) ==
    /\ faults < MaxFaults
    /\ p \in Restartable
    /\ \E gone \in SUBSET {w \in Writes : request[w][p] = "inflight"} :
          request' = [w \in Writes |->
                        IF w \in gone THEN [request[w] EXCEPT ![p] = "lost"]
                                      ELSE request[w]]
    /\ store' = [store EXCEPT ![p] = NoEntry]
    /\ restarted' = restarted \union {p}
    /\ faults' = faults + 1
    /\ UNCHANGED <<phase, version, reply, overlapped>>

\* The leader starts again: the handlers and the background goroutines of
\* all its writes are gone, requests already sent are not.
RestartLeader ==
    /\ faults < MaxFaults
    /\ Leader \in Restartable
    /\ store' = [store EXCEPT ![Leader] = NoEntry]
    /\ phase' = [w \in Writes |->
                    IF phase[w] = "open" THEN "dropped" ELSE phase[w]]
    /\ request' = [w \in Writes |-> [p \in Peer |->
                    IF phase[w] # "new" /\ request[w][p] = "unsent"
                    THEN "lost" ELSE request[w][p]]]
    /\ reply' = [w \in Writes |-> [p \in Peer |->
                    IF phase[w] # "new" /\ reply[w][p] = "none"
                    THEN "error" ELSE reply[w][p]]]
    /\ restarted' = restarted \union {Leader}
    /\ faults' = faults + 1
    /\ UNCHANGED <<version, overlapped>>

-----------------------------------------------------------------------------

Replicate(w, p) == Send(w, p) \/ HandleReplicate(w, p) \/ SendReturns(w, p)

\* Everything but the end of the leader's process.
Step ==
    \/ \E w \in Writes : HandleSet(w)
    \/ \E w \in Writes : Ack(w)
    \/ \E w \in Writes, p \in Peer : Replicate(w, p)
    \/ \E w \in Writes, p \in Peer : LoseRequest(w, p)
    \/ \E w \in Writes, p \in Peer : BreakConnection(w, p)
    \/ \E p \in Peer : RestartPeer(p)

Next == Step \/ RestartLeader

Spec == Init /\ [][Next]_vars

\* The Go scheduler runs every goroutine, a follower answers after its sleep,
\* and a request that cannot be answered ends in an error of http.Post.
Fairness ==
    /\ \A w \in Writes : WF_vars(Ack(w))
    /\ \A w \in Writes, p \in Peer : WF_vars(Replicate(w, p))

FairSpec == Spec /\ Fairness

-----------------------------------------------------------------------------
(* Properties.                                                             *)

\* Every variable has its type, and a fault count within its bound.
TypeOK ==
    /\ store \in [Node -> Entry]
    /\ phase \in [Writes -> Phase]
    /\ version \in [Writes -> Nat]
    /\ request \in [Writes -> [Peer -> Request]]
    /\ reply \in [Writes -> [Peer -> Reply]]
    /\ faults \in 0..MaxFaults
    /\ restarted \in SUBSET Restartable
    /\ overlapped \in SUBSET Writes

\* While the leader keeps its map, no two writes it accepted, however they
\* overlap, have the same version: the order of versions is the order in which
\* handleSet got the store's lock.
LeaderVersionsUnique ==
    Leader \notin restarted =>
        \A w, x \in Started : version[w] = version[x] => w = x

\* While the leader keeps its map, its own copy is the write with the highest
\* version it ever gave out, under exactly that version: no replication or
\* late handler can put an older write back.
LeaderHoldsLatest ==
    Leader \notin restarted =>
        \A w \in Started :
            /\ version[w] <= store[Leader].version
            /\ version[w] = store[Leader].version => store[Leader].value = w

\* Both: handlers that overlap, in any number, neither share a version nor
\* leave the leader with anything but the write of its highest one.
LeaderOrdersWrites == LeaderVersionsUnique /\ LeaderHoldsLatest

\* After the 201, every follower the mode waits for that answered without an
\* error, and kept its map, is at the write's version or above: replication
\* in any order never leaves such a follower below an acknowledged write.
AckedIsReplicated ==
    \A w \in Writes : phase[w] = "acked" =>
        \A p \in SyncPeer :
            /\ reply[w][p] # "none"
            /\ reply[w][p] = "ok" /\ p \notin restarted =>
                    store[p].version >= version[w]

\* One client write at a time and no fault: between writes, the leader and
\* every follower the mode waits for hold the very same value and version.
SyncPeersAgree ==
    (overlapped = {} /\ faults = 0 /\ Open = {}) =>
        \A p \in SyncPeer : store[p] = store[Leader]

\* A node replaces an entry only by one with a higher version, or loses it to
\* a restart: two reads of one node never see its version go back.
StoreMovesForward ==
    [][\A n \in Node :
          store'[n] # store[n] =>
              \/ store'[n].version > store[n].version
              \/ n \in Restartable /\ store'[n] = NoEntry]_vars

\* Every accepted write is answered in the end (or its leader restarted).
EveryWriteAnswered ==
    \A w \in Writes : phase[w] = "open" ~> phase[w] \in {"acked", "dropped"}

\* As long as nothing fails every follower, those nobody waits for included,
\* ends at the leader's version or above.
FollowersCatchUp ==
    <>[](faults = 0 =>
            \A p \in Peer : store[p].version >= store[Leader].version)
=============================================================================
