------------------------------ MODULE Leaderless ------------------------------
(***************************************************************************)
(* The leaderless key-value store (hw10/internal/leaderless/handler.go):   *)
(* the node that takes a client write coordinates it and replicates it to  *)
(* every other node before its 201 (W=N); reads are local (R=1), so what a *)
(* client may read at a node is store[n].                                  *)
(*                                                                         *)
(* Nodes are numbered in the order of the peer lists.                      *)
(***************************************************************************)
EXTENDS VersionedStore, FiniteSets

CONSTANTS
    NumNodes,     \* nodes of the cluster
    MaxOpen,      \* client writes that wait for their 201 at one time
    MaxFaults,    \* lost requests, broken connections and restarts
    Restartable   \* the nodes that may restart (with an empty map)

Node     == 1..NumNodes
NoNode   == 0

ASSUME ClusterAssumption ==
    /\ NumNodes \in Nat
    /\ MaxOpen \in Nat
    /\ MaxFaults \in Nat
    /\ Restartable \subseteq Node

VARIABLES
    store,         \* the key's entry at each node
    phase,         \* where handleSet of each write stands
    coordinator,   \* the node that took the write
    version,       \* req.Version: what the coordinator's Set returned
    request,       \* the replicate request of a write to a node
    reply,         \* what sendReplicate of that request came back with
    faults,        \* faults so far
    restarted,     \* nodes that have restarted
    overlapped     \* writes that began before another's 201

\* What is only remembered for the properties.
history == <<restarted, overlapped>>

vars == <<store, phase, coordinator, version, request, reply, faults, history>>

Open    == {w \in Writes : phase[w] = "open"}
Started == {w \in Writes : phase[w] # "new"}

\* h.peers of the node that coordinates w.
PeersOf(w) == Node \ {coordinator[w]}

Init ==
    /\ store       = [n \in Node |-> NoEntry]
    /\ phase       = [w \in Writes |-> "new"]
    /\ coordinator = [w \in Writes |-> NoNode]
    /\ version     = [w \in Writes |-> 0]
    /\ request     = [w \in Writes |-> [n \in Node |-> "unsent"]]
    /\ reply       = [w \in Writes |-> [n \in Node |-> "none"]]
    /\ faults      = 0
    /\ restarted   = {}
    /\ overlapped  = {}

\* A bug to tell apart: the version of the request body is passed to Set and
\* nothing makes it the next one.
HandleSetUnstepped(w, n) ==
    /\ phase[w] = "new"
    /\ Cardinality(Open) < MaxOpen
    /\ store' = [store EXCEPT ![n] = [value |-> w, version |-> 1]]
    /\ version' = [version EXCEPT ![w] = 1]
    /\ coordinator' = [coordinator EXCEPT ![w] = n]
    /\ phase' = [phase EXCEPT ![w] = "open"]
    /\ overlapped' = IF Open = {} THEN overlapped ELSE overlapped \union {w}
    /\ UNCHANGED <<request, reply, faults, restarted>>

\* handleSet up to its loop: the local Set "establishes" the version.
HandleSet(w, n) ==
    /\ phase[w] = "new"
    /\ Cardinality(Open) < MaxOpen
    /\ store' = [store EXCEPT ![n] = Set(@, w, 0)]
    /\ version' = [version EXCEPT ![w] = NewVersion(store[n], 0)]
    /\ coordinator' = [coordinator EXCEPT ![w] = n]
    /\ phase' = [phase EXCEPT ![w] = "open"]
    /\ overlapped' = IF Open = {} THEN overlapped ELSE overlapped \union {w}
    /\ UNCHANGED <<request, reply, faults, restarted>>

\* The loop starts one sendReplicate after the other, in list order.
Send(w, n) ==
    /\ phase[w] = "open"
    /\ n \in PeersOf(w)
    /\ request[w][n] = "unsent"
    /\ \A q \in PeersOf(w) : q < n => request[w][q] # "unsent"
    /\ request' = [request EXCEPT ![w][n] = "inflight"]
    /\ UNCHANGED <<store, phase, coordinator, version, reply, faults, history>>

\* handleReplicate: whenever it runs, and in whatever order.
HandleReplicate(w, n) ==
    /\ request[w][n] = "inflight"
    /\ store' = [store EXCEPT ![n] = Set(@, w, version[w])]
    /\ request' = [request EXCEPT ![w][n] = "applied"]
    /\ UNCHANGED <<phase, coordinator, version, reply, faults, history>>

\* sendReplicate returns; an error is only logged.
SendReturns(w, n) ==
    /\ reply[w][n] = "none"
    /\ request[w][n] \in {"applied", "lost"}
    /\ reply' = [reply EXCEPT ![w][n] =
                    IF request[w][n] = "applied" THEN "ok" ELSE "error"]
    /\ UNCHANGED <<store, phase, coordinator, version, request, faults>>
    /\ UNCHANGED history

\* A bug to tell apart: the 201 does not wait for the replies.
AckAtOnce(w) ==
    /\ phase[w] = "open"
    /\ \A n \in PeersOf(w) : request[w][n] # "unsent"
    /\ phase' = [phase EXCEPT ![w] = "acked"]
    /\ UNCHANGED <<store, coordinator, version, request, reply, faults>>
    /\ UNCHANGED history

\* wg.Wait() has returned: 201.
Ack(w) ==
    /\ phase[w] = "open"
    /\ \A n \in PeersOf(w) : reply[w][n] # "none"
    /\ phase' = [phase EXCEPT ![w] = "acked"]
    /\ UNCHANGED <<store, coordinator, version, request, reply, faults>>
    /\ UNCHANGED history

\* The request never reaches its node: http.Post will return an error.
LoseRequest(w, n) ==
    /\ faults < MaxFaults
    /\ request[w][n] = "inflight"
    /\ request' = [request EXCEPT ![w][n] = "lost"]
    /\ faults' = faults + 1
    /\ UNCHANGED <<store, phase, coordinator, version, reply, history>>

\* http.Post returns an error while the node still works on the request.
BreakConnection(w, n) ==
    /\ faults < MaxFaults
    /\ request[w][n] = "inflight"
    /\ reply[w][n] = "none"
    /\ reply' = [reply EXCEPT ![w][n] = "error"]
    /\ faults' = faults + 1
    /\ UNCHANGED <<store, phase, coordinator, version, request, history>>

\* A node starts again with store.New(): gone are its map, the writes it was
\* coordinating, and any of the requests it had already received.
Restart(n) ==
    /\ faults < MaxFaults
    /\ n \in Restartable
    /\ store' = [store EXCEPT ![n] = NoEntry]
    /\ phase' = [w \in Writes |->
                    IF phase[w] = "open" /\ coordinator[w] = n
                    THEN "dropped" ELSE phase[w]]
    /\ \E gone \in SUBSET {w \in Writes : request[w][n] = "inflight"} :
          request' = [w \in Writes |-> [m \in Node |->
              IF \/ m = n /\ w \in gone
                 \/ coordinator[w] = n /\ request[w][m] = "unsent"
              THEN "lost" ELSE request[w][m]]]
    /\ reply' = [w \in Writes |-> [m \in Node |->
                    IF coordinator[w] = n /\ reply[w][m] = "none"
                    THEN "error" ELSE reply[w][m]]]
    /\ restarted' = restarted \union {n}
    /\ faults' = faults + 1
    /\ UNCHANGED <<coordinator, version, overlapped>>

Replicate(w, n) == Send(w, n) \/ HandleReplicate(w, n) \/ SendReturns(w, n)

Next ==
    \/ \E w \in Writes, n \in Node : HandleSet(w, n)
    \/ \E w \in Writes : Ack(w)
    \/ \E w \in Writes, n \in Node : Replicate(w, n)
    \/ \E w \in Writes, n \in Node : LoseRequest(w, n)
    \/ \E w \in Writes, n \in Node : BreakConnection(w, n)
    \/ \E n \in Node : Restart(n)

Spec == Init /\ [][Next]_vars

-----------------------------------------------------------------------------
(* Properties.                                                             *)

\* Every variable has its type.
TypeOK ==
    /\ store \in [Node -> Entry]
    /\ phase \in [Writes -> {"new", "open", "acked", "dropped"}]
    /\ coordinator \in [Writes -> Node \union {NoNode}]
    /\ version \in [Writes -> Nat]
    /\ request \in
          [Writes -> [Node -> {"unsent", "inflight", "applied", "lost"}]]
    /\ reply \in [Writes -> [Node -> {"none", "ok", "error"}]]
    /\ faults \in 0..MaxFaults
    /\ restarted \in SUBSET Restartable
    /\ overlapped \in SUBSET Writes

\* A coordinator that keeps its map never gives one version to two writes,
\* although the writes of others raise its version in between.
CoordinatorVersionsUnique ==
    \A w, x \in Started :
        (/\ coordinator[w] = coordinator[x]
         /\ coordinator[w] \notin restarted
         /\ version[w] = version[x]) => w = x

\* At the 201 every other node has answered or failed, and every node that
\* answered without an error and kept its map, the coordinator included, is at
\* the write's version or above: a read there never answers 404 or a lower
\* version, whatever the coordinators of other writes send it.
AckedIsEverywhere ==
    \A w \in Writes : phase[w] = "acked" =>
        /\ \A n \in PeersOf(w) : reply[w][n] # "none"
        /\ \A n \in Node \ restarted :
              n = coordinator[w] \/ reply[w][n] = "ok" =>
                  store[n].version >= version[w]

\* One client write at a time, at any coordinator, and no fault: between
\* writes all nodes hold the very same value and version.
SequentialNodesAgree ==
    (overlapped = {} /\ faults = 0 /\ Open = {}) =>
        \A m, n \in Node : store[m] = store[n]

\* A node replaces an entry only by one with a higher version, or loses it to
\* a restart, even when coordinators give versions independently.
StoreMovesForward ==
    [][\A n \in Node :
          store'[n] # store[n] =>
              \/ store'[n].version > store[n].version
              \/ n \in Restartable /\ store'[n] = NoEntry]_vars
=============================================================================
