--------------------------- MODULE LeaderlessProofs ---------------------------
(***************************************************************************)
(* Proofs about the leaderless nodes under the load tester, for every      *)
(* number of nodes, set of writes and reads, and bound on concurrent       *)
(* writes and faults.                                                      *)
(***************************************************************************)
EXTENDS LoadTest, VersionedStoreProofs

USE DEF history

\* A node is none that coordinates a write which is not there yet.
LEMMA NodeFacts == \A n \in Node : n # NoNode
BY ClusterAssumption, SMT DEF Node, NoNode

\* A step of the load tester alone: the nodes keep their state.
NodesKept ==
    /\ UNCHANGED <<store, phase, coordinator, version, request, reply, history>>
    /\ faults' = faults \/ (faults < MaxFaults /\ faults' = faults + 1)

LEMMA LoadSteps == [LoadNext]_loadVars => Next \/ NodesKept
<1> SUFFICES ASSUME [LoadNext]_loadVars PROVE Next \/ NodesKept
  OBVIOUS
<1>1. ASSUME NEW w \in Writes, ClientFails(w) PROVE NodesKept
  BY <1>1, ClusterAssumption, SMT DEF ClientFails, NodesKept
<1>2. CASE UNCHANGED vars
  BY <1>2 DEF NodesKept, vars
<1> QED
  BY <1>1, <1>2 DEF LoadNext, ReadBack, SetWritten, DoRead, RecordRead, loadVars

-----------------------------------------------------------------------------

LEMMA TypeStep ==
    ASSUME TypeOK, Next PROVE TypeOK'
<1> USE ClusterAssumption, NodeFacts
<1>1. ASSUME NEW w \in Writes, NEW n \in Node, HandleSet(w, n) PROVE TypeOK'
  <2>1. /\ Set(store[n], w, 0) \in Entry
        /\ NewVersion(store[n], 0) \in Nat
    BY LocalSetFacts, SMT DEF TypeOK
  <2> QED BY <1>1, <2>1, SMT DEF HandleSet, TypeOK
<1>2. ASSUME NEW w \in Writes, Ack(w) PROVE TypeOK'
  BY <1>2, SMT DEF Ack, TypeOK
<1>3. ASSUME NEW w \in Writes, NEW n \in Node, Send(w, n) PROVE TypeOK'
  BY <1>3, SMT DEF Send, TypeOK
<1>4. ASSUME NEW w \in Writes, NEW n \in Node, HandleReplicate(w, n)
      PROVE TypeOK'
  <2>1. Set(store[n], w, version[w]) \in Entry
    BY SetFacts, SMT DEF TypeOK
  <2> QED BY <1>4, <2>1, SMT DEF HandleReplicate, TypeOK
<1>5. ASSUME NEW w \in Writes, NEW n \in Node, SendReturns(w, n) PROVE TypeOK'
  BY <1>5, SMT DEF SendReturns, TypeOK
<1>6. ASSUME NEW w \in Writes, NEW n \in Node, LoseRequest(w, n) PROVE TypeOK'
  BY <1>6, SMT DEF LoseRequest, TypeOK
<1>7. ASSUME NEW w \in Writes, NEW n \in Node, BreakConnection(w, n)
      PROVE TypeOK'
  BY <1>7, SMT DEF BreakConnection, TypeOK
<1>8. ASSUME NEW n \in Node, Restart(n) PROVE TypeOK'
  <2>1. /\ store' \in [Node -> Entry]
        /\ restarted' \in SUBSET Restartable
        /\ faults' \in 0..MaxFaults
        /\ coordinator' = coordinator /\ version' = version
        /\ overlapped' = overlapped
    BY <1>8, EntryFacts, SMT DEF Restart, TypeOK
  <2>2. phase' \in [Writes -> {"new", "open", "acked", "dropped"}]
    BY <1>8, SMT DEF Restart, TypeOK
  <2>3. request' \in
          [Writes -> [Node -> {"unsent", "inflight", "applied", "lost"}]]
    BY <1>8, SMT DEF Restart, TypeOK
  <2>4. reply' \in [Writes -> [Node -> {"none", "ok", "error"}]]
    BY <1>8, SMT DEF Restart, TypeOK
  <2> QED BY <2>1, <2>2, <2>3, <2>4 DEF TypeOK
<1> QED
  BY <1>1, <1>2, <1>3, <1>4, <1>5, <1>6, <1>7, <1>8 DEF Next, Replicate

-----------------------------------------------------------------------------

\* What makes an acknowledgement worth something: a request is applied before
\* it is answered ok, and a node that holds a write, as its coordinator or by
\* a request, and kept its map is never below it again.
ReplInv ==
    /\ \A w \in Writes :
          /\ phase[w] = "new" <=> coordinator[w] = NoNode
          /\ phase[w] # "new" /\ coordinator[w] \notin restarted =>
                store[coordinator[w]].version >= version[w]
          /\ phase[w] = "acked" => \A n \in PeersOf(w) : reply[w][n] # "none"
    /\ \A w \in Writes, n \in Node :
          /\ phase[w] = "new" => request[w][n] = "unsent"
          /\ reply[w][n] = "ok" => request[w][n] = "applied"
          /\ request[w][n] = "applied" /\ n \notin restarted =>
                store[n].version >= version[w]
    /\ CoordinatorVersionsUnique

LEMMA ReplStep ==
    ASSUME TypeOK, ReplInv, Next PROVE ReplInv'
<1> USE NodeFacts
<1>1. ASSUME NEW w \in Writes, NEW n \in Node, HandleSet(w, n) PROVE ReplInv'
  <2>1. /\ store[n] \in Entry /\ store[n].version \in Nat
        /\ Set(store[n], w, 0).version = store[n].version + 1
        /\ NewVersion(store[n], 0) = store[n].version + 1
    BY LocalSetFacts, EntryFacts, SMT DEF TypeOK
  <2>2. /\ store'[n].version = store[n].version + 1
        /\ \A m \in Node : m # n => store'[m] = store[m]
        /\ version'[w] = store[n].version + 1
        /\ coordinator'[w] = n
        /\ phase'[w] = "open" /\ phase[w] = "new"
        /\ request' = request /\ reply' = reply /\ restarted' = restarted
        /\ \A x \in Writes : x # w => /\ version'[x] = version[x]
                                      /\ coordinator'[x] = coordinator[x]
                                      /\ phase'[x] = phase[x]
    BY <1>1, <2>1, SMT DEF HandleSet, TypeOK
  <2>3. \A m \in Node : /\ store[m].version \in Nat
                        /\ store'[m].version >= store[m].version
    BY <2>1, <2>2, EntryFacts, SMT DEF TypeOK
  <2>4. \A x \in Writes : version[x] \in Nat /\ coordinator[x] \in Node \union {NoNode}
    BY SMT DEF TypeOK
  <2>5. ASSUME NEW x \in Writes
        PROVE /\ phase'[x] = "new" <=> coordinator'[x] = NoNode
              /\ phase'[x] # "new" /\ coordinator'[x] \notin restarted' =>
                    store'[coordinator'[x]].version >= version'[x]
              /\ phase'[x] = "acked" =>
                    \A m \in Node \ {coordinator'[x]} : reply'[x][m] # "none"
    <3>1. CASE x = w
      BY <2>1, <2>2, <3>1, SMT
    <3>2. CASE x # w
      BY <2>2, <2>3, <2>4, <3>2, SMT DEF ReplInv, PeersOf
    <3> QED BY <3>1, <3>2
  <2>6. ASSUME NEW x \in Writes, NEW m \in Node
        PROVE /\ phase'[x] = "new" => request'[x][m] = "unsent"
              /\ reply'[x][m] = "ok" => request'[x][m] = "applied"
              /\ request'[x][m] = "applied" /\ m \notin restarted' =>
                    store'[m].version >= version'[x]
    <3>1. request[w][m] = "unsent"
      BY <2>2, SMT DEF ReplInv
    <3>2. CASE x = w
      BY <2>2, <3>1, <3>2, SMT DEF ReplInv
    <3>3. CASE x # w
      BY <2>2, <2>3, <2>4, <3>3, SMT DEF ReplInv
    <3> QED BY <3>2, <3>3
  <2>7. \A x \in Started' : x # w => x \in Started
    BY <2>2, SMT DEF Started
  <2>8. \A x \in Started : (coordinator[x] = n /\ n \notin restarted) =>
                               version[x] <= store[n].version
    BY <2>1, <2>4, SMT DEF ReplInv, Started
  <2>9. CoordinatorVersionsUnique'
    <3> SUFFICES ASSUME NEW x \in Started', NEW y \in Started',
                        coordinator'[x] = coordinator'[y],
                        coordinator'[x] \notin restarted',
                        version'[x] = version'[y]
                 PROVE x = y
      BY DEF CoordinatorVersionsUnique
    <3>0. x \in Writes /\ y \in Writes
      BY DEF Started
    <3>1. CASE x # w /\ y # w
      BY <2>2, <2>7, <3>0, <3>1 DEF ReplInv, CoordinatorVersionsUnique
    <3>2. CASE x = w /\ y # w
      BY <2>1, <2>2, <2>4, <2>7, <2>8, <3>0, <3>2, SMT
    <3>3. CASE x # w /\ y = w
      BY <2>1, <2>2, <2>4, <2>7, <2>8, <3>0, <3>3, SMT
    <3> QED BY <3>1, <3>2, <3>3
  <2> QED BY <2>5, <2>6, <2>9 DEF ReplInv, PeersOf
<1>2. ASSUME NEW w \in Writes, NEW n \in Node, HandleReplicate(w, n)
      PROVE ReplInv'
  <2>1. store[n] \in Entry /\ store[n].version \in Nat /\ version[w] \in Nat
    BY EntryFacts, SMT DEF TypeOK
  <2>2. /\ Set(store[n], w, version[w]).version \in Nat
        /\ Set(store[n], w, version[w]).version > store[n].version
        /\ Set(store[n], w, version[w]).version >= version[w]
    <3>1. /\ NewVersion(store[n], version[w]) \in Nat
          /\ NewVersion(store[n], version[w]) > store[n].version
          /\ NewVersion(store[n], version[w]) >= version[w]
          /\ Set(store[n], w, version[w]).version
                = NewVersion(store[n], version[w])
      BY <2>1, SetFacts
    <3> QED BY <3>1
  <2>3. /\ store'[n].version > store[n].version
        /\ store'[n].version >= version[w]
        /\ \A m \in Node : m # n => store'[m] = store[m]
        /\ request[w][n] = "inflight"
        /\ request'[w][n] = "applied"
        /\ \A x \in Writes, m \in Node :
              x # w \/ m # n => request'[x][m] = request[x][m]
        /\ UNCHANGED <<phase, coordinator, version, reply, restarted>>
        /\ store'[n].version \in Nat
    BY <1>2, <2>2, SMT DEF HandleReplicate, TypeOK
  <2>4. \A m \in Node : /\ store[m].version \in Nat
                        /\ store'[m].version \in Nat
                        /\ store'[m].version >= store[m].version
    BY <2>1, <2>3, EntryFacts, SMT DEF TypeOK
  <2>5. \A x \in Writes : version[x] \in Nat /\ coordinator[x] \in Node \union {NoNode}
    BY SMT DEF TypeOK
  <2>6. ASSUME NEW x \in Writes
        PROVE phase'[x] # "new" /\ coordinator'[x] \notin restarted' =>
                  store'[coordinator'[x]].version >= version'[x]
    BY <2>3, <2>4, <2>5, SMT DEF ReplInv
  <2>7. ASSUME NEW x \in Writes, NEW m \in Node
        PROVE /\ phase'[x] = "new" => request'[x][m] = "unsent"
              /\ reply'[x][m] = "ok" => request'[x][m] = "applied"
              /\ request'[x][m] = "applied" /\ m \notin restarted' =>
                    store'[m].version >= version'[x]
    <3>1. CASE x = w /\ m = n
      BY <2>3, <3>1, SMT DEF ReplInv
    <3>2. CASE x # w \/ m # n
      <4>1. request'[x][m] = request[x][m]
        BY <2>3, <3>2
      <4> QED BY <2>3, <2>4, <2>5, <4>1, SMT DEF ReplInv
    <3> QED BY <3>1, <3>2
  <2>8. CoordinatorVersionsUnique'
    BY <2>3 DEF ReplInv, CoordinatorVersionsUnique, Started
  <2> QED
    BY <2>3, <2>6, <2>7, <2>8 DEF ReplInv, PeersOf
<1>3. ASSUME NEW n \in Node, Restart(n) PROVE ReplInv'
  <2>1. /\ \A m \in Node : m \notin restarted' =>
              m \notin restarted /\ store'[m] = store[m]
        /\ coordinator' = coordinator /\ version' = version
        /\ \A x \in Writes : /\ phase'[x] = "new" <=> phase[x] = "new"
                             /\ phase'[x] = "acked" <=> phase[x] = "acked"
        /\ restarted \subseteq restarted'
    BY <1>3, SMT DEF Restart, TypeOK
  <2>2. ASSUME NEW x \in Writes, NEW m \in Node
        PROVE /\ request'[x][m] = "applied" <=> request[x][m] = "applied"
              /\ phase[x] = "new" => request'[x][m] = "unsent"
    <3>1. phase[x] = "new" => request[x][m] = "unsent" /\ coordinator[x] # n
      BY SMT DEF ReplInv
    <3> QED BY <1>3, <3>1, SMT DEF Restart, TypeOK
  <2>3. ASSUME NEW x \in Writes, NEW m \in Node
        PROVE /\ reply'[x][m] = "ok" <=> reply[x][m] = "ok"
              /\ reply[x][m] # "none" => reply'[x][m] # "none"
    BY <1>3, SMT DEF Restart, TypeOK
  <2>4. CoordinatorVersionsUnique'
    BY <2>1 DEF ReplInv, CoordinatorVersionsUnique, Started
  <2>5. \A x \in Writes : coordinator[x] \in Node \union {NoNode}
    BY SMT DEF TypeOK
  <2>6. ASSUME NEW x \in Writes
        PROVE /\ phase'[x] = "new" <=> coordinator'[x] = NoNode
              /\ phase'[x] # "new" /\ coordinator'[x] \notin restarted' =>
                    store'[coordinator'[x]].version >= version'[x]
              /\ phase'[x] = "acked" =>
                    \A m \in Node \ {coordinator'[x]} : reply'[x][m] # "none"
    BY <2>1, <2>3, <2>5 DEF ReplInv, PeersOf
  <2>7. ASSUME NEW x \in Writes, NEW m \in Node
        PROVE /\ phase'[x] = "new" => request'[x][m] = "unsent"
              /\ reply'[x][m] = "ok" => request'[x][m] = "applied"
              /\ request'[x][m] = "applied" /\ m \notin restarted' =>
                    store'[m].version >= version'[x]
    BY <2>1, <2>2, <2>3 DEF ReplInv
  <2> QED BY <2>4, <2>6, <2>7 DEF ReplInv, PeersOf
<1>4. ASSUME NEW w \in Writes, Ack(w) PROVE ReplInv'
  <2>1. \A x \in Writes : /\ phase'[x] = "new" <=> phase[x] = "new"
                          /\ phase'[x] = "acked" => phase[x] = "acked" \/ x = w
    BY <1>4, SMT DEF Ack, TypeOK
  <2> QED BY <1>4, <2>1 DEF Ack, ReplInv, PeersOf, CoordinatorVersionsUnique, Started
<1>5. ASSUME NEW w \in Writes, NEW n \in Node,
             UNCHANGED <<store, phase, coordinator, version, restarted>>,
             \/ Send(w, n) \/ SendReturns(w, n)
             \/ LoseRequest(w, n) \/ BreakConnection(w, n)
      PROVE ReplInv'
  <2>1. ASSUME NEW x \in Writes, NEW m \in Node
        PROVE /\ request'[x][m] = "applied" <=> request[x][m] = "applied"
              /\ phase[x] = "new" => request'[x][m] = "unsent"
              /\ reply'[x][m] = "ok" => request'[x][m] = "applied"
              /\ reply[x][m] # "none" => reply'[x][m] # "none"
    <3>1. /\ phase[x] = "new" => request[x][m] = "unsent"
          /\ reply[x][m] = "ok" => request[x][m] = "applied"
      BY DEF ReplInv
    <3>2. CASE Send(w, n)
      BY <3>1, <3>2, SMT DEF Send, TypeOK
    <3>3. CASE SendReturns(w, n)
      BY <3>1, <3>3, SMT DEF SendReturns, TypeOK
    <3>4. CASE LoseRequest(w, n)
      BY <3>1, <3>4, SMT DEF LoseRequest, TypeOK
    <3>5. CASE BreakConnection(w, n)
      BY <3>1, <3>5, SMT DEF BreakConnection, TypeOK
    <3> QED BY <1>5, <3>2, <3>3, <3>4, <3>5
  <2> QED BY <1>5, <2>1 DEF ReplInv, PeersOf, CoordinatorVersionsUnique, Started
<1> QED
  BY <1>1, <1>2, <1>3, <1>4, <1>5
     DEF Next, Replicate, Send, SendReturns, LoseRequest, BreakConnection

LEMMA ReplInductive ==
    /\ LoadInit => ReplInv
    /\ LoadTypeOK /\ ReplInv /\ [LoadNext]_loadVars => ReplInv'
<1>1. LoadInit => ReplInv
  BY NodeFacts, SMT DEF LoadInit, Init, ReplInv, CoordinatorVersionsUnique, Started
<1>2. ASSUME ReplInv, NodesKept PROVE ReplInv'
  BY <1>2 DEF NodesKept, ReplInv, PeersOf, CoordinatorVersionsUnique, Started
<1> QED BY <1>1, <1>2, LoadSteps, ReplStep DEF LoadTypeOK

\* The types and ReplInv are inductive together: a write that is acknowledged
\* has a coordinator to read back from.
LEMMA Invariants == LoadSpec => [](LoadTypeOK /\ ReplInv)
<1>1. LoadInit => LoadTypeOK
  BY ClusterAssumption, EntryFacts, SMT
     DEF LoadInit, LoadTypeOK, Init, TypeOK, NoNode
<1>2. LoadTypeOK /\ ReplInv /\ [LoadNext]_loadVars => LoadTypeOK'
  <2> SUFFICES ASSUME LoadTypeOK, ReplInv, [LoadNext]_loadVars PROVE LoadTypeOK'
    OBVIOUS
  <2>1. TypeOK'
    <3>1. CASE Next
      BY <3>1, TypeStep DEF LoadTypeOK
    <3>2. CASE NodesKept
      BY <3>2, ClusterAssumption, SMT DEF NodesKept, LoadTypeOK, TypeOK
    <3> QED BY <3>1, <3>2, LoadSteps
  <2>2. CASE UNCHANGED client
    BY <2>1, <2>2 DEF client, LoadTypeOK
  <2>3. ASSUME NEW w \in Writes, ReadBack(w) PROVE LoadTypeOK'
    <3>1. coordinator[w] \in Node
      BY <2>3, SMT DEF ReadBack, ReplInv, LoadTypeOK, TypeOK
    <3>2. back' \in [Writes -> Nat]
      BY <2>3, <3>1, EntryFacts, SMT DEF ReadBack, LoadTypeOK, TypeOK
    <3> QED BY <2>1, <2>3, <3>2, SMT DEF ReadBack, LoadTypeOK
  <2>4. ASSUME NEW w \in Writes, ClientFails(w) PROVE LoadTypeOK'
    BY <2>1, <2>4, SMT DEF ClientFails, LoadTypeOK
  <2>5. ASSUME NEW w \in Writes, SetWritten(w) PROVE LoadTypeOK'
    BY <2>1, <2>5, SMT DEF SetWritten, HigherOf, LoadTypeOK
  <2>6. ASSUME NEW r \in Reads, NEW n \in Node, DoRead(r, n) PROVE LoadTypeOK'
    <3>1. store[n].version \in Nat
      BY EntryFacts, SMT DEF LoadTypeOK, TypeOK
    <3> QED BY <2>1, <2>6, <3>1, SMT DEF DoRead, LoadTypeOK, Recorded, Acked
  <2>7. ASSUME NEW r \in Reads, RecordRead(r) PROVE LoadTypeOK'
    BY <2>1, <2>7, SMT DEF RecordRead, LoadTypeOK
  <2> QED BY <2>2, <2>3, <2>4, <2>5, <2>6, <2>7 DEF LoadNext, loadVars
<1> QED BY <1>1, <1>2, ReplInductive, PTL DEF LoadSpec

\* Every variable of the nodes and of the load tester keeps its type.
THEOREM TypeCorrect == LoadSpec => []LoadTypeOK
BY Invariants, PTL

\* A coordinator that keeps its map never gives one version to two writes.
THEOREM VersionsUnique == LoadSpec => []CoordinatorVersionsUnique
<1>1. ReplInv => CoordinatorVersionsUnique
  BY DEF ReplInv
<1> QED BY Invariants, <1>1, PTL

\* After the 201, every node that kept its map is at the write's version or
\* above, unless the coordinator was answered an error by it.
THEOREM AckedEverywhere == LoadSpec => []AckedIsEverywhere
<1>1. LoadTypeOK /\ ReplInv => AckedIsEverywhere
  <2> SUFFICES ASSUME TypeOK, ReplInv, NEW w \in Writes, phase[w] = "acked"
               PROVE /\ \A n \in PeersOf(w) : reply[w][n] # "none"
                     /\ \A n \in Node \ restarted :
                           n = coordinator[w] \/ reply[w][n] = "ok" =>
                               store[n].version >= version[w]
    BY DEF AckedIsEverywhere, LoadTypeOK
  <2> QED BY DEF ReplInv
<1> QED BY Invariants, <1>1, PTL

\* A node's version only grows, whoever coordinates the writes it receives and
\* in whatever order, until a restart empties the node.
THEOREM StoresMoveForward == Spec => StoreMovesForward
<1> DEFINE Forward ==
      \A n \in Node : store'[n] # store[n] =>
          \/ store'[n].version > store[n].version
          \/ n \in Restartable /\ store'[n] = NoEntry
<1>1. Init => TypeOK
  BY ClusterAssumption, EntryFacts, SMT DEF Init, TypeOK, NoNode
<1>2. TypeOK /\ [Next]_vars => TypeOK'
  <2>1. ASSUME TypeOK, UNCHANGED vars PROVE TypeOK'
    BY <2>1 DEF vars, TypeOK
  <2> QED BY <2>1, TypeStep
<1>3. TypeOK /\ [Next]_vars => [Forward]_vars
  <2> SUFFICES ASSUME TypeOK, Next, NEW n \in Node, store'[n] # store[n]
               PROVE  \/ store'[n].version > store[n].version
                      \/ n \in Restartable /\ store'[n] = NoEntry
    OBVIOUS
  <2>1. store[n] \in Entry
    BY DEF TypeOK
  <2>2. ASSUME NEW w \in Writes, NEW m \in Node, HandleSet(w, m)
        PROVE store'[n].version > store[n].version
    <3>1. Set(store[n], w, 0).version > store[n].version
      BY <2>1, LocalSetFacts, EntryFacts, SMT
    <3> QED BY <2>2, <3>1, SMT DEF HandleSet, TypeOK
  <2>3. ASSUME NEW w \in Writes, NEW m \in Node, HandleReplicate(w, m)
        PROVE store'[n].version > store[n].version
    <3>1. version[w] \in Nat
      BY DEF TypeOK
    <3>2. Set(store[n], w, version[w]).version > store[n].version
      BY <2>1, <3>1, SetFacts
    <3> QED BY <2>3, <3>2, SMT DEF HandleReplicate, TypeOK
  <2>4. ASSUME NEW m \in Node, Restart(m)
        PROVE n \in Restartable /\ store'[n] = NoEntry
    BY <2>4, SMT DEF Restart, TypeOK
  <2> QED
    BY <2>2, <2>3, <2>4
       DEF Next, Replicate, Ack, Send, SendReturns, LoseRequest, BreakConnection
<1> QED BY <1>1, <1>2, <1>3, PTL DEF Spec, StoreMovesForward

-----------------------------------------------------------------------------

\* One client write at a time and no fault, so far.
Sequential == overlapped = {} /\ faults = 0

\* Why the nodes agree between such writes: while the one write is open its
\* coordinator holds it, and every other node holds it too or is exactly one
\* version behind, so that its Set gives the write the version it has.
SeqInv == Sequential =>
    /\ restarted = {}
    /\ \A w, x \in Open : w = x
    /\ \A w \in Writes :
          /\ phase[w] # "dropped"
          /\ phase[w] # "new" => request[w][coordinator[w]] = "unsent"
    /\ \A w \in Writes, n \in Node :
          /\ request[w][n] # "lost"
          /\ reply[w][n] # "none" => request[w][n] = "applied"
          /\ phase[w] = "acked" /\ n \in PeersOf(w) => request[w][n] = "applied"
    /\ Open = {} => \A m, n \in Node : store[m] = store[n]
    /\ \A w \in Open :
          /\ store[coordinator[w]] = [value |-> w, version |-> version[w]]
          /\ \A n \in PeersOf(w) :
                IF request[w][n] = "applied"
                THEN store[n] = store[coordinator[w]]
                ELSE store[n].version + 1 = version[w]

\* So the Set of a request changes nothing in what it carries.
LEMMA SequentialReplicate ==
    ASSUME TypeOK, ReplInv, SeqInv, Sequential,
           NEW w \in Writes, NEW n \in Node, HandleReplicate(w, n)
    PROVE  /\ w \in Open /\ n \in PeersOf(w)
           /\ Set(store[n], w, version[w]) = [value |-> w, version |-> version[w]]
<1>1. phase[w] # "new" /\ request[w][n] = "inflight"
  BY SMT DEF HandleReplicate, ReplInv
<1>2. n \in PeersOf(w)
  BY <1>1, SMT DEF SeqInv, PeersOf
<1>3. w \in Open
  BY <1>1, <1>2, SMT DEF SeqInv, Open, TypeOK
<1>4. store[n].version + 1 = version[w]
  <2>1. request[w][n] # "applied"
    BY <1>1
  <2> QED BY <1>2, <1>3, <2>1, Zenon DEF SeqInv
<1>5. NewVersion(store[n], version[w]) = version[w]
  <2>1. store[n] \in Entry /\ version[w] \in Nat
    BY SMT DEF TypeOK
  <2> QED BY <1>4, <2>1, SetFacts
<1> QED BY <1>2, <1>3, <1>5 DEF Set

LEMMA SeqStep ==
    ASSUME TypeOK, ReplInv, SeqInv, Next PROVE SeqInv'
<1> USE NodeFacts
<1> SUFFICES ASSUME Sequential' PROVE SeqInv'
  BY DEF SeqInv
<1>1. ASSUME NEW w \in Writes, NEW n \in Node, HandleSet(w, n) PROVE SeqInv'
  <2>1. Sequential /\ Open = {} /\ restarted' = {}
    BY <1>1, SMT DEF HandleSet, Sequential, SeqInv
  <2>2. store[n] \in Entry /\ store[n].version \in Nat
    BY EntryFacts, SMT DEF TypeOK
  <2>3. /\ store'[n] = Set(store[n], w, 0)
        /\ \A m \in Node : m # n => store'[m] = store[m]
        /\ version'[w] = NewVersion(store[n], 0)
        /\ coordinator'[w] = n
        /\ phase'[w] = "open" /\ phase[w] = "new"
        /\ request' = request /\ reply' = reply
        /\ \A x \in Writes : x # w => /\ phase'[x] = phase[x]
                                      /\ coordinator'[x] = coordinator[x]
    BY <1>1, SMT DEF HandleSet, TypeOK
  <2>4. /\ store'[n] = [value |-> w, version |-> version'[w]]
        /\ version'[w] = store[n].version + 1
    BY <2>2, <2>3, LocalSetFacts DEF Set
  <2>5. \A m \in Node : store[m] = store[n]
    BY <2>1 DEF SeqInv
  <2>6. Open' = {w}
    BY <2>1, <2>3, SMT DEF Open
  <2>7. \A m \in Node : request[w][m] = "unsent"
    BY <2>3, SMT DEF ReplInv
  <2>8. /\ \A x, y \in Open' : x = y
        /\ ~ (Open' = {})
    BY <2>6
  <2>9. ASSUME NEW x \in Writes
        PROVE /\ phase'[x] # "dropped"
              /\ phase'[x] # "new" => request'[x][coordinator'[x]] = "unsent"
    <3>1. CASE x = w
      BY <2>3, <2>7, <3>1, SMT
    <3>2. CASE x # w
      BY <2>1, <2>3, <3>2, SMT DEF SeqInv
    <3> QED BY <3>1, <3>2
  <2>10. ASSUME NEW x \in Writes, NEW m \in Node
         PROVE /\ request'[x][m] # "lost"
               /\ reply'[x][m] # "none" => request'[x][m] = "applied"
               /\ phase'[x] = "acked" /\ m \in Node \ {coordinator'[x]} =>
                      request'[x][m] = "applied"
    <3>1. CASE x = w
      BY <2>1, <2>3, <2>7, <3>1, SMT DEF SeqInv
    <3>2. CASE x # w
      BY <2>1, <2>3, <3>2, SMT DEF SeqInv, PeersOf
    <3> QED BY <3>1, <3>2
  <2>11. ASSUME NEW x \in Open'
         PROVE /\ store'[coordinator'[x]] = [value |-> x, version |-> version'[x]]
               /\ \A m \in Node \ {coordinator'[x]} :
                     /\ request'[x][m] # "applied"
                     /\ store'[m].version + 1 = version'[x]
    <3>1. x = w
      BY <2>6
    <3> QED BY <2>3, <2>4, <2>5, <2>7, <3>1
  <2> QED BY <2>1, <2>8, <2>9, <2>10, <2>11 DEF SeqInv, PeersOf
<1>2. ASSUME NEW w \in Writes, Ack(w) PROVE SeqInv'
  <2>1. Sequential /\ w \in Open
    BY <1>2 DEF Ack, Sequential, Open
  <2>2. Open = {w}
    BY <2>1 DEF SeqInv
  <2>3. \A n \in PeersOf(w) : request[w][n] = "applied"
    BY <1>2, <2>1 DEF Ack, SeqInv, PeersOf
  <2>4. \A n \in Node : store[n] = store[coordinator[w]]
    BY <2>1, <2>3 DEF SeqInv, PeersOf
  <2>5. Open' = {}
    BY <1>2, <2>2, SMT DEF Ack, Open, TypeOK
  <2>6. \A x \in Writes :
            /\ phase'[x] # "dropped"
            /\ phase'[x] # "new" => phase[x] # "new"
            /\ phase'[x] = "acked" => phase[x] = "acked" \/ x = w
    BY <1>2, <2>1, SMT DEF Ack, TypeOK, SeqInv, Open
  <2>7. UNCHANGED <<store, coordinator, version, request, reply, restarted>>
    BY <1>2 DEF Ack
  <2> QED BY <2>1, <2>3, <2>4, <2>5, <2>6, <2>7 DEF SeqInv, PeersOf
<1>3. ASSUME NEW w \in Writes, NEW n \in Node, Send(w, n) PROVE SeqInv'
  <2>1. Sequential /\ Open' = Open
    BY <1>3 DEF Send, Sequential, Open
  <2>2. /\ UNCHANGED <<store, phase, coordinator, version, reply, restarted>>
        /\ \A x \in Writes, m \in Node :
              /\ request'[x][m] = "applied" <=> request[x][m] = "applied"
              /\ request'[x][m] = "lost" => request[x][m] = "lost"
              /\ m = coordinator[x] => request'[x][m] = request[x][m]
    BY <1>3, SMT DEF Send, PeersOf, TypeOK
  <2>3. \A x \in Writes : phase[x] # "new" => coordinator[x] \in Node
    BY SMT DEF ReplInv, TypeOK
  <2>4. \A x \in Open : x \in Writes
    BY DEF Open
  <2> QED BY <2>1, <2>2, <2>3, <2>4 DEF SeqInv, PeersOf
<1>4. ASSUME NEW w \in Writes, NEW n \in Node, HandleReplicate(w, n)
      PROVE SeqInv'
  <2>1. Sequential /\ Open' = Open
    BY <1>4 DEF HandleReplicate, Sequential, Open
  <2>2. /\ w \in Open /\ n \in PeersOf(w) /\ Open = {w}
        /\ Set(store[n], w, version[w]) = [value |-> w, version |-> version[w]]
    BY <1>4, <2>1, SequentialReplicate DEF SeqInv
  <2>3. /\ store'[n] = [value |-> w, version |-> version[w]]
        /\ \A m \in Node : m # n => store'[m] = store[m]
        /\ request'[w][n] = "applied"
        /\ \A x \in Writes, m \in Node :
              x # w \/ m # n => request'[x][m] = request[x][m]
        /\ UNCHANGED <<phase, coordinator, version, reply, restarted>>
    BY <1>4, <2>2, SMT DEF HandleReplicate, TypeOK
  <2>4. \A x \in Writes : phase[x] # "new" => coordinator[x] \in Node
    BY SMT DEF ReplInv, TypeOK
  <2>5. coordinator[w] \in Node /\ coordinator[w] # n
    BY <2>2, <2>4 DEF Open, PeersOf
  <2>6. store'[coordinator[w]] = [value |-> w, version |-> version[w]]
    BY <2>1, <2>2, <2>3, <2>5 DEF SeqInv
  <2>7. ASSUME NEW m \in PeersOf(w)
        PROVE IF request'[w][m] = "applied" THEN store'[m] = store'[coordinator[w]]
              ELSE store'[m].version + 1 = version[w]
    <3>1. CASE m = n
      BY <2>3, <2>6, <3>1
    <3>2. CASE m # n
      <4>1. m \in Node /\ request'[w][m] = request[w][m] /\ store'[m] = store[m]
        BY <2>3, <3>2 DEF PeersOf
      <4>2. store'[coordinator[w]] = store[coordinator[w]]
        BY <2>3, <2>5
      <4> QED BY <2>1, <2>2, <4>1, <4>2 DEF SeqInv
    <3> QED BY <3>1, <3>2
  <2>8. ASSUME NEW x \in Writes
        PROVE phase[x] # "new" => request'[x][coordinator[x]] = "unsent"
    BY <2>1, <2>3, <2>4, <2>5 DEF SeqInv
  <2>9. ASSUME NEW x \in Writes, NEW m \in Node
        PROVE /\ request'[x][m] # "lost"
              /\ reply[x][m] # "none" => request'[x][m] = "applied"
              /\ phase[x] = "acked" /\ m \in PeersOf(x) =>
                     request'[x][m] = "applied"
    BY <2>1, <2>3 DEF SeqInv
  <2>10. /\ restarted = {}
         /\ \A x, y \in Open : x = y
         /\ \A x \in Writes : phase[x] # "dropped"
    BY <2>1 DEF SeqInv
  <2> QED
    BY <2>1, <2>2, <2>3, <2>6, <2>7, <2>8, <2>9, <2>10 DEF SeqInv, PeersOf
<1>5. ASSUME NEW w \in Writes, NEW n \in Node, SendReturns(w, n) PROVE SeqInv'
  <2>1. Sequential /\ Open' = Open
    BY <1>5 DEF SendReturns, Sequential, Open
  <2>2. request[w][n] = "applied"
    BY <1>5, <2>1 DEF SendReturns, SeqInv
  <2>3. \A x \in Writes, m \in Node :
            reply'[x][m] # "none" =>
                reply[x][m] # "none" \/ request[x][m] = "applied"
    BY <1>5, <2>2, SMT DEF SendReturns, TypeOK
  <2> QED BY <1>5, <2>1, <2>3 DEF SendReturns, SeqInv, PeersOf
<1>6. ASSUME faults' = faults + 1 PROVE SeqInv'
  BY <1>6, SMT DEF Sequential, TypeOK
<1> QED
  BY <1>1, <1>2, <1>3, <1>4, <1>5, <1>6
     DEF Next, Replicate, LoseRequest, BreakConnection, Restart

LEMMA SeqInvariant == LoadSpec => []SeqInv
<1>1. LoadInit => SeqInv
  BY SMT DEF LoadInit, Init, SeqInv, Open
<1>2. ASSUME TypeOK, SeqInv, NodesKept PROVE SeqInv'
  <2>1. Sequential' => Sequential
    BY <1>2, SMT DEF NodesKept, Sequential, TypeOK
  <2> QED BY <1>2, <2>1 DEF NodesKept, SeqInv, Open, PeersOf
<1>3. LoadTypeOK /\ ReplInv /\ SeqInv /\ [LoadNext]_loadVars => SeqInv'
  BY <1>2, LoadSteps, SeqStep DEF LoadTypeOK
<1> QED BY Invariants, <1>1, <1>3, PTL DEF LoadSpec

\* With one client write at a time, at any coordinator, and no fault, all
\* nodes hold the same value and version between writes, for any number of
\* nodes and writes.
THEOREM SequentialAgreement == LoadSpec => []SequentialNodesAgree
<1>1. SeqInv => SequentialNodesAgree
  BY DEF SeqInv, SequentialNodesAgree, Sequential
<1> QED BY SeqInvariant, <1>1, PTL

-----------------------------------------------------------------------------

\* What the load tester relies on: a write keeps the version it was given, and
\* an acknowledgement is final.
LEMMA WritesAreFinal ==
    ASSUME TypeOK, [LoadNext]_loadVars
    PROVE  /\ \A w \in Started : /\ w \in Started' /\ version'[w] = version[w]
                                 /\ coordinator'[w] = coordinator[w]
           /\ Acked \subseteq Acked'
           /\ restarted \subseteq restarted'
<1>1. CASE NodesKept
  BY <1>1 DEF NodesKept, Started, Acked
<1>2. ASSUME NEW w \in Writes, NEW n \in Node, HandleSet(w, n)
      PROVE /\ \A x \in Started : /\ x \in Started' /\ version'[x] = version[x]
                                  /\ coordinator'[x] = coordinator[x]
            /\ Acked \subseteq Acked'
            /\ restarted \subseteq restarted'
  BY <1>2, SMT DEF HandleSet, TypeOK, Started, Acked
<1>3. ASSUME NEW w \in Writes, Ack(w)
      PROVE /\ \A x \in Started : /\ x \in Started' /\ version'[x] = version[x]
                                  /\ coordinator'[x] = coordinator[x]
            /\ Acked \subseteq Acked'
            /\ restarted \subseteq restarted'
  BY <1>3, SMT DEF Ack, TypeOK, Started, Acked
<1>4. ASSUME NEW n \in Node, Restart(n)
      PROVE /\ \A x \in Started : /\ x \in Started' /\ version'[x] = version[x]
                                  /\ coordinator'[x] = coordinator[x]
            /\ Acked \subseteq Acked'
            /\ restarted \subseteq restarted'
  BY <1>4, SMT DEF Restart, TypeOK, Started, Acked
<1>5. ASSUME UNCHANGED <<phase, version, coordinator, restarted>>
      PROVE /\ \A x \in Started : /\ x \in Started' /\ version'[x] = version[x]
                                  /\ coordinator'[x] = coordinator[x]
            /\ Acked \subseteq Acked'
            /\ restarted \subseteq restarted'
  BY <1>5 DEF Started, Acked
<1> QED
  BY <1>1, <1>2, <1>3, <1>4, <1>5, LoadSteps
     DEF Next, Replicate, Send, HandleReplicate, SendReturns, LoseRequest,
         BreakConnection

\* A worker that has read back at a coordinator that kept its map saw its own
\* write or a later version, and the tracker never falls below what was read
\* back of a write that is recorded in it.
TrackInv ==
    /\ \A w \in Writes :
          /\ writer[w] \in {"read", "recorded"} => w \in Acked
          /\ writer[w] \in {"read", "recorded"} /\ coordinator[w] \notin restarted
                => back[w] >= version[w]
          /\ writer[w] = "recorded" => tracked >= back[w]
    /\ \A r \in Reads : recorded[r] \subseteq Recorded
    /\ OldReadIsStale

\* A read is behind write w: below what its worker read back, or below its
\* version while its coordinator keeps its map.
Behind(v, w) ==
    v < back[w] \/ (coordinator[w] \notin restarted /\ v < version[w])

LEMMA TrackStep ==
    ASSUME LoadTypeOK, LoadTypeOK', ReplInv, TrackInv, [LoadNext]_loadVars
    PROVE  TrackInv'
<1>1. \A w \in Acked : w \in Writes /\ w \in Started
  BY SMT DEF Acked, Started
<1>2. /\ \A w \in Acked : /\ w \in Acked' /\ version'[w] = version[w]
                          /\ coordinator'[w] = coordinator[w]
      /\ restarted \subseteq restarted'
  BY <1>1, WritesAreFinal DEF LoadTypeOK
<1>3. \A w \in Recorded : w \in Acked /\ w \in Writes
  BY DEF Recorded, TrackInv
<1>4. ASSUME UNCHANGED <<tracked, writer, back, reader, seen, stale, recorded>>
      PROVE TrackInv'
  <2>1. ASSUME NEW w \in Acked, NEW v, Behind(v, w)' PROVE Behind(v, w)
    BY <1>2, <1>4, <2>1, Zenon DEF Behind
  <2>2. \A r \in Reads : \A w \in recorded[r] : w \in Acked
    BY <1>3 DEF TrackInv
  <2>3. OldReadIsStale'
    BY <1>4, <2>1, <2>2, Zenon DEF TrackInv, OldReadIsStale, Behind
  <2>4. \A w \in Writes :
           /\ writer'[w] \in {"read", "recorded"} => w \in Acked'
           /\ writer'[w] \in {"read", "recorded"} /\ coordinator'[w] \notin restarted'
                 => back'[w] >= version'[w]
           /\ writer'[w] = "recorded" => tracked' >= back'[w]
    BY <1>2, <1>4, Zenon DEF TrackInv
  <2>5. \A r \in Reads : recorded'[r] \subseteq Recorded'
    BY <1>4 DEF TrackInv, Recorded
  <2> QED BY <2>3, <2>4, <2>5 DEF TrackInv
<1>5. ASSUME NEW w \in Writes, ReadBack(w) PROVE TrackInv'
  <2>1. /\ w \in Acked
        /\ coordinator[w] \notin restarted =>
              store[coordinator[w]].version >= version[w]
    <3>1. phase[w] = "acked"
      BY <1>5, SMT DEF ReadBack
    <3>2. phase[w] # "new"
      BY <3>1
    <3> QED BY <3>1, <3>2 DEF ReplInv, Acked
  <2>2. /\ back'[w] = store[coordinator[w]].version
        /\ writer'[w] = "read" /\ writer[w] = "posting"
        /\ \A x \in Writes : x # w => /\ back'[x] = back[x]
                                      /\ writer'[x] = writer[x]
        /\ UNCHANGED <<version, coordinator, restarted, phase, tracked, reader,
                       seen, stale, recorded>>
    BY <1>5, SMT DEF ReadBack, LoadTypeOK, vars, history
  <2>3. Recorded' = Recorded /\ Acked' = Acked
    BY <2>2, SMT DEF Recorded, Acked
  <2>4. \A r \in Reads : w \notin recorded[r] /\ recorded[r] \subseteq Writes
    BY <2>2 DEF TrackInv, Recorded
  <2>5. OldReadIsStale'
    BY <2>2, <2>4 DEF OldReadIsStale, TrackInv
  <2> QED BY <2>1, <2>2, <2>3, <2>5 DEF TrackInv
<1>6. ASSUME NEW w \in Writes, ClientFails(w) PROVE TrackInv'
  <2>1. /\ \A x \in Writes : writer'[x] \in {"read", "recorded"} =>
                                 writer'[x] = writer[x]
        /\ Recorded' = Recorded
        /\ UNCHANGED <<phase, version, coordinator, restarted, tracked, back,
                       reader, seen, stale, recorded>>
    BY <1>6, SMT DEF ClientFails, LoadTypeOK, Recorded, history
  <2> QED BY <2>1 DEF TrackInv, OldReadIsStale, Acked
<1>7. ASSUME NEW w \in Writes, SetWritten(w) PROVE TrackInv'
  <2>1. /\ writer[w] = "read" /\ writer'[w] = "recorded"
        /\ \A x \in Writes : x # w => writer'[x] = writer[x]
        /\ UNCHANGED <<version, coordinator, restarted, phase, back, reader,
                       seen, stale, recorded>>
    BY <1>7, SMT DEF SetWritten, LoadTypeOK, vars, history
  <2>2. tracked' >= tracked /\ tracked' >= back[w]
    BY <1>7, SMT DEF SetWritten, HigherOf, LoadTypeOK
  <2>3. Recorded \subseteq Recorded'
    BY <2>1 DEF Recorded
  <2>4. \A x \in Writes : back[x] \in Nat /\ tracked \in Nat /\ tracked' \in Nat
    BY DEF LoadTypeOK
  <2>5. \A x \in Writes : writer'[x] = "recorded" => tracked' >= back[x]
    BY <2>1, <2>2, <2>4, SMT DEF TrackInv
  <2>6. \A x \in Writes :
           writer'[x] \in {"read", "recorded"} => writer[x] \in {"read", "recorded"}
    BY <2>1
  <2> QED BY <2>1, <2>3, <2>5, <2>6 DEF TrackInv, OldReadIsStale, Acked
<1>8. ASSUME NEW r \in Reads, NEW n \in Node, DoRead(r, n) PROVE TrackInv'
  <2>1. /\ reader'[r] = "answered" /\ recorded'[r] = Recorded
        /\ \A q \in Reads : q # r => /\ reader'[q] = reader[q]
                                     /\ recorded'[q] = recorded[q]
                                     /\ seen'[q] = seen[q]
        /\ UNCHANGED <<version, coordinator, restarted, phase, tracked, writer,
                       back, stale>>
    BY <1>8, SMT DEF DoRead, LoadTypeOK, vars, history
  <2>2. Recorded' = Recorded /\ Acked' = Acked
    BY <2>1 DEF Recorded, Acked
  <2>3. \A q \in Reads : recorded'[q] \subseteq Recorded
    BY <2>1 DEF TrackInv
  <2>4. OldReadIsStale'
    BY <2>1, SMT DEF TrackInv, OldReadIsStale
  <2> QED BY <2>1, <2>2, <2>3, <2>4 DEF TrackInv
<1>9. ASSUME NEW r \in Reads, RecordRead(r) PROVE TrackInv'
  <2>1. /\ stale'[r] = (seen[r] > 0 /\ seen[r] < tracked)
        /\ \A q \in Reads : q # r => /\ reader'[q] = reader[q]
                                     /\ stale'[q] = stale[q]
        /\ UNCHANGED <<version, coordinator, restarted, phase, tracked, writer,
                       back, seen, recorded>>
    BY <1>9, SMT DEF RecordRead, LoadTypeOK, vars, history
  <2>2. Recorded' = Recorded /\ Acked' = Acked
    BY <2>1 DEF Recorded, Acked
  <2>3. ASSUME NEW w \in recorded[r], Behind(seen[r], w)
        PROVE stale'[r] <=> seen[r] > 0
    <3>1. w \in Writes /\ writer[w] = "recorded"
      BY <1>3, <2>3 DEF TrackInv, Recorded
    <3>2. /\ tracked >= back[w]
          /\ coordinator[w] \notin restarted => back[w] >= version[w]
      BY <3>1 DEF TrackInv
    <3>3. /\ tracked \in Nat /\ version[w] \in Nat /\ seen[r] \in Nat
          /\ back[w] \in Nat
      BY <3>1 DEF LoadTypeOK, TypeOK
    <3>4. seen[r] < tracked
      BY <2>3, <3>2, <3>3, SMT DEF Behind
    <3> QED BY <2>1, <3>4
  <2>4. OldReadIsStale'
    BY <2>1, <2>3 DEF TrackInv, OldReadIsStale, Behind
  <2> QED BY <2>1, <2>2, <2>4 DEF TrackInv
<1> QED
  BY <1>4, <1>5, <1>6, <1>7, <1>8, <1>9
     DEF LoadNext, loadVars, client

\* Whatever the order in which workers record their writes, and whichever
\* nodes restart, a read answered with an entry below one recorded before is
\* flagged; a 404, which is below every write, never is.
THEOREM OldReadsAreStale == LoadSpec => []OldReadIsStale
<1>1. LoadInit => TrackInv
  BY SMT DEF LoadInit, Init, TrackInv, OldReadIsStale, Recorded
<1>2. TrackInv => OldReadIsStale
  BY DEF TrackInv
<1>3. (LoadTypeOK /\ ReplInv) /\ (LoadTypeOK /\ ReplInv)' /\ TrackInv
          /\ [LoadNext]_loadVars => TrackInv'
  BY TrackStep
<1> QED BY Invariants, <1>1, <1>2, <1>3, PTL DEF LoadSpec

-----------------------------------------------------------------------------

\* The versions given to writes so far, and that of the missing entry.
Given == {0} \union {version[w] : w \in Started}

\* What a read can be told stale by, without overlapping writes and faults:
\* every version anyone holds was given to a write, and a read saw at least
\* those of the writes acknowledged before its answer.
StaleInv == Sequential =>
    /\ \A n \in Node : store[n].version \in Given
    /\ \A w \in Writes : back[w] \in Given
    /\ tracked \in Given
    /\ \A r \in Reads :
          /\ stale[r] => reader[r] = "recorded"
          /\ \A w \in settled[r] : w \in Acked /\ version[w] <= seen[r]
    /\ StaleReadOverlapsWrite

LEMMA SequentialSoFar ==
    ASSUME TypeOK, [LoadNext]_loadVars, Sequential' PROVE Sequential
<1>1. CASE NodesKept
  BY <1>1, SMT DEF NodesKept, Sequential, TypeOK
<1>2. CASE Next
  BY <1>2, SMT DEF Next, HandleSet, Ack, Replicate, Send, HandleReplicate,
     SendReturns, LoseRequest, BreakConnection, Restart, Sequential, TypeOK
<1> QED BY <1>1, <1>2, LoadSteps

\* The nodes hold versions of writes only.
LEMMA GivenStep ==
    ASSUME TypeOK, ReplInv, SeqInv, StaleInv, [LoadNext]_loadVars, Sequential'
    PROVE  \A n \in Node : store'[n].version \in Given'
<1>1. Sequential
  BY SequentialSoFar
<1>2. \A n \in Node : store[n].version \in Given'
  <2>1. Given \subseteq Given'
    BY WritesAreFinal DEF Given
  <2> QED BY <1>1, <2>1 DEF StaleInv
<1>3. ASSUME NEW w \in Writes, NEW n \in Node, HandleSet(w, n)
      PROVE \A m \in Node : store'[m].version \in Given'
  <2>1. store[n] \in Entry
    BY DEF TypeOK
  <2>2. /\ store'[n] = Set(store[n], w, 0)
        /\ version'[w] = NewVersion(store[n], 0)
        /\ phase'[w] = "open"
        /\ \A m \in Node : m # n => store'[m] = store[m]
    BY <1>3, SMT DEF HandleSet, TypeOK
  <2>3. store'[n].version = version'[w]
    BY <2>2 DEF Set
  <2> QED BY <1>2, <2>2, <2>3 DEF Given, Started
<1>4. ASSUME NEW w \in Writes, NEW n \in Node, HandleReplicate(w, n)
      PROVE \A m \in Node : store'[m].version \in Given'
  <2>1. /\ w \in Started
        /\ Set(store[n], w, version[w]) = [value |-> w, version |-> version[w]]
    BY <1>1, <1>4, SequentialReplicate DEF Open, Started
  <2>2. /\ store'[n].version = version[w]
        /\ \A m \in Node : m # n => store'[m] = store[m]
    BY <1>4, <2>1, SMT DEF HandleReplicate, TypeOK
  <2>3. version[w] \in Given'
    BY <2>1, WritesAreFinal DEF Given
  <2> QED BY <1>2, <2>2, <2>3
<1>5. CASE UNCHANGED store
  BY <1>2, <1>5
<1>6. ASSUME NEW n \in Node, Restart(n) PROVE FALSE
  BY <1>1, <1>6, SMT DEF Restart, Sequential, TypeOK
<1> QED
  BY <1>3, <1>4, <1>5, <1>6, LoadSteps
     DEF NodesKept, Next, Replicate, Ack, Send, SendReturns, LoseRequest,
         BreakConnection

LEMMA StaleStep ==
    ASSUME LoadTypeOK, LoadTypeOK', ReplInv, SeqInv, StaleInv,
           [LoadNext]_loadVars
    PROVE  StaleInv'
<1> SUFFICES ASSUME Sequential' PROVE StaleInv'
  BY DEF StaleInv
<1>1. Sequential
  BY SequentialSoFar DEF LoadTypeOK
<1>2. \A n \in Node : store'[n].version \in Given'
  BY GivenStep DEF LoadTypeOK
<1>3. /\ Given \subseteq Given'
      /\ \A w \in Started : w \in Started' /\ version'[w] = version[w]
      /\ \A w \in Acked : w \in Acked' /\ version'[w] = version[w]
  <2>1. Acked \subseteq Started
    BY SMT DEF Acked, Started
  <2> QED BY <2>1, WritesAreFinal DEF LoadTypeOK, Given
\* An open question about a read stays answered.
<1>4. ASSUME NEW r \in Reads, stale[r],
             NEW w \in Writes \ settled[r], phase[w] # "new", seen[r] < version[w]
      PROVE phase'[w] # "new" /\ seen[r] < version'[w]
  <2>1. w \in Started
    BY <1>4 DEF Started
  <2> QED BY <1>3, <1>4, <2>1 DEF Started
<1>5. ASSUME NEW r \in Reads, stale[r],
             UNCHANGED <<settled, seen>>
      PROVE \E w \in Writes \ settled'[r] :
                phase'[w] # "new" /\ seen'[r] < version'[w]
  <2>1. PICK w \in Writes \ settled[r] : phase[w] # "new" /\ seen[r] < version[w]
    BY <1>1, <1>5 DEF StaleInv, StaleReadOverlapsWrite, Sequential
  <2> QED BY <1>4, <1>5, <2>1
<1>6. ASSUME UNCHANGED <<reader, seen, stale, settled>>,
             tracked' \in Given', \A w \in Writes : back'[w] \in Given'
      PROVE StaleInv'
  <2>1. \A r \in Reads :
            /\ stale'[r] => reader'[r] = "recorded"
            /\ \A w \in settled'[r] : w \in Acked' /\ version'[w] <= seen'[r]
    BY <1>1, <1>3, <1>6 DEF StaleInv
  <2>2. StaleReadOverlapsWrite'
    BY <1>5, <1>6 DEF StaleReadOverlapsWrite
  <2> QED BY <1>2, <1>6, <2>1, <2>2 DEF StaleInv
<1>7. /\ tracked \in Given'
      /\ \A w \in Writes : back[w] \in Given'
  BY <1>1, <1>3 DEF StaleInv
<1>8. ASSUME NEW w \in Writes, ReadBack(w) PROVE StaleInv'
  <2>1. store[coordinator[w]].version \in Given'
    <3>1. phase[w] = "acked" /\ coordinator[w] \in Node \union {NoNode}
      BY <1>8, SMT DEF ReadBack, LoadTypeOK, TypeOK
    <3>2. phase[w] # "new"
      BY <3>1
    <3>3. coordinator[w] \in Node
      BY <3>1, <3>2 DEF ReplInv
    <3> QED BY <1>1, <1>3, <3>3 DEF StaleInv
  <2>2. \A x \in Writes : back'[x] \in Given'
    BY <1>7, <1>8, <2>1, SMT DEF ReadBack, LoadTypeOK
  <2>3. UNCHANGED <<tracked, reader, seen, stale, settled>>
    BY <1>8 DEF ReadBack
  <2> QED BY <1>6, <1>7, <2>2, <2>3
<1>9. ASSUME NEW w \in Writes, SetWritten(w) PROVE StaleInv'
  <2>1. /\ tracked' \in {tracked, back[w]}
        /\ UNCHANGED <<back, reader, seen, stale, settled>>
    BY <1>9 DEF SetWritten, HigherOf
  <2> QED BY <1>6, <1>7, <2>1
<1>10. ASSUME NEW r \in Reads, NEW n \in Node, DoRead(r, n) PROVE StaleInv'
  <2>1. /\ seen'[r] = store[n].version /\ settled'[r] = Acked
        /\ reader[r] = "idle" /\ reader'[r] = "answered"
        /\ \A q \in Reads : q # r => /\ reader'[q] = reader[q]
                                     /\ settled'[q] = settled[q]
                                     /\ seen'[q] = seen[q]
        /\ UNCHANGED <<phase, version, tracked, back, stale>>
    BY <1>10, SMT DEF DoRead, LoadTypeOK, vars
  <2>2. \A w \in Acked : version[w] <= store[n].version
    <3> SUFFICES ASSUME NEW w \in Acked PROVE version[w] <= store[n].version
      OBVIOUS
    <3>1. w \in Writes /\ phase[w] = "acked" /\ restarted = {}
      BY <1>1 DEF Acked, SeqInv
    <3>2. /\ version[w] \in Nat /\ store[n].version \in Nat
          /\ coordinator[w] \in Node \union {NoNode}
      BY <3>1, EntryFacts DEF LoadTypeOK, TypeOK
    <3>3. n = coordinator[w] \/ request[w][n] = "applied"
      BY <1>1, <3>1 DEF SeqInv, PeersOf
    <3>4. phase[w] # "new"
      BY <3>1
    <3>5. store[n].version >= version[w]
      BY <3>1, <3>3, <3>4 DEF ReplInv
    <3> QED BY <3>2, <3>5, SMT
  <2>3. ~ stale[r]
    BY <1>1, <2>1 DEF StaleInv
  <2>4. Acked' = Acked
    BY <2>1 DEF Acked
  <2>5. \A q \in Reads :
            /\ stale'[q] => reader'[q] = "recorded"
            /\ \A w \in settled'[q] : w \in Acked' /\ version'[w] <= seen'[q]
    BY <1>1, <2>1, <2>2, <2>3, <2>4 DEF StaleInv
  <2>6. StaleReadOverlapsWrite'
    BY <1>1, <2>1, <2>3 DEF StaleInv, StaleReadOverlapsWrite, Sequential
  <2> QED BY <1>2, <1>7, <2>1, <2>5, <2>6 DEF StaleInv
<1>11. ASSUME NEW r \in Reads, RecordRead(r) PROVE StaleInv'
  <2>1. /\ stale'[r] = (seen[r] > 0 /\ seen[r] < tracked)
        /\ reader'[r] = "recorded"
        /\ \A q \in Reads : q # r => /\ reader'[q] = reader[q]
                                     /\ stale'[q] = stale[q]
        /\ UNCHANGED <<phase, version, tracked, back, seen, settled>>
    BY <1>11, SMT DEF RecordRead, LoadTypeOK, vars
  <2>2. ASSUME stale'[r]
        PROVE \E w \in Writes \ settled[r] :
                  phase[w] # "new" /\ seen[r] < version[w]
    <3>1. seen[r] > 0 /\ seen[r] < tracked
      BY <2>1, <2>2
    <3>2. seen[r] \in Nat /\ tracked \in Nat
      BY DEF LoadTypeOK
    <3>3. tracked # 0
      BY <3>1, <3>2, SMT
    <3>4. PICK w \in Started : tracked = version[w]
      BY <1>1, <3>3 DEF StaleInv, Given
    <3>5. w \notin settled[r]
      <4>1. w \in settled[r] => version[w] <= seen[r]
        BY <1>1 DEF StaleInv
      <4> QED BY <3>1, <3>2, <3>4, <4>1, SMT
    <3> QED BY <3>1, <3>4, <3>5 DEF Started
  <2>3. \A q \in Reads :
            /\ stale'[q] => reader'[q] = "recorded"
            /\ \A w \in settled'[q] : w \in Acked' /\ version'[w] <= seen'[q]
    BY <1>1, <1>3, <2>1 DEF StaleInv
  <2>4. StaleReadOverlapsWrite'
    BY <1>1, <2>1, <2>2 DEF StaleInv, StaleReadOverlapsWrite, Sequential
  <2> QED BY <1>2, <1>7, <2>1, <2>3, <2>4 DEF StaleInv
<1>12. ASSUME NEW w \in Writes, ClientFails(w) PROVE StaleInv'
  BY <1>6, <1>7, <1>12 DEF ClientFails
<1>13. CASE UNCHANGED client
  BY <1>6, <1>7, <1>13 DEF client
<1> QED
  BY <1>8, <1>9, <1>10, <1>11, <1>12, <1>13 DEF LoadNext, loadVars

\* Without overlapping writes and faults, for any number of nodes, writes and
\* reads, a read recorded as stale overlapped a write: W=N leaves no stale
\* copy behind its 201.
THEOREM StaleReadsOverlap == LoadSpec => []StaleReadOverlapsWrite
<1>1. LoadInit => StaleInv
  BY SMT DEF LoadInit, Init, StaleInv, StaleReadOverlapsWrite, Given, NoEntry
<1>2. StaleInv => StaleReadOverlapsWrite
  BY DEF StaleInv, StaleReadOverlapsWrite, Sequential
<1>3. (LoadTypeOK /\ ReplInv) /\ (LoadTypeOK /\ ReplInv)' /\ SeqInv /\ StaleInv
          /\ [LoadNext]_loadVars => StaleInv'
  BY StaleStep
<1> QED BY Invariants, SeqInvariant, <1>1, <1>2, <1>3, PTL DEF LoadSpec

=============================================================================
