------------------------ MODULE LeaderFollowerProofs ------------------------
(***************************************************************************)
(* Proofs about the leader/follower store, for every number of followers,  *)
(* mode, set of writes and reads, and bound on concurrent writes and       *)
(* faults: its write path, its read path, whose reads collect the nodes    *)
(* one by one between the steps of any writes, and the atomic register     *)
(* that the leader is in mode w5r1.  Liveness stays with TLC.              *)
(***************************************************************************)
EXTENDS LeaderFollowerReads, VersionedStoreProofs

(***************************************************************************)
(* The write path (LeaderFollower).                                        *)
(***************************************************************************)

USE DEF history

\* handleSet waits for peers of the list only; the leader is none of them.
LEMMA NodeFacts ==
    /\ SyncCount \in Nat
    /\ SyncPeer \subseteq Peer
    /\ Peer \subseteq Node
    /\ Leader \in Node
    /\ \A p \in Peer : p # Leader
BY NumPeersAssumption, ModeAssumption, SMT
   DEF SyncCount, SyncPeer, Peer, Node, Leader

-----------------------------------------------------------------------------

\* The type invariant is inductive.
LEMMA TypeStep ==
    ASSUME TypeOK, [Next]_vars PROVE TypeOK'
<1> USE BoundsAssumption, NodeFacts
<1>1. ASSUME NEW w \in Writes, HandleSet(w) PROVE TypeOK'
  <2>1. /\ Set(store[Leader], w, 0) \in Entry
        /\ NewVersion(store[Leader], 0) \in Nat
    BY LocalSetFacts, SMT DEF TypeOK
  <2> QED BY <1>1, <2>1, SMT DEF HandleSet, TypeOK, Phase
<1>2. ASSUME NEW w \in Writes, Ack(w) PROVE TypeOK'
  BY <1>2, SMT DEF Ack, TypeOK, Phase
<1>3. ASSUME NEW w \in Writes, NEW p \in Peer, Send(w, p) PROVE TypeOK'
  BY <1>3, SMT DEF Send, TypeOK, Request
<1>4. ASSUME NEW w \in Writes, NEW p \in Peer, HandleReplicate(w, p)
      PROVE TypeOK'
  <2>1. Set(store[p], w, version[w]) \in Entry
    BY SetFacts, SMT DEF TypeOK
  <2> QED BY <1>4, <2>1, SMT DEF HandleReplicate, TypeOK, Request
<1>5. ASSUME NEW w \in Writes, NEW p \in Peer, SendReturns(w, p)
      PROVE TypeOK'
  BY <1>5, SMT DEF SendReturns, TypeOK, Reply
<1>6. ASSUME NEW w \in Writes, NEW p \in Peer, LoseRequest(w, p)
      PROVE TypeOK'
  BY <1>6, SMT DEF LoseRequest, TypeOK, Request
<1>7. ASSUME NEW w \in Writes, NEW p \in Peer, BreakConnection(w, p)
      PROVE TypeOK'
  BY <1>7, SMT DEF BreakConnection, TypeOK, Reply
<1>8. ASSUME NEW p \in Peer, RestartPeer(p) PROVE TypeOK'
  <2>1. /\ store' \in [Node -> Entry]
        /\ restarted' \in SUBSET Restartable
        /\ faults' \in 0..MaxFaults
    BY <1>8, EntryFacts, SMT DEF RestartPeer, TypeOK
  <2>2. request' \in [Writes -> [Peer -> Request]]
    BY <1>8, SMT DEF RestartPeer, TypeOK, Request
  <2> QED BY <1>8, <2>1, <2>2 DEF RestartPeer, TypeOK
<1>9. CASE RestartLeader
  <2>1. /\ store' \in [Node -> Entry]
        /\ restarted' \in SUBSET Restartable
        /\ overlapped' \in SUBSET Writes
        /\ faults' \in 0..MaxFaults
    BY <1>9, EntryFacts, SMT DEF RestartLeader, TypeOK
  <2>2. phase' \in [Writes -> Phase] /\ version' \in [Writes -> Nat]
    BY <1>9, SMT DEF RestartLeader, TypeOK, Phase
  <2>3. request' \in [Writes -> [Peer -> Request]]
    BY <1>9, SMT DEF RestartLeader, TypeOK, Request
  <2>4. reply' \in [Writes -> [Peer -> Reply]]
    BY <1>9, SMT DEF RestartLeader, TypeOK, Reply
  <2> QED BY <2>1, <2>2, <2>3, <2>4 DEF TypeOK
<1>10. CASE UNCHANGED vars
  BY <1>10 DEF vars, TypeOK
<1> QED
  BY <1>1, <1>2, <1>3, <1>4, <1>5, <1>6, <1>7, <1>8, <1>9, <1>10
     DEF Next, Step, Replicate

\* Every variable of the write path keeps its type.
THEOREM TypeCorrect == Spec => []TypeOK
<1>1. Init => TypeOK
  BY BoundsAssumption, EntryFacts, SMT
     DEF Init, TypeOK, Phase, Request, Reply, Node
<1> QED BY <1>1, TypeStep, PTL DEF Spec
-----------------------------------------------------------------------------

\* Neither part is inductive alone, together they are: a new version is one
\* above the leader's entry, which is at least every version given before.
LEMMA LeaderOrderStep ==
    ASSUME TypeOK, LeaderOrdersWrites, [Next]_vars PROVE LeaderOrdersWrites'
<1> USE NodeFacts
<1>1. ASSUME NEW w \in Writes, HandleSet(w) PROVE LeaderOrdersWrites'
  <2> SUFFICES ASSUME Leader \notin restarted PROVE LeaderOrdersWrites'
    BY <1>1 DEF HandleSet, LeaderOrdersWrites, LeaderVersionsUnique, LeaderHoldsLatest
  <2>1. /\ store[Leader] \in Entry
        /\ NewVersion(store[Leader], 0) = store[Leader].version + 1
        /\ Set(store[Leader], w, 0).value = w
        /\ Set(store[Leader], w, 0).version = store[Leader].version + 1
    BY LocalSetFacts, SMT DEF TypeOK
  <2>2. /\ store'[Leader].version = store[Leader].version + 1
        /\ store'[Leader].value = w
        /\ version'[w] = store[Leader].version + 1
        /\ \A x \in Writes : x # w => version'[x] = version[x]
        /\ Started' = Started \union {w}
        /\ w \notin Started
        /\ store[Leader].version \in Nat
    BY <1>1, <2>1, EntryFacts, SMT DEF HandleSet, TypeOK, Started, Phase
  <2>3. \A x \in Started : x \in Writes /\ version[x] <= store[Leader].version
                                        /\ version[x] \in Nat
    BY SMT DEF LeaderOrdersWrites, LeaderHoldsLatest, Started, TypeOK
  <2>4. LeaderHoldsLatest'
    BY <2>2, <2>3, SMT DEF LeaderHoldsLatest
  <2>5. LeaderVersionsUnique'
    BY <2>2, <2>3, SMT DEF LeaderVersionsUnique, LeaderOrdersWrites
  <2> QED BY <2>4, <2>5 DEF LeaderOrdersWrites
<1>2. ASSUME NEW p \in Peer, NEW w \in Writes, HandleReplicate(w, p)
      PROVE LeaderOrdersWrites'
  <2>1. store'[Leader] = store[Leader]
    BY <1>2, SMT DEF HandleReplicate, TypeOK
  <2> QED
    BY <1>2, <2>1 DEF HandleReplicate, LeaderOrdersWrites, LeaderVersionsUnique,
                      LeaderHoldsLatest, Started
<1>3. ASSUME NEW p \in Peer, RestartPeer(p) PROVE LeaderOrdersWrites'
  <2>1. /\ store'[Leader] = store[Leader]
        /\ Leader \in restarted' <=> Leader \in restarted
    BY <1>3, SMT DEF RestartPeer, TypeOK
  <2> QED
    BY <1>3, <2>1 DEF RestartPeer, LeaderOrdersWrites, LeaderVersionsUnique,
                      LeaderHoldsLatest, Started
<1>4. CASE RestartLeader
  BY <1>4 DEF RestartLeader, LeaderOrdersWrites, LeaderVersionsUnique,
              LeaderHoldsLatest
<1>5. ASSUME NEW w \in Writes, Ack(w) PROVE LeaderOrdersWrites'
  <2>1. Started' = Started
    BY <1>5, SMT DEF Ack, TypeOK, Started, Phase
  <2> QED
    BY <1>5, <2>1 DEF Ack, LeaderOrdersWrites, LeaderVersionsUnique, LeaderHoldsLatest
<1>6. CASE UNCHANGED <<store, phase, version, restarted>>
  BY <1>6 DEF LeaderOrdersWrites, LeaderVersionsUnique, LeaderHoldsLatest, Started
<1>7. ASSUME NEW w \in Writes, NEW p \in Peer,
             \/ Send(w, p) \/ SendReturns(w, p)
             \/ LoseRequest(w, p) \/ BreakConnection(w, p)
      PROVE LeaderOrdersWrites'
  BY <1>6, <1>7 DEF Send, SendReturns, LoseRequest, BreakConnection
<1>8. CASE UNCHANGED vars
  BY <1>6, <1>8 DEF vars
<1> QED
  BY <1>1, <1>2, <1>3, <1>4, <1>5, <1>7, <1>8 DEF Next, Step, Replicate

\* Two writes the leader accepts in one lifetime never share a version, and its
\* copy is the one of the highest, whatever is lost, delayed or restarted
\* around it.
THEOREM LeaderOrder == Spec => []LeaderOrdersWrites
<1>1. Init => LeaderOrdersWrites
  BY SMT DEF Init, LeaderOrdersWrites, LeaderVersionsUnique,
             LeaderHoldsLatest, Started
<1>2. TypeOK /\ LeaderOrdersWrites /\ [Next]_vars => LeaderOrdersWrites'
  BY LeaderOrderStep
<1> QED BY TypeCorrect, <1>1, <1>2, PTL DEF Spec

-----------------------------------------------------------------------------

\* Every node's version only grows, whatever order its requests arrive in,
\* until a restart empties the node.
THEOREM StoresMoveForward == Spec => StoreMovesForward
<1> DEFINE Forward ==
      \A n \in Node : store'[n] # store[n] =>
          \/ store'[n].version > store[n].version
          \/ n \in Restartable /\ store'[n] = NoEntry
<1>1. TypeOK /\ [Next]_vars => [Forward]_vars
  <2> SUFFICES ASSUME TypeOK, Next, NEW n \in Node, store'[n] # store[n]
               PROVE  \/ store'[n].version > store[n].version
                      \/ n \in Restartable /\ store'[n] = NoEntry
    OBVIOUS
  <2> USE NodeFacts
  <2>1. ASSUME NEW w \in Writes, HandleSet(w)
        PROVE store'[n].version > store[n].version
    <3>1. store[Leader] \in Entry
      BY SMT DEF TypeOK
    <3>2. Set(store[Leader], w, 0).version = store[Leader].version + 1
      BY <3>1, LocalSetFacts
    <3> QED BY <2>1, <3>1, <3>2, EntryFacts, SMT DEF HandleSet, TypeOK
  <2>2. ASSUME NEW w \in Writes, NEW p \in Peer, HandleReplicate(w, p)
        PROVE store'[n].version > store[n].version
    <3>1. store[p] \in Entry /\ version[w] \in Nat
      BY SMT DEF TypeOK
    <3>2. Set(store[p], w, version[w]).version > store[p].version
      BY <3>1, SetFacts
    <3> QED BY <2>2, <3>2, SMT DEF HandleReplicate, TypeOK
  <2>3. ASSUME NEW p \in Peer, RestartPeer(p)
        PROVE n \in Restartable /\ store'[n] = NoEntry
    BY <2>3, SMT DEF RestartPeer, TypeOK
  <2>4. CASE RestartLeader
    BY <2>4, SMT DEF RestartLeader, TypeOK
  <2> QED
    BY <2>1, <2>2, <2>3, <2>4
       DEF Next, Step, Replicate, Ack, Send, SendReturns, LoseRequest,
           BreakConnection
<1> QED BY TypeCorrect, <1>1, PTL DEF Spec, StoreMovesForward
-----------------------------------------------------------------------------

\* What makes an acknowledgement worth something: a request is applied before
\* it is answered ok, a write not yet started has sent nothing, and a follower
\* that applied a write and kept its map is never below it again.
ReplInv ==
    /\ \A w \in Writes, p \in Peer :
          /\ phase[w] = "new" => request[w][p] = "unsent"
          /\ reply[w][p] = "ok" => request[w][p] = "applied"
          /\ request[w][p] = "applied" /\ p \notin restarted =>
                store[p].version >= version[w]
    /\ \A w \in Writes : phase[w] = "acked" => SyncReturned(w)

LEMMA ReplInvStep ==
    ASSUME TypeOK, ReplInv, [Next]_vars PROVE ReplInv'
<1> USE NodeFacts
<1>1. ASSUME NEW w \in Writes, HandleSet(w) PROVE ReplInv'
  <2>1. \A p \in Peer : store'[p] = store[p]
    BY <1>1, SMT DEF HandleSet, TypeOK
  <2>2. \A x \in Writes : x # w => /\ phase'[x] = phase[x]
                                   /\ version'[x] = version[x]
    BY <1>1, SMT DEF HandleSet, TypeOK
  <2>3. \A p \in Peer : request[w][p] = "unsent"
    BY <1>1, SMT DEF HandleSet, ReplInv
  <2>4. phase'[w] = "open"
    BY <1>1, SMT DEF HandleSet, TypeOK
  <2>5. request' = request /\ reply' = reply /\ restarted' = restarted
    BY <1>1 DEF HandleSet
  <2> QED BY <2>1, <2>2, <2>3, <2>4, <2>5, SMT DEF ReplInv, SyncReturned
<1>2. ASSUME NEW w \in Writes, Ack(w) PROVE ReplInv'
  BY <1>2, SMT DEF Ack, ReplInv, SyncReturned, TypeOK
<1>3. ASSUME NEW w \in Writes, NEW p \in Peer, Send(w, p) PROVE ReplInv'
  BY <1>3, SMT DEF Send, ReplInv, SyncReturned, TypeOK
<1>4. ASSUME NEW w \in Writes, NEW p \in Peer, HandleReplicate(w, p)
      PROVE ReplInv'
  <2>1. store[p] \in Entry /\ version[w] \in Nat /\ store[p].version \in Nat
    BY EntryFacts, SMT DEF TypeOK
  <2>2. /\ Set(store[p], w, version[w]).version > store[p].version
        /\ Set(store[p], w, version[w]).version >= version[w]
        /\ Set(store[p], w, version[w]).version \in Nat
    <3>1. NewVersion(store[p], version[w]) > store[p].version
      BY <2>1, SetFacts
    <3>2. NewVersion(store[p], version[w]) >= version[w]
      BY <2>1, SetFacts
    <3>3. NewVersion(store[p], version[w]) \in Nat
      BY <2>1, SetFacts
    <3>4. Set(store[p], w, version[w]).version
            = NewVersion(store[p], version[w])
      BY DEF Set
    <3> QED BY <3>1, <3>2, <3>3, <3>4
  <2>3. \A x \in Writes, q \in Peer :
            request'[x][q] = "applied" /\ q \notin restarted' =>
                store'[q].version >= version'[x]
    <3> SUFFICES ASSUME NEW x \in Writes, NEW q \in Peer,
                        request'[x][q] = "applied", q \notin restarted
                 PROVE store'[q].version >= version[x]
      BY <1>4 DEF HandleReplicate
    <3>1. version[x] \in Nat
      BY SMT DEF TypeOK
    <3>2. CASE q # p
      BY <1>4, <3>2, SMT DEF HandleReplicate, TypeOK, ReplInv
    <3>3. CASE q = p
      <4>1. store'[p] = Set(store[p], w, version[w])
        BY <1>4, SMT DEF HandleReplicate, TypeOK
      <4>2. x = w \/ request[x][p] = "applied"
        BY <1>4, <3>3, SMT DEF HandleReplicate, TypeOK
      <4>3. x = w \/ store[p].version >= version[x]
        BY <3>3, <4>2 DEF ReplInv
      <4> QED BY <2>1, <2>2, <3>1, <3>3, <4>1, <4>3, SMT
    <3> QED BY <3>2, <3>3
  <2> QED
    BY <1>4, <2>3, SMT DEF HandleReplicate, ReplInv, SyncReturned, TypeOK
<1>5. ASSUME NEW w \in Writes, NEW p \in Peer, SendReturns(w, p)
      PROVE ReplInv'
  BY <1>5, SMT DEF SendReturns, ReplInv, SyncReturned, TypeOK
<1>6. ASSUME NEW w \in Writes, NEW p \in Peer, LoseRequest(w, p)
      PROVE ReplInv'
  BY <1>6, SMT DEF LoseRequest, ReplInv, SyncReturned, TypeOK
<1>7. ASSUME NEW w \in Writes, NEW p \in Peer, BreakConnection(w, p)
      PROVE ReplInv'
  BY <1>7, SMT DEF BreakConnection, ReplInv, SyncReturned, TypeOK
<1>8. ASSUME NEW p \in Peer, RestartPeer(p) PROVE ReplInv'
  <2>1. \A w \in Writes, q \in Peer :
            /\ request'[w][q] = "applied" => request[w][q] = "applied"
            /\ request[w][q] # "inflight" => request'[w][q] = request[w][q]
    BY <1>8, SMT DEF RestartPeer, TypeOK
  <2>2. \A q \in Peer : q \notin restarted' =>
            q \notin restarted /\ store'[q] = store[q]
    BY <1>8, SMT DEF RestartPeer, TypeOK
  <2> QED
    BY <1>8, <2>1, <2>2, SMT DEF RestartPeer, ReplInv, SyncReturned
<1>9. CASE RestartLeader
  <2>1. \A w \in Writes, q \in Peer :
            /\ request'[w][q] = "applied" <=> request[w][q] = "applied"
            /\ phase'[w] = "new" => request'[w][q] = request[w][q]
            /\ reply'[w][q] = "ok" <=> reply[w][q] = "ok"
            /\ reply[w][q] # "none" => reply'[w][q] # "none"
    BY <1>9, SMT DEF RestartLeader, TypeOK
  <2>2. \A w \in Writes : /\ phase'[w] = "new" => phase[w] = "new"
                          /\ phase'[w] = "acked" => phase[w] = "acked"
    BY <1>9, SMT DEF RestartLeader, TypeOK
  <2>3. \A q \in Peer : q \notin restarted' =>
            q \notin restarted /\ store'[q] = store[q]
    BY <1>9, SMT DEF RestartLeader, TypeOK
  <2> QED
    BY <1>9, <2>1, <2>2, <2>3, SMT DEF RestartLeader, ReplInv, SyncReturned
<1>10. CASE UNCHANGED vars
  BY <1>10 DEF vars, ReplInv, SyncReturned
<1> QED
  BY <1>1, <1>2, <1>3, <1>4, <1>5, <1>6, <1>7, <1>8, <1>9, <1>10
     DEF Next, Step, Replicate

\* After the 201, every follower the mode waits for is at the write's version
\* or above, unless the leader saw an error or the follower lost its map.
THEOREM AckedReplicated == Spec => []AckedIsReplicated
<1>1. Init => ReplInv
  BY NodeFacts, SMT DEF Init, ReplInv
<1>2. TypeOK /\ ReplInv /\ [Next]_vars => ReplInv'
  BY ReplInvStep
<1>3. ReplInv => AckedIsReplicated
  BY NodeFacts, SMT DEF ReplInv, AckedIsReplicated, SyncReturned
<1> QED BY TypeCorrect, <1>1, <1>2, <1>3, PTL DEF Spec
-----------------------------------------------------------------------------

\* One client write at a time and no fault, so far.
Sequential == overlapped = {} /\ faults = 0

\* Why the replicas the handler waits for agree between such writes: while the
\* one write is open the leader holds it, and each of these followers either
\* holds it too, or is exactly one version behind, so that its Set will give
\* the write the very version the leader gave it.
SeqInv == Sequential =>
    /\ \A w, x \in Open : w = x
    /\ \A w \in Writes, p \in Peer :
          /\ phase[w] # "dropped" /\ request[w][p] # "lost"
          /\ phase[w] = "new" => request[w][p] = "unsent"
          /\ reply[w][p] # "none" => request[w][p] = "applied"
    /\ \A w \in Writes, p \in SyncPeer :
          phase[w] = "acked" => request[w][p] = "applied"
    /\ Open = {} => \A p \in SyncPeer : store[p] = store[Leader]
    /\ \A w \in Open :
          /\ store[Leader] = [value |-> w, version |-> version[w]]
          /\ \A p \in SyncPeer :
                IF request[w][p] = "applied" THEN store[p] = store[Leader]
                ELSE store[p].version + 1 = store[Leader].version

LEMMA SeqInvStep ==
    ASSUME TypeOK, SeqInv, [Next]_vars PROVE SeqInv'
<1> USE NodeFacts
<1> SUFFICES ASSUME Sequential' PROVE SeqInv'
  BY DEF SeqInv
<1>1. ASSUME NEW w \in Writes, HandleSet(w) PROVE SeqInv'
  <2>1. Sequential /\ Open = {}
    BY <1>1 DEF HandleSet, Sequential
  <2>2. Open = {}
    BY <2>1
  <2>3. store[Leader] \in Entry
    BY SMT DEF TypeOK
  <2>4. /\ store'[Leader] = Set(store[Leader], w, 0)
        /\ \A p \in Peer : store'[p] = store[p]
        /\ version'[w] = NewVersion(store[Leader], 0)
        /\ request' = request /\ reply' = reply
        /\ phase' = [phase EXCEPT ![w] = "open"]
    BY <1>1, SMT DEF HandleSet, TypeOK
  <2>5. store'[Leader] = [value |-> w, version |-> version'[w]]
    BY <2>4 DEF Set
  <2>6. version'[w] = store[Leader].version + 1
    BY <2>3, <2>4, LocalSetFacts
  <2>7. \A p \in SyncPeer : store'[p] = store[Leader]
    BY <2>1, <2>2, <2>4 DEF SeqInv
  <2>8. \A p \in Peer : request[w][p] = "unsent"
    BY <1>1, <2>1 DEF HandleSet, SeqInv
  <2>9. Open' = {w}
    BY <2>2, <2>4, SMT DEF Open, TypeOK
  <2>10. \A x \in Writes : x # w => phase'[x] = phase[x]
    BY <2>4, SMT DEF TypeOK
  <2>11. phase'[w] = "open"
    BY <2>4, SMT DEF TypeOK
  <2>12. store'[Leader].version = store[Leader].version + 1
    BY <2>5, <2>6
  <2>13. \A p \in SyncPeer : store'[p].version + 1 = store'[Leader].version
    BY <2>7, <2>12
  <2>14. /\ \A x \in Writes, p \in Peer :
              /\ phase'[x] # "dropped" /\ request'[x][p] # "lost"
              /\ phase'[x] = "new" => request'[x][p] = "unsent"
              /\ reply'[x][p] # "none" => request'[x][p] = "applied"
         /\ \A x \in Writes, p \in SyncPeer :
              phase'[x] = "acked" => request'[x][p] = "applied"
    BY <2>1, <2>4, <2>10, <2>11 DEF SeqInv
  <2>15. \A p \in SyncPeer : request'[w][p] # "applied"
    BY <2>4, <2>8
  <2> QED BY <2>5, <2>9, <2>13, <2>14, <2>15 DEF SeqInv
<1>2. ASSUME NEW w \in Writes, Ack(w) PROVE SeqInv'
  <2>1. Sequential
    BY <1>2 DEF Ack, Sequential
  <2>2. w \in Open /\ Open = {w}
    BY <1>2, <2>1 DEF Ack, SeqInv, Open
  <2>3. Open' = {}
    BY <1>2, <2>2, SMT DEF Ack, Open, TypeOK
  <2>4. \A p \in SyncPeer : request[w][p] = "applied"
    BY <1>2, <2>1 DEF Ack, SeqInv, SyncReturned
  <2>5. \A p \in SyncPeer : store[p] = store[Leader]
    BY <2>1, <2>2, <2>4 DEF SeqInv
  <2> QED
    BY <1>2, <2>1, <2>3, <2>4, <2>5, SMT DEF Ack, SeqInv, TypeOK
<1>3. ASSUME NEW w \in Writes, NEW p \in Peer, Send(w, p) PROVE SeqInv'
  <2>1. Sequential /\ Open' = Open
    BY <1>3 DEF Send, Sequential, Open
  <2>2. \A x \in Writes, q \in Peer :
            /\ request'[x][q] = "applied" <=> request[x][q] = "applied"
            /\ request'[x][q] = "lost" => request[x][q] = "lost"
            /\ phase[x] = "new" => request'[x][q] = request[x][q]
    BY <1>3, SMT DEF Send, TypeOK
  <2> QED BY <1>3, <2>1, <2>2, SMT DEF Send, SeqInv, Open
<1>4. ASSUME NEW w \in Writes, NEW p \in Peer, HandleReplicate(w, p)
      PROVE SeqInv'
  <2>1. Sequential /\ Open' = Open
    BY <1>4 DEF HandleReplicate, Sequential, Open
  <2>2. /\ store'[Leader] = store[Leader]
        /\ store'[p] = Set(store[p], w, version[w])
        /\ \A q \in Peer : q # p => store'[q] = store[q]
        /\ request'[w][p] = "applied"
        /\ \A x \in Writes, q \in Peer :
              x # w \/ q # p => request'[x][q] = request[x][q]
        /\ version' = version /\ phase' = phase /\ reply' = reply
    BY <1>4, SMT DEF HandleReplicate, TypeOK
  <2>3. phase[w] # "new"
    BY <1>4, <2>1 DEF HandleReplicate, SeqInv
  <2>4. ASSUME p \in SyncPeer
        PROVE w \in Open /\ store'[p] = store'[Leader]
    <3>1. w \in Open
      BY <1>4, <2>1, <2>3, <2>4, SMT
         DEF HandleReplicate, SeqInv, Open, TypeOK, Phase
    <3>2. /\ store[Leader] = [value |-> w, version |-> version[w]]
          /\ store[p].version + 1 = version[w]
      BY <1>4, <2>1, <2>4, <3>1, SMT DEF HandleReplicate, SeqInv
    <3>3. store[p] \in Entry /\ version[w] \in Nat
      BY SMT DEF TypeOK
    <3>4. NewVersion(store[p], version[w]) = version[w]
      BY <3>2, <3>3, SetFacts
    <3>5. Set(store[p], w, version[w]) = [value |-> w, version |-> version[w]]
      BY <3>4 DEF Set
    <3>6. store'[p] = Set(store[p], w, version[w]) /\ store'[Leader] = store[Leader]
      BY <2>2
    <3>7. store'[p] = store'[Leader]
      BY <3>2, <3>5, <3>6
    <3> QED BY <3>1, <3>7
  <2>5. /\ \A x \in Writes, q \in Peer :
              /\ phase'[x] # "dropped" /\ request'[x][q] # "lost"
              /\ phase'[x] = "new" => request'[x][q] = "unsent"
              /\ reply'[x][q] # "none" => request'[x][q] = "applied"
        /\ \A x \in Writes, q \in SyncPeer :
              phase'[x] = "acked" => request'[x][q] = "applied"
    BY <2>1, <2>2, <2>3, SMT DEF SeqInv
  <2>6. Open' = {} => \A q \in SyncPeer : store'[q] = store'[Leader]
    BY <2>1, <2>2, <2>4, SMT DEF SeqInv
  <2>7. ASSUME NEW x \in Open, NEW q \in SyncPeer
        PROVE IF request'[x][q] = "applied" THEN store'[q] = store'[Leader]
              ELSE store'[q].version + 1 = store'[Leader].version
    <3>1. CASE q = p
      BY <2>1, <2>2, <2>4, <3>1 DEF SeqInv
    <3>2. CASE q # p
      <4>1. /\ request'[x][q] = request[x][q] /\ store'[q] = store[q]
            /\ store'[Leader] = store[Leader]
        BY <2>2, <3>2 DEF Open
      <4>2. \A y \in Open : \A r \in SyncPeer :
                IF request[y][r] = "applied" THEN store[r] = store[Leader]
                ELSE store[r].version + 1 = store[Leader].version
        BY <2>1, Zenon DEF SeqInv
      <4> QED BY <4>1, <4>2
    <3> QED BY <3>1, <3>2
  <2>8. \A x \in Open :
          store'[Leader] = [value |-> x, version |-> version'[x]]
    BY <2>1, <2>2 DEF SeqInv
  <2>9. \A x, y \in Open : x = y
    BY <2>1 DEF SeqInv
  <2> QED BY <2>1, <2>5, <2>6, <2>7, <2>8, <2>9 DEF SeqInv
<1>5. ASSUME NEW w \in Writes, NEW p \in Peer, SendReturns(w, p)
      PROVE SeqInv'
  <2>1. Sequential /\ Open' = Open
    BY <1>5 DEF SendReturns, Sequential, Open
  <2>2. request[w][p] = "applied"
    BY <1>5, <2>1 DEF SendReturns, SeqInv
  <2>3. \A x \in Writes, q \in Peer :
            reply'[x][q] # "none" => reply[x][q] # "none"
                                     \/ request[x][q] = "applied"
    BY <1>5, <2>2, SMT DEF SendReturns, TypeOK
  <2> QED BY <1>5, <2>1, <2>3, SMT DEF SendReturns, SeqInv, Open
<1>6. ASSUME faults' = faults + 1 PROVE SeqInv'
  BY <1>6, SMT DEF Sequential, TypeOK
<1>7. CASE UNCHANGED vars
  BY <1>7 DEF vars, SeqInv, Sequential, Open
<1> QED
  BY <1>1, <1>2, <1>3, <1>4, <1>5, <1>6, <1>7
     DEF Next, Step, Replicate, LoseRequest, BreakConnection, RestartPeer,
         RestartLeader

\* With one client write at a time and no fault, the leader and the followers
\* the mode waits for hold the same value and version between writes, for any
\* number of followers and writes.
THEOREM SequentialAgreement == Spec => []SyncPeersAgree
<1>1. Init => SeqInv
  BY NodeFacts, SMT DEF Init, SeqInv, Open
<1>2. TypeOK /\ SeqInv /\ [Next]_vars => SeqInv'
  BY SeqInvStep
<1>3. SeqInv => SyncPeersAgree
  BY DEF SeqInv, SyncPeersAgree, Sequential
<1> QED BY TypeCorrect, <1>1, <1>2, <1>3, PTL DEF Spec

-----------------------------------------------------------------------------

(***************************************************************************)
(* The read path (LeaderFollowerReads).                                    *)
(***************************************************************************)

\* handleGet collects peers of the list only.
LEMMA ReadPeerFacts == ReadPeer \subseteq Peer
BY NumPeersAssumption, ModeAssumption, SMT DEF ReadPeer, Peer

\* fetchFromPeer fails: the nodes keep their state.
FaultOnly ==
    /\ UNCHANGED <<store, phase, version, request, reply, history>>
    /\ faults < MaxFaults /\ faults' = faults + 1

LEMMA GetsSteps ==
    ASSUME [GetsNext]_allVars
    PROVE  [Next]_vars \/ FaultOnly
<1>1. CASE Step /\ UNCHANGED getVars
  BY <1>1 DEF Next
<1>2. CASE RestartDropsGets
  BY <1>2 DEF RestartDropsGets, Next
<1>3. ASSUME NEW r \in Gets, NEW p \in Peer, FetchFails(r, p)
      PROVE FaultOnly
  BY <1>3 DEF FetchFails, FaultOnly
<1>4. CASE UNCHANGED vars
  BY <1>4 DEF vars
<1> QED
  BY <1>1, <1>2, <1>3, <1>4
     DEF GetsNext, HandleGet, Collect, AnswerGet, FetchFromPeer,
         HandleClientGet, allVars

-----------------------------------------------------------------------------

LEMMA GetsTypeStep ==
    ASSUME GetsTypeOK, [GetsNext]_allVars PROVE GetsTypeOK'
<1> USE NodeFacts, ReadPeerFacts
<1>1. TypeOK'
  <2>1. CASE [Next]_vars
    BY <2>1, TypeStep DEF GetsTypeOK
  <2>2. CASE FaultOnly
    BY <2>2, BoundsAssumption, SMT DEF FaultOnly, GetsTypeOK, TypeOK
  <2> QED BY <2>1, <2>2, GetsSteps
<1>2. Acked \subseteq Writes /\ LeaderGets \subseteq Gets
  BY DEF Acked, LeaderGets
<1>3. /\ \A n \in Node : store[n] \in Entry
      /\ NothingGot \in [Node -> Entry]
  BY EntryFacts DEF GetsTypeOK, TypeOK, NothingGot
<1>4. CASE UNCHANGED getVars
  BY <1>1, <1>4 DEF getVars, GetsTypeOK
<1>5. CASE RestartDropsGets
  <2>1. getPhase' \in [Gets -> GetPhase]
    BY <1>5, SMT DEF RestartDropsGets, GetsTypeOK, GetPhase
  <2>2. /\ waiting' \in [Gets -> SUBSET Peer]
        /\ got' \in [Gets -> [Node -> Entry]]
    BY <1>3, <1>5 DEF RestartDropsGets
  <2> QED BY <1>1, <1>5, <2>1, <2>2 DEF RestartDropsGets, GetsTypeOK
<1>6. ASSUME NEW r \in Gets, HandleGet(r) PROVE GetsTypeOK'
  BY <1>1, <1>2, <1>3, <1>6, SMT DEF HandleGet, GetsTypeOK, GetPhase
<1>7. ASSUME NEW r \in Gets, AnswerGet(r) PROVE GetsTypeOK'
  <2>1. \A e \in Best(r) : e \in Entry
    BY SMT DEF Best, GetsTypeOK
  <2> QED BY <1>1, <1>3, <1>7, <2>1, SMT DEF AnswerGet, GetsTypeOK, GetPhase
<1>8. ASSUME NEW r \in Gets, NEW p \in Peer, FetchFromPeer(r, p)
      PROVE GetsTypeOK'
  BY <1>1, <1>3, <1>8, SMT DEF FetchFromPeer, GetsTypeOK
<1>9. ASSUME NEW r \in Gets, NEW p \in Peer, FetchFails(r, p)
      PROVE GetsTypeOK'
  BY <1>1, <1>9, SMT DEF FetchFails, GetsTypeOK
<1>10. ASSUME NEW r \in Gets, NEW p \in Peer, HandleClientGet(r, p)
       PROVE GetsTypeOK'
  BY <1>1, <1>2, <1>3, <1>10, SMT DEF HandleClientGet, GetsTypeOK, GetPhase
<1> QED
  BY <1>4, <1>5, <1>6, <1>7, <1>8, <1>9, <1>10
     DEF GetsNext, Collect, allVars

\* Every variable of the write and the read path keeps its type.
THEOREM GetsTypeCorrect == GetsSpec => []GetsTypeOK
<1>1. GetsInit => GetsTypeOK
  <2> SUFFICES ASSUME GetsInit PROVE GetsTypeOK
    OBVIOUS
  <2>1. TypeOK
    BY BoundsAssumption, EntryFacts, SMT
       DEF GetsInit, Init, TypeOK, Phase, Request, Reply, Node
  <2>2. NothingGot \in [Node -> Entry]
    BY EntryFacts DEF NothingGot
  <2> QED
    BY <2>1, <2>2, EntryFacts, NodeFacts DEF GetsInit, GetsTypeOK, GetPhase
<1> QED BY <1>1, GetsTypeStep, PTL DEF GetsSpec

-----------------------------------------------------------------------------

\* The steps of the nodes as a read of the leader sees them: a write keeps its
\* version, and the leader's copy only grows, until the leader restarts.
LEMMA LeaderMovesForward ==
    ASSUME TypeOK, [GetsNext]_allVars, Leader \notin restarted'
    PROVE  /\ Leader \notin restarted
           /\ \A w \in Acked : w \in Acked' /\ version'[w] = version[w]
           /\ store'[Leader].version >= store[Leader].version
<1> USE NodeFacts
<1>1. /\ \A n \in Node : store[n] \in Entry /\ store[n].version \in Nat
      /\ \A w \in Writes : version[w] \in Nat
  BY EntryFacts, SMT DEF TypeOK
<1>2. CASE UNCHANGED <<store, phase, version, restarted>>
  BY <1>1, <1>2, SMT DEF Acked
<1>3. ASSUME NEW w \in Writes, HandleSet(w)
      PROVE /\ Leader \notin restarted
            /\ \A x \in Acked : x \in Acked' /\ version'[x] = version[x]
            /\ store'[Leader].version >= store[Leader].version
  <2>1. Set(store[Leader], w, 0).version = store[Leader].version + 1
    BY <1>1, LocalSetFacts
  <2> QED BY <1>1, <1>3, <2>1, SMT DEF HandleSet, TypeOK, Acked
<1>4. ASSUME NEW w \in Writes, Ack(w)
      PROVE /\ Leader \notin restarted
            /\ \A x \in Acked : x \in Acked' /\ version'[x] = version[x]
            /\ store'[Leader].version >= store[Leader].version
  BY <1>1, <1>4, SMT DEF Ack, TypeOK, Acked
<1>5. ASSUME NEW w \in Writes, NEW p \in Peer, HandleReplicate(w, p)
      PROVE store'[Leader] = store[Leader]
  BY <1>5, SMT DEF HandleReplicate, TypeOK
<1>6. ASSUME NEW p \in Peer, RestartPeer(p)
      PROVE store'[Leader] = store[Leader] /\ Leader \notin restarted
  BY <1>6, SMT DEF RestartPeer, TypeOK
<1>7. CASE RestartLeader
  BY <1>7, SMT DEF RestartLeader
<1>8. CASE UNCHANGED <<phase, version>> /\ store'[Leader] = store[Leader]
           /\ Leader \notin restarted
  BY <1>1, <1>8, SMT DEF Acked
<1> QED
  BY <1>2, <1>3, <1>4, <1>5, <1>6, <1>7, <1>8, GetsSteps
     DEF FaultOnly, Next, Step, Replicate, Send, HandleReplicate, SendReturns,
         LoseRequest, BreakConnection, RestartPeer, vars

\* While a read collects, the leader's own copy, read first, already covers
\* every write acknowledged before: no answer of a follower can take the
\* read below it.
FreshInv == Leader \notin restarted =>
    \A r \in Gets :
        /\ getPhase[r] \in {"idle", "collecting"} => asked[r] = Leader
        /\ \A w \in before[r] :
              /\ w \in Acked
              /\ getPhase[r] = "collecting" =>
                    got[r][Leader].version >= version[w]
              /\ getPhase[r] = "done" /\ asked[r] = Leader =>
                    result[r].version >= version[w]

LEMMA FreshStep ==
    ASSUME GetsTypeOK, LeaderOrdersWrites, FreshInv, [GetsNext]_allVars
    PROVE  FreshInv'
<1> USE NodeFacts
<1> SUFFICES ASSUME Leader \notin restarted' PROVE FreshInv'
  BY DEF FreshInv
<1>1. /\ Leader \notin restarted
      /\ \A w \in Acked : w \in Acked' /\ version'[w] = version[w]
  BY LeaderMovesForward DEF GetsTypeOK
<1>2. /\ \A w \in Writes : version[w] \in Nat
      /\ \A r \in Gets, n \in Node : got[r][n] \in Entry
      /\ \A e \in Entry : e.version \in Nat
      /\ Acked \subseteq Writes
  BY EntryFacts, SMT DEF GetsTypeOK, TypeOK, Acked
<1>3. \A w \in Acked : store[Leader].version >= version[w]
  BY <1>1, SMT DEF LeaderOrdersWrites, LeaderHoldsLatest, Started, Acked
\* What holds of the reads that are not touched by a step.
<1>4. ASSUME NEW q \in Gets,
             getPhase'[q] = getPhase[q], asked'[q] = asked[q],
             before'[q] = before[q], got'[q][Leader] = got[q][Leader],
             result'[q] = result[q]
      PROVE /\ getPhase'[q] \in {"idle", "collecting"} => asked'[q] = Leader
            /\ \A w \in before'[q] :
                  /\ w \in Acked'
                  /\ getPhase'[q] = "collecting" =>
                        got'[q][Leader].version >= version'[w]
                  /\ getPhase'[q] = "done" /\ asked'[q] = Leader =>
                        result'[q].version >= version'[w]
  BY <1>1, <1>4 DEF FreshInv
<1>5. CASE UNCHANGED <<getPhase, asked, before, got, result>>
  BY <1>4, <1>5 DEF FreshInv
<1>6. ASSUME NEW r \in Gets, HandleGet(r) PROVE FreshInv'
  <2>1. /\ getPhase'[r] = "collecting" /\ asked'[r] = asked[r]
        /\ got'[r][Leader] = store[Leader] /\ before'[r] = Acked
        /\ asked[r] = Leader
        /\ UNCHANGED <<phase, version>>
        /\ \A q \in Gets : q # r =>
              /\ getPhase'[q] = getPhase[q] /\ asked'[q] = asked[q]
              /\ before'[q] = before[q] /\ got'[q] = got[q]
              /\ result'[q] = result[q]
    BY <1>1, <1>6, SMT DEF HandleGet, GetsTypeOK, vars, FreshInv
  <2>2. \A w \in before'[r] : w \in Acked' /\ store[Leader].version >= version'[w]
    BY <1>1, <1>3, <2>1
  <2> QED BY <1>4, <2>1, <2>2 DEF FreshInv
<1>7. ASSUME NEW r \in Gets, AnswerGet(r) PROVE FreshInv'
  <2>1. PICK e \in Best(r) : result' = [result EXCEPT ![r] = e]
    BY <1>7 DEF AnswerGet
  <2>2. PICK n \in Node : /\ e = got[r][n]
                          /\ got[r][Leader].version <= got[r][n].version
    BY DEF Best
  <2>3. /\ getPhase[r] = "collecting" /\ getPhase'[r] = "done"
        /\ result'[r] = e /\ before' = before /\ asked' = asked
        /\ UNCHANGED <<phase, version>>
        /\ \A q \in Gets : q # r =>
              /\ getPhase'[q] = getPhase[q] /\ got'[q] = got[q]
              /\ result'[q] = result[q]
    BY <1>7, <2>1, SMT DEF AnswerGet, GetsTypeOK, vars
  <2>4. ASSUME NEW w \in before[r]
        PROVE w \in Acked' /\ e.version >= version'[w]
    <3>1. /\ w \in Acked /\ version'[w] = version[w]
          /\ got[r][Leader].version >= version[w]
      BY <1>1, <2>3 DEF FreshInv
    <3> QED BY <1>1, <1>2, <2>2, <3>1, SMT
  <2> QED BY <1>4, <2>3, <2>4 DEF FreshInv
<1>8. ASSUME NEW r \in Gets, NEW p \in Peer, FetchFromPeer(r, p)
      PROVE FreshInv'
  <2>1. \A q \in Gets : got'[q][Leader] = got[q][Leader]
    BY <1>8, SMT DEF FetchFromPeer, GetsTypeOK
  <2> QED BY <1>4, <1>8, <2>1 DEF FetchFromPeer, FreshInv
<1>9. ASSUME NEW r \in Gets, NEW p \in Peer, HandleClientGet(r, p)
      PROVE FreshInv'
  <2>1. /\ getPhase'[r] = "done" /\ asked'[r] = p /\ before'[r] = Acked
        /\ UNCHANGED <<phase, version, got>>
        /\ \A q \in Gets : q # r =>
              /\ getPhase'[q] = getPhase[q] /\ asked'[q] = asked[q]
              /\ before'[q] = before[q] /\ result'[q] = result[q]
    BY <1>9, SMT DEF HandleClientGet, GetsTypeOK, vars
  <2>2. p # Leader
    OBVIOUS
  <2> QED BY <1>1, <1>4, <2>1, <2>2 DEF FreshInv
<1>10. CASE RestartDropsGets
  BY <1>10, SMT DEF RestartDropsGets, RestartLeader
<1> QED
  BY <1>5, <1>6, <1>7, <1>8, <1>9, <1>10
     DEF GetsNext, Collect, FetchFails, getVars, allVars

LEMMA FreshInvariant == GetsSpec => [](LeaderOrdersWrites /\ FreshInv)
<1>1. GetsInit => FreshInv /\ LeaderOrdersWrites
  BY SMT DEF GetsInit, Init, FreshInv, LeaderOrdersWrites, LeaderVersionsUnique,
             LeaderHoldsLatest, Started
<1>2. GetsTypeOK /\ LeaderOrdersWrites /\ [GetsNext]_allVars
          => LeaderOrdersWrites'
  <2>1. ASSUME LeaderOrdersWrites, FaultOnly PROVE LeaderOrdersWrites'
    BY <2>1 DEF FaultOnly, LeaderOrdersWrites, LeaderVersionsUnique,
                LeaderHoldsLatest, Started
  <2> QED BY <2>1, GetsSteps, LeaderOrderStep DEF GetsTypeOK
<1>3. GetsTypeOK /\ LeaderOrdersWrites /\ FreshInv /\ [GetsNext]_allVars
          => FreshInv'
  BY FreshStep
<1> QED BY GetsTypeCorrect, <1>1, <1>2, <1>3, PTL DEF GetsSpec

\* In every mode, while the leader keeps its map, a read it serves is at least
\* at the version of every write acknowledged before the read began.
THEOREM GetsSeeAcked == GetsSpec => []GetSeesAckedVersions
<1>1. FreshInv => GetSeesAckedVersions
  BY DEF FreshInv, GetSeesAckedVersions, LeaderGets
<1> QED BY FreshInvariant, <1>1, PTL

-----------------------------------------------------------------------------

LEMMA NodesMoveForward ==
    ASSUME TypeOK, [GetsNext]_allVars, faults' = 0
    PROVE  /\ faults = 0
           /\ \A n \in Node : /\ store[n].version \in Nat
                              /\ store'[n].version >= store[n].version
<1> USE NodeFacts
<1>1. \A n \in Node : store[n] \in Entry /\ store[n].version \in Nat
  BY EntryFacts, SMT DEF TypeOK
<1>2. CASE UNCHANGED <<store, faults>>
  BY <1>1, <1>2
<1>3. ASSUME NEW w \in Writes, HandleSet(w)
      PROVE \A n \in Node : store'[n].version >= store[n].version
  <2>1. Set(store[Leader], w, 0).version = store[Leader].version + 1
    BY <1>1, LocalSetFacts
  <2> QED BY <1>1, <1>3, <2>1, SMT DEF HandleSet, TypeOK
<1>4. ASSUME NEW w \in Writes, NEW p \in Peer, HandleReplicate(w, p)
      PROVE \A n \in Node : store'[n].version >= store[n].version
  <2>1. /\ Set(store[p], w, version[w]).version \in Nat
        /\ Set(store[p], w, version[w]).version > store[p].version
    <3>1. store[p] \in Entry /\ version[w] \in Nat
      BY <1>1 DEF TypeOK
    <3>2. /\ NewVersion(store[p], version[w]) \in Nat
          /\ Set(store[p], w, version[w]).version = NewVersion(store[p], version[w])
          /\ NewVersion(store[p], version[w]) > store[p].version
      BY <3>1, SetFacts
    <3> QED BY <3>2
  <2> QED BY <1>1, <1>4, <2>1, SMT DEF HandleReplicate, TypeOK
<1>5. ASSUME faults' = faults + 1 PROVE FALSE
  BY <1>5, SMT DEF TypeOK
<1> QED
  BY <1>1, <1>2, <1>3, <1>4, <1>5, GetsSteps
     DEF FaultOnly, Next, Step, Replicate, Ack, Send, HandleSet,
         HandleReplicate, SendReturns, LoseRequest, BreakConnection,
         RestartPeer, RestartLeader, vars

\* The nodes a read of the leader collects.
ReadNode == {Leader} \union ReadPeer

\* What r will have seen of n when it answers is not below v.
Covers(r, n, v) ==
    IF n \in waiting[r] THEN store[n].version >= v ELSE got[r][n].version >= v

\* Why reads do not go back: the version a read returned is kept by a node
\* that every later read collects too, be it before or after its turn.
BackInv == faults = 0 =>
    /\ \A r \in Gets :
          /\ getPhase[r] # "done" => asked[r] = Leader
          /\ waiting[r] \subseteq ReadPeer
          /\ \A n \in Node : \/ got[r][n].version = 0
                             \/ n \in ReadNode
                                /\ got[r][n].version <= store[n].version
    /\ \A q \in LeaderGets :
          \E n \in ReadNode : store[n].version >= result[q].version
    /\ \A r \in Gets : \A q \in earlier[r] :
          /\ q \in LeaderGets
          /\ getPhase[r] = "collecting" =>
                \E n \in ReadNode : Covers(r, n, result[q].version)
    /\ GetsNeverGoBack

LEMMA BackStep ==
    ASSUME GetsTypeOK, BackInv, [GetsNext]_allVars PROVE BackInv'
<1> USE NodeFacts, ReadPeerFacts
<1> SUFFICES ASSUME faults' = 0 PROVE BackInv'
  BY DEF BackInv
<1>1. /\ faults = 0
      /\ \A n \in Node : /\ store[n].version \in Nat
                         /\ store'[n].version >= store[n].version
  BY NodesMoveForward DEF GetsTypeOK
<1>2. /\ \A r \in Gets, n \in Node : got[r][n].version \in Nat
      /\ \A r \in Gets : result[r].version \in Nat /\ earlier[r] \subseteq Gets
      /\ \A n \in Node : store'[n].version \in Nat
      /\ ReadNode \subseteq Node
      /\ LeaderGets \subseteq Gets
  <2>1. GetsTypeOK'
    BY GetsTypeStep
  <2> QED
    BY <2>1, EntryFacts, SMT DEF GetsTypeOK, TypeOK, ReadNode, LeaderGets
\* What the nodes do does not disturb a read.
<1>3. ASSUME NEW r \in Gets, NEW n \in Node,
             got[r][n].version = 0 \/ (n \in ReadNode
                                       /\ got[r][n].version <= store[n].version)
      PROVE got[r][n].version = 0 \/ (n \in ReadNode
                                      /\ got[r][n].version <= store'[n].version)
  BY <1>1, <1>2, <1>3, SMT
<1>4. ASSUME NEW n \in ReadNode, NEW v \in Nat, store[n].version >= v
      PROVE store'[n].version >= v
  BY <1>1, <1>2, <1>4, SMT
<1>5. \A q \in LeaderGets :
          \E n \in ReadNode : store'[n].version >= result[q].version
  BY <1>1, <1>2, <1>4 DEF BackInv
<1>6. ASSUME NEW r \in Gets, getPhase[r] = "collecting", NEW q \in earlier[r]
      PROVE \E n \in ReadNode :
                IF n \in waiting[r] THEN store'[n].version >= result[q].version
                ELSE got[r][n].version >= result[q].version
  <2>1. PICK n \in ReadNode : Covers(r, n, result[q].version)
    BY <1>1, <1>6 DEF BackInv
  <2>2. result[q].version \in Nat
    BY <1>2
  <2> QED BY <1>4, <2>1, <2>2 DEF Covers
<1>7. \A r \in Gets : \A q \in earlier[r] : q \in LeaderGets
  BY <1>1 DEF BackInv
<1>8. \A r \in Gets, n \in Node :
          got[r][n].version = 0 \/ (n \in ReadNode
                                   /\ got[r][n].version <= store'[n].version)
  BY <1>1, <1>3 DEF BackInv
<1>9. CASE UNCHANGED getVars
  <2>1. LeaderGets' = LeaderGets
    BY <1>9 DEF getVars, LeaderGets
  <2>2. \A r \in Gets : \A q \in earlier[r] : getPhase[r] = "collecting" =>
            \E n \in ReadNode : Covers(r, n, result[q].version)'
    BY <1>6, <1>9 DEF Covers, getVars
  <2>3. GetsNeverGoBack'
    BY <1>1, <1>9, <2>1 DEF BackInv, GetsNeverGoBack, getVars
  <2> QED
    BY <1>1, <1>5, <1>7, <1>8, <1>9, <2>1, <2>2, <2>3 DEF BackInv, getVars
<1>10. ASSUME NEW r \in Gets, HandleGet(r) PROVE BackInv'
  <2>1. /\ getPhase[r] = "idle" /\ asked[r] = Leader
        /\ getPhase'[r] = "collecting"
        /\ got'[r][Leader] = store[Leader]
        /\ \A n \in Node : n # Leader => got'[r][n] = got[r][n]
        /\ waiting'[r] = ReadPeer /\ earlier'[r] = LeaderGets
        /\ UNCHANGED <<store, asked, result>>
        /\ \A s \in Gets : s # r =>
              /\ getPhase'[s] = getPhase[s] /\ got'[s] = got[s]
              /\ waiting'[s] = waiting[s] /\ earlier'[s] = earlier[s]
    BY <1>1, <1>10, SMT DEF HandleGet, GetsTypeOK, vars, BackInv
  <2>2. LeaderGets' = LeaderGets
    BY <2>1, SMT DEF LeaderGets
  <2>3. ASSUME NEW q \in LeaderGets
        PROVE \E n \in ReadNode : Covers(r, n, result[q].version)'
    <3>1. PICK n \in ReadNode : store[n].version >= result[q].version
      BY <1>1 DEF BackInv
    <3>2. n \in ReadPeer \/ n = Leader
      BY DEF ReadNode
    <3>3. Leader \notin ReadPeer
      OBVIOUS
    <3> QED BY <2>1, <3>1, <3>2, <3>3 DEF Covers
  <2>4. ASSUME NEW s \in Gets, s # r, NEW q \in earlier[s],
               getPhase[s] = "collecting"
        PROVE \E n \in ReadNode : Covers(s, n, result[q].version)'
    BY <1>6, <2>1, <2>4 DEF Covers
  <2>5. \A s \in Gets : \A q \in earlier'[s] :
            /\ q \in LeaderGets'
            /\ getPhase'[s] = "collecting" =>
                  \E n \in ReadNode : Covers(s, n, result[q].version)'
    BY <1>7, <2>1, <2>2, <2>3, <2>4
  <2>6. \A s \in Gets, n \in Node :
            got'[s][n].version = 0 \/ (n \in ReadNode
                 /\ got'[s][n].version <= store'[n].version)
    <3>1. store[Leader].version <= store'[Leader].version /\ Leader \in ReadNode
      BY <1>1, <2>1, SMT DEF ReadNode
    <3> QED BY <1>8, <2>1, <3>1
  <2>7. GetsNeverGoBack'
    BY <1>1, <2>1, <2>2 DEF BackInv, GetsNeverGoBack, LeaderGets
  <2>8. \A s \in Gets : /\ getPhase'[s] # "done" => asked'[s] = Leader
                        /\ waiting'[s] \subseteq ReadPeer
    BY <1>1, <2>1, SMT DEF BackInv
  <2> QED BY <1>5, <2>1, <2>2, <2>5, <2>6, <2>7, <2>8 DEF BackInv
<1>11. ASSUME NEW r \in Gets, AnswerGet(r) PROVE BackInv'
  <2>1. PICK e \in Best(r) : result' = [result EXCEPT ![r] = e]
    BY <1>11 DEF AnswerGet
  <2>2. PICK m \in Node : /\ e = got[r][m]
                          /\ \A k \in Node :
                                got[r][k].version <= got[r][m].version
    BY DEF Best
  <2>3. /\ getPhase[r] = "collecting" /\ getPhase'[r] = "done"
        /\ waiting[r] = {}
        /\ result'[r] = e /\ got'[r] = NothingGot
        /\ UNCHANGED <<store, asked, waiting, earlier>>
        /\ \A s \in Gets : s # r =>
              /\ getPhase'[s] = getPhase[s] /\ got'[s] = got[s]
              /\ result'[s] = result[s]
    BY <1>11, <2>1, SMT DEF AnswerGet, GetsTypeOK, vars
  <2>4. r \notin LeaderGets /\ LeaderGets' = LeaderGets \union {r}
    BY <1>1, <2>3, SMT DEF LeaderGets, BackInv
  <2>5. ASSUME NEW q \in earlier[r]
        PROVE result'[q].version <= result'[r].version
    <3>1. PICK n \in ReadNode : got[r][n].version >= result[q].version
      BY <1>1, <2>3 DEF BackInv, Covers
    <3>2. q # r /\ result'[q] = result[q] /\ n \in Node
      BY <1>2, <1>7, <2>3, <2>4
    <3>3. got[r][n].version <= e.version
      BY <2>2, <3>2
    <3>4. result[q].version \in Nat /\ got[r][n].version \in Nat
             /\ e.version \in Nat
      BY <1>2, <2>2, <3>2
    <3> QED BY <2>3, <3>1, <3>2, <3>3, <3>4, SMT
  <2>6. \E n \in ReadNode : store[n].version >= e.version
    <3>1. CASE got[r][m].version = 0
      BY <1>1, <2>2, <3>1, SMT DEF ReadNode
    <3>2. CASE m \in ReadNode /\ got[r][m].version <= store[m].version
      BY <1>1, <1>2, <2>2, <3>2, SMT
    <3> QED BY <1>1, <3>1, <3>2 DEF BackInv
  <2>7. \A q \in LeaderGets' :
            \E n \in ReadNode : store'[n].version >= result'[q].version
    BY <1>2, <1>5, <2>3, <2>4, <2>6
  <2>8. \A s \in Gets : \A q \in earlier'[s] :
            /\ q \in LeaderGets'
            /\ getPhase'[s] = "collecting" =>
                  \E n \in ReadNode : Covers(s, n, result[q].version)'
    <3> SUFFICES ASSUME NEW s \in Gets, NEW q \in earlier[s]
                 PROVE  /\ q \in LeaderGets'
                        /\ getPhase'[s] = "collecting" =>
                              \E n \in ReadNode :
                                  Covers(s, n, result[q].version)'
      BY <2>3
    <3>1. q \in LeaderGets /\ q # r /\ q \in Gets
      BY <1>2, <1>7, <2>4
    <3>2. result'[q] = result[q]
      BY <2>3, <3>1
    <3>3. CASE s = r
      BY <2>3, <2>4, <3>1, <3>3
    <3>4. CASE s # r
      BY <1>6, <2>3, <2>4, <3>1, <3>2, <3>4 DEF Covers
    <3> QED BY <3>3, <3>4
  <2>9. GetsNeverGoBack'
    <3> SUFFICES ASSUME NEW s \in LeaderGets', NEW q \in earlier'[s]
                 PROVE result'[q].version <= result'[s].version
      BY DEF GetsNeverGoBack
    <3>1. s \in Gets
      BY <1>2, <2>4
    <3>2. CASE s = r
      BY <2>3, <2>5, <3>2
    <3>3. CASE s # r
      <4>1. s \in LeaderGets /\ q \in earlier[s]
        BY <2>3, <2>4, <3>3
      <4>2. q \in LeaderGets /\ q # r /\ q \in Gets
        BY <1>2, <1>7, <2>4, <3>1, <4>1
      <4>3. result[q].version <= result[s].version
        BY <1>1, <4>1 DEF BackInv, GetsNeverGoBack
      <4> QED BY <2>3, <3>1, <3>3, <4>2, <4>3
    <3> QED BY <3>2, <3>3
  <2>10. \A s \in Gets :
            /\ getPhase'[s] # "done" => asked'[s] = Leader
            /\ waiting'[s] \subseteq ReadPeer
            /\ \A n \in Node :
                  got'[s][n].version = 0 \/ (n \in ReadNode
                       /\ got'[s][n].version <= store'[n].version)
    <3>1. \A n \in Node : NothingGot[n].version = 0
      BY DEF NothingGot, NoEntry
    <3> QED BY <1>1, <1>8, <2>3, <3>1 DEF BackInv
  <2> QED BY <2>7, <2>8, <2>9, <2>10, <2>3 DEF BackInv
<1>12. ASSUME NEW r \in Gets, NEW p \in Peer, FetchFromPeer(r, p)
       PROVE BackInv'
  <2>1. /\ p \in waiting[r] /\ waiting'[r] = waiting[r] \ {p}
        /\ got'[r][p] = store[p]
        /\ \A n \in Node : n # p => got'[r][n] = got[r][n]
        /\ UNCHANGED <<store, getPhase, asked, result, earlier>>
        /\ \A s \in Gets : s # r => waiting'[s] = waiting[s] /\ got'[s] = got[s]
    BY <1>12, SMT DEF FetchFromPeer, GetsTypeOK, vars
  <2>2. LeaderGets' = LeaderGets
    BY <2>1 DEF LeaderGets
  <2>3. p \in ReadNode
    BY <1>1, <2>1 DEF BackInv, ReadNode
  <2>4. ASSUME NEW s \in Gets, NEW q \in earlier[s], getPhase[s] = "collecting"
        PROVE \E n \in ReadNode : Covers(s, n, result[q].version)'
    <3>1. CASE s # r
      BY <1>6, <2>1, <2>4, <3>1 DEF Covers
    <3>2. CASE s = r
      <4>1. PICK n \in ReadNode : Covers(r, n, result[q].version)
        BY <1>1, <2>4, <3>2 DEF BackInv
      <4>2. CASE n = p
        BY <2>1, <3>2, <4>1, <4>2 DEF Covers
      <4>3. CASE n # p
        BY <1>2, <2>1, <3>2, <4>1, <4>3 DEF Covers
      <4> QED BY <4>2, <4>3
    <3> QED BY <3>1, <3>2
  <2>5. \A s \in Gets, n \in Node :
            got'[s][n].version = 0 \/ (n \in ReadNode
                 /\ got'[s][n].version <= store'[n].version)
    <3>1. store[p].version <= store'[p].version
      BY <1>1, <2>1, SMT
    <3> QED BY <1>8, <2>1, <2>3, <3>1
  <2>6. GetsNeverGoBack'
    BY <1>1, <2>1, <2>2 DEF BackInv, GetsNeverGoBack
  <2>7. \A s \in Gets : /\ getPhase'[s] # "done" => asked'[s] = Leader
                        /\ waiting'[s] \subseteq ReadPeer
    BY <1>1, <2>1, SMT DEF BackInv
  <2> QED BY <1>5, <1>7, <2>1, <2>2, <2>4, <2>5, <2>6, <2>7 DEF BackInv
<1>13. ASSUME NEW r \in Gets, NEW p \in Peer, HandleClientGet(r, p)
       PROVE BackInv'
  <2>1. /\ getPhase[r] = "idle" /\ getPhase'[r] = "done"
        /\ asked'[r] = p
        /\ UNCHANGED <<store, waiting, got>>
        /\ \A s \in Gets : s # r =>
              /\ getPhase'[s] = getPhase[s] /\ asked'[s] = asked[s]
              /\ result'[s] = result[s] /\ earlier'[s] = earlier[s]
        /\ earlier'[r] = LeaderGets
    BY <1>13, SMT DEF HandleClientGet, GetsTypeOK, vars
  <2>2. LeaderGets' = LeaderGets /\ r \notin LeaderGets
    BY <2>1, SMT DEF LeaderGets
  <2>3. \A q \in LeaderGets : result'[q] = result[q]
    BY <1>2, <2>1, <2>2
  <2>4. \A s \in Gets : \A q \in earlier'[s] :
            /\ q \in LeaderGets'
            /\ getPhase'[s] = "collecting" =>
                  \E n \in ReadNode : Covers(s, n, result[q].version)'
    <3> SUFFICES ASSUME NEW s \in Gets, NEW q \in earlier'[s]
                 PROVE  /\ q \in LeaderGets'
                        /\ getPhase'[s] = "collecting" =>
                              \E n \in ReadNode :
                                  Covers(s, n, result[q].version)'
      OBVIOUS
    <3>1. q \in LeaderGets
      BY <1>7, <2>1
    <3> QED BY <1>6, <2>1, <2>2, <2>3, <3>1 DEF Covers
  <2>5. GetsNeverGoBack'
    <3> SUFFICES ASSUME NEW s \in LeaderGets', NEW q \in earlier'[s]
                 PROVE result'[q].version <= result'[s].version
      BY DEF GetsNeverGoBack
    <3>1. s \in LeaderGets /\ s # r /\ s \in Gets
      BY <1>2, <2>2
    <3>2. q \in earlier[s] /\ q \in LeaderGets
      BY <1>7, <2>1, <3>1
    <3>3. result[q].version <= result[s].version
      BY <1>1, <3>1, <3>2 DEF BackInv, GetsNeverGoBack
    <3> QED BY <2>3, <3>1, <3>2, <3>3
  <2>6. \A s \in Gets : /\ getPhase'[s] # "done" => asked'[s] = Leader
                        /\ waiting'[s] \subseteq ReadPeer
    BY <1>1, <2>1, SMT DEF BackInv
  <2> QED BY <1>5, <1>8, <2>1, <2>2, <2>3, <2>4, <2>5, <2>6 DEF BackInv
<1>14. ASSUME faults' = faults + 1 PROVE FALSE
  BY <1>1, <1>14, SMT
<1> QED
  BY <1>9, <1>10, <1>11, <1>12, <1>13, <1>14
     DEF GetsNext, Collect, FetchFails, RestartDropsGets, RestartLeader, allVars

\* Without faults, two reads of the leader, one after the other, never go back
\* in version: in every mode, and for any number of concurrent writes.
THEOREM ReadsMoveForward == GetsSpec => []GetsNeverGoBack
<1>1. GetsInit => BackInv
  <2> SUFFICES ASSUME GetsInit PROVE BackInv
    OBVIOUS
  <2>1. \A r \in Gets : /\ getPhase[r] = "idle" /\ asked[r] = Leader
                        /\ waiting[r] = {} /\ earlier[r] = {}
                        /\ got[r] = NothingGot
    BY DEF GetsInit
  <2>2. LeaderGets = {}
    BY <2>1, SMT DEF LeaderGets
  <2>3. \A n \in Node : NothingGot[n].version = 0
    BY DEF NothingGot, NoEntry
  <2> QED BY <2>1, <2>2, <2>3 DEF BackInv, GetsNeverGoBack
<1>2. BackInv => GetsNeverGoBack
  BY DEF BackInv, GetsNeverGoBack
<1> QED BY GetsTypeCorrect, <1>1, <1>2, BackStep, PTL DEF GetsSpec

-----------------------------------------------------------------------------

\* The invariants of the write path hold below the read path too.
LEMMA NodeInvariants == GetsSpec => [](ReplInv /\ SeqInv)
<1>1. GetsInit => ReplInv /\ SeqInv
  BY NodeFacts, SMT DEF GetsInit, Init, ReplInv, SeqInv, Open
<1>2. ASSUME TypeOK, ReplInv, SeqInv, FaultOnly PROVE ReplInv' /\ SeqInv'
  BY <1>2, SMT DEF FaultOnly, ReplInv, SyncReturned, SeqInv, Sequential, TypeOK
<1>3. GetsTypeOK /\ ReplInv /\ SeqInv /\ [GetsNext]_allVars
          => (ReplInv /\ SeqInv)'
  BY <1>2, GetsSteps, ReplInvStep, SeqInvStep DEF GetsTypeOK
<1> QED BY GetsTypeCorrect, <1>1, <1>3, PTL DEF GetsSpec

\* An entry some write was given: its value under the leader's version.
Given(e) == e = NoEntry \/ (e.value \in Started /\ e.version = version[e.value])

\* The nodes whose answer w5r1 and quorum promise to be fresh.
FreshNode == {Leader} \union SyncPeer

\* Why a read is fresh: between steps of one write at a time, a node that the
\* handler waits for holds only entries the leader gave, and at a 201 already
\* the one acknowledged.
ValueInv == Sequential /\ Mode # "w1r5" =>
    /\ restarted = {}
    /\ \A w \in Started : version[w] > 0
    /\ \A n \in FreshNode : Given(store[n])
    /\ \A r \in Gets : \A n \in Node :
          getPhase[r] = "collecting" => Given(got[r][n])
    /\ \A r \in Gets :
          /\ before[r] \subseteq Acked
          /\ waiting[r] \subseteq SyncPeer
          /\ getPhase[r] # "collecting" => waiting[r] = {}
          /\ getPhase[r] = "idle" => got[r] = NothingGot
          /\ getPhase[r] = "done" /\ asked[r] \in FreshNode =>
                /\ Given(result[r])
                /\ \A w \in before[r] : result[r].version >= version[w]

\* The Set of a request from the one open write stores what the leader gave.
LEMMA FreshReplicate ==
    ASSUME TypeOK, ReplInv, SeqInv, Sequential,
           NEW w \in Writes, NEW p \in SyncPeer, HandleReplicate(w, p)
    PROVE  /\ w \in Started
           /\ store' = [store EXCEPT ![p] = [value |-> w, version |-> version[w]]]
<1> USE NodeFacts
<1>1. request[w][p] = "inflight" /\ phase[w] # "new"
  BY SMT DEF HandleReplicate, ReplInv
<1>2. w \in Open
  BY <1>1, SMT DEF SeqInv, Open, TypeOK, Phase
<1>3. request[w][p] # "applied"
  BY <1>1
<1>4. /\ store[Leader] = [value |-> w, version |-> version[w]]
      /\ store[p].version + 1 = store[Leader].version
  BY <1>2, <1>3 DEF SeqInv
<1>5. NewVersion(store[p], version[w]) = version[w]
  <2>1. store[p] \in Entry /\ version[w] \in Nat
    BY SMT DEF TypeOK
  <2>2. store[p].version + 1 = version[w]
    BY <1>4
  <2> QED BY <2>1, <2>2, SetFacts
<1>6. store' = [store EXCEPT ![p] = Set(store[p], w, version[w])]
  BY DEF HandleReplicate
<1> QED BY <1>1, <1>5, <1>6 DEF Set, Started

LEMMA ValueStep ==
    ASSUME GetsTypeOK, ReplInv, SeqInv, LeaderOrdersWrites, FreshInv, FreshInv',
           ValueInv, [GetsNext]_allVars
    PROVE  ValueInv'
<1> USE NodeFacts
<1> SUFFICES ASSUME Sequential', Mode # "w1r5" PROVE ValueInv'
  BY DEF ValueInv
<1>0. TypeOK /\ faults' = 0
  BY DEF GetsTypeOK, Sequential
<1>1. faults = 0 /\ (faults' = faults + 1 => FALSE)
  BY <1>0, NodesMoveForward, SMT DEF TypeOK
<1>2. Sequential /\ restarted' = restarted
  <2>1. overlapped = {} /\ restarted' = restarted
    BY <1>1, GetsSteps, SMT
       DEF FaultOnly, Next, Step, Replicate, HandleSet, Ack, Send,
           HandleReplicate, SendReturns, LoseRequest, BreakConnection,
           RestartPeer, RestartLeader, vars, Sequential
  <2> QED BY <1>1, <2>1 DEF Sequential
<1>3. restarted = {} /\ restarted' = {}
  BY <1>2 DEF ValueInv
<1>4. ReadPeer \subseteq SyncPeer
  BY ModeAssumption, SMT DEF ReadPeer, SyncPeer, SyncCount
<1>5. /\ \A w \in Started : w \in Started' /\ version'[w] = version[w]
      /\ \A w \in Acked : w \in Acked' /\ w \in Started
  <2>1. ASSUME NEW w \in Writes, HandleSet(w)
        PROVE /\ \A x \in Started : x \in Started' /\ version'[x] = version[x]
              /\ Acked \subseteq Acked'
    BY <1>0, <2>1, SMT DEF HandleSet, TypeOK, Started, Acked
  <2>2. ASSUME NEW w \in Writes, Ack(w)
        PROVE /\ \A x \in Started : x \in Started' /\ version'[x] = version[x]
              /\ Acked \subseteq Acked'
    BY <1>0, <2>2, SMT DEF Ack, TypeOK, Started, Acked
  <2>3. ASSUME UNCHANGED <<phase, version>>
        PROVE /\ \A x \in Started : x \in Started' /\ version'[x] = version[x]
              /\ Acked \subseteq Acked'
    BY <2>3 DEF Started, Acked
  <2>4. Acked \subseteq Started
    BY SMT DEF Acked, Started
  <2> QED
    BY <1>1, <2>1, <2>2, <2>3, <2>4, GetsSteps
       DEF FaultOnly, Next, Step, Replicate, Send, HandleReplicate, SendReturns,
           LoseRequest, BreakConnection, RestartPeer, RestartLeader, vars
<1>6. ASSUME NEW e, Given(e) PROVE Given(e)'
  BY <1>5, <1>6 DEF Given
\* The nodes.
<1>7. /\ \A w \in Started' : version'[w] > 0
      /\ \A n \in FreshNode : Given(store[n])'
  <2>1. /\ \A w \in Started : version'[w] > 0
        /\ \A n \in FreshNode : /\ Given(store[n])
                                /\ n \in Node
    BY <1>2, <1>5 DEF ValueInv, FreshNode
  <2>2. \A n \in FreshNode : store'[n] = store[n] => Given(store[n])'
    BY <1>5, <2>1 DEF Given
  <2>3. ASSUME NEW w \in Writes, HandleSet(w)
        PROVE /\ \A x \in Started' : version'[x] > 0
              /\ \A n \in FreshNode : Given(store[n])'
    <3>1. store[Leader] \in Entry /\ store[Leader].version \in Nat
      BY <1>0, EntryFacts DEF TypeOK
    <3>2. /\ store'[Leader] = Set(store[Leader], w, 0)
          /\ version'[w] = NewVersion(store[Leader], 0)
          /\ \A n \in Node : n # Leader => store'[n] = store[n]
          /\ Started' = Started \union {w}
      BY <1>0, <2>3, SMT DEF HandleSet, TypeOK, Started
    <3>3. /\ store'[Leader].value = w /\ store'[Leader].version = version'[w]
          /\ version'[w] > 0
      BY <3>1, <3>2, LocalSetFacts, SMT DEF Set
    <3>4. Given(store[Leader])'
      BY <3>2, <3>3 DEF Given
    <3> QED BY <2>1, <2>2, <3>2, <3>3, <3>4
  <2>4. ASSUME NEW w \in Writes, NEW p \in Peer, HandleReplicate(w, p)
        PROVE \A n \in FreshNode : Given(store[n])'
    <3>1. CASE p \in SyncPeer
      <4>1. /\ w \in Started
            /\ store'[p] = [value |-> w, version |-> version[w]]
            /\ \A n \in Node : n # p => store'[n] = store[n]
        BY <1>0, <1>2, <2>4, <3>1, FreshReplicate, SMT DEF TypeOK
      <4>2. Given(store[p])'
        BY <1>5, <4>1 DEF Given
      <4> QED BY <2>1, <2>2, <4>1, <4>2
    <3>2. CASE p \notin SyncPeer
      <4>1. \A n \in Node : n # p => store'[n] = store[n]
        BY <1>0, <2>4, SMT DEF HandleReplicate, TypeOK
      <4> QED BY <2>1, <2>2, <3>2, <4>1 DEF FreshNode
    <3> QED BY <3>1, <3>2
  <2>5. ASSUME Started' = Started
        PROVE \A w \in Started' : version'[w] > 0
    BY <2>1, <2>5
  <2>6. ASSUME NEW w \in Writes, Ack(w) PROVE Started' = Started
    BY <1>0, <2>6, SMT DEF Ack, TypeOK, Started
  <2>7. UNCHANGED phase => Started' = Started
    BY DEF Started
  <2> QED
    BY <1>1, <2>2, <2>3, <2>4, <2>5, <2>6, <2>7, GetsSteps
       DEF FaultOnly, Next, Step, Replicate, Ack, Send, HandleReplicate,
           SendReturns, LoseRequest, BreakConnection, RestartPeer,
           RestartLeader, vars
\* A read whose state a step leaves alone stays as it is.
<1>8. ASSUME NEW r \in Gets,
             getPhase'[r] = getPhase[r], asked'[r] = asked[r],
             before'[r] = before[r], result'[r] = result[r]
      PROVE /\ before'[r] \subseteq Acked'
            /\ getPhase'[r] = "done" /\ asked'[r] \in FreshNode =>
                  /\ Given(result[r])'
                  /\ \A w \in before'[r] : result'[r].version >= version'[w]
  <2>1. /\ before[r] \subseteq Acked
        /\ getPhase[r] = "done" /\ asked[r] \in FreshNode =>
              /\ Given(result[r])
              /\ \A w \in before[r] : result[r].version >= version[w]
    BY <1>2 DEF ValueInv
  <2>2. Given(result[r]) => Given(result[r])'
    BY <1>5, <1>8 DEF Given
  <2> QED BY <1>5, <1>8, <2>1, <2>2
<1>9. ASSUME NEW r \in Gets, getPhase'[r] = getPhase[r],
             waiting'[r] = waiting[r], got'[r] = got[r]
      PROVE /\ waiting'[r] \subseteq SyncPeer
            /\ getPhase'[r] # "collecting" => waiting'[r] = {}
            /\ getPhase'[r] = "idle" => got'[r] = NothingGot
            /\ \A n \in Node : getPhase'[r] = "collecting" => Given(got[r][n])'
  <2>1. \A n \in Node : Given(got[r][n]) => Given(got[r][n])'
    BY <1>5, <1>9 DEF Given
  <2> QED BY <1>2, <1>9, <2>1 DEF ValueInv
<1>10. CASE UNCHANGED getVars
  BY <1>3, <1>7, <1>8, <1>9, <1>10 DEF ValueInv, getVars
<1>11. ASSUME NEW r \in Gets, HandleGet(r) PROVE ValueInv'
  <2>1. /\ getPhase[r] = "idle" /\ getPhase'[r] = "collecting"
        /\ got'[r][Leader] = store[Leader]
        /\ \A n \in Node : n # Leader => got'[r][n] = got[r][n]
        /\ waiting'[r] = ReadPeer /\ before'[r] = Acked
        /\ UNCHANGED <<store, phase, version, asked, result>>
        /\ \A q \in Gets : q # r =>
              /\ getPhase'[q] = getPhase[q] /\ got'[q] = got[q]
              /\ waiting'[q] = waiting[q] /\ before'[q] = before[q]
    BY <1>11, SMT DEF HandleGet, GetsTypeOK, vars
  <2>2. \A n \in Node : Given(got[r][n])'
    <3>1. Given(store[Leader])
      BY <1>2 DEF ValueInv, FreshNode
    <3>2. got[r] = NothingGot
      BY <1>2, <2>1 DEF ValueInv
    <3>3. \A n \in Node : NothingGot[n] = NoEntry
      BY DEF NothingGot
    <3>4. Given(got[r][Leader])'
      BY <1>5, <2>1, <3>1 DEF Given
    <3>5. \A n \in Node : n # Leader => Given(got[r][n])'
      BY <2>1, <3>2, <3>3 DEF Given
    <3> QED BY <3>4, <3>5
  <2>3. Acked' = Acked
    BY <2>1 DEF Acked
  <2> QED BY <1>3, <1>4, <1>7, <1>8, <1>9, <2>1, <2>2, <2>3 DEF ValueInv
<1>12. ASSUME NEW r \in Gets, AnswerGet(r) PROVE ValueInv'
  <2>1. PICK e \in Best(r) : result' = [result EXCEPT ![r] = e]
    BY <1>12 DEF AnswerGet
  <2>2. PICK n \in Node : e = got[r][n]
    BY DEF Best
  <2>3. /\ getPhase[r] = "collecting" /\ getPhase'[r] = "done"
        /\ result'[r] = e /\ got'[r] = NothingGot /\ waiting[r] = {}
        /\ UNCHANGED <<phase, version, asked, before, waiting>>
        /\ \A q \in Gets : q # r =>
              /\ getPhase'[q] = getPhase[q] /\ got'[q] = got[q]
              /\ result'[q] = result[q]
    BY <1>12, <2>1, SMT DEF AnswerGet, GetsTypeOK, vars
  <2>4. asked[r] = Leader
    BY <1>3, <2>3 DEF FreshInv
  <2>5. Given(result[r])'
    <3>1. Given(got[r][n])
      BY <1>2, <2>3 DEF ValueInv
    <3> QED BY <1>5, <2>2, <2>3, <3>1 DEF Given
  <2>6. \A w \in before'[r] : result'[r].version >= version'[w]
    BY <1>3, <2>3, <2>4 DEF FreshInv
  <2>7. /\ before'[r] \subseteq Acked' /\ waiting'[r] \subseteq SyncPeer
    BY <1>2, <1>5, <2>3 DEF ValueInv
  <2> QED BY <1>3, <1>7, <1>8, <1>9, <2>3, <2>5, <2>6, <2>7 DEF ValueInv
<1>13. ASSUME NEW r \in Gets, NEW p \in Peer, FetchFromPeer(r, p)
       PROVE ValueInv'
  <2>1. /\ p \in waiting[r] /\ waiting'[r] = waiting[r] \ {p}
        /\ got'[r][p] = store[p]
        /\ \A n \in Node : n # p => got'[r][n] = got[r][n]
        /\ UNCHANGED <<store, phase, version, getPhase, asked, result, before>>
        /\ \A q \in Gets : q # r => waiting'[q] = waiting[q] /\ got'[q] = got[q]
    BY <1>13, SMT DEF FetchFromPeer, GetsTypeOK, vars
  <2>2. p \in FreshNode
    BY <1>2, <2>1 DEF ValueInv, FreshNode
  <2>3. Given(got[r][p])'
    BY <1>2, <1>5, <2>1, <2>2 DEF ValueInv, Given
  <2>4. \A n \in Node : getPhase[r] = "collecting" => Given(got[r][n])'
    <3>1. \A n \in Node : n # p /\ Given(got[r][n]) => Given(got[r][n])'
      BY <1>5, <2>1 DEF Given
    <3> QED BY <1>2, <2>3, <3>1 DEF ValueInv
  <2>5. getPhase[r] = "collecting"
    <3>1. getPhase[r] # "collecting" => waiting[r] = {}
      BY <1>2 DEF ValueInv
    <3> QED BY <2>1, <3>1
  <2>6. waiting'[r] \subseteq SyncPeer
    BY <1>2, <2>1 DEF ValueInv
  <2> QED BY <1>3, <1>7, <1>8, <1>9, <2>1, <2>4, <2>5, <2>6 DEF ValueInv
<1>14. ASSUME NEW r \in Gets, NEW p \in Peer, HandleClientGet(r, p)
       PROVE ValueInv'
  <2>1. /\ getPhase[r] = "idle" /\ getPhase'[r] = "done" /\ asked'[r] = p
        /\ result'[r] = store[p] /\ before'[r] = Acked
        /\ UNCHANGED <<store, phase, version, waiting, got>>
        /\ \A q \in Gets : q # r =>
              /\ getPhase'[q] = getPhase[q] /\ asked'[q] = asked[q]
              /\ result'[q] = result[q] /\ before'[q] = before[q]
    BY <1>14, SMT DEF HandleClientGet, GetsTypeOK, vars
  <2>2. Acked' = Acked
    BY <2>1 DEF Acked
  <2>3. ASSUME p \in FreshNode
        PROVE /\ Given(result[r])'
              /\ \A w \in Acked : result'[r].version >= version[w]
    <3>1. p \in SyncPeer
      BY <2>3 DEF FreshNode
    <3>2. Given(store[p])
      BY <1>2, <2>3 DEF ValueInv
    <3>3. \A w \in Acked : request[w][p] = "applied"
      BY <1>2, <3>1 DEF SeqInv, Acked
    <3>4. \A w \in Acked : store[p].version >= version[w]
      BY <1>3, <3>3 DEF ReplInv, Acked
    <3> QED BY <1>5, <2>1, <3>2, <3>4 DEF Given
  <2>4. waiting'[r] = {}
    <3>1. getPhase[r] # "collecting"
      BY <2>1
    <3> QED BY <1>2, <2>1, <3>1 DEF ValueInv
  <2> QED
    BY <1>3, <1>7, <1>8, <1>9, <2>1, <2>2, <2>3, <2>4 DEF ValueInv
<1> QED
  BY <1>1, <1>10, <1>11, <1>12, <1>13, <1>14
     DEF GetsNext, Collect, FetchFails, RestartDropsGets, RestartLeader, allVars

\* What the modes are for: with one client write at a time and no fault, in
\* w5r1 and quorum, with any number of followers, a read of the leader or of a
\* follower the mode waits for is not older than a write acknowledged before.
THEOREM ReadsAreFresh == GetsSpec => []SequentialGetIsFresh
<1>1. GetsInit => ValueInv
  <2> SUFFICES ASSUME GetsInit PROVE ValueInv
    OBVIOUS
  <2>1. /\ \A r \in Gets : /\ getPhase[r] = "idle" /\ waiting[r] = {}
                           /\ before[r] = {} /\ got[r] = NothingGot
        /\ restarted = {}
    BY DEF GetsInit, Init
  <2>2. Started = {}
    BY DEF GetsInit, Init, Started
  <2>3. \A n \in FreshNode : Given(store[n])
    BY NodeFacts DEF GetsInit, Init, FreshNode, Given
  <2> QED BY <2>1, <2>2, <2>3 DEF ValueInv
<1>2. ASSUME GetsTypeOK, ValueInv PROVE SequentialGetIsFresh
  <2> SUFFICES ASSUME Sequential, Mode # "w1r5",
                      NEW r \in Gets, getPhase[r] = "done",
                      asked[r] \in FreshNode, NEW w \in before[r]
               PROVE  /\ result[r].value \in Started
                      /\ version[result[r].value] >= version[w]
                      /\ result[r].version = version[result[r].value]
    BY DEF SequentialGetIsFresh, Sequential, FreshNode
  <2>1. /\ Given(result[r]) /\ result[r].version >= version[w]
        /\ w \in Acked
    BY <1>2 DEF ValueInv
  <2>2. w \in Started
    BY <2>1, SMT DEF Acked, Started
  <2>3. version[w] > 0 /\ version[w] \in Nat
    BY <1>2, <2>2 DEF ValueInv, GetsTypeOK, TypeOK, Started
  <2>4. result[r] # NoEntry
    <3>1. NoEntry.version = 0
      BY DEF NoEntry
    <3> QED BY <2>1, <2>3, <3>1, SMT
  <2> QED BY <2>1, <2>4 DEF Given
<1>3. GetsTypeOK /\ (ReplInv /\ SeqInv) /\ LeaderOrdersWrites /\ FreshInv
          /\ FreshInv' /\ ValueInv /\ [GetsNext]_allVars => ValueInv'
  BY ValueStep
<1> QED
  BY GetsTypeCorrect, NodeInvariants, FreshInvariant, <1>1, <1>2, <1>3, PTL
     DEF GetsSpec

-----------------------------------------------------------------------------

(***************************************************************************)
(* The leader in mode w5r1 implements an atomic register for the clients   *)
(* that talk to it, as long as its process does not end.  The register     *)
(* proved here promises no answer.                                         *)
(***************************************************************************)

\* In w5r1 a read of the leader collects from the leader alone.
LocalInv ==
    \A r \in Gets :
        /\ waiting[r] = {}
        /\ getPhase[r] \in {"idle", "collecting"} => asked[r] = Leader
        /\ \A p \in Peer : got[r][p] = NoEntry

\* What is left of GetsNext then.
LEMMA LocalSteps ==
    ASSUME Mode = "w5r1", Leader \notin Restartable, LocalInv,
           [GetsNext]_allVars
    PROVE  \/ Step /\ UNCHANGED getVars
           \/ \E r \in Gets : HandleGet(r) \/ AnswerGet(r)
           \/ \E r \in Gets, p \in Peer : HandleClientGet(r, p)
           \/ UNCHANGED allVars
<1>1. ~RestartDropsGets
  BY DEF RestartDropsGets, RestartLeader
<1>2. ASSUME NEW r \in Gets, NEW p \in Peer
      PROVE ~FetchFromPeer(r, p) /\ ~FetchFails(r, p)
  BY DEF FetchFromPeer, FetchFails, LocalInv
<1> QED BY <1>1, <1>2 DEF GetsNext, Collect

LEMMA LocalStep ==
    ASSUME Mode = "w5r1", Leader \notin Restartable, GetsTypeOK, LocalInv,
           [GetsNext]_allVars
    PROVE  LocalInv'
<1> USE NodeFacts DEF GetsTypeOK
<1>0. ReadPeer = {}
  BY DEF ReadPeer
<1>1. CASE UNCHANGED getVars
  BY <1>1 DEF getVars, LocalInv
<1>2. ASSUME NEW r \in Gets, HandleGet(r) PROVE LocalInv'
  <2> SUFFICES ASSUME NEW q \in Gets
               PROVE /\ waiting'[q] = {}
                     /\ getPhase'[q] \in {"idle", "collecting"} => asked'[q] = Leader
                     /\ \A p \in Peer : got'[q][p] = NoEntry
    BY DEF LocalInv
  <2>1. CASE q = r
    <3>1. asked'[r] = Leader /\ waiting'[r] = {}
      BY <1>0, <1>2 DEF HandleGet, LocalInv
    <3>2. \A p \in Peer : got'[r][p] = got[r][p]
      BY <1>2 DEF HandleGet
    <3> QED BY <2>1, <3>1, <3>2 DEF LocalInv
  <2>2. CASE q # r
    BY <1>2, <2>2 DEF HandleGet, LocalInv
  <2> QED BY <2>1, <2>2
<1>3. ASSUME NEW r \in Gets, AnswerGet(r) PROVE LocalInv'
  <2>1. \A p \in Peer : NothingGot[p] = NoEntry
    BY DEF NothingGot
  <2>2. /\ UNCHANGED <<waiting, asked>>
        /\ getPhase'[r] = "done" /\ got'[r] = NothingGot
        /\ \A q \in Gets : q # r => /\ getPhase'[q] = getPhase[q]
                                    /\ got'[q] = got[q]
    BY <1>3 DEF AnswerGet
  <2> QED BY <2>1, <2>2 DEF LocalInv
<1>4. ASSUME NEW r \in Gets, NEW p \in Peer, HandleClientGet(r, p)
      PROVE LocalInv'
  <2>1. /\ UNCHANGED <<waiting, got>>
        /\ getPhase'[r] = "done"
        /\ \A q \in Gets : q # r => /\ getPhase'[q] = getPhase[q]
                                    /\ asked'[q] = asked[q]
    BY <1>4 DEF HandleClientGet
  <2> QED BY <2>1 DEF LocalInv
<1> QED BY <1>1, <1>2, <1>3, <1>4, LocalSteps DEF allVars

LEMMA LocalInvariant ==
    ASSUME Mode = "w5r1", Leader \notin Restartable
    PROVE  GetsSpec => [](GetsTypeOK /\ LocalInv)
<1>1. GetsInit => LocalInv
  BY NodeFacts DEF GetsInit, LocalInv, NothingGot
<1>2. GetsTypeOK /\ LocalInv /\ [GetsNext]_allVars => LocalInv'
  BY LocalStep
<1> QED BY GetsTypeCorrect, <1>1, <1>2, PTL DEF GetsSpec

\* The only answer of such a read is the copy the leader read.
LEMMA LocalBest ==
    ASSUME GetsTypeOK, LocalInv, NEW r \in Gets, NEW e \in Best(r)
    PROVE  e = got[r][Leader]
<1> USE NodeFacts DEF GetsTypeOK
<1>1. PICK m \in Node :
          e = got[r][m] /\ \A k \in Node : got[r][k].version <= got[r][m].version
  BY DEF Best
<1>2. CASE m = Leader
  BY <1>1, <1>2
<1>3. CASE m # Leader
  <2>1. m \in Peer
    BY <1>3, NumPeersAssumption, SMT DEF Node, Peer, Leader
  <2>2. got[r][m] = NoEntry
    BY <2>1 DEF LocalInv
  <2>3. got[r][Leader].version <= 0
    BY <1>1, <2>2 DEF NoEntry
  <2>4. got[r][Leader] = NoEntry
    BY <2>3, SMT DEF Entry
  <2> QED BY <1>1, <2>2, <2>4
<1> QED BY <1>2, <1>3

-----------------------------------------------------------------------------

LEMMA RegisterInit == GetsInit => Register!Init
BY NodeFacts
   DEF GetsInit, Init, Register!Init, RegisterWrite, RegisterRead,
       RegisterValue, AtLeader, NoEntry

\* Every step of the nodes is a write of the register, its answer, or nothing
\* to the register: replication and restarts touch followers alone.
LEMMA RegisterStep ==
    ASSUME Mode = "w5r1", GetsTypeOK, Step, UNCHANGED getVars
    PROVE  [Register!Next]_(Register!vars)
<1> DEFINE writes == [w \in Writes |-> RegisterWrite(w)]
<1> USE NodeFacts DEF GetsTypeOK, TypeOK
<1>1. /\ UNCHANGED [r \in Gets |-> RegisterRead(r)]
      /\ UNCHANGED [r \in Gets |-> RegisterValue(r)]
  BY DEF getVars, RegisterRead, RegisterValue, AtLeader
<1>2. CASE UNCHANGED phase /\ store'[Leader] = store[Leader]
  <2>1. UNCHANGED writes
    BY <1>2 DEF RegisterWrite
  <2> QED BY <1>1, <1>2, <2>1 DEF Register!vars
<1>3. ASSUME NEW w \in Writes, HandleSet(w) PROVE Register!Next
  <2>1. store'[Leader].value = w
    <3>1. store[Leader] \in Entry
      OBVIOUS
    <3> QED BY <1>3, <3>1, LocalSetFacts DEF HandleSet
  <2>2. RegisterWrite(w) = "new" /\ RegisterWrite(w)' = "applied"
    BY <1>3 DEF HandleSet, RegisterWrite
  <2>3. \A x \in Writes : x # w => RegisterWrite(x)' = RegisterWrite(x)
    BY <1>3 DEF HandleSet, RegisterWrite
  <2>4. writes' = [writes EXCEPT ![w] = "applied"]
    BY <2>2, <2>3
  <2> QED BY <1>1, <2>1, <2>2, <2>4 DEF Register!Next, Register!Apply
<1>4. ASSUME NEW w \in Writes, Ack(w) PROVE Register!Next
  <2>1. RegisterWrite(w) = "applied" /\ RegisterWrite(w)' = "done"
    BY <1>4 DEF Ack, RegisterWrite
  <2>2. \A x \in Writes : x # w => RegisterWrite(x)' = RegisterWrite(x)
    BY <1>4 DEF Ack, RegisterWrite
  <2>3. writes' = [writes EXCEPT ![w] = "done"]
    BY <2>1, <2>2
  <2>4. store' = store
    BY <1>4 DEF Ack
  <2> QED BY <1>1, <2>1, <2>3, <2>4 DEF Register!Next, Register!Done
<1>5. ASSUME NEW w \in Writes, NEW p \in Peer,
             \/ Replicate(w, p) \/ LoseRequest(w, p) \/ BreakConnection(w, p)
      PROVE UNCHANGED phase /\ store'[Leader] = store[Leader]
  BY <1>5 DEF Replicate, Send, HandleReplicate, SendReturns, LoseRequest,
              BreakConnection
<1>6. ASSUME NEW p \in Peer, RestartPeer(p)
      PROVE UNCHANGED phase /\ store'[Leader] = store[Leader]
  BY <1>6 DEF RestartPeer
<1> QED BY <1>2, <1>3, <1>4, <1>5, <1>6 DEF Step

LEMMA RegisterRefines ==
    ASSUME Mode = "w5r1", Leader \notin Restartable, GetsTypeOK, LocalInv,
           [GetsNext]_allVars
    PROVE  [Register!Next]_(Register!vars)
<1> DEFINE writes == [w \in Writes |-> RegisterWrite(w)]
           reads  == [r \in Gets |-> RegisterRead(r)]
           values == [r \in Gets |-> RegisterValue(r)]
<1> USE NodeFacts DEF GetsTypeOK
<1>1. UNCHANGED vars => UNCHANGED writes /\ UNCHANGED store
  BY DEF vars, RegisterWrite
<1>2. ASSUME NEW r \in Gets, HandleGet(r) PROVE Register!Next
  <2>1. asked[r] = Leader /\ getPhase[r] = "idle" /\ getPhase'[r] = "collecting"
    BY <1>2 DEF HandleGet, LocalInv
  <2>2. got'[r][Leader] = store[Leader]
    BY <1>2 DEF HandleGet
  <2>3. /\ RegisterRead(r) = "idle" /\ RegisterRead(r)' = "observed"
        /\ RegisterValue(r)' = store[Leader].value
    BY <1>2, <2>1, <2>2 DEF HandleGet, RegisterRead, RegisterValue, AtLeader
  <2>4. \A q \in Gets : q # r => /\ RegisterRead(q)' = RegisterRead(q)
                                 /\ RegisterValue(q)' = RegisterValue(q)
    BY <1>2 DEF HandleGet, RegisterRead, RegisterValue, AtLeader
  <2>5. /\ reads' = [reads EXCEPT ![r] = "observed"]
        /\ values' = [values EXCEPT ![r] = store[Leader].value]
    BY <2>3, <2>4
  <2>6. UNCHANGED vars
    BY <1>2 DEF HandleGet
  <2> QED
    BY <1>1, <2>3, <2>5, <2>6 DEF Register!Next, Register!Observe
<1>3. ASSUME NEW r \in Gets, AnswerGet(r) PROVE Register!Next
  <2>1. asked[r] = Leader /\ getPhase[r] = "collecting" /\ getPhase'[r] = "done"
    BY <1>3 DEF AnswerGet, LocalInv
  <2>2. result'[r] = got[r][Leader]
    BY <1>3, LocalBest DEF AnswerGet
  <2>3. /\ RegisterRead(r) = "observed" /\ RegisterRead(r)' = "returned"
        /\ RegisterValue(r)' = RegisterValue(r)
    BY <1>3, <2>1, <2>2 DEF AnswerGet, RegisterRead, RegisterValue, AtLeader
  <2>4. \A q \in Gets : q # r => /\ RegisterRead(q)' = RegisterRead(q)
                                 /\ RegisterValue(q)' = RegisterValue(q)
    BY <1>3 DEF AnswerGet, RegisterRead, RegisterValue, AtLeader
  <2>5. reads' = [reads EXCEPT ![r] = "returned"] /\ values' = values
    BY <2>3, <2>4
  <2>6. UNCHANGED vars
    BY <1>3 DEF AnswerGet
  <2> QED BY <1>1, <2>3, <2>5, <2>6 DEF Register!Next, Register!Return
<1>4. ASSUME NEW r \in Gets, NEW p \in Peer, HandleClientGet(r, p)
      PROVE UNCHANGED Register!vars
  <2>1. getPhase[r] = "idle" /\ asked'[r] # Leader
    BY <1>4 DEF HandleClientGet
  <2>2. \A q \in Gets : /\ RegisterRead(q)' = RegisterRead(q)
                        /\ RegisterValue(q)' = RegisterValue(q)
    BY <1>4, <2>1 DEF HandleClientGet, RegisterRead, RegisterValue, AtLeader
  <2>3. UNCHANGED vars
    BY <1>4 DEF HandleClientGet
  <2> QED BY <1>1, <2>2, <2>3 DEF Register!vars
<1>5. CASE UNCHANGED allVars
  BY <1>1, <1>5
     DEF allVars, getVars, RegisterRead, RegisterValue, AtLeader, Register!vars
<1> QED BY <1>2, <1>3, <1>4, <1>5, LocalSteps, RegisterStep

\* In w5r1 the leader's /set and /get are an atomic register: a write takes
\* effect between its request and its 201, a read returns the value current at
\* one moment between its request and its response, and no replication, late,
\* lost or out of order, and no follower's restart, changes that.
THEOREM LeaderIsRegister ==
    ASSUME Mode = "w5r1", Leader \notin Restartable
    PROVE  GetsSpec => Register!Spec
<1>1. GetsTypeOK /\ LocalInv /\ [GetsNext]_allVars
         => [Register!Next]_(Register!vars)
  BY RegisterRefines
<1> QED BY LocalInvariant, RegisterInit, <1>1, PTL DEF GetsSpec, Register!Spec
=============================================================================
