------------------------ MODULE LeaderFollowerReads ------------------------
(***************************************************************************)
(* The read path over the write path of LeaderFollower: client /get at the *)
(* leader (a local read, or collectQuorum over the followers) and at a     *)
(* follower (hw10/internal/leader/handler.go).  A collecting read sees     *)
(* each node at a moment of its own, between the steps of any writes.      *)
(***************************************************************************)
EXTENDS LeaderFollower

CONSTANT Gets     \* the client reads of the key

VARIABLES
    getPhase,   \* where each read stands
    asked,      \* the node the client asked
    waiting,    \* peers whose fetchFromPeer has not returned
    got,        \* what each node answered a read that still collects
                \* (NoEntry: nil, or not asked)
    result,     \* the entry of the response (NoEntry: 404)
    before,     \* writes acknowledged when the read began
    earlier     \* reads of the leader answered when the read began

getVars == <<getPhase, asked, waiting, got, result, before, earlier>>
allVars == <<vars, getVars>>

GetPhase == {"idle", "collecting", "done", "dropped"}

Acked == {w \in Writes : phase[w] = "acked"}

\* The reads the leader has answered.
LeaderGets == {r \in Gets : getPhase[r] = "done" /\ asked[r] = Leader}

\* The peers handleGet passes to collectQuorum.
ReadPeer ==
    CASE Mode = "w5r1"   -> {}
      [] Mode = "w1r5"   -> Peer
      [] Mode = "quorum" -> 1..2

NothingGot == [n \in Node |-> NoEntry]

GetsInit ==
    /\ Init
    /\ getPhase = [r \in Gets |-> "idle"]
    /\ asked    = [r \in Gets |-> Leader]
    /\ waiting  = [r \in Gets |-> {}]
    /\ got      = [r \in Gets |-> NothingGot]
    /\ result   = [r \in Gets |-> NoEntry]
    /\ before   = [r \in Gets |-> {}]
    /\ earlier  = [r \in Gets |-> {}]

\* A bug to tell apart: the leader leaves itself out of the collection.
HandleGetPeersOnly(r) ==
    /\ getPhase[r] = "idle"
    /\ getPhase' = [getPhase EXCEPT ![r] = "collecting"]
    /\ waiting' = [waiting EXCEPT ![r] = ReadPeer]
    /\ before' = [before EXCEPT ![r] = Acked]
    /\ earlier' = [earlier EXCEPT ![r] = LeaderGets]
    /\ UNCHANGED <<vars, asked, got, result>>

\* handleGet at the leader: its own copy is read first, then one goroutine
\* per peer is started.
HandleGet(r) ==
    /\ getPhase[r] = "idle"
    /\ getPhase' = [getPhase EXCEPT ![r] = "collecting"]
    /\ got' = [got EXCEPT ![r][Leader] = store[Leader]]
    /\ waiting' = [waiting EXCEPT ![r] = ReadPeer]
    /\ before' = [before EXCEPT ![r] = Acked]
    /\ earlier' = [earlier EXCEPT ![r] = LeaderGets]
    /\ UNCHANGED <<vars, asked, result>>

\* fetchFromPeer, and the follower's handleInternalRead that answers it.
FetchFromPeer(r, p) ==
    /\ p \in waiting[r]
    /\ waiting' = [waiting EXCEPT ![r] = @ \ {p}]
    /\ got' = [got EXCEPT ![r][p] = store[p]]
    /\ UNCHANGED <<vars, getPhase, asked, result, before, earlier>>

\* fetchFromPeer meets an error: nil, as if the peer did not have the key.
FetchFails(r, p) ==
    /\ faults < MaxFaults
    /\ p \in waiting[r]
    /\ waiting' = [waiting EXCEPT ![r] = @ \ {p}]
    /\ faults' = faults + 1
    /\ UNCHANGED <<store, phase, version, request, reply, history>>
    /\ UNCHANGED <<getPhase, asked, got, result, before, earlier>>

\* A bug to tell apart: any collected entry is taken, not the highest.
BestUnsorted(r) == {got[r][n] : n \in {m \in Node : ~IsAbsent(got[r][m])}}

\* The entries sort.Slice may leave at the front: those of highest version,
\* in no order among themselves.  NoEntry when no node has the key.
Best(r) ==
    {got[r][n] : n \in {m \in Node : \A k \in Node :
                            got[r][k].version <= got[r][m].version}}

\* wg.Wait() of collectQuorum has returned: sort and answer.
AnswerGet(r) ==
    /\ getPhase[r] = "collecting"
    /\ waiting[r] = {}
    /\ \E e \in Best(r) : result' = [result EXCEPT ![r] = e]
    /\ getPhase' = [getPhase EXCEPT ![r] = "done"]
    /\ got' = [got EXCEPT ![r] = NothingGot]
    /\ UNCHANGED <<vars, asked, waiting, before, earlier>>

\* handleClientGet at a follower: its own copy, in one step.
HandleClientGet(r, p) ==
    /\ getPhase[r] = "idle"
    /\ getPhase' = [getPhase EXCEPT ![r] = "done"]
    /\ asked' = [asked EXCEPT ![r] = p]
    /\ result' = [result EXCEPT ![r] = store[p]]
    /\ before' = [before EXCEPT ![r] = Acked]
    /\ earlier' = [earlier EXCEPT ![r] = LeaderGets]
    /\ UNCHANGED <<vars, waiting, got>>

\* The leader's restart ends the reads it was collecting.
RestartDropsGets ==
    /\ RestartLeader
    /\ getPhase' = [r \in Gets |-> IF getPhase[r] = "collecting"
                                   THEN "dropped" ELSE getPhase[r]]
    /\ waiting' = [r \in Gets |-> {}]
    /\ got' = [r \in Gets |-> NothingGot]
    /\ UNCHANGED <<asked, result, before, earlier>>

Collect(r) == AnswerGet(r) \/ \E p \in Peer : FetchFromPeer(r, p)

GetsNext ==
    \/ Step /\ UNCHANGED getVars
    \/ RestartDropsGets
    \/ \E r \in Gets : HandleGet(r)
    \/ \E r \in Gets : Collect(r)
    \/ \E r \in Gets, p \in Peer : FetchFails(r, p)
    \/ \E r \in Gets, p \in Peer : HandleClientGet(r, p)

GetsSpec == GetsInit /\ [][GetsNext]_allVars

\* Every started read goes on: a follower answers /internal/read after its
\* sleep, or http.Get returns an error.
GetsFairness == \A r \in Gets : WF_allVars(Collect(r))

FairGetsSpec == GetsSpec /\ Fairness /\ GetsFairness

-----------------------------------------------------------------------------
(* Properties.                                                             *)

\* Every variable has its type.
GetsTypeOK ==
    /\ TypeOK
    /\ getPhase \in [Gets -> GetPhase]
    /\ asked \in [Gets -> Node]
    /\ waiting \in [Gets -> SUBSET Peer]
    /\ got \in [Gets -> [Node -> Entry]]
    /\ result \in [Gets -> Entry]
    /\ before \in [Gets -> SUBSET Writes]
    /\ earlier \in [Gets -> SUBSET Gets]

\* In every mode, while the leader keeps its map, a read it serves answers with
\* a version at least that of every write acknowledged before the read began,
\* whatever it lost of the followers' answers.
GetSeesAckedVersions ==
    Leader \notin restarted =>
        \A r \in LeaderGets : \A w \in before[r] :
            result[r].version >= version[w]

\* Without faults two reads of the leader, one after the other, never go back
\* in version, although each sees the followers between steps of writes.
GetsNeverGoBack ==
    faults = 0 =>
        \A r \in LeaderGets : \A q \in earlier[r] :
            result[q].version <= result[r].version

\* What the modes are for: with one client write at a time and no fault, in
\* w5r1 and quorum a read of the leader, or of a follower the mode waits for,
\* returns the value of the last write acknowledged before it began, or of a
\* later one, under the version the leader gave it.
SequentialGetIsFresh ==
    (overlapped = {} /\ faults = 0 /\ Mode # "w1r5") =>
        \A r \in Gets :
            getPhase[r] = "done" /\ asked[r] \in {Leader} \union SyncPeer =>
                \A w \in before[r] :
                    /\ result[r].value \in Started
                    /\ version[result[r].value] >= version[w]
                    /\ result[r].version = version[result[r].value]

\* hw10/README.md on version numbers: "This is how R=5 / R=3 reads pick the
\* freshest value from a pool of responses": the value a read of the leader
\* returns is not older than a write acknowledged before the read began.
GetPicksFreshest ==
    \A r \in LeaderGets : \A w \in before[r] :
        /\ result[r].value \in Started
        /\ version[result[r].value] >= version[w]

-----------------------------------------------------------------------------
(* What the leader promises its own readers in w5r1: an atomic register.   *)

\* Reads that asked the leader; those of a follower are not the register's.
AtLeader(r) == asked[r] = Leader /\ getPhase[r] # "idle"

RegisterWrite(w) ==
    CASE phase[w] = "new"  -> "new"
      [] phase[w] = "open" -> "applied"
      [] OTHER             -> "done"

RegisterRead(r) ==
    IF ~AtLeader(r) THEN "idle"
    ELSE IF getPhase[r] = "done" THEN "returned" ELSE "observed"

RegisterValue(r) ==
    IF ~AtLeader(r) THEN NoWrite
    ELSE IF getPhase[r] = "done" THEN result[r].value ELSE got[r][Leader].value

Register == INSTANCE AtomicRegister WITH
    Reads      <- Gets,
    Initial    <- NoWrite,
    current    <- store[Leader].value,
    writeState <- [w \in Writes |-> RegisterWrite(w)],
    readState  <- [r \in Gets |-> RegisterRead(r)],
    value      <- [r \in Gets |-> RegisterValue(r)]

\* In w5r1 the leader's /set and /get implement an atomic register: a write
\* takes effect between its request and its 201, a read returns the value
\* current at one moment between its request and its response, both are answered
\* in the end, and no replication, in any order or lost, changes what later
\* reads of the leader see.
ImplementsRegister == Register!FairSpec
============================================================================
