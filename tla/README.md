# Specifications of the CS6650 services

TLA+ models of the concurrent and distributed programs of this repository, the
TLC runs that check them, and TLAPS proofs about each of the models. The
repository is a course portfolio: each directory is a program of its own, and
few of them share code. The models cover the programs whose correctness depends
on interleavings, failures or message order: the key-value nodes and their load
tester (`hw10`), the album store, the ranker guards (`midterm`), the orders
(`hw7`), the shopping carts (`hw8`) and the Go word count (`hw4`).

## Inventory

| Part | State | Operations | Interaction | What makes it correct |
|---|---|---|---|---|
| versioned store, `hw10/internal/store` | one map of key to value and version | `Set`, `Get` under one mutex | called by every handler of the nodes | versions only grow |
| leader/follower nodes, `hw10/internal/leader` | a store per node | `/set`, `/get`, `/internal/replicate`, `/internal/read`, `/local_read` | leader to followers over HTTP, synchronous, asynchronous or quorum | versions are unique; acknowledged writes are where the mode says; reads see them |
| leaderless nodes, `hw10/internal/leaderless` | a store per node | `/set`, `/get`, `/internal/replicate` | every node to every other | a coordinator's versions are unique; W=N |
| load tester, `hw10/loadtest` | last written version per key | write with read back, read | client of the nodes, workers share the tracker | an entry older than the tracker is called stale, and without overlaps and faults nothing else is |
| album store, `album-store` | DynamoDB tables, S3 bucket, a channel of jobs and workers per server | PUT and GET album, POST, GET and DELETE photo, worker loop | handlers, workers and servers meet in the tables | seq numbers unique, no deleted photo comes back, every photo is settled |
| ranker guards, `midterm/src` | breaker, bulkhead channel | `callRankerSafely` | request goroutines, ranker goroutines | slots do not leak, the breaker follows the results and recovers |
| orders, `hw7/src` | SNS topic, SQS queue, payment and worker semaphores | POST order (sync, async), pollers, order goroutines, Lambda handler | a channel of one place; the topic feeds queue and Lambda | accepted orders are done, slots do not leak, work is repeated by faults only |
| shopping carts, `hw8/src` | MySQL tables, DynamoDB table | create, get, add items | handlers meet in the database | adds are not lost, nor doubled without a fault; a GET shows one moment |
| word count, `hw4/mini-mapreduce-go` | S3 objects | `/split`, `/map`, `/reduce`, the client | services share S3 keys | counts are those of the text |
| small servers and experiments, `hw1`-`hw3`, `hw5`, `hw6` | a slice, a map, a counter | gin handlers, goroutines | shared memory | no lost update |

Hard behaviours: overlapping writes and reordered replication (hw10), work
handed to the background after the answer (hw10 quorum, album store), processes
that restart without their memory (hw10, album store, hw7), calls that fail
after they took effect and calls the AWS SDK repeats (all AWS calls), redelivery
and two subscribers of one topic (hw7), a shared table written from any
order of workers (load tester), two queries behind one answer and a replica that
lags (carts), and shared object names (hw4). `PROJECT.json` lists each of them
at its line under `hazards`.

## Modules

| Module | Models | Extended or used by |
|---|---|---|
| `VersionedStore` | `store.Set` and `Get` as operators on one key's entry | the key-value modules |
| `LeaderFollower` | the write path: `/set`, replication in three modes, `/internal/replicate`, faults and restarts | `LeaderFollowerReads` |
| `LeaderFollowerReads` | the read path over it: `/get` at the leader and at a follower | |
| `AtomicRegister` | abstract: a register with concurrent clients | implemented by `LeaderFollowerReads` in w5r1 |
| `Leaderless` | the leaderless nodes | `LoadTest` |
| `LoadTest` | the load tester's workers and tracker over `Leaderless` | |
| `AlbumStore` | album, photos, workers, reads, deletes, crashes | |
| `RankerGuard` | bulkhead, breaker and timeout around the ranker | |
| `Orders` | both order paths, the queue's processor and the Lambda function | |
| `CartLedger` | abstract: what a cart promises whatever database keeps it | implemented by `Carts` |
| `Carts` | one cart in MySQL or in DynamoDB | |
| `MapReduce` | the Go word count and its client | |
| `MC*` | symmetry sets for TLC | the runs |
| `*Proofs` | theorems with TLAPS proofs (eight modules, see Proofs) | |

An operator whose comment begins "A bug to tell apart" is no part of a model: it
is a wrong version of the definition below it, and the property it is there for
fails when it takes that definition's place.

### Key-value nodes

One key is followed: `Set` and `Get` lock the whole map for the time of a call
and touch one key, and no handler relates two keys. `store[n]` is the key's
entry at node `n`; a client write carries a value of its own, so the value in an
entry is the identity of the write that brought it (`version[w]` is what that
write was given, so "older" is decidable). `HandleSet` is `handleSet` up to its
`switch`; `Send` is one turn of the loops of `replicateSync` and
`replicateToPeers`; `HandleReplicate` is a follower's handler, which after its
sleep does nothing but `Set`; `SendReturns` is `sendReplicate`, which treats an
error like an answer; `Ack` is the 201. `SyncCount` holds the modes: all peers
for w5r1, none for w1r5, the first two for quorum. Requests that are on their
way are never ordered. The 200, 100 and 50 ms sleeps order nothing and are left
out. A request can be lost, the connection can break while the peer still works
on it, and nodes restart with an empty map (`store.New()`); all three are bounded
by `MaxFaults`. A peer that accepts a request and hangs is left out: `http.Post`
has no timeout, and the handler would wait for ever.

In `LeaderFollowerReads`, `HandleGet` reads the leader's copy and starts one
`FetchFromPeer` for each peer of the mode, `AnswerGet` sorts and answers;
`sort.Slice` is not stable, so any entry of the highest version may be taken.
A restart of the leader ends the reads it collects (`RestartDropsGets`).
`before` and `earlier` remember what was acknowledged and answered when a read
began. `overlapped` remembers writes that began before another's 201.

The answers 400, 403 and 405 of the handlers change nothing and are left out.

### Load tester

Each write and each read of a worker is one job, and any number of them run at a
time, at any nodes. A write is the node's `HandleSet` to `Ack`, then `ReadBack`
(`doRead` at the same node) and `SetWritten` in the shared tracker;
`ClientFails` is a `doWrite` or `doRead` that returns an error, after which
nothing is recorded although the node goes on. A read is `DoRead` at any node
and `RecordRead`, which asks the tracker only when the answer is there.
`recorded` and `settled` remember which writes were in the tracker, and which
were acknowledged, when a read was answered: the properties compare the column
`stale` with them. `RecordRead` flags only a read that found an entry, as
`main.go:203` does: a 404 is below every write and is never recorded stale, so
the column misses the nodes that a write did not reach or that restarted, until
they have an entry again. `OldReadIsStale` says both halves, with restarts. The
leader/follower mode of the tool differs by the node that is asked and is not
composed with `LeaderFollower`.

### Album store

One album is followed, with any number of servers on the same tables. Each AWS
call is one step, and may fail having taken effect or not (`...Fails`); SDK
retries show as one call. An upload stands for its photo, because `photo_id` is a
fresh UUID. `album` and `count` are the album's item, `photo` and `object` the
photos' items and files, `queue` and `job` the memory of a server, which `Crash`
empties. A failing `GetPhoto` of a DELETE changes nothing and is the request not
being made. The stage of a `job` says how far `run` is with it. `GetPhoto` and
`GetAlbum` are the answers of the two GET handlers; they read the tables with
ConsistentRead and change nothing, so they are operators the properties use.
`ListAlbums` is a paged scan over many albums and is left out.

### Ranker guards

`call[c]` is the program counter of a request in `callRankerSafely`. Time is
abstracted to what is compared: `status` is what the call is about to return,
and is forgotten when it has returned and when it is admitted; `cooled` is "more
than resetTimeout since the last failure", and `TimeOut` may be taken at any
moment of a call, up to `MaxHangs` times. The select may take the timeout when
the result is there too.

### Orders

`order` is where the HTTP handler stands. On the synchronous path an order waits
for the one place of `paymentSemaphore` (`payment`), keeps it while it is
verified and is answered; `CrashReceiver` ends those under way. On the
asynchronous path `Publish` gives the order to the topic, which feeds both of its
subscribers: `message` is the order's message in the queue and `invocation` the
Lambda function's work on it. Where both are deployed each order is done by both,
and `done` counts them apart. `received` counts deliveries; `task` and `worked`
are the goroutines of `processMessage` before and after the work, each with the
receipt it holds.

SNS, SQS and the invocation service are external and modelled by what the
program needs: a published message reaches the queue, a received one is hidden
until it is deleted or shows up again. It shows up by itself when nobody holds
its last receipt, and by a fault while someone does (the visibility timeout of
30 s is ten times the work). A delete with an old receipt may or may not remove
the message. An invocation that fails is tried again or given up. Retention
(4 days) is left out. Parse errors cannot happen: the receiver publishes what it
has just marshalled.

### Shopping carts

The database of the cart is chosen in `Init`. `versions` is the sequence of
states the cart has had in it, one for each committed write; MySQL shows the
last, DynamoDB's eventually consistent `GetItem` the last or that of a replica
which has only the first `replica` of them. Every SQL statement or DynamoDB call
is one step and its answer another, so the existence check of `mysqlAddItems`
and its upsert, and the two queries of `mysqlGetCart`, are apart. MySQL's driver
repeats a statement only when nothing of it was sent; the AWS SDK sends a failed
`UpdateItem` again, applied or not, while the error is one it retries and fewer
than `MaxAttempts` were made (the default is 3), and the handler turns what is
left of the error into a 404. `MysqlRowsBreak`
is a connection that breaks between rows: `rows.Next` returns false, `rows.Err`
is not looked at, and the rows that came are answered with 200. `Answered` is the
body of a GET: `UnmarshalMap` does not find `product_id` in the item (the struct
has json tags only), so DynamoDB's entries come back under product id 0.

Quantities are natural numbers in the model. The handlers check nothing
(`main.go:228-247`, `335-360`) and also accept negative ones, for which neither
bound of `CartWithinAdds` means anything; they are left out.

`CartLedger` is the promise: a tally of quantities, an add that counts between
its request and its answer, a GET that shows one moment. For a database that is
not `fresh` the moment may be an earlier one, an add may count again, and the
quantities are not told apart by product. The mapping is `Ledger` at the end of
`Carts`; a truncated answer maps to a failed GET, so it is promised nothing.

### Word count

Every text over white space, one letter and one mark is an initial state. The
cuts, with `safeCut`'s two loops, are operators on positions; the words are the
ranges `wordRe` matches; counts are by word length, which identifies a word over
one letter. `randomHex8` is computed from the environment and the process id, so
runs of one splitter share the run id (`results_concurrent.csv` shows one id for
all runs): `chunk`, `map` and `result` are one set of objects. A client that
gives up does not stop the handlers it called. `disturbed` remembers the runs
that overlap one with another `num_chunks`, or one that is disturbed already:
they may read objects the other has made and are promised nothing. The second
case takes three runs, one of which overlaps a run of its own `num_chunks` that a
third, gone by then, has left with wrong objects.

## Runs

| Run | Instance | Shows |
|---|---|---|
| `Writes` | quorum, 3 followers, 2 writes, 2 faults, leader and one follower may restart | versions unique and ordered at the leader, acknowledged writes replicated, no version goes back, writes end, followers catch up |
| `Reads_quorum` | quorum, 2 followers, 2 writes, 2 reads, 1 fault or leader restart | reads see acknowledged versions and do not go back, reads after sequential writes are fresh |
| `Reads_register` | w5r1, 1 follower, 2 writes, 2 reads, 1 fault, the follower may restart | the leader implements `AtomicRegister`, its liveness included |
| `LoadTest` | 3 leaderless nodes, 2 writes, 1 read, 1 fault, two nodes may restart | a coordinator's versions are unique, acknowledged writes everywhere, sequential writes leave equal nodes; an entry older than what was recorded before the answer is flagged and a 404 is not, and without overlaps and faults nothing else is flagged |
| `Album` | 2 servers, 1 worker and 1 place each, 2 uploads, 1 delete, 1 PUT, 2 faults | deleted stays deleted, accepted photos are found, jobs neither lost nor doubled, numbers unique between PUTs, uploads answered, photos settled |
| `Ranker` | 3 callers, 2 slots, threshold 2, 5 timeouts | slots and breaker consistent, every call returns, the breaker recovers |
| `Orders` | 2 orders of either path, 2 pollers, 2 faults | slots are work, orders kept until done, done again by faults only, every order ends |
| `Carts` | 3 adds of two products in quantities 1 and 2, 1 GET, 2 attempts, 2 faults, either database | the cart holds what was answered and no more than was sent, and implements `CartLedger` |
| `MapReduce` | texts up to 3 of white space and letters, 3 runs, up to 2 chunks | a run counts the uncut words exactly |
| `Reads_stale` | quorum, 2 writes, 1 read, no fault | violation: an older value under a higher version |
| `Album_orphan` | 1 upload, 1 delete, no fault | violation: the file of a deleted photo stays |
| `MapReduce_lost` | text up to 4, 1 run | violation: a word at a cut is not counted |

Why the bounds are enough to be interesting: two writes are what reordering and
equal versions need; three followers in quorum mode have one that is only
updated in the background; two faults in `Writes`, `Album` and `Orders` let a
request be lost, or a process end, after an earlier crash or broken call. The
runs with reads of the nodes have one fault: what two of them do together is not
explored there, and the theorems below cover any number. Three nodes are what a
leaderless write needs to be at some peer and not yet at another, read by a
third. One place and one worker make the album's channel full with two uploads
on one server. Three callers exceed two slots, and a threshold of two is reached
with a call still under way. Five timeouts open the breaker, fail its probes
while it is half-open, and open it again after it has closed; two would be used
up by the first opening. Two faults of `Orders` let an order be redelivered
while it is worked on and the delete fail as well, and two orders compete for
the one payment. Three adds of two products are two of one product
that can lose each other beside one of the other, so a GET can mix moments; with
quantities of 1 and 2 such a mixture has a total that the cart never had. Two
faults with two attempts let an add be applied twice by its repeat and then
fail, or be applied twice beside another that fails. One GET is enough, since no
property relates two. Texts of
three characters in two chunks have cuts inside, before and after words, and
empty chunks; three runs let one meet what an earlier pair has spoilt. With
marks, longer texts or more chunks the run does not end in minutes, and
`UncutWordsAreCounted` covers them. `MapReduce_lost` needs four so that a cut
word stands beside another.

Deadlock is checked for `Ranker` and `Orders`, which run for ever. The others are
finite exchanges of requests and end.

### Findings

- `Reads_stale`: `hw10/README.md` says versions let a read pick the freshest
  value. A follower that gets two overlapping writes in the other order stores
  the older value under a raised version (`store.go:49`), and the leader's
  collecting read returns it.
- `Album_orphan`: the README's "Delete photo + file" fails when the DELETE
  comes before the worker's upload: the worker's status update is refused, the
  file stays.
- `MapReduce_lost`: `safeCut` drops a word a boundary falls into from both
  chunks. `verify.py` on the committed book and result reports missing words.

More disagreements were met and are only stated as limits of properties:

- `PutAlbum` writes an item without `photo_count` (`dynamodb.go:69`), so seq
  numbers begin again after a second PUT of an album, against REPORT.md's
  "unique" (`SeqUniqueBetweenPuts` is what holds).
- A half-open breaker lets every caller probe (`midterm/src/main.go:152`), where
  its comment says one.
- A DynamoDB GET of a cart answers `product_id`, and the cart's own fields whose
  names differ from their json tags, as zero values (`Answered`), where
  `hw8_report.md:262` sets it beside MySQL's retrieval as a "Single GetItem call".
- A MySQL GET whose connection breaks is answered with the rows that came
  (`hw8/src/main.go:207` does not look at `rows.Err`), where `hw8_report.md:362`
  has every read reflect the latest committed write; and a `COUNT` or an
  `UpdateItem` that fails, applied or not, is answered 404.
- A read that a node answers with 404 for a key whose write is in the tracker is
  never flagged (`loadtest/main.go:203` compares only when there is an entry), where the
  comment at `main.go:59` calls a read stale that "returned version < last written
  version" and `consistency_test.go:248` counts a 404 as stale. The property
  states what the code does.
- The cart handlers take negative quantities (above).
- Overlapping leaderless writes through two coordinators may be given one version,
  and can leave the nodes with different values under it, or at different versions,
  for ever, so a read long after them may be flagged stale; and because the tester
  asks the tracker after the answer, a read that was right when it was answered
  may be flagged when a write is recorded in between. `StaleReadOverlapsWrite` is
  what the column shows otherwise.
- An asynchronous order is done twice where queue processor and Lambda function
  are both subscribed: they are alternatives, and nothing keeps them apart.

## Fairness

- Key-value nodes: weak fairness of `Ack`, of `Replicate` and of a read's
  `Collect`: the Go scheduler runs every goroutine, a node answers after its
  sleep, and a lost request ends in an error of the HTTP client. Nothing makes a
  client write or a node restart. The register's own fairness (`Done` and
  `Return` of what has taken effect) is implied by it, which `Reads_register`
  checks.
- Album store: weak fairness of the started handlers and the workers; strong
  fairness of `Submit`, because goroutines that wait to send on a Go channel are
  served first come, first served, while other handlers fill the place again.
- Ranker: weak fairness of each caller's steps, of new requests, and of time.
  Recovery needs a request after the reset timeout: the breaker has no timer.
- Orders: weak fairness of delivery by the topic, the visibility timeout,
  pollers, order goroutines, invocations, and of a synchronous order's steps.
  For `TakePayment` weak fairness is enough with two orders, because an order
  that has its payment never asks again. Faults are never fair.

`MapReduce`, `LoadTest` and `Carts` are checked for safety only.

## Proofs

The theorems hold for all constants the assumptions of the modules allow: any
number of nodes, writes, reads, uploads, orders, callers and faults. The
assumptions, each named in the module that declares the constants:
`NoWriteAssumption`, `NumPeersAssumption`, `ModeAssumption` (quorum mode has two
followers, or the code panics), `BoundsAssumption`; `ClusterAssumption`;
`GuardAssumption`; `AlbumAssumption`; `OrdersAssumption`; `CartsAssumption`;
`MapReduceAssumption`. `PROJECT.json` lists the theorems with the property each
one states. A run checks every one of these properties on a small instance, and
every invariant and action property of a passing run is a theorem.

- `VersionedStoreProofs`: `SetFacts` and `LocalSetFacts` are what the key-value
  proofs rest on: `Set` steps past the version it finds, never below the one it is
  sent, and takes exactly the next one for a client write.
- `LeaderFollowerProofs`: `LeaderOrder` (no two writes share a version and the
  leader's copy is the highest) is inductive with the type invariant, because a
  write is given one more than the leader's entry. For `AckedReplicated` the
  inductive invariant `ReplInv` says of every write and peer what the states of
  request and reply imply: an applied request at a peer that kept its map leaves
  it at the write's version or above, a reply without error means an applied
  request, and an acknowledged write has all its replies. `SequentialAgreement`
  needs `SeqInv`: while writes do not overlap and nothing fails, a peer the mode
  waits for has exactly the state before or after the one open write, by whether
  its request is applied. `StoresMoveForward` is an action property, proved action
  by action.
  The reads follow in the same module. `FreshInv` (a read has collected at least
  what was acknowledged when it began) gives `GetsSeeAcked`; `BackInv` gives
  `ReadsMoveForward`: whatever an answered read returned, every read that began
  later either has already collected as much or still waits for a node that holds
  it, because entries only grow; `ValueInv`, on top of `SeqInv`, gives
  `ReadsAreFresh`. `LeaderIsRegister` is the refinement: with `Mode = "w5r1"` and a
  leader that is not restartable, `GetsSpec => Register!Spec`. `LocalInv` says a
  collecting read has only its leader's copy, so its answer is what it observed;
  then each step maps to `Apply`, `Done`, `Observe`, `Return` or a stutter.
- `LeaderlessProofs`: the same argument as for the leader, for any coordinators,
  carried to `LoadSpec` because the client's steps leave the nodes alone;
  `TrackInv` for `OldReadsAreStale`: what a worker read back at a coordinator
  that kept its map is at least what its write was given, and the tracker holds
  at least what was read back for each recorded write, whichever nodes restart;
  `StaleInv` for `StaleReadsOverlap`: without overlaps every version that is
  read back or tracked was given to a write, and a read behind it was answered
  before its 201.
- `AlbumStoreProofs`: `ShownInv` follows a photo's item: it leaves "none" only by
  its own upload, so one that is gone stays gone and an accepted one needs a
  DELETE to go. `FileInv` says that a job past its S3 call, and a completed item,
  have the file or a tried removal. `CountInv` bounds every seq given since the
  last PUT by the album's counter. `JobsAreKept` counts over all channels and
  workers; `PlaceInv` says it without counting: no photo is in two entries of
  channels, with two workers, or in an entry and with a worker, only accepted
  ones are in either, and without faults one that is processing is in one. The
  sets `JobCopies` counts then have one member at most.
- `OrdersProofs`: `SlotInv` is the slot count with the finiteness of the
  goroutines and of the orders being verified, so that `Orders` may be infinite.
  `KeptInv` adds to the property that a goroutine past the work has counted it,
  so that its delete takes nothing undone. `AgainInv` is a budget: what was done, plus each
  goroutine and open delivery that may still do it, is at most two and the
  faults so far; `IdleInv` says an order not yet published has none of these.
- `RankerGuardProofs`: the types with the capacity, the breaker's equivalence
  (a half-open breaker keeps its failures at the threshold or above, so only a
  success takes it back below), and the slot count, with the finiteness of the
  callers inside as a strengthening so that the callers may be infinitely many.
- `CartsProofs`: `Pieces` is the set of the single units that the adds bring, one
  for each add, each time it was applied and each unit of its quantity.
  `CountInv` says that the cart's amount of each product is the number of pieces
  of what was applied so far: a write that applies an add brings `quantity` new
  ones (`PiecesOfOneMore`) and no other step any (`PiecesKept`). So no sum over
  the adds is taken, which would need induction, and both bounds of
  `CartHoldsAdds` are inclusions of sets of pieces. The bounds come from `AddInv`:
  an add is applied at most once for each attempt, at least once when it is
  answered 204, and in MySQL in one attempt. `CartKeepsLedger` is the refinement,
  by one step for each action: the upsert and the update are `Count`, the answers
  of an add `Answer`, the query that ends a GET `Show` or `Fail`, and what a
  client cannot see (the existence check, a first query that finds the cart, the
  replica's progress) a stutter.
- `MapReduceProofs` begins with texts and positions alone. The cuts are least or
  greatest positions, which exist because the natural numbers are well founded
  (`LeastElement`). `StartFacts` and `EndFacts` say where `safeCut` moves a cut,
  `ChunkWordsAreUncut` and `UncutWordsAreInChunks` are the two halves of
  `ChunkCountsWords`, a bijection between the words of a chunk and the uncut
  words that begin in it, and `CountsAddUp` carries the counts over one more
  chunk. About the runs, `StageInv` relates a run's stage to its requests', and
  `DataInv` says that an undisturbed run at work finds in each object it relies on
  what it would have written itself: every run at work beside it has its
  `num_chunks` (`PeersStep`), so that it does not matter whose object it is
  (`ObjectsStep`). The proof did not close with `disturbed` as overlaps of unequal
  `num_chunks` alone, and TLC found the three runs described above.
  `CleanCutsCountAll` says when nothing is lost: cuts in white space, or one chunk.

Only model-checked: liveness, because fairness and `ENABLED` are out of the
prover's reach. That is `EveryWriteAnswered`, `FollowersCatchUp`,
`EveryUploadEnds`, `EveryCallReturns`, `BreakerRecovers`, `EveryOrderEnds`, and
the liveness part of `ImplementsRegister`, whose safety part is
`LeaderIsRegister`. The runs that end in a violation show counterexamples. What a
recursive definition computes on all inputs would need induction over data, which
the provers cannot do; no module declares a recursive operator.

## Not modelled

- The Python word count: an earlier version of the same services and objects.
- The crash demo: `fixed` is the same program as `midterm/src`, `broken` is its
  search without the guards.
- The handlers around the ranker, which filter a constant list.
- The product store and search (`hw5`, `hw6`): each operation is one step under
  its lock or reads what never changes.
- The small servers and lock experiments (`hw1`-`hw3`): a lost update under a
  missing lock is the whole of them; it is listed as a hazard.
- `ListAlbums`: a paged scan over several albums, where one is followed here.
- A peer that accepts a request and never answers, and a restarted leader that
  gives its first versions out again: the properties are stated for runs where
  the leader keeps its map, and the hazards name both.
- The consistency tests, used as a reference; infrastructure, load generators
  and plots, which keep no state of the system.

`PROJECT.json` gives the status of each part.

## Plan

1. Done: all models, runs and proofs above.
2. What a read of the leader promises in quorum mode with faults, beyond
   `GetsSeeAcked`.
3. The leader/follower mode of the load tester over `LeaderFollowerReads`.
4. `ListAlbums` over two albums: what a paged scan promises beside PUTs.
5. Concurrency primitives (`hw3`, `hw1`/`hw2`, `hw5`): counter and map under each
   lock, the appended slice, the shared product pointer.
