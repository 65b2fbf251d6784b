----------------------------- MODULE MapReduce -----------------------------
(***************************************************************************)
(* The word count of hw4/mini-mapreduce-go: a client asks the splitter to  *)
(* cut a text into chunks, the mappers to count the words of each chunk,   *)
(* and the reducer to add the counts up.  The services keep everything in  *)
(* S3, under keys made of a run id and an index.  randomHex8 gives every   *)
(* run of one splitter process the same id, so runs share their objects.   *)
(*                                                                         *)
(* Every run counts the same text.  A character is white space, a letter   *)
(* or a mark (neither); there is one letter, so that a word, a run of      *)
(* letters, is known by its length.  Positions are those of the code: they *)
(* begin at 0, and a range does not include its end.                       *)
(***************************************************************************)
EXTENDS Naturals, Sequences, FiniteSets, FiniteSetsExt

CONSTANTS
    Runs,        \* clients, each of which drives one run
    Characters,  \* a subset of {" ", "a", "-"}
    MaxText,     \* length of the text
    MaxChunks    \* num_chunks of a run

ASSUME MapReduceAssumption ==
    /\ Characters \subseteq {" ", "a", "-"}
    /\ MaxText \in Nat
    /\ MaxChunks \in Nat \ {0}

Texts == UNION {[1..l -> Characters] : l \in 0..MaxText}
Index == 0..(MaxChunks - 1)

-----------------------------------------------------------------------------
(* The splitter's cuts.                                                    *)

Space(t, k)  == t[k + 1] = " "

\* Positions k - 1 and k are of one piece of text without white space.
Inside(t, k) == 0 < k /\ k < Len(t) /\ ~Space(t, k - 1) /\ ~Space(t, k)

\* A bug to tell apart: the start is taken as it is.
SafeStartAsIs(t, start, end) == start

\* safeCut moves a start inside a piece forward to its end.
SafeStart(t, start, end) ==
    IF start < end /\ Inside(t, start)
    THEN Min({k \in start..end : k = end \/ Space(t, k)})
    ELSE start

\* It moves an end inside a piece back to the beginning of the piece.
SafeEnd(t, start, end) ==
    IF start < end /\ Inside(t, end)
    THEN LET from == SafeStart(t, start, end)
         IN  Max({k \in from..end : k = from \/ Space(t, k - 1)})
    ELSE end

\* Ceiling division.
ChunkSize(t, n) == (Len(t) + n - 1) \div n

Cut(t, n, i) == Min({i * ChunkSize(t, n), Len(t)})

Chunk(t, n, i) ==
    SubSeq(t, SafeStart(t, Cut(t, n, i), Cut(t, n, i + 1)) + 1,
              SafeEnd(t, Cut(t, n, i), Cut(t, n, i + 1)))

-----------------------------------------------------------------------------
(* The mapper's words.                                                     *)

\* The ranges of positions that wordRe matches in t.
Words(t) ==
    {p \in (0..Len(t)) \X (0..Len(t)) :
        /\ p[1] < p[2]
        /\ \A k \in p[1]..(p[2] - 1) : t[k + 1] = "a"
        /\ p[1] > 0 => t[p[1]] # "a"
        /\ p[2] < Len(t) => t[p[2] + 1] # "a"}

\* How many words there are of each length.
Tally(words) ==
    [l \in 1..MaxText |-> Cardinality({p \in words : p[2] - p[1] = l})]

Counts(t) == Tally(Words(t))

NoCounts == [l \in 1..MaxText |-> 0]

Add(a, b) == [l \in 1..MaxText |-> a[l] + b[l]]
-----------------------------------------------------------------------------

VARIABLES
    text,       \* the text
    n,          \* num_chunks of each run
    state,      \* where each run stands
    next,       \* the index the splitter, then the reducer, is at
    stage,      \* how far each /map request of a run is
    held,       \* the counts its mapper is about to write
    merged,     \* the reducer's counts, for each run
    chunk,      \* S3: chunks/run-<id>/chunk-<i>.txt
    map,        \* S3: maps/run-<id>/map-<i>.json
    result,     \* S3: reduce/run-<id>/result.json
    gone,       \* runs whose client has given up
    disturbed   \* runs that overlapped one with another num_chunks, or one
                \* that had been disturbed before

s3     == <<chunk, map, result>>
client == <<gone, disturbed>>
vars   == <<text, n, state, next, stage, held, merged, s3, client>>

NoObject == <<>>

\* A service works, or will work, for the run.
Active(r) ==
    \/ state[r] = "splitting" /\ (r \in gone => next[r] < n[r])
    \/ state[r] = "mapping" /\ r \notin gone
    \/ state[r] = "reducing"
    \/ \E i \in Index : stage[r][i] \in {"todo", "read"}

Init ==
    /\ text      \in Texts
    /\ n         \in [Runs -> 1..MaxChunks]
    /\ state     = [r \in Runs |-> "idle"]
    /\ next      = [r \in Runs |-> 0]
    /\ stage     = [r \in Runs |-> [i \in Index |-> "none"]]
    /\ held      = [r \in Runs |-> [i \in Index |-> NoCounts]]
    /\ merged    = [r \in Runs |-> NoCounts]
    /\ chunk     = [i \in Index |-> NoObject]
    /\ map       = [i \in Index |-> NoObject]
    /\ result    = NoObject
    /\ gone      = {}
    /\ disturbed = {}

\* The client posts /split, and the splitter reads the text.
Start(r) ==
    /\ state[r] = "idle"
    /\ state' = [state EXCEPT ![r] = "splitting"]
    /\ LET others == {q \in Runs : Active(q) /\ (n[q] # n[r] \/ q \in disturbed)}
       IN  disturbed' = IF others = {} THEN disturbed
                        ELSE disturbed \union others \union {r}
    /\ UNCHANGED <<text, n, next, stage, held, merged, s3, gone>>

\* A bug to tell apart: one chunk too many is written.
SplitChunkTooMany(r) ==
    /\ state[r] = "splitting"
    /\ next[r] <= n[r]
    /\ chunk' = [chunk EXCEPT ![next[r]] = Chunk(text, n[r], next[r])]
    /\ next' = [next EXCEPT ![r] = @ + 1]
    /\ UNCHANGED <<text, n, state, stage, held, merged, map, result, client>>

\* The splitter writes its next chunk.
SplitChunk(r) ==
    /\ state[r] = "splitting"
    /\ next[r] < n[r]
    /\ chunk' = [chunk EXCEPT ![next[r]] = Chunk(text, n[r], next[r])]
    /\ next' = [next EXCEPT ![r] = @ + 1]
    /\ UNCHANGED <<text, n, state, stage, held, merged, map, result, client>>

\* It answers, and the client asks the mappers, all at once.
SplitDone(r) ==
    /\ state[r] = "splitting"
    /\ r \notin gone
    /\ next[r] >= n[r]
    /\ state' = [state EXCEPT ![r] = "mapping"]
    /\ stage' = [stage EXCEPT ![r] =
                    [i \in Index |-> IF i < n[r] THEN "todo" ELSE "none"]]
    /\ next' = [next EXCEPT ![r] = 0]
    /\ UNCHANGED <<text, n, held, merged, s3, client>>

\* A mapper reads its chunk and counts.
MapRead(r, i) ==
    /\ stage[r][i] = "todo"
    /\ held' = [held EXCEPT ![r][i] = Counts(chunk[i])]
    /\ stage' = [stage EXCEPT ![r][i] = "read"]
    /\ UNCHANGED <<text, n, state, next, merged, s3, client>>

\* It writes the counts under its chunk's index.
MapWrite(r, i) ==
    /\ stage[r][i] = "read"
    /\ map' = [map EXCEPT ![i] = held[r][i]]
    /\ stage' = [stage EXCEPT ![r][i] = "done"]
    /\ held' = [held EXCEPT ![r][i] = NoCounts]
    /\ UNCHANGED <<text, n, state, next, merged, chunk, result, client>>

\* All mappers have answered: the client posts /reduce.
MapDone(r) ==
    /\ state[r] = "mapping"
    /\ r \notin gone
    /\ \A i \in Index : stage[r][i] \in {"none", "done"}
    /\ state' = [state EXCEPT ![r] = "reducing"]
    /\ UNCHANGED <<text, n, next, stage, held, merged, s3, client>>

\* The reducer adds the next mapper's counts.
ReduceRead(r) ==
    /\ state[r] = "reducing"
    /\ next[r] < n[r]
    /\ merged' = [merged EXCEPT ![r] = Add(@, map[next[r]])]
    /\ next' = [next EXCEPT ![r] = @ + 1]
    /\ UNCHANGED <<text, n, state, stage, held, s3, client>>

\* It writes the sum, and the client has its result.
ReduceWrite(r) ==
    /\ state[r] = "reducing"
    /\ next[r] = n[r]
    /\ result' = merged[r]
    /\ state' = [state EXCEPT ![r] = "done"]
    /\ UNCHANGED <<text, n, next, stage, held, merged, chunk, map, client>>

\* The client times out or ends.  The requests it made go on: no handler's
\* context ends with its client.
GiveUp(r) ==
    /\ state[r] \in {"splitting", "mapping", "reducing"}
    /\ gone' = gone \union {r}
    /\ UNCHANGED <<text, n, state, next, stage, held, merged, s3, disturbed>>

\* An S3 call of the splitter or the reducer fails: 500, and the client ends.
HandlerFails(r) ==
    /\ state[r] \in {"splitting", "reducing"}
    /\ state' = [state EXCEPT ![r] = "failed"]
    /\ gone' = gone \union {r}
    /\ UNCHANGED <<text, n, next, stage, held, merged, s3, disturbed>>

\* An S3 call of a mapper fails: the client ends, the other mappers do not.
MapFails(r, i) ==
    /\ stage[r][i] \in {"todo", "read"}
    /\ stage' = [stage EXCEPT ![r][i] = "failed"]
    /\ held' = [held EXCEPT ![r][i] = NoCounts]
    /\ gone' = gone \union {r}
    /\ UNCHANGED <<text, n, state, next, merged, s3, disturbed>>

Next ==
    \/ \E r \in Runs : Start(r) \/ SplitChunk(r) \/ SplitDone(r)
    \/ \E r \in Runs, i \in Index : MapRead(r, i) \/ MapWrite(r, i)
    \/ \E r \in Runs : MapDone(r) \/ ReduceRead(r) \/ ReduceWrite(r)
    \/ \E r \in Runs : GiveUp(r) \/ HandlerFails(r)
    \/ \E r \in Runs, i \in Index : MapFails(r, i)

Spec == Init /\ [][Next]_vars

-----------------------------------------------------------------------------
(* Properties.                                                             *)

\* Every variable has its type, and no index passes the run's num_chunks.
TypeOK ==
    /\ text \in Texts
    /\ n \in [Runs -> 1..MaxChunks]
    /\ state \in [Runs -> {"idle", "splitting", "mapping", "reducing", "done",
                           "failed"}]
    /\ next \in [Runs -> Nat] /\ \A r \in Runs : next[r] <= n[r]
    /\ stage \in [Runs -> [Index -> {"none", "todo", "read", "done", "failed"}]]
    /\ held \in [Runs -> [Index -> [1..MaxText -> Nat]]]
    /\ merged \in [Runs -> [1..MaxText -> Nat]]
    /\ chunk \in [Index -> Texts]
    /\ map \in [Index -> [1..MaxText -> Nat] \union {NoObject}]
    /\ result \in [1..MaxText -> Nat] \union {NoObject}
    /\ gone \in SUBSET Runs
    /\ disturbed \in SUBSET Runs

\* The words of t that are in a piece no cut into n chunks falls into.
UncutWords(t, n_) ==
    {p \in Words(t) :
        \A k \in 1..(Len(t) - 1) :
            k % ChunkSize(t, n_) = 0 /\ Inside(t, k) =>
                \/ \E j \in k..(p[1] - 1) : Space(t, j)
                \/ \E j \in p[2]..(k - 1) : Space(t, j)}

\* A run counts each word that lies in a piece without a cut, once, and no half
\* word, whatever its mappers' order, other runs with its num_chunks at the same
\* time, and objects that earlier or failed runs left under the same keys.
ResultIsUncutWords ==
    \A r \in Runs \ disturbed :
        state[r] = "done" => merged[r] = Tally(UncutWords(text, n[r]))

\* hw4/mini-mapreduce-go/verify.py compares the result with the words of the
\* whole text: "Word count matches exactly!".
WordCountMatches ==
    \A r \in Runs \ disturbed : state[r] = "done" => merged[r] = Counts(text)
=============================================================================
