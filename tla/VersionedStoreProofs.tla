------------------------ MODULE VersionedStoreProofs ------------------------
(***************************************************************************)
(* What Store.Set does to an entry, for every entry, write and incoming    *)
(* version: the facts that the proofs about the nodes rest on.             *)
(***************************************************************************)
EXTENDS VersionedStore, TLAPS

\* Every entry, the missing one included, has a natural number for version.
LEMMA EntryFacts ==
    /\ NoEntry \in Entry
    /\ \A e \in Entry : e.version \in Nat
BY SMT DEF Entry, NoEntry

\* Store.Set keeps the type of an entry, holds the value it was given, steps
\* past the version it found, and never stores below the incoming version.
LEMMA SetFacts ==
    ASSUME NEW e \in Entry, NEW w \in Writes, NEW v \in Nat
    PROVE  /\ Set(e, w, v) \in Entry
           /\ Set(e, w, v).value = w
           /\ Set(e, w, v).version = NewVersion(e, v)
           /\ NewVersion(e, v) \in Nat
           /\ NewVersion(e, v) > e.version
           /\ NewVersion(e, v) >= v
           /\ v = e.version + 1 => NewVersion(e, v) = v
BY NoWriteAssumption, SMT DEF Set, NewVersion, IsAbsent, Entry, NoEntry

\* The Set of a client write takes exactly the next version.
LEMMA LocalSetFacts ==
    ASSUME NEW e \in Entry, NEW w \in Writes
    PROVE  /\ Set(e, w, 0) \in Entry
           /\ Set(e, w, 0).value = w
           /\ Set(e, w, 0).version = e.version + 1
           /\ NewVersion(e, 0) = e.version + 1
           /\ NewVersion(e, 0) \in Nat
BY NoWriteAssumption, SMT DEF Set, NewVersion, IsAbsent, Entry, NoEntry
=============================================================================
