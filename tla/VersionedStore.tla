--------------------------- MODULE VersionedStore ---------------------------
(***************************************************************************)
(* The versioned in-memory map of hw10/internal/store/store.go, for one    *)
(* key.  Set and Get run under the store's mutex and touch the entry of    *)
(* their own key only, so a key's entry is a value and Set is an operator  *)
(* from the entry before the call to the entry after it.                   *)
(*                                                                         *)
(* Every client write carries a value of its own, so a value is the        *)
(* identity of the write that brought it.                                  *)
(***************************************************************************)
EXTENDS Naturals

CONSTANTS
    Writes,     \* the client writes to the key, each with its own value
    NoWrite     \* the value of a key that is not in the map

ASSUME NoWriteAssumption == NoWrite \notin Writes

\* data[key] is missing: Get answers (nil, false).
NoEntry == [value |-> NoWrite, version |-> 0]

IsAbsent(e) == e.version = 0

\* What a map can hold for the key: an entry that is there has a version.
Entry == [value : Writes, version : Nat \ {0}] \union {NoEntry}

\* A bug to tell apart: the first write of a key is not given version 1.
NewVersionFromZero(e, incoming) ==
    IF IsAbsent(e) \/ incoming > e.version + 1 THEN incoming ELSE e.version + 1

\* A bug to tell apart: an incoming version is stepped past, as in Lamport's
\* receive rule.
NewVersionLamport(e, incoming) ==
    IF incoming > e.version THEN incoming + 1 ELSE e.version + 1

\* A bug to tell apart: an incoming version is taken as it stands.
NewVersionAsSent(e, incoming) ==
    IF incoming > 0 THEN incoming ELSE e.version + 1

\* A bug to tell apart: the local version is not stepped past.
NewVersionNoStep(e, incoming) ==
    IF incoming > e.version THEN incoming
    ELSE IF IsAbsent(e) THEN 1 ELSE e.version

\* The version Set gives: the incoming one or 1 for an absent key, and for a
\* present one the larger of local + 1 and the incoming version.
NewVersion(e, incoming) ==
    IF IsAbsent(e)
    THEN IF incoming > 0 THEN incoming ELSE 1
    ELSE IF incoming > e.version + 1 THEN incoming ELSE e.version + 1

\* Store.Set: whatever version results, the value is always overwritten.
Set(e, write, incoming) ==
    [value |-> write, version |-> NewVersion(e, incoming)]
=============================================================================
