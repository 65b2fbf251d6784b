--------------------------- MODULE AtomicRegister ---------------------------
(***************************************************************************)
(* An atomic register with concurrent clients: each operation takes effect *)
(* at one moment between its request and its response.  It is what the     *)
(* leader of the key-value store promises the clients that only talk to it *)
(* in mode w5r1.                                                           *)
(***************************************************************************)
CONSTANTS Writes, Reads, Initial

VARIABLES
    current,      \* the register
    writeState,   \* "new", "applied" or "done" for each write
    readState,    \* "idle", "observed" or "returned" for each read
    value         \* what each read observed

vars == <<current, writeState, readState, value>>

Init ==
    /\ current    = Initial
    /\ writeState = [w \in Writes |-> "new"]
    /\ readState  = [r \in Reads |-> "idle"]
    /\ value      = [r \in Reads |-> Initial]

\* A write takes effect, and is answered later.
Apply(w) ==
    /\ writeState[w] = "new"
    /\ writeState' = [writeState EXCEPT ![w] = "applied"]
    /\ current' = w
    /\ UNCHANGED <<readState, value>>

Done(w) ==
    /\ writeState[w] = "applied"
    /\ writeState' = [writeState EXCEPT ![w] = "done"]
    /\ UNCHANGED <<current, readState, value>>

\* A read takes effect, and returns what it observed later.
Observe(r) ==
    /\ readState[r] = "idle"
    /\ readState' = [readState EXCEPT ![r] = "observed"]
    /\ value' = [value EXCEPT ![r] = current]
    /\ UNCHANGED <<current, writeState>>

Return(r) ==
    /\ readState[r] = "observed"
    /\ readState' = [readState EXCEPT ![r] = "returned"]
    /\ UNCHANGED <<current, writeState, value>>

Next ==
    \/ \E w \in Writes : Apply(w) \/ Done(w)
    \/ \E r \in Reads : Observe(r) \/ Return(r)

Spec == Init /\ [][Next]_vars

\* What has taken effect is answered.
FairSpec ==
    /\ Spec
    /\ \A w \in Writes : WF_vars(Done(w))
    /\ \A r \in Reads : WF_vars(Return(r))
=============================================================================
