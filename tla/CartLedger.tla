------------------------------ MODULE CartLedger ------------------------------
(***************************************************************************)
(* What the shopping cart service promises the clients of one cart,        *)
(* whatever database keeps it: a ledger of quantities.  An add counts      *)
(* between its request and its answer, and one answered 204 has counted.   *)
(* A GET shows the ledger at one moment.  A fresh ledger (the MySQL one)   *)
(* shows a moment between the GET's request and its answer; one that is    *)
(* not (DynamoDB's) may show any earlier moment, may count an add more     *)
(* than once, and does not say which product a quantity is of.             *)
(***************************************************************************)
EXTENDS Naturals, FiniteSets

CONSTANTS Adds, Gets, Product, Quantity, NoProduct

VARIABLES
    fresh,     \* whether GETs show the present; never changes
    tally,     \* the quantity of each product
    past,      \* what a GET may show now
    item,      \* the product and quantity of each add (<<>> before)
    add,       \* "idle", "open", "counted", "ok" or "error"
    get,       \* "idle", "open", "shown" or "failed"
    shown      \* what each GET shows

vars == <<fresh, tally, past, item, add, get, shown>>

Nothing == [p \in Product |-> 0]

Item == [product : Product, quantity : Quantity]

\* A tally with one more item.
Plus(t, i) == [t EXCEPT ![i.product] = @ + i.quantity]

\* The pieces of a tally, all under no product's id.
Unnamed(t) ==
    [n \in {NoProduct} |-> Cardinality(UNION {{p} \X (1..t[p]) : p \in Product})]

Init ==
    /\ fresh \in BOOLEAN
    /\ tally = Nothing
    /\ past = {Nothing}
    /\ item = [a \in Adds |-> <<>>]
    /\ add = [a \in Adds |-> "idle"]
    /\ get = [g \in Gets |-> "idle"]
    /\ shown = [g \in Gets |-> Nothing]

Send(a) ==
    /\ add[a] = "idle"
    /\ \E i \in Item : item' = [item EXCEPT ![a] = i]
    /\ add' = [add EXCEPT ![a] = "open"]
    /\ UNCHANGED <<fresh, tally, past, get, shown>>

Count(a) ==
    /\ add[a] = "open" \/ (add[a] = "counted" /\ ~fresh)
    /\ add' = [add EXCEPT ![a] = "counted"]
    /\ tally' = Plus(tally, item[a])
    /\ past' = IF fresh THEN {tally'} ELSE past \union {tally'}
    /\ UNCHANGED <<fresh, item, get, shown>>

Answer(a) ==
    /\ \/ add[a] = "counted" /\ add' = [add EXCEPT ![a] = "ok"]
       \/ add[a] \in {"open", "counted"} /\ add' = [add EXCEPT ![a] = "error"]
    /\ UNCHANGED <<fresh, tally, past, item, get, shown>>

Ask(g) ==
    /\ get[g] = "idle"
    /\ get' = [get EXCEPT ![g] = "open"]
    /\ UNCHANGED <<fresh, tally, past, item, add, shown>>

Show(g) ==
    /\ get[g] = "open"
    /\ get' = [get EXCEPT ![g] = "shown"]
    /\ \E t \in past :
          shown' = [shown EXCEPT ![g] = IF fresh THEN t ELSE Unnamed(t)]
    /\ UNCHANGED <<fresh, tally, past, item, add>>

Fail(g) ==
    /\ get[g] = "open"
    /\ get' = [get EXCEPT ![g] = "failed"]
    /\ UNCHANGED <<fresh, tally, past, item, add, shown>>

Next ==
    \/ \E a \in Adds : Send(a) \/ Count(a) \/ Answer(a)
    \/ \E g \in Gets : Ask(g) \/ Show(g) \/ Fail(g)

Spec == Init /\ [][Next]_vars
=============================================================================
