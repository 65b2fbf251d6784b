--------------------------------- MODULE Carts ---------------------------------
(***************************************************************************)
(* The shopping cart service (hw8/src/main.go), for one cart: a MySQL cart *)
(* is a row with its rows of items, a DynamoDB cart one item with a list.  *)
(* Handlers share nothing but the database, so any number of instances of  *)
(* the program behind the load balancer behaves like one.                  *)
(*                                                                         *)
(* Each SQL statement or DynamoDB call is one step, its answer another.    *)
(* Of the stored cart the module keeps the quantity of each product: the   *)
(* upsert adds up rows, and list entries of one product are added up here. *)
(* The id is a fresh UUID, known to clients from the 201 of its creation;  *)
(* a request with any other id is answered 404 and changes nothing.  The   *)
(* handlers take and store a quantity below zero as well (nothing checks   *)
(* it); such requests are left out, and nothing here is said about them.   *)
(***************************************************************************)
EXTENDS Naturals, Sequences, FiniteSets

CONSTANTS
    Adds,          \* POST .../items requests
    Gets,          \* GET requests
    Product,       \* product ids
    Quantity,      \* quantities of a request, none below zero
    NoProduct,     \* the product id 0
    MaxAttempts,   \* how often the AWS SDK sends a call in all
    MaxFaults      \* failing statements and calls

ASSUME CartsAssumption ==
    /\ Quantity \subseteq Nat
    /\ MaxAttempts \in Nat \ {0}
    /\ MaxFaults \in Nat

VARIABLES
    database,   \* "mysql" or "dynamo": the routes the cart was created with
    create,     \* where the handler of the cart's creation stands
    versions,   \* the quantities stored after each committed write
    replica,    \* how many of the versions the lagging replica has
    add,        \* where each add's handler stands
    item,       \* the body of its request
    attempts,   \* calls of UpdateItem it has made
    counted,    \* how often it was applied
    get,        \* where each GET's handler stands
    shown,      \* the quantities of the items it read
    faults      \* faults so far

store   == <<versions, replica>>
adding  == <<add, item, attempts, counted>>
reading == <<get, shown>>
vars    == <<database, create, store, adding, reading, faults>>

Fault == faults < MaxFaults /\ faults' = faults + 1

Nothing == [p \in Product |-> 0]
Item    == [product : Product, quantity : Quantity]

\* What the database holds now; versions is empty before the cart exists.
Current == versions[Len(versions)]
Present == versions # <<>>

Init ==
    /\ database \in {"mysql", "dynamo"}
    /\ create   = "idle"
    /\ versions = <<>>
    /\ replica  = 0
    /\ add      = [a \in Adds |-> "idle"]
    /\ item     = [a \in Adds |-> <<>>]
    /\ attempts = [a \in Adds |-> 0]
    /\ counted  = [a \in Adds |-> 0]
    /\ get      = [g \in Gets |-> "idle"]
    /\ shown    = [g \in Gets |-> Nothing]
    /\ faults   = 0

-----------------------------------------------------------------------------
(* POST /{mysql,dynamo}/shopping-carts.                                    *)

\* INSERT INTO carts, then 201.
MysqlCreateCart ==
    /\ database = "mysql"
    /\ create = "idle"
    /\ create' = "ok"
    /\ versions' = <<Nothing>>
    /\ UNCHANGED <<database, replica, adding, reading, faults>>

\* PutItem with an empty list, then 201.
DynamoCreateCart ==
    /\ database = "dynamo"
    /\ create = "idle"
    /\ create' = "ok"
    /\ versions' = <<Nothing>>
    /\ UNCHANGED <<database, replica, adding, reading, faults>>

\* It fails, applied or not: 500, and nobody learns the id.
CreateFails ==
    /\ Fault
    /\ create = "idle"
    /\ create' = "error"
    /\ versions' \in {<<>>, <<Nothing>>}
    /\ UNCHANGED <<database, replica, adding, reading>>

-----------------------------------------------------------------------------
(* POST .../{id}/items.                                                    *)

\* The request is routed by its prefix and its body decoded.
BeginAdd(a) ==
    /\ create = "ok"
    /\ add[a] = "idle"
    /\ \E i \in Item : item' = [item EXCEPT ![a] = i]
    /\ add' = [add EXCEPT ![a] = "begun"]
    /\ UNCHANGED <<database, create, store, attempts, counted, reading, faults>>

\* SELECT COUNT(*): 404 when there is no such cart.
MysqlVerify(a) ==
    /\ database = "mysql"
    /\ add[a] = "begun"
    /\ add' = [add EXCEPT ![a] = IF Present THEN "verified" ELSE "error"]
    /\ UNCHANGED <<database, create, store, item, attempts, counted>>
    /\ UNCHANGED <<reading, faults>>

\* A bug to tell apart: the new quantity is computed from one read before.
ApplyToOlder(a) ==
    \E n \in 1..Len(versions) :
        versions' = Append(versions, [versions[n] EXCEPT
                        ![item[a].product] = @ + item[a].quantity])

\* quantity = quantity + VALUES(quantity), or a new row; list_append.
Apply(a) ==
    versions' = Append(versions, [Current EXCEPT
                    ![item[a].product] = @ + item[a].quantity])

\* INSERT ... ON DUPLICATE KEY UPDATE.
MysqlUpsert(a) ==
    /\ database = "mysql"
    /\ add[a] = "verified"
    /\ Apply(a)
    /\ add' = [add EXCEPT ![a] = "applied"]
    /\ counted' = [counted EXCEPT ![a] = @ + 1]
    /\ UNCHANGED <<database, create, replica, item, attempts, reading, faults>>

\* The COUNT fails, which leaves exists at 0 (404), or the INSERT does,
\* applied or not (500).
MysqlFails(a) ==
    /\ Fault
    /\ database = "mysql"
    /\ add[a] \in {"begun", "verified", "applied"}
    /\ add' = [add EXCEPT ![a] = "error"]
    /\ UNCHANGED <<database, create, store, item, attempts, counted, reading>>

\* UpdateItem, with the condition attribute_exists(cart_id).
DynamoUpdateItem(a) ==
    /\ database = "dynamo"
    /\ add[a] = "begun"
    /\ Present
    /\ Apply(a)
    /\ add' = [add EXCEPT ![a] = "applied"]
    /\ counted' = [counted EXCEPT ![a] = @ + 1]
    /\ UNCHANGED <<database, create, replica, item, attempts, reading, faults>>

\* A bug to tell apart: the call is repeated without end.
DynamoRetriesAlways(a) ==
    /\ Fault
    /\ database = "dynamo"
    /\ add[a] \in {"begun", "applied"}
    /\ attempts' = [attempts EXCEPT ![a] = @ + 1]
    /\ add' = [add EXCEPT ![a] = "begun"]
    /\ UNCHANGED <<database, create, store, item, counted, reading>>

\* A call of UpdateItem fails, applied or not.  The SDK sends it again if the
\* error is one to retry and attempts are left, or else the handler answers 404.
DynamoFails(a) ==
    /\ Fault
    /\ database = "dynamo"
    /\ add[a] \in {"begun", "applied"}
    /\ attempts' = [attempts EXCEPT ![a] = @ + 1]
    /\ \/ /\ attempts[a] + 1 < MaxAttempts
          /\ add' = [add EXCEPT ![a] = "begun"]
       \/ add' = [add EXCEPT ![a] = "error"]
    /\ UNCHANGED <<database, create, store, item, counted, reading>>

\* 204.
AnswerAdd(a) ==
    /\ add[a] = "applied"
    /\ add' = [add EXCEPT ![a] = "ok"]
    /\ UNCHANGED <<database, create, store, item, attempts, counted>>
    /\ UNCHANGED <<reading, faults>>

-----------------------------------------------------------------------------
(* GET .../{id}.                                                           *)

\* The request reaches its handler.
BeginGet(g) ==
    /\ create = "ok"
    /\ get[g] = "idle"
    /\ get' = [get EXCEPT ![g] = "begun"]
    /\ UNCHANGED <<database, create, store, adding, shown, faults>>

\* The row of carts: 404 when there is none.
MysqlFindCart(g) ==
    /\ database = "mysql"
    /\ get[g] = "begun"
    /\ get' = [get EXCEPT ![g] = IF Present THEN "found" ELSE "error"]
    /\ UNCHANGED <<database, create, store, adding, shown, faults>>

\* The rows of cart_items, of one moment, to the last.
MysqlReadItems(g) ==
    /\ database = "mysql"
    /\ get[g] = "found"
    /\ shown' = [shown EXCEPT ![g] = Current]
    /\ get' = [get EXCEPT ![g] = "done"]
    /\ UNCHANGED <<database, create, store, adding, faults>>

\* The connection breaks while the rows are read: rows.Next returns false,
\* nobody looks at rows.Err, and the rows that came are answered with 200.
MysqlRowsBreak(g) ==
    /\ Fault
    /\ database = "mysql"
    /\ get[g] = "found"
    /\ \E came \in SUBSET Product :
          shown' = [shown EXCEPT ![g] =
                      [p \in Product |-> IF p \in came THEN Current[p] ELSE 0]]
    /\ get' = [get EXCEPT ![g] = "truncated"]
    /\ UNCHANGED <<database, create, store, adding>>

\* A bug to tell apart: each product has an item of its own, and a GET fetches
\* some in one call and the rest in another, which two replicas answer.
DynamoGetTwice(g) ==
    /\ database = "dynamo"
    /\ get[g] = "begun"
    /\ \E n, m \in {replica, Len(versions)} \ {0}, first \in SUBSET Product :
          shown' = [shown EXCEPT ![g] =
                      [p \in Product |-> IF p \in first THEN versions[n][p]
                                        ELSE versions[m][p]]]
    /\ get' = [get EXCEPT ![g] = "done"]
    /\ UNCHANGED <<database, create, store, adding, faults>>

\* GetItem without ConsistentRead: from the replica that has every version
\* or from the one that lags, which may not have the item yet (404).
DynamoGetItem(g) ==
    /\ database = "dynamo"
    /\ get[g] = "begun"
    /\ \E n \in {replica, Len(versions)} :
          IF n = 0
          THEN /\ get' = [get EXCEPT ![g] = "error"]
               /\ UNCHANGED shown
          ELSE /\ get' = [get EXCEPT ![g] = "done"]
               /\ shown' = [shown EXCEPT ![g] = versions[n]]
    /\ UNCHANGED <<database, create, store, adding, faults>>

\* The body of the 200.  UnmarshalMap goes by the names of the fields, not by
\* their json tags: "items" and "quantity" are found, "product_id" is not, so
\* the pieces of DynamoDB's entries are answered with product id 0.
Answered(g) ==
    IF database = "mysql" THEN shown[g]
    ELSE [n \in {NoProduct} |->
            Cardinality(UNION {{p} \X (1..shown[g][p]) : p \in Product})]

\* A query fails at once: 500.
GetFails(g) ==
    /\ Fault
    /\ get[g] \in {"begun", "found"}
    /\ get' = [get EXCEPT ![g] = "error"]
    /\ UNCHANGED <<database, create, store, adding, shown>>

\* The lagging replica of DynamoDB gets the next version.
Propagate ==
    /\ database = "dynamo"
    /\ replica < Len(versions)
    /\ replica' = replica + 1
    /\ UNCHANGED <<database, create, versions, adding, reading, faults>>

-----------------------------------------------------------------------------
MysqlAdd(a)  == MysqlVerify(a) \/ MysqlUpsert(a) \/ MysqlFails(a)
DynamoAdd(a) == DynamoUpdateItem(a) \/ DynamoFails(a)
MysqlGet(g)  == MysqlFindCart(g) \/ MysqlReadItems(g) \/ MysqlRowsBreak(g)

Next ==
    \/ MysqlCreateCart \/ DynamoCreateCart \/ CreateFails
    \/ \E a \in Adds : BeginAdd(a) \/ MysqlAdd(a) \/ DynamoAdd(a) \/ AnswerAdd(a)
    \/ \E g \in Gets : BeginGet(g) \/ MysqlGet(g) \/ DynamoGetItem(g) \/ GetFails(g)
    \/ Propagate

Spec == Init /\ [][Next]_vars

-----------------------------------------------------------------------------
(* Properties.                                                             *)

\* Every variable has its type, and an add whose calls have all failed is over.
TypeOK ==
    /\ database \in {"mysql", "dynamo"}
    /\ create \in {"idle", "ok", "error"}
    /\ versions \in Seq([Product -> Nat])
    /\ replica \in 0..Len(versions)
    /\ add \in [Adds -> {"idle", "begun", "verified", "applied", "ok", "error"}]
    /\ item \in [Adds -> Item \union {<<>>}]
    /\ attempts \in [Adds -> 0..MaxAttempts]
    /\ \A a \in Adds : attempts[a] = MaxAttempts => add[a] = "error"
    /\ counted \in [Adds -> Nat]
    /\ get \in [Gets -> {"idle", "begun", "found", "done", "truncated", "error"}]
    /\ shown \in [Gets -> [Product -> Nat]]
    /\ faults \in 0..MaxFaults

\* The pieces of a product that the adds of a set bring when each is applied so
\* many times: an add, one of its times, and one of its quantity.
Pieces(p, adds, times) ==
    UNION {{a} \X ((1..times[a]) \X (1..item[a].quantity)) :
              a \in {b \in adds : add[b] # "idle" /\ item[b].product = p}}

\* The cart holds every add answered 204, and no add that was not sent; in
\* MySQL none counts twice, in DynamoDB one counts again at most once for each
\* failing call, and all without faults are counted exactly once: concurrent
\* adds of one product never lose each other.
CartWithinAdds ==
    Present =>
        \A p \in Product :
            /\ Cardinality(Pieces(p, {a \in Adds : add[a] = "ok"},
                                  [a \in Adds |-> 1])) <= Current[p]
            /\ Current[p] <=
                  Cardinality(Pieces(p, {a \in Adds : add[a] # "begun" \/ attempts[a] > 0},
                                     [a \in Adds |-> 1 + attempts[a]]))

-----------------------------------------------------------------------------
(* The promise the service keeps.                                          *)

\* The cart, which is empty before it exists, and the states it has had.
Stored == IF Present THEN Current ELSE Nothing
Past   == {versions[k] : k \in 1..Len(versions)} \union {Nothing}

LedgerAdd(a) ==
    IF add[a] \in {"idle", "ok", "error"} THEN add[a]
    ELSE IF counted[a] > 0 THEN "counted" ELSE "open"

LedgerGet(g) ==
    CASE get[g] = "idle" -> "idle"
      [] get[g] = "done" -> "shown"
      [] get[g] \in {"truncated", "error"} -> "failed"
      [] OTHER -> "open"

LedgerShown(g) == IF get[g] = "done" THEN Answered(g) ELSE Nothing

Ledger == INSTANCE CartLedger WITH
    fresh <- database = "mysql",
    tally <- Stored,
    past  <- IF database = "mysql" THEN {Stored} ELSE Past,
    add   <- [a \in Adds |-> LedgerAdd(a)],
    get   <- [g \in Gets |-> LedgerGet(g)],
    shown <- [g \in Gets |-> LedgerShown(g)]

\* Both databases keep the ledger: an add answered 204 has counted between its
\* request and its answer, in MySQL exactly once; a GET answered in full shows
\* the MySQL cart as it was at one moment while it ran, although it queries
\* twice, and the quantities in the DynamoDB cart at some moment, never a
\* mixture of moments.
ImplementsLedger == Ledger!Spec
=============================================================================
