------------------------------ MODULE CartsProofs ------------------------------
(***************************************************************************)
(* Proofs about the shopping carts, for any number of adds, GETs,          *)
(* products, repeats of a call and faults, in either database.             *)
(***************************************************************************)
EXTENDS Carts, SequenceTheorems, FiniteSetTheorems, TLAPS

USE DEF store, adding, reading

Tally == [Product -> Nat]

\* What the body of a request says.
LEMMA ItemFacts ==
    ASSUME NEW i \in Item
    PROVE  i.product \in Product /\ i.quantity \in Nat
BY CartsAssumption DEF Item

\* What the stored states are, and how a write adds one.
LEMMA VersionFacts ==
    ASSUME TypeOK
    PROVE  /\ Nothing \in Tally
           /\ <<Nothing>> \in Seq(Tally) /\ Len(<<Nothing>>) = 1
           /\ <<Nothing>>[1] = Nothing
           /\ Len(versions) \in Nat
           /\ Present => Len(versions) > 0 /\ Current \in Tally
           /\ \A t \in Tally : /\ Append(versions, t) \in Seq(Tally)
                               /\ Append(versions, t) # <<>>
                               /\ Len(Append(versions, t)) = Len(versions) + 1
                               /\ Append(versions, t)[Len(versions) + 1] = t
                               /\ \A k \in 1..Len(versions) :
                                     Append(versions, t)[k] = versions[k]
<1>1. versions \in Seq(Tally)
  BY DEF TypeOK, Tally
<1>2. Nothing \in Tally
  BY DEF Nothing, Tally
<1>3. Present => Len(versions) > 0 /\ Current \in Tally
  BY <1>1, EmptySeq, ElementOfSeq, SMT DEF Present, Current
<1>4. <<Nothing>> \in Seq(Tally) /\ Len(<<Nothing>>) = 1 /\ <<Nothing>>[1] = Nothing
  BY <1>2
<1> QED BY <1>1, <1>2, <1>3, <1>4, AppendProperties, LenProperties

-----------------------------------------------------------------------------

\* How far the handlers are, and how often an add was applied by then: MySQL's
\* once, DynamoDB's at most once for each call.
AddInv ==
    \A a \in Adds :
        /\ add[a] = "idle" => counted[a] = 0 /\ attempts[a] = 0
        /\ add[a] # "idle" => create = "ok" /\ item[a] \in Item
        /\ add[a] \in {"idle", "begun", "applied"} => attempts[a] < MaxAttempts
        /\ add[a] \in {"begun", "verified"} => counted[a] <= attempts[a]
        /\ add[a] \in {"applied", "ok"} => counted[a] > 0
        /\ counted[a] <= attempts[a] + 1
        /\ database = "mysql" => attempts[a] = 0
        /\ database = "dynamo" => add[a] # "verified"

CreateInv ==
    /\ create = "idle" => ~Present
    /\ create = "ok" => Present
    /\ \A g \in Gets : get[g] # "idle" => create = "ok"

\* The inductive type invariant.
TypeInv == TypeOK /\ AddInv /\ CreateInv

LEMMA TypeStep ==
    ASSUME TypeInv, [Next]_vars PROVE TypeInv'
<1> USE CartsAssumption DEF TypeInv, TypeOK, AddInv, CreateInv, Present
<1> DEFINE Types == [Product -> Nat]
<1>0. Fault => faults' \in 0..MaxFaults
  BY SMT DEF Fault
<1>v. Types = Tally /\ versions \in Seq(Types)
  BY Zenon DEF Tally
<1>n. ASSUME versions' = <<Nothing>>, ~Present
      PROVE  versions' \in Seq(Types) /\ versions' # <<>> /\ replica \in 0..Len(versions')
  <2>1. versions' \in Seq(Types) /\ Len(versions') = 1
    BY <1>n, <1>v, VersionFacts, Zenon
  <2>2. Len(versions) = 0
    BY <1>n, EmptySeq
  <2>3. replica \in 0..Len(versions)
    OBVIOUS
  <2>4. replica \in 0..Len(versions')
    BY <2>1, <2>2, <2>3, SMT
  <2>5. versions' # <<>>
    <3>1. Len(<<>>) = 0 /\ 1 # 0
      BY EmptySeq
    <3> QED BY ONLY <2>1, <3>1, Zenon
  <2> QED BY <2>1, <2>4, <2>5
<1>1. CASE MysqlCreateCart \/ DynamoCreateCart
  <2>1. versions' = <<Nothing>> /\ ~Present
    BY <1>1 DEF MysqlCreateCart, DynamoCreateCart
  <2>2. versions' \in Seq(Types) /\ versions' # <<>> /\ replica \in 0..Len(versions')
    BY <1>n, <2>1, Zenon
  <2> HIDE DEF Present
  <2> QED BY <1>1, <2>2, SMT DEF MysqlCreateCart, DynamoCreateCart, Present
<1>2. CASE CreateFails
  <2>1. ~Present /\ versions' \in {<<>>, <<Nothing>>}
    BY <1>2 DEF CreateFails
  <2>2. versions' \in Seq(Types) /\ replica \in 0..Len(versions')
    <3>1. CASE versions' = <<>>
      BY <3>1, <2>1, EmptySeq, SMT
    <3>2. CASE versions' = <<Nothing>>
      BY <3>2, <2>1, <1>n, Zenon
    <3> QED BY <2>1, <3>1, <3>2
  <2> QED BY <1>0, <1>2, <2>2, SMT DEF CreateFails
<1>3. ASSUME NEW a \in Adds, BeginAdd(a) PROVE TypeInv'
  BY <1>3, SMT DEF BeginAdd
<1>4. ASSUME NEW a \in Adds, MysqlVerify(a) PROVE TypeInv'
  BY <1>4, SMT DEF MysqlVerify
<1>5. ASSUME NEW a \in Adds, Apply(a), Present, item[a] \in Item
      PROVE  /\ versions' \in Seq(Types)
             /\ versions' # <<>>
             /\ replica \in 0..Len(versions')
  <2>0. item[a] \in Item
    BY <1>5
  <2>1. PICK t \in Tally : versions' = Append(versions, t)
    <3>1. Current \in Tally
      BY <1>5, VersionFacts, Zenon
    <3>2. [Current EXCEPT ![item[a].product] = @ + item[a].quantity] \in Tally
      <4>1. item[a].product \in Product /\ item[a].quantity \in Nat
        BY <2>0, ItemFacts, Zenon
      <4> HIDE DEF Current
      <4> QED BY ONLY <3>1, <4>1, SMT DEF Tally
    <3> QED BY <1>5, <3>2, Zenon DEF Apply
  <2>2. /\ Append(versions, t) \in Seq(Tally)
        /\ Append(versions, t) # <<>>
        /\ Len(Append(versions, t)) = Len(versions) + 1
        /\ Len(versions) \in Nat
    BY VersionFacts, Zenon
  <2> QED BY <2>1, <2>2, <1>v, SMT
<1>6. ASSUME NEW a \in Adds, MysqlUpsert(a) PROVE TypeInv'
  BY <1>5, <1>6, VersionFacts, SMT DEF MysqlUpsert
<1>7. ASSUME NEW a \in Adds, MysqlFails(a) PROVE TypeInv'
  BY <1>0, <1>7, SMT DEF MysqlFails
<1>8. ASSUME NEW a \in Adds, DynamoUpdateItem(a) PROVE TypeInv'
  <2>1. Apply(a) /\ Present /\ item[a] \in Item
    BY <1>8 DEF DynamoUpdateItem
  <2>2. /\ versions' \in Seq(Types)
        /\ versions' # <<>>
        /\ replica \in 0..Len(versions')
    BY <1>5, <2>1, Zenon
  <2> QED BY <1>8, <2>2, SMT DEF DynamoUpdateItem
<1>9. ASSUME NEW a \in Adds, DynamoFails(a) PROVE TypeInv'
  <2>1. CASE add' = [add EXCEPT ![a] = "begun"] /\ attempts[a] + 1 < MaxAttempts
    BY <1>0, <1>9, <2>1, SMT DEF DynamoFails
  <2>2. CASE add' = [add EXCEPT ![a] = "error"]
    BY <1>0, <1>9, <2>2, SMT DEF DynamoFails
  <2> QED BY <1>9, <2>1, <2>2 DEF DynamoFails
<1>10. ASSUME NEW a \in Adds, AnswerAdd(a) PROVE TypeInv'
  BY <1>10, SMT DEF AnswerAdd
<1>11. ASSUME NEW g \in Gets, BeginGet(g) PROVE TypeInv'
  BY <1>11, SMT DEF BeginGet
<1>12. ASSUME NEW g \in Gets, MysqlFindCart(g) PROVE TypeInv'
  BY <1>12, SMT DEF MysqlFindCart
<1>13. ASSUME NEW g \in Gets, MysqlReadItems(g) PROVE TypeInv'
  BY <1>13, VersionFacts, SMT DEF MysqlReadItems, Tally
<1>14. ASSUME NEW g \in Gets, MysqlRowsBreak(g) PROVE TypeInv'
  BY <1>0, <1>14, VersionFacts, SMT DEF MysqlRowsBreak, Tally
<1>15. ASSUME NEW g \in Gets, DynamoGetItem(g) PROVE TypeInv'
  <2>1. PICK n \in {replica, Len(versions)} :
           IF n = 0
           THEN /\ get' = [get EXCEPT ![g] = "error"]
                /\ UNCHANGED shown
           ELSE /\ get' = [get EXCEPT ![g] = "done"]
                /\ shown' = [shown EXCEPT ![g] = versions[n]]
    BY <1>15, Zenon DEF DynamoGetItem
  <2>2. n \in 0..Len(versions) /\ Len(versions) \in Nat
    BY <2>1, VersionFacts, SMT
  <2>3. n # 0 => versions[n] \in Types
    BY <2>2, ElementOfSeq, SMT
  <2>4. get[g] = "begun" /\ UNCHANGED <<database, create, store, adding, faults>>
    BY <1>15 DEF DynamoGetItem
  <2>5. /\ get' \in [Gets -> {"idle", "begun", "found", "done", "truncated", "error"}]
        /\ shown' \in [Gets -> Types]
        /\ \A h \in Gets : get'[h] # "idle" => get[h] # "idle"
    <3>1. CASE n = 0
      <4>1. get' = [get EXCEPT ![g] = "error"] /\ shown' = shown
        BY <2>1, <3>1, Zenon
      <4> QED BY ONLY TypeOK, <2>4, <4>1, SMT DEF TypeOK
    <3>2. CASE n # 0
      <4>1. /\ get' = [get EXCEPT ![g] = "done"]
            /\ shown' = [shown EXCEPT ![g] = versions[n]]
        BY <2>1, <3>2, Zenon
      <4> QED BY ONLY TypeOK, <2>3, <2>4, <3>2, <4>1, SMT DEF TypeOK
    <3> QED BY <3>1, <3>2
  <2> QED BY <2>4, <2>5, SMT
<1>16. ASSUME NEW g \in Gets, GetFails(g) PROVE TypeInv'
  BY <1>0, <1>16, SMT DEF GetFails
<1>17. CASE Propagate
  BY <1>17, VersionFacts, SMT DEF Propagate
<1>18. CASE UNCHANGED vars
  BY <1>18 DEF vars
<1> QED
  BY <1>1, <1>2, <1>3, <1>4, <1>6, <1>7, <1>8, <1>9, <1>10, <1>11, <1>12,
     <1>13, <1>14, <1>15, <1>16, <1>17, <1>18
     DEF Next, MysqlAdd, DynamoAdd, MysqlGet

LEMMA TypeInvariant == Spec => []TypeInv
<1>1. Init => TypeInv
  BY CartsAssumption, EmptySeq, SMT
     DEF Init, TypeInv, TypeOK, AddInv, CreateInv, Present, Nothing
<1> QED BY <1>1, TypeStep, PTL DEF Spec

\* Every variable has its type, and no call is sent more often than the SDK may.
THEOREM TypeCorrect == Spec => []TypeOK
BY TypeInvariant, PTL DEF TypeInv

-----------------------------------------------------------------------------

(* The cart holds what its adds have counted.                              *)

\* The adds sent so far.
Sent == {a \in Adds : add[a] # "idle"}

\* The cart holds the pieces of the adds, each as often as it was applied.
CountInv ==
    /\ IsFiniteSet(Sent)
    /\ Present => \A p \in Product :
                     Current[p] = Cardinality(Pieces(p, Adds, counted))

\* x is a piece of product p that add b brings when it is applied n times.
PieceOf(x, p, b, n) ==
    /\ add[b] # "idle" /\ item[b].product = p
    /\ \E k \in 1..n, q \in 1..item[b].quantity : x = <<b, <<k, q>>>>

LEMMA IsPiece ==
    ASSUME NEW p, NEW S, NEW times, NEW x
    PROVE  x \in Pieces(p, S, times) <=> \E b \in S : PieceOf(x, p, b, times[b])
BY DEF Pieces, PieceOf

\* The adds sent are finitely many, and so are their pieces.
LEMMA PiecesFinite ==
    ASSUME TypeInv, IsFiniteSet(Sent), NEW p,
           NEW S \in SUBSET Adds, NEW times \in [Adds -> Nat]
    PROVE  IsFiniteSet(Pieces(p, S, times))
<1> DEFINE B    == {b \in S : add[b] # "idle" /\ item[b].product = p}
           Of(b) == {b} \X ((1..times[b]) \X (1..item[b].quantity))
           F    == [b \in B |-> Of(b)]
           T    == {Of(b) : b \in B}
<1>1. IsFiniteSet(B)
  <2>1. B \subseteq Sent
    BY DEF Sent
  <2> QED BY <2>1, FS_Subset
<1>2. IsFiniteSet(T)
  <2>1. F \in Surjection(B, T)
    BY DEF Surjection
  <2> QED BY <1>1, <2>1, FS_Surjection DEF ExistsSurjection
<1>3. ASSUME NEW b \in B PROVE IsFiniteSet(Of(b))
  <2>1. times[b] \in Int /\ item[b].quantity \in Int
    <3>1. item[b] \in Item
      BY DEF TypeInv, AddInv
    <3> QED BY <3>1, ItemFacts, SMT
  <2>2. IsFiniteSet(1..times[b]) /\ IsFiniteSet(1..item[b].quantity)
    BY <2>1, FS_Interval
  <2>3. IsFiniteSet((1..times[b]) \X (1..item[b].quantity))
    BY <2>2, FS_Product
  <2> QED BY <2>3, FS_Singleton, FS_Product
<1>4. \A X \in T : IsFiniteSet(X)
  BY <1>3
<1> QED BY <1>2, <1>4, FS_UNION DEF Pieces

\* Pieces change only with an add that has counted.
LEMMA PiecesKept ==
    ASSUME TypeInv, counted' = counted,
           \A a \in Adds : \/ counted[a] = 0
                           \/ /\ item'[a] = item[a]
                              /\ add'[a] = "idle" <=> add[a] = "idle"
    PROVE  \A p : Pieces(p, Adds, counted)' = Pieces(p, Adds, counted)
<1> SUFFICES ASSUME NEW p, NEW x
             PROVE  x \in Pieces(p, Adds, counted)' <=> x \in Pieces(p, Adds, counted)
  OBVIOUS
<1>1. ASSUME NEW a \in Adds, NEW k \in 1..counted[a]
      PROVE  item'[a] = item[a] /\ (add'[a] = "idle" <=> add[a] = "idle")
  <2>1. counted[a] # 0
    BY <1>1, SMT
  <2> QED BY <2>1
<1> QED BY <1>1 DEF Pieces

\* An applied add brings as many pieces of its product as it asks for.
LEMMA PiecesOfOneMore ==
    ASSUME TypeInv, IsFiniteSet(Sent), NEW a \in Adds, add[a] # "idle",
           item' = item, counted' = [counted EXCEPT ![a] = @ + 1],
           \A b \in Adds : add'[b] = "idle" <=> add[b] = "idle",
           NEW p
    PROVE  Cardinality(Pieces(p, Adds, counted)') =
             Cardinality(Pieces(p, Adds, counted))
                + (IF item[a].product = p THEN item[a].quantity ELSE 0)
<1> DEFINE old == Pieces(p, Adds, counted)
           new == {a} \X ({counted[a] + 1} \X (1..item[a].quantity))
<1>1. /\ counted \in [Adds -> Nat] /\ item[a] \in Item
      /\ item[a].quantity \in Nat
  BY ItemFacts DEF TypeInv, TypeOK, AddInv
<1>2. IsFiniteSet(old) /\ Cardinality(old) \in Nat
  BY <1>1, PiecesFinite, FS_CardinalityType
<1>3. \A b \in Adds : counted'[b] = IF b = a THEN counted[a] + 1 ELSE counted[b]
  BY <1>1
<1>4. \A x : x \in Pieces(p, Adds, counted)' <=>
               \E b \in Adds : PieceOf(x, p, b, counted'[b])
  BY DEF Pieces, PieceOf
<1>5. \A x : x \in old <=> \E b \in Adds : PieceOf(x, p, b, counted[b])
  BY IsPiece, Zenon
<1> HIDE DEF old
<1>6. CASE item[a].product # p
  <2>1. \A x, b : b = a => ~PieceOf(x, p, b, counted'[b]) /\ ~PieceOf(x, p, b, counted[b])
    BY <1>6 DEF PieceOf
  <2>2. \A b \in Adds : b = a \/ counted'[b] = counted[b]
    BY <1>3
  <2>3. \A x : x \in Pieces(p, Adds, counted)' <=> x \in old
    BY <1>4, <1>5, <2>1, <2>2, Zenon
  <2>4. Pieces(p, Adds, counted)' = old
    BY <2>3, Zenon
  <2>5. Cardinality(Pieces(p, Adds, counted)') = Cardinality(old)
    BY <2>4, Zenon
  <2> QED BY <1>2, <1>6, <2>5, SMT DEF old
<1>7. CASE item[a].product = p
  <2>1. 1..counted'[a] = (1..counted[a]) \union {counted[a] + 1}
    BY <1>1, <1>3, SMT
  <2>2. \A x : PieceOf(x, p, a, counted'[a]) <=> PieceOf(x, p, a, counted[a]) \/ x \in new
    BY <1>7, <2>1 DEF PieceOf
  <2>3. Pieces(p, Adds, counted)' = old \union new
    <3>1. \A b \in Adds : b = a \/ counted'[b] = counted[b]
      BY <1>3
    <3>2. \A x : x \in Pieces(p, Adds, counted)' <=> x \in old \/ x \in new
      BY <1>4, <1>5, <2>2, <3>1, Zenon
    <3> HIDE DEF new
    <3> QED BY <3>2, Zenon
  <2>4. old \intersect new = {}
    <3>1. ~(counted[a] + 1 \in 1..counted[a])
      BY <1>1, SMT
    <3>2. SUFFICES ASSUME NEW x \in old, x \in new PROVE FALSE
      OBVIOUS
    <3>3. PICK b \in Adds : PieceOf(x, p, b, counted[b])
      BY <1>5, <3>2, Zenon
    <3>4. PICK k \in 1..counted[b], q \in 1..item[b].quantity : x = <<b, <<k, q>>>>
      BY <3>3, Zenon DEF PieceOf
    <3>5. PICK r \in 1..item[a].quantity : x = <<a, <<counted[a] + 1, r>>>>
      BY <3>2
    <3>6. b = a /\ k = counted[a] + 1
      BY <3>4, <3>5
    <3> QED BY <3>1, <3>4, <3>6
  <2>5. IsFiniteSet(new) /\ Cardinality(new) = item[a].quantity
    <3> DEFINE Q == 1..item[a].quantity
               C == {counted[a] + 1}
               A == {a}
    <3>1. IsFiniteSet(Q) /\ Cardinality(Q) = item[a].quantity
      <4>1. item[a].quantity \in Int /\ 1 \in Int
        BY <1>1
      <4>2. /\ IsFiniteSet(1..item[a].quantity)
            /\ Cardinality(1..item[a].quantity) =
                  IF 1 > item[a].quantity THEN 0 ELSE item[a].quantity - 1 + 1
        BY ONLY <4>1, FS_Interval
      <4> QED BY <1>1, <4>2, SMT
    <3>2. /\ IsFiniteSet(C) /\ Cardinality(C) = 1
          /\ IsFiniteSet(A) /\ Cardinality(A) = 1
      BY FS_Singleton, Zenon
    <3> HIDE DEF Q, C, A
    <3>3. IsFiniteSet(C \X Q) /\ Cardinality(C \X Q) = 1 * item[a].quantity
      <4>1. IsFiniteSet(C \X Q) /\ Cardinality(C \X Q) = Cardinality(C) * Cardinality(Q)
        BY ONLY <3>1, <3>2, FS_Product
      <4> QED BY <3>1, <3>2, <4>1, Zenon
    <3>4. /\ IsFiniteSet(A \X (C \X Q))
          /\ Cardinality(A \X (C \X Q)) = 1 * (1 * item[a].quantity)
      <4> DEFINE CQ == C \X Q
      <4>1. IsFiniteSet(CQ)
        BY <3>3
      <4> HIDE DEF CQ
      <4>2. /\ IsFiniteSet(A \X CQ)
            /\ Cardinality(A \X CQ) = Cardinality(A) * Cardinality(CQ)
        BY ONLY <3>2, <4>1, FS_Product
      <4> QED BY <3>2, <3>3, <4>2, Zenon DEF CQ
    <3>5. 1 * (1 * item[a].quantity) = item[a].quantity
      BY <1>1, SMT
    <3> QED BY <3>4, <3>5, Zenon DEF Q, C, A
  <2> HIDE DEF new
  <2>6. Cardinality(old \union new) =
           Cardinality(old) + Cardinality(new) - Cardinality(old \intersect new)
    BY <1>2, <2>5, FS_Union, Zenon
  <2>7. Cardinality(old \intersect new) = 0
    BY <2>4, FS_EmptySet, Zenon
  <2>8. Cardinality(old \union new) = Cardinality(old) + item[a].quantity
    BY <1>1, <1>2, <2>5, <2>6, <2>7, SMT
  <2>9. Cardinality(Pieces(p, Adds, counted)') = Cardinality(old) + item[a].quantity
    BY <2>3, <2>8, Zenon
  <2> QED BY <1>7, <2>9, Zenon DEF old
<1> QED BY <1>6, <1>7

LEMMA CountStep ==
    ASSUME TypeInv, CountInv, [Next]_vars PROVE CountInv'
<1>1. ASSUME UNCHANGED <<versions, item, counted>>,
             \A a \in Adds : add'[a] = "idle" <=> add[a] = "idle"
      PROVE  CountInv'
  <2>1. \A p : Pieces(p, Adds, counted)' = Pieces(p, Adds, counted)
    BY <1>1, PiecesKept
  <2>2. Sent' = Sent
    BY <1>1 DEF Sent
  <2> QED BY <1>1, <2>1, <2>2 DEF CountInv, Present, Current
<1>2. ASSUME NEW a \in Adds, BeginAdd(a) PROVE CountInv'
  <2>1. /\ counted[a] = 0
        /\ UNCHANGED <<versions, counted>>
        /\ \A b \in Adds : b # a => item'[b] = item[b] /\ add'[b] = add[b]
    BY <1>2 DEF BeginAdd, TypeInv, AddInv, TypeOK
  <2>2. \A p : Pieces(p, Adds, counted)' = Pieces(p, Adds, counted)
    BY <2>1, PiecesKept
  <2>3. IsFiniteSet(Sent')
    <3>1. Sent' \subseteq Sent \union {a}
      BY <2>1 DEF Sent
    <3>2. IsFiniteSet(Sent \union {a})
      BY FS_AddElement DEF CountInv
    <3> QED BY <3>1, <3>2, FS_Subset
  <2> QED BY <2>1, <2>2, <2>3 DEF CountInv, Present, Current
<1>3. ASSUME NEW a \in Adds, Present, add[a] # "idle", Apply(a),
             item' = item, counted' = [counted EXCEPT ![a] = @ + 1],
             \A b \in Adds : add'[b] = "idle" <=> add[b] = "idle"
      PROVE  CountInv'
  <2> DEFINE t == [Current EXCEPT ![item[a].product] = @ + item[a].quantity]
  <2>1. Sent' = Sent /\ IsFiniteSet(Sent)
    BY <1>3 DEF Sent, CountInv
  <2>2. Current \in Tally /\ item[a] \in Item
    BY <1>3, VersionFacts DEF TypeInv, AddInv
  <2>3. item[a].product \in Product /\ item[a].quantity \in Nat
    BY <2>2, ItemFacts
  <2>4. t \in Tally
    <3> HIDE DEF Current
    <3> QED BY <2>2, <2>3, SMT DEF Tally
  <2>5. Current' = t
    <3>1. versions' = Append(versions, t)
      BY <1>3 DEF Apply
    <3> HIDE DEF t
    <3>2. /\ Len(Append(versions, t)) = Len(versions) + 1
          /\ Append(versions, t)[Len(versions) + 1] = t
      BY <2>4, VersionFacts DEF TypeInv
    <3> QED BY <3>1, <3>2, Zenon DEF Current
  <2>6. ASSUME NEW p \in Product
        PROVE  Current'[p] = Cardinality(Pieces(p, Adds, counted))'
    <3>1. Cardinality(Pieces(p, Adds, counted)') =
             Cardinality(Pieces(p, Adds, counted))
                + (IF item[a].product = p THEN item[a].quantity ELSE 0)
      BY <1>3, <2>1, PiecesOfOneMore
    <3>2. Current[p] = Cardinality(Pieces(p, Adds, counted))
      BY <1>3 DEF CountInv
    <3>3. Current[p] \in Nat
      BY <2>2 DEF Tally
    <3>4. t[p] = Current[p] + (IF item[a].product = p THEN item[a].quantity ELSE 0)
      <4> HIDE DEF Current
      <4> QED BY <2>2, <2>3, <3>3, SMT DEF Tally
    <3> HIDE DEF t
    <3> QED BY <2>5, <3>1, <3>2, <3>4, Zenon
  <2> QED BY <2>1, <2>6 DEF CountInv
<1>4. ASSUME create = "idle", versions' \in {<<>>, <<Nothing>>}, UNCHANGED adding
      PROVE  CountInv'
  <2>1. \A a \in Adds : add[a] = "idle"
    BY <1>4 DEF TypeInv, AddInv
  <2>2. Sent' = Sent
    BY <1>4 DEF Sent
  <2>3. \A p : Pieces(p, Adds, counted)' = {}
    BY <1>4, <2>1 DEF Pieces
  <2>4. CASE versions' = <<Nothing>>
    <3>1. Current' = Nothing
      BY <2>4, VersionFacts DEF Current, TypeInv
    <3>2. \A p \in Product : Current'[p] = 0
      BY <3>1 DEF Nothing
    <3> QED BY <2>2, <2>3, <3>2, FS_EmptySet DEF CountInv
  <2>5. CASE versions' = <<>>
    BY <2>2, <2>5 DEF CountInv, Present
  <2> QED BY <1>4, <2>4, <2>5
<1>5. CASE MysqlCreateCart \/ DynamoCreateCart \/ CreateFails
  BY <1>4, <1>5 DEF MysqlCreateCart, DynamoCreateCart, CreateFails
<1>6. ASSUME NEW a \in Adds, MysqlUpsert(a) \/ DynamoUpdateItem(a) PROVE CountInv'
  <2>1. /\ add[a] # "idle" /\ Apply(a) /\ item' = item
        /\ counted' = [counted EXCEPT ![a] = @ + 1]
        /\ add' = [add EXCEPT ![a] = "applied"]
    BY <1>6 DEF MysqlUpsert, DynamoUpdateItem
  <2>2. Present
    BY <2>1 DEF TypeInv, AddInv, CreateInv
  <2>3. \A b \in Adds : add'[b] = "idle" <=> add[b] = "idle"
    BY <2>1 DEF TypeInv, TypeOK
  <2> QED BY <1>3, <2>1, <2>2, <2>3
<1>7. ASSUME NEW a \in Adds,
             MysqlVerify(a) \/ MysqlFails(a) \/ DynamoFails(a) \/ AnswerAdd(a)
      PROVE  CountInv'
  <2>1. UNCHANGED <<versions, item, counted>>
    BY <1>7 DEF MysqlVerify, MysqlFails, DynamoFails, AnswerAdd
  <2>2. /\ add[a] # "idle" /\ add'[a] # "idle"
        /\ \A b \in Adds : b # a => add'[b] = add[b]
    BY <1>7 DEF MysqlVerify, MysqlFails, DynamoFails, AnswerAdd, TypeInv, TypeOK
  <2> QED BY <1>1, <2>1, <2>2
<1>8. ASSUME UNCHANGED <<versions, adding>> PROVE CountInv'
  BY <1>1, <1>8
<1>9. ASSUME NEW g \in Gets, \/ BeginGet(g) \/ MysqlGet(g)
                             \/ DynamoGetItem(g) \/ GetFails(g)
      PROVE  CountInv'
  BY <1>8, <1>9 DEF BeginGet, MysqlGet, MysqlFindCart, MysqlReadItems,
                    MysqlRowsBreak, DynamoGetItem, GetFails
<1>10. CASE Propagate \/ UNCHANGED vars
  BY <1>8, <1>10 DEF Propagate, vars
<1> QED
  BY <1>2, <1>5, <1>6, <1>7, <1>9, <1>10 DEF Next, MysqlAdd, DynamoAdd

LEMMA CountInvariant == Spec => [](TypeInv /\ CountInv)
<1>1. Init => CountInv
  <2>1. Init => Sent = {} /\ ~Present
    BY DEF Init, Sent, Present
  <2> QED BY <2>1, FS_EmptySet DEF CountInv
<1>2. TypeInv /\ CountInv /\ [Next]_vars => CountInv'
  BY CountStep
<1> QED BY TypeInvariant, <1>1, <1>2, PTL DEF Spec

\* The adds answered 204 are in the cart, and what is in it the adds account
\* for, once in MySQL and once for each call in DynamoDB, for every number of
\* concurrent adds, products and quantities, and whatever fails.
THEOREM CartHoldsAdds == Spec => []CartWithinAdds
<1>1. ASSUME TypeInv, CountInv PROVE CartWithinAdds
  <2> SUFFICES ASSUME Present, NEW p \in Product
      PROVE  /\ Cardinality(Pieces(p, {a \in Adds : add[a] = "ok"},
                                   [a \in Adds |-> 1])) <= Current[p]
             /\ Current[p] <=
                  Cardinality(Pieces(p, {a \in Adds : add[a] # "begun" \/ attempts[a] > 0},
                                     [a \in Adds |-> 1 + attempts[a]]))
    BY DEF CartWithinAdds
  <2> DEFINE acked == {a \in Adds : add[a] = "ok"}
             tried == {a \in Adds : add[a] # "begun" \/ attempts[a] > 0}
             once  == [a \in Adds |-> 1]
             calls == [a \in Adds |-> 1 + attempts[a]]
             low   == Pieces(p, acked, once)
             held  == Pieces(p, Adds, counted)
             high  == Pieces(p, tried, calls)
  <2>1. /\ counted \in [Adds -> Nat] /\ calls \in [Adds -> Nat]
        /\ tried \subseteq Adds
    BY <1>1, CartsAssumption, SMT DEF TypeInv, TypeOK
  <2>2. IsFiniteSet(held) /\ IsFiniteSet(high)
    BY <1>1, <2>1, PiecesFinite DEF CountInv
  <2>3. low \subseteq held
    <3> SUFFICES ASSUME NEW x \in low PROVE x \in held
      OBVIOUS
    <3>1. PICK b \in acked : PieceOf(x, p, b, once[b])
      BY IsPiece, Zenon
    <3>2. counted[b] > 0 /\ counted[b] \in Nat /\ once[b] = 1
      BY <1>1, <2>1, <3>1 DEF TypeInv, AddInv
    <3>3. 1..once[b] \subseteq 1..counted[b]
      BY <3>2, SMT
    <3>4. PieceOf(x, p, b, counted[b])
      BY <3>1, <3>3, Zenon DEF PieceOf
    <3> QED BY <3>1, <3>4, IsPiece, Zenon
  <2>4. held \subseteq high
    <3> SUFFICES ASSUME NEW x \in held PROVE x \in high
      OBVIOUS
    <3>1. PICK b \in Adds : PieceOf(x, p, b, counted[b])
      BY IsPiece, Zenon
    <3>2. 0 < counted[b] /\ counted[b] <= attempts[b] + 1
          /\ (add[b] = "begun" => counted[b] <= attempts[b])
      <4>1. PICK k \in 1..counted[b] : TRUE
        BY <3>1 DEF PieceOf
      <4> QED BY <1>1, <2>1, <4>1, SMT DEF TypeInv, AddInv
    <3>3. attempts[b] \in Nat /\ counted[b] \in Nat /\ calls[b] = 1 + attempts[b]
      BY <1>1, CartsAssumption, SMT DEF TypeInv, TypeOK
    <3>4. b \in tried
      BY <3>2, <3>3, SMT
    <3>5. 1..counted[b] \subseteq 1..calls[b]
      BY <3>2, <3>3, SMT
    <3>6. PieceOf(x, p, b, calls[b])
      BY <3>1, <3>5, Zenon DEF PieceOf
    <3> QED BY <3>4, <3>6, IsPiece, Zenon
  <2>5. Current[p] = Cardinality(held)
    BY <1>1 DEF CountInv
  <2> HIDE DEF low, held, high
  <2>6. Cardinality(low) <= Cardinality(held)
    BY <2>2, <2>3, FS_Subset
  <2>7. Cardinality(held) <= Cardinality(high)
    BY <2>2, <2>4, FS_Subset
  <2>8. Cardinality(low) <= Current[p] /\ Current[p] <= Cardinality(high)
    BY <2>5, <2>6, <2>7, Zenon
  <2> QED BY <2>8, Zenon DEF low, high
<1> QED BY <1>1, CountInvariant, PTL

-----------------------------------------------------------------------------

(* The service keeps the ledger.                                           *)

\* What the ledger's variables stand for.
Shows     == IF database = "mysql" THEN {Stored} ELSE Past
LedgerAdds   == [a \in Adds |-> LedgerAdd(a)]
LedgerGets   == [g \in Gets |-> LedgerGet(g)]
LedgerShowns == [g \in Gets |-> LedgerShown(g)]

LEMMA LedgerInit == Init => Ledger!Init
<1> SUFFICES ASSUME Init PROVE Ledger!Init
  OBVIOUS
<1>1. Stored = Nothing
  BY DEF Init, Stored, Present
<1>2. Past = {Nothing}
  <2>1. Len(versions) = 0
    BY EmptySeq DEF Init
  <2>2. \A k \in 1..Len(versions) : FALSE
    BY <2>1, SMT
  <2> QED BY <2>2 DEF Past
<1>3. /\ LedgerAdds = [a \in Adds |-> "idle"]
      /\ LedgerGets = [g \in Gets |-> "idle"]
      /\ LedgerShowns = [g \in Gets |-> Nothing]
  BY DEF Init, LedgerAdds, LedgerAdd, LedgerGets, LedgerGet, LedgerShowns, LedgerShown
<1> QED
  BY <1>1, <1>2, <1>3
     DEF Init, Ledger!Init, Ledger!Nothing, Nothing, LedgerAdds, LedgerGets, LedgerShowns

\* What a write does to the ledger's tally and to what its GETs may show.
LEMMA ApplyCounts ==
    ASSUME TypeInv, NEW a \in Adds, Present, item[a] \in Item, Apply(a),
           database' = database
    PROVE  /\ Stored' = Ledger!Plus(Stored, item[a])
           /\ Shows' = IF database = "mysql" THEN {Stored'}
                       ELSE Shows \union {Stored'}
<1> DEFINE t == [Current EXCEPT ![item[a].product] = @ + item[a].quantity]
           n == Len(versions)
<1>1. t \in Tally
  <2>1. Current \in Tally
    BY VersionFacts DEF TypeInv
  <2>2. item[a].product \in Product /\ item[a].quantity \in Nat
    BY ItemFacts
  <2> HIDE DEF Current
  <2> QED BY <2>1, <2>2, SMT DEF Tally
<1>2. /\ versions' = Append(versions, t)
      /\ Ledger!Plus(Current, item[a]) = t
  BY DEF Apply, Ledger!Plus
<1> HIDE DEF t
<1>3. /\ n \in Nat
      /\ versions' # <<>> /\ Len(versions') = n + 1
      /\ versions'[n + 1] = t
      /\ \A k \in 1..n : versions'[k] = versions[k]
  BY <1>1, <1>2, VersionFacts DEF TypeInv
<1>4. Stored = Current /\ Stored' = t
  BY <1>3 DEF Stored, Present, Current
<1>5. Past' = Past \union {t}
  <2>1. 1..(n + 1) = (1..n) \union {n + 1}
    BY <1>3, SMT
  <2> HIDE DEF n
  <2>2. {versions'[k] : k \in 1..(n + 1)} = {versions[k] : k \in 1..n} \union {t}
    BY <1>3, <2>1
  <2> QED BY <1>3, <2>2 DEF Past, n
<1> QED BY <1>2, <1>4, <1>5 DEF Shows

LEMMA LedgerStep ==
    ASSUME TypeInv, [Next]_vars
    PROVE  [Ledger!Next]_(Ledger!vars)
<1> DEFINE kept == UNCHANGED <<database, Stored, Shows>>
<1> USE DEF LedgerAdds, LedgerGets, LedgerShowns
<1>1. ASSUME UNCHANGED <<database, versions>> PROVE kept
  BY <1>1 DEF Stored, Shows, Past, Present, Current
<1>2. ASSUME UNCHANGED <<add, counted>> PROVE UNCHANGED LedgerAdds
  BY <1>2 DEF LedgerAdd
<1>3. ASSUME UNCHANGED <<database, get, shown>>
      PROVE  UNCHANGED <<LedgerGets, LedgerShowns>>
  BY <1>3 DEF LedgerGet, LedgerShown, Answered
<1>4. ASSUME kept, UNCHANGED <<item, LedgerAdds, LedgerGets, LedgerShowns>>
      PROVE  UNCHANGED Ledger!vars
  BY <1>4 DEF Ledger!vars, Shows
<1>5. ASSUME UNCHANGED <<database, versions, adding, reading>>
      PROVE  UNCHANGED Ledger!vars
  BY <1>1, <1>2, <1>3, <1>4, <1>5
<1>6. CASE MysqlCreateCart \/ DynamoCreateCart \/ CreateFails
  <2>1. /\ ~Present /\ versions' \in {<<>>, <<Nothing>>}
        /\ UNCHANGED <<database, adding, reading>>
    BY <1>6 DEF MysqlCreateCart, DynamoCreateCart, CreateFails, TypeInv, CreateInv
  <2>2. Stored = Nothing /\ Past = {Nothing}
    <3>1. \A k \in 1..Len(versions) : FALSE
      <4>1. Len(versions) = 0
        BY <2>1, EmptySeq DEF Present
      <4> QED BY <4>1, SMT
    <3> QED BY <2>1, <3>1 DEF Stored, Past
  <2>3. Stored' = Nothing /\ Past' = {Nothing}
    <3>1. CASE versions' = <<>>
      <4>1. \A k \in 1..Len(versions') : FALSE
        BY <3>1, EmptySeq, SMT
      <4> QED BY <3>1, <4>1 DEF Stored, Past, Present
    <3>2. CASE versions' = <<Nothing>>
      <4>1. Len(versions') = 1 /\ versions'[1] = Nothing
        BY <3>2, VersionFacts DEF TypeInv
      <4>2. \A k : k \in 1..Len(versions') <=> k = 1
        BY <4>1, SMT
      <4> QED BY <4>1, <4>2 DEF Stored, Past, Current, Nothing
    <3> QED BY <2>1, <3>1, <3>2
  <2>4. kept
    BY <2>1, <2>2, <2>3 DEF Shows
  <2> QED BY <1>2, <1>3, <1>4, <2>1, <2>4
<1>7. ASSUME NEW a \in Adds, BeginAdd(a) PROVE Ledger!Next
  <2>1. PICK i \in Item : item' = [item EXCEPT ![a] = i]
    BY <1>7 DEF BeginAdd
  <2>2. /\ add[a] = "idle" /\ add' = [add EXCEPT ![a] = "begun"]
        /\ counted[a] = 0
        /\ UNCHANGED <<database, versions, counted, reading>>
    BY <1>7 DEF BeginAdd, TypeInv, AddInv
  <2>3. LedgerAdd(a) = "idle" /\ LedgerAdd(a)' = "open"
    BY <2>2 DEF LedgerAdd, TypeInv, TypeOK
  <2>4. \A b \in Adds : b # a => LedgerAdd(b)' = LedgerAdd(b)
    BY <2>2 DEF LedgerAdd, TypeInv, TypeOK
  <2>5. LedgerAdds' = [LedgerAdds EXCEPT ![a] = "open"]
    BY <2>3, <2>4
  <2>6. kept /\ UNCHANGED <<LedgerGets, LedgerShowns>>
    BY <1>1, <1>3, <2>2
  <2>7. Ledger!Send(a)
    BY <2>1, <2>3, <2>5, <2>6 DEF Ledger!Send, Ledger!Item, Item, Shows
  <2> QED BY <2>7 DEF Ledger!Next
<1>8. ASSUME NEW a \in Adds, MysqlUpsert(a) \/ DynamoUpdateItem(a) PROVE Ledger!Next
  <2>1. /\ Apply(a) /\ add' = [add EXCEPT ![a] = "applied"]
        /\ counted' = [counted EXCEPT ![a] = @ + 1]
        /\ add[a] \in {"begun", "verified"}
        /\ UNCHANGED <<database, item, reading>>
    BY <1>8 DEF MysqlUpsert, DynamoUpdateItem
  <2>2. Present /\ item[a] \in Item /\ counted[a] \in Nat
    BY <2>1 DEF TypeInv, TypeOK, AddInv, CreateInv
  <2>3. database = "mysql" => counted[a] = 0
    BY <2>1, <2>2, SMT DEF TypeInv, AddInv
  <2>4. counted'[a] > 0 /\ add'[a] = "applied"
    BY <2>1, <2>2, SMT DEF TypeInv, TypeOK
  <2>5. /\ LedgerAdd(a) = "open" \/ (LedgerAdd(a) = "counted" /\ ~(database = "mysql"))
        /\ LedgerAdd(a)' = "counted"
    BY <2>1, <2>2, <2>3, <2>4, SMT DEF LedgerAdd
  <2>6. \A b \in Adds : b # a => LedgerAdd(b)' = LedgerAdd(b)
    BY <2>1 DEF LedgerAdd, TypeInv, TypeOK
  <2>7. LedgerAdds' = [LedgerAdds EXCEPT ![a] = "counted"]
    BY <2>5, <2>6
  <2>8. UNCHANGED <<LedgerGets, LedgerShowns>>
    BY <1>3, <2>1
  <2>9. /\ Stored' = Ledger!Plus(Stored, item[a])
        /\ Shows' = IF database = "mysql" THEN {Stored'} ELSE Shows \union {Stored'}
    BY <2>1, <2>2, ApplyCounts
  <2>10. Ledger!Count(a)
    BY <2>1, <2>5, <2>7, <2>8, <2>9 DEF Ledger!Count, Shows
  <2> QED BY <2>10 DEF Ledger!Next
<1>9. ASSUME NEW a \in Adds,
             \/ LedgerAdd(a) = "counted" /\ add'[a] = "ok"
             \/ LedgerAdd(a) \in {"open", "counted"} /\ add'[a] = "error",
             \A b \in Adds : b # a => add'[b] = add[b],
             UNCHANGED <<database, versions, item, counted, reading>>
      PROVE  Ledger!Next
  <2>1. LedgerAdd(a)' = add'[a]
    BY <1>9 DEF LedgerAdd
  <2>2. \A b \in Adds : b # a => LedgerAdd(b)' = LedgerAdd(b)
    BY <1>9 DEF LedgerAdd
  <2>3. LedgerAdds' = [LedgerAdds EXCEPT ![a] = add'[a]]
    BY <2>1, <2>2
  <2>4. kept /\ UNCHANGED <<LedgerGets, LedgerShowns>>
    BY <1>1, <1>3, <1>9
  <2>5. Ledger!Answer(a)
    BY <1>9, <2>3, <2>4 DEF Ledger!Answer, Shows
  <2> QED BY <2>5 DEF Ledger!Next
<1>10. ASSUME NEW a \in Adds, LedgerAdd(a)' = LedgerAdd(a),
              \A b \in Adds : b # a => add'[b] = add[b],
              UNCHANGED <<database, versions, item, counted, reading>>
      PROVE  UNCHANGED Ledger!vars
  <2>1. \A b \in Adds : LedgerAdd(b)' = LedgerAdd(b)
    BY <1>10 DEF LedgerAdd
  <2> QED BY <1>1, <1>3, <1>4, <1>10, <2>1
<1>11. ASSUME NEW a \in Adds,
              MysqlVerify(a) \/ MysqlFails(a) \/ DynamoFails(a) \/ AnswerAdd(a)
       PROVE  Ledger!Next \/ UNCHANGED Ledger!vars
  <2>1. /\ UNCHANGED <<database, versions, item, counted, reading>>
        /\ \A b \in Adds : b # a => add'[b] = add[b]
    BY <1>11 DEF MysqlVerify, MysqlFails, DynamoFails, AnswerAdd, TypeInv, TypeOK
  <2>2. \/ add[a] = "applied" /\ add'[a] = "ok"
        \/ add[a] \in {"begun", "verified", "applied"} /\ add'[a] = "error"
        \/ /\ add[a] \in {"begun", "verified", "applied"}
           /\ add'[a] \in {"begun", "verified", "applied"}
    BY <1>11 DEF MysqlVerify, MysqlFails, DynamoFails, AnswerAdd, TypeInv, TypeOK
  <2>3. CASE add[a] = "applied" /\ add'[a] = "ok"
    <3>1. LedgerAdd(a) = "counted"
      BY <2>3 DEF LedgerAdd, TypeInv, AddInv
    <3>2. LedgerAdd(a) = "counted" /\ add'[a] = "ok"
      BY <2>3, <3>1
    <3> QED BY <1>9, <2>1, <3>2
  <2>4. CASE add[a] \in {"begun", "verified", "applied"} /\ add'[a] = "error"
    <3>1. LedgerAdd(a) \in {"open", "counted"}
      BY <2>4 DEF LedgerAdd
    <3> QED BY <1>9, <2>1, <2>4, <3>1
  <2>5. CASE /\ add[a] \in {"begun", "verified", "applied"}
             /\ add'[a] \in {"begun", "verified", "applied"}
    <3>1. LedgerAdd(a)' = LedgerAdd(a)
      BY <2>1, <2>5 DEF LedgerAdd
    <3> QED BY <1>10, <2>1, <3>1
  <2> QED BY <2>2, <2>3, <2>4, <2>5
<1>12. ASSUME NEW g \in Gets, BeginGet(g) PROVE Ledger!Next
  <2>1. /\ UNCHANGED <<database, versions, adding, shown>>
        /\ get[g] = "idle" /\ get' = [get EXCEPT ![g] = "begun"]
    BY <1>12 DEF BeginGet
  <2>2. LedgerGet(g) = "idle" /\ LedgerGet(g)' = "open"
    BY <2>1 DEF LedgerGet, TypeInv, TypeOK
  <2>3. \A h \in Gets : h # g => LedgerGet(h)' = LedgerGet(h)
    BY <2>1 DEF LedgerGet, TypeInv, TypeOK
  <2>4. \A h \in Gets : LedgerShown(h)' = LedgerShown(h)
    BY <2>1 DEF LedgerShown, Answered, TypeInv, TypeOK
  <2>5. LedgerGets' = [LedgerGets EXCEPT ![g] = "open"] /\ UNCHANGED LedgerShowns
    BY <2>2, <2>3, <2>4
  <2>6. kept /\ UNCHANGED <<item, LedgerAdds>>
    BY <1>1, <1>2, <2>1
  <2>7. Ledger!Ask(g)
    BY <2>2, <2>5, <2>6 DEF Ledger!Ask, Shows
  <2> QED BY <2>7 DEF Ledger!Next
<1>13. ASSUME NEW g \in Gets, get[g] \in {"begun", "found"},
              get'[g] \in {"truncated", "error"},
              \A h \in Gets : h # g => get'[h] = get[h] /\ shown'[h] = shown[h],
              UNCHANGED <<database, versions, adding>>
       PROVE  Ledger!Next
  <2>1. LedgerGet(g) = "open" /\ LedgerGet(g)' = "failed"
    BY <1>13 DEF LedgerGet
  <2>2. \A h \in Gets : h # g => LedgerGet(h)' = LedgerGet(h)
    BY <1>13 DEF LedgerGet
  <2>3. \A h \in Gets : LedgerShown(h)' = LedgerShown(h)
    BY <1>13 DEF LedgerShown, Answered
  <2>4. LedgerGets' = [LedgerGets EXCEPT ![g] = "failed"] /\ UNCHANGED LedgerShowns
    BY <2>1, <2>2, <2>3
  <2>5. kept /\ UNCHANGED <<item, LedgerAdds>>
    BY <1>1, <1>2, <1>13
  <2>6. Ledger!Fail(g)
    BY <2>1, <2>4, <2>5 DEF Ledger!Fail, Shows
  <2> QED BY <2>6 DEF Ledger!Next
<1>14. ASSUME NEW g \in Gets, get[g] \in {"begun", "found"}, get'[g] = "done",
              shown'[g] \in Shows,
              \A h \in Gets : h # g => get'[h] = get[h] /\ shown'[h] = shown[h],
              UNCHANGED <<database, versions, adding>>
       PROVE  Ledger!Next
  <2>1. LedgerGet(g) = "open" /\ LedgerGet(g)' = "shown"
    BY <1>14 DEF LedgerGet
  <2>2. \A h \in Gets : h # g => LedgerGet(h)' = LedgerGet(h)
    BY <1>14 DEF LedgerGet
  <2>3. \A h \in Gets : h # g => LedgerShown(h)' = LedgerShown(h)
    BY <1>14 DEF LedgerShown, Answered
  <2>4. LedgerShown(g)' = IF database = "mysql" THEN shown'[g]
                          ELSE Ledger!Unnamed(shown'[g])
    <3>1. LedgerShown(g)' = Answered(g)' /\ database' = database
      BY <1>14 DEF LedgerShown
    <3>2. Answered(g)' = IF database' = "mysql" THEN shown'[g]
                         ELSE Ledger!Unnamed(shown'[g])
      <4>1. \A S : Ledger!Cardinality(S) = Cardinality(S)
        BY Zenon DEF Cardinality, Ledger!Cardinality
      <4> QED BY <4>1, SMT DEF Answered, Ledger!Unnamed
    <3> QED BY <3>1, <3>2, Zenon
  <2>5. LedgerGets' = [LedgerGets EXCEPT ![g] = "shown"]
    BY <2>1, <2>2
  <2>6. LedgerShowns' = [LedgerShowns EXCEPT ![g] =
                           IF database = "mysql" THEN shown'[g]
                           ELSE Ledger!Unnamed(shown'[g])]
    BY <2>3, <2>4
  <2>7. kept /\ UNCHANGED <<item, LedgerAdds>>
    BY <1>1, <1>2, <1>14
  <2>8. Ledger!Show(g)
    BY <1>14, <2>1, <2>5, <2>6, <2>7 DEF Ledger!Show, Shows
  <2> QED BY <2>8 DEF Ledger!Next
<1>15. ASSUME NEW g \in Gets, MysqlFindCart(g)
       PROVE  Ledger!Next \/ UNCHANGED Ledger!vars
  <2>1. /\ UNCHANGED <<database, versions, adding, shown>>
        /\ get[g] = "begun" /\ get'[g] \in {"found", "error"}
        /\ \A h \in Gets : h # g => get'[h] = get[h]
    BY <1>15 DEF MysqlFindCart, TypeInv, TypeOK
  <2>2. CASE get'[g] = "error"
    BY <1>13, <2>1, <2>2
  <2>3. CASE get'[g] = "found"
    <3>1. \A h \in Gets : /\ LedgerGet(h)' = LedgerGet(h)
                          /\ LedgerShown(h)' = LedgerShown(h)
      BY <2>1, <2>3 DEF LedgerGet, LedgerShown, Answered
    <3> QED BY <1>1, <1>2, <1>4, <2>1, <3>1
  <2> QED BY <2>1, <2>2, <2>3
<1>16. ASSUME NEW g \in Gets, MysqlReadItems(g) PROVE Ledger!Next
  <2>1. /\ UNCHANGED <<database, versions, adding>>
        /\ get[g] = "found" /\ get'[g] = "done" /\ shown'[g] = Current
        /\ \A h \in Gets : h # g => get'[h] = get[h] /\ shown'[h] = shown[h]
        /\ database = "mysql"
    BY <1>16 DEF MysqlReadItems, TypeInv, TypeOK
  <2>2. Current \in Shows
    BY <2>1 DEF Shows, Stored, TypeInv, CreateInv
  <2> QED BY <1>14, <2>1, <2>2
<1>17. ASSUME NEW g \in Gets, MysqlRowsBreak(g) \/ GetFails(g) PROVE Ledger!Next
  <2>1. /\ UNCHANGED <<database, versions, adding>>
        /\ get[g] \in {"begun", "found"} /\ get'[g] \in {"truncated", "error"}
        /\ \A h \in Gets : h # g => get'[h] = get[h] /\ shown'[h] = shown[h]
    BY <1>17 DEF MysqlRowsBreak, GetFails, TypeInv, TypeOK
  <2> QED BY <1>13, <2>1
<1>18. ASSUME NEW g \in Gets, DynamoGetItem(g) PROVE Ledger!Next
  <2>1. PICK n \in {replica, Len(versions)} :
           IF n = 0
           THEN /\ get' = [get EXCEPT ![g] = "error"]
                /\ UNCHANGED shown
           ELSE /\ get' = [get EXCEPT ![g] = "done"]
                /\ shown' = [shown EXCEPT ![g] = versions[n]]
    BY <1>18, Zenon DEF DynamoGetItem
  <2>2. /\ UNCHANGED <<database, versions, adding>>
        /\ get[g] = "begun" /\ database = "dynamo"
    BY <1>18 DEF DynamoGetItem
  <2>3. CASE n = 0
    <3>1. get' = [get EXCEPT ![g] = "error"] /\ shown' = shown
      BY <2>1, <2>3, Zenon
    <3>2. /\ get'[g] = "error"
          /\ \A h \in Gets : h # g => get'[h] = get[h] /\ shown'[h] = shown[h]
      BY <3>1 DEF TypeInv, TypeOK
    <3> QED BY <1>13, <2>2, <3>2
  <2>4. CASE n # 0
    <3>1. /\ get' = [get EXCEPT ![g] = "done"]
          /\ shown' = [shown EXCEPT ![g] = versions[n]]
      BY <2>1, <2>4, Zenon
    <3>2. /\ get'[g] = "done" /\ shown'[g] = versions[n]
          /\ \A h \in Gets : h # g => get'[h] = get[h] /\ shown'[h] = shown[h]
      BY <3>1 DEF TypeInv, TypeOK
    <3>3. n \in 1..Len(versions)
      <4>1. Len(versions) \in Nat /\ replica \in 0..Len(versions)
        BY VersionFacts DEF TypeInv, TypeOK
      <4> QED BY <2>1, <2>4, <4>1, SMT
    <3>4. versions[n] \in Shows
      BY <2>2, <3>3 DEF Shows, Past
    <3> QED BY <1>14, <2>2, <3>2, <3>4
  <2> QED BY <2>3, <2>4
<1>19. CASE Propagate \/ UNCHANGED vars
  BY <1>5, <1>19 DEF Propagate, vars
<1> QED
  BY <1>6, <1>7, <1>8, <1>11, <1>12, <1>15, <1>16, <1>17, <1>18, <1>19
     DEF Next, MysqlAdd, DynamoAdd, MysqlGet

\* Either database keeps the ledger: an add answered 204 has counted between
\* its request and its answer, in MySQL exactly once; a GET answered in full
\* shows the MySQL cart of one moment while it ran, or the quantities of one
\* past state of the DynamoDB cart.  For every number of requests and faults.
THEOREM CartKeepsLedger == Spec => ImplementsLedger
<1>1. TypeInv /\ [Next]_vars => [Ledger!Next]_(Ledger!vars)
  BY LedgerStep
<1> QED BY TypeInvariant, LedgerInit, <1>1, PTL DEF Spec, ImplementsLedger, Ledger!Spec
=============================================================================
