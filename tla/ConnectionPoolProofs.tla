------------------------ MODULE ConnectionPoolProofs ------------------------
(***************************************************************************)
(* Proofs about ConnectionPool for any number of requests and any size of  *)
(* the pool: no connection is lost or used twice.  To count, the invariant *)
(* has to know that the queue names every waiting request once; TypeOK     *)
(* alone does not bound free, so the two are proved together.              *)
(***************************************************************************)
EXTENDS ConnectionPool, FiniteSetTheorems, TLAPS

Holders == {r \in Requests : pc[r] \notin {"idle", "waiting"}} \cup WaitingInside
Inner == {r \in Requests : pc[r] = "inner"}
Queued == {r \in Requests : Waiting(r)}

Counted == free + Cardinality(Holders) + Cardinality(Inner) = PoolSize

QueuedOnce ==
    /\ \A i \in 1..Len(queue) : queue[i] \in Queued
    /\ \A r \in Queued : \E i \in 1..Len(queue) : queue[i] = r
    /\ \A i, j \in 1..Len(queue) : queue[i] = queue[j] => i = j
    /\ Len(queue) = Cardinality(Queued)

NobodyWaitsInVain == queue # <<>> => free = 0

IInv == TypeOK /\ Counted /\ QueuedOnce /\ NobodyWaitsInVain

LEMMA SetsFinite ==
    /\ Holders \subseteq Requests /\ Inner \subseteq Requests /\ Queued \subseteq Requests
    /\ IsFiniteSet(Holders) /\ IsFiniteSet(Inner) /\ IsFiniteSet(Queued)
    /\ Cardinality(Holders) \in Nat /\ Cardinality(Inner) \in Nat /\ Cardinality(Queued) \in Nat
<1>1. Holders \subseteq Requests /\ Inner \subseteq Requests /\ Queued \subseteq Requests
  BY DEF Holders, Inner, Queued, WaitingInside
<1> HIDE DEF Holders, Inner, Queued
<1>2. IsFiniteSet(Holders) /\ IsFiniteSet(Inner) /\ IsFiniteSet(Queued)
  BY <1>1, FS_Subset, PoolConstants
<1> QED BY <1>1, <1>2, FS_CardinalityType

(***************************************************************************)
(* The queue                                                               *)
(***************************************************************************)
LEMMA QueueGrows ==
    ASSUME IInv, NEW r \in Requests \ Queued, queue' = Append(queue, r),
           Queued' = Queued \cup {r}
    PROVE  QueuedOnce'
<1>1. queue \in Seq(Requests)
  BY DEF IInv, TypeOK
<1>2. /\ Len(queue') = Len(queue) + 1
      /\ \A i \in 1..Len(queue) : queue'[i] = queue[i]
      /\ queue'[Len(queue) + 1] = r /\ Len(queue) \in Nat
  BY <1>1
<1>3. Cardinality(Queued') = Cardinality(Queued) + 1
  BY SetsFinite, FS_AddElement
<1>4. Len(queue') = Cardinality(Queued')
  BY <1>2, <1>3 DEF IInv, QueuedOnce
<1>5. \A i \in 1..Len(queue') : queue'[i] \in Queued'
  BY <1>2 DEF IInv, QueuedOnce
<1>6. \A q \in Queued' : \E i \in 1..Len(queue') : queue'[i] = q
  BY <1>2 DEF IInv, QueuedOnce
<1>7. \A i, j \in 1..Len(queue') : queue'[i] = queue'[j] => i = j
  BY <1>2 DEF IInv, QueuedOnce
<1> QED BY <1>4, <1>5, <1>6, <1>7 DEF QueuedOnce

LEMMA QueueHead ==
    ASSUME IInv, queue # <<>>
    PROVE  Head(queue) \in Queued /\ Head(queue) = queue[1] /\ Len(queue) \in Nat \ {0}
<1>1. queue \in Seq(Requests) /\ Len(queue) \in Nat \ {0} /\ Head(queue) = queue[1]
  BY DEF IInv, TypeOK
<1> QED BY <1>1 DEF IInv, QueuedOnce

LEMMA QueueShrinks ==
    ASSUME IInv, queue # <<>>, queue' = Tail(queue), Queued' = Queued \ {Head(queue)}
    PROVE  QueuedOnce'
<1>1. queue \in Seq(Requests) /\ Len(queue) \in Nat \ {0} /\ Head(queue) = queue[1]
  BY QueueHead DEF IInv, TypeOK
<1>2. /\ Len(queue') = Len(queue) - 1
      /\ \A i \in 1..Len(queue') : queue'[i] = queue[i + 1]
  BY <1>1
<1>3. Cardinality(Queued') = Cardinality(Queued) - 1
  BY QueueHead, SetsFinite, FS_RemoveElement
<1>4. Len(queue') = Cardinality(Queued')
  BY <1>2, <1>3 DEF IInv, QueuedOnce
<1>5. \A i \in 1..Len(queue') : queue'[i] \in Queued'
  BY <1>1, <1>2 DEF IInv, QueuedOnce
<1>6. ASSUME NEW q \in Queued'
      PROVE  \E i \in 1..Len(queue') : queue'[i] = q
  <2>1. PICK i \in 1..Len(queue) : queue[i] = q
    BY <1>6 DEF IInv, QueuedOnce
  <2>2. i # 1 /\ i - 1 \in 1..Len(queue')
    BY <1>1, <1>2, <1>6, <2>1
  <2>3. queue'[i - 1] = q
    BY <1>2, <2>1, <2>2
  <2> QED BY <2>2, <2>3
<1>7. \A i, j \in 1..Len(queue') : queue'[i] = queue'[j] => i = j
  BY <1>1, <1>2 DEF IInv, QueuedOnce
<1> QED BY <1>4, <1>5, <1>6, <1>7 DEF QueuedOnce

LEMMA QueueStays ==
    ASSUME QueuedOnce, UNCHANGED queue, Queued' = Queued
    PROVE  QueuedOnce'
BY DEF QueuedOnce

(***************************************************************************)
(* Connections taken                                                       *)
(***************************************************************************)
\* A free connection goes to a request that waits for none.
LEMMA TakeFree ==
    ASSUME IInv, NEW r \in Requests, NEW next \in {"reading", "locking", "inside", "inner"},
           pc[r] = (IF next = "inner" THEN "inside" ELSE "idle"),
           free > 0, Take(r, next), UNCHANGED lock
    PROVE  IInv'
<1>1. /\ free' = free - 1 /\ pc' = [pc EXCEPT ![r] = next] /\ UNCHANGED <<wants, queue>>
  BY DEF Take
<1>2. TypeOK'
  BY <1>1, PoolConstants DEF IInv, TypeOK, PC
<1>3. Queued' = Queued
  BY <1>1 DEF IInv, TypeOK, Queued, Waiting
<1>4. QueuedOnce'
  BY <1>1, <1>3, QueueStays DEF IInv
<1>5. NobodyWaitsInVain'
  BY <1>1 DEF IInv, TypeOK, NobodyWaitsInVain
<1>6. Counted'
  <2>1. CASE next = "inner"
    <3>1. Holders' = Holders /\ Inner' = Inner \cup {r} /\ r \notin Inner
      BY <1>1, <2>1 DEF IInv, TypeOK, Holders, Inner, WaitingInside, Waiting
    <3> HIDE DEF Holders, Inner
    <3>2. Cardinality(Inner') = Cardinality(Inner) + 1
      BY <3>1, SetsFinite, FS_AddElement
    <3> QED BY <1>1, <3>1, <3>2, SetsFinite DEF Counted, IInv, TypeOK
  <2>2. CASE next # "inner"
    <3>1. Holders' = Holders \cup {r} /\ r \notin Holders /\ Inner' = Inner
      BY <1>1, <2>2 DEF IInv, TypeOK, Holders, Inner, WaitingInside, Waiting
    <3> HIDE DEF Holders, Inner
    <3>2. Cardinality(Holders') = Cardinality(Holders) + 1
      BY <3>1, SetsFinite, FS_AddElement
    <3> QED BY <1>1, <3>1, <3>2, SetsFinite DEF Counted, IInv, TypeOK
  <2> QED BY <2>1, <2>2
<1> QED BY <1>2, <1>4, <1>5, <1>6 DEF IInv

\* Without a free connection the request joins the queue; a transaction keeps its own.
LEMMA TakeInTurn ==
    ASSUME IInv, NEW r \in Requests, NEW next \in {"reading", "locking", "inside", "inner"},
           pc[r] = (IF next = "inner" THEN "inside" ELSE "idle"),
           ~(free > 0), Take(r, next), UNCHANGED lock
    PROVE  IInv'
<1>1. /\ queue' = Append(queue, r) /\ pc' = [pc EXCEPT ![r] = "waiting"]
      /\ wants' = [wants EXCEPT ![r] = next] /\ UNCHANGED free
  BY DEF Take
<1>2. TypeOK'
  BY <1>1 DEF IInv, TypeOK, PC
<1>3. Queued' = Queued \cup {r} /\ r \notin Queued
  BY <1>1 DEF IInv, TypeOK, Queued, Waiting
<1>4. QueuedOnce'
  BY <1>1, <1>3, QueueGrows
<1>5. NobodyWaitsInVain'
  BY <1>1 DEF IInv, TypeOK, NobodyWaitsInVain
<1>6. Holders' = Holders /\ Inner' = Inner
  BY <1>1 DEF IInv, TypeOK, Holders, Inner, WaitingInside, Waiting
<1>7. Counted'
  BY <1>1, <1>6 DEF Counted, IInv
<1> QED BY <1>2, <1>4, <1>5, <1>7 DEF IInv

LEMMA TakeStep ==
    ASSUME IInv, NEW r \in Requests, NEW next \in {"reading", "locking", "inside", "inner"},
           pc[r] = (IF next = "inner" THEN "inside" ELSE "idle"),
           Take(r, next), UNCHANGED lock
    PROVE  IInv'
BY TakeFree, TakeInTurn

(***************************************************************************)
(* Connections given back                                                  *)
(***************************************************************************)
\* What r gives up: its only connection when it ends, the inner one when it goes on.
Gives(r, next) ==
    \/ next = "idle" /\ pc[r] \in {"reading", "locking", "inside", "ending"}
    \/ next = "ending" /\ pc[r] = "inner"

LEMMA GiveFree ==
    ASSUME IInv, NEW r \in Requests, NEW next, Gives(r, next), queue = <<>>,
           Give(r, next), lock' \in Requests \cup {Nobody}
    PROVE  IInv'
<1>1. /\ free' = free + 1 /\ pc' = [pc EXCEPT ![r] = next] /\ UNCHANGED <<queue, wants>>
  BY DEF Give
<1>2. Queued' = Queued
  BY <1>1 DEF IInv, TypeOK, Queued, Waiting, Gives
<1>3. QueuedOnce'
  BY <1>1, <1>2, QueueStays DEF IInv
<1>4. NobodyWaitsInVain'
  BY <1>1 DEF NobodyWaitsInVain
<1>5. Counted'
  <2>1. CASE next = "idle"
    <3>1. Holders' = Holders \ {r} /\ r \in Holders /\ Inner' = Inner
      BY <1>1, <2>1 DEF IInv, TypeOK, Holders, Inner, WaitingInside, Waiting, Gives
    <3> HIDE DEF Holders, Inner
    <3>2. Cardinality(Holders') = Cardinality(Holders) - 1
      BY <3>1, SetsFinite, FS_RemoveElement
    <3> QED BY <1>1, <3>1, <3>2, SetsFinite DEF Counted, IInv, TypeOK
  <2>2. CASE next = "ending"
    <3>1. Holders' = Holders /\ Inner' = Inner \ {r} /\ r \in Inner
      BY <1>1, <2>2 DEF IInv, TypeOK, Holders, Inner, WaitingInside, Waiting, Gives
    <3> HIDE DEF Holders, Inner
    <3>2. Cardinality(Inner') = Cardinality(Inner) - 1
      BY <3>1, SetsFinite, FS_RemoveElement
    <3> QED BY <1>1, <3>1, <3>2, SetsFinite DEF Counted, IInv, TypeOK
  <2> QED BY <2>1, <2>2 DEF Gives
<1>6. Cardinality(Holders') \in Nat /\ Cardinality(Inner') \in Nat
  <2>1. IsFiniteSet(Requests) /\ Holders' \subseteq Requests /\ Inner' \subseteq Requests
    BY PoolConstants DEF Holders, Inner, WaitingInside
  <2> HIDE DEF Holders, Inner
  <2> QED BY <2>1, FS_Subset, FS_CardinalityType
<1>7. TypeOK'
  <2>1. free' \in 0..PoolSize
    BY <1>1, <1>5, <1>6, PoolConstants DEF Counted, IInv, TypeOK
  <2> QED BY <1>1, <2>1 DEF IInv, TypeOK, PC, Gives
<1> QED BY <1>3, <1>4, <1>5, <1>7 DEF IInv

\* The first in the queue has the connection, for what it wants.
LEMMA GiveNext ==
    ASSUME IInv, NEW r \in Requests, NEW next, Gives(r, next), queue # <<>>,
           Give(r, next), lock' \in Requests \cup {Nobody}
    PROVE  IInv'
<1> DEFINE h == Head(queue)
<1>1. /\ pc' = [pc EXCEPT ![r] = next, ![h] = wants[h]]
      /\ queue' = Tail(queue) /\ UNCHANGED <<free, wants>>
  BY DEF Give
<1>2. h \in Queued
  BY QueueHead
<1> HIDE DEF h
<1>3. h \in Requests /\ pc[h] = "waiting" /\ h # r
  BY <1>2 DEF Queued, Waiting, Gives
<1>4. wants[h] \in {"reading", "locking", "inside", "inner"}
  BY <1>3 DEF IInv, TypeOK
<1>5. /\ pc'[r] = next /\ pc'[h] = wants[h]
      /\ \A q \in Requests \ {r, h} : pc'[q] = pc[q]
  BY <1>1, <1>3 DEF IInv, TypeOK
<1>6. TypeOK'
  <2>1. queue' \in Seq(Requests)
    BY <1>1 DEF IInv, TypeOK
  <2> QED BY <1>1, <1>3, <1>4, <2>1 DEF IInv, TypeOK, PC, Gives
<1>7. Queued' = Queued \ {h}
  BY <1>3, <1>4, <1>5 DEF Queued, Waiting, Gives
<1>8. QueuedOnce'
  BY <1>1, <1>7, QueueShrinks DEF h
<1>9. NobodyWaitsInVain'
  BY <1>1 DEF IInv, NobodyWaitsInVain
<1>10. Counted'
  <2>1. CASE wants[h] = "inner" /\ next = "idle"
    <3>1. /\ Holders' = Holders \ {r} /\ r \in Holders
          /\ Inner' = Inner \cup {h} /\ h \notin Inner
      BY <1>1, <1>3, <1>5, <2>1 DEF Holders, Inner, WaitingInside, Waiting, Gives
    <3> HIDE DEF Holders, Inner
    <3>2. /\ Cardinality(Holders') = Cardinality(Holders) - 1
          /\ Cardinality(Inner') = Cardinality(Inner) + 1
      BY <3>1, SetsFinite, FS_RemoveElement, FS_AddElement
    <3> QED BY <1>1, <3>2, SetsFinite DEF Counted, IInv, TypeOK
  <2>2. CASE wants[h] # "inner" /\ next = "idle"
    <3>1. /\ Holders' = (Holders \ {r}) \cup {h} /\ r \in Holders /\ h \notin Holders
          /\ Inner' = Inner
      BY <1>1, <1>3, <1>4, <1>5, <2>2 DEF Holders, Inner, WaitingInside, Waiting, Gives
    <3> HIDE DEF Holders, Inner
    <3>2. IsFiniteSet(Holders \ {r}) /\ Cardinality(Holders \ {r}) = Cardinality(Holders) - 1
      BY <3>1, SetsFinite, FS_RemoveElement
    <3>3. Cardinality(Holders') = Cardinality(Holders \ {r}) + 1
      BY <3>1, <3>2, FS_AddElement
    <3> QED BY <1>1, <3>1, <3>2, <3>3, SetsFinite DEF Counted, IInv, TypeOK
  <2>3. CASE wants[h] = "inner" /\ next = "ending"
    <3>1. /\ Holders' = Holders /\ Inner' = (Inner \ {r}) \cup {h}
          /\ r \in Inner /\ h \notin Inner
      BY <1>1, <1>3, <1>5, <2>3 DEF Holders, Inner, WaitingInside, Waiting, Gives
    <3> HIDE DEF Holders, Inner
    <3>2. IsFiniteSet(Inner \ {r}) /\ Cardinality(Inner \ {r}) = Cardinality(Inner) - 1
      BY <3>1, SetsFinite, FS_RemoveElement
    <3>3. Cardinality(Inner') = Cardinality(Inner \ {r}) + 1
      BY <3>1, <3>2, FS_AddElement
    <3> QED BY <1>1, <3>1, <3>2, <3>3, SetsFinite DEF Counted, IInv, TypeOK
  <2>4. CASE wants[h] # "inner" /\ next = "ending"
    <3>1. /\ Holders' = Holders \cup {h} /\ h \notin Holders
          /\ Inner' = Inner \ {r} /\ r \in Inner
      BY <1>1, <1>3, <1>4, <1>5, <2>4 DEF Holders, Inner, WaitingInside, Waiting, Gives
    <3> HIDE DEF Holders, Inner
    <3>2. /\ Cardinality(Holders') = Cardinality(Holders) + 1
          /\ Cardinality(Inner') = Cardinality(Inner) - 1
      BY <3>1, SetsFinite, FS_RemoveElement, FS_AddElement
    <3> QED BY <1>1, <3>2, SetsFinite DEF Counted, IInv, TypeOK
  <2> QED BY <2>1, <2>2, <2>3, <2>4 DEF Gives
<1> QED BY <1>6, <1>8, <1>9, <1>10 DEF IInv

LEMMA GiveStep ==
    ASSUME IInv, NEW r \in Requests, NEW next, Gives(r, next),
           Give(r, next), lock' \in Requests \cup {Nobody}
    PROVE  IInv'
BY GiveFree, GiveNext

(***************************************************************************)
(* The pool                                                                *)
(***************************************************************************)
LEMMA PoolInit == Init => IInv
<1> SUFFICES ASSUME Init PROVE IInv
  OBVIOUS
<1>1. TypeOK
  BY PoolConstants DEF Init, TypeOK, PC
<1>2. Holders = {} /\ Inner = {} /\ Queued = {}
  BY DEF Init, Holders, Inner, Queued, WaitingInside, Waiting
<1>3. Cardinality({}) = 0
  BY FS_EmptySet
<1> HIDE DEF Holders, Inner, Queued
<1>4. Counted
  BY <1>2, <1>3, PoolConstants DEF Init, Counted
<1>5. QueuedOnce
  BY <1>2, <1>3 DEF Init, QueuedOnce
<1> QED BY <1>1, <1>4, <1>5 DEF IInv, NobodyWaitsInVain, Init

LEMMA PoolStep == IInv /\ [Next]_vars => IInv'
<1> SUFFICES ASSUME IInv, [Next]_vars PROVE IInv'
  OBVIOUS
<1>1. lock \in Requests \cup {Nobody}
  BY DEF IInv, TypeOK
<1>2. ASSUME NEW r \in Requests, Query(r) PROVE IInv'
  BY <1>2, TakeStep DEF Query
<1>3. ASSUME NEW r \in Requests, Transaction(r) PROVE IInv'
  BY <1>3, TakeStep DEF Transaction
<1>4. ASSUME NEW r \in Requests, Lock(r) PROVE IInv'
  <2>1. /\ pc[r] = "locking" /\ lock' = r /\ pc' = [pc EXCEPT ![r] = "inside"]
        /\ UNCHANGED <<wants, free, queue>>
    BY <1>4 DEF Lock
  <2>2. Holders' = Holders /\ Inner' = Inner /\ Queued' = Queued
    BY <2>1 DEF IInv, TypeOK, Holders, Inner, Queued, WaitingInside, Waiting
  <2>3. TypeOK'
    BY <2>1 DEF IInv, TypeOK, PC
  <2>4. QueuedOnce'
    BY <2>1, <2>2, QueueStays DEF IInv
  <2> HIDE DEF Holders, Inner, Queued
  <2> QED BY <2>1, <2>2, <2>3, <2>4 DEF IInv, Counted, NobodyWaitsInVain
<1>5. ASSUME NEW r \in Requests, LockFails(r) PROVE IInv'
  BY <1>1, <1>5, GiveStep DEF LockFails, Gives
<1>6. ASSUME NEW r \in Requests, QueryEnds(r) PROVE IInv'
  BY <1>1, <1>6, GiveStep DEF QueryEnds, Gives
<1>7. ASSUME NEW r \in Requests, InnerQuery(r) PROVE IInv'
  BY <1>7, TakeStep DEF InnerQuery
<1>8. ASSUME NEW r \in Requests, InnerQueryEnds(r) PROVE IInv'
  BY <1>1, <1>8, GiveStep DEF InnerQueryEnds, Gives
<1>9. ASSUME NEW r \in Requests, EndTransaction(r) PROVE IInv'
  <2>1. lock' \in Requests \cup {Nobody}
    BY <1>1, <1>9 DEF EndTransaction
  <2>2. Gives(r, "idle") /\ Give(r, "idle")
    BY <1>9 DEF EndTransaction, Gives
  <2> QED BY <2>1, <2>2, GiveStep
<1>10. CASE UNCHANGED vars
  <2>1. Holders' = Holders /\ Inner' = Inner /\ Queued' = Queued
    BY <1>10 DEF vars, Holders, Inner, Queued, WaitingInside, Waiting
  <2>2. TypeOK'
    BY <1>10 DEF vars, IInv, TypeOK
  <2>3. QueuedOnce'
    BY <1>10, <2>1, QueueStays DEF vars, IInv
  <2> HIDE DEF Holders, Inner, Queued
  <2> QED BY <1>10, <2>1, <2>2, <2>3 DEF vars, IInv, Counted, NobodyWaitsInVain
<1> QED
  BY <1>2, <1>3, <1>4, <1>5, <1>6, <1>7, <1>8, <1>9, <1>10 DEF Next, Proceed

\* What the invariant knows of the queue is what the property says of it.
LEMMA Accounted == IInv => PoolAccounted
<1> SUFFICES ASSUME IInv PROVE PoolAccounted
  OBVIOUS
<1>1. queue \in Seq(Requests) /\ DOMAIN queue = 1..Len(queue) /\ Len(queue) \in Nat
  BY DEF IInv, TypeOK
<1>2. {queue[i] : i \in DOMAIN queue} = Queued
  BY <1>1 DEF IInv, QueuedOnce
<1>3. Cardinality(1..Len(queue)) = Len(queue)
  BY <1>1, FS_Interval
<1>4. Cardinality(DOMAIN queue) = Cardinality(Queued)
  BY <1>1, <1>3 DEF IInv, QueuedOnce
<1> QED BY <1>2, <1>4 DEF IInv, Counted, NobodyWaitsInVain, Holders, Inner, Queued, PoolAccounted

(***************************************************************************)
(* Jams                                                                    *)
(***************************************************************************)
\* Who has locked the row is in a transaction, and may wait in it for a second connection.
LockIsUsed ==
    \/ lock = Nobody
    \/ lock \in Requests /\ pc[lock] \in {"inside", "inner", "ending"}
    \/ lock \in WaitingInside

\* A step that leaves the lock where it was keeps its holder in his transaction.
LEMMA TakeKeepsLock ==
    ASSUME IInv, LockIsUsed, NEW r \in Requests,
           NEW next \in {"reading", "locking", "inside", "inner"},
           pc[r] = (IF next = "inner" THEN "inside" ELSE "idle"), Take(r, next), UNCHANGED lock
    PROVE  LockIsUsed'
  BY PoolConstants DEF IInv, TypeOK, Take, LockIsUsed, WaitingInside, Waiting

LEMMA GiveKeepsLock ==
    ASSUME IInv, LockIsUsed, NEW r \in Requests, NEW next, Gives(r, next), Give(r, next),
           lock' = (IF next = "idle" /\ lock = r THEN Nobody ELSE lock)
    PROVE  LockIsUsed'
<1>1. CASE queue = <<>>
  BY <1>1 DEF IInv, TypeOK, Give, Gives, LockIsUsed, WaitingInside, Waiting
<1>2. CASE queue # <<>>
  <2> PICK h : h = Head(queue)
    OBVIOUS
  <2>1. h \in Requests /\ pc[h] = "waiting" /\ h # r
    BY <1>2, QueueHead DEF Queued, Waiting, Gives
  <2>2. pc'[r] = next /\ pc'[h] = wants[h] /\ wants' = wants /\ \A q \in Requests \ {r, h} : pc'[q] = pc[q]
    BY <1>2, <2>1 DEF IInv, TypeOK, Give
  <2> QED BY <2>1, <2>2 DEF LockIsUsed, WaitingInside, Waiting, Gives
<1> QED BY <1>1, <1>2

LEMMA LockStep == IInv /\ LockIsUsed /\ [Next]_vars => LockIsUsed'
<1> SUFFICES ASSUME IInv, LockIsUsed, [Next]_vars PROVE LockIsUsed'
  OBVIOUS
<1>1. ASSUME NEW r \in Requests, Query(r) \/ Transaction(r) \/ InnerQuery(r) PROVE LockIsUsed'
  BY <1>1, TakeKeepsLock DEF Query, Transaction, InnerQuery
<1>2. ASSUME NEW r \in Requests, Lock(r) PROVE LockIsUsed'
  BY <1>2 DEF Lock, IInv, TypeOK, LockIsUsed
<1>3. ASSUME NEW r \in Requests, LockFails(r) \/ QueryEnds(r) PROVE LockIsUsed'
  <2>1. lock # r
    BY <1>3, PoolConstants DEF LockFails, QueryEnds, LockIsUsed, WaitingInside, Waiting
  <2> QED BY <1>3, <2>1, GiveKeepsLock DEF LockFails, QueryEnds, Gives
<1>4. ASSUME NEW r \in Requests, InnerQueryEnds(r) PROVE LockIsUsed'
  BY <1>4, GiveKeepsLock DEF InnerQueryEnds, Gives
<1>5. ASSUME NEW r \in Requests, EndTransaction(r) PROVE LockIsUsed'
  BY <1>5, GiveKeepsLock DEF EndTransaction, Gives
<1>6. CASE UNCHANGED vars
  BY <1>6 DEF vars, LockIsUsed, WaitingInside, Waiting
<1> QED BY <1>1, <1>2, <1>3, <1>4, <1>5, <1>6 DEF Next, Proceed

\* When nobody can go on, all connections belong to transactions that wait.
LEMMA JamsExhaust == IInv /\ LockIsUsed => NoOtherJam
<1> SUFFICES ASSUME IInv, LockIsUsed, queue # <<>>, \A r \in Requests : ~CanGoOn(r)
             PROVE  Exhausted
  BY DEF NoOtherJam
<1>1. free = 0
  BY DEF IInv, NobodyWaitsInVain
<1>2. Inner = {}
  BY DEF Inner, CanGoOn
<1>3. \A r \in Requests : pc[r] = "locking" => lock \in WaitingInside
  BY DEF LockIsUsed, CanGoOn
<1>4. Holders = WaitingInside \cup WaitingForRow
  BY <1>3 DEF Holders, WaitingForRow, CanGoOn, IInv, TypeOK, PC
<1>5. Cardinality(Inner) = 0
  BY <1>2, FS_EmptySet
<1> HIDE DEF Holders, Inner
<1> QED BY <1>1, <1>4, <1>5, SetsFinite, PoolConstants DEF IInv, Counted, Exhausted

\* Every reachable state is well typed; above all, never more connections are free than there
\* are (release in src/src/decorators/transaction.decorator.ts and in the use cases).
THEOREM PoolTyped == Spec => []TypeOK
<1>1. IInv => TypeOK
  BY DEF IInv
<1> QED BY <1>1, PoolInit, PoolStep, PTL DEF Spec

\* However requests, transactions, their second connections and failures overlap, every
\* connection is free or used by one request, and every waiting request is in the queue once.
THEOREM NoConnectionLost == Spec => []PoolAccounted
BY Accounted, PoolInit, PoolStep, PTL DEF Spec

\* However large the pool, the only way to stop it is that transactions which wait for a
\* second connection, or for the row of one that does, hold all connections.
THEOREM OnlyExhaustionJams == Spec => []NoOtherJam
<1>1. Init => LockIsUsed
  BY DEF Init, LockIsUsed
<1> QED BY <1>1, LockStep, JamsExhaust, PoolInit, PoolStep, PTL DEF Spec

=============================================================================
