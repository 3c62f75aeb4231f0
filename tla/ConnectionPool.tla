--------------------------- MODULE ConnectionPool ---------------------------
(***************************************************************************)
(* The pool of database connections (pg, external: a fixed size, a queue,  *)
(* no time limit) and what the handlers take from it.  A statement of an   *)
(* injected repository takes a connection for itself.  A transaction keeps *)
(* one to its end, and a statement of an injected repository inside it     *)
(* takes a second.  Transactions of the game lock a row of theirs first.   *)
(***************************************************************************)
EXTENDS Integers, Sequences, FiniteSets

CONSTANTS
    Requests,  \* handlers and cron runs
    PoolSize,  \* connections: 10 unless configured
    Nobody     \* holder of a free lock

ASSUME PoolConstants ==
    /\ IsFiniteSet(Requests) /\ PoolSize \in Nat \ {0}
    /\ Nobody \notin Requests

VARIABLES
    pc,     \* of each request
    wants,  \* what a waiting request will do with its connection
    free,   \* connections nobody has
    queue,  \* requests waiting for one
    lock    \* the request that has locked the row of the game

vars == <<pc, wants, free, queue, lock>>

\* reading: one statement; locking, inside, ending: in a transaction, before its row is
\* locked, before and after the inner statement; inner: that statement.
PC == {"idle", "waiting", "reading", "locking", "inside", "inner", "ending"}

TypeOK ==
    /\ pc \in [Requests -> PC]
    /\ wants \in [Requests -> {"reading", "locking", "inside", "inner"}]
    /\ free \in 0..PoolSize
    /\ queue \in Seq(Requests)
    /\ lock \in Requests \cup {Nobody}

Init ==
    /\ pc = [r \in Requests |-> "idle"]
    /\ wants = [r \in Requests |-> "reading"]
    /\ free = PoolSize
    /\ queue = <<>>
    /\ lock = Nobody

\* A connection for r to do next, now or in its turn.
Take(r, next) ==
    IF free > 0
    THEN /\ free' = free - 1
         /\ pc' = [pc EXCEPT ![r] = next]
         /\ UNCHANGED <<wants, queue>>
    ELSE /\ queue' = Append(queue, r)
         /\ pc' = [pc EXCEPT ![r] = "waiting"]
         /\ wants' = [wants EXCEPT ![r] = next]
         /\ UNCHANGED free

\* mutant: release() is not reached, as when a rollback throws in its place
Keep(r, next) ==
    /\ pc' = [pc EXCEPT ![r] = next]
    /\ UNCHANGED <<free, queue, wants>>

\* r goes on without one of its connections: the next in the queue has it.
Give(r, next) ==
    /\ IF queue = <<>>
       THEN /\ free' = free + 1
            /\ pc' = [pc EXCEPT ![r] = next]
            /\ UNCHANGED queue
       ELSE /\ pc' = [pc EXCEPT ![r] = next, ![Head(queue)] = wants[Head(queue)]]
            /\ queue' = Tail(queue)
            /\ UNCHANGED free
    /\ UNCHANGED wants

\* A statement outside of transactions: reads and writes of most handlers.
Query(r) == pc[r] = "idle" /\ Take(r, "reading") /\ UNCHANGED lock
QueryEnds(r) == pc[r] = "reading" /\ Give(r, "idle") /\ UNCHANGED lock

\* createQueryRunner, connect, startTransaction; a ban locks no row.
Transaction(r) ==
    /\ pc[r] = "idle"
    /\ \E next \in {"locking", "inside"} : Take(r, next)
    /\ UNCHANGED lock

\* setLock('pessimistic_write'): waits while another transaction has the row.
Lock(r) ==
    /\ pc[r] = "locking" /\ lock = Nobody
    /\ lock' = r
    /\ pc' = [pc EXCEPT ![r] = "inside"]
    /\ UNCHANGED <<wants, free, queue>>

\* The statement fails, and the transaction is rolled back and its connection released.
LockFails(r) == pc[r] = "locking" /\ Give(r, "idle") /\ UNCHANGED lock

\* randomQuestions, findUnansweredQuestionByUserId, findByGameId, findUserById.
InnerQuery(r) == pc[r] = "inside" /\ Take(r, "inner") /\ UNCHANGED lock
InnerQueryEnds(r) == pc[r] = "inner" /\ Give(r, "ending") /\ UNCHANGED lock

EndUncommitted(r) ==  \* mutant: the connection goes back with the transaction still open
    /\ pc[r] \in {"inside", "ending"}
    /\ Give(r, "idle")
    /\ UNCHANGED lock
\* commitTransaction, or rollbackTransaction at once when nothing was found to do, and release.
EndTransaction(r) ==
    /\ pc[r] \in {"inside", "ending"}
    /\ lock' = IF lock = r THEN Nobody ELSE lock
    /\ Give(r, "idle")

Proceed(r) ==
    \/ QueryEnds(r)
    \/ InnerQuery(r) \/ InnerQueryEnds(r)
    \/ EndTransaction(r)

Next ==
    \E r \in Requests :
        Query(r) \/ Transaction(r) \/ Lock(r) \/ LockFails(r) \/ Proceed(r)

\* Statements end, transactions go on, and the database grants a lock in turn.
Fairness == \A r \in Requests : WF_vars(Proceed(r)) /\ SF_vars(Lock(r))

Spec == Init /\ [][Next]_vars /\ Fairness

Waiting(r) == pc[r] = "waiting"
\* Requests that keep the connection of a transaction while they wait for another.
WaitingInside == {r \in Requests : Waiting(r) /\ wants[r] = "inner"}
\* Transactions that wait for the row of one that waits.
WaitingForRow == {r \in Requests : pc[r] = "locking" /\ lock \in WaitingInside}

\* Nobody can release a connection: all belong to transactions that wait.
Exhausted == Cardinality(WaitingInside \cup WaitingForRow) = PoolSize

\* Nobody waits for a connection while one is free, and none is lost: those in use and the
\* free ones make the pool, and the queue holds each waiting request once.
PoolAccounted ==
    LET users == {r \in Requests : pc[r] \notin {"idle", "waiting"}} \cup WaitingInside
        inner == {r \in Requests : pc[r] = "inner"}
    IN
    /\ free + Cardinality(users) + Cardinality(inner) = PoolSize
    /\ queue # <<>> => free = 0
    /\ {queue[i] : i \in DOMAIN queue} = {r \in Requests : Waiting(r)}
    /\ Cardinality(DOMAIN queue) = Cardinality({r \in Requests : Waiting(r)})

\* Requests that the pool and the lock let go on.
CanGoOn(r) ==
    \/ pc[r] \in {"reading", "inside", "inner", "ending"}
    \/ pc[r] = "locking" /\ lock = Nobody

\* The exhausted pool is the only jam: whenever requests wait for a connection, one that has
\* a connection can go on with it, however transactions, row locks and failures interleave.
NoOtherJam == queue # <<>> /\ ~Exhausted => \E r \in Requests : CanGoOn(r)

\* Every request gets its connection in the end, unless the pool is exhausted by
\* transactions that all wait for a second connection or for such a one's row: as fewer
\* transactions than connections cannot do that, they alone endanger the others.
ServedUnlessExhausted == \A r \in Requests : Waiting(r) ~> (~Waiting(r) \/ Exhausted)

=============================================================================
