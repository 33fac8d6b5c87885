------------------------------ MODULE SqlPool ------------------------------
(***************************************************************************)
(* MySQLManager and MySQLTransaction (db/mysql.cc): users take a MySQL     *)
(* object from the pool or make one, run statements and transactions, and  *)
(* give it back. The server may drop a session and refuse a statement.     *)
(***************************************************************************)
EXTENDS Naturals, FiniteSets, SequencesExt

CONSTANTS SqlUsers, MySQLs,
          PoolSize,  \* m_poolSize
          MaxGets    \* bound: how often a user calls get()

VARIABLES free,  \* m_conns[name]
          my,    \* the MySQL objects
          user   \* the users, each with its MySQLTransaction

sqlVars == <<free, my, user>>

\* err is m_hasError, link the session with the server, tx the transaction that
\* is open in it: that of its user, or one whose MySQLTransaction is gone,
\* "failed" if it was to commit itself and had an error, "stray" if not.
NoMySQL == [is |-> "none", err |-> FALSE, link |-> FALSE, tx |-> "no"]
Session == [is |-> "made", err |-> FALSE, link |-> TRUE, tx |-> "no"]

\* auto, fin and err are m_autoCommit, m_isFinished and m_hasError.
NoUse == [pc |-> "out", my |-> "none", auto |-> FALSE, fin |-> FALSE, err |-> FALSE]

SqlInit ==
    /\ free = <<>>
    /\ my = [m \in MySQLs |-> NoMySQL]
    /\ user = [u \in SqlUsers |-> NoUse @@ [gets |-> 0]]

IsAt(u, place) == user[u].pc = place
To(u, place) == user' = [user EXCEPT ![u].pc = place]
Back(u) == user' = [user EXCEPT ![u] = NoUse @@ [gets |-> user[u].gets]]

-----------------------------------------------------------------------------
\* get(): the first of the pool, or a new object.
Get(u) ==
    /\ IsAt(u, "out") /\ user[u].gets < MaxGets
    /\ IF free # <<>>
       THEN /\ user' = [user EXCEPT ![u].pc = "check", ![u].my = Head(free), ![u].gets = @ + 1]
            /\ free' = Tail(free)
       ELSE /\ user' = [user EXCEPT ![u].pc = "connect", ![u].gets = @ + 1]
            /\ UNCHANGED free
    /\ UNCHANGED my

ConnectFirst(u) ==
    /\ IsAt(u, "connect")
    /\ \/ \E m \in MySQLs :
            /\ my[m].is = "none"
            /\ my' = [my EXCEPT ![m] = Session]
            /\ user' = [user EXCEPT ![u].pc = "has", ![u].my = m]
       \/ Back(u) /\ UNCHANGED my
    /\ UNCHANGED free

\* get() of a pooled object: used within the last 5 s and without an error it
\* is not looked at; otherwise ping(), and connect() when that fails. When
\* both fail the object is neither given back nor deleted.
Check(u) ==
    LET m == user[u].my IN
    /\ IsAt(u, "check")
    /\ \/ ~my[m].err /\ To(u, "has") /\ UNCHANGED my
       \/ my[m].link /\ To(u, "has") /\ my' = [my EXCEPT ![m].err = FALSE]
       \/ ~my[m].link /\ To(u, "has") /\ my' = [my EXCEPT ![m] = Session]
       \/ ~my[m].link /\ Back(u) /\ my' = [my EXCEPT ![m].is = "leaked", ![m].err = TRUE]
    /\ UNCHANGED free

-----------------------------------------------------------------------------
\* MySQL::execute(): the statement is done and tx is open then, or it fails.
Done(u, tx) == my[user[u].my].link /\ my' = [my EXCEPT ![user[u].my].err = FALSE,
                                                       ![user[u].my].tx = tx]
Fails(u) == my' = [my EXCEPT ![user[u].my].err = TRUE]
Tx(u) == my[user[u].my].tx

Statement(u) ==
    /\ IsAt(u, "has")
    /\ Done(u, Tx(u)) \/ Fails(u)
    /\ UNCHANGED <<free, user>>

\* openTransaction(): BEGIN, which commits what was left open. When it fails,
\* the transaction is destroyed at once.
OpenTransaction(u) ==
    /\ IsAt(u, "has")
    /\ \E auto, ok \in BOOLEAN :
         /\ IF ok THEN Done(u, "own") ELSE Fails(u)
         /\ user' = [user EXCEPT ![u].pc = IF ok THEN "tx" ELSE "end", ![u].auto = auto,
                                 ![u].fin = FALSE, ![u].err = ~ok]
    /\ UNCHANGED free

\* MySQLTransaction::execute()
Execute(u) ==
    /\ IsAt(u, "tx") /\ ~user[u].fin
    /\ \/ Done(u, Tx(u)) /\ UNCHANGED user
       \/ Fails(u) /\ user' = [user EXCEPT ![u].err = TRUE]
    /\ UNCHANGED free

\* commit(), after which the user is at place: nothing is sent after an error.
\* The server refuses a COMMIT with or without ending the transaction.
Commit(u, place) ==
    IF user[u].fin \/ user[u].err THEN To(u, place) /\ UNCHANGED my
    ELSE \/ Done(u, "no") /\ user' = [user EXCEPT ![u].pc = place, ![u].fin = TRUE]
         \/ /\ \E tx \in {"no", Tx(u)} :
                 my' = [my EXCEPT ![user[u].my].err = TRUE, ![user[u].my].tx = tx]
            /\ user' = [user EXCEPT ![u].pc = place, ![u].err = TRUE]

\* Mutant: nothing is sent after an error here either.
RollbackTimid(u, place) ==
    IF user[u].fin \/ user[u].err THEN To(u, place) /\ UNCHANGED my
    ELSE \/ Done(u, "no") /\ user' = [user EXCEPT ![u].pc = place, ![u].fin = TRUE]
         \/ ~my[user[u].my].link /\ Fails(u) /\ user' = [user EXCEPT ![u].pc = place, ![u].err = TRUE]

\* rollback(), which a session that is still there does not refuse.
Rollback(u, place) ==
    IF user[u].fin THEN To(u, place) /\ UNCHANGED my
    ELSE \/ Done(u, "no") /\ user' = [user EXCEPT ![u].pc = place, ![u].fin = TRUE]
         \/ ~my[user[u].my].link /\ Fails(u) /\ user' = [user EXCEPT ![u].pc = place, ![u].err = TRUE]

\* The user commits or rolls back, or neither, and drops the transaction; the
\* destructor ends it, and the connection is as the session has it.
UserEnds(u) == IsAt(u, "tx") /\ (Commit(u, "tx") \/ Rollback(u, "tx")) /\ UNCHANGED free

Drop(u) == IsAt(u, "tx") /\ To(u, "end") /\ UNCHANGED <<free, my>>

Destroy(u) ==
    /\ IsAt(u, "end")
    /\ IF user[u].auto THEN Commit(u, "ended") ELSE Rollback(u, "ended")
    /\ UNCHANGED free

Ended(u) ==
    /\ IsAt(u, "ended") /\ To(u, "has")
    /\ my' = [my EXCEPT ![user[u].my].tx =
                IF @ # "own" THEN @ ELSE IF user[u].auto /\ user[u].err THEN "failed" ELSE "stray"]
    /\ UNCHANGED free

-----------------------------------------------------------------------------
\* freeMySQL(): back to the pool if there is room.
FreeMySQL(u) ==
    /\ IsAt(u, "has") /\ Back(u)
    /\ IF Len(free) < PoolSize
       THEN free' = Append(free, user[u].my) /\ UNCHANGED my
       ELSE my' = [my EXCEPT ![user[u].my] = NoMySQL] /\ UNCHANGED free

\* checkConnection() deletes what was not used for some time.
CheckConnection ==
    /\ \E old \in SUBSET ToSet(free) \ {{}} :
         /\ free' = SelectSeq(free, LAMBDA m : m \notin old)
         /\ my' = [m \in MySQLs |-> IF m \in old THEN NoMySQL ELSE my[m]]
    /\ UNCHANGED user

\* The server ends a session and rolls back its transaction.
Lost(m) ==
    /\ my[m].link
    /\ my' = [my EXCEPT ![m].link = FALSE, ![m].tx = "no"]
    /\ UNCHANGED <<free, user>>

SqlNext ==
    \/ \E u \in SqlUsers : \/ Get(u) \/ ConnectFirst(u) \/ Check(u)
                           \/ Statement(u) \/ OpenTransaction(u) \/ Execute(u)
                           \/ UserEnds(u) \/ Drop(u) \/ Destroy(u) \/ Ended(u) \/ FreeMySQL(u)
    \/ CheckConnection \/ \E m \in MySQLs : Lost(m)

-----------------------------------------------------------------------------
\* A connection has one place, the pool or a user; the pool keeps its size; and
\* no transaction stays open in a session when its object is gone, whatever
\* failed, except one that was to commit itself and had an error: the next
\* user of the connection commits that with its BEGIN or its COMMIT.
PoolSound ==
    LET Users(m) == {u \in SqlUsers : user[u].my = m} IN
    /\ Len(free) <= PoolSize
    /\ \A m \in MySQLs :
         /\ (IF my[m].is = "made" THEN 1 ELSE 0) =
              Cardinality(Users(m)) + Cardinality({i \in DOMAIN free : free[i] = m})
         /\ my[m].tx # "stray"
=============================================================================
