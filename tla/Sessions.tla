------------------------------- MODULE Sessions -------------------------------
(***************************************************************************)
(* The connections of connection_pool/MysqlConn.cpp in the hands of the    *)
(* clients of a pool: what a query, an update or a transaction leaves in a *)
(* connection goes back to the pool with it and meets the next client.     *)
(*                                                                         *)
(* The pool is the abstract one of Lending, which ConnPool implements.     *)
(* The server and libmysqlclient are modelled from their use: result sets  *)
(* are memory, by address; a session with autocommit off keeps its updates *)
(* pending until commit; closing it rolls them back.  Left out: SQL, the   *)
(* contents of rows, and that transaction, commit and rollback return what *)
(* their mysql_ functions do, 0 for success.                               *)
(***************************************************************************)
EXTENDS Lending, Naturals

CONSTANTS
  Results,    \* the addresses of result sets
  MaxRows,    \* bound: rows of a result
  MaxUpdates  \* bound: updates in one execution

ASSUME SessionsAssumption ==
  /\ None \notin Clients \union Conns \union Results
  /\ MaxRows \in Nat /\ MaxUpdates \in Nat

VARIABLES
  up,        \* the connections whose session with the server is open
  auto,      \* those of them with autocommit on
  m_result,  \* the result set of each connection
  m_row,     \* the result set that its current row is part of
  asker,     \* the client whose query made each result set that exists
  left,      \* its rows not fetched yet
  queried,   \* the clients that have called query since getConn
  cursor,    \* those whose last next returned true
  updates,   \* how many updates the server has acknowledged
  pending,   \* for each connection, those it has not committed
  lost,      \* those that have been rolled back
  begun,     \* history: the connections transaction was called on
  risked     \* history: the updates made on such a connection

results == <<m_result, m_row, asker, left, queried, cursor>>
server  == <<up, auto, updates, pending, lost, begun, risked>>
vars    == <<lending, results, server>>

Updates == 1 .. MaxUpdates

TypeOK ==
  /\ idle \subseteq Conns /\ conn \in [Clients -> Conns \union {None}]
  /\ up \subseteq Conns /\ auto \subseteq Conns
  /\ m_result \in [Conns -> Results \union {None}]
  /\ m_row \in [Conns -> Results \union {None}]
  /\ asker \in [Results -> Clients \union {None}]
  /\ left \in [Results -> 0 .. MaxRows]
  /\ queried \subseteq Clients /\ cursor \subseteq Clients
  /\ \A c \in cursor : conn[c] # None /\ m_row[conn[c]] # None
  /\ updates \in 0 .. MaxUpdates
  /\ pending \in [Conns -> SUBSET Updates]
  /\ lost \subseteq Updates /\ begun \subseteq Conns /\ risked \subseteq Updates

-----------------------------------------------------------------------------
(* Connections come, change hands and go.                                  *)

\* Mutated form: the constructor turns autocommit off.
AutocommitOff(x) == auto \ {x}

AutocommitOn(x) == auto \union {x}

\* new MysqlConn, connect: addConn does not look whether it succeeded.
Opened(x) ==
  /\ up' \in {up, up \union {x}}
  /\ auto' = AutocommitOn(x)
  /\ m_row' = [m_row EXCEPT ![x] = None]
  /\ begun' = begun \ {x}
  /\ UNCHANGED <<m_result, asker, left, queried, cursor, updates, pending, lost, risked>>

Create(x) == Make(x) /\ Opened(x)

GetConn(c, x) ==
  /\ Lend(c, x)
  /\ IF x \in idle THEN UNCHANGED <<results, server>> ELSE Opened(x)

\* The deleter of the shared_ptr: the connection goes back as it is.
Release(c) ==
  /\ GiveBack(c)
  /\ queried' = queried \ {c} /\ cursor' = cursor \ {c}
  /\ UNCHANGED <<m_result, m_row, asker, left, server>>

\* The server ends the sessions of S, which rolls back what is pending.
Closed(S) ==
  /\ up' = up \ S
  /\ lost' = lost \union UNION {pending[x] : x \in S}
  /\ pending' = [x \in Conns |-> IF x \in S THEN {} ELSE pending[x]]

\* Mutated form: nothing is freed.
Kept(S) == asker

\* freeResult, for each of the connections in S.
Cleared(S) == [x \in Conns |-> IF x \in S THEN None ELSE m_result[x]]
Freed(S) == [r \in Results |-> IF \E x \in S : m_result[x] = r THEN None ELSE asker[r]]

\* delete: mysql_close, then freeResult.
Delete(S) ==
  /\ S # {} /\ Drop(S)
  /\ Closed(S)
  /\ asker' = Freed(S)
  /\ m_result' = Cleared(S)
  /\ UNCHANGED <<m_row, left, queried, cursor, auto, updates, begun, risked>>

\* The server may drop a connection at any time, without anybody noticing.
ServerCloses(x) ==
  /\ x \in up
  /\ Closed({x})
  /\ UNCHANGED <<lending, results, auto, updates, begun, risked>>

-----------------------------------------------------------------------------
(* What client c does with its connection x.                               *)

Has(c, x) == conn[c] = x /\ x # None

\* Mutated form: freeResult comes after the error return.
NotDiscarded(x) == {}

\* The results freed by a query that fails.
Discarded(x) == {x}

\* mysql_store_result gives a result set, or none if the statement has none.
Query(c, x) ==
  /\ Has(c, x)
  /\ queried' = queried \union {c} /\ cursor' = cursor \ {c}
  /\ \/ /\ m_result' = Cleared(Discarded(x))
        /\ asker' = Freed(Discarded(x))
        /\ UNCHANGED left
     \/ \E r \in Results, n \in 0 .. MaxRows :
          /\ x \in up /\ Freed({x})[r] = None
          /\ m_result' = [m_result EXCEPT ![x] = r]
          /\ asker' = [Freed({x}) EXCEPT ![r] = c]
          /\ left' = [left EXCEPT ![r] = n]
  /\ UNCHANGED <<lending, m_row, server>>

\* Mutated form: a result set is enough.
Always(x) == TRUE

GotRow(x) == m_row'[x] # None

\* next: true when a row was fetched.
NextRow(c, x) ==
  /\ Has(c, x)
  /\ LET r == m_result[x] IN
     IF r = None
     THEN cursor' = cursor \ {c} /\ UNCHANGED <<m_row, left>>
     ELSE /\ m_row' = [m_row EXCEPT ![x] = IF left[r] = 0 THEN None ELSE r]
          /\ left' = [left EXCEPT ![r] = IF @ = 0 THEN 0 ELSE @ - 1]
          /\ cursor' = IF GotRow(x) THEN cursor \union {c} ELSE cursor \ {c}
  /\ UNCHANGED <<lending, m_result, asker, queried, server>>

\* update that returned true.  (One that failed changes nothing.)
Update(c, x) ==
  /\ Has(c, x) /\ x \in up /\ updates < MaxUpdates
  /\ updates' = updates + 1
  /\ pending' = IF x \in auto THEN pending
                ELSE [pending EXCEPT ![x] = @ \union {updates'}]
  /\ risked' = IF x \in begun THEN risked \union {updates'} ELSE risked
  /\ UNCHANGED <<lending, results, up, auto, lost, begun>>

\* Autocommit is never turned on again.
Transaction(c, x) ==
  /\ Has(c, x) /\ x \in up
  /\ auto' = auto \ {x}
  /\ begun' = begun \union {x}
  /\ UNCHANGED <<lending, results, up, updates, pending, lost, risked>>

Commit(c, x) ==
  /\ Has(c, x) /\ x \in up
  /\ pending' = [pending EXCEPT ![x] = {}]
  /\ UNCHANGED <<lending, results, up, auto, updates, lost, begun, risked>>

Rollback(c, x) ==
  /\ Has(c, x) /\ x \in up
  /\ lost' = lost \union pending[x]
  /\ pending' = [pending EXCEPT ![x] = {}]
  /\ UNCHANGED <<lending, results, up, auto, updates, begun, risked>>

\* A client asks the pool for a connection and calls any public method of the
\* one it has, in any order.
Client(c, x) ==
  \/ GetConn(c, x) \/ Query(c, x) \/ NextRow(c, x) \/ Update(c, x)
  \/ Transaction(c, x) \/ Commit(c, x) \/ Rollback(c, x)

-----------------------------------------------------------------------------
SInit ==
  /\ idle = {} /\ conn = [c \in Clients |-> None]
  /\ up = {} /\ auto = {}
  /\ m_result = [x \in Conns |-> None] /\ m_row = m_result
  /\ asker = [r \in Results |-> None] /\ left = [r \in Results |-> 0]
  /\ queried = {} /\ cursor = {}
  /\ updates = 0 /\ pending = [x \in Conns |-> {}]
  /\ lost = {} /\ begun = {} /\ risked = {}

SNext ==
  \/ \E x \in Conns : Create(x) \/ ServerCloses(x) \/ \E c \in Clients : Client(c, x)
  \/ \E c \in Clients : Release(c)
  \/ \E S \in SUBSET idle : Delete(S)

SSpec == SInit /\ [][SNext]_vars

-----------------------------------------------------------------------------
\* A client that has called query and whose last next returned true may call
\* value: the row is one of its own query, in a result set that has not been
\* freed, whoever had the connection before.
RowsAreOwn ==
  \A c \in cursor \intersect queried :
    LET r == m_result[conn[c]] IN r # None /\ m_row[conn[c]] = r /\ asker[r] = c

\* A result set exists exactly as long as one connection points to it: none
\* is leaked by a query or by the recycler, none freed twice.
ResultsFreed ==
  /\ \A r \in Results : asker[r] # None <=> \E x \in idle \union Lent : m_result[x] = r
  /\ \A x, y \in idle \union Lent : m_result[x] = m_result[y] /\ m_result[x] # None => x = y

\* An acknowledged update is undone only if transaction had been called on
\* the same connection since it was created, by whomever.
OnlyRiskedLost == lost \subseteq risked

=============================================================================
