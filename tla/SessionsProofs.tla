---------------------------- MODULE SessionsProofs ----------------------------
(***************************************************************************)
(* Proofs about Sessions, for any clients, connections, result sets and    *)
(* bounds.  The invariant ties each result set to the one connection that  *)
(* points to it and to the client whose query made it, as long as that     *)
(* client has the connection, and each update that may be undone to a call *)
(* of transaction.                                                         *)
(***************************************************************************)
EXTENDS Sessions, TLAPS

Alive == idle \union Lent

\* One client has a connection, or none.
Exclusive ==
  /\ \A c, d \in Clients : conn[c] = conn[d] /\ conn[c] # None => c = d
  /\ \A c \in Clients : conn[c] \notin idle

\* A result set belongs to a connection that exists.
Placed ==
  /\ \A x \in Conns : m_result[x] # None => x \in Alive
  /\ \A r \in Results : asker[r] # None <=> \E x \in Conns : m_result[x] = r
  /\ \A x, y \in Conns : m_result[x] = m_result[y] /\ m_result[x] # None => x = y

\* What a client that has called query finds in its connection is its own.
Asked ==
  \A c \in queried :
    /\ conn[c] # None
    /\ LET r == m_result[conn[c]] IN
       /\ r # None => asker[r] = c
       /\ c \in cursor => r # None /\ m_row[conn[c]] = r

\* Autocommit is off, and updates can be undone, only after transaction.
Tainted ==
  /\ \A x \in Alive : x \in auto \union begun
  /\ \A x \in Conns : pending[x] \subseteq risked
  /\ lost \subseteq risked

IInv == TypeOK /\ Exclusive /\ Placed /\ Asked /\ Tainted

-----------------------------------------------------------------------------
(* Connections.                                                            *)

\* What the lending does to the connections that exist, by the pool action.
LEMMA AliveFacts ==
  ASSUME TypeOK, Exclusive
  PROVE  /\ \A x \in Conns : Make(x) => Alive' = Alive \union {x} /\ x \notin Alive
         /\ \A c \in Clients, x \in Conns :
              Lend(c, x) => Alive' = Alive \union {x} /\ (x \in idle \/ x \notin Alive)
         /\ \A c \in Clients : GiveBack(c) => Alive' = Alive
         /\ \A S \in SUBSET idle : Drop(S) => Alive' = Alive \ S
         /\ UNCHANGED lending => Alive' = Alive
<1>1. /\ None \notin Conns /\ conn \in [Clients -> Conns \union {None}]
      /\ \A y : y \in Alive <=> y \in idle \/ \E d \in Clients : conn[d] = y /\ y # None
      /\ \A y : y \in Alive' <=> y \in idle' \/ \E d \in Clients : conn'[d] = y /\ y # None
  BY SessionsAssumption DEF TypeOK, Alive, Lent
<1>2. ASSUME NEW x \in Conns, Make(x) PROVE Alive' = Alive \union {x} /\ x \notin Alive
  BY <1>1, <1>2 DEF Make, Fresh, Lent
<1>3. ASSUME NEW c \in Clients, NEW x \in Conns, Lend(c, x)
      PROVE  Alive' = Alive \union {x} /\ (x \in idle \/ x \notin Alive)
  <2>1. conn'[c] = x /\ \A d \in Clients \ {c} : conn'[d] = conn[d]
    BY <1>1, <1>3 DEF Lend
  <2>2. conn[c] = None /\ idle' = idle \ {x} /\ x # None /\ (x \in idle \/ x \notin Alive)
    BY <1>1, <1>3 DEF Lend, Fresh, Alive
  <2> QED
    BY <1>1, <2>1, <2>2
<1>4. ASSUME NEW c \in Clients, GiveBack(c) PROVE Alive' = Alive
  <2>1. conn'[c] = None /\ \A d \in Clients \ {c} : conn'[d] = conn[d]
    BY <1>1, <1>4 DEF GiveBack
  <2>2. conn[c] # None /\ idle' = idle \union {conn[c]}
    BY <1>4 DEF GiveBack
  <2> QED
    BY <1>1, <2>1, <2>2
<1>5. ASSUME NEW S \in SUBSET idle, Drop(S) PROVE Alive' = Alive \ S
  BY <1>1, <1>5 DEF Drop, Exclusive
<1>6. UNCHANGED lending => Alive' = Alive
  BY <1>1 DEF lending
<1> QED
  BY <1>2, <1>3, <1>4, <1>5, <1>6

\* Each step of the pool's clients is one of the lending.
LEMMA IsLending ==
  ASSUME SNext
  PROVE  \/ \E x \in Conns : Make(x) /\ Create(x)
         \/ \E c \in Clients, x \in Conns : Lend(c, x) /\ GetConn(c, x)
         \/ \E c \in Clients : GiveBack(c) /\ Release(c)
         \/ \E S \in SUBSET idle : Drop(S) /\ Delete(S)
         \/ UNCHANGED lending
<1>1. ASSUME NEW c \in Clients, NEW x \in Conns, Client(c, x)
      PROVE  GetConn(c, x) \/ UNCHANGED lending
  <2>1. Query(c, x) \/ NextRow(c, x) => UNCHANGED lending
    BY DEF Query, NextRow
  <2>2. Update(c, x) \/ Transaction(c, x) \/ Commit(c, x) \/ Rollback(c, x) => UNCHANGED lending
    BY DEF Update, Transaction, Commit, Rollback
  <2> QED
    BY <1>1, <2>1, <2>2 DEF Client
<1>2. \A x \in Conns : (Create(x) => Make(x)) /\ (ServerCloses(x) => UNCHANGED lending)
  BY DEF Create, ServerCloses
<1>3. \A c \in Clients, x \in Conns : GetConn(c, x) => Lend(c, x)
  BY DEF GetConn
<1>4. \A c \in Clients : Release(c) => GiveBack(c)
  BY DEF Release
<1>5. \A S \in SUBSET idle : Delete(S) => Drop(S)
  BY DEF Delete
<1> QED
  BY <1>1, <1>2, <1>3, <1>4, <1>5 DEF SNext

LEMMA ExclusiveStep == TypeOK /\ Exclusive /\ SNext => Exclusive'
<1> SUFFICES ASSUME TypeOK, Exclusive, SNext PROVE Exclusive'
  OBVIOUS
<1>1. None \notin Conns /\ conn \in [Clients -> Conns \union {None}] /\ idle \subseteq Conns
  BY SessionsAssumption DEF TypeOK
<1>2. ASSUME NEW x \in Conns, Make(x) PROVE Exclusive'
  BY <1>1, <1>2 DEF Make, Fresh, Lent, Exclusive
<1>3. ASSUME NEW c \in Clients, NEW x \in Conns, Lend(c, x) PROVE Exclusive'
  <2>1. conn'[c] = x /\ \A d \in Clients \ {c} : conn'[d] = conn[d]
    BY <1>1, <1>3 DEF Lend
  <2>2. /\ idle' = idle \ {x}
        /\ \A d \in Clients : conn[d] # x
    BY <1>1, <1>3 DEF Lend, Fresh, Lent, Exclusive
  <2> QED
    BY <1>1, <2>1, <2>2 DEF Exclusive
<1>4. ASSUME NEW c \in Clients, GiveBack(c) PROVE Exclusive'
  <2>1. conn'[c] = None /\ \A d \in Clients \ {c} : conn'[d] = conn[d]
    BY <1>1, <1>4 DEF GiveBack
  <2>2. conn[c] # None /\ idle' = idle \union {conn[c]} /\ conn[c] \in Conns
    BY <1>1, <1>4 DEF GiveBack
  <2> QED
    BY <1>1, <2>1, <2>2 DEF Exclusive
<1>5. ASSUME NEW S \in SUBSET idle, Drop(S) PROVE Exclusive'
  BY <1>5 DEF Drop, Exclusive
<1>6. CASE UNCHANGED lending
  BY <1>6 DEF lending, Exclusive
<1> QED
  BY <1>2, <1>3, <1>4, <1>5, <1>6, IsLending

-----------------------------------------------------------------------------
(* Types.                                                                  *)

LEMMA TypedInit == SInit => TypeOK
  BY SessionsAssumption DEF SInit, TypeOK, Updates

LEMMA LendingTyped ==
  ASSUME TypeOK, SNext
  PROVE  idle' \subseteq Conns /\ conn' \in [Clients -> Conns \union {None}]
<1>1. idle \subseteq Conns /\ conn \in [Clients -> Conns \union {None}]
  BY DEF TypeOK
<1>2. ASSUME NEW c \in Clients, GiveBack(c) PROVE idle' \subseteq Conns
  <2>1. conn[c] \in Conns /\ idle' = idle \union {conn[c]}
    BY <1>1, <1>2 DEF GiveBack
  <2> QED
    BY <1>1, <2>1
<1>3. ASSUME NEW c \in Clients, GiveBack(c) PROVE conn' \in [Clients -> Conns \union {None}]
  BY <1>1, <1>3 DEF GiveBack
<1>4. ASSUME NEW c \in Clients, NEW x \in Conns, Lend(c, x)
      PROVE  idle' \subseteq Conns /\ conn' \in [Clients -> Conns \union {None}]
  BY <1>1, <1>4 DEF Lend
<1>5. ASSUME NEW x \in Conns, Make(x)
      PROVE  idle' \subseteq Conns /\ conn' \in [Clients -> Conns \union {None}]
  BY <1>1, <1>5 DEF Make
<1>6. ASSUME NEW S \in SUBSET idle, Drop(S)
      PROVE  idle' \subseteq Conns /\ conn' \in [Clients -> Conns \union {None}]
  BY <1>1, <1>6 DEF Drop
<1>7. UNCHANGED lending => idle' \subseteq Conns /\ conn' \in [Clients -> Conns \union {None}]
  BY <1>1 DEF lending
<1> QED
  BY <1>2, <1>3, <1>4, <1>5, <1>6, <1>7, IsLending

\* The clients with a row keep it: nobody else moves their cursor.
CursorsPlaced == \A c \in cursor : conn[c] # None /\ m_row[conn[c]] # None

\* Everything in TypeOK but the lending and the cursors.
SessionTyped ==
  /\ up \subseteq Conns /\ auto \subseteq Conns
  /\ m_result \in [Conns -> Results \union {None}]
  /\ m_row \in [Conns -> Results \union {None}]
  /\ asker \in [Results -> Clients \union {None}]
  /\ left \in [Results -> 0 .. MaxRows]
  /\ queried \subseteq Clients /\ cursor \subseteq Clients
  /\ updates \in 0 .. MaxUpdates
  /\ pending \in [Conns -> SUBSET Updates]
  /\ lost \subseteq Updates /\ begun \subseteq Conns /\ risked \subseteq Updates

LEMMA FreedTyped ==
  ASSUME TypeOK, NEW S
  PROVE  /\ Cleared(S) \in [Conns -> Results \union {None}]
         /\ Freed(S) \in [Results -> Clients \union {None}]
  BY DEF TypeOK, Cleared, Freed

LEMMA SessionTypedStep == TypeOK /\ SNext => SessionTyped'
<1> SUFFICES ASSUME TypeOK, SNext PROVE SessionTyped'
  OBVIOUS
<1>0. SessionTyped /\ None \notin Conns /\ MaxRows \in Nat /\ MaxUpdates \in Nat
  BY SessionsAssumption DEF SessionTyped, TypeOK
<1>1. ASSUME NEW x \in Conns, Opened(x) PROVE SessionTyped'
  BY <1>0, <1>1 DEF Opened, AutocommitOn, SessionTyped, Updates
<1>2. ASSUME UNCHANGED <<results, server>> PROVE SessionTyped'
  BY <1>0, <1>2 DEF results, server, SessionTyped, Updates
<1>3. ASSUME NEW c \in Clients, Release(c) PROVE SessionTyped'
  BY <1>0, <1>3 DEF Release, server, SessionTyped, Updates
<1>4. ASSUME NEW S, Closed(S), S \subseteq Conns
      PROVE  /\ up' \subseteq Conns /\ lost' \subseteq Updates
             /\ pending' \in [Conns -> SUBSET Updates]
  <2>1. UNION {pending[x] : x \in S} \subseteq Updates
    BY <1>0, <1>4 DEF SessionTyped
  <2> QED
    BY <1>0, <1>4, <2>1 DEF Closed, SessionTyped
<1>5. ASSUME NEW S \in SUBSET idle, Delete(S) PROVE SessionTyped'
  <2>1. Closed(S) /\ S \subseteq Conns
    BY <1>5 DEF Delete, TypeOK
  <2>2. /\ m_result' \in [Conns -> Results \union {None}]
        /\ asker' \in [Results -> Clients \union {None}]
    BY <1>5, FreedTyped DEF Delete
  <2> QED
    BY <1>0, <1>4, <1>5, <2>1, <2>2 DEF Delete, SessionTyped, Updates
<1>6. ASSUME NEW x \in Conns, ServerCloses(x) PROVE SessionTyped'
  BY <1>0, <1>4, <1>6 DEF ServerCloses, results, SessionTyped, Updates
<1>7. ASSUME NEW c \in Clients, NEW x \in Conns, Query(c, x) PROVE SessionTyped'
  <2>1. queried' \subseteq Clients /\ cursor' \subseteq Clients /\ UNCHANGED <<m_row, server>>
    BY <1>0, <1>7 DEF Query, SessionTyped
  <2>2. /\ m_result' \in [Conns -> Results \union {None}]
        /\ asker' \in [Results -> Clients \union {None}]
        /\ left' \in [Results -> 0 .. MaxRows]
    <3>1. CASE /\ m_result' = Cleared(Discarded(x)) /\ asker' = Freed(Discarded(x))
               /\ UNCHANGED left
      BY <1>0, <3>1, FreedTyped DEF SessionTyped
    <3>2. ASSUME NEW r \in Results, NEW n \in 0 .. MaxRows,
                 m_result' = [m_result EXCEPT ![x] = r],
                 asker' = [Freed({x}) EXCEPT ![r] = c],
                 left' = [left EXCEPT ![r] = n]
          PROVE  /\ m_result' \in [Conns -> Results \union {None}]
                 /\ asker' \in [Results -> Clients \union {None}]
                 /\ left' \in [Results -> 0 .. MaxRows]
      <4>1. Freed({x}) \in [Results -> Clients \union {None}]
        BY FreedTyped
      <4>2. m_result' \in [Conns -> Results \union {None}]
        BY <1>0, <3>2 DEF SessionTyped
      <4>3. asker' \in [Results -> Clients \union {None}]
        BY <4>1, <3>2
      <4>4. left' \in [Results -> 0 .. MaxRows]
        BY <1>0, <3>2 DEF SessionTyped
      <4> QED
        BY <4>2, <4>3, <4>4
    <3> QED
      BY <1>7, <3>1, <3>2 DEF Query
  <2> QED
    BY <1>0, <2>1, <2>2 DEF server, SessionTyped, Updates
<1>8. ASSUME NEW c \in Clients, NEW x \in Conns, NextRow(c, x) PROVE SessionTyped'
  <2>1. UNCHANGED <<m_result, asker, queried, server>>
    BY <1>8 DEF NextRow
  <2>2. cursor' \subseteq Clients
    BY <1>0, <1>8 DEF NextRow, SessionTyped
  <2>3. m_row' \in [Conns -> Results \union {None}]
    BY <1>0, <1>8 DEF NextRow, SessionTyped
  <2>4. left' \in [Results -> 0 .. MaxRows]
    <3>1. CASE m_result[x] = None
      BY <1>0, <1>8, <3>1 DEF NextRow, SessionTyped
    <3>2. CASE m_result[x] # None
      <4>1. m_result[x] \in Results /\ left[m_result[x]] \in 0 .. MaxRows
        BY <1>0, <3>2 DEF SessionTyped
      <4>2. left' = [left EXCEPT ![m_result[x]] = IF @ = 0 THEN 0 ELSE @ - 1]
        BY <1>8, <3>2 DEF NextRow
      <4>3. (IF left[m_result[x]] = 0 THEN 0 ELSE left[m_result[x]] - 1) \in 0 .. MaxRows
        BY <1>0, <4>1
      <4> QED
        BY <1>0, <4>2, <4>3 DEF SessionTyped
    <3> QED
      BY <3>1, <3>2
  <2> QED
    BY <1>0, <2>1, <2>2, <2>3, <2>4 DEF server, SessionTyped, Updates
<1>9. ASSUME NEW c \in Clients, NEW x \in Conns, Update(c, x) PROVE SessionTyped'
  <2>1. updates' \in 0 .. MaxUpdates /\ updates' \in Updates
    BY <1>0, <1>9 DEF Update, SessionTyped, Updates
  <2>2. pending' \in [Conns -> SUBSET Updates]
    <3>1. pending[x] \union {updates'} \in SUBSET Updates
      BY <1>0, <2>1 DEF SessionTyped
    <3> QED
      BY <1>0, <1>9, <3>1 DEF Update, SessionTyped
  <2>3. risked' \subseteq Updates
    BY <1>0, <1>9, <2>1 DEF Update, SessionTyped
  <2> QED
    BY <1>0, <1>9, <2>1, <2>2, <2>3 DEF Update, results, SessionTyped, Updates
<1>10. ASSUME NEW c \in Clients, NEW x \in Conns, Transaction(c, x) PROVE SessionTyped'
  BY <1>0, <1>10 DEF Transaction, results, SessionTyped, Updates
<1>11. ASSUME NEW c \in Clients, NEW x \in Conns, Commit(c, x) \/ Rollback(c, x)
       PROVE  SessionTyped'
  <2>1. pending' = [pending EXCEPT ![x] = {}] /\ lost' \in {lost, lost \union pending[x]}
    BY <1>11 DEF Commit, Rollback
  <2>2. UNCHANGED <<results, up, auto, updates, begun, risked>>
    BY <1>11 DEF Commit, Rollback
  <2> QED
    BY <1>0, <2>1, <2>2 DEF results, SessionTyped, Updates
<1> QED
  BY <1>1, <1>2, <1>3, <1>5, <1>6, <1>7, <1>8, <1>9, <1>10, <1>11
     DEF SNext, Create, Client, GetConn

-----------------------------------------------------------------------------
(* Rows.                                                                   *)

\* What getConn and the producer do to the sessions, by where x comes from.
LEMMA Openings ==
  ASSUME TypeOK, Exclusive, SNext
  PROVE  /\ \A x \in Conns : Create(x) => Opened(x) /\ x \notin Alive
         /\ \A c \in Clients, x \in Conns :
              GetConn(c, x) => \/ x \in idle /\ UNCHANGED <<results, server>>
                               \/ x \notin Alive /\ Opened(x)
  BY DEF Create, Make, GetConn, Lend, Fresh, Alive

\* Lending a connection takes none from a client that has one.
LEMMA HoldersKeep ==
  ASSUME TypeOK, Exclusive, SNext
  PROVE  /\ \A x \in Conns : Create(x) => UNCHANGED conn
         /\ \A c \in Clients, x \in Conns :
              GetConn(c, x) => \A d \in Clients : conn[d] # None => conn'[d] = conn[d] /\ conn[d] # x
         /\ \A c \in Clients :
              Release(c) => \A d \in Clients \ {c} : conn'[d] = conn[d]
         /\ \A S \in SUBSET idle : Delete(S) => UNCHANGED conn
<1>1. conn \in [Clients -> Conns \union {None}]
  BY DEF TypeOK
<1>2. ASSUME NEW c \in Clients, NEW x \in Conns, GetConn(c, x), NEW d \in Clients, conn[d] # None
      PROVE  conn'[d] = conn[d] /\ conn[d] # x
  <2>1. Lend(c, x)
    BY <1>2 DEF GetConn
  <2>2. conn[d] \in Lent /\ conn[d] \notin idle
    BY <1>2 DEF Lent, Exclusive
  <2> QED
    BY <1>1, <1>2, <2>1, <2>2 DEF Lend, Fresh
<1> QED
  BY <1>1, <1>2 DEF Create, Make, Release, GiveBack, Delete, Drop

LEMMA CursorsStep == TypeOK /\ Exclusive /\ SNext => CursorsPlaced'
<1> SUFFICES ASSUME TypeOK, Exclusive, SNext PROVE CursorsPlaced'
  OBVIOUS
<1>0. /\ CursorsPlaced /\ cursor \subseteq Clients /\ None \notin Conns
      /\ m_row \in [Conns -> Results \union {None}]
      /\ conn \in [Clients -> Conns \union {None}]
  BY SessionsAssumption DEF TypeOK, CursorsPlaced
<1>1. ASSUME NEW x \in Conns, Opened(x), x \notin Alive,
             \A d \in Clients : conn[d] # None => conn'[d] = conn[d]
      PROVE  CursorsPlaced'
  <2>1. \A d \in Clients : conn[d] # x
    BY <1>0, <1>1 DEF Alive, Lent
  <2> QED
    BY <1>0, <1>1, <2>1 DEF Opened, CursorsPlaced
<1>2. ASSUME NEW x \in Conns, Create(x) PROVE CursorsPlaced'
  BY <1>1, <1>2, Openings, HoldersKeep
<1>3. ASSUME NEW c \in Clients, NEW x \in Conns, GetConn(c, x) PROVE CursorsPlaced'
  <2>1. \A d \in Clients : conn[d] # None => conn'[d] = conn[d]
    BY <1>3, HoldersKeep
  <2>2. CASE UNCHANGED <<results, server>>
    BY <1>0, <2>1, <2>2 DEF results, CursorsPlaced
  <2> QED
    BY <1>1, <1>3, <2>1, <2>2, Openings
<1>4. ASSUME NEW c \in Clients, Release(c) PROVE CursorsPlaced'
  <2>1. \A d \in Clients \ {c} : conn'[d] = conn[d]
    BY <1>4, HoldersKeep
  <2>2. cursor' = cursor \ {c} /\ m_row' = m_row
    BY <1>4 DEF Release
  <2> QED
    BY <1>0, <2>1, <2>2 DEF CursorsPlaced
<1>5. ASSUME NEW S \in SUBSET idle, Delete(S) PROVE CursorsPlaced'
  BY <1>0, <1>5, HoldersKeep DEF Delete, CursorsPlaced
<1>6. ASSUME UNCHANGED <<conn, m_row>>, cursor' \subseteq cursor PROVE CursorsPlaced'
  BY <1>0, <1>6 DEF CursorsPlaced
<1>7. ASSUME NEW c \in Clients, NEW x \in Conns, Query(c, x) PROVE CursorsPlaced'
  BY <1>6, <1>7 DEF Query, lending
<1>8. ASSUME NEW c \in Clients, NEW x \in Conns, NextRow(c, x) PROVE CursorsPlaced'
  <2>1. conn[c] = x /\ conn' = conn
    BY <1>8 DEF NextRow, Has, lending
  <2>2. CASE m_result[x] = None
    BY <1>6, <1>8, <2>1, <2>2 DEF NextRow
  <2>3. CASE m_result[x] # None
    <3>1. \A d \in Clients \ {c} : conn[d] # None => conn[d] # x
      BY <2>1 DEF Exclusive
    <3>2. \A y \in Conns \ {x} : m_row'[y] = m_row[y]
      BY <1>0, <1>8, <2>3 DEF NextRow
    <3>3. cursor' \subseteq cursor \union {c} /\ (c \in cursor' => m_row'[x] # None)
      BY <1>8, <2>3 DEF NextRow, GotRow
    <3> QED
      BY <1>0, <2>1, <3>1, <3>2, <3>3 DEF CursorsPlaced
  <2> QED
    BY <2>2, <2>3
<1>9. ASSUME NEW c \in Clients, NEW x \in Conns,
             Update(c, x) \/ Transaction(c, x) \/ Commit(c, x) \/ Rollback(c, x)
      PROVE  CursorsPlaced'
  BY <1>6, <1>9 DEF Update, Transaction, Commit, Rollback, lending, results
<1>10. ASSUME NEW x \in Conns, ServerCloses(x) PROVE CursorsPlaced'
  BY <1>6, <1>10 DEF ServerCloses, lending, results
<1> QED
  BY <1>2, <1>3, <1>4, <1>5, <1>7, <1>8, <1>9, <1>10 DEF SNext, Client

LEMMA TypedStep == TypeOK /\ Exclusive /\ SNext => TypeOK'
<1> SUFFICES ASSUME TypeOK, Exclusive, SNext PROVE TypeOK'
  OBVIOUS
<1>1. idle' \subseteq Conns /\ conn' \in [Clients -> Conns \union {None}]
  BY LendingTyped
<1>2. SessionTyped' /\ CursorsPlaced'
  BY SessionTypedStep, CursorsStep
<1> QED
  BY <1>1, <1>2 DEF TypeOK, SessionTyped, CursorsPlaced

-----------------------------------------------------------------------------
(* Result sets.                                                            *)

\* The result sets a and the pointers m to them belong together.
Matched(m, a) ==
  /\ \A r \in Results : a[r] # None <=> \E x \in Conns : m[x] = r
  /\ \A x, y \in Conns : m[x] = m[y] /\ m[x] # None => x = y

\* Freeing the result sets of S leaves the others with their connections.
LEMMA FreeingMatches ==
  ASSUME TypeOK, Placed, NEW S \in SUBSET Conns
  PROVE  /\ Matched(Cleared(S), Freed(S))
         /\ \A x \in Conns : Cleared(S)[x] # None => x \notin S /\ Cleared(S)[x] = m_result[x]
<1>1. None \notin Results /\ None \notin Clients
  BY SessionsAssumption
<1>2. \A x \in Conns : Cleared(S)[x] = IF x \in S THEN None ELSE m_result[x]
  BY DEF Cleared
<1>3. \A r \in Results :
        Freed(S)[r] = IF \E x \in S : m_result[x] = r THEN None ELSE asker[r]
  BY DEF Freed
<1>4. ASSUME NEW r \in Results
      PROVE  Freed(S)[r] # None <=> \E x \in Conns : Cleared(S)[x] = r
  <2>1. CASE \E x \in S : m_result[x] = r
    BY <1>1, <1>2, <1>3, <2>1 DEF Placed
  <2>2. CASE ~ \E x \in S : m_result[x] = r
    <3>1. Freed(S)[r] = asker[r]
      BY <1>3, <2>2
    <3>2. \A x \in Conns : Cleared(S)[x] = r <=> m_result[x] = r
      BY <1>1, <1>2, <2>2
    <3> QED
      BY <3>1, <3>2 DEF Placed
  <2> QED
    BY <2>1, <2>2
<1>5. \A x, y \in Conns : Cleared(S)[x] = Cleared(S)[y] /\ Cleared(S)[x] # None => x = y
  BY <1>2 DEF Placed
<1> QED
  BY <1>2, <1>4, <1>5 DEF Matched

\* What a query leaves: no result for x, or one that belonged to nobody.
LEMMA QueryFacts ==
  ASSUME TypeOK, Placed, NEW c \in Clients, NEW x \in Conns, Query(c, x)
  PROVE  /\ Matched(m_result', asker')
         /\ \A y \in Conns \ {x} :
              /\ m_result'[y] = m_result[y]
              /\ m_result[y] # None => asker'[m_result[y]] = asker[m_result[y]]
         /\ m_result'[x] # None => asker'[m_result'[x]] = c
<1>1. /\ None \notin Results /\ None \notin Clients
      /\ m_result \in [Conns -> Results \union {None}]
  BY SessionsAssumption DEF TypeOK
<1>2. /\ \A y \in Conns : Cleared({x})[y] = IF y = x THEN None ELSE m_result[y]
      /\ \A r \in Results : Freed({x})[r] = IF m_result[x] = r THEN None ELSE asker[r]
      /\ Freed({x}) \in [Results -> Clients \union {None}]
  BY FreedTyped DEF Cleared, Freed
<1>3. Matched(Cleared({x}), Freed({x}))
  BY FreeingMatches
<1>4. \A y \in Conns \ {x} : m_result[y] # None => m_result[y] # m_result[x]
  BY DEF Placed
<1>5. CASE m_result' = Cleared(Discarded(x)) /\ asker' = Freed(Discarded(x))
  <2>1. m_result' = Cleared({x}) /\ asker' = Freed({x})
    BY <1>5 DEF Discarded
  <2>2. ASSUME NEW y \in Conns \ {x}
        PROVE  /\ m_result'[y] = m_result[y]
               /\ m_result[y] # None => asker'[m_result[y]] = asker[m_result[y]]
    BY <1>1, <1>2, <1>4, <2>1
  <2> QED
    BY <1>2, <1>3, <2>1, <2>2
<1>6. ASSUME NEW r \in Results, NEW n \in 0 .. MaxRows, Freed({x})[r] = None,
             m_result' = [m_result EXCEPT ![x] = r],
             asker' = [Freed({x}) EXCEPT ![r] = c]
      PROVE  /\ Matched(m_result', asker')
             /\ \A y \in Conns \ {x} :
                  /\ m_result'[y] = m_result[y]
                  /\ m_result[y] # None => asker'[m_result[y]] = asker[m_result[y]]
             /\ m_result'[x] # None => asker'[m_result'[x]] = c
  <2>1. m_result'[x] = r /\ \A y \in Conns \ {x} : m_result'[y] = m_result[y]
    BY <1>1, <1>6
  <2>2. asker'[r] = c /\ \A q \in Results \ {r} : asker'[q] = Freed({x})[q]
    BY <1>2, <1>6
  <2>3. \A y \in Conns \ {x} : m_result[y] # r
    BY <1>2, <1>3, <1>6 DEF Matched
  <2>4. ASSUME NEW y \in Conns \ {x}, m_result[y] # None
        PROVE  asker'[m_result[y]] = asker[m_result[y]]
    BY <1>1, <1>2, <1>4, <2>2, <2>3, <2>4
  <2>5. ASSUME NEW q \in Results
        PROVE  asker'[q] # None <=> \E y \in Conns : m_result'[y] = q
    <3>1. CASE q = r
      BY <1>1, <2>1, <2>2, <3>1
    <3>2. CASE q # r
      <4>1. asker'[q] # None <=> \E y \in Conns : Cleared({x})[y] = q
        BY <1>3, <2>2, <3>2 DEF Matched
      <4>2. \A y \in Conns : Cleared({x})[y] = q <=> m_result'[y] = q
        BY <1>1, <1>2, <2>1, <3>2
      <4> QED
        BY <4>1, <4>2
    <3> QED
      BY <3>1, <3>2
  <2>6. \A y, z \in Conns : m_result'[y] = m_result'[z] /\ m_result'[y] # None => y = z
    BY <2>1, <2>3 DEF Placed
  <2> QED
    BY <2>1, <2>2, <2>4, <2>5, <2>6 DEF Matched
<1> QED
  BY <1>5, <1>6 DEF Query

LEMMA PlacedStep == TypeOK /\ Exclusive /\ Placed /\ SNext => Placed'
<1> SUFFICES ASSUME TypeOK, Exclusive, Placed, SNext PROVE Placed'
  OBVIOUS
<1>1. ASSUME UNCHANGED <<m_result, asker>>, Alive \subseteq Alive' PROVE Placed'
  BY <1>1 DEF Placed
<1>2. ASSUME NEW x \in Conns, Create(x) PROVE Placed'
  BY <1>1, <1>2, AliveFacts DEF Create, Opened
<1>3. ASSUME NEW c \in Clients, NEW x \in Conns, GetConn(c, x) PROVE Placed'
  <2>1. Alive \subseteq Alive'
    BY <1>3, AliveFacts DEF GetConn
  <2> QED
    BY <1>1, <1>3, <2>1 DEF GetConn, Opened, results
<1>4. ASSUME NEW c \in Clients, Release(c) PROVE Placed'
  BY <1>1, <1>4, AliveFacts DEF Release
<1>5. ASSUME NEW S \in SUBSET idle, Delete(S) PROVE Placed'
  <2>1. /\ Alive' = Alive \ S /\ S \in SUBSET Conns
        /\ m_result' = Cleared(S) /\ asker' = Freed(S)
    BY <1>5, AliveFacts DEF Delete, TypeOK
  <2>2. Matched(m_result', asker')
    BY <2>1, FreeingMatches
  <2>3. \A x \in Conns : m_result'[x] # None => x \in Alive'
    BY <2>1, FreeingMatches DEF Placed
  <2> QED
    BY <2>2, <2>3 DEF Matched, Placed
<1>6. ASSUME NEW c \in Clients, NEW x \in Conns, Query(c, x) PROVE Placed'
  <2>1. Alive' = Alive /\ x \in Alive
    BY <1>6, AliveFacts DEF Query, Has, Alive, Lent
  <2>2. \A y \in Conns : m_result'[y] # None => y \in Alive'
    BY <1>6, <2>1, QueryFacts DEF Placed
  <2> QED
    BY <1>6, <2>2, QueryFacts DEF Matched, Placed
<1>7. ASSUME NEW c \in Clients, NEW x \in Conns,
             \/ NextRow(c, x) \/ Update(c, x) \/ Transaction(c, x)
             \/ Commit(c, x) \/ Rollback(c, x)
      PROVE  Placed'
  BY <1>1, <1>7, AliveFacts DEF NextRow, Update, Transaction, Commit, Rollback, results
<1>8. ASSUME NEW x \in Conns, ServerCloses(x) PROVE Placed'
  BY <1>1, <1>8, AliveFacts DEF ServerCloses, results
<1> QED
  BY <1>2, <1>3, <1>4, <1>5, <1>6, <1>7, <1>8 DEF SNext, Client

-----------------------------------------------------------------------------
(* Who asked.                                                              *)

LEMMA AskedStep == TypeOK /\ Exclusive /\ Placed /\ Asked /\ SNext => Asked'
<1> SUFFICES ASSUME TypeOK, Exclusive, Placed, Asked, SNext PROVE Asked'
  OBVIOUS
<1>0. /\ queried \subseteq Clients /\ cursor \subseteq Clients
      /\ None \notin Conns /\ None \notin Results /\ None \notin Clients
      /\ conn \in [Clients -> Conns \union {None}]
      /\ m_result \in [Conns -> Results \union {None}]
      /\ m_row \in [Conns -> Results \union {None}]
      /\ \A c \in queried : c \in Clients /\ conn[c] \in Conns
  BY SessionsAssumption DEF TypeOK, Asked
<1>1. ASSUME NEW x \in Conns, Opened(x), x \notin Alive,
             \A d \in Clients : conn[d] # None => conn'[d] = conn[d]
      PROVE  Asked'
  <2>1. \A d \in queried : conn[d] # x /\ conn'[d] = conn[d]
    BY <1>0, <1>1 DEF Alive, Lent
  <2>2. \A d \in queried : m_row'[conn[d]] = m_row[conn[d]]
    BY <1>0, <1>1, <2>1 DEF Opened
  <2>3. UNCHANGED <<m_result, asker, queried, cursor>>
    BY <1>1 DEF Opened
  <2> QED
    BY <2>1, <2>2, <2>3 DEF Asked
<1>2. ASSUME NEW x \in Conns, Create(x) PROVE Asked'
  BY <1>1, <1>2, Openings, HoldersKeep
<1>3. ASSUME NEW c \in Clients, NEW x \in Conns, GetConn(c, x) PROVE Asked'
  <2>1. \A d \in Clients : conn[d] # None => conn'[d] = conn[d]
    BY <1>3, HoldersKeep
  <2>2. CASE UNCHANGED <<results, server>>
    <3>1. \A d \in queried : conn'[d] = conn[d]
      BY <1>0, <2>1
    <3> QED
      BY <2>2, <3>1 DEF results, Asked
  <2> QED
    BY <1>1, <1>3, <2>1, <2>2, Openings
<1>4. ASSUME NEW c \in Clients, Release(c) PROVE Asked'
  <2>1. \A d \in queried' : d \in queried /\ conn'[d] = conn[d]
    BY <1>0, <1>4, HoldersKeep DEF Release
  <2>2. cursor' \subseteq cursor /\ UNCHANGED <<m_result, m_row, asker>>
    BY <1>4 DEF Release
  <2> QED
    BY <2>1, <2>2 DEF Asked
<1>5. ASSUME NEW S \in SUBSET idle, Delete(S) PROVE Asked'
  <2>1. /\ S \in SUBSET Conns
        /\ m_result' = Cleared(S) /\ asker' = Freed(S)
        /\ UNCHANGED <<conn, m_row, queried, cursor>>
    BY <1>5, HoldersKeep DEF Delete, TypeOK
  <2>2. ASSUME NEW c \in queried
        PROVE  /\ m_result'[conn[c]] = m_result[conn[c]]
               /\ m_result[conn[c]] # None => asker'[m_result[conn[c]]] = asker[m_result[conn[c]]]
    <3>1. conn[c] \in Conns /\ conn[c] \notin S
      BY <1>0 DEF Exclusive
    <3>2. m_result'[conn[c]] = m_result[conn[c]]
      BY <2>1, <3>1 DEF Cleared
    <3>3. ASSUME m_result[conn[c]] # None
          PROVE  asker'[m_result[conn[c]]] = asker[m_result[conn[c]]]
      <4>1. ~ \E y \in S : m_result[y] = m_result[conn[c]]
        BY <2>1, <3>1, <3>3 DEF Placed
      <4>2. m_result[conn[c]] \in Results
        BY <1>0, <3>1, <3>3
      <4> QED
        BY <2>1, <4>1, <4>2 DEF Freed
    <3> QED
      BY <3>2, <3>3
  <2> QED
    BY <2>1, <2>2 DEF Asked
<1>6. ASSUME UNCHANGED <<conn, m_result, m_row, asker, queried>>, cursor' \subseteq cursor
      PROVE  Asked'
  BY <1>6 DEF Asked
<1>7. ASSUME NEW c \in Clients, NEW x \in Conns, Query(c, x) PROVE Asked'
  <2>1. /\ conn[c] = x /\ UNCHANGED <<conn, m_row>>
        /\ queried' = queried \union {c} /\ cursor' = cursor \ {c}
    BY <1>7 DEF Query, Has, lending
  <2>2. ASSUME NEW d \in queried, d # c
        PROVE  /\ m_result'[conn[d]] = m_result[conn[d]]
               /\ m_result[conn[d]] # None => asker'[m_result[conn[d]]] = asker[m_result[conn[d]]]
    <3>1. conn[d] \in Conns \ {x}
      BY <1>0, <2>1, <2>2 DEF Exclusive
    <3> QED
      BY <1>7, <3>1, QueryFacts
  <2>3. m_result'[conn[c]] # None => asker'[m_result'[conn[c]]] = c
    BY <1>7, <2>1, QueryFacts
  <2>4. conn[c] # None /\ c \notin cursor'
    BY <1>0, <2>1
  <2> QED
    BY <2>1, <2>2, <2>3, <2>4 DEF Asked
<1>8. ASSUME NEW c \in Clients, NEW x \in Conns, NextRow(c, x) PROVE Asked'
  <2>1. conn[c] = x /\ UNCHANGED <<conn, m_result, asker, queried>>
    BY <1>8 DEF NextRow, Has, lending
  <2>2. CASE m_result[x] = None
    BY <1>6, <1>8, <2>1, <2>2 DEF NextRow
  <2>3. CASE m_result[x] # None
    <3>1. ASSUME NEW d \in queried, d # c
          PROVE  m_row'[conn[d]] = m_row[conn[d]] /\ (d \in cursor' => d \in cursor)
      <4>1. conn[d] \in Conns \ {x}
        BY <1>0, <2>1, <3>1 DEF Exclusive
      <4> QED
        BY <1>0, <1>8, <2>3, <3>1, <4>1 DEF NextRow
    <3>2. m_row'[x] \in {None, m_result[x]}
      BY <1>0, <1>8, <2>3 DEF NextRow
    <3>3. c \in cursor' => m_row'[x] # None
      BY <1>8, <2>3 DEF NextRow, GotRow
    <3> QED
      BY <2>1, <2>3, <3>1, <3>2, <3>3 DEF Asked
  <2> QED
    BY <2>2, <2>3
<1>9. ASSUME NEW c \in Clients, NEW x \in Conns,
             Update(c, x) \/ Transaction(c, x) \/ Commit(c, x) \/ Rollback(c, x)
      PROVE  Asked'
  BY <1>6, <1>9 DEF Update, Transaction, Commit, Rollback, lending, results
<1>10. ASSUME NEW x \in Conns, ServerCloses(x) PROVE Asked'
  BY <1>6, <1>10 DEF ServerCloses, lending, results
<1> QED
  BY <1>2, <1>3, <1>4, <1>5, <1>7, <1>8, <1>9, <1>10 DEF SNext, Client

-----------------------------------------------------------------------------
(* Transactions.                                                           *)

LEMMA TaintedStep == TypeOK /\ Exclusive /\ Tainted /\ SNext => Tainted'
<1> SUFFICES ASSUME TypeOK, Exclusive, Tainted, SNext PROVE Tainted'
  OBVIOUS
<1>0. pending \in [Conns -> SUBSET Updates]
  BY DEF TypeOK
<1>1. ASSUME Alive' \subseteq Alive, UNCHANGED <<auto, begun, pending, lost, risked>>
      PROVE  Tainted'
  BY <1>1 DEF Tainted
<1>2. ASSUME NEW x \in Conns, Opened(x), Alive' = Alive \union {x} PROVE Tainted'
  <2>1. \A y \in Alive' : y \in auto' \union begun'
    BY <1>2 DEF Opened, AutocommitOn, Tainted
  <2> QED
    BY <1>2, <2>1 DEF Opened, Tainted
<1>3. ASSUME NEW x \in Conns, Create(x) PROVE Tainted'
  BY <1>2, <1>3, AliveFacts DEF Create
<1>4. ASSUME NEW c \in Clients, NEW x \in Conns, GetConn(c, x) PROVE Tainted'
  <2>1. Alive' = Alive \union {x}
    BY <1>4, AliveFacts DEF GetConn
  <2>2. CASE x \in idle
    <3>1. Alive' \subseteq Alive
      BY <2>1, <2>2 DEF Alive
    <3> QED
      BY <1>1, <1>4, <2>2, <3>1 DEF GetConn, server
  <2>3. CASE x \notin idle
    BY <1>2, <1>4, <2>1, <2>3 DEF GetConn
  <2> QED
    BY <2>2, <2>3
<1>5. ASSUME NEW c \in Clients, Release(c) PROVE Tainted'
  BY <1>1, <1>5, AliveFacts DEF Release, server
<1>6. ASSUME NEW S \in SUBSET Conns, Closed(S), Alive' \subseteq Alive, UNCHANGED <<auto, begun, risked>>
      PROVE  Tainted'
  <2>1. UNION {pending[x] : x \in S} \subseteq risked
    BY DEF Tainted
  <2>2. \A x \in Conns : pending'[x] \subseteq pending[x]
    BY <1>0, <1>6 DEF Closed
  <2> QED
    BY <1>6, <2>1, <2>2 DEF Closed, Tainted
<1>7. ASSUME NEW S \in SUBSET idle, Delete(S) PROVE Tainted'
  BY <1>6, <1>7, AliveFacts DEF Delete, TypeOK
<1>8. ASSUME NEW x \in Conns, ServerCloses(x) PROVE Tainted'
  BY <1>6, <1>8, AliveFacts DEF ServerCloses
<1>9. ASSUME NEW c \in Clients, NEW x \in Conns, Query(c, x) \/ NextRow(c, x) PROVE Tainted'
  BY <1>1, <1>9, AliveFacts DEF Query, NextRow, server
<1>10. ASSUME NEW c \in Clients, NEW x \in Conns, Update(c, x) PROVE Tainted'
  <2>1. Alive' = Alive /\ x \in Alive /\ UNCHANGED <<auto, begun, lost>>
    BY <1>10, AliveFacts DEF Update, Has, Alive, Lent
  <2>2. risked \subseteq risked' /\ (x \in begun => updates' \in risked')
    BY <1>10 DEF Update
  <2>3. CASE x \in auto
    BY <1>10, <2>1, <2>2, <2>3 DEF Update, Tainted
  <2>4. CASE x \notin auto
    <3>1. x \in begun
      BY <2>1, <2>4 DEF Tainted
    <3>2. \A y \in Conns : pending'[y] \subseteq pending[y] \union {updates'}
      BY <1>0, <1>10, <2>4 DEF Update
    <3> QED
      BY <2>1, <2>2, <3>1, <3>2 DEF Tainted
  <2> QED
    BY <2>3, <2>4
<1>11. ASSUME NEW c \in Clients, NEW x \in Conns, Transaction(c, x) PROVE Tainted'
  BY <1>11, AliveFacts DEF Transaction, Tainted
<1>12. ASSUME NEW c \in Clients, NEW x \in Conns, Commit(c, x) \/ Rollback(c, x) PROVE Tainted'
  <2>1. /\ Alive' = Alive /\ UNCHANGED <<auto, begun, risked>>
        /\ pending' = [pending EXCEPT ![x] = {}] /\ lost' \in {lost, lost \union pending[x]}
    BY <1>12, AliveFacts DEF Commit, Rollback
  <2>2. \A y \in Conns : pending'[y] \subseteq pending[y]
    BY <1>0, <2>1
  <2> QED
    BY <2>1, <2>2 DEF Tainted
<1> QED
  BY <1>3, <1>4, <1>5, <1>7, <1>8, <1>9, <1>10, <1>11, <1>12 DEF SNext, Client

-----------------------------------------------------------------------------
LEMMA IInvInit == SInit => IInv
<1> SUFFICES ASSUME SInit PROVE IInv
  OBVIOUS
<1>1. TypeOK
  BY TypedInit
<1>2. Exclusive /\ Placed
  BY SessionsAssumption DEF SInit, Exclusive, Placed
<1>3. Asked /\ Tainted
  BY DEF SInit, Asked, Tainted, Alive, Lent
<1> QED
  BY <1>1, <1>2, <1>3 DEF IInv

LEMMA IInvStep == IInv /\ [SNext]_vars => IInv'
<1>1. CASE SNext
  BY <1>1, TypedStep, ExclusiveStep, PlacedStep, AskedStep, TaintedStep DEF IInv
<1>2. ASSUME UNCHANGED vars, IInv PROVE IInv'
  <2>1. UNCHANGED <<lending, results, server>>
    BY <1>2 DEF vars
  <2>2. TypeOK'
    BY <1>2, <2>1 DEF lending, results, server, IInv, TypeOK
  <2>3. Exclusive' /\ Placed'
    BY <1>2, <2>1 DEF lending, results, IInv, Exclusive, Placed, Alive, Lent
  <2>4. Asked' /\ Tainted'
    BY <1>2, <2>1 DEF lending, results, server, IInv, Asked, Tainted, Alive, Lent
  <2> QED
    BY <2>2, <2>3, <2>4 DEF IInv
<1> QED
  BY <1>1, <1>2

\* The invariant of the clients of a pool and of the connections they share.
THEOREM Invariance == SSpec => []IInv
  BY IInvInit, IInvStep, PTL DEF SSpec

\* Every variable keeps its type; in particular next of MysqlConn.cpp returns
\* true only when there is a row.
THEOREM Typing == SSpec => []TypeOK
<1>1. IInv => TypeOK
  BY DEF IInv
<1> QED
  BY <1>1, Invariance, PTL

\* A client that calls query and then next reads rows of its own query, in
\* memory that query and freeResult of MysqlConn.cpp have not freed, however
\* often its connection has changed hands before.
THEOREM ClientsReadOwnRows == SSpec => []RowsAreOwn
<1>1. IInv => RowsAreOwn
  BY DEF IInv, Asked, RowsAreOwn
<1> QED
  BY <1>1, Invariance, PTL

\* No result set is leaked or freed twice by query and ~MysqlConn.
THEOREM NoResultLeaks == SSpec => []ResultsFreed
<1>1. IInv => ResultsFreed
  <2> SUFFICES ASSUME IInv PROVE ResultsFreed
    OBVIOUS
  <2>1. idle \union Lent = Alive /\ Alive \subseteq Conns
    BY DEF Alive, Lent, IInv, TypeOK
  <2>2. \A r \in Results : asker[r] # None <=> \E x \in Conns : m_result[x] = r
    BY DEF IInv, Placed
  <2>3. \A x \in Conns : m_result[x] # None => x \in Alive
    BY DEF IInv, Placed
  <2>4. None \notin Results
    BY SessionsAssumption
  <2>5. \A r \in Results : asker[r] # None <=> \E x \in Alive : m_result[x] = r
    BY <2>1, <2>2, <2>3, <2>4
  <2> QED
    BY <2>1, <2>5 DEF IInv, Placed, ResultsFreed
<1> QED
  BY <1>1, Invariance, PTL

\* An update that MysqlConn::update acknowledged is undone only on a
\* connection on which transaction had been called.
THEOREM UpdatesAreSafe == SSpec => []OnlyRiskedLost
<1>1. IInv => OnlyRiskedLost
  BY DEF IInv, Tainted, OnlyRiskedLost
<1> QED
  BY <1>1, Invariance, PTL

=============================================================================
