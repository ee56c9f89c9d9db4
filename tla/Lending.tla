-------------------------------- MODULE Lending --------------------------------
(***************************************************************************)
(* What a connection pool promises to its clients: each connection is idle *)
(* or lent to one client, new ones appear and idle ones are deleted, and   *)
(* none is deleted while a client has it.                                  *)
(***************************************************************************)
CONSTANTS
  Clients,  \* who borrows
  Conns,    \* addresses of connections
  None

VARIABLES
  idle,  \* the connections that exist and are not lent
  conn   \* the connection each client has

lending == <<idle, conn>>

Lent == {conn[c] : c \in Clients} \ {None}
Fresh == Conns \ (idle \union Lent)

Init == idle \subseteq Conns /\ conn = [c \in Clients |-> None]

Make(x) == x \in Fresh /\ idle' = idle \union {x} /\ UNCHANGED conn

\* To client c, an idle connection or a new one.
Lend(c, x) ==
  /\ conn[c] = None /\ x \in idle \union Fresh
  /\ idle' = idle \ {x}
  /\ conn' = [conn EXCEPT ![c] = x]

GiveBack(c) ==
  /\ conn[c] # None
  /\ idle' = idle \union {conn[c]}
  /\ conn' = [conn EXCEPT ![c] = None]

Drop(S) == S \subseteq idle /\ idle' = idle \ S /\ UNCHANGED conn

Next ==
  \/ \E x \in Conns : Make(x) \/ \E c \in Clients : Lend(c, x)
  \/ \E c \in Clients : GiveBack(c)
  \/ \E S \in SUBSET idle : Drop(S)

Spec == Init /\ [][Next]_lending

=============================================================================
