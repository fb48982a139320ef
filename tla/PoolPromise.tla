---------------------------- MODULE PoolPromise ----------------------------
(***************************************************************************)
(* What a pool of connections promises its users, without lists, counters  *)
(* or waiting: a connection has one user at a time, a user has one         *)
(* connection at a time, and it gets it in the state a new one is in.      *)
(***************************************************************************)

CONSTANTS User, Conn, Nobody

VARIABLES
  holder,   \* the user of each connection, or Nobody
  clean     \* nothing of its last user is left on the connection

vars == <<holder, clean>>

Init ==
  /\ holder = [c \in Conn |-> Nobody]
  /\ clean  = [c \in Conn |-> TRUE]

Borrow(u, c) ==
  /\ holder[c] = Nobody
  /\ clean[c]
  /\ \A d \in Conn : holder[d] # u
  /\ holder' = [holder EXCEPT ![c] = u]
  /\ UNCHANGED clean

Talk(u, c) ==
  /\ holder[c] = u
  /\ \E b \in BOOLEAN : clean' = [clean EXCEPT ![c] = b]
  /\ UNCHANGED holder

GiveBack(u, c) ==
  /\ holder[c] = u
  /\ holder' = [holder EXCEPT ![c] = Nobody]
  /\ \E b \in BOOLEAN : clean' = [clean EXCEPT ![c] = b]

\* A connection that could not be cleaned is closed.
Discard(c) ==
  /\ holder[c] = Nobody
  /\ clean' = [clean EXCEPT ![c] = TRUE]
  /\ UNCHANGED holder

Next ==
  \E c \in Conn :
    \/ Discard(c)
    \/ \E u \in User : Borrow(u, c) \/ Talk(u, c) \/ GiveBack(u, c)

Spec == Init /\ [][Next]_vars
=============================================================================
