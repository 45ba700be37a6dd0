---------------------------- MODULE ExclusiveSlots ----------------------------
(***************************************************************************)
(* What the device's stream tables promise the audioserver: a slot that a  *)
(* client got with its stream is that client's alone until the client      *)
(* closes the stream or the audioserver restarts.                          *)
(***************************************************************************)
CONSTANTS Clients, Slots

VARIABLES
  users,  \* the clients that have a stream
  owns    \* pairs of a slot and the client it belongs to

vars == <<users, owns>>

Init == users = {} /\ owns = {}

Open(c, s) ==
  /\ c \notin users
  /\ \A d \in Clients : <<s, d>> \notin owns
  /\ users' = users \cup {c}
  /\ owns' = owns \cup {<<s, c>>}

Close(c) ==
  /\ c \in users
  /\ users' = users \ {c}
  /\ owns' = owns \ (Slots \X {c})

Restart == users' = {} /\ owns' = {}

Next ==
  \/ \E c \in Clients, s \in Slots : Open(c, s)
  \/ \E c \in Clients : Close(c)
  \/ Restart

Spec == Init /\ [][Next]_vars
=============================================================================
