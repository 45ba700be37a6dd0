----------------------------- MODULE SharedDevice -----------------------------
(***************************************************************************)
(* What adev_open() and adev_close() promise their callers: all of them    *)
(* use one and the same device, which exists as long as one of them does.  *)
(***************************************************************************)
CONSTANTS Clients, Addrs, NULL

VARIABLES
  handle,  \* the device each client was given and has not given back, or NULL
  alive    \* the devices that exist

vars == <<handle, alive>>

Init ==
  /\ handle = [c \in Clients |-> NULL]
  /\ alive = {}

\* A client gets the device that exists, or a new one if there is none.
Join(c, a) ==
  /\ handle[c] = NULL
  /\ alive \subseteq {a}
  /\ alive' = {a}
  /\ handle' = [handle EXCEPT ![c] = a]

Leave(c) ==
  /\ handle[c] # NULL
  /\ handle' = [handle EXCEPT ![c] = NULL]
  /\ UNCHANGED alive

\* A device nobody uses is destroyed.
Destroy(a) ==
  /\ a \in alive
  /\ \A c \in Clients : handle[c] # a
  /\ alive' = alive \ {a}
  /\ UNCHANGED handle

Next ==
  \/ \E c \in Clients, a \in Addrs : Join(c, a)
  \/ \E c \in Clients : Leave(c)
  \/ \E a \in Addrs : Destroy(a)

Spec == Init /\ [][Next]_vars
=============================================================================
