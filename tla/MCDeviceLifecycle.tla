-------------------------- MODULE MCDeviceLifecycle --------------------------
(***************************************************************************)
(* Values for model checking DeviceLifecycle.                              *)
(***************************************************************************)
EXTENDS DeviceLifecycle, TLC

\* Threads are interchangeable, and so are heap addresses.
Symmetry == Permutations(Clients) \cup Permutations(Addrs)
=============================================================================
