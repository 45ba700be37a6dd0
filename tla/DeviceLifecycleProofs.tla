------------------------ MODULE DeviceLifecycleProofs ------------------------
(***************************************************************************)
(* Theorems about DeviceLifecycle, for any number of clients that close    *)
(* only devices they hold.                                                 *)
(***************************************************************************)
EXTENDS DeviceLifecycle, FiniteSetTheorems, TLAPS

Holders == {c \in Clients : handle[c] # NULL}

\* The lock is held exactly from Lock to Unlock.
LockDiscipline ==
  \A c \in Clients :
    pc[c] \in {"open", "close", "free", "clear"} <=> init_lock = c

\* What a client holds at each place.
HeldAt ==
  \A c \in Clients :
    /\ pc[c] = "open" => handle[c] = NULL
    /\ pc[c] \in {"checked", "close"} => handle[c] # NULL
    /\ pc[c] \in {"free", "clear"} => ref_counter = 0

\* The device is allocated until the last close frees it.
Allocation ==
  /\ allocated \subseteq {xadev} \ {NULL}
  /\ ref_counter # 0 => xadev \in allocated
  /\ \A c \in Clients : pc[c] = "free" => xadev \in allocated
  /\ (ref_counter = 0 /\ \A c \in Clients : pc[c] # "free") => allocated = {}

IInv ==
  /\ TypeOK
  /\ CountsHolders
  /\ HoldersUseDevice
  /\ LockDiscipline
  /\ HeldAt
  /\ Allocation

-----------------------------------------------------------------------------
(***************************************************************************)
(* Counting the holders.                                                   *)
(***************************************************************************)
LEMMA HoldersFinite ==
  /\ IsFiniteSet(Holders)
  /\ Cardinality(Holders) \in Nat
  /\ Cardinality(Clients) \in Nat
  /\ Cardinality(Holders) <= Cardinality(Clients)
<1>1. IsFiniteSet(Holders) /\ Cardinality(Holders) <= Cardinality(Clients)
  BY FS_Subset, LifecycleAssumption DEF Holders
<1> QED
  BY <1>1, FS_CardinalityType, LifecycleAssumption

\* Nobody holds the device exactly when the count is 0.
LEMMA NobodyHolds ==
  ASSUME CountsHolders
  PROVE  ref_counter = 0 <=> \A c \in Clients : handle[c] = NULL
<1>1. ref_counter = Cardinality(Holders)
  BY DEF CountsHolders, Holders
<1>2. ref_counter = 0 <=> Holders = {}
  BY <1>1, HoldersFinite, FS_EmptySet
<1> QED
  BY <1>2 DEF Holders

\* Counting up is counting one holder more.
LEMMA OneHolderMore ==
  ASSUME TypeOK, CountsHolders, NEW c \in Clients, handle[c] = NULL,
         NEW a \in Addrs, handle' = [handle EXCEPT ![c] = a], Counted
  PROVE  /\ CountsHolders'
         /\ ref_counter' = ref_counter + 1
         /\ ref_counter' \in 0 .. Cardinality(Clients)
<1>1. ref_counter = Cardinality(Holders) /\ c \notin Holders
  BY DEF CountsHolders, Holders
<1>2. Holders' = Holders \cup {c}
  BY LifecycleAssumption DEF Holders, TypeOK
<1>3. Cardinality(Holders') = ref_counter + 1
  BY <1>1, <1>2, HoldersFinite, FS_AddElement
<1>4. Cardinality(Holders') <= Cardinality(Clients)
  BY FS_Subset, LifecycleAssumption DEF Holders
<1>5. ref_counter < UINT_MAX
  BY <1>1, <1>3, <1>4, HoldersFinite, LifecycleAssumption
<1>6. ref_counter' = ref_counter + 1
  BY <1>5, HoldersFinite, <1>1, LifecycleAssumption DEF Counted
<1> QED
  BY <1>1, <1>3, <1>4, <1>6, HoldersFinite DEF CountsHolders, Holders

\* Counting down is counting one holder less.
LEMMA OneHolderLess ==
  ASSUME TypeOK, CountsHolders, NEW c \in Clients, handle[c] # NULL,
         handle' = [handle EXCEPT ![c] = NULL], CountDown
  PROVE  /\ CountsHolders'
         /\ ref_counter # 0
         /\ ref_counter' = ref_counter - 1
         /\ ref_counter' \in 0 .. Cardinality(Clients)
<1>1. ref_counter = Cardinality(Holders) /\ c \in Holders
  BY DEF CountsHolders, Holders
<1>2. Holders' = Holders \ {c}
  BY DEF Holders, TypeOK
<1>3. Cardinality(Holders') = ref_counter - 1
  BY <1>1, <1>2, HoldersFinite, FS_RemoveElement
<1>4. ref_counter # 0
  BY NobodyHolds
<1>5. ref_counter' = ref_counter - 1
  BY <1>4 DEF CountDown
<1>6. Cardinality(Holders') \in Nat /\ ref_counter \in Nat
  BY <1>1, <1>2, HoldersFinite, FS_Subset, FS_CardinalityType
<1> QED
  BY <1>1, <1>3, <1>4, <1>5, <1>6, HoldersFinite DEF CountsHolders, Holders

-----------------------------------------------------------------------------
(***************************************************************************)
(* The invariant is inductive.                                             *)
(***************************************************************************)
LEMMA InvInit == Init => IInv
<1> SUFFICES ASSUME Init PROVE IInv
  OBVIOUS
<1>1. CountsHolders
  <2>1. Holders = {}
    BY DEF Init, Holders
  <2> QED
    BY <2>1, FS_EmptySet DEF Init, CountsHolders, Holders
<1>2. TypeOK
  BY HoldersFinite DEF Init, TypeOK
<1>3. HoldersUseDevice /\ HeldAt /\ Allocation
  BY DEF Init, HoldersUseDevice, HeldAt, Allocation
<1>4. LockDiscipline
  BY LifecycleAssumption DEF Init, LockDiscipline
<1> QED
  BY <1>1, <1>2, <1>3, <1>4 DEF IInv

LEMMA InvStep ==
  ASSUME ~StrayClose, IInv, NEW c \in Clients,
         OpenLock(c) \/ CloseCheck(c) \/ CloseLock(c) \/ Locked(c)
  PROVE  IInv'
<1> USE LifecycleAssumption DEF Lock, Unlock, Goto
<1>1. TypeOK /\ CountsHolders /\ HoldersUseDevice /\ LockDiscipline
      /\ HeldAt /\ Allocation
  BY DEF IInv
<1>2. ref_counter = 0 <=> \A d \in Clients : handle[d] = NULL
  BY <1>1, NobodyHolds
\* Taking the lock, and checking.
<1>3. ASSUME UNCHANGED <<xadev, ref_counter, allocated, handle>>,
             LockDiscipline', HeldAt',
             pc' \in [Clients -> {"idle", "open", "checked", "close", "free",
                                  "clear"}],
             init_lock' \in Clients \cup {NULL},
             \A d \in Clients : pc'[d] = "free" <=> pc[d] = "free"
      PROVE  IInv'
  <2>1. TypeOK' /\ CountsHolders' /\ HoldersUseDevice'
    BY <1>1, <1>3 DEF TypeOK, CountsHolders, HoldersUseDevice
  <2>2. Allocation'
    BY <1>1, <1>3 DEF Allocation
  <2> QED
    BY <1>3, <2>1, <2>2 DEF IInv
<1>4. CASE OpenLock(c)
  <2>1. LockDiscipline' /\ HeldAt'
    BY <1>1, <1>4 DEF OpenLock, TypeOK, LockDiscipline, HeldAt
  <2> QED
    BY <1>1, <1>3, <1>4, <2>1 DEF OpenLock, TypeOK
<1>5. CASE CloseCheck(c)
  <2>1. LockDiscipline'
    BY <1>1, <1>5 DEF CloseCheck, TypeOK, LockDiscipline
  <2>2. HeldAt'
    BY <1>1, <1>5 DEF CloseCheck, Closable, TypeOK, HeldAt
  <2> QED
    BY <1>1, <1>3, <1>5, <2>1, <2>2 DEF CloseCheck, TypeOK
<1>6. CASE CloseLock(c)
  <2>1. LockDiscipline' /\ HeldAt'
    BY <1>1, <1>6 DEF CloseLock, TypeOK, LockDiscipline, HeldAt
  <2> QED
    BY <1>1, <1>3, <1>6, <2>1 DEF CloseLock, TypeOK
\* Calls that return.
<1>7. ASSUME init_lock = c, Unlock, Goto(c, "idle"),
             \A d \in Clients \ {c} : handle'[d] = handle[d]
      PROVE  LockDiscipline' /\ HeldAt'
  <2>1. \A d \in Clients \ {c} :
          pc'[d] = pc[d] /\ pc[d] \in {"idle", "checked"}
    BY <1>1, <1>7 DEF TypeOK, LockDiscipline
  <2>2. pc'[c] = "idle"
    BY <1>1, <1>7 DEF TypeOK
  <2>3. LockDiscipline'
    BY <1>7, <2>1, <2>2 DEF LockDiscipline
  <2>4. HeldAt'
    BY <1>1, <1>7, <2>1, <2>2 DEF HeldAt
  <2> QED
    BY <2>3, <2>4
<1>8. CASE OpenExisting(c)
  <2>1. /\ init_lock = c /\ handle[c] = NULL
        /\ xadev \in Addrs /\ xadev \in allocated
    BY <1>1, <1>8
    DEF OpenExisting, LockDiscipline, HeldAt, Allocation, TypeOK
  <2>2. /\ CountsHolders' /\ ref_counter' = ref_counter + 1
        /\ ref_counter' \in 0 .. Cardinality(Clients)
    BY <1>1, <1>8, <2>1, OneHolderMore DEF OpenExisting
  <2>3. ref_counter' # 0
    BY <1>1, <2>2 DEF TypeOK
  <2>4. LockDiscipline' /\ HeldAt'
    BY <1>1, <1>7, <1>8, <2>1 DEF OpenExisting, TypeOK
  <2>5. TypeOK' /\ HoldersUseDevice'
    BY <1>1, <1>8, <2>1, <2>2 DEF OpenExisting, TypeOK, HoldersUseDevice
  <2>6. Allocation'
    BY <1>1, <1>8, <2>1, <2>3 DEF OpenExisting, Allocation, TypeOK
  <2> QED
    BY <2>2, <2>4, <2>5, <2>6 DEF IInv
<1>9. CASE OpenNew(c)
  <2>1. init_lock = c /\ \A d \in Clients : handle[d] = NULL
    BY <1>1, <1>2, <1>9 DEF OpenNew, LockDiscipline
  <2>2. PICK a \in Addrs \ allocated :
          /\ xadev' = a
          /\ allocated' = allocated \cup {a}
          /\ handle' = [handle EXCEPT ![c] = a]
    BY <1>9 DEF OpenNew
  <2>3. /\ CountsHolders' /\ ref_counter' = ref_counter + 1
        /\ ref_counter' \in 0 .. Cardinality(Clients)
    BY <1>1, <1>9, <2>1, <2>2, OneHolderMore DEF OpenNew
  <2>4. ref_counter' # 0
    BY <1>1, <2>3 DEF TypeOK
  <2>5. LockDiscipline' /\ HeldAt'
    BY <1>1, <1>7, <1>9, <2>1, <2>2 DEF OpenNew, TypeOK
  <2>6. allocated = {}
    BY <1>1, <1>9, <2>1 DEF OpenNew, Allocation, LockDiscipline
  <2>7. TypeOK' /\ HoldersUseDevice'
    BY <1>1, <1>9, <2>1, <2>2, <2>3 DEF OpenNew, TypeOK, HoldersUseDevice
  <2>8. Allocation'
    BY <1>1, <1>9, <2>2, <2>4, <2>6 DEF OpenNew, Allocation, TypeOK
  <2> QED
    BY <2>3, <2>5, <2>7, <2>8 DEF IInv
<1>10. CASE OpenNoMemory(c)
  <2>1. /\ init_lock = c /\ \A d \in Clients : handle[d] = NULL
        /\ allocated = {}
    BY <1>1, <1>2, <1>10 DEF OpenNoMemory, LockDiscipline, Allocation
  <2>2. LockDiscipline' /\ HeldAt'
    BY <1>7, <1>10, <2>1 DEF OpenNoMemory, UnlockNoMemory
  <2>3. TypeOK' /\ HoldersUseDevice' /\ CountsHolders'
    BY <1>1, <1>10, <2>1
    DEF OpenNoMemory, UnlockNoMemory, FailureNotCounted, TypeOK,
        HoldersUseDevice, CountsHolders
  <2>4. Allocation'
    BY <1>1, <1>10, <2>1
    DEF OpenNoMemory, FailureNotCounted, Allocation, TypeOK, LockDiscipline
  <2> QED
    BY <2>2, <2>3, <2>4 DEF IInv
<1>11. CASE CloseNothing(c)
  BY <1>1, <1>2, <1>11 DEF CloseNothing, NothingToClose, HeldAt
<1>12. CASE CloseDecrement(c)
  <2>1. init_lock = c /\ handle[c] # NULL /\ pc[c] = "close"
    BY <1>1, <1>12 DEF CloseDecrement, LockDiscipline, HeldAt
  <2>2. handle' = [handle EXCEPT ![c] = NULL] /\ CountDown
        /\ UNCHANGED <<xadev, allocated>>
    BY <1>12 DEF CloseDecrement
  <2>3. /\ CountsHolders' /\ ref_counter # 0 /\ ref_counter' = ref_counter - 1
        /\ ref_counter' \in 0 .. Cardinality(Clients)
    BY <1>1, <2>1, <2>2, OneHolderLess
  <2>4. ref_counter \in Nat /\ xadev \in allocated
    BY <1>1, <2>3, HoldersFinite DEF TypeOK, Allocation
  <2>5. \A d \in Clients \ {c} : pc'[d] = pc[d] /\ handle'[d] = handle[d]
          /\ pc[d] \in {"idle", "checked"}
    BY <1>1, <1>12, <2>1 DEF CloseDecrement, TypeOK, LockDiscipline
  <2>6. CASE LastReference
    <3>1. ref_counter' = 0 /\ pc'[c] = "free" /\ init_lock' = c
      BY <1>1, <1>12, <2>1, <2>3, <2>6
      DEF CloseDecrement, LastReference, TypeOK
    <3>2. TypeOK' /\ HoldersUseDevice'
      BY <1>1, <1>12, <2>2, <2>3, <2>6, <3>1
      DEF CloseDecrement, TypeOK, HoldersUseDevice
    <3>3. LockDiscipline' /\ HeldAt'
      BY <1>1, <2>5, <3>1 DEF LockDiscipline, HeldAt
    <3>4. Allocation'
      BY <1>1, <2>2, <2>4, <3>1 DEF Allocation
    <3> QED
      BY <2>3, <3>2, <3>3, <3>4 DEF IInv
  <2>7. CASE ~LastReference
    <3>1. ref_counter' # 0 /\ pc'[c] = "idle" /\ init_lock' = NULL
      BY <1>1, <1>12, <2>3, <2>4, <2>7
      DEF CloseDecrement, LastReference, TypeOK
    <3>2. LockDiscipline' /\ HeldAt'
      BY <1>1, <2>5, <3>1 DEF LockDiscipline, HeldAt
    <3>3. TypeOK' /\ HoldersUseDevice'
      BY <1>1, <1>12, <2>2, <2>3, <2>7, <3>1
      DEF CloseDecrement, TypeOK, HoldersUseDevice
    <3>4. Allocation'
      BY <1>1, <2>2, <2>4, <2>5, <3>1 DEF Allocation
    <3> QED
      BY <2>3, <3>2, <3>3, <3>4 DEF IInv
  <2> QED
    BY <2>6, <2>7
<1>13. CASE CloseFree(c)
  <2>1. /\ init_lock = c /\ ref_counter = 0
        /\ \A d \in Clients : handle[d] = NULL
        /\ allocated' = {}
    BY <1>1, <1>2, <1>13 DEF CloseFree, LockDiscipline, HeldAt, Allocation
  <2>2. TypeOK' /\ HoldersUseDevice' /\ CountsHolders'
    BY <1>1, <1>13, <2>1
    DEF CloseFree, TypeOK, HoldersUseDevice, CountsHolders
  <2>3. LockDiscipline' /\ HeldAt'
    BY <1>1, <1>13, <2>1 DEF CloseFree, TypeOK, LockDiscipline, HeldAt
  <2>4. Allocation'
    BY <1>1, <1>13, <2>1 DEF CloseFree, TypeOK, Allocation, LockDiscipline
  <2> QED
    BY <2>2, <2>3, <2>4 DEF IInv
<1>14. CASE CloseClear(c)
  <2>1. /\ init_lock = c /\ ref_counter = 0
        /\ \A d \in Clients : handle[d] = NULL
        /\ \A d \in Clients : pc[d] # "free"
        /\ allocated = {}
    BY <1>1, <1>2, <1>14 DEF CloseClear, LockDiscipline, HeldAt, Allocation
  <2>2. TypeOK' /\ HoldersUseDevice' /\ CountsHolders'
    BY <1>1, <1>14, <2>1
    DEF CloseClear, TypeOK, HoldersUseDevice, CountsHolders
  <2>3. LockDiscipline' /\ HeldAt'
    BY <1>7, <1>14, <2>1 DEF CloseClear
  <2>4. Allocation'
    BY <1>1, <1>14, <2>1 DEF CloseClear, TypeOK, Allocation
  <2> QED
    BY <2>2, <2>3, <2>4 DEF IInv
<1> QED
  BY <1>4, <1>5, <1>6, <1>8, <1>9, <1>10, <1>11, <1>12, <1>13, <1>14
  DEF Locked, CloseCounted

LEMMA InvNext == ~StrayClose /\ IInv /\ [Next]_vars => IInv'
<1>1. ASSUME IInv, UNCHANGED vars PROVE IInv'
  <2> USE <1>1 DEF vars, IInv
  <2>1. TypeOK' /\ CountsHolders' /\ HoldersUseDevice'
    BY DEF TypeOK, CountsHolders, HoldersUseDevice
  <2>2. LockDiscipline' /\ HeldAt' /\ Allocation'
    BY DEF LockDiscipline, HeldAt, Allocation
  <2> QED
    BY <2>1, <2>2
<1> QED
  BY <1>1, InvStep DEF Next

-----------------------------------------------------------------------------
(***************************************************************************)
(* Theorems.                                                               *)
(***************************************************************************)

\* The inductive invariant holds in every reachable state.
THEOREM Invariance == ~StrayClose => (Spec => []IInv)
<1>1. ASSUME ~StrayClose PROVE IInv /\ [Next]_vars => IInv'
  BY <1>1, InvNext
<1>2. ASSUME ~StrayClose PROVE Spec => []IInv
  BY <1>1, <1>2, InvInit, PTL DEF Spec
<1> QED
  BY <1>2

\* ref_counter is the number of clients that hold the device (so it neither
\* wraps around nor drops below zero), and the device a client holds is the
\* one device, still allocated.
THEOREM DeviceShared ==
  ~StrayClose => (Spec => [](CountsHolders /\ HoldersUseDevice))
<1>1. IInv => CountsHolders /\ HoldersUseDevice
  BY DEF IInv
<1> QED
  BY <1>1, Invariance, PTL

\* The comparison adev_close() makes without the lock never races with an
\* assignment of xadev.
THEOREM CheckRaceFree == ~StrayClose => (Spec => []CheckIsStable)
<1>1. IInv => CheckIsStable
  <2> SUFFICES ASSUME IInv, NEW c \in Clients, NEW d \in Clients,
                      handle[c] # NULL
               PROVE  /\ pc[d] \notin {"free", "clear"}
                      /\ pc[d] = "open" => ref_counter # 0
    BY DEF CheckIsStable
  <2>1. ref_counter # 0
    BY NobodyHolds DEF IInv
  <2> QED
    BY <2>1 DEF IInv, HeldAt
<1> QED
  BY <1>1, Invariance, PTL

\* Initial states map to initial states, steps to steps or stutters.
LEMMA SharedInit == Init => Shared!Init
BY DEF Init, Shared!Init

LEMMA SharedStep == ~StrayClose /\ IInv /\ [Next]_vars => [Shared!Next]_Shared!vars
<1> SUFFICES ASSUME ~StrayClose, IInv, [Next]_vars
             PROVE  [Shared!Next]_Shared!vars
  OBVIOUS
<1> USE DEF Shared!vars, Shared!Next, Goto, Lock, Unlock
<1>1. CASE UNCHANGED vars
  BY <1>1 DEF vars
<1>2. ASSUME NEW c \in Clients,
             OpenLock(c) \/ CloseCheck(c) \/ CloseLock(c) \/ Locked(c)
      PROVE  [Shared!Next]_Shared!vars
  <2>1. CASE \/ OpenLock(c) \/ CloseCheck(c) \/ CloseLock(c)
             \/ OpenNoMemory(c) \/ CloseNothing(c) \/ CloseClear(c)
    BY <2>1 DEF OpenLock, CloseCheck, CloseLock, OpenNoMemory, CloseNothing,
                CloseClear
  <2>2. CASE OpenExisting(c)
    <3>1. /\ handle[c] = NULL /\ allocated = {xadev} /\ xadev \in Addrs
          /\ handle' = [handle EXCEPT ![c] = xadev] /\ allocated' = allocated
      BY <2>2 DEF OpenExisting, IInv, HeldAt, Allocation, TypeOK
    <3>2. Shared!Join(c, xadev)
      BY <3>1 DEF Shared!Join
    <3> QED
      BY <3>1, <3>2
  <2>3. CASE OpenNew(c)
    <3>1. handle[c] = NULL /\ allocated = {}
      BY <2>3, LifecycleAssumption
      DEF OpenNew, IInv, HeldAt, Allocation, LockDiscipline
    <3>2. PICK a \in Addrs \ allocated :
            /\ allocated' = allocated \cup {a}
            /\ handle' = [handle EXCEPT ![c] = a]
      BY <2>3 DEF OpenNew
    <3>3. Shared!Join(c, a)
      BY <3>1, <3>2 DEF Shared!Join
    <3> QED
      BY <3>2, <3>3
  <2>4. CASE CloseDecrement(c)
    <3>1. Shared!Leave(c)
      BY <2>4 DEF CloseDecrement, Shared!Leave, IInv, HeldAt
    <3> QED
      BY <3>1
  <2>5. CASE CloseFree(c)
    <3>1. ref_counter = 0 /\ xadev \in allocated /\ xadev \in Addrs
      BY <2>5 DEF CloseFree, IInv, HeldAt, Allocation, TypeOK
    <3>2. \A d \in Clients : handle[d] # xadev
      BY <3>1, NobodyHolds, LifecycleAssumption DEF IInv
    <3>3. Shared!Destroy(xadev)
      BY <2>5, <3>1, <3>2 DEF CloseFree, Shared!Destroy
    <3> QED
      BY <3>1, <3>3
  <2> QED
    BY <1>2, <2>1, <2>2, <2>3, <2>4, <2>5 DEF Locked, CloseCounted
<1> QED
  BY <1>1, <1>2 DEF Next

\* adev_open() and adev_close() implement SharedDevice: all callers use one
\* device, which exists as long as one of them does.
THEOREM Implements == ~StrayClose => (Spec => SharedSpec)
<1>1. ASSUME ~StrayClose PROVE Spec => SharedSpec
  <2>1. Spec => []IInv
    BY <1>1, Invariance
  <2>2. IInv /\ [Next]_vars => [Shared!Next]_Shared!vars
    BY <1>1, SharedStep
  <2> QED
    BY <2>1, <2>2, SharedInit, PTL DEF Spec, SharedSpec, Shared!Spec
<1> QED
  BY <1>1
=============================================================================
