--------------------------- MODULE StrayCloseProofs ---------------------------
(***************************************************************************)
(* Theorems about DeviceLifecycle that hold whatever devices the clients   *)
(* close and whenever: one may close another one's device, and a device    *)
(* that somebody is about to close may go away before it gets the lock.    *)
(***************************************************************************)
EXTENDS DeviceLifecycleProofs

\* A close that nobody is entitled to counts, too, so that the count can be
\* smaller than the number of clients that believe they hold the device.
CountBounded ==
  /\ ref_counter <= Cardinality(Holders)
  /\ \A c \in Clients : pc[c] = "open" => handle[c] = NULL

\* The device is kept until the last close has freed it.
Existence ==
  /\ \A c \in Clients : pc[c] \in {"free", "clear"} => ref_counter = 0
  /\ (ref_counter = 0 /\ \A c \in Clients : pc[c] \notin {"free", "clear"})
       => xadev = NULL

SInv == TypeOK /\ CountBounded /\ LockDiscipline /\ Allocation /\ Existence

-----------------------------------------------------------------------------
(***************************************************************************)
(* The invariant is inductive.                                             *)
(***************************************************************************)

\* Nothing is allocated and nobody is in a call.
LEMMA StrayInit == Init => SInv
<1> SUFFICES ASSUME Init PROVE SInv
  OBVIOUS
<1>1. TypeOK /\ LockDiscipline /\ Allocation
  BY InvInit DEF IInv
<1>2. CountBounded
  BY HoldersFinite DEF Init, CountBounded
<1>3. Existence
  BY DEF Init, Existence
<1> QED
  BY <1>1, <1>2, <1>3 DEF SInv

\* An open that succeeds is counted, and its client is one holder more.
LEMMA CountedUp ==
  ASSUME TypeOK, CountBounded, NEW c \in Clients, handle[c] = NULL,
         NEW a \in Addrs, handle' = [handle EXCEPT ![c] = a], Counted
  PROVE  /\ ref_counter' = ref_counter + 1
         /\ ref_counter' <= Cardinality(Holders')
         /\ ref_counter' \in 0 .. Cardinality(Clients)
<1>1. ref_counter <= Cardinality(Holders) /\ c \notin Holders
  BY DEF CountBounded, Holders
<1>2. Holders' = Holders \cup {c}
  BY LifecycleAssumption DEF Holders, TypeOK
<1>3. Cardinality(Holders') = Cardinality(Holders) + 1
  BY <1>1, <1>2, HoldersFinite, FS_AddElement
<1>4. Cardinality(Holders') <= Cardinality(Clients)
  BY FS_Subset, LifecycleAssumption DEF Holders
<1>5. ref_counter \in Nat
  BY HoldersFinite DEF TypeOK
<1>6. ref_counter < UINT_MAX
  BY <1>1, <1>3, <1>4, <1>5, HoldersFinite, LifecycleAssumption
<1>7. ref_counter' = ref_counter + 1
  BY <1>5, <1>6, LifecycleAssumption DEF Counted
<1> QED
  BY <1>1, <1>3, <1>4, <1>5, <1>7, HoldersFinite

\* A close that counts takes at most one holder away.
LEMMA CountedDown ==
  ASSUME TypeOK, CountBounded, NEW c \in Clients, ref_counter # 0,
         handle' = [handle EXCEPT ![c] = NULL], CountDown
  PROVE  /\ ref_counter' = ref_counter - 1
         /\ ref_counter' <= Cardinality(Holders')
         /\ ref_counter' \in 0 .. Cardinality(Clients)
<1>1. ref_counter \in Nat /\ ref_counter <= Cardinality(Clients)
  BY HoldersFinite DEF TypeOK
<1>2. ref_counter' = ref_counter - 1
  BY DEF CountDown
<1>3. Holders' = Holders \ {c}
  BY DEF Holders, TypeOK
<1>4. Cardinality(Holders') >= Cardinality(Holders) - 1
      /\ Cardinality(Holders') \in Nat
  <2>1. CASE c \in Holders
    BY <1>3, <2>1, HoldersFinite, FS_RemoveElement, FS_Subset, FS_CardinalityType
  <2>2. CASE c \notin Holders
    <3>1. Holders' = Holders
      BY <1>3, <2>2
    <3> QED
      BY <3>1, HoldersFinite
  <2> QED
    BY <2>1, <2>2
<1> QED
  BY <1>1, <1>2, <1>4, HoldersFinite DEF CountBounded

\* Every step preserves the invariant.
LEMMA StrayStep ==
  ASSUME SInv, NEW c \in Clients,
         OpenLock(c) \/ CloseCheck(c) \/ CloseLock(c) \/ Locked(c)
  PROVE  SInv'
<1> USE LifecycleAssumption DEF Lock, Unlock, Goto, SInv
\* Taking the lock, and checking.
<1>1. ASSUME UNCHANGED <<xadev, ref_counter, allocated, handle>>,
             init_lock' \in Clients \cup {NULL}, NEW l \in {"open", "checked", "close"},
             pc' = [pc EXCEPT ![c] = l], LockDiscipline',
             l = "open" => handle[c] = NULL, pc[c] \in {"idle", "checked"}
      PROVE  SInv'
  <2>1. \A d \in Clients : pc'[d] = IF d = c THEN l ELSE pc[d]
    BY <1>1 DEF TypeOK
  <2>2. TypeOK'
    BY <1>1 DEF TypeOK
  <2>3. CountBounded'
    BY <1>1, <2>1 DEF CountBounded, Holders
  <2>4. Allocation' /\ Existence'
    BY <1>1, <2>1 DEF Allocation, Existence
  <2> QED
    BY <1>1, <2>2, <2>3, <2>4
<1>2. CASE OpenLock(c)
  <2>1. LockDiscipline'
    BY <1>2 DEF OpenLock, TypeOK, LockDiscipline
  <2> QED
    BY <1>1, <1>2, <2>1 DEF OpenLock
<1>3. CASE CloseCheck(c)
  <2>1. LockDiscipline'
    BY <1>3 DEF CloseCheck, TypeOK, LockDiscipline
  <2> QED
    BY <1>1, <1>3, <2>1 DEF CloseCheck, TypeOK
<1>4. CASE CloseLock(c)
  <2>1. LockDiscipline'
    BY <1>4 DEF CloseLock, TypeOK, LockDiscipline
  <2> QED
    BY <1>1, <1>4, <2>1 DEF CloseLock
\* The lock keeps the others out.
<1>5. ASSUME Locked(c)
      PROVE  /\ init_lock = c
             /\ \A d \in Clients \ {c} : pc'[d] = pc[d] /\ pc[d] \in {"idle", "checked"}
  <2>1. init_lock = c
    BY <1>5 DEF Locked, CloseCounted, OpenExisting, OpenNew, OpenNoMemory,
                CloseNothing, CloseDecrement, CloseFree, CloseClear,
                LockDiscipline
  <2>2. \A d \in Clients \ {c} : pc[d] \in {"idle", "checked"}
    BY <2>1 DEF TypeOK, LockDiscipline
  <2>3. \A d \in Clients \ {c} : pc'[d] = pc[d]
    BY <1>5 DEF Locked, CloseCounted, OpenExisting, OpenNew, OpenNoMemory,
                CloseNothing, CloseDecrement, CloseFree, CloseClear, TypeOK
  <2> QED
    BY <2>1, <2>2, <2>3
<1>6. CASE OpenExisting(c)
  <2>1. /\ handle[c] = NULL /\ xadev \in Addrs /\ pc'[c] = "idle"
        /\ handle' = [handle EXCEPT ![c] = xadev] /\ Counted
        /\ init_lock' = NULL /\ UNCHANGED <<xadev, allocated>>
    BY <1>6 DEF OpenExisting, CountBounded, Allocation, TypeOK
  <2>2. /\ ref_counter' = ref_counter + 1 /\ ref_counter' <= Cardinality(Holders')
        /\ ref_counter' \in 0 .. Cardinality(Clients)
    BY <2>1, CountedUp
  <2>3. ref_counter' # 0 /\ ref_counter # 0
    BY <1>6, <2>2, HoldersFinite DEF TypeOK, OpenExisting
  <2>4. \A d \in Clients \ {c} : pc'[d] = pc[d] /\ pc[d] \in {"idle", "checked"}
    BY <1>5, <1>6 DEF Locked, CloseCounted
  <2>5. TypeOK'
    BY <1>6, <2>1, <2>2 DEF OpenExisting, TypeOK
  <2>6. CountBounded' /\ LockDiscipline'
    BY <2>1, <2>2, <2>4 DEF CountBounded, LockDiscipline
  <2>7. Allocation' /\ Existence'
    BY <2>1, <2>3, <2>4 DEF Allocation, Existence
  <2> QED
    BY <2>5, <2>6, <2>7
<1>7. CASE OpenNew(c)
  <2>1. PICK a \in Addrs \ allocated :
          /\ xadev' = a
          /\ allocated' = allocated \cup {a}
          /\ handle' = [handle EXCEPT ![c] = a]
    BY <1>7 DEF OpenNew
  <2>2. /\ handle[c] = NULL /\ ref_counter = 0 /\ Counted /\ init_lock' = NULL
        /\ pc'[c] = "idle" /\ pc[c] = "open"
    BY <1>7 DEF OpenNew, CountBounded, TypeOK
  <2>3. /\ ref_counter' = ref_counter + 1 /\ ref_counter' <= Cardinality(Holders')
        /\ ref_counter' \in 0 .. Cardinality(Clients)
    BY <2>1, <2>2, CountedUp
  <2>4. \A d \in Clients \ {c} : pc'[d] = pc[d] /\ pc[d] \in {"idle", "checked"}
    BY <1>5, <1>7 DEF Locked, CloseCounted
  <2>5. allocated = {}
    BY <2>2, <2>4 DEF Allocation
  <2>6. TypeOK'
    BY <1>7, <2>1, <2>3 DEF OpenNew, TypeOK
  <2>7. CountBounded' /\ LockDiscipline'
    BY <2>1, <2>2, <2>3, <2>4 DEF CountBounded, LockDiscipline
  <2>8. ref_counter' # 0
    BY <2>2, <2>3
  <2>9. Allocation' /\ Existence'
    BY <2>1, <2>2, <2>4, <2>5, <2>8 DEF Allocation, Existence
  <2> QED
    BY <2>6, <2>7, <2>9
<1>8. CASE OpenNoMemory(c) \/ CloseNothing(c) \/ CloseClear(c)
  <2>1. /\ init_lock' = NULL /\ pc'[c] = "idle" /\ ref_counter = 0
        /\ pc[c] # "free" /\ xadev' \in {xadev, NULL}
        /\ UNCHANGED <<ref_counter, allocated, handle>>
        /\ pc[c] \in {"open", "clear"} => xadev' = NULL
    BY <1>8 DEF OpenNoMemory, UnlockNoMemory, FailureNotCounted, CloseNothing,
                NothingToClose, CloseClear, Existence, TypeOK
  <2>2. \A d \in Clients \ {c} : pc'[d] = pc[d] /\ pc[d] \in {"idle", "checked"}
    BY <1>5, <1>8 DEF Locked, CloseCounted, CloseNothing
  <2>3. TypeOK'
    BY <1>8, <2>1 DEF OpenNoMemory, CloseNothing, CloseClear, TypeOK
  <2>4. CountBounded' /\ LockDiscipline'
    BY <2>1, <2>2 DEF CountBounded, LockDiscipline, Holders
  <2>5. Allocation'
    BY <2>1, <2>2 DEF Allocation
  <2>6. Existence'
    BY <1>8, <2>1, <2>2
    DEF OpenNoMemory, CloseNothing, CloseClear, Existence
  <2> QED
    BY <2>3, <2>4, <2>5, <2>6
<1>9. CASE CloseDecrement(c)
  <2>1. /\ ref_counter # 0 /\ handle' = [handle EXCEPT ![c] = NULL] /\ CountDown
        /\ UNCHANGED <<xadev, allocated>>
    BY <1>9 DEF CloseDecrement, NothingToClose
  <2>2. /\ ref_counter' = ref_counter - 1 /\ ref_counter' <= Cardinality(Holders')
        /\ ref_counter' \in 0 .. Cardinality(Clients) /\ ref_counter \in Nat
    <3>1. TypeOK /\ CountBounded
      OBVIOUS
    <3>2. ref_counter \in Nat
      BY HoldersFinite DEF TypeOK
    <3> QED
      BY <2>1, <3>1, <3>2, CountedDown
  <2>3. \A d \in Clients \ {c} : pc'[d] = pc[d] /\ pc[d] \in {"idle", "checked"}
    BY <1>5, <1>9 DEF Locked, CloseCounted, CloseDecrement
  <2>4. /\ ref_counter = 1 => pc'[c] = "free" /\ init_lock' = c
        /\ ref_counter # 1 => pc'[c] = "idle" /\ init_lock' = NULL
    BY <1>5, <1>9
    DEF CloseDecrement, LastReference, TypeOK, Locked, CloseCounted
  <2>5. TypeOK'
    BY <1>9, <2>1, <2>2, <2>4 DEF CloseDecrement, TypeOK
  <2>6. CountBounded' /\ LockDiscipline'
    BY <2>1, <2>2, <2>3, <2>4 DEF CountBounded, LockDiscipline
  <2>7. Allocation' /\ Existence'
    BY <2>1, <2>2, <2>3, <2>4 DEF Allocation, Existence
  <2> QED
    BY <2>5, <2>6, <2>7
<1>10. CASE CloseFree(c)
  <2>1. /\ ref_counter = 0 /\ allocated' = {} /\ pc'[c] = "clear" /\ init_lock = c
        /\ UNCHANGED <<xadev, ref_counter, init_lock, handle>>
    BY <1>5, <1>10
    DEF CloseFree, Existence, Allocation, TypeOK, Locked, CloseCounted
  <2>2. \A d \in Clients \ {c} : pc'[d] = pc[d] /\ pc[d] \in {"idle", "checked"}
    BY <1>5, <1>10 DEF Locked, CloseCounted
  <2>3. TypeOK'
    BY <1>10, <2>1 DEF CloseFree, TypeOK
  <2>4. CountBounded' /\ LockDiscipline'
    BY <2>1, <2>2 DEF CountBounded, LockDiscipline, Holders
  <2>5. Allocation' /\ Existence'
    BY <2>1, <2>2 DEF Allocation, Existence
  <2> QED
    BY <2>3, <2>4, <2>5
<1> QED
  BY <1>2, <1>3, <1>4, <1>6, <1>7, <1>8, <1>9, <1>10 DEF Locked, CloseCounted

\* The inductive invariant is an invariant.
LEMMA StrayInvariance == Spec => []SInv
<1>1. ASSUME SInv, UNCHANGED vars PROVE SInv'
  BY <1>1 DEF vars, SInv, TypeOK, CountBounded, Holders, LockDiscipline,
              Allocation, Existence
<1>2. SInv /\ [Next]_vars => SInv'
  BY <1>1, StrayStep DEF Next
<1> QED
  BY <1>2, StrayInit, PTL DEF Spec

-----------------------------------------------------------------------------
\* The variables have their types: the count neither wraps around nor drops
\* below zero, however often strangers close the device.
THEOREM LifecycleTypes == Spec => []TypeOK
<1>1. SInv => TypeOK
  BY DEF SInv
<1> QED
  BY <1>1, StrayInvariance, PTL

\* Whenever xadev_init_lock is free one device exists, and is allocated, exactly
\* when it is counted: the test adev_close() repeats under the lock is enough.
THEOREM DeviceCounted == Spec => []DeviceIffCounted
<1>1. SInv => DeviceIffCounted
  <2> SUFFICES ASSUME SInv, init_lock = NULL
               PROVE  /\ xadev # NULL <=> ref_counter # 0
                      /\ allocated = {xadev} \ {NULL}
                      /\ ref_counter <= Cardinality(Clients)
    BY DEF DeviceIffCounted
  <2>1. \A c \in Clients : pc[c] \notin {"free", "clear"}
    BY LifecycleAssumption DEF SInv, LockDiscipline
  <2>2. xadev # NULL <=> ref_counter # 0
    BY <2>1, LifecycleAssumption DEF SInv, Existence, Allocation, TypeOK
  <2>3. allocated = {xadev} \ {NULL}
    BY <2>1, <2>2 DEF SInv, Allocation
  <2>4. ref_counter <= Cardinality(Clients)
    BY HoldersFinite DEF SInv, TypeOK
  <2> QED
    BY <2>2, <2>3, <2>4
<1> QED
  BY <1>1, StrayInvariance, PTL

-----------------------------------------------------------------------------
(***************************************************************************)
(* The part of LockReleased that needs no fairness: what the holder of     *)
(* xadev_init_lock does leads to its release.                              *)
(***************************************************************************)

\* How many steps a client has to do at most before it unlocks.
StepsLocked(label) ==
  CASE label = "close" -> 3
    [] label = "free" -> 2
    [] label \in {"open", "clear"} -> 1
    [] label \in {"idle", "checked"} -> 0

\* While a client holds the lock, a step releases it, or brings its holder
\* nearer to the release, or is another client's unlocked comparison.
ReleaseComesNearer ==
  [][\A c \in Clients : init_lock = c =>
       /\ StepsLocked(pc[c]) > 0
       /\ \/ init_lock' = NULL
          \/ init_lock' = c /\ StepsLocked(pc'[c]) < StepsLocked(pc[c])
          \/ /\ UNCHANGED <<init_lock, pc[c]>>
             /\ \E d \in Clients \ {c} : CloseCheck(d)]_vars

\* One step of it.
LEMMA ReleaseStep ==
  ASSUME SInv, Next, NEW c \in Clients, init_lock = c
  PROVE  /\ StepsLocked(pc[c]) > 0
         /\ \/ init_lock' = NULL
            \/ init_lock' = c /\ StepsLocked(pc'[c]) < StepsLocked(pc[c])
            \/ /\ UNCHANGED <<init_lock, pc[c]>>
               /\ \E d \in Clients \ {c} : CloseCheck(d)
<1> USE LifecycleAssumption DEF Unlock, Goto
<1>1. /\ pc[c] \in {"open", "close", "free", "clear"}
      /\ pc \in [Clients -> {"idle", "open", "checked", "close", "free", "clear"}]
  BY DEF SInv, TypeOK, LockDiscipline
<1>2. StepsLocked(pc[c]) > 0
  BY <1>1 DEF StepsLocked
<1>3. PICK d \in Clients :
        OpenLock(d) \/ CloseCheck(d) \/ CloseLock(d) \/ Locked(d)
  BY DEF Next
<1>4. ~OpenLock(d) /\ ~CloseLock(d)
  BY DEF OpenLock, CloseLock, Lock
<1>5. CASE CloseCheck(d)
  <2>1. d # c
    BY <1>1, <1>5 DEF CloseCheck
  <2>2. UNCHANGED <<init_lock, pc[c]>>
    BY <1>1, <1>5, <2>1 DEF CloseCheck
  <2> QED
    BY <1>2, <1>5, <2>1, <2>2
<1>6. CASE Locked(d)
  <2>1. d = c
    BY <1>6
    DEF SInv, LockDiscipline, Locked, CloseCounted, OpenExisting, OpenNew,
        OpenNoMemory, CloseNothing, CloseDecrement, CloseFree, CloseClear
  <2>2. CASE OpenExisting(c) \/ OpenNew(c) \/ OpenNoMemory(c)
             \/ CloseNothing(c) \/ CloseClear(c)
    BY <1>2, <2>2
    DEF OpenExisting, OpenNew, OpenNoMemory, UnlockNoMemory, CloseNothing,
        CloseClear
  <2>3. CASE CloseDecrement(c)
    <3>1. CASE init_lock' = NULL
      BY <1>2, <3>1
    <3>2. CASE init_lock' # NULL
      <4>1. pc[c] = "close" /\ pc'[c] = "free" /\ init_lock' = c
        BY <1>1, <2>3, <3>2 DEF CloseDecrement
      <4> QED
        BY <1>2, <4>1 DEF StepsLocked
    <3> QED
      BY <3>1, <3>2
  <2>4. CASE CloseFree(c)
    <3>1. pc[c] = "free" /\ pc'[c] = "clear" /\ init_lock' = c
      BY <1>1, <2>4 DEF CloseFree
    <3> QED
      BY <1>2, <3>1 DEF StepsLocked
  <2> QED
    BY <1>6, <2>1, <2>2, <2>3, <2>4 DEF Locked, CloseCounted
<1> QED
  BY <1>3, <1>4, <1>5, <1>6

\* Whoever takes xadev_init_lock is at most three steps of its own away from
\* releasing it, whatever the others do, also when calloc() fails and
\* when there is nothing to close.
THEOREM ReleaseNears == Spec => ReleaseComesNearer
<1> DEFINE Nearer ==
      \A c \in Clients : init_lock = c =>
        /\ StepsLocked(pc[c]) > 0
        /\ \/ init_lock' = NULL
           \/ init_lock' = c /\ StepsLocked(pc'[c]) < StepsLocked(pc[c])
           \/ /\ UNCHANGED <<init_lock, pc[c]>>
              /\ \E d \in Clients \ {c} : CloseCheck(d)
<1>1. SInv /\ [Next]_vars => [Nearer]_vars
  BY ReleaseStep
<1> QED
  BY <1>1, StrayInvariance, PTL DEF Spec, ReleaseComesNearer
=============================================================================
