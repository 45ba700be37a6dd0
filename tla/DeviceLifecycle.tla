--------------------------- MODULE DeviceLifecycle ---------------------------
(***************************************************************************)
(* adev_open() and adev_close() (device.c): the one device of the process, *)
(* xadev, shared by all callers and counted by ref_counter.                *)
(*                                                                         *)
(* Both variables are protected by xadev_init_lock, except that            *)
(* adev_close() compares its argument with xadev before it takes the lock. *)
(* Every access to shared state is a step: what happens under the lock is  *)
(* split where the unlocked comparison could see the difference.           *)
(***************************************************************************)
EXTENDS Naturals, FiniteSets

CONSTANTS
  Clients,     \* threads of the HAL service that open and close the device
  Addrs,       \* heap addresses calloc() may return for a device
  NULL,
  UINT_MAX,    \* largest value of ref_counter
  StrayClose   \* TRUE: a client may close a device it does not hold

ASSUME LifecycleAssumption ==
  /\ IsFiniteSet(Clients)
  /\ NULL \notin Clients \cup Addrs
  /\ UINT_MAX \in Nat /\ Cardinality(Clients) <= UINT_MAX
  /\ StrayClose \in BOOLEAN

VARIABLES
  xadev,        \* the device, or NULL
  ref_counter,  \* opens that were not closed yet
  init_lock,    \* the client that holds xadev_init_lock, or NULL
  allocated,    \* devices calloc() returned and free() did not take back
  handle,       \* the device each client holds, or NULL
  pc            \* where each client is in adev_open() or adev_close()

vars == <<xadev, ref_counter, init_lock, allocated, handle, pc>>

TypeOK ==
  /\ xadev \in Addrs \cup {NULL}
  /\ ref_counter \in 0 .. Cardinality(Clients)
  /\ init_lock \in Clients \cup {NULL}
  /\ allocated \subseteq Addrs
  /\ handle \in [Clients -> Addrs \cup {NULL}]
  /\ pc \in [Clients -> {"idle", "open", "checked", "close", "free", "clear"}]

Init ==
  /\ xadev = NULL
  /\ ref_counter = 0
  /\ init_lock = NULL
  /\ allocated = {}
  /\ handle = [c \in Clients |-> NULL]
  /\ pc = [c \in Clients |-> "idle"]

Goto(c, label) == pc' = [pc EXCEPT ![c] = label]

Lock(c) == init_lock = NULL /\ init_lock' = c

Unlock == init_lock' = NULL

\* Mutant: the return that forgets to unlock.
LockKept == UNCHANGED init_lock

\* The unlock of the return with -ENOMEM.
UnlockNoMemory == Unlock

-----------------------------------------------------------------------------
(***************************************************************************)
(* adev_open()                                                             *)
(***************************************************************************)
OpenLock(c) ==
  /\ pc[c] = "idle" /\ handle[c] = NULL
  /\ Lock(c)
  /\ Goto(c, "open")
  /\ UNCHANGED <<xadev, ref_counter, allocated, handle>>

\* Mutant: the existing device is returned without being counted.
NotCounted == UNCHANGED ref_counter

Counted ==
  ref_counter' = IF ref_counter = UINT_MAX THEN 0 ELSE ref_counter + 1

\* The device exists.
OpenExisting(c) ==
  /\ pc[c] = "open" /\ ref_counter # 0
  /\ handle' = [handle EXCEPT ![c] = xadev]
  /\ Counted
  /\ Unlock
  /\ Goto(c, "idle")
  /\ UNCHANGED <<xadev, allocated>>

\* The first caller creates it.
OpenNew(c) ==
  /\ pc[c] = "open" /\ ref_counter = 0
  /\ \E a \in Addrs \ allocated :
       /\ xadev' = a
       /\ allocated' = allocated \cup {a}
       /\ handle' = [handle EXCEPT ![c] = a]
  /\ Counted
  /\ Unlock
  /\ Goto(c, "idle")

\* Mutant: ref_counter is incremented before calloc() is tested.
FailureCounted == Counted

\* A failed open is not counted.
FailureNotCounted == UNCHANGED ref_counter

\* calloc() fails: -ENOMEM.
OpenNoMemory(c) ==
  /\ pc[c] = "open" /\ ref_counter = 0
  /\ xadev' = NULL
  /\ FailureNotCounted
  /\ UnlockNoMemory
  /\ Goto(c, "idle")
  /\ UNCHANGED <<allocated, handle>>

-----------------------------------------------------------------------------
(***************************************************************************)
(* adev_close()                                                            *)
(***************************************************************************)

\* The devices a client may pass.
Closable(c) == IF StrayClose THEN Addrs ELSE {handle[c]} \ {NULL}

\* The comparison with xadev, without the lock.  A device that is not xadev is
\* refused with -EINVAL, which changes nothing.
CloseCheck(c) ==
  /\ pc[c] = "idle"
  /\ xadev \in Closable(c)
  /\ Goto(c, "checked")
  /\ UNCHANGED <<xadev, ref_counter, init_lock, allocated, handle>>

CloseLock(c) ==
  /\ pc[c] = "checked"
  /\ Lock(c)
  /\ Goto(c, "close")
  /\ UNCHANGED <<xadev, ref_counter, allocated, handle>>

\* Mutant: the count is not tested again under the lock.
NeverNothing == FALSE

\* The device went away since the comparison.
NothingToClose == ref_counter = 0

CloseNothing(c) ==
  /\ pc[c] = "close" /\ NothingToClose
  /\ Unlock
  /\ Goto(c, "idle")
  /\ UNCHANGED <<xadev, ref_counter, allocated, handle>>

\* Mutant: the device is destroyed when one other client is left.
LastButOne == ref_counter <= 2

\* ref_counter drops to 0.
LastReference == ref_counter = 1

CountDown ==
  ref_counter' = IF ref_counter = 0 THEN UINT_MAX ELSE ref_counter - 1

CloseDecrement(c) ==
  /\ pc[c] = "close" /\ ~NothingToClose
  /\ CountDown
  /\ handle' = [handle EXCEPT ![c] = NULL]
  /\ IF LastReference THEN Goto(c, "free") /\ UNCHANGED init_lock
                      ELSE Goto(c, "idle") /\ Unlock
  /\ UNCHANGED <<xadev, allocated>>

\* The test of the count and the decrement are one region under the lock.
\* The test finds nothing only if a client closed a device it did not hold.
CloseCounted(c) ==
  IF NothingToClose THEN CloseNothing(c) ELSE CloseDecrement(c)

\* The last close destroys the device and its streams ...
CloseFree(c) ==
  /\ pc[c] = "free"
  /\ allocated' = allocated \ {xadev}
  /\ Goto(c, "clear")
  /\ UNCHANGED <<xadev, ref_counter, init_lock, handle>>

\* ... and forgets it.
CloseClear(c) ==
  /\ pc[c] = "clear"
  /\ xadev' = NULL
  /\ Unlock
  /\ Goto(c, "idle")
  /\ UNCHANGED <<ref_counter, allocated, handle>>

-----------------------------------------------------------------------------
Locked(c) ==
  \/ OpenExisting(c) \/ OpenNew(c) \/ OpenNoMemory(c)
  \/ CloseCounted(c) \/ CloseFree(c) \/ CloseClear(c)

Next ==
  \E c \in Clients : OpenLock(c) \/ CloseCheck(c) \/ CloseLock(c) \/ Locked(c)

Spec == Init /\ [][Next]_vars

\* A thread that holds the lock keeps running.
FairSpec == Spec /\ \A c \in Clients : WF_vars(Locked(c))
-----------------------------------------------------------------------------
(***************************************************************************)
(* Properties.                                                             *)
(***************************************************************************)

\* Whenever the lock is free, a device exists exactly when it is counted, and
\* it is the only one allocated: closing never frees a device twice, leaks one
\* or counts below zero, even when a close was checked against a device that
\* another close destroys meanwhile.
DeviceIffCounted ==
  init_lock = NULL =>
    /\ xadev # NULL <=> ref_counter # 0
    /\ allocated = {xadev} \ {NULL}
    /\ ref_counter <= Cardinality(Clients)

\* The count is the number of clients that hold the device.
CountsHolders ==
  ref_counter = Cardinality({c \in Clients : handle[c] # NULL})

\* A client's device is the one device, and it is allocated.
HoldersUseDevice ==
  \A c \in Clients : handle[c] # NULL => handle[c] = xadev /\ xadev \in allocated

\* The comparison adev_close() makes without the lock is no data race: while a
\* client that holds the device may make it, nobody is about to assign xadev.
CheckIsStable ==
  \A c, d \in Clients :
    handle[c] # NULL /\ pc[c] = "idle"
      => /\ pc[d] \notin {"free", "clear"}
         /\ pc[d] = "open" => ref_counter # 0

\* Whoever takes xadev_init_lock releases it, also when opening fails.
LockReleased == \A c \in Clients : init_lock = c ~> init_lock # c

\* The callers share one device as SharedDevice describes.
Shared == INSTANCE SharedDevice WITH alive <- allocated

SharedSpec == Shared!Spec
=============================================================================
