---------------------------- MODULE AudioHalProofs ----------------------------
(***************************************************************************)
(* Theorems about the whole HAL, for any numbers of callers, devices,      *)
(* slots, PCM devices, streams and clients.                                *)
(*                                                                         *)
(* Every step of AudioHal is a step, or no step, of the device's life      *)
(* cycle, and a step, or no step, of each table, so their inductive        *)
(* invariants carry over.  The one exception is the creation of a device,  *)
(* which sets both tables and both mute states: it changes no table        *)
(* because nothing outlives a device.                                      *)
(***************************************************************************)
EXTENDS AudioHal, TLAPS

DevP == INSTANCE StrayCloseProofs WITH Clients <- Threads, Addrs <- Devices

OutP == INSTANCE OutputSlotsProofs
        WITH Pcms <- OutPcms, Addrs <- OutAddrs, Clients <- OutClients,
             AddressReuse <- FALSE, live <- out_live, stream <- out_stream,
             pcm_user <- out_pcm_user, phase <- out_phase, held <- out_held

InP == INSTANCE InputStreamsProofs
       WITH Pcms <- InPcms, Addrs <- InAddrs, Clients <- InClients,
            live <- in_live, stream <- in_stream, pcm_user <- in_pcm_user,
            phase <- in_phase, held <- in_held

(***************************************************************************)
(* The inductive invariant.                                                *)
(***************************************************************************)

\* Nobody is inside a call of a device that is not counted.
Quiescent == ref_counter = 0 => Quiet

\* The last adev_close() has emptied both tables.
NothingLeft ==
  ref_counter = 0 /\ (\A t \in Threads : pc[t] # "free")
    => Out!Registered = {} /\ In!Registered = {}

HInv ==
  /\ DevP!SInv /\ OutP!IInv /\ InP!IInv
  /\ Quiescent /\ NothingLeft

-----------------------------------------------------------------------------
(***************************************************************************)
(* DevP, OutP and InP name the same definitions as Dev, Out and In.        *)
(***************************************************************************)

\* The theorems' assumptions are those of the HAL.
LEMMA Assumptions ==
  DevP!LifecycleAssumption /\ OutP!OutputAssumption /\ InP!InputAssumption
<1>1. DevP!LifecycleAssumption
  BY HalAssumption
  DEF Dev!LifecycleAssumption, DevP!LifecycleAssumption, Dev!IsFiniteSet,
      DevP!IsFiniteSet, Dev!Cardinality, DevP!Cardinality
<1>2. OutP!OutputAssumption
  BY HalAssumption
  DEF Out!OutputAssumption, OutP!OutputAssumption, Out!OutSlots, OutP!OutSlots
<1>3. InP!InputAssumption
  BY HalAssumption
  DEF In!InputAssumption, InP!InputAssumption, In!InSlots, InP!InSlots
<1> QED
  BY <1>1, <1>2, <1>3

\* The initial states.
LEMMA SameInit ==
  /\ Dev!Init <=> DevP!Init
  /\ Out!Init <=> OutP!Init
  /\ In!Init <=> InP!Init
<1>1. Dev!Init <=> DevP!Init
  BY DEF Dev!Init, DevP!Init
<1>2. Out!Init <=> OutP!Init
  BY DEF Out!Init, OutP!Init, Out!OutSlots, OutP!OutSlots, Out!Cleared,
         OutP!Cleared
<1>3. In!Init <=> InP!Init
  BY DEF In!Init, InP!Init, In!InSlots, InP!InSlots
<1> QED
  BY <1>1, <1>2, <1>3

\* The calls of the output streams.
LEMMA SameOutputs == Out!Next <=> OutP!Next
  BY DEF Out!OutSlots, OutP!OutSlots, Out!device, OutP!device, Out!client,
         OutP!client, Out!Cleared, OutP!Cleared, Out!pcm_open,
         OutP!pcm_open, Out!pcm_close, OutP!pcm_close, Out!out_create,
         OutP!out_create, Out!out_set_mute, OutP!out_set_mute,
         Out!out_standby, OutP!out_standby, Out!StandbyCloses,
         OutP!StandbyCloses, Out!Reopened, OutP!Reopened, Out!ReopenFailed,
         OutP!ReopenFailed, Out!Written, OutP!Written, Out!TooManyErrors,
         OutP!TooManyErrors, Out!MayChangeParameters,
         OutP!MayChangeParameters, Out!DeviceLocked, OutP!DeviceLocked,
         Out!Allocatable, OutP!Allocatable, Out!SlotFree, OutP!SlotFree,
         Out!Opened, OutP!Opened, Out!AdevOpenOutputStream,
         OutP!AdevOpenOutputStream, Out!SlotsWithout, OutP!SlotsWithout,
         Out!PcmsWithout, OutP!PcmsWithout, Out!DestroyStreams,
         OutP!DestroyStreams, Out!Registered, OutP!Registered,
         Out!AdevCloseOutputStream, OutP!AdevCloseOutputStream,
         Out!AdevSetParametersRestarting, OutP!AdevSetParametersRestarting,
         Out!AdevSetMasterMute, OutP!AdevSetMasterMute, Out!MuteNext,
         OutP!MuteNext, Out!Calling, OutP!Calling, Out!LockFree,
         OutP!LockFree, Out!SetStream, OutP!SetStream, Out!WriteReady,
         OutP!WriteReady,
         Out!OutWriteMuted, OutP!OutWriteMuted, Out!OutWriteOk,
         OutP!OutWriteOk, Out!OutWriteError, OutP!OutWriteError,
         Out!OutWriteReport, OutP!OutWriteReport, Out!EnterStandby,
         OutP!EnterStandby, Out!OutWriteStop, OutP!OutWriteStop,
         Out!OutWriteReopenFails, OutP!OutWriteReopenFails, Out!OutStandby,
         OutP!OutStandby, Out!OutSetParameters, OutP!OutSetParameters,
         Out!DeviceCall, OutP!DeviceCall, Out!StreamCall, OutP!StreamCall,
         Out!Next, OutP!Next

\* The calls of the input streams.
LEMMA SameInputs == In!Next <=> InP!Next
  BY DEF In!InSlots, InP!InSlots, In!device, InP!device, In!pcms, InP!pcms,
         In!client, InP!client, In!pcm_open, InP!pcm_open, In!pcm_close,
         InP!pcm_close, In!in_create, InP!in_create, In!in_set_mute,
         InP!in_set_mute, In!in_standby, InP!in_standby, In!ReopenFailed,
         InP!ReopenFailed, In!MayChangeParameters, InP!MayChangeParameters,
         In!DeviceLocked, InP!DeviceLocked, In!Allocatable,
         InP!Allocatable, In!SlotFree, InP!SlotFree, In!Opened, InP!Opened,
         In!AdevOpenInputStream, InP!AdevOpenInputStream, In!SlotsWithout,
         InP!SlotsWithout, In!Closes, InP!Closes, In!DestroyStreams,
         InP!DestroyStreams, In!Registered, InP!Registered,
         In!AdevCloseInputStream, InP!AdevCloseInputStream,
         In!AdevSetParametersRestarting, InP!AdevSetParametersRestarting,
         In!AdevSetMicMute, InP!AdevSetMicMute, In!MicMuteNext,
         InP!MicMuteNext, In!SetStream, InP!SetStream, In!InReadReopens,
         InP!InReadReopens, In!InReadReopenFails, InP!InReadReopenFails,
         In!InStandby, InP!InStandby, In!InSetParameters,
         InP!InSetParameters, In!DeviceCall, InP!DeviceCall, In!StreamCall,
         InP!StreamCall, In!Next, InP!Next

\* The properties of the streams.
LEMMA SameProperties ==
  /\ Out!SlotTableExact <=> OutP!SlotTableExact
  /\ Out!PcmAccounting <=> OutP!PcmAccounting
  /\ Out!MuteCoherent <=> OutP!MuteCoherent
  /\ In!TableLive <=> InP!TableLive
  /\ In!PcmAccounting <=> InP!PcmAccounting
  /\ In!RegisteredFollowMute <=> InP!RegisteredFollowMute
<1>1. Out!SlotTableExact <=> OutP!SlotTableExact
  BY DEF Out!SlotTableExact, OutP!SlotTableExact, Out!Registered,
         OutP!Registered, Out!OutSlots, OutP!OutSlots
<1>2. Out!PcmAccounting <=> OutP!PcmAccounting
  BY DEF Out!PcmAccounting, OutP!PcmAccounting
<1>3. Out!MuteCoherent <=> OutP!MuteCoherent
  BY DEF Out!MuteCoherent, OutP!MuteCoherent, Out!DeviceLocked,
         OutP!DeviceLocked
<1>4. In!TableLive <=> InP!TableLive
  BY DEF In!TableLive, InP!TableLive, In!InSlots, InP!InSlots
<1>5. In!PcmAccounting <=> InP!PcmAccounting
  BY DEF In!PcmAccounting, InP!PcmAccounting
<1>6. In!RegisteredFollowMute <=> InP!RegisteredFollowMute
  BY DEF In!RegisteredFollowMute, InP!RegisteredFollowMute, In!DeviceLocked,
         InP!DeviceLocked, In!Registered, InP!Registered, In!InSlots,
         InP!InSlots
<1> QED
  BY <1>1, <1>2, <1>3, <1>4, <1>5, <1>6

-----------------------------------------------------------------------------
(***************************************************************************)
(* What a step of the HAL is to its parts.                                 *)
(***************************************************************************)

\* A step of the life cycle, or none.
LEMMA LifeStep == [Next]_vars => [DevP!Next]_life
<1>1. ASSUME NEW t \in Threads, AdevCreate(t) \/ AdevDestroy(t) \/ AdevCount(t)
      PROVE  DevP!Next
  BY <1>1
  DEF AdevCreate, AdevDestroy, AdevCount, DevP!Next, DevP!Locked,
      DevP!CloseCounted,
      Dev!Goto, DevP!Goto, Dev!Lock, DevP!Lock, Dev!Unlock, DevP!Unlock,
      Dev!UnlockNoMemory, DevP!UnlockNoMemory, Dev!OpenLock, DevP!OpenLock,
      Dev!Counted, DevP!Counted, Dev!OpenExisting, DevP!OpenExisting,
      Dev!OpenNew, DevP!OpenNew, Dev!FailureNotCounted,
      DevP!FailureNotCounted, Dev!OpenNoMemory, DevP!OpenNoMemory,
      Dev!Closable, DevP!Closable, Dev!CloseCheck, DevP!CloseCheck,
      Dev!CloseLock, DevP!CloseLock, Dev!NothingToClose,
      DevP!NothingToClose, Dev!CloseNothing, DevP!CloseNothing,
      Dev!LastReference, DevP!LastReference, Dev!CountDown, DevP!CountDown,
      Dev!CloseDecrement, DevP!CloseDecrement, Dev!CloseFree,
      DevP!CloseFree, Dev!CloseClear, DevP!CloseClear
<1>2. ASSUME Restart \/ OutputCall \/ InputCall PROVE UNCHANGED life
  BY <1>2 DEF Restart, OutputCall, InputCall
<1>3. ASSUME UNCHANGED vars PROVE UNCHANGED life
  BY <1>3 DEF vars
<1> QED
  BY <1>1, <1>2, <1>3 DEF Next

\* A restart, or the last close, is one of the device's calls to either table.
LEMMA DestroyStep == DestroyAll => OutP!Next /\ InP!Next
<1>1. DestroyAll => Out!Next /\ In!Next
  BY DEF DestroyAll, Out!Next, Out!DeviceCall, In!Next, In!DeviceCall
<1> QED
  BY <1>1, SameOutputs, SameInputs

\* All other steps but the creation of a device are calls to one table, or
\* leave both alone.
LEMMA StreamStep ==
  ASSUME [Next]_vars, \A t \in Threads : ~AdevCreate(t)
  PROVE  [OutP!Next]_outputs /\ [InP!Next]_inputs
<1>1. CASE \E t \in Threads : AdevDestroy(t)
  BY <1>1, DestroyStep DEF AdevDestroy, CloseDestroys
<1>2. CASE Restart
  BY <1>2, DestroyStep DEF Restart
<1>3. CASE \E t \in Threads : AdevCount(t)
  BY <1>3 DEF AdevCount
<1>4. CASE OutputCall
  <2>1. Out!Next /\ UNCHANGED inputs
    BY <1>4 DEF OutputCall, Out!Next, Out!DeviceCall
  <2> QED
    BY <2>1, SameOutputs
<1>5. CASE InputCall
  <2>1. In!Next /\ UNCHANGED outputs
    BY <1>5 DEF InputCall, In!Next, In!DeviceCall
  <2> QED
    BY <2>1, SameInputs
<1>6. CASE UNCHANGED vars
  BY <1>6 DEF vars
<1> QED
  BY <1>1, <1>2, <1>3, <1>4, <1>5, <1>6 DEF Next

-----------------------------------------------------------------------------
(***************************************************************************)
(* The invariant is inductive.                                             *)
(***************************************************************************)

\* Nothing exists.
LEMMA HalInit == Init => HInv
<1> SUFFICES ASSUME Init PROVE HInv
  OBVIOUS
<1>1. DevP!SInv /\ OutP!IInv /\ InP!IInv
  BY Assumptions, SameInit, DevP!StrayInit, OutP!InvInit, InP!InvInit DEF Init
<1>2. Quiescent
  BY Assumptions
  DEF Init, Out!Init, In!Init, Quiescent, Quiet, DeviceLocked,
      Out!DeviceLocked, In!DeviceLocked, OutP!OutputAssumption,
      InP!InputAssumption
<1>3. NothingLeft
  BY DEF Init, Out!Init, In!Init, NothingLeft, Out!Registered, In!Registered,
         Out!OutSlots, In!InSlots
<1> QED
  BY <1>1, <1>2, <1>3 DEF HInv

\* The life cycle keeps its invariant.
LEMMA LifeInv == HInv /\ [Next]_vars => DevP!SInv'
<1> SUFFICES ASSUME HInv, [Next]_vars PROVE DevP!SInv'
  OBVIOUS
<1>1. [DevP!Next]_life
  BY LifeStep
<1>2. CASE DevP!Next
  BY <1>2, Assumptions, DevP!StrayStep DEF HInv, DevP!Next
<1>3. CASE UNCHANGED life
  BY <1>3
  DEF life, HInv, DevP!SInv, DevP!TypeOK, DevP!CountBounded, DevP!Holders,
      DevP!LockDiscipline, DevP!Allocation, DevP!Existence
<1> QED
  BY <1>1, <1>2, <1>3

\* The tables keep theirs, as long as no device is created.
LEMMA StreamInv ==
  ASSUME HInv, [Next]_vars, \A t \in Threads : ~AdevCreate(t)
  PROVE  OutP!IInv' /\ InP!IInv'
<1>1. [OutP!Next]_(OutP!vars) /\ [InP!Next]_(InP!vars)
  BY StreamStep DEF outputs, inputs, OutP!vars, InP!vars
<1> QED
  BY <1>1, Assumptions, OutP!InvStep, InP!InvStep DEF HInv

\* A table that names nothing is empty.
LEMMA EmptyTables ==
  /\ Out!Registered = {}
       => \A i \in OutP!OutSlots : xout_streams[i] = NULL
  /\ In!Registered = {}
       => \A i \in InP!InSlots : xin_streams[i] = NULL
  BY DEF Out!Registered, In!Registered, Out!OutSlots, OutP!OutSlots,
         In!InSlots, InP!InSlots

\* A device is created when both tables are empty, and leaves them so.
LEMMA CreateInv ==
  ASSUME HInv, NEW t \in Threads, AdevCreate(t)
  PROVE  /\ OutP!IInv' /\ InP!IInv'
         /\ Quiescent' /\ NothingLeft'
         /\ UNCHANGED xout_streams
<1>1. /\ ref_counter = 0
      /\ \A u \in Threads : pc[u] # "free"
  BY DEF AdevCreate, Dev!OpenNew, HInv, DevP!SInv, DevP!LockDiscipline
<1>2. Quiet /\ Out!Registered = {} /\ In!Registered = {}
  BY <1>1 DEF HInv, Quiescent, NothingLeft
<1>3. UNCHANGED <<xout_streams, xin_streams>>
  BY <1>2, EmptyTables
  DEF AdevCreate, StructureCleared, HInv, OutP!IInv, InP!IInv, OutP!TypeOK,
      InP!TypeOK, Out!OutSlots, OutP!OutSlots, In!InSlots, InP!InSlots
<1>4. OutP!IInv'
  <2>1. OutP!TypeOK'
    BY <1>3
    DEF AdevCreate, StructureCleared, HInv, OutP!IInv, OutP!TypeOK
  <2>2. OutP!MuteSwept'
    BY <1>2, <1>3, EmptyTables DEF OutP!MuteSwept
  <2>3. /\ OutP!SlotTableExact' /\ OutP!Ownership'
        /\ OutP!Handles' /\ OutP!ErrorsHandled'
    BY <1>3
    DEF AdevCreate, HInv, OutP!IInv, OutP!SlotTableExact, OutP!Registered,
        OutP!Ownership, OutP!ClientsOwnStreams, OutP!StaleIsDead,
        OutP!CallsAreOpen, OutP!Handles, OutP!PcmAccounting,
        OutP!StandbyIffClosed, OutP!HandleFollowsRoute, OutP!Routed,
        OutP!ErrorsHandled, OutP!TooManyErrors
  <2> QED
    BY <2>1, <2>2, <2>3 DEF OutP!IInv
<1>5. InP!IInv'
  <2>1. InP!TypeOK'
    BY <1>3
    DEF AdevCreate, StructureCleared, HInv, InP!IInv, InP!TypeOK
  <2>2. InP!RegisteredFollowMute'
    BY <1>2, <1>3
    DEF InP!RegisteredFollowMute, InP!Registered, In!Registered, In!InSlots,
        InP!InSlots
  <2>3. /\ InP!TableLive' /\ InP!Ownership' /\ InP!Handles' /\ InP!MicSwept'
    BY <1>3
    DEF AdevCreate, HInv, InP!IInv, InP!TableLive, InP!Ownership,
        InP!ClientsOwnStreams, InP!HoldersDiffer, InP!Handles,
        InP!PcmAccounting, InP!StandbyIffClosed, InP!HardwareRate,
        InP!MicMute, InP!MicSwept, InP!DeviceLocked, InP!Registered
  <2> QED
    BY <2>1, <2>2, <2>3 DEF InP!IInv, InP!MicMute
<1>6. Quiescent'
  BY <1>2
  DEF AdevCreate, Quiescent, Quiet, DeviceLocked, Out!DeviceLocked,
      In!DeviceLocked
<1>7. NothingLeft'
  BY <1>2, <1>3 DEF NothingLeft, Out!Registered, In!Registered
<1> QED
  BY <1>3, <1>4, <1>5, <1>6, <1>7

\* The count reaches zero only in a last close, which its caller makes when the
\* other calls have returned, and which then empties the tables.
LEMMA CountInv ==
  ASSUME HInv, NEW t \in Threads, AdevCount(t)
  PROVE  Quiescent' /\ NothingLeft'
<1> USE Assumptions
<1>1. ref_counter \in Nat
  BY DEF HInv, DevP!SInv, DevP!CountBounded, DevP!TypeOK
<1>2. /\ UNCHANGED <<mute_i, mic_i, call, xout_streams, xin_streams>>
      /\ Quiet' <=> Quiet
      /\ Out!Registered' = Out!Registered
      /\ In!Registered' = In!Registered
  BY DEF AdevCount, outputs, inputs, Quiet, DeviceLocked, Out!DeviceLocked,
         In!DeviceLocked, Out!Registered, In!Registered
<1>3. CASE Dev!OpenExisting(t)
  <2>1. /\ handle[t] = NULL /\ ref_counter # 0 /\ xadev \in Devices
        /\ handle' = [handle EXCEPT ![t] = xadev]
        /\ DevP!Counted
    BY <1>3
    DEF HInv, DevP!SInv, DevP!CountBounded, DevP!Allocation, DevP!TypeOK,
        Dev!OpenExisting, Dev!Counted, DevP!Counted
  <2>2. ref_counter' = ref_counter + 1
    BY <2>1, DevP!CountedUp DEF HInv, DevP!SInv
  <2> QED
    BY <1>1, <2>2 DEF Quiescent, NothingLeft
<1>4. CASE Dev!CloseDecrement(t) /\ (Dev!LastReference => Quiet)
  <2>1. ref_counter' = 0 => Quiet /\ pc'[t] = "free"
    BY <1>1, <1>4
    DEF Dev!CloseDecrement, Dev!CountDown, Dev!NothingToClose,
        Dev!LastReference, Dev!Goto, HInv, DevP!SInv, DevP!TypeOK
  <2> QED
    BY <1>2, <2>1 DEF Quiescent, NothingLeft
<1>5. ASSUME \/ Dev!OpenLock(t) \/ Dev!OpenNoMemory(t) \/ Dev!CloseCheck(t)
             \/ Dev!CloseLock(t) \/ Dev!CloseNothing(t) \/ Dev!CloseClear(t)
      PROVE  Quiescent' /\ NothingLeft'
  <2>1. /\ ref_counter' = ref_counter
        /\ \A u \in Threads : pc[u] = "free" => pc'[u] = "free"
    BY <1>5
    DEF Dev!OpenLock, Dev!OpenNoMemory, Dev!CloseCheck, Dev!CloseLock,
        Dev!CloseNothing, Dev!CloseClear, Dev!Goto, Dev!FailureNotCounted,
        HInv, DevP!SInv, DevP!TypeOK
  <2> QED
    BY <1>2, <2>1 DEF HInv, Quiescent, NothingLeft
<1> QED
  BY <1>3, <1>4, <1>5 DEF AdevCount

\* The loops of the last close leave no entry.
LEMMA DestroyInv ==
  ASSUME HInv, NEW t \in Threads, AdevDestroy(t)
  PROVE  Quiescent' /\ NothingLeft'
<1>1. ref_counter' = ref_counter /\ ref_counter = 0 /\ Quiet
  BY DEF AdevDestroy, Dev!CloseFree, HInv, DevP!SInv, DevP!Existence, Quiescent
<1>2. Quiet'
  BY <1>1
  DEF AdevDestroy, CloseDestroys, DestroyAll, Out!AdevSetParametersRestarting,
      In!AdevSetParametersRestarting, Quiet, DeviceLocked, Out!DeviceLocked,
      In!DeviceLocked
<1>3. Out!Registered' = {}
  BY DEF AdevDestroy, CloseDestroys, DestroyAll,
         Out!AdevSetParametersRestarting, Out!DestroyStreams, Out!SlotsWithout,
         Out!Registered, Out!OutSlots
<1>4. In!Registered' = {}
  BY DEF AdevDestroy, CloseDestroys, DestroyAll,
         In!AdevSetParametersRestarting, In!DestroyStreams, In!SlotsWithout,
         In!Registered, In!InSlots
<1> QED
  BY <1>1, <1>2, <1>3, <1>4 DEF Quiescent, NothingLeft

\* Each step keeps the invariant.
LEMMA HalStep == HInv /\ [Next]_vars => HInv'
<1> SUFFICES ASSUME HInv, [Next]_vars PROVE HInv'
  OBVIOUS
<1>1. DevP!SInv'
  BY LifeInv
<1>2. CASE \E t \in Threads : AdevCreate(t)
  BY <1>1, <1>2, CreateInv DEF HInv
<1>3. CASE \A t \in Threads : ~AdevCreate(t)
  <2>1. OutP!IInv' /\ InP!IInv'
    BY <1>3, StreamInv
  <2>2. CASE \E t \in Threads : AdevCount(t)
    BY <1>1, <2>1, <2>2, CountInv DEF HInv
  <2>3. CASE \E t \in Threads : AdevDestroy(t)
    BY <1>1, <2>1, <2>3, DestroyInv DEF HInv
  <2>4. CASE Restart \/ OutputCall \/ InputCall
    <3>1. ref_counter' # 0
      BY <2>4 DEF Restart, OutputCall, InputCall, InUse, life
    <3> QED
      BY <1>1, <2>1, <3>1 DEF HInv, Quiescent, NothingLeft
  <2>5. CASE UNCHANGED vars
    <3>1. UNCHANGED <<ref_counter, pc, mute_i, mic_i, call, xout_streams,
                      xin_streams>>
      BY <2>5 DEF vars, life, outputs, inputs
    <3>2. Quiescent' /\ NothingLeft'
      BY <3>1
      DEF HInv, Quiescent, NothingLeft, Quiet, DeviceLocked, Out!DeviceLocked,
          In!DeviceLocked, Out!Registered, In!Registered
    <3> QED
      BY <1>1, <2>1, <3>2 DEF HInv
  <2> QED
    BY <1>3, <2>2, <2>3, <2>4, <2>5 DEF Next
<1> QED
  BY <1>2, <1>3

\* In every reachable state the three parts satisfy their invariants.
LEMMA HalInvariance == Spec => []HInv
  BY HalInit, HalStep, PTL DEF Spec

-----------------------------------------------------------------------------
(***************************************************************************)
(* Theorems.                                                               *)
(***************************************************************************)

\* adev_open() and adev_close() keep one device exactly while it is counted,
\* whatever its streams do.
THEOREM DeviceCounted == Spec => []DeviceIffCounted
<1>1. Spec => DevP!Spec
  <2>1. Init => DevP!Init
    BY SameInit DEF Init
  <2>2. [Next]_vars => [DevP!Next]_(DevP!vars)
    BY LifeStep DEF life, DevP!vars
  <2> QED
    BY <2>1, <2>2, PTL DEF Spec, DevP!Spec
<1>2. DevP!Spec => []DevP!DeviceIffCounted
  BY Assumptions, DevP!DeviceCounted
<1>3. DevP!DeviceIffCounted => DeviceIffCounted
  BY DEF DeviceIffCounted, Dev!DeviceIffCounted, DevP!DeviceIffCounted,
         Dev!Cardinality, DevP!Cardinality
<1> QED
  BY <1>1, <1>2, <1>3, PTL

\* The last adev_close() destroys every registered stream and its PCM, also
\* those of clients that never closed them.
THEOREM NothingSurvives == Spec => []NothingOutlivesDevice
<1>1. HInv => NothingOutlivesDevice
  <2> SUFFICES ASSUME HInv, xadev = NULL
               PROVE  /\ out_live = {}
                      /\ \A p \in OutPcms : out_pcm_user[p] = NULL
                      /\ Out!Registered = {} /\ In!Registered = {}
    BY DEF NothingOutlivesDevice
  <2>1. ref_counter = 0 /\ \A t \in Threads : pc[t] # "free"
    BY DEF HInv, DevP!SInv, DevP!Allocation
  <2>2. Out!Registered = {} /\ In!Registered = {}
    BY <2>1 DEF HInv, NothingLeft
  <2>3. out_live = {}
    BY <2>2, SameProperties DEF HInv, OutP!IInv, Out!SlotTableExact
  <2>4. \A p \in OutPcms : out_pcm_user[p] = NULL
    BY <2>3
    DEF HInv, OutP!IInv, OutP!TypeOK, OutP!Handles, OutP!PcmAccounting
  <2> QED
    BY <2>2, <2>3, <2>4
<1> QED
  BY <1>1, HalInvariance, PTL

\* Both tables stay exact, over any number of devices and restarts.
THEOREM TablesCoherent == Spec => []StreamsCoherent
<1>1. HInv => StreamsCoherent
  BY Assumptions, OutP!MuteFollows, SameProperties
  DEF HInv, StreamsCoherent, OutP!IInv, OutP!Handles, InP!IInv, InP!Handles,
      InP!MicMute
<1> QED
  BY <1>1, HalInvariance, PTL

\* To the clients of the output streams the HAL is what ExclusiveSlots says.
THEOREM SlotsExclusive == Spec => ExclusiveSpec
<1>1. Init => Out!Exclusive!Init
  BY DEF Init, Out!Init, Out!Exclusive!Init
<1>2. ASSUME UNCHANGED <<xout_streams, out_phase, out_held>>
      PROVE  UNCHANGED Out!Exclusive!vars
  BY <1>2 DEF Out!Exclusive!vars
<1>3. HInv /\ [Next]_vars => [Out!Exclusive!Next]_(Out!Exclusive!vars)
  <2> SUFFICES ASSUME HInv, [Next]_vars
               PROVE  [Out!Exclusive!Next]_(Out!Exclusive!vars)
    OBVIOUS
  <2>1. CASE \E t \in Threads : AdevCreate(t)
    BY <1>2, <2>1, CreateInv DEF AdevCreate
  <2>2. CASE \A t \in Threads : ~AdevCreate(t)
    <3>1. [OutP!Next]_(OutP!vars)
      BY <2>2, StreamStep DEF outputs, OutP!vars
    <3>2. [OutP!Exclusive!Next]_(OutP!Exclusive!vars)
      BY <3>1, Assumptions, OutP!RefineStep DEF HInv
    <3> QED
      BY <3>2
      DEF Out!Exclusive!Next, OutP!Exclusive!Next, Out!Exclusive!vars,
          OutP!Exclusive!vars, Out!Exclusive!Open, OutP!Exclusive!Open,
          Out!Exclusive!Close, OutP!Exclusive!Close, Out!Exclusive!Restart,
          OutP!Exclusive!Restart, Out!OutSlots, OutP!OutSlots
  <2> QED
    BY <2>1, <2>2
<1> QED
  BY <1>1, <1>3, HalInvariance, PTL
  DEF Spec, ExclusiveSpec, Out!ExclusiveSpec, Out!Exclusive!Spec

\* The rest of what OutputStreams and InputStreams promise.
LEMMA SameGuarantees ==
  /\ Out!ClientsOwnStreams <=> OutP!ClientsOwnStreams
  /\ Out!StandbyIffClosed <=> OutP!StandbyIffClosed
  /\ Out!HandleFollowsRoute <=> OutP!HandleFollowsRoute
  /\ Out!ErrorsStopStream <=> OutP!ErrorsStopStream
  /\ In!ClientsOwnStreams <=> InP!ClientsOwnStreams
  /\ In!StandbyIffClosed <=> InP!StandbyIffClosed
  /\ In!HardwareRate <=> InP!HardwareRate
<1>1. Out!ClientsOwnStreams <=> OutP!ClientsOwnStreams
  BY DEF Out!ClientsOwnStreams, OutP!ClientsOwnStreams
<1>2. Out!StandbyIffClosed <=> OutP!StandbyIffClosed
  BY DEF Out!StandbyIffClosed, OutP!StandbyIffClosed
<1>3. Out!HandleFollowsRoute <=> OutP!HandleFollowsRoute
  BY DEF Out!HandleFollowsRoute, OutP!HandleFollowsRoute
<1>4. Out!ErrorsStopStream <=> OutP!ErrorsStopStream
  BY DEF Out!ErrorsStopStream, OutP!ErrorsStopStream, Out!Calling,
         OutP!Calling
<1>5. In!ClientsOwnStreams <=> InP!ClientsOwnStreams
  BY DEF In!ClientsOwnStreams, InP!ClientsOwnStreams, In!Registered,
         InP!Registered, In!InSlots, InP!InSlots
<1>6. In!StandbyIffClosed <=> InP!StandbyIffClosed
  BY DEF In!StandbyIffClosed, InP!StandbyIffClosed
<1>7. In!HardwareRate <=> InP!HardwareRate
  BY DEF In!HardwareRate, InP!HardwareRate
<1> QED
  BY <1>1, <1>2, <1>3, <1>4, <1>5, <1>6, <1>7

\* Everything the runs of OutputStreams and InputStreams check of one device
\* holds of the whole HAL, over any number of devices: streams belong to the
\* client that opened them, have a handle exactly out of standby and on the PCM
\* they are routed to, stop at the last failure that out_write() tolerates and
\* at no earlier one, and record at the rate they report.
THEOREM StreamsSound ==
  Spec => [](/\ Out!ClientsOwnStreams /\ Out!StandbyIffClosed
             /\ Out!HandleFollowsRoute /\ Out!ErrorsStopStream
             /\ In!ClientsOwnStreams /\ In!StandbyIffClosed
             /\ In!HardwareRate)
<1>1. HInv => /\ Out!ClientsOwnStreams /\ Out!StandbyIffClosed
              /\ Out!HandleFollowsRoute /\ Out!ErrorsStopStream
  <2>1. OutP!IInv => OutP!ErrorsStopStream
    BY DEF OutP!IInv, OutP!Ownership, OutP!CallsAreOpen, OutP!ErrorsHandled,
           OutP!ErrorsStopStream, OutP!TooManyErrors, OutP!Calling
  <2> QED
    BY <2>1, SameGuarantees DEF HInv, OutP!IInv, OutP!Ownership, OutP!Handles
<1>2. HInv => In!ClientsOwnStreams /\ In!StandbyIffClosed /\ In!HardwareRate
  BY SameGuarantees DEF HInv, InP!IInv, InP!Ownership, InP!Handles
<1> QED
  BY <1>1, <1>2, HalInvariance, PTL

\* A step of the HAL that changes an output stream or a client of one is a step
\* of OutputStreams: the creation of a device changes neither.
LEMMA OutputStep ==
  ASSUME HInv, [Next]_vars,
         out_live' # out_live \/ out_stream' # out_stream \/ out_phase' # out_phase
  PROVE  OutP!IInv /\ OutP!Next
<1>1. \A t \in Threads : ~AdevCreate(t)
  BY DEF AdevCreate
<1>2. [OutP!Next]_outputs
  BY <1>1, StreamStep
<1> QED
  BY <1>2 DEF outputs, HInv

\* No write reaches a PCM while the device is muted and no mute is under way,
\* whichever restarts and devices came before.
THEOREM Silence == Spec => Out!SilentWhileMuted
<1> DEFINE Silent ==
      \A a \in out_live \cap out_live' :
        out_stream'[a].written_frames # out_stream[a].written_frames
          => ~master_is_muted \/ Out!DeviceLocked
<1>1. HInv /\ [Next]_vars => [Silent]_(Out!vars)
  <2> SUFFICES ASSUME HInv, [Next]_vars,
                      NEW a \in out_live \cap out_live',
                      out_stream'[a].written_frames
                        # out_stream[a].written_frames
               PROVE  ~master_is_muted \/ Out!DeviceLocked
    OBVIOUS
  <2>1. OutP!IInv /\ OutP!Next
    BY OutputStep
  <2>2. ~master_is_muted \/ OutP!DeviceLocked
    BY <2>1, Assumptions, OutP!SilentStep
  <2> QED
    BY <2>2 DEF Out!DeviceLocked, OutP!DeviceLocked
<1> QED
  BY <1>1, HalInvariance, PTL DEF Spec, Out!SilentWhileMuted

\* Every failed write counts until one that did not fail, whichever restarts and
\* devices come meanwhile.
THEOREM ErrorsCount == Spec => Out!ErrorsCounted
<1> DEFINE Counted ==
      \A c \in OutClients :
        out_phase[c] = "open" /\ out_phase'[c] = "open"
          => IF call[c] = "idle" /\ call'[c] = "failed"
             THEN Out!FailedWrites(c)' = Out!FailedWrites(c) + 1
             ELSE \/ Out!FailedWrites(c)' = Out!FailedWrites(c)
                  \/ Out!Calling(c) /\ Out!FailedWrites(c)' = 0
                     /\ ~out_stream'[out_held[c]].standby
<1>1. HInv /\ [Next]_vars => [Counted]_(Out!vars)
  <2> SUFFICES ASSUME HInv, [Next]_vars PROVE [Counted]_(Out!vars)
    OBVIOUS
  <2>1. CASE \E t \in Threads : AdevCreate(t)
    BY <2>1 DEF AdevCreate, Out!FailedWrites
  <2>2. CASE \A t \in Threads : ~AdevCreate(t)
    <3>1. [OutP!Next]_(Out!vars)
      BY <2>2, StreamStep DEF outputs, Out!vars
    <3>2. ASSUME OutP!Next, NEW c \in OutClients,
                 out_phase[c] = "open", out_phase'[c] = "open"
          PROVE  IF call[c] = "idle" /\ call'[c] = "failed"
                 THEN OutP!FailedWrites(c)' = OutP!FailedWrites(c) + 1
                 ELSE \/ OutP!FailedWrites(c)' = OutP!FailedWrites(c)
                      \/ OutP!Calling(c) /\ OutP!FailedWrites(c)' = 0
                         /\ ~out_stream'[out_held[c]].standby
      BY <3>2, Assumptions, OutP!CountedStep DEF HInv
    <3> QED
      BY <3>1, <3>2
      DEF Out!FailedWrites, OutP!FailedWrites, Out!Calling, OutP!Calling
  <2> QED
    BY <2>1, <2>2
<1> QED
  BY <1>1, HalInvariance, PTL DEF Spec, Out!ErrorsCounted

\* A client that missed a restart, or the last close of a device, closes nothing
\* with the address it still has, of this device or of a later one (addresses
\* that clients remember are not reused, see Out).
THEOREM StaleCloses == Spec => Out!StaleCloseIgnored
<1> DEFINE Ignored ==
      \A c \in OutClients :
        out_phase[c] = "stale" /\ out_phase'[c] = "closed"
          => out_live' = out_live
<1>1. HInv /\ [Next]_vars => [Ignored]_(Out!vars)
  <2> SUFFICES ASSUME HInv, [Next]_vars, NEW c \in OutClients,
                      out_phase[c] = "stale", out_phase'[c] = "closed"
               PROVE  out_live' = out_live
    OBVIOUS
  <2>1. OutP!IInv /\ OutP!Next
    BY OutputStep
  <2> QED
    BY <2>1, Assumptions, OutP!StaleCloseStep
<1> QED
  BY <1>1, HalInvariance, PTL DEF Spec, Out!StaleCloseIgnored
=============================================================================
