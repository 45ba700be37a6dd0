------------------------------- MODULE AudioHal -------------------------------
(***************************************************************************)
(* The whole HAL: the device's life cycle (DeviceLifecycle) with the       *)
(* output streams (OutputStreams) and the input streams (InputStreams) the *)
(* device owns.  The three meet where a device is created, with a cleared  *)
(* structure, where the last adev_close() destroys the streams that are    *)
(* still there, where a restart destroys them, and in the one device lock. *)
(***************************************************************************)
EXTENDS Naturals

CONSTANTS
  Threads, Devices, UINT_MAX, StrayClose,         \* of DeviceLifecycle
  NumOut, OutPcms, OutPcm, DefaultSlot, OutAddrs, OutClients,
  MAX_ALLOWED_ERRORS, FrameBound, OtherCalls,     \* of OutputStreams
  NumIn, InPcms, InPcm, InAddrs, InClients, Rates, SupportedRates,
  NULL

VARIABLES
  xadev, ref_counter, init_lock, allocated, handle, pc,
  xout_streams, master_is_muted, mute_i,
  out_live, out_stream, out_pcm_user, out_phase, out_held, call,
  xin_streams, mic_is_muted, mic_i,
  in_live, in_stream, in_pcm_user, pcm_rate, in_phase, in_held

life == <<xadev, ref_counter, init_lock, allocated, handle, pc>>
outputs == <<xout_streams, master_is_muted, mute_i, out_live, out_stream,
             out_pcm_user, out_phase, out_held, call>>
inputs == <<xin_streams, mic_is_muted, mic_i, in_live, in_stream, in_pcm_user,
            pcm_rate, in_phase, in_held>>
vars == <<life, outputs, inputs>>

Dev == INSTANCE DeviceLifecycle WITH Clients <- Threads, Addrs <- Devices

\* The allocator does not reuse an address a client remembers.
Out == INSTANCE OutputStreams
       WITH Pcms <- OutPcms, Addrs <- OutAddrs, Clients <- OutClients,
            AddressReuse <- FALSE, live <- out_live, stream <- out_stream,
            pcm_user <- out_pcm_user, phase <- out_phase, held <- out_held

In == INSTANCE InputStreams
      WITH Pcms <- InPcms, Addrs <- InAddrs, Clients <- InClients,
           live <- in_live, stream <- in_stream, pcm_user <- in_pcm_user,
           phase <- in_phase, held <- in_held

\* The parts' assumptions.
ASSUME HalAssumption ==
  Dev!LifecycleAssumption /\ Out!OutputAssumption /\ In!InputAssumption

Init == Dev!Init /\ Out!Init /\ In!Init

\* One lock for both tables.
DeviceLocked == Out!DeviceLocked \/ In!DeviceLocked

\* What the callers know: a device is called while somebody holds it, and the
\* last one closes it when the other calls have returned.
InUse == ref_counter # 0

Quiet == ~DeviceLocked /\ \A c \in OutClients : call[c] = "idle"

-----------------------------------------------------------------------------
\* calloc() clears the tables and the mute states.
StructureCleared ==
  /\ xout_streams' = [i \in Out!OutSlots |-> NULL] /\ master_is_muted' = FALSE
  /\ xin_streams' = [i \in In!InSlots |-> NULL] /\ mic_is_muted' = FALSE

AdevCreate(t) ==
  /\ Dev!OpenNew(t)
  /\ StructureCleared
  /\ UNCHANGED <<mute_i, out_live, out_stream, out_pcm_user, out_phase, out_held,
                 call, mic_i, in_live, in_stream, in_pcm_user, pcm_rate,
                 in_phase, in_held>>

\* All registered streams are destroyed, and their clients do not know.
DestroyAll ==
  Out!AdevSetParametersRestarting /\ In!AdevSetParametersRestarting

\* Mutant: the loop over the outputs is left out.
InputsOnly == In!AdevSetParametersRestarting /\ UNCHANGED outputs

\* The loops of the last adev_close() over both tables.
CloseDestroys == DestroyAll

AdevDestroy(t) == Dev!CloseFree(t) /\ CloseDestroys

\* The other steps of adev_open() and adev_close().
AdevCount(t) ==
  /\ \/ Dev!OpenLock(t) \/ Dev!OpenExisting(t) \/ Dev!OpenNoMemory(t)
     \/ Dev!CloseCheck(t) \/ Dev!CloseLock(t) \/ Dev!CloseNothing(t)
     \/ Dev!CloseDecrement(t) /\ (Dev!LastReference => Quiet)
     \/ Dev!CloseClear(t)
  /\ UNCHANGED <<outputs, inputs>>

\* adev_set_parameters("restarting=true").
Restart == InUse /\ DestroyAll /\ UNCHANGED life

OutputCall ==
  /\ InUse
  /\ \/ /\ ~In!DeviceLocked
        /\ \/ \E c \in OutClients, slot \in Out!OutSlots :
                Out!AdevOpenOutputStream(c, slot)
           \/ \E c \in OutClients : Out!AdevCloseOutputStream(c)
           \/ \E mute \in BOOLEAN : Out!AdevSetMasterMute(mute)
           \/ Out!MuteNext
     \/ \E c \in OutClients : Out!StreamCall(c)
  /\ UNCHANGED <<life, inputs>>

InputCall ==
  /\ InUse
  /\ \/ /\ ~Out!DeviceLocked
        /\ \/ \E c \in InClients, slot \in In!InSlots :
                In!AdevOpenInputStream(c, slot)
           \/ \E c \in InClients : In!AdevCloseInputStream(c)
           \/ \E mute \in BOOLEAN : In!AdevSetMicMute(mute)
           \/ In!MicMuteNext
     \/ \E c \in InClients : In!StreamCall(c)
  /\ UNCHANGED <<life, outputs>>

Next ==
  \/ \E t \in Threads : AdevCreate(t) \/ AdevDestroy(t) \/ AdevCount(t)
  \/ Restart \/ OutputCall \/ InputCall

Spec == Init /\ [][Next]_vars
-----------------------------------------------------------------------------
(***************************************************************************)
(* Properties.                                                             *)
(***************************************************************************)

\* "close streams and release resources": when no device exists there is no
\* output stream, no PCM an output has open, and no table that names anything.
\* (Input streams that adev_set_mic_mute() forgot survive, see
\* RestartClosesAll of module InputStreams.)
NothingOutlivesDevice ==
  xadev = NULL =>
    /\ out_live = {} /\ \A p \in OutPcms : out_pcm_user[p] = NULL
    /\ Out!Registered = {} /\ In!Registered = {}

\* Across restarts and devices the output table names exactly the streams
\* clients have open, their PCMs are accounted for and they follow the mute;
\* and so it is with the input table, as far as adev_set_mic_mute() leaves it.
StreamsCoherent ==
  /\ Out!SlotTableExact /\ Out!PcmAccounting /\ Out!MuteCoherent
  /\ In!TableLive /\ In!PcmAccounting /\ In!RegisteredFollowMute

\* Whenever xadev_init_lock is free, one device exists exactly when it is
\* counted, whatever devices the callers close.
DeviceIffCounted == Dev!DeviceIffCounted

\* To its clients the HAL keeps the promise of ExclusiveSlots: the last close
\* takes all slots away, as a restart does.
ExclusiveSpec == Out!ExclusiveSpec
=============================================================================
