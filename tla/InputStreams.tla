----------------------------- MODULE InputStreams -----------------------------
(***************************************************************************)
(* The recording side of the audio HAL: the device's table of input        *)
(* streams and its microphone mute (device.c), the streams themselves      *)
(* (stream_in.c), the PCM devices they hold open through tinyalsa, and the *)
(* audioserver clients that call in.                                       *)
(*                                                                         *)
(* Grain of atomicity: a region under one stream's lock is one step, and   *)
(* so is a device call that reaches no stream other threads can see.       *)
(* adev_set_mic_mute() takes the streams' locks one after another.  All of *)
(* in_read() runs under the stream's lock.                                 *)
(***************************************************************************)
EXTENDS Naturals

CONSTANTS
  NumIn,           \* NUMBER_OF_DEVICES_IN: slots of the input map
  Pcms,            \* PCM devices
  InPcm,           \* xa_input_map: the PCM of each slot
  Addrs,           \* heap addresses calloc() may return for a stream
  Clients,         \* stream wrappers of the audioserver, one stream each
  NULL,
  Rates,           \* sampling rates a client may ask for
  SupportedRates   \* the rates is_config_supported_in() accepts

InSlots == 0 .. NumIn - 1

ASSUME InputAssumption ==
  /\ NumIn \in Nat
  /\ InPcm \in [InSlots -> Pcms]
  /\ NULL \notin Addrs
  /\ SupportedRates \subseteq Rates
  /\ 0 \in Rates

VARIABLES
  xin_streams,   \* x_audio_device_t.xin_streams: address or NULL per slot
  mic_is_muted,  \* x_audio_device_t.mic_is_muted
  mic_i,         \* index of the loop in adev_set_mic_mute(), NumIn when no
                 \* such call holds the device lock
  live,          \* addresses of allocated streams
  stream,        \* contents of the x_stream_in_t at each address
  pcm_user,      \* the stream whose handle has a PCM open, or NULL
  pcm_rate,      \* the rate each PCM was last opened with
  phase,         \* "closed", "open", or "stale" after an audioserver restart
  held           \* the stream address each client got from its last open

vars == <<xin_streams, mic_is_muted, mic_i, live, stream, pcm_user, pcm_rate,
          phase, held>>

device == <<xin_streams, mic_is_muted, mic_i>>
pcms == <<pcm_user, pcm_rate>>
client == <<phase, held>>

\* p_handle is NULL, a PCM that is open, or one that pcm_close() freed.
Stream == [standby  : BOOLEAN,
           p_handle : {"null", "open", "freed"},
           pcm      : Pcms,
           rate     : Rates,
           muted    : BOOLEAN]

TypeOK ==
  /\ xin_streams \in [InSlots -> live \cup {NULL}]
  /\ mic_is_muted \in BOOLEAN
  /\ mic_i \in 0 .. NumIn
  /\ live \subseteq Addrs
  /\ stream \in [live -> Stream]
  /\ pcm_user \in [Pcms -> Addrs \cup {NULL}]
  /\ pcm_rate \in [Pcms -> Rates]
  /\ phase \in [Clients -> {"closed", "open", "stale"}]
  /\ held \in [Clients -> Addrs \cup {NULL}]

Init ==
  /\ xin_streams = [i \in InSlots |-> NULL]
  /\ mic_is_muted = FALSE
  /\ mic_i = NumIn
  /\ live = {}
  /\ stream = [a \in {} |-> NULL]
  /\ pcm_user = [p \in Pcms |-> NULL]
  /\ pcm_rate = [p \in Pcms |-> 0]
  /\ phase = [c \in Clients |-> "closed"]
  /\ held = [c \in Clients |-> NULL]

-----------------------------------------------------------------------------
(***************************************************************************)
(* tinyalsa and the kernel.  A PCM has one capture substream: pcm_open()   *)
(* of one that is open already yields a handle that is not ready.          *)
(***************************************************************************)
pcm_open(a, s) ==
  /\ pcm_user[s.pcm] = NULL
  /\ pcm_user' = [pcm_user EXCEPT ![s.pcm] = a]
  /\ pcm_rate' = [pcm_rate EXCEPT ![s.pcm] = s.rate]

\* pcm_close() of the open handles of the streams in D.
pcm_close(D) ==
  /\ pcm_user' = [p \in Pcms |->
       IF \E a \in D : stream[a].p_handle = "open" /\ stream[a].pcm = p
       THEN NULL ELSE pcm_user[p]]
  /\ UNCHANGED pcm_rate

-----------------------------------------------------------------------------
(***************************************************************************)
(* Functions of stream_in.c on the contents of one stream.                 *)
(***************************************************************************)

\* The stream in_create() returns, connected to the PCM of its slot.
in_create(slot, rate) ==
  [standby |-> FALSE, p_handle |-> "open", pcm |-> InPcm[slot],
   rate |-> rate, muted |-> FALSE]

in_set_mute(s, mute) == [s EXCEPT !.muted = mute]

\* in_standby() closes the handle of a stream that is not in standby.
in_standby(s) ==
  IF s.standby THEN s ELSE [s EXCEPT !.standby = TRUE, !.p_handle = "null"]

\* Mutant: standby is cleared before the PCM is known to be ready.
ReopenFailedActive(s, h) == [s EXCEPT !.p_handle = h, !.standby = FALSE]

\* in_read() could not turn the device on: p_handle keeps what pcm_open()
\* returned, although pcm_close() freed it.
ReopenFailed(s, h) == [s EXCEPT !.p_handle = h]

\* Mutant: parameters may change during recording.
AlwaysChangeParameters(s) == TRUE

\* in_set_parameters() refuses to change anything during recording.
MayChangeParameters(s) == s.standby

-----------------------------------------------------------------------------
(***************************************************************************)
(* Device calls.                                                           *)
(***************************************************************************)

\* adev_set_mic_mute() holds the device lock over all its steps.
DeviceLocked == mic_i < NumIn

\* Addresses calloc() may return: the remembered ones are left out, see
\* AddressReuse of module OutputStreams.
Allocatable ==
  {a \in Addrs \ live : \A c \in Clients : phase[c] = "stale" => held[c] # a}

\* The free-slot test of adev_open_input_stream().
SlotFree(slot) == xin_streams[slot] = NULL

\* Mutant: a new stream ignores the microphone mute.
OpenedUnmuted(slot, rate) == in_create(slot, rate)

\* A new stream follows the microphone mute.
Opened(slot, rate) ==
  IF mic_is_muted THEN in_set_mute(in_create(slot, rate), TRUE)
                  ELSE in_create(slot, rate)

\* adev_open_input_stream() succeeds.  A call that fails frees what it
\* allocated and leaves every variable as it was.
AdevOpenInputStream(c, slot) ==
  /\ ~DeviceLocked
  /\ phase[c] = "closed"
  /\ SlotFree(slot)
  /\ \E a \in Allocatable, rate \in SupportedRates :
       LET s == Opened(slot, rate)
       IN  /\ pcm_open(a, s)
           /\ live' = live \cup {a}
           /\ stream' = [b \in live \cup {a} |-> IF b = a THEN s ELSE stream[b]]
           /\ xin_streams' = [xin_streams EXCEPT ![slot] = a]
           /\ held' = [held EXCEPT ![c] = a]
  /\ phase' = [phase EXCEPT ![c] = "open"]
  /\ UNCHANGED <<mic_is_muted, mic_i>>

\* Mutant: the slot of a destroyed stream is not cleared.
SlotsKept(D) == xin_streams

SlotsWithout(D) ==
  [i \in InSlots |-> IF xin_streams[i] \in D THEN NULL ELSE xin_streams[i]]

\* Mutant: destroying a stream closes no PCM.
ClosesNone(D) == {}

\* in_destroy() closes the handle of each stream in D.
Closes(D) == D

\* in_destroy() of every stream in D, and the slots that held them cleared.
DestroyStreams(D) ==
  /\ xin_streams' = SlotsWithout(D)
  /\ pcm_close(Closes(D))
  /\ live' = live \ D
  /\ stream' = [a \in live \ D |-> stream[a]]

\* The streams in the table.
Registered == {xin_streams[i] : i \in InSlots} \ {NULL}

\* adev_close_input_stream() looks the pointer up among the slots; a pointer
\* it does not find is logged and ignored.
AdevCloseInputStream(c) ==
  /\ ~DeviceLocked
  /\ phase[c] # "closed"
  /\ DestroyStreams(Registered \cap {held[c]})
  /\ phase' = [phase EXCEPT ![c] = "closed"]
  /\ held' = [held EXCEPT ![c] = NULL]
  /\ UNCHANGED <<mic_is_muted, mic_i>>

\* adev_set_parameters("restarting=true") destroys all registered streams; the
\* ones the clients of the dead audioserver remember are stale from here on.
AdevSetParametersRestarting ==
  /\ ~DeviceLocked
  /\ DestroyStreams(Registered)
  /\ phase' = [c \in Clients |-> IF phase[c] = "open" THEN "stale" ELSE phase[c]]
  /\ UNCHANGED <<mic_is_muted, mic_i, held>>

\* adev_set_mic_mute() records the state and starts the loop ...
AdevSetMicMute(mute) ==
  /\ ~DeviceLocked
  /\ mic_is_muted' = mute
  /\ mic_i' = 0
  /\ UNCHANGED <<xin_streams, live, stream, pcms, client>>

\* ... that calls in_set_mute() on each stream and then clears its slot.
MicMuteNext ==
  /\ DeviceLocked
  /\ LET a == xin_streams[mic_i]
     IN  IF a # NULL
         THEN /\ stream' = [stream EXCEPT ![a] = in_set_mute(@, mic_is_muted)]
              /\ xin_streams' = [xin_streams EXCEPT ![mic_i] = NULL]
         ELSE UNCHANGED <<stream, xin_streams>>
  /\ mic_i' = mic_i + 1
  /\ UNCHANGED <<mic_is_muted, live, pcms, client>>

-----------------------------------------------------------------------------
(***************************************************************************)
(* Stream calls of a client that holds an open stream.                     *)
(***************************************************************************)
SetStream(a, s) == stream' = [stream EXCEPT ![a] = s]

\* in_read() of a stream in standby turns the device on, and reads.  A read of
\* a stream that is on changes no variable.  The code tries any rate: that only
\* a supported one opens is tinyalsa's doing.
InReadReopens(c) ==
  LET s == stream[held[c]]
  IN  /\ phase[c] = "open" /\ s.standby
      /\ s.rate \in SupportedRates
      /\ pcm_open(held[c], s)
      /\ SetStream(held[c], [s EXCEPT !.p_handle = "open", !.standby = FALSE])
      /\ UNCHANGED <<device, live, client>>

\* in_read() of a stream in standby when the PCM cannot be opened: pcm_open()
\* returned no handle, or one that is not ready and is closed again.
InReadReopenFails(c) ==
  /\ phase[c] = "open" /\ stream[held[c]].standby
  /\ \E h \in {"null", "freed"} :
       SetStream(held[c], ReopenFailed(stream[held[c]], h))
  /\ UNCHANGED <<device, live, pcms, client>>

\* in_standby(), by the client.
InStandby(c) ==
  /\ phase[c] = "open" /\ ~stream[held[c]].standby
  /\ SetStream(held[c], in_standby(stream[held[c]]))
  /\ pcm_close({held[c]})
  /\ UNCHANGED <<device, live, client>>

\* in_set_parameters() with a sampling rate, which it does not check.
InSetParameters(c, rate) ==
  /\ phase[c] = "open"
  /\ MayChangeParameters(stream[held[c]])
  /\ SetStream(held[c], [stream[held[c]] EXCEPT !.rate = rate])
  /\ UNCHANGED <<device, live, pcms, client>>

-----------------------------------------------------------------------------
DeviceCall ==
  \/ \E c \in Clients, slot \in InSlots : AdevOpenInputStream(c, slot)
  \/ \E c \in Clients : AdevCloseInputStream(c)
  \/ AdevSetParametersRestarting
  \/ \E mute \in BOOLEAN : AdevSetMicMute(mute)
  \/ MicMuteNext

StreamCall(c) ==
  \/ InReadReopens(c) \/ InReadReopenFails(c) \/ InStandby(c)
  \/ \E rate \in Rates : InSetParameters(c, rate)

Next == DeviceCall \/ \E c \in Clients : StreamCall(c)

Spec == Init /\ [][Next]_vars
-----------------------------------------------------------------------------
(***************************************************************************)
(* Properties.                                                             *)
(***************************************************************************)

\* Each slot names an allocated stream that records from the slot's PCM, and no
\* two slots name one stream, whatever adev_set_mic_mute(), closing and
\* restarting left in the table.
TableLive ==
  /\ \A i \in InSlots : xin_streams[i] # NULL =>
       xin_streams[i] \in live /\ stream[xin_streams[i]].pcm = InPcm[i]
  /\ \A i, j \in InSlots :
       xin_streams[i] = xin_streams[j] /\ xin_streams[i] # NULL => i = j

\* A PCM is open exactly when the handle of an allocated stream has it open,
\* although the streams of several slots share one PCM and in_read() may fail
\* to get it back.
PcmAccounting ==
  \A p \in Pcms, a \in Addrs :
    pcm_user[p] = a
      <=> a \in live /\ stream[a].pcm = p /\ stream[a].p_handle = "open"

\* A stream is in standby exactly when it has no open handle: in_read() never
\* reads from a handle that is closed or was never opened.
StandbyIffClosed ==
  \A a \in live : stream[a].standby <=> stream[a].p_handle # "open"

\* A recording PCM runs at the rate its stream reports.
HardwareRate ==
  \A a \in live : ~stream[a].standby => pcm_rate[stream[a].pcm] = stream[a].rate

\* Once the device lock is free every stream in the table has the device's
\* mute state.
RegisteredFollowMute ==
  ~DeviceLocked => \A a \in Registered : stream[a].muted = mic_is_muted

\* A client that has a stream open has one of its own, and it is allocated,
\* also after adev_set_mic_mute() forgot it; the table names no stream of a
\* client that is gone.
ClientsOwnStreams ==
  LET open == {c \in Clients : phase[c] = "open"}
  IN  /\ Registered \subseteq {held[c] : c \in open}
      /\ {held[c] : c \in open} \subseteq live
      /\ \A c, d \in open : held[c] = held[d] => c = d

\* "audioserver is restarting, so close all streams".
RestartClosesAll ==
  [][(\E c \in Clients : phase[c] = "open" /\ phase'[c] = "stale")
       => live' = {}]_vars

\* "Free resources allocated by stream": in_destroy() closes a handle that
\* is open, never one that was closed already.
DestroysOnce == [][\A a \in live \ live' : stream[a].p_handle # "freed"]_vars
=============================================================================
