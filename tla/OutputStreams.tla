---------------------------- MODULE OutputStreams ----------------------------
(***************************************************************************)
(* The playback side of the audio HAL: the device's table of output        *)
(* streams and its master mute (device.c), the streams themselves          *)
(* (stream_out.c), the PCM devices they hold open through tinyalsa, and    *)
(* the audioserver clients that call in.                                   *)
(*                                                                         *)
(* Grain of atomicity.  The code has two levels of mutex: the device lock  *)
(* (x_audio_device_t.lock) and one lock per stream (x_stream_out_t.lock).  *)
(* A region that runs under one stream's lock is one step.  A device call  *)
(* that holds the device lock and touches no stream another thread can see *)
(* is one step.  What the code does between two regions is a step of its   *)
(* own: adev_set_master_mute() takes the streams' locks one after another, *)
(* and out_write() handles an error after it released the lock.            *)
(***************************************************************************)
EXTENDS Naturals

CONSTANTS
  NumOut,              \* NUMBER_OF_DEVICES_OUT: slots of the output map
  Pcms,                \* PCM devices, each a (card, device) pair
  OutPcm,              \* xa_output_map: the PCM of each slot
  DefaultSlot,         \* the slot find_out_device() returns for OUT_DEFAULT
  Addrs,               \* heap addresses calloc() may return for a stream
  Clients,             \* stream wrappers of the audioserver, one stream each
  NULL,
  MAX_ALLOWED_ERRORS,  \* failed writes in a row before the stream is stopped
  FrameBound,          \* bound of the exploration: buffers written per stream
  OtherCalls,          \* TRUE: standby() and set_parameters() may come while
                       \* a write is in progress
  AddressReuse         \* TRUE: calloc() may return an address a client of a
                       \* dead audioserver still remembers

OutSlots == 0 .. NumOut - 1

ASSUME OutputAssumption ==
  /\ NumOut \in Nat
  /\ OutPcm \in [OutSlots -> Pcms]
  /\ DefaultSlot \in OutSlots
  /\ NULL \notin Addrs \cup Pcms
  /\ MAX_ALLOWED_ERRORS \in Nat \ {0}
  /\ FrameBound \in Nat
  /\ OtherCalls \in BOOLEAN
  /\ AddressReuse \in BOOLEAN

VARIABLES
  xout_streams,     \* x_audio_device_t.xout_streams: address or NULL per slot
  master_is_muted,  \* x_audio_device_t.master_is_muted
  mute_i,           \* index of the loop in adev_set_master_mute(), NumOut
                    \* when no such call holds the device lock
  live,             \* addresses of allocated streams
  stream,           \* contents of the x_stream_out_t at each address
  pcm_user,         \* the stream whose handle has a PCM open, or NULL
  phase,            \* what each client knows: no stream, an open one, or one
                    \* it opened before the audioserver restarted
  held,             \* the stream address each client got from its last open
  call              \* where each client's out_write() is between lock regions

vars == <<xout_streams, master_is_muted, mute_i, live, stream, pcm_user,
          phase, held, call>>

device == <<xout_streams, master_is_muted, mute_i>>
client == <<phase, held, call>>

(***************************************************************************)
(* The stream structure.  p_handle is the PCM the handle has open, pcm     *)
(* stands for p_card_id and p_dev_id, written_frames counts buffers.       *)
(***************************************************************************)
Stream == [standby        : BOOLEAN,
           p_handle       : Pcms \cup {NULL},
           pcm            : Pcms \cup {NULL},
           muted          : BOOLEAN,
           written_frames : 0 .. FrameBound,
           error_cntr     : Nat]

\* calloc() clears the structure.
Cleared == [standby |-> FALSE, p_handle |-> NULL, pcm |-> NULL,
            muted |-> FALSE, written_frames |-> 0, error_cntr |-> 0]

TypeOK ==
  /\ xout_streams \in [OutSlots -> Addrs \cup {NULL}]
  /\ master_is_muted \in BOOLEAN
  /\ mute_i \in 0 .. NumOut
  /\ live \subseteq Addrs
  /\ stream \in [Addrs -> Stream]
  /\ pcm_user \in [Pcms -> Addrs \cup {NULL}]
  /\ phase \in [Clients -> {"closed", "open", "stale"}]
  /\ held \in [Clients -> Addrs \cup {NULL}]
  /\ call \in [Clients -> {"idle", "failed", "stopping"}]

Init ==
  /\ xout_streams = [i \in OutSlots |-> NULL]
  /\ master_is_muted = FALSE
  /\ mute_i = NumOut
  /\ live = {}
  /\ stream = [a \in Addrs |-> Cleared]
  /\ pcm_user = [p \in Pcms |-> NULL]
  /\ phase = [c \in Clients |-> "closed"]
  /\ held = [c \in Clients |-> NULL]
  /\ call = [c \in Clients |-> "idle"]

(***************************************************************************)
(* tinyalsa and the kernel.  A PCM has one playback substream: pcm_open()  *)
(* of a PCM that is open already yields a handle that is not ready.        *)
(***************************************************************************)
pcm_open(p, a) == [pcm_user EXCEPT ![p] = a]

pcm_close(h) == IF h = NULL THEN pcm_user ELSE [pcm_user EXCEPT ![h] = NULL]

-----------------------------------------------------------------------------
(***************************************************************************)
(* Functions of stream_out.c on the contents of one stream.                *)
(***************************************************************************)

\* The stream out_create() returns for a slot, connected to its PCM.
out_create(slot) ==
  [Cleared EXCEPT !.pcm = OutPcm[slot], !.p_handle = OutPcm[slot]]

\* out_set_mute(), under the stream's lock.
out_set_mute(s, mute) == [s EXCEPT !.muted = mute]

\* Mutant: out_standby() leaves the closed handle in p_handle.
StandbyKeepsHandle(s) == [s EXCEPT !.standby = TRUE]

\* out_standby() closes the handle, unless the stream is in standby already.
out_standby(s) ==
  IF s.standby THEN s ELSE [s EXCEPT !.standby = TRUE, !.p_handle = NULL]

\* Mutant: out_standby() drops the handle without pcm_close().
StandbyLeaks(s) == NULL

\* The handle it closes.
StandbyCloses(s) == IF s.standby THEN NULL ELSE s.p_handle

\* Mutant: the reopened stream starts unmuted.
ReopenedUnmuted(s) ==
  IF s.standby
  THEN [s EXCEPT !.p_handle = s.pcm, !.standby = FALSE, !.muted = FALSE]
  ELSE s

\* Mutant: a reopened stream starts without errors.
ReopenedForgets(s) ==
  IF s.standby
  THEN [s EXCEPT !.p_handle = s.pcm, !.standby = FALSE, !.error_cntr = 0]
  ELSE s

\* out_write() turns the device on again when the stream is in standby.
Reopened(s) ==
  IF s.standby THEN [s EXCEPT !.p_handle = s.pcm, !.standby = FALSE] ELSE s

\* The same when pcm_open() fails.
ReopenFailed(s) == [s EXCEPT !.p_handle = NULL]

\* Mutant: bytes are counted instead of frames.
WrittenBytes(s) == [s EXCEPT !.written_frames = @ + 2]

\* pcm_write() was called: the position advances whether it failed or not.
Written(s) == [s EXCEPT !.written_frames = @ + 1]

\* Mutant: one error more than allowed.
OneErrorTooMany(s) == s.error_cntr > MAX_ALLOWED_ERRORS

\* Mutant: the stream is stopped one error early.
OneErrorTooFew(s) == s.error_cntr >= MAX_ALLOWED_ERRORS - 1

\* Too many errors in a row: out_write() calls out_standby().
TooManyErrors(s) == s.error_cntr >= MAX_ALLOWED_ERRORS

\* Mutant: parameters may change during playback.
AlwaysChangeParameters(s) == TRUE

\* out_set_parameters() refuses to change anything during playback.
MayChangeParameters(s) == s.standby

-----------------------------------------------------------------------------
(***************************************************************************)
(* Device calls.                                                           *)
(***************************************************************************)

\* adev_set_master_mute() holds the device lock over all its steps.
DeviceLocked == mute_i < NumOut

\* Addresses calloc() may return.
Allocatable ==
  {a \in Addrs \ live :
     AddressReuse \/ \A c \in Clients : phase[c] = "stale" => held[c] # a}

\* Mutant: a slot in use is opened again.
SlotUnchecked(slot) == TRUE

\* The free-slot test of adev_open_output_stream().
SlotFree(slot) == xout_streams[slot] = NULL

\* Mutant: a new stream ignores the master mute.
OpenedUnmuted(slot) == out_create(slot)

\* A new stream follows the master mute.
Opened(slot) ==
  IF master_is_muted THEN out_set_mute(out_create(slot), TRUE)
                     ELSE out_create(slot)

\* adev_open_output_stream() succeeds.  A call that fails (configuration,
\* device or address refused, slot in use, no memory, PCM not ready) frees
\* what it allocated and leaves every variable as it was.
AdevOpenOutputStream(c, slot) ==
  /\ ~DeviceLocked
  /\ phase[c] = "closed"
  /\ SlotFree(slot)
  /\ pcm_user[OutPcm[slot]] = NULL
  /\ \E a \in Allocatable :
       /\ live' = live \cup {a}
       /\ stream' = [stream EXCEPT ![a] = Opened(slot)]
       /\ pcm_user' = pcm_open(OutPcm[slot], a)
       /\ xout_streams' = [xout_streams EXCEPT ![slot] = a]
       /\ held' = [held EXCEPT ![c] = a]
  /\ phase' = [phase EXCEPT ![c] = "open"]
  /\ UNCHANGED <<master_is_muted, mute_i, call>>

\* Mutant: the slot of a destroyed stream is not cleared.
SlotsKept(D) == xout_streams

\* The table after the streams in D were destroyed.
SlotsWithout(D) ==
  [i \in OutSlots |-> IF xout_streams[i] \in D THEN NULL ELSE xout_streams[i]]

\* The PCMs after the streams in D were destroyed: each closes its handle.
PcmsWithout(D) ==
  [p \in Pcms |-> IF \E a \in D : stream[a].p_handle = p THEN NULL
                                                         ELSE pcm_user[p]]

\* out_destroy() of every stream in D, and the slots that held them cleared.
DestroyStreams(D) ==
  /\ xout_streams' = SlotsWithout(D)
  /\ pcm_user' = PcmsWithout(D)
  /\ live' = live \ D
  /\ stream' = [a \in Addrs |-> IF a \in D THEN Cleared ELSE stream[a]]

\* The streams in the table.
Registered == {xout_streams[i] : i \in OutSlots} \ {NULL}

\* adev_close_output_stream() looks the pointer up among the slots; a pointer
\* it does not find is logged and ignored.
AdevCloseOutputStream(c) ==
  /\ ~DeviceLocked
  /\ phase[c] # "closed" /\ call[c] = "idle"
  /\ DestroyStreams(Registered \cap {held[c]})
  /\ phase' = [phase EXCEPT ![c] = "closed"]
  /\ held' = [held EXCEPT ![c] = NULL]
  /\ UNCHANGED <<master_is_muted, mute_i, call>>

\* adev_set_parameters("restarting=true") destroys all registered streams.  It
\* comes after the audioserver died, when no call of its clients is in
\* progress; the streams they remember are stale from here on.
AdevSetParametersRestarting ==
  /\ ~DeviceLocked
  /\ \A c \in Clients : call[c] = "idle"
  /\ DestroyStreams(Registered)
  /\ phase' = [c \in Clients |-> IF phase[c] = "open" THEN "stale" ELSE phase[c]]
  /\ UNCHANGED <<master_is_muted, mute_i, held, call>>

\* adev_set_master_mute() records the state and starts the loop ...
AdevSetMasterMute(mute) ==
  /\ ~DeviceLocked
  /\ master_is_muted' = mute
  /\ mute_i' = 0
  /\ UNCHANGED <<xout_streams, live, stream, pcm_user, client>>

\* ... that calls out_set_mute() on each stream under that stream's lock.
MuteNext ==
  /\ DeviceLocked
  /\ stream' = IF xout_streams[mute_i] = NULL THEN stream
               ELSE [stream EXCEPT ![xout_streams[mute_i]] =
                                      out_set_mute(@, master_is_muted)]
  /\ mute_i' = mute_i + 1
  /\ UNCHANGED <<xout_streams, master_is_muted, live, pcm_user, client>>

-----------------------------------------------------------------------------
(***************************************************************************)
(* Stream calls of a client that holds an open stream.                     *)
(***************************************************************************)
Calling(c) == phase[c] = "open" /\ call[c] = "idle"

\* The client's other threads find the stream's lock free, also between the
\* lock regions of its out_write().
LockFree(c) == phase[c] = "open" /\ (call[c] = "idle" \/ OtherCalls)

SetStream(a, s) == stream' = [stream EXCEPT ![a] = s]

\* The handle out_write() works with: reopened if the stream was in standby.
WriteReady(c) ==
  LET s == stream[held[c]]
  IN  /\ s.standby => pcm_user[s.pcm] = NULL
      /\ pcm_user' = IF s.standby THEN pcm_open(s.pcm, held[c]) ELSE pcm_user

\* out_write() of a muted stream sleeps and writes nothing; error_cntr is
\* cleared after the lock is released, by the only thread that uses it.
OutWriteMuted(c) ==
  LET s == Reopened(stream[held[c]])
  IN  /\ Calling(c) /\ s.muted
      /\ WriteReady(c)
      /\ SetStream(held[c], [s EXCEPT !.error_cntr = 0])
      /\ UNCHANGED <<device, live, client>>

\* out_write() when pcm_write() succeeds.
OutWriteOk(c) ==
  LET s == Reopened(stream[held[c]])
  IN  /\ Calling(c) /\ ~s.muted /\ s.written_frames < FrameBound
      /\ WriteReady(c)
      /\ SetStream(held[c], [Written(s) EXCEPT !.error_cntr = 0])
      /\ UNCHANGED <<device, live, client>>

\* out_write() when pcm_write() fails: the lock is released, the error is
\* still to be handled.
OutWriteError(c) ==
  LET s == Reopened(stream[held[c]])
  IN  /\ Calling(c) /\ ~s.muted /\ s.written_frames < FrameBound
      /\ WriteReady(c)
      /\ SetStream(held[c], Written(s))
      /\ call' = [call EXCEPT ![c] = "failed"]
      /\ UNCHANGED <<device, live, phase, held>>

\* out_write() reads the handle to report its error and counts the error.
OutWriteReport(c) ==
  LET s == [stream[held[c]] EXCEPT !.error_cntr = @ + 1]
  IN  /\ call[c] = "failed"
      /\ SetStream(held[c], s)
      /\ call' = [call EXCEPT ![c] = IF TooManyErrors(s) THEN "stopping"
                                                         ELSE "idle"]
      /\ UNCHANGED <<device, live, pcm_user, phase, held>>

\* The lock region of out_standby() on the stream at address a.
EnterStandby(a) ==
  /\ SetStream(a, out_standby(stream[a]))
  /\ pcm_user' = pcm_close(StandbyCloses(stream[a]))

\* The out_standby() call of out_write().
OutWriteStop(c) ==
  /\ call[c] = "stopping"
  /\ EnterStandby(held[c])
  /\ call' = [call EXCEPT ![c] = "idle"]
  /\ UNCHANGED <<device, live, phase, held>>

\* out_write() of a stream in standby when the PCM cannot be opened.
OutWriteReopenFails(c) ==
  /\ Calling(c) /\ stream[held[c]].standby
  /\ SetStream(held[c], ReopenFailed(stream[held[c]]))
  /\ UNCHANGED <<device, live, pcm_user, client>>

\* out_standby() called by the client.
OutStandby(c) ==
  /\ LockFree(c)
  /\ EnterStandby(held[c])
  /\ UNCHANGED <<device, live, client>>

\* out_set_parameters() with a new routing.  The default device is the only
\* routing find_out_device() resolves without an address: it leads to
\* DefaultSlot, which adev_is_slot_free() reads without the device lock.
OutSetParameters(c) ==
  /\ LockFree(c)
  /\ MayChangeParameters(stream[held[c]])
  /\ SlotFree(DefaultSlot)
  /\ SetStream(held[c], [stream[held[c]] EXCEPT !.pcm = OutPcm[DefaultSlot]])
  /\ UNCHANGED <<device, live, pcm_user, client>>

-----------------------------------------------------------------------------
DeviceCall ==
  \/ \E c \in Clients, slot \in OutSlots : AdevOpenOutputStream(c, slot)
  \/ \E c \in Clients : AdevCloseOutputStream(c)
  \/ AdevSetParametersRestarting
  \/ \E mute \in BOOLEAN : AdevSetMasterMute(mute)
  \/ MuteNext

StreamCall(c) ==
  \/ OutWriteMuted(c) \/ OutWriteOk(c) \/ OutWriteError(c)
  \/ OutWriteReport(c) \/ OutWriteStop(c) \/ OutWriteReopenFails(c)
  \/ OutStandby(c) \/ OutSetParameters(c)

Next == DeviceCall \/ \E c \in Clients : StreamCall(c)

Spec == Init /\ [][Next]_vars
-----------------------------------------------------------------------------
(***************************************************************************)
(* Properties.                                                             *)
(***************************************************************************)

\* The table names exactly the allocated streams, each in one slot: no entry
\* dangles after a close or a restart, and no stream is lost to the device.
SlotTableExact ==
  /\ Registered = live
  /\ \A i, j \in OutSlots :
       xout_streams[i] = xout_streams[j] /\ xout_streams[i] # NULL => i = j

\* The allocated streams are exactly those of the clients that have one open,
\* one client each: no call of a client lands on a freed stream or on another
\* client's, and none is left open for a client that is gone.
ClientsOwnStreams ==
  /\ live = {held[c] : c \in {d \in Clients : phase[d] = "open"}}
  /\ \A c, d \in Clients :
       phase[c] = "open" /\ phase[d] = "open" /\ held[c] = held[d] => c = d

\* A PCM is open exactly when the handle of an allocated stream has it open:
\* closing, standby, restart and the error path of a write leak no PCM and
\* close none twice.
PcmAccounting ==
  \A p \in Pcms, a \in Addrs :
    pcm_user[p] = a <=> a \in live /\ stream[a].p_handle = p

\* A stream is in standby exactly when it has no handle, so out_write() always
\* has a handle to write to and out_set_parameters() changes no open PCM.
StandbyIffClosed ==
  \A a \in live : stream[a].standby <=> stream[a].p_handle = NULL

\* A handle is open on the PCM the stream is routed to: rerouting never leaves
\* a stream playing on the PCM it was moved away from.
HandleFollowsRoute ==
  \A a \in live : stream[a].p_handle \in {NULL, stream[a].pcm}

\* Once the device lock is free every stream has the device's mute state, also
\* streams opened, reopened or closed while it was being changed.
MuteCoherent ==
  ~DeviceLocked => \A a \in live : stream[a].muted = master_is_muted

\* out_write() stops a stream at the last failure it tolerates and at no earlier
\* one: past it the stream has been stopped when the call returns, although the
\* handle it reports on may be gone and the stream rerouted by then.
ErrorsStopStream ==
  \A c \in Clients :
    LET errors == stream[held[c]].error_cntr
    IN  /\ Calling(c) /\ errors >= MAX_ALLOWED_ERRORS => stream[held[c]].standby
        /\ call[c] = "stopping" => errors >= MAX_ALLOWED_ERRORS

\* Failed writes in a row on the client's stream, the one not yet counted too.
FailedWrites(c) ==
  stream[held[c]].error_cntr + (IF call[c] = "failed" THEN 1 ELSE 0)

\* Every failed write counts, and only a write that did not fail starts again:
\* no standby, reroute, mute or reopening forgets an error, in whatever order
\* they come between the failure and its handling.
ErrorsCounted ==
  [][\A c \in Clients :
       phase[c] = "open" /\ phase'[c] = "open"
         => IF call[c] = "idle" /\ call'[c] = "failed"
            THEN FailedWrites(c)' = FailedWrites(c) + 1
            ELSE \/ FailedWrites(c)' = FailedWrites(c)
                 \/ Calling(c) /\ FailedWrites(c)' = 0
                    /\ ~stream'[held[c]].standby]_vars

\* After adev_set_master_mute() returned, nothing is written to a PCM until
\* the device is unmuted.
SilentWhileMuted ==
  [][\A a \in live \cap live' :
       stream'[a].written_frames # stream[a].written_frames
         => ~master_is_muted \/ DeviceLocked]_vars

\* The slots are the clients' as ExclusiveSlots describes.
Exclusive ==
  INSTANCE ExclusiveSlots
  WITH Slots <- OutSlots,
       users <- {c \in Clients : phase[c] = "open"},
       owns <- {o \in OutSlots \X Clients :
                  phase[o[2]] = "open" /\ xout_streams[o[1]] = held[o[2]]}

ExclusiveSpec == Exclusive!Spec

\* "Output stream for this device already exists": no two streams are routed
\* to one PCM.
OneStreamPerPcm ==
  \A a, b \in live : a # b => stream[a].pcm # stream[b].pcm

\* "close_output_stream() called for unknown stream": closing a stream that
\* was opened before the audioserver restarted closes nothing.
StaleCloseIgnored ==
  [][\A c \in Clients : phase[c] = "stale" /\ phase'[c] = "closed"
                          => live' = live]_vars
=============================================================================
