----------------------------- MODULE StreamThreads -----------------------------
(***************************************************************************)
(* The threads inside the streams: every access to a stream or to a lock   *)
(* that another thread could notice is a step.  Modules OutputStreams and  *)
(* InputStreams take a lock region as one step and follow the data; here   *)
(* the locks themselves, the transfer that blocks under a stream's lock,   *)
(* the accesses made without a lock, and the moment a stream is freed are  *)
(* modelled, and most data (mute states, PCMs, error counts) is not.       *)
(*                                                                         *)
(* Each stream has two threads of the audioserver: one that transfers      *)
(* sound (out_write, in_read), one for everything else (standby, set       *)
(* parameters, position).  DevThreads make the device calls.               *)
(***************************************************************************)
EXTENDS Naturals, FiniteSets

CONSTANTS
  Outputs, Inputs,  \* streams, each with a slot of its own
  DevThreads,       \* threads that call the device
  NULL,
  TransferBound,    \* bound of the exploration: transfers per stream
  StreamBound,      \* bound of the exploration: streams allocated at once
  RestartInFlight   \* TRUE: a restart comes while stream calls are in progress

Streams == Outputs \cup Inputs

ASSUME ThreadsAssumption ==
  /\ Outputs \cap Inputs = {}
  /\ IsFiniteSet(Streams)
  /\ TransferBound \in Nat /\ StreamBound \in Nat
  /\ RestartInFlight \in BOOLEAN
  /\ NULL \notin Streams \cup DevThreads \cup (Streams \X {"io", "ctl"})
  /\ DevThreads \cap (Streams \X {"io", "ctl"}) = {}

io(s) == <<s, "io">>
ctl(s) == <<s, "ctl">>
StreamThread == Streams \X {"io", "ctl"}
Threads == StreamThread \cup DevThreads

VARIABLES
  dev_lock,  \* x_audio_device_t.lock: the thread that holds it, or NULL
  lock,      \* the lock of each stream
  table,     \* the streams in xout_streams and xin_streams
  live,      \* the streams that are allocated
  opened,    \* the streams a client holds
  standby,   \* per stream
  p_handle,  \* per stream: "null", "open", or "closed", a dangling pointer
  closer,    \* the thread that closed the handle, NULL while it is open
  frames,    \* written_frames, read_frames: in transfers
  time,      \* last_timestamp, last_time: the transfer it was taken for
  stores,    \* of the transfer thread: fields it has still to store
  failed,    \* of the transfer thread: original_errno is set
  loads,     \* of the other thread: what a position call has still to load,
             \* what it got, and whether no transfer stored meanwhile
  pc,
  job        \* of a device thread: its call, and the streams left to do

fields == <<standby, p_handle, closer>>
position == <<frames, time, stores, loads>>
tables == <<table, live, opened>>
vars == <<dev_lock, lock, tables, fields, position, failed, pc, job>>

Ops == {"master_mute", "mic_mute", "open", "close", "restart"}
NoJob == [op |-> "none", todo |-> {}, at |-> NULL]
Fields == {"frames", "time"}
NoLoads == [todo |-> {}, frames |-> 0, time |-> 0, quiet |-> TRUE]

TypeOK ==
  /\ dev_lock \in DevThreads \cup {NULL}
  /\ lock \in [Streams -> Threads \cup {NULL}]
  /\ table \subseteq live /\ opened \subseteq live /\ live \subseteq Streams
  /\ standby \in [Streams -> BOOLEAN]
  /\ p_handle \in [Streams -> {"null", "open", "closed"}]
  /\ closer \in [Streams -> Threads \cup {NULL}]
  /\ frames \in [Streams -> 0 .. TransferBound]
  /\ time \in [Streams -> 0 .. TransferBound]
  /\ stores \in [Streams -> SUBSET Fields]
  /\ failed \in [Streams -> BOOLEAN]
  /\ loads \in [Streams -> [todo : SUBSET Fields, frames : 0 .. TransferBound,
                            time : 0 .. TransferBound, quiet : BOOLEAN]]
  /\ pc \in [Threads -> {"idle", "transfer", "reopen", "pcm", "store", "report",
                         "standby", "check", "clear", "params", "look",
                         "position", "load", "device", "run", "mute", "set"}]
  /\ job \in [DevThreads -> [op : Ops \cup {"none"}, todo : SUBSET Streams,
                             at : Streams \cup {NULL}]]

Init ==
  /\ dev_lock = NULL
  /\ lock = [s \in Streams |-> NULL]
  /\ table = {} /\ live = {} /\ opened = {}
  /\ standby = [s \in Streams |-> FALSE]
  /\ p_handle = [s \in Streams |-> "null"]
  /\ closer = [s \in Streams |-> NULL]
  /\ frames = [s \in Streams |-> 0]
  /\ time = [s \in Streams |-> 0]
  /\ stores = [s \in Streams |-> {}]
  /\ failed = [s \in Streams |-> FALSE]
  /\ loads = [s \in Streams |-> NoLoads]
  /\ pc = [t \in Threads |-> "idle"]
  /\ job = [d \in DevThreads |-> NoJob]

Goto(t, label) == pc' = [pc EXCEPT ![t] = label]

\* Thread t, which waited for the lock of stream s, takes it.
Lock(t, s, from, to) ==
  /\ pc[t] = from /\ Goto(t, to)
  /\ lock[s] = NULL /\ lock' = [lock EXCEPT ![s] = t]

Unlock(s) == lock' = [lock EXCEPT ![s] = NULL]

-----------------------------------------------------------------------------
(***************************************************************************)
(* out_write() and in_read().                                              *)
(***************************************************************************)
TransferCall(s) ==
  /\ s \in opened /\ pc[io(s)] = "idle" /\ frames[s] < TransferBound
  /\ Goto(io(s), "transfer")
  /\ UNCHANGED <<dev_lock, lock, tables, fields, position, failed, job>>

TransferLock(s) ==
  /\ Lock(io(s), s, "transfer", "reopen")
  /\ UNCHANGED <<dev_lock, tables, fields, position, failed, job>>

\* The device is on ...
IsOn(s) ==
  /\ pc[io(s)] = "reopen" /\ ~standby[s]
  /\ Goto(io(s), "pcm")
  /\ UNCHANGED <<dev_lock, lock, tables, fields, position, failed, job>>

\* ... or is turned on ...
Reopen(s) ==
  /\ pc[io(s)] = "reopen" /\ standby[s]
  /\ standby' = [standby EXCEPT ![s] = FALSE]
  /\ p_handle' = [p_handle EXCEPT ![s] = "open"]
  /\ closer' = [closer EXCEPT ![s] = NULL]
  /\ Goto(io(s), "pcm")
  /\ UNCHANGED <<dev_lock, lock, tables, position, failed, job>>

\* Mutant: the return is left out, and the common error path taken.
FallsThrough == "report"

Returns == "idle"

\* ... or cannot be turned on.  in_read() does not clear the handle.
ReopenFails(s) ==
  /\ pc[io(s)] = "reopen" /\ standby[s]
  /\ \E h \in IF s \in Inputs THEN {"null", "closed"} ELSE {"null"} :
       p_handle' = [p_handle EXCEPT ![s] = h]
  /\ Unlock(s)
  /\ Goto(io(s), Returns)
  /\ UNCHANGED <<dev_lock, tables, standby, closer, position, failed, job>>

\* Mutant: a transfer that fails does not take the time.
FramesOnly(fail) == IF fail THEN {"frames"} ELSE Fields

\* A transfer advances the position whether it failed or not.
StoresAfter(fail) == Fields

\* pcm_write() and pcm_read() return.  out_write() looks at the error later;
\* in_read() keeps it as its result.
Transferred(s, fail) ==
  /\ pc[io(s)] = "pcm"
  /\ stores' = [stores EXCEPT ![s] = StoresAfter(fail)]
  /\ failed' = [failed EXCEPT ![s] = fail /\ s \in Outputs]
  /\ Goto(io(s), "store")
  /\ UNCHANGED <<dev_lock, lock, tables, fields, frames, time, loads, job>>

\* A muted output slept instead.
SleptMuted(s) ==
  /\ s \in Outputs /\ pc[io(s)] = "pcm"
  /\ failed' = [failed EXCEPT ![s] = FALSE]
  /\ Goto(io(s), "store")
  /\ UNCHANGED <<dev_lock, lock, tables, fields, position, job>>

\* A position call in progress on stream s no longer has it for itself.
Noticed(s) == [loads EXCEPT ![s].quiet = FALSE]

\* The two fields are plain memory: a thread that looks without the lock may
\* see the stores in either order.
StoreFrames(s) ==
  /\ pc[io(s)] = "store" /\ "frames" \in stores[s]
  /\ frames' = [frames EXCEPT ![s] = @ + 1]
  /\ stores' = [stores EXCEPT ![s] = @ \ {"frames"}]
  /\ loads' = Noticed(s)
  /\ UNCHANGED <<dev_lock, lock, tables, fields, time, failed, pc, job>>

StoreTime(s) ==
  /\ pc[io(s)] = "store" /\ "time" \in stores[s]
  /\ time' = [time EXCEPT ![s] =
                IF "frames" \in stores[s] THEN frames[s] + 1 ELSE frames[s]]
  /\ stores' = [stores EXCEPT ![s] = @ \ {"time"}]
  /\ loads' = Noticed(s)
  /\ UNCHANGED <<dev_lock, lock, tables, fields, frames, failed, pc, job>>

\* What out_write() does after it released the lock.
AfterTransfer(s) == IF failed[s] THEN "report" ELSE "idle"

TransferUnlock(s) ==
  /\ pc[io(s)] = "store" /\ stores[s] = {}
  /\ Unlock(s)
  /\ Goto(io(s), AfterTransfer(s))
  /\ UNCHANGED <<dev_lock, tables, fields, position, failed, job>>

\* out_write() reports the error from the handle, and stops the stream if it
\* was one too many.
Report(s) ==
  /\ pc[io(s)] = "report"
  /\ failed' = [failed EXCEPT ![s] = FALSE]
  /\ \E next \in {"idle", "standby"} : Goto(io(s), next)
  /\ UNCHANGED <<dev_lock, lock, tables, fields, position, job>>

-----------------------------------------------------------------------------
(***************************************************************************)
(* out_standby() and in_standby(), by either thread of stream s.           *)
(***************************************************************************)
StandbyCall(s) ==
  /\ s \in opened /\ pc[ctl(s)] = "idle"
  /\ Goto(ctl(s), "standby")
  /\ UNCHANGED <<dev_lock, lock, tables, fields, position, failed, job>>

\* Mutant: standby() does not wait for the stream's lock.
EnterUnlocked(t, s) ==
  pc[t] = "standby" /\ Goto(t, "check") /\ UNCHANGED lock

EnterStandby(t, s) == Lock(t, s, "standby", "check")

StandbyLock(t, s) ==
  /\ EnterStandby(t, s)
  /\ UNCHANGED <<dev_lock, tables, fields, position, failed, job>>

\* The stream is in standby already.
StandbyAlready(t, s) ==
  /\ pc[t] = "check" /\ standby[s]
  /\ Unlock(s)
  /\ Goto(t, "idle")
  /\ UNCHANGED <<dev_lock, tables, fields, position, failed, job>>

\* pcm_close() frees the handle ...
StandbyClose(t, s) ==
  /\ pc[t] = "check" /\ ~standby[s]
  /\ standby' = [standby EXCEPT ![s] = TRUE]
  /\ p_handle' = [p_handle EXCEPT ![s] = "closed"]
  /\ closer' = [closer EXCEPT ![s] = t]
  /\ Goto(t, "clear")
  /\ UNCHANGED <<dev_lock, lock, tables, position, failed, job>>

\* ... and p_handle is cleared.
StandbyClear(t, s) ==
  /\ pc[t] = "clear"
  /\ p_handle' = [p_handle EXCEPT ![s] = "null"]
  /\ Unlock(s)
  /\ Goto(t, "idle")
  /\ UNCHANGED <<dev_lock, tables, standby, closer, position, failed, job>>

-----------------------------------------------------------------------------
(***************************************************************************)
(* The other calls of the second thread of stream s.                       *)
(***************************************************************************)

\* Mutant: adev_is_slot_free() takes the device lock.
LooksLocked == "device"

\* adev_is_slot_free() looks at the table at once.
LooksUnlocked == "look"

\* Setting parameters, or getting them: out_get_parameters() and
\* in_get_parameters() lock and unlock the same way and only format.
ParamsCall(s) ==
  /\ s \in opened /\ pc[ctl(s)] = "idle"
  /\ Goto(ctl(s), "params")
  /\ UNCHANGED <<dev_lock, lock, tables, fields, position, failed, job>>

\* out_set_parameters() and in_set_parameters() take the stream's lock; the
\* former looks for a free slot under it.
ParamsLock(s) ==
  /\ Lock(ctl(s), s, "params", LooksUnlocked)
  /\ UNCHANGED <<dev_lock, tables, fields, position, failed, job>>

ParamsDone(s) ==
  /\ pc[ctl(s)] = "look"
  /\ Unlock(s)
  /\ Goto(ctl(s), "idle")
  /\ UNCHANGED <<dev_lock, tables, fields, position, failed, job>>

\* Mutant: the presentation position is read without the lock, too.
NothingLocked == {}

\* out_get_presentation_position() takes the stream's lock,
\* in_get_capture_position() does not.
PositionLocked == Outputs

PositionCall(s) ==
  /\ s \in opened /\ pc[ctl(s)] = "idle"
  /\ Goto(ctl(s), IF s \in PositionLocked THEN "position" ELSE "load")
  /\ loads' = [loads EXCEPT ![s] =
                 [NoLoads EXCEPT !.todo = Fields,
                                 !.quiet = pc[io(s)] # "store"]]
  /\ UNCHANGED <<dev_lock, lock, tables, fields, frames, time, stores, failed, job>>

PositionLock(s) ==
  /\ Lock(ctl(s), s, "position", "load")
  /\ UNCHANGED <<dev_lock, tables, fields, position, failed, job>>

\* The loads, too, may happen in either order.
LoadFrames(s) ==
  /\ pc[ctl(s)] = "load" /\ "frames" \in loads[s].todo
  /\ loads' = [loads EXCEPT ![s].todo = @ \ {"frames"}, ![s].frames = frames[s]]
  /\ UNCHANGED <<dev_lock, lock, tables, fields, frames, time, stores, failed, pc, job>>

LoadTime(s) ==
  /\ pc[ctl(s)] = "load" /\ "time" \in loads[s].todo
  /\ loads' = [loads EXCEPT ![s].todo = @ \ {"time"}, ![s].time = time[s]]
  /\ UNCHANGED <<dev_lock, lock, tables, fields, frames, time, stores, failed, pc, job>>

PositionLoaded(s) == pc[ctl(s)] = "load" /\ loads[s].todo = {}

PositionReturn(s) ==
  /\ PositionLoaded(s)
  /\ IF s \in PositionLocked THEN Unlock(s) ELSE UNCHANGED lock
  /\ loads' = [loads EXCEPT ![s] = NoLoads]
  /\ Goto(ctl(s), "idle")
  /\ UNCHANGED <<dev_lock, tables, fields, frames, time, stores, failed, job>>

-----------------------------------------------------------------------------
(***************************************************************************)
(* Device calls.  The order of the slots plays no role.                    *)
(***************************************************************************)
Idle(s) == pc[io(s)] = "idle" /\ pc[ctl(s)] = "idle"

\* A device call of this kind is under way.
Pending(op) == \E d \in DevThreads : job[d].op = op

\* What the callers know: a stream is closed once, by the client that holds it
\* and when its own calls have returned.  With a restart the clients are gone,
\* and nothing is opened before it.  A pointer somebody is about to close is not
\* reused (AddressReuse of module OutputStreams).
DeviceCall(d, op, s) ==
  /\ pc[d] = "idle"
  /\ Goto(d, "device")
  /\ job' = [job EXCEPT ![d] = [NoJob EXCEPT !.op = op, !.at = s]]
  /\ op = "open" =>
       /\ s \notin live /\ ~Pending("restart")
       /\ \A e \in DevThreads : job[e].op = "close" => job[e].at # s
  /\ op = "close" => s \in opened /\ Idle(s)
  /\ op = "restart" =>
       ~Pending("open") /\ (RestartInFlight \/ \A r \in opened : Idle(r))
  /\ opened' = CASE op = "close" -> opened \ {s}
                 [] op = "restart" -> {}
                 [] OTHER -> opened
  /\ UNCHANGED <<dev_lock, lock, table, live, fields, position, failed>>

\* The streams a call is about.
Work(op, s) ==
  CASE op = "master_mute" -> table \cap Outputs
    [] op = "mic_mute" -> table \cap Inputs
    [] op = "open" -> {s} \ live
    [] op = "close" -> table \cap {s}
    [] op = "restart" -> table

\* Mutant: a device call does not wait for the device lock.
DeviceUnlocked(d) == UNCHANGED dev_lock

DeviceLock(d) == dev_lock = NULL /\ dev_lock' = d

DeviceEnter(d) ==
  /\ pc[d] = "device" /\ Goto(d, "run")
  /\ DeviceLock(d)
  /\ job' = [job EXCEPT ![d].todo = Work(job[d].op, job[d].at), ![d].at = NULL]
  /\ UNCHANGED <<lock, tables, fields, position, failed>>

\* The loops of adev_set_master_mute() and adev_set_mic_mute() come to the next
\* stream and wait for its lock.
MuteNext(d) ==
  /\ pc[d] = "run" /\ job[d].op \in {"master_mute", "mic_mute"}
  /\ \E s \in job[d].todo : job' = [job EXCEPT ![d].at = s]
  /\ Goto(d, "mute")
  /\ UNCHANGED <<dev_lock, lock, tables, fields, position, failed>>

MuteLock(d) ==
  /\ Lock(d, job[d].at, "mute", "set")
  /\ UNCHANGED <<dev_lock, tables, fields, position, failed, job>>

\* Mutant: the loop does not advance.
SameAgain(todo, s) == todo

\* The streams left after s.
Left(todo, s) == todo \ {s}

\* The stream's mute state is set; adev_set_mic_mute() clears its slot.
MuteSet(d) ==
  LET s == job[d].at
  IN  /\ pc[d] = "set" /\ Goto(d, "run")
      /\ Unlock(s)
      /\ table' = IF job[d].op = "mic_mute" THEN table \ {s} ELSE table
      /\ job' = [job EXCEPT ![d].todo = Left(@, s), ![d].at = NULL]
      /\ UNCHANGED <<dev_lock, live, opened, fields, position, failed>>

\* Each stream's contents as calloc() and out_create(), in_create() set them.
Fresh(s, handle) ==
  /\ standby' = [standby EXCEPT ![s] = FALSE]
  /\ p_handle' = [p_handle EXCEPT ![s] = handle]
  /\ closer' = [closer EXCEPT ![s] = NULL]
  /\ frames' = [frames EXCEPT ![s] = 0]
  /\ time' = [time EXCEPT ![s] = 0]
  /\ UNCHANGED <<stores, loads>>

\* Mutant: the slot of a destroyed stream is not cleared.
TableKept(s) == table

TableWithout(s) == table \ {s}

\* A stream is created and entered in the table.  Its creation may fail, which
\* leaves everything as it was.
Open(d) ==
  /\ pc[d] = "run" /\ job[d].op = "open"
  /\ \E s \in job[d].todo :
       \/ /\ Cardinality(live) < StreamBound
          /\ live' = live \cup {s} /\ table' = table \cup {s}
          /\ opened' = opened \cup {s}
          /\ Fresh(s, "open")
       \/ UNCHANGED <<tables, fields, position>>
  /\ job' = [job EXCEPT ![d].todo = {}]
  /\ UNCHANGED <<dev_lock, lock, failed, pc>>

\* out_destroy() and in_destroy(): the lock and the handle are destroyed and
\* the memory is freed, without the stream's lock.
Destroy(d) ==
  /\ pc[d] = "run" /\ job[d].op \in {"close", "restart"}
  /\ \E s \in job[d].todo :
       /\ live' = live \ {s} /\ table' = TableWithout(s)
       /\ Fresh(s, "null")
       /\ job' = [job EXCEPT ![d].todo = Left(@, s)]
  /\ UNCHANGED <<dev_lock, lock, opened, failed, pc>>

DeviceReturn(d) ==
  /\ pc[d] = "run" /\ job[d].todo = {}
  /\ dev_lock' = NULL
  /\ job' = [job EXCEPT ![d] = NoJob]
  /\ Goto(d, "idle")
  /\ UNCHANGED <<lock, tables, fields, position, failed>>

-----------------------------------------------------------------------------
\* A caller calls.
Call ==
  \/ \E s \in Streams :
       TransferCall(s) \/ StandbyCall(s) \/ ParamsCall(s) \/ PositionCall(s)
  \/ \E d \in DevThreads, op \in Ops, s \in Streams : DeviceCall(d, op, s)

StandbyStep(t, s) ==
  \/ StandbyLock(t, s) \/ StandbyAlready(t, s)
  \/ StandbyClose(t, s) \/ StandbyClear(t, s)

IoStep(s) ==
  \/ TransferLock(s) \/ IsOn(s) \/ Reopen(s) \/ ReopenFails(s)
  \/ (\E fail \in BOOLEAN : Transferred(s, fail)) \/ SleptMuted(s)
  \/ StoreFrames(s) \/ StoreTime(s) \/ TransferUnlock(s) \/ Report(s)
  \/ StandbyStep(io(s), s)

CtlStep(s) ==
  \/ StandbyStep(ctl(s), s)
  \/ ParamsLock(s) \/ ParamsDone(s)
  \/ PositionLock(s) \/ LoadFrames(s) \/ LoadTime(s) \/ PositionReturn(s)

DeviceStep(d) ==
  \/ DeviceEnter(d) \/ MuteNext(d) \/ MuteLock(d) \/ MuteSet(d)
  \/ Open(d) \/ Destroy(d) \/ DeviceReturn(d)

Next ==
  \/ Call
  \/ \E s \in Streams : IoStep(s) \/ CtlStep(s)
  \/ \E d \in DevThreads : DeviceStep(d)

Spec == Init /\ [][Next]_vars

\* A thread that can run does, and pcm_write() and pcm_read() return.  Nothing
\* is assumed of who gets a lock when several threads wait, nor that anybody
\* calls.
FairSpec ==
  /\ Spec
  /\ \A s \in Streams : WF_vars(IoStep(s)) /\ WF_vars(CtlStep(s))
  /\ \A d \in DevThreads : WF_vars(DeviceStep(d))
-----------------------------------------------------------------------------
(***************************************************************************)
(* Properties.                                                             *)
(***************************************************************************)

\* Thread t waits for a lock that somebody holds.
Waits(t) ==
  \/ pc[t] = "device" /\ dev_lock # NULL
  \/ \E s \in Streams :
       /\ lock[s] # NULL
       /\ \/ /\ t \in {io(s), ctl(s)}
             /\ pc[t] \in {"transfer", "standby", "params", "position"}
          \/ t \in DevThreads /\ pc[t] = "mute" /\ job[t].at = s

\* As long as some call is in progress one of them can go on: device calls that
\* wait for streams, and stream calls that wait for each other and look at the
\* table, never close a circle.
NoDeadlock ==
  (\E t \in Threads : pc[t] # "idle")
    => \E t \in Threads : pc[t] # "idle" /\ ~Waits(t)

\* The stream a thread is inside of, or waits for, is allocated, also during
\* the parts of a call that hold no lock: the error path of out_write() and
\* in_get_capture_position(); and also for a mute call that runs into a close.
InsideIsAllocated ==
  /\ \A s \in Streams : ~Idle(s) => s \in live
  /\ \A d \in DevThreads : pc[d] \in {"mute", "set"} => job[d].at \in live

\* While sound is transferred the handle stays open, whoever else stops, closes
\* or mutes the stream.
TransferKeepsHandle ==
  \A s \in Streams : pc[io(s)] = "pcm" => p_handle[s] = "open" /\ ~standby[s]

\* out_write() reports an error from a handle that is open, unless another
\* thread put the stream into standby since.
ReportHasHandle ==
  \A s \in Streams :
    pc[io(s)] = "report" => p_handle[s] = "open" \/ closer[s] = ctl(s)

\* A position is the frames and the time of one transfer: always for an output,
\* for an input unless in_read() stored a new one during the call.
PositionPaired ==
  \A s \in Streams :
    PositionLoaded(s) /\ (s \in Outputs \/ loads[s].quiet)
      => loads[s].frames = loads[s].time

\* When the callers stop calling, every call returns: no thread waits for
\* another one for ever.
CallsReturn ==
  <>[][~Call]_vars => <>[](\A t \in Threads : pc[t] = "idle")
=============================================================================
