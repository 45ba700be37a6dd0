# A verification project for the Xen audio HAL

The repository is the primary audio HAL of an Android guest under Xen
(`audio.primary.xenvm`, C). The audioserver opens the device, opens output and
input streams on it, and reads, writes, mutes, reroutes and closes them; the HAL
maps each request to a slot of a fixed device map and drives one ALSA PCM per
stream through tinyalsa. This directory holds TLA+ modules that model that
program, TLC configurations that check them on small instances, and proofs that
TLAPS checks for every value of the constants.

## Inventory

| Part (source) | State | Operations that change it | What makes it correct |
|---|---|---|---|
| Device life cycle (`device.c` 61-182, `module.c`) | `xadev`, `ref_counter`, `xadev_init_lock` | `adev_open`, `adev_close` | one device, shared; created and freed once; the count exact; the lock always released |
| Output table (`device.c`) | `xout_streams`, `master_is_muted`, device lock | `adev_open_output_stream`, `adev_close_output_stream`, `adev_set_parameters("restarting=true")`, `adev_set_master_mute` | the table names exactly the open streams; one owner per slot; mute reaches all |
| Input table (`device.c`) | `xin_streams`, `mic_is_muted`, device lock | `adev_open_input_stream`, `adev_close_input_stream`, restart, `adev_set_mic_mute` | the same |
| Output stream (`stream_out.c`) | `standby`, `p_handle`, `p_card_id`/`p_dev_id`, `muted`, `written_frames`, `last_timestamp`, `error_cntr`, stream lock | `out_create`, `out_write`, `out_standby`, `out_set_parameters`, `out_set_mute`, `out_destroy` | handle and standby agree; a PCM is open once, for the routing of its stream; a muted stream writes nothing; repeated errors stop it |
| Input stream (`stream_in.c`) | the same without errors and routing, `p_config.rate`, `read_frames`, `last_time` | `in_create`, `in_read`, `in_standby`, `in_set_parameters`, `in_set_mute`, `in_destroy` | handle and standby agree; a PCM that runs has the rate of its stream |
| Configuration (`audio_hw_config.c`) | two constant maps | none; `find_out_device`, `find_in_device`, `is_config_supported_*` | a request leads to a slot it matches, or is refused for a cause |
| Stateless calls, debug traces | none | none | not modelled |
| tinyalsa and the kernel, `calloc`, audioserver (external) | open PCMs, heap, remembered streams | modelled by how `src/` uses them | |

Interactions. `adev_*` calls run under the device lock and call `out_create`,
`out_destroy`, `out_set_mute` (and the `in_` ones) directly; `out_set_mute` takes
the stream's lock inside the device lock. Stream calls run under the stream's lock
alone; `out_set_parameters` looks into the device's table without the device lock.
After its lock region `out_write` handles an error without any lock, and may call
`out_standby`, which takes the lock again. `adev_open` and `adev_close` have a lock
of their own.

The hard behaviours are the gaps between lock regions (the error path of
`out_write`, the loop of a mute call that waits for each stream while a transfer
blocks under one of their locks, the unlocked look at the table, the unlocked
comparison of `adev_close`, the capture position read without a lock), the restart of
the audioserver and the last close of the device, which destroy streams their
clients still remember, PCMs that cannot be reopened, and sequences of calls after
`adev_set_mic_mute` cleared the table. `PROJECT.json` lists each with its line
and the properties that would notice it going wrong.

## Modules

- `OutputStreams` - the output table, master mute, all output streams, their PCMs and
  their clients. Proofs in `OutputStreamsProofs` and `OutputSlotsProofs`.
- `InputStreams` - the same for input. Proofs in `InputStreamsProofs`.
- `ExclusiveSlots` - abstract: each client has one slot of its own, a restart takes all
  away. Implemented by `OutputStreams`. `InputStreams` implements it only as long as
  nobody calls `adev_set_mic_mute`, which takes slots away from their owners.
- `DeviceLifecycle` - `adev_open` and `adev_close` at the grain of single accesses where
  no lock is held. Proofs in `DeviceLifecycleProofs` (callers close what they opened)
  and `StrayCloseProofs` (callers close anything).
- `SharedDevice` - abstract: all callers get one device, destroyed when nobody uses it.
  Implemented by `DeviceLifecycle`.
- `AudioHal` - the composition of `DeviceLifecycle`, `OutputStreams` and `InputStreams`
  (one `INSTANCE` each): a new device starts with a cleared structure, the last
  `adev_close` destroys what is left in both tables, a restart empties both tables in
  one call, and one device lock serves both. Implements `ExclusiveSlots` as well. Proofs
  in `AudioHalProofs`.
- `StreamThreads` - the threads inside output and input streams at the grain of lock
  operations, transfers that block, and accesses without a lock. Proofs in
  `StreamThreadsProofs`.
- `HwConfig` - from an open or reroute request to a slot of the map or a refusal. Proofs
  in `HwConfigProofs`.
- `MC*` - values for TLC, one per checked module.

### How state and actions correspond to the code

Grain. A region under one stream's lock is one step. A device call that touches no
stream another thread can see is one step under the device lock. Where the code
lets go of a lock, or takes one stream's lock after another, there are several
steps: `AdevSetMasterMute` then one `MuteNext` per slot (`mute_i` is the loop
index; while it is below `NumOut` the device lock is held, `DeviceLocked`), likewise
`AdevSetMicMute` and `MicMuteNext`; `OutWriteError`, `OutWriteReport`,
`OutWriteStop` for a write that fails (`call` says where the client is). A call
that fails and changes nothing (a refused open, a refused set_parameters, a read of
a running stream) is a stuttering step.

Streams live at addresses. `xout_streams` holds addresses, `live` is the set the
allocator gave out and did not get back, `stream` their contents; freeing and
forgetting are separate facts, so a dangling table entry or a lost stream can be
expressed. `p_handle` of an output stream is the PCM it has open; of an input
stream it is `"null"`, `"open"` or `"freed"`, because `in_read` keeps a pointer it
has closed. `pcm` stands for `p_card_id` and `p_dev_id`. `pcm_user` is the kernel's
side: a PCM substream opens once, a second `pcm_open` gives a handle that is not
ready, which the code treats as failure. `phase` and `held` are what a client of
the audioserver remembers; `"stale"` is a stream it opened before a restart.

The destruction of several streams (restart, last close) is `DestroyStreams(D)`: the
code loops over the slots under the device lock. In these modules a restart comes
when no call of the dead server is inside a stream; `StreamThreads` makes that a knob,
`RestartInFlight`. The framework does not close a stream while a write of the same
stream is in progress: the stream wrapper joins its thread first.

In `StreamThreads` a stream is one value for its whole life and each has two threads,
`io(s)` for `out_write` or `in_read` and `ctl(s)` for everything else; `DevThreads` call
the device. `pc` is where a thread is, and a lock is the thread that holds it. Fields
no other thread can see without the lock are not split further. `standby` and
`p_handle` are kept, with `closer`, the thread that closed the handle last. A
transfer's two stores (`read_frames` and `last_time`, `written_frames` and
`last_timestamp`) and a position call's two loads happen in either order, since
`in_get_capture_position` synchronises with nothing; `stores` and `loads` say which are
still to come, and `loads[s].quiet` that nothing was stored during the call. Position
and time are counted in transfers, so a pair belongs together exactly when its two
numbers are equal. A loop over the table is one step per stream; `Destroy` frees one
stream without its lock, as `out_destroy` and `in_destroy` do. Mute states, PCMs, errors
and slots are left to `OutputStreams` and `InputStreams`.

In `AudioHal` the callers of the device are not the clients of the streams; streams are
called while some caller holds the device (`InUse`), and the close that counts to zero
comes when other device calls and writes have returned (`Quiet`), which its caller
has to see to: the device's lock is destroyed with the device.

Data left out: formats, buffers and their contents, the clock, `a_dev` (written
with the card and device and never read by the control), latency, `str_parms`,
`errno`. `written_frames` counts buffers. `OutSetParameters` has the one routing
that `find_out_device` resolves without an address, the default device; what other
routings do is in `HwConfig`. Format, channel, frame count, source and rate
parameters of `out_set_parameters` change nothing in the code.

`HwConfig` represents an `audio_devices_t` by its set of bits, and an address by
what `sscanf` finds in it. A read of a null address, or of the table behind its
end, is undefined; the outcome is `"fault"`, and nothing is claimed of what
follows. `bus_number` is -1 while the variable is not initialised. A behaviour
handles one request and stops, so these runs do not check for deadlock. That an open
always passes an address is the framework's part: `adev_open_output_stream` does not
check it, and "no open of an output faults" rests on it. A reroute passes none, and is
checked for neither configuration nor direction: it leads to the default device's slot,
with the bits of the input default device too, to a fault if it is to a bus, and
otherwise to a refusal. One channel count stands for a channel mask; the code counts an
input's channels with the functions for both directions (`device.c` 469).

Knobs, each a named constant: `OtherCalls` (a standby or a reroute of another thread may come during
a write's error path), `AddressReuse` (the allocator may return an address a stale client
remembers), `StrayClose` (callers close devices they do not hold; only then does `adev_close` find
nothing to close under its lock, which the run of `AudioHal` covers and the one of `DeviceLifecycle`
does not), `RestartInFlight` (a restart comes while stream calls are in progress), `Kinds` (which
requests). Bounds: `FrameBound` (buffers written per stream; the writes of a stream stop there, all
other calls go on), `TransferBound` (the same in `StreamThreads`), `StreamBound` (streams allocated
at once in `StreamThreads`), and the sizes of the sets.

Operators introduced by a comment that starts with "Mutant" are no part of a
specification. Each is a plausible mistake in the definition it stands before;
`PROJECT.json` pairs it with a property that TLC finds violated when the mistake is
made.

## Runs

| Run | Shows | Bounds |
|---|---|---|
| `OutputStreams` | table, ownership, PCM accounting, standby and handle, routing, mute, error limit, every failed write counted, silence, refinement of `ExclusiveSlots` | 3 slots, 2 clients, 3 addresses, 2 allowed errors, 3 buffers |
| `StreamThreads` | no deadlock between device and stream locks, no thread in a freed stream, a transfer keeps its handle, a report has one unless the stream's other thread put it into standby meanwhile, positions paired (an input's unless a transfer stored during the call), all calls return once no new ones come | 1 output, 1 input, one of them allocated at a time, 2 transfers each, 2 device threads, restarts between calls |
| `OutputReuse` | *violated*: a late close destroys another client's stream | 2 addresses, reuse on |
| `OutputReroute` | *violated*: two streams on one PCM after a reroute | 2 addresses |
| `DeviceLifecycle` | exact count, one device, stable unlocked comparison, refinement of `SharedDevice`, the lock is released | 3 callers, 2 addresses |
| `AudioHal` | nothing outlives the device, both tables stay coherent, exists exactly when counted although anybody closes anything, refinement of `ExclusiveSlots` | 2 callers, 1 device address, 2 output slots, 1 input slot, 1 client per direction, 1 allowed error, 1 buffer |
| `InputStreams` | no dangling slot, PCM accounting, standby and handle, rate, registered streams follow the mute, open streams are owned and allocated | 3 slots on 2 PCMs, 2 clients, 2 addresses, 3 rates, one unsupported |
| `InputRestartLeaks`, `InputDoubleClose` | *violated*: see below | the same |
| `HwConfig` | a request gets a slot it matches (an open also in configuration and direction), or is refused for a cause; no uninitialised comparison | all device bit sets over the named types and one unknown, 4 bus numbers with one beyond the map, per field one unspecified, the supported and one unsupported value |
| `ConfigUnmapped`, `ConfigReroute` | *violated*: see below | inputs only, reroutes only |

Why the bounds suffice. Two clients are the fewest that compete for a slot, a PCM
or an address, and every property quantifies over at most two streams; three
addresses let a stale address and two fresh ones coexist. Three slots leave a free
slot between two in use, and put the default slot, another one in use, and a
target of rerouting side by side. Two tolerated errors separate the first, the last
tolerated and one too many; three buffers are enough to reach all of them, and to fail again
after the stream was stopped and reopened. Three
callers of the device let one open, one close and one wait at the same time. In
`xa_input_map` all inputs share PCM 0; the instance gives the third slot a PCM of
its own so that independent streams occur as well. In `StreamThreads`
two device threads let a mute call, a close, an open or a restart run into each other,
and every property is about one stream and the threads that meet in it; an output
and an input are both there because they differ in locking, in the handle a failed
reopening leaves, and in the mute loop. Only one is allocated at a time, to keep the
liveness check feasible; two at once are covered by the proofs, which have no such
bound. Two transfers give a position call one to be mixed up with another. In `AudioHal` a
single device address is reused by every device, the worst case for state that
survives; `OutputStreams` and `InputStreams` have the larger instances of each half.
Clients and addresses are
interchangeable (no `CHOOSE` in those modules), so the runs without liveness
properties use symmetry.

Fairness. `LockReleased` of `DeviceLifecycle` assumes weak fairness of the steps of a
thread that holds `xadev_init_lock`: such a thread waits for nothing and the scheduler
runs it. No fairness is assumed of callers, nor of who gets the lock next.
`CallsReturn` of `StreamThreads` assumes that each thread inside a call does its next
step if that step stays possible (weak fairness per thread), which includes that
`pcm_write` and `pcm_read` return: the ALSA ring is drained or fails. Nothing is
assumed of which waiting thread a released mutex goes to, nor that anybody calls.
POSIX mutexes are not fair, so a caller may starve while others keep calling; the
property therefore says that once the callers stop, all calls that are under way
return, which excludes deadlock between device and stream locks, loops that do not
advance, and locks that are kept.

## Disagreements the runs show

1. `OutputReuse`: `adev_close_output_stream` knows a stream by its address only
   (`device.c` 427) and after a restart may destroy a stream that is not the caller's,
   where the code means to report "unknown stream" (434).
2. `OutputReroute`: a reroute does not reserve the slot it moves to (`stream_out.c`
   202, with a TODO at 201), so two streams come to share a PCM.
3. `InputRestartLeaks`: `adev_set_mic_mute` sets the slots to NULL (`device.c` 240);
   a restart misses the streams, which keep their PCM for ever. For the same reason
   the next `adev_set_mic_mute` misses them, and they stay muted: `RegisteredFollowMute`
   speaks of the streams in the table only.
4. `InputDoubleClose`: `in_read` leaves a closed handle behind (`stream_in.c` 309) and
   `in_destroy` closes it again.
5. `ConfigUnmapped`: `unsigned int slot` (`device.c` 450, 497) defeats the test for a
   device that was not found.
6. `ConfigReroute`: rerouting to a bus parses a null address (`stream_out.c` 199).

Each run shows one way into a disagreement; that there is no other is proved. The
violated property is a theorem once that one cause is taken away, and nothing else:

| Disagreement | Holds if | Theorem |
|---|---|---|
| 1 `StaleCloseIgnored` | addresses somebody remembers are not reused | `StaleCloses` |
| 2 `OneStreamPerPcm` | nobody reroutes (and the map has one slot per PCM, as `xa_output_map` has) | `SharingIsRerouting` |
| 3 `RestartClosesAll` | nobody calls `adev_set_mic_mute` | `RestartCloses` |
| 4 `DestroysOnce` | `pcm_open` in `in_read` never returns a handle that is not ready | `ClosedOnce` |
| 5, 6 (a fault) | the request is no reroute to a bus, and no input that passes the checks and matches no slot; otherwise it always faults | `FaultsExact` |

With rerouting, streams still share no PCM but the default slot's (`SharingIsDefault`).

## Proofs

`OutputStreamsProofs` proves, for any number of slots, PCMs, addresses and clients and any limits,
with `~AddressReuse`: `TypeCorrect`, and from the inductive invariant `IInv` the theorems
`StreamsOwned` (`SlotTableExact`, `ClientsOwnStreams`), `HandlesExact` (`PcmAccounting`,
`StandbyIffClosed`, `HandleFollowsRoute`), `MuteCoherence`, `ErrorsStop`, and the action properties
`ErrorsCount`, `Silence` and `StaleCloses`. `IInv` is needed because none of them is inductive
alone: which streams exist depends on who holds them, a PCM is closed by a handle only if it was the
stream's, the mute sweep has muted exactly the slots below `mute_i`, and the error limit is restored
by a client that is still between two lock regions, whatever standby or reroute gets there first.
`AddressReuse` is excluded because with it the ownership part is false, as `OutputReuse` shows.

`OutputSlotsProofs` proves from `IInv`, again with `~AddressReuse`, that `OutputStreams`
implements `ExclusiveSlots` (`SlotsExclusive`): an open gives a slot nobody had,
because a fresh address is in no slot and in no other client's hands; a close takes
only the caller's slot, because no two clients hold one address and a stale one is
not allocated. `SharingIsDefault` and `SharingIsRerouting` rest on two more invariants, on
what PCM the stream in a slot can be routed to (`RoutedToSlotOrDefault`, and
`RoutedToSlot` without rerouting): two streams are in two slots, so the PCMs of the
slots tell them apart.

`DeviceLifecycleProofs` proves with `~StrayClose` that the count is the number of
holders (`DeviceShared`), that the unlocked comparison is stable (`CheckRaceFree`) and
that `DeviceLifecycle` implements `SharedDevice` (`Implements`). The argument: a
client that is about to close still holds a device, so the count is at least one
until it takes its own turn; a device is freed only in the critical section of the
caller that counted to zero. Its assumption `LifecycleAssumption` says that the
callers fit into `ref_counter`.

`StrayCloseProofs` drops `~StrayClose`: `LifecycleTypes` and `DeviceCounted`
(`DeviceIffCounted`). The count is then only at most the number of callers that believe
they hold the device (`CountBounded`), which still bounds it, and what makes the test
under the lock sufficient is that a device exists while it is counted or while the
one that counted to zero has not cleared `xadev` yet (`Existence`). `ReleaseNears` is
what `LockReleased` says without the fairness argument: every step while the lock is
held releases it, brings its holder nearer to the release (three steps at most), or is
somebody's comparison outside the lock.

`InputStreamsProofs` proves all invariants of the `InputStreams` run without further
assumption (`TypeCorrect`, `TableIsLive`, `StreamsOwned`, `PcmsAccounted`, `HandlesExact`,
`RateExact`, `MuteFollowed`). Beyond them `IInv` has `HoldersDiffer` (two clients never
remember one address, allocated or not, so that a close of one does not hit the
other) and `MicSwept` (the sweep has cleared the slots below `mic_i`, so the table is
empty when it ends). The rate argument needs PCM accounting: a stream that sets a
PCM's rate finds it free, so no running stream has it.
Under a condition on the steps, the same module proves `RestartCloses` and
`SlotsExclusive` (without `adev_set_mic_mute` the table names all allocated streams,
`AllRegistered`, from which the argument for outputs applies) and `ClosedOnce` (a freed
handle stays behind only where `in_read` got one that was not ready, `NoneFreed`).

`StreamThreadsProofs` proves, for any numbers of streams and threads, the six
invariants of the `StreamThreads` run, under `~RestartInFlight`: without that, a restart
frees a stream, and its lock, whatever is inside. `IInv` says where threads can be
(`Places`), that a lock is held exactly at the places between its lock and unlock
(`Locks`), what a device thread's list of streams may contain (`Tasks`), that a stream
about to be destroyed cannot be called and is not about to be opened (`Doomed`),
that calls are only inside streams their client holds (`Inside`), how handle and
standby change during a transfer (`Handles`), and how far the two stores and the two
loads of a position may be apart (`Stored`, `Loaded`).

Deadlock freedom (`DeadlockFree`) follows from the lock order (`LocksOrdered`: no thread
waits for the device lock with a stream's lock in its hands), in three cases. If a
stream's lock is held, its holder waits for nothing (`HolderRuns`). If none is, but the
device lock is, the device call that has it can go on. If no lock is held, everybody
can. It says more than the order alone, as a thread that forgets to unlock, or waits
for a lock it holds, would keep the order.

`RemainingCounts` and `CallsShrink` prove of `CallsReturn` all but the fairness argument.
`Remaining(t)` bounds the steps that thread `t` has before it: by where it is, and by the
number of fields or streams left in its loop, a `Cardinality`. It is a natural number, 0
only for a thread that is in no call; every step that is not a new call lowers it for
one thread and raises it for none. So once the callers stop, only finitely many steps
are left, and by `DeadlockFree` somebody can take one until all have returned. The last
inference is over behaviours and `ENABLED`, and stays with TLC.

`HwConfigProofs` proves the invariants of the `HwConfig` run for output maps of any
length, any sets of bus numbers and unknown device bits and any supported lists that
contain the defaults. `IInv` records at each step what the checks passed so far
established (`Checked`, `Parsed`, `Found`, `DefaultFilled`). `FInv` adds to it that a scan
that ends without a slot had none to find (`Cause`) and that a routing is checked
for nothing (`RoutePath`); it gives `FaultsExact`, an equivalence: which requests fault,
and that all others do not.

`AudioHalProofs` proves all properties of the `AudioHal` run (`DeviceCounted`, `NothingSurvives`,
`TablesCoherent`, `SlotsExclusive`), and that the other guarantees of the parts survive the
composition (`StreamsSound`, `ErrorsCount`, `Silence`, `StaleCloses`), without an assumption about
who closes what device. It instantiates the proofs of the three parts: a step of the HAL is a step
of the life cycle or leaves it alone (`LifeStep`), and, unless it creates a device, a step of each
table or leaves it alone (`StreamStep`), so their inductive invariants carry over. Creating a device
sets both tables and mute states under the parts' feet; that keeps their invariants because the
tables are empty by then (`CreateInv`), for which `HInv` adds that nobody is inside a call of a
device that is not counted (`Quiescent`) and that the last close left both tables empty
(`NothingLeft`).

Assumptions on the constants are the `ASSUME`s of the modules: sizes are numbers, maps
name PCMs, `NULL` is none of the things it is told apart from. TLC evaluates all of
them in the runs.

Only model-checked: the liveness properties `LockReleased` and `CallsReturn`, whose
fairness arguments are beyond the prover (their measures are proved, see above), and the
six disagreements, each a counterexample.

## Plan

Everything the first inventory set out to model is modelled: output streams, device
life cycle, input streams, configuration, stream threads, composition, in this order.
What could follow is a refinement between `StreamThreads` and `OutputStreams` or
`InputStreams`, which are related by their atomic regions only (each region under one
stream's lock in the former is a step of the latter; `LocksOrdered`, `TransferKeepsHandle`
and `InsideIsAllocated` are what makes the coarser grain legitimate), and a run of
`StreamThreads` with `RestartInFlight`, should the framework's guarantees about the threads
of a dead server be settled.

## Not modelled

Stateless and unsupported calls (volume, gain, mode, effects, dump, microphones,
patches, ports), `dbg_func_traces.c`, the parsing inside `str_parms`, the module table
and build files: they change no state of the HAL or have no behaviour.
`out_get_parameters` and `in_get_parameters` are modelled as far as their locking goes.
The clock, sleeping, `errno` and the sound data are left out, as no property is about
them; `PROJECT.json` names the two places where `errno` is used in a doubtful way.
