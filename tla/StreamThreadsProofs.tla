-------------------------- MODULE StreamThreadsProofs --------------------------
(***************************************************************************)
(* Theorems about StreamThreads, for any number of streams, of threads in  *)
(* the device, and any bounds, when a restart comes while no stream call   *)
(* is in progress.  Without that they are false: a restart destroys a      *)
(* stream whatever goes on inside it.                                      *)
(***************************************************************************)
EXTENDS StreamThreads, FiniteSetTheorems, TLAPS

(***************************************************************************)
(* The inductive invariant.                                                *)
(***************************************************************************)

\* Where the threads can be.
IoInside == {"reopen", "pcm", "store", "check", "clear"}
CtlInside == {"check", "clear", "look"}
DevInside == {"run", "mute", "set"}

Places ==
  /\ \A s \in Streams :
       /\ pc[io(s)] \in IoInside \cup {"idle", "transfer", "report", "standby"}
       /\ pc[ctl(s)] \in CtlInside
                         \cup {"idle", "standby", "params", "position", "load"}
       /\ pc[ctl(s)] = "position" => s \in Outputs
  /\ \A d \in DevThreads : pc[d] \in DevInside \cup {"idle", "device"}

\* Who holds which lock.
Locks ==
  /\ \A s \in Streams :
       /\ lock[s] \in DevThreads \cup {NULL, io(s), ctl(s)}
       /\ lock[s] = io(s) <=> pc[io(s)] \in IoInside
       /\ lock[s] = ctl(s)
            <=> \/ pc[ctl(s)] \in CtlInside
                \/ pc[ctl(s)] = "load" /\ s \in Outputs
  /\ \A d \in DevThreads, s \in Streams :
       lock[s] = d <=> pc[d] = "set" /\ job[d].at = s
  /\ \A d \in DevThreads : dev_lock = d <=> pc[d] \in DevInside

\* A device call is about stream s.
Aims(d, s) == job[d].at = s \/ s \in job[d].todo

\* A device thread works on what the table names, except when it opens.
Tasks ==
  \A d \in DevThreads :
    /\ job[d].op = "none" <=> pc[d] = "idle"
    /\ pc[d] = "idle" => job[d] = NoJob
    /\ pc[d] = "device" => job[d].todo = {} /\ job[d].at \in Streams
    /\ pc[d] = "run" => job[d].at = NULL
    /\ pc[d] \in {"mute", "set"} =>
         /\ job[d].at \in job[d].todo
         /\ job[d].at \in table /\ job[d].op \in {"master_mute", "mic_mute"}
    /\ job[d].op = "open" => job[d].todo \cap live = {}
    /\ job[d].op # "open" => job[d].todo \subseteq table

\* Nobody can call a stream that is about to be destroyed, and nobody is about
\* to open it.
Doomed ==
  /\ \A d \in DevThreads, s \in Streams :
       job[d].op = "close" /\ Aims(d, s) => s \notin opened
  /\ \A d, e \in DevThreads, s \in Streams :
       job[d].op = "close" /\ job[e].op = "close" /\ Aims(d, s) /\ Aims(e, s)
         => d = e
  /\ \A d, e \in DevThreads, s \in Streams :
       job[d].op = "close" /\ job[e].op = "open" /\ Aims(d, s) /\ Aims(e, s)
         => s \in live
  /\ Pending("restart") => opened = {} /\ ~Pending("open")

\* Calls are made only of streams the client holds.
Inside == \A s \in Streams : ~Idle(s) => s \in opened

\* A stream that is on has its handle open, and stays on during a transfer.
Handles ==
  \A s \in Streams :
    /\ s \in live /\ ~standby[s] => p_handle[s] = "open"
    /\ pc[io(s)] \in {"pcm", "store"} => ~standby[s]
    /\ pc[io(s)] = "clear" \/ pc[ctl(s)] = "clear" => standby[s]
    /\ pc[io(s)] = "report" => ~standby[s] \/ closer[s] = ctl(s)

\* Frames and time differ only between the two stores of a transfer.
StoredAt(s) ==
  /\ pc[io(s)] # "store" => stores[s] = {}
  /\ stores[s] \in {{}, Fields} => frames[s] = time[s]
  /\ stores[s] = {"time"} => frames[s] = time[s] + 1
  /\ stores[s] = {"frames"} => time[s] = frames[s] + 1
  /\ pc[io(s)] \in {"transfer", "reopen", "pcm"} => frames[s] < TransferBound
  /\ "frames" \in stores[s] => frames[s] < TransferBound

Stored == \A s \in Streams : StoredAt(s)

\* What a position call has loaded is still what is stored.
LoadedAt(s) ==
  /\ pc[ctl(s)] = "position" => loads[s].todo = Fields
  /\ pc[ctl(s)] \in {"position", "load"} /\ s \in Inputs /\ loads[s].quiet
       => stores[s] \in {{}, Fields}
  /\ pc[ctl(s)] = "load" /\ (s \in Outputs \/ loads[s].quiet) =>
       /\ "frames" \notin loads[s].todo => loads[s].frames = frames[s]
       /\ "time" \notin loads[s].todo => loads[s].time = time[s]

Loaded == \A s \in Streams : LoadedAt(s)

IInv ==
  /\ TypeOK
  /\ Places /\ Locks
  /\ Tasks /\ Doomed /\ Inside
  /\ Handles
  /\ Stored /\ Loaded

-----------------------------------------------------------------------------
(***************************************************************************)
(* Type and lock lemmas.                                                   *)
(***************************************************************************)

\* What a position call has loaded, and what a device thread has to do.
LoadRecord == [todo : SUBSET Fields, frames : 0 .. TransferBound,
               time : 0 .. TransferBound, quiet : BOOLEAN]
JobRecord == [op : Ops \cup {"none"}, todo : SUBSET Streams,
              at : Streams \cup {NULL}]

\* The threads of the streams and of the device are all different.
LEMMA ThreadsDiffer ==
  /\ \A s \in Streams : io(s) \in Threads /\ ctl(s) \in Threads
  /\ \A s \in Streams : io(s) # NULL /\ ctl(s) # NULL
  /\ \A s \in Streams : io(s) \notin DevThreads /\ ctl(s) \notin DevThreads
  /\ \A s, r \in Streams : io(s) # ctl(r)
  /\ \A s, r \in Streams : io(s) = io(r) => s = r
  /\ \A s, r \in Streams : ctl(s) = ctl(r) => s = r
  /\ \A t \in Threads : \/ t \in DevThreads
                        \/ \E s \in Streams : t = io(s) \/ t = ctl(s)
  /\ DevThreads \subseteq Threads /\ NULL \notin DevThreads
<1>1. \A s \in Streams : io(s) \in StreamThread /\ ctl(s) \in StreamThread
  BY DEF io, ctl, StreamThread
<1>2. /\ NULL \notin StreamThread /\ NULL \notin DevThreads
      /\ DevThreads \cap StreamThread = {}
  BY ThreadsAssumption DEF StreamThread
<1>3. /\ \A s, r \in Streams : io(s) # ctl(r)
      /\ \A s, r \in Streams : io(s) = io(r) => s = r
      /\ \A s, r \in Streams : ctl(s) = ctl(r) => s = r
  BY DEF io, ctl
<1>4. \A t \in StreamThread : \E s \in Streams : t = io(s) \/ t = ctl(s)
  BY DEF io, ctl, StreamThread
<1> QED
  BY <1>1, <1>2, <1>3, <1>4 DEF Threads

\* The sets of fields a transfer has to store, or a position call to load.
LEMMA FieldSets ==
  /\ \A S \in SUBSET Fields :
       S \in {{}, {"frames"}, {"time"}, Fields}
  /\ Fields \ {"frames"} = {"time"} /\ Fields \ {"time"} = {"frames"}
  /\ {"frames"} \ {"frames"} = {} /\ {"time"} \ {"time"} = {}
  /\ Fields # {"frames"} /\ Fields # {"time"} /\ {"time"} # {"frames"}
  /\ Fields # {} /\ {"frames"} # {} /\ {"time"} # {}
<1>1. ASSUME NEW S \in SUBSET Fields PROVE S \in {{}, {"frames"}, {"time"}, Fields}
  <2>1. CASE "frames" \in S /\ "time" \in S
    BY <2>1 DEF Fields
  <2>2. CASE "frames" \in S /\ "time" \notin S
    BY <2>2 DEF Fields
  <2>3. CASE "frames" \notin S /\ "time" \in S
    BY <2>3 DEF Fields
  <2>4. CASE "frames" \notin S /\ "time" \notin S
    BY <2>4 DEF Fields
  <2> QED
    BY <2>1, <2>2, <2>3, <2>4
<1>2. /\ Fields \ {"frames"} = {"time"} /\ Fields \ {"time"} = {"frames"}
      /\ {"frames"} \ {"frames"} = {} /\ {"time"} \ {"time"} = {}
  BY DEF Fields
<1>3. /\ Fields # {"frames"} /\ Fields # {"time"} /\ {"time"} # {"frames"}
      /\ Fields # {} /\ {"frames"} # {} /\ {"time"} # {}
  BY DEF Fields
<1> QED
  BY <1>1, <1>2, <1>3

\* A step of one of the threads of stream s, which a client holds, that leaves
\* the device alone concerns no device call.
LEMMA StreamFrame ==
  ASSUME IInv, NEW s \in Streams, s \in opened, NEW t \in {io(s), ctl(s)},
         \A u \in Threads \ {t} : pc'[u] = pc[u],
         UNCHANGED <<dev_lock, tables, job>>
  PROVE  Tasks' /\ Doomed' /\ Inside'
<1> USE DEF IInv, tables
<1>1. \A d \in DevThreads : pc'[d] = pc[d]
  BY ThreadsDiffer
<1>2. Tasks'
  BY <1>1 DEF Tasks
<1>3. Doomed'
  BY DEF Doomed, Aims, Pending
<1>4. Inside'
  <2>1. \A r \in Streams \ {s} : pc'[io(r)] = pc[io(r)] /\ pc'[ctl(r)] = pc[ctl(r)]
    BY ThreadsDiffer
  <2> QED
    BY <2>1 DEF Inside, Idle
<1> QED
  BY <1>2, <1>3, <1>4

\* The relation of frames and time stays as it is where they do, unless the
\* thread enters a transfer or leaves the two stores.
LEMMA StoredSame ==
  ASSUME NEW r \in Streams, StoredAt(r),
         stores'[r] = stores[r], frames'[r] = frames[r], time'[r] = time[r],
         pc'[io(r)] # "store" => pc[io(r)] # "store",
         pc'[io(r)] \in {"transfer", "reopen", "pcm"}
           => pc[io(r)] \in {"transfer", "reopen", "pcm"}
  PROVE  StoredAt(r)'
BY DEF StoredAt

\* A step of out_write() or in_read() that stores no position does not disturb
\* what a position call has loaded.
LEMMA LoadedKept ==
  ASSUME IInv, \A r \in Streams : pc'[ctl(r)] = pc[ctl(r)],
         UNCHANGED position
  PROVE  Loaded'
<1> SUFFICES ASSUME NEW r \in Streams PROVE LoadedAt(r)'
  BY DEF Loaded
<1>1. LoadedAt(r)
  BY DEF IInv, Loaded
<1>2. UNCHANGED <<loads, stores, frames, time>> /\ pc'[ctl(r)] = pc[ctl(r)]
  BY DEF position
<1> QED
  BY <1>1, <1>2 DEF LoadedAt

\* A store tells a position call of the same stream, and no other one.
LEMMA NoticedLoads ==
  ASSUME TypeOK, NEW s \in Streams, loads' = Noticed(s)
  PROVE  /\ loads' \in [Streams -> LoadRecord]
         /\ ~loads'[s].quiet /\ loads'[s].todo = loads[s].todo
         /\ \A r \in Streams \ {s} : loads'[r] = loads[r]
<1> DEFINE l == [loads[s] EXCEPT !.quiet = FALSE]
<1>1. loads \in [Streams -> LoadRecord]
  BY DEF TypeOK, LoadRecord
<1>2. l \in LoadRecord /\ ~l.quiet /\ l.todo = loads[s].todo
  BY <1>1 DEF LoadRecord
<1>3. loads' = [loads EXCEPT ![s] = l]
  BY DEF Noticed
<1> HIDE DEF l
<1> QED
  BY <1>1, <1>2, <1>3

\* Every step of out_write() and in_read() preserves the invariant, the standby
\* at the end of the error path apart.
LEMMA InvIoStep ==
  ASSUME IInv, NEW s \in Streams, IoStep(s), ~StandbyStep(io(s), s)
  PROVE  IInv'
<1> USE ThreadsDiffer DEF IInv, TypeOK, Goto, Lock, Unlock, fields, position, tables
<1>0. Tasks' /\ Doomed' /\ Inside'
  <2>1. s \in opened
    BY DEF IoStep, Inside, Idle, TransferLock, IsOn, Reopen, ReopenFails, Transferred,
           SleptMuted, StoreFrames, StoreTime, TransferUnlock, Report
  <2>2. \A u \in Threads \ {io(s)} : pc'[u] = pc[u]
    BY DEF IoStep, TransferLock, IsOn, Reopen, ReopenFails, Transferred,
           SleptMuted, StoreFrames, StoreTime, TransferUnlock, Report
  <2> QED
    BY <2>1, <2>2, StreamFrame
    DEF IoStep, TransferLock, IsOn, Reopen, ReopenFails, Transferred,
           SleptMuted, StoreFrames, StoreTime, TransferUnlock, Report
<1>1. CASE TransferLock(s)
  <2> USE <1>1 DEF TransferLock
  <2>1. TypeOK'
    BY DEF TypeOK
  <2>2. Places'
    BY DEF Places, IoInside, CtlInside
  <2>3. Locks'
    BY DEF Places, Locks, IoInside, CtlInside
  <2>4. Handles'
    BY DEF Places, Handles, Locks, IoInside, CtlInside
  <2>5. Stored'
    <3> SUFFICES ASSUME NEW r \in Streams PROVE StoredAt(r)'
      BY DEF Stored
    <3>1. StoredAt(r)
      BY DEF Stored
    <3>2. UNCHANGED <<stores, frames, time>>
      OBVIOUS
    <3>3. /\ pc'[io(r)] # "store" => pc[io(r)] # "store"
          /\ pc'[io(r)] \in {"transfer", "reopen", "pcm"}
               => pc[io(r)] \in {"transfer", "reopen", "pcm"}
      OBVIOUS
    <3> QED
      BY <3>1, <3>2, <3>3, StoredSame
  <2>6. Loaded'
    BY LoadedKept
  <2> QED
    BY <2>1, <2>2, <2>3, <2>4, <2>5, <2>6, <1>0
<1>2. CASE IsOn(s)
  <2> USE <1>2 DEF IsOn
  <2>1. TypeOK'
    BY DEF TypeOK
  <2>2. Places'
    BY DEF Places, IoInside, CtlInside
  <2>3. Locks'
    BY DEF Places, Locks, IoInside, CtlInside
  <2>4. Handles'
    BY DEF Places, Handles, Locks, IoInside, CtlInside
  <2>5. Stored'
    BY DEF Places, Stored, StoredAt
  <2>6. Loaded'
    BY LoadedKept
  <2> QED
    BY <2>1, <2>2, <2>3, <2>4, <2>5, <2>6, <1>0
<1>3. CASE Reopen(s)
  <2> USE <1>3 DEF Reopen
  <2>1. TypeOK'
    BY DEF TypeOK
  <2>2. Places'
    BY DEF Places, IoInside, CtlInside
  <2>3. Locks'
    BY DEF Places, Locks, IoInside, CtlInside
  <2>4. Handles'
    BY DEF Places, Handles, Locks, IoInside, CtlInside
  <2>5. Stored'
    <3> SUFFICES ASSUME NEW r \in Streams PROVE StoredAt(r)'
      BY DEF Stored
    <3>1. StoredAt(r)
      BY DEF Stored
    <3>2. UNCHANGED <<stores, frames, time>>
      OBVIOUS
    <3>3. /\ pc'[io(r)] # "store" => pc[io(r)] # "store"
          /\ pc'[io(r)] \in {"transfer", "reopen", "pcm"}
               => pc[io(r)] \in {"transfer", "reopen", "pcm"}
      OBVIOUS
    <3> QED
      BY <3>1, <3>2, <3>3, StoredSame
  <2>6. Loaded'
    BY LoadedKept
  <2> QED
    BY <2>1, <2>2, <2>3, <2>4, <2>5, <2>6, <1>0
<1>4. CASE ReopenFails(s)
  <2> USE <1>4 DEF ReopenFails, Returns
  <2>1. TypeOK'
    BY DEF TypeOK
  <2>2. Places'
    BY DEF Places, IoInside, CtlInside
  <2>3. Locks'
    BY DEF Places, Locks, IoInside, CtlInside
  <2>4. Handles'
    BY DEF Places, Handles, Locks, IoInside, CtlInside
  <2>5. Stored'
    BY DEF Places, Stored, StoredAt
  <2>6. Loaded'
    BY LoadedKept
  <2> QED
    BY <2>1, <2>2, <2>3, <2>4, <2>5, <2>6, <1>0
<1>5. ASSUME NEW fail \in BOOLEAN, Transferred(s, fail) PROVE IInv'
  <2> USE <1>5 DEF Transferred, StoresAfter
  <2>1. TypeOK'
    BY DEF TypeOK
  <2>2. Places'
    BY DEF Places, IoInside, CtlInside
  <2>3. Locks'
    BY DEF Places, Locks, IoInside, CtlInside
  <2>4. Handles'
    BY DEF Places, Handles, Locks, IoInside, CtlInside
  <2>5. Stored'
    <3>1. stores[s] = {} /\ stores' = [stores EXCEPT ![s] = Fields]
      BY DEF Stored, StoredAt
    <3>2. StoredAt(s)'
      BY <3>1, FieldSets DEF Stored, StoredAt
    <3>3. ASSUME NEW r \in Streams \ {s} PROVE StoredAt(r)'
      BY <3>1 DEF Stored, StoredAt
    <3> QED
      BY <3>2, <3>3 DEF Stored
  <2>6. Loaded'
    <3>1. /\ stores'[s] = Fields
          /\ \A r \in Streams \ {s} : stores'[r] = stores[r]
      OBVIOUS
    <3> QED
      BY <3>1 DEF Loaded, LoadedAt
  <2> QED
    BY <2>1, <2>2, <2>3, <2>4, <2>5, <2>6, <1>0
<1>6. CASE SleptMuted(s)
  <2> USE <1>6 DEF SleptMuted
  <2>1. TypeOK'
    BY DEF TypeOK
  <2>2. Places'
    BY DEF Places, IoInside, CtlInside
  <2>3. Locks'
    BY DEF Places, Locks, IoInside, CtlInside
  <2>4. Handles'
    BY DEF Places, Handles, Locks, IoInside, CtlInside
  <2>5. Stored'
    BY DEF Places, Stored, StoredAt
  <2>6. Loaded'
    BY LoadedKept
  <2> QED
    BY <2>1, <2>2, <2>3, <2>4, <2>5, <2>6, <1>0
<1>7. CASE StoreFrames(s)
  <2> USE <1>7 DEF StoreFrames
  <2>1. TypeOK'
    <3>1. loads' \in [Streams -> LoadRecord]
      BY NoticedLoads
    <3>2. stores' \in [Streams -> SUBSET Fields]
      OBVIOUS
    <3>3. frames' \in [Streams -> 0 .. TransferBound]
      BY ThreadsAssumption DEF Stored, StoredAt
    <3>4. time' \in [Streams -> 0 .. TransferBound]
      BY ThreadsAssumption DEF Stored, StoredAt
    <3> QED
      BY <3>1, <3>2, <3>3, <3>4 DEF LoadRecord
  <2>2. Places'
    BY DEF Places, IoInside, CtlInside
  <2>3. Locks'
    BY DEF Places, Locks, IoInside, CtlInside
  <2>4. Handles'
    BY DEF Places, Handles, Locks, IoInside, CtlInside
  <2>5. Stored'
    <3>1. ASSUME NEW r \in Streams \ {s}
          PROVE  /\ stores'[r] = stores[r] /\ frames'[r] = frames[r]
                 /\ time'[r] = time[r] /\ pc'[io(r)] = pc[io(r)]
      OBVIOUS
    <3>2. pc'[io(s)] = "store"
      OBVIOUS
    <3>3. stores[s] = Fields \/ stores[s] = {"frames"}
      BY FieldSets
    <3>4. /\ frames[s] + 1 \in Nat /\ frames'[s] = frames[s] + 1
          /\ time'[s] = time[s]
          /\ \/ stores[s] = Fields /\ stores'[s] = {"time"} /\ frames[s] = time[s]
             \/ stores[s] = {"frames"} /\ stores'[s] = {} /\ time[s] = frames[s] + 1
      BY <3>3, FieldSets, ThreadsAssumption DEF Stored, StoredAt
    <3>5. StoredAt(s)'
      BY <3>2, <3>4, FieldSets DEF StoredAt
    <3>6. ASSUME NEW r \in Streams \ {s} PROVE StoredAt(r)'
      <4>1. StoredAt(r)
        BY DEF Stored
      <4> HIDE DEF IInv, TypeOK
      <4> QED
        BY <3>1, <4>1, StoredSame
    <3> QED
      BY <3>5, <3>6 DEF Stored
  <2>6. Loaded'
    <3>1. /\ ~loads'[s].quiet /\ loads'[s].todo = loads[s].todo
          /\ \A r \in Streams \ {s} : loads'[r] = loads[r]
      BY NoticedLoads
    <3>2. pc[ctl(s)] = "load" => s \notin Outputs
      BY DEF Locks, IoInside
    <3>3. LoadedAt(s)'
      BY <3>1, <3>2 DEF Loaded, LoadedAt
    <3>4. ASSUME NEW r \in Streams \ {s} PROVE LoadedAt(r)'
      BY <3>1 DEF Loaded, LoadedAt
    <3> QED
      BY <3>3, <3>4 DEF Loaded
  <2> QED
    BY <2>1, <2>2, <2>3, <2>4, <2>5, <2>6, <1>0
<1>8. CASE StoreTime(s)
  <2> USE <1>8 DEF StoreTime
  <2>1. TypeOK'
    <3>1. loads' \in [Streams -> LoadRecord]
      BY NoticedLoads
    <3>2. stores' \in [Streams -> SUBSET Fields]
      OBVIOUS
    <3>3. frames' \in [Streams -> 0 .. TransferBound]
      BY ThreadsAssumption DEF Stored, StoredAt
    <3>4. time' \in [Streams -> 0 .. TransferBound]
      BY ThreadsAssumption DEF Stored, StoredAt
    <3> QED
      BY <3>1, <3>2, <3>3, <3>4 DEF LoadRecord
  <2>2. Places'
    BY DEF Places, IoInside, CtlInside
  <2>3. Locks'
    BY DEF Places, Locks, IoInside, CtlInside
  <2>4. Handles'
    BY DEF Places, Handles, Locks, IoInside, CtlInside
  <2>5. Stored'
    <3>1. ASSUME NEW r \in Streams \ {s}
          PROVE  /\ stores'[r] = stores[r] /\ frames'[r] = frames[r]
                 /\ time'[r] = time[r] /\ pc'[io(r)] = pc[io(r)]
      OBVIOUS
    <3>2. pc'[io(s)] = "store"
      OBVIOUS
    <3>3. stores[s] = Fields \/ stores[s] = {"time"}
      BY FieldSets
    <3>4. /\ frames'[s] = frames[s] /\ frames[s] \in Nat
          /\ \/ /\ stores[s] = Fields /\ stores'[s] = {"frames"}
                /\ time'[s] = frames[s] + 1 /\ frames[s] < TransferBound
             \/ stores[s] = {"time"} /\ stores'[s] = {} /\ time'[s] = frames[s]
      BY <3>3, FieldSets, ThreadsAssumption DEF Stored, StoredAt
    <3>5. StoredAt(s)'
      BY <3>2, <3>4, FieldSets DEF StoredAt
    <3>6. ASSUME NEW r \in Streams \ {s} PROVE StoredAt(r)'
      <4>1. StoredAt(r)
        BY DEF Stored
      <4> HIDE DEF IInv, TypeOK
      <4> QED
        BY <3>1, <4>1, StoredSame
    <3> QED
      BY <3>5, <3>6 DEF Stored
  <2>6. Loaded'
    <3>1. /\ ~loads'[s].quiet /\ loads'[s].todo = loads[s].todo
          /\ \A r \in Streams \ {s} : loads'[r] = loads[r]
      BY NoticedLoads
    <3>2. pc[ctl(s)] = "load" => s \notin Outputs
      BY DEF Locks, IoInside
    <3>3. LoadedAt(s)'
      BY <3>1, <3>2 DEF Loaded, LoadedAt
    <3>4. ASSUME NEW r \in Streams \ {s} PROVE LoadedAt(r)'
      BY <3>1 DEF Loaded, LoadedAt
    <3> QED
      BY <3>3, <3>4 DEF Loaded
  <2> QED
    BY <2>1, <2>2, <2>3, <2>4, <2>5, <2>6, <1>0
<1>9. CASE TransferUnlock(s)
  <2> USE <1>9 DEF TransferUnlock, AfterTransfer
  <2>1. TypeOK'
    BY DEF TypeOK
  <2>2. Places'
    BY DEF Places, IoInside, CtlInside
  <2>3. Locks'
    BY DEF Places, Locks, IoInside, CtlInside
  <2>4. Handles'
    BY DEF Places, Handles, Locks, IoInside, CtlInside
  <2>5. Stored'
    BY SMTT(30) DEF Places, Stored, StoredAt
  <2>6. Loaded'
    BY LoadedKept
  <2> QED
    BY <2>1, <2>2, <2>3, <2>4, <2>5, <2>6, <1>0
<1>10. CASE Report(s)
  <2> USE <1>10 DEF Report
  <2>1. TypeOK'
    BY DEF TypeOK
  <2>2. Places'
    BY DEF Places, IoInside, CtlInside
  <2>3. Locks'
    BY DEF Places, Locks, IoInside, CtlInside
  <2>4. Handles'
    BY DEF Places, Handles, Locks, IoInside, CtlInside
  <2>5. Stored'
    <3> SUFFICES ASSUME NEW r \in Streams PROVE StoredAt(r)'
      BY DEF Stored
    <3>1. StoredAt(r)
      BY DEF Stored
    <3>2. UNCHANGED <<stores, frames, time>>
      OBVIOUS
    <3>3. /\ pc'[io(r)] # "store" => pc[io(r)] # "store"
          /\ pc'[io(r)] \in {"transfer", "reopen", "pcm"}
               => pc[io(r)] \in {"transfer", "reopen", "pcm"}
      OBVIOUS
    <3> QED
      BY <3>1, <3>2, <3>3, StoredSame
  <2>6. Loaded'
    BY LoadedKept
  <2> QED
    BY <2>1, <2>2, <2>3, <2>4, <2>5, <2>6, <1>0
<1> QED
  BY <1>1, <1>2, <1>3, <1>4, <1>5, <1>6, <1>7, <1>8, <1>9, <1>10 DEF IoStep

\* So does a step of the other thread that is in no position call after it.
LEMMA PositionLeft ==
  ASSUME IInv, NEW s \in Streams, pc'[ctl(s)] \notin {"position", "load"},
         \A r \in Streams \ {s} : pc'[ctl(r)] = pc[ctl(r)],
         UNCHANGED position
  PROVE  Loaded'
<1> SUFFICES ASSUME NEW r \in Streams PROVE LoadedAt(r)'
  BY DEF Loaded
<1>1. LoadedAt(r)
  BY DEF IInv, Loaded
<1>2. UNCHANGED <<loads, stores, frames, time>>
  BY DEF position
<1> QED
  BY <1>1, <1>2 DEF LoadedAt

\* Every step of out_standby() and in_standby(), by whichever thread, preserves
\* the invariant.
LEMMA InvStandbyStep ==
  ASSUME IInv, NEW s \in Streams, NEW t \in {io(s), ctl(s)}, StandbyStep(t, s)
  PROVE  IInv'
<1> USE ThreadsDiffer DEF IInv, TypeOK, Goto, Lock, Unlock, fields, position, tables
<1>0. Tasks' /\ Doomed' /\ Inside'
  <2>1. s \in opened
    BY DEF StandbyStep, Inside, Idle, StandbyLock, EnterStandby, StandbyAlready,
           StandbyClose, StandbyClear
  <2>2. \A u \in Threads \ {t} : pc'[u] = pc[u]
    BY DEF StandbyStep, StandbyLock, EnterStandby, StandbyAlready, StandbyClose,
           StandbyClear
  <2> QED
    BY <2>1, <2>2, StreamFrame
    DEF StandbyStep, StandbyLock, StandbyAlready, StandbyClose, StandbyClear
<1>1. CASE StandbyLock(t, s)
  <2> USE <1>1 DEF StandbyLock, EnterStandby
  <2>1. TypeOK'
    BY DEF TypeOK
  <2>2. Places'
    BY DEF Places, IoInside, CtlInside
  <2>3. Locks'
    BY DEF Places, Locks, IoInside, CtlInside
  <2>4. Handles'
    BY DEF Places, Handles, Locks, IoInside, CtlInside
  <2>5. Stored'
    BY DEF Places, Stored, StoredAt
  <2>6. Loaded'
    <3>1. CASE t = io(s)
      BY <3>1, LoadedKept
    <3>2. CASE t = ctl(s)
      BY <3>2, PositionLeft
    <3> QED
      BY <3>1, <3>2
  <2> QED
    BY <2>1, <2>2, <2>3, <2>4, <2>5, <2>6, <1>0
<1>2. CASE StandbyAlready(t, s)
  <2> USE <1>2 DEF StandbyAlready
  <2>1. TypeOK'
    BY DEF TypeOK
  <2>2. Places'
    BY DEF Places, IoInside, CtlInside
  <2>3. Locks'
    BY DEF Places, Locks, IoInside, CtlInside
  <2>4. Handles'
    BY DEF Places, Handles, Locks, IoInside, CtlInside
  <2>5. Stored'
    BY DEF Places, Stored, StoredAt
  <2>6. Loaded'
    <3>1. CASE t = io(s)
      BY <3>1, LoadedKept
    <3>2. CASE t = ctl(s)
      BY <3>2, PositionLeft
    <3> QED
      BY <3>1, <3>2
  <2> QED
    BY <2>1, <2>2, <2>3, <2>4, <2>5, <2>6, <1>0
<1>3. CASE StandbyClose(t, s)
  <2> USE <1>3 DEF StandbyClose
  <2>1. TypeOK'
    BY DEF TypeOK
  <2>2. Places'
    BY DEF Places, IoInside, CtlInside
  <2>3. Locks'
    BY DEF Places, Locks, IoInside, CtlInside
  <2>4. Handles'
    BY DEF Places, Handles, Locks, IoInside, CtlInside
  <2>5. Stored'
    BY DEF Places, Stored, StoredAt
  <2>6. Loaded'
    <3>1. CASE t = io(s)
      BY <3>1, LoadedKept
    <3>2. CASE t = ctl(s)
      BY <3>2, PositionLeft
    <3> QED
      BY <3>1, <3>2
  <2> QED
    BY <2>1, <2>2, <2>3, <2>4, <2>5, <2>6, <1>0
<1>4. CASE StandbyClear(t, s)
  <2> USE <1>4 DEF StandbyClear
  <2>1. TypeOK'
    BY DEF TypeOK
  <2>2. Places'
    BY DEF Places, IoInside, CtlInside
  <2>3. Locks'
    BY DEF Places, Locks, IoInside, CtlInside
  <2>4. Handles'
    BY DEF Places, Handles, Locks, IoInside, CtlInside
  <2>5. Stored'
    BY DEF Places, Stored, StoredAt
  <2>6. Loaded'
    <3>1. CASE t = io(s)
      BY <3>1, LoadedKept
    <3>2. CASE t = ctl(s)
      BY <3>2, PositionLeft
    <3> QED
      BY <3>1, <3>2
  <2> QED
    BY <2>1, <2>2, <2>3, <2>4, <2>5, <2>6, <1>0
<1> QED
  BY <1>1, <1>2, <1>3, <1>4 DEF StandbyStep

\* A step changes what one position call has loaded.
LEMMA LoadsUpdate ==
  ASSUME TypeOK, NEW s \in Streams, NEW l \in LoadRecord,
         loads' = [loads EXCEPT ![s] = l]
  PROVE  loads' \in [Streams -> LoadRecord]
<1>1. loads \in [Streams -> LoadRecord]
  BY DEF TypeOK, LoadRecord
<1> QED
  BY <1>1

\* A position call starts with nothing loaded.
LEMMA NewLoads ==
  ASSUME NEW quiet \in BOOLEAN
  PROVE  [NoLoads EXCEPT !.todo = Fields, !.quiet = quiet] \in LoadRecord
<1>1. NoLoads \in LoadRecord
  BY ThreadsAssumption DEF NoLoads, LoadRecord
<1> QED
  BY <1>1 DEF LoadRecord

\* Every step of a call that sets parameters or gets a position preserves the
\* invariant.
LEMMA InvCtlStep ==
  ASSUME IInv, NEW s \in Streams, CtlStep(s), ~StandbyStep(ctl(s), s)
  PROVE  IInv'
<1> USE ThreadsDiffer DEF IInv, TypeOK, Goto, Lock, Unlock, fields, position, tables
<1>0. Tasks' /\ Doomed' /\ Inside'
  <2>1. s \in opened
    BY DEF CtlStep, Inside, Idle, ParamsLock, ParamsDone, PositionLock, LoadFrames,
           LoadTime, PositionReturn, PositionLoaded
  <2>2. \A u \in Threads \ {ctl(s)} : pc'[u] = pc[u]
    BY DEF CtlStep, ParamsLock, LooksUnlocked, ParamsDone, PositionLock, LoadFrames,
           LoadTime, PositionReturn
  <2> QED
    BY <2>1, <2>2, StreamFrame
    DEF CtlStep, ParamsLock, ParamsDone, PositionLock, LoadFrames, LoadTime,
        PositionReturn
<1>1. CASE ParamsLock(s)
  <2> USE <1>1 DEF ParamsLock, LooksUnlocked
  <2>1. TypeOK'
    BY DEF TypeOK
  <2>2. Places'
    BY DEF Places, IoInside, CtlInside
  <2>3. Locks'
    BY DEF Places, Locks, IoInside, CtlInside
  <2>4. Handles'
    BY DEF Places, Handles, Locks, IoInside, CtlInside
  <2>5. Stored'
    BY DEF Places, Stored, StoredAt
  <2>6. Loaded'
    BY PositionLeft
  <2> QED
    BY <2>1, <2>2, <2>3, <2>4, <2>5, <2>6, <1>0
<1>2. CASE ParamsDone(s)
  <2> USE <1>2 DEF ParamsDone
  <2>1. TypeOK'
    BY DEF TypeOK
  <2>2. Places'
    BY DEF Places, IoInside, CtlInside
  <2>3. Locks'
    BY DEF Places, Locks, IoInside, CtlInside
  <2>4. Handles'
    BY DEF Places, Handles, Locks, IoInside, CtlInside
  <2>5. Stored'
    BY DEF Places, Stored, StoredAt
  <2>6. Loaded'
    BY PositionLeft
  <2> QED
    BY <2>1, <2>2, <2>3, <2>4, <2>5, <2>6, <1>0
<1>3. CASE PositionLock(s)
  <2> USE <1>3 DEF PositionLock
  <2>1. TypeOK'
    BY DEF TypeOK
  <2>2. Places'
    BY DEF Places, IoInside, CtlInside
  <2>3. Locks'
    BY DEF Places, Locks, IoInside, CtlInside
  <2>4. Handles'
    BY DEF Places, Handles, Locks, IoInside, CtlInside
  <2>5. Stored'
    BY DEF Places, Stored, StoredAt
  <2>6. Loaded'
    <3>1. LoadedAt(s)'
      <4>1. LoadedAt(s) /\ pc[ctl(s)] = "position"
        BY DEF Loaded
      <4>2. pc'[ctl(s)] = "load" /\ UNCHANGED <<loads, stores, frames, time>>
        BY DEF TypeOK
      <4>3. loads[s].todo = Fields
        BY <4>1 DEF LoadedAt
      <4>4. "frames" \in loads[s].todo /\ "time" \in loads[s].todo
        BY <4>3 DEF Fields
      <4> HIDE DEF IInv, TypeOK, PositionLock
      <4> QED
        BY <4>1, <4>2, <4>4 DEF LoadedAt
    <3>2. ASSUME NEW r \in Streams \ {s} PROVE LoadedAt(r)'
      BY DEF Loaded, LoadedAt
    <3> QED
      BY <3>1, <3>2 DEF Loaded
  <2> QED
    BY <2>1, <2>2, <2>3, <2>4, <2>5, <2>6, <1>0
<1>4. CASE LoadFrames(s)
  <2> USE <1>4 DEF LoadFrames
  <2>1. TypeOK'
    <3> DEFINE l == [loads[s] EXCEPT !.todo = @ \ {"frames"}, !.frames = frames[s]]
    <3>1. l \in LoadRecord
      <4>1. loads[s] \in LoadRecord
        BY DEF LoadRecord
      <4>2. loads[s].todo \ {"frames"} \in SUBSET Fields
        BY <4>1 DEF LoadRecord
      <4> QED
        BY <4>1, <4>2 DEF LoadRecord
    <3>2. loads' = [loads EXCEPT ![s] = l]
      OBVIOUS
    <3> HIDE DEF l
    <3>3. loads' \in [Streams -> LoadRecord]
      BY <3>1, <3>2, LoadsUpdate
    <3> QED
      BY <3>3 DEF LoadRecord
  <2>2. Places'
    BY DEF Places, IoInside, CtlInside
  <2>3. Locks'
    BY DEF Places, Locks, IoInside, CtlInside
  <2>4. Handles'
    BY DEF Places, Handles, Locks, IoInside, CtlInside
  <2>5. Stored'
    BY DEF Places, Stored, StoredAt
  <2>6. Loaded'
    BY DEF Loaded, LoadedAt
  <2> QED
    BY <2>1, <2>2, <2>3, <2>4, <2>5, <2>6, <1>0
<1>5. CASE LoadTime(s)
  <2> USE <1>5 DEF LoadTime
  <2>1. TypeOK'
    <3> DEFINE l == [loads[s] EXCEPT !.todo = @ \ {"time"}, !.time = time[s]]
    <3>1. l \in LoadRecord
      <4>1. loads[s] \in LoadRecord
        BY DEF LoadRecord
      <4>2. loads[s].todo \ {"time"} \in SUBSET Fields
        BY <4>1 DEF LoadRecord
      <4> QED
        BY <4>1, <4>2 DEF LoadRecord
    <3>2. loads' = [loads EXCEPT ![s] = l]
      OBVIOUS
    <3> HIDE DEF l
    <3>3. loads' \in [Streams -> LoadRecord]
      BY <3>1, <3>2, LoadsUpdate
    <3> QED
      BY <3>3 DEF LoadRecord
  <2>2. Places'
    BY DEF Places, IoInside, CtlInside
  <2>3. Locks'
    BY DEF Places, Locks, IoInside, CtlInside
  <2>4. Handles'
    BY DEF Places, Handles, Locks, IoInside, CtlInside
  <2>5. Stored'
    BY DEF Places, Stored, StoredAt
  <2>6. Loaded'
    BY DEF Loaded, LoadedAt
  <2> QED
    BY <2>1, <2>2, <2>3, <2>4, <2>5, <2>6, <1>0
<1>6. CASE PositionReturn(s)
  <2> USE <1>6 DEF PositionReturn, PositionLoaded, PositionLocked
  <2>1. TypeOK'
    <3>1. NoLoads \in LoadRecord
      BY ThreadsAssumption DEF NoLoads, LoadRecord
    <3>2. loads' \in [Streams -> LoadRecord]
      BY <3>1 DEF LoadRecord
    <3> QED
      BY <3>2 DEF LoadRecord
  <2>2. Places'
    BY DEF Places, IoInside, CtlInside
  <2>3. Locks'
    BY DEF Places, Locks, IoInside, CtlInside
  <2>4. Handles'
    BY DEF Places, Handles, Locks, IoInside, CtlInside
  <2>5. Stored'
    BY DEF Places, Stored, StoredAt
  <2>6. Loaded'
    BY DEF Loaded, LoadedAt
  <2> QED
    BY <2>1, <2>2, <2>3, <2>4, <2>5, <2>6, <1>0
<1> QED
  BY <1>1, <1>2, <1>3, <1>4, <1>5, <1>6 DEF CtlStep

\* Every call of a stream preserves the invariant.
LEMMA InvStreamCall ==
  ASSUME IInv, NEW s \in Streams,
         TransferCall(s) \/ StandbyCall(s) \/ ParamsCall(s) \/ PositionCall(s)
  PROVE  IInv'
<1> USE ThreadsDiffer DEF IInv, TypeOK, Goto, fields, position, tables
<1>0. Tasks' /\ Doomed' /\ Inside'
  BY StreamFrame DEF TransferCall, StandbyCall, ParamsCall, PositionCall
<1>1. CASE TransferCall(s)
  <2> USE <1>1 DEF TransferCall
  <2>1. TypeOK'
    BY DEF TypeOK
  <2>2. Places'
    BY DEF Places, IoInside, CtlInside
  <2>3. Locks'
    BY DEF Places, Locks, IoInside, CtlInside
  <2>4. Handles'
    BY DEF Places, Handles, Locks, IoInside, CtlInside
  <2>5. Stored'
    <3>1. StoredAt(s)'
      BY DEF Stored, StoredAt
    <3>2. ASSUME NEW r \in Streams \ {s} PROVE StoredAt(r)'
      BY DEF Stored, StoredAt
    <3> QED
      BY <3>1, <3>2 DEF Stored
  <2>6. Loaded'
    BY LoadedKept
  <2> QED
    BY <2>1, <2>2, <2>3, <2>4, <2>5, <2>6, <1>0
<1>2. CASE StandbyCall(s)
  <2> USE <1>2 DEF StandbyCall
  <2>1. TypeOK'
    BY DEF TypeOK
  <2>2. Places'
    BY DEF Places, IoInside, CtlInside
  <2>3. Locks'
    BY DEF Places, Locks, IoInside, CtlInside
  <2>4. Handles'
    BY DEF Places, Handles, Locks, IoInside, CtlInside
  <2>5. Stored'
    BY DEF Places, Stored, StoredAt
  <2>6. Loaded'
    BY PositionLeft
  <2> QED
    BY <2>1, <2>2, <2>3, <2>4, <2>5, <2>6, <1>0
<1>3. CASE ParamsCall(s)
  <2> USE <1>3 DEF ParamsCall
  <2>1. TypeOK'
    BY DEF TypeOK
  <2>2. Places'
    BY DEF Places, IoInside, CtlInside
  <2>3. Locks'
    BY DEF Places, Locks, IoInside, CtlInside
  <2>4. Handles'
    BY DEF Places, Handles, Locks, IoInside, CtlInside
  <2>5. Stored'
    BY DEF Places, Stored, StoredAt
  <2>6. Loaded'
    BY PositionLeft
  <2> QED
    BY <2>1, <2>2, <2>3, <2>4, <2>5, <2>6, <1>0
<1>4. CASE PositionCall(s)
  <2> USE <1>4 DEF PositionCall, PositionLocked
  <2>1. TypeOK'
    <3> DEFINE quiet == pc[io(s)] # "store"
               l == [NoLoads EXCEPT !.todo = Fields, !.quiet = quiet]
    <3>1. l \in LoadRecord
      <4>1. quiet \in BOOLEAN
        OBVIOUS
      <4> HIDE DEF quiet
      <4> QED
        BY <4>1, NewLoads
    <3>2. loads' = [loads EXCEPT ![s] = l]
      OBVIOUS
    <3> HIDE DEF l
    <3>3. loads' \in [Streams -> LoadRecord]
      BY <3>1, <3>2, LoadsUpdate
    <3> QED
      BY <3>3 DEF LoadRecord
  <2>2. Places'
    BY DEF Places, IoInside, CtlInside
  <2>3. Locks'
    BY DEF Places, Locks, IoInside, CtlInside
  <2>4. Handles'
    BY DEF Places, Handles, Locks, IoInside, CtlInside
  <2>5. Stored'
    BY DEF Places, Stored, StoredAt
  <2>6. Loaded'
    <3>1. /\ loads'[s].todo = Fields
          /\ loads'[s].quiet = (pc[io(s)] # "store")
      BY DEF NoLoads
    <3>2. LoadedAt(s)'
      BY <3>1 DEF Stored, StoredAt, LoadedAt, Fields
    <3>3. ASSUME NEW r \in Streams \ {s} PROVE LoadedAt(r)'
      BY DEF Loaded, LoadedAt
    <3> QED
      BY <3>2, <3>3 DEF Loaded
  <2> QED
    BY <2>1, <2>2, <2>3, <2>4, <2>5, <2>6, <1>0
<1> QED
  BY <1>1, <1>2, <1>3, <1>4

\* A step of a device thread that reaches no stream.
LEMMA DeviceFrame ==
  ASSUME IInv, NEW d \in DevThreads, \A u \in Threads \ {d} : pc'[u] = pc[u],
         UNCHANGED <<live, fields, position>>
  PROVE  /\ Handles' /\ Stored' /\ Loaded'
         /\ \A s \in Streams : Idle(s)' <=> Idle(s)
<1> USE ThreadsDiffer DEF IInv, fields, position
<1>1. \A s \in Streams : pc'[io(s)] = pc[io(s)] /\ pc'[ctl(s)] = pc[ctl(s)]
  OBVIOUS
<1>2. \A s \in Streams : Idle(s)' <=> Idle(s)
  BY <1>1 DEF Idle
<1>3. Handles'
  BY <1>1 DEF Handles
<1>4. Stored'
  BY <1>1 DEF Stored, StoredAt
<1>5. Loaded'
  BY <1>1 DEF Loaded, LoadedAt
<1> QED
  BY <1>2, <1>3, <1>4, <1>5

\* Every call of the device preserves the invariant.
LEMMA InvDeviceCall ==
  ASSUME IInv, ~RestartInFlight,
         NEW d \in DevThreads, NEW op \in Ops, NEW s \in Streams,
         DeviceCall(d, op, s)
  PROVE  IInv'
<1> DEFINE j == [NoJob EXCEPT !.op = op, !.at = s]
<1> USE ThreadsDiffer DEF IInv
<1>1. /\ pc[d] = "idle" /\ pc' = [pc EXCEPT ![d] = "device"]
      /\ job' = [job EXCEPT ![d] = j]
      /\ UNCHANGED <<dev_lock, lock, table, live, fields, position, failed>>
      /\ opened' \subseteq opened
  BY DEF DeviceCall, Goto
<1>2. /\ j.op = op /\ j.todo = {} /\ j.at = s
      /\ j \in [op : Ops \cup {"none"}, todo : SUBSET Streams, at : Streams \cup {NULL}]
  BY DEF NoJob
<1> HIDE DEF j
<1>3. /\ \A u \in Threads : pc'[u] = IF u = d THEN "device" ELSE pc[u]
      /\ \A e \in DevThreads : job'[e] = IF e = d THEN j ELSE job[e]
  BY <1>1 DEF TypeOK
<1>4. /\ Handles' /\ Stored' /\ Loaded'
      /\ \A r \in Streams : Idle(r)' <=> Idle(r)
  BY <1>1, <1>3, DeviceFrame
<1>5. TypeOK'
  BY <1>1, <1>2 DEF TypeOK, fields, position
<1>6. Places'
  BY <1>3 DEF Places
<1>7. Locks'
  BY <1>1, <1>3 DEF Locks, DevInside
<1>8. Tasks'
  BY <1>1, <1>2, <1>3 DEF Tasks, Ops
<1>9. Doomed'
  <2> USE <1>1, <1>2, <1>3 DEF Doomed, Aims, Pending
  <2>1. \A r \in Streams : (j.at = r \/ r \in j.todo) <=> r = s
    OBVIOUS
  <2>2. op = "close" => s \in opened /\ s \notin opened' /\ s \in live
    BY DEF DeviceCall, TypeOK
  <2>3. op = "open" =>
          /\ s \notin live /\ ~Pending("restart")
          /\ \A e \in DevThreads : job[e].op = "close" => ~Aims(e, s)
    BY DEF DeviceCall, Tasks, TypeOK
  <2>4. op = "restart" => opened' = {} /\ ~Pending("open")
    BY DEF DeviceCall
  <2>5. \A e \in DevThreads, r \in Streams :
          job'[e].op = "close" /\ Aims(e, r)' => r \notin opened'
    BY <2>1, <2>2
  <2>6. \A e, f \in DevThreads, r \in Streams :
          job'[e].op = "close" /\ job'[f].op = "close" /\ Aims(e, r)' /\ Aims(f, r)'
            => e = f
    BY <2>1, <2>2
  <2>7. \A e, f \in DevThreads, r \in Streams :
          job'[e].op = "close" /\ job'[f].op = "open" /\ Aims(e, r)' /\ Aims(f, r)'
            => r \in live'
    BY <2>1, <2>2, <2>3
  <2>8. Pending("restart")' => opened' = {} /\ ~Pending("open")'
    BY <2>3, <2>4
  <2> QED
    BY <2>5, <2>6, <2>7, <2>8
<1>10. Inside'
  BY <1>1, <1>4 DEF Inside, DeviceCall, Ops
<1> QED
  BY <1>4, <1>5, <1>6, <1>7, <1>8, <1>9, <1>10

\* A device thread that holds the device lock is the only one that works.
LEMMA OthersWait ==
  ASSUME IInv, NEW d \in DevThreads, pc[d] \in DevInside
  PROVE  \A e \in DevThreads \ {d} :
           pc[e] \in {"idle", "device"} /\ job[e].todo = {}
<1>1. \A e \in DevThreads \ {d} : pc[e] \in {"idle", "device"}
  BY DEF IInv, Locks, Places
<1> QED
  BY <1>1 DEF IInv, Tasks, NoJob

\* The fields of a job that a step changes.
LEMMA JobFields ==
  ASSUME NEW j \in JobRecord, NEW todo \in SUBSET Streams,
         NEW at \in Streams \cup {NULL}
  PROVE  /\ LET k == [j EXCEPT !.todo = todo, !.at = at]
            IN  k \in JobRecord /\ k.op = j.op /\ k.todo = todo /\ k.at = at
         /\ LET k == [j EXCEPT !.todo = todo]
            IN  k \in JobRecord /\ k.op = j.op /\ k.todo = todo /\ k.at = j.at
         /\ LET k == [j EXCEPT !.at = at]
            IN  k \in JobRecord /\ k.op = j.op /\ k.todo = j.todo /\ k.at = at
<1> QED
  BY DEF JobRecord

\* A step changes the job of one device thread.
LEMMA JobUpdate ==
  ASSUME TypeOK, NEW d \in DevThreads, NEW j \in JobRecord,
         job' = [job EXCEPT ![d] = j]
  PROVE  /\ job' \in [DevThreads -> JobRecord]
         /\ job'[d] = j
         /\ \A e \in DevThreads \ {d} : job'[e] = job[e]
<1>1. job \in [DevThreads -> JobRecord]
  BY DEF TypeOK, JobRecord
<1> QED
  BY <1>1

\* What a device call that reaches no stream has to say of its own job.
LEMMA DeviceMove ==
  ASSUME IInv, NEW d \in DevThreads, NEW label, NEW j \in JobRecord,
         Goto(d, label), job' = [job EXCEPT ![d] = j],
         UNCHANGED <<live, opened, fields, position, failed>>
  PROVE  /\ Handles' /\ Stored' /\ Loaded' /\ Inside'
         /\ job' \in [DevThreads -> JobRecord]
         /\ job'[d] = j /\ pc'[d] = label
         /\ \A e \in DevThreads \ {d} : job'[e] = job[e] /\ pc'[e] = pc[e]
         /\ \A s \in Streams : /\ pc'[io(s)] = pc[io(s)]
                              /\ pc'[ctl(s)] = pc[ctl(s)]
         /\ (/\ j.op = job[d].op \/ j.op = "none"
             /\ j.op \in {"open", "close"} =>
                  \A s \in Streams : j.at = s \/ s \in j.todo => Aims(d, s))
              => Doomed'
<1> USE ThreadsDiffer DEF IInv
<1>1. \A u \in Threads : pc'[u] = IF u = d THEN label ELSE pc[u]
  BY DEF TypeOK, Goto
<1>2. /\ job' \in [DevThreads -> JobRecord] /\ job'[d] = j
      /\ \A e \in DevThreads \ {d} : job'[e] = job[e]
  BY JobUpdate
<1>3. /\ Handles' /\ Stored' /\ Loaded'
      /\ \A s \in Streams : Idle(s)' <=> Idle(s)
  BY <1>1, DeviceFrame
<1>4. Inside'
  BY <1>3 DEF Inside
<1>5. ASSUME j.op = job[d].op \/ j.op = "none",
             j.op \in {"open", "close"} =>
               \A s \in Streams : j.at = s \/ s \in j.todo => Aims(d, s)
      PROVE  Doomed'
  <2>1. \A e \in DevThreads : job'[e].op = job[e].op \/ job'[e].op = "none"
    BY <1>2, <1>5
  <2>2. \A e \in DevThreads, s \in Streams :
          job'[e].op \in {"open", "close"} /\ Aims(e, s)' => Aims(e, s)
    BY <1>2, <1>5 DEF Aims
  <2> QED
    BY <2>1, <2>2 DEF Doomed, Pending
<1> QED
  BY <1>1, <1>2, <1>3, <1>4, <1>5

\* A device call that gets or gives back the lock, or waits for a stream.
LEMMA InvDeviceMoves ==
  ASSUME IInv, NEW d \in DevThreads,
         DeviceEnter(d) \/ MuteNext(d) \/ MuteLock(d) \/ MuteSet(d) \/ DeviceReturn(d)
  PROVE  IInv'
<1> USE ThreadsDiffer DEF IInv
<1>0. job[d] \in JobRecord
  BY DEF TypeOK, JobRecord
<1>1. CASE DeviceEnter(d)
  <2> DEFINE todo == Work(job[d].op, job[d].at)
             j == [job[d] EXCEPT !.todo = todo, !.at = NULL]
  <2>1. /\ pc[d] = "device" /\ dev_lock = NULL /\ dev_lock' = d
        /\ Goto(d, "run") /\ job' = [job EXCEPT ![d] = j]
        /\ UNCHANGED <<lock, table, live, opened, fields, position, failed>>
    BY <1>1 DEF DeviceEnter, DeviceLock, tables
  <2>2. /\ job[d].op \in Ops /\ job[d].at \in Streams
        /\ todo \subseteq Streams
        /\ job[d].op = "open" => todo = {job[d].at} \ live
        /\ job[d].op = "close" => todo \subseteq {job[d].at}
        /\ job[d].op # "open" => todo \subseteq table
    BY <2>1 DEF Tasks, Work, Ops, TypeOK
  <2> HIDE DEF todo
  <2>3. j \in JobRecord /\ j.op = job[d].op /\ j.todo = todo /\ j.at = NULL
    <3>1. todo \in SUBSET Streams /\ NULL \in Streams \cup {NULL}
      BY <2>2
    <3> QED
      BY <1>0, <3>1 DEF JobRecord
  <2> HIDE DEF j
  <2>4. /\ Handles' /\ Stored' /\ Loaded' /\ Inside' /\ Doomed'
        /\ job' \in [DevThreads -> JobRecord]
        /\ job'[d] = j /\ pc'[d] = "run"
        /\ \A e \in DevThreads \ {d} : job'[e] = job[e] /\ pc'[e] = pc[e]
        /\ \A s \in Streams : pc'[io(s)] = pc[io(s)] /\ pc'[ctl(s)] = pc[ctl(s)]
    <3>1. \A s \in Streams : s # NULL
      BY ThreadsAssumption
    <3>2. j.op \in {"open", "close"} =>
            \A s \in Streams : j.at = s \/ s \in j.todo => Aims(d, s)
      BY <2>2, <2>3, <3>1 DEF Aims
    <3> QED
      BY <2>1, <2>3, <3>2, DeviceMove
  <2>5. TypeOK'
    BY <2>1, <2>4 DEF TypeOK, JobRecord, Goto, fields, position
  <2>6. Places'
    BY <2>4 DEF Places, DevInside
  <2>7. Locks'
    BY <2>1, <2>3, <2>4 DEF Locks, DevInside
  <2>8. Tasks'
    BY <2>1, <2>2, <2>3, <2>4 DEF Tasks, Ops
  <2> QED
    BY <2>4, <2>5, <2>6, <2>7, <2>8
<1>2. CASE MuteNext(d)
  <2>1. PICK s \in job[d].todo : job' = [job EXCEPT ![d] = [job[d] EXCEPT !.at = s]]
    BY <1>2 DEF MuteNext
  <2> DEFINE j == [job[d] EXCEPT !.at = s]
  <2>2. /\ pc[d] = "run" /\ job[d].op \in {"master_mute", "mic_mute"}
        /\ Goto(d, "mute") /\ job' = [job EXCEPT ![d] = j]
        /\ UNCHANGED <<dev_lock, lock, table, live, opened, fields, position, failed>>
    BY <1>2, <2>1 DEF MuteNext, tables
  <2>3. s \in Streams /\ s \in table
    BY <2>2 DEF Tasks, TypeOK
  <2>4. j \in JobRecord /\ j.op = job[d].op /\ j.todo = job[d].todo /\ j.at = s
    BY <1>0, <2>3, JobFields DEF JobRecord
  <2> HIDE DEF j
  <2>5. /\ Handles' /\ Stored' /\ Loaded' /\ Inside' /\ Doomed'
        /\ job' \in [DevThreads -> JobRecord]
        /\ job'[d] = j /\ pc'[d] = "mute"
        /\ \A e \in DevThreads \ {d} : job'[e] = job[e] /\ pc'[e] = pc[e]
        /\ \A r \in Streams : pc'[io(r)] = pc[io(r)] /\ pc'[ctl(r)] = pc[ctl(r)]
    <3>1. j.op \notin {"open", "close"}
      BY <2>2, <2>4
    <3> QED
      BY <2>2, <2>4, <3>1, DeviceMove
  <2>6. TypeOK'
    BY <2>2, <2>5 DEF TypeOK, JobRecord, Goto, fields, position
  <2>7. Places'
    BY <2>5 DEF Places, DevInside
  <2>8. Locks'
    BY <2>2, <2>4, <2>5 DEF Locks, DevInside
  <2>9. Tasks'
    BY <2>2, <2>3, <2>4, <2>5 DEF Tasks, Ops
  <2> QED
    BY <2>5, <2>6, <2>7, <2>8, <2>9
<1>3. CASE MuteLock(d)
  <2> DEFINE s == job[d].at
  <2>1. /\ pc[d] = "mute" /\ lock[s] = NULL /\ lock' = [lock EXCEPT ![s] = d]
        /\ Goto(d, "set") /\ job' = [job EXCEPT ![d] = job[d]]
        /\ UNCHANGED <<dev_lock, table, live, opened, fields, position, failed, job>>
    BY <1>3 DEF MuteLock, Lock, tables, TypeOK
  <2>2. s \in Streams /\ s \in table
    BY <2>1 DEF Tasks, TypeOK
  <2>3. /\ Handles' /\ Stored' /\ Loaded' /\ Inside' /\ Doomed' /\ pc'[d] = "set"
        /\ \A e \in DevThreads \ {d} : pc'[e] = pc[e]
        /\ \A r \in Streams : pc'[io(r)] = pc[io(r)] /\ pc'[ctl(r)] = pc[ctl(r)]
    BY <1>0, <2>1, DeviceMove DEF Aims
  <2>4. TypeOK'
    BY <2>1, <2>2 DEF TypeOK, Goto, fields, position
  <2>5. Places'
    BY <2>3 DEF Places, DevInside
  <2>6. Locks'
    BY <2>1, <2>2, <2>3 DEF Locks, DevInside, TypeOK
  <2>7. Tasks'
    BY <2>1, <2>2, <2>3 DEF Tasks
  <2> QED
    BY <2>3, <2>4, <2>5, <2>6, <2>7
<1>4. CASE MuteSet(d)
  <2> DEFINE s == job[d].at
             todo == job[d].todo \ {s}
             j == [job[d] EXCEPT !.todo = todo, !.at = NULL]
  <2>1. /\ pc[d] = "set" /\ lock' = [lock EXCEPT ![s] = NULL]
        /\ table \ {s} \subseteq table' /\ table' \subseteq table
        /\ Goto(d, "run") /\ job' = [job EXCEPT ![d] = j]
        /\ UNCHANGED <<dev_lock, live, opened, fields, position, failed>>
    BY <1>4 DEF MuteSet, Left, Unlock
  <2>2. /\ s \in Streams /\ s \in table
        /\ job[d].op \in {"master_mute", "mic_mute"}
        /\ todo \subseteq table' /\ todo \subseteq Streams
        /\ \A e \in DevThreads \ {d} :
             pc[e] \in {"idle", "device"} /\ job[e].todo = {}
    BY <2>1, OthersWait DEF Tasks, TypeOK, DevInside
  <2> HIDE DEF todo
  <2>3. j \in JobRecord /\ j.op = job[d].op /\ j.todo = todo /\ j.at = NULL
    <3>1. todo \in SUBSET Streams /\ NULL \in Streams \cup {NULL}
      BY <2>2
    <3> QED
      BY <1>0, <3>1 DEF JobRecord
  <2> HIDE DEF j
  <2>4. /\ Handles' /\ Stored' /\ Loaded' /\ Inside' /\ Doomed'
        /\ job' \in [DevThreads -> JobRecord]
        /\ job'[d] = j /\ pc'[d] = "run"
        /\ \A e \in DevThreads \ {d} : job'[e] = job[e] /\ pc'[e] = pc[e]
        /\ \A r \in Streams : pc'[io(r)] = pc[io(r)] /\ pc'[ctl(r)] = pc[ctl(r)]
    <3>1. j.op \notin {"open", "close"}
      BY <2>2, <2>3
    <3> QED
      BY <2>1, <2>3, <3>1, DeviceMove
  <2>5. TypeOK'
    BY <2>1, <2>2, <2>4 DEF TypeOK, JobRecord, Goto, fields, position
  <2>6. Places'
    BY <2>4 DEF Places, DevInside
  <2>7. Locks'
    BY <2>1, <2>2, <2>3, <2>4 DEF Locks, DevInside, TypeOK
  <2>8. Tasks'
    BY <2>1, <2>2, <2>3, <2>4 DEF Tasks
  <2> QED
    BY <2>4, <2>5, <2>6, <2>7, <2>8
<1>5. CASE DeviceReturn(d)
  <2>1. /\ pc[d] = "run" /\ dev_lock' = NULL
        /\ Goto(d, "idle") /\ job' = [job EXCEPT ![d] = NoJob]
        /\ UNCHANGED <<lock, table, live, opened, fields, position, failed>>
    BY <1>5 DEF DeviceReturn, tables
  <2>2. NoJob \in JobRecord /\ NoJob.op = "none" /\ NoJob.todo = {}
    BY DEF NoJob, JobRecord
  <2>3. /\ Handles' /\ Stored' /\ Loaded' /\ Inside' /\ Doomed'
        /\ job' \in [DevThreads -> JobRecord]
        /\ job'[d] = NoJob /\ pc'[d] = "idle"
        /\ \A e \in DevThreads \ {d} : job'[e] = job[e] /\ pc'[e] = pc[e]
        /\ \A r \in Streams : pc'[io(r)] = pc[io(r)] /\ pc'[ctl(r)] = pc[ctl(r)]
    BY <2>1, <2>2, DeviceMove
  <2>4. TypeOK'
    BY <2>1, <2>3 DEF TypeOK, JobRecord, Goto, fields, position
  <2>5. Places'
    BY <2>3 DEF Places, DevInside
  <2>6. Locks'
    BY <2>1, <2>3 DEF Locks, DevInside
  <2>7. Tasks'
    BY <2>1, <2>2, <2>3 DEF Tasks
  <2> QED
    BY <2>3, <2>4, <2>5, <2>6, <2>7
<1> QED
  BY <1>1, <1>2, <1>3, <1>4, <1>5

\* A stream that no thread is inside of is set to its initial contents.
LEMMA FreshStream ==
  ASSUME IInv, NEW s \in Streams, Idle(s), UNCHANGED pc,
         NEW h \in {"null", "open"}, Fresh(s, h), s \in live' => h = "open",
         \A r \in Streams \ {s} : r \in live' <=> r \in live
  PROVE  /\ Handles' /\ Stored' /\ Loaded'
         /\ UNCHANGED <<stores, loads>>
         /\ standby' \in [Streams -> BOOLEAN]
         /\ p_handle' \in [Streams -> {"null", "open", "closed"}]
         /\ closer' \in [Streams -> Threads \cup {NULL}]
         /\ frames' \in [Streams -> 0 .. TransferBound]
         /\ time' \in [Streams -> 0 .. TransferBound]
<1> USE DEF IInv, TypeOK, Fresh
<1>1. /\ standby'[s] = FALSE /\ p_handle'[s] = h /\ frames'[s] = 0 /\ time'[s] = 0
      /\ \A r \in Streams \ {s} :
           /\ standby'[r] = standby[r] /\ p_handle'[r] = p_handle[r]
           /\ closer'[r] = closer[r] /\ frames'[r] = frames[r] /\ time'[r] = time[r]
  OBVIOUS
<1>2. 0 \in 0 .. TransferBound
  BY ThreadsAssumption
<1>3. /\ standby' \in [Streams -> BOOLEAN]
      /\ p_handle' \in [Streams -> {"null", "open", "closed"}]
      /\ closer' \in [Streams -> Threads \cup {NULL}]
      /\ frames' \in [Streams -> 0 .. TransferBound]
      /\ time' \in [Streams -> 0 .. TransferBound]
  BY <1>2
<1>4. Handles'
  BY <1>1 DEF Handles, Idle
<1>5. Stored'
  <2>1. StoredAt(s)'
    BY <1>1, FieldSets DEF Stored, StoredAt, Idle
  <2>2. ASSUME NEW r \in Streams \ {s} PROVE StoredAt(r)'
    BY <1>1 DEF Stored, StoredAt
  <2> QED
    BY <2>1, <2>2 DEF Stored
<1>6. Loaded'
  <2>1. LoadedAt(s)'
    BY DEF LoadedAt, Idle
  <2>2. ASSUME NEW r \in Streams \ {s} PROVE LoadedAt(r)'
    BY <1>1 DEF Loaded, LoadedAt
  <2> QED
    BY <2>1, <2>2 DEF Loaded
<1> QED
  BY <1>3, <1>4, <1>5, <1>6

\* adev_open_output_stream() and adev_open_input_stream().
LEMMA InvOpen ==
  ASSUME IInv, NEW d \in DevThreads, Open(d)
  PROVE  IInv'
<1> USE ThreadsDiffer DEF IInv
<1> DEFINE j == [job[d] EXCEPT !.todo = {}]
<1>1. /\ pc[d] = "run" /\ job[d].op = "open" /\ job' = [job EXCEPT ![d] = j]
      /\ UNCHANGED <<dev_lock, lock, failed, pc>>
  BY DEF Open
<1>2. job[d] \in JobRecord
  BY DEF TypeOK, JobRecord
<1>3. j \in JobRecord /\ j.op = "open" /\ j.todo = {} /\ j.at = job[d].at
  BY <1>1, <1>2 DEF JobRecord
<1> HIDE DEF j
<1>4. /\ job' \in [DevThreads -> JobRecord] /\ job'[d] = j
      /\ \A e \in DevThreads \ {d} : job'[e] = job[e]
  BY <1>1, <1>3, JobUpdate
<1>5. \A e \in DevThreads \ {d} : pc[e] \in {"idle", "device"} /\ job[e].todo = {}
  BY <1>1, OthersWait DEF DevInside
<1>6. Places'
  BY <1>1 DEF Places
<1>7. Locks'
  BY <1>1, <1>3, <1>4 DEF Locks
<1>8. /\ \A e \in DevThreads : job'[e].op = job[e].op
      /\ \A e \in DevThreads, r \in Streams : Aims(e, r)' => Aims(e, r)
  BY <1>1, <1>3, <1>4 DEF Aims
<1>9. Tasks'
  BY <1>1, <1>3, <1>4, <1>5 DEF Tasks
<1>10. CASE UNCHANGED <<tables, fields, position>>
  <2> USE <1>10 DEF tables, fields, position
  <2>1. TypeOK'
    BY <1>1, <1>4 DEF TypeOK, JobRecord
  <2>2. Doomed'
    BY <1>8 DEF Doomed, Pending
  <2>3. Inside' /\ Handles' /\ Stored' /\ Loaded'
    BY <1>1 DEF Inside, Idle, Handles, Stored, StoredAt, Loaded, LoadedAt
  <2> QED
    BY <1>6, <1>7, <1>9, <2>1, <2>2, <2>3
<1>11. CASE ~UNCHANGED <<tables, fields, position>>
  <2>1. PICK s \in job[d].todo :
          /\ live' = live \cup {s} /\ table' = table \cup {s}
          /\ opened' = opened \cup {s} /\ Fresh(s, "open")
    BY <1>11 DEF Open
  <2>2. s \in Streams /\ s \notin live /\ s \notin opened /\ Idle(s)
    BY <1>1 DEF Tasks, TypeOK, Inside
  <2>3. /\ Handles' /\ Stored' /\ Loaded' /\ UNCHANGED <<stores, loads>>
        /\ standby' \in [Streams -> BOOLEAN]
        /\ p_handle' \in [Streams -> {"null", "open", "closed"}]
        /\ closer' \in [Streams -> Threads \cup {NULL}]
        /\ frames' \in [Streams -> 0 .. TransferBound]
        /\ time' \in [Streams -> 0 .. TransferBound]
    BY <1>1, <2>1, <2>2, FreshStream
  <2>4. TypeOK'
    BY <1>1, <1>4, <2>1, <2>2, <2>3 DEF TypeOK, JobRecord
  <2>5. Inside'
    BY <1>1, <2>1 DEF Inside, Idle
  <2>6. Doomed'
    <3>1. \A e \in DevThreads : job[e].op = "close" => ~Aims(e, s)
      BY <1>1, <2>2 DEF Doomed, Aims
    <3>2. ~Pending("restart")
      BY <1>1 DEF Doomed, Pending
    <3> QED
      BY <1>8, <2>1, <3>1, <3>2 DEF Doomed, Pending
  <2> QED
    BY <1>6, <1>7, <1>9, <2>3, <2>4, <2>5, <2>6
<1> QED
  BY <1>10, <1>11

\* out_destroy() and in_destroy().
LEMMA InvDestroy ==
  ASSUME IInv, NEW d \in DevThreads, Destroy(d)
  PROVE  IInv'
<1> USE ThreadsDiffer DEF IInv
<1>1. PICK s \in job[d].todo :
        /\ live' = live \ {s} /\ table' = table \ {s} /\ Fresh(s, "null")
        /\ job' = [job EXCEPT ![d] = [job[d] EXCEPT !.todo = job[d].todo \ {s}]]
  BY DEF Destroy, TableWithout, Left, TypeOK
<1> DEFINE j == [job[d] EXCEPT !.todo = job[d].todo \ {s}]
<1>2. /\ pc[d] = "run" /\ job[d].op \in {"close", "restart"}
      /\ job' = [job EXCEPT ![d] = j]
      /\ UNCHANGED <<dev_lock, lock, opened, failed, pc>>
  BY <1>1 DEF Destroy
<1>3. job[d] \in JobRecord
  BY DEF TypeOK, JobRecord
<1>4. /\ j \in JobRecord /\ j.op = job[d].op /\ j.at = job[d].at
      /\ j.todo = job[d].todo \ {s}
  BY <1>3 DEF JobRecord
<1> HIDE DEF j
<1>5. /\ job' \in [DevThreads -> JobRecord] /\ job'[d] = j
      /\ \A e \in DevThreads \ {d} : job'[e] = job[e]
  BY <1>2, <1>4, JobUpdate
<1>6. \A e \in DevThreads \ {d} : pc[e] \in {"idle", "device"} /\ job[e].todo = {}
  BY <1>2, OthersWait DEF DevInside
<1>7. /\ s \in Streams /\ s \in table /\ job[d].todo \subseteq table
      /\ job[d].at = NULL /\ s # NULL
  <2>1. job[d].todo \subseteq table /\ job[d].at = NULL
    BY <1>2 DEF Tasks
  <2> QED
    BY <2>1, ThreadsAssumption DEF TypeOK
<1>8. s \notin opened /\ Idle(s)
  BY <1>2, <1>7 DEF Doomed, Aims, Pending, Inside
<1>9. /\ Handles' /\ Stored' /\ Loaded' /\ UNCHANGED <<stores, loads>>
      /\ standby' \in [Streams -> BOOLEAN]
      /\ p_handle' \in [Streams -> {"null", "open", "closed"}]
      /\ closer' \in [Streams -> Threads \cup {NULL}]
      /\ frames' \in [Streams -> 0 .. TransferBound]
      /\ time' \in [Streams -> 0 .. TransferBound]
  BY <1>1, <1>2, <1>7, <1>8, FreshStream
<1>10. TypeOK'
  BY <1>1, <1>2, <1>5, <1>8, <1>9 DEF TypeOK, JobRecord
<1>11. Places'
  BY <1>2 DEF Places
<1>12. Locks'
  BY <1>2, <1>4, <1>5 DEF Locks
<1>13. Tasks'
  BY <1>1, <1>2, <1>4, <1>5, <1>6, <1>7 DEF Tasks
<1>14. Inside'
  BY <1>2 DEF Inside, Idle
<1>15. Doomed'
  <2>1. /\ \A e \in DevThreads : job'[e].op = job[e].op
        /\ \A e \in DevThreads, r \in Streams : Aims(e, r)' => Aims(e, r)
        /\ ~Aims(d, s)'
    BY <1>1, <1>4, <1>5, <1>7 DEF Aims
  <2>2. \A e, f \in DevThreads :
          job[e].op = "close" /\ job[f].op = "open" /\ Aims(e, s)' => ~Aims(f, s)'
    <3> SUFFICES ASSUME NEW e \in DevThreads, NEW f \in DevThreads,
                        job[e].op = "close", job[f].op = "open",
                        Aims(e, s)', Aims(f, s)'
                 PROVE  FALSE
      OBVIOUS
    <3>1. e # d /\ Aims(e, s) /\ Aims(d, s)
      BY <2>1, <1>1 DEF Aims
    <3>2. CASE job[d].op = "close"
      BY <1>7, <3>1, <3>2 DEF Doomed
    <3>3. CASE job[d].op = "restart"
      BY <3>3 DEF Doomed, Pending
    <3> QED
      BY <1>2, <3>2, <3>3
  <2>3. \A e \in DevThreads, r \in Streams :
          job'[e].op = "close" /\ Aims(e, r)' => r \notin opened'
    BY <1>2, <2>1 DEF Doomed
  <2>4. \A e, f \in DevThreads, r \in Streams :
          job'[e].op = "close" /\ job'[f].op = "close" /\ Aims(e, r)' /\ Aims(f, r)'
            => e = f
    BY <2>1 DEF Doomed
  <2>5. \A e, f \in DevThreads, r \in Streams :
          job'[e].op = "close" /\ job'[f].op = "open" /\ Aims(e, r)' /\ Aims(f, r)'
            => r \in live'
    BY <1>1, <2>1, <2>2 DEF Doomed
  <2>6. Pending("restart")' => opened' = {} /\ ~Pending("open")'
    BY <1>2, <2>1 DEF Doomed, Pending
  <2> QED
    BY <2>3, <2>4, <2>5, <2>6 DEF Doomed
<1> QED
  BY <1>9, <1>10, <1>11, <1>12, <1>13, <1>14, <1>15

-----------------------------------------------------------------------------
(***************************************************************************)
(* The invariant holds.                                                    *)
(***************************************************************************)

\* Nothing is open, no thread is inside, and no lock is held.
LEMMA InvInit == Init => IInv
<1> SUFFICES ASSUME Init PROVE IInv
  OBVIOUS
<1> USE ThreadsDiffer DEF Init
<1>1. TypeOK
  <2>1. NoLoads \in LoadRecord /\ 0 \in 0 .. TransferBound
    BY ThreadsAssumption DEF NoLoads, LoadRecord
  <2>2. NoJob \in JobRecord
    BY DEF NoJob, JobRecord
  <2> QED
    BY <2>1, <2>2 DEF TypeOK, LoadRecord, JobRecord
<1>2. Places /\ Locks
  BY DEF Places, Locks, IoInside, CtlInside, DevInside, NoJob
<1>3. Tasks /\ Doomed /\ Inside
  BY DEF Tasks, Doomed, Inside, Idle, Pending, Aims, NoJob
<1>4. Handles
  BY DEF Handles
<1>5. Stored /\ Loaded
  BY FieldSets DEF Stored, StoredAt, Loaded, LoadedAt
<1> QED
  BY <1>1, <1>2, <1>3, <1>4, <1>5 DEF IInv

\* Every step preserves it, when a restart waits for the calls in progress.
LEMMA InvStep == ASSUME ~RestartInFlight PROVE IInv /\ [Next]_vars => IInv'
<1> SUFFICES ASSUME IInv, [Next]_vars PROVE IInv'
  OBVIOUS
<1>1. ASSUME NEW s \in Streams,
             TransferCall(s) \/ StandbyCall(s) \/ ParamsCall(s) \/ PositionCall(s)
      PROVE  IInv'
  BY <1>1, InvStreamCall
<1>2. ASSUME NEW d \in DevThreads, NEW op \in Ops, NEW s \in Streams,
             DeviceCall(d, op, s)
      PROVE  IInv'
  BY <1>2, InvDeviceCall
<1>3. ASSUME NEW s \in Streams, IoStep(s) PROVE IInv'
  BY <1>3, InvIoStep, InvStandbyStep
<1>4. ASSUME NEW s \in Streams, CtlStep(s) PROVE IInv'
  BY <1>4, InvCtlStep, InvStandbyStep
<1>5. ASSUME NEW d \in DevThreads, DeviceStep(d) PROVE IInv'
  BY <1>5, InvDeviceMoves, InvOpen, InvDestroy DEF DeviceStep
<1>6. CASE UNCHANGED vars
  <2> USE <1>6 DEF IInv, vars, tables, fields, position
  <2>1. TypeOK'
    BY DEF TypeOK
  <2>2. Places' /\ Locks'
    BY DEF Places, Locks
  <2>3. Tasks' /\ Doomed' /\ Inside'
    BY DEF Tasks, Doomed, Inside, Idle, Pending, Aims
  <2>4. Handles' /\ Stored' /\ Loaded'
    BY DEF Handles, Stored, StoredAt, Loaded, LoadedAt
  <2> QED
    BY <2>1, <2>2, <2>3, <2>4
<1> QED
  BY <1>1, <1>2, <1>3, <1>4, <1>5, <1>6 DEF Next, Call

\* The inductive invariant is an invariant.
LEMMA Invariance == ASSUME ~RestartInFlight PROVE Spec => []IInv
<1> QED
  BY InvInit, InvStep, PTL DEF Spec

-----------------------------------------------------------------------------
\* The variables have their types.
THEOREM TypeCorrect == ASSUME ~RestartInFlight PROVE Spec => []TypeOK
<1>1. IInv => TypeOK
  BY DEF IInv
<1> QED
  BY <1>1, Invariance, PTL

\* A thread never waits for the device lock with a stream's lock in its hands:
\* adev_set_master_mute() takes them in the other order.
LockOrder ==
  \A t \in Threads : pc[t] = "device" => \A s \in Streams : lock[s] # t

\* Nobody waits for the device lock with a stream's lock held, so the two kinds
\* of lock never close a circle.
THEOREM LocksOrdered == ASSUME ~RestartInFlight PROVE Spec => []LockOrder
<1>1. IInv => LockOrder
  BY ThreadsDiffer DEF IInv, Places, Locks, LockOrder, IoInside, CtlInside
<1> QED
  BY <1>1, Invariance, PTL

\* Whoever holds the lock of a stream waits for nothing.
LEMMA HolderRuns ==
  ASSUME IInv, NEW s \in Streams, lock[s] # NULL
  PROVE  lock[s] \in Threads /\ pc[lock[s]] # "idle" /\ ~Waits(lock[s])
<1> USE ThreadsDiffer DEF IInv, Waits
<1>1. lock[s] \in Threads
  BY DEF TypeOK
<1>2. CASE lock[s] \in DevThreads
  BY <1>2 DEF Locks
<1>3. CASE lock[s] = io(s)
  BY <1>3 DEF Locks, IoInside
<1>4. CASE lock[s] = ctl(s)
  BY <1>4 DEF Locks, CtlInside
<1> QED
  BY <1>1, <1>2, <1>3, <1>4 DEF Locks

\* Calls of any number of streams and device threads never wait for each other
\* in a circle.
THEOREM DeadlockFree == ASSUME ~RestartInFlight PROVE Spec => []NoDeadlock
<1>1. IInv => NoDeadlock
  <2> SUFFICES ASSUME IInv, NEW t \in Threads, pc[t] # "idle"
               PROVE  \E u \in Threads : pc[u] # "idle" /\ ~Waits(u)
    BY DEF NoDeadlock
  <2>1. CASE \E s \in Streams : lock[s] # NULL
    BY <2>1, HolderRuns
  <2>2. CASE (\A s \in Streams : lock[s] = NULL) /\ dev_lock = NULL
    BY <2>2 DEF Waits
  <2>3. CASE (\A s \in Streams : lock[s] = NULL) /\ dev_lock # NULL
    <3>1. dev_lock \in DevThreads /\ pc[dev_lock] \in DevInside
      BY <2>3 DEF IInv, TypeOK, Locks
    <3> QED
      BY <2>3, <3>1, ThreadsDiffer DEF Waits, DevInside
  <2> QED
    BY <2>1, <2>2, <2>3
<1> QED
  BY <1>1, Invariance, PTL

\* out_destroy() and in_destroy() free no stream that a thread is inside of,
\* with or without the stream's lock, although they do not take that lock.
THEOREM NoneFreedInside == ASSUME ~RestartInFlight PROVE Spec => []InsideIsAllocated
<1>1. IInv => InsideIsAllocated
  BY DEF IInv, TypeOK, Inside, Tasks, InsideIsAllocated
<1> QED
  BY <1>1, Invariance, PTL

\* Nobody closes the PCM that out_write() or in_read() is transferring on.
THEOREM TransfersSafe == ASSUME ~RestartInFlight PROVE Spec => []TransferKeepsHandle
<1>1. IInv => TransferKeepsHandle
  <2> SUFFICES ASSUME IInv, NEW s \in Streams, pc[io(s)] = "pcm"
               PROVE  p_handle[s] = "open" /\ ~standby[s]
    BY DEF TransferKeepsHandle
  <2>1. s \in live
    BY DEF IInv, TypeOK, Inside, Idle
  <2> QED
    BY <2>1 DEF IInv, Handles
<1> QED
  BY <1>1, Invariance, PTL

\* After it gave back the lock, out_write() still finds the handle open, or the
\* standby of the stream's other thread closed it.
THEOREM ReportsSafe == ASSUME ~RestartInFlight PROVE Spec => []ReportHasHandle
<1>1. IInv => ReportHasHandle
  <2> SUFFICES ASSUME IInv, NEW s \in Streams, pc[io(s)] = "report"
               PROVE  p_handle[s] = "open" \/ closer[s] = ctl(s)
    BY DEF ReportHasHandle
  <2>1. s \in live
    BY DEF IInv, TypeOK, Inside, Idle
  <2> QED
    BY <2>1 DEF IInv, Handles
<1> QED
  BY <1>1, Invariance, PTL

\* out_get_presentation_position() pairs the frames and the time of one
\* transfer, because of the lock; in_get_capture_position(), which takes none,
\* does when in_read() stores nothing during the call.
THEOREM PositionsPaired == ASSUME ~RestartInFlight PROVE Spec => []PositionPaired
<1>1. IInv => PositionPaired
  <2> SUFFICES ASSUME IInv, NEW s \in Streams, PositionLoaded(s),
                      s \in Outputs \/ loads[s].quiet
               PROVE  loads[s].frames = loads[s].time
    BY DEF PositionPaired
  <2>1. StoredAt(s) /\ LoadedAt(s)
    BY DEF IInv, Stored, Loaded
  <2>2. loads[s].frames = frames[s] /\ loads[s].time = time[s]
    BY <2>1 DEF PositionLoaded, LoadedAt
  <2>3. stores[s] \in {{}, Fields}
    <3>1. CASE s \in Outputs
      <4>1. lock[s] = ctl(s) /\ pc[io(s)] # "store"
        BY <3>1, ThreadsDiffer DEF IInv, Locks, PositionLoaded, IoInside
      <4> QED
        BY <4>1, <2>1 DEF StoredAt
    <3>2. CASE s \notin Outputs
      BY <3>2, <2>1 DEF PositionLoaded, LoadedAt, Streams
    <3> QED
      BY <3>1, <3>2
  <2> QED
    BY <2>1, <2>2, <2>3 DEF StoredAt
<1> QED
  BY <1>1, Invariance, PTL
-----------------------------------------------------------------------------
(***************************************************************************)
(* Every call is finite.  This is the part of CallsReturn that needs no    *)
(* fairness: what is left of the calls shrinks with every step but a new   *)
(* call, and it is gone only when they have all returned.                  *)
(***************************************************************************)

\* How many steps a thread has before it at most, where n fields or streams are
\* left to do in its loop.
RemainingAt(label, n) ==
  CASE label = "idle" -> 0
    [] label \in {"clear", "look"} -> 1
    [] label \in {"check", "params"} -> 2
    [] label = "standby" -> 3
    [] label \in {"report", "position"} -> 4
    [] label = "load" -> 1 + n
    [] label = "store" -> 5 + n
    [] label = "pcm" -> 8
    [] label = "reopen" -> 9
    [] label = "transfer" -> 10
    [] label = "set" -> 3 * n - 1
    [] label = "mute" -> 3 * n
    [] label = "run" -> 3 * n + 1
    [] label = "device" -> 3 * Cardinality(Streams) + 2

\* What thread t has still to do in its loop.
ToDo(t) ==
  IF t \in DevThreads THEN job[t].todo
  ELSE IF t[2] = "io" THEN stores[t[1]] ELSE loads[t[1]].todo

Remaining(t) == RemainingAt(pc[t], Cardinality(ToDo(t)))

\* Nothing is left of the call of a thread only when it has returned.
RemainingIsLeft ==
  \A t \in Threads :
    Remaining(t) \in Nat /\ (Remaining(t) = 0 <=> pc[t] = "idle")

\* Thread t comes nearer to its return, and no other thread is set back.
Nearer(t) ==
  /\ Remaining(t)' < Remaining(t)
  /\ \A u \in Threads \ {t} : Remaining(u)' = Remaining(u)

\* A step that is not a new call brings one call nearer to its return, whatever
\* the locks and the other calls do, and sets none back.
CallsAdvance == [][~Call => \E t \in Threads : Nearer(t)]_vars

\* What the threads have to do, by kind of thread.
LEMMA ToDoOf ==
  /\ \A s \in Streams : ToDo(io(s)) = stores[s]
  /\ \A s \in Streams : ToDo(ctl(s)) = loads[s].todo
  /\ \A d \in DevThreads : ToDo(d) = job[d].todo
<1>1. ASSUME NEW s \in Streams
      PROVE  ToDo(io(s)) = stores[s] /\ ToDo(ctl(s)) = loads[s].todo
  <2>1. /\ io(s)[1] = s /\ io(s)[2] = "io" /\ ctl(s)[1] = s /\ ctl(s)[2] = "ctl"
    BY DEF io, ctl
  <2>2. io(s) \notin DevThreads /\ ctl(s) \notin DevThreads
    BY ThreadsDiffer
  <2> QED
    BY <2>1, <2>2 DEF ToDo
<1>2. ASSUME NEW d \in DevThreads PROVE ToDo(d) = job[d].todo
  BY DEF ToDo
<1> QED
  BY <1>1, <1>2

\* The same of the next state.
LEMMA ToDoNext ==
  /\ \A s \in Streams : ToDo(io(s))' = stores'[s]
  /\ \A s \in Streams : ToDo(ctl(s))' = loads'[s].todo
  /\ \A d \in DevThreads : ToDo(d)' = job'[d].todo
<1>1. ASSUME NEW s \in Streams
      PROVE  ToDo(io(s))' = stores'[s] /\ ToDo(ctl(s))' = loads'[s].todo
  <2>1. /\ io(s)[1] = s /\ io(s)[2] = "io" /\ ctl(s)[1] = s /\ ctl(s)[2] = "ctl"
    BY DEF io, ctl
  <2>2. io(s) \notin DevThreads /\ ctl(s) \notin DevThreads
    BY ThreadsDiffer
  <2> QED
    BY <2>1, <2>2 DEF ToDo
<1>2. ASSUME NEW d \in DevThreads PROVE ToDo(d)' = job'[d].todo
  BY DEF ToDo
<1> QED
  BY <1>1, <1>2

\* A set of fields or of streams has a size, which is 0 only of the empty set,
\* shrinks with each element taken out, and is not above that of its universe.
LEMMA Sizes ==
  ASSUME NEW U, U \in {Fields, Streams}, NEW T \in SUBSET U
  PROVE  /\ Cardinality(T) \in Nat
         /\ Cardinality(T) = 0 <=> T = {}
         /\ \A x \in T : /\ Cardinality(T \ {x}) = Cardinality(T) - 1
                         /\ Cardinality(T) >= 1
         /\ Cardinality(U) \in Nat /\ Cardinality(T) <= Cardinality(U)
<1>1. IsFiniteSet(U)
  <2>1. IsFiniteSet(Fields)
    <3>1. Fields = ({} \cup {"frames"}) \cup {"time"}
      BY DEF Fields
    <3> QED
      BY <3>1, FS_EmptySet, FS_AddElement
  <2> QED
    BY <2>1, ThreadsAssumption
<1>2. IsFiniteSet(T) /\ Cardinality(T) <= Cardinality(U)
  BY <1>1, FS_Subset
<1>3. Cardinality(T) \in Nat /\ Cardinality(U) \in Nat
  BY <1>1, <1>2, FS_CardinalityType
<1>4. Cardinality(T) = 0 <=> T = {}
  BY <1>2, FS_EmptySet
<1>5. ASSUME NEW x \in T
      PROVE  Cardinality(T \ {x}) = Cardinality(T) - 1 /\ Cardinality(T) >= 1
  <2>1. Cardinality(T \ {x}) = Cardinality(T) - 1
    BY <1>2, FS_RemoveElement
  <2>2. Cardinality(T) # 0
    BY <1>4
  <2> QED
    BY <1>3, <2>1, <2>2
<1> QED
  BY <1>2, <1>3, <1>4, <1>5

LEMMA TwoFields == Cardinality(Fields) = 2
<1>1. Fields = ({} \cup {"frames"}) \cup {"time"} /\ "frames" # "time"
  BY DEF Fields
<1>2. IsFiniteSet({"frames"}) /\ Cardinality({"frames"}) = 1
  BY FS_Singleton
<1>3. Cardinality({"frames"} \cup {"time"}) = 1 + 1
  BY <1>2, FS_AddElement
<1> QED
  BY <1>1, <1>3

\* The loops are over fields and over streams, and a device thread that is at a
\* stream has it still to do.
LEMMA Loops ==
  ASSUME IInv
  PROVE  /\ \A s \in Streams : stores[s] \in SUBSET Fields
         /\ \A s \in Streams : loads[s].todo \in SUBSET Fields
         /\ \A d \in DevThreads : job[d].todo \in SUBSET Streams
         /\ \A d \in DevThreads :
              pc[d] \in {"mute", "set"} => job[d].at \in job[d].todo
<1> QED
  BY DEF IInv, TypeOK, Tasks

\* Remaining counts.
LEMMA RemainingLeft == IInv => RemainingIsLeft
<1> SUFFICES ASSUME IInv, NEW t \in Threads
             PROVE  Remaining(t) \in Nat /\ (Remaining(t) = 0 <=> pc[t] = "idle")
  BY DEF RemainingIsLeft
<1> DEFINE n == Cardinality(ToDo(t))
<1>1. n \in Nat /\ (pc[t] \in {"mute", "set"} => n >= 1)
  <2>1. CASE t \in DevThreads
    BY <2>1, Loops, Sizes, ToDoOf
  <2>2. ASSUME NEW s \in Streams, t = io(s) \/ t = ctl(s)
        PROVE  n \in Nat /\ pc[t] \notin {"mute", "set"}
    <3>1. pc[t] \notin {"mute", "set"}
      BY <2>2 DEF IInv, Places, IoInside, CtlInside
    <3> QED
      BY <2>2, <3>1, Loops, Sizes, ToDoOf
  <2> QED
    BY <2>1, <2>2, ThreadsDiffer
<1>2. Cardinality(Streams) \in Nat
  BY ThreadsAssumption, FS_CardinalityType
<1>3. pc[t] \in {"idle", "transfer", "reopen", "pcm", "store", "report",
                 "standby", "check", "clear", "params", "look",
                 "position", "load", "device", "run", "mute", "set"}
  BY DEF IInv, TypeOK
<1>4. Remaining(t) = RemainingAt(pc[t], n)
  BY DEF Remaining
<1> HIDE DEF n
<1> QED
  BY <1>1, <1>2, <1>3, <1>4 DEF RemainingAt

\* A thread whose step leaves the place and the loop of the other threads alone
\* sets none of them back.
LEMMA OthersStay ==
  ASSUME NEW t \in Threads,
         \A u \in Threads \ {t} : pc'[u] = pc[u] /\ ToDo(u)' = ToDo(u)
  PROVE  \A u \in Threads \ {t} : Remaining(u)' = Remaining(u)
BY DEF Remaining
\* A standby of either thread of a stream is three steps long.
LEMMA StandbyAdvances ==
  ASSUME IInv, NEW s \in Streams, NEW t \in {io(s), ctl(s)}, StandbyStep(t, s)
  PROVE  Nearer(t)
<1> USE DEF StandbyStep, StandbyLock, EnterStandby, StandbyAlready, StandbyClose,
           StandbyClear, Lock, Goto, fields, position
<1>1. t \in Threads /\ pc \in [Threads -> {"idle", "transfer", "reopen", "pcm",
                          "store", "report", "standby", "check", "clear", "params",
                          "look", "position", "load", "device", "run", "mute", "set"}]
  BY ThreadsDiffer DEF IInv, TypeOK
<1>2. \A u \in Threads \ {t} : Remaining(u)' = Remaining(u)
  <2>1. /\ \A u \in Threads \ {t} : pc'[u] = pc[u]
        /\ UNCHANGED <<stores, loads, job>>
    BY <1>1
  <2>2. \A u \in Threads \ {t} : ToDo(u)' = ToDo(u)
    BY <2>1 DEF ToDo
  <2> QED
    BY <1>1, <2>1, <2>2, OthersStay
<1>3. \/ pc[t] = "standby" /\ pc'[t] = "check"
      \/ pc[t] = "check" /\ pc'[t] \in {"idle", "clear"}
      \/ pc[t] = "clear" /\ pc'[t] = "idle"
  BY <1>1
<1>4. /\ Remaining(t) = RemainingAt(pc[t], Cardinality(ToDo(t)))
      /\ Remaining(t)' = RemainingAt(pc'[t], Cardinality(ToDo(t)'))
  BY DEF Remaining
<1>5. Remaining(t)' < Remaining(t)
  BY <1>3, <1>4 DEF RemainingAt
<1> QED
  BY <1>2, <1>5 DEF Nearer

\* The steps of out_write() and in_read().
LEMMA TransferAdvances ==
  ASSUME IInv, NEW s \in Streams, IoStep(s), ~StandbyStep(io(s), s)
  PROVE  Nearer(io(s))
<1> DEFINE t == io(s)
<1>1. t \in Threads /\ pc \in [Threads -> {"idle", "transfer", "reopen", "pcm",
                          "store", "report", "standby", "check", "clear", "params",
                          "look", "position", "load", "device", "run", "mute", "set"}]
  BY ThreadsDiffer DEF IInv, TypeOK
<1>2. /\ stores \in [Streams -> SUBSET Fields]
      /\ pc[t] # "store" => stores[s] = {}
  BY DEF IInv, TypeOK, Stored, StoredAt
<1>3. \A u \in Threads \ {t} : Remaining(u)' = Remaining(u)
  <2> USE DEF IoStep, TransferLock, IsOn, Reopen, ReopenFails, Transferred,
              SleptMuted, StoreFrames, StoreTime, TransferUnlock, Report,
              Lock, Goto, fields, position
  <2>1. \A u \in Threads \ {t} : pc'[u] = pc[u]
    BY <1>1
  <2>2. /\ \A r \in Streams \ {s} : stores'[r] = stores[r]
        /\ UNCHANGED job
    BY <1>2
  <2>3. loads' = loads \/ loads' = Noticed(s)
    OBVIOUS
  <2>4. \A r \in Streams : loads'[r].todo = loads[r].todo
    BY <2>3, NoticedLoads DEF IInv
  <2>5. ASSUME NEW u \in Threads \ {t} PROVE ToDo(u)' = ToDo(u)
    <3>1. CASE u \in DevThreads
      BY <3>1, <2>2, ToDoOf, ToDoNext
    <3>2. ASSUME NEW r \in Streams, u = io(r) PROVE ToDo(u)' = ToDo(u)
      BY <3>2, <2>2, ToDoOf, ToDoNext
    <3>3. ASSUME NEW r \in Streams, u = ctl(r) PROVE ToDo(u)' = ToDo(u)
      BY <3>3, <2>4, ToDoOf, ToDoNext
    <3> QED
      BY <3>1, <3>2, <3>3, ThreadsDiffer
  <2> QED
    BY <1>1, <2>1, <2>5, OthersStay
<1>4. /\ Remaining(t) = RemainingAt(pc[t], Cardinality(stores[s]))
      /\ Remaining(t)' = RemainingAt(pc'[t], Cardinality(stores'[s]))
  BY ToDoOf, ToDoNext DEF Remaining
<1>5. Cardinality({}) = 0
  BY FS_EmptySet
<1>6. \/ pc[t] = "transfer" /\ pc'[t] = "reopen"
      \/ pc[t] = "reopen" /\ pc'[t] \in {"pcm", "idle"}
      \/ pc[t] = "pcm" /\ pc'[t] = "store" /\ stores'[s] = Fields
      \/ pc[t] = "pcm" /\ pc'[t] = "store" /\ stores'[s] = stores[s]
      \/ /\ pc[t] = "store" /\ pc'[t] = "store"
         /\ \E x \in stores[s] : stores'[s] = stores[s] \ {x}
      \/ pc[t] = "store" /\ stores[s] = {} /\ pc'[t] \in {"idle", "report"}
      \/ pc[t] = "report" /\ pc'[t] \in {"idle", "standby"}
  <2> USE <1>1, <1>2 DEF Lock, Goto
  <2>1. CASE TransferLock(s)
    BY <2>1 DEF TransferLock
  <2>2. CASE IsOn(s) \/ Reopen(s) \/ ReopenFails(s)
    BY <2>2 DEF IsOn, Reopen, ReopenFails, Returns
  <2>3. CASE \E fail \in BOOLEAN : Transferred(s, fail)
    BY <2>3 DEF Transferred, StoresAfter
  <2>4. CASE SleptMuted(s)
    BY <2>4 DEF SleptMuted, position
  <2>5. CASE StoreFrames(s) \/ StoreTime(s)
    BY <2>5 DEF StoreFrames, StoreTime
  <2>6. CASE TransferUnlock(s)
    BY <2>6 DEF TransferUnlock, AfterTransfer
  <2>7. CASE Report(s)
    BY <2>7 DEF Report
  <2> QED
    BY <2>1, <2>2, <2>3, <2>4, <2>5, <2>6, <2>7 DEF IoStep
<1>7. Remaining(t)' < Remaining(t)
  <2>1. ASSUME NEW x \in stores[s]
        PROVE  /\ Cardinality(stores[s]) \in Nat
               /\ Cardinality(stores[s] \ {x}) = Cardinality(stores[s]) - 1
    BY <1>2, Sizes
  <2>2. CASE pc[t] = "store" /\ pc'[t] = "store"
    <3>1. PICK x \in stores[s] : stores'[s] = stores[s] \ {x}
      BY <2>2, <1>6
    <3> QED
      BY <2>1, <2>2, <3>1, <1>4 DEF RemainingAt
  <2>3. CASE pc[t] = "pcm"
    <3>1. Cardinality(stores'[s]) \in {0, 2} /\ pc'[t] = "store"
      BY <2>3, <1>2, <1>5, <1>6, TwoFields
    <3> QED
      BY <2>3, <3>1, <1>4 DEF RemainingAt
  <2>4. CASE pc[t] = "store" /\ pc'[t] # "store"
    <3>1. Cardinality(stores[s]) = 0 /\ pc'[t] \in {"idle", "report"}
      BY <2>4, <1>5, <1>6
    <3> QED
      BY <2>4, <3>1, <1>4 DEF RemainingAt
  <2>5. CASE pc[t] \notin {"pcm", "store"}
    BY <2>5, <1>4, <1>6 DEF RemainingAt
  <2> QED
    BY <2>2, <2>3, <2>4, <2>5
<1> QED
  BY <1>3, <1>7 DEF Nearer

\* The steps of the parameter and position calls.
LEMMA CtlAdvances ==
  ASSUME IInv, NEW s \in Streams, CtlStep(s), ~StandbyStep(ctl(s), s)
  PROVE  Nearer(ctl(s))
<1> DEFINE t == ctl(s)
<1>1. t \in Threads /\ pc \in [Threads -> {"idle", "transfer", "reopen", "pcm",
                          "store", "report", "standby", "check", "clear", "params",
                          "look", "position", "load", "device", "run", "mute", "set"}]
  BY ThreadsDiffer DEF IInv, TypeOK
<1>2. /\ loads \in [Streams -> LoadRecord]
      /\ pc[t] = "position" => loads[s].todo = Fields
  BY DEF IInv, TypeOK, LoadRecord, Loaded, LoadedAt
<1>3. \/ pc[t] = "params" /\ pc'[t] = "look"
      \/ pc[t] = "look" /\ pc'[t] = "idle"
      \/ pc[t] = "position" /\ pc'[t] = "load" /\ UNCHANGED loads
      \/ /\ pc[t] = "load" /\ pc'[t] = "load"
         /\ \E x \in loads[s].todo : loads'[s].todo = loads[s].todo \ {x}
      \/ pc[t] = "load" /\ pc'[t] = "idle"
  <2> USE <1>1, <1>2 DEF Lock, Goto
  <2>1. CASE ParamsLock(s)
    BY <2>1 DEF ParamsLock, LooksUnlocked
  <2>2. CASE ParamsDone(s)
    BY <2>2 DEF ParamsDone
  <2>3. CASE PositionLock(s)
    BY <2>3 DEF PositionLock, position
  <2>4. CASE LoadFrames(s)
    BY <2>4 DEF LoadFrames, LoadRecord
  <2>5. CASE LoadTime(s)
    BY <2>5 DEF LoadTime, LoadRecord
  <2>6. CASE PositionReturn(s)
    BY <2>6 DEF PositionReturn, PositionLoaded
  <2> QED
    BY <2>1, <2>2, <2>3, <2>4, <2>5, <2>6 DEF CtlStep
<1>4. \A u \in Threads \ {t} : Remaining(u)' = Remaining(u)
  <2> USE <1>1, <1>2
      DEF CtlStep, ParamsLock, ParamsDone, PositionLock, LoadFrames, LoadTime,
          PositionReturn, Lock, Goto, fields, position
  <2>1. \A u \in Threads \ {t} : pc'[u] = pc[u]
    OBVIOUS
  <2>2. /\ \A r \in Streams \ {s} : loads'[r] = loads[r]
        /\ UNCHANGED <<stores, job>>
    OBVIOUS
  <2>3. ASSUME NEW u \in Threads \ {t} PROVE ToDo(u)' = ToDo(u)
    <3>1. CASE u \in DevThreads
      BY <3>1, <2>2, ToDoOf, ToDoNext
    <3>2. ASSUME NEW r \in Streams, u = io(r) PROVE ToDo(u)' = ToDo(u)
      BY <3>2, <2>2, ToDoOf, ToDoNext
    <3>3. ASSUME NEW r \in Streams, u = ctl(r) PROVE ToDo(u)' = ToDo(u)
      BY <3>3, <2>2, ToDoOf, ToDoNext
    <3> QED
      BY <3>1, <3>2, <3>3, ThreadsDiffer
  <2> QED
    BY <2>1, <2>3, OthersStay
<1>5. /\ Remaining(t) = RemainingAt(pc[t], Cardinality(loads[s].todo))
      /\ Remaining(t)' = RemainingAt(pc'[t], Cardinality(loads'[s].todo))
  BY ToDoOf, ToDoNext DEF Remaining
<1>6. Remaining(t)' < Remaining(t)
  <2>1. loads[s].todo \in SUBSET Fields
    BY Loops
  <2>2. CASE pc[t] = "load" /\ pc'[t] = "load"
    <3>1. PICK x \in loads[s].todo : loads'[s].todo = loads[s].todo \ {x}
      BY <2>2, <1>3
    <3>2. /\ Cardinality(loads[s].todo) \in Nat
          /\ Cardinality(loads'[s].todo) = Cardinality(loads[s].todo) - 1
      BY <2>1, <3>1, Sizes
    <3> QED
      BY <2>2, <3>2, <1>5 DEF RemainingAt
  <2>3. CASE pc[t] = "load" /\ pc'[t] # "load"
    <3>1. Cardinality(loads[s].todo) \in Nat
      BY <2>1, Sizes
    <3> QED
      BY <2>3, <3>1, <1>3, <1>5 DEF RemainingAt
  <2>4. CASE pc[t] = "position"
    <3>1. Cardinality(loads'[s].todo) = 2 /\ pc'[t] = "load"
      BY <2>4, <1>2, <1>3, TwoFields
    <3> QED
      BY <2>4, <3>1, <1>5 DEF RemainingAt
  <2>5. CASE pc[t] \in {"params", "look"}
    BY <2>5, <1>3, <1>5 DEF RemainingAt
  <2> QED
    BY <2>2, <2>3, <2>4, <2>5, <1>3
<1> QED
  BY <1>4, <1>6 DEF Nearer
\* The steps of the device calls.
LEMMA DeviceAdvances ==
  ASSUME IInv, NEW d \in DevThreads, DeviceStep(d)
  PROVE  Nearer(d)
<1>1. d \in Threads /\ pc \in [Threads -> {"idle", "transfer", "reopen", "pcm",
                          "store", "report", "standby", "check", "clear", "params",
                          "look", "position", "load", "device", "run", "mute", "set"}]
  BY ThreadsDiffer DEF IInv, TypeOK
<1>2. job \in [DevThreads -> JobRecord]
  BY DEF IInv, TypeOK, JobRecord
<1>3. \A u \in Threads \ {d} : Remaining(u)' = Remaining(u)
  <2> USE <1>1, <1>2
  <2>1. /\ \A u \in Threads \ {d} : pc'[u] = pc[u]
        /\ \A e \in DevThreads \ {d} : job'[e] = job[e]
        /\ UNCHANGED <<stores, loads>>
    BY DEF DeviceStep, DeviceEnter, MuteNext, MuteLock, MuteSet, Open, Destroy,
           DeviceReturn, Lock, Goto, Fresh, fields, position
  <2>2. ASSUME NEW u \in Threads \ {d} PROVE ToDo(u)' = ToDo(u)
    <3>1. CASE u \in DevThreads
      BY <3>1, <2>1, ToDoOf, ToDoNext
    <3>2. ASSUME NEW r \in Streams, u = io(r) PROVE ToDo(u)' = ToDo(u)
      BY <3>2, <2>1, ToDoOf, ToDoNext
    <3>3. ASSUME NEW r \in Streams, u = ctl(r) PROVE ToDo(u)' = ToDo(u)
      BY <3>3, <2>1, ToDoOf, ToDoNext
    <3> QED
      BY <3>1, <3>2, <3>3, ThreadsDiffer
  <2> QED
    BY <2>1, <2>2, OthersStay
<1>4. /\ Remaining(d) = RemainingAt(pc[d], Cardinality(job[d].todo))
      /\ Remaining(d)' = RemainingAt(pc'[d], Cardinality(job'[d].todo))
  BY ToDoOf, ToDoNext DEF Remaining
<1>5. job[d].todo \in SUBSET Streams /\ job'[d].todo \in SUBSET Streams
  <2>1. job[d].op \in Ops \cup {"none"} /\ table \subseteq Streams
    BY <1>2 DEF JobRecord, IInv, TypeOK
  <2>2. CASE DeviceEnter(d)
    <3>1. job'[d].todo = Work(job[d].op, job[d].at) /\ job[d].op \in Ops
      BY <1>2, <2>2 DEF DeviceEnter, JobRecord, IInv, Tasks
    <3>2. job[d].op = "open" => Work(job[d].op, job[d].at) \subseteq Streams
      BY <2>2 DEF DeviceEnter, Work, IInv, Tasks
    <3> QED
      BY <2>1, <3>1, <3>2, Loops DEF Work, Ops
  <2>3. CASE MuteNext(d) \/ MuteLock(d) \/ MuteSet(d)
    BY <1>2, <2>3, Loops DEF MuteNext, MuteLock, MuteSet, Left, JobRecord
  <2>4. CASE Open(d) \/ Destroy(d)
    BY <1>2, <2>4, Loops DEF Open, Destroy, Left, JobRecord
  <2>5. CASE DeviceReturn(d)
    BY <1>2, <2>5, Loops DEF DeviceReturn, NoJob
  <2> QED
    BY <2>2, <2>3, <2>4, <2>5, Loops DEF DeviceStep
<1>6. /\ Cardinality(job[d].todo) \in Nat /\ Cardinality(job'[d].todo) \in Nat
      /\ Cardinality(Streams) \in Nat
      /\ Cardinality(job'[d].todo) <= Cardinality(Streams)
      /\ \A x \in job[d].todo :
           /\ Cardinality(job[d].todo \ {x}) = Cardinality(job[d].todo) - 1
           /\ Cardinality(job[d].todo) >= 1
  BY <1>5, Sizes
<1>7. Cardinality({}) = 0
  BY FS_EmptySet
<1>8. \/ pc[d] = "device" /\ pc'[d] = "run"
      \/ pc[d] = "run" /\ pc'[d] = "mute" /\ job'[d].todo = job[d].todo
      \/ pc[d] = "mute" /\ pc'[d] = "set" /\ job'[d].todo = job[d].todo
      \/ /\ pc[d] = "set" /\ pc'[d] = "run"
         /\ \E x \in job[d].todo : job'[d].todo = job[d].todo \ {x}
      \/ /\ pc[d] = "run" /\ pc'[d] = "run"
         /\ job[d].todo # {} /\ job'[d].todo = {}
      \/ /\ pc[d] = "run" /\ pc'[d] = "run"
         /\ \E x \in job[d].todo : job'[d].todo = job[d].todo \ {x}
      \/ pc[d] = "run" /\ pc'[d] = "idle"
  <2> USE <1>1, <1>2 DEF Lock, Goto
  <2>1. CASE DeviceEnter(d)
    BY <2>1 DEF DeviceEnter
  <2>2. CASE MuteNext(d)
    BY <2>2 DEF MuteNext, JobRecord
  <2>3. CASE MuteLock(d)
    BY <2>3 DEF MuteLock
  <2>4. CASE MuteSet(d)
    <3>1. job[d].at \in job[d].todo
      BY <2>4, Loops DEF MuteSet
    <3> QED
      BY <2>4, <3>1 DEF MuteSet, Left, JobRecord
  <2>5. CASE Open(d)
    BY <2>5 DEF Open, JobRecord
  <2>6. CASE Destroy(d)
    BY <2>6 DEF Destroy, Left, JobRecord
  <2>7. CASE DeviceReturn(d)
    BY <2>7 DEF DeviceReturn
  <2> QED
    BY <2>1, <2>2, <2>3, <2>4, <2>5, <2>6, <2>7 DEF DeviceStep
<1>9. Remaining(d)' < Remaining(d)
  <2> DEFINE n == Cardinality(job[d].todo)
             m == Cardinality(job'[d].todo)
  <2>1. n \in Nat /\ m \in Nat /\ m <= Cardinality(Streams)
    BY <1>6
  <2>2. Remaining(d) = RemainingAt(pc[d], n) /\ Remaining(d)' = RemainingAt(pc'[d], m)
    BY <1>4
  <2>3. \/ pc[d] = "device" /\ pc'[d] = "run"
        \/ pc[d] = "run" /\ pc'[d] = "mute" /\ m = n
        \/ pc[d] = "mute" /\ pc'[d] = "set" /\ m = n
        \/ pc[d] \in {"set", "run"} /\ pc'[d] = "run" /\ m < n
        \/ pc[d] = "run" /\ pc'[d] = "idle"
    <3> DEFINE
          shorter == \E x \in job[d].todo : job'[d].todo = job[d].todo \ {x}
          done == job[d].todo # {} /\ job'[d].todo = {}
          same == job'[d].todo = job[d].todo
    <3>1. shorter => m < n
      BY <1>6
    <3>2. ASSUME done PROVE m < n
      <4>1. n >= 1
        <5>1. PICK x \in job[d].todo : TRUE
          BY <3>2
        <5> QED
          BY <5>1, <1>6
      <4>2. m = 0
        BY <3>2, <1>7
      <4> QED
        BY <2>1, <4>1, <4>2
    <3>3. same => m = n
      OBVIOUS
    <3>4. \/ pc[d] = "device" /\ pc'[d] = "run"
          \/ pc[d] = "run" /\ pc'[d] = "mute" /\ same
          \/ pc[d] = "mute" /\ pc'[d] = "set" /\ same
          \/ pc[d] \in {"set", "run"} /\ pc'[d] = "run" /\ (shorter \/ done)
          \/ pc[d] = "run" /\ pc'[d] = "idle"
      BY <1>8
    <3> HIDE DEF n, m, shorter, done, same
    <3> QED
      BY <3>1, <3>2, <3>3, <3>4
  <2>4. pc[d] = "set" /\ pc'[d] = "run" /\ m < n => 3 * m + 1 < 3 * n - 1
    BY <2>1
  <2> HIDE DEF n, m
  <2> QED
    BY <2>1, <2>2, <2>3, <2>4, <1>6 DEF RemainingAt
<1> QED
  BY <1>3, <1>9 DEF Nearer

\* While something is left of a call it has not returned, with any number of
\* streams and of threads in the device.
THEOREM RemainingCounts == ASSUME ~RestartInFlight PROVE Spec => []RemainingIsLeft
<1> QED
  BY RemainingLeft, Invariance, PTL

\* Every step of a call brings it nearer to its return: no loop of the device,
\* no error path and no wait for a lock can keep a caller for ever that is given
\* its turns.
THEOREM CallsShrink == ASSUME ~RestartInFlight PROVE Spec => CallsAdvance
<1>1. IInv /\ [Next]_vars => [~Call => \E t \in Threads : Nearer(t)]_vars
  <2> SUFFICES ASSUME IInv, Next, ~Call
               PROVE  \E t \in Threads : Nearer(t)
    OBVIOUS
  <2>1. ASSUME NEW s \in Streams, IoStep(s) PROVE \E t \in Threads : Nearer(t)
    <3>1. Nearer(io(s))
      BY <2>1, StandbyAdvances, TransferAdvances
    <3> QED
      BY <3>1, ThreadsDiffer
  <2>2. ASSUME NEW s \in Streams, CtlStep(s) PROVE \E t \in Threads : Nearer(t)
    <3>1. Nearer(ctl(s))
      BY <2>2, StandbyAdvances, CtlAdvances
    <3> QED
      BY <3>1, ThreadsDiffer
  <2>3. ASSUME NEW d \in DevThreads, DeviceStep(d) PROVE \E t \in Threads : Nearer(t)
    BY <2>3, DeviceAdvances, ThreadsDiffer
  <2> QED
    BY <2>1, <2>2, <2>3 DEF Next
<1> QED
  BY <1>1, Invariance, PTL DEF Spec, CallsAdvance
=============================================================================
