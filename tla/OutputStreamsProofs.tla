------------------------- MODULE OutputStreamsProofs -------------------------
(***************************************************************************)
(* Theorems about OutputStreams, for every number of slots, PCM devices,   *)
(* addresses and clients.                                                  *)
(*                                                                         *)
(* TypeOK is inductive by itself.  The other invariants are proved         *)
(* together, as the conjunction IInv, when calloc() never returns an       *)
(* address that a client of a dead audioserver still remembers; with such  *)
(* an address ClientsOwnStreams is false (see StaleCloseIgnored).          *)
(***************************************************************************)
EXTENDS OutputStreams, TLAPS

(***************************************************************************)
(* The parts of the inductive invariant that no run checks by themselves.  *)
(***************************************************************************)

\* A client remembers, after a restart, only addresses that are free.
StaleIsDead == \A c \in Clients : phase[c] = "stale" => held[c] \notin live

\* Only a client with an open stream is inside out_write().
CallsAreOpen == \A c \in Clients : call[c] # "idle" => phase[c] = "open"

\* The loop of adev_set_master_mute() has dealt with the slots before mute_i.
MuteSwept ==
  \A i \in OutSlots :
    i < mute_i /\ xout_streams[i] # NULL
      => stream[xout_streams[i]].muted = master_is_muted

\* A client's stream with too many errors is stopped or about to be, and no
\* other stream is about to be.
ErrorsHandled ==
  \A c \in Clients :
    phase[c] = "open"
      => /\ TooManyErrors(stream[held[c]])
              => stream[held[c]].standby \/ call[c] # "idle"
         /\ call[c] = "stopping" => TooManyErrors(stream[held[c]])

Ownership == ClientsOwnStreams /\ StaleIsDead /\ CallsAreOpen

\* Every stream is routed to a PCM.
Routed == \A a \in live : stream[a].pcm # NULL

Handles == PcmAccounting /\ StandbyIffClosed /\ HandleFollowsRoute /\ Routed

IInv ==
  /\ TypeOK
  /\ SlotTableExact
  /\ Ownership
  /\ Handles
  /\ MuteSwept
  /\ ErrorsHandled

-----------------------------------------------------------------------------
(***************************************************************************)
(* Lemmas about the functions of stream_out.c.                             *)
(***************************************************************************)

\* Every function of stream_out.c returns a well-formed stream.
LEMMA StreamFunctions ==
  ASSUME NEW s \in Stream
  PROVE  /\ \A mute \in BOOLEAN : out_set_mute(s, mute) \in Stream
         /\ out_standby(s) \in Stream
         /\ StandbyCloses(s) \in Pcms \cup {NULL}
         /\ Reopened(s) \in Stream
         /\ ReopenFailed(s) \in Stream
         /\ s.written_frames < FrameBound => Written(s) \in Stream
<1>1. \A mute \in BOOLEAN : out_set_mute(s, mute) \in Stream
  BY DEF Stream, out_set_mute
<1>2. out_standby(s) \in Stream /\ StandbyCloses(s) \in Pcms \cup {NULL}
  BY DEF Stream, out_standby, StandbyCloses
<1>3. Reopened(s) \in Stream /\ ReopenFailed(s) \in Stream
  BY DEF Stream, Reopened, ReopenFailed
<1>4. s.written_frames < FrameBound => Written(s) \in Stream
  BY OutputAssumption DEF Stream, Written
<1> QED
  BY <1>1, <1>2, <1>3, <1>4

\* calloc() and out_create() return well-formed streams.
LEMMA NewStream ==
  /\ Cleared \in Stream
  /\ \A slot \in OutSlots : out_create(slot) \in Stream
<1>1. Cleared \in Stream
  BY OutputAssumption DEF Stream, Cleared
<1> QED
  BY <1>1, OutputAssumption DEF Stream, out_create, Cleared

-----------------------------------------------------------------------------
(***************************************************************************)
(* Type correctness.                                                       *)
(***************************************************************************)
LEMMA TypeInit == Init => TypeOK
<1> SUFFICES ASSUME Init PROVE TypeOK
  OBVIOUS
<1>1. mute_i \in 0 .. NumOut
  BY OutputAssumption DEF Init
<1>2. stream \in [Addrs -> Stream]
  BY NewStream DEF Init
<1> QED
  BY <1>1, <1>2 DEF Init, TypeOK

LEMMA TypeDeviceCall == TypeOK /\ DeviceCall => TypeOK'
<1> SUFFICES ASSUME TypeOK, DeviceCall PROVE TypeOK'
  OBVIOUS
<1> USE DEF TypeOK
<1>1. ASSUME NEW D, DestroyStreams(D)
      PROVE  /\ xout_streams' \in [OutSlots -> Addrs \cup {NULL}]
             /\ pcm_user' \in [Pcms -> Addrs \cup {NULL}]
             /\ live' \subseteq Addrs
             /\ stream' \in [Addrs -> Stream]
  BY <1>1, NewStream DEF DestroyStreams, SlotsWithout, PcmsWithout
<1>2. ASSUME NEW c \in Clients, NEW slot \in OutSlots,
             AdevOpenOutputStream(c, slot)
      PROVE  TypeOK'
  <2>1. Opened(slot) \in Stream
    BY NewStream, StreamFunctions DEF Opened
  <2>2. PICK a \in Allocatable :
          /\ live' = live \cup {a}
          /\ stream' = [stream EXCEPT ![a] = Opened(slot)]
          /\ pcm_user' = pcm_open(OutPcm[slot], a)
          /\ xout_streams' = [xout_streams EXCEPT ![slot] = a]
          /\ held' = [held EXCEPT ![c] = a]
    BY <1>2 DEF AdevOpenOutputStream
  <2>3. a \in Addrs
    BY DEF Allocatable
  <2> QED
    BY <1>2, <2>1, <2>2, <2>3, OutputAssumption
    DEF AdevOpenOutputStream, pcm_open
<1>3. ASSUME NEW c \in Clients, AdevCloseOutputStream(c) PROVE TypeOK'
  BY <1>1, <1>3 DEF AdevCloseOutputStream
<1>4. CASE AdevSetParametersRestarting
  BY <1>1, <1>4 DEF AdevSetParametersRestarting
<1>5. ASSUME NEW mute \in BOOLEAN, AdevSetMasterMute(mute) PROVE TypeOK'
  BY <1>5, OutputAssumption DEF AdevSetMasterMute, client
<1>6. CASE MuteNext
  <2>1. mute_i \in OutSlots /\ mute_i + 1 \in 0 .. NumOut
    BY <1>6, OutputAssumption DEF MuteNext, DeviceLocked, OutSlots
  <2>2. stream' \in [Addrs -> Stream]
    BY <1>6, <2>1, StreamFunctions DEF MuteNext
  <2> QED
    BY <1>6, <2>1, <2>2 DEF MuteNext, client
<1> QED
  BY <1>2, <1>3, <1>4, <1>5, <1>6 DEF DeviceCall

LEMMA TypeStreamCall ==
  ASSUME TypeOK, NEW c \in Clients, StreamCall(c)
  PROVE  TypeOK'
<1> USE DEF TypeOK, device, client
<1>1. ASSUME NEW a, NEW s, a \in Addrs => s \in Stream, SetStream(a, s)
      PROVE  stream' \in [Addrs -> Stream]
  BY <1>1 DEF SetStream
<1>2. ASSUME WriteReady(c) PROVE pcm_user' \in [Pcms -> Addrs \cup {NULL}]
  BY <1>2 DEF WriteReady, pcm_open
<1>3. ASSUME NEW a, EnterStandby(a)
      PROVE  /\ stream' \in [Addrs -> Stream]
             /\ pcm_user' \in [Pcms -> Addrs \cup {NULL}]
  <2>1. stream' \in [Addrs -> Stream]
    BY <1>1, <1>3, StreamFunctions DEF EnterStandby
  <2>2. pcm_user' \in [Pcms -> Addrs \cup {NULL}]
    BY <1>3 DEF EnterStandby, pcm_close
  <2> QED
    BY <2>1, <2>2
<1> DEFINE s == Reopened(stream[held[c]])
<1>4. held[c] \in Addrs => s \in Stream
  BY StreamFunctions
<1>5. CASE OutWriteMuted(c)
  <2>1. held[c] \in Addrs => [s EXCEPT !.error_cntr = 0] \in Stream
    BY <1>4 DEF Stream
  <2> QED
    BY <1>1, <1>2, <1>5, <2>1 DEF OutWriteMuted
<1>6. CASE OutWriteOk(c)
  <2>1. held[c] \in Addrs => Written(s) \in Stream
    BY <1>4, <1>6, StreamFunctions DEF OutWriteOk
  <2>2. held[c] \in Addrs => [Written(s) EXCEPT !.error_cntr = 0] \in Stream
    BY <2>1 DEF Stream
  <2> QED
    BY <1>1, <1>2, <1>6, <2>2 DEF OutWriteOk
<1>7. CASE OutWriteError(c)
  <2>1. held[c] \in Addrs => Written(s) \in Stream
    BY <1>4, <1>7, StreamFunctions DEF OutWriteError
  <2> QED
    BY <1>1, <1>2, <1>7, <2>1 DEF OutWriteError
<1>8. CASE OutWriteReport(c)
  <2>1. held[c] \in Addrs
          => [stream[held[c]] EXCEPT !.error_cntr = @ + 1] \in Stream
    BY DEF Stream
  <2> QED
    BY <1>1, <1>8, <2>1 DEF OutWriteReport
<1>9. CASE OutWriteStop(c)
  BY <1>3, <1>9 DEF OutWriteStop
<1>10. CASE OutWriteReopenFails(c)
  <2>1. held[c] \in Addrs => ReopenFailed(stream[held[c]]) \in Stream
    BY StreamFunctions
  <2> QED
    BY <1>1, <1>10, <2>1 DEF OutWriteReopenFails
<1>11. CASE OutStandby(c)
  BY <1>3, <1>11 DEF OutStandby
<1>12. CASE OutSetParameters(c)
  <2>1. held[c] \in Addrs
          => [stream[held[c]] EXCEPT !.pcm = OutPcm[DefaultSlot]] \in Stream
    BY OutputAssumption DEF Stream
  <2> QED
    BY <1>1, <1>12, <2>1 DEF OutSetParameters
<1> QED
  BY <1>5, <1>6, <1>7, <1>8, <1>9, <1>10, <1>11, <1>12 DEF StreamCall

LEMMA TypeStep == TypeOK /\ [Next]_vars => TypeOK'
<1>1. TypeOK /\ UNCHANGED vars => TypeOK'
  BY DEF TypeOK, vars
<1> QED
  BY <1>1, TypeDeviceCall, TypeStreamCall DEF Next

\* Every variable keeps its type, whatever addresses calloc() returns: no call
\* indexes a table out of its range or stores something that is no stream.
THEOREM TypeCorrect == Spec => []TypeOK
<1>1. TypeOK /\ [Next]_vars => TypeOK'
  BY TypeStep
<1> QED
  BY <1>1, TypeInit, PTL DEF Spec
-----------------------------------------------------------------------------
(***************************************************************************)
(* The inductive invariant.                                                *)
(***************************************************************************)
LEMMA InvInit == Init => IInv
<1> SUFFICES ASSUME Init PROVE IInv
  OBVIOUS
<1>1. TypeOK
  BY TypeInit
<1>2. SlotTableExact
  BY DEF Init, SlotTableExact, Registered
<1>3. Ownership
  BY DEF Init, Ownership, ClientsOwnStreams, StaleIsDead, CallsAreOpen
<1>4. Handles
  BY OutputAssumption
  DEF Init, Handles, PcmAccounting, StandbyIffClosed, HandleFollowsRoute,
      Routed
<1>5. MuteSwept /\ ErrorsHandled
  BY DEF Init, MuteSwept, ErrorsHandled
<1> QED
  BY <1>1, <1>2, <1>3, <1>4, <1>5 DEF IInv

\* A call on the stream at address a that replaces its contents by t: the
\* contents agree with themselves, and a PCM changes hands only if it is the
\* one that t's handle has open or the one that was open before.
StreamChange(a, t) ==
  /\ a \in live
  /\ t \in Stream
  /\ SetStream(a, t)
  /\ t.muted = stream[a].muted
  /\ t.standby <=> t.p_handle = NULL
  /\ t.pcm # NULL
  /\ t.p_handle \in {NULL, t.pcm}
  /\ \/ t.p_handle = stream[a].p_handle /\ pcm_user' = pcm_user
     \/ t.p_handle = NULL /\ pcm_user' = pcm_close(stream[a].p_handle)
     \/ /\ stream[a].p_handle = NULL
        /\ t.p_handle # NULL
        /\ pcm_user[t.p_handle] = NULL
        /\ pcm_user' = pcm_open(t.p_handle, a)

\* Such a call leaves the tables, the owners and the handles consistent.
LEMMA StreamChangeKeeps ==
  ASSUME IInv, NEW a, NEW t, StreamChange(a, t),
         UNCHANGED <<device, live, phase, held>>
  PROVE  /\ SlotTableExact'
         /\ ClientsOwnStreams'
         /\ StaleIsDead'
         /\ Handles'
         /\ MuteSwept'
<1> USE DEF IInv, device
<1>1. a \in Addrs /\ a # NULL /\ live \subseteq Addrs
  BY OutputAssumption DEF TypeOK, StreamChange
<1>2. /\ stream'[a] = t
      /\ \A b \in Addrs \ {a} : stream'[b] = stream[b]
  BY <1>1 DEF TypeOK, StreamChange, SetStream
<1>3. SlotTableExact' /\ ClientsOwnStreams' /\ StaleIsDead'
  BY DEF SlotTableExact, Registered, Ownership, ClientsOwnStreams, StaleIsDead
<1>4. StandbyIffClosed' /\ HandleFollowsRoute' /\ Routed'
  BY <1>1, <1>2
  DEF StreamChange, Handles, StandbyIffClosed, HandleFollowsRoute, Routed
<1>5. PcmAccounting'
  <2> SUFFICES ASSUME NEW p \in Pcms, NEW b \in Addrs
               PROVE  pcm_user'[p] = b <=> b \in live /\ stream'[b].p_handle = p
    BY DEF PcmAccounting
  <2>1. /\ pcm_user \in [Pcms -> Addrs \cup {NULL}]
        /\ p # NULL /\ b # NULL
        /\ stream[a].p_handle \in Pcms \cup {NULL}
        /\ t.p_handle \in Pcms \cup {NULL}
    BY <1>1, OutputAssumption DEF TypeOK, Stream, StreamChange
  <2>2. /\ pcm_user[p] = b <=> b \in live /\ stream[b].p_handle = p
        /\ pcm_user[p] = a <=> stream[a].p_handle = p
    BY <1>1 DEF StreamChange, Handles, PcmAccounting
  <2>3. CASE t.p_handle = stream[a].p_handle /\ pcm_user' = pcm_user
    BY <1>1, <1>2, <2>2, <2>3
  <2>4. CASE t.p_handle = NULL /\ pcm_user' = pcm_close(stream[a].p_handle)
    BY <1>1, <1>2, <2>1, <2>2, <2>4 DEF pcm_close
  <2>5. CASE /\ stream[a].p_handle = NULL
             /\ t.p_handle # NULL
             /\ pcm_user[t.p_handle] = NULL
             /\ pcm_user' = pcm_open(t.p_handle, a)
    <3>1. a \in live
      BY DEF StreamChange
    <3>2. pcm_user'[p] = IF p = t.p_handle THEN a ELSE pcm_user[p]
      BY <2>1, <2>5 DEF pcm_open
    <3> QED
      BY <1>2, <2>1, <2>2, <2>5, <3>1, <3>2
  <2> QED
    BY <2>3, <2>4, <2>5 DEF StreamChange
<1>6. MuteSwept'
  <2> SUFFICES ASSUME NEW i \in OutSlots, i < mute_i, xout_streams[i] # NULL
               PROVE  stream'[xout_streams[i]].muted = master_is_muted
    BY DEF MuteSwept
  <2>1. xout_streams[i] \in Addrs
    BY DEF TypeOK
  <2>2. stream[xout_streams[i]].muted = master_is_muted
    BY DEF MuteSwept
  <2> QED
    BY <1>2, <2>1, <2>2 DEF StreamChange
<1> QED
  BY <1>3, <1>4, <1>5, <1>6 DEF Handles

\* What a client knows of the stream it holds.
LEMMA HeldStream ==
  ASSUME IInv, NEW c \in Clients, phase[c] = "open"
  PROVE  LET s == stream[held[c]]
         IN  /\ held[c] \in live
             /\ held[c] \in Addrs
             /\ s \in Stream
             /\ s.standby <=> s.p_handle = NULL
             /\ s.p_handle \in {NULL, s.pcm}
             /\ s.pcm # NULL
<1>1. held[c] \in live /\ held[c] \in Addrs
  BY DEF IInv, Ownership, ClientsOwnStreams, TypeOK
<1> QED
  BY <1>1
  DEF IInv, TypeOK, Handles, StandbyIffClosed, HandleFollowsRoute, Routed

\* A call of client c leaves the other clients' error counts as they were.
LEMMA OthersErrors ==
  ASSUME IInv, NEW c \in Clients, phase[c] = "open", NEW t,
         SetStream(held[c], t), UNCHANGED <<phase, held>>,
         NEW d \in Clients \ {c}, call'[d] = call[d],
         phase[d] = "open"
  PROVE  /\ TooManyErrors(stream'[held[d]])
              => stream'[held[d]].standby \/ call'[d] # "idle"
         /\ call'[d] = "stopping" => TooManyErrors(stream'[held[d]])
<1>1. held[d] # held[c]
  BY DEF IInv, Ownership, ClientsOwnStreams
<1>2. held[d] \in Addrs
  BY DEF IInv, Ownership, ClientsOwnStreams, TypeOK
<1>3. stream'[held[d]] = stream[held[d]]
  BY <1>1, <1>2 DEF IInv, TypeOK, SetStream
<1> QED
  BY <1>3 DEF IInv, ErrorsHandled

\* Every stream call preserves the invariant.
LEMMA InvStreamCall ==
  ASSUME IInv, NEW c \in Clients, StreamCall(c)
  PROVE  IInv'
<1> DEFINE a == held[c]
           s == Reopened(stream[a])
<1> USE DEF device, client
<1>1. TypeOK'
  BY TypeStreamCall DEF IInv
<1>2. phase[c] = "open"
  BY DEF IInv, Ownership, CallsAreOpen, StreamCall, Calling, LockFree,
         OutWriteMuted, OutWriteOk, OutWriteError, OutWriteReport,
         OutWriteStop, OutWriteReopenFails, OutStandby, OutSetParameters
<1>3. /\ a \in live /\ a \in Addrs /\ stream[a] \in Stream
      /\ stream[a].standby <=> stream[a].p_handle = NULL
      /\ stream[a].p_handle \in {NULL, stream[a].pcm}
      /\ stream[a].pcm # NULL
  BY <1>2, HeldStream
<1>4. UNCHANGED <<device, live, phase, held>>
  BY DEF StreamCall, OutWriteMuted, OutWriteOk, OutWriteError, OutWriteReport,
         OutWriteStop, OutWriteReopenFails, OutStandby, OutSetParameters
\* It is enough to say how a call changes the stream and the caller.
<1>5. ASSUME NEW t, StreamChange(a, t),
             \A d \in Clients \ {c} : call'[d] = call[d],
             TooManyErrors(t) => t.standby \/ call'[c] # "idle",
             call'[c] = "stopping" => TooManyErrors(t)
      PROVE  IInv'
  <2>1. /\ SlotTableExact' /\ ClientsOwnStreams' /\ StaleIsDead'
        /\ Handles' /\ MuteSwept'
    BY <1>4, <1>5, StreamChangeKeeps
  <2>2. CallsAreOpen'
    BY <1>2, <1>4, <1>5 DEF IInv, Ownership, CallsAreOpen
  <2>3. ErrorsHandled'
    <3> SUFFICES ASSUME NEW d \in Clients, phase[d] = "open"
                 PROVE  /\ TooManyErrors(stream'[held[d]])
                             => stream'[held[d]].standby \/ call'[d] # "idle"
                        /\ call'[d] = "stopping"
                             => TooManyErrors(stream'[held[d]])
      BY <1>4 DEF ErrorsHandled, TooManyErrors
    <3>1. CASE d = c
      BY <1>3, <1>5, <3>1 DEF IInv, TypeOK, StreamChange, SetStream
    <3>2. CASE d # c
      BY <1>2, <1>4, <1>5, <3>2, OthersErrors DEF StreamChange
    <3> QED
      BY <3>1, <3>2
  <2> QED
    BY <1>1, <2>1, <2>2, <2>3 DEF IInv, Ownership
\* out_write() in standby opens the handle of the stream's PCM.
<1>6. ASSUME NEW t, t \in Stream, WriteReady(c), SetStream(a, t),
             t.muted = s.muted, t.standby = s.standby,
             t.p_handle = s.p_handle, t.pcm = s.pcm
      PROVE  StreamChange(a, t)
  <2>1. CASE stream[a].standby
    <3>1. /\ ~s.standby /\ s.p_handle = stream[a].pcm /\ s.pcm = stream[a].pcm
          /\ s.muted = stream[a].muted
      BY <1>3, <2>1 DEF Reopened, Stream
    <3> QED
      BY <1>3, <1>6, <2>1, <3>1 DEF StreamChange, WriteReady
  <2>2. CASE ~stream[a].standby
    BY <1>3, <1>6, <2>2 DEF StreamChange, WriteReady, Reopened
  <2> QED
    BY <2>1, <2>2
<1>7. CASE OutWriteMuted(c)
  <2> DEFINE t == [s EXCEPT !.error_cntr = 0]
  <2>1. s \in Stream
    BY <1>3, StreamFunctions
  <2>2. /\ t \in Stream /\ t.muted = s.muted /\ t.standby = s.standby
        /\ t.p_handle = s.p_handle /\ t.pcm = s.pcm /\ t.error_cntr = 0
    BY <2>1 DEF Stream
  <2>3. StreamChange(a, t)
    BY <1>6, <1>7, <2>2 DEF OutWriteMuted
  <2>4. ~TooManyErrors(t)
    BY <2>2, OutputAssumption DEF TooManyErrors
  <2> QED
    BY <1>5, <1>7, <2>3, <2>4 DEF OutWriteMuted, Calling
<1>8. CASE OutWriteOk(c)
  <2> DEFINE t == [Written(s) EXCEPT !.error_cntr = 0]
  <2>1. s \in Stream /\ Written(s) \in Stream
    BY <1>3, <1>8, StreamFunctions DEF OutWriteOk
  <2>2. /\ t \in Stream /\ t.muted = s.muted /\ t.standby = s.standby
        /\ t.p_handle = s.p_handle /\ t.pcm = s.pcm /\ t.error_cntr = 0
    BY <2>1 DEF Stream, Written
  <2>3. StreamChange(a, t)
    BY <1>6, <1>8, <2>2 DEF OutWriteOk
  <2>4. ~TooManyErrors(t)
    BY <2>2, OutputAssumption DEF TooManyErrors
  <2> QED
    BY <1>5, <1>8, <2>3, <2>4 DEF OutWriteOk, Calling
<1>9. CASE OutWriteError(c)
  <2> DEFINE t == Written(s)
  <2>1. s \in Stream /\ t \in Stream
    BY <1>3, <1>9, StreamFunctions DEF OutWriteError
  <2>2. /\ t.muted = s.muted /\ t.standby = s.standby
        /\ t.p_handle = s.p_handle /\ t.pcm = s.pcm
    BY <2>1 DEF Stream, Written
  <2>3. StreamChange(a, t)
    BY <1>6, <1>9, <2>1, <2>2 DEF OutWriteError
  <2>4. call'[c] = "failed" /\ \A d \in Clients \ {c} : call'[d] = call[d]
    BY <1>9 DEF OutWriteError, IInv, TypeOK
  <2> QED
    BY <1>5, <2>3, <2>4
<1>10. CASE OutWriteReport(c)
  <2> DEFINE t == [stream[a] EXCEPT !.error_cntr = @ + 1]
  <2>1. /\ t \in Stream /\ t.muted = stream[a].muted
        /\ t.standby = stream[a].standby /\ t.p_handle = stream[a].p_handle
        /\ t.pcm = stream[a].pcm
    BY <1>3 DEF Stream
  <2>2. StreamChange(a, t)
    BY <1>3, <1>10, <2>1 DEF OutWriteReport, StreamChange
  <2>3. /\ call'[c] = IF TooManyErrors(t) THEN "stopping" ELSE "idle"
        /\ \A d \in Clients \ {c} : call'[d] = call[d]
    BY <1>10 DEF OutWriteReport, IInv, TypeOK
  <2> QED
    BY <1>5, <2>2, <2>3
<1>11. ASSUME EnterStandby(a), \A d \in Clients \ {c} : call'[d] = call[d],
              call'[c] \in {"idle", call[c]}
       PROVE  IInv'
  <2> DEFINE t == out_standby(stream[a])
  <2>1. /\ t \in Stream /\ t.muted = stream[a].muted /\ t.standby
        /\ t.p_handle = NULL /\ t.pcm = stream[a].pcm
        /\ t.error_cntr = stream[a].error_cntr
    BY <1>3, StreamFunctions DEF out_standby, Stream
  <2>2. StandbyCloses(stream[a]) = stream[a].p_handle
    BY <1>3 DEF StandbyCloses
  <2>3. StreamChange(a, t)
    BY <1>3, <1>11, <2>1, <2>2 DEF EnterStandby, StreamChange
  <2>4. call'[c] = "stopping" => TooManyErrors(t)
    BY <1>2, <1>11, <2>1 DEF IInv, ErrorsHandled, TooManyErrors
  <2> HIDE DEF t
  <2> QED
    BY <1>5, <1>11, <2>1, <2>3, <2>4
<1>12. CASE OutWriteStop(c)
  BY <1>11, <1>12 DEF OutWriteStop, IInv, TypeOK
<1>13. CASE OutWriteReopenFails(c)
  <2> DEFINE t == ReopenFailed(stream[a])
  <2>1. /\ t \in Stream /\ t.muted = stream[a].muted
        /\ t.standby = stream[a].standby /\ t.p_handle = NULL
        /\ t.pcm = stream[a].pcm
    BY <1>3, StreamFunctions DEF ReopenFailed, Stream
  <2>2. StreamChange(a, t) /\ t.standby
    BY <1>3, <1>13, <2>1 DEF OutWriteReopenFails, StreamChange
  <2> QED
    BY <1>5, <1>13, <2>2 DEF OutWriteReopenFails, Calling
<1>14. CASE OutStandby(c)
  BY <1>11, <1>14 DEF OutStandby
<1>15. CASE OutSetParameters(c)
  <2> DEFINE t == [stream[a] EXCEPT !.pcm = OutPcm[DefaultSlot]]
  <2>1. OutPcm[DefaultSlot] \in Pcms \ {NULL}
    BY OutputAssumption
  <2>2. /\ t \in Stream /\ t.muted = stream[a].muted
        /\ t.standby = stream[a].standby /\ t.p_handle = stream[a].p_handle
        /\ t.pcm = OutPcm[DefaultSlot]
        /\ t.error_cntr = stream[a].error_cntr
    BY <1>3, <2>1 DEF Stream
  <2>3. stream[a].standby
    BY <1>15 DEF OutSetParameters, MayChangeParameters
  <2>4. StreamChange(a, t) /\ t.standby
    BY <1>3, <1>15, <2>1, <2>2, <2>3 DEF OutSetParameters, StreamChange
  <2>5. call' = call
    BY <1>15 DEF OutSetParameters
  <2>6. call'[c] = "stopping" => TooManyErrors(t)
    BY <1>2, <2>2, <2>5 DEF IInv, ErrorsHandled, TooManyErrors
  <2> HIDE DEF t
  <2> QED
    BY <1>5, <2>4, <2>5, <2>6
<1> QED
  BY <1>7, <1>8, <1>9, <1>10, <1>12, <1>13, <1>14, <1>15 DEF StreamCall

-----------------------------------------------------------------------------
(***************************************************************************)
(* Device calls.                                                           *)
(***************************************************************************)

\* A freshly created stream.
LEMMA OpenedStream ==
  ASSUME NEW slot \in OutSlots, TypeOK
  PROVE  LET s == Opened(slot)
         IN  /\ s \in Stream
             /\ s.muted = master_is_muted
             /\ ~s.standby
             /\ s.pcm = OutPcm[slot] /\ s.p_handle = OutPcm[slot]
             /\ ~TooManyErrors(s)
<1>1. OutPcm[slot] \in Pcms
  BY OutputAssumption
<1>2. Opened(slot) \in Stream
  BY NewStream, StreamFunctions DEF Opened
<1> DEFINE new == out_create(slot)
<1>3. /\ new \in Stream /\ ~new.muted /\ ~new.standby /\ new.error_cntr = 0
      /\ new.pcm = OutPcm[slot] /\ new.p_handle = OutPcm[slot]
  BY <1>1, NewStream DEF out_create, Cleared
<1>4. Opened(slot) = IF master_is_muted THEN [new EXCEPT !.muted = TRUE]
                                        ELSE new
  BY DEF Opened, out_set_mute
<1>5. 0 < MAX_ALLOWED_ERRORS
  BY OutputAssumption
<1> HIDE DEF new
<1>6. LET s == Opened(slot)
      IN  /\ s.muted = master_is_muted /\ ~s.standby /\ s.error_cntr = 0
          /\ s.pcm = OutPcm[slot] /\ s.p_handle = OutPcm[slot]
  BY <1>3, <1>4 DEF Stream, TypeOK
<1> QED
  BY <1>2, <1>5, <1>6, OutputAssumption DEF TooManyErrors

LEMMA InvOpen ==
  ASSUME IInv, ~AddressReuse, NEW c \in Clients, NEW slot \in OutSlots,
         AdevOpenOutputStream(c, slot)
  PROVE  IInv'
<1> DEFINE s == Opened(slot)
           p == OutPcm[slot]
<1> USE DEF IInv
<1>1. TypeOK'
  BY TypeDeviceCall DEF DeviceCall
<1>2. PICK a \in Allocatable :
        /\ live' = live \cup {a}
        /\ stream' = [stream EXCEPT ![a] = s]
        /\ pcm_user' = pcm_open(p, a)
        /\ xout_streams' = [xout_streams EXCEPT ![slot] = a]
        /\ held' = [held EXCEPT ![c] = a]
  BY DEF AdevOpenOutputStream
<1>3. /\ a \in Addrs \ live /\ a # NULL /\ live \subseteq Addrs
      /\ \A d \in Clients : phase[d] = "stale" => held[d] # a
  BY <1>2, OutputAssumption DEF Allocatable, TypeOK
<1>4. /\ phase[c] = "closed" /\ phase' = [phase EXCEPT ![c] = "open"]
      /\ xout_streams[slot] = NULL /\ pcm_user[p] = NULL
      /\ p \in Pcms /\ p # NULL
      /\ UNCHANGED <<master_is_muted, mute_i, call>>
  BY OutputAssumption DEF AdevOpenOutputStream, SlotFree
<1>5. /\ stream'[a] = s
      /\ \A b \in Addrs \ {a} : stream'[b] = stream[b]
  BY <1>2, <1>3 DEF TypeOK
<1>6. /\ xout_streams'[slot] = a
      /\ \A i \in OutSlots \ {slot} : xout_streams'[i] = xout_streams[i]
  BY <1>2 DEF TypeOK
<1>7. /\ held'[c] = a /\ phase'[c] = "open"
      /\ \A d \in Clients \ {c} : held'[d] = held[d] /\ phase'[d] = phase[d]
  BY <1>2, <1>4 DEF TypeOK
<1>8. SlotTableExact'
  <2>1. Registered' = Registered \cup {a}
    BY <1>3, <1>4, <1>6 DEF Registered
  <2>2. \A i \in OutSlots : xout_streams[i] # a
    BY <1>3 DEF SlotTableExact, Registered
  <2> QED
    BY <1>2, <1>6, <2>1, <2>2 DEF SlotTableExact
<1>9. Ownership'
  <2>1. \A d \in Clients : phase[d] = "open" => held[d] \in live /\ d # c
    BY <1>4 DEF Ownership, ClientsOwnStreams
  <2>2. ClientsOwnStreams'
    BY <1>2, <1>3, <1>7, <2>1 DEF Ownership, ClientsOwnStreams
  <2>3. StaleIsDead'
    BY <1>2, <1>3, <1>7 DEF Ownership, StaleIsDead
  <2>4. CallsAreOpen'
    BY <1>4, <1>7 DEF Ownership, CallsAreOpen
  <2> QED
    BY <2>2, <2>3, <2>4 DEF Ownership
<1>10. Handles'
  <2>1. /\ s.pcm = p /\ s.p_handle = p /\ ~s.standby
    BY OpenedStream
  <2>2. StandbyIffClosed' /\ HandleFollowsRoute' /\ Routed'
    BY <1>2, <1>3, <1>4, <1>5, <2>1
    DEF Handles, StandbyIffClosed, HandleFollowsRoute, Routed
  <2>3. PcmAccounting'
    <3> SUFFICES ASSUME NEW q \in Pcms, NEW b \in Addrs
                 PROVE  pcm_user'[q] = b
                          <=> b \in live' /\ stream'[b].p_handle = q
      BY DEF PcmAccounting
    <3>1. pcm_user'[q] = IF q = p THEN a ELSE pcm_user[q]
      BY <1>2, <1>4 DEF pcm_open, TypeOK
    <3>2. /\ pcm_user[q] = b <=> b \in live /\ stream[b].p_handle = q
          /\ pcm_user[p] = b <=> b \in live /\ stream[b].p_handle = p
      BY <1>4 DEF Handles, PcmAccounting
    <3>3. b # NULL
      BY OutputAssumption
    <3>4. CASE b = a
      BY <1>2, <1>3, <1>5, <2>1, <3>1, <3>2, <3>4
    <3>5. CASE b # a
      BY <1>2, <1>3, <1>4, <1>5, <3>1, <3>2, <3>3, <3>5
    <3> QED
      BY <3>4, <3>5
  <2> QED
    BY <2>2, <2>3 DEF Handles
<1>11. MuteSwept'
  <2>1. s.muted = master_is_muted
    BY OpenedStream
  <2>2. \A i \in OutSlots : i # slot /\ xout_streams[i] # NULL
          => xout_streams[i] \in live
    BY DEF SlotTableExact, Registered
  <2> QED
    BY <1>3, <1>4, <1>5, <1>6, <2>1, <2>2 DEF MuteSwept
<1>12. ErrorsHandled'
  <2>1. ~TooManyErrors(s)
    BY OpenedStream
  <2>2. \A d \in Clients : phase[d] = "open" => held[d] \in live
    BY DEF Ownership, ClientsOwnStreams
  <2>3. \A d \in Clients \ {c} :
          phase[d] = "open" => stream'[held[d]] = stream[held[d]]
    BY <1>3, <1>5, <2>2
  <2>4. call'[c] = "idle"
    BY <1>4 DEF Ownership, CallsAreOpen
  <2> QED
    BY <1>4, <1>5, <1>7, <2>1, <2>3, <2>4 DEF ErrorsHandled, TooManyErrors
<1> QED
  BY <1>1, <1>8, <1>9, <1>10, <1>11, <1>12

\* Destroying some of the registered streams keeps the table, the handles and
\* the mute states consistent.
LEMMA DestroyKeeps ==
  ASSUME IInv, NEW D \in SUBSET Registered, DestroyStreams(D),
         UNCHANGED <<master_is_muted, mute_i>>
  PROVE  /\ SlotTableExact'
         /\ Handles'
         /\ MuteSwept'
         /\ live' = live \ D
         /\ \A b \in live' : b \in Addrs /\ stream'[b] = stream[b]
<1> USE DEF IInv, DestroyStreams
<1>1. /\ live' = live \ D /\ live \subseteq Addrs
      /\ \A b \in live' : b \in Addrs /\ stream'[b] = stream[b]
      /\ D \subseteq live
      /\ NULL \notin D
  BY DEF TypeOK, SlotTableExact, Registered
<1>2. \A i \in OutSlots :
        xout_streams'[i] = IF xout_streams[i] \in D THEN NULL
                                                    ELSE xout_streams[i]
  BY DEF SlotsWithout
<1>3. SlotTableExact'
  <2>1. Registered' = Registered \ D
    BY <1>1, <1>2 DEF Registered
  <2> QED
    BY <1>1, <1>2, <2>1 DEF SlotTableExact
<1>4. StandbyIffClosed' /\ HandleFollowsRoute' /\ Routed'
  BY <1>1 DEF Handles, StandbyIffClosed, HandleFollowsRoute, Routed
<1>5. PcmAccounting'
  <2> SUFFICES ASSUME NEW q \in Pcms, NEW b \in Addrs
               PROVE  pcm_user'[q] = b
                        <=> b \in live' /\ stream'[b].p_handle = q
    BY DEF PcmAccounting
  <2>1. pcm_user'[q] = IF \E a \in D : stream[a].p_handle = q
                       THEN NULL ELSE pcm_user[q]
    BY DEF PcmsWithout
  <2>2. \A a \in Addrs :
          pcm_user[q] = a <=> a \in live /\ stream[a].p_handle = q
    BY DEF Handles, PcmAccounting
  <2>3. b # NULL
    BY OutputAssumption
  <2> QED
    BY <1>1, <2>1, <2>2, <2>3
<1>6. MuteSwept'
  BY <1>1, <1>2 DEF MuteSwept, SlotTableExact, Registered
<1> QED
  BY <1>1, <1>3, <1>4, <1>5, <1>6 DEF Handles

\* A client that has no stream is in no stream call and has no errors.
LEMMA InvClose ==
  ASSUME IInv, NEW c \in Clients, AdevCloseOutputStream(c)
  PROVE  IInv'
<1> DEFINE D == Registered \cap {held[c]}
<1> USE DEF IInv
<1>1. TypeOK'
  BY TypeDeviceCall DEF DeviceCall
<1>2. /\ D \in SUBSET Registered
      /\ DestroyStreams(D)
      /\ UNCHANGED <<master_is_muted, mute_i, call>>
      /\ call[c] = "idle"
      /\ phase' = [phase EXCEPT ![c] = "closed"]
      /\ held' = [held EXCEPT ![c] = NULL]
  BY DEF AdevCloseOutputStream
<1>3. /\ SlotTableExact' /\ Handles' /\ MuteSwept'
      /\ live' = live \ D
      /\ \A b \in live' : b \in Addrs /\ stream'[b] = stream[b]
  BY <1>2, DestroyKeeps
<1>4. live' = live \ {held[c]}
  BY <1>3 DEF SlotTableExact
<1>5. /\ phase'[c] = "closed"
      /\ \A d \in Clients \ {c} : held'[d] = held[d] /\ phase'[d] = phase[d]
  BY <1>2 DEF TypeOK
<1>6. \A d \in Clients \ {c} : phase[d] = "open" => held[d] \in live'
  <2> SUFFICES ASSUME NEW d \in Clients \ {c}, phase[d] = "open"
               PROVE  held[d] \in live /\ held[d] # held[c]
    BY <1>4
  <2>1. held[d] \in live
    BY DEF Ownership, ClientsOwnStreams
  <2>2. CASE phase[c] = "open"
    BY <2>2 DEF Ownership, ClientsOwnStreams
  <2>3. CASE phase[c] = "stale"
    BY <2>1, <2>3 DEF Ownership, StaleIsDead
  <2>4. phase[c] \in {"open", "stale"}
    BY DEF AdevCloseOutputStream, TypeOK
  <2> QED
    BY <2>1, <2>2, <2>3, <2>4
<1>7. ClientsOwnStreams'
  <2>1. ASSUME NEW b \in live'
        PROVE  \E d \in Clients : phase'[d] = "open" /\ held'[d] = b
    <3>1. PICK d \in Clients : phase[d] = "open" /\ held[d] = b
      BY <1>4, <2>1 DEF Ownership, ClientsOwnStreams
    <3>2. d # c
      BY <1>4, <2>1, <3>1
    <3> QED
      BY <1>5, <3>1, <3>2
  <2>2. \A d, e \in Clients :
          phase'[d] = "open" /\ phase'[e] = "open" /\ held'[d] = held'[e]
            => d = e
    BY <1>5 DEF Ownership, ClientsOwnStreams
  <2> QED
    BY <1>5, <1>6, <2>1, <2>2 DEF ClientsOwnStreams
<1>8. StaleIsDead' /\ CallsAreOpen'
  BY <1>2, <1>4, <1>5 DEF Ownership, StaleIsDead, CallsAreOpen
<1>9. ErrorsHandled'
  BY <1>2, <1>3, <1>5, <1>6 DEF ErrorsHandled, TooManyErrors
<1> QED
  BY <1>1, <1>3, <1>7, <1>8, <1>9 DEF Ownership

LEMMA InvRestarting ==
  ASSUME IInv, AdevSetParametersRestarting
  PROVE  IInv'
<1> USE DEF IInv
<1>1. TypeOK'
  BY TypeDeviceCall DEF DeviceCall
<1>2. /\ DestroyStreams(Registered)
      /\ UNCHANGED <<master_is_muted, mute_i, held, call>>
      /\ \A c \in Clients : call[c] = "idle"
      /\ \A c \in Clients : phase'[c] # "open"
  BY DEF AdevSetParametersRestarting, TypeOK
<1>3. /\ SlotTableExact' /\ Handles' /\ MuteSwept'
      /\ live' = live \ Registered
  BY <1>2, DestroyKeeps
<1>4. live' = {}
  BY <1>3 DEF SlotTableExact
<1>5. Ownership'
  BY <1>2, <1>4 DEF Ownership, ClientsOwnStreams, StaleIsDead, CallsAreOpen
<1>6. ErrorsHandled'
  BY <1>2 DEF ErrorsHandled
<1> QED
  BY <1>1, <1>3, <1>5, <1>6

LEMMA InvSetMasterMute ==
  ASSUME IInv, NEW mute \in BOOLEAN, AdevSetMasterMute(mute)
  PROVE  IInv'
<1> USE DEF IInv, AdevSetMasterMute, client
<1>1. TypeOK'
  BY TypeDeviceCall DEF DeviceCall
<1>2. SlotTableExact' /\ Ownership'
  BY DEF SlotTableExact, Registered, Ownership, ClientsOwnStreams,
         StaleIsDead, CallsAreOpen
<1>3. Handles' /\ ErrorsHandled'
  BY DEF Handles, PcmAccounting, StandbyIffClosed, HandleFollowsRoute, Routed,
         ErrorsHandled, TooManyErrors
<1>4. MuteSwept'
  <2>1. \A i \in OutSlots : ~(i < 0)
    BY OutputAssumption DEF OutSlots
  <2> QED
    BY <2>1 DEF MuteSwept
<1> QED
  BY <1>1, <1>2, <1>3, <1>4

\* A step of the loop changes one stream's mute state, and nothing else of it.
LEMMA InvMuteNext ==
  ASSUME IInv, MuteNext
  PROVE  IInv'
<1> DEFINE a == xout_streams[mute_i]
<1> USE DEF IInv
<1>1. TypeOK'
  BY TypeDeviceCall DEF DeviceCall
<1>2. /\ mute_i \in OutSlots /\ mute_i' = mute_i + 1
      /\ UNCHANGED <<xout_streams, master_is_muted, live, pcm_user, client>>
  BY OutputAssumption DEF MuteNext, DeviceLocked, TypeOK, OutSlots
<1>3. \A b \in Addrs :
        stream'[b] = IF a # NULL /\ b = a
                     THEN [stream[b] EXCEPT !.muted = master_is_muted]
                     ELSE stream[b]
  BY DEF MuteNext, TypeOK, out_set_mute
<1>4. \A b \in Addrs :
        /\ stream'[b].standby = stream[b].standby
        /\ stream'[b].p_handle = stream[b].p_handle
        /\ stream'[b].pcm = stream[b].pcm
        /\ stream'[b].error_cntr = stream[b].error_cntr
  <2> SUFFICES ASSUME NEW b \in Addrs
               PROVE  /\ stream'[b].standby = stream[b].standby
                      /\ stream'[b].p_handle = stream[b].p_handle
                      /\ stream'[b].pcm = stream[b].pcm
                      /\ stream'[b].error_cntr = stream[b].error_cntr
    OBVIOUS
  <2>1. stream[b] \in Stream
    BY DEF TypeOK
  <2>2. \/ stream'[b] = stream[b]
        \/ stream'[b] = [stream[b] EXCEPT !.muted = master_is_muted]
    BY <1>3
  <2> HIDE DEF IInv
  <2> QED
    BY <2>1, <2>2 DEF Stream
<1>5. live \subseteq Addrs
  BY DEF TypeOK
<1>6. SlotTableExact' /\ Ownership'
  BY <1>2 DEF client, SlotTableExact, Registered, Ownership,
              ClientsOwnStreams, StaleIsDead, CallsAreOpen
<1>7. Handles'
  BY <1>2, <1>4, <1>5
  DEF Handles, PcmAccounting, StandbyIffClosed, HandleFollowsRoute, Routed
<1>8. ErrorsHandled'
  <2>1. \A c \in Clients : phase[c] = "open" => held[c] \in Addrs
    BY HeldStream
  <2> QED
    BY <1>2, <1>4, <2>1 DEF ErrorsHandled, TooManyErrors, client
<1>9. MuteSwept'
  <2> SUFFICES ASSUME NEW i \in OutSlots, i < mute_i + 1, xout_streams[i] # NULL
               PROVE  stream'[xout_streams[i]].muted = master_is_muted
    BY <1>2 DEF MuteSwept
  <2>1. xout_streams[i] \in Addrs
    BY DEF TypeOK
  <2>2. CASE xout_streams[i] = a
    BY <1>3, <2>1, <2>2 DEF TypeOK, Stream
  <2>3. CASE xout_streams[i] # a
    <3>1. i < mute_i
      BY <1>2, <2>3 DEF OutSlots
    <3> QED
      BY <1>3, <2>1, <2>3, <3>1 DEF MuteSwept
  <2> QED
    BY <2>2, <2>3
<1> QED
  BY <1>1, <1>6, <1>7, <1>8, <1>9

LEMMA InvStep == ~AddressReuse /\ IInv /\ [Next]_vars => IInv'
<1>1. ASSUME IInv, UNCHANGED vars PROVE IInv'
  <2> USE <1>1 DEF vars, IInv
  <2>1. TypeOK' /\ SlotTableExact'
    BY DEF TypeOK, SlotTableExact, Registered
  <2>2. Ownership'
    BY DEF Ownership, ClientsOwnStreams, StaleIsDead, CallsAreOpen
  <2>3. Handles'
    BY DEF Handles, PcmAccounting, StandbyIffClosed, HandleFollowsRoute, Routed
  <2>4. MuteSwept' /\ ErrorsHandled'
    BY DEF MuteSwept, ErrorsHandled, TooManyErrors
  <2> QED
    BY <2>1, <2>2, <2>3, <2>4
<1>2. ASSUME ~AddressReuse, IInv, DeviceCall PROVE IInv'
  BY <1>2, InvOpen, InvClose, InvRestarting, InvSetMasterMute, InvMuteNext
  DEF DeviceCall
<1> QED
  BY <1>1, <1>2, InvStreamCall DEF Next

-----------------------------------------------------------------------------
(***************************************************************************)
(* Theorems.                                                               *)
(***************************************************************************)

\* The inductive invariant holds in every reachable state.
THEOREM Invariance == ~AddressReuse => (Spec => []IInv)
<1>1. ~AddressReuse /\ IInv /\ [Next]_vars => IInv'
  BY InvStep
<1>2. ASSUME ~AddressReuse PROVE IInv /\ [Next]_vars => IInv'
  BY <1>1, <1>2
<1>3. ASSUME ~AddressReuse PROVE Spec => []IInv
  BY <1>2, <1>3, InvInit, PTL DEF Spec
<1> QED
  BY <1>3

\* The device's table, the allocated streams and the streams the clients have
\* open always agree, across closes in any order and restarts.
THEOREM StreamsOwned ==
  ~AddressReuse => (Spec => [](SlotTableExact /\ ClientsOwnStreams))
<1>1. IInv => SlotTableExact /\ ClientsOwnStreams
  BY DEF IInv, Ownership
<1> QED
  BY <1>1, Invariance, PTL

\* No PCM is leaked or shared: each is open exactly while one stream's handle
\* has it open, the handle is the routed PCM's, and there is none in standby.
THEOREM HandlesExact ==
  ~AddressReuse
    => (Spec => [](PcmAccounting /\ StandbyIffClosed /\ HandleFollowsRoute))
<1>1. IInv => PcmAccounting /\ StandbyIffClosed /\ HandleFollowsRoute
  BY DEF IInv, Handles
<1> QED
  BY <1>1, Invariance, PTL

\* The invariant makes every stream follow the device's mute state.
LEMMA MuteFollows == IInv => MuteCoherent
<1> SUFFICES ASSUME IInv, ~DeviceLocked, NEW a \in live
             PROVE  stream[a].muted = master_is_muted
  BY DEF MuteCoherent
<1>1. PICK i \in OutSlots : xout_streams[i] = a /\ a # NULL
  BY DEF IInv, SlotTableExact, Registered
<1>2. i < mute_i
  BY OutputAssumption DEF IInv, TypeOK, DeviceLocked, OutSlots
<1> QED
  BY <1>1, <1>2 DEF IInv, MuteSwept

\* Every stream follows the master mute whenever no change of it is under way,
\* however the loop that changes it interleaves with the streams' own calls.
THEOREM MuteCoherence == ~AddressReuse => (Spec => []MuteCoherent)
BY MuteFollows, Invariance, PTL

\* A stream whose writes keep failing is stopped, at the last failure that is
\* tolerated and at no earlier one, whatever comes in the write's lock gap.
THEOREM ErrorsStop == ~AddressReuse => (Spec => []ErrorsStopStream)
<1>1. IInv => ErrorsStopStream
  BY DEF IInv, Ownership, CallsAreOpen, ErrorsHandled, ErrorsStopStream,
         TooManyErrors, Calling
<1> QED
  BY <1>1, Invariance, PTL

\* A call of the device, or of another client, keeps the errors of a stream.
LEMMA ErrorsKept ==
  ASSUME IInv, Next, NEW c \in Clients, ~StreamCall(c),
         phase[c] = "open", phase'[c] = "open"
  PROVE  /\ held'[c] = held[c] /\ call'[c] = call[c]
         /\ stream'[held[c]].error_cntr = stream[held[c]].error_cntr
<1> DEFINE a == held[c]
<1> USE DEF device, client
<1>1. /\ a \in live /\ a \in Addrs /\ stream \in [Addrs -> Stream]
      /\ \A d \in Clients \ {c} : phase[d] \in {"open", "stale"} => held[d] # a
  BY DEF IInv, TypeOK, Ownership, ClientsOwnStreams, StaleIsDead
<1>2. /\ phase \in [Clients -> {"closed", "open", "stale"}]
      /\ held \in [Clients -> Addrs \cup {NULL}]
      /\ call \in [Clients -> {"idle", "failed", "stopping"}]
  BY DEF IInv, TypeOK
<1>3. ASSUME NEW d \in Clients, NEW slot \in OutSlots,
             AdevOpenOutputStream(d, slot)
      PROVE  held'[c] = a /\ call' = call /\ stream'[a] = stream[a]
  <2>1. d # c
    BY <1>3 DEF AdevOpenOutputStream
  <2> QED
    BY <1>1, <1>2, <1>3, <2>1 DEF AdevOpenOutputStream, Allocatable
<1>4. ASSUME NEW d \in Clients, AdevCloseOutputStream(d)
      PROVE  held'[c] = a /\ call' = call /\ stream'[a] = stream[a]
  <2>1. d # c /\ held[d] # a
    BY <1>1, <1>2, <1>4 DEF AdevCloseOutputStream
  <2> QED
    BY <1>1, <1>2, <1>4, <2>1 DEF AdevCloseOutputStream, DestroyStreams
<1>5. ~AdevSetParametersRestarting
  BY <1>2 DEF AdevSetParametersRestarting
<1>6. ASSUME NEW mute \in BOOLEAN, AdevSetMasterMute(mute)
      PROVE  UNCHANGED <<stream, client>>
  BY <1>6 DEF AdevSetMasterMute
<1>7. CASE MuteNext
  <2>1. \A s \in Stream :
          out_set_mute(s, master_is_muted).error_cntr = s.error_cntr
    BY DEF Stream, out_set_mute
  <2> QED
    BY <1>1, <1>7, <2>1 DEF MuteNext
<1>8. ASSUME NEW d \in Clients, StreamCall(d)
      PROVE  held'[c] = a /\ call'[c] = call[c] /\ stream'[a] = stream[a]
  <2>1. d # c /\ phase[d] = "open"
    BY <1>8
    DEF IInv, Ownership, CallsAreOpen, StreamCall, Calling, LockFree,
        OutWriteMuted, OutWriteOk, OutWriteError, OutWriteReport,
        OutWriteStop, OutWriteReopenFails, OutStandby, OutSetParameters
  <2>2. held[d] # a
    BY <1>1, <2>1
  <2>3. held' = held /\ \E t : SetStream(held[d], t)
    BY <1>8
    DEF StreamCall, EnterStandby, OutWriteMuted, OutWriteOk, OutWriteError,
        OutWriteReport, OutWriteStop, OutWriteReopenFails, OutStandby,
        OutSetParameters
  <2>4. call'[c] = call[c]
    BY <1>2, <1>8, <2>1
    DEF StreamCall, OutWriteMuted, OutWriteOk, OutWriteError, OutWriteReport,
        OutWriteStop, OutWriteReopenFails, OutStandby, OutSetParameters
  <2> QED
    BY <1>1, <2>2, <2>3, <2>4 DEF SetStream
<1> QED
  BY <1>3, <1>4, <1>5, <1>6, <1>7, <1>8 DEF Next, DeviceCall

\* What the steps of out_write() and of the client's other calls do to them.
LEMMA CountedStep ==
  ASSUME IInv, Next, NEW c \in Clients, phase[c] = "open", phase'[c] = "open"
  PROVE  IF call[c] = "idle" /\ call'[c] = "failed"
         THEN FailedWrites(c)' = FailedWrites(c) + 1
         ELSE \/ FailedWrites(c)' = FailedWrites(c)
              \/ Calling(c) /\ FailedWrites(c)' = 0
                 /\ ~stream'[held[c]].standby
<1> DEFINE a == held[c]
           s == stream[a]
<1> USE DEF device, client
<1>1. /\ a \in Addrs /\ s \in Stream /\ s.error_cntr \in Nat
      /\ call \in [Clients -> {"idle", "failed", "stopping"}]
  BY HeldStream DEF IInv, TypeOK, Stream
<1>2. CASE ~StreamCall(c)
  BY <1>2, ErrorsKept DEF FailedWrites
<1>3. ASSUME NEW t, SetStream(a, t) PROVE stream'[a] = t
  BY <1>1, <1>3 DEF SetStream, IInv, TypeOK
<1>4. /\ Reopened(s) \in Stream
      /\ ~Reopened(s).standby /\ Reopened(s).error_cntr = s.error_cntr
  BY <1>1, StreamFunctions DEF Reopened, Stream
<1>5. CASE OutWriteMuted(c)
  <2>1. stream'[a] = [Reopened(s) EXCEPT !.error_cntr = 0]
    BY <1>3, <1>5 DEF OutWriteMuted
  <2>2. stream'[a].error_cntr = 0 /\ ~stream'[a].standby
    BY <1>4, <2>1 DEF Stream
  <2> QED
    BY <1>5, <2>2 DEF OutWriteMuted, Calling, FailedWrites
<1>6. CASE OutWriteOk(c)
  <2>1. stream'[a] = [Written(Reopened(s)) EXCEPT !.error_cntr = 0]
    BY <1>3, <1>6 DEF OutWriteOk
  <2>2. stream'[a].error_cntr = 0 /\ ~stream'[a].standby
    BY <1>4, <2>1 DEF Stream, Written
  <2> QED
    BY <1>6, <2>2 DEF OutWriteOk, Calling, FailedWrites
<1>7. CASE OutWriteError(c)
  <2>1. stream'[a].error_cntr = s.error_cntr
    BY <1>3, <1>4, <1>7 DEF OutWriteError, Written, Stream
  <2>2. call[c] = "idle" /\ call'[c] = "failed" /\ held' = held
    BY <1>1, <1>7 DEF OutWriteError, Calling
  <2> QED
    BY <1>1, <2>1, <2>2 DEF FailedWrites
<1>8. CASE OutWriteReport(c)
  <2>1. stream'[a].error_cntr = s.error_cntr + 1
    BY <1>1, <1>3, <1>8 DEF OutWriteReport, Stream
  <2>2. call[c] = "failed" /\ call'[c] # "failed" /\ held' = held
    BY <1>1, <1>8 DEF OutWriteReport
  <2> QED
    BY <1>1, <2>1, <2>2 DEF FailedWrites
<1>9. ASSUME NEW t, SetStream(a, t), t.error_cntr = s.error_cntr,
             held' = held,
             call' = call \/ (call[c] = "stopping" /\ call'[c] = "idle")
      PROVE  /\ FailedWrites(c)' = FailedWrites(c)
             /\ call'[c] \in {"idle", call[c]}
  BY <1>3, <1>9 DEF FailedWrites
<1>10. /\ out_standby(s).error_cntr = s.error_cntr
       /\ ReopenFailed(s).error_cntr = s.error_cntr
       /\ [s EXCEPT !.pcm = OutPcm[DefaultSlot]].error_cntr = s.error_cntr
  BY <1>1 DEF out_standby, ReopenFailed, Stream
<1>11. CASE OutWriteStop(c)
  BY <1>1, <1>9, <1>10, <1>11 DEF OutWriteStop, EnterStandby
<1>12. CASE OutStandby(c)
  BY <1>1, <1>9, <1>10, <1>12 DEF OutStandby, EnterStandby
<1>13. CASE OutWriteReopenFails(c)
  BY <1>1, <1>9, <1>10, <1>13 DEF OutWriteReopenFails
<1>14. CASE OutSetParameters(c)
  BY <1>1, <1>9, <1>10, <1>14 DEF OutSetParameters
<1> QED
  BY <1>2, <1>5, <1>6, <1>7, <1>8, <1>11, <1>12, <1>13, <1>14 DEF StreamCall

\* No failed write is lost: the errors of a stream grow with every one of them,
\* and only a write that did not fail sets them back.
THEOREM ErrorsCount == ~AddressReuse => (Spec => ErrorsCounted)
<1> DEFINE Counted ==
      \A c \in Clients :
        phase[c] = "open" /\ phase'[c] = "open"
          => IF call[c] = "idle" /\ call'[c] = "failed"
             THEN FailedWrites(c)' = FailedWrites(c) + 1
             ELSE \/ FailedWrites(c)' = FailedWrites(c)
                  \/ Calling(c) /\ FailedWrites(c)' = 0
                     /\ ~stream'[held[c]].standby
<1>1. IInv /\ [Next]_vars => [Counted]_vars
  BY CountedStep
<1>2. ASSUME ~AddressReuse PROVE Spec => ErrorsCounted
  <2>1. Spec => []IInv
    BY <1>2, Invariance
  <2> QED
    BY <1>1, <2>1, PTL DEF Spec, ErrorsCounted
<1> QED
  BY <1>2

\* Only a write of an unmuted stream moves a stream's position.
LEMMA SilentStep ==
  ASSUME IInv, Next, NEW a \in live \cap live',
         stream'[a].written_frames # stream[a].written_frames
  PROVE  ~master_is_muted \/ DeviceLocked
<1> USE DEF client, device
<1>1. a \in Addrs
  BY DEF IInv, TypeOK
<1>2. ~DeviceLocked => stream[a].muted = master_is_muted
  BY MuteFollows DEF MuteCoherent
<1>3. CASE DeviceCall
  <2>1. ASSUME NEW c \in Clients, NEW slot \in OutSlots,
               AdevOpenOutputStream(c, slot)
        PROVE  stream'[a] = stream[a]
    BY <1>1, <2>1 DEF AdevOpenOutputStream, Allocatable, IInv, TypeOK
  <2>2. ASSUME NEW D, DestroyStreams(D) PROVE stream'[a] = stream[a]
    BY <1>1, <2>2 DEF DestroyStreams
  <2>3. ASSUME NEW mute \in BOOLEAN, AdevSetMasterMute(mute)
        PROVE  stream'[a] = stream[a]
    BY <2>3 DEF AdevSetMasterMute
  <2>4. CASE MuteNext
    BY <2>4 DEF MuteNext
  <2> QED
    BY <1>3, <2>1, <2>2, <2>3, <2>4
    DEF DeviceCall, AdevCloseOutputStream, AdevSetParametersRestarting
<1>4. ASSUME NEW c \in Clients, StreamCall(c)
      PROVE  ~master_is_muted \/ DeviceLocked
  <2> DEFINE s == stream[held[c]]
  <2>1. ASSUME NEW t, SetStream(held[c], t),
               held[c] \in Addrs => t.written_frames = s.written_frames
        PROVE  FALSE
    BY <1>1, <2>1 DEF SetStream, IInv, TypeOK
  <2>2. ASSUME NEW t, SetStream(held[c], t) PROVE held[c] = a
    BY <1>1, <2>2 DEF SetStream, IInv, TypeOK
  <2>3. held[c] \in Addrs => s \in Stream
    BY DEF IInv, TypeOK
  <2>4. CASE OutWriteMuted(c)
    BY <2>1, <2>3, <2>4 DEF OutWriteMuted, Reopened, Stream
  <2>5. CASE OutWriteOk(c) \/ OutWriteError(c)
    <3>1. held[c] = a /\ ~Reopened(s).muted
      BY <2>2, <2>5 DEF OutWriteOk, OutWriteError
    <3>2. Reopened(s).muted = s.muted
      BY <1>1, <2>3, <3>1 DEF Reopened, Stream
    <3> QED
      BY <1>2, <3>1, <3>2
  <2>6. CASE OutWriteReport(c)
    BY <2>1, <2>3, <2>6 DEF OutWriteReport, Stream
  <2>7. CASE OutWriteStop(c) \/ OutStandby(c)
    BY <2>1, <2>3, <2>7
    DEF OutWriteStop, OutStandby, EnterStandby, out_standby, Stream
  <2>8. CASE OutWriteReopenFails(c)
    BY <2>1, <2>3, <2>8 DEF OutWriteReopenFails, ReopenFailed, Stream
  <2>9. CASE OutSetParameters(c)
    BY <2>1, <2>3, <2>9 DEF OutSetParameters, Stream
  <2> QED
    BY <1>4, <2>4, <2>5, <2>6, <2>7, <2>8, <2>9 DEF StreamCall
<1> QED
  BY <1>3, <1>4 DEF Next

\* After adev_set_master_mute(true) returned, no stream writes to its PCM.
THEOREM Silence == ~AddressReuse => (Spec => SilentWhileMuted)
<1> DEFINE Silent ==
      \A a \in live \cap live' :
        stream'[a].written_frames # stream[a].written_frames
          => ~master_is_muted \/ DeviceLocked
<1>1. IInv /\ [Next]_vars => [Silent]_vars
  BY SilentStep
<1>2. ASSUME ~AddressReuse PROVE Spec => SilentWhileMuted
  <2>1. Spec => []IInv
    BY <1>2, Invariance
  <2> QED
    BY <1>1, <2>1, PTL DEF Spec, SilentWhileMuted
<1> QED
  BY <1>2
\* A close of a stream that was opened before the audioserver restarted finds
\* nothing in the table, and closes nothing.
LEMMA StaleCloseStep ==
  ASSUME IInv, Next, NEW c \in Clients, phase[c] = "stale", phase'[c] = "closed"
  PROVE  live' = live
<1> USE DEF client, device
<1>1. phase \in [Clients -> {"closed", "open", "stale"}]
  BY DEF IInv, TypeOK
<1>2. ASSUME NEW d \in Clients, NEW slot \in OutSlots, AdevOpenOutputStream(d, slot)
      PROVE  FALSE
  BY <1>1, <1>2 DEF AdevOpenOutputStream
<1>3. ASSUME NEW d \in Clients, AdevCloseOutputStream(d) PROVE live' = live
  <2>1. d = c
    BY <1>1, <1>3 DEF AdevCloseOutputStream
  <2>2. held[c] \notin Registered
    BY DEF IInv, Ownership, StaleIsDead, SlotTableExact
  <2> QED
    BY <1>3, <2>1, <2>2 DEF AdevCloseOutputStream, DestroyStreams
<1>4. ASSUME AdevSetParametersRestarting PROVE FALSE
  BY <1>1, <1>4 DEF AdevSetParametersRestarting
<1>5. ASSUME NEW mute \in BOOLEAN, AdevSetMasterMute(mute) \/ MuteNext
      PROVE  live' = live
  BY <1>5 DEF AdevSetMasterMute, MuteNext
<1>6. ASSUME NEW d \in Clients, StreamCall(d) PROVE live' = live
  BY <1>6
  DEF StreamCall, OutWriteMuted, OutWriteOk, OutWriteError, OutWriteReport,
      OutWriteStop, OutWriteReopenFails, OutStandby, OutSetParameters
<1> QED
  BY <1>2, <1>3, <1>4, <1>5, <1>6 DEF Next, DeviceCall

\* "close_output_stream() called for unknown stream" is all such a close does,
\* as long as calloc() does not return an address somebody still remembers.  A
\* reused address is the only way to close another client's stream.
THEOREM StaleCloses == ~AddressReuse => (Spec => StaleCloseIgnored)
<1> DEFINE Ignored ==
      \A c \in Clients : phase[c] = "stale" /\ phase'[c] = "closed" => live' = live
<1>1. IInv /\ [Next]_vars => [Ignored]_vars
  BY StaleCloseStep
<1>2. ASSUME ~AddressReuse PROVE Spec => StaleCloseIgnored
  <2>1. Spec => []IInv
    BY <1>2, Invariance
  <2> QED
    BY <1>1, <2>1, PTL DEF Spec, StaleCloseIgnored
<1> QED
  BY <1>2
=============================================================================
