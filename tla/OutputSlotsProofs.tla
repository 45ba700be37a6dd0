-------------------------- MODULE OutputSlotsProofs --------------------------
(***************************************************************************)
(* What the slots of the output table stand for.                           *)
(*                                                                         *)
(* OutputStreams implements ExclusiveSlots: a slot is a client's while it  *)
(* holds the address of the stream the client has open.  And the slot says *)
(* which PCM its stream is routed to, as long as no stream is rerouted.    *)
(***************************************************************************)
EXTENDS OutputStreamsProofs

Users == {c \in Clients : phase[c] = "open"}

Owns ==
  {o \in OutSlots \X Clients :
     phase[o[2]] = "open" /\ xout_streams[o[1]] = held[o[2]]}

\* A pair is in Owns when its client has the stream in its slot open.
LEMMA InOwns ==
  ASSUME NEW slot \in OutSlots, NEW c \in Clients
  PROVE  /\ <<slot, c>> \in Owns
              <=> phase[c] = "open" /\ xout_streams[slot] = held[c]
         /\ <<slot, c>> \in Owns'
              <=> phase'[c] = "open" /\ xout_streams'[slot] = held'[c]
BY DEF Owns

\* Opening a stream gives a slot nobody had to a client that had none.
LEMMA RefineOpen ==
  ASSUME IInv, NEW c \in Clients, NEW slot \in OutSlots,
         AdevOpenOutputStream(c, slot)
  PROVE  Exclusive!Open(c, slot)
<1>1. PICK a \in Allocatable :
        /\ xout_streams' = [xout_streams EXCEPT ![slot] = a]
        /\ held' = [held EXCEPT ![c] = a]
  BY DEF AdevOpenOutputStream
<1>2. a \in Addrs /\ a \notin live /\ a # NULL
  BY OutputAssumption DEF Allocatable
<1>3. phase[c] = "closed" /\ phase' = [phase EXCEPT ![c] = "open"]
  BY DEF AdevOpenOutputStream
<1>4. \A d \in Clients : phase[d] = "open" => held[d] \in live /\ held[d] # NULL
  BY OutputAssumption DEF IInv, Ownership, ClientsOwnStreams, TypeOK
<1>5. \A i \in OutSlots : xout_streams[i] \in live \cup {NULL}
  BY DEF IInv, SlotTableExact, Registered
<1>6. \A d \in Clients : <<slot, d>> \notin Owns
  BY <1>4, InOwns DEF AdevOpenOutputStream, SlotFree
<1>7. Users' = Users \cup {c} /\ c \notin Users
  BY <1>3 DEF Users, IInv, TypeOK
<1>8. Owns' = Owns \cup {<<slot, c>>}
  <2>1. ASSUME NEW i \in OutSlots, NEW d \in Clients
        PROVE  <<i, d>> \in Owns' <=> <<i, d>> \in Owns \/ <<i, d>> = <<slot, c>>
    <3>1. CASE d = c
      <4>1. held'[c] = a /\ phase'[c] = "open"
        BY <1>1, <1>3 DEF IInv, TypeOK
      <4>2. xout_streams'[i] = a <=> i = slot
        BY <1>1, <1>2, <1>5 DEF IInv, TypeOK
      <4> QED
        BY <1>3, <3>1, <4>1, <4>2, InOwns
    <3>2. CASE d # c
      <4>1. phase'[d] = phase[d] /\ held'[d] = held[d]
        BY <1>1, <1>3, <3>2 DEF IInv, TypeOK
      <4>2. CASE i = slot
        <5>1. xout_streams'[i] = a /\ xout_streams[i] = NULL
          BY <1>1, <4>2 DEF AdevOpenOutputStream, SlotFree, IInv, TypeOK
        <5> QED
          BY <1>2, <1>4, <3>2, <4>1, <5>1, InOwns
      <4>3. CASE i # slot
        <5>1. xout_streams'[i] = xout_streams[i]
          BY <1>1, <4>3 DEF IInv, TypeOK
        <5> QED
          BY <3>2, <4>1, <5>1, InOwns
      <4> QED
        BY <4>2, <4>3
    <3> QED
      BY <3>1, <3>2
  <2> QED
    BY <2>1 DEF Owns
<1> QED
  BY <1>6, <1>7, <1>8 DEF Exclusive!Open, Users, Owns

\* Closing takes the slot of the client's open stream back; the late close of a
\* stale stream leaves all slots alone.
LEMMA RefineClose ==
  ASSUME IInv, NEW c \in Clients, AdevCloseOutputStream(c)
  PROVE  Exclusive!Close(c) \/ UNCHANGED <<Users, Owns>>
<1> DEFINE D == Registered \cap {held[c]}
<1>1. /\ xout_streams' = SlotsWithout(D)
      /\ phase' = [phase EXCEPT ![c] = "closed"]
      /\ held' = [held EXCEPT ![c] = NULL]
      /\ phase[c] # "closed"
  BY DEF AdevCloseOutputStream, DestroyStreams
<1>2. \A d \in Clients \ {c} : phase'[d] = phase[d] /\ held'[d] = held[d]
  BY <1>1 DEF IInv, TypeOK
<1>3. phase'[c] = "closed"
  BY <1>1 DEF IInv, TypeOK
<1>4. \A d \in Clients : phase[d] = "open" => held[d] \in live /\ held[d] # NULL
  BY OutputAssumption DEF IInv, Ownership, ClientsOwnStreams, TypeOK
<1>5. \A d \in Clients \ {c} : phase[d] = "open" => held[d] \notin D
  <2>1. CASE phase[c] = "open"
    BY <2>1 DEF IInv, Ownership, ClientsOwnStreams
  <2>2. CASE phase[c] = "stale"
    BY <1>4, <2>2 DEF IInv, Ownership, StaleIsDead
  <2> QED
    BY <1>1, <2>1, <2>2 DEF IInv, TypeOK
<1>6. ASSUME NEW i \in OutSlots, NEW d \in Clients
      PROVE  <<i, d>> \in Owns' <=> <<i, d>> \in Owns /\ d # c
  <2>1. xout_streams'[i] = IF xout_streams[i] \in D THEN NULL ELSE xout_streams[i]
    BY <1>1 DEF SlotsWithout
  <2>2. CASE d = c
    BY <1>3, <2>2, InOwns
  <2>3. CASE d # c
    <3>1. phase[d] = "open"
            => (xout_streams'[i] = held[d] <=> xout_streams[i] = held[d])
      BY <1>4, <1>5, <2>1, <2>3
    <3> QED
      BY <1>2, <2>3, <3>1, InOwns
  <2> QED
    BY <2>2, <2>3
<1>7. Users' = Users \ {c}
  BY <1>2, <1>3 DEF Users
<1>8. Owns' = Owns \ (OutSlots \X {c})
  BY <1>6 DEF Owns
<1>9. CASE phase[c] = "open"
  BY <1>7, <1>8, <1>9 DEF Exclusive!Close, Users, Owns
<1>10. CASE phase[c] # "open"
  <2>1. Users' = Users
    BY <1>7, <1>10 DEF Users
  <2>2. \A i \in OutSlots : <<i, c>> \notin Owns
    BY <1>10, InOwns
  <2>3. Owns' = Owns
    BY <1>8, <2>2
  <2> QED
    BY <2>1, <2>3
<1> QED
  BY <1>9, <1>10

\* A restart takes every slot away.
LEMMA RefineRestart ==
  ASSUME IInv, AdevSetParametersRestarting
  PROVE  Exclusive!Restart
<1>1. \A c \in Clients : phase'[c] # "open"
  BY DEF AdevSetParametersRestarting, IInv, TypeOK
<1> QED
  BY <1>1 DEF Exclusive!Restart

\* All other steps leave the slots to their clients.
LEMMA RefineOthers ==
  ASSUME UNCHANGED <<xout_streams, phase, held>>
  PROVE  UNCHANGED <<Users, Owns>>
BY DEF Users, Owns

LEMMA RefineStep ==
  IInv /\ [Next]_vars => [Exclusive!Next]_(Exclusive!vars)
<1> SUFFICES ASSUME IInv, [Next]_vars
             PROVE  Exclusive!Next \/ UNCHANGED <<Users, Owns>>
  BY DEF Exclusive!vars, Users, Owns
<1>1. ASSUME NEW c \in Clients, NEW slot \in OutSlots,
             AdevOpenOutputStream(c, slot)
      PROVE  Exclusive!Next
  BY <1>1, RefineOpen DEF Exclusive!Next
<1>2. ASSUME NEW c \in Clients, AdevCloseOutputStream(c)
      PROVE  Exclusive!Next \/ UNCHANGED <<Users, Owns>>
  BY <1>2, RefineClose DEF Exclusive!Next
<1>3. CASE AdevSetParametersRestarting
  BY <1>3, RefineRestart DEF Exclusive!Next
<1>4. ASSUME UNCHANGED <<xout_streams, phase, held>>
      PROVE  UNCHANGED <<Users, Owns>>
  BY <1>4, RefineOthers
<1>5. ASSUME NEW c \in Clients, StreamCall(c)
      PROVE  UNCHANGED <<xout_streams, phase, held>>
  BY <1>5
  DEF StreamCall, OutWriteMuted, OutWriteOk, OutWriteError, OutWriteReport,
      OutWriteStop, OutWriteReopenFails, OutStandby, OutSetParameters,
      device, client
<1>6. ASSUME NEW mute, AdevSetMasterMute(mute) \/ MuteNext
      PROVE  UNCHANGED <<phase, held>>
  BY <1>6 DEF AdevSetMasterMute, MuteNext, client
<1>7. ASSUME NEW mute, AdevSetMasterMute(mute) \/ MuteNext
      PROVE  UNCHANGED xout_streams
  BY <1>7 DEF AdevSetMasterMute, MuteNext
<1>8. CASE UNCHANGED vars
  BY <1>4, <1>8 DEF vars
<1> QED
  BY <1>1, <1>2, <1>3, <1>4, <1>5, <1>6, <1>7, <1>8 DEF Next, DeviceCall

\* OutputStreams implements ExclusiveSlots: every step of the device and its
\* streams gives a free slot to a client, takes one back, takes all back after
\* a restart, or leaves the slots alone.
THEOREM SlotsExclusive == ~AddressReuse => (Spec => ExclusiveSpec)
<1>1. Init => Exclusive!Init
  BY DEF Init, Exclusive!Init
<1>2. ASSUME ~AddressReuse PROVE Spec => ExclusiveSpec
  <2>1. Spec => []IInv
    BY <1>2, Invariance
  <2> QED
    BY <1>1, <2>1, RefineStep, PTL DEF Spec, ExclusiveSpec, Exclusive!Spec
<1> QED
  BY <1>2
-----------------------------------------------------------------------------
(***************************************************************************)
(* Slots and PCMs.                                                         *)
(***************************************************************************)

\* The stream in each slot is routed to the slot's PCM.
RoutedToSlot ==
  \A i \in OutSlots :
    xout_streams[i] # NULL => stream[xout_streams[i]].pcm = OutPcm[i]

\* The stream in each slot is routed to the slot's PCM or to the default one.
RoutedToSlotOrDefault ==
  \A i \in OutSlots :
    xout_streams[i] # NULL
      => stream[xout_streams[i]].pcm \in {OutPcm[i], OutPcm[DefaultSlot]}

\* No two entries of xa_output_map name one PCM.
OneSlotPerPcm == \A i, j \in OutSlots : OutPcm[i] = OutPcm[j] => i = j

\* Streams that are routed to one PCM are routed to the default slot's.
SharedIsDefault ==
  \A a, b \in live :
    a # b /\ stream[a].pcm = stream[b].pcm => stream[a].pcm = OutPcm[DefaultSlot]

\* No client sets a new routing.
NoRerouting == \A c \in Clients : ~OutSetParameters(c)

\* A stream call keeps the routing of every stream, rerouting apart.
LEMMA StreamCallRoutes ==
  ASSUME IInv, NEW c \in Clients, StreamCall(c), NEW a \in live
  PROVE  \/ stream'[a].pcm = stream[a].pcm
         \/ OutSetParameters(c) /\ stream'[a].pcm = OutPcm[DefaultSlot]
<1> DEFINE s == stream[held[c]]
<1>1. a \in Addrs /\ stream \in [Addrs -> Stream]
  BY DEF IInv, TypeOK
<1>2. s \in Stream
  <2>1. phase[c] = "open"
    BY DEF IInv, Ownership, CallsAreOpen, StreamCall, Calling, LockFree,
           OutWriteMuted, OutWriteOk, OutWriteError, OutWriteReport,
           OutWriteStop, OutWriteReopenFails, OutStandby, OutSetParameters
  <2> QED
    BY <2>1, HeldStream
<1>3. ASSUME NEW t, SetStream(held[c], t), t.pcm = s.pcm
      PROVE  stream'[a].pcm = stream[a].pcm
  BY <1>1, <1>3 DEF SetStream
<1>4. Reopened(s) \in Stream /\ Reopened(s).pcm = s.pcm
  BY <1>2 DEF Reopened, Stream
<1>5. CASE OutWriteMuted(c)
  <2>1. [Reopened(s) EXCEPT !.error_cntr = 0].pcm = s.pcm
    BY <1>4 DEF Stream
  <2> QED
    BY <1>3, <1>5, <2>1 DEF OutWriteMuted
<1>6. CASE OutWriteOk(c)
  <2>1. [Written(Reopened(s)) EXCEPT !.error_cntr = 0].pcm = s.pcm
    BY <1>4 DEF Stream, Written
  <2> QED
    BY <1>3, <1>6, <2>1 DEF OutWriteOk
<1>7. CASE OutWriteError(c)
  <2>1. Written(Reopened(s)).pcm = s.pcm
    BY <1>4 DEF Stream, Written
  <2> QED
    BY <1>3, <1>7, <2>1 DEF OutWriteError
<1>8. CASE OutWriteReport(c)
  <2>1. [s EXCEPT !.error_cntr = @ + 1].pcm = s.pcm
    BY <1>2 DEF Stream
  <2> QED
    BY <1>3, <1>8, <2>1 DEF OutWriteReport
<1>9. CASE OutWriteStop(c) \/ OutStandby(c)
  <2>1. out_standby(s).pcm = s.pcm
    BY <1>2 DEF Stream, out_standby
  <2> QED
    BY <1>3, <1>9, <2>1 DEF OutWriteStop, OutStandby, EnterStandby
<1>10. CASE OutWriteReopenFails(c)
  <2>1. ReopenFailed(s).pcm = s.pcm
    BY <1>2 DEF Stream, ReopenFailed
  <2> QED
    BY <1>3, <1>10, <2>1 DEF OutWriteReopenFails
<1>11. CASE OutSetParameters(c)
  <2>1. [s EXCEPT !.pcm = OutPcm[DefaultSlot]].pcm = OutPcm[DefaultSlot]
    BY <1>2 DEF Stream
  <2> QED
    BY <1>1, <1>11, <2>1 DEF OutSetParameters, SetStream
<1> QED
  BY <1>5, <1>6, <1>7, <1>8, <1>9, <1>10, <1>11 DEF StreamCall

\* What a step does to the stream in a slot: it is new there and routed to the
\* slot's PCM, or it keeps its routing, or it is moved to the default PCM.
LEMMA RouteStep ==
  ASSUME IInv, [Next]_vars, NEW i \in OutSlots, xout_streams'[i] # NULL
  PROVE  \/ stream'[xout_streams'[i]].pcm = OutPcm[i]
         \/ /\ xout_streams'[i] = xout_streams[i]
            /\ \/ stream'[xout_streams[i]].pcm = stream[xout_streams[i]].pcm
               \/ /\ ~NoRerouting
                  /\ stream'[xout_streams[i]].pcm = OutPcm[DefaultSlot]
<1> DEFINE a == xout_streams[i]
<1> USE DEF client, device
<1>1. a # NULL => a \in live /\ a \in Addrs
  BY DEF IInv, TypeOK, SlotTableExact, Registered
<1>2. stream \in [Addrs -> Stream] /\ xout_streams \in [OutSlots -> Addrs \cup {NULL}]
  BY DEF IInv, TypeOK
<1>3. ASSUME NEW c \in Clients, NEW slot \in OutSlots, AdevOpenOutputStream(c, slot)
      PROVE  \/ stream'[xout_streams'[i]].pcm = OutPcm[i]
             \/ xout_streams'[i] = a /\ stream'[a].pcm = stream[a].pcm
  <2>1. PICK b \in Allocatable :
          /\ stream' = [stream EXCEPT ![b] = Opened(slot)]
          /\ xout_streams' = [xout_streams EXCEPT ![slot] = b]
    BY <1>3 DEF AdevOpenOutputStream
  <2>2. b \in Addrs \ live
    BY DEF Allocatable
  <2>3. CASE i = slot
    <3>1. xout_streams'[i] = b /\ stream'[b] = Opened(slot)
      BY <1>2, <2>1, <2>2, <2>3
    <3>2. Opened(slot).pcm = OutPcm[slot]
      BY OpenedStream DEF IInv
    <3> QED
      BY <2>3, <3>1, <3>2
  <2>4. CASE i # slot
    BY <1>1, <1>2, <2>1, <2>2, <2>4
  <2> QED
    BY <2>3, <2>4
<1>4. ASSUME NEW D, DestroyStreams(D)
      PROVE  xout_streams'[i] = a /\ stream'[a].pcm = stream[a].pcm
  <2>1. xout_streams'[i] = a /\ a \notin D
    BY <1>4 DEF DestroyStreams, SlotsWithout
  <2> QED
    BY <1>1, <1>4, <2>1 DEF DestroyStreams
<1>5. ASSUME NEW mute \in BOOLEAN, AdevSetMasterMute(mute)
      PROVE  xout_streams'[i] = a /\ stream'[a].pcm = stream[a].pcm
  BY <1>5 DEF AdevSetMasterMute
<1>6. CASE MuteNext
  <2>1. xout_streams'[i] = a
    BY <1>6 DEF MuteNext
  <2>2. \A s \in Stream : out_set_mute(s, master_is_muted).pcm = s.pcm
    BY DEF Stream, out_set_mute
  <2>3. stream'[a].pcm = stream[a].pcm
    BY <1>1, <1>2, <1>6, <2>1, <2>2 DEF MuteNext
  <2> QED
    BY <2>1, <2>3
<1>7. ASSUME NEW c \in Clients, StreamCall(c)
      PROVE  /\ xout_streams'[i] = a
             /\ \/ stream'[a].pcm = stream[a].pcm
                \/ ~NoRerouting /\ stream'[a].pcm = OutPcm[DefaultSlot]
  <2>1. xout_streams'[i] = a
    BY <1>7
    DEF StreamCall, OutWriteMuted, OutWriteOk, OutWriteError, OutWriteReport,
        OutWriteStop, OutWriteReopenFails, OutStandby, OutSetParameters
  <2> QED
    BY <1>1, <1>7, <2>1, StreamCallRoutes DEF NoRerouting
<1>8. CASE UNCHANGED vars
  BY <1>8 DEF vars
<1> QED
  BY <1>3, <1>4, <1>5, <1>6, <1>7, <1>8
  DEF Next, DeviceCall, AdevCloseOutputStream, AdevSetParametersRestarting

\* The slot of a stream is the slot of no other one.
LEMMA SlotOf ==
  ASSUME IInv, NEW a \in live
  PROVE  \E i \in OutSlots : xout_streams[i] = a /\ a # NULL
BY OutputAssumption DEF IInv, TypeOK, SlotTableExact, Registered

\* Two streams share a PCM only where OutSetParameters moved one of them to the
\* default PCM: a stream opened on one slot's PCM is never moved to another's.
THEOREM SharingIsDefault ==
  ASSUME ~AddressReuse, OneSlotPerPcm PROVE Spec => []SharedIsDefault
<1>1. Init => RoutedToSlotOrDefault
  BY DEF Init, RoutedToSlotOrDefault
<1>2. IInv /\ RoutedToSlotOrDefault /\ [Next]_vars => RoutedToSlotOrDefault'
  BY RouteStep DEF RoutedToSlotOrDefault
<1>3. IInv /\ RoutedToSlotOrDefault => SharedIsDefault
  <2> SUFFICES ASSUME IInv, RoutedToSlotOrDefault,
                      NEW a \in live, NEW b \in live, a # b,
                      stream[a].pcm = stream[b].pcm
               PROVE  stream[a].pcm = OutPcm[DefaultSlot]
    BY DEF SharedIsDefault
  <2>1. PICK i \in OutSlots : xout_streams[i] = a /\ a # NULL
    BY SlotOf
  <2>2. PICK j \in OutSlots : xout_streams[j] = b /\ b # NULL
    BY SlotOf
  <2> QED
    BY <2>1, <2>2 DEF RoutedToSlotOrDefault, OneSlotPerPcm
<1>4. Spec => []IInv
  BY Invariance
<1> QED
  BY <1>1, <1>2, <1>3, <1>4, PTL DEF Spec

\* "Output stream for this device already exists" holds of the PCM, not only of
\* the slot, as long as no stream is rerouted.
THEOREM SharingIsRerouting ==
  ASSUME ~AddressReuse, OneSlotPerPcm
  PROVE  Spec /\ [][NoRerouting]_vars => []OneStreamPerPcm
<1>1. Init => RoutedToSlot
  BY DEF Init, RoutedToSlot
<1>2. IInv /\ RoutedToSlot /\ [Next]_vars /\ [NoRerouting]_vars => RoutedToSlot'
  <2>1. ASSUME IInv, RoutedToSlot, UNCHANGED vars PROVE RoutedToSlot'
    BY <2>1 DEF RoutedToSlot, vars
  <2>2. ASSUME IInv, RoutedToSlot, [Next]_vars, NoRerouting PROVE RoutedToSlot'
    BY <2>2, RouteStep DEF RoutedToSlot
  <2> QED
    BY <2>1, <2>2
<1>3. IInv /\ RoutedToSlot => OneStreamPerPcm
  <2> SUFFICES ASSUME IInv, RoutedToSlot, NEW a \in live, NEW b \in live, a # b
               PROVE  stream[a].pcm # stream[b].pcm
    BY DEF OneStreamPerPcm
  <2>1. PICK i \in OutSlots : xout_streams[i] = a /\ a # NULL
    BY SlotOf
  <2>2. PICK j \in OutSlots : xout_streams[j] = b /\ b # NULL
    BY SlotOf
  <2> QED
    BY <2>1, <2>2 DEF RoutedToSlot, OneSlotPerPcm
<1>4. Spec => []IInv
  BY Invariance
<1> QED
  BY <1>1, <1>2, <1>3, <1>4, PTL DEF Spec
=============================================================================
