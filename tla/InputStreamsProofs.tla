-------------------------- MODULE InputStreamsProofs --------------------------
(***************************************************************************)
(* Theorems about InputStreams, for every number of slots, PCM devices,    *)
(* addresses, clients and rates.                                           *)
(*                                                                         *)
(* TypeOK is inductive by itself.  The other invariants are proved         *)
(* together, as the conjunction IInv: who owns a stream decides which ones *)
(* a close destroys, and whether a PCM is free decides which rate it may   *)
(* be given.                                                               *)
(***************************************************************************)
EXTENDS InputStreams, TLAPS

(***************************************************************************)
(* The parts of the inductive invariant that no run checks by themselves.  *)
(***************************************************************************)

\* No two clients remember one address, whether its stream exists or not.
HoldersDiffer ==
  \A c, d \in Clients :
    phase[c] # "closed" /\ phase[d] # "closed" /\ held[c] = held[d] => c = d

\* The loop of adev_set_mic_mute() has cleared the slots before mic_i.
MicSwept ==
  DeviceLocked => \A i \in InSlots : i < mic_i => xin_streams[i] = NULL

Ownership == ClientsOwnStreams /\ HoldersDiffer

Handles == PcmAccounting /\ StandbyIffClosed /\ HardwareRate

MicMute == RegisteredFollowMute /\ MicSwept

IInv == TypeOK /\ TableLive /\ Ownership /\ Handles /\ MicMute

-----------------------------------------------------------------------------
(***************************************************************************)
(* Lemmas about the functions of stream_in.c.                              *)
(***************************************************************************)

\* Every function of stream_in.c returns a well-formed stream.
LEMMA StreamFunctions ==
  ASSUME NEW s \in Stream
  PROVE  /\ \A mute \in BOOLEAN : in_set_mute(s, mute) \in Stream
         /\ in_standby(s) \in Stream
         /\ [s EXCEPT !.p_handle = "open", !.standby = FALSE] \in Stream
         /\ \A h \in {"null", "freed"} : ReopenFailed(s, h) \in Stream
         /\ \A rate \in Rates : [s EXCEPT !.rate = rate] \in Stream
<1>1. /\ \A mute \in BOOLEAN : in_set_mute(s, mute) \in Stream
      /\ in_standby(s) \in Stream
  BY DEF Stream, in_set_mute, in_standby
<1>2. /\ [s EXCEPT !.p_handle = "open", !.standby = FALSE] \in Stream
      /\ \A h \in {"null", "freed"} : ReopenFailed(s, h) \in Stream
      /\ \A rate \in Rates : [s EXCEPT !.rate = rate] \in Stream
  BY DEF Stream, ReopenFailed
<1> QED
  BY <1>1, <1>2

\* adev_open_input_stream() makes a well-formed stream that follows the
\* microphone mute.
LEMMA NewStream ==
  ASSUME NEW slot \in InSlots, NEW rate \in Rates, mic_is_muted \in BOOLEAN
  PROVE  /\ Opened(slot, rate) \in Stream
         /\ Opened(slot, rate).muted = mic_is_muted
         /\ Opened(slot, rate).pcm = InPcm[slot]
         /\ Opened(slot, rate).p_handle = "open"
         /\ ~Opened(slot, rate).standby
         /\ Opened(slot, rate).rate = rate
<1>1. in_create(slot, rate) \in Stream
  BY InputAssumption DEF in_create, Stream
<1> QED
  BY <1>1 DEF Opened, in_set_mute, in_create, Stream

-----------------------------------------------------------------------------
(***************************************************************************)
(* Type correctness.                                                       *)
(***************************************************************************)
LEMMA TypeInit == Init => TypeOK
<1> SUFFICES ASSUME Init PROVE TypeOK
  OBVIOUS
<1>1. mic_i \in 0 .. NumIn /\ 0 \in Rates
  BY InputAssumption DEF Init
<1>2. stream \in [live -> Stream]
  BY DEF Init
<1> QED
  BY <1>1, <1>2 DEF Init, TypeOK

LEMMA TypeDeviceCall == TypeOK /\ DeviceCall => TypeOK'
<1> SUFFICES ASSUME TypeOK, DeviceCall PROVE TypeOK'
  OBVIOUS
<1> USE DEF TypeOK, client, pcms
<1>1. ASSUME NEW D, DestroyStreams(D)
      PROVE  /\ xin_streams' \in [InSlots -> live' \cup {NULL}]
             /\ live' \subseteq Addrs
             /\ stream' \in [live' -> Stream]
             /\ pcm_user' \in [Pcms -> Addrs \cup {NULL}]
             /\ pcm_rate' = pcm_rate
  BY <1>1 DEF DestroyStreams, SlotsWithout, pcm_close
<1>2. ASSUME NEW c \in Clients, NEW slot \in InSlots,
             AdevOpenInputStream(c, slot)
      PROVE  TypeOK'
  <2>1. PICK a \in Allocatable, rate \in SupportedRates :
          LET s == Opened(slot, rate)
          IN  /\ pcm_open(a, s)
              /\ live' = live \cup {a}
              /\ stream' = [b \in live \cup {a} |->
                              IF b = a THEN s ELSE stream[b]]
              /\ xin_streams' = [xin_streams EXCEPT ![slot] = a]
              /\ held' = [held EXCEPT ![c] = a]
    BY <1>2 DEF AdevOpenInputStream
  <2>2. a \in Addrs
    BY DEF Allocatable
  <2>3. Opened(slot, rate) \in Stream /\ Opened(slot, rate).rate = rate
        /\ rate \in Rates
    BY NewStream, InputAssumption
  <2>4. /\ pcm_user' \in [Pcms -> Addrs \cup {NULL}]
        /\ pcm_rate' \in [Pcms -> Rates]
    BY <2>1, <2>2, <2>3 DEF pcm_open
  <2>5. stream' \in [live' -> Stream]
    BY <2>1, <2>3
  <2> QED
    BY <1>2, <2>1, <2>2, <2>4, <2>5 DEF AdevOpenInputStream
<1>3. ASSUME NEW c \in Clients, AdevCloseInputStream(c) PROVE TypeOK'
  BY <1>1, <1>3 DEF AdevCloseInputStream
<1>4. CASE AdevSetParametersRestarting
  BY <1>1, <1>4 DEF AdevSetParametersRestarting
<1>5. ASSUME NEW mute \in BOOLEAN, AdevSetMicMute(mute) PROVE TypeOK'
  BY <1>5, InputAssumption DEF AdevSetMicMute
<1>6. CASE MicMuteNext
  <2>1. mic_i \in InSlots /\ mic_i + 1 \in 0 .. NumIn
    BY <1>6, InputAssumption DEF MicMuteNext, DeviceLocked, InSlots
  <2>2. /\ stream' \in [live -> Stream]
        /\ xin_streams' \in [InSlots -> live \cup {NULL}]
    <3>1. CASE xin_streams[mic_i] = NULL
      BY <1>6, <3>1 DEF MicMuteNext
    <3>2. CASE xin_streams[mic_i] # NULL
      <4>1. in_set_mute(stream[xin_streams[mic_i]], mic_is_muted) \in Stream
        BY <2>1, <3>2, StreamFunctions
      <4> QED
        BY <1>6, <2>1, <3>2, <4>1 DEF MicMuteNext
    <3> QED
      BY <3>1, <3>2
  <2> QED
    BY <1>6, <2>1, <2>2 DEF MicMuteNext
<1> QED
  BY <1>2, <1>3, <1>4, <1>5, <1>6 DEF DeviceCall

LEMMA TypeStreamCall ==
  ASSUME TypeOK, NEW c \in Clients, StreamCall(c)
  PROVE  TypeOK'
<1> USE DEF TypeOK, device, client, pcms
<1> DEFINE a == held[c]
<1>1. ASSUME NEW t, a \in live => t \in Stream, SetStream(a, t)
      PROVE  stream' \in [live -> Stream]
  BY <1>1 DEF SetStream
<1>2. a \in live => stream[a] \in Stream
  OBVIOUS
<1>3. CASE InReadReopens(c)
  <2>1. stream' \in [live -> Stream]
    BY <1>1, <1>2, <1>3, StreamFunctions DEF InReadReopens
  <2>2. /\ pcm_user' \in [Pcms -> Addrs \cup {NULL}]
        /\ pcm_rate' \in [Pcms -> Rates]
    BY <1>3, InputAssumption DEF InReadReopens, pcm_open
  <2> QED
    BY <1>3, <2>1, <2>2 DEF InReadReopens
<1>4. CASE InReadReopenFails(c)
  BY <1>1, <1>2, <1>4, StreamFunctions DEF InReadReopenFails
<1>5. CASE InStandby(c)
  <2>1. stream' \in [live -> Stream]
    BY <1>1, <1>2, <1>5, StreamFunctions DEF InStandby
  <2> QED
    BY <1>5, <2>1 DEF InStandby, pcm_close
<1>6. ASSUME NEW rate \in Rates, InSetParameters(c, rate) PROVE TypeOK'
  BY <1>1, <1>2, <1>6, StreamFunctions DEF InSetParameters
<1> QED
  BY <1>3, <1>4, <1>5, <1>6 DEF StreamCall

LEMMA TypeStep == TypeOK /\ [Next]_vars => TypeOK'
<1>1. TypeOK /\ UNCHANGED vars => TypeOK'
  BY DEF TypeOK, vars
<1> QED
  BY <1>1, TypeDeviceCall, TypeStreamCall DEF Next

\* Every variable keeps its type, so that the table never names a stream that
\* is not allocated, whatever closes, restarts and microphone mutes come.
THEOREM TypeCorrect == Spec => []TypeOK
<1>1. TypeOK /\ [Next]_vars => TypeOK'
  BY TypeStep
<1> QED
  BY <1>1, TypeInit, PTL DEF Spec
-----------------------------------------------------------------------------
(***************************************************************************)
(* The inductive invariant.                                                *)
(***************************************************************************)
LEMMA InvInit == Init => IInv
<1> SUFFICES ASSUME Init PROVE IInv
  OBVIOUS
<1>1. TypeOK
  BY TypeInit
<1>2. TableLive /\ Ownership /\ MicMute
  BY DEF Init, TableLive, Ownership, ClientsOwnStreams, HoldersDiffer, Registered,
         MicMute, RegisteredFollowMute, MicSwept
<1>3. Handles
  BY InputAssumption
  DEF Init, Handles, PcmAccounting, StandbyIffClosed, HardwareRate
<1> QED
  BY <1>1, <1>2, <1>3 DEF IInv

\* A call on the stream at address a that replaces its contents by t: the
\* contents agree with themselves, and a PCM changes hands only when the
\* stream's handle is opened or closed.
StreamChange(a, t) ==
  /\ a \in live
  /\ t \in Stream
  /\ SetStream(a, t)
  /\ t.muted = stream[a].muted
  /\ t.pcm = stream[a].pcm
  /\ t.standby <=> t.p_handle # "open"
  /\ \/ /\ t.p_handle = "open" <=> stream[a].p_handle = "open"
        /\ ~t.standby => t.rate = stream[a].rate
        /\ UNCHANGED pcms
     \/ t.p_handle # "open" /\ pcm_close({a})
     \/ /\ stream[a].p_handle # "open"
        /\ t.p_handle = "open"
        /\ pcm_open(a, t)

\* Such a call leaves the table, the owners and the handles consistent.
LEMMA StreamChangeKeeps ==
  ASSUME IInv, TypeOK', NEW a, NEW t, StreamChange(a, t),
         UNCHANGED <<device, live, client>>
  PROVE  IInv'
<1> USE DEF IInv, device, client
<1>1. a \in Addrs /\ a # NULL /\ live \subseteq Addrs
  BY InputAssumption DEF TypeOK, StreamChange
<1>2. /\ stream'[a] = t
      /\ \A b \in live \ {a} : stream'[b] = stream[b]
  BY <1>1 DEF TypeOK, StreamChange, SetStream
<1>3. \A b \in live : /\ stream'[b].muted = stream[b].muted
                     /\ stream'[b].pcm = stream[b].pcm
  BY <1>2 DEF StreamChange
<1>4. TableLive' /\ Ownership'
  BY <1>3 DEF TableLive, Ownership, ClientsOwnStreams, HoldersDiffer, Registered
<1>5. MicMute'
  <2>1. Registered \subseteq live
    BY DEF TypeOK, Registered
  <2> QED
    BY <1>3, <2>1
    DEF MicMute, RegisteredFollowMute, MicSwept, DeviceLocked, Registered
<1>6. StandbyIffClosed'
  BY <1>2 DEF StreamChange, Handles, StandbyIffClosed
<1>7. PcmAccounting' /\ HardwareRate'
  <2>1. /\ pcm_user \in [Pcms -> Addrs \cup {NULL}]
        /\ pcm_rate \in [Pcms -> Rates]
        /\ \A b \in live : stream[b] \in Stream
        /\ a \in live /\ t \in Stream /\ t.pcm = stream[a].pcm
        /\ t.pcm \in Pcms
    BY DEF TypeOK, StreamChange, Stream
  <2>2. /\ \A p \in Pcms, b \in Addrs :
             pcm_user[p] = b
               <=> b \in live /\ stream[b].pcm = p /\ stream[b].p_handle = "open"
        /\ \A b \in live :
             ~stream[b].standby => pcm_rate[stream[b].pcm] = stream[b].rate
        /\ \A b \in live : stream[b].standby <=> stream[b].p_handle # "open"
    BY DEF Handles, PcmAccounting, HardwareRate, StandbyIffClosed
  <2>3. CASE /\ t.p_handle = "open" <=> stream[a].p_handle = "open"
             /\ ~t.standby => t.rate = stream[a].rate
             /\ UNCHANGED pcms
    <3>1. PcmAccounting'
      BY <1>2, <2>1, <2>2, <2>3 DEF PcmAccounting, pcms
    <3>2. t.standby <=> stream[a].standby
      BY <2>1, <2>2, <2>3 DEF StreamChange
    <3>3. HardwareRate'
      BY <1>2, <2>1, <2>2, <2>3, <3>2 DEF HardwareRate, pcms
    <3> QED
      BY <3>1, <3>3
  <2>4. CASE t.p_handle # "open" /\ pcm_close({a})
    <3>1. \A p \in Pcms :
            pcm_user'[p] = IF stream[a].p_handle = "open" /\ stream[a].pcm = p
                           THEN NULL ELSE pcm_user[p]
      BY <2>4 DEF pcm_close
    <3>2. PcmAccounting'
      BY <1>1, <1>2, <2>1, <2>2, <2>4, <3>1, InputAssumption DEF PcmAccounting
    <3>3. HardwareRate'
      BY <1>2, <2>1, <2>2, <2>4 DEF HardwareRate, pcm_close, StreamChange
    <3> QED
      BY <3>2, <3>3
  <2>5. CASE /\ stream[a].p_handle # "open"
             /\ t.p_handle = "open"
             /\ pcm_open(a, t)
    <3>1. /\ pcm_user[t.pcm] = NULL
          /\ \A p \in Pcms :
               /\ pcm_user'[p] = IF p = t.pcm THEN a ELSE pcm_user[p]
               /\ pcm_rate'[p] = IF p = t.pcm THEN t.rate ELSE pcm_rate[p]
      BY <2>1, <2>5 DEF pcm_open
    <3>2. \A b \in live : stream[b].p_handle = "open" => stream[b].pcm # t.pcm
      BY <1>1, <2>1, <2>2, <3>1, InputAssumption
    <3>3. PcmAccounting'
      BY <1>1, <1>2, <2>1, <2>2, <2>5, <3>1, <3>2 DEF PcmAccounting
    <3>4. HardwareRate'
      <4> SUFFICES ASSUME NEW b \in live, ~stream'[b].standby
                   PROVE  pcm_rate'[stream'[b].pcm] = stream'[b].rate
        BY DEF HardwareRate
      <4>1. CASE b = a
        BY <1>2, <2>1, <3>1, <4>1
      <4>2. CASE b # a
        <5>1. stream'[b] = stream[b] /\ stream[b].pcm \in Pcms
          BY <1>2, <2>1, <4>2 DEF Stream
        <5>2. stream[b].pcm # t.pcm
          BY <2>2, <3>2, <5>1
        <5> QED
          BY <2>2, <3>1, <5>1, <5>2
      <4> QED
        BY <4>1, <4>2
    <3> QED
      BY <3>3, <3>4
  <2> QED
    BY <2>3, <2>4, <2>5 DEF StreamChange
<1> QED
  BY <1>4, <1>5, <1>6, <1>7 DEF Handles

\* Every stream call preserves the invariant.
LEMMA InvStreamCall ==
  ASSUME IInv, NEW c \in Clients, StreamCall(c)
  PROVE  IInv'
<1> DEFINE a == held[c]
           s == stream[a]
<1>1. TypeOK'
  BY TypeStreamCall DEF IInv
<1>2. phase[c] = "open" /\ UNCHANGED <<device, live, client>>
  BY DEF StreamCall, InReadReopens, InReadReopenFails, InStandby, InSetParameters
<1>3. /\ a \in live /\ s \in Stream
      /\ s.standby <=> s.p_handle # "open"
  BY <1>2
  DEF IInv, TypeOK, Ownership, ClientsOwnStreams, Handles, StandbyIffClosed
\* It is enough to say how a call changes the stream.
<1>4. ASSUME NEW t, StreamChange(a, t) PROVE IInv'
  BY <1>1, <1>2, <1>4, StreamChangeKeeps
<1>5. CASE InReadReopens(c)
  <2> DEFINE t == [s EXCEPT !.p_handle = "open", !.standby = FALSE]
  <2>1. /\ t \in Stream /\ t.p_handle = "open" /\ ~t.standby
        /\ t.pcm = s.pcm /\ t.rate = s.rate /\ t.muted = s.muted
    BY <1>3 DEF Stream
  <2>2. pcm_open(a, t)
    BY <1>5, <2>1 DEF InReadReopens, pcm_open
  <2> HIDE DEF t
  <2>3. StreamChange(a, t)
    BY <1>3, <1>5, <2>1, <2>2 DEF InReadReopens, StreamChange, t
  <2> QED
    BY <1>4, <2>3
<1>6. CASE InReadReopenFails(c)
  <2>1. PICK h \in {"null", "freed"} : SetStream(a, ReopenFailed(s, h))
    BY <1>6 DEF InReadReopenFails
  <2> DEFINE t == ReopenFailed(s, h)
  <2>2. /\ t \in Stream /\ t.p_handle # "open" /\ t.standby = s.standby
        /\ t.pcm = s.pcm /\ t.rate = s.rate /\ t.muted = s.muted
    BY <1>3 DEF Stream, ReopenFailed
  <2>3. s.standby /\ UNCHANGED pcms
    BY <1>6 DEF InReadReopenFails
  <2>4. StreamChange(a, t)
    BY <1>3, <2>1, <2>2, <2>3 DEF StreamChange
  <2> QED
    BY <1>4, <2>4
<1>7. CASE InStandby(c)
  <2> DEFINE t == in_standby(s)
  <2>1. /\ t \in Stream /\ t.p_handle # "open" /\ t.standby
        /\ t.pcm = s.pcm /\ t.rate = s.rate /\ t.muted = s.muted
    BY <1>3 DEF Stream, in_standby
  <2>2. StreamChange(a, t)
    BY <1>3, <1>7, <2>1 DEF InStandby, StreamChange
  <2> QED
    BY <1>4, <2>2
<1>8. ASSUME NEW rate \in Rates, InSetParameters(c, rate) PROVE IInv'
  <2> DEFINE t == [s EXCEPT !.rate = rate]
  <2>1. /\ t \in Stream /\ t.p_handle = s.p_handle /\ t.standby = s.standby
        /\ t.pcm = s.pcm /\ t.muted = s.muted
    BY <1>3 DEF Stream
  <2>2. s.standby /\ SetStream(a, t) /\ UNCHANGED pcms
    BY <1>8 DEF InSetParameters, MayChangeParameters
  <2>3. StreamChange(a, t)
    BY <1>3, <2>1, <2>2 DEF StreamChange
  <2> QED
    BY <1>4, <2>3
<1> QED
  BY <1>5, <1>6, <1>7, <1>8 DEF StreamCall

\* Destroying registered streams leaves the table, the handles and the mute of
\* the others consistent.
LEMMA DestroyKeeps ==
  ASSUME IInv, NEW D, D \subseteq Registered, DestroyStreams(D),
         UNCHANGED <<mic_is_muted, mic_i>>
  PROVE  /\ TableLive' /\ Handles' /\ MicMute'
         /\ Registered' = Registered \ D
<1> USE DEF IInv
<1>1. /\ D \subseteq live /\ NULL \notin D /\ Registered \subseteq live
      /\ live \subseteq Addrs
  BY InputAssumption DEF TypeOK, Registered
<1>2. /\ live' = live \ D
      /\ stream' = [a \in live \ D |-> stream[a]]
      /\ \A i \in InSlots :
           xin_streams'[i] = IF xin_streams[i] \in D THEN NULL ELSE xin_streams[i]
  BY DEF DestroyStreams, SlotsWithout
<1>3. Registered' = Registered \ D
  BY <1>1, <1>2 DEF Registered
<1>4. TableLive'
  BY <1>2 DEF TableLive
<1>5. StandbyIffClosed' /\ HardwareRate'
  BY <1>2
  DEF Handles, StandbyIffClosed, HardwareRate, DestroyStreams, pcm_close
<1>6. PcmAccounting'
  <2> SUFFICES ASSUME NEW p \in Pcms, NEW b \in Addrs
               PROVE  pcm_user'[p] = b
                        <=> /\ b \in live'
                            /\ stream'[b].pcm = p /\ stream'[b].p_handle = "open"
    BY DEF PcmAccounting
  <2>1. pcm_user'[p] =
          IF \E a \in D : stream[a].p_handle = "open" /\ stream[a].pcm = p
          THEN NULL ELSE pcm_user[p]
    BY DEF DestroyStreams, pcm_close, Closes
  <2>2. \A d \in Addrs :
          pcm_user[p] = d
            <=> d \in live /\ stream[d].pcm = p /\ stream[d].p_handle = "open"
    BY DEF Handles, PcmAccounting
  <2>3. CASE \E a \in D : stream[a].p_handle = "open" /\ stream[a].pcm = p
    BY <1>1, <1>2, <2>1, <2>2, <2>3, InputAssumption
  <2>4. CASE ~\E a \in D : stream[a].p_handle = "open" /\ stream[a].pcm = p
    BY <1>1, <1>2, <2>1, <2>2, <2>4
  <2> QED
    BY <2>3, <2>4
<1>7. MicMute'
  BY <1>1, <1>2, <1>3
  DEF MicMute, RegisteredFollowMute, MicSwept, DeviceLocked
<1> QED
  BY <1>3, <1>4, <1>5, <1>6, <1>7 DEF Handles

LEMMA InvOpen ==
  ASSUME IInv, NEW c \in Clients, NEW slot \in InSlots,
         AdevOpenInputStream(c, slot), TypeOK'
  PROVE  IInv'
<1> USE DEF IInv
<1>1. PICK a \in Allocatable, rate \in SupportedRates :
        LET s == Opened(slot, rate)
        IN  /\ pcm_open(a, s)
            /\ live' = live \cup {a}
            /\ stream' = [b \in live \cup {a} |->
                            IF b = a THEN s ELSE stream[b]]
            /\ xin_streams' = [xin_streams EXCEPT ![slot] = a]
            /\ held' = [held EXCEPT ![c] = a]
  BY DEF AdevOpenInputStream
<1> DEFINE s == Opened(slot, rate)
<1>2. /\ s \in Stream /\ s.muted = mic_is_muted /\ s.pcm = InPcm[slot]
      /\ s.p_handle = "open" /\ ~s.standby /\ s.rate = rate
      /\ s.pcm \in Pcms
  BY NewStream, InputAssumption DEF TypeOK
<1> HIDE DEF s
<1>3. /\ a \in Addrs \ live /\ a # NULL /\ live \subseteq Addrs
      /\ \A d \in Clients : phase[d] = "stale" => held[d] # a
  BY InputAssumption DEF Allocatable, TypeOK
<1>4. /\ phase[c] = "closed" /\ phase' = [phase EXCEPT ![c] = "open"]
      /\ UNCHANGED <<mic_is_muted, mic_i>> /\ ~DeviceLocked
      /\ xin_streams[slot] = NULL
  BY DEF AdevOpenInputStream, SlotFree
<1>5. /\ pcm_user[s.pcm] = NULL
      /\ pcm_user' = [pcm_user EXCEPT ![s.pcm] = a]
      /\ pcm_rate' = [pcm_rate EXCEPT ![s.pcm] = s.rate]
      /\ live' = live \cup {a}
      /\ stream' = [b \in live \cup {a} |-> IF b = a THEN s ELSE stream[b]]
  BY <1>1 DEF pcm_open, s
<1>6. Registered \subseteq live /\ Registered' = Registered \cup {a}
  <2>1. Registered \subseteq live
    BY DEF TypeOK, Registered
  <2>2. \A i \in InSlots :
          xin_streams'[i] = IF i = slot THEN a ELSE xin_streams[i]
    BY <1>1 DEF TypeOK
  <2> QED
    BY <1>3, <1>4, <2>1, <2>2 DEF Registered
<1>7. TableLive'
  BY <1>1, <1>2, <1>3, <1>5 DEF TypeOK, TableLive
<1>8. Ownership'
  <2>1. \A d \in Clients : /\ held'[d] = IF d = c THEN a ELSE held[d]
                          /\ phase'[d] = IF d = c THEN "open" ELSE phase[d]
    BY <1>1, <1>4 DEF TypeOK
  <2>2. \A d \in Clients : phase[d] # "closed" => held[d] # a
    BY <1>3 DEF TypeOK, Ownership, ClientsOwnStreams
  <2>3. HoldersDiffer'
    BY <1>4, <2>1, <2>2 DEF Ownership, HoldersDiffer
  <2>4. ClientsOwnStreams'
    BY <1>4, <1>5, <1>6, <2>1, <2>2 DEF Ownership, ClientsOwnStreams
  <2> QED
    BY <2>3, <2>4 DEF Ownership
<1>9. MicMute'
  BY <1>2, <1>3, <1>4, <1>5, <1>6
  DEF MicMute, RegisteredFollowMute, MicSwept, DeviceLocked
<1>10. StandbyIffClosed'
  BY <1>2, <1>3, <1>5 DEF Handles, StandbyIffClosed
<1>11. /\ \A p \in Pcms, b \in Addrs :
            pcm_user[p] = b
              <=> b \in live /\ stream[b].pcm = p /\ stream[b].p_handle = "open"
       /\ \A b \in live : stream[b].p_handle = "open" => stream[b].pcm # s.pcm
       /\ \A b \in live : ~stream[b].standby => stream[b].pcm # s.pcm
  <2>1. \A p \in Pcms, b \in Addrs :
          pcm_user[p] = b
            <=> b \in live /\ stream[b].pcm = p /\ stream[b].p_handle = "open"
    BY DEF Handles, PcmAccounting
  <2>2. \A b \in live : stream[b].p_handle = "open" => stream[b].pcm # s.pcm
    BY <1>2, <1>3, <1>5, <2>1, InputAssumption
  <2>3. \A b \in live : ~stream[b].standby => stream[b].p_handle = "open"
    BY DEF Handles, StandbyIffClosed
  <2> QED
    BY <2>1, <2>2, <2>3
<1>12. PcmAccounting'
  <2> SUFFICES ASSUME NEW p \in Pcms, NEW b \in Addrs
               PROVE  pcm_user'[p] = b
                        <=> /\ b \in live'
                            /\ stream'[b].pcm = p /\ stream'[b].p_handle = "open"
    BY DEF PcmAccounting
  <2>1. pcm_user'[p] = IF p = s.pcm THEN a ELSE pcm_user[p]
    BY <1>5 DEF TypeOK
  <2>2. CASE b = a
    BY <1>2, <1>3, <1>5, <1>11, <2>1, <2>2
  <2>3. CASE b # a
    BY <1>2, <1>5, <1>11, <2>1, <2>3, InputAssumption
  <2> QED
    BY <2>2, <2>3
<1>13. HardwareRate'
  <2> SUFFICES ASSUME NEW b \in live', ~stream'[b].standby
               PROVE  pcm_rate'[stream'[b].pcm] = stream'[b].rate
    BY DEF HardwareRate
  <2>1. CASE b = a
    BY <1>2, <1>5, <2>1 DEF TypeOK
  <2>2. CASE b # a
    <3>1. b \in live /\ stream'[b] = stream[b] /\ stream[b].pcm \in Pcms
      BY <1>5, <2>2 DEF TypeOK, Stream
    <3> QED
      BY <1>5, <1>11, <3>1 DEF TypeOK, Handles, HardwareRate
  <2> QED
    BY <2>1, <2>2
<1> QED
  BY <1>7, <1>8, <1>9, <1>10, <1>12, <1>13 DEF Handles

\* Every device call preserves the invariant.
LEMMA InvDeviceCall == IInv /\ DeviceCall => IInv'
<1> SUFFICES ASSUME IInv, DeviceCall PROVE IInv'
  OBVIOUS
<1> USE DEF IInv, client, pcms
<1>1. TypeOK'
  BY TypeDeviceCall
<1>2. ASSUME NEW c \in Clients, NEW slot \in InSlots,
             AdevOpenInputStream(c, slot)
      PROVE  IInv'
  BY <1>1, <1>2, InvOpen
<1>3. ASSUME NEW c \in Clients, AdevCloseInputStream(c) PROVE IInv'
  <2> DEFINE D == Registered \cap {held[c]}
  <2>1. /\ TableLive' /\ Handles' /\ MicMute' /\ Registered' = Registered \ D
        /\ live' = live \ D
    BY <1>3, DestroyKeeps DEF AdevCloseInputStream, DestroyStreams
  <2>2. \A d \in Clients :
          /\ phase'[d] = IF d = c THEN "closed" ELSE phase[d]
          /\ d # c => held'[d] = held[d]
    BY <1>3 DEF AdevCloseInputStream, TypeOK
  <2>3. \A d \in Clients : phase[d] = "open" /\ held[d] = held[c] => d = c
    BY <1>3 DEF AdevCloseInputStream, Ownership, HoldersDiffer
  <2>4. Ownership'
    BY <2>1, <2>2, <2>3 DEF Ownership, ClientsOwnStreams, HoldersDiffer
  <2> QED
    BY <1>1, <2>1, <2>4
<1>4. CASE AdevSetParametersRestarting
  <2>1. TableLive' /\ Handles' /\ MicMute' /\ Registered' = {}
    BY <1>4, DestroyKeeps DEF AdevSetParametersRestarting
  <2>2. ASSUME NEW d \in Clients
        PROVE  /\ phase'[d] # "open"
               /\ phase'[d] # "closed" => phase[d] # "closed"
    BY <1>4 DEF AdevSetParametersRestarting
  <2>3. held' = held
    BY <1>4 DEF AdevSetParametersRestarting
  <2>4. Ownership'
    <3>1. ClientsOwnStreams'
      BY <2>1, <2>2 DEF ClientsOwnStreams
    <3>2. HoldersDiffer'
      BY <2>2, <2>3 DEF Ownership, HoldersDiffer
    <3> QED
      BY <3>1, <3>2 DEF Ownership
  <2> QED
    BY <1>1, <2>1, <2>4
<1>5. ASSUME NEW mute \in BOOLEAN, AdevSetMicMute(mute) PROVE IInv'
  <2>1. MicMute'
    <3>1. mic_i' = 0 /\ UNCHANGED <<xin_streams, stream>>
      BY <1>5 DEF AdevSetMicMute
    <3>2. CASE NumIn = 0
      BY <3>1, <3>2 DEF MicMute, RegisteredFollowMute, MicSwept, Registered, InSlots
    <3>3. CASE NumIn # 0
      BY <3>1, <3>3, InputAssumption
      DEF MicMute, RegisteredFollowMute, MicSwept, DeviceLocked, InSlots
    <3> QED
      BY <3>2, <3>3
  <2>2. TableLive' /\ Ownership' /\ Handles'
    BY <1>5
    DEF AdevSetMicMute, TableLive, Ownership, ClientsOwnStreams, HoldersDiffer,
        Registered, Handles, PcmAccounting, StandbyIffClosed, HardwareRate
  <2> QED
    BY <1>1, <2>1, <2>2
<1>6. CASE MicMuteNext
  <2>1. /\ mic_i \in InSlots /\ mic_i' = mic_i + 1
        /\ UNCHANGED <<mic_is_muted, live, pcms, client>>
    BY <1>6, InputAssumption DEF MicMuteNext, DeviceLocked, TypeOK, InSlots
  <2>2. \A i \in InSlots :
          xin_streams'[i] = IF i = mic_i THEN NULL ELSE xin_streams[i]
    BY <1>6, <2>1 DEF MicMuteNext, TypeOK
  <2>3. \A b \in live : /\ stream'[b].pcm = stream[b].pcm
                       /\ stream'[b].p_handle = stream[b].p_handle
                       /\ stream'[b].standby = stream[b].standby
                       /\ stream'[b].rate = stream[b].rate
    <3>1. CASE xin_streams[mic_i] = NULL
      BY <1>6, <3>1 DEF MicMuteNext
    <3>2. CASE xin_streams[mic_i] # NULL
      BY <1>6, <2>1, <3>2 DEF MicMuteNext, TypeOK, in_set_mute, Stream
    <3> QED
      BY <3>1, <3>2
  <2>4. TableLive' /\ Handles'
    BY <2>1, <2>2, <2>3
    DEF TableLive, Handles, PcmAccounting, StandbyIffClosed, HardwareRate, TypeOK
  <2>5. Ownership'
    BY <2>1, <2>2 DEF Registered, Ownership, ClientsOwnStreams, HoldersDiffer
  <2>6. \A i \in InSlots : i < mic_i' => xin_streams'[i] = NULL
    <3> SUFFICES ASSUME NEW i \in InSlots, i < mic_i + 1
                 PROVE  xin_streams'[i] = NULL
      BY <2>1
    <3>1. i < mic_i \/ i = mic_i
      BY <2>1, InputAssumption DEF InSlots
    <3>2. i < mic_i => xin_streams[i] = NULL
      BY <1>6 DEF MicMuteNext, MicMute, MicSwept
    <3> QED
      BY <2>2, <3>1, <3>2
  <2>7. MicMute'
    <3>1. CASE DeviceLocked'
      BY <2>6, <3>1 DEF MicMute, MicSwept, RegisteredFollowMute
    <3>2. CASE ~DeviceLocked'
      <4>1. Registered' = {}
        BY <2>1, <2>6, <3>2, InputAssumption DEF DeviceLocked, InSlots, Registered
      <4> QED
        BY <3>2, <4>1 DEF MicMute, MicSwept, RegisteredFollowMute
    <3> QED
      BY <3>1, <3>2
  <2> QED
    BY <1>1, <2>4, <2>5, <2>7
<1> QED
  BY <1>2, <1>3, <1>4, <1>5, <1>6 DEF DeviceCall

LEMMA InvStep == IInv /\ [Next]_vars => IInv'
<1>1. ASSUME IInv, UNCHANGED vars PROVE IInv'
  <2> USE DEF vars, IInv
  <2>1. TypeOK' /\ TableLive'
    BY <1>1 DEF TypeOK, TableLive
  <2>2. Ownership'
    BY <1>1 DEF Ownership, ClientsOwnStreams, HoldersDiffer, Registered
  <2>3. Handles'
    BY <1>1 DEF Handles, PcmAccounting, StandbyIffClosed, HardwareRate
  <2>4. MicMute'
    BY <1>1 DEF MicMute, RegisteredFollowMute, MicSwept, DeviceLocked, Registered
  <2> QED
    BY <2>1, <2>2, <2>3, <2>4
<1> QED
  BY <1>1, InvDeviceCall, InvStreamCall DEF Next

LEMMA Invariance == Spec => []IInv
<1>1. IInv /\ [Next]_vars => IInv'
  BY InvStep
<1> QED
  BY <1>1, InvInit, PTL DEF Spec
-----------------------------------------------------------------------------
(***************************************************************************)
(* What the invariant says.                                                *)
(***************************************************************************)

\* Each slot names an allocated stream that records from the slot's PCM, and no
\* two slots name one stream: neither a close, nor a restart, nor a microphone
\* mute leaves a dangling pointer or a stream in a wrong place.
THEOREM TableIsLive == Spec => []TableLive
<1>1. IInv => TableLive
  BY DEF IInv
<1> QED
  BY <1>1, Invariance, PTL

\* A client's stream is its own and stays allocated until the client closes it,
\* although adev_set_mic_mute() drops it from the table.
THEOREM StreamsOwned == Spec => []ClientsOwnStreams
<1>1. IInv => ClientsOwnStreams
  BY DEF IInv, Ownership
<1> QED
  BY <1>1, Invariance, PTL

\* in_read(), in_standby() and in_destroy() account for every PCM: it is open
\* exactly when an allocated stream's handle has it open.
THEOREM PcmsAccounted == Spec => []PcmAccounting
<1>1. IInv => PcmAccounting
  BY DEF IInv, Handles
<1> QED
  BY <1>1, Invariance, PTL

\* Whenever a stream is on, its handle is open: in_read() does not use the
\* closed handle that a failed reopening left behind.
THEOREM HandlesExact == Spec => []StandbyIffClosed
<1>1. IInv => StandbyIffClosed
  BY DEF IInv, Handles
<1> QED
  BY <1>1, Invariance, PTL

\* in_get_sample_rate() tells the rate the PCM runs at: in_set_parameters()
\* changes it only in standby, and no other stream reconfigures an open PCM.
THEOREM RateExact == Spec => []HardwareRate
<1>1. IInv => HardwareRate
  BY DEF IInv, Handles
<1> QED
  BY <1>1, Invariance, PTL

\* When adev_set_mic_mute() has returned, no registered stream has a state of
\* its own.
THEOREM MuteFollowed == Spec => []RegisteredFollowMute
<1>1. IInv => RegisteredFollowMute
  BY DEF IInv, MicMute
<1> QED
  BY <1>1, Invariance, PTL
-----------------------------------------------------------------------------
(***************************************************************************)
(* What goes wrong goes wrong for one reason.  RestartClosesAll is false,  *)
(* and the input slots do not keep the promise of ExclusiveSlots, because  *)
(* adev_set_mic_mute() clears the slots of the streams it mutes.           *)
(***************************************************************************)

\* Nobody mutes or unmutes the microphone.
NoMicMute == \A mute \in BOOLEAN : ~AdevSetMicMute(mute)

\* Every stream is in the table, and no mute walks through it.
AllRegistered == live = Registered /\ ~DeviceLocked

\* Opening a stream enters it, and it only.
LEMMA OpenRegisters ==
  ASSUME IInv, NEW c \in Clients, NEW slot \in InSlots,
         AdevOpenInputStream(c, slot)
  PROVE  \E a \in Addrs \ live :
           /\ a # NULL
           /\ live' = live \cup {a}
           /\ Registered' = Registered \cup {a}
           /\ \A i \in InSlots :
                xin_streams'[i] = IF i = slot THEN a ELSE xin_streams[i]
           /\ xin_streams[slot] = NULL
           /\ phase[c] = "closed"
           /\ \A d \in Clients :
                /\ phase'[d] = IF d = c THEN "open" ELSE phase[d]
                /\ held'[d] = IF d = c THEN a ELSE held[d]
<1>1. PICK a \in Allocatable :
        /\ live' = live \cup {a}
        /\ xin_streams' = [xin_streams EXCEPT ![slot] = a]
        /\ held' = [held EXCEPT ![c] = a]
  BY DEF AdevOpenInputStream
<1>2. a \in Addrs \ live /\ a # NULL
  BY InputAssumption DEF Allocatable
<1>3. /\ phase[c] = "closed" /\ xin_streams[slot] = NULL
      /\ phase' = [phase EXCEPT ![c] = "open"]
  BY DEF AdevOpenInputStream, SlotFree
<1>4. \A i \in InSlots : xin_streams'[i] = IF i = slot THEN a ELSE xin_streams[i]
  BY <1>1 DEF IInv, TypeOK
<1>5. Registered' = Registered \cup {a}
  BY <1>2, <1>3, <1>4 DEF Registered
<1>6. \A d \in Clients : /\ phase'[d] = IF d = c THEN "open" ELSE phase[d]
                        /\ held'[d] = IF d = c THEN a ELSE held[d]
  BY <1>1, <1>3 DEF IInv, TypeOK
<1> QED
  BY <1>1, <1>2, <1>3, <1>4, <1>5, <1>6

\* Stream calls leave the table and its clients alone.
LEMMA StreamCallFrame ==
  ASSUME NEW c \in Clients, StreamCall(c)
  PROVE  UNCHANGED <<xin_streams, mic_is_muted, mic_i, live, phase, held>>
BY DEF StreamCall, InReadReopens, InReadReopenFails, InStandby, InSetParameters,
       device, client

\* Without a microphone mute every stream stays in the table.
LEMMA RegisteredStep ==
  IInv /\ AllRegistered /\ [Next]_vars /\ [NoMicMute]_vars => AllRegistered'
<1>1. ASSUME AllRegistered, UNCHANGED <<xin_streams, mic_i, live>> PROVE AllRegistered'
  BY <1>1 DEF AllRegistered, Registered, DeviceLocked
<1>2. ASSUME IInv, AllRegistered, Next, NoMicMute PROVE AllRegistered'
  <2> USE <1>2 DEF AllRegistered
  <2>1. ASSUME NEW c \in Clients, NEW slot \in InSlots, AdevOpenInputStream(c, slot)
        PROVE  AllRegistered'
    <3>1. mic_i' = mic_i
      BY <2>1 DEF AdevOpenInputStream
    <3>2. PICK a \in Addrs \ live :
            live' = live \cup {a} /\ Registered' = Registered \cup {a}
      BY <2>1, OpenRegisters
    <3> QED
      BY <3>1, <3>2 DEF DeviceLocked
  <2>2. ASSUME NEW D, D \subseteq Registered, DestroyStreams(D),
               UNCHANGED <<mic_is_muted, mic_i>>
        PROVE  AllRegistered'
    <3>1. Registered' = Registered \ D /\ live' = live \ D
      BY <2>2, DestroyKeeps DEF DestroyStreams
    <3> QED
      BY <2>2, <3>1 DEF DeviceLocked
  <2>3. ASSUME NEW c \in Clients, AdevCloseInputStream(c) PROVE AllRegistered'
    BY <2>2, <2>3 DEF AdevCloseInputStream
  <2>4. ASSUME AdevSetParametersRestarting PROVE AllRegistered'
    BY <2>2, <2>4 DEF AdevSetParametersRestarting
  <2>5. ~MicMuteNext
    BY DEF MicMuteNext
  <2>6. ASSUME NEW c \in Clients, StreamCall(c) PROVE AllRegistered'
    BY <1>1, <2>6, StreamCallFrame
  <2> QED
    BY <2>1, <2>3, <2>4, <2>5, <2>6 DEF Next, DeviceCall, NoMicMute
<1> QED
  BY <1>1, <1>2 DEF vars

LEMMA RegisteredInit == Init => AllRegistered
BY InputAssumption DEF Init, AllRegistered, Registered, DeviceLocked

LEMMA AllStayRegistered == Spec /\ [][NoMicMute]_vars => []AllRegistered
<1> QED
  BY RegisteredInit, RegisteredStep, Invariance, PTL DEF Spec

\* When all streams are in the table a restart destroys them all.
LEMMA RestartStep ==
  ASSUME IInv, AllRegistered, [Next]_vars, NEW c \in Clients,
         phase[c] = "open", phase'[c] = "stale"
  PROVE  live' = {}
<1>1. phase \in [Clients -> {"closed", "open", "stale"}]
  BY DEF IInv, TypeOK
<1>2. ASSUME NEW d \in Clients, NEW slot \in InSlots, AdevOpenInputStream(d, slot)
      PROVE  FALSE
  BY <1>1, <1>2 DEF AdevOpenInputStream
<1>3. ASSUME NEW d \in Clients, AdevCloseInputStream(d) PROVE FALSE
  BY <1>1, <1>3 DEF AdevCloseInputStream
<1>4. ASSUME AdevSetParametersRestarting PROVE live' = {}
  BY <1>4 DEF AdevSetParametersRestarting, DestroyStreams, AllRegistered
<1>5. ASSUME NEW mute \in BOOLEAN, AdevSetMicMute(mute) \/ MicMuteNext PROVE FALSE
  BY <1>5 DEF AdevSetMicMute, MicMuteNext, client
<1>6. ASSUME NEW d \in Clients, StreamCall(d) PROVE FALSE
  BY <1>6, StreamCallFrame
<1>7. ASSUME UNCHANGED vars PROVE FALSE
  BY <1>7 DEF vars
<1> QED
  BY <1>2, <1>3, <1>4, <1>5, <1>6, <1>7 DEF Next, DeviceCall

\* "audioserver is restarting, so close all streams" is what happens, unless
\* the microphone was muted or unmuted: no other sequence of calls hides a
\* stream from the restart.
THEOREM RestartCloses == Spec /\ [][NoMicMute]_vars => RestartClosesAll
<1> DEFINE Closed ==
      (\E c \in Clients : phase[c] = "open" /\ phase'[c] = "stale") => live' = {}
<1>1. IInv /\ AllRegistered /\ [Next]_vars => [Closed]_vars
  BY RestartStep
<1> QED
  BY <1>1, Invariance, AllStayRegistered, PTL DEF Spec, RestartClosesAll

-----------------------------------------------------------------------------
(***************************************************************************)
(* The input slots and ExclusiveSlots.                                     *)
(***************************************************************************)
Users == {c \in Clients : phase[c] = "open"}

Owns ==
  {o \in InSlots \X Clients :
     phase[o[2]] = "open" /\ xin_streams[o[1]] = held[o[2]]}

\* A slot is a client's while it holds the address of the stream the client has
\* open.
Exclusive ==
  INSTANCE ExclusiveSlots WITH Slots <- InSlots, users <- Users, owns <- Owns

ExclusiveSpec == Exclusive!Spec

\* A pair is in Owns when its client has the stream in its slot open.
LEMMA InOwns ==
  ASSUME NEW slot \in InSlots, NEW c \in Clients
  PROVE  /\ <<slot, c>> \in Owns
              <=> phase[c] = "open" /\ xin_streams[slot] = held[c]
         /\ <<slot, c>> \in Owns'
              <=> phase'[c] = "open" /\ xin_streams'[slot] = held'[c]
BY DEF Owns

\* A client's stream exists and is at an address, and the table names no other.
LEMMA HeldStreams ==
  ASSUME IInv
  PROVE  /\ \A d \in Clients : phase[d] = "open" => held[d] \in live /\ held[d] # NULL
         /\ \A i \in InSlots : xin_streams[i] \in live \cup {NULL}
BY InputAssumption DEF IInv, Ownership, ClientsOwnStreams, TypeOK

\* Opening a stream gives a slot nobody had to a client that had none.
LEMMA RefineOpen ==
  ASSUME IInv, NEW c \in Clients, NEW slot \in InSlots,
         AdevOpenInputStream(c, slot)
  PROVE  Exclusive!Open(c, slot)
<1>1. PICK a \in Addrs \ live :
        /\ a # NULL
        /\ \A i \in InSlots :
             xin_streams'[i] = IF i = slot THEN a ELSE xin_streams[i]
        /\ xin_streams[slot] = NULL
        /\ phase[c] = "closed"
        /\ \A d \in Clients :
             /\ phase'[d] = IF d = c THEN "open" ELSE phase[d]
             /\ held'[d] = IF d = c THEN a ELSE held[d]
  BY OpenRegisters
<1>2. \A d \in Clients : <<slot, d>> \notin Owns
  BY <1>1, HeldStreams, InOwns
<1>3. Users' = Users \cup {c} /\ c \notin Users
  BY <1>1 DEF Users
<1>4. ASSUME NEW i \in InSlots, NEW d \in Clients
      PROVE  <<i, d>> \in Owns' <=> <<i, d>> \in Owns \/ <<i, d>> = <<slot, c>>
  <2>1. CASE d = c
    BY <1>1, <2>1, HeldStreams, InOwns
  <2>2. CASE d # c
    BY <1>1, <2>2, HeldStreams, InOwns
  <2> QED
    BY <2>1, <2>2
<1>5. Owns' = Owns \cup {<<slot, c>>}
  BY <1>4 DEF Owns
<1> QED
  BY <1>2, <1>3, <1>5 DEF Exclusive!Open

\* Closing takes the slot of the client's open stream back; the late close of a
\* stale stream leaves all slots alone.
LEMMA RefineClose ==
  ASSUME IInv, NEW c \in Clients, AdevCloseInputStream(c)
  PROVE  Exclusive!Close(c) \/ UNCHANGED <<Users, Owns>>
<1> DEFINE D == Registered \cap {held[c]}
<1>1. /\ \A i \in InSlots :
           xin_streams'[i] = IF xin_streams[i] \in D THEN NULL ELSE xin_streams[i]
      /\ phase[c] # "closed" /\ phase'[c] = "closed"
      /\ \A d \in Clients \ {c} : phase'[d] = phase[d] /\ held'[d] = held[d]
  BY DEF AdevCloseInputStream, DestroyStreams, SlotsWithout, IInv, TypeOK
<1>2. \A d \in Clients \ {c} : phase[d] = "open" => held[d] \notin D
  BY <1>1 DEF IInv, Ownership, HoldersDiffer
<1>3. ASSUME NEW i \in InSlots, NEW d \in Clients
      PROVE  <<i, d>> \in Owns' <=> <<i, d>> \in Owns /\ d # c
  <2>1. CASE d = c
    BY <1>1, <2>1, InOwns
  <2>2. CASE d # c
    <3>1. phase[d] = "open"
            => (xin_streams'[i] = held[d] <=> xin_streams[i] = held[d])
      BY <1>1, <1>2, <2>2, HeldStreams
    <3> QED
      BY <1>1, <2>2, <3>1, InOwns
  <2> QED
    BY <2>1, <2>2
<1>4. Users' = Users \ {c}
  BY <1>1 DEF Users
<1>5. Owns' = Owns \ (InSlots \X {c})
  BY <1>3 DEF Owns
<1>6. CASE phase[c] = "open"
  BY <1>4, <1>5, <1>6 DEF Exclusive!Close, Users
<1>7. CASE phase[c] # "open"
  <2>1. Users' = Users
    BY <1>4, <1>7 DEF Users
  <2>2. Owns' = Owns
    BY <1>5, <1>7, InOwns DEF Owns
  <2> QED
    BY <2>1, <2>2
<1> QED
  BY <1>6, <1>7

\* The steps that are not a microphone mute.
LEMMA RefineStep ==
  IInv /\ AllRegistered /\ [Next]_vars /\ [NoMicMute]_vars
    => [Exclusive!Next]_(Exclusive!vars)
<1>1. ASSUME UNCHANGED <<xin_streams, phase, held>> PROVE UNCHANGED <<Users, Owns>>
  BY <1>1 DEF Users, Owns
<1>2. ASSUME IInv, AllRegistered, Next, NoMicMute
      PROVE  Exclusive!Next \/ UNCHANGED <<Users, Owns>>
  <2>1. ASSUME NEW c \in Clients, NEW slot \in InSlots, AdevOpenInputStream(c, slot)
        PROVE  Exclusive!Next
    BY <1>2, <2>1, RefineOpen DEF Exclusive!Next
  <2>2. ASSUME NEW c \in Clients, AdevCloseInputStream(c)
        PROVE  Exclusive!Next \/ UNCHANGED <<Users, Owns>>
    BY <1>2, <2>2, RefineClose DEF Exclusive!Next
  <2>3. ASSUME AdevSetParametersRestarting PROVE Exclusive!Next
    <3>1. \A c \in Clients : phase'[c] # "open"
      BY <1>2, <2>3 DEF AdevSetParametersRestarting, IInv, TypeOK
    <3>2. Users' = {} /\ Owns' = {}
      BY <3>1 DEF Users, Owns
    <3> QED
      BY <3>2 DEF Exclusive!Next, Exclusive!Restart
  <2>4. ~MicMuteNext
    BY <1>2 DEF MicMuteNext, AllRegistered
  <2>5. ASSUME NEW c \in Clients, StreamCall(c) PROVE UNCHANGED <<Users, Owns>>
    BY <1>1, <2>5, StreamCallFrame
  <2> QED
    BY <1>2, <2>1, <2>2, <2>3, <2>4, <2>5 DEF Next, DeviceCall, NoMicMute
<1>3. ASSUME UNCHANGED vars PROVE UNCHANGED <<Users, Owns>>
  BY <1>1, <1>3 DEF vars
<1> QED
  BY <1>2, <1>3 DEF Exclusive!vars

\* The input slots keep the promise of ExclusiveSlots, as the output slots do,
\* as long as the microphone is neither muted nor unmuted: without that a slot
\* is a client's until it closes the stream or the audioserver restarts.
THEOREM SlotsExclusive == Spec /\ [][NoMicMute]_vars => ExclusiveSpec
<1>1. Init => Exclusive!Init
  BY DEF Init, Exclusive!Init, Users, Owns
<1> QED
  BY <1>1, RefineStep, Invariance, AllStayRegistered, PTL
  DEF Spec, ExclusiveSpec, Exclusive!Spec

-----------------------------------------------------------------------------
(***************************************************************************)
(* DestroysOnce is false because in_read() keeps a handle that is not      *)
(* ready after it closed it.                                               *)
(***************************************************************************)

\* When in_read() cannot turn the device on again it has no handle.
NoneNotReady ==
  \A c \in Clients : InReadReopenFails(c) => stream'[held[c]].p_handle # "freed"

\* No stream has a handle that is closed.
NoneFreed == \A a \in live : stream[a].p_handle # "freed"

LEMMA NoneFreedStep ==
  IInv /\ NoneFreed /\ [Next]_vars /\ [NoneNotReady]_vars => NoneFreed'
<1>1. ASSUME NoneFreed, UNCHANGED <<live, stream>> PROVE NoneFreed'
  BY <1>1 DEF NoneFreed
<1>2. ASSUME IInv, NoneFreed, Next, NoneNotReady PROVE NoneFreed'
  <2> USE <1>2 DEF NoneFreed
  <2>1. stream \in [live -> Stream] /\ mic_is_muted \in BOOLEAN
    BY DEF IInv, TypeOK
  <2>2. ASSUME NEW c \in Clients, NEW slot \in InSlots, AdevOpenInputStream(c, slot)
        PROVE  NoneFreed'
    <3>1. PICK a \in Allocatable, rate \in SupportedRates :
            /\ live' = live \cup {a}
            /\ stream' = [b \in live \cup {a} |->
                            IF b = a THEN Opened(slot, rate) ELSE stream[b]]
      BY <2>2 DEF AdevOpenInputStream
    <3>2. Opened(slot, rate).p_handle = "open"
      BY <2>1, NewStream, InputAssumption
    <3> QED
      BY <3>1, <3>2
  <2>3. ASSUME NEW D, DestroyStreams(D) PROVE NoneFreed'
    BY <2>3 DEF DestroyStreams
  <2>4. CASE MicMuteNext
    <3>1. \A s \in Stream : in_set_mute(s, mic_is_muted).p_handle = s.p_handle
      BY DEF in_set_mute, Stream
    <3> QED
      BY <2>1, <2>4, <3>1 DEF MicMuteNext
  <2>5. ASSUME NEW c \in Clients, StreamCall(c) PROVE NoneFreed'
    <3> DEFINE a == held[c]
               s == stream[a]
    <3>1. a \in live /\ s \in Stream /\ s.p_handle # "freed"
      BY <2>1, <2>5
      DEF IInv, Ownership, ClientsOwnStreams, StreamCall, InReadReopens,
          InReadReopenFails, InStandby, InSetParameters
    <3>2. ASSUME NEW t, SetStream(a, t), t.p_handle # "freed" PROVE NoneFreed'
      BY <2>1, <2>5, <3>1, <3>2, StreamCallFrame DEF SetStream
    <3>3. CASE InReadReopens(c)
      <4>1. [s EXCEPT !.p_handle = "open", !.standby = FALSE].p_handle = "open"
        BY <3>1 DEF Stream
      <4> QED
        BY <3>2, <3>3, <4>1 DEF InReadReopens
    <3>4. CASE InReadReopenFails(c)
      <4>1. PICK h \in {"null", "freed"} : SetStream(a, ReopenFailed(s, h))
        BY <3>4 DEF InReadReopenFails
      <4>2. stream'[a] = ReopenFailed(s, h) /\ stream'[a].p_handle # "freed"
        BY <2>1, <3>1, <3>4, <4>1 DEF NoneNotReady, SetStream
      <4> QED
        BY <3>2, <4>1, <4>2
    <3>5. CASE InStandby(c)
      <4>1. in_standby(s).p_handle # "freed"
        BY <3>1 DEF in_standby, Stream
      <4> QED
        BY <3>2, <3>5, <4>1 DEF InStandby
    <3>6. ASSUME NEW rate \in Rates, InSetParameters(c, rate) PROVE NoneFreed'
      <4>1. [s EXCEPT !.rate = rate].p_handle # "freed"
        BY <3>1 DEF Stream
      <4> QED
        BY <3>2, <3>6, <4>1 DEF InSetParameters
    <3> QED
      BY <2>5, <3>3, <3>4, <3>5, <3>6 DEF StreamCall
  <2>6. ASSUME NEW mute \in BOOLEAN, AdevSetMicMute(mute) PROVE NoneFreed'
    BY <1>1, <2>6 DEF AdevSetMicMute
  <2> QED
    BY <2>2, <2>3, <2>4, <2>5, <2>6
    DEF Next, DeviceCall, AdevCloseInputStream, AdevSetParametersRestarting
<1> QED
  BY <1>1, <1>2 DEF vars

\* "Free resources allocated by stream": in_destroy() closes no handle twice
\* unless pcm_open() gave in_read() one that is not ready.
THEOREM ClosedOnce == Spec /\ [][NoneNotReady]_vars => DestroysOnce
<1> DEFINE Once == \A a \in live \ live' : stream[a].p_handle # "freed"
<1>1. Init => NoneFreed
  BY DEF Init, NoneFreed
<1>2. NoneFreed /\ [Next]_vars => [Once]_vars
  BY DEF NoneFreed
<1> QED
  BY <1>1, <1>2, NoneFreedStep, Invariance, PTL DEF Spec, DestroysOnce
=============================================================================
