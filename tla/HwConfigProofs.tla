---------------------------- MODULE HwConfigProofs ----------------------------
(***************************************************************************)
(* Theorems about HwConfig, for device maps of any length, any bus numbers *)
(* and any lists of supported configurations.                              *)
(***************************************************************************)
EXTENDS HwConfig, TLAPS

\* A request that passed a check satisfies it; only an open is checked.
Checked ==
  /\ Open =>
       /\ pc \in {"device", "parse", "scan", "table"} \/ outcome = "slot"
            => IsSupported
       /\ pc \in {"parse", "scan", "table"} \/ outcome = "slot" => Direction
  /\ pc \in {"defaults", "config", "device"} => Open

\* The bus number is the address's whenever the loop needs it.
Parsed ==
  pc = "scan" /\ IsBus =>
    request.address.form = "bus" /\ bus_number = request.address.bus

\* The slot is one the request matches, or there is none.
Found ==
  /\ pc = "table" => slot \in Wanted \/ (slot = -1 /\ Unmatched)
  /\ outcome = "slot" => slot \in Wanted
  /\ pc \notin {"table", "done"} => slot = -1

\* The request for the default device without any configuration.
Plain == Open /\ request.devices = DEFAULT /\ request.config = Unspecified

DefaultFilled ==
  Plain =>
    /\ pc = "defaults" => config = Unspecified
    /\ pc = "config" => IsSupported
    /\ pc = "table" => slot = 0
    /\ pc = "done" => outcome = "slot" /\ slot = 0

IInv ==
  /\ TypeOK
  /\ pc = "done" <=> outcome # "none"
  /\ Checked /\ Parsed /\ Found
  /\ RefusedForCause
  /\ DefaultFilled

-----------------------------------------------------------------------------
\* The maps' slots, and the masks of the two directions.
LEMMA Maps ==
  /\ DOMAIN xa_output_map = 0 .. NumOut - 1
  /\ DOMAIN xa_input_map = 0 .. 2
  /\ DOMAIN map = IF Input THEN 0 .. 2 ELSE 0 .. NumOut - 1
  /\ 0 \in DOMAIN map /\ DOMAIN map \subseteq Nat
  /\ UINT_MAX \notin DOMAIN map /\ -1 \notin DOMAIN map
<1>1. /\ DOMAIN xa_output_map = 0 .. NumOut - 1 /\ DOMAIN xa_input_map = 0 .. 2
  BY DEF xa_output_map, xa_input_map
<1>2. DOMAIN map = IF Input THEN 0 .. 2 ELSE 0 .. NumOut - 1
  BY <1>1 DEF map
<1> QED
  BY <1>1, <1>2, ConfigAssumption

\* The default device alone is no bus.
LEMMA DefaultIsNoBus == request.devices = DEFAULT => ~IsBus
BY DEF DEFAULT, IsBus, BUS, AUDIO_DEVICE_IN_BUS, AUDIO_DEVICE_OUT_BUS

\* The parts of a request.
LEMMA RequestParts ==
  ASSUME request \in Requests
  PROVE  /\ request.kind \in {"out", "in", "route"}
         /\ request.config \in Configs /\ request.address \in Addresses
         /\ request.kind = "route" <=> request.address.form = "null"
         /\ request.address.form \in {"null", "other", "bus"}
         /\ request.address.bus \in 0 .. MaxBus
<1>1. /\ request \in [kind : Kinds, devices : OutDevices \cup InDevices,
                      address : Addresses, config : Configs]
      /\ request.kind = "route" <=> request.address.form = "null"
  BY DEF Requests
<1>2. request.kind \in Kinds /\ request.address \in Addresses /\ request.config \in Configs
  BY <1>1
<1>3. /\ request.address.form \in {"null", "other", "bus"}
      /\ request.address.bus \in 0 .. MaxBus
  BY <1>2 DEF Addresses
<1>4. request.kind \in {"out", "in", "route"}
  <2>1. Kinds \subseteq {"out", "in", "route"}
    BY ConfigAssumption
  <2> QED
    BY <1>2, <2>1
<1> QED
  BY <1>1, <1>2, <1>3, <1>4

\* A request starts with nothing found.
LEMMA InvInit == Init => IInv
<1> SUFFICES ASSUME Init PROVE IInv
  OBVIOUS
<1>1. TypeOK
  BY RequestParts, ConfigAssumption, Maps DEF Init, TypeOK
<1> QED
  BY <1>1 DEF Init, IInv, Checked, Parsed, Found, RefusedForCause, DefaultFilled,
              Plain, Open

\* The request does not change, and with it what it wants.
LEMMA SameRequest ==
  ASSUME UNCHANGED request
  PROVE  /\ Open' = Open /\ Input' = Input /\ Direction' = Direction
         /\ map' = map /\ BUS' = BUS /\ DEFAULT' = DEFAULT /\ IsBus' = IsBus
         /\ Wanted' = Wanted /\ Unmatched' = Unmatched /\ Plain' = Plain
BY DEF Open, Input, Direction, map, BUS, DEFAULT, IsBus, Wanted, Unmatched,
       Plain

\* Filling in sets each of the three fields.
LEMMA FilledFields ==
  ASSUME config \in Configs
  PROVE  /\ Filled \in Configs
         /\ Filled.format = OrElse(config.format, 1)
         /\ Filled.channels = OrElse(config.channels, IF Input THEN 1 ELSE 2)
         /\ Filled.sample_rate = OrElse(config.sample_rate, 44100)
<1> DEFINE f == OrElse(config.format, 1)
           c == OrElse(config.channels, IF Input THEN 1 ELSE 2)
           r == OrElse(config.sample_rate, 44100)
<1>1. /\ config.format \in Formats /\ config.channels \in Channels
      /\ config.sample_rate \in Rates
  BY DEF Configs
<1>2. f \in Formats /\ c \in Channels /\ r \in Rates
  BY <1>1, ConfigAssumption DEF OrElse
<1>3. Filled = [config EXCEPT !.format = f, !.channels = c, !.sample_rate = r]
  BY DEF Filled, AUDIO_FORMAT_PCM_16_BIT, Configs
<1> HIDE DEF f, c, r
<1>4. Filled \in Configs /\ Filled.format = f /\ Filled.channels = c /\ Filled.sample_rate = r
  BY <1>2, <1>3 DEF Configs
<1> QED
  BY <1>4 DEF f, c, r

\* What was left out is filled in.
LEMMA InvFillDefaults == IInv /\ FillDefaults => IInv'
<1> SUFFICES ASSUME IInv, FillDefaults PROVE IInv'
  OBVIOUS
<1> USE SameRequest DEF IInv, FillDefaults, Continue
<1>1. config \in Configs /\ config' \in Configs
  BY FilledFields DEF TypeOK
<1>2. TypeOK'
  BY <1>1 DEF TypeOK
<1>3. Checked' /\ Parsed' /\ Found' /\ RefusedForCause'
  BY DEF Checked, Parsed, Found, RefusedForCause
<1>4. DefaultFilled'
  <2>1. ASSUME Plain PROVE IsSupported'
    <3>1. config = Unspecified /\ config' = Filled
      BY <2>1 DEF DefaultFilled, Plain
    <3>2. config.format = 0 /\ config.channels = 0 /\ config.sample_rate = 0
      BY <3>1 DEF Unspecified
    <3>3. config'.format = 1 /\ config'.channels \in {1, 2} /\ config'.sample_rate = 44100
      BY <1>1, <3>1, <3>2, FilledFields DEF OrElse
    <3> QED
      BY <3>3, ConfigAssumption DEF IsSupported
  <2> QED
    BY <2>1 DEF DefaultFilled
<1> QED
  BY <1>2, <1>3, <1>4

\* The two checks.
LEMMA InvChecks == IInv /\ (CheckConfig \/ CheckDevice) => IInv'
<1> SUFFICES ASSUME IInv, CheckConfig \/ CheckDevice PROVE IInv'
  OBVIOUS
<1> USE SameRequest DEF IInv, CheckConfig, CheckDevice, Continue, Return
<1>1. TypeOK'
  BY DEF TypeOK
<1>2. Checked'
  BY DEF Checked, ConfigAccepted, IsSupported, Direction, AUDIO_DEVICE_BIT_IN
<1>3. Parsed' /\ Found'
  BY DEF Parsed, Found
<1>4. RefusedForCause'
  <2>1. UNCHANGED config /\ IsSupported' = IsSupported
    BY DEF IsSupported
  <2> QED
    BY <2>1
    DEF Checked, RefusedForCause, ConfigAccepted, Direction, AUDIO_DEVICE_BIT_IN
<1>5. DefaultFilled'
  BY DEF DefaultFilled, ConfigAccepted, Plain, DEFAULT, AUDIO_DEVICE_BIT_IN
<1> QED
  BY <1>1, <1>2, <1>3, <1>4, <1>5

\* After the parsing, the bus number is the address's or the request is over.
LEMMA InvParseAddress == IInv /\ ParseAddress => IInv'
<1> SUFFICES ASSUME IInv, ParseAddress PROVE IInv'
  OBVIOUS
<1> USE SameRequest, RequestParts DEF IInv, Continue, Return
<1>1. /\ pc = "parse" /\ UNCHANGED <<request, config, slot>>
      /\ \/ ~IsBus /\ pc' = "scan" /\ UNCHANGED <<outcome, bus_number>>
         \/ /\ request.address.form = "null" /\ pc' = "done" /\ outcome' = "fault"
            /\ UNCHANGED bus_number
         \/ /\ IsBus /\ request.address.form = "other" /\ pc' = "table"
            /\ UNCHANGED <<outcome, bus_number>>
         \/ /\ request.address.form = "bus" /\ pc' = "scan"
            /\ bus_number' = request.address.bus /\ UNCHANGED outcome
  BY DEF ParseAddress, TypeOK
<1>2. TypeOK'
  BY <1>1 DEF TypeOK
<1>3. Checked'
  BY <1>1 DEF Checked, IsSupported, Open, TypeOK
<1>4. Parsed'
  BY <1>1 DEF Parsed
<1>5. Found'
  BY <1>1 DEF Found, Unmatched, TypeOK
<1>6. RefusedForCause'
  BY <1>1 DEF RefusedForCause, IsSupported, TypeOK
<1>7. DefaultFilled'
  BY <1>1, DefaultIsNoBus DEF DefaultFilled, IsSupported, Plain, Open, TypeOK
<1> QED
  BY <1>1, <1>2, <1>3, <1>4, <1>5, <1>6, <1>7

\* The loop over the map comes to a first slot it stops at, if there is one.
LEMMA FirstIdentified ==
  ASSUME NEW k \in DOMAIN map, Identified(k)
  PROVE  \E i \in DOMAIN map : Identified(i) /\ \A j \in 0 .. i - 1 : ~Identified(j)
<1>1. CASE Input
  <2> DEFINE P(i) == Identified(i)
  <2>1. DOMAIN map = {0, 1, 2}
    BY <1>1, Maps
  <2>2. P(0) \/ P(1) \/ P(2)
    BY <2>1
  <2>3. 0 .. 0 - 1 = {} /\ 0 .. 1 - 1 = {0} /\ 0 .. 2 - 1 = {0, 1}
    OBVIOUS
  <2> HIDE DEF P
  <2>4. \E i \in {0, 1, 2} : P(i) /\ \A j \in 0 .. i - 1 : ~P(j)
    <3>1. CASE P(0)
      BY <2>3, <3>1
    <3>2. CASE ~P(0) /\ P(1)
      BY <2>3, <3>2
    <3>3. CASE ~P(0) /\ ~P(1) /\ P(2)
      BY <2>3, <3>3
    <3> QED
      BY <2>2, <3>1, <3>2, <3>3
  <2> QED
    BY <2>1, <2>4 DEF P
<1>2. CASE ~Input
  <2>1. \A i \in DOMAIN map : map[i] = Entry(AUDIO_DEVICE_OUT_BUS, i)
    BY <1>2, Maps DEF map, xa_output_map
  <2>2. \A i \in DOMAIN map : Identified(i) => i = bus_number
    BY <1>2, <2>1 DEF Identified, BUS, Entry
  <2>3. k \in Nat /\ \A j \in 0 .. k - 1 : j \in DOMAIN map /\ j # k
    BY <1>2, Maps, ConfigAssumption
  <2> QED
    BY <2>2, <2>3
<1> QED
  BY <1>1, <1>2

\* What the loop returns: the default device's slot, a slot it identified, or
\* none because there is none.
LEMMA ScanResult ==
  ASSUME Scan
  PROVE  /\ slot' \in DOMAIN map \cup {-1}
         /\ DEFAULT \subseteq request.devices => slot' = 0
         /\ ~(DEFAULT \subseteq request.devices) =>
              \/ slot' \in DOMAIN map /\ Identified(slot')
              \/ slot' = -1 /\ \A i \in DOMAIN map : ~Identified(i)
<1> DEFINE First(i) == Identified(i) /\ \A j \in 0 .. i - 1 : ~Identified(j)
<1>1. CASE DEFAULT \subseteq request.devices
  BY <1>1, Maps DEF Scan
<1>2. CASE /\ ~(DEFAULT \subseteq request.devices)
           /\ \A i \in DOMAIN map : ~Identified(i)
  BY <1>2 DEF Scan, NotFound
<1>3. CASE /\ ~(DEFAULT \subseteq request.devices)
           /\ \E i \in DOMAIN map : Identified(i)
  <2>1. \E i \in DOMAIN map : First(i)
    BY <1>3, FirstIdentified
  <2>2. slot' = CHOOSE i \in DOMAIN map : First(i)
    BY <1>3 DEF Scan
  <2>3. slot' \in DOMAIN map /\ First(slot')
    <3> HIDE DEF First
    <3> QED
      BY <2>1, <2>2
  <2> QED
    BY <1>3, <2>3
<1> QED
  BY <1>1, <1>2, <1>3

\* The slot the loop returns is one the request wants.
LEMMA InvScan == IInv /\ Scan => IInv'
<1> SUFFICES ASSUME IInv, Scan PROVE IInv'
  OBVIOUS
<1> USE SameRequest, RequestParts DEF IInv
<1>1. /\ pc = "scan" /\ pc' = "table"
      /\ UNCHANGED <<request, config, bus_number, outcome>>
  BY DEF Scan, Continue
<1>2. slot' \in DOMAIN map \cup {-1}
  BY ScanResult
<1>3. TypeOK'
  <2>1. DOMAIN map \subseteq DOMAIN xa_input_map \cup DOMAIN xa_output_map
    BY DEF map
  <2>2. slot' \in -1 .. NumOut - 1 \cup DOMAIN xa_input_map
    BY <1>2, <2>1, Maps, ConfigAssumption
  <2> QED
    BY <1>1, <2>2 DEF TypeOK
<1>4. Checked' /\ Parsed' /\ RefusedForCause'
  BY <1>1 DEF Checked, Parsed, RefusedForCause, IsSupported, TypeOK
<1>5. Found'
  <2> SUFFICES slot' \in Wanted \/ (slot' = -1 /\ Unmatched)
    BY <1>1 DEF Found, TypeOK
  <2>1. CASE DEFAULT \subseteq request.devices
    BY <2>1, ScanResult DEF Wanted
  <2>2. CASE ~(DEFAULT \subseteq request.devices)
    <3>1. \A i \in DOMAIN map : Identified(i) <=> i \in Wanted
      <4>1. \A i \in DOMAIN map :
              /\ map[i].device_type_mask \subseteq request.devices
              /\ map[i].device_type_mask = BUS
              => request.address.form = "bus" /\ bus_number = request.address.bus
        BY <1>1 DEF Parsed, IsBus
      <4> QED
        BY <2>2, <4>1 DEF Identified, Wanted
    <3>2. Wanted \subseteq DOMAIN map
      BY <2>2 DEF Wanted
    <3>3. \/ slot' \in DOMAIN map /\ Identified(slot')
          \/ slot' = -1 /\ \A i \in DOMAIN map : ~Identified(i)
      BY <2>2, ScanResult
    <3>4. (\A i \in DOMAIN map : ~Identified(i)) => Wanted = {}
      BY <3>1, <3>2
    <3> QED
      BY <3>1, <3>3, <3>4 DEF Unmatched
  <2> QED
    BY <2>1, <2>2
<1>6. DefaultFilled'
  BY <1>1, ScanResult DEF DefaultFilled, Plain
<1> QED
  BY <1>1, <1>3, <1>4, <1>5, <1>6

\* A slot behind the table is never taken for one in it.
LEMMA InvLookUp == IInv /\ LookUp => IInv'
<1> SUFFICES ASSUME IInv, LookUp PROVE IInv'
  OBVIOUS
<1> USE SameRequest, RequestParts DEF IInv
<1>1. /\ pc = "table" /\ pc' = "done" /\ UNCHANGED <<request, config, bus_number, slot>>
      /\ outcome' \in {"slot", "fault", "EINVAL"}
      /\ outcome' = "slot" => Index \in DOMAIN map
      /\ outcome' = "EINVAL" => ~(Index >= 0)
      /\ Index >= 0 /\ Index \in DOMAIN map => outcome' = "slot"
  BY DEF LookUp, Return
<1>2. /\ slot \in Int
      /\ Index \in DOMAIN map => slot = Index
      /\ slot >= 0 => Index = slot
      /\ ~(Index >= 0) => slot < 0
  BY Maps, ConfigAssumption DEF Index, TypeOK
<1>3. Wanted \subseteq DOMAIN map /\ DOMAIN map \subseteq Nat
  BY Maps DEF Wanted
<1>4. TypeOK'
  BY <1>1 DEF TypeOK
<1>5. Checked' /\ Parsed'
  BY <1>1 DEF Checked, Parsed, IsSupported
<1>6. Found'
  BY <1>1, <1>2, <1>3, Maps DEF Found
<1>7. RefusedForCause'
  BY <1>1, <1>2, <1>3, Maps DEF RefusedForCause, Found, Open
<1>8. DefaultFilled'
  BY <1>1, <1>2, Maps DEF DefaultFilled, Plain
<1> QED
  BY <1>1, <1>4, <1>5, <1>6, <1>7, <1>8

-----------------------------------------------------------------------------
\* Every step preserves the invariant.
LEMMA InvStep == IInv /\ [Next]_vars => IInv'
<1>1. IInv /\ UNCHANGED vars => IInv'
  <2> SUFFICES ASSUME IInv, UNCHANGED vars PROVE IInv'
    OBVIOUS
  <2> USE SameRequest DEF vars, IInv
  <2> QED
    BY DEF TypeOK, Checked, Parsed, Found, RefusedForCause, DefaultFilled, IsSupported
<1> QED
  BY <1>1, InvFillDefaults, InvChecks, InvParseAddress, InvScan, InvLookUp DEF Next

\* The inductive invariant is an invariant.
LEMMA Invariance == Spec => []IInv
<1> QED
  BY InvInit, InvStep, PTL DEF Spec

\* The variables have their types.
THEOREM TypeCorrect == Spec => []TypeOK
<1>1. IInv => TypeOK
  BY DEF IInv
<1> QED
  BY <1>1, Invariance, PTL

\* A request that leads to a slot matches it in device bits and bus number, and
\* an open in direction and configuration, whatever the maps' length.  A reroute
\* is checked for neither, and comes to the default device's slot or to none.
THEOREM MatchesSlot == Spec => []SlotMatches
<1>1. IInv => SlotMatches
  BY DEF IInv, SlotMatches, Checked, Found, Open, Direction
<1> QED
  BY <1>1, Invariance, PTL

\* A request that is refused deserves it.
THEOREM RefusalsJustified == Spec => []RefusedForCause
<1>1. IInv => RefusedForCause
  BY DEF IInv
<1> QED
  BY <1>1, Invariance, PTL

\* A request for the default device that leaves the configuration out is
\* filled in and gets slot 0.
THEOREM DefaultServed == Spec => []DefaultOpens
<1>1. IInv => DefaultOpens
  BY DEF IInv, DefaultOpens, DefaultFilled, Plain, Open
<1> QED
  BY <1>1, Invariance, PTL

\* find_out_device() and find_in_device() compare bus_number only after
\* sscanf() assigned it.
THEOREM NoGarbageCompared == Spec => []BusNumberInitialised
<1>1. IInv => BusNumberInitialised
  <2> SUFFICES ASSUME IInv, pc = "scan", NEW i \in DOMAIN map,
                      map[i].device_type_mask = BUS,
                      map[i].device_type_mask \subseteq request.devices
               PROVE  bus_number # -1
    BY DEF BusNumberInitialised
  <2>1. bus_number = request.address.bus /\ request \in Requests
    BY DEF IInv, Parsed, IsBus, TypeOK
  <2> QED
    BY <2>1, RequestParts, ConfigAssumption
<1> QED
  BY <1>1, Invariance, PTL
-----------------------------------------------------------------------------
(***************************************************************************)
(* The requests that fault.  UnmappedInputRefused and RerouteHandled are   *)
(* false; this is what is true in their place.                             *)
(***************************************************************************)

\* A routing to a bus, and an input that passes the checks and has no slot.
Faulty ==
  \/ request.kind = "route" /\ IsBus
  \/ request.kind = "in" /\ IsSupported /\ Direction /\ Unmatched

\* A request reads through a null pointer or behind the table exactly when it
\* is one of these.
FaultsAreFaulty == pc = "done" => (outcome = "fault" <=> Faulty)

\* A routing is not checked, and comes to the table only when it is to no bus.
RoutePath ==
  request.kind = "route" =>
    /\ pc \in {"parse", "scan", "table", "done"}
    /\ pc = "table" => ~IsBus

\* At the table there is a slot, or there is none because nothing matches.
Cause ==
  pc = "table" =>
    /\ slot \in DOMAIN map \cup {-1}
    /\ slot = -1 <=> Unmatched

FInv == IInv /\ RoutePath /\ Cause /\ FaultsAreFaulty

\* What faults does not change as long as the request and the configuration do
\* not.
LEMMA SameFaults ==
  ASSUME UNCHANGED request
  PROVE  config' = config => Faulty' = Faulty
<1>1. config' = config => IsSupported' = IsSupported
  BY DEF IsSupported
<1> QED
  BY <1>1, SameRequest DEF Faulty

\* The steps that do not look at the table.
LEMMA FaultsBefore ==
  ASSUME FInv, FillDefaults \/ CheckConfig \/ CheckDevice \/ ParseAddress
  PROVE  RoutePath' /\ Cause' /\ FaultsAreFaulty'
<1> USE SameRequest, SameFaults, RequestParts DEF FInv, IInv, Continue, Return
<1>1. CASE FillDefaults
  BY <1>1 DEF FillDefaults, RoutePath, Cause, FaultsAreFaulty
<1>2. CASE CheckConfig
  <2>1. /\ pc = "config" /\ pc' \in {"device", "done"}
        /\ UNCHANGED <<request, config>>
        /\ pc' = "done" => ~IsSupported /\ outcome' = "EINVAL"
    BY <1>2 DEF CheckConfig, ConfigAccepted
  <2> QED
    BY <2>1 DEF RoutePath, Cause, FaultsAreFaulty, Faulty
<1>3. CASE CheckDevice
  <2>1. /\ pc = "device" /\ pc' \in {"parse", "done"}
        /\ UNCHANGED <<request, config>>
        /\ pc' = "done" => ~Direction /\ outcome' = "EINVAL"
    BY <1>3 DEF CheckDevice, Direction, AUDIO_DEVICE_BIT_IN
  <2> QED
    BY <2>1 DEF RoutePath, Cause, FaultsAreFaulty, Faulty
<1>4. CASE ParseAddress
  <2>1. /\ pc = "parse" /\ UNCHANGED <<request, config, slot>>
        /\ \/ pc' = "scan"
           \/ /\ IsBus /\ request.address.form = "null" /\ pc' = "done"
              /\ outcome' = "fault"
           \/ IsBus /\ request.address.form = "other" /\ pc' = "table"
    BY <1>4 DEF ParseAddress, TypeOK
  <2>2. request.kind = "route" <=> request.address.form = "null"
    BY DEF TypeOK
  <2>3. pc' = "table" => slot' = -1 /\ Unmatched
    BY <2>1, <2>2 DEF Found, Open, Unmatched
  <2> QED
    BY <2>1, <2>2, <2>3 DEF RoutePath, Cause, FaultsAreFaulty, Faulty
<1> QED
  BY <1>1, <1>2, <1>3, <1>4

\* The loop finds no slot only if there is none.
LEMMA FaultsScan ==
  ASSUME FInv, Scan
  PROVE  RoutePath' /\ Cause' /\ FaultsAreFaulty'
<1> USE SameRequest, SameFaults, RequestParts DEF FInv
<1>1. pc = "scan" /\ pc' = "table" /\ UNCHANGED <<request, config>>
  BY DEF Scan, Continue
<1>2. IsBus => request.address.form = "bus"
  BY <1>1 DEF IInv, Parsed
<1>3. Found'
  BY InvScan DEF IInv
<1>4. -1 \notin Wanted
  BY Maps DEF Wanted
<1>5. slot' = -1 <=> Unmatched
  BY <1>1, <1>2, <1>3, <1>4 DEF Found, Unmatched
<1>6. RoutePath'
  BY <1>1, <1>2 DEF RoutePath, IInv, TypeOK
<1> QED
  BY <1>1, <1>5, <1>6, ScanResult DEF Cause, FaultsAreFaulty

\* The look at the table faults only for an input without a slot.
LEMMA FaultsLookUp ==
  ASSUME FInv, LookUp
  PROVE  RoutePath' /\ Cause' /\ FaultsAreFaulty'
<1> USE SameRequest, SameFaults, RequestParts DEF FInv
<1>1. /\ pc = "table" /\ pc' = "done" /\ UNCHANGED <<request, config>>
      /\ outcome' = "fault" <=> Index >= 0 /\ Index \notin DOMAIN map
  BY DEF LookUp, Return
<1>2. slot \in DOMAIN map \cup {-1} /\ DOMAIN map \subseteq Nat
  BY <1>1, Maps DEF Cause
<1>3. outcome' = "fault" <=> Input /\ slot = -1
  <2>1. CASE slot = -1
    BY <1>1, <2>1, Maps, ConfigAssumption DEF Index
  <2>2. CASE slot \in DOMAIN map
    BY <1>1, <1>2, <2>2 DEF Index
  <2> QED
    BY <1>2, <2>1, <2>2
<1>4. request.kind = "in" => (Faulty <=> slot = -1)
  BY <1>1 DEF Faulty, Cause, Open, IInv, Checked
<1>5. request.kind # "in" => ~Faulty
  BY <1>1 DEF Faulty, RoutePath
<1>6. FaultsAreFaulty'
  BY <1>1, <1>3, <1>4, <1>5 DEF FaultsAreFaulty, Input
<1> QED
  BY <1>1, <1>6 DEF RoutePath, Cause

\* A request faults exactly if it is a routing to a bus, or for an input that
\* passes the checks and matches no slot.  No open of an output does, as long as
\* the framework passes an address with it (see Requests).
THEOREM FaultsExact == Spec => []FaultsAreFaulty
<1>1. Init => FInv
  BY InvInit, RequestParts
  DEF Init, FInv, RoutePath, Cause, FaultsAreFaulty
<1>2. FInv /\ [Next]_vars => FInv'
  <2>1. ASSUME FInv, UNCHANGED vars PROVE RoutePath' /\ Cause' /\ FaultsAreFaulty'
    BY <2>1, SameRequest, SameFaults DEF vars, FInv, RoutePath, Cause, FaultsAreFaulty
  <2>2. FInv /\ [Next]_vars => RoutePath' /\ Cause' /\ FaultsAreFaulty'
    BY <2>1, FaultsBefore, FaultsScan, FaultsLookUp DEF Next
  <2> QED
    BY <2>2, InvStep DEF FInv
<1>3. FInv => FaultsAreFaulty
  BY DEF FInv
<1> QED
  BY <1>1, <1>2, <1>3, PTL DEF Spec
=============================================================================
