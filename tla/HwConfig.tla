------------------------------- MODULE HwConfig -------------------------------
(***************************************************************************)
(* Which slot of the device maps a request leads to, or how it is refused: *)
(* the checks adev_open_output_stream() and adev_open_input_stream()       *)
(* (device.c) make before they look at the stream table, the routing of    *)
(* out_set_parameters() (stream_out.c), and the functions of               *)
(* audio_hw_config.c they call.  One behaviour handles one request.        *)
(*                                                                         *)
(* An audio_devices_t is the set of its bits, of one device type or more.  *)
(* An address is what sscanf() finds in it: no string at all ("null"), one *)
(* that does not start with "bus" and a number ("other"), or the number.   *)
(***************************************************************************)
EXTENDS Integers

CONSTANTS
  NumOut,         \* NUMBER_OF_DEVICES_OUT
  OtherDevices,   \* bits of device types the maps do not name
  MaxBus,         \* largest bus number in an address
  UINT_MAX,       \* what -1 becomes in an unsigned int
  Formats, SupportedFormats,    \* 0 is "not specified" in all three
  Channels, SupportedChannels,
  Rates, SupportedRates,
  Kinds           \* the requests explored, of "out", "in" and "route"

ASSUME ConfigAssumption ==
  /\ NumOut \in Nat \ {0}
  /\ MaxBus \in Nat /\ UINT_MAX \in Nat /\ UINT_MAX >= NumOut /\ UINT_MAX > 2
  /\ 1 \in SupportedFormats /\ SupportedFormats \subseteq Formats \ {0}
  /\ {1, 2} \subseteq SupportedChannels /\ SupportedChannels \subseteq Channels \ {0}
  /\ 44100 \in SupportedRates /\ SupportedRates \subseteq Rates \ {0}
  /\ Kinds \subseteq {"out", "in", "route"}

VARIABLES
  request,     \* what the caller asks for; never changes
  config,      \* *config, which the device fills in for the caller
  bus_number,  \* the local of find_*_device(), -1 while not initialised
  slot,        \* what find_*_device() returns
  pc,
  outcome      \* "slot" when the request leads to a slot of the table

vars == <<request, config, bus_number, slot, pc, outcome>>

-----------------------------------------------------------------------------
(***************************************************************************)
(* The maps and masks.                                                     *)
(***************************************************************************)
AUDIO_DEVICE_BIT_IN == "in"
AUDIO_DEVICE_OUT_BUS == {"out_bus"}
AUDIO_DEVICE_IN_BUS == {"in", "in_bus"}
AUDIO_DEVICE_IN_BUILTIN_MIC == {"in", "mic"}
AUDIO_DEVICE_IN_LINE == {"in", "line"}

AUDIO_FORMAT_PCM_16_BIT == 1

Entry(mask, bus) == [device_type_mask |-> mask, bus_number |-> bus]

\* Every output is a bus, numbered as its slot.
xa_output_map ==
  [i \in 0 .. NumOut - 1 |-> Entry(AUDIO_DEVICE_OUT_BUS, i)]

xa_input_map ==
  [i \in 0 .. 2 |-> CASE i = 0 -> Entry(AUDIO_DEVICE_IN_BUILTIN_MIC, 0)
                      [] i = 1 -> Entry(AUDIO_DEVICE_IN_LINE, 0)
                      [] i = 2 -> Entry(AUDIO_DEVICE_IN_BUS, 0)]

\* What depends on the direction of the request.
Input == request.kind = "in"
map == IF Input THEN xa_input_map ELSE xa_output_map
BUS == IF Input THEN AUDIO_DEVICE_IN_BUS ELSE AUDIO_DEVICE_OUT_BUS
DEFAULT == IF Input THEN {"in", "default"} ELSE {"default"}

OutDevices == SUBSET ({"default", "out_bus"} \cup OtherDevices)

InDevices ==
  {{"in"} \cup bits :
     bits \in SUBSET ({"default", "in_bus", "mic", "line"} \cup OtherDevices)}

Addresses == [form : {"null", "other", "bus"}, bus : 0 .. MaxBus]

Configs == [format : Formats, channels : Channels, sample_rate : Rates]

Unspecified == [format |-> 0, channels |-> 0, sample_rate |-> 0]

\* Only out_set_parameters() passes no address, and it passes no configuration.
\* That an open always has one is the framework's part: the code does not check
\* it, and faults if it has none and the device is a bus.
Requests ==
  {r \in [kind : Kinds, devices : OutDevices \cup InDevices,
          address : Addresses, config : Configs] :
     /\ r.address.form # "bus" => r.address.bus = 0
     /\ r.kind = "route" <=> r.address.form = "null"
     /\ r.kind = "route" => r.config = Unspecified}

TypeOK ==
  /\ request \in Requests
  /\ config \in Configs
  /\ bus_number \in -1 .. MaxBus
  /\ slot \in -1 .. NumOut - 1 \cup DOMAIN xa_input_map
  /\ pc \in {"defaults", "config", "device", "parse", "scan", "table", "done"}
  /\ outcome \in {"none", "slot", "EINVAL", "fault"}

Init ==
  /\ request \in Requests
  /\ config = request.config
  /\ bus_number = -1
  /\ slot = -1
  /\ pc = IF request.kind = "route" THEN "parse" ELSE "defaults"
  /\ outcome = "none"

Return(result) == pc' = "done" /\ outcome' = result

Continue(label) == pc' = label /\ UNCHANGED outcome

-----------------------------------------------------------------------------
(***************************************************************************)
(* adev_open_output_stream() and adev_open_input_stream().                 *)
(***************************************************************************)
OrElse(value, default) == IF value = 0 THEN default ELSE value

\* Mutant: the sampling rate is not filled in.
FilledButRate ==
  [config EXCEPT !.format = OrElse(@, AUDIO_FORMAT_PCM_16_BIT),
                 !.channels = OrElse(@, IF Input THEN 1 ELSE 2)]

\* The configuration a request for the default device gets for what it left out.
\* One channel count stands for the mask: the code counts an input's channels
\* here with the function for output masks, and in the check with the other.
Filled ==
  [config EXCEPT !.format = OrElse(@, AUDIO_FORMAT_PCM_16_BIT),
                 !.channels = OrElse(@, IF Input THEN 1 ELSE 2),
                 !.sample_rate = OrElse(@, 44100)]

FillDefaults ==
  /\ pc = "defaults"
  /\ config' = IF DEFAULT \subseteq request.devices THEN Filled ELSE config
  /\ Continue("config")
  /\ UNCHANGED <<request, bus_number, slot>>

\* is_config_supported_in() and is_config_supported_out().
IsSupported ==
  /\ config.format \in SupportedFormats
  /\ config.channels \in SupportedChannels
  /\ config.sample_rate \in SupportedRates

\* Mutant: the last of the supported channel counts is not looked at.
IsSupportedButLast ==
  /\ config.format \in SupportedFormats
  /\ config.channels \in SupportedChannels \ {2}
  /\ config.sample_rate \in SupportedRates

ConfigAccepted == IsSupported

CheckConfig ==
  /\ pc = "config"
  /\ IF ConfigAccepted THEN Continue("device") ELSE Return("EINVAL")
  /\ UNCHANGED <<request, config, bus_number, slot>>

\* The direction bit of the device has to be the call's.
CheckDevice ==
  /\ pc = "device"
  /\ IF Input <=> AUDIO_DEVICE_BIT_IN \in request.devices
     THEN Continue("parse") ELSE Return("EINVAL")
  /\ UNCHANGED <<request, config, bus_number, slot>>

-----------------------------------------------------------------------------
(***************************************************************************)
(* find_out_device() and find_in_device().                                 *)
(***************************************************************************)

\* Mutant: the address is parsed only when the device is a bus and nothing else.
OnlyBus == request.devices = BUS

IsBus == BUS \subseteq request.devices

\* sscanf(address, "bus%u", &bus_number), which reads the address it is given,
\* a null pointer too.
ParseAddress ==
  /\ pc = "parse"
  /\ CASE ~IsBus -> Continue("scan") /\ UNCHANGED bus_number
       [] IsBus /\ request.address.form = "null" ->
            Return("fault") /\ UNCHANGED bus_number
       [] IsBus /\ request.address.form = "other" ->
            Continue("table") /\ UNCHANGED bus_number
       [] IsBus /\ request.address.form = "bus" ->
            Continue("scan") /\ bus_number' = request.address.bus
  /\ UNCHANGED <<request, config, slot>>

\* Mutant: the bus number is not compared.
TypeMatches(i) == map[i].device_type_mask \subseteq request.devices

\* A slot the loop stops at.
Identified(i) ==
  /\ map[i].device_type_mask \subseteq request.devices
  /\ map[i].device_type_mask = BUS => map[i].bus_number = bus_number

\* Mutant: the index the loop ended with is returned.
LoopEnd == NumOut

NotFound == -1

Scan ==
  /\ pc = "scan"
  /\ slot' =
       IF DEFAULT \subseteq request.devices THEN 0
       ELSE IF \E i \in DOMAIN map : Identified(i)
            THEN CHOOSE i \in DOMAIN map :
                   Identified(i) /\ \A j \in 0 .. i - 1 : ~Identified(j)
            ELSE NotFound
  /\ Continue("table")
  /\ UNCHANGED <<request, config, bus_number>>

\* adev_open_input_stream() keeps the slot in an unsigned int.
Index == IF Input /\ slot < 0 THEN UINT_MAX ELSE slot

\* The look at the stream table behind the test slot >= 0.
LookUp ==
  /\ pc = "table"
  /\ IF Index >= 0
     THEN Return(IF Index \in DOMAIN map THEN "slot" ELSE "fault")
     ELSE Return("EINVAL")
  /\ UNCHANGED <<request, config, bus_number, slot>>

-----------------------------------------------------------------------------
Next ==
  FillDefaults \/ CheckConfig \/ CheckDevice \/ ParseAddress \/ Scan \/ LookUp

Spec == Init /\ [][Next]_vars
-----------------------------------------------------------------------------
(***************************************************************************)
(* Properties.                                                             *)
(***************************************************************************)

\* "If device type and bus number match to request then stream will be open":
\* the slots a request may get.
Wanted ==
  IF DEFAULT \subseteq request.devices THEN {0}
  ELSE {i \in DOMAIN map :
          /\ map[i].device_type_mask \subseteq request.devices
          /\ map[i].device_type_mask = BUS =>
               request.address.form = "bus" /\ request.address.bus = map[i].bus_number}

\* No slot can be found for the request.
Unmatched == Wanted = {} \/ (IsBus /\ request.address.form # "bus")

\* A request to open, and the direction it has to have.
Open == request.kind # "route"

Direction == Input <=> AUDIO_DEVICE_BIT_IN \in request.devices

\* A request leads only to a slot it matches: an open with a supported
\* configuration and in the right direction.  A reroute has no configuration,
\* and its direction is not checked: all it can get is the default device's
\* slot, and it gets that with the bits of the input default device too.
SlotMatches ==
  outcome = "slot" => slot \in Wanted /\ (Open => IsSupported /\ Direction)

\* A request is refused only if nothing in the map matches it, or its bus
\* address is malformed, or, for an open, the configuration or the direction
\* is wrong.
RefusedForCause ==
  outcome = "EINVAL" => Unmatched \/ (Open /\ ~(IsSupported /\ Direction))

\* "handle case with default device without any config": it gets slot 0.
DefaultOpens ==
  /\ pc = "done" /\ Open
  /\ request.devices = DEFAULT
  /\ request.config = Unspecified
  => outcome = "slot" /\ slot = 0

\* The loop never compares a bus number nobody initialised.
BusNumberInitialised ==
  pc = "scan" /\ ~(DEFAULT \subseteq request.devices)
    => \A i \in DOMAIN map :
         /\ map[i].device_type_mask = BUS
         /\ map[i].device_type_mask \subseteq request.devices
         => bus_number # -1

\* "Can't create input stream. Corresponding device was not found." is what a
\* request for an input that is not in the map gets.
UnmappedInputRefused == request.kind = "in" => outcome # "fault"

\* "Re-routing have to be handled in set_parameters()", also to a bus.
RerouteHandled == request.kind = "route" => outcome # "fault"
=============================================================================
