------------------------------ MODULE MCHwConfig ------------------------------
(***************************************************************************)
(* Values for model checking HwConfig: of each list the value that is not  *)
(* specified, those the code fills in, and one that is not supported.      *)
(***************************************************************************)
EXTENDS HwConfig

MCFormats == {0, 1, 2}
MCSupportedFormats == {1}

MCChannels == {0, 1, 2, 3}
MCSupportedChannels == {1, 2}

MCRates == {0, 44100, 96000}
MCSupportedRates == {44100}

\* A device type the maps do not name.
MCOtherDevices == {"speaker"}
=============================================================================
