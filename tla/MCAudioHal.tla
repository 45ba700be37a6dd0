------------------------------ MODULE MCAudioHal ------------------------------
(***************************************************************************)
(* Values for model checking AudioHal: one client per direction, one slot  *)
(* more than it can use, two threads that open and close the device.       *)
(***************************************************************************)
EXTENDS AudioHal, TLC

MCOutPcms == {"pcmC0D0p", "pcmC0D1p"}
MCOutPcm == 0 :> "pcmC0D0p" @@ 1 :> "pcmC0D1p"

MCInPcms == {"pcmC0D0c"}
MCInPcm == 0 :> "pcmC0D0c"

\* Callers are interchangeable, and so are heap addresses.
Symmetry == Permutations(Threads) \cup Permutations(Devices)
            \cup Permutations(OutAddrs) \cup Permutations(InAddrs)
=============================================================================
