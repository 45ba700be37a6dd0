--------------------------- MODULE MCOutputStreams ---------------------------
(***************************************************************************)
(* Values for model checking OutputStreams.                                *)
(***************************************************************************)
EXTENDS OutputStreams, TLC

\* The PCM devices of card 0, one per slot, as in xa_output_map.
MCPcms == {"pcmC0D0p", "pcmC0D1p", "pcmC0D2p"}

MCOutPcm == 0 :> "pcmC0D0p" @@ 1 :> "pcmC0D1p" @@ 2 :> "pcmC0D2p"

\* Clients are interchangeable, and so are heap addresses.
Symmetry == Permutations(Clients) \cup Permutations(Addrs)
=============================================================================
