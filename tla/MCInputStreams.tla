---------------------------- MODULE MCInputStreams ----------------------------
(***************************************************************************)
(* Values for model checking InputStreams.                                 *)
(***************************************************************************)
EXTENDS InputStreams, TLC

\* In xa_input_map all three slots share one PCM.  Here the third one has a PCM
\* of its own, so that streams that do not get in each other's way occur, too.
MCPcms == {"pcmC0D0c", "pcmC0D1c"}

MCInPcm == 0 :> "pcmC0D0c" @@ 1 :> "pcmC0D0c" @@ 2 :> "pcmC0D1c"

\* Clients are interchangeable, and so are heap addresses.
Symmetry == Permutations(Clients) \cup Permutations(Addrs)
=============================================================================
