---------------------------- MODULE MCStreamThreads ----------------------------
(***************************************************************************)
(* Values for model checking StreamThreads: one output and one input       *)
(* stream, of which one at a time is allocated, and two device callers.    *)
(* No symmetry, because the run checks a liveness property.                *)
(***************************************************************************)
EXTENDS StreamThreads
=============================================================================
