------------------------------ MODULE MCHLSJobs ------------------------------
(***************************************************************************)
(* Instances of HLSJobs for TLC.                                           *)
(***************************************************************************)
EXTENDS HLSJobs
==============================================================================
