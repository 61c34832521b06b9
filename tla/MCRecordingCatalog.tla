------------------------- MODULE MCRecordingCatalog -------------------------
(***************************************************************************)
(* Instances of RecordingCatalog for TLC.                                  *)
(***************************************************************************)
EXTENDS RecordingCatalog
==============================================================================
