--------------------------- MODULE MCRoomRecording ---------------------------
(* Small instances of RoomRecording for TLC. *)
EXTENDS RoomRecording
=============================================================================
