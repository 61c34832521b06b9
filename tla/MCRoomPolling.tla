---------------------------- MODULE MCRoomPolling ----------------------------
(* An instance of RoomPolling for TLC. *)
EXTENDS RoomPolling
CONSTANTS r1, r2, w1, w2

\* Each room has one watcher, and the caller asks for the first.
OneEach == [x \in Watchers \cup Callers |-> IF x = w2 THEN r2 ELSE r1]
==============================================================================
