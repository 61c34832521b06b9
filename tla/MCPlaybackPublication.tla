------------------------ MODULE MCPlaybackPublication ------------------------
(***************************************************************************)
(* Instances of PlaybackPublication for TLC.                               *)
(***************************************************************************)
EXTENDS PlaybackPublication, TLC

\* Neither workers nor sources are told apart.
Symmetry == Permutations(Workers) \cup Permutations(Sources)
==============================================================================
