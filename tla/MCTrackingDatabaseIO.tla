----------------------- MODULE MCTrackingDatabaseIO ------------------------
(* The instances of TrackingDatabaseIO that TLC explores. *)
EXTENDS TrackingDatabaseIO, TLC


Symmetry == Permutations(Writer)

=============================================================================
