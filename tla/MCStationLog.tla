---------------------------- MODULE MCStationLog ----------------------------
(* Instances of StationLog for TLC. *)
EXTENDS StationLog, TLC

\* Processes of one role are interchangeable: no property names one.
ConsumerSymmetry == Permutations(Consumers)

=============================================================================
