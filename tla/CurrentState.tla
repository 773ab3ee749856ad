---------------------------- MODULE CurrentState ----------------------------
(***************************************************************************)
(* What the rest of the system relies on the state log for: the station's  *)
(* current status and the instant since which it holds, one value that     *)
(* changes atomically.  StationLog implements it, and StationDetection is  *)
(* built on it.                                                            *)
(***************************************************************************)
CONSTANT Instants  \* the timestamps events and timers may carry

VARIABLES
  status,  \* of the open row: "NONE" before the first one
  since    \* its start

Init == status = "NONE" /\ since = 0

\* A completed cycle starts a new UP period, SLOW if the cycle was long.
Produce(t, slow) ==
  /\ status' = IF slow THEN "SLOW" ELSE "UP"
  /\ since' = t

\* The slow timer: an UP period becomes SLOW where it stands; DOWN supersedes.
GoSlow(t) ==
  \/ /\ status = "UP"
     /\ status' = "SLOW" /\ UNCHANGED since
  \/ /\ status = "NONE"
     /\ status' = "SLOW" /\ since' = t
  \/ /\ status \in {"SLOW", "DOWN"}
     /\ UNCHANGED <<status, since>>

\* The down timer: the whole period since the last cycle becomes DOWN.
GoDown(t) ==
  \/ /\ status \in {"UP", "SLOW"}
     /\ status' = "DOWN" /\ UNCHANGED since
  \/ /\ status = "NONE"
     /\ status' = "DOWN" /\ since' = t
  \/ /\ status = "DOWN"
     /\ UNCHANGED <<status, since>>

\* A downtime is cut: its last part stays DOWN.
Cut(t) ==
  /\ status = "DOWN"
  /\ since' = t
  /\ UNCHANGED status

\* A reconciled replay: the station has been UP since the last replayed cycle.
Rebuild(t) ==
  /\ status' = "UP"
  /\ since' = t

Next ==
  \E t \in Instants :
    \/ \E slow \in BOOLEAN : Produce(t, slow)
    \/ GoSlow(t) \/ GoDown(t) \/ Cut(t) \/ Rebuild(t)

Spec == Init /\ [][Next]_<<status, since>>

=============================================================================
