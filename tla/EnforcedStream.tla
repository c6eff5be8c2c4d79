----------------------------- MODULE EnforcedStream -----------------------------
(***************************************************************************)
(* What a subscriber of an enforced stream may rely on, as an abstract     *)
(* specification: a gate opens and shuts, every change of the gate is      *)
(* announced by one marker (when markers are asked for), values come only  *)
(* through an open gate, and after the end nothing comes at all.           *)
(***************************************************************************)
CONSTANT Markers    (* whether boundary markers are asked for *)

VARIABLES
    gate,           (* "unopened", "open", "shut" or "over"   *)
    shown           (* the last thing the subscriber was given *)

Marker(name) == IF Markers THEN name ELSE shown

Init == gate = "unopened" /\ shown = "nothing"

Opens == /\ gate \in {"unopened", "shut"}
         /\ gate' = "open"
         /\ shown' = Marker("granted")

Shuts == /\ gate \in {"unopened", "open"}
         /\ gate' = "shut"
         /\ shown' = Marker("suspended")

Value == /\ gate = "open"
         /\ shown' = "value"
         /\ UNCHANGED gate

Ends  == /\ gate # "over"
         /\ gate' = "over"
         /\ UNCHANGED shown

Next == Opens \/ Shuts \/ Value \/ Ends

Spec == Init /\ [][Next]_<<gate, shown>>
=============================================================================
