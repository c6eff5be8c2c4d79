-------------------------------- MODULE PdpFeed --------------------------------
(***************************************************************************)
(* What a streaming method of a PDP client promises its consumer, whatever *)
(* the transport (module comment of sapl_base/transport/pdp_client.py):    *)
(* decisions reach the consumer only over a connection, and a new          *)
(* connection is tried only after the consumer was shown INDETERMINATE in  *)
(* place of every verdict the old one had left standing.                   *)
(***************************************************************************)
CONSTANTS
    Ids,            (* the subscriptions of the stream                       *)
    Decisions,      (* what a decision may be                                *)
    INDETERMINATE,  (* the one that stands for no contact with the PDP       *)
    None            (* nothing shown yet                                     *)

VARIABLES
    shown,      (* the latest decision the consumer has for a subscription   *)
    link        (* "up" while decisions can arrive, else "down"              *)

vars == <<shown, link>>

Init ==
    /\ shown = [i \in Ids |-> None]
    /\ link = "down"

NoVerdict == \A i \in Ids : shown[i] \in {None, INDETERMINATE}

Connects ==
    /\ link = "down"
    /\ NoVerdict
    /\ link' = "up"
    /\ UNCHANGED shown

Delivers ==
    /\ link = "up"
    /\ shown' \in [Ids -> Decisions \cup {None}]
    /\ \A i \in Ids : shown'[i] = None => shown[i] = None
    /\ UNCHANGED link

Breaks ==
    /\ link = "up"
    /\ link' = "down"
    /\ UNCHANGED shown

Seeds ==
    /\ link = "down"
    /\ \E gone \in SUBSET Ids :
         shown' = [i \in Ids |-> IF i \in gone THEN INDETERMINATE ELSE shown[i]]
    /\ UNCHANGED link

Next == Connects \/ Delivers \/ Breaks \/ Seeds

Spec == Init /\ [][Next]_vars
=============================================================================
