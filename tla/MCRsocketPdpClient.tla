--------------------------- MODULE MCRsocketPdpClient ---------------------------
(* One stream, one-shot requests and a close. *)
EXTENDS RsocketPdpClient

CONSTANTS s1, a1, a2, closer

MCStreams == {s1}
MCClosers == {closer}
MCIds     == [s \in MCStreams |-> <<"i", "j">>]
MCRoute   == [s \in MCStreams |-> "multi_decide_all"]
=============================================================================
