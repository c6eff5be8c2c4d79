----------------------------- MODULE MCHttpPdpStream -----------------------------
(* Two subscriptions for TLC. *)
EXTENDS HttpPdpStream

CONSTANTS s1, s2

MCIds       == {s1, s2}
MCSeedOrder == <<s1, s2>>
=============================================================================
