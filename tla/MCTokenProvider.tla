----------------------------- MODULE MCTokenProvider -----------------------------
(* Three requests for TLC: one that creates a refresh, one that shares it, one that *)
(* waits for the lock.                                                              *)
EXTENDS TokenProvider

CONSTANTS r1, r2, r3

MCRequests    == {r1, r2, r3}
MCCancellable == {r1}
=============================================================================
