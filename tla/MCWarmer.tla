------------------------------ MODULE MCWarmer ------------------------------
(* Two secrets.  There is just room for a retry, as with any TTL above      *)
(* about two minutes.                                                       *)
EXTENDS Warmer

CONSTANTS n1, n2

MCNames == {n1, n2}
MCOneName == {n1}

ASSUME MCRoom == RoomToRetry
=============================================================================
