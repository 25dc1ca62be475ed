----------------------------- MODULE MCSdkCall -----------------------------
(* The reads of the cache, whose context nobody cancels, and the calls of a *)
(* client's write, which may leave.                                        *)
EXTENDS SdkCall

CONSTANTS warmer, c1

MCCallers == {warmer, c1}
MCPatient == {warmer}
=============================================================================
