----------------------------- MODULE MCService -----------------------------
(* A request of one of the operations that differ in their steps beside one *)
(* that deletes, and around them a process that has everything and one of   *)
(* --dev, which has a backend only.                                         *)
EXTENDS Lifecycle

CONSTANTS r1, r2, n1, n2

MCRequests == {r1, r2}
MCNames == {n1, n2}
MCAsked == (r1 :> {<<"list", Whole>>, <<"flush", Whole>>, <<"conditional", n1>>, <<"create-version", n1>>})
           @@ (r2 :> {<<"delete", n1>>})
MCConfigs == {[mode |-> "tls", warm |-> TRUE, debug |-> TRUE],
              [mode |-> "dev", warm |-> FALSE, debug |-> FALSE]}
=============================================================================
