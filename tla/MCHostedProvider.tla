-------------------------- MODULE MCHostedProvider --------------------------
(* Without a relay, two forwards and two services to unwind and two calls   *)
(* of Stop; with one, the steps of the connection and one call.             *)
EXTENDS HostedProvider

CONSTANTS c1, c2, a4, a6, s1, s2

MCForwards == [m \in Modes |-> IF m = "none" THEN {a4, a6} ELSE {a4}]
MCCallers == [m \in Modes |-> IF m = "none" THEN {c1, c2} ELSE {c1}]
MCHosted == [m \in Modes |-> IF m = "none" THEN {s1, s2} ELSE {}]
=============================================================================
