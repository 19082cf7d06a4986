---------------------------- MODULE MCStateStore ----------------------------
(***************************************************************************)
(* An instance of StateStore with three processes.                         *)
(***************************************************************************)
EXTENDS StateStore

CONSTANTS a, b, c

ThreeProcs == {a, b, c}
=============================================================================
