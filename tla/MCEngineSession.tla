---------------------------- MODULE MCEngineSession ----------------------------
(* Small instances of EngineSession for TLC. *)
EXTENDS EngineSession

CONSTANTS r1, r2, j1, s1

================================================================================
