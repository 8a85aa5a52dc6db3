---------------------------- MODULE MCBrokerProject ----------------------------
(***************************************************************************)
(* BrokerProject for TLC.                                                  *)
(***************************************************************************)
EXTENDS BrokerProject, TLC

\* The parties other than the creator are interchangeable.
Symmetry == Permutations(Others)

================================================================================
