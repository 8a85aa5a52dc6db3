----------------------------- MODULE MCBrokerTable -----------------------------
(* BrokerTable for TLC.                                                      *)
EXTENDS BrokerTable

\* Tables that differ in their columns or only in their ref table.
ThreeSchemas == {[cols |-> 1, ref |-> 1, db |-> 1], [cols |-> 1, ref |-> 2, db |-> 1],
                 [cols |-> 2, ref |-> 1, db |-> 1]}

\* Tables that cannot both refer to one ref table.
ConflictingSchemas == [cols : {1}, ref : {1}, db : {1, 2}]

\* One of a dropped table, a revocation and a fault.
OneEvent == used.drop + used.revoke + used.fault <= 1
================================================================================
