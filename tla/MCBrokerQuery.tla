----------------------------- MODULE MCBrokerQuery -----------------------------
(* Instances of BrokerQuery for TLC.                                         *)
EXTENDS BrokerQuery

Columns == [cols : {1, 2}, ref : {1, 2}]

Row(cols, ref, ccl) == [schema |-> [cols |-> cols, ref |-> ref], ccl |-> ccl]

\* An owner has granted its table to party 1.  The others may lack the row, or
\* have older columns or another visibility.
Current == Row(1, 1, <<"plain", NoPriv>>)
Stale == {NoTable, Row(2, 1, <<"plain", NoPriv>>), Row(1, 1, <<"hidden", NoPriv>>)}

\* What no repair mends: a CCL too many, and two differences that do not show
\* in the checksum, another table referred to and a CCL for another party.
Lasting == {Row(1, 1, <<"plain", "plain">>), Row(1, 2, <<NoPriv, "plain">>)}

Worker == CHOOSE q \in Work : q # Issuer

\* One row is stale, at one worker or the issuer's of that worker (the workers
\* are alike); one that lasts is the issuer's.
OneStale ==
    {s \in [Work -> [Data -> Stale \cup Lasting \cup {Current}]] :
        /\ \A d \in Data : s[d][d] = Current
        /\ Cardinality({<<q, d>> \in Work \X Data : s[q][d] # Current}) <= 1
        /\ \A q \in Work \ {Worker}, d \in Data \ {Worker} : s[q][d] = Current
        /\ \A q \in Work \ {Worker, Issuer} : s[q][Worker] = Current
        /\ \A d \in Data : s[Worker][d] \notin Lasting}

Changed == {NoTable, Row(2, 1, <<"plain", NoPriv>>)}

================================================================================
