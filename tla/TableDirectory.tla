---------------------------- MODULE TableDirectory ----------------------------
(***************************************************************************)
(* What the members of a project may rely on when they create tables: the  *)
(* project is one name space.  A table is created under a name that no     *)
(* other member owns, and only its owner replaces or drops it.             *)
(***************************************************************************)
CONSTANTS
    Parties,  \* members of the project
    Tables,   \* table names
    Schemas,  \* what a table can be
    NoTable   \* there is no table of that name

VARIABLE owned   \* owned[p][t]: the table t that p owns

Init == owned = [p \in Parties |-> [t \in Tables |-> NoTable]]

Create(p, t, s) ==
    /\ \A q \in Parties \ {p} : owned[q][t] = NoTable
    /\ owned' = [owned EXCEPT ![p][t] = s]

Drop(p, t) ==
    /\ owned[p][t] # NoTable
    /\ owned' = [owned EXCEPT ![p][t] = NoTable]

Next == \E p \in Parties, t \in Tables :
            \/ \E s \in Schemas : Create(p, t, s)
            \/ Drop(p, t)

Spec == Init /\ [][Next]_owned

===============================================================================
