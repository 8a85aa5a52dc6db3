--------------------------- MODULE BrokerTableRepair ---------------------------
(***************************************************************************)
(* Proof that CheckAndUpdateStatus leaves the copies of a member's tables  *)
(* like its own, for any number of members, tables, requests and faults.   *)
(*                                                                         *)
(* RepairHeals rests on EqualChecksums: the checksum of the privileges     *)
(* leaves the parties out, and is still that of one set of privileges      *)
(* only, once the parties of one copy are among those of the other.        *)
(***************************************************************************)
EXTENDS BrokerTableProofs, FiniteSetTheorems

\* The parties that a table's privileges are for, and a party's place among
\* them.
Dests(f) == {d \in Parties : f[d] # NoPriv}
Place(f, d) == Cardinality({e \in Dests(f) : e < d})

\* No two parties have the same place.
LEMMA PlacesDiffer ==
    ASSUME NEW f, NEW a \in Dests(f), NEW b \in Dests(f), a < b
    PROVE  Place(f, a) # Place(f, b)
<1>0. Dests(f) \subseteq Nat /\ IsFiniteSet(Dests(f))
  <2>1. Dests(f) \in SUBSET Parties
    BY DEF Dests
  <2> QED
    BY <2>1, TableAssumption, FS_Subset
<1> DEFINE A == {e \in Dests(f) : e < a}
           B == {e \in Dests(f) : e < b}
<1>1. A \in SUBSET B /\ B \in SUBSET Dests(f)
  BY <1>0
<1>2. a \in B /\ a \notin A
  BY <1>0
<1>3. IsFiniteSet(B)
  BY <1>0, <1>1, FS_Subset
<1>4. Cardinality(B) # Cardinality(A)
  <2> HIDE DEF A, B
  <2> QED
    BY <1>1, <1>2, <1>3, FS_Subset
<1> QED
  BY <1>4 DEF Place

\* The checksum in these terms.
LEMMA ChecksumForm ==
    ASSUME NEW f PROVE CCLsChecksum(f) = {<<Place(f, d), f[d]>> : d \in Dests(f)}
BY DEF CCLsChecksum, Dests, Place

\* The checksum has as many members as there are parties.
LEMMA ChecksumSize ==
    ASSUME NEW f
    PROVE  Cardinality(CCLsChecksum(f)) = Cardinality(Dests(f))
<1>0. Dests(f) \subseteq Nat /\ IsFiniteSet(Dests(f))
  <2>1. Dests(f) \in SUBSET Parties
    BY DEF Dests
  <2> QED
    BY <2>1, TableAssumption, FS_Subset
<1> DEFINE h == [d \in Dests(f) |-> <<Place(f, d), f[d]>>]
<1>1. CCLsChecksum(f) = {<<Place(f, d), f[d]>> : d \in Dests(f)}
  BY ChecksumForm
<1>2. \A a, b \in Dests(f) : h[a] = h[b] => a = b
  <2> SUFFICES ASSUME NEW a \in Dests(f), NEW b \in Dests(f), h[a] = h[b] PROVE a = b
    OBVIOUS
  <2>1. Place(f, a) = Place(f, b)
    OBVIOUS
  <2>2. a \in Nat /\ b \in Nat
    BY <1>0
  <2> QED
    BY <2>1, <2>2, PlacesDiffer
<1>3. h \in [Dests(f) -> CCLsChecksum(f)] /\ \A x \in CCLsChecksum(f) : \E d \in Dests(f) : h[d] = x
  BY <1>1
<1>4. DOMAIN h = Dests(f)
  OBVIOUS
<1> HIDE DEF h
<1>5. h \in Bijection(Dests(f), CCLsChecksum(f))
  BY <1>2, <1>3, <1>4 DEF Bijection, Injection, Surjection, IsInjective
<1>6. ExistsBijection(Dests(f), CCLsChecksum(f))
  BY <1>5 DEF ExistsBijection
<1> QED
  BY <1>0, <1>6, FS_Bijection

\* Privileges with equal checksums are equal, if those of the one are for
\* parties that the other has some for, too.
LEMMA EqualChecksums ==
    ASSUME NEW f, NEW g, CCLsChecksum(f) = CCLsChecksum(g), Dests(f) \subseteq Dests(g)
    PROVE  \A d \in Parties : g[d] # NoPriv => f[d] = g[d]
<1>0. Dests(g) \subseteq Nat /\ IsFiniteSet(Dests(g))
  <2>1. Dests(g) \in SUBSET Parties
    BY DEF Dests
  <2> QED
    BY <2>1, TableAssumption, FS_Subset
<1>1. Dests(f) = Dests(g)
  <2>1. Cardinality(Dests(f)) = Cardinality(Dests(g))
    BY ChecksumSize
  <2> QED
    BY <1>0, <2>1, FS_Subset
<1>2. \A d : Place(f, d) = Place(g, d)
  BY <1>1 DEF Place
<1>3. ASSUME NEW d \in Dests(g) PROVE f[d] = g[d]
  <2>1. <<Place(g, d), g[d]>> \in CCLsChecksum(g)
    BY ChecksumForm
  <2>2. PICK e \in Dests(f) : <<Place(g, d), g[d]>> = <<Place(f, e), f[e]>>
    BY <2>1, ChecksumForm
  <2>3. Place(g, d) = Place(g, e) /\ g[d] = f[e] /\ e \in Dests(g)
    BY <1>1, <1>2, <2>2
  <2>4. d \in Nat /\ e \in Nat
    BY <1>0, <2>3
  <2>5. d = e
    BY <2>3, <2>4, PlacesDiffer
  <2> QED
    BY <2>3, <2>5
<1> QED
  BY <1>3 DEF Dests

\* A repair ends with CheckUpdate.
LEMMA RepairEnds ==
    ASSUME TypeOK, [Next]_vars, NEW q \in Parties, check[q].pc = "update", check'[q].pc = "done"
    PROVE  CheckUpdate(q)
<1>0. check \in [Parties -> Checks]
  BY DEF TypeOK
<1> HIDE DEF TypeOK
<1>1. check' # check
  OBVIOUS
<1>2. ASSUME NEW p \in Parties, NEW t \in Tables,
             \/ \E s \in Schemas : CreateTable(p, t, s)
             \/ \E row \in looked[p][t] : AddTable(p, t, row) \/ AddTableFails(p, t, row)
             \/ \E x \in Parties : CallTimeout(p, t, x)
             \/ CreateCommit(p, t) \/ CreateUndo(p, t) \/ CreateRollback(p, t)
             \/ DropTable(p, t) \/ DropCommit(p, t)
             \/ \E d \in Parties : RevokeCCL(p, t, d) \/ \E v \in Privs : GrantCCL(p, t, d, v)
      PROVE  check' = check
  BY <1>2, Zenon DEF CreateTable, AddTable, AddTableFails, CallTimeout, CreateCommit, CreateUndo,
     CreateRollback, DropTable, DropCommit, RevokeCCL, GrantCCL
<1>3. ASSUME NEW m \in net, SyncInfo(m) \/ Lose(m) PROVE check' = check
  BY <1>3, Zenon DEF SyncInfo, Lose, ServeCreate, RefuseCreate, ServeDrop, ServeGrant, ServeRevoke
<1>4. ASSUME NEW x \in Parties, GrantWrite(x) \/ RevokeWrite(x) PROVE check' = check
  BY <1>4, Zenon DEF GrantWrite, RevokeWrite
<1>5. UNCHANGED vars => check' = check
  BY DEF vars
<1>6. ASSUME NEW x \in Parties, NEW c, check' = [check EXCEPT ![x] = c], c.pc # "done"
      PROVE  FALSE
  BY <1>0, <1>6
<1>7. ASSUME NEW x \in Parties, NEW p \in Parties, CheckLocal(x, p) PROVE FALSE
  <2> DEFINE c == [pc |-> "ask", peer |-> p, local |-> GetProjectMeta(x, p)]
  <2>1. check' = [check EXCEPT ![x] = c] /\ c.pc # "done"
    BY <1>7, Zenon DEF CheckLocal
  <2> QED
    BY <1>6, <2>1
<1>8. ASSUME NEW x \in Parties, CheckRemote(x) PROVE FALSE
  <2> DEFINE r == GetProjectMeta(check[x].peer, check[x].peer)
             c == IF StatusOwned(r)
                  THEN [pc |-> "update", peer |-> check[x].peer, local |-> check[x].local,
                        remote |-> r]
                  ELSE IdleCheck
  <2>1. check' = [check EXCEPT ![x] = c]
    BY <1>0, <1>8, Zenon DEF CheckRemote
  <2>2. c.pc # "done"
    <3> HIDE DEF r
    <3> QED
      BY DEF IdleCheck
  <2> HIDE DEF c
  <2> QED
    BY <1>6, <2>1, <2>2
<1>9. ASSUME NEW x \in Parties, CheckTimeout(x) \/ CheckFails(x) \/ Crash(x) PROVE FALSE
  <2>1. check' = [check EXCEPT ![x] = IdleCheck] /\ IdleCheck.pc # "done"
    BY <1>9, Zenon DEF CheckTimeout, CheckFails, Crash, IdleCheck
  <2> QED
    BY <1>6, <2>1
<1>10. ASSUME NEW x \in Parties, CheckConflict(x) PROVE FALSE
  <2> DEFINE c == [pc |-> "conflict", peer |-> check[x].peer]
  <2>1. check' = [check EXCEPT ![x] = c] /\ c.pc # "done"
    BY <1>0, <1>10, Zenon DEF CheckConflict
  <2> QED
    BY <1>6, <2>1
<1>11. ASSUME NEW x \in Parties, CheckUpdate(x) PROVE x = q
  <2>1. \E c : check' = [check EXCEPT ![x] = c]
    BY <1>11, Zenon DEF CheckUpdate
  <2> QED
    BY <1>0, <2>1
<1> QED
  BY <1>1, <1>2, <1>3, <1>4, <1>5, <1>7, <1>8, <1>9, <1>10, <1>11, Zenon DEF Next

\* What was read, if it is still true.
LEMMA MetaOf ==
    ASSUME NEW b, NEW o, NEW t \in Tables, NEW m, m = GetProjectMeta(b, o)
    PROVE  /\ m.tables[t] = IF Holds(b, t, o) THEN tables[b][t] ELSE NoTable
           /\ Holds(b, t, o) => m.ccls[t] = privs[b][t]
BY DEF GetProjectMeta

\* The repair of one table.
LEMMA RepairOfTable ==
    ASSUME TypeOK, NEW q \in Parties, NEW p \in Parties, p # q, NEW c, c = check[q],
           c.peer = p, CheckUpdate(q), NEW t \in Tables,
           c.local = GetProjectMeta(q, p), c.remote = GetProjectMeta(p, p), ~Leftover(q, p),
           ~Unseen(q, p)
    PROVE  /\ Holds(q, t, p)' <=> Holds(p, t, p)'
           /\ Holds(p, t, p)' =>
                /\ tables'[q][t].schema = tables'[p][t].schema
                /\ \A d \in Parties : privs'[p][t][d] # NoPriv => privs'[q][t][d] = privs'[p][t][d]
<1>0. /\ tables \in [Parties -> [Tables -> Row \cup {NoTable}]]
      /\ privs \in [Parties -> [Tables -> [Parties -> Priv \cup {NoPriv}]]]
  BY DEF TypeOK
<1> HIDE DEF TypeOK
<1>1. /\ tables' = [tables EXCEPT ![q] = [u \in Tables |-> UpdatedRow(q, c, u)]]
      /\ privs' = [privs EXCEPT ![q] = [u \in Tables |-> UpdatedPrivs(q, c, u)]]
      /\ ~Conflicts(q, c)
  BY Zenon DEF CheckUpdate
<1>2. /\ tables'[q][t] = UpdatedRow(q, c, t) /\ privs'[q][t] = UpdatedPrivs(q, c, t)
      /\ tables'[p] = tables[p] /\ privs'[p] = privs[p]
  <2> HIDE DEF UpdatedRow, UpdatedPrivs
  <2> QED
    BY <1>0, <1>1
<1>3. /\ c.local.tables[t] = IF Holds(q, t, p) THEN tables[q][t] ELSE NoTable
      /\ Holds(q, t, p) => c.local.ccls[t] = privs[q][t]
      /\ c.remote.tables[t] = IF Holds(p, t, p) THEN tables[p][t] ELSE NoTable
      /\ Holds(p, t, p) => c.remote.ccls[t] = privs[p][t]
  BY MetaOf
<1>4. Holds(p, t, p)' <=> Holds(p, t, p)
  BY <1>2 DEF Holds
<1>5. CASE ~Holds(p, t, p)
  <2>1. c.remote.tables[t] = NoTable
    BY <1>3, <1>5
  <2>2. UpdatedRow(q, c, t) = IF Holds(q, t, p) THEN NoTable ELSE tables[q][t]
    BY <1>3, <2>1 DEF UpdatedRow, Replaced, Gone, Holds
  <2>3. ~Holds(q, t, p)'
    BY <1>2, <2>2 DEF Holds
  <2> QED
    BY <1>4, <1>5, <2>3
<1>6. CASE Holds(p, t, p)
  <2>1. /\ c.remote.tables[t] = tables[p][t] /\ c.remote.tables[t] # NoTable
        /\ c.remote.ccls[t] = privs[p][t] /\ tables[p][t].owner = p
    BY <1>3, <1>6 DEF Holds
  <2>2. tables[q][t] = NoTable \/ Holds(q, t, p)
    BY <1>1, <2>1 DEF Conflicts, CheckedNames, AddAllowed
  <2>e. ~Gone(c, t) /\ ~(Replaced(c, t) /\ Regranted(c, t))
    BY <2>1 DEF Gone, Replaced, Regranted
  <2>3. CASE Replaced(c, t)
    <3>1. tables'[q][t] = tables[p][t]
      <4>1. UpdatedRow(q, c, t) = c.remote.tables[t]
        BY <2>3, <2>e DEF UpdatedRow
      <4> QED
        BY <1>2, <2>1, <4>1
    <3>2. privs'[q][t] = Granted(AddedPrivs(q, t), privs[p][t])
      <4>1. UpdatedPrivs(q, c, t) = Granted(AddedPrivs(q, t), c.remote.ccls[t])
        BY <2>3, <2>e DEF UpdatedPrivs
      <4> QED
        BY <1>2, <2>1, <4>1
    <3>3. \A d \in Parties : privs[p][t][d] # NoPriv => privs'[q][t][d] = privs[p][t][d]
      BY <3>2 DEF Granted
    <3> QED
      BY <1>2, <1>4, <1>6, <2>1, <3>1, <3>3 DEF Holds
  <2>4. ASSUME ~Replaced(c, t)
        PROVE  /\ Holds(q, t, p) /\ SameSchema(tables[q][t], tables[p][t])
               /\ tables[q][t].schema = tables[p][t].schema
               /\ c.local.tables[t] = tables[q][t] /\ c.local.tables[t] # NoTable
               /\ c.local.ccls[t] = privs[q][t] /\ ~Gone(c, t) /\ tables'[q][t] = tables[q][t]
    <3>1. Holds(q, t, p)
      BY <1>3, <2>1, <2>4 DEF Replaced
    <3>2. /\ c.local.tables[t] = tables[q][t] /\ c.local.tables[t] # NoTable
          /\ c.local.ccls[t] = privs[q][t]
      BY <1>3, <3>1 DEF Holds
    <3>3. SameSchema(tables[q][t], tables[p][t])
      BY <2>1, <2>4, <3>2 DEF Replaced
    <3>s. tables[q][t].schema = tables[p][t].schema
      BY <1>6, <3>1, <3>3 DEF Unseen
    <3>4. ~Gone(c, t)
      BY <2>1 DEF Gone
    <3>5. tables'[q][t] = tables[q][t]
      BY <1>2, <2>4, <3>4 DEF UpdatedRow
    <3> QED
      BY <3>1, <3>2, <3>3, <3>s, <3>4, <3>5
  <2>5. CASE ~Replaced(c, t) /\ Regranted(c, t)
    <3>1. privs'[q][t] = Granted(privs[q][t], privs[p][t])
      <4>1. UpdatedPrivs(q, c, t) = Granted(privs[q][t], c.remote.ccls[t])
        BY <2>5, <2>e DEF UpdatedPrivs
      <4> QED
        BY <1>2, <2>1, <4>1
    <3>2. \A d \in Parties : privs[p][t][d] # NoPriv => privs'[q][t][d] = privs[p][t][d]
      BY <3>1 DEF Granted
    <3> QED
      BY <1>2, <1>4, <1>6, <2>4, <2>5, <3>2 DEF Holds
  <2>6. CASE ~Replaced(c, t) /\ ~Regranted(c, t)
    <3>1. privs'[q][t] = privs[q][t]
      BY <1>2, <2>4, <2>6 DEF UpdatedPrivs
    <3>2. CCLsChecksum(privs[q][t]) = CCLsChecksum(privs[p][t])
      BY <2>1, <2>4, <2>6 DEF Regranted
    <3>3. Dests(privs[q][t]) \subseteq Dests(privs[p][t])
      BY <1>6, <2>4, <2>6 DEF Dests, Leftover
    <3>4. \A d \in Parties : privs[p][t][d] # NoPriv => privs[q][t][d] = privs[p][t][d]
      BY <3>2, <3>3, EqualChecksums
    <3> QED
      BY <1>2, <1>4, <1>6, <2>4, <2>6, <3>1, <3>4 DEF Holds
  <2> QED
    BY <2>3, <2>5, <2>6
<1> QED
  BY <1>5, <1>6

\* The repair of all tables.
LEMMA RepairStep ==
    TypeOK /\ [Next]_vars => \A q \in Parties :
         /\ check[q].pc = "update" /\ check'[q].pc = "done"
         /\ check[q].local = GetProjectMeta(q, check[q].peer)
         /\ check[q].remote = GetProjectMeta(check[q].peer, check[q].peer)
         /\ ~Leftover(q, check[q].peer) /\ ~Unseen(q, check[q].peer)
         => Agree(q, check[q].peer)'
<1> SUFFICES ASSUME TypeOK, [Next]_vars, NEW q \in Parties,
                    check[q].pc = "update", check'[q].pc = "done",
                    check[q].local = GetProjectMeta(q, check[q].peer),
                    check[q].remote = GetProjectMeta(check[q].peer, check[q].peer),
                    ~Leftover(q, check[q].peer), ~Unseen(q, check[q].peer)
             PROVE  Agree(q, check[q].peer)'
  BY Zenon
<1>1. CheckUpdate(q)
  BY RepairEnds
<1>2. /\ check \in [Parties -> Checks] /\ check[q] \in Checks /\ check[q].peer # q
  BY DEF TypeOK
<1>3. check[q].peer \in Parties
  BY <1>2 DEF Checks
<1>4. check'[q].peer = check[q].peer
  <2>1. check' = [check EXCEPT ![q] = [pc |-> "done", peer |-> check[q].peer]]
    BY <1>1, <1>2, Zenon DEF CheckUpdate
  <2> QED
    BY <1>2, <2>1
<1> HIDE DEF TypeOK
<1>p. PICK p \in Parties : p = check[q].peer
  BY <1>3
<1>5. ASSUME NEW t \in Tables
      PROVE  /\ Holds(q, t, p)' <=> Holds(p, t, p)'
             /\ Holds(p, t, p)' =>
                  /\ tables'[q][t].schema = tables'[p][t].schema
                  /\ \A d \in Parties :
                       privs'[p][t][d] # NoPriv => privs'[q][t][d] = privs'[p][t][d]
  BY <1>1, <1>2, <1>p, RepairOfTable
<1>6. Agree(q, p)'
  BY <1>5, Zenon DEF Agree
<1>7. check'[q].peer = p
  BY <1>4, <1>p
<1> QED
  BY <1>6, <1>7, Zenon DEF Agree, Holds

\* CheckAndUpdateStatus leaves the copies like the owner's tables, for any number
\* of members and tables, when nothing it read changes under it and no copy is
\* one whose difference the checksums leave out: a privilege for a party without
\* one at the owner (the other parties are determined by what the checksum
\* covers), or an earlier ref table or database type with the same columns.
THEOREM RepairsHeal == Spec => RepairHeals
<1>1. TypeOK /\ [Next]_vars => [\A q \in Parties :
         /\ check[q].pc = "update" /\ check'[q].pc = "done"
         /\ check[q].local = GetProjectMeta(q, check[q].peer)
         /\ check[q].remote = GetProjectMeta(check[q].peer, check[q].peer)
         /\ ~Leftover(q, check[q].peer) /\ ~Unseen(q, check[q].peer)
         => Agree(q, check[q].peer)']_vars
  BY RepairStep
<1> QED
  BY <1>1, TypeInvariant, PTL DEF Spec, RepairHeals

================================================================================
