--------------------------- MODULE BrokerTableProofs ---------------------------
(***************************************************************************)
(* Proofs about the tables of a project, for any number of members,        *)
(* tables, requests and faults.                                            *)
(*                                                                         *)
(* OneOwner is not inductive: it depends on what the handlers in flight    *)
(* have been told.  OwnInv says it of claims: p has a claim on t against q *)
(* when p owns t, or p's handler has q's consent and no refusal so far,    *)
(* and two members never have claims against each other.  A claim against  *)
(* q is only won by inserting at q, which waits for q's own row and fails  *)
(* on it.                                                                  *)
(*                                                                         *)
(* NoPhantom follows from PhantomInv, which also says which calls are on   *)
(* their way and that a handler that undoes waits for every member that    *)
(* may store its row.                                                      *)
(***************************************************************************)
EXTENDS BrokerTable, TLAPS

Kinds == {"create", "drop", "grant", "revoke", "check", "fault"}

TablesOK == tables \in [Parties -> [Tables -> Row \cup {NoTable}]]

PrivsOK == privs \in [Parties -> [Tables -> [Parties -> Priv \cup {NoPriv}]]]

CreateOK ==
    /\ create \in [Parties -> [Tables -> Creates]]
    /\ \A p \in Parties, t \in Tables :
         Locked(p, t) => create[p][t].row.owner = p /\ p \notin create[p][t].wait

CheckOK ==
    /\ check \in [Parties -> Checks]
    /\ \A q \in Parties :
         /\ check[q].pc # "idle" => check[q].peer # q
         /\ check[q].pc = "update" =>
              \A t \in Tables : \/ check[q].remote.tables[t] = NoTable
                                \/ check[q].remote.tables[t].owner = check[q].peer

NetOK ==
    /\ net \subseteq Calls({"create"}, Row) \cup Calls({"drop", "undo"}, {NoTable})
                       \cup Calls({"grant"}, [dest : Parties, priv : Privs])
                       \cup Calls({"revoke"}, [dest : Parties])
    /\ \A m \in net : m.from # m.to /\ (m.kind = "create" => m.data.owner = m.from)

LookedOK ==
    /\ looked \in [Parties -> [Tables -> SUBSET Row]]
    /\ \A p \in Parties, t \in Tables : \A row \in looked[p][t] : row.owner = p

UsedOK == used \in [Kinds -> Nat]

GrantOK == granting \in [Parties -> Grants]

\* TypeOK, variable by variable.
LEMMA TypeParts ==
    TypeOK <=> /\ TablesOK /\ PrivsOK /\ LookedOK /\ CreateOK /\ GrantOK /\ CheckOK /\ NetOK
               /\ UsedOK
BY Zenon DEF TypeOK, TablesOK, PrivsOK, LookedOK, CreateOK, GrantOK, CheckOK, NetOK, UsedOK, Kinds

\* TypeOK in the next state, variable by variable.
LEMMA TypePartsNext ==
    TypeOK' <=> /\ TablesOK' /\ PrivsOK' /\ LookedOK' /\ CreateOK' /\ GrantOK' /\ CheckOK'
                /\ NetOK' /\ UsedOK'
BY Zenon DEF TypeOK, TablesOK, PrivsOK, LookedOK, CreateOK, GrantOK, CheckOK, NetOK, UsedOK, Kinds

\* The parties and the table of a call.
LEMMA CallParts ==
    ASSUME NetOK, NEW m \in net
    PROVE  /\ m.from \in Parties /\ m.to \in Parties /\ m.tbl \in Tables /\ m.n \in Nat
           /\ m.from # m.to
           /\ m.kind \in {"create", "drop", "undo", "grant", "revoke"}
           /\ m.kind = "create" => m.data \in Row /\ m.data.owner = m.from
           /\ m.kind \in {"grant", "revoke"} => m.data.dest \in Parties
           /\ m.kind = "grant" => m.data.priv \in Privs
BY DEF NetOK, Calls

\* A call that PostSyncInfo sends says what it is given, to another member.
LEMMA PostParts ==
    ASSUME NEW kind, NEW p, NEW t, NEW data, NEW n, NEW m \in PostSyncInfo(kind, p, t, data, n)
    PROVE  /\ m.kind = kind /\ m.from = p /\ m.to \in Others(p)
           /\ m.tbl = t /\ m.data = data /\ m.n = n
BY DEF PostSyncInfo

\* An answer takes its sender off the members the handler waits for.
LEMMA ToldParts ==
    ASSUME NEW h, NEW q, NEW ok
    PROVE  /\ Told(h, q, ok).pc = h.pc /\ Told(h, q, ok).row = h.row
           /\ Told(h, q, ok).wait = h.wait \ {q}
BY DEF Told

\* The steps of the handlers at p for table t.
HandlerStep(p, t) ==
    \/ \E s \in Schemas : CreateTable(p, t, s)
    \/ \E row \in looked[p][t] : AddTable(p, t, row) \/ AddTableFails(p, t, row)
    \/ \E q \in Parties : CallTimeout(p, t, q)
    \/ CreateCommit(p, t) \/ CreateUndo(p, t) \/ CreateRollback(p, t)
    \/ DropTable(p, t) \/ DropCommit(p, t)
    \/ \E d \in Parties : RevokeCCL(p, t, d) \/ \E v \in Privs : GrantCCL(p, t, d, v)

\* The steps of broker q.
BrokerStep(q) ==
    \/ GrantWrite(q) \/ RevokeWrite(q) \/ Crash(q)
    \/ \E p \in Parties : CheckLocal(q, p)
    \/ CheckRemote(q) \/ CheckTimeout(q) \/ CheckUpdate(q) \/ CheckConflict(q)
    \/ CheckFails(q)

\* A step is a handler's, a call's or a broker's.
LEMMA NextParts ==
    ASSUME [Next]_vars
    PROVE  \/ \E p \in Parties, t \in Tables : HandlerStep(p, t)
           \/ \E m \in net : SyncInfo(m) \/ Lose(m)
           \/ \E q \in Parties : BrokerStep(q)
           \/ UNCHANGED vars
BY Zenon DEF Next, HandlerStep, BrokerStep

\* A counter stays or goes up by one.
LEMMA UsedStep ==
    ASSUME UsedOK, [Next]_vars
    PROVE  UsedOK'
<1>1. CASE UNCHANGED used
  BY <1>1 DEF UsedOK
<1>2. ASSUME NEW k \in Kinds, NEW max, Use(k, max) PROVE UsedOK'
  BY <1>2 DEF UsedOK, Use
<1>3. ASSUME NEW p \in Parties, NEW t \in Tables, HandlerStep(p, t) PROVE UsedOK'
  BY <1>1, <1>2, <1>3, ZenonT(30) DEF HandlerStep, Kinds, CreateTable, AddTable, AddTableFails,
     CallTimeout, CreateCommit, CreateUndo, CreateRollback, DropTable, DropCommit, RevokeCCL,
     GrantCCL
<1>4. ASSUME NEW m \in net, SyncInfo(m) \/ Lose(m) PROVE UsedOK'
  BY <1>1, <1>2, <1>4, Zenon DEF SyncInfo, Kinds, ServeCreate, RefuseCreate, ServeDrop,
     ServeGrant, ServeRevoke, Lose
<1>5. ASSUME NEW q \in Parties, BrokerStep(q) PROVE UsedOK'
  BY <1>1, <1>2, <1>5 DEF BrokerStep, Kinds, GrantWrite, RevokeWrite, Crash, CheckLocal,
     CheckRemote, CheckTimeout, CheckUpdate, CheckConflict, CheckFails
<1> QED
  BY <1>1, <1>3, <1>4, <1>5, NextParts DEF vars

--------------------------------------------------------------------------------
(* What a step does to the tables.                                           *)

\* The rows that a repair leaves behind are the owner's or were there.
LEMMA UpdatedRowType ==
    ASSUME TypeOK, NEW q \in Parties, check[q].pc = "update", NEW t \in Tables
    PROVE  /\ UpdatedRow(q, check[q], t) \in Row \cup {NoTable}
           /\ \/ UpdatedRow(q, check[q], t) = NoTable
              \/ UpdatedRow(q, check[q], t) = tables[q][t]
              \/ UpdatedRow(q, check[q], t) = check[q].remote.tables[t]
           /\ check[q].remote.tables[t] \in Row \cup {NoTable}
           /\ check[q].remote.tables[t] # NoTable =>
                check[q].remote.tables[t].owner = check[q].peer
           /\ check[q].peer # q
<1>1. check[q].remote \in Meta
  BY ZenonT(30) DEF TypeOK, Checks
<1>2. check[q].remote.tables[t] \in Row \cup {NoTable}
  BY <1>1 DEF Meta
<1>3. tables[q][t] \in Row \cup {NoTable}
  BY DEF TypeOK
<1>4. \/ UpdatedRow(q, check[q], t) = NoTable
      \/ UpdatedRow(q, check[q], t) = tables[q][t]
      \/ UpdatedRow(q, check[q], t) = check[q].remote.tables[t]
  BY DEF UpdatedRow
<1>5. check[q].peer # q
  BY DEF TypeOK
<1>6. \/ check[q].remote.tables[t] = NoTable
      \/ check[q].remote.tables[t].owner = check[q].peer
  BY DEF TypeOK
<1> QED
  BY <1>2, <1>3, <1>4, <1>5, <1>6

\* The steps that leave the tables alone.
LEMMA TablesUnchanged ==
    ASSUME [Next]_vars
    PROVE  \/ UNCHANGED tables
           \/ \E p \in Parties, t \in Tables : CreateCommit(p, t) \/ DropCommit(p, t)
           \/ \E m \in net : ServeCreate(m) \/ ServeDrop(m)
           \/ \E q \in Parties : CheckUpdate(q)
<1>1. ASSUME NEW p \in Parties, NEW t \in Tables, HandlerStep(p, t)
      PROVE  UNCHANGED tables \/ CreateCommit(p, t) \/ DropCommit(p, t)
  BY <1>1, ZenonT(30) DEF HandlerStep, CreateTable, AddTable, AddTableFails, CallTimeout,
     CreateUndo, CreateRollback, DropTable, RevokeCCL, GrantCCL
<1>2. ASSUME NEW m \in net, SyncInfo(m) \/ Lose(m)
      PROVE  UNCHANGED tables \/ ServeCreate(m) \/ ServeDrop(m)
  BY <1>2, Zenon DEF SyncInfo, RefuseCreate, ServeGrant, ServeRevoke, Lose
<1>3. ASSUME NEW q \in Parties, BrokerStep(q) PROVE UNCHANGED tables \/ CheckUpdate(q)
  BY <1>3 DEF BrokerStep, GrantWrite, RevokeWrite, Crash, CheckLocal, CheckRemote, CheckTimeout,
     CheckConflict, CheckFails
<1> QED
  BY <1>1, <1>2, <1>3, NextParts DEF vars

\* Every step keeps the rows' type.
LEMMA TablesStep ==
    ASSUME TypeOK, [Next]_vars
    PROVE  TablesOK'
<1> USE TypeParts
<1>1. CASE UNCHANGED tables
  BY <1>1 DEF TablesOK
<1>2. ASSUME NEW p \in Parties, NEW t \in Tables, CreateCommit(p, t) PROVE TablesOK'
  <2>1. create[p][t].row \in Row
    <3>1. create[p][t] \in Creates
      BY DEF CreateOK
    <3> QED
      BY <1>2, <3>1, ZenonT(30) DEF CreateCommit, Creates
  <2> QED
    BY <1>2, <2>1 DEF CreateCommit, TablesOK
<1>3. ASSUME NEW p \in Parties, NEW t \in Tables, DropCommit(p, t) PROVE TablesOK'
  BY <1>3 DEF DropCommit, TablesOK
<1>4. ASSUME NEW m \in net, ServeCreate(m) PROVE TablesOK'
  BY <1>4, CallParts DEF ServeCreate, TablesOK
<1>5. ASSUME NEW m \in net, ServeDrop(m) PROVE TablesOK'
  BY <1>5, CallParts DEF ServeDrop, TablesOK
<1>6. ASSUME NEW q \in Parties, CheckUpdate(q) PROVE TablesOK'
  <2>1. \A t \in Tables : UpdatedRow(q, check[q], t) \in Row \cup {NoTable}
    BY <1>6, UpdatedRowType DEF CheckUpdate
  <2> QED
    BY <1>6, <2>1 DEF CheckUpdate, TablesOK
<1> QED
  BY <1>1, <1>2, <1>3, <1>4, <1>5, <1>6, TablesUnchanged

--------------------------------------------------------------------------------
(* What a step does to the privileges, the handlers and the calls.           *)

\* A revoked privilege is a privilege row.
LEMMA RevokedType ==
    ASSUME NEW f \in [Parties -> Priv \cup {NoPriv}], NEW d \in Parties
    PROVE  Revoked(f, d) \in [Parties -> Priv \cup {NoPriv}]
BY DEF Revoked, Priv

\* What a repair grants are privilege rows.
LEMMA UpdatedPrivsType ==
    ASSUME TypeOK, NEW q \in Parties, check[q].pc = "update", NEW t \in Tables
    PROVE  UpdatedPrivs(q, check[q], t) \in [Parties -> Priv \cup {NoPriv}]
<1> DEFINE R == [Parties -> Priv \cup {NoPriv}]
<1>1. privs[q][t] \in R /\ NoPrivs \in R
  BY DEF TypeOK, NoPrivs
<1>2. check[q].remote.ccls[t] \in R
  <2>1. check[q].remote \in Meta
    BY ZenonT(30) DEF TypeOK, Checks
  <2> QED
    BY <2>1 DEF Meta
<1>3. AddedPrivs(q, t) \in R
  BY <1>1 DEF AddedPrivs
<1>4. \A f, g \in R : Granted(f, g) \in R
  BY DEF Granted
<1> HIDE DEF R
<1>5. UpdatedPrivs(q, check[q], t) \in R
  BY <1>1, <1>2, <1>3, <1>4 DEF UpdatedPrivs
<1> QED
  BY <1>5 DEF R

\* Every step keeps the privileges' type.
LEMMA PrivsStep ==
    ASSUME TypeOK, [Next]_vars
    PROVE  PrivsOK'
<1> USE TypeParts
<1>0. NoPrivs \in [Parties -> Priv \cup {NoPriv}]
  BY DEF NoPrivs
<1>1. CASE UNCHANGED privs
  BY <1>1 DEF PrivsOK
<1>2. ASSUME NEW q \in Parties, NEW t \in Tables, NEW f \in [Parties -> Priv \cup {NoPriv}],
             privs' = [privs EXCEPT ![q][t] = f]
      PROVE  PrivsOK'
  BY <1>2 DEF PrivsOK
<1>3. ASSUME NEW p \in Parties, NEW t \in Tables, HandlerStep(p, t) PROVE PrivsOK'
  <2>1. CASE DropCommit(p, t)
    BY <2>1, <1>0, <1>2, Zenon DEF DropCommit
  <2>2. CASE CreateCommit(p, t)
    <3>1. AddedPrivs(p, t) \in [Parties -> Priv \cup {NoPriv}]
      BY <1>0 DEF AddedPrivs, PrivsOK
    <3> QED
      BY <2>2, <3>1, <1>2, Zenon DEF CreateCommit
  <2>3. UNCHANGED privs \/ DropCommit(p, t) \/ CreateCommit(p, t)
    BY <1>3, ZenonT(30) DEF HandlerStep, CreateTable, AddTable, AddTableFails, CallTimeout,
       CreateUndo, CreateRollback, DropTable, RevokeCCL, GrantCCL
  <2> QED
    BY <2>1, <2>2, <2>3, <1>1
<1>4. ASSUME NEW m \in net, SyncInfo(m) \/ Lose(m) PROVE PrivsOK'
  <2>0. m.to \in Parties /\ m.tbl \in Tables
    BY CallParts
  <2>1. CASE ServeCreate(m)
    <3>1. AddedPrivs(m.to, m.tbl) \in [Parties -> Priv \cup {NoPriv}]
      BY <2>0, <1>0 DEF AddedPrivs, PrivsOK
    <3> QED
      BY <2>0, <2>1, <3>1, <1>2, Zenon DEF ServeCreate
  <2>2. CASE ServeDrop(m)
    BY <2>0, <2>2, <1>0, <1>1, <1>2 DEF ServeDrop
  <2>3. CASE ServeRevoke(m)
    <3>1. m.data.dest \in Parties
      BY <2>3, CallParts DEF ServeRevoke
    <3>2. Revoked(privs[m.to][m.tbl], m.data.dest) \in [Parties -> Priv \cup {NoPriv}]
      BY <2>0, <3>1, RevokedType, Zenon DEF PrivsOK
    <3>3. \/ UNCHANGED privs
          \/ privs' = [privs EXCEPT ![m.to][m.tbl] = Revoked(privs[m.to][m.tbl], m.data.dest)]
      BY <2>0, <2>3 DEF ServeRevoke, PrivsOK
    <3> QED
      BY <2>0, <3>2, <3>3, <1>1, <1>2
  <2>4. CASE UNCHANGED privs
    BY <2>4, <1>1
  <2> QED
    BY <1>4, <2>1, <2>2, <2>3, <2>4, Zenon DEF SyncInfo, RefuseCreate, ServeGrant, Lose
<1>5. ASSUME NEW q \in Parties, BrokerStep(q) PROVE PrivsOK'
  <2>1. CASE GrantWrite(q)
    <3>1. /\ granting[q].tbl \in Tables /\ granting[q].dest \in Parties
          /\ granting[q].priv \in Privs
      BY <2>1 DEF GrantWrite, GrantOK, Grants
    <3>2. privs' = [privs EXCEPT ![q][granting[q].tbl][granting[q].dest] = granting[q].priv]
      BY <2>1 DEF GrantWrite
    <3> QED
      BY <3>1, <3>2 DEF PrivsOK, Priv
  <2>4. CASE RevokeWrite(q)
    <3>1. granting[q].tbl \in Tables /\ granting[q].dest \in Parties
      BY <2>4 DEF RevokeWrite, GrantOK, Grants
    <3>2. Revoked(privs[q][granting[q].tbl], granting[q].dest)
            \in [Parties -> Priv \cup {NoPriv}]
      BY <3>1, RevokedType, Zenon DEF PrivsOK
    <3>3. privs' = [privs EXCEPT ![q][granting[q].tbl] =
                      Revoked(privs[q][granting[q].tbl], granting[q].dest)]
      BY <2>4, <3>1 DEF RevokeWrite, PrivsOK
    <3> QED
      BY <3>1, <3>2, <3>3, <1>2, Zenon
  <2>2. CASE CheckUpdate(q)
    <3>1. \A t \in Tables : UpdatedPrivs(q, check[q], t) \in [Parties -> Priv \cup {NoPriv}]
      BY <2>2, UpdatedPrivsType DEF CheckUpdate
    <3> QED
      BY <2>2, <3>1 DEF CheckUpdate, PrivsOK
  <2>3. CASE UNCHANGED privs
    BY <2>3, <1>1
  <2> QED
    BY <1>5, <2>1, <2>2, <2>3, <2>4 DEF BrokerStep, Crash, CheckLocal, CheckRemote, CheckTimeout,
       CheckConflict, CheckFails
<1> QED
  BY <1>1, <1>3, <1>4, <1>5, NextParts DEF vars

\* The handlers that p may have in flight.
OwnCreates(p) ==
    {h \in Creates : h.pc # "idle" => h.row.owner = p /\ p \notin h.wait}

\* CreateOK, handler by handler.
LEMMA CreateParts ==
    CreateOK <=> /\ create \in [Parties -> [Tables -> Creates]]
                 /\ \A p \in Parties, t \in Tables : create[p][t] \in OwnCreates(p)
BY DEF CreateOK, OwnCreates, Locked

\* A step that changes one handler keeps their type.
LEMMA CreateChange ==
    ASSUME CreateOK, NEW p \in Parties, NEW t \in Tables, NEW h \in OwnCreates(p),
           create' = [create EXCEPT ![p][t] = h]
    PROVE  CreateOK'
<1>1. h \in Creates
  BY DEF OwnCreates
<1>2. create' \in [Parties -> [Tables -> Creates]]
  BY <1>1 DEF CreateOK
<1>3. \A a \in Parties, b \in Tables :
        create'[a][b] = IF a = p /\ b = t THEN h ELSE create[a][b]
  BY DEF CreateOK
<1>4. \A a \in Parties, b \in Tables :
        Locked(a, b)' => create'[a][b].row.owner = a /\ a \notin create'[a][b].wait
  BY <1>3 DEF CreateOK, Locked, OwnCreates
<1> QED
  BY <1>2, <1>4 DEF CreateOK

\* An idle handler has the type.
LEMMA IdleCreateType == \A p \in Parties : IdleCreate \in OwnCreates(p)
BY DEF IdleCreate, OwnCreates, Creates

\* An answer or a timeout leaves a handler in flight of the same type.
LEMMA ToldType ==
    ASSUME NEW p \in Parties, NEW h \in OwnCreates(p), h.pc # "idle", NEW q,
           NEW ok \in BOOLEAN
    PROVE  Told(h, q, ok) \in OwnCreates(p)
<1>1. h.pc \in {"post", "undo", "drop"} /\ h.row \in Row /\ h.wait \in SUBSET Parties
  BY Zenon DEF OwnCreates, Creates
<1>2. (h.err \/ ~ok) \in BOOLEAN
  OBVIOUS
<1>3. Told(h, q, ok) \in Creates
  BY <1>1, <1>2, Zenon DEF Told, Creates
<1> QED
  BY <1>1, <1>3 DEF Told, OwnCreates

\* An answer changes at most the handler that waits for it.
LEMMA AnswerType ==
    ASSUME TypeOK, NEW m \in net, NEW ok \in BOOLEAN, Answer(m, ok)
    PROVE  CreateOK'
<1> USE TypeParts
<1>0. m.from \in Parties /\ m.tbl \in Tables
  BY CallParts
<1>1. CASE ~Awaited(m)
  BY <1>1 DEF Answer, CreateOK, Locked
<1>2. CASE Awaited(m)
  <2>1. create[m.from][m.tbl] \in OwnCreates(m.from)
    BY <1>0, CreateParts
  <2>2. create[m.from][m.tbl].pc # "idle"
    BY <1>2 DEF Awaited
  <2>3. Told(create[m.from][m.tbl], m.to, ok) \in OwnCreates(m.from)
    BY <1>0, <2>1, <2>2, ToldType
  <2>4. create' = [create EXCEPT ![m.from][m.tbl] = Told(create[m.from][m.tbl], m.to, ok)]
    BY <1>0, <1>2 DEF Answer, CreateOK
  <2> QED
    BY <1>0, <2>3, <2>4, CreateChange, Zenon
<1> QED
  BY <1>1, <1>2

\* Every step keeps the handlers' type.
LEMMA CreateStep ==
    ASSUME TypeOK, [Next]_vars
    PROVE  CreateOK'
<1> USE TypeParts
<1>1. CASE UNCHANGED create
  BY <1>1 DEF CreateOK, Locked
<1>2. ASSUME NEW p \in Parties, NEW t \in Tables, HandlerStep(p, t) PROVE CreateOK'
  <2>0. create[p][t] \in OwnCreates(p)
    BY CreateParts
  <2>1. ASSUME NEW row \in looked[p][t], AddTable(p, t, row) PROVE CreateOK'
    <3>1. row \in Row /\ row.owner = p
      BY DEF LookedOK
    <3>2. [pc |-> "post", row |-> row, wait |-> Others(p), err |-> FALSE] \in OwnCreates(p)
      BY <3>1 DEF OwnCreates, Creates, Others
    <3> QED
      BY <2>1, <3>2, CreateChange, Zenon DEF AddTable
  <2>2. ASSUME NEW q \in Parties, CallTimeout(p, t, q) PROVE CreateOK'
    <3>1. Told(create[p][t], q, FALSE) \in OwnCreates(p)
      BY <2>0, <2>2, ToldType, Zenon DEF CallTimeout
    <3>2. create' = [create EXCEPT ![p][t] = Told(create[p][t], q, FALSE)]
      BY <2>2 DEF CallTimeout, CreateOK
    <3> QED
      BY <3>1, <3>2, CreateChange, Zenon
  <2>3. CASE CreateUndo(p, t)
    <3>1. create[p][t].row \in Row /\ create[p][t].row.owner = p
      BY <2>0, <2>3, Zenon DEF CreateUndo, OwnCreates, Creates
    <3>2. [pc |-> "undo", row |-> create[p][t].row, wait |-> Others(p), err |-> FALSE]
            \in OwnCreates(p)
      BY <3>1 DEF OwnCreates, Creates, Others
    <3>3. create' = [create EXCEPT ![p][t] =
            [pc |-> "undo", row |-> create[p][t].row, wait |-> Others(p), err |-> FALSE]]
      BY <2>3 DEF CreateUndo, CreateOK
    <3> QED
      BY <3>2, <3>3, CreateChange, Zenon
  <2>4. CASE CreateCommit(p, t) \/ CreateRollback(p, t) \/ DropCommit(p, t)
    BY <2>4, IdleCreateType, CreateChange DEF CreateCommit, CreateRollback, DropCommit
  <2>5. CASE DropTable(p, t)
    <3>1. tables[p][t] \in Row /\ tables[p][t].owner = p
      BY <2>5 DEF DropTable, Holds, TablesOK
    <3>2. [pc |-> "drop", row |-> tables[p][t], wait |-> {}, err |-> FALSE] \in OwnCreates(p)
      BY <3>1 DEF OwnCreates, Creates
    <3>3. create' = [create EXCEPT ![p][t] =
            [pc |-> "drop", row |-> tables[p][t], wait |-> {}, err |-> FALSE]]
      BY <2>5 DEF DropTable
    <3> QED
      BY <3>2, <3>3, CreateChange, Zenon
  <2> QED
    BY <1>1, <1>2, <2>1, <2>2, <2>3, <2>4, <2>5, Zenon DEF HandlerStep, CreateTable, AddTableFails,
       RevokeCCL, GrantCCL
<1>3. ASSUME NEW m \in net, SyncInfo(m) \/ Lose(m) PROVE CreateOK'
  <2>1. DropAllowed(m.to, m.tbl, m.from) \in BOOLEAN
    BY DEF DropAllowed
  <2>2. UNCHANGED create \/ \E ok \in BOOLEAN : Answer(m, ok)
    BY <1>3, <2>1, ZenonT(30) DEF SyncInfo, ServeCreate, RefuseCreate, ServeDrop, ServeGrant,
       ServeRevoke, Lose
  <2> QED
    BY <2>2, <1>1, AnswerType
<1>4. ASSUME NEW q \in Parties, BrokerStep(q) PROVE CreateOK'
  <2>1. CASE Crash(q)
    <3>1. create' = [create EXCEPT ![q] = [t \in Tables |-> IdleCreate]]
      BY <2>1 DEF Crash
    <3>2. IdleCreate \in Creates /\ IdleCreate.pc = "idle"
      BY DEF IdleCreate, Creates
    <3>3. create' \in [Parties -> [Tables -> Creates]]
      BY <3>1, <3>2 DEF CreateOK
    <3>4. \A a \in Parties, b \in Tables :
            create'[a][b] = IF a = q THEN IdleCreate ELSE create[a][b]
      BY <3>1 DEF CreateOK
    <3> QED
      BY <3>2, <3>3, <3>4 DEF CreateOK, Locked
  <2> QED
    BY <1>1, <1>4, <2>1 DEF BrokerStep, GrantWrite, RevokeWrite, CheckLocal, CheckRemote,
       CheckTimeout, CheckUpdate, CheckConflict, CheckFails
<1> QED
  BY <1>1, <1>2, <1>3, <1>4, NextParts DEF vars

\* A request that was looked up is for a row of its party.
LEMMA LookedStep ==
    ASSUME TypeOK, [Next]_vars
    PROVE  LookedOK'
<1> USE TypeParts
<1>1. CASE UNCHANGED looked
  BY <1>1 DEF LookedOK
<1>2. ASSUME NEW p \in Parties, NEW t \in Tables, NEW R \in SUBSET Row,
             \A row \in R : row.owner = p, looked' = [looked EXCEPT ![p][t] = R]
      PROVE  LookedOK'
  BY <1>2 DEF LookedOK
<1>3. ASSUME NEW p \in Parties, NEW t \in Tables, HandlerStep(p, t) PROVE LookedOK'
  <2>0. looked[p][t] \in SUBSET Row /\ \A row \in looked[p][t] : row.owner = p
    BY DEF LookedOK
  <2>1. ASSUME NEW s \in Schemas, CreateTable(p, t, s) PROVE LookedOK'
    <3> DEFINE row == [owner |-> p, schema |-> s, n |-> used'.create]
    <3>1. used'["create"] \in Nat
      BY UsedStep DEF UsedOK, Kinds
    <3>2. row \in Row /\ row.owner = p
      BY <3>1 DEF Row
    <3>3. looked' = [looked EXCEPT ![p][t] = looked[p][t] \cup {row}]
      BY <2>1 DEF CreateTable, LookedOK
    <3> HIDE DEF row
    <3> DEFINE R == looked[p][t] \cup {row}
    <3>4. R \in SUBSET Row /\ \A x \in R : x.owner = p
      BY <2>0, <3>2
    <3> HIDE DEF R
    <3> QED
      BY <3>3, <3>4, <1>2, Zenon DEF R
  <2>2. ASSUME NEW row \in looked[p][t], AddTable(p, t, row) \/ AddTableFails(p, t, row)
        PROVE  LookedOK'
    <3>1. looked' = [looked EXCEPT ![p][t] = looked[p][t] \ {row}]
      BY <2>2 DEF AddTable, AddTableFails, LookedOK
    <3> DEFINE R == looked[p][t] \ {row}
    <3>2. R \in SUBSET Row /\ \A x \in R : x.owner = p
      BY <2>0
    <3> HIDE DEF R
    <3> QED
      BY <3>1, <3>2, <1>2, Zenon DEF R
  <2> QED
    BY <1>1, <1>3, <2>1, <2>2, Zenon DEF HandlerStep, CallTimeout, CreateCommit, CreateUndo,
       CreateRollback, DropTable, DropCommit, RevokeCCL, GrantCCL
<1>4. ASSUME NEW m \in net, SyncInfo(m) \/ Lose(m) PROVE LookedOK'
  BY <1>1, <1>4, Zenon DEF SyncInfo, ServeCreate, RefuseCreate, ServeDrop, ServeGrant, ServeRevoke,
     Lose
<1>5. ASSUME NEW q \in Parties, BrokerStep(q) PROVE LookedOK'
  <2>1. CASE Crash(q)
    BY <2>1 DEF Crash, LookedOK
  <2> QED
    BY <1>1, <1>5, <2>1, Zenon DEF BrokerStep, GrantWrite, RevokeWrite, CheckLocal, CheckRemote,
       CheckTimeout, CheckUpdate, CheckConflict, CheckFails
<1> QED
  BY <1>1, <1>3, <1>4, <1>5, NextParts DEF vars

\* Every step keeps the type of the grants in flight.
LEMMA GrantStep ==
    ASSUME TypeOK, [Next]_vars
    PROVE  GrantOK'
<1> USE TypeParts
<1>0. NoGrant \in Grants
  BY DEF NoGrant, Grants
<1>1. CASE UNCHANGED granting
  BY <1>1 DEF GrantOK
<1>2. ASSUME NEW q \in Parties, NEW g \in Grants, granting' = [granting EXCEPT ![q] = g]
      PROVE  GrantOK'
  BY <1>2 DEF GrantOK
<1>3. ASSUME NEW p \in Parties, NEW t \in Tables, HandlerStep(p, t) PROVE GrantOK'
  <2>1. ASSUME NEW d \in Parties, NEW v \in Privs, GrantCCL(p, t, d, v) PROVE GrantOK'
    <3>1. [pc |-> "grant", from |-> p, tbl |-> t, dest |-> d, priv |-> v] \in Grants
      BY DEF Grants
    <3> QED
      BY <2>1, <3>1, <1>2, Zenon DEF GrantCCL
  <2>2. ASSUME NEW d \in Parties, RevokeCCL(p, t, d) PROVE GrantOK'
    <3>1. [pc |-> "revoke", tbl |-> t, dest |-> d] \in Grants
      BY DEF Grants
    <3> QED
      BY <2>2, <3>1, <1>2, Zenon DEF RevokeCCL
  <2> QED
    BY <1>1, <1>3, <2>1, <2>2, ZenonT(30) DEF HandlerStep, CreateTable, AddTable, AddTableFails,
       CallTimeout, CreateCommit, CreateUndo, CreateRollback, DropTable, DropCommit
<1>4. ASSUME NEW m \in net, SyncInfo(m) \/ Lose(m) PROVE GrantOK'
  <2>1. CASE ServeGrant(m)
    <3>1. /\ m.from \in Parties /\ m.to \in Parties /\ m.tbl \in Tables
          /\ m.data.dest \in Parties /\ m.data.priv \in Privs
      BY <2>1, CallParts DEF ServeGrant
    <3>2. [pc |-> "grant", from |-> m.from, tbl |-> m.tbl, dest |-> m.data.dest,
           priv |-> m.data.priv] \in Grants
      BY <3>1 DEF Grants
    <3> QED
      BY <2>1, <3>1, <3>2, <1>1, <1>2 DEF ServeGrant
  <2> QED
    BY <1>1, <1>4, <2>1, Zenon DEF SyncInfo, ServeCreate, RefuseCreate, ServeDrop, ServeRevoke, Lose
<1>5. ASSUME NEW q \in Parties, BrokerStep(q) PROVE GrantOK'
  <2>1. CASE GrantWrite(q) \/ RevokeWrite(q) \/ Crash(q)
    BY <2>1, <1>0, <1>2 DEF GrantWrite, RevokeWrite, Crash
  <2> QED
    BY <1>1, <1>5, <2>1 DEF BrokerStep, CheckLocal, CheckRemote, CheckTimeout,
       CheckUpdate, CheckConflict, CheckFails
<1> QED
  BY <1>1, <1>3, <1>4, <1>5, NextParts DEF vars

\* What a broker knows of an owner: rows of that owner.
LEMMA MetaType ==
    ASSUME TypeOK, NEW q \in Parties, NEW o \in Parties
    PROVE  /\ GetProjectMeta(q, o) \in Meta
           /\ \A t \in Tables : \/ GetProjectMeta(q, o).tables[t] = NoTable
                                \/ GetProjectMeta(q, o).tables[t].owner = o
<1> DEFINE own == {t \in Tables : Holds(q, t, o)}
           T == [t \in Tables |-> IF t \in own THEN tables[q][t] ELSE NoTable]
           C == [t \in Tables |-> IF t \in own \/ own = {} THEN privs[q][t] ELSE NoPrivs]
<1>1. GetProjectMeta(q, o) = [tables |-> T, ccls |-> C]
  BY DEF GetProjectMeta
<1>2. T \in [Tables -> Row \cup {NoTable}]
  BY DEF TypeOK
<1>3. C \in [Tables -> [Parties -> Priv \cup {NoPriv}]]
  BY DEF TypeOK, NoPrivs
<1>4. \A t \in Tables : T[t] = NoTable \/ T[t].owner = o
  BY DEF Holds
<1> HIDE DEF T, C
<1> QED
  BY <1>1, <1>2, <1>3, <1>4 DEF Meta

\* The runs of CheckAndUpdateStatus that q may have in flight.
OwnChecks(q) ==
    {c \in Checks :
        /\ c.pc # "idle" => c.peer # q
        /\ c.pc = "update" =>
             \A t \in Tables : c.remote.tables[t] = NoTable \/ c.remote.tables[t].owner = c.peer}

\* Every step keeps the type of the repairs in flight.
LEMMA CheckStep ==
    ASSUME TypeOK, [Next]_vars
    PROVE  CheckOK'
<1> USE TypeParts
<1>0. \A q \in Parties : IdleCheck \in OwnChecks(q) /\ check[q] \in OwnChecks(q)
  BY DEF IdleCheck, OwnChecks, Checks, CheckOK
<1>1. CASE UNCHANGED check
  BY <1>1 DEF CheckOK
<1>2. ASSUME NEW q \in Parties, NEW c \in OwnChecks(q), check' = [check EXCEPT ![q] = c]
      PROVE  CheckOK'
  <2>1. check' \in [Parties -> Checks]
    BY <1>2 DEF CheckOK, OwnChecks
  <2>2. \A a \in Parties : check'[a] = IF a = q THEN c ELSE check[a]
    BY <1>2 DEF CheckOK
  <2>3. \A a \in Parties : check'[a] \in OwnChecks(a)
    BY <2>2, <1>0
  <2> QED
    BY <2>1, <2>3 DEF CheckOK, OwnChecks
<1>3. ASSUME NEW p \in Parties, NEW t \in Tables, HandlerStep(p, t) PROVE CheckOK'
  BY <1>1, <1>3, Zenon DEF HandlerStep, CreateTable, AddTable, AddTableFails, CallTimeout,
     CreateCommit, CreateUndo, CreateRollback, DropTable, DropCommit, RevokeCCL, GrantCCL
<1>4. ASSUME NEW m \in net, SyncInfo(m) \/ Lose(m) PROVE CheckOK'
  BY <1>1, <1>4, Zenon DEF SyncInfo, ServeCreate, RefuseCreate, ServeDrop, ServeGrant, ServeRevoke,
     Lose
<1>5. ASSUME NEW q \in Parties, BrokerStep(q) PROVE CheckOK'
  <2>1. ASSUME NEW p \in Parties, CheckLocal(q, p) PROVE CheckOK'
    <3>1. [pc |-> "ask", peer |-> p, local |-> GetProjectMeta(q, p)] \in OwnChecks(q)
      BY <2>1, MetaType DEF CheckLocal, OwnChecks, Checks
    <3> QED
      BY <2>1, <3>1, <1>2, Zenon DEF CheckLocal
  <2>2. CASE CheckRemote(q)
    <3> DEFINE r == GetProjectMeta(check[q].peer, check[q].peer)
               c == [pc |-> "update", peer |-> check[q].peer, local |-> check[q].local,
                     remote |-> r]
    <3>1. check[q].peer \in Parties /\ check[q].local \in Meta /\ check[q].peer # q
      BY <2>2 DEF CheckRemote, CheckOK, Checks
    <3>2. /\ r \in Meta
          /\ \A t \in Tables : r.tables[t] = NoTable \/ r.tables[t].owner = check[q].peer
      BY <3>1, MetaType
    <3>3. check' = [check EXCEPT ![q] = IF StatusOwned(r) THEN c ELSE IdleCheck]
      BY <2>2 DEF CheckRemote, CheckOK
    <3> HIDE DEF r
    <3>4. c \in OwnChecks(q)
      BY <3>1, <3>2 DEF OwnChecks, Checks
    <3> QED
      BY <3>3, <3>4, <1>0, <1>2, Zenon
  <2>3. CASE CheckUpdate(q) \/ CheckConflict(q)
    <3>1. check[q].peer \in Parties /\ check[q].peer # q
      BY <2>3 DEF CheckUpdate, CheckConflict, CheckOK, Checks
    <3>2. \A a \in {"done", "conflict"} : [pc |-> a, peer |-> check[q].peer] \in OwnChecks(q)
      BY <3>1 DEF OwnChecks, Checks
    <3>3. \E a \in {"done", "conflict"} :
            check' = [check EXCEPT ![q] = [pc |-> a, peer |-> check[q].peer]]
      BY <2>3, Zenon DEF CheckUpdate, CheckConflict, CheckOK
    <3> QED
      BY <3>2, <3>3, <1>2, Zenon
  <2>4. CASE CheckTimeout(q) \/ CheckFails(q) \/ Crash(q)
    BY <2>4, <1>0, <1>2 DEF CheckTimeout, CheckFails, Crash
  <2> QED
    BY <1>1, <1>5, <2>1, <2>2, <2>3, <2>4 DEF BrokerStep, GrantWrite, RevokeWrite
<1> QED
  BY <1>1, <1>3, <1>4, <1>5, NextParts DEF vars

\* The calls between two different parties.
OwnCalls ==
    {m \in Calls({"create"}, Row) \cup Calls({"drop", "undo"}, {NoTable})
             \cup Calls({"grant"}, [dest : Parties, priv : Privs])
             \cup Calls({"revoke"}, [dest : Parties]) :
        m.from # m.to /\ (m.kind = "create" => m.data.owner = m.from)}

\* What a handler sends has the type of its kind.
LEMMA PostType ==
    ASSUME NEW p \in Parties, NEW t \in Tables, NEW n \in Nat
    PROVE  /\ \A r \in Row : r.owner = p => PostSyncInfo("create", p, t, r, n) \subseteq OwnCalls
           /\ \A k \in {"drop", "undo"} : PostSyncInfo(k, p, t, NoTable, n) \subseteq OwnCalls
           /\ \A r \in [dest : Parties, priv : Privs] :
                PostSyncInfo("grant", p, t, r, n) \subseteq OwnCalls
           /\ \A r \in [dest : Parties] : PostSyncInfo("revoke", p, t, r, n) \subseteq OwnCalls
<1>1. ASSUME NEW r \in Row, r.owner = p
      PROVE  PostSyncInfo("create", p, t, r, n) \subseteq OwnCalls
  BY <1>1 DEF PostSyncInfo, OwnCalls, Calls, Others
<1>2. ASSUME NEW k \in {"drop", "undo"}
      PROVE  PostSyncInfo(k, p, t, NoTable, n) \subseteq OwnCalls
  BY DEF PostSyncInfo, OwnCalls, Calls, Others
<1>3. ASSUME NEW r \in [dest : Parties, priv : Privs]
      PROVE  PostSyncInfo("grant", p, t, r, n) \subseteq OwnCalls
  BY DEF PostSyncInfo, OwnCalls, Calls, Others
<1>4. ASSUME NEW r \in [dest : Parties]
      PROVE  PostSyncInfo("revoke", p, t, r, n) \subseteq OwnCalls
  BY DEF PostSyncInfo, OwnCalls, Calls, Others
<1> QED
  BY <1>1, <1>2, <1>3, <1>4

\* Every step keeps the calls' type.
LEMMA NetStep ==
    ASSUME TypeOK, [Next]_vars
    PROVE  NetOK'
<1> USE TypeParts
<1>0. net \subseteq OwnCalls
  BY Zenon DEF NetOK, OwnCalls
<1>1. ASSUME net' \subseteq OwnCalls PROVE NetOK'
  BY <1>1, Zenon DEF NetOK, OwnCalls
<1>2. CASE UNCHANGED net
  BY <1>0, <1>1, <1>2
<1>3. ASSUME NEW D \in SUBSET OwnCalls, net' = net \cup D PROVE NetOK'
  BY <1>0, <1>1, <1>3
<1>4. \A k \in Kinds : used[k] \in Nat /\ used'[k] \in Nat
  BY UsedStep DEF UsedOK
<1>5. ASSUME NEW p \in Parties, NEW t \in Tables, HandlerStep(p, t) PROVE NetOK'
  <2>1. ASSUME NEW row \in looked[p][t], AddTable(p, t, row) PROVE NetOK'
    <3>1. row \in Row /\ row.owner = p /\ row.n \in Nat
      BY DEF LookedOK, Row
    <3>2. net' = net \cup PostSyncInfo("create", p, t, row, row.n)
      BY <2>1 DEF AddTable
    <3> QED
      BY <3>1, <3>2, PostType, <1>3
  <2>2. CASE CreateUndo(p, t)
    <3>1. create[p][t] \in Creates
      BY DEF CreateOK
    <3>2. create[p][t].row.n \in Nat
      BY <2>2, <3>1, Zenon DEF CreateUndo, Creates, Row
    <3> QED
      BY <2>2, <3>2, PostType, <1>3, Zenon DEF CreateUndo
  <2>3. CASE DropTable(p, t)
    BY <2>3, PostType, <1>3, <1>4, Zenon DEF DropTable, Kinds
  <2>4. ASSUME NEW d \in Parties, RevokeCCL(p, t, d) PROVE NetOK'
    <3>1. [dest |-> d] \in [dest : Parties]
      OBVIOUS
    <3> QED
      BY <2>4, <3>1, PostType, <1>3, <1>4, Zenon DEF RevokeCCL, Kinds
  <2>5. ASSUME NEW d \in Parties, NEW v \in Privs, GrantCCL(p, t, d, v) PROVE NetOK'
    <3>1. [dest |-> d, priv |-> v] \in [dest : Parties, priv : Privs]
      OBVIOUS
    <3> QED
      BY <2>5, <3>1, PostType, <1>3, <1>4, Zenon DEF GrantCCL, Kinds
  <2> QED
    BY <1>2, <1>5, <2>1, <2>2, <2>3, <2>4, <2>5, Zenon DEF HandlerStep, CreateTable, AddTableFails,
       CallTimeout, CreateCommit, CreateRollback, DropCommit
<1>6. ASSUME NEW m \in net, SyncInfo(m) \/ Lose(m) PROVE NetOK'
  <2>1. net' = net \ {m}
    BY <1>6, Zenon DEF SyncInfo, ServeCreate, RefuseCreate, ServeDrop, ServeGrant, ServeRevoke, Lose,
       Answer
  <2> QED
    BY <2>1, <1>0, <1>1, Zenon
<1>7. ASSUME NEW q \in Parties, BrokerStep(q) PROVE NetOK'
  BY <1>2, <1>7 DEF BrokerStep, GrantWrite, RevokeWrite, Crash, CheckLocal, CheckRemote,
     CheckTimeout, CheckUpdate, CheckConflict, CheckFails
<1> QED
  BY <1>2, <1>5, <1>6, <1>7, NextParts DEF vars

\* TypeOK holds in the initial state.
LEMMA TypeInit == Init => TypeOK
<1> SUFFICES ASSUME Init PROVE TypeOK
  OBVIOUS
<1>1. TablesOK /\ PrivsOK
  BY DEF Init, TablesOK, PrivsOK, NoPrivs
<1>2. CreateOK
  BY DEF Init, CreateOK, Locked, IdleCreate, Creates
<1>3. GrantOK /\ CheckOK
  BY DEF Init, GrantOK, CheckOK, NoGrant, Grants, IdleCheck, Checks
<1>4. NetOK /\ UsedOK /\ LookedOK
  BY DEF Init, NetOK, UsedOK, Kinds, LookedOK
<1> QED
  BY <1>1, <1>2, <1>3, <1>4, TypeParts

\* Every step of the brokers keeps the form of rows, handlers, calls and
\* repairs: what a party inserts, sends or answers is its own row.
LEMMA TypeStep == TypeOK /\ [Next]_vars => TypeOK'
BY TypePartsNext, TypeParts, TablesStep, PrivsStep, LookedStep, CreateStep, GrantStep, CheckStep,
   NetStep, UsedStep

\* Rows, handlers and calls always have the form their actions give them.
THEOREM TypeInvariant == Spec => []TypeOK
BY TypeInit, TypeStep, PTL DEF Spec

--------------------------------------------------------------------------------
(* One owner.                                                                *)

\* p's handler has q's consent, and no refusal so far.
Consents(p, t, q) ==
    create[p][t].pc = "post" /\ ~create[p][t].err /\ q \notin create[p][t].wait

\* p owns t, or may come to own it without asking q again.
Claims(p, t, q) == Holds(p, t, p) \/ Consents(p, t, q)

\* Two members never have claims against each other; a member that drops a
\* table still owns it.
OwnInv ==
    /\ \A p, q \in Parties, t \in Tables : p # q => ~(Claims(p, t, q) /\ Claims(q, t, p))
    /\ \A p \in Parties, t \in Tables :
         create[p][t].pc = "drop" => Holds(p, t, p)

\* The part of TypeOK that says where rows, handlers and repairs are.
LEMMA Shapes ==
    ASSUME TypeOK
    PROVE  /\ tables \in [Parties -> [Tables -> Row \cup {NoTable}]]
           /\ create \in [Parties -> [Tables -> Creates]]
           /\ check \in [Parties -> Checks]
BY DEF TypeOK

\* A step in which no claim is won keeps OwnInv.
LEMMA NoNewClaim ==
    ASSUME OwnInv,
           \A p \in Parties, t \in Tables :
               /\ Holds(p, t, p)' => Holds(p, t, p)
               /\ create'[p][t].pc = "drop" => Holds(p, t, p)'
               /\ \A q \in Parties : p # q /\ Consents(p, t, q)' => Consents(p, t, q)
    PROVE  OwnInv'
BY DEF OwnInv, Claims

\* A step that leaves the handlers alone wins no claim if no member gains or
\* loses a table.
LEMMA SameHandlers ==
    ASSUME OwnInv, UNCHANGED create,
           \A p \in Parties, t \in Tables : Holds(p, t, p)' <=> Holds(p, t, p)
    PROVE  OwnInv'
<1>1. \A p \in Parties, t \in Tables :
        create'[p][t].pc = "drop" => Holds(p, t, p)'
  BY DEF OwnInv, Locked
<1>2. \A p, q \in Parties, t \in Tables : Consents(p, t, q)' => Consents(p, t, q)
  BY DEF Consents
<1> QED
  BY <1>1, <1>2, NoNewClaim

\* What an answer does to the handlers.
LEMMA AnswerEffect ==
    ASSUME TypeOK, NEW m \in net, NEW ok \in BOOLEAN, Answer(m, ok)
    PROVE  \A p \in Parties, t \in Tables :
             /\ create'[p][t].pc = create[p][t].pc
             /\ \A q \in Parties : Consents(p, t, q)' =>
                  \/ Consents(p, t, q)
                  \/ ok /\ m.kind = "create" /\ p = m.from /\ t = m.tbl /\ q = m.to
<1>0. m.from \in Parties /\ m.tbl \in Tables
  BY CallParts, TypeParts
<1>1. CASE ~Awaited(m)
  BY <1>1 DEF Answer, Consents
<1>2. CASE Awaited(m)
  <2>1. \A p \in Parties, t \in Tables :
          create'[p][t] = IF p = m.from /\ t = m.tbl THEN Told(create[p][t], m.to, ok)
                                                     ELSE create[p][t]
    BY <1>0, <1>2, Shapes DEF Answer
  <2>2. create[m.from][m.tbl].pc = (IF m.kind = "create" THEN "post" ELSE "undo")
    BY <1>2 DEF Awaited
  <2>3. \A p \in Parties, t \in Tables : create'[p][t].pc = create[p][t].pc
    <3> SUFFICES ASSUME NEW p \in Parties, NEW t \in Tables
                 PROVE  create'[p][t].pc = create[p][t].pc
      OBVIOUS
    <3>1. CASE p = m.from /\ t = m.tbl
      <4>1. create'[p][t] = Told(create[p][t], m.to, ok)
        BY <2>1, <3>1
      <4> QED
        BY <4>1, ToldParts
    <3>2. CASE ~(p = m.from /\ t = m.tbl)
      BY <2>1, <3>2
    <3> QED
      BY <3>1, <3>2
  <2>5. ASSUME NEW p \in Parties, NEW t \in Tables, NEW q \in Parties,
               p = m.from, t = m.tbl, Consents(p, t, q)'
        PROVE  Consents(p, t, q) \/ (ok /\ m.kind = "create" /\ q = m.to)
    <3>1. create'[p][t] = Told(create[p][t], m.to, ok)
      BY <2>1, <2>5
    <3>2. /\ Told(create[p][t], m.to, ok).pc = "post"
          /\ ~Told(create[p][t], m.to, ok).err
          /\ q \notin Told(create[p][t], m.to, ok).wait
      BY <2>5, <3>1 DEF Consents
    <3>3. create[p][t].pc = "post" /\ ~create[p][t].err /\ ok
          /\ q \notin create[p][t].wait \ {m.to}
      BY <3>2, Zenon DEF Told
    <3>4. m.kind = "create"
      BY <2>2, <2>5, <3>3
    <3> QED
      BY <3>3, <3>4 DEF Consents
  <2>6. ASSUME NEW p \in Parties, NEW t \in Tables, NEW q \in Parties,
               ~(p = m.from /\ t = m.tbl), Consents(p, t, q)'
        PROVE  Consents(p, t, q)
    BY <2>1, <2>6 DEF Consents
  <2> QED
    BY <2>3, <2>5, <2>6
<1> QED
  BY <1>1, <1>2

\* The steps of a handler win no claim: a commit only makes good on one.
LEMMA OwnHandler ==
    ASSUME TypeOK, OwnInv, NEW p \in Parties, NEW t \in Tables, HandlerStep(p, t)
    PROVE  OwnInv'
<1>1. CASE UNCHANGED create /\ UNCHANGED tables
  BY <1>1, SameHandlers DEF Holds
<1>2. ASSUME NEW h, create' = [create EXCEPT ![p][t] = h], UNCHANGED tables,
             h.pc = "drop" => Holds(p, t, p),
             \A q \in Parties : p # q /\ h.pc = "post" /\ ~h.err /\ q \notin h.wait
                                  => Consents(p, t, q)
      PROVE  OwnInv'
  <2>1. \A a \in Parties, b \in Tables :
          create'[a][b] = IF a = p /\ b = t THEN h ELSE create[a][b]
    BY <1>2, Shapes
  <2>2. \A a \in Parties, b \in Tables : Holds(a, b, a)' <=> Holds(a, b, a)
    BY <1>2 DEF Holds
  <2>3. \A a \in Parties, b \in Tables :
          create'[a][b].pc = "drop" => Holds(a, b, a)'
    BY <1>2, <2>1, <2>2 DEF Locked, OwnInv
  <2>4. \A a, q \in Parties, b \in Tables :
          a # q /\ Consents(a, b, q)' => Consents(a, b, q)
    BY <1>2, <2>1 DEF Consents
  <2> QED
    BY <2>2, <2>3, <2>4, NoNewClaim, SMTT(20)
<1>3. ASSUME NEW row, AddTable(p, t, row) PROVE OwnInv'
  <2> DEFINE h == [pc |-> "post", row |-> row, wait |-> Others(p), err |-> FALSE]
  <2>1. create' = [create EXCEPT ![p][t] = h] /\ UNCHANGED tables
    BY <1>3 DEF AddTable
  <2>2. h.pc = "post" /\ \A q \in Parties : p # q => q \in h.wait
    BY DEF Others
  <2> HIDE DEF h
  <2> QED
    BY <2>1, <2>2, <1>2, Zenon
<1>4. ASSUME NEW q \in Parties, CallTimeout(p, t, q) PROVE OwnInv'
  <2> DEFINE h == Told(create[p][t], q, FALSE)
  <2>1. /\ create' = [create EXCEPT ![p][t] = h] /\ UNCHANGED tables
        /\ create[p][t].pc = "drop" => Holds(p, t, p)
    BY <1>4, Shapes DEF CallTimeout, OwnInv
  <2>2. h.err /\ h.pc = create[p][t].pc
    BY Zenon DEF Told
  <2> HIDE DEF h
  <2> QED
    BY <2>1, <2>2, <1>2, Zenon
<1>5. CASE CreateUndo(p, t)
  <2> DEFINE h == [pc |-> "undo", row |-> create[p][t].row, wait |-> Others(p), err |-> FALSE]
  <2>1. create' = [create EXCEPT ![p][t] = h] /\ UNCHANGED tables
    BY <1>5, Shapes DEF CreateUndo
  <2>2. h.pc = "undo"
    OBVIOUS
  <2> HIDE DEF h
  <2> QED
    BY <2>1, <2>2, <1>2, Zenon
<1>6. CASE CreateRollback(p, t)
  <2>1. create' = [create EXCEPT ![p][t] = IdleCreate] /\ UNCHANGED tables
    BY <1>6 DEF CreateRollback
  <2>2. IdleCreate.pc = "idle"
    BY DEF IdleCreate
  <2> QED
    BY <2>1, <2>2, <1>2, Zenon
<1>7. CASE DropTable(p, t)
  <2> DEFINE h == [pc |-> "drop", row |-> tables[p][t], wait |-> {}, err |-> FALSE]
  <2>1. create' = [create EXCEPT ![p][t] = h] /\ UNCHANGED tables /\ Holds(p, t, p)
    BY <1>7 DEF DropTable
  <2>2. h.pc = "drop"
    BY Zenon
  <2> HIDE DEF h
  <2> QED
    BY <2>1, <2>2, <1>2, Zenon
<1>9. CASE DropCommit(p, t)
  <2>1. \A a \in Parties, b \in Tables :
          /\ tables'[a][b] = IF a = p /\ b = t THEN NoTable ELSE tables[a][b]
          /\ create'[a][b] = IF a = p /\ b = t THEN IdleCreate ELSE create[a][b]
    BY <1>9, Shapes DEF DropCommit
  <2>2. \A a \in Parties, b \in Tables : Holds(a, b, a)' => Holds(a, b, a)
    BY <2>1 DEF Holds
  <2>3. \A a \in Parties, b \in Tables :
          create'[a][b].pc = "drop" => Holds(a, b, a)'
    BY <2>1 DEF Locked, Holds, IdleCreate, OwnInv
  <2>4. \A a, q \in Parties, b \in Tables : Consents(a, b, q)' => Consents(a, b, q)
    BY <2>1 DEF Consents, IdleCreate
  <2> QED
    BY <2>2, <2>3, <2>4, NoNewClaim
<1>8. CASE CreateCommit(p, t)
  <2>1. \A a \in Parties, b \in Tables :
          /\ tables'[a][b] = IF a = p /\ b = t THEN create[p][t].row ELSE tables[a][b]
          /\ create'[a][b] = IF a = p /\ b = t THEN IdleCreate ELSE create[a][b]
    BY <1>8, Shapes DEF CreateCommit
  <2>2. \A q \in Parties : Claims(p, t, q)
    BY <1>8, Zenon DEF CreateCommit, Claims, Consents
  <2>3. \A a, b \in Parties, u \in Tables : Claims(a, u, b)' => Claims(a, u, b)
    <3> SUFFICES ASSUME NEW a \in Parties, NEW b \in Parties, NEW u \in Tables, Claims(a, u, b)'
                 PROVE  Claims(a, u, b)
      BY Zenon
    <3>1. CASE a = p /\ u = t
      BY <2>2, <3>1, Zenon
    <3>2. CASE ~(a = p /\ u = t)
      <4>1. tables'[a][u] = tables[a][u] /\ create'[a][u] = create[a][u]
        BY <2>1, <3>2, Zenon
      <4> QED
        BY <4>1, Zenon DEF Claims, Consents, Holds
    <3> QED
      BY <3>1, <3>2, Zenon
  <2>4. \A a \in Parties, u \in Tables :
          create'[a][u].pc = "drop" => Holds(a, u, a)'
    <3> SUFFICES ASSUME NEW a \in Parties, NEW u \in Tables, create'[a][u].pc = "drop"
                 PROVE  Holds(a, u, a)'
      BY Zenon
    <3>1. ~(a = p /\ u = t)
      <4>1. create'[p][t] = IdleCreate
        BY <2>1, Zenon
      <4>2. IdleCreate.pc = "idle"
        BY Zenon DEF IdleCreate
      <4> QED
        BY <4>1, <4>2, Zenon
    <3>2. (Holds(a, u, a)' <=> Holds(a, u, a)) /\ create'[a][u] = create[a][u]
      BY <2>1, <3>1 DEF Holds
    <3> QED
      BY <3>2, Zenon DEF OwnInv
  <2>5. \A a, b \in Parties, u \in Tables : a # b => ~(Claims(a, u, b)' /\ Claims(b, u, a)')
    BY <2>3 DEF OwnInv
  <2> QED
    BY <2>4, <2>5 DEF OwnInv
<1> QED
  BY <1>1, <1>3, <1>4, <1>5, <1>6, <1>7, <1>8, <1>9, Zenon DEF HandlerStep, CreateTable,
     AddTableFails, RevokeCCL, GrantCCL

\* Nobody's own tables change.
KeepsOwn ==
    \A p \in Parties, t \in Tables :
        /\ Holds(p, t, p)' <=> Holds(p, t, p)
        /\ Holds(p, t, p) => tables'[p][t] = tables[p][t]

\* What other members ask of a broker, and what it repairs, leaves its own
\* tables alone.
LEMMA OwnRows ==
    ASSUME TypeOK,
           \/ UNCHANGED tables
           \/ \E m \in net : ServeCreate(m) \/ ServeDrop(m)
           \/ \E q \in Parties : CheckUpdate(q)
    PROVE  KeepsOwn
<1>1. CASE UNCHANGED tables
  BY <1>1 DEF KeepsOwn, Holds
<1>2. ASSUME NEW m \in net, ServeCreate(m) PROVE KeepsOwn
  <2>1. /\ m.to \in Parties /\ m.tbl \in Tables /\ m.from # m.to
        /\ m.data.owner = m.from
    BY <1>2, CallParts, TypeParts DEF ServeCreate
  <2>2. \A p \in Parties, t \in Tables :
          tables'[p][t] = IF p = m.to /\ t = m.tbl THEN m.data ELSE tables[p][t]
    BY <1>2, <2>1, Shapes, Zenon DEF ServeCreate
  <2>3. ~Holds(m.to, m.tbl, m.to)
    BY <1>2, <2>1 DEF ServeCreate, AddAllowed, Holds
  <2> QED
    BY <2>1, <2>2, <2>3 DEF KeepsOwn, Holds
<1>3. ASSUME NEW m \in net, ServeDrop(m) PROVE KeepsOwn
  <2>1. m.to \in Parties /\ m.tbl \in Tables /\ m.from # m.to
    BY CallParts, TypeParts, Zenon
  <2>2. CASE Holds(m.to, m.tbl, m.from)
    <3>1. \A p \in Parties, t \in Tables :
            tables'[p][t] = IF p = m.to /\ t = m.tbl THEN NoTable ELSE tables[p][t]
      BY <1>3, <2>1, <2>2, Shapes DEF ServeDrop
    <3>2. ~Holds(m.to, m.tbl, m.to)
      BY <2>1, <2>2 DEF Holds
    <3> QED
      BY <2>1, <3>1, <3>2, SMTT(20) DEF KeepsOwn, Holds
  <2>3. CASE ~Holds(m.to, m.tbl, m.from)
    BY <1>1, <1>3, <2>3 DEF ServeDrop
  <2> QED
    BY <2>2, <2>3
<1>4. ASSUME NEW q \in Parties, CheckUpdate(q) PROVE KeepsOwn
  <2>1. \A p \in Parties, t \in Tables :
          tables'[p][t] = IF p = q THEN UpdatedRow(q, check[q], t) ELSE tables[p][t]
    BY <1>4, Shapes, Zenon DEF CheckUpdate
  <2>2. ASSUME NEW t \in Tables
        PROVE  \/ UpdatedRow(q, check[q], t) = tables[q][t]
               \/ /\ ~Holds(q, t, q)
                  /\ \/ UpdatedRow(q, check[q], t) = NoTable
                     \/ UpdatedRow(q, check[q], t).owner # q
    <3>0. check[q].pc = "update" /\ ~Conflicts(q, check[q]) /\ UpdateAllowed(q, check[q])
      BY <1>4, Zenon DEF CheckUpdate
    <3>1. /\ check[q].peer # q
          /\ check[q].remote.tables[t] # NoTable =>
               check[q].remote.tables[t].owner = check[q].peer
      BY <3>0, UpdatedRowType, Zenon
    <3>2. CASE Replaced(check[q], t)
      <4>1. check[q].remote.tables[t] # NoTable
        BY <3>2 DEF Replaced
      <4>2. AddAllowed(q, t, check[q].peer)
        BY <3>0, <4>1 DEF Conflicts, CheckedNames
      <4>3. ~Holds(q, t, q)
        BY <3>1, <4>2 DEF AddAllowed, Holds
      <4>4. UpdatedRow(q, check[q], t) = check[q].remote.tables[t]
        BY <3>2, <4>1 DEF UpdatedRow, Gone
      <4> QED
        BY <3>1, <4>1, <4>3, <4>4, Zenon
    <3>3. CASE ~Replaced(check[q], t) /\ Gone(check[q], t)
      <4>1. DropAllowed(q, t, check[q].peer)
        BY <3>0, <3>3 DEF UpdateAllowed
      <4>2. ~Holds(q, t, q)
        BY <3>1, <4>1 DEF DropAllowed, Holds
      <4>3. UpdatedRow(q, check[q], t) = NoTable
        BY <3>3 DEF UpdatedRow
      <4> QED
        BY <4>2, <4>3, Zenon
    <3>4. CASE ~Replaced(check[q], t) /\ ~Gone(check[q], t)
      BY <3>4 DEF UpdatedRow
    <3> QED
      BY <3>2, <3>3, <3>4, Zenon
  <2> QED
    BY <2>1, <2>2 DEF KeepsOwn, Holds
<1> QED
  BY <1>1, <1>2, <1>3, <1>4

\* OwnInv holds in the initial state.
LEMMA OwnInit == Init => OwnInv
BY DEF Init, OwnInv, Claims, Consents, Holds, Locked, IdleCreate

\* Every step keeps OwnInv: consent is given where the other member neither
\* owns nor creates the table.
LEMMA OwnStep == TypeOK /\ OwnInv /\ [Next]_vars => OwnInv'
<1> SUFFICES ASSUME TypeOK, OwnInv, [Next]_vars PROVE OwnInv'
  OBVIOUS
<1>1. CASE \E p \in Parties, t \in Tables : HandlerStep(p, t)
  BY <1>1, OwnHandler
<1>2. ASSUME NEW m \in net, SyncInfo(m) \/ Lose(m) PROVE OwnInv'
  <2>0. KeepsOwn
    <3>1. UNCHANGED tables \/ ServeCreate(m) \/ ServeDrop(m)
      BY <1>2, Zenon DEF SyncInfo, RefuseCreate, ServeGrant, ServeRevoke, Lose
    <3> QED
      BY <3>1, OwnRows
  <2>1. CASE ServeCreate(m)
    <3>1. Answer(m, TRUE) /\ ~Locked(m.to, m.tbl) /\ AddAllowed(m.to, m.tbl, m.from)
      BY <2>1, Zenon DEF ServeCreate
    <3>2. m.from \in Parties /\ m.to \in Parties /\ m.tbl \in Tables /\ m.from # m.to
      BY CallParts, TypeParts, Zenon
    <3>3. ~Claims(m.to, m.tbl, m.from)
      BY <3>1, <3>2 DEF Claims, Consents, Locked, AddAllowed, Holds
    <3>4. \A p, q \in Parties, t \in Tables : Claims(p, t, q)' =>
            Claims(p, t, q) \/ (p = m.from /\ t = m.tbl /\ q = m.to)
      <4> SUFFICES ASSUME NEW p \in Parties, NEW q \in Parties, NEW t \in Tables,
                          Claims(p, t, q)', ~(p = m.from /\ t = m.tbl /\ q = m.to)
                   PROVE  Claims(p, t, q)
        OBVIOUS
      <4>1. Consents(p, t, q)' => Consents(p, t, q)
        BY <3>1, AnswerEffect, ZenonT(30)
      <4>2. Holds(p, t, p)' => Holds(p, t, p)
        BY <2>0, Zenon DEF KeepsOwn
      <4> QED
        BY <4>1, <4>2 DEF Claims
    <3>5. \A p, q \in Parties, t \in Tables : p # q => ~(Claims(p, t, q)' /\ Claims(q, t, p)')
      BY <3>2, <3>3, <3>4 DEF OwnInv
    <3>6. \A p \in Parties, t \in Tables :
            create'[p][t].pc = "drop" => Holds(p, t, p)'
      <4>1. \A p \in Parties, t \in Tables : create'[p][t].pc = create[p][t].pc
        BY <3>1, AnswerEffect, Zenon
      <4>2. \A p \in Parties, t \in Tables : Holds(p, t, p)' <=> Holds(p, t, p)
        BY <2>0, Zenon DEF KeepsOwn
      <4> QED
        BY <4>1, <4>2 DEF OwnInv, Locked
    <3> QED
      BY <3>5, <3>6 DEF OwnInv
  <2>2. ASSUME NEW ok \in BOOLEAN, Answer(m, ok), ~ok \/ m.kind # "create" PROVE OwnInv'
    <3>1. \A p \in Parties, t \in Tables :
            create'[p][t].pc = "drop" => Holds(p, t, p)'
      <4>1. \A p \in Parties, t \in Tables : create'[p][t].pc = create[p][t].pc
        BY <2>2, AnswerEffect, Zenon
      <4>2. \A p \in Parties, t \in Tables : Holds(p, t, p)' <=> Holds(p, t, p)
        BY <2>0, Zenon DEF KeepsOwn
      <4> QED
        BY <4>1, <4>2 DEF OwnInv, Locked
    <3>2. \A p, q \in Parties, t \in Tables : Consents(p, t, q)' => Consents(p, t, q)
      BY <2>2, AnswerEffect
    <3> QED
      BY <2>0, <3>1, <3>2, NoNewClaim, Zenon DEF KeepsOwn
  <2>3. CASE RefuseCreate(m)
    BY <2>2, <2>3, Zenon DEF RefuseCreate
  <2>4. CASE ServeDrop(m)
    <3>1. DropAllowed(m.to, m.tbl, m.from) \in BOOLEAN
      BY DEF DropAllowed
    <3>2. Answer(m, DropAllowed(m.to, m.tbl, m.from)) /\ m.kind # "create"
      BY <2>4 DEF ServeDrop
    <3> QED
      BY <2>2, <3>1, <3>2
  <2>5. CASE UNCHANGED create
    BY <2>0, <2>5, SameHandlers DEF KeepsOwn
  <2> QED
    BY <1>2, <2>1, <2>3, <2>4, <2>5 DEF SyncInfo, ServeGrant, ServeRevoke, Lose
<1>3. ASSUME NEW q \in Parties, BrokerStep(q) PROVE OwnInv'
  <2>0. KeepsOwn
    <3>1. UNCHANGED tables \/ CheckUpdate(q)
      BY <1>3, ZenonT(30) DEF BrokerStep, GrantWrite, RevokeWrite, Crash, CheckLocal, CheckRemote,
         CheckTimeout, CheckConflict, CheckFails
    <3> QED
      BY <3>1, OwnRows
  <2>1. CASE Crash(q)
    <3>1. \A a \in Parties, b \in Tables :
            create'[a][b] = IF a = q THEN IdleCreate ELSE create[a][b]
      BY <2>1, Shapes DEF Crash
    <3>2. \A a \in Parties, b \in Tables :
            create'[a][b] = create[a][b] \/ create'[a][b].pc = "idle"
      BY <3>1 DEF IdleCreate
    <3>3. \A a \in Parties, b \in Tables :
            /\ create'[a][b].pc = "drop" => Holds(a, b, a)'
            /\ \A r \in Parties : Consents(a, b, r)' => Consents(a, b, r)
      BY <2>0, <3>2 DEF Locked, Consents, KeepsOwn, OwnInv
    <3> QED
      BY <2>0, <3>3, NoNewClaim, Zenon DEF KeepsOwn
  <2>2. CASE UNCHANGED create
    BY <2>0, <2>2, SameHandlers DEF KeepsOwn
  <2> QED
    BY <1>3, <2>1, <2>2, Zenon DEF BrokerStep, GrantWrite, RevokeWrite, CheckLocal, CheckRemote,
       CheckTimeout, CheckUpdate, CheckConflict, CheckFails
<1>4. CASE UNCHANGED vars
  BY <1>4, SameHandlers DEF vars, Holds
<1> QED
  BY <1>1, <1>2, <1>3, <1>4, NextParts

\* Two members never own tables of the same name, whatever calls are late,
\* lost or refused and whoever restarts.
THEOREM OwnersDiffer == Spec => []OneOwner
<1>1. TypeOK /\ OwnInv /\ [Next]_vars => (TypeOK /\ OwnInv)'
  BY TypeStep, OwnStep
<1>2. Init => TypeOK /\ OwnInv
  BY TypeInit, OwnInit
<1>3. OwnInv => OneOwner
  BY Zenon DEF OwnInv, OneOwner, Claims
<1> QED
  BY <1>1, <1>2, <1>3, PTL DEF Spec

--------------------------------------------------------------------------------
(* The brokers implement one name space.                                     *)

\* What a step does to the tables that each party owns.
LEMMA OwnedEntry ==
    /\ \A p \in Parties, t \in Tables :
         Owned[p][t] = IF Holds(p, t, p) THEN tables[p][t].schema ELSE NoTable
    /\ \A p \in Parties, t \in Tables :
         Owned'[p][t] = IF Holds(p, t, p)' THEN tables'[p][t].schema ELSE NoTable
    /\ Owned = [p \in Parties |-> [t \in Tables |-> Owned[p][t]]]
    /\ Owned' = [p \in Parties |-> [t \in Tables |-> Owned'[p][t]]]
BY DEF Owned

\* Where nobody's own tables change, the directory stands still.
LEMMA DirectoryStutters == KeepsOwn => Owned' = Owned
<1> SUFFICES ASSUME KeepsOwn PROVE Owned' = Owned
  OBVIOUS
<1>1. \A p \in Parties, t \in Tables : Owned'[p][t] = Owned[p][t]
  BY OwnedEntry DEF KeepsOwn
<1> QED
  BY <1>1, OwnedEntry

\* A commit creates the table in the directory.
LEMMA CommitCreates ==
    ASSUME TypeOK, OwnInv, NEW p \in Parties, NEW t \in Tables, CreateCommit(p, t)
    PROVE  Directory!Next
<1> DEFINE r == create[p][t].row
<1>1. r \in Row /\ r.owner = p /\ r # NoTable /\ r.schema \in Schemas
  <2>1. create[p][t] \in Creates /\ Locked(p, t)
    BY Shapes DEF CreateCommit, Locked
  <2>2. r.owner = p
    BY <2>1, TypeParts DEF CreateOK
  <2>3. create[p][t].pc # "idle"
    BY <2>1 DEF Locked
  <2>4. r \in Row
    BY <2>1, <2>3, Zenon DEF Creates
  <2> QED
    BY <2>2, <2>4, TableAssumption DEF Row
<1>2. \A a \in Parties, b \in Tables :
        tables'[a][b] = IF a = p /\ b = t THEN r ELSE tables[a][b]
  BY Shapes DEF CreateCommit
<1>3. \A q \in Parties \ {p} : ~Holds(q, t, q)
  BY DEF CreateCommit, OwnInv, Claims, Consents
<1> HIDE DEF r
<1>4. \A q \in Parties \ {p} : Owned[q][t] = NoTable
  BY <1>3, OwnedEntry
<1>5. \A a \in Parties, b \in Tables :
        Owned'[a][b] = IF a = p /\ b = t THEN r.schema ELSE Owned[a][b]
  BY <1>1, <1>2, OwnedEntry DEF Holds
<1>6. Owned' = [Owned EXCEPT ![p][t] = r.schema]
  BY <1>5, OwnedEntry
<1>7. Directory!Create(p, t, r.schema)
  BY <1>4, <1>6 DEF Directory!Create
<1> QED
  BY <1>1, <1>7 DEF Directory!Next

\* The owner's drop drops the table from the directory.
LEMMA DropDrops ==
    ASSUME TypeOK, OwnInv, NEW p \in Parties, NEW t \in Tables, DropCommit(p, t)
    PROVE  Directory!Next
<1>1. \A a \in Parties, b \in Tables :
        tables'[a][b] = IF a = p /\ b = t THEN NoTable ELSE tables[a][b]
  BY Shapes DEF DropCommit
<1>2. Owned[p][t] # NoTable
  <2>1. Holds(p, t, p) /\ tables[p][t] \in Row
    BY Shapes DEF DropCommit, OwnInv, Holds
  <2> QED
    BY <2>1, OwnedEntry, TableAssumption DEF Row
<1>3. \A a \in Parties, b \in Tables :
        Owned'[a][b] = IF a = p /\ b = t THEN NoTable ELSE Owned[a][b]
  BY <1>1, OwnedEntry DEF Holds
<1>4. Owned' = [Owned EXCEPT ![p][t] = NoTable]
  BY <1>3, OwnedEntry
<1> QED
  BY <1>2, <1>4, Zenon DEF Directory!Drop, Directory!Next

\* Every step is a step of the directory or leaves it alone.
LEMMA DirectoryStep == TypeOK /\ OwnInv /\ [Next]_vars => [Directory!Next]_Owned
<1> SUFFICES ASSUME TypeOK, OwnInv, [Next]_vars PROVE Directory!Next \/ Owned' = Owned
  BY ZenonT(30)
<1>1. CASE \E p \in Parties, t \in Tables : CreateCommit(p, t)
  BY <1>1, CommitCreates
<1>2. CASE \E p \in Parties, t \in Tables : DropCommit(p, t)
  BY <1>2, DropDrops
<1>3. CASE \/ UNCHANGED tables
           \/ \E m \in net : ServeCreate(m) \/ ServeDrop(m)
           \/ \E q \in Parties : CheckUpdate(q)
  BY <1>3, OwnRows, DirectoryStutters
<1> QED
  BY <1>1, <1>2, <1>3, TablesUnchanged

\* The brokers together implement the directory: a table comes into being when
\* no other member owns its name, and only its owner replaces or drops it.
THEOREM Refinement == Spec => IsDirectory
<1>1. Init => Directory!Init
  <2> SUFFICES ASSUME Init PROVE Directory!Init
    OBVIOUS
  <2>1. \A p \in Parties, t \in Tables : ~Holds(p, t, p)
    BY DEF Init, Holds
  <2>2. \A p \in Parties, t \in Tables : Owned[p][t] = NoTable
    BY <2>1, OwnedEntry
  <2> QED
    BY <2>2, OwnedEntry DEF Directory!Init
<1>2. TypeOK /\ OwnInv /\ [Next]_vars => (TypeOK /\ OwnInv)'
  BY TypeStep, OwnStep
<1>3. Init => TypeOK /\ OwnInv
  BY TypeInit, OwnInit
<1> QED
  BY <1>1, <1>2, <1>3, DirectoryStep, PTL DEF Spec, IsDirectory, Directory!Spec

\* p's handler still answers for creation n at broker q.
Pending(p, t, n, q) ==
    /\ create[p][t].pc \in {"post", "undo"} /\ create[p][t].row.n = n
    /\ create[p][t].pc = "undo" => q \in create[p][t].wait

\* A row is of a table that was committed, or is in doubt, or is pending.
Accounted(r, t, q) == r.n \in committed \cup doubtful \/ Pending(r.owner, t, r.n, q)

RowsInv == \A q \in Parties, t \in Tables :
             tables[q][t] # NoTable => Accounted(tables[q][t], t, q)

\* What an owner stores or answers is committed.
CommittedInv ==
    /\ \A p \in Parties, t \in Tables : Holds(p, t, p) => tables[p][t].n \in committed
    /\ \A q \in Parties : check[q].pc = "update" =>
         \A t \in Tables : \/ check[q].remote.tables[t] = NoTable
                           \/ check[q].remote.tables[t].n \in committed

\* The handler waits for the answer to m.
Waits(m) ==
    /\ create[m.from][m.tbl].pc = "post" /\ create[m.from][m.tbl].row = m.data
    /\ m.to \in create[m.from][m.tbl].wait

\* A call on its way is in doubt, or its handler waits for it.
CallsInv == \A m \in net : m.kind = "create" =>
                m.n = m.data.n /\ (m.n \in doubtful \/ Waits(m))

PhantomInv == RowsInv /\ CommittedInv /\ CallsInv

\* What is committed or in doubt stays so.
LEMMA GhostsGrow ==
    ASSUME [Next]_vars
    PROVE  committed \subseteq committed' /\ doubtful \subseteq doubtful'
<1>1. ASSUME NEW p \in Parties, NEW t \in Tables, HandlerStep(p, t)
      PROVE  committed \subseteq committed' /\ doubtful \subseteq doubtful'
  BY <1>1, Zenon DEF HandlerStep, CreateTable, AddTable, AddTableFails, CallTimeout, CreateCommit,
     CreateUndo, CreateRollback, DropTable, DropCommit, RevokeCCL, GrantCCL
<1>2. ASSUME NEW m \in net, SyncInfo(m) \/ Lose(m)
      PROVE  committed \subseteq committed' /\ doubtful \subseteq doubtful'
  BY <1>2, Zenon DEF SyncInfo, ServeCreate, RefuseCreate, ServeDrop, ServeGrant, ServeRevoke, Lose
<1>3. ASSUME NEW q \in Parties, BrokerStep(q)
      PROVE  committed \subseteq committed' /\ doubtful \subseteq doubtful'
  BY <1>3, Zenon DEF BrokerStep, GrantWrite, RevokeWrite, Crash, CheckLocal, CheckRemote,
     CheckTimeout, CheckUpdate, CheckConflict, CheckFails
<1> QED
  BY <1>1, <1>2, <1>3, NextParts DEF vars

\* The owner's answer to a repair is committed.
LEMMA CommittedStep ==
    ASSUME TypeOK, CommittedInv, [Next]_vars
    PROVE  CommittedInv'
<1> USE GhostsGrow
<1>1. ASSUME NEW p \in Parties, NEW t \in Tables, Holds(p, t, p)'
      PROVE  tables'[p][t].n \in committed'
  <2>1. CASE KeepsOwn
    BY <1>1, <2>1 DEF KeepsOwn, CommittedInv
  <2>2. ASSUME NEW a \in Parties, NEW b \in Tables, CreateCommit(a, b)
        PROVE  tables'[p][t].n \in committed'
    <3>1. tables'[p][t] = IF p = a /\ t = b THEN create[a][b].row ELSE tables[p][t]
      BY <2>2, Shapes DEF CreateCommit
    <3>2. committed' = committed \cup {create[a][b].row.n}
      BY <2>2 DEF CreateCommit
    <3>3. CASE p = a /\ t = b
      BY <3>1, <3>2, <3>3
    <3>4. CASE ~(p = a /\ t = b)
      BY <1>1, <3>1, <3>4 DEF CommittedInv, Holds
    <3> QED
      BY <3>3, <3>4
  <2>3. ASSUME NEW a \in Parties, NEW b \in Tables, DropCommit(a, b)
        PROVE  tables'[p][t].n \in committed'
    <3>1. tables'[p][t] = IF p = a /\ t = b THEN NoTable ELSE tables[p][t]
      BY <2>3, Shapes, Zenon DEF DropCommit
    <3> QED
      BY <1>1, <3>1 DEF CommittedInv, Holds
  <2> QED
    BY <2>1, <2>2, <2>3, OwnRows, TablesUnchanged, Zenon
<1>2. ASSUME NEW q \in Parties, check'[q].pc = "update", NEW t \in Tables,
             check'[q].remote.tables[t] # NoTable
      PROVE  check'[q].remote.tables[t].n \in committed'
  <2>1. CASE check'[q] = check[q]
    BY <1>2, <2>1 DEF CommittedInv
  <2>2. ASSUME NEW a \in Parties, BrokerStep(a), check'[q] # check[q]
        PROVE  check'[q].remote.tables[t].n \in committed'
    <3>1. CASE CheckRemote(a)
      <4>0. PICK o : o = check[q].peer
        BY Zenon
      <4>1. a = q
        BY <2>2, <3>1, Shapes DEF CheckRemote
      <4>2. o \in Parties
        <5>1. check[q] \in Checks /\ check[q].pc = "ask"
          BY <3>1, <4>1, Shapes, Zenon DEF CheckRemote
        <5> QED
          BY <4>0, <5>1 DEF Checks
      <4>3. check'[q].remote = GetProjectMeta(o, o)
        BY <1>2, <3>1, <4>0, <4>1, Shapes, Zenon DEF CheckRemote, IdleCheck
      <4>4. Holds(o, t, o) /\ check'[q].remote.tables[t] = tables[o][t]
        <5>1. check'[q].remote.tables[t] = IF Holds(o, t, o) THEN tables[o][t] ELSE NoTable
          BY <4>3 DEF GetProjectMeta
        <5> QED
          BY <1>2, <5>1, Zenon
      <4>5. tables[o][t].n \in committed
        BY <4>2, <4>4, Zenon DEF CommittedInv
      <4> QED
        BY <4>4, <4>5, Zenon
    <3>2. CASE ~CheckRemote(a)
      <4>1. \/ check' = [check EXCEPT ![a] = check'[a]] /\ check'[a].pc # "update"
            \/ UNCHANGED check
        <5> DEFINE Ends == {IdleCheck, [pc |-> "done", peer |-> check[a].peer],
                            [pc |-> "conflict", peer |-> check[a].peer]}
        <5>1. \/ UNCHANGED check
              \/ \E c \in Ends : check' = [check EXCEPT ![a] = c]
              \/ \E x, l : check' = [check EXCEPT ![a] = [pc |-> "ask", peer |-> x, local |-> l]]
          BY <2>2, <3>2, Zenon DEF BrokerStep, GrantWrite, RevokeWrite, Crash, CheckLocal,
             CheckTimeout, CheckUpdate, CheckConflict, CheckFails
        <5>2. \A c \in Ends : c.pc # "update"
          BY DEF IdleCheck
        <5> HIDE DEF Ends
        <5> QED
          BY <5>1, <5>2, Shapes
      <4>2. ASSUME check' = [check EXCEPT ![a] = check'[a]], a # q PROVE FALSE
        BY <2>2, <4>2, Shapes
      <4> QED
        BY <1>2, <2>2, <4>1, <4>2, Zenon
    <3> QED
      BY <3>1, <3>2
  <2>3. ASSUME NEW a \in Parties, NEW b \in Tables, HandlerStep(a, b) PROVE UNCHANGED check
    BY <2>3, Zenon DEF HandlerStep, CreateTable, AddTable, AddTableFails, CallTimeout,
       CreateCommit, CreateUndo, CreateRollback, DropTable, DropCommit, RevokeCCL, GrantCCL
  <2>4. ASSUME NEW m \in net, SyncInfo(m) \/ Lose(m) PROVE UNCHANGED check
    BY <2>4, Zenon DEF SyncInfo, ServeCreate, RefuseCreate, ServeDrop, ServeGrant, ServeRevoke, Lose
  <2> QED
    BY <2>1, <2>2, <2>3, <2>4, NextParts, Zenon DEF vars
<1> QED
  BY <1>1, <1>2, Zenon DEF CommittedInv

\* Two calls for the same creation and the same broker are the same call.
LEMMA SameCall ==
    ASSUME TypeOK, NEW m \in net, NEW k \in net, m.kind = "create", k.kind = "create",
           m.from = k.from, m.to = k.to, m.tbl = k.tbl, m.data = k.data, m.n = k.n
    PROVE  m = k
<1>1. m \in Calls({"create"}, Row) /\ k \in Calls({"create"}, Row)
  BY TypeParts, Zenon DEF NetOK, Calls
<1> QED
  BY <1>1 DEF Calls

\* A handler that waits for a call goes on waiting until the call is served or
\* in doubt.
LEMMA WaitsHandler ==
    ASSUME TypeOK, CallsInv, NEW m \in net, m.kind = "create", Waits(m),
           NEW p \in Parties, NEW t \in Tables, HandlerStep(p, t)
    PROVE  Waits(m)' \/ m.n \in doubtful'
<1>0. m.from \in Parties /\ m.tbl \in Tables /\ m.n = m.data.n
  BY CallParts, TypeParts, Zenon DEF CallsInv
<1>1. CASE UNCHANGED create
  BY <1>1 DEF Waits
<1>2. ASSUME NEW h, create' = [create EXCEPT ![p][t] = h], p # m.from \/ t # m.tbl
      PROVE  Waits(m)'
  <2>1. create'[m.from][m.tbl] = create[m.from][m.tbl]
    BY <1>0, <1>2, Shapes
  <2> QED
    BY <2>1 DEF Waits
<1>3. CASE p = m.from /\ t = m.tbl
  <2>1. create[p][t].pc = "post" /\ m.to \in create[p][t].wait /\ create[p][t].row.n = m.n
    BY <1>0, <1>3 DEF Waits
  <2>2. ASSUME NEW q \in Parties, CallTimeout(p, t, q) PROVE m.n \in doubtful'
    BY <2>1, <2>2, Zenon DEF CallTimeout
  <2>3. /\ \A row : ~AddTable(p, t, row)
        /\ ~CreateCommit(p, t) /\ ~CreateUndo(p, t) /\ ~CreateRollback(p, t)
        /\ ~DropTable(p, t) /\ ~DropCommit(p, t)
    BY <2>1 DEF AddTable, Locked, CreateCommit, CreateUndo, CreateRollback, DropTable, DropCommit
  <2> QED
    BY <1>1, <2>2, <2>3, Zenon DEF HandlerStep, CreateTable, AddTableFails, RevokeCCL, GrantCCL
<1>4. CASE p # m.from \/ t # m.tbl
  <2>1. ASSUME NEW row, AddTable(p, t, row) PROVE Waits(m)'
    BY <1>2, <1>4, <2>1, Zenon DEF AddTable
  <2>2. ASSUME NEW q \in Parties, CallTimeout(p, t, q) PROVE Waits(m)'
    <3>1. create' = [create EXCEPT ![p][t] = Told(create[p][t], q, FALSE)]
      BY <2>2, Shapes DEF CallTimeout
    <3> QED
      BY <1>2, <1>4, <3>1, Zenon
  <2>3. CASE CreateUndo(p, t)
    <3>1. create' = [create EXCEPT ![p][t] =
            [pc |-> "undo", row |-> create[p][t].row, wait |-> Others(p), err |-> FALSE]]
      BY <2>3, Shapes DEF CreateUndo
    <3> QED
      BY <1>2, <1>4, <3>1, Zenon
  <2>4. CASE CreateCommit(p, t) \/ CreateRollback(p, t) \/ DropTable(p, t) \/ DropCommit(p, t)
    BY <1>2, <1>4, <2>4, Zenon DEF CreateCommit, CreateRollback, DropTable, DropCommit
  <2> QED
    BY <1>1, <2>1, <2>2, <2>3, <2>4, Zenon DEF HandlerStep, CreateTable, AddTableFails, RevokeCCL,
       GrantCCL
<1> QED
  BY <1>3, <1>4

\* Another call's answer does not end the wait.
LEMMA WaitsAnswer ==
    ASSUME TypeOK, CallsInv, NEW m \in net, m.kind = "create", Waits(m), m.n \notin doubtful,
           NEW k \in net, k # m, NEW ok \in BOOLEAN, Answer(k, ok)
    PROVE  Waits(m)'
<1>0. /\ m.from \in Parties /\ m.tbl \in Tables /\ m.n = m.data.n
      /\ k.from \in Parties /\ k.tbl \in Tables
  BY CallParts, TypeParts DEF CallsInv
<1>1. CASE ~Awaited(k) \/ k.from # m.from \/ k.tbl # m.tbl
  <2>1. create'[m.from][m.tbl] = create[m.from][m.tbl]
    BY <1>0, <1>1, Shapes, Zenon DEF Answer
  <2> QED
    BY <2>1 DEF Waits
<1>2. CASE Awaited(k) /\ k.from = m.from /\ k.tbl = m.tbl
  <2>1. k.kind = "create" /\ k.n = m.n
    BY <1>0, <1>2 DEF Awaited, Waits
  <2>2. Waits(k)
    BY <2>1 DEF CallsInv
  <2>3. k.to # m.to
    BY <1>2, <2>1, <2>2, SameCall, Zenon DEF Waits
  <2>4. create'[m.from][m.tbl] = Told(create[m.from][m.tbl], k.to, ok)
    BY <1>0, <1>2, Shapes DEF Answer
  <2> QED
    BY <2>3, <2>4, ToldParts DEF Waits
<1> QED
  BY <1>1, <1>2

\* The calls that a step adds are new, or not about creations.
LEMMA CallsStep ==
    ASSUME TypeOK, CallsInv, [Next]_vars
    PROVE  CallsInv'
<1> USE GhostsGrow
<1> SUFFICES ASSUME NEW m \in net', m.kind = "create"
             PROVE  m.n = m.data.n /\ (m.n \in doubtful' \/ Waits(m)')
  BY DEF CallsInv
<1>1. CASE m \in net
  <2>0. m.n = m.data.n /\ m.from \in Parties /\ m.tbl \in Tables
    BY <1>1, CallParts, TypeParts DEF CallsInv
  <2>1. CASE m.n \in doubtful
    BY <2>0, <2>1
  <2>2. CASE m.n \notin doubtful
    <3>0. Waits(m)
      BY <1>1, <2>2, Zenon DEF CallsInv
    <3>1. CASE UNCHANGED create
      BY <2>0, <3>0, <3>1 DEF Waits
    <3>2. ASSUME NEW p \in Parties, NEW t \in Tables, HandlerStep(p, t)
          PROVE  m.n \in doubtful' \/ Waits(m)'
      BY <1>1, <3>0, <3>2, WaitsHandler, Zenon
    <3>3. ASSUME NEW k \in net, SyncInfo(k) \/ Lose(k) PROVE Waits(m)'
      <4>1. net' = net \ {k}
        BY <3>3 DEF SyncInfo, ServeCreate, RefuseCreate, ServeDrop, ServeGrant, ServeRevoke,
           Lose, Answer
      <4>2. k # m
        BY <4>1
      <4>3. DropAllowed(k.to, k.tbl, k.from) \in BOOLEAN
        BY DEF DropAllowed
      <4>4. UNCHANGED create \/ \E ok \in BOOLEAN : Answer(k, ok)
        BY <3>3, <4>3, Zenon DEF SyncInfo, ServeCreate, RefuseCreate, ServeDrop, ServeGrant,
           ServeRevoke, Lose
      <4> QED
        BY <1>1, <2>2, <3>0, <3>1, <4>2, <4>4, WaitsAnswer, Zenon DEF Waits
    <3>4. ASSUME NEW q \in Parties, BrokerStep(q) PROVE m.n \in doubtful' \/ Waits(m)'
      <4>1. CASE Crash(q)
        <5>1. CASE q = m.from
          <6>1. Locked(q, m.tbl) /\ create[q][m.tbl].row.n = m.n
            BY <2>0, <3>0, <5>1 DEF Waits, Locked
          <6> QED
            BY <2>0, <4>1, <6>1, Zenon DEF Crash
        <5>2. CASE q # m.from
          <6>1. create'[m.from][m.tbl] = create[m.from][m.tbl]
            BY <2>0, <4>1, <5>2, Shapes, Zenon DEF Crash
          <6> QED
            BY <3>0, <6>1, Zenon DEF Waits
        <5> QED
          BY <5>1, <5>2, Zenon
      <4> QED
        BY <3>1, <3>4, <4>1, Zenon DEF BrokerStep, GrantWrite, RevokeWrite, CheckLocal, CheckRemote,
           CheckTimeout, CheckUpdate, CheckConflict, CheckFails
    <3> QED
      BY <2>0, <3>1, <3>2, <3>3, <3>4, NextParts DEF vars
  <2> QED
    BY <2>1, <2>2
<1>2. CASE m \notin net
  <2>0. ASSUME NEW kind, NEW p, NEW t, NEW data, NEW n, kind # "create",
               net' = net \cup PostSyncInfo(kind, p, t, data, n)
        PROVE  FALSE
    BY <1>2, <2>0, PostParts
  <2>1. ASSUME NEW p \in Parties, NEW t \in Tables, HandlerStep(p, t)
        PROVE  m.n = m.data.n /\ Waits(m)'
    <3>0. /\ ~CreateUndo(p, t) /\ ~DropTable(p, t)
          /\ \A d \in Parties : ~RevokeCCL(p, t, d) /\ \A v \in Privs : ~GrantCCL(p, t, d, v)
      BY <2>0 DEF CreateUndo, DropTable, RevokeCCL, GrantCCL
    <3>1. PICK r \in looked[p][t] : AddTable(p, t, r)
      BY <1>2, <2>1, <3>0, Zenon DEF HandlerStep, CreateTable, AddTableFails, CallTimeout,
         CreateCommit, CreateRollback, DropCommit
    <3>2. m \in PostSyncInfo("create", p, t, r, r.n)
      BY <1>2, <3>1, Zenon DEF AddTable
    <3>3. create'[p][t] = [pc |-> "post", row |-> r, wait |-> Others(p), err |-> FALSE]
      BY <3>1, Shapes, Zenon DEF AddTable
    <3>4. m.from = p /\ m.tbl = t /\ m.data = r /\ m.n = r.n /\ m.to \in Others(p)
      BY <3>2, PostParts
    <3>5. create'[p][t].pc = "post" /\ create'[p][t].row = r /\ create'[p][t].wait = Others(p)
      BY <3>3
    <3> QED
      BY <3>4, <3>5, Zenon DEF Waits
  <2>2. ASSUME NEW k \in net, SyncInfo(k) \/ Lose(k) PROVE FALSE
    BY <1>2, <2>2, Zenon DEF SyncInfo, ServeCreate, RefuseCreate, ServeDrop, ServeGrant, ServeRevoke,
       Lose, Answer
  <2>3. ASSUME NEW q \in Parties, BrokerStep(q) PROVE FALSE
    BY <1>2, <2>3, Zenon DEF BrokerStep, GrantWrite, RevokeWrite, Crash, CheckLocal, CheckRemote,
       CheckTimeout, CheckUpdate, CheckConflict, CheckFails
  <2> QED
    BY <1>2, <2>1, <2>2, <2>3, NextParts, Zenon DEF vars
<1> QED
  BY <1>1, <1>2

\* A handler answers for its row until the row is committed, in doubt or
\* dropped.
LEMMA PendingHandler ==
    ASSUME TypeOK, NEW o \in Parties, NEW t \in Tables, NEW n, NEW q \in Parties, q # o,
           Pending(o, t, n, q), NEW p \in Parties, NEW u \in Tables, HandlerStep(p, u)
    PROVE  Pending(o, t, n, q)' \/ n \in committed' \cup doubtful'
<1>1. CASE create'[o][t] = create[o][t]
  BY <1>1, Zenon DEF Pending, Locked
<1>2. ASSUME NEW row, AddTable(p, u, row)
      PROVE  Pending(o, t, n, q)' \/ n \in committed' \cup doubtful'
  <2>1. p # o \/ u # t
    BY <1>2 DEF AddTable, Locked, Pending
  <2>2. create'[o][t] = create[o][t]
    BY <1>2, <2>1, Shapes DEF AddTable
  <2> QED
    BY <1>1, <2>2
<1>3. ASSUME NEW x \in Parties, CallTimeout(p, u, x)
      PROVE  Pending(o, t, n, q)' \/ n \in committed' \cup doubtful'
  <2>1. CASE p = o /\ u = t
    BY <1>3, <2>1, Zenon DEF CallTimeout, Pending
  <2>2. CASE p # o \/ u # t
    <3>1. create' = [create EXCEPT ![p][u] = Told(create[p][u], x, FALSE)]
      BY <1>3, Shapes DEF CallTimeout
    <3>2. create'[o][t] = create[o][t]
      BY <2>2, <3>1, Shapes, Zenon
    <3> QED
      BY <1>1, <3>2
  <2> QED
    BY <2>1, <2>2
<1>4. CASE CreateCommit(p, u)
  <2>1. CASE p = o /\ u = t
    BY <1>4, <2>1 DEF CreateCommit, Pending
  <2>2. CASE p # o \/ u # t
    BY <1>1, <1>4, <2>2, Shapes, Zenon DEF CreateCommit
  <2> QED
    BY <2>1, <2>2
<1>5. CASE CreateUndo(p, u)
  <2>1. CASE p = o /\ u = t
    <3>1. create'[o][t] = [pc |-> "undo", row |-> create[o][t].row, wait |-> Others(o),
                           err |-> FALSE]
      <4>1. create' = [create EXCEPT ![o][t] =
              [pc |-> "undo", row |-> create[o][t].row, wait |-> Others(o), err |-> FALSE]]
        BY <1>5, <2>1, Shapes DEF CreateUndo
      <4>2. ASSUME NEW h, create' = [create EXCEPT ![o][t] = h] PROVE create'[o][t] = h
        BY <4>2, Shapes
      <4> QED
        BY <4>1, <4>2, Zenon
    <3> QED
      BY <3>1 DEF Pending, Locked, Others
  <2>2. CASE p # o \/ u # t
    BY <1>1, <1>5, <2>2, Shapes DEF CreateUndo
  <2> QED
    BY <2>1, <2>2
<1>6. CASE CreateRollback(p, u)
  <2>1. p # o \/ u # t
    BY <1>6, Zenon DEF CreateRollback, Pending
  <2> QED
    BY <1>1, <1>6, <2>1, Shapes DEF CreateRollback
<1>7. CASE DropTable(p, u) \/ DropCommit(p, u)
  <2>1. p # o \/ u # t
    BY <1>7 DEF DropTable, DropCommit, Locked, Pending
  <2>2. create'[o][t] = create[o][t]
    BY <1>7, <2>1, Shapes DEF DropTable, DropCommit
  <2> QED
    BY <1>1, <2>2, Zenon
<1> QED
  BY <1>1, <1>2, <1>3, <1>4, <1>5, <1>6, <1>7, Zenon DEF HandlerStep, CreateTable, AddTableFails,
     RevokeCCL, GrantCCL

\* An answer to somebody else's call, or to the call that creates the table,
\* leaves the handler responsible.
LEMMA PendingAnswer ==
    ASSUME TypeOK, NEW o \in Parties, NEW t \in Tables, NEW n, NEW q \in Parties,
           Pending(o, t, n, q), NEW k \in net, NEW ok \in BOOLEAN, Answer(k, ok),
           ~(k.kind = "undo" /\ k.from = o /\ k.tbl = t /\ k.to = q)
    PROVE  Pending(o, t, n, q)'
<1>0. k.from \in Parties /\ k.tbl \in Tables
  BY CallParts, TypeParts
<1>1. CASE create'[o][t] = create[o][t]
  BY <1>1, Zenon DEF Pending, Locked
<1>2. CASE Awaited(k) /\ k.from = o /\ k.tbl = t
  <2>1. create'[o][t] = Told(create[o][t], k.to, ok)
    BY <1>0, <1>2, Shapes, Zenon DEF Answer
  <2>2. create[o][t].pc = "undo" => k.kind = "undo"
    BY <1>2, Zenon DEF Awaited
  <2>3. create[o][t].pc = "undo" => q \in create[o][t].wait \ {k.to}
    BY <1>2, <2>2, Zenon DEF Pending
  <2> DEFINE h == Told(create[o][t], k.to, ok)
  <2>4. /\ h.pc = create[o][t].pc /\ h.row = create[o][t].row
        /\ h.wait = create[o][t].wait \ {k.to}
    BY Zenon DEF Told
  <2>5. /\ create'[o][t].pc = create[o][t].pc /\ create'[o][t].row = create[o][t].row
        /\ create'[o][t].wait = create[o][t].wait \ {k.to}
    BY <2>1, <2>4, Zenon
  <2> QED
    BY <2>3, <2>5, Zenon DEF Pending
<1>3. CASE ~(Awaited(k) /\ k.from = o /\ k.tbl = t)
  <2>1. create'[o][t] = create[o][t]
    BY <1>0, <1>3, Shapes, Zenon DEF Answer
  <2> QED
    BY <1>1, <2>1
<1> QED
  BY <1>2, <1>3, Zenon

\* A row that stays where it is stays accounted for.
LEMMA RowStays ==
    ASSUME TypeOK, PhantomInv, [Next]_vars, NEW q \in Parties, NEW t \in Tables,
           tables[q][t] # NoTable, tables'[q][t] = tables[q][t]
    PROVE  Accounted(tables[q][t], t, q)'
<1> USE GhostsGrow
<1>0. tables[q][t] \in Row /\ tables[q][t].owner \in Parties
  BY Shapes DEF Row
<1> SUFFICES ASSUME NEW o \in Parties, NEW n, o = tables[q][t].owner, n = tables[q][t].n
             PROVE  n \in committed' \cup doubtful' \/ Pending(o, t, n, q)'
  BY <1>0 DEF Accounted
<1>2. CASE n \in committed \cup doubtful
  BY <1>2, SMTT(20)
<1>3. CASE q = o
  BY <1>3, Zenon DEF PhantomInv, CommittedInv, Holds
<1>4. CASE Pending(o, t, n, q) /\ q # o
  <2>1. CASE UNCHANGED create
    BY <1>4, <2>1, Zenon DEF Pending, Locked
  <2>2. ASSUME NEW p \in Parties, NEW u \in Tables, HandlerStep(p, u)
        PROVE  n \in committed' \cup doubtful' \/ Pending(o, t, n, q)'
    BY <1>0, <1>4, <2>2, PendingHandler, Zenon
  <2>3. ASSUME NEW k \in net, SyncInfo(k) \/ Lose(k)
        PROVE  Pending(o, t, n, q)'
    <3>1. CASE ServeCreate(k) \/ RefuseCreate(k)
      <4>1. k.kind # "undo" /\ \E ok \in BOOLEAN : Answer(k, ok)
        BY <3>1, Zenon DEF ServeCreate, RefuseCreate
      <4> QED
        BY <1>0, <1>4, <4>1, PendingAnswer
    <3>2. CASE ServeDrop(k)
      <4>1. ~(k.from = o /\ k.tbl = t /\ k.to = q)
        <5> SUFFICES ASSUME k.from = o, k.tbl = t, k.to = q PROVE FALSE
          BY Zenon
        <5>1. tables' = [tables EXCEPT ![q][t] = NoTable]
          BY <3>2 DEF ServeDrop, Holds
        <5> QED
          BY <5>1, Shapes, Zenon
      <4>2. DropAllowed(k.to, k.tbl, k.from) \in BOOLEAN
        BY DEF DropAllowed
      <4>3. Answer(k, DropAllowed(k.to, k.tbl, k.from))
        BY <3>2, SMTT(20) DEF ServeDrop
      <4> QED
        BY <1>0, <1>4, <4>1, <4>2, <4>3, PendingAnswer, Zenon
    <3>3. CASE ServeGrant(k) \/ ServeRevoke(k) \/ Lose(k)
      <4>1. UNCHANGED create
        BY <3>3, Zenon DEF ServeGrant, ServeRevoke, Lose
      <4> QED
        BY <1>4, <4>1, Zenon DEF Pending, Locked
    <3> QED
      BY <2>3, <3>1, <3>2, <3>3, Zenon DEF SyncInfo
  <2>4. ASSUME NEW x \in Parties, BrokerStep(x)
        PROVE  n \in committed' \cup doubtful' \/ Pending(o, t, n, q)'
    <3>1. CASE Crash(x)
      <4>1. CASE x = o
        BY <1>4, <3>1, <4>1, ZenonT(30) DEF Crash, Locked, Pending
      <4>2. CASE x # o
        <5>1. create'[o][t] = create[o][t]
          BY <1>0, <3>1, <4>2, Shapes DEF Crash
        <5> QED
          BY <1>4, <5>1, Zenon DEF Pending, Locked
      <4> QED
        BY <4>1, <4>2, SMTT(20)
    <3> QED
      BY <2>1, <2>4, <3>1, Zenon DEF BrokerStep, GrantWrite, RevokeWrite, CheckLocal, CheckRemote,
         CheckTimeout, CheckUpdate, CheckConflict, CheckFails
  <2> QED
    BY <2>1, <2>2, <2>3, <2>4, NextParts, Zenon DEF vars
<1> QED
  BY <1>2, <1>3, <1>4 DEF PhantomInv, RowsInv, Accounted

\* A row that a call brings is pending, and one that a repair or a commit
\* brings is committed.
LEMMA RowsStep ==
    ASSUME TypeOK, PhantomInv, [Next]_vars
    PROVE  RowsInv'
<1> SUFFICES ASSUME NEW q \in Parties, NEW t \in Tables, (tables[q][t] # NoTable)'
             PROVE  Accounted(tables[q][t], t, q)'
  BY DEF RowsInv
<1> USE GhostsGrow
<1>1. CASE tables'[q][t] = tables[q][t]
  BY <1>1, RowStays
<1>2. ASSUME NEW p \in Parties, NEW u \in Tables, CreateCommit(p, u)
      PROVE  Accounted(tables[q][t], t, q)'
  <2>1. CASE p = q /\ u = t
    <3>1. tables'[q][t] = create[q][t].row
      BY <1>2, <2>1, Shapes DEF CreateCommit
    <3> QED
      BY <1>2, <2>1, <3>1 DEF CreateCommit, Accounted
  <2>2. CASE p # q \/ u # t
    <3>1. tables'[q][t] = tables[q][t]
      BY <1>2, <2>2, Shapes DEF CreateCommit
    <3> QED
      BY <1>1, <3>1
  <2> QED
    BY <2>1, <2>2
<1>3. ASSUME NEW p \in Parties, NEW u \in Tables, DropCommit(p, u)
      PROVE  Accounted(tables[q][t], t, q)'
  <2>1. tables'[q][t] = tables[q][t]
    BY <1>3, Shapes DEF DropCommit
  <2> QED
    BY <1>1, <2>1
<1>4. ASSUME NEW k \in net, ServeCreate(k)
      PROVE  Accounted(tables[q][t], t, q)'
  <2>0. /\ k.to \in Parties /\ k.tbl \in Tables /\ k.from \in Parties
        /\ k.data.owner = k.from
    BY <1>4, CallParts, TypeParts, Zenon DEF ServeCreate
  <2>1. CASE k.to = q /\ k.tbl = t
    <3>1. tables'[q][t] = k.data
      BY <1>4, <2>0, <2>1, Shapes DEF ServeCreate
    <3>2. k.n = k.data.n /\ (k.n \in doubtful \/ Waits(k))
      BY <1>4 DEF ServeCreate, PhantomInv, CallsInv
    <3>3. CASE k.n \in doubtful
      BY <3>1, <3>2, <3>3 DEF Accounted
    <3>4. CASE Waits(k)
      <4> SUFFICES ASSUME NEW o \in Parties, NEW n, o = k.from, n = k.n
                   PROVE  Pending(o, t, n, q)'
        BY <2>0, <3>1, <3>2, Zenon DEF Accounted
      <4>1. Pending(o, t, n, q)
        BY <2>1, <3>2, <3>4 DEF Pending, Waits, Locked
      <4>2. Answer(k, TRUE) /\ k.kind # "undo"
        BY <1>4, Zenon DEF ServeCreate
      <4> QED
        BY <4>1, <4>2, PendingAnswer, Zenon
    <3> QED
      BY <3>2, <3>3, <3>4
  <2>2. CASE k.to # q \/ k.tbl # t
    <3>1. tables'[q][t] = tables[q][t]
      BY <1>4, <2>0, <2>2, Shapes DEF ServeCreate
    <3> QED
      BY <1>1, <3>1
  <2> QED
    BY <2>1, <2>2
<1>5. ASSUME NEW k \in net, ServeDrop(k)
      PROVE  Accounted(tables[q][t], t, q)'
  <2>0. k.to \in Parties /\ k.tbl \in Tables
    BY CallParts, TypeParts
  <2>1. tables'[q][t] \in {tables[q][t], NoTable}
    <3>1. CASE tables' = [tables EXCEPT ![k.to][k.tbl] = NoTable]
      BY <2>0, <3>1, Shapes
    <3> QED
      BY <1>5, <3>1 DEF ServeDrop
  <2> QED
    BY <1>1, <2>1
<1>6. ASSUME NEW x \in Parties, CheckUpdate(x)
      PROVE  Accounted(tables[q][t], t, q)'
  <2>1. CASE x # q
    <3>1. tables'[q][t] = tables[q][t]
      BY <1>6, <2>1, Shapes DEF CheckUpdate
    <3> QED
      BY <1>1, <3>1
  <2>2. CASE x = q
    <3>1. tables'[q][t] = UpdatedRow(q, check[q], t)
      BY <1>6, <2>2, Shapes, Zenon DEF CheckUpdate
    <3>2. CASE tables'[q][t] = check[q].remote.tables[t]
      <4>1. check[q].remote.tables[t].n \in committed
        BY <1>6, <2>2, <3>2 DEF CheckUpdate, PhantomInv, CommittedInv
      <4> QED
        BY <3>2, <4>1 DEF Accounted
    <3> QED
      BY <1>1, <3>1, <3>2 DEF UpdatedRow
  <2> QED
    BY <2>1, <2>2, Zenon
<1>7. CASE UNCHANGED tables
  BY <1>1, <1>7, Zenon
<1> QED
  BY <1>2, <1>3, <1>4, <1>5, <1>6, <1>7, TablesUnchanged

\* Nothing is stored, answered or on its way at first.
LEMMA PhantomInit == Init => PhantomInv
<1> SUFFICES ASSUME Init PROVE PhantomInv
  OBVIOUS
<1>1. \A q \in Parties, t \in Tables : tables[q][t] = NoTable
  BY DEF Init
<1>2. \A q \in Parties : check[q].pc = "idle"
  BY DEF Init, IdleCheck
<1>3. RowsInv
  BY <1>1, Zenon DEF RowsInv
<1>4. CommittedInv
  BY <1>1, <1>2 DEF CommittedInv, Holds
<1>5. CallsInv
  BY Zenon DEF Init, CallsInv
<1> QED
  BY <1>3, <1>4, <1>5, Zenon DEF PhantomInv

\* Whatever step is taken.
LEMMA PhantomStep == TypeOK /\ PhantomInv /\ [Next]_vars => PhantomInv'
<1> SUFFICES ASSUME TypeOK, PhantomInv, [Next]_vars PROVE PhantomInv'
  OBVIOUS
<1>1. RowsInv'
  BY RowsStep
<1>2. CommittedInv'
  BY CommittedStep DEF PhantomInv
<1>3. CallsInv'
  BY CallsStep, Zenon DEF PhantomInv
<1> QED
  BY <1>1, <1>2, <1>3 DEF PhantomInv

\* No member keeps a row of a table whose owner rolled the creation back,
\* unless a call timed out or the owner crashed.
THEOREM NoPhantoms == Spec => []NoPhantom
<1>1. TypeOK /\ PhantomInv /\ [Next]_vars => (TypeOK /\ PhantomInv)'
  BY TypeStep, PhantomStep
<1>2. Init => TypeOK /\ PhantomInv
  BY TypeInit, PhantomInit
<1>3. PhantomInv => NoPhantom
  BY Zenon DEF PhantomInv, RowsInv, Accounted, Pending, Locked, NoPhantom, Holds
<1> QED
  BY <1>1, <1>2, <1>3, PTL DEF Spec

================================================================================
