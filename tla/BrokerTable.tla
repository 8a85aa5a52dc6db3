------------------------------ MODULE BrokerTable ------------------------------
(***************************************************************************)
(* The tables and column privileges (CCL) of one project, as every         *)
(* member's broker stores them.                                            *)
(*                                                                         *)
(* CreateTable looks the name up, inserts its row, tells the other members *)
(* (SyncInfo CreateTable) while its transaction is open, and commits when  *)
(* all of them agreed; otherwise it tells them to drop the table and rolls *)
(* back.  Of two requests that found no table the second replaces what the *)
(* first has committed.                                                    *)
(* DropTable, GrantCCL and RevokeCCL tell the others in the background,    *)
(* from before their commit on; nobody looks at the answers.               *)
(* CheckAndUpdateStatus repairs a broker's copies: it reads them, asks     *)
(* their owner (AskInfo) and changes what differs.                         *)
(*                                                                         *)
(* An uncommitted row is invisible to others, and whoever inserts a row of *)
(* the same name waits for it.  Calls are served in any order; a call that *)
(* timed out may still be served.  All members belong to the project and   *)
(* the project is not archived: BrokerProject is about those.              *)
(***************************************************************************)
EXTENDS Naturals, FiniteSets

CONSTANTS
    Parties,       \* members of the project; numbers, for the order of party codes
    Tables,        \* table names
    Schemas,       \* records: the columns, the ref table and its database type
    NoTable,       \* there is no row
    Privs,         \* constraints that can be granted, "UNKNOWN" not among them
    NoPriv,        \* there is no privilege row
    MaxCreates,    \* bounds: CreateTable requests,
    MaxDrops,      \* DropTable requests,
    MaxGrants,     \* GrantCCL requests,
    MaxRevokes,    \* RevokeCCL requests,
    MaxChecks,     \* runs of CheckAndUpdateStatus against one member,
    MaxFaults      \* calls given up or lost, and restarts of a broker

ASSUME TableAssumption ==
    /\ Parties \subseteq Nat /\ IsFiniteSet(Parties)
    /\ NoTable \notin Schemas
    /\ NoTable \notin [owner : Parties, schema : Schemas, n : Nat]
    /\ NoPriv \notin Privs /\ NoPriv # "UNKNOWN"

VARIABLES
    tables,    \* tables[p][t]: the row at p's broker, as committed
    privs,     \* privs[p][t][d]: the privilege row for party d
    looked,    \* looked[p][t]: CreateTable requests at p whose lookup found no obstacle
    create,    \* create[p][t]: the handler at p that inserted or deleted a row of t
    granting,  \* granting[p]: a grant or revocation at p whose check passed
    check,     \* check[p]: a run of checkAndUpdateStatusFor at p
    net,       \* SyncInfo calls that are not served
    committed, \* creations that their owner committed
    doubtful,  \* creations whose call timed out or whose handler died
    used       \* requests and faults so far

vars == <<tables, privs, looked, create, granting, check, net, committed, doubtful, used>>

Row == [owner : Parties, schema : Schemas, n : Nat]
Priv == Privs \cup {"UNKNOWN"}
NoPrivs == [d \in Parties |-> NoPriv]

\* Mutant: a party tells itself, too.
OthersAll(p) == Parties

Others(p) == Parties \ {p}

IdleCreate == [pc |-> "idle", row |-> NoTable, wait |-> {}, err |-> FALSE]
IdleCheck == [pc |-> "idle"]
NoGrant == [pc |-> "idle"]

Init ==
    /\ tables = [p \in Parties |-> [t \in Tables |-> NoTable]]
    /\ privs = [p \in Parties |-> [t \in Tables |-> NoPrivs]]
    /\ looked = [p \in Parties |-> [t \in Tables |-> {}]]
    /\ create = [p \in Parties |-> [t \in Tables |-> IdleCreate]]
    /\ granting = [p \in Parties |-> NoGrant]
    /\ check = [p \in Parties |-> IdleCheck]
    /\ net = {}
    /\ committed = {}
    /\ doubtful = {}
    /\ used = [create |-> 0, drop |-> 0, grant |-> 0, revoke |-> 0,
               check |-> 0, fault |-> 0]

Use(kind, max) ==
    /\ used[kind] < max
    /\ used' = [used EXCEPT ![kind] = @ + 1]

\* Whether broker q stores a row of table t that p owns.
Holds(q, t, p) == tables[q][t] # NoTable /\ tables[q][t].owner = p

\* A SyncInfo call to every other member, numbered so that no two are equal.
PostSyncInfo(kind, p, t, data, n) ==
    {[kind |-> kind, from |-> p, to |-> q, tbl |-> t, data |-> data, n |-> n] :
        q \in Others(p)}

--------------------------------------------------------------------------------
(* The rows of one broker.                                                   *)

\* AddTableWithCheck at q for p: a row of another owner is refused; p's own
\* row is dropped first, with its columns and privileges.
AddAllowed(q, t, p) == tables[q][t] = NoTable \/ Holds(q, t, p)

AddedPrivs(q, t) == IF tables[q][t] = NoTable THEN privs[q][t] ELSE NoPrivs

\* DropTableWithCheck at q for p: nothing to do without a row.
DropAllowed(q, t, p) == tables[q][t] = NoTable \/ Holds(q, t, p)

\* An insert of t at q waits for the row that q's own handler inserted or
\* deleted.
Locked(q, t) == create[q][t].pc # "idle"

--------------------------------------------------------------------------------
(* CreateTable.                                                              *)

\* One of the party's other tables names the same ref table with another
\* database type.
ConflictRef(p, s) ==
    \E u \in Tables : /\ Holds(p, u, p)
                      /\ tables[p][u].schema.ref = s.ref
                      /\ tables[p][u].schema.db # s.db

\* The lookup.  It is in the same transaction as what follows, but under READ
\* COMMITTED other requests commit between the two.
CreateTable(p, t, s) ==
    /\ tables[p][t] = NoTable
    /\ ~ConflictRef(p, s)
    /\ Use("create", MaxCreates)
    /\ looked' = [looked EXCEPT ![p][t] =
                    @ \cup {[owner |-> p, schema |-> s, n |-> used'.create]}]
    /\ UNCHANGED <<tables, privs, create, granting, check, net, committed, doubtful>>

\* AddTableWithCheck, and the call to the other members.
AddTable(p, t, row) ==
    /\ ~Locked(p, t) /\ AddAllowed(p, t, p)
    /\ create' = [create EXCEPT ![p][t] =
                    [pc |-> "post", row |-> row, wait |-> Others(p), err |-> FALSE]]
    /\ net' = net \cup PostSyncInfo("create", p, t, row, row.n)
    /\ looked' = [looked EXCEPT ![p][t] = @ \ {row}]
    /\ UNCHANGED <<tables, privs, granting, check, committed, doubtful, used>>

\* Another party's table has come meanwhile, or the wait for the lock ended,
\* with a duplicate of the key or too late.
AddTableFails(p, t, row) ==
    /\ Locked(p, t) \/ ~AddAllowed(p, t, p)
    /\ looked' = [looked EXCEPT ![p][t] = @ \ {row}]
    /\ UNCHANGED <<tables, privs, create, granting, check, net, committed, doubtful, used>>

\* The handler waits for the answer to call m.
Awaited(m) ==
    /\ m.kind \in {"create", "undo"}
    /\ create[m.from][m.tbl].pc = (IF m.kind = "create" THEN "post" ELSE "undo")
    /\ create[m.from][m.tbl].row.n = m.n
    /\ m.to \in create[m.from][m.tbl].wait

\* The handler has q's answer, or has given up on it.
Told(h, q, ok) ==
    [pc |-> h.pc, row |-> h.row, wait |-> h.wait \ {q}, err |-> h.err \/ ~ok]

\* Mutant: a refusal is no failure.
AnswerIgnored(m, ok) ==
    /\ net' = net \ {m}
    /\ create' = IF Awaited(m)
                 THEN [create EXCEPT ![m.from][m.tbl] = Told(@, m.to, TRUE)]
                 ELSE create

\* The call is served: the answer goes to whoever still waits for it.
Answer(m, ok) ==
    /\ net' = net \ {m}
    /\ create' = IF Awaited(m)
                 THEN [create EXCEPT ![m.from][m.tbl] = Told(@, m.to, ok)]
                 ELSE create

\* The client gives up on q.  The error is wrapped, so PostSyncInfo does not
\* recognise the timeout that it means to ignore: it counts as a failure.
CallTimeout(p, t, q) ==
    /\ create[p][t].pc # "idle" /\ q \in create[p][t].wait
    /\ Use("fault", MaxFaults)
    /\ create' = [create EXCEPT ![p][t] = Told(@, q, FALSE)]
    /\ doubtful' = doubtful \cup {create[p][t].row.n}
    /\ UNCHANGED <<tables, privs, looked, granting, check, net, committed>>

\* Every member agreed.  A table that p had committed meanwhile is replaced.
CreateCommit(p, t) ==
    /\ create[p][t].pc = "post" /\ create[p][t].wait = {} /\ ~create[p][t].err
    /\ tables' = [tables EXCEPT ![p][t] = create[p][t].row]
    /\ privs' = [privs EXCEPT ![p][t] = AddedPrivs(p, t)]
    /\ committed' = committed \cup {create[p][t].row.n}
    /\ create' = [create EXCEPT ![p][t] = IdleCreate]
    /\ UNCHANGED <<looked, granting, check, net, doubtful, used>>

\* Mutant: the failed handler leaves the other members as they are.
CreateUndoNot(p, t) ==
    /\ create[p][t].pc = "post" /\ create[p][t].wait = {} /\ create[p][t].err
    /\ create' = [create EXCEPT ![p][t] = IdleCreate]
    /\ UNCHANGED <<tables, privs, looked, granting, check, net, committed, doubtful, used>>

\* Some call failed: the members are told to drop the table again.
CreateUndo(p, t) ==
    /\ create[p][t].pc = "post" /\ create[p][t].wait = {} /\ create[p][t].err
    /\ create' = [create EXCEPT ![p][t] = [pc |-> "undo", row |-> @.row, wait |-> Others(p),
                                          err |-> FALSE]]
    /\ net' = net \cup PostSyncInfo("undo", p, t, NoTable, create[p][t].row.n)
    /\ UNCHANGED <<tables, privs, looked, granting, check, committed, doubtful, used>>

\* The rows are rolled back, whatever the members answered.
CreateRollback(p, t) ==
    /\ create[p][t].pc = "undo" /\ create[p][t].wait = {}
    /\ create' = [create EXCEPT ![p][t] = IdleCreate]
    /\ UNCHANGED <<tables, privs, looked, granting, check, net, committed, doubtful, used>>

--------------------------------------------------------------------------------
(* SyncInfo at another broker.                                               *)

ServeCreate(m) ==
    /\ m.kind = "create"
    /\ ~Locked(m.to, m.tbl)
    /\ AddAllowed(m.to, m.tbl, m.from)
    /\ tables' = [tables EXCEPT ![m.to][m.tbl] = m.data]
    /\ privs' = [privs EXCEPT ![m.to][m.tbl] = AddedPrivs(m.to, m.tbl)]
    /\ Answer(m, TRUE)
    /\ UNCHANGED <<looked, granting, check, committed, doubtful, used>>

\* Mutant: whoever inserts waits for the lock as long as it takes.
RefuseCreateNotLocked(m) ==
    /\ m.kind = "create"
    /\ ~Locked(m.to, m.tbl) /\ ~AddAllowed(m.to, m.tbl, m.from)
    /\ Answer(m, FALSE)
    /\ UNCHANGED <<tables, privs, looked, granting, check, committed, doubtful, used>>

\* Another party owns a table of that name, or the wait for its lock ended.
RefuseCreate(m) ==
    /\ m.kind = "create"
    /\ Locked(m.to, m.tbl) \/ ~AddAllowed(m.to, m.tbl, m.from)
    /\ Answer(m, FALSE)
    /\ UNCHANGED <<tables, privs, looked, granting, check, committed, doubtful, used>>

ServeDrop(m) ==
    /\ m.kind \in {"drop", "undo"}
    /\ Answer(m, DropAllowed(m.to, m.tbl, m.from))
    /\ IF Holds(m.to, m.tbl, m.from)
       THEN /\ tables' = [tables EXCEPT ![m.to][m.tbl] = NoTable]
            /\ privs' = [privs EXCEPT ![m.to][m.tbl] = NoPrivs]
       ELSE UNCHANGED <<tables, privs>>
    /\ UNCHANGED <<looked, granting, check, committed, doubtful, used>>

\* GrantColumnConstraintsWithCheck: the check of the table and its owner.
ServeGrant(m) ==
    /\ m.kind = "grant"
    /\ granting[m.to].pc = "idle"
    /\ granting' = IF Holds(m.to, m.tbl, m.from)
                   THEN [granting EXCEPT ![m.to] =
                            [pc |-> "grant", from |-> m.from, tbl |-> m.tbl,
                             dest |-> m.data.dest, priv |-> m.data.priv]]
                   ELSE granting
    /\ net' = net \ {m}
    /\ UNCHANGED <<tables, privs, looked, create, check, committed, doubtful, used>>

\* RevokeColumnConstraints updates the row if there is one.
Revoked(f, d) == [f EXCEPT ![d] = IF @ = NoPriv THEN NoPriv ELSE "UNKNOWN"]

ServeRevoke(m) ==
    /\ m.kind = "revoke"
    /\ privs' = IF Holds(m.to, m.tbl, m.from)
                THEN [privs EXCEPT ![m.to][m.tbl] = Revoked(@, m.data.dest)]
                ELSE privs
    /\ net' = net \ {m}
    /\ UNCHANGED <<tables, looked, create, granting, check, committed, doubtful, used>>

SyncInfo(m) == \/ ServeCreate(m) \/ RefuseCreate(m) \/ ServeDrop(m)
               \/ ServeGrant(m) \/ ServeRevoke(m)

\* A call that nobody waits for is lost.
Lose(m) ==
    /\ ~Awaited(m)
    /\ Use("fault", MaxFaults)
    /\ net' = net \ {m}
    /\ UNCHANGED <<tables, privs, looked, create, granting, check, committed, doubtful>>

--------------------------------------------------------------------------------
(* DropTable, GrantCCL, RevokeCCL.                                           *)

\* The row is deleted and the others are told; the commit comes after that.
DropTable(p, t) ==
    /\ Holds(p, t, p)
    /\ ~Locked(p, t)
    /\ Use("drop", MaxDrops)
    /\ create' = [create EXCEPT ![p][t] = [pc |-> "drop", row |-> tables[p][t], wait |-> {},
                                          err |-> FALSE]]
    /\ net' = net \cup PostSyncInfo("drop", p, t, NoTable, used'.drop)
    /\ UNCHANGED <<tables, privs, looked, granting, check, committed, doubtful>>

\* Mutant: the condition on the table's name is missing.
DropCommitAllNames(p, t) ==
    /\ create[p][t].pc = "drop"
    /\ tables' = [tables EXCEPT ![p] = [u \in Tables |-> NoTable]]
    /\ privs' = [privs EXCEPT ![p] = [u \in Tables |-> NoPrivs]]
    /\ create' = [create EXCEPT ![p][t] = IdleCreate]
    /\ UNCHANGED <<looked, granting, check, net, committed, doubtful, used>>

DropCommit(p, t) ==
    /\ create[p][t].pc = "drop"
    /\ tables' = [tables EXCEPT ![p][t] = NoTable]
    /\ privs' = [privs EXCEPT ![p][t] = NoPrivs]
    /\ create' = [create EXCEPT ![p][t] = IdleCreate]
    /\ UNCHANGED <<looked, granting, check, net, committed, doubtful, used>>

GrantCCL(p, t, d, v) ==
    /\ Holds(p, t, p)
    /\ granting[p].pc = "idle"
    /\ Use("grant", MaxGrants)
    /\ granting' = [granting EXCEPT ![p] = [pc |-> "grant", from |-> p, tbl |-> t,
                                            dest |-> d, priv |-> v]]
    /\ net' = net \cup PostSyncInfo("grant", p, t, [dest |-> d, priv |-> v], used'.grant)
    /\ UNCHANGED <<tables, privs, looked, create, check, committed, doubtful>>

\* The rows are written and committed.
GrantWrite(q) ==
    /\ granting[q].pc = "grant"
    /\ privs' = [privs EXCEPT ![q][granting[q].tbl][granting[q].dest] = granting[q].priv]
    /\ granting' = [granting EXCEPT ![q] = NoGrant]
    /\ UNCHANGED <<tables, looked, create, check, net, committed, doubtful, used>>

RevokeCCL(p, t, d) ==
    /\ Holds(p, t, p)
    /\ granting[p].pc = "idle"
    /\ Use("revoke", MaxRevokes)
    /\ granting' = [granting EXCEPT ![p] = [pc |-> "revoke", tbl |-> t, dest |-> d]]
    /\ net' = net \cup PostSyncInfo("revoke", p, t, [dest |-> d], used'.revoke)
    /\ UNCHANGED <<tables, privs, looked, create, check, committed, doubtful>>

RevokeWrite(q) ==
    /\ granting[q].pc = "revoke"
    /\ privs' = [privs EXCEPT ![q][granting[q].tbl] = Revoked(@, granting[q].dest)]
    /\ granting' = [granting EXCEPT ![q] = NoGrant]
    /\ UNCHANGED <<tables, looked, create, check, net, committed, doubtful, used>>

--------------------------------------------------------------------------------
(* CheckAndUpdateStatus against one member.                                  *)

\* GetProjectMeta at b: the tables of party o and their privileges.  For a
\* party without tables the filter by table name is empty, and ListColumn-
\* Constraints then returns the privileges of every table.
GetProjectMeta(b, o) ==
    LET own == {t \in Tables : Holds(b, t, o)}
    IN  [tables |-> [t \in Tables |-> IF t \in own THEN tables[b][t] ELSE NoTable],
         ccls |-> [t \in Tables |-> IF t \in own \/ own = {} THEN privs[b][t]
                                                            ELSE NoPrivs]]

\* Every privilege in the answer is of a table in the answer.
StatusOwned(meta) ==
    \A t \in Tables : meta.ccls[t] # NoPrivs => meta.tables[t] # NoTable

\* GetTableChecksum covers the columns.
SameSchema(r, s) == r.schema.cols = s.schema.cols

\* GetCCLsChecksum: the visibilities in the order of the parties, each with
\* its place, without the parties.
CCLsChecksum(f) ==
    LET dests == {d \in Parties : f[d] # NoPriv}
    IN  {<<Cardinality({e \in dests : e < d}), f[d]>> : d \in dests}

\* An insert that updates the rows that exist.
Granted(f, g) == [d \in Parties |-> IF g[d] # NoPriv THEN g[d] ELSE f[d]]

CheckLocal(q, p) ==
    /\ check[q].pc \in {"idle", "done", "conflict"} /\ p # q
    /\ Use("check", MaxChecks)
    /\ check' = [check EXCEPT ![q] = [pc |-> "ask", peer |-> p,
                                      local |-> GetProjectMeta(q, p)]]
    /\ UNCHANGED <<tables, privs, looked, create, granting, net, committed, doubtful>>

\* The answer is taken when all its privileges belong to its tables.
CheckRemote(q) ==
    /\ check[q].pc = "ask"
    /\ LET remote == GetProjectMeta(check[q].peer, check[q].peer)
       IN  check' = [check EXCEPT ![q] =
                       IF StatusOwned(remote)
                       THEN [pc |-> "update", peer |-> @.peer, local |-> @.local,
                             remote |-> remote]
                       ELSE IdleCheck]
    /\ UNCHANGED <<tables, privs, looked, create, granting, net, committed, doubtful, used>>

\* The owner does not answer.
CheckTimeout(q) ==
    /\ check[q].pc = "ask"
    /\ check' = [check EXCEPT ![q] = IdleCheck]
    /\ UNCHANGED <<tables, privs, looked, create, granting, net, committed, doubtful, used>>

\* What updateStatus does with table t, by what was read before.
Replaced(c, t) ==
    /\ c.remote.tables[t] # NoTable
    /\ c.local.tables[t] # NoTable => ~SameSchema(c.local.tables[t], c.remote.tables[t])

Regranted(c, t) ==
    /\ c.remote.tables[t] # NoTable /\ c.local.tables[t] # NoTable
    /\ SameSchema(c.local.tables[t], c.remote.tables[t])
    /\ CCLsChecksum(c.local.ccls[t]) # CCLsChecksum(c.remote.ccls[t])

Gone(c, t) == c.remote.tables[t] = NoTable /\ c.local.tables[t] # NoTable

\* The tables whose owner checkConflict looks up: for an owner without tables
\* the filter by name is empty, and GetTableMetasByTableNames returns all.
CheckedNames(c) ==
    LET names == {t \in Tables : c.remote.tables[t] # NoTable}
    IN  IF names = {} THEN Tables ELSE names

\* checkConflict: a table of that name has another owner here.
Conflicts(q, c) == \E t \in CheckedNames(c) : ~AddAllowed(q, t, c.peer)

\* No check of updateStatus fails, and no insert waits.
UpdateAllowed(q, c) ==
    \A t \in Tables :
        /\ Replaced(c, t) => ~Locked(q, t)
        /\ Gone(c, t) => DropAllowed(q, t, c.peer)
        /\ Regranted(c, t) /\ c.remote.ccls[t] # NoPrivs => tables[q][t] # NoTable

UpdatedRow(q, c, t) ==
    CASE Replaced(c, t) -> c.remote.tables[t]
      [] Gone(c, t) -> NoTable
      [] OTHER -> tables[q][t]

\* Mutant: a table that was replaced keeps no privileges.
UpdatedPrivsNoGrant(q, c, t) ==
    CASE Replaced(c, t) -> AddedPrivs(q, t)
      [] Regranted(c, t) -> Granted(privs[q][t], c.remote.ccls[t])
      [] Gone(c, t) /\ tables[q][t] # NoTable -> NoPrivs
      [] OTHER -> privs[q][t]

UpdatedPrivs(q, c, t) ==
    CASE Replaced(c, t) -> Granted(AddedPrivs(q, t), c.remote.ccls[t])
      [] Regranted(c, t) -> Granted(privs[q][t], c.remote.ccls[t])
      [] Gone(c, t) /\ tables[q][t] # NoTable -> NoPrivs
      [] OTHER -> privs[q][t]

CheckUpdate(q) ==
    /\ check[q].pc = "update"
    /\ ~Conflicts(q, check[q]) /\ UpdateAllowed(q, check[q])
    /\ tables' = [tables EXCEPT ![q] = [t \in Tables |-> UpdatedRow(q, check[q], t)]]
    /\ privs' = [privs EXCEPT ![q] = [t \in Tables |-> UpdatedPrivs(q, check[q], t)]]
    /\ check' = [check EXCEPT ![q] = [pc |-> "done", peer |-> @.peer]]
    /\ UNCHANGED <<looked, create, granting, net, committed, doubtful, used>>

\* A conflict is reported; nothing is updated.
CheckConflict(q) ==
    /\ check[q].pc = "update"
    /\ Conflicts(q, check[q])
    /\ check' = [check EXCEPT ![q] = [pc |-> "conflict", peer |-> @.peer]]
    /\ UNCHANGED <<tables, privs, looked, create, granting, net, committed, doubtful, used>>

\* updateStatus fails and is rolled back.
CheckFails(q) ==
    /\ check[q].pc = "update"
    /\ ~Conflicts(q, check[q]) /\ ~UpdateAllowed(q, check[q])
    /\ check' = [check EXCEPT ![q] = IdleCheck]
    /\ UNCHANGED <<tables, privs, looked, create, granting, net, committed, doubtful, used>>

--------------------------------------------------------------------------------

\* Every open transaction of p's broker is rolled back.
Crash(p) ==
    /\ Use("fault", MaxFaults)
    /\ doubtful' = doubtful \cup {create[p][t].row.n : t \in {u \in Tables : Locked(p, u)}}
    /\ looked' = [looked EXCEPT ![p] = [t \in Tables |-> {}]]
    /\ create' = [create EXCEPT ![p] = [t \in Tables |-> IdleCreate]]
    /\ granting' = [granting EXCEPT ![p] = NoGrant]
    /\ check' = [check EXCEPT ![p] = IdleCheck]
    /\ UNCHANGED <<tables, privs, net, committed>>

Next ==
    \/ \E p \in Parties, t \in Tables :
         \/ \E s \in Schemas : CreateTable(p, t, s)
         \/ \E row \in looked[p][t] : AddTable(p, t, row) \/ AddTableFails(p, t, row)
         \/ \E q \in Parties : CallTimeout(p, t, q)
         \/ CreateCommit(p, t) \/ CreateUndo(p, t) \/ CreateRollback(p, t)
         \/ DropTable(p, t) \/ DropCommit(p, t)
         \/ \E d \in Parties : RevokeCCL(p, t, d) \/ \E v \in Privs : GrantCCL(p, t, d, v)
    \/ \E m \in net : SyncInfo(m) \/ Lose(m)
    \/ \E q \in Parties :
         \/ GrantWrite(q) \/ RevokeWrite(q) \/ Crash(q)
         \/ \E p \in Parties : CheckLocal(q, p)
         \/ CheckRemote(q) \/ CheckTimeout(q) \/ CheckUpdate(q) \/ CheckConflict(q)
         \/ CheckFails(q)

Spec == Init /\ [][Next]_vars

\* A broker serves the calls it gets (the wait for a lock is bounded), and a
\* handler whose calls are answered goes on.
FairSpec ==
    /\ Spec
    /\ \A p \in Parties, t \in Tables :
         WF_vars(CreateCommit(p, t) \/ CreateUndo(p, t) \/ CreateRollback(p, t)
                   \/ DropCommit(p, t))
    /\ \A p, q \in Parties :
         WF_vars(\E m \in net : m.from = p /\ m.to = q /\ SyncInfo(m))

--------------------------------------------------------------------------------
(* Properties.                                                               *)

Creates == [pc : {"idle"}, row : {NoTable}, wait : {{}}, err : {FALSE}]
             \cup [pc : {"post", "undo", "drop"}, row : Row, wait : SUBSET Parties, err : BOOLEAN]

Grants == [pc : {"idle"}]
            \cup [pc : {"grant"}, from : Parties, tbl : Tables, dest : Parties, priv : Privs]
            \cup [pc : {"revoke"}, tbl : Tables, dest : Parties]

Meta == [tables : [Tables -> Row \cup {NoTable}],
         ccls : [Tables -> [Parties -> Priv \cup {NoPriv}]]]

Checks == [pc : {"idle"}]
            \cup [pc : {"ask"}, peer : Parties, local : Meta]
            \cup [pc : {"update"}, peer : Parties, local : Meta, remote : Meta]
            \cup [pc : {"done", "conflict"}, peer : Parties]

Calls(kinds, data) ==
    [kind : kinds, from : Parties, to : Parties, tbl : Tables, data : data, n : Nat]

\* Rows, handlers and calls have the form their actions give them; what a
\* handler inserts, a call carries or an owner answers is the party's own row,
\* and nobody calls itself.
TypeOK ==
    /\ tables \in [Parties -> [Tables -> Row \cup {NoTable}]]
    /\ privs \in [Parties -> [Tables -> [Parties -> Priv \cup {NoPriv}]]]
    /\ looked \in [Parties -> [Tables -> SUBSET Row]]
    /\ create \in [Parties -> [Tables -> Creates]]
    /\ granting \in [Parties -> Grants]
    /\ check \in [Parties -> Checks]
    /\ net \subseteq Calls({"create"}, Row) \cup Calls({"drop", "undo"}, {NoTable})
                       \cup Calls({"grant"}, [dest : Parties, priv : Privs])
                       \cup Calls({"revoke"}, [dest : Parties])
    /\ used \in [{"create", "drop", "grant", "revoke", "check", "fault"} -> Nat]
    /\ \A p \in Parties, t \in Tables : \A row \in looked[p][t] : row.owner = p
    /\ \A p \in Parties, t \in Tables :
         Locked(p, t) => create[p][t].row.owner = p /\ p \notin create[p][t].wait
    /\ \A m \in net : m.from # m.to /\ (m.kind = "create" => m.data.owner = m.from)
    /\ \A q \in Parties :
         /\ check[q].pc # "idle" => check[q].peer # q
         /\ check[q].pc = "update" =>
              \A t \in Tables : \/ check[q].remote.tables[t] = NoTable
                                \/ check[q].remote.tables[t].owner = check[q].peer

\* Two members never own tables of the same name, although each of them
\* inserts its row before it asks the others.
OneOwner ==
    \A p, q \in Parties, t \in Tables : Holds(p, t, p) /\ Holds(q, t, q) => p = q

\* A broker stores another party's table only if that party committed it, or
\* still waits for its members, or had a call time out or a crash on the way.
NoPhantom ==
    \A p, q \in Parties, t \in Tables :
        Holds(q, t, p) =>
            LET n == tables[q][t].n
            IN  \/ n \in committed \/ n \in doubtful
                \/ Locked(p, t) /\ create[p][t].row.n = n

\* The tables that each party owns, by its own broker.
Owned == [p \in Parties |-> [t \in Tables |->
            IF Holds(p, t, p) THEN tables[p][t].schema ELSE NoTable]]

Directory == INSTANCE TableDirectory WITH owned <- Owned

\* Seen from the owners, the brokers implement one name space: a table is
\* created when no other member owns one of its name.  A second request of the
\* owner may replace it, when both were looked up before the first committed.
IsDirectory == Directory!Spec

\* The copies that q has of p's tables are p's tables, and what p granted or
\* revoked is what q stores.
Agree(q, p) ==
    \A t \in Tables :
        /\ Holds(q, t, p) <=> Holds(p, t, p)
        /\ Holds(p, t, p) =>
             /\ tables[q][t].schema = tables[p][t].schema
             /\ \A d \in Parties : privs[p][t][d] # NoPriv => privs[q][t][d] = privs[p][t][d]

\* The copy has a privilege for a party that the owner's table has none for:
\* it was meant for an earlier table of that name.
Leftover(q, p) ==
    \E t \in Tables, d \in Parties :
        /\ Holds(q, t, p) /\ Holds(p, t, p)
        /\ privs[q][t][d] # NoPriv /\ privs[p][t][d] = NoPriv

\* The copy has the columns of the owner's table but refers to another table or
\* database type: it was made by an earlier creation.
Unseen(q, p) ==
    \E t \in Tables : /\ Holds(q, t, p) /\ Holds(p, t, p)
                      /\ SameSchema(tables[q][t], tables[p][t])
                      /\ tables[q][t].schema # tables[p][t].schema

\* A run of CheckAndUpdateStatus that ends well makes the copies of the member's
\* tables equal to them, when nothing that it read changes under it.  Two kinds
\* of copies are excepted, for the checksums do not show what is wrong with
\* them: Leftover (they do not tell parties apart) and Unseen (they cover the
\* columns).
RepairHeals ==
    [][\A q \in Parties :
         /\ check[q].pc = "update" /\ check'[q].pc = "done"
         /\ check[q].local = GetProjectMeta(q, check[q].peer)
         /\ check[q].remote = GetProjectMeta(check[q].peer, check[q].peer)
         /\ ~Leftover(q, check[q].peer) /\ ~Unseen(q, check[q].peer)
         => Agree(q, check[q].peer)']_vars

\* A handler that has inserted or deleted a row returns, also when two members
\* create the same table and each waits for the row of the other.
CreatesEnd ==
    \A p \in Parties, t \in Tables : []<>~Locked(p, t)

================================================================================
