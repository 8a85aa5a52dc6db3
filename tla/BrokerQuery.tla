------------------------------ MODULE BrokerQuery ------------------------------
(* How the brokers of a query's parties come to the same view of its tables. *)
(*                                                                           *)
(* Every broker compiles the query on its own, from the tables and CCLs in   *)
(* its own storage.  The issuer prepares the query and distributes it, with  *)
(* a checksum of what it knows about each data party.  A party whose         *)
(* checksum differs answers DATA_INCONSISTENCY; the issuer asks it for its   *)
(* tables, stores them and prepares again.  The other parties compare with   *)
(* the issuer and with each other in the same way.                           *)
(*                                                                           *)
(* The model follows one job.  Each data party owns one table of the query,  *)
(* all parties are members of the project, and the project has no other      *)
(* tables.  A table is its columns, the table it refers to with its database *)
(* type, and the privilege of each party.  A checksum is what goes into it.  *)
(* What changes the tables meanwhile is the subject of BrokerTable: here     *)
(* rows change at any time.                                                  *)
EXTENDS Integers, FiniteSets

CONSTANTS Issuer,          \* the party that issues the query
          Data,            \* the parties whose tables the query uses
          Schemas,         \* columns (cols), and referred table and type (ref)
          Dests,           \* the parties of the CCLs, as numbers in the order of their codes
          Privs,           \* the visibilities that a CCL gives
          NoPriv,          \* no CCL
          NoTable,         \* no row; also the checksum of no table
          NoSession,       \* no session row
          Unknown,         \* no checksum saved
          Stores,          \* the storages that the job may find
          Modes,           \* "run" and "dry"
          RetryTimes,      \* ExchangeJobInfoRetryTimes
          Changes,         \* what a row may become while the job is prepared
          MaxEvents        \* bound on such changes and on failed calls

CCLs == [Dests -> Privs \cup {NoPriv}]
Meta == [schema : Schemas, ccl : CCLs]
View == Meta \cup {NoTable}
Work == Data \cup {Issuer}

\* InfeedCCLs: the visibilities in the order of the parties, each with its
\* place, without the parties.
InfeedCCLs(ccl) ==
    LET to == {e \in Dests : ccl[e] # NoPriv}
    IN  {<<Cardinality({f \in to : f < e}), ccl[e]>> : e \in to}

\* CreateChecksum for a data party.  InfeedTable covers the columns.
Checksum(v) ==
    IF v = NoTable THEN NoTable
    ELSE [cols |-> v.schema.cols, ccl |-> InfeedCCLs(v.ccl)]

Sums == {Checksum(v) : v \in View}

ASSUME QueryAssumption ==
    /\ NoPriv \notin Privs /\ NoTable \notin Meta
    /\ Unknown \notin Sums /\ NoSession \notin Sums
    /\ Stores \subseteq [Work -> [Data -> View]]
    /\ Modes \subseteq {"run", "dry"}
    /\ Changes \subseteq View
    /\ RetryTimes \in Nat \ {0} /\ MaxEvents \in Nat

VARIABLES
    store,      \* what each party stores about each data party's table
    session,    \* the checksum of its own table in a party's session row
    job,        \* the session and the query runner of each party
    task,       \* the goroutine of a party that deals with another party
    inbox,      \* the parties to which DistributeQuery is on its way
    mode,       \* a run or a dry run (ExplainQuery, too)
    taken,      \* history: the checksums of what a data party has read of its table
    used        \* history: the changes and the failed calls so far

vars == <<store, session, job, task, inbox, mode, taken, used>>

NoTask == [st |-> "none"]

Begun(pc) ==
    [pc |-> pc, snap |-> [d \in Data |-> NoTable], remote |-> [d \in Data |-> Unknown],
     asked |-> {}, ends |-> {}, again |-> FALSE, unsynced |-> FALSE]

Init ==
    /\ store \in Stores
    /\ mode \in Modes
    /\ session = [q \in Work |-> NoSession]
    /\ job = [q \in Work |-> Begun(IF q = Issuer THEN "prepare" ELSE "idle")]
    /\ task = [q \in Work |-> [p \in Work |-> NoTask]]
    /\ inbox = {}
    /\ taken = [d \in Data |-> {}]
    /\ used = [changes |-> 0, faults |-> 0]

Event(k) ==
    /\ used.changes + used.faults < MaxEvents
    /\ used' = [used EXCEPT ![k] = @ + 1]

Fault == Event("faults")

--------------------------------------------------------------------------------
(* Prepare.                                                                  *)

Missing(q) == {d \in Data : store[q][d] = NoTable}

\* q has read the tables, its own among them.
Took(q) == taken' = [d \in Data |-> taken[d] \cup (IF d = q THEN {Checksum(store[q][q])} ELSE {})]

\* The tables are read.  Those that are not found are asked for.
Prepare(q) ==
    /\ job[q].pc = "prepare"
    /\ IF Missing(q) = {}
       THEN /\ job' = [job EXCEPT ![q].pc = "prepared", ![q].snap = store[q]]
            /\ Took(q) /\ UNCHANGED task
       ELSE /\ job' = [job EXCEPT ![q].pc = "ask", ![q].asked = Missing(q)]
            /\ task' = [task EXCEPT ![q] = [p \in Work |->
                 IF p \in Missing(q) \ {q} THEN [st |-> "ask", kind |-> "all"] ELSE NoTask]]
            /\ UNCHANGED taken
    /\ UNCHANGED <<store, session, inbox, mode, used>>

\* The transaction of AskProjectInfoFromParties, once every member answered or
\* failed: the tables asked for are dropped, whoever has created one meanwhile,
\* and what was found is added.
AskAllWrite(q) ==
    /\ job[q].pc = "ask"
    /\ \A p \in Work : task[q][p].st # "ask"
    /\ store' = [store EXCEPT ![q] = [d \in Data |->
         CASE d \notin job[q].asked -> @[d]
           [] d = q /\ q \in job[q].asked -> NoTable
           [] OTHER -> task[q][d].ans]]
    /\ job' = [job EXCEPT ![q].pc = "asked", ![q].asked = {}]
    /\ task' = [task EXCEPT ![q] = [p \in Work |-> NoTask]]
    /\ UNCHANGED <<session, inbox, mode, taken, used>>

\* The tables are read once more.
PrepareAsked(q) ==
    /\ job[q].pc = "asked"
    /\ IF Missing(q) = {}
       THEN job' = [job EXCEPT ![q].pc = "prepared", ![q].snap = store[q]] /\ Took(q)
       ELSE job' = [job EXCEPT ![q].pc = "failed"] /\ UNCHANGED taken
    /\ UNCHANGED <<store, session, task, inbox, mode, used>>

--------------------------------------------------------------------------------
(* AskInfo.                                                                  *)

\* The owner answers with what it stores.
AskInfo(q, p) ==
    /\ task[q][p].st = "ask"
    /\ task' = [task EXCEPT ![q][p] =
                  [st |-> "write", kind |-> task[q][p].kind, ans |-> store[p][p]]]
    /\ UNCHANGED <<store, session, job, inbox, mode, taken, used>>

\* The call fails: only a message is logged, and the update goes on with nothing.
AskInfoFails(q, p) ==
    /\ task[q][p].st = "ask"
    /\ Fault
    /\ task' = [task EXCEPT ![q][p] =
                  [st |-> "write", kind |-> task[q][p].kind, ans |-> NoTable]]
    /\ UNCHANGED <<store, session, job, inbox, mode, taken>>

NoCCL == [e \in Dests |-> NoPriv]

\* GrantColumnConstraintsWithCheck with no CCL looks at all tables, and their
\* owner must be the party that was asked.
GrantChecked(q, p, ccl) == ccl # NoCCL \/ \A d \in Data \ {p} : store[q][d] = NoTable

AnsweredCCL(ans) == IF ans = NoTable THEN NoCCL ELSE ans.ccl

\* An insert that updates the rows that exist.
Granted(ccl, new) == [e \in Dests |-> IF new[e] # NoPriv THEN new[e] ELSE ccl[e]]

\* Mutant: CCLs that were asked for are not stored.
UpdatedRowNoGrant(row, kind, ans) == IF kind = "table" THEN ans ELSE row

\* What updateStorage makes of the row: the table is replaced, or CCLs are
\* added to it.
UpdatedRow(row, kind, ans) ==
    CASE kind = "table" -> ans
      [] kind # "table" /\ row = NoTable -> NoTable
      [] OTHER -> [row EXCEPT !.ccl = Granted(@, AnsweredCCL(ans))]

\* updateStorage does all of it or nothing.  CCLs need a table, and columns
\* that the table may not have when its schema has changed.
UpdateMayPass(q, p, kind, ans) ==
    /\ GrantChecked(q, p, AnsweredCCL(ans))
    /\ kind = "ccl" /\ AnsweredCCL(ans) # NoCCL => store[q][p] # NoTable

UpdateMayFail(q, p, kind, ans) ==
    \/ ~UpdateMayPass(q, p, kind, ans)
    \/ /\ kind = "ccl" /\ ans # NoTable /\ store[q][p] # NoTable
       /\ ans.schema.cols # store[q][p].schema.cols

\* A worker saves the endpoint whether or not the update went well.
AskWrite(q, p) ==
    /\ job[q].pc = "sync"
    /\ task[q][p].st = "write"
    /\ LET t == task[q][p]
       IN  \/ /\ UpdateMayPass(q, p, t.kind, t.ans)
              /\ store' = [store EXCEPT ![q][p] = UpdatedRow(@, t.kind, t.ans)]
              /\ task' = [task EXCEPT ![q][p] = [st |-> "done"]]
              /\ job' = [job EXCEPT ![q].ends = @ \cup {p}, ![q].again = TRUE]
           \/ /\ UpdateMayFail(q, p, t.kind, t.ans)
              /\ task' = [task EXCEPT ![q][p] = [st |-> "err"]]
              /\ job' = [job EXCEPT ![q].ends = @ \cup {p}]
              /\ UNCHANGED store
    /\ UNCHANGED <<session, inbox, mode, taken, used>>

--------------------------------------------------------------------------------
(* AddSession and DistributeQuery.                                           *)

\* Checksum.CompareWith, as far as createResourcesFrom tells its results apart.
CompareWith(c, d) ==
    CASE c = d -> "equal"
      [] c # d /\ c # NoTable /\ d # NoTable /\ c.cols = d.cols -> "ccl"
      [] OTHER -> "table"

\* The goroutine's next step after a comparison.
Compared(res) == IF res = "equal" THEN [st |-> "done"] ELSE [st |-> "ask", kind |-> res]

\* The checksum in the session row is that of the party's own table.
Own(q, snap) == IF q \in Data THEN Checksum(snap[q]) ELSE NoTable

\* Mutant: the issuer is not subtracted.
DistributeTasksAll == [p \in Work |-> [st |-> "call"]]

\* The issuer distributes the query to all parties at once.
DistributeTasks == [p \in Work |-> IF p = Issuer THEN NoTask ELSE [st |-> "call"]]

\* A worker compares with the issuer's checksum, and calls the others.
SyncTasks(q) ==
    [p \in Work |->
        CASE p \notin Data \ {q} \/ (p = Issuer /\ mode = "dry") -> NoTask
          [] p \in Data \ {q, Issuer} -> [st |-> "exchange", tries |-> 0]
          [] OTHER -> Compared(CompareWith(Checksum(job[q].snap[p]), job[q].remote[p]))]

AddSession(q) ==
    /\ job[q].pc = "prepared"
    /\ session' = [session EXCEPT ![q] = Own(q, job[q].snap)]
    /\ job' = [job EXCEPT ![q].pc = "sync"]
    /\ task' = [task EXCEPT ![q] = IF q = Issuer THEN DistributeTasks ELSE SyncTasks(q)]
    /\ inbox' = IF q = Issuer THEN Work \ {Issuer} ELSE inbox
    /\ UNCHANGED <<store, mode, taken, used>>

\* The request reaches q, with the checksum of the issuer's own table.
DistributeQuery(q) ==
    /\ q \in inbox
    /\ inbox' = inbox \ {q}
    /\ job' = [job EXCEPT ![q].pc = "prepare", ![q].remote =
                 [d \in Data |-> IF d = Issuer THEN Checksum(job[Issuer].snap[d]) ELSE Unknown],
                 ![q].ends = {Issuer}]
    /\ UNCHANGED <<store, session, task, mode, taken, used>>

\* q's answer, with the checksum of its table and how the issuer's compares.  A
\* worker answers a run as soon as its session is stored, a dry run at its end.
Answer(q) ==
    /\ task[Issuer][q].st = "call"
    /\ session[q] # NoSession
    /\ mode = "dry" => job[q].pc = "ran"
    /\ LET sum == Checksum(job[q].snap[q])
       IN  /\ job' = [job EXCEPT ![Issuer].remote[q] = sum, ![Issuer].ends = @ \cup {q}]
           /\ task' = [task EXCEPT ![Issuer][q] =
                         Compared(CompareWith(sum, Checksum(job[Issuer].snap[q])))]
    /\ UNCHANGED <<store, session, inbox, mode, taken, used>>

\* q answers with an error.
AnswerError(q) ==
    /\ task[Issuer][q].st = "call"
    /\ job[q].pc = "failed" /\ (session[q] = NoSession \/ mode = "dry")
    /\ task' = [task EXCEPT ![Issuer][q] = [st |-> "err"]]
    /\ UNCHANGED <<store, session, job, inbox, mode, taken, used>>

\* The call fails; the request may still reach q.
DistributeFails(q) ==
    /\ task[Issuer][q].st = "call"
    /\ Fault
    /\ task' = [task EXCEPT ![Issuer][q] = [st |-> "err"]]
    /\ UNCHANGED <<store, session, job, inbox, mode, taken>>

--------------------------------------------------------------------------------
(* ExchangeJobInfo.                                                          *)

\* Mutant: q tries again as often as it takes.
ExchangeNotFoundForever(q, p) ==
    /\ task[q][p].st = "exchange"
    /\ session[p] = NoSession
    /\ UNCHANGED vars

\* p has no session yet: q tries again, unless it was the last time.
ExchangeNotFound(q, p) ==
    /\ task[q][p].st = "exchange"
    /\ session[p] = NoSession
    /\ task' = [task EXCEPT ![q][p] =
                  IF task[q][p].tries + 1 < RetryTimes
                  THEN [st |-> "exchange", tries |-> task[q][p].tries + 1]
                  ELSE [st |-> "err"]]
    /\ UNCHANGED <<store, session, job, inbox, mode, taken, used>>

\* p answers from its session row.  A dry run only keeps the checksum.
ExchangeJobInfo(q, p) ==
    /\ task[q][p].st = "exchange"
    /\ session[p] # NoSession
    /\ LET next == IF mode = "dry" THEN [st |-> "done"]
                   ELSE Compared(CompareWith(session[p], Checksum(job[q].snap[p])))
       IN  /\ task' = [task EXCEPT ![q][p] = next]
           /\ job' = [job EXCEPT ![q].remote[p] = session[p],
                        ![q].ends = IF mode = "run" /\ next.st = "done" THEN @ \cup {p} ELSE @]
    /\ UNCHANGED <<store, session, inbox, mode, taken, used>>

ExchangeFails(q, p) ==
    /\ task[q][p].st = "exchange"
    /\ Fault
    /\ task' = [task EXCEPT ![q][p] = [st |-> "err"]]
    /\ UNCHANGED <<store, session, job, inbox, mode, taken>>

--------------------------------------------------------------------------------
(* Execute.                                                                  *)

SyncOver(q) == \A p \in Work : task[q][p].st \in {"none", "done", "err"}
SyncFailed(q) == \E p \in Work : task[q][p].st = "err"

\* All goroutines have ended.  After an error the issuer and a dry run give up.
\* A worker logs it and executes all the same, without preparing again.
SyncEnds(q) ==
    /\ job[q].pc = "sync" /\ SyncOver(q)
    /\ job' = CASE ~SyncFailed(q) -> [job EXCEPT ![q].pc = "execute"]
                [] SyncFailed(q) /\ (q = Issuer \/ mode = "dry") -> [job EXCEPT ![q].pc = "failed"]
                [] OTHER -> [job EXCEPT ![q].pc = "execute", ![q].again = FALSE,
                                        ![q].unsynced = TRUE]
    /\ UNCHANGED <<store, session, task, inbox, mode, taken, used>>

\* Mutant: what was stored is not compared.
CheckChecksumNot(q, snap) == TRUE

CheckChecksum(q, snap) == \A d \in Data \ {q} : job[q].remote[d] = Checksum(snap[d])

\* Execute of a query that needs no second Prepare.
Execute(q) ==
    /\ job[q].pc = "execute" /\ mode = "run" /\ ~job[q].again
    /\ job' = [job EXCEPT ![q].pc = "compile"]
    /\ UNCHANGED <<store, session, task, inbox, mode, taken, used>>

\* The tables are read again, whether or not they are found, and the checksums
\* compared with those that their owners sent.
ExecuteAgain(q) ==
    /\ job[q].pc = "execute" /\ mode = "run" /\ job[q].again
    /\ job' = [job EXCEPT ![q].snap = store[q],
                          ![q].pc = IF CheckChecksum(q, store[q]) THEN "compile" ELSE "failed"]
    /\ Took(q)
    /\ UNCHANGED <<store, session, task, inbox, mode, used>>

\* DryRun and GetPlan compare what was read at first.
DryRun(q) ==
    /\ job[q].pc = "execute" /\ mode = "dry"
    /\ job' = [job EXCEPT ![q].pc =
                 IF CheckChecksum(q, job[q].snap) THEN "ran" ELSE "failed"]
    /\ UNCHANGED <<store, session, task, inbox, mode, taken, used>>

\* Compile needs the tables and CreateExecutor the endpoints.  The session row
\* is updated before the engine is called.
Run(q) ==
    /\ job[q].pc = "compile"
    /\ IF (\A d \in Data : job[q].snap[d] # NoTable) /\ Work \ {q} \subseteq job[q].ends
       THEN /\ job' = [job EXCEPT ![q].pc = "ran"]
            /\ session' = [session EXCEPT ![q] = Own(q, job[q].snap)]
       ELSE job' = [job EXCEPT ![q].pc = "failed"] /\ UNCHANGED session
    /\ UNCHANGED <<store, task, inbox, mode, taken, used>>

--------------------------------------------------------------------------------
(* The specification.                                                        *)

\* A row changes: CreateTable, DropTable or GrantCCL of the owner, or the
\* SyncInfo of one of them.
Change(q, d, v) ==
    /\ Event("changes")
    /\ v # store[q][d]
    /\ store' = [store EXCEPT ![q][d] = v]
    /\ UNCHANGED <<session, job, task, inbox, mode, taken>>

Step ==
    \/ \E q \in Work :
         \/ Prepare(q) \/ AskAllWrite(q) \/ PrepareAsked(q)
         \/ AddSession(q) \/ DistributeQuery(q) \/ Answer(q) \/ AnswerError(q)
         \/ SyncEnds(q) \/ Execute(q) \/ ExecuteAgain(q) \/ DryRun(q) \/ Run(q)
    \/ \E q, p \in Work :
         \/ AskInfo(q, p) \/ AskWrite(q, p)
         \/ ExchangeNotFound(q, p) \/ ExchangeJobInfo(q, p)

Environment ==
    \/ \E q \in Work, d \in Data, v \in Changes : Change(q, d, v)
    \/ \E q, p \in Work : AskInfoFails(q, p) \/ ExchangeFails(q, p)
    \/ \E q \in Work : DistributeFails(q)

Next == Step \/ Environment

Spec == Init /\ [][Next]_vars

\* The handlers and goroutines of the brokers keep running.
FairSpec == Spec /\ WF_vars(Step)

--------------------------------------------------------------------------------
(* Properties.                                                               *)

Tasks ==
    {NoTask} \cup [st : {"call", "done", "err"}]
    \cup [st : {"exchange"}, tries : 0..RetryTimes]
    \cup [st : {"ask"}, kind : {"all", "table", "ccl"}]
    \cup [st : {"write"}, kind : {"all", "table", "ccl"}, ans : View]

Jobs == [pc : {"idle", "prepare", "ask", "asked", "prepared", "sync", "execute", "compile",
               "ran", "failed"},
         snap : [Data -> View], remote : [Data -> Sums \cup {Unknown}],
         asked : SUBSET Data, ends : SUBSET Work, again : BOOLEAN, unsynced : BOOLEAN]

\* Every variable has its type; nobody has a task with itself.
TypeOK ==
    /\ store \in [Work -> [Data -> View]]
    /\ session \in [Work -> Sums \cup {NoSession}]
    /\ job \in [Work -> Jobs]
    /\ task \in [Work -> [Work -> Tasks]]
    /\ \A q \in Work : task[q][q] = NoTask
    /\ inbox \subseteq Work \ {Issuer}
    /\ mode \in {"run", "dry"}
    /\ taken \in [Data -> SUBSET Sums]
    /\ used \in [changes : 0..MaxEvents, faults : 0..MaxEvents]

\* A party that executes the query uses for every other data party a table with
\* the checksum of one that this party itself has read for the job: the same
\* columns, and for a column the same list of visibilities.  The parties that
\* the CCLs are for, the table referred to and its type may be others, for no
\* checksum covers them.  A party for which the error that syncWithAll returned
\* was only logged is excepted.
ViewsTaken ==
    \A q \in Work : job[q].pc = "ran" /\ ~job[q].unsynced =>
        \A d \in Data \ {q} : Checksum(job[q].snap[d]) \in taken[d]

\* The job ends at every party: nobody waits forever for a session that
\* another party never creates.
QueryEnds ==
    <>[](inbox = {} /\ \A q \in Work : job[q].pc \in {"idle", "ran", "failed"})

\* The issuer's own rows can be brought up to date: every owner has granted
\* something, and no row with the same columns holds a CCL for a party that its
\* owner has none for, for AskInfo adds and changes CCLs and removes none.
Repairable ==
    \A d \in Data :
        /\ store[d][d] # NoTable /\ store[d][d].ccl # NoCCL
        /\ \A q \in Work : LET row == store[q][d]
                           IN  \/ row = NoTable \/ row.schema.cols # store[d][d].schema.cols
                               \/ \A e \in Dests : row.ccl[e] # NoPriv => store[d][d].ccl[e] # NoPriv

\* Stale and missing rows do not stop a query: when no call fails and no table
\* changes meanwhile, the issuer asks for what it lacks and executes.
StaleRowsRepaired ==
    mode = "run" /\ Repairable /\ [](used = [changes |-> 0, faults |-> 0])
        => <>(job[Issuer].pc = "ran")
================================================================================
