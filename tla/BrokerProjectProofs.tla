-------------------------- MODULE BrokerProjectProofs --------------------------
(***************************************************************************)
(* Who archives a project, who is a member of it and whom the other        *)
(* brokers list, for any number of parties and any bounds.                 *)
(*                                                                         *)
(* A broker learns that a project is archived only from its creator.       *)
(* Whoever holds the project as it was last created is a member of it at   *)
(* the creator.  The proof follows the configurations of the project from  *)
(* one place where they are stored to the next.                            *)
(***************************************************************************)
EXTENDS BrokerProjectLocks

\* Only CreateProject counts the project's creations.
LEMMA FlowCreate ==
    ASSUME TypeOK, [Next]_vars, ~CreateProject
    PROVE  used'.create = used.create
<1>0. used \in Usage
  BY DEF TypeOK
<1> HIDE DEF TypeOK
<1>1. \/ used' = used
      \/ used' = [used EXCEPT !.invite = @ + 1] \/ used' = [used EXCEPT !.reply = @ + 1]
      \/ used' = [used EXCEPT !.archive = @ + 1] \/ used' = [used EXCEPT !.delete = @ + 1]
      \/ used' = [used EXCEPT !.check = @ + 1] \/ used' = [used EXCEPT !.crash = @ + 1]
  <2>1. ASSUME NEW q \in Others,
               \/ InviteMember(q) \/ InviteSend(q) \/ InviteDone(q) \/ InviteTimeout(q)
               \/ CheckAndUpdateStatus(q) \/ UpdateStatus(q) \/ CheckTimeout(q)
        PROVE  used' = used \/ used' = [used EXCEPT !.invite = @ + 1]
                 \/ used' = [used EXCEPT !.check = @ + 1]
    BY <2>1 DEF InviteMember, InviteSend, InviteDone, InviteTimeout, CheckAndUpdateStatus,
      UpdateStatus, CheckTimeout
  <2>2. ASSUME NEW q \in Others,
               \/ \E r \in {"accept", "decline"} : ProcessInvitation(q, r)
               \/ ProcessInvitationDone(q) \/ JoinTimeout(q) \/ AddNewMembers(q)
        PROVE  used' = used \/ used' = [used EXCEPT !.reply = @ + 1]
    BY <2>2 DEF ProcessInvitation, ProcessInvitationDone, JoinTimeout, AddNewMembers
  <2>3. ASSUME NEW p \in Parties,
               \/ ArchiveProject(p) \/ ArchiveAllowed(p) \/ ArchiveLocal(p) \/ ArchiveCommit(p)
               \/ ArchiveTimeout(p) \/ DeleteProject(p) \/ Crash(p)
        PROVE  used' = used \/ used' = [used EXCEPT !.archive = @ + 1]
                 \/ used' = [used EXCEPT !.delete = @ + 1]
                 \/ used' = [used EXCEPT !.crash = @ + 1]
    BY <2>3, SMTT(20) DEF ArchiveProject, ArchiveAllowed, ArchiveLocal, ArchiveCommit, ArchiveTimeout,
      DeleteProject, Crash
  <2>4. ASSUME \/ \E m \in inviteMsg : InviteToProjectRead(m) \/ InviteToProjectWrite(m)
               \/ \E m \in replyMsg : ReplyInvitationBegin(m)
               \/ ReplyInvitationWrite \/ ReplyInvitationCommit
               \/ \E m \in memberMsg : SyncMemberRead(m) \/ SyncMemberAdd(m)
               \/ \E m \in askMsg : AskInfo(m)
               \/ UNCHANGED vars
        PROVE  used' = used
    BY <2>4, Zenon DEF InviteToProjectRead, InviteToProjectWrite, ReplyInvitationBegin,
      ReplyInvitationWrite, ReplyInvitationCommit, SyncMemberRead, SyncMemberAdd, AskInfo, vars
  <2>5. ASSUME NEW m \in archiveMsg,
               SyncInfoRead(m) \/ SyncInfoArchive(m) \/ SyncInfoDeadlock(m)
        PROVE  used' = used
    BY <2>5 DEF SyncInfoRead, SyncInfoArchive, SyncInfoDeadlock
  <2> QED
    BY <2>1, <2>2, <2>3, <2>4, <2>5, Zenon DEF Next
<1> QED
  BY <1>0, <1>1 DEF Usage

\* What CreateProject changes.
LEMMA CreateEffect ==
    ASSUME TypeOK, CreateProject
    PROVE  /\ used'.create = used.create + 1
           /\ UNCHANGED <<recv, invite, join, archive, check, inviteMsg>>
           /\ \A q \in Others : proj'[q] = proj[q] /\ conf'[q] = conf[q]
           /\ conf'[Creator] = used.create + 1
<1>1. /\ used' = [used EXCEPT !.create = @ + 1]
      /\ conf' = [conf EXCEPT ![Creator] = used.create + 1]
      /\ proj' = [proj EXCEPT ![Creator] = "live"]
      /\ UNCHANGED <<recv, invite, join, archive, check, inviteMsg>>
  BY Zenon DEF CreateProject, msgVars
<1>2. used \in Usage /\ proj \in [Parties -> Rows] /\ conf \in [Parties -> Confs]
      /\ Creator \in Parties /\ Others = Parties \ {Creator}
  BY BrokerProjectAssumption DEF TypeOK, Others
<1>3. used'.create = used.create + 1
  BY <1>1, <1>2 DEF Usage
<1> QED
  BY <1>1, <1>2, <1>3

\* Nothing has happened yet, apart from crashes.
Untouched ==
    /\ \A p \in Parties : proj[p] = "none" /\ members[p] = {} /\ archive[p] = IdleArchive
    /\ \A q \in Others : /\ recv[q] = NoReceived /\ invite[q] = IdleInvite
                         /\ join[q] = IdleJoin /\ check[q] = IdleCheck
    /\ admit = NoAdmit /\ lost = {}
    /\ inviteMsg = {} /\ replyMsg = {} /\ archiveMsg = {} /\ memberMsg = {} /\ askMsg = {}

\* Before the project is created no handler and no call can be under way.
FreshInv == used.create = 0 => Untouched

\* The only steps before the project is created are its creation and crashes.
LEMMA FreshActions ==
    ASSUME TypeOK, Untouched, [Next]_vars
    PROVE  CreateProject \/ (\E p \in Parties : Crash(p)) \/ UNCHANGED vars
<1>0. Creator \in Parties /\ Others \subseteq Parties
  BY BrokerProjectAssumption, Zenon DEF Others
<1>r. /\ IdleArchive.pc = "idle" /\ IdleInvite.pc = "idle" /\ IdleJoin.pc = "idle"
      /\ IdleCheck.pc = "idle" /\ NoAdmit.pc = "idle" /\ NoReceived.status = "none"
  BY Zenon DEF IdleArchive, IdleInvite, IdleJoin, IdleCheck, NoAdmit, NoReceived
<1>u. /\ \A p \in Parties : proj[p] = "none" /\ archive[p].pc = "idle"
      /\ \A q \in Others : /\ recv[q].status = "none" /\ invite[q].pc = "idle"
                           /\ join[q].pc = "idle" /\ check[q].pc = "idle"
      /\ admit.pc = "idle"
      /\ inviteMsg = {} /\ replyMsg = {} /\ archiveMsg = {} /\ memberMsg = {} /\ askMsg = {}
  BY <1>0, <1>r DEF Untouched
<1> HIDE DEF TypeOK
<1>1. ASSUME NEW q \in Others
      PROVE  ~(InviteMember(q) \/ InviteSend(q) \/ InviteDone(q) \/ InviteTimeout(q))
  BY <1>0, <1>u DEF InviteMember, InviteSend, InviteDone, InviteTimeout
<1>2. ASSUME NEW q \in Others
      PROVE  ~(\/ \E r \in {"accept", "decline"} : ProcessInvitation(q, r)
               \/ ProcessInvitationDone(q) \/ JoinTimeout(q) \/ AddNewMembers(q))
  BY <1>u DEF ProcessInvitation, ProcessInvitationDone, JoinTimeout, AddNewMembers
<1>3. ASSUME NEW q \in Others
      PROVE  ~(CheckAndUpdateStatus(q) \/ UpdateStatus(q) \/ CheckTimeout(q))
  BY <1>0, <1>u DEF CheckAndUpdateStatus, UpdateStatus, CheckTimeout
<1>4. ASSUME NEW p \in Parties
      PROVE  ~(\/ ArchiveProject(p) \/ ArchiveAllowed(p) \/ ArchiveLocal(p) \/ ArchiveCommit(p)
               \/ ArchiveTimeout(p) \/ DeleteProject(p))
  BY <1>u DEF ArchiveProject, ArchiveAllowed, ArchiveLocal, ArchiveCommit, ArchiveTimeout,
    DeleteProject
<1>5. ~ReplyInvitationWrite /\ ~ReplyInvitationCommit
  BY <1>u DEF ReplyInvitationWrite, ReplyInvitationCommit
<1> QED
  BY <1>u, <1>1, <1>2, <1>3, <1>4, <1>5, Zenon DEF Next

\* A crash finds nothing to undo.
LEMMA FreshCrash ==
    ASSUME TypeOK, Untouched, NEW p \in Parties, Crash(p)
    PROVE  Untouched'
<1>0. /\ Creator \in Parties /\ Others = Parties \ {Creator}
      /\ join \in [Others -> JoinState] /\ check \in [Others -> CheckState]
      /\ archive \in [Parties -> ArchiveState]
  BY BrokerProjectAssumption, Zenon DEF Others, TypeOK
<1>r. /\ IdleArchive.pc = "idle" /\ NoAdmit.pc = "idle" /\ NoAdmit.from = Creator
  BY DEF IdleArchive, NoAdmit
<1> HIDE DEF TypeOK
<1>1. UNCHANGED <<proj, members, recv>>
  BY DEF Crash, rowVars
<1>2. /\ \A q \in Others : invite'[q] = IdleInvite /\ join'[q] = IdleJoin /\ check'[q] = IdleCheck
      /\ \A x \in Parties : archive'[x] = IdleArchive
  <2>1. \A q \in Others : invite'[q] = IdleInvite
    BY DEF Crash, Untouched
  <2>2. \A q \in Others : join'[q] = IdleJoin
    BY <1>0 DEF Crash, Untouched
  <2>3. \A q \in Others : check'[q] = IdleCheck
    BY <1>0 DEF Crash, Untouched
  <2>4. \A x \in Parties : archive'[x] = IdleArchive
    BY <1>0 DEF Crash, Untouched
  <2> QED
    BY <2>1, <2>2, <2>3, <2>4
<1>3. admit' = NoAdmit
  <2>1. CASE p = Creator
    BY <2>1 DEF Crash
  <2>2. CASE p # Creator
    BY <1>r, <2>2 DEF Crash, Untouched
  <2> QED
    BY <2>1, <2>2
<1>4. lost' = {}
  BY <1>0, <1>r DEF Crash, Untouched
<1>5. inviteMsg' = {} /\ replyMsg' = {} /\ archiveMsg' = {} /\ memberMsg' = {} /\ askMsg' = {}
  BY DEF Crash, Untouched, Late
<1> QED
  BY <1>1, <1>2, <1>3, <1>4, <1>5, SMTT(20) DEF Untouched

\* Only CreateProject counts the project's creations, and so every step keeps
\* FreshInv.
\* Every step keeps FreshInv: only CreateProject counts the creations.
LEMMA FreshStep == TypeOK /\ FreshInv /\ [Next]_vars => FreshInv'
<1> SUFFICES ASSUME TypeOK, FreshInv, [Next]_vars, used'.create = 0 PROVE Untouched'
  BY DEF FreshInv
<1>0. used \in Usage /\ used.create \in Nat
  BY BrokerProjectAssumption DEF TypeOK, Usage, Confs
<1>1. ~CreateProject
  BY <1>0 DEF CreateProject, Usage
<1>2. Untouched
  BY <1>1, FlowCreate, Zenon DEF FreshInv
<1>3. CASE UNCHANGED vars
  BY <1>2, <1>3 DEF Untouched, vars, rowVars, msgVars, histVars
<1> QED
  BY <1>1, <1>2, <1>3, FreshActions, FreshCrash

\* Nobody but the creator can know that the project is being archived: no
\* other copy is archived, no other ArchiveProject has the creator's consent,
\* and no call or answer says so.
NobodyTold ==
    /\ \A q \in Others : /\ proj[q] # "archived" /\ archive[q].pc \in {"idle", "creator"}
                         /\ archive[q].reply # "ok" /\ check[q].remote.proj # "archived"
    /\ \A m \in archiveMsg : m.to = Creator

\* The creator has closed the project, is about to, or died when it was.
Closing == proj[Creator] # "live" \/ archive[Creator].pc = "spread" \/ Creator \in lost

\* With one creation, others are told only by a creator that is closing.
ClosingInv == MaxCreates = 1 => NobodyTold \/ Closing

\* lost remembers: a crash adds to it and nothing else touches it.
LEMMA LostGrows ==
    ASSUME [Next]_vars
    PROVE  lost \subseteq lost'
<1>1. ASSUME NEW q \in Others,
             \/ InviteMember(q) \/ InviteSend(q) \/ InviteDone(q) \/ InviteTimeout(q)
             \/ CheckAndUpdateStatus(q) \/ UpdateStatus(q) \/ CheckTimeout(q)
      PROVE  lost' = lost
  BY <1>1 DEF InviteMember, InviteSend, InviteDone, InviteTimeout, CheckAndUpdateStatus,
    UpdateStatus, CheckTimeout, histVars
<1>2. ASSUME NEW q \in Others,
             \/ \E r \in {"accept", "decline"} : ProcessInvitation(q, r)
             \/ ProcessInvitationDone(q) \/ JoinTimeout(q) \/ AddNewMembers(q)
      PROVE  lost' = lost
  BY <1>2 DEF ProcessInvitation, ProcessInvitationDone, JoinTimeout, AddNewMembers, histVars
<1>3. ASSUME NEW p \in Parties,
             \/ ArchiveProject(p) \/ ArchiveAllowed(p) \/ ArchiveLocal(p) \/ ArchiveCommit(p)
             \/ ArchiveTimeout(p) \/ DeleteProject(p)
      PROVE  lost' = lost
  BY <1>3 DEF ArchiveProject, ArchiveAllowed, ArchiveLocal, ArchiveCommit, ArchiveTimeout,
    DeleteProject, histVars
<1>4. ASSUME NEW p \in Parties, Crash(p)
      PROVE  lost \subseteq lost'
  BY <1>4 DEF Crash
<1>5. ASSUME NEW m \in archiveMsg,
             SyncInfoRead(m) \/ SyncInfoArchive(m) \/ SyncInfoDeadlock(m)
      PROVE  lost' = lost
  BY <1>5 DEF SyncInfoRead, SyncInfoArchive, SyncInfoDeadlock, histVars
<1>6. ASSUME \/ CreateProject
             \/ \E m \in inviteMsg : InviteToProjectRead(m) \/ InviteToProjectWrite(m)
             \/ \E m \in replyMsg : ReplyInvitationBegin(m)
             \/ ReplyInvitationWrite \/ ReplyInvitationCommit
             \/ \E m \in memberMsg : SyncMemberRead(m) \/ SyncMemberAdd(m)
             \/ \E m \in askMsg : AskInfo(m)
             \/ UNCHANGED vars
      PROVE  lost' = lost
  BY <1>6, Zenon DEF CreateProject, InviteToProjectRead, InviteToProjectWrite, ReplyInvitationBegin,
    ReplyInvitationWrite, ReplyInvitationCommit, SyncMemberRead, SyncMemberAdd, AskInfo,
    vars, histVars
<1> QED
  BY <1>1, <1>2, <1>3, <1>4, <1>5, <1>6, Zenon DEF Next

\* A creator that is closing does not go back.
LEMMA ClosingStays ==
    ASSUME TypeOK, LockInv, [Next]_vars, ~CreateProject, Closing
    PROVE  Closing'
<1>0. /\ Creator \in Parties /\ Others = Parties \ {Creator}
      /\ proj \in [Parties -> Rows] /\ archive \in [Parties -> ArchiveState]
      /\ \A p \in Parties : archive[p] \in ArchiveState
  BY BrokerProjectAssumption, Zenon DEF TypeOK, Others
<1>1. proj[Creator] # "live" => proj'[Creator] # "live"
  <2>1. ASSUME NEW q \in Others, ProcessInvitationDone(q)
        PROVE  proj'[Creator] = proj[Creator]
    BY <1>0, <2>1, SMTT(20) DEF ProcessInvitationDone
  <2> HIDE DEF TypeOK
  <2> QED
    BY <1>0, <2>1, WhoWritesProject
<1> HIDE DEF TypeOK
<1>2. archive[Creator].pc = "spread" => Closing'
  <2> SUFFICES ASSUME archive[Creator].pc = "spread" PROVE Closing'
    OBVIOUS
  <2>0. ASSUME archive' = archive PROVE Closing'
    BY <2>0 DEF Closing
  <2>1. ASSUME NEW x \in Parties, ArchiveProject(x) \/ ArchiveAllowed(x) \/ ArchiveLocal(x)
        PROVE  Closing'
    <3>1. x # Creator /\ \E a : archive' = [archive EXCEPT ![x] = a]
      BY <2>1, SMTT(20) DEF ArchiveProject, ArchiveAllowed, ArchiveLocal
    <3> QED
      BY <1>0, <3>1 DEF Closing
  <2>2. ASSUME NEW x \in Parties, ArchiveCommit(x)
        PROVE  Closing'
    BY <1>0, <2>2, Zenon DEF ArchiveCommit, Closing
  <2>3. ASSUME NEW x \in Parties, ArchiveTimeout(x)
        PROVE  Closing'
    <3>1. \/ archive[x].pc = "creator" /\ archive' = [archive EXCEPT ![x] = IdleArchive]
          \/ \E t : archive' = [archive EXCEPT ![x].wait = @ \ {t}]
      BY <2>3, Zenon DEF ArchiveTimeout
    <3>2. ASSUME NEW t, archive' = [archive EXCEPT ![x].wait = @ \ {t}]
          PROVE  archive'[Creator].pc = archive[Creator].pc
      BY <1>0, <3>2 DEF ArchiveState
    <3>3. ASSUME archive[x].pc = "creator", archive' = [archive EXCEPT ![x] = IdleArchive]
          PROVE  archive'[Creator] = archive[Creator]
      BY <1>0, <3>3
    <3>4. archive'[Creator].pc = archive[Creator].pc
      BY <3>1, <3>2, <3>3, Zenon
    <3> QED
      BY <3>4 DEF Closing
  <2>4. ASSUME NEW x \in Parties, Crash(x)
        PROVE  Closing'
    BY <1>0, <2>4 DEF Crash, Closing
  <2>5. ASSUME NEW x \in Parties, DeleteProject(x)
        PROVE  archive' = archive
    BY <2>5 DEF DeleteProject
  <2>6. ASSUME NEW m \in archiveMsg,
               SyncInfoRead(m) \/ SyncInfoArchive(m) \/ SyncInfoDeadlock(m)
        PROVE  Closing'
    <3>1. archive' = archive \/ ArchiveAnswer(m, "ok") \/ ArchiveAnswer(m, "error")
      BY <2>6, Zenon DEF SyncInfoRead, SyncInfoArchive, SyncInfoDeadlock
    <3> QED
      BY <1>0, <2>0, <3>1, ArchiveAnswerKeeps DEF Closing
  <2>7. ASSUME NEW q \in Others,
               \/ \E r \in {"accept", "decline"} : ProcessInvitation(q, r)
               \/ ProcessInvitationDone(q) \/ JoinTimeout(q) \/ AddNewMembers(q) \/ UpdateStatus(q)
        PROVE  archive' = archive
    BY <2>7, Zenon DEF ProcessInvitation, ProcessInvitationDone, JoinTimeout, AddNewMembers, UpdateStatus
  <2>8. ASSUME \/ \E m \in replyMsg : ReplyInvitationBegin(m)
               \/ ReplyInvitationWrite \/ ReplyInvitationCommit
        PROVE  archive' = archive
    BY <2>8 DEF ReplyInvitationBegin, ReplyInvitationWrite, ReplyInvitationCommit
  <2>9. LockFree => archive' = archive
    BY LockFreeKeeps, Zenon
  <2> HIDE DEF Closing
  <2>10. ASSUME NEW q \in Others,
                \/ InviteMember(q) \/ InviteSend(q) \/ InviteDone(q) \/ InviteTimeout(q)
                \/ \E r \in {"accept", "decline"} : ProcessInvitation(q, r)
                \/ ProcessInvitationDone(q) \/ JoinTimeout(q) \/ AddNewMembers(q)
                \/ CheckAndUpdateStatus(q) \/ UpdateStatus(q) \/ CheckTimeout(q)
         PROVE  Closing'
    BY <2>0, <2>7, <2>9, <2>10, Zenon DEF LockFree
  <2>11. ASSUME \/ \E m \in inviteMsg : InviteToProjectRead(m) \/ InviteToProjectWrite(m)
                \/ \E m \in memberMsg : SyncMemberRead(m) \/ SyncMemberAdd(m)
                \/ \E m \in askMsg : AskInfo(m)
                \/ UNCHANGED vars
         PROVE  Closing'
    BY <2>0, <2>9, <2>11, Zenon DEF LockFree
  <2> QED
    BY <2>0, <2>1, <2>2, <2>3, <2>4, <2>5, <2>6, <2>8, <2>10, <2>11, Zenon DEF Next
<1> QED
  BY <1>1, <1>2, LostGrows, Zenon DEF Closing

\* A creator that is not closing tells nobody without starting to close.
LEMMA ClosingTells ==
    ASSUME TypeOK, [Next]_vars, NobodyTold, ~Closing
    PROVE  NobodyTold' \/ Closing'
<1>0. /\ Creator \in Parties /\ Others = Parties \ {Creator}
      /\ proj \in [Parties -> Rows] /\ archive \in [Parties -> ArchiveState]
      /\ \A p \in Parties : archive[p] \in ArchiveState
      /\ check \in [Others -> CheckState] /\ \A q \in Others : check[q] \in CheckState
      /\ archiveMsg \subseteq ArchiveCall
      /\ \A m \in archiveMsg : m \in ArchiveCall /\ m.from \in Parties
      /\ \A m \in askMsg : m.from \in Others
  BY BrokerProjectAssumption, Zenon DEF TypeOK, Others, ArchiveCall, AskCall
<1>c. proj[Creator] = "live" /\ archive[Creator].pc # "spread"
  BY Zenon DEF Closing
<1>r. /\ IdleArchive.pc = "idle" /\ IdleArchive.reply = "none"
      /\ IdleCheck.remote.proj = "none"
  BY DEF IdleArchive, IdleCheck, NoStatus
<1> HIDE DEF TypeOK
<1>l. ASSUME NEW S \in SUBSET archiveMsg, NEW T \in SUBSET S
      PROVE  \A m \in Late(S, T) : m.to = Creator
  <2>1. \A m \in T : [m EXCEPT !.open = FALSE].to = m.to
    BY <1>0 DEF ArchiveCall
  <2> QED
    BY <2>1, Zenon DEF Late, NobodyTold
<1>1. ASSUME UNCHANGED <<archive, archiveMsg>>, proj' = proj \/ \E x \in Parties : proj' = [proj EXCEPT ![x] = "live"],
             \A q \in Others : check'[q].remote = check[q].remote \/ check'[q].remote.proj # "archived"
      PROVE  NobodyTold'
  BY <1>0, <1>1, Zenon DEF NobodyTold
<1>2. ASSUME UNCHANGED <<proj, check>>, \A m \in archiveMsg' : m.to = Creator,
             \A q \in Others : archive'[q].pc \in {"idle", "creator"} /\ archive'[q].reply # "ok"
      PROVE  NobodyTold'
  BY <1>0, <1>2 DEF NobodyTold
<1>3. ASSUME NEW m \in askMsg, AskInfo(m)
      PROVE  NobodyTold'
  <2>1. /\ UNCHANGED <<archive, archiveMsg, proj>>
        /\ check' = check \/ check' = [check EXCEPT ![m.from] =
                       [@ EXCEPT !.pc = "update", !.remote = StatusOf(Creator)]]
    BY <1>3, <1>c DEF AskInfo, rowVars
  <2>2. [check[m.from] EXCEPT !.pc = "update", !.remote = StatusOf(Creator)].remote.proj = "live"
    BY <1>0, <1>c DEF CheckState, StatusOf
  <2>3. \A q \in Others : check'[q] = check[q] \/ check'[q].remote.proj = "live"
    BY <1>0, <2>1, <2>2, Zenon
  <2>4. \A q \in Others : check'[q].remote = check[q].remote \/ check'[q].remote.proj # "archived"
    BY <2>3
  <2> QED
    BY <1>1, <2>1, <2>4, Zenon
<1>4. ASSUME NEW q \in Others, CheckAndUpdateStatus(q)
      PROVE  NobodyTold'
  <2>1. /\ UNCHANGED <<archive, archiveMsg, proj>>
        /\ check' = [check EXCEPT ![q].pc = "asking", ![q].local = StatusOf(q)]
    BY <1>4 DEF CheckAndUpdateStatus, rowVars
  <2>2. \A x \in Others : check'[x].remote = check[x].remote
    BY <1>0, <2>1, Zenon DEF CheckState
  <2> QED
    BY <1>1, <2>1, <2>2, Zenon
<1>5. ASSUME NEW q \in Others, CheckTimeout(q) \/ UpdateStatus(q)
      PROVE  NobodyTold'
  <2>1. UNCHANGED <<archive, archiveMsg, proj>> /\ check' = [check EXCEPT ![q] = IdleCheck]
    BY <1>5, Zenon DEF CheckTimeout, UpdateStatus, rowVars, msgVars, NobodyTold
  <2> QED
    BY <1>0, <1>1, <1>r, <2>1, Zenon
<1>6. ASSUME NEW q \in Others, ProcessInvitationDone(q)
      PROVE  NobodyTold'
  <2>1. /\ UNCHANGED <<archive, archiveMsg, check>>
        /\ proj' = proj \/ proj' = [proj EXCEPT ![q] = "live"]
    BY <1>6 DEF ProcessInvitationDone, msgVars
  <2> QED
    BY <1>0, <1>1, <2>1, Zenon
<1>7. ASSUME UNCHANGED <<archive, archiveMsg, proj, check>>
      PROVE  NobodyTold'
  BY <1>1, <1>7
<1>8. ASSUME NEW x \in Parties, ArchiveProject(x)
      PROVE  NobodyTold'
  <2>1. /\ UNCHANGED <<proj, check>>
        /\ archive' = [archive EXCEPT ![x] = [IdleArchive EXCEPT !.conf = conf[x],
                            !.pc = IF x = Creator THEN "local" ELSE "creator"]]
        /\ \A m \in archiveMsg' : m \in archiveMsg \/ m.to = Creator
    BY <1>8 DEF ArchiveProject, rowVars
  <2>2. \A q \in Others : archive'[q].pc \in {"idle", "creator"} /\ archive'[q].reply # "ok"
    <3>1. x \in Others => (archive'[x].pc = "creator" /\ archive'[x].reply = "none")
      BY <1>0, <2>1 DEF IdleArchive
    <3> QED
      BY <1>0, <2>1, <3>1 DEF NobodyTold
  <2> QED
    BY <1>2, <2>1, <2>2 DEF NobodyTold
<1>9. ASSUME NEW x \in Parties, ArchiveAllowed(x)
      PROVE  NobodyTold'
  <2>1. /\ UNCHANGED <<proj, check, archiveMsg>>
        /\ archive' = [archive EXCEPT ![x] = IF archive[x].reply = "ok"
                          THEN [@ EXCEPT !.pc = "local"] ELSE IdleArchive]
    BY <1>9, Zenon DEF ArchiveAllowed, rowVars, msgVars
  <2>2. x \in Others => archive[x].reply # "ok"
    BY DEF NobodyTold
  <2>3. \A q \in Others : archive'[q] = archive[q] \/ archive'[q] = IdleArchive
    BY <1>0, <2>1, <2>2, Zenon
  <2> QED
    BY <1>2, <1>r, <2>1, <2>3 DEF NobodyTold
<1>10. ASSUME NEW x \in Parties, ArchiveLocal(x)
       PROVE  Closing'
  <2>1. x = Creator
    BY <1>0, <1>10 DEF ArchiveLocal, NobodyTold
  <2>2. \E S : archive' = [archive EXCEPT ![x].pc = "spread", ![x].wait = S]
    BY <1>10, <1>c, <2>1 DEF ArchiveLocal
  <2> QED
    BY <1>0, <2>1, <2>2 DEF Closing, ArchiveState
<1>11. ASSUME NEW x \in Parties
       PROVE  ~ArchiveCommit(x) /\ ~DeleteProject(x)
  BY <1>0, <1>c, Zenon DEF ArchiveCommit, DeleteProject, NobodyTold
<1>12. ASSUME NEW x \in Parties, ArchiveTimeout(x)
       PROVE  NobodyTold'
  <2>1. archive[x].pc # "spread"
    BY <1>0, <1>c, Zenon DEF NobodyTold
  <2>2. /\ UNCHANGED <<proj, check>> /\ archive' = [archive EXCEPT ![x] = IdleArchive]
        /\ archiveMsg' = Late(archiveMsg, {m \in archiveMsg : m.from = x /\ m.to = Creator})
    BY <1>12, <2>1, Zenon DEF ArchiveTimeout, rowVars
  <2>3. \A m \in archiveMsg' : m.to = Creator
    BY <1>l, <2>2, Zenon
  <2> QED
    BY <1>0, <1>2, <1>r, <2>2, <2>3, Zenon DEF NobodyTold
<1>13. ASSUME NEW x \in Parties, Crash(x)
       PROVE  NobodyTold'
  <2> DEFINE M == {m \in archiveMsg : ~(m.to = x /\ m.checked)}
  <2>1. /\ proj' = proj /\ archive' = [archive EXCEPT ![x] = IdleArchive]
        /\ check' = IF x = Creator THEN check ELSE [check EXCEPT ![x] = IdleCheck]
        /\ archiveMsg' = Late(M, {m \in M : m.from = x})
    BY <1>13, Zenon DEF Crash, rowVars
  <2>2. \A m \in archiveMsg' : m.to = Creator
    BY <1>l, <2>1, Zenon
  <2>3. \A q \in Others : check'[q] = check[q] \/ check'[q] = IdleCheck
    BY <1>0, <2>1, Zenon
  <2>4. \A q \in Others : archive'[q] = archive[q] \/ archive'[q] = IdleArchive
    BY <1>0, <2>1
  <2> QED
    BY <1>r, <2>1, <2>2, <2>3, <2>4, Zenon DEF NobodyTold
<1>14. ASSUME NEW m \in archiveMsg,
              SyncInfoRead(m) \/ SyncInfoArchive(m) \/ SyncInfoDeadlock(m)
       PROVE  NobodyTold' \/ Closing'
  <2>1. m.to = Creator /\ [m EXCEPT !.checked = TRUE].to = Creator
    BY <1>0 DEF NobodyTold, ArchiveCall
  <2>2. CASE proj'[Creator] = "archived"
    BY <2>2 DEF Closing
  <2>3. CASE proj'[Creator] # "archived"
    <3>1. /\ UNCHANGED <<proj, check>>
          /\ archive' = archive \/ ArchiveAnswer(m, "error")
          /\ \/ archiveMsg' = archiveMsg \ {m}
             \/ archiveMsg' = (archiveMsg \ {m}) \cup {[m EXCEPT !.checked = TRUE]}
      BY <1>0, <1>14, <2>1, <2>3 DEF SyncInfoRead, SyncInfoArchive, SyncInfoDeadlock, rowVars
    <3>2. archive' = archive \/ archive' = [archive EXCEPT ![m.from].reply = "error"]
      BY <2>1, <3>1 DEF ArchiveAnswer
    <3>3. \A q \in Others : archive'[q].pc = archive[q].pc
                             /\ (archive'[q].reply = archive[q].reply \/ archive'[q].reply = "error")
      BY <1>0, <3>2 DEF ArchiveState
    <3>4. \A n \in archiveMsg' : n.to = Creator
      BY <2>1, <3>1, Zenon DEF NobodyTold
    <3>5. \A q \in Others : archive'[q].pc \in {"idle", "creator"} /\ archive'[q].reply # "ok"
      BY <3>3 DEF NobodyTold
    <3> QED
      BY <1>2, <3>1, <3>4, <3>5, Zenon
  <2> QED
    BY <2>2, <2>3
<1>15. ASSUME NEW q \in Others,
              \/ InviteMember(q) \/ InviteSend(q) \/ InviteDone(q) \/ InviteTimeout(q)
              \/ \E r \in {"accept", "decline"} : ProcessInvitation(q, r)
              \/ JoinTimeout(q) \/ AddNewMembers(q)
       PROVE  UNCHANGED <<archive, archiveMsg, proj, check>>
  BY <1>15 DEF InviteMember, InviteSend, InviteDone, InviteTimeout, ProcessInvitation,
    JoinTimeout, AddNewMembers, rowVars, msgVars
<1>16. ASSUME \/ \E m \in inviteMsg : InviteToProjectRead(m) \/ InviteToProjectWrite(m)
              \/ \E m \in replyMsg : ReplyInvitationBegin(m)
              \/ ReplyInvitationWrite \/ ReplyInvitationCommit
              \/ \E m \in memberMsg : SyncMemberRead(m) \/ SyncMemberAdd(m)
              \/ UNCHANGED vars
       PROVE  UNCHANGED <<archive, archiveMsg, proj, check>>
  BY <1>16, Zenon DEF InviteToProjectRead, InviteToProjectWrite, ReplyInvitationBegin,
    ReplyInvitationWrite, ReplyInvitationCommit, SyncMemberRead, SyncMemberAdd, vars, rowVars,
    msgVars
<1>17. ~CreateProject
  BY <1>c DEF CreateProject
<1> HIDE DEF NobodyTold, Closing
<1>18. ASSUME NEW q \in Others,
              \/ InviteMember(q) \/ InviteSend(q) \/ InviteDone(q) \/ InviteTimeout(q)
              \/ \E r \in {"accept", "decline"} : ProcessInvitation(q, r)
              \/ ProcessInvitationDone(q) \/ JoinTimeout(q) \/ AddNewMembers(q)
              \/ CheckAndUpdateStatus(q) \/ UpdateStatus(q) \/ CheckTimeout(q)
       PROVE  NobodyTold'
  BY <1>4, <1>5, <1>6, <1>7, <1>15, <1>18
<1>19. ASSUME NEW x \in Parties,
              \/ ArchiveProject(x) \/ ArchiveAllowed(x) \/ ArchiveLocal(x) \/ ArchiveCommit(x)
              \/ ArchiveTimeout(x) \/ DeleteProject(x) \/ Crash(x)
       PROVE  NobodyTold' \/ Closing'
  BY <1>8, <1>9, <1>10, <1>11, <1>12, <1>13, <1>19
<1> QED
  BY <1>3, <1>7, <1>14, <1>16, <1>17, <1>18, <1>19, SMTT(20) DEF Next

\* Every step keeps ClosingInv.
LEMMA ClosingStep ==
    TypeOK /\ LockInv /\ FreshInv /\ ClosingInv /\ [Next]_vars => ClosingInv'
<1> SUFFICES ASSUME TypeOK, LockInv, FreshInv, ClosingInv, [Next]_vars, MaxCreates = 1
             PROVE  NobodyTold' \/ Closing'
  BY Zenon DEF ClosingInv
<1>1. CASE CreateProject
  <2>1. used.create \in Nat /\ used.create < 1
    BY <1>1, BrokerProjectAssumption DEF CreateProject, TypeOK, Usage, Confs
  <2>2. Untouched
    BY <2>1 DEF FreshInv
  <2>3. /\ UNCHANGED <<archive, check, archiveMsg>>
        /\ \A q \in Others : proj'[q] = proj[q]
    BY <1>1, CreateEffect DEF CreateProject, msgVars
  <2>4. Others \subseteq Parties
    BY DEF Others
  <2> QED
    BY <2>2, <2>3, <2>4 DEF Untouched, NobodyTold, IdleArchive, IdleCheck, NoStatus
<1>2. CASE ~CreateProject
  BY <1>2, ClosingStays, ClosingTells DEF ClosingInv
<1> QED
  BY <1>1, <1>2

\* ArchivedByCreator holds for any number of parties: when a project is created
\* once, another broker learns that it is archived only from a creator that has
\* closed it, is about to commit that or died in between.
THEOREM ArchivedOnlyByCreator == Spec => []ArchivedByCreator
<1>1. Init => FreshInv /\ ClosingInv
  <2> SUFFICES ASSUME Init PROVE FreshInv /\ ClosingInv
    OBVIOUS
  <2>0. Creator \in Parties /\ Others \subseteq Parties
    BY BrokerProjectAssumption DEF Others
  <2>1. Untouched
    BY <2>0, Zenon DEF Init, Untouched
  <2>2. Closing
    BY <2>0 DEF Init, Closing
  <2> QED
    BY <2>1, <2>2 DEF FreshInv, ClosingInv
<1>2. ClosingInv => ArchivedByCreator
  BY DEF ClosingInv, NobodyTold, Closing, ArchivedByCreator
<1> QED
  BY <1>1, <1>2, LocksHold, FreshStep, ClosingStep, PTL DEF Spec

--------------------------------------------------------------------------------
\* Accepted(q): ProcessInvitation at q has the creator's consent and will
\* commit its project row.
Accepted(q) == join[q].reply = "ok" /\ join[q].respond = "accept"

\* Where the configuration of a row may come from: the row itself, the row
\* that ArchiveProject or CheckAndUpdateStatus read before, or an accepted
\* invitation.
LEMMA FlowConf ==
    ASSUME TypeOK, LockInv, [Next]_vars, ~CreateProject,
           NEW p \in Parties, proj'[p] # "none"
    PROVE  \/ proj[p] # "none" /\ conf'[p] = conf[p]
           \/ proj[p] # "none" /\ conf'[p] = archive[p].conf
           \/ proj[p] # "none" /\ p \in Others /\ conf'[p] = check[p].local.conf
           \/ p \in Others /\ Accepted(p) /\ conf'[p] = recv[p].conf
<1> DEFINE Goal == \/ proj[p] # "none" /\ conf'[p] = conf[p]
                   \/ proj[p] # "none" /\ conf'[p] = archive[p].conf
                   \/ proj[p] # "none" /\ p \in Others /\ conf'[p] = check[p].local.conf
                   \/ p \in Others /\ Accepted(p) /\ conf'[p] = recv[p].conf
<1>0. /\ proj \in [Parties -> Rows] /\ conf \in [Parties -> Confs]
      /\ Others \subseteq Parties
      /\ \A m \in archiveMsg : m.to \in Parties
  BY DEF TypeOK, Others, ArchiveCall
<1> HIDE DEF TypeOK
<1>1. UNCHANGED <<proj, conf>> => Goal
  OBVIOUS
<1>2. ASSUME NEW q \in Others, ProcessInvitationDone(q)
      PROVE  Goal
  <2>1. \/ UNCHANGED <<proj, conf>>
        \/ (Accepted(q) /\ conf' = [conf EXCEPT ![q] = recv[q].conf]
            /\ proj' = [proj EXCEPT ![q] = "live"])
    BY <1>2 DEF ProcessInvitationDone, Accepted
  <2> QED
    BY <1>0, <2>1
<1>3. ASSUME NEW q \in Others, UpdateStatus(q)
      PROVE  Goal
  <2>1. \/ UNCHANGED <<proj, conf>>
        \/ (/\ conf' = [conf EXCEPT ![q] = check[q].local.conf]
            /\ proj[q] # "none"
            /\ proj' = proj \/ proj' = [proj EXCEPT ![q] = "archived"])
    BY <1>3, Zenon DEF UpdateStatus
  <2> QED
    BY <1>0, <2>1, Zenon
<1>4. ASSUME NEW x \in Parties, ArchiveCommit(x)
      PROVE  Goal
  <2>1. /\ archive[x].pc = "spread" /\ proj' = [proj EXCEPT ![x] = "archived"]
        /\ conf' = [conf EXCEPT ![x] = archive[x].conf]
    BY <1>4 DEF ArchiveCommit
  <2>2. proj[x] # "none"
    BY <2>1 DEF LockInv
  <2> QED
    BY <1>0, <2>1, <2>2
<1>5. ASSUME NEW x \in Parties, DeleteProject(x)
      PROVE  Goal
  <2>1. proj' = [proj EXCEPT ![x] = "none"] /\ conf' = [conf EXCEPT ![x] = 0]
    BY <1>5 DEF DeleteProject
  <2> QED
    BY <1>0, <2>1
<1>6. ASSUME NEW m \in archiveMsg, SyncInfoArchive(m)
      PROVE  Goal
  <2>1. /\ conf' = conf
        /\ proj' = proj \/ (proj[m.to] # "none" /\ proj' = [proj EXCEPT ![m.to] = "archived"])
    BY <1>6 DEF SyncInfoArchive
  <2> QED
    BY <1>0, <2>1
<1>7. LockFree => Goal
  BY <1>1, LockFreeKeeps
<1> HIDE DEF Goal
<1>8. ASSUME NEW q \in Others,
             \/ InviteMember(q) \/ InviteSend(q) \/ InviteDone(q) \/ InviteTimeout(q)
             \/ \E r \in {"accept", "decline"} : ProcessInvitation(q, r)
             \/ ProcessInvitationDone(q) \/ JoinTimeout(q) \/ AddNewMembers(q)
             \/ CheckAndUpdateStatus(q) \/ UpdateStatus(q) \/ CheckTimeout(q)
      PROVE  Goal
  <2>1. ASSUME \/ \E r \in {"accept", "decline"} : ProcessInvitation(q, r)
               \/ JoinTimeout(q) \/ AddNewMembers(q)
        PROVE  UNCHANGED <<proj, conf>>
    BY <2>1 DEF ProcessInvitation, JoinTimeout, AddNewMembers, rowVars
  <2> QED
    BY <1>1, <1>2, <1>3, <1>7, <1>8, <2>1 DEF LockFree
<1>9. ASSUME NEW x \in Parties,
             \/ ArchiveProject(x) \/ ArchiveAllowed(x) \/ ArchiveLocal(x) \/ ArchiveCommit(x)
             \/ ArchiveTimeout(x) \/ DeleteProject(x) \/ Crash(x)
      PROVE  Goal
  <2>1. ASSUME \/ ArchiveProject(x) \/ ArchiveAllowed(x) \/ ArchiveLocal(x)
               \/ ArchiveTimeout(x) \/ Crash(x)
        PROVE  UNCHANGED <<proj, conf>>
    BY <2>1 DEF ArchiveProject, ArchiveAllowed, ArchiveLocal, ArchiveTimeout, Crash, rowVars
  <2> QED
    BY <1>1, <1>4, <1>5, <1>9, <2>1
<1>10. ASSUME \/ \E m \in replyMsg : ReplyInvitationBegin(m)
              \/ ReplyInvitationWrite \/ ReplyInvitationCommit
              \/ \E m \in archiveMsg : SyncInfoRead(m) \/ SyncInfoDeadlock(m)
       PROVE  UNCHANGED <<proj, conf>>
  BY <1>10 DEF ReplyInvitationBegin, ReplyInvitationWrite, ReplyInvitationCommit,
    SyncInfoRead, SyncInfoDeadlock, rowVars
<1>11. ASSUME \/ \E m \in inviteMsg : InviteToProjectRead(m) \/ InviteToProjectWrite(m)
              \/ \E m \in memberMsg : SyncMemberRead(m) \/ SyncMemberAdd(m)
              \/ \E m \in askMsg : AskInfo(m)
              \/ UNCHANGED vars
       PROVE  Goal
  BY <1>7, <1>11 DEF LockFree
<1>12. Goal
  BY <1>1, <1>6, <1>8, <1>9, <1>10, <1>11 DEF Next
<1> QED
  BY <1>12 DEF Goal

\* ArchiveProject keeps the configuration that it read in the row.
LEMMA FlowArchive ==
    ASSUME TypeOK, [Next]_vars, NEW p \in Parties
    PROVE  \/ archive'[p].conf = archive[p].conf \/ archive'[p].conf = 0
           \/ proj[p] # "none" /\ archive'[p].conf = conf[p]
<1> DEFINE Goal == \/ archive'[p].conf = archive[p].conf \/ archive'[p].conf = 0
                   \/ proj[p] # "none" /\ archive'[p].conf = conf[p]
<1>0. /\ archive \in [Parties -> ArchiveState]
      /\ \A x \in Parties : archive[x] \in ArchiveState
  BY DEF TypeOK
<1>r. IdleArchive.conf = 0
  BY DEF IdleArchive
<1>1. archive' = archive => Goal
  OBVIOUS
<1>2. ASSUME NEW x \in Parties, archive' = [archive EXCEPT ![x] = IdleArchive]
      PROVE  Goal
  BY <1>0, <1>r, <1>2
<1>3. ASSUME NEW x \in Parties, ArchiveProject(x)
      PROVE  Goal
  <2>1. /\ proj[x] # "none"
        /\ archive' = [archive EXCEPT ![x] = [IdleArchive EXCEPT !.conf = conf[x],
                            !.pc = IF x = Creator THEN "local" ELSE "creator"]]
    BY <1>3 DEF ArchiveProject
  <2>2. [IdleArchive EXCEPT !.conf = conf[x],
           !.pc = IF x = Creator THEN "local" ELSE "creator"].conf = conf[x]
    BY DEF IdleArchive
  <2> QED
    BY <1>0, <2>1, <2>2
<1>4. ASSUME NEW x \in Parties, ArchiveAllowed(x)
      PROVE  Goal
  <2>1. \/ archive' = [archive EXCEPT ![x] = IdleArchive]
        \/ archive' = [archive EXCEPT ![x] = [@ EXCEPT !.pc = "local"]]
    BY <1>4, Zenon DEF ArchiveAllowed
  <2>2. [archive[x] EXCEPT !.pc = "local"].conf = archive[x].conf
    BY <1>0 DEF ArchiveState
  <2> QED
    BY <1>0, <1>2, <2>1, <2>2, Zenon
<1>5. ASSUME NEW x \in Parties, ArchiveLocal(x)
      PROVE  Goal
  <2>1. \/ archive' = [archive EXCEPT ![x] = IdleArchive]
        \/ \E S : archive' = [archive EXCEPT ![x].pc = "spread", ![x].wait = S]
    BY <1>5 DEF ArchiveLocal
  <2>2. ASSUME NEW S, archive' = [archive EXCEPT ![x].pc = "spread", ![x].wait = S]
        PROVE  archive'[p].conf = archive[p].conf
    BY <1>0, <2>2 DEF ArchiveState
  <2> QED
    BY <1>2, <2>1, <2>2
<1>6. ASSUME NEW x \in Parties, ArchiveTimeout(x)
      PROVE  Goal
  <2>1. \/ archive' = [archive EXCEPT ![x] = IdleArchive]
        \/ \E t : archive' = [archive EXCEPT ![x].wait = @ \ {t}]
    BY <1>6, Zenon DEF ArchiveTimeout
  <2>2. ASSUME NEW t, archive' = [archive EXCEPT ![x].wait = @ \ {t}]
        PROVE  archive'[p].conf = archive[p].conf
    BY <1>0, <2>2 DEF ArchiveState
  <2> QED
    BY <1>2, <2>1, <2>2, Zenon
<1>7. ASSUME NEW x \in Parties, ArchiveCommit(x) \/ Crash(x)
      PROVE  Goal
  BY <1>2, <1>7 DEF ArchiveCommit, Crash
<1>8. ASSUME NEW x \in Parties, DeleteProject(x)
      PROVE  archive' = archive
  BY <1>8 DEF DeleteProject
<1>9. ASSUME NEW m \in archiveMsg,
             SyncInfoRead(m) \/ SyncInfoArchive(m) \/ SyncInfoDeadlock(m)
      PROVE  Goal
  <2>1. archive' = archive \/ ArchiveAnswer(m, "ok") \/ ArchiveAnswer(m, "error")
    BY <1>9 DEF SyncInfoRead, SyncInfoArchive, SyncInfoDeadlock
  <2> QED
    BY <1>1, <2>1, ArchiveAnswerKeeps
<1> HIDE DEF TypeOK
<1>10. LockFree => Goal
  BY <1>1, LockFreeKeeps, Zenon
<1>11. ASSUME NEW q \in Others,
              \/ \E r \in {"accept", "decline"} : ProcessInvitation(q, r)
              \/ ProcessInvitationDone(q) \/ JoinTimeout(q) \/ AddNewMembers(q) \/ UpdateStatus(q)
       PROVE  archive' = archive
  BY <1>11, Zenon DEF ProcessInvitation, ProcessInvitationDone, JoinTimeout, AddNewMembers, UpdateStatus
<1>12. ASSUME \/ CreateProject
              \/ \E m \in replyMsg : ReplyInvitationBegin(m)
              \/ ReplyInvitationWrite \/ ReplyInvitationCommit
       PROVE  archive' = archive
  BY <1>12 DEF CreateProject, ReplyInvitationBegin, ReplyInvitationWrite, ReplyInvitationCommit
<1> HIDE DEF Goal
<1>13. ASSUME NEW q \in Others,
              \/ InviteMember(q) \/ InviteSend(q) \/ InviteDone(q) \/ InviteTimeout(q)
              \/ \E r \in {"accept", "decline"} : ProcessInvitation(q, r)
              \/ ProcessInvitationDone(q) \/ JoinTimeout(q) \/ AddNewMembers(q)
              \/ CheckAndUpdateStatus(q) \/ UpdateStatus(q) \/ CheckTimeout(q)
       PROVE  Goal
  BY <1>1, <1>10, <1>11, <1>13 DEF LockFree
<1>14. ASSUME NEW x \in Parties,
              \/ ArchiveProject(x) \/ ArchiveAllowed(x) \/ ArchiveLocal(x) \/ ArchiveCommit(x)
              \/ ArchiveTimeout(x) \/ DeleteProject(x) \/ Crash(x)
       PROVE  Goal
  BY <1>1, <1>3, <1>4, <1>5, <1>6, <1>7, <1>8, <1>14
<1>15. ASSUME \/ \E m \in inviteMsg : InviteToProjectRead(m) \/ InviteToProjectWrite(m)
              \/ \E m \in memberMsg : SyncMemberRead(m) \/ SyncMemberAdd(m)
              \/ \E m \in askMsg : AskInfo(m)
              \/ UNCHANGED vars
       PROVE  Goal
  BY <1>10, <1>15 DEF LockFree
<1>16. Goal
  BY <1>1, <1>9, <1>12, <1>13, <1>14, <1>15 DEF Next
<1> QED
  BY <1>16 DEF Goal

\* CheckAndUpdateStatus keeps the configuration that it read in the row.
LEMMA FlowCheck ==
    ASSUME TypeOK, [Next]_vars, NEW q \in Others
    PROVE  \/ check'[q].local.conf = check[q].local.conf \/ check'[q].local.conf = 0
           \/ proj[q] # "none" /\ check'[q].local.conf = conf[q]
<1> DEFINE Goal == \/ check'[q].local.conf = check[q].local.conf \/ check'[q].local.conf = 0
                   \/ proj[q] # "none" /\ check'[q].local.conf = conf[q]
<1>0. /\ check \in [Others -> CheckState] /\ \A x \in Others : check[x] \in CheckState
      /\ Others = Parties \ {Creator}
      /\ \A m \in askMsg : m.from \in Others
  BY DEF TypeOK, AskCall, Others
<1>r. IdleCheck.local.conf = 0
  BY DEF IdleCheck, NoStatus
<1> HIDE DEF TypeOK
<1>1. check' = check => Goal
  BY Zenon
<1>2. ASSUME NEW x \in Others, check' = [check EXCEPT ![x] = IdleCheck]
      PROVE  Goal
  BY <1>0, <1>r, <1>2
<1>3. ASSUME NEW x \in Others, CheckAndUpdateStatus(x)
      PROVE  Goal
  <2>1. proj[x] # "none"
        /\ check' = [check EXCEPT ![x].pc = "asking", ![x].local = StatusOf(x)]
    BY <1>3 DEF CheckAndUpdateStatus
  <2>2. StatusOf(x).conf = conf[x]
    BY DEF StatusOf
  <2>3. x # q => check'[q] = check[q]
    BY <1>0, <2>1
  <2>4. check'[x].local = StatusOf(x)
    BY <1>0, <2>1 DEF CheckState
  <2> QED
    BY <2>1, <2>2, <2>3, <2>4, Zenon
<1>4. ASSUME NEW m \in askMsg, AskInfo(m)
      PROVE  Goal
  <2>1. \/ check' = check \/ check' = [check EXCEPT ![m.from] = IdleCheck]
        \/ check' = [check EXCEPT ![m.from] =
                       [@ EXCEPT !.pc = "update", !.remote = StatusOf(Creator)]]
    BY <1>4, Zenon DEF AskInfo
  <2>2. [check[m.from] EXCEPT !.pc = "update", !.remote = StatusOf(Creator)].local
          = check[m.from].local
    BY <1>0, Zenon DEF CheckState
  <2> QED
    BY <1>0, <1>1, <1>2, <2>1, <2>2, Zenon
<1>5. ASSUME NEW x \in Others, UpdateStatus(x) \/ CheckTimeout(x)
      PROVE  Goal
  BY <1>2, <1>5 DEF UpdateStatus, CheckTimeout
<1>6. ASSUME NEW p \in Parties, Crash(p)
      PROVE  Goal
  BY <1>0, <1>1, <1>2, <1>6, Zenon DEF Crash
<1>7. ASSUME NEW x \in Others,
             \/ InviteMember(x) \/ InviteSend(x) \/ InviteDone(x) \/ InviteTimeout(x)
             \/ \E r \in {"accept", "decline"} : ProcessInvitation(x, r)
             \/ ProcessInvitationDone(x) \/ JoinTimeout(x) \/ AddNewMembers(x)
      PROVE  check' = check
  BY <1>7 DEF InviteMember, InviteSend, InviteDone, InviteTimeout, ProcessInvitation,
    ProcessInvitationDone, JoinTimeout, AddNewMembers
<1>8. ASSUME NEW p \in Parties,
             \/ ArchiveProject(p) \/ ArchiveAllowed(p) \/ ArchiveLocal(p) \/ ArchiveCommit(p)
             \/ ArchiveTimeout(p) \/ DeleteProject(p)
      PROVE  check' = check
  BY <1>8 DEF ArchiveProject, ArchiveAllowed, ArchiveLocal, ArchiveCommit, ArchiveTimeout,
    DeleteProject
<1>9. ASSUME \/ CreateProject
             \/ \E m \in inviteMsg : InviteToProjectRead(m) \/ InviteToProjectWrite(m)
             \/ \E m \in replyMsg : ReplyInvitationBegin(m)
             \/ ReplyInvitationWrite \/ ReplyInvitationCommit
             \/ \E m \in memberMsg : SyncMemberRead(m) \/ SyncMemberAdd(m)
             \/ UNCHANGED vars
      PROVE  check' = check
  BY <1>9, Zenon DEF CreateProject, InviteToProjectRead, InviteToProjectWrite, ReplyInvitationBegin,
    ReplyInvitationWrite, ReplyInvitationCommit, SyncMemberRead, SyncMemberAdd, vars
<1>10. ASSUME NEW m \in archiveMsg,
              SyncInfoRead(m) \/ SyncInfoArchive(m) \/ SyncInfoDeadlock(m)
       PROVE  check' = check
  BY <1>10 DEF SyncInfoRead, SyncInfoArchive, SyncInfoDeadlock
<1> HIDE DEF Goal
<1>11. Goal
  BY <1>1, <1>3, <1>4, <1>5, <1>6, <1>7, <1>8, <1>9, <1>10, Zenon DEF Next
<1> QED
  BY <1>11 DEF Goal

\* An invitation carries the configuration that InviteMember read in the
\* creator's row, from the handler to the call and to the invitee's row.
LEMMA FlowInvite ==
    ASSUME TypeOK, [Next]_vars
    PROVE  /\ \A q \in Others : \/ invite'[q].conf = invite[q].conf \/ invite'[q].conf = 0
                                \/ proj[Creator] # "none" /\ invite'[q].conf = conf[Creator]
           /\ \A m \in inviteMsg' : \/ \E n \in inviteMsg : m.conf = n.conf
                                    \/ \E q \in Others : m.conf = invite[q].conf
           /\ \A q \in Others : \/ recv'[q].conf = recv[q].conf \/ recv'[q].conf = 0
                                \/ \E m \in inviteMsg : recv'[q].conf = m.conf
<1> DEFINE GoalI == \A q \in Others :
                       \/ invite'[q].conf = invite[q].conf \/ invite'[q].conf = 0
                       \/ proj[Creator] # "none" /\ invite'[q].conf = conf[Creator]
           GoalM == \A m \in inviteMsg' : \/ \E n \in inviteMsg : m.conf = n.conf
                                          \/ \E q \in Others : m.conf = invite[q].conf
           GoalR == \A q \in Others : \/ recv'[q].conf = recv[q].conf \/ recv'[q].conf = 0
                                      \/ \E m \in inviteMsg : recv'[q].conf = m.conf
<1>0. /\ invite \in [Others -> InviteState] /\ \A q \in Others : invite[q] \in InviteState
      /\ recv \in [Others -> ReceivedInvitation]
      /\ \A q \in Others : recv[q] \in ReceivedInvitation
      /\ inviteMsg \subseteq InviteCall
      /\ Others = Parties \ {Creator}
  BY DEF TypeOK, Others
<1>r. IdleInvite.conf = 0 /\ NoReceived.conf = 0
  BY DEF IdleInvite, NoReceived
<1>c. \A m \in inviteMsg : m.to \in Others /\ [m EXCEPT !.open = FALSE].conf = m.conf
                           /\ [m EXCEPT !.checked = TRUE].conf = m.conf
  BY <1>0 DEF InviteCall
<1> HIDE DEF TypeOK
<1>1. (invite' = invite => GoalI) /\ (inviteMsg' \subseteq inviteMsg => GoalM)
      /\ (recv' = recv => GoalR)
  OBVIOUS
<1>2. ASSUME NEW q \in Others, invite' = [invite EXCEPT ![q] = IdleInvite]
      PROVE  GoalI
  BY <1>0, <1>r, <1>2
<1>3. ASSUME NEW m \in inviteMsg, NEW c, InviteAnswer(m, c)
      PROVE  GoalI
  <2>1. invite' = invite \/ invite' = [invite EXCEPT ![m.to].reply = c]
    BY <1>3 DEF InviteAnswer
  <2> QED
    BY <1>0, <1>c, <2>1 DEF InviteState
<1>4. ASSUME NEW S \in SUBSET inviteMsg, inviteMsg' = Late(inviteMsg, S)
      PROVE  GoalM
  <2> SUFFICES ASSUME NEW m \in inviteMsg' PROVE \E n \in inviteMsg : m.conf = n.conf
    OBVIOUS
  <2>1. m \in inviteMsg \/ \E n \in S : m = [n EXCEPT !.open = FALSE]
    BY <1>4 DEF Late
  <2> QED
    BY <1>c, <2>1, Zenon
<1>5. ASSUME NEW q \in Others, InviteMember(q)
      PROVE  GoalI /\ GoalM /\ GoalR
  <2> DEFINE r == [IdleInvite EXCEPT !.pc = "read", !.no = used.invite + 1,
                     !.conf = conf[Creator], !.members = members[Creator]]
  <2>1. proj[Creator] # "none" /\ invite' = [invite EXCEPT ![q] = r]
        /\ UNCHANGED <<inviteMsg, recv>>
    BY <1>5 DEF InviteMember, rowVars, msgVars
  <2>2. r.conf = conf[Creator]
    BY DEF IdleInvite
  <2> HIDE DEF r
  <2> QED
    BY <1>0, <2>1, <2>2
<1>6. ASSUME NEW q \in Others, InviteSend(q)
      PROVE  GoalI /\ GoalM /\ GoalR
  <2>1. /\ \E k : invite' = [invite EXCEPT ![q].pc = "calling", ![q].locks = k]
        /\ inviteMsg' = inviteMsg \cup {[to |-> q, conf |-> invite[q].conf,
              members |-> invite[q].members, checked |-> FALSE, open |-> TRUE]}
        /\ recv' = recv
    BY <1>6, Zenon DEF InviteSend, rowVars
  <2>2. \A x \in Others : invite'[x].conf = invite[x].conf
    BY <1>0, <2>1 DEF InviteState
  <2>3. \A m \in inviteMsg' : m \in inviteMsg \/ m.conf = invite[q].conf
    BY <2>1
  <2>4. GoalM
    BY <2>3
  <2> QED
    BY <1>1, <2>1, <2>2, <2>4, Zenon
<1>7. ASSUME NEW q \in Others, InviteDone(q)
      PROVE  GoalI /\ GoalM /\ GoalR
  BY <1>1, <1>2, <1>7, Zenon DEF InviteDone, msgVars
<1>8. ASSUME NEW q \in Others, InviteTimeout(q)
      PROVE  GoalI /\ GoalM /\ GoalR
  <2>1. GoalM
    BY <1>4, <1>8 DEF InviteTimeout
  <2> QED
    BY <1>1, <1>2, <1>8, <2>1, Zenon DEF InviteTimeout, rowVars
<1>9. ASSUME NEW m \in inviteMsg, InviteToProjectRead(m)
      PROVE  GoalI /\ GoalM /\ GoalR
  <2>1. (invite' = invite \/ InviteAnswer(m, "error")) /\ recv' = recv
    BY <1>9 DEF InviteToProjectRead, rowVars
  <2>2. \/ inviteMsg' \subseteq inviteMsg
        \/ inviteMsg' = (inviteMsg \ {m}) \cup {[m EXCEPT !.checked = TRUE]}
    BY <1>9 DEF InviteToProjectRead
  <2>3. GoalM
    BY <1>1, <1>c, <2>2, ZenonT(30)
  <2> QED
    BY <1>1, <1>3, <2>1, <2>3
<1>10. ASSUME NEW m \in inviteMsg, InviteToProjectWrite(m)
       PROVE  GoalI /\ GoalM /\ GoalR
  <2>1. /\ InviteAnswer(m, "ok") /\ inviteMsg' \subseteq inviteMsg
        /\ recv' = [recv EXCEPT ![m.to] = [status |-> "undecided", conf |-> m.conf,
                                           members |-> m.members]]
    BY <1>10 DEF InviteToProjectWrite
  <2>2. GoalR
    BY <1>0, <1>c, <2>1
  <2> QED
    BY <1>1, <1>3, <2>1, <2>2, Zenon
<1>11. ASSUME NEW q \in Others, ProcessInvitationDone(q)
       PROVE  GoalI /\ GoalM /\ GoalR
  <2>1. /\ \E s : recv' = [recv EXCEPT ![q].status = s]
        /\ invite' = invite /\ inviteMsg' = inviteMsg
    BY <1>11, Zenon DEF ProcessInvitationDone, msgVars
  <2>2. \A x \in Others : recv'[x].conf = recv[x].conf
    BY <1>0, <2>1 DEF ReceivedInvitation
  <2> QED
    BY <1>1, <2>1, <2>2
<1>12. ASSUME NEW p \in Parties, DeleteProject(p)
       PROVE  GoalI /\ GoalM /\ GoalR
  <2>1. /\ invite' = invite /\ inviteMsg' = inviteMsg
        /\ recv' = recv \/ (p \in Others /\ recv' = [recv EXCEPT ![p] = NoReceived])
    BY <1>0, <1>12 DEF DeleteProject, msgVars
  <2> QED
    BY <1>0, <1>1, <1>r, <2>1
<1>13. ASSUME NEW p \in Parties, Crash(p)
       PROVE  GoalI /\ GoalM /\ GoalR
  <2>1. /\ invite' = invite \/ invite' = [q \in Others |-> IdleInvite]
        /\ recv' = recv
        /\ inviteMsg' \subseteq inviteMsg \/ inviteMsg' = Late(inviteMsg, inviteMsg)
    BY <1>13 DEF Crash, rowVars
  <2>2. GoalI
    BY <1>1, <1>r, <2>1
  <2> QED
    BY <1>1, <1>4, <2>1, <2>2
<1>14. ASSUME UNCHANGED <<invite, inviteMsg, recv>>
       PROVE  GoalI /\ GoalM /\ GoalR
  BY <1>1, <1>14, Zenon
<1>15. ASSUME NEW q \in Others,
              \/ \E r \in {"accept", "decline"} : ProcessInvitation(q, r)
              \/ JoinTimeout(q) \/ AddNewMembers(q)
              \/ CheckAndUpdateStatus(q) \/ UpdateStatus(q) \/ CheckTimeout(q)
       PROVE  UNCHANGED <<invite, inviteMsg, recv>>
  BY <1>15, Zenon DEF ProcessInvitation, JoinTimeout, AddNewMembers, CheckAndUpdateStatus,
    UpdateStatus, CheckTimeout, rowVars, msgVars
<1>16. ASSUME NEW p \in Parties,
              \/ ArchiveProject(p) \/ ArchiveAllowed(p) \/ ArchiveLocal(p) \/ ArchiveCommit(p)
              \/ ArchiveTimeout(p)
       PROVE  UNCHANGED <<invite, inviteMsg, recv>>
  BY <1>16, SMTT(20) DEF ArchiveProject, ArchiveAllowed, ArchiveLocal, ArchiveCommit, ArchiveTimeout,
    rowVars, msgVars
<1>17. ASSUME \/ CreateProject
              \/ \E m \in replyMsg : ReplyInvitationBegin(m)
              \/ ReplyInvitationWrite \/ ReplyInvitationCommit
              \/ \E m \in memberMsg : SyncMemberRead(m) \/ SyncMemberAdd(m)
              \/ \E m \in askMsg : AskInfo(m)
              \/ UNCHANGED vars
       PROVE  UNCHANGED <<invite, inviteMsg, recv>>
  BY <1>17, Zenon DEF CreateProject, ReplyInvitationBegin, ReplyInvitationWrite,
    ReplyInvitationCommit, SyncMemberRead, SyncMemberAdd, AskInfo, vars, rowVars, msgVars
<1>18. ASSUME NEW m \in archiveMsg,
              SyncInfoRead(m) \/ SyncInfoArchive(m) \/ SyncInfoDeadlock(m)
       PROVE  UNCHANGED <<invite, inviteMsg, recv>>
  BY <1>18 DEF SyncInfoRead, SyncInfoArchive, SyncInfoDeadlock, rowVars
<1> HIDE DEF GoalI, GoalM, GoalR
<1>19. GoalI /\ GoalM /\ GoalR
  BY <1>5, <1>6, <1>7, <1>8, <1>9, <1>10, <1>11, <1>12, <1>13, <1>14, <1>15, <1>16, <1>17,
    <1>18, Zenon DEF Next
<1> QED
  BY <1>19 DEF GoalI, GoalM, GoalR

\* A ProcessInvitation that has the creator's consent keeps the invitation
\* it consented to, and who gets the consent is a member by then.
LEMMA FlowJoin ==
    ASSUME TypeOK, LockInv, ReplyInv, [Next]_vars, NEW q \in Others, Accepted(q)'
    PROVE  \/ Accepted(q) /\ recv'[q].conf = recv[q].conf
           \/ q \in members'[Creator]
<1> DEFINE Goal == \/ Accepted(q) /\ recv'[q].conf = recv[q].conf
                   \/ q \in members'[Creator]
<1>0. /\ Creator \in Parties /\ Others = Parties \ {Creator}
      /\ join \in [Others -> JoinState] /\ \A x \in Others : join[x] \in JoinState
      /\ recv \in [Others -> ReceivedInvitation]
      /\ members \in [Parties -> SUBSET Parties]
      /\ \A m \in inviteMsg : m.to \in Others
  BY BrokerProjectAssumption, Zenon DEF TypeOK, Others, InviteCall
<1>a. join'[q].reply = "ok" /\ join'[q].respond = "accept"
  BY DEF Accepted
<1>r. IdleJoin.reply = "none"
  BY DEF IdleJoin
<1>1. ASSUME join'[q] = join[q], recv' = recv
      PROVE  Goal
  BY <1>a, <1>1 DEF Accepted
<1>2. ASSUME join'[q] = join[q]
      PROVE  join[q].pc = "calling" /\ Accepted(q)
  BY <1>0, <1>a, <1>2 DEF ReplyInv, Answers, Accepted
<1>3. ASSUME NEW m \in replyMsg, ReplyInvitationBegin(m)
      PROVE  Goal
  <2> DEFINE again == proj[Creator] = "live" /\ m.from \in members[Creator]
                        /\ m.respond = "accept"
  <2>1. /\ members' = members /\ recv' = recv
        /\ \/ join' = join
           \/ again /\ JoinAnswer(m.from, m.open, "ok", {})
           \/ JoinAnswer(m.from, m.open, "error", {})
    BY <1>3, Zenon DEF ReplyInvitationBegin, rowVars
  <2>2. CASE join' = join
    BY <1>1, <2>1, <2>2
  <2>3. CASE again /\ JoinAnswer(m.from, m.open, "ok", {})
    <3>1. /\ join'[q].respond = join[q].respond
          /\ join'[q].reply = join[q].reply \/ q = m.from
      BY <2>3, JoinAnswerKeeps
    <3> QED
      BY <1>a, <2>1, <2>3, <3>1, Zenon DEF Accepted
  <2>4. CASE JoinAnswer(m.from, m.open, "error", {})
    <3>1. /\ join'[q].respond = join[q].respond
          /\ join'[q].reply = join[q].reply \/ join'[q].reply = "error"
      BY <2>4, JoinAnswerKeeps
    <3> QED
      BY <1>a, <2>1, <3>1 DEF Accepted
  <2> QED
    BY <2>1, <2>2, <2>3, <2>4, Zenon
<1>4. ASSUME ReplyInvitationCommit
      PROVE  Goal
  <2>1. /\ admit.pc # "idle" /\ recv' = recv
        /\ \E i : JoinAnswer(admit.from, admit.open,
                             IF admit.decision = "invalid" THEN "inconsistent" ELSE "ok", i)
    BY <1>4 DEF ReplyInvitationCommit
  <2>2. /\ join'[q].respond = join[q].respond
        /\ \/ join'[q].reply = join[q].reply
           \/ (q = admit.from /\ admit.open /\ admit.decision # "invalid")
    BY <1>a, <2>1, JoinAnswerKeeps
  <2>3. ASSUME q = admit.from, admit.open, admit.decision # "invalid"
        PROVE  admit.decision = "accepted"
    <3>1. admit.decision \in {"accepted", "declined", "invalid"}
      BY DEF TypeOK, AdmitState
    <3>2. admit.decision = "declined" => join[q].respond = "decline"
      BY <2>1, <2>3 DEF ReplyInv, OpenAdmit
    <3> QED
      BY <1>a, <2>2, <2>3, <3>1, <3>2
  <2>4. (q = admit.from /\ admit.decision = "accepted") => q \in members'[Creator]
    BY <1>0, <1>4 DEF ReplyInvitationCommit
  <2> QED
    BY <1>a, <2>1, <2>2, <2>3, <2>4 DEF Accepted
<1>5. ASSUME NEW x \in Others, NEW r \in {"accept", "decline"}, ProcessInvitation(x, r)
      PROVE  Goal
  <2>1. /\ recv' = recv /\ join'[x].reply = "none"
        /\ q # x => join'[q] = join[q]
    BY <1>0, <1>5 DEF ProcessInvitation, IdleJoin, rowVars
  <2> QED
    BY <1>1, <1>a, <2>1
<1>6. ASSUME NEW x \in Others, JoinTimeout(x) \/ AddNewMembers(x)
      PROVE  Goal
  <2>1. recv' = recv /\ join' = [join EXCEPT ![x] = IdleJoin]
    BY <1>6 DEF JoinTimeout, AddNewMembers, rowVars
  <2> QED
    BY <1>0, <1>1, <1>a, <1>r, <2>1
<1>7. ASSUME NEW x \in Others, ProcessInvitationDone(x)
      PROVE  Goal
  <2>1. /\ join'[x].reply = "none"
        /\ q # x => join'[q] = join[q] /\ recv'[q] = recv[q]
    BY <1>0, <1>7 DEF ProcessInvitationDone, IdleJoin
  <2> QED
    BY <1>a, <1>2, <2>1
<1>8. ASSUME NEW m \in inviteMsg, InviteToProjectWrite(m)
      PROVE  Goal
  <2>1. /\ join[m.to].pc # "calling" /\ join' = join
        /\ q # m.to => recv'[q] = recv[q]
    BY <1>0, <1>8 DEF InviteToProjectWrite
  <2> QED
    BY <1>2, <2>1
<1>9. ASSUME NEW p \in Parties, DeleteProject(p)
      PROVE  Goal
  <2>1. /\ proj[p] = "archived" /\ join' = join
        /\ q # p => recv'[q] = recv[q]
    BY <1>0, <1>9 DEF DeleteProject
  <2>2. join[q].pc = "calling" => proj[q] = "none"
    BY DEF LockInv
  <2> QED
    BY <1>2, <2>1, <2>2
<1>10. ASSUME NEW p \in Parties, Crash(p)
       PROVE  Goal
  <2>1. recv' = recv /\ (join' = join \/ (p \in Others /\ join' = [join EXCEPT ![p] = IdleJoin]))
    BY <1>0, <1>10 DEF Crash, rowVars
  <2> QED
    BY <1>0, <1>1, <1>a, <1>r, <2>1
<1> HIDE DEF TypeOK
<1>11. ASSUME UNCHANGED <<join, recv>>
       PROVE  Goal
  BY <1>1, <1>11, Zenon
<1> HIDE DEF Goal
<1>12. ASSUME NEW x \in Others,
              \/ InviteMember(x) \/ InviteSend(x) \/ InviteDone(x) \/ InviteTimeout(x)
              \/ CheckAndUpdateStatus(x) \/ UpdateStatus(x) \/ CheckTimeout(x)
       PROVE  UNCHANGED <<join, recv>>
  BY <1>12, Zenon DEF InviteMember, InviteSend, InviteDone, InviteTimeout, CheckAndUpdateStatus,
    UpdateStatus, CheckTimeout, rowVars
<1>13. ASSUME NEW p \in Parties,
              \/ ArchiveProject(p) \/ ArchiveAllowed(p) \/ ArchiveLocal(p) \/ ArchiveCommit(p)
              \/ ArchiveTimeout(p)
       PROVE  UNCHANGED <<join, recv>>
  BY <1>13, SMTT(20) DEF ArchiveProject, ArchiveAllowed, ArchiveLocal, ArchiveCommit, ArchiveTimeout,
    rowVars
<1>14. ASSUME \/ CreateProject
              \/ \E m \in inviteMsg : InviteToProjectRead(m)
              \/ ReplyInvitationWrite
              \/ \E m \in memberMsg : SyncMemberRead(m) \/ SyncMemberAdd(m)
              \/ \E m \in askMsg : AskInfo(m)
              \/ UNCHANGED vars
       PROVE  UNCHANGED <<join, recv>>
  BY <1>14, Zenon DEF CreateProject, InviteToProjectRead, ReplyInvitationWrite, SyncMemberRead,
    SyncMemberAdd, AskInfo, vars, rowVars
<1>15. ASSUME NEW m \in archiveMsg,
              SyncInfoRead(m) \/ SyncInfoArchive(m) \/ SyncInfoDeadlock(m)
       PROVE  UNCHANGED <<join, recv>>
  BY <1>15 DEF SyncInfoRead, SyncInfoArchive, SyncInfoDeadlock, rowVars
<1>16. ASSUME NEW x \in Others,
              \/ InviteMember(x) \/ InviteSend(x) \/ InviteDone(x) \/ InviteTimeout(x)
              \/ \E r \in {"accept", "decline"} : ProcessInvitation(x, r)
              \/ ProcessInvitationDone(x) \/ JoinTimeout(x) \/ AddNewMembers(x)
              \/ CheckAndUpdateStatus(x) \/ UpdateStatus(x) \/ CheckTimeout(x)
       PROVE  Goal
  BY <1>5, <1>6, <1>7, <1>11, <1>12, <1>16
<1>17. ASSUME NEW p \in Parties,
              \/ ArchiveProject(p) \/ ArchiveAllowed(p) \/ ArchiveLocal(p) \/ ArchiveCommit(p)
              \/ ArchiveTimeout(p) \/ DeleteProject(p) \/ Crash(p)
       PROVE  Goal
  BY <1>9, <1>10, <1>11, <1>13, <1>17
<1>18. ASSUME \/ CreateProject
              \/ \E m \in inviteMsg : InviteToProjectRead(m) \/ InviteToProjectWrite(m)
              \/ ReplyInvitationWrite
              \/ \E m \in memberMsg : SyncMemberRead(m) \/ SyncMemberAdd(m)
              \/ \E m \in askMsg : AskInfo(m)
              \/ UNCHANGED vars
       PROVE  Goal
  BY <1>8, <1>11, <1>14, <1>18
<1>19. ASSUME NEW m \in archiveMsg,
              SyncInfoRead(m) \/ SyncInfoArchive(m) \/ SyncInfoDeadlock(m)
       PROVE  Goal
  BY <1>11, <1>15, <1>19
<1>20. Goal
  BY <1>3, <1>4, <1>16, <1>17, <1>18, <1>19, Zenon DEF Next
<1> QED
  BY <1>20, Zenon DEF Goal

\* No configuration is newer than the last creation of the project.
ConfInv ==
    /\ \A p \in Parties : /\ proj[p] # "none" => conf[p] <= used.create
                          /\ archive[p].conf <= used.create
    /\ \A q \in Others : /\ recv[q].conf <= used.create
                         /\ invite[q].conf <= used.create
                         /\ check[q].local.conf <= used.create
    /\ \A m \in inviteMsg : m.conf <= used.create
    /\ proj[Creator] # "none" => used.create # 0

\* The configurations are numbers, now and after the step.
LEMMA ConfNumbers ==
    ASSUME TypeOK
    PROVE  /\ used.create \in Nat
           /\ \A p \in Parties : conf[p] \in Nat /\ archive[p].conf \in Nat
           /\ \A q \in Others : /\ recv[q].conf \in Nat /\ invite[q].conf \in Nat
                                /\ check[q].local.conf \in Nat
           /\ \A m \in inviteMsg : m.conf \in Nat
<1>0. Confs \subseteq Nat
  BY BrokerProjectAssumption DEF Confs
<1>1. used.create \in Nat
  BY <1>0, Zenon DEF TypeOK, Usage
<1>2. \A p \in Parties : conf[p] \in Nat /\ archive[p].conf \in Nat
  BY <1>0, Zenon DEF TypeOK, ArchiveState
<1>3. \A q \in Others : recv[q].conf \in Nat /\ invite[q].conf \in Nat
  BY <1>0, Zenon DEF TypeOK, ReceivedInvitation, InviteState
<1>4. \A q \in Others : check[q].local.conf \in Nat
  <2>1. \A q \in Others : check[q].local \in Statuses
    BY DEF TypeOK, CheckState
  <2> QED
    BY <1>0, <2>1, Zenon DEF Statuses
<1>5. \A m \in inviteMsg : m.conf \in Nat
  BY <1>0, Zenon DEF TypeOK, InviteCall
<1> QED
  BY <1>1, <1>2, <1>3, <1>4, <1>5

\* Every step keeps ConfInv.
LEMMA ConfStep == TypeOK /\ LockInv /\ ConfInv /\ [Next]_vars => ConfInv'
<1> SUFFICES ASSUME TypeOK, LockInv, ConfInv, [Next]_vars PROVE ConfInv'
  OBVIOUS
<1>t. Creator \in Parties /\ Others = Parties \ {Creator}
  BY BrokerProjectAssumption DEF Others
<1>n. /\ used.create \in Nat
      /\ \A p \in Parties : conf[p] \in Nat /\ archive[p].conf \in Nat
      /\ \A q \in Others : /\ recv[q].conf \in Nat /\ invite[q].conf \in Nat
                           /\ check[q].local.conf \in Nat
      /\ \A m \in inviteMsg : m.conf \in Nat
  BY ConfNumbers, Zenon
<1>1. CASE CreateProject
  <2>1. /\ used'.create = used.create + 1
        /\ UNCHANGED <<recv, invite, join, archive, check, inviteMsg>>
        /\ \A q \in Others : proj'[q] = proj[q] /\ conf'[q] = conf[q]
        /\ conf'[Creator] = used.create + 1
    BY <1>1, CreateEffect, Zenon
  <2> HIDE DEF TypeOK
  <2>2. \A p \in Parties : /\ proj'[p] # "none" => conf'[p] <= used'.create
                           /\ archive'[p].conf <= used'.create
    BY <1>t, <1>n, <2>1 DEF ConfInv
  <2>3. \A q \in Others : /\ recv'[q].conf <= used'.create
                          /\ invite'[q].conf <= used'.create
                          /\ check'[q].local.conf <= used'.create
    BY <1>n, <2>1 DEF ConfInv
  <2>4. \A m \in inviteMsg' : m.conf <= used'.create
    BY <1>n, <2>1 DEF ConfInv
  <2>5. used'.create # 0
    BY <1>n, <2>1
  <2> QED
    BY <2>2, <2>3, <2>4, <2>5, Zenon DEF ConfInv
<1>2. CASE ~CreateProject
  <2>0. used'.create = used.create
    BY <1>2, FlowCreate, Zenon
  <2>1. ASSUME NEW p \in Parties, proj'[p] # "none"
        PROVE  conf'[p] <= used.create
    <3>1. \/ proj[p] # "none" /\ conf'[p] = conf[p]
          \/ conf'[p] = archive[p].conf
          \/ p \in Others /\ conf'[p] = check[p].local.conf
          \/ p \in Others /\ conf'[p] = recv[p].conf
      BY <1>2, <2>1, FlowConf, Zenon
    <3> QED
      BY <3>1 DEF ConfInv
  <2>2. ASSUME NEW p \in Parties
        PROVE  archive'[p].conf <= used.create
    <3>1. \/ archive'[p].conf = archive[p].conf \/ archive'[p].conf = 0
          \/ proj[p] # "none" /\ archive'[p].conf = conf[p]
      BY FlowArchive
    <3> QED
      BY <1>n, <3>1 DEF ConfInv
  <2>3. ASSUME NEW q \in Others
        PROVE  check'[q].local.conf <= used.create
    <3>1. \/ check'[q].local.conf = check[q].local.conf \/ check'[q].local.conf = 0
          \/ proj[q] # "none" /\ check'[q].local.conf = conf[q]
      BY FlowCheck
    <3> QED
      BY <1>t, <1>n, <3>1 DEF ConfInv
  <2>4. /\ \A q \in Others : invite'[q].conf <= used.create /\ recv'[q].conf <= used.create
        /\ \A m \in inviteMsg' : m.conf <= used.create
    <3>1. /\ \A q \in Others : \/ invite'[q].conf = invite[q].conf \/ invite'[q].conf = 0
                               \/ proj[Creator] # "none" /\ invite'[q].conf = conf[Creator]
          /\ \A m \in inviteMsg' : \/ \E n \in inviteMsg : m.conf = n.conf
                                   \/ \E q \in Others : m.conf = invite[q].conf
          /\ \A q \in Others : \/ recv'[q].conf = recv[q].conf \/ recv'[q].conf = 0
                               \/ \E m \in inviteMsg : recv'[q].conf = m.conf
      BY FlowInvite
    <3>2. /\ \A q \in Others : invite[q].conf <= used.create /\ recv[q].conf <= used.create
          /\ \A m \in inviteMsg : m.conf <= used.create
          /\ 0 <= used.create
          /\ proj[Creator] # "none" => conf[Creator] <= used.create
      BY <1>t, <1>n DEF ConfInv
    <3>3. \A q \in Others : invite'[q].conf <= used.create
      BY <3>1, <3>2
    <3>4. \A q \in Others : recv'[q].conf <= used.create
      BY <3>1, <3>2
    <3>5. \A m \in inviteMsg' : m.conf <= used.create
      BY <3>1, <3>2
    <3> QED
      BY <3>3, <3>4, <3>5
  <2>5. proj'[Creator] # "none" => used.create # 0
    <3>1. proj'[Creator] # "none" => proj[Creator] # "none"
      BY <1>2, <1>t, FlowConf
    <3> QED
      BY <3>1 DEF ConfInv
  <2> QED
    BY <2>0, <2>1, <2>2, <2>3, <2>4, <2>5 DEF ConfInv
<1> QED
  BY <1>1, <1>2

\* Held(q): q has, or may still write, a project row of the last creation.
Held(q) ==
    \/ proj[q] # "none" /\ conf[q] = used.create
    \/ Accepted(q) /\ recv[q].conf = used.create
    \/ archive[q].conf = used.create
    \/ check[q].local.conf = used.create

\* Whoever holds it is a member at the creator.
MemberInv == proj[Creator] # "none" => \A q \in Others : Held(q) => q \in members[Creator]

\* Every step keeps MemberInv.
LEMMA MemberStep ==
    TypeOK /\ LockInv /\ ReplyInv /\ ConfInv /\ MemberInv /\ [Next]_vars => MemberInv'
<1> SUFFICES ASSUME TypeOK, LockInv, ReplyInv, ConfInv, MemberInv, [Next]_vars,
                    (proj[Creator] # "none")', NEW q \in Others, Held(q)'
             PROVE  (q \in members[Creator])'
  BY Zenon DEF MemberInv
<1>t. Creator \in Parties /\ Others = Parties \ {Creator} /\ q \in Parties
      /\ members \in [Parties -> SUBSET Parties] /\ proj \in [Parties -> Rows]
  BY BrokerProjectAssumption, Zenon DEF Others, TypeOK
<1>n. /\ used.create \in Nat
      /\ conf[q] \in Nat /\ archive[q].conf \in Nat /\ recv[q].conf \in Nat
      /\ check[q].local.conf \in Nat
  BY <1>t, ConfNumbers, Zenon
<1>h. \/ proj'[q] # "none" /\ conf'[q] = used'.create
      \/ Accepted(q)' /\ recv'[q].conf = used'.create
      \/ archive'[q].conf = used'.create
      \/ check'[q].local.conf = used'.create
  BY DEF Held
<1>1. CASE CreateProject
  <2>1. /\ used'.create = used.create + 1
        /\ UNCHANGED <<recv, archive, check>>
        /\ proj'[q] = proj[q] /\ conf'[q] = conf[q]
    BY <1>1, CreateEffect
  <2> HIDE DEF TypeOK
  <2>2. /\ proj[q] # "none" => conf[q] <= used.create
        /\ recv[q].conf <= used.create /\ archive[q].conf <= used.create
        /\ check[q].local.conf <= used.create
    BY <1>t DEF ConfInv
  <2>3. /\ proj[q] # "none" => conf[q] # used.create + 1
        /\ recv[q].conf # used.create + 1 /\ archive[q].conf # used.create + 1
        /\ check[q].local.conf # used.create + 1
    BY <1>n, <2>2
  <2> QED
    BY <1>h, <2>1, <2>3, Zenon
<1>2. CASE ~CreateProject
  <2>0. used'.create = used.create
    BY <1>2, FlowCreate
  <2>1. proj[Creator] # "none"
    BY <1>2, <1>t, FlowConf, Zenon
  <2>2. used.create # 0
    BY <2>1 DEF ConfInv
  <2>3. q \in members[Creator] => q \in members'[Creator]
    <3>1. CASE members'[Creator] = members[Creator]
      BY <3>1
    <3>2. CASE ReplyInvitationCommit
      BY <1>t, <3>2 DEF ReplyInvitationCommit
    <3>3. CASE DeleteProject(Creator)
      BY <1>t, <3>3 DEF DeleteProject
    <3> QED
      BY <1>2, <3>1, <3>2, <3>3, WhoWritesMembers
  <2>4. ASSUME Held(q) PROVE (q \in members[Creator])'
    BY <2>1, <2>3, <2>4 DEF MemberInv
  <2>5. CASE proj'[q] # "none" /\ conf'[q] = used'.create
    <3>1. \/ proj[q] # "none" /\ conf'[q] = conf[q]
          \/ conf'[q] = archive[q].conf
          \/ conf'[q] = check[q].local.conf
          \/ Accepted(q) /\ conf'[q] = recv[q].conf
      BY <1>2, <1>t, <2>5, FlowConf, Zenon
    <3>2. Held(q)
      BY <2>0, <2>5, <3>1 DEF Held
    <3> QED
      BY <2>4, <3>2
  <2>6. CASE Accepted(q)' /\ recv'[q].conf = used'.create
    <3>1. \/ Accepted(q) /\ recv'[q].conf = recv[q].conf
          \/ q \in members'[Creator]
      BY <2>6, FlowJoin, Zenon
    <3>2. Held(q) \/ q \in members'[Creator]
      BY <2>0, <2>6, <3>1, Zenon DEF Held
    <3> QED
      BY <2>4, <3>2
  <2>7. CASE archive'[q].conf = used'.create
    <3>1. \/ archive'[q].conf = archive[q].conf \/ archive'[q].conf = 0
          \/ proj[q] # "none" /\ archive'[q].conf = conf[q]
      BY <1>t, FlowArchive, Zenon
    <3>2. Held(q)
      BY <2>0, <2>2, <2>7, <3>1, Zenon DEF Held
    <3> QED
      BY <2>4, <3>2
  <2>8. CASE check'[q].local.conf = used'.create
    <3>1. \/ check'[q].local.conf = check[q].local.conf \/ check'[q].local.conf = 0
          \/ proj[q] # "none" /\ check'[q].local.conf = conf[q]
      BY FlowCheck
    <3>2. Held(q)
      BY <2>0, <2>2, <2>8, <3>1 DEF Held
    <3> QED
      BY <2>4, <3>2
  <2> QED
    BY <1>h, <2>5, <2>6, <2>7, <2>8, Zenon
<1> QED
  BY <1>1, <1>2

\* JoinedIsMember holds for any number of parties and however often the
\* project is created again, with the same settings or others: a party whose
\* row stems from the last creation is a member at the creator.
THEOREM HolderIsMember == Spec => []JoinedIsMember
<1>1. Init => ReplyInv /\ ConfInv /\ MemberInv
  <2> SUFFICES ASSUME Init PROVE ReplyInv /\ ConfInv /\ MemberInv
    OBVIOUS
  <2>0. Creator \in Parties /\ Others = Parties \ {Creator}
    BY BrokerProjectAssumption, Zenon DEF Others
  <2>1. ReplyInv
    BY Zenon DEF Init, ReplyInv, OpenCalls, OpenAdmit, Answers, IdleJoin, NoAdmit
  <2>2. ConfInv
    <3>1. /\ used.create = 0 /\ inviteMsg = {}
          /\ \A p \in Parties : proj[p] = "none" /\ archive[p].conf = 0
      BY Zenon DEF Init, IdleArchive
    <3>2. \A q \in Others : recv[q].conf = 0 /\ invite[q].conf = 0
      BY DEF Init, NoReceived, IdleInvite
    <3>3. \A q \in Others : check[q].local.conf = 0
      BY DEF Init, IdleCheck, NoStatus
    <3> QED
      BY <2>0, <3>1, <3>2, <3>3 DEF ConfInv
  <2>3. MemberInv
    BY <2>0, SMTT(20) DEF Init, MemberInv
  <2> QED
    BY <2>1, <2>2, <2>3
<1>2. MemberInv => JoinedIsMember
  BY Zenon DEF MemberInv, JoinedIsMember, Held
<1> QED
  BY <1>1, <1>2, LocksHold, ReplyStep, ConfStep, MemberStep, PTL DEF Spec

\* Who may be listed as a member somewhere: the members at the creator, the
\* one that is being admitted, and those whose admission a crash undid.
Known == members[Creator] \cup lost \cup {x \in {admit.from} : Admitting}

\* Every list of members, stored or under way, names only such parties, and a
\* party that has the creator's consent is one.
Listed ==
    /\ Creator \in members[Creator]
    /\ \A q \in Others : /\ members[q] \subseteq Known /\ recv[q].members \subseteq Known
                         /\ invite[q].members \subseteq Known
                         /\ join[q].info \subseteq Known /\ join[q].extra \subseteq Known
                         /\ check[q].remote.members \subseteq Known
                         /\ Accepted(q) => q \in Known
    /\ \A m \in inviteMsg : m.members \subseteq Known
    /\ \A m \in memberMsg : m.member \in Known

ListedInv == (MaxCreates = 1 /\ proj[Creator] # "none") => Listed

\* While the creator has the project, its list of members grows ...
LEMMA MembersGrow ==
    ASSUME TypeOK, [Next]_vars, ~CreateProject, proj'[Creator] # "none"
    PROVE  members[Creator] \subseteq members'[Creator]
<1>0. /\ Creator \in Parties /\ members \in [Parties -> SUBSET Parties]
      /\ proj \in [Parties -> Rows]
  BY BrokerProjectAssumption, Zenon DEF TypeOK
<1>1. CASE members'[Creator] = members[Creator]
  BY <1>1
<1>2. CASE ReplyInvitationCommit
  BY <1>0, <1>2 DEF ReplyInvitationCommit
<1>3. CASE DeleteProject(Creator)
  BY <1>0, <1>3 DEF DeleteProject
<1> HIDE DEF TypeOK
<1> QED
  BY <1>1, <1>2, <1>3, WhoWritesMembers, Zenon

\* ... and whoever may be listed stays so: an admission is committed, or a
\* crash undoes it and it is recorded as lost.
LEMMA KnownGrows ==
    ASSUME TypeOK, [Next]_vars, ~CreateProject, proj'[Creator] # "none",
           Creator \in members[Creator]
    PROVE  Known \subseteq Known'
<1>0. /\ Creator \in Parties /\ Others = Parties \ {Creator}
      /\ admit \in AdmitState /\ admit.from \in Parties
      /\ members \in [Parties -> SUBSET Parties]
  BY BrokerProjectAssumption, Zenon DEF TypeOK, Others, AdmitState
<1>1. members[Creator] \subseteq members'[Creator] /\ lost \subseteq lost'
  BY MembersGrow, LostGrows
<1> HIDE DEF TypeOK
<1>2. ASSUME Admitting PROVE admit.from \in Known'
  <2>0. admit.pc = "commit" /\ admit.decision = "accepted"
    BY <1>2, Zenon DEF Admitting
  <2>1. ASSUME admit' = admit PROVE admit.from \in Known'
    BY <1>2, <2>1 DEF Known, Admitting
  <2>2. ASSUME admit' = [admit EXCEPT !.open = FALSE] PROVE admit.from \in Known'
    <3>1. admit'.from = admit.from /\ admit'.pc = admit.pc /\ admit'.decision = admit.decision
      BY <1>0, <2>2 DEF AdmitState
    <3> QED
      BY <1>2, <3>1 DEF Known, Admitting
  <2>3. CASE ReplyInvitationCommit
    BY <1>0, <2>0, <2>3, Zenon DEF ReplyInvitationCommit, Known
  <2>4. ASSUME NEW p \in Parties, Crash(p)
        PROVE  admit.from \in Known'
    <3>1. CASE p = Creator
      <4>1. admit.from \in lost' \/ admit.from = Creator
        BY <1>0, <2>0, <2>4, <3>1 DEF Crash
      <4> QED
        BY <1>1, <4>1 DEF Known
    <3>2. CASE p # Creator
      BY <2>1, <2>2, <2>4, <3>2 DEF Crash
    <3> QED
      BY <3>1, <3>2
  <2>5. ~ReplyInvitationWrite /\ \A m \in replyMsg : ~ReplyInvitationBegin(m)
    BY <2>0 DEF ReplyInvitationWrite, ReplyInvitationBegin, RowFree
  <2>6. ASSUME NEW q \in Others,
               \/ \E r \in {"accept", "decline"} : ProcessInvitation(q, r)
               \/ ProcessInvitationDone(q) \/ JoinTimeout(q) \/ AddNewMembers(q)
        PROVE  admit' = admit \/ admit' = [admit EXCEPT !.open = FALSE]
    BY <2>6 DEF ProcessInvitation, ProcessInvitationDone, JoinTimeout, AddNewMembers
  <2>7. ReplyFree => admit' = admit
    BY ReplyFreeKeeps
  <2>8. ASSUME NEW q \in Others,
               \/ InviteMember(q) \/ InviteSend(q) \/ InviteDone(q) \/ InviteTimeout(q)
               \/ \E r \in {"accept", "decline"} : ProcessInvitation(q, r)
               \/ ProcessInvitationDone(q) \/ JoinTimeout(q) \/ AddNewMembers(q)
               \/ CheckAndUpdateStatus(q) \/ UpdateStatus(q) \/ CheckTimeout(q)
        PROVE  admit.from \in Known'
    BY <2>1, <2>2, <2>6, <2>7, <2>8, Zenon DEF ReplyFree, LockFree
  <2>9. ASSUME NEW p \in Parties,
               \/ ArchiveProject(p) \/ ArchiveAllowed(p) \/ ArchiveLocal(p) \/ ArchiveCommit(p)
               \/ ArchiveTimeout(p) \/ DeleteProject(p) \/ Crash(p)
        PROVE  admit.from \in Known'
    BY <2>1, <2>4, <2>7, <2>9, Zenon DEF ReplyFree
  <2>10. ASSUME \/ \E m \in inviteMsg : InviteToProjectRead(m) \/ InviteToProjectWrite(m)
                \/ \E m \in archiveMsg :
                      SyncInfoRead(m) \/ SyncInfoArchive(m) \/ SyncInfoDeadlock(m)
                \/ \E m \in memberMsg : SyncMemberRead(m) \/ SyncMemberAdd(m)
                \/ \E m \in askMsg : AskInfo(m)
                \/ UNCHANGED vars
         PROVE  admit.from \in Known'
    BY <2>1, <2>7, <2>10, Zenon DEF ReplyFree, LockFree
  <2> QED
    BY <2>3, <2>5, <2>8, <2>9, <2>10, ZenonT(30) DEF Next
<1> QED
  BY <1>1, <1>2, Zenon DEF Known

\* A step passes on only parties that may be listed.
LEMMA ListedStep ==
    ASSUME TypeOK, LockInv, ReplyInv, [Next]_vars, ~CreateProject, proj'[Creator] # "none",
           Listed
    PROVE  Listed'
<1>0. /\ Creator \in Parties /\ Others = Parties \ {Creator}
      /\ members \in [Parties -> SUBSET Parties]
      /\ recv \in [Others -> ReceivedInvitation]
      /\ \A q \in Others : recv[q] \in ReceivedInvitation
      /\ invite \in [Others -> InviteState] /\ \A q \in Others : invite[q] \in InviteState
      /\ join \in [Others -> JoinState] /\ \A q \in Others : join[q] \in JoinState
      /\ check \in [Others -> CheckState] /\ \A q \in Others : check[q] \in CheckState
  BY BrokerProjectAssumption, Zenon DEF TypeOK, Others
<1>m. /\ \A m \in inviteMsg : m \in InviteCall /\ m.to \in Others
      /\ \A m \in memberMsg : m \in MemberCall /\ m.to \in Others
      /\ \A m \in replyMsg : m.from \in Others
      /\ \A m \in askMsg : m.from \in Others
  BY Zenon DEF TypeOK, InviteCall, MemberCall, ReplyCall, AskCall
<1>r. /\ NoReceived.members = {} /\ IdleInvite.members = {}
      /\ IdleJoin.info = {} /\ IdleJoin.extra = {} /\ IdleCheck.remote.members = {}
  BY Zenon DEF NoReceived, IdleInvite, IdleJoin, IdleCheck, NoStatus
<1>g. Known \subseteq Known' /\ Creator \in members'[Creator] /\ members'[Creator] \subseteq Known'
  BY KnownGrows, MembersGrow, SMTT(20) DEF Listed, Known
<1>a. \A q \in Others : Accepted(q)' => q \in Known'
  BY <1>g, FlowJoin, Zenon DEF Listed
<1> HIDE DEF TypeOK
<1>k. PICK K : K = Known'
  BY Zenon
\* What was listed before the step.
<1>b. /\ Creator \in K /\ members[Creator] \subseteq K /\ members'[Creator] \subseteq K
      /\ \A q \in Others : /\ members[q] \subseteq K /\ recv[q].members \subseteq K
                           /\ invite[q].members \subseteq K
                           /\ join[q].info \subseteq K /\ join[q].extra \subseteq K
                           /\ check[q].remote.members \subseteq K
                           /\ Accepted(q) => q \in K
      /\ \A m \in inviteMsg : m.members \subseteq K
      /\ \A m \in memberMsg : m.member \in K
  BY <1>g, <1>k, Zenon DEF Listed, Known
<1> DEFINE GM == \A q \in Others : members'[q] \subseteq K
           GR == \A q \in Others : recv'[q].members \subseteq K
           GI == \A q \in Others : invite'[q].members \subseteq K
           GC == \A m \in inviteMsg' : m.members \subseteq K
           GJ == \A q \in Others : join'[q].info \subseteq K /\ join'[q].extra \subseteq K
           GN == \A m \in memberMsg' : m.member \in K
           GS == \A q \in Others : check'[q].remote.members \subseteq K
           Goal == GM /\ GR /\ GI /\ GC /\ GJ /\ GN /\ GS
<1>u. /\ members' = members => GM
      /\ recv' = recv => GR
      /\ invite' = invite => GI
      /\ inviteMsg' = inviteMsg => GC
      /\ join' = join => GJ
      /\ memberMsg' = memberMsg => GN
      /\ check' = check => GS
  BY <1>b, Zenon
<1>x. ASSUME NEW q \in Others, invite' = [invite EXCEPT ![q] = IdleInvite]
      PROVE  GI
  BY <1>0, <1>b, <1>r, <1>x, Zenon
<1>y. ASSUME NEW q \in Others, join' = [join EXCEPT ![q] = IdleJoin]
      PROVE  GJ
  BY <1>0, <1>b, <1>r, <1>y, Zenon
<1>z. ASSUME NEW q \in Others, check' = [check EXCEPT ![q] = IdleCheck]
      PROVE  GS
  BY <1>0, <1>b, <1>r, <1>z, Zenon
<1>w. ASSUME NEW q \in Others, NEW S \in SUBSET K,
             members' = [members EXCEPT ![q] = members[q] \cup S]
      PROVE  GM
  <2>1. \A x \in Others : members'[x] = IF x = q THEN members[q] \cup S ELSE members[x]
    BY <1>0, <1>w
  <2> QED
    BY <1>b, <2>1
<1>l. ASSUME NEW S \in SUBSET inviteMsg
      PROVE  \A m \in Late(inviteMsg, S) : m.members \subseteq K
  <2>1. \A m \in S : [m EXCEPT !.open = FALSE].members = m.members
    BY <1>m DEF InviteCall
  <2> QED
    BY <1>b, <2>1, ZenonT(30) DEF Late
<1>j. ASSUME NEW q \in Others, NEW open, NEW code, NEW info \in SUBSET K,
             JoinAnswer(q, open, code, info)
      PROVE  GJ
  <2>1. join' = join \/ join' = [join EXCEPT ![q].reply = code, ![q].info = info]
    BY <1>j DEF JoinAnswer
  <2>2. \A x \in Others : /\ join'[x].info = join[x].info \/ join'[x].info = info
                          /\ join'[x].extra = join[x].extra
    BY <1>0, <2>1 DEF JoinState
  <2> QED
    BY <1>b, <2>2, Zenon
<1>n. ASSUME NEW m \in inviteMsg, NEW code, InviteAnswer(m, code)
      PROVE  GI
  <2>1. invite' = invite \/ invite' = [invite EXCEPT ![m.to].reply = code]
    BY <1>n DEF InviteAnswer
  <2>2. \A x \in Others : invite'[x].members = invite[x].members
    BY <1>0, <1>m, <2>1 DEF InviteState
  <2> QED
    BY <1>b, <2>2
<1> HIDE DEF GM, GR, GI, GC, GJ, GN, GS
\* The invitation.
<1>1. ASSUME NEW q \in Others, InviteMember(q)
      PROVE  Goal
  <2>1. /\ UNCHANGED <<members, recv, inviteMsg, join, memberMsg, check>>
        /\ invite' = [invite EXCEPT ![q] = [IdleInvite EXCEPT !.pc = "read",
             !.no = used.invite + 1, !.conf = conf[Creator], !.members = members[Creator]]]
    BY <1>1 DEF InviteMember, rowVars, msgVars
  <2>2. [IdleInvite EXCEPT !.pc = "read", !.no = used.invite + 1, !.conf = conf[Creator],
                           !.members = members[Creator]].members = members[Creator]
    BY DEF IdleInvite
  <2>3. GI
    BY <1>0, <1>b, <2>1, <2>2 DEF GI
  <2> QED
    BY <1>u, <2>1, <2>3
<1>2. ASSUME NEW q \in Others, InviteSend(q)
      PROVE  Goal
  <2>1. /\ UNCHANGED <<members, recv, join, memberMsg, check>>
        /\ \E n : invite' = [invite EXCEPT ![q].pc = "calling", ![q].locks = n]
    BY <1>2, Zenon DEF InviteSend, rowVars
  <2>4. \A m \in inviteMsg' : m \in inviteMsg \/ m.members = invite[q].members
    BY <1>2 DEF InviteSend
  <2>2. \A x \in Others : invite'[x].members = invite[x].members
    BY <1>0, <2>1 DEF InviteState
  <2>3. GI /\ GC
    BY <1>b, <2>4, <2>2 DEF GI, GC
  <2> QED
    BY <1>u, <2>1, <2>3
<1>3. ASSUME NEW q \in Others, InviteDone(q)
      PROVE  Goal
  <2>1. /\ UNCHANGED <<members, recv, inviteMsg, join, memberMsg, check>>
        /\ invite' = [invite EXCEPT ![q] = IdleInvite]
    BY <1>3 DEF InviteDone, msgVars
  <2> QED
    BY <1>x, <1>u, <2>1, Zenon
<1>4. ASSUME NEW q \in Others, InviteTimeout(q)
      PROVE  Goal
  <2>1. /\ UNCHANGED <<members, recv, join, memberMsg, check>>
        /\ invite' = [invite EXCEPT ![q] = IdleInvite]
        /\ inviteMsg' = Late(inviteMsg, {m \in inviteMsg : m.to = q})
    BY <1>4 DEF InviteTimeout, rowVars
  <2>2. GC
    BY <1>l, <2>1 DEF GC
  <2> QED
    BY <1>x, <1>u, <2>1, <2>2, Zenon
<1>5. ASSUME NEW m \in inviteMsg, InviteToProjectRead(m)
      PROVE  Goal
  <2>1. /\ UNCHANGED <<members, recv, join, memberMsg, check>>
        /\ invite' = invite \/ InviteAnswer(m, "error")
        /\ \A n \in inviteMsg' : n \in inviteMsg \/ n = [m EXCEPT !.checked = TRUE]
    BY <1>5, Zenon DEF InviteToProjectRead, rowVars
  <2>2. [m EXCEPT !.checked = TRUE].members = m.members
    BY <1>m DEF InviteCall
  <2>3. GC
    BY <1>b, <2>1, <2>2, Zenon DEF GC
  <2> QED
    BY <1>n, <1>u, <2>1, <2>3
<1>6. ASSUME NEW m \in inviteMsg, InviteToProjectWrite(m)
      PROVE  Goal
  <2>1. /\ UNCHANGED <<members, join, memberMsg, check>>
        /\ InviteAnswer(m, "ok") /\ inviteMsg' = inviteMsg \ {m}
        /\ recv' = [recv EXCEPT ![m.to] = [status |-> "undecided", conf |-> m.conf,
                                           members |-> m.members]]
    BY <1>6, SMTT(20) DEF InviteToProjectWrite
  <2>2. GC /\ GR
    BY <1>0, <1>b, <1>m, <2>1, Zenon DEF GC, GR
  <2> QED
    BY <1>n, <1>u, <2>1, <2>2, Zenon
\* The answer to it.
<1>7. ASSUME NEW q \in Others, NEW r \in {"accept", "decline"}, ProcessInvitation(q, r)
      PROVE  Goal
  <2>1. /\ UNCHANGED <<members, recv, invite, inviteMsg, memberMsg, check>>
        /\ join' = [join EXCEPT ![q] = [IdleJoin EXCEPT !.pc = "calling", !.respond = r]]
    BY <1>7 DEF ProcessInvitation, rowVars
  <2>2. /\ [IdleJoin EXCEPT !.pc = "calling", !.respond = r].info = {}
        /\ [IdleJoin EXCEPT !.pc = "calling", !.respond = r].extra = {}
    BY DEF IdleJoin
  <2>3. GJ
    BY <1>0, <1>b, <2>1, <2>2 DEF GJ
  <2> QED
    BY <1>u, <2>1, <2>3
<1>8. ASSUME NEW q \in Others, ProcessInvitationDone(q)
      PROVE  Goal
  <2>1. UNCHANGED <<invite, inviteMsg, memberMsg, check>>
    BY <1>8 DEF ProcessInvitationDone, msgVars
  <2>2. \/ members' = members
        \/ Accepted(q) /\ members' = [members EXCEPT ![q] = @ \cup (recv[q].members \cup {Creator, q})]
    <3>1. CASE Accepted(q)
      BY <1>8, <3>1 DEF ProcessInvitationDone, Accepted
    <3>2. CASE ~Accepted(q)
      BY <1>8, <3>2, Zenon DEF ProcessInvitationDone, Accepted
    <3> QED
      BY <3>1, <3>2
  <2>3. GM
    <3>1. CASE members' = members
      BY <1>u, <3>1, Zenon
    <3>2. CASE members' # members
      <4>1. \A x \in Others :
              members'[x] \in {members[x], members[q] \cup (recv[q].members \cup {Creator, q})}
        BY <1>0, <2>2, <3>2, Zenon
      <4>2. members[q] \cup (recv[q].members \cup {Creator, q}) \subseteq K
        BY <1>0, <1>b, <2>2, <3>2
      <4> QED
        BY <1>b, <4>1, <4>2, Zenon DEF GM
    <3> QED
      BY <3>1, <3>2, Zenon
  <2>4. \E s : recv' = [recv EXCEPT ![q].status = s]
    BY <1>8, Zenon DEF ProcessInvitationDone
  <2>5. GR
    BY <1>0, <1>b, <2>4 DEF GR, ReceivedInvitation
  <2>6. \/ join' = [join EXCEPT ![q] = IdleJoin]
        \/ \E e \in SUBSET join[q].info :
             join' = [join EXCEPT ![q] = [IdleJoin EXCEPT !.pc = "extra", !.extra = e]]
    <3> DEFINE known == IF join[q].respond = "accept" THEN recv[q].members \cup {Creator, q}
                                                      ELSE {Creator, q}
               extra == IF join[q].reply = "ok" THEN join[q].info \ known ELSE {}
    <3>1. join' = [join EXCEPT ![q] = IF extra = {} THEN IdleJoin
                       ELSE [IdleJoin EXCEPT !.pc = "extra", !.extra = extra]]
      BY <1>8, Zenon DEF ProcessInvitationDone
    <3>2. extra \in SUBSET join[q].info
      OBVIOUS
    <3> HIDE DEF extra
    <3> QED
      BY <3>1, <3>2, Zenon
  <2>7. ASSUME NEW e \in SUBSET join[q].info,
               join' = [join EXCEPT ![q] = [IdleJoin EXCEPT !.pc = "extra", !.extra = e]]
        PROVE  GJ
    <3>1. /\ [IdleJoin EXCEPT !.pc = "extra", !.extra = e].info = {}
          /\ [IdleJoin EXCEPT !.pc = "extra", !.extra = e].extra = e
      BY DEF IdleJoin
    <3> QED
      BY <1>0, <1>b, <2>7, <3>1 DEF GJ
  <2> QED
    BY <1>y, <1>u, <2>1, <2>3, <2>5, <2>6, <2>7, Zenon
<1>9. ASSUME NEW q \in Others, JoinTimeout(q)
      PROVE  Goal
  <2>1. /\ UNCHANGED <<members, recv, invite, inviteMsg, memberMsg, check>>
        /\ join' = [join EXCEPT ![q] = IdleJoin]
    BY <1>9 DEF JoinTimeout, rowVars
  <2> QED
    BY <1>y, <1>u, <2>1, Zenon
<1>10. ASSUME NEW q \in Others, AddNewMembers(q)
       PROVE  Goal
  <2>1. /\ UNCHANGED <<recv, invite, inviteMsg, memberMsg, check>>
        /\ join' = [join EXCEPT ![q] = IdleJoin]
        /\ members' = members \/ members' = [members EXCEPT ![q] = members[q] \cup join[q].extra]
    BY <1>10, Zenon DEF AddNewMembers, msgVars
  <2>2. join[q].extra \in SUBSET K
    BY <1>b
  <2>3. GM
    BY <1>u, <1>w, <2>1, <2>2, Zenon
  <2> QED
    BY <1>y, <1>u, <2>1, <2>3, Zenon
<1>11. ASSUME NEW m \in replyMsg, ReplyInvitationBegin(m)
       PROVE  Goal
  <2>1. /\ UNCHANGED <<members, recv, invite, inviteMsg, memberMsg, check>>
        /\ \/ join' = join
           \/ JoinAnswer(m.from, m.open, "ok", {}) \/ JoinAnswer(m.from, m.open, "error", {})
    BY <1>11, Zenon DEF ReplyInvitationBegin, rowVars
  <2>2. m.from \in Others /\ {} \in SUBSET K
    BY <1>m
  <2>3. GJ
    BY <1>j, <1>u, <2>1, <2>2, Zenon
  <2>4. GM /\ GR /\ GI /\ GC /\ GN /\ GS
    <3> HIDE DEF Goal
    <3> QED
      BY <1>u, <2>1
  <2> QED
    BY <2>3, <2>4, Zenon
<1>12. ASSUME ReplyInvitationWrite PROVE Goal
  <2>1. /\ UNCHANGED <<members, recv, invite, inviteMsg, join, check>>
        /\ admit' = [admit EXCEPT !.pc = "commit"]
        /\ \A m \in memberMsg' : m \in memberMsg
                                   \/ (m.member = admit.from /\ admit.decision = "accepted")
    BY <1>12 DEF ReplyInvitationWrite, rowVars
  <2>2. /\ admit'.pc = "commit" /\ admit'.from = admit.from
        /\ admit'.decision = admit.decision
    BY <2>1 DEF TypeOK, AdmitState
  <2>3. admit.decision = "accepted" => admit.from \in K
    BY <1>k, <2>2 DEF Known, Admitting
  <2>4. GN
    BY <1>b, <2>1, <2>3 DEF GN
  <2>5. GM /\ GR /\ GI /\ GC /\ GJ /\ GS
    <3> HIDE DEF Goal
    <3> QED
      BY <1>u, <2>1
  <2> QED
    BY <2>4, <2>5
<1>13. ASSUME ReplyInvitationCommit PROVE Goal
  <2>1. UNCHANGED <<recv, invite, inviteMsg, memberMsg, check>>
    BY <1>13 DEF ReplyInvitationCommit, msgVars
  <2>2. \E now : /\ members' = [members EXCEPT ![Creator] = now]
                 /\ \/ JoinAnswer(admit.from, admit.open, "inconsistent", {})
                    \/ JoinAnswer(admit.from, admit.open, "ok", now)
    BY <1>13, ZenonT(30) DEF ReplyInvitationCommit
  <2>3. GM
    BY <1>0, <1>b, <2>2, Zenon DEF GM
  <2>4. \/ JoinAnswer(admit.from, admit.open, "inconsistent", {})
        \/ JoinAnswer(admit.from, admit.open, "ok", members'[Creator])
    BY <1>0, <2>2
  <2>5. ASSUME admit.from \in Others PROVE GJ
    <3>1. members'[Creator] \in SUBSET K /\ {} \in SUBSET K
      BY <1>b, SMTT(20)
    <3> QED
      BY <1>j, <2>4, <2>5, <3>1, ZenonT(30)
  <2>6. ASSUME admit.from \notin Others PROVE GJ
    <3>1. join' = join \/ \E c, i : join' = [join EXCEPT ![admit.from].reply = c,
                                                        ![admit.from].info = i]
      BY <2>4, Zenon DEF JoinAnswer
    <3>2. \A x \in Others : join'[x] = join[x]
      <4> SUFFICES ASSUME NEW x \in Others, NEW c, NEW i,
                          join' = [join EXCEPT ![admit.from].reply = c, ![admit.from].info = i]
                   PROVE  join'[x] = join[x]
        BY <3>1, Zenon
      <4>1. x # admit.from
        BY <2>6
      <4> QED
        BY <1>0, <4>1, Zenon
    <3> QED
      BY <1>b, <3>2, Zenon DEF GJ
  <2>7. GR /\ GI /\ GC /\ GN /\ GS
    <3> HIDE DEF Goal
    <3> QED
      BY <1>u, <2>1
  <2> QED
    BY <2>3, <2>5, <2>6, <2>7
\* The new member at the other members.
<1>14. ASSUME NEW m \in memberMsg, SyncMemberRead(m)
       PROVE  Goal
  <2>1. /\ UNCHANGED <<members, recv, invite, inviteMsg, join, check>>
        /\ \A n \in memberMsg' : n \in memberMsg \/ n = [m EXCEPT !.checked = TRUE]
    BY <1>14 DEF SyncMemberRead, rowVars
  <2>2. [m EXCEPT !.checked = TRUE].member = m.member
    BY <1>m DEF MemberCall
  <2>3. GN
    BY <1>b, <2>1, <2>2, Zenon DEF GN
  <2> QED
    BY <1>u, <2>1, <2>3
<1>15. ASSUME NEW m \in memberMsg, SyncMemberAdd(m)
       PROVE  Goal
  <2>1. /\ UNCHANGED <<recv, invite, inviteMsg, join, check>>
        /\ memberMsg' = memberMsg \ {m}
        /\ \/ members' = members
           \/ members' = [members EXCEPT ![m.to] = members[m.to] \cup {m.member}]
    BY <1>15, Zenon DEF SyncMemberAdd
  <2>2. {m.member} \in SUBSET K /\ m.to \in Others
    BY <1>b, <1>m
  <2>3. GM
    BY <1>u, <1>w, <2>1, <2>2, Zenon
  <2>4. GN
    BY <1>b, <2>1, Zenon DEF GN
  <2> QED
    BY <1>u, <2>1, <2>3, <2>4, Zenon
\* Archiving and deleting.
<1>16. ASSUME NEW p \in Parties,
              \/ ArchiveProject(p) \/ ArchiveAllowed(p) \/ ArchiveLocal(p) \/ ArchiveCommit(p)
              \/ ArchiveTimeout(p)
       PROVE  Goal
  <2>1. UNCHANGED <<members, recv, invite, inviteMsg, join, memberMsg, check>>
    BY <1>16 DEF ArchiveProject, ArchiveAllowed, ArchiveLocal, ArchiveCommit, ArchiveTimeout,
      rowVars, msgVars
  <2> QED
    BY <1>u, <2>1
<1>17. ASSUME NEW m \in archiveMsg,
              SyncInfoRead(m) \/ SyncInfoArchive(m) \/ SyncInfoDeadlock(m)
       PROVE  Goal
  <2>1. UNCHANGED <<members, recv, invite, inviteMsg, join, memberMsg, check>>
    BY <1>17 DEF SyncInfoRead, SyncInfoArchive, SyncInfoDeadlock, rowVars
  <2> QED
    BY <1>u, <2>1
<1>18. ASSUME NEW p \in Parties, DeleteProject(p)
       PROVE  Goal
  <2>1. /\ UNCHANGED <<invite, inviteMsg, join, memberMsg, check>>
        /\ members' = [members EXCEPT ![p] = {}]
        /\ recv' = recv \/ recv' = [recv EXCEPT ![p] = NoReceived]
    BY <1>18, Zenon DEF DeleteProject, msgVars
  <2>2. GM /\ GR
    BY <1>0, <1>b, <1>r, <2>1, Zenon DEF GM, GR
  <2> QED
    BY <1>u, <2>1, <2>2
\* CheckAndUpdateStatus.
<1>19. ASSUME NEW q \in Others, CheckAndUpdateStatus(q)
       PROVE  Goal
  <2>1. /\ UNCHANGED <<members, recv, invite, inviteMsg, join, memberMsg>>
        /\ check' = [check EXCEPT ![q].pc = "asking", ![q].local = StatusOf(q)]
    BY <1>19 DEF CheckAndUpdateStatus, rowVars
  <2>2. \A x \in Others : check'[x].remote = check[x].remote
    BY <1>0, <2>1, Zenon DEF CheckState
  <2>3. GS
    BY <1>b, <2>2 DEF GS
  <2> QED
    BY <1>u, <2>1, <2>3
<1>20. ASSUME NEW m \in askMsg, AskInfo(m)
       PROVE  Goal
  <2>1. /\ UNCHANGED <<members, recv, invite, inviteMsg, join, memberMsg>>
        /\ \/ check' = check \/ check' = [check EXCEPT ![m.from] = IdleCheck]
           \/ check' = [check EXCEPT ![m.from] =
                          [@ EXCEPT !.pc = "update", !.remote = StatusOf(Creator)]]
    BY <1>20, Zenon DEF AskInfo, rowVars
  <2>2. [check[m.from] EXCEPT !.pc = "update", !.remote = StatusOf(Creator)].remote.members
          = members[Creator]
    BY <1>0, <1>m DEF CheckState, StatusOf
  <2>3. \A x \in Others : \/ check'[x] = check[x] \/ check'[x] = IdleCheck
                          \/ check'[x].remote.members = members[Creator]
    BY <1>0, <1>m, <2>1, <2>2, Zenon
  <2>4. GS
    BY <1>b, <1>r, <2>3 DEF GS
  <2> QED
    BY <1>u, <2>1, <2>4
<1>21. ASSUME NEW q \in Others, UpdateStatus(q)
       PROVE  Goal
  <2>1. /\ UNCHANGED <<recv, invite, inviteMsg, join, memberMsg>>
        /\ check' = [check EXCEPT ![q] = IdleCheck]
        /\ \/ members' = members
           \/ members' = [members EXCEPT ![q] =
                  members[q] \cup (check[q].remote.members \ check[q].local.members)]
    BY <1>21, Zenon DEF UpdateStatus, msgVars
  <2>2. check[q].remote.members \ check[q].local.members \in SUBSET K
    BY <1>b
  <2>3. GM
    BY <1>u, <1>w, <2>1, <2>2, Zenon
  <2> QED
    BY <1>z, <1>u, <2>1, <2>3, Zenon
<1>22. ASSUME NEW q \in Others, CheckTimeout(q)
       PROVE  Goal
  <2>1. /\ UNCHANGED <<members, recv, invite, inviteMsg, join, memberMsg>>
        /\ check' = [check EXCEPT ![q] = IdleCheck]
    BY <1>22, ZenonT(30) DEF CheckTimeout, rowVars
  <2> QED
    BY <1>z, <1>u, <2>1, Zenon
<1>23. ASSUME NEW p \in Parties, Crash(p)
       PROVE  Goal
  <2>1. /\ UNCHANGED <<members, recv>>
        /\ invite' = IF p = Creator THEN [q \in Others |-> IdleInvite] ELSE invite
        /\ join' = IF p = Creator THEN join ELSE [join EXCEPT ![p] = IdleJoin]
        /\ check' = IF p = Creator THEN check ELSE [check EXCEPT ![p] = IdleCheck]
        /\ inviteMsg' = IF p = Creator THEN Late(inviteMsg, inviteMsg)
                        ELSE {m \in inviteMsg : ~(m.to = p /\ m.checked)}
        /\ memberMsg' \subseteq memberMsg
    BY <1>23, Zenon DEF Crash, rowVars
  <2>2. GI
    <3>1. \A q \in Others : invite'[q] = IdleInvite \/ invite'[q] = invite[q]
      BY <2>1, Zenon
    <3> QED
      BY <1>b, <1>r, <3>1 DEF GI
  <2>5. GN
    BY <1>b, <2>1, Zenon DEF GN
  <2>3. GC
    BY <1>b, <1>l, <2>1, Zenon DEF GC
  <2>4. GJ /\ GS
    BY <1>0, <1>y, <1>z, <1>u, <2>1, Zenon
  <2> QED
    BY <1>u, <2>1, <2>2, <2>3, <2>4, <2>5, Zenon
<1>24. ASSUME UNCHANGED vars PROVE Goal
  <2>1. UNCHANGED <<members, recv, invite, inviteMsg, join, memberMsg, check>>
    BY <1>24 DEF vars, rowVars, msgVars
  <2> QED
    BY <1>u, <2>1
<1>25. Goal
  <2> HIDE DEF Goal
  <2>1. ASSUME NEW q \in Others,
               \/ InviteMember(q) \/ InviteSend(q) \/ InviteDone(q) \/ InviteTimeout(q)
               \/ \E r \in {"accept", "decline"} : ProcessInvitation(q, r)
               \/ ProcessInvitationDone(q) \/ JoinTimeout(q) \/ AddNewMembers(q)
               \/ CheckAndUpdateStatus(q) \/ UpdateStatus(q) \/ CheckTimeout(q)
        PROVE  Goal
    BY <1>1, <1>2, <1>3, <1>4, <1>7, <1>8, <1>9, <1>10, <1>19, <1>21, <1>22, <2>1
  <2>2. ASSUME NEW p \in Parties,
               \/ ArchiveProject(p) \/ ArchiveAllowed(p) \/ ArchiveLocal(p) \/ ArchiveCommit(p)
               \/ ArchiveTimeout(p) \/ DeleteProject(p) \/ Crash(p)
        PROVE  Goal
    BY <1>16, <1>18, <1>23, <2>2
  <2>3. CASE Next
    <3> QED
      BY <1>5, <1>6, <1>11, <1>12, <1>13, <1>14, <1>15, <1>17, <1>20, <2>1, <2>2, <2>3,
        ZenonT(30) DEF Next
  <2> QED
    BY <1>24, <2>3
<1> QED
  BY <1>25, <1>a, <1>g, <1>k, Zenon DEF Listed, GM, GR, GI, GC, GJ, GN, GS

\* Every step keeps ListedInv.
LEMMA ListedInvStep ==
    TypeOK /\ LockInv /\ ReplyInv /\ FreshInv /\ ListedInv /\ [Next]_vars => ListedInv'
<1> SUFFICES ASSUME TypeOK, LockInv, ReplyInv, FreshInv, ListedInv, [Next]_vars,
                    MaxCreates = 1, proj'[Creator] # "none"
             PROVE  Listed'
  BY DEF ListedInv
<1>1. CASE CreateProject
  <2>1. used.create \in Nat /\ used.create < 1
    BY <1>1, BrokerProjectAssumption DEF CreateProject, TypeOK, Usage, Confs
  <2>2. Untouched
    BY <2>1 DEF FreshInv
  <2>3. /\ Creator \in Parties /\ Others = Parties \ {Creator}
        /\ members \in [Parties -> SUBSET Parties]
    BY BrokerProjectAssumption DEF TypeOK, Others
  <2>4. /\ members' = [members EXCEPT ![Creator] = @ \cup {Creator}]
        /\ UNCHANGED <<recv, invite, join, check, inviteMsg, memberMsg>>
    BY <1>1 DEF CreateProject, msgVars
  <2>5. /\ Creator \in members'[Creator]
        /\ \A q \in Others : members'[q] = {}
    BY <2>2, <2>3, <2>4 DEF Untouched
  <2>6. \A q \in Others : /\ recv'[q] = NoReceived /\ invite'[q] = IdleInvite
                          /\ join'[q] = IdleJoin /\ check'[q] = IdleCheck
    BY <2>2, <2>4 DEF Untouched
  <2>7. inviteMsg' = {} /\ memberMsg' = {}
    BY <2>2, <2>4, Zenon DEF Untouched
  <2>8. /\ NoReceived.members = {} /\ IdleInvite.members = {}
        /\ IdleJoin.info = {} /\ IdleJoin.extra = {} /\ IdleJoin.reply = "none"
        /\ IdleCheck.remote.members = {}
    BY DEF NoReceived, IdleInvite, IdleJoin, IdleCheck, NoStatus
  <2> QED
    BY <2>5, <2>6, <2>7, <2>8 DEF Listed, Accepted
<1>2. CASE ~CreateProject
  <2>1. proj[Creator] # "none"
    BY <1>2, BrokerProjectAssumption, FlowConf DEF Others
  <2> QED
    BY <1>2, <2>1, ListedStep, Zenon DEF ListedInv
<1> QED
  BY <1>1, <1>2

\* MembersSound holds for any number of parties: when a project is created
\* once, every list of members that a broker stores, reads or sends names only
\* members at the creator, the one that ReplyInvitation is admitting and those
\* whose admission a crash of the creator undid.
THEOREM ListedAreMembers == Spec => []MembersSound
<1>1. Init => ReplyInv /\ FreshInv /\ ListedInv
  <2> SUFFICES ASSUME Init PROVE ReplyInv /\ FreshInv /\ ListedInv
    OBVIOUS
  <2>0. Creator \in Parties /\ Others \subseteq Parties
    BY BrokerProjectAssumption DEF Others
  <2>1. Untouched
    BY <2>0, Zenon DEF Init, Untouched
  <2>2. proj[Creator] = "none"
    BY <2>0, Zenon DEF Init
  <2>3. ReplyInv
    BY Zenon DEF Init, ReplyInv, OpenCalls, OpenAdmit, Answers, IdleJoin, NoAdmit
  <2> QED
    BY <2>1, <2>2, <2>3 DEF FreshInv, ListedInv
<1>2. ListedInv => MembersSound
  BY DEF ListedInv, Listed, Known, MembersSound
<1> QED
  BY <1>1, <1>2, LocksHold, ReplyStep, FreshStep, ListedInvStep, PTL DEF Spec

================================================================================
