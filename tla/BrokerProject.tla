----------------------------- MODULE BrokerProject -----------------------------
(***************************************************************************)
(* One project that several brokers share.                                 *)
(*                                                                         *)
(* Every broker keeps its own row of the project, its own list of members  *)
(* and its own invitations.  The creator's broker invites (InviteMember -> *)
(* InviteToProject), an invitee answers (ProcessInvitation ->              *)
(* ReplyInvitation), the creator tells the others about a new member       *)
(* (SyncInfo AddProjectMember), any member archives (ArchiveProject ->     *)
(* SyncInfo ArchiveProject), deletes its own copy (DeleteProject) or       *)
(* repairs it (CheckAndUpdateStatus -> AskInfo).                           *)
(*                                                                         *)
(* A handler calls another broker while its own transaction is open: what  *)
(* it wrote is invisible to others, and the rows it wrote stay locked,     *)
(* until it commits.  A call may time out before or after it was served,   *)
(* and a call nobody waits for any more may still be served.               *)
(*                                                                         *)
(* Transactions are READ COMMITTED: a handler that reads and writes later  *)
(* takes two steps when another handler can come between them.             *)
(***************************************************************************)
EXTENDS Naturals, FiniteSets

CONSTANTS
    Parties,      \* the brokers
    Creator,      \* the one that creates the project
    MaxCreates,   \* bound: how often the project is created
    MaxInvites,   \* bound: calls of InviteMember
    MaxReplies,   \* bound: calls of ProcessInvitation
    MaxArchives,  \* bound: calls of ArchiveProject
    MaxDeletes,   \* bound: calls of DeleteProject
    MaxChecks,    \* bound: calls of CheckAndUpdateStatus
    MaxCrashes    \* bound: brokers that die

ASSUME BrokerProjectAssumption ==
    /\ Creator \in Parties
    /\ {MaxCreates, MaxInvites, MaxReplies, MaxArchives, MaxDeletes, MaxChecks,
        MaxCrashes} \subseteq Nat

Others == Parties \ {Creator}

VARIABLES
    proj,     \* each broker's row of the project: "none", "live", "archived"
    conf,     \* the creation whose settings that row holds
    members,  \* each broker's member rows
    sent,     \* the creator's newest invitation for each other party
    recv,     \* each other party's newest invitation
    invite,   \* InviteMember, for each invitee
    join,     \* ProcessInvitation of each party
    admit,    \* ReplyInvitation: holds the lock on the creator's project row
    archive,  \* ArchiveProject of each party
    check,    \* CheckAndUpdateStatus of each party, as far as the project goes
    inviteMsg, replyMsg, archiveMsg, memberMsg, askMsg,  \* calls under way
    used,     \* how many calls of each kind were made
    settings, \* name, description and configuration of each creation
    lost,     \* whose admission (Creator: whose archiving) a crash undid
    leaked    \* parties with a transaction that nobody finishes

rowVars == <<proj, conf, members, sent, recv>>
msgVars == <<inviteMsg, replyMsg, archiveMsg, memberMsg, askMsg>>
histVars == <<settings, lost, leaked>>
vars == <<rowVars, invite, join, admit, archive, check, msgVars, used, histVars>>

NoInvitation == [no |-> 0, status |-> "none", conf |-> 0]
NoReceived == [status |-> "none", conf |-> 0, members |-> {}]
IdleInvite == [pc |-> "idle", no |-> 0, conf |-> 0, members |-> {}, locks |-> 0,
               reply |-> "none"]
IdleJoin == [pc |-> "idle", respond |-> "accept", reply |-> "none", info |-> {},
             extra |-> {}]
IdleArchive == [pc |-> "idle", conf |-> 0, reply |-> "none", wait |-> {}]
NoStatus == [proj |-> "none", conf |-> 0, members |-> {}]
IdleCheck == [pc |-> "idle", local |-> NoStatus, remote |-> NoStatus]
NoAdmit == [pc |-> "idle", from |-> Creator, no |-> 0, decision |-> "accepted",
            open |-> FALSE]

Init ==
    /\ proj = [p \in Parties |-> "none"]
    /\ conf = [p \in Parties |-> 0]
    /\ members = [p \in Parties |-> {}]
    /\ sent = [q \in Others |-> NoInvitation]
    /\ recv = [q \in Others |-> NoReceived]
    /\ invite = [q \in Others |-> IdleInvite]
    /\ join = [q \in Others |-> IdleJoin]
    /\ admit = NoAdmit
    /\ archive = [p \in Parties |-> IdleArchive]
    /\ check = [q \in Others |-> IdleCheck]
    /\ inviteMsg = {} /\ replyMsg = {} /\ archiveMsg = {} /\ memberMsg = {}
    /\ askMsg = {}
    /\ used = [create |-> 0, invite |-> 0, reply |-> 0, archive |-> 0,
               delete |-> 0, check |-> 0, crash |-> 0]
    /\ settings = [n \in 1 .. MaxCreates |-> n]
    /\ lost = {}
    /\ leaked = {}

\* Mutant: ReplyInvitation reads the project row without locking it.
RowFreeNoReplyLock(p) == archive[p].pc # "spread"

\* Nobody holds the lock on p's project row: ArchiveProject has it from its
\* update to its commit, ReplyInvitation from its first statement.
RowFree(p) ==
    /\ archive[p].pc # "spread"
    /\ p = Creator => admit.pc = "idle"

\* CheckInvitationCompatibleWithProj and Project.Conflicts compare what the
\* rows hold; nothing tells two creations with the same settings apart.
SameSettings(a, b) == settings[a] = settings[b]

\* The calls S among the calls M no longer have a caller that waits.
Late(M, S) == (M \ S) \cup {[m EXCEPT !.open = FALSE] : m \in S}

--------------------------------------------------------------------------------
(* Creation and invitation.                                                   *)

\* The settings are those of an earlier creation or others.
CreateProject ==
    /\ used.create < MaxCreates
    /\ proj[Creator] = "none"
    /\ Creator \notin members[Creator]
    /\ proj' = [proj EXCEPT ![Creator] = "live"]
    /\ conf' = [conf EXCEPT ![Creator] = used.create + 1]
    /\ members' = [members EXCEPT ![Creator] = @ \cup {Creator}]
    /\ \E s \in 1 .. used.create + 1 : settings' = [settings EXCEPT ![used.create + 1] = s]
    /\ used' = [used EXCEPT !.create = @ + 1]
    /\ UNCHANGED <<sent, recv, invite, join, admit, archive, check, msgVars, lost, leaked>>

\* InviteMember reads the project and its members ...
InviteMember(q) ==
    /\ used.invite < MaxInvites
    /\ invite[q].pc = "idle"
    /\ proj[Creator] = "live"
    /\ q \notin members[Creator]
    /\ invite' = [invite EXCEPT ![q] = [IdleInvite EXCEPT !.pc = "read",
          !.no = used.invite + 1, !.conf = conf[Creator], !.members = members[Creator]]]
    /\ used' = [used EXCEPT !.invite = @ + 1]
    /\ UNCHANGED <<rowVars, join, admit, archive, check, msgVars, histVars>>

\* ... invalidates the unhandled invitation, adds its own and calls the
\* invitee with the transaction open.
InviteSend(q) ==
    /\ invite[q].pc = "read"
    /\ ~(admit.pc = "commit" /\ admit.from = q /\ admit.no = sent[q].no)
    /\ invite' = [invite EXCEPT ![q].pc = "calling",
          ![q].locks = IF sent[q].status = "undecided" THEN sent[q].no ELSE 0]
    /\ inviteMsg' = inviteMsg \cup {[to |-> q, conf |-> invite[q].conf,
          members |-> invite[q].members, checked |-> FALSE, open |-> TRUE]}
    /\ UNCHANGED <<rowVars, join, admit, archive, check, replyMsg, archiveMsg,
                   memberMsg, askMsg, used, histVars>>

\* The answer arrives: commit, or roll back on an error.
InviteDone(q) ==
    /\ invite[q].pc = "calling"
    /\ invite[q].reply # "none"
    /\ sent' = IF invite[q].reply = "ok"
                 THEN [sent EXCEPT ![q] = [no |-> invite[q].no, status |-> "undecided",
                                           conf |-> invite[q].conf]]
                 ELSE sent
    /\ invite' = [invite EXCEPT ![q] = IdleInvite]
    /\ UNCHANGED <<proj, conf, members, recv, join, admit, archive, check, msgVars,
                   used, histVars>>

\* Mutant: the client has no timeout.
InviteTimeoutNever(q) == invite[q].pc = "timeout" /\ UNCHANGED vars

InviteTimeout(q) ==
    /\ invite[q].pc = "calling"
    /\ invite' = [invite EXCEPT ![q] = IdleInvite]
    /\ inviteMsg' = Late(inviteMsg, {m \in inviteMsg : m.to = q})
    /\ UNCHANGED <<rowVars, join, admit, archive, check, replyMsg, archiveMsg,
                   memberMsg, askMsg, used, histVars>>

InviteAnswer(m, code) ==
    invite' = IF m.open THEN [invite EXCEPT ![m.to].reply = code] ELSE invite

\* InviteToProject at the invitee: refused when the project exists ...
InviteToProjectRead(m) ==
    /\ ~m.checked
    /\ IF proj[m.to] # "none"
         THEN inviteMsg' = inviteMsg \ {m} /\ InviteAnswer(m, "error")
         ELSE /\ inviteMsg' = (inviteMsg \ {m}) \cup {[m EXCEPT !.checked = TRUE]}
              /\ UNCHANGED invite
    /\ UNCHANGED <<rowVars, join, admit, archive, check, replyMsg, archiveMsg,
                   memberMsg, askMsg, used, histVars>>

\* ... otherwise the unhandled invitation is invalidated, for which it must
\* not be locked by ProcessInvitation, and the new one is added.
InviteToProjectWrite(m) ==
    /\ m.checked
    /\ join[m.to].pc # "calling"
    /\ recv' = [recv EXCEPT ![m.to] = [status |-> "undecided", conf |-> m.conf,
                                       members |-> m.members]]
    /\ inviteMsg' = inviteMsg \ {m}
    /\ InviteAnswer(m, "ok")
    /\ UNCHANGED <<proj, conf, members, sent, join, admit, archive, check, replyMsg,
                   archiveMsg, memberMsg, askMsg, used, histVars>>

--------------------------------------------------------------------------------
(* Answering an invitation.                                                   *)

\* ProcessInvitation: the project row, the member rows and the new status
\* are written but not committed while the creator is called.
ProcessInvitation(q, respond) ==
    /\ used.reply < MaxReplies
    /\ join[q].pc = "idle"
    /\ recv[q].status = "undecided"
    /\ proj[q] = "none"
    /\ respond = "accept" => members[q] \cap (recv[q].members \cup {Creator, q}) = {}
    /\ join' = [join EXCEPT ![q] = [IdleJoin EXCEPT !.pc = "calling", !.respond = respond]]
    /\ replyMsg' = replyMsg \cup {[from |-> q, respond |-> respond, open |-> TRUE]}
    /\ used' = [used EXCEPT !.reply = @ + 1]
    /\ UNCHANGED <<rowVars, invite, admit, archive, check, inviteMsg, archiveMsg,
                   memberMsg, askMsg, histVars>>

JoinAnswer(q, open, code, info) ==
    join' = IF open THEN [join EXCEPT ![q].reply = code, ![q].info = info] ELSE join

\* ReplyInvitation at the creator locks the project row and checks; an
\* acceptance by a member is confirmed without project information.
ReplyInvitationBegin(m) ==
    LET q == m.from
        again == proj[Creator] = "live" /\ q \in members[Creator] /\ m.respond = "accept"
        goes == /\ proj[Creator] = "live" /\ q \notin members[Creator]
                /\ sent[q].status = "undecided"
    IN /\ RowFree(Creator)
       /\ replyMsg' = replyMsg \ {m}
       /\ \/ /\ goes
             /\ admit' = [pc |-> "write", from |-> q, no |-> sent[q].no, open |-> m.open,
                          decision |-> IF m.respond = "decline" THEN "declined"
                                       ELSE IF SameSettings(sent[q].conf, conf[Creator])
                                         THEN "accepted"
                                       ELSE "invalid"]
             /\ UNCHANGED join
          \/ /\ ~goes
             /\ JoinAnswer(q, m.open, IF again THEN "ok" ELSE "error", {})
             /\ UNCHANGED admit
       /\ UNCHANGED <<rowVars, invite, archive, check, inviteMsg, archiveMsg, memberMsg,
                      askMsg, used, histVars>>

\* Mutant: the members hear of an invitee that declined as well.
ReplyInvitationTellAlways ==
    /\ admit.pc = "write"
    /\ ~(invite[admit.from].pc = "calling" /\ invite[admit.from].locks = admit.no)
    /\ admit' = [admit EXCEPT !.pc = "commit"]
    /\ memberMsg' = memberMsg \cup {[to |-> p, member |-> admit.from, checked |-> FALSE] :
                                       p \in members[Creator] \ {Creator, admit.from}}
    /\ UNCHANGED <<rowVars, invite, join, archive, check, inviteMsg, replyMsg, archiveMsg,
                   askMsg, used, histVars>>

\* It changes the invitation, which InviteMember may have locked, adds the
\* member and starts telling the other members ...
ReplyInvitationWrite ==
    /\ admit.pc = "write"
    /\ ~(invite[admit.from].pc = "calling" /\ invite[admit.from].locks = admit.no)
    /\ admit' = [admit EXCEPT !.pc = "commit"]
    /\ memberMsg' = IF admit.decision = "accepted"
                      THEN memberMsg \cup
                             {[to |-> p, member |-> admit.from, checked |-> FALSE] :
                                p \in members[Creator] \ {Creator, admit.from}}
                      ELSE memberMsg
    /\ UNCHANGED <<rowVars, invite, join, archive, check, inviteMsg, replyMsg, archiveMsg,
                   askMsg, used, histVars>>

\* Mutant: the member is not inserted.
ReplyInvitationForgetMember ==
    LET q == admit.from IN
    /\ admit.pc = "commit"
    /\ sent' = IF sent[q].no = admit.no THEN [sent EXCEPT ![q].status = admit.decision]
                                        ELSE sent
    /\ JoinAnswer(q, admit.open, IF admit.decision = "invalid" THEN "inconsistent" ELSE "ok",
                  members[Creator])
    /\ admit' = NoAdmit
    /\ UNCHANGED <<proj, conf, members, recv, invite, archive, check, msgVars, used, histVars>>

\* ... and then commits and answers with the newest members.
ReplyInvitationCommit ==
    LET q == admit.from
        now == IF admit.decision = "accepted" THEN members[Creator] \cup {q}
                                              ELSE members[Creator]
    IN /\ admit.pc = "commit"
       /\ members' = [members EXCEPT ![Creator] = now]
       /\ sent' = IF sent[q].no = admit.no THEN [sent EXCEPT ![q].status = admit.decision]
                                           ELSE sent
       /\ IF admit.decision = "invalid"
            THEN JoinAnswer(q, admit.open, "inconsistent", {})
            ELSE JoinAnswer(q, admit.open, "ok", now)
       /\ admit' = NoAdmit
       /\ UNCHANGED <<proj, conf, recv, invite, archive, check, msgVars, used, histVars>>

\* Mutant: the answer's code is stored as the invitation's status.
ProcessInvitationRawStatus(q) ==
    /\ join[q].pc = "calling"
    /\ join[q].reply # "none"
    /\ recv' = [recv EXCEPT ![q].status = join[q].reply]
    /\ join' = [join EXCEPT ![q] = IdleJoin]
    /\ UNCHANGED <<proj, conf, members, sent, invite, admit, archive, check, msgVars, used,
                   histVars>>

\* Mutant: an acceptance is committed whatever the creator answers.
ProcessInvitationAnyReply(q) ==
    /\ join[q].pc = "calling"
    /\ join[q].reply # "none"
    /\ IF join[q].respond = "accept"
         THEN /\ proj' = [proj EXCEPT ![q] = "live"]
              /\ conf' = [conf EXCEPT ![q] = recv[q].conf]
              /\ members' = [members EXCEPT ![q] = @ \cup recv[q].members \cup {Creator, q}]
              /\ recv' = [recv EXCEPT ![q].status = "accepted"]
         ELSE UNCHANGED <<proj, conf, members, recv>>
    /\ join' = [join EXCEPT ![q] = IdleJoin]
    /\ UNCHANGED <<sent, invite, admit, archive, check, msgVars, used, histVars>>

\* ProcessInvitation gets the answer and commits; the members that the
\* creator named and the invitation did not are left for a second
\* transaction.  After an error all is rolled back.
ProcessInvitationDone(q) ==
    LET j == join[q]
        accepted == j.reply = "ok" /\ j.respond = "accept"
        known == IF j.respond = "accept" THEN recv[q].members \cup {Creator, q}
                                         ELSE {Creator, q}
        extra == IF j.reply = "ok" THEN j.info \ known ELSE {}
    IN /\ j.pc = "calling"
       /\ j.reply # "none"
       /\ proj' = IF accepted THEN [proj EXCEPT ![q] = "live"] ELSE proj
       /\ conf' = IF accepted THEN [conf EXCEPT ![q] = recv[q].conf] ELSE conf
       /\ members' = IF accepted THEN [members EXCEPT ![q] = @ \cup known] ELSE members
       /\ recv' = [recv EXCEPT ![q].status =
                     CASE accepted                  -> "accepted"
                       [] j.reply = "ok" /\ ~accepted -> "declined"
                       [] j.reply = "inconsistent"    -> "invalid"
                       [] OTHER                       -> @]
       /\ join' = [join EXCEPT ![q] = IF extra = {} THEN IdleJoin
                       ELSE [IdleJoin EXCEPT !.pc = "extra", !.extra = extra]]
       /\ UNCHANGED <<sent, invite, admit, archive, check, msgVars, used, histVars>>

JoinTimeout(q) ==
    /\ join[q].pc = "calling"
    /\ join' = [join EXCEPT ![q] = IdleJoin]
    /\ replyMsg' = Late(replyMsg, {m \in replyMsg : m.from = q})
    /\ admit' = IF admit.pc # "idle" /\ admit.from = q
                  THEN [admit EXCEPT !.open = FALSE] ELSE admit
    /\ UNCHANGED <<rowVars, invite, archive, check, inviteMsg, archiveMsg, memberMsg,
                   askMsg, used, histVars>>

\* The second transaction.  One member that is already there fails the whole
\* insert.  Without a project the handler dereferences a nil error before
\* it finishes the transaction.
AddNewMembers(q) ==
    /\ join[q].pc = "extra"
    /\ RowFree(q)
    /\ members' = IF proj[q] # "none" /\ join[q].extra \cap members[q] = {}
                    THEN [members EXCEPT ![q] = @ \cup join[q].extra] ELSE members
    /\ leaked' = IF proj[q] = "none" THEN leaked \cup {q} ELSE leaked
    /\ join' = [join EXCEPT ![q] = IdleJoin]
    /\ UNCHANGED <<proj, conf, sent, recv, invite, admit, archive, check, msgVars, used,
                   settings, lost>>

--------------------------------------------------------------------------------
(* Archiving and deleting.                                                    *)

\* Mutant: the creator is told last, like everybody else.
ArchiveProjectAlone(p) ==
    /\ used.archive < MaxArchives
    /\ archive[p].pc = "idle"
    /\ proj[p] = "live"
    /\ archive' = [archive EXCEPT ![p] = [IdleArchive EXCEPT !.conf = conf[p], !.pc = "local"]]
    /\ used' = [used EXCEPT !.archive = @ + 1]
    /\ UNCHANGED <<rowVars, invite, join, admit, check, msgVars, histVars>>

\* ArchiveProject: a member asks the creator first.
ArchiveProject(p) ==
    /\ used.archive < MaxArchives
    /\ archive[p].pc = "idle"
    /\ proj[p] = "live"
    /\ archive' = [archive EXCEPT ![p] = [IdleArchive EXCEPT !.conf = conf[p],
                       !.pc = IF p = Creator THEN "local" ELSE "creator"]]
    /\ archiveMsg' = IF p = Creator THEN archiveMsg
                     ELSE archiveMsg \cup {[from |-> p, to |-> Creator, checked |-> FALSE,
                                            open |-> TRUE]}
    /\ used' = [used EXCEPT !.archive = @ + 1]
    /\ UNCHANGED <<rowVars, invite, join, admit, check, inviteMsg, replyMsg, memberMsg,
                   askMsg, histVars>>

\* The creator's answer: an error ends the handler.
ArchiveAllowed(p) ==
    /\ archive[p].pc = "creator"
    /\ archive[p].reply # "none"
    /\ archive' = [archive EXCEPT ![p] = IF archive[p].reply = "ok"
                     THEN [@ EXCEPT !.pc = "local"] ELSE IdleArchive]
    /\ UNCHANGED <<rowVars, invite, join, admit, check, msgVars, used, histVars>>

\* The row is updated, which fails when it is gone, and the other members
\* are told before the commit.
ArchiveLocal(p) ==
    /\ archive[p].pc = "local"
    /\ RowFree(p)
    /\ IF proj[p] = "none"
         THEN archive' = [archive EXCEPT ![p] = IdleArchive] /\ UNCHANGED archiveMsg
         ELSE LET others == members[p] \ {p, Creator} IN
              /\ archive' = [archive EXCEPT ![p].pc = "spread", ![p].wait = others]
              /\ archiveMsg' = archiveMsg \cup
                   {[from |-> p, to |-> t, checked |-> FALSE, open |-> TRUE] : t \in others}
    /\ UNCHANGED <<rowVars, invite, join, admit, check, inviteMsg, replyMsg, memberMsg,
                   askMsg, used, histVars>>

\* Whatever the members answered, the row is committed: the whole row as the
\* handler read it at its beginning.
ArchiveCommit(p) ==
    /\ archive[p].pc = "spread"
    /\ archive[p].wait = {}
    /\ proj' = [proj EXCEPT ![p] = "archived"]
    /\ conf' = [conf EXCEPT ![p] = archive[p].conf]
    /\ archive' = [archive EXCEPT ![p] = IdleArchive]
    /\ UNCHANGED <<members, sent, recv, invite, join, admit, check, msgVars, used,
                   histVars>>

\* A call of PostSyncInfo times out.  baseCall wraps the error, so that it
\* is not recognised as a timeout: it counts as an error like any other.
ArchiveTimeout(p) ==
    /\ \/ /\ archive[p].pc = "creator"
          /\ archive' = [archive EXCEPT ![p] = IdleArchive]
          /\ archiveMsg' = Late(archiveMsg, {m \in archiveMsg : m.from = p /\ m.to = Creator})
       \/ /\ archive[p].pc = "spread"
          /\ \E t \in archive[p].wait :
               /\ archive' = [archive EXCEPT ![p].wait = @ \ {t}]
               /\ archiveMsg' = Late(archiveMsg, {m \in archiveMsg : m.from = p /\ m.to = t})
    /\ UNCHANGED <<rowVars, invite, join, admit, check, inviteMsg, replyMsg, memberMsg,
                   askMsg, used, histVars>>

ArchiveAnswer(m, code) ==
    archive' = CASE ~m.open -> archive
                 [] m.open /\ m.to = Creator -> [archive EXCEPT ![m.from].reply = code]
                 [] OTHER -> [archive EXCEPT ![m.from].wait = @ \ {m.to}]

\* SyncInfo: the project must exist and not be archived ...
SyncInfoRead(m) ==
    /\ ~m.checked
    /\ IF proj[m.to] = "live"
         THEN /\ archiveMsg' = (archiveMsg \ {m}) \cup {[m EXCEPT !.checked = TRUE]}
              /\ UNCHANGED archive
         ELSE archiveMsg' = archiveMsg \ {m} /\ ArchiveAnswer(m, "error")
    /\ UNCHANGED <<rowVars, invite, join, admit, check, inviteMsg, replyMsg, memberMsg,
                   askMsg, used, histVars>>

\* ... then the row is locked and archived for a member.
SyncInfoArchive(m) ==
    LET ok == proj[m.to] # "none" /\ m.from \in members[m.to] IN
    /\ m.checked
    /\ RowFree(m.to)
    /\ proj' = IF ok THEN [proj EXCEPT ![m.to] = "archived"] ELSE proj
    /\ archiveMsg' = archiveMsg \ {m}
    /\ ArchiveAnswer(m, IF ok THEN "ok" ELSE "error")
    /\ UNCHANGED <<conf, members, sent, recv, invite, join, admit, check, inviteMsg,
                   replyMsg, memberMsg, askMsg, used, histVars>>

\* Two of them that both hold the share lock wait for each other to update
\* the row; the database rolls one back.
SyncInfoDeadlock(m) ==
    /\ m.checked
    /\ RowFree(m.to)
    /\ proj[m.to] # "none"
    /\ \E n \in archiveMsg \ {m} : n.to = m.to /\ n.checked
    /\ archiveMsg' = archiveMsg \ {m}
    /\ ArchiveAnswer(m, "error")
    /\ UNCHANGED <<rowVars, invite, join, admit, check, inviteMsg, replyMsg, memberMsg,
                   askMsg, used, histVars>>

\* SyncInfo with a new member from the creator, in the same two steps.
SyncMemberRead(m) ==
    /\ ~m.checked
    /\ memberMsg' = IF proj[m.to] = "live"
                      THEN (memberMsg \ {m}) \cup {[m EXCEPT !.checked = TRUE]}
                      ELSE memberMsg \ {m}
    /\ UNCHANGED <<rowVars, invite, join, admit, archive, check, inviteMsg, replyMsg,
                   archiveMsg, askMsg, used, histVars>>

SyncMemberAdd(m) ==
    /\ m.checked
    /\ RowFree(m.to)
    /\ members' = IF proj[m.to] # "none" THEN [members EXCEPT ![m.to] = @ \cup {m.member}]
                                         ELSE members
    /\ memberMsg' = memberMsg \ {m}
    /\ UNCHANGED <<proj, conf, sent, recv, invite, join, admit, archive, check, inviteMsg,
                   replyMsg, archiveMsg, askMsg, used, histVars>>

\* DeleteProject: an archived project goes with its members and invitations.
DeleteProject(p) ==
    /\ used.delete < MaxDeletes
    /\ proj[p] = "archived"
    /\ RowFree(p)
    /\ p = Creator => \A q \in Others : invite[q].pc # "calling"
    /\ proj' = [proj EXCEPT ![p] = "none"]
    /\ conf' = [conf EXCEPT ![p] = 0]
    /\ members' = [members EXCEPT ![p] = {}]
    /\ sent' = IF p = Creator THEN [q \in Others |-> NoInvitation] ELSE sent
    /\ recv' = IF p = Creator THEN recv ELSE [recv EXCEPT ![p] = NoReceived]
    /\ used' = [used EXCEPT !.delete = @ + 1]
    /\ UNCHANGED <<invite, join, admit, archive, check, msgVars, histVars>>

--------------------------------------------------------------------------------
(* CheckAndUpdateStatus with the creator.                                     *)

StatusOf(p) == [proj |-> proj[p], conf |-> conf[p], members |-> members[p]]

CheckAndUpdateStatus(q) ==
    /\ used.check < MaxChecks
    /\ check[q].pc = "idle"
    /\ proj[q] # "none"
    /\ check' = [check EXCEPT ![q].pc = "asking", ![q].local = StatusOf(q)]
    /\ askMsg' = askMsg \cup {[from |-> q, open |-> TRUE]}
    /\ used' = [used EXCEPT !.check = @ + 1]
    /\ UNCHANGED <<rowVars, invite, join, admit, archive, inviteMsg, replyMsg, archiveMsg,
                   memberMsg, histVars>>

\* AskInfo at the creator; without a project the caller gets an error.
AskInfo(m) ==
    /\ askMsg' = askMsg \ {m}
    /\ check' = IF ~m.open THEN check
                ELSE [check EXCEPT ![m.from] = IF proj[Creator] = "none" THEN IdleCheck
                        ELSE [@ EXCEPT !.pc = "update", !.remote = StatusOf(Creator)]]
    /\ UNCHANGED <<rowVars, invite, join, admit, archive, inviteMsg, replyMsg, archiveMsg,
                   memberMsg, used, histVars>>

\* Mutant: the flag is written whatever its value.
UpdateStatusBoth(q) ==
    LET l == check[q].local
        r == check[q].remote
        ok == SameSettings(l.conf, r.conf) /\ l.proj # r.proj /\ proj[q] # "none"
    IN /\ check[q].pc = "update"
       /\ RowFree(q)
       /\ proj' = IF ok THEN [proj EXCEPT ![q] = r.proj] ELSE proj
       /\ check' = [check EXCEPT ![q] = IdleCheck]
       /\ UNCHANGED <<conf, members, sent, recv, invite, join, admit, archive, msgVars, used,
                      histVars>>

\* updateStatus, unless the configurations are in conflict.  UpdateProject
\* writes the row as it was read and skips zero values: it can set archived
\* and not clear it.  It fails, and so does everything, when the row is gone;
\* so does a member's key that is there already.
UpdateStatus(q) ==
    LET l == check[q].local
        r == check[q].remote
        differs == l.proj # r.proj
        new == r.members \ l.members
        ok == /\ SameSettings(l.conf, r.conf)
              /\ differs => proj[q] # "none"
              /\ new \cap members[q] = {}
    IN /\ check[q].pc = "update"
       /\ differs => RowFree(q)
       /\ proj' = IF ok /\ differs /\ r.proj = "archived"
                    THEN [proj EXCEPT ![q] = "archived"] ELSE proj
       /\ conf' = IF ok /\ differs THEN [conf EXCEPT ![q] = l.conf] ELSE conf
       /\ members' = IF ok THEN [members EXCEPT ![q] = @ \cup new] ELSE members
       /\ check' = [check EXCEPT ![q] = IdleCheck]
       /\ UNCHANGED <<sent, recv, invite, join, admit, archive, msgVars, used,
                      histVars>>

CheckTimeout(q) ==
    /\ check[q].pc = "asking"
    /\ check' = [check EXCEPT ![q] = IdleCheck]
    /\ askMsg' = Late(askMsg, {m \in askMsg : m.from = q})
    /\ UNCHANGED <<rowVars, invite, join, admit, archive, inviteMsg, replyMsg, archiveMsg,
                   memberMsg, used, histVars>>

--------------------------------------------------------------------------------
\* A broker dies: its handlers are gone and their transactions rolled back.
Crash(p) ==
    /\ used.crash < MaxCrashes
    /\ used' = [used EXCEPT !.crash = @ + 1]
    /\ invite' = IF p = Creator THEN [q \in Others |-> IdleInvite] ELSE invite
    /\ admit' = IF p = Creator THEN NoAdmit ELSE
                IF admit.from = p THEN [admit EXCEPT !.open = FALSE] ELSE admit
    /\ lost' = lost
         \cup {q \in Others : /\ p = Creator /\ admit.from = q
                              /\ admit.pc = "commit" /\ admit.decision = "accepted"}
         \cup {q \in {Creator} : p = Creator /\ archive[p].pc = "spread"}
    /\ join' = IF p = Creator THEN join ELSE [join EXCEPT ![p] = IdleJoin]
    /\ check' = IF p = Creator THEN check ELSE [check EXCEPT ![p] = IdleCheck]
    /\ archive' = [archive EXCEPT ![p] = IdleArchive]
    /\ inviteMsg' = IF p = Creator THEN Late(inviteMsg, inviteMsg)
                    ELSE {m \in inviteMsg : ~(m.to = p /\ m.checked)}
    /\ replyMsg' = Late(replyMsg, {m \in replyMsg : m.from = p})
    /\ archiveMsg' = LET M == {m \in archiveMsg : ~(m.to = p /\ m.checked)}
                     IN Late(M, {m \in M : m.from = p})
    /\ memberMsg' = {m \in memberMsg : ~(m.to = p /\ m.checked)}
    /\ askMsg' = Late(askMsg, {m \in askMsg : m.from = p})
    /\ leaked' = leaked \ {p}
    /\ UNCHANGED <<rowVars, settings>>

Next ==
    \/ CreateProject
    \/ \E q \in Others :
         \/ InviteMember(q) \/ InviteSend(q) \/ InviteDone(q) \/ InviteTimeout(q)
         \/ \E r \in {"accept", "decline"} : ProcessInvitation(q, r)
         \/ ProcessInvitationDone(q) \/ JoinTimeout(q) \/ AddNewMembers(q)
         \/ CheckAndUpdateStatus(q) \/ UpdateStatus(q) \/ CheckTimeout(q)
    \/ \E m \in inviteMsg : InviteToProjectRead(m) \/ InviteToProjectWrite(m)
    \/ \E m \in replyMsg : ReplyInvitationBegin(m)
    \/ ReplyInvitationWrite \/ ReplyInvitationCommit
    \/ \E p \in Parties :
         \/ ArchiveProject(p) \/ ArchiveAllowed(p) \/ ArchiveLocal(p) \/ ArchiveCommit(p)
         \/ ArchiveTimeout(p) \/ DeleteProject(p) \/ Crash(p)
    \/ \E m \in archiveMsg : SyncInfoRead(m) \/ SyncInfoArchive(m) \/ SyncInfoDeadlock(m)
    \/ \E m \in memberMsg : SyncMemberRead(m) \/ SyncMemberAdd(m)
    \/ \E m \in askMsg : AskInfo(m)

Spec == Init /\ [][Next]_vars

\* The HTTP client's timeout ends every wait for another broker, and a
\* handler that does not wait goes on.  Nothing is assumed of the calls under
\* way: one that is never served is one that was lost.
Fairness ==
    /\ \A q \in Others :
         /\ WF_vars(InviteSend(q)) /\ WF_vars(InviteTimeout(q))
         /\ WF_vars(JoinTimeout(q)) /\ WF_vars(AddNewMembers(q))
         /\ WF_vars(CheckTimeout(q)) /\ WF_vars(UpdateStatus(q))
    /\ WF_vars(ReplyInvitationWrite) /\ WF_vars(ReplyInvitationCommit)
    /\ \A p \in Parties :
         WF_vars(ArchiveTimeout(p)) /\ WF_vars(ArchiveLocal(p)) /\ WF_vars(ArchiveCommit(p))

FairSpec == Spec /\ Fairness

--------------------------------------------------------------------------------
(* Properties.                                                                *)

Confs == 0 .. MaxCreates
Rows == {"none", "live", "archived"}
Numbers == 0 .. MaxInvites
Codes == {"none", "ok", "error", "inconsistent"}
Decisions == {"none", "undecided", "accepted", "declined", "invalid"}
Statuses == [proj : Rows, conf : Confs, members : SUBSET Parties]
SentInvitation == [no : Numbers, status : Decisions, conf : Confs]
ReceivedInvitation == [status : Decisions, conf : Confs, members : SUBSET Parties]
InviteState == [pc : {"idle", "read", "calling"}, no : Numbers, conf : Confs,
                members : SUBSET Parties, locks : Numbers, reply : Codes]
JoinState == [pc : {"idle", "calling", "extra"}, respond : {"accept", "decline"},
              reply : Codes, info : SUBSET Parties, extra : SUBSET Parties]
AdmitState == [pc : {"idle", "write", "commit"}, from : Parties, no : Numbers,
               decision : {"accepted", "declined", "invalid"}, open : BOOLEAN]
ArchiveState == [pc : {"idle", "creator", "local", "spread"}, conf : Confs, reply : Codes,
                 wait : SUBSET Parties]
CheckState == [pc : {"idle", "asking", "update"}, local : Statuses, remote : Statuses]
InviteCall == [to : Others, conf : Confs, members : SUBSET Parties, checked : BOOLEAN,
               open : BOOLEAN]
ReplyCall == [from : Others, respond : {"accept", "decline"}, open : BOOLEAN]
ArchiveCall == [from : Parties, to : Parties, checked : BOOLEAN, open : BOOLEAN]
MemberCall == [to : Others, member : Parties, checked : BOOLEAN]
AskCall == [from : Others, open : BOOLEAN]
Usage == [create : Confs, invite : Numbers, reply : 0 .. MaxReplies,
          archive : 0 .. MaxArchives, delete : 0 .. MaxDeletes, check : 0 .. MaxChecks,
          crash : 0 .. MaxCrashes]

\* Every variable keeps its type: the rows of every broker, the handlers and
\* the calls between them.
TypeOK ==
    /\ proj \in [Parties -> Rows]
    /\ conf \in [Parties -> Confs]
    /\ members \in [Parties -> SUBSET Parties]
    /\ sent \in [Others -> SentInvitation]
    /\ recv \in [Others -> ReceivedInvitation]
    /\ invite \in [Others -> InviteState]
    /\ join \in [Others -> JoinState]
    /\ admit \in AdmitState
    /\ archive \in [Parties -> ArchiveState]
    /\ check \in [Others -> CheckState]
    /\ inviteMsg \subseteq InviteCall
    /\ replyMsg \subseteq ReplyCall
    /\ archiveMsg \subseteq ArchiveCall
    /\ memberMsg \subseteq MemberCall
    /\ askMsg \subseteq AskCall
    /\ used \in Usage
    /\ settings \in [1 .. MaxCreates -> 1 .. MaxCreates]
    /\ lost \subseteq Parties
    /\ leaked \subseteq Others

\* A party that joined the project as it was last created is a member of it at
\* the creator, however replies are lost, repeated or late: ReplyInvitation
\* commits before ProcessInvitation does.  (One that kept an earlier project
\* of that name is none, and nothing in its rows says so if the settings are
\* the same.)
JoinedIsMember ==
    \A q \in Others :
        (proj[q] # "none" /\ proj[Creator] # "none" /\ conf[q] = used.create)
            => q \in members[Creator]

\* ReplyInvitation has told the members of one that it is about to admit.
Admitting == admit.pc = "commit" /\ admit.decision = "accepted"

\* While the project is created only once, nobody lists a member that the
\* creator does not have, except one whose admission is about to be committed
\* or was undone by a crash after the others were told.
MembersSound ==
    (MaxCreates = 1 /\ proj[Creator] # "none") =>
        \A q \in Others :
            members[q] \subseteq
                members[Creator] \cup lost \cup {x \in {admit.from} : Admitting}

\* While the project is created only once, a member's copy is archived only
\* if the creator's is, or the creator is about to commit it, or its broker
\* died before it could.
ArchivedByCreator ==
    MaxCreates = 1 =>
        \A q \in Others :
            (proj[q] = "archived" /\ proj[Creator] = "live")
                => (archive[Creator].pc = "spread" \/ Creator \in lost)

\* The creator's list of members does not change once its project is
\* archived: ReplyInvitation checks the flag under the lock it adds the
\* member with.
MembershipFrozen ==
    [][(proj[Creator] = "archived" /\ proj'[Creator] = "archived")
            => members'[Creator] = members[Creator]]_vars

\* An archived project is deleted and never opened again.
NeverUnarchived ==
    [][\A p \in Parties : proj[p] = "archived" => proj'[p] # "live"]_vars

\* Handlers of different brokers may wait for each other's locks in a
\* circle.  The timeouts break every circle: each handler ends.
HandlersEnd ==
    /\ \A q \in Others : []<>(invite[q].pc = "idle" /\ join[q].pc = "idle"
                               /\ check[q].pc = "idle")
    /\ \A p \in Parties : []<>(archive[p].pc = "idle")
    /\ []<>(admit.pc = "idle")

\* A deleted project leaves no member rows behind.
DeletedWithMembers ==
    \A p \in Parties : proj[p] = "none" => members[p] = {}

================================================================================
