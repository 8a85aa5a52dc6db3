-------------------------- MODULE BrokerProjectLocks ---------------------------
(***************************************************************************)
(* BrokerProject keeps its types, for any number of parties and any bounds.*)
(* What its row locks guarantee: an archived project is never opened again *)
(* and its list of members is frozen.  Also who waits for the answer to an *)
(* invitation.                                                             *)
(***************************************************************************)
EXTENDS BrokerProject, TLAPS

\* The records that stand for "nothing" have the types of their variables.
LEMMA IdleRecords ==
    /\ NoInvitation \in SentInvitation /\ NoReceived \in ReceivedInvitation
    /\ IdleInvite \in InviteState /\ IdleJoin \in JoinState
    /\ IdleArchive \in ArchiveState /\ IdleCheck \in CheckState
    /\ NoAdmit \in AdmitState
<1>0. 0 \in Confs /\ 0 \in Numbers /\ Creator \in Parties
  BY BrokerProjectAssumption DEF Confs, Numbers
<1>1. NoInvitation \in SentInvitation /\ NoReceived \in ReceivedInvitation
  BY <1>0 DEF NoInvitation, SentInvitation, NoReceived, ReceivedInvitation, Decisions
<1>2. IdleInvite \in InviteState
  BY <1>0 DEF IdleInvite, InviteState, Codes
<1>3. IdleJoin \in JoinState
  BY <1>0 DEF IdleJoin, JoinState, Codes
<1>4. IdleArchive \in ArchiveState
  BY <1>0 DEF IdleArchive, ArchiveState, Codes
<1>5. NoStatus \in Statuses
  BY <1>0 DEF NoStatus, Statuses, Rows
<1>6. IdleCheck \in CheckState
  BY <1>5 DEF IdleCheck, CheckState
<1>7. NoAdmit \in AdmitState
  BY <1>0 DEF NoAdmit, AdmitState
<1> QED
  BY <1>1, <1>2, <1>3, <1>4, <1>6, <1>7

\* Closing a call keeps its type.
LEMMA LateCalls ==
    ASSUME NEW M, NEW S \in SUBSET M
    PROVE  /\ M \subseteq InviteCall => Late(M, S) \subseteq InviteCall
           /\ M \subseteq ReplyCall => Late(M, S) \subseteq ReplyCall
           /\ M \subseteq ArchiveCall => Late(M, S) \subseteq ArchiveCall
           /\ M \subseteq AskCall => Late(M, S) \subseteq AskCall
<1>1. ASSUME M \subseteq InviteCall
      PROVE  Late(M, S) \subseteq InviteCall
  BY <1>1, Zenon DEF Late, InviteCall
<1>2. ASSUME M \subseteq ReplyCall
      PROVE  Late(M, S) \subseteq ReplyCall
  BY <1>2, Zenon DEF Late, ReplyCall
<1>3. ASSUME M \subseteq ArchiveCall
      PROVE  Late(M, S) \subseteq ArchiveCall
  BY <1>3, Zenon DEF Late, ArchiveCall
<1>4. ASSUME M \subseteq AskCall
      PROVE  Late(M, S) \subseteq AskCall
  BY <1>4, Zenon DEF Late, AskCall
<1> QED
  BY <1>1, <1>2, <1>3, <1>4

\* What remains of a step's type once the changed variables are dealt with.
RowsOK ==
    /\ proj \in [Parties -> Rows]
    /\ conf \in [Parties -> Confs]
    /\ members \in [Parties -> SUBSET Parties]
    /\ sent \in [Others -> SentInvitation]
    /\ recv \in [Others -> ReceivedInvitation]

HandlersOK ==
    /\ invite \in [Others -> InviteState]
    /\ join \in [Others -> JoinState]
    /\ admit \in AdmitState
    /\ archive \in [Parties -> ArchiveState]
    /\ check \in [Others -> CheckState]

CallsOK ==
    /\ inviteMsg \subseteq InviteCall
    /\ replyMsg \subseteq ReplyCall
    /\ archiveMsg \subseteq ArchiveCall
    /\ memberMsg \subseteq MemberCall
    /\ askMsg \subseteq AskCall

CountsOK ==
    /\ used \in Usage
    /\ settings \in [1 .. MaxCreates -> 1 .. MaxCreates]
    /\ lost \subseteq Parties
    /\ leaked \subseteq Others

\* TypeOK, taken apart.
LEMMA TypeParts == TypeOK <=> (RowsOK /\ HandlersOK /\ CallsOK /\ CountsOK)
  BY DEF TypeOK, RowsOK, HandlersOK, CallsOK, CountsOK

\* The counters of a step that one call more is made in.
LEMMA UsageStep ==
    ASSUME TypeOK
    PROVE  /\ used.create < MaxCreates => [used EXCEPT !.create = @ + 1] \in Usage
           /\ used.invite < MaxInvites => [used EXCEPT !.invite = @ + 1] \in Usage
           /\ used.reply < MaxReplies => [used EXCEPT !.reply = @ + 1] \in Usage
           /\ used.archive < MaxArchives => [used EXCEPT !.archive = @ + 1] \in Usage
           /\ used.delete < MaxDeletes => [used EXCEPT !.delete = @ + 1] \in Usage
           /\ used.check < MaxChecks => [used EXCEPT !.check = @ + 1] \in Usage
           /\ used.crash < MaxCrashes => [used EXCEPT !.crash = @ + 1] \in Usage
<1>1. used \in Usage
  BY DEF TypeOK
<1> USE BrokerProjectAssumption DEF Usage, Confs, Numbers
<1>2. used.create < MaxCreates => [used EXCEPT !.create = @ + 1] \in Usage
  BY <1>1
<1>3. used.invite < MaxInvites => [used EXCEPT !.invite = @ + 1] \in Usage
  BY <1>1
<1>4. used.reply < MaxReplies => [used EXCEPT !.reply = @ + 1] \in Usage
  BY <1>1
<1>5. used.archive < MaxArchives => [used EXCEPT !.archive = @ + 1] \in Usage
  BY <1>1
<1>6. used.delete < MaxDeletes => [used EXCEPT !.delete = @ + 1] \in Usage
  BY <1>1
<1>7. used.check < MaxChecks => [used EXCEPT !.check = @ + 1] \in Usage
  BY <1>1
<1>8. used.crash < MaxCrashes => [used EXCEPT !.crash = @ + 1] \in Usage
  BY <1>1
<1> QED
  BY <1>2, <1>3, <1>4, <1>5, <1>6, <1>7, <1>8

\* Every action on invitations keeps the types.
LEMMA TypeInvite ==
    ASSUME TypeOK, NEW q \in Others,
           InviteMember(q) \/ InviteSend(q) \/ InviteDone(q) \/ InviteTimeout(q)
    PROVE  TypeOK'
<1>0. /\ q \in Parties /\ Creator \in Parties /\ 0 \in Numbers
      /\ RowsOK /\ HandlersOK /\ CallsOK /\ CountsOK
  BY BrokerProjectAssumption, TypeParts DEF Others, Numbers
<1>1. CASE InviteMember(q)
  <2> DEFINE r == [IdleInvite EXCEPT !.pc = "read", !.no = used.invite + 1,
                     !.conf = conf[Creator], !.members = members[Creator]]
  <2>1. used.invite + 1 \in Numbers
    BY <1>0, <1>1, BrokerProjectAssumption DEF InviteMember, CountsOK, Usage, Numbers
  <2>2. r \in InviteState
    BY <1>0, <2>1, Zenon DEF InviteState, IdleInvite, RowsOK, Codes
  <2>3. invite' = [invite EXCEPT ![q] = r]
    BY <1>1 DEF InviteMember
  <2> HIDE DEF r
  <2>4. invite' \in [Others -> InviteState]
    BY <1>0, <2>2, <2>3 DEF HandlersOK
  <2>5. used' \in Usage
    BY <1>1, UsageStep DEF InviteMember
  <2>6. RowsOK' /\ HandlersOK' /\ CallsOK' /\ CountsOK'
    BY <1>0, <1>1, <2>4, <2>5 DEF InviteMember, rowVars, msgVars, histVars, RowsOK,
      HandlersOK, CallsOK, CountsOK
  <2> QED
    BY <2>6 DEF TypeOK, RowsOK, HandlersOK, CallsOK, CountsOK
<1>2. CASE InviteSend(q)
  <2> DEFINE l == IF sent[q].status = "undecided" THEN sent[q].no ELSE 0
             r == [invite[q] EXCEPT !.pc = "calling", !.locks = l]
             m == [to |-> q, conf |-> invite[q].conf, members |-> invite[q].members,
                   checked |-> FALSE, open |-> TRUE]
  <2>0. invite[q] \in InviteState /\ sent[q] \in SentInvitation
    BY <1>0 DEF HandlersOK, RowsOK
  <2>1. l \in Numbers
    BY <1>0, <2>0 DEF SentInvitation
  <2>2. r \in InviteState
    <3> HIDE DEF l
    <3> QED
      BY <2>0, <2>1, Zenon DEF InviteState
  <2>3. m \in InviteCall
    BY <2>0 DEF InviteState, InviteCall
  <2>4. invite' = [invite EXCEPT ![q] = r] /\ inviteMsg' = inviteMsg \cup {m}
    BY <1>2, <1>0, Zenon DEF InviteSend, HandlersOK
  <2> HIDE DEF r, m
  <2>5. invite' \in [Others -> InviteState] /\ inviteMsg' \subseteq InviteCall
    BY <1>0, <2>2, <2>3, <2>4 DEF HandlersOK, CallsOK
  <2>6. RowsOK' /\ HandlersOK' /\ CallsOK' /\ CountsOK'
    BY <1>0, <1>2, <2>5 DEF InviteSend, rowVars, histVars, RowsOK, HandlersOK, CallsOK,
      CountsOK
  <2> QED
    BY <2>6 DEF TypeOK, RowsOK, HandlersOK, CallsOK, CountsOK
<1>3. CASE InviteDone(q)
  <2> DEFINE r == [no |-> invite[q].no, status |-> "undecided", conf |-> invite[q].conf]
  <2>1. invite[q] \in InviteState
    BY <1>0 DEF HandlersOK
  <2>2. r \in SentInvitation
    BY <2>1 DEF InviteState, SentInvitation, Decisions
  <2>3. sent' = sent \/ sent' = [sent EXCEPT ![q] = r]
    BY <1>3 DEF InviteDone
  <2> HIDE DEF r
  <2>4. sent' \in [Others -> SentInvitation]
    BY <1>0, <2>2, <2>3 DEF RowsOK
  <2>5. invite' \in [Others -> InviteState]
    BY <1>0, <1>3, IdleRecords DEF InviteDone, HandlersOK
  <2>6. RowsOK' /\ HandlersOK' /\ CallsOK' /\ CountsOK'
    BY <1>0, <1>3, <2>4, <2>5 DEF InviteDone, msgVars, histVars, RowsOK, HandlersOK,
      CallsOK, CountsOK
  <2> QED
    BY <2>6 DEF TypeOK, RowsOK, HandlersOK, CallsOK, CountsOK
<1>4. CASE InviteTimeout(q)
  <2>1. invite' \in [Others -> InviteState]
    BY <1>0, <1>4, IdleRecords DEF InviteTimeout, HandlersOK
  <2>2. inviteMsg' \subseteq InviteCall
    <3> DEFINE S == {m \in inviteMsg : m.to = q}
    <3>1. S \in SUBSET inviteMsg /\ inviteMsg' = Late(inviteMsg, S)
      BY <1>4 DEF InviteTimeout
    <3> QED
      BY <1>0, <3>1, LateCalls DEF CallsOK
  <2>3. RowsOK' /\ HandlersOK' /\ CallsOK' /\ CountsOK'
    BY <1>0, <1>4, <2>1, <2>2 DEF InviteTimeout, rowVars, histVars, RowsOK, HandlersOK,
      CallsOK, CountsOK
  <2> QED
    BY <2>3 DEF TypeOK, RowsOK, HandlersOK, CallsOK, CountsOK
<1> QED
  BY <1>1, <1>2, <1>3, <1>4

\* An answer to InviteMember keeps the type of its state ...
LEMMA InviteAnswerType ==
    ASSUME TypeOK, NEW m \in inviteMsg, NEW code \in Codes, InviteAnswer(m, code)
    PROVE  invite' \in [Others -> InviteState]
<1>0. invite \in [Others -> InviteState] /\ inviteMsg \subseteq InviteCall
  BY DEF TypeOK
<1> DEFINE r == [invite[m.to] EXCEPT !.reply = code]
<1>1. m.to \in Others
  BY <1>0 DEF InviteCall
<1>2. invite[m.to] \in InviteState
  BY <1>0, <1>1
<1>3. r \in InviteState
  BY <1>2 DEF InviteState
<1>4. invite' = invite \/ invite' = [invite EXCEPT ![m.to] = r]
  BY <1>0 DEF InviteAnswer
<1> HIDE DEF r
<1> QED
  BY <1>0, <1>1, <1>3, <1>4

\* ... so does one to ProcessInvitation ...
LEMMA JoinAnswerType ==
    ASSUME TypeOK, NEW q, NEW open, NEW code \in Codes, NEW info \in SUBSET Parties,
           JoinAnswer(q, open, code, info)
    PROVE  join' \in [Others -> JoinState]
<1>0. join \in [Others -> JoinState]
  BY DEF TypeOK
<1> DEFINE r == [join[q] EXCEPT !.reply = code, !.info = info]
<1>1. q \in Others => r \in JoinState
  <2> SUFFICES ASSUME q \in Others
               PROVE  r \in JoinState
    OBVIOUS
  <2>1. join[q] \in JoinState
    BY <1>0
  <2> QED
    BY <2>1, Zenon DEF JoinState
<1>2. join' = join \/ join' = [join EXCEPT ![q] = r]
  BY <1>0, Zenon DEF JoinAnswer
<1> HIDE DEF r
<1> QED
  BY <1>0, <1>1, <1>2

\* ... and one to ArchiveProject.
LEMMA ArchiveAnswerType ==
    ASSUME TypeOK, NEW m \in archiveMsg, NEW code \in Codes, ArchiveAnswer(m, code)
    PROVE  archive' \in [Parties -> ArchiveState]
<1>0. archive \in [Parties -> ArchiveState] /\ archiveMsg \subseteq ArchiveCall
  BY DEF TypeOK
<1> DEFINE r == [archive[m.from] EXCEPT !.reply = code]
           s == [archive[m.from] EXCEPT !.wait = @ \ {m.to}]
<1>1. m.from \in Parties
  BY <1>0 DEF ArchiveCall
<1>2. archive[m.from] \in ArchiveState
  BY <1>0, <1>1
<1>3. r \in ArchiveState /\ s \in ArchiveState
  BY <1>2 DEF ArchiveState
<1>4. \/ archive' = archive
      \/ archive' = [archive EXCEPT ![m.from] = r]
      \/ archive' = [archive EXCEPT ![m.from] = s]
  BY <1>0 DEF ArchiveAnswer
<1> HIDE DEF r, s
<1> QED
  BY <1>0, <1>1, <1>3, <1>4

\* Every step of InviteToProject and ReplyInvitation keeps the types.
LEMMA TypeServe ==
    ASSUME TypeOK,
           \/ \E m \in inviteMsg : InviteToProjectRead(m) \/ InviteToProjectWrite(m)
           \/ \E m \in replyMsg : ReplyInvitationBegin(m)
           \/ ReplyInvitationWrite \/ ReplyInvitationCommit
    PROVE  TypeOK'
<1>0. /\ Creator \in Parties /\ {} \in SUBSET Parties
      /\ {"none", "ok", "error", "inconsistent"} = Codes
      /\ RowsOK /\ HandlersOK /\ CallsOK /\ CountsOK
  BY BrokerProjectAssumption, TypeParts DEF Codes
<1>1. ASSUME NEW m \in inviteMsg, InviteToProjectRead(m)
      PROVE  TypeOK'
  <2>1. m \in InviteCall /\ [m EXCEPT !.checked = TRUE] \in InviteCall
    BY <1>0, Zenon DEF CallsOK, InviteCall
  <2>2. inviteMsg' \subseteq InviteCall
    BY <1>0, <1>1, <2>1, Zenon DEF InviteToProjectRead, CallsOK
  <2>3. invite' = invite \/ InviteAnswer(m, "error")
    BY <1>1 DEF InviteToProjectRead
  <2>4. invite' \in [Others -> InviteState]
    BY <1>0, <2>3, InviteAnswerType DEF HandlersOK
  <2>5. RowsOK' /\ HandlersOK' /\ CallsOK' /\ CountsOK'
    BY <1>0, <1>1, <2>2, <2>4 DEF InviteToProjectRead, rowVars, histVars, RowsOK,
      HandlersOK, CallsOK, CountsOK
  <2> QED
    BY <2>5 DEF TypeOK, RowsOK, HandlersOK, CallsOK, CountsOK
<1>2. ASSUME NEW m \in inviteMsg, InviteToProjectWrite(m)
      PROVE  TypeOK'
  <2> DEFINE r == [status |-> "undecided", conf |-> m.conf, members |-> m.members]
  <2>1. m.to \in Others /\ r \in ReceivedInvitation
    BY <1>0, Zenon DEF CallsOK, InviteCall, ReceivedInvitation, Decisions
  <2>2. recv' = [recv EXCEPT ![m.to] = r]
    BY <1>2 DEF InviteToProjectWrite
  <2> HIDE DEF r
  <2>3. recv' \in [Others -> ReceivedInvitation]
    BY <1>0, <2>1, <2>2 DEF RowsOK
  <2>4. inviteMsg' \subseteq InviteCall
    BY <1>0, <1>2 DEF InviteToProjectWrite, CallsOK
  <2>5. invite' \in [Others -> InviteState]
    <3>1. InviteAnswer(m, "ok")
      BY <1>2 DEF InviteToProjectWrite
    <3> QED
      BY <1>0, <3>1, InviteAnswerType
  <2>6. RowsOK' /\ HandlersOK' /\ CallsOK' /\ CountsOK'
    BY <1>0, <1>2, <2>3, <2>4, <2>5 DEF InviteToProjectWrite, histVars, RowsOK, HandlersOK,
      CallsOK, CountsOK
  <2> QED
    BY <2>6 DEF TypeOK, RowsOK, HandlersOK, CallsOK, CountsOK
<1>3. ASSUME NEW m \in replyMsg, ReplyInvitationBegin(m)
      PROVE  TypeOK'
  <2> DEFINE d == IF m.respond = "decline" THEN "declined"
                  ELSE IF SameSettings(sent[m.from].conf, conf[Creator]) THEN "accepted" ELSE "invalid"
             r == [pc |-> "write", from |-> m.from, no |-> sent[m.from].no, open |-> m.open,
                   decision |-> d]
  <2>1. m.from \in Others /\ m.from \in Parties /\ m.open \in BOOLEAN
    BY <1>0 DEF CallsOK, ReplyCall, Others
  <2>2. sent[m.from].no \in Numbers
    BY <1>0, <2>1 DEF RowsOK, SentInvitation
  <2>3. r \in AdmitState
    BY <2>1, <2>2 DEF AdmitState
  <2>4. \/ admit' = r /\ join' = join
        \/ /\ admit' = admit
           /\ \/ JoinAnswer(m.from, m.open, "ok", {})
              \/ JoinAnswer(m.from, m.open, "error", {})
    BY <1>3 DEF ReplyInvitationBegin
  <2> HIDE DEF r
  <2>5. join' \in [Others -> JoinState] /\ admit' \in AdmitState
    BY <1>0, <2>3, <2>4, JoinAnswerType, ZenonT(30) DEF HandlersOK
  <2>6. replyMsg' \subseteq ReplyCall
    BY <1>0, <1>3, Zenon DEF ReplyInvitationBegin, CallsOK
  <2>7. RowsOK' /\ HandlersOK' /\ CallsOK' /\ CountsOK'
    BY <1>0, <1>3, <2>5, <2>6 DEF ReplyInvitationBegin, rowVars, histVars, RowsOK,
      HandlersOK, CallsOK, CountsOK
  <2> QED
    BY <2>7 DEF TypeOK, RowsOK, HandlersOK, CallsOK, CountsOK
<1>4. CASE ReplyInvitationWrite
  <2>0. admit \in AdmitState
    BY <1>0 DEF HandlersOK
  <2>1. admit' \in AdmitState
    BY <2>0, <1>4 DEF ReplyInvitationWrite, AdmitState
  <2>2. memberMsg' \subseteq MemberCall
    <3>1. admit.from \in Parties
      BY <2>0 DEF AdmitState
    <3>2. members[Creator] \ {Creator, admit.from} \subseteq Others
      BY <1>0 DEF RowsOK, Others
    <3>3. {[to |-> p, member |-> admit.from, checked |-> FALSE] :
             p \in members[Creator] \ {Creator, admit.from}} \subseteq MemberCall
      <4>1. ASSUME NEW p \in members[Creator] \ {Creator, admit.from}
            PROVE  [to |-> p, member |-> admit.from, checked |-> FALSE] \in MemberCall
        BY <3>1, <3>2 DEF MemberCall
      <4> QED
        BY <4>1
    <3> QED
      BY <1>0, <1>4, <3>3 DEF ReplyInvitationWrite, CallsOK
  <2>3. RowsOK' /\ HandlersOK' /\ CallsOK' /\ CountsOK'
    BY <1>0, <1>4, <2>1, <2>2 DEF ReplyInvitationWrite, rowVars, histVars, RowsOK,
      HandlersOK, CallsOK, CountsOK
  <2> QED
    BY <2>3 DEF TypeOK, RowsOK, HandlersOK, CallsOK, CountsOK
<1>5. CASE ReplyInvitationCommit
  <2> DEFINE q == admit.from
             now == IF admit.decision = "accepted" THEN members[Creator] \cup {q}
                                                   ELSE members[Creator]
             r == [sent[q] EXCEPT !.status = admit.decision]
  <2>0. admit.from \in Parties /\ admit.decision \in Decisions
    BY <1>0 DEF HandlersOK, AdmitState, Decisions
  <2>1. now \in SUBSET Parties
    BY <1>0, <2>0 DEF RowsOK
  <2>2. members' \in [Parties -> SUBSET Parties]
    <3>1. members' = [members EXCEPT ![Creator] = now]
      BY <1>5 DEF ReplyInvitationCommit
    <3> HIDE DEF now
    <3> QED
      BY <1>0, <2>1, <3>1 DEF RowsOK
  <2>3. sent' \in [Others -> SentInvitation]
    <3>1. q \in Others => r \in SentInvitation
      <4>1. q \in Others => sent[q] \in SentInvitation
        BY <1>0 DEF RowsOK
      <4> QED
        BY <2>0, <4>1 DEF SentInvitation
    <3>2. sent' = sent \/ sent' = [sent EXCEPT ![q] = r]
      BY <1>0, <1>5 DEF ReplyInvitationCommit, RowsOK
    <3> HIDE DEF r
    <3> QED
      BY <1>0, <3>1, <3>2 DEF RowsOK
  <2>4. join' \in [Others -> JoinState]
    <3>1. \/ JoinAnswer(q, admit.open, "inconsistent", {})
          \/ JoinAnswer(q, admit.open, "ok", now)
      BY <1>5 DEF ReplyInvitationCommit
    <3> HIDE DEF now
    <3> QED
      BY <1>0, <2>1, <3>1, JoinAnswerType
  <2>5. admit' \in AdmitState
    BY <1>5, IdleRecords DEF ReplyInvitationCommit
  <2> HIDE DEF q, now, r
  <2>6. RowsOK' /\ HandlersOK' /\ CallsOK' /\ CountsOK'
    BY <1>0, <1>5, <2>2, <2>3, <2>4, <2>5 DEF ReplyInvitationCommit, msgVars, histVars,
      RowsOK, HandlersOK, CallsOK, CountsOK
  <2> QED
    BY <2>6 DEF TypeOK, RowsOK, HandlersOK, CallsOK, CountsOK
<1> QED
  BY <1>1, <1>2, <1>3, <1>4, <1>5

\* Every step of ProcessInvitation keeps the types.
LEMMA TypeJoin ==
    ASSUME TypeOK, NEW q \in Others,
           \/ \E r \in {"accept", "decline"} : ProcessInvitation(q, r)
           \/ ProcessInvitationDone(q) \/ JoinTimeout(q) \/ AddNewMembers(q)
    PROVE  TypeOK'
<1>0. /\ q \in Parties /\ Creator \in Parties
      /\ RowsOK /\ HandlersOK /\ CallsOK /\ CountsOK
  BY BrokerProjectAssumption, TypeParts DEF Others
<1>j. join[q] \in JoinState /\ recv[q] \in ReceivedInvitation
  BY <1>0 DEF HandlersOK, RowsOK
<1>1. ASSUME NEW r \in {"accept", "decline"}, ProcessInvitation(q, r)
      PROVE  TypeOK'
  <2> DEFINE n == [IdleJoin EXCEPT !.pc = "calling", !.respond = r]
             m == [from |-> q, respond |-> r, open |-> TRUE]
  <2>1. n \in JoinState
    BY IdleRecords, Zenon DEF JoinState
  <2>2. m \in ReplyCall
    BY DEF ReplyCall
  <2>3. join' = [join EXCEPT ![q] = n] /\ replyMsg' = replyMsg \cup {m}
    BY <1>1 DEF ProcessInvitation
  <2> HIDE DEF n, m
  <2>4. join' \in [Others -> JoinState] /\ replyMsg' \subseteq ReplyCall
    BY <1>0, <2>1, <2>2, <2>3 DEF HandlersOK, CallsOK
  <2>5. used' \in Usage
    BY <1>1, UsageStep DEF ProcessInvitation
  <2>6. RowsOK' /\ HandlersOK' /\ CallsOK' /\ CountsOK'
    BY <1>0, <1>1, <2>4, <2>5 DEF ProcessInvitation, rowVars, histVars, RowsOK,
      HandlersOK, CallsOK, CountsOK
  <2> QED
    BY <2>6 DEF TypeOK, RowsOK, HandlersOK, CallsOK, CountsOK
<1>2. CASE ProcessInvitationDone(q)
  <2> DEFINE j == join[q]
             known == IF j.respond = "accept" THEN recv[q].members \cup {Creator, q}
                                              ELSE {Creator, q}
             extra == IF j.reply = "ok" THEN j.info \ known ELSE {}
             r == [IdleJoin EXCEPT !.pc = "extra", !.extra = extra]
  <2>1. known \in SUBSET Parties
    BY <1>0, <1>j DEF ReceivedInvitation
  <2>2. extra \in SUBSET Parties
    <3> HIDE DEF known
    <3> QED
      BY <1>j DEF JoinState
  <2>3. r \in JoinState
    <3> HIDE DEF extra
    <3> QED
      BY <2>2, IdleRecords, Zenon DEF JoinState
  <2>4. join' \in [Others -> JoinState]
    <3>1. join' = [join EXCEPT ![q] = IdleJoin] \/ join' = [join EXCEPT ![q] = r]
      BY <1>2, Zenon DEF ProcessInvitationDone
    <3> HIDE DEF r
    <3> QED
      BY <1>0, <2>3, <3>1, IdleRecords DEF HandlersOK
  <2>5. members' \in [Parties -> SUBSET Parties]
    <3>1. members' = members \/ members' = [members EXCEPT ![q] = @ \cup known]
      BY <1>2 DEF ProcessInvitationDone
    <3> HIDE DEF known
    <3> QED
      BY <1>0, <2>1, <3>1 DEF RowsOK
  <2>6. proj' \in [Parties -> Rows]
    <3>1. proj' = proj \/ proj' = [proj EXCEPT ![q] = "live"]
      BY <1>2 DEF ProcessInvitationDone
    <3> QED
      BY <1>0, <3>1 DEF RowsOK, Rows
  <2>7. conf' \in [Parties -> Confs]
    <3>1. conf' = conf \/ conf' = [conf EXCEPT ![q] = recv[q].conf]
      BY <1>2 DEF ProcessInvitationDone
    <3>2. recv[q].conf \in Confs
      BY <1>j DEF ReceivedInvitation
    <3> QED
      BY <1>0, <3>1, <3>2 DEF RowsOK
  <2>8. recv' \in [Others -> ReceivedInvitation]
    <3> DEFINE c == CASE j.reply = "ok" /\ j.respond = "accept" -> "accepted"
                      [] j.reply = "ok" /\ ~(j.reply = "ok" /\ j.respond = "accept") -> "declined"
                      [] j.reply = "inconsistent" -> "invalid"
                      [] OTHER -> recv[q].status
               n == [recv[q] EXCEPT !.status = c]
    <3>1. c \in Decisions
      BY <1>j DEF ReceivedInvitation, Decisions
    <3>2. n \in ReceivedInvitation
      <4> HIDE DEF c
      <4> QED
        BY <1>j, <3>1 DEF ReceivedInvitation
    <3>3. recv' = [recv EXCEPT ![q] = n]
      BY <1>0, <1>2 DEF ProcessInvitationDone, RowsOK
    <3> HIDE DEF n
    <3> QED
      BY <1>0, <3>2, <3>3 DEF RowsOK
  <2> HIDE DEF j, known, extra, r
  <2>9. RowsOK' /\ HandlersOK' /\ CallsOK' /\ CountsOK'
    BY <1>0, <1>2, <2>4, <2>5, <2>6, <2>7, <2>8 DEF ProcessInvitationDone, msgVars,
      histVars, RowsOK, HandlersOK, CallsOK, CountsOK
  <2> QED
    BY <2>9 DEF TypeOK, RowsOK, HandlersOK, CallsOK, CountsOK
<1>3. CASE JoinTimeout(q)
  <2>1. join' \in [Others -> JoinState]
    BY <1>0, <1>3, IdleRecords DEF JoinTimeout, HandlersOK
  <2>2. replyMsg' \subseteq ReplyCall
    <3> DEFINE S == {m \in replyMsg : m.from = q}
    <3>1. S \in SUBSET replyMsg /\ replyMsg' = Late(replyMsg, S)
      BY <1>3 DEF JoinTimeout
    <3> QED
      BY <1>0, <3>1, LateCalls DEF CallsOK
  <2>3. admit' \in AdmitState
    <3>1. admit \in AdmitState
      BY <1>0 DEF HandlersOK
    <3>2. admit' = admit \/ admit' = [admit EXCEPT !.open = FALSE]
      BY <1>3 DEF JoinTimeout
    <3> QED
      BY <3>1, <3>2, Zenon DEF AdmitState
  <2>4. RowsOK' /\ HandlersOK' /\ CallsOK' /\ CountsOK'
    BY <1>0, <1>3, <2>1, <2>2, <2>3, Zenon DEF JoinTimeout, rowVars, histVars, RowsOK,
      HandlersOK, CallsOK, CountsOK
  <2> QED
    BY <2>4 DEF TypeOK, RowsOK, HandlersOK, CallsOK, CountsOK
<1>4. CASE AddNewMembers(q)
  <2>1. join' \in [Others -> JoinState]
    BY <1>0, <1>4, IdleRecords, Zenon DEF AddNewMembers, HandlersOK
  <2>2. members' \in [Parties -> SUBSET Parties]
    <3>1. join[q].extra \in SUBSET Parties
      BY <1>j, Zenon DEF JoinState
    <3>2. members' = members \/ members' = [members EXCEPT ![q] = @ \cup join[q].extra]
      BY <1>4 DEF AddNewMembers
    <3> QED
      BY <1>0, <3>1, <3>2 DEF RowsOK
  <2>3. leaked' \subseteq Others
    BY <1>0, <1>4, Zenon DEF AddNewMembers, CountsOK
  <2>4. RowsOK' /\ HandlersOK' /\ CallsOK' /\ CountsOK'
    BY <1>0, <1>4, <2>1, <2>2, <2>3, Zenon DEF AddNewMembers, msgVars, RowsOK, HandlersOK,
      CallsOK, CountsOK
  <2> QED
    BY <2>4 DEF TypeOK, RowsOK, HandlersOK, CallsOK, CountsOK
<1> QED
  BY <1>1, <1>2, <1>3, <1>4

\* Every step of ArchiveProject keeps the types.
LEMMA TypeArchive ==
    ASSUME TypeOK, NEW p \in Parties,
           \/ ArchiveProject(p) \/ ArchiveAllowed(p) \/ ArchiveLocal(p)
           \/ ArchiveCommit(p) \/ ArchiveTimeout(p)
    PROVE  TypeOK'
<1>0. /\ Creator \in Parties
      /\ RowsOK /\ HandlersOK /\ CallsOK /\ CountsOK
  BY BrokerProjectAssumption, TypeParts
<1>a. archive[p] \in ArchiveState /\ conf[p] \in Confs
  BY <1>0 DEF HandlersOK, RowsOK
<1>1. CASE ArchiveProject(p)
  <2> DEFINE r == [IdleArchive EXCEPT !.conf = conf[p],
                     !.pc = IF p = Creator THEN "local" ELSE "creator"]
             m == [from |-> p, to |-> Creator, checked |-> FALSE, open |-> TRUE]
  <2>1. r \in ArchiveState
    BY <1>a, IdleRecords, Zenon DEF ArchiveState
  <2>2. m \in ArchiveCall
    BY <1>0 DEF ArchiveCall
  <2>3. /\ archive' = [archive EXCEPT ![p] = r]
        /\ archiveMsg' = archiveMsg \/ archiveMsg' = archiveMsg \cup {m}
    BY <1>1 DEF ArchiveProject
  <2> HIDE DEF r, m
  <2>4. archive' \in [Parties -> ArchiveState] /\ archiveMsg' \subseteq ArchiveCall
    BY <1>0, <2>1, <2>2, <2>3 DEF HandlersOK, CallsOK
  <2>5. used' \in Usage
    BY <1>1, UsageStep DEF ArchiveProject
  <2>6. RowsOK' /\ HandlersOK' /\ CallsOK' /\ CountsOK'
    BY <1>0, <1>1, <2>4, <2>5 DEF ArchiveProject, rowVars, histVars, RowsOK, HandlersOK,
      CallsOK, CountsOK
  <2> QED
    BY <2>6 DEF TypeOK, RowsOK, HandlersOK, CallsOK, CountsOK
<1>2. CASE ArchiveAllowed(p)
  <2> DEFINE r == [archive[p] EXCEPT !.pc = "local"]
  <2>1. r \in ArchiveState
    BY <1>a DEF ArchiveState
  <2>2. archive' = [archive EXCEPT ![p] = r] \/ archive' = [archive EXCEPT ![p] = IdleArchive]
    BY <1>0, <1>2, Zenon DEF ArchiveAllowed, HandlersOK
  <2> HIDE DEF r
  <2>3. archive' \in [Parties -> ArchiveState]
    BY <1>0, <2>1, <2>2, IdleRecords DEF HandlersOK
  <2>4. RowsOK' /\ HandlersOK' /\ CallsOK' /\ CountsOK'
    BY <1>0, <1>2, <2>3 DEF ArchiveAllowed, rowVars, msgVars, histVars, RowsOK,
      HandlersOK, CallsOK, CountsOK
  <2> QED
    BY <2>4 DEF TypeOK, RowsOK, HandlersOK, CallsOK, CountsOK
<1>3. CASE ArchiveLocal(p)
  <2> DEFINE others == members[p] \ {p, Creator}
             r == [archive[p] EXCEPT !.pc = "spread", !.wait = others]
             M == {[from |-> p, to |-> t, checked |-> FALSE, open |-> TRUE] : t \in others}
  <2>1. others \in SUBSET Parties
    BY <1>0 DEF RowsOK
  <2>2. r \in ArchiveState
    <3> HIDE DEF others
    <3> QED
      BY <1>a, <2>1, Zenon DEF ArchiveState
  <2>3. M \subseteq ArchiveCall
    <3>1. ASSUME NEW t \in others
          PROVE  [from |-> p, to |-> t, checked |-> FALSE, open |-> TRUE] \in ArchiveCall
      BY <2>1 DEF ArchiveCall
    <3> QED
      BY <3>1, Zenon
  <2>4. \/ archive' = [archive EXCEPT ![p] = IdleArchive] /\ archiveMsg' = archiveMsg
        \/ archive' = [archive EXCEPT ![p] = r] /\ archiveMsg' = archiveMsg \cup M
    BY <1>0, <1>3, Zenon DEF ArchiveLocal, HandlersOK
  <2> HIDE DEF r, M
  <2>5. archive' \in [Parties -> ArchiveState] /\ archiveMsg' \subseteq ArchiveCall
    BY <1>0, <2>2, <2>3, <2>4, IdleRecords DEF HandlersOK, CallsOK
  <2>6. RowsOK' /\ HandlersOK' /\ CallsOK' /\ CountsOK'
    BY <1>0, <1>3, <2>5 DEF ArchiveLocal, rowVars, histVars, RowsOK, HandlersOK, CallsOK,
      CountsOK
  <2> QED
    BY <2>6 DEF TypeOK, RowsOK, HandlersOK, CallsOK, CountsOK
<1>4. CASE ArchiveCommit(p)
  <2>1. proj' \in [Parties -> Rows]
    BY <1>0, <1>4 DEF ArchiveCommit, RowsOK, Rows
  <2>2. conf' \in [Parties -> Confs]
    <3>1. archive[p].conf \in Confs
      BY <1>a DEF ArchiveState
    <3> QED
      BY <1>0, <1>4, <3>1 DEF ArchiveCommit, RowsOK
  <2>3. archive' \in [Parties -> ArchiveState]
    BY <1>0, <1>4, IdleRecords, Zenon DEF ArchiveCommit, HandlersOK
  <2>4. RowsOK' /\ HandlersOK' /\ CallsOK' /\ CountsOK'
    BY <1>0, <1>4, <2>1, <2>2, <2>3 DEF ArchiveCommit, msgVars, histVars, RowsOK,
      HandlersOK, CallsOK, CountsOK
  <2> QED
    BY <2>4 DEF TypeOK, RowsOK, HandlersOK, CallsOK, CountsOK
<1>5. CASE ArchiveTimeout(p)
  <2>1. archive' \in [Parties -> ArchiveState]
    <3>1. CASE archive' = [archive EXCEPT ![p] = IdleArchive]
      BY <1>0, <3>1, IdleRecords DEF HandlersOK
    <3>2. ASSUME NEW t, archive' = [archive EXCEPT ![p].wait = @ \ {t}]
          PROVE  archive' \in [Parties -> ArchiveState]
      <4> DEFINE r == [archive[p] EXCEPT !.wait = @ \ {t}]
      <4>1. r \in ArchiveState
        BY <1>a DEF ArchiveState
      <4>2. archive' = [archive EXCEPT ![p] = r]
        BY <1>0, <3>2 DEF HandlersOK
      <4> HIDE DEF r
      <4> QED
        BY <1>0, <4>1, <4>2 DEF HandlersOK
    <3> QED
      BY <1>5, <3>1, <3>2, Zenon DEF ArchiveTimeout
  <2>2. \E S \in SUBSET archiveMsg : archiveMsg' = Late(archiveMsg, S)
    BY <1>5, Zenon DEF ArchiveTimeout
  <2>3. archiveMsg' \subseteq ArchiveCall
    BY <1>0, <2>2, LateCalls DEF CallsOK
  <2>4. RowsOK' /\ HandlersOK' /\ CallsOK' /\ CountsOK'
    BY <1>0, <1>5, <2>1, <2>3 DEF ArchiveTimeout, rowVars, histVars, RowsOK, HandlersOK,
      CallsOK, CountsOK
  <2> QED
    BY <2>4 DEF TypeOK, RowsOK, HandlersOK, CallsOK, CountsOK
<1> QED
  BY <1>1, <1>2, <1>3, <1>4, <1>5

\* Every step of SyncInfo keeps the types.
LEMMA TypeSync ==
    ASSUME TypeOK,
           \/ \E m \in archiveMsg : SyncInfoRead(m) \/ SyncInfoArchive(m) \/ SyncInfoDeadlock(m)
           \/ \E m \in memberMsg : SyncMemberRead(m) \/ SyncMemberAdd(m)
    PROVE  TypeOK'
<1>0. /\ {"none", "ok", "error", "inconsistent"} = Codes
      /\ RowsOK /\ HandlersOK /\ CallsOK /\ CountsOK
  BY TypeParts DEF Codes
<1>1. ASSUME NEW m \in archiveMsg,
             SyncInfoRead(m) \/ SyncInfoArchive(m) \/ SyncInfoDeadlock(m)
      PROVE  TypeOK'
  <2>0. m \in ArchiveCall /\ m.to \in Parties /\ [m EXCEPT !.checked = TRUE] \in ArchiveCall
    BY <1>0, Zenon DEF CallsOK, ArchiveCall
  <2>1. archiveMsg' \subseteq ArchiveCall
    BY <1>0, <1>1, <2>0, Zenon DEF SyncInfoRead, SyncInfoArchive, SyncInfoDeadlock, CallsOK
  <2>2. archive' = archive \/ ArchiveAnswer(m, "ok") \/ ArchiveAnswer(m, "error")
    BY <1>1 DEF SyncInfoRead, SyncInfoArchive, SyncInfoDeadlock
  <2>3. archive' \in [Parties -> ArchiveState]
    BY <1>0, <2>2, ArchiveAnswerType DEF HandlersOK
  <2>4. proj' = proj \/ proj' = [proj EXCEPT ![m.to] = "archived"]
    BY <1>1 DEF SyncInfoRead, SyncInfoArchive, SyncInfoDeadlock, rowVars
  <2>5. proj' \in [Parties -> Rows]
    BY <1>0, <2>0, <2>4 DEF RowsOK, Rows
  <2>6. RowsOK' /\ HandlersOK' /\ CallsOK' /\ CountsOK'
    BY <1>0, <1>1, <2>1, <2>3, <2>5 DEF SyncInfoRead, SyncInfoArchive, SyncInfoDeadlock,
      rowVars, histVars, RowsOK, HandlersOK, CallsOK, CountsOK
  <2> QED
    BY <2>6 DEF TypeOK, RowsOK, HandlersOK, CallsOK, CountsOK
<1>2. ASSUME NEW m \in memberMsg, SyncMemberRead(m) \/ SyncMemberAdd(m)
      PROVE  TypeOK'
  <2>0. /\ m \in MemberCall /\ m.to \in Parties /\ m.member \in Parties
        /\ [m EXCEPT !.checked = TRUE] \in MemberCall
    BY <1>0, Zenon DEF CallsOK, MemberCall, Others
  <2>1. memberMsg' \subseteq MemberCall
    BY <1>0, <1>2, <2>0, Zenon DEF SyncMemberRead, SyncMemberAdd, CallsOK
  <2>2. members' = members \/ members' = [members EXCEPT ![m.to] = @ \cup {m.member}]
    BY <1>2 DEF SyncMemberRead, SyncMemberAdd, rowVars
  <2>3. members' \in [Parties -> SUBSET Parties]
    BY <1>0, <2>0, <2>2 DEF RowsOK
  <2>4. RowsOK' /\ HandlersOK' /\ CallsOK' /\ CountsOK'
    BY <1>0, <1>2, <2>1, <2>3 DEF SyncMemberRead, SyncMemberAdd, rowVars, histVars,
      RowsOK, HandlersOK, CallsOK, CountsOK
  <2> QED
    BY <2>4 DEF TypeOK, RowsOK, HandlersOK, CallsOK, CountsOK
<1> QED
  BY <1>1, <1>2

\* Creating and deleting the project keeps the types.
LEMMA TypeCreateDelete ==
    ASSUME TypeOK, CreateProject \/ \E p \in Parties : DeleteProject(p)
    PROVE  TypeOK'
<1>0. /\ Creator \in Parties /\ 0 \in Confs
      /\ RowsOK /\ HandlersOK /\ CallsOK /\ CountsOK
  BY BrokerProjectAssumption, TypeParts DEF Confs
<1>1. CASE CreateProject
  <2>1. used.create + 1 \in Confs
    BY <1>0, <1>1, BrokerProjectAssumption DEF CreateProject, CountsOK, Usage, Confs
  <2>2. proj' \in [Parties -> Rows]
    BY <1>0, <1>1 DEF CreateProject, RowsOK, Rows
  <2>3. conf' \in [Parties -> Confs]
    BY <1>0, <1>1, <2>1 DEF CreateProject, RowsOK
  <2>4. members' \in [Parties -> SUBSET Parties]
    BY <1>0, <1>1 DEF CreateProject, RowsOK
  <2>5. used' \in Usage
    BY <1>1, UsageStep DEF CreateProject
  <2>6. settings' \in [1 .. MaxCreates -> 1 .. MaxCreates]
    <3>1. PICK s \in 1 .. used.create + 1 : settings' = [settings EXCEPT ![used.create + 1] = s]
      BY <1>1 DEF CreateProject
    <3>2. s \in 1 .. MaxCreates
      BY <1>0, <1>1, BrokerProjectAssumption DEF CreateProject, CountsOK, Usage, Confs
    <3> QED
      BY <1>0, <3>1, <3>2 DEF CountsOK
  <2>7. RowsOK' /\ HandlersOK' /\ CallsOK' /\ CountsOK'
    BY <1>0, <1>1, <2>2, <2>3, <2>4, <2>5, <2>6 DEF CreateProject, msgVars, RowsOK,
      HandlersOK, CallsOK, CountsOK
  <2> QED
    BY <2>7 DEF TypeOK, RowsOK, HandlersOK, CallsOK, CountsOK
<1>2. ASSUME NEW p \in Parties, DeleteProject(p)
      PROVE  TypeOK'
  <2>1. proj' \in [Parties -> Rows]
    BY <1>0, <1>2 DEF DeleteProject, RowsOK, Rows
  <2>2. conf' \in [Parties -> Confs]
    BY <1>0, <1>2 DEF DeleteProject, RowsOK
  <2>3. members' \in [Parties -> SUBSET Parties]
    BY <1>0, <1>2 DEF DeleteProject, RowsOK
  <2>4. sent' \in [Others -> SentInvitation]
    BY <1>0, <1>2, IdleRecords DEF DeleteProject, RowsOK
  <2>5. recv' \in [Others -> ReceivedInvitation]
    BY <1>0, <1>2, IdleRecords, Zenon DEF DeleteProject, RowsOK
  <2>6. used' \in Usage
    BY <1>2, UsageStep DEF DeleteProject
  <2>7. RowsOK' /\ HandlersOK' /\ CallsOK' /\ CountsOK'
    BY <1>0, <1>2, <2>1, <2>2, <2>3, <2>4, <2>5, <2>6 DEF DeleteProject, msgVars,
      histVars, RowsOK, HandlersOK, CallsOK, CountsOK
  <2> QED
    BY <2>7 DEF TypeOK, RowsOK, HandlersOK, CallsOK, CountsOK
<1> QED
  BY <1>1, <1>2

\* Every step of CheckAndUpdateStatus keeps the types.
LEMMA TypeCheck ==
    ASSUME TypeOK,
           \/ \E q \in Others : CheckAndUpdateStatus(q) \/ UpdateStatus(q) \/ CheckTimeout(q)
           \/ \E m \in askMsg : AskInfo(m)
    PROVE  TypeOK'
<1>0. /\ Creator \in Parties /\ Others \subseteq Parties
      /\ RowsOK /\ HandlersOK /\ CallsOK /\ CountsOK
  BY BrokerProjectAssumption, TypeParts DEF Others
<1>s. \A p \in Parties : StatusOf(p) \in Statuses
  BY <1>0 DEF StatusOf, Statuses, RowsOK
<1>1. ASSUME NEW q \in Others, CheckAndUpdateStatus(q)
      PROVE  TypeOK'
  <2> DEFINE r == [check[q] EXCEPT !.pc = "asking", !.local = StatusOf(q)]
             m == [from |-> q, open |-> TRUE]
  <2>1. check[q] \in CheckState /\ StatusOf(q) \in Statuses
    BY <1>0, <1>s DEF HandlersOK
  <2>2. r \in CheckState
    BY <2>1, Zenon DEF CheckState
  <2>3. m \in AskCall
    BY DEF AskCall
  <2>4. check' = [check EXCEPT ![q] = r] /\ askMsg' = askMsg \cup {m}
    BY <1>0, <1>1, Zenon DEF CheckAndUpdateStatus, HandlersOK
  <2> HIDE DEF r, m
  <2>5. check' \in [Others -> CheckState] /\ askMsg' \subseteq AskCall
    BY <1>0, <2>2, <2>3, <2>4 DEF HandlersOK, CallsOK
  <2>6. used' \in Usage
    BY <1>1, UsageStep DEF CheckAndUpdateStatus
  <2>7. RowsOK' /\ HandlersOK' /\ CallsOK' /\ CountsOK'
    BY <1>0, <1>1, <2>5, <2>6 DEF CheckAndUpdateStatus, rowVars, histVars, RowsOK,
      HandlersOK, CallsOK, CountsOK
  <2> QED
    BY <2>7 DEF TypeOK, RowsOK, HandlersOK, CallsOK, CountsOK
<1>2. ASSUME NEW q \in Others, UpdateStatus(q)
      PROVE  TypeOK'
  <2> DEFINE l == check[q].local
             new == check[q].remote.members \ l.members
  <2>0. q \in Parties /\ check[q] \in CheckState
    BY <1>0, Zenon DEF HandlersOK
  <2>1. l.conf \in Confs /\ new \in SUBSET Parties
    BY <2>0, SMTT(20) DEF CheckState, Statuses
  <2>2. /\ proj' = proj \/ proj' = [proj EXCEPT ![q] = "archived"]
        /\ conf' = conf \/ conf' = [conf EXCEPT ![q] = l.conf]
        /\ members' = members \/ members' = [members EXCEPT ![q] = @ \cup new]
    BY <1>2, Zenon DEF UpdateStatus
  <2> HIDE DEF l, new
  <2>3. proj' \in [Parties -> Rows]
    BY <1>0, <2>0, <2>2 DEF RowsOK, Rows
  <2>4. conf' \in [Parties -> Confs]
    BY <1>0, <2>0, <2>1, <2>2 DEF RowsOK
  <2>5. members' \in [Parties -> SUBSET Parties]
    BY <1>0, <2>0, <2>1, <2>2, SMTT(20) DEF RowsOK
  <2>6. check' \in [Others -> CheckState]
    BY <1>0, <1>2, IdleRecords, Zenon DEF UpdateStatus, HandlersOK
  <2>7. RowsOK' /\ HandlersOK' /\ CallsOK' /\ CountsOK'
    BY <1>0, <1>2, <2>3, <2>4, <2>5, <2>6, Zenon DEF UpdateStatus, msgVars, histVars, RowsOK,
      HandlersOK, CallsOK, CountsOK
  <2> QED
    BY <2>7 DEF TypeOK, RowsOK, HandlersOK, CallsOK, CountsOK
<1>3. ASSUME NEW q \in Others, CheckTimeout(q)
      PROVE  TypeOK'
  <2>1. check' \in [Others -> CheckState]
    BY <1>0, <1>3, IdleRecords DEF CheckTimeout, HandlersOK
  <2>2. askMsg' \subseteq AskCall
    <3> DEFINE S == {m \in askMsg : m.from = q}
    <3>1. S \in SUBSET askMsg /\ askMsg' = Late(askMsg, S)
      BY <1>3, SMTT(20) DEF CheckTimeout
    <3> QED
      BY <1>0, <3>1, LateCalls DEF CallsOK
  <2>3. RowsOK' /\ HandlersOK' /\ CallsOK' /\ CountsOK'
    BY <1>0, <1>3, <2>1, <2>2 DEF CheckTimeout, rowVars, histVars, RowsOK, HandlersOK,
      CallsOK, CountsOK
  <2> QED
    BY <2>3 DEF TypeOK, RowsOK, HandlersOK, CallsOK, CountsOK
<1>4. ASSUME NEW m \in askMsg, AskInfo(m)
      PROVE  TypeOK'
  <2> DEFINE r == [check[m.from] EXCEPT !.pc = "update", !.remote = StatusOf(Creator)]
  <2>0. m.from \in Others
    BY <1>0 DEF CallsOK, AskCall
  <2>1. check[m.from] \in CheckState /\ StatusOf(Creator) \in Statuses
    BY <1>0, <1>s, <2>0 DEF HandlersOK
  <2>2. r \in CheckState
    BY <2>1, Zenon DEF CheckState
  <2>3. \/ check' = check
        \/ check' = [check EXCEPT ![m.from] = IdleCheck]
        \/ check' = [check EXCEPT ![m.from] = r]
    BY <1>0, <1>4, Zenon DEF AskInfo, HandlersOK
  <2> HIDE DEF r
  <2>4. check' \in [Others -> CheckState]
    BY <1>0, <2>0, <2>2, <2>3, IdleRecords, SMTT(20) DEF HandlersOK
  <2>5. askMsg' \subseteq AskCall
    BY <1>0, <1>4, Zenon DEF AskInfo, CallsOK
  <2>6. RowsOK' /\ HandlersOK' /\ CallsOK' /\ CountsOK'
    BY <1>0, <1>4, <2>4, <2>5, Zenon DEF AskInfo, rowVars, histVars, RowsOK, HandlersOK, CallsOK,
      CountsOK
  <2> QED
    BY <2>6 DEF TypeOK, RowsOK, HandlersOK, CallsOK, CountsOK
<1> QED
  BY <1>1, <1>2, <1>3, <1>4

\* A crash keeps the types.
LEMMA TypeCrash ==
    ASSUME TypeOK, NEW p \in Parties, Crash(p)
    PROVE  TypeOK'
<1>0. /\ Creator \in Parties /\ Others \subseteq Parties
      /\ RowsOK /\ HandlersOK /\ CallsOK /\ CountsOK
  BY BrokerProjectAssumption, TypeParts DEF Others
<1>1. invite' \in [Others -> InviteState]
  BY <1>0, IdleRecords DEF Crash, HandlersOK
<1>2. join' \in [Others -> JoinState]
  BY <1>0, IdleRecords, Zenon DEF Crash, HandlersOK
<1>3. check' \in [Others -> CheckState]
  BY <1>0, IdleRecords, Zenon DEF Crash, HandlersOK
<1>4. archive' \in [Parties -> ArchiveState]
  BY <1>0, IdleRecords DEF Crash, HandlersOK
<1>5. admit' \in AdmitState
  <2>1. admit \in AdmitState /\ [admit EXCEPT !.open = FALSE] \in AdmitState
    BY <1>0, Zenon DEF HandlersOK, AdmitState
  <2>2. admit' = NoAdmit \/ admit' = [admit EXCEPT !.open = FALSE] \/ admit' = admit
    BY DEF Crash
  <2> QED
    BY <2>1, <2>2, IdleRecords, Zenon
<1>6. lost' \subseteq Parties
  <2>1. lost' \subseteq lost \cup Others \cup {Creator}
    BY DEF Crash
  <2> QED
    BY <1>0, <2>1 DEF CountsOK
<1>7. used' \in Usage
  BY UsageStep DEF Crash
<1>8. inviteMsg' \subseteq InviteCall
  <2>1. CASE p = Creator
    <3>1. inviteMsg' = Late(inviteMsg, inviteMsg)
      BY <2>1 DEF Crash
    <3> QED
      BY <1>0, <3>1, LateCalls DEF CallsOK
  <2>2. CASE p # Creator
    BY <1>0, <2>2 DEF Crash, CallsOK
  <2> QED
    BY <2>1, <2>2
<1>9. replyMsg' \subseteq ReplyCall
  <2> DEFINE S == {m \in replyMsg : m.from = p}
  <2>1. S \in SUBSET replyMsg /\ replyMsg' = Late(replyMsg, S)
    BY DEF Crash
  <2> QED
    BY <1>0, <2>1, LateCalls DEF CallsOK
<1>10. archiveMsg' \subseteq ArchiveCall
  <2> DEFINE M == {m \in archiveMsg : ~(m.to = p /\ m.checked)}
             S == {m \in M : m.from = p}
  <2>1. archiveMsg' = Late(M, S)
    BY DEF Crash
  <2>2. S \in SUBSET M /\ M \subseteq ArchiveCall
    BY <1>0 DEF CallsOK
  <2> HIDE DEF M, S
  <2> QED
    BY <2>1, <2>2, LateCalls
<1>11. memberMsg' \subseteq MemberCall
  BY <1>0 DEF Crash, CallsOK
<1>12. askMsg' \subseteq AskCall
  <2> DEFINE S == {m \in askMsg : m.from = p}
  <2>1. S \in SUBSET askMsg /\ askMsg' = Late(askMsg, S)
    BY DEF Crash
  <2> QED
    BY <1>0, <2>1, LateCalls DEF CallsOK
<1>13. leaked' \subseteq Others
  BY <1>0 DEF Crash, CountsOK
<1>s. settings' \in [1 .. MaxCreates -> 1 .. MaxCreates]
  BY <1>0 DEF Crash, CountsOK
<1>14. HandlersOK' /\ CallsOK' /\ CountsOK'
  BY <1>s, <1>1, <1>2, <1>3, <1>4, <1>5, <1>6, <1>7, <1>8, <1>9, <1>10, <1>11, <1>12, <1>13
    DEF HandlersOK, CallsOK, CountsOK
<1>15. RowsOK'
  BY <1>0 DEF Crash, rowVars, RowsOK
<1> QED
  BY <1>14, <1>15 DEF TypeOK, RowsOK, HandlersOK, CallsOK, CountsOK

\* Every step keeps the types.
LEMMA TypeStep == TypeOK /\ [Next]_vars => TypeOK'
<1>1. ASSUME TypeOK, UNCHANGED vars
      PROVE  TypeOK'
  BY <1>1 DEF vars, rowVars, msgVars, histVars, TypeOK
<1>2. ASSUME TypeOK, Next
      PROVE  TypeOK'
  BY <1>2, TypeInvite, TypeServe, TypeJoin, TypeArchive, TypeSync, TypeCreateDelete,
    TypeCheck, TypeCrash DEF Next
<1> QED
  BY <1>1, <1>2

\* The initial state has the types.
LEMMA TypeInit == Init => TypeOK
<1> SUFFICES ASSUME Init PROVE TypeOK
  OBVIOUS
<1>1. 0 \in Confs /\ "none" \in Rows
  BY BrokerProjectAssumption, SMTT(20) DEF Confs, Rows
<1>2. RowsOK /\ HandlersOK /\ CallsOK
  BY <1>1, IdleRecords DEF Init, RowsOK, HandlersOK, CallsOK
<1>3. CountsOK
  <2>1. /\ 0 \in Confs /\ 0 \in Numbers /\ 0 \in 0 .. MaxReplies /\ 0 \in 0 .. MaxArchives
        /\ 0 \in 0 .. MaxDeletes /\ 0 \in 0 .. MaxChecks /\ 0 \in 0 .. MaxCrashes
    BY BrokerProjectAssumption DEF Confs, Numbers
  <2>2. used \in Usage
    BY <2>1 DEF Init, Usage
  <2>3. lost = {} /\ leaked = {}
    BY DEF Init
  <2>4. settings \in [1 .. MaxCreates -> 1 .. MaxCreates]
    BY BrokerProjectAssumption DEF Init
  <2> QED
    BY <2>2, <2>3, <2>4 DEF CountsOK
<1> QED
  BY <1>2, <1>3, TypeParts

\* TypeOK holds in every state: the rows, handlers and calls of all brokers
\* keep their types for any number of parties.
THEOREM TypeCorrect == Spec => []TypeOK
  BY TypeInit, TypeStep, PTL DEF Spec

--------------------------------------------------------------------------------
\* What the row locks guarantee: while ReplyInvitation holds the creator's row
\* the project is there and open, and ArchiveProject does not hold it; a party
\* that answers an invitation has no project; the row that ArchiveProject
\* holds is there.
LockInv ==
    /\ admit.pc # "idle" => (proj[Creator] = "live" /\ archive[Creator].pc # "spread")
    /\ \A q \in Others : join[q].pc = "calling" => proj[q] = "none"
    /\ \A p \in Parties : archive[p].pc = "spread" => proj[p] # "none"

\* An answer does not move the caller: it only becomes visible to it.
LEMMA JoinAnswerKeeps ==
    ASSUME TypeOK, NEW q, NEW open, NEW code, NEW info, JoinAnswer(q, open, code, info)
    PROVE  /\ \A x \in Others : join'[x].pc = join[x].pc /\ join'[x].respond = join[x].respond
           /\ \A x \in Others : join'[x].reply = join[x].reply
                                  \/ (x = q /\ open /\ join'[x].reply = code)
<1>1. join \in [Others -> JoinState]
  BY DEF TypeOK
<1>2. \A x \in Others : join[x] \in JoinState
  BY <1>1
<1> QED
  BY <1>1, <1>2 DEF JoinAnswer, JoinState

\* The same of ArchiveProject.
LEMMA ArchiveAnswerKeeps ==
    ASSUME TypeOK, NEW m \in archiveMsg, NEW code, ArchiveAnswer(m, code)
    PROVE  \A p \in Parties : archive'[p].pc = archive[p].pc /\ archive'[p].conf = archive[p].conf
<1>1. archive \in [Parties -> ArchiveState] /\ m.from \in Parties
  BY DEF TypeOK, ArchiveCall
<1>2. \A p \in Parties : archive[p] \in ArchiveState
  BY <1>1
<1>3. CASE archive' = archive
  BY <1>3
<1>4. CASE archive' = [archive EXCEPT ![m.from].reply = code]
  BY <1>1, <1>2, <1>4 DEF ArchiveState
<1>5. CASE archive' = [archive EXCEPT ![m.from].wait = @ \ {m.to}]
  BY <1>1, <1>2, <1>5, SMTT(20) DEF ArchiveState
<1> QED
  BY <1>3, <1>4, <1>5 DEF ArchiveAnswer

\* The actions that touch no project row and no handler that holds one.
LockFree ==
    \/ \E q \in Others :
         \/ InviteMember(q) \/ InviteSend(q) \/ InviteDone(q) \/ InviteTimeout(q)
         \/ CheckAndUpdateStatus(q) \/ CheckTimeout(q)
    \/ \E m \in inviteMsg : InviteToProjectRead(m) \/ InviteToProjectWrite(m)
    \/ \E m \in memberMsg : SyncMemberRead(m) \/ SyncMemberAdd(m)
    \/ \E m \in askMsg : AskInfo(m)
    \/ UNCHANGED vars

\* They change neither.
LEMMA LockFreeKeeps == LockFree => UNCHANGED <<proj, conf, archive, admit, join>>
  BY Zenon DEF LockFree, InviteMember, InviteSend, InviteDone, InviteTimeout, CheckAndUpdateStatus,
    CheckTimeout, InviteToProjectRead, InviteToProjectWrite, SyncMemberRead, SyncMemberAdd,
    AskInfo, vars, rowVars, msgVars, histVars

\* Every step keeps the locks' guarantees.
LEMMA LockStep == TypeOK /\ LockInv /\ [Next]_vars => LockInv'
<1> SUFFICES ASSUME TypeOK, LockInv, [Next]_vars PROVE LockInv'
  BY Zenon
<1>0. /\ Creator \in Parties /\ Others = Parties \ {Creator}
      /\ proj \in [Parties -> Rows] /\ admit \in AdmitState
      /\ archive \in [Parties -> ArchiveState] /\ join \in [Others -> JoinState]
      /\ \A p \in Parties : archive[p] \in ArchiveState
      /\ \A q \in Others : join[q] \in JoinState
  BY BrokerProjectAssumption, Zenon DEF TypeOK, Others
<1>r. IdleArchive.pc = "idle" /\ IdleJoin.pc = "idle" /\ NoAdmit.pc = "idle"
  BY Zenon DEF IdleArchive, IdleJoin, NoAdmit
<1> HIDE DEF TypeOK
<1>1. CASE LockFree
  BY <1>1, LockFreeKeeps DEF LockInv
<1>2. CASE CreateProject
  <2>1. proj[Creator] = "none" /\ proj' = [proj EXCEPT ![Creator] = "live"]
        /\ UNCHANGED <<archive, admit, join>>
    BY <1>2 DEF CreateProject
  <2> QED
    BY <1>0, <2>1 DEF LockInv
<1>3. ASSUME NEW q \in Others, NEW r \in {"accept", "decline"}, ProcessInvitation(q, r)
      PROVE  LockInv'
  <2>1. proj[q] = "none" /\ UNCHANGED <<proj, archive, admit>>
        /\ \A x \in Others \ {q} : join'[x] = join[x]
    BY <1>0, <1>3 DEF ProcessInvitation, rowVars
  <2> QED
    BY <1>0, <2>1 DEF LockInv
<1>4. ASSUME NEW q \in Others, ProcessInvitationDone(q)
      PROVE  LockInv'
  <2>1. UNCHANGED <<archive, admit>> /\ (proj' = proj \/ proj' = [proj EXCEPT ![q] = "live"])
        /\ \A x \in Others \ {q} : join'[x] = join[x]
    BY <1>0, <1>4 DEF ProcessInvitationDone
  <2>2. join'[q].pc # "calling"
    BY <1>0, <1>4 DEF ProcessInvitationDone, IdleJoin
  <2> QED
    BY <1>0, <2>1, <2>2 DEF LockInv
<1>5. ASSUME NEW q \in Others, JoinTimeout(q) \/ AddNewMembers(q)
      PROVE  LockInv'
  <2>1. UNCHANGED <<proj, archive>> /\ join' = [join EXCEPT ![q] = IdleJoin]
        /\ (admit' = admit \/ admit' = [admit EXCEPT !.open = FALSE])
    BY <1>5 DEF JoinTimeout, AddNewMembers, rowVars
  <2>2. admit'.pc = admit.pc
    BY <1>0, <2>1 DEF AdmitState
  <2> QED
    BY <1>0, <1>r, <2>1, <2>2 DEF LockInv
<1>6. ASSUME NEW m \in replyMsg, ReplyInvitationBegin(m)
      PROVE  LockInv'
  <2>1. UNCHANGED <<proj, archive>>
        /\ (join' = join \/ JoinAnswer(m.from, m.open, "ok", {})
              \/ JoinAnswer(m.from, m.open, "error", {}))
    BY <1>6, Zenon DEF ReplyInvitationBegin, rowVars
  <2>2. \A x \in Others : join'[x].pc = join[x].pc
    BY <2>1, JoinAnswerKeeps, Zenon
  <2>3. admit' = admit \/ (proj[Creator] = "live" /\ archive[Creator].pc # "spread")
    BY <1>6 DEF ReplyInvitationBegin, RowFree
  <2> QED
    BY <1>0, <2>1, <2>2, <2>3, Zenon DEF LockInv
<1>7. CASE ReplyInvitationWrite
  <2>1. admit.pc # "idle" /\ UNCHANGED <<proj, archive, join>>
    BY <1>7 DEF ReplyInvitationWrite, rowVars
  <2> QED
    BY <2>1 DEF LockInv
<1>8. CASE ReplyInvitationCommit
  <2>1. UNCHANGED <<proj, archive>> /\ admit' = NoAdmit
        /\ \E c, i : JoinAnswer(admit.from, admit.open, c, i)
    BY <1>8 DEF ReplyInvitationCommit
  <2>2. \A x \in Others : join'[x].pc = join[x].pc
    BY <2>1, JoinAnswerKeeps
  <2> QED
    BY <1>0, <1>r, <2>1, <2>2 DEF LockInv
<1>9. ASSUME NEW p \in Parties, ArchiveProject(p) \/ ArchiveAllowed(p) \/ ArchiveTimeout(p)
      PROVE  LockInv'
  <2>1. UNCHANGED <<proj, admit, join>>
    BY <1>9 DEF ArchiveProject, ArchiveAllowed, ArchiveTimeout, rowVars
  <2>2. \A x \in Parties : archive'[x].pc = "spread" => archive[x].pc = "spread"
    <3>1. CASE ArchiveProject(p)
      BY <1>0, <3>1 DEF ArchiveProject, IdleArchive
    <3>2. CASE ArchiveAllowed(p)
      BY <1>0, <1>r, <3>2 DEF ArchiveAllowed, ArchiveState
    <3>3. CASE ArchiveTimeout(p)
      <4>1. CASE archive' = [archive EXCEPT ![p] = IdleArchive]
        BY <1>0, <1>r, <4>1
      <4>2. ASSUME NEW t, archive' = [archive EXCEPT ![p].wait = @ \ {t}]
            PROVE  \A x \in Parties : archive'[x].pc = archive[x].pc
        BY <1>0, <4>2, Zenon DEF ArchiveState
      <4> QED
        BY <3>3, <4>1, <4>2, Zenon DEF ArchiveTimeout
    <3> QED
      BY <1>9, <3>1, <3>2, <3>3
  <2> QED
    BY <1>0, <2>1, <2>2 DEF LockInv
<1>10. ASSUME NEW p \in Parties, ArchiveLocal(p)
       PROVE  LockInv'
  <2>1. UNCHANGED <<proj, admit, join>> /\ (p = Creator => admit.pc = "idle")
    BY <1>10 DEF ArchiveLocal, RowFree, rowVars
  <2>2. \A x \in Parties \ {p} : archive'[x] = archive[x]
    BY <1>0, <1>10 DEF ArchiveLocal
  <2>3. proj[p] # "none" \/ archive'[p].pc # "spread"
    BY <1>0, <1>r, <1>10 DEF ArchiveLocal
  <2> QED
    BY <1>0, <2>1, <2>2, <2>3 DEF LockInv
<1>11. ASSUME NEW p \in Parties, ArchiveCommit(p)
       PROVE  LockInv'
  <2>1. /\ archive[p].pc = "spread" /\ UNCHANGED <<admit, join>>
        /\ proj' = [proj EXCEPT ![p] = "archived"]
        /\ archive' = [archive EXCEPT ![p] = IdleArchive]
    BY <1>11, Zenon DEF ArchiveCommit
  <2>2. p = Creator => admit.pc = "idle"
    BY <2>1 DEF LockInv
  <2>3. p \in Others => join[p].pc # "calling"
    BY <1>0, <2>1 DEF LockInv
  <2> QED
    BY <1>0, <1>r, <2>1, <2>2, <2>3, Zenon DEF LockInv
<1>12. ASSUME NEW p \in Parties, DeleteProject(p)
       PROVE  LockInv'
  <2>1. /\ archive[p].pc # "spread" /\ (p = Creator => admit.pc = "idle")
        /\ proj' = [proj EXCEPT ![p] = "none"] /\ UNCHANGED <<archive, admit, join>>
    BY <1>12 DEF DeleteProject, RowFree
  <2> QED
    BY <1>0, <2>1 DEF LockInv
<1>13. ASSUME NEW p \in Parties, Crash(p)
       PROVE  LockInv'
  <2>1. proj' = proj /\ archive' = [archive EXCEPT ![p] = IdleArchive]
    BY <1>13 DEF Crash, rowVars
  <2>2. join' = join \/ join' = [join EXCEPT ![p] = IdleJoin]
    BY <1>13 DEF Crash
  <2>3. admit'.pc = "idle" \/ admit'.pc = admit.pc
    BY <1>0, <1>r, <1>13 DEF Crash, AdmitState
  <2> QED
    BY <1>0, <1>r, <2>1, <2>2, <2>3 DEF LockInv
<1>14. ASSUME NEW m \in archiveMsg, SyncInfoRead(m) \/ SyncInfoDeadlock(m)
       PROVE  LockInv'
  <2>1. UNCHANGED <<proj, admit, join>> /\ (archive' = archive \/ ArchiveAnswer(m, "error"))
    BY <1>14 DEF SyncInfoRead, SyncInfoDeadlock, rowVars
  <2>2. \A p \in Parties : archive'[p].pc = archive[p].pc
    BY <2>1, ArchiveAnswerKeeps, Zenon
  <2> QED
    BY <1>0, <2>1, <2>2 DEF LockInv
<1>15. ASSUME NEW m \in archiveMsg, SyncInfoArchive(m)
       PROVE  LockInv'
  <2>0. m.to \in Parties
    BY Zenon DEF TypeOK, ArchiveCall
  <2>1. /\ UNCHANGED <<admit, join>> /\ (m.to = Creator => admit.pc = "idle")
        /\ proj' = proj \/ (proj[m.to] # "none" /\ proj' = [proj EXCEPT ![m.to] = "archived"])
        /\ \E c : ArchiveAnswer(m, c)
    BY <1>15 DEF SyncInfoArchive, RowFree
  <2>2. \A p \in Parties : archive'[p].pc = archive[p].pc
    BY <2>1, ArchiveAnswerKeeps
  <2> QED
    BY <1>0, <2>0, <2>1, <2>2 DEF LockInv
<1>16. ASSUME NEW q \in Others, UpdateStatus(q)
       PROVE  LockInv'
  <2>1. /\ UNCHANGED <<archive, admit, join>>
        /\ proj' = proj \/ (proj[q] # "none" /\ proj' = [proj EXCEPT ![q] = "archived"])
    BY <1>16, Zenon DEF UpdateStatus
  <2> QED
    BY <1>0, <2>1, Zenon DEF LockInv
<1> QED
  BY <1>1, <1>2, <1>3, <1>4, <1>5, <1>6, <1>7, <1>8, <1>9, <1>10, <1>11, <1>12, <1>13,
    <1>14, <1>15, <1>16 DEF Next, LockFree

\* Which steps write a project row, and what.
LEMMA WhoWritesProject ==
    ASSUME TypeOK, [Next]_vars
    PROVE  \/ proj' = proj
           \/ CreateProject
           \/ \E q \in Others : ProcessInvitationDone(q)
           \/ \E p \in Parties : proj' = [proj EXCEPT ![p] = "archived"]
           \/ \E p \in Parties : proj' = [proj EXCEPT ![p] = "none"]
<1>0. \A m \in archiveMsg : m.to \in Parties
  BY DEF TypeOK, ArchiveCall
<1>1. CASE LockFree
  BY <1>1, LockFreeKeeps
<1>2. ASSUME NEW q \in Others,
             \/ \E r \in {"accept", "decline"} : ProcessInvitation(q, r)
             \/ JoinTimeout(q) \/ AddNewMembers(q)
      PROVE  proj' = proj
  BY <1>2, Zenon DEF ProcessInvitation, JoinTimeout, AddNewMembers, rowVars
<1>3. ASSUME NEW q \in Others, UpdateStatus(q)
      PROVE  proj' = proj \/ proj' = [proj EXCEPT ![q] = "archived"]
  BY <1>3, Zenon DEF UpdateStatus
<1>4. ASSUME \/ \E m \in replyMsg : ReplyInvitationBegin(m)
             \/ ReplyInvitationWrite \/ ReplyInvitationCommit
      PROVE  proj' = proj
  BY <1>4 DEF ReplyInvitationBegin, ReplyInvitationWrite, ReplyInvitationCommit, rowVars
<1>5. ASSUME NEW p \in Parties,
             ArchiveProject(p) \/ ArchiveAllowed(p) \/ ArchiveLocal(p) \/ ArchiveTimeout(p)
      PROVE  proj' = proj
  BY <1>5, Zenon DEF ArchiveProject, ArchiveAllowed, ArchiveLocal, ArchiveTimeout, rowVars
<1>6. ASSUME NEW p \in Parties, ArchiveCommit(p)
      PROVE  proj' = [proj EXCEPT ![p] = "archived"]
  BY <1>6 DEF ArchiveCommit
<1>7. ASSUME NEW p \in Parties, DeleteProject(p)
      PROVE  proj' = [proj EXCEPT ![p] = "none"]
  BY <1>7 DEF DeleteProject
<1>8. ASSUME NEW p \in Parties, Crash(p)
      PROVE  proj' = proj
  BY <1>8 DEF Crash, rowVars
<1>9. ASSUME NEW m \in archiveMsg,
             SyncInfoRead(m) \/ SyncInfoArchive(m) \/ SyncInfoDeadlock(m)
      PROVE  proj' = proj \/ proj' = [proj EXCEPT ![m.to] = "archived"]
  BY <1>9 DEF SyncInfoRead, SyncInfoArchive, SyncInfoDeadlock, rowVars
<1> HIDE DEF TypeOK
<1> DEFINE Goal == \/ proj' = proj
                   \/ CreateProject
                   \/ \E q \in Others : ProcessInvitationDone(q)
                   \/ \E p \in Parties : proj' = [proj EXCEPT ![p] = "archived"]
                   \/ \E p \in Parties : proj' = [proj EXCEPT ![p] = "none"]
<1>10. Others \subseteq Parties
  BY DEF Others
<1>11. (\E q \in Others : UpdateStatus(q)) => Goal
  BY <1>3, <1>10
<1>12. (\E p \in Parties : ArchiveCommit(p)) => Goal
  BY <1>6
<1>13. (\E p \in Parties : DeleteProject(p)) => Goal
  BY <1>7
<1>14. (\E m \in archiveMsg : SyncInfoRead(m) \/ SyncInfoArchive(m) \/ SyncInfoDeadlock(m)) => Goal
  BY <1>0, <1>9
<1>15. LockFree => Goal
  BY LockFreeKeeps
<1>16. (CreateProject \/ \E q \in Others : ProcessInvitationDone(q)) => Goal
  OBVIOUS
<1>17. proj' = proj => Goal
  OBVIOUS
<1> HIDE DEF Goal
<1>18. Goal
  <2>1. ASSUME NEW q \in Others,
               \/ InviteMember(q) \/ InviteSend(q) \/ InviteDone(q) \/ InviteTimeout(q)
               \/ \E r \in {"accept", "decline"} : ProcessInvitation(q, r)
               \/ ProcessInvitationDone(q) \/ JoinTimeout(q) \/ AddNewMembers(q)
               \/ CheckAndUpdateStatus(q) \/ UpdateStatus(q) \/ CheckTimeout(q)
        PROVE  Goal
    BY <2>1, <1>2, <1>11, <1>15, <1>16, <1>17 DEF LockFree
  <2>2. ASSUME NEW p \in Parties,
               \/ ArchiveProject(p) \/ ArchiveAllowed(p) \/ ArchiveLocal(p) \/ ArchiveCommit(p)
               \/ ArchiveTimeout(p) \/ DeleteProject(p) \/ Crash(p)
        PROVE  Goal
    BY <2>2, <1>5, <1>8, <1>12, <1>13, <1>17
  <2>3. ASSUME \/ \E m \in inviteMsg : InviteToProjectRead(m) \/ InviteToProjectWrite(m)
               \/ \E m \in memberMsg : SyncMemberRead(m) \/ SyncMemberAdd(m)
               \/ \E m \in askMsg : AskInfo(m)
               \/ UNCHANGED vars
        PROVE  Goal
    BY <2>3, <1>15 DEF LockFree
  <2> QED
    BY <1>4, <1>14, <1>16, <1>17, <2>1, <2>2, <2>3 DEF Next
<1> QED
  BY <1>18 DEF Goal

\* Which steps change the creator's list of members.
LEMMA WhoWritesMembers ==
    ASSUME TypeOK, [Next]_vars
    PROVE  \/ members'[Creator] = members[Creator]
           \/ CreateProject \/ ReplyInvitationCommit \/ DeleteProject(Creator)
<1>0. /\ members \in [Parties -> SUBSET Parties] /\ Others = Parties \ {Creator}
      /\ \A m \in memberMsg : m.to \in Others
  BY DEF TypeOK, MemberCall, Others
<1> HIDE DEF TypeOK
<1>1. ASSUME NEW q \in Others,
             \/ InviteMember(q) \/ InviteSend(q) \/ InviteDone(q) \/ InviteTimeout(q)
             \/ \E r \in {"accept", "decline"} : ProcessInvitation(q, r)
             \/ JoinTimeout(q) \/ CheckAndUpdateStatus(q) \/ CheckTimeout(q)
      PROVE  members' = members
  BY <1>1, Zenon DEF InviteMember, InviteSend, InviteDone, InviteTimeout, ProcessInvitation,
    JoinTimeout, CheckAndUpdateStatus, CheckTimeout, rowVars
<1>2. ASSUME NEW q \in Others,
             ProcessInvitationDone(q) \/ AddNewMembers(q) \/ UpdateStatus(q)
      PROVE  members'[Creator] = members[Creator]
  <2>1. CASE ProcessInvitationDone(q)
    <3>1. \/ members' = members
          \/ \E S : members' = [members EXCEPT ![q] = S]
      BY <2>1, Zenon DEF ProcessInvitationDone
    <3> QED
      BY <1>0, <3>1, BrokerProjectAssumption
  <2>2. CASE AddNewMembers(q)
    <3>0. members' = members \/ members' = [members EXCEPT ![q] = @ \cup join[q].extra]
      BY <2>2 DEF AddNewMembers
    <3>1. CASE members' = [members EXCEPT ![q] = @ \cup join[q].extra]
      BY <1>0, <3>1
    <3> QED
      BY <3>0, <3>1, Zenon
  <2>3. CASE UpdateStatus(q)
    <3> DEFINE new == check[q].remote.members \ check[q].local.members
    <3>0. members' = members \/ members' = [members EXCEPT ![q] = @ \cup new]
      BY <2>3, Zenon DEF UpdateStatus
    <3> HIDE DEF new
    <3>1. CASE members' = [members EXCEPT ![q] = @ \cup new]
      BY <1>0, <3>1, SMTT(20)
    <3> QED
      BY <3>0, <3>1, Zenon
  <2> QED
    BY <1>2, <2>1, <2>2, <2>3, Zenon
<1>3. ASSUME \/ \E m \in inviteMsg : InviteToProjectRead(m) \/ InviteToProjectWrite(m)
             \/ \E m \in replyMsg : ReplyInvitationBegin(m)
             \/ ReplyInvitationWrite
             \/ \E m \in askMsg : AskInfo(m)
             \/ UNCHANGED vars
      PROVE  members' = members
  BY <1>3, Zenon DEF InviteToProjectRead, InviteToProjectWrite, ReplyInvitationBegin,
    ReplyInvitationWrite, AskInfo, vars, rowVars
<1>4. ASSUME NEW p \in Parties,
             \/ ArchiveProject(p) \/ ArchiveAllowed(p) \/ ArchiveLocal(p) \/ ArchiveCommit(p)
             \/ ArchiveTimeout(p) \/ Crash(p)
      PROVE  members' = members
  BY <1>4 DEF ArchiveProject, ArchiveAllowed, ArchiveLocal, ArchiveCommit, ArchiveTimeout,
    Crash, rowVars
<1>5. ASSUME NEW p \in Parties \ {Creator}, DeleteProject(p)
      PROVE  members'[Creator] = members[Creator]
  BY <1>0, <1>5 DEF DeleteProject
<1>6. ASSUME NEW m \in archiveMsg,
             SyncInfoRead(m) \/ SyncInfoArchive(m) \/ SyncInfoDeadlock(m)
      PROVE  members' = members
  BY <1>6, Zenon DEF SyncInfoRead, SyncInfoArchive, SyncInfoDeadlock, rowVars
<1>7. ASSUME NEW m \in memberMsg, SyncMemberRead(m) \/ SyncMemberAdd(m)
      PROVE  members'[Creator] = members[Creator]
  <2>1. m.to \in Others /\ m.to # Creator
    BY <1>0
  <2>2. CASE SyncMemberRead(m)
    BY <2>2 DEF SyncMemberRead, rowVars
  <2>3. CASE SyncMemberAdd(m)
    <3>1. CASE members' = members
      BY <3>1
    <3>2. CASE members' = [members EXCEPT ![m.to] = @ \cup {m.member}]
      BY <1>0, <2>1, <3>2
    <3> QED
      BY <2>3, <3>1, <3>2 DEF SyncMemberAdd
  <2> QED
    BY <1>7, <2>2, <2>3, Zenon
<1> QED
  BY <1>1, <1>2, <1>3, <1>4, <1>5, <1>6, <1>7 DEF Next

\* The locks' guarantees hold in every state.
LEMMA LocksHold == Spec => [](TypeOK /\ LockInv)
<1>1. Init => LockInv
  <2> SUFFICES ASSUME Init PROVE LockInv
    OBVIOUS
  <2>1. /\ admit.pc = "idle"
        /\ \A p \in Parties : archive[p].pc = "idle"
        /\ \A q \in Others : join[q].pc = "idle"
    BY Zenon DEF Init, IdleArchive, IdleJoin, NoAdmit
  <2> QED
    BY <2>1, Zenon DEF LockInv
<1> QED
  BY <1>1, TypeInit, TypeStep, LockStep, PTL DEF Spec

\* NeverUnarchived holds for any number of parties: CreateProject and
\* ProcessInvitation, which alone open a project, find no row.
THEOREM ArchivedNeverReopened == Spec => NeverUnarchived
<1>1. TypeOK /\ LockInv /\ [Next]_vars
        => [\A p \in Parties : proj[p] = "archived" => proj'[p] # "live"]_vars
  <2> SUFFICES ASSUME TypeOK, LockInv, [Next]_vars, NEW p \in Parties, proj[p] = "archived"
               PROVE  proj'[p] # "live"
    BY Zenon
  <2>0. proj \in [Parties -> Rows] /\ Others = Parties \ {Creator} /\ Creator \in Parties
    BY BrokerProjectAssumption, Zenon DEF TypeOK, Others
  <2> HIDE DEF TypeOK
  <2>1. CASE CreateProject
    BY <2>0, <2>1 DEF CreateProject
  <2>2. ASSUME NEW q \in Others, ProcessInvitationDone(q)
        PROVE  proj'[p] # "live"
    <3>1. join[q].pc = "calling" /\ (proj' = proj \/ proj' = [proj EXCEPT ![q] = "live"])
      BY <2>2 DEF ProcessInvitationDone
    <3>2. proj[q] = "none"
      BY <3>1 DEF LockInv
    <3> QED
      BY <2>0, <3>1, <3>2
  <2>3. ASSUME NEW x \in Parties,
               proj' = [proj EXCEPT ![x] = "archived"] \/ proj' = [proj EXCEPT ![x] = "none"]
        PROVE  proj'[p] # "live"
    BY <2>0, <2>3
  <2> QED
    BY <2>1, <2>2, <2>3, WhoWritesProject
<1> QED
  BY <1>1, LocksHold, PTL DEF Spec, NeverUnarchived

\* MembershipFrozen holds for any number of parties: the only step that adds
\* a member at the creator holds the row lock under which it saw the project
\* open.
THEOREM CreatorsMembersFrozen == Spec => MembershipFrozen
<1>1. TypeOK /\ LockInv /\ [Next]_vars
        => [(proj[Creator] = "archived" /\ proj'[Creator] = "archived")
              => members'[Creator] = members[Creator]]_vars
  <2> SUFFICES ASSUME TypeOK, LockInv, [Next]_vars,
                      proj[Creator] = "archived", proj'[Creator] = "archived"
               PROVE  members'[Creator] = members[Creator]
    BY Zenon
  <2>0. proj \in [Parties -> Rows] /\ Creator \in Parties
    BY BrokerProjectAssumption, Zenon DEF TypeOK
  <2> HIDE DEF TypeOK
  <2>1. ~CreateProject
    BY DEF CreateProject
  <2>2. ~ReplyInvitationCommit
    <3>1. ReplyInvitationCommit => admit.pc # "idle"
      BY DEF ReplyInvitationCommit
    <3> QED
      BY <3>1 DEF LockInv
  <2>3. ~DeleteProject(Creator)
    BY <2>0 DEF DeleteProject
  <2> QED
    BY <2>1, <2>2, <2>3, WhoWritesMembers
<1> QED
  BY <1>1, LocksHold, PTL DEF Spec, MembershipFrozen

\* A call of ReplyInvitation whose caller waits belongs to the call that
\* ProcessInvitation made last, and has not been answered ...
OpenCalls ==
    \A m \in replyMsg : m.open =>
        (/\ join[m.from].pc = "calling" /\ join[m.from].respond = m.respond
         /\ join[m.from].reply = "none"
         /\ (admit.pc # "idle" /\ admit.open) => admit.from # m.from)

\* ... so does a ReplyInvitation under way whose caller waits ...
OpenAdmit ==
    (admit.pc # "idle" /\ admit.open) =>
        (/\ admit.from \in Others /\ join[admit.from].pc = "calling"
         /\ join[admit.from].reply = "none"
         /\ admit.decision = "declined" => join[admit.from].respond = "decline")

\* ... and only a waiting ProcessInvitation has an answer.
Answers == \A q \in Others : join[q].reply # "none" => join[q].pc = "calling"

ReplyInv == OpenCalls /\ OpenAdmit /\ Answers

\* The actions that leave ProcessInvitation and ReplyInvitation alone.
ReplyFree ==
    \/ LockFree \/ CreateProject
    \/ \E q \in Others : UpdateStatus(q)
    \/ \E p \in Parties :
         \/ ArchiveProject(p) \/ ArchiveAllowed(p) \/ ArchiveLocal(p) \/ ArchiveCommit(p)
         \/ ArchiveTimeout(p) \/ DeleteProject(p)
    \/ \E m \in archiveMsg : SyncInfoRead(m) \/ SyncInfoArchive(m) \/ SyncInfoDeadlock(m)

\* They do.
LEMMA ReplyFreeKeeps == ReplyFree => UNCHANGED <<admit, join, replyMsg>>
<1>1. LockFree => replyMsg' = replyMsg
  BY Zenon DEF LockFree, InviteMember, InviteSend, InviteDone, InviteTimeout, CheckAndUpdateStatus,
    CheckTimeout, InviteToProjectRead, InviteToProjectWrite, SyncMemberRead, SyncMemberAdd,
    AskInfo, vars, msgVars
<1>2. CreateProject => UNCHANGED <<admit, join, replyMsg>>
  BY DEF CreateProject, msgVars
<1>3. (\E q \in Others : UpdateStatus(q)) => UNCHANGED <<admit, join, replyMsg>>
  BY Zenon DEF UpdateStatus, msgVars
<1>4. ASSUME NEW p \in Parties,
             \/ ArchiveProject(p) \/ ArchiveAllowed(p) \/ ArchiveLocal(p) \/ ArchiveCommit(p)
             \/ ArchiveTimeout(p) \/ DeleteProject(p)
      PROVE  UNCHANGED <<admit, join, replyMsg>>
  BY <1>4 DEF ArchiveProject, ArchiveAllowed, ArchiveLocal, ArchiveCommit, ArchiveTimeout,
    DeleteProject, msgVars
<1>5. ASSUME NEW m \in archiveMsg,
             SyncInfoRead(m) \/ SyncInfoArchive(m) \/ SyncInfoDeadlock(m)
      PROVE  UNCHANGED <<admit, join, replyMsg>>
  BY <1>5 DEF SyncInfoRead, SyncInfoArchive, SyncInfoDeadlock
<1> QED
  BY <1>1, <1>2, <1>3, <1>4, <1>5, LockFreeKeeps, SMTT(20) DEF ReplyFree

\* When a caller gives up, no open call of its own is left.
LEMMA LateReplies ==
    ASSUME TypeOK, NEW q
    PROVE  \A m \in Late(replyMsg, {m \in replyMsg : m.from = q}) :
              m.open => (m \in replyMsg /\ m.from # q)
<1>1. \A m \in replyMsg : m \in ReplyCall
  BY DEF TypeOK
<1>2. \A m \in replyMsg : [m EXCEPT !.open = FALSE].open = FALSE
  BY <1>1 DEF ReplyCall
<1> QED
  BY <1>2, Zenon DEF Late

\* Every step keeps ReplyInv.
LEMMA ReplyStep == TypeOK /\ ReplyInv /\ [Next]_vars => ReplyInv'
<1> SUFFICES ASSUME TypeOK, ReplyInv, [Next]_vars PROVE ReplyInv'
  OBVIOUS
<1>0. /\ Creator \in Parties /\ Others = Parties \ {Creator}
      /\ admit \in AdmitState /\ join \in [Others -> JoinState]
      /\ \A q \in Others : join[q] \in JoinState
      /\ \A m \in replyMsg : m.from \in Others /\ m.respond \in {"accept", "decline"}
  BY BrokerProjectAssumption, Zenon DEF TypeOK, Others, ReplyCall
<1>r. /\ IdleJoin.pc = "idle" /\ IdleJoin.reply = "none"
      /\ NoAdmit.pc = "idle" /\ NoAdmit.open = FALSE
  BY DEF IdleJoin, NoAdmit
<1>l. \A q : \A m \in Late(replyMsg, {m \in replyMsg : m.from = q}) :
         m.open => (m \in replyMsg /\ m.from # q)
  BY LateReplies, Zenon
<1> HIDE DEF TypeOK
<1>1. CASE ReplyFree
  BY <1>1, ReplyFreeKeeps, Zenon DEF ReplyInv, OpenCalls, OpenAdmit, Answers
<1>2. ASSUME NEW q \in Others, NEW r \in {"accept", "decline"}, ProcessInvitation(q, r)
      PROVE  ReplyInv'
  <2>1. /\ admit' = admit /\ join[q].pc = "idle"
        /\ \A x \in Others \ {q} : join'[x] = join[x]
        /\ join'[q].pc = "calling" /\ join'[q].respond = r /\ join'[q].reply = "none"
        /\ replyMsg' = replyMsg \cup {[from |-> q, respond |-> r, open |-> TRUE]}
    BY <1>0, <1>2 DEF ProcessInvitation, IdleJoin
  <2>2. \A m \in replyMsg : m.open => m.from # q
    BY <2>1, Zenon DEF ReplyInv, OpenCalls
  <2>3. (admit.pc # "idle" /\ admit.open) => admit.from # q
    BY <2>1, Zenon DEF ReplyInv, OpenAdmit
  <2>x. OpenCalls'
    <3>1. ASSUME NEW n \in replyMsg', n.open
          PROVE  /\ join'[n.from].pc = "calling" /\ join'[n.from].respond = n.respond
                 /\ join'[n.from].reply = "none"
                 /\ (admit.pc # "idle" /\ admit.open) => admit.from # n.from
      <4>1. CASE n \in replyMsg
        <5>1. n.from \in Others \ {q}
          BY <1>0, <2>2, <3>1, <4>1, Zenon
        <5> QED
          BY <2>1, <3>1, <4>1, <5>1, Zenon DEF ReplyInv, OpenCalls
      <4>2. CASE n \notin replyMsg
        <5>1. n = [from |-> q, respond |-> r, open |-> TRUE]
          BY <2>1, <4>2, Zenon
        <5>2. n.from = q /\ n.respond = r
          BY <5>1
        <5> QED
          BY <2>1, <2>3, <5>2, Zenon
      <4> QED
        BY <4>1, <4>2, Zenon
    <3> QED
      BY <2>1, <3>1, Zenon DEF OpenCalls
  <2>y. OpenAdmit'
    BY <1>0, <2>1, <2>2, <2>3, Zenon DEF ReplyInv, OpenAdmit
  <2>z. Answers'
    BY <1>0, <2>1, <2>2, <2>3, Zenon DEF ReplyInv, Answers
  <2> QED
    BY <2>x, <2>y, <2>z DEF ReplyInv
<1>3. ASSUME NEW q \in Others, JoinTimeout(q)
      PROVE  ReplyInv'
  <2>1. /\ join' = [join EXCEPT ![q] = IdleJoin]
        /\ replyMsg' = Late(replyMsg, {m \in replyMsg : m.from = q})
        /\ admit' = IF admit.pc # "idle" /\ admit.from = q
                      THEN [admit EXCEPT !.open = FALSE] ELSE admit
    BY <1>3 DEF JoinTimeout
  <2>2. (admit'.pc # "idle" /\ admit'.open) => (admit' = admit /\ admit.from # q)
    BY <1>0, <2>1 DEF AdmitState
  <2>3. \A x \in Others : (x # q /\ join'[x] = join[x]) \/ (x = q /\ join'[x] = IdleJoin)
    BY <1>0, <2>1
  <2>4. \A m \in replyMsg' : m.open => (m \in replyMsg /\ m.from # q)
    BY <1>l, <2>1, Zenon
  <2>5. \A m \in replyMsg' : m.open => (m \in replyMsg /\ join'[m.from] = join[m.from])
    BY <1>0, <2>3, <2>4
  <2>x. OpenCalls'
    BY <2>2, <2>5, Zenon DEF ReplyInv, OpenCalls
  <2>y. OpenAdmit'
    BY <1>0, <1>r, <2>2, <2>3, <2>4, Zenon DEF ReplyInv, OpenAdmit
  <2>z. Answers'
    BY <1>0, <1>r, <2>2, <2>3, <2>4, Zenon DEF ReplyInv, Answers
  <2> QED
    BY <2>x, <2>y, <2>z DEF ReplyInv
<1>4. ASSUME NEW q \in Others, AddNewMembers(q)
      PROVE  ReplyInv'
  <2>1. /\ join[q].pc = "extra" /\ join' = [join EXCEPT ![q] = IdleJoin]
        /\ UNCHANGED <<replyMsg, admit>>
    BY <1>4, Zenon DEF AddNewMembers, msgVars
  <2>x. OpenCalls'
    BY <1>0, <1>r, <2>1, Zenon DEF ReplyInv, OpenCalls
  <2>y. OpenAdmit'
    BY <1>0, <1>r, <2>1 DEF ReplyInv, OpenAdmit
  <2>z. Answers'
    BY <1>0, <1>r, <2>1 DEF ReplyInv, Answers
  <2> QED
    BY <2>x, <2>y, <2>z DEF ReplyInv
<1>5. ASSUME NEW m \in replyMsg, ReplyInvitationBegin(m)
      PROVE  ReplyInv'
  <2>0. admit.pc = "idle"
    BY <1>5, Zenon DEF ReplyInvitationBegin, RowFree
  <2>u. \A n \in replyMsg \ {m} : (n.open /\ m.open) => n.from # m.from
    <3> SUFFICES ASSUME NEW n \in replyMsg, n.open, m.open, n.from = m.from
                 PROVE  n = m
      OBVIOUS
    <3>1. m \in ReplyCall /\ n \in ReplyCall
      BY DEF TypeOK
    <3>2. n.respond = m.respond
      BY Zenon DEF ReplyInv, OpenCalls
    <3> QED
      BY <3>1, <3>2 DEF ReplyCall
  <2>1. /\ replyMsg' = replyMsg \ {m}
        /\ \/ join' = join
           \/ JoinAnswer(m.from, m.open, "ok", {})
           \/ JoinAnswer(m.from, m.open, "error", {})
    BY <1>5, Zenon DEF ReplyInvitationBegin
  <2>2. \A x \in Others : /\ join'[x].pc = join[x].pc /\ join'[x].respond = join[x].respond
                          /\ join'[x].reply = join[x].reply \/ (x = m.from /\ m.open)
    <3>1. ASSUME NEW c, JoinAnswer(m.from, m.open, c, {}), NEW x \in Others
          PROVE  /\ join'[x].pc = join[x].pc /\ join'[x].respond = join[x].respond
                 /\ join'[x].reply = join[x].reply \/ (x = m.from /\ m.open)
      BY <3>1, JoinAnswerKeeps
    <3> QED
      BY <2>1, <3>1, Zenon
  <2>3. admit' = admit
          \/ (/\ join' = join /\ admit'.from = m.from /\ admit'.open = m.open
              /\ admit'.decision = "declined" => m.respond = "decline")
    <3> DEFINE d == IF m.respond = "decline" THEN "declined"
                    ELSE IF SameSettings(sent[m.from].conf, conf[Creator]) THEN "accepted" ELSE "invalid"
    <3>1. \/ admit' = admit
          \/ /\ join' = join
             /\ admit' = [pc |-> "write", from |-> m.from, no |-> sent[m.from].no,
                          open |-> m.open, decision |-> d]
      BY <1>5, Zenon DEF ReplyInvitationBegin
    <3>2. d = "declined" => m.respond = "decline"
      OBVIOUS
    <3> HIDE DEF d
    <3> QED
      BY <3>1, <3>2
  <2> QED
    <3>1. CASE admit' = admit
      <4>x. OpenCalls'
        <5>1. ASSUME NEW n \in replyMsg', n.open
              PROVE  /\ join'[n.from].pc = "calling" /\ join'[n.from].respond = n.respond
                     /\ join'[n.from].reply = "none"
          <6>1. n \in replyMsg \ {m} /\ n.from \in Others
            BY <1>0, <2>1, Zenon
          <6>2. ~(n.from = m.from /\ m.open)
            BY <2>u, <5>1, <6>1, Zenon
          <6> QED
            BY <2>2, <5>1, <6>1, <6>2, Zenon DEF ReplyInv, OpenCalls
        <5> QED
          BY <2>0, <3>1, <5>1, Zenon DEF OpenCalls
      <4>y. OpenAdmit'
        BY <2>0, <3>1, Zenon DEF OpenAdmit
      <4>z. Answers'
        BY <1>0, <2>2 DEF ReplyInv, OpenCalls, Answers
      <4> QED
        BY <4>x, <4>y, <4>z, Zenon DEF ReplyInv
    <3>2. CASE admit' # admit
      <4>x. OpenCalls'
        <5>1. ASSUME NEW n \in replyMsg', n.open
              PROVE  /\ join'[n.from].pc = "calling" /\ join'[n.from].respond = n.respond
                     /\ join'[n.from].reply = "none" /\ (admit'.open => admit'.from # n.from)
          <6>1. n \in replyMsg \ {m}
            BY <2>1, Zenon
          <6>2. m.open => n.from # m.from
            BY <2>u, <5>1, <6>1, Zenon
          <6> QED
            BY <2>3, <3>2, <5>1, <6>1, <6>2, Zenon DEF ReplyInv, OpenCalls
        <5> QED
          BY <5>1, Zenon DEF OpenCalls
      <4>y. OpenAdmit'
        <5>1. m.open => (join[m.from].pc = "calling" /\ join[m.from].reply = "none"
                           /\ join[m.from].respond = m.respond)
          BY DEF ReplyInv, OpenCalls
        <5> QED
          BY <1>0, <2>3, <3>2, <5>1, Zenon DEF OpenAdmit
      <4>z. Answers'
        BY <2>3, <3>2, Zenon DEF ReplyInv, Answers
      <4> QED
        BY <4>x, <4>y, <4>z DEF ReplyInv
    <3> QED
      BY <3>1, <3>2
<1>6. CASE ReplyInvitationWrite
  <2>1. /\ UNCHANGED <<join, replyMsg>> /\ admit' = [admit EXCEPT !.pc = "commit"]
        /\ admit.pc = "write"
    BY <1>6 DEF ReplyInvitationWrite
  <2>2. /\ admit'.from = admit.from /\ admit'.open = admit.open
        /\ admit'.decision = admit.decision
    BY <1>0, <2>1 DEF AdmitState
  <2>x. OpenCalls'
    BY <2>1, <2>2 DEF ReplyInv, OpenCalls
  <2>y. OpenAdmit'
    BY <2>1, <2>2 DEF ReplyInv, OpenAdmit
  <2>z. Answers'
    BY <2>1, <2>2 DEF ReplyInv, Answers
  <2> QED
    BY <2>x, <2>y, <2>z DEF ReplyInv
<1>7. CASE ReplyInvitationCommit
  <2>1. /\ admit.pc # "idle" /\ replyMsg' = replyMsg /\ admit' = NoAdmit
        /\ \E c, i : JoinAnswer(admit.from, admit.open, c, i)
    BY <1>7, Zenon DEF ReplyInvitationCommit, msgVars
  <2>2. \A x \in Others : /\ join'[x].pc = join[x].pc /\ join'[x].respond = join[x].respond
                          /\ join'[x].reply = join[x].reply \/ (x = admit.from /\ admit.open)
    BY <2>1, JoinAnswerKeeps
  <2>3. \A m \in replyMsg : m.open => (m.from \in Others /\ join'[m.from].reply = join[m.from].reply)
    BY <1>0, <2>1, <2>2, Zenon DEF ReplyInv, OpenCalls
  <2>4. \A m \in replyMsg : m.open =>
          (/\ join[m.from].pc = "calling" /\ join[m.from].respond = m.respond
           /\ join[m.from].reply = "none")
    BY Zenon DEF ReplyInv, OpenCalls
  <2>5. ASSUME NEW m \in replyMsg', m.open
        PROVE  /\ join'[m.from].pc = "calling" /\ join'[m.from].respond = m.respond
               /\ join'[m.from].reply = "none"
    BY <2>1, <2>2, <2>3, <2>4, <2>5, Zenon
  <2>x. OpenCalls'
    BY <1>r, <2>1, <2>5, Zenon DEF OpenCalls
  <2>y. OpenAdmit'
    BY <1>r, <2>1, Zenon DEF OpenAdmit
  <2>z. Answers'
    BY <2>1, <2>2, Zenon DEF ReplyInv, OpenAdmit, Answers
  <2> QED
    BY <2>x, <2>y, <2>z DEF ReplyInv
<1>8. ASSUME NEW q \in Others, ProcessInvitationDone(q)
      PROVE  ReplyInv'
  <2>1. /\ join[q].reply # "none" /\ UNCHANGED <<replyMsg, admit>>
        /\ \A x \in Others \ {q} : join'[x] = join[x]
        /\ join'[q].reply = "none"
    BY <1>0, <1>8, Zenon DEF ProcessInvitationDone, IdleJoin, msgVars
  <2>x. OpenCalls'
    BY <1>0, <2>1 DEF ReplyInv, OpenCalls
  <2>y. OpenAdmit'
    BY <1>0, <2>1 DEF ReplyInv, OpenAdmit
  <2>z. Answers'
    BY <1>0, <2>1 DEF ReplyInv, Answers
  <2> QED
    BY <2>x, <2>y, <2>z DEF ReplyInv
<1>9. ASSUME NEW p \in Parties, Crash(p)
      PROVE  ReplyInv'
  <2>1. /\ replyMsg' = Late(replyMsg, {m \in replyMsg : m.from = p})
        /\ admit' = IF p = Creator THEN NoAdmit ELSE
                    IF admit.from = p THEN [admit EXCEPT !.open = FALSE] ELSE admit
        /\ join' = IF p = Creator THEN join ELSE [join EXCEPT ![p] = IdleJoin]
    BY <1>9 DEF Crash
  <2>2. (admit'.pc # "idle" /\ admit'.open) => (admit' = admit /\ admit.from # p /\ p # Creator)
    BY <1>0, <1>r, <2>1 DEF AdmitState
  <2>3. \A x \in Others : (x # p /\ join'[x] = join[x])
                              \/ (x = p /\ p # Creator /\ join'[x] = IdleJoin)
    BY <1>0, <2>1
  <2>4. \A m \in replyMsg' : m.open => (m \in replyMsg /\ m.from # p)
    BY <1>l, <2>1, Zenon
  <2>5. \A m \in replyMsg' : m.open => (m \in replyMsg /\ join'[m.from] = join[m.from])
    BY <1>0, <2>3, <2>4, Zenon
  <2>x. OpenCalls'
    BY <2>2, <2>5, Zenon DEF ReplyInv, OpenCalls
  <2>y. OpenAdmit'
    BY <1>0, <1>r, <2>2, <2>3, <2>4, Zenon DEF ReplyInv, OpenAdmit
  <2>z. Answers'
    BY <1>0, <1>r, <2>2, <2>3, <2>4 DEF ReplyInv, Answers
  <2> QED
    BY <2>x, <2>y, <2>z DEF ReplyInv
<1>10. ASSUME NEW q \in Others,
              \/ InviteMember(q) \/ InviteSend(q) \/ InviteDone(q) \/ InviteTimeout(q)
              \/ \E r \in {"accept", "decline"} : ProcessInvitation(q, r)
              \/ ProcessInvitationDone(q) \/ JoinTimeout(q) \/ AddNewMembers(q)
              \/ CheckAndUpdateStatus(q) \/ UpdateStatus(q) \/ CheckTimeout(q)
       PROVE  ReplyInv'
  BY <1>1, <1>2, <1>3, <1>4, <1>8, <1>10 DEF ReplyFree, LockFree
<1>11. ASSUME NEW p \in Parties,
              \/ ArchiveProject(p) \/ ArchiveAllowed(p) \/ ArchiveLocal(p) \/ ArchiveCommit(p)
              \/ ArchiveTimeout(p) \/ DeleteProject(p) \/ Crash(p)
       PROVE  ReplyInv'
  BY <1>1, <1>9, <1>11 DEF ReplyFree
<1>12. ASSUME \/ CreateProject
              \/ \E m \in inviteMsg : InviteToProjectRead(m) \/ InviteToProjectWrite(m)
              \/ \E m \in archiveMsg :
                    SyncInfoRead(m) \/ SyncInfoArchive(m) \/ SyncInfoDeadlock(m)
              \/ \E m \in memberMsg : SyncMemberRead(m) \/ SyncMemberAdd(m)
              \/ \E m \in askMsg : AskInfo(m)
              \/ UNCHANGED vars
       PROVE  ReplyInv'
  BY <1>1, <1>12 DEF ReplyFree, LockFree
<1> QED
  BY <1>5, <1>6, <1>7, <1>10, <1>11, <1>12, Zenon DEF Next

================================================================================
