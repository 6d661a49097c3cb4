------------------------------- MODULE Members -------------------------------
(***************************************************************************)
(* The members of one organization: invitations by email with a one-time   *)
(* link, role changes, removals (MembersService) and the worker that sends *)
(* the emails (InvitationEmailProcessor).                                  *)
(*                                                                         *)
(* One action per query.  A Prisma transaction is cut into its reads and   *)
(* its write, which is visible at the commit; SELECT ... FOR UPDATE keeps  *)
(* the Admin rows locked until then.  `role[u] = "none"` as the target of  *)
(* a change is a removal.  A user's email address is the user; the n-th    *)
(* token of an invitation is n.                                            *)
(***************************************************************************)
EXTENDS Integers, FiniteSets

CONSTANTS
    Users,          \* people, members or not
    Founder,        \* who created the organization
    Requests,       \* slots for requests the API handles at the same time
    Offered,        \* bound: the roles that are given
    MaxCalls,       \* bound: requests in all
    MaxInvites,     \* bound: invitations
    MaxTokens,      \* bound: links of one invitation (1 + resends)
    Attempts,       \* EMAIL_JOB_OPTIONS.attempts
    StallLimit,     \* BullMQ's maxStalledCount
    ApiMayCrash     \* the API process may die between two queries

Roles == {"ADMIN", "REVIEWER", "VIEWER"}

ASSUME UsersAssumption == Founder \in Users
ASSUME BoundsAssumption ==
    /\ "ADMIN" \in Offered /\ Offered \subseteq Roles /\ MaxCalls \in Nat
    /\ MaxInvites \in Nat /\ MaxTokens \in Nat \ {0}
    /\ Attempts \in Nat \ {0} /\ StallLimit \in Nat
    /\ ApiMayCrash \in BOOLEAN

VARIABLES
    member,         \* the membership rows: role and row identity
    created,        \* invitations 1..created exist
    inv,            \* the invitation rows
    smtp,           \* whether the API and the worker have a mail server
    mail,           \* the email job of each invitation and token
    joins,          \* history: who joined by which invitation and token
    req,            \* requests in progress
    calls           \* requests so far

vars == <<member, created, inv, smtp, mail, joins, req, calls>>

-----------------------------------------------------------------------------
InviteIds == 1..MaxInvites
Tokens == 1..MaxTokens
NoInvite == 0

MailStatuses == {"PENDING", "SENT", "FAILED", "NOT_CONFIGURED"}

Membership == [role : Roles \cup {"none"}, row : Nat]
Invitation == [email : Users, role : Roles, token : 0..MaxTokens,
               accepted : BOOLEAN, revoked : BOOLEAN, expired : BOOLEAN,
               mail : MailStatuses]
NoRow == [email |-> Founder, role |-> "VIEWER", token |-> 0,
          accepted |-> FALSE, revoked |-> FALSE, expired |-> FALSE,
          mail |-> "PENDING"]

MailPcs == {"none", "waiting", "send", "settle", "gone"}

(* `lost`: BullMQ failed the job, after a stall or an error of a query.    *)
MailJob == [pc : MailPcs, made : Nat, stalls : Nat, result : MailStatuses,
            lost : BOOLEAN]
NoMail == [pc |-> "none", made |-> 0, stalls |-> 0, result |-> "PENDING",
           lost |-> FALSE]

ReqPcs == {"idle", "member", "pending", "create", "enqueue", "mark",
           "open", "replace", "revocable", "revoke",
           "find", "lock", "write", "link", "joined", "claim"}
Request == [pc : ReqPcs, user : Users, role : Roles \cup {"none"},
            inv : InviteIds \cup {NoInvite}, token : 0..MaxTokens,
            seen : Membership, locks : SUBSET Users]
NoRequest == [pc |-> "idle", user |-> Founder, role |-> "none",
              inv |-> NoInvite, token |-> 0,
              seen |-> [role |-> "none", row |-> 0], locks |-> {}]

TypeOK ==
    /\ member \in [Users -> Membership]
    /\ created \in 0..MaxInvites
    /\ inv \in [InviteIds -> Invitation]
    /\ smtp \in [api : BOOLEAN, worker : BOOLEAN]
    /\ mail \in [InviteIds \X Tokens -> MailJob]
    /\ joins \subseteq Users \X InviteIds \X Tokens
    /\ req \in [Requests -> Request]
    /\ calls \in 0..MaxCalls

(* OrganizationsService.create makes the creator the first Admin; others   *)
(* may have joined before the invitations that are followed here.          *)
Init ==
    /\ \E role \in [Users -> Offered \cup {"none"}] :
           /\ role[Founder] = "ADMIN"
           /\ member = [u \in Users |->
                 [role |-> role[u], row |-> IF role[u] = "none" THEN 0 ELSE 1]]
    /\ created = 0
    /\ inv = [i \in InviteIds |-> NoRow]
    /\ smtp \in [api : BOOLEAN, worker : BOOLEAN]
    /\ mail = [k \in InviteIds \X Tokens |-> NoMail]
    /\ joins = {}
    /\ req = [r \in Requests |-> NoRequest]
    /\ calls = 0

-----------------------------------------------------------------------------
Admins == {u \in Users : member[u].role = "ADMIN"}

(* OrgRolesGuard: the caller of an Admin route is an Admin when it starts. *)
CalledByAdmin == Admins # {}

Closed(i) == inv[i].accepted \/ inv[i].revoked
Pending(i) == i <= created /\ ~Closed(i) /\ ~inv[i].expired    \* statusOf

Start(r, q) ==
    /\ req[r].pc = "idle" /\ calls < MaxCalls
    /\ req' = [req EXCEPT ![r] = q]
    /\ calls' = calls + 1
Continue(r, pc) == req' = [req EXCEPT ![r].pc = pc] /\ UNCHANGED calls
Done(r) == req' = [req EXCEPT ![r] = NoRequest] /\ UNCHANGED calls
Become(r, q) == req' = [req EXCEPT ![r] = q] /\ UNCHANGED calls

-----------------------------------------------------------------------------
(* Invitations: invite.                                                    *)

StartInvite(r, u, ro) ==
    /\ CalledByAdmin
    /\ Start(r, [NoRequest EXCEPT !.pc = "member", !.user = u, !.role = ro])
    /\ UNCHANGED <<member, created, inv, smtp, mail, joins>>

InviteCheckMember(r) ==
    /\ req[r].pc = "member"
    /\ IF member[req[r].user].role # "none" THEN Done(r)
       ELSE Continue(r, "pending")
    /\ UNCHANGED <<member, created, inv, smtp, mail, joins>>

InviteCheckPending(r) ==
    /\ req[r].pc = "pending"
    /\ IF \E i \in InviteIds : Pending(i) /\ inv[i].email = req[r].user
       THEN Done(r) ELSE Continue(r, "create")
    /\ UNCHANGED <<member, created, inv, smtp, mail, joins>>

FirstMailStatus == IF smtp.api THEN "PENDING" ELSE "NOT_CONFIGURED"

CreateInvite(r) ==
    LET i == created + 1
    IN  /\ req[r].pc = "create"
        /\ created < MaxInvites
        /\ created' = i
        /\ inv' = [inv EXCEPT ![i] = [NoRow EXCEPT !.email = req[r].user,
                                                   !.role = req[r].role,
                                                   !.token = 1,
                                                   !.mail = FirstMailStatus]]
        /\ IF smtp.api
           THEN Become(r, [NoRequest EXCEPT !.pc = "enqueue", !.inv = i,
                                            !.token = 1])
           ELSE Done(r)
        /\ UNCHANGED <<member, smtp, mail, joins>>

(* enqueueEmail.                                                           *)
EnqueueEmail(r) ==
    /\ req[r].pc = "enqueue"
    /\ mail' = [mail EXCEPT ![<<req[r].inv, req[r].token>>] =
                              [NoMail EXCEPT !.pc = "waiting"]]
    /\ Done(r)
    /\ UNCHANGED <<member, created, inv, smtp, joins>>

EnqueueThrows(r) ==
    /\ req[r].pc = "enqueue"
    /\ Continue(r, "mark")
    /\ UNCHANGED <<member, created, inv, smtp, mail, joins>>

(* The failure is written whatever the row holds by now.                   *)
MarkUnsent(r) ==
    /\ req[r].pc = "mark"
    /\ inv' = [inv EXCEPT ![req[r].inv].mail = "FAILED"]
    /\ Done(r)
    /\ UNCHANGED <<member, created, smtp, mail, joins>>

-----------------------------------------------------------------------------
(* Invitations: resend and revoke.                                         *)

StartResend(r, i) ==
    /\ CalledByAdmin
    /\ i <= created
    /\ Start(r, [NoRequest EXCEPT !.pc = "open", !.inv = i])
    /\ UNCHANGED <<member, created, inv, smtp, mail, joins>>

AssertOpen(r) ==
    /\ req[r].pc = "open"
    /\ IF Closed(req[r].inv) THEN Done(r) ELSE Continue(r, "replace")
    /\ UNCHANGED <<member, created, inv, smtp, mail, joins>>

ResendReplace(r) ==
    LET i == req[r].inv
        next == inv[i].token + 1
    IN  /\ req[r].pc = "replace"
        /\ ~Closed(i)
        /\ next <= MaxTokens
        /\ inv' = [inv EXCEPT ![i] = [inv[i] EXCEPT !.token = next,
                                                    !.expired = FALSE,
                                                    !.mail = FirstMailStatus]]
        /\ IF smtp.api
           THEN Become(r, [req[r] EXCEPT !.pc = "enqueue", !.token = next])
           ELSE Done(r)
        /\ UNCHANGED <<member, created, smtp, mail, joins>>

ResendTooLate(r) ==
    /\ req[r].pc = "replace"
    /\ Closed(req[r].inv)
    /\ Done(r)
    /\ UNCHANGED <<member, created, inv, smtp, mail, joins>>

StartRevoke(r, i) ==
    /\ CalledByAdmin
    /\ i <= created
    /\ Start(r, [NoRequest EXCEPT !.pc = "revocable", !.inv = i])
    /\ UNCHANGED <<member, created, inv, smtp, mail, joins>>

RevokeFind(r) ==
    /\ req[r].pc = "revocable"
    /\ IF Closed(req[r].inv) THEN Done(r) ELSE Continue(r, "revoke")
    /\ UNCHANGED <<member, created, inv, smtp, mail, joins>>

(* Mutant of Revocable: an accepted invitation is revoked as well.         *)
RevocableAlways(i) == TRUE

Revocable(i) == ~Closed(i)

Revoke(r) ==
    LET i == req[r].inv
    IN  /\ req[r].pc = "revoke"
        /\ inv' = IF Revocable(i) THEN [inv EXCEPT ![i].revoked = TRUE]
                  ELSE inv
        /\ Done(r)
        /\ UNCHANGED <<member, created, smtp, mail, joins>>

(* Seven days pass.                                                        *)
Expire(i) ==
    /\ Pending(i)
    /\ inv' = [inv EXCEPT ![i].expired = TRUE]
    /\ UNCHANGED <<member, created, smtp, mail, joins, req, calls>>

-----------------------------------------------------------------------------
(* changeRole and remove.                                                  *)

Locked(r) == UNION {req[q].locks : q \in Requests \ {r}}

StartChange(r, u, ro) ==
    /\ CalledByAdmin
    /\ Start(r, [NoRequest EXCEPT !.pc = "find", !.user = u, !.role = ro])
    /\ UNCHANGED <<member, created, inv, smtp, mail, joins>>

(* The role is read before anything is locked.                             *)
FindMember(r) ==
    LET m == member[req[r].user]
    IN  /\ req[r].pc = "find"
        /\ IF m.role \in {"none", req[r].role} THEN Done(r)
           ELSE Become(r, [req[r] EXCEPT !.seen = m,
                                       !.pc = IF m.role = "ADMIN" THEN "lock"
                                              ELSE "write"])
        /\ UNCHANGED <<member, created, inv, smtp, mail, joins>>

(* Mutant of LockAdmins: the Admins are counted without locking them.      *)
CountAdmins(r) ==
    /\ req[r].pc = "lock"
    /\ IF Admins \subseteq {req[r].user} THEN Done(r) ELSE Continue(r, "write")
    /\ UNCHANGED <<member, created, inv, smtp, mail, joins>>

(* assertAnotherAdmin: SELECT ... FOR UPDATE waits for rows that another   *)
(* transaction holds, and returns those that are still Admins.             *)
LockAdmins(r) ==
    /\ req[r].pc = "lock"
    /\ Admins \cap Locked(r) = {}
    /\ IF Admins \subseteq {req[r].user} THEN Done(r)
       ELSE Become(r, [req[r] EXCEPT !.pc = "write", !.locks = Admins])
    /\ UNCHANGED <<member, created, inv, smtp, mail, joins>>

(* The update or delete by row id, and the commit.                         *)
WriteMember(r) ==
    LET u == req[r].user
    IN  /\ req[r].pc = "write"
        /\ u \notin Locked(r)
        /\ member' = IF member[u].row = req[r].seen.row
                        /\ member[u].role # "none"
                     THEN [member EXCEPT ![u].role = req[r].role] ELSE member
        /\ Done(r)
        /\ UNCHANGED <<created, inv, smtp, mail, joins>>

-----------------------------------------------------------------------------
(* accept.                                                                 *)

StartAccept(r, u, i, t) ==
    /\ i <= created
    /\ t <= inv[i].token
    /\ Start(r, [NoRequest EXCEPT !.pc = "link", !.user = u, !.inv = i,
                                  !.token = t])
    /\ UNCHANGED <<member, created, inv, smtp, mail, joins>>

(* findByToken and statusOf.                                               *)
AcceptFind(r) ==
    /\ req[r].pc = "link"
    /\ IF Pending(req[r].inv) /\ inv[req[r].inv].token = req[r].token
       THEN Continue(r, "joined") ELSE Done(r)
    /\ UNCHANGED <<member, created, inv, smtp, mail, joins>>

AcceptCheckMember(r) ==
    /\ req[r].pc = "joined"
    /\ IF member[req[r].user].role # "none" THEN Done(r)
       ELSE Continue(r, "claim")
    /\ UNCHANGED <<member, created, inv, smtp, mail, joins>>

(* Mutants of Claimable: the link is not compared; a used one is claimed.  *)
ClaimAnyLink(i, t) == ~Closed(i)
ClaimUsed(i, t) == ~inv[i].revoked /\ inv[i].token = t

(* The condition of the claim.  Its `now` is that of AcceptFind, so the    *)
(* expiry it compares with can only have moved away.                       *)
Claimable(i, t) == ~Closed(i) /\ inv[i].token = t

(* The claim, the upsert of the membership and the commit.                 *)
AcceptClaim(r) ==
    LET u == req[r].user
        i == req[r].inv
        m == member[u]
    IN  /\ req[r].pc = "claim"
        /\ u \notin Locked(r)
        /\ IF Claimable(i, req[r].token)
           THEN /\ inv' = [inv EXCEPT ![i].accepted = TRUE]
                /\ member' = [member EXCEPT ![u] =
                                [role |-> inv[i].role,
                                 row |-> IF m.role = "none" THEN m.row + 1
                                         ELSE m.row]]
                /\ joins' = joins \cup {<<u, i, req[r].token>>}
           ELSE UNCHANGED <<inv, member, joins>>
        /\ Done(r)
        /\ UNCHANGED <<created, smtp, mail>>

(* The API process dies; an open transaction is rolled back.               *)
ApiCrash(r) ==
    /\ ApiMayCrash
    /\ req[r].pc # "idle"
    /\ Done(r)
    /\ UNCHANGED <<member, created, inv, smtp, mail, joins>>

-----------------------------------------------------------------------------
(* InvitationEmailProcessor.                                               *)

(* Nothing to send: closed, expired, or resent since.                      *)
Skipped(i, t) == Closed(i) \/ inv[i].expired \/ inv[i].token # t

TakeMail(i, t) ==
    LET k == <<i, t>>
    IN  /\ mail[k].pc = "waiting"
        /\ mail' = [mail EXCEPT ![k] =
             IF Skipped(i, t) THEN [NoMail EXCEPT !.pc = "gone"]
             ELSE IF smtp.worker THEN [mail[k] EXCEPT !.pc = "send"]
             ELSE [mail[k] EXCEPT !.pc = "settle",
                                  !.result = "NOT_CONFIGURED"]]
        /\ UNCHANGED <<member, created, inv, smtp, joins, req, calls>>

SendMail(i, t) ==
    LET k == <<i, t>>
    IN  /\ mail[k].pc = "send"
        /\ mail' = [mail EXCEPT ![k] = [mail[k] EXCEPT !.pc = "settle",
                                                       !.result = "SENT"]]
        /\ UNCHANGED <<member, created, inv, smtp, joins, req, calls>>

(* Mutant of SendFails: the attempt that exhausts the job throws as well.  *)
SendFailsThrows(i, t, retryable) ==
    LET k == <<i, t>>
        made == mail[k].made + 1
    IN  /\ mail[k].pc = "send"
        /\ mail' = [mail EXCEPT ![k] =
             [mail[k] EXCEPT !.made = made,
                             !.pc = IF made < Attempts THEN "waiting"
                                    ELSE "gone"]]
        /\ UNCHANGED <<member, created, inv, smtp, joins, req, calls>>

SendFails(i, t, retryable) ==
    LET k == <<i, t>>
        lastAttempt == mail[k].made + 1 >= Attempts
    IN  /\ mail[k].pc = "send"
        /\ mail' = [mail EXCEPT ![k] =
             IF retryable /\ ~lastAttempt
             THEN [mail[k] EXCEPT !.pc = "waiting", !.made = @ + 1]
             ELSE [mail[k] EXCEPT !.pc = "settle", !.result = "FAILED"]]
        /\ UNCHANGED <<member, created, inv, smtp, joins, req, calls>>

(* settle: only while still pending.                                       *)
SettleMail(i, t) ==
    LET k == <<i, t>>
    IN  /\ mail[k].pc = "settle"
        /\ inv' = IF inv[i].mail = "PENDING"
                  THEN [inv EXCEPT ![i].mail = mail[k].result] ELSE inv
        /\ mail' = [mail EXCEPT ![k] = [NoMail EXCEPT !.pc = "gone"]]
        /\ UNCHANGED <<member, created, smtp, joins, req, calls>>

(* A query throws, the read of the invitation or settle's update: the job  *)
(* is tried again, and failed after its last attempt; nothing handles that.*)
MailThrows(i, t) ==
    LET k == <<i, t>>
    IN  /\ mail[k].pc \in {"waiting", "settle"}
        /\ mail' = [mail EXCEPT ![k] =
             IF mail[k].made + 1 < Attempts
             THEN [mail[k] EXCEPT !.pc = "waiting", !.made = @ + 1,
                                  !.result = "PENDING"]
             ELSE [NoMail EXCEPT !.pc = "gone", !.lost = TRUE]]
        /\ UNCHANGED <<member, created, inv, smtp, joins, req, calls>>

(* The worker dies, before its read or later; the stalled check gives the  *)
(* job to the next one, or fails a job that has stalled before.            *)
MailStalls(i, t) ==
    LET k == <<i, t>>
    IN  /\ mail[k].pc \in {"waiting", "send", "settle"}
        /\ mail' = [mail EXCEPT ![k] =
             IF mail[k].stalls < StallLimit
             THEN [mail[k] EXCEPT !.pc = "waiting", !.stalls = @ + 1,
                                  !.result = "PENDING"]
             ELSE [NoMail EXCEPT !.pc = "gone", !.lost = TRUE]]
        /\ UNCHANGED <<member, created, inv, smtp, joins, req, calls>>

-----------------------------------------------------------------------------
Arrive(r) ==
    \/ \E u \in Users, ro \in Offered : StartInvite(r, u, ro)
    \/ \E i \in InviteIds : StartResend(r, i) \/ StartRevoke(r, i)
    \/ \E u \in Users, ro \in Offered \cup {"none"} : StartChange(r, u, ro)
    \/ \E u \in Users, i \in InviteIds, t \in Tokens : StartAccept(r, u, i, t)

Handle(r) ==
    \/ InviteCheckMember(r) \/ InviteCheckPending(r) \/ CreateInvite(r)
    \/ EnqueueEmail(r) \/ EnqueueThrows(r) \/ MarkUnsent(r)
    \/ AssertOpen(r) \/ ResendReplace(r) \/ ResendTooLate(r)
    \/ RevokeFind(r) \/ Revoke(r)
    \/ FindMember(r) \/ LockAdmins(r) \/ WriteMember(r)
    \/ AcceptFind(r) \/ AcceptCheckMember(r) \/ AcceptClaim(r)

Deliver(i, t) ==
    \/ TakeMail(i, t) \/ SendMail(i, t)
    \/ \E retryable \in BOOLEAN : SendFails(i, t, retryable)
    \/ SettleMail(i, t)

Next ==
    \/ \E r \in Requests : Arrive(r) \/ Handle(r) \/ ApiCrash(r)
    \/ \E i \in InviteIds : Expire(i)
    \/ \E i \in InviteIds, t \in Tokens :
           Deliver(i, t) \/ MailThrows(i, t) \/ MailStalls(i, t)

Spec == Init /\ [][Next]_vars

-----------------------------------------------------------------------------
(* Safety.                                                                 *)

(* An invitation has one outcome: "one link makes one member" (accept's    *)
(* comment), though several people open it at the same moment, and nobody  *)
(* joins by one that is cancelled, though revoke and accept are each       *)
(* decided on an older reading of the row.                                 *)
OneOutcome ==
    \A i \in InviteIds :
        LET joined == {j \in joins : j[2] = i}
        IN  /\ Cardinality(joined) <= 1
            /\ inv[i].revoked => joined = {}

(* resend's comment: the old link stops working.  Whoever joined used the  *)
(* invitation's last link, and a used invitation gets no new one.          *)
JoinedByLastLink == \A j \in joins : j[3] = inv[j[2]].token

(* assertAnotherAdmin: "two Admins demoting each other at the same moment" *)
(* do not leave none.  Only a request that never counted the Admins,       *)
(* because it read another role, can take the last one.                    *)
CountedAdminsRemain ==
    [][Admins # {} /\ Admins' = {} =>
         \E r \in Requests :
             /\ req[r].pc \in {"write", "claim"} /\ req'[r].pc = "idle"
             /\ req[r].seen.role # "ADMIN"]_vars

(* An email job does not end with its link still shown as waiting to be    *)
(* sent, through retries, dying workers and resends, unless the invitation *)
(* was closed, expired or given another link.  Only a job that BullMQ      *)
(* itself fails leaves it so: one that stalled too often, or whose last    *)
(* attempt ended in an error of the database.  No failure of the mail      *)
(* server does, whichever attempt it ends.                                 *)
EmailJobSettles ==
    \A i \in InviteIds, t \in Tokens :
        LET m == mail[<<i, t>>]
        IN  m.pc = "gone" /\ ~m.lost /\ ~Skipped(i, t)
                => inv[i].mail # "PENDING"

(* MembersService: "an organization always keeps one Admin".               *)
AlwaysAnAdmin == Admins # {}

=============================================================================
