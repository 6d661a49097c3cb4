---------------------------- MODULE MembersProofs ----------------------------
(***************************************************************************)
(* Proofs about Members, for any number of people, concurrent requests,    *)
(* invitations, links, attempts and worker deaths.  The inductive          *)
(* invariant IInv has five parts, one section each: the types; what a      *)
(* request in progress may still rely on of its invitation; who joined by  *)
(* what; what an email job and its row say of each other; and the Admins   *)
(* that a request has counted and locked.                                  *)
(***************************************************************************)
EXTENDS Members, FiniteSetTheorems, TLAPS

USE UsersAssumption, BoundsAssumption

-----------------------------------------------------------------------------
(* Types.  A request that works on an invitation has one, and a link of it *)
(* where it needs one.                                                     *)

OnInvitation == {"enqueue", "mark", "open", "replace", "revocable", "revoke",
                 "link", "joined", "claim"}
OnLink == {"enqueue", "link", "joined", "claim"}

RequestOK(q) ==
    /\ q \in Request
    /\ q.pc \in OnInvitation => q.inv \in InviteIds
    /\ q.pc \in OnLink => q.token \in Tokens
    /\ q.pc \in {"member", "pending", "create"} => q.role \in Roles

TypeInv == TypeOK /\ \A r \in Requests : RequestOK(req[r])

RequestsTyped == /\ req' \in [Requests -> Request]
                 /\ \A r \in Requests : RequestOK(req'[r])

LEMMA NoRequestOK == RequestOK(NoRequest)
  BY DEF RequestOK, NoRequest, Request, ReqPcs, Membership, NoInvite,
     OnInvitation, OnLink

LEMMA SetRequest ==
  ASSUME TypeInv, NEW r \in Requests, NEW q, RequestOK(q),
         req' = [req EXCEPT ![r] = q]
  PROVE  RequestsTyped
  BY DEF TypeInv, TypeOK, RequestsTyped, RequestOK

LEMMA DoneTyped ==
  ASSUME TypeInv, NEW r \in Requests, Done(r)
  PROVE  RequestsTyped /\ calls' \in 0..MaxCalls
  BY NoRequestOK, SetRequest DEF Done, TypeInv, TypeOK

LEMMA BecomeTyped ==
  ASSUME TypeInv, NEW r \in Requests, NEW q, RequestOK(q), Become(r, q)
  PROVE  RequestsTyped /\ calls' \in 0..MaxCalls
  BY SetRequest DEF Become, TypeInv, TypeOK

LEMMA StartTyped ==
  ASSUME TypeInv, NEW r \in Requests, NEW q, RequestOK(q), Start(r, q)
  PROVE  RequestsTyped /\ calls' \in 0..MaxCalls
<1>1. RequestsTyped
  BY SetRequest DEF Start
<1>2. calls' \in 0..MaxCalls
  BY DEF Start, TypeInv, TypeOK
<1> QED
  BY <1>1, <1>2

(* From one program counter to a later one of the same handler.            *)
LEMMA ContinueTyped ==
  ASSUME TypeInv, NEW r \in Requests, NEW pc \in ReqPcs, Continue(r, pc),
         pc \in OnInvitation => req[r].pc \in OnInvitation,
         pc \in OnLink => req[r].pc \in OnLink,
         pc \in {"member", "pending", "create"} =>
             req[r].pc \in {"member", "pending", "create"}
  PROVE  RequestsTyped /\ calls' \in 0..MaxCalls
<1>1. RequestOK([req[r] EXCEPT !.pc = pc])
  BY DEF RequestOK, Request, TypeInv, TypeOK
<1> QED
  BY <1>1, SetRequest DEF Continue, TypeInv, TypeOK

LEMMA InitType == Init => TypeInv
<1> SUFFICES ASSUME Init PROVE TypeInv
  OBVIOUS
<1>1. member \in [Users -> Membership]
  BY DEF Init, Membership
<1>2. /\ inv \in [InviteIds -> Invitation]
      /\ mail \in [InviteIds \X Tokens -> MailJob]
      /\ created \in 0..MaxInvites /\ joins \subseteq Users \X InviteIds \X Tokens
      /\ calls \in 0..MaxCalls
  BY DEF Init, Invitation, NoRow, Roles, MailStatuses, MailJob, NoMail, MailPcs
<1>3. /\ req \in [Requests -> Request]
      /\ \A r \in Requests : RequestOK(req[r])
  BY NoRequestOK DEF Init, RequestOK
<1> QED
  BY <1>1, <1>2, <1>3 DEF TypeInv, TypeOK, Init

LEMMA ArriveType ==
  ASSUME NEW r \in Requests, TypeInv, Arrive(r) PROVE TypeInv'
<1> USE DEF RequestOK, NoRequest, OnInvitation, OnLink
<1>1. ASSUME NEW u \in Users, NEW ro \in Offered, StartInvite(r, u, ro)
      PROVE  RequestsTyped /\ calls' \in 0..MaxCalls
  <2>1. RequestOK([NoRequest EXCEPT !.pc = "member", !.user = u, !.role = ro])
    BY NoRequestOK DEF Request, ReqPcs
  <2> QED
    BY <1>1, <2>1, StartTyped DEF StartInvite
<1>2. ASSUME NEW i \in InviteIds, StartResend(r, i) \/ StartRevoke(r, i)
      PROVE  RequestsTyped /\ calls' \in 0..MaxCalls
  <2>1. /\ RequestOK([NoRequest EXCEPT !.pc = "open", !.inv = i])
        /\ RequestOK([NoRequest EXCEPT !.pc = "revocable", !.inv = i])
    BY NoRequestOK DEF Request, ReqPcs
  <2> QED
    BY <1>2, <2>1, StartTyped DEF StartResend, StartRevoke
<1>3. ASSUME NEW u \in Users, NEW ro \in Offered \cup {"none"},
             StartChange(r, u, ro)
      PROVE  RequestsTyped /\ calls' \in 0..MaxCalls
  <2>1. RequestOK([NoRequest EXCEPT !.pc = "find", !.user = u, !.role = ro])
    BY NoRequestOK DEF Request, ReqPcs
  <2> QED
    BY <1>3, <2>1, StartTyped DEF StartChange
<1>4. ASSUME NEW u \in Users, NEW i \in InviteIds, NEW t \in Tokens,
             StartAccept(r, u, i, t)
      PROVE  RequestsTyped /\ calls' \in 0..MaxCalls
  <2>0. t \in 0..MaxTokens
    BY DEF Tokens
  <2>1. RequestOK([NoRequest EXCEPT !.pc = "link", !.user = u, !.inv = i,
                                    !.token = t])
    BY <2>0, NoRequestOK DEF Request, ReqPcs
  <2> QED
    BY <1>4, <2>1, StartTyped DEF StartAccept
<1>5. RequestsTyped /\ calls' \in 0..MaxCalls
  BY <1>1, <1>2, <1>3, <1>4 DEF Arrive
<1>6. UNCHANGED <<member, created, inv, smtp, mail, joins>>
  BY DEF Arrive, StartInvite, StartResend, StartRevoke, StartChange,
     StartAccept
<1> QED
  BY <1>5, <1>6 DEF TypeInv, TypeOK, RequestsTyped

(* What a handler's step does to the rows keeps their types.               *)
RowsTyped ==
    /\ member' \in [Users -> Membership]
    /\ created' \in 0..MaxInvites
    /\ inv' \in [InviteIds -> Invitation]
    /\ smtp' = smtp
    /\ mail' \in [InviteIds \X Tokens -> MailJob]
    /\ joins' \subseteq Users \X InviteIds \X Tokens

LEMMA SameRows ==
  ASSUME TypeInv, UNCHANGED <<member, created, inv, smtp, mail, joins>>
  PROVE  RowsTyped
  BY DEF TypeInv, TypeOK, RowsTyped

LEMMA Typed ==
  ASSUME TypeInv, RequestsTyped, calls' \in 0..MaxCalls, RowsTyped
  PROVE  TypeInv'
  BY DEF TypeInv, TypeOK, RequestsTyped, RowsTyped

-----------------------------------------------------------------------------
LEMMA InvitationWith ==
  ASSUME NEW row \in Invitation
  PROVE  /\ \A s \in MailStatuses : [row EXCEPT !.mail = s] \in Invitation
         /\ [row EXCEPT !.revoked = TRUE] \in Invitation
         /\ [row EXCEPT !.accepted = TRUE] \in Invitation
<1>1. \A s \in MailStatuses : [row EXCEPT !.mail = s] \in Invitation
  BY DEF Invitation
<1>2. [row EXCEPT !.revoked = TRUE] \in Invitation
  BY DEF Invitation
<1>3. [row EXCEPT !.accepted = TRUE] \in Invitation
  BY DEF Invitation
<1> QED
  BY <1>1, <1>2, <1>3

LEMMA InviteType ==
  ASSUME TypeInv, NEW r \in Requests,
         \/ InviteCheckMember(r) \/ InviteCheckPending(r) \/ CreateInvite(r)
         \/ EnqueueEmail(r) \/ EnqueueThrows(r) \/ MarkUnsent(r)
  PROVE  TypeInv'
<1>0. RequestOK(req[r]) /\ TypeOK
  BY DEF TypeInv
<1>1. CASE InviteCheckMember(r) \/ InviteCheckPending(r) \/ EnqueueThrows(r)
  <2>1. RequestsTyped /\ calls' \in 0..MaxCalls
    BY <1>1, DoneTyped, ContinueTyped
       DEF InviteCheckMember, InviteCheckPending, EnqueueThrows, ReqPcs,
           OnInvitation, OnLink
  <2> QED
    BY <1>1, <2>1, SameRows, Typed
       DEF InviteCheckMember, InviteCheckPending, EnqueueThrows
<1>2. CASE CreateInvite(r)
  <2> DEFINE i == created + 1
             q == [NoRequest EXCEPT !.pc = "enqueue", !.inv = i, !.token = 1]
  <2>1. i \in InviteIds /\ i \in 0..MaxInvites /\ 1 \in Tokens
        /\ 1 \in 0..MaxTokens
    BY <1>0, <1>2 DEF CreateInvite, TypeOK, InviteIds, Tokens
  <2>2. RequestOK(q)
    BY <2>1, NoRequestOK
       DEF RequestOK, Request, NoRequest, ReqPcs, OnInvitation, OnLink
  <2>3. RequestsTyped /\ calls' \in 0..MaxCalls
    BY <1>2, <2>2, DoneTyped, BecomeTyped DEF CreateInvite
  <2>4. [NoRow EXCEPT !.email = req[r].user, !.role = req[r].role, !.token = 1,
                      !.mail = FirstMailStatus] \in Invitation
    BY <1>0, <1>2, <2>1 DEF CreateInvite, RequestOK, Request, NoRow,
       Invitation, FirstMailStatus, MailStatuses
  <2>5. RowsTyped
    BY <1>0, <1>2, <2>1, <2>4 DEF CreateInvite, TypeOK, RowsTyped
  <2> QED
    BY <2>3, <2>5, Typed
<1>3. CASE EnqueueEmail(r)
  <2>1. RequestsTyped /\ calls' \in 0..MaxCalls
    BY <1>3, DoneTyped DEF EnqueueEmail
  <2>2. [NoMail EXCEPT !.pc = "waiting"] \in MailJob
    BY DEF NoMail, MailJob, MailPcs, MailStatuses
  <2>3. RowsTyped
    BY <1>0, <1>3, <2>2 DEF EnqueueEmail, TypeOK, RowsTyped
  <2> QED
    BY <2>1, <2>3, Typed
<1>4. CASE MarkUnsent(r)
  <2>1. RequestsTyped /\ calls' \in 0..MaxCalls
    BY <1>4, DoneTyped DEF MarkUnsent
  <2>2. PICK i : i = req[r].inv
    OBVIOUS
  <2>3. i \in InviteIds
    BY <1>0, <1>4, <2>2 DEF MarkUnsent, RequestOK, OnInvitation
  <2>4. [inv[i] EXCEPT !.mail = "FAILED"] \in Invitation
    BY <1>0, <2>3, InvitationWith DEF TypeOK, MailStatuses
  <2>5. inv' = [inv EXCEPT ![i] = [inv[i] EXCEPT !.mail = "FAILED"]]
    BY <1>4, <2>2 DEF MarkUnsent
  <2>6. inv' \in [InviteIds -> Invitation]
    BY <1>0, <2>4, <2>5 DEF TypeOK
  <2>7. RowsTyped
    BY <1>0, <1>4, <2>6 DEF MarkUnsent, TypeOK, RowsTyped
  <2> QED
    BY <2>1, <2>7, Typed
<1> QED
  BY <1>1, <1>2, <1>3, <1>4

LEMMA ReplaceType ==
  ASSUME TypeInv, NEW r \in Requests,
         \/ AssertOpen(r) \/ ResendReplace(r) \/ ResendTooLate(r)
         \/ RevokeFind(r) \/ Revoke(r)
  PROVE  TypeInv'
<1>0. RequestOK(req[r]) /\ TypeOK
  BY DEF TypeInv
<1>1. CASE AssertOpen(r) \/ ResendTooLate(r) \/ RevokeFind(r)
  <2>1. RequestsTyped /\ calls' \in 0..MaxCalls
    BY <1>1, DoneTyped, ContinueTyped
       DEF AssertOpen, ResendTooLate, RevokeFind, ReqPcs, OnInvitation, OnLink
  <2> QED
    BY <1>1, <2>1, SameRows, Typed DEF AssertOpen, ResendTooLate, RevokeFind
<1>2. CASE ResendReplace(r)
  <2> DEFINE i == req[r].inv
             next == inv[i].token + 1
  <2>1. i \in InviteIds /\ inv[i] \in Invitation
    BY <1>0, <1>2 DEF ResendReplace, RequestOK, OnInvitation, TypeOK
  <2>2. next \in Tokens /\ next \in 0..MaxTokens
    BY <1>2, <2>1 DEF ResendReplace, Invitation, Tokens
  <2> HIDE DEF next
  <2>3. RequestOK([req[r] EXCEPT !.pc = "enqueue", !.token = next])
    BY <1>0, <2>1, <2>2 DEF RequestOK, Request, ReqPcs, OnInvitation, OnLink
  <2>4. RequestsTyped /\ calls' \in 0..MaxCalls
    BY <1>2, <2>3, DoneTyped, BecomeTyped DEF ResendReplace, next
  <2>5. [inv[i] EXCEPT !.token = next, !.expired = FALSE,
                       !.mail = FirstMailStatus] \in Invitation
    BY <2>1, <2>2 DEF Invitation, FirstMailStatus, MailStatuses
  <2>6. RowsTyped
    BY <1>0, <1>2, <2>1, <2>5 DEF ResendReplace, TypeOK, RowsTyped, next
  <2> QED
    BY <2>4, <2>6, Typed
<1>3. CASE Revoke(r)
  <2>1. RequestsTyped /\ calls' \in 0..MaxCalls
    BY <1>3, DoneTyped DEF Revoke
  <2>2. PICK i : i = req[r].inv
    OBVIOUS
  <2>3. i \in InviteIds
    BY <1>0, <1>3, <2>2 DEF Revoke, RequestOK, OnInvitation
  <2>4. [inv[i] EXCEPT !.revoked = TRUE] \in Invitation
    BY <1>0, <2>3, InvitationWith DEF TypeOK
  <2>5. inv' = inv \/ inv' = [inv EXCEPT ![i] = [inv[i] EXCEPT !.revoked = TRUE]]
    BY <1>3, <2>2 DEF Revoke
  <2>6. inv' \in [InviteIds -> Invitation]
    BY <1>0, <2>4, <2>5 DEF TypeOK
  <2>7. RowsTyped
    BY <1>0, <1>3, <2>6 DEF Revoke, TypeOK, RowsTyped
  <2> QED
    BY <2>1, <2>7, Typed
<1> QED
  BY <1>1, <1>2, <1>3

LEMMA ChangeType ==
  ASSUME TypeInv, NEW r \in Requests,
         FindMember(r) \/ LockAdmins(r) \/ WriteMember(r)
  PROVE  TypeInv'
<1>0. RequestOK(req[r]) /\ TypeOK
  BY DEF TypeInv
<1>1. CASE FindMember(r)
  <2> DEFINE m == member[req[r].user]
             pc == IF m.role = "ADMIN" THEN "lock" ELSE "write"
  <2>1. m \in Membership /\ pc \in {"lock", "write"}
    BY <1>0 DEF RequestOK, Request, TypeOK
  <2> HIDE DEF m, pc
  <2>2. RequestOK([req[r] EXCEPT !.seen = m, !.pc = pc])
    BY <1>0, <2>1 DEF RequestOK, Request, ReqPcs, OnInvitation, OnLink
  <2>3. RequestsTyped /\ calls' \in 0..MaxCalls
    BY <1>1, <2>2, DoneTyped, BecomeTyped DEF FindMember, m, pc
  <2> QED
    BY <1>1, <2>3, SameRows, Typed DEF FindMember
<1>2. CASE LockAdmins(r)
  <2>1. RequestOK([req[r] EXCEPT !.pc = "write", !.locks = Admins])
    BY <1>0 DEF RequestOK, Request, ReqPcs, OnInvitation, OnLink, Admins
  <2>2. RequestsTyped /\ calls' \in 0..MaxCalls
    BY <1>2, <2>1, DoneTyped, BecomeTyped DEF LockAdmins
  <2> QED
    BY <1>2, <2>2, SameRows, Typed DEF LockAdmins
<1>3. CASE WriteMember(r)
  <2>1. RequestsTyped /\ calls' \in 0..MaxCalls
    BY <1>3, DoneTyped DEF WriteMember
  <2>2. member' \in [Users -> Membership]
    BY <1>0, <1>3 DEF WriteMember, TypeOK, RequestOK, Request, Membership
  <2> QED
    BY <1>0, <1>3, <2>1, <2>2, Typed DEF WriteMember, TypeOK, RowsTyped
<1> QED
  BY <1>1, <1>2, <1>3

LEMMA AcceptType ==
  ASSUME TypeInv, NEW r \in Requests,
         AcceptFind(r) \/ AcceptCheckMember(r) \/ AcceptClaim(r)
  PROVE  TypeInv'
<1>0. RequestOK(req[r]) /\ TypeOK
  BY DEF TypeInv
<1>1. CASE AcceptFind(r) \/ AcceptCheckMember(r)
  <2>1. RequestsTyped /\ calls' \in 0..MaxCalls
    BY <1>1, DoneTyped, ContinueTyped
       DEF AcceptFind, AcceptCheckMember, ReqPcs, OnInvitation, OnLink
  <2> QED
    BY <1>1, <2>1, SameRows, Typed DEF AcceptFind, AcceptCheckMember
<1>2. CASE AcceptClaim(r)
  <2> DEFINE u == req[r].user
             i == req[r].inv
             t == req[r].token
  <2>1. u \in Users /\ i \in InviteIds /\ t \in Tokens
    BY <1>0, <1>2 DEF AcceptClaim, RequestOK, Request, OnInvitation, OnLink
  <2>2. member[u].row \in Nat /\ member[u].row + 1 \in Nat
        /\ inv[i].role \in Roles
    BY <1>0, <2>1 DEF TypeOK, Membership, Invitation
  <2>3. RequestsTyped /\ calls' \in 0..MaxCalls
    BY <1>2, DoneTyped DEF AcceptClaim
  <2>4. member' \in [Users -> Membership]
    BY <1>0, <1>2, <2>1, <2>2 DEF AcceptClaim, TypeOK, Membership
  <2>5. inv' \in [InviteIds -> Invitation]
    <3>1. [inv[i] EXCEPT !.accepted = TRUE] \in Invitation
      BY <1>0, <2>1, InvitationWith DEF TypeOK
    <3>2. inv' = inv \/ inv' = [inv EXCEPT ![i] = [inv[i] EXCEPT !.accepted = TRUE]]
      BY <1>2 DEF AcceptClaim
    <3> QED
      BY <1>0, <3>1, <3>2 DEF TypeOK
  <2>6. joins' \subseteq Users \X InviteIds \X Tokens
    BY <1>0, <1>2, <2>1 DEF AcceptClaim, TypeOK
  <2>7. UNCHANGED <<created, smtp, mail>>
    BY <1>2 DEF AcceptClaim
  <2>8. RowsTyped
    BY <1>0, <2>4, <2>5, <2>6, <2>7 DEF TypeOK, RowsTyped
  <2> QED
    BY <2>3, <2>8, Typed
<1> QED
  BY <1>1, <1>2

-----------------------------------------------------------------------------
LEMMA MailType ==
  ASSUME TypeInv, NEW i \in InviteIds, NEW t \in Tokens,
         Deliver(i, t) \/ MailThrows(i, t) \/ MailStalls(i, t)
  PROVE  TypeInv'
<1>0. TypeOK /\ mail[<<i, t>>] \in MailJob
  BY DEF TypeInv, TypeOK
<1>1. mail' \in [InviteIds \X Tokens -> MailJob]
  <2> USE DEF MailJob, MailPcs, MailStatuses, NoMail
  <2>1. CASE TakeMail(i, t)
    BY <1>0, <2>1 DEF TakeMail, TypeOK
  <2>2. CASE SendMail(i, t)
    BY <1>0, <2>2 DEF SendMail, TypeOK
  <2>3. ASSUME NEW retryable \in BOOLEAN, SendFails(i, t, retryable)
        PROVE  mail' \in [InviteIds \X Tokens -> MailJob]
    <3>1. mail[<<i, t>>].made + 1 \in Nat
      BY <1>0
    <3> QED
      BY <1>0, <2>3, <3>1 DEF SendFails, TypeOK
  <2>4. CASE SettleMail(i, t)
    BY <1>0, <2>4 DEF SettleMail, TypeOK
  <2>5. CASE MailStalls(i, t)
    <3>1. mail[<<i, t>>].stalls + 1 \in Nat
      BY <1>0
    <3> QED
      BY <1>0, <2>5, <3>1 DEF MailStalls, TypeOK
  <2>6. CASE MailThrows(i, t)
    <3>1. mail[<<i, t>>].made + 1 \in Nat
      BY <1>0
    <3> QED
      BY <1>0, <2>6, <3>1 DEF MailThrows, TypeOK
  <2> QED
    BY <2>1, <2>2, <2>3, <2>4, <2>5, <2>6 DEF Deliver
<1>2. inv' \in [InviteIds -> Invitation]
  <2>1. CASE SettleMail(i, t)
    <3>1. mail[<<i, t>>].result \in MailStatuses /\ inv \in [InviteIds -> Invitation]
      BY <1>0 DEF MailJob, TypeOK
    <3>2. [inv[i] EXCEPT !.mail = mail[<<i, t>>].result] \in Invitation
      BY <3>1 DEF Invitation
    <3> QED
      BY <2>1, <3>1, <3>2 DEF SettleMail
  <2>2. CASE UNCHANGED inv
    BY <1>0, <2>2 DEF TypeOK
  <2> QED
    BY <2>1, <2>2 DEF Deliver, TakeMail, SendMail, SendFails, MailThrows,
       MailStalls
<1>3. UNCHANGED <<member, created, smtp, joins, req, calls>>
  BY DEF Deliver, TakeMail, SendMail, SendFails, SettleMail, MailThrows,
     MailStalls
<1> QED
  BY <1>1, <1>2, <1>3 DEF TypeInv, TypeOK

LEMMA StepType == TypeInv /\ [Next]_vars => TypeInv'
<1> SUFFICES ASSUME TypeInv, [Next]_vars PROVE TypeInv'
  OBVIOUS
<1>1. ASSUME NEW r \in Requests, Arrive(r) \/ Handle(r) \/ ApiCrash(r)
      PROVE  TypeInv'
  <2>1. CASE ApiCrash(r)
    BY <2>1, DoneTyped, SameRows, Typed DEF ApiCrash
  <2> QED
    BY <1>1, <2>1, ArriveType, InviteType, ReplaceType, ChangeType, AcceptType
       DEF Handle
<1>2. ASSUME NEW i \in InviteIds, Expire(i) PROVE TypeInv'
  BY <1>2 DEF Expire, TypeInv, TypeOK, Invitation
<1>3. ASSUME NEW i \in InviteIds, NEW t \in Tokens,
             Deliver(i, t) \/ MailThrows(i, t) \/ MailStalls(i, t)
      PROVE  TypeInv'
  BY <1>3, MailType
<1>4. CASE UNCHANGED vars
  BY <1>4 DEF vars, TypeInv, TypeOK
<1> QED
  BY <1>1, <1>2, <1>3, <1>4 DEF Next

(* Every variable keeps its type.                                          *)
THEOREM TypeCorrect == Spec => []TypeOK
<1>1. TypeInv => TypeOK
  BY DEF TypeInv
<1> QED
  BY <1>1, InitType, StepType, PTL DEF Spec

-----------------------------------------------------------------------------
(* Invitations.  A step leaves the invitations that exist in place, gives  *)
(* them later links only, and changes neither the link nor the closing of  *)
(* one that was accepted.                                                  *)

KeepsInvites ==
    /\ created <= created'
    /\ \A i \in InviteIds : i <= created =>
           /\ inv[i].token <= inv'[i].token
           /\ inv[i].accepted => /\ inv'[i].accepted
                                 /\ inv'[i].revoked = inv[i].revoked
                                 /\ inv'[i].token = inv[i].token

(* A request works on an invitation that exists, by a link it was given.   *)
Rooted(q) ==
    /\ q.pc \in OnInvitation => q.inv <= created
    /\ q.pc \in OnLink => q.token <= inv[q.inv].token

RequestInv == \A r \in Requests : Rooted(req[r])

LEMMA InvitesKept ==
  ASSUME TypeInv, RequestInv, [Next]_vars PROVE KeepsInvites
<1>0. /\ TypeOK /\ created \in Int
      /\ \A i \in InviteIds : inv[i].token \in Int /\ inv[i].token <= inv[i].token
      /\ \A r \in Requests : RequestOK(req[r])
  BY DEF TypeInv, TypeOK, Invitation
<1>1. ASSUME UNCHANGED <<created, inv>> PROVE KeepsInvites
  BY <1>0, <1>1 DEF KeepsInvites
<1>2. ASSUME NEW r \in Requests, CreateInvite(r) PROVE KeepsInvites
  BY <1>0, <1>2 DEF CreateInvite, KeepsInvites, TypeOK, InviteIds
<1>3. ASSUME NEW r \in Requests, MarkUnsent(r) PROVE KeepsInvites
  <2>1. \A i \in InviteIds : /\ inv'[i].token = inv[i].token
                             /\ inv'[i].accepted = inv[i].accepted
                             /\ inv'[i].revoked = inv[i].revoked
    BY <1>0, <1>3 DEF MarkUnsent, TypeOK, Invitation
  <2> QED
    BY <1>0, <1>3, <2>1 DEF MarkUnsent, KeepsInvites
<1>4. ASSUME NEW r \in Requests, ResendReplace(r) PROVE KeepsInvites
  <2>1. \A i \in InviteIds : inv[i].accepted => inv'[i] = inv[i]
    BY <1>0, <1>4 DEF ResendReplace, TypeOK, Closed
  <2>3. created <= created'
    BY <1>0, <1>4 DEF ResendReplace
  <2>2. \A i \in InviteIds : inv[i].token <= inv'[i].token
    <3>1. req[r].inv \in InviteIds
      BY <1>0, <1>4 DEF ResendReplace, RequestOK, OnInvitation
    <3>2. inv'[req[r].inv].token = inv[req[r].inv].token + 1
      BY <1>0, <1>4, <3>1 DEF ResendReplace, TypeOK, Invitation
    <3>3. \A i \in InviteIds : i # req[r].inv => inv'[i] = inv[i]
      BY <1>0, <1>4 DEF ResendReplace, TypeOK
    <3> QED
      BY <1>0, <3>1, <3>2, <3>3
  <2> QED
    BY <2>1, <2>2, <2>3 DEF KeepsInvites
<1>5. ASSUME NEW r \in Requests, Revoke(r) PROVE KeepsInvites
  <2>1. \A i \in InviteIds : inv[i].token <= inv'[i].token
    BY <1>0, <1>5 DEF Revoke, TypeOK, Invitation
  <2>2. \A i \in InviteIds : inv[i].accepted => inv'[i] = inv[i]
    BY <1>0, <1>5 DEF Revoke, TypeOK, Revocable, Closed
  <2>3. created <= created'
    BY <1>0, <1>5 DEF Revoke
  <2> QED
    BY <2>1, <2>2, <2>3 DEF KeepsInvites
<1>6. ASSUME NEW i \in InviteIds, Expire(i) PROVE KeepsInvites
  <2>1. \A j \in InviteIds : /\ inv'[j].token = inv[j].token
                             /\ inv'[j].accepted = inv[j].accepted
                             /\ inv'[j].revoked = inv[j].revoked
    BY <1>0, <1>6 DEF Expire, TypeOK, Invitation
  <2> QED
    BY <1>0, <1>6, <2>1 DEF Expire, KeepsInvites
<1>7. ASSUME NEW r \in Requests, AcceptClaim(r) PROVE KeepsInvites
  <2>1. \A i \in InviteIds : /\ inv'[i].token = inv[i].token
                             /\ inv[i].accepted => inv'[i].accepted
                             /\ inv'[i].revoked = inv[i].revoked
    BY <1>0, <1>7 DEF AcceptClaim, TypeOK, Invitation
  <2> QED
    BY <1>0, <1>7, <2>1 DEF AcceptClaim, KeepsInvites
<1>8. ASSUME NEW i \in InviteIds, NEW t \in Tokens, SettleMail(i, t)
      PROVE  KeepsInvites
  <2>1. \A j \in InviteIds : /\ inv'[j].token = inv[j].token
                             /\ inv'[j].accepted = inv[j].accepted
                             /\ inv'[j].revoked = inv[j].revoked
    BY <1>0, <1>8 DEF SettleMail, TypeOK, Invitation
  <2> QED
    BY <1>0, <1>8, <2>1 DEF SettleMail, KeepsInvites
<1>9. ASSUME NEW r \in Requests, Arrive(r) PROVE UNCHANGED <<created, inv>>
  BY <1>9 DEF Arrive, StartInvite, StartResend, StartRevoke, StartChange,
     StartAccept
<1>10. ASSUME NEW r \in Requests, Handle(r) PROVE KeepsInvites
  <2>1. \/ CreateInvite(r) \/ MarkUnsent(r) \/ ResendReplace(r) \/ Revoke(r)
        \/ AcceptClaim(r) \/ UNCHANGED <<created, inv>>
    BY <1>10 DEF Handle, InviteCheckMember, InviteCheckPending, EnqueueEmail,
       EnqueueThrows, AssertOpen, ResendTooLate, RevokeFind, FindMember,
       LockAdmins, WriteMember, AcceptFind, AcceptCheckMember
  <2> QED
    BY <1>1, <1>2, <1>3, <1>4, <1>5, <1>7, <2>1
<1>11. ASSUME NEW i \in InviteIds, NEW t \in Tokens,
              Deliver(i, t) \/ MailThrows(i, t) \/ MailStalls(i, t)
       PROVE  KeepsInvites
  <2>1. SettleMail(i, t) \/ UNCHANGED <<created, inv>>
    BY <1>11 DEF Deliver, TakeMail, SendMail, SendFails, MailThrows, MailStalls
  <2> QED
    BY <1>1, <1>8, <2>1
<1> QED
  BY <1>1, <1>6, <1>9, <1>10, <1>11 DEF Next, vars, ApiCrash

(* Whose request changes: the one the step is about.                       *)
LEMMA RootedStep ==
  ASSUME TypeInv, RequestInv, [Next]_vars PROVE RequestInv'
<1>0. /\ TypeOK /\ KeepsInvites /\ TypeInv' /\ created \in Int /\ created' \in Int
      /\ \A i \in InviteIds : inv[i].token \in Int /\ inv'[i].token \in Int
      /\ \A r \in Requests : RequestOK(req[r])
  BY InvitesKept, StepType DEF TypeInv, TypeOK, Invitation
<1>1. ASSUME NEW q, Rooted(q), RequestOK(q) PROVE Rooted(q)'
  <2>1. q.pc \in OnInvitation =>
            q.inv \in InviteIds /\ q.inv \in Int /\ q.inv <= created
    BY <1>1 DEF Rooted, RequestOK, InviteIds
  <2>2. q.pc \in OnLink => q.pc \in OnInvitation /\ q.token \in Int
    BY <1>1 DEF RequestOK, OnLink, OnInvitation, Tokens
  <2> QED
    BY <1>0, <1>1, <2>1, <2>2 DEF Rooted, KeepsInvites
<1>2. ASSUME NEW r \in Requests, NEW q, Rooted(q)', req' = [req EXCEPT ![r] = q]
      PROVE  RequestInv'
  BY <1>0, <1>1, <1>2 DEF RequestInv, Rooted, TypeOK
<1>3. ASSUME NEW r \in Requests, Done(r) PROVE RequestInv'
  <2>1. Rooted(NoRequest)'
    BY DEF Rooted, NoRequest, OnInvitation, OnLink
  <2> QED
    BY <1>2, <1>3, <2>1 DEF Done
<1>4. ASSUME NEW r \in Requests, NEW pc \in ReqPcs, Continue(r, pc),
             pc \in OnInvitation => req[r].pc \in OnInvitation,
             pc \in OnLink => req[r].pc \in OnLink
      PROVE  RequestInv'
  <2>1. PICK p : p = req[r]
    OBVIOUS
  <2>2. PICK q : q = [p EXCEPT !.pc = pc]
    OBVIOUS
  <2>3. Rooted(p) /\ RequestOK(p)
    BY <1>0, <2>1 DEF RequestInv
  <2>4. Rooted(p)'
    BY <1>1, <2>3
  <2>5. q.pc = pc /\ q.inv = p.inv /\ q.token = p.token
    BY <2>2, <2>3 DEF RequestOK, Request
  <2>6. Rooted(q)'
    BY <1>4, <2>1, <2>4, <2>5 DEF Rooted
  <2>7. req' = [req EXCEPT ![r] = q]
    BY <1>4, <2>1, <2>2 DEF Continue
  <2> QED
    BY <1>2, <2>6, <2>7
<1>5. ASSUME UNCHANGED req PROVE RequestInv'
  <2> SUFFICES ASSUME NEW r \in Requests PROVE Rooted(req[r])'
    BY DEF RequestInv
  <2>1. PICK p : p = req[r]
    OBVIOUS
  <2>2. Rooted(p)'
    BY <1>0, <1>1, <2>1 DEF RequestInv
  <2> QED
    BY <1>5, <2>1, <2>2 DEF Rooted
<1>6. ASSUME NEW r \in Requests, NEW q, Start(r, q), Rooted(q)' PROVE RequestInv'
  BY <1>2, <1>6 DEF Start
<1>7. ASSUME NEW r \in Requests, Arrive(r) PROVE RequestInv'
  <2> USE DEF NoRequest, OnInvitation, OnLink
  <2>1. ASSUME NEW u \in Users, NEW ro \in Offered, StartInvite(r, u, ro)
        PROVE  RequestInv'
    <3>1. Rooted([NoRequest EXCEPT !.pc = "member", !.user = u, !.role = ro])'
      BY DEF Rooted
    <3> QED
      BY <1>6, <2>1, <3>1 DEF StartInvite
  <2>2. ASSUME NEW i \in InviteIds, StartResend(r, i) \/ StartRevoke(r, i)
        PROVE  RequestInv'
    <3>1. created' = created /\ i <= created
      BY <2>2 DEF StartResend, StartRevoke
    <3>2. /\ Rooted([NoRequest EXCEPT !.pc = "open", !.inv = i])'
          /\ Rooted([NoRequest EXCEPT !.pc = "revocable", !.inv = i])'
      BY <3>1 DEF Rooted
    <3> QED
      BY <1>6, <2>2, <3>2 DEF StartResend, StartRevoke
  <2>3. ASSUME NEW u \in Users, NEW ro \in Offered \cup {"none"},
               StartChange(r, u, ro)
        PROVE  RequestInv'
    <3>1. Rooted([NoRequest EXCEPT !.pc = "find", !.user = u, !.role = ro])'
      BY DEF Rooted
    <3> QED
      BY <1>6, <2>3, <3>1 DEF StartChange
  <2>4. ASSUME NEW u \in Users, NEW i \in InviteIds, NEW t \in Tokens,
               StartAccept(r, u, i, t)
        PROVE  RequestInv'
    <3>1. /\ created' = created /\ i <= created
          /\ inv' = inv /\ t <= inv[i].token
      BY <2>4 DEF StartAccept
    <3>2. Rooted([NoRequest EXCEPT !.pc = "link", !.user = u, !.inv = i,
                                   !.token = t])'
      BY <3>1 DEF Rooted
    <3> QED
      BY <1>6, <2>4, <3>2 DEF StartAccept
  <2> QED
    BY <1>7, <2>1, <2>2, <2>3, <2>4 DEF Arrive
<1>8. ASSUME NEW r \in Requests, CreateInvite(r) PROVE RequestInv'
  <2>1. PICK i : i = created + 1
    OBVIOUS
  <2>2. PICK q : q = [NoRequest EXCEPT !.pc = "enqueue", !.inv = i, !.token = 1]
    OBVIOUS
  <2>3. /\ i \in InviteIds /\ i = created'
        /\ inv'[i].token = 1 /\ 1 <= 1 /\ i <= i
    BY <1>0, <1>8, <2>1 DEF CreateInvite, TypeOK, InviteIds, NoRow
  <2>4. q.inv = i /\ q.token = 1
    BY <2>2 DEF NoRequest
  <2>5. Rooted(q)'
    BY <2>3, <2>4 DEF Rooted
  <2>6. Done(r) \/ req' = [req EXCEPT ![r] = q]
    BY <1>8, <2>1, <2>2 DEF CreateInvite, Become
  <2> QED
    BY <1>2, <1>3, <2>5, <2>6
<1>9. ASSUME NEW r \in Requests, ResendReplace(r) PROVE RequestInv'
  <2>1. PICK i : i = req[r].inv
    OBVIOUS
  <2>2. PICK t : t = inv[i].token + 1
    OBVIOUS
  <2>3. PICK q : q = [req[r] EXCEPT !.pc = "enqueue", !.token = t]
    OBVIOUS
  <2>4. i \in InviteIds /\ i <= created
    BY <1>0, <1>9, <2>1
       DEF ResendReplace, RequestInv, Rooted, RequestOK, OnInvitation
  <2>5. q.inv = i /\ q.token = t
    BY <1>0, <2>1, <2>3 DEF RequestOK, Request
  <2>6. t \in Int /\ t <= t /\ inv'[i].token = t /\ created' = created
    BY <1>0, <1>9, <2>1, <2>2, <2>4 DEF ResendReplace, TypeOK, Invitation
  <2>7. Rooted(q)'
    BY <2>4, <2>5, <2>6 DEF Rooted
  <2>8. Done(r) \/ req' = [req EXCEPT ![r] = q]
    BY <1>9, <2>1, <2>2, <2>3 DEF ResendReplace, Become
  <2> QED
    BY <1>2, <1>3, <2>7, <2>8
<1>10. ASSUME NEW r \in Requests, FindMember(r) \/ LockAdmins(r)
       PROVE  RequestInv'
  <2>1. \E q : /\ q.pc \in {"lock", "write"}
               /\ Done(r) \/ req' = [req EXCEPT ![r] = q]
    <3>1. CASE FindMember(r)
      <4>0. PICK m : m = member[req[r].user]
        OBVIOUS
      <4>1. PICK pc : pc = IF m.role = "ADMIN" THEN "lock" ELSE "write"
        OBVIOUS
      <4>2. PICK q : q = [req[r] EXCEPT !.seen = m, !.pc = pc]
        OBVIOUS
      <4>3. q.pc \in {"lock", "write"}
        BY <1>0, <4>1, <4>2 DEF RequestOK, Request
      <4>4. Done(r) \/ req' = [req EXCEPT ![r] = q]
        BY <3>1, <4>0, <4>1, <4>2 DEF FindMember, Become
      <4> QED
        BY <4>3, <4>4
    <3>2. CASE LockAdmins(r)
      <4>1. PICK q : q = [req[r] EXCEPT !.pc = "write", !.locks = Admins]
        OBVIOUS
      <4>2. q.pc \in {"lock", "write"}
        BY <1>0, <4>1 DEF RequestOK, Request
      <4>3. Done(r) \/ req' = [req EXCEPT ![r] = q]
        BY <3>2, <4>1 DEF LockAdmins, Become
      <4> QED
        BY <4>2, <4>3
    <3> QED
      BY <1>10, <3>1, <3>2
  <2>0. PICK q : /\ q.pc \in {"lock", "write"}
                 /\ Done(r) \/ req' = [req EXCEPT ![r] = q]
    BY <2>1
  <2>2. Rooted(q)'
    BY <2>0 DEF Rooted, OnInvitation, OnLink
  <2> QED
    BY <1>2, <1>3, <2>0, <2>2
<1>11. ASSUME NEW r \in Requests, Handle(r) PROVE RequestInv'
  <2>1. CASE \/ InviteCheckMember(r) \/ InviteCheckPending(r) \/ EnqueueEmail(r)
             \/ EnqueueThrows(r) \/ MarkUnsent(r) \/ AssertOpen(r)
             \/ ResendTooLate(r) \/ RevokeFind(r) \/ Revoke(r)
             \/ WriteMember(r) \/ AcceptFind(r) \/ AcceptCheckMember(r)
             \/ AcceptClaim(r)
    BY <1>3, <1>4, <2>1
       DEF InviteCheckMember, InviteCheckPending, EnqueueEmail, EnqueueThrows,
           MarkUnsent, AssertOpen, ResendTooLate, RevokeFind, Revoke,
           WriteMember, AcceptFind, AcceptCheckMember, AcceptClaim,
           ReqPcs, OnInvitation, OnLink
  <2> QED
    BY <1>8, <1>9, <1>10, <1>11, <2>1 DEF Handle
<1>12. ASSUME NEW i \in InviteIds, NEW t \in Tokens,
              Deliver(i, t) \/ MailThrows(i, t) \/ MailStalls(i, t)
       PROVE  UNCHANGED req
  BY <1>12 DEF Deliver, TakeMail, SendMail, SendFails, SettleMail, MailThrows,
     MailStalls
<1> QED
  BY <1>3, <1>5, <1>7, <1>11, <1>12 DEF Next, ApiCrash, Expire, vars

-----------------------------------------------------------------------------
(* Joining.  Somebody joined by an invitation only if it is accepted and   *)
(* not cancelled, by its last link, and nobody else did.                   *)

JoinInv ==
    /\ \A j \in joins : /\ j[2] <= created
                        /\ inv[j[2]].accepted /\ ~inv[j[2]].revoked
                        /\ j[3] = inv[j[2]].token
    /\ \A j, k \in joins : j[2] = k[2] => j = k

LEMMA JoinStep ==
  ASSUME TypeInv, RequestInv, JoinInv, [Next]_vars PROVE JoinInv'
<1>0. /\ TypeOK /\ KeepsInvites /\ created \in Int /\ created' \in Int
      /\ \A r \in Requests : RequestOK(req[r])
      /\ \A j \in joins : j[2] \in InviteIds /\ j[2] \in Int
  BY InvitesKept, StepType DEF TypeInv, TypeOK, InviteIds
<1>1. \A j \in joins : /\ j[2] <= created'
                       /\ inv'[j[2]].accepted
                       /\ inv'[j[2]].revoked = inv[j[2]].revoked
                       /\ j[3] = inv'[j[2]].token
  <2> SUFFICES ASSUME NEW j \in joins
               PROVE  /\ j[2] <= created'
                      /\ inv'[j[2]].accepted
                      /\ inv'[j[2]].revoked = inv[j[2]].revoked
                      /\ j[3] = inv'[j[2]].token
    OBVIOUS
  <2>1. j[2] <= created /\ inv[j[2]].accepted /\ j[3] = inv[j[2]].token
    BY DEF JoinInv
  <2>2. j[2] <= created'
    BY <1>0, <2>1 DEF KeepsInvites
  <2> QED
    BY <1>0, <2>1, <2>2 DEF KeepsInvites
<1>2. CASE joins' = joins
  BY <1>1, <1>2 DEF JoinInv
<1>3. ASSUME NEW r \in Requests, AcceptClaim(r), joins' # joins PROVE JoinInv'
  <2> DEFINE i == req[r].inv
             t == req[r].token
             j == <<req[r].user, i, t>>
  <2>1. i \in InviteIds /\ i <= created
    BY <1>0, <1>3
       DEF AcceptClaim, RequestInv, Rooted, RequestOK, OnInvitation
  <2>2. /\ Claimable(i, t) /\ inv' = [inv EXCEPT ![i].accepted = TRUE]
        /\ joins' = joins \cup {j} /\ created' = created
    BY <1>3 DEF AcceptClaim
  <2>3. ~inv[i].revoked /\ ~inv[i].accepted /\ inv[i].token = t
    BY <2>2 DEF Claimable, Closed
  <2>4. inv'[i].accepted /\ ~inv'[i].revoked /\ inv'[i].token = t
    BY <1>0, <2>1, <2>2, <2>3 DEF TypeOK, Invitation
  <2>5. \A k \in joins : k[2] # i
    BY <2>3 DEF JoinInv
  <2>6. j[2] = i /\ j[3] = t
    OBVIOUS
  <2> HIDE DEF i, t, j
  <2>7. \A k \in joins' : /\ k[2] <= created'
                          /\ inv'[k[2]].accepted /\ ~inv'[k[2]].revoked
                          /\ k[3] = inv'[k[2]].token
    BY <1>1, <2>1, <2>2, <2>4, <2>6 DEF JoinInv
  <2>8. \A k, l \in joins' : k[2] = l[2] => k = l
    BY <2>2, <2>5, <2>6 DEF JoinInv
  <2> QED
    BY <2>7, <2>8 DEF JoinInv
<1>4. joins' = joins \/ \E r \in Requests : AcceptClaim(r)
  <2>1. ASSUME NEW r \in Requests, Arrive(r) PROVE joins' = joins
    BY <2>1 DEF Arrive, StartInvite, StartResend, StartRevoke, StartChange,
       StartAccept
  <2>2. ASSUME NEW r \in Requests, Handle(r)
        PROVE  joins' = joins \/ AcceptClaim(r)
    BY <2>2 DEF Handle, InviteCheckMember, InviteCheckPending, CreateInvite,
       EnqueueEmail, EnqueueThrows, MarkUnsent, AssertOpen, ResendReplace,
       ResendTooLate, RevokeFind, Revoke, FindMember, LockAdmins, WriteMember,
       AcceptFind, AcceptCheckMember
  <2>3. ASSUME NEW i \in InviteIds, NEW t \in Tokens,
               Deliver(i, t) \/ MailThrows(i, t) \/ MailStalls(i, t)
        PROVE  joins' = joins
    BY <2>3 DEF Deliver, TakeMail, SendMail, SendFails, SettleMail, MailThrows,
       MailStalls
  <2> QED
    BY <2>1, <2>2, <2>3 DEF Next, ApiCrash, Expire, vars
<1> QED
  BY <1>2, <1>3, <1>4

LEMMA JoinInvIsEnough == TypeInv /\ JoinInv => OneOutcome /\ JoinedByLastLink
<1> SUFFICES ASSUME TypeInv, JoinInv PROVE OneOutcome /\ JoinedByLastLink
  OBVIOUS
<1>1. JoinedByLastLink
  BY DEF JoinInv, JoinedByLastLink
<1>2. ASSUME NEW i \in InviteIds
      PROVE  LET joined == {j \in joins : j[2] = i}
             IN  /\ Cardinality(joined) <= 1
                 /\ inv[i].revoked => joined = {}
  <2> DEFINE joined == {j \in joins : j[2] = i}
  <2>1. CASE joined = {}
    BY <2>1, FS_EmptySet
  <2>2. CASE joined # {}
    <3>1. PICK j \in joined : TRUE
      BY <2>2
    <3>2. joined = {j}
      BY <3>1 DEF JoinInv
    <3>3. ~inv[i].revoked
      BY <3>1 DEF JoinInv
    <3>4. Cardinality(joined) = 1
      BY <3>2, FS_Singleton
    <3> QED
      BY <3>3, <3>4
  <2> QED
    BY <2>1, <2>2
<1> QED
  BY <1>1, <1>2 DEF OneOutcome

-----------------------------------------------------------------------------
(* Email jobs.  A job is for a link that was handed out; the request that  *)
(* will add one still is at that link or an earlier one.  A job about to   *)
(* write its result has one.                                               *)

MailInv ==
    /\ \A i \in InviteIds, t \in Tokens :
           /\ mail[<<i, t>>].pc # "none" => i <= created /\ t <= inv[i].token
           /\ mail[<<i, t>>].pc = "settle" => mail[<<i, t>>].result # "PENDING"
    /\ EmailJobSettles

(* Links and the mail status of the invitations that a step has to keep.   *)
KeepsMail ==
    \A i \in InviteIds, t \in Tokens :
        i <= created /\ t <= inv[i].token =>
            /\ ~Skipped(i, t)' => ~Skipped(i, t)
            /\ inv[i].mail # "PENDING" /\ ~Skipped(i, t)' =>
                   inv'[i].mail # "PENDING"

LEMMA MailKept == ASSUME TypeInv, [Next]_vars PROVE KeepsMail
<1>0. TypeOK /\ created \in Int /\ \A r \in Requests : RequestOK(req[r])
  BY DEF TypeInv, TypeOK
<1> USE DEF Skipped, Closed
<1>1. CASE UNCHANGED inv
  BY <1>1 DEF KeepsMail
<1>2. ASSUME NEW r \in Requests, CreateInvite(r) PROVE KeepsMail
  BY <1>0, <1>2 DEF CreateInvite, KeepsMail, TypeOK, InviteIds
<1>3. ASSUME NEW r \in Requests, MarkUnsent(r) PROVE KeepsMail
  BY <1>0, <1>3 DEF MarkUnsent, KeepsMail, TypeOK, Invitation
<1>4. ASSUME NEW r \in Requests, ResendReplace(r) PROVE KeepsMail
  <2>1. PICK i \in InviteIds : i = req[r].inv
    BY <1>0, <1>4 DEF ResendReplace, RequestOK, OnInvitation
  <2>2. \A j \in InviteIds : j # i => inv'[j] = inv[j]
    BY <1>0, <1>4, <2>1 DEF ResendReplace, TypeOK
  <2>3. inv[i].token \in Int /\ inv'[i].token = inv[i].token + 1
    BY <1>0, <1>4, <2>1 DEF ResendReplace, TypeOK, Invitation
  <2>4. \A t \in Tokens : t <= inv[i].token => inv'[i].token # t
    BY <2>3 DEF Tokens
  <2>5. \A t \in Tokens : t <= inv[i].token => Skipped(i, t)'
    BY <2>4
  <2> QED
    BY <2>2, <2>5 DEF KeepsMail
<1>5. ASSUME NEW r \in Requests, Revoke(r) PROVE KeepsMail
  BY <1>0, <1>5 DEF Revoke, Revocable, KeepsMail, TypeOK, Invitation
<1>6. ASSUME NEW i \in InviteIds, Expire(i) PROVE KeepsMail
  BY <1>0, <1>6 DEF Expire, KeepsMail, TypeOK, Invitation
<1>7. ASSUME NEW r \in Requests, AcceptClaim(r) PROVE KeepsMail
  BY <1>0, <1>7 DEF AcceptClaim, KeepsMail, TypeOK, Invitation
<1>8. ASSUME NEW i \in InviteIds, NEW t \in Tokens, SettleMail(i, t)
      PROVE  KeepsMail
  BY <1>0, <1>8 DEF SettleMail, KeepsMail, TypeOK, Invitation
<1>9. ASSUME NEW r \in Requests, Arrive(r) PROVE UNCHANGED inv
  BY <1>9 DEF Arrive, StartInvite, StartResend, StartRevoke, StartChange,
     StartAccept
<1>10. ASSUME NEW r \in Requests, Handle(r) PROVE KeepsMail
  <2>1. \/ CreateInvite(r) \/ MarkUnsent(r) \/ ResendReplace(r) \/ Revoke(r)
        \/ AcceptClaim(r) \/ UNCHANGED inv
    BY <1>10 DEF Handle, InviteCheckMember, InviteCheckPending, EnqueueEmail,
       EnqueueThrows, AssertOpen, ResendTooLate, RevokeFind, FindMember,
       LockAdmins, WriteMember, AcceptFind, AcceptCheckMember
  <2> QED
    BY <1>1, <1>2, <1>3, <1>4, <1>5, <1>7, <2>1
<1>11. ASSUME NEW i \in InviteIds, NEW t \in Tokens,
              Deliver(i, t) \/ MailThrows(i, t) \/ MailStalls(i, t)
       PROVE  KeepsMail
  <2>1. SettleMail(i, t) \/ UNCHANGED inv
    BY <1>11 DEF Deliver, TakeMail, SendMail, SendFails, MailThrows, MailStalls
  <2> QED
    BY <1>1, <1>8, <2>1
<1> QED
  BY <1>1, <1>6, <1>9, <1>10, <1>11 DEF Next, vars, ApiCrash

MailOK(i, t) ==
    /\ mail[<<i, t>>].pc # "none" => i <= created /\ t <= inv[i].token
    /\ mail[<<i, t>>].pc = "settle" => mail[<<i, t>>].result # "PENDING"
    /\ mail[<<i, t>>].pc = "gone" /\ ~mail[<<i, t>>].lost /\ ~Skipped(i, t)
           => inv[i].mail # "PENDING"

LEMMA MailStep ==
  ASSUME TypeInv, RequestInv, MailInv, [Next]_vars PROVE MailInv'
<1>0. /\ TypeOK /\ KeepsInvites /\ KeepsMail
      /\ \A r \in Requests : RequestOK(req[r])
  BY InvitesKept, MailKept DEF TypeInv
<1>n. /\ created \in Int /\ created' \in Int
      /\ \A i \in InviteIds : inv[i].token \in Int /\ inv'[i].token \in Int
      /\ InviteIds \subseteq Int /\ Tokens \subseteq Int
  BY StepType DEF TypeInv, TypeOK, Invitation, InviteIds, Tokens
<1>1. \A i \in InviteIds, t \in Tokens : MailOK(i, t)
  BY DEF MailInv, MailOK, EmailJobSettles
<1>2. SUFFICES ASSUME NEW i \in InviteIds, NEW t \in Tokens PROVE MailOK(i, t)'
  BY DEF MailInv, MailOK, EmailJobSettles
<1>3. ASSUME NEW j \in InviteIds, NEW u \in Tokens,
             j <= created, u <= inv[j].token
      PROVE  j <= created' /\ u <= inv'[j].token
  <2>1. created <= created' /\ inv[j].token <= inv'[j].token
    BY <1>0, <1>3 DEF KeepsInvites
  <2>2. /\ created \in Int /\ created' \in Int /\ j \in Int /\ u \in Int
        /\ inv[j].token \in Int /\ inv'[j].token \in Int
    BY <1>n
  <2> QED
    BY <1>3, <2>1, <2>2
<1>4. ASSUME mail'[<<i, t>>] = mail[<<i, t>>] PROVE MailOK(i, t)'
  <2>1. mail[<<i, t>>].pc # "none" =>
            /\ i <= created /\ t <= inv[i].token
            /\ i <= created' /\ t <= inv'[i].token
    BY <1>1, <1>3 DEF MailOK
  <2>2. mail[<<i, t>>].pc = "gone" /\ ~mail[<<i, t>>].lost /\ ~Skipped(i, t)'
            => inv'[i].mail # "PENDING"
    BY <1>0, <1>1, <2>1 DEF MailOK, KeepsMail
  <2> QED
    BY <1>1, <1>4, <2>1, <2>2 DEF MailOK
<1>5. ASSUME NEW j \in InviteIds, NEW u \in Tokens, NEW m,
             j <= created, u <= inv[j].token,
             mail' = [mail EXCEPT ![<<j, u>>] = m],
             m.pc = "settle" => m.result # "PENDING",
             m.pc = "gone" =>
                 m.lost \/ Skipped(j, u)' \/ inv'[j].mail # "PENDING"
      PROVE  MailOK(i, t)'
  <2>1. CASE i = j /\ t = u
    <3>1. mail'[<<i, t>>] = m
      BY <1>0, <1>5, <2>1 DEF TypeOK
    <3> QED
      BY <1>3, <1>5, <2>1, <3>1 DEF MailOK
  <2>2. CASE ~(i = j /\ t = u)
    <3>1. mail'[<<i, t>>] = mail[<<i, t>>]
      BY <1>0, <1>5, <2>2 DEF TypeOK
    <3> QED
      BY <1>4, <3>1
  <2> QED
    BY <2>1, <2>2
<1>6. ASSUME NEW r \in Requests, EnqueueEmail(r) PROVE MailOK(i, t)'
  <2>1. PICK j \in InviteIds, u \in Tokens : j = req[r].inv /\ u = req[r].token
    BY <1>0, <1>6 DEF EnqueueEmail, RequestOK, OnInvitation, OnLink
  <2>2. j <= created /\ u <= inv[j].token
    BY <1>6, <2>1
       DEF EnqueueEmail, RequestInv, Rooted, OnInvitation, OnLink
  <2>3. PICK m : m = [NoMail EXCEPT !.pc = "waiting"]
    OBVIOUS
  <2>4. m.pc = "waiting"
    BY <2>3 DEF NoMail
  <2>5. mail' = [mail EXCEPT ![<<j, u>>] = m]
    BY <1>6, <2>1, <2>3 DEF EnqueueEmail
  <2> QED
    BY <1>5, <2>2, <2>4, <2>5
<1>7. ASSUME NEW j \in InviteIds, NEW u \in Tokens,
             Deliver(j, u) \/ MailThrows(j, u) \/ MailStalls(j, u)
      PROVE  MailOK(i, t)'
  <2>0. mail[<<j, u>>] \in MailJob
    BY <1>0 DEF TypeOK
  <2> USE DEF MailJob, NoMail
  <2>1. mail[<<j, u>>].pc # "none" => j <= created /\ u <= inv[j].token
    BY <1>1 DEF MailOK
  <2>2. CASE TakeMail(j, u)
    <3>1. PICK m : m = IF Skipped(j, u) THEN [NoMail EXCEPT !.pc = "gone"]
                       ELSE IF smtp.worker THEN [mail[<<j, u>>] EXCEPT !.pc = "send"]
                       ELSE [mail[<<j, u>>] EXCEPT !.pc = "settle",
                                                   !.result = "NOT_CONFIGURED"]
      OBVIOUS
    <3>2. mail' = [mail EXCEPT ![<<j, u>>] = m] /\ inv' = inv
          /\ mail[<<j, u>>].pc # "none"
      BY <2>2, <3>1 DEF TakeMail
    <3>3. /\ m.pc = "settle" => m.result # "PENDING"
          /\ m.pc = "gone" => Skipped(j, u)
      BY <2>0, <3>1
    <3>4. m.pc = "gone" => Skipped(j, u)'
      BY <3>2, <3>3 DEF Skipped, Closed
    <3> QED
      BY <1>5, <2>1, <3>2, <3>3, <3>4
  <2>3. CASE SendMail(j, u)
    <3>1. PICK m : m = [mail[<<j, u>>] EXCEPT !.pc = "settle", !.result = "SENT"]
      OBVIOUS
    <3>2. m.pc = "settle" /\ m.result = "SENT"
      BY <2>0, <3>1
    <3> QED
      BY <1>5, <2>1, <2>3, <3>1, <3>2 DEF SendMail
  <2>4. ASSUME NEW retryable \in BOOLEAN, SendFails(j, u, retryable)
        PROVE  MailOK(i, t)'
    <3>1. PICK m : /\ \/ m.pc = "waiting"
                      \/ m.pc = "settle" /\ m.result = "FAILED"
                   /\ mail' = [mail EXCEPT ![<<j, u>>] = m]
      <4>1. PICK m : m = [mail[<<j, u>>] EXCEPT !.pc = "waiting",
                                                !.made = mail[<<j, u>>].made + 1]
        OBVIOUS
      <4>2. PICK n : n = [mail[<<j, u>>] EXCEPT !.pc = "settle", !.result = "FAILED"]
        OBVIOUS
      <4>3. m.pc = "waiting" /\ n.pc = "settle" /\ n.result = "FAILED"
        BY <2>0, <4>1, <4>2
      <4>4. \/ mail' = [mail EXCEPT ![<<j, u>>] = m]
            \/ mail' = [mail EXCEPT ![<<j, u>>] = n]
        BY <2>4, <4>1, <4>2 DEF SendFails
      <4> QED
        BY <4>3, <4>4
    <3> QED
      BY <1>5, <2>1, <2>4, <3>1 DEF SendFails
  <2>5. CASE SettleMail(j, u)
    <3>1. PICK m : m = [NoMail EXCEPT !.pc = "gone"]
      OBVIOUS
    <3>2. m.pc = "gone"
      BY <3>1
    <3>3. mail[<<j, u>>].result # "PENDING"
      BY <1>1, <2>5 DEF SettleMail, MailOK
    <3>4. inv'[j].mail # "PENDING"
      BY <1>0, <2>5, <3>3 DEF SettleMail, TypeOK, Invitation
    <3> QED
      BY <1>5, <2>1, <2>5, <3>1, <3>2, <3>4 DEF SettleMail
  <2>6. CASE MailThrows(j, u) \/ MailStalls(j, u)
    <3>1. PICK m : /\ \/ m.pc = "waiting"
                      \/ m.pc = "gone" /\ m.lost
                   /\ mail' = [mail EXCEPT ![<<j, u>>] = m]
      <4>1. PICK m : m = [mail[<<j, u>>] EXCEPT !.pc = "waiting",
                                                !.made = mail[<<j, u>>].made + 1,
                                                !.result = "PENDING"]
        OBVIOUS
      <4>2. PICK n : n = [mail[<<j, u>>] EXCEPT
                              !.pc = "waiting",
                              !.stalls = mail[<<j, u>>].stalls + 1,
                              !.result = "PENDING"]
        OBVIOUS
      <4>3. PICK o : o = [NoMail EXCEPT !.pc = "gone", !.lost = TRUE]
        OBVIOUS
      <4>4. m.pc = "waiting" /\ n.pc = "waiting" /\ o.pc = "gone" /\ o.lost
        BY <2>0, <4>1, <4>2, <4>3
      <4>5. \/ mail' = [mail EXCEPT ![<<j, u>>] = m]
            \/ mail' = [mail EXCEPT ![<<j, u>>] = n]
            \/ mail' = [mail EXCEPT ![<<j, u>>] = o]
        BY <2>6, <4>1, <4>2, <4>3 DEF MailThrows, MailStalls
      <4> QED
        BY <4>4, <4>5
    <3>2. mail[<<j, u>>].pc # "none"
      BY <2>6 DEF MailThrows, MailStalls
    <3> QED
      BY <1>5, <2>1, <3>1, <3>2
  <2> QED
    BY <1>7, <2>2, <2>3, <2>4, <2>5, <2>6 DEF Deliver
<1>8. ASSUME NEW r \in Requests, Arrive(r) PROVE UNCHANGED mail
  BY <1>8 DEF Arrive, StartInvite, StartResend, StartRevoke, StartChange,
     StartAccept
<1>9. ASSUME NEW r \in Requests, Handle(r) PROVE EnqueueEmail(r) \/ UNCHANGED mail
  BY <1>9 DEF Handle, InviteCheckMember, InviteCheckPending, CreateInvite,
     EnqueueThrows, MarkUnsent, AssertOpen, ResendReplace, ResendTooLate,
     RevokeFind, Revoke, FindMember, LockAdmins, WriteMember, AcceptFind,
     AcceptCheckMember, AcceptClaim
<1> QED
  BY <1>4, <1>6, <1>7, <1>8, <1>9 DEF Next, vars, ApiCrash, Expire

-----------------------------------------------------------------------------
(* Admins.  Whoever counted the Admins to take one away holds the rows of  *)
(* all of them, so those are Admins until it has committed.                *)

Counted(q) ==
    /\ \A v \in q.locks : v \in Users /\ member[v].role = "ADMIN"
    /\ q.pc = "write" /\ q.seen.role = "ADMIN" => \E v \in q.locks : v # q.user
    /\ q.pc \in {"link", "joined", "claim"} => q.seen.role = "none"

AdminInv == \A r \in Requests : Counted(req[r])

(* A membership that another request has locked does not change.           *)
LEMMA LockedStay ==
  ASSUME TypeInv, NEW r \in Requests, WriteMember(r) \/ AcceptClaim(r),
         NEW q \in Requests, q # r, NEW v \in req[q].locks, v \in Users
  PROVE  member'[v] = member[v]
<1>1. req[r].user \notin Locked(r) /\ v \in Locked(r)
  BY DEF WriteMember, AcceptClaim, Locked
<1>2. member \in [Users -> Membership]
  BY DEF TypeInv, TypeOK
<1> QED
  BY <1>1, <1>2 DEF WriteMember, AcceptClaim

LEMMA AdminStep ==
  ASSUME TypeInv, AdminInv, [Next]_vars PROVE AdminInv'
<1>0. TypeOK /\ \A r \in Requests : RequestOK(req[r]) /\ Counted(req[r])
  BY DEF TypeInv, AdminInv
<1>1. ASSUME NEW r \in Requests, NEW q, req' = [req EXCEPT ![r] = q],
             member' = member, Counted(q)
      PROVE  AdminInv'
  BY <1>0, <1>1 DEF AdminInv, Counted, TypeOK
<1>2. Counted(NoRequest)
  BY DEF Counted, NoRequest
<1>3. ASSUME NEW r \in Requests, Done(r), member' = member PROVE AdminInv'
  BY <1>1, <1>2, <1>3 DEF Done
<1>4. ASSUME NEW r \in Requests, NEW pc \in ReqPcs, Continue(r, pc),
             member' = member, pc # "write",
             pc \in {"link", "joined", "claim"} =>
                 req[r].pc \in {"link", "joined", "claim"}
      PROVE  AdminInv'
  <2>1. PICK q : q = [req[r] EXCEPT !.pc = pc]
    OBVIOUS
  <2>2. q.pc = pc /\ q.locks = req[r].locks /\ q.seen = req[r].seen
    BY <1>0, <2>1 DEF RequestOK, Request
  <2>3. Counted(q)
    BY <1>0, <1>4, <2>2 DEF Counted
  <2> QED
    BY <1>1, <1>4, <2>1, <2>3 DEF Continue
<1>5. ASSUME NEW r \in Requests, Arrive(r) PROVE AdminInv'
  <2>1. ASSUME NEW q, Start(r, q), Counted(q) PROVE AdminInv'
    <3>1. member' = member
      BY <1>5 DEF Arrive, StartInvite, StartResend, StartRevoke, StartChange,
         StartAccept
    <3> QED
      BY <1>1, <2>1, <3>1 DEF Start
  <2> USE DEF Counted, NoRequest
  <2>2. \A u, ro : Counted([NoRequest EXCEPT !.pc = "member", !.user = u,
                                              !.role = ro])
    OBVIOUS
  <2>3. \A i : /\ Counted([NoRequest EXCEPT !.pc = "open", !.inv = i])
               /\ Counted([NoRequest EXCEPT !.pc = "revocable", !.inv = i])
    OBVIOUS
  <2>4. \A u, ro : Counted([NoRequest EXCEPT !.pc = "find", !.user = u, !.role = ro])
    OBVIOUS
  <2>5. \A u, i, t : Counted([NoRequest EXCEPT !.pc = "link", !.user = u,
                                               !.inv = i, !.token = t])
    OBVIOUS
  <2> HIDE DEF Counted, NoRequest
  <2>6. ASSUME NEW u \in Users, NEW ro \in Offered, StartInvite(r, u, ro)
        PROVE  AdminInv'
    BY <2>1, <2>2, <2>6 DEF StartInvite
  <2>7. ASSUME NEW i \in InviteIds, StartResend(r, i) \/ StartRevoke(r, i)
        PROVE  AdminInv'
    BY <2>1, <2>3, <2>7 DEF StartResend, StartRevoke
  <2>8. ASSUME NEW u \in Users, NEW ro \in Offered \cup {"none"},
               StartChange(r, u, ro)
        PROVE  AdminInv'
    BY <2>1, <2>4, <2>8 DEF StartChange
  <2>9. ASSUME NEW u \in Users, NEW i \in InviteIds, NEW t \in Tokens,
               StartAccept(r, u, i, t)
        PROVE  AdminInv'
    BY <2>1, <2>5, <2>9 DEF StartAccept
  <2> QED
    BY <1>5, <2>6, <2>7, <2>8, <2>9 DEF Arrive
<1>6. ASSUME NEW r \in Requests, CreateInvite(r) \/ ResendReplace(r)
      PROVE  AdminInv'
  <2>1. PICK i, t : \/ Done(r)
                    \/ Become(r, [NoRequest EXCEPT !.pc = "enqueue", !.inv = i,
                                                   !.token = 1])
                    \/ Become(r, [req[r] EXCEPT !.pc = "enqueue", !.token = t])
    BY <1>6 DEF CreateInvite, ResendReplace
  <2>2. member' = member
    BY <1>6 DEF CreateInvite, ResendReplace
  <2>3. PICK q : q = [NoRequest EXCEPT !.pc = "enqueue", !.inv = i, !.token = 1]
    OBVIOUS
  <2>4. PICK s : s = [req[r] EXCEPT !.pc = "enqueue", !.token = t]
    OBVIOUS
  <2>5. q.pc = "enqueue" /\ q.locks = {}
    BY <2>3 DEF NoRequest
  <2>6. s.pc = "enqueue" /\ s.locks = req[r].locks
    BY <1>0, <2>4 DEF RequestOK, Request
  <2>7. Counted(q) /\ Counted(s)
    BY <1>0, <2>5, <2>6 DEF Counted
  <2> QED
    BY <1>1, <1>3, <2>1, <2>2, <2>3, <2>4, <2>7 DEF Become
<1>7. ASSUME NEW r \in Requests, FindMember(r) PROVE AdminInv'
  <2>1. PICK m : m = member[req[r].user]
    OBVIOUS
  <2>2. PICK pc : pc = IF m.role = "ADMIN" THEN "lock" ELSE "write"
    OBVIOUS
  <2>3. PICK q : q = [req[r] EXCEPT !.seen = m, !.pc = pc]
    OBVIOUS
  <2>4. q.pc = pc /\ q.seen = m /\ q.locks = req[r].locks
    BY <1>0, <2>3 DEF RequestOK, Request
  <2>5. Counted(q)
    BY <1>0, <2>2, <2>4 DEF Counted
  <2>6. member' = member /\ (Done(r) \/ req' = [req EXCEPT ![r] = q])
    BY <1>7, <2>1, <2>2, <2>3 DEF FindMember, Become
  <2> QED
    BY <1>1, <1>3, <2>5, <2>6
<1>8. ASSUME NEW r \in Requests, LockAdmins(r) PROVE AdminInv'
  <2>1. PICK q : q = [req[r] EXCEPT !.pc = "write", !.locks = Admins]
    OBVIOUS
  <2>2. q.pc = "write" /\ q.locks = Admins /\ q.user = req[r].user
    BY <1>0, <2>1 DEF RequestOK, Request
  <2>3. ~(Admins \subseteq {req[r].user}) => Counted(q)
    BY <2>2 DEF Counted, Admins
  <2>4. member' = member
    BY <1>8 DEF LockAdmins
  <2>5. \/ Done(r)
        \/ ~(Admins \subseteq {req[r].user}) /\ req' = [req EXCEPT ![r] = q]
    BY <1>8, <2>1 DEF LockAdmins, Become
  <2> QED
    BY <1>1, <1>3, <2>3, <2>4, <2>5
<1>9. ASSUME NEW r \in Requests, WriteMember(r) \/ AcceptClaim(r)
      PROVE  AdminInv'
  <2>1. req' = [req EXCEPT ![r] = NoRequest]
    BY <1>9 DEF WriteMember, AcceptClaim, Done
  <2>2. ASSUME NEW q \in Requests PROVE Counted(req[q])'
    <3>1. CASE q = r
      <4>1. req'[q] = NoRequest
        BY <1>0, <2>1, <3>1 DEF TypeOK
      <4> QED
        BY <4>1 DEF Counted, NoRequest
    <3>2. CASE q # r
      <4>1. req'[q] = req[q]
        BY <1>0, <2>1, <3>2 DEF TypeOK
      <4>2. \A v \in req[q].locks : v \in Users /\ member'[v].role = "ADMIN"
        BY <1>0, <1>9, <3>2, LockedStay DEF Counted
      <4> QED
        BY <1>0, <4>1, <4>2 DEF Counted
    <3> QED
      BY <3>1, <3>2
  <2> QED
    BY <2>2 DEF AdminInv
<1>10. ASSUME NEW r \in Requests, Handle(r) PROVE AdminInv'
  <2>1. CASE \/ InviteCheckMember(r) \/ InviteCheckPending(r) \/ EnqueueEmail(r)
             \/ EnqueueThrows(r) \/ MarkUnsent(r) \/ AssertOpen(r)
             \/ ResendTooLate(r) \/ RevokeFind(r) \/ Revoke(r)
             \/ AcceptFind(r) \/ AcceptCheckMember(r)
    BY <1>3, <1>4, <2>1
       DEF InviteCheckMember, InviteCheckPending, EnqueueEmail, EnqueueThrows,
           MarkUnsent, AssertOpen, ResendTooLate, RevokeFind, Revoke,
           AcceptFind, AcceptCheckMember, ReqPcs
  <2> QED
    BY <1>6, <1>7, <1>8, <1>9, <1>10, <2>1 DEF Handle
<1>11. ASSUME UNCHANGED <<req, member>> PROVE AdminInv'
  BY <1>0, <1>11 DEF AdminInv, Counted
<1>12. ASSUME NEW i \in InviteIds, NEW t \in Tokens,
              Deliver(i, t) \/ MailThrows(i, t) \/ MailStalls(i, t)
       PROVE  UNCHANGED <<req, member>>
  BY <1>12 DEF Deliver, TakeMail, SendMail, SendFails, SettleMail, MailThrows,
     MailStalls
<1> QED
  BY <1>3, <1>5, <1>10, <1>11, <1>12 DEF Next, ApiCrash, Expire, vars

(* A step after which no Admin is left was taken by a request that had     *)
(* read another role.                                                      *)
LEMMA AdminsRemain ==
  ASSUME TypeInv, AdminInv, [Next]_vars, Admins # {}, Admins' = {}
  PROVE  \E r \in Requests :
             /\ req[r].pc \in {"write", "claim"} /\ req'[r].pc = "idle"
             /\ req[r].seen.role # "ADMIN"
<1>0. TypeOK /\ \A r \in Requests : RequestOK(req[r]) /\ Counted(req[r])
  BY DEF TypeInv, AdminInv
<1>1. member' # member
  BY DEF Admins
<1>2. PICK r \in Requests : WriteMember(r) \/ AcceptClaim(r)
  <2>1. ASSUME NEW r \in Requests, Arrive(r) PROVE member' = member
    BY <2>1 DEF Arrive, StartInvite, StartResend, StartRevoke, StartChange,
       StartAccept
  <2>2. ASSUME NEW r \in Requests, Handle(r)
        PROVE  member' = member \/ WriteMember(r) \/ AcceptClaim(r)
    BY <2>2 DEF Handle, InviteCheckMember, InviteCheckPending, CreateInvite,
       EnqueueEmail, EnqueueThrows, MarkUnsent, AssertOpen, ResendReplace,
       ResendTooLate, RevokeFind, Revoke, FindMember, LockAdmins, AcceptFind,
       AcceptCheckMember
  <2>3. ASSUME NEW i \in InviteIds, NEW t \in Tokens,
               Deliver(i, t) \/ MailThrows(i, t) \/ MailStalls(i, t)
        PROVE  member' = member
    BY <2>3 DEF Deliver, TakeMail, SendMail, SendFails, SettleMail, MailThrows,
       MailStalls
  <2> QED
    BY <1>1, <2>1, <2>2, <2>3 DEF Next, ApiCrash, Expire, vars
<1>3. req[r].pc \in {"write", "claim"}
  BY <1>2 DEF WriteMember, AcceptClaim
<1>4. req'[r].pc = "idle"
  <2>1. req' = [req EXCEPT ![r] = NoRequest]
    BY <1>2 DEF WriteMember, AcceptClaim, Done
  <2> QED
    BY <1>0, <2>1 DEF TypeOK, NoRequest
<1>5. req[r].seen.role # "ADMIN"
  <2>1. CASE AcceptClaim(r)
    BY <1>0, <2>1 DEF AcceptClaim, Counted
  <2>2. CASE WriteMember(r)
    <3> SUFFICES ASSUME req[r].seen.role = "ADMIN" PROVE FALSE
      OBVIOUS
    <3>1. PICK v \in req[r].locks : v # req[r].user
      BY <1>0, <2>2 DEF WriteMember, Counted
    <3>2. v \in Users /\ member[v].role = "ADMIN"
      BY <1>0, <3>1 DEF Counted
    <3>3. member'[v] = member[v]
      BY <1>0, <2>2, <3>1, <3>2 DEF WriteMember, TypeOK
    <3> QED
      BY <3>2, <3>3 DEF Admins
  <2> QED
    BY <1>2, <2>1, <2>2
<1> QED
  BY <1>3, <1>4, <1>5

-----------------------------------------------------------------------------
(* The theorems.                                                           *)

IInv == TypeInv /\ RequestInv /\ JoinInv /\ MailInv /\ AdminInv

LEMMA Inductive == Spec => []IInv
<1>1. Init => IInv
  <2> SUFFICES ASSUME Init PROVE IInv
    OBVIOUS
  <2>1. TypeInv
    BY InitType
  <2>2. RequestInv
    BY DEF Init, RequestInv, Rooted, NoRequest, OnInvitation, OnLink
  <2>3. JoinInv
    BY DEF Init, JoinInv
  <2>4. MailInv
    BY DEF Init, MailInv, EmailJobSettles, NoMail
  <2>5. AdminInv
    BY DEF Init, AdminInv, Counted, NoRequest
  <2> QED
    BY <2>1, <2>2, <2>3, <2>4, <2>5 DEF IInv
<1>2. IInv /\ [Next]_vars => IInv'
  BY StepType, RootedStep, JoinStep, MailStep, AdminStep DEF IInv
<1> QED
  BY <1>1, <1>2, PTL DEF Spec

(* An invitation makes at most one member, and none once it is cancelled:  *)
(* accept's claim against other people's accepts, resend and revoke.       *)
THEOREM OneMemberPerLink == Spec => []OneOutcome
<1>1. IInv => OneOutcome
  BY JoinInvIsEnough DEF IInv
<1> QED
  BY <1>1, Inductive, PTL

(* Whoever joined used the invitation's last link: a resend replaces the   *)
(* link and an accepted invitation gets no new one.                        *)
THEOREM OldLinksStopWorking == Spec => []JoinedByLastLink
<1>1. IInv => JoinedByLastLink
  BY JoinInvIsEnough DEF IInv
<1> QED
  BY <1>1, Inductive, PTL

(* An email job ends with its link sent, failed or not to be sent, never   *)
(* shown as waiting, whatever retries, worker deaths and resends came in   *)
(* between.                                                                *)
THEOREM EmailJobsSettle == Spec => []EmailJobSettles
<1>1. IInv => EmailJobSettles
  BY DEF IInv, MailInv
<1> QED
  BY <1>1, Inductive, PTL

(* changeRole and remove, run at the same time for different Admins, leave *)
(* one: the last Admin goes only by a request that read another role       *)
(* before the person was promoted.                                         *)
THEOREM LastAdminIsCounted == Spec => CountedAdminsRemain
<1>1. IInv /\ [Next]_vars =>
        [Admins # {} /\ Admins' = {} =>
           \E r \in Requests :
               /\ req[r].pc \in {"write", "claim"} /\ req'[r].pc = "idle"
               /\ req[r].seen.role # "ADMIN"]_vars
  BY AdminsRemain DEF IInv
<1> QED
  BY <1>1, Inductive, PTL DEF Spec, CountedAdminsRemain

=============================================================================
