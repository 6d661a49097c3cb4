-------------------------- MODULE ConnectionsProofs --------------------------
(***************************************************************************)
(* Proofs about Connections: what its runs show on small instances, for    *)
(* any number of organizations, requests, installations, intents, tokens,  *)
(* branches, rows, hooks and faults.                                       *)
(***************************************************************************)
EXTENDS Connections, TLAPS

USE BranchesAssumption, BoundsAssumption, NullsAssumption

-----------------------------------------------------------------------------
(* The invariants.                                                         *)

GithubOnly == {"consume", "verify", "connect", "pending", "mark",
               "uninstall", "forget"}
GitlabOnly == {"store", "revoke", "health", "hook", "record"}

(* Requests are of the provider the behaviour follows, and only GitLab's   *)
(* rows have a token, all of them.                                         *)
SourceInv ==
    /\ source = "GITLAB" =>
          /\ \A n \in Intents : intents[n] = None
          /\ \A k \in Rows : rows[k].token \in Tokens
          /\ \A s \in Slots : At(s, "insert") => ops[s].token \in Tokens
          /\ \A s \in Slots : ops[s] # None => ops[s].at \notin GithubOnly
    /\ source = "GITHUB" =>
          \A s \in Slots : ops[s] # None => ops[s].at \notin GitlabOnly

(* The cascade: a repository's Integration is there.                       *)
RowsLive == \A r \in Repos : repos[r].row \in Rows

TypeInv == TypeOK /\ SourceInv /\ RowsLive

-----------------------------------------------------------------------------
(* What goes with the alarm, the hooks and the scan scope.                 *)

(* The organization a hook was made for, as long as GitLab has it.         *)
OwnedBy(h, r) == hooks[h] \in {Gone, rows[repos[r].row].org}

OwnerInv ==
    /\ \A r \in Repos : repos[r].hook # None => OwnedBy(repos[r].hook, r)
    /\ \A s \in Slots : At(s, "record") /\ ops[s].repo \in Repos =>
           OwnedBy(ops[s].hook, ops[s].repo)
    /\ DeliveredToItsOwner

(* A repository gets its hook from the request that inserted it, no other. *)
Hooking(s) == At(s, "hook") \/ At(s, "record")

HookingInv ==
    /\ source = "GITHUB" => \A r \in Repos : repos[r].hook = None
    /\ \A s \in Slots : Hooking(s) =>
           /\ repos[ops[s].repo] # None
           /\ ops[s].repo \in Repos => repos[ops[s].repo].hook = None
    /\ \A s, t \in Slots :
           Hooking(s) /\ Hooking(t) /\ ops[s].repo = ops[t].repo => s = t

(* A disconnect leaves no recorded hook behind unexplained.                *)
RevokeInv ==
    \A s \in Slots : At(s, "revoke") => \A r \in ReposOf(ops[s].row) :
        repos[r].hook # None =>
            \/ repos[r].hook \in ops[s].todo \cup excused
            \/ hooks[repos[r].hook] = Gone

(* The branches a request carries have been seen at the provider.          *)
Scoping(s) == ops[s] # None
              /\ ops[s].at \in {"insert", "unknown", "policies", "save"}

ScopeInv ==
    /\ remote[DefaultBranch] = "there"
    /\ \A s \in Slots : Scoping(s) => DefaultBranch \in ops[s].branches
    /\ \A s \in Slots : Scoping(s) /\ ~At(s, "unknown") =>
           \A b \in ops[s].branches : remote[b] # "never"
    /\ \A s \in Slots : At(s, "unknown") =>
           \A b \in ops[s].seen : remote[b] # "never"
    /\ \A s \in Slots : At(s, "save") =>
           DOMAIN ops[s].changed \subseteq ops[s].branches
    /\ ScopeIsSound

(* GitHub confirmed that the installation is gone before the row goes.     *)
ForgetInv ==
    \A s \in Slots : At(s, "forget") => account[ops[s].inst] = "removed"

-----------------------------------------------------------------------------
(* Operations, by the step that comes next.                                *)
OpFields(x) ==
    /\ x.at \in GithubOnly \cup GitlabOnly
               \cup {"insert", "unknown", "policies", "save"}
    /\ x.at \in {"consume", "verify", "connect", "pending", "mark", "store"}
          => x.org \in Orgs
    /\ x.at = "consume" => /\ x.intent \in Intents
                           /\ x.inst \in Installs \cup {None}
    /\ x.at \in {"verify", "connect", "uninstall", "forget"}
          => x.inst \in Installs
    /\ x.at \in {"uninstall", "forget", "revoke", "health", "insert"}
          => x.row \in RowIds
    /\ x.at = "store" => x.token \in Tokens /\ x.state \in TokenState
    /\ x.at = "revoke" => x.token \in Tokens /\ x.todo \in SUBSET HookIds
    /\ x.at = "health" => x.state \in TokenState \cup {"INVALID"}
    /\ x.at = "insert" => /\ x.branches \in SUBSET Branches
                          /\ x.policy \in ReviewPolicy
                          /\ x.inst \in Installs \cup {None}
                          /\ x.token \in Tokens \cup {None}
    /\ x.at \in {"hook", "record", "unknown", "policies", "save"}
          => x.repo \in RepoIds
    /\ x.at = "hook" => x.token \in Tokens
    /\ x.at = "record" => x.hook \in HookIds
    /\ x.at \in {"unknown", "policies"} =>
          /\ x.seen \in SUBSET Branches /\ x.branches \in SUBSET Branches
          /\ x.asked \in Asked \cup {None}
    /\ x.at = "save" => /\ x.branches \in SUBSET Branches
                        /\ x.changed \in Policies

LEMMA FieldsOfOp == ASSUME NEW x \in Op PROVE OpFields(x)
<1> HIDE DEF Policies
<1>1. CASE x \in [at : {"consume"}, intent : Intents, org : Orgs,
                  inst : Installs \cup {None}]
  BY <1>1 DEF OpFields, GithubOnly, GitlabOnly
<1>2. CASE x \in [at : {"verify", "connect"}, org : Orgs, inst : Installs]
  BY <1>2 DEF OpFields, GithubOnly, GitlabOnly
<1>3. CASE x \in [at : {"pending", "mark"}, org : Orgs]
  BY <1>3 DEF OpFields, GithubOnly, GitlabOnly
<1>4. CASE x \in [at : {"uninstall", "forget"}, row : RowIds, inst : Installs]
  BY <1>4 DEF OpFields, GithubOnly, GitlabOnly
<1>5. CASE x \in [at : {"store"}, org : Orgs, token : Tokens,
                  state : TokenState]
  BY <1>5 DEF OpFields, GithubOnly, GitlabOnly
<1>6. CASE x \in [at : {"revoke"}, row : RowIds, token : Tokens,
                  todo : SUBSET HookIds]
  BY <1>6 DEF OpFields, GithubOnly, GitlabOnly
<1>7. CASE x \in [at : {"health"}, row : RowIds,
                  state : TokenState \cup {"INVALID"}]
  BY <1>7 DEF OpFields, GithubOnly, GitlabOnly
<1>8. CASE x \in [at : {"insert"}, row : RowIds, branches : SUBSET Branches,
                  policy : ReviewPolicy, inst : Installs \cup {None},
                  token : Tokens \cup {None}]
  BY <1>8 DEF OpFields, GithubOnly, GitlabOnly
<1>9. CASE \/ x \in [at : {"hook"}, repo : RepoIds, token : Tokens]
           \/ x \in [at : {"record"}, repo : RepoIds, hook : HookIds]
  BY <1>9 DEF OpFields, GithubOnly, GitlabOnly
<1>10. CASE x \in [at : {"unknown", "policies"}, repo : RepoIds,
                   seen : SUBSET Branches, branches : SUBSET Branches,
                   asked : Asked \cup {None}]
  BY <1>10 DEF OpFields, GithubOnly, GitlabOnly
<1>11. CASE x \in [at : {"save"}, repo : RepoIds, branches : SUBSET Branches,
                   changed : Policies]
  BY <1>11 DEF OpFields, GithubOnly, GitlabOnly
<1> QED
  BY <1>1, <1>2, <1>3, <1>4, <1>5, <1>6, <1>7, <1>8, <1>9, <1>10, <1>11 DEF Op

LEMMA NoOp == None \notin Op /\ Gone \notin Op
  OBVIOUS

(* The integration rows.                                                   *)
LEMMA RowFields ==
  ASSUME TypeOK, NEW k \in Rows
  PROVE  /\ rows[k] \in Integration /\ rows[k].org \in Orgs
         /\ rows[k].state \in IntegrationState
         /\ rows[k].inst \in Installs \cup {None}
         /\ rows[k].token \in Tokens \cup {None}
  BY DEF TypeOK, Rows, Integration

LEMMA RepoFields ==
  ASSUME TypeOK, NEW r \in Repos
  PROVE  /\ repos[r] \in Repository /\ repos[r].row \in RowIds
         /\ repos[r].project \in Installs \cup {None}
         /\ repos[r].hook \in HookIds \cup {None}
         /\ repos[r].branches \in SUBSET Branches
         /\ repos[r].policy \in Policies
  BY DEF TypeOK, Repos, Repository

(* A row that is there is none of the two nulls.                           *)
LEMMA RowThere ==
  ASSUME NEW f, NEW k \in RowIds, f[k] \in Integration
  PROVE  f[k] \notin {None, Gone}
  OBVIOUS

LEMMA InPolicies ==
  ASSUME NEW D \in SUBSET Branches, NEW f \in [D -> ReviewPolicy]
  PROVE  f \in Policies
  BY DEF Policies

LEMMA OfPolicies ==
  ASSUME NEW f \in Policies
  PROVE  /\ DOMAIN f \in SUBSET Branches
         /\ f \in [DOMAIN f -> ReviewPolicy]
  BY DEF Policies

-----------------------------------------------------------------------------
(* How a request gets to its next step, and what it has learnt then.       *)
Steps(s) ==
    \/ \E n \in Intents, i \in Installs \cup {None} : Callback(s, n, i)
    \/ \E k \in RowIds : \/ DisconnectGithub(s, k) \/ DisconnectGitlab(s, k)
                         \/ Health(s, k)
    \/ \E o \in Orgs, t \in Tokens : ConnectGitlab(s, o, t)
    \/ \E k \in RowIds, B \in SUBSET Branches, p \in Asked :
           CreateRepo(s, k, B, p)
    \/ \E r \in RepoIds, B \in SUBSET Branches, p \in Asked \cup {None} :
           UpdateScanConfig(s, r, B, p)
    \/ Consume(s) \/ Verify(s) \/ PendingRead(s) \/ Uninstall(s)
    \/ \E h \in HookIds : Revoke(s, h)
    \/ InsertRepo(s) \/ InstallWebhook(s)
    \/ FindUnknownBranches(s) \/ FindBranchPolicies(s)

Ends(s) == \/ ConnectGithub(s) \/ MarkPending(s) \/ Forget(s)
           \/ Disconnected(s) \/ StoreToken(s) \/ WriteHealth(s)
           \/ RecordHook(s) \/ SaveScanConfig(s)

LEMMA StepsAlone ==
  ASSUME TypeInv, NEW t \in Slots, Steps(t), NEW s \in Slots, t # s
  PROVE  ops'[s] = ops[s]
<1>1. ops \in [Slots -> Op \cup {None}]
  BY DEF TypeInv, TypeOK
<1>2. ASSUME \E x : ops' = [ops EXCEPT ![t] = x] PROVE ops'[s] = ops[s]
  BY <1>1, <1>2
<1>3. CASE \E n \in Intents, i \in Installs \cup {None} : Callback(t, n, i)
  BY <1>2, <1>3 DEF Callback, Begin
<1>4. CASE \E k \in RowIds : \/ DisconnectGithub(t, k)
                             \/ DisconnectGitlab(t, k) \/ Health(t, k)
  BY <1>2, <1>4 DEF DisconnectGithub, DisconnectGitlab, Health, Begin
<1>5. CASE \/ \E o \in Orgs, u \in Tokens : ConnectGitlab(t, o, u)
           \/ \E k \in RowIds, B \in SUBSET Branches, p \in Asked :
                  CreateRepo(t, k, B, p)
           \/ \E r \in RepoIds, B \in SUBSET Branches,
                 p \in Asked \cup {None} : UpdateScanConfig(t, r, B, p)
  BY <1>2, <1>5 DEF ConnectGitlab, CreateRepo, UpdateScanConfig, Begin
<1>6. CASE \/ Consume(t) \/ Verify(t) \/ PendingRead(t) \/ Uninstall(t)
  BY <1>2, <1>6 DEF Consume, Verify, PendingRead, Uninstall, Continue,
     End
<1>7. CASE \E h \in HookIds : Revoke(t, h)
  BY <1>1, <1>7 DEF Revoke
<1>8. CASE InsertRepo(t)
  BY <1>2, <1>8 DEF InsertRepo, Continue, End
<1>9. CASE InstallWebhook(t)
  BY <1>2, <1>9 DEF InstallWebhook, Continue, End
<1>10. CASE FindUnknownBranches(t) \/ FindBranchPolicies(t)
  BY <1>2, <1>10 DEF FindUnknownBranches, FindBranchPolicies, Continue,
     End
<1> QED
  BY <1>3, <1>4, <1>5, <1>6, <1>7, <1>8, <1>9, <1>10 DEF Steps

LEMMA OwnSteps ==
  ASSUME TypeInv, [Next]_vars, NEW s \in Slots
  PROVE  \/ ops'[s] = ops[s]
         \/ ops'[s] = None /\ (Crash \/ Ends(s))
         \/ Steps(s)
<1>0. ops \in [Slots -> Op \cup {None}]
  BY DEF TypeInv, TypeOK
<1>1. CASE UNCHANGED vars \/ Crash
  BY <1>1 DEF vars, Crash
<1>2. ASSUME NEW t \in Slots, \E x : ops' = [ops EXCEPT ![t] = x], t # s
      PROVE  ops'[s] = ops[s]
  BY <1>0, <1>2
<1>3. ASSUME NEW t \in Slots, Ends(t)
      PROVE  \/ ops'[s] = ops[s]
             \/ ops'[s] = None /\ Ends(s)
  <2>1. ops' = [ops EXCEPT ![t] = None]
    BY <1>3 DEF Ends, ConnectGithub, MarkPending, Forget, Disconnected,
       StoreToken, WriteHealth, RecordHook, SaveScanConfig, End, Continue
  <2>2. CASE t = s
    BY <1>0, <1>3, <2>1, <2>2
  <2>3. CASE t # s
    BY <1>0, <2>1, <2>3
  <2> QED
    BY <2>2, <2>3
<1>4. ASSUME NEW t \in Slots, Steps(t), t # s PROVE ops'[s] = ops[s]
  BY <1>4, StepsAlone
<1>5. CASE \/ \E o \in Orgs, n \in Intents : CreateIntent(o, n)
           \/ \E n \in Intents : IntentExpires(n)
           \/ \E i \in Installs : Installed(i) \/ Suspended(i)
                                  \/ Unsuspended(i) \/ Uninstalled(i)
           \/ \E e \in events : InstallationEvent(e) \/ EventLost(e)
           \/ \E t \in Tokens : TokenAges(t)
           \/ \E h \in HookIds : HookDelivery(h)
           \/ \E b \in Branches : BranchDeleted(b)
  BY <1>5 DEF CreateIntent, IntentExpires, Installed, Suspended, Unsuspended,
     Uninstalled, AccountChanges, InstallationEvent, EventLost, TokenAges,
     HookDelivery, BranchDeleted
<1>6. CASE GithubSteps
  BY <1>3, <1>4, <1>5, <1>6 DEF GithubSteps, Steps, Ends
<1>7. CASE GitlabSteps
  BY <1>3, <1>4, <1>5, <1>7 DEF GitlabSteps, Steps, Ends
<1>8. CASE RepositorySteps
  BY <1>3, <1>4, <1>5, <1>8 DEF RepositorySteps, Steps, Ends
<1> QED
  BY <1>1, <1>6, <1>7, <1>8 DEF Next

Learnt(s) ==
    /\ ops'[s].at \in GithubOnly => source # "GITLAB"
    /\ ops'[s].at \in GitlabOnly => source # "GITHUB"
    /\ ops'[s].at = "insert" =>
          /\ source = "GITLAB" => ops'[s].token \in Tokens
          /\ DefaultBranch \in ops'[s].branches
          /\ \A b \in ops'[s].branches \ {DefaultBranch} : remote[b] = "there"
    /\ ops'[s].at = "forget" => account'[ops'[s].inst] = "removed"
    /\ ops'[s].at = "revoke" =>
          \/ /\ ops'[s].todo = RecordedHooks(ops'[s].row)
             /\ UNCHANGED <<rows, repos, hooks, excused>>
          \/ \E h \in HookIds :
                /\ At(s, "revoke") /\ ops'[s].row = ops[s].row
                /\ ops'[s].todo = ops[s].todo \ {h} /\ UNCHANGED repos
                /\ \/ hooks' = [hooks EXCEPT ![h] = Gone] /\ UNCHANGED excused
                   \/ excused' = excused \cup {h} /\ UNCHANGED hooks
    /\ ops'[s].at = "hook" =>
          /\ repos[ops'[s].repo] = None
          /\ repos'[ops'[s].repo] \in Repository
          /\ repos'[ops'[s].repo].hook = None
    /\ ops'[s].at = "record" =>
          /\ At(s, "hook") /\ ops'[s].repo = ops[s].repo
          /\ ops'[s].repo \in Repos /\ hooks[ops'[s].hook] = None
          /\ UNCHANGED <<rows, repos>>
          /\ hooks' = [hooks EXCEPT
                ![ops'[s].hook] = rows[repos[ops'[s].repo].row].org]
    /\ ops'[s].at = "unknown" =>
          /\ ops'[s].repo \in Repos /\ DefaultBranch \in ops'[s].branches
          /\ ops'[s].seen = repos[ops'[s].repo].branches
    /\ ops'[s].at = "policies" =>
          /\ At(s, "unknown") /\ ops'[s].branches = ops[s].branches
          /\ \A b \in ops'[s].branches :
                b \in ops[s].seen \/ remote[b] = "there"
    /\ ops'[s].at = "save" =>
          /\ At(s, "policies") /\ ops'[s].branches = ops[s].branches
          /\ DOMAIN ops'[s].changed \subseteq ops'[s].branches

LEMMA NewOp ==
  ASSUME TypeInv, NEW s \in Slots, Steps(s), ops'[s] # None
  PROVE  ops'[s] \in Op /\ Learnt(s)
<1>0. /\ ops \in [Slots -> Op \cup {None}]
      /\ \A r \in Repos : repos[r].row \in Rows
      /\ SourceInv /\ TypeOK
  BY DEF TypeInv, TypeOK, RowsLive
<1>1. ASSUME NEW n \in Intents, NEW i \in Installs \cup {None},
             Callback(s, n, i)
      PROVE  ops'[s] \in Op /\ Learnt(s)
  <2>1. intents[n] \in Intent /\ intents[n].org \in Orgs
    BY <1>0, <1>1 DEF Callback, TypeOK, Intent
  <2>2. PICK x : /\ x = [at |-> "consume", intent |-> n,
                         org |-> intents[n].org, inst |-> i]
                 /\ ops'[s] = x
    BY <1>0, <1>1 DEF Callback, Begin
  <2>3. x \in Op /\ x.at = "consume"
    BY <2>1, <2>2 DEF Op
  <2>4. source # "GITLAB"
    BY <1>0, <1>1 DEF SourceInv, Callback
  <2> QED
    BY <2>2, <2>3, <2>4 DEF Learnt, GitlabOnly
<1>2. ASSUME NEW k \in RowIds, DisconnectGithub(s, k)
      PROVE  ops'[s] \in Op /\ Learnt(s)
  <2>1. rows[k].inst \in Installs
    BY <1>0, <1>2, RowFields DEF DisconnectGithub
  <2>2. PICK x : /\ x = [at |-> "uninstall", row |-> k, inst |-> rows[k].inst]
                 /\ ops'[s] = x
    BY <1>0, <1>2 DEF DisconnectGithub, Begin
  <2>3. x \in Op /\ x.at = "uninstall"
    BY <2>1, <2>2 DEF Op
  <2> QED
    BY <1>2, <2>2, <2>3 DEF Learnt, GitlabOnly, DisconnectGithub
<1>3. ASSUME NEW k \in RowIds, DisconnectGitlab(s, k)
      PROVE  ops'[s] \in Op /\ Learnt(s)
  <2>1. rows[k].token \in Tokens /\ RecordedHooks(k) \in SUBSET HookIds
    BY <1>0, <1>3, RepoFields
       DEF DisconnectGitlab, SourceInv, RecordedHooks, ReposOf
  <2>2. PICK x : /\ x = [at |-> "revoke", row |-> k, token |-> rows[k].token,
                         todo |-> RecordedHooks(k)]
                 /\ ops'[s] = x
    BY <1>0, <1>3 DEF DisconnectGitlab, Begin
  <2>3. /\ x \in Op /\ x.at = "revoke" /\ x.row = k
        /\ x.todo = RecordedHooks(k)
    BY <2>1, <2>2 DEF Op
  <2> QED
    BY <1>3, <2>2, <2>3
       DEF Learnt, GithubOnly, DisconnectGitlab, integrationVars, gitlabVars
<1>4. ASSUME NEW k \in RowIds, Health(s, k)
      PROVE  ops'[s] \in Op /\ Learnt(s)
  <2>1. PICK state \in {"INVALID", StateOf(rows[k].token)} :
           ops' = [ops EXCEPT ![s] = [at |-> "health", row |-> k,
                                      state |-> state]]
    BY <1>4 DEF Health, Begin
  <2>2. StateOf(rows[k].token) \in TokenState
    BY DEF StateOf, TokenState
  <2>3. PICK x : /\ x = [at |-> "health", row |-> k, state |-> state]
                 /\ ops'[s] = x
    BY <1>0, <2>1
  <2>4. x \in Op /\ x.at = "health"
    BY <2>1, <2>2, <2>3 DEF Op
  <2> QED
    BY <1>4, <2>3, <2>4 DEF Learnt, GithubOnly, Health
<1>5. ASSUME NEW o \in Orgs, NEW t \in Tokens, ConnectGitlab(s, o, t)
      PROVE  ops'[s] \in Op /\ Learnt(s)
  <2>1. StateOf(t) \in TokenState
    BY DEF StateOf, TokenState
  <2>2. PICK x : /\ x = [at |-> "store", org |-> o, token |-> t,
                         state |-> StateOf(t)]
                 /\ ops'[s] = x
    BY <1>0, <1>5 DEF ConnectGitlab, Begin
  <2>3. x \in Op /\ x.at = "store"
    BY <2>1, <2>2 DEF Op
  <2> QED
    BY <1>5, <2>2, <2>3 DEF Learnt, GithubOnly, ConnectGitlab
<1>6. ASSUME NEW k \in RowIds, NEW B \in SUBSET Branches, NEW p \in Asked,
             CreateRepo(s, k, B, p)
      PROVE  ops'[s] \in Op /\ Learnt(s)
  <2>1. /\ rows[k].inst \in Installs \cup {None}
        /\ rows[k].token \in Tokens \cup {None}
        /\ source = "GITLAB" => rows[k].token \in Tokens
    BY <1>0, <1>6, RowFields DEF CreateRepo, SourceInv
  <2>2. PICK x : /\ x = [at |-> "insert", row |-> k, policy |-> p,
                         branches |-> B \cup {DefaultBranch},
                         inst |-> rows[k].inst, token |-> rows[k].token]
                 /\ ops'[s] = x
    BY <1>0, <1>6 DEF CreateRepo, Begin
  <2>3. /\ x \in Op /\ x.at = "insert" /\ x.token = rows[k].token
        /\ x.branches = B \cup {DefaultBranch}
    BY <2>1, <2>2 DEF Op
  <2>4. \A b \in B : remote[b] = "there"
    BY <1>6 DEF CreateRepo, Missing, BranchExists
  <2> QED
    BY <2>1, <2>2, <2>3, <2>4 DEF Learnt, GithubOnly, GitlabOnly
<1>7. ASSUME NEW r \in RepoIds, NEW B \in SUBSET Branches,
             NEW p \in Asked \cup {None}, UpdateScanConfig(s, r, B, p)
      PROVE  ops'[s] \in Op /\ Learnt(s)
  <2>1. r \in Repos /\ repos[r].branches \in SUBSET Branches
    BY <1>0, <1>7, RepoFields DEF UpdateScanConfig
  <2>2. PICK x : /\ x = [at |-> "unknown", repo |-> r,
                         seen |-> repos[r].branches,
                         branches |-> B \cup {DefaultBranch}, asked |-> p]
                 /\ ops'[s] = x
    BY <1>0, <1>7 DEF UpdateScanConfig, Begin
  <2>3. /\ x \in Op /\ x.at = "unknown" /\ x.repo = r
        /\ x.seen = repos[r].branches /\ DefaultBranch \in x.branches
    BY <2>1, <2>2 DEF Op
  <2> QED
    BY <2>1, <2>2, <2>3 DEF Learnt, GithubOnly, GitlabOnly
<1>8. CASE Consume(s)
  <2>1. /\ ops[s] \in Op /\ ops[s].at = "consume" /\ ops[s].org \in Orgs
        /\ ops[s].inst \in Installs \cup {None}
    BY <1>0, <1>8, FieldsOfOp DEF Consume, At, OpFields
  <2>2. PICK x : x = AfterIntent(ops[s].org, ops[s].inst) /\ ops'[s] = x
    BY <1>0, <1>8 DEF Consume, Continue, End
  <2>3. x \in Op /\ x.at \in {"pending", "verify"}
    BY <2>1, <2>2 DEF AfterIntent, Op
  <2>4. source # "GITLAB"
    BY <1>0, <1>8 DEF Consume, At, SourceInv, GithubOnly
  <2> QED
    BY <2>2, <2>3, <2>4 DEF Learnt, GitlabOnly
<1>9. CASE Verify(s) \/ PendingRead(s)
  <2>1. ops[s] \in Op /\ ops[s].at \in {"verify", "pending"}
    BY <1>0, <1>9 DEF Verify, PendingRead, At
  <2>2. PICK at \in {"connect", "mark"} :
           /\ at = IF ops[s].at = "verify" THEN "connect" ELSE "mark"
           /\ ops'[s] = [ops[s] EXCEPT !.at = at]
    BY <1>0, <1>9, <2>1 DEF Verify, PendingRead, Continue, End, At
  <2>3. PICK x : x = [ops[s] EXCEPT !.at = at] /\ ops'[s] = x
    BY <2>2
  <2>4. x \in Op /\ x.at \in {"connect", "mark"}
    BY <2>1, <2>2, <2>3 DEF Op
  <2>5. source # "GITLAB"
    BY <1>0, <1>9 DEF Verify, PendingRead, At, SourceInv, GithubOnly
  <2> QED
    BY <2>3, <2>4, <2>5 DEF Learnt, GitlabOnly
<1>10. CASE Uninstall(s)
  <2>1. ops[s] \in Op /\ ops[s].at = "uninstall" /\ ops[s].inst \in Installs
    BY <1>0, <1>10, FieldsOfOp DEF Uninstall, At, OpFields
  <2>2. PICK x : x = [ops[s] EXCEPT !.at = "forget"] /\ ops'[s] = x
    BY <1>0, <1>10 DEF Uninstall, Continue, AfterFailure
  <2>3. x \in Op /\ x.at = "forget" /\ x.inst = ops[s].inst
    BY <2>1, <2>2 DEF Op
  <2>4. account' = [account EXCEPT ![ops[s].inst] = "removed"]
    BY <1>0, <1>10, <2>2 DEF Uninstall, Continue, AfterFailure
  <2>5. source # "GITLAB"
    BY <1>0, <1>10 DEF Uninstall, At, SourceInv, GithubOnly
  <2>6. account'[x.inst] = "removed"
    BY <1>0, <2>1, <2>3, <2>4 DEF TypeOK
  <2> QED
    BY <2>2, <2>3, <2>5, <2>6 DEF Learnt, GitlabOnly
<1>11. ASSUME NEW h \in HookIds, Revoke(s, h)
       PROVE  ops'[s] \in Op /\ Learnt(s)
  <2>1. /\ ops[s] \in Op /\ ops[s].at = "revoke" /\ At(s, "revoke")
        /\ ops[s].todo \in SUBSET HookIds
    BY <1>0, <1>11, FieldsOfOp DEF Revoke, At, OpFields
  <2>2. PICK todo : todo = ops[s].todo \ {h}
    OBVIOUS
  <2>3. PICK x : x = [ops[s] EXCEPT !.todo = todo] /\ ops'[s] = x
    BY <1>0, <1>11, <2>2 DEF Revoke
  <2>4. /\ x \in Op /\ x.at = "revoke" /\ x.row = ops[s].row
        /\ x.todo = todo
    BY <2>1, <2>2, <2>3 DEF Op
  <2>5. /\ UNCHANGED repos
        /\ \/ hooks' = [hooks EXCEPT ![h] = Gone] /\ UNCHANGED excused
           \/ excused' = excused \cup {h} /\ UNCHANGED hooks
    BY <1>11 DEF Revoke, DeleteProjectHook, integrationVars
  <2>6. source # "GITHUB"
    BY <1>0, <1>11 DEF Revoke, At, SourceInv, GitlabOnly
  <2> QED
    BY <2>1, <2>2, <2>3, <2>4, <2>5, <2>6 DEF Learnt, GithubOnly
<1>12. CASE InsertRepo(s)
  <2>1. /\ ops[s] \in Op /\ ops[s].at = "insert" /\ At(s, "insert")
        /\ ops[s].row \in RowIds /\ ops[s].branches \in SUBSET Branches
        /\ ops[s].policy \in ReviewPolicy
        /\ ops[s].inst \in Installs \cup {None}
    BY <1>0, <1>12, FieldsOfOp DEF InsertRepo, At, OpFields
  <2>2. PICK new : new = [row |-> ops[s].row, project |-> ops[s].inst,
                          hook |-> None, branches |-> ops[s].branches,
                          policy |-> [b \in ops[s].branches |->
                                         ops[s].policy]]
    OBVIOUS
  <2>3. PICK id \in NextUnused(repos) :
           /\ repos' = [repos EXCEPT ![id] = new]
           /\ source # "GITHUB"
           /\ ops'[s] = [at |-> "hook", repo |-> id, token |-> ops[s].token]
    BY <1>0, <1>12, <2>2 DEF InsertRepo, Continue, End
  <2>4. id \in RepoIds /\ repos[id] = None
    BY <1>0, <2>3 DEF NextUnused, TypeOK
  <2>5. [b \in ops[s].branches |-> ops[s].policy] \in Policies
    BY <2>1, InPolicies
  <2>6. new \in Repository /\ new.hook = None
    BY <2>1, <2>2, <2>5 DEF Repository
  <2>7. ops[s].token \in Tokens
    BY <1>0, <2>1, <2>3 DEF SourceInv, TypeOK
  <2>8. PICK x : /\ x = [at |-> "hook", repo |-> id, token |-> ops[s].token]
                 /\ ops'[s] = x
    BY <2>3
  <2>9. x \in Op /\ x.at = "hook" /\ x.repo = id
    BY <2>4, <2>7, <2>8 DEF Op
  <2>10. repos'[id] = new
    BY <1>0, <2>3, <2>4 DEF TypeOK
  <2> QED
    BY <2>3, <2>4, <2>6, <2>8, <2>9, <2>10 DEF Learnt, GithubOnly
<1>13. CASE InstallWebhook(s)
  <2>1. /\ ops[s] \in Op /\ ops[s].at = "hook" /\ At(s, "hook")
        /\ ops[s].repo \in RepoIds
    BY <1>0, <1>13, FieldsOfOp DEF InstallWebhook, At, OpFields
  <2>2. PICK h \in NextUnused(hooks) :
           /\ ops[s].repo \in Repos
           /\ hooks' = [hooks EXCEPT ![h] = rows[repos[ops[s].repo].row].org]
           /\ ops'[s] = [at |-> "record", repo |-> ops[s].repo, hook |-> h]
    BY <1>0, <1>13 DEF InstallWebhook, Continue, End, CreateProjectHook
  <2>3. h \in HookIds /\ hooks[h] = None
    BY <1>0, <2>2 DEF NextUnused, TypeOK
  <2>4. PICK x : /\ x = [at |-> "record", repo |-> ops[s].repo, hook |-> h]
                 /\ ops'[s] = x
    BY <2>2
  <2>5. x \in Op /\ x.at = "record" /\ x.repo = ops[s].repo /\ x.hook = h
    BY <2>1, <2>3, <2>4 DEF Op
  <2>6. source # "GITHUB"
    BY <1>0, <2>1 DEF At, SourceInv, GitlabOnly
  <2>7. UNCHANGED <<rows, repos>>
    BY <1>13 DEF InstallWebhook, integrationVars
  <2> QED
    BY <2>1, <2>2, <2>3, <2>4, <2>5, <2>6, <2>7 DEF Learnt, GithubOnly
<1>14. CASE FindUnknownBranches(s)
  <2>1. ops[s] \in Op /\ ops[s].at = "unknown" /\ At(s, "unknown")
    BY <1>0, <1>14 DEF FindUnknownBranches, At
  <2>2. PICK x : x = [ops[s] EXCEPT !.at = "policies"] /\ ops'[s] = x
    BY <1>0, <1>14 DEF FindUnknownBranches, Continue, End
  <2>3. x \in Op /\ x.at = "policies" /\ x.branches = ops[s].branches
    BY <2>1, <2>2 DEF Op
  <2>4. AddedBranches(ops[s]) = {} \/ Missing(AddedBranches(ops[s])) = {}
    BY <1>0, <1>14, <2>2 DEF FindUnknownBranches, Continue, End
  <2>5. \A b \in ops[s].branches : b \in ops[s].seen \/ remote[b] = "there"
    BY <2>4 DEF AddedBranches, Missing, BranchExists
  <2> QED
    BY <2>1, <2>2, <2>3, <2>5 DEF Learnt, GithubOnly, GitlabOnly
<1>15. CASE FindBranchPolicies(s)
  <2>1. /\ ops[s] \in Op /\ ops[s].at = "policies" /\ At(s, "policies")
        /\ ops[s].branches \in SUBSET Branches /\ ops[s].repo \in RepoIds
        /\ ops[s].asked \in Asked \cup {None}
    BY <1>0, <1>15, FieldsOfOp DEF FindBranchPolicies, At, OpFields
  <2>2. PICK current : current = IF ops[s].repo \in Repos
                                 THEN repos[ops[s].repo].policy ELSE <<>>
    OBVIOUS
  <2>3. PICK next : next = NextPolicy(ops[s], current)
    OBVIOUS
  <2>4. PICK changed : changed = [b \in Changed(next, current) |-> next[b]]
    OBVIOUS
  <2>5. PICK x : /\ x = [at |-> "save", repo |-> ops[s].repo,
                         branches |-> ops[s].branches, changed |-> changed]
                 /\ ops'[s] = x
    BY <1>0, <1>15, <2>2, <2>3, <2>4 DEF FindBranchPolicies, Continue
  <2>6. \A b \in DOMAIN current : current[b] \in ReviewPolicy
    <3>1. CASE ops[s].repo \in Repos
      BY <1>0, <2>2, <3>1, RepoFields, OfPolicies
    <3>2. CASE ops[s].repo \notin Repos
      BY <2>2, <3>2
    <3> QED
      BY <3>1, <3>2
  <2>7. next \in [ops[s].branches -> ReviewPolicy]
    <3>1. "MANUAL_ONLY" \in ReviewPolicy
      BY DEF ReviewPolicy
    <3> QED
      BY <2>1, <2>3, <2>6, <3>1 DEF NextPolicy
  <2>8. Changed(next, current) \subseteq ops[s].branches
    BY <2>7 DEF Changed
  <2>9. changed \in [Changed(next, current) -> ReviewPolicy]
    BY <2>4, <2>7, <2>8
  <2>10. /\ changed \in Policies /\ DOMAIN changed \subseteq ops[s].branches
    BY <2>1, <2>8, <2>9, InPolicies
  <2>11. /\ x \in Op /\ x.at = "save" /\ x.branches = ops[s].branches
         /\ x.changed = changed
    BY <2>1, <2>5, <2>10 DEF Op
  <2> QED
    BY <2>1, <2>5, <2>10, <2>11 DEF Learnt, GithubOnly, GitlabOnly
<1> QED
  BY <1>1, <1>2, <1>3, <1>4, <1>5, <1>6, <1>7, <1>8, <1>9, <1>10, <1>11,
     <1>12, <1>13, <1>14, <1>15 DEF Steps

-----------------------------------------------------------------------------
(* What becomes of a row: it is kept, written by an upsert, a health check *)
(* or an installation event, or deleted by a disconnect.                   *)
RowWritten(k) ==
    /\ rows'[k] \in Integration
    /\ source = "GITLAB" => rows'[k].token \in Tokens
    /\ \/ rows[k] = None
       \/ k \in Rows /\ rows'[k].org = rows[k].org
    /\ \/ rows'[k].state \notin {"UNINSTALLED", "SUSPENDED"}
       \/ \E e \in events : rows'[k].inst = e[1] /\ rows'[k].state = To[e[2]]

RowDeleted(k) ==
    /\ k \in Rows /\ rows'[k] = Gone
    /\ \A r \in ReposOf(k) : repos'[r] = Gone
    /\ \E s \in Slots : /\ At(s, "forget") \/ At(s, "revoke")
                        /\ At(s, "revoke") => ops[s].todo = {}
                        /\ ops[s].row = k

RowMove(k) == rows'[k] = rows[k] \/ RowWritten(k) \/ RowDeleted(k)

LEMMA Upserted ==
  ASSUME TypeOK, NEW o \in Orgs, NEW new \in Integration, new.org = o,
         new.state \notin {"UNINSTALLED", "SUSPENDED"},
         source = "GITLAB" => new.token \in Tokens,
         Upsert(o, new), NEW k \in RowIds
  PROVE  RowMove(k)
<1>0. rows \in [RowIds -> Integration \cup {None, Gone}]
  BY DEF TypeOK
<1>1. CASE RowsOf(o) # {}
  BY <1>0, <1>1 DEF Upsert, RowsOf, RowMove, RowWritten
<1>2. CASE RowsOf(o) = {}
  <2>1. PICK j \in NextUnused(rows) : rows' = [rows EXCEPT ![j] = new]
    BY <1>2 DEF Upsert
  <2>2. rows[j] = None
    BY <2>1 DEF NextUnused
  <2>3. CASE k = j
    <3>1. rows'[k] = new
      BY <1>0, <2>1, <2>3
    <3> QED
      BY <2>2, <2>3, <3>1 DEF RowMove, RowWritten
  <2>4. CASE k # j
    BY <1>0, <2>1, <2>4 DEF RowMove
  <2> QED
    BY <2>3, <2>4
<1> QED
  BY <1>1, <1>2

LEMMA RowsMove ==
  ASSUME TypeInv, [Next]_vars, NEW k \in RowIds
  PROVE  RowMove(k)
<1>0. /\ rows \in [RowIds -> Integration \cup {None, Gone}] /\ TypeOK
      /\ ops \in [Slots -> Op \cup {None}] /\ SourceInv
  BY DEF TypeInv, TypeOK
<1>1. ASSUME UNCHANGED rows PROVE RowMove(k)
  BY <1>1 DEF RowMove
<1>2. CASE UNCHANGED vars \/ Crash
  BY <1>1, <1>2 DEF vars, Crash, integrationVars
<1>3. ASSUME NEW s \in Slots, ConnectGithub(s) PROVE RowMove(k)
  <2>1. /\ ops[s] \in Op /\ ops[s].at = "connect" /\ ops[s].org \in Orgs
        /\ ops[s].inst \in Installs /\ source # "GITLAB"
    BY <1>0, <1>3, FieldsOfOp
       DEF ConnectGithub, At, OpFields, SourceInv, GithubOnly
  <2>2. PICK new : new = [org |-> ops[s].org, state |-> "ACTIVE",
                          inst |-> ops[s].inst, token |-> None]
    OBVIOUS
  <2>3. /\ new \in Integration /\ new.org = ops[s].org
        /\ new.state = "ACTIVE"
    BY <2>1, <2>2 DEF Integration, IntegrationState
  <2>4. UNCHANGED rows \/ Upsert(ops[s].org, new)
    BY <1>3, <2>2 DEF ConnectGithub
  <2> QED
    BY <1>0, <1>1, <2>1, <2>3, <2>4, Upserted
<1>4. ASSUME NEW s \in Slots, MarkPending(s) PROVE RowMove(k)
  <2>1. /\ ops[s] \in Op /\ ops[s].at = "mark" /\ ops[s].org \in Orgs
        /\ source # "GITLAB"
    BY <1>0, <1>4, FieldsOfOp
       DEF MarkPending, At, OpFields, SourceInv, GithubOnly
  <2>2. PICK held : held = {rows[j].inst : j \in RowsOf(ops[s].org)}
    OBVIOUS
  <2>3. held \subseteq Installs \cup {None}
    BY <1>0, <2>2, RowFields DEF RowsOf
  <2>4. PICK i \in IF held = {} THEN {None} ELSE held :
           Upsert(ops[s].org, [org |-> ops[s].org,
                               state |-> "PENDING_APPROVAL", inst |-> i,
                               token |-> None])
    BY <1>4, <2>2 DEF MarkPending
  <2>5. PICK new : new = [org |-> ops[s].org, state |-> "PENDING_APPROVAL",
                          inst |-> i, token |-> None]
    OBVIOUS
  <2>6. /\ new \in Integration /\ new.org = ops[s].org
        /\ new.state = "PENDING_APPROVAL"
    BY <2>1, <2>3, <2>4, <2>5 DEF Integration, IntegrationState
  <2> QED
    BY <1>0, <2>1, <2>4, <2>5, <2>6, Upserted
<1>5. ASSUME NEW s \in Slots, StoreToken(s) PROVE RowMove(k)
  <2>1. /\ ops[s] \in Op /\ ops[s].at = "store" /\ ops[s].org \in Orgs
        /\ ops[s].token \in Tokens /\ ops[s].state \in TokenState
    BY <1>0, <1>5, FieldsOfOp DEF StoreToken, At, OpFields
  <2>2. PICK new : new = [org |-> ops[s].org, state |-> ops[s].state,
                          inst |-> None, token |-> ops[s].token]
    OBVIOUS
  <2>3. /\ new \in Integration /\ new.org = ops[s].org
        /\ new.state \notin {"UNINSTALLED", "SUSPENDED"}
        /\ new.token \in Tokens
    BY <2>1, <2>2 DEF Integration, IntegrationState, TokenState
  <2>4. Upsert(ops[s].org, new)
    BY <1>5, <2>2 DEF StoreToken
  <2> QED
    BY <1>0, <2>1, <2>3, <2>4, Upserted
<1>6. ASSUME NEW e \in events, InstallationEvent(e) PROVE RowMove(k)
  <2>1. e \in Event
    BY <1>0 DEF TypeOK
  <2>2. CASE k \in Rows /\ About(rows[k], e)
    <3>1. PICK to : to = To[e[2]]
      OBVIOUS
    <3>2. to \in IntegrationState
      BY <2>1, <3>1 DEF Event, To, IntegrationState
    <3>3. rows[k] \in Integration
      BY <1>0, <2>2, RowFields
    <3>4. PICK new : new = [rows[k] EXCEPT !.state = to] /\ rows'[k] = new
      BY <1>6, <2>2, <3>1 DEF InstallationEvent
    <3>5. /\ new \in Integration /\ new.org = rows[k].org /\ new.state = to
          /\ new.inst = rows[k].inst /\ new.token = rows[k].token
      BY <3>2, <3>3, <3>4 DEF Integration
    <3>6. rows[k].inst = e[1]
      BY <2>2 DEF About
    <3> QED
      BY <1>0, <2>2, <3>1, <3>4, <3>5, <3>6 DEF RowMove, RowWritten, SourceInv
  <2>3. CASE ~(k \in Rows /\ About(rows[k], e))
    BY <1>6, <2>3 DEF InstallationEvent, RowMove
  <2> QED
    BY <2>2, <2>3
<1>7. ASSUME NEW s \in Slots, WriteHealth(s) PROVE RowMove(k)
  <2>1. /\ ops[s] \in Op /\ ops[s].at = "health" /\ ops[s].row \in RowIds
        /\ ops[s].state \in TokenState \cup {"INVALID"}
    BY <1>0, <1>7, FieldsOfOp DEF WriteHealth, At, OpFields
  <2>2. CASE k = ops[s].row /\ k \in Rows
    <3>1. rows[k] \in Integration
      BY <1>0, <2>2, RowFields
    <3>2. PICK new : /\ new = [rows[k] EXCEPT !.state = ops[s].state]
                     /\ rows'[k] = new
      BY <1>0, <1>7, <2>1, <2>2 DEF WriteHealth
    <3>3. /\ new \in Integration /\ new.org = rows[k].org
          /\ new.state = ops[s].state /\ new.token = rows[k].token
      BY <2>1, <3>1, <3>2 DEF Integration, IntegrationState, TokenState
    <3> QED
      BY <1>0, <2>1, <2>2, <3>2, <3>3
         DEF RowMove, RowWritten, SourceInv, TokenState
  <2>3. CASE ~(k = ops[s].row /\ k \in Rows)
    BY <1>0, <1>7, <2>3 DEF WriteHealth, RowMove
  <2> QED
    BY <2>2, <2>3
<1>8. ASSUME NEW s \in Slots, Forget(s) \/ Disconnected(s) PROVE RowMove(k)
  <2>1. CASE ops[s].row \in Rows /\ k = ops[s].row
    <3>1. DeleteRow(k)
      BY <1>8, <2>1 DEF Forget, Disconnected
    <3>2. rows'[k] = Gone
      BY <1>0, <3>1 DEF DeleteRow
    <3>3. \A r \in ReposOf(k) : repos'[r] = Gone
      BY <3>1 DEF DeleteRow, ReposOf, Repos
    <3>4. /\ At(s, "forget") \/ At(s, "revoke")
          /\ At(s, "revoke") => ops[s].todo = {}
      BY <1>8 DEF Forget, Disconnected, At
    <3> QED
      BY <2>1, <3>2, <3>3, <3>4 DEF RowMove, RowDeleted
  <2>2. CASE ~(ops[s].row \in Rows /\ k = ops[s].row)
    BY <1>0, <1>8, <2>2
       DEF Forget, Disconnected, DeleteRow, integrationVars, RowMove
  <2> QED
    BY <2>1, <2>2
<1>9. CASE GithubSteps
  <2>1. ASSUME \/ \E o \in Orgs, n \in Intents : CreateIntent(o, n)
               \/ \E n \in Intents : IntentExpires(n)
               \/ \E s \in Slots, n \in Intents, i \in Installs \cup {None} :
                      Callback(s, n, i)
               \/ \E s \in Slots : Consume(s) \/ Verify(s) \/ PendingRead(s)
                                   \/ Uninstall(s)
               \/ \E i \in Installs : Installed(i) \/ Suspended(i)
                                      \/ Unsuspended(i) \/ Uninstalled(i)
               \/ \E e \in events : EventLost(e)
               \/ \E s \in Slots, k_1 \in RowIds : DisconnectGithub(s, k_1)
        PROVE  UNCHANGED rows
    BY <2>1 DEF CreateIntent, IntentExpires, Callback, Consume, Verify,
       PendingRead, Uninstall, Installed, Suspended, Unsuspended, Uninstalled,
       AccountChanges, EventLost, DisconnectGithub, integrationVars
  <2> QED
    BY <1>1, <1>3, <1>4, <1>6, <1>8, <1>9, <2>1 DEF GithubSteps
<1>10. CASE GitlabSteps
  <2>1. ASSUME \/ \E s \in Slots, j \in RowIds : \/ DisconnectGitlab(s, j)
                                                 \/ Health(s, j)
               \/ \E s \in Slots, h \in HookIds : Revoke(s, h)
               \/ \E t \in Tokens : TokenAges(t)
               \/ \E s \in Slots, o \in Orgs, t \in Tokens :
                      ConnectGitlab(s, o, t)
               \/ \E s \in Slots : InstallWebhook(s) \/ RecordHook(s)
               \/ \E h \in HookIds : HookDelivery(h)
        PROVE  UNCHANGED rows
    BY <2>1 DEF DisconnectGitlab, Health, Revoke, TokenAges, ConnectGitlab,
       InstallWebhook, RecordHook, HookDelivery, integrationVars
  <2> QED
    BY <1>1, <1>5, <1>7, <1>8, <1>10, <2>1 DEF GitlabSteps
<1>11. CASE RepositorySteps
  <2>1. UNCHANGED rows
    BY <1>11 DEF RepositorySteps, CreateRepo, InsertRepo, BranchDeleted,
       UpdateScanConfig, FindUnknownBranches, FindBranchPolicies,
       SaveScanConfig, integrationVars
  <2> QED
    BY <1>1, <2>1
<1> QED
  BY <1>2, <1>9, <1>10, <1>11 DEF Next

(* What becomes of a repository: it is kept, inserted, told its hook,      *)
(* given a new scope, or deleted with its row.                             *)
RepoInserted(r) ==
    /\ repos[r] = None /\ repos'[r] \in Repository
    /\ repos'[r].row \in Rows /\ repos'[r].hook = None /\ UNCHANGED rows
    /\ \E s \in Slots : /\ At(s, "insert")
                        /\ repos'[r].branches = ops[s].branches
                        /\ DOMAIN repos'[r].policy = ops[s].branches

RepoHooked(r) ==
    \E s \in Slots :
        /\ At(s, "record") /\ ops[s].repo = r /\ ops'[s] = None
        /\ UNCHANGED <<rows, hooks>>
        /\ Disconnecting(repos[r].row) => ops[s].hook \in excused'
        /\ repos'[r].hook = ops[s].hook
        /\ repos'[r].branches = repos[r].branches
        /\ repos'[r].policy = repos[r].policy

RepoScoped(r) ==
    \E s \in Slots :
        /\ At(s, "save") /\ ops[s].repo = r
        /\ repos'[r].hook = repos[r].hook
        /\ repos'[r].branches = ops[s].branches
        /\ DOMAIN repos'[r].policy \subseteq
               ops[s].branches \cup DOMAIN ops[s].changed

RepoMove(r) ==
    \/ repos'[r] = repos[r]
    \/ RepoInserted(r)
    \/ /\ r \in Repos /\ repos'[r] \in Repository
       /\ repos'[r].row = repos[r].row
       /\ RepoHooked(r) \/ RepoScoped(r)
    \/ /\ r \in Repos /\ repos'[r] = Gone /\ rows'[repos[r].row] = Gone

LEMMA ReposMove ==
  ASSUME TypeInv, [Next]_vars, NEW r \in RepoIds
  PROVE  RepoMove(r)
<1>0. /\ repos \in [RepoIds -> Repository \cup {None, Gone}] /\ TypeOK
      /\ ops \in [Slots -> Op \cup {None}] /\ SourceInv
      /\ rows \in [RowIds -> Integration \cup {None, Gone}]
  BY DEF TypeInv, TypeOK
<1>1. ASSUME UNCHANGED repos PROVE RepoMove(r)
  BY <1>1 DEF RepoMove
<1>2. CASE UNCHANGED vars \/ Crash
  BY <1>1, <1>2 DEF vars, Crash, integrationVars
<1>3. ASSUME NEW s \in Slots, Forget(s) \/ Disconnected(s) PROVE RepoMove(r)
  <2>1. CASE ops[s].row \in Rows
    <3>1. DeleteRow(ops[s].row)
      BY <1>3, <2>1 DEF Forget, Disconnected
    <3> QED
      BY <1>0, <2>1, <3>1 DEF DeleteRow, RepoMove, ReposOf, Rows
  <2>2. CASE ops[s].row \notin Rows
    BY <1>3, <1>1, <2>2 DEF Forget, Disconnected, integrationVars
  <2> QED
    BY <2>1, <2>2
<1>4. ASSUME NEW s \in Slots, InsertRepo(s) PROVE RepoMove(r)
  <2>1. /\ ops[s] \in Op /\ ops[s].at = "insert" /\ At(s, "insert")
        /\ ops[s].row \in RowIds /\ ops[s].branches \in SUBSET Branches
        /\ ops[s].policy \in ReviewPolicy
        /\ ops[s].inst \in Installs \cup {None}
    BY <1>0, <1>4, FieldsOfOp DEF InsertRepo, At, OpFields
  <2>2. PICK policy : policy = [b \in ops[s].branches |-> ops[s].policy]
    OBVIOUS
  <2>3. policy \in Policies /\ DOMAIN policy = ops[s].branches
    BY <2>1, <2>2, InPolicies
  <2>4. PICK new : new = [row |-> ops[s].row, project |-> ops[s].inst,
                          hook |-> None, branches |-> ops[s].branches,
                          policy |-> policy]
    OBVIOUS
  <2>5. /\ new \in Repository /\ new.row = ops[s].row /\ new.hook = None
        /\ new.branches = ops[s].branches /\ new.policy = policy
    BY <2>1, <2>3, <2>4 DEF Repository
  <2>6. \/ UNCHANGED repos
        \/ /\ ops[s].row \in Rows /\ UNCHANGED rows
           /\ \E id \in NextUnused(repos) : repos' = [repos EXCEPT ![id] = new]
    BY <1>4, <2>2, <2>4 DEF InsertRepo
  <2>7. ASSUME NEW id \in NextUnused(repos),
               repos' = [repos EXCEPT ![id] = new],
               ops[s].row \in Rows, UNCHANGED rows
        PROVE  RepoMove(r)
    <3>1. CASE r = id
      <4>1. repos[r] = None /\ repos'[r] = new
        BY <1>0, <2>7, <3>1 DEF NextUnused
      <4> QED
        BY <2>1, <2>3, <2>5, <2>7, <4>1 DEF RepoMove, RepoInserted
    <3>2. CASE r # id
      BY <1>0, <2>7, <3>2 DEF RepoMove
    <3> QED
      BY <3>1, <3>2
  <2> QED
    BY <1>1, <2>6, <2>7
<1>5. ASSUME NEW s \in Slots, RecordHook(s) PROVE RepoMove(r)
  <2>1. /\ ops[s] \in Op /\ At(s, "record") /\ ops[s].repo \in RepoIds
        /\ ops[s].hook \in HookIds /\ UNCHANGED <<rows, hooks>>
        /\ ops'[s] = None
    BY <1>0, <1>5, FieldsOfOp DEF RecordHook, At, OpFields, End, Continue
  <2>2. CASE r \in Repos /\ r = ops[s].repo
    <3>1. repos[r] \in Repository
      BY <1>0, <2>2, RepoFields
    <3>2. PICK new : /\ new = [repos[r] EXCEPT !.hook = ops[s].hook]
                     /\ repos'[r] = new
      BY <1>0, <1>5, <2>2 DEF RecordHook
    <3>3. /\ new \in Repository /\ new.row = repos[r].row
          /\ new.hook = ops[s].hook /\ new.branches = repos[r].branches
          /\ new.policy = repos[r].policy
      BY <2>1, <3>1, <3>2 DEF Repository
    <3>4. Disconnecting(repos[r].row) => ops[s].hook \in excused'
      BY <1>5, <2>2 DEF RecordHook
    <3> QED
      BY <2>1, <2>2, <3>2, <3>3, <3>4 DEF RepoMove, RepoHooked
  <2>3. CASE ~(r \in Repos /\ r = ops[s].repo)
    BY <1>0, <1>5, <2>3 DEF RecordHook, RepoMove
  <2> QED
    BY <2>2, <2>3
<1>6. ASSUME NEW s \in Slots, SaveScanConfig(s) PROVE RepoMove(r)
  <2>1. /\ ops[s] \in Op /\ At(s, "save") /\ ops[s].repo \in RepoIds
        /\ ops[s].branches \in SUBSET Branches /\ ops[s].changed \in Policies
    BY <1>0, <1>6, FieldsOfOp DEF SaveScanConfig, At, OpFields
  <2>2. CASE r \in Repos /\ r = ops[s].repo
    <3>1. repos[r] \in Repository /\ repos[r].policy \in Policies
      BY <1>0, <2>2, RepoFields
    <3>2. PICK kept : kept = KeptPolicies(repos[r].policy, ops[s].branches)
      OBVIOUS
    <3>3. PICK D : D = kept \cup DOMAIN ops[s].changed
      OBVIOUS
    <3>4. PICK policy :
             /\ policy = [b \in D |-> IF b \in DOMAIN ops[s].changed
                                      THEN ops[s].changed[b]
                                      ELSE repos[r].policy[b]]
             /\ repos' = [repos EXCEPT ![r] =
                             [repos[r] EXCEPT !.branches = ops[s].branches,
                                              !.policy = policy]]
      BY <1>6, <2>2, <3>2, <3>3 DEF SaveScanConfig
    <3>5. /\ kept \subseteq ops[s].branches
          /\ kept \subseteq DOMAIN repos[r].policy
      BY <3>2 DEF KeptPolicies
    <3>6. D \in SUBSET Branches
      BY <2>1, <3>3, <3>5, OfPolicies
    <3>7. policy \in [D -> ReviewPolicy]
      BY <2>1, <3>1, <3>3, <3>4, <3>5, OfPolicies
    <3>8. policy \in Policies /\ DOMAIN policy = D
      BY <3>6, <3>7, InPolicies
    <3>9. PICK new : /\ new = [repos[r] EXCEPT !.branches = ops[s].branches,
                                               !.policy = policy]
                     /\ repos'[r] = new
      BY <1>0, <2>2, <3>4
    <3>10. /\ new \in Repository /\ new.row = repos[r].row
           /\ new.hook = repos[r].hook /\ new.branches = ops[s].branches
           /\ new.policy = policy
      BY <2>1, <3>1, <3>8, <3>9 DEF Repository
    <3> QED
      BY <2>1, <2>2, <3>3, <3>5, <3>8, <3>9, <3>10 DEF RepoMove, RepoScoped
  <2>3. CASE ~(r \in Repos /\ r = ops[s].repo)
    BY <1>0, <1>6, <2>3 DEF SaveScanConfig, RepoMove
  <2> QED
    BY <2>2, <2>3
<1>7. CASE GithubSteps
  <2>1. ASSUME ~\E s \in Slots : Forget(s)
        PROVE  UNCHANGED repos
    BY <1>7, <2>1 DEF GithubSteps, CreateIntent, IntentExpires, Callback,
       Consume, Verify, ConnectGithub, PendingRead, MarkPending, Uninstall,
       Installed, Suspended, Unsuspended, Uninstalled, AccountChanges,
       InstallationEvent, EventLost, DisconnectGithub, integrationVars
  <2> QED
    BY <1>1, <1>3, <2>1
<1>8. CASE GitlabSteps
  <2>1. ASSUME ~\E s \in Slots : Disconnected(s) \/ RecordHook(s)
        PROVE  UNCHANGED repos
    BY <1>8, <2>1 DEF GitlabSteps, DisconnectGitlab, Health, Revoke,
       StoreToken, WriteHealth, TokenAges, ConnectGitlab, InstallWebhook,
       HookDelivery, integrationVars
  <2> QED
    BY <1>1, <1>3, <1>5, <2>1
<1>9. CASE RepositorySteps
  <2>1. ASSUME ~\E s \in Slots : InsertRepo(s) \/ SaveScanConfig(s)
        PROVE  UNCHANGED repos
    BY <1>9, <2>1 DEF RepositorySteps, CreateRepo, BranchDeleted,
       UpdateScanConfig, FindUnknownBranches, FindBranchPolicies,
       integrationVars
  <2> QED
    BY <1>1, <1>4, <1>6, <2>1
<1> QED
  BY <1>2, <1>7, <1>8, <1>9 DEF Next

-----------------------------------------------------------------------------
(* Type correctness.                                                       *)
LEMMA OpsShape ==
  ASSUME TypeInv, [Next]_vars
  PROVE  ops' = [s \in Slots |-> ops'[s]]
<1>0. ops \in [Slots -> Op \cup {None}]
  BY DEF TypeInv, TypeOK
<1>1. ASSUME UNCHANGED ops PROVE ops' = [s \in Slots |-> ops'[s]]
  BY <1>0, <1>1
<1>2. ASSUME NEW t, NEW x, ops' = [ops EXCEPT ![t] = x]
      PROVE  ops' = [s \in Slots |-> ops'[s]]
  BY <1>0, <1>2
<1>3. CASE UNCHANGED vars
  BY <1>1, <1>3 DEF vars
<1>4. CASE Crash
  BY <1>4 DEF Crash
<1>5. CASE GithubSteps
  <2>1. UNCHANGED ops \/ \E t, x : ops' = [ops EXCEPT ![t] = x]
    BY <1>5 DEF GithubSteps, CreateIntent, IntentExpires, Callback, Begin,
       Consume, Verify, ConnectGithub, PendingRead, MarkPending, Uninstall,
       Installed, Suspended, Unsuspended, Uninstalled, AccountChanges,
       InstallationEvent, EventLost, DisconnectGithub, Forget, Continue, End
  <2> QED
    BY <1>1, <1>2, <2>1
<1>6. CASE GitlabSteps
  <2>1. ASSUME NEW s \in Slots, NEW h \in HookIds, Revoke(s, h)
        PROVE  \E t, x : ops' = [ops EXCEPT ![t] = x]
    <3>1. PICK x : x = [ops[s] EXCEPT !.todo = ops[s].todo \ {h}]
      OBVIOUS
    <3>2. ops' = [ops EXCEPT ![s] = x]
      BY <1>0, <2>1, <3>1 DEF Revoke
    <3> QED
      BY <3>2
  <2>2. UNCHANGED ops \/ \E t, x : ops' = [ops EXCEPT ![t] = x]
    BY <1>6, <2>1 DEF GitlabSteps, DisconnectGitlab, Health, Begin,
       Disconnected, StoreToken, WriteHealth, TokenAges, ConnectGitlab,
       InstallWebhook, RecordHook, HookDelivery, Continue, End
  <2> QED
    BY <1>1, <1>2, <2>2
<1>7. CASE RepositorySteps
  <2>1. UNCHANGED ops \/ \E t, x : ops' = [ops EXCEPT ![t] = x]
    BY <1>7 DEF RepositorySteps, CreateRepo, Begin, InsertRepo, BranchDeleted,
       UpdateScanConfig, FindUnknownBranches, FindBranchPolicies,
       SaveScanConfig, Continue, End
  <2> QED
    BY <1>1, <1>2, <2>1
<1> QED
  BY <1>3, <1>4, <1>5, <1>6, <1>7 DEF Next

LEMMA TypeOps ==
  ASSUME TypeInv, [Next]_vars
  PROVE  ops' \in [Slots -> Op \cup {None}]
<1>1. ASSUME NEW s \in Slots PROVE ops'[s] \in Op \cup {None}
  BY OwnSteps, NewOp DEF TypeInv, TypeOK
<1> QED
  BY <1>1, OpsShape

LEMMA RowsShape ==
  ASSUME TypeInv, [Next]_vars
  PROVE  /\ rows' = [k \in RowIds |-> rows'[k]]
         /\ repos' = [r \in RepoIds |-> repos'[r]]
<1>0. /\ rows \in [RowIds -> Integration \cup {None, Gone}]
      /\ repos \in [RepoIds -> Repository \cup {None, Gone}]
  BY DEF TypeInv, TypeOK
<1> DEFINE Rowwise == rows' = [k \in RowIds |-> rows'[k]]
           Repowise == repos' = [r \in RepoIds |-> repos'[r]]
<1>1. /\ UNCHANGED rows => Rowwise
      /\ UNCHANGED repos => Repowise
      /\ \A k, x : rows' = [rows EXCEPT ![k] = x] => Rowwise
      /\ \A r, x : repos' = [repos EXCEPT ![r] = x] => Repowise
  BY <1>0
<1>2. \A o, new : Upsert(o, new) => Rowwise
  BY <1>1 DEF Upsert
<1>3. \A k \in RowIds : DeleteRow(k) => Rowwise /\ Repowise
  BY <1>1 DEF DeleteRow
<1>4. CASE UNCHANGED vars \/ Crash
  BY <1>1, <1>4 DEF vars, Crash, integrationVars
<1>5. ASSUME NEW s \in Slots, Forget(s) \/ Disconnected(s)
      PROVE  Rowwise /\ Repowise
  BY <1>1, <1>3, <1>5 DEF Forget, Disconnected, Rows, integrationVars
<1>6. CASE GithubSteps
  <2>1. ASSUME ~\E s \in Slots : Forget(s)
        PROVE  UNCHANGED repos
    BY <1>6, <2>1 DEF GithubSteps, CreateIntent, IntentExpires, Callback,
       Consume, Verify, ConnectGithub, PendingRead, MarkPending, Uninstall,
       Installed, Suspended, Unsuspended, Uninstalled, AccountChanges,
       InstallationEvent, EventLost, DisconnectGithub, integrationVars
  <2>2. ASSUME NEW s \in Slots, ConnectGithub(s) \/ MarkPending(s)
        PROVE  Rowwise
    BY <1>1, <1>2, <2>2 DEF ConnectGithub, MarkPending
  <2>3. ASSUME NEW e \in events, InstallationEvent(e) PROVE Rowwise
    BY <2>3 DEF InstallationEvent
  <2>4. ASSUME ~\E s \in Slots : \/ ConnectGithub(s) \/ MarkPending(s)
                                 \/ Forget(s),
               ~\E e \in events : InstallationEvent(e)
        PROVE  UNCHANGED rows
    BY <1>6, <2>4 DEF GithubSteps, CreateIntent, IntentExpires, Callback,
       Consume, Verify, PendingRead, Uninstall, Installed, Suspended,
       Unsuspended, Uninstalled, AccountChanges, EventLost, DisconnectGithub,
       integrationVars
  <2> QED
    BY <1>1, <1>5, <2>1, <2>2, <2>3, <2>4
<1>7. CASE GitlabSteps
  <2>1. ASSUME ~\E s \in Slots : Disconnected(s) \/ RecordHook(s)
        PROVE  UNCHANGED repos
    BY <1>7, <2>1 DEF GitlabSteps, DisconnectGitlab, Health, Revoke,
       StoreToken, WriteHealth, TokenAges, ConnectGitlab, InstallWebhook,
       HookDelivery, integrationVars
  <2>2. ASSUME NEW s \in Slots, RecordHook(s) PROVE Repowise
    <3>1. CASE ops[s].repo \in Repos
      <4>1. PICK x : x = [repos[ops[s].repo] EXCEPT !.hook = ops[s].hook]
        OBVIOUS
      <4>2. repos' = [repos EXCEPT ![ops[s].repo] = x]
        BY <1>0, <2>2, <3>1, <4>1 DEF RecordHook
      <4> QED
        BY <1>1, <4>2
    <3>2. CASE ops[s].repo \notin Repos
      BY <1>1, <2>2, <3>2 DEF RecordHook
    <3> QED
      BY <3>1, <3>2
  <2>3. ASSUME NEW s \in Slots, StoreToken(s) PROVE Rowwise
    BY <1>2, <2>3 DEF StoreToken
  <2>4. ASSUME NEW s \in Slots, WriteHealth(s) PROVE Rowwise
    <3>1. CASE ops[s].row \in Rows
      <4>1. PICK x : x = [rows[ops[s].row] EXCEPT !.state = ops[s].state]
        OBVIOUS
      <4>2. rows' = [rows EXCEPT ![ops[s].row] = x]
        BY <1>0, <2>4, <3>1, <4>1 DEF WriteHealth
      <4> QED
        BY <1>1, <4>2
    <3>2. CASE ops[s].row \notin Rows
      BY <1>1, <2>4, <3>2 DEF WriteHealth
    <3> QED
      BY <3>1, <3>2
  <2>5. ASSUME ~\E s \in Slots : \/ Disconnected(s) \/ StoreToken(s)
                                 \/ WriteHealth(s)
        PROVE  UNCHANGED rows
    BY <1>7, <2>5 DEF GitlabSteps, DisconnectGitlab, Health, Revoke, TokenAges,
       ConnectGitlab, InstallWebhook, RecordHook, HookDelivery,
       integrationVars
  <2> QED
    BY <1>1, <1>5, <2>1, <2>2, <2>3, <2>4, <2>5
<1>8. CASE RepositorySteps
  <2>1. UNCHANGED rows
    BY <1>8 DEF RepositorySteps, CreateRepo, InsertRepo, BranchDeleted,
       UpdateScanConfig, FindUnknownBranches, FindBranchPolicies,
       SaveScanConfig, integrationVars
  <2>2. UNCHANGED repos \/ \E r, x : repos' = [repos EXCEPT ![r] = x]
    BY <1>8 DEF RepositorySteps, CreateRepo, InsertRepo, BranchDeleted,
       UpdateScanConfig, FindUnknownBranches, FindBranchPolicies,
       SaveScanConfig, integrationVars
  <2> QED
    BY <1>1, <2>1, <2>2
<1> QED
  BY <1>4, <1>6, <1>7, <1>8 DEF Next

LEMMA TypeRows ==
  ASSUME TypeInv, [Next]_vars
  PROVE  /\ rows' \in [RowIds -> Integration \cup {None, Gone}]
         /\ repos' \in [RepoIds -> Repository \cup {None, Gone}]
         /\ RowsLive'
<1>0. /\ rows \in [RowIds -> Integration \cup {None, Gone}]
      /\ repos \in [RepoIds -> Repository \cup {None, Gone}]
  BY DEF TypeInv, TypeOK
<1>1. ASSUME NEW k \in RowIds PROVE rows'[k] \in Integration \cup {None, Gone}
  BY <1>0, RowsMove DEF RowMove, RowWritten, RowDeleted
<1>2. ASSUME NEW r \in RepoIds
      PROVE  repos'[r] \in Repository \cup {None, Gone}
  BY <1>0, ReposMove DEF RepoMove, RepoInserted
<1>3. ASSUME NEW r \in RepoIds, repos'[r] \notin {None, Gone}
      PROVE  /\ repos'[r].row \in RowIds
             /\ rows'[repos'[r].row] \notin {None, Gone}
  <2>1. CASE RepoInserted(r)
    BY <2>1 DEF RepoInserted, Rows
  <2>2. CASE r \in Repos /\ repos'[r].row = repos[r].row
    <3>1. PICK k \in Rows : k = repos[r].row
      BY <2>2 DEF TypeInv, RowsLive
    <3>2. k \in RowIds /\ rows[k] \notin {None, Gone} /\ r \in ReposOf(k)
      BY <2>2, <3>1 DEF Rows, ReposOf
    <3>3. ~RowDeleted(k)
      BY <1>3, <3>2 DEF RowDeleted
    <3>4. rows'[k] \notin {None, Gone}
      BY <3>2, <3>3, RowsMove DEF RowMove, RowWritten
    <3> QED
      BY <2>2, <3>1, <3>2, <3>4
  <2>3. RepoInserted(r) \/ (r \in Repos /\ repos'[r].row = repos[r].row)
    BY <1>3, ReposMove DEF RepoMove, Repos
  <2> QED
    BY <2>1, <2>2, <2>3
<1> QED
  BY <1>1, <1>2, <1>3, RowsShape DEF RowsLive, Repos, Rows

LEMMA TypeIntents ==
  ASSUME TypeInv, [Next]_vars
  PROVE  /\ intents' \in [Intents -> Intent \cup {None, Gone}]
         /\ source = "GITLAB" => intents' = intents
<1>0. /\ intents \in [Intents -> Intent \cup {None, Gone}] /\ SourceInv
      /\ ops \in [Slots -> Op \cup {None}]
  BY DEF TypeInv, TypeOK
<1>1. ASSUME NEW n \in Intents, NEW x \in Intent \cup {None, Gone},
             intents' = [intents EXCEPT ![n] = x], source # "GITLAB"
      PROVE  /\ intents' \in [Intents -> Intent \cup {None, Gone}]
             /\ source = "GITLAB" => intents' = intents
  BY <1>0, <1>1
<1>2. ASSUME NEW o \in Orgs, NEW n \in Intents, CreateIntent(o, n)
      PROVE  /\ intents' \in [Intents -> Intent \cup {None, Gone}]
             /\ source = "GITLAB" => intents' = intents
  <2>1. PICK x : x = [org |-> o, expired |-> FALSE]
    OBVIOUS
  <2>2. x \in Intent
    BY <2>1 DEF Intent
  <2> QED
    BY <1>1, <1>2, <2>1, <2>2 DEF CreateIntent
<1>3. ASSUME NEW n \in Intents, IntentExpires(n)
      PROVE  /\ intents' \in [Intents -> Intent \cup {None, Gone}]
             /\ source = "GITLAB" => intents' = intents
  <2>1. intents[n] \in Intent /\ source # "GITLAB"
    BY <1>0, <1>3 DEF IntentExpires, SourceInv
  <2>2. PICK x : x = [intents[n] EXCEPT !.expired = TRUE]
    OBVIOUS
  <2>3. x \in Intent
    BY <2>1, <2>2 DEF Intent
  <2>4. intents' = [intents EXCEPT ![n] = x]
    BY <1>0, <1>3, <2>2 DEF IntentExpires
  <2> QED
    BY <1>1, <2>1, <2>3, <2>4
<1>4. ASSUME NEW s \in Slots, Consume(s)
      PROVE  /\ intents' \in [Intents -> Intent \cup {None, Gone}]
             /\ source = "GITLAB" => intents' = intents
  <2>1. ops[s].intent \in Intents /\ source # "GITLAB"
    BY <1>0, <1>4, FieldsOfOp
       DEF Consume, At, OpFields, SourceInv, GithubOnly
  <2>2. intents' = [intents EXCEPT ![ops[s].intent] = Gone]
    BY <1>4 DEF Consume
  <2> QED
    BY <1>1, <2>1, <2>2
<1>5. ASSUME ~\E o \in Orgs, n \in Intents : CreateIntent(o, n),
             ~\E n \in Intents : IntentExpires(n),
             ~\E s \in Slots : Consume(s)
      PROVE  UNCHANGED intents
  <2>1. CASE UNCHANGED vars \/ Crash
    BY <2>1 DEF vars, Crash, githubVars
  <2>2. CASE GithubSteps
    BY <1>5, <2>2 DEF GithubSteps, Callback, Verify, ConnectGithub,
       PendingRead, MarkPending, Uninstall, Installed, Suspended, Unsuspended,
       Uninstalled, AccountChanges, InstallationEvent, EventLost,
       DisconnectGithub, Forget, githubVars
  <2>3. CASE GitlabSteps
    BY <2>3 DEF GitlabSteps, DisconnectGitlab, Health, Revoke, Disconnected,
       StoreToken, WriteHealth, TokenAges, ConnectGitlab, InstallWebhook,
       RecordHook, HookDelivery, githubVars
  <2>4. CASE RepositorySteps
    BY <2>4 DEF RepositorySteps, CreateRepo, InsertRepo, BranchDeleted,
       UpdateScanConfig, FindUnknownBranches, FindBranchPolicies,
       SaveScanConfig, githubVars
  <2> QED
    BY <2>1, <2>2, <2>3, <2>4 DEF Next
<1> QED
  BY <1>0, <1>2, <1>3, <1>4, <1>5

(* What becomes of installations and their events.                         *)
AccountMove ==
    \/ UNCHANGED <<account, sent>> /\ events' \subseteq events
    \/ \E i \in Installs :
          /\ account[i] = "absent" /\ UNCHANGED <<sent, events>>
          /\ account' = [account EXCEPT ![i] = "installed"]
    \/ \E i \in Installs, to \in {"installed", "suspended", "removed"} :
          /\ account[i] # "removed" \/ to = "removed"
          /\ account' = [account EXCEPT ![i] = to]
          /\ \/ UNCHANGED <<sent, events>>
             \/ \E event \in {"deleted", "suspend", "unsuspend"} :
                   /\ sent' = sent \cup {<<i, event>>}
                   /\ events' = events \cup {<<i, event>>}

LEMMA AccountMoves ==
  ASSUME TypeInv, [Next]_vars
  PROVE  AccountMove
<1>1. CASE UNCHANGED vars \/ Crash
  BY <1>1 DEF vars, Crash, githubVars, AccountMove
<1>2. CASE GithubSteps
  <2>1. ASSUME NEW i \in Installs, Installed(i) PROVE AccountMove
    BY <2>1 DEF Installed, AccountMove
  <2>2. ASSUME NEW i \in Installs,
               Suspended(i) \/ Unsuspended(i) \/ Uninstalled(i)
        PROVE  AccountMove
    BY <2>2 DEF Suspended, Unsuspended, Uninstalled, AccountChanges,
       AccountMove
  <2>3. ASSUME NEW e \in events, InstallationEvent(e) \/ EventLost(e)
        PROVE  AccountMove
    BY <2>3 DEF InstallationEvent, EventLost, AccountMove
  <2>4. ASSUME NEW s \in Slots, Uninstall(s) PROVE AccountMove
    <3>1. ops[s].inst \in Installs
      BY <2>4, FieldsOfOp DEF Uninstall, At, OpFields, TypeInv, TypeOK
    <3> QED
      BY <2>4, <3>1 DEF Uninstall, AccountMove
  <2>5. ASSUME \/ \E o \in Orgs, n \in Intents : CreateIntent(o, n)
               \/ \E n \in Intents : IntentExpires(n)
               \/ \E s \in Slots, n \in Intents, i \in Installs \cup {None} :
                      Callback(s, n, i)
               \/ \E s \in Slots : \/ Consume(s) \/ Verify(s)
                                   \/ ConnectGithub(s) \/ PendingRead(s)
                                   \/ MarkPending(s) \/ Forget(s)
               \/ \E s \in Slots, k \in RowIds : DisconnectGithub(s, k)
        PROVE  AccountMove
    BY <2>5 DEF CreateIntent, IntentExpires, Callback, Consume, Verify,
       ConnectGithub, PendingRead, MarkPending, Forget, DisconnectGithub,
       githubVars, AccountMove
  <2> QED
    BY <1>2, <2>1, <2>2, <2>3, <2>4, <2>5 DEF GithubSteps
<1>3. CASE GitlabSteps
  BY <1>3 DEF GitlabSteps, DisconnectGitlab, Health, Revoke, Disconnected,
     StoreToken, WriteHealth, TokenAges, ConnectGitlab, InstallWebhook,
     RecordHook, HookDelivery, githubVars, AccountMove
<1>4. CASE RepositorySteps
  BY <1>4 DEF RepositorySteps, CreateRepo, InsertRepo, BranchDeleted,
     UpdateScanConfig, FindUnknownBranches, FindBranchPolicies,
     SaveScanConfig, githubVars, AccountMove
<1> QED
  BY <1>1, <1>2, <1>3, <1>4 DEF Next

LEMMA TypeAccount ==
  ASSUME TypeInv, [Next]_vars
  PROVE  /\ account' \in [Installs -> {"absent", "installed", "suspended",
                                       "removed"}]
         /\ events' \subseteq sent' /\ sent' \subseteq Event
<1>1. /\ account \in [Installs -> {"absent", "installed", "suspended",
                                   "removed"}]
      /\ events \subseteq sent /\ sent \subseteq Event
  BY DEF TypeInv, TypeOK
<1>2. \A i \in Installs, event \in {"deleted", "suspend", "unsuspend"} :
         <<i, event>> \in Event
  BY DEF Event
<1> QED
  BY <1>1, <1>2, AccountMoves DEF AccountMove

(* What becomes of the hooks at GitLab: one is created for the             *)
(* organization of a repository that is to record it, or one is deleted.   *)
HookCreated ==
    \E s \in Slots, h \in HookIds :
        /\ At(s, "hook") /\ ops[s].repo \in Repos /\ hooks[h] = None
        /\ hooks' = [hooks EXCEPT ![h] = rows[repos[ops[s].repo].row].org]
        /\ UNCHANGED <<rows, repos, credited>>
        /\ \/ /\ ops' = [ops EXCEPT ![s] = [at |-> "record",
                                            repo |-> ops[s].repo, hook |-> h]]
              /\ UNCHANGED excused
           \/ ops' = [ops EXCEPT ![s] = None] /\ excused' = excused \cup {h}

HookRevoked ==
    \E s \in Slots, h \in HookIds :
        /\ At(s, "revoke") /\ UNCHANGED <<rows, repos, credited>>
        /\ \/ hooks' = [hooks EXCEPT ![h] = Gone] /\ UNCHANGED excused
           \/ UNCHANGED hooks /\ excused' = excused \cup {h}

HookDelivered ==
    \E h \in HookIds, r \in Repos :
        /\ hooks[h] \notin {None, Gone} /\ repos[r].hook = h
        /\ credited' = credited \cup {<<hooks[h], rows[repos[r].row].org>>}
        /\ UNCHANGED <<rows, repos, hooks, excused, ops>>

HookMove ==
    \/ UNCHANGED <<hooks, credited>> /\ excused \subseteq excused'
       /\ excused' \subseteq HookIds
    \/ HookCreated \/ HookRevoked \/ HookDelivered

LEMMA HooksMove ==
  ASSUME TypeInv, [Next]_vars
  PROVE  HookMove
<1>0. /\ ops \in [Slots -> Op \cup {None}] /\ excused \subseteq HookIds
      /\ hooks \in [HookIds -> Orgs \cup {None, Gone}]
  BY DEF TypeInv, TypeOK
<1>1. CASE UNCHANGED vars \/ Crash
  BY <1>0, <1>1 DEF vars, Crash, gitlabVars, HookMove
<1>2. CASE GithubSteps
  BY <1>0, <1>2 DEF GithubSteps, CreateIntent, IntentExpires, Callback,
     Consume, Verify, ConnectGithub, PendingRead, MarkPending, Uninstall,
     Installed, Suspended, Unsuspended, Uninstalled, AccountChanges,
     InstallationEvent, EventLost, DisconnectGithub, Forget, gitlabVars,
     HookMove
<1>3. CASE GitlabSteps
  <2>1. ASSUME NEW s \in Slots, NEW h \in HookIds, Revoke(s, h)
        PROVE  HookMove
    BY <2>1 DEF Revoke, DeleteProjectHook, integrationVars, HookMove,
       HookRevoked
  <2>2. ASSUME NEW s \in Slots, InstallWebhook(s) PROVE HookMove
    <3>1. CASE UNCHANGED <<hooks, excused>>
      BY <1>0, <2>2, <3>1 DEF InstallWebhook, HookMove
    <3>2. CASE ~UNCHANGED <<hooks, excused>>
      <4>1. PICK h \in NextUnused(hooks) :
               /\ ops[s].repo \in Repos
               /\ hooks' = [hooks EXCEPT
                               ![h] = rows[repos[ops[s].repo].row].org]
               /\ \/ /\ ops' = [ops EXCEPT ![s] =
                                  [at |-> "record", repo |-> ops[s].repo,
                                   hook |-> h]]
                     /\ UNCHANGED excused
                  \/ /\ ops' = [ops EXCEPT ![s] = None]
                     /\ excused' = excused \cup {h}
        BY <2>2, <3>2 DEF InstallWebhook, Continue, End, CreateProjectHook
      <4>2. h \in HookIds /\ hooks[h] = None
        BY <1>0, <4>1 DEF NextUnused
      <4>3. At(s, "hook") /\ UNCHANGED <<rows, repos, credited>>
        BY <2>2 DEF InstallWebhook, integrationVars
      <4>4. HookCreated
        BY <4>1, <4>2, <4>3 DEF HookCreated
      <4> QED
        BY <4>4 DEF HookMove
    <3> QED
      BY <3>1, <3>2
  <2>3. ASSUME NEW s \in Slots, RecordHook(s) PROVE HookMove
    <3>1. ops[s].hook \in HookIds
      BY <1>0, <2>3, FieldsOfOp DEF RecordHook, At, OpFields
    <3> QED
      BY <1>0, <2>3, <3>1 DEF RecordHook, HookMove
  <2>4. ASSUME NEW h \in HookIds, HookDelivery(h) PROVE HookMove
    BY <2>4 DEF HookDelivery, Authentic, integrationVars, HookMove,
       HookDelivered
  <2>5. ASSUME \/ \E s \in Slots, k \in RowIds : \/ DisconnectGitlab(s, k)
                                                 \/ Health(s, k)
               \/ \E s \in Slots : Disconnected(s) \/ StoreToken(s)
                                   \/ WriteHealth(s)
               \/ \E t \in Tokens : TokenAges(t)
               \/ \E s \in Slots, o \in Orgs, t \in Tokens :
                      ConnectGitlab(s, o, t)
        PROVE  HookMove
    BY <1>0, <2>5 DEF DisconnectGitlab, Health, Disconnected, StoreToken,
       WriteHealth, TokenAges, ConnectGitlab, gitlabVars, HookMove
  <2> QED
    BY <1>3, <2>1, <2>2, <2>3, <2>4, <2>5 DEF GitlabSteps
<1>4. CASE RepositorySteps
  BY <1>0, <1>4 DEF RepositorySteps, CreateRepo, InsertRepo, BranchDeleted,
     UpdateScanConfig, FindUnknownBranches, FindBranchPolicies,
     SaveScanConfig, gitlabVars, HookMove
<1> QED
  BY <1>1, <1>2, <1>3, <1>4 DEF Next

LEMMA TypeHooks ==
  ASSUME TypeInv, [Next]_vars
  PROVE  /\ hooks' \in [HookIds -> Orgs \cup {None, Gone}]
         /\ excused' \subseteq HookIds /\ credited' \subseteq Orgs \X Orgs
<1>1. /\ hooks \in [HookIds -> Orgs \cup {None, Gone}] /\ TypeOK
      /\ excused \subseteq HookIds /\ credited \subseteq Orgs \X Orgs
  BY DEF TypeInv, TypeOK
<1>2. \A r \in Repos : rows[repos[r].row].org \in Orgs
  BY <1>1, RowFields DEF TypeInv, RowsLive
<1> QED
  BY <1>1, <1>2, HooksMove
     DEF HookMove, HookCreated, HookRevoked, HookDelivered

(* Branches only disappear at the provider, and never the default one.     *)
LEMMA TypeRest ==
  ASSUME TypeInv, [Next]_vars
  PROVE  /\ source' = source /\ onboarded' \subseteq Orgs
         /\ token' \in [Tokens -> {"fresh", "soon", "dead"}]
         /\ remote' \in [Branches -> {"never", "there", "removed"}]
         /\ \A b \in Branches :
               /\ remote[b] # "never" => remote'[b] # "never"
               /\ b = DefaultBranch => remote'[b] = remote[b]
         /\ requests' \in 0..MaxRequests /\ faults' \in 0..MaxFaults
<1>0. /\ ops \in [Slots -> Op \cup {None}] /\ onboarded \subseteq Orgs
      /\ token \in [Tokens -> {"fresh", "soon", "dead"}]
      /\ remote \in [Branches -> {"never", "there", "removed"}]
      /\ requests \in 0..MaxRequests /\ faults \in 0..MaxFaults
      /\ TypeOK
  BY DEF TypeInv, TypeOK
<1>1. source' = source
  <2>1. CASE UNCHANGED vars \/ Crash
    BY <2>1 DEF vars, orgVars, Crash
  <2>2. CASE GithubSteps
    BY <2>2 DEF orgVars, GithubSteps, CreateIntent, IntentExpires, Callback,
       Consume, Verify, ConnectGithub, PendingRead, MarkPending, Uninstall,
       Installed, Suspended, Unsuspended, Uninstalled, AccountChanges,
       InstallationEvent, EventLost, DisconnectGithub, Forget
  <2>3. CASE GitlabSteps
    BY <2>3 DEF orgVars, GitlabSteps, DisconnectGitlab, Health, Revoke,
       Disconnected, StoreToken, WriteHealth, TokenAges, ConnectGitlab,
       InstallWebhook, RecordHook, HookDelivery
  <2>4. CASE RepositorySteps
    BY <2>4 DEF orgVars, RepositorySteps, CreateRepo, InsertRepo,
       BranchDeleted, UpdateScanConfig, FindUnknownBranches,
       FindBranchPolicies, SaveScanConfig
  <2> QED
    BY <2>1, <2>2, <2>3, <2>4 DEF Next
<1>2. onboarded' \subseteq Orgs
  <2>1. ASSUME NEW s \in Slots, InsertRepo(s) PROVE onboarded' \subseteq Orgs
    <3>1. \/ onboarded' = onboarded
          \/ /\ ops[s].row \in Rows
             /\ onboarded' = onboarded \cup {rows[ops[s].row].org}
      BY <2>1 DEF InsertRepo
    <3> QED
      BY <1>0, <3>1, RowFields
  <2>2. ASSUME ~\E s \in Slots : InsertRepo(s) PROVE UNCHANGED onboarded
    BY <2>2 DEF Next, vars, orgVars, Crash, GithubSteps, CreateIntent,
       IntentExpires, Callback, Consume, Verify, ConnectGithub, PendingRead,
       MarkPending, Uninstall, Installed, Suspended, Unsuspended, Uninstalled,
       AccountChanges, InstallationEvent, EventLost, DisconnectGithub, Forget,
       GitlabSteps, DisconnectGitlab, Health, Revoke, Disconnected, StoreToken,
       WriteHealth, TokenAges, ConnectGitlab, InstallWebhook, RecordHook,
       HookDelivery, RepositorySteps, CreateRepo, BranchDeleted,
       UpdateScanConfig, FindUnknownBranches, FindBranchPolicies,
       SaveScanConfig
  <2> QED
    BY <1>0, <2>1, <2>2
<1>3. token' \in [Tokens -> {"fresh", "soon", "dead"}]
  <2>1. ASSUME NEW t \in Tokens, TokenAges(t)
        PROVE  token' \in [Tokens -> {"fresh", "soon", "dead"}]
    <3>1. PICK x \in {"soon", "dead"} :
             x = IF token[t] = "fresh" THEN "soon" ELSE "dead"
      OBVIOUS
    <3>2. token' = [token EXCEPT ![t] = x]
      BY <1>0, <2>1, <3>1 DEF TokenAges
    <3> QED
      BY <1>0, <3>2
  <2>2. ASSUME ~\E t \in Tokens : TokenAges(t) PROVE UNCHANGED token
    BY <2>2 DEF Next, vars, gitlabVars, Crash, GithubSteps, CreateIntent,
       IntentExpires, Callback, Consume, Verify, ConnectGithub, PendingRead,
       MarkPending, Uninstall, Installed, Suspended, Unsuspended, Uninstalled,
       AccountChanges, InstallationEvent, EventLost, DisconnectGithub, Forget,
       GitlabSteps, DisconnectGitlab, Health, Revoke, Disconnected, StoreToken,
       WriteHealth, ConnectGitlab, InstallWebhook, RecordHook, HookDelivery,
       RepositorySteps, CreateRepo, InsertRepo, BranchDeleted,
       UpdateScanConfig, FindUnknownBranches, FindBranchPolicies,
       SaveScanConfig
  <2> QED
    BY <1>0, <2>1, <2>2
<1>4. \/ UNCHANGED remote
      \/ \E b \in Branches \ {DefaultBranch} :
            remote' = [remote EXCEPT ![b] = "removed"]
  <2>1. ASSUME NEW b \in Branches, BranchDeleted(b)
        PROVE  \E c \in Branches \ {DefaultBranch} :
                  remote' = [remote EXCEPT ![c] = "removed"]
    BY <2>1 DEF BranchDeleted
  <2>2. ASSUME ~\E b \in Branches : BranchDeleted(b) PROVE UNCHANGED remote
    BY <2>2 DEF Next, vars, Crash, GithubSteps, CreateIntent, IntentExpires,
       Callback, Consume, Verify, ConnectGithub, PendingRead, MarkPending,
       Uninstall, Installed, Suspended, Unsuspended, Uninstalled,
       AccountChanges, InstallationEvent, EventLost, DisconnectGithub, Forget,
       GitlabSteps, DisconnectGitlab, Health, Revoke, Disconnected, StoreToken,
       WriteHealth, TokenAges, ConnectGitlab, InstallWebhook, RecordHook,
       HookDelivery, RepositorySteps, CreateRepo, InsertRepo,
       UpdateScanConfig, FindUnknownBranches, FindBranchPolicies,
       SaveScanConfig
  <2> QED
    BY <2>1, <2>2
<1>5. requests' \in 0..MaxRequests /\ faults' \in 0..MaxFaults
  <2>1. \/ UNCHANGED requests
        \/ requests < MaxRequests /\ requests' = requests + 1
    BY DEF Next, vars, Crash, Fault, GithubSteps, CreateIntent, IntentExpires,
       Callback, Begin, Consume, Verify, ConnectGithub, PendingRead,
       MarkPending, Uninstall, Continue, End, Installed, Suspended,
       Unsuspended, Uninstalled, AccountChanges, InstallationEvent, EventLost,
       DisconnectGithub, Forget, GitlabSteps, DisconnectGitlab, Health, Revoke,
       Disconnected, StoreToken, WriteHealth, TokenAges, ConnectGitlab,
       InstallWebhook, RecordHook, HookDelivery, RepositorySteps, CreateRepo,
       InsertRepo, BranchDeleted, UpdateScanConfig, FindUnknownBranches,
       FindBranchPolicies, SaveScanConfig
  <2>2. \/ UNCHANGED faults
        \/ faults < MaxFaults /\ faults' = faults + 1
    BY DEF Next, vars, Crash, Fault, GithubSteps, CreateIntent, IntentExpires,
       Callback, Begin, Consume, Verify, ConnectGithub, PendingRead,
       MarkPending, Uninstall, Continue, End, Installed, Suspended,
       Unsuspended, Uninstalled, AccountChanges, InstallationEvent, EventLost,
       DisconnectGithub, Forget, GitlabSteps, DisconnectGitlab, Health, Revoke,
       Disconnected, StoreToken, WriteHealth, TokenAges, ConnectGitlab,
       InstallWebhook, RecordHook, HookDelivery, RepositorySteps, CreateRepo,
       InsertRepo, BranchDeleted, UpdateScanConfig, FindUnknownBranches,
       FindBranchPolicies, SaveScanConfig
  <2>3. MaxRequests \in Nat /\ MaxFaults \in Nat
    OBVIOUS
  <2> QED
    BY <1>0, <2>1, <2>2, <2>3
<1> QED
  BY <1>0, <1>1, <1>2, <1>3, <1>4, <1>5

LEMMA StepSource ==
  ASSUME TypeInv, [Next]_vars
  PROVE  SourceInv'
<1>0. /\ SourceInv /\ TypeOK /\ source' = source
      /\ ops \in [Slots -> Op \cup {None}]
      /\ rows \in [RowIds -> Integration \cup {None, Gone}]
  BY TypeRest DEF TypeInv, TypeOK
<1>1. source = "GITLAB" => \A n \in Intents : intents'[n] = None
  BY <1>0, TypeIntents DEF SourceInv
<1>2. ASSUME source = "GITLAB", NEW k \in RowIds, rows'[k] \notin {None, Gone}
      PROVE  rows'[k].token \in Tokens
  BY <1>0, <1>2, RowsMove
     DEF SourceInv, RowMove, RowWritten, RowDeleted, Rows
<1>3. ASSUME NEW s \in Slots, ops'[s] # None
      PROVE  /\ source = "GITLAB" => /\ ops'[s].at \notin GithubOnly
                                     /\ ops'[s].at = "insert" =>
                                            ops'[s].token \in Tokens
             /\ source = "GITHUB" => ops'[s].at \notin GitlabOnly
  <2>1. CASE ops'[s] = ops[s]
    BY <1>0, <1>3, <2>1 DEF SourceInv, At
  <2>2. CASE Steps(s)
    BY <1>3, <2>2, NewOp DEF Learnt
  <2> QED
    BY <1>3, <2>1, <2>2, OwnSteps
<1> QED
  BY <1>0, <1>1, <1>2, <1>3 DEF SourceInv, Rows, At

LEMMA InitType == Init => TypeInv
<1> SUFFICES ASSUME Init PROVE TypeInv
  OBVIOUS
<1>1. \A s \in Slots : ops[s] = None
  BY DEF Init
<1>2. Rows = {} /\ Repos = {}
  BY DEF Init, Rows, Repos
<1>3. TypeOK
  <2>1. MaxRequests \in Nat /\ MaxFaults \in Nat
    OBVIOUS
  <2> QED
    BY <2>1 DEF Init, TypeOK
<1> QED
  BY <1>1, <1>2, <1>3 DEF Init, TypeInv, SourceInv, RowsLive, At

LEMMA StepType == TypeInv /\ [Next]_vars => TypeInv'
<1> SUFFICES ASSUME TypeInv, [Next]_vars PROVE TypeInv'
  OBVIOUS
<1>1. TypeOK'
  BY TypeOps, TypeRows, TypeIntents, TypeAccount, TypeHooks, TypeRest
     DEF TypeInv, TypeOK
<1> QED
  BY <1>1, TypeRows, StepSource DEF TypeInv

(* The rows hold what their columns allow, whatever interleaves.           *)
THEOREM TypeCorrect == Spec => []TypeOK
<1>1. Spec => []TypeInv
  BY InitType, StepType, PTL DEF Spec
<1>2. TypeInv => TypeOK
  BY DEF TypeInv
<1> QED
  BY <1>1, <1>2, PTL

-----------------------------------------------------------------------------
(* The alarm.                                                              *)
LEMMA StepAlarm ==
  ASSUME TypeInv, AlarmIsAboutThisInstallation, [Next]_vars
  PROVE  AlarmIsAboutThisInstallation'
<1>1. ASSUME NEW k \in RowIds, rows'[k] \notin {None, Gone}
      PROVE  /\ rows'[k].state = "UNINSTALLED" =>
                    <<rows'[k].inst, "deleted">> \in sent'
             /\ rows'[k].state = "SUSPENDED" =>
                    <<rows'[k].inst, "suspend">> \in sent'
  <2>1. sent \subseteq sent' /\ events \subseteq sent /\ sent \subseteq Event
    BY AccountMoves DEF AccountMove, TypeInv, TypeOK
  <2>2. CASE rows'[k] = rows[k]
    BY <1>1, <2>1, <2>2 DEF AlarmIsAboutThisInstallation, Rows
  <2>3. ASSUME NEW e \in events, rows'[k].inst = e[1],
               rows'[k].state = To[e[2]]
        PROVE  /\ rows'[k].state = "UNINSTALLED" =>
                      <<rows'[k].inst, "deleted">> \in sent'
               /\ rows'[k].state = "SUSPENDED" =>
                      <<rows'[k].inst, "suspend">> \in sent'
    <3>1. /\ e = <<e[1], e[2]>> /\ e \in sent'
          /\ e[2] \in {"deleted", "suspend", "unsuspend"}
      BY <2>1 DEF Event
    <3> QED
      BY <2>3, <3>1 DEF To
  <2> QED
    BY <1>1, <2>2, <2>3, RowsMove DEF RowMove, RowWritten, RowDeleted
<1> QED
  BY <1>1 DEF AlarmIsAboutThisInstallation, Rows

(* InstallationEvent: a row says UNINSTALLED or SUSPENDED only of an       *)
(* installation GitHub said so of, whatever is late, lost or replaced.     *)
THEOREM AlarmsAreOwn == Spec => []AlarmIsAboutThisInstallation
<1>1. Init => TypeInv /\ AlarmIsAboutThisInstallation
  BY InitType DEF Init, AlarmIsAboutThisInstallation, Rows
<1>2. TypeInv /\ AlarmIsAboutThisInstallation /\ [Next]_vars
      => (TypeInv /\ AlarmIsAboutThisInstallation)'
  BY StepType, StepAlarm
<1> QED
  BY <1>1, <1>2, PTL DEF Spec

-----------------------------------------------------------------------------
(* Forgetting an installation.                                             *)
LEMMA StepForget ==
  ASSUME TypeInv, ForgetInv, [Next]_vars
  PROVE  ForgetInv'
<1>0. /\ ops \in [Slots -> Op \cup {None}]
      /\ account \in [Installs -> {"absent", "installed", "suspended",
                                   "removed"}]
  BY DEF TypeInv, TypeOK
<1>1. \A i \in Installs : account[i] = "removed" => account'[i] = "removed"
  BY <1>0, AccountMoves DEF AccountMove
<1>2. ASSUME NEW s \in Slots, ops'[s] # None, ops'[s].at = "forget"
      PROVE  account'[ops'[s].inst] = "removed"
  <2>1. CASE ops'[s] = ops[s]
    <3>1. ops[s].inst \in Installs
      BY <1>0, <1>2, <2>1, FieldsOfOp DEF OpFields
    <3> QED
      BY <1>1, <1>2, <2>1, <3>1 DEF ForgetInv, At
  <2>2. CASE Steps(s)
    BY <1>2, <2>2, NewOp DEF Learnt
  <2> QED
    BY <1>2, <2>1, <2>2, OwnSteps
<1> QED
  BY <1>2 DEF ForgetInv, At

LEMMA StepForgotten ==
  ASSUME TypeInv, ForgetInv, [Next]_vars, NEW k \in Rows,
         source = "GITHUB", rows'[k] = Gone
  PROVE  \E s \in Slots : /\ At(s, "forget") /\ ops[s].row = k
                          /\ account[ops[s].inst] = "removed"
<1>1. k \in RowIds /\ rows[k] # Gone
  BY DEF Rows
<1>2. RowDeleted(k)
  BY <1>1, RowsMove DEF RowMove, RowWritten
<1>3. PICK s \in Slots : /\ At(s, "forget") \/ At(s, "revoke")
                         /\ ops[s].row = k
  BY <1>2 DEF RowDeleted
<1>4. ~At(s, "revoke")
  BY DEF At, TypeInv, SourceInv, GitlabOnly
<1> QED
  BY <1>3, <1>4 DEF ForgetInv

(* disconnectGithub: a row goes only after the installation it was read    *)
(* with is gone at GitHub.                                                 *)
THEOREM NeverForgotten == Spec => ForgottenWhenGone
<1>1. Init => TypeInv /\ ForgetInv
  BY InitType DEF Init, ForgetInv, At
<1>2. TypeInv /\ ForgetInv /\ [Next]_vars => (TypeInv /\ ForgetInv)'
  BY StepType, StepForget
<1>3. TypeInv /\ ForgetInv /\ [Next]_vars
      => [\A k \in Rows : source = "GITHUB" /\ rows'[k] = Gone =>
             \E s \in Slots : /\ At(s, "forget") /\ ops[s].row = k
                              /\ account[ops[s].inst] = "removed"]_vars
  BY StepForgotten
<1> QED
  BY <1>1, <1>2, <1>3, PTL DEF Spec, ForgottenWhenGone

-----------------------------------------------------------------------------
(* The scan scope.                                                         *)
LEMMA StepScope ==
  ASSUME TypeInv, ScopeInv, [Next]_vars
  PROVE  ScopeInv'
<1>0. /\ ops \in [Slots -> Op \cup {None}] /\ TypeOK
      /\ DefaultBranch \in Branches
  BY DEF TypeInv, TypeOK
<1>1. /\ remote'[DefaultBranch] = "there"
      /\ \A b \in Branches : remote[b] # "never" => remote'[b] # "never"
  BY <1>0, TypeRest DEF ScopeInv
<1>2. ASSUME NEW s \in Slots, Scoping(s)
      PROVE  /\ ops[s].branches \in SUBSET Branches
             /\ At(s, "unknown") => ops[s].seen \in SUBSET Branches
  BY <1>0, <1>2, FieldsOfOp DEF Scoping, At, OpFields
<1>3. ASSUME NEW s \in Slots, Scoping(s)'
      PROVE  /\ DefaultBranch \in ops'[s].branches
             /\ ops'[s].at # "unknown" =>
                    \A b \in ops'[s].branches : remote'[b] # "never"
             /\ ops'[s].at = "unknown" =>
                    \A b \in ops'[s].seen : remote'[b] # "never"
             /\ ops'[s].at = "save" =>
                    DOMAIN ops'[s].changed \subseteq ops'[s].branches
  <2>1. ops'[s] # None
        /\ ops'[s].at \in {"insert", "unknown", "policies", "save"}
    BY <1>3 DEF Scoping
  <2>2. CASE ops'[s] = ops[s]
    BY <1>1, <1>2, <2>1, <2>2 DEF ScopeInv, Scoping, At
  <2>3. CASE Steps(s)
    <3>1. Learnt(s) /\ ops'[s] \in Op
      BY <2>1, <2>3, NewOp
    <3>2. ops'[s].branches \in SUBSET Branches
      BY <2>1, <3>1, FieldsOfOp DEF OpFields
    <3>3. CASE ops'[s].at = "insert"
      BY <1>1, <3>1, <3>2, <3>3 DEF Learnt, ScopeInv
    <3>4. CASE ops'[s].at = "unknown"
      <4>1. PICK r \in Repos : /\ r = ops'[s].repo
                               /\ ops'[s].seen = repos[r].branches
        BY <3>1, <3>4 DEF Learnt
      <4>2. \A b \in repos[r].branches : remote[b] # "never"
        BY DEF ScopeInv, ScopeIsSound
      <4> QED
        BY <1>0, <1>1, <3>1, <3>4, <4>1, <4>2, RepoFields DEF Learnt
    <3>5. CASE ops'[s].at = "policies"
      <4>1. /\ At(s, "unknown") /\ ops'[s].branches = ops[s].branches
            /\ \A b \in ops'[s].branches :
                  b \in ops[s].seen \/ remote[b] = "there"
        BY <3>1, <3>5 DEF Learnt
      <4>2. Scoping(s)
        BY <4>1 DEF Scoping, At
      <4> QED
        BY <1>1, <3>2, <3>5, <4>1, <4>2 DEF ScopeInv
    <3>6. CASE ops'[s].at = "save"
      <4>1. /\ At(s, "policies") /\ ops'[s].branches = ops[s].branches
            /\ DOMAIN ops'[s].changed \subseteq ops'[s].branches
        BY <3>1, <3>6 DEF Learnt
      <4>2. Scoping(s) /\ ~At(s, "unknown")
        BY <4>1 DEF Scoping, At
      <4> QED
        BY <1>1, <3>2, <3>6, <4>1, <4>2 DEF ScopeInv
    <3> QED
      BY <2>1, <3>3, <3>4, <3>5, <3>6
  <2> QED
    BY <2>1, <2>2, <2>3, OwnSteps
<1>4. ASSUME NEW r \in RepoIds, repos'[r] \notin {None, Gone}
      PROVE  /\ DefaultBranch \in repos'[r].branches
             /\ \A b \in repos'[r].branches : remote'[b] # "never"
             /\ DOMAIN repos'[r].policy \subseteq repos'[r].branches
  <2>1. ASSUME NEW s \in Slots, At(s, "insert") \/ At(s, "save")
        PROVE  /\ DefaultBranch \in ops[s].branches
               /\ \A b \in ops[s].branches : remote'[b] # "never"
               /\ At(s, "save") =>
                     DOMAIN ops[s].changed \subseteq ops[s].branches
    <3>1. Scoping(s) /\ ~At(s, "unknown")
      BY <2>1 DEF Scoping, At
    <3> QED
      BY <1>1, <1>2, <3>1 DEF ScopeInv
  <2>2. CASE RepoInserted(r)
    BY <2>1, <2>2 DEF RepoInserted
  <2>3. ASSUME r \in Repos, repos'[r].branches = repos[r].branches,
               repos'[r].policy = repos[r].policy
        PROVE  /\ DefaultBranch \in repos'[r].branches
               /\ \A b \in repos'[r].branches : remote'[b] # "never"
               /\ DOMAIN repos'[r].policy \subseteq repos'[r].branches
    BY <1>0, <1>1, <2>3, RepoFields DEF ScopeInv, ScopeIsSound
  <2>4. CASE RepoScoped(r)
    BY <2>1, <2>4 DEF RepoScoped
  <2> QED
    BY <1>4, <2>2, <2>3, <2>4, ReposMove DEF RepoMove, RepoHooked, Repos
<1> QED
  BY <1>1, <1>3, <1>4 DEF ScopeInv, ScopeIsSound, Scoping, At, Repos

(* updateScanConfig: through overlapping saves the default branch stays in *)
(* scope, branches enter it only from the provider, and no policy is left  *)
(* on one outside of it.                                                   *)
THEOREM ScopesAreSound == Spec => []ScopeIsSound
<1>1. Init => TypeInv /\ ScopeInv
  BY InitType DEF Init, ScopeInv, ScopeIsSound, Scoping, At, Repos
<1>2. TypeInv /\ ScopeInv /\ [Next]_vars => (TypeInv /\ ScopeInv)'
  BY StepType, StepScope
<1>3. ScopeInv => ScopeIsSound
  BY DEF ScopeInv
<1> QED
  BY <1>1, <1>2, <1>3, PTL DEF Spec

-----------------------------------------------------------------------------
(* The hooks.                                                              *)
HooksInv == OwnerInv /\ HookingInv /\ RevokeInv /\ OrphanHooksExplained

(* The step a request is at, for it to take another.                       *)
LEMMA StepsFrom ==
  ASSUME NEW s \in Slots, Steps(s)
  PROVE  /\ ~At(s, "record")
         /\ ops[s] # None => ops[s].at \in {"consume", "verify", "pending",
               "uninstall", "revoke", "insert", "hook", "unknown", "policies"}
  BY DEF Steps, Callback, DisconnectGithub, DisconnectGitlab, Health,
     ConnectGitlab, CreateRepo, UpdateScanConfig, Begin, Consume, Verify,
     PendingRead, Uninstall, Revoke, InsertRepo, InstallWebhook,
     FindUnknownBranches, FindBranchPolicies, At

(* A repository keeps its row and its organization, a hook the             *)
(* organization it serves, and what is excused stays excused.              *)
LEMMA Kept ==
  ASSUME TypeInv, [Next]_vars
  PROVE  /\ \A r \in RepoIds : repos'[r] \notin {None, Gone} =>
               \/ RepoInserted(r)
               \/ /\ r \in Repos /\ repos'[r].row = repos[r].row
                  /\ rows'[repos[r].row].org = rows[repos[r].row].org
         /\ \A r \in RepoIds : /\ repos[r] # None => repos'[r] # None
                               /\ repos[r] = Gone => repos'[r] = Gone
         /\ \A h \in HookIds :
               hooks[h] # None => hooks'[h] \in {hooks[h], Gone}
         /\ excused \subseteq excused'
<1>0. /\ repos \in [RepoIds -> Repository \cup {None, Gone}]
      /\ hooks \in [HookIds -> Orgs \cup {None, Gone}] /\ RowsLive
  BY DEF TypeInv, TypeOK
<1>1. ASSUME NEW r \in RepoIds, repos'[r] \notin {None, Gone},
             ~RepoInserted(r)
      PROVE  /\ r \in Repos /\ repos'[r].row = repos[r].row
             /\ rows'[repos[r].row].org = rows[repos[r].row].org
  <2>1. r \in Repos /\ repos'[r].row = repos[r].row
    BY <1>1, ReposMove DEF RepoMove, Repos
  <2>2. PICK k \in Rows : k = repos[r].row
    BY <1>0, <2>1 DEF RowsLive
  <2>3. k \in RowIds /\ rows[k] \notin {None, Gone} /\ r \in ReposOf(k)
    BY <2>1, <2>2 DEF Rows, ReposOf
  <2>4. ~RowDeleted(k)
    BY <1>1, <2>3 DEF RowDeleted
  <2> QED
    BY <2>1, <2>2, <2>3, <2>4, RowsMove DEF RowMove, RowWritten
<1>2. ASSUME NEW r \in RepoIds
      PROVE  /\ repos[r] # None => repos'[r] # None
             /\ repos[r] = Gone => repos'[r] = Gone
  BY ReposMove DEF RepoMove, RepoInserted, Repos
<1>3. \A h \in HookIds : hooks[h] # None => hooks'[h] \in {hooks[h], Gone}
  BY <1>0, HooksMove
     DEF HookMove, HookCreated, HookRevoked, HookDelivered
<1>4. excused \subseteq excused'
  BY HooksMove DEF HookMove, HookCreated, HookRevoked, HookDelivered
<1> QED
  BY <1>1, <1>2, <1>3, <1>4

LEMMA StepHooking ==
  ASSUME TypeInv, HooksInv, [Next]_vars
  PROVE  HookingInv'
<1>0. /\ ops \in [Slots -> Op \cup {None}] /\ SourceInv /\ HookingInv
      /\ source' = source
  BY TypeRest DEF TypeInv, TypeOK, HooksInv
<1>1. ASSUME source = "GITHUB", NEW r \in RepoIds,
             repos'[r] \notin {None, Gone}
      PROVE  repos'[r].hook = None
  <2>1. ~RepoHooked(r)
    BY <1>0, <1>1 DEF RepoHooked, At, SourceInv, GitlabOnly
  <2> QED
    BY <1>0, <1>1, <2>1, ReposMove
       DEF RepoMove, RepoInserted, RepoScoped, HookingInv, Repos
<1>2. ASSUME NEW s \in Slots, Hooking(s) PROVE ops[s].repo \in RepoIds
  BY <1>0, <1>2, FieldsOfOp DEF Hooking, At, OpFields
<1>3. ASSUME NEW s \in Slots, Hooking(s)'
      PROVE  /\ repos'[ops'[s].repo] # None
             /\ repos'[ops'[s].repo] # Gone => repos'[ops'[s].repo].hook = None
             /\ \/ Hooking(s) /\ ops'[s].repo = ops[s].repo
                \/ Steps(s) /\ repos[ops'[s].repo] = None
  <2>1. ops'[s] # None /\ ops'[s].at \in {"hook", "record"}
    BY <1>3 DEF Hooking, At
  <2>2. CASE ops'[s] = ops[s]
    <3>1. Hooking(s)
      BY <2>1, <2>2 DEF Hooking, At
    <3>2. PICK r \in RepoIds : r = ops[s].repo
      BY <1>2, <3>1
    <3>3. repos[r] # None /\ (r \in Repos => repos[r].hook = None)
      BY <1>0, <3>1, <3>2 DEF HookingInv
    <3>4. repos'[r] # None
      BY <3>3, Kept
    <3>5. ASSUME RepoHooked(r) PROVE FALSE
      <4>1. PICK t \in Slots : At(t, "record") /\ ops[t].repo = r
                               /\ ops'[t] = None
        BY <3>5 DEF RepoHooked
      <4>2. t = s
        BY <1>0, <3>1, <3>2, <4>1 DEF HookingInv, Hooking
      <4> QED
        BY <2>1, <4>1, <4>2
    <3>6. repos'[r] # Gone => repos'[r].hook = None
      BY <3>3, <3>4, <3>5, ReposMove
         DEF RepoMove, RepoInserted, RepoScoped, Repos
    <3> QED
      BY <2>2, <3>1, <3>2, <3>4, <3>6
  <2>3. CASE Steps(s)
    <3>1. Learnt(s)
      BY <2>1, <2>3, NewOp
    <3>2. CASE ops'[s].at = "hook"
      <4>1. /\ repos[ops'[s].repo] = None
            /\ repos'[ops'[s].repo] \in Repository
            /\ repos'[ops'[s].repo].hook = None
        BY <3>1, <3>2 DEF Learnt
      <4> QED
        BY <2>3, <4>1
    <3>3. CASE ops'[s].at = "record"
      <4>1. /\ At(s, "hook") /\ ops'[s].repo = ops[s].repo
            /\ ops'[s].repo \in Repos /\ repos' = repos
        BY <3>1, <3>3 DEF Learnt
      <4> QED
        BY <1>0, <4>1 DEF HookingInv, Hooking, Repos
    <3> QED
      BY <2>1, <3>2, <3>3
  <2> QED
    BY <2>1, <2>2, <2>3, OwnSteps
<1>4. ASSUME NEW s \in Slots, NEW t \in Slots, Hooking(s)', Hooking(t)',
             ops'[s].repo = ops'[t].repo, s # t
      PROVE  FALSE
  <2>1. CASE Hooking(s) /\ Hooking(t) /\ ops'[s].repo = ops[s].repo
             /\ ops'[t].repo = ops[t].repo
    BY <1>0, <1>4, <2>1 DEF HookingInv
  <2>2. ASSUME NEW u \in Slots, NEW v \in Slots, u # v, Steps(u),
               Hooking(v)'
        PROVE  Hooking(v) /\ ops'[v].repo = ops[v].repo
    <3>1. ops'[v] = ops[v]
      BY <2>2, StepsAlone
    <3> QED
      BY <2>2, <3>1 DEF Hooking, At
  <2>3. CASE Steps(s) /\ repos[ops'[s].repo] = None
    BY <1>0, <1>4, <2>2, <2>3 DEF HookingInv
  <2>4. CASE Steps(t) /\ repos[ops'[t].repo] = None
    BY <1>0, <1>4, <2>2, <2>4 DEF HookingInv
  <2> QED
    BY <1>3, <1>4, <2>1, <2>3, <2>4
<1>5. source' = "GITHUB" => \A r \in Repos' : repos'[r].hook = None
  BY <1>0, <1>1 DEF Repos
<1> QED
  BY <1>3, <1>4, <1>5 DEF HookingInv, Repos

LEMMA StepOwner ==
  ASSUME TypeInv, HooksInv, [Next]_vars
  PROVE  OwnerInv'
<1>0. /\ ops \in [Slots -> Op \cup {None}] /\ TypeOK /\ OwnerInv
      /\ hooks \in [HookIds -> Orgs \cup {None, Gone}] /\ HookingInv
  BY DEF TypeInv, TypeOK, HooksInv
<1>1. ASSUME NEW r \in Repos, NEW h \in HookIds, OwnedBy(h, r),
             repos'[r] \notin {None, Gone}
      PROVE  OwnedBy(h, r)'
  <2>1. rows[repos[r].row].org \in Orgs
    BY <1>0, RowFields DEF TypeInv, RowsLive
  <2>2. hooks'[h] \in {hooks[h], Gone}
    BY <1>1, <2>1, Kept DEF OwnedBy
  <2>3. r \in RepoIds /\ ~RepoInserted(r)
    BY DEF Repos, RepoInserted
  <2>4. rows'[repos'[r].row].org = rows[repos[r].row].org
    BY <1>1, <2>3, Kept
  <2> QED
    BY <1>1, <2>2, <2>4 DEF OwnedBy
<1>2. ASSUME NEW s \in Slots, At(s, "record")
      PROVE  ops[s].repo \in RepoIds /\ ops[s].hook \in HookIds
  BY <1>0, <1>2, FieldsOfOp DEF At, OpFields
<1>3. ASSUME NEW r \in RepoIds, repos'[r] \notin {None, Gone},
             repos'[r].hook # None
      PROVE  hooks'[repos'[r].hook] \in {Gone, rows'[repos'[r].row].org}
  <2>1. r \in Repos
    BY <1>3, ReposMove DEF RepoMove, RepoInserted, Repos
  <2>2. CASE repos'[r].hook = repos[r].hook
    <3>1. PICK h \in HookIds : h = repos[r].hook
      BY <1>0, <1>3, <2>1, <2>2, RepoFields
    <3>2. OwnedBy(h, r)
      BY <1>0, <1>3, <2>1, <2>2, <3>1 DEF OwnerInv
    <3>3. OwnedBy(h, r)'
      BY <1>1, <1>3, <2>1, <3>2
    <3> QED
      BY <2>2, <3>1, <3>3 DEF OwnedBy
  <2>3. CASE RepoHooked(r)
    <3>1. PICK s \in Slots : /\ At(s, "record") /\ ops[s].repo = r
                             /\ repos'[r].hook = ops[s].hook
      BY <2>3 DEF RepoHooked
    <3>2. PICK h \in HookIds : h = ops[s].hook
      BY <1>2, <3>1
    <3>3. OwnedBy(h, r)'
      BY <1>0, <1>1, <1>3, <2>1, <3>1, <3>2 DEF OwnerInv
    <3> QED
      BY <3>1, <3>2, <3>3 DEF OwnedBy
  <2> QED
    BY <1>3, <2>1, <2>2, <2>3, ReposMove
       DEF RepoMove, RepoInserted, RepoScoped
<1>4. ASSUME NEW s \in Slots, At(s, "record")',
             repos'[ops'[s].repo] \notin {None, Gone},
             ops'[s].repo \in RepoIds
      PROVE  hooks'[ops'[s].hook]
                 \in {Gone, rows'[repos'[ops'[s].repo].row].org}
  <2>1. ops'[s] # None /\ ops'[s].at = "record"
    BY <1>4 DEF At
  <2>2. CASE ops'[s] = ops[s]
    <3>1. At(s, "record") /\ Hooking(s)
      BY <2>1, <2>2 DEF At, Hooking
    <3>2. PICK r \in RepoIds, h \in HookIds :
             r = ops[s].repo /\ h = ops[s].hook
      BY <1>2, <3>1
    <3>3. r \in Repos
      BY <1>0, <1>4, <2>2, <3>1, <3>2, Kept DEF HookingInv, Repos
    <3>4. OwnedBy(h, r)'
      BY <1>0, <1>1, <1>4, <2>2, <3>1, <3>2, <3>3 DEF OwnerInv
    <3> QED
      BY <2>2, <3>2, <3>4 DEF OwnedBy
  <2>3. CASE Steps(s)
    <3>1. Learnt(s) /\ ops'[s] \in Op
      BY <2>1, <2>3, NewOp
    <3>2. ops'[s].hook \in HookIds
      BY <2>1, <3>1, FieldsOfOp DEF OpFields
    <3>3. /\ UNCHANGED <<rows, repos>>
          /\ hooks' = [hooks EXCEPT
                ![ops'[s].hook] = rows[repos[ops'[s].repo].row].org]
      BY <2>1, <3>1 DEF Learnt
    <3>4. hooks'[ops'[s].hook] = rows[repos[ops'[s].repo].row].org
      BY <1>0, <3>2, <3>3
    <3> QED
      BY <3>3, <3>4 DEF OwnedBy
  <2> QED
    BY <2>1, <2>2, <2>3, OwnSteps
<1>5. DeliveredToItsOwner'
  <2>1. CASE HookDelivered
    <3>1. PICK h \in HookIds, r \in Repos :
             /\ hooks[h] \notin {None, Gone} /\ repos[r].hook = h
             /\ credited' = credited
                    \cup {<<hooks[h], rows[repos[r].row].org>>}
      BY <2>1 DEF HookDelivered
    <3>2. hooks[h] = rows[repos[r].row].org
      BY <1>0, <3>1 DEF OwnerInv, OwnedBy
    <3> QED
      BY <1>0, <3>1, <3>2 DEF OwnerInv, DeliveredToItsOwner
  <2>2. CASE UNCHANGED credited
    BY <1>0, <2>2 DEF OwnerInv, DeliveredToItsOwner
  <2> QED
    BY <2>1, <2>2, HooksMove DEF HookMove, HookCreated, HookRevoked
<1>6. \A s \in Slots : At(s, "record")' /\ ops'[s].repo \in Repos' =>
         hooks'[ops'[s].hook] \in {Gone, rows'[repos'[ops'[s].repo].row].org}
  BY <1>4 DEF Repos
<1> QED
  BY <1>3, <1>5, <1>6 DEF OwnerInv, OwnedBy, Repos

LEMMA StepRevoke ==
  ASSUME TypeInv, HooksInv, [Next]_vars
  PROVE  RevokeInv'
<1>0. /\ ops \in [Slots -> Op \cup {None}] /\ TypeOK /\ RevokeInv
      /\ hooks \in [HookIds -> Orgs \cup {None, Gone}]
  BY DEF TypeInv, TypeOK, HooksInv
<1> SUFFICES ASSUME NEW s \in Slots, At(s, "revoke")', NEW r \in RepoIds,
                    repos'[r] \notin {None, Gone},
                    repos'[r].row = ops'[s].row, repos'[r].hook # None
             PROVE  \/ repos'[r].hook \in ops'[s].todo \cup excused'
                    \/ hooks'[repos'[r].hook] = Gone
  BY DEF RevokeInv, ReposOf, Repos
<1>1. ops'[s] # None /\ ops'[s].at = "revoke"
  BY DEF At
<1>2. r \in Repos /\ repos'[r].row = repos[r].row
  BY ReposMove DEF RepoMove, RepoInserted, Repos
<1>3. ASSUME NEW h \in HookIds, At(s, "revoke"), ops'[s].row = ops[s].row,
             repos[r].hook = h
      PROVE  h \in ops[s].todo \cup excused \/ hooks[h] = Gone
  BY <1>0, <1>2, <1>3 DEF RevokeInv, ReposOf
<1>4. \A h \in HookIds : hooks[h] = Gone => hooks'[h] = Gone
  BY <1>0, Kept
<1>5. excused \subseteq excused'
  BY Kept
<1>6. CASE ops'[s] = ops[s]
  <2>1. At(s, "revoke")
    BY <1>1, <1>6 DEF At
  <2>2. CASE repos'[r].hook = repos[r].hook
    <3>1. PICK h \in HookIds : h = repos[r].hook
      BY <1>0, <1>2, <2>2, RepoFields
    <3> QED
      BY <1>3, <1>4, <1>5, <1>6, <2>1, <2>2, <3>1
  <2>3. CASE RepoHooked(r)
    <3>1. Disconnecting(repos[r].row)
      BY <1>2, <1>6, <2>1 DEF Disconnecting
    <3> QED
      BY <2>3, <3>1 DEF RepoHooked
  <2> QED
    BY <1>2, <2>2, <2>3, ReposMove
       DEF RepoMove, RepoInserted, RepoScoped, Repos
<1>7. CASE Steps(s)
  <2>1. Learnt(s)
    BY <1>1, <1>7, NewOp
  <2>2. CASE /\ ops'[s].todo = RecordedHooks(ops'[s].row)
             /\ UNCHANGED <<rows, repos, hooks, excused>>
    BY <1>2, <2>2 DEF RecordedHooks, ReposOf
  <2>3. ASSUME NEW g \in HookIds, At(s, "revoke"), ops'[s].row = ops[s].row,
               ops'[s].todo = ops[s].todo \ {g}, UNCHANGED repos,
               \/ hooks' = [hooks EXCEPT ![g] = Gone] /\ UNCHANGED excused
               \/ excused' = excused \cup {g} /\ UNCHANGED hooks
        PROVE  \/ repos'[r].hook \in ops'[s].todo \cup excused'
               \/ hooks'[repos'[r].hook] = Gone
    <3>1. PICK h \in HookIds : h = repos[r].hook
      BY <1>0, <1>2, <2>3, RepoFields
    <3>2. h \in ops[s].todo \cup excused \/ hooks[h] = Gone
      BY <1>3, <2>3, <3>1
    <3> QED
      BY <1>0, <1>4, <1>5, <2>3, <3>1, <3>2
  <2> QED
    BY <1>1, <2>1, <2>2, <2>3 DEF Learnt
<1> QED
  BY <1>1, <1>6, <1>7, OwnSteps

LEMMA StepOrphan ==
  ASSUME TypeInv, HooksInv, [Next]_vars
  PROVE  OrphanHooksExplained'
<1>0. /\ ops \in [Slots -> Op \cup {None}] /\ TypeOK /\ SourceInv
      /\ hooks \in [HookIds -> Orgs \cup {None, Gone}]
      /\ OrphanHooksExplained /\ HookingInv /\ RevokeInv
      /\ repos \in [RepoIds -> Repository \cup {None, Gone}]
  BY DEF TypeInv, TypeOK, HooksInv
<1> SUFFICES ASSUME NEW h \in HookIds, h \notin excused',
                    hooks'[h] \notin {None, Gone}
             PROVE  \/ \E r \in Repos' : repos'[r].hook = h
                    \/ \E s \in Slots : At(s, "record")' /\ ops'[s].hook = h
  BY DEF OrphanHooksExplained
<1>1. h \notin excused
  BY Kept
<1>2. CASE hooks[h] = None
  <2>1. PICK s \in Slots, g \in HookIds :
           /\ At(s, "hook")
           /\ hooks' = [hooks EXCEPT ![g] = rows[repos[ops[s].repo].row].org]
           /\ \/ /\ ops' = [ops EXCEPT ![s] =
                              [at |-> "record", repo |-> ops[s].repo,
                               hook |-> g]]
                 /\ UNCHANGED excused
              \/ ops' = [ops EXCEPT ![s] = None] /\ excused' = excused \cup {g}
    BY <1>0, <1>2, HooksMove
       DEF HookMove, HookCreated, HookRevoked, HookDelivered
  <2>2. g = h
    BY <1>0, <1>2, <2>1
  <2>3. PICK x : /\ x = [at |-> "record", repo |-> ops[s].repo, hook |-> h]
                 /\ ops'[s] = x
    BY <1>0, <2>1, <2>2
  <2>4. x.at = "record" /\ x.hook = h
    BY <2>3
  <2>5. x # None
    <3>1. ops[s].repo \in RepoIds
      BY <1>0, <2>1, FieldsOfOp DEF At, OpFields
    <3>2. x \in Op
      BY <2>3, <3>1 DEF Op
    <3> QED
      BY <3>2
  <2> QED
    BY <2>3, <2>4, <2>5 DEF At
<1>3. CASE hooks[h] # None
  <2>1. hooks[h] \notin {None, Gone}
    BY <1>3, Kept
  <2>2. ASSUME NEW r \in Repos, repos[r].hook = h
        PROVE  \E q \in Repos' : repos'[q].hook = h
    <3>1. r \in RepoIds /\ repos[r] \notin {None, Gone}
      BY DEF Repos
    <3>2. ~RepoInserted(r)
      BY <3>1 DEF RepoInserted
    <3>3. ~RepoHooked(r)
      BY <1>0, <2>2 DEF RepoHooked, HookingInv, Hooking
    <3>4. repos'[r] # Gone
      <4>1. SUFFICES ASSUME repos'[r] = Gone, rows'[repos[r].row] = Gone
                     PROVE  FALSE
        BY <3>1, <3>2, ReposMove DEF RepoMove
      <4>2. PICK k \in Rows : k = repos[r].row
        BY DEF TypeInv, RowsLive
      <4>3. k \in RowIds /\ rows[k] # Gone /\ r \in ReposOf(k)
        BY <4>2 DEF Rows, ReposOf
      <4>4. RowDeleted(k)
        BY <4>1, <4>2, <4>3, RowsMove DEF RowMove, RowWritten
      <4>5. PICK s \in Slots : /\ At(s, "forget") \/ At(s, "revoke")
                               /\ At(s, "revoke") => ops[s].todo = {}
                               /\ ops[s].row = k
        BY <4>4 DEF RowDeleted
      <4>6. ~At(s, "revoke")
        BY <1>0, <1>1, <2>1, <2>2, <4>3, <4>5 DEF RevokeInv
      <4>7. source # "GITLAB"
        BY <1>0, <4>5, <4>6 DEF At, SourceInv, GithubOnly
      <4>8. source = "GITHUB"
        BY <1>0, <4>7 DEF TypeOK
      <4> QED
        BY <1>0, <2>2, <4>8 DEF HookingInv
    <3>5. repos'[r].hook = h /\ repos'[r] # None
      BY <2>2, <3>1, <3>2, <3>3, <3>4, ReposMove, Kept DEF RepoMove, RepoScoped
    <3> QED
      BY <3>1, <3>4, <3>5 DEF Repos
  <2>3. ASSUME NEW s \in Slots, At(s, "record"), ops[s].hook = h
        PROVE  \/ \E q \in Repos' : repos'[q].hook = h
               \/ \E t \in Slots : At(t, "record")' /\ ops'[t].hook = h
    <3>1. CASE ops'[s] = ops[s]
      BY <2>3, <3>1 DEF At
    <3>2. CASE Crash
      BY <2>3, <3>2 DEF Crash
    <3>3. CASE Ends(s)
      <4>1. RecordHook(s)
        BY <2>3, <3>3 DEF Ends, ConnectGithub, MarkPending, Forget,
           Disconnected, StoreToken, WriteHealth, SaveScanConfig, At
      <4>2. ops[s].repo \in Repos
        BY <2>3, <4>1 DEF RecordHook
      <4>3. PICK r \in Repos : r = ops[s].repo
        BY <4>2
      <4>4. PICK x : /\ x = [repos[r] EXCEPT !.hook = h]
                     /\ repos'[r] = x
        BY <1>0, <2>3, <4>1, <4>3 DEF RecordHook, Repos
      <4>5. repos[r] \in Repository
        BY <1>0, RepoFields
      <4>6. x \in Repository /\ x.hook = h
        BY <4>4, <4>5 DEF Repository
      <4> QED
        BY <4>4, <4>6 DEF Repos
    <3> QED
      BY <2>3, <3>1, <3>2, <3>3, OwnSteps, StepsFrom
  <2> QED
    BY <1>0, <1>1, <2>1, <2>2, <2>3 DEF OrphanHooksExplained
<1> QED
  BY <1>2, <1>3

LEMMA InitHooks == Init => HooksInv
<1> SUFFICES ASSUME Init PROVE HooksInv
  OBVIOUS
<1>1. Repos = {} /\ credited = {}
  BY DEF Init, Repos
<1>2. \A h \in HookIds : hooks[h] = None
  BY DEF Init
<1>3. \A s \in Slots : ops[s] = None
  BY DEF Init
<1> QED
  BY <1>1, <1>2, <1>3 DEF HooksInv, OwnerInv, HookingInv, RevokeInv,
     OrphanHooksExplained, DeliveredToItsOwner, Hooking, At, ReposOf

LEMMA HooksHold == Spec => [](TypeInv /\ HooksInv)
<1>1. Init => TypeInv /\ HooksInv
  BY InitType, InitHooks
<1>2. TypeInv /\ HooksInv /\ [Next]_vars => (TypeInv /\ HooksInv)'
  BY StepType, StepHooking, StepOwner, StepRevoke, StepOrphan DEF HooksInv
<1> QED
  BY <1>1, <1>2, PTL DEF Spec

(* handleGitlabEvent: a delivery is only taken for the organization that   *)
(* made the hook, although the row is looked up by the project alone.      *)
THEOREM DeliveriesAreOwned == Spec => []DeliveredToItsOwner
<1>1. HooksInv => DeliveredToItsOwner
  BY DEF HooksInv, OwnerInv
<1> QED
  BY <1>1, HooksHold, PTL

(* installWebhook and revokeRepositoryWebhooks: a hook stays at GitLab     *)
(* without a row only when a call failed, a process died, or it was stored *)
(* while its organization was being disconnected.                          *)
THEOREM OrphansAreExplained == Spec => []OrphanHooksExplained
<1>1. HooksInv => OrphanHooksExplained
  BY DEF HooksInv
<1> QED
  BY <1>1, HooksHold, PTL

=============================================================================
