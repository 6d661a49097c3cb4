----------------------------- MODULE Connections -----------------------------
(***************************************************************************)
(* How organizations are connected to a provider: the Integration row      *)
(* (IntegrationsService), the GitHub App's installation round trip         *)
(* (GithubInstallIntentService, the callback, the `installation` webhook), *)
(* the repositories with their GitLab hooks and their scan scope           *)
(* (ReposService), and the hook deliveries that come back.                 *)
(*                                                                         *)
(* A behaviour follows one provider: an organization has one Integration   *)
(* row per source, and the rows of two sources never meet.  One action per *)
(* query or provider call; queries that nothing can tell apart from the    *)
(* provider call beside them share its action.                             *)
(***************************************************************************)
EXTENDS Naturals, FiniteSets

CONSTANTS
    Orgs,           \* organizations
    Slots,          \* requests the API handles at the same time
    Installs,       \* GitHub App installations (an id is never used again)
    Intents,        \* values of `state`, bound: install intents
    Tokens,         \* GitLab tokens an Admin may paste
    Branches,       \* branch names a user may ask for
    DefaultBranch,  \* the repository's default branch
    Asked,          \* the ReviewPolicy values requests carry
    MaxRows,        \* bound: Integration rows ever created
    MaxRepos,       \* bound: Repository rows ever created
    MaxHooks,       \* bound: GitLab hooks ever created
    MaxRequests,    \* bound: requests in all
    MaxEvents,      \* bound: changes made on GitHub to installations
    MaxFaults,      \* bound: lost answers, lost events and API crashes
    None,           \* null, and a row not created yet
    Gone            \* a row, hook or intent that was deleted

ReviewPolicy == {"MANUAL_ONLY", "ALLOW_AI", "REQUIRE_BOTH"}

ASSUME BranchesAssumption == DefaultBranch \in Branches
ASSUME BoundsAssumption ==
    /\ Asked \subseteq ReviewPolicy
    /\ {MaxRows, MaxRepos, MaxHooks, MaxRequests, MaxEvents,
        MaxFaults} \subseteq Nat

VARIABLES
    source,         \* the provider this behaviour follows
    rows,           \* the Integration rows of that source
    repos,          \* the Repository rows with RepoScanConfig and policies
    onboarded,      \* Organization.onboardingCompleted
    intents,        \* the GithubInstallIntent rows
    account,        \* external: what GitHub knows of each installation
    sent,           \* external: the installation events GitHub raised
    events,         \* those of them not delivered yet
    token,          \* external: what GitLab thinks of each token
    remote,         \* external: the branches at the provider
    hooks,          \* external: GitLab's hooks, by the organization they serve
    ops,            \* requests in progress
    excused,        \* history: hooks whose creation or removal failed
    credited,       \* history: accepted deliveries, hook's and credited org
    requests, faults

orgVars == <<source, onboarded>>
integrationVars == <<rows, repos>>
githubVars == <<intents, account, sent, events>>
gitlabVars == <<token, hooks, excused, credited>>
vars == <<orgVars, integrationVars, githubVars, gitlabVars, remote, ops,
          requests, faults>>

-----------------------------------------------------------------------------
RowIds == 1..MaxRows
RepoIds == 1..MaxRepos
HookIds == 1..MaxHooks

IntegrationState == {"ACTIVE", "EXPIRING_SOON", "TOKEN_EXPIRED", "INVALID",
                     "PENDING_APPROVAL", "UNINSTALLED", "SUSPENDED"}

(* What asking GitLab about a token can say.                               *)
TokenState == {"ACTIVE", "EXPIRING_SOON", "TOKEN_EXPIRED"}

Integration == [org : Orgs, state : IntegrationState,
                inst : Installs \cup {None}, token : Tokens \cup {None}]

(* RepoBranchPolicy rows: at most one of a branch.                         *)
Policies == UNION {[D -> ReviewPolicy] : D \in SUBSET Branches}

(* `hook` is gitlabWebhookId; every hook has a secret of its own, stored   *)
(* with it, so the id stands for both.                                     *)
Repository == [row : RowIds, project : Installs \cup {None},
               hook : HookIds \cup {None}, branches : SUBSET Branches,
               policy : Policies]

Intent == [org : Orgs, expired : BOOLEAN]
Event == Installs \X {"deleted", "suspend", "unsuspend"}

(* A request between two of its steps; `at` names the next one.            *)
Op == [at : {"consume"}, intent : Intents, org : Orgs,
       inst : Installs \cup {None}]
      \cup [at : {"verify", "connect"}, org : Orgs, inst : Installs]
      \cup [at : {"pending", "mark"}, org : Orgs]
      \cup [at : {"uninstall", "forget"}, row : RowIds, inst : Installs]
      \cup [at : {"store"}, org : Orgs, token : Tokens, state : TokenState]
      \cup [at : {"revoke"}, row : RowIds, token : Tokens,
            todo : SUBSET HookIds]
      \cup [at : {"health"}, row : RowIds, state : TokenState \cup {"INVALID"}]
      \cup [at : {"insert"}, row : RowIds, branches : SUBSET Branches,
            policy : ReviewPolicy, inst : Installs \cup {None},
            token : Tokens \cup {None}]
      \cup [at : {"hook"}, repo : RepoIds, token : Tokens]
      \cup [at : {"record"}, repo : RepoIds, hook : HookIds]
      \cup [at : {"unknown", "policies"}, repo : RepoIds,
            seen : SUBSET Branches, branches : SUBSET Branches,
            asked : Asked \cup {None}]
      \cup [at : {"save"}, repo : RepoIds, branches : SUBSET Branches,
            changed : Policies]

(* null and a deleted row are no values of their columns.                  *)
ASSUME NullsAssumption ==
    /\ None # Gone
    /\ \A null \in {None, Gone} :
          /\ null \notin Orgs /\ null \notin HookIds /\ null \notin Installs
          /\ null \notin Integration /\ null \notin Repository
          /\ null \notin Intent /\ null \notin Op

TypeOK ==
    /\ source \in {"GITHUB", "GITLAB"}
    /\ rows \in [RowIds -> Integration \cup {None, Gone}]
    /\ repos \in [RepoIds -> Repository \cup {None, Gone}]
    /\ onboarded \subseteq Orgs
    /\ intents \in [Intents -> Intent \cup {None, Gone}]
    /\ account \in [Installs ->
           {"absent", "installed", "suspended", "removed"}]
    /\ events \subseteq sent /\ sent \subseteq Event
    /\ token \in [Tokens -> {"fresh", "soon", "dead"}]
    /\ remote \in [Branches -> {"never", "there", "removed"}]
    /\ hooks \in [HookIds -> Orgs \cup {None, Gone}]
    /\ ops \in [Slots -> Op \cup {None}]
    /\ excused \subseteq HookIds /\ credited \subseteq Orgs \X Orgs
    /\ requests \in 0..MaxRequests /\ faults \in 0..MaxFaults

Init ==
    /\ source \in {"GITHUB", "GITLAB"}
    /\ rows = [k \in RowIds |-> None]
    /\ repos = [r \in RepoIds |-> None]
    /\ onboarded = {}
    /\ intents = [n \in Intents |-> None]
    /\ account = [i \in Installs |-> "absent"]
    /\ sent = {} /\ events = {}
    /\ token = [t \in Tokens |-> "fresh"]
    /\ remote \in {f \in [Branches -> {"never", "there"}] :
                      f[DefaultBranch] = "there"}
    /\ hooks = [h \in HookIds |-> None]
    /\ ops = [s \in Slots |-> None]
    /\ excused = {} /\ credited = {}
    /\ requests = 0 /\ faults = 0

-----------------------------------------------------------------------------
Rows == {k \in RowIds : rows[k] \notin {None, Gone}}
Repos == {r \in RepoIds : repos[r] \notin {None, Gone}}
RowsOf(o) == {k \in Rows : rows[k].org = o}     \* at most one: @@unique
ReposOf(k) == {r \in Repos : repos[r].row = k}

(* The id the next row or hook gets: none, once the bound is reached.      *)
NextUnused(f) == {x \in DOMAIN f : /\ f[x] = None
                                   /\ \A y \in DOMAIN f : f[y] = None => x <= y}

Begin(s, op) ==
    /\ ops[s] = None /\ requests < MaxRequests
    /\ ops' = [ops EXCEPT ![s] = op]
    /\ requests' = requests + 1
    /\ UNCHANGED faults
At(s, step) == ops[s] # None /\ ops[s].at = step
Continue(s, op) ==
    /\ ops' = [ops EXCEPT ![s] = op]
    /\ UNCHANGED <<requests, faults>>
End(s) == Continue(s, None)
Fault == faults < MaxFaults /\ faults' = faults + 1

(* The upsert on [organizationId, source].                                 *)
Upsert(o, new) ==
    IF RowsOf(o) # {}
    THEN rows' = [k \in RowIds |-> IF k \in RowsOf(o) THEN new ELSE rows[k]]
    ELSE \E k \in NextUnused(rows) : rows' = [rows EXCEPT ![k] = new]

(* Deleting an Integration cascades to its repositories.                   *)
DeleteRow(k) ==
    /\ rows' = [rows EXCEPT ![k] = Gone]
    /\ repos' = [r \in RepoIds |-> IF r \in ReposOf(k) THEN Gone ELSE repos[r]]

-----------------------------------------------------------------------------
(* Installing the GitHub App.                                              *)

CreateIntent(o, n) ==
    /\ source = "GITHUB" /\ intents[n] = None
    /\ intents' = [intents EXCEPT ![n] = [org |-> o, expired |-> FALSE]]
    /\ UNCHANGED <<orgVars, integrationVars, account, sent, events,
                   gitlabVars, remote, ops, requests, faults>>

IntentExpires(n) ==
    /\ intents[n] \notin {None, Gone} /\ ~intents[n].expired
    /\ intents' = [intents EXCEPT ![n].expired = TRUE]
    /\ UNCHANGED <<orgVars, integrationVars, account, sent, events,
                   gitlabVars, remote, ops, requests, faults>>

(* The browser comes back from GitHub with an installation, or with none   *)
(* when its owner still has to approve (setup_action=request).             *)
Callback(s, n, i) ==
    /\ intents[n] \notin {None, Gone}
    /\ i # None => account[i] # "absent"
    /\ Begin(s, [at |-> "consume", intent |-> n, org |-> intents[n].org,
                 inst |-> i])
    /\ UNCHANGED <<orgVars, integrationVars, githubVars, gitlabVars, remote>>

(* With no installation there is nothing to verify yet.                    *)
AfterIntent(o, i) == IF i = None THEN [at |-> "pending", org |-> o]
                     ELSE [at |-> "verify", org |-> o, inst |-> i]

(* delete() throws when another callback has deleted the intent since.     *)
Consume(s) ==
    /\ At(s, "consume")
    /\ LET n == ops[s].intent
           spent == intents[n] # Gone /\ ~intents[n].expired
       IN  /\ intents' = [intents EXCEPT ![n] = Gone]
           /\ IF spent THEN Continue(s, AfterIntent(ops[s].org, ops[s].inst))
              ELSE End(s)
    /\ UNCHANGED <<orgVars, integrationVars, account, sent, events,
                   gitlabVars, remote>>

VerifyInstallation(i) == account[i] \in {"installed", "suspended"}

(* GitHub may also not answer.                                             *)
Verify(s) ==
    /\ At(s, "verify")
    /\ \/ /\ VerifyInstallation(ops[s].inst)
          /\ Continue(s, [ops[s] EXCEPT !.at = "connect"])
       \/ End(s)
    /\ UNCHANGED <<orgVars, integrationVars, githubVars, gitlabVars, remote>>

(* installationId is unique: P2002 becomes installation_in_use.            *)
InUse(o, i) == \E k \in Rows : rows[k].inst = i /\ rows[k].org # o

ConnectGithub(s) ==
    /\ At(s, "connect")
    /\ IF InUse(ops[s].org, ops[s].inst) THEN UNCHANGED rows
       ELSE Upsert(ops[s].org,
                   [org |-> ops[s].org, state |-> "ACTIVE",
                    inst |-> ops[s].inst, token |-> None])
    /\ End(s)
    /\ UNCHANGED <<orgVars, repos, githubVars, gitlabVars, remote>>

(* markGithubPendingApproval: an installation the organization has is left *)
(* alone, as it was when the row was read.                                 *)
PendingRead(s) ==
    /\ At(s, "pending")
    /\ IF \E k \in RowsOf(ops[s].org) : rows[k].inst # None THEN End(s)
       ELSE Continue(s, [ops[s] EXCEPT !.at = "mark"])
    /\ UNCHANGED <<orgVars, integrationVars, githubVars, gitlabVars, remote>>

MarkPending(s) ==
    /\ At(s, "mark")
    /\ LET o == ops[s].org
           held == {rows[k].inst : k \in RowsOf(o)}
       IN  \E i \in IF held = {} THEN {None} ELSE held :
               Upsert(o, [org |-> o, state |-> "PENDING_APPROVAL", inst |-> i,
                          token |-> None])
    /\ End(s)
    /\ UNCHANGED <<orgVars, repos, githubVars, gitlabVars, remote>>

-----------------------------------------------------------------------------
(* GitHub's side, external, and its `installation` webhook.                *)

AccountChanges(i, from, to, event) ==
    /\ source = "GITHUB" /\ account[i] \in from
    /\ <<i, event>> \notin sent /\ Cardinality(sent) < MaxEvents
    /\ account' = [account EXCEPT ![i] = to]
    /\ sent' = sent \cup {<<i, event>>} /\ events' = events \cup {<<i, event>>}
    /\ UNCHANGED <<orgVars, integrationVars, intents, gitlabVars, remote,
                   ops, requests, faults>>

(* The `created` event is not one Critiq acts on.                          *)
Installed(i) ==
    /\ source = "GITHUB" /\ account[i] = "absent"
    /\ account' = [account EXCEPT ![i] = "installed"]
    /\ UNCHANGED <<orgVars, integrationVars, intents, sent, events,
                   gitlabVars, remote, ops, requests, faults>>
Suspended(i) == AccountChanges(i, {"installed"}, "suspended", "suspend")
Unsuspended(i) == AccountChanges(i, {"suspended"}, "installed", "unsuspend")
Uninstalled(i) ==
    AccountChanges(i, {"installed", "suspended"}, "removed", "deleted")

(* INSTALLATION_TRANSITIONS and the row an event is about.                 *)
To == [deleted |-> "UNINSTALLED", suspend |-> "SUSPENDED",
       unsuspend |-> "ACTIVE"]
(* Mutant of About: the row is found by its organization.                  *)
AboutOrganization(row, e) ==
    row.inst # None /\ (e[2] = "unsuspend" => row.state = "SUSPENDED")

About(row, e) ==
    /\ row.inst = e[1]
    /\ e[2] = "unsuspend" => row.state = "SUSPENDED"

(* GitHub may deliver an event again.                                      *)
InstallationEvent(e) ==
    /\ e \in events
    /\ events' \in {events \ {e}, events}
    /\ rows' = [k \in RowIds |->
                   IF k \in Rows /\ About(rows[k], e)
                   THEN [rows[k] EXCEPT !.state = To[e[2]]] ELSE rows[k]]
    /\ UNCHANGED <<orgVars, repos, intents, account, sent, gitlabVars,
                   remote, ops, requests, faults>>

(* An error in the handler is answered 200, so GitHub does not redeliver.  *)
EventLost(e) ==
    /\ e \in events /\ Fault
    /\ events' = events \ {e}
    /\ UNCHANGED <<orgVars, integrationVars, intents, account, sent,
                   gitlabVars, remote, ops, requests>>

-----------------------------------------------------------------------------
(* Disconnecting.                                                          *)

(* Without an installation the request fails on assertGithubInstallationId.*)
DisconnectGithub(s, k) ==
    /\ source = "GITHUB" /\ k \in Rows /\ rows[k].inst # None
    /\ Begin(s, [at |-> "uninstall", row |-> k, inst |-> rows[k].inst])
    /\ UNCHANGED <<orgVars, integrationVars, githubVars, gitlabVars, remote>>

(* Mutant of AfterFailure: the failure is skipped.                         *)
AfterFailureForget(op) == [op EXCEPT !.at = "forget"]

(* What disconnectGithub does next when deleteInstallation has failed.     *)
AfterFailure(op) == None

(* deleteInstallation: done, 404 (already gone), failed without effect, or *)
(* done with the answer lost.                                              *)
Uninstall(s) ==
    /\ At(s, "uninstall")
    /\ LET i == ops[s].inst
           removed == /\ account' = [account EXCEPT ![i] = "removed"]
                      /\ IF account[i] = "removed"
                         THEN UNCHANGED <<sent, events>>
                         ELSE /\ sent' = sent \cup {<<i, "deleted">>}
                              /\ events' = events \cup {<<i, "deleted">>}
       IN  \/ /\ removed
              /\ Continue(s, [ops[s] EXCEPT !.at = "forget"])
           \/ /\ Fault /\ UNCHANGED requests
              /\ ops' = [ops EXCEPT ![s] = AfterFailure(ops[s])]
              /\ removed \/ UNCHANGED <<account, sent, events>>
    /\ UNCHANGED <<orgVars, integrationVars, intents, gitlabVars,
                   remote>>

(* Deleting a row that is gone already throws.                             *)
Forget(s) ==
    /\ At(s, "forget")
    /\ IF ops[s].row \in Rows THEN DeleteRow(ops[s].row)
       ELSE UNCHANGED integrationVars
    /\ End(s)
    /\ UNCHANGED <<orgVars, githubVars, gitlabVars, remote>>

(* Mutant of RecordedHooks: listed after the cascade.                      *)
RecordedHooksTooLate(k) == {}

(* revokeRepositoryWebhooks: the recorded hooks, with the token of the row *)
(* as it was read.                                                         *)
RecordedHooks(k) == {repos[r].hook : r \in ReposOf(k)} \ {None}

DisconnectGitlab(s, k) ==
    /\ source = "GITLAB" /\ k \in Rows
    /\ Begin(s, [at |-> "revoke", row |-> k, token |-> rows[k].token,
                 todo |-> RecordedHooks(k)])
    /\ UNCHANGED <<orgVars, integrationVars, githubVars, gitlabVars, remote>>

(* GitLab answers 401 to an expired or revoked token.                      *)
GitlabAnswers(t) == token[t] # "dead"

CreateProjectHook(h, o) == hooks' = [hooks EXCEPT ![h] = o]
DeleteProjectHook(h) == hooks' = [hooks EXCEPT ![h] = Gone]

(* A failure is logged and skipped.  So is, as a success, a 404, which     *)
(* GitLab also answers for a project that a replaced token does not see:   *)
(* the hook stays as after any other failure.                              *)
Revoke(s, h) ==
    /\ At(s, "revoke") /\ h \in ops[s].todo
    /\ ops' = [ops EXCEPT ![s].todo = @ \ {h}]
    /\ \/ /\ GitlabAnswers(ops[s].token) /\ DeleteProjectHook(h)
          /\ UNCHANGED <<excused, faults>>
       \/ /\ ~GitlabAnswers(ops[s].token)
          /\ excused' = excused \cup {h} /\ UNCHANGED <<hooks, faults>>
       \/ /\ Fault
          /\ excused' = excused \cup {h} /\ UNCHANGED hooks
    /\ UNCHANGED <<orgVars, integrationVars, githubVars, token, credited,
                   remote, requests>>

Disconnected(s) ==
    /\ At(s, "revoke") /\ ops[s].todo = {}
    /\ IF ops[s].row \in Rows THEN DeleteRow(ops[s].row)
       ELSE UNCHANGED integrationVars
    /\ End(s)
    /\ UNCHANGED <<orgVars, githubVars, gitlabVars, remote>>

-----------------------------------------------------------------------------
(* The GitLab token.                                                       *)

(* resolveStateFromExpiry, with the day it is asked on.                    *)
StateOf(t) == CASE token[t] = "fresh" -> "ACTIVE"
                [] token[t] = "soon" -> "EXPIRING_SOON"
                [] OTHER -> "TOKEN_EXPIRED"

TokenAges(t) ==
    /\ source = "GITLAB" /\ GitlabAnswers(t)
    /\ token' = [token EXCEPT ![t] = IF @ = "fresh" THEN "soon" ELSE "dead"]
    /\ UNCHANGED <<orgVars, integrationVars, githubVars, hooks, excused,
                   credited, remote, ops, requests, faults>>

(* connectGitlab asks GitLab for the user, the token and the projects; a   *)
(* token GitLab refuses stores nothing.                                    *)
ConnectGitlab(s, o, t) ==
    /\ source = "GITLAB" /\ GitlabAnswers(t)
    /\ Begin(s, [at |-> "store", org |-> o, token |-> t, state |-> StateOf(t)])
    /\ UNCHANGED <<orgVars, integrationVars, githubVars, gitlabVars, remote>>

StoreToken(s) ==
    /\ At(s, "store")
    /\ Upsert(ops[s].org, [org |-> ops[s].org, state |-> ops[s].state,
                           inst |-> None, token |-> ops[s].token])
    /\ End(s)
    /\ UNCHANGED <<orgVars, repos, githubVars, gitlabVars, remote>>

(* getHealth: the row and its token are read, GitLab is asked, the state   *)
(* is written whatever the row holds by then.                              *)
Health(s, k) ==
    /\ source = "GITLAB" /\ k \in Rows
    /\ \E state \in {"INVALID", StateOf(rows[k].token)} :
           /\ state # "INVALID" => GitlabAnswers(rows[k].token)
           /\ Begin(s, [at |-> "health", row |-> k, state |-> state])
    /\ UNCHANGED <<orgVars, integrationVars, githubVars, gitlabVars, remote>>

WriteHealth(s) ==
    /\ At(s, "health")
    /\ rows' = IF ops[s].row \in Rows
               THEN [rows EXCEPT ![ops[s].row].state = ops[s].state] ELSE rows
    /\ End(s)
    /\ UNCHANGED <<orgVars, repos, githubVars, gitlabVars, remote>>

-----------------------------------------------------------------------------
(* Connecting a repository (createRepos, one project of the request).      *)

AssertGithubAccess(row) ==
    row.state \notin {"UNINSTALLED", "SUSPENDED", "PENDING_APPROVAL"}

(* findIntegrationOrThrow.                                                 *)
Accessible(row) == row.state # "TOKEN_EXPIRED" /\ AssertGithubAccess(row)

(* GitHub mints a token for an installation that is neither suspended nor  *)
(* removed.  Each has one repository, known by the installation.           *)
InstallationToken(i) == account[i] = "installed"
InstallationRepositories(i) == IF InstallationToken(i) THEN {i} ELSE {}

(* Whether the provider answers about a project.  On GitLab there is one   *)
(* project, which several organizations may connect.                       *)
Reachable(row, project) ==
    IF source = "GITHUB" THEN project \in InstallationRepositories(row.inst)
    ELSE GitlabAnswers(row.token)
BranchExists(b) == remote[b] = "there"
Missing(B) == {b \in B : ~BranchExists(b)}

(* checkProviderRepo: unreachable or a missing branch ends this project.   *)
CreateRepo(s, k, asked, p) ==
    /\ k \in Rows /\ Accessible(rows[k])
    /\ Reachable(rows[k], rows[k].inst) /\ Missing(asked) = {}
    /\ Begin(s, [at |-> "insert", row |-> k, policy |-> p,
                 branches |-> asked \cup {DefaultBranch},
                 inst |-> rows[k].inst, token |-> rows[k].token])
    /\ UNCHANGED <<orgVars, integrationVars, githubVars, gitlabVars, remote>>

(* The transaction: the repository, its RepoScanConfig, its policies and   *)
(* the end of onboarding.  It fails when the Integration is gone or the    *)
(* project already connected.                                              *)
InsertRepo(s) ==
    /\ At(s, "insert")
    /\ LET op == ops[s]
           taken == \E r \in ReposOf(op.row) : repos[r].project = op.inst
           new == [row |-> op.row, project |-> op.inst, hook |-> None,
                   branches |-> op.branches,
                   policy |-> [b \in op.branches |-> op.policy]]
       IN  IF op.row \notin Rows \/ taken
           THEN End(s) /\ UNCHANGED <<repos, onboarded>>
           ELSE \E id \in NextUnused(repos) :
                    /\ onboarded' = onboarded \cup {rows[op.row].org}
                    /\ repos' = [repos EXCEPT ![id] = new]
                    /\ Continue(s, IF source = "GITHUB" THEN None
                                   ELSE [at |-> "hook", repo |-> id,
                                         token |-> op.token])
    /\ UNCHANGED <<source, rows, githubVars, gitlabVars, remote>>

(* installWebhook: the repository is read again, the hook is created; the  *)
(* hook may be there although the answer is lost.                          *)
InstallWebhook(s) ==
    /\ At(s, "hook")
    /\ LET r == ops[s].repo
           refused == r \notin Repos \/ ~GitlabAnswers(ops[s].token)
       IN  \/ refused /\ End(s) /\ UNCHANGED <<hooks, excused>>
           \/ \E h \in NextUnused(hooks) :
                 /\ ~refused
                 /\ CreateProjectHook(h, rows[repos[r].row].org)
                 /\ \/ /\ Continue(s, [at |-> "record", repo |-> r,
                                       hook |-> h])
                       /\ UNCHANGED excused
                    \/ /\ Fault /\ UNCHANGED requests
                       /\ ops' = [ops EXCEPT ![s] = None]
                       /\ excused' = excused \cup {h}
    /\ UNCHANGED <<orgVars, integrationVars, githubVars, token, credited,
                   remote>>

Disconnecting(k) == \E s \in Slots : At(s, "revoke") /\ ops[s].row = k

(* The id and the secret are stored, unless the repository is gone: then   *)
(* the error is caught, and the hook stays at GitLab; as it does when a    *)
(* disconnect has already listed the hooks it revokes.                     *)
RecordHook(s) ==
    /\ At(s, "record")
    /\ LET r == ops[s].repo
           late == r \notin Repos \/ Disconnecting(repos[r].row)
       IN  /\ repos' = IF r \notin Repos THEN repos
                       ELSE [repos EXCEPT ![r].hook = ops[s].hook]
           /\ excused' = IF late THEN excused \cup {ops[s].hook} ELSE excused
    /\ End(s)
    /\ UNCHANGED <<orgVars, rows, githubVars, token, hooks, credited, remote>>

-----------------------------------------------------------------------------
(* Deliveries of GitLab's hooks.                                           *)

(* Mutant of Authentic: the secret is not compared.                        *)
AuthenticProject(r, h) == repos[r].hook # None

(* handleGitlabEvent compares the delivery's secret with the row's.        *)
Authentic(r, h) == repos[r].hook = h

(* findFirst on the project's id finds any of its repositories.            *)
HookDelivery(h) ==
    /\ source = "GITLAB" /\ hooks[h] \notin {None, Gone}
    /\ \E r \in Repos :
           /\ repos[r].hook # None /\ Authentic(r, h)
           /\ credited' = credited
                  \cup {<<hooks[h], rows[repos[r].row].org>>}
    /\ UNCHANGED <<orgVars, integrationVars, githubVars, token, hooks, excused,
                   remote, ops, requests, faults>>

-----------------------------------------------------------------------------
(* The scan scope (updateScanConfig).                                      *)

BranchDeleted(b) ==
    /\ b # DefaultBranch /\ BranchExists(b)
    /\ remote' = [remote EXCEPT ![b] = "removed"]
    /\ UNCHANGED <<orgVars, integrationVars, githubVars, gitlabVars, ops,
                   requests, faults>>

(* A request asks for a policy on every branch but the default, or none.   *)
UpdateScanConfig(s, r, branches, p) ==
    /\ r \in Repos
    /\ Begin(s, [at |-> "unknown", repo |-> r, seen |-> repos[r].branches,
                 branches |-> branches \cup {DefaultBranch}, asked |-> p])
    /\ UNCHANGED <<orgVars, integrationVars, githubVars, gitlabVars, remote>>

(* Mutant of AddedBranches: the wrong branches.                            *)
AddedBranchesKept(op) == op.branches \cap op.seen

(* Only the branches that were not in scope are looked up.                 *)
AddedBranches(op) == op.branches \ op.seen

FindUnknownBranches(s) ==
    /\ At(s, "unknown")
    /\ LET op == ops[s]
           row == rows[repos[op.repo].row]
           found == /\ op.repo \in Repos /\ Accessible(row)
                    /\ Reachable(row, repos[op.repo].project)
                    /\ Missing(AddedBranches(op)) = {}
       IN  IF AddedBranches(op) = {} \/ found
           THEN Continue(s, [op EXCEPT !.at = "policies"]) ELSE End(s)
    /\ UNCHANGED <<orgVars, integrationVars, githubVars, gitlabVars, remote>>

(* Requested, then stored, then the default branch's, then MANUAL_ONLY.    *)
(* Only the policies that differ from the stored ones are written.         *)
NextPolicy(op, current) ==
    LET wanted(b) == op.asked # None /\ b # DefaultBranch
        fallback == IF DefaultBranch \in DOMAIN current
                    THEN current[DefaultBranch] ELSE "MANUAL_ONLY"
    IN  [b \in op.branches |->
            IF wanted(b) THEN op.asked
            ELSE IF b \in DOMAIN current THEN current[b] ELSE fallback]

Changed(next, current) ==
    {b \in DOMAIN next : b \notin DOMAIN current \/ current[b] # next[b]}

FindBranchPolicies(s) ==
    /\ At(s, "policies")
    /\ LET op == ops[s]
           current == IF op.repo \in Repos THEN repos[op.repo].policy ELSE <<>>
           next == NextPolicy(op, current)
           changed == [b \in Changed(next, current) |-> next[b]]
       IN  Continue(s, [at |-> "save", repo |-> op.repo,
                        branches |-> op.branches, changed |-> changed])
    /\ UNCHANGED <<orgVars, integrationVars, githubVars, gitlabVars, remote>>

(* Mutant of KeptPolicies: no deleteMany.                                  *)
KeptPoliciesAll(policy, branches) == DOMAIN policy

(* The transaction: the scope, the policies outside of it deleted, the     *)
(* changed ones upserted.                                                  *)
KeptPolicies(policy, branches) == (DOMAIN policy) \cap branches

SaveScanConfig(s) ==
    /\ At(s, "save")
    /\ LET op == ops[s]
           old == repos[op.repo].policy
           kept == KeptPolicies(old, op.branches)
           new == [b \in kept \cup DOMAIN op.changed |->
                      IF b \in DOMAIN op.changed THEN op.changed[b]
                      ELSE old[b]]
       IN  IF op.repo \notin Repos THEN UNCHANGED repos
           ELSE repos' = [repos EXCEPT ![op.repo] =
                             [repos[op.repo] EXCEPT !.branches = op.branches,
                                                    !.policy = new]]
    /\ End(s)
    /\ UNCHANGED <<orgVars, rows, githubVars, gitlabVars, remote>>

-----------------------------------------------------------------------------
(* The API process dies: its requests end where they are.                  *)
Crash ==
    /\ Fault /\ \E s \in Slots : ops[s] # None
    /\ ops' = [s \in Slots |-> None]
    /\ excused' = excused \cup {h \in HookIds :
           \E s \in Slots : At(s, "record") /\ ops[s].hook = h}
    /\ UNCHANGED <<orgVars, integrationVars, githubVars, token, hooks,
                   credited, remote, requests>>

GithubSteps ==
    \/ \E o \in Orgs, n \in Intents : CreateIntent(o, n)
    \/ \E n \in Intents : IntentExpires(n)
    \/ \E s \in Slots, n \in Intents, i \in Installs \cup {None} :
           Callback(s, n, i)
    \/ \E s \in Slots : Consume(s) \/ Verify(s) \/ ConnectGithub(s)
    \/ \E s \in Slots : PendingRead(s) \/ MarkPending(s)
    \/ \E i \in Installs : Installed(i) \/ Suspended(i) \/ Unsuspended(i)
    \/ \E i \in Installs : Uninstalled(i)
    \/ \E e \in events : InstallationEvent(e) \/ EventLost(e)
    \/ \E s \in Slots, k \in RowIds : DisconnectGithub(s, k)
    \/ \E s \in Slots : Uninstall(s) \/ Forget(s)

GitlabSteps ==
    \/ \E s \in Slots, k \in RowIds : DisconnectGitlab(s, k) \/ Health(s, k)
    \/ \E s \in Slots, h \in HookIds : Revoke(s, h)
    \/ \E s \in Slots : Disconnected(s) \/ StoreToken(s) \/ WriteHealth(s)
    \/ \E t \in Tokens : TokenAges(t)
    \/ \E s \in Slots, o \in Orgs, t \in Tokens : ConnectGitlab(s, o, t)
    \/ \E s \in Slots : InstallWebhook(s) \/ RecordHook(s)
    \/ \E h \in HookIds : HookDelivery(h)

RepositorySteps ==
    \/ \E s \in Slots, k \in RowIds, B \in SUBSET Branches, p \in Asked :
           CreateRepo(s, k, B, p)
    \/ \E s \in Slots : InsertRepo(s)
    \/ \E b \in Branches : BranchDeleted(b)
    \/ \E s \in Slots, r \in RepoIds, B \in SUBSET Branches,
          p \in Asked \cup {None} : UpdateScanConfig(s, r, B, p)
    \/ \E s \in Slots : FindUnknownBranches(s) \/ FindBranchPolicies(s)
    \/ \E s \in Slots : SaveScanConfig(s)

Next == GithubSteps \/ GitlabSteps \/ RepositorySteps \/ Crash

Spec == Init /\ [][Next]_vars

-----------------------------------------------------------------------------
(* Safety.                                                                 *)

(* disconnectGithub: the row goes only after the installation it was read  *)
(* with is gone at GitHub, through failures, lost answers and crashes.     *)
(* What the row holds by then may be another one: a reconnect between the  *)
(* two calls puts an installation there that is dropped unasked.           *)
ForgottenWhenGone ==
    [][\A k \in Rows : source = "GITHUB" /\ rows'[k] = Gone =>
           \E s \in Slots : /\ At(s, "forget") /\ ops[s].row = k
                            /\ account[ops[s].inst] = "removed"]_vars

(* InstallationEvent: late, reordered or lost, an event says UNINSTALLED   *)
(* or SUSPENDED only of the installation the row holds now, never of one   *)
(* the organization has replaced since.                                    *)
AlarmIsAboutThisInstallation ==
    \A k \in Rows :
        LET i == rows[k].inst
        IN  /\ rows[k].state = "UNINSTALLED" => <<i, "deleted">> \in sent
            /\ rows[k].state = "SUSPENDED" => <<i, "suspend">> \in sent

(* handleGitlabEvent: though two organizations may connect one project and *)
(* the row is looked up by the project alone, a delivery is only taken for *)
(* the organization that made the hook.                                    *)
DeliveredToItsOwner == \A c \in credited : c[1] = c[2]

(* A hook stays at GitLab without a row that records it only when a call   *)
(* failed (or was answered 404 for a project the token does not see), a    *)
(* process died, or the organization was being disconnected when the hook  *)
(* was stored.                                                             *)
OrphanHooksExplained ==
    \A h \in HookIds \ excused : hooks[h] \notin {None, Gone} =>
        \/ \E r \in Repos : repos[r].hook = h
        \/ \E s \in Slots : At(s, "record") /\ ops[s].hook = h

(* updateScanConfig: through overlapping saves, the default branch stays   *)
(* in scope, branches enter it only from the provider, whatever list the   *)
(* user picked them from, and no policy is left on one outside of it.      *)
ScopeIsSound ==
    \A r \in Repos :
        LET scope == repos[r].branches
        IN  /\ DefaultBranch \in scope
            /\ \A b \in scope : remote[b] # "never"
            /\ DOMAIN repos[r].policy \subseteq scope

=============================================================================
