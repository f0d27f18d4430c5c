---------------------------- MODULE GitHubConnect ----------------------------
(***************************************************************************)
(* Linking a project to a GitHub repository (connectGitHubWebhook of       *)
(* cmd/control-center/main.go, EnsurePushHook of internal/githubapp): a    *)
(* new secret goes to the vault, then to the repository's hook, and last   *)
(* the project names both.  Each is a call of its own; any may fail, two   *)
(* requests may overlap, and the process may die.                          *)
(*                                                                         *)
(* GitHub is external: it keeps one hook per repository and URL.  The URL  *)
(* is public_url, or else the name the browser reached the dashboard under *)
(* (handleGitHubConnect): two requests may name two hooks of a repository. *)
(***************************************************************************)
EXTENDS Naturals

CONSTANTS
  Clicks,       \* requests that may overlap
  Repos,        \* repositories
  Urls,         \* names the dashboard is reached under, or public_url alone
  NoRepo,       \* the project is linked to none
  MaxSecrets,   \* bound: secrets generated
  MaxErrors     \* bound: failing calls, crashes and hooks deleted at GitHub

\* What the constants are assumed to be; the MC module that instantiates them states it.
ConnectBounds == NoRepo \notin Repos \X Urls /\ {MaxSecrets, MaxErrors} \subseteq Nat

VARIABLES
  vaultSecret,  \* the credential <project>-webhook, 0: none
  hook,         \* the secret of each hook at GitHub, 0: no hook
  linked,       \* projects.github_repo, with webhook_secret_ref at the credential; and
                \* (history) the URL it was linked under, which is not stored
  click,        \* what each request is about to do
  secrets,      \* secrets generated so far
  unsettled,    \* history: since the last undisturbed connection one failed or two overlapped
  errors        \* errors so far

connectVars == <<vaultSecret, hook, linked, click, secrets, unsettled, errors>>

-----------------------------------------------------------------------------

Hooks   == Repos \X Urls
Secrets == 1..MaxSecrets
Steps   == {"none", "put", "list", "update", "create", "save"}
NoClick == [step |-> "none", hook |-> NoRepo, secret |-> 0, alone |-> TRUE]

TypeOK ==
  /\ vaultSecret \in {0} \cup Secrets /\ hook \in [Hooks -> {0} \cup Secrets]
  /\ linked \in Hooks \cup {NoRepo}
  /\ click \in [Clicks -> [step : Steps, hook : Hooks \cup {NoRepo},
                           secret : {0} \cup Secrets, alone : BOOLEAN]]
  /\ secrets \in 0..MaxSecrets /\ unsettled \in BOOLEAN /\ errors \in 0..MaxErrors

Init ==
  /\ vaultSecret = 0 /\ hook = [h \in Hooks |-> 0] /\ linked = NoRepo
  /\ click = [c \in Clicks |-> NoClick]
  /\ secrets = 0 /\ unsettled = FALSE /\ errors = 0

At(c, step)   == click[c].step = step
Goes(c, step) == click' = [click EXCEPT ![c].step = step]
Error         == errors < MaxErrors /\ errors' = errors + 1
Idle          == \A c \in Clicks : At(c, "none")

-----------------------------------------------------------------------------

\* handleGitHubConnect, for a repository under a URL, and NewWebhookSecret.
Connect(c, h) ==
  /\ At(c, "none") /\ secrets < MaxSecrets /\ secrets' = secrets + 1
  /\ click' = [d \in Clicks |->
       IF d = c THEN [step |-> "put", hook |-> h, secret |-> secrets + 1, alone |-> Idle]
       ELSE IF At(d, "none") THEN click[d] ELSE [click[d] EXCEPT !.alone = FALSE]]
  /\ UNCHANGED <<vaultSecret, hook, linked, unsettled, errors>>

Put(c) ==
  /\ At(c, "put")
  /\ vaultSecret' = click[c].secret
  /\ Goes(c, "list")
  /\ UNCHANGED <<hook, linked, secrets, unsettled, errors>>

\* A hook that is there is good enough.
KeepHook(c) ==
  /\ At(c, "list")
  /\ Goes(c, IF hook[click[c].hook] # 0 THEN "save" ELSE "create")
  /\ UNCHANGED <<vaultSecret, hook, linked, secrets, unsettled, errors>>

\* EnsurePushHook looks for the hook of this URL, and at no other hook of the repository.
ListHooks(c) ==
  /\ At(c, "list")
  /\ Goes(c, IF hook[click[c].hook] # 0 THEN "update" ELSE "create")
  /\ UNCHANGED <<vaultSecret, hook, linked, secrets, unsettled, errors>>

\* A request that fails, before or after it took effect, leaves the rest undone.
Gives(c) == click' = [click EXCEPT ![c] = NoClick] /\ unsettled' = TRUE

\* The hook that was found is updated, a missing one is created; GitHub refuses to update
\* a hook that has gone and to create one that is there.
WriteHook(c) ==
  LET h == click[c].hook
  IN  /\ At(c, "update") \/ At(c, "create")
      /\ IF At(c, "update") <=> hook[h] # 0
         THEN hook' = [hook EXCEPT ![h] = click[c].secret] /\ Goes(c, "save") /\ UNCHANGED unsettled
         ELSE Gives(c) /\ UNCHANGED hook
      /\ UNCHANGED <<vaultSecret, linked, secrets, errors>>

\* PingHook may fail; UpsertProject writes the project back with the link.
Save(c) ==
  /\ At(c, "save")
  /\ linked' = click[c].hook
  /\ unsettled' = ~click[c].alone
  /\ click' = [click EXCEPT ![c] = NoClick]
  /\ UNCHANGED <<vaultSecret, hook, secrets, errors>>

CallFails(c) ==
  /\ Error /\ ~At(c, "none")
  /\ Gives(c)
  /\ \/ UNCHANGED hook
     \/ At(c, "update") /\ hook[click[c].hook] # 0
        /\ hook' = [hook EXCEPT ![click[c].hook] = click[c].secret]
     \/ At(c, "create") /\ hook[click[c].hook] = 0
        /\ hook' = [hook EXCEPT ![click[c].hook] = click[c].secret]
  /\ UNCHANGED <<vaultSecret, linked, secrets>>

Crash ==
  /\ Error /\ ~Idle
  /\ click' = [c \in Clicks |-> NoClick] /\ unsettled' = TRUE
  /\ UNCHANGED <<vaultSecret, hook, linked, secrets>>

\* Somebody deletes the hook in the repository's settings.
DeleteHook(h) ==
  /\ Error /\ hook[h] # 0
  /\ hook' = [hook EXCEPT ![h] = 0]
  /\ UNCHANGED <<vaultSecret, linked, click, secrets, unsettled>>

Next ==
  \/ \E c \in Clicks :
       \/ \E h \in Hooks : Connect(c, h)
       \/ Put(c) \/ ListHooks(c) \/ WriteHook(c) \/ Save(c) \/ CallFails(c)
  \/ Crash
  \/ \E h \in Hooks : DeleteHook(h)

Spec == Init /\ [][Next]_connectVars

-----------------------------------------------------------------------------
(* Properties.                                                             *)

\* The hook a repository was last linked with signs its pushes with the secret they are
\* verified with, unless a connection is being made, or the last attempts failed or
\* overlapped: connecting once more, undisturbed, heals whatever those left, hooks deleted
\* meanwhile included.  It does so for the hook of its own URL: one that was made while the
\* dashboard was reached under another name keeps the secret it had, and its pushes are
\* refused beside those that verify.
LinkedPushesVerify ==
  Idle /\ ~unsettled /\ linked # NoRepo => hook[linked] \in {0, vaultSecret}
=============================================================================
