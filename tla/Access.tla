------------------------------- MODULE Access -------------------------------
(***************************************************************************)
(* Who is let in: first-run registration and sign-in with its backoff      *)
(* (internal/auth/auth.go, the handlers of internal/server/handlers.go and *)
(* the store behind them).  The session a browser gets is left out.        *)
(*                                                                         *)
(* Requests interleave between their calls of the store; the password hash *)
(* is slow, so a request may be overtaken between the backoff check and    *)
(* the record of its failure.  All sign-ins share one backoff key.  Time   *)
(* advances in units of LockFor; the process may stop and boot again.      *)
(***************************************************************************)
EXTENDS Naturals, FiniteSets

CONSTANTS
  Browsers,    \* who talks to the server
  Informed,    \* those who hold the setup token
  Names,       \* usernames
  AdminUser,   \* auth.admin_user, the account seedAdmin writes
  LockAfter,   \* failures that lock a key (5)
  Window,      \* how long failures are counted (15 minutes)
  LockFor,     \* how long a key is locked (5 minutes)
  MaxTime,     \* bound: how far the clock goes
  MaxBoots     \* bound: restarts

\* What the constants are assumed to be; the MC module that instantiates them states it.
AccessBounds ==
  /\ Informed \subseteq Browsers /\ AdminUser \in Names /\ IsFiniteSet(Browsers)
  /\ {LockAfter, Window, LockFor} \subseteq Nat \ {0} /\ {MaxTime, MaxBoots} \subseteq Nat

VARIABLES
  accounts,    \* users
  call,        \* what each browser's request is about to do
  backoff,     \* loginFailures of the key, in memory
  now,         \* the server's clock
  boots,       \* restarts so far
  registered   \* history: browsers whose registration made an account

people     == <<accounts, registered>>
accessVars == <<people, call, backoff, now, boots>>

-----------------------------------------------------------------------------

Calls   == {"idle", "checked", "verifying", "failed", "verified"}
Fresh   == [count |-> 0, first |-> 0, lockedUntil |-> 0]

TypeOK ==
  /\ accounts \subseteq Names
  /\ call \in [Browsers -> Calls]
  /\ backoff \in [count : Nat, first : 0..MaxTime, lockedUntil : 0..MaxTime + LockFor]
  /\ now \in 0..MaxTime /\ boots \in 0..MaxBoots
  /\ registered \subseteq Browsers

Init ==
  /\ accounts \in {{}, {AdminUser}}
  /\ call = [b \in Browsers |-> "idle"]
  /\ backoff = Fresh
  /\ now = 0 /\ boots = 0
  /\ registered = {}

Goes(b, from, to) == call[b] = from /\ call' = [call EXCEPT ![b] = to]

-----------------------------------------------------------------------------
(* Registration.                                                           *)

\* handleRegister: no account yet, the right token, a valid form.
Register(b) ==
  /\ accounts = {} /\ b \in Informed
  /\ Goes(b, "idle", "checked")
  /\ UNCHANGED <<people, backoff, now, boots>>

\* CreateFirstUser as a plain insert: the check of the handler decides.
InsertUser(b) ==
  /\ \E n \in Names \ accounts : accounts' = accounts \cup {n}
  /\ registered' = registered \cup {b}
  /\ Goes(b, "checked", "idle")
  /\ UNCHANGED <<backoff, now, boots>>

\* One statement inserts the first account or none: the loser is sent to sign in.
CreateFirstUser(b) ==
  /\ Goes(b, "checked", "idle")
  /\ IF accounts = {}
     THEN registered' = registered \cup {b} /\ \E n \in Names : accounts' = {n}
     ELSE UNCHANGED people
  /\ UNCHANGED <<backoff, now, boots>>

-----------------------------------------------------------------------------
(* Sign-in.                                                                *)

\* LoginRetryAfter: a locked key is answered at once; old failures are forgotten.
SignIn(b) ==
  /\ accounts # {} /\ now >= backoff.lockedUntil
  /\ Goes(b, "idle", "verifying")
  /\ backoff' = IF now - backoff.first > Window THEN Fresh ELSE backoff
  /\ UNCHANGED <<people, now, boots>>

\* Authenticate: the username and the password are right or not.
Authenticate(b) ==
  /\ Goes(b, "verifying", "verified") \/ Goes(b, "verifying", "failed")
  /\ UNCHANGED <<people, backoff, now, boots>>

\* Only the failure that reaches the limit locks the key.
LockOnce(count) == count = LockAfter

Locks(count) == count >= LockAfter

\* RecordLoginFailure.
RecordLoginFailure(b) ==
  LET old == IF backoff.count = 0 \/ now - backoff.first > Window
             THEN [Fresh EXCEPT !.first = now] ELSE backoff
      n   == old.count + 1
  IN  /\ Goes(b, "failed", "idle")
      /\ backoff' = [old EXCEPT !.count = n,
                                !.lockedUntil = IF Locks(n) THEN now + LockFor ELSE @]
      /\ UNCHANGED <<people, now, boots>>

\* ClearLoginFailures.
ClearLoginFailures(b) ==
  /\ Goes(b, "verified", "idle")
  /\ backoff' = Fresh
  /\ UNCHANGED <<people, now, boots>>

-----------------------------------------------------------------------------

Tick == now < MaxTime /\ now' = now + 1 /\ UNCHANGED <<people, call, backoff, boots>>

\* The process restarts: requests and backoff are gone, seedAdmin writes its account if a
\* password was supplied.
Boot ==
  /\ boots < MaxBoots /\ boots' = boots + 1
  /\ accounts' \in {accounts, accounts \cup {AdminUser}}
  /\ call' = [b \in Browsers |-> "idle"] /\ backoff' = Fresh
  /\ UNCHANGED <<registered, now>>

Next ==
  \/ \E b \in Browsers :
       \/ Register(b) \/ CreateFirstUser(b)
       \/ SignIn(b) \/ Authenticate(b) \/ RecordLoginFailure(b) \/ ClearLoginFailures(b)
  \/ Tick
  \/ Boot

Spec == Init /\ [][Next]_accessVars

-----------------------------------------------------------------------------
(* Properties.                                                             *)

\* However registrations overlap, and whatever restarts and seeds in between, at most one
\* browser makes an account by registering.
OneAdministrator == Cardinality(registered) <= 1

\* The backoff bounds guessing although the check and the record are two steps: one round
\* of requests can be past the check when the key locks, and one more for each time the
\* lock has expired since.
GuessesAreBounded ==
  backoff.count <= (LockAfter - 1)
                   + Cardinality(Browsers) * (1 + (now - backoff.first) \div LockFor)
=============================================================================
