------------------------------ MODULE MasterKey ------------------------------
(***************************************************************************)
(* The key file that every process of one installation shares: the server, *)
(* `bootstrap', `credential' and `set-password' each call LoadMasterKey    *)
(* (internal/auth/credentials.go) and seal credentials with what it        *)
(* returns.  No key is configured, so the first process makes one.         *)
(*                                                                         *)
(* The file is created, written, synced and closed in separate steps; a    *)
(* write or a sync may fail, the process may die and the machine may lose  *)
(* what was not synced.  A file that holds no whole key reads as empty.    *)
(***************************************************************************)
EXTENDS Naturals, FiniteSets

CONSTANTS
  Commands,     \* processes that may run at once
  MaxKeys,      \* bound: keys generated
  MaxKeyFaults  \* bound: failing writes and syncs, deaths, power cuts

\* What the constants are assumed to be; the MC module that instantiates them states it.
KeyBounds == {MaxKeys, MaxKeyFaults} \subseteq Nat

VARIABLES
  file,         \* the key in the key file
  synced,       \* the file would survive a power cut
  phase,        \* where each process is in LoadMasterKey
  key,          \* the key each process generated or read
  sealed,       \* keys that stored credentials are sealed with
  minted,       \* keys generated so far
  torn,         \* history: a process died, or the power went, before the key was whole
  withdrawn,    \* history: a key was removed, or lost, after another process had read it
  keyFaults     \* faults so far

disk    == <<file, synced>>
past    == <<torn, withdrawn, keyFaults>>
keyVars == <<disk, phase, key, sealed, minted, past>>

-----------------------------------------------------------------------------

Keys  == 1..MaxKeys
NoKey == 0

\* What a read of the key file finds: no file, a file without a whole key, or a key.
Absent == 0
Unfinished == MaxKeys + 1
Whole == file \in Keys

KeyPhases == {"off", "reading", "generating", "rereading", "writing", "syncing", "running"}

TypeOK ==
  /\ file \in Keys \cup {Absent, Unfinished} /\ synced \in BOOLEAN
  /\ phase \in [Commands -> KeyPhases]
  /\ key \in [Commands -> Keys \cup {NoKey}]
  /\ sealed \subseteq Keys
  /\ minted \in 0..MaxKeys
  /\ torn \in BOOLEAN /\ withdrawn \in BOOLEAN
  /\ keyFaults \in 0..MaxKeyFaults

Init ==
  /\ file = Absent /\ synced = FALSE
  /\ phase = [p \in Commands |-> "off"]
  /\ key = [p \in Commands |-> NoKey]
  /\ sealed = {} /\ minted = 0
  /\ torn = FALSE /\ withdrawn = FALSE /\ keyFaults = 0

Moves(p, from, to) == phase[p] = from /\ phase' = [phase EXCEPT ![p] = to]
KeyFault == keyFaults < MaxKeyFaults /\ keyFaults' = keyFaults + 1

-----------------------------------------------------------------------------
(* LoadMasterKey, one system call at a time.                               *)

Start(p) == Moves(p, "off", "reading") /\ UNCHANGED <<disk, key, sealed, minted, past>>

\* A key that was read is the process's own; anything but a whole key ends it (log.Fatalf).
Decode(p) ==
  /\ phase' = [phase EXCEPT ![p] = IF Whole THEN "running" ELSE "off"]
  /\ key' = [key EXCEPT ![p] = IF Whole THEN file ELSE NoKey]

\* readMasterKeyFile; only a missing file makes the process generate a key.
Read(p) ==
  /\ phase[p] = "reading"
  /\ IF file = Absent
     THEN /\ minted < MaxKeys /\ minted' = minted + 1
          /\ Moves(p, "reading", "generating")
          /\ key' = [key EXCEPT ![p] = minted + 1]
     ELSE Decode(p) /\ UNCHANGED minted
  /\ UNCHANGED <<disk, sealed, past>>

\* The file is created, or emptied, whoever made it.
CreateAlways(p) ==
  /\ file' = Unfinished /\ synced' = FALSE /\ Moves(p, "generating", "writing")
  /\ UNCHANGED <<key, sealed, minted, past>>

\* O_CREATE|O_EXCL: the loser of the race reads the file instead.
Create(p) ==
  /\ IF file = Absent
     THEN file' = Unfinished /\ synced' = FALSE /\ Moves(p, "generating", "writing")
     ELSE Moves(p, "generating", "rereading") /\ UNCHANGED disk
  /\ UNCHANGED <<key, sealed, minted, past>>

\* The winner's key, or an error when the winner has not written it yet.
Reread(p) ==
  /\ phase[p] = "rereading"
  /\ Decode(p)
  /\ UNCHANGED <<disk, sealed, minted, past>>

Write(p) ==
  /\ Moves(p, "writing", "syncing")
  /\ file' = key[p]
  /\ UNCHANGED <<synced, key, sealed, minted, past>>

\* Sync and Close.
Sync(p) ==
  /\ Moves(p, "syncing", "running")
  /\ synced' = TRUE
  /\ UNCHANGED <<file, key, sealed, minted, past>>

\* Another process has started with the key in the file.
Shared == Whole /\ \E p \in Commands : phase[p] = "running" /\ key[p] = file

\* The failure is reported and the file left as it is.
LeaveFile(p) ==
  /\ phase[p] \in {"writing", "syncing"} /\ KeyFault
  /\ phase' = [phase EXCEPT ![p] = "off"] /\ key' = [key EXCEPT ![p] = NoKey]
  /\ UNCHANGED <<disk, sealed, minted, torn, withdrawn>>

\* A write, sync or close that fails removes the file and ends the process.
RemoveFile(p) ==
  /\ phase[p] \in {"writing", "syncing"} /\ KeyFault
  /\ phase' = [phase EXCEPT ![p] = "off"] /\ key' = [key EXCEPT ![p] = NoKey]
  /\ file' = Absent /\ synced' = FALSE
  /\ withdrawn' = (withdrawn \/ Shared \/ file \in sealed)
  /\ UNCHANGED <<sealed, minted, torn>>

-----------------------------------------------------------------------------

\* CredentialStore.Put.
Seal(p) ==
  /\ phase[p] = "running"
  /\ sealed' = sealed \cup {key[p]}
  /\ UNCHANGED <<disk, phase, key, minted, past>>

\* A process ends, or is killed while the file is not whole.
Exit(p) ==
  /\ phase[p] # "off"
  /\ IF phase[p] = "running" THEN UNCHANGED past
     ELSE KeyFault /\ torn' = (torn \/ phase[p] = "writing") /\ UNCHANGED withdrawn
  /\ phase' = [phase EXCEPT ![p] = "off"] /\ key' = [key EXCEPT ![p] = NoKey]
  /\ UNCHANGED <<disk, sealed, minted>>

\* The power goes: every process with it, and what was not synced.
PowerCut ==
  /\ KeyFault
  /\ phase' = [p \in Commands |-> "off"] /\ key' = [p \in Commands |-> NoKey]
  /\ file' \in IF synced THEN {file} ELSE {file, Absent, Unfinished}
  /\ torn' = (torn \/ ~synced)
  /\ withdrawn' = (withdrawn \/ (file' # file /\ (Shared \/ file \in sealed)))
  /\ UNCHANGED <<synced, sealed, minted>>

Next ==
  \/ \E p \in Commands :
       \/ Start(p) \/ Read(p) \/ Create(p) \/ Reread(p) \/ Write(p) \/ Sync(p) \/ RemoveFile(p)
       \/ Seal(p) \/ Exit(p)
  \/ PowerCut

Spec == Init /\ [][Next]_keyVars

-----------------------------------------------------------------------------
(* Properties.                                                             *)

\* However processes start at once, a credential one of them sealed can be opened by every
\* other and by every later one, unless the key was withdrawn after it had been read.
SecretsStayReadable ==
  \/ withdrawn
  \/ /\ \A p \in Commands : phase[p] = "running" => key[p] = file
     /\ sealed \subseteq {file}

\* A key file without a whole key, which makes every start fail, is one some process is about
\* to finish: no error path leaves one behind, only a death at the wrong moment.
UnfinishedKeyHasWriter ==
  file = Unfinished => torn \/ \E p \in Commands : phase[p] = "writing"
=============================================================================
