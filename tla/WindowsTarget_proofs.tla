-------------------------- MODULE WindowsTarget_proofs --------------------------
(***************************************************************************)
(* Proofs about the Windows targets, for any builds and for any bounds.    *)
(*                                                                         *)
(* The inductive invariant WInv follows the release the project owes its   *)
(* visitors through a job: it is served until the job touches what is live,*)
(* then it is in the backup or in the other slot, and after a recovery it  *)
(* is served again.  StageInv says what a job has made of the server by    *)
(* each script, SiteInv which slot the site and the marker file name, and  *)
(* PrevInv where the release before the last one is kept.                  *)
(***************************************************************************)
EXTENDS WindowsTarget, TLAPS

Deploys == {"deployIIS", "deploySlot", "deployService", "deployStatic"}
InPlace == {"deployIIS", "deployService", "deployStatic"}
Kinds   == Deploys \cup Rollbacks \cup {"recoverLive", "swapBack"}

ScriptOf(j) == Scripts[j.kind][j.at]
Length(j)   == Len(Scripts[j.kind])

\* The job is at one of the scripts.
AtAny(scripts) == job.kind # "none" /\ ScriptOf(job) \in scripts

JobInv ==
  /\ job.kind = "none" => job = Idle
  /\ job.kind # "none" => job.at \in 1..Length(job)
  /\ job.kind \in {"deployIIS", "deploySlot", "rollbackIIS", "rollbackSlot", "swapBack"} =>
       strategy = "iis"
  /\ job.kind \in {"deployService", "rollbackService"} => strategy = "service"
  /\ job.kind \in {"deployStatic", "rollbackStatic"} => strategy = "static"
  /\ job.kind \in {"deployIIS", "rollbackIIS", "recoverLive"} => ~(strategy = "iis" /\ blueGreen)
  /\ job.kind \in Slots \cup {"swapBack"} => blueGreen
  /\ job.kind \in Deploys => job.build \in Builds
  /\ job.kind \in Rollbacks \ Slots => job.build \in Builds \cup {"torn"}
  /\ job.backup # "missing"

\* What a job has made of the server when it comes to a script.
StageInv ==
  /\ AtAny({"ensure"}) => ~job.excuse
  /\ job.kind \in InPlace /\ AtAny({"ensure", "validate", "stop", "backup"}) =>
       job.backup = NoBackup
  /\ job.kind = "deployIIS" /\ ~AtAny({"ensure"}) => site = "physical"
  /\ job.kind = "rollbackIIS" => site \in Dirs
  /\ job.kind = "deploySlot" /\ ~AtAny({"ensure"}) =>
       site \in Dirs /\ dir["physical"] # "missing"
  /\ job.kind \notin Slots /\ AtAny({"install", "caddy", "start", "smoke"}) =>
       dir["physical"] = job.build
  /\ job.kind = "deployService" /\ AtAny({"start", "smoke"}) => definition = job.build
  /\ AtAny({"smoke"}) =>
       /\ job.kind # "rollbackStatic" => up
       /\ strategy = "service" => /\ loaded = [files |-> dir["physical"], settings |-> definition]
                                  /\ definition # NoRelease
  /\ job.kind = "rollbackSlot" \/ (job.kind = "deploySlot" /\ AtAny({"check", "swap", "smoke"})) =>
       /\ job.active \in Dirs /\ job.target = Inactive(job.active)
       /\ dir[job.target] = job.build
  /\ job.kind = "deploySlot" /\ AtAny({"check", "swap", "smoke"}) => previous = NoRelease
  /\ job.kind \in Slots /\ AtAny({"smoke"}) =>
       site = job.target /\ marker = job.target /\ HasFiles(job.build)
  /\ job.kind = "swapBack" => job.active \in Dirs

\* The site follows the marker until it strays from it.
SiteInv ==
  /\ strategy # "iis" => site = "physical"
  /\ site = NoDir => marker = NoDir /\ backup = NoBackup
  /\ marker \in Dirs => dir[marker] # "missing"
  /\ ~strayed => site = marker \/ (marker = NoDir /\ site \in {NoDir, "physical"})

\* The release that must be served when the job ends without an excuse.
Owed     == released # Nothing /\ ~excused /\ ~job.excuse
Settings == IF strategy = "service" THEN definition ELSE NoRelease
Kept     == dir[site] = released.files /\ released.settings = Settings

\* What never stops, or was not stopped, still serves it.
Alive == /\ strategy = "service" /\ up => loaded = released
         /\ strategy = "static" => up

ReleasedInv ==
  released # Nothing => /\ HasFiles(released.files) /\ site \in Dirs
                        /\ strategy = "service" => released.settings # NoRelease
                        /\ strategy # "service" => released.settings = NoRelease

OwedInv ==
  Owed =>
    /\ job.kind = "none" \/ AtAny({"ensure", "validate", "stop", "fill", "check", "swap"}) =>
         Serving = released /\ Kept
    /\ job.kind \in Slots /\ AtAny({"check", "swap"}) => site = job.active
    /\ AtAny({"backup"}) => Kept /\ Alive
    /\ job.kind \in InPlace /\ AtAny({"copy", "install", "caddy", "start", "smoke"}) =>
         /\ job.backup = released.files /\ backup = released.files
         /\ strategy = "static" => up
         /\ AtAny({"copy"}) => released.settings = Settings /\ Alive
    /\ AtAny({"restore", "restart"}) =>
         /\ site = "physical" /\ released.settings = Settings /\ Alive
         /\ \/ job.backup = released.files /\ AtAny({"restore"})
            \/ dir["physical"] = released.files /\ (job.backup = NoBackup \/ AtAny({"restart"}))
    /\ job.kind = "swapBack" \/ (job.kind \in Slots /\ AtAny({"smoke"})) =>
         dir[job.active] = released.files

\* Where a rollback would find the release before the last one.
Candidate ==
  IF strategy = "iis" /\ blueGreen
  THEN dir[Inactive(IF job.kind \in {"rollbackSlot", "swapBack"} THEN job.active ELSE Active)]
  ELSE backup

PrevInv ==
  previous # NoRelease /\ ~excused =>
    /\ HasFiles(previous)
    /\ ~job.excuse \/ job.kind \notin {"rollbackSlot", "swapBack"} => Candidate = previous
    /\ job.kind = "rollbackSlot" /\ AtAny({"swap"}) => job.active = Active

WInv == TypeOK /\ JobInv /\ StageInv /\ SiteInv /\ ReleasedInv /\ OwedInv /\ PrevInv

-----------------------------------------------------------------------------
(* The scripts.                                                            *)

\* The order of the scripts, and which jobs have which of them.
LEMMA ScriptOrder ==
  ASSUME NEW k \in Kinds
  PROVE  /\ Len(Scripts[k]) \in 1..7
         /\ k \in {"deployIIS", "deploySlot"} => Scripts[k][1] = "ensure"
         /\ k \in {"deployService", "deployStatic"} => Scripts[k][1] = "validate"
         /\ k \in {"rollbackIIS", "rollbackService"} => Scripts[k][1] = "stop"
         /\ k = "rollbackStatic" => Scripts[k][1] = "copy"
         /\ k = "rollbackSlot" => Scripts[k][1] = "swap"
         /\ k = "recoverLive" => Scripts[k][1] = "restore"
         /\ k = "swapBack" => Scripts[k][1] = "swapBack"
         /\ \A i \in 1..Len(Scripts[k]) :
              LET now  == Scripts[k][i]
                  next == Scripts[k][i + 1]
              IN  /\ now \notin {"smoke", "restart", "swapBack"} => i + 1 \in 1..Len(Scripts[k])
                  /\ \/ now = "ensure" /\ next = "validate" /\ k \in {"deployIIS", "deploySlot"}
                     \/ now = "validate" /\ next = "stop" /\ k \in {"deployIIS", "deployService"}
                     \/ now = "validate" /\ next = "backup" /\ k = "deployStatic"
                     \/ now = "validate" /\ next = "fill" /\ k = "deploySlot"
                     \/ now = "stop" /\ next = "backup" /\ k \in {"deployIIS", "deployService"}
                     \/ now = "stop" /\ next = "copy" /\ k \in {"rollbackIIS", "rollbackService"}
                     \/ now = "backup" /\ next = "copy" /\ k \in InPlace
                     \/ now = "copy" /\ next = "install" /\ k = "deployService"
                     \/ now = "copy" /\ next = "caddy" /\ k = "deployStatic"
                     \/ /\ now = "copy" /\ next = "start"
                        /\ k \in {"deployIIS", "rollbackIIS", "rollbackService"}
                     \/ now = "copy" /\ next = "smoke" /\ k = "rollbackStatic"
                     \/ now = "install" /\ next = "start" /\ k = "deployService"
                     \/ /\ now = "start" /\ next = "smoke"
                        /\ k \in {"deployIIS", "rollbackIIS", "deployService", "rollbackService"}
                     \/ now = "caddy" /\ next = "smoke" /\ k = "deployStatic"
                     \/ now = "fill" /\ next = "check" /\ k = "deploySlot"
                     \/ now = "check" /\ next = "swap" /\ k = "deploySlot"
                     \/ now = "swap" /\ next = "smoke" /\ k \in Slots
                     \/ now = "smoke" /\ k \in Deploys \cup Rollbacks
                     \/ now = "restore" /\ next = "restart" /\ k = "recoverLive"
                     \/ now = "restart" /\ k = "recoverLive"
                     \/ now = "swapBack" /\ k = "swapBack"
<1> USE DEF Scripts, Deploys, InPlace, Rollbacks, Slots
<1>1. CASE k = "deployIIS"
  BY <1>1
<1>2. CASE k = "rollbackIIS"
  BY <1>2
<1>3. CASE k = "deploySlot"
  BY <1>3
<1>4. CASE k = "rollbackSlot"
  BY <1>4
<1>5. CASE k = "deployService"
  BY <1>5
<1>6. CASE k = "rollbackService"
  BY <1>6
<1>7. CASE k = "deployStatic"
  BY <1>7
<1>8. CASE k = "rollbackStatic"
  BY <1>8
<1>9. CASE k = "recoverLive"
  BY <1>9
<1>10. CASE k = "swapBack"
  BY <1>10
<1>11. k \in {"deployIIS", "rollbackIIS", "deploySlot", "rollbackSlot", "deployService",
              "rollbackService", "deployStatic", "rollbackStatic", "recoverLive", "swapBack"}
  BY DEF Kinds
<1> HIDE DEF Scripts, Deploys, InPlace, Rollbacks, Slots
<1>12. QED
  BY <1>1, <1>2, <1>3, <1>4, <1>5, <1>6, <1>7, <1>8, <1>9, <1>10, <1>11

LEMMA KindsOfJobs == DOMAIN Scripts = Kinds \cup {"none"}
  BY DEF Scripts, Kinds, Deploys, Rollbacks

LEMMA IdleIsJob == /\ Idle \in Job /\ Idle.kind = "none" /\ Idle.excuse = FALSE
                   /\ Idle.backup = NoBackup /\ NoBackup # "missing" /\ NoBackup \notin Content
<1>1. "none" \in DOMAIN Scripts
  BY KindsOfJobs
<1>2. QED
  BY <1>1, WindowsAssumption DEF Idle, Job, Content, Special

-----------------------------------------------------------------------------
(* The ways a script ends.                                                 *)

\* What holds whenever a job is under way.
LEMMA Running ==
  ASSUME WInv, job.kind # "none"
  PROVE  /\ TypeOK /\ JobInv /\ StageInv /\ SiteInv /\ ReleasedInv /\ OwedInv /\ PrevInv
         /\ job \in Job /\ job.kind \in Kinds /\ job.at \in 1..Length(job)
         /\ Length(job) = Len(Scripts[job.kind]) /\ ScriptOf(job) = Scripts[job.kind][job.at]
  BY KindsOfJobs DEF WInv, TypeOK, JobInv, Job, Length, ScriptOf

\* The script is one of those its kind of job has.
LEMMA KindsOfScripts ==
  ASSUME WInv, job.kind # "none"
  PROVE  /\ ScriptOf(job) = "ensure" => job.kind \in {"deployIIS", "deploySlot"}
         /\ ScriptOf(job) = "validate" => job.kind \in Deploys
         /\ ScriptOf(job) = "stop" =>
              job.kind \in {"deployIIS", "deployService", "rollbackIIS", "rollbackService"}
         /\ ScriptOf(job) = "backup" => job.kind \in InPlace
         /\ ScriptOf(job) = "copy" => job.kind \in InPlace \cup (Rollbacks \ Slots)
         /\ ScriptOf(job) = "install" => job.kind = "deployService"
         /\ ScriptOf(job) = "start" =>
              job.kind \in {"deployIIS", "deployService", "rollbackIIS", "rollbackService"}
         /\ ScriptOf(job) = "caddy" => job.kind = "deployStatic"
         /\ ScriptOf(job) \in {"fill", "check"} => job.kind = "deploySlot"
         /\ ScriptOf(job) = "swap" => job.kind \in Slots
         /\ ScriptOf(job) = "smoke" => job.kind \in Deploys \cup Rollbacks
         /\ ScriptOf(job) \in {"restore", "restart"} => job.kind = "recoverLive"
         /\ ScriptOf(job) = "swapBack" => job.kind = "swapBack"
  BY Running, ScriptOrder DEF Deploys, InPlace, Rollbacks, Slots

\* The job goes on to its next script.
LEMMA NextScript ==
  ASSUME WInv, job.kind # "none", ScriptOf(job) \notin {"smoke", "restart", "swapBack"},
         NEW j \in Job, j.kind = job.kind, j.at = job.at, j.build = job.build,
         j.backup # "missing", job' = Advance(j), UNCHANGED <<strategy, blueGreen>>
  PROVE  /\ job' \in Job /\ job'.kind = job.kind /\ job'.build = j.build
         /\ job'.backup = j.backup /\ job'.active = j.active /\ job'.target = j.target
         /\ job'.excuse = j.excuse
         /\ ScriptOf(job') = Scripts[job.kind][job.at + 1]
         /\ JobInv'
<1>1. job.at + 1 \in 1..Length(job) /\ Length(job) \in 1..7
  <2>1. /\ job.kind \in Kinds /\ job.at \in 1..Len(Scripts[job.kind])
        /\ Length(job) = Len(Scripts[job.kind])
        /\ Scripts[job.kind][job.at] \notin {"smoke", "restart", "swapBack"}
    BY Running
  <2>2. Len(Scripts[job.kind]) \in 1..7 /\ job.at + 1 \in 1..Len(Scripts[job.kind])
    BY <2>1, ScriptOrder
  <2>3. QED
    BY <2>1, <2>2
<1>2. /\ job'.kind = job.kind /\ job'.at = job.at + 1 /\ job'.build = j.build
      /\ job'.backup = j.backup /\ job'.active = j.active /\ job'.target = j.target
      /\ job'.excuse = j.excuse
  BY DEF Advance, Job
<1>3. job' \in Job
  BY <1>1 DEF Advance, Job
<1>4. ScriptOf(job') = Scripts[job.kind][job.at + 1] /\ Length(job') = Length(job)
  BY <1>2 DEF ScriptOf, Length
<1>5. JobInv'
  BY <1>1, <1>2, <1>4, Running DEF JobInv
<1>6. QED
  BY <1>2, <1>3, <1>4, <1>5

\* The script after each script.
LEMMA NextScripts ==
  ASSUME WInv, job.kind # "none"
  PROVE  LET next == Scripts[job.kind][job.at + 1]
         IN  /\ ScriptOf(job) = "ensure" => next = "validate"
             /\ ScriptOf(job) = "validate" =>
                  \/ next = "stop" /\ job.kind \in {"deployIIS", "deployService"}
                  \/ next = "backup" /\ job.kind = "deployStatic"
                  \/ next = "fill" /\ job.kind = "deploySlot"
             /\ ScriptOf(job) = "stop" =>
                  \/ next = "backup" /\ job.kind \in {"deployIIS", "deployService"}
                  \/ next = "copy" /\ job.kind \in {"rollbackIIS", "rollbackService"}
             /\ ScriptOf(job) = "backup" => next = "copy"
             /\ ScriptOf(job) = "copy" =>
                  \/ next = "install" /\ job.kind = "deployService"
                  \/ next = "caddy" /\ job.kind = "deployStatic"
                  \/ next = "start" /\ job.kind \in {"deployIIS", "rollbackIIS", "rollbackService"}
                  \/ next = "smoke" /\ job.kind = "rollbackStatic"
             /\ ScriptOf(job) = "install" => next = "start"
             /\ ScriptOf(job) = "start" => next = "smoke"
             /\ ScriptOf(job) = "caddy" => next = "smoke"
             /\ ScriptOf(job) = "fill" => next = "check"
             /\ ScriptOf(job) = "check" => next = "swap"
             /\ ScriptOf(job) = "swap" => next = "smoke"
             /\ ScriptOf(job) = "restore" => next = "restart"
  BY Running, ScriptOrder

\* The job goes on with the recovery of its kind.
LEMMA RecoveryScript ==
  ASSUME WInv, job.kind \in Deploys \cup Rollbacks,
         NEW j \in Job, j.kind = job.kind, j.backup # "missing", job' = Recover(j),
         UNCHANGED <<strategy, blueGreen>>
  PROVE  /\ job' \in Job
         /\ job.kind \in Slots => job'.kind = "swapBack" /\ ScriptOf(job') = "swapBack"
         /\ job.kind \notin Slots => job'.kind = "recoverLive" /\ ScriptOf(job') = "restore"
         /\ job'.backup = j.backup /\ job'.active = j.active /\ job'.target = j.target
         /\ job'.excuse = j.excuse
         /\ JobInv'
<1>1. \E k \in Kinds : /\ k = IF job.kind \in Slots THEN "swapBack" ELSE "recoverLive"
                       /\ job' = [j EXCEPT !.kind = k, !.at = 1]
  BY DEF Recover, Kinds
<1>2. PICK k \in Kinds : /\ k = IF job.kind \in Slots THEN "swapBack" ELSE "recoverLive"
                         /\ job' = [j EXCEPT !.kind = k, !.at = 1]
  BY <1>1
<1>3. job' \in Job
  <2> DEFINE j1 == [j EXCEPT !.kind = k]
  <2>1. j1 \in Job
    BY <1>2, KindsOfJobs DEF Job
  <2>2. [j1 EXCEPT !.at = 1] \in Job
    <3> HIDE DEF j1
    <3> QED  BY <2>1 DEF Job
  <2>3. QED
    BY <1>2, <2>2
<1>4. /\ job'.kind = k /\ job'.at = 1 /\ job'.backup = j.backup /\ job'.active = j.active
      /\ job'.target = j.target /\ job'.excuse = j.excuse
  BY <1>2 DEF Job
<1>5. ScriptOf(job') = Scripts[k][1] /\ 1 \in 1..Length(job')
  <2>1. Len(Scripts[k]) \in 1..7
    BY ScriptOrder
  <2>2. QED
    <3>1. ScriptOf(job') = Scripts[k][1] /\ Length(job') = Len(Scripts[k])
      BY <1>4 DEF ScriptOf, Length
    <3>2. QED
      BY <2>1, <3>1
<1>6. JobInv'
  BY <1>2, <1>4, <1>5 DEF WInv, JobInv, Deploys, Rollbacks, Slots
<1>7. QED
  BY <1>2, <1>3, <1>4, <1>5, <1>6, ScriptOrder DEF Slots

\* A job has a first script.
LEMMA FirstScript ==
  ASSUME NEW k \in Kinds, NEW j \in Job, j.kind = k
  PROVE  1 \in 1..Length(j)
<1>1. PICK n \in 1..7 : n = Len(Scripts[k])
  BY ScriptOrder
<1>2. Length(j) = n
  BY <1>1 DEF Length
<1>3. QED
  BY <1>2

LEMMA FailureCount ==
  ASSUME TypeOK, Works \/ Breaks \/ UNCHANGED failures
  PROVE  failures' \in 0..MaxFailures
  BY WindowsAssumption DEF TypeOK, Works, Breaks

\* TypeOK without the job and the history.
ServerOK ==
  /\ strategy   \in Strategies
  /\ blueGreen  \in BOOLEAN
  /\ dir        \in [Dirs -> Content]
  /\ site       \in Dirs \cup {NoDir}
  /\ marker     \in Dirs \cup {NoDir}
  /\ up         \in BOOLEAN
  /\ definition \in Builds \cup {NoRelease}
  /\ loaded     \in Release
  /\ backup     \in Builds \cup {"torn", NoBackup}
  /\ jobs       \in 0..MaxJobs
  /\ failures   \in 0..MaxFailures

HistoryOK ==
  /\ released   \in Release
  /\ previous   \in Content \cup {NoRelease}
  /\ strayed    \in BOOLEAN
  /\ excused    \in BOOLEAN

LEMMA TypeParts == TypeOK <=> ServerOK /\ HistoryOK /\ job \in Job
  BY DEF TypeOK, ServerOK, HistoryOK

\* The job ends without success: what it owed is served, or it is excused.
LEMMA ReturnKeeps ==
  ASSUME WInv, job.kind # "none", ServerOK', HistoryOK', NEW e \in BOOLEAN,
         job' = Idle, excused' = (excused \/ e), UNCHANGED <<strategy, blueGreen, released>>,
         SiteInv', site \in Dirs => site' \in Dirs,
         released # Nothing /\ ~excused /\ ~e => Serving' = released /\ Kept',
         previous' # NoRelease /\ ~excused /\ ~e =>
           /\ HasFiles(previous')
           /\ IF strategy = "iis" /\ blueGreen THEN dir'[Inactive(Active')] = previous'
                                               ELSE backup' = previous'
  PROVE  WInv'
<1>1. job'.kind = "none" /\ job' \in Job
  BY IdleIsJob
<1>2. TypeOK'
  BY <1>1 DEF TypeOK, ServerOK, HistoryOK
<1>3. JobInv'
  BY <1>1, IdleIsJob DEF JobInv, Deploys, Rollbacks, Slots
<1>4. StageInv'
  BY <1>1 DEF StageInv, AtAny, InPlace, Slots
<1>5. ReleasedInv'
  BY Running DEF ReleasedInv
<1>6. OwedInv'
  BY <1>1 DEF OwedInv, Owed, AtAny, Slots, InPlace
<1>7. PrevInv'
  BY <1>1 DEF PrevInv, Candidate, AtAny
<1>8. QED
  BY <1>2, <1>3, <1>4, <1>5, <1>6, <1>7 DEF WInv

LEMMA SiteKeeps ==
  ASSUME WInv, UNCHANGED <<strategy, site, marker, strayed>>,
         marker \in Dirs => dir'[marker] # "missing", site = NoDir => backup' = backup
  PROVE  SiteInv'
  BY DEF WInv, SiteInv

\* A job in place gives up and recovers what is live: the release it owes is in
\* its backup, or in the live directory when it has none.
LEMMA RecoverLiveKeeps ==
  ASSUME WInv, job.kind \in (Deploys \cup Rollbacks) \ Slots, ServerOK', HistoryOK',
         NEW j \in Job, j.kind = job.kind, j.backup # "missing", job' = Recover(j),
         UNCHANGED <<strategy, blueGreen, released, site, excused>>, SiteInv',
         released # Nothing /\ ~excused /\ ~j.excuse =>
           /\ site = "physical" /\ released.settings = Settings' /\ Alive'
           /\ \/ j.backup = released.files
              \/ dir'["physical"] = released.files /\ j.backup = NoBackup,
         previous' \in {previous, NoRelease}, backup' = backup \/ previous' = NoRelease
  PROVE  WInv'
<1>1. /\ job' \in Job /\ job'.kind = "recoverLive" /\ ScriptOf(job') = "restore"
      /\ job'.backup = j.backup /\ job'.excuse = j.excuse /\ JobInv'
  BY RecoveryScript
<1>0. job.kind # "none"
  BY DEF Deploys, Rollbacks
<1>2. TypeOK'
  BY <1>1 DEF TypeOK, ServerOK, HistoryOK
<1>3. StageInv'
  BY <1>1 DEF StageInv, AtAny, InPlace, Slots
<1>5. ReleasedInv'
  BY <1>0, Running DEF ReleasedInv
<1>6. OwedInv'
  BY <1>1 DEF OwedInv, Owed, AtAny, Slots, InPlace
<1>7. PrevInv'
  <2>1. ~(strategy = "iis" /\ blueGreen)
    BY <1>0, Running DEF JobInv, Deploys, Rollbacks, Slots
  <2>2. QED
    BY <1>0, <1>1, <2>1, Running DEF PrevInv, Candidate, AtAny, Slots, Deploys, Rollbacks
<1>8. QED
  BY <1>1, <1>2, <1>3, <1>5, <1>6, <1>7 DEF WInv

-----------------------------------------------------------------------------
(* A job begins.                                                           *)

LEMMA InitWInv == Init => WInv
<1> SUFFICES ASSUME Init
             PROVE  WInv
  OBVIOUS
<1>1. job.kind = "none" /\ job = Idle
  BY IdleIsJob DEF Init
<1>2. TypeOK
  <2>1. dir \in [Dirs -> Content] /\ loaded \in Release /\ released \in Release
    BY DEF Init, Nothing, Release, Content, Special
  <2>2. jobs \in 0..MaxJobs /\ failures \in 0..MaxFailures
    BY WindowsAssumption DEF Init
  <2>3. QED
    BY <2>1, <2>2, IdleIsJob DEF Init, TypeOK, Dirs
<1>3. JobInv
  BY <1>1, IdleIsJob DEF JobInv, Deploys, Rollbacks, Slots
<1>4. StageInv
  BY <1>1 DEF StageInv, AtAny, InPlace, Slots
<1>5. SiteInv
  BY WindowsAssumption DEF Init, SiteInv, Dirs
<1>6. ReleasedInv /\ OwedInv /\ PrevInv
  BY <1>1 DEF Init, ReleasedInv, OwedInv, Owed, PrevInv
<1>7. QED
  BY <1>2, <1>3, <1>4, <1>5, <1>6 DEF WInv

\* A job begins with a script that finds everything as the last one left it.
LEMMA BeginKeeps ==
  ASSUME WInv, NEW new \in Job, Begin(new), new.kind \in Kinds, new.at = 1,
         new.kind \in Deploys \cup {"rollbackIIS", "rollbackSlot", "rollbackService",
                                    "rollbackStatic"},
         JobInv',
         new.kind \in InPlace => new.backup = NoBackup,
         new.kind \in Deploys => ~new.excuse,
         new.kind = "rollbackIIS" => backup # NoBackup,
         new.kind = "rollbackSlot" =>
           /\ Active \in Dirs /\ new.active = Active /\ new.target = Inactive(Active)
           /\ new.build = dir[Inactive(Active)]
           /\ ~new.excuse => site = Active
  PROVE  WInv'
<1>1. /\ job.kind = "none" /\ job' = new /\ job.excuse = FALSE
      /\ UNCHANGED <<strategy, blueGreen, dir, site, marker, up, definition, loaded, backup>>
      /\ UNCHANGED <<released, previous, strayed, excused, failures>>
  BY IdleIsJob DEF Begin, server, history
<1>2. ScriptOf(new) = Scripts[new.kind][1]
  BY DEF ScriptOf
<1>3. /\ new.kind \in {"deployIIS", "deploySlot"} => ScriptOf(new) = "ensure"
      /\ new.kind \in {"deployService", "deployStatic"} => ScriptOf(new) = "validate"
      /\ new.kind \in {"rollbackIIS", "rollbackService"} => ScriptOf(new) = "stop"
      /\ new.kind = "rollbackSlot" => ScriptOf(new) = "swap"
      /\ new.kind = "rollbackStatic" => ScriptOf(new) = "copy"
  BY <1>2, ScriptOrder
<1>4. TypeOK'
  BY <1>1, WindowsAssumption DEF WInv, TypeOK, Begin
<1>5. StageInv'
  <2>1. new.kind = "rollbackIIS" => site \in Dirs
    BY DEF WInv, TypeOK, SiteInv
  <2>2. QED
    BY <1>1, <1>3, <2>1 DEF StageInv, AtAny, InPlace, Slots, Deploys
<1>6. SiteInv'
  BY <1>1 DEF WInv, SiteInv
<1>7. ReleasedInv'
  BY <1>1 DEF WInv, ReleasedInv
<1>8. OwedInv'
  <2> SUFFICES ASSUME Owed'
               PROVE  OwedInv'
    BY DEF OwedInv
  <2>1. Serving = released /\ Kept
    BY <1>1 DEF WInv, OwedInv, Owed
  <2>2. Serving' = released' /\ Kept'
    BY <1>1, <2>1 DEF Serving, Kept, Settings
  <2>3. QED
    BY <1>1, <1>3, <2>2 DEF OwedInv, Owed, AtAny, InPlace, Slots, Deploys
<1>9. PrevInv'
  <2>1. Active' = Active
    BY <1>1 DEF Active
  <2>2. Candidate = IF strategy = "iis" /\ blueGreen THEN dir[Inactive(Active)] ELSE backup
    BY <1>1 DEF Candidate
  <2>3. Candidate' = Candidate
    BY <1>1, <2>1, <2>2 DEF Candidate, Deploys
  <2>4. QED
    BY <1>1, <2>1, <2>3 DEF WInv, PrevInv
<1>10. QED
  BY <1>4, <1>5, <1>6, <1>7, <1>8, <1>9 DEF WInv

LEMMA StartDeployKeeps ==
  ASSUME WInv, NEW b \in Builds, StartDeploy(b)
  PROVE  WInv'
<1>1. PICK k \in Deploys : /\ Begin([Idle EXCEPT !.build = b, !.kind = k])
                           /\ k \in {"deployIIS", "deploySlot"} => strategy = "iis"
                           /\ k = "deployService" => strategy = "service"
                           /\ k = "deployStatic" => strategy = "static"
                           /\ k = "deployIIS" => ~blueGreen
                           /\ k = "deploySlot" => blueGreen
  <2>1. strategy \in {"iis", "service", "static"}
    BY WindowsAssumption DEF WInv, TypeOK
  <2>2. CASE strategy = "iis" /\ blueGreen
    BY <2>2 DEF StartDeploy, Deploys
  <2>3. CASE strategy = "iis" /\ ~blueGreen
    BY <2>3 DEF StartDeploy, Deploys
  <2>4. CASE strategy = "service"
    BY <2>4 DEF StartDeploy, Deploys
  <2>5. CASE strategy = "static"
    BY <2>5 DEF StartDeploy, Deploys
  <2>6. QED
    BY <2>1, <2>2, <2>3, <2>4, <2>5
<1> DEFINE new == [Idle EXCEPT !.build = b, !.kind = k]
<1>2. /\ new \in Job /\ new.build = b /\ new.kind = k /\ new.at = 1 /\ new.backup = NoBackup
      /\ new.excuse = FALSE /\ new.backup # "missing"
  BY IdleIsJob, KindsOfJobs DEF Idle, Job, Kinds, Content
<1>3. job' = new /\ UNCHANGED <<strategy, blueGreen>>
  BY <1>1 DEF Begin
<1> HIDE DEF new
<1>4. JobInv'
  <2>1. 1 \in 1..Length(new)
    BY <1>2, FirstScript DEF Kinds
  <2>2. QED
    BY <1>1, <1>2, <1>3, <2>1 DEF JobInv, Deploys, Rollbacks, Slots
<1>5. Begin(new) /\ new.kind \in Kinds /\ new.kind \notin {"rollbackSlot", "rollbackIIS"}
  BY <1>1, <1>2 DEF new, Kinds, Deploys
<1>6. QED
  BY <1>2, <1>4, <1>5, BeginKeeps

LEMMA RollbackToBackupKeeps ==
  ASSUME WInv, RollbackToBackup
  PROVE  WInv'
<1> DEFINE New(k) == [Idle EXCEPT !.build = backup, !.backup = backup, !.kind = k]
<1>1. PICK k \in Rollbacks \ Slots :
        /\ Begin(New(k))
        /\ k = "rollbackIIS" => strategy = "iis"
        /\ k = "rollbackService" => strategy = "service"
        /\ k = "rollbackStatic" => strategy = "static"
  <2>1. strategy \in {"iis", "service", "static"}
    BY WindowsAssumption DEF WInv, TypeOK
  <2>2. CASE strategy = "iis"
    <3>1. Begin(New("rollbackIIS"))
      BY <2>2 DEF RollbackToBackup
    <3>2. "rollbackIIS" \in Rollbacks \ Slots
      BY DEF Rollbacks, Slots
    <3>3. QED
      <4> HIDE DEF New
      <4> QED  BY <2>2, <3>1, <3>2
  <2>3. CASE strategy = "service"
    <3>1. Begin(New("rollbackService"))
      BY <2>3 DEF RollbackToBackup
    <3>2. "rollbackService" \in Rollbacks \ Slots
      BY DEF Rollbacks, Slots
    <3>3. QED
      <4> HIDE DEF New
      <4> QED  BY <2>3, <3>1, <3>2
  <2>4. CASE strategy = "static"
    <3>1. Begin(New("rollbackStatic"))
      BY <2>4 DEF RollbackToBackup
    <3>2. "rollbackStatic" \in Rollbacks \ Slots
      BY DEF Rollbacks, Slots
    <3>3. QED
      <4> HIDE DEF New
      <4> QED  BY <2>4, <3>1, <3>2
  <2>5. QED
    BY <2>1, <2>2, <2>3, <2>4
<1> DEFINE new == New(k)
<1>2. /\ backup \in Builds \cup {"torn"} /\ backup \in Content /\ backup # "missing"
      /\ ~(strategy = "iis" /\ blueGreen) /\ backup # NoBackup
  BY WindowsAssumption DEF WInv, TypeOK, RollbackToBackup, Content, Special
<1>3. new \in Job /\ new.build = backup /\ new.backup = backup /\ new.kind = k /\ new.at = 1
  <2>1. PICK c \in Content : c = backup
    BY <1>2
  <2>2. [Idle EXCEPT !.build = c] \in Job
    BY IdleIsJob DEF Job
  <2>3. [[Idle EXCEPT !.build = c] EXCEPT !.backup = c] \in Job
    BY <2>2 DEF Job
  <2>4. [[[Idle EXCEPT !.build = c] EXCEPT !.backup = c] EXCEPT !.kind = k] \in Job
    BY <2>3, KindsOfJobs DEF Job, Kinds
  <2>5. QED
    BY <2>1, <2>4 DEF Idle
<1>4. job' = new /\ UNCHANGED <<strategy, blueGreen>>
  BY <1>1 DEF Begin
<1> HIDE DEF new
<1>5. JobInv'
  <2>1. 1 \in 1..Length(new)
    BY <1>3, FirstScript DEF Kinds
  <2>2. QED
    BY <1>1, <1>2, <1>3, <1>4, <2>1 DEF JobInv, Deploys, Rollbacks, Slots
<1>6. /\ Begin(new) /\ new.kind \in Kinds /\ new.kind # "rollbackSlot"
      /\ new.kind \notin InPlace /\ new.kind \notin Deploys
  BY <1>1, <1>3 DEF new, Kinds, Rollbacks, Slots, InPlace, Deploys
<1>7. new.kind \in {"rollbackIIS", "rollbackSlot", "rollbackService", "rollbackStatic"}
  BY <1>3 DEF Rollbacks
<1>8. QED
  BY <1>2, <1>3, <1>5, <1>6, <1>7, BeginKeeps

LEMMA RollbackToSlotKeeps ==
  ASSUME WInv, RollbackToSlot
  PROVE  WInv'
<1>1. PICK a \in Dirs : a = Active
  BY DEF RollbackToSlot, Active, Dirs
<1>2. PICK t \in Dirs : t = Inactive(a)
  BY DEF Inactive, Dirs
<1>3. PICK c \in Content : c = dir[t]
  BY DEF WInv, TypeOK
<1>4. PICK e \in BOOLEAN : e = (site # a)
  OBVIOUS
<1> DEFINE new == [Idle EXCEPT !.kind = "rollbackSlot", !.build = c, !.active = a,
                               !.target = t, !.excuse = e]
<1>5. Begin(new)
  BY <1>1, <1>2, <1>3, <1>4 DEF RollbackToSlot
<1>6. /\ new \in Job /\ new.build = c /\ new.kind = "rollbackSlot" /\ new.at = 1
      /\ new.active = a /\ new.target = t /\ new.excuse = e /\ new.backup # "missing"
  <2>1. [Idle EXCEPT !.build = c] \in Job
    BY IdleIsJob DEF Job
  <2>2. [[Idle EXCEPT !.build = c] EXCEPT !.active = a, !.target = t] \in Job
    BY <2>1 DEF Job
  <2>3. [[[Idle EXCEPT !.build = c] EXCEPT !.active = a, !.target = t] EXCEPT !.excuse = e] \in Job
    BY <2>2 DEF Job
  <2>4. [[[[Idle EXCEPT !.build = c] EXCEPT !.active = a, !.target = t]
            EXCEPT !.excuse = e] EXCEPT !.kind = "rollbackSlot"] \in Job
    BY <2>3, KindsOfJobs DEF Job, Kinds, Rollbacks
  <2>5. QED
    BY <2>4, IdleIsJob DEF Idle
<1>7. job' = new /\ UNCHANGED <<strategy, blueGreen>>
  BY <1>5 DEF Begin
<1> HIDE DEF new
<1>8. JobInv'
  <2>1. 1 \in 1..Length(new)
    BY <1>6, FirstScript DEF Kinds, Rollbacks
  <2>2. QED
    BY <1>6, <1>7, <2>1 DEF JobInv, Deploys, Rollbacks, Slots, RollbackToSlot
<1>9. new.kind \in Kinds /\ new.kind \notin InPlace /\ new.kind \notin Deploys
  BY <1>6 DEF Kinds, Rollbacks, InPlace, Deploys
<1>10. ~new.excuse => site = Active
  BY <1>1, <1>4, <1>6
<1>11. QED
  BY <1>1, <1>2, <1>3, <1>5, <1>6, <1>8, <1>9, <1>10, BeginKeeps

LEMMA SwitchKeeps ==
  ASSUME WInv, SwitchBlueGreen
  PROVE  WInv'
<1>1. job.kind = "none" /\ UNCHANGED <<strategy, job, released, strayed, excused, jobs, failures>>
      /\ UNCHANGED <<dir, site, marker, up, definition, loaded, backup>> /\ job = Idle
      /\ previous' = NoRelease /\ blueGreen' \in BOOLEAN
  BY IdleIsJob DEF SwitchBlueGreen, server
<1>2. TypeOK'
  BY <1>1 DEF WInv, TypeOK
<1>3. JobInv' /\ StageInv'
  BY <1>1, IdleIsJob DEF JobInv, StageInv, AtAny, Deploys, InPlace, Rollbacks, Slots
<1>4. SiteInv' /\ ReleasedInv'
  BY <1>1 DEF WInv, SiteInv, ReleasedInv
<1>5. OwedInv'
  BY <1>1 DEF WInv, OwedInv, Owed, AtAny, Slots, InPlace, Serving, Kept, Settings
<1>6. PrevInv'
  BY <1>1 DEF PrevInv
<1>7. QED
  BY <1>2, <1>3, <1>4, <1>5, <1>6 DEF WInv

-----------------------------------------------------------------------------
(* Deployments and rollbacks in place.                                     *)

\* A script succeeds and the job goes on, possibly with other notes.
LEMMA ProceedKeeps ==
  ASSUME WInv, job.kind # "none", ScriptOf(job) \notin {"smoke", "restart", "swapBack"},
         NEW j \in Job, j.kind = job.kind, j.at = job.at, j.build = job.build,
         j.backup # "missing", job' = Advance(j),
         UNCHANGED <<strategy, blueGreen, released>>, ServerOK', HistoryOK',
         site \in Dirs => site' \in Dirs, StageInv', SiteInv', OwedInv', PrevInv'
  PROVE  WInv'
<1>1. job' \in Job /\ JobInv'
  BY NextScript
<1>2. TypeOK'
  BY <1>1 DEF TypeOK, ServerOK, HistoryOK
<1>3. ReleasedInv'
  BY Running DEF ReleasedInv
<1>4. QED
  BY <1>1, <1>2, <1>3 DEF WInv

\* The part of the invariant that a script finds about the released versions.
LEMMA HistoryFrame ==
  ASSUME WInv, UNCHANGED <<released, strayed, excused>>, previous' \in {previous, NoRelease}
  PROVE  HistoryOK'
  BY DEF WInv, TypeOK, HistoryOK

\* In place, a rollback finds the release before the last one in the newest backup.
LEMMA InPlacePrevious ==
  ASSUME WInv, job.kind \in Kinds \ (Slots \cup {"swapBack"}),
         job'.kind \notin {"rollbackSlot", "swapBack"},
         UNCHANGED <<strategy, blueGreen, backup, previous, excused>>
  PROVE  PrevInv'
<1>1. ~(strategy = "iis" /\ blueGreen)
  BY DEF WInv, JobInv, Kinds, Deploys, Rollbacks, Slots
<1>2. QED
  BY <1>1 DEF WInv, PrevInv, Candidate, AtAny, Slots

\* A script breaks: the job in place gives up, unless its failure is excused it
\* still has what it owes.
LEMMA GiveUpKeeps ==
  ASSUME WInv, job.kind \in (Deploys \cup Rollbacks) \ Slots, NEW script,
         job' = Recover(Excuse(job, script)), ServerOK', HistoryOK', SiteInv',
         UNCHANGED <<strategy, blueGreen, released, site, excused>>,
         Owed /\ job.kind \in InPlace
              /\ ~(job.kind = "deployService" /\ script \in {"install", "start", "smoke"}) =>
           /\ site = "physical" /\ released.settings = Settings' /\ Alive'
           /\ \/ job.backup = released.files
              \/ dir'["physical"] = released.files /\ job.backup = NoBackup,
         previous' \in {previous, NoRelease}, backup' = backup \/ previous' = NoRelease
  PROVE  WInv'
<1>1. job \in Job /\ job.backup # "missing"
  BY DEF WInv, TypeOK, JobInv
<1>2. PICK e \in BOOLEAN : e = (Excuse(job, script).excuse)
  BY <1>1 DEF Excuse, Job
<1>3. /\ Excuse(job, script) = [job EXCEPT !.excuse = e]
      /\ ~e => /\ ~job.excuse /\ job.kind \notin Rollbacks \ Slots
               /\ ~(job.kind = "deployService" /\ script \in {"install", "start", "smoke"})
  BY <1>1, <1>2 DEF Excuse, Job
<1> DEFINE j == [job EXCEPT !.excuse = e]
<1>4. j \in Job /\ j.kind = job.kind /\ j.backup = job.backup /\ j.excuse = e
  BY <1>1 DEF Job
<1>5. job' = Recover(j)
  BY <1>3
<1> HIDE DEF j
<1>6. ~e => job.kind \in InPlace
  BY <1>3 DEF Deploys, InPlace, Slots
<1>7. QED
  BY <1>1, <1>3, <1>4, <1>5, <1>6, RecoverLiveKeeps DEF Owed

LEMMA EnsureSiteKeeps ==
  ASSUME WInv, EnsureSite
  PROVE  WInv'
<1> DEFINE repoints == site \in Dirs /\ site' # site
           made     == [dir EXCEPT !["physical"] = IF @ = "missing" THEN "empty" ELSE @]
           pointed  == IF site = NoDir \/ job.kind = "deployIIS" THEN "physical" ELSE site
           new      == [job EXCEPT !.excuse = repoints]
<1>1. /\ job.kind # "none" /\ ScriptOf(job) = "ensure" /\ job.kind \in {"deployIIS", "deploySlot"}
      /\ Scripts[job.kind][job.at + 1] = "validate" /\ strategy = "iis"
  <2>1. job.kind # "none" /\ ScriptOf(job) = "ensure"
    BY DEF EnsureSite, At, ScriptOf
  <2>2. job.kind \in {"deployIIS", "deploySlot"} /\ Scripts[job.kind][job.at + 1] = "validate"
    BY <2>1, KindsOfScripts, NextScripts
  <2>3. QED
    BY <2>1, <2>2 DEF WInv, JobInv
<1>2. /\ dir' \in {dir, made} /\ site' \in {site, pointed} /\ up' \in {up, up \/ site = NoDir}
      /\ UNCHANGED <<strategy, blueGreen, marker, definition, loaded, backup>>
      /\ UNCHANGED <<released, previous, jobs>>
      /\ strayed' = (strayed \/ repoints) /\ failures' \in 0..MaxFailures
  BY FailureCount DEF EnsureSite, WInv
<1>3. (ServerOK' /\ HistoryOK') \/ ~(excused' \in BOOLEAN)
  <2>1. made \in [Dirs -> Content]
    BY DEF WInv, TypeOK, Content, Special
  <2>2. site' \in Dirs \cup {NoDir} /\ strayed' \in BOOLEAN /\ up' \in BOOLEAN
    BY <1>2 DEF WInv, TypeOK, Dirs
  <2> HIDE DEF made, pointed, repoints, new
  <2>3. QED
    BY <1>2, <2>1, <2>2 DEF WInv, TypeOK, ServerOK, HistoryOK
<1>4. SiteInv'
  <2>1. site' = NoDir => marker' = NoDir /\ backup' = NoBackup
    BY <1>2, WindowsAssumption DEF WInv, TypeOK, SiteInv, Dirs
  <2>2. marker' \in Dirs => dir'[marker'] # "missing"
    BY <1>2 DEF WInv, TypeOK, SiteInv, Dirs
  <2>3. ~strayed' => site' = marker' \/ (marker' = NoDir /\ site' \in {NoDir, "physical"})
    <3>1. CASE site = NoDir
      BY <1>2, <3>1 DEF WInv, SiteInv
    <3>2. CASE site \in Dirs
      BY <1>2, <3>2 DEF WInv, SiteInv
    <3>3. QED
      BY <3>1, <3>2 DEF WInv, TypeOK
  <2> HIDE DEF made, pointed, repoints
  <2>4. QED
    BY <1>1, <1>2, <2>1, <2>2, <2>3 DEF SiteInv
<1>5. ASSUME released # Nothing, ~excused, ~repoints
      PROVE  Serving' = released /\ Kept' /\ Serving = released
  <2>1. Serving = released /\ Kept /\ site \in Dirs /\ HasFiles(released.files)
    <3>1. ~job.excuse /\ AtAny({"ensure"})
      BY <1>1 DEF WInv, StageInv, AtAny
    <3>2. QED
      BY <1>5, <3>1 DEF WInv, OwedInv, Owed, ReleasedInv, AtAny
  <2>2. site' = site /\ dir'[site] = dir[site]
    BY <1>2, <1>5, <2>1 DEF WInv, TypeOK, Kept, HasFiles
  <2>3. up' = up
    BY <1>2, <2>1, WindowsAssumption DEF WInv, TypeOK, Dirs
  <2>4. QED
    BY <1>2, <2>1, <2>2, <2>3 DEF Serving, Kept, Settings
<1>6. ASSUME previous # NoRelease, ~excused
      PROVE  /\ HasFiles(previous)
             /\ IF strategy = "iis" /\ blueGreen THEN dir'[Inactive(Active')] = previous
                                                 ELSE backup = previous
  <2>1. /\ HasFiles(previous)
        /\ IF strategy = "iis" /\ blueGreen THEN dir[Inactive(Active)] = previous
                                            ELSE backup = previous
    BY <1>1, <1>6 DEF WInv, PrevInv, Candidate
  <2>2. CASE strategy = "iis" /\ blueGreen
    <3>1. dir["physical"] # "missing"
      <4>1. CASE marker = "physical"
        BY <4>1 DEF WInv, SiteInv, Dirs
      <4>2. CASE marker = "blue"
        BY <2>1, <2>2, <4>2 DEF WInv, SiteInv, Active, Inactive, Dirs, HasFiles
      <4>3. CASE marker = NoDir
        BY <2>1, <2>2, <4>3, WindowsAssumption DEF Active, Inactive, Dirs, HasFiles
      <4>4. QED
        BY <4>1, <4>2, <4>3 DEF WInv, TypeOK, Dirs
    <3>2. dir' = dir
      BY <1>2, <3>1 DEF WInv, TypeOK
    <3>3. QED
      BY <1>2, <2>1, <2>2, <3>2 DEF Active
  <2>3. QED
    BY <2>1, <2>2
<1>7. PICK e \in BOOLEAN : e = repoints
  OBVIOUS
<1>8. CASE Works /\ dir' = made /\ site' = pointed /\ job' = Advance(new) /\ UNCHANGED excused
  <2>1. /\ new \in Job /\ new.kind = job.kind /\ new.at = job.at /\ new.build = job.build
        /\ new.backup = job.backup /\ new.excuse = e
    BY <1>7 DEF WInv, TypeOK, Job
  <2>2. job.backup # "missing"
    BY DEF WInv, JobInv
  <2>3. /\ job'.kind = job.kind /\ job'.backup = job.backup /\ job'.excuse = e
        /\ ScriptOf(job') = "validate" /\ JobInv' /\ job' \in Job
    <3> HIDE DEF new
    <3> QED  BY <1>1, <1>2, <1>8, <2>1, <2>2, NextScript
  <2>4. ServerOK' /\ HistoryOK'
    BY <1>3, <1>8 DEF WInv, TypeOK
  <2>5. site' \in Dirs /\ dir'["physical"] # "missing"
    BY <1>8 DEF WInv, TypeOK, Dirs
  <2>6. StageInv'
    <3>1. job.kind = "deployIIS" => job.backup = NoBackup /\ site' = "physical"
      BY <1>1, <1>8 DEF WInv, StageInv, AtAny, InPlace
    <3>2. QED
      BY <1>1, <2>3, <2>5, <3>1 DEF StageInv, AtAny, InPlace, Slots
  <2>7. OwedInv'
    BY <1>1, <1>2, <1>5, <1>7, <1>8, <2>3 DEF OwedInv, Owed, AtAny, InPlace, Slots
  <2>8. PrevInv'
    BY <1>1, <1>2, <1>6, <1>8, <2>3 DEF PrevInv, Candidate, AtAny
  <2>9. QED
    <3> HIDE DEF new, made, pointed
    <3> QED  BY <1>1, <1>2, <1>4, <1>8, <2>1, <2>2, <2>4, <2>5, <2>6, <2>7, <2>8, ProceedKeeps
<1>9. CASE Breaks /\ Return(new)
  <2>1. job' = Idle /\ excused' = (excused \/ e)
    BY <1>7, <1>9 DEF Return, WInv, TypeOK, Job
  <2>2. ServerOK' /\ HistoryOK'
    BY <1>3, <2>1 DEF WInv, TypeOK
  <2>3. site \in Dirs => site' \in Dirs
    BY <1>2 DEF Dirs
  <2>4. QED
    BY <1>1, <1>2, <1>4, <1>5, <1>6, <1>7, <2>1, <2>2, <2>3, ReturnKeeps
<1>10. QED
  BY <1>8, <1>9 DEF EnsureSite

LEMMA ValidateKeeps ==
  ASSUME WInv, Validate
  PROVE  WInv'
<1>1. /\ job.kind # "none" /\ ScriptOf(job) \in {"validate", "check"} /\ job.kind \in Deploys
      /\ ScriptOf(job) = "check" =>
           job.kind = "deploySlot" /\ Scripts[job.kind][job.at + 1] = "swap"
      /\ ScriptOf(job) = "validate" =>
           \/ /\ Scripts[job.kind][job.at + 1] = "stop"
              /\ job.kind \in {"deployIIS", "deployService"}
           \/ Scripts[job.kind][job.at + 1] = "backup" /\ job.kind = "deployStatic"
           \/ Scripts[job.kind][job.at + 1] = "fill" /\ job.kind = "deploySlot"
  <2>1. job.kind # "none" /\ ScriptOf(job) \in {"validate", "check"}
    BY DEF Validate, At, ScriptOf
  <2>2. job.kind \in Deploys /\ (ScriptOf(job) = "check" => job.kind = "deploySlot")
    BY <2>1, KindsOfScripts DEF Deploys
  <2>3. QED
    BY <2>1, <2>2, NextScripts
<1>2. /\ UNCHANGED <<strategy, blueGreen, dir, site, marker, up, definition, loaded, backup>>
      /\ UNCHANGED <<released, previous, strayed, jobs, failures>>
  BY DEF Validate, server
<1>3. ServerOK' /\ SiteInv'
  BY <1>2 DEF WInv, TypeOK, ServerOK, SiteInv
<1>4. ASSUME Owed
      PROVE  Serving' = released /\ Kept' /\ Serving = released /\ Kept
  <2>1. Serving = released /\ Kept
    BY <1>1, <1>4 DEF WInv, OwedInv, AtAny
  <2>2. QED
    BY <1>2, <2>1 DEF Serving, Kept, Settings
<1>5. Active' = Active
  BY <1>2 DEF Active
<1>6. CASE Proceed
  <2>1. /\ job \in Job /\ job.backup # "missing" /\ job' = Advance(job) /\ UNCHANGED excused
        /\ HistoryOK'
    BY <1>2, <1>6 DEF WInv, TypeOK, JobInv, Proceed, HistoryOK
  <2>2. /\ job'.kind = job.kind /\ job'.backup = job.backup /\ job'.excuse = job.excuse
        /\ job'.build = job.build /\ job'.active = job.active /\ job'.target = job.target
        /\ ScriptOf(job') = Scripts[job.kind][job.at + 1]
    BY <1>1, <1>2, <2>1, NextScript
  <2>3. StageInv'
    <3>1. StageInv
      BY DEF WInv
    <3>2. CASE job.kind = "deploySlot"
      BY <1>1, <1>2, <2>2, <3>1, <3>2 DEF StageInv, AtAny, Slots, InPlace
    <3>3. CASE job.kind \in InPlace
      BY <1>1, <1>2, <2>2, <3>1, <3>3 DEF StageInv, AtAny, Slots, InPlace
    <3>4. QED
      BY <1>1, <3>2, <3>3 DEF Deploys, InPlace
  <2>4. OwedInv'
    <3> SUFFICES ASSUME Owed'
                 PROVE  OwedInv'
      BY DEF OwedInv
    <3>1. Owed
      BY <1>2, <2>1, <2>2 DEF Owed
    <3>2. job.kind \in {"deployStatic", "deploySlot", "deployIIS", "deployService"}
      BY <1>1 DEF Deploys
    <3>3. ScriptOf(job') = "backup" => Alive'
      <4>1. ScriptOf(job') = "backup" => strategy = "static" /\ released # Nothing
        BY <1>1, <2>2, <3>1 DEF WInv, JobInv, Owed
      <4>2. Serving = released
        BY <1>4, <3>1
      <4>3. QED
        BY <1>2, <4>1, <4>2 DEF Serving, Alive
    <3>4. ScriptOf(job') = "swap" => site' = job'.active
      <4>1. ScriptOf(job') = "swap" => ScriptOf(job) = "check" /\ job.kind = "deploySlot"
        BY <1>1, <2>2
      <4>2. QED
        BY <1>2, <2>2, <3>1, <4>1 DEF WInv, OwedInv, AtAny, Slots
    <3>5. ScriptOf(job') \in {"stop", "backup", "fill", "swap"}
      BY <1>1, <2>2
    <3>6. QED
      BY <1>2, <1>4, <2>2, <3>1, <3>2, <3>3, <3>4, <3>5 DEF OwedInv, AtAny, InPlace, Slots
  <2>5. PrevInv'
    BY <1>1, <1>2, <1>5, <2>1, <2>2 DEF WInv, PrevInv, Candidate, Deploys
  <2>6. QED
    BY <1>1, <1>2, <1>3, <2>1, <2>3, <2>4, <2>5, ProceedKeeps
<1>7. CASE Return(job)
  <2>1. job' = Idle /\ excused' = (excused \/ job.excuse) /\ job.excuse \in BOOLEAN
    BY <1>7 DEF Return, WInv, TypeOK, Job
  <2>2. HistoryOK'
    BY <1>2, <2>1 DEF WInv, TypeOK, HistoryOK
  <2>3. previous # NoRelease /\ ~excused => HasFiles(previous) /\ Candidate = previous
    BY <1>1 DEF WInv, PrevInv, Deploys
  <2>4. Candidate = IF strategy = "iis" /\ blueGreen THEN dir[Inactive(Active)] ELSE backup
    BY <1>1 DEF Candidate, Deploys
  <2>5. QED
    BY <1>1, <1>2, <1>3, <1>4, <1>5, <2>1, <2>2, <2>3, <2>4, ReturnKeeps DEF Owed
<1>8. QED
  BY <1>6, <1>7 DEF Validate

LEMMA StopKeeps ==
  ASSUME WInv, Stop
  PROVE  WInv'
<1>1. /\ job.kind # "none" /\ ScriptOf(job) = "stop"
      /\ job.kind \in {"deployIIS", "deployService", "rollbackIIS", "rollbackService"}
      /\ \/ /\ Scripts[job.kind][job.at + 1] = "backup"
            /\ job.kind \in {"deployIIS", "deployService"}
         \/ /\ Scripts[job.kind][job.at + 1] = "copy"
            /\ job.kind \in {"rollbackIIS", "rollbackService"}
  <2>1. job.kind # "none" /\ ScriptOf(job) = "stop"
    BY DEF Stop, At, ScriptOf
  <2>2. QED
    BY <2>1, KindsOfScripts, NextScripts
<1>2. /\ UNCHANGED <<strategy, blueGreen, dir, site, marker, definition, loaded, backup>>
      /\ UNCHANGED <<released, previous, strayed, jobs, excused>>
      /\ up' \in {up, FALSE} /\ failures' \in 0..MaxFailures
  BY FailureCount DEF Stop, Proceed, Error, WInv
<1>3. ServerOK' /\ SiteInv' /\ HistoryOK'
  BY <1>2 DEF WInv, TypeOK, ServerOK, SiteInv, HistoryOK
<1>4. strategy \in {"iis", "service"}
  BY <1>1 DEF WInv, JobInv
<1>5. ASSUME Owed
      PROVE  Kept' /\ Kept /\ Alive'
  <2>1. Serving = released /\ Kept /\ released # Nothing
    BY <1>1, <1>5 DEF WInv, OwedInv, AtAny, Owed
  <2>2. QED
    BY <1>2, <1>4, <2>1 DEF Serving, Kept, Settings, Alive
<1>6. job \in Job /\ job.backup # "missing"
  BY DEF WInv, TypeOK, JobInv
<1>7. CASE Proceed
  <2>1. job' = Advance(job)
    BY <1>7 DEF Proceed
  <2>2. /\ job'.kind = job.kind /\ job'.backup = job.backup /\ job'.excuse = job.excuse
        /\ ScriptOf(job') = Scripts[job.kind][job.at + 1]
    BY <1>1, <1>2, <1>6, <2>1, NextScript
  <2>3. StageInv'
    BY <1>1, <1>2, <2>2 DEF WInv, StageInv, AtAny, Slots, InPlace
  <2>4. OwedInv'
    BY <1>1, <1>2, <1>5, <2>2 DEF OwedInv, Owed, AtAny, InPlace, Slots
  <2>5. PrevInv'
    BY <1>1, <1>2, <2>2, InPlacePrevious DEF Kinds, Deploys, Rollbacks, Slots
  <2>6. QED
    BY <1>1, <1>2, <1>3, <1>6, <2>1, <2>3, <2>4, <2>5, ProceedKeeps
<1>8. CASE Error(Excuse(job, "stop"))
  <2>1. ASSUME Owed, job.kind \in InPlace
        PROVE  /\ site = "physical" /\ released.settings = Settings' /\ Alive'
               /\ dir'["physical"] = released.files /\ job.backup = NoBackup
    <3>1. site = "physical" /\ job.backup = NoBackup
      BY <1>1, <2>1 DEF WInv, JobInv, StageInv, SiteInv, AtAny, InPlace
    <3>2. QED
      BY <1>2, <1>5, <2>1, <3>1 DEF Kept, Settings
  <2>2. job.kind \in (Deploys \cup Rollbacks) \ Slots
    BY <1>1 DEF Deploys, Rollbacks, Slots
  <2>3. job' = Recover(Excuse(job, "stop"))
    BY <1>8 DEF Error
  <2>4. QED
    BY <1>2, <1>3, <2>1, <2>2, <2>3, GiveUpKeeps
<1>9. QED
  BY <1>7, <1>8 DEF Stop

LEMMA BackupKeeps ==
  ASSUME WInv, Backup
  PROVE  WInv'
<1> DEFINE live == dir["physical"]
           copy == IF live = "missing" THEN NoBackup ELSE live
           new  == [job EXCEPT !.backup = copy]
<1>1. /\ job.kind # "none" /\ ScriptOf(job) = "backup" /\ job.kind \in InPlace
      /\ Scripts[job.kind][job.at + 1] = "copy"
  <2>1. job.kind # "none" /\ ScriptOf(job) = "backup"
    BY DEF Backup, At, ScriptOf
  <2>2. QED
    BY <2>1, KindsOfScripts, NextScripts
<1>2. /\ UNCHANGED <<strategy, blueGreen, dir, site, marker, up, definition, loaded>>
      /\ UNCHANGED <<released, strayed, jobs, excused>>
      /\ previous' = NoRelease /\ failures' \in 0..MaxFailures
      /\ backup' \in {backup} \cup (IF HasFiles(live) THEN {live, "torn"} ELSE {})
  BY FailureCount DEF Backup, Error, WInv
<1>3. job \in Job /\ job.backup # "missing" /\ live \in Content /\ job.backup = NoBackup
  BY <1>1 DEF WInv, TypeOK, JobInv, StageInv, AtAny, Dirs
<1>4. backup' \in Builds \cup {"torn", NoBackup}
  BY <1>2, <1>3 DEF WInv, TypeOK, HasFiles, Content, Special
<1>5. site = "physical"
  BY <1>1 DEF WInv, JobInv, StageInv, SiteInv, AtAny, InPlace
<1>6. ServerOK' /\ HistoryOK'
  BY <1>2, <1>4 DEF WInv, TypeOK, ServerOK, HistoryOK
<1>7. SiteInv'
  BY <1>2, <1>5, SiteKeeps, WindowsAssumption DEF WInv, SiteInv, TypeOK
<1>8. ASSUME Owed
      PROVE  /\ live = released.files /\ HasFiles(live) /\ released.settings = Settings'
             /\ Alive' /\ Alive
  <2>1. Kept /\ Alive /\ HasFiles(released.files)
    BY <1>1, <1>8 DEF WInv, OwedInv, AtAny, Owed, ReleasedInv
  <2>2. QED
    BY <1>2, <1>5, <2>1 DEF Kept, Alive, Settings
<1>9. CASE Works /\ job' = Advance(new) /\ backup' = IF HasFiles(live) THEN live ELSE backup
  <2>1. PICK c \in Content \cup {NoBackup} : c = copy
    BY <1>3
  <2>2. /\ new \in Job /\ new.kind = job.kind /\ new.at = job.at /\ new.build = job.build
        /\ new.backup = c /\ new.excuse = job.excuse /\ c # "missing"
    BY <1>3, <2>1, IdleIsJob DEF Job
  <2>3. /\ job'.kind = job.kind /\ job'.backup = c /\ job'.excuse = job.excuse
        /\ ScriptOf(job') = "copy"
    <3> HIDE DEF new
    <3> QED  BY <1>1, <1>2, <1>9, <2>2, NextScript
  <2>4. StageInv'
    BY <1>1, <1>2, <1>5, <2>3 DEF StageInv, AtAny, Slots, InPlace
  <2>5. OwedInv'
    <3> SUFFICES ASSUME Owed'
                 PROVE  OwedInv'
      BY DEF OwedInv
    <3>1. Owed
      BY <1>2, <2>3 DEF Owed
    <3>2. c = released.files /\ backup' = released.files
      BY <1>8, <1>9, <2>1, <3>1 DEF HasFiles
    <3>3. QED
      BY <1>1, <1>2, <1>8, <2>3, <3>1, <3>2 DEF OwedInv, AtAny, InPlace, Slots, Alive
  <2>6. PrevInv'
    BY <1>2 DEF PrevInv
  <2>7. QED
    <3> HIDE DEF new, copy
    <3> QED  BY <1>1, <1>2, <1>6, <1>7, <1>9, <2>2, <2>4, <2>5, <2>6, ProceedKeeps
<1>10. CASE Breaks /\ job' = Recover(job)
  <2>1. job.kind \in (Deploys \cup Rollbacks) \ Slots
    BY <1>1 DEF Deploys, Rollbacks, Slots, InPlace
  <2>2. released # Nothing /\ ~excused /\ ~job.excuse => Owed
    BY DEF Owed
  <2>3. QED
    BY <1>2, <1>3, <1>5, <1>6, <1>7, <1>8, <1>10, <2>1, <2>2, RecoverLiveKeeps
<1>11. QED
  BY <1>9, <1>10 DEF Backup, Error

LEMMA CopyKeeps ==
  ASSUME WInv, Copy
  PROVE  WInv'
<1>1. /\ job.kind # "none" /\ ScriptOf(job) = "copy"
      /\ job.kind \in InPlace \cup (Rollbacks \ Slots)
      /\ \/ Scripts[job.kind][job.at + 1] = "install" /\ job.kind = "deployService"
         \/ Scripts[job.kind][job.at + 1] = "caddy" /\ job.kind = "deployStatic"
         \/ /\ Scripts[job.kind][job.at + 1] = "start"
            /\ job.kind \in {"deployIIS", "rollbackIIS", "rollbackService"}
         \/ Scripts[job.kind][job.at + 1] = "smoke" /\ job.kind = "rollbackStatic"
  <2>1. job.kind # "none" /\ ScriptOf(job) = "copy"
    BY DEF Copy, At, ScriptOf
  <2>2. QED
    BY <2>1, KindsOfScripts, NextScripts
<1>2. /\ UNCHANGED <<strategy, blueGreen, site, marker, up, definition, loaded, backup>>
      /\ UNCHANGED <<released, previous, strayed, jobs, excused>>
      /\ failures' \in 0..MaxFailures
      /\ dir' \in {dir, [dir EXCEPT !["physical"] = job.build], [dir EXCEPT !["physical"] = "torn"]}
  BY FailureCount DEF Copy, Proceed, Error, WInv
<1>3. /\ job \in Job /\ job.backup # "missing" /\ job.build \in Builds \cup {"torn"}
      /\ job.build # "missing" /\ job.kind \in (Deploys \cup Rollbacks) \ Slots
  BY <1>1, WindowsAssumption
     DEF WInv, TypeOK, JobInv, Special, InPlace, Deploys, Rollbacks, Slots
<1>4. ServerOK' /\ HistoryOK'
  <2>1. dir' \in [Dirs -> Content]
    BY <1>2, <1>3 DEF WInv, TypeOK, Content, Special
  <2>2. QED
    BY <1>2, <2>1 DEF WInv, TypeOK, ServerOK, HistoryOK
<1>5. SiteInv'
  <2>1. marker \in Dirs => dir'[marker] # "missing"
    BY <1>2, <1>3 DEF WInv, TypeOK, SiteInv
  <2>2. QED
    BY <1>2, <2>1, SiteKeeps
<1>6. ASSUME Owed, job.kind \in InPlace
      PROVE  /\ site = "physical" /\ released.settings = Settings' /\ Alive' /\ Alive
             /\ job.backup = released.files /\ backup = released.files
             /\ strategy = "static" => up
  <2>1. site = "physical"
    BY <1>1, <1>6 DEF WInv, JobInv, StageInv, SiteInv, AtAny, InPlace
  <2>2. QED
    BY <1>1, <1>2, <1>6, <2>1 DEF WInv, OwedInv, AtAny, Alive, Settings
<1>7. CASE Works /\ dir' = [dir EXCEPT !["physical"] = job.build] /\ Proceed
  <2>1. job' = Advance(job)
    BY <1>7 DEF Proceed
  <2>2. /\ job'.kind = job.kind /\ job'.backup = job.backup /\ job'.excuse = job.excuse
        /\ job'.build = job.build /\ ScriptOf(job') = Scripts[job.kind][job.at + 1]
    BY <1>1, <1>2, <1>3, <2>1, NextScript
  <2>3. dir'["physical"] = job.build
    BY <1>7 DEF WInv, TypeOK, Dirs
  <2>4. StageInv'
    <3>1. job.kind = "deployIIS" => site = "physical"
      BY <1>1 DEF WInv, StageInv, AtAny
    <3>2. job.kind = "rollbackIIS" => site \in Dirs
      BY DEF WInv, StageInv
    <3>3. job.kind = "rollbackStatic" => strategy # "service"
      BY DEF WInv, JobInv
    <3>4. QED
      BY <1>1, <1>2, <2>2, <2>3, <3>1, <3>2, <3>3 DEF StageInv, AtAny, Slots, InPlace, Rollbacks
  <2>5. OwedInv'
    BY <1>1, <1>2, <1>6, <2>2 DEF OwedInv, Owed, AtAny, InPlace, Slots, Rollbacks
  <2>6. PrevInv'
    BY <1>2, <1>3, <2>2, InPlacePrevious DEF Kinds, Deploys, Rollbacks, Slots
  <2>7. QED
    BY <1>1, <1>2, <1>3, <1>4, <1>5, <2>1, <2>4, <2>5, <2>6, ProceedKeeps
<1>8. CASE Error(Excuse(job, "copy"))
  BY <1>2, <1>3, <1>4, <1>5, <1>6, <1>8, GiveUpKeeps DEF Error
<1>9. QED
  BY <1>7, <1>8 DEF Copy

LEMMA InstallKeeps ==
  ASSUME WInv, Install
  PROVE  WInv'
<1>1. /\ job.kind # "none" /\ ScriptOf(job) = "install" /\ job.kind = "deployService"
      /\ Scripts[job.kind][job.at + 1] = "start"
  <2>1. job.kind # "none" /\ ScriptOf(job) = "install"
    BY DEF Install, At, ScriptOf
  <2>2. QED
    BY <2>1, KindsOfScripts, NextScripts
<1>2. /\ UNCHANGED <<strategy, blueGreen, dir, site, marker, up, loaded, backup>>
      /\ UNCHANGED <<released, previous, strayed, jobs, excused>>
      /\ failures' \in 0..MaxFailures /\ definition' \in {definition, job.build}
  BY FailureCount DEF Install, Proceed, Error, WInv
<1>3. /\ job \in Job /\ job.backup # "missing" /\ job.build \in Builds
      /\ job.kind \in (Deploys \cup Rollbacks) \ Slots
  BY <1>1 DEF WInv, TypeOK, JobInv, Deploys, Slots
<1>4. ServerOK' /\ HistoryOK'
  BY <1>2, <1>3 DEF WInv, TypeOK, ServerOK, HistoryOK
<1>5. SiteInv'
  BY <1>2, SiteKeeps DEF WInv, SiteInv
<1>6. CASE definition' = job.build /\ Proceed
  <2>1. job' = Advance(job)
    BY <1>6 DEF Proceed
  <2>2. /\ job'.kind = job.kind /\ job'.backup = job.backup /\ job'.excuse = job.excuse
        /\ job'.build = job.build /\ ScriptOf(job') = "start"
    BY <1>1, <1>2, <1>3, <2>1, NextScript
  <2>3. StageInv'
    <3>1. dir["physical"] = job.build
      BY <1>1 DEF WInv, StageInv, AtAny, Slots
    <3>2. QED
      BY <1>1, <1>2, <1>6, <2>2, <3>1 DEF StageInv, AtAny, Slots, InPlace, Rollbacks
  <2>4. OwedInv'
    BY <1>1, <1>2, <2>2 DEF WInv, OwedInv, Owed, AtAny, InPlace, Slots
  <2>5. PrevInv'
    BY <1>2, <1>3, <2>2, <1>1, InPlacePrevious DEF Kinds, Deploys, Rollbacks, Slots
  <2>6. QED
    BY <1>1, <1>2, <1>3, <1>4, <1>5, <2>1, <2>3, <2>4, <2>5, ProceedKeeps
<1>7. CASE Error(Excuse(job, "install"))
  BY <1>1, <1>2, <1>3, <1>4, <1>5, <1>7, GiveUpKeeps DEF Error
<1>8. QED
  BY <1>6, <1>7 DEF Install

LEMMA StartKeeps ==
  ASSUME WInv, Start
  PROVE  WInv'
<1>1. /\ job.kind # "none" /\ ScriptOf(job) = "start"
      /\ job.kind \in {"deployIIS", "deployService", "rollbackIIS", "rollbackService"}
      /\ Scripts[job.kind][job.at + 1] = "smoke"
  <2>1. job.kind # "none" /\ ScriptOf(job) = "start"
    BY DEF Start, At, ScriptOf
  <2>2. QED
    BY <2>1, KindsOfScripts, NextScripts
<1>2. /\ UNCHANGED <<strategy, blueGreen, dir, site, marker, definition, backup>>
      /\ UNCHANGED <<released, previous, strayed, jobs, excused>>
      /\ failures' \in 0..MaxFailures /\ up' \in BOOLEAN
      /\ loaded' \in {loaded, [files |-> dir["physical"], settings |-> definition]}
  BY FailureCount DEF Start, Started, Proceed, Error, WInv, TypeOK
<1>3. /\ job \in Job /\ job.backup # "missing"
      /\ job.kind \in (Deploys \cup Rollbacks) \ Slots
  BY <1>1 DEF WInv, TypeOK, JobInv, Deploys, Rollbacks, Slots
<1>4. ServerOK' /\ HistoryOK'
  <2>1. loaded' \in Release
    BY <1>2 DEF WInv, TypeOK, Release, Dirs
  <2>2. QED
    BY <1>2, <2>1 DEF WInv, TypeOK, ServerOK, HistoryOK
<1>5. SiteInv'
  BY <1>2, SiteKeeps DEF WInv, SiteInv
<1>6. dir["physical"] = job.build /\ (job.kind = "deployService" => definition = job.build)
  BY <1>1 DEF WInv, StageInv, AtAny, Slots
<1>7. CASE Startable /\ Started /\ Proceed
  <2>1. job' = Advance(job)
    BY <1>7 DEF Proceed
  <2>2. /\ job'.kind = job.kind /\ job'.backup = job.backup /\ job'.excuse = job.excuse
        /\ job'.build = job.build /\ ScriptOf(job') = "smoke"
    BY <1>1, <1>2, <1>3, <2>1, NextScript
  <2>3. StageInv'
    <3>1. job.kind = "deployIIS" => site = "physical"
      BY <1>1 DEF WInv, StageInv, AtAny
    <3>2. job.kind = "rollbackIIS" => site \in Dirs
      BY DEF WInv, StageInv
    <3>3. up' /\ (strategy = "service" =>
            /\ loaded' = [files |-> dir["physical"], settings |-> definition]
            /\ definition # NoRelease)
      BY <1>7 DEF Startable, Started
    <3>4. QED
      BY <1>1, <1>2, <1>6, <2>2, <3>1, <3>2, <3>3
         DEF StageInv, AtAny, Slots, InPlace, Rollbacks
  <2>4. OwedInv'
    <3> SUFFICES ASSUME Owed'
                 PROVE  OwedInv'
      BY DEF OwedInv
    <3>1. Owed
      BY <1>2, <2>2 DEF Owed
    <3>2. job.kind \in InPlace => job.backup = released.files /\ backup = released.files
      BY <1>1, <3>1 DEF WInv, OwedInv, AtAny
    <3>3. up'
      BY <1>7 DEF Started
    <3>4. QED
      BY <1>1, <1>2, <2>2, <3>1, <3>2, <3>3 DEF OwedInv, AtAny, InPlace, Slots
  <2>5. PrevInv'
    BY <1>2, <1>3, <2>2, <1>1, InPlacePrevious DEF Kinds, Deploys, Rollbacks, Slots
  <2>6. QED
    BY <1>1, <1>2, <1>3, <1>4, <1>5, <2>1, <2>3, <2>4, <2>5, ProceedKeeps
<1>8. CASE Error(Excuse(job, "start"))
  <2>1. ASSUME Owed, job.kind \in InPlace, job.kind # "deployService"
        PROVE  /\ site = "physical" /\ released.settings = Settings' /\ Alive'
               /\ job.backup = released.files
    <3>1. job.kind = "deployIIS" /\ strategy = "iis"
      BY <1>1, <2>1 DEF WInv, JobInv, InPlace
    <3>2. site = "physical" /\ job.backup = released.files /\ released.settings = NoRelease
      BY <1>1, <2>1, <3>1 DEF WInv, StageInv, OwedInv, ReleasedInv, AtAny, Owed
    <3>3. QED
      BY <1>2, <3>1, <3>2 DEF Settings, Alive
  <2>2. QED
    BY <1>2, <1>3, <1>4, <1>5, <1>8, <2>1, GiveUpKeeps DEF Error
<1>9. QED
  BY <1>7, <1>8 DEF Start

LEMMA ConfigureCaddyKeeps ==
  ASSUME WInv, ConfigureCaddy
  PROVE  WInv'
<1>1. /\ job.kind # "none" /\ ScriptOf(job) = "caddy" /\ job.kind = "deployStatic"
      /\ Scripts[job.kind][job.at + 1] = "smoke" /\ strategy = "static"
  <2>1. job.kind # "none" /\ ScriptOf(job) = "caddy"
    BY DEF ConfigureCaddy, At, ScriptOf
  <2>2. job.kind = "deployStatic" /\ Scripts[job.kind][job.at + 1] = "smoke"
    BY <2>1, KindsOfScripts, NextScripts
  <2>3. QED
    BY <2>1, <2>2 DEF WInv, JobInv
<1>2. /\ UNCHANGED <<strategy, blueGreen, dir, site, marker, definition, loaded, backup>>
      /\ UNCHANGED <<released, previous, strayed, jobs, excused>>
      /\ failures' \in 0..MaxFailures /\ up' \in {up, TRUE}
  BY FailureCount DEF ConfigureCaddy, Proceed, Error, WInv
<1>3. /\ job \in Job /\ job.backup # "missing"
      /\ job.kind \in (Deploys \cup Rollbacks) \ Slots /\ site = "physical"
  BY <1>1 DEF WInv, TypeOK, JobInv, SiteInv, Deploys, Slots
<1>4. ServerOK' /\ HistoryOK'
  BY <1>2 DEF WInv, TypeOK, ServerOK, HistoryOK
<1>5. SiteInv'
  BY <1>2, SiteKeeps DEF WInv, SiteInv
<1>6. ASSUME Owed
      PROVE  job.backup = released.files /\ backup = released.files /\ up
  BY <1>1, <1>6 DEF WInv, OwedInv, AtAny, InPlace
<1>7. CASE up' = TRUE /\ Proceed
  <2>1. job' = Advance(job)
    BY <1>7 DEF Proceed
  <2>2. /\ job'.kind = job.kind /\ job'.backup = job.backup /\ job'.excuse = job.excuse
        /\ job'.build = job.build /\ ScriptOf(job') = "smoke"
    BY <1>1, <1>2, <1>3, <2>1, NextScript
  <2>3. StageInv'
    <3>1. dir["physical"] = job.build
      BY <1>1 DEF WInv, StageInv, AtAny, Slots
    <3>2. QED
      BY <1>1, <1>2, <1>7, <2>2, <3>1 DEF StageInv, AtAny, Slots, InPlace, Rollbacks
  <2>4. OwedInv'
    BY <1>1, <1>2, <1>6, <1>7, <2>2 DEF OwedInv, Owed, AtAny, InPlace, Slots
  <2>5. PrevInv'
    BY <1>2, <1>3, <2>2, <1>1, InPlacePrevious DEF Kinds, Deploys, Rollbacks, Slots
  <2>6. QED
    BY <1>1, <1>2, <1>3, <1>4, <1>5, <2>1, <2>3, <2>4, <2>5, ProceedKeeps
<1>8. CASE job' = Recover(job)
  <2>1. ASSUME released # Nothing, ~excused, ~job.excuse
        PROVE  /\ site = "physical" /\ released.settings = Settings' /\ Alive'
               /\ job.backup = released.files
    <3>1. job.backup = released.files /\ up
      BY <1>6, <2>1 DEF Owed
    <3>2. released.settings = NoRelease
      BY <1>1, <2>1 DEF WInv, ReleasedInv
    <3>3. QED
      BY <1>1, <1>2, <1>3, <3>1, <3>2 DEF Settings, Alive
  <2>2. QED
    BY <1>2, <1>3, <1>4, <1>5, <1>8, <2>1, RecoverLiveKeeps
<1>9. QED
  BY <1>7, <1>8 DEF ConfigureCaddy, Error

-----------------------------------------------------------------------------
(* Recovery in place.                                                      *)

LEMMA RestoreKeeps ==
  ASSUME WInv, Restore
  PROVE  WInv'
<1>1. /\ job.kind # "none" /\ ScriptOf(job) = "restore" /\ job.kind = "recoverLive"
      /\ Scripts[job.kind][job.at + 1] = "restart"
  <2>1. job.kind # "none" /\ ScriptOf(job) = "restore"
    BY DEF Restore, At, ScriptOf
  <2>2. QED
    BY <2>1, KindsOfScripts, NextScripts
<1> DEFINE copied == [dir EXCEPT !["physical"] = job.backup]
           torn   == [dir EXCEPT !["physical"] = "torn"]
<1>2. /\ UNCHANGED <<strategy, blueGreen, site, marker, up, definition, loaded, backup>>
      /\ UNCHANGED <<released, previous, strayed, jobs, excused>>
      /\ failures' \in 0..MaxFailures
      /\ dir' \in {dir, torn} \/ (job.backup # NoBackup /\ dir' = copied)
  BY FailureCount DEF Restore, Proceed, WInv
<1>3. job \in Job /\ job.backup # "missing" /\ job.kind \in Kinds \ (Slots \cup {"swapBack"})
  BY <1>1 DEF WInv, TypeOK, JobInv, Kinds, Slots
<1>4. ServerOK' /\ HistoryOK'
  <2>1. dir' \in [Dirs -> Content]
    <3>1. dir \in [Dirs -> Content] /\ torn \in [Dirs -> Content]
      BY DEF WInv, TypeOK, Content, Special
    <3>2. job.backup # NoBackup => copied \in [Dirs -> Content]
      BY <1>3, <3>1 DEF Job
    <3>3. QED
      BY <1>2, <3>1, <3>2
  <2>2. QED
    BY <1>2, <2>1 DEF WInv, TypeOK, ServerOK, HistoryOK
<1>5. SiteInv'
  <2>1. marker \in Dirs => dir'[marker] # "missing"
    BY <1>2, <1>3 DEF WInv, TypeOK, SiteInv
  <2>2. QED
    BY <1>2, <2>1, SiteKeeps
<1>6. ASSUME Owed
      PROVE  /\ site = "physical" /\ released.settings = Settings' /\ Alive'
             /\ job.backup = released.files \/ (dir["physical"] = released.files
                                                /\ job.backup = NoBackup)
             /\ released.files # NoBackup
  <2>1. released.files # NoBackup
    BY IdleIsJob DEF WInv, TypeOK, Release
  <2>2. QED
    BY <1>1, <1>2, <1>6, <2>1 DEF WInv, OwedInv, AtAny, Alive, Settings
<1>7. ASSUME NEW j \in Job, j.kind = job.kind, j.at = job.at, j.build = job.build,
             j.backup = job.backup, j.excuse \/ ~job.excuse, job' = Advance(j),
             Owed /\ ~j.excuse => dir'["physical"] = released.files
      PROVE  WInv'
  <2>1. /\ job'.kind = "recoverLive" /\ job'.excuse = j.excuse /\ ScriptOf(job') = "restart"
    BY <1>1, <1>2, <1>3, <1>7, NextScript
  <2>2. StageInv'
    BY <2>1 DEF StageInv, AtAny, Slots, InPlace
  <2>3. OwedInv'
    BY <1>2, <1>6, <1>7, <2>1 DEF OwedInv, Owed, AtAny, InPlace, Slots
  <2>4. PrevInv'
    BY <1>2, <1>3, <2>1, InPlacePrevious
  <2>5. QED
    BY <1>1, <1>2, <1>3, <1>4, <1>5, <1>7, <2>2, <2>3, <2>4, ProceedKeeps
<1>8. CASE job.backup = NoBackup /\ dir' = dir /\ Proceed
  BY <1>3, <1>6, <1>7, <1>8 DEF Proceed
<1>9. CASE job.backup # NoBackup /\ dir' = copied /\ Proceed
  <2>1. dir'["physical"] = job.backup
    BY <1>9 DEF WInv, TypeOK, Dirs
  <2> HIDE DEF copied
  <2>2. QED
    BY <1>3, <1>6, <1>7, <1>9, <2>1 DEF Proceed
<1>10. CASE job' = Advance([job EXCEPT !.excuse = TRUE])
  <2>1. PICK j \in Job : j = [job EXCEPT !.excuse = TRUE]
    BY <1>3 DEF Job
  <2>2. /\ j.kind = job.kind /\ j.at = job.at /\ j.build = job.build
        /\ j.backup = job.backup /\ j.excuse = TRUE
    BY <1>3, <2>1 DEF Job
  <2>3. QED
    BY <1>7, <1>10, <2>1, <2>2
<1>11. QED
  BY <1>8, <1>9, <1>10 DEF Restore

LEMMA RestartKeeps ==
  ASSUME WInv, Restart
  PROVE  WInv'
<1>1. /\ job.kind # "none" /\ ScriptOf(job) = "restart" /\ job.kind = "recoverLive"
  <2>1. job.kind # "none" /\ ScriptOf(job) = "restart"
    BY DEF Restart, At, ScriptOf
  <2>2. QED
    BY <2>1, KindsOfScripts
<1>2. /\ UNCHANGED <<strategy, blueGreen, dir, site, marker, definition, backup>>
      /\ UNCHANGED <<released, previous, strayed, jobs>>
      /\ failures' \in 0..MaxFailures /\ up' \in BOOLEAN
      /\ loaded' \in {loaded, [files |-> dir["physical"], settings |-> definition]}
  BY FailureCount DEF Restart, Started, WInv, TypeOK
<1>3. job \in Job /\ job.excuse \in BOOLEAN
  BY DEF WInv, TypeOK, Job
<1>4. ServerOK'
  <2>1. loaded' \in Release
    BY <1>2 DEF WInv, TypeOK, Release, Dirs
  <2>2. QED
    BY <1>2, <2>1 DEF WInv, TypeOK, ServerOK
<1>5. SiteInv'
  BY <1>2, SiteKeeps DEF WInv, SiteInv
<1>6. previous # NoRelease /\ ~excused =>
        /\ HasFiles(previous) /\ ~(strategy = "iis" /\ blueGreen) /\ backup = previous
  BY <1>1 DEF WInv, JobInv, PrevInv, Candidate
<1>7. ASSUME NEW e \in BOOLEAN, job' = Idle, excused' = (excused \/ e),
             released # Nothing /\ ~excused /\ ~e => Serving' = released /\ Kept'
      PROVE  WInv'
  <2>1. HistoryOK'
    BY <1>2, <1>7 DEF WInv, TypeOK, HistoryOK
  <2>2. QED
    BY <1>1, <1>2, <1>4, <1>5, <1>6, <1>7, <2>1, ReturnKeeps
<1>8. CASE Return(job)
  <2>1. ASSUME released # Nothing, ~excused, ~job.excuse
        PROVE  Serving' = released /\ Kept'
    <3>1. /\ site = "physical" /\ released.settings = Settings /\ Alive
          /\ dir["physical"] = released.files
      BY <1>1, <2>1 DEF WInv, OwedInv, Owed, AtAny
    <3>2. Kept'
      BY <1>2, <3>1 DEF Kept, Settings
    <3>3. released = [files |-> dir["physical"], settings |-> Settings]
      BY <3>1 DEF WInv, TypeOK, Release
    <3>4. CASE strategy # "static" /\ Startable /\ Started
      BY <1>2, <3>1, <3>2, <3>3, <3>4 DEF Serving, Started, Settings
    <3>5. CASE (strategy = "static" \/ ~Startable) /\ UNCHANGED <<up, loaded>>
      <4>1. up /\ (strategy = "service" => loaded = released)
        <5>1. CASE strategy = "static"
          BY <3>1, <5>1 DEF Alive
        <5>2. CASE ~Startable
          <6>1. strategy = "service" /\ (up \/ definition = NoRelease)
            BY <5>2 DEF Startable
          <6>2. definition # NoRelease
            BY <2>1, <3>1, <6>1 DEF WInv, ReleasedInv, Settings
          <6>3. QED
            BY <3>1, <6>1, <6>2 DEF Alive
        <5>3. QED
          BY <3>5, <5>1, <5>2
      <4>2. QED
        BY <1>2, <3>1, <3>2, <3>3, <3>5, <4>1 DEF Serving, Settings
    <3>6. CASE Return([job EXCEPT !.excuse = TRUE])
      <4>1. excused'
        BY <1>3, <3>6 DEF Return, Job
      <4>2. ~excused'
        BY <1>8, <2>1 DEF Return
      <4>3. QED
        BY <4>1, <4>2
    <3>7. QED
      BY <3>4, <3>5, <3>6 DEF Restart
  <2>2. QED
    BY <1>3, <1>7, <1>8, <2>1 DEF Return
<1>9. CASE Return([job EXCEPT !.excuse = TRUE])
  <2>1. job' = Idle /\ excused' = (excused \/ TRUE)
    BY <1>3, <1>9 DEF Return, Job
  <2>2. QED
    BY <1>7, <2>1
<1>10. QED
  BY <1>8, <1>9 DEF Restart

-----------------------------------------------------------------------------
(* Blue-green slots.                                                       *)

LEMMA InactiveSlot ==
  ASSUME NEW d \in Dirs
  PROVE  /\ Inactive(d) \in Dirs /\ Inactive(d) # d /\ Inactive(Inactive(d)) = d
         /\ \A s \in Dirs : s = d \/ s = Inactive(d)
  BY WindowsAssumption DEF Inactive, Dirs

\* Wherever the live directory exists there is an active slot.
LEMMA ActiveSlot ==
  ASSUME WInv
  PROVE  /\ dir["physical"] # "missing" => Active \in Dirs
         /\ marker \in Dirs => Active = marker
         /\ ~strayed /\ site \in Dirs /\ dir["physical"] # "missing" => Active = site
  BY WindowsAssumption DEF WInv, SiteInv, Active, Dirs

\* The job swaps back.
LEMMA SwapBackBegins ==
  ASSUME WInv, job.kind \in Slots, AtAny({"swap", "smoke"}),
         NEW j \in Job, j.kind = job.kind, j.backup # "missing", j.active = job.active,
         j.excuse = job.excuse, job' = Recover(j),
         ServerOK', HistoryOK', SiteInv', site \in Dirs => site' \in Dirs,
         UNCHANGED <<strategy, blueGreen, dir, backup, released, previous, excused>>
  PROVE  WInv'
<1>1. job.kind # "none" /\ job.kind \in Deploys \cup Rollbacks
  BY DEF Slots, Deploys, Rollbacks
<1>2. /\ job' \in Job /\ job'.kind = "swapBack" /\ ScriptOf(job') = "swapBack"
      /\ job'.active = job.active /\ job'.excuse = job.excuse /\ JobInv'
  BY <1>1, RecoveryScript
<1>3. TypeOK'
  BY <1>2 DEF TypeOK, ServerOK, HistoryOK
<1>4. StageInv'
  BY <1>2 DEF WInv, StageInv, AtAny, InPlace, Slots
<1>5. ReleasedInv'
  BY DEF WInv, ReleasedInv
<1>6. OwedInv'
  <2>1. Owed => dir[job.active] = released.files
    <3>1. Owed /\ AtAny({"swap"}) => Kept /\ site = job.active
      BY <1>1 DEF WInv, OwedInv, AtAny
    <3>2. Owed /\ AtAny({"smoke"}) => dir[job.active] = released.files
      BY <1>1 DEF WInv, OwedInv
    <3>3. QED
      BY <3>1, <3>2 DEF Kept, AtAny
  <2>2. QED
    BY <1>2, <2>1 DEF OwedInv, Owed, AtAny, InPlace, Slots
<1>7. PrevInv'
  <2>1. CASE job.kind = "deploySlot"
    <3>1. previous = NoRelease
      BY <1>1, <2>1 DEF WInv, StageInv, AtAny
    <3>2. QED
      BY <3>1 DEF PrevInv
  <2>2. CASE job.kind = "rollbackSlot"
    BY <1>2, <2>2 DEF WInv, PrevInv, Candidate
  <2>3. QED
    BY <2>1, <2>2 DEF Slots
<1>8. QED
  BY <1>2, <1>3, <1>4, <1>5, <1>6, <1>7 DEF WInv

LEMMA FillKeeps ==
  ASSUME WInv, Fill
  PROVE  WInv'
<1>1. /\ job.kind # "none" /\ ScriptOf(job) = "fill" /\ job.kind = "deploySlot"
      /\ Scripts[job.kind][job.at + 1] = "check" /\ strategy = "iis"
  <2>1. job.kind # "none" /\ ScriptOf(job) = "fill"
    BY DEF Fill, At, ScriptOf
  <2>2. job.kind = "deploySlot" /\ Scripts[job.kind][job.at + 1] = "check"
    BY <2>1, KindsOfScripts, NextScripts
  <2>3. QED
    BY <2>1, <2>2 DEF WInv, JobInv
<1>2. /\ job \in Job /\ job.backup # "missing" /\ job.build \in Builds /\ job.build # "missing"
      /\ site \in Dirs /\ dir["physical"] # "missing"
  BY <1>1, WindowsAssumption DEF WInv, TypeOK, JobInv, StageInv, AtAny, Deploys, Special
<1>3. PICK a \in Dirs : a = Active
  BY <1>2, ActiveSlot
<1>4. PICK t \in Dirs : t = Inactive(a)
  BY InactiveSlot
<1>5. PICK e \in BOOLEAN : e = (job.excuse \/ site = t)
  BY <1>2 DEF Job
<1> DEFINE new == [job EXCEPT !.active = a, !.target = t, !.excuse = e]
<1>6. /\ new \in Job /\ new.kind = job.kind /\ new.at = job.at /\ new.build = job.build
      /\ new.backup = job.backup /\ new.active = a /\ new.target = t /\ new.excuse = e
  BY <1>2 DEF Job
<1>7. new = [job EXCEPT !.active = Active, !.target = Inactive(Active),
                        !.excuse = @ \/ site = Inactive(Active)]
  BY <1>2, <1>3, <1>4, <1>5 DEF Job
<1> HIDE DEF new
<1>8. /\ UNCHANGED <<strategy, blueGreen, site, marker, up, definition, loaded, backup>>
      /\ UNCHANGED <<released, strayed, jobs>>
      /\ previous' = NoRelease /\ failures' \in 0..MaxFailures
      /\ dir' \in {dir, [dir EXCEPT ![t] = job.build], [dir EXCEPT ![t] = "torn"]}
  BY <1>3, <1>4, FailureCount DEF Fill, WInv
<1>9. ServerOK'
  <2>1. dir' \in [Dirs -> Content]
    BY <1>2, <1>8 DEF WInv, TypeOK, Content, Special
  <2>2. QED
    BY <1>8, <2>1 DEF WInv, TypeOK, ServerOK
<1>10. dir'["physical"] # "missing" /\ \A d \in Dirs : d # t => dir'[d] = dir[d]
  BY <1>2, <1>8 DEF WInv, TypeOK, Dirs
<1>11. SiteInv'
  <2>1. marker \in Dirs => dir'[marker] # "missing"
    BY <1>2, <1>8 DEF WInv, TypeOK, SiteInv
  <2>2. QED
    BY <1>8, <2>1, SiteKeeps
<1>12. ASSUME released # Nothing, ~excused, ~e
       PROVE  Serving' = released /\ Kept' /\ site = a
  <2>1. Serving = released /\ Kept
    BY <1>1, <1>5, <1>12 DEF WInv, OwedInv, Owed, AtAny
  <2>2. site # t
    BY <1>5, <1>12
  <2>3. dir'[site] = dir[site]
    BY <1>2, <1>10, <2>2
  <2>4. site = a
    BY <1>2, <1>4, <2>2, InactiveSlot
  <2>5. QED
    BY <1>8, <2>1, <2>3, <2>4 DEF Serving, Kept, Settings
<1>13. CASE dir' = [dir EXCEPT ![t] = job.build] /\ job' = Advance(new) /\ UNCHANGED excused
  <2>1. /\ job'.kind = job.kind /\ job'.backup = job.backup /\ job'.excuse = e
        /\ job'.build = job.build /\ job'.active = a /\ job'.target = t
        /\ ScriptOf(job') = "check"
    BY <1>1, <1>2, <1>6, <1>8, <1>13, NextScript
  <2>2. HistoryOK'
    BY <1>8, <1>13, HistoryFrame
  <2>3. StageInv'
    <3>1. dir'[t] = job.build
      BY <1>13 DEF WInv, TypeOK
    <3>2. QED
      BY <1>1, <1>2, <1>4, <1>8, <1>10, <2>1, <3>1 DEF StageInv, AtAny, InPlace, Slots
  <2>4. OwedInv'
    BY <1>1, <1>8, <1>12, <1>13, <2>1 DEF OwedInv, Owed, AtAny, InPlace, Slots
  <2>5. PrevInv'
    BY <1>8 DEF PrevInv
  <2>6. QED
    BY <1>1, <1>2, <1>6, <1>8, <1>9, <1>11, <1>13, <2>2, <2>3, <2>4, <2>5, ProceedKeeps
<1>14. CASE Return(new)
  <2>1. job' = Idle /\ excused' = (excused \/ e)
    BY <1>6, <1>14 DEF Return
  <2>2. HistoryOK'
    BY <1>8, <2>1 DEF WInv, TypeOK, HistoryOK
  <2>3. QED
    BY <1>1, <1>8, <1>9, <1>11, <1>12, <2>1, <2>2, ReturnKeeps
<1>15. QED
  BY <1>7, <1>13, <1>14, <1>3, <1>4 DEF Fill

LEMMA SwapKeeps ==
  ASSUME WInv, Swap
  PROVE  WInv'
<1>1. /\ job.kind # "none" /\ ScriptOf(job) = "swap" /\ job.kind \in Slots
      /\ Scripts[job.kind][job.at + 1] = "smoke" /\ strategy = "iis" /\ blueGreen
      /\ job.kind \in {"deploySlot", "rollbackSlot"}
  <2>1. job.kind # "none" /\ ScriptOf(job) = "swap"
    BY DEF Swap, At, ScriptOf
  <2>2. job.kind \in Slots /\ Scripts[job.kind][job.at + 1] = "smoke"
    BY <2>1, KindsOfScripts, NextScripts
  <2>3. QED
    BY <2>1, <2>2 DEF WInv, JobInv, Slots
<1>2. /\ job \in Job /\ job.backup # "missing"
      /\ job.active \in Dirs /\ job.target = Inactive(job.active)
      /\ dir[job.target] = job.build /\ job.target \in Dirs
      /\ job.kind = "deploySlot" => site \in Dirs /\ dir["physical"] # "missing"
      /\ job.kind = "deploySlot" => previous = NoRelease
  BY <1>1, InactiveSlot DEF WInv, TypeOK, JobInv, StageInv, AtAny
<1>3. /\ UNCHANGED <<strategy, blueGreen, dir, definition, loaded, backup>>
      /\ UNCHANGED <<released, previous, jobs>>
      /\ failures' \in 0..MaxFailures /\ up' \in BOOLEAN /\ strayed' \in BOOLEAN
      /\ site' \in {site, job.target} /\ marker' \in {marker, job.target}
  BY FailureCount DEF Swap, SwapDone, SwapBroken, WInv, TypeOK
<1>4. ServerOK' /\ (site \in Dirs => site' \in Dirs)
  BY <1>2, <1>3 DEF WInv, TypeOK, ServerOK
<1>5. ASSUME Owed
      PROVE  Serving = released /\ Kept /\ site = job.active
  BY <1>1, <1>5 DEF WInv, OwedInv, AtAny
<1>6. CASE SwapDone(job.target) /\ Proceed
  <2>1. job' = Advance(job) /\ UNCHANGED excused
    BY <1>6 DEF Proceed
  <2>2. /\ job'.kind = job.kind /\ job'.backup = job.backup /\ job'.excuse = job.excuse
        /\ job'.build = job.build /\ job'.active = job.active /\ job'.target = job.target
        /\ ScriptOf(job') = "smoke"
    BY <1>1, <1>2, <1>3, <2>1, NextScript
  <2>3. /\ HasFiles(dir[job.target]) /\ site' = job.target /\ marker' = job.target
        /\ up' = TRUE /\ strayed' = FALSE
    BY <1>6 DEF SwapDone
  <2>4. HistoryOK'
    BY <1>3, <2>1 DEF WInv, TypeOK, HistoryOK
  <2>5. SiteInv'
    BY <1>1, <1>2, <1>3, <2>3, WindowsAssumption DEF SiteInv, HasFiles, Dirs
  <2>6. StageInv'
    BY <1>1, <1>2, <1>3, <2>2, <2>3 DEF StageInv, AtAny, InPlace, Slots
  <2>7. OwedInv'
    <3> SUFFICES ASSUME Owed'
                 PROVE  OwedInv'
      BY DEF OwedInv
    <3>1. Owed
      BY <1>3, <2>1, <2>2 DEF Owed
    <3>2. dir'[job'.active] = released'.files
      BY <1>3, <1>5, <2>2, <3>1 DEF Kept
    <3>3. QED
      BY <1>1, <2>2, <3>2 DEF OwedInv, AtAny, InPlace, Slots
  <2>8. PrevInv'
    BY <1>1, <1>2, <1>3, <2>1, <2>2 DEF WInv, PrevInv, Candidate, AtAny
  <2>9. QED
    BY <1>1, <1>2, <1>3, <1>4, <2>1, <2>4, <2>5, <2>6, <2>7, <2>8, ProceedKeeps
<1>7. ASSUME \/ SwapBroken(job.target)
             \/ UNCHANGED <<site, up, marker, strayed>>,
             IF job.kind = "rollbackSlot"
             THEN Return([job EXCEPT !.excuse = @ \/ site' # site \/ up' # up])
             ELSE Error(job)
      PROVE  WInv'
  <2>1. /\ marker' = marker
        /\ \/ site' = site /\ strayed' = strayed
           \/ site' = job.target /\ strayed' = (strayed \/ site' # site)
    BY <1>7 DEF SwapBroken
  <2>2. SiteInv'
    <3>1. site' = NoDir => site = NoDir
      BY <1>2, <2>1, WindowsAssumption DEF Dirs
    <3>2. ~strayed' => ~strayed /\ site' = site
      BY <2>1
    <3>3. QED
      BY <1>1, <1>3, <2>1, <3>1, <3>2 DEF WInv, SiteInv
  <2>3. CASE job.kind = "rollbackSlot"
    <3>1. PICK e \in BOOLEAN : e = (job.excuse \/ site' # site \/ up' # up)
      BY <1>2 DEF Job
    <3>2. job' = Idle /\ excused' = (excused \/ e)
      BY <1>2, <1>7, <2>3, <3>1 DEF Return, Job
    <3>3. HistoryOK'
      BY <1>3, <3>2 DEF WInv, TypeOK, HistoryOK
    <3>4. released # Nothing /\ ~excused /\ ~e => Serving' = released /\ Kept'
      <4>1. SUFFICES ASSUME released # Nothing, ~excused, ~e
                     PROVE  Serving' = released /\ Kept'
        OBVIOUS
      <4>2. Owed /\ site' = site /\ up' = up
        BY <3>1, <4>1 DEF Owed
      <4>3. QED
        BY <1>3, <1>5, <4>2 DEF Serving, Kept, Settings
    <3>5. Active' = Active
      BY <1>3, <2>1 DEF Active
    <3>6. previous # NoRelease /\ ~excused /\ ~e =>
            HasFiles(previous) /\ dir[Inactive(Active)] = previous
      BY <1>1, <2>3, <3>1 DEF WInv, PrevInv, Candidate, AtAny
    <3>7. QED
      BY <1>1, <1>3, <1>4, <2>2, <3>2, <3>3, <3>4, <3>5, <3>6, ReturnKeeps
  <2>4. CASE job.kind = "deploySlot"
    <3>1. job' = Recover(job) /\ UNCHANGED excused
      BY <1>7, <2>4 DEF Error
    <3>2. HistoryOK'
      BY <1>3, <3>1 DEF WInv, TypeOK, HistoryOK
    <3>3. AtAny({"swap", "smoke"})
      BY <1>1 DEF AtAny
    <3>4. QED
      BY <1>1, <1>2, <1>3, <1>4, <2>2, <3>1, <3>2, <3>3, SwapBackBegins
  <2>5. QED
    BY <1>1, <2>3, <2>4
<1>8. QED
  BY <1>6, <1>7 DEF Swap

LEMMA SwapBackKeeps ==
  ASSUME WInv, SwapBack
  PROVE  WInv'
<1>1. /\ job.kind # "none" /\ ScriptOf(job) = "swapBack" /\ job.kind = "swapBack"
      /\ strategy = "iis" /\ blueGreen /\ job.active \in Dirs
  <2>1. job.kind # "none" /\ ScriptOf(job) = "swapBack"
    BY DEF SwapBack, At, ScriptOf
  <2>2. job.kind = "swapBack"
    BY <2>1, KindsOfScripts
  <2>3. QED
    BY <2>1, <2>2 DEF WInv, JobInv, StageInv
<1>2. job \in Job /\ job.excuse \in BOOLEAN
  BY DEF WInv, TypeOK, Job
<1>3. /\ UNCHANGED <<strategy, blueGreen, dir, definition, loaded, backup>>
      /\ UNCHANGED <<released, previous, jobs>>
      /\ failures' \in 0..MaxFailures /\ up' \in BOOLEAN /\ strayed' \in BOOLEAN
      /\ site' \in {site, job.active} /\ marker' \in {marker, job.active}
  BY FailureCount DEF SwapBack, SwapDone, SwapBroken, WInv, TypeOK
<1>4. ServerOK' /\ (site \in Dirs => site' \in Dirs)
  BY <1>1, <1>3 DEF WInv, TypeOK, ServerOK
<1>5. CASE SwapDone(job.active) /\ Return(job)
  <2>1. /\ HasFiles(dir[job.active]) /\ site' = job.active /\ marker' = job.active
        /\ up' = TRUE /\ strayed' = FALSE
    BY <1>5 DEF SwapDone
  <2>2. job' = Idle /\ excused' = (excused \/ job.excuse)
    BY <1>5 DEF Return
  <2>3. HistoryOK'
    BY <1>2, <1>3, <2>2 DEF WInv, TypeOK, HistoryOK
  <2>4. SiteInv'
    BY <1>1, <1>3, <2>1, WindowsAssumption DEF SiteInv, HasFiles, Dirs
  <2>5. released # Nothing /\ ~excused /\ ~job.excuse => Serving' = released /\ Kept'
    <3>1. SUFFICES ASSUME released # Nothing, ~excused, ~job.excuse
                   PROVE  Serving' = released /\ Kept'
      OBVIOUS
    <3>2. dir[job.active] = released.files /\ released.settings = NoRelease
      BY <1>1, <3>1 DEF WInv, OwedInv, ReleasedInv, Owed
    <3>3. released = [files |-> dir[job.active], settings |-> NoRelease]
      BY <3>2 DEF WInv, TypeOK, Release
    <3>4. QED
      BY <1>1, <1>3, <2>1, <3>2, <3>3 DEF Serving, Kept, Settings
  <2>6. previous # NoRelease /\ ~excused /\ ~job.excuse =>
          HasFiles(previous) /\ dir'[Inactive(Active')] = previous
    <3>1. Active' = job.active
      BY <1>1, <1>3, <2>1 DEF Active, HasFiles
    <3>2. QED
      BY <1>1, <1>3, <3>1 DEF WInv, PrevInv, Candidate
  <2>7. QED
    BY <1>1, <1>2, <1>3, <1>4, <2>2, <2>3, <2>4, <2>5, <2>6, ReturnKeeps
<1>6. ASSUME SwapBroken(job.active) \/ UNCHANGED <<site, up, marker, strayed>>,
             Return([job EXCEPT !.excuse = TRUE])
      PROVE  WInv'
  <2>1. /\ marker' = marker
        /\ \/ site' = site /\ strayed' = strayed
           \/ site' = job.active /\ strayed' = (strayed \/ site' # site)
    BY <1>6 DEF SwapBroken
  <2>2. job' = Idle /\ excused' = (excused \/ TRUE)
    BY <1>2, <1>6 DEF Return, Job
  <2>3. HistoryOK'
    BY <1>3, <2>2 DEF WInv, TypeOK, HistoryOK
  <2>4. SiteInv'
    <3>1. site' = NoDir => site = NoDir
      BY <1>1, <2>1, WindowsAssumption DEF Dirs
    <3>2. ~strayed' => ~strayed /\ site' = site
      BY <2>1
    <3>3. QED
      BY <1>1, <1>3, <2>1, <3>1, <3>2 DEF WInv, SiteInv
  <2>5. QED
    BY <1>1, <1>3, <1>4, <2>2, <2>3, <2>4, ReturnKeeps
<1>7. QED
  BY <1>5, <1>6 DEF SwapBack

-----------------------------------------------------------------------------
(* The end of a job.                                                       *)

LEMMA SmokePassesKeeps ==
  ASSUME WInv, SmokePasses
  PROVE  WInv'
<1>1. /\ job.kind # "none" /\ ScriptOf(job) = "smoke" /\ job.kind \in Deploys \cup Rollbacks
      /\ AtAny({"smoke"})
  <2>1. job.kind # "none" /\ ScriptOf(job) = "smoke"
    BY DEF SmokePasses, At, ScriptOf
  <2>2. QED
    BY <2>1, KindsOfScripts DEF AtAny
<1>2. /\ UNCHANGED <<strategy, blueGreen, dir, site, marker, up, definition, loaded, backup>>
      /\ UNCHANGED <<strayed, jobs, failures>> /\ job' = Idle
      /\ released' = [files |-> job.build, settings |-> Settings]
      /\ previous' = IF job.kind \in Rollbacks \/ job.excuse \/ excused \/ released = Nothing
                     THEN NoRelease ELSE released.files
      /\ excused' = (job.kind \in Rollbacks \ Slots /\ (site # "physical" \/ ~up))
  BY DEF SmokePasses, server, Settings
<1>3. /\ job.kind # "rollbackStatic" => up
      /\ strategy = "service" => /\ loaded = [files |-> dir["physical"], settings |-> definition]
                                 /\ definition # NoRelease
      /\ job.kind \notin Slots => dir["physical"] = job.build
      /\ job.kind \in Slots => /\ site = job.target /\ marker = job.target
                               /\ HasFiles(job.build) /\ dir[job.target] = job.build
                               /\ job.active \in Dirs /\ job.target = Inactive(job.active)
      /\ job.kind = "deployIIS" => site = "physical"
      /\ job.kind = "rollbackIIS" => site \in Dirs
  BY <1>1 DEF WInv, StageInv, AtAny, Slots
<1>4. HasFiles(job.build) /\ site \in Dirs /\ job.build \in Content
  <2>1. job.build \in Content
    BY DEF WInv, TypeOK, Job
  <2>2. HasFiles(job.build)
    BY <1>1, <1>3, WindowsAssumption DEF WInv, JobInv, HasFiles, Deploys, Rollbacks, Slots, Special
  <2>3. site \in Dirs
    <3>1. CASE job.kind \in Slots
      BY <1>3, <3>1, InactiveSlot
    <3>2. CASE job.kind \in {"deployIIS", "rollbackIIS"}
      BY <1>3, <3>2 DEF Dirs
    <3>3. CASE strategy # "iis"
      BY <3>3 DEF WInv, SiteInv, Dirs
    <3>4. QED
      BY <1>1, <3>1, <3>2, <3>3 DEF WInv, JobInv, Deploys, Rollbacks, Slots
  <2>4. QED
    BY <2>1, <2>2, <2>3
<1>5. Settings \in Builds \cup {NoRelease} /\ Settings' = Settings
  BY <1>2 DEF WInv, TypeOK, Settings
<1>6. TypeOK'
  <2>1. released' \in Release
    BY <1>2, <1>4, <1>5 DEF Release
  <2>2. previous' \in Content \cup {NoRelease} /\ excused' \in BOOLEAN
    BY <1>2 DEF WInv, TypeOK, Release
  <2>3. QED
    BY <1>2, <2>1, <2>2, IdleIsJob DEF WInv, TypeOK
<1>7. job'.kind = "none" /\ job'.excuse = FALSE
  BY <1>2, IdleIsJob
<1>8. JobInv' /\ StageInv'
  BY <1>2, <1>7, IdleIsJob DEF JobInv, StageInv, AtAny, Deploys, InPlace, Rollbacks, Slots
<1>9. SiteInv'
  BY <1>2, SiteKeeps DEF WInv, SiteInv
<1>10. ReleasedInv'
  BY <1>2, <1>3, <1>4 DEF ReleasedInv, Settings
<1>11. OwedInv'
  <2> SUFFICES ASSUME Owed'
               PROVE  Serving' = released' /\ Kept'
    BY <1>7 DEF OwedInv, AtAny, Slots, InPlace
  <2>1. job.kind \notin Rollbacks \ Slots \/ (site = "physical" /\ up)
    BY <1>2 DEF Owed
  <2>2. up
    BY <1>3, <2>1 DEF Rollbacks, Slots
  <2>3. dir[site] = job.build
    <3>1. CASE job.kind \in Slots
      BY <1>3, <3>1
    <3>2. CASE job.kind \in Rollbacks \ Slots
      BY <1>3, <2>1, <3>2
    <3>3. CASE job.kind \in InPlace
      BY <1>3, <3>3 DEF WInv, JobInv, SiteInv, InPlace, Slots
    <3>4. QED
      BY <1>1, <3>1, <3>2, <3>3 DEF Deploys, InPlace, Slots
  <2>4. Kept'
    BY <1>2, <1>5, <2>3 DEF Kept
  <2>5. CASE strategy = "service"
    <3>1. dir["physical"] = job.build
      BY <1>1, <1>3, <2>5 DEF WInv, JobInv, Deploys, Rollbacks, Slots
    <3>2. QED
      BY <1>2, <1>3, <2>2, <2>4, <2>5, <3>1 DEF Serving, Settings
  <2>6. CASE strategy # "service"
    BY <1>2, <2>2, <2>3, <2>4, <2>6 DEF Serving, Settings
  <2>7. QED
    BY <2>5, <2>6
<1>12. PrevInv'
  <2> SUFFICES ASSUME previous' # NoRelease
               PROVE  HasFiles(previous') /\ Candidate' = previous'
    BY <1>7 DEF PrevInv, AtAny
  <2>1. Owed /\ job.kind \in Deploys /\ previous' = released.files
    BY <1>1, <1>2 DEF Owed
  <2>2. HasFiles(previous')
    BY <2>1 DEF WInv, ReleasedInv, Owed
  <2>3. CASE job.kind = "deploySlot"
    <3>1. Active = job.target /\ strategy = "iis" /\ blueGreen
      BY <1>3, <1>4, <2>3, ActiveSlot DEF WInv, JobInv, Slots
    <3>2. Inactive(job.target) = job.active
      BY <1>3, <2>3, InactiveSlot DEF Slots
    <3>3. dir[job.active] = released.files
      BY <1>1, <2>1, <2>3 DEF WInv, OwedInv, Slots
    <3>4. Active' = Active
      BY <1>2 DEF Active
    <3>5. QED
      BY <1>2, <1>7, <2>1, <2>2, <3>1, <3>2, <3>3, <3>4 DEF Candidate
  <2>4. CASE job.kind \in InPlace
    <3>1. backup = released.files
      BY <1>1, <2>1, <2>4 DEF WInv, OwedInv, AtAny
    <3>2. ~(strategy = "iis" /\ blueGreen)
      BY <2>4 DEF WInv, JobInv, InPlace
    <3>3. QED
      BY <1>2, <2>1, <2>2, <3>1, <3>2 DEF Candidate
  <2>5. QED
    BY <2>1, <2>3, <2>4 DEF Deploys, InPlace
<1>13. QED
  BY <1>6, <1>8, <1>9, <1>10, <1>11, <1>12 DEF WInv

LEMMA SmokeFailsKeeps ==
  ASSUME WInv, SmokeFails
  PROVE  WInv'
<1>1. /\ job.kind # "none" /\ ScriptOf(job) = "smoke" /\ job.kind \in Deploys \cup Rollbacks
      /\ AtAny({"smoke"})
  <2>1. job.kind # "none" /\ ScriptOf(job) = "smoke"
    BY DEF SmokeFails, At, ScriptOf
  <2>2. QED
    BY <2>1, KindsOfScripts DEF AtAny
<1>2. /\ UNCHANGED <<strategy, blueGreen, dir, site, marker, up, definition, loaded, backup>>
      /\ UNCHANGED <<released, previous, strayed, excused, jobs, failures>>
      /\ job' = Recover(Excuse(job, "smoke"))
  BY DEF SmokeFails, Error, server
<1>3. job \in Job /\ job.backup # "missing"
  BY DEF WInv, TypeOK, JobInv
<1>4. ServerOK' /\ HistoryOK' /\ SiteInv'
  BY <1>2 DEF WInv, TypeOK, ServerOK, HistoryOK, SiteInv
<1>5. CASE job.kind \in Slots
  <2>1. PICK j \in Job : j = Excuse(job, "smoke")
    BY <1>3 DEF Excuse, Job
  <2>2. /\ j.kind = job.kind /\ j.backup = job.backup /\ j.active = job.active
        /\ j.excuse = job.excuse
    BY <1>3, <1>5, <2>1 DEF Excuse, Job, Slots
  <2>3. AtAny({"swap", "smoke"})
    BY <1>1 DEF AtAny
  <2>4. QED
    BY <1>2, <1>3, <1>4, <1>5, <2>1, <2>2, <2>3, SwapBackBegins
<1>6. CASE job.kind \notin Slots
  <2>1. ASSUME Owed, job.kind \in InPlace, job.kind # "deployService"
        PROVE  /\ site = "physical" /\ released.settings = Settings' /\ Alive'
               /\ job.backup = released.files
    <3>1. job.backup = released.files /\ up
      BY <1>1, <2>1 DEF WInv, OwedInv, StageInv, AtAny, InPlace
    <3>2. strategy # "service" /\ released.settings = NoRelease
      BY <2>1 DEF WInv, JobInv, ReleasedInv, Owed, InPlace
    <3>3. site = "physical"
      BY <1>1, <2>1 DEF WInv, JobInv, StageInv, SiteInv, AtAny, InPlace
    <3>4. QED
      BY <1>2, <3>1, <3>2, <3>3 DEF Settings, Alive
  <2>2. job.kind \in (Deploys \cup Rollbacks) \ Slots
    BY <1>1, <1>6
  <2>3. QED
    BY <1>2, <1>4, <2>1, <2>2, GiveUpKeeps
<1>7. QED
  BY <1>5, <1>6

LEMMA CrashKeeps ==
  ASSUME WInv, Crash
  PROVE  WInv'
<1> DEFINE untouched == {"ensure", "validate", "stop", "fill", "check", "swap"}
<1>1. job.kind # "none" /\ job \in Job
  BY DEF Crash, WInv, JobInv, TypeOK
<1>2. PICK e \in BOOLEAN : e = (job.excuse \/ ScriptOf(job) \notin untouched)
  BY <1>1 DEF Job
<1>3. /\ UNCHANGED <<strategy, blueGreen, dir, site, marker, up, definition, loaded, backup>>
      /\ UNCHANGED <<released, previous, strayed, jobs>> /\ failures' \in 0..MaxFailures
  BY FailureCount DEF Crash, server, WInv
<1>4. job' = Idle /\ excused' = (excused \/ e)
  BY <1>1, <1>2 DEF Crash, Return, ScriptOf, Job
<1>5. ServerOK' /\ HistoryOK' /\ SiteInv'
  BY <1>3, <1>4 DEF WInv, TypeOK, ServerOK, HistoryOK, SiteInv
<1>6. released # Nothing /\ ~excused /\ ~e => Serving' = released /\ Kept'
  <2>1. SUFFICES ASSUME released # Nothing, ~excused, ~e
                 PROVE  Serving' = released /\ Kept'
    OBVIOUS
  <2>2. Owed /\ AtAny(untouched)
    BY <1>1, <1>2, <2>1 DEF Owed, AtAny
  <2>3. Serving = released /\ Kept
    BY <2>2 DEF WInv, OwedInv
  <2>4. QED
    BY <1>3, <2>3 DEF Serving, Kept, Settings
<1>7. previous # NoRelease /\ ~excused /\ ~e =>
        /\ HasFiles(previous)
        /\ IF strategy = "iis" /\ blueGreen THEN dir'[Inactive(Active')] = previous
                                            ELSE backup' = previous
  <2>1. SUFFICES ASSUME previous # NoRelease, ~excused, ~e
                 PROVE  /\ HasFiles(previous)
                        /\ IF strategy = "iis" /\ blueGreen
                           THEN dir'[Inactive(Active')] = previous ELSE backup' = previous
    OBVIOUS
  <2>2. HasFiles(previous) /\ Candidate = previous
    BY <1>2, <2>1 DEF WInv, PrevInv
  <2>3. Active' = Active
    BY <1>3 DEF Active
  <2>4. CASE strategy = "iis" /\ blueGreen
    <3>1. job.kind # "swapBack"
      BY <1>1, <1>2, <2>1, KindsOfScripts DEF Slots, Deploys
    <3>2. job.kind = "rollbackSlot" => job.active = Active
      <4>1. job.kind = "rollbackSlot" => ScriptOf(job) = "swap"
        BY <1>1, <1>2, <2>1, KindsOfScripts DEF Deploys
      <4>2. QED
        BY <1>1, <2>1, <4>1 DEF WInv, PrevInv, AtAny
    <3>3. QED
      BY <1>3, <2>2, <2>3, <2>4, <3>1, <3>2 DEF Candidate
  <2>5. CASE ~(strategy = "iis" /\ blueGreen)
    BY <1>3, <2>2, <2>5 DEF Candidate
  <2>6. QED
    BY <2>2, <2>4, <2>5
<1>8. QED
  BY <1>1, <1>3, <1>4, <1>5, <1>6, <1>7, ReturnKeeps

-----------------------------------------------------------------------------
(* The invariant, and the theorems.                                        *)

LEMMA NextWInv == WInv /\ [Next]_vars => WInv'
<1> SUFFICES ASSUME WInv, [Next]_vars
             PROVE  WInv'
  OBVIOUS
<1>1. ASSUME NEW b \in Builds, StartDeploy(b)
      PROVE  WInv'
  BY <1>1, StartDeployKeeps
<1>2. CASE RollbackToBackup
  BY <1>2, RollbackToBackupKeeps
<1>3. CASE RollbackToSlot
  BY <1>3, RollbackToSlotKeeps
<1>4. CASE SwitchBlueGreen
  BY <1>4, SwitchKeeps
<1>5. CASE EnsureSite \/ Validate \/ Stop \/ Backup
  BY <1>5, EnsureSiteKeeps, ValidateKeeps, StopKeeps, BackupKeeps
<1>6. CASE Copy \/ Install \/ Start \/ ConfigureCaddy
  BY <1>6, CopyKeeps, InstallKeeps, StartKeeps, ConfigureCaddyKeeps
<1>7. CASE Fill \/ Swap \/ SwapBack
  BY <1>7, FillKeeps, SwapKeeps, SwapBackKeeps
<1>8. CASE SmokePasses \/ SmokeFails
  BY <1>8, SmokePassesKeeps, SmokeFailsKeeps
<1>9. CASE Restore \/ Restart
  BY <1>9, RestoreKeeps, RestartKeeps
<1>10. CASE Crash
  BY <1>10, CrashKeeps
<1>11. CASE UNCHANGED vars
  <2>1. /\ UNCHANGED <<strategy, blueGreen, dir, site, marker, up, definition, loaded, backup>>
        /\ UNCHANGED <<job, released, previous, strayed, excused, jobs, failures>>
    BY <1>11 DEF vars, server, history
  <2>2. TypeOK' /\ JobInv' /\ SiteInv' /\ ReleasedInv'
    BY <2>1 DEF WInv, TypeOK, JobInv, SiteInv, ReleasedInv, Length
  <2>3. StageInv'
    BY <2>1 DEF WInv, StageInv, AtAny, ScriptOf
  <2>4. OwedInv'
    BY <2>1 DEF WInv, OwedInv, Owed, AtAny, ScriptOf, Serving, Kept, Settings, Alive
  <2>5. PrevInv'
    BY <2>1 DEF WInv, PrevInv, Candidate, AtAny, ScriptOf, Active
  <2>6. QED
    BY <2>2, <2>3, <2>4, <2>5 DEF WInv
<1>12. QED
  BY <1>1, <1>2, <1>3, <1>4, <1>5, <1>6, <1>7, <1>8, <1>9, <1>10, <1>11 DEF Next, Script

LEMMA WindowsInvariant == Spec => []WInv
  BY InitWInv, NextWInv, PTL DEF Spec

\* Every job holds a script of its kind and every directory known content, through
\* broken scripts, recoveries and crashes.
THEOREM WindowsTypeCorrect == Spec => []TypeOK
<1>1. WInv => TypeOK
  BY DEF WInv
<1>2. QED
  BY <1>1, WindowsInvariant, PTL

\* Between jobs the server answers with what the last successful job left, however
\* deployments failed since (deployIIS, deployBlueGreen, deployWindowsService and
\* deployStatic with their recoveries), but for the failures the code does not undo.
THEOREM LastSuccessIsServed == Spec => []ServedIsLastSuccess
<1>1. WInv => ServedIsLastSuccess
  <2> SUFFICES ASSUME WInv, job = Idle, released # Nothing, ~excused
               PROVE  Serving = released
    BY DEF ServedIsLastSuccess
  <2>1. Owed /\ job.kind = "none"
    BY IdleIsJob DEF Owed
  <2>2. QED
    BY <2>1 DEF WInv, OwedInv
<1>2. QED
  BY <1>1, WindowsInvariant, PTL

\* A rollback started after a successful deployment finds the release before it, in
\* the newest backup or in the other slot, until a later job takes its place.
THEOREM RollbackFindsPrevious == Spec => []RollbackTargetIsPrevious
<1>1. WInv => RollbackTargetIsPrevious
  <2> SUFFICES ASSUME WInv, job = Idle, previous # NoRelease, ~excused
               PROVE  IF strategy = "iis" /\ blueGreen
                      THEN dir[Inactive(Active)] = previous ELSE backup = previous
    BY DEF RollbackTargetIsPrevious
  <2>1. Candidate = previous /\ job.kind = "none"
    BY IdleIsJob DEF WInv, PrevInv
  <2>2. QED
    BY <2>1 DEF Candidate
<1>2. QED
  BY <1>1, WindowsInvariant, PTL

\* A blue-green deployment leaves the directory that is served alone, unless the
\* site was repointed behind the marker file's back (blueGreenActiveScript reads
\* the marker, IIS serves the site).
THEOREM ServedSlotIsSpared == Spec => LiveDirectoryIsSpared
<1> DEFINE Spared == job.kind = "deploySlot" /\ site \in Dirs /\ dir'[site] # dir[site]
                       => strayed \/ dir[site] = "missing"
<1>1. ASSUME WInv, [Next]_vars
      PROVE  [Spared]_dir
  <2> SUFFICES ASSUME job.kind = "deploySlot", site \in Dirs, dir'[site] # dir[site], ~strayed
               PROVE  dir[site] = "missing"
    OBVIOUS
  <2>1. EnsureSite \/ Copy \/ Fill \/ Restore
    <3>1. dir' # dir
      OBVIOUS
    <3>2. QED
      BY <1>1, <3>1 DEF Next, Script, vars, server, StartDeploy, RollbackToBackup, RollbackToSlot,
         Begin, SwitchBlueGreen, Validate, Stop, Backup, Install, Start, ConfigureCaddy, Swap,
         SmokePasses, SmokeFails, Restart, SwapBack, Crash
  <2>2. /\ Copy => ScriptOf(job) = "copy"
        /\ Restore => ScriptOf(job) = "restore"
        /\ Fill => ScriptOf(job) = "fill"
    BY DEF Copy, Restore, Fill, At, ScriptOf
  <2>3. ~Copy /\ ~Restore
    BY <1>1, <2>2, KindsOfScripts DEF InPlace, Rollbacks
  <2>4. CASE EnsureSite
    BY <1>1, <2>4 DEF EnsureSite, WInv, TypeOK
  <2>5. CASE Fill
    <3>1. dir["physical"] # "missing"
      BY <1>1, <2>2, <2>5 DEF WInv, StageInv, AtAny
    <3>2. Active = site
      BY <1>1, <3>1, ActiveSlot
    <3>3. Inactive(site) # site /\ Inactive(site) \in Dirs
      BY InactiveSlot
    <3>4. dir'[site] = dir[site]
      BY <1>1, <2>5, <3>2, <3>3 DEF Fill, WInv, TypeOK
    <3>5. QED
      BY <3>4
  <2>6. QED
    BY <2>1, <2>3, <2>4, <2>5
<1>2. QED
  BY <1>1, WindowsInvariant, PTL DEF Spec, LiveDirectoryIsSpared
=============================================================================
