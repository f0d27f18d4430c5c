-------------------------- MODULE DockerTarget_proofs --------------------------
(***************************************************************************)
(* Proofs about the Docker target, for any names and environments and for  *)
(* any bounds.                                                             *)
(*                                                                         *)
(* The inductive invariant DInv says where in its script a job is, what    *)
(* the file and the containers are by then, and that the containers are    *)
(* those of the last success until a job touches them.                     *)
(***************************************************************************)
EXTENDS DockerTarget, TLAPS

Commands == {"auth", "clone", "build", "write", "up", "check"}
CommandOf(j) == Scripts[j.kind][j.source][j.at]
Length(j)    == Len(Scripts[j.kind][j.source])

\* What the fields of a job are while it runs.
JobInv ==
  /\ job.kind = "none" => job = Idle
  /\ job.kind # "none" =>
       /\ job.at \in 1..Length(job)
       /\ job.asked # {}
       /\ ~job.restores /\ job.artifact # None => job.artifact \in job.asked
       /\ Pointless => CommandOf(job) \in {"auth", "write"}
       /\ CommandOf(job) \in {"build", "write", "up", "check"} =>
            job.artifact # None \/ Pointless
       /\ job.kind = "deploy" => ~job.restores
       /\ job.kind = "deploy" \/ job.restores => job.previous \in {None, Newest}
       /\ job.kind = "rollback" /\ ~job.restores => RowTag \in {None, job.artifact}
       /\ job.restores => /\ job.artifact = job.previous /\ job.artifact # None
                          /\ job.expired => excused

\* What a job has made of the host when it comes to a command.
HostInv ==
  job.kind # "none" =>
    /\ CommandOf(job) = "write" /\ job.source = "compose" =>
         file # None /\ file.artifact = job.artifact
    /\ CommandOf(job) = "up" =>
         file # None /\ file.artifact = job.artifact /\ file.env = job.env
    /\ CommandOf(job) = "check" =>
         running # None /\ running.artifact = job.artifact /\ running.env = job.env

\* The newest success has the artifact it left running, or none.
TagInv == recorded # << >> => tags[1] \in {None, recorded[1].artifact}

NewestRuns == running # None /\ running.artifact = recorded[1].artifact

\* The last success runs until a job replaces its containers.
SteadyInv ==
  /\ latest => recorded # << >>
  /\ RecordedReleaseServes
  /\ RestoreRunsPrevious
  /\ /\ job.kind # "none" /\ CommandOf(job) # "check" /\ ~job.restores
     /\ recorded # << >> /\ ~excused
     => NewestRuns

DInv == TypeOK /\ JobInv /\ HostInv /\ TagInv /\ SteadyInv

-----------------------------------------------------------------------------
(* The scripts.                                                            *)

\* The order of the commands, and which jobs have which of them.
LEMMA ScriptOrder ==
  ASSUME NEW k \in {"deploy", "rollback"}, NEW s \in Sources
  PROVE  /\ Len(Scripts[k][s]) \in 1..6
         /\ Scripts[k][s][1] \in {"auth", "write"}
         /\ Scripts[k][s][1] = "write" => s # "compose" /\ (k = "deploy" => s = "image")
         /\ Scripts[k][s][1] = "auth" => (k = "rollback" => s = "compose")
         /\ \A i \in 1..Len(Scripts[k][s]) :
              LET now  == Scripts[k][s][i]
                  next == Scripts[k][s][i + 1]
              IN  /\ now \in Commands
                  /\ now # "check" => i + 1 \in 1..Len(Scripts[k][s])
                  /\ now = "auth"  => next = "clone"
                  /\ now = "clone" => \/ next = "build" /\ k = "deploy" /\ s = "dockerfile"
                                      \/ next = "write" /\ s = "compose"
                  /\ now = "build" => next = "write" /\ s = "dockerfile"
                  /\ now = "write" => next = "up"
                  /\ now = "up"    => next = "check"
<1>1. CASE k = "deploy" /\ s = "dockerfile"
  <2>1. Scripts[k][s] = <<"auth", "clone", "build", "write", "up", "check">>
    BY <1>1 DEF Scripts
  <2>2. QED
    BY <1>1, <2>1 DEF Commands
<1>2. CASE k = "deploy" /\ s = "image"
  <2>1. Scripts[k][s] = <<"write", "up", "check">>
    BY <1>2 DEF Scripts
  <2>2. QED
    BY <1>2, <2>1 DEF Commands
<1>3. CASE k = "deploy" /\ s = "compose"
  <2>1. Scripts[k][s] = <<"auth", "clone", "write", "up", "check">>
    BY <1>3 DEF Scripts
  <2>2. QED
    BY <1>3, <2>1 DEF Commands
<1>4. CASE k = "rollback" /\ s = "dockerfile"
  <2>1. Scripts[k][s] = <<"write", "up", "check">>
    BY <1>4 DEF Scripts
  <2>2. QED
    BY <1>4, <2>1 DEF Commands
<1>5. CASE k = "rollback" /\ s = "image"
  <2>1. Scripts[k][s] = <<"write", "up", "check">>
    BY <1>5 DEF Scripts
  <2>2. QED
    BY <1>5, <2>1 DEF Commands
<1>6. CASE k = "rollback" /\ s = "compose"
  <2>1. Scripts[k][s] = <<"auth", "clone", "write", "up", "check">>
    BY <1>6 DEF Scripts
  <2>2. QED
    BY <1>6, <2>1 DEF Commands
<1>7. QED
  BY <1>1, <1>2, <1>3, <1>4, <1>5, <1>6 DEF Sources

-----------------------------------------------------------------------------
(* Types.                                                                  *)

\* TypeOK without the job and the histories.
TablesOK ==
  /\ source   \in Sources
  /\ settings \in Values
  /\ images   \in [Names -> Values \cup {None}]
  /\ checkout \in BOOLEAN
  /\ file     \in File \cup {None}
  /\ running  \in Release \cup {None}
  /\ jobs     \in 0..MaxJobs
  /\ failures \in 0..MaxFailures
  /\ saves    \in 0..MaxSaves

RecordedOK == \E n \in 0..2 : /\ tags     \in [1..n -> Artifacts \cup {None}]
                             /\ recorded \in [1..n -> Release]

LEMMA FailureCount ==
  ASSUME TypeOK, Works \/ Breaks \/ UNCHANGED failures
  PROVE  failures' \in 0..MaxFailures
  BY DockerAssumption DEF TypeOK, Works, Breaks

LEMMA TypeParts == TypeOK <=> /\ TablesOK /\ job \in Job /\ RecordedOK
                              /\ latest \in BOOLEAN /\ excused \in BOOLEAN
  BY DEF TypeOK, TablesOK, RecordedOK

LEMMA IdleIsJob == Idle \in Job /\ Idle.kind = "none"
  BY DEF Idle, Job, Sources

\* The newest successes are releases, each with an artifact or none.
LEMMA RecordedTypes ==
  ASSUME RecordedOK
  PROVE  /\ recorded = << >> => Newest = None /\ tags = << >>
         /\ recorded # << >> => /\ recorded[1] \in Release /\ recorded[1].artifact \in Artifacts
                                /\ tags # << >> /\ Newest = tags[1]
                                /\ tags[1] \in Artifacts \cup {None}
         /\ Newest \in Artifacts \cup {None}
         /\ \A i \in 1..Len(tags) : /\ tags[i] \in Artifacts \cup {None}
                                    /\ recorded[i].artifact \in Artifacts
<1>1. PICK n \in 0..2 : tags \in [1..n -> Artifacts \cup {None}] /\ recorded \in [1..n -> Release]
  BY DEF RecordedOK
<1>2. recorded \in Seq(Release) /\ Len(recorded) = n
  BY <1>1
<1>3. tags \in Seq(Artifacts \cup {None}) /\ Len(tags) = n
  BY <1>1
<1>4. CASE n = 0
  <2>1. recorded = << >> /\ tags = << >>
    BY <1>2, <1>3, <1>4
  <2>2. QED
    BY <1>2, <1>3, <1>4, <2>1 DEF Newest
<1>5. CASE n \in {1, 2}
  <2>1. /\ recorded # << >> /\ tags # << >> /\ recorded[1] \in Release
        /\ tags[1] \in Artifacts \cup {None}
    BY <1>1, <1>2, <1>3, <1>5
  <2>2. \A i \in 1..Len(tags) : /\ tags[i] \in Artifacts \cup {None}
                                /\ recorded[i].artifact \in Artifacts
    BY <1>1, <1>3 DEF Release
  <2>3. QED
    BY <2>1, <2>2 DEF Newest, Release
<1>6. QED
  BY <1>4, <1>5

\* A success is recorded before the one that was the newest.
LEMMA RecordedUpdate ==
  ASSUME RecordedOK, NEW new \in Release, NEW tag \in Artifacts \cup {None},
         tags' = IF tags = << >> THEN <<tag>> ELSE <<tag, tags[1]>>,
         recorded' = IF recorded = << >> THEN <<new>> ELSE <<new, recorded[1]>>
  PROVE  RecordedOK' /\ recorded' # << >> /\ recorded'[1] = new /\ tags'[1] = tag
<1>1. CASE recorded = << >>
  <2>1. recorded' = <<new>> /\ recorded' \in [1..1 -> Release]
    BY <1>1
  <2>2. tags' = <<tag>> /\ tags' \in [1..1 -> Artifacts \cup {None}]
    BY <1>1, RecordedTypes
  <2>3. QED
    BY <2>1, <2>2 DEF RecordedOK
<1>2. CASE recorded # << >>
  <2>1. /\ recorded[1] \in Release /\ tags # << >>
        /\ tags[1] \in Artifacts \cup {None}
    BY <1>2, RecordedTypes
  <2>2. recorded' = <<new, recorded[1]>> /\ recorded' \in [1..2 -> Release]
    BY <1>2, <2>1
  <2>3. tags' = <<tag, tags[1]>> /\ tags' \in [1..2 -> Artifacts \cup {None}]
    BY <2>1
  <2>4. QED
    BY <2>2, <2>3 DEF RecordedOK
<1>3. QED
  BY <1>1, <1>2

\* Nothing is recorded.
LEMMA RecordedKept ==
  ASSUME RecordedOK, UNCHANGED <<tags, recorded>>
  PROVE  RecordedOK' /\ Newest' = Newest /\ (TagInv => TagInv')
  BY DEF RecordedOK, Newest, TagInv

\* What a restore goes back to is the newest success.
LEMMA PreviousIsNewest ==
  ASSUME DInv, job.kind = "deploy" \/ job.restores, job.previous # None
  PROVE  recorded # << >> /\ job.previous = recorded[1].artifact
<1>1. RecordedOK /\ TagInv /\ job.kind # "none"
  BY TypeParts, IdleIsJob DEF DInv, JobInv, Idle
<1>2. job.previous = Newest
  BY <1>1 DEF DInv, JobInv
<1>3. QED
  BY <1>1, <1>2, RecordedTypes DEF TagInv

LEMMA TypePrimed ==
  ASSUME TablesOK', job' \in Job, RecordedOK', latest' \in BOOLEAN, excused' \in BOOLEAN
  PROVE  TypeOK'
  BY DEF TypeOK, TablesOK, RecordedOK

\* Jobs with one field changed.
LEMMA JobUpdates ==
  ASSUME NEW j \in Job
  PROVE  /\ [j EXCEPT !.kind = "deploy"] \in Job /\ [j EXCEPT !.kind = "rollback"] \in Job
         /\ \A x \in SUBSET Artifacts : [j EXCEPT !.asked = x] \in Job
         /\ \A x \in Artifacts \cup {None} : /\ [j EXCEPT !.artifact = x] \in Job
                                             /\ [j EXCEPT !.previous = x] \in Job
<1>1. [j EXCEPT !.kind = "deploy"] \in Job
  BY DEF Job
<1>2. [j EXCEPT !.kind = "rollback"] \in Job
  BY DEF Job
<1>3. ASSUME NEW x \in SUBSET Artifacts PROVE [j EXCEPT !.asked = x] \in Job
  BY DEF Job
<1>4. ASSUME NEW x \in Artifacts \cup {None} PROVE [j EXCEPT !.artifact = x] \in Job
  BY DEF Job
<1>5. ASSUME NEW x \in Artifacts \cup {None} PROVE [j EXCEPT !.previous = x] \in Job
  BY DEF Job
<1>6. QED
  BY <1>1, <1>2, <1>3, <1>4, <1>5

-----------------------------------------------------------------------------
(* The ways a command ends.                                                *)

\* The job returns its error: it had not touched the containers, or it is excused,
\* or there is nothing that should run.
LEMMA ReturnKeeps ==
  ASSUME DInv, job.kind # "none", TablesOK', NEW excuse \in BOOLEAN, Return(excuse),
         \/ recorded = << >> \/ excuse \/ excused
         \/ running' = running /\ CommandOf(job) # "check" /\ ~job.restores
  PROVE  DInv'
<1>1. /\ job' = Idle /\ latest' = FALSE /\ excused' = (excused \/ excuse)
      /\ recorded' = recorded /\ tags' = tags
  BY DEF Return
<1>2. TypeOK' /\ TagInv'
  <2>1. RecordedOK /\ TagInv /\ excused \in BOOLEAN
    BY TypeParts DEF DInv
  <2>2. RecordedOK' /\ TagInv' /\ excused' \in BOOLEAN
    BY <1>1, <2>1, RecordedKept
  <2>3. job' \in Job /\ latest' \in BOOLEAN
    BY <1>1, IdleIsJob
  <2>4. QED
    BY <2>2, <2>3, TypePrimed
<1>3. JobInv' /\ HostInv'
  BY <1>1, IdleIsJob DEF JobInv, HostInv
<1>4. SteadyInv'
  <2>1. recorded # << >> /\ ~excused' => NewestRuns'
    BY <1>1 DEF DInv, SteadyInv, NewestRuns
  <2>2. QED
    BY <1>1, <2>1, IdleIsJob DEF SteadyInv, RecordedReleaseServes, RestoreRunsPrevious, NewestRuns
<1>5. QED
  BY <1>2, <1>3, <1>4 DEF DInv

\* The job goes on to its next command.
LEMMA ProceedFields ==
  ASSUME DInv, job.kind # "none", CommandOf(job) # "check",
         NEW j \in Job, j.kind = job.kind, j.source = job.source, j.at = job.at, Proceed(j)
  PROVE  /\ job' \in Job /\ job'.kind = job.kind /\ job'.source = job.source
         /\ job'.at = job.at + 1 /\ job'.at \in 1..Length(job')
         /\ CommandOf(job') = Scripts[job.kind][job.source][job.at + 1]
         /\ job'.env = j.env /\ job'.asked = j.asked /\ job'.artifact = j.artifact
         /\ job'.previous = j.previous /\ job'.restores = j.restores
         /\ job'.expired = j.expired
<1>1. /\ job.kind \in {"deploy", "rollback"} /\ job.source \in Sources
      /\ job.at \in 1..Length(job) /\ Length(job) \in 1..6
      /\ job.at + 1 \in 1..Length(job)
  BY ScriptOrder DEF DInv, TypeOK, Job, JobInv, Length, CommandOf
<1>2. job' = [j EXCEPT !.at = @ + 1]
  BY DEF Proceed
<1>3. /\ job'.kind = j.kind /\ job'.source = j.source /\ job'.at = j.at + 1
      /\ job'.env = j.env /\ job'.asked = j.asked /\ job'.artifact = j.artifact
      /\ job'.previous = j.previous /\ job'.restores = j.restores
      /\ job'.expired = j.expired
  BY <1>2 DEF Job
<1>4. job' \in Job
  BY <1>1, <1>2 DEF Job
<1>5. QED
  BY <1>1, <1>3, <1>4 DEF Length, CommandOf

LEMMA ProceedKeeps ==
  ASSUME DInv, job.kind # "none", CommandOf(job) # "check", TablesOK',
         NEW j \in Job, j.kind = job.kind, j.source = job.source, j.at = job.at,
         j.env = job.env, j.asked = job.asked, j.previous = job.previous,
         j.restores = job.restores, j.expired = job.expired,
         ~j.restores /\ j.artifact # None => j.artifact \in j.asked,
         ~Pointless, j.kind = "rollback" => j.artifact = job.artifact,
         CommandOf(job) # "auth" => j.artifact # None,
         Proceed(j), HostInv',
         running' = running \/ CommandOf(job) = "up"
  PROVE  DInv'
<1>1. /\ job' \in Job /\ job'.kind = job.kind /\ job'.source = job.source
      /\ job'.at = job.at + 1 /\ job'.at \in 1..Length(job')
      /\ CommandOf(job') = Scripts[job.kind][job.source][job.at + 1]
      /\ job'.env = j.env /\ job'.asked = j.asked /\ job'.artifact = j.artifact
      /\ job'.previous = j.previous /\ job'.restores = j.restores
      /\ job'.expired = j.expired
  BY ProceedFields
<1>2. UNCHANGED <<tags, recorded, latest, excused>>
  BY DEF Proceed, history
<1>3. TypeOK' /\ TagInv'
  <2>1. RecordedOK /\ TagInv /\ latest \in BOOLEAN /\ excused \in BOOLEAN
    BY TypeParts DEF DInv
  <2>2. QED
    BY <1>1, <1>2, <2>1, RecordedKept, TypePrimed
<1>4. JobInv'
  <2>1. /\ job.kind \in {"deploy", "rollback"} /\ job.source \in Sources
        /\ job.at \in 1..Length(job)
    BY DEF DInv, TypeOK, Job, JobInv
  <2>2. CommandOf(job) = "auth" => CommandOf(job') = "clone"
    BY <1>1, <2>1, ScriptOrder DEF CommandOf, Length
  <2>3. Newest' = Newest /\ RowTag' = RowTag
    BY <1>1, <1>2 DEF Newest, RowTag, RollbackRow
  <2>4. CommandOf(job') \in {"build", "write", "up", "check"} => job'.artifact # None
    BY <1>1, <2>2
  <2>5. ~Pointless'
    BY <1>1 DEF Pointless
  <2>6. job.restores => job.kind = "rollback"
    BY <2>1 DEF DInv, JobInv
  <2>7. QED
    BY <1>1, <1>2, <2>1, <2>3, <2>4, <2>5, <2>6 DEF DInv, JobInv
<1>5. SteadyInv'
  <2>1. CommandOf(job) = "up" => CommandOf(job') = "check"
    BY <1>1, ScriptOrder DEF DInv, TypeOK, Job, JobInv, CommandOf, Length
  <2>2. job' # Idle
    BY <1>1, IdleIsJob
  <2>3. QED
    BY <1>1, <1>2, <2>1, <2>2
    DEF DInv, SteadyInv, RecordedReleaseServes, RestoreRunsPrevious, NewestRuns
<1>6. QED
  BY <1>3, <1>4, <1>5 DEF DInv

\* A job that may have replaced the containers restores the last success, or fails.
LEMMA RecoverKeeps ==
  ASSUME DInv, job.kind # "none", CommandOf(job) \in {"up", "check"}, TablesOK', Recover
  PROVE  DInv'
<1>0. TypeOK /\ JobInv /\ RecordedOK /\ job \in Job
  BY TypeParts DEF DInv
<1>1. CASE job.kind = "deploy" /\ job.previous # None
  <2>1. /\ Restored \in Job /\ Restored.kind = "rollback" /\ Restored.restores = TRUE
        /\ Restored.at = 1 /\ Restored.artifact = job.previous /\ Restored.expired = FALSE
        /\ Restored.source = job.source /\ Restored.asked = job.asked
        /\ Restored.previous = job.previous
    <3>1. /\ Restored.kind = "rollback" /\ Restored.restores = TRUE /\ Restored.at = 1
          /\ Restored.artifact = job.previous /\ Restored.expired = FALSE
      BY <1>0 DEF Restored, Job
    <3>2. /\ Restored.source = job.source /\ Restored.asked = job.asked
          /\ Restored.previous = job.previous /\ Restored.env = job.env
      BY <1>0 DEF Restored, Job
    <3>3. Restored \in Job
      <4> DEFINE j1 == [job EXCEPT !.kind = "rollback"]
                 j2 == [j1 EXCEPT !.restores = TRUE]
                 j3 == [j2 EXCEPT !.at = 1]
                 j4 == [j3 EXCEPT !.artifact = job.previous]
      <4>1. j1 \in Job
        BY <1>0 DEF Job
      <4>2. j2 \in Job
        <5> HIDE DEF j1
        <5> QED  BY <4>1 DEF Job
      <4>3. j3 \in Job
        <5> HIDE DEF j2
        <5> QED  BY <4>2 DEF Job
      <4>4. j4 \in Job
        <5> HIDE DEF j3
        <5> QED  BY <1>0, <4>3 DEF Job
      <4>5. [j4 EXCEPT !.expired = FALSE] \in Job
        <5> HIDE DEF j4
        <5> QED  BY <4>4 DEF Job
      <4>6. QED
        BY <4>5 DEF Restored
    <3>4. QED
      BY <3>1, <3>2, <3>3
  <2>2. job' = Restored /\ UNCHANGED <<tags, recorded, latest, excused>>
    BY <1>1 DEF Recover, history
  <2> HIDE DEF Restored
  <2>3. TypeOK' /\ TagInv'
    BY <1>0, <2>1, <2>2, RecordedKept, TypePrimed DEF TypeOK, DInv
  <2>4. /\ 1 \in 1..Length(job') /\ CommandOf(job') \in {"auth", "write"}
        /\ CommandOf(job') = "write" => job'.source # "compose"
    BY <1>0, <2>1, <2>2, ScriptOrder DEF Job, Length, CommandOf
  <2>5. JobInv'
    <3>1. Newest' = Newest /\ job.previous = Newest /\ ~Pointless'
      BY <1>0, <1>1, <2>1, <2>2 DEF Newest, JobInv, Pointless
    <3>2. QED
      BY <1>0, <1>1, <2>1, <2>2, <2>4, <3>1 DEF JobInv
  <2>6. HostInv'
    BY <2>4 DEF HostInv
  <2>7. SteadyInv'
    BY <2>1, <2>2, IdleIsJob
    DEF DInv, SteadyInv, RecordedReleaseServes, RestoreRunsPrevious
  <2>8. QED
    BY <2>3, <2>5, <2>6, <2>7 DEF DInv
<1>2. CASE ~(job.kind = "deploy" /\ job.previous # None)
  <2> DEFINE excuse == Unrecovered \/ ~job.restores
  <2>1. excuse \in BOOLEAN /\ Return(excuse)
    BY <1>2 DEF Recover
  <2>2. excuse \/ excused
    BY <1>0 DEF JobInv, Unrecovered
  <2> HIDE DEF excuse
  <2>3. QED
    BY <2>1, <2>2, ReturnKeeps
<1>3. QED
  BY <1>1, <1>2

\* A success is recorded, with the artifact it left running or with none.
LEMMA KeepKeeps ==
  ASSUME DInv, job.kind # "none", CommandOf(job) = "check", ~Pointless, TablesOK', job' = Idle,
         UNCHANGED running, NEW tag \in {None, job.artifact}, Keep(tag)
  PROVE  DInv'
<1>1. /\ RecordedOK /\ job \in Job /\ job.artifact # None
      /\ running # None /\ running \in Release
      /\ running.artifact = job.artifact /\ running.env = job.env
  BY TypeParts DEF DInv, JobInv, HostInv, TypeOK
<1> DEFINE new == [artifact |-> job.artifact, env |-> job.env,
                   build |-> IF running = None THEN None ELSE running.build]
<1>2. new \in Release /\ new = running
  BY <1>1 DEF Release, Job
<1>3. /\ latest' = TRUE /\ excused' = FALSE
      /\ tags' = IF tags = << >> THEN <<tag>> ELSE <<tag, tags[1]>>
      /\ recorded' = IF recorded = << >> THEN <<new>> ELSE <<new, recorded[1]>>
  BY DEF Keep
<1> HIDE DEF new
<1>4. tag \in Artifacts \cup {None}
  BY <1>1 DEF Job
<1>5. RecordedOK' /\ recorded' # << >> /\ recorded'[1] = new /\ tags'[1] = tag
  BY <1>1, <1>2, <1>3, <1>4, RecordedUpdate
<1>6. TypeOK'
  BY <1>3, <1>5, IdleIsJob, TypePrimed
<1>7. TagInv'
  BY <1>1, <1>2, <1>5 DEF TagInv
<1>8. JobInv' /\ HostInv'
  BY IdleIsJob DEF JobInv, HostInv
<1>9. SteadyInv'
  BY <1>1, <1>2, <1>3, <1>5, IdleIsJob
  DEF SteadyInv, RecordedReleaseServes, RestoreRunsPrevious, NewestRuns
<1>10. QED
  BY <1>6, <1>7, <1>8, <1>9 DEF DInv

\* The target is done: what it put live is recorded, or restored, or the row fails.
LEMMA SucceedKeeps ==
  ASSUME DInv, job.kind # "none", CommandOf(job) = "check", ~Pointless, TablesOK', Succeed,
         UNCHANGED running
  PROVE  DInv'
<1>0. /\ TypeOK /\ JobInv /\ TagInv /\ RecordedOK /\ job \in Job /\ job.artifact # None
      /\ running # None /\ running.artifact = job.artifact
  BY TypeParts DEF DInv, JobInv, HostInv, TypeOK
<1>1. job' = Idle
  BY DEF Succeed
<1>2. CASE job.restores /\ latest' = FALSE /\ excused' = FALSE /\ UNCHANGED <<tags, recorded>>
  <2>1. TypeOK' /\ TagInv'
    BY <1>0, <1>1, <1>2, IdleIsJob, RecordedKept, TypePrimed
  <2>2. JobInv' /\ HostInv'
    BY <1>1, IdleIsJob DEF JobInv, HostInv
  <2>3. NewestRuns'
    <3>1. job.previous = recorded[1].artifact /\ job.artifact = job.previous
      BY <1>0, <1>2, PreviousIsNewest DEF JobInv
    <3>2. QED
      BY <1>0, <1>2, <3>1 DEF NewestRuns
  <2>4. SteadyInv'
    BY <1>1, <1>2, <2>3, IdleIsJob
    DEF SteadyInv, RecordedReleaseServes, RestoreRunsPrevious, NewestRuns
  <2>5. QED
    BY <2>1, <2>2, <2>4 DEF DInv
<1>3. CASE Keep(job.artifact)
  BY <1>1, <1>3, KeepKeeps
<1>4. CASE ~job.restores /\ Keep(RowTag)
  <2>1. RowTag \in {None, job.artifact}
    BY <1>0, <1>4 DEF RowTag, JobInv, Job
  <2>2. QED
    BY <1>1, <1>4, <2>1, KeepKeeps
<1>5. CASE latest' = FALSE /\ excused' = TRUE /\ UNCHANGED <<tags, recorded>>
  <2>1. Return(TRUE)
    BY <1>1, <1>5 DEF Return
  <2>2. QED
    BY <2>1, ReturnKeeps
<1>6. QED
  BY <1>2, <1>3, <1>4, <1>5 DEF Succeed

-----------------------------------------------------------------------------
(* The actions.                                                            *)

\* A job that starts has not touched the host yet.
LEMMA StartKeeps ==
  ASSUME DInv, NEW j \in Job, Start(j), j.kind # "none", j.at = 1, j.asked # {},
         j.restores = FALSE, j.artifact # None => j.artifact \in j.asked,
         j.kind = "deploy" /\ source = "image" => j.artifact # None,
         j.kind = "deploy" => j.previous \in {None, Newest},
         j.kind = "rollback" => tags[RollbackRow] \in {None, j.artifact},
         failures' \in 0..MaxFailures
  PROVE  DInv'
<1>0. TypeOK /\ SteadyInv /\ source \in Sources /\ settings \in Values
  BY DEF DInv, TypeOK
<1>1. /\ job = Idle /\ jobs < MaxJobs /\ jobs' = jobs + 1
      /\ UNCHANGED <<project, host, history, saves>>
      /\ job' = [j EXCEPT !.source = source, !.env = settings]
  BY DEF Start
<1>2. /\ job' \in Job /\ job'.kind = j.kind /\ job'.source = source /\ job'.at = 1
      /\ job'.asked = j.asked /\ job'.artifact = j.artifact /\ job'.previous = j.previous
      /\ job'.restores = FALSE
  BY <1>0, <1>1 DEF Job
<1>3. TypeOK' /\ TagInv'
  <2>1. TablesOK'
    BY <1>0, <1>1, DockerAssumption DEF TypeOK, TablesOK, project, host
  <2>2. RecordedOK /\ TagInv /\ latest \in BOOLEAN /\ excused \in BOOLEAN
    BY TypeParts DEF DInv
  <2>3. RecordedOK' /\ TagInv' /\ latest' \in BOOLEAN /\ excused' \in BOOLEAN
    BY <1>1, <2>2, RecordedKept DEF history
  <2>4. QED
    BY <1>2, <2>1, <2>3, TypePrimed
<1>4. /\ 1 \in 1..Length(job') /\ CommandOf(job') \in {"auth", "write"}
      /\ CommandOf(job') = "write" =>
           job'.source # "compose" /\ (job'.kind = "deploy" => job'.source = "image")
  BY <1>0, <1>2, ScriptOrder DEF Job, Length, CommandOf
<1>5. JobInv'
  <2>1. Newest' = Newest
    BY <1>1 DEF Newest, history
  <2>2. job'.kind \in {"deploy", "rollback"}
    BY <1>2 DEF Job
  <2>3. job'.kind = "rollback" => RowTag' \in {None, job'.artifact}
    BY <1>1, <1>2, <2>2 DEF RowTag, RollbackRow, history
  <2>4. QED
    BY <1>2, <1>4, <2>1, <2>2, <2>3 DEF JobInv, Pointless
<1>6. HostInv'
  BY <1>4 DEF HostInv
<1>7. SteadyInv'
  <2>1. job' # Idle
    BY <1>2, IdleIsJob
  <2>2. QED
    BY <1>0, <1>1, <2>1
    DEF SteadyInv, RecordedReleaseServes, RestoreRunsPrevious, NewestRuns, history, host
<1>8. QED
  BY <1>3, <1>5, <1>6, <1>7 DEF DInv

\* A deployment is asked for artifacts of the project's source.
LEMMA StartDeployFields ==
  ASSUME DInv, StartDeploy
  PROVE  \E j \in Job : /\ Start(j) /\ j.kind = "deploy" /\ j.at = 1 /\ j.asked # {}
                        /\ j.restores = FALSE /\ j.previous \in {None, Newest}
                        /\ j.artifact # None => j.artifact \in j.asked
                        /\ source = "image" => j.artifact # None
                        /\ failures' \in 0..MaxFailures
<1>0. TypeOK /\ source \in Sources /\ Newest \in Artifacts \cup {None}
  BY TypeParts, RecordedTypes DEF DInv, TypeOK
<1> DEFINE releases == {a \in Artifacts : a.source = source}
<1>1. PICK asked \in {{a} : a \in releases} \cup (IF source = "image" THEN {} ELSE {releases}),
           previous \in {Newest, None} :
        /\ Start([Idle EXCEPT !.kind = "deploy", !.asked = asked, !.previous = previous,
                              !.artifact = IF source = "image" THEN CHOOSE a \in asked : TRUE
                                                               ELSE None])
        /\ IF previous = Newest THEN UNCHANGED failures
           ELSE failures < MaxFailures /\ failures' = failures + 1
  BY DEF StartDeploy
<1>2. releases # {} /\ releases \subseteq Artifacts
  <2>1. PICK n \in Names : TRUE
    BY DockerAssumption
  <2>2. [source |-> source, name |-> n] \in releases
    BY <1>0, <2>1 DEF Artifacts
  <2>3. QED
    BY <2>2
<1> DEFINE artifact == IF source = "image" THEN CHOOSE a \in asked : TRUE ELSE None
<1> HIDE DEF releases
<1>3. asked # {} /\ asked \subseteq Artifacts
  BY <1>1, <1>2
<1>4. artifact \in asked \cup {None} /\ (source = "image" => artifact \in asked)
  BY <1>3
<1>5. None \notin asked
  BY <1>3, NoneAssumption
<1> HIDE DEF artifact
<1> DEFINE j == [Idle EXCEPT !.kind = "deploy", !.asked = asked, !.previous = previous,
                             !.artifact = artifact]
<1>6. /\ j \in Job /\ j.kind = "deploy" /\ j.at = 1 /\ j.asked = asked /\ j.restores = FALSE
      /\ j.artifact = artifact /\ j.previous = previous
  <2>1. j.kind = "deploy" /\ j.at = 1 /\ j.asked = asked /\ j.restores = FALSE
        /\ j.artifact = artifact /\ j.previous = previous
    BY DEF Idle
  <2>2. j \in Job
    <3> DEFINE j1 == [Idle EXCEPT !.kind = "deploy"]
               j2 == [j1 EXCEPT !.asked = asked]
               j3 == [j2 EXCEPT !.previous = previous]
    <3>1. j1 \in Job
      BY IdleIsJob, JobUpdates
    <3>2. j2 \in Job
      <4> HIDE DEF j1
      <4> QED  BY <1>3, <3>1, JobUpdates
    <3>3. j3 \in Job
      <4> HIDE DEF j2
      <4> QED  BY <1>0, <3>2, JobUpdates
    <3>4. [j3 EXCEPT !.artifact = artifact] \in Job
      <4> HIDE DEF j3
      <4> QED  BY <1>3, <1>4, <3>3, JobUpdates
    <3>5. QED
      BY <3>4
  <2>3. QED
    BY <2>1, <2>2
<1>7. Start(j)
  BY <1>1 DEF artifact
<1> HIDE DEF j
<1>8. failures' \in 0..MaxFailures
  BY <1>0, <1>1, DockerAssumption DEF TypeOK
<1>9. QED
  BY <1>1, <1>3, <1>4, <1>5, <1>6, <1>7, <1>8

\* A rollback starts with the artifact of its row, with the row's commit, or with none.
LEMMA StartRollbackFields ==
  ASSUME DInv, StartRollback
  PROVE  \E j \in Job : /\ Start(j) /\ j.kind = "rollback" /\ j.at = 1 /\ j.asked # {}
                        /\ j.restores = FALSE
                        /\ j.artifact # None => j.artifact \in j.asked
                        /\ tags[RollbackRow] \in {None, j.artifact}
                        /\ failures' \in 0..MaxFailures
<1> DEFINE row == RollbackRow
<1>1. row \in 1..Len(tags)
  <2>1. Len(tags) \in Nat
    <3>1. PICK n \in 0..2 : tags \in [1..n -> Artifacts \cup {None}]
      BY TypeParts DEF DInv, RecordedOK
    <3>2. tags \in Seq(Artifacts \cup {None})
      BY <3>1
    <3>3. QED
      BY <3>2
  <2>2. QED
    BY <2>1 DEF StartRollback, RollbackRow
<1>2. tags[row] \in Artifacts \cup {None} /\ recorded[row].artifact \in Artifacts
  BY <1>1, TypeParts, RecordedTypes DEF DInv
<1>3. PICK a \in RowArtifact(row) :
        Start([Idle EXCEPT !.kind = "rollback", !.artifact = a,
                           !.asked = {IF a = None THEN recorded[row].artifact ELSE a}])
  BY DEF StartRollback
<1> HIDE DEF row
<1>4. a \in Artifacts \cup {None} /\ tags[row] \in {None, a}
  <2>1. [recorded[row].artifact EXCEPT !.source = "compose"] \in Artifacts
    BY <1>2 DEF Artifacts, Sources
  <2>2. QED
    BY <1>2, <1>3, <2>1 DEF RowArtifact
<1> DEFINE asked == {IF a = None THEN recorded[row].artifact ELSE a}
<1>5. asked # {} /\ asked \in SUBSET Artifacts /\ (a # None => a \in asked)
  BY <1>2, <1>4
<1> HIDE DEF asked
<1> DEFINE j == [Idle EXCEPT !.kind = "rollback", !.artifact = a, !.asked = asked]
<1>6. /\ j.kind = "rollback" /\ j.at = 1 /\ j.asked = asked
      /\ j.restores = FALSE /\ j.artifact = a
  BY DEF Idle
<1>7. j \in Job
  <2> DEFINE j1 == [Idle EXCEPT !.kind = "rollback"]
             j2 == [j1 EXCEPT !.artifact = a]
  <2>1. j1 \in Job
    BY IdleIsJob, JobUpdates
  <2>2. j2 \in Job
    <3> HIDE DEF j1
    <3> QED  BY <1>4, <2>1, JobUpdates
  <2>3. [j2 EXCEPT !.asked = asked] \in Job
    <3> HIDE DEF j2
    <3> QED  BY <1>5, <2>2, JobUpdates
  <2>4. QED
    BY <2>3
<1>8. Start(j)
  BY <1>3 DEF asked
<1>9. failures' \in 0..MaxFailures
  BY DEF DInv, TypeOK, StartRollback
<1> HIDE DEF j
<1>10. QED
  BY <1>4, <1>5, <1>6, <1>7, <1>8, <1>9 DEF row

LEMMA SaveProjectKeeps ==
  ASSUME DInv, SaveProject
  PROVE  DInv'
<1>1. UNCHANGED <<host, job, history, jobs, failures>>
      /\ source' \in Sources /\ settings' \in Values /\ saves' \in 0..MaxSaves
  BY DockerAssumption DEF DInv, TypeOK, SaveProject
<1>2. TypeOK' /\ TagInv'
  <2>1. TablesOK'
    BY <1>1 DEF DInv, TypeOK, TablesOK, host
  <2>2. RecordedOK /\ TagInv /\ UNCHANGED <<tags, recorded, job, latest, excused>>
    BY <1>1, TypeParts DEF DInv, history
  <2>3. RecordedOK' /\ TagInv'
    BY <2>2, RecordedKept
  <2>4. QED
    BY <2>1, <2>2, <2>3, TypePrimed DEF DInv, TypeOK
<1>3. JobInv' /\ HostInv'
  BY <1>1 DEF DInv, JobInv, HostInv, Newest, RowTag, RollbackRow, Pointless, host, history
<1>4. SteadyInv'
  BY <1>1 DEF DInv, SteadyInv, RecordedReleaseServes, RestoreRunsPrevious, NewestRuns,
     host, history
<1>5. QED
  BY <1>2, <1>3, <1>4 DEF DInv

\* What holds whenever a command runs.
LEMMA Running ==
  ASSUME DInv, job.kind # "none"
  PROVE  /\ TypeOK /\ JobInv /\ HostInv /\ TablesOK /\ job \in Job
         /\ job.kind \in {"deploy", "rollback"} /\ job.source \in Sources
         /\ Unrecovered \in BOOLEAN /\ (job.restores => Unrecovered \/ excused)
         /\ job.at \in 1..Length(job)
  BY TypeParts DEF DInv, TypeOK, Job, JobInv, Unrecovered

\* The command after the running one.
LEMMA NextCommand ==
  ASSUME DInv, job.kind # "none"
  PROVE  LET next == Scripts[job.kind][job.source][job.at + 1]
         IN  /\ CommandOf(job) = "auth"  => next = "clone"
             /\ CommandOf(job) = "build" => next = "write" /\ job.source = "dockerfile"
             /\ CommandOf(job) = "write" => next = "up"
             /\ CommandOf(job) = "up"    => next = "check"
<1>1. job.kind \in {"deploy", "rollback"} /\ job.source \in Sources /\ job.at \in 1..Length(job)
  BY Running
<1>2. PICK k \in {"deploy", "rollback"}, q \in Sources : k = job.kind /\ q = job.source
  BY <1>1
<1>3. PICK i \in 1..Len(Scripts[k][q]) : i = job.at
  BY <1>1, <1>2 DEF Length
<1>4. /\ Scripts[k][q][i] = "auth"  => Scripts[k][q][i + 1] = "clone"
      /\ Scripts[k][q][i] = "build" => Scripts[k][q][i + 1] = "write" /\ q = "dockerfile"
      /\ Scripts[k][q][i] = "write" => Scripts[k][q][i + 1] = "up"
      /\ Scripts[k][q][i] = "up"    => Scripts[k][q][i + 1] = "check"
  BY ScriptOrder
<1>5. QED
  BY <1>2, <1>3, <1>4 DEF CommandOf

\* A command before the containers are replaced fails.
LEMMA EarlyReturnKeeps ==
  ASSUME DInv, job.kind # "none", CommandOf(job) \notin {"up", "check"}, TablesOK',
         UNCHANGED running, Return(Unrecovered)
  PROVE  DInv'
  BY Running, ReturnKeeps DEF Job

LEMMA RefuseKeeps ==
  ASSUME DInv, Refuse
  PROVE  DInv'
<1>1. /\ job.kind # "none" /\ Pointless /\ UNCHANGED <<project, host, counts>> /\ Return(FALSE)
  BY DEF Refuse, Pointless
<1>2. TablesOK'
  BY <1>1, Running DEF TablesOK, project, host, counts
<1>3. CommandOf(job) # "check" /\ ~job.restores
  BY <1>1, Running DEF JobInv, Pointless
<1>4. QED
  BY <1>1, <1>2, <1>3, ReturnKeeps DEF host

LEMMA PrepareGitAuthKeeps ==
  ASSUME DInv, PrepareGitAuth
  PROVE  DInv'
<1>1. /\ job.kind # "none" /\ ~Pointless /\ CommandOf(job) = "auth"
      /\ UNCHANGED <<project, host, jobs, saves>>
  BY DEF PrepareGitAuth, At, CommandOf
<1>2. TablesOK'
  BY <1>1, Running, FailureCount DEF PrepareGitAuth, TablesOK, project, host
<1>3. CASE Proceed(job)
  <2>1. CommandOf(job') = "clone"
    BY <1>1, <1>3, Running, ProceedFields, NextCommand
  <2>2. HostInv'
    BY <2>1 DEF HostInv
  <2>3. QED
    BY <1>1, <1>2, <1>3, <2>2, Running, ProceedKeeps DEF JobInv, host
<1>4. CASE Return(Unrecovered)
  BY <1>1, <1>2, <1>4, EarlyReturnKeeps DEF host
<1>5. QED
  BY <1>3, <1>4 DEF PrepareGitAuth

LEMMA CloneKeeps ==
  ASSUME DInv, Clone
  PROVE  DInv'
<1> DEFINE revisions == {a \in IF job.artifact = None THEN job.asked ELSE {job.artifact} :
                           a.source = job.source}
           cleaned   == {None} \cup [artifact : revisions, env : {None}]
<1>1. /\ job.kind # "none" /\ ~Pointless /\ CommandOf(job) = "clone"
      /\ UNCHANGED <<project, images, running, jobs, saves>>
  BY DEF Clone, At, CommandOf
<1>2. job.asked \subseteq Artifacts /\ revisions \subseteq Artifacts /\ job.source # "image"
  BY <1>1, Running, ScriptOrder, NoneAssumption DEF Job, CommandOf, Length
<1>3. ASSUME NEW a \in revisions, checkout' = TRUE,
             file' = IF job.source = "compose" THEN [artifact |-> a, env |-> None] ELSE None,
             Proceed([job EXCEPT !.artifact = a]), UNCHANGED failures
      PROVE  DInv'
  <2> DEFINE j == [job EXCEPT !.artifact = a]
  <2>1. /\ j \in Job /\ j.kind = job.kind /\ j.source = job.source /\ j.at = job.at
        /\ j.env = job.env /\ j.asked = job.asked /\ j.previous = job.previous
        /\ j.restores = job.restores /\ j.expired = job.expired /\ j.artifact = a
    BY <1>1, <1>2, Running DEF Job
  <2>2. a \in Artifacts /\ a # None
    BY <1>2, NoneAssumption
  <2>3. Proceed(j)
    BY <1>3
  <2> HIDE DEF j
  <2>4. file' \in File \cup {None}
    BY <1>3, <2>2 DEF File
  <2>5. TablesOK'
    BY <1>1, <1>3, <2>4, Running, FailureCount DEF TablesOK, project
  <2>6. CommandOf(job') \in {"build", "write"} /\ job'.artifact = a /\ job'.source = job.source
    <3>1. /\ job'.artifact = j.artifact /\ job'.source = job.source
          /\ CommandOf(job') = Scripts[job.kind][job.source][job.at + 1]
      BY <1>1, <2>1, <2>3, ProceedFields
    <3>2. Scripts[job.kind][job.source][job.at + 1] \in {"build", "write"}
      BY <1>1, Running, ScriptOrder DEF CommandOf, Length
    <3>3. QED
      BY <2>1, <3>1, <3>2
  <2>7. HostInv'
    <3>1. job.source = "compose" => file' # None /\ file'.artifact = a
      BY <1>3, <2>2, NoneAssumption DEF File
    <3>2. QED
      BY <2>6, <3>1 DEF HostInv
  <2>8. ~job.restores => a \in job.asked
    BY <1>1, Running, <1>3 DEF JobInv
  <2>9. job.kind = "rollback" => a = job.artifact
    BY <1>1 DEF Pointless
  <2>10. QED
    BY <1>1, <2>1, <2>2, <2>3, <2>5, <2>7, <2>8, <2>9, ProceedKeeps
<1>4. ASSUME checkout' \in {checkout, TRUE}, file' \in {file} \cup cleaned, Works \/ Breaks,
             Return(Unrecovered)
      PROVE  DInv'
  <2>1. file' \in File \cup {None}
    BY <1>1, <1>2, <1>4, Running DEF TablesOK, File
  <2>2. TablesOK'
    BY <1>1, <1>4, <2>1, Running, FailureCount DEF TablesOK, project
  <2>3. QED
    BY <1>1, <1>4, <2>2, EarlyReturnKeeps
<1>5. QED
  BY <1>3, <1>4 DEF Clone, Works

LEMMA BuildKeeps ==
  ASSUME DInv, Build
  PROVE  DInv'
<1>1. /\ job.kind # "none" /\ ~Pointless /\ CommandOf(job) = "build"
      /\ UNCHANGED <<project, checkout, file, running, jobs, saves>>
  BY DEF Build, At, CommandOf
<1>2. job.artifact \in Artifacts /\ job.env \in Values \cup {None} /\ job.source = "dockerfile"
      /\ job.artifact.name \in Names
  BY <1>1, Running, ScriptOrder DEF JobInv, Job, Artifacts, CommandOf, Length
<1>3. TablesOK'
  BY <1>1, <1>2, Running, FailureCount DEF Build, TablesOK, project
<1>4. CASE Proceed(job)
  <2>1. CommandOf(job') = "write" /\ job'.source = "dockerfile"
    BY <1>1, <1>2, <1>4, Running, ProceedFields, NextCommand
  <2>2. HostInv'
    BY <2>1 DEF HostInv
  <2>3. QED
    BY <1>1, <1>3, <1>4, <2>2, Running, ProceedKeeps DEF JobInv
<1>5. CASE Return(Unrecovered)
  BY <1>1, <1>3, <1>5, EarlyReturnKeeps
<1>6. QED
  BY <1>4, <1>5 DEF Build

LEMMA WriteKeeps ==
  ASSUME DInv, Write
  PROVE  DInv'
<1> DEFINE written == [artifact |-> IF job.source = "compose" /\ file # None THEN file.artifact
                                                                        ELSE job.artifact,
                       env |-> job.env]
<1>1. /\ job.kind # "none" /\ ~Pointless /\ CommandOf(job) = "write"
      /\ UNCHANGED <<project, images, checkout, running, jobs, saves>>
      /\ file' \in {file, written}
  BY DEF Write, At, CommandOf
<1>2. /\ job.artifact \in Artifacts /\ job.env \in Values \cup {None}
      /\ written = [artifact |-> job.artifact, env |-> job.env]
  BY <1>1, Running DEF JobInv, HostInv, Job
<1> HIDE DEF written
<1>3. written \in File /\ written # None
      /\ written.artifact = job.artifact /\ written.env = job.env
  BY <1>2, NoneAssumption DEF File
<1>4. TablesOK'
  BY <1>1, <1>3, Running, FailureCount DEF Write, TablesOK, project
<1>5. CASE file' = written /\ Proceed(job)
  <2>1. CommandOf(job') = "up" /\ job'.artifact = job.artifact /\ job'.env = job.env
    BY <1>1, <1>5, Running, ProceedFields, NextCommand
  <2>2. HostInv'
    BY <1>3, <1>5, <2>1 DEF HostInv
  <2>3. QED
    BY <1>1, <1>4, <1>5, <2>2, Running, ProceedKeeps DEF JobInv
<1>6. CASE Return(Unrecovered)
  BY <1>1, <1>4, <1>6, EarlyReturnKeeps
<1>7. QED
  BY <1>5, <1>6 DEF Write, written

\* What compose up makes of the file that the job wrote.
LEMMA MadeRelease ==
  ASSUME DInv, job.kind # "none", CommandOf(job) = "up", Runnable
  PROVE  /\ Made \in Release /\ Made # None
         /\ Made.artifact = job.artifact /\ Made.env = job.env
<1>1. /\ file \in File /\ file.artifact = job.artifact /\ file.env = job.env
      /\ images \in [Names -> Values \cup {None}]
  BY Running DEF HostInv, TypeOK
<1>2. /\ file.artifact \in Artifacts /\ file.env \in Values \cup {None}
      /\ file.artifact.name \in Names /\ file.artifact.source \in Sources
  BY <1>1 DEF File, Artifacts
<1> DEFINE built == CASE file.artifact.source = "dockerfile" -> images[file.artifact.name]
                      [] file.artifact.source = "compose"    -> file.env
                      [] file.artifact.source = "image"      -> None
<1>3. built \in Values \cup {None}
  BY <1>1, <1>2 DEF Sources
<1>4. Made = [artifact |-> file.artifact, build |-> built, env |-> file.env]
  BY DEF Made
<1> HIDE DEF built
<1>5. QED
  BY <1>1, <1>2, <1>3, <1>4, NoneAssumption DEF Release

LEMMA UpKeeps ==
  ASSUME DInv, Up
  PROVE  DInv'
<1>1. /\ job.kind # "none" /\ ~Pointless /\ CommandOf(job) = "up"
      /\ UNCHANGED <<project, images, checkout, file, jobs, saves>>
  BY DEF Up, At, CommandOf
<1>2. TablesOK'
  <2>1. running' \in Release \cup {None}
    BY <1>1, Running, MadeRelease DEF Up, TablesOK
  <2>2. QED
    BY <1>1, <2>1, Running, FailureCount DEF Up, TablesOK, project
<1>3. CASE Runnable /\ running' = Made /\ Proceed(job)
  <2>1. CommandOf(job') = "check" /\ job'.artifact = job.artifact /\ job'.env = job.env
    BY <1>1, <1>3, Running, ProceedFields, NextCommand
  <2>2. HostInv'
    BY <1>1, <1>3, <2>1, MadeRelease DEF HostInv
  <2>3. QED
    BY <1>1, <1>2, <1>3, <2>2, Running, ProceedKeeps DEF JobInv
<1>4. CASE Recover
  BY <1>1, <1>2, <1>4, RecoverKeeps
<1>5. QED
  BY <1>3, <1>4 DEF Up

LEMMA CheckKeeps ==
  ASSUME DInv, Check
  PROVE  DInv'
<1>1. /\ job.kind # "none" /\ ~Pointless /\ CommandOf(job) = "check"
      /\ UNCHANGED <<project, host, jobs, saves>>
  BY DEF Check, At, CommandOf
<1>2. TablesOK'
  <2>1. failures' \in 0..MaxFailures
    BY <1>1, Running, DockerAssumption DEF Check, Succeed, TypeOK
  <2>2. QED
    BY <1>1, <2>1, Running DEF TablesOK, project, host
<1>3. QED
  BY <1>1, <1>2, SucceedKeeps, RecoverKeeps DEF Check, host

LEMMA ExpireKeeps ==
  ASSUME DInv, Expire
  PROVE  DInv'
<1>1. /\ job # Idle /\ failures < MaxFailures /\ failures' = failures + 1
      /\ job' = [job EXCEPT !.expired = TRUE]
      /\ excused' = (excused \/ job.restores)
      /\ UNCHANGED <<project, host, tags, recorded, latest, jobs, saves>>
  BY DEF Expire
<1>2. job.kind # "none"
  BY <1>1 DEF DInv, JobInv
<1>3. TypeOK /\ JobInv /\ HostInv /\ SteadyInv /\ job \in Job /\ TablesOK
  BY <1>2, Running DEF DInv
<1>4. /\ job' \in Job /\ job'.kind = job.kind /\ job'.source = job.source /\ job'.at = job.at
      /\ job'.env = job.env /\ job'.asked = job.asked /\ job'.previous = job.previous
      /\ job'.restores = job.restores /\ job'.artifact = job.artifact
  BY <1>1, <1>3 DEF Job
<1>5. failures' \in 0..MaxFailures
  BY <1>1, <1>3, DockerAssumption DEF TypeOK
<1>6. TypeOK' /\ TagInv'
  <2>1. TablesOK'
    BY <1>1, <1>3, <1>5 DEF TablesOK, project, host
  <2>2. RecordedOK /\ TagInv /\ latest \in BOOLEAN /\ excused \in BOOLEAN /\ job.restores \in BOOLEAN
    BY <1>3, TypeParts DEF DInv, Job
  <2>3. RecordedOK' /\ TagInv' /\ latest' \in BOOLEAN /\ excused' \in BOOLEAN
    BY <1>1, <2>2, RecordedKept
  <2>4. QED
    BY <1>4, <2>1, <2>3, TypePrimed
<1>7. /\ CommandOf(job') = CommandOf(job) /\ Length(job') = Length(job) /\ Newest' = Newest
      /\ RowTag' = RowTag /\ Pointless' = Pointless
  BY <1>1, <1>4 DEF CommandOf, Length, Newest, RowTag, RollbackRow, Pointless
<1>8. JobInv'
  BY <1>1, <1>2, <1>3, <1>4, <1>7 DEF JobInv
<1>9. HostInv'
  BY <1>1, <1>3, <1>4, <1>7 DEF HostInv, host
<1>10. SteadyInv'
  <2>1. job' # Idle
    BY <1>2, <1>4, IdleIsJob
  <2>2. QED
    BY <1>1, <1>2, <1>3, <1>4, <1>7, <2>1
    DEF SteadyInv, RecordedReleaseServes, RestoreRunsPrevious, NewestRuns, host
<1>11. QED
  BY <1>6, <1>8, <1>9, <1>10 DEF DInv

LEMMA CrashKeeps ==
  ASSUME DInv, Crash
  PROVE  DInv'
<1> DEFINE excuse == job.restores \/ At("up") \/ At("check")
<1>1. /\ job # Idle /\ failures < MaxFailures /\ failures' = failures + 1
      /\ Return(excuse) /\ UNCHANGED <<project, host, jobs, saves>>
  BY DEF Crash
<1>2. job.kind # "none"
  BY <1>1 DEF DInv, JobInv
<1>3. failures' \in 0..MaxFailures
  BY <1>1, <1>2, Running, DockerAssumption DEF TypeOK
<1>4. TablesOK'
  BY <1>1, <1>2, <1>3, Running DEF TablesOK, project, host
<1>5. excuse \in BOOLEAN /\ (excuse \/ (CommandOf(job) # "check" /\ ~job.restores))
  <2>1. Pointless => CommandOf(job) # "check"
    BY <1>2, Running DEF JobInv
  <2>2. QED
    BY <1>2, <2>1, Running DEF At, CommandOf, Job
<1> HIDE DEF excuse
<1>6. QED
  BY <1>1, <1>2, <1>4, <1>5, ReturnKeeps DEF host

LEMMA InitDInv == Init => DInv
<1> SUFFICES ASSUME Init PROVE DInv
  OBVIOUS
<1>1. RecordedOK
  <2>1. << >> \in [1..0 -> Release] /\ << >> \in [1..0 -> Artifacts \cup {None}]
    OBVIOUS
  <2>2. QED
    BY <2>1 DEF Init, RecordedOK
<1>2. TypeOK
  <2>1. TablesOK
    <3>1. images \in [Names -> Values \cup {None}]
      BY DEF Init
    <3>2. jobs \in 0..MaxJobs /\ failures \in 0..MaxFailures /\ saves \in 0..MaxSaves
      BY DockerAssumption DEF Init
    <3>3. QED
      BY <3>1, <3>2 DEF Init, TablesOK
  <2>2. QED
    BY <1>1, <2>1, IdleIsJob, TypeParts DEF Init
<1>3. JobInv /\ HostInv
  BY IdleIsJob DEF Init, JobInv, HostInv
<1>4. TagInv /\ SteadyInv
  BY IdleIsJob DEF Init, TagInv, SteadyInv, RecordedReleaseServes, RestoreRunsPrevious
<1>5. QED
  BY <1>2, <1>3, <1>4 DEF DInv

LEMMA NextDInv == DInv /\ [Next]_vars => DInv'
<1> SUFFICES ASSUME DInv, [Next]_vars PROVE DInv'
  OBVIOUS
<1>1. CASE UNCHANGED vars
  <2>1. UNCHANGED <<source, settings, images, checkout, file, running, job, tags, recorded, latest,
                    excused, jobs, failures, saves>>
    BY <1>1 DEF vars, project, host, history, counts
  <2>2. TypeOK' /\ TagInv' /\ JobInv' /\ HostInv'
    BY <2>1 DEF DInv, TypeOK, TagInv, JobInv, HostInv, Newest, RowTag, RollbackRow, Pointless
  <2>3. SteadyInv'
    BY <2>1 DEF DInv, SteadyInv, RecordedReleaseServes, RestoreRunsPrevious, NewestRuns
  <2>4. QED
    BY <2>2, <2>3 DEF DInv
<1>2. QED
  BY <1>1, SaveProjectKeeps, StartDeployFields, StartRollbackFields, StartKeeps, RefuseKeeps,
     PrepareGitAuthKeeps, CloneKeeps, BuildKeeps, WriteKeeps, UpKeeps, CheckKeeps, ExpireKeeps, CrashKeeps
  DEF Next, Command

LEMMA DockerInvariance == Spec => []DInv
  BY InitDInv, NextDInv, PTL DEF Spec

\* Every variable of the Docker target keeps its type in every behaviour.
THEOREM DockerTypeCorrect == Spec => []TypeOK
<1>1. DInv => TypeOK
  BY DEF DInv
<1>2. QED
  BY <1>1, DockerInvariance, PTL

\* What a successful job recorded runs until the next job begins.
THEOREM RecordedReleaseRuns == Spec => []RecordedReleaseServes
<1>1. DInv => RecordedReleaseServes
  BY DEF DInv, SteadyInv
<1>2. QED
  BY <1>1, DockerInvariance, PTL

\* After a failed job the last successful artifact runs, whatever failed before, but for
\* the failures that RestoreRunsPrevious names: those of a restore or a rollback itself,
\* of the history's reads and writes, and of the proxy registration.
THEOREM RestoresAreComplete == Spec => []RestoreRunsPrevious
<1>1. DInv => RestoreRunsPrevious
  BY DEF DInv, SteadyInv
<1>2. QED
  BY <1>1, DockerInvariance, PTL

-----------------------------------------------------------------------------
(* The target does what the deployer relies on.                            *)

Live    == IF running = None THEN None ELSE running.artifact
Outcome == IF latest THEN recorded[1].artifact ELSE None
Task    == IF job = Idle THEN [wanted |-> {}, previous |-> None]
                         ELSE [wanted |-> job.asked, previous |-> job.previous]

LEMMA Stutters ==
  ASSUME UNCHANGED <<Live, Outcome, Task>>
  PROVE  UNCHANGED Abstract!vars
  BY DEF Live, Outcome, Task, Abstract!vars

\* While a job runs it may put live what it was asked for, or what it goes back to.
LEMMA JobActs ==
  ASSUME DInv, job.kind # "none", job'.kind # "none",
         job'.asked = job.asked, job'.previous = job.previous, UNCHANGED <<recorded, latest>>,
         Live' \in {Live, job.previous, None} \cup job.asked
  PROVE  [Abstract!Next]_Abstract!vars
<1>1. job # Idle /\ job' # Idle /\ Task' = Task /\ Outcome' = Outcome
      /\ Task = [wanted |-> job.asked, previous |-> job.previous] /\ job.asked # {}
  BY IdleIsJob, Running DEF Task, Outcome, JobInv
<1>2. CASE Live' = Live
  BY <1>1, <1>2, Stutters
<1>3. CASE Live' \in {job.previous, None} \cup job.asked
  <2>1. Task # [wanted |-> {}, previous |-> None]
    BY <1>1
  <2>2. Live' \in Task.wanted \cup {Task.previous, None}
    BY <1>1, <1>3
  <2>3. Abstract!Act
    BY <1>1, <2>1, <2>2 DEF Live, Outcome, Task, Abstract!Act, Abstract!Idle, Abstract!Possible
  <2>4. QED
    BY <2>3 DEF Abstract!Next
<1>4. QED
  BY <1>2, <1>3

LEMMA JobFails ==
  ASSUME DInv, job.kind # "none", job' = Idle, latest' = FALSE,
         Live' \in {Live, job.previous, None} \cup job.asked
  PROVE  Abstract!Next
<1>1. job # Idle /\ Task' = [wanted |-> {}, previous |-> None] /\ Outcome' = None
      /\ Task = [wanted |-> job.asked, previous |-> job.previous] /\ job.asked # {}
  BY IdleIsJob, Running DEF Task, Outcome, JobInv
<1>2. Task # [wanted |-> {}, previous |-> None]
  BY <1>1
<1>3. Live' \in {Live} \cup Task.wanted \cup {Task.previous, None}
  BY <1>1
<1>4. Abstract!Fail
  BY <1>1, <1>2, <1>3 DEF Live, Outcome, Task, Abstract!Fail, Abstract!Idle, Abstract!Possible
<1>5. QED
  BY <1>4 DEF Abstract!Next

LEMMA JobBegins ==
  ASSUME DInv, NEW j \in Job, Start(j), j.kind # "none", j.asked # {}
  PROVE  Abstract!Next
<1>1. /\ job = Idle /\ UNCHANGED <<running, recorded, latest>>
      /\ job' = [j EXCEPT !.source = source, !.env = settings]
  BY DEF Start, host, history
<1>2. /\ job' # Idle /\ job'.asked = j.asked /\ job'.previous = j.previous
      /\ j.asked \in (SUBSET Artifacts) \ {{}} /\ j.previous \in Artifacts \cup {None}
  <2>1. job'.kind = j.kind /\ job'.asked = j.asked /\ job'.previous = j.previous
    BY <1>1 DEF Job
  <2>2. job' # Idle
    BY <2>1, IdleIsJob
  <2>3. QED
    BY <2>1, <2>2 DEF Job
<1>3. /\ Task = [wanted |-> {}, previous |-> None]
      /\ Task' = [wanted |-> j.asked, previous |-> j.previous]
      /\ UNCHANGED <<Live, Outcome>>
  BY <1>1, <1>2 DEF Task, Live, Outcome
<1>4. Abstract!Begin(j.asked, j.previous)
  BY <1>3 DEF Live, Outcome, Task, Abstract!Begin, Abstract!Idle
<1>5. QED
  BY <1>2, <1>4 DEF Abstract!Next

\* What a job puts live by then is what it may put live.
LEMMA ArtifactIsAllowed ==
  ASSUME DInv, job.kind # "none", ~Pointless,
         CommandOf(job) \in {"build", "write", "up", "check"}
  PROVE  job.artifact \in job.asked \cup {job.previous}
  BY Running DEF JobInv, Job

LEMMA ProceedRefines ==
  ASSUME DInv, job.kind # "none", CommandOf(job) # "check",
         NEW j \in Job, j.kind = job.kind, j.source = job.source, j.at = job.at,
         j.asked = job.asked, j.previous = job.previous, Proceed(j),
         Live' \in {Live, job.previous, None} \cup job.asked
  PROVE  [Abstract!Next]_Abstract!vars
<1>1. job'.kind # "none" /\ job'.asked = job.asked /\ job'.previous = job.previous
  BY ProceedFields
<1>2. UNCHANGED <<recorded, latest>>
  BY DEF Proceed, history
<1>3. QED
  BY <1>1, <1>2, JobActs

LEMMA ReturnRefines ==
  ASSUME DInv, job.kind # "none", NEW excuse, Return(excuse),
         Live' \in {Live, job.previous, None} \cup job.asked
  PROVE  Abstract!Next
  BY JobFails DEF Return

LEMMA RecoverRefines ==
  ASSUME DInv, job.kind # "none", Recover,
         Live' \in {Live, job.previous, None} \cup job.asked
  PROVE  [Abstract!Next]_Abstract!vars
<1>1. CASE job.kind = "deploy" /\ job.previous # None
  <2>1. /\ job'.kind # "none" /\ job'.asked = job.asked /\ job'.previous = job.previous
        /\ UNCHANGED <<recorded, latest>>
    BY <1>1, Running DEF Recover, Restored, Job, history
  <2>2. QED
    BY <2>1, JobActs
<1>2. CASE ~(job.kind = "deploy" /\ job.previous # None)
  BY <1>2, ReturnRefines DEF Recover
<1>3. QED
  BY <1>1, <1>2

LEMMA SucceedRefines ==
  ASSUME DInv, job.kind # "none", ~Pointless, CommandOf(job) = "check", Succeed,
         UNCHANGED running
  PROVE  Abstract!Next
<1>1. job' = Idle /\ Live' = Live
  BY DEF Succeed, Live
<1>2. CASE latest' = FALSE
  BY <1>1, <1>2, JobFails
<1>3. ASSUME ~job.restores, NEW tag, Keep(tag)
      PROVE  Abstract!Next
  <2>1. job.artifact \in job.asked /\ Live = job.artifact /\ job.asked \subseteq Artifacts
    BY <1>3, Running DEF JobInv, HostInv, Live, Job
  <2>2. latest' = TRUE /\ recorded'[1].artifact = job.artifact
    BY <1>3 DEF Keep
  <2>3. /\ Outcome' = job.artifact /\ Task' = [wanted |-> {}, previous |-> None]
        /\ Task.wanted = job.asked
    BY <1>1, <2>2, IdleIsJob DEF Outcome, Task
  <2>4. Abstract!Succeed(job.artifact)
    BY <1>1, <2>1, <2>3 DEF Live, Outcome, Task, Abstract!Succeed, Abstract!Idle
  <2>5. QED
    BY <2>1, <2>4 DEF Abstract!Next
<1>4. QED
  BY <1>2, <1>3 DEF Succeed

LEMMA CommandRefines ==
  ASSUME DInv, Command
  PROVE  [Abstract!Next]_Abstract!vars
<1>1. CASE PrepareGitAuth
  <2>1. job.kind # "none" /\ ~Pointless /\ CommandOf(job) = "auth" /\ Live' = Live
    BY <1>1 DEF PrepareGitAuth, At, CommandOf, host, Live
  <2>2. QED
    BY <1>1, <2>1, Running, ProceedRefines, ReturnRefines DEF PrepareGitAuth
<1>2. CASE Clone
  <2>1. job.kind # "none" /\ ~Pointless /\ CommandOf(job) = "clone" /\ Live' = Live
    BY <1>2 DEF Clone, At, CommandOf, Live
  <2>2. ASSUME NEW a \in Artifacts, Proceed([job EXCEPT !.artifact = a])
        PROVE  [Abstract!Next]_Abstract!vars
    <3> DEFINE j == [job EXCEPT !.artifact = a]
    <3>1. /\ j \in Job /\ j.kind = job.kind /\ j.source = job.source /\ j.at = job.at
          /\ j.asked = job.asked /\ j.previous = job.previous
      BY <2>1, Running DEF Job
    <3>2. Proceed(j)
      BY <2>2
    <3> HIDE DEF j
    <3>3. QED
      BY <2>1, <3>1, <3>2, ProceedRefines
  <2>3. CASE Return(Unrecovered)
    BY <2>1, <2>3, ReturnRefines
  <2>4. \/ Return(Unrecovered)
        \/ \E a \in (IF job.artifact = None THEN job.asked ELSE {job.artifact}) :
             Proceed([job EXCEPT !.artifact = a])
    BY <1>2 DEF Clone
  <2>5. (IF job.artifact = None THEN job.asked ELSE {job.artifact}) \subseteq Artifacts
    BY <2>1, Running DEF Job
  <2>6. QED
    BY <2>2, <2>3, <2>4, <2>5
<1>3. CASE Build
  <2>1. job.kind # "none" /\ ~Pointless /\ CommandOf(job) = "build" /\ Live' = Live
    BY <1>3 DEF Build, At, CommandOf, Live
  <2>2. QED
    BY <1>3, <2>1, Running, ProceedRefines, ReturnRefines DEF Build
<1>4. CASE Write
  <2>1. job.kind # "none" /\ ~Pointless /\ CommandOf(job) = "write" /\ Live' = Live
    BY <1>4 DEF Write, At, CommandOf, Live
  <2>2. QED
    BY <1>4, <2>1, Running, ProceedRefines, ReturnRefines DEF Write
<1>5. CASE Up
  <2>1. job.kind # "none" /\ ~Pointless /\ CommandOf(job) = "up"
    BY <1>5 DEF Up, At, CommandOf
  <2>2. running' = running \/ running' = None \/ (Runnable /\ running' = Made)
    BY <1>5 DEF Up
  <2>3. Live' \in {Live, job.previous, None} \cup job.asked
    BY <2>1, <2>2, MadeRelease, ArtifactIsAllowed DEF Live
  <2>4. QED
    BY <1>5, <2>1, <2>3, Running, ProceedRefines, RecoverRefines DEF Up
<1>6. CASE Check
  <2>1. job.kind # "none" /\ ~Pointless /\ CommandOf(job) = "check" /\ Live' = Live /\ UNCHANGED running
    BY <1>6 DEF Check, At, CommandOf, host, Live
  <2>2. QED
    BY <1>6, <2>1, SucceedRefines, RecoverRefines DEF Check
<1>7. CASE Refuse
  <2>1. job.kind # "none" /\ job' = Idle /\ latest' = FALSE /\ Live' = Live
    BY <1>7 DEF Refuse, Pointless, Return, host, Live
  <2>2. QED
    BY <2>1, JobFails
<1>8. QED
  BY <1>1, <1>2, <1>3, <1>4, <1>5, <1>6, <1>7 DEF Command

LEMMA StepRefines == DInv /\ [Next]_vars => [Abstract!Next]_Abstract!vars
<1> SUFFICES ASSUME DInv, [Next]_vars PROVE [Abstract!Next]_Abstract!vars
  OBVIOUS
<1>1. CASE SaveProject \/ UNCHANGED vars
  <2>1. UNCHANGED <<running, job, recorded, latest>>
    BY <1>1 DEF SaveProject, vars, host, history
  <2>2. UNCHANGED <<Live, Outcome, Task>>
    BY <2>1 DEF Live, Outcome, Task
  <2>3. QED
    BY <2>2, Stutters
<1>2. CASE StartDeploy
  BY <1>2, StartDeployFields, JobBegins
<1>3. CASE StartRollback
  BY <1>3, StartRollbackFields, JobBegins
<1>4. CASE Expire
  <2>1. /\ job # Idle /\ job' = [job EXCEPT !.expired = TRUE]
        /\ UNCHANGED <<running, recorded, latest>>
    BY <1>4 DEF Expire, host
  <2>2. job.kind # "none"
    BY <2>1 DEF DInv, JobInv
  <2>3. job'.kind # "none" /\ job'.asked = job.asked /\ job'.previous = job.previous
    BY <2>1, <2>2, Running DEF Job
  <2>4. QED
    BY <2>1, <2>2, <2>3, JobActs DEF Live
<1>5. CASE Crash
  <2>1. job # Idle /\ job' = Idle /\ latest' = FALSE /\ UNCHANGED running
    BY <1>5 DEF Crash, Return, host
  <2>2. job.kind # "none"
    BY <2>1 DEF DInv, JobInv
  <2>3. QED
    BY <2>1, <2>2, JobFails DEF Live
<1>6. QED
  BY <1>1, <1>2, <1>3, <1>4, <1>5, CommandRefines DEF Next

LEMMA InitRefines == Init => Abstract!Init
  BY IdleIsJob DEF Init, Abstract!Init, Abstract!Idle

\* Every behaviour of the Docker target is one the deployer allows a target.
THEOREM TargetIsImplemented == Spec => ImplementsTarget
  BY InitRefines, StepRefines, DockerInvariance, PTL DEF Spec, ImplementsTarget, Abstract!Spec
=============================================================================
