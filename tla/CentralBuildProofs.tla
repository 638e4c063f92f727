------------------------- MODULE CentralBuildProofs -------------------------
(***************************************************************************)
(* Theorems about CentralBuild for every set of builds and run IDs, every  *)
(* choice of operations, with and without failing calls, listing lag and   *)
(* concurrent log readers.                                                 *)
(***************************************************************************)
EXTENDS CentralBuild, TLAPS

(***************************************************************************)
(* Type correctness.  It is inductive only together with Adopted: the      *)
(* conclusion read by the completion poll is that of a run that exists.    *)
(***************************************************************************)
LEMMA RunTyped == ASSUME TypeOK, NEW r \in RunIds
                  PROVE  /\ run[r] \in Run
                         /\ run[r].title \in Builds \cup {NoBuild}
                         /\ run[r].job \in Jobs
                         /\ run[r].step \in Steps
BY DEF TypeOK, HubTypeOK, Run

LEMMA NamesTyped == ASSUME NEW o, NEW j \in Jobs
                    PROVE  /\ ResultName(o) \in ArtifactNames
                           /\ ResultOf(o, j) \in ArtifactNames
                           /\ DiagnosticOf(o, j) \in ArtifactNames
BY DEF Jobs, ArtifactNames, ResultName, ResultOf, DiagnosticOf

LEMMA HubTyped == ASSUME TypeOK, HubNext, UNCHANGED <<cliVars, logs>>
                  PROVE  TypeOK'
<1> USE DEF TypeOK, HubTypeOK, CliTypeOK, hubVars
<1>1. CliTypeOK'
  BY DEF cliVars
<1>2. ASSUME NEW b \in Builds, CreateRun(b)
      PROVE  HubTypeOK'
  <2>1. PICK r \in RunIds : run' = [run EXCEPT ![r] = [AbsentRun EXCEPT !.title = b, !.status = "queued"]]
    BY <1>2 DEF CreateRun
  <2>2. [AbsentRun EXCEPT !.title = b, !.status = "queued"] \in Run
    BY DEF AbsentRun, Run, Conclusions, Jobs, Steps
  <2>3. run' \in [RunIds -> Run]
    BY <2>1, <2>2
  <2> QED
    BY <1>2, <2>3 DEF CreateRun
<1>3. ASSUME NEW r \in RunIds, RunStep(r)
      PROVE  HubTypeOK'
  <2>0. /\ run[r] \in Run
        /\ OpOf(r) = op[run[r].title]
        /\ run[r].job \in Jobs
        /\ \A c \in Conclusions : Concluded(r, c) \in [RunIds -> Run]
        /\ \A n \in ArtifactNames :
              Uploaded(r, n) \in [RunIds -> [ArtifactNames -> ArtifactState]]
    <3>1. run[r] \in Run /\ run[r].job \in Jobs
      BY RunTyped
    <3>2. ASSUME NEW c \in Conclusions PROVE Concluded(r, c) \in [RunIds -> Run]
      BY <3>1 DEF Concluded, Run
    <3>3. ASSUME NEW n \in ArtifactNames
          PROVE  Uploaded(r, n) \in [RunIds -> [ArtifactNames -> ArtifactState]]
      BY DEF Uploaded, ArtifactState
    <3> QED
      BY <3>1, <3>2, <3>3 DEF OpOf
  <2>1. CASE Begin(r)
    <3> [run EXCEPT ![r].status = "in_progress"] \in [RunIds -> Run]
      BY <2>0 DEF Run
    <3> QED
      BY <2>1 DEF Begin
  <2>2. CASE FetchInput(r)
    <3> [run EXCEPT ![r].step = "work"] \in [RunIds -> Run]
      BY <2>0 DEF Run, Steps
    <3> QED
      BY <2>0, <2>2 DEF FetchInput, Conclusions
  <2>3. CASE Work(r)
    <3>1. \A s \in Steps : [run EXCEPT ![r].step = s] \in [RunIds -> Run]
      BY <2>0 DEF Run
    <3>2. run' \in [RunIds -> Run]
      BY <2>3, <3>1 DEF Work, Steps
    <3>3. published' \subseteq RunIds
      BY <2>3 DEF Work
    <3> QED
      BY <2>3, <3>2, <3>3 DEF Work
  <2>4. CASE UploadResult(r)
    <3>1. \A j \in Jobs : [run EXCEPT ![r].step = "input", ![r].job = j] \in [RunIds -> Run]
      BY <2>0 DEF Run, Steps
    <3>2. run' \in [RunIds -> Run]
      BY <2>0, <2>4, <3>1 DEF UploadResult, Jobs, Conclusions
    <3>3. art' \in [RunIds -> [ArtifactNames -> ArtifactState]]
      BY <2>0, <2>4, NamesTyped DEF UploadResult
    <3> QED
      BY <2>4, <3>2, <3>3 DEF UploadResult
  <2>5. CASE UploadDiagnostic(r)
    BY <2>0, <2>5, NamesTyped DEF UploadDiagnostic, Conclusions
  <2>6. CASE UploadFails(r)
    BY <2>0, <2>6 DEF UploadFails, Conclusions
  <2>7. CASE Stop(r)
    BY <2>0, <2>7, NamesTyped DEF Stop, Conclusions
  <2>8. CASE \E n \in ArtifactNames : Index(r, n)
    BY <2>8 DEF Index, ArtifactState
  <2> QED
    BY <1>3, <2>1, <2>2, <2>3, <2>4, <2>5, <2>6, <2>7, <2>8 DEF RunStep
<1> QED
  BY <1>1, <1>2, <1>3 DEF HubNext

\* Every step of a CLI is built from these moves.
LEMMA MovesTyped ==
    ASSUME TypeOK, NEW b \in Builds
    PROVE  /\ \A p \in Phases : Goto(b, p) => /\ pc' \in [Builds -> Phases]
                                             /\ expired' \in [Builds -> BOOLEAN]
           /\ \A o \in Outcomes : Return(b, o) => /\ pc' \in [Builds -> Phases]
                                                 /\ expired' \in [Builds -> BOOLEAN]
                                                 /\ outcome' \in [Builds -> Outcomes]
           /\ \A d \in Defers : /\ Register(b, d) => defers' \in [Builds -> SUBSET Defers]
                                /\ Drop(b, d) => defers' \in [Builds -> SUBSET Defers]
           /\ \A w \in Warnings : Warn(b, w) => warned' \in [Builds -> SUBSET Warnings]
<1> USE DEF TypeOK, CliTypeOK
<1>1. \A p \in Phases : Goto(b, p) => pc' \in [Builds -> Phases] /\ expired' \in [Builds -> BOOLEAN]
  BY DEF Goto
<1>2. "unwind" \in Phases
  BY DEF Phases, Cleanup
<1>3. \A o \in Outcomes : Return(b, o) => outcome' \in [Builds -> Outcomes]
  BY DEF Return
<1>4. \A d \in Defers : /\ Register(b, d) => defers' \in [Builds -> SUBSET Defers]
                        /\ Drop(b, d) => defers' \in [Builds -> SUBSET Defers]
  <2> SUFFICES ASSUME NEW d \in Defers
               PROVE  /\ Register(b, d) => defers' \in [Builds -> SUBSET Defers]
                      /\ Drop(b, d) => defers' \in [Builds -> SUBSET Defers]
    OBVIOUS
  <2>1. defers[b] \cup {d} \in SUBSET Defers /\ defers[b] \ {d} \in SUBSET Defers
    OBVIOUS
  <2> QED
    BY <2>1 DEF Register, Drop
<1>5. \A w \in Warnings : Warn(b, w) => warned' \in [Builds -> SUBSET Warnings]
  BY DEF Warn
<1> QED
  BY <1>1, <1>2, <1>3, <1>4, <1>5 DEF Return

LEMMA DeletedTyped ==
    ASSUME TypeOK, NEW r, NEW names
    PROVE  Deleted(r, names) \in [RunIds -> [ArtifactNames -> ArtifactState]]
BY DEF TypeOK, HubTypeOK, Deleted, ArtifactState

LEMMA GiveUpTyped == ASSUME TypeOK, NEW b \in Builds, pc[b] \in Foreground \ {"prepare"}, GiveUp(b)
                     PROVE  TypeOK'
<1> USE DEF TypeOK, HubTypeOK, CliTypeOK, hubVars
<1>1. /\ {"unwind", "findResult", "download"} \subseteq Phases
      /\ {"unprepared", "untriggered", "notStarted", "notCompleted", "unavailable", "undelivered"} \subseteq Outcomes
      /\ pc[b] \in {"push", "trigger", "waitStart", "waitDone", "findBase", "findTrusted",
                    "findResult", "download", "deliver"}
  BY DEF Phases, Cleanup, Foreground, ForegroundPolls, Outcomes
<1>2. pc' \in [Builds -> Phases] /\ expired' \in [Builds -> BOOLEAN] /\ outcome' \in [Builds -> Outcomes]
  BY <1>1, MovesTyped DEF GiveUp
<1>3. refs' \in [Builds -> {"absent", "pushed"}] /\ accepted' \subseteq Builds
  BY DEF GiveUp
<1> QED
  BY <1>2, <1>3 DEF GiveUp

LEMMA CleanupTyped == ASSUME TypeOK, NEW b \in Builds, CleanupStep(b)
                      PROVE  TypeOK'
<1> USE DEF TypeOK, HubTypeOK, CliTypeOK, hubVars
<1>0. /\ {"unwind", "locate", "cancel", "confirm", "purge", "done"} \subseteq Phases
      /\ Defers = {"lease", "cancel", "base", "trusted", "result"}
      /\ Warnings = Defers \cup {"locate", "confirm", "purge"}
  BY DEF Phases, Cleanup, CleanupPolls, Defers, Warnings
<1>1. CASE DeleteCentralArtifact(b)
  <2>1. PICK d \in {"base", "trusted", "result"} :
          /\ Drop(b, d)
          /\ \/ art' = Deleted(runID[b], {DeferredName(b, d)}) /\ UNCHANGED warned
             \/ art' \in {art, Deleted(runID[b], {DeferredName(b, d)})} /\ Warn(b, d)
    BY <1>1 DEF DeleteCentralArtifact
  <2>2. art' \in [RunIds -> [ArtifactNames -> ArtifactState]]
    BY <2>1, DeletedTyped
  <2>3. warned' \in [Builds -> SUBSET Warnings] /\ defers' \in [Builds -> SUBSET Defers]
    BY <1>0, <2>1, MovesTyped
  <2> QED
    BY <1>1, <2>2, <2>3 DEF DeleteCentralArtifact
<1>2. CASE DeleteSnapshotLease(b)
  <2>1. refs' \in [Builds -> {"absent", "pushed"}]
    BY <1>2 DEF DeleteSnapshotLease
  <2>2. warned' \in [Builds -> SUBSET Warnings] /\ defers' \in [Builds -> SUBSET Defers]
    BY <1>0, <1>2, MovesTyped DEF DeleteSnapshotLease
  <2> QED
    BY <1>2, <2>1, <2>2 DEF DeleteSnapshotLease
<1>3. CASE StartCancel(b)
  BY <1>0, <1>3, MovesTyped DEF StartCancel
<1>4. CASE LocateDispatchedRun(b)
  <2>1. runID' \in [Builds -> RunIds \cup {NoRun}]
    BY <1>4 DEF LocateDispatchedRun
  <2>2. warned' \in [Builds -> SUBSET Warnings] /\ defers' \in [Builds -> SUBSET Defers]
    BY <1>0, <1>4, MovesTyped DEF LocateDispatchedRun
  <2>3. pc' \in [Builds -> Phases] /\ expired' \in [Builds -> BOOLEAN]
    BY <1>0, <1>4, MovesTyped DEF LocateDispatchedRun
  <2> QED
    BY <1>4, <2>1, <2>2, <2>3 DEF LocateDispatchedRun
<1>5. CASE CancelWorkflowRun(b)
  <2>1. ASSUME runID[b] \in RunIds PROVE [run EXCEPT ![runID[b]].stopping = TRUE] \in [RunIds -> Run]
    <3>1. [run[runID[b]] EXCEPT !.stopping = TRUE] \in Run
      BY <2>1, RunTyped DEF Run
    <3> QED
      BY <2>1, <3>1
  <2>2. runID[b] \notin RunIds => [run EXCEPT ![runID[b]].stopping = TRUE] = run
    OBVIOUS
  <2>3. run' \in [RunIds -> Run]
    BY <1>5, <2>1, <2>2 DEF CancelWorkflowRun
  <2> QED
    BY <1>0, <1>5, <2>3, MovesTyped DEF CancelWorkflowRun
<1>6. CASE ConfirmStopped(b)
  BY <1>0, <1>6, MovesTyped DEF ConfirmStopped
<1>7. CASE DeleteCentralBuildArtifacts(b)
  BY <1>0, <1>7, MovesTyped, DeletedTyped DEF DeleteCentralBuildArtifacts
<1>8. CASE Exit(b)
  BY <1>0, <1>8, MovesTyped DEF Exit
<1> QED
  BY <1>1, <1>2, <1>3, <1>4, <1>5, <1>6, <1>7, <1>8 DEF CleanupStep

LEMMA CliTyped == ASSUME TypeOK, Adopted, NEW b \in Builds, CliStep(b) \/ CallFails(b)
                  PROVE  TypeOK'
<1> USE DEF TypeOK, HubTypeOK, CliTypeOK, hubVars
<1>0. /\ Foreground \cup {"unwind"} \subseteq Phases
      /\ ForegroundPolls \subseteq Foreground \ {"prepare"}
      /\ {"push", "trigger", "waitStart", "waitDone", "findBase", "findTrusted",
          "findResult", "download", "deliver"} \subseteq Foreground
      /\ {"unprepared", "undelivered", "failed", "delivered"} \subseteq Outcomes
      /\ {"lease", "cancel", "base", "trusted", "result"} \subseteq Defers
      /\ "base" \in ArtifactNames
  BY DEF Phases, Cleanup, Foreground, ForegroundPolls, Outcomes, Defers, ArtifactNames
<1>1. CASE Prepare(b)
  BY <1>0, <1>1, MovesTyped DEF Prepare
<1>2. CASE Push(b)
  BY <1>0, <1>2, MovesTyped DEF Push
<1>3. CASE TriggerWorkflow(b)
  BY <1>0, <1>3, MovesTyped DEF TriggerWorkflow
<1>4. CASE PollForWorkflowStart(b)
  BY <1>0, <1>4, MovesTyped DEF PollForWorkflowStart
<1>5. CASE PollForWorkflowCompletion(b)
  <2>1. runID[b] \in RunIds
    BY <1>5 DEF PollForWorkflowCompletion, Adopted, AdoptedPhases, Retrieval
  <2>2. run[runID[b]].conclusion \in Conclusions
    BY <2>1, RunTyped DEF Run
  <2>3. concl' \in [Builds -> Conclusions]
    BY <1>5, <2>2 DEF PollForWorkflowCompletion
  <2> QED
    BY <1>0, <1>5, <2>3, MovesTyped DEF PollForWorkflowCompletion
<1>6. CASE PollForBaseArtifact(b)
  BY <1>0, <1>6, MovesTyped DEF PollForBaseArtifact
<1>7. CASE FindTrustedArtifact(b)
  BY <1>0, <1>7, MovesTyped DEF FindTrustedArtifact
<1>8. CASE FindResultArtifact(b)
  <2>1. chosen' \in [Builds -> ArtifactNames]
    BY <1>8 DEF FindResultArtifact, ResultName, ArtifactNames
  <2>2. defers' \in [Builds -> SUBSET Defers]
    BY <1>0, <1>8, MovesTyped DEF FindResultArtifact
  <2> QED
    BY <1>0, <1>8, <2>1, <2>2, MovesTyped DEF FindResultArtifact
<1>9. CASE DownloadCentralArtifact(b)
  BY <1>0, <1>9, MovesTyped DEF DownloadCentralArtifact
<1>10. CASE Deliver(b)
  BY <1>0, <1>10, MovesTyped DEF Deliver
<1>11. CASE TimesOut(b) \/ CallFails(b)
  BY <1>0, <1>11, GiveUpTyped DEF TimesOut, CallFails
<1>12. CASE CleanupStep(b)
  BY <1>12, CleanupTyped
<1> QED
  BY <1>1, <1>2, <1>3, <1>4, <1>5, <1>6, <1>7, <1>8, <1>9, <1>10, <1>11, <1>12 DEF CliStep

LEMMA OthersTyped == ASSUME TypeOK, NEW b \in Builds,
                            LogsStep(b) \/ Expire(b) \/ Interrupt(b) \/ Crash(b)
                     PROVE  TypeOK'
<1> USE DEF TypeOK, HubTypeOK, CliTypeOK, hubVars
<1>1. {"idle", "found", "saved", "done"} = LogSteps /\ "base" \in ArtifactNames /\ "deploy" \in ArtifactNames
  BY DEF LogSteps, ArtifactNames
<1>2. CASE LogsFind(b)
  BY <1>1, <1>2 DEF LogsFind, cliVars
<1>3. CASE LogsSave(b)
  BY <1>1, <1>3 DEF LogsSave, cliVars
<1>4. CASE LogsDelete(b)
  <2>1. art' \in [RunIds -> [ArtifactNames -> ArtifactState]]
    BY <1>4, DeletedTyped DEF LogsDelete
  <2>2. logs' \in [Builds -> [at : LogSteps, name : ArtifactNames]]
    BY <1>1, <1>4 DEF LogsDelete
  <2> QED
    BY <1>4, <2>1, <2>2 DEF LogsDelete, cliVars
<1>5. CASE Expire(b)
  BY <1>5 DEF Expire
<1>6. CASE Interrupt(b)
  BY <1>6 DEF Interrupt
<1>7. CASE Crash(b)
  <2>1. "crashed" \in Phases
    BY DEF Phases
  <2> QED
    BY <1>7, <2>1, MovesTyped DEF Crash
<1> QED
  BY <1>2, <1>3, <1>4, <1>5, <1>6, <1>7 DEF LogsStep

LEMMA InitTyped == Init => TypeOK
<1> SUFFICES ASSUME Init PROVE TypeOK
  OBVIOUS
<1>1. AbsentRun \in Run
  BY DEF AbsentRun, Run, Conclusions, Jobs, Steps
<1>2. HubTypeOK
  BY <1>1, OpsAssumption DEF Init, HubInit, HubTypeOK, ArtifactState
<1>3. CliTypeOK
  BY DEF Init, CliTypeOK, Phases, Foreground, Conclusions, ArtifactNames, Defers, Warnings, Outcomes, LogSteps
<1> QED
  BY <1>2, <1>3 DEF TypeOK

LEMMA NextTyped == ASSUME TypeOK, Adopted, [Next]_vars
                   PROVE  TypeOK'
<1>1. CASE UNCHANGED vars
  BY <1>1 DEF vars, hubVars, cliVars, TypeOK, HubTypeOK, CliTypeOK
<1>2. CASE Next
  BY <1>2, HubTyped, CliTyped, OthersTyped DEF Next
<1> QED
  BY <1>1, <1>2

\* A run is adopted before the CLI asks it anything, and never given up again.
LEMMA NextAdopted == ASSUME TypeOK, Adopted, [Next]_vars
                     PROVE  Adopted'
<1> USE DEF Adopted, AdoptedPhases, Retrieval, TypeOK, CliTypeOK
<1>0. CASE UNCHANGED vars
  BY <1>0 DEF vars, cliVars
<1>1. CASE HubNext /\ UNCHANGED <<cliVars, logs>>
  BY <1>1 DEF cliVars
<1>2. ASSUME NEW b \in Builds, CleanupStep(b)
      PROVE  Adopted'
  BY <1>2 DEF CleanupStep, DeleteCentralArtifact, DeleteSnapshotLease, StartCancel, LocateDispatchedRun,
              CancelWorkflowRun, ConfirmStopped, DeleteCentralBuildArtifacts, Exit, Goto
<1>3. ASSUME NEW b \in Builds, TimesOut(b) \/ CallFails(b)
      PROVE  Adopted'
  <2>1. GiveUp(b) /\ pc[b] \in {"push", "trigger", "waitStart", "waitDone", "findBase", "findTrusted",
                                "findResult", "download", "deliver"}
    BY <1>3 DEF TimesOut, CallFails, Foreground, ForegroundPolls
  <2>2. pc' \in {[pc EXCEPT ![b] = "unwind"], [pc EXCEPT ![b] = "findResult"], [pc EXCEPT ![b] = "download"]}
    BY <2>1 DEF GiveUp, Goto, Return
  <2>3. pc[b] \notin {"findTrusted", "findResult"} => pc' = [pc EXCEPT ![b] = "unwind"]
    BY <2>1 DEF GiveUp, Goto, Return
  <2> QED
    BY <2>1, <2>2, <2>3 DEF GiveUp
<1>4. ASSUME NEW b \in Builds, CliStep(b), ~TimesOut(b), ~CleanupStep(b)
      PROVE  Adopted'
  <2>1. CASE Prepare(b) \/ Push(b) \/ TriggerWorkflow(b)
    BY <2>1 DEF Prepare, Push, TriggerWorkflow, Goto, Return
  <2>2. CASE PollForWorkflowStart(b)
    BY <2>2 DEF PollForWorkflowStart, Goto
  <2>3. CASE PollForWorkflowCompletion(b) \/ PollForBaseArtifact(b) \/ FindTrustedArtifact(b)
             \/ FindResultArtifact(b)
    BY <2>3 DEF PollForWorkflowCompletion, PollForBaseArtifact, FindTrustedArtifact, FindResultArtifact, Goto
  <2>4. CASE DownloadCentralArtifact(b) \/ Deliver(b)
    BY <2>4 DEF DownloadCentralArtifact, Deliver, Goto, Return
  <2> QED
    BY <1>4, <2>1, <2>2, <2>3, <2>4 DEF CliStep
<1>5. ASSUME NEW b \in Builds, LogsStep(b) \/ Expire(b) \/ Interrupt(b) \/ Crash(b)
      PROVE  Adopted'
  <2>1. UNCHANGED <<pc, runID>> \/ (pc' = [pc EXCEPT ![b] = "crashed"] /\ UNCHANGED runID)
    BY <1>5 DEF LogsStep, LogsFind, LogsSave, LogsDelete, Expire, Interrupt, Crash, Goto, cliVars
  <2> QED
    BY <2>1
<1> HIDE DEF Adopted, TypeOK
<1>6. ASSUME NEW b \in Builds, CliStep(b) \/ CallFails(b)
      PROVE  Adopted'
  BY <1>2, <1>3, <1>4, <1>6
<1>7. CASE Next
  BY <1>1, <1>5, <1>6, <1>7 DEF Next
<1> QED
  BY <1>0, <1>7

\* Every variable of the CLI and of the remote side keeps its type, for any
\* builds, run IDs and operations: in particular a conclusion is only ever read
\* from a run that GitHub created.
THEOREM TypeCorrect == Spec => []TypeOK
<1>1. Init => TypeOK /\ Adopted
  BY InitTyped DEF Init, Adopted, AdoptedPhases, Retrieval
<1>2. TypeOK /\ Adopted /\ [Next]_vars => (TypeOK /\ Adopted)'
  BY NextTyped, NextAdopted
<1> QED
  BY <1>1, <1>2, PTL DEF Spec

(***************************************************************************)
(* Safety of the bookkeeping.  A step of the remote side moves runs forward*)
(* only; a step of one CLI changes the records of its own build only, and  *)
(* of a run nothing but the request to stop.                               *)
(***************************************************************************)
Forward == \A r \in RunIds : /\ run'[r].title = run[r].title
                             /\ run'[r].status = "absent" <=> run[r].status = "absent"
                             /\ run[r].status = "completed" => run'[r].status = "completed"

Untouched(b) == /\ pc'[b] = pc[b] /\ runID'[b] = runID[b] /\ defers'[b] = defers[b]
                /\ warned'[b] = warned[b] /\ outcome'[b] = outcome[b] /\ refs'[b] = refs[b]
                /\ b \in accepted' <=> b \in accepted

LEMMA ForwardRuns ==
    ASSUME NEW b \in Builds, Forward
    PROVE  /\ RunsOf(b)' = RunsOf(b)
           /\ Over(b) /\ b \notin accepted' => Over(b)'
           /\ Identified(b) /\ runID'[b] = runID[b] /\ (b \in accepted' <=> b \in accepted) => Identified(b)'
<1>1. RunsOf(b)' = RunsOf(b)
  BY DEF RunsOf, Forward
<1>2. RunsOf(b) \subseteq RunIds
  BY DEF RunsOf
<1> QED
  BY <1>1, <1>2 DEF Forward, Over, Identified

LEMMA Steady == ASSUME NEW b \in Builds, BuildInv(b), Forward, Untouched(b)
                PROVE  BuildInv(b)'
<1>1. RunsOf(b)' = RunsOf(b) /\ (Over(b) => Over(b)') /\ Identified(b)'
  BY ForwardRuns DEF BuildInv, Untouched, Over
<1>2. Phased(b)'
  BY <1>1 DEF BuildInv, Phased, Untouched
<1>3. Settled(b)' /\ Released(b)'
  BY <1>1 DEF BuildInv, Settled, Released, Dispatched, Untouched
<1> QED
  BY <1>1, <1>2, <1>3 DEF BuildInv

LEMMA RunStepForward == ASSUME TypeOK, NEW r \in RunIds, RunStep(r)
                        PROVE  Forward
<1>1. run \in [RunIds -> Run]
  BY DEF TypeOK, HubTypeOK
<1>2. CASE Begin(r) \/ FetchInput(r) \/ Work(r)
  BY <1>1, <1>2 DEF Begin, FetchInput, Work, Concluded, Forward, Run
<1>3. CASE UploadResult(r) \/ UploadDiagnostic(r) \/ UploadFails(r)
  BY <1>1, <1>3 DEF UploadResult, UploadDiagnostic, UploadFails, Concluded, Forward, Run
<1>4. CASE Stop(r)
  BY <1>1, <1>4 DEF Stop, Live, Concluded, Forward, Run
<1>5. CASE \E n \in ArtifactNames : Index(r, n)
  BY <1>5 DEF Index, Forward
<1> QED
  BY <1>2, <1>3, <1>4, <1>5 DEF RunStep

LEMMA HubInv == ASSUME IInv, HubNext, UNCHANGED <<cliVars, logs>>, NEW b \in Builds
                PROVE  BuildInv(b)'
<1>0. TypeOK /\ BuildInv(b)
  BY DEF IInv
<1>1. ASSUME NEW r \in RunIds, RunStep(r)
      PROVE  BuildInv(b)'
  <2>1. Forward
    BY <1>0, <1>1, RunStepForward
  <2>2. UNCHANGED <<refs, accepted>>
    BY <1>1 DEF RunStep, Begin, FetchInput, Work, UploadResult, UploadDiagnostic, UploadFails, Stop, Index
  <2>3. Untouched(b)
    BY <2>2 DEF Untouched, cliVars
  <2> QED
    BY <1>0, <2>1, <2>3, Steady
<1>2. ASSUME NEW c \in Builds, CreateRun(c)
      PROVE  BuildInv(b)'
  <2>1. PICK r \in RunIds :
          /\ run[r].status = "absent"
          /\ run' = [run EXCEPT ![r] = [AbsentRun EXCEPT !.title = c, !.status = "queued"]]
    BY <1>2 DEF CreateRun
  <2>2. /\ run'[r].title = c /\ run'[r].status = "queued"
        /\ \A s \in RunIds \ {r} : run'[s] = run[s]
        /\ c \in accepted /\ accepted' = accepted \ {c}
        /\ UNCHANGED refs
    BY <1>0, <1>2, <2>1 DEF TypeOK, HubTypeOK, CreateRun, AbsentRun
  <2>3. r \notin RunsOf(b)
    BY <1>0, <2>1 DEF BuildInv, Identified
  <2>4. CASE b # c
    <3>1. RunsOf(b)' = RunsOf(b)
      BY <2>2, <2>3, <2>4 DEF RunsOf
    <3>2. \A s \in RunsOf(b) : run'[s] = run[s]
      BY <2>2, <2>3 DEF RunsOf
    <3>3. b \in accepted' <=> b \in accepted
      BY <2>2, <2>4
    <3>4. Over(b)' <=> Over(b)
      BY <3>1, <3>2, <3>3 DEF Over
    <3>5. Identified(b)'
      BY <1>0, <3>1, <3>2, <3>3 DEF BuildInv, Identified, cliVars
    <3> QED
      BY <1>0, <2>2, <3>1, <3>3, <3>4, <3>5 DEF BuildInv, Phased, Settled, Released, Dispatched, cliVars
  <2>5. CASE b = c
    <3>1. RunsOf(b) = {} /\ ~Over(b)
      BY <1>0, <2>2, <2>5 DEF BuildInv, Identified, Over
    <3>2. RunsOf(b)' = {r}
      BY <2>2, <2>5, <3>1 DEF RunsOf
    <3>3. Identified(b)'
      BY <1>0, <2>2, <2>5, <3>1, <3>2 DEF BuildInv, Identified, cliVars
    <3>4. Phased(b)'
      BY <1>0, <2>2, <2>5 DEF BuildInv, Phased, cliVars
    <3>5. Settled(b)' /\ Released(b)'
      BY <1>0, <2>2, <3>1 DEF BuildInv, Settled, Released, Dispatched, cliVars
    <3> QED
      BY <3>3, <3>4, <3>5 DEF BuildInv
  <2> QED
    BY <2>4, <2>5
<1> QED
  BY <1>1, <1>2 DEF HubNext

\* The part of a CLI step that concerns the runs and the other builds.
LEMMA CleanupFrame == ASSUME TypeOK, NEW c \in Builds, CleanupStep(c)
                      PROVE  Forward /\ \A b \in Builds \ {c} : Untouched(b)
<1> USE DEF TypeOK, HubTypeOK, CliTypeOK, Untouched, hubVars
<1>1. CASE UNCHANGED <<run, accepted, runID, outcome>>
  <2>1. Forward
    BY <1>1 DEF Forward
  <2>2. CASE DeleteCentralArtifact(c)
    <3>1. PICK d \in {"base", "trusted", "result"} : Drop(c, d) /\ (UNCHANGED warned \/ Warn(c, d))
      BY <2>2 DEF DeleteCentralArtifact
    <3> QED
      BY <1>1, <2>1, <2>2, <3>1 DEF DeleteCentralArtifact, Drop, Warn
  <2>3. CASE DeleteSnapshotLease(c)
    BY <1>1, <2>1, <2>3 DEF DeleteSnapshotLease, Drop, Warn
  <2>4. CASE StartCancel(c) \/ Exit(c) \/ ConfirmStopped(c) \/ DeleteCentralBuildArtifacts(c)
    BY <1>1, <2>1, <2>4 DEF StartCancel, Exit, ConfirmStopped, DeleteCentralBuildArtifacts, Goto, Drop, Warn
  <2>5. CASE LocateDispatchedRun(c)
    BY <1>1, <2>1, <2>5 DEF LocateDispatchedRun, Goto, Drop, Warn
  <2>6. CASE CancelWorkflowRun(c)
    BY <1>1, <2>1, <2>6 DEF CancelWorkflowRun, Goto, Warn
  <2> QED
    BY <2>2, <2>3, <2>4, <2>5, <2>6 DEF CleanupStep
<1>2. CASE LocateDispatchedRun(c)
  BY <1>2 DEF LocateDispatchedRun, Goto, Drop, Warn, Forward
<1>3. CASE CancelWorkflowRun(c)
  <2>1. run' = run \/ run' = [run EXCEPT ![runID[c]] = [run[runID[c]] EXCEPT !.stopping = TRUE]]
    BY <1>3 DEF CancelWorkflowRun
  <2>2. \A r \in RunIds : run'[r].title = run[r].title /\ run'[r].status = run[r].status
    <3>1. ASSUME NEW r \in RunIds
          PROVE  /\ [run[r] EXCEPT !.stopping = TRUE].title = run[r].title
                 /\ [run[r] EXCEPT !.stopping = TRUE].status = run[r].status
      BY RunTyped DEF Run
    <3> QED
      BY <2>1, <3>1
  <2>3. Forward
    BY <2>2 DEF Forward
  <2> QED
    BY <1>3, <2>3 DEF CancelWorkflowRun, Goto, Warn
<1>4. CASE ~LocateDispatchedRun(c) /\ ~CancelWorkflowRun(c)
  BY <1>1, <1>4 DEF CleanupStep, DeleteCentralArtifact, DeleteSnapshotLease, StartCancel,
                    ConfirmStopped, DeleteCentralBuildArtifacts, Exit
<1> QED
  BY <1>2, <1>3, <1>4

LEMMA GiveUpFrame == ASSUME TypeOK, NEW c \in Builds, TimesOut(c) \/ CallFails(c)
                     PROVE  /\ Forward /\ \A b \in Builds \ {c} : Untouched(b)
                            /\ pc[c] \in Foreground \ {"prepare"}
                            /\ UNCHANGED <<run, runID, defers, warned>>
                            /\ pc[c] # "trigger" => UNCHANGED accepted
                            /\ pc[c] # "push" => UNCHANGED refs
                            /\ \E o \in {"unprepared", "untriggered", "notStarted", "notCompleted",
                                        "unavailable", "undelivered"} :
                                 /\ outcome' = [outcome EXCEPT ![c] = o]
                                 /\ pc' = [pc EXCEPT ![c] = "unwind"]
                                 /\ pc[c] = "push" <=> o = "unprepared"
                                 /\ pc[c] = "trigger" <=> o = "untriggered"
                               \/ /\ pc[c] \in Retrieval
                                  /\ UNCHANGED outcome
                                  /\ \E p \in Retrieval : pc' = [pc EXCEPT ![c] = p]
<1> USE DEF TypeOK, HubTypeOK, CliTypeOK
<1>1. GiveUp(c) /\ pc[c] \in {"push", "trigger", "waitStart", "waitDone", "findBase", "findTrusted",
                             "findResult", "download", "deliver"}
  BY DEF TimesOut, CallFails, Foreground, ForegroundPolls
<1>2. pc[c] \in Foreground \ {"prepare"}
  BY <1>1 DEF Foreground, ForegroundPolls
<1>3. UNCHANGED <<run, runID, defers, warned>>
  BY <1>1 DEF GiveUp
<1>4. /\ pc[c] # "trigger" => UNCHANGED accepted
      /\ pc[c] # "push" => UNCHANGED refs
  BY <1>1 DEF GiveUp
<1>5. \E o \in {"unprepared", "untriggered", "notStarted", "notCompleted",
               "unavailable", "undelivered"} :
         /\ outcome' = [outcome EXCEPT ![c] = o]
         /\ pc' = [pc EXCEPT ![c] = "unwind"]
         /\ pc[c] = "push" <=> o = "unprepared"
         /\ pc[c] = "trigger" <=> o = "untriggered"
       \/ /\ pc[c] \in Retrieval
          /\ UNCHANGED outcome
          /\ \E p \in Retrieval : pc' = [pc EXCEPT ![c] = p]
  BY <1>1 DEF GiveUp, Goto, Return, Retrieval
<1>6. Forward /\ \A b \in Builds \ {c} : Untouched(b)
  BY <1>1, <1>3, <1>5 DEF GiveUp, Forward, Untouched
<1> QED
  BY <1>2, <1>3, <1>4, <1>5, <1>6

LEMMA ForegroundFrame ==
    ASSUME TypeOK, NEW c \in Builds,
           \/ Prepare(c) \/ Push(c) \/ TriggerWorkflow(c) \/ PollForWorkflowStart(c) \/ PollForWorkflowCompletion(c)
           \/ PollForBaseArtifact(c) \/ FindTrustedArtifact(c) \/ FindResultArtifact(c)
           \/ DownloadCentralArtifact(c) \/ Deliver(c)
    PROVE  Forward /\ \A b \in Builds \ {c} : Untouched(b)
<1> USE DEF TypeOK, HubTypeOK, CliTypeOK, Untouched, hubVars, Forward
<1>1. CASE Prepare(c)
  BY <1>1 DEF Prepare, Goto, Return
<1>2. CASE Push(c)
  BY <1>2 DEF Push, Goto, Register
<1>3. CASE TriggerWorkflow(c)
  BY <1>3 DEF TriggerWorkflow, Goto, Register
<1>4. CASE PollForWorkflowStart(c)
  BY <1>4 DEF PollForWorkflowStart, Goto
<1>5. CASE PollForWorkflowCompletion(c)
  BY <1>5 DEF PollForWorkflowCompletion, Goto
<1>6. CASE PollForBaseArtifact(c)
  BY <1>6 DEF PollForBaseArtifact, Goto, Register
<1>7. CASE FindTrustedArtifact(c)
  BY <1>7 DEF FindTrustedArtifact, Goto, Register
<1>8. CASE FindResultArtifact(c)
  BY <1>8 DEF FindResultArtifact, Goto, Register
<1>9. CASE DownloadCentralArtifact(c) \/ Deliver(c)
  BY <1>9 DEF DownloadCentralArtifact, Deliver, Goto, Return
<1> QED
  BY <1>1, <1>2, <1>3, <1>4, <1>5, <1>6, <1>7, <1>8, <1>9

\* What a CLI step does to its own build, action by action.
LEMMA GiveUpInv == ASSUME IInv, NEW c \in Builds, TimesOut(c) \/ CallFails(c)
                   PROVE  BuildInv(c)'
<1>0. TypeOK /\ BuildInv(c)
  BY DEF IInv
<1>1. /\ Forward
      /\ pc[c] \in Foreground \ {"prepare"} /\ outcome[c] = "none"
      /\ UNCHANGED <<run, runID, defers, warned>>
      /\ pc[c] # "trigger" => UNCHANGED accepted
      /\ pc[c] # "push" => UNCHANGED refs
  BY <1>0, GiveUpFrame DEF BuildInv, Phased
<1>2. /\ RunsOf(c)' = RunsOf(c)
      /\ pc[c] # "trigger" => (Over(c) => Over(c)') /\ Identified(c)'
  BY <1>0, <1>1, ForwardRuns DEF BuildInv, Over
<1>3. CASE /\ pc[c] \in Retrieval /\ UNCHANGED outcome
           /\ \E p \in Retrieval : pc' = [pc EXCEPT ![c] = p]
  <2>1. pc'[c] \in Retrieval /\ pc'[c] \in Foreground \ {"prepare", "push", "trigger", "waitStart", "waitDone"}
    BY <1>0, <1>3 DEF TypeOK, CliTypeOK, Retrieval, Foreground, ForegroundPolls
  <2>2. pc[c] \notin {"push", "trigger"} /\ pc'[c] \notin Cleanup \cup {"done"}
    BY <1>3, <2>1 DEF Retrieval, Cleanup, CleanupPolls
  <2>3. Over(c)' /\ Identified(c)'
    BY <1>0, <1>2, <1>3, <2>2 DEF BuildInv, Settled
  <2>4. Phased(c)'
    BY <1>0, <1>1, <1>3, <2>1, <2>2 DEF BuildInv, Phased
  <2> QED
    BY <2>3, <2>4 DEF BuildInv, Settled, Released
<1>4. ASSUME NEW o \in {"unprepared", "untriggered", "notStarted", "notCompleted",
                      "unavailable", "undelivered"},
             outcome' = [outcome EXCEPT ![c] = o],
             pc' = [pc EXCEPT ![c] = "unwind"],
             pc[c] = "push" <=> o = "unprepared",
             pc[c] = "trigger" <=> o = "untriggered"
      PROVE  BuildInv(c)'
  <2>1. pc'[c] = "unwind" /\ outcome'[c] = o
    BY <1>0, <1>4 DEF TypeOK, CliTypeOK
  <2>2. CASE pc[c] = "trigger"
    <3>1. RunsOf(c) = {} /\ refs[c] = "pushed" /\ outcome'[c] = "untriggered"
      BY <1>0, <1>4, <2>1, <2>2 DEF BuildInv, Phased
    <3>2. Identified(c)'
      BY <1>0, <1>1, <1>2, <3>1 DEF BuildInv, Identified
    <3>3. Phased(c)' /\ Released(c)' /\ Settled(c)'
      BY <2>1, <3>1 DEF Phased, Released, Settled, Retrieval, Dispatched, Foreground, ForegroundPolls
    <3> QED
      BY <3>2, <3>3 DEF BuildInv
  <2>3. CASE pc[c] = "push"
    <3>1. RunsOf(c) = {} /\ c \notin accepted /\ outcome'[c] = "unprepared" /\ UNCHANGED accepted
      BY <1>0, <1>1, <1>4, <2>1, <2>3 DEF BuildInv, Phased
    <3>2. Over(c)' /\ Identified(c)'
      BY <1>0, <1>2, <2>3, <3>1 DEF Over, BuildInv
    <3>3. Phased(c)'
      BY <1>2, <2>1, <3>1 DEF Phased, Foreground, ForegroundPolls
    <3> QED
      BY <3>2, <3>3 DEF BuildInv, Settled, Released
  <2>4. CASE pc[c] \in Retrieval
    <3>1. pc[c] \notin {"push", "trigger"}
      BY <2>4 DEF Retrieval
    <3>2. Over(c)' /\ Identified(c)'
      BY <1>0, <1>2, <2>4, <3>1 DEF BuildInv, Settled
    <3>3. Phased(c)'
      BY <1>4, <2>1, <3>1 DEF Phased, Foreground, ForegroundPolls
    <3> QED
      BY <3>2, <3>3 DEF BuildInv, Settled, Released
  <2>5. CASE pc[c] \in {"waitStart", "waitDone"}
    <3>1. Identified(c)' /\ (Over(c) => Over(c)') /\ UNCHANGED <<refs, accepted>>
      BY <1>1, <1>2, <2>5
    <3>2. "cancel" \in defers'[c]
      BY <1>0, <1>1, <2>5 DEF BuildInv, Phased
    <3>3. Phased(c)'
      BY <1>4, <2>1, <2>5 DEF Phased, Foreground, ForegroundPolls
    <3>4. Settled(c)'
      BY <2>1, <3>2 DEF Settled, Retrieval
    <3>5. Released(c)'
      BY <1>0, <1>1, <2>1, <3>1 DEF BuildInv, Released
    <3> QED
      BY <3>1, <3>3, <3>4, <3>5 DEF BuildInv
  <2> QED
    BY <1>1, <2>2, <2>3, <2>4, <2>5 DEF Foreground, ForegroundPolls, Retrieval
<1> QED
  BY <1>0, <1>3, <1>4, GiveUpFrame

LEMMA ForegroundInv ==
    ASSUME IInv, NEW c \in Builds,
           \/ Prepare(c) \/ Push(c) \/ TriggerWorkflow(c) \/ PollForWorkflowStart(c) \/ PollForWorkflowCompletion(c)
           \/ PollForBaseArtifact(c) \/ FindTrustedArtifact(c) \/ FindResultArtifact(c)
           \/ DownloadCentralArtifact(c) \/ Deliver(c)
    PROVE  BuildInv(c)'
<1>0. TypeOK /\ Adopted /\ BuildInv(c) /\ Forward
  BY ForegroundFrame DEF IInv
<1>1. RunsOf(c)' = RunsOf(c) /\ UNCHANGED <<run, warned>>
  BY <1>0, ForwardRuns DEF hubVars, Prepare, Push, TriggerWorkflow, PollForWorkflowStart, PollForWorkflowCompletion,
     PollForBaseArtifact, FindTrustedArtifact, FindResultArtifact, DownloadCentralArtifact, Deliver
<1> USE DEF TypeOK, CliTypeOK, hubVars
<1>2. CASE Prepare(c) \/ Push(c)
  <2>1. RunsOf(c) = {} /\ c \notin accepted /\ UNCHANGED <<accepted, runID>>
    BY <1>0, <1>2 DEF BuildInv, Phased, Prepare, Push
  <2>2. Over(c)' /\ Identified(c)'
    BY <1>0, <1>1, <2>1, ForwardRuns DEF Over, BuildInv
  <2>3. Phased(c)'
    <3>1. CASE Prepare(c)
      BY <1>0, <1>1, <2>1, <3>1 DEF BuildInv, Phased, Prepare, Goto, Return, Foreground, ForegroundPolls, Cleanup, CleanupPolls
    <3>2. CASE Push(c)
      BY <1>0, <1>1, <2>1, <3>2 DEF BuildInv, Phased, Push, Goto, Foreground, ForegroundPolls, Cleanup, CleanupPolls,
         HubTypeOK
    <3> QED
      BY <1>2, <3>1, <3>2
  <2> QED
    BY <2>2, <2>3 DEF BuildInv, Settled, Released
<1>3. CASE TriggerWorkflow(c)
  <2>1. /\ RunsOf(c) = {} /\ refs'[c] = "pushed" /\ outcome'[c] = "none" /\ pc'[c] = "waitStart"
        /\ "cancel" \in defers'[c] /\ UNCHANGED runID
    BY <1>0, <1>3 DEF BuildInv, Phased, TriggerWorkflow, Goto, Register, Foreground
  <2>2. Identified(c)'
    BY <1>0, <1>1, <2>1 DEF BuildInv, Identified
  <2>3. Phased(c)' /\ Settled(c)' /\ Released(c)'
    BY <2>1 DEF Phased, Settled, Released, Retrieval, Dispatched, Foreground, ForegroundPolls, Cleanup, CleanupPolls
  <2> QED
    BY <2>2, <2>3 DEF BuildInv
<1>4. CASE PollForWorkflowStart(c)
  <2>1. PICK r \in RunIds : RunOfBuildID(c, r) /\ runID' = [runID EXCEPT ![c] = r]
    BY <1>4 DEF PollForWorkflowStart
  <2>2. r \in RunsOf(c) /\ runID'[c] = r
    BY <1>0, <2>1 DEF RunsOf, RunOfBuildID
  <2>3. /\ outcome'[c] = "none" /\ pc'[c] = "waitDone" /\ "cancel" \in defers'[c]
        /\ UNCHANGED <<accepted, refs, outcome>>
    BY <1>0, <1>4 DEF BuildInv, Phased, PollForWorkflowStart, Goto, Foreground, ForegroundPolls
  <2>4. Identified(c)'
    BY <1>0, <1>1, <2>2, <2>3 DEF BuildInv, Identified
  <2>5. Phased(c)' /\ Settled(c)'
    BY <2>3 DEF Phased, Settled, Retrieval, Dispatched, Foreground, ForegroundPolls, Cleanup, CleanupPolls
  <2>6. Released(c)'
    BY <1>0, <1>1, <2>3 DEF BuildInv, Released, Over
  <2> QED
    BY <2>4, <2>5, <2>6 DEF BuildInv
<1>5. ASSUME accepted' = accepted, refs' = refs, runID' = runID, Over(c),
             \/ pc'[c] \in Retrieval /\ outcome'[c] = "none"
             \/ pc'[c] = "unwind" /\ outcome'[c] \in {"undelivered", "failed", "delivered"}
      PROVE  BuildInv(c)'
  <2>1. Over(c)' /\ Identified(c)'
    BY <1>0, <1>1, <1>5, ForwardRuns DEF BuildInv, Over
  <2>2. Phased(c)'
    BY <1>5 DEF Phased, Retrieval, Foreground, ForegroundPolls, Cleanup, CleanupPolls
  <2> QED
    BY <2>1, <2>2 DEF BuildInv, Settled, Released
<1>6. CASE PollForWorkflowCompletion(c)
  <2>1. runID[c] \in RunsOf(c) /\ run[runID[c]].status = "completed"
    BY <1>0, <1>6 DEF PollForWorkflowCompletion, Adopted, AdoptedPhases, BuildInv, Identified
  <2>2. Over(c)
    BY <1>0, <2>1 DEF BuildInv, Identified, Over
  <2>3. accepted' = accepted /\ refs' = refs /\ runID' = runID /\ outcome'[c] = "none"
    BY <1>0, <1>6 DEF PollForWorkflowCompletion, BuildInv, Phased, Foreground, ForegroundPolls
  <2>4. pc'[c] \in Retrieval
    BY <1>0, <1>6 DEF PollForWorkflowCompletion, Goto, Retrieval
  <2> QED
    BY <1>5, <2>2, <2>3, <2>4
<1>7. CASE \/ PollForBaseArtifact(c) \/ FindTrustedArtifact(c) \/ FindResultArtifact(c)
           \/ DownloadCentralArtifact(c) \/ Deliver(c)
  <2>1. pc[c] \in Retrieval /\ pc[c] \in Foreground /\ accepted' = accepted /\ refs' = refs /\ runID' = runID
    BY <1>7 DEF PollForBaseArtifact, FindTrustedArtifact, FindResultArtifact, DownloadCentralArtifact, Deliver,
       Retrieval, Foreground, ForegroundPolls
  <2>2. Over(c) /\ outcome[c] = "none"
    BY <1>0, <2>1 DEF BuildInv, Settled, Phased
  <2>3. CASE PollForBaseArtifact(c) \/ FindTrustedArtifact(c) \/ FindResultArtifact(c)
    <3>1. pc'[c] \in Retrieval /\ outcome'[c] = "none"
      BY <1>0, <2>2, <2>3 DEF PollForBaseArtifact, FindTrustedArtifact, FindResultArtifact, Goto, Retrieval
    <3> QED
      BY <1>5, <2>1, <2>2, <3>1
  <2>4. CASE DownloadCentralArtifact(c) \/ Deliver(c)
    <3>1. \/ pc'[c] \in Retrieval /\ outcome'[c] = "none"
          \/ pc'[c] = "unwind" /\ outcome'[c] \in {"undelivered", "failed", "delivered"}
      BY <1>0, <2>2, <2>4 DEF DownloadCentralArtifact, Deliver, Goto, Return, Retrieval
    <3> QED
      BY <1>5, <2>1, <2>2, <3>1
  <2> QED
    BY <1>7, <2>3, <2>4
<1> QED
  BY <1>2, <1>3, <1>4, <1>6, <1>7

LEMMA CleanupInv == ASSUME IInv, NEW c \in Builds, CleanupStep(c)
                    PROVE  BuildInv(c)'
<1>0. TypeOK /\ Adopted /\ BuildInv(c) /\ Forward
  BY CleanupFrame DEF IInv
<1>1. RunsOf(c)' = RunsOf(c) /\ UNCHANGED <<accepted, outcome>> /\ (Over(c) => Over(c)')
  <2>1. UNCHANGED <<accepted, outcome>>
    BY DEF hubVars, CleanupStep, DeleteCentralArtifact, DeleteSnapshotLease, StartCancel, LocateDispatchedRun,
           CancelWorkflowRun, ConfirmStopped, DeleteCentralBuildArtifacts, Exit
  <2> QED
    BY <1>0, <2>1, ForwardRuns DEF Over
<1> USE DEF TypeOK, CliTypeOK, hubVars
<1>2. pc[c] \in Cleanup /\ outcome[c] # "none"
  BY <1>0 DEF CleanupStep, DeleteCentralArtifact, DeleteSnapshotLease, StartCancel, LocateDispatchedRun,
     CancelWorkflowRun, ConfirmStopped, DeleteCentralBuildArtifacts, Exit, BuildInv, Phased, Cleanup, CleanupPolls
<1>3. \A p \in Cleanup \cup {"done"} : p \notin Foreground /\ p \notin Retrieval
  BY DEF Cleanup, CleanupPolls, Foreground, ForegroundPolls, Retrieval
<1>4. ASSUME pc'[c] \in Cleanup \cup {"done"}, pc'[c] = "done" => defers'[c] = {}
      PROVE  Phased(c)'
  <2>1. /\ pc'[c] \notin Foreground
        /\ outcome[c] = "unprepared" => c \notin accepted /\ RunsOf(c) = {}
    BY <1>0, <1>3, <1>4 DEF BuildInv, Phased
  <2>2. pc'[c] \notin {"prepare", "push", "trigger", "waitStart", "waitDone"}
    BY <2>1 DEF Foreground, ForegroundPolls
  <2> QED
    BY <1>1, <1>2, <1>4, <2>1, <2>2 DEF Phased
<1>5. ASSUME UNCHANGED runID
      PROVE  Identified(c)'
  BY <1>0, <1>1, <1>5, ForwardRuns DEF BuildInv
<1>6. ASSUME UNCHANGED refs, UNCHANGED warned \/ \E w \in Warnings : Warn(c, w)
      PROVE  Released(c)' /\ (warned[c] # {} => warned'[c] # {})
  <2>1. warned[c] # {} => warned'[c] # {}
    BY <1>0, <1>6 DEF Warn
  <2> QED
    BY <1>0, <1>1, <1>6, <2>1 DEF BuildInv, Released
<1>7. CASE DeleteCentralArtifact(c)
  <2>1. PICK d \in {"base", "trusted", "result"} : Drop(c, d) /\ (UNCHANGED warned \/ Warn(c, d))
    BY <1>7 DEF DeleteCentralArtifact
  <2>2. pc'[c] = "unwind" /\ UNCHANGED <<refs, runID>> /\ ("cancel" \notin defers'[c] => "cancel" \notin defers[c])
    BY <1>0, <1>7, <2>1 DEF DeleteCentralArtifact, Drop
  <2>3. Phased(c)' /\ Identified(c)'
    BY <1>4, <1>5, <2>2 DEF Cleanup
  <2>4. Released(c)' /\ (warned[c] # {} => warned'[c] # {})
    BY <1>6, <2>1, <2>2 DEF Warnings, Defers
  <2>5. Settled(c)'
    BY <1>0, <1>1, <1>3, <2>2, <2>4 DEF BuildInv, Settled, Dispatched, Retrieval
  <2> QED
    BY <2>3, <2>4, <2>5 DEF BuildInv
<1>8. CASE DeleteSnapshotLease(c)
  <2>1. /\ pc'[c] = "unwind" /\ UNCHANGED runID /\ (UNCHANGED warned \/ Warn(c, "lease"))
        /\ Drop(c, "lease") /\ "cancel" \notin defers[c]
    BY <1>0, <1>8 DEF DeleteSnapshotLease, Latest, Rank
  <2>2. Phased(c)' /\ Identified(c)'
    BY <1>4, <1>5, <2>1 DEF Cleanup
  <2>3. warned[c] # {} => warned'[c] # {}
    BY <1>0, <2>1 DEF Warn
  <2>4. Settled(c)'
    BY <1>0, <1>1, <2>1, <2>3 DEF BuildInv, Settled, Dispatched, Retrieval
  <2>5. Over(c) \/ warned[c] # {} \/ outcome[c] = "untriggered"
    BY <1>0, <1>2, <2>1 DEF BuildInv, Settled, Dispatched, Phased, Over
  <2> QED
    BY <1>1, <2>2, <2>3, <2>4, <2>5 DEF BuildInv, Released
<1>9. CASE StartCancel(c) \/ Exit(c)
  <2>1. /\ pc'[c] \in {"locate", "cancel", "done"} /\ UNCHANGED <<refs, runID, warned, defers>>
        /\ pc'[c] = "done" => defers'[c] = {}
    BY <1>0, <1>9 DEF StartCancel, Exit, Goto
  <2>2. Phased(c)' /\ Identified(c)'
    BY <1>4, <1>5, <2>1 DEF Cleanup, CleanupPolls
  <2>3. Released(c)'
    BY <1>6, <2>1
  <2>4. Settled(c)'
    BY <1>0, <1>1, <2>1 DEF BuildInv, Settled, Dispatched, Retrieval
  <2> QED
    BY <2>2, <2>3, <2>4 DEF BuildInv
<1>10. CASE LocateDispatchedRun(c)
  <2>1. CASE /\ \E r \in RunIds : RunOfBuildID(c, r) /\ runID' = [runID EXCEPT ![c] = r]
             /\ Goto(c, "cancel") /\ UNCHANGED <<refs, defers, warned>>
    <3>1. runID'[c] \in RunsOf(c) /\ pc'[c] = "cancel"
      BY <1>0, <2>1 DEF RunsOf, RunOfBuildID, Goto
    <3>2. Identified(c)'
      <4>1. run' = run /\ accepted' = accepted
        BY <1>10 DEF LocateDispatchedRun
      <4> QED
        BY <1>0, <1>1, <3>1, <4>1 DEF BuildInv, Identified
    <3>3. Phased(c)' /\ Released(c)'
      BY <1>4, <1>6, <2>1, <3>1 DEF Cleanup
    <3>4. Settled(c)'
      BY <1>0, <1>1, <2>1, <3>1 DEF BuildInv, Settled, Dispatched, Retrieval
    <3> QED
      BY <3>2, <3>3, <3>4 DEF BuildInv
  <2>2. CASE Warn(c, "locate") /\ Goto(c, "unwind") /\ UNCHANGED <<refs, runID>>
    <3>1. warned'[c] # {} /\ pc'[c] = "unwind"
      BY <1>0, <2>2 DEF Warn, Goto
    <3>2. Phased(c)' /\ Identified(c)'
      BY <1>4, <1>5, <2>2, <3>1 DEF Cleanup
    <3> QED
      BY <3>1, <3>2 DEF BuildInv, Settled, Released, Retrieval
  <2> QED
    BY <1>10, <2>1, <2>2 DEF LocateDispatchedRun
<1>11. CASE CancelWorkflowRun(c)
  <2>1. /\ pc'[c] = "confirm" /\ UNCHANGED <<refs, runID, defers>>
        /\ UNCHANGED warned \/ Warn(c, "cancel")
    BY <1>0, <1>11 DEF CancelWorkflowRun, Goto
  <2>2. Phased(c)' /\ Identified(c)'
    BY <1>4, <1>5, <2>1 DEF Cleanup, CleanupPolls
  <2>3. Released(c)' /\ (warned[c] # {} => warned'[c] # {})
    BY <1>6, <2>1 DEF Warnings, Defers
  <2>4. Settled(c)'
    BY <1>0, <1>1, <2>1, <2>3 DEF BuildInv, Settled, Dispatched, Retrieval
  <2> QED
    BY <2>2, <2>3, <2>4 DEF BuildInv
<1>12. CASE ConfirmStopped(c)
  <2>1. /\ pc[c] = "confirm" /\ pc'[c] = "purge" /\ UNCHANGED <<refs, runID, defers, run>>
        /\ \/ run[runID[c]].status = "completed" /\ UNCHANGED warned
           \/ Warn(c, "confirm")
    BY <1>0, <1>12 DEF ConfirmStopped, Goto
  <2>2. Phased(c)' /\ Identified(c)'
    BY <1>4, <1>5, <2>1 DEF Cleanup
  <2>3. Released(c)'
    BY <1>6, <2>1 DEF Warnings, Defers
  <2>4. runID[c] \in RunsOf(c)
    BY <1>0, <2>1 DEF Adopted, AdoptedPhases, BuildInv, Identified
  <2>5. Over(c)' \/ warned'[c] # {}
    <3>1. CASE run[runID[c]].status = "completed"
      BY <1>0, <1>1, <2>4, <3>1 DEF BuildInv, Identified, Over
    <3>2. CASE Warn(c, "confirm")
      BY <1>0, <3>2 DEF Warn
    <3> QED
      BY <2>1, <3>1, <3>2
  <2> QED
    BY <2>1, <2>2, <2>3, <2>5 DEF BuildInv, Settled, Retrieval
<1>13. CASE DeleteCentralBuildArtifacts(c)
  <2>1. /\ pc[c] = "purge" /\ pc'[c] = "unwind" /\ UNCHANGED <<refs, runID>>
        /\ UNCHANGED warned \/ Warn(c, "purge")
    BY <1>0, <1>13 DEF DeleteCentralBuildArtifacts, Goto
  <2>2. Phased(c)' /\ Identified(c)'
    BY <1>4, <1>5, <2>1 DEF Cleanup
  <2>3. Released(c)' /\ (warned[c] # {} => warned'[c] # {})
    BY <1>6, <2>1 DEF Warnings
  <2>4. Settled(c)'
    BY <1>0, <1>1, <2>1, <2>3 DEF BuildInv, Settled, Retrieval
  <2> QED
    BY <2>2, <2>3, <2>4 DEF BuildInv
<1> QED
  BY <1>7, <1>8, <1>9, <1>10, <1>11, <1>12, <1>13 DEF CleanupStep

LEMMA OthersInv == ASSUME IInv, NEW c \in Builds, LogsStep(c) \/ Expire(c) \/ Interrupt(c) \/ Crash(c)
                   PROVE  /\ Forward /\ \A b \in Builds \ {c} : Untouched(b)
                          /\ BuildInv(c)'
<1>0. TypeOK /\ BuildInv(c)
  BY DEF IInv
<1>1. Forward
  BY DEF LogsStep, LogsFind, LogsSave, LogsDelete, Expire, Interrupt, Crash, hubVars, Forward
<1>2. CASE LogsStep(c) \/ Expire(c) \/ Interrupt(c)
  <2>1. \A b \in Builds : Untouched(b)
    BY <1>2 DEF LogsStep, LogsFind, LogsSave, LogsDelete, Expire, Interrupt, hubVars, cliVars, Untouched
  <2> QED
    BY <1>0, <1>1, <2>1, Steady
<1>3. CASE Crash(c)
  <2>1. /\ \A b \in Builds \ {c} : Untouched(b)
        /\ pc'[c] = "crashed" /\ pc[c] # "prepare"
        /\ UNCHANGED <<run, runID, defers, warned, outcome, refs, accepted>>
    BY <1>0, <1>3 DEF Crash, Goto, hubVars, Untouched, TypeOK, CliTypeOK
  <2>2. Identified(c)' /\ RunsOf(c)' = RunsOf(c) /\ (Over(c) => Over(c)')
    BY <1>0, <1>1, <2>1, ForwardRuns DEF BuildInv, Over
  <2>3. Phased(c)'
    BY <1>0, <2>1, <2>2 DEF BuildInv, Phased, Foreground, ForegroundPolls, Cleanup, CleanupPolls
  <2>4. Settled(c)' /\ Released(c)'
    BY <1>0, <2>1, <2>2 DEF BuildInv, Settled, Released, Dispatched, Retrieval
  <2> QED
    BY <1>1, <2>1, <2>2, <2>3, <2>4 DEF BuildInv
<1> QED
  BY <1>2, <1>3

LEMMA InitInv == Init => IInv
<1> SUFFICES ASSUME Init PROVE IInv
  OBVIOUS
<1>1. TypeOK
  BY InitTyped
<1>2. Adopted
  BY DEF Init, Adopted, AdoptedPhases, Retrieval
<1>3. ASSUME NEW b \in Builds PROVE BuildInv(b)
  <2>1. RunsOf(b) = {} /\ b \notin accepted
    BY BuildAssumption DEF Init, HubInit, RunsOf, AbsentRun
  <2> QED
    BY <2>1, RunAssumption DEF Init, HubInit, BuildInv, Identified, Phased, Settled, Released, Over, Dispatched,
       Foreground, Cleanup, CleanupPolls, Retrieval
<1> QED
  BY <1>1, <1>2, <1>3 DEF IInv

LEMMA NextInv == ASSUME IInv, [Next]_vars
                 PROVE  IInv'
<1>1. TypeOK' /\ Adopted'
  BY NextTyped, NextAdopted DEF IInv
<1>2. ASSUME NEW b \in Builds PROVE BuildInv(b)'
  <2>0. TypeOK /\ BuildInv(b)
    BY DEF IInv
  <2>1. CASE UNCHANGED vars
    BY <2>0, <2>1, Steady DEF vars, hubVars, cliVars, Forward, Untouched
  <2>2. CASE HubNext /\ UNCHANGED <<cliVars, logs>>
    BY <2>2, HubInv
  <2>3. ASSUME NEW c \in Builds, CliStep(c) \/ CallFails(c)
        PROVE  BuildInv(b)'
    <3>1. Forward /\ (b # c => Untouched(b))
      BY <2>0, <2>3, CleanupFrame, GiveUpFrame, ForegroundFrame DEF CliStep
    <3>2. CASE b # c
      BY <2>0, <3>1, <3>2, Steady
    <3>3. CASE b = c
      BY <2>3, <3>3, CleanupInv, GiveUpInv, ForegroundInv DEF CliStep
    <3> QED
      BY <3>2, <3>3
  <2>4. ASSUME NEW c \in Builds, LogsStep(c) \/ Expire(c) \/ Interrupt(c) \/ Crash(c)
        PROVE  BuildInv(b)'
    <3>1. CASE b # c
      BY <2>0, <2>4, <3>1, OthersInv, Steady
    <3>2. CASE b = c
      BY <2>4, <3>2, OthersInv
    <3> QED
      BY <3>1, <3>2
  <2>5. CASE Next
    BY <2>2, <2>3, <2>4, <2>5 DEF Next
  <2> QED
    BY <2>1, <2>5
<1> QED
  BY <1>1, <1>2 DEF IInv

\* The bookkeeping of every build and the state of its run agree in every
\* reachable state, however builds, runs, failures and interrupts interleave.
THEOREM BookkeepingAgrees == Spec => []IInv
BY InitInv, NextInv, PTL DEF Spec

\* A dispatched build that returned without a warning left nothing running and
\* nothing to be started, for any number of builds, runs and failing calls.
THEOREM NoSilentRunAlways == Spec => []NoSilentRun
<1>1. IInv => NoSilentRun
  <2> SUFFICES ASSUME IInv, NEW b \in Builds, pc[b] = "done", Dispatched(b), warned[b] = {}
               PROVE  Over(b)
    BY DEF NoSilentRun, Over
  <2>1. "cancel" \notin defers[b]
    BY DEF IInv, BuildInv, Phased
  <2> QED
    BY <2>1 DEF IInv, BuildInv, Settled
<1> QED
  BY <1>1, BookkeepingAgrees, PTL

\* No run is left without the snapshot it still has to check out, unless the CLI
\* warned that it could not stop that run or never learned that it had started it.
THEOREM SnapshotOutlivesFetchAlways == Spec => []SnapshotOutlivesFetch
<1>1. IInv => SnapshotOutlivesFetch
  BY DEF IInv, BuildInv, Released, Over, SnapshotOutlivesFetch, Live
<1> QED
  BY <1>1, BookkeepingAgrees, PTL

(***************************************************************************)
(* What a CLI may touch.  A run other than the adopted one is left alone;  *)
(* the adopted one is over before anything of it is deleted.               *)
(***************************************************************************)
LEMMA OnlyAdoptedRun == ASSUME TypeOK, NEW c \in Builds, CliStep(c) \/ CallFails(c),
                               NEW r \in RunIds, r # runID[c]
                        PROVE  run'[r] = run[r] /\ art'[r] = art[r]
<1> USE DEF TypeOK, HubTypeOK, CliTypeOK, hubVars
<1>1. CASE DeleteCentralArtifact(c)
  <2>1. PICK d \in {"base", "trusted", "result"} :
           run' = run /\ art' \in {art, Deleted(runID[c], {DeferredName(c, d)})}
    BY <1>1 DEF DeleteCentralArtifact
  <2> QED
    BY <2>1 DEF Deleted
<1>2. CASE DeleteCentralBuildArtifacts(c)
  <2>1. PICK names \in SUBSET PurgedNames : run' = run /\ art' = Deleted(runID[c], names)
    BY <1>2 DEF DeleteCentralBuildArtifacts
  <2> QED
    BY <2>1 DEF Deleted
<1>3. CASE CancelWorkflowRun(c)
  <2>1. art' = art /\ (run' = run \/ run' = [run EXCEPT ![runID[c]] = [run[runID[c]] EXCEPT !.stopping = TRUE]])
    BY <1>3 DEF CancelWorkflowRun
  <2> QED
    BY <2>1
<1>4. CASE \/ DeleteSnapshotLease(c) \/ StartCancel(c) \/ LocateDispatchedRun(c) \/ ConfirmStopped(c) \/ Exit(c)
  BY <1>4 DEF DeleteSnapshotLease, StartCancel, LocateDispatchedRun, ConfirmStopped, Exit
<1>5. CASE TimesOut(c) \/ CallFails(c)
  BY <1>5 DEF TimesOut, CallFails, GiveUp
<1>6. CASE \/ Prepare(c) \/ Push(c) \/ TriggerWorkflow(c) \/ PollForWorkflowStart(c) \/ PollForWorkflowCompletion(c)
           \/ PollForBaseArtifact(c) \/ FindTrustedArtifact(c) \/ FindResultArtifact(c)
           \/ DownloadCentralArtifact(c) \/ Deliver(c)
  BY <1>6 DEF Prepare, Push, TriggerWorkflow, PollForWorkflowStart, PollForWorkflowCompletion,
     PollForBaseArtifact, FindTrustedArtifact, FindResultArtifact, DownloadCentralArtifact, Deliver
<1> QED
  BY <1>1, <1>2, <1>3, <1>4, <1>5, <1>6 DEF CliStep, CleanupStep

\* Whose step it was: the CLI's own, if its place or its defers changed.
LEMMA ActorOf ==
    ASSUME TypeOK, Next, NEW b \in Builds, pc'[b] # pc[b] \/ defers'[b] # defers[b]
    PROVE  CliStep(b) \/ CallFails(b) \/ (run' = run /\ art' = art)
<1>1. CASE HubNext /\ UNCHANGED <<cliVars, logs>>
  BY <1>1 DEF cliVars
<1>2. ASSUME NEW c \in Builds, CliStep(c) \/ CallFails(c), c # b
      PROVE  FALSE
  <2>1. Untouched(b)
    BY <1>2, CleanupFrame, GiveUpFrame, ForegroundFrame DEF CliStep
  <2> QED
    BY <2>1 DEF Untouched
<1>3. ASSUME NEW c \in Builds, LogsStep(c)
      PROVE  FALSE
  BY <1>3 DEF LogsStep, LogsFind, LogsSave, LogsDelete, cliVars
<1>4. ASSUME NEW c \in Builds, Expire(c) \/ Interrupt(c) \/ Crash(c)
      PROVE  run' = run /\ art' = art
  BY <1>4 DEF Expire, Interrupt, Crash, hubVars
<1> QED
  BY <1>1, <1>2, <1>3, <1>4 DEF Next

\* No step of a build's CLI changes a run or an artifact of another build,
\* however many builds are dispatched at the same time.
THEOREM OnlyOwnRunAlways == Spec => OnlyOwnRun
<1> DEFINE Own == \A b \in Builds : pc'[b] # pc[b] \/ defers'[b] # defers[b] =>
          \A r \in RunIds : run[r].title # b => run'[r] = run[r] /\ art'[r] = art[r]
<1>1. IInv /\ [Next]_vars => [Own]_vars
  <2> SUFFICES ASSUME IInv, Next, NEW b \in Builds, pc'[b] # pc[b] \/ defers'[b] # defers[b],
                      NEW r \in RunIds, run[r].title # b
               PROVE  run'[r] = run[r] /\ art'[r] = art[r]
    BY DEF Own
  <2>1. TypeOK /\ Identified(b)
    BY DEF IInv, BuildInv
  <2>2. CliStep(b) \/ CallFails(b) \/ (run' = run /\ art' = art)
    BY <2>1, ActorOf
  <2>3. r # runID[b]
    BY <2>1 DEF Identified, RunsOf
  <2> QED
    BY <2>1, <2>2, <2>3, OnlyAdoptedRun
<1> QED
  BY <1>1, BookkeepingAgrees, PTL DEF Spec, OnlyOwnRun

-----------------------------------------------------------------------------
\* A build that is about to delete artifacts knows that its run is over, or has
\* warned that it does not.
ArtifactDefers == {"base", "trusted", "result"}
Confirmed(b) == runID[b] \in RunIds /\ run[runID[b]].status = "completed"
Deleting(b) == \/ \E d \in ArtifactDefers : d \in defers[b]
               \/ pc[b] = "purge" /\ "confirm" \notin warned[b]
Stopped(b) == Deleting(b) => Confirmed(b)

LEMMA KeepsConfirmed ==
    ASSUME NEW b \in Builds, Stopped(b), Forward, runID'[b] = runID[b], Deleting(b)' => Deleting(b)
    PROVE  Stopped(b)'
BY DEF Stopped, Confirmed, Forward

LEMMA ForegroundStopped ==
    ASSUME IInv, NEW c \in Builds, Stopped(c),
           \/ Prepare(c) \/ Push(c) \/ TriggerWorkflow(c) \/ PollForWorkflowStart(c) \/ PollForWorkflowCompletion(c)
           \/ PollForBaseArtifact(c) \/ FindTrustedArtifact(c) \/ FindResultArtifact(c)
           \/ DownloadCentralArtifact(c) \/ Deliver(c)
    PROVE  Stopped(c)'
<1>0. TypeOK /\ Adopted /\ BuildInv(c) /\ Forward
  BY ForegroundFrame DEF IInv
<1> USE DEF TypeOK, CliTypeOK
<1>1. CASE Prepare(c) \/ Push(c) \/ TriggerWorkflow(c) \/ PollForWorkflowCompletion(c) \/ DownloadCentralArtifact(c) \/ Deliver(c)
  <2>1. runID' = runID /\ pc'[c] # "purge"
    BY <1>0, <1>1 DEF Prepare, Push, TriggerWorkflow, PollForWorkflowCompletion, DownloadCentralArtifact, Deliver, Goto, Return
  <2>2. \A d \in ArtifactDefers : d \in defers'[c] => d \in defers[c]
    BY <1>0, <1>1 DEF Prepare, Push, TriggerWorkflow, PollForWorkflowCompletion, DownloadCentralArtifact, Deliver,
       Register, ArtifactDefers
  <2> QED
    BY <1>0, <2>1, <2>2, KeepsConfirmed DEF Deleting
<1>2. CASE PollForWorkflowStart(c)
  <2>1. PICK r \in RunIds : RunOfBuildID(c, r) /\ runID' = [runID EXCEPT ![c] = r]
    BY <1>2 DEF PollForWorkflowStart
  <2>2. r \in RunsOf(c) /\ runID'[c] = r
    BY <1>0, <2>1 DEF RunsOf, RunOfBuildID
  <2>3. UNCHANGED <<run, defers>> /\ pc'[c] # "purge"
    BY <1>0, <1>2 DEF PollForWorkflowStart, Goto, hubVars
  <2>4. Deleting(c)' => Confirmed(c)
    BY <2>3 DEF Deleting, Stopped
  <2>5. Confirmed(c) => runID[c] = r
    BY <1>0, <2>2 DEF Confirmed, BuildInv, Identified
  <2> QED
    BY <2>2, <2>3, <2>4, <2>5 DEF Stopped, Confirmed
<1>3. CASE PollForBaseArtifact(c) \/ FindTrustedArtifact(c) \/ FindResultArtifact(c)
  <2>1. pc[c] \in Retrieval /\ runID' = runID /\ UNCHANGED run
    BY <1>3 DEF PollForBaseArtifact, FindTrustedArtifact, FindResultArtifact, Retrieval, hubVars
  <2>2. runID[c] \in RunsOf(c) /\ Over(c)
    BY <1>0, <2>1 DEF Adopted, AdoptedPhases, BuildInv, Identified, Settled
  <2> QED
    BY <2>1, <2>2 DEF Stopped, Confirmed, Over, RunsOf
<1> QED
  BY <1>1, <1>2, <1>3

LEMMA CleanupStopped == ASSUME IInv, NEW c \in Builds, Stopped(c), CleanupStep(c)
                        PROVE  Stopped(c)'
<1>0. TypeOK /\ Adopted /\ BuildInv(c) /\ Forward
  BY CleanupFrame DEF IInv
<1> USE DEF TypeOK, CliTypeOK
<1>1. ASSUME runID' = runID, pc'[c] # "purge", defers'[c] \subseteq defers[c]
      PROVE  Stopped(c)'
  BY <1>0, <1>1, KeepsConfirmed DEF Deleting
<1>2. CASE DeleteCentralArtifact(c)
  <2>1. PICK d \in {"base", "trusted", "result"} : Drop(c, d)
    BY <1>2 DEF DeleteCentralArtifact
  <2>2. runID' = runID /\ pc'[c] # "purge" /\ defers'[c] \subseteq defers[c]
    BY <1>0, <1>2, <2>1 DEF DeleteCentralArtifact, Drop
  <2> QED
    BY <1>1, <2>2
<1>3. CASE DeleteSnapshotLease(c) \/ StartCancel(c) \/ CancelWorkflowRun(c) \/ DeleteCentralBuildArtifacts(c) \/ Exit(c)
  <2>1. runID' = runID /\ pc'[c] # "purge" /\ defers'[c] \subseteq defers[c]
    BY <1>0, <1>3 DEF DeleteSnapshotLease, StartCancel, CancelWorkflowRun, DeleteCentralBuildArtifacts, Exit, Goto, Drop
  <2> QED
    BY <1>1, <2>1
<1>4. CASE LocateDispatchedRun(c)
  <2>1. CASE UNCHANGED runID
    <3>1. pc'[c] # "purge" /\ defers'[c] \subseteq defers[c]
      BY <1>0, <1>4 DEF LocateDispatchedRun, Goto, Drop
    <3> QED
      BY <1>1, <2>1, <3>1
  <2>2. ASSUME NEW r \in RunIds, RunOfBuildID(c, r), runID' = [runID EXCEPT ![c] = r], UNCHANGED defers
        PROVE  Stopped(c)'
    <3>1. r \in RunsOf(c) /\ runID'[c] = r
      BY <1>0, <2>2 DEF RunsOf, RunOfBuildID
    <3>2. UNCHANGED run /\ pc'[c] # "purge"
      BY <1>0, <1>4 DEF LocateDispatchedRun, Goto, hubVars
    <3>3. Deleting(c)' => Confirmed(c)
      BY <2>2, <3>2 DEF Deleting, Stopped
    <3>4. Confirmed(c) => runID[c] = r
      BY <1>0, <3>1 DEF Confirmed, BuildInv, Identified
    <3> QED
      BY <3>1, <3>2, <3>3, <3>4 DEF Stopped, Confirmed
  <2> QED
    BY <1>4, <2>1, <2>2 DEF LocateDispatchedRun
<1>5. CASE ConfirmStopped(c)
  <2>1. /\ pc[c] = "confirm" /\ UNCHANGED <<run, runID, defers>>
        /\ run[runID[c]].status = "completed" \/ Warn(c, "confirm")
    BY <1>5 DEF ConfirmStopped, hubVars
  <2>2. runID[c] \in RunIds
    BY <1>0, <2>1 DEF Adopted, AdoptedPhases
  <2>3. CASE run[runID[c]].status = "completed"
    BY <2>1, <2>2, <2>3 DEF Stopped, Confirmed
  <2>4. CASE Warn(c, "confirm")
    <3>1. "confirm" \in warned'[c]
      BY <1>0, <2>4 DEF Warn
    <3> QED
      BY <1>0, <2>1, <3>1, KeepsConfirmed DEF Deleting
  <2> QED
    BY <2>1, <2>3, <2>4
<1> QED
  BY <1>2, <1>3, <1>4, <1>5 DEF CleanupStep

LEMMA NextStopped == ASSUME IInv, [Next]_vars, NEW b \in Builds, Stopped(b)
                     PROVE  Stopped(b)'
<1>0. TypeOK
  BY DEF IInv
<1>1. ASSUME Forward, Untouched(b)
      PROVE  Stopped(b)'
  BY <1>1, KeepsConfirmed DEF Untouched, Deleting
<1>2. CASE UNCHANGED vars
  BY <1>1, <1>2 DEF vars, hubVars, cliVars, Forward, Untouched
<1>3. CASE HubNext /\ UNCHANGED <<cliVars, logs>>
  <2>1. ASSUME NEW r \in RunIds, RunStep(r)
        PROVE  Forward
    BY <1>0, <2>1, RunStepForward
  <2>2. ASSUME NEW c \in Builds, CreateRun(c)
        PROVE  \A r \in RunIds : run[r].status = "completed" => run'[r].status = "completed"
    <3>1. PICK r \in RunIds : /\ run[r].status = "absent"
                              /\ run' = [run EXCEPT ![r] = [AbsentRun EXCEPT !.title = c, !.status = "queued"]]
      BY <2>2 DEF CreateRun
    <3>2. \A s \in RunIds \ {r} : run'[s] = run[s]
      BY <1>0, <3>1 DEF TypeOK, HubTypeOK
    <3> QED
      BY <3>1, <3>2
  <2>3. \A r \in RunIds : run[r].status = "completed" => run'[r].status = "completed"
    BY <1>3, <2>1, <2>2 DEF HubNext, Forward
  <2> QED
    BY <1>3, <2>3 DEF Stopped, Deleting, Confirmed, cliVars
<1>4. ASSUME NEW c \in Builds, CliStep(c) \/ CallFails(c)
      PROVE  Stopped(b)'
  <2>1. Forward /\ (b # c => Untouched(b))
    BY <1>0, <1>4, CleanupFrame, GiveUpFrame, ForegroundFrame DEF CliStep
  <2>2. CASE b = c /\ (TimesOut(c) \/ CallFails(c))
    <3>1. UNCHANGED <<runID, defers, warned>> /\ pc'[c] # "purge"
      <4>1. /\ UNCHANGED <<runID, defers, warned>>
            /\ \/ pc' = [pc EXCEPT ![c] = "unwind"]
               \/ \E p \in Retrieval : pc' = [pc EXCEPT ![c] = p]
        BY <1>0, <2>2, GiveUpFrame
      <4> QED
        BY <1>0, <4>1 DEF TypeOK, CliTypeOK, Retrieval
    <3> QED
      BY <2>1, <2>2, <3>1, KeepsConfirmed DEF Deleting
  <2> QED
    BY <1>1, <1>4, <2>1, <2>2, CleanupStopped, ForegroundStopped DEF CliStep
<1>5. ASSUME NEW c \in Builds, LogsStep(c) \/ Expire(c) \/ Interrupt(c) \/ Crash(c)
      PROVE  Stopped(b)'
  <2>1. Forward /\ (b # c => Untouched(b))
    BY <1>5, OthersInv
  <2>2. UNCHANGED <<runID, defers, warned>>
    BY <1>5 DEF LogsStep, LogsFind, LogsSave, LogsDelete, Expire, Interrupt, Crash, cliVars
  <2>3. pc' = pc \/ pc' = [pc EXCEPT ![c] = "crashed"]
    BY <1>5 DEF LogsStep, LogsFind, LogsSave, LogsDelete, Expire, Interrupt, Crash, Goto, cliVars
  <2>4. pc'[b] = pc[b] \/ pc'[b] # "purge"
    BY <1>0, <2>3 DEF TypeOK, CliTypeOK
  <2> QED
    BY <2>1, <2>2, <2>4, KeepsConfirmed DEF Deleting
<1>6. CASE Next
  BY <1>3, <1>4, <1>5, <1>6 DEF Next
<1> QED
  BY <1>2, <1>6

\* buildCentral deletes an artifact only once its run is over, or after warning
\* that it could not confirm that, for any number of builds and runs.
THEOREM DeleteAfterStopAlways == Spec => DeleteAfterStop
<1> DEFINE AllStopped == \A b \in Builds : Stopped(b)
           After == \A b \in Builds : pc'[b] # pc[b] \/ defers'[b] # defers[b] =>
              \A r \in RunIds : art'[r] # art[r] => run[r].status = "completed" \/ "confirm" \in warned[b]
<1>1. Init => AllStopped
  BY DEF Init, Stopped, Deleting
<1>2. IInv /\ AllStopped /\ [Next]_vars => AllStopped'
  <2> SUFFICES ASSUME IInv, AllStopped, [Next]_vars, NEW b \in Builds
               PROVE  Stopped(b)'
    OBVIOUS
  <2> QED
    BY NextStopped
<1>3. IInv /\ AllStopped /\ [Next]_vars => [After]_vars
  <2> SUFFICES ASSUME IInv, AllStopped, Next, NEW b \in Builds, pc'[b] # pc[b] \/ defers'[b] # defers[b],
                      NEW r \in RunIds, art'[r] # art[r]
               PROVE  run[r].status = "completed" \/ "confirm" \in warned[b]
    BY DEF After
  <2>1. TypeOK /\ Stopped(b)
    BY DEF IInv
  <2>2. CliStep(b) \/ CallFails(b)
    BY <2>1, ActorOf
  <2>3. r = runID[b]
    BY <2>1, <2>2, OnlyAdoptedRun
  <2>4. DeleteCentralArtifact(b) \/ DeleteCentralBuildArtifacts(b)
    BY <2>2 DEF CliStep, CleanupStep, DeleteSnapshotLease, StartCancel, LocateDispatchedRun, CancelWorkflowRun,
       ConfirmStopped, Exit, TimesOut, CallFails, GiveUp, Prepare, Push, TriggerWorkflow, PollForWorkflowStart,
       PollForWorkflowCompletion, PollForBaseArtifact, FindTrustedArtifact, FindResultArtifact,
       DownloadCentralArtifact, Deliver, hubVars
  <2>5. Deleting(b) \/ "confirm" \in warned[b]
    BY <2>4 DEF DeleteCentralArtifact, DeleteCentralBuildArtifacts, Latest, Deleting, ArtifactDefers
  <2> QED
    BY <2>1, <2>3, <2>5 DEF Stopped, Confirmed
<1> QED
  BY <1>1, <1>2, <1>3, BookkeepingAgrees, PTL DEF Spec, DeleteAfterStop
-----------------------------------------------------------------------------
(***************************************************************************)
(* What a delivery means.  A run concludes with success only after its     *)
(* signing job reached App Store Connect; a run that is over never changes *)
(* again, so what the completion poll read of it stays true.               *)
(***************************************************************************)
RunIsReal(r) ==
    /\ run[r].status # "completed" => run[r].conclusion = "none"
    /\ /\ run[r].title \in Builds /\ OpOf(r) = "testflight"
       /\ run[r].conclusion = "success" \/ (run[r].job = "sign" /\ run[r].step = "uploadResult")
       => r \in published

Answers == {"unavailable", "undelivered", "failed", "delivered"}
Retrieves(b) ==
    /\ pc[b] \in Retrieval \/ outcome[b] \in Answers =>
          /\ runID[b] \in RunIds
          /\ run[runID[b]].status = "completed"
          /\ concl[b] = run[runID[b]].conclusion
    /\ outcome[b] = "delivered" => concl[b] = "success"
    /\ /\ pc[b] \in {"download", "deliver"} \/ outcome[b] = "delivered"
       /\ Signed(op[b]) /\ concl[b] = "success"
       => chosen[b] = ResultName(op[b])

\* Of a run, a CLI changes nothing but the request to stop, and that only
\* while the run is live.
LEMMA CliRuns == ASSUME TypeOK, NEW c \in Builds, CliStep(c) \/ CallFails(c)
                 PROVE  /\ UNCHANGED <<op, published>>
                        /\ \A r \in RunIds : run'[r] = run[r] \/ (Live(r) /\ run'[r] = [run[r] EXCEPT !.stopping = TRUE])
<1> USE DEF TypeOK, HubTypeOK, CliTypeOK, hubVars
<1>1. CASE CancelWorkflowRun(c)
  BY <1>1 DEF CancelWorkflowRun
<1>2. CASE \/ DeleteCentralArtifact(c) \/ DeleteSnapshotLease(c) \/ StartCancel(c) \/ LocateDispatchedRun(c)
           \/ ConfirmStopped(c) \/ DeleteCentralBuildArtifacts(c) \/ Exit(c) \/ TimesOut(c) \/ CallFails(c)
  BY <1>2 DEF DeleteCentralArtifact, DeleteSnapshotLease, StartCancel, LocateDispatchedRun, ConfirmStopped,
     DeleteCentralBuildArtifacts, Exit, TimesOut, CallFails, GiveUp
<1>3. CASE \/ Prepare(c) \/ Push(c) \/ TriggerWorkflow(c) \/ PollForWorkflowStart(c) \/ PollForWorkflowCompletion(c)
           \/ PollForBaseArtifact(c) \/ FindTrustedArtifact(c) \/ FindResultArtifact(c)
           \/ DownloadCentralArtifact(c) \/ Deliver(c)
  BY <1>3 DEF Prepare, Push, TriggerWorkflow, PollForWorkflowStart, PollForWorkflowCompletion,
     PollForBaseArtifact, FindTrustedArtifact, FindResultArtifact, DownloadCentralArtifact, Deliver
<1> QED
  BY <1>1, <1>2, <1>3 DEF CliStep, CleanupStep

\* Interrupts, deadlines, crashes and the log reader leave the runs alone.
LEMMA OtherRuns == ASSUME NEW c, LogsStep(c) \/ Expire(c) \/ Interrupt(c) \/ Crash(c)
                   PROVE  UNCHANGED <<op, refs, accepted, run, published>>
BY DEF LogsStep, LogsFind, LogsSave, LogsDelete, Expire, Interrupt, Crash, hubVars

\* The operation of a build is a dispatch input: it never changes.
LEMMA OpFixed == ASSUME TypeOK, [Next]_vars PROVE op' = op
<1>1. ASSUME HubNext PROVE op' = op
  BY <1>1 DEF HubNext, CreateRun, RunStep, Begin, FetchInput, Work, UploadResult, UploadDiagnostic, UploadFails,
     Stop, Index
<1> QED
  BY <1>1, CliRuns, OtherRuns DEF Next, vars, hubVars

\* A run that is over stays as it is.
LEMMA CompletedFrozen == ASSUME TypeOK, [Next]_vars, NEW r \in RunIds, run[r].status = "completed"
                         PROVE  run'[r] = run[r]
<1> USE DEF TypeOK, HubTypeOK
<1>1. ASSUME NEW b \in Builds, CreateRun(b) PROVE run'[r] = run[r]
  BY <1>1 DEF CreateRun
<1>2. ASSUME NEW s \in RunIds, RunStep(s) PROVE run'[r] = run[r]
  <2>1. CASE Begin(s) \/ FetchInput(s) \/ Work(s)
    BY <2>1 DEF Begin, FetchInput, Work, Concluded
  <2>2. CASE UploadResult(s) \/ UploadDiagnostic(s) \/ UploadFails(s)
    BY <2>2 DEF UploadResult, UploadDiagnostic, UploadFails, Concluded
  <2>3. CASE Stop(s) \/ \E n \in ArtifactNames : Index(s, n)
    BY <2>3 DEF Stop, Live, Index, Concluded
  <2> QED
    BY <1>2, <2>1, <2>2, <2>3 DEF RunStep
<1>3. ASSUME NEW c \in Builds, CliStep(c) \/ CallFails(c) PROVE run'[r] = run[r]
  BY <1>3, CliRuns DEF Live
<1> QED
  BY <1>1, <1>2, <1>3, OtherRuns DEF Next, HubNext, vars, hubVars

\* A run succeeds only after its signing job has published.
LEMMA NextRunIsReal == ASSUME TypeOK, [Next]_vars, NEW r \in RunIds, RunIsReal(r)
                       PROVE  RunIsReal(r)'
<1>0. run \in [RunIds -> Run] /\ run[r] \in Run /\ op' = op
  BY OpFixed, RunTyped DEF TypeOK, HubTypeOK
<1>1. ASSUME run'[r] = run[r], published \subseteq published' PROVE RunIsReal(r)'
  BY <1>0, <1>1 DEF RunIsReal, OpOf
<1>2. ASSUME NEW b \in Builds, CreateRun(b) PROVE RunIsReal(r)'
  <2>1. PICK s \in RunIds : run' = [run EXCEPT ![s] = [AbsentRun EXCEPT !.title = b, !.status = "queued"]]
    BY <1>2 DEF CreateRun
  <2>2. CASE s = r
    BY <1>0, <2>1, <2>2 DEF RunIsReal, AbsentRun
  <2>3. CASE s # r
    BY <1>0, <1>1, <1>2, <2>1, <2>3 DEF CreateRun
  <2> QED
    BY <2>2, <2>3
<1>3. ASSUME NEW s \in RunIds, RunStep(s), s # r PROVE RunIsReal(r)'
  <2>1. run'[r] = run[r] /\ published \subseteq published'
    BY <1>0, <1>3 DEF RunStep, Begin, FetchInput, Work, UploadResult, UploadDiagnostic, UploadFails, Stop, Index,
       Concluded
  <2> QED
    BY <1>1, <2>1
<1>4. ASSUME RunStep(r) PROVE RunIsReal(r)'
  <2> USE DEF RunIsReal, OpOf, Concluded
  <2>1. CASE Begin(r)
    BY <1>0, <2>1 DEF Begin, Run
  <2>2. CASE FetchInput(r)
    BY <1>0, <2>2 DEF FetchInput, Run
  <2>3. CASE Work(r)
    BY <1>0, <2>3 DEF Work, Run
  <2>4. CASE UploadResult(r)
    BY <1>0, <2>4 DEF UploadResult, Run, Signed
  <2>5. CASE UploadDiagnostic(r) \/ UploadFails(r) \/ Stop(r)
    BY <1>0, <2>5 DEF UploadDiagnostic, UploadFails, Stop, Live, Run
  <2>6. CASE \E n \in ArtifactNames : Index(r, n)
    BY <1>0, <2>6 DEF Index
  <2> QED
    BY <1>4, <2>1, <2>2, <2>3, <2>4, <2>5, <2>6 DEF RunStep
<1>5. ASSUME NEW c \in Builds, CliStep(c) \/ CallFails(c) PROVE RunIsReal(r)'
  <2>1. published' = published /\ (run'[r] = run[r] \/ (Live(r) /\ run'[r] = [run[r] EXCEPT !.stopping = TRUE]))
    BY <1>5, CliRuns
  <2> QED
    BY <1>0, <2>1 DEF RunIsReal, OpOf, Run
<1> QED
  BY <1>1, <1>2, <1>3, <1>4, <1>5, OtherRuns DEF Next, HubNext, vars, hubVars

\* The rest of the other builds' records.
LEMMA CliFrame == ASSUME TypeOK, NEW c \in Builds, CliStep(c) \/ CallFails(c), NEW b \in Builds \ {c}
                  PROVE  /\ Untouched(b)
                         /\ concl'[b] = concl[b] /\ chosen'[b] = chosen[b] /\ ctxDone'[b] = ctxDone[b]
<1>1. Untouched(b)
  BY CleanupFrame, GiveUpFrame, ForegroundFrame DEF CliStep
<1> USE DEF TypeOK, CliTypeOK, hubVars
<1>2. CASE CleanupStep(c) \/ TimesOut(c) \/ CallFails(c)
  BY <1>1, <1>2 DEF CleanupStep, DeleteCentralArtifact, DeleteSnapshotLease, StartCancel, LocateDispatchedRun,
     CancelWorkflowRun, ConfirmStopped, DeleteCentralBuildArtifacts, Exit, TimesOut, CallFails, GiveUp
<1>3. CASE \/ Prepare(c) \/ Push(c) \/ TriggerWorkflow(c) \/ PollForWorkflowStart(c) \/ PollForWorkflowCompletion(c)
           \/ PollForBaseArtifact(c) \/ FindTrustedArtifact(c) \/ FindResultArtifact(c)
           \/ DownloadCentralArtifact(c) \/ Deliver(c)
  BY <1>1, <1>3 DEF Prepare, Push, TriggerWorkflow, PollForWorkflowStart, PollForWorkflowCompletion,
     PollForBaseArtifact, FindTrustedArtifact, FindResultArtifact, DownloadCentralArtifact, Deliver
<1> QED
  BY <1>2, <1>3 DEF CliStep

\* What the environment and the log reader may do to a build.
LEMMA OthersFrame ==
    ASSUME TypeOK, NEW c \in Builds, LogsStep(c) \/ Expire(c) \/ Interrupt(c) \/ Crash(c), NEW b \in Builds
    PROVE  /\ UNCHANGED <<runID, defers, warned, outcome, concl, chosen, refs, accepted, run>>
           /\ pc'[b] = pc[b] \/ pc'[b] = "crashed"
           /\ ctxDone[b] => ctxDone'[b]
           /\ pc[b] \notin Foreground => ctxDone'[b] = ctxDone[b]
BY DEF LogsStep, LogsFind, LogsSave, LogsDelete, Expire, Interrupt, Crash, Goto, hubVars, cliVars, TypeOK, CliTypeOK

\* What the completion poll read stays true of a run that is over.
LEMMA RetrievesKept ==
    ASSUME TypeOK, [Next]_vars, NEW b \in Builds, Retrieves(b),
           runID'[b] = runID[b], concl'[b] = concl[b], chosen'[b] = chosen[b], outcome'[b] = outcome[b],
           pc'[b] = pc[b] \/ pc'[b] \notin Retrieval
    PROVE  Retrieves(b)'
<1>1. op' = op
  BY OpFixed
<1>2. ASSUME runID[b] \in RunIds, run[runID[b]].status = "completed" PROVE run'[runID[b]] = run[runID[b]]
  BY <1>2, CompletedFrozen
<1> QED
  BY <1>1, <1>2 DEF Retrieves, Retrieval

\* Every call of buildCentral that succeeds keeps it.
LEMMA ForegroundRetrieves ==
    ASSUME IInv, NEW c \in Builds, Retrieves(c), Next,
           \/ Prepare(c) \/ Push(c) \/ TriggerWorkflow(c) \/ PollForWorkflowStart(c) \/ PollForWorkflowCompletion(c)
           \/ PollForBaseArtifact(c) \/ FindTrustedArtifact(c) \/ FindResultArtifact(c)
           \/ DownloadCentralArtifact(c) \/ Deliver(c)
    PROVE  Retrieves(c)'
<1>0. TypeOK /\ Adopted /\ Phased(c) /\ pc[c] \in Foreground /\ outcome[c] = "none"
  BY DEF IInv, BuildInv, Phased, Foreground, ForegroundPolls, Prepare, Push, TriggerWorkflow, PollForWorkflowStart,
     PollForWorkflowCompletion, PollForBaseArtifact, FindTrustedArtifact, FindResultArtifact, DownloadCentralArtifact,
     Deliver
<1> USE DEF TypeOK, CliTypeOK, hubVars
<1>1. CASE Prepare(c) \/ Push(c) \/ TriggerWorkflow(c) \/ PollForWorkflowStart(c)
  <2>1. pc'[c] \notin Retrieval /\ outcome'[c] \in {"none", "unprepared"}
    BY <1>0, <1>1 DEF Prepare, Push, TriggerWorkflow, PollForWorkflowStart, Goto, Return, Retrieval
  <2> QED
    BY <2>1 DEF Retrieves, Answers, Retrieval
<1>2. CASE PollForWorkflowCompletion(c)
  <2>1. /\ runID[c] \in RunIds /\ runID' = runID /\ run' = run
        /\ concl'[c] = run[runID[c]].conclusion /\ run[runID[c]].status = "completed"
        /\ pc'[c] = "findBase" /\ outcome'[c] = "none"
    BY <1>0, <1>2 DEF PollForWorkflowCompletion, Goto, Adopted, AdoptedPhases
  <2> QED
    BY <2>1 DEF Retrieves, Answers
<1>3. CASE PollForBaseArtifact(c)
  <2>1. /\ UNCHANGED <<op, run, runID, concl, chosen, outcome>> /\ pc[c] = "findBase"
        /\ pc'[c] = IF Signed(op[c]) THEN "findTrusted" ELSE "download"
    BY <1>0, <1>3 DEF PollForBaseArtifact, Goto
  <2> QED
    BY <1>0, <2>1 DEF Retrieves, Answers, Retrieval
<1>4. CASE FindTrustedArtifact(c)
  <2>1. /\ UNCHANGED <<op, run, runID, concl, chosen, outcome>> /\ pc[c] = "findTrusted" /\ pc'[c] = "findResult"
    BY <1>0, <1>4 DEF FindTrustedArtifact, Goto
  <2> QED
    BY <1>0, <2>1 DEF Retrieves, Answers, Retrieval
<1>5. CASE FindResultArtifact(c)
  <2>1. /\ UNCHANGED <<op, run, runID, concl, outcome>> /\ pc[c] = "findResult" /\ pc'[c] = "download"
        /\ chosen'[c] = ResultName(op[c]) \/ concl[c] # "success"
    BY <1>0, <1>5 DEF FindResultArtifact, Goto
  <2> QED
    BY <1>0, <2>1 DEF Retrieves, Answers, Retrieval
<1>6. CASE DownloadCentralArtifact(c)
  <2>1. /\ UNCHANGED <<op, run, runID, concl, chosen>> /\ pc[c] = "download"
        /\ (pc'[c] = "deliver" /\ outcome'[c] = "none") \/ (pc'[c] = "unwind" /\ outcome'[c] = "undelivered")
    BY <1>0, <1>6 DEF DownloadCentralArtifact, Goto, Return
  <2> QED
    BY <1>0, <2>1 DEF Retrieves, Answers, Retrieval
<1>7. CASE Deliver(c)
  <2>1. /\ UNCHANGED <<op, run, runID, concl, chosen>> /\ pc[c] = "deliver" /\ pc'[c] = "unwind"
        /\ outcome'[c] = IF concl[c] = "success" THEN "delivered" ELSE "failed"
    BY <1>0, <1>7 DEF Deliver, Goto, Return
  <2> QED
    BY <1>0, <2>1 DEF Retrieves, Answers, Retrieval
<1> QED
  BY <1>1, <1>2, <1>3, <1>4, <1>5, <1>6, <1>7

\* So does every call that fails.
LEMMA GiveUpRetrieves ==
    ASSUME IInv, NEW c \in Builds, Retrieves(c), TimesOut(c) \/ CallFails(c)
    PROVE  Retrieves(c)'
<1>0. TypeOK /\ outcome[c] = "none" /\ pc[c] \in Foreground
  BY DEF IInv, BuildInv, Phased, TimesOut, CallFails, ForegroundPolls, Foreground
<1>1. GiveUp(c) /\ pc[c] \in {"push", "trigger", "waitStart", "waitDone", "findBase", "findTrusted",
                             "findResult", "download", "deliver"}
  BY DEF TimesOut, CallFails, Foreground, ForegroundPolls
<1>2. UNCHANGED <<op, run, runID, concl, chosen>>
  BY <1>1 DEF GiveUp
<1>3. \/ pc'[c] = "unwind" /\ outcome'[c] \in {"unprepared", "untriggered", "notStarted", "notCompleted"}
      \/ pc'[c] = "unwind" /\ pc[c] \in Retrieval /\ outcome'[c] \in {"unavailable", "undelivered"}
      \/ pc'[c] = "findResult" /\ pc[c] \in Retrieval /\ outcome'[c] = "none"
      \/ pc'[c] = "download" /\ pc[c] = "findResult" /\ outcome'[c] = "none" /\ concl[c] # "success"
  BY <1>0, <1>1 DEF GiveUp, Goto, Return, Retrieval, TypeOK, CliTypeOK
<1> QED
  BY <1>0, <1>2, <1>3 DEF Retrieves, Answers, Retrieval

\* So do the defers: the run they adopt by build ID is the one already known.
LEMMA CleanupRetrieves ==
    ASSUME IInv, NEW c \in Builds, Retrieves(c), Next, CleanupStep(c)
    PROVE  Retrieves(c)'
<1>0. TypeOK /\ Identified(c)
  BY DEF IInv, BuildInv
<1> USE DEF TypeOK, CliTypeOK, hubVars
<1>1. UNCHANGED <<concl, chosen, outcome>> /\ pc'[c] \notin Retrieval
  BY <1>0 DEF CleanupStep, DeleteCentralArtifact, DeleteSnapshotLease, StartCancel, LocateDispatchedRun,
     CancelWorkflowRun, ConfirmStopped, DeleteCentralBuildArtifacts, Exit, Goto, Retrieval
<1>2. CASE ~LocateDispatchedRun(c)
  <2>1. UNCHANGED runID
    BY <1>2 DEF CleanupStep, DeleteCentralArtifact, DeleteSnapshotLease, StartCancel, CancelWorkflowRun,
       ConfirmStopped, DeleteCentralBuildArtifacts, Exit
  <2> QED
    BY <1>0, <1>1, <2>1, RetrievesKept
<1>3. CASE LocateDispatchedRun(c)
  <2>1. run' = run /\ op' = op
    BY <1>3 DEF LocateDispatchedRun
  <2>2. runID[c] \in RunIds => runID'[c] = runID[c]
    <3>1. CASE UNCHANGED runID
      BY <3>1
    <3>2. ASSUME NEW r \in RunIds, RunOfBuildID(c, r), runID' = [runID EXCEPT ![c] = r], runID[c] \in RunIds
          PROVE  runID'[c] = runID[c]
      BY <1>0, <3>2 DEF Identified, RunsOf, RunOfBuildID
    <3> QED
      BY <1>3, <3>1, <3>2 DEF LocateDispatchedRun
  <2> QED
    BY <1>0, <1>1, <2>1, <2>2 DEF Retrieves, Retrieval
<1> QED
  BY <1>2, <1>3

\* So does every step.
LEMMA NextRetrieves == ASSUME IInv, [Next]_vars, NEW b \in Builds, Retrieves(b)
                       PROVE  Retrieves(b)'
<1>0. TypeOK
  BY DEF IInv
<1>1. CASE UNCHANGED vars \/ (HubNext /\ UNCHANGED <<cliVars, logs>>)
  BY <1>0, <1>1, RetrievesKept DEF vars, cliVars
<1>2. ASSUME NEW c \in Builds, CliStep(c) \/ CallFails(c), Next PROVE Retrieves(b)'
  <2>1. CASE b # c
    BY <1>0, <1>2, <2>1, CliFrame, RetrievesKept DEF Untouched
  <2>2. CASE b = c
    BY <1>2, <2>2, ForegroundRetrieves, GiveUpRetrieves, CleanupRetrieves DEF CliStep
  <2> QED
    BY <2>1, <2>2
<1>3. ASSUME NEW c \in Builds, LogsStep(c) \/ Expire(c) \/ Interrupt(c) \/ Crash(c) PROVE Retrieves(b)'
  BY <1>0, <1>3, OthersFrame, RetrievesKept DEF Retrieval
<1> QED
  BY <1>1, <1>2, <1>3 DEF Next

DeliveryInv == (\A r \in RunIds : RunIsReal(r)) /\ (\A b \in Builds : Retrieves(b))

\* What was read of a run, and what a run has published, hold together.
LEMMA DeliveryInvariant == Spec => []DeliveryInv
<1>1. Init => DeliveryInv
  <2> SUFFICES ASSUME Init PROVE DeliveryInv
    OBVIOUS
  <2>1. ASSUME NEW r \in RunIds PROVE RunIsReal(r)
    BY DEF Init, HubInit, RunIsReal, AbsentRun
  <2>2. ASSUME NEW b \in Builds PROVE Retrieves(b)
    BY DEF Init, Retrieves, Retrieval, Answers
  <2> QED
    BY <2>1, <2>2 DEF DeliveryInv
<1>2. IInv /\ DeliveryInv /\ [Next]_vars => DeliveryInv'
  <2> SUFFICES ASSUME IInv, DeliveryInv, [Next]_vars PROVE DeliveryInv'
    OBVIOUS
  <2>1. TypeOK
    BY DEF IInv
  <2> QED
    BY <2>1, NextRunIsReal, NextRetrieves DEF DeliveryInv
<1> QED
  BY <1>1, <1>2, BookkeepingAgrees, PTL DEF Spec

\* What the caller is given is what its own run produced: however calls fail and
\* builds interleave, "delivered" means a run of this build that succeeded, an app
\* that reached App Store Connect, and the signing job's own artifact.
THEOREM DeliveryIsRealAlways == Spec => []DeliveryIsReal
<1>1. IInv /\ DeliveryInv => DeliveryIsReal
  <2> SUFFICES ASSUME IInv, DeliveryInv, NEW b \in Builds, outcome[b] = "delivered"
               PROVE  /\ run[runID[b]].title = b
                      /\ run[runID[b]].conclusion = "success"
                      /\ op[b] = "testflight" => runID[b] \in published
                      /\ Signed(op[b]) => chosen[b] = ResultName(op[b])
    BY DEF DeliveryIsReal
  <2>1. Retrieves(b) /\ Identified(b)
    BY DEF DeliveryInv, IInv, BuildInv
  <2>2. runID[b] \in RunIds /\ concl[b] = "success" /\ run[runID[b]].conclusion = "success"
    BY <2>1 DEF Retrieves, Answers
  <2>3. runID[b] \in RunsOf(b) /\ run[runID[b]].title = b
    BY <2>1, <2>2 DEF Identified, RunsOf
  <2>4. RunIsReal(runID[b])
    BY <2>2 DEF DeliveryInv
  <2> QED
    BY <2>1, <2>2, <2>3, <2>4 DEF RunIsReal, Retrieves, OpOf
<1> QED
  BY <1>1, BookkeepingAgrees, DeliveryInvariant, PTL

-----------------------------------------------------------------------------
(***************************************************************************)
(* What a build leaves behind, and which log it saves.  Both promises need *)
(* a quiet world: calls that succeed, artifacts that are listed at once,   *)
(* nobody reading the logs beside the build, and no ad hoc signing, whose  *)
(* artifact the cleanup does not know (central_adhoc_cleanup).  Deadlines  *)
(* and interrupts are not excluded.                                        *)
(***************************************************************************)
Quiet == ~IndexLag /\ ~Unreliable /\ LogReaders = {} /\ "adhoc" \notin Ops

Unread == \A b \in Builds : op[b] # "adhoc" /\ logs[b].at = "idle"

\* An artifact exists only once a job has got far enough to upload it.
Tidy(r) ==
    /\ run[r].status # "absent" => run[r].title \in Builds
    /\ \A n \in ArtifactNames : art[r][n] # "lagging"
    /\ art[r]["adhoc"] = "none"
    /\ run[r].job = "build" => art[r]["trusted"] = "none" /\ art[r]["deploy"] = "none"
    /\ run[r].title \in Builds /\ ~Signed(OpOf(r)) => run[r].job = "build"
    /\ run[r].status = "absent" => \A n \in ArtifactNames : art[r][n] = "none"

\* The log of a failed run is the one its failing job uploaded, and nothing is
\* deleted before it has been chosen.
LogName(b) == DiagnosticOf(op[b], run[runID[b]].job)
Logged(b) ==
    /\ pc[b] \in Foreground => \A r \in RunsOf(b), n \in ArtifactNames : art[r][n] # "deleted"
    /\ pc[b] \in Foreground \ {"download", "deliver"} => chosen[b] = "base"
    /\ outcome[b] = "failed" => concl[b] # "success"
    /\ /\ (pc[b] = "download" /\ ~ctxDone[b]) \/ pc[b] = "deliver" \/ outcome[b] = "failed"
       /\ concl[b] # "success" /\ art[runID[b]][LogName(b)] # "none"
       => chosen[b] = LogName(b)

\* What is still there has a defer that will take it away.
Leased(b) == refs[b] = "pushed" => "lease" \in defers[b] \/ outcome[b] = "unprepared"
Emptied(b) ==
    outcome[b] \in {"notStarted", "notCompleted"} /\ warned[b] = {} /\ "cancel" \notin defers[b] =>
        \A r \in RunsOf(b), n \in ArtifactNames : ~Present(r, n)
Covered(b) ==
    /\ \/ pc[b] \in {"findTrusted", "findResult", "download", "deliver"}
       \/ outcome[b] \in {"undelivered", "failed", "delivered"}
    /\ ~ctxDone[b]
    => /\ Present(runID[b], "base") => "base" \in defers[b]
       /\ Present(runID[b], "trusted") => pc[b] = "findTrusted" \/ "trusted" \in defers[b]
       /\ Present(runID[b], "deploy") =>
             pc[b] \in {"findTrusted", "findResult"} \/ ("result" \in defers[b] /\ chosen[b] = "deploy")

QuietBuild(b) == Logged(b) /\ Leased(b) /\ Emptied(b) /\ Covered(b)
QuietInv == Unread /\ (\A r \in RunIds : Tidy(r)) /\ (\A b \in Builds : QuietBuild(b))

\* Nobody starts to read logs in a quiet world.
LEMMA NextUnread == ASSUME Quiet, TypeOK, Unread, [Next]_vars PROVE Unread'
<1>1. op' = op
  BY OpFixed
<1>2. ASSUME NEW b \in Builds, LogsStep(b) PROVE FALSE
  BY <1>2 DEF Quiet, Unread, LogsStep, LogsFind, LogsSave, LogsDelete
<1>3. ASSUME NEW c \in Builds, CliStep(c) \/ CallFails(c) \/ Expire(c) \/ Interrupt(c) \/ Crash(c)
      PROVE  logs' = logs
  BY <1>3 DEF CliStep, CleanupStep, DeleteCentralArtifact, DeleteSnapshotLease, StartCancel, LocateDispatchedRun,
     CancelWorkflowRun, ConfirmStopped, DeleteCentralBuildArtifacts, Exit, TimesOut, CallFails, GiveUp, Prepare, Push,
     TriggerWorkflow, PollForWorkflowStart, PollForWorkflowCompletion, PollForBaseArtifact, FindTrustedArtifact,
     FindResultArtifact, DownloadCentralArtifact, Deliver, Expire, Interrupt, Crash
<1> QED
  BY <1>1, <1>2, <1>3 DEF Unread, Next, vars

\* A CLI turns listed artifacts into deleted ones, of its own run only.
LEMMA CliArtifacts ==
    ASSUME TypeOK, NEW c \in Builds, CliStep(c) \/ CallFails(c), NEW r \in RunIds, NEW n \in ArtifactNames
    PROVE  art'[r][n] = art[r][n] \/ (art[r][n] = "visible" /\ art'[r][n] = "deleted" /\ pc[c] \notin Foreground)
<1> USE DEF TypeOK, HubTypeOK
<1>1. ASSUME NEW names PROVE Deleted(runID[c], names)[r][n] = art[r][n]
                             \/ (art[r][n] = "visible" /\ Deleted(runID[c], names)[r][n] = "deleted")
  BY DEF Deleted, Listed
<1>2. CASE DeleteCentralArtifact(c)
  <2>1. PICK d \in {"base", "trusted", "result"} : art' \in {art, Deleted(runID[c], {DeferredName(c, d)})}
    BY <1>2 DEF DeleteCentralArtifact
  <2> QED
    BY <1>1, <1>2, <2>1 DEF DeleteCentralArtifact, Foreground, ForegroundPolls
<1>3. CASE DeleteCentralBuildArtifacts(c)
  <2>1. PICK names \in SUBSET PurgedNames : art' = Deleted(runID[c], names)
    BY <1>3 DEF DeleteCentralBuildArtifacts
  <2> QED
    BY <1>1, <1>3, <2>1 DEF DeleteCentralBuildArtifacts, Foreground, ForegroundPolls
<1>4. CASE ~DeleteCentralArtifact(c) /\ ~DeleteCentralBuildArtifacts(c)
  <2>1. art' = art
    BY <1>4 DEF CliStep, CleanupStep, DeleteSnapshotLease, StartCancel, LocateDispatchedRun,
     CancelWorkflowRun, ConfirmStopped, Exit, TimesOut, CallFails, GiveUp, Prepare, Push,
     TriggerWorkflow, PollForWorkflowStart, PollForWorkflowCompletion, PollForBaseArtifact, FindTrustedArtifact,
     FindResultArtifact, DownloadCentralArtifact, Deliver, hubVars
  <2> QED
    BY <2>1
<1> QED
  BY <1>2, <1>3, <1>4

\* Jobs upload under their own names, in order; the CLI only deletes.
LEMMA NextTidy == ASSUME Quiet, TypeOK, Unread, [Next]_vars, NEW r \in RunIds, Tidy(r)
                  PROVE  Tidy(r)'
<1>0. /\ run \in [RunIds -> Run] /\ run[r] \in Run /\ op' = op
      /\ art \in [RunIds -> [ArtifactNames -> ArtifactState]]
      /\ ArtifactNames = {"base", "trusted", "deploy", "adhoc"}
      /\ run[r].title \in Builds => op[run[r].title] # "adhoc"
  BY OpFixed, RunTyped DEF TypeOK, HubTypeOK, ArtifactNames, Unread
<1>1. ASSUME run'[r] = run[r], art'[r] = art[r] PROVE Tidy(r)'
  BY <1>0, <1>1 DEF Tidy, OpOf
<1>2. ASSUME NEW b \in Builds, CreateRun(b) PROVE Tidy(r)'
  <2>1. PICK s \in RunIds : /\ run[s].status = "absent"
                            /\ run' = [run EXCEPT ![s] = [AbsentRun EXCEPT !.title = b, !.status = "queued"]]
    BY <1>2 DEF CreateRun
  <2>2. art' = art
    BY <1>2 DEF CreateRun
  <2>3. CASE s = r
    BY <1>0, <2>1, <2>2, <2>3 DEF Tidy, AbsentRun
  <2>4. CASE s # r
    BY <1>0, <1>1, <2>1, <2>2, <2>4
  <2> QED
    BY <2>3, <2>4
<1>3. ASSUME NEW s \in RunIds, RunStep(s), s # r PROVE Tidy(r)'
  <2>1. run'[r] = run[r] /\ art'[r] = art[r]
    BY <1>0, <1>3 DEF RunStep, Begin, FetchInput, Work, UploadResult, UploadDiagnostic, UploadFails, Stop, Index,
       Concluded, Uploaded
  <2> QED
    BY <1>1, <2>1
<1>4. ASSUME RunStep(r) PROVE Tidy(r)'
  <2> USE DEF Tidy, OpOf, Concluded
  <2>1. CASE Begin(r) \/ FetchInput(r) \/ Work(r) \/ UploadFails(r)
    BY <1>0, <2>1 DEF Begin, FetchInput, Work, UploadFails, Run
  <2>2. CASE UploadResult(r)
    <3>2. /\ ~IndexLag /\ run[r].status = "in_progress"
          /\ art' = [art EXCEPT ![r][ResultOf(OpOf(r), run[r].job)] = "visible"]
          /\ run' = IF Signed(OpOf(r)) /\ run[r].job # "sign"
                    THEN [run EXCEPT ![r].step = "input", ![r].job = IF @ = "build" THEN "package" ELSE "sign"]
                    ELSE [run EXCEPT ![r].status = "completed", ![r].conclusion = "success"]
      BY <2>2 DEF UploadResult, Uploaded, Quiet
    <3> QED
      BY <1>0, <3>2 DEF ResultOf, ResultName, Run, Jobs, Signed
  <2>3. CASE UploadDiagnostic(r)
    BY <1>0, <2>3 DEF UploadDiagnostic, DiagnosticOf, ResultName, Uploaded, Quiet, Run, Jobs
  <2>4. CASE Stop(r)
    BY <1>0, <2>4 DEF Stop, Live, DiagnosticOf, ResultName, Uploaded, Quiet, Run, Jobs
  <2>5. CASE \E n \in ArtifactNames : Index(r, n)
    BY <1>0, <2>5 DEF Index
  <2> QED
    BY <1>4, <2>1, <2>2, <2>3, <2>4, <2>5 DEF RunStep
<1>5. ASSUME NEW c \in Builds, CliStep(c) \/ CallFails(c) PROVE Tidy(r)'
  <2>1. run'[r] = run[r] \/ (Live(r) /\ run'[r] = [run[r] EXCEPT !.stopping = TRUE])
    BY <1>5, CliRuns
  <2>2. \A n \in ArtifactNames : art'[r][n] = art[r][n] \/ (art[r][n] = "visible" /\ art'[r][n] = "deleted")
    BY <1>5, CliArtifacts
  <2> QED
    BY <1>0, <2>1, <2>2 DEF Tidy, OpOf, Run
<1>6. ASSUME NEW c \in Builds, LogsStep(c) PROVE FALSE
  BY <1>6 DEF Quiet, Unread, LogsStep, LogsFind, LogsSave, LogsDelete
<1>7. ASSUME NEW c \in Builds, Expire(c) \/ Interrupt(c) \/ Crash(c) PROVE Tidy(r)'
  BY <1>1, <1>7 DEF Expire, Interrupt, Crash, hubVars
<1> QED
  BY <1>1, <1>2, <1>3, <1>4, <1>5, <1>6, <1>7 DEF Next, HubNext, vars, hubVars

\* A step that leaves a build's records and its finished run alone.
LEMMA QuietKept ==
    ASSUME IInv, [Next]_vars, NEW b \in Builds, QuietBuild(b), Retrieves(b),
           runID'[b] = runID[b], concl'[b] = concl[b], chosen'[b] = chosen[b], outcome'[b] = outcome[b],
           defers'[b] = defers[b], warned'[b] = warned[b], refs'[b] = refs[b],
           ctxDone[b] => ctxDone'[b], pc[b] \notin Foreground => ctxDone'[b] = ctxDone[b],
           pc'[b] = pc[b] \/ pc'[b] = "crashed",
           \A r \in RunsOf(b) : run[r].status = "completed" => art'[r] = art[r],
           \A r \in RunsOf(b)', n \in ArtifactNames : art'[r][n] = "deleted" => r \in RunsOf(b) /\ art[r][n] = "deleted",
           Over(b) => RunsOf(b)' = RunsOf(b)
    PROVE  QuietBuild(b)'
<1>0. TypeOK /\ Identified(b) /\ Phased(b) /\ Settled(b) /\ op' = op
  BY OpFixed DEF IInv, BuildInv
<1>1. pc[b] \in Retrieval \/ outcome[b] \in Answers =>
          run'[runID[b]] = run[runID[b]] /\ art'[runID[b]] = art[runID[b]]
  BY <1>0, CompletedFrozen DEF Retrieves, Identified
<1>2. "crashed" \notin Foreground
  BY DEF Foreground, ForegroundPolls
<1>3. Logged(b)'
  <2>1. pc'[b] \in Foreground => \A r \in RunsOf(b)', n \in ArtifactNames : art'[r][n] # "deleted"
    BY <1>2 DEF QuietBuild, Logged
  <2>2. pc'[b] \in Foreground \ {"download", "deliver"} => chosen'[b] = "base"
    BY <1>2 DEF QuietBuild, Logged
  <2>3. ASSUME (pc'[b] = "download" /\ ~ctxDone'[b]) \/ pc'[b] = "deliver" \/ outcome'[b] = "failed"
        PROVE  /\ (pc[b] = "download" /\ ~ctxDone[b]) \/ pc[b] = "deliver" \/ outcome[b] = "failed"
               /\ LogName(b)' = LogName(b) /\ art'[runID'[b]] = art[runID[b]]
    BY <1>0, <1>1, <2>3 DEF LogName, Retrieval, Answers
  <2> QED
    BY <2>1, <2>2, <2>3 DEF QuietBuild, Logged
<1>4. Leased(b)'
  BY DEF QuietBuild, Leased
<1>5. Emptied(b)'
  <2> SUFFICES ASSUME outcome[b] \in {"notStarted", "notCompleted"}, warned[b] = {}, "cancel" \notin defers[b],
                      NEW r \in RunsOf(b)', NEW n \in ArtifactNames
               PROVE  ~Present(r, n)'
    BY DEF Emptied
  <2>1. Over(b)
    BY <1>0 DEF Settled, Dispatched
  <2>2. r \in RunsOf(b) /\ art'[r] = art[r]
    BY <2>1 DEF Over
  <2> QED
    BY <2>2 DEF QuietBuild, Emptied, Present
<1>6. Covered(b)'
  <2> SUFFICES ASSUME \/ pc'[b] \in {"findTrusted", "findResult", "download", "deliver"}
                      \/ outcome'[b] \in {"undelivered", "failed", "delivered"},
                      ~ctxDone'[b]
               PROVE  /\ Present(runID[b], "base")' => "base" \in defers[b]
                      /\ Present(runID[b], "trusted")' => pc'[b] = "findTrusted" \/ "trusted" \in defers[b]
                      /\ Present(runID[b], "deploy")' =>
                            pc'[b] \in {"findTrusted", "findResult"} \/ ("result" \in defers[b] /\ chosen[b] = "deploy")
    BY DEF Covered, Present
  <2>1. /\ pc[b] \in {"findTrusted", "findResult", "download", "deliver"} \/ outcome[b] \in {"undelivered", "failed", "delivered"}
        /\ ~ctxDone[b]
    BY DEF Answers
  <2>2. art'[runID'[b]] = art[runID[b]]
    BY <1>1, <2>1 DEF Retrieval, Answers
  <2>3. outcome[b] # "none" => pc[b] \notin {"findTrusted", "findResult"}
    BY <1>0 DEF Phased, Foreground, ForegroundPolls
  <2>4. pc'[b] # pc[b] => outcome[b] # "none"
    BY DEF Answers
  <2> QED
    BY <2>1, <2>2, <2>3, <2>4 DEF QuietBuild, Covered, Present
<1> QED
  BY <1>3, <1>4, <1>5, <1>6 DEF QuietBuild

\* A step of GitHub: an upload reaches only runs whose cleanup has not begun.
LEMMA HubQuiet == ASSUME Quiet, IInv, Next, HubNext, UNCHANGED <<cliVars, logs>>, \A r \in RunIds : Tidy(r),
                         NEW b \in Builds, QuietBuild(b), Retrieves(b)
                  PROVE  QuietBuild(b)'
<1>0. TypeOK /\ Identified(b)
  BY DEF IInv, BuildInv
<1> USE DEF TypeOK, HubTypeOK
<1>1. /\ \A r \in RunsOf(b) : run[r].status = "completed" => art'[r] = art[r]
      /\ \A r \in RunsOf(b)', n \in ArtifactNames : art'[r][n] = "deleted" => r \in RunsOf(b) /\ art[r][n] = "deleted"
      /\ Over(b) => RunsOf(b)' = RunsOf(b)
      /\ refs' = refs
  <2>1. ASSUME NEW c \in Builds, CreateRun(c) PROVE <1>1!:
    <3>1. PICK s \in RunIds : /\ run[s].status = "absent"
                              /\ run' = [run EXCEPT ![s] = [AbsentRun EXCEPT !.title = c, !.status = "queued"]]
      BY <2>1 DEF CreateRun
    <3>2. art' = art /\ refs' = refs /\ c \in accepted /\ run'[s].title = c
          /\ \A r \in RunIds \ {s} : run'[r] = run[r]
      BY <1>0, <2>1, <3>1 DEF CreateRun, AbsentRun
    <3>3. \A n \in ArtifactNames : art[s][n] = "none"
      BY <3>1 DEF Tidy
    <3>4. s \notin RunsOf(b)
      BY <1>0, <3>1 DEF Identified
    <3> QED
      BY <1>0, <3>2, <3>3, <3>4 DEF RunsOf, Over
  <2>2. ASSUME NEW s \in RunIds, RunStep(s) PROVE <1>1!:
    <3>1. RunsOf(b)' = RunsOf(b)
      BY <1>0, <2>2, RunStepForward, ForwardRuns
    <3>2. refs' = refs
      BY <2>2 DEF RunStep, Begin, FetchInput, Work, UploadResult, UploadDiagnostic, UploadFails, Stop, Index
    <3>3. \A n \in ArtifactNames : art[s][n] # "lagging"
      BY DEF Tidy
    <3>4. art' = art \/ (run[s].status # "completed" /\ \E n : art' = Uploaded(s, n))
      BY <2>2, <3>3 DEF RunStep, Begin, FetchInput, Work, UploadResult, UploadDiagnostic, UploadFails, Stop, Index, Live
    <3>5. /\ \A r \in RunIds : run[r].status = "completed" => art'[r] = art[r]
          /\ \A r \in RunIds, n \in ArtifactNames : art'[r][n] = "deleted" => art[r][n] = "deleted"
      BY <1>0, <3>4 DEF Uploaded
    <3> QED
      BY <3>1, <3>2, <3>5 DEF RunsOf
  <2> QED
    BY <2>1, <2>2 DEF HubNext
<1> QED
  BY <1>0, <1>1, QuietKept DEF cliVars

\* The one lookup of a failed run's result has no deadline of its own.
Dated(b) == pc[b] = "findResult" /\ expired[b] => concl[b] = "success"

\* No deadline is set for a lookup that is not a poll.
LEMMA NextDated == ASSUME TypeOK, [Next]_vars, NEW b \in Builds, Dated(b) PROVE Dated(b)'
<1> USE DEF TypeOK, CliTypeOK, hubVars, Dated
<1>1. CASE UNCHANGED vars \/ (HubNext /\ UNCHANGED <<cliVars, logs>>)
  BY <1>1 DEF vars, cliVars
<1>2. ASSUME NEW c \in Builds, CleanupStep(c) PROVE Dated(b)'
  BY <1>2 DEF CleanupStep, DeleteCentralArtifact, DeleteSnapshotLease, StartCancel, LocateDispatchedRun,
     CancelWorkflowRun, ConfirmStopped, DeleteCentralBuildArtifacts, Exit, Goto
<1>3. ASSUME NEW c \in Builds, TimesOut(c) \/ CallFails(c) PROVE Dated(b)'
  <2>1. concl' = concl
    BY <1>3 DEF TimesOut, CallFails, GiveUp
  <2>2. pc[c] \in {"push", "trigger", "waitStart", "waitDone", "findBase", "findTrusted",
                   "findResult", "download", "deliver"} /\ GiveUp(c)
    BY <1>3 DEF TimesOut, CallFails, Foreground, ForegroundPolls
  <2>3. \E p \in Phases : Goto(c, p)
    BY <2>2 DEF GiveUp, Return, Phases, Foreground, ForegroundPolls, Cleanup, CleanupPolls
  <2> QED
    BY <2>1, <2>3 DEF Goto
<1>4. ASSUME NEW c \in Builds,
             \/ Prepare(c) \/ Push(c) \/ TriggerWorkflow(c) \/ PollForWorkflowStart(c) \/ PollForWorkflowCompletion(c)
             \/ PollForBaseArtifact(c) \/ FindTrustedArtifact(c) \/ FindResultArtifact(c)
             \/ DownloadCentralArtifact(c) \/ Deliver(c)
      PROVE  Dated(b)'
  BY <1>4 DEF Prepare, Push, TriggerWorkflow, PollForWorkflowStart, PollForWorkflowCompletion, PollForBaseArtifact,
     FindTrustedArtifact, FindResultArtifact, DownloadCentralArtifact, Deliver, Goto, Return
<1>5. ASSUME NEW c \in Builds, LogsStep(c) \/ Expire(c) \/ Interrupt(c) \/ Crash(c) PROVE Dated(b)'
  BY <1>5 DEF LogsStep, LogsFind, LogsSave, LogsDelete, Expire, Interrupt, Crash, Goto, cliVars
<1> QED
  BY <1>1, <1>2, <1>3, <1>4, <1>5 DEF Next, CliStep

\* Another build's step, or the environment's.
LEMMA OthersQuiet ==
    ASSUME Quiet, IInv, Next, NEW b \in Builds, QuietBuild(b), Retrieves(b), Unread,
           NEW c \in Builds, \/ b # c /\ (CliStep(c) \/ CallFails(c))
                             \/ LogsStep(c) \/ Expire(c) \/ Interrupt(c) \/ Crash(c)
    PROVE  QuietBuild(b)'
<1>0. TypeOK /\ Identified(b) /\ Identified(c)
  BY DEF IInv, BuildInv
<1>1. CASE b # c /\ (CliStep(c) \/ CallFails(c))
  <2>1. Forward
    BY <1>0, <1>1, CleanupFrame, GiveUpFrame, ForegroundFrame DEF CliStep
  <2>2. RunsOf(b)' = RunsOf(b)
    BY <2>1, ForwardRuns
  <2>3. \A r \in RunsOf(b) : r \in RunIds /\ r # runID[c]
    BY <1>0, <1>1 DEF Identified, RunsOf
  <2>4. \A r \in RunsOf(b) : art'[r] = art[r]
    BY <1>0, <1>1, <2>3, OnlyAdoptedRun
  <2> QED
    BY <1>0, <1>1, <2>2, <2>4, CliFrame, QuietKept DEF Untouched
<1>2. CASE LogsStep(c)
  BY <1>2 DEF Quiet, Unread, LogsStep, LogsFind, LogsSave, LogsDelete
<1>3. CASE Expire(c) \/ Interrupt(c) \/ Crash(c)
  <2>1. UNCHANGED <<run, art, refs>>
    BY <1>3 DEF Expire, Interrupt, Crash, hubVars
  <2>2. RunsOf(b)' = RunsOf(b)
    BY <2>1 DEF RunsOf
  <2> QED
    BY <1>0, <1>3, <2>1, <2>2, OthersFrame, QuietKept
<1> QED
  BY <1>1, <1>2, <1>3

\* A call of buildCentral that succeeds registers the defer of what it found.
LEMMA ForegroundQuiet ==
    ASSUME Quiet, IInv, Unread, NEW c \in Builds, QuietBuild(c), Retrieves(c), \A r \in RunIds : Tidy(r),
           \/ Prepare(c) \/ Push(c) \/ TriggerWorkflow(c) \/ PollForWorkflowStart(c) \/ PollForWorkflowCompletion(c)
           \/ PollForBaseArtifact(c) \/ FindTrustedArtifact(c) \/ FindResultArtifact(c)
           \/ DownloadCentralArtifact(c) \/ Deliver(c)
    PROVE  QuietBuild(c)'
<1>0. /\ TypeOK /\ Adopted /\ Identified(c) /\ pc[c] \in Foreground /\ outcome[c] = "none"
      /\ UNCHANGED <<op, run, art>> /\ RunsOf(c)' = RunsOf(c) /\ op[c] # "adhoc"
  BY DEF IInv, BuildInv, Phased, Foreground, ForegroundPolls, Prepare, Push, TriggerWorkflow, PollForWorkflowStart,
     PollForWorkflowCompletion, PollForBaseArtifact, FindTrustedArtifact, FindResultArtifact, DownloadCentralArtifact,
     Deliver, hubVars, RunsOf, Unread
<1>1. ASSUME pc[c] \in Retrieval
      PROVE  /\ runID[c] \in RunsOf(c) /\ runID[c] \in RunIds /\ Tidy(runID[c]) /\ OpOf(runID[c]) = op[c]
             /\ run[runID[c]].job \in Jobs
             /\ \A n \in ArtifactNames : art[runID[c]][n] \in {"none", "visible"}
  <2>1. runID[c] \in RunsOf(c) /\ runID[c] \in RunIds
    BY <1>0, <1>1 DEF Adopted, AdoptedPhases, Identified
  <2>2. \A n \in ArtifactNames : art[runID[c]][n] \in {"none", "visible"}
    BY <1>0, <2>1 DEF QuietBuild, Logged, Tidy, TypeOK, HubTypeOK, ArtifactState
  <2> QED
    BY <1>0, <2>1, <2>2, RunTyped DEF RunsOf, OpOf
<1> USE DEF TypeOK, CliTypeOK, hubVars
<1>2. CASE Prepare(c) \/ Push(c) \/ TriggerWorkflow(c) \/ PollForWorkflowStart(c) \/ PollForWorkflowCompletion(c)
  <2>1. /\ chosen' = chosen /\ pc[c] \in {"prepare", "push", "trigger", "waitStart", "waitDone"}
        /\ pc'[c] \in {"push", "unwind", "trigger", "waitStart", "waitDone", "findBase"}
        /\ outcome'[c] \in {"none", "unprepared"}
        /\ refs'[c] = refs[c] \/ "lease" \in defers'[c]
        /\ "lease" \in defers[c] => "lease" \in defers'[c]
    BY <1>0, <1>2 DEF Prepare, Push, TriggerWorkflow, PollForWorkflowStart, PollForWorkflowCompletion, Goto, Return,
       Register
  <2>2. Logged(c)'
    BY <1>0, <2>1 DEF QuietBuild, Logged, Foreground, ForegroundPolls
  <2>3. Leased(c)'
    BY <1>0, <2>1 DEF QuietBuild, Leased
  <2> QED
    BY <2>1, <2>2, <2>3 DEF QuietBuild, Emptied, Covered
<1>3. CASE PollForBaseArtifact(c)
  <2>1. /\ UNCHANGED <<runID, concl, chosen, ctxDone, outcome, refs>> /\ pc[c] = "findBase"
        /\ defers'[c] = defers[c] \cup {"base"}
        /\ pc'[c] = IF Signed(op[c]) THEN "findTrusted" ELSE "download"
    BY <1>0, <1>3 DEF PollForBaseArtifact, Goto, Register
  <2>2. pc[c] \in Retrieval /\ chosen[c] = "base"
    BY <2>1 DEF Retrieval, QuietBuild, Logged, Foreground, ForegroundPolls
  <2>3. ~Signed(op[c]) => /\ LogName(c) = "base"
                          /\ art[runID[c]]["trusted"] = "none" /\ art[runID[c]]["deploy"] = "none"
    BY <1>0, <1>1, <2>2 DEF Tidy, RunsOf, LogName, DiagnosticOf
  <2>4. Logged(c)'
    BY <1>0, <2>1, <2>2, <2>3 DEF QuietBuild, Logged, LogName, Foreground, ForegroundPolls
  <2>5. Leased(c)' /\ Emptied(c)'
    BY <1>0, <2>1 DEF QuietBuild, Leased, Emptied
  <2>6. Covered(c)'
    BY <1>0, <2>1, <2>3 DEF Covered, Present
  <2> QED
    BY <2>4, <2>5, <2>6 DEF QuietBuild
<1>4. CASE FindTrustedArtifact(c)
  <2>1. /\ UNCHANGED <<runID, concl, chosen, ctxDone, outcome, refs>> /\ pc[c] = "findTrusted" /\ pc'[c] = "findResult"
        /\ defers'[c] = IF Listed(runID[c], "trusted") THEN defers[c] \cup {"trusted"} ELSE defers[c]
        /\ ~ctxDone[c]
    BY <1>0, <1>4 DEF FindTrustedArtifact, Goto, Register
  <2>2. pc[c] \in Retrieval /\ chosen[c] = "base"
    BY <2>1 DEF Retrieval, QuietBuild, Logged, Foreground, ForegroundPolls
  <2>3. Logged(c)'
    BY <1>0, <2>1, <2>2 DEF QuietBuild, Logged, Foreground, ForegroundPolls
  <2>4. Leased(c)' /\ Emptied(c)'
    BY <1>0, <2>1 DEF QuietBuild, Leased, Emptied
  <2>5. Covered(c)'
    BY <1>0, <1>1, <2>1, <2>2 DEF QuietBuild, Covered, Present, Listed, ArtifactNames
  <2> QED
    BY <2>3, <2>4, <2>5 DEF QuietBuild
<1>5. CASE FindResultArtifact(c)
  <2>1. /\ UNCHANGED <<runID, concl, ctxDone, outcome, refs>> /\ pc[c] = "findResult" /\ pc'[c] = "download"
        /\ ~ctxDone[c]
        /\ \/ /\ Listed(runID[c], "deploy") /\ chosen'[c] = "deploy"
              /\ defers'[c] = defers[c] \cup {"result"}
           \/ ~Listed(runID[c], "deploy") /\ chosen' = chosen /\ defers' = defers /\ concl[c] # "success"
    BY <1>0, <1>5 DEF FindResultArtifact, Goto, Register, ResultName
  <2>2. pc[c] \in Retrieval /\ chosen[c] = "base"
    BY <2>1 DEF Retrieval, QuietBuild, Logged, Foreground, ForegroundPolls
  <2>3. art[runID[c]][LogName(c)] # "none" => chosen'[c] = LogName(c)
    <3>1. CASE run[runID[c]].job = "build"
      BY <1>1, <2>1, <2>2, <3>1 DEF Tidy, Listed, LogName, DiagnosticOf
    <3>2. CASE run[runID[c]].job \in {"package", "sign"}
      BY <1>0, <1>1, <2>1, <2>2, <3>2 DEF Listed, LogName, DiagnosticOf, ResultName, ArtifactNames
    <3> QED
      BY <1>1, <2>2, <3>1, <3>2 DEF Jobs
  <2>4. Logged(c)'
    BY <1>0, <2>1, <2>3 DEF QuietBuild, Logged, LogName, Foreground, ForegroundPolls
  <2>5. Leased(c)' /\ Emptied(c)'
    BY <1>0, <2>1 DEF QuietBuild, Leased, Emptied
  <2>6. Covered(c)'
    BY <1>0, <1>1, <2>1, <2>2 DEF QuietBuild, Covered, Present, Listed, ArtifactNames
  <2> QED
    BY <2>4, <2>5, <2>6 DEF QuietBuild
<1>6. CASE DownloadCentralArtifact(c) \/ Deliver(c)
  <2>1. /\ UNCHANGED <<runID, concl, chosen, ctxDone, refs, defers>>
        /\ \/ pc[c] = "download" /\ ~ctxDone[c] /\ pc'[c] = "deliver" /\ outcome'[c] = "none"
           \/ pc[c] = "download" /\ pc'[c] = "unwind" /\ outcome'[c] = "undelivered"
           \/ /\ pc[c] = "deliver" /\ pc'[c] = "unwind"
              /\ outcome'[c] = IF concl[c] = "success" THEN "delivered" ELSE "failed"
    BY <1>0, <1>6 DEF DownloadCentralArtifact, Deliver, Goto, Return
  <2>2. Logged(c)'
    BY <1>0, <2>1 DEF QuietBuild, Logged, LogName, Foreground, ForegroundPolls
  <2>3. Leased(c)' /\ Emptied(c)'
    BY <1>0, <2>1 DEF QuietBuild, Leased, Emptied
  <2>4. Covered(c)'
    BY <1>0, <2>1 DEF QuietBuild, Covered, Present
  <2> QED
    BY <2>2, <2>3, <2>4 DEF QuietBuild
<1> QED
  BY <1>2, <1>3, <1>4, <1>5, <1>6

\* A call that fails or a deadline that passes.
LEMMA GiveUpQuiet ==
    ASSUME Quiet, IInv, NEW c \in Builds, QuietBuild(c), Dated(c), TimesOut(c) \/ CallFails(c)
    PROVE  QuietBuild(c)'
<1>0. /\ TypeOK /\ outcome[c] = "none"
      /\ UNCHANGED <<op, run, art, runID, concl, chosen, ctxDone, defers, warned>> /\ RunsOf(c)' = RunsOf(c)
      /\ refs' = refs \/ pc[c] = "push"
  <2>1. TypeOK /\ Phased(c) /\ pc[c] \in Foreground
    BY GiveUpFrame DEF IInv, BuildInv
  <2>2. GiveUp(c)
    BY DEF TimesOut, CallFails
  <2>3. /\ UNCHANGED <<op, run, art, runID, concl, chosen, ctxDone, defers, warned>>
        /\ refs' = refs \/ pc[c] = "push"
    BY <2>2 DEF GiveUp
  <2> QED
    BY <2>1, <2>3 DEF Phased, RunsOf
<1>1. TimesOut(c) /\ GiveUp(c) /\ pc[c] \in {"push", "trigger", "waitStart", "waitDone", "findBase", "findTrusted",
                                           "findResult", "download"}
  BY DEF Quiet, TimesOut, CallFails, Foreground, ForegroundPolls
<1> USE DEF TypeOK, CliTypeOK
<1>2. CASE pc[c] \in {"push", "trigger", "findBase"}
  <2>1. \E o \in {"unprepared", "untriggered", "unavailable"} : Return(c, o) /\ (pc[c] = "push" => o = "unprepared")
    BY <1>1, <1>2 DEF GiveUp
  <2>2. /\ pc'[c] = "unwind" /\ outcome'[c] \in {"unprepared", "untriggered", "unavailable"}
        /\ (pc[c] = "push" => outcome'[c] = "unprepared")
    BY <1>0, <2>1 DEF Return, Goto
  <2>4. Logged(c)' /\ Emptied(c)' /\ Covered(c)'
    BY <2>2 DEF Logged, Emptied, Covered, Foreground, ForegroundPolls
  <2>3. Leased(c)'
    BY <1>0, <2>2 DEF QuietBuild, Leased
  <2> QED
    BY <2>3, <2>4 DEF QuietBuild
<1>3. CASE pc[c] \in {"waitStart", "waitDone"}
  <2>1. pc'[c] = "unwind" /\ outcome'[c] \in {"notStarted", "notCompleted"} /\ refs' = refs
    BY <1>0, <1>1, <1>3 DEF GiveUp, Return, Goto
  <2>2. Logged(c)' /\ Covered(c)'
    BY <2>1 DEF Logged, Covered, Foreground, ForegroundPolls
  <2>3. Emptied(c)'
    BY <1>0, <1>3 DEF IInv, BuildInv, Phased, Emptied
  <2>4. Leased(c)'
    BY <1>0, <2>1 DEF QuietBuild, Leased
  <2> QED
    BY <2>2, <2>3, <2>4 DEF QuietBuild
<1>4. CASE pc[c] \in {"findTrusted", "findResult", "download"}
  <2>1. /\ refs' = refs
        /\ \/ pc[c] = "findTrusted" /\ pc'[c] = "findResult" /\ outcome'[c] = "none" /\ ctxDone[c]
           \/ pc[c] = "findResult" /\ pc'[c] = "unwind" /\ outcome'[c] = "unavailable"
           \/ pc[c] = "findResult" /\ pc'[c] = "download" /\ outcome'[c] = "none" /\ ctxDone[c]
           \/ pc[c] = "download" /\ pc'[c] = "unwind" /\ outcome'[c] = "undelivered" /\ ctxDone[c]
    BY <1>0, <1>1, <1>4 DEF GiveUp, Return, Goto, TimesOut, Dated, ForegroundPolls
  <2>2. Logged(c)'
    BY <1>0, <2>1 DEF QuietBuild, Logged, Foreground, ForegroundPolls
  <2>3. Covered(c)' /\ Emptied(c)'
    BY <1>0, <2>1 DEF Covered, Emptied
  <2>4. Leased(c)'
    BY <1>0, <2>1 DEF QuietBuild, Leased
  <2> QED
    BY <2>2, <2>3, <2>4 DEF QuietBuild
<1> QED
  BY <1>1, <1>2, <1>3, <1>4

\* Deleting removes what it names, and brings nothing back.
LEMMA DeletedGone ==
    ASSUME TypeOK, NEW r \in RunIds, Tidy(r), NEW names, NEW n \in ArtifactNames
    PROVE  /\ Deleted(r, names)[r][n] # "none" => art[r][n] # "none"
           /\ Deleted(r, names)[r][n] \in {"lagging", "visible"} => Present(r, n) /\ n \notin names
BY DEF TypeOK, HubTypeOK, Tidy, Deleted, Present, Listed, ArtifactState

\* The defers take away what is still there, and nothing else changes.
LEMMA CleanupQuiet ==
    ASSUME Quiet, IInv, Next, NEW c \in Builds, QuietBuild(c), Retrieves(c), Retrieves(c)', Unread,
           \A r \in RunIds : Tidy(r), CleanupStep(c)
    PROVE  QuietBuild(c)'
<1>0. /\ TypeOK /\ Adopted /\ Identified(c) /\ Identified(c)' /\ outcome[c] # "none" /\ Forward
      /\ pc[c] \in Cleanup /\ op' = op
  <2>1. pc[c] \in Cleanup
    BY DEF CleanupStep, DeleteCentralArtifact, DeleteSnapshotLease, StartCancel, LocateDispatchedRun,
       CancelWorkflowRun, ConfirmStopped, DeleteCentralBuildArtifacts, Exit, Cleanup, CleanupPolls
  <2> QED
    BY <2>1, CleanupFrame, NextInv, OpFixed DEF IInv, BuildInv, Phased
<1>1. RunsOf(c)' = RunsOf(c)
  BY <1>0, ForwardRuns
<1> USE DEF TypeOK, CliTypeOK, hubVars
<1>2. /\ UNCHANGED <<concl, chosen, ctxDone, outcome>>
      /\ pc'[c] \in Cleanup \cup {"done"}
  <2>1. UNCHANGED <<concl, chosen, ctxDone, outcome>>
    BY DEF CleanupStep, DeleteCentralArtifact, DeleteSnapshotLease, StartCancel, LocateDispatchedRun,
       CancelWorkflowRun, ConfirmStopped, DeleteCentralBuildArtifacts, Exit
  <2>2. pc' = pc \/ \E p \in Cleanup \cup {"done"} : Goto(c, p)
    BY DEF CleanupStep, DeleteCentralArtifact, DeleteSnapshotLease, StartCancel, LocateDispatchedRun,
       CancelWorkflowRun, ConfirmStopped, DeleteCentralBuildArtifacts, Exit, Cleanup, CleanupPolls
  <2> QED
    BY <1>0, <2>1, <2>2 DEF Goto
<1>3. \A n \in ArtifactNames, r \in RunIds :
         /\ art'[r][n] # "none" => art[r][n] # "none"
         /\ Present(r, n)' => Present(r, n)
  BY <1>0, CliArtifacts DEF CliStep, Present
<1>4. outcome[c] \in Answers => runID'[c] = runID[c] /\ runID[c] \in RunIds /\ LogName(c)' = LogName(c)
  <2> SUFFICES ASSUME outcome[c] \in Answers
               PROVE  runID'[c] = runID[c] /\ runID[c] \in RunIds /\ LogName(c)' = LogName(c)
    OBVIOUS
  <2>1. runID[c] \in RunIds /\ runID'[c] \in RunIds
    BY <1>2 DEF Retrieves
  <2>2. runID'[c] = runID[c]
    BY <1>0, <1>1, <2>1 DEF Identified
  <2>3. run'[runID[c]] = run[runID[c]]
    BY <1>0, CompletedFrozen DEF Retrieves
  <2> QED
    BY <1>0, <2>1, <2>2, <2>3 DEF LogName
<1>5. Logged(c)'
  <2>1. pc'[c] \notin Foreground
    BY <1>2 DEF Cleanup, CleanupPolls, Foreground, ForegroundPolls
  <2>2. ASSUME outcome[c] = "failed" PROVE LogName(c) \in ArtifactNames
    BY <1>0, <1>4, <2>2, NamesTyped, RunTyped DEF LogName, Answers
  <2> QED
    BY <1>2, <1>3, <1>4, <2>1, <2>2 DEF QuietBuild, Logged, Foreground, ForegroundPolls, Answers
<1>6. Leased(c)'
  <2>1. CASE DeleteSnapshotLease(c)
    <3>1. refs' = [refs EXCEPT ![c] = "absent"]
      BY <2>1 DEF DeleteSnapshotLease, Quiet
    <3> QED
      BY <1>0, <3>1 DEF HubTypeOK, Leased
  <2>2. CASE ~DeleteSnapshotLease(c)
    <3>1. refs' = refs /\ (\/ defers' = defers
                          \/ \E d \in Defers \ {"lease"} : Drop(c, d))
      BY <2>2 DEF CleanupStep, DeleteCentralArtifact, StartCancel, LocateDispatchedRun,
         CancelWorkflowRun, ConfirmStopped, DeleteCentralBuildArtifacts, Exit, Defers
    <3>2. "lease" \in defers[c] => "lease" \in defers'[c]
      BY <1>0, <3>1 DEF Drop
    <3> QED
      BY <1>2, <3>1, <3>2 DEF QuietBuild, Leased
  <2> QED
    BY <2>1, <2>2
<1>7. Emptied(c)'
  <2> SUFFICES ASSUME outcome[c] \in {"notStarted", "notCompleted"}, warned'[c] = {}, "cancel" \notin defers'[c],
                      NEW r \in RunsOf(c), NEW n \in ArtifactNames
               PROVE  ~Present(r, n)'
    BY <1>1, <1>2 DEF Emptied
  <2>1. CASE DeleteCentralBuildArtifacts(c)
    <3>1. runID[c] = r /\ r \in RunIds /\ Tidy(r)
      BY <1>0, <2>1 DEF DeleteCentralBuildArtifacts, Adopted, AdoptedPhases, Identified, RunsOf
    <3>2. art' = Deleted(r, {"base", "trusted", "deploy"})
      BY <2>1, <3>1 DEF DeleteCentralBuildArtifacts, Quiet, PurgedNames
    <3>3. CASE n = "adhoc"
      BY <1>3, <3>1, <3>3 DEF Present, Tidy
    <3>4. CASE n # "adhoc"
      BY <1>0, <3>1, <3>2, <3>4, DeletedGone DEF Present, ArtifactNames
    <3> QED
      BY <3>3, <3>4
  <2>2. CASE LocateDispatchedRun(c)
    <3>1. \/ defers' = defers /\ warned' = warned
          \/ Warn(c, "locate")
      BY <2>2 DEF LocateDispatchedRun
    <3>2. defers'[c] = defers[c] /\ warned'[c] = warned[c]
      BY <1>0, <3>1 DEF Warn
    <3> QED
      BY <1>2, <1>3, <3>2 DEF QuietBuild, Emptied, RunsOf
  <2>3. CASE ~DeleteCentralBuildArtifacts(c) /\ ~LocateDispatchedRun(c)
    <3>1. \/ warned' = warned
          \/ Warn(c, "confirm")
      BY <2>3 DEF CleanupStep, DeleteCentralArtifact, DeleteSnapshotLease, StartCancel, CancelWorkflowRun,
         ConfirmStopped, Exit, Quiet
    <3>2. defers' = defers \/ \E d \in Defers \ {"cancel"} : Drop(c, d)
      BY <2>3 DEF CleanupStep, DeleteCentralArtifact, DeleteSnapshotLease, StartCancel, CancelWorkflowRun,
         ConfirmStopped, Exit, Defers
    <3>3. "cancel" \notin defers[c] /\ warned[c] = {}
      BY <1>0, <3>1, <3>2 DEF Drop, Warn
    <3> QED
      BY <1>2, <1>3, <3>3 DEF QuietBuild, Emptied, RunsOf
  <2> QED
    BY <2>1, <2>2, <2>3
<1>8. Covered(c)'
  <2> SUFFICES ASSUME outcome[c] \in {"undelivered", "failed", "delivered"}, ~ctxDone[c]
               PROVE  Covered(c)'
    BY <1>2 DEF Covered, Cleanup, CleanupPolls
  <2>1. /\ runID'[c] = runID[c] /\ runID[c] \in RunIds /\ Tidy(runID[c])
        /\ \A n \in ArtifactNames : Present(runID[c], n)' => Present(runID[c], n)
    BY <1>3, <1>4 DEF Answers
  <2>2. pc[c] \notin {"findTrusted", "findResult"} /\ ctxDone'[c] = ctxDone[c] /\ outcome'[c] = outcome[c]
    BY <1>0, <1>2 DEF Cleanup, CleanupPolls
  <2>3. ASSUME NEW d \in {"base", "trusted", "result"}, d \in defers[c], d \notin defers'[c]
        PROVE  ~Present(runID[c], DeferredName(c, d))'
    <3>1. DeleteCentralArtifact(c)
      <4>1. ~DeleteCentralArtifact(c) => defers' = defers \/ \E e \in {"lease", "cancel"} : Drop(c, e)
        BY DEF CleanupStep, DeleteSnapshotLease, StartCancel, LocateDispatchedRun,
           CancelWorkflowRun, ConfirmStopped, DeleteCentralBuildArtifacts, Exit
      <4> QED
        BY <1>0, <2>3, <4>1 DEF Drop
    <3>2. PICK e \in {"base", "trusted", "result"} : Drop(c, e) /\ art' = Deleted(runID[c], {DeferredName(c, e)})
      BY <3>1 DEF DeleteCentralArtifact, Quiet
    <3>3. d = e
      BY <1>0, <2>3, <3>2 DEF Drop
    <3>4. DeferredName(c, d) \in ArtifactNames /\ DeferredName(c, d)' = DeferredName(c, d)
      BY <1>0, <1>2 DEF DeferredName, ArtifactNames
    <3> QED
      BY <1>0, <2>1, <3>2, <3>3, <3>4, DeletedGone DEF Present
  <2>4. pc'[c] \notin {"findTrusted", "findResult"}
    BY <1>2 DEF Cleanup, CleanupPolls
  <2>5. chosen'[c] = chosen[c] /\ outcome'[c] = outcome[c]
    BY <1>2
  <2>6. ASSUME Present(runID[c], "base")' PROVE "base" \in defers'[c]
    BY <2>1, <2>2, <2>3, <2>5, <2>6 DEF QuietBuild, Covered, DeferredName, ArtifactNames
  <2>7. ASSUME Present(runID[c], "trusted")' PROVE "trusted" \in defers'[c]
    BY <2>1, <2>2, <2>3, <2>5, <2>7 DEF QuietBuild, Covered, DeferredName, ArtifactNames
  <2>8. ASSUME Present(runID[c], "deploy")' PROVE "result" \in defers'[c] /\ chosen'[c] = "deploy"
    BY <2>1, <2>2, <2>3, <2>5, <2>8 DEF QuietBuild, Covered, DeferredName, ArtifactNames
  <2> QED
    BY <2>6, <2>7, <2>8 DEF Covered
<1> QED
  BY <1>5, <1>6, <1>7, <1>8 DEF QuietBuild

\* Every step keeps a build's account of what it has left behind.
LEMMA NextQuiet ==
    ASSUME Quiet, IInv, DeliveryInv, DeliveryInv', Unread, \A r \in RunIds : Tidy(r), [Next]_vars,
           NEW b \in Builds, QuietBuild(b), Dated(b)
    PROVE  QuietBuild(b)'
<1>0. TypeOK /\ (\A c \in Builds : Retrieves(c) /\ Retrieves(c)')
  BY DEF IInv, DeliveryInv
<1>1. CASE UNCHANGED vars
  <2>1. RunsOf(b)' = RunsOf(b) /\ art' = art
    BY <1>1 DEF vars, hubVars, RunsOf
  <2> QED
    BY <1>0, <1>1, <2>1, QuietKept DEF vars, hubVars, cliVars
<1>2. CASE Next /\ HubNext /\ UNCHANGED <<cliVars, logs>>
  BY <1>0, <1>2, HubQuiet
<1>3. ASSUME Next, NEW c \in Builds, CliStep(c) \/ CallFails(c), b # c
      PROVE  QuietBuild(b)'
  BY <1>0, <1>3, OthersQuiet
<1>4. ASSUME Next, CliStep(b) \/ CallFails(b)
      PROVE  QuietBuild(b)'
  <2>1. CASE TimesOut(b) \/ CallFails(b)
    BY <2>1, GiveUpQuiet
  <2>2. CASE CleanupStep(b)
    BY <1>0, <1>4, <2>2, CleanupQuiet
  <2>3. CASE \/ Prepare(b) \/ Push(b) \/ TriggerWorkflow(b) \/ PollForWorkflowStart(b) \/ PollForWorkflowCompletion(b)
             \/ PollForBaseArtifact(b) \/ FindTrustedArtifact(b) \/ FindResultArtifact(b)
             \/ DownloadCentralArtifact(b) \/ Deliver(b)
    BY <1>0, <2>3, ForegroundQuiet
  <2> QED
    BY <1>4, <2>1, <2>2, <2>3 DEF CliStep
<1>5. ASSUME Next, NEW c \in Builds, LogsStep(c) \/ Expire(c) \/ Interrupt(c) \/ Crash(c)
      PROVE  QuietBuild(b)'
  BY <1>0, <1>5, OthersQuiet
<1> QED
  BY <1>1, <1>2, <1>3, <1>4, <1>5 DEF Next

\* The strengthening of the two promises, with the build's own poll deadlines.
LEMMA QuietInvariant == ASSUME Quiet PROVE Spec => []QuietInv
<1> DEFINE J == QuietInv /\ \A b \in Builds : Dated(b)
<1>1. Init => J
  <2> SUFFICES ASSUME Init PROVE J
    OBVIOUS
  <2>1. ASSUME NEW r \in RunIds PROVE Tidy(r)
    BY BuildAssumption DEF Init, HubInit, Tidy, AbsentRun, ArtifactNames
  <2>2. ASSUME NEW b \in Builds PROVE QuietBuild(b) /\ Dated(b)
    BY DEF RunsOf, Present,  Init, HubInit, QuietBuild, Logged, Leased, Emptied, Covered, Dated, Foreground, ForegroundPolls
  <2>3. Unread
    BY DEF Init, HubInit, Quiet, Unread
  <2> QED
    BY <2>1, <2>2, <2>3 DEF QuietInv
<1>2. IInv /\ DeliveryInv /\ DeliveryInv' /\ J /\ [Next]_vars => J'
  <2> SUFFICES ASSUME IInv, DeliveryInv, DeliveryInv', J, [Next]_vars PROVE J'
    OBVIOUS
  <2>0. TypeOK /\ Unread /\ (\A r \in RunIds : Tidy(r)) /\ (\A b \in Builds : QuietBuild(b) /\ Dated(b))
    BY DEF IInv, QuietInv
  <2>1. Unread'
    BY <2>0, NextUnread
  <2>2. ASSUME NEW r \in RunIds PROVE Tidy(r)'
    BY <2>0, NextTidy
  <2>3. ASSUME NEW b \in Builds PROVE QuietBuild(b)' /\ Dated(b)'
    BY <2>0, NextQuiet, NextDated
  <2> QED
    BY <2>1, <2>2, <2>3 DEF QuietInv
<1>3. J => QuietInv
  OBVIOUS
<1> HIDE DEF J
<1> QED
  BY <1>1, <1>2, <1>3, BookkeepingAgrees, DeliveryInvariant, PTL DEF Spec

\* The log saved for a failed run is the one its failing job uploaded, if it uploaded
\* one: whichever job failed, and however deadlines and interrupts fall, the choice
\* between the result's name and base finds it (findResultArtifact).
THEOREM FailureLogAlways == ASSUME Quiet PROVE Spec => []FailureLogIsFailingJobs
<1>1. QuietInv => FailureLogIsFailingJobs
  BY DEF QuietInv, QuietBuild, Logged, LogName, FailureLogIsFailingJobs
<1> QED
  BY <1>1, QuietInvariant, PTL

\* A cleanup that has run to its end leaves neither artifacts nor the snapshot ref
\* behind, for any number of builds and runs that share the hub.
THEOREM CleanExitAlways == ASSUME Quiet PROVE Spec => []CleanExit
<1>1. IInv /\ DeliveryInv /\ QuietInv => CleanExit
  <2> SUFFICES ASSUME IInv, DeliveryInv, QuietInv, NEW b \in Builds, CleanupCompleted(b)
               PROVE  refs[b] = "absent" /\ \A r \in RunsOf(b), n \in ArtifactNames : ~Present(r, n)
    BY DEF CleanExit
  <2>0. TypeOK /\ Identified(b) /\ Retrieves(b) /\ QuietBuild(b) /\ defers[b] = {}
    BY DEF IInv, BuildInv, Phased, DeliveryInv, QuietInv, CleanupCompleted
  <2>1. refs[b] = "absent"
    BY <2>0 DEF TypeOK, HubTypeOK, QuietBuild, Leased, CleanupCompleted
  <2>2. CASE outcome[b] \in {"notStarted", "notCompleted"}
    BY <2>0, <2>1, <2>2 DEF QuietBuild, Emptied, CleanupCompleted
  <2>3. CASE outcome[b] \in {"undelivered", "failed", "delivered"} /\ ~ctxDone[b]
    <3>1. runID[b] \in RunIds /\ RunsOf(b) = {runID[b]}
      BY <2>0, <2>3 DEF Retrieves, Answers, Identified
    <3>2. ~Present(runID[b], "base") /\ ~Present(runID[b], "trusted") /\ ~Present(runID[b], "deploy")
      BY <2>0, <2>3 DEF QuietBuild, Covered, CleanupCompleted
    <3>3. ~Present(runID[b], "adhoc")
      BY <3>1 DEF QuietInv, Tidy, Present
    <3> QED
      BY <2>1, <3>1, <3>2, <3>3 DEF ArtifactNames
  <2> QED
    BY <2>2, <2>3 DEF CleanupCompleted
<1> QED
  BY <1>1, BookkeepingAgrees, DeliveryInvariant, QuietInvariant, PTL
=============================================================================
