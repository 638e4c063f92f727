----------------------- MODULE RepositoryBuildProofs -----------------------
(***************************************************************************)
(* For every set of builds, failing calls or not: what RepositoryBuild     *)
(* promises about snapshots, shares and reported failures.                 *)
(***************************************************************************)
EXTENDS RepositoryBuild, TLAPS

BuildInv(b) == RunInv(b) /\ PhaseInv(b) /\ OutcomeInv(b) /\ RefInv(b)
Step(b) == RunStep(b) \/ CliStep(b) \/ CallFails(b) \/ Expire(b) \/ Interrupt(b) \/ Crash(b)

LEMMA InitEstablishesIInv == Init => IInv
BY DEF Init, IInv, TypeOK, Run, Phases, Outcomes, Unborn, Waiting, Watching,
   RunInv, PhaseInv, OutcomeInv, RefInv

-----------------------------------------------------------------------------
\* Types.
LEMMA ConcludedType ==
    ASSUME TypeOK, NEW b \in Builds, NEW c \in {"success", "failure", "cancelled"}, Concluded(b, c)
    PROVE  run' \in [Builds -> Run]
<1>1. run[b] \in Run /\ run' = [run EXCEPT ![b] = [run[b] EXCEPT !.status = "completed", !.conclusion = c]]
  BY DEF TypeOK, Concluded
<1>2. [run[b] EXCEPT !.status = "completed", !.conclusion = c] \in Run
  BY <1>1 DEF Run
<1> QED
  BY <1>1, <1>2 DEF TypeOK

LEMMA ProceedType ==
    ASSUME TypeOK, NEW b \in Builds, NEW s \in {"compile", "upload", "share", "after"}, Proceed(b, s)
    PROVE  run' \in [Builds -> Run]
<1>1. run[b] \in Run /\ run' = [run EXCEPT ![b] = [run[b] EXCEPT !.step = s]]
  BY DEF TypeOK, Proceed
<1>2. [run[b] EXCEPT !.step = s] \in Run
  BY <1>1 DEF Run
<1> QED
  BY <1>1, <1>2 DEF TypeOK

LEMMA GotoType ==
    ASSUME TypeOK, NEW b \in Builds, NEW phase \in Phases, Goto(b, phase)
    PROVE  pc' \in [Builds -> Phases]
BY DEF TypeOK, Goto

LEMMA ReturnType ==
    ASSUME TypeOK, NEW b \in Builds, NEW message \in Outcomes, Return(b, message)
    PROVE  pc' \in [Builds -> Phases] /\ outcome' \in [Builds -> Outcomes]
BY DEF TypeOK, Return, Goto, Phases

LEMMA GiveUpType ==
    ASSUME TypeOK, NEW b \in Builds, GiveUp(b)
    PROVE  /\ pc' \in [Builds -> Phases] /\ outcome' \in [Builds -> Outcomes]
           /\ refs' \in [Builds -> {"absent", "pushed"}]
           /\ run' \in [Builds -> Run]
<1>1. \E message \in Outcomes : Return(b, message)
  <2>1. CASE pc[b] = "push"
    BY <2>1 DEF GiveUp, Outcomes
  <2>2. CASE pc[b] = "trigger"
    BY <2>2 DEF GiveUp, Outcomes
  <2>3. CASE pc[b] = "waitStart"
    BY <2>3 DEF GiveUp, Outcomes
  <2>4. CASE pc[b] \in {"findIPA", "checkRun"}
    <3>1. CASE ctxDone[b]
      BY <2>4, <3>1, Zenon DEF GiveUp, Outcomes
    <3>2. CASE ~ctxDone[b]
      BY <2>4, <3>2, Zenon DEF GiveUp, Outcomes
    <3> QED
      BY <3>1, <3>2
  <2>5. CASE pc[b] = "download"
    BY <2>5 DEF GiveUp, Outcomes
  <2> QED
    BY <2>1, <2>2, <2>3, <2>4, <2>5 DEF GiveUp
<1>2. refs' \in [Builds -> {"absent", "pushed"}]
  BY DEF GiveUp, TypeOK
<1>3. run' \in [Builds -> Run]
  <2>1. [run[b] EXCEPT !.status = "accepted"] \in Run
    <3>1. run[b] \in Run
      BY DEF TypeOK
    <3> QED
      BY <3>1 DEF Run
  <2>2. run' \in {run, [run EXCEPT ![b] = [run[b] EXCEPT !.status = "accepted"]]}
    BY DEF GiveUp
  <2> QED
    BY <2>1, <2>2 DEF TypeOK
<1> QED
  BY <1>1, <1>2, <1>3, ReturnType

\* A failed status read is counted once: the poll ends with it.
LEMMA TypeStep == ASSUME IInv, NEW b \in Builds, Step(b) PROVE TypeOK'
<1>1. TypeOK /\ run[b] \in Run
  BY DEF IInv, TypeOK
<1>2. CASE CreateRun(b)
  BY <1>1, <1>2 DEF CreateRun, Run, TypeOK, Phases, Outcomes, remoteVars, cliVars
<1>3. CASE BeginRun(b)
  BY <1>1, <1>3 DEF BeginRun, Run, TypeOK, Phases, Outcomes, remoteVars, cliVars
<1>4. CASE Checkout(b)
  BY <1>1, <1>4, ConcludedType, ProceedType DEF Checkout, TypeOK, Phases, Outcomes, remoteVars, cliVars
<1>5. CASE Compile(b)
  BY <1>1, <1>5, ConcludedType, ProceedType DEF Compile, TypeOK, Phases, Outcomes, remoteVars, cliVars
<1>6. CASE Upload(b)
  <2>1. run' \in [Builds -> Run]
    BY <1>1, <1>6, ConcludedType, ProceedType DEF Upload
  <2>2. ipa' \in [Builds -> BOOLEAN]
    BY <1>1, <1>6 DEF Upload, TypeOK
  <2> QED
    BY <1>1, <1>6, <2>1, <2>2 DEF Upload, TypeOK, cliVars
<1>7. CASE EndJob(b)
  BY <1>1, <1>7, ConcludedType DEF EndJob, TypeOK, Phases, Outcomes, remoteVars, cliVars
<1>8. CASE Publish(b)
  BY <1>1, <1>8 DEF Publish, TypeOK, Phases, Outcomes, remoteVars, cliVars
<1>9. CASE EndShare(b)
  BY <1>1, <1>9, ConcludedType DEF EndShare, TypeOK, Phases, Outcomes, remoteVars, cliVars
<1>10. CASE StopRun(b)
  BY <1>1, <1>10, ConcludedType DEF StopRun, TypeOK, Phases, Outcomes, remoteVars, cliVars
<1>11. CASE Create(b)
  BY <1>1, <1>11, ReturnType, GotoType DEF Create, TypeOK, Phases, Outcomes, remoteVars, cliVars
<1>12. CASE Push(b)
  BY <1>1, <1>12, GotoType DEF Push, TypeOK, Phases, Outcomes, remoteVars, cliVars
<1>13. CASE TriggerWorkflow(b)
  BY <1>1, <1>13 DEF TriggerWorkflow, Run, Goto, TypeOK, Phases, Outcomes, remoteVars, cliVars
<1>14. CASE PollForWorkflowStart(b)
  BY <1>1, <1>14, GotoType DEF PollForWorkflowStart, TypeOK, Phases, Outcomes, remoteVars, cliVars
<1>15. CASE FindIPA(b)
  BY <1>1, <1>15, GotoType DEF FindIPA, TypeOK, Phases, Outcomes, remoteVars, cliVars
<1>16. CASE CheckRun(b)
  BY <1>1, <1>16, ReturnType, GotoType DEF CheckRun, TypeOK, Phases, Outcomes, remoteVars, cliVars
<1>17. CASE Download(b)
  BY <1>1, <1>17, ReturnType DEF Download, TypeOK, Phases, Outcomes, remoteVars, cliVars
<1>18. CASE Watch(b)
  BY <1>1, <1>18, GotoType DEF Watch, TypeOK, Phases, Outcomes, remoteVars, cliVars
<1>19. CASE CheckShare(b)
  BY <1>1, <1>19, GotoType DEF CheckShare, TypeOK, Phases, Outcomes, remoteVars, cliVars
<1>20. CASE Grace(b)
  BY <1>1, <1>20, ReturnType DEF Grace, TypeOK, Phases, Outcomes, remoteVars, cliVars
<1>21. CASE CancelShare(b)
  <2>1. Return(b, "aborted") /\ UNCHANGED <<kind, refs, ipa, live, ctxDone, expired>>
    BY <1>21 DEF CancelShare
  <2>2. run' \in [Builds -> Run]
    <3>1. [run[b] EXCEPT !.stopping = TRUE] \in Run
      BY <1>1 DEF Run
    <3>2. run' \in {run, [run EXCEPT ![b] = [run[b] EXCEPT !.stopping = TRUE]]}
      BY <1>21 DEF CancelShare
    <3> QED
      BY <1>1, <3>1, <3>2 DEF TypeOK
  <2>3. lost' \in [Builds -> SUBSET {"delete", "cancel"}]
    BY <1>1, <1>21 DEF CancelShare, TypeOK
  <2> QED
    BY <1>1, <2>1, <2>2, <2>3, ReturnType DEF TypeOK, Outcomes
<1>22. CASE DeleteSnapshot(b)
  BY <1>1, <1>22 DEF DeleteSnapshot, Goto, TypeOK, Phases, Outcomes, remoteVars, cliVars
<1>23. CASE Expire(b)
  BY <1>1, <1>23 DEF Expire, TypeOK, Phases, Outcomes, remoteVars, cliVars
<1>24. CASE Interrupt(b)
  BY <1>1, <1>24 DEF Interrupt, TypeOK, Phases, Outcomes, remoteVars, cliVars
<1>25. CASE Crash(b)
  BY <1>1, <1>25, GotoType DEF Crash, TypeOK, Phases, Outcomes, remoteVars, cliVars
<1>26. CASE TimesOut(b)
  <2>1. CASE GiveUp(b)
    BY <1>1, <1>26, <2>1, GiveUpType DEF TimesOut, GiveUp, TypeOK
  <2>2. CASE ~GiveUp(b)
    BY <1>1, <1>26, <2>2, GotoType DEF TimesOut, TypeOK, Phases, remoteVars
  <2> QED
    BY <2>1, <2>2
<1>27. CASE CallFails(b)
  BY <1>1, <1>27, GiveUpType DEF CallFails, GiveUp, TypeOK
<1> QED
  BY <1>2, <1>3, <1>4, <1>5, <1>6, <1>7, <1>8, <1>9, <1>10, <1>11, <1>12, <1>13, <1>14, <1>15, <1>16, <1>17, <1>18, <1>19, <1>20, <1>21, <1>22, <1>23, <1>24, <1>25, <1>26, <1>27 DEF Step, RunStep, CliStep

-----------------------------------------------------------------------------
\* A step of one build leaves the others alone.
LEMMA OthersUntouched ==
    ASSUME IInv, NEW b \in Builds, Step(b), NEW d \in Builds \ {b}
    PROVE  /\ kind'[d] = kind[d] /\ refs'[d] = refs[d] /\ run'[d] = run[d] /\ ipa'[d] = ipa[d]
           /\ pc'[d] = pc[d] /\ lost'[d] = lost[d] /\ outcome'[d] = outcome[d]
<1>1. TypeOK
  BY DEF IInv
<1>2. CASE RunStep(b)
  BY <1>1, <1>2 DEF TypeOK, RunStep, CreateRun, BeginRun, Checkout, Compile, Upload, EndJob, Publish, EndShare,
     StopRun, Proceed, Concluded, cliVars
<1>3. ASSUME GiveUp(b) PROVE /\ refs'[d] = refs[d] /\ run'[d] = run[d]
                             /\ pc'[d] = pc[d] /\ outcome'[d] = outcome[d]
  BY <1>1, <1>3 DEF GiveUp, Return, Goto, TypeOK
<1>4. CASE TimesOut(b)
  BY <1>1, <1>3, <1>4 DEF TimesOut, GiveUp, Goto, TypeOK, remoteVars
<1>5. CASE CallFails(b)
  BY <1>1, <1>3, <1>5 DEF CallFails, GiveUp, TypeOK
<1>6. CASE CancelShare(b)
  BY <1>1, <1>6 DEF CancelShare, Return, Goto, TypeOK
<1>7. CASE DeleteSnapshot(b)
  BY <1>1, <1>7 DEF DeleteSnapshot, Goto, TypeOK
<1>8. CASE Create(b) \/ Push(b) \/ TriggerWorkflow(b) \/ PollForWorkflowStart(b) \/ FindIPA(b) \/ CheckRun(b) \/ Download(b)
  BY <1>1, <1>8 DEF Create, Push, TriggerWorkflow, PollForWorkflowStart, FindIPA, CheckRun, Download, Return, Goto,
     TypeOK, remoteVars
<1>9. CASE Watch(b) \/ CheckShare(b) \/ Grace(b) \/ Expire(b) \/ Interrupt(b) \/ Crash(b)
  BY <1>1, <1>9 DEF Watch, CheckShare, Grace, Expire, Interrupt, Crash, Return, Goto, TypeOK, remoteVars
<1> QED
  BY <1>2, <1>4, <1>5, <1>6, <1>7, <1>8, <1>9 DEF Step, CliStep

LEMMA OthersKeepInv ==
    ASSUME IInv, NEW b \in Builds, Step(b), NEW d \in Builds \ {b}
    PROVE  BuildInv(d)'
<1>1. BuildInv(d)
  BY DEF IInv, BuildInv
<1> QED
  BY <1>1, OthersUntouched DEF BuildInv, RunInv, PhaseInv, OutcomeInv, RefInv, Unborn

-----------------------------------------------------------------------------
\* The build that moves: first its run, then its command.
LEMMA RunStepKeepsInv == ASSUME IInv, NEW b \in Builds, RunStep(b) PROVE BuildInv(b)'
<1>1. TypeOK /\ BuildInv(b) /\ run[b] \in Run
  BY DEF IInv, BuildInv, TypeOK
<1> USE DEF BuildInv, RunInv, PhaseInv, OutcomeInv, RefInv, Unborn, Run, cliVars, TypeOK
<1>2. CASE CreateRun(b)
  BY <1>1, <1>2 DEF CreateRun
<1>3. CASE BeginRun(b)
  BY <1>1, <1>3 DEF BeginRun
<1>4. CASE Checkout(b)
  <2>1. CASE refs[b] = "pushed"
    BY <1>1, <1>4, <2>1 DEF Checkout, Running, Proceed
  <2>2. CASE refs[b] # "pushed"
    BY <1>1, <1>4, <2>2 DEF Checkout, Running, Concluded
  <2> QED
    BY <2>1, <2>2
<1>5. CASE Compile(b)
  <2>1. CASE Proceed(b, IF kind[b] = "build" THEN "upload" ELSE "share")
    BY <1>1, <1>5, <2>1 DEF Compile, Running, Proceed
  <2>2. CASE Concluded(b, "failure")
    BY <1>1, <1>5, <2>2 DEF Compile, Running, Concluded
  <2> QED
    BY <1>5, <2>1, <2>2 DEF Compile
<1>6. CASE Upload(b)
  BY <1>1, <1>6 DEF Upload, Running, Proceed, Concluded
<1>7. CASE EndJob(b)
  BY <1>1, <1>7 DEF EndJob, Running, Concluded
<1>8. CASE Publish(b)
  BY <1>1, <1>8 DEF Publish, Running
<1>9. CASE EndShare(b)
  BY <1>1, <1>9 DEF EndShare, Running, Concluded
<1>10. CASE StopRun(b)
  BY <1>1, <1>10 DEF StopRun, Concluded
<1> QED
  BY <1>2, <1>3, <1>4, <1>5, <1>6, <1>7, <1>8, <1>9, <1>10 DEF RunStep

\* Giving up deletes the snapshot next, so only the outcome says what is lost.
LEMMA GiveUpKeepsInv ==
    ASSUME IInv, NEW b \in Builds, GiveUp(b)
    PROVE  BuildInv(b)'
<1>1. TypeOK /\ BuildInv(b) /\ run[b] \in Run
  BY DEF IInv, BuildInv, TypeOK
<1> USE DEF BuildInv, RunInv, PhaseInv, OutcomeInv, RefInv, Unborn, Waiting, Watching, Phases, Run, TypeOK
<1>2. CASE pc[b] = "push"
  BY <1>1, <1>2 DEF GiveUp, Return, Goto
<1>3. CASE pc[b] = "trigger"
  BY <1>1, <1>3 DEF GiveUp, Return, Goto
<1>4. CASE pc[b] = "waitStart"
  BY <1>1, <1>4 DEF GiveUp, Return, Goto
<1>5. CASE pc[b] \in {"findIPA", "checkRun"}
  <2>1. CASE ctxDone[b]
    BY <1>1, <1>5, <2>1 DEF GiveUp, Return, Goto
  <2>2. CASE ~ctxDone[b]
    BY <1>1, <1>5, <2>2 DEF GiveUp, Return, Goto
  <2> QED
    BY <2>1, <2>2
<1>6. CASE pc[b] = "download"
  BY <1>1, <1>6 DEF GiveUp, Return, Goto
<1> QED
  BY <1>2, <1>3, <1>4, <1>5, <1>6 DEF GiveUp

LEMMA CliStepKeepsInv ==
    ASSUME IInv, NEW b \in Builds, CliStep(b) \/ CallFails(b) \/ Expire(b) \/ Interrupt(b) \/ Crash(b)
    PROVE  BuildInv(b)'
<1>1. TypeOK /\ BuildInv(b) /\ run[b] \in Run
  BY DEF IInv, BuildInv, TypeOK
<1> USE DEF BuildInv, RunInv, PhaseInv, OutcomeInv, RefInv, Unborn, Waiting, Watching, Phases, Run, remoteVars, TypeOK
<1>2. CASE Create(b)
  BY <1>1, <1>2 DEF Create, Goto, Return
<1>3. CASE Push(b)
  BY <1>1, <1>3 DEF Push, Goto
<1>4. CASE TriggerWorkflow(b)
  BY <1>1, <1>4 DEF TriggerWorkflow, Goto
<1>5. CASE PollForWorkflowStart(b)
  BY <1>1, <1>5 DEF PollForWorkflowStart, Goto
<1>6. CASE FindIPA(b)
  BY <1>1, <1>6 DEF FindIPA, Goto
<1>7. CASE CheckRun(b)
  BY <1>1, <1>7 DEF CheckRun, Goto, Return, GivenUp
<1>8. CASE Download(b)
  BY <1>1, <1>8 DEF Download, Return, Goto
<1>9. CASE Watch(b)
  BY <1>1, <1>9 DEF Watch, Goto, Running
<1>10. CASE CheckShare(b)
  BY <1>1, <1>10 DEF CheckShare, Goto
<1>11. CASE Grace(b)
  BY <1>1, <1>11 DEF Grace, Return, Goto
<1>12. CASE CancelShare(b)
  BY <1>1, <1>12 DEF CancelShare, Return, Goto
<1>13. CASE DeleteSnapshot(b)
  BY <1>1, <1>13 DEF DeleteSnapshot, Goto
<1>14. CASE TimesOut(b)
  <2>1. CASE GiveUp(b)
    BY <1>1, <1>14, <2>1, GiveUpKeepsInv DEF TimesOut
  <2>2. CASE ~GiveUp(b)
    BY <1>1, <1>14, <2>2 DEF TimesOut, Goto
  <2> QED
    BY <2>1, <2>2
<1>15. CASE CallFails(b)
  BY <1>15, GiveUpKeepsInv DEF CallFails
<1>16. CASE Expire(b)
  BY <1>1, <1>16 DEF Expire
<1>17. CASE Interrupt(b)
  BY <1>1, <1>17 DEF Interrupt, Ended
<1>18. CASE Crash(b)
  BY <1>1, <1>18 DEF Crash, Goto, Ended
<1> QED
  BY <1>2, <1>3, <1>4, <1>5, <1>6, <1>7, <1>8, <1>9, <1>10, <1>11, <1>12, <1>13, <1>14, <1>15, <1>16, <1>17, <1>18 DEF CliStep

-----------------------------------------------------------------------------
\* What each command has done agrees with the state of its run and its ref: the
\* inductive invariant of RepositoryBuild.
THEOREM RepositoryBookkeeping == Spec => []IInv
<1>1. IInv /\ [Next]_vars => IInv'
  <2> SUFFICES ASSUME IInv, [Next]_vars PROVE IInv'
    OBVIOUS
  <2>1. ASSUME NEW b \in Builds, Step(b) PROVE IInv'
    <3>1. ASSUME NEW d \in Builds PROVE BuildInv(d)'
      <4>1. CASE d = b
        BY <2>1, <4>1, RunStepKeepsInv, CliStepKeepsInv DEF Step
      <4>2. CASE d # b
        BY <2>1, <4>2, OthersKeepInv
      <4> QED
        BY <4>1, <4>2
    <3>2. TypeOK'
      BY <2>1, TypeStep
    <3> QED
      BY <3>1, <3>2 DEF IInv, BuildInv
  <2>2. CASE UNCHANGED vars
    BY <2>2 DEF vars, remoteVars, cliVars, IInv, TypeOK, RunInv, PhaseInv, OutcomeInv, RefInv, Unborn
  <2> QED
    BY <2>1, <2>2 DEF Next, Step
<1> QED
  BY <1>1, InitEstablishesIInv, PTL DEF Spec

\* A run that still has to check out its snapshot has it, unless its build gave
\* up on the run (the deferred deleteSnapshot of buildRepository, and the share
\* that leaves its ref in place).
THEOREM SourceKeptAlways == Spec => []SourceKept
<1>1. IInv => SourceKept
  <2> SUFFICES ASSUME IInv, NEW b \in Builds, AwaitsSource(b), refs[b] = "absent"
               PROVE  /\ kind[b] = "build"
                      /\ outcome[b] \in {"untriggered", "notStarted", "pollError", "interrupted"}
    BY DEF SourceKept
  <2>1. RunInv(b) /\ OutcomeInv(b) /\ RefInv(b) /\ outcome[b] \in Outcomes
    BY DEF IInv, TypeOK
  <2>2. ~Unborn(b) /\ run[b].status # "completed" /\ run[b].step = "checkout"
    BY <2>1 DEF AwaitsSource, Running, RunInv, Unborn
  <2>3. kind[b] = "build" /\ outcome[b] \notin {"none", "unprepared"}
    BY <2>1, <2>2 DEF RefInv
  <2>4. outcome[b] \notin {"delivered", "undelivered", "failed", "shared", "aborted"}
    BY <2>1, <2>2, <2>3 DEF RunInv, OutcomeInv
  <2> QED
    BY <2>1, <2>3, <2>4 DEF Outcomes
<1> QED
  BY <1>1, RepositoryBookkeeping, PTL

\* A simulator announced as ready was being shared and is not being stopped by
\* the command (waitForShareStep).
THEOREM SharedIsSharedAlways == Spec => []SharedIsShared
<1>1. IInv => SharedIsShared
  BY DEF IInv, SharedIsShared, RunInv, OutcomeInv
<1> QED
  BY <1>1, RepositoryBookkeeping, PTL

\* A share that gave up on its run has stopped it, or its cancellation was lost.
THEOREM AbortedIsStoppedAlways == Spec => []AbortedIsStopped
<1>1. IInv => AbortedIsStopped
  BY DEF IInv, AbortedIsStopped, OutcomeInv
<1> QED
  BY <1>1, RepositoryBookkeeping, PTL

\* A build is reported as failed only if its run ended without success.
THEOREM FailedIsFailedAlways == Spec => []FailedIsFailed
<1>1. IInv => FailedIsFailed
  BY DEF IInv, OutcomeInv, FailedIsFailed
<1> QED
  BY <1>1, RepositoryBookkeeping, PTL
=============================================================================
