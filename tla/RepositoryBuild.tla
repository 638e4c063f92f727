-------------------------- MODULE RepositoryBuild --------------------------
(***************************************************************************)
(* The repository backend: `builder ios build` with the workflow in the    *)
(* source repository (buildRepository in internal/build/coordinator.go) and*)
(* `builder ios share` (Share in share.go), each against the run it        *)
(* dispatched, whose workflow is ios-build.yml or ios-share.yml of         *)
(* internal/workflow/templates.                                            *)
(*                                                                         *)
(* A run is found by its exact title, so every build has a run of its own  *)
(* here.  Each API call or git push is one step.                           *)
(***************************************************************************)
CONSTANTS
    Builds,         \* invocations of the CLI
    Unreliable      \* TRUE: API calls and pushes may fail, before or after taking effect

ASSUME UnreliableAssumption == Unreliable \in BOOLEAN

VARIABLES
    kind,       \* build -> "build" or "share"
    refs,       \* build -> whether its snapshot ref exists
    run,        \* build -> the run of its dispatch
    ipa,        \* build -> whether the artifact "ipa" of its run is listed
    live,       \* build -> whether its simulator can be used from the MobAI app
    pc,         \* build -> where buildRepository or Share is
    ctxDone,    \* build -> its context is cancelled or past its deadline
    expired,    \* build -> the two minutes of PollForWorkflowStart are over
    lost,       \* build -> the cleanup calls that got no good answer
    outcome     \* build -> what the function returns

remoteVars == <<refs, run, ipa, live>>
cliVars == <<pc, ctxDone, expired, lost, outcome>>
vars == <<kind, remoteVars, cliVars>>

Run == [status     : {"absent", "accepted", "queued", "in_progress", "completed"},
        step       : {"checkout", "compile", "upload", "share", "after"},
        conclusion : {"none", "success", "failure", "cancelled"},
        stopping   : BOOLEAN]
Phases == {"prepare", "push", "trigger", "waitStart",
           "findIPA", "checkRun", "download",   \* buildRepository
           "watch", "checkShare", "grace", "cancel",   \* Share
           "deleteSnapshot", "done", "crashed"}
Outcomes == {"none", "unprepared", "untriggered", "notStarted", "pollError", "interrupted",
             "failed", "undelivered", "delivered", "aborted", "shared"}

\* The type invariant.
TypeOK ==
    /\ kind \in [Builds -> {"build", "share"}]
    /\ refs \in [Builds -> {"absent", "pushed"}]
    /\ run \in [Builds -> Run]
    /\ ipa \in [Builds -> BOOLEAN]
    /\ live \in [Builds -> BOOLEAN]
    /\ pc \in [Builds -> Phases]
    /\ ctxDone \in [Builds -> BOOLEAN]
    /\ expired \in [Builds -> BOOLEAN]
    /\ lost \in [Builds -> SUBSET {"delete", "cancel"}]
    /\ outcome \in [Builds -> Outcomes]

Init ==
    /\ kind \in [Builds -> {"build", "share"}]
    /\ refs = [b \in Builds |-> "absent"]
    /\ run = [b \in Builds |-> [status |-> "absent", step |-> "checkout", conclusion |-> "none", stopping |-> FALSE]]
    /\ ipa = [b \in Builds |-> FALSE]
    /\ live = [b \in Builds |-> FALSE]
    /\ pc = [b \in Builds |-> "prepare"]
    /\ ctxDone = [b \in Builds |-> FALSE]
    /\ expired = [b \in Builds |-> FALSE]
    /\ lost = [b \in Builds |-> {}]
    /\ outcome = [b \in Builds |-> "none"]

-----------------------------------------------------------------------------
\* The run.  A step that fails ends it.
Running(b, step) == run[b].status = "in_progress" /\ run[b].step = step
Concluded(b, c) == run' = [run EXCEPT ![b].status = "completed", ![b].conclusion = c]
Proceed(b, step) == run' = [run EXCEPT ![b].step = step]

CreateRun(b) ==
    /\ run[b].status = "accepted"
    /\ run' = [run EXCEPT ![b].status = "queued"]
    /\ UNCHANGED <<kind, refs, ipa, live, cliVars>>

BeginRun(b) ==
    /\ run[b].status = "queued"
    /\ run' = [run EXCEPT ![b].status = "in_progress"]
    /\ UNCHANGED <<kind, refs, ipa, live, cliVars>>

Checkout(b) ==
    /\ Running(b, "checkout")
    /\ IF refs[b] = "pushed" THEN Proceed(b, "compile") ELSE Concluded(b, "failure")
    /\ UNCHANGED <<kind, refs, ipa, live, cliVars>>

Compile(b) ==
    /\ Running(b, "compile")
    /\ Proceed(b, IF kind[b] = "build" THEN "upload" ELSE "share") \/ Concluded(b, "failure")
    /\ UNCHANGED <<kind, refs, ipa, live, cliVars>>

\* The IPA is there for the caller before the job saves its caches and ends,
\* which the job's own time limit may still turn into a failure.
Upload(b) ==
    /\ Running(b, "upload")
    /\ \/ Proceed(b, "after") /\ ipa' = [ipa EXCEPT ![b] = TRUE]
       \/ Concluded(b, "failure") /\ UNCHANGED ipa
    /\ UNCHANGED <<kind, refs, live, cliVars>>

EndJob(b) ==
    /\ Running(b, "after")
    /\ \E c \in {"success", "failure"} : Concluded(b, c)
    /\ UNCHANGED <<kind, refs, ipa, live, cliVars>>

\* The share step publishes the simulator and runs until it is released.
Publish(b) ==
    /\ Running(b, "share") /\ ~live[b]
    /\ live' = [live EXCEPT ![b] = TRUE]
    /\ UNCHANGED <<kind, refs, run, ipa, cliVars>>

EndShare(b) ==
    /\ Running(b, "share")
    /\ Concluded(b, IF live[b] THEN "success" ELSE "failure")
    /\ live' = [live EXCEPT ![b] = FALSE]
    /\ UNCHANGED <<kind, refs, ipa, cliVars>>

StopRun(b) ==
    /\ run[b].stopping /\ run[b].status \in {"queued", "in_progress"}
    /\ Concluded(b, "cancelled")
    /\ live' = [live EXCEPT ![b] = FALSE]
    /\ UNCHANGED <<kind, refs, ipa, cliVars>>

RunStep(b) == \/ CreateRun(b) \/ BeginRun(b) \/ Checkout(b) \/ Compile(b) \/ Upload(b)
              \/ EndJob(b) \/ Publish(b) \/ EndShare(b) \/ StopRun(b)

-----------------------------------------------------------------------------
Goto(b, phase) == pc' = [pc EXCEPT ![b] = phase]
\* Mutant: the share deletes its snapshot too.
ReturnAndDelete(b, message) ==
    /\ outcome' = [outcome EXCEPT ![b] = message]
    /\ Goto(b, IF pc[b] \notin {"prepare", "push"} THEN "deleteSnapshot" ELSE "done")

\* Only the build has a deferred deletion, and only once its push succeeded.
Return(b, message) ==
    /\ outcome' = [outcome EXCEPT ![b] = message]
    /\ Goto(b, IF kind[b] = "build" /\ pc[b] \notin {"prepare", "push"} THEN "deleteSnapshot" ELSE "done")

\* snapshot.Create
Create(b) ==
    /\ pc[b] = "prepare"
    /\ \/ Goto(b, "push") /\ UNCHANGED outcome
       \/ Return(b, "unprepared")
    /\ UNCHANGED <<kind, remoteVars, ctxDone, expired, lost>>

Push(b) ==
    /\ pc[b] = "push" /\ ~ctxDone[b]
    /\ refs' = [refs EXCEPT ![b] = "pushed"]
    /\ Goto(b, "trigger")
    /\ UNCHANGED <<kind, run, ipa, live, ctxDone, expired, lost, outcome>>

TriggerWorkflow(b) ==
    /\ pc[b] = "trigger" /\ ~ctxDone[b]
    /\ run' = [run EXCEPT ![b].status = "accepted"]
    /\ Goto(b, "waitStart")
    /\ UNCHANGED <<kind, refs, ipa, live, ctxDone, expired, lost, outcome>>

PollForWorkflowStart(b) ==
    /\ pc[b] = "waitStart" /\ ~ctxDone[b]
    /\ run[b].status \notin {"absent", "accepted"}
    /\ Goto(b, IF kind[b] = "build" THEN "findIPA" ELSE "watch")
    /\ UNCHANGED <<kind, remoteVars, ctxDone, expired, lost, outcome>>

\* One round of PollForArtifact: first the artifact ...
FindIPA(b) ==
    /\ pc[b] = "findIPA" /\ ~ctxDone[b]
    /\ Goto(b, IF ipa[b] THEN "download" ELSE "checkRun")
    /\ UNCHANGED <<kind, remoteVars, ctxDone, expired, lost, outcome>>

GivenUp(b) == run[b].status = "completed" /\ run[b].conclusion # "success"

\* ... then the run: only one that ended without success ends the wait.
CheckRun(b) ==
    /\ pc[b] = "checkRun" /\ ~ctxDone[b]
    /\ IF GivenUp(b) THEN Return(b, "failed") ELSE Goto(b, "findIPA") /\ UNCHANGED outcome
    /\ UNCHANGED <<kind, remoteVars, ctxDone, expired, lost>>

Download(b) ==
    /\ pc[b] = "download" /\ ~ctxDone[b]
    /\ Return(b, "delivered")
    /\ UNCHANGED <<kind, remoteVars, ctxDone, expired, lost>>

\* Mutant: any running step is taken for the share step.
AnyStepShares(b) ==
    /\ pc[b] = "watch" /\ ~ctxDone[b]
    /\ Goto(b, IF run[b].status = "in_progress" THEN "grace" ELSE "checkShare")
    /\ UNCHANGED <<kind, remoteVars, ctxDone, expired, lost, outcome>>

\* One round of waitForShareStep: the running step; when there is none, or the
\* lookup failed, the run.  Another running step starts the next round (a
\* stutter), but between two steps there is none.
Watch(b) ==
    /\ pc[b] = "watch" /\ ~ctxDone[b]
    /\ \/ Running(b, "share") /\ Goto(b, "grace")
       \/ (Running(b, "share") => Unreliable) /\ Goto(b, "checkShare")
    /\ UNCHANGED <<kind, remoteVars, ctxDone, expired, lost, outcome>>

CheckShare(b) ==
    /\ pc[b] = "checkShare"
    /\ \/ ~ctxDone[b] /\ run[b].status = "completed" /\ Goto(b, "cancel")
       \/ (~ctxDone[b] /\ run[b].status = "completed" => Unreliable) /\ Goto(b, "watch")
    /\ UNCHANGED <<kind, remoteVars, ctxDone, expired, lost, outcome>>

\* The simulator is publishing: wait for it to appear; an interrupt is "done".
Grace(b) ==
    /\ pc[b] = "grace"
    /\ Return(b, "shared")
    /\ UNCHANGED <<kind, remoteVars, ctxDone, expired, lost>>

\* Mutant: the cancellation is sent under the caller's context.
CancelUnderContext(b) ==
    /\ pc[b] = "cancel"
    /\ IF run[b].status \in {"queued", "in_progress"} /\ ~ctxDone[b]
       THEN run' = [run EXCEPT ![b].stopping = TRUE] ELSE UNCHANGED run
    /\ Return(b, "aborted")
    /\ UNCHANGED <<kind, refs, ipa, live, ctxDone, expired, lost>>

\* Under a context of its own; a failed cancellation is not mentioned.
CancelShare(b) ==
    /\ pc[b] = "cancel"
    /\ LET after == IF run[b].status \in {"queued", "in_progress"}
                    THEN [run EXCEPT ![b].stopping = TRUE] ELSE run IN
       \/ run' = after /\ UNCHANGED lost
       \/ Unreliable /\ run' \in {run, after} /\ lost' = [lost EXCEPT ![b] = @ \cup {"cancel"}]
    /\ Return(b, "aborted")
    /\ UNCHANGED <<kind, refs, ipa, live, ctxDone, expired>>

\* Deferred by the build under a context of its own; an error is a warning.
DeleteSnapshot(b) ==
    /\ pc[b] = "deleteSnapshot"
    /\ LET after == [refs EXCEPT ![b] = "absent"] IN
       \/ refs' = after /\ UNCHANGED lost
       \/ Unreliable /\ refs' \in {refs, after} /\ lost' = [lost EXCEPT ![b] = @ \cup {"delete"}]
    /\ Goto(b, "done")
    /\ UNCHANGED <<kind, run, ipa, live, ctxDone, expired, outcome>>

\* The call of the current phase returns an error.  A push or a dispatch whose
\* answer is lost may have taken effect.
GiveUp(b) ==
    /\ pc[b] \in {"push", "trigger", "waitStart", "findIPA", "checkRun", "download"}
    /\ Return(b, CASE pc[b] = "push" -> "unprepared"
                   [] pc[b] = "trigger" -> "untriggered"
                   [] pc[b] = "waitStart" -> "notStarted"
                   [] pc[b] \in {"findIPA", "checkRun"} -> IF ctxDone[b] THEN "interrupted" ELSE "pollError"
                   [] pc[b] = "download" -> "undelivered")
    /\ refs' \in {refs} \cup (IF pc[b] = "push" THEN {[refs EXCEPT ![b] = "pushed"]} ELSE {})
    /\ run' \in {run} \cup (IF pc[b] = "trigger" THEN {[run EXCEPT ![b].status = "accepted"]} ELSE {})
    /\ UNCHANGED <<kind, ipa, live, ctxDone, expired, lost>>

\* Mutant: the polls outlive their context.
OnlyExpires(b) == expired[b] /\ pc[b] = "waitStart" /\ GiveUp(b)

\* The context is done, or the run did not appear in time.
TimesOut(b) ==
    \/ ctxDone[b] /\ GiveUp(b)
    \/ expired[b] /\ pc[b] = "waitStart" /\ GiveUp(b)
    \/ /\ ctxDone[b] /\ pc[b] = "watch" /\ Goto(b, "cancel")
       /\ UNCHANGED <<kind, remoteVars, ctxDone, expired, lost, outcome>>

CallFails(b) == Unreliable /\ ~ctxDone[b] /\ GiveUp(b)

CliStep(b) == \/ Create(b) \/ Push(b) \/ TriggerWorkflow(b) \/ PollForWorkflowStart(b)
              \/ FindIPA(b) \/ CheckRun(b) \/ Download(b)
              \/ Watch(b) \/ CheckShare(b) \/ Grace(b) \/ CancelShare(b)
              \/ DeleteSnapshot(b) \/ TimesOut(b)

-----------------------------------------------------------------------------
Ended == {"done", "crashed"}

Expire(b) ==
    /\ pc[b] = "waitStart" /\ ~expired[b]
    /\ expired' = [expired EXCEPT ![b] = TRUE]
    /\ UNCHANGED <<kind, remoteVars, pc, ctxDone, lost, outcome>>

\* Ctrl+C, SIGTERM, or the context's timeout.
Interrupt(b) ==
    /\ pc[b] \notin Ended /\ ~ctxDone[b]
    /\ ctxDone' = [ctxDone EXCEPT ![b] = TRUE]
    /\ UNCHANGED <<kind, remoteVars, pc, expired, lost, outcome>>

Crash(b) ==
    /\ pc[b] \notin Ended
    /\ Goto(b, "crashed")
    /\ UNCHANGED <<kind, remoteVars, ctxDone, expired, lost, outcome>>

Next == \E b \in Builds : \/ RunStep(b) \/ CliStep(b) \/ CallFails(b)
                          \/ Expire(b) \/ Interrupt(b) \/ Crash(b)

Spec == Init /\ [][Next]_vars

\* The process is scheduled and its context's timeout passes.
FairSpec == Spec /\ \A b \in Builds : WF_vars(CliStep(b)) /\ WF_vars(Interrupt(b))

-----------------------------------------------------------------------------
(***************************************************************************)
(* Properties                                                              *)
(***************************************************************************)
Dispatched(b) == outcome[b] \notin {"none", "unprepared", "untriggered"}
AwaitsSource(b) == run[b].status \in {"accepted", "queued"} \/ Running(b, "checkout")

\* A run that has not checked out its snapshot loses it only to a build that
\* gave up on it: never to a share, to a delivery or to a failure the run
\* reported ("the job checks it out and runs long after this returns",
\* share.go:66).
SourceKept ==
    \A b \in Builds : AwaitsSource(b) /\ refs[b] = "absent" =>
        kind[b] = "build" /\ outcome[b] \in {"untriggered", "notStarted", "pollError", "interrupted"}

\* A simulator announced as ready was being shared and is not being stopped by
\* the command that announced it (waitForShareStep's grace period).
SharedIsShared ==
    \A b \in Builds : outcome[b] = "shared" => run[b].step = "share" /\ ~run[b].stopping

\* A share that gave up on the run it was watching leaves nothing that keeps
\* running, unless its cancellation was lost (the fresh context of Share).
AbortedIsStopped ==
    \A b \in Builds : outcome[b] = "aborted" /\ "cancel" \notin lost[b] =>
        run[b].status = "completed" \/ run[b].stopping

\* A build is reported as failed only if its run ended without success, however
\* the upload, the end of the run and the two reads of PollForArtifact fall.
FailedIsFailed ==
    \A b \in Builds : outcome[b] = "failed" =>
        run[b].status = "completed" /\ run[b].conclusion # "success"

\* Whatever GitHub does, both commands return.
Returns == \A b \in Builds : <>(pc[b] \in Ended)

\* "Share cancels the run if interrupted before the sim is shared"
\* (cmd/builder/root.go:830).
InterruptedShareIsCancelled ==
    \A b \in Builds :
        kind[b] = "share" /\ pc[b] = "done" /\ ctxDone[b] /\ Dispatched(b) /\ outcome[b] # "shared"
            => run[b].status = "completed" \/ run[b].stopping

\* An interrupt is "not a reason to cancel a live sim" (share.go:145).
LiveSimIsNotCancelled ==
    [][\A b \in Builds : run'[b].stopping /\ ~run[b].stopping => ~live[b]]_vars

-----------------------------------------------------------------------------
(***************************************************************************)
(* The inductive invariant behind the first four properties.               *)
(***************************************************************************)
Unborn(b) == run[b].status = "absent"
Waiting == {"findIPA", "checkRun", "download"}
Watching == {"watch", "checkShare", "grace", "cancel"}

\* How far the run is, read off its steps.
RunInv(b) ==
    /\ run[b].status \in {"absent", "accepted", "queued"} => run[b].step = "checkout"
    /\ run[b].status # "completed" => run[b].conclusion = "none"
    /\ ipa[b] => run[b].step = "after"
    /\ run[b].stopping => outcome[b] = "aborted"

\* What the command has and has not done, by phase.
PhaseInv(b) ==
    /\ pc[b] \in {"prepare", "push", "trigger"} \/ outcome[b] = "unprepared" => Unborn(b)
    /\ pc[b] \in Waiting => kind[b] = "build"
    /\ pc[b] \in Watching => kind[b] = "share"
    /\ pc[b] \in Waiting \cup Watching => run[b].status \notin {"absent", "accepted"}
    /\ pc[b] \notin {"deleteSnapshot", "done", "crashed"} => outcome[b] = "none"
    /\ pc[b] = "deleteSnapshot" => kind[b] = "build" /\ outcome[b] \notin {"none", "unprepared"}
    /\ pc[b] = "download" => ipa[b]
    /\ pc[b] = "grace" => run[b].step = "share"

\* What each outcome says of the run.
OutcomeInv(b) ==
    /\ outcome[b] \in {"delivered", "undelivered"} => ipa[b]
    /\ outcome[b] = "failed" => run[b].status = "completed" /\ run[b].conclusion # "success"
    /\ outcome[b] = "shared" => run[b].step = "share" /\ kind[b] = "share"
    /\ outcome[b] = "aborted" => kind[b] = "share" /\ run[b].status \notin {"absent", "accepted"}
    /\ outcome[b] = "aborted" /\ "cancel" \notin lost[b] => run[b].status = "completed" \/ run[b].stopping

\* The ref is there from before the dispatch until the build's own deletion.
RefInv(b) ==
    /\ pc[b] = "trigger" => refs[b] = "pushed"
    /\ ~Unborn(b) /\ refs[b] = "absent" =>
          kind[b] = "build" /\ pc[b] = "done" /\ outcome[b] \notin {"none", "unprepared"}

IInv == TypeOK /\ \A b \in Builds : RunInv(b) /\ PhaseInv(b) /\ OutcomeInv(b) /\ RefInv(b)
=============================================================================
