---------------------------- MODULE CentralBuild ----------------------------
(***************************************************************************)
(* The builder CLI driving one central build per build ID: buildCentral of *)
(* internal/build/central.go, its deferred cleanups, the polls of          *)
(* internal/github/workflow.go it waits in, and `builder ios logs` run     *)
(* beside it.  The remote side it talks to is ActionsRun.                  *)
(*                                                                         *)
(* Each API call or git push is one step.  Time is not measured: Expire    *)
(* says that the deadline of the poll in progress has passed, Interrupt    *)
(* that the build's context is done (Ctrl+C, SIGTERM or --timeout).        *)
(***************************************************************************)
EXTENDS Naturals, ActionsRun

CONSTANTS
    NoRun,          \* runID before the run has been found (0 in the code)
    Ops,            \* the operations users ask for
    Unreliable,     \* TRUE: API calls and pushes may fail, before or after taking effect
    LogReaders      \* builds on which somebody also runs `builder ios logs`

ASSUME RunAssumption == NoRun \notin RunIds
ASSUME OpsAssumption == Ops \subseteq Operations
ASSUME UnreliableAssumption == Unreliable \in BOOLEAN
ASSUME ReadersAssumption == LogReaders \subseteq Builds

VARIABLES
    pc,         \* build -> where buildCentral is
    runID,      \* build -> the run it adopted, or NoRun
    concl,      \* build -> the conclusion it read when the run completed
    chosen,     \* build -> the artifact it will download
    defers,     \* build -> the registered defers that have not run
    ctxDone,    \* build -> the build's context is cancelled or past its deadline
    expired,    \* build -> the deadline of the current poll has passed
    warned,     \* build -> the cleanup calls it warned about
    outcome,    \* build -> what buildCentral returns
    logs        \* build -> progress of `builder ios logs`

cliVars == <<pc, runID, concl, chosen, defers, ctxDone, expired, warned, outcome>>
vars == <<hubVars, cliVars, logs>>

(***************************************************************************)
(* "cancel" is registered after the dispatch and disarmed by runCompleted; *)
(* "base", "trusted" and "result" delete one artifact each; "lease" deletes*)
(* the snapshot ref.                                                       *)
(***************************************************************************)
Defers == {"lease", "cancel", "base", "trusted", "result"}
Warnings == Defers \cup {"locate", "confirm", "purge"}

ForegroundPolls == {"waitStart", "waitDone", "findBase", "findResult"}
Foreground == {"prepare", "push", "trigger", "findTrusted", "download", "deliver"}
                 \cup ForegroundPolls
CleanupPolls == {"locate", "confirm"}
Cleanup == {"unwind", "cancel", "purge"} \cup CleanupPolls
Phases == Foreground \cup Cleanup \cup {"done", "crashed"}

\* What the caller is told, by the error messages of buildCentral.
Outcomes == {"none", "unprepared", "untriggered", "notStarted", "notCompleted",
             "unavailable", "undelivered", "failed", "delivered"}
LogSteps == {"idle", "found", "saved", "done"}

CliTypeOK ==
    /\ pc \in [Builds -> Phases]
    /\ runID \in [Builds -> RunIds \cup {NoRun}]
    /\ concl \in [Builds -> Conclusions]
    /\ chosen \in [Builds -> ArtifactNames]
    /\ defers \in [Builds -> SUBSET Defers]
    /\ ctxDone \in [Builds -> BOOLEAN]
    /\ expired \in [Builds -> BOOLEAN]
    /\ warned \in [Builds -> SUBSET Warnings]
    /\ outcome \in [Builds -> Outcomes]
    /\ logs \in [Builds -> [at : LogSteps, name : ArtifactNames]]

\* The type invariant.
TypeOK == HubTypeOK /\ CliTypeOK

Init ==
    /\ HubInit(Ops)
    /\ pc = [b \in Builds |-> "prepare"]
    /\ runID = [b \in Builds |-> NoRun]
    /\ concl = [b \in Builds |-> "none"]
    /\ chosen = [b \in Builds |-> "base"]
    /\ defers = [b \in Builds |-> {}]
    /\ ctxDone = [b \in Builds |-> FALSE]
    /\ expired = [b \in Builds |-> FALSE]
    /\ warned = [b \in Builds |-> {}]
    /\ outcome = [b \in Builds |-> "none"]
    /\ logs = [b \in Builds |-> [at |-> "idle", name |-> "base"]]

-----------------------------------------------------------------------------
Goto(b, phase) == /\ pc' = [pc EXCEPT ![b] = phase]
                  /\ expired' = [expired EXCEPT ![b] = FALSE]
Return(b, message) == /\ Goto(b, "unwind")
                      /\ outcome' = [outcome EXCEPT ![b] = message]
Register(b, d) == defers' = [defers EXCEPT ![b] = @ \cup {d}]
Warn(b, w) == warned' = [warned EXCEPT ![b] = @ \cup {w}]
Deleted(r, names) == [art EXCEPT ![r] =
    [n \in ArtifactNames |-> IF n \in names /\ Listed(r, n) THEN "deleted" ELSE @[n]]]

\* FindWorkflowRunByBuildID: the run whose title carries exactly this build ID.
RunOfAnyBuild(b, r) == run[r].status # "absent"  \* mutant: titles are not compared
RunOfBuildID(b, r) == run[r].status # "absent" /\ run[r].title = b

-----------------------------------------------------------------------------
\* Calls that succeed, in the order of buildCentral.

\* Validate the configuration and the identity, verify the remote, and commit
\* the working tree; nothing is registered yet.
Prepare(b) ==
    /\ pc[b] = "prepare"
    /\ \/ Goto(b, "push") /\ UNCHANGED outcome
       \/ Return(b, "unprepared")
    /\ UNCHANGED <<hubVars, runID, concl, chosen, defers, ctxDone, warned, logs>>

Push(b) ==
    /\ pc[b] = "push" /\ ~ctxDone[b]
    /\ refs' = [refs EXCEPT ![b] = "pushed"]
    /\ Register(b, "lease")
    /\ Goto(b, "trigger")
    /\ UNCHANGED <<op, accepted, run, art, published, runID, concl, chosen, ctxDone, warned, outcome, logs>>

TriggerWorkflow(b) ==
    /\ pc[b] = "trigger" /\ ~ctxDone[b]
    /\ accepted' = accepted \cup {b}
    /\ Register(b, "cancel")
    /\ Goto(b, "waitStart")
    /\ UNCHANGED <<op, refs, run, art, published, runID, concl, chosen, ctxDone, warned, outcome, logs>>

PollForWorkflowStart(b) ==
    /\ pc[b] = "waitStart" /\ ~ctxDone[b]
    /\ \E r \in RunIds : RunOfBuildID(b, r) /\ runID' = [runID EXCEPT ![b] = r]
    /\ Goto(b, "waitDone")
    /\ UNCHANGED <<hubVars, concl, chosen, defers, ctxDone, warned, outcome, logs>>

\* A completed run is no longer cancelled by the deferred cleanup.
PollForWorkflowCompletion(b) ==
    /\ pc[b] = "waitDone" /\ ~ctxDone[b]
    /\ run[runID[b]].status = "completed"
    /\ concl' = [concl EXCEPT ![b] = run[runID[b]].conclusion]
    /\ defers' = [defers EXCEPT ![b] = @ \ {"cancel"}]
    /\ Goto(b, "findBase")
    /\ UNCHANGED <<hubVars, runID, chosen, ctxDone, warned, outcome, logs>>

PollForBaseArtifact(b) ==
    /\ pc[b] = "findBase" /\ ~ctxDone[b]
    /\ Listed(runID[b], "base")
    /\ Register(b, "base")
    /\ Goto(b, IF Signed(op[b]) THEN "findTrusted" ELSE "download")
    /\ UNCHANGED <<hubVars, runID, concl, chosen, ctxDone, warned, outcome, logs>>

\* One lookup, not a poll: an intermediate that is not listed is not deleted.
FindTrustedArtifact(b) ==
    /\ pc[b] = "findTrusted" /\ ~ctxDone[b]
    /\ IF Listed(runID[b], "trusted") THEN Register(b, "trusted") ELSE UNCHANGED defers
    /\ Goto(b, "findResult")
    /\ UNCHANGED <<hubVars, runID, concl, chosen, ctxDone, warned, outcome, logs>>

\* Mutant: base stands in for the result of a successful run too.
FallBackToBase(b) ==
    /\ pc[b] = "findResult" /\ ~ctxDone[b]
    /\ IF Listed(runID[b], ResultName(op[b]))
         THEN /\ chosen' = [chosen EXCEPT ![b] = ResultName(op[b])]
              /\ Register(b, "result")
         ELSE UNCHANGED <<chosen, defers>>
    /\ Goto(b, "download")
    /\ UNCHANGED <<hubVars, runID, concl, ctxDone, warned, outcome, logs>>

\* Mutant: the result of a failed run is not looked for.
SkipFailedResult(b) ==
    /\ pc[b] = "findResult" /\ ~ctxDone[b]
    /\ IF concl[b] = "success"
         THEN /\ Listed(runID[b], ResultName(op[b]))
              /\ chosen' = [chosen EXCEPT ![b] = ResultName(op[b])]
              /\ Register(b, "result")
         ELSE UNCHANGED <<chosen, defers>>
    /\ Goto(b, "download")
    /\ UNCHANGED <<hubVars, runID, concl, ctxDone, warned, outcome, logs>>

\* A successful run must have published its result, so it is polled for; a
\* failed one may have, so it is looked up once and base stands in for it.
FindResultArtifact(b) ==
    /\ pc[b] = "findResult" /\ ~ctxDone[b]
    /\ LET n == ResultName(op[b]) IN
       IF Listed(runID[b], n)
         THEN /\ chosen' = [chosen EXCEPT ![b] = n]
              /\ Register(b, "result")
         ELSE /\ concl[b] # "success"
              /\ UNCHANGED <<chosen, defers>>
    /\ Goto(b, "download")
    /\ UNCHANGED <<hubVars, runID, concl, ctxDone, warned, outcome, logs>>

\* Download, digest check and member allowlist; somebody may have deleted it.
DownloadCentralArtifact(b) ==
    /\ pc[b] = "download" /\ ~ctxDone[b]
    /\ IF Listed(runID[b], chosen[b])
         THEN Goto(b, "deliver") /\ UNCHANGED outcome
         ELSE Return(b, "undelivered")
    /\ UNCHANGED <<hubVars, runID, concl, chosen, defers, ctxDone, warned, logs>>

\* Decrypt and write the result, or the diagnostics of a run that failed.
Deliver(b) ==
    /\ pc[b] = "deliver"
    /\ Return(b, IF concl[b] = "success" THEN "delivered" ELSE "failed")
    /\ UNCHANGED <<hubVars, runID, concl, chosen, defers, ctxDone, warned, logs>>

-----------------------------------------------------------------------------
\* What buildCentral does when the call of its phase returns an error.  A call
\* whose answer is lost may have taken effect all the same.
GiveUp(b) ==
    /\ CASE pc[b] \in {"push", "trigger"} ->
              Return(b, IF pc[b] = "push" THEN "unprepared" ELSE "untriggered")
         [] pc[b] = "waitStart" -> Return(b, "notStarted")
         [] pc[b] = "waitDone" -> Return(b, "notCompleted")
         [] pc[b] = "findBase" -> Return(b, "unavailable")
         [] pc[b] = "findTrusted" -> Goto(b, "findResult") /\ UNCHANGED outcome
         [] pc[b] = "findResult" ->
              IF concl[b] = "success" THEN Return(b, "unavailable")
                                      ELSE Goto(b, "download") /\ UNCHANGED outcome
         [] pc[b] \in {"download", "deliver"} -> Return(b, "undelivered")
    /\ refs' \in {refs} \cup (IF pc[b] = "push" THEN {[refs EXCEPT ![b] = "pushed"]} ELSE {})
    /\ accepted' \in {accepted} \cup (IF pc[b] = "trigger" THEN {accepted \cup {b}} ELSE {})
    /\ UNCHANGED <<op, run, art, published, runID, concl, chosen, defers, ctxDone, warned, logs>>

\* Mutant: the polls have no deadline of their own.
OnlyContextEnds(b) == ctxDone[b] /\ pc[b] \in Foreground \ {"prepare", "deliver"} /\ GiveUp(b)

\* The build's context is done, or the poll's own deadline has passed.
TimesOut(b) ==
    /\ \/ ctxDone[b] /\ pc[b] \in Foreground \ {"prepare", "deliver"}
       \/ expired[b] /\ pc[b] \in ForegroundPolls
    /\ GiveUp(b)

CallFails(b) ==
    /\ Unreliable
    /\ pc[b] \in Foreground \ {"prepare"}
    /\ GiveUp(b)

-----------------------------------------------------------------------------
\* The deferred cleanups, last registered first, each under its own context:
\* an interrupt does not reach them, and their errors are warnings only.
RankFirstToLast == [lease |-> 5, cancel |-> 4, base |-> 3, trusted |-> 2, result |-> 1]  \* mutant
Rank == [lease |-> 1, cancel |-> 2, base |-> 3, trusted |-> 4, result |-> 5]
Latest(b, d) == d \in defers[b] /\ \A e \in defers[b] : Rank[e] <= Rank[d]
Drop(b, d) == defers' = [defers EXCEPT ![b] = @ \ {d}]

DeferredName(b, d) == IF d = "result" THEN chosen[b] ELSE d

\* deleteCentralArtifact: an artifact that is gone already counts as deleted.
DeleteCentralArtifact(b) ==
    /\ pc[b] = "unwind"
    /\ \E d \in {"base", "trusted", "result"} :
          /\ Latest(b, d)
          /\ Drop(b, d)
          /\ LET after == Deleted(runID[b], {DeferredName(b, d)}) IN
             \/ art' = after /\ UNCHANGED warned
             \/ Unreliable /\ art' \in {art, after} /\ Warn(b, d)
    /\ UNCHANGED <<op, refs, accepted, run, published, pc, runID, concl, chosen, ctxDone, expired, outcome, logs>>

\* deleteSnapshotLease: only a ref that still holds the pushed commit goes.
DeleteSnapshotLease(b) ==
    /\ pc[b] = "unwind"
    /\ Latest(b, "lease")
    /\ Drop(b, "lease")
    /\ LET after == [refs EXCEPT ![b] = "absent"] IN
       \/ refs' = after /\ UNCHANGED warned
       \/ Unreliable /\ refs' \in {refs, after} /\ Warn(b, "lease")
    /\ UNCHANGED <<op, accepted, run, art, published, pc, runID, concl, chosen, ctxDone, expired, outcome, logs>>

\* Mutant: nothing is cancelled unless the run has been found already.
OnlyKnownRun(b) ==
    /\ pc[b] = "unwind"
    /\ Latest(b, "cancel")
    /\ IF runID[b] = NoRun THEN Goto(b, "unwind") /\ Drop(b, "cancel")
                           ELSE Goto(b, "cancel") /\ UNCHANGED defers
    /\ UNCHANGED <<hubVars, runID, concl, chosen, ctxDone, warned, outcome, logs>>

\* cancelCentralRun when the run is known, cancelCentralRunByBuildID when not.
StartCancel(b) ==
    /\ pc[b] = "unwind"
    /\ Latest(b, "cancel")
    /\ Goto(b, IF runID[b] = NoRun THEN "locate" ELSE "cancel")
    /\ UNCHANGED <<hubVars, runID, concl, chosen, defers, ctxDone, warned, outcome, logs>>

\* Wait for the dispatched run to be listed; without it nothing can be cancelled.
LocateDispatchedRun(b) ==
    /\ pc[b] = "locate"
    /\ \/ /\ \E r \in RunIds : RunOfBuildID(b, r) /\ runID' = [runID EXCEPT ![b] = r]
          /\ Goto(b, "cancel")
          /\ UNCHANGED <<defers, warned>>
       \/ /\ expired[b] \/ Unreliable
          /\ Warn(b, "locate")
          /\ Drop(b, "cancel")
          /\ Goto(b, "unwind")
          /\ UNCHANGED runID
    /\ UNCHANGED <<hubVars, concl, chosen, ctxDone, outcome, logs>>

\* A run that has already finished answers 409, which is not an error.
CancelWorkflowRun(b) ==
    /\ pc[b] = "cancel"
    /\ LET after == IF Live(runID[b]) THEN [run EXCEPT ![runID[b]].stopping = TRUE] ELSE run IN
       \/ run' = after /\ UNCHANGED warned
       \/ Unreliable /\ run' \in {run, after} /\ Warn(b, "cancel")
    /\ Goto(b, "confirm")
    /\ UNCHANGED <<op, refs, accepted, art, published, runID, concl, chosen, defers, ctxDone, outcome, logs>>

\* Mutant: the artifacts are deleted as soon as cancellation was requested.
ConfirmNothing(b) ==
    /\ pc[b] = "confirm"
    /\ Goto(b, "purge")
    /\ UNCHANGED <<hubVars, runID, concl, chosen, defers, ctxDone, warned, outcome, logs>>

\* Wait for the run to be over before its artifacts are deleted.
ConfirmStopped(b) ==
    /\ pc[b] = "confirm"
    /\ \/ run[runID[b]].status = "completed" /\ UNCHANGED warned
       \/ (expired[b] \/ Unreliable) /\ Warn(b, "confirm")
    /\ Goto(b, "purge")
    /\ UNCHANGED <<hubVars, runID, concl, chosen, defers, ctxDone, outcome, logs>>

\* deleteCentralBuildArtifacts: the ad hoc result is not among its names.
NamesWithoutDeploy == {"base", "trusted"}  \* mutant
PurgedNames == {"base", "trusted", "deploy"}

DeleteCentralBuildArtifacts(b) ==
    /\ pc[b] = "purge"
    /\ \/ art' = Deleted(runID[b], PurgedNames) /\ UNCHANGED warned
       \/ /\ Unreliable
          /\ \E names \in SUBSET PurgedNames : art' = Deleted(runID[b], names)
          /\ Warn(b, "purge")
    /\ Drop(b, "cancel")
    /\ Goto(b, "unwind")
    /\ UNCHANGED <<op, refs, accepted, run, published, runID, concl, chosen, ctxDone, outcome, logs>>

Exit(b) ==
    /\ pc[b] = "unwind" /\ defers[b] = {}
    /\ Goto(b, "done")
    /\ UNCHANGED <<hubVars, runID, concl, chosen, defers, ctxDone, warned, outcome, logs>>

CleanupStep(b) == \/ DeleteCentralArtifact(b) \/ DeleteSnapshotLease(b) \/ StartCancel(b)
                  \/ LocateDispatchedRun(b) \/ CancelWorkflowRun(b) \/ ConfirmStopped(b) \/ DeleteCentralBuildArtifacts(b) \/ Exit(b)

-----------------------------------------------------------------------------
\* `builder ios logs <build-id>`: the deployment's artifact if it is listed,
\* else the build job's; it is deleted once the log has been saved.  Nothing
\* here asks whether the run is over.
LogsFind(b) ==
    /\ b \in LogReaders /\ logs[b].at = "idle"
    /\ \E r \in RunIds, n \in {"base", "deploy"} :
          /\ RunOfBuildID(b, r)
          /\ Listed(r, n)
          /\ n = "base" => ~Listed(r, "deploy") \/ Unreliable
          /\ logs' = [logs EXCEPT ![b] = [at |-> "found", name |-> n]]
    /\ UNCHANGED <<hubVars, cliVars>>

LogsSave(b) ==
    /\ logs[b].at = "found"
    /\ \E r \in RunIds :
          /\ RunOfBuildID(b, r)
          /\ logs' = [logs EXCEPT ![b].at = IF Listed(r, logs[b].name) THEN "saved" ELSE "done"]
    /\ UNCHANGED <<hubVars, cliVars>>

LogsDelete(b) ==
    /\ logs[b].at = "saved"
    /\ \E r \in RunIds : RunOfBuildID(b, r) /\ art' = Deleted(r, {logs[b].name})
    /\ logs' = [logs EXCEPT ![b].at = "done"]
    /\ UNCHANGED <<op, refs, accepted, run, published, cliVars>>

LogsStep(b) == LogsFind(b) \/ LogsSave(b) \/ LogsDelete(b)

-----------------------------------------------------------------------------
\* The environment: a deadline passes, the user interrupts, the process is killed.
Expire(b) ==
    /\ pc[b] \in ForegroundPolls \cup CleanupPolls
    /\ pc[b] = "findResult" => concl[b] = "success"
    /\ ~expired[b]
    /\ expired' = [expired EXCEPT ![b] = TRUE]
    /\ UNCHANGED <<hubVars, pc, runID, concl, chosen, defers, ctxDone, warned, outcome, logs>>

Interrupt(b) ==
    /\ pc[b] \in Foreground
    /\ ~ctxDone[b]
    /\ ctxDone' = [ctxDone EXCEPT ![b] = TRUE]
    /\ UNCHANGED <<hubVars, pc, runID, concl, chosen, defers, expired, warned, outcome, logs>>

Crash(b) ==
    /\ pc[b] \notin {"prepare", "done", "crashed"}
    /\ Goto(b, "crashed")
    /\ UNCHANGED <<hubVars, runID, concl, chosen, defers, ctxDone, warned, outcome, logs>>

\* What the process does as long as it is scheduled and its calls return.
CliStep(b) ==
    \/ Prepare(b) \/ Push(b) \/ TriggerWorkflow(b) \/ PollForWorkflowStart(b) \/ PollForWorkflowCompletion(b)
    \/ PollForBaseArtifact(b) \/ FindTrustedArtifact(b) \/ FindResultArtifact(b) \/ DownloadCentralArtifact(b) \/ Deliver(b)
    \/ TimesOut(b) \/ CleanupStep(b)

Next == \/ HubNext /\ UNCHANGED <<cliVars, logs>>
        \/ \E b \in Builds : \/ CliStep(b) \/ CallFails(b) \/ LogsStep(b)
                             \/ Expire(b) \/ Interrupt(b) \/ Crash(b)

Spec == Init /\ [][Next]_vars

\* The process is scheduled and time passes.  Nothing is assumed of GitHub.
FairSpec == Spec /\ \A b \in Builds : WF_vars(CliStep(b)) /\ WF_vars(Expire(b))

-----------------------------------------------------------------------------
(***************************************************************************)
(* Properties                                                              *)
(***************************************************************************)
RunsOf(b) == {r \in RunIds : run[r].title = b}
Dispatched(b) == outcome[b] \notin {"none", "unprepared", "untriggered"}

\* A dispatched build that has returned without a warning left nothing running:
\* its run is over, and none is still to be created.  (buildCentral's deferred
\* cancellation; a dispatch whose answer was lost is reported as untriggered.)
NoSilentRun ==
    \A b \in Builds :
        pc[b] = "done" /\ Dispatched(b) /\ warned[b] = {}
            => b \notin accepted /\ \A r \in RunsOf(b) : run[r].status = "completed"

\* The snapshot ref is not taken away from a run that still has to check it
\* out, unless the CLI warned that it could not stop that run.  (The order of
\* the defers: the lease is released after the cancellation.)
SnapshotOutlivesFetch ==
    \A b \in Builds : \A r \in RunsOf(b) :
        Live(r) /\ run[r].job = "build" /\ run[r].step = "input" /\ refs[b] = "absent"
            => warned[b] # {} \/ outcome[b] = "untriggered"

\* What the caller is given is what the run produced: a delivery means that the
\* run succeeded, that a TestFlight app reached App Store Connect, and that the
\* artifact opened is the signing job's own whenever there is one.
DeliveryIsReal ==
    \A b \in Builds : outcome[b] = "delivered" =>
        /\ run[runID[b]].title = b
        /\ run[runID[b]].conclusion = "success"
        /\ op[b] = "testflight" => runID[b] \in published
        /\ Signed(op[b]) => chosen[b] = ResultName(op[b])

\* The build's cleanup has run to its end for a caller that was not interrupted
\* while retrieving the result of a completed run.
CleanupCompleted(b) ==
    /\ pc[b] = "done" /\ warned[b] = {}
    /\ \/ outcome[b] \in {"notStarted", "notCompleted"}
       \/ outcome[b] \in {"undelivered", "failed", "delivered"} /\ ~ctxDone[b]

\* Completed cleanup leaves neither artifacts nor the snapshot ref behind
\* (README.md:40, "are deleted early when the caller completes cleanup").
CleanExit ==
    \A b \in Builds : CleanupCompleted(b) =>
        /\ refs[b] = "absent"
        /\ \A r \in RunsOf(b), n \in ArtifactNames : ~Present(r, n)

\* The log saved for a failed run is the one uploaded by the job that failed,
\* if that job uploaded one (README.md:317, "A failure automatically downloads
\* and decrypts diagnostics").
FailureLogIsFailingJobs ==
    \A b \in Builds : outcome[b] = "failed" =>
        LET r == runID[b]
            n == DiagnosticOf(op[b], run[r].job) IN
        art[r][n] # "none" => chosen[b] = n

\* After an interrupted retrieval the artifact is still there, so that
\* `builder ios logs` can be tried again (README.md:317).
RetrievalCanBeRetried ==
    \A b \in Builds :
        pc[b] = "done" /\ outcome[b] = "undelivered" /\ ctxDone[b]
            => Listed(runID[b], chosen[b])

\* A step of one build's CLI touches no run and no artifact of another build
\* (FindWorkflowRunByBuildID: "concurrent builds cannot pick up each other's runs").
OnlyOwnRun ==
    [][\A b \in Builds : pc'[b] # pc[b] \/ defers'[b] # defers[b] =>
          \A r \in RunIds : run[r].title # b => run'[r] = run[r] /\ art'[r] = art[r]]_vars

\* buildCentral deletes an artifact only once its run is over, or after warning
\* that it could not confirm that: a running job never loses its input to it.
DeleteAfterStop ==
    [][\A b \in Builds : pc'[b] # pc[b] \/ defers'[b] # defers[b] =>
          \A r \in RunIds : art'[r] # art[r] =>
              run[r].status = "completed" \/ "confirm" \in warned[b]]_vars

\* Whatever GitHub does, the command returns: every wait ends at a deadline.
Returns == \A b \in Builds : <>(pc[b] \in {"done", "crashed"})

-----------------------------------------------------------------------------
(***************************************************************************)
(* The inductive invariant behind NoSilentRun and SnapshotOutlivesFetch.   *)
(***************************************************************************)
\* Nothing of the build runs, and nothing of it is still to be started.
Over(b) == b \notin accepted /\ \A r \in RunsOf(b) : run[r].status = "completed"

\* A dispatch becomes at most one run, and a run ID is adopted by its own build.
Identified(b) ==
    /\ \A r \in RunsOf(b) : run[r].status # "absent"
    /\ \A r \in RunsOf(b), s \in RunsOf(b) : r = s
    /\ b \in accepted => RunsOf(b) = {}
    /\ runID[b] \in RunIds => runID[b] \in RunsOf(b)

\* What buildCentral has and has not done yet, by phase.
Phased(b) ==
    /\ pc[b] \in Foreground => outcome[b] = "none"
    /\ pc[b] \in Cleanup => outcome[b] # "none"
    /\ pc[b] = "trigger" => refs[b] = "pushed"
    /\ pc[b] = "done" => defers[b] = {}
    /\ pc[b] \in {"waitStart", "waitDone"} => "cancel" \in defers[b]
    /\ pc[b] \in {"prepare", "push", "trigger"} \/ outcome[b] = "unprepared"
          => b \notin accepted /\ RunsOf(b) = {}

\* A run is adopted before the CLI asks it anything.
Retrieval == {"findBase", "findTrusted", "findResult", "download", "deliver"}
AdoptedPhases == Retrieval \cup {"waitDone", "cancel", "confirm", "purge"}
Adopted == \A b \in Builds : pc[b] \in AdoptedPhases => runID[b] \in RunIds

\* The deferred cancellation is gone only when there is nothing left to cancel,
\* or after a warning.
Settled(b) ==
    ( \/ pc[b] \in Retrieval
      \/ pc[b] = "purge" /\ warned[b] = {}
      \/ Dispatched(b) /\ "cancel" \notin defers[b] /\ warned[b] = {} ) => Over(b)

\* The snapshot ref is absent only while no run needs it, or after a warning.
Released(b) == refs[b] = "absent" => Over(b) \/ warned[b] # {} \/ outcome[b] = "untriggered"

BuildInv(b) == Identified(b) /\ Phased(b) /\ Settled(b) /\ Released(b)

\* The builds' bookkeeping and GitHub's agree: the strengthening that makes the
\* two properties inductive.
IInv == TypeOK /\ Adopted /\ \A b \in Builds : BuildInv(b)
=============================================================================
