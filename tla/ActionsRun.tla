----------------------------- MODULE ActionsRun -----------------------------
(***************************************************************************)
(* The remote side of a central build: the workflow runs that GitHub       *)
(* creates from dispatches of .github/workflows/ios-build.yml, the jobs    *)
(* each run goes through, the artifacts the jobs upload, and the private   *)
(* snapshot ref the first job checks out.                                  *)
(*                                                                         *)
(* The module has the state and the actions of that side only; the builder *)
(* CLI that dispatches, polls, cancels and cleans up is CentralBuild, which*)
(* extends it.                                                             *)
(***************************************************************************)
EXTENDS FiniteSets

CONSTANTS
    Builds,     \* build IDs: one per invocation of `builder ios build|deploy|...`
    RunIds,     \* identifiers GitHub may give to workflow runs
    NoBuild,    \* the title of a run that does not exist
    IndexLag    \* TRUE: an uploaded artifact may be listed only some time later

ASSUME BuildAssumption == NoBuild \notin Builds
ASSUME LagAssumption == IndexLag \in BOOLEAN

VARIABLES
    op,         \* build -> the operation among its dispatch inputs
    refs,       \* build -> whether its snapshot ref exists in the private remote
    accepted,   \* dispatches GitHub accepted but has not turned into a run yet
    run,        \* run ID -> the workflow run
    art,        \* run ID -> artifact name -> where the artifact is in its life
    published   \* runs that put an app on App Store Connect

hubVars == <<op, refs, accepted, run, art, published>>

(***************************************************************************)
(* Names.  A run has at most one artifact of each name: base is            *)
(* ios-builder-ID, trusted, deploy and adhoc are ios-builder-trusted-ID    *)
(* and so on.                                                              *)
(***************************************************************************)
Operations == {"build", "test", "screenshots", "testflight", "adhoc"}
Signed(o) == o \in {"testflight", "adhoc"}

ArtifactNames == {"base", "trusted", "deploy", "adhoc"}
ArtifactState == {"none", "lagging", "visible", "deleted"}

Jobs == {"build", "package", "sign"}
Steps == {"input", "work", "uploadResult", "uploadDiagnostic"}
Conclusions == {"none", "success", "failure", "cancelled"}

Run == [title      : Builds \cup {NoBuild},
        status     : {"absent", "queued", "in_progress", "completed"},
        conclusion : Conclusions,
        job        : Jobs,
        step       : Steps,
        stopping   : BOOLEAN]

AbsentRun == [title |-> NoBuild, status |-> "absent", conclusion |-> "none",
              job |-> "build", step |-> "input", stopping |-> FALSE]

HubTypeOK ==
    /\ op \in [Builds -> Operations]
    /\ refs \in [Builds -> {"absent", "pushed"}]
    /\ accepted \subseteq Builds
    /\ run \in [RunIds -> Run]
    /\ art \in [RunIds -> [ArtifactNames -> ArtifactState]]
    /\ published \subseteq RunIds

HubInit(ops) ==
    /\ op \in [Builds -> ops]
    /\ refs = [b \in Builds |-> "absent"]
    /\ accepted = {}
    /\ run = [r \in RunIds |-> AbsentRun]
    /\ art = [r \in RunIds |-> [n \in ArtifactNames |-> "none"]]
    /\ published = {}

-----------------------------------------------------------------------------
OpOf(r) == op[run[r].title]
Live(r) == run[r].status \in {"queued", "in_progress"}
Present(r, n) == art[r][n] \in {"lagging", "visible"}
Listed(r, n) == art[r][n] = "visible"

\* The artifact the signing job of a signed operation hands to the caller.
ResultName(o) == IF o = "adhoc" THEN "adhoc" ELSE "deploy"

\* What a job uploads when its payload worked, and when it did not.  The
\* packaging job names its diagnostic "deploy" whichever operation it serves.
ResultOf(o, j) == CASE j = "build" -> "base"
                    [] j = "package" -> "trusted"
                    [] j = "sign" -> ResultName(o)
DiagnosticOf(o, j) == CASE j = "build" -> "base"
                        [] j = "package" -> "deploy"
                        [] j = "sign" -> ResultName(o)

\* The first step of a job downloads what the job works on.
InputReady(r) == CASE run[r].job = "build" -> refs[run[r].title] = "pushed"
                   [] run[r].job = "package" -> Present(r, "base")
                   [] run[r].job = "sign" -> Present(r, "trusted")

Concluded(r, c) == [run EXCEPT ![r].status = "completed", ![r].conclusion = c]
Uploaded(r, n) == [art EXCEPT ![r][n] = IF IndexLag THEN "lagging" ELSE "visible"]

-----------------------------------------------------------------------------
\* GitHub turns an accepted dispatch into a queued run whose title is the build ID.
CreateRun(b) ==
    /\ b \in accepted
    /\ \E r \in RunIds :
          /\ run[r].status = "absent"
          /\ run' = [run EXCEPT ![r] = [AbsentRun EXCEPT !.title = b, !.status = "queued"]]
    /\ accepted' = accepted \ {b}
    /\ UNCHANGED <<op, refs, art, published>>

\* A runner picks the run up.
Begin(r) ==
    /\ run[r].status = "queued"
    /\ run' = [run EXCEPT ![r].status = "in_progress"]
    /\ UNCHANGED <<op, refs, accepted, art, published>>

\* The job's checkout or download: a missing input, or a fault of the runner
\* (toolchain, token, timeout-minutes), ends the run before anything is uploaded.
FetchInput(r) ==
    /\ run[r].status = "in_progress"
    /\ run[r].step = "input"
    /\ \/ /\ InputReady(r)
          /\ run' = [run EXCEPT ![r].step = "work"]
       \/ run' = Concluded(r, "failure")
    /\ UNCHANGED <<op, refs, accepted, art, published>>

\* The payload of the job: compile, package or sign.  A TestFlight deployment
\* reaches Apple before its last steps, which can still fail.
Work(r) ==
    /\ run[r].status = "in_progress"
    /\ run[r].step = "work"
    /\ \E ok \in BOOLEAN, reached \in BOOLEAN :
          /\ ok => reached
          /\ run' = [run EXCEPT ![r].step = IF ok THEN "uploadResult" ELSE "uploadDiagnostic"]
          /\ published' = IF run[r].job = "sign" /\ OpOf(r) = "testflight" /\ reached
                          THEN published \cup {r} ELSE published
    /\ UNCHANGED <<op, refs, accepted, art>>

\* The job publishes what it produced and the next job, if any, starts.
UploadResult(r) ==
    /\ run[r].status = "in_progress"
    /\ run[r].step = "uploadResult"
    /\ art' = Uploaded(r, ResultOf(OpOf(r), run[r].job))
    /\ run' = IF Signed(OpOf(r)) /\ run[r].job # "sign"
              THEN [run EXCEPT ![r].step = "input",
                               ![r].job = IF @ = "build" THEN "package" ELSE "sign"]
              ELSE Concluded(r, "success")
    /\ UNCHANGED <<op, refs, accepted, published>>

\* A failed payload still leaves an encrypted log, and then the job fails.
UploadDiagnostic(r) ==
    /\ run[r].status = "in_progress"
    /\ run[r].step = "uploadDiagnostic"
    /\ art' = Uploaded(r, DiagnosticOf(OpOf(r), run[r].job))
    /\ run' = Concluded(r, "failure")
    /\ UNCHANGED <<op, refs, accepted, published>>

\* The upload itself fails, so the job's report step fails the run.
UploadFails(r) ==
    /\ run[r].status = "in_progress"
    /\ run[r].step \in {"uploadResult", "uploadDiagnostic"}
    /\ run' = Concluded(r, "failure")
    /\ UNCHANGED <<op, refs, accepted, art, published>>

\* GitHub acts on a cancellation request.  The upload steps of the build and
\* signing jobs run even then (if: always()), when there is something to upload.
Stop(r) ==
    /\ Live(r)
    /\ run[r].stopping
    /\ run' = Concluded(r, "cancelled")
    /\ \/ UNCHANGED art
       \/ /\ run[r].job # "package"
          /\ run[r].step # "input"
          /\ art' = Uploaded(r, DiagnosticOf(OpOf(r), run[r].job))
    /\ UNCHANGED <<op, refs, accepted, published>>

\* An uploaded artifact enters the run's artifact listing.
Index(r, n) ==
    /\ art[r][n] = "lagging"
    /\ art' = [art EXCEPT ![r][n] = "visible"]
    /\ UNCHANGED <<op, refs, accepted, run, published>>

RunStep(r) == \/ Begin(r) \/ FetchInput(r) \/ Work(r) \/ UploadResult(r)
              \/ UploadDiagnostic(r) \/ UploadFails(r) \/ Stop(r)
              \/ \E n \in ArtifactNames : Index(r, n)

HubNext == \/ \E b \in Builds : CreateRun(b)
           \/ \E r \in RunIds : RunStep(r)
=============================================================================
