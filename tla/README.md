# TLA+ verification of ios-builder

`builder` builds, signs, deploys and shares iOS apps on GitHub Actions from a machine
without a Mac. This directory holds TLA+ models of the program, TLC configurations that
check them on small instances, and TLAPS proofs of the properties that matter most.
Everything is translated from the code at this commit; file and line references are in
`PROJECT.json` under `map`, one entry per definition.

## The system

A command on the developer's machine (the *CLI*) commits the working tree to a throw-away
*snapshot ref* of the private repository, dispatches a GitHub Actions *run*, waits for it,
downloads what it produced, and takes away what it left behind. Two backends do this:

* **central**: the workflow lives in a public builder repository and everything that
  leaves a job is encrypted. A signed operation (TestFlight, ad hoc) goes through three
  jobs: build, trusted packaging, signing. The jobs hand each other artifacts.
* **repository**: the workflow lives in the source repository. `builder ios build`
  fetches an IPA; `builder ios share` leaves a simulator running behind it.

CLI, run, other CLIs, `builder ios logs` and `builder cleanup` share state only through
GitHub: refs, runs and artifacts. Nobody holds a lock, every call may fail before or after
taking effect, and the CLI may be interrupted or killed at any point. That is where the
hard behaviour is.

### Inventory

| Component | State it keeps | Operations | Interacts through | What is hard | What makes it correct |
|---|---|---|---|---|---|
| Central build, CLI side (`internal/build/central.go`, `progress.go`) | run ID, conclusion, registered defers, warnings | `buildCentral`, its defers, `DownloadLogs` | REST calls, git pushes | interrupts between calls, order of defers, calls whose answer is lost, late listings | nothing left running unreported; the snapshot outlives the checkout; a delivery is real; cleanup is complete |
| Central workflow (`.github/workflows/ios-build.yml`) | job and step, artifacts, conclusion | checkout, payload, upload, `if: always()` uploads, cancellation | artifacts, the private ref | failure part way, cancellation during a step | each job gets its input; the failing job's log survives |
| Workflow API client (`internal/github`) | none | dispatch, find by title, polls, cancel, list, delete | REST | deadlines, 409 and 404 answers, titles of concurrent runs | only the caller's own run is touched; every wait ends |
| Repository build and share (`coordinator.go`, `share.go`) | phase, run ID | `buildRepository`, `Share`, `PollForArtifact`, `waitForShareStep` | REST calls, git pushes | two-step polls, interrupt against a simulator going live | what is reported is what happened; an abandoned share is stopped |
| Private snapshots (`internal/snapshot`, `cmd/builder/cleanup.go`) | refs on the remote | create, push, delete, delete with lease, list stale, clean up | git | clocks of two machines, refs replaced between look and deletion | live snapshots are spared; a clean-up that succeeds is complete |
| Large-file transport (`snapshot/large_files.go`, `transport`, `runner/snapshot_transport.go`) | manifest, chunks | split on one side, restore on the other | the snapshot commit | part boundaries, limits known to one side only, failure half way | project code sees the working tree |
| Runner custody (`runner/token.go`, `input.go`, `provenance.go`, `encrypt.go`) | token, decrypted files of one job | revoke, resolve, validate, seal | the run's artifacts, `.git/config` | an error return between creating and removing a secret | project code has no token; nothing readable stays |
| Signing plan (`runner/nested*.go`, `entitlements.go`, `provenance.go`, profile selection of `deploy.go`) | the manifest, the plan; profiles of the account | plan, select, create, embed, narrow, sign | the manifest, `codesign`, App Store Connect | inside-out order, lost creations, late starts and re-runs, caps and identifiers that two jobs must agree on | every seal holds; everything is signed with its own profile; nothing gains a right |
| TestFlight publishing and the signing jobs (`runner/deploy.go`, `testflight_publish.go`, `provisioning_api.go`) | App Store Connect's builds, groups, reviews | number, upload, wait, comply, describe, attach, submit | REST | lost answers, concurrent deployments, a deadline anywhere | success means published; an offered build is installable |
| Development session (`internal/dev`) | subprocess, watcher, stdin multiplexer | start, reload, stop | goroutines, channels, pipes | debounce, full queues, goroutines left behind | no lost change; Ctrl+C and exits end the session |
| Project registry (`internal/registry`, `cmd/builder/central*.go`) | backup file, `builder.json`, a secret nobody can read | set up, register, resolve, diagnose | files, one secret | three writes of one registration, kills, lost answers, overlap | a registered project stays resolvable; the backup holds the secret |
| Authentication (`internal/auth`) | token file | device-flow polling, storage | REST, file | slow_down, expiry | terminates; stores only granted tokens |
| Self-update (`internal/update`) | the executable | download, verify, replace, roll back | file system | failure between two renames | an executable always remains |
| Payload of build, test and screenshot jobs (`runner/build.go`, `screenshots.go`, `simulator_tests.go`, tool helpers) | workspace | external tools | argument lists, output | the tools | – |
| Encryption (`internal/security`) | none | age framing | – | cryptography | outside TLA+ |
| Device sessions (`internal/mobai`), configuration, detection, IPA checks, other commands, `pkg` | none that outlives a call | REST wrapper, parsing, scanning | – | – | ordinary tests reach it |

`PROJECT.json` lists all of them with their status; the `hazards` list names, line by line,
what a test would hardly reach and which property covers it.

## Modules

| Module | Models | Extends |
|---|---|---|
| `ActionsRun` | GitHub's side of a central build: dispatches, runs, jobs, artifacts, the ref | – |
| `CentralBuild` | the CLI of a central build against it, and `builder ios logs` | `ActionsRun` |
| `RepositoryBuild` | `buildRepository` and `Share`, each against its run | – |
| `SnapshotRefs` | the refs of one private repository, with measured time and `builder cleanup` | – |
| `SnapshotTransport` | what a snapshot contains: split, push, checkout, token, restoration | – |
| `SigningPlan` | what the signing job signs, in which order, with which profiles and entitlements | – |
| `Publication` | what a TestFlight deployment promises | – |
| `Deployment` | the signing jobs and App Store Connect; implements `Publication` | `INSTANCE Publication` |
| `DevSession` | a development session with its goroutines, pipe, watcher and subprocess | – |
| `Registration` | the registrations of one machine: backup, `builder.json`, secret, doctor | – |
| `CentralBuildProofs`, `RepositoryBuildProofs`, `SnapshotRefsProofs`, `SnapshotTransportProofs`, `SigningPlanProofs`, `DeploymentProofs`, `DevSessionProofs`, `RegistrationProofs` | theorems about the modules they name | those, `TLAPS` and its libraries of facts |
| `MC...` | instances and symmetry for TLC | the module they name |

The modules follow one build from the developer's machine to the tester: `Registration` makes the
project known; `SnapshotTransport` and `SnapshotRefs` are the contents and the life of its snapshot;
`CentralBuild` with `ActionsRun`, or `RepositoryBuild`, run it; `SigningPlan` and `Deployment` are inside the
jobs that `ActionsRun` shows as one `Work` step each.

### ActionsRun and CentralBuild

`ActionsRun` has the six variables of the remote side. A dispatch is first `accepted` and
becomes a run later (`CreateRun`), because the API answers before the run exists. A run
has a current job (build, package, sign) and, in it, one of four steps: fetch the input,
work, upload the result, upload the diagnostic. `Stop` is GitHub acting on a cancellation;
the `if: always()` uploads of the build and signing jobs may still happen then, the
packaging job has none. With `IndexLag` an artifact is listed only some time after its
upload, as the retries of the client expect. Names of artifacts are reduced to the four
prefixes; a result and a diagnostic of one job share a name exactly where the workflow
does that.

`CentralBuild` has one action per call of `buildCentral`, in its order: `Prepare`, `Push`,
`TriggerWorkflow`, the polls, `FindTrustedArtifact`, `FindResultArtifact`,
`DownloadCentralArtifact`, `Deliver`. `defers[b]` is the set of registered defers; they run
from the highest `Rank` (last registered) down, each under a context of its own, so `Interrupt`
does not reach them; their own polls may `Expire`. The deferred cancellation is the longest:
locate the run if it was never listed, request the cancellation, wait for the run to end,
delete the artifacts. `TimesOut` and `CallFails` share `GiveUp`, which holds the error
return of each phase. A failing call may have taken effect (a push, a dispatch, a
cancellation, a deletion). `Crash` is a killed process, which runs no defer. `LogsFind`,
`LogsSave` and `LogsDelete` are `builder ios logs`, which may run at any time, also while
the build is in flight.

### RepositoryBuild

Here `kind[b]` chooses between the two commands, which share their first steps. The run
has a step (checkout, compile, then upload or share, then what follows). A build polls in
two calls, `FindIPA` then `CheckRun`, as `PollForArtifact` does; the run moves between them.
A share polls with `Watch` and `CheckShare`, as `waitForShareStep` does; `Grace` is the half
minute in which an interrupt means "done". `Return` decides whether a deferred deletion
runs: only a build that pushed has one. A run is found by its exact title, so the builds
share no state at all, and one build per instance loses nothing; which run belongs to which
build is the subject of `CentralBuild` (`RunOfBuildID`, `OnlyOwnRun`).

### SnapshotRefs

Whether a snapshot is stale is decided from timestamps, so this module measures time.
`cli[b]` is a CLI that pushes: a central build (deletes its ref if it still holds its
commit), a repository build (deletes it by name), a share (leaves it), or a foreign commit
under a snapshot's name. A commit is named by the CLI that made it. `sweep[c]` is one
`builder cleanup`: it reads the clock once, lists the refs, inspects them one at a time,
then deletes the stale ones one at a time, and stops at the first error. The model allows
two CLIs to use the same ID, which the code makes improbable rather than impossible; that is
what makes the lease of `DeleteLease` matter.

Choices to know about: `Timeout` includes the seconds of deferred cleanup that follow a
CLI's context; `Tick` does not pass the deadline of a living CLI, which assumes that its
process is not suspended; the order of the listing is abstracted to any order.

### SnapshotTransport

A working tree is a function from paths to files. `Create` and `SplitBlob` are `snapshot.Create` with
`splitBlob`: a large entry makes way for its chunks and a line of the manifest. `Push` takes HEAD's history
along (`oversized`: whether that brings a blob over the remote's limit). Then either `CheckoutSnapshot`,
the workflows of a repository build, or the central job: `CreateToken`, `Checkout`,
`RevokeInstallationToken` (`if: always()`), `VerifyCheckoutNoCredentials`, `ReadManifest` and
`RestoreTransportFile` with every check it makes. Digests are the content itself; names, parents and
symbolic links between paths are left out.

### SigningPlan

The tree of an application is data: each entry has the directory it is in, what it is, its
place in the listing and, for a bundle, what its `Info.plist` says. `Accepted` and `Steps` are the planner
(`planNested`, `walkBundle`, the sort of leaves), `Select` the choice of a profile,
`SignedDomains` and `SignedServices` the narrowing of entitlements. The actions are those of three jobs.
In the build job `ResolveProject` refuses a signed operation without a pinned identifier and
`VerifyBuiltBundleID` compares the built application with the pin. In the packaging job `TrustedPackage` accepts the application,
writes the request and dates the manifest by its own clock, which may be `ahead` of the signing job's or behind it. In the
signing job `ValidateProvenance` checks the manifest and its age (`Timely`); `PlanSigning`, `SignCode` and
`SignBundle` work through the steps; `SignBundle` lists, may create, and embeds. Packaging and signing never
see the registry: the planner's main identifier is the application's own, and `RootOfTrust` says what that comes to
after the build job's check. The model takes the application that the build job compared for the one
it packs; the project's own code, which runs on the machine of that job, is not modelled.

`Start` lets time pass before the signing job begins (a runner, the protected environment, a user who runs it again a day
later); within a run no time passes. `Rerun` is the same job run again on the same manifest and account,
also after it was refused. The variable `broken` collects what was changed after it was signed. App Store
Connect is modelled from the requests the code makes.

### Publication and Deployment

`Publication` says what a deployment promises without any request: settle on a number, a build becomes
valid, is offered, is submitted, and success is reported only for a build that got there.
`Deployment` has one action per request or tool of `deployTestFlight`, `signAdHoc` and
`publishTestFlight`, for several jobs that share App Store Connect. `Write` gives a request that changes
something its three ends: effect and answer, neither, effect without answer. After `Expire` every
request and tool fails. `disk[j]` is what lies unencrypted on the machine. The refinement is
`Pub == INSTANCE Publication WITH None <- NoBuild, valid <- {builds whose upload is valid}`; every other
variable maps to its namesake. `Publishes` is checked as a property of `Deployment`'s `FairSpec`.

### DevSession

The command is `main`, from `setup` to `over`; `Stop(c)` is `Session.Stop` run by the command or by the
goroutine that got the signal, in its separate steps (stop the timer, test `done`, close it, stop the
multiplexer, close the connection), since the two may overlap. `conn` is open before the session knows it
(`known`). The pipe to `flutter attach` has two writers (typed keys, reload commands), and one
reader, the copier of `os/exec`, which ends at a failed write or when the pipe is closed. The watcher has a pending change, a
debounce timer and a queue that drops when full. `owed` records an edit under watch that no
reload has followed. A variant of the watcher polls; the other misses directories created under watch.

### Registration

One registration is `BeginRegister`, `LoadFile`, `Put`, `CreatePartial`, `WritePartial`, `RenamePartial`, `SaveConfig`,
`PutSecret`; `Fail` may end it at each step and `Kill` between any two, and inside the truncation of
`builder.json`. The answer of `PutSecret` may be lost (`confirmed` holds what was reported as done). A file remembers who
still writes it, because the name of the temporary file is fixed and another registration may take it away.
`Exclusive` says that registrations of the machine do not overlap: the code does not enforce it. Left out:
the directories that `builder.json` and an entry name, and the pinning of bundle identifiers. A project that is set
up again gets a new ID; its old entry stays in the registry.

## Runs

| Run | Expect | Asks |
|---|---|---|
| `central_one` | pass | one build, one run, everything that can go wrong, a log reader beside it: `IInv`, `NoSilentRun`, `SnapshotOutlivesFetch`, `DeliveryIsReal`, `DeleteAfterStop`, `Returns` |
| `central_two` | pass | two builds with calls that succeed, of which one gets a run before it gives up: `CleanExit`, `FailureLogIsFailingJobs`, `OnlyOwnRun` |
| `central_adhoc_cleanup` | violation | `CleanExit` for ad hoc signing |
| `refs_sweep` | pass | two CLIs, two IDs, one cleanup with a skewed clock: `IInv`, `CleanupIsComplete`, `ReleasesOwn` |
| `refs_two` | pass | two cleanups over one ref: `CleanupSparesLive` |
| `repo_safe` | pass | a build or a share with everything that can go wrong: `IInv`, `SourceKept`, `SharedIsShared`, `AbortedIsStopped`, `Returns` |
| `transport` | pass | both backends: `CodeSeesWorkingTree`, `RefusedForLimits`, `CredentialEnds` |
| `transport_repo` | violation | `EveryCodeSeesWorkingTree` for the repository backend |
| `sign_plan` | pass | whole, spoilt, odd and wrongly identified applications, all profiles on hand, late starts, clocks that disagree, up to three runs of the signing job: `SealsHold`, `EverythingSigned`, `OwnProfile`, `RootOfTrust`, `OneProfilePerBundle`, `OnlyNarrows`, `HonestManifest` |
| `deploy` | pass | two signing jobs of every kind, at once: `TypeOK`, `DeployLeavesNothing`, `PublishedAsAsked`, `OfferedAreAnswered`, `Publishes`, `Ends` |
| `dev` | pass | sessions of the three frameworks: `TypeOK`, `SessionEnds`, `ChangesReloaded` |
| `registry` | pass | two projects of one machine, one registration at a time: `RegisteredResolve`, `BackupHoldsSecret`, `RevisionsGrow` |

The inductive invariants `IInv` include the type invariants of their modules.

### What they show

* **Nothing left running** (`NoSilentRun`, `AbortedIsStopped`). Whenever the CLI is
  interrupted, a central run it dispatched is over, or the user was warned; a share that gives
  up on a run it has found stops it.
* **Sources are not pulled away** (`SnapshotOutlivesFetch`, `SourceKept`,
  `CleanupSparesLive`, `ReleasesOwn`). The order of the defers, the two ways of deleting a
  ref, and a cleanup run from another machine never take the snapshot of a run that still
  needs it, except where the CLI said it gave up on that run.
* **What is built is the working tree** (`CodeSeesWorkingTree`), byte for byte and with its modes, and project
  code starts without the token that fetched it (`CredentialEnds`). A snapshot is refused only for a large
  blob in HEAD's own history or for the runner's limits (`RefusedForLimits`).
* **What is signed holds** (`SealsHold`, `EverythingSigned`, `OwnProfile`, `RootOfTrust`, `OnlyNarrows`):
  inside out, nothing forgotten, each bundle with a profile of exactly its identifier, no right the
  profile does not grant. Profiles are created and embedded only for the pinned identifier and those below it, although
  the signing job does not know the pin (`RootOfTrust`). The two jobs agree on what a manifest may say at
  its caps: one is refused for its age (24 hours) or for clocks more than ten minutes apart, exactly when that is
  so, and never for its contents (`HonestManifest`). A job run again does not pile up profiles (`OneProfilePerBundle`).
* **Reports are true** (`DeliveryIsReal`, `SharedIsShared`, `FailureLogIsFailingJobs`, `CleanupIsComplete`,
  `PublishedAsAsked`, `Publishes`). A deployment that reports success is published as asked, with whatever
  answers were lost and whoever published beside it.
* **Cleanup is complete and touches nothing else** (`CleanExit`, `OnlyOwnRun`,
  `DeleteAfterStop`, `DeployLeavesNothing`).
* **A registration survives** (`RegisteredResolve`, `BackupHoldsSecret`, `RevisionsGrow`) failures, kills and lost answers at each of
  its three writes, and other projects' registrations.
* **Commands, jobs and sessions end** (`Returns`, `Ends`, `SessionEnds`), and **no edit is lost** (`ChangesReloaded`).

### Findings

1. *Ad hoc artifacts are not all cleaned up* (`central_adhoc_cleanup`).
   `deleteCentralBuildArtifacts` knows the base, trusted and deploy names but not the ad hoc one.
2. *Repository builds do not get large files back* (`transport_repo`). `snapshot.Create` splits files above 45 MiB
   for both backends; only the central workflow has the step that restores them.

### Further configurations

Each of these ends in a counterexample (`tlc -config <name>.cfg <module>`) to a sentence of
the repository's comments or documentation:

| Configuration | Module | What TLC shows |
|---|---|---|
| `central_adhoc_log` | `MCCentralBuild` | a failed ad hoc packaging job gets the build job's log: the packaging job names its diagnostic `deploy` for every operation, the CLI looks for `adhoc` (`central.go:150`) |
| `central_retry` | `MCCentralBuild` | an interrupted retrieval cannot be retried: the deletion is deferred before the download and runs under a fresh context (`central.go:137`, against `README.md:317`) |
| `refs_share` | `MCSnapshotRefs` | no build prunes old refs, `builder cleanup` alone does (against `share.go:67`) |
| `repo_share_interrupt` | `RepositoryBuild` | a share interrupted before its run is listed leaves the run going (`share.go:95`) |
| `repo_share_live` | `RepositoryBuild` | a share interrupted just after its simulator went live cancels it (`share.go:129`) |
| `deploy_retry` | `MCDeployment` | a deployment reports the rejection of an earlier or concurrent upload with the same automatic number as its own (`testflight_publish.go:528`, against `:500`) |
| `deploy_adhoc` | `MCDeployment` | a failed ad hoc signing job leaves its workspace (`deploy.go:185`, against `:174`) |
| `dev_interrupt` | `MCDevSession` | Ctrl+C while the debug stream is being opened leaves a React Native or Kotlin session waiting (`session.go:299`) |
| `dev_exit` | `MCDevSession` | when `flutter attach` exits by itself the command waits until a key is pressed or a file saved (`flutter.go:152`) |
| `dev_created` | `MCDevSession` | a file in a directory created under watch is not reloaded by the fsnotify watcher (`watcher.go:153`) |
| `dev_stop` | `MCDevSession` | two overlapping calls of `Session.Stop` close `done` twice and panic (`watcher.go:115`) |
| `registry_two` | `MCRegistration` | two overlapping registrations leave a backup that does not hold the secret (`registry.go:265`) |
| `registry_doctor` | `MCRegistration` | after a registration whose last request failed the doctor finds nothing although builds resolve the old entry (`central_project.go:117`) |

`central_two_runs` (two builds with two runs, `OnlyOwnRun`) is a larger passing instance.

Known and without a property: a failed lookup of the trusted intermediate is ignored, so it is never deleted
(`central.go:140`); `PollForArtifact` gives up on the first failed read, while the other wait survives seven in a row
(`workflow.go:25` against `:410` and `:416`); `builder cleanup --older-than 1m` deletes snapshots that runs still need
(`cleanup.go:21`, excluded by `AgeAssumption`); an active ad hoc profile is used without the devices registered
since (`nested_sign.go:143`); one protected profile of another team makes every selection fail, also after a
creation (`deploy.go:893`, excluded in `OneProfilePerBundle`); the hot restart is asked for before the watcher has
started (`flutter.go:177`); a kill during `Manager.Save` leaves a torn `builder.json` (`config.go:55`, in the model as `Kill`).

### Bounds

* Builds and runs. Builds of `CentralBuild` meet only in `CreateRun` and in the search by
  title; one build with one run shows what one CLI can do wrong, two builds show mix-ups: one of them gets the
  run, and the other must leave it alone. `central_two` takes calls that succeed: a mix-up needs no lost
  answer, and complete cleanup is promised only then.
* `central_one` leaves out the operations `test` and `screenshots`, which the model treats
  as `build`; `central_two` and `central_adhoc_cleanup` take the remaining operations.
* `SnapshotRefs`. Time is counted in units of a CLI's longest life (`Timeout = 1`); the default
  age is the least one `AgeAssumption` allows (2 without skew, 3 with a skew of 1), and time
  stops (`MaxTime`) one unit after a first snapshot can become stale. `OlderThan` contains 0,
  the default, and in `refs_sweep` one longer age. Two CLIs are enough to replace a ref, two
  cleanups to race; the proofs cover the rest.
* `SnapshotTransport`. Units of 5 MiB: threshold 9 (45 MiB), chunk 8 (40 MiB), blob limit 19 (below 100 MiB). Files
  are small, at the threshold, one above it, of whole chunks, and over the blob limit, with equal contents
  under two modes; three paths and one reserved. The runner's limits are small enough for each to be hit.
* `SigningPlan`. Six whole applications up to one with code of every kind the planner knows, twelve
  stray entries, eleven variations of one bundle; eight sets of protected and three of listed profiles; domains
  around the cap of two (20 in the code); four applications under three pins. Time has one unit for all: `MaxAge = 1`,
  `MaxAhead = 1`, clocks up to two units apart, a created profile lives one unit. With `Clock = 4` and `MaxRuns = 3` a manifest is
  refused, accepted and refused again, and a profile of the job's own expires before the next run.
* `Deployment`. Two jobs, with the same or different numbers and groups; `MaxNumber = 2` also reaches the number
  that does not match any more; two languages.
* `DevSession`. A queue of one, one message of the application, up to two edits and one key: enough for an edit to
  find the timer running, the queue full, or a key in the pipe.
* `Registration`. Two projects, two registrations, one setup and one change each; two entries fill the registry.
* `CHECK_DEADLOCK FALSE` everywhere: every command ends, so every instance stops.
* Symmetry is used only in runs without liveness properties.

### Fairness

`FairSpec` of `CentralBuild` and of `RepositoryBuild` assumes of the CLI only that its
process is scheduled (weak fairness of the disjunction of its own steps, of which at most one
kind is enabled at a time) and that time passes (weak fairness of `Expire`, or of the
context's timeout in `RepositoryBuild`, where it is the same event as `Interrupt`; Go's timers
justify it). Nothing is assumed of GitHub: runs may stay queued for ever, artifacts may never
be listed, calls may fail or not. In `RepositoryBuild` the two-minute deadline is not fair:
the context's timeout alone is enough.

`Deployment` assumes that a job's process is scheduled and that its 45 minutes end; nothing of App Store
Connect. `DevSession` assumes that each goroutine is scheduled, that a timer fires and that a killed process
ends; the user, the application and flutter may do nothing at all. The other modules have no liveness properties.

## Proofs

All theorems hold for any number of builds, runs, refs, cleanups, jobs, projects, files and applications; each module's named
`ASSUME`s are the only assumptions, and each is evaluated by TLC in a passing run. A theorem that needs more (`Quiet`,
`Exclusive`) says so in its statement, because without it the property is false. Every invariant was checked
by TLC on the instances of the runs before it was proved.

* `CentralBuildProofs`: `TypeCorrect`, `BookkeepingAgrees` (`Spec => []IInv`),
  `NoSilentRunAlways`, `SnapshotOutlivesFetchAlways`. The two properties are not inductive:
  a step in the middle of a wait says nothing of how the run came about. `IInv` adds, per
  build, that a dispatch becomes at most one run and the adopted run is it (`Identified`); what has
  been done by which phase, in particular that the cancellation is registered throughout both
  waits (`Phased`); that once it is gone there is nothing left to cancel, or there was a warning
  (`Settled`); and that the ref is absent only while no run needs it (`Released`). The step
  lemma splits on the actions and, under each, on the four conjuncts it can disturb. From `IInv` follow
  `OnlyOwnRunAlways` (a CLI touches no run but the adopted one, and that is its own) and, with one more inductive
  fact (`Stopped`: a build about to delete artifacts has seen its run end), `DeleteAfterStopAlways`.
  `DeliveryIsRealAlways` rests on a second invariant, `DeliveryInv`: what a run's jobs have uploaded says how far it got
  (`RunIsReal`), and what a CLI holds came from such a run (`Retrieves`).
  `FailureLogAlways` and `CleanExitAlways` assume `Quiet`: dependable listings and calls, no log reader, and no ad hoc
  operation. That is the world of `central_two`, for any number of builds and runs, and the two properties promise nothing
  outside it: a lost deletion leaves an artifact behind, a late listing hides a log, and the ad hoc operation refutes
  both (`central_adhoc_cleanup`, `central_adhoc_log`). `Expire`, `Interrupt` and `Crash` are all still there. `QuietInv` follows
  what an artifact's listing can still say while a build waits, and what its defers have emptied.
* `RepositoryBuildProofs`: `RepositoryBookkeeping` (`Spec => []IInv`), `SourceKeptAlways`,
  `SharedIsSharedAlways`, `AbortedIsStoppedAlways`, `FailedIsFailedAlways`. `IInv` ties phase, outcome and ref of a command
  to how far its run is. A step of one build leaves the others alone (`OthersUntouched`), so the
  proof is about one build.
* `SnapshotRefsProofs`: `RefsBookkeeping` (`Spec => []IInv`), `CleanupSparesLiveAlways`,
  `CleanupIsCompleteAlways`, `ReleasesOwnAlways`. The argument for the first property: a living CLI
  made its commit no earlier than it began (`CliInv`) and is within its deadline, so the commit is at
  most `Timeout` old; a cleanup found the commit it deletes at least its age old by a clock
  at most `Skew` ahead (`SweepInv`), which `AgeAssumption` makes more than that. The lease makes the commit
  deleted the one inspected. `AgeAssumption` is not enforced by the code: `--older-than 1m` deletes
  snapshots that runs still need. For the second: whatever was stale when the refs were listed and is
  still there is in the cleanup's hands, and a CLI can push only what is younger.
* `SnapshotTransportProofs`: `CodeSees`, `RemoteAccepts`, `RefusesForLimits`, `TokenEnds`, for every threshold, chunk size and set of files
  the assumptions allow. The invariant (`Covers`) says of the CLI's index, of the pushed commit and of the
  checkout alike: a tree together with the manifest's files still to be restored makes the working tree. A split
  moves one file from the first to the second, a restoration moves it back. That the restoration accepts
  what was split takes a second one, `RestoreInv`: each file of the manifest is out of the tree and its chunks are in it
  (`TakenOut`), no others are, and the checkout is the commit with the first files of the manifest put back. Then
  the checks of `restoreTransportFile` pass one by one: each part is between one unit and `ChunkSize` long (`PartLength`),
  the parts one after the other are the content (`PartsJoin`), and no chunk path occurs twice (`FlattenUnlike`).
  `WithinLimits` is the only check left.
* `SigningPlanProofs`: all seven invariants of `sign_plan`, for every set of applications and profiles that `JobsAssumption`
  admits, any limits and any number of runs of the job. `JobInv` follows the account and the profiles on disk: what was
  created is for a bundle of the application, at most one of the job's own per bundle
  (`OneProfileEach`). `PinInv` says that an application beyond the build job is the pinned one; since the planner has every
  nested identifier extend the application's own, all are at or below the pin (`IdentifiersRooted`). What is signed is no
  wider than what was embedded (`NarrowsOnly`). `PlanInv` says that what is signed is a prefix of the plan; with `PlanInsideOut` it gives `SignsInsideOut`, `SignsAll` and, with `JobInv`, `SignsWithOwnProfile`.
  `PlanInsideOut` is the theorem about the planner: the plan of an accepted application lists all its code once,
  and nothing before what it holds. The walk over the tree is a recursive function, well founded because
  the listing has a directory before its contents (`UpEquation`, `WalkEquation`); the parts of a bundle are apart from
  each other (`CodeApart`), each is inside out by induction (`FlattenInsideOut`, `LeavesInsideOut`), and so is their
  concatenation (`JoinInsideOut`). `ManifestAccepted`: sorting and cutting a list of domains gives one that the
  validation accepts at the cap (`SanitizedOnce`), so a run refuses a manifest exactly when it is not `Timely`, whatever
  the clocks and the runs before (`ManifestInv`). `JobsAssumption` describes what a file system and the API
  give: a finite tree with its root, listed in an order; an account of well-formed profiles. The protected profiles may be
  anybody's and of any validity. `HostsAssumption` says that `Hosts`, the alphabet from which the model draws domains in the
  order of Go's string sort, has no repetition.
* `DeploymentProofs`: `DeploymentTyped`, `DeployLeavesNothingAlways`, `PublishedAsAskedAlways`, `OfferedAreAnsweredAlways`, and
  `DeploymentPublishes` (`Spec => Publishes`): the refinement of `Publication`, step by step. The invariant has a part for each
  thing a job accounts for: its machine (`Tidy`), its number (`Numbered`), what it has achieved for the build it publishes
  (`Progress`) and what it reports (`Reported`). What App Store Connect holds only grows (`Grows`), so another job's step on the same
  build never takes an achievement away; that is why concurrent deployments are harmless. `Unique` keeps numbers apart.
* `DevSessionProofs`: `SessionTyped`. `SessionInv` is the type of the state, group by group, with what makes it inductive: the
  messages not yet read are no more than the application printed, and the command queue stays within its buffer,
  because its senders drop what does not fit.
* `RegistrationProofs`: `TypeCorrect`; and, assuming `Exclusive`, `BackupHolds`, `RevisionsOnlyGrow` and `RegisteredResolveAlways`. The
  inductive invariant follows
  one registration: from `LoadFile` on, what it holds in memory contains every entry of the secret at no older
  revision; after `Put` it is newer than the secret; after the rename the backup is what will be uploaded. A
  registration that fails or is killed leaves a backup that is at least as new as the secret. `ResolveInv` adds that
  every confirmed registration is in the secret with what it registered or something newer, that a registration under way
  draws on the configuration it saved, and that the registry never exceeds its cap.
  Without `Exclusive` the first two are refuted (`registry_two`).

Where a definition is recursive (`Up`, the walk of `Steps`, `FlattenSeq`), the proofs take the least counterexample (`LeastNatural`, `TreeInduction`) in
place of the library's induction theorems, which take an operator.

Only model-checked: the liveness properties (`Returns` of both backends, `Ends`, `SessionEnds`, `ChangesReloaded`), since liveness
under fairness is out of the prover's reach. Every invariant and every action property that a passing run checks is a theorem.
What the proofs do not cover is what the models leave out, and the worlds that `Quiet`, `Exclusive` and the named
assumptions exclude.

## Not modelled, and why

* Encryption, digests and signatures: a sealed artifact is opaque, and a bad one is one more way
  for `DownloadCentralArtifact`, `Deliver` or `Admit` to fail.
* Progress display, log text, argument lists of external tools.
* The tools (`xcodebuild`, `codesign`, `altool`, `simctl`): they work or fail. This leaves nothing to model of
  `build.go`, `screenshots.go` and `simulator_tests.go` but their order.
* Device-flow polling and self-update: each is one sequential loop without a second actor, whose
  branches unit tests reach.
* What `PROJECT.json` lists as `not_modelled`, with the reason for each.

## Plan

Done: the life of a build from registration to TestFlight, as above. Left, in order:

1. `DeviceFlow` and `ReplaceExecutable`: polling with slow_down, rename with roll-back under kills.
2. The jobs of the central workflow in detail (permissions, custody of artifacts), shown to implement `ActionsRun`; a common
   promise of the two backends, implemented by `CentralBuild` and `RepositoryBuild`.
3. Proofs: `CleanExit` and `FailureLogIsFailingJobs` for two builds with runs and dependable listings but failing calls, from
   hypotheses weaker than `Quiet`; an invariant of `DevSession`'s shutdown (who still holds the pipe, the multiplexer and the timer).
