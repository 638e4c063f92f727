------------------------------- MODULE Deployment -------------------------------
(***************************************************************************)
(* The protected jobs of the central workflow: deploy-testflight, which    *)
(* signs an application, uploads it, waits for App Store Connect and       *)
(* publishes the build to a beta group, and sign-adhoc, which signs it and *)
(* hands it back (internal/runner/deploy.go, testflight_publish.go and     *)
(* encrypt.go).  Several jobs may deploy the same version of the same      *)
(* application, one after the other or at the same time.                   *)
(*                                                                         *)
(* A request to App Store Connect succeeds, fails, or takes effect and     *)
(* loses its answer; after the job's deadline every request and every tool *)
(* fails before it does anything.  A machine that dies is a job that takes *)
(* no further step.  A build is named by the job that uploaded it; App     *)
(* Store Connect is modelled as the code uses it.                          *)
(***************************************************************************)
EXTENDS Naturals, FiniteSets

CONSTANTS
    Jobs,
    Plans,       \* functions from Jobs to records of kind, number, group and issuer
    MaxNumber,   \* the largest number that matches buildPattern
    Locales,     \* the localisations of a build's test notes, with the one made when there is none
    NoBuild      \* none found, none settled on

Automatic == 0
Numbers == 1 .. MaxNumber
Kinds == {"testflight", "adhoc"}
Groups == {"none", "internal", "external", "review"}

ASSUME PlansAssumption ==
    /\ MaxNumber \in Nat /\ NoBuild \notin Jobs \cup Nat
    /\ \A p \in Plans : p \in [Jobs -> [kind : Kinds, number : {Automatic} \cup Numbers, group : Groups, issuer : BOOLEAN]]

VARIABLES
    config,      \* what each job is to do
    pc, disk,    \* where it is, and what lies unencrypted on its machine
    out,         \* what it has encrypted for the caller
    expired,     \* its deadline has passed
    number, view,     \* its build number, and what it has last seen of its build and group
    todo,        \* the localisations it still has to update
    waived, outcome, report,
    upload, complied, notes, offered, reviewed,   \* App Store Connect: the builds
    link         \* App Store Connect: the public link of the external group

job == <<config, pc, disk, out, expired, number, view, todo, waived, outcome, report>>
asc == <<upload, complied, notes, offered, reviewed, link>>
vars == <<job, asc>>

NotSeen == [build |-> NoBuild, complied |-> FALSE, link |-> "none"]
Indexed == {"processing", "valid", "invalid"}
Builds == {b \in Jobs : upload[b] \in Indexed}
WithNumber(n) == {b \in Builds : number[b] = n}
External(j) == config[j].group \in {"external", "review"}
Steps ==
    {"start", "unpack", "number", "keychain", "sign", "package", "validate", "upload", "app", "poll", "uploads", "wait",
     "group", "comply", "notes", "localise", "attach", "attached", "blockers", "review", "submit", "state", "after"}

Init ==
    /\ config \in Plans
    /\ pc = [j \in Jobs |-> "idle"] /\ disk = [j \in Jobs |-> {}] /\ out = [j \in Jobs |-> {}]
    /\ expired = [j \in Jobs |-> FALSE] /\ number = [j \in Jobs |-> NoBuild]
    /\ view = [j \in Jobs |-> NotSeen] /\ todo = [j \in Jobs |-> {}]
    /\ waived = {} /\ outcome = [j \in Jobs |-> "none"] /\ report = [j \in Jobs |-> "none"]
    /\ upload = [j \in Jobs |-> "none"] /\ complied = {} /\ notes = [j \in Jobs |-> {}]
    /\ offered = {} /\ reviewed = {} /\ link = "expected"

(***************************************************************************)
(* How a step ends.                                                        *)
(***************************************************************************)
At(j, step) == pc[j] = step
Goto(j, step) == pc' = [pc EXCEPT ![j] = step]
Proceed(j, step) == Goto(j, step) /\ UNCHANGED <<disk, outcome>>

\* A variant of Leave: a return that forgets the workspace.
LeaveAsIs(j) == disk[j]

\* deployTestFlight returns: its workspace goes on every path.  signAdHoc has
\* no such defer, so what lies there stays.
Leave(j) == IF config[j].kind = "testflight" THEN disk[j] \ {"workspace", "keychain"} ELSE disk[j]

End(j, result) ==
    /\ Goto(j, "report") /\ outcome' = [outcome EXCEPT ![j] = result]
    /\ disk' = [disk EXCEPT ![j] = Leave(j)]

\* Requests that only read: the answer, or none.
Answered(j) == ~expired[j]
ReadFails(j) ==
    /\ pc[j] \in {"number", "app", "poll", "group", "notes", "blockers", "review", "state", "after"}
    /\ End(j, "failed")
    /\ UNCHANGED <<config, out, expired, number, view, todo, waived, report, asc>>

kept == <<config, out, expired, report>>

(***************************************************************************)
(* From the encrypted application to the upload.                           *)
(***************************************************************************)
\* ExecuteTestFlight and ExecuteAdHoc open the private log.
Start(j) ==
    /\ At(j, "idle") /\ Goto(j, "start") /\ disk' = [disk EXCEPT ![j] = {"log"}]
    /\ UNCHANGED <<config, out, expired, number, view, todo, waived, outcome, report, asc>>

\* ValidateProvenanceArtifact and takeTransportIdentity.
Admit(j) ==
    /\ At(j, "start") /\ (Proceed(j, "unpack") \/ End(j, "failed"))
    /\ UNCHANGED <<kept, number, view, todo, waived, asc>>

\* From MkdirTemp to takeAppleCredentials: any step may fail once the
\* workspace holds the decrypted application.
Unpack(j) ==
    /\ At(j, "unpack")
    /\ LET opened == [disk EXCEPT ![j] = @ \cup {"workspace"}] IN
       \/ disk' = opened /\ Goto(j, IF config[j].kind = "adhoc" THEN "keychain" ELSE "number") /\ UNCHANGED outcome
       \/ End(j, "failed")
       \/ /\ Goto(j, "report") /\ outcome' = [outcome EXCEPT ![j] = "failed"]
          /\ disk' = IF config[j].kind = "testflight" THEN disk ELSE opened
    /\ UNCHANGED <<kept, number, view, todo, waived, asc>>

Highest == IF Builds = {} THEN 0 ELSE CHOOSE n \in {number[b] : b \in Builds} : \A b \in Builds : number[b] <= n

\* A variant of ChooseNumber that does not check what it has counted to.
ChooseNumberUnchecked(j) ==
    /\ At(j, "number")
    /\ config[j].number = Automatic => config[j].issuer /\ Answered(j)
    /\ number' = [number EXCEPT ![j] = IF config[j].number = Automatic THEN Highest + 1 ELSE config[j].number]
    /\ Proceed(j, "keychain")
    /\ UNCHANGED <<kept, view, todo, waived, asc>>

\* nextASCBuildNumber, or the number given; then setPlanBuildNumbers.
ChooseNumber(j) ==
    /\ At(j, "number")
    /\ config[j].number = Automatic => config[j].issuer /\ Answered(j)
    /\ LET n == IF config[j].number = Automatic THEN Highest + 1 ELSE config[j].number IN
       IF n \in Numbers
       THEN number' = [number EXCEPT ![j] = n] /\ Proceed(j, "keychain")
       ELSE End(j, "failed") /\ UNCHANGED number
    /\ UNCHANGED <<kept, view, todo, waived, asc>>

\* signApplicationInPlace: create, fill and unlock the keychain.
OpenKeychain(j) ==
    /\ At(j, "keychain")
    /\ \/ Answered(j) /\ Goto(j, "sign") /\ disk' = [disk EXCEPT ![j] = @ \cup {"keychain"}] /\ UNCHANGED outcome
       \/ End(j, "failed")
    /\ UNCHANGED <<kept, number, view, todo, waived, asc>>

\* signPlan, then the deferred delete-keychain, which runs under the same deadline.
Sign(j) ==
    /\ At(j, "sign")
    /\ LET closed == [disk EXCEPT ![j] = @ \ {"keychain"}] IN
       \/ Answered(j) /\ Goto(j, "package") /\ disk' = closed /\ UNCHANGED outcome
       \/ /\ Goto(j, "report") /\ outcome' = [outcome EXCEPT ![j] = "failed"]
          /\ disk' = [disk EXCEPT ![j] = IF expired[j] \/ config[j].kind = "testflight" THEN Leave(j) ELSE closed[j]]
    /\ UNCHANGED <<kept, number, view, todo, waived, asc>>

\* ditto writes App.ipa: for TestFlight inside the workspace, ad hoc beside
\* it, and then the workspace goes whether ditto succeeded or not.
Package(j) ==
    /\ At(j, "package")
    /\ IF config[j].kind = "testflight"
       THEN (Answered(j) /\ Proceed(j, "validate")) \/ End(j, "failed")
       ELSE \E ok \in BOOLEAN, ipa \in {{}, {"ipa"}} :
              /\ ok => Answered(j) /\ ipa = {"ipa"}
              /\ Goto(j, "report") /\ outcome' = [outcome EXCEPT ![j] = IF ok THEN "ok" ELSE "failed"]
              /\ disk' = [disk EXCEPT ![j] = (@ \ {"workspace"}) \cup ipa]
    /\ UNCHANGED <<kept, number, view, todo, waived, asc>>

\* runAltool --validate-app: an exit code of 0 is not yet an approval.
Validate(j) ==
    /\ At(j, "validate")
    /\ \/ Answered(j) /\ WithNumber(number[j]) = {} /\ Proceed(j, "upload")
       \/ End(j, "failed")
    /\ UNCHANGED <<kept, number, view, todo, waived, asc>>

\* runAltool --upload-app; without an issuer the job can only report failure now.
Upload(j) ==
    /\ At(j, "upload")
    /\ \/ /\ Answered(j) /\ WithNumber(number[j]) = {} /\ upload' = [upload EXCEPT ![j] = "pending"]
          /\ \/ config[j].issuer /\ Proceed(j, "app")
             \/ End(j, "failed")
       \/ End(j, "failed") /\ UNCHANGED upload
    /\ UNCHANGED <<kept, number, view, todo, waived, complied, notes, offered, reviewed, link>>

(***************************************************************************)
(* Waiting for the build.                                                  *)
(***************************************************************************)
FindApp(j) ==
    /\ At(j, "app") /\ Answered(j) /\ Goto(j, "poll")
    /\ UNCHANGED <<kept, number, view, todo, waived, outcome, disk, asc>>

\* findASCBuild and the switch of waitForASCBuild.
FindBuild(j) ==
    /\ At(j, "poll") /\ Answered(j)
    /\ IF WithNumber(number[j]) = {} THEN Goto(j, "uploads") /\ UNCHANGED <<disk, outcome, view>>
       ELSE LET b == CHOOSE b \in WithNumber(number[j]) : TRUE IN
            CASE upload[b] = "valid" ->
                   /\ view' = [view EXCEPT ![j] = [@ EXCEPT !.build = b, !.complied = b \in complied]]
                   /\ IF config[j].group = "none" THEN End(j, "ok") ELSE Proceed(j, "group")
              [] upload[b] = "invalid" -> End(j, "failed") /\ UNCHANGED view
              [] OTHER -> Goto(j, "wait") /\ UNCHANGED <<disk, outcome, view>>
    /\ UNCHANGED <<kept, number, todo, waived, asc>>

\* findASCFailedBuildUpload: any rejected upload with this version and number.
FindFailedUpload(j) ==
    /\ At(j, "uploads")
    /\ \/ /\ Answered(j) /\ \E k \in Jobs : upload[k] = "rejected" /\ number[k] = number[j]
          /\ End(j, "rejected")
       \/ Proceed(j, "wait")    \* none, or its own failure, which is ignored
    /\ UNCHANGED <<kept, number, view, todo, waived, asc>>

\* A variant of Wait that sleeps until the build turns up.
WaitForBuild(j) ==
    /\ At(j, "wait") /\ WithNumber(number[j]) # {} /\ Proceed(j, "poll")
    /\ UNCHANGED <<kept, number, view, todo, waived, asc>>

\* The next poll, betaProcessingTimeout, or the deadline of the job.
Wait(j) ==
    /\ At(j, "wait") /\ (Proceed(j, "poll") \/ End(j, "failed"))
    /\ UNCHANGED <<kept, number, view, todo, waived, asc>>

(***************************************************************************)
(* Publishing.                                                             *)
(***************************************************************************)
\* A variant of FindGroup that leaves the export question to somebody else.
FindGroupOnly(j) ==
    /\ At(j, "group") /\ Answered(j)
    /\ IF External(j) /\ link # "expected" THEN End(j, "failed") /\ UNCHANGED view
       ELSE view' = [view EXCEPT ![j].link = IF External(j) THEN link ELSE "none"] /\ Proceed(j, "notes")
    /\ UNCHANGED <<kept, number, todo, waived, asc>>

\* findASCBetaGroup: an external group must own the expected public link.
FindGroup(j) ==
    /\ At(j, "group") /\ Answered(j)
    /\ IF External(j) /\ link # "expected" THEN End(j, "failed") /\ UNCHANGED view
       ELSE /\ view' = [view EXCEPT ![j].link = IF External(j) THEN link ELSE "none"]
            /\ Proceed(j, IF view[j].complied THEN "notes" ELSE "comply")
    /\ UNCHANGED <<kept, number, todo, waived, asc>>

\* A request that writes: effect and answer, neither, or effect without answer.
Write(j, next, effect, none) ==
    \/ Answered(j) /\ effect /\ Proceed(j, next)
    \/ none /\ End(j, "failed")
    \/ Answered(j) /\ effect /\ End(j, "failed")

SetCompliance(j) ==
    /\ At(j, "comply")
    /\ Write(j, "notes", complied' = complied \cup {view[j].build}, UNCHANGED complied)
    /\ UNCHANGED <<kept, number, view, todo, waived, upload, notes, offered, reviewed, link>>

\* setASCWhatsNew: list the localisations of the build, then write one by one.
ListNotes(j) ==
    /\ At(j, "notes") /\ Answered(j) /\ Goto(j, "localise") /\ todo' = [todo EXCEPT ![j] = Locales]
    /\ UNCHANGED <<kept, number, view, waived, outcome, disk, asc>>

\* A variant of SetNote that writes the first localisation alone.
SetNoteOnce(j) ==
    /\ At(j, "localise")
    /\ \E l \in Locales :
          Write(j, "attach", notes' = [notes EXCEPT ![view[j].build] = @ \cup {l}], UNCHANGED notes)
    /\ UNCHANGED <<kept, number, view, todo, waived, upload, complied, offered, reviewed, link>>

SetNote(j) ==
    /\ At(j, "localise")
    /\ IF todo[j] = {} THEN Goto(j, "attach") /\ UNCHANGED <<todo, disk, outcome, notes>>
       ELSE \E l \in todo[j] :
              /\ todo' = [todo EXCEPT ![j] = @ \ {l}]
              /\ Write(j, "localise", notes' = [notes EXCEPT ![view[j].build] = @ \cup {l}], UNCHANGED notes)
    /\ UNCHANGED <<kept, number, view, waived, upload, complied, offered, reviewed, link>>

AfterAttach(j) == IF config[j].group = "review" THEN "blockers" ELSE "state"

\* attachASCBuild: a failed answer is checked against the group.
Attach(j) ==
    /\ At(j, "attach")
    /\ \/ Answered(j) /\ offered' = offered \cup {view[j].build} /\ Goto(j, AfterAttach(j))
       \/ UNCHANGED offered /\ Goto(j, "attached")
       \/ Answered(j) /\ offered' = offered \cup {view[j].build} /\ Goto(j, "attached")
    /\ UNCHANGED <<kept, number, view, todo, waived, disk, outcome, upload, complied, notes, reviewed, link>>

\* A variant of BuildInGroup that takes a failed answer for a lost one.
BuildInGroupAssumed(j) ==
    /\ At(j, "attached") /\ Proceed(j, AfterAttach(j))
    /\ UNCHANGED <<kept, number, view, todo, waived, asc>>

BuildInGroup(j) ==
    /\ At(j, "attached")
    /\ \/ Answered(j) /\ view[j].build \in offered /\ Proceed(j, AfterAttach(j))
       \/ End(j, "failed")
    /\ UNCHANGED <<kept, number, view, todo, waived, asc>>

\* ascExternalTestingBlockers: missing prerequisites are only logged.
CheckBlockers(j) ==
    /\ At(j, "blockers") /\ Answered(j)
    /\ \/ Goto(j, "review") /\ UNCHANGED waived
       \/ Goto(j, "state") /\ waived' = waived \cup {j}
    /\ UNCHANGED <<kept, number, view, todo, disk, outcome, asc>>

\* submitASCBetaReview: nothing is submitted twice.
FindReview(j) ==
    /\ At(j, "review") /\ Answered(j) /\ Goto(j, IF view[j].build \in reviewed THEN "state" ELSE "submit")
    /\ UNCHANGED <<kept, number, view, todo, waived, disk, outcome, asc>>

SubmitReview(j) ==
    /\ At(j, "submit")
    /\ \/ view[j].build \notin reviewed /\ Write(j, "state", reviewed' = reviewed \cup {view[j].build}, UNCHANGED reviewed)
       \/ view[j].build \in reviewed /\ End(j, "failed") /\ UNCHANGED reviewed
    /\ UNCHANGED <<kept, number, view, todo, waived, upload, complied, notes, offered, link>>

ReadState(j) ==
    /\ At(j, "state") /\ Answered(j) /\ Goto(j, "after")
    /\ UNCHANGED <<kept, number, view, todo, waived, disk, outcome, asc>>

\* getASCBetaGroup again: the link must still be the one that was checked.
CompareLink(j) ==
    /\ At(j, "after") /\ Answered(j)
    /\ End(j, IF view[j].link \in {"none", link} THEN "ok" ELSE "failed")
    /\ UNCHANGED <<kept, number, view, todo, waived, asc>>

\* EncryptArtifacts: the plaintexts it is given go, whether it succeeds or not.
Report(j) ==
    /\ At(j, "report") /\ Goto(j, "ended")
    /\ LET given == {"log"} \cup (IF config[j].kind = "adhoc" /\ outcome[j] = "ok" THEN {"ipa"} ELSE {}) IN
       /\ disk' = [disk EXCEPT ![j] = @ \ given]
       /\ \/ /\ out' = [out EXCEPT ![j] = given]
             /\ report' = [report EXCEPT ![j] = IF outcome[j] = "ok" THEN "ok" ELSE "failed"]
          \/ /\ out' \in {[out EXCEPT ![j] = done] : done \in {{}, {"log"}}}
             /\ report' = [report EXCEPT ![j] = "failed"]
    /\ UNCHANGED <<config, expired, number, view, todo, waived, outcome, asc>>

(***************************************************************************)
(* The world around a job.                                                 *)
(***************************************************************************)
\* The context of the job ends (45 and 25 minutes in cmd/builder-runner).
Expire(j) ==
    /\ pc[j] \in Steps /\ ~expired[j] /\ expired' = [expired EXCEPT ![j] = TRUE]
    /\ UNCHANGED <<config, pc, disk, out, number, view, todo, waived, outcome, report, asc>>

\* App Store Connect takes an upload in, at most one for each number.
Ingest(b) ==
    /\ upload[b] = "pending"
    /\ \E s \in {"rejected"} \cup (IF WithNumber(number[b]) = {} THEN {"processing"} ELSE {}) :
           upload' = [upload EXCEPT ![b] = s]
    /\ UNCHANGED <<job, complied, notes, offered, reviewed, link>>

Process(b) ==
    /\ upload[b] = "processing" /\ upload' \in {[upload EXCEPT ![b] = s] : s \in {"valid", "invalid"}}
    /\ complied' \in {complied, complied \cup {b}}
    /\ UNCHANGED <<job, notes, offered, reviewed, link>>

\* A member of the team replaces the group's public link.
Relink == link' = "other" /\ link # "other" /\ UNCHANGED <<job, upload, complied, notes, offered, reviewed>>

Step(j) ==
    \/ Admit(j) \/ Unpack(j) \/ ChooseNumber(j) \/ OpenKeychain(j) \/ Sign(j) \/ Package(j) \/ Validate(j) \/ Upload(j)
    \/ FindApp(j) \/ FindBuild(j) \/ FindFailedUpload(j) \/ Wait(j) \/ FindGroup(j) \/ SetCompliance(j) \/ ListNotes(j)
    \/ SetNote(j) \/ Attach(j) \/ BuildInGroup(j) \/ CheckBlockers(j) \/ FindReview(j) \/ SubmitReview(j)
    \/ ReadState(j) \/ CompareLink(j) \/ ReadFails(j) \/ Report(j)

Next == (\E j \in Jobs : Start(j) \/ Step(j) \/ Expire(j) \/ Ingest(j) \/ Process(j)) \/ Relink

Spec == Init /\ [][Next]_vars

\* A job that runs goes on running, and its clock does not stop.  App Store
\* Connect owes nothing.
FairSpec == Spec /\ \A j \in Jobs : WF_vars(Step(j)) /\ WF_vars(Expire(j))

-----------------------------------------------------------------------------
(***************************************************************************)
(* Properties.                                                             *)
(***************************************************************************)
TypeOK ==
    /\ config \in Plans
    /\ pc \in [Jobs -> Steps \cup {"idle", "report", "ended"}]
    /\ disk \in [Jobs -> SUBSET {"log", "workspace", "keychain", "ipa"}] /\ out \in [Jobs -> SUBSET {"log", "ipa"}]
    /\ expired \in [Jobs -> BOOLEAN] /\ number \in [Jobs -> Numbers \cup {NoBuild}]
    /\ view \in [Jobs -> [build : Jobs \cup {NoBuild}, complied : BOOLEAN, link : {"none", "expected"}]]
    /\ todo \in [Jobs -> SUBSET Locales] /\ waived \subseteq Jobs
    /\ outcome \in [Jobs -> {"none", "ok", "failed", "rejected"}] /\ report \in [Jobs -> {"none", "ok", "failed"}]
    /\ upload \in [Jobs -> {"none", "pending", "rejected"} \cup Indexed]
    /\ complied \subseteq Jobs /\ notes \in [Jobs -> SUBSET Locales]
    /\ offered \subseteq Jobs /\ reviewed \subseteq Jobs /\ link \in {"expected", "other"}

\* "removes every plaintext and credential file" (deploy.go:87): a TestFlight
\* job that has ended, however it did, left nothing readable on its machine.
DeployLeavesNothing == \A j \in Jobs : pc[j] = "ended" /\ config[j].kind = "testflight" => disk[j] = {}

\* A TestFlight job with a group reports success only when a build of its number
\* is answered for export, described in every language and offered to testers,
\* whatever answers were lost and whoever else published it.  (Its submission
\* to review is part of Publishes.)
PublishedAsAsked ==
    \A j \in Jobs : report[j] = "ok" /\ config[j].kind = "testflight" /\ config[j].group # "none" =>
        \E b \in WithNumber(number[j]) : b \in complied /\ b \in offered /\ notes[b] = Locales

\* No two builds have one number, and every tester or reviewer sees a build
\* whose export question was answered first.
OfferedAreAnswered ==
    /\ \A a, b \in Builds : number[a] = number[b] => a = b
    /\ offered \subseteq complied /\ reviewed \subseteq offered

\* The promise of Publication, kept by the job and App Store Connect together.
Pub == INSTANCE Publication WITH None <- NoBuild, valid <- {b \in Jobs : upload[b] = "valid"}
Publishes == Pub!Spec

\* Every job that has started ends and tells the caller.
Ends == \A j \in Jobs : pc[j] = "start" ~> pc[j] = "ended"

\* A rejection is reported for "the exact uploaded
\* version/build" (testflight_publish.go:500): a job reports a rejection only
\* when its own upload was rejected.
RejectionIsOwn == \A j \in Jobs : outcome[j] = "rejected" => upload[j] = "rejected"

\* "removes the plaintexts, exactly as the unsigned build path does"
\* (deploy.go:174): so does an ad hoc job.
SigningLeavesNothing == \A j \in Jobs : pc[j] = "ended" => disk[j] = {}
=============================================================================
