--------------------------- MODULE DeploymentProofs ---------------------------
(***************************************************************************)
(* Proofs about Deployment: its type invariant, its three safety           *)
(* invariants and that it implements Publication, for any number of jobs,  *)
(* any plans, build numbers and localisations.                             *)
(*                                                                         *)
(* The invariant has one part for each thing a job has to account for:     *)
(* what lies on its machine, the number it settled on, what it has         *)
(* achieved for the build it publishes, and what it reports.  What App     *)
(* Store Connect holds only grows, so that another job's step, on the same *)
(* build or another, never takes an achievement away.                      *)
(***************************************************************************)
EXTENDS Deployment, TLAPS


Publishing == {"group", "comply", "notes", "localise", "attach", "attached", "blockers", "review", "submit",
               "state", "after"}
Attached == {"blockers", "review", "submit", "state", "after"}
Unnumbered == {"idle", "start", "unpack", "number"}
BeforeUpload == Unnumbered \cup {"keychain", "sign", "package", "validate", "upload"}

\* What lies on the machine of a TestFlight job, by where the job is.
Tidy(j) ==
    /\ pc[j] = "idle" => disk[j] = {}
    /\ pc[j] \in {"start", "unpack"} => disk[j] = {"log"}
    /\ config[j].kind = "testflight" =>
          /\ "ipa" \notin disk[j]
          /\ pc[j] = "report" => disk[j] \subseteq {"log"}
          /\ pc[j] = "ended" => disk[j] = {}

\* A number is settled on once, before the upload it is given to.
Numbered(j) ==
    /\ upload[j] # "none" => number[j] \in Numbers /\ pc[j] \notin BeforeUpload
    /\ pc[j] \in Unnumbered => number[j] = NoBuild
    /\ config[j].kind = "testflight" /\ pc[j] \in Steps \ Unnumbered => number[j] \in Numbers
    /\ config[j].kind = "adhoc" => pc[j] \in {"idle", "start", "unpack", "keychain", "sign", "package", "report", "ended"}

Unique == \A a, b \in Builds : number[a] = number[b] => a = b
Chain == offered \subseteq complied /\ reviewed \subseteq offered /\ \A b \in offered : upload[b] = "valid"

\* The build a job publishes is a valid one of its number.
Valid(j, b) == b \in Jobs /\ upload[b] = "valid" /\ number[b] = number[j]
Reviewed(j, b) == config[j].group = "review" => b \in reviewed \/ j \in waived

Progress(j) ==
    LET b == view[j].build IN
    /\ pc[j] \in Publishing => Valid(j, b) /\ config[j].group # "none"
    /\ view[j].complied => b \in complied
    /\ pc[j] \in Publishing \ {"group", "comply"} => b \in complied
    /\ pc[j] = "localise" => Locales \subseteq notes[b] \cup todo[j]
    /\ pc[j] \in {"attach", "attached"} \cup Attached => notes[b] = Locales
    /\ pc[j] \in Attached => b \in offered
    /\ pc[j] \in {"state", "after"} => Reviewed(j, b)
    /\ j \in waived => pc[j] \in {"state", "after", "report", "ended"}

Reported(j) ==
    LET b == view[j].build IN
    /\ outcome[j] # "none" => pc[j] \in {"report", "ended"}
    /\ report[j] # "none" => pc[j] = "ended"
    /\ report[j] = "ok" => outcome[j] = "ok"
    /\ outcome[j] = "ok" /\ config[j].kind = "testflight" =>
          /\ Valid(j, b)
          /\ config[j].group # "none" => b \in complied /\ b \in offered /\ notes[b] = Locales
          /\ Reviewed(j, b)

JobInv(j) == Tidy(j) /\ Numbered(j) /\ Progress(j) /\ Reported(j)
IInv == TypeOK /\ Unique /\ Chain /\ \A j \in Jobs : JobInv(j)

-----------------------------------------------------------------------------
\* What a job is to do, in the words of the assumption.
LEMMA ConfigTyped ==
    ASSUME config \in Plans
    PROVE  config \in [Jobs -> [kind : Kinds, number : {Automatic} \cup Numbers, group : Groups, issuer : BOOLEAN]]
BY PlansAssumption

\* A step that only moves its job on.
Moves(j) == /\ UNCHANGED <<config, out, expired, number, view, todo, waived, report, asc>>
            /\ \E s \in Steps \cup {"report"} : pc' = [pc EXCEPT ![j] = s]
            /\ \E d \in SUBSET {"log", "workspace", "keychain", "ipa"} : disk' = [disk EXCEPT ![j] = d]
            /\ \E o \in {"none", "ok", "failed", "rejected"} : outcome' = [outcome EXCEPT ![j] = o]

\* Such a step keeps every type.
LEMMA MovesTyped == ASSUME TypeOK, NEW j \in Jobs, Moves(j) PROVE TypeOK'
BY DEF TypeOK, Moves, asc

\* The two ways a step ends, spelled out.
LEMMA ProceedFrame == ASSUME TypeOK, NEW j \in Jobs, NEW s \in Steps, Proceed(j, s)
                      PROVE  /\ pc' = [pc EXCEPT ![j] = s]
                             /\ \E d \in SUBSET {"log", "workspace", "keychain", "ipa"} : disk' = [disk EXCEPT ![j] = d]
                             /\ \E o \in {"none", "ok", "failed", "rejected"} : outcome' = [outcome EXCEPT ![j] = o]
<1>1. disk' = [disk EXCEPT ![j] = disk[j]] /\ outcome' = [outcome EXCEPT ![j] = outcome[j]]
  BY DEF TypeOK, Proceed
<1>2. disk[j] \in SUBSET {"log", "workspace", "keychain", "ipa"} /\ outcome[j] \in {"none", "ok", "failed", "rejected"}
  BY DEF TypeOK
<1> QED
  BY <1>1, <1>2 DEF Proceed, Goto

\* A step that ends its job moves to the report and drops the workspace.
LEMMA EndFrame == ASSUME TypeOK, NEW j \in Jobs, NEW o \in {"ok", "failed", "rejected"}, End(j, o)
                  PROVE  /\ pc' = [pc EXCEPT ![j] = "report"]
                         /\ outcome' = [outcome EXCEPT ![j] = o]
                         /\ Leave(j) \in SUBSET {"log", "workspace", "keychain", "ipa"}
                         /\ disk' = [disk EXCEPT ![j] = Leave(j)]
<1>1. Leave(j) \in SUBSET {"log", "workspace", "keychain", "ipa"}
  BY DEF TypeOK, Leave
<1> QED
  BY <1>1 DEF End, Goto

\* The steps that change nothing but where the job is, what lies on its machine
\* and how it ended.
MovingStep(j) ==
    \/ Admit(j) \/ Unpack(j) \/ OpenKeychain(j) \/ Sign(j) \/ Package(j) \/ Validate(j) \/ FindApp(j)
    \/ FindFailedUpload(j) \/ Wait(j) \/ BuildInGroup(j) \/ FindReview(j) \/ ReadState(j) \/ CompareLink(j)
    \/ ReadFails(j)

\* None of them touches App Store Connect.
LEMMA MovingMoves == ASSUME TypeOK, NEW j \in Jobs, MovingStep(j) PROVE Moves(j)
<1> DEFINE Somewhere == \E s \in Steps \cup {"report"} : pc' = [pc EXCEPT ![j] = s]
           Something == \E d \in SUBSET {"log", "workspace", "keychain", "ipa"} : disk' = [disk EXCEPT ![j] = d]
           Somehow == \E o \in {"none", "ok", "failed", "rejected"} : outcome' = [outcome EXCEPT ![j] = o]
<1>0. ASSUME NEW s \in Steps, Proceed(j, s) PROVE Somewhere /\ Something /\ Somehow
  BY <1>0, ProceedFrame
<1>1. ASSUME NEW o \in {"ok", "failed", "rejected"}, End(j, o) PROVE Somewhere /\ Something /\ Somehow
  BY <1>1, EndFrame
<1>2. ASSUME NEW s \in Steps, Goto(j, s), UNCHANGED <<disk, outcome>> PROVE Somewhere /\ Something /\ Somehow
  BY <1>0, <1>2 DEF Proceed
<1>3. ASSUME NEW s \in Steps \cup {"report"}, Goto(j, s), Something, Somehow PROVE Somewhere /\ Something /\ Somehow
  BY <1>3 DEF Goto
<1>4. /\ disk \in [Jobs -> SUBSET {"log", "workspace", "keychain", "ipa"}]
      /\ outcome \in [Jobs -> {"none", "ok", "failed", "rejected"}]
      /\ disk = [disk EXCEPT ![j] = disk[j]] /\ outcome = [outcome EXCEPT ![j] = outcome[j]]
  BY DEF TypeOK
<1> HIDE DEF Somewhere, Something, Somehow
<1>5. CASE Admit(j) \/ Validate(j) \/ FindFailedUpload(j) \/ Wait(j) \/ CompareLink(j) \/ ReadFails(j)
  <2>1. \/ \E s \in Steps : Proceed(j, s)
        \/ \E o \in {"ok", "failed", "rejected"} : End(j, o)
    BY <1>5 DEF Admit, Validate, FindFailedUpload, Wait, CompareLink, ReadFails, Steps
  <2>2. UNCHANGED <<config, out, expired, number, view, todo, waived, report, asc>>
    BY <1>5 DEF Admit, Validate, FindFailedUpload, Wait, CompareLink, ReadFails, kept
  <2> QED
    BY <1>0, <1>1, <2>1, <2>2 DEF Moves, Somewhere, Something, Somehow
<1>6. CASE FindApp(j) \/ FindReview(j) \/ ReadState(j) \/ BuildInGroup(j)
  <2>1. \/ \E s \in Steps : Goto(j, s) /\ UNCHANGED <<disk, outcome>>
        \/ \E o \in {"ok", "failed", "rejected"} : End(j, o)
    BY <1>6 DEF FindApp, FindReview, ReadState, BuildInGroup, AfterAttach, Proceed, Steps
  <2>2. UNCHANGED <<config, out, expired, number, view, todo, waived, report, asc>>
    BY <1>6 DEF FindApp, FindReview, ReadState, BuildInGroup, kept
  <2> QED
    BY <1>1, <1>2, <2>1, <2>2 DEF Moves, Somewhere, Something, Somehow
<1>7. CASE Unpack(j)
  <2>1. \/ End(j, "failed")
        \/ /\ \E s \in Steps \cup {"report"} : Goto(j, s)
           /\ disk' = disk \/ disk' = [disk EXCEPT ![j] = @ \cup {"workspace"}]
           /\ outcome' = outcome \/ outcome' = [outcome EXCEPT ![j] = "failed"]
    BY <1>7 DEF Unpack, Steps
  <2>2. CASE ~End(j, "failed")
    <3>1. Something /\ Somehow
      BY <1>4, <2>1, <2>2 DEF Something, Somehow
    <3> QED
      BY <1>3, <1>7, <2>1, <2>2, <3>1 DEF Unpack, kept, Moves, Somewhere, Something, Somehow
  <2> QED
    BY <1>1, <1>7, <2>2 DEF Unpack, kept, Moves, Somewhere, Something, Somehow
<1>8. CASE OpenKeychain(j)
  <2>1. \/ End(j, "failed")
        \/ /\ Goto(j, "sign")
           /\ disk' = [disk EXCEPT ![j] = @ \cup {"keychain"}]
           /\ outcome' = outcome
    BY <1>8 DEF OpenKeychain
  <2>2. CASE ~End(j, "failed")
    <3>1. Something /\ Somehow
      BY <1>4, <2>1, <2>2 DEF Something, Somehow
    <3> QED
      BY <1>3, <1>8, <2>1, <2>2, <3>1 DEF OpenKeychain, kept, Moves, Somewhere, Something, Somehow, Steps
  <2> QED
    BY <1>1, <1>8, <2>2 DEF OpenKeychain, kept, Moves, Somewhere, Something, Somehow
<1>9. CASE Sign(j)
  <2>1. /\ \E s \in Steps \cup {"report"} : Goto(j, s)
        /\ outcome' = outcome \/ outcome' = [outcome EXCEPT ![j] = "failed"]
        /\ \E d \in SUBSET {"log", "workspace", "keychain", "ipa"} : disk' = [disk EXCEPT ![j] = d]
    <3>1. disk[j] \ {"keychain"} \in SUBSET {"log", "workspace", "keychain", "ipa"}
          /\ Leave(j) \in SUBSET {"log", "workspace", "keychain", "ipa"}
      BY <1>4 DEF Leave
    <3>2. [disk EXCEPT ![j] = @ \ {"keychain"}][j] = disk[j] \ {"keychain"}
      BY <1>4
    <3> QED
      BY <1>9, <3>1, <3>2 DEF Sign, Steps
  <2>2. Something /\ Somehow
    BY <1>4, <2>1 DEF Something, Somehow
  <2> QED
    BY <1>3, <1>9, <2>1, <2>2 DEF Sign, kept, Moves, Somewhere, Something, Somehow
<1>10. CASE Package(j)
  <2>1. \/ \E s \in Steps : Proceed(j, s)
        \/ \E o \in {"ok", "failed", "rejected"} : End(j, o)
        \/ /\ Goto(j, "report")
           /\ \E o \in {"ok", "failed"} : outcome' = [outcome EXCEPT ![j] = o]
           /\ \E ipa \in {{}, {"ipa"}} : disk' = [disk EXCEPT ![j] = (@ \ {"workspace"}) \cup ipa]
    BY <1>10 DEF Package, Steps
  <2>2. CASE /\ Goto(j, "report")
             /\ \E o \in {"ok", "failed"} : outcome' = [outcome EXCEPT ![j] = o]
             /\ \E ipa \in {{}, {"ipa"}} : disk' = [disk EXCEPT ![j] = (@ \ {"workspace"}) \cup ipa]
    <3>1. Something /\ Somehow
      BY <1>4, <2>2 DEF Something, Somehow
    <3> QED
      BY <1>3, <1>10, <2>2, <3>1 DEF Package, kept, Moves, Somewhere, Something, Somehow
  <2> QED
    BY <1>0, <1>1, <1>10, <2>1, <2>2 DEF Package, kept, Moves, Somewhere, Something, Somehow
<1> QED
  BY <1>5, <1>6, <1>7, <1>8, <1>9, <1>10 DEF MovingStep

\* The variables a step moves its job with keep their types.
Landed == /\ pc' \in [Jobs -> Steps \cup {"idle", "report", "ended"}]
          /\ disk' \in [Jobs -> SUBSET {"log", "workspace", "keychain", "ipa"}]
          /\ outcome' \in [Jobs -> {"none", "ok", "failed", "rejected"}]

\* Every way a step can end keeps them.
LEMMA LandedTyped ==
    ASSUME TypeOK, NEW j \in Jobs, NEW s \in Steps, NEW o \in {"ok", "failed", "rejected"},
           Proceed(j, s) \/ End(j, o) \/ (Goto(j, s) /\ UNCHANGED <<disk, outcome>>)
    PROVE  Landed
<1>1. CASE Proceed(j, s) \/ (Goto(j, s) /\ UNCHANGED <<disk, outcome>>)
  BY <1>1 DEF TypeOK, Landed, Proceed, Goto
<1>2. CASE End(j, o)
  BY <1>2, EndFrame DEF TypeOK, Landed
<1> QED
  BY <1>1, <1>2

\* What a job does keeps every type; it needs the build the job has found.
LEMMA StepTyped ==
    ASSUME TypeOK, NEW j \in Jobs, Progress(j), Step(j)
    PROVE  TypeOK'
<1>0. /\ config \in [Jobs -> [kind : Kinds, number : {Automatic} \cup Numbers, group : Groups, issuer : BOOLEAN]]
      /\ pc[j] \in Publishing => view[j].build \in Jobs
  BY ConfigTyped DEF TypeOK, Progress, Valid
<1>1. CASE MovingStep(j)
  BY <1>1, MovingMoves, MovesTyped
<1>2. CASE ChooseNumber(j)
  <2>1. Landed
    BY <1>2, LandedTyped DEF ChooseNumber, Steps
  <2>2. number' \in [Jobs -> Numbers \cup {NoBuild}]
    BY <1>2 DEF ChooseNumber, TypeOK
  <2> QED
    BY <1>2, <2>1, <2>2 DEF ChooseNumber, TypeOK, Landed, kept, asc
<1>3. CASE Upload(j)
  <2>1. Landed
    BY <1>3, LandedTyped DEF Upload, Steps
  <2>2. upload' \in [Jobs -> {"none", "pending", "rejected"} \cup Indexed]
    BY <1>3 DEF Upload, TypeOK
  <2> QED
    BY <1>3, <2>1, <2>2 DEF Upload, TypeOK, Landed, kept
<1>4. CASE FindBuild(j)
  <2>1. Landed
    BY <1>4, LandedTyped DEF FindBuild, Steps
  <2>2. ASSUME WithNumber(number[j]) # {} PROVE (CHOOSE b \in WithNumber(number[j]) : TRUE) \in Jobs
    BY <2>2 DEF WithNumber, Builds
  <2>3. view' \in [Jobs -> [build : Jobs \cup {NoBuild}, complied : BOOLEAN, link : {"none", "expected"}]]
    <3> DEFINE b == CHOOSE b \in WithNumber(number[j]) : TRUE
    <3>1. view' = view \/ view' = [view EXCEPT ![j] = [@ EXCEPT !.build = b, !.complied = b \in complied]]
      BY <1>4 DEF FindBuild
    <3>2. WithNumber(number[j]) = {} => view' = view
      BY <1>4 DEF FindBuild
    <3>3. WithNumber(number[j]) # {} => b \in Jobs
      BY <2>2
    <3> HIDE DEF b
    <3>4. view[j] \in [build : Jobs \cup {NoBuild}, complied : BOOLEAN, link : {"none", "expected"}]
      BY DEF TypeOK
    <3>5. CASE b \in Jobs
      <4> DEFINE seen == [view[j] EXCEPT !.build = b, !.complied = b \in complied]
      <4>1. seen \in [build : Jobs \cup {NoBuild}, complied : BOOLEAN, link : {"none", "expected"}]
        <5>1. ASSUME NEW answered \in BOOLEAN
              PROVE  [view[j] EXCEPT !.build = b, !.complied = answered]
                        \in [build : Jobs \cup {NoBuild}, complied : BOOLEAN, link : {"none", "expected"}]
          BY <3>4, <3>5
        <5>2. (b \in complied) \in BOOLEAN
          OBVIOUS
        <5> HIDE DEF seen
        <5>3. seen = [view[j] EXCEPT !.build = b, !.complied = b \in complied]
          BY DEF seen
        <5> QED
          BY <5>1, <5>2, <5>3, Zenon
      <4>2. view' = view \/ view' = [view EXCEPT ![j] = seen]
        BY <3>1
      <4> HIDE DEF seen
      <4> QED
        BY <4>1, <4>2 DEF TypeOK
    <3> QED
      BY <3>2, <3>3, <3>5 DEF TypeOK
  <2> QED
    BY <1>4, <2>1, <2>3 DEF FindBuild, TypeOK, Landed, kept, asc
<1>5. CASE FindGroup(j)
  <2>1. Landed
    BY <1>5, LandedTyped DEF FindGroup, Steps
  <2>2. view' \in [Jobs -> [build : Jobs \cup {NoBuild}, complied : BOOLEAN, link : {"none", "expected"}]]
    BY <1>5 DEF FindGroup, TypeOK
  <2> QED
    BY <1>5, <2>1, <2>2 DEF FindGroup, TypeOK, Landed, kept, asc
<1>6. CASE SetCompliance(j)
  <2>1. Landed
    BY <1>6, LandedTyped DEF SetCompliance, Write, Steps
  <2>2. complied' \subseteq Jobs
    BY <1>0, <1>6 DEF SetCompliance, Write, TypeOK, At, Publishing
  <2> QED
    BY <1>6, <2>1, <2>2 DEF SetCompliance, TypeOK, Landed, kept
<1>7. CASE ListNotes(j)
  <2>1. Landed
    BY <1>7, LandedTyped DEF ListNotes, Steps
  <2> QED
    BY <1>7, <2>1 DEF ListNotes, TypeOK, Landed, kept, asc
<1>8. CASE SetNote(j)
  <2>1. CASE todo[j] = {}
    <3>1. Landed
      BY <1>8, <2>1, LandedTyped DEF SetNote, Steps
    <3> QED
      BY <1>8, <2>1, <3>1 DEF SetNote, TypeOK, Landed, kept
  <2>2. CASE todo[j] # {}
    <3>1. PICK l \in todo[j] :
             /\ todo' = [todo EXCEPT ![j] = @ \ {l}]
             /\ Write(j, "localise", notes' = [notes EXCEPT ![view[j].build] = @ \cup {l}], UNCHANGED notes)
      BY <1>8, <2>2 DEF SetNote
    <3>2. Landed /\ (notes' = [notes EXCEPT ![view[j].build] = @ \cup {l}] \/ UNCHANGED notes)
      BY <3>1, LandedTyped DEF Write, Steps
    <3>3. l \in Locales /\ notes' \in [Jobs -> SUBSET Locales] /\ todo' \in [Jobs -> SUBSET Locales]
      BY <3>1, <3>2 DEF TypeOK
    <3> QED
      BY <1>8, <3>2, <3>3 DEF SetNote, TypeOK, Landed, kept
  <2> QED
    BY <2>1, <2>2
<1>9. CASE Attach(j)
  <2>1. Landed
    <3>1. AfterAttach(j) \in Steps
      BY DEF AfterAttach, Steps
    <3> QED
      BY <1>9, <3>1, LandedTyped DEF Attach, Steps
  <2>2. offered' \subseteq Jobs
    BY <1>0, <1>9 DEF Attach, TypeOK, At, Publishing
  <2> QED
    BY <1>9, <2>1, <2>2 DEF Attach, TypeOK, Landed, kept
<1>10. CASE CheckBlockers(j)
  <2>1. Landed /\ waived' \subseteq Jobs
    BY <1>10, LandedTyped DEF CheckBlockers, Steps, TypeOK
  <2> QED
    BY <1>10, <2>1 DEF CheckBlockers, TypeOK, Landed, kept, asc
<1>11. CASE SubmitReview(j)
  <2>1. Landed
    BY <1>11, LandedTyped DEF SubmitReview, Write, Steps
  <2>2. reviewed' \subseteq Jobs
    BY <1>0, <1>11 DEF SubmitReview, Write, TypeOK, At, Publishing
  <2> QED
    BY <1>11, <2>1, <2>2 DEF SubmitReview, TypeOK, Landed, kept
<1>12. CASE Report(j)
  <2>1. pc' = [pc EXCEPT ![j] = "ended"] /\ outcome' = outcome
        /\ disk' \in [Jobs -> SUBSET {"log", "workspace", "keychain", "ipa"}]
    BY <1>12 DEF Report, Goto, TypeOK
  <2>2. out' \in [Jobs -> SUBSET {"log", "ipa"}] /\ report' \in [Jobs -> {"none", "ok", "failed"}]
    BY <1>12 DEF Report, TypeOK
  <2> QED
    BY <1>12, <2>1, <2>2 DEF Report, TypeOK, asc
<1> QED
  BY <1>1, <1>2, <1>3, <1>4, <1>5, <1>6, <1>7, <1>8, <1>9, <1>10, <1>11, <1>12 DEF Step, MovingStep

\* App Store Connect, the clock, a new job and a new link.
LEMMA OtherTyped ==
    ASSUME TypeOK, NEW j \in Jobs, Start(j) \/ Expire(j) \/ Ingest(j) \/ Process(j) \/ Relink
    PROVE  TypeOK'
<1>1. CASE Start(j)
  BY <1>1 DEF Start, At, Goto, TypeOK, asc, Steps
<1>2. CASE Expire(j)
  BY <1>2 DEF Expire, TypeOK, asc
<1>3. CASE Ingest(j)
  BY <1>3 DEF Ingest, TypeOK, job, Indexed
<1>4. CASE Process(j)
  BY <1>4 DEF Process, TypeOK, job, Indexed
<1>5. CASE Relink
  BY <1>5 DEF Relink, TypeOK, job
<1> QED
  BY <1>1, <1>2, <1>3, <1>4, <1>5

-----------------------------------------------------------------------------
\* What no step of anybody takes back.
Grows ==
    /\ config' = config
    /\ complied \subseteq complied' /\ offered \subseteq offered' /\ reviewed \subseteq reviewed' /\ waived \subseteq waived'
    /\ \A b \in Jobs : /\ notes[b] \subseteq notes'[b]
                       /\ upload[b] = "valid" => upload'[b] = "valid"
                       /\ upload[b] # "none" => upload'[b] # "none" /\ number'[b] = number[b]

\* What a step of another job, or of App Store Connect, leaves of a job.
Spared(j) ==
    /\ pc'[j] = pc[j] /\ disk'[j] = disk[j] /\ number'[j] = number[j] /\ view'[j] = view[j] /\ todo'[j] = todo[j]
    /\ outcome'[j] = outcome[j] /\ report'[j] = report[j]
    /\ j \in waived' => j \in waived
    /\ upload'[j] # "none" => upload[j] # "none"

\* A job keeps its account while others step and App Store Connect only grows.
LEMMA SparedKept ==
    ASSUME IInv, TypeOK', Grows, NEW j \in Jobs, Spared(j)
    PROVE  JobInv(j)'
<1>0. TypeOK /\ Tidy(j) /\ Numbered(j) /\ Progress(j) /\ Reported(j)
  BY DEF IInv, JobInv
<1>1. Tidy(j)' /\ Numbered(j)'
  BY <1>0 DEF Tidy, Numbered, Grows, Spared
<1>2. ASSUME NEW b, Valid(j, b) PROVE Valid(j, b)'
  BY <1>2 DEF Valid, Grows, Spared
<1>3. ASSUME NEW b, Reviewed(j, b) PROVE Reviewed(j, b)'
  BY <1>3 DEF Reviewed, Grows
<1>4. \A b \in Jobs : /\ notes'[b] \subseteq Locales
                      /\ notes[b] \subseteq notes'[b]
  BY DEF TypeOK, Grows
<1>5. Progress(j)'
  <2> DEFINE b == view[j].build
  <2>1. b' = b /\ pc'[j] = pc[j] /\ view'[j] = view[j] /\ todo'[j] = todo[j] /\ config' = config
    BY DEF Spared, Grows
  <2>2. pc[j] \in Publishing => b \in Jobs
    BY <1>0 DEF Progress, Valid
  <2>3. /\ pc[j] \in Publishing => Valid(j, b)' /\ config[j].group # "none"
        /\ pc[j] \in {"state", "after"} => Reviewed(j, b)'
    BY <1>0, <1>2, <1>3, <2>1 DEF Progress, Valid, Reviewed
  <2>4. /\ pc[j] = "localise" => Locales \subseteq notes'[b] \cup todo[j]
        /\ pc[j] \in {"attach", "attached"} \cup Attached => notes'[b] = Locales
    BY <1>0, <1>4, <2>2 DEF Progress, Publishing, Attached
  <2>5. /\ view[j].complied => b \in complied'
        /\ pc[j] \in Publishing \ {"group", "comply"} => b \in complied'
        /\ pc[j] \in Attached => b \in offered'
        /\ j \in waived' => pc[j] \in {"state", "after", "report", "ended"}
    BY <1>0 DEF Progress, Grows, Spared
  <2> QED
    BY <2>1, <2>3, <2>4, <2>5 DEF Progress
<1>6. Reported(j)'
  <2> DEFINE b == view[j].build
  <2>1. b' = b /\ pc'[j] = pc[j] /\ outcome'[j] = outcome[j] /\ report'[j] = report[j] /\ config' = config
    BY DEF Spared, Grows
  <2>2. outcome[j] = "ok" /\ config[j].kind = "testflight" =>
          /\ Valid(j, b)'
          /\ config[j].group # "none" => b \in complied' /\ b \in offered' /\ notes'[b] = Locales
          /\ Reviewed(j, b)'
    <3> SUFFICES ASSUME outcome[j] = "ok", config[j].kind = "testflight"
                 PROVE  /\ Valid(j, b)'
                        /\ config[j].group # "none" => b \in complied' /\ b \in offered' /\ notes'[b] = Locales
                        /\ Reviewed(j, b)'
      OBVIOUS
    <3>1. Valid(j, b) /\ Reviewed(j, b) /\ b \in Jobs
      BY <1>0 DEF Reported, Valid
    <3>2. config[j].group # "none" => b \in complied /\ b \in offered /\ notes[b] = Locales
      BY <1>0 DEF Reported
    <3>3. Valid(j, b)' /\ Reviewed(j, b)'
      BY <1>2, <1>3, <2>1, <3>1 DEF Valid, Reviewed
    <3> QED
      BY <1>4, <3>1, <3>2, <3>3 DEF Grows
  <2> QED
    BY <1>0, <2>1, <2>2 DEF Reported
<1> QED
  BY <1>1, <1>5, <1>6 DEF JobInv

\* A job changes nothing of another, and what it changes at App Store Connect grows.
LEMMA MovesGrow == ASSUME TypeOK, NEW j \in Jobs, Moves(j)
                   PROVE  Grows /\ \A k \in Jobs \ {j} : Spared(k)
BY DEF Moves, TypeOK, Grows, Spared, asc

\* Every step of a job grows what it touches and spares the other jobs.
LEMMA StepGrows ==
    ASSUME IInv, NEW j \in Jobs, Step(j)
    PROVE  Grows /\ \A k \in Jobs \ {j} : Spared(k)
<1>0. TypeOK /\ Numbered(j) /\ Progress(j)
  BY DEF IInv, JobInv
<1> USE DEF TypeOK, Grows, Spared
<1>1. CASE MovingStep(j)
  BY <1>0, <1>1, MovingMoves, MovesGrow
<1>2. CASE ChooseNumber(j)
  <2>1. upload[j] = "none"
    BY <1>0, <1>2 DEF ChooseNumber, At, Numbered, BeforeUpload, Unnumbered
  <2>2. /\ UNCHANGED <<config, view, todo, report, waived, asc>>
        /\ \A k \in Jobs \ {j} : number'[k] = number[k]
        /\ \A k \in Jobs \ {j} : pc'[k] = pc[k] /\ disk'[k] = disk[k] /\ outcome'[k] = outcome[k]
    BY <1>0, <1>2 DEF ChooseNumber, kept, Proceed, End, Goto
  <2> QED
    BY <2>1, <2>2 DEF asc
<1>3. CASE Upload(j)
  <2>1. /\ UNCHANGED <<config, view, todo, report, waived, number, complied, notes, offered, reviewed>>
        /\ \A k \in Jobs \ {j} : pc'[k] = pc[k] /\ disk'[k] = disk[k] /\ outcome'[k] = outcome[k]
        /\ upload' = upload \/ upload' = [upload EXCEPT ![j] = "pending"]
    BY <1>0, <1>3 DEF Upload, kept, Proceed, End, Goto
  <2>2. upload[j] = "none"
    BY <1>0, <1>3 DEF Upload, At, Numbered, BeforeUpload
  <2> QED
    BY <1>0, <2>1, <2>2
<1>4. CASE FindBuild(j) \/ FindGroup(j)
  <2>1. /\ UNCHANGED <<config, todo, report, waived, number, asc>>
        /\ \A k \in Jobs \ {j} : pc'[k] = pc[k] /\ disk'[k] = disk[k] /\ outcome'[k] = outcome[k] /\ view'[k] = view[k]
    BY <1>0, <1>4 DEF FindBuild, FindGroup, kept, Proceed, End, Goto
  <2> QED
    BY <2>1 DEF asc
<1>5. CASE SetCompliance(j)
  BY <1>0, <1>5 DEF SetCompliance, Write, kept, Proceed, End, Goto
<1>6. CASE ListNotes(j)
  BY <1>0, <1>6 DEF ListNotes, kept, Goto, asc
<1>7. CASE SetNote(j)
  <2>1. /\ UNCHANGED <<config, report, waived, number, view, upload, complied, offered, reviewed>>
        /\ \A k \in Jobs \ {j} : pc'[k] = pc[k] /\ disk'[k] = disk[k] /\ outcome'[k] = outcome[k] /\ todo'[k] = todo[k]
        /\ notes' = notes \/ \E l \in Locales : notes' = [notes EXCEPT ![view[j].build] = @ \cup {l}]
    BY <1>0, <1>7 DEF SetNote, Write, kept, Proceed, End, Goto
  <2> QED
    BY <1>0, <2>1
<1>8. CASE Attach(j)
  BY <1>0, <1>8 DEF Attach, kept, Goto
<1>9. CASE CheckBlockers(j)
  BY <1>0, <1>9 DEF CheckBlockers, kept, Goto, asc
<1>10. CASE SubmitReview(j)
  BY <1>0, <1>10 DEF SubmitReview, Write, kept, Proceed, End, Goto
<1>11. CASE Report(j)
  BY <1>0, <1>11 DEF Report, Goto, asc
<1> QED
  BY <1>1, <1>2, <1>3, <1>4, <1>5, <1>6, <1>7, <1>8, <1>9, <1>10, <1>11 DEF Step, MovingStep

\* The clock, App Store Connect and the team's link touch no job's own progress.
LEMMA OtherGrows ==
    ASSUME TypeOK, NEW j \in Jobs, Expire(j) \/ Ingest(j) \/ Process(j) \/ Relink
    PROVE  Grows /\ \A k \in Jobs : Spared(k)
<1> USE DEF TypeOK, Grows, Spared
<1>1. CASE Expire(j)
  BY <1>1 DEF Expire, asc
<1>2. CASE Ingest(j)
  BY <1>2 DEF Ingest, job, Indexed
<1>3. CASE Process(j)
  BY <1>3 DEF Process, job, Indexed
<1>4. CASE Relink
  BY <1>4 DEF Relink, job
<1> QED
  BY <1>1, <1>2, <1>3, <1>4

\* The job's own next place, by how its step ends.
LEMMA Lands == ASSUME TypeOK, NEW j \in Jobs
               PROVE  /\ \A s : Proceed(j, s) => pc'[j] = s /\ disk'[j] = disk[j] /\ outcome'[j] = outcome[j]
                      /\ \A s : Goto(j, s) => pc'[j] = s
                      /\ \A o : End(j, o) => pc'[j] = "report" /\ outcome'[j] = o /\ disk'[j] = Leave(j)
BY DEF TypeOK, Proceed, Goto, End

\* The workspace and the keychain go on every return of a TestFlight job.
LEMMA StepTidy ==
    ASSUME TypeOK, NEW j \in Jobs, Tidy(j), Step(j), config' = config
    PROVE  Tidy(j)'
<1>0. /\ config[j].kind \in Kinds /\ config'[j].kind = config[j].kind
      /\ disk[j] \subseteq {"log", "workspace", "keychain", "ipa"}
  BY ConfigTyped DEF TypeOK
<1>1. ASSUME NEW o, End(j, o) PROVE Tidy(j)'
  <2>1. pc'[j] = "report" /\ disk'[j] = Leave(j)
    BY <1>1, Lands
  <2> QED
    BY <1>0, <2>1 DEF Tidy, Leave
<1>2. ASSUME NEW s \in Steps \ {"start", "unpack"}, pc'[j] = s, disk'[j] = disk[j] PROVE Tidy(j)'
  BY <1>0, <1>2 DEF Tidy, Steps
<1>3. CASE Admit(j)
  <2>1. CASE End(j, "failed")
    BY <1>1, <2>1
  <2>2. CASE Proceed(j, "unpack")
    <3>1. pc[j] = "start" /\ pc'[j] = "unpack" /\ disk'[j] = disk[j]
      BY <1>3, <2>2, Lands DEF Admit, At
    <3> QED
      BY <1>0, <3>1 DEF Tidy
  <2> QED
    BY <1>3, <2>1, <2>2 DEF Admit
<1>4. CASE Unpack(j)
  <2>1. CASE End(j, "failed")
    BY <1>1, <2>1
  <2>2. CASE ~End(j, "failed")
    <3>1. /\ pc[j] = "unpack" /\ pc'[j] \in {"keychain", "number", "report"}
          /\ disk'[j] \in {disk[j], disk[j] \cup {"workspace"}}
          /\ pc'[j] = "report" /\ config[j].kind = "testflight" => disk'[j] = disk[j]
      BY <1>4, <2>2, Lands DEF Unpack, At, TypeOK
    <3> QED
      BY <1>0, <3>1 DEF Tidy
  <2> QED
    BY <2>1, <2>2
<1>5. CASE OpenKeychain(j)
  <2>1. CASE End(j, "failed")
    BY <1>1, <2>1
  <2>2. CASE ~End(j, "failed")
    <3>1. pc'[j] = "sign" /\ disk'[j] = disk[j] \cup {"keychain"}
      BY <1>5, <2>2, Lands DEF OpenKeychain, TypeOK
    <3> QED
      BY <1>0, <3>1 DEF Tidy
  <2> QED
    BY <2>1, <2>2
<1>6. CASE Sign(j)
  <2>1. /\ pc'[j] \in {"package", "report"}
        /\ disk'[j] \in {disk[j] \ {"keychain"}, Leave(j)}
        /\ pc'[j] = "report" /\ config[j].kind = "testflight" => disk'[j] = Leave(j)
    BY <1>6, Lands DEF Sign, TypeOK
  <2> QED
    BY <1>0, <2>1 DEF Tidy, Leave
<1>7. CASE Package(j)
  <2>1. CASE config[j].kind = "testflight"
    BY <1>1, <1>2, <1>7, <2>1, Lands DEF Package, Steps
  <2>2. CASE config[j].kind # "testflight"
    BY <1>0, <1>7, <2>2, Lands DEF Package, Tidy
  <2> QED
    BY <2>1, <2>2
<1>8. CASE Report(j)
  <2>1. /\ pc[j] = "report" /\ pc'[j] = "ended"
        /\ disk'[j] = disk[j] \ ({"log"} \cup (IF config[j].kind = "adhoc" /\ outcome[j] = "ok" THEN {"ipa"} ELSE {}))
    BY <1>8, Lands DEF Report, At, TypeOK
  <2> QED
    BY <1>0, <2>1 DEF Tidy
<1>9. CASE ~(Admit(j) \/ Unpack(j) \/ OpenKeychain(j) \/ Sign(j) \/ Package(j) \/ Report(j))
  <2>1. \/ \E o : End(j, o)
        \/ /\ disk'[j] = disk[j] /\ pc'[j] \in Steps \ {"start", "unpack"}
    <3>1. CASE \/ ChooseNumber(j) \/ Validate(j) \/ Upload(j) \/ FindApp(j) \/ FindFailedUpload(j) \/ Wait(j)
               \/ SetCompliance(j) \/ ListNotes(j) \/ CompareLink(j) \/ ReadFails(j)
      BY <3>1, Lands DEF ChooseNumber, Validate, Upload, FindApp, FindFailedUpload, Wait, SetCompliance, Write,
         ListNotes, CompareLink, ReadFails, Steps
    <3>2. CASE FindBuild(j) \/ FindGroup(j)
      BY <3>2, Lands DEF FindBuild, FindGroup, Steps
    <3>3. CASE SetNote(j)
      BY <3>3, Lands DEF SetNote, Write, Steps
    <3>4. CASE Attach(j) \/ BuildInGroup(j) \/ CheckBlockers(j) \/ FindReview(j) \/ SubmitReview(j) \/ ReadState(j)
      BY <3>4, Lands DEF Attach, BuildInGroup, AfterAttach, CheckBlockers, FindReview, SubmitReview, Write, ReadState, Steps
    <3> QED
      BY <1>9, <3>1, <3>2, <3>3, <3>4 DEF Step
  <2> QED
    BY <1>1, <1>2, <2>1
<1> QED
  BY <1>3, <1>4, <1>5, <1>6, <1>7, <1>8, <1>9

\* A build number is fixed before anything is uploaded under it.
LEMMA StepNumbered ==
    ASSUME TypeOK, NEW j \in Jobs, Numbered(j), Step(j), config' = config
    PROVE  Numbered(j)'
<1>0. /\ config[j].kind \in Kinds /\ config'[j].kind = config[j].kind
      /\ number[j] \in Numbers \cup {NoBuild}
  BY ConfigTyped DEF TypeOK
<1> USE DEF Numbered, BeforeUpload, Unnumbered, At
<1>1. ASSUME NEW o, End(j, o), number'[j] = number[j], upload'[j] = upload[j] PROVE Numbered(j)'
  BY <1>0, <1>1, Lands DEF Steps
<1>2. CASE ChooseNumber(j)
  BY <1>0, <1>1, <1>2, Lands DEF ChooseNumber, TypeOK, asc, Steps, Kinds
<1>3. CASE Upload(j)
  <2>1. /\ pc[j] = "upload" /\ pc'[j] \in {"app", "report"} /\ number'[j] = number[j]
    BY <1>3, Lands DEF Upload
  <2> QED
    BY <1>0, <2>1 DEF Steps, Kinds
<1>4. CASE /\ \/ Admit(j) \/ Unpack(j) \/ OpenKeychain(j) \/ Sign(j) \/ Package(j) \/ Validate(j) \/ ReadFails(j)
  <2>1. UNCHANGED <<number, upload>>
    BY <1>4 DEF Admit, Unpack, OpenKeychain, Sign, Package, Validate, ReadFails, asc
  <2>2. \/ pc'[j] = "report"
        \/ pc[j] = "start" /\ pc'[j] = "unpack"
        \/ pc[j] = "unpack" /\ pc'[j] = "keychain" /\ config[j].kind = "adhoc"
        \/ pc[j] = "unpack" /\ pc'[j] = "number" /\ config[j].kind # "adhoc"
        \/ pc[j] = "keychain" /\ pc'[j] = "sign"
        \/ pc[j] = "sign" /\ pc'[j] = "package"
        \/ pc[j] = "package" /\ pc'[j] = "validate" /\ config[j].kind = "testflight"
        \/ pc[j] = "validate" /\ pc'[j] = "upload"
    BY <1>4, Lands DEF Admit, Unpack, OpenKeychain, Sign, Package, Validate, ReadFails
  <2> QED
    BY <1>0, <2>1, <2>2 DEF Steps, Kinds
<1>5. CASE Report(j)
  <2>1. pc'[j] = "ended" /\ UNCHANGED <<number, upload>>
    BY <1>5, Lands DEF Report, asc
  <2> QED
    BY <1>0, <2>1 DEF Steps
<1>6. CASE \/ FindApp(j) \/ FindBuild(j) \/ FindFailedUpload(j) \/ Wait(j) \/ FindGroup(j) \/ SetCompliance(j) \/ ListNotes(j)
           \/ SetNote(j) \/ Attach(j) \/ BuildInGroup(j) \/ CheckBlockers(j) \/ FindReview(j) \/ SubmitReview(j)
           \/ ReadState(j) \/ CompareLink(j)
  <2>1. UNCHANGED <<number, upload>>
    BY <1>6 DEF FindApp, FindBuild, FindFailedUpload, Wait, FindGroup, SetCompliance, ListNotes, SetNote, Attach,
       BuildInGroup, CheckBlockers, FindReview, SubmitReview, ReadState, CompareLink, asc
  <2>2. pc[j] \in Steps \ BeforeUpload
    BY <1>6 DEF FindApp, FindBuild, FindFailedUpload, Wait, FindGroup, SetCompliance, ListNotes, SetNote, Attach,
       BuildInGroup, CheckBlockers, FindReview, SubmitReview, ReadState, CompareLink, Steps
  <2>3. pc'[j] \in (Steps \ BeforeUpload) \cup {"report"}
    <3>1. CASE \/ FindApp(j) \/ FindBuild(j) \/ FindFailedUpload(j) \/ Wait(j) \/ FindGroup(j) \/ SetCompliance(j)
               \/ ListNotes(j)
      BY <3>1, Lands DEF FindApp, FindBuild, FindFailedUpload, Wait, FindGroup, SetCompliance, Write, ListNotes, Steps
    <3>2. CASE SetNote(j)
      BY <3>2, Lands DEF SetNote, Write, Steps
    <3>3. CASE Attach(j) \/ BuildInGroup(j) \/ CheckBlockers(j) \/ FindReview(j) \/ SubmitReview(j) \/ ReadState(j) \/ CompareLink(j)
      BY <3>3, Lands DEF Attach, BuildInGroup, AfterAttach, CheckBlockers, FindReview, SubmitReview, Write, ReadState,
         CompareLink, Steps
    <3> QED
      BY <1>6, <3>1, <3>2, <3>3
  <2> QED
    BY <1>0, <2>1, <2>2, <2>3 DEF Steps, Kinds
<1> QED
  BY <1>2, <1>3, <1>4, <1>5, <1>6 DEF Step

\* A job that has nothing to account for yet, or any more.
LEMMA IdleProgress ==
    ASSUME NEW j \in Jobs, Progress(j), Grows, view'[j] = view[j],
           \/ pc'[j] \in {"report", "ended"}
           \/ pc'[j] \notin Publishing /\ pc[j] \notin {"state", "after", "report", "ended"} /\ waived' = waived
    PROVE  Progress(j)'
BY DEF Progress, Grows, Publishing, Attached

\* A job that goes on publishing the build it has.
LEMMA SameBuild ==
    ASSUME TypeOK, TypeOK', Grows, NEW j \in Jobs, Progress(j), pc[j] \in Publishing,
           number'[j] = number[j], view'[j].build = view[j].build, view'[j].complied = view[j].complied
    PROVE  LET b == view[j].build IN
           /\ b \in Jobs /\ view'[j].build = b
           /\ Valid(j, b)' /\ config'[j].group # "none"
           /\ view'[j].complied => b \in complied'
           /\ b \in complied => b \in complied'
           /\ notes[b] = Locales => notes'[b] = Locales
           /\ b \in offered => b \in offered'
           /\ Reviewed(j, b) => Reviewed(j, b)'
<1> DEFINE b == view[j].build
<1>1. b \in Jobs /\ upload[b] = "valid" /\ number[b] = number[j] /\ config[j].group # "none"
  BY DEF Progress, Valid
<1>2. number'[b] = number[b] /\ upload'[b] = "valid" /\ notes[b] \subseteq notes'[b] /\ notes'[b] \subseteq Locales
  BY <1>1 DEF Grows, TypeOK
<1>3. Valid(j, b)' /\ config'[j].group # "none"
  BY <1>1, <1>2 DEF Valid, Grows
<1>4. Reviewed(j, b) => Reviewed(j, b)'
  BY DEF Reviewed, Grows
<1> QED
  BY <1>1, <1>2, <1>3, <1>4 DEF Grows, Progress

\* What publishing has achieved so far is what the next step builds on.
LEMMA StepProgress ==
    ASSUME IInv, Grows, TypeOK', NEW j \in Jobs, Step(j)
    PROVE  Progress(j)'
<1> DEFINE b == view[j].build
<1>0. /\ TypeOK /\ Progress(j) /\ offered \subseteq complied
      /\ config[j].kind \in Kinds /\ config[j].group \in Groups /\ config' = config
  BY ConfigTyped DEF IInv, JobInv, Chain, TypeOK, Grows
<1>1. ASSUME view'[j] = view[j],
             \/ pc'[j] \in {"report", "ended"}
             \/ pc'[j] \notin Publishing /\ pc[j] \notin {"state", "after", "report", "ended"} /\ waived' = waived
      PROVE  Progress(j)'
  BY <1>0, <1>1, IdleProgress
<1>2. CASE \/ Admit(j) \/ Unpack(j) \/ ChooseNumber(j) \/ OpenKeychain(j) \/ Sign(j) \/ Package(j) \/ Validate(j)
           \/ Upload(j) \/ FindApp(j) \/ FindFailedUpload(j) \/ Wait(j)
  <2>1. view' = view /\ waived' = waived
    BY <1>2 DEF Admit, Unpack, ChooseNumber, OpenKeychain, Sign, Package, Validate, Upload, FindApp,
       FindFailedUpload, Wait, kept
  <2>2. pc'[j] \notin Publishing /\ pc[j] \notin {"state", "after", "report", "ended"}
    <3>1. CASE Admit(j) \/ Unpack(j) \/ OpenKeychain(j) \/ Sign(j) \/ Package(j) \/ Validate(j)
      BY <1>0, <3>1, Lands DEF Admit, Unpack, OpenKeychain, Sign, Package, Validate, At, Publishing
    <3>2. CASE ChooseNumber(j) \/ Upload(j) \/ FindApp(j) \/ FindFailedUpload(j) \/ Wait(j)
      BY <1>0, <3>2, Lands DEF ChooseNumber, Upload, FindApp, FindFailedUpload, Wait, At, Publishing
    <3> QED
      BY <1>2, <3>1, <3>2
  <2> QED
    BY <1>1, <2>1, <2>2
<1>3. CASE ReadFails(j) \/ Report(j) \/ CompareLink(j)
  <2>1. view' = view /\ pc'[j] \in {"report", "ended"}
    BY <1>0, <1>3, Lands DEF ReadFails, Report, CompareLink
  <2> QED
    BY <1>1, <2>1
<1>4. CASE FindBuild(j)
  <2>1. pc[j] = "poll" /\ waived' = waived /\ UNCHANGED <<number, asc>> /\ pc'[j] \in {"uploads", "wait", "report", "group"}
    BY <1>0, <1>4, Lands DEF FindBuild, At
  <2>2. CASE view' = view /\ pc'[j] # "group"
    BY <1>1, <2>1, <2>2 DEF Publishing
  <2>3. CASE ~(view' = view /\ pc'[j] # "group")
    <3>1. PICK c \in WithNumber(number[j]) :
             /\ upload[c] = "valid"
             /\ view' = [view EXCEPT ![j] = [@ EXCEPT !.build = c, !.complied = c \in complied]]
             /\ pc'[j] = "report" \/ (pc'[j] = "group" /\ config[j].group # "none")
      <4> DEFINE c == CHOOSE c \in WithNumber(number[j]) : TRUE
      <4>1. WithNumber(number[j]) # {}
        BY <1>0, <1>4, <2>3, Lands DEF FindBuild
      <4>2. c \in WithNumber(number[j])
        BY <4>1
      <4>3. /\ upload[c] = "valid"
            /\ view' = [view EXCEPT ![j] = [@ EXCEPT !.build = c, !.complied = c \in complied]]
            /\ IF config[j].group = "none" THEN End(j, "ok") ELSE Proceed(j, "group")
        BY <1>0, <1>4, <2>3, <4>1, Lands DEF FindBuild
      <4> HIDE DEF c
      <4> QED
        BY <1>0, <4>2, <4>3, Lands
    <3>2. view'[j].build = c /\ (view'[j].complied <=> c \in complied)
      <4>1. view'[j] = [view[j] EXCEPT !.build = c, !.complied = c \in complied]
        BY <1>0, <3>1 DEF TypeOK
      <4>2. view[j] \in [build : Jobs \cup {NoBuild}, complied : BOOLEAN, link : {"none", "expected"}]
        BY <1>0 DEF TypeOK
      <4>3. ASSUME NEW answered \in BOOLEAN
            PROVE  [view[j] EXCEPT !.build = c, !.complied = answered].complied = answered
        BY <4>2
      <4>4. view'[j].build = c
        BY <4>1, <4>2
      <4>5. view'[j].complied = (c \in complied)
        BY <4>1, <4>3, Zenon
      <4> QED
        BY <4>4, <4>5
    <3>3. Valid(j, c)'
      BY <2>1, <3>1 DEF Valid, WithNumber, Builds, asc
    <3>4. j \in waived => pc[j] \in {"state", "after", "report", "ended"}
      BY <1>0 DEF Progress
    <3> QED
      BY <1>0, <2>1, <3>1, <3>2, <3>3, <3>4 DEF Progress, Publishing, Attached, asc
  <2> QED
    BY <2>2, <2>3
<1>5. CASE FindGroup(j)
  <2>1. /\ pc[j] = "group" /\ UNCHANGED <<waived, number, asc>>
        /\ view'[j].build = b /\ view'[j].complied = view[j].complied
        /\ \/ pc'[j] = "report"
           \/ pc'[j] = "notes" /\ view[j].complied
           \/ pc'[j] = "comply"
    BY <1>0, <1>5, Lands DEF FindGroup, At, TypeOK
  <2>2. /\ Valid(j, b)' /\ config'[j].group # "none"
        /\ view'[j].complied => b \in complied'
    BY <1>0, <2>1, SameBuild DEF Publishing
  <2> QED
    BY <1>0, <2>1, <2>2 DEF Progress, Publishing, Attached
<1>6. CASE SetCompliance(j)
  <2>1. /\ pc[j] = "comply" /\ UNCHANGED <<waived, number, view>>
        /\ pc'[j] = "report" \/ (pc'[j] = "notes" /\ b \in complied')
    BY <1>0, <1>6, Lands DEF SetCompliance, Write, At
  <2>2. /\ Valid(j, b)' /\ config'[j].group # "none"
        /\ view'[j].complied => b \in complied'
    BY <1>0, <2>1, SameBuild DEF Publishing
  <2> QED
    BY <1>0, <2>1, <2>2 DEF Progress, Publishing, Attached
<1>7. CASE ListNotes(j)
  <2>1. /\ pc[j] = "notes" /\ UNCHANGED <<waived, number, view, complied>>
        /\ pc'[j] = "localise" /\ todo'[j] = Locales
    BY <1>0, <1>7, Lands DEF ListNotes, At, TypeOK, asc
  <2>2. /\ Valid(j, b)' /\ config'[j].group # "none"
    BY <1>0, <2>1, SameBuild DEF Publishing
  <2> QED
    BY <1>0, <2>1, <2>2 DEF Progress, Publishing, Attached
<1>8. CASE SetNote(j)
  <2>0. pc[j] = "localise" /\ UNCHANGED <<waived, number, view, complied>> /\ b \in Jobs
    BY <1>0, <1>8 DEF SetNote, At, Progress, Valid, Publishing
  <2>1. \/ pc'[j] = "report"
        \/ pc'[j] = "localise" /\ notes[b] \cup todo[j] \subseteq notes'[b] \cup todo'[j]
        \/ pc'[j] = "attach" /\ todo[j] = {} /\ notes' = notes
    BY <1>0, <1>8, <2>0, Lands DEF SetNote, Write, TypeOK
  <2>2. Valid(j, b)' /\ config'[j].group # "none"
    BY <1>0, <2>0, SameBuild DEF Publishing
  <2>3. Locales \subseteq notes[b] \cup todo[j] /\ notes[b] \subseteq Locales
    BY <1>0, <2>0 DEF Progress, TypeOK
  <2> QED
    BY <1>0, <2>0, <2>1, <2>2, <2>3 DEF Progress, Publishing, Attached
<1>9. CASE Attach(j) \/ BuildInGroup(j)
  <2>1. /\ pc[j] \in {"attach", "attached"} /\ UNCHANGED <<waived, number, view, complied, notes>>
        /\ \/ pc'[j] \in {"report", "attached"}
           \/ pc'[j] = AfterAttach(j) /\ b \in offered'
    BY <1>0, <1>9, Lands DEF Attach, BuildInGroup, At, asc
  <2>2. Valid(j, b)' /\ config'[j].group # "none"
    BY <1>0, <2>1, SameBuild DEF Publishing
  <2>3. config[j].group # "review" => Reviewed(j, b)'
    BY <1>0 DEF Reviewed
  <2>4. b \in complied /\ notes[b] = Locales /\ j \notin waived
    BY <1>0, <2>1 DEF Progress, Publishing
  <2> QED
    BY <1>0, <2>1, <2>2, <2>3, <2>4 DEF Progress, Publishing, Attached, AfterAttach
<1>10. CASE CheckBlockers(j) \/ FindReview(j) \/ SubmitReview(j) \/ ReadState(j)
  <2>1. /\ pc[j] \in Attached /\ UNCHANGED <<number, view, complied, notes, offered>>
        /\ \/ pc'[j] = "report"
           \/ pc'[j] \in {"review", "submit"} /\ waived' = waived /\ pc[j] \notin {"state", "after"}
           \/ pc'[j] = "state" /\ (b \in reviewed' \/ j \in waived')
           \/ pc'[j] = "after" /\ pc[j] = "state"
    BY <1>0, <1>10, Lands DEF CheckBlockers, FindReview, SubmitReview, Write, ReadState, At, Attached, asc
  <2>2. /\ Valid(j, b)' /\ config'[j].group # "none"
        /\ view'[j].complied => b \in complied'
        /\ Reviewed(j, b) => Reviewed(j, b)'
    BY <1>0, <2>1, SameBuild DEF Publishing, Attached
  <2>3. pc'[j] \in {"state", "after"} => Reviewed(j, b)'
    BY <1>0, <2>1, <2>2 DEF Progress, Reviewed
  <2>4. b \in complied /\ notes[b] = Locales /\ b \in offered
    BY <1>0, <2>1 DEF Progress, Publishing, Attached
  <2> QED
    BY <1>0, <2>1, <2>2, <2>3, <2>4 DEF Progress, Publishing, Attached
<1> QED
  BY <1>2, <1>3, <1>4, <1>5, <1>6, <1>7, <1>8, <1>9, <1>10 DEF Step

\* A job that ends well has done all it was asked to.
LEMMA StepReported ==
    ASSUME IInv, Grows, TypeOK', NEW j \in Jobs, Step(j)
    PROVE  Reported(j)'
<1> DEFINE b == view[j].build
<1>0. /\ TypeOK /\ Progress(j) /\ Numbered(j) /\ Reported(j) /\ config' = config
      /\ config[j].kind \in Kinds /\ config[j].group \in Groups /\ offered \subseteq complied
  BY ConfigTyped DEF IInv, JobInv, TypeOK, Grows, Chain
<1>1. CASE Report(j)
  <2>1. /\ pc[j] = "report" /\ pc'[j] = "ended" /\ UNCHANGED <<outcome, view, number, asc, waived>>
        /\ report'[j] = "ok" => outcome[j] = "ok"
    BY <1>0, <1>1, Lands DEF Report, At, TypeOK
  <2> QED
    BY <1>0, <2>1 DEF Reported, Valid, Reviewed, asc
<1>2. CASE ~Report(j)
  <2>1. report' = report /\ pc[j] \notin {"report", "ended"} /\ report[j] = "none" /\ outcome[j] = "none"
    <3>1. report' = report
      BY <1>2 DEF Step, Admit, Unpack, ChooseNumber, OpenKeychain, Sign, Package, Validate, Upload, FindApp, FindBuild,
         FindFailedUpload, Wait, FindGroup, SetCompliance, ListNotes, SetNote, Attach, BuildInGroup, CheckBlockers,
         FindReview, SubmitReview, ReadState, CompareLink, ReadFails, kept
    <3>2. pc[j] \notin {"report", "ended"}
      BY <1>2 DEF Step, Admit, Unpack, ChooseNumber, OpenKeychain, Sign, Package, Validate, Upload, FindApp, FindBuild,
         FindFailedUpload, Wait, FindGroup, SetCompliance, ListNotes, SetNote, Attach, BuildInGroup, CheckBlockers,
         FindReview, SubmitReview, ReadState, CompareLink, ReadFails, At
    <3> QED
      BY <1>0, <3>1, <3>2 DEF Reported
  <2>2. CASE outcome'[j] = "none" \/ (pc'[j] = "report" /\ outcome'[j] # "ok")
    BY <1>0, <2>1, <2>2 DEF Reported
  <2>3. CASE FindBuild(j)
    <3>1. CASE config[j].group = "none" /\ pc'[j] = "report" /\ outcome'[j] = "ok"
      <4>1. PICK c \in WithNumber(number[j]) :
               upload[c] = "valid" /\ view' = [view EXCEPT ![j] = [@ EXCEPT !.build = c, !.complied = c \in complied]]
        <5> DEFINE c == CHOOSE c \in WithNumber(number[j]) : TRUE
        <5>1. WithNumber(number[j]) # {}
          BY <1>0, <2>3, <3>1, Lands DEF FindBuild
        <5>2. c \in WithNumber(number[j])
          BY <5>1
        <5>3. /\ upload[c] = "valid"
              /\ view' = [view EXCEPT ![j] = [@ EXCEPT !.build = c, !.complied = c \in complied]]
          BY <1>0, <2>3, <3>1, <5>1, Lands DEF FindBuild
        <5> HIDE DEF c
        <5> QED
          BY <5>2, <5>3
      <4>2. view'[j].build = c
        <5>1. view'[j] = [view[j] EXCEPT !.build = c, !.complied = c \in complied]
          BY <1>0, <4>1 DEF TypeOK
        <5>2. view[j] \in [build : Jobs \cup {NoBuild}, complied : BOOLEAN, link : {"none", "expected"}]
          BY <1>0 DEF TypeOK
        <5> QED
          BY <5>1, <5>2
      <4>3. UNCHANGED <<number, asc>>
        BY <2>3 DEF FindBuild
      <4>4. Valid(j, c)'
        BY <4>1, <4>3 DEF Valid, WithNumber, Builds, asc
      <4> QED
        BY <1>0, <2>1, <3>1, <4>2, <4>4 DEF Reported, Reviewed
    <3>2. CASE ~(config[j].group = "none" /\ pc'[j] = "report" /\ outcome'[j] = "ok")
      <4>1. outcome'[j] = "none" \/ (pc'[j] = "report" /\ outcome'[j] # "ok")
        BY <1>0, <2>1, <2>3, <3>2, Lands DEF FindBuild
      <4> QED
        BY <2>2, <4>1
    <3> QED
      BY <3>1, <3>2
  <2>4. CASE CompareLink(j)
    <3>1. pc[j] = "after" /\ pc'[j] = "report" /\ UNCHANGED <<number, view, waived, asc>>
      BY <1>0, <2>4, Lands DEF CompareLink, At
    <3>2. Valid(j, b)' /\ b \in complied /\ b \in offered /\ notes[b] = Locales /\ Reviewed(j, b)'
      BY <1>0, <3>1 DEF Progress, Publishing, Attached, Valid, Reviewed, asc
    <3> QED
      BY <1>0, <2>1, <3>1, <3>2 DEF Reported, asc
  <2>5. CASE Package(j) /\ config[j].kind = "adhoc"
    <3>1. pc'[j] = "report"
      BY <1>0, <2>5, Lands DEF Package
    <3> QED
      BY <1>0, <2>1, <2>5, <3>1 DEF Reported
  <2>6. CASE ~(FindBuild(j) \/ CompareLink(j) \/ (Package(j) /\ config[j].kind = "adhoc"))
    <3>1. outcome'[j] = outcome[j] \/ (pc'[j] = "report" /\ outcome'[j] # "ok")
      <4>1. CASE \/ Admit(j) \/ Unpack(j) \/ OpenKeychain(j) \/ Validate(j) \/ Upload(j) \/ FindApp(j)
                 \/ FindFailedUpload(j) \/ Wait(j) \/ ReadFails(j)
        BY <1>0, <4>1, Lands DEF Admit, Unpack, OpenKeychain, Validate, Upload, FindApp, FindFailedUpload, Wait,
           ReadFails, TypeOK
      <4>2. CASE ChooseNumber(j) \/ FindGroup(j)
        BY <1>0, <4>2, Lands DEF ChooseNumber, FindGroup
      <4>3. CASE Sign(j)
        BY <1>0, <4>3, Lands DEF Sign, TypeOK
      <4>4. CASE Package(j)
        BY <1>0, <2>6, <4>4, Lands DEF Package, Kinds
      <4>5. CASE SetCompliance(j) \/ ListNotes(j) \/ SetNote(j) \/ SubmitReview(j)
        BY <1>0, <4>5, Lands DEF SetCompliance, ListNotes, SetNote, SubmitReview, Write
      <4>6. CASE Attach(j) \/ BuildInGroup(j) \/ CheckBlockers(j) \/ FindReview(j) \/ ReadState(j)
        BY <1>0, <4>6, Lands DEF Attach, BuildInGroup, CheckBlockers, FindReview, ReadState
      <4> QED
        BY <1>2, <2>6, <4>1, <4>2, <4>3, <4>4, <4>5, <4>6 DEF Step
    <3> QED
      BY <2>1, <2>2, <3>1
  <2> QED
    BY <2>3, <2>4, <2>5, <2>6
<1> QED
  BY <1>1, <1>2

\* A job that starts has only opened its log.
LEMMA StartInv ==
    ASSUME IInv, TypeOK', NEW j \in Jobs, Start(j)
    PROVE  Grows /\ \A k \in Jobs : JobInv(k)'
<1>0. TypeOK /\ JobInv(j)
  BY DEF IInv
<1>1. Grows /\ \A k \in Jobs \ {j} : Spared(k)
  BY <1>0 DEF Start, Goto, TypeOK, Grows, Spared, asc
<1>2. /\ pc[j] = "idle" /\ pc'[j] = "start" /\ disk'[j] = {"log"}
      /\ UNCHANGED <<config, number, view, todo, waived, outcome, report, asc>>
  BY <1>0 DEF Start, At, Goto, TypeOK
<1>3. Tidy(j)'
  BY <1>2 DEF Tidy
<1>4. Numbered(j)' /\ Reported(j)'
  BY <1>0, <1>2 DEF JobInv, Numbered, Reported, BeforeUpload, Unnumbered, Steps, asc
<1>5. Progress(j)'
  BY <1>0, <1>1, <1>2, IdleProgress DEF JobInv, Publishing
<1> QED
  BY <1>1, <1>3, <1>4, <1>5, SparedKept DEF JobInv

\* App Store Connect takes in at most one build of each number.
LEMMA NextUnique == ASSUME IInv, Grows, Next PROVE Unique'
<1>0. TypeOK /\ Unique /\ \A j \in Jobs : Numbered(j)
  BY DEF IInv, JobInv
<1>1. ASSUME \A k \in Jobs : upload'[k] \in Indexed => upload[k] \in Indexed
      PROVE  Unique'
  <2>1. \A k \in Builds' : k \in Builds /\ number'[k] = number[k]
    BY <1>1 DEF Builds, Indexed, Grows
  <2> QED
    BY <1>0, <2>1 DEF Unique
<1>2. ASSUME NEW b \in Jobs, Ingest(b) PROVE Unique'
  <2>1. number' = number
    BY <1>2 DEF Ingest, job
  <2>2. CASE upload' = [upload EXCEPT ![b] = "rejected"]
    BY <1>0, <1>1, <2>2 DEF TypeOK, Indexed
  <2>3. CASE WithNumber(number[b]) = {} /\ upload' = [upload EXCEPT ![b] = "processing"]
    <3>1. Builds' \subseteq Builds \cup {b}
      BY <1>0, <2>3 DEF Builds, TypeOK
    <3>2. \A k \in Builds : number[k] # number[b]
      BY <2>3 DEF WithNumber
    <3> QED
      BY <1>0, <2>1, <3>1, <3>2 DEF Unique
  <2> QED
    BY <1>2, <2>2, <2>3 DEF Ingest
<1>3. ASSUME NEW b \in Jobs, Process(b) PROVE Unique'
  BY <1>0, <1>1, <1>3 DEF Process, TypeOK, Indexed
<1>4. ASSUME NEW j \in Jobs, Start(j) \/ Step(j) \/ Expire(j) PROVE Unique'
  <2>1. upload' = upload \/ upload' = [upload EXCEPT ![j] = "pending"]
    BY <1>4 DEF Step, Start, Expire, Admit, Unpack, ChooseNumber, OpenKeychain, Sign, Package, Validate, Upload,
       FindApp, FindBuild, FindFailedUpload, Wait, FindGroup, SetCompliance, ListNotes, SetNote, Attach, BuildInGroup,
       CheckBlockers, FindReview, SubmitReview, ReadState, CompareLink, ReadFails, Report, asc
  <2> QED
    BY <1>0, <1>1, <2>1 DEF TypeOK, Indexed
<1>5. CASE Relink
  BY <1>1, <1>5 DEF Relink
<1> QED
  BY <1>2, <1>3, <1>4, <1>5 DEF Next

\* Testers see only builds whose export question is answered, reviewers only
\* builds testers may see.
LEMMA NextChain == ASSUME IInv, Grows, Next PROVE Chain'
<1>0. TypeOK /\ Chain /\ \A j \in Jobs : Progress(j)
  BY DEF IInv, JobInv
<1>1. ASSUME UNCHANGED <<offered, reviewed>> PROVE Chain'
  BY <1>0, <1>1 DEF Chain, Grows, TypeOK
<1>2. ASSUME NEW j \in Jobs, Attach(j) PROVE Chain'
  <2> DEFINE b == view[j].build
  <2>1. b \in Jobs /\ upload[b] = "valid" /\ b \in complied
    BY <1>0, <1>2 DEF Attach, At, Progress, Publishing, Valid
  <2>2. offered \subseteq offered' /\ offered' \subseteq offered \cup {b} /\ reviewed' = reviewed
    BY <1>2 DEF Attach
  <2> QED
    BY <1>0, <2>1, <2>2 DEF Chain, Grows, TypeOK
<1>3. ASSUME NEW j \in Jobs, SubmitReview(j) PROVE Chain'
  <2> DEFINE b == view[j].build
  <2>1. b \in offered
    BY <1>0, <1>3 DEF SubmitReview, At, Progress, Attached
  <2>2. reviewed' \subseteq reviewed \cup {b} /\ offered' = offered
    BY <1>3 DEF SubmitReview, Write
  <2> QED
    BY <1>0, <2>1, <2>2 DEF Chain, Grows, TypeOK
<1>4. ASSUME NEW j \in Jobs, Start(j) \/ Step(j) \/ Expire(j) \/ Ingest(j) \/ Process(j), ~Attach(j), ~SubmitReview(j)
      PROVE  UNCHANGED <<offered, reviewed>>
  BY <1>4 DEF Step, Start, Expire, Ingest, Process, Admit, Unpack, ChooseNumber, OpenKeychain, Sign, Package, Validate, Upload,
       FindApp, FindBuild, FindFailedUpload, Wait, FindGroup, SetCompliance, ListNotes, SetNote, BuildInGroup,
       CheckBlockers, FindReview, ReadState, CompareLink, ReadFails, Report, asc
<1>5. CASE Relink
  BY <1>1, <1>5 DEF Relink
<1> QED
  BY <1>1, <1>2, <1>3, <1>4, <1>5 DEF Next

\* The invariant holds at the start.
LEMMA InitInv == Init => IInv
<1> SUFFICES ASSUME Init PROVE IInv
  OBVIOUS
<1>1. TypeOK
  BY PlansAssumption DEF Init, TypeOK, NotSeen
<1>2. Unique /\ Chain
  BY DEF Init, Unique, Chain, Builds, Indexed
<1>3. ASSUME NEW j \in Jobs PROVE JobInv(j)
  <2>1. Tidy(j) /\ Numbered(j) /\ Reported(j)
    BY DEF Init, Tidy, Numbered, Reported, BeforeUpload, Unnumbered, Steps
  <2>2. Progress(j)
    BY DEF Init, Progress, NotSeen, Publishing, Attached
  <2> QED
    BY <2>1, <2>2 DEF JobInv
<1> QED
  BY <1>1, <1>2, <1>3 DEF IInv

\* Every step of the system keeps the invariant, and takes nothing back.
LEMMA NextGrows == ASSUME IInv, [Next]_vars PROVE IInv' /\ Grows
<1>0. TypeOK /\ \A j \in Jobs : Progress(j) /\ JobInv(j)
  BY DEF IInv, JobInv
<1>1. CASE UNCHANGED vars
  <2>1. TypeOK' /\ Unique' /\ Chain' /\ Grows /\ \A k \in Jobs : Spared(k)
    BY <1>0, <1>1 DEF IInv, TypeOK, Unique, Chain, Builds, Grows, Spared, vars, job, asc
  <2> QED
    BY <2>1, SparedKept DEF IInv
<1>2. ASSUME Next, TypeOK', Grows, \A j \in Jobs : JobInv(j)' PROVE IInv' /\ Grows
  BY <1>2, NextUnique, NextChain DEF IInv
<1>3. ASSUME Next, NEW j \in Jobs, Start(j) PROVE IInv' /\ Grows
  BY <1>0, <1>2, <1>3, OtherTyped, StartInv
<1>4. ASSUME Next, NEW j \in Jobs, Step(j) PROVE IInv' /\ Grows
  <2>1. TypeOK' /\ Grows /\ \A k \in Jobs \ {j} : Spared(k)
    BY <1>0, <1>4, StepTyped, StepGrows
  <2>2. \A k \in Jobs \ {j} : JobInv(k)'
    BY <2>1, SparedKept
  <2>3. JobInv(j)'
    <3>1. config' = config /\ TypeOK /\ Tidy(j) /\ Numbered(j)
      BY <1>0, <2>1 DEF Grows, JobInv
    <3> QED
      BY <1>4, <2>1, <3>1, StepTidy, StepNumbered, StepProgress, StepReported DEF JobInv
  <2> QED
    BY <1>2, <1>4, <2>1, <2>2, <2>3
<1>5. ASSUME Next, NEW j \in Jobs, Expire(j) \/ Ingest(j) \/ Process(j) PROVE IInv' /\ Grows
  <2>1. TypeOK' /\ Grows /\ \A k \in Jobs : Spared(k)
    BY <1>0, <1>5, OtherTyped, OtherGrows
  <2> QED
    BY <1>2, <1>5, <2>1, SparedKept
<1>6. ASSUME Next, Relink PROVE IInv' /\ Grows
  <2>1. TypeOK' /\ Grows /\ \A k \in Jobs : Spared(k)
    <3>1. CASE Jobs = {}
      BY <1>0, <1>6, <3>1 DEF Relink, TypeOK, Grows, job
    <3>2. CASE Jobs # {}
      BY <1>0, <1>6, <3>2, OtherTyped, OtherGrows
    <3> QED
      BY <3>1, <3>2
  <2> QED
    BY <1>2, <1>6, <2>1, SparedKept
<1> QED
  BY <1>1, <1>3, <1>4, <1>5, <1>6 DEF Next

\* The inductive invariant of the deployments.
LEMMA Invariant == Spec => []IInv
<1>1. IInv /\ [Next]_vars => IInv'
  BY NextGrows
<1> QED
  BY <1>1, InitInv, PTL DEF Spec

\* Every variable keeps its type, for any jobs, plans, numbers and languages.
THEOREM DeploymentTyped == Spec => []TypeOK
<1>1. IInv => TypeOK
  BY DEF IInv
<1> QED
  BY <1>1, Invariant, PTL

\* However a TestFlight job ends, nothing readable is left on its machine once
\* EncryptArtifacts has run: workspace and keychain by the deferred removal, the log
\* by the encryption.
THEOREM DeployLeavesNothingAlways == Spec => []DeployLeavesNothing
<1>1. IInv => DeployLeavesNothing
  BY DEF IInv, JobInv, Tidy, DeployLeavesNothing
<1> QED
  BY <1>1, Invariant, PTL

\* A TestFlight job that reports success has a build of its number that is answered
\* for export, described in every language and in its group, however many jobs publish
\* the same build and whatever answers App Store Connect loses.
THEOREM PublishedAsAskedAlways == Spec => []PublishedAsAsked
<1>1. IInv => PublishedAsAsked
  <2> SUFFICES ASSUME IInv, NEW j \in Jobs, report[j] = "ok", config[j].kind = "testflight", config[j].group # "none"
               PROVE  \E b \in WithNumber(number[j]) : b \in complied /\ b \in offered /\ notes[b] = Locales
    BY DEF PublishedAsAsked
  <2> DEFINE b == view[j].build
  <2>1. Valid(j, b) /\ b \in complied /\ b \in offered /\ notes[b] = Locales
    BY DEF IInv, JobInv, Reported
  <2>2. b \in WithNumber(number[j])
    BY <2>1 DEF Valid, WithNumber, Builds, Indexed
  <2> QED
    BY <2>1, <2>2
<1> QED
  BY <1>1, Invariant, PTL

\* No two builds have one number; testers see only builds whose export question is
\* answered, reviewers only builds testers may see.
THEOREM OfferedAreAnsweredAlways == Spec => []OfferedAreAnswered
<1>1. IInv => OfferedAreAnswered
  BY DEF IInv, Unique, Chain, OfferedAreAnswered
<1> QED
  BY <1>1, Invariant, PTL

\* The jobs and App Store Connect together implement Publication: a number is settled
\* once, a build is valid before it is offered and offered before it is reviewed, and
\* success is reported only for a build that got as far as the configuration asks.
THEOREM DeploymentPublishes == Spec => Publishes
<1> DEFINE V == {b \in Jobs : upload[b] = "valid"}
<1>1. Init => Pub!Init
  BY DEF Init, Pub!Init
<1>2. IInv /\ IInv' /\ Grows /\ [Next]_vars => [Pub!Next]_(Pub!abstractVars)
  <2> SUFFICES ASSUME IInv, IInv', Grows, [Next]_vars
               PROVE  Pub!Next \/ UNCHANGED Pub!abstractVars
    OBVIOUS
  <2>0. TypeOK /\ TypeOK' /\ (\A j \in Jobs : Progress(j) /\ Numbered(j) /\ Reported(j) /\ Reported(j)' /\ Numbered(j)')
    BY DEF IInv, JobInv
  <2>1. ASSUME UNCHANGED <<config, number, upload, offered, reviewed, waived, report>>
        PROVE  UNCHANGED Pub!abstractVars
    BY <2>1 DEF Pub!abstractVars
  <2>2. ASSUME NEW j \in Jobs, Step(j) PROVE Pub!Next \/ UNCHANGED Pub!abstractVars
    <3>1. CASE ChooseNumber(j)
      <4>1. CASE number' = number
        BY <2>1, <3>1, <4>1 DEF ChooseNumber, kept, asc
      <4>2. CASE number' # number
        <5>1. /\ \E n \in Numbers : number' = [number EXCEPT ![j] = n]
              /\ UNCHANGED <<config, upload, offered, reviewed, waived, report>>
          BY <3>1, <4>2 DEF ChooseNumber, kept, asc
        <5>2. number[j] = NoBuild /\ report[j] = "none"
          BY <2>0, <3>1 DEF ChooseNumber, At, Numbered, Unnumbered, Reported
        <5>3. Pub!Settle(j)
          BY <5>1, <5>2 DEF Pub!Settle
        <5> QED
          BY <5>3 DEF Pub!Next
      <4> QED
        BY <4>1, <4>2
    <3>2. CASE Upload(j)
      <4>1. V' = V
        BY <2>0, <3>2 DEF Upload, TypeOK, Numbered, BeforeUpload, At
      <4> QED
        BY <3>2, <4>1 DEF Upload, kept, Pub!abstractVars
    <3>3. CASE Attach(j)
      <4> DEFINE b == view[j].build
      <4>1. b \in Jobs /\ upload[b] = "valid"
        BY <2>0, <3>3 DEF Attach, At, Progress, Publishing, Valid
      <4>2. /\ offered' = offered \/ offered' = offered \cup {b}
            /\ UNCHANGED <<config, number, upload, reviewed, waived, report>>
        BY <3>3 DEF Attach, kept
      <4>3. CASE offered' = offered
        BY <2>1, <4>2, <4>3
      <4>4. CASE offered' # offered
        <5>1. Pub!Offer(b)
          BY <4>1, <4>2, <4>4 DEF Pub!Offer
        <5> QED
          BY <4>1, <5>1 DEF Pub!Next
      <4> QED
        BY <4>3, <4>4
    <3>4. CASE CheckBlockers(j)
      <4>1. UNCHANGED <<config, number, upload, offered, reviewed, report>> /\ (waived' = waived \/ waived' = waived \cup {j})
        BY <3>4 DEF CheckBlockers, kept, asc
      <4>2. j \notin waived
        BY <2>0, <3>4 DEF CheckBlockers, At, Progress
      <4>3. CASE waived' = waived
        BY <2>1, <4>1, <4>3
      <4>4. CASE waived' = waived \cup {j}
        BY <4>1, <4>2, <4>4 DEF Pub!Waive, Pub!Next
      <4> QED
        BY <4>1, <4>3, <4>4
    <3>5. CASE SubmitReview(j)
      <4> DEFINE b == view[j].build
      <4>1. b \in offered /\ b \in Jobs
        BY <2>0, <3>5 DEF SubmitReview, At, Progress, Publishing, Attached, Valid
      <4>2. /\ reviewed' = reviewed \/ (b \notin reviewed /\ reviewed' = reviewed \cup {b})
            /\ UNCHANGED <<config, number, upload, offered, waived, report>>
        BY <3>5 DEF SubmitReview, Write, kept
      <4>3. CASE reviewed' = reviewed
        BY <2>1, <4>2, <4>3
      <4>4. CASE reviewed' # reviewed
        BY <4>1, <4>2, <4>4 DEF Pub!Submit, Pub!Next
      <4> QED
        BY <4>3, <4>4
    <3>6. CASE Report(j)
      <4>1. /\ report[j] = "none" /\ UNCHANGED <<config, number, upload, offered, reviewed, waived>>
            /\ \/ report' = [report EXCEPT ![j] = "ok"] /\ outcome[j] = "ok"
               \/ report' = [report EXCEPT ![j] = "failed"]
        BY <2>0, <3>6 DEF Report, At, Reported, asc
      <4>2. CASE report' = [report EXCEPT ![j] = "ok"] /\ outcome[j] = "ok"
        <5> DEFINE b == view[j].build
        <5>1. config[j].kind = "testflight" => b \in Jobs /\ Pub!Delivered(j, b)
          BY <2>0, <4>2 DEF Reported, Valid, Reviewed, Pub!Delivered
        <5>2. Pub!Succeed(j)
          BY <4>1, <4>2, <5>1 DEF Pub!Succeed, Pub!TestFlight
        <5> QED
          BY <5>2 DEF Pub!Next
      <4>3. CASE report' = [report EXCEPT ![j] = "failed"]
        BY <4>1, <4>3 DEF Pub!Fail, Pub!Next
      <4> QED
        BY <4>1, <4>2, <4>3
    <3>7. CASE ~(ChooseNumber(j) \/ Upload(j) \/ Attach(j) \/ CheckBlockers(j) \/ SubmitReview(j) \/ Report(j))
      <4>1. UNCHANGED <<config, number, upload, offered, reviewed, waived, report>>
        BY <2>2, <3>7 DEF Step, Admit, Unpack, OpenKeychain, Sign, Package, Validate,
       FindApp, FindBuild, FindFailedUpload, Wait, FindGroup, SetCompliance, ListNotes, SetNote, BuildInGroup,
       FindReview, ReadState, CompareLink, ReadFails, kept, asc
      <4> QED
        BY <2>1, <4>1
    <3> QED
      BY <3>1, <3>2, <3>3, <3>4, <3>5, <3>6, <3>7
  <2>3. ASSUME NEW j \in Jobs, Start(j) \/ Expire(j) PROVE UNCHANGED Pub!abstractVars
    BY <2>1, <2>3 DEF Start, Expire, asc
  <2>4. ASSUME NEW b \in Jobs, Ingest(b) PROVE UNCHANGED Pub!abstractVars
    <3>1. V' = V
      BY <2>0, <2>4 DEF Ingest, TypeOK
    <3> QED
      BY <2>4, <3>1 DEF Ingest, job, Pub!abstractVars
  <2>5. ASSUME NEW b \in Jobs, Process(b) PROVE Pub!Next \/ UNCHANGED Pub!abstractVars
    <3>1. UNCHANGED <<config, number, offered, reviewed, waived, report>> /\ number[b] # NoBuild /\ b \notin V
      BY <2>0, <2>5, PlansAssumption DEF Process, job, Numbered, Numbers
    <3>2. V' = V \/ V' = V \cup {b}
      BY <2>0, <2>5 DEF Process, TypeOK
    <3>3. CASE V' = V
      BY <3>1, <3>3 DEF Pub!abstractVars
    <3>4. CASE V' = V \cup {b}
      BY <3>1, <3>4 DEF Pub!Validate, Pub!Next
    <3> QED
      BY <3>2, <3>3, <3>4
  <2>6. CASE Relink
    BY <2>1, <2>6 DEF Relink, job
  <2>7. CASE UNCHANGED vars
    BY <2>1, <2>7 DEF vars, job, asc
  <2> QED
    BY <2>2, <2>3, <2>4, <2>5, <2>6, <2>7 DEF Next
<1>3. IInv /\ [Next]_vars => Grows
  BY NextGrows
<1> QED
  BY <1>1, <1>2, <1>3, Invariant, PTL DEF Spec, Publishes, Pub!Spec
===============================================================================
