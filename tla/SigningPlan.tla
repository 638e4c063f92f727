------------------------------ MODULE SigningPlan ------------------------------
(***************************************************************************)
(* The signing of an application by the protected job of the central       *)
(* workflow (internal/runner/nested.go, nested_sign.go, entitlements.go    *)
(* and the profile selection of deploy.go and provisioning_api.go).  The   *)
(* build job compares the built application with the identifier the        *)
(* registry pins for the project.  The packaging job, which never sees the *)
(* registry, accepts the application, records what entitlements it asks    *)
(* for and dates its manifest.  The signing job, when it starts, checks    *)
(* the manifest and its age, plans the order in which the code inside the  *)
(* application is signed, numbers the bundles, finds or creates a          *)
(* provisioning profile for each, embeds it, narrows its entitlements and  *)
(* signs.  It may be run again on the same manifest and account.           *)
(*                                                                         *)
(* An application is a function from the entries of the bundle to what the *)
(* planner reads of each: the directory it is in, what it is, its place in *)
(* the directory listing, and of a bundle its Info.plist.  An identifier   *)
(* is the sequence of its labels; it is empty where none is given.         *)
(***************************************************************************)
EXTENDS Integers, FiniteSets, Sequences, SequencesExt

CONSTANTS
    Jobs,        \* the jobs: records of pinned, app, request, ahead, static, asc, api, type
    Identifiers, \* the well-formed identifiers, those of bundleIDPattern
    Hosts,       \* the well-formed applinks entries, a sequence in sorted order
    MaxDepth, MaxBundles, MaxEntries,    \* maxPlanDepth, maxPlanBundles, maxPlanEntries
    MaxDomains,  \* maxAssociatedDomains
    MaxAge, MaxAhead,    \* how old a manifest may be, and how far ahead of the clock
    MaxRuns,     \* how often the job is run at all
    Clock        \* the last reading of the clock at the start of a run

ASSUME HostsAssumption ==
    Hosts \in Seq(ToSet(Hosts)) /\ \A i, j \in DOMAIN Hosts : Hosts[i] = Hosts[j] => i = j
ASSUME LimitsAssumption ==
    {MaxDepth, MaxBundles, MaxEntries, MaxDomains, MaxAge, MaxAhead, MaxRuns, Clock} \subseteq Nat

Root == "."
NoId == <<>>
\* The entries of a bundle form a tree, and the listing has a directory before
\* what is in it.
IsTree(a) ==
    /\ IsFiniteSet(DOMAIN a) /\ Root \in DOMAIN a /\ a[Root].is = ".app"
    /\ \A n \in DOMAIN a : a[n].at \in Nat /\ \A m \in DOMAIN a \ {n} : a[m].at # a[n].at
    /\ \A n \in DOMAIN a \ {Root} : a[n].in \in DOMAIN a /\ a[a[n].in].at < a[n].at
IsProfile(p) == "expires" \in DOMAIN p /\ p.expires \in Nat /\ {p.sound, p.distribution, p.certificate, p.container} \subseteq BOOLEAN
\* The account is the team's own; the protected profiles may be anybody's; the
\* clock of the packaging job may be ahead of the signing job's, or behind it.
ASSUME JobsAssumption ==
    \A j \in Jobs :
        /\ IsTree(j.app) /\ j.pinned \in Identifiers \cup {NoId} /\ j.api \in BOOLEAN /\ j.ahead \in Int
        /\ j.static \in Seq(ToSet(j.static)) /\ \A p \in ToSet(j.static) : IsProfile(p)
        /\ IsFiniteSet(j.asc) /\ \A p \in j.asc : IsProfile(p) /\ p.sound

VARIABLES
    job,       \* the record of Jobs this is about
    asc,       \* the profiles of the account, the created ones with them
    request,   \* the sanitised request in the provenance manifest
    created,   \* the time the manifest says it was created
    pc, steps, pos,       \* where the job is, its plan, and the step it is at
    signed, broken,       \* what carries a signature, and whose content changed since
    embedded, entitled,   \* of a bundle: its profile, and the entitlements it was signed with
    version,   \* the bundles that carry the build number of this job
    runs, now

account == <<job, asc, now, runs>>
manifest == <<request, created>>
vars == <<account, manifest, pc, steps, pos, signed, broken, embedded, entitled, version>>

None == [id |-> NoId]
app == job.app

\* The members of S one after the other, in the order of a set of pairs.
InOrder(S, order) ==
    [i \in 1..Cardinality(S) |-> CHOOSE n \in S : Cardinality({m \in S : <<m, n>> \in order}) = i - 1]

(***************************************************************************)
(* The plan.                                                               *)
(***************************************************************************)
ContainerSuffix == [PlugIns |-> ".appex", Watch |-> ".app", AppClips |-> ".app", XPCServices |-> ".xpc"]
ContainerKind == [PlugIns |-> "app-extension", Watch |-> "watch-app",
                  AppClips |-> "app-clip", XPCServices |-> "xpc-service"]
ContainerAllowed ==
    [PlugIns |-> {"app", "watch-app", "app-clip"}, Watch |-> {"app"}, AppClips |-> {"app"},
     XPCServices |-> {"app", "app-extension", "app-clip"}]
BundleSuffixes == {".app", ".appex", ".xpc"}

\* The directories an entry lies in, up to the application itself.
Up(a) == LET up[n \in DOMAIN a] == IF n = Root THEN {} ELSE {a[n].in} \cup up[a[n].in] IN up

InContainer(a, n) == n # Root /\ a[a[n].in].is \in DOMAIN ContainerSuffix
Kind(a, n) ==
    IF n = Root THEN "app"
    ELSE IF a[n].is \in {"framework", "dylib"} THEN a[n].is
    ELSE IF InContainer(a, n) THEN ContainerKind[a[a[n].in].is] ELSE "none"
AppLike(a) == {n \in DOMAIN a : Kind(a, n) \notin {"framework", "dylib", "none"}}
Bundles(a) == AppLike(a) \cup {n \in DOMAIN a : a[n].is = "framework"}
Profiled(a) == {n \in DOMAIN a : Kind(a, n) \in {"app", "watch-app", "app-clip", "app-extension"}}

\* A variant of NestedIdOK.
NestedIdUnchecked(a, n) == a[n].id \in Identifiers /\ \A m \in AppLike(a) \ {n} : a[m].id # a[n].id

\* describe: the identifier and platform rules of a bundle in a container.  The
\* main identifier is the application's own, whatever that is.
NestedIdOK(a, n) ==
    /\ a[n].id \in Identifiers /\ IsStrictPrefix(a[Root].id, a[n].id)
    /\ \A m \in AppLike(a) \ {n} : a[m].id # a[n].id
Described(a, n) ==
    /\ a[n].info
    /\ Kind(a, n) = "app-extension" => a[n].point
    /\ Kind(a, n) = "watch-app" => a[n].companion \in {a[Root].id, NoId}
    /\ LET watch == \E m \in Up(a)[n] \cup {n} : Kind(a, m) = "watch-app"
       IN a[n].platform \in {"none", IF watch THEN "watchos" ELSE "iphoneos"}
    /\ NestedIdOK(a, n)

\* A variant of EntryOK.
EntryOKAnywhere(a, n) ==
    IF InContainer(a, n) THEN a[n].is = ContainerSuffix[a[a[n].in].is] /\ Described(a, n)
    ELSE a[n].is \notin {"symlink", "special", "variant"}

\* One entry of visit or walkContainer is understood.
EntryOK(a, n) ==
    LET dir == a[n].in IN
    IF InContainer(a, n)
    THEN a[n].is = ContainerSuffix[a[dir].is] /\ Described(a, n)
    ELSE /\ a[n].is \notin BundleSuffixes \cup {"symlink", "special", "variant"}
         /\ a[n].is \in DOMAIN ContainerSuffix =>
                /\ Kind(a, dir) \in ContainerAllowed[a[n].is]
                /\ \E m \in DOMAIN a \ {Root} : a[m].in = n

Accepted(a) ==
    /\ a[Root].info /\ a[Root].id \in Identifiers /\ a[Root].platform \in {"none", "iphoneos"}
    /\ \A n \in DOMAIN a \ {Root} : EntryOK(a, n)
    /\ \A b \in Bundles(a) : Cardinality(Up(a)[b] \cap Bundles(a)) <= MaxDepth
    /\ Cardinality(Bundles(a)) <= MaxBundles
    /\ Cardinality({n \in DOMAIN a \ {Root} : ~InContainer(a, n)}) <= MaxEntries

\* A variant of LeafBefore.
LeafBeforeByName(a, m, n) == a[m].at < a[n].at

\* Of two frameworks or dylibs of a bundle the deeper one is signed first.
LeafBefore(a, m, n) ==
    LET d(x) == Cardinality(Up(a)[x]) IN d(m) > d(n) \/ (d(m) = d(n) /\ a[m].at < a[n].at)

\* The bundle whose walk collects an entry: the nearest that is not a framework.
Home(a, n) == CHOOSE b \in Up(a)[n] \cap AppLike(a) :
                  Up(a)[n] \cap AppLike(a) \subseteq Up(a)[b] \cup {b}

Leaves(a, b) == {n \in DOMAIN a : Kind(a, n) \in {"framework", "dylib"} /\ Home(a, n) = b}
Nested(a, b) == {n \in AppLike(a) \ {Root} : Home(a, n) = b}

\* walkBundle: a bundle's own code, the bundles in its containers, the bundle.
Steps(a) ==
    LET pairs == (DOMAIN a) \X (DOMAIN a)
        walk[b \in AppLike(a)] ==
            LET inside == InOrder(Nested(a, b), {p \in pairs : a[p[1]].at < a[p[2]].at}) IN
            InOrder(Leaves(a, b), {p \in pairs : LeafBefore(a, p[1], p[2])})
                \o FlattenSeq([i \in DOMAIN inside |-> walk[inside[i]]]) \o <<b>>
    IN walk[Root]

(***************************************************************************)
(* What a project may ask for.                                             *)
(***************************************************************************)
Services == {"CloudKit", "CloudDocuments"}
Alphabet == {p \in ToSet(Hosts) \X ToSet(Hosts) : \E i, j \in DOMAIN Hosts : i < j /\ p = <<Hosts[i], Hosts[j]>>}
Sorted(S) == InOrder(S \cap ToSet(Hosts), Alphabet)
First(s, n) == SubSeq(s, 1, IF Len(s) < n THEN Len(s) ELSE n)

\* Valid entries once each, in order, at most MaxDomains of them.
SanitizeDomains(asked) == First(Sorted(ToSet(asked)), MaxDomains)
ValidDomains(listed) == SanitizeDomains(listed) = listed
SanitizeServices(asked) == ToSet(asked) \cap Services
ValidServices(listed) == listed \subseteq Services

\* A variant that keeps the project's order.
TakenRequestUnsorted(asked) ==
    [domains |-> First(SelectSeq(asked.domains, LAMBDA h : h \in ToSet(Hosts)), MaxDomains),
     services |-> SanitizeServices(asked.services)]

\* takeEntitlementsRequest: what the packager keeps of the recorded file.
TakenRequest(asked) == [domains |-> SanitizeDomains(asked.domains), services |-> SanitizeServices(asked.services)]

(***************************************************************************)
(* Profiles.                                                               *)
(***************************************************************************)
\* A variant of Usable.
UsableAnyKind(p) == p.expires > now /\ p.distribution /\ p.certificate

\* validateDistributionProfile and profileAuthorizesIdentity.
Usable(p) ==
    /\ p.expires > now
    /\ p.distribution /\ p.certificate
    /\ (p.devices # {}) <=> (job.type = "adhoc")

\* selectProvisioningProfile: the longest lived of the usable profiles of this
\* bundle, unless one of the candidates is not of this team at all.
Select(candidates, id) ==
    LET good == {i \in DOMAIN candidates : candidates[i].id = id /\ Usable(candidates[i])}
        best == {i \in good : \A j \in good : candidates[i].expires >= candidates[j].expires}
    IN IF (\E i \in DOMAIN candidates : ~candidates[i].sound) \/ good = {} THEN None
       ELSE candidates[CHOOSE i \in best : \A j \in best : i <= j]

\* The profile createASCProvisioningProfile asks for: all that the account
\* grants the bundle, for the imported certificate, on the devices of today.
Fresh(id, n) ==
    [id |-> id, sound |-> TRUE, expires |-> now + 1, distribution |-> TRUE, certificate |-> TRUE,
     devices |-> IF job.type = "adhoc" THEN {"device"} ELSE {}, serial |-> n,
     domains |-> {"*"}, services |-> {"*"}, container |-> TRUE]

\* A variant of Listed.
ListedNone(id) == <<>>

\* downloadASCProvisioningProfiles: the active ones of the bundle and the type.
Listed(id) == SetToSeq({p \in asc : /\ p.id = id /\ p.expires > now
                                    /\ (p.devices # {}) <=> (job.type = "adhoc")})

(***************************************************************************)
(* Entitlements.  "*" grants everything of its kind; "-" means that the    *)
(* profile does not mention the kind.                                      *)
(***************************************************************************)
Grants(granted, x) == "*" \in granted \/ x \in granted

\* mergeAssociatedDomains, for the application only.
SignedDomains(p, n) ==
    LET asked == IF n = Root THEN ToSet(request.domains) ELSE {}
        given == {h \in asked : Grants(p.domains, h)}
    IN IF "-" \in p.domains \/ given = {} THEN p.domains ELSE given

\* A variant of SignedServices.
SignedServicesKept(p, n) ==
    LET given == {s \in request.services : Grants(p.services, s)}
    IN IF n = Root /\ given # {} THEN given ELSE p.services

\* narrowICloudEntitlements: no template value survives into a signature.
SignedServices(p, n) ==
    LET asked == IF n = Root THEN request.services ELSE {}
        given == {s \in asked : Grants(p.services, s)}
    IN IF "-" \in p.services THEN {"-"}
       ELSE IF given # {} THEN given
       ELSE IF "*" \notin p.services THEN p.services
       ELSE IF p.container THEN {"CloudKit"} ELSE {"-"}

(***************************************************************************)
(* The job.                                                                *)
(***************************************************************************)
Init ==
    /\ job \in Jobs /\ asc = job.asc /\ request = [domains |-> <<>>, services |-> {}] /\ created = 0
    /\ pc = "input" /\ runs = 1 /\ now = 0
    /\ steps = <<>> /\ pos = 0 /\ signed = {} /\ broken = {} /\ version = {}
    /\ embedded = [n \in DOMAIN app |-> None] /\ entitled = [n \in DOMAIN app |-> None]

signing == <<steps, pos, signed, broken, embedded, entitled, version>>

\* The build job resolves its input: a signed operation needs a pinned identifier.
ResolveProject ==
    /\ pc = "input" /\ pc' = IF job.pinned # NoId THEN "build" ELSE "rejected"
    /\ UNCHANGED <<account, manifest, signing>>

\* verifyBuiltBundleID: what the build job packs is the application that is
\* pinned, if one is.
VerifyBuiltBundleID ==
    /\ pc = "build" /\ pc' = IF job.pinned \in {NoId, app[Root].id} THEN "package" ELSE "rejected"
    /\ UNCHANGED <<account, manifest, signing>>

\* TrustedPackage: the packager accepts the application and writes the manifest,
\* dated by its own clock.
TrustedPackage ==
    /\ pc = "package"
    /\ pc' = IF Accepted(app) THEN "queued" ELSE "rejected"
    /\ request' = TakenRequest(job.request) /\ created' = now + job.ahead
    /\ UNCHANGED <<account, signing>>

\* The signing job starts, some time after it was asked for.
Start ==
    /\ pc = "queued" /\ pc' = "provenance" /\ now' \in now .. Clock
    /\ UNCHANGED <<job, asc, runs, manifest, signing>>

\* The manifest is neither too old nor from the future.
Timely == created <= now + MaxAhead /\ created >= now - MaxAge

\* ValidateProvenanceArtifact: the signing job reads the manifest back.
ValidateProvenance ==
    /\ pc = "provenance"
    /\ pc' = IF Timely /\ ValidDomains(request.domains) /\ ValidServices(request.services) THEN "plan" ELSE "forged"
    /\ UNCHANGED <<account, manifest, signing>>

\* planSigning in the signing job, then, for TestFlight, setPlanBuildNumbers.
PlanSigning ==
    /\ pc = "plan"
    /\ steps' = Steps(app) /\ pos' = 1 /\ pc' = "sign"
    /\ version' = IF job.type = "adhoc" THEN {} ELSE {n \in AppLike(app) : Kind(app, n) # "xpc-service"}
    /\ UNCHANGED <<account, manifest, signed, broken, embedded, entitled>>

\* Codesign writes the signature into its target, so every signature that
\* covers the target no longer matches what it covers.
Codesign(n) ==
    /\ signed' = signed \cup {n}
    /\ broken' = (broken \ {n}) \cup (signed \cap Up(app)[n])

SignCode ==
    /\ pc = "sign" /\ pos <= Len(steps) /\ steps[pos] \notin Profiled(app)
    /\ Codesign(steps[pos]) /\ pos' = pos + 1
    /\ UNCHANGED <<account, manifest, pc, steps, embedded, entitled, version>>

\* The rest of a step once its profile is chosen: install, embed, narrow, sign.
Embed(n, p) ==
    /\ Codesign(n) /\ pos' = pos + 1
    /\ embedded' = [embedded EXCEPT ![n] = p]
    /\ entitled' = [entitled EXCEPT ![n] = [domains |-> SignedDomains(p, n), services |-> SignedServices(p, n)]]
    /\ UNCHANGED pc

GiveUp == pc' = "failed" /\ UNCHANGED <<pos, signed, broken, embedded, entitled>>

\* profileFor and the rest of the step.  The listing may fail: then only the
\* protected profiles are candidates, and nothing is created.  A creation may
\* fail, or reach the account although the answer is lost.
SignBundle ==
    /\ pc = "sign" /\ pos <= Len(steps) /\ steps[pos] \in Profiled(app)
    /\ UNCHANGED <<job, now, runs, manifest, steps, version>>
    /\ LET n == steps[pos] IN
       \E answers \in (IF job.api THEN BOOLEAN ELSE {FALSE}) :
         LET id == app[n].id
             candidates == job.static \o (IF answers THEN Listed(id) ELSE <<>>)
             chosen == Select(candidates, id)
             new == Fresh(id, Cardinality(asc))
         IN \/ /\ job.api /\ ~answers /\ job.static = <<>>
               /\ GiveUp /\ UNCHANGED asc
            \/ /\ ~(job.api /\ ~answers /\ job.static = <<>>)
               /\ chosen # None /\ Embed(n, chosen) /\ UNCHANGED asc
            \/ /\ ~(job.api /\ ~answers /\ job.static = <<>>)
               /\ chosen = None
               /\ \/ /\ answers /\ asc' = asc \cup {new}
                     /\ IF Select(Append(candidates, new), id) # None
                        THEN Embed(n, Select(Append(candidates, new), id)) ELSE GiveUp
                  \/ answers /\ asc' = asc \cup {new} /\ GiveUp
                  \/ UNCHANGED asc /\ GiveUp

Verify ==
    /\ pc = "sign" /\ pos > Len(steps) /\ pc' = "signed"
    /\ UNCHANGED <<account, manifest, signing>>

\* A tool fails or the job's time is up: nothing is reported as signed.
Fail ==
    /\ pc \in {"plan", "sign"} /\ pc' = "failed"
    /\ UNCHANGED <<account, manifest, signing>>

\* The signing job is run again on the same manifest.
Rerun ==
    /\ pc \in {"forged", "failed", "signed"} /\ runs < MaxRuns
    /\ runs' = runs + 1 /\ pc' = "queued"
    /\ steps' = <<>> /\ pos' = 0 /\ signed' = {} /\ broken' = {} /\ version' = {}
    /\ embedded' = [n \in DOMAIN app |-> None] /\ entitled' = [n \in DOMAIN app |-> None]
    /\ UNCHANGED <<job, asc, now, manifest>>

Next ==
    \/ ResolveProject \/ VerifyBuiltBundleID \/ TrustedPackage \/ Start \/ ValidateProvenance
    \/ PlanSigning \/ SignCode \/ SignBundle \/ Verify \/ Fail \/ Rerun

Spec == Init /\ [][Next]_vars

(***************************************************************************)
(* Properties.                                                             *)
(***************************************************************************)

\* Signing is inside-out: no step of a job changes anything under a signature
\* an earlier step has made (the order of walkBundle and its sort).
SealsHold == broken = {}

\* An application reported as signed has no code in it, wherever it lies, that
\* the plan has missed, and the plan signs nothing twice.
EverythingSigned ==
    pc = "signed" =>
        /\ {n \in DOMAIN app : n = Root \/ app[n].is \in BundleSuffixes \cup {"framework", "dylib"}} = signed
        /\ Len(steps) = Cardinality(signed)

\* Every bundle of a signed application that is installable on its own carries
\* a profile that names exactly it, that is usable for this kind of
\* distribution, and, for TestFlight, the build number of the application.
OwnProfile ==
    pc = "signed" =>
        \A n \in Profiled(app) :
            /\ embedded[n].id = app[n].id /\ embedded[n].expires > now
            /\ (embedded[n].devices # {}) <=> (job.type = "adhoc")
            /\ job.type = "adhoc" \/ n \in version

\* Whatever profile the signing job creates or embeds is for the identifier the
\* registry pins or for one below it, and no two bundles share one, although
\* the job never sees the registry and takes the main identifier from the
\* application: that the input has a pin and that the build job compares the
\* application it packs with it is enough.
RootOfTrust ==
    \A p \in (asc \ job.asc) \cup ({embedded[n] : n \in DOMAIN app} \ {None}) :
        /\ job.pinned # NoId /\ (p.id = job.pinned \/ IsStrictPrefix(job.pinned, p.id))
        /\ Cardinality({n \in DOMAIN app : embedded[n] = p}) <= 1

\* Running the job again, even after a creation whose answer was lost, leaves
\* at most one profile it created for a bundle that is not expired: the next
\* run finds it, as long as every protected profile is of this team.
OneProfilePerBundle ==
    (\A i \in DOMAIN job.static : job.static[i].sound) =>
        \A p, q \in {r \in asc \ job.asc : r.expires > now} : p.id = q.id => p = q

\* Nothing is signed with more than its profile grants, and no template value
\* of an iCloud service reaches a signature.
OnlyNarrows ==
    \A n \in {m \in DOMAIN app : entitled[m] # None} :
        LET p == embedded[n]
            e == entitled[n] IN
        /\ \A h \in e.domains : Grants(p.domains, h)
        /\ \A s \in e.services \ {"-"} : s # "*" /\ Grants(p.services, s)

\* A manifest the packaging job wrote is refused by the signing job when, and
\* only when, the job starts too late for it or the clocks of the two jobs are
\* too far apart: never for what the manifest says, and not because it was
\* accepted, or refused, before.
HonestManifest ==
    /\ pc = "forged" => ~Timely
    /\ pc \in {"plan", "sign", "signed"} => Timely
=============================================================================
