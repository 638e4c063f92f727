------------------------------ MODULE Registration ------------------------------
(***************************************************************************)
(* The project registry (internal/registry, cmd/builder/central.go and     *)
(* central_project.go).  Every private project of one machine registers    *)
(* itself: the command reads the machine's registry backup, adds or        *)
(* replaces the project's entry, writes the backup through a file of a     *)
(* fixed name, writes the opaque ID into builder.json and replaces the     *)
(* builder's PROJECT_REGISTRY secret, which nobody can read back.  A build *)
(* finds its project in the secret alone; the doctor looks at the backup.  *)
(*                                                                         *)
(* Commands may fail at every step and may be killed between steps, and    *)
(* the answer of the write of the secret may be lost.  IDs and namespaces  *)
(* are random in the code; here every project counts its own, and <<p, i>> *)
(* is the i-th ID of p.                                                    *)
(***************************************************************************)
EXTENDS Naturals, FiniteSets

CONSTANTS
    Projects,
    MaxProjects,    \* maxProjects, the limit of a registry
    Exclusive,      \* the operator runs one registration at a time
    MaxTries, MaxSetups, MaxChanges,    \* registrations, setups and changes of each project
    None

ASSUME BoundsAssumption ==
    {MaxProjects, MaxTries, MaxSetups, MaxChanges} \subseteq Nat /\ MaxProjects > 0 /\ Exclusive \in BOOLEAN
ASSUME NobodyAssumption == None \notin Projects \cup [ns : Nat, facts : Nat]

VARIABLES
    config,       \* builder.json of each project: its ID and namespace, 0 when it has none
    facts,        \* what the project contains: changes counted
    backup,       \* the local registry
    partial,      \* the file of the fixed name it is written through
    secret,       \* PROJECT_REGISTRY
    pc, work, plain,    \* of each registration: its place, its ID, namespace and facts, what it marshalled
    confirmed,    \* the entries whose registration was reported as done, by ID
    fresh, tries, setups

files == <<backup, partial>>
command == <<pc, work, plain>>
vars == <<config, facts, files, secret, command, confirmed, fresh, tries, setups>>

Empty == [revision |-> 0, projects |-> [i \in {} |-> 0]]    \* New; also the secret not yet written
IDs(r) == DOMAIN r.projects
NoFile == [exists |-> FALSE, by |-> None, complete |-> FALSE, value |-> Empty]    \* by: who still writes it
Written(r) == [exists |-> TRUE, by |-> None, complete |-> TRUE, value |-> r]

\* What Parse and Marshal accept of a registry, and Config.Validate of builder.json.
ValidRegistry(r) == r.revision # 0 /\ IDs(r) # {} /\ Cardinality(IDs(r)) <= MaxProjects
ValidConfig(c) == c.whole /\ c.id # 0 /\ c.ns # 0

\* What the project says of itself: framework, bundle identifier, scheme.
ReadProjectFacts(p) == facts[p]

\* ResolveProject: what a run of the central workflow gets for an ID.
ResolveProject(i) == IF ValidRegistry(secret) /\ i \in IDs(secret) THEN secret.projects[i] ELSE None

Init ==
    /\ config = [p \in Projects |-> [whole |-> TRUE, id |-> 0, ns |-> 0]] /\ facts = [p \in Projects |-> 0]
    /\ backup = NoFile /\ partial = NoFile /\ secret = Empty
    /\ pc = [p \in Projects |-> "idle"] /\ work = [p \in Projects |-> [id |-> 0, ns |-> 0, facts |-> 0]] /\ plain = [p \in Projects |-> Empty]
    /\ confirmed = [i \in {} |-> 0] /\ fresh = [p \in Projects |-> 1] /\ tries = [p \in Projects |-> 0] /\ setups = [p \in Projects |-> 0]

(***************************************************************************)
(* The operator and the project.                                           *)
(***************************************************************************)
\* central setup writes a new builder.json; an ID or a namespace given by a
\* flag is kept, the others are new.
Setup(p) ==
    /\ pc[p] = "idle" /\ setups[p] < MaxSetups /\ setups' = [setups EXCEPT ![p] = @ + 1]
    /\ \E keepsID, keepsNS \in BOOLEAN :
         /\ (keepsID \/ keepsNS) => config[p].whole /\ config[p].id # 0
         /\ config' = [config EXCEPT ![p] = [whole |-> TRUE, id |-> IF keepsID THEN @.id ELSE fresh[p],
                                             ns |-> IF keepsNS THEN @.ns ELSE fresh[p]]]
    /\ fresh' = [fresh EXCEPT ![p] = @ + 1]
    /\ UNCHANGED <<facts, files, secret, command, confirmed, tries>>

ChangeProject(p) ==
    /\ facts[p] < MaxChanges /\ facts' = [facts EXCEPT ![p] = @ + 1]
    /\ UNCHANGED <<config, files, secret, command, confirmed, fresh, tries, setups>>

(***************************************************************************)
(* central register.                                                       *)
(***************************************************************************)
Goto(p, from, to) == pc[p] = from /\ pc' = [pc EXCEPT ![p] = to]

\* The configuration, with a new ID or namespace where it has none, and the
\* facts of the project.
BeginRegister(p) ==
    /\ Exclusive => \A q \in Projects : pc[q] = "idle"
    /\ tries[p] < MaxTries /\ tries' = [tries EXCEPT ![p] = @ + 1]
    /\ config[p].whole /\ Goto(p, "idle", "load")
    /\ work' = [work EXCEPT ![p] = [id |-> IF config[p].id = 0 THEN fresh[p] ELSE config[p].id,
                                    ns |-> IF config[p].ns = 0 THEN fresh[p] ELSE config[p].ns,
                                    facts |-> ReadProjectFacts(p)]]
    /\ fresh' = [fresh EXCEPT ![p] = @ + 1]
    /\ UNCHANGED <<config, facts, files, secret, plain, confirmed, setups>>

\* LoadFile: no backup is the empty registry, one that does not parse is refused.
LoadFile(p) ==
    /\ backup.exists => backup.complete /\ ValidRegistry(backup.value)
    /\ Goto(p, "load", "put") /\ plain' = [plain EXCEPT ![p] = backup.value]
    /\ UNCHANGED <<config, facts, files, secret, work, confirmed, fresh, tries, setups>>

Key(p) == <<p, work[p].id>>
Entry(p) == [ns |-> work[p].ns, facts |-> work[p].facts]
With(projects, p) == [i \in DOMAIN projects \cup {Key(p)} |-> IF i = Key(p) THEN Entry(p) ELSE projects[i]]

\* Variants of Put: without the increment; without the others; without the files.
PutSameRevision(p) ==
    /\ Goto(p, "put", "create")
    /\ plain' = [plain EXCEPT ![p].projects = With(@, p)]
    /\ UNCHANGED <<config, facts, files, secret, work, confirmed, fresh, tries, setups>>
PutAlone(p) ==
    /\ Goto(p, "put", "create")
    /\ plain' = [plain EXCEPT ![p] = [revision |-> @.revision + 1, projects |-> With(Empty.projects, p)]]
    /\ UNCHANGED <<config, facts, files, secret, work, confirmed, fresh, tries, setups>>
PutUnsaved(p) ==
    /\ Goto(p, "put", "config") /\ Cardinality(IDs(plain[p]) \cup {Key(p)}) <= MaxProjects
    /\ plain' = [plain EXCEPT ![p] = [revision |-> @.revision + 1, projects |-> With(@.projects, p)]]
    /\ UNCHANGED <<config, facts, files, secret, work, confirmed, fresh, tries, setups>>

\* Put and Marshal; a full registry takes no further project.
Put(p) ==
    /\ Goto(p, "put", "create") /\ Cardinality(IDs(plain[p]) \cup {Key(p)}) <= MaxProjects
    /\ plain' = [plain EXCEPT ![p] = [revision |-> @.revision + 1, projects |-> With(@.projects, p)]]
    /\ UNCHANGED <<config, facts, files, secret, work, confirmed, fresh, tries, setups>>

\* Nobody writes any more what a killed process, or one that has closed it, wrote.
Abandoned(file, p) == IF file.by = p THEN [file EXCEPT !.by = None] ELSE file

\* SaveFile: a file of this name, whoever writes it, is removed first ...
CreatePartial(p) ==
    /\ Goto(p, "create", "write")
    /\ partial' = [exists |-> TRUE, by |-> p, complete |-> FALSE, value |-> Empty]
    /\ backup' = Abandoned(backup, p)
    /\ UNCHANGED <<config, facts, secret, work, plain, confirmed, fresh, tries, setups>>
\* ... the own file is written, under whatever name it has by now, if any ...
WritePartial(p) ==
    /\ Goto(p, "write", "rename")
    /\ partial' = IF partial.by = p THEN Written(plain[p]) ELSE partial
    /\ backup' = IF backup.by = p THEN Written(plain[p]) ELSE backup
    /\ UNCHANGED <<config, facts, secret, work, plain, confirmed, fresh, tries, setups>>

\* ... and whatever has the name becomes the backup.
RenamePartial(p) ==
    /\ partial.exists /\ Goto(p, "rename", "config") /\ backup' = partial /\ partial' = NoFile
    /\ UNCHANGED <<config, facts, secret, work, plain, confirmed, fresh, tries, setups>>

\* Manager.Save truncates builder.json and writes it.
SaveConfig(p) ==
    /\ Goto(p, "config", "secret")
    /\ config' = [config EXCEPT ![p] = [whole |-> TRUE, id |-> work[p].id, ns |-> work[p].ns]]
    /\ UNCHANGED <<facts, files, secret, work, plain, confirmed, fresh, tries, setups>>

\* CreateOrUpdateSecret: the secret is replaced; the answer may be lost.
PutSecret(p) ==
    /\ Goto(p, "secret", "idle") /\ secret' = plain[p]
    /\ \E answered \in BOOLEAN :
         confirmed' = IF answered THEN With(confirmed, p) ELSE confirmed
    /\ UNCHANGED <<config, facts, files, work, plain, fresh, tries, setups>>

\* Every step may fail, the removal of the partial file included; a kill
\* leaves the file, and builder.json truncated when it was being written.
Fail(p) ==
    /\ pc[p] # "idle" /\ pc' = [pc EXCEPT ![p] = "idle"]
    /\ partial' = IF pc[p] \in {"write", "rename"} THEN NoFile ELSE partial
    /\ UNCHANGED <<config, facts, backup, secret, work, plain, confirmed, fresh, tries, setups>>
Kill(p) ==
    /\ pc[p] # "idle" /\ pc' = [pc EXCEPT ![p] = "idle"]
    /\ partial' = Abandoned(partial, p) /\ backup' = Abandoned(backup, p)
    /\ config' \in {config, IF pc[p] = "config" THEN [config EXCEPT ![p].whole = FALSE] ELSE config}
    /\ UNCHANGED <<facts, secret, work, plain, confirmed, fresh, tries, setups>>

Next ==
    \E p \in Projects :
        \/ Setup(p) \/ ChangeProject(p) \/ BeginRegister(p) \/ LoadFile(p) \/ Put(p) \/ CreatePartial(p) \/ WritePartial(p)
        \/ RenamePartial(p) \/ SaveConfig(p) \/ PutSecret(p) \/ Fail(p) \/ Kill(p)

Spec == Init /\ [][Next]_vars

(***************************************************************************)
(* Properties.                                                             *)
(***************************************************************************)
RegistryOK(r) ==
    /\ r.revision \in Nat /\ IDs(r) \subseteq Projects \X Nat /\ (r.revision = 0 <=> IDs(r) = {})
    /\ \A i \in IDs(r) : r.projects[i] \in [ns : Nat, facts : Nat]

FileOK(f) == f.exists \in BOOLEAN /\ f.complete \in BOOLEAN /\ f.by \in Projects \cup {None} /\ RegistryOK(f.value)

TypeOK ==
    /\ config \in [Projects -> [whole : BOOLEAN, id : Nat, ns : Nat]]
    /\ pc \in [Projects -> {"idle", "load", "put", "create", "write", "rename", "config", "secret"}]
    /\ FileOK(backup) /\ FileOK(partial) /\ RegistryOK(secret) /\ \A p \in Projects : RegistryOK(plain[p])

\* A project whose registration was reported as done stays in the secret, with
\* what it registered then or something newer, whatever fails, is killed or is
\* registered afterwards.
RegisteredResolve ==
    \A i \in DOMAIN confirmed :
        /\ ResolveProject(i) # None
        /\ ResolveProject(i).ns >= confirmed[i].ns /\ ResolveProject(i).facts >= confirmed[i].facts

\* The backup is "the only recoverable plaintext" (central.go:249): it can be read,
\* and what the secret knows it knows, at no older revision.
BackupHoldsSecret ==
    /\ backup.exists => backup.complete
    /\ IDs(secret) \subseteq IDs(backup.value) /\ secret.revision <= backup.value.revision

\* The secret never goes back to a revision it had before.
RevisionsGrow == [][secret' # secret => secret'.revision > secret.revision]_vars

\* central doctor: the backup's entry against the project and builder.json ...
RegistrationProblems(p, entry) == entry # [ns |-> config[p].ns, facts |-> ReadProjectFacts(p)]
CheckRegistration(p) ==
    LET i == <<p, config[p].id>> IN
    /\ backup.complete /\ ValidRegistry(backup.value)
    /\ i \in IDs(backup.value) /\ ~RegistrationProblems(p, backup.value.projects[i])
\* ... and of the secret that it exists.
DoctorPasses(p) == ValidConfig(config[p]) /\ CheckRegistration(p) /\ secret # Empty

\* "A stale registration is found now instead of when a build fails" (central_project.go:115).
DoctorFindsStale ==
    \A p \in Projects : pc[p] = "idle" /\ DoctorPasses(p) => ResolveProject(<<p, config[p].id>>) = [ns |-> config[p].ns, facts |-> facts[p]]
=============================================================================
