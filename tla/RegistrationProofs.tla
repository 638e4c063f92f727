-------------------------- MODULE RegistrationProofs --------------------------
(***************************************************************************)
(* Proofs about Registration, for every set of projects and every bound:   *)
(* its type invariant; and, when registrations exclude each other, that    *)
(* the backup holds what the secret holds, that the secret's revision only *)
(* grows and that a project reported as registered stays resolvable.       *)
(***************************************************************************)
EXTENDS Registration, FiniteSetTheorems, TLAPS

Steps == {"idle", "load", "put", "create", "write", "rename", "config", "secret"}

(***************************************************************************)
(* Types.                                                                  *)
(***************************************************************************)
TypeInv ==
    /\ TypeOK
    /\ facts \in [Projects -> Nat] /\ fresh \in [Projects -> Nat]
    /\ work \in [Projects -> [id : Nat, ns : Nat, facts : Nat]]
    /\ plain = [p \in Projects |-> plain[p]]

\* An entry added to a registry leaves a registry, of a higher revision.
LEMMA PutOK ==
    ASSUME TypeInv, NEW p \in Projects, NEW r, RegistryOK(r)
    PROVE  RegistryOK([revision |-> r.revision + 1, projects |-> With(r.projects, p)])
<1> DEFINE n == [revision |-> r.revision + 1, projects |-> With(r.projects, p)]
<1>1. /\ IDs(n) = IDs(r) \cup {Key(p)} /\ n.revision \in Nat /\ n.revision # 0
  BY DEF RegistryOK, IDs, With
<1>2. Key(p) \in Projects \X Nat /\ Entry(p) \in [ns : Nat, facts : Nat]
  BY DEF Key, Entry, TypeInv
<1>3. ASSUME NEW i \in IDs(n) PROVE n.projects[i] \in [ns : Nat, facts : Nat]
  <2>1. n.projects[i] = IF i = Key(p) THEN Entry(p) ELSE r.projects[i]
    BY <1>3 DEF IDs, With
  <2> QED BY <1>1, <1>2, <1>3, <2>1 DEF RegistryOK
<1>4. IDs(n) \subseteq Projects \X Nat /\ IDs(n) # {}
  BY <1>1, <1>2 DEF RegistryOK
<1> QED BY <1>1, <1>3, <1>4 DEF RegistryOK

\* The registry nobody has written is one.
LEMMA EmptyOK == RegistryOK(Empty)
BY DEF RegistryOK, Empty, IDs

LEMMA FilesOK ==
    /\ FileOK(NoFile)
    /\ \A r : RegistryOK(r) => FileOK(Written(r))
    /\ \A f, p : FileOK(f) => FileOK(Abandoned(f, p))
<1>1. FileOK(NoFile) BY EmptyOK DEF FileOK, NoFile
<1>2. \A r : RegistryOK(r) => FileOK(Written(r)) BY DEF FileOK, Written
<1>3. ASSUME NEW f, NEW p, FileOK(f) PROVE FileOK(Abandoned(f, p))
  <2>1. CASE f.by = p
    <3>1. Abandoned(f, p) = [f EXCEPT !.by = None] BY <2>1 DEF Abandoned
    <3> QED BY <1>3, <3>1 DEF FileOK
  <2>2. CASE f.by # p BY <1>3, <2>2 DEF Abandoned
  <2> QED BY <2>1, <2>2
<1> QED BY <1>1, <1>2, <1>3

LEMMA TypeInvInit == Init => TypeInv
<1> SUFFICES ASSUME Init PROVE TypeInv
  OBVIOUS
<1>1. FileOK(backup) /\ FileOK(partial) BY FilesOK DEF Init
<1>2. RegistryOK(secret) /\ \A p \in Projects : RegistryOK(plain[p]) BY EmptyOK DEF Init
<1> QED BY <1>1, <1>2 DEF Init, TypeInv, TypeOK

LEMMA TypeInvNext == TypeInv /\ [Next]_vars => TypeInv'
<1> SUFFICES ASSUME TypeInv, [Next]_vars PROVE TypeInv'
  OBVIOUS
<1> USE DEF TypeInv, TypeOK
<1>s. CASE UNCHANGED vars
  <2>1. FileOK(backup)' /\ FileOK(partial)' /\ RegistryOK(secret)' /\ (\A p \in Projects : RegistryOK(plain[p]))'
    BY <1>s DEF vars, files, command, FileOK, RegistryOK, IDs
  <2> QED BY <1>s, <2>1 DEF vars, files, command
<1>n. ASSUME NEW p \in Projects,
             \/ Setup(p) \/ ChangeProject(p) \/ BeginRegister(p) \/ LoadFile(p) \/ Put(p) \/ CreatePartial(p) \/ WritePartial(p)
             \/ RenamePartial(p) \/ SaveConfig(p) \/ PutSecret(p) \/ Fail(p) \/ Kill(p)
      PROVE  TypeInv'
  <2>0. /\ FileOK(backup') => FileOK(backup)'
        /\ FileOK(partial') => FileOK(partial)'
        /\ RegistryOK(secret') => RegistryOK(secret)'
        /\ (\A q \in Projects : RegistryOK(plain'[q])) => (\A q \in Projects : RegistryOK(plain[q]))'
    BY DEF FileOK, RegistryOK, IDs
  <2>1. CASE Setup(p) BY <2>0, <2>1 DEF Setup, files, command
  <2>2. CASE ChangeProject(p) BY <2>0, <2>2 DEF ChangeProject, files, command
  <2>3. CASE BeginRegister(p) BY <2>0, <2>3 DEF BeginRegister, files, Goto, ReadProjectFacts
  <2>4. CASE LoadFile(p)
    <3>1. RegistryOK(backup.value) BY DEF FileOK
    <3> QED BY <2>0, <2>4, <3>1 DEF LoadFile, files, Goto
  <2>5. CASE Put(p)
    <3>1. RegistryOK([revision |-> plain[p].revision + 1, projects |-> With(plain[p].projects, p)]) BY PutOK
    <3> QED BY <2>0, <2>5, <3>1 DEF Put, files, Goto
  <2>6. CASE CreatePartial(p)
    <3>1. FileOK(backup') BY <2>6, FilesOK DEF CreatePartial
    <3>2. FileOK(partial') BY <2>6, EmptyOK DEF CreatePartial, FileOK
    <3> QED BY <2>0, <2>6, <3>1, <3>2 DEF CreatePartial, Goto
  <2>7. CASE WritePartial(p)
    <3>1. FileOK(backup') /\ FileOK(partial') BY <2>7, FilesOK DEF WritePartial
    <3> QED BY <2>0, <2>7, <3>1 DEF WritePartial, Goto
  <2>8. CASE RenamePartial(p)
    <3>1. FileOK(backup') /\ FileOK(partial') BY <2>8, FilesOK DEF RenamePartial
    <3> QED BY <2>0, <2>8, <3>1 DEF RenamePartial, Goto
  <2>9. CASE SaveConfig(p) BY <2>0, <2>9 DEF SaveConfig, files, Goto
  <2>10. CASE PutSecret(p) BY <2>0, <2>10 DEF PutSecret, files, Goto
  <2>11. CASE Fail(p)
    <3>1. FileOK(partial') BY <2>11, FilesOK DEF Fail
    <3> QED BY <2>0, <2>11, <3>1 DEF Fail
  <2>12. CASE Kill(p)
    <3>1. FileOK(backup') /\ FileOK(partial') BY <2>12, FilesOK DEF Kill
    <3>a. config[p] \in [whole : BOOLEAN, id : Nat, ns : Nat] OBVIOUS
    <3>b. [config[p] EXCEPT !.whole = FALSE] \in [whole : BOOLEAN, id : Nat, ns : Nat] BY <3>a
    <3>c. [config EXCEPT ![p].whole = FALSE] \in [Projects -> [whole : BOOLEAN, id : Nat, ns : Nat]] BY <3>b
    <3>2. config' \in [Projects -> [whole : BOOLEAN, id : Nat, ns : Nat]] BY <2>12, <3>c DEF Kill
    <3> QED BY <2>0, <2>12, <3>1, <3>2 DEF Kill
  <2> QED BY <1>n, <2>1, <2>2, <2>3, <2>4, <2>5, <2>6, <2>7, <2>8, <2>9, <2>10, <2>11, <2>12
<1> QED BY <1>s, <1>n DEF Next

\* Type correctness, whatever registrations do at once.
THEOREM TypeCorrect == Spec => []TypeOK
<1>1. Spec => []TypeInv BY TypeInvInit, TypeInvNext, PTL DEF Spec
<1>2. TypeInv => TypeOK BY DEF TypeInv
<1> QED BY <1>1, <1>2, PTL

(***************************************************************************)
(* One registration at a time.                                             *)
(***************************************************************************)
Holds(r) == IDs(secret) \subseteq IDs(r) /\ secret.revision <= r.revision
Above(r) == IDs(secret) \subseteq IDs(r) /\ secret.revision < r.revision

\* What a registration knows at each of its steps.
Knows(p) ==
    /\ pc[p] = "put" => plain[p] = backup.value
    /\ pc[p] \in {"create", "write", "rename", "config", "secret"} => Above(plain[p])
    /\ pc[p] = "write" => partial.by = p
    /\ pc[p] = "rename" => partial = Written(plain[p])
    /\ pc[p] \in {"config", "secret"} => backup.value = plain[p]

ExclusiveInv ==
    /\ \A p, q \in Projects : pc[p] # "idle" /\ pc[q] # "idle" => p = q
    /\ backup.by = None /\ (backup.exists => backup.complete) /\ Holds(backup.value)
    /\ \A p \in Projects : Knows(p)

LEMMA ExclusiveInit == Init => ExclusiveInv
BY DEF Init, ExclusiveInv, Knows, Holds, NoFile, Empty, IDs

\* What is put is above the secret when it was put into something that holds it.
LEMMA PutAbove ==
    ASSUME TypeInv, NEW p \in Projects, NEW r, RegistryOK(r), Holds(r)
    PROVE  Above([revision |-> r.revision + 1, projects |-> With(r.projects, p)])
<1> DEFINE n == [revision |-> r.revision + 1, projects |-> With(r.projects, p)]
<1>1. IDs(n) = IDs(r) \cup {Key(p)} BY DEF IDs, With
<1>2. n.revision = r.revision + 1 /\ r.revision \in Nat /\ secret.revision \in Nat
  BY DEF RegistryOK, TypeInv, TypeOK
<1> QED BY <1>1, <1>2 DEF Holds, Above

LEMMA ExclusiveNext == Exclusive /\ TypeInv /\ ExclusiveInv /\ [Next]_vars => ExclusiveInv'
<1> SUFFICES ASSUME Exclusive, TypeInv, ExclusiveInv, [Next]_vars PROVE ExclusiveInv'
  OBVIOUS
<1>t. /\ pc \in [Projects -> Steps] /\ plain = [q \in Projects |-> plain[q]]
      /\ secret.revision \in Nat /\ backup.value.revision \in Nat
      /\ \A q \in Projects : plain[q].revision \in Nat /\ RegistryOK(plain[q])
  BY DEF TypeInv, TypeOK, Steps, RegistryOK, FileOK
<1>s. CASE UNCHANGED vars
  BY <1>s DEF vars, files, command, ExclusiveInv, Knows, Holds, Above, IDs
<1>n. ASSUME NEW p \in Projects,
             \/ Setup(p) \/ ChangeProject(p) \/ BeginRegister(p) \/ LoadFile(p) \/ Put(p) \/ CreatePartial(p) \/ WritePartial(p)
             \/ RenamePartial(p) \/ SaveConfig(p) \/ PutSecret(p) \/ Fail(p) \/ Kill(p)
      PROVE  ExclusiveInv'
  <2>a. /\ \A q \in Projects : pc[p] # "idle" /\ q # p => pc[q] = "idle"
        /\ Knows(p) /\ backup.by # p /\ Holds(backup.value)
    BY NobodyAssumption DEF ExclusiveInv
  \* It is enough to look at p: the others stay idle.
  <2>b. SUFFICES /\ \A q \in Projects : q # p => pc'[q] = pc[q] /\ (pc'[p] # "idle" => pc[q] = "idle")
                 /\ pc' \in [Projects -> Steps]
                 /\ \A q \in Projects : q # p /\ pc[q] # "idle" => Knows(q)'
                 /\ backup'.by = None /\ (backup'.exists => backup'.complete) /\ Holds(backup.value)'
                 /\ Knows(p)'
    <3>1. ASSUME NEW q \in Projects, q # p, pc[q] = "idle", pc'[q] = pc[q] PROVE Knows(q)'
      BY <3>1 DEF Knows
    <3> QED BY <1>t, <3>1 DEF ExclusiveInv
  <2>1. CASE Setup(p)
    BY <1>t, <2>1, <2>a DEF Setup, files, command, ExclusiveInv, Knows, Holds, Above, IDs
  <2>2. CASE ChangeProject(p)
    BY <1>t, <2>2, <2>a DEF ChangeProject, files, command, ExclusiveInv, Knows, Holds, Above, IDs
  <2>3. CASE BeginRegister(p)
    BY <1>t, <2>3 DEF BeginRegister, files, Goto, ExclusiveInv, Knows, Holds, Above, IDs, Steps
  <2>4. CASE LoadFile(p)
    BY <1>t, <2>4, <2>a DEF LoadFile, files, Goto, ExclusiveInv, Knows, Holds, Above, IDs, Steps
  <2>5. CASE Put(p)
    <3>1. plain[p] = backup.value BY <2>5, <2>a DEF Put, Goto, Knows
    <3>2. Above([revision |-> plain[p].revision + 1, projects |-> With(plain[p].projects, p)])
      BY <1>t, <2>a, <3>1, PutAbove
    <3> HIDE DEF Above
    <3>3. Above(plain'[p]) BY <1>t, <2>5, <3>2 DEF Put
    <3>4. Above(plain[p])' BY <2>5, <3>3 DEF Put, Above, IDs
    <3> QED BY <1>t, <2>5, <2>a, <3>4 DEF Put, files, Goto, ExclusiveInv, Knows, Holds, IDs, Steps
  <2>6. CASE CreatePartial(p)
    <3>1. backup' = backup BY <2>6, <2>a DEF CreatePartial, Abandoned
    <3> QED BY <1>t, <2>6, <2>a, <3>1 DEF CreatePartial, Goto, ExclusiveInv, Knows, Holds, Above, IDs, Steps
  <2>7. CASE WritePartial(p)
    <3>1. backup' = backup /\ partial' = Written(plain[p]) BY <2>7, <2>a DEF WritePartial, Goto, Knows
    <3> QED BY <1>t, <2>7, <2>a, <3>1 DEF WritePartial, Goto, ExclusiveInv, Knows, Holds, Above, IDs, Steps
  <2>8. CASE RenamePartial(p)
    <3>1. backup' = Written(plain[p]) /\ Above(plain[p]) BY <2>8, <2>a DEF RenamePartial, Goto, Knows
    <3> QED BY <1>t, <2>8, <2>a, <3>1 DEF RenamePartial, Goto, ExclusiveInv, Knows, Holds, Above, Written, IDs, Steps
  <2>9. CASE SaveConfig(p)
    BY <1>t, <2>9, <2>a DEF SaveConfig, files, Goto, ExclusiveInv, Knows, Holds, Above, IDs, Steps
  <2>10. CASE PutSecret(p)
    BY <1>t, <2>10, <2>a DEF PutSecret, files, Goto, ExclusiveInv, Knows, Holds, Above, IDs, Steps
  <2>11. CASE Fail(p)
    BY <1>t, <2>11, <2>a DEF Fail, ExclusiveInv, Knows, Holds, Above, IDs, Steps
  <2>12. CASE Kill(p)
    <3>1. backup' = backup BY <2>12, <2>a DEF Kill, Abandoned
    <3> QED BY <1>t, <2>12, <2>a, <3>1 DEF Kill, ExclusiveInv, Knows, Holds, Above, IDs, Steps
  <2> QED BY <1>n, <2>1, <2>2, <2>3, <2>4, <2>5, <2>6, <2>7, <2>8, <2>9, <2>10, <2>11, <2>12
<1> QED BY <1>s, <1>n DEF Next

LEMMA ExclusiveAlways == ASSUME Exclusive PROVE Spec => [](TypeInv /\ ExclusiveInv)
<1>1. Init => TypeInv /\ ExclusiveInv BY TypeInvInit, ExclusiveInit
<1>2. TypeInv /\ ExclusiveInv /\ [Next]_vars => (TypeInv /\ ExclusiveInv)' BY Exclusive, TypeInvNext, ExclusiveNext
<1> QED BY <1>1, <1>2, PTL DEF Spec

\* The backup holds what the secret holds, whatever fails or is killed, when
\* registrations exclude each other.
THEOREM BackupHolds == ASSUME Exclusive PROVE Spec => []BackupHoldsSecret
<1>1. ExclusiveInv => BackupHoldsSecret BY DEF ExclusiveInv, BackupHoldsSecret, Holds
<1> QED BY <1>1, ExclusiveAlways, PTL

\* The secret's revision only grows, when registrations exclude each other.
THEOREM RevisionsOnlyGrow == ASSUME Exclusive PROVE Spec => RevisionsGrow
<1>1. ExclusiveInv /\ [Next]_vars => [secret' # secret => secret'.revision > secret.revision]_vars
  <2> SUFFICES ASSUME ExclusiveInv, Next, secret' # secret PROVE secret'.revision > secret.revision
    OBVIOUS
  <2>1. PICK p \in Projects : PutSecret(p)
    BY DEF Next, Setup, ChangeProject, BeginRegister, LoadFile, Put, CreatePartial, WritePartial, RenamePartial, SaveConfig, Fail, Kill
  <2>2. Above(plain[p]) BY <2>1 DEF PutSecret, Goto, ExclusiveInv, Knows
  <2> QED BY <2>1, <2>2 DEF PutSecret, Above
<1> QED BY <1>1, ExclusiveAlways, PTL DEF Spec, RevisionsGrow

(***************************************************************************)
(* What was reported as done stays resolvable.                             *)
(***************************************************************************)
Putting == {"create", "write", "rename", "config", "secret"}

\* A registry with everything that was confirmed, or newer.
Dominates(r) ==
    \A i \in DOMAIN confirmed :
        i \in IDs(r) /\ r.projects[i].ns >= confirmed[i].ns /\ r.projects[i].facts >= confirmed[i].facts

\* What was confirmed of project p is no newer than what p now has and what it
\* is about to register under the same ID.
Newest(i) ==
    LET p == i[1]  c == confirmed[i] IN
    /\ c.ns \in Nat /\ c.facts \in Nat
    /\ i[2] < fresh[p] /\ c.ns < fresh[p] /\ c.facts <= facts[p]
    /\ i[2] = config[p].id => c.ns <= config[p].ns
    /\ pc[p] # "idle" /\ i[2] = work[p].id => c.ns <= work[p].ns /\ c.facts <= work[p].facts

Draws(p) ==
    /\ config[p].id < fresh[p] /\ config[p].ns < fresh[p]
    /\ pc[p] # "idle" => work[p].id < fresh[p] /\ work[p].ns < fresh[p] /\ work[p].facts <= facts[p]
    /\ pc[p] = "secret" => config[p].id = work[p].id /\ config[p].ns = work[p].ns

Brings(p) ==
    pc[p] \in Putting =>
        /\ Dominates(plain[p]) /\ Cardinality(IDs(plain[p])) <= MaxProjects
        /\ Key(p) \in IDs(plain[p]) /\ plain[p].projects[Key(p)] = Entry(p)

ResolveInv ==
    /\ DOMAIN confirmed \subseteq Projects \X Nat
    /\ \A i \in DOMAIN confirmed : Newest(i)
    /\ \A p \in Projects : Draws(p) /\ Brings(p)
    /\ Dominates(secret) /\ Dominates(backup.value) /\ Cardinality(IDs(secret)) <= MaxProjects
\* An entry added replaces its own ID and nothing else.
LEMMA WithEntry ==
    ASSUME NEW p, NEW f
    PROVE  /\ DOMAIN With(f, p) = DOMAIN f \cup {Key(p)}
           /\ With(f, p)[Key(p)] = Entry(p)
           /\ \A i \in DOMAIN f : i # Key(p) => With(f, p)[i] = f[i]
BY DEF With

\* Nothing is confirmed before the first registration.
LEMMA ResolveInit == Init => ResolveInv
<1> SUFFICES ASSUME Init PROVE ResolveInv
  OBVIOUS
<1>1. DOMAIN confirmed = {} /\ IDs(secret) = {}
  BY DEF Init, IDs, Empty
<1>2. Cardinality(IDs(secret)) <= MaxProjects
  BY <1>1, FS_EmptySet, BoundsAssumption
<1>3. ASSUME NEW p \in Projects PROVE Draws(p) /\ Brings(p)
  BY DEF Init, Draws, Brings, Putting
<1> QED
  BY <1>1, <1>2, <1>3 DEF ResolveInv, Dominates

\* What has been put holds what was confirmed, when it was put into something that does.
LEMMA PutDominates ==
    ASSUME TypeInv, ResolveInv, NEW p \in Projects, pc[p] # "idle", NEW r, Dominates(r)
    PROVE  LET n == [revision |-> r.revision + 1, projects |-> With(r.projects, p)] IN
           /\ Dominates(n)
           /\ Key(p) \in IDs(n) /\ n.projects[Key(p)] = Entry(p) /\ IDs(n) = IDs(r) \cup {Key(p)}
<1> DEFINE n == [revision |-> r.revision + 1, projects |-> With(r.projects, p)]
<1>1. /\ n.projects = With(r.projects, p)
      /\ IDs(n) = IDs(r) \cup {Key(p)} /\ n.projects[Key(p)] = Entry(p)
      /\ \A i \in IDs(r) : i # Key(p) => n.projects[i] = r.projects[i]
  BY WithEntry DEF IDs
<1> HIDE DEF n
<1>2. ASSUME NEW i \in DOMAIN confirmed
      PROVE  i \in IDs(n) /\ n.projects[i].ns >= confirmed[i].ns /\ n.projects[i].facts >= confirmed[i].facts
  <2>1. i \in IDs(r) /\ r.projects[i].ns >= confirmed[i].ns /\ r.projects[i].facts >= confirmed[i].facts
    BY <1>2 DEF Dominates
  <2>2. CASE i # Key(p)
    BY <1>1, <2>1, <2>2
  <2>3. CASE i = Key(p)
    <3>1. Newest(i) /\ i[1] = p /\ i[2] = work[p].id
      BY <1>2, <2>3 DEF ResolveInv, Key
    <3>2. confirmed[i].ns <= work[p].ns /\ confirmed[i].facts <= work[p].facts
          /\ confirmed[i].ns \in Nat /\ confirmed[i].facts \in Nat
      BY <3>1 DEF Newest
    <3>3. n.projects[i].ns = work[p].ns /\ n.projects[i].facts = work[p].facts
      BY <1>1, <2>3 DEF Entry
    <3>4. work[p].ns \in Nat /\ work[p].facts \in Nat
      BY DEF TypeInv
    <3> QED
      BY <1>1, <2>1, <3>2, <3>3, <3>4
  <2> QED
    BY <2>2, <2>3
<1>3. Dominates(n)
  BY <1>2 DEF Dominates
<1> QED
  BY <1>1, <1>3 DEF n

\* Every step keeps it: what is put on top of a registry that dominates what was
\* confirmed dominates it too, and what is confirmed is what the secret now has.
LEMMA ResolveNext == Exclusive /\ TypeInv /\ ExclusiveInv /\ ResolveInv /\ [Next]_vars => ResolveInv'
<1> SUFFICES ASSUME Exclusive, TypeInv, ExclusiveInv, ResolveInv, [Next]_vars PROVE ResolveInv'
  OBVIOUS
<1>t. /\ config \in [Projects -> [whole : BOOLEAN, id : Nat, ns : Nat]]
      /\ facts \in [Projects -> Nat] /\ fresh \in [Projects -> Nat] /\ pc \in [Projects -> Steps]
      /\ work \in [Projects -> [id : Nat, ns : Nat, facts : Nat]]
      /\ plain = [q \in Projects |-> plain[q]]
  BY DEF TypeInv, TypeOK, Steps
<1>i. /\ DOMAIN confirmed \subseteq Projects \X Nat
      /\ \A i \in DOMAIN confirmed : Newest(i) /\ i[1] \in Projects /\ i[2] \in Nat /\ i = <<i[1], i[2]>>
      /\ \A p \in Projects : Draws(p) /\ Brings(p)
  BY DEF ResolveInv
<1>s. CASE UNCHANGED vars
  BY <1>s DEF vars, files, command, ResolveInv, Newest, Draws, Brings, Dominates, IDs, Key, Entry
\* Nothing new is confirmed: it is enough to look at the project that steps.
<1>q. ASSUME NEW p \in Projects, confirmed' = confirmed,
             \A r \in Projects : r # p => /\ config'[r] = config[r] /\ fresh'[r] = fresh[r] /\ facts'[r] = facts[r]
                                          /\ work'[r] = work[r] /\ plain'[r] = plain[r] /\ pc'[r] = pc[r],
             \A i \in DOMAIN confirmed : i[1] = p => Newest(i)',
             Draws(p)', Brings(p)', Dominates(secret)', Dominates(backup.value)',
             Cardinality(IDs(secret))' <= MaxProjects
      PROVE  ResolveInv'
  <2>1. ASSUME NEW i \in DOMAIN confirmed, i[1] # p PROVE Newest(i)'
    BY <1>i, <1>q, <2>1 DEF Newest
  <2>2. ASSUME NEW r \in Projects, r # p PROVE Draws(r)' /\ Brings(r)'
    BY <1>i, <1>q, <2>2 DEF Draws, Brings, Dominates, Key, Entry, IDs
  <2> QED
    BY <1>i, <1>q, <2>1, <2>2 DEF ResolveInv
<1>d. /\ Dominates(secret) /\ Dominates(backup.value) /\ Cardinality(IDs(secret)) <= MaxProjects
      /\ \A r : confirmed' = confirmed => (Dominates(r) <=> Dominates(r)')
  BY DEF ResolveInv, Dominates, IDs
<1>n. ASSUME NEW p \in Projects,
             \/ Setup(p) \/ ChangeProject(p) \/ BeginRegister(p) \/ LoadFile(p) \/ Put(p) \/ CreatePartial(p) \/ WritePartial(p)
             \/ RenamePartial(p) \/ SaveConfig(p) \/ PutSecret(p) \/ Fail(p) \/ Kill(p)
      PROVE  ResolveInv'
  <2>0. /\ Knows(p) /\ backup.by # p /\ Draws(p) /\ Brings(p)
        /\ config[p].id \in Nat /\ config[p].ns \in Nat /\ fresh[p] \in Nat /\ facts[p] \in Nat
        /\ work[p].id \in Nat /\ work[p].ns \in Nat /\ work[p].facts \in Nat
    BY <1>t, <1>i, NobodyAssumption DEF ExclusiveInv
  <2>n. ASSUME NEW i \in DOMAIN confirmed, i[1] = p
        PROVE  /\ confirmed[i].ns \in Nat /\ confirmed[i].facts \in Nat
               /\ i[2] \in Nat /\ i[2] < fresh[p] /\ confirmed[i].ns < fresh[p] /\ confirmed[i].facts <= facts[p]
               /\ i[2] = config[p].id => confirmed[i].ns <= config[p].ns
               /\ pc[p] # "idle" /\ i[2] = work[p].id => confirmed[i].ns <= work[p].ns /\ confirmed[i].facts <= work[p].facts
    BY <1>i, <2>n DEF Newest
  \* Steps that leave the registries alone.
  <2>b. ASSUME confirmed' = confirmed, secret' = secret
        PROVE  Dominates(secret)' /\ Cardinality(IDs(secret))' <= MaxProjects
    BY <1>d, <2>b DEF Dominates, IDs
  <2>c. ASSUME confirmed' = confirmed, backup'.value = backup.value PROVE Dominates(backup.value)'
    BY <1>d, <2>c DEF Dominates, IDs
  <2>d. ASSUME confirmed' = confirmed, plain'[p] = plain[p], work'[p] = work[p], pc[p] \in Putting \/ pc'[p] \notin Putting
        PROVE  Brings(p)'
    BY <2>0, <2>d DEF Brings, Dominates, IDs, Key, Entry
  <2>1. CASE Setup(p)
    <3>1. /\ pc[p] = "idle" /\ UNCHANGED <<facts, backup, secret, pc, work, plain, confirmed>>
          /\ fresh'[p] = fresh[p] + 1
          /\ config'[p].id \in {config[p].id, fresh[p]} /\ config'[p].ns \in {config[p].ns, fresh[p]}
          /\ \A r \in Projects : r # p => config'[r] = config[r] /\ fresh'[r] = fresh[r]
      BY <1>t, <2>1 DEF Setup, files, command
    <3>2. ASSUME NEW i \in DOMAIN confirmed, i[1] = p PROVE Newest(i)'
      BY <2>0, <2>n, <3>1, <3>2 DEF Newest
    <3>3. Draws(p)'
      BY <2>0, <3>1 DEF Draws
    <3>4. Brings(p)'
      BY <3>1 DEF Brings, Putting
    <3> QED
      BY <1>q, <2>b, <2>c, <3>1, <3>2, <3>3, <3>4
  <2>2. CASE ChangeProject(p)
    <3>1. /\ UNCHANGED <<config, backup, secret, pc, work, plain, confirmed, fresh>>
          /\ facts'[p] = facts[p] + 1
          /\ \A r \in Projects : r # p => facts'[r] = facts[r]
      BY <1>t, <2>2 DEF ChangeProject, files, command
    <3>2. ASSUME NEW i \in DOMAIN confirmed, i[1] = p PROVE Newest(i)'
      BY <2>0, <2>n, <3>1, <3>2 DEF Newest
    <3>3. Draws(p)'
      BY <2>0, <3>1 DEF Draws
    <3>4. Brings(p)'
      BY <2>d, <3>1
    <3> QED
      BY <1>q, <2>b, <2>c, <3>1, <3>2, <3>3, <3>4
  <2>3. CASE BeginRegister(p)
    <3>1. /\ UNCHANGED <<config, facts, backup, secret, plain, confirmed>>
          /\ pc'[p] = "load" /\ fresh'[p] = fresh[p] + 1 /\ work'[p].facts = facts[p]
          /\ work'[p].id = (IF config[p].id = 0 THEN fresh[p] ELSE config[p].id)
          /\ work'[p].ns = (IF config[p].ns = 0 THEN fresh[p] ELSE config[p].ns)
          /\ \A r \in Projects : r # p => pc'[r] = pc[r] /\ fresh'[r] = fresh[r] /\ work'[r] = work[r]
      BY <1>t, <2>3 DEF BeginRegister, Goto, ReadProjectFacts, files
    <3>2. ASSUME NEW i \in DOMAIN confirmed, i[1] = p PROVE Newest(i)'
      BY <2>0, <2>n, <3>1, <3>2 DEF Newest
    <3>3. Draws(p)'
      BY <2>0, <3>1 DEF Draws
    <3>4. Brings(p)'
      BY <3>1 DEF Brings, Putting
    <3> QED
      BY <1>q, <2>b, <2>c, <3>1, <3>2, <3>3, <3>4
  <2>4. CASE LoadFile(p)
    <3>1. /\ UNCHANGED <<config, facts, backup, secret, work, confirmed, fresh>>
          /\ pc[p] = "load" /\ pc'[p] = "put"
          /\ \A r \in Projects : r # p => pc'[r] = pc[r] /\ plain'[r] = plain[r]
      BY <1>t, <2>4 DEF LoadFile, Goto, files
    <3>2. ASSUME NEW i \in DOMAIN confirmed, i[1] = p PROVE Newest(i)'
      BY <2>0, <2>n, <3>1, <3>2 DEF Newest
    <3>3. Draws(p)'
      BY <2>0, <3>1 DEF Draws
    <3>4. Brings(p)'
      BY <3>1 DEF Brings, Putting
    <3> QED
      BY <1>q, <2>b, <2>c, <3>1, <3>2, <3>3, <3>4
  <2>5. CASE Put(p)
    <3>1. pc[p] = "put" /\ plain[p] = backup.value
      BY <2>0, <2>5 DEF Put, Goto, Knows
    <3> DEFINE n == [revision |-> plain[p].revision + 1, projects |-> With(plain[p].projects, p)]
    <3>2. Dominates(n) /\ Key(p) \in IDs(n) /\ n.projects[Key(p)] = Entry(p) /\ Cardinality(IDs(n)) <= MaxProjects
      BY <1>d, <2>5, <3>1, PutDominates DEF Put
    <3> HIDE DEF n
    <3>3. plain'[p] = n /\ confirmed' = confirmed /\ UNCHANGED <<config, facts, files, secret, work, fresh>>
          /\ pc' = [pc EXCEPT ![p] = "create"] /\ \A r \in Projects : r # p => plain'[r] = plain[r]
      BY <1>t, <2>5 DEF Put, Goto, n
    <3>4. Brings(p)'
      BY <3>2, <3>3 DEF Brings, Key, Entry, IDs, Dominates
    <3>5. ASSUME NEW i \in DOMAIN confirmed, i[1] = p PROVE Newest(i)'
      BY <1>t, <2>0, <2>n, <3>1, <3>3, <3>5 DEF Newest
    <3>6. Draws(p)'
      BY <1>t, <2>0, <3>1, <3>3 DEF Draws
    <3>7. \A r \in Projects : r # p => pc'[r] = pc[r]
      BY <1>t, <3>3
    <3> QED
      BY <1>q, <2>b, <2>c, <3>3, <3>4, <3>5, <3>6, <3>7 DEF files
  \* The steps of SaveFile, and the ends, decide nothing about the configuration.
  <2>e. ASSUME UNCHANGED <<config, facts, secret, work, plain, confirmed, fresh>>, backup'.value = backup.value \/ backup'.value = plain[p],
               pc[p] # "idle", pc'[p] # "secret", pc'[p] \in Putting => pc[p] \in Putting,
               pc[p] \in Putting \/ backup'.value = backup.value,
               \A r \in Projects : r # p => pc'[r] = pc[r]
        PROVE  ResolveInv'
    <3>1. ASSUME NEW i \in DOMAIN confirmed, i[1] = p PROVE Newest(i)'
      BY <2>0, <2>n, <2>e, <3>1 DEF Newest
    <3>2. Draws(p)'
      BY <2>0, <2>e DEF Draws
    <3>3. Brings(p)'
      BY <2>d, <2>e
    <3>4. Dominates(backup.value)'
      BY <1>d, <2>0, <2>c, <2>e DEF Brings, Dominates, IDs
    <3> QED
      BY <1>q, <2>b, <2>e, <3>1, <3>2, <3>3, <3>4
  <2>6. CASE CreatePartial(p)
    <3>1. backup' = backup
      BY <2>6, <2>0 DEF CreatePartial, Abandoned
    <3> QED
      BY <1>t, <2>6, <2>e, <3>1 DEF CreatePartial, Goto, Putting
  <2>7. CASE WritePartial(p)
    <3>1. backup' = backup
      BY <2>7, <2>0 DEF WritePartial
    <3> QED
      BY <1>t, <2>7, <2>e, <3>1 DEF WritePartial, Goto, Putting
  <2>8. CASE RenamePartial(p)
    <3>1. backup'.value = plain[p]
      BY <2>8, <2>0 DEF RenamePartial, Goto, Knows, Written
    <3> QED
      BY <1>t, <2>8, <2>e, <3>1 DEF RenamePartial, Goto, Putting
  <2>9. CASE SaveConfig(p)
    <3>1. /\ UNCHANGED <<facts, backup, secret, work, plain, confirmed, fresh>>
          /\ pc[p] = "config" /\ pc'[p] = "secret" /\ config'[p].id = work[p].id /\ config'[p].ns = work[p].ns
          /\ \A r \in Projects : r # p => pc'[r] = pc[r] /\ config'[r] = config[r]
      BY <1>t, <2>9 DEF SaveConfig, Goto, files
    <3>2. ASSUME NEW i \in DOMAIN confirmed, i[1] = p PROVE Newest(i)'
      BY <2>0, <2>n, <3>1, <3>2 DEF Newest
    <3>3. Draws(p)'
      BY <2>0, <3>1 DEF Draws
    <3>4. Brings(p)'
      BY <2>d, <3>1 DEF Putting
    <3> QED
      BY <1>q, <2>b, <2>c, <3>1, <3>2, <3>3, <3>4
  <2>10. CASE PutSecret(p)
    <3>1. /\ pc[p] = "secret" /\ pc' = [pc EXCEPT ![p] = "idle"] /\ secret' = plain[p]
          /\ UNCHANGED <<config, facts, files, work, plain, fresh>>
          /\ confirmed' = confirmed \/ confirmed' = With(confirmed, p)
      BY <2>10 DEF PutSecret, Goto
    <3>2. /\ Dominates(plain[p]) /\ Cardinality(IDs(plain[p])) <= MaxProjects
          /\ Key(p) \in IDs(plain[p]) /\ plain[p].projects[Key(p)] = Entry(p)
          /\ backup.value = plain[p]
      BY <2>0, <3>1 DEF Brings, Putting, Knows
    <3>3. CASE confirmed' = confirmed
      <4>1. ASSUME NEW i \in DOMAIN confirmed, i[1] = p PROVE Newest(i)'
        BY <1>t, <2>0, <2>n, <3>1, <3>3, <4>1 DEF Newest
      <4>2. Draws(p)' /\ Brings(p)'
        BY <1>t, <2>0, <3>1 DEF Draws, Brings, Putting
      <4>3. Dominates(secret)' /\ Dominates(backup.value)' /\ Cardinality(IDs(secret))' <= MaxProjects
        BY <1>d, <3>1, <3>2, <3>3 DEF Dominates, IDs, files
      <4> QED
        BY <1>t, <1>q, <3>1, <3>3, <4>1, <4>2, <4>3
    <3>4. CASE confirmed' = With(confirmed, p)
      <4>1. /\ DOMAIN confirmed' = DOMAIN confirmed \cup {Key(p)}
            /\ confirmed'[Key(p)] = Entry(p)
            /\ \A i \in DOMAIN confirmed : i # Key(p) => confirmed'[i] = confirmed[i]
        BY <3>4, WithEntry
      <4>2. Key(p) = <<p, work[p].id>> /\ Entry(p).ns = work[p].ns /\ Entry(p).facts = work[p].facts
        BY DEF Key, Entry
      <4>3. Newest(Key(p))'
        <5>1. /\ work[p].id < fresh[p] /\ work[p].ns < fresh[p] /\ work[p].facts <= facts[p]
              /\ config[p].ns = work[p].ns
          BY <2>0, <3>1 DEF Draws
        <5>2. ASSUME NEW k, k = Key(p) PROVE Newest(k)'
          <6>1. k[1] = p /\ k[2] = work[p].id /\ confirmed'[k].ns = work[p].ns /\ confirmed'[k].facts = work[p].facts
            BY <4>1, <4>2, <5>2
          <6>2. config'[p].ns = work[p].ns /\ pc'[p] = "idle" /\ fresh' = fresh /\ facts' = facts
            BY <1>t, <3>1, <5>1
          <6> HIDE <5>2
          <6> QED
            BY <2>0, <5>1, <6>1, <6>2 DEF Newest
        <5>3. Key(p)' = Key(p)
          BY <3>1 DEF Key
        <5> QED
          BY <5>2, <5>3
      <4>4. ASSUME NEW i \in DOMAIN confirmed, i # Key(p) PROVE Newest(i)'
        BY <1>t, <1>i, <3>1, <4>1, <4>4 DEF Newest
      <4>5. \A i \in DOMAIN confirmed' : /\ i \in IDs(plain[p])
                                         /\ plain[p].projects[i].ns >= confirmed'[i].ns
                                         /\ plain[p].projects[i].facts >= confirmed'[i].facts
        BY <2>0, <3>2, <4>1, <4>2 DEF Dominates
      <4>6. Dominates(secret)' /\ Dominates(backup.value)'
        BY <3>1, <3>2, <4>5 DEF Dominates, files, IDs
      <4>7. ASSUME NEW r \in Projects PROVE Draws(r)' /\ Brings(r)'
        <5>1. Draws(r)'
          BY <1>t, <1>i, <3>1 DEF Draws
        <5>2. pc'[r] = "idle"
          BY <1>t, <3>1 DEF ExclusiveInv
        <5> QED
          BY <5>1, <5>2 DEF Brings, Putting
      <4>8. DOMAIN confirmed' \subseteq Projects \X Nat
        BY <1>i, <2>0, <4>1, <4>2
      <4>9. Cardinality(IDs(secret))' <= MaxProjects
        BY <3>1, <3>2 DEF IDs
      <4>10. \A i \in DOMAIN confirmed' : Newest(i)'
        <5>1. Key(p)' = Key(p)
          BY <3>1 DEF Key
        <5> QED
          BY <4>1, <4>3, <4>4, <5>1
      <4> QED
        BY <4>6, <4>7, <4>8, <4>9, <4>10 DEF ResolveInv
    <3> QED
      BY <3>1, <3>3, <3>4
  <2>11. CASE Fail(p)
    BY <1>t, <2>11, <2>e DEF Fail, Putting
  <2>12. CASE Kill(p)
    <3>1. backup' = backup /\ UNCHANGED <<facts, secret, work, plain, confirmed, fresh>> /\ pc'[p] = "idle"
          /\ \A r \in Projects : r # p => pc'[r] = pc[r]
      BY <1>t, <2>12, <2>0 DEF Kill, Abandoned
    <3>2. config'[p].id = config[p].id /\ config'[p].ns = config[p].ns /\ \A r \in Projects : r # p => config'[r] = config[r]
      <4>1. CASE config' = config
        BY <4>1
      <4>2. CASE config' = [config EXCEPT ![p].whole = FALSE]
        <5>1. config' = [config EXCEPT ![p] = [config[p] EXCEPT !.whole = FALSE]]
          BY <1>t, <4>2
        <5>2. config'[p] = [config[p] EXCEPT !.whole = FALSE] /\ \A r \in Projects : r # p => config'[r] = config[r]
          BY <1>t, <5>1
        <5>3. config[p] \in [whole : BOOLEAN, id : Nat, ns : Nat]
          BY <1>t
        <5> QED
          BY <5>2, <5>3
      <4> QED
        BY <2>12, <4>1, <4>2 DEF Kill
    <3>3. ASSUME NEW i \in DOMAIN confirmed, i[1] = p PROVE Newest(i)'
      BY <2>0, <2>n, <3>1, <3>2, <3>3 DEF Newest
    <3>4. Draws(p)'
      BY <2>0, <3>1, <3>2 DEF Draws
    <3>5. Brings(p)'
      BY <3>1 DEF Brings, Putting
    <3> QED
      BY <1>q, <2>b, <2>c, <3>1, <3>2, <3>3, <3>4, <3>5
  <2> QED BY <1>n, <2>1, <2>2, <2>3, <2>4, <2>5, <2>6, <2>7, <2>8, <2>9, <2>10, <2>11, <2>12
<1> QED BY <1>s, <1>n DEF Next

\* A project whose registration was reported as done stays in the secret, with what
\* it registered or something newer, whatever fails, is killed or registers afterwards,
\* when registrations exclude each other.  Two at once each put their own project on
\* top of the registry they read, and the later secret loses the other's.
THEOREM RegisteredResolveAlways == ASSUME Exclusive PROVE Spec => []RegisteredResolve
<1>1. Init => ResolveInv
  BY ResolveInit
<1>2. TypeInv /\ ExclusiveInv /\ ResolveInv /\ [Next]_vars => ResolveInv'
  BY Exclusive, ResolveNext
<1>3. TypeInv /\ ResolveInv => RegisteredResolve
  <2> SUFFICES ASSUME TypeInv, ResolveInv, NEW i \in DOMAIN confirmed
               PROVE  /\ ResolveProject(i) # None
                      /\ ResolveProject(i).ns >= confirmed[i].ns /\ ResolveProject(i).facts >= confirmed[i].facts
    BY DEF RegisteredResolve
  <2>1. /\ i \in IDs(secret) /\ secret.projects[i].ns >= confirmed[i].ns
        /\ secret.projects[i].facts >= confirmed[i].facts
    BY DEF ResolveInv, Dominates
  <2>2. ValidRegistry(secret)
    BY <2>1 DEF ResolveInv, ValidRegistry, TypeInv, TypeOK, RegistryOK
  <2>3. ResolveProject(i) = secret.projects[i]
    BY <2>1, <2>2 DEF ResolveProject
  <2>4. secret.projects[i] # None
    BY <2>1, NobodyAssumption DEF TypeInv, TypeOK, RegistryOK
  <2> QED
    BY <2>1, <2>3, <2>4
<1> QED
  BY <1>1, <1>2, <1>3, ExclusiveAlways, PTL DEF Spec
=============================================================================
