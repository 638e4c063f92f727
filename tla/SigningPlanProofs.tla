---------------------------- MODULE SigningPlanProofs ----------------------------
(***************************************************************************)
(* Theorems about SigningPlan: which profiles the signing job creates and  *)
(* embeds, and what it signs with them, for every set of applications and  *)
(* profiles that JobsAssumption admits, and every number of runs.          *)
(***************************************************************************)
EXTENDS SigningPlan, FiniteSetTheorems, SequenceTheorems, TLAPS

(***************************************************************************)
(* Finite sets.  Every nonempty family of finite sets has a member with no *)
(* other below it, which is what induction over data rests on here.        *)
(***************************************************************************)
LEMMA SmallestMember ==
    ASSUME NEW S, IsFiniteSet(S), NEW F, F # {}, \A X \in F : X \subseteq S
    PROVE  \E X \in F : \A Y \in F : Y \subseteq X => Y = X
<1>1. IsWellFoundedOn(StrictSubsetOrdering(S), SUBSET S)
  BY FS_StrictSubsetOrderingWellFounded, FS_FiniteSubsetsOfFinite
<1>2. PICK X \in F : \A Y \in F : ~(<<Y, X>> \in StrictSubsetOrdering(S))
  <2>1. F \subseteq SUBSET S
    OBVIOUS
  <2> QED
    BY <1>1, <2>1, WFMin
<1> QED
  BY <1>2 DEF StrictSubsetOrdering

\* A nonempty set of numbers has a least one.
LEMMA LeastNatural ==
    ASSUME NEW T \in SUBSET Nat, T # {}
    PROVE  \E m \in T : \A n \in T : m <= n
<1>1. PICK t \in T : TRUE
  OBVIOUS
<1> DEFINE F == {0..k : k \in {x \in T : x <= t}}
<1>a. IsFiniteSet(0..t)
  BY FS_Interval
<1>b. \A X \in F : X \subseteq 0..t
  OBVIOUS
<1>2. 0..t \in F
  OBVIOUS
<1>3. PICK X \in F : \A Y \in F : Y \subseteq X => Y = X
  <2> HIDE DEF F
  <2> QED
    BY <1>a, <1>b, <1>2, SmallestMember
<1>4. PICK m \in T : m <= t /\ X = 0..m
  BY <1>3
<1>5. ASSUME NEW n \in T, n < m PROVE FALSE
  <2>1. 0..n \in F
    BY <1>4, <1>5
  <2>2. 0..n \subseteq 0..m /\ 0..n # 0..m
    BY <1>5
  <2> QED
    BY <1>3, <1>4, <2>1, <2>2
<1> QED
  BY <1>5

\* Of finitely many things with a number one has the greatest.
LEMMA LongestLived ==
    ASSUME NEW n \in Nat, NEW S \in SUBSET (1..n), S # {}, NEW f, \A i \in S : f[i] \in Nat
    PROVE  \E i \in S : \A j \in S : f[i] >= f[j]
<1> DEFINE Bad == {X \in SUBSET S : X # {} /\ ~ \E i \in X : \A j \in X : f[i] >= f[j]}
<1> SUFFICES ASSUME Bad # {} PROVE FALSE
  OBVIOUS
<1>0. IsFiniteSet(1..n)
  BY FS_Interval
<1>1. \A X \in Bad : X \subseteq 1..n
  OBVIOUS
<1>2. PICK X \in Bad : \A Y \in Bad : Y \subseteq X => Y = X
  <2> HIDE DEF Bad
  <2> QED
    BY <1>0, <1>1, SmallestMember
<1>3. PICK x \in X : TRUE
  BY <1>2
<1>4. X \subseteq S /\ x \in S
  BY <1>2, <1>3
<1>5. X \ {x} \notin Bad
  BY <1>2, <1>3
<1>6. CASE X \ {x} = {}
  BY <1>2, <1>3, <1>4, <1>6
<1>7. CASE X \ {x} # {}
  <2>1. PICK m \in X \ {x} : \A j \in X \ {x} : f[m] >= f[j]
    BY <1>4, <1>5, <1>7
  <2>2. \A j \in X : (IF f[m] >= f[x] THEN f[m] ELSE f[x]) >= f[j]
    BY <1>4, <2>1
  <2> QED
    BY <1>2, <1>3, <2>1, <2>2
<1> QED
  BY <1>6, <1>7

\* A finite set as a sequence: each of its members once.
LEMMA SetAsSequence ==
    ASSUME NEW S, IsFiniteSet(S)
    PROVE  /\ SetToSeq(S) \in [1..Cardinality(S) -> S] /\ Cardinality(S) \in Nat
           /\ \A i, j \in 1..Cardinality(S) : SetToSeq(S)[i] = SetToSeq(S)[j] => i = j
           /\ \A x \in S : \E i \in 1..Cardinality(S) : SetToSeq(S)[i] = x
<1> DEFINE n == Cardinality(S)
<1>1. n \in Nat /\ ExistsBijection(1..n, S)
  BY FS_CardinalityType
<1>2. \E f \in [1..n -> S] : IsInjective(f)
  BY <1>1 DEF ExistsBijection, Bijection, Injection
<1>3. SetToSeq(S) \in [1..n -> S] /\ IsInjective(SetToSeq(S))
  BY <1>2 DEF SetToSeq
<1>4. SetToSeq(S) \in Injection(1..n, S)
  BY <1>3 DEF Injection
<1>5. IsFiniteSet(1..n) /\ Cardinality(1..n) = n
  BY <1>1, FS_Interval
<1>6. SetToSeq(S) \in Surjection(1..n, S)
  BY <1>4, <1>5, FS_Injection
<1> QED
  BY <1>1, <1>3, <1>6 DEF IsInjective, Surjection

(***************************************************************************)
(* The selection of a profile.                                             *)
(***************************************************************************)
Candidates(c) == \E n \in Nat : DOMAIN c = 1..n /\ \A i \in 1..n : IsProfile(c[i])

\* What is selected is one of the candidates, names the bundle and is usable;
\* and something is selected when it can be.
LEMMA SelectOK ==
    ASSUME NEW c, NEW id, Candidates(c)
    PROVE  /\ Select(c, id) # None =>
                \E i \in DOMAIN c : Select(c, id) = c[i] /\ c[i].id = id /\ Usable(c[i])
           /\ (\A i \in DOMAIN c : c[i].sound) /\ (\E i \in DOMAIN c : c[i].id = id /\ Usable(c[i])) =>
                Select(c, id) # None
<1> DEFINE good == {i \in DOMAIN c : c[i].id = id /\ Usable(c[i])}
           best == {i \in good : \A j \in good : c[i].expires >= c[j].expires}
<1>1. PICK n \in Nat : DOMAIN c = 1..n /\ \A i \in 1..n : IsProfile(c[i])
  BY DEF Candidates
<1>2. ASSUME good # {} PROVE (CHOOSE i \in best : \A j \in best : i <= j) \in good
  <2> DEFINE e == [i \in 1..n |-> c[i].expires]
  <2>1. \A i \in good : e[i] \in Nat /\ e[i] = c[i].expires
    BY <1>1 DEF IsProfile
  <2>2. good \in SUBSET (1..n)
    BY <1>1
  <2> HIDE DEF e, good
  <2>3. PICK i \in good : \A j \in good : e[i] >= e[j]
    BY <1>2, <2>1, <2>2, LongestLived
  <2>4. best # {} /\ best \in SUBSET Nat
    <3>1. i \in best
      BY <2>1, <2>3
    <3>2. best \subseteq good
      OBVIOUS
    <3> HIDE DEF best
    <3> QED
      BY <2>2, <3>1, <3>2
  <2> HIDE DEF best
  <2>5. \E m \in best : \A k \in best : m <= k
    BY <2>4, LeastNatural
  <2>6. (CHOOSE k \in best : \A j \in best : k <= j) \in best
    BY <2>5
  <2> QED
    BY <2>6 DEF best
<1>3. Select(c, id) = IF (\E i \in DOMAIN c : ~c[i].sound) \/ good = {} THEN None
                      ELSE c[CHOOSE i \in best : \A j \in best : i <= j]
  BY DEF Select
<1>4. \A i \in DOMAIN c : c[i] # None
  BY <1>1 DEF IsProfile, None
<1>5. CASE (\E i \in DOMAIN c : ~c[i].sound) \/ good = {}
  BY <1>3, <1>5
<1>6. CASE ~((\E i \in DOMAIN c : ~c[i].sound) \/ good = {})
  <2>1. PICK k \in good : Select(c, id) = c[k]
    <3> HIDE DEF good, best
    <3> QED
      BY <1>2, <1>3, <1>6
  <2> QED
    BY <1>4, <2>1
<1> QED
  BY <1>5, <1>6

(***************************************************************************)
(* The invariant of the job.                                               *)
(***************************************************************************)
\* Every bundle that takes a profile has an identifier of its own.
LEMMA ProfiledIds ==
    ASSUME NEW a, Accepted(a), Root \in DOMAIN a, NEW n \in Profiled(a)
    PROVE  /\ a[n].id = a[Root].id \/ IsStrictPrefix(a[Root].id, a[n].id)
           /\ \A m \in Profiled(a) : a[m].id = a[n].id => m = n
<1>1. \A k \in Profiled(a) : k \in DOMAIN a /\ k \in AppLike(a)
  BY DEF Profiled, AppLike
<1>2. ASSUME NEW k \in Profiled(a), k # Root
      PROVE  IsStrictPrefix(a[Root].id, a[k].id) /\ \A m \in AppLike(a) \ {k} : a[m].id # a[k].id
  <2>1. EntryOK(a, k)
    BY <1>1, <1>2 DEF Accepted
  <2>2. Kind(a, k) \in {"app", "watch-app", "app-clip", "app-extension"}
    BY DEF Profiled
  <2>3. InContainer(a, k)
    BY <1>2, <2>2 DEF Kind
  <2>4. NestedIdOK(a, k)
    BY <2>1, <2>3 DEF EntryOK, Described
  <2> QED
    BY <2>4 DEF NestedIdOK
<1> QED
  BY <1>1, <1>2

\* What the job created fits the bundle it was created for.
Created(p) ==
    /\ \E n \in Profiled(app) : p.id = app[n].id
    /\ p.distribution /\ p.certificate /\ ((p.devices # {}) <=> (job.type = "adhoc"))

Embedded(n) ==
    embedded[n] # None =>
        /\ n \in Profiled(app) /\ embedded[n].id = app[n].id /\ Usable(embedded[n])

Narrowed(n) ==
    entitled[n] # None =>
        /\ \A h \in entitled[n].domains : Grants(embedded[n].domains, h)
        /\ \A s \in entitled[n].services \ {"-"} : s # "*" /\ Grants(embedded[n].services, s)

\* Before a run of the signing job, and before the packager has accepted the
\* application.
Bare == \A n \in DOMAIN app : embedded[n] = None
Unpacked == {"input", "build", "package", "rejected"}
Untouched == asc = job.asc /\ Bare

JobInv ==
    /\ job \in Jobs /\ now \in Nat
    /\ IsFiniteSet(asc) /\ \A p \in asc : IsProfile(p) /\ p.sound
    /\ \A p \in asc \ job.asc : Created(p)
    /\ pc \notin Unpacked => Accepted(app)
    /\ pc \in Unpacked => Untouched
    /\ pc = "queued" => Bare
    /\ request.services \subseteq Services
    /\ DOMAIN embedded = DOMAIN app /\ DOMAIN entitled = DOMAIN app
    /\ \A n \in DOMAIN app : Embedded(n) /\ Narrowed(n)
    /\ OneProfilePerBundle

\* It holds of a job that has not begun ...
LEMMA JobInit == Init => JobInv
<1> SUFFICES ASSUME Init PROVE JobInv
  OBVIOUS
<1>1. job \in Jobs /\ asc = job.asc /\ pc \in Unpacked /\ now = 0
  BY DEF Init, Unpacked
<1>2. IsFiniteSet(asc) /\ \A p \in asc : IsProfile(p) /\ p.sound
  BY <1>1, JobsAssumption
<1>3. \A n \in DOMAIN app : Embedded(n) /\ Narrowed(n)
  BY DEF Init, Embedded, Narrowed
<1>4. request.services = {} /\ DOMAIN embedded = DOMAIN app /\ DOMAIN entitled = DOMAIN app
      /\ Untouched
  BY DEF Init, Untouched, Bare
<1> QED
  BY <1>1, <1>2, <1>3, <1>4 DEF JobInv, OneProfilePerBundle, Untouched

\* Two sequences one after the other.
LEMMA Concatenation ==
    ASSUME NEW T, NEW s \in Seq(T), NEW t \in Seq(T)
    PROVE  /\ s \o t \in Seq(T) /\ Len(s \o t) = Len(s) + Len(t) /\ DOMAIN (s \o t) = 1..(Len(s) + Len(t))
           /\ \A i \in 1..Len(s) : (s \o t)[i] = s[i]
           /\ \A i \in 1..Len(t) : (s \o t)[Len(s) + i] = t[i]
           /\ \A i \in 1..Len(s \o t) : i \in 1..Len(s) \/ i - Len(s) \in 1..Len(t)
OBVIOUS

\* The protected profiles, with what the account lists, are candidates.
LEMMA ListedOK ==
    ASSUME JobInv, NEW id
    PROVE  /\ Candidates(job.static \o Listed(id)) /\ Candidates(job.static \o <<>>)
           /\ (\A i \in DOMAIN job.static : job.static[i].sound) =>
                \A i \in DOMAIN (job.static \o Listed(id)) : (job.static \o Listed(id))[i].sound
           /\ \A p \in asc : p.id = id /\ p.expires > now /\ ((p.devices # {}) <=> (job.type = "adhoc")) =>
                \E i \in DOMAIN (job.static \o Listed(id)) : (job.static \o Listed(id))[i] = p
           /\ job.static \o Listed(id) \in Seq(ToSet(job.static) \cup asc)
<1> DEFINE L == {p \in asc : /\ p.id = id /\ p.expires > now
                             /\ (p.devices # {}) <=> (job.type = "adhoc")}
           s == job.static
<1>1. IsFiniteSet(asc) /\ (\A p \in asc : IsProfile(p) /\ p.sound)
      /\ s \in Seq(ToSet(s)) /\ (\A p \in ToSet(s) : IsProfile(p))
  BY JobsAssumption DEF JobInv
<1>2. IsFiniteSet(L) /\ Listed(id) = SetToSeq(L)
  BY <1>1, FS_Subset DEF Listed
<1>a. \A p \in L : p \in asc
  OBVIOUS
<1>b. \A p \in asc : p.id = id /\ p.expires > now /\ ((p.devices # {}) <=> (job.type = "adhoc")) => p \in L
  OBVIOUS
<1> HIDE DEF L
<1>3. /\ Listed(id) \in [1..Cardinality(L) -> L] /\ Cardinality(L) \in Nat
      /\ \A x \in L : \E i \in 1..Cardinality(L) : Listed(id)[i] = x
  BY <1>2, SetAsSequence
<1>4. Listed(id) \in Seq(asc) /\ Len(Listed(id)) = Cardinality(L)
  BY <1>3, <1>a
<1> DEFINE n == Cardinality(L)
           c == s \o Listed(id)
<1>5. Len(s) \in Nat /\ DOMAIN s = 1..Len(s) /\ \A i \in 1..Len(s) : s[i] \in ToSet(s)
  BY <1>1 DEF ToSet
<1>6. /\ s \in Seq(ToSet(s) \cup asc) /\ Listed(id) \in Seq(ToSet(s) \cup asc)
  BY <1>1, <1>4
<1>7. /\ c \in Seq(ToSet(s) \cup asc) /\ Len(c) = Len(s) + n /\ DOMAIN c = 1..(Len(s) + n)
      /\ \A i \in 1..Len(s) : c[i] = s[i]
      /\ \A i \in 1..n : c[Len(s) + i] = Listed(id)[i]
  <2> DEFINE T == ToSet(s) \cup asc
             t == Listed(id)
  <2>1. s \in Seq(T) /\ t \in Seq(T) /\ Len(t) = n
    BY <1>4, <1>6
  <2> HIDE DEF T, t, n, s, c
  <2>2. /\ s \o t \in Seq(T) /\ Len(s \o t) = Len(s) + n /\ DOMAIN (s \o t) = 1..(Len(s) + n)
        /\ \A i \in 1..Len(s) : (s \o t)[i] = s[i]
        /\ \A i \in 1..n : (s \o t)[Len(s) + i] = t[i]
    BY <2>1
  <2> QED
    BY <2>2 DEF T, t, c
<1> HIDE DEF c, n
<1>n. n \in Nat /\ Listed(id) \in [1..n -> L]
  BY <1>3 DEF n
<1>8. \A i \in 1..(Len(s) + n) : (i \in 1..Len(s) /\ c[i] = s[i]) \/ c[i] \in asc
  <2> SUFFICES ASSUME NEW i \in 1..(Len(s) + n), i \notin 1..Len(s) PROVE c[i] \in asc
    BY <1>7
  <2>1. i - Len(s) \in 1..n /\ i = Len(s) + (i - Len(s))
    BY <1>n, <1>5
  <2>2. c[i] = Listed(id)[i - Len(s)]
    BY <1>7, <2>1
  <2> QED
    BY <1>n, <1>a, <2>1, <2>2
<1>9. Candidates(c)
  <2>1. \A i \in 1..(Len(s) + n) : IsProfile(c[i])
    BY <1>1, <1>5, <1>8
  <2>2. Len(s) + n \in Nat
    BY <1>n, <1>5
  <2> QED
    BY <1>7, <2>1, <2>2 DEF Candidates
<1>10. s \o <<>> = s
  BY <1>1
<1>11. Candidates(s \o <<>>)
  BY <1>1, <1>5, <1>10 DEF Candidates
<1>12. (\A i \in DOMAIN s : s[i].sound) => \A i \in DOMAIN c : c[i].sound
  BY <1>1, <1>5, <1>7, <1>8
<1>13. ASSUME NEW p \in L PROVE \E i \in DOMAIN c : c[i] = p
  <2>1. PICK i \in 1..n : Listed(id)[i] = p
    BY <1>3 DEF n
  <2>2. Len(s) + i \in DOMAIN c /\ c[Len(s) + i] = p
    BY <1>n, <1>5, <1>7, <2>1
  <2> QED
    BY <2>2
<1> QED
  BY <1>7, <1>9, <1>11, <1>12, <1>13, <1>b DEF c

\* A signature narrows the profile it is made with.
LEMMA SignsNarrowly ==
    ASSUME request.services \subseteq Services, NEW p, NEW n
    PROVE  /\ \A h \in SignedDomains(p, n) : Grants(p.domains, h)
           /\ \A s \in SignedServices(p, n) \ {"-"} : s # "*" /\ Grants(p.services, s)
<1>1. \A h \in SignedDomains(p, n) : Grants(p.domains, h)
  BY DEF SignedDomains, Grants
<1> DEFINE asked == IF n = Root THEN request.services ELSE {}
           given == {s \in asked : Grants(p.services, s)}
<1>2. \A s \in given : s # "*" /\ Grants(p.services, s)
  BY DEF Services
<1>3. SignedServices(p, n) \in {{"-"}, given, p.services, {"CloudKit"}}
  BY DEF SignedServices
<1>4. "*" \in p.services \/ SignedServices(p, n) # {"CloudKit"} \/ "CloudKit" \in p.services
  BY <1>2 DEF SignedServices, Grants
<1>5. SignedServices(p, n) = p.services => \A s \in p.services \ {"-"} : s # "*"
  BY <1>2 DEF SignedServices
<1>6. \A s \in SignedServices(p, n) \ {"-"} : s # "*" /\ Grants(p.services, s)
  BY <1>2, <1>3, <1>4, <1>5 DEF Grants
<1> QED
  BY <1>1, <1>6

\* What the rest of a step keeps of the invariant.
LEMMA EmbedKeeps ==
    ASSUME JobInv, NEW n \in Profiled(app), NEW p, Usable(p), p.id = app[n].id, Embed(n, p),
           UNCHANGED <<job, now, runs, request, steps, version>>
    PROVE  /\ DOMAIN embedded' = DOMAIN app /\ DOMAIN entitled' = DOMAIN app
           /\ \A m \in DOMAIN app : Embedded(m)' /\ Narrowed(m)'
<1>1. /\ embedded' = [embedded EXCEPT ![n] = p]
      /\ entitled' = [entitled EXCEPT ![n] = [domains |-> SignedDomains(p, n), services |-> SignedServices(p, n)]]
      /\ DOMAIN embedded = DOMAIN app /\ DOMAIN entitled = DOMAIN app /\ n \in DOMAIN app
      /\ request.services \subseteq Services /\ app' = app /\ Profiled(app)' = Profiled(app)
  BY DEF Embed, JobInv, Profiled, app, Kind, InContainer
<1>2. /\ DOMAIN embedded' = DOMAIN app /\ DOMAIN entitled' = DOMAIN app
      /\ embedded'[n] = p /\ entitled'[n].domains = SignedDomains(p, n) /\ entitled'[n].services = SignedServices(p, n)
      /\ \A m \in DOMAIN app \ {n} : embedded'[m] = embedded[m] /\ entitled'[m] = entitled[m]
  BY <1>1
<1>3. \A q : Usable(q)' <=> Usable(q)
  BY DEF Usable
<1>4. Embedded(n)' /\ Narrowed(n)'
  BY <1>1, <1>2, <1>3, SignsNarrowly DEF Embedded, Narrowed
<1>5. ASSUME NEW m \in DOMAIN app \ {n} PROVE Embedded(m)' /\ Narrowed(m)'
  <2>1. Embedded(m) /\ Narrowed(m)
    BY DEF JobInv
  <2> QED
    BY <1>1, <1>2, <1>3, <2>1 DEF Embedded, Narrowed
<1> QED
  BY <1>2, <1>4, <1>5

\* The step of a bundle: a profile that is created is one no usable profile made
\* superfluous, and it fits.
LEMMA BundleStep == ASSUME JobInv, SignBundle PROVE JobInv'
<1> DEFINE n == steps[pos]
           id == app[n].id
           new == Fresh(id, Cardinality(asc))
           Cand(answers) == job.static \o (IF answers THEN Listed(id) ELSE <<>>)
<1>1. /\ pc = "sign" /\ n \in Profiled(app) /\ n \in DOMAIN app
      /\ UNCHANGED <<job, now, runs, request, steps, version>>
  BY DEF SignBundle, manifest, Profiled
<1>2. /\ app' = app /\ Profiled(app)' = Profiled(app) /\ (\A q : Usable(q)' <=> Usable(q))
      /\ (\A p : Created(p)' <=> Created(p)) /\ Accepted(app)
  BY <1>1 DEF app, Profiled, Kind, InContainer, Usable, Created, JobInv, Unpacked
<1>3. IsProfile(new) /\ new.sound /\ new.id = id /\ new.expires = now + 1 /\ Created(new) /\ Usable(new)
  BY <1>1 DEF Fresh, IsProfile, Created, Usable, JobInv
<1>4. \A a \in BOOLEAN : Candidates(Cand(a))
  BY ListedOK
<1>5. \A a \in BOOLEAN : Candidates(Append(Cand(a), new))
  <2> SUFFICES ASSUME NEW a \in BOOLEAN PROVE Candidates(Append(Cand(a), new))
    OBVIOUS
  <2>1. PICK k \in Nat : DOMAIN Cand(a) = 1..k /\ \A i \in 1..k : IsProfile(Cand(a)[i])
    BY <1>4 DEF Candidates
  <2>2. Cand(a) \in Seq(ToSet(job.static) \cup asc)
    <3>1. job.static \in Seq(ToSet(job.static))
      BY JobsAssumption DEF JobInv
    <3>2. job.static \o <<>> = job.static
      BY <3>1
    <3>3. job.static \in Seq(ToSet(job.static) \cup asc)
      BY <3>1
    <3> QED
      BY <3>2, <3>3, ListedOK
  <2> DEFINE c == Cand(a)
             T == ToSet(job.static) \cup asc
  <2> HIDE DEF c, T, Cand, new
  <2>3. Len(c) = k /\ Append(c, new) \in Seq(T \cup {new}) /\ DOMAIN Append(c, new) = 1..(k + 1)
        /\ Append(c, new)[k + 1] = new /\ \A i \in 1..k : Append(c, new)[i] = c[i]
    <3>1. c \in Seq(T) /\ DOMAIN c = 1..k
      BY <2>1, <2>2 DEF c, T
    <3> QED
      BY <3>1
  <2>4. \A i \in 1..(k + 1) : IsProfile(Append(c, new)[i])
    <3>1. \A i \in 1..k : IsProfile(c[i])
      BY <2>1 DEF c
    <3> QED
      BY <1>3, <2>3, <3>1
  <2> QED
    BY <2>3, <2>4 DEF Candidates, c
<1>6. ASSUME asc' = asc \/ asc' = asc \cup {new},
             asc' # asc => ((\A i \in DOMAIN job.static : job.static[i].sound) => Select(Cand(TRUE), id) = None),
             pc' \in {"sign", "failed"},
             DOMAIN embedded' = DOMAIN app /\ DOMAIN entitled' = DOMAIN app,
             \A m \in DOMAIN app : Embedded(m)' /\ Narrowed(m)'
      PROVE  JobInv'
  <2>1. IsFiniteSet(asc') /\ \A p \in asc' : IsProfile(p) /\ p.sound
    BY <1>3, <1>6, FS_AddElement DEF JobInv
  <2>2. \A p \in asc' \ job'.asc : Created(p)'
    BY <1>1, <1>2, <1>3, <1>6 DEF JobInv
  <2>3. OneProfilePerBundle'
    <3> SUFFICES ASSUME \A i \in DOMAIN job.static : job.static[i].sound,
                        NEW p \in asc' \ job.asc, NEW q \in asc' \ job.asc,
                        p.expires > now, q.expires > now, p.id = q.id
                 PROVE  p = q
      BY <1>1 DEF OneProfilePerBundle
    <3>1. CASE p \in asc /\ q \in asc
      BY <3>1 DEF JobInv, OneProfilePerBundle
    <3>2. ASSUME NEW r \in asc \ job.asc, r.id = id, r.expires > now, asc' # asc PROVE FALSE
      <4>1. Created(r)
        BY <3>2 DEF JobInv
      <4>2. \E i \in DOMAIN Cand(TRUE) : Cand(TRUE)[i] = r
        <5>1. r \in asc /\ r.id = id /\ r.expires > now /\ ((r.devices # {}) <=> (job.type = "adhoc"))
          BY <3>2, <4>1 DEF Created
        <5>2. Cand(TRUE) = job.static \o Listed(id)
          OBVIOUS
        <5> HIDE DEF Cand, id
        <5>3. \E i \in DOMAIN (job.static \o Listed(id)) : (job.static \o Listed(id))[i] = r
          BY <5>1, ListedOK
        <5> QED
          BY <5>2, <5>3
      <4>3. Usable(r)
        BY <3>2, <4>1 DEF Created, Usable
      <4>4. \A i \in DOMAIN Cand(TRUE) : Cand(TRUE)[i].sound
        BY ListedOK
      <4>5. Select(Cand(TRUE), id) # None
        <5> DEFINE c == Cand(TRUE)
        <5>1. Candidates(c) /\ (\A i \in DOMAIN c : c[i].sound) /\ (\E i \in DOMAIN c : c[i].id = id /\ Usable(c[i]))
          BY <1>4, <3>2, <4>2, <4>3, <4>4
        <5> HIDE DEF c, id
        <5>2. Select(c, id) # None
          BY <5>1, SelectOK
        <5> QED
          BY <5>2 DEF c
      <4> QED
        BY <1>6, <3>2, <4>5
    <3>3. CASE ~(p \in asc /\ q \in asc)
      <4>1. asc' = asc \cup {new} /\ asc' # asc
        BY <1>6, <3>3
      <4>2. p = new \/ (p \in asc /\ q = new)
        BY <3>3, <4>1
      <4> HIDE DEF new
      <4> QED
        BY <1>3, <3>2, <4>1, <4>2
    <3> QED
      BY <3>1, <3>3
  <2> QED
    BY <1>1, <1>2, <1>6, <2>1, <2>2, <2>3 DEF JobInv, Unpacked
<1>7. ASSUME GiveUp PROVE pc' \in {"sign", "failed"} /\ DOMAIN embedded' = DOMAIN app /\ DOMAIN entitled' = DOMAIN app
                          /\ \A m \in DOMAIN app : Embedded(m)' /\ Narrowed(m)'
  BY <1>1, <1>2, <1>7 DEF GiveUp, JobInv, Embedded, Narrowed
<1>8. ASSUME NEW c, Candidates(c), Select(c, id) # None, Embed(n, Select(c, id))
      PROVE  pc' \in {"sign", "failed"} /\ DOMAIN embedded' = DOMAIN app /\ DOMAIN entitled' = DOMAIN app
             /\ \A m \in DOMAIN app : Embedded(m)' /\ Narrowed(m)'
  <2> DEFINE p == Select(c, id)
  <2>1. Usable(p) /\ p.id = id
    BY <1>8, SelectOK
  <2> HIDE DEF p
  <2>2. Embed(n, p)
    BY <1>8 DEF p
  <2>3. pc' = "sign"
    BY <1>1, <2>2 DEF Embed
  <2> QED
    BY <1>1, <2>1, <2>2, <2>3, EmbedKeeps
<1>9. PICK answers \in (IF job.api THEN BOOLEAN ELSE {FALSE}) :
         LET candidates == job.static \o (IF answers THEN Listed(id) ELSE <<>>)
             chosen == Select(candidates, id)
         IN \/ GiveUp /\ UNCHANGED asc
            \/ chosen # None /\ Embed(n, chosen) /\ UNCHANGED asc
            \/ /\ chosen = None
               /\ \/ /\ answers /\ asc' = asc \cup {new}
                     /\ IF Select(Append(candidates, new), id) # None
                        THEN Embed(n, Select(Append(candidates, new), id)) ELSE GiveUp
                  \/ answers /\ asc' = asc \cup {new} /\ GiveUp
  BY DEF SignBundle
<1>10. answers \in BOOLEAN
  BY JobsAssumption DEF JobInv
<1> HIDE DEF new, id, n
<1>11. Candidates(Cand(answers)) /\ Candidates(Append(Cand(answers), new))
  BY <1>4, <1>5, <1>10
<1>12. answers => Cand(answers) = Cand(TRUE)
  OBVIOUS
<1> HIDE DEF Cand
<1>13. \/ GiveUp /\ UNCHANGED asc
       \/ Select(Cand(answers), id) # None /\ Embed(n, Select(Cand(answers), id)) /\ UNCHANGED asc
       \/ /\ Select(Cand(answers), id) = None /\ answers /\ asc' = asc \cup {new}
          /\ \/ GiveUp
             \/ /\ Select(Append(Cand(answers), new), id) # None
                /\ Embed(n, Select(Append(Cand(answers), new), id))
  BY <1>9 DEF Cand
<1> QED
  BY <1>6, <1>7, <1>8, <1>11, <1>12, <1>13

\* The steps that choose no profile.
LEMMA PlainStep ==
    ASSUME JobInv, UNCHANGED <<job, asc, request, now, embedded, entitled>>,
           pc' \notin Unpacked => Accepted(app),
           pc' \in Unpacked => pc \in Unpacked, pc' = "queued" => pc = "queued"
    PROVE  JobInv'
<1>1. app' = app /\ Profiled(app)' = Profiled(app) /\ (\A q : Usable(q)' <=> Usable(q)) /\ (\A p : Created(p)' <=> Created(p))
  BY DEF app, Profiled, Kind, InContainer, Usable, Created
<1>2. \A n \in DOMAIN app : Embedded(n)' /\ Narrowed(n)'
  BY <1>1 DEF JobInv, Embedded, Narrowed
<1>3. OneProfilePerBundle'
  BY DEF JobInv, OneProfilePerBundle
<1>4. /\ job' \in Jobs /\ now' \in Nat /\ IsFiniteSet(asc') /\ (\A p \in asc' : IsProfile(p) /\ p.sound)
      /\ (\A p \in asc' \ job'.asc : Created(p)')
      /\ request'.services \subseteq Services
      /\ DOMAIN embedded' = DOMAIN app' /\ DOMAIN entitled' = DOMAIN app'
  BY <1>1 DEF JobInv
<1>5. (pc \notin Unpacked => Accepted(app))'
  BY <1>1
<1>6. (pc \in Unpacked => Untouched)' /\ (pc = "queued" => Bare)'
  BY <1>1 DEF JobInv, Untouched, Bare
<1> QED
  BY <1>1, <1>2, <1>3, <1>4, <1>5, <1>6 DEF JobInv

\* ... every step keeps it ...
LEMMA JobNext == JobInv /\ [Next]_vars => JobInv'
<1> SUFFICES ASSUME JobInv, [Next]_vars PROVE JobInv'
  OBVIOUS
<1>1. CASE UNCHANGED vars
  <2>1. UNCHANGED <<job, asc, request, now, embedded, entitled, pc>>
    BY <1>1 DEF vars, account, manifest
  <2> QED
    BY <2>1, PlainStep DEF JobInv
<1>2. CASE TrustedPackage
  <2>1. /\ UNCHANGED <<job, asc, now, embedded, entitled>> /\ (pc' \notin Unpacked => Accepted(app))
        /\ request' = TakenRequest(job.request) /\ app' = app /\ pc \in Unpacked
    BY <1>2 DEF TrustedPackage, account, signing, app, Unpacked
  <2>2. request'.services \subseteq Services
    BY <2>1 DEF TakenRequest, SanitizeServices
  <2>3. Profiled(app)' = Profiled(app) /\ (\A q : Usable(q)' <=> Usable(q)) /\ (\A p : Created(p)' <=> Created(p))
    BY <2>1 DEF app, Profiled, Kind, InContainer, Usable, Created
  <2>4. \A n \in DOMAIN app : Embedded(n)' /\ Narrowed(n)'
    BY <2>1, <2>3 DEF JobInv, Embedded, Narrowed
  <2>5. OneProfilePerBundle'
    BY <2>1 DEF JobInv, OneProfilePerBundle
  <2>6. (pc \notin Unpacked => Accepted(app))'
    BY <2>1
  <2>7. Untouched'
    BY <2>1 DEF JobInv, Untouched, Bare
  <2> QED
    BY <2>1, <2>2, <2>3, <2>4, <2>5, <2>6, <2>7 DEF JobInv, Untouched
<1>3. CASE ValidateProvenance
  BY <1>3, PlainStep DEF ValidateProvenance, account, manifest, signing, JobInv, Unpacked
<1>4. CASE PlanSigning
  BY <1>4, PlainStep DEF PlanSigning, account, manifest, JobInv, Unpacked
<1>5. CASE SignCode
  BY <1>5, PlainStep DEF SignCode, account, manifest, JobInv, Unpacked
<1>6. CASE SignBundle
  BY <1>6, BundleStep
<1>7. CASE Verify
  BY <1>7, PlainStep DEF Verify, account, manifest, signing, JobInv, Unpacked
<1>8. CASE Fail
  BY <1>8, PlainStep DEF Fail, account, manifest, signing, JobInv, Unpacked
<1>9. CASE Start
  <2>1. /\ UNCHANGED <<job, asc, request, embedded, entitled>> /\ pc = "queued" /\ pc' = "provenance"
        /\ now' \in now..Clock /\ app' = app /\ Profiled(app)' = Profiled(app)
    BY <1>9 DEF Start, manifest, signing, app, Profiled, Kind, InContainer
  <2>2. now' \in Nat /\ now' >= now /\ now \in Nat
    BY <2>1, LimitsAssumption DEF JobInv
  <2>3. (\A p : Created(p)' <=> Created(p)) /\ (\A n \in DOMAIN app : embedded[n] = None)
    BY <2>1 DEF Created, JobInv, Bare
  <2>4. \A n \in DOMAIN app : Embedded(n)' /\ Narrowed(n)'
    BY <2>1, <2>3 DEF JobInv, Embedded, Narrowed
  <2>5. OneProfilePerBundle'
    <3>1. \A p \in asc : p.expires \in Nat
      BY DEF JobInv, IsProfile
    <3>2. \A p \in asc : p.expires > now' => p.expires > now
      BY <2>2, <3>1
    <3> QED
      BY <2>1, <3>2 DEF JobInv, OneProfilePerBundle
  <2>6. (pc \notin Unpacked => Accepted(app))' /\ (pc \in Unpacked => Untouched)'
    BY <2>1 DEF JobInv, Unpacked
  <2> QED
    BY <2>1, <2>2, <2>3, <2>4, <2>5, <2>6 DEF JobInv
<1>10. CASE Rerun
  <2>1. /\ UNCHANGED <<job, asc, now, request>> /\ pc \in {"forged", "failed", "signed"} /\ pc' = "queued" /\ app' = app
        /\ embedded' = [n \in DOMAIN app |-> None] /\ entitled' = [n \in DOMAIN app |-> None]
    BY <1>10 DEF Rerun, manifest, app
  <2>2. \A p : Created(p)' <=> Created(p)
    BY <2>1 DEF Created, app, Profiled, Kind, InContainer
  <2>3. \A n \in DOMAIN app : embedded'[n] = None /\ Embedded(n)' /\ Narrowed(n)'
    BY <2>1 DEF Embedded, Narrowed
  <2>4. OneProfilePerBundle'
    BY <2>1 DEF JobInv, OneProfilePerBundle
  <2>5. (pc \notin Unpacked => Accepted(app))' /\ (pc \in Unpacked => Untouched)'
    BY <2>1 DEF JobInv, Unpacked
  <2>6. DOMAIN embedded' = DOMAIN app' /\ DOMAIN entitled' = DOMAIN app'
    BY <2>1
  <2>7. (pc = "queued" => Bare)'
    BY <2>1, <2>3 DEF Bare
  <2> QED
    BY <2>1, <2>2, <2>3, <2>4, <2>5, <2>6, <2>7 DEF JobInv
<1>11. CASE ResolveProject
  BY <1>11, PlainStep DEF ResolveProject, account, manifest, signing, JobInv, Unpacked
<1>12. CASE VerifyBuiltBundleID
  BY <1>12, PlainStep DEF VerifyBuiltBundleID, account, manifest, signing, JobInv, Unpacked
<1> QED
  BY <1>1, <1>2, <1>3, <1>4, <1>5, <1>6, <1>7, <1>8, <1>9, <1>10, <1>11, <1>12 DEF Next

\* ... so it always holds.
LEMMA JobAlways == Spec => []JobInv
BY JobInit, JobNext, PTL DEF Spec

\* An application beyond the build job is the pinned one.
PinInv ==
    /\ pc \notin {"input", "rejected"} => job.pinned # NoId
    /\ pc \notin {"input", "build", "rejected"} => app[Root].id = job.pinned

LEMMA PinAlways == Spec => []PinInv
<1>1. Init => PinInv
  BY DEF Init, PinInv
<1>2. PinInv /\ [Next]_vars => PinInv'
  <2> SUFFICES ASSUME PinInv, [Next]_vars PROVE PinInv'
    OBVIOUS
  <2>1. ASSUME job' = job, pc' \in {"input", "rejected"} \/ (pc' # "build" /\ pc \notin {"input", "build", "rejected"})
        PROVE  PinInv'
    BY <2>1 DEF PinInv, app
  <2>2. CASE ResolveProject
    BY <2>2 DEF ResolveProject, account, PinInv, app
  <2>3. CASE VerifyBuiltBundleID
    BY <2>3 DEF VerifyBuiltBundleID, account, PinInv, app
  <2>4. CASE UNCHANGED vars
    BY <2>4 DEF vars, account, PinInv, app
  <2>5. CASE TrustedPackage
    BY <2>1, <2>5 DEF TrustedPackage, account
  <2>6. CASE Start
    BY <2>1, <2>6 DEF Start
  <2>7. CASE ValidateProvenance
    BY <2>1, <2>7 DEF ValidateProvenance, account
  <2>8. CASE PlanSigning
    BY <2>1, <2>8 DEF PlanSigning, account
  <2>9. CASE SignCode
    BY <2>1, <2>9 DEF SignCode, account
  <2>10. CASE SignBundle
    BY <2>1, <2>10 DEF SignBundle, Embed, GiveUp
  <2>11. CASE Verify
    BY <2>1, <2>11 DEF Verify, account
  <2>12. CASE Fail
    BY <2>1, <2>12 DEF Fail, account
  <2>13. CASE Rerun
    BY <2>1, <2>13 DEF Rerun
  <2> QED
    BY <2>2, <2>3, <2>4, <2>5, <2>6, <2>7, <2>8, <2>9, <2>10, <2>11, <2>12, <2>13 DEF Next
<1> QED
  BY <1>1, <1>2, PTL DEF Spec

\* No two bundles of an application share a profile, and whatever profile the
\* job creates or embeds is for the identifier pinned in the registry or for
\* one below it.
THEOREM IdentifiersRooted == Spec => []RootOfTrust
<1>1. JobInv /\ PinInv => RootOfTrust
  <2> SUFFICES ASSUME JobInv, PinInv, NEW p \in (asc \ job.asc) \cup ({embedded[n] : n \in DOMAIN app} \ {None})
               PROVE  /\ job.pinned # NoId /\ (p.id = job.pinned \/ IsStrictPrefix(job.pinned, p.id))
                      /\ Cardinality({n \in DOMAIN app : embedded[n] = p}) <= 1
    BY DEF RootOfTrust
  <2>1. p # None /\ \E n \in Profiled(app) : p.id = app[n].id
    BY DEF JobInv, Embedded, Created, IsProfile, None
  <2>2. Root \in DOMAIN app /\ Accepted(app)
    <3>1. Root \in DOMAIN app
      BY JobsAssumption DEF JobInv, app, IsTree
    <3>2. pc \notin Unpacked
      BY DEF JobInv, Untouched, Bare
    <3> QED
      BY <3>1, <3>2 DEF JobInv
  <2> DEFINE S == {n \in DOMAIN app : embedded[n] = p}
  <2>3. \A m, n \in S : m = n
    <3> SUFFICES ASSUME NEW m \in S, NEW n \in S PROVE m = n
      OBVIOUS
    <3>1. m \in Profiled(app) /\ n \in Profiled(app) /\ app[m].id = app[n].id
      BY <2>1 DEF JobInv, Embedded
    <3> QED
      BY <2>2, <3>1, ProfiledIds
  <2>4. S = {} \/ \E n : S = {n}
    BY <2>3
  <2>5. Cardinality(S) <= 1
    <3> HIDE DEF S
    <3>1. CASE S = {}
      BY <3>1, FS_EmptySet
    <3>2. ASSUME NEW n, S = {n} PROVE Cardinality(S) <= 1
      <4>1. Cardinality({n}) = 1
        BY FS_Singleton
      <4> QED
        BY <3>2, <4>1
    <3> QED
      BY <2>4, <3>1, <3>2
  <2>6. app[Root].id = job.pinned /\ job.pinned # NoId
    <3>1. pc \notin {"input", "build", "rejected"}
      BY DEF JobInv, Untouched, Bare, Unpacked
    <3> QED
      BY <3>1 DEF PinInv
  <2> QED
    BY <2>1, <2>2, <2>5, <2>6, ProfiledIds
<1> QED
  BY <1>1, JobAlways, PinAlways, PTL

\* Running the job again leaves at most one profile of its own for a bundle.
THEOREM OneProfileEach == Spec => []OneProfilePerBundle
<1>1. JobInv => OneProfilePerBundle
  BY DEF JobInv
<1> QED
  BY <1>1, JobAlways, PTL

\* Nothing is signed with more than its profile grants.
THEOREM NarrowsOnly == Spec => []OnlyNarrows
<1>1. JobInv => OnlyNarrows
  BY DEF JobInv, OnlyNarrows, Narrowed
<1> QED
  BY <1>1, JobAlways, PTL

(***************************************************************************)
(* The tree of an application.                                             *)
(***************************************************************************)
\* What holds of the root, and of an entry whose directory it holds of, holds of
\* every entry.
LEMMA TreeInduction ==
    ASSUME NEW a, IsTree(a), NEW S \in SUBSET DOMAIN a, Root \in S,
           \A n \in DOMAIN a \ {Root} : a[n].in \in S => n \in S
    PROVE  S = DOMAIN a
<1> DEFINE T == {a[n].at : n \in DOMAIN a \ S}
<1> SUFFICES ASSUME T # {} PROVE FALSE
  OBVIOUS
<1>1. T \in SUBSET Nat
  BY DEF IsTree
<1>2. PICK m \in T : \A k \in T : m <= k
  <2> HIDE DEF T
  <2> QED
    BY <1>1, LeastNatural
<1>3. PICK n \in DOMAIN a \ S : a[n].at = m
  BY <1>2
<1>4. n # Root /\ a[n].in \in DOMAIN a /\ a[a[n].in].at \in Nat /\ a[a[n].in].at < m
  BY <1>3 DEF IsTree
<1>5. a[n].in \in S
  <2>1. a[n].in \notin S => a[a[n].in].at \in T
    BY <1>4
  <2>2. m \in Nat /\ (a[a[n].in].at \in T => m <= a[a[n].in].at)
    BY <1>1, <1>2
  <2> QED
    BY <1>4, <2>1, <2>2
<1> QED
  BY <1>3, <1>4, <1>5

\* The directories of an entry are the one it is in and the directories of that.
LEMMA UpEquation ==
    ASSUME NEW a, IsTree(a)
    PROVE  /\ Up(a)[Root] = {}
           /\ \A n \in DOMAIN a \ {Root} : Up(a)[n] = {a[n].in} \cup Up(a)[a[n].in]
<1> DEFINE D == DOMAIN a
           Climbs(S) == \A k \in S \ {Root} : a[k].in \in S
           Above(n) == {m \in D : \A S \in SUBSET D : Climbs(S) /\ (n # Root => a[n].in \in S) => m \in S}
           g == [n \in D |-> Above(n)]
           P(f) == f = [n \in D |-> IF n = Root THEN {} ELSE {a[n].in} \cup f[a[n].in]]
<1>1. Root \in D /\ \A n \in D \ {Root} : a[n].in \in D
  BY DEF IsTree
<1>2. Above(Root) = {}
  <2>1. Climbs({})
    OBVIOUS
  <2> QED
    BY <2>1
<1>3. ASSUME NEW n \in D \ {Root} PROVE Above(n) = {a[n].in} \cup Above(a[n].in)
  <2> DEFINE d == a[n].in
  <2>1. d \in Above(n)
    BY <1>1, <1>3
  <2>2. ASSUME NEW S \in SUBSET D, Climbs(S), d \in S PROVE d # Root => a[d].in \in S
    BY <2>2
  <2>3. Above(d) \subseteq Above(n)
    BY <1>3, <2>2
  <2>4. ASSUME NEW m \in Above(n), m # d, NEW S \in SUBSET D, Climbs(S), d # Root => a[d].in \in S PROVE m \in S
    <3>1. S \cup {d} \in SUBSET D
      BY <1>1, <1>3
    <3>2. Climbs(S \cup {d})
      BY <2>4
    <3> QED
      BY <2>4, <3>1, <3>2
  <2>5. Above(n) \subseteq {d} \cup Above(d)
    BY <2>4
  <2> QED
    BY <2>1, <2>3, <2>5
<1>4. P(g)
  <2> HIDE DEF Above
  <2> QED
    BY <1>1, <1>2, <1>3
<1>5. Up(a) = CHOOSE f : P(f)
  BY DEF Up
<1>6. P(Up(a))
  <2> HIDE DEF P
  <2> QED
    BY <1>4, <1>5
<1> DEFINE u == Up(a)
<1> HIDE DEF u
<1>7. u = [n \in D |-> IF n = Root THEN {} ELSE {a[n].in} \cup u[a[n].in]]
  BY <1>6 DEF u
<1> QED
  BY <1>1, <1>7 DEF u

\* The directories of an entry come before it in the listing; those of a directory
\* are among them; and of two of them one is a directory of the other.
LEMMA UpOrder ==
    ASSUME NEW a, IsTree(a)
    PROVE  /\ \A n \in DOMAIN a : Up(a)[n] \subseteq DOMAIN a /\ \A m \in Up(a)[n] : a[m].at < a[n].at
           /\ \A n \in DOMAIN a \ {Root} : Root \in Up(a)[n]
           /\ \A n \in DOMAIN a : \A m \in Up(a)[n] : Up(a)[m] \subseteq Up(a)[n]
           /\ \A n \in DOMAIN a : \A m, k \in Up(a)[n] : m = k \/ m \in Up(a)[k] \/ k \in Up(a)[m]
<1> DEFINE D == DOMAIN a
           u == Up(a)
<1>1. Root \in D /\ (\A n \in D : a[n].at \in Nat) /\ \A n \in D \ {Root} : a[n].in \in D /\ a[a[n].in].at < a[n].at
  BY DEF IsTree
<1>2. u[Root] = {} /\ \A n \in D \ {Root} : u[n] = {a[n].in} \cup u[a[n].in]
  BY UpEquation
<1> HIDE DEF u
<1>3. D = {n \in D : u[n] \subseteq D /\ \A m \in u[n] : a[m].at < a[n].at}
  <2> DEFINE S == {n \in D : u[n] \subseteq D /\ \A m \in u[n] : a[m].at < a[n].at}
  <2>1. Root \in S
    BY <1>1, <1>2
  <2>2. ASSUME NEW n \in D \ {Root}, a[n].in \in S PROVE n \in S
    <3>1. u[n] \subseteq D
      BY <1>1, <1>2, <2>2
    <3>2. \A m \in u[n] : a[m].at < a[n].at
      BY <1>1, <1>2, <2>2, <3>1
    <3> QED
      BY <3>1, <3>2
  <2> HIDE DEF S
  <2>3. S \in SUBSET D
    BY DEF S
  <2> QED
    BY <2>1, <2>2, <2>3, TreeInduction DEF S
<1>4. D = {n \in D : n = Root \/ Root \in u[n]}
  <2> DEFINE S == {n \in D : n = Root \/ Root \in u[n]}
  <2>1. Root \in S /\ \A n \in D \ {Root} : a[n].in \in S => n \in S
    BY <1>1, <1>2
  <2>2. S \in SUBSET D
    OBVIOUS
  <2> HIDE DEF S
  <2> QED
    BY <2>1, <2>2, TreeInduction DEF S
<1>5. D = {n \in D : \A m \in u[n] : u[m] \subseteq u[n]}
  <2> DEFINE S == {n \in D : \A m \in u[n] : u[m] \subseteq u[n]}
  <2>1. Root \in S /\ \A n \in D \ {Root} : a[n].in \in S => n \in S
    BY <1>1, <1>2
  <2>2. S \in SUBSET D
    OBVIOUS
  <2> HIDE DEF S
  <2> QED
    BY <2>1, <2>2, TreeInduction DEF S
<1>6. D = {n \in D : \A m, k \in u[n] : m = k \/ m \in u[k] \/ k \in u[m]}
  <2> DEFINE S == {n \in D : \A m, k \in u[n] : m = k \/ m \in u[k] \/ k \in u[m]}
  <2>1. Root \in S /\ \A n \in D \ {Root} : a[n].in \in S => n \in S
    BY <1>1, <1>2
  <2>2. S \in SUBSET D
    OBVIOUS
  <2> HIDE DEF S
  <2> QED
    BY <2>1, <2>2, TreeInduction DEF S
<1> QED
  BY <1>3, <1>4, <1>5, <1>6 DEF u

(***************************************************************************)
(* Sequences of the entries of an application.                             *)
(***************************************************************************)
\* A sequence lists a set in an order: every member once, and never the later of
\* two before the earlier.
Lists(s, S, R) ==
    \E n \in Nat :
        /\ s \in [1..n -> S]
        /\ \A i, j \in 1..n : s[i] = s[j] => i = j
        /\ \A x \in S : \E i \in 1..n : s[i] = x
        /\ \A i, j \in 1..n : i < j => <<s[i], s[j]>> \in R
Ordered(S, R) ==
    /\ \A m \in S : <<m, m>> \notin R
    /\ \A m, n \in S : m = n \/ <<m, n>> \in R \/ <<n, m>> \in R
    /\ \A m, n, k \in S : <<m, n>> \in R /\ <<n, k>> \in R => <<m, k>> \in R

\* InOrder lists a finite set in the given order.
LEMMA Arranged ==
    ASSUME NEW S, IsFiniteSet(S), NEW R, Ordered(S, R)
    PROVE  Lists(InOrder(S, R), S, R)
<1> USE DEF Ordered
<1> DEFINE n == Cardinality(S)
           below(x) == {m \in S : <<m, x>> \in R}
           rank == [x \in S |-> Cardinality(below(x)) + 1]
           s == InOrder(S, R)
<1>1. n \in Nat /\ \A x \in S : IsFiniteSet(below(x)) /\ Cardinality(below(x)) \in Nat
  BY FS_CardinalityType, FS_Subset
<1>a. \A x \in S : rank[x] = Cardinality(below(x)) + 1
  OBVIOUS
<1>b. \A i \in 1..n : s[i] = CHOOSE x \in S : Cardinality(below(x)) = i - 1
  BY DEF InOrder
<1>c. s = [i \in 1..n |-> CHOOSE x \in S : Cardinality(below(x)) = i - 1]
  BY DEF InOrder
<1>d. DOMAIN rank = S /\ rank = [x \in S |-> rank[x]]
  OBVIOUS
<1> HIDE DEF rank, s, n
<1>2. ASSUME NEW x \in S PROVE rank[x] \in 1..n
  <2>1. below(x) \subseteq S /\ below(x) # S
    OBVIOUS
  <2>2. Cardinality(below(x)) <= n /\ Cardinality(below(x)) # n
    BY <2>1, FS_Subset DEF n
  <2> DEFINE k == Cardinality(below(x))
  <2>3. k \in Nat /\ k <= n /\ k # n /\ rank[x] = k + 1
    BY <1>1, <1>a, <2>2
  <2> HIDE DEF k
  <2> QED
    BY <1>1, <2>3
<1>3. ASSUME NEW x \in S, NEW y \in S, <<x, y>> \in R PROVE rank[x] < rank[y]
  <2>1. below(x) \subseteq below(y) /\ below(x) # below(y)
    BY <1>3
  <2>2. IsFiniteSet(below(y))
    BY <1>1
  <2>3. Cardinality(below(x)) <= Cardinality(below(y)) /\ Cardinality(below(x)) # Cardinality(below(y))
    BY <2>1, <2>2, FS_Subset
  <2> DEFINE k == Cardinality(below(x))
             l == Cardinality(below(y))
  <2>4. k \in Nat /\ l \in Nat /\ k <= l /\ k # l /\ rank[x] = k + 1 /\ rank[y] = l + 1
    BY <1>1, <1>a, <2>3
  <2> HIDE DEF k, l
  <2> QED
    BY <2>4
<1>4. \A x, y \in S : rank[x] = rank[y] => x = y
  <2> SUFFICES ASSUME NEW x \in S, NEW y \in S, rank[x] = rank[y], x # y PROVE FALSE
    OBVIOUS
  <2>1. <<x, y>> \in R \/ <<y, x>> \in R
    OBVIOUS
  <2>2. rank[x] \in 1..n /\ rank[y] \in 1..n
    BY <1>2
  <2> QED
    BY <1>1, <1>3, <2>1, <2>2
<1>5. \A i \in 1..n : \E x \in S : rank[x] = i
  <2>1. rank \in Injection(S, 1..n)
    BY <1>2, <1>4, <1>d DEF Injection, IsInjective
  <2>2. IsFiniteSet(1..n) /\ Cardinality(1..n) = n
    BY <1>1, FS_Interval
  <2>3. rank \in Surjection(S, 1..n)
    BY <2>1, <2>2, FS_Injection DEF n
  <2> QED
    BY <2>3 DEF Surjection
<1>6. \A i \in 1..n : s[i] \in S /\ rank[s[i]] = i
  <2> SUFFICES ASSUME NEW i \in 1..n PROVE s[i] \in S /\ rank[s[i]] = i
    OBVIOUS
  <2>1. PICK x \in S : rank[x] = i
    BY <1>5
  <2>2. Cardinality(below(x)) = i - 1
    <3> DEFINE k == Cardinality(below(x))
    <3>1. k \in Nat /\ i = k + 1
      BY <1>1, <1>a, <2>1
    <3> HIDE DEF k
    <3>2. k = i - 1
      BY <3>1
    <3> QED
      BY <3>2 DEF k
  <2> DEFINE Q(y) == Cardinality(below(y)) = i - 1
  <2>3. s[i] = CHOOSE y \in S : Q(y)
    BY <1>b
  <2>4. Q(x)
    BY <2>2
  <2>5. s[i] \in S /\ Q(s[i])
    <3> HIDE DEF Q
    <3> QED
      BY <2>3, <2>4
  <2>6. rank[s[i]] = (i - 1) + 1
    BY <1>a, <2>5
  <2> QED
    BY <1>1, <2>5, <2>6
<1>7. s \in [1..n -> S]
  <2> DEFINE e(i) == CHOOSE x \in S : Cardinality(below(x)) = i - 1
  <2>1. \A i \in 1..n : e(i) \in S
    BY <1>6, <1>b
  <2>2. s = [i \in 1..n |-> e(i)]
    BY <1>c
  <2> HIDE DEF e
  <2> QED
    BY <2>1, <2>2
<1>8. \A i, j \in 1..n : s[i] = s[j] => i = j
  BY <1>6
<1>9. \A x \in S : \E i \in 1..n : s[i] = x
  BY <1>2, <1>4, <1>6
<1>10. ASSUME NEW i \in 1..n, NEW j \in 1..n, i < j PROVE <<s[i], s[j]>> \in R
  <2>1. s[i] \in S /\ s[j] \in S /\ s[i] # s[j] /\ ~(rank[s[j]] < rank[s[i]])
    BY <1>1, <1>6, <1>10
  <2> QED
    BY <1>3, <2>1
<1>11. /\ n \in Nat /\ s \in [1..n -> S] /\ (\A i, j \in 1..n : s[i] = s[j] => i = j)
       /\ (\A x \in S : \E i \in 1..n : s[i] = x) /\ \A i, j \in 1..n : i < j => <<s[i], s[j]>> \in R
  BY <1>1, <1>7, <1>8, <1>9, <1>10
<1>12. Lists(s, S, R)
  BY <1>11 DEF Lists
<1> QED
  BY <1>12 DEF s

\* A sequence has every member of a set once, and none after a directory it is in.
InsideOut(a, s, S) ==
    \E n \in Nat :
        /\ s \in [1..n -> S]
        /\ \A i, j \in 1..n : s[i] = s[j] => i = j
        /\ \A x \in S : \E i \in 1..n : s[i] = x
        /\ \A i, j \in 1..n : i < j => s[i] \notin Up(a)[s[j]]

\* Two such sequences of disjoint sets, one after the other.
LEMMA JoinInsideOut ==
    ASSUME NEW a, NEW s, NEW S, NEW t, NEW T, InsideOut(a, s, S), InsideOut(a, t, T), S \cap T = {},
           \A x \in S, y \in T : x \notin Up(a)[y]
    PROVE  InsideOut(a, s \o t, S \cup T)
<1>1. PICK m \in Nat :
          /\ s \in [1..m -> S] /\ (\A i, j \in 1..m : s[i] = s[j] => i = j)
          /\ (\A x \in S : \E i \in 1..m : s[i] = x) /\ (\A i, j \in 1..m : i < j => s[i] \notin Up(a)[s[j]])
  BY DEF InsideOut
<1>2. PICK n \in Nat :
          /\ t \in [1..n -> T] /\ (\A i, j \in 1..n : t[i] = t[j] => i = j)
          /\ (\A x \in T : \E i \in 1..n : t[i] = x) /\ (\A i, j \in 1..n : i < j => t[i] \notin Up(a)[t[j]])
  BY DEF InsideOut
<1>3. s \in Seq(S \cup T) /\ Len(s) = m /\ t \in Seq(S \cup T) /\ Len(t) = n
  BY <1>1, <1>2
<1> DEFINE c == s \o t
<1>4. c \in [1..(m + n) -> S \cup T]
  <2> DEFINE U == S \cup T
  <2>1. s \in Seq(U) /\ t \in Seq(U)
    BY <1>3
  <2> HIDE DEF U
  <2>2. c \in Seq(U) /\ Len(c) = m + n
    BY <1>3, <2>1
  <2> HIDE DEF c
  <2>3. c \in [1..(m + n) -> U]
    BY <2>2
  <2> QED
    BY <2>3 DEF U
<1>5. \A i \in 1..m : c[i] = s[i] /\ s[i] \in S
  BY <1>1, <1>3
<1>6. \A i \in 1..n : c[m + i] = t[i] /\ t[i] \in T
  BY <1>2, <1>3
<1> HIDE DEF c
<1>7. \A i \in 1..(m + n) : i \in 1..m \/ (i - m \in 1..n /\ i = m + (i - m))
  OBVIOUS
<1>8. \A i \in 1..(m + n) : i \notin 1..m => i - m \in 1..n /\ c[i] = t[i - m] /\ c[i] \in T
  BY <1>6, <1>7
<1>9. ASSUME NEW i \in 1..(m + n), NEW j \in 1..(m + n), c[i] = c[j] PROVE i = j
  <2>1. CASE i \in 1..m /\ j \in 1..m
    BY <1>1, <1>5, <1>9, <2>1
  <2>2. CASE i \notin 1..m /\ j \notin 1..m
    <3>1. i - m = j - m
      BY <1>2, <1>8, <1>9, <2>2
    <3> QED
      BY <3>1
  <2>3. (i \in 1..m) <=> (j \in 1..m)
    BY <1>5, <1>8, <1>9
  <2> QED
    BY <2>1, <2>2, <2>3
<1>10. ASSUME NEW x \in S \cup T PROVE \E i \in 1..(m + n) : c[i] = x
  <2>1. CASE x \in S
    <3>1. PICK i \in 1..m : s[i] = x
      BY <1>1, <2>1
    <3> QED
      BY <1>5, <3>1
  <2>2. CASE x \in T
    <3>1. PICK i \in 1..n : t[i] = x
      BY <1>2, <2>2
    <3> QED
      BY <1>6, <3>1
  <2> QED
    BY <2>1, <2>2
<1>11. ASSUME NEW i \in 1..(m + n), NEW j \in 1..(m + n), i < j PROVE c[i] \notin Up(a)[c[j]]
  <2>1. CASE i \in 1..m /\ j \in 1..m
    BY <1>1, <1>5, <1>11, <2>1
  <2>2. CASE i \in 1..m /\ j \notin 1..m
    BY <1>5, <1>8, <2>2
  <2>3. CASE i \notin 1..m
    <3>1. j \notin 1..m
      BY <1>11, <2>3
    <3>2. i - m < j - m
      BY <1>11
    <3> QED
      BY <1>2, <1>8, <2>3, <3>1, <3>2
  <2> QED
    BY <2>1, <2>2, <2>3
<1>12. m + n \in Nat
  OBVIOUS
<1>13. InsideOut(a, c, S \cup T)
  BY <1>4, <1>9, <1>10, <1>11, <1>12 DEF InsideOut
<1> QED
  BY <1>13 DEF c

\* FlattenSeq appends one sequence after the other.
LEMMA FlattenEquation ==
    ASSUME NEW T, NEW s \in Seq(T), NEW n \in Nat, Len(s) = n, n > 0
    PROVE  \E f : /\ FlattenSeq(s) = f[n] /\ f[1] = s[1]
                  /\ \A k \in 2..n : f[k] = f[k - 1] \o s[k]
<1> DEFINE E(k, f) == f = [i \in 1..k |-> IF i = 1 THEN s[i] ELSE f[i - 1] \o s[i]]
<1>1. E(0, [i \in 1..0 |-> s[i]])
  OBVIOUS
<1>2. ASSUME NEW k \in Nat, NEW f, E(k, f) PROVE \E g : E(k + 1, g)
  <2> DEFINE g == [i \in 1..(k + 1) |-> IF i = k + 1 THEN (IF i = 1 THEN s[i] ELSE f[i - 1] \o s[i]) ELSE f[i]]
  <2>1. \A i \in 1..k : f[i] = IF i = 1 THEN s[i] ELSE f[i - 1] \o s[i]
    BY <1>2
  <2>2. \A i \in 1..(k + 1) : g[i] = IF i = 1 THEN s[i] ELSE g[i - 1] \o s[i]
    <3> SUFFICES ASSUME NEW i \in 1..(k + 1) PROVE g[i] = IF i = 1 THEN s[i] ELSE g[i - 1] \o s[i]
      OBVIOUS
    <3>1. CASE i = k + 1
      <4>1. i # 1 => i - 1 \in 1..(k + 1) /\ i - 1 # k + 1
        BY <3>1
      <4>2. i # 1 => g[i - 1] = f[i - 1]
        BY <4>1
      <4>3. g[i] = IF i = 1 THEN s[i] ELSE f[i - 1] \o s[i]
        BY <3>1
      <4> HIDE DEF g
      <4> QED
        BY <4>2, <4>3
    <3>2. CASE i # k + 1
      <4>1. i \in 1..k /\ (i # 1 => i - 1 \in 1..(k + 1) /\ i - 1 # k + 1)
        BY <3>2
      <4>2. i # 1 => g[i - 1] = f[i - 1]
        BY <4>1
      <4>3. g[i] = f[i]
        BY <3>2
      <4> HIDE DEF g
      <4> QED
        BY <2>1, <4>1, <4>2, <4>3
    <3> QED
      BY <3>1, <3>2
  <2>3. g = [i \in 1..(k + 1) |-> g[i]]
    OBVIOUS
  <2> HIDE DEF g
  <2>4. E(k + 1, g)
    BY <2>2, <2>3
  <2> QED
    BY <2>4
<1> DEFINE B == {k \in Nat : ~ \E f : E(k, f)}
<1>3. B = {}
  <2> SUFFICES ASSUME B # {} PROVE FALSE
    OBVIOUS
  <2>1. B \in SUBSET Nat
    OBVIOUS
  <2>2. PICK m \in B : \A k \in B : m <= k
    <3> HIDE DEF B
    <3> QED
      BY <2>1, LeastNatural
  <2>3. m # 0 /\ m \in Nat
    BY <1>1
  <2>4. m - 1 \in Nat /\ m - 1 \notin B
    <3> HIDE DEF B
    <3>1. m - 1 \in Nat /\ ~(m <= m - 1)
      BY <2>3
    <3> QED
      BY <2>2, <3>1
  <2>5. PICK f : E(m - 1, f)
    BY <2>4
  <2> HIDE DEF E
  <2>6. \E g : E((m - 1) + 1, g)
    BY <1>2, <2>4, <2>5
  <2>7. (m - 1) + 1 = m
    BY <2>3
  <2> QED
    BY <2>2, <2>6, <2>7
<1>4. \E f : E(n, f)
  <2> HIDE DEF E
  <2> QED
    BY <1>3
<1> DEFINE h == CHOOSE f : E(n, f)
<1>5. E(n, h)
  <2> HIDE DEF E
  <2> QED
    BY <1>4
<1>6. FlattenSeq(s) = h[n]
  BY DEF FlattenSeq
<1> HIDE DEF h
<1>7. h[1] = s[1] /\ \A k \in 2..n : h[k] = h[k - 1] \o s[k]
  <2>1. h = [i \in 1..n |-> IF i = 1 THEN s[i] ELSE h[i - 1] \o s[i]]
    BY <1>5
  <2>2. \A k \in 2..n : k \in 1..n /\ k # 1
    OBVIOUS
  <2>3. 1 \in 1..n
    OBVIOUS
  <2> QED
    BY <2>1, <2>2, <2>3
<1> QED
  BY <1>6, <1>7

\* Sets of which no two have a common member or a directory of a member.
Apart(a, F, n) ==
    \A i, j \in 1..n : i # j => F[i] \cap F[j] = {} /\ \A x \in F[i], y \in F[j] : x \notin Up(a)[y]

Whole(F, n) == UNION {F[i] : i \in 1..n}

\* The sequences of sets that are apart, one after the other.
LEMMA FlattenInsideOut ==
    ASSUME NEW a, NEW T, NEW s \in Seq(T), NEW n \in Nat, Len(s) = n, NEW F,
           \A i \in 1..n : InsideOut(a, s[i], F[i]),
           Apart(a, F, n)
    PROVE  InsideOut(a, FlattenSeq(s), Whole(F, n))
<1> DEFINE U(k) == UNION {F[i] : i \in 1..k}
<1>a. U(n) = Whole(F, n)
  BY DEF Whole
<1>1. CASE n = 0
  <2>1. FlattenSeq(s) = s /\ s \in [1..0 -> {}]
    BY <1>1 DEF FlattenSeq
  <2>2. U(n) = {}
    BY <1>1
  <2>3. InsideOut(a, s, {})
    BY <2>1 DEF InsideOut
  <2> QED
    BY <1>a, <2>1, <2>2, <2>3
<1>2. CASE n > 0
  <2>1. PICK f : /\ FlattenSeq(s) = f[n] /\ f[1] = s[1]
                 /\ \A k \in 2..n : f[k] = f[k - 1] \o s[k]
    BY <1>2, FlattenEquation
  <2> DEFINE B == {k \in 1..n : ~InsideOut(a, f[k], U(k))}
  <2>2. B = {}
    <3> SUFFICES ASSUME B # {} PROVE FALSE
      OBVIOUS
    <3>1. B \in SUBSET Nat
      OBVIOUS
    <3>2. PICK m \in B : \A k \in B : m <= k
      <4> HIDE DEF B
      <4> QED
        BY <3>1, LeastNatural
    <3>3. m # 1
      <4>1. U(1) = F[1]
        OBVIOUS
      <4>2. InsideOut(a, f[1], F[1])
        BY <1>2, <2>1
      <4> HIDE DEF U
      <4> QED
        BY <4>1, <4>2
    <3>4. m \in 2..n /\ m - 1 \in 1..n /\ m - 1 \notin B
      <4>1. m \in 1..n
        BY <3>2
      <4>2. m \in 2..n /\ m - 1 \in 1..n /\ ~(m <= m - 1)
        BY <3>3, <4>1
      <4> HIDE DEF B
      <4> QED
        BY <3>2, <4>2
    <3>5. InsideOut(a, f[m - 1], U(m - 1)) /\ InsideOut(a, s[m], F[m])
      BY <3>4
    <3>6. U(m - 1) \cap F[m] = {} /\ \A x \in U(m - 1), y \in F[m] : x \notin Up(a)[y]
      <4>1. \A i \in 1..(m - 1) : i \in 1..n /\ i # m
        BY <3>4
      <4> QED
        BY <3>4, <4>1 DEF Apart
    <3>7. U(m) = U(m - 1) \cup F[m]
      <4>1. \A i \in 1..m : i \in 1..(m - 1) \/ i = m
        BY <3>4
      <4>2. \A i \in 1..(m - 1) : i \in 1..m
        BY <3>4
      <4>3. m \in 1..m
        BY <3>4
      <4> QED
        BY <4>1, <4>2, <4>3
    <3>8. f[m] = f[m - 1] \o s[m]
      BY <2>1, <3>4
    <3> HIDE DEF U
    <3>9. InsideOut(a, f[m - 1] \o s[m], U(m - 1) \cup F[m])
      BY <3>5, <3>6, JoinInsideOut
    <3> QED
      BY <3>7, <3>8, <3>9
  <2>3. n \in 1..n
    BY <1>2
  <2> HIDE DEF U
  <2>4. InsideOut(a, f[n], U(n))
    BY <2>2, <2>3
  <2> QED
    BY <1>a, <2>1, <2>4
<1> QED
  BY <1>1, <1>2

\* The listing of an application ends.
LEMMA ListingEnds ==
    ASSUME NEW a, IsTree(a)
    PROVE  \E N \in Nat : \A n \in DOMAIN a : a[n].at < N
<1>1. PICK n \in Nat : ExistsSurjection(1..n, DOMAIN a)
  BY FS_NatSurjection DEF IsTree
<1>2. PICK f \in [1..n -> DOMAIN a] : \A x \in DOMAIN a : \E i \in 1..n : f[i] = x
  BY <1>1 DEF ExistsSurjection, Surjection
<1> DEFINE Q(k) == \E N \in Nat : \A i \in 1..n : i <= k => a[f[i]].at < N
           B == {k \in 0..n : ~Q(k)}
<1>3. B = {}
  <2> SUFFICES ASSUME B # {} PROVE FALSE
    OBVIOUS
  <2>1. B \in SUBSET Nat
    OBVIOUS
  <2>2. PICK k \in B : \A l \in B : k <= l
    <3> HIDE DEF B
    <3> QED
      BY <2>1, LeastNatural
  <2>3. k # 0
    <3>1. \A i \in 1..n : ~(i <= 0)
      OBVIOUS
    <3>2. Q(0)
      BY <3>1
    <3> HIDE DEF Q
    <3> QED
      BY <3>2
  <2>4. k \in 0..n /\ ~Q(k)
    OBVIOUS
  <2>5. k \in 1..n /\ k - 1 \in 0..n /\ ~(k <= k - 1)
    BY <2>3, <2>4
  <2>6. Q(k - 1)
    <3> HIDE DEF Q
    <3> QED
      BY <2>2, <2>5
  <2>7. PICK N \in Nat : \A i \in 1..n : i <= k - 1 => a[f[i]].at < N
    BY <2>6
  <2> HIDE DEF Q, B
  <2> DEFINE p == a[f[k]].at
             M == N + p + 1
  <2>8. p \in Nat /\ N \in Nat /\ \A i \in 1..n : a[f[i]].at \in Nat
    BY <2>5 DEF IsTree
  <2>9. M \in Nat /\ p < M /\ N < M
    <3>1. p \in Nat /\ N \in Nat
      BY <2>8
    <3>2. \A x, y \in Nat : y + x + 1 \in Nat /\ x < y + x + 1 /\ y < y + x + 1
      OBVIOUS
    <3> HIDE DEF p
    <3> QED
      BY <3>1, <3>2
  <2> HIDE DEF M
  <2>10. ASSUME NEW i \in 1..n, i <= k PROVE a[f[i]].at < M
    <3>1. i <= k - 1 \/ i = k
      <4>1. i \in 1..n /\ k \in 1..n /\ i <= k
        BY <2>5, <2>10
      <4>2. \A x, y \in 1..n : x <= y => x <= y - 1 \/ x = y
        OBVIOUS
      <4> QED
        BY <4>1, <4>2
    <3>2. CASE i = k
      BY <2>9, <3>2
    <3>3. CASE i <= k - 1
      <4> DEFINE q == a[f[i]].at
      <4>1. q \in Nat /\ q < N
        BY <2>7, <2>8, <3>3
      <4> HIDE DEF q
      <4>2. q < M
        BY <2>8, <2>9, <4>1
      <4> QED
        BY <4>2 DEF q
    <3> QED
      BY <3>1, <3>2, <3>3
  <2> QED
    BY <2>4, <2>9, <2>10 DEF Q
<1>4. n \in 0..n
  OBVIOUS
<1>5. Q(n)
  <2> HIDE DEF Q
  <2> QED
    BY <1>3, <1>4
<1>6. PICK N \in Nat : \A i \in 1..n : i <= n => a[f[i]].at < N
  BY <1>5
<1>7. \A i \in 1..n : a[f[i]].at < N
  <2>1. \A i \in 1..n : i <= n
    OBVIOUS
  <2> QED
    BY <1>6, <2>1
<1>8. \A x \in DOMAIN a : a[x].at < N
  <2> HIDE DEF Q, B
  <2> QED
    BY <1>2, <1>7
<1> QED
  BY <1>8

\* The bundle that an entry is collected for holds the entry, and lies in every
\* other bundle that does.
LEMMA HomeIsNearest ==
    ASSUME NEW a, IsTree(a), NEW n \in DOMAIN a \ {Root}
    PROVE  /\ Home(a, n) \in Up(a)[n] \cap AppLike(a)
           /\ \A m \in Up(a)[n] \cap AppLike(a) : m = Home(a, n) \/ m \in Up(a)[Home(a, n)]
<1> DEFINE S == Up(a)[n] \cap AppLike(a)
           T == {a[n].at - a[m].at : m \in S}
           P(b) == Up(a)[n] \cap AppLike(a) \subseteq Up(a)[b] \cup {b}
<1>1. Root \in DOMAIN a /\ \A m \in DOMAIN a : a[m].at \in Nat
  BY DEF IsTree
<1>2. Root \in S
  BY <1>1, UpOrder DEF AppLike, Kind
<1>3. \A m \in S : m \in DOMAIN a /\ a[m].at < a[n].at
  BY UpOrder
<1>4. T \in SUBSET Nat /\ T # {}
  <2>1. \A m \in S : a[n].at - a[m].at \in Nat
    BY <1>1, <1>3
  <2> QED
    BY <1>2, <2>1
<1>5. PICK t \in T : \A k \in T : t <= k
  <2> HIDE DEF T
  <2> QED
    BY <1>4, LeastNatural
<1>6. PICK b \in S : t = a[n].at - a[b].at
  BY <1>5
<1>7. ASSUME NEW m \in S PROVE m \in Up(a)[b] \cup {b}
  <2>1. m = b \/ m \in Up(a)[b] \/ b \in Up(a)[m]
    BY UpOrder
  <2>2. b \notin Up(a)[m]
    <3> SUFFICES ASSUME b \in Up(a)[m] PROVE FALSE
      OBVIOUS
    <3>1. a[b].at < a[m].at
      BY <1>3, UpOrder
    <3>2. t <= a[n].at - a[m].at
      BY <1>5
    <3>3. a[n].at \in Nat /\ a[m].at \in Nat /\ a[b].at \in Nat
      BY <1>1, <1>3
    <3> QED
      BY <1>6, <3>1, <3>2, <3>3
  <2> QED
    BY <2>1, <2>2
<1>8. P(b)
  BY <1>7
<1>9. Home(a, n) = CHOOSE x \in S : P(x)
  BY DEF Home
<1>10. Home(a, n) \in S /\ P(Home(a, n))
  <2> HIDE DEF S, P
  <2> QED
    BY <1>6, <1>8, <1>9
<1> QED
  BY <1>10

\* In an accepted application the code of frameworks and libraries is in no
\* container, and a bundle other than the application is in the container of the
\* bundle it is collected for.
LEMMA AcceptedShape ==
    ASSUME NEW a, IsTree(a), Accepted(a), NEW n \in DOMAIN a \ {Root}
    PROVE  /\ n \in AppLike(a) =>
                  /\ a[n].in \notin AppLike(a) /\ Kind(a, a[n].in) = "none"
                  /\ \A m \in Up(a)[n] : m = a[n].in \/ m = Home(a, n) \/ m \in Up(a)[Home(a, n)]
           /\ n \in AppLike(a) <=> a[n].is \in BundleSuffixes
           /\ Kind(a, n) \in {"framework", "dylib"} <=> a[n].is \in {"framework", "dylib"}
<1>1. EntryOK(a, n) /\ a[n].in \in DOMAIN a /\ a[Root].is = ".app"
  BY DEF Accepted, IsTree
<1>2. Kind(a, n) \in {"framework", "dylib"} <=> a[n].is \in {"framework", "dylib"}
  BY DEF Kind, ContainerKind, InContainer, ContainerSuffix
<1>3. CASE ~InContainer(a, n)
  <2>1. a[n].is \notin BundleSuffixes
    BY <1>1, <1>3 DEF EntryOK
  <2>2. n \notin AppLike(a)
    BY <1>3 DEF AppLike, Kind
  <2> QED
    BY <1>2, <2>1, <2>2
<1>4. CASE InContainer(a, n)
  <2> DEFINE d == a[n].in
  <2>1. a[d].is \in {"PlugIns", "Watch", "AppClips", "XPCServices"} /\ a[n].is = ContainerSuffix[a[d].is]
    BY <1>1, <1>4 DEF EntryOK, InContainer, ContainerSuffix
  <2>2. a[n].is \in BundleSuffixes
    BY <2>1 DEF ContainerSuffix, BundleSuffixes
  <2>3. Kind(a, n) = ContainerKind[a[d].is] /\ n \in AppLike(a)
    BY <1>4, <2>1, <2>2 DEF Kind, AppLike, ContainerKind, BundleSuffixes
  <2>4. d \in DOMAIN a \ {Root}
    BY <1>1, <2>1
  <2>5. EntryOK(a, d) /\ a[d].in \in DOMAIN a
    BY <2>4 DEF Accepted, IsTree
  <2>6. ~InContainer(a, d)
    <3> SUFFICES ASSUME InContainer(a, d) PROVE FALSE
      OBVIOUS
    <3>1. a[a[d].in].is \in DOMAIN ContainerSuffix /\ a[d].is = ContainerSuffix[a[a[d].in].is]
      BY <2>5 DEF EntryOK, InContainer
    <3>2. a[d].is \in {".appex", ".app", ".xpc"}
      BY <3>1 DEF ContainerSuffix
    <3> QED
      BY <2>1, <3>2
  <2>7. Kind(a, a[d].in) \in {"app", "watch-app", "app-clip", "app-extension"}
    <3>1. Kind(a, a[d].in) \in ContainerAllowed[a[d].is]
      BY <2>1, <2>5, <2>6 DEF EntryOK, ContainerSuffix
    <3> QED
      BY <2>1, <3>1 DEF ContainerAllowed
  <2>8. Kind(a, d) = "none"
    BY <2>1, <2>4, <2>6 DEF Kind
  <2>9. d \notin AppLike(a)
    BY <2>8 DEF AppLike
  <2>10. a[d].in \in AppLike(a)
    BY <2>5, <2>7 DEF AppLike
  <2> DEFINE g == a[d].in
             u == Up(a)
  <2>11. u[n] = {d} \cup u[d] /\ u[d] = {g} \cup u[g] /\ g \in DOMAIN a
    BY <2>4, <2>5, UpEquation
  <2>12. Home(a, n) \in u[n] \cap AppLike(a) /\ \A m \in u[n] \cap AppLike(a) : m = Home(a, n) \/ m \in u[Home(a, n)]
    BY HomeIsNearest
  <2>13. \A m \in u[g] : a[m].at < a[g].at /\ a[m].at \in Nat /\ a[g].at \in Nat /\ g \notin u[m]
    <3>1. \A m \in u[g] : m \in DOMAIN a /\ a[m].at < a[g].at
      BY <2>11, UpOrder
    <3>2. \A m \in u[g] : g \in u[m] => a[g].at < a[m].at
      BY <3>1, UpOrder
    <3>3. \A m \in u[g] : a[m].at \in Nat /\ a[g].at \in Nat
      BY <2>11, <3>1 DEF IsTree
    <3> QED
      BY <3>1, <3>2, <3>3
  <2> HIDE DEF g, u
  <2>14. Home(a, n) = g
    <3>1. Home(a, n) = g \/ Home(a, n) \in u[g]
      BY <2>9, <2>11, <2>12
    <3>2. g = Home(a, n) \/ g \in u[Home(a, n)]
      BY <2>10, <2>11, <2>12 DEF g
    <3> QED
      BY <2>13, <3>1, <3>2
  <2>15. \A m \in u[n] : m = a[n].in \/ m = Home(a, n) \/ m \in u[Home(a, n)]
    BY <2>11, <2>14
  <2> QED
    BY <1>2, <2>2, <2>3, <2>8, <2>9, <2>15 DEF u
<1> QED
  BY <1>3, <1>4

(***************************************************************************)
(* The plan.                                                               *)
(***************************************************************************)
ByPlace(a) == {p \in (DOMAIN a) \X (DOMAIN a) : a[p[1]].at < a[p[2]].at}
DeeperFirst(a) == {p \in (DOMAIN a) \X (DOMAIN a) : LeafBefore(a, p[1], p[2])}
Inside(a, b) == InOrder(Nested(a, b), ByPlace(a))
\* The walk of a bundle, with w for the walks of the bundles inside it.
Walked(a, b, w) ==
    InOrder(Leaves(a, b), DeeperFirst(a))
        \o FlattenSeq([i \in DOMAIN Inside(a, b) |-> w[Inside(a, b)[i]]]) \o <<b>>

\* The sort of the bundles inside a bundle lists each of them once.
LEMMA InsideListed ==
    ASSUME NEW a, IsTree(a), NEW b \in AppLike(a)
    PROVE  Lists(Inside(a, b), Nested(a, b), ByPlace(a))
<1> DEFINE S == Nested(a, b)
           R == ByPlace(a)
<1>1. S \subseteq DOMAIN a /\ IsFiniteSet(S)
  BY FS_Subset DEF IsTree, Nested, AppLike
<1>2. \A m, n \in DOMAIN a : (<<m, n>> \in R <=> a[m].at < a[n].at) /\ a[m].at \in Nat /\ (m # n => a[m].at # a[n].at)
  BY DEF ByPlace, IsTree
<1> HIDE DEF S, R
<1>3. \A m \in S : <<m, m>> \notin R
  BY <1>1, <1>2
<1>4. ASSUME NEW m \in S, NEW n \in S PROVE m = n \/ <<m, n>> \in R \/ <<n, m>> \in R
  <2> DEFINE p == a[m].at
             q == a[n].at
  <2>1. p \in Nat /\ q \in Nat /\ (m # n => p # q)
    BY <1>1, <1>2
  <2>2. (p < q => <<m, n>> \in R) /\ (q < p => <<n, m>> \in R)
    BY <1>1, <1>2
  <2> HIDE DEF p, q
  <2> QED
    BY <2>1, <2>2
<1>5. ASSUME NEW m \in S, NEW n \in S, NEW k \in S, <<m, n>> \in R, <<n, k>> \in R PROVE <<m, k>> \in R
  <2>1. a[m].at < a[n].at /\ a[n].at < a[k].at /\ a[m].at \in Nat /\ a[n].at \in Nat /\ a[k].at \in Nat
    BY <1>1, <1>2, <1>5
  <2>2. a[m].at < a[k].at
    BY <2>1
  <2> QED
    BY <1>1, <1>2, <2>2
<1>6. Ordered(S, R)
  BY <1>3, <1>4, <1>5 DEF Ordered
<1>7. Lists(InOrder(S, R), S, R)
  BY <1>1, <1>6, Arranged
<1> QED
  BY <1>7 DEF Inside, S, R

\* The recursion of walkBundle is well founded: the plan is the walk of the
\* application, and the walk of a bundle is made of the walks inside it.
LEMMA WalkEquation ==
    ASSUME NEW a, IsTree(a)
    PROVE  \E w : Steps(a) = w[Root] /\ \A b \in AppLike(a) : w[b] = Walked(a, b, w)
<1> DEFINE T == AppLike(a)
           P(f) == f = [b \in T |-> Walked(a, b, f)]
           At(k) == {b \in T : a[b].at >= k}
           E(k, f) == f = [b \in At(k) |-> Walked(a, b, f)]
           B == {k \in Nat : \E f : E(k, f)}
<1>1. T \subseteq DOMAIN a /\ \A b \in T : a[b].at \in Nat
  BY DEF AppLike, IsTree
<1>2. Steps(a) = (CHOOSE f : P(f))[Root]
  BY DEF Steps, Walked, Inside, ByPlace, DeeperFirst
<1>3. PICK N \in Nat : \A b \in T : a[b].at < N
  BY <1>1, ListingEnds
<1>4. N \in B
  <2>1. At(N) = {}
    BY <1>1, <1>3
  <2>2. E(N, [b \in {} |-> Walked(a, b, {})])
    BY <2>1
  <2> HIDE DEF E
  <2> QED
    BY <2>2
<1>5. ASSUME NEW k \in Nat, k + 1 \in B PROVE k \in B
  <2>1. PICK f : E(k + 1, f)
    BY <1>5
  <2> DEFINE g == [b \in At(k) |-> Walked(a, b, f)]
  <2>2. \A b \in At(k + 1) : b \in At(k) /\ f[b] = Walked(a, b, f)
    <3>1. \A b \in At(k + 1) : f[b] = Walked(a, b, f)
      <4> HIDE DEF At
      <4> QED
        BY <2>1
    <3>2. \A b \in At(k + 1) : b \in At(k)
      BY <1>1
    <3> QED
      BY <3>1, <3>2
  <2>3. \A b \in At(k + 1) : g[b] = f[b]
    <3> HIDE DEF At
    <3> QED
      BY <2>2
  <2>4. ASSUME NEW b \in At(k) PROVE Walked(a, b, g) = Walked(a, b, f)
    <3>1. b \in T /\ a[b].at >= k
      OBVIOUS
    <3>2. \A i \in DOMAIN Inside(a, b) : Inside(a, b)[i] \in Nested(a, b)
      BY <3>1, InsideListed DEF Lists
    <3>3. \A c \in Nested(a, b) : c \in At(k + 1)
      <4> SUFFICES ASSUME NEW c \in Nested(a, b) PROVE c \in At(k + 1)
        OBVIOUS
      <4>1. c \in T \ {Root} /\ Home(a, c) = b
        BY DEF Nested
      <4>2. b \in Up(a)[c]
        BY <1>1, <4>1, HomeIsNearest
      <4>3. a[b].at < a[c].at /\ a[c].at \in Nat /\ a[b].at \in Nat
        BY <1>1, <3>1, <4>1, <4>2, UpOrder
      <4>4. a[c].at >= k + 1
        BY <3>1, <4>3
      <4> QED
        BY <4>1, <4>4
    <3> HIDE DEF At, g
    <3>4. \A i \in DOMAIN Inside(a, b) : g[Inside(a, b)[i]] = f[Inside(a, b)[i]]
      BY <2>3, <3>2, <3>3
    <3>5. [i \in DOMAIN Inside(a, b) |-> g[Inside(a, b)[i]]] = [i \in DOMAIN Inside(a, b) |-> f[Inside(a, b)[i]]]
      BY <3>4
    <3> QED
      BY <3>5 DEF Walked
  <2>5. g = [b \in At(k) |-> Walked(a, b, g)]
    <3> DEFINE h == [b \in At(k) |-> Walked(a, b, g)]
    <3>1. \A b \in At(k) : h[b] = g[b]
      BY <2>4
    <3>2. DOMAIN h = At(k) /\ DOMAIN g = At(k) /\ h = [b \in At(k) |-> h[b]] /\ g = [b \in At(k) |-> g[b]]
      <4> HIDE DEF At
      <4> QED
        OBVIOUS
    <3> HIDE DEF h, g, At
    <3>3. h = g
      BY <3>1, <3>2
    <3> QED
      BY <3>3 DEF h
  <2>6. E(k, g)
    <3> HIDE DEF g
    <3> QED
      BY <2>5
  <2> HIDE DEF E
  <2> QED
    BY <2>6
<1>6. 0 \in B
  <2>1. B \in SUBSET Nat
    OBVIOUS
  <2>2. PICK m \in B : \A k \in B : m <= k
    <3> HIDE DEF B
    <3> QED
      BY <1>4, <2>1, LeastNatural
  <2> HIDE DEF B
  <2>3. m \in Nat
    BY <2>1, <2>2
  <2>4. m # 0 => m - 1 \in Nat /\ (m - 1) + 1 = m /\ ~(m <= m - 1)
    BY <2>3
  <2>5. m # 0 => m - 1 \in B
    BY <1>5, <2>2, <2>4
  <2> QED
    BY <2>2, <2>4, <2>5
<1>7. At(0) = T
  BY <1>1
<1>8. \E f : P(f)
  <2>1. PICK f : E(0, f)
    BY <1>6
  <2>2. P(f)
    <3> HIDE DEF At
    <3> QED
      BY <1>7, <2>1
  <2> HIDE DEF P
  <2> QED
    BY <2>2
<1> DEFINE w == CHOOSE f : P(f)
<1>9. P(w)
  <2> HIDE DEF P
  <2> QED
    BY <1>8
<1> HIDE DEF w
<1>10. \A b \in T : w[b] = Walked(a, b, w)
  BY <1>9
<1>11. Steps(a) = w[Root]
  BY <1>2 DEF w
<1> QED
  BY <1>10, <1>11

\* The frameworks and libraries of a bundle are signed the deeper first, so none
\* before one inside it.
LEMMA LeavesInsideOut ==
    ASSUME NEW a, IsTree(a), NEW b
    PROVE  InsideOut(a, InOrder(Leaves(a, b), DeeperFirst(a)), Leaves(a, b))
<1> DEFINE S == Leaves(a, b)
           R == DeeperFirst(a)
           depth == [n \in DOMAIN a |-> Cardinality(Up(a)[n])]
           place == [n \in DOMAIN a |-> a[n].at]
<1>1. S \subseteq DOMAIN a /\ IsFiniteSet(S) /\ IsFiniteSet(DOMAIN a)
  BY FS_Subset DEF IsTree, Leaves
<1>2. \A n \in DOMAIN a : IsFiniteSet(Up(a)[n]) /\ depth[n] \in Nat /\ depth[n] = Cardinality(Up(a)[n])
  BY <1>1, UpOrder, FS_Subset, FS_CardinalityType
<1>3. \A n \in DOMAIN a : place[n] \in Nat /\ \A m \in DOMAIN a : m # n => place[m] # place[n]
  BY DEF IsTree
<1>4. \A m, n \in DOMAIN a : <<m, n>> \in R <=> depth[m] > depth[n] \/ (depth[m] = depth[n] /\ place[m] < place[n])
  BY DEF DeeperFirst, LeafBefore
<1>5. \A m, n \in DOMAIN a : m \in Up(a)[n] => depth[m] < depth[n]
  <2> SUFFICES ASSUME NEW m \in DOMAIN a, NEW n \in DOMAIN a, m \in Up(a)[n] PROVE depth[m] < depth[n]
    OBVIOUS
  <2>1. Up(a)[m] \subseteq Up(a)[n]
    BY UpOrder
  <2>2. m \notin Up(a)[m]
    <3>1. m \in Up(a)[m] => a[m].at < a[m].at
      BY UpOrder
    <3>2. a[m].at \in Nat
      BY DEF IsTree
    <3> QED
      BY <3>1, <3>2
  <2>3. Up(a)[m] # Up(a)[n]
    BY <2>2
  <2> HIDE DEF depth
  <2>4. depth[m] <= depth[n] /\ depth[m] # depth[n]
    BY <1>2, <2>1, <2>3, FS_Subset
  <2> QED
    BY <1>2, <2>4
<1> HIDE DEF S, R, depth, place
<1>6. Ordered(S, R)
  <2>1. \A m \in S : <<m, m>> \notin R
    BY <1>1, <1>2, <1>3, <1>4
  <2>2. ASSUME NEW m \in S, NEW n \in S PROVE m = n \/ <<m, n>> \in R \/ <<n, m>> \in R
    <3>1. depth[m] \in Nat /\ depth[n] \in Nat /\ place[m] \in Nat /\ place[n] \in Nat /\ (m # n => place[m] # place[n])
      BY <1>1, <1>2, <1>3
    <3>2. m # n => (depth[m] > depth[n] \/ (depth[m] = depth[n] /\ place[m] < place[n])
                    \/ depth[n] > depth[m] \/ (depth[n] = depth[m] /\ place[n] < place[m]))
      BY <3>1
    <3> QED
      BY <1>1, <1>4, <3>2
  <2>3. ASSUME NEW m \in S, NEW n \in S, NEW k \in S, <<m, n>> \in R, <<n, k>> \in R PROVE <<m, k>> \in R
    <3>1. /\ depth[m] \in Nat /\ depth[n] \in Nat /\ depth[k] \in Nat
          /\ place[m] \in Nat /\ place[n] \in Nat /\ place[k] \in Nat
      BY <1>1, <1>2, <1>3
    <3>2. /\ depth[m] > depth[n] \/ (depth[m] = depth[n] /\ place[m] < place[n])
          /\ depth[n] > depth[k] \/ (depth[n] = depth[k] /\ place[n] < place[k])
      BY <1>1, <1>4, <2>3
    <3>3. depth[m] > depth[k] \/ (depth[m] = depth[k] /\ place[m] < place[k])
      BY <3>1, <3>2
    <3> QED
      BY <1>1, <1>4, <3>3
  <2> QED
    BY <2>1, <2>2, <2>3 DEF Ordered
<1>7. Lists(InOrder(S, R), S, R)
  BY <1>1, <1>6, Arranged
<1> DEFINE s == InOrder(S, R)
<1> HIDE DEF s
<1>8. PICK n \in Nat :
          /\ s \in [1..n -> S]
          /\ \A i, j \in 1..n : s[i] = s[j] => i = j
          /\ \A x \in S : \E i \in 1..n : s[i] = x
          /\ \A i, j \in 1..n : i < j => <<s[i], s[j]>> \in R
  BY <1>7 DEF Lists, s
<1>9. ASSUME NEW i \in 1..n, NEW j \in 1..n, i < j PROVE s[i] \notin Up(a)[s[j]]
  <2>1. s[i] \in DOMAIN a /\ s[j] \in DOMAIN a /\ <<s[i], s[j]>> \in R
    BY <1>1, <1>8, <1>9
  <2>2. depth[s[i]] >= depth[s[j]] /\ depth[s[i]] \in Nat /\ depth[s[j]] \in Nat
    BY <1>2, <1>4, <2>1
  <2>3. ~(depth[s[i]] < depth[s[j]])
    BY <2>2
  <2> QED
    BY <1>5, <2>1, <2>3
<1>10. InsideOut(a, s, S)
  BY <1>8, <1>9 DEF InsideOut
<1> QED
  BY <1>10 DEF s, S, R

\* The code of an application, and the part of it that is signed for a bundle.
Code(a) == AppLike(a) \cup {n \in DOMAIN a : Kind(a, n) \in {"framework", "dylib"}}
CodeOf(a, b) == {n \in Code(a) : n = b \/ b \in Up(a)[n]}

\* The code of a bundle is its frameworks and libraries, the code of the bundles
\* inside it, and itself.
LEMMA CodeParts ==
    ASSUME NEW a, IsTree(a), NEW b \in AppLike(a)
    PROVE  CodeOf(a, b) = (Leaves(a, b) \cup UNION {CodeOf(a, c) : c \in Nested(a, b)}) \cup {b}
<1> DEFINE D == DOMAIN a
           u == Up(a)
           T == AppLike(a)
<1>1. /\ Root \in D /\ T \subseteq D /\ Root \in T /\ u[Root] = {}
      /\ \A n \in D : a[n].at \in Nat
  BY UpEquation DEF IsTree, AppLike, Kind
<1>2. /\ \A n \in D \ {Root} : Home(a, n) \in u[n] /\ Home(a, n) \in T
      /\ \A n \in D \ {Root} : \A m \in u[n] \cap T : m = Home(a, n) \/ m \in u[Home(a, n)]
  BY HomeIsNearest
<1>3. /\ \A n \in D : \A m \in u[n] : m \in D /\ a[m].at < a[n].at /\ u[m] \subseteq u[n]
  BY UpOrder
<1>4. Leaves(a, b) = {n \in D : Kind(a, n) \in {"framework", "dylib"} /\ Home(a, n) = b}
      /\ Nested(a, b) = {n \in T \ {Root} : Home(a, n) = b}
      /\ Code(a) = T \cup {n \in D : Kind(a, n) \in {"framework", "dylib"}}
      /\ Kind(a, Root) = "app"
  BY DEF Leaves, Nested, Code, Kind
<1> HIDE DEF D, u, T
<1>5. ASSUME NEW n \in Leaves(a, b) PROVE n \in Code(a) /\ b \in u[n]
  <2>1. n \in D \ {Root}
    BY <1>4
  <2> QED
    BY <1>2, <1>4, <2>1
<1>6. ASSUME NEW c \in Nested(a, b), NEW n \in Code(a), n = c \/ c \in u[n] PROVE b \in u[n]
  <2>1. b \in u[c] /\ n \in D
    BY <1>1, <1>2, <1>4
  <2> QED
    BY <1>3, <1>6, <2>1
<1>7. ASSUME NEW n \in Code(a), b \in u[n] PROVE n \in Leaves(a, b) \/ \E c \in Nested(a, b) : n = c \/ c \in u[n]
  <2>1. n \in D \ {Root}
    BY <1>1, <1>4, <1>7
  <2>2. CASE b = Home(a, n)
    BY <1>4, <2>1, <2>2
  <2>3. CASE b # Home(a, n)
    <3> DEFINE S == {c \in u[n] \cap T : b \in u[c]}
               A == {a[c].at : c \in S}
    <3>1. Home(a, n) \in S
      BY <1>2, <1>7, <2>1, <2>3 DEF T
    <3>2. A \in SUBSET Nat /\ A # {}
      BY <1>1, <3>1
    <3>3. PICK k \in A : \A l \in A : k <= l
      <4> HIDE DEF A
      <4> QED
        BY <3>2, LeastNatural
    <3>4. PICK c \in S : a[c].at = k
      BY <3>3
    <3>5. c \in D \ {Root} /\ c \in T /\ b \in u[c] /\ c \in u[n]
      BY <1>1, <3>4
    <3>6. Home(a, c) \in u[c] /\ Home(a, c) \in T /\ Home(a, c) \in u[n] /\ a[Home(a, c)].at < a[c].at
      BY <1>2, <1>3, <2>1, <3>5
    <3>7. Home(a, c) \notin S
      <4> SUFFICES ASSUME Home(a, c) \in S PROVE FALSE
        OBVIOUS
      <4>1. k <= a[Home(a, c)].at
        BY <3>3
      <4>2. a[Home(a, c)].at \in Nat /\ a[c].at \in Nat
        BY <1>1, <3>5, <3>6
      <4> QED
        BY <3>4, <3>6, <4>1, <4>2
    <3>8. b = Home(a, c)
      BY <1>2, <3>5, <3>6, <3>7 DEF T
    <3> QED
      BY <1>4, <3>5, <3>8
  <2> QED
    BY <2>2, <2>3
<1>8. b \in Code(a)
  BY <1>4 DEF T
<1>9. CodeOf(a, b) = {n \in Code(a) : n = b \/ b \in u[n]} /\ \A c : CodeOf(a, c) = {n \in Code(a) : n = c \/ c \in u[n]}
  BY DEF CodeOf, u
<1>10. CodeOf(a, b) \subseteq (Leaves(a, b) \cup UNION {CodeOf(a, c) : c \in Nested(a, b)}) \cup {b}
  BY <1>7, <1>9
<1>11. (Leaves(a, b) \cup UNION {CodeOf(a, c) : c \in Nested(a, b)}) \cup {b} \subseteq CodeOf(a, b)
  BY <1>5, <1>6, <1>8, <1>9
<1> QED
  BY <1>10, <1>11

\* Those parts have nothing in common, and nothing in one of them is a directory
\* of anything in a part that is signed later.
LEMMA CodeApart ==
    ASSUME NEW a, IsTree(a), Accepted(a), NEW b \in AppLike(a)
    PROVE  /\ \A c \in Nested(a, b), d \in Nested(a, b) :
                  c # d => CodeOf(a, c) \cap CodeOf(a, d) = {} /\ \A x \in CodeOf(a, c), y \in CodeOf(a, d) : x \notin Up(a)[y]
           /\ \A c \in Nested(a, b) :
                  Leaves(a, b) \cap CodeOf(a, c) = {} /\ \A x \in Leaves(a, b), y \in CodeOf(a, c) : x \notin Up(a)[y]
           /\ \A c \in Nested(a, b) : b \notin CodeOf(a, c) /\ \A x \in CodeOf(a, c) : x \notin Up(a)[b]
           /\ b \notin Leaves(a, b) /\ \A x \in Leaves(a, b) : x \notin Up(a)[b]
<1> DEFINE D == DOMAIN a
           u == Up(a)
           T == AppLike(a)
<1>1. /\ Root \in D /\ T \subseteq D /\ Root \in T /\ u[Root] = {}
      /\ \A n \in D : a[n].at \in Nat
  BY UpEquation DEF IsTree, AppLike, Kind
<1>2. /\ \A n \in D \ {Root} : Home(a, n) \in u[n] /\ Home(a, n) \in T
      /\ \A n \in D \ {Root} : \A m \in u[n] \cap T : m = Home(a, n) \/ m \in u[Home(a, n)]
  BY HomeIsNearest
<1>3. /\ \A n \in D : \A m \in u[n] : m \in D /\ a[m].at < a[n].at /\ u[m] \subseteq u[n]
      /\ \A n \in D : \A m, k \in u[n] : m = k \/ m \in u[k] \/ k \in u[m]
  BY UpOrder
<1>4. \A m, n \in D : m \in u[n] => n \notin u[m] /\ m # n
  BY <1>1, <1>3
<1>5. /\ \A x \in Leaves(a, b) : x \in D \ {Root} /\ Kind(a, x) \in {"framework", "dylib"} /\ x \notin T /\ b \in u[x] /\ Home(a, x) = b
      /\ \A c \in Nested(a, b) : c \in D \ {Root} /\ c \in T /\ b \in u[c] /\ Home(a, c) = b
  <2>1. \A x \in Leaves(a, b) : x \in D \ {Root} /\ Kind(a, x) \in {"framework", "dylib"} /\ x \notin T /\ Home(a, x) = b
    BY DEF Leaves, Kind, AppLike
  <2>2. \A c \in Nested(a, b) : c \in D \ {Root} /\ c \in T /\ Home(a, c) = b
    BY <1>1 DEF Nested
  <2> QED
    BY <1>2, <2>1, <2>2
<1>6. \A c, n : n \in CodeOf(a, c) <=> n \in Code(a) /\ (n = c \/ c \in u[n])
  BY DEF CodeOf
<1>7. Code(a) \subseteq D
  BY <1>1 DEF Code
<1>8. ASSUME NEW c \in Nested(a, b) PROVE \A m \in u[c] : m = a[c].in \/ m = b \/ m \in u[b]
  BY <1>5, AcceptedShape
<1>9. ASSUME NEW c \in Nested(a, b) PROVE Kind(a, a[c].in) = "none"
  BY <1>5, AcceptedShape
<1> HIDE DEF D, u, T
<1>10. \A c, d \in Nested(a, b) : c \notin u[d]
  <2> SUFFICES ASSUME NEW c \in Nested(a, b), NEW d \in Nested(a, b), c \in u[d] PROVE FALSE
    OBVIOUS
  <2>1. c = b \/ c \in u[b]
    BY <1>2, <1>5
  <2>2. b \in u[c] /\ b \in D /\ c \in D
    BY <1>1, <1>5 DEF T
  <2> QED
    BY <1>4, <2>1, <2>2
<1>11. \A x \in Leaves(a, b), c \in Nested(a, b) : c \notin u[x] /\ x \notin u[c] /\ x # c
  <2> SUFFICES ASSUME NEW x \in Leaves(a, b), NEW c \in Nested(a, b) PROVE c \notin u[x] /\ x \notin u[c] /\ x # c
    OBVIOUS
  <2>1. b \in D /\ b \in T /\ c \in D /\ x \in D /\ b \in u[c] /\ b \in u[x]
    BY <1>1, <1>5 DEF T
  <2>2. c \in u[x] => c = b \/ c \in u[b]
    BY <1>2, <1>5
  <2>3. c \notin u[x]
    BY <1>4, <2>1, <2>2
  <2>4. x \in u[c] => x = a[c].in \/ x = b \/ x \in u[b]
    BY <1>8
  <2>5. x # a[c].in
    BY <1>5, <1>9
  <2>6. x \notin u[c]
    BY <1>4, <2>1, <2>4, <2>5
  <2> QED
    BY <1>5, <2>3, <2>6
<1>12. ASSUME NEW c \in Nested(a, b), NEW d \in Nested(a, b), c # d, NEW n \in D, n = c \/ c \in u[n], n = d \/ d \in u[n] PROVE FALSE
  BY <1>3, <1>10, <1>12
<1>13. ASSUME NEW c \in Nested(a, b), NEW d \in Nested(a, b), c # d
       PROVE  CodeOf(a, c) \cap CodeOf(a, d) = {} /\ \A x \in CodeOf(a, c), y \in CodeOf(a, d) : x \notin u[y]
  <2>1. CodeOf(a, c) \cap CodeOf(a, d) = {}
    BY <1>6, <1>7, <1>12, <1>13
  <2>2. ASSUME NEW x \in CodeOf(a, c), NEW y \in CodeOf(a, d), x \in u[y] PROVE FALSE
    <3>1. y \in D /\ (x = c \/ c \in u[x]) /\ (y = d \/ d \in u[y])
      BY <1>6, <1>7
    <3>2. c \in u[y]
      BY <1>3, <2>2, <3>1
    <3> QED
      BY <1>12, <1>13, <3>1, <3>2
  <2> QED
    BY <2>1, <2>2
<1>14. ASSUME NEW c \in Nested(a, b)
       PROVE  Leaves(a, b) \cap CodeOf(a, c) = {} /\ \A x \in Leaves(a, b), y \in CodeOf(a, c) : x \notin u[y]
  <2>1. Leaves(a, b) \cap CodeOf(a, c) = {}
    BY <1>6, <1>11
  <2>2. ASSUME NEW x \in Leaves(a, b), NEW y \in CodeOf(a, c), x \in u[y] PROVE FALSE
    <3>1. y \in D /\ (y = c \/ c \in u[y])
      BY <1>6, <1>7
    <3> QED
      BY <1>3, <1>11, <2>2, <3>1
  <2> QED
    BY <2>1, <2>2
<1>15. ASSUME NEW c \in Nested(a, b) PROVE b \notin CodeOf(a, c) /\ \A x \in CodeOf(a, c) : x \notin u[b]
  <2>1. b \in D /\ c \in D /\ b \in u[c]
    BY <1>1, <1>5 DEF T
  <2>2. b # c /\ c \notin u[b]
    BY <1>4, <2>1
  <2>3. ASSUME NEW x \in CodeOf(a, c), x \in u[b] PROVE FALSE
    <3>1. x = c \/ c \in u[x]
      BY <1>6
    <3> QED
      BY <1>3, <2>1, <2>2, <2>3, <3>1
  <2> QED
    BY <1>6, <2>2, <2>3
<1>16. b \notin Leaves(a, b) /\ \A x \in Leaves(a, b) : x \notin u[b]
  <2>1. b \in D /\ b \in T
    BY <1>1 DEF T
  <2> QED
    BY <1>4, <1>5, <2>1
<1> QED
  BY <1>13, <1>14, <1>15, <1>16 DEF u

\* The plan of an accepted application has all the code in it once, and nothing
\* before what it holds.
THEOREM PlanInsideOut ==
    ASSUME NEW a, IsTree(a), Accepted(a)
    PROVE  InsideOut(a, Steps(a), Code(a))
<1> DEFINE T == AppLike(a)
<1>1. PICK w : Steps(a) = w[Root] /\ \A b \in T : w[b] = Walked(a, b, w)
  BY WalkEquation
<1>2. PICK N \in Nat : \A n \in DOMAIN a : a[n].at < N
  BY ListingEnds
<1>3. Root \in T /\ T \subseteq DOMAIN a /\ \A n \in DOMAIN a : a[n].at \in Nat
  BY DEF IsTree, AppLike, Kind
<1> DEFINE Good(b) == InsideOut(a, w[b], CodeOf(a, b))
           A == {N - a[b].at : b \in {x \in T : ~Good(x)}}
<1>4. ASSUME NEW b \in T, \A c \in Nested(a, b) : Good(c) PROVE Good(b)
  <2> DEFINE s == Inside(a, b)
             t == [i \in DOMAIN s |-> w[s[i]]]
             leaves == InOrder(Leaves(a, b), DeeperFirst(a))
             F == [i \in DOMAIN s |-> CodeOf(a, s[i])]
             within == UNION {CodeOf(a, c) : c \in Nested(a, b)}
  <2>1. Lists(s, Nested(a, b), ByPlace(a))
    BY InsideListed
  <2>2. w[b] = (leaves \o FlattenSeq(t)) \o <<b>>
    BY <1>1 DEF Walked
  <2>3. InsideOut(a, leaves, Leaves(a, b))
    BY LeavesInsideOut
  <2> HIDE DEF s, leaves
  <2>4. PICK n \in Nat :
            /\ s \in [1..n -> Nested(a, b)] /\ \A i, j \in 1..n : s[i] = s[j] => i = j
            /\ \A x \in Nested(a, b) : \E i \in 1..n : s[i] = x
    BY <2>1 DEF Lists
  <2>5. DOMAIN s = 1..n /\ \A i \in 1..n : s[i] \in Nested(a, b) /\ t[i] = w[s[i]] /\ F[i] = CodeOf(a, s[i])
    BY <2>4
  <2> DEFINE V == {t[i] : i \in 1..n}
  <2>6. t \in Seq(V) /\ Len(t) = n
    <3>1. t \in [1..n -> V]
      BY <2>5
    <3> HIDE DEF t, V
    <3> QED
      BY <2>4, <3>1
  <2> HIDE DEF t, F, V
  <2>7. \A i \in 1..n : InsideOut(a, t[i], F[i])
    BY <1>4, <2>5
  <2>8. Apart(a, F, n)
    <3> SUFFICES ASSUME NEW i \in 1..n, NEW j \in 1..n, i # j
                 PROVE  F[i] \cap F[j] = {} /\ \A x \in F[i], y \in F[j] : x \notin Up(a)[y]
      BY DEF Apart
    <3>1. s[i] \in Nested(a, b) /\ s[j] \in Nested(a, b) /\ s[i] # s[j]
      BY <2>4, <2>5
    <3> QED
      BY <2>5, <3>1, CodeApart
  <2>9. InsideOut(a, FlattenSeq(t), Whole(F, n))
    BY <2>6, <2>7, <2>8, FlattenInsideOut
  <2>10. Whole(F, n) = within
    BY <2>4, <2>5 DEF Whole
  <2>11. Leaves(a, b) \cap within = {} /\ \A x \in Leaves(a, b), y \in within : x \notin Up(a)[y]
    BY CodeApart
  <2>12. /\ (Leaves(a, b) \cup within) \cap {b} = {}
         /\ \A x \in Leaves(a, b) \cup within, y \in {b} : x \notin Up(a)[y]
    BY CodeApart
  <2>13. CodeOf(a, b) = (Leaves(a, b) \cup within) \cup {b}
    BY CodeParts
  <2> HIDE DEF within
  <2>14. InsideOut(a, leaves \o FlattenSeq(t), Leaves(a, b) \cup within)
    BY <2>3, <2>9, <2>10, <2>11, JoinInsideOut
  <2>15. InsideOut(a, <<b>>, {b})
    <3> DEFINE o == <<b>>
    <3>1. o \in [1..1 -> {b}] /\ o[1] = b
      OBVIOUS
    <3> HIDE DEF o
    <3>2. \A i, j \in 1..1 : i = 1 /\ j = 1 /\ ~(i < j)
      OBVIOUS
    <3>3. 1 \in Nat /\ 1 \in 1..1
      OBVIOUS
    <3>4. InsideOut(a, o, {b})
      BY <3>1, <3>2, <3>3 DEF InsideOut
    <3> QED
      BY <3>4 DEF o
  <2>16. InsideOut(a, (leaves \o FlattenSeq(t)) \o <<b>>, (Leaves(a, b) \cup within) \cup {b})
    BY <2>12, <2>14, <2>15, JoinInsideOut
  <2> QED
    BY <2>2, <2>13, <2>16 DEF t
<1>5. A = {}
  <2> SUFFICES ASSUME A # {} PROVE FALSE
    OBVIOUS
  <2>1. A \in SUBSET Nat
    <3>1. \A b \in T : N - a[b].at \in Nat
      BY <1>2, <1>3
    <3> HIDE DEF Good
    <3> QED
      BY <3>1
  <2>2. PICK k \in A : \A l \in A : k <= l
    <3> HIDE DEF A
    <3> QED
      BY <2>1, LeastNatural
  <2> HIDE DEF Good
  <2>3. PICK b \in T : ~Good(b) /\ k = N - a[b].at
    BY <2>2
  <2>4. ASSUME NEW c \in Nested(a, b) PROVE Good(c)
    <3>1. c \in T \ {Root} /\ Home(a, c) = b
      BY DEF Nested
    <3>2. b \in Up(a)[c]
      BY <1>3, <3>1, HomeIsNearest
    <3>3. a[b].at < a[c].at /\ a[c].at \in Nat /\ a[b].at \in Nat
      BY <1>3, <3>1, <3>2, UpOrder
    <3>4. ~(k <= N - a[c].at)
      BY <2>3, <3>3
    <3>5. N - a[c].at \notin A
      BY <2>2, <3>4
    <3> QED
      BY <3>1, <3>5
  <2> QED
    BY <1>4, <2>3, <2>4
<1>6. Good(Root)
  <2> HIDE DEF Good
  <2> QED
    BY <1>3, <1>5
<1>7. CodeOf(a, Root) = Code(a)
  <2>1. \A n \in DOMAIN a \ {Root} : Root \in Up(a)[n]
    BY UpOrder
  <2>2. Code(a) \subseteq DOMAIN a
    BY DEF Code, AppLike
  <2> QED
    BY <2>1, <2>2 DEF CodeOf
<1> QED
  BY <1>1, <1>6, <1>7

(***************************************************************************)
(* The signing itself.                                                     *)
(***************************************************************************)
\* What is signed is the plan up to the step the job is at, every bundle signed
\* so far that needs a profile has one, and no signature is out of date.
PlanInv ==
    /\ broken = {}
    /\ pc \notin {"sign", "signed", "failed"} => signed = {}
    /\ pc \in {"sign", "signed"} =>
           /\ steps = Steps(app) /\ pos \in 1..(Len(steps) + 1)
           /\ signed = {steps[i] : i \in 1..(pos - 1)}
           /\ version = IF job.type = "adhoc" THEN {} ELSE {n \in AppLike(app) : Kind(app, n) # "xpc-service"}
           /\ \A n \in signed \cap Profiled(app) : embedded[n] # None
    /\ pc = "signed" => pos = Len(steps) + 1

\* The plan of the job, once its application is accepted.
LEMMA PlanOfJob ==
    ASSUME JobInv, pc \in {"sign", "signed", "plan"}
    PROVE  /\ IsTree(app) /\ Accepted(app)
           /\ \E n \in Nat :
                  /\ Len(Steps(app)) = n /\ Steps(app) \in [1..n -> Code(app)]
                  /\ \A i, j \in 1..n : Steps(app)[i] = Steps(app)[j] => i = j
                  /\ \A x \in Code(app) : \E i \in 1..n : Steps(app)[i] = x
                  /\ \A i, j \in 1..n : i < j => Steps(app)[i] \notin Up(app)[Steps(app)[j]]
<1>1. IsTree(app) /\ Accepted(app)
  BY JobsAssumption DEF JobInv, Unpacked, app
<1> DEFINE s == Steps(app)
<1>2. InsideOut(app, s, Code(app))
  BY <1>1, PlanInsideOut
<1> HIDE DEF s
<1>3. PICK n \in Nat :
          /\ s \in [1..n -> Code(app)]
          /\ \A i, j \in 1..n : s[i] = s[j] => i = j
          /\ \A x \in Code(app) : \E i \in 1..n : s[i] = x
          /\ \A i, j \in 1..n : i < j => s[i] \notin Up(app)[s[j]]
  BY <1>2 DEF InsideOut
<1>4. Len(s) = n
  BY <1>3
<1>5. \E k \in Nat :
          /\ Len(s) = k /\ s \in [1..k -> Code(app)]
          /\ \A i, j \in 1..k : s[i] = s[j] => i = j
          /\ \A x \in Code(app) : \E i \in 1..k : s[i] = x
          /\ \A i, j \in 1..k : i < j => s[i] \notin Up(app)[s[j]]
  BY <1>3, <1>4
<1> QED
  BY <1>1, <1>5 DEF s

\* A signature of the next step is under no earlier one.
LEMMA SignStep ==
    ASSUME JobInv, PlanInv, pc = "sign", pos <= Len(steps), Codesign(steps[pos]), pos' = pos + 1,
           UNCHANGED <<job, pc, steps, version>>,
           \A n \in (signed \cap Profiled(app)) : embedded'[n] # None,
           steps[pos] \in Profiled(app) => embedded'[steps[pos]] # None
    PROVE  PlanInv'
<1>1. /\ steps = Steps(app) /\ pos \in 1..(Len(steps) + 1) /\ signed = {steps[i] : i \in 1..(pos - 1)} /\ broken = {}
      /\ version = IF job.type = "adhoc" THEN {} ELSE {n \in AppLike(app) : Kind(app, n) # "xpc-service"}
  BY DEF PlanInv
<1>2. PICK n \in Nat : Len(steps) = n /\ \A i, j \in 1..n : i < j => steps[i] \notin Up(app)[steps[j]]
  BY <1>1, PlanOfJob
<1>3. pos \in 1..n /\ pos + 1 \in 1..(n + 1) /\ (\A i \in 1..(pos - 1) : i \in 1..n /\ i < pos)
      /\ (pos + 1) - 1 = pos /\ \A i \in 1..pos : i \in 1..(pos - 1) \/ i = pos
  BY <1>1, <1>2
<1>4. signed \cap Up(app)[steps[pos]] = {}
  BY <1>1, <1>2, <1>3
<1>5. broken' = {} /\ signed' = signed \cup {steps[pos]}
  BY <1>1, <1>4 DEF Codesign
<1>6. signed' = {steps[i] : i \in 1..pos}
  <2>1. \A i \in 1..(pos - 1) : i \in 1..pos
    BY <1>3
  <2>2. pos \in 1..pos
    BY <1>3
  <2> QED
    BY <1>1, <1>3, <1>5, <2>1, <2>2
<1>7. app' = app /\ AppLike(app)' = AppLike(app) /\ Profiled(app)' = Profiled(app) /\ Steps(app)' = Steps(app)
      /\ \A k : Kind(app, k)' = Kind(app, k)
  BY DEF app
<1>8. \A k \in signed' \cap Profiled(app) : embedded'[k] # None
  BY <1>5
<1>9. steps' = Steps(app)' /\ pos' \in 1..(Len(steps') + 1) /\ signed' = {steps'[i] : i \in 1..(pos' - 1)} /\ pc' = "sign"
  BY <1>1, <1>2, <1>3, <1>6, <1>7
<1>10. (version = IF job.type = "adhoc" THEN {} ELSE {k \in AppLike(app) : Kind(app, k) # "xpc-service"})'
  BY <1>1, <1>7
<1>11. (\A k \in signed \cap Profiled(app) : embedded[k] # None)'
  BY <1>7, <1>8
<1> QED
  BY <1>5, <1>9, <1>10, <1>11 DEF PlanInv

\* The rest of a step of a bundle.
LEMMA EmbedStep ==
    ASSUME JobInv, PlanInv, pc = "sign", pos <= Len(steps), steps[pos] \in Profiled(app),
           UNCHANGED <<job, steps, version>>, NEW p, p # None, Embed(steps[pos], p)
    PROVE  PlanInv'
<1>1. /\ Codesign(steps[pos]) /\ pos' = pos + 1 /\ pc' = pc
      /\ embedded' = [embedded EXCEPT ![steps[pos]] = p]
      /\ DOMAIN embedded = DOMAIN app /\ Profiled(app) \subseteq DOMAIN app
  BY DEF Embed, JobInv, Profiled
<1>2. embedded'[steps[pos]] # None
  BY <1>1
<1>3. \A n \in signed \cap Profiled(app) : embedded'[n] # None
  <2>1. \A n \in signed \cap Profiled(app) : embedded[n] # None
    BY DEF PlanInv
  <2> QED
    BY <1>1, <2>1
<1> QED
  BY <1>1, <1>2, <1>3, SignStep

\* It holds of a job that has not begun ...
LEMMA PlanInit == Init => PlanInv
BY DEF Init, PlanInv

\* ... every step keeps it, ...
LEMMA PlanNext == JobInv /\ PlanInv /\ [Next]_vars => PlanInv'
<1> SUFFICES ASSUME JobInv, PlanInv, [Next]_vars PROVE PlanInv'
  OBVIOUS
<1>1. CASE UNCHANGED vars
  BY <1>1 DEF vars, account, PlanInv, app
<1>2. CASE TrustedPackage
  BY <1>2 DEF TrustedPackage, account, manifest, signing, PlanInv, app
<1>3. CASE ValidateProvenance
  BY <1>3 DEF ValidateProvenance, account, manifest, signing, PlanInv, app
<1>4. CASE PlanSigning
  <2>1. /\ pc = "plan" /\ pc' = "sign" /\ steps' = Steps(app) /\ pos' = 1 /\ app' = app /\ job' = job
        /\ signed = {} /\ signed' = {} /\ broken' = {}
        /\ version' = IF job.type = "adhoc" THEN {} ELSE {n \in AppLike(app) : Kind(app, n) # "xpc-service"}
    BY <1>4 DEF PlanSigning, account, PlanInv, app
  <2>2. PICK n \in Nat : Len(Steps(app)) = n
    BY <2>1, PlanOfJob
  <2>3. pos' \in 1..(Len(steps') + 1) /\ signed' = {steps'[i] : i \in 1..(pos' - 1)}
    BY <2>1, <2>2
  <2>4. Steps(app)' = Steps(app) /\ AppLike(app)' = AppLike(app) /\ \A k : Kind(app, k)' = Kind(app, k)
    BY <2>1
  <2> QED
    BY <2>1, <2>3, <2>4 DEF PlanInv
<1>5. CASE SignCode
  <2>1. /\ pc = "sign" /\ pos <= Len(steps) /\ steps[pos] \notin Profiled(app) /\ Codesign(steps[pos]) /\ pos' = pos + 1
        /\ UNCHANGED <<job, pc, steps, version>> /\ embedded' = embedded
    BY <1>5 DEF SignCode, account
  <2>2. \A n \in signed \cap Profiled(app) : embedded'[n] # None
    BY <2>1 DEF PlanInv
  <2> QED
    BY <2>1, <2>2, SignStep
<1>6. CASE SignBundle
  <2>1. /\ pc = "sign" /\ pos <= Len(steps) /\ steps[pos] \in Profiled(app) /\ UNCHANGED <<job, steps, version>>
        /\ GiveUp \/ \E p : p # None /\ Embed(steps[pos], p)
    BY <1>6 DEF SignBundle
  <2>2. CASE GiveUp
    BY <2>2 DEF GiveUp, PlanInv
  <2>3. ASSUME NEW p, p # None, Embed(steps[pos], p) PROVE PlanInv'
    BY <2>1, <2>3, EmbedStep
  <2> QED
    BY <2>1, <2>2, <2>3
<1>7. CASE Verify
  <2>1. pos = Len(steps) + 1
    <3>1. pos \in 1..(Len(steps) + 1) /\ pos > Len(steps) /\ pc = "sign" /\ steps = Steps(app)
      BY <1>7 DEF Verify, PlanInv
    <3>2. Len(steps) \in Nat
      BY <3>1, PlanOfJob
    <3> QED
      BY <3>1, <3>2
  <2>2. /\ pc = "sign" /\ pc' = "signed" /\ UNCHANGED <<job, steps, pos, signed, broken, embedded, version>>
        /\ app' = app
    BY <1>7 DEF Verify, account, manifest, signing, app
  <2> QED
    BY <2>1, <2>2 DEF PlanInv
<1>8. CASE Fail
  BY <1>8 DEF Fail, account, manifest, signing, PlanInv
<1>9. CASE Rerun
  BY <1>9 DEF Rerun, PlanInv
<1>10. CASE Start
  BY <1>10 DEF Start, signing, PlanInv
<1>11. CASE ResolveProject
  BY <1>11 DEF ResolveProject, account, signing, PlanInv
<1>12. CASE VerifyBuiltBundleID
  BY <1>12 DEF VerifyBuiltBundleID, account, signing, PlanInv
<1> QED
  BY <1>1, <1>2, <1>3, <1>4, <1>5, <1>6, <1>7, <1>8, <1>9, <1>10, <1>11, <1>12 DEF Next

\* ... so it always holds.
LEMMA PlanAlways == Spec => []PlanInv
BY JobAlways, PlanInit, PlanNext, PTL DEF Spec

\* No step of a job changes anything under a signature an earlier step has made.
THEOREM SignsInsideOut == Spec => []SealsHold
<1>1. PlanInv => SealsHold
  BY DEF PlanInv, SealsHold
<1> QED
  BY <1>1, PlanAlways, PTL

\* A signed application has no code that the plan missed or signed twice.
THEOREM SignsAll == Spec => []EverythingSigned
<1>1. JobInv /\ PlanInv => EverythingSigned
  <2> SUFFICES ASSUME JobInv, PlanInv, pc = "signed"
               PROVE  /\ {n \in DOMAIN app : n = Root \/ app[n].is \in BundleSuffixes \cup {"framework", "dylib"}} = signed
                      /\ Len(steps) = Cardinality(signed)
    BY DEF EverythingSigned
  <2>1. IsTree(app) /\ Accepted(app)
    BY PlanOfJob
  <2>2. PICK n \in Nat :
            /\ Len(steps) = n /\ steps \in [1..n -> Code(app)]
            /\ \A i, j \in 1..n : steps[i] = steps[j] => i = j
            /\ \A x \in Code(app) : \E i \in 1..n : steps[i] = x
    BY PlanOfJob DEF PlanInv
  <2>3. signed = {steps[i] : i \in 1..n}
    <3>1. pos = n + 1 /\ pos - 1 = n
      BY <2>2 DEF PlanInv
    <3> QED
      BY <3>1 DEF PlanInv
  <2>4. signed = Code(app)
    BY <2>2, <2>3
  <2>5. Root \in DOMAIN app /\ Root \in AppLike(app) /\ AppLike(app) \subseteq DOMAIN app
    BY <2>1 DEF IsTree, AppLike, Kind
  <2>6. \A m \in DOMAIN app \ {Root} : m \in Code(app) <=> app[m].is \in BundleSuffixes \cup {"framework", "dylib"}
    BY <2>1, AcceptedShape DEF Code
  <2>7. Code(app) = {m \in DOMAIN app : m = Root \/ app[m].is \in BundleSuffixes \cup {"framework", "dylib"}}
    BY <2>5, <2>6 DEF Code
  <2>8. steps \in Bijection(1..n, Code(app))
    BY <2>2 DEF Bijection, Injection, Surjection, IsInjective
  <2>9. Cardinality(Code(app)) = n
    <3>1. ExistsBijection(1..n, Code(app))
      BY <2>8 DEF ExistsBijection
    <3> QED
      BY <3>1, FS_CountingElements
  <2> QED
    BY <2>2, <2>4, <2>7, <2>9
<1> QED
  BY <1>1, JobAlways, PlanAlways, PTL

\* Every bundle of a signed application that needs a profile has its own.
THEOREM SignsWithOwnProfile == Spec => []OwnProfile
<1>1. JobInv /\ PlanInv /\ EverythingSigned => OwnProfile
  <2> SUFFICES ASSUME JobInv, PlanInv, EverythingSigned, pc = "signed", NEW n \in Profiled(app)
               PROVE  /\ embedded[n].id = app[n].id /\ embedded[n].expires > now
                      /\ (embedded[n].devices # {}) <=> (job.type = "adhoc")
                      /\ job.type = "adhoc" \/ n \in version
    BY DEF OwnProfile
  <2>1. n \in DOMAIN app /\ n \in AppLike(app) /\ Kind(app, n) # "xpc-service"
    BY DEF Profiled, AppLike
  <2>2. IsTree(app) /\ Accepted(app)
    BY PlanOfJob
  <2>3. n = Root \/ app[n].is \in BundleSuffixes
    BY <2>1, <2>2, AcceptedShape
  <2>4. n \in signed
    BY <2>1, <2>3 DEF EverythingSigned
  <2>5. embedded[n] # None /\ version = IF job.type = "adhoc" THEN {} ELSE {m \in AppLike(app) : Kind(app, m) # "xpc-service"}
    BY <2>4 DEF PlanInv
  <2>6. Embedded(n)
    BY <2>1 DEF JobInv
  <2> QED
    BY <2>1, <2>5, <2>6 DEF Embedded, Usable
<1> QED
  BY <1>1, JobAlways, PlanAlways, SignsAll, PTL

(***************************************************************************)
(* The manifest.                                                           *)
(***************************************************************************)
\* A listing is as long as its set is large.
LEMMA ListingLength ==
    ASSUME NEW s, NEW S, NEW R, Lists(s, S, R)
    PROVE  /\ Len(s) = Cardinality(S) /\ Cardinality(S) \in Nat
           /\ s \in [1..Cardinality(S) -> S]
           /\ \A i, j \in 1..Cardinality(S) : s[i] = s[j] => i = j
           /\ \A x \in S : \E i \in 1..Cardinality(S) : s[i] = x
           /\ \A i, j \in 1..Cardinality(S) : i < j => <<s[i], s[j]>> \in R
<1>1. PICK n \in Nat :
          /\ s \in [1..n -> S]
          /\ \A i, j \in 1..n : s[i] = s[j] => i = j
          /\ \A x \in S : \E i \in 1..n : s[i] = x
          /\ \A i, j \in 1..n : i < j => <<s[i], s[j]>> \in R
  BY DEF Lists
<1>2. s \in Bijection(1..n, S)
  BY <1>1 DEF Bijection, Injection, Surjection, IsInjective
<1>3. Cardinality(S) = n
  BY <1>2, FS_CountingElements DEF ExistsBijection
<1>4. Len(s) = n
  BY <1>1
<1> QED
  BY <1>1, <1>3, <1>4

\* A set has one listing in an order.
LEMMA OneListing ==
    ASSUME NEW s, NEW t, NEW S, NEW R, Lists(s, S, R), Lists(t, S, R), Ordered(S, R)
    PROVE  s = t
<1> DEFINE n == Cardinality(S)
<1>1. /\ n \in Nat /\ s \in [1..n -> S]
      /\ \A i, j \in 1..n : s[i] = s[j] => i = j
      /\ \A x \in S : \E i \in 1..n : s[i] = x
      /\ \A i, j \in 1..n : i < j => <<s[i], s[j]>> \in R
  BY ListingLength
<1>2. /\ t \in [1..n -> S]
      /\ \A i, j \in 1..n : t[i] = t[j] => i = j
      /\ \A x \in S : \E i \in 1..n : t[i] = x
      /\ \A i, j \in 1..n : i < j => <<t[i], t[j]>> \in R
  BY ListingLength
<1> HIDE DEF n
<1> DEFINE B == {i \in 1..n : s[i] # t[i]}
<1>3. B = {}
  <2> SUFFICES ASSUME B # {} PROVE FALSE
    OBVIOUS
  <2>1. B \in SUBSET Nat
    OBVIOUS
  <2>2. PICK m \in B : \A k \in B : m <= k
    <3> HIDE DEF B
    <3> QED
      BY <2>1, LeastNatural
  <2>3. m \in 1..n /\ s[m] # t[m] /\ s[m] \in S /\ t[m] \in S
    BY <1>1, <1>2
  <2>4. \A k \in 1..n : k < m => s[k] = t[k]
    BY <2>2, <2>3
  <2>5. PICK j \in 1..n : t[j] = s[m]
    BY <1>2, <2>3
  <2>6. PICK k \in 1..n : s[k] = t[m]
    BY <1>1, <2>3
  <2>7. ~(j < m) /\ j # m
    BY <1>1, <2>3, <2>4, <2>5
  <2>8. ~(k < m) /\ k # m
    BY <1>2, <2>3, <2>4, <2>6
  <2>9. m < j /\ m < k
    BY <2>3, <2>7, <2>8
  <2>10. <<s[m], t[m]>> \in R
    <3>1. <<s[m], s[k]>> \in R
      BY <1>1, <2>3, <2>9
    <3> QED
      BY <2>6, <3>1
  <2>11. <<t[m], s[m]>> \in R
    <3>1. <<t[m], t[j]>> \in R
      BY <1>2, <2>3, <2>9
    <3> QED
      BY <2>5, <3>1
  <2>12. <<s[m], s[m]>> \in R
    BY <2>3, <2>10, <2>11 DEF Ordered
  <2> QED
    BY <2>3, <2>12 DEF Ordered
<1>4. \A i \in 1..n : s[i] = t[i]
  BY <1>3
<1>5. s = [i \in 1..n |-> s[i]] /\ t = [i \in 1..n |-> t[i]]
  BY <1>1, <1>2
<1> HIDE DEF B
<1> QED
  BY <1>4, <1>5

\* The names of hosts have an order.
LEMMA HostsOrdered ==
    ASSUME NEW S \in SUBSET ToSet(Hosts)
    PROVE  Ordered(S, Alphabet) /\ IsFiniteSet(S)
<1>1. PICK n \in Nat : DOMAIN Hosts = 1..n
  BY HostsAssumption
<1>2. ToSet(Hosts) = {Hosts[i] : i \in 1..n}
  BY <1>1 DEF ToSet
<1>3. \A i, j \in 1..n : <<Hosts[i], Hosts[j]>> \in Alphabet <=> i < j
  <2> SUFFICES ASSUME NEW i \in 1..n, NEW j \in 1..n PROVE <<Hosts[i], Hosts[j]>> \in Alphabet <=> i < j
    OBVIOUS
  <2>1. i < j => <<Hosts[i], Hosts[j]>> \in Alphabet
    BY <1>1, <1>2 DEF Alphabet
  <2>2. ASSUME <<Hosts[i], Hosts[j]>> \in Alphabet PROVE i < j
    <3>1. PICK k, l \in 1..n : k < l /\ <<Hosts[i], Hosts[j]>> = <<Hosts[k], Hosts[l]>>
      BY <1>1, <2>2 DEF Alphabet
    <3>2. i = k /\ j = l
      BY <1>1, <3>1, HostsAssumption
    <3> QED
      BY <3>1, <3>2
  <2> QED
    BY <2>1, <2>2
<1>4. \A x \in S : \E i \in 1..n : x = Hosts[i]
  BY <1>2
<1>5. \A x \in S : <<x, x>> \notin Alphabet
  BY <1>3, <1>4
<1>6. \A x, y \in S : x = y \/ <<x, y>> \in Alphabet \/ <<y, x>> \in Alphabet
  <2> SUFFICES ASSUME NEW x \in S, NEW y \in S PROVE x = y \/ <<x, y>> \in Alphabet \/ <<y, x>> \in Alphabet
    OBVIOUS
  <2>1. PICK i \in 1..n : x = Hosts[i]
    BY <1>4
  <2>2. PICK j \in 1..n : y = Hosts[j]
    BY <1>4
  <2>3. i = j \/ i < j \/ j < i
    OBVIOUS
  <2> QED
    BY <1>3, <2>1, <2>2, <2>3
<1>7. \A x, y, z \in S : <<x, y>> \in Alphabet /\ <<y, z>> \in Alphabet => <<x, z>> \in Alphabet
  <2> SUFFICES ASSUME NEW x \in S, NEW y \in S, NEW z \in S, <<x, y>> \in Alphabet, <<y, z>> \in Alphabet PROVE <<x, z>> \in Alphabet
    OBVIOUS
  <2>1. PICK i \in 1..n : x = Hosts[i]
    BY <1>4
  <2>2. PICK j \in 1..n : y = Hosts[j]
    BY <1>4
  <2>3. PICK k \in 1..n : z = Hosts[k]
    BY <1>4
  <2>4. i < j /\ j < k
    BY <1>3, <2>1, <2>2, <2>3
  <2>5. i < k
    BY <2>4
  <2> QED
    BY <1>3, <2>1, <2>3, <2>5
<1>8. IsFiniteSet(ToSet(Hosts))
  <2> DEFINE h == [i \in 1..n |-> Hosts[i]]
  <2>1. h \in Surjection(1..n, ToSet(Hosts))
    BY <1>2 DEF Surjection
  <2> QED
    BY <2>1, FS_NatSurjection DEF ExistsSurjection
<1>9. IsFiniteSet(S)
  BY <1>8, FS_Subset
<1> QED
  BY <1>5, <1>6, <1>7, <1>9 DEF Ordered

\* Sanitising what has been sanitised changes nothing.
LEMMA SanitizedOnce == ASSUME NEW asked PROVE ValidDomains(SanitizeDomains(asked))
<1> DEFINE S == ToSet(asked) \cap ToSet(Hosts)
           s == Sorted(ToSet(asked))
           n == Cardinality(S)
           k == IF n < MaxDomains THEN n ELSE MaxDomains
           l == SanitizeDomains(asked)
           T == ToSet(l)
<1>1. Lists(s, S, Alphabet)
  BY Arranged, HostsOrdered DEF Sorted
<1>2. /\ Len(s) = n /\ n \in Nat /\ s \in [1..n -> S]
      /\ \A i, j \in 1..n : s[i] = s[j] => i = j
      /\ \A i, j \in 1..n : i < j => <<s[i], s[j]>> \in Alphabet
  BY <1>1, ListingLength
<1>3. MaxDomains \in Nat
  BY LimitsAssumption
<1>4. l = SubSeq(s, 1, IF Len(s) < MaxDomains THEN Len(s) ELSE MaxDomains)
  BY DEF SanitizeDomains, First
<1>5. S \subseteq ToSet(Hosts)
  OBVIOUS
<1> HIDE DEF n, S, s, l
<1>6. k \in Nat /\ k <= n /\ k <= MaxDomains /\ \A i \in 1..k : i \in 1..n
  BY <1>2, <1>3
<1>7. l = [i \in 1..k |-> s[i]]
  <2>1. l = SubSeq(s, 1, k)
    BY <1>2, <1>4
  <2>2. SubSeq(s, 1, k) = [i \in 1..(1 + k - 1) |-> s[i + 1 - 1]]
    <3>1. s \in Seq(S)
      BY <1>2
    <3> QED
      BY <1>2, <1>6, <3>1
  <2> QED
    BY <1>6, <2>1, <2>2
<1> HIDE DEF k
<1>8. DOMAIN l = 1..k /\ \A i \in 1..k : l[i] = s[i]
  BY <1>7
<1>9. T = {l[i] : i \in 1..k}
  BY <1>8 DEF ToSet
<1>10. T \subseteq S /\ l \in [1..k -> T] /\ Len(l) = k
  <2>1. T \subseteq S
    BY <1>2, <1>6, <1>8, <1>9
  <2>2. l \in [1..k -> T]
    BY <1>7, <1>8, <1>9
  <2>3. Len(l) = k
    BY <1>6, <2>2
  <2> QED
    BY <2>1, <2>2, <2>3
<1> HIDE DEF T
<1>11. Lists(l, T, Alphabet)
  <2>1. \A i, j \in 1..k : l[i] = l[j] => i = j
    BY <1>2, <1>6, <1>8
  <2>2. \A x \in T : \E i \in 1..k : l[i] = x
    BY <1>9
  <2>3. \A i, j \in 1..k : i < j => <<l[i], l[j]>> \in Alphabet
    BY <1>2, <1>6, <1>8
  <2> QED
    BY <1>6, <1>10, <2>1, <2>2, <2>3 DEF Lists
<1>12. T \cap ToSet(Hosts) = T /\ T \in SUBSET ToSet(Hosts)
  BY <1>5, <1>10
<1>13. Ordered(T, Alphabet) /\ IsFiniteSet(T)
  BY <1>12, HostsOrdered
<1>14. Lists(Sorted(T), T, Alphabet)
  BY <1>12, <1>13, Arranged DEF Sorted
<1>15. Sorted(T) = l
  BY <1>11, <1>13, <1>14, OneListing
<1>16. First(l, MaxDomains) = l
  <2>1. First(l, MaxDomains) = SubSeq(l, 1, k)
    <3>1. (IF k < MaxDomains THEN k ELSE MaxDomains) = k
      BY <1>3, <1>6
    <3> QED
      BY <1>10, <3>1 DEF First
  <2>2. l \in Seq(T) /\ Len(l) = k
    BY <1>6, <1>10
  <2>3. SubSeq(l, 1, k) = l
    BY <1>6, <1>10, <2>2
  <2> QED
    BY <2>1, <2>3
<1>17. SanitizeDomains(l) = First(Sorted(T), MaxDomains)
  BY DEF SanitizeDomains, T
<1> QED
  BY <1>15, <1>16, <1>17 DEF ValidDomains, l

\* Once there is a manifest, what it says is what the signing job takes, and
\* the job has gone on exactly if its time stamp was in order.
Written == ValidDomains(request.domains) /\ ValidServices(request.services)
ManifestInv ==
    /\ pc \notin {"input", "build", "package"} => pc = "rejected" \/ Written
    /\ pc = "forged" => ~Timely
    /\ pc \in {"plan", "sign", "signed"} => Timely

\* A manifest the packaging job wrote is refused when, and only when, it is too
\* old or from the future.
THEOREM ManifestAccepted == Spec => []HonestManifest
<1>1. Init => ManifestInv
  BY DEF Init, ManifestInv
<1>2. ManifestInv /\ [Next]_vars => ManifestInv'
  <2> SUFFICES ASSUME ManifestInv, [Next]_vars PROVE ManifestInv'
    OBVIOUS
  <2>1. CASE ResolveProject
    BY <2>1 DEF ResolveProject, ManifestInv
  <2>2. CASE VerifyBuiltBundleID
    BY <2>2 DEF VerifyBuiltBundleID, ManifestInv
  <2>3. CASE TrustedPackage
    <3>1. pc' \in {"queued", "rejected"} /\ request' = TakenRequest(job.request)
      BY <2>3 DEF TrustedPackage
    <3>2. ValidDomains(SanitizeDomains(job.request.domains))
      BY SanitizedOnce
    <3>3. ValidServices(SanitizeServices(job.request.services))
      BY DEF ValidServices, SanitizeServices
    <3>4. request'.domains = SanitizeDomains(job.request.domains) /\ request'.services = SanitizeServices(job.request.services)
      BY <3>1 DEF TakenRequest
    <3>5. Written'
      BY <3>2, <3>3, <3>4 DEF Written
    <3> QED
      BY <3>1, <3>5 DEF ManifestInv
  <2>4. CASE Start
    BY <2>4 DEF Start, manifest, ManifestInv, Written
  <2>5. CASE ValidateProvenance
    <3>1. pc = "provenance" /\ UNCHANGED <<request, created, now>>
      BY <2>5 DEF ValidateProvenance, account, manifest
    <3>2. Written /\ Written' /\ (Timely' <=> Timely)
      BY <3>1 DEF ManifestInv, Written, Timely
    <3>3. pc' = IF Timely THEN "plan" ELSE "forged"
      BY <2>5, <3>2 DEF ValidateProvenance, Written
    <3> QED
      BY <3>2, <3>3 DEF ManifestInv
  <2>6. ASSUME UNCHANGED <<request, created, now>>, pc \in {"plan", "sign"}, pc' \in {"sign", "signed", "failed"}
        PROVE  ManifestInv'
    BY <2>6 DEF ManifestInv, Written, Timely
  <2>7. CASE PlanSigning
    BY <2>6, <2>7 DEF PlanSigning, account, manifest
  <2>8. CASE SignCode
    BY <2>6, <2>8 DEF SignCode, account, manifest
  <2>9. CASE SignBundle
    BY <2>6, <2>9 DEF SignBundle, manifest, Embed, GiveUp
  <2>10. CASE Verify
    BY <2>6, <2>10 DEF Verify, account, manifest
  <2>11. CASE Fail
    BY <2>6, <2>11 DEF Fail, account, manifest
  <2>12. CASE Rerun
    BY <2>12 DEF Rerun, manifest, ManifestInv, Written
  <2>13. CASE UNCHANGED vars
    BY <2>13 DEF vars, account, manifest, ManifestInv, Written, Timely
  <2> QED
    BY <2>1, <2>2, <2>3, <2>4, <2>5, <2>7, <2>8, <2>9, <2>10, <2>11, <2>12, <2>13 DEF Next
<1>3. ManifestInv => HonestManifest
  BY DEF ManifestInv, HonestManifest
<1> QED
  BY <1>1, <1>2, <1>3, PTL DEF Spec

=============================================================================
