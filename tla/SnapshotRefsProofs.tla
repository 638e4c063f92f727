------------------------- MODULE SnapshotRefsProofs -------------------------
(***************************************************************************)
(* For every set of builds, IDs and cleanups, and every timeout, age and   *)
(* clock skew within the assumptions: what SnapshotRefs promises.          *)
(***************************************************************************)
EXTENDS SnapshotRefs, TLAPS

LEMMA AgeIsInt == \A a \in OlderThan : MaxAge(a) \in Int
BY TimeAssumption DEF MaxAge

LEMMA InitEstablishesIInv == Init => IInv
<1> SUFFICES ASSUME Init PROVE IInv
  OBVIOUS
<1>1. TypeOK
  BY CommitAssumption DEF Init, TypeOK, Cli, Sweep, Inspected
<1>2. \A b \in Builds : CliInv(b)
  BY DEF Init, CliInv, Alive
<1>3. \A i \in Ids : TipInv(i)
  BY DEF Init, TipInv
<1>4. \A c \in Sweeps : SweepInv(c)
  BY DEF Init, SweepInv
<1> QED
  BY <1>1, <1>2, <1>3, <1>4 DEF IInv

\* What a cleanup is about to delete was pushed by a CLI that has left: had it
\* not, its deadline would be past the clock the cleanup read.
LEMMA StaleIsAbandoned ==
    ASSUME IInv, NEW c \in Sweeps, NEW p \in sweep[c].stale
    PROVE  /\ p \in Ids \X Builds
           /\ IsSnapshot(p[2]) /\ cli[p[2]].at = "left" /\ cli[p[2]].id = p[1]
<1> DEFINE b == p[2]
<1>1. sweep[c] \in Sweep /\ p \in Ids \X Builds
  BY DEF IInv, TypeOK, Sweep, Inspected
<1>2. b \in Builds /\ cli[b] \in Cli
  BY <1>1 DEF IInv, TypeOK
<1>3. Pushed(b, p[1]) /\ Stale(c, b) /\ CliInv(b)
  BY <1>1, <1>2 DEF IInv, SweepInv
<1>4. sweep[c].at # "idle"
  BY DEF IInv, SweepInv
<1>5. sweep[c].clock <= now + Skew /\ sweep[c].age > Timeout + Skew
  BY <1>4 DEF IInv, SweepInv
<1>6. sweep[c].clock \in Int /\ sweep[c].age \in Int /\ now \in Nat
      /\ cli[b].made \in Nat /\ cli[b].started \in Nat
  BY <1>1, <1>2 DEF Sweep, Cli, IInv, TypeOK
<1>7. cli[b].at # "waiting"
  <2> SUFFICES ASSUME cli[b].at = "waiting" PROVE FALSE
    OBVIOUS
  <2>1. now <= cli[b].started + Timeout /\ cli[b].started <= cli[b].made
    BY <1>3 DEF CliInv, Alive, Deadline
  <2>2. sweep[c].clock - cli[b].made >= sweep[c].age
    BY <1>3 DEF Stale
  <2> QED
    BY <1>5, <1>6, <2>1, <2>2, TimeAssumption
<1> QED
  BY <1>1, <1>3, <1>7 DEF Pushed, Stale

-----------------------------------------------------------------------------
\* Types first: each action keeps them.
LEMMA TypeStep == ASSUME TypeOK, [Next]_vars PROVE TypeOK'
<1> USE DEF TypeOK
<1>1. CASE Tick
  BY <1>1 DEF Tick
<1>2. ASSUME NEW b \in Builds, CliStep(b) PROVE TypeOK'
  <2>1. cli[b] \in Cli /\ cli[b].id \in Ids
    BY DEF Cli
  <2>2. cli' \in [Builds -> Cli]
    BY <1>2, <2>1 DEF CliStep, Begin, Create, Push, PushForeign, Leave, Abandon, Cli
  <2>3. tip' \in [Ids -> Builds \cup {NoCommit}]
    <3>1. tip[cli[b].id] \in Builds \cup {NoCommit}
      BY <2>1
    <3>2. Released(b) \in Builds \cup {NoCommit}
      BY <3>1 DEF Released
    <3> QED
      BY <1>2, <2>1, <3>2 DEF CliStep, Begin, Create, Push, PushForeign, Leave, Abandon
  <2> QED
    BY <1>2, <2>2, <2>3 DEF CliStep, Begin, Create, Push, PushForeign, Leave, Abandon
<1>3. ASSUME NEW c \in Sweeps, SweepStep(c) PROVE TypeOK'
  <2>1. sweep[c] \in Sweep
    OBVIOUS
  <2>2. sweep' \in [Sweeps -> Sweep]
    <3>1. CASE StartSweep(c)
      <4>1. PICK a \in OlderThan, skew \in -Skew..Skew :
              sweep' = [sweep EXCEPT ![c].at = "started", ![c].clock = now + skew, ![c].age = MaxAge(a)]
        BY <3>1 DEF StartSweep
      <4>2. now + skew \in Int /\ MaxAge(a) \in Int
        BY AgeIsInt, TimeAssumption
      <4> QED
        BY <2>1, <4>1, <4>2 DEF Sweep
    <3>2. CASE ListRemote(c)
      BY <2>1, <3>2 DEF ListRemote, Sweep
    <3>3. CASE Inspect(c)
      <4>1. PICK p \in sweep[c].todo :
              sweep' = [sweep EXCEPT ![c].todo = @ \ {p},
                                     ![c].stale = IF Stale(c, p[2]) THEN @ \cup {p} ELSE @,
                                     ![c].at = IF sweep[c].todo = {p} THEN "delete" ELSE "inspect"]
        BY <3>3 DEF Inspect
      <4>2. p \in Inspected
        BY <2>1 DEF Sweep
      <4> QED
        BY <2>1, <4>1, <4>2 DEF Sweep
    <3>4. CASE DeleteLease(c)
      BY <2>1, <3>4 DEF DeleteLease, Sweep
    <3>5. CASE SweepFails(c)
      BY <2>1, <3>5 DEF SweepFails, Sweep
    <3>6. CASE FinishSweep(c)
      BY <2>1, <3>6 DEF FinishSweep, Sweep
    <3> QED
      BY <1>3, <3>1, <3>2, <3>3, <3>4, <3>5, <3>6 DEF SweepStep
  <2>3. tip' \in [Ids -> Builds \cup {NoCommit}]
    BY <1>3 DEF SweepStep, StartSweep, ListRemote, Inspect, DeleteLease, SweepFails, FinishSweep
  <2> QED
    BY <1>3, <2>2, <2>3 DEF SweepStep, StartSweep, ListRemote, Inspect, DeleteLease, SweepFails, FinishSweep
<1>4. CASE UNCHANGED vars
  BY <1>4 DEF vars
<1> QED
  BY <1>1, <1>2, <1>3, <1>4 DEF Next

-----------------------------------------------------------------------------
LEMMA TickKeepsIInv == ASSUME IInv, TypeOK', Tick PROVE IInv'
<1> USE DEF Tick
<1>1. \A b \in Builds : CliInv(b)'
  <2> SUFFICES ASSUME NEW b \in Builds PROVE CliInv(b)'
    OBVIOUS
  <2>1. cli[b] \in Cli /\ now \in Nat
    BY DEF IInv, TypeOK
  <2>2. cli[b].started \in Nat /\ cli[b].made \in Nat
    BY <2>1 DEF Cli
  <2>3. Alive(b) => IsSnapshot(b) /\ cli[b].started <= now' /\ now' <= Deadline(b)
    BY <2>1, <2>2, TimeAssumption DEF IInv, CliInv, Deadline
  <2>4. cli[b].at \in {"committed", "waiting"} => cli[b].started <= cli[b].made /\ cli[b].made <= now'
    BY <2>1, <2>2 DEF IInv, CliInv
  <2> QED
    BY <2>3, <2>4 DEF IInv, CliInv, Alive, IsSnapshot, Deadline
<1>2. \A i \in Ids : TipInv(i)'
  BY DEF IInv, TipInv, Pushed
<1>3. \A c \in Sweeps : SweepInv(c)'
  <2> SUFFICES ASSUME NEW c \in Sweeps PROVE SweepInv(c)'
    OBVIOUS
  <2>1. SweepInv(c) /\ sweep[c].clock \in Int /\ now \in Nat
    BY DEF IInv, TypeOK, Sweep
  <2>2. sweep[c].at # "idle" => sweep[c].clock <= now' + Skew
    BY <2>1, TimeAssumption DEF SweepInv
  <2> QED
    BY <2>1, <2>2 DEF SweepInv, Pushed, Stale, IsSnapshot
<1> QED
  BY <1>1, <1>2, <1>3 DEF IInv

-----------------------------------------------------------------------------
\* The effect of a CLI's step on the commits that are pushed: none loses what a
\* cleanup looks at, and a ref that changes was absent or held the CLI's own.
LEMMA CliStepEffect ==
    ASSUME IInv, TypeOK', NEW b \in Builds, CliStep(b)
    PROVE  /\ \A d \in Builds \ {b} : cli'[d] = cli[d]
           /\ cli'[b].kind = cli[b].kind /\ cli'[b].id = cli[b].id
           /\ cli[b].at \in {"waiting", "left"} => cli'[b].at = "left" /\ cli'[b].made = cli[b].made
           /\ \A i \in Ids \ {cli[b].id} : tip'[i] = tip[i]
           /\ \/ tip'[cli[b].id] = tip[cli[b].id]
              \/ /\ tip[cli[b].id] = b
                 /\ tip'[cli[b].id] = NoCommit
                 /\ cli'[b].at = "left"
              \/ /\ tip[cli[b].id] = NoCommit
                 /\ tip'[cli[b].id] = b
                 /\ cli'[b].at \in {"waiting", "left"}
                 /\ IsSnapshot(b) => cli[b].at = "committed" /\ cli'[b] = [cli[b] EXCEPT !.at = cli'[b].at]
           /\ UNCHANGED <<now, sweep>>
<1> DEFINE i == cli[b].id
<1>1. cli[b] \in Cli /\ i \in Ids /\ cli \in [Builds -> Cli] /\ tip \in [Ids -> Builds \cup {NoCommit}]
  BY DEF IInv, TypeOK, Cli
<1>2. CliInv(b)
  BY DEF IInv
<1>3. CASE Begin(b)
  BY <1>1, <1>3 DEF Begin
<1>4. CASE Create(b)
  BY <1>1, <1>4 DEF Create
<1>5. CASE Push(b)
  BY <1>1, <1>5 DEF Push
<1>6. CASE PushForeign(b)
  BY <1>1, <1>6 DEF PushForeign
<1>7. CASE Leave(b)
  <2>1. tip[i] = b
    BY <1>2, <1>7 DEF Leave, CliInv
  <2>2. Released(b) \in {NoCommit, tip[i]}
    BY <2>1 DEF Released
  <2> QED
    BY <1>1, <1>7, <2>1, <2>2 DEF Leave
<1>8. CASE Abandon(b)
  BY <1>1, <1>8 DEF Abandon, Alive
<1> QED
  BY <1>3, <1>4, <1>5, <1>6, <1>7, <1>8 DEF CliStep

\* A CLI's deadline and its commit, whatever another CLI does.
LEMMA CliStepKeepsCliInv ==
    ASSUME IInv, TypeOK', NEW b \in Builds, CliStep(b), NEW d \in Builds
    PROVE  CliInv(d)'
<1>1. CliInv(d) /\ CliInv(b) /\ now \in Nat /\ cli[d] \in Cli /\ cli[b] \in Cli
      /\ cli \in [Builds -> Cli] /\ tip \in [Ids -> Builds \cup {NoCommit}]
  BY DEF IInv, TypeOK
<1>2. cli[d].id \in Ids /\ cli[b].id \in Ids /\ cli[d].started \in Nat /\ cli[d].made \in Nat
  BY <1>1 DEF Cli
<1>3. CASE d # b
  <2>1. cli'[d] = cli[d] /\ UNCHANGED now
    BY <1>3, CliStepEffect
  <2>2. cli[d].at = "waiting" => tip'[cli[d].id] = d
    <3> SUFFICES ASSUME cli[d].at = "waiting" PROVE tip'[cli[d].id] = d
      OBVIOUS
    <3>1. tip[cli[d].id] = d
      BY <1>1 DEF CliInv
    <3>2. CASE cli[d].id # cli[b].id
      <4>1. \A i \in Ids \ {cli[b].id} : tip'[i] = tip[i]
        BY CliStepEffect
      <4> QED
        BY <1>2, <3>1, <3>2, <4>1
    <3>3. CASE cli[d].id = cli[b].id
      <4>1. tip'[cli[b].id] = tip[cli[b].id] \/ tip[cli[b].id] \in {b, NoCommit}
        BY CliStepEffect
      <4> QED
        BY <1>3, <3>1, <3>3, <4>1, CommitAssumption
    <3> QED
      BY <3>2, <3>3
  <2> QED
    BY <1>1, <2>1, <2>2 DEF CliInv, Alive, IsSnapshot, Deadline
<1>4. CASE d = b
  <2>1. CASE Begin(b)
    BY <1>1, <1>2, <1>4, <2>1, TimeAssumption DEF Begin, CliInv, Alive, IsSnapshot, Deadline
  <2>2. CASE Create(b)
    BY <1>1, <1>2, <1>4, <2>2 DEF Create, CliInv, Alive, IsSnapshot, Deadline
  <2>3. CASE Push(b)
    BY <1>1, <1>2, <1>4, <2>3 DEF Push, CliInv, Alive, IsSnapshot, Deadline
  <2>4. CASE PushForeign(b) \/ Leave(b) \/ Abandon(b)
    <3>1. cli'[b].at = "left"
      <4>1. CASE PushForeign(b)
        BY <1>1, <4>1 DEF PushForeign
      <4>2. CASE Leave(b)
        BY <1>1, <4>2 DEF Leave
      <4>3. CASE Abandon(b)
        BY <1>1, <4>3 DEF Abandon
      <4> QED
        BY <2>4, <4>1, <4>2, <4>3
    <3> QED
      BY <1>4, <3>1 DEF CliInv, Alive
  <2> QED
    BY <2>1, <2>2, <2>3, <2>4 DEF CliStep
<1> QED
  BY <1>3, <1>4

LEMMA CliStepKeepsPushed ==
    ASSUME IInv, TypeOK', NEW b \in Builds, CliStep(b), NEW d \in Builds, NEW i \in Ids, Pushed(d, i)
    PROVE  /\ Pushed(d, i)'
           /\ cli'[d].made = cli[d].made /\ cli'[d].kind = cli[d].kind
<1>1. CASE d # b
  BY <1>1, CliStepEffect DEF Pushed
<1>2. CASE d = b
  BY <1>2, CliStepEffect DEF Pushed
<1> QED
  BY <1>1, <1>2

LEMMA CliStepKeepsTipInv ==
    ASSUME IInv, TypeOK', NEW b \in Builds, CliStep(b), NEW i \in Ids
    PROVE  TipInv(i)'
<1> SUFFICES ASSUME tip'[i] # NoCommit PROVE Pushed(tip[i], i)'
  BY DEF TipInv
<1>1. CASE tip'[i] = tip[i]
  <2>1. tip[i] \in Builds /\ Pushed(tip[i], i)
    BY <1>1 DEF IInv, TypeOK, TipInv
  <2>2. Pushed(tip[i], i)' <=> cli'[tip[i]].id = i /\ cli'[tip[i]].at \in {"waiting", "left"}
    BY <1>1 DEF Pushed
  <2>3. cli'[tip[i]].id = i /\ cli'[tip[i]].at \in {"waiting", "left"}
    <3>1. CASE tip[i] # b
      BY <2>1, <3>1, CliStepEffect DEF Pushed
    <3>2. CASE tip[i] = b
      BY <2>1, <3>2, CliStepEffect DEF Pushed
    <3> QED
      BY <3>1, <3>2
  <2> QED
    BY <2>2, <2>3
<1>2. CASE tip'[i] # tip[i]
  <2>1. \A j \in Ids \ {cli[b].id} : tip'[j] = tip[j]
    BY CliStepEffect
  <2>2. i = cli[b].id
    BY <1>2, <2>1
  <2>3. tip'[cli[b].id] # tip[cli[b].id] /\ tip'[cli[b].id] # NoCommit
    BY <1>2, <2>2
  <2>4. tip'[cli[b].id] = b /\ cli'[b].at \in {"waiting", "left"} /\ cli'[b].id = cli[b].id
    BY <2>3, CliStepEffect
  <2> QED
    BY <2>2, <2>4 DEF Pushed
<1> QED
  BY <1>1, <1>2

\* A commit that appears is too young for any cleanup that has read its clock.
LEMMA CliStepKeepsSweepInv ==
    ASSUME IInv, TypeOK', NEW b \in Builds, CliStep(b), NEW c \in Sweeps
    PROVE  SweepInv(c)'
<1>1. SweepInv(c) /\ sweep[c] \in Sweep /\ UNCHANGED <<now, sweep>>
  BY CliStepEffect DEF IInv, TypeOK
<1>2. \A p \in sweep[c].todo \cup sweep[c].stale : p[1] \in Ids /\ p[2] \in Builds
  BY <1>1 DEF Sweep, Inspected
<1>3. \A p \in sweep[c].todo \cup sweep[c].stale : Pushed(p[2], p[1])'
  <2> SUFFICES ASSUME NEW p \in sweep[c].todo \cup sweep[c].stale PROVE Pushed(p[2], p[1])'
    OBVIOUS
  <2>1. Pushed(p[2], p[1])
    BY <1>1 DEF SweepInv
  <2>2. p[1] \in Ids /\ p[2] \in Builds
    BY <1>2
  <2> QED
    BY <2>1, <2>2, CliStepKeepsPushed
<1>4. \A p \in sweep[c].stale : Stale(c, p[2])'
  <2> SUFFICES ASSUME NEW p \in sweep[c].stale PROVE Stale(c, p[2])'
    OBVIOUS
  <2>1. Pushed(p[2], p[1]) /\ Stale(c, p[2])
    BY <1>1 DEF SweepInv
  <2>2. p[1] \in Ids /\ p[2] \in Builds
    BY <1>2
  <2> QED
    BY <1>1, <2>1, <2>2, CliStepKeepsPushed DEF Stale, IsSnapshot
<1>5. ASSUME sweep[c].at \in {"inspect", "delete", "ok"}, NEW i \in Ids, tip'[i] # NoCommit, Stale(c, tip[i])'
      PROVE  <<i, tip'[i]>> \in sweep[c].todo \cup sweep[c].stale
  <2>1. CASE tip'[i] = tip[i]
    <3>1. tip[i] \in Builds /\ Pushed(tip[i], i)
      BY <1>5, <2>1 DEF IInv, TypeOK, TipInv
    <3>2. cli'[tip[i]].made = cli[tip[i]].made /\ cli'[tip[i]].kind = cli[tip[i]].kind
      BY <3>1, CliStepKeepsPushed
    <3>3. Stale(c, tip[i])
      BY <1>1, <1>5, <2>1, <3>2 DEF Stale, IsSnapshot
    <3> QED
      BY <1>1, <1>5, <2>1, <3>3 DEF SweepInv
  <2>2. CASE tip'[i] # tip[i]
    <3>1. /\ i = cli[b].id /\ tip'[i] = b
          /\ IsSnapshot(b) => cli[b].at = "committed" /\ cli'[b] = [cli[b] EXCEPT !.at = cli'[b].at]
          /\ cli'[b].kind = cli[b].kind
      BY <1>5, <2>2, CliStepEffect
    <3>2. IsSnapshot(b) /\ sweep[c].clock - cli'[b].made >= sweep[c].age
      BY <1>1, <1>5, <3>1 DEF Stale, IsSnapshot
    <3>3. cli[b] \in Cli /\ now \in Nat /\ CliInv(b)
      BY DEF IInv, TypeOK
    <3>4. cli'[b].made = cli[b].made /\ cli[b].made \in Nat /\ cli[b].started \in Nat
      BY <3>1, <3>2, <3>3 DEF Cli
    <3>5. now <= cli[b].started + Timeout /\ cli[b].started <= cli[b].made
      BY <3>1, <3>2, <3>3 DEF CliInv, Alive, Deadline
    <3>6. sweep[c].clock <= now + Skew /\ sweep[c].age > Timeout + Skew
          /\ sweep[c].clock \in Int /\ sweep[c].age \in Int
      BY <1>1, <1>5 DEF SweepInv, Sweep
    <3> QED
      BY <3>2, <3>3, <3>4, <3>5, <3>6, TimeAssumption
  <2> QED
    BY <2>1, <2>2
<1> QED
  BY <1>1, <1>3, <1>4, <1>5 DEF SweepInv

LEMMA CliStepKeepsIInv == ASSUME IInv, TypeOK', NEW b \in Builds, CliStep(b) PROVE IInv'
BY CliStepKeepsCliInv, CliStepKeepsTipInv, CliStepKeepsSweepInv DEF IInv

-----------------------------------------------------------------------------
\* A cleanup's step touches refs only by deleting the commit of a CLI that left.
LEMMA SweepStepEffect ==
    ASSUME IInv, NEW c \in Sweeps, SweepStep(c)
    PROVE  /\ \A e \in Sweeps \ {c} : sweep'[e] = sweep[e]
           /\ UNCHANGED <<now, cli>>
           /\ \A i \in Ids : tip'[i] # tip[i] =>
                 /\ tip'[i] = NoCommit
                 /\ tip[i] \in Builds
                 /\ IsSnapshot(tip[i]) /\ cli[tip[i]].at = "left"
<1>1. sweep \in [Sweeps -> Sweep] /\ tip \in [Ids -> Builds \cup {NoCommit}]
  BY DEF IInv, TypeOK
<1>2. ASSUME NEW p \in sweep[c].stale, tip[p[1]] = p[2], tip' = [tip EXCEPT ![p[1]] = NoCommit]
      PROVE  \A i \in Ids : tip'[i] # tip[i] =>
                 /\ tip'[i] = NoCommit
                 /\ tip[i] \in Builds
                 /\ IsSnapshot(tip[i]) /\ cli[tip[i]].at = "left"
  <2>1. p \in Ids \X Builds /\ IsSnapshot(p[2]) /\ cli[p[2]].at = "left"
    BY StaleIsAbandoned
  <2> QED
    BY <1>1, <1>2, <2>1
<1>3. CASE StartSweep(c)
  BY <1>1, <1>3 DEF StartSweep
<1>4. CASE ListRemote(c)
  BY <1>1, <1>4 DEF ListRemote
<1>5. CASE Inspect(c)
  BY <1>1, <1>5 DEF Inspect
<1>6. CASE DeleteLease(c)
  <2>1. PICK p \in sweep[c].stale : /\ tip[p[1]] = p[2]
                                    /\ tip' = [tip EXCEPT ![p[1]] = NoCommit]
                                    /\ sweep' = [sweep EXCEPT ![c].stale = @ \ {p}]
    BY <1>6 DEF DeleteLease
  <2> QED
    BY <1>1, <1>2, <1>6, <2>1 DEF DeleteLease
<1>7. CASE SweepFails(c)
  <2>1. CASE UNCHANGED tip
    BY <1>1, <1>7, <2>1 DEF SweepFails
  <2>2. CASE \E p \in sweep[c].stale : tip[p[1]] = p[2] /\ tip' = [tip EXCEPT ![p[1]] = NoCommit]
    BY <1>1, <1>2, <1>7, <2>2 DEF SweepFails
  <2> QED
    BY <1>7, <2>1, <2>2 DEF SweepFails
<1>8. CASE FinishSweep(c)
  BY <1>1, <1>8 DEF FinishSweep
<1> QED
  BY <1>3, <1>4, <1>5, <1>6, <1>7, <1>8 DEF SweepStep

LEMMA SweepStepKeepsCliInv ==
    ASSUME IInv, NEW c \in Sweeps, SweepStep(c), NEW b \in Builds
    PROVE  CliInv(b)'
<1>1. CliInv(b) /\ cli[b] \in Cli
  BY DEF IInv, TypeOK
<1>2. cli[b].id \in Ids
  BY <1>1 DEF Cli
<1>3. UNCHANGED <<now, cli>>
  BY SweepStepEffect
<1>4. cli[b].at = "waiting" => tip'[cli[b].id] = b
  <2>1. \A i \in Ids : tip'[i] # tip[i] => cli[tip[i]].at = "left"
    BY SweepStepEffect
  <2> QED
    BY <1>1, <1>2, <2>1 DEF CliInv
<1> QED
  BY <1>1, <1>3, <1>4 DEF CliInv, Alive, IsSnapshot, Deadline

LEMMA SweepStepKeepsTipInv ==
    ASSUME IInv, NEW c \in Sweeps, SweepStep(c), NEW i \in Ids
    PROVE  TipInv(i)'
<1>1. TipInv(i) /\ UNCHANGED <<now, cli>>
  BY SweepStepEffect DEF IInv
<1>2. tip'[i] # tip[i] => tip'[i] = NoCommit
  BY SweepStepEffect
<1> QED
  BY <1>1, <1>2 DEF TipInv, Pushed

\* The cleanups that do not move keep what they have in hand.
LEMMA SweepStepKeepsOthers ==
    ASSUME IInv, NEW c \in Sweeps, SweepStep(c), NEW e \in Sweeps, sweep'[e] = sweep[e]
    PROVE  SweepInv(e)'
<1>1. SweepInv(e) /\ UNCHANGED <<now, cli>>
  BY SweepStepEffect DEF IInv
<1>2. \A i \in Ids : tip'[i] # tip[i] => tip'[i] = NoCommit
  BY SweepStepEffect
<1>3. ASSUME sweep[e].at \in {"inspect", "delete", "ok"}, NEW i \in Ids, tip'[i] # NoCommit, Stale(e, tip[i])'
      PROVE  <<i, tip'[i]>> \in sweep[e].todo \cup sweep[e].stale
  <2>1. tip'[i] = tip[i]
    BY <1>2, <1>3
  <2>2. Stale(e, tip[i])
    BY <1>1, <1>3, <2>1 DEF Stale, IsSnapshot
  <2> QED
    BY <1>1, <1>3, <2>1, <2>2 DEF SweepInv
<1>4. \A p \in sweep[e].todo \cup sweep[e].stale : Pushed(p[2], p[1])'
  BY <1>1 DEF SweepInv, Pushed
<1>5. \A p \in sweep[e].stale : Stale(e, p[2])'
  BY <1>1 DEF SweepInv, Stale, IsSnapshot
<1> QED
  BY <1>1, <1>3, <1>4, <1>5 DEF SweepInv

LEMMA SweepStepKeepsOwn ==
    ASSUME IInv, NEW c \in Sweeps, SweepStep(c)
    PROVE  SweepInv(c)'
<1>1. SweepInv(c) /\ sweep[c] \in Sweep /\ UNCHANGED <<now, cli>> /\ sweep \in [Sweeps -> Sweep] /\ now \in Nat
      /\ tip \in [Ids -> Builds \cup {NoCommit}]
  BY SweepStepEffect DEF IInv, TypeOK
<1>2. \A i \in Ids : tip'[i] # tip[i] => tip'[i] = NoCommit
  BY SweepStepEffect
<1>3. CASE StartSweep(c)
  <2>1. PICK a \in OlderThan, skew \in -Skew..Skew :
          sweep' = [sweep EXCEPT ![c].at = "started", ![c].clock = now + skew, ![c].age = MaxAge(a)]
    BY <1>3 DEF StartSweep
  <2>2. sweep'[c].at = "started" /\ sweep'[c].todo = {} /\ sweep'[c].stale = {}
        /\ sweep'[c].clock = now + skew /\ sweep'[c].age = MaxAge(a)
    BY <1>1, <1>3, <2>1 DEF StartSweep, SweepInv, Sweep
  <2>3. sweep'[c].clock <= now + Skew /\ sweep'[c].age > Timeout + Skew
    BY <1>1, <2>2, TimeAssumption, AgeAssumption
  <2> QED
    BY <1>1, <2>2, <2>3 DEF SweepInv
<1>4. CASE ListRemote(c)
  <2> DEFINE listing == {p \in Inspected : tip[p[1]] = p[2]}
  <2>1. /\ sweep'[c].todo = listing /\ sweep'[c].stale = {}
        /\ sweep'[c].at = IF listing = {} THEN "ok" ELSE "inspect"
        /\ sweep'[c].clock = sweep[c].clock /\ sweep'[c].age = sweep[c].age
        /\ UNCHANGED tip /\ sweep[c].at = "started"
    BY <1>1, <1>4 DEF ListRemote, SweepInv, Sweep
  <2>2. \A p \in listing : Pushed(p[2], p[1])'
    <3> SUFFICES ASSUME NEW p \in listing PROVE Pushed(p[2], p[1])
      BY <1>1 DEF Pushed
    <3>1. p[1] \in Ids /\ tip[p[1]] = p[2] /\ p[2] \in Builds
      BY DEF Inspected
    <3> QED
      BY <3>1, CommitAssumption DEF IInv, TipInv
  <2>3. \A i \in Ids : tip[i] # NoCommit => <<i, tip[i]>> \in listing
    BY <1>1 DEF Inspected
  <2> HIDE DEF listing
  <2>4. \A p \in sweep'[c].todo \cup sweep'[c].stale : Pushed(p[2], p[1])'
    BY <2>1, <2>2
  <2>5. \A i \in Ids : tip'[i] # NoCommit => <<i, tip'[i]>> \in sweep'[c].todo \cup sweep'[c].stale
    BY <2>1, <2>3
  <2>6. sweep'[c].clock <= now' + Skew /\ sweep'[c].age > Timeout + Skew
    BY <1>1, <2>1 DEF SweepInv
  <2> QED
    BY <2>1, <2>4, <2>5, <2>6 DEF SweepInv
<1>5. CASE Inspect(c)
  <2>1. PICK p \in sweep[c].todo :
          sweep' = [sweep EXCEPT ![c].todo = @ \ {p},
                                 ![c].stale = IF Stale(c, p[2]) THEN @ \cup {p} ELSE @,
                                 ![c].at = IF sweep[c].todo = {p} THEN "delete" ELSE "inspect"]
    BY <1>5 DEF Inspect
  <2>2. /\ sweep'[c].todo = sweep[c].todo \ {p}
        /\ sweep'[c].stale = IF Stale(c, p[2]) THEN sweep[c].stale \cup {p} ELSE sweep[c].stale
        /\ sweep'[c].at = IF sweep[c].todo = {p} THEN "delete" ELSE "inspect"
        /\ sweep'[c].clock = sweep[c].clock /\ sweep'[c].age = sweep[c].age
        /\ UNCHANGED tip /\ sweep[c].at = "inspect"
    BY <1>1, <1>5, <2>1 DEF Inspect, Sweep
  <2>3. \A q : Stale(c, q)' <=> Stale(c, q)
    BY <1>1, <2>2 DEF Stale, IsSnapshot
  <2>4. \A q \in sweep'[c].todo \cup sweep'[c].stale : Pushed(q[2], q[1])'
    BY <1>1, <2>2 DEF SweepInv, Pushed
  <2>5. \A q \in sweep'[c].stale : Stale(c, q[2])'
    <3>1. \A q \in sweep'[c].stale : q \in sweep[c].stale \/ (q = p /\ Stale(c, p[2]))
      BY <2>2
    <3>2. \A q \in sweep'[c].stale : Stale(c, q[2])
      BY <1>1, <3>1 DEF SweepInv
    <3> QED
      BY <2>3, <3>2
  <2>6. ASSUME NEW i \in Ids, tip'[i] # NoCommit, Stale(c, tip[i])'
        PROVE  <<i, tip'[i]>> \in sweep'[c].todo \cup sweep'[c].stale
    <3>1. tip[i] # NoCommit /\ Stale(c, tip[i])
      BY <1>1, <2>2, <2>6 DEF Stale, IsSnapshot
    <3>2. <<i, tip[i]>> \in sweep[c].todo \cup sweep[c].stale
      BY <1>1, <2>2, <3>1 DEF SweepInv
    <3>3. <<i, tip[i]>> = p => p[2] = tip[i]
      OBVIOUS
    <3> QED
      BY <2>2, <3>1, <3>2, <3>3
  <2>7. sweep'[c].clock <= now' + Skew /\ sweep'[c].age > Timeout + Skew
    BY <1>1, <2>2 DEF SweepInv
  <2> QED
    BY <2>2, <2>4, <2>5, <2>6, <2>7 DEF SweepInv
<1>6. CASE DeleteLease(c)
  <2>1. PICK p \in sweep[c].stale : /\ tip[p[1]] = p[2]
                                    /\ tip' = [tip EXCEPT ![p[1]] = NoCommit]
                                    /\ sweep' = [sweep EXCEPT ![c].stale = @ \ {p}]
    BY <1>6 DEF DeleteLease
  <2>2. /\ sweep'[c].todo = {} /\ sweep'[c].stale = sweep[c].stale \ {p} /\ sweep[c].todo = {}
        /\ sweep'[c].at = "delete" /\ sweep[c].at = "delete"
        /\ sweep'[c].clock = sweep[c].clock /\ sweep'[c].age = sweep[c].age
    BY <1>1, <1>6, <2>1 DEF DeleteLease, Sweep, SweepInv
  <2>3. \A q : Stale(c, q)' <=> Stale(c, q)
    BY <1>1, <2>2 DEF Stale, IsSnapshot
  <2>4. \A q \in sweep'[c].todo \cup sweep'[c].stale : Pushed(q[2], q[1])'
    BY <1>1, <2>2 DEF SweepInv, Pushed
  <2>5. \A q \in sweep'[c].stale : Stale(c, q[2])'
    BY <1>1, <2>2, <2>3 DEF SweepInv
  <2>6. ASSUME NEW i \in Ids, tip'[i] # NoCommit, Stale(c, tip[i])'
        PROVE  <<i, tip'[i]>> \in sweep'[c].todo \cup sweep'[c].stale
    <3>1. tip'[i] = tip[i] /\ Stale(c, tip[i])
      BY <1>1, <1>2, <2>2, <2>6 DEF Stale, IsSnapshot
    <3>2. <<i, tip[i]>> \in sweep[c].stale
      BY <1>1, <2>2, <2>6, <3>1 DEF SweepInv
    <3>3. <<i, tip[i]>> # p
      <4> SUFFICES ASSUME <<i, tip[i]>> = p PROVE FALSE
        OBVIOUS
      <4>1. p[1] = i
        OBVIOUS
      <4>2. tip'[i] = NoCommit
        BY <1>1, <2>1, <4>1
      <4> QED
        BY <2>6, <4>2
    <3> QED
      BY <2>2, <3>1, <3>2, <3>3
  <2>7. sweep'[c].clock <= now' + Skew /\ sweep'[c].age > Timeout + Skew
    BY <1>1, <2>2 DEF SweepInv
  <2> QED
    BY <2>2, <2>4, <2>5, <2>6, <2>7 DEF SweepInv
<1>7. CASE SweepFails(c)
  <2>1. /\ sweep'[c].todo = sweep[c].todo /\ sweep'[c].stale = sweep[c].stale
        /\ sweep'[c].at = "failed" /\ sweep[c].at # "idle"
        /\ sweep'[c].clock = sweep[c].clock /\ sweep'[c].age = sweep[c].age
    BY <1>1, <1>7 DEF SweepFails, Sweep
  <2> QED
    BY <1>1, <2>1 DEF SweepInv, Pushed, Stale, IsSnapshot
<1>8. CASE FinishSweep(c)
  <2>1. /\ sweep'[c].todo = {} /\ sweep'[c].stale = {} /\ sweep[c].todo = {} /\ sweep[c].stale = {}
        /\ sweep'[c].at = "ok" /\ sweep[c].at = "delete" /\ UNCHANGED tip
        /\ sweep'[c].clock = sweep[c].clock /\ sweep'[c].age = sweep[c].age
    BY <1>1, <1>8 DEF FinishSweep, Sweep, SweepInv
  <2> QED
    BY <1>1, <2>1 DEF SweepInv, Pushed, Stale, IsSnapshot
<1> QED
  BY <1>3, <1>4, <1>5, <1>6, <1>7, <1>8 DEF SweepStep

LEMMA SweepStepKeepsIInv == ASSUME IInv, TypeOK', NEW c \in Sweeps, SweepStep(c) PROVE IInv'
<1>1. ASSUME NEW e \in Sweeps PROVE SweepInv(e)'
  <2>1. CASE e = c
    BY <2>1, SweepStepKeepsOwn
  <2>2. CASE e # c
    BY <2>2, SweepStepEffect, SweepStepKeepsOthers
  <2> QED
    BY <2>1, <2>2
<1> QED
  BY <1>1, SweepStepKeepsCliInv, SweepStepKeepsTipInv DEF IInv

-----------------------------------------------------------------------------
\* The bookkeeping of refs, CLIs and cleanups holds whatever they do: the
\* inductive invariant of SnapshotRefs.
THEOREM RefsBookkeeping == Spec => []IInv
<1>1. IInv /\ [Next]_vars => IInv'
  <2> SUFFICES ASSUME IInv, [Next]_vars PROVE IInv'
    OBVIOUS
  <2>1. TypeOK'
    BY TypeStep DEF IInv
  <2>2. CASE Tick
    BY <2>1, <2>2, TickKeepsIInv
  <2>3. ASSUME NEW b \in Builds, CliStep(b) PROVE IInv'
    BY <2>1, <2>3, CliStepKeepsIInv
  <2>4. ASSUME NEW c \in Sweeps, SweepStep(c) PROVE IInv'
    BY <2>1, <2>4, SweepStepKeepsIInv
  <2>5. CASE UNCHANGED vars
    BY <2>5 DEF vars, IInv, TypeOK, CliInv, TipInv, SweepInv, Alive, IsSnapshot, Deadline, Pushed, Stale
  <2> QED
    BY <2>2, <2>3, <2>4, <2>5 DEF Next
<1> QED
  BY <1>1, InitEstablishesIInv, PTL DEF Spec

\* `builder cleanup` deletes only marked snapshots of CLIs that have left, from
\* any number of clones and however old its listing is (ListStale, DeleteLease).
THEOREM CleanupSparesLiveAlways == Spec => CleanupSparesLive
<1> DEFINE Spares == \A c \in Sweeps : sweep'[c] # sweep[c] =>
          \A i \in Ids : tip'[i] # tip[i] => IsSnapshot(tip[i]) /\ cli[tip[i]].at = "left"
<1>1. IInv /\ [Next]_vars => [Spares]_vars
  <2> SUFFICES ASSUME IInv, Next, NEW c \in Sweeps, sweep'[c] # sweep[c],
                      NEW i \in Ids, tip'[i] # tip[i]
               PROVE  IsSnapshot(tip[i]) /\ cli[tip[i]].at = "left"
    BY DEF Spares
  <2>1. CASE Tick
    BY <2>1 DEF Tick
  <2>2. ASSUME NEW b \in Builds, CliStep(b) PROVE FALSE
    BY <2>2 DEF CliStep, Begin, Create, Push, PushForeign, Leave, Abandon
  <2>3. ASSUME NEW e \in Sweeps, SweepStep(e) PROVE IsSnapshot(tip[i]) /\ cli[tip[i]].at = "left"
    BY <2>3, SweepStepEffect
  <2> QED
    BY <2>1, <2>2, <2>3 DEF Next
<1> QED
  BY <1>1, RefsBookkeeping, PTL DEF Spec, CleanupSparesLive

\* A cleanup that reports success has removed everything that was stale when it
\* started (Cleanup and ListStale return the first error they meet).
THEOREM CleanupIsCompleteAlways == Spec => []CleanupIsComplete
<1>1. IInv => CleanupIsComplete
  <2> SUFFICES ASSUME IInv, NEW c \in Sweeps, NEW i \in Ids, sweep[c].at = "ok", tip[i] # NoCommit, Stale(c, tip[i])
               PROVE  FALSE
    BY DEF CleanupIsComplete
  <2>1. SweepInv(c)
    BY DEF IInv
  <2>2. sweep[c].todo = {} /\ sweep[c].stale = {}
    BY <2>1 DEF SweepInv
  <2> QED
    BY <2>1, <2>2 DEF SweepInv
<1> QED
  BY <1>1, RefsBookkeeping, PTL

\* A CLI that leaves takes no commit but its own with it (deleteSnapshot of the
\* repository build and deleteSnapshotLease of the central one).
THEOREM ReleasesOwnAlways == Spec => ReleasesOwn
<1> DEFINE Own == \A b \in Builds : cli'[b] # cli[b] =>
          \A i \in Ids : tip'[i] # tip[i] => tip[i] \in {NoCommit, b}
<1>1. IInv /\ IInv' /\ [Next]_vars => [Own]_vars
  <2> SUFFICES ASSUME IInv, IInv', Next, NEW b \in Builds, cli'[b] # cli[b],
                      NEW i \in Ids, tip'[i] # tip[i]
               PROVE  tip[i] \in {NoCommit, b}
    BY DEF Own
  <2>1. CASE Tick
    BY <2>1 DEF Tick
  <2>2. ASSUME NEW d \in Builds, CliStep(d) PROVE tip[i] \in {NoCommit, b}
    <3>1. TypeOK'
      BY DEF IInv
    <3>2. \A e \in Builds \ {d} : cli'[e] = cli[e]
      BY <2>2, <3>1, CliStepEffect
    <3>3. d = b
      BY <3>2
    <3>4. \A j \in Ids \ {cli[b].id} : tip'[j] = tip[j]
      BY <2>2, <3>1, <3>3, CliStepEffect
    <3>5. tip'[cli[b].id] = tip[cli[b].id] \/ tip[cli[b].id] \in {NoCommit, b}
      BY <2>2, <3>1, <3>3, CliStepEffect
    <3> QED
      BY <3>4, <3>5
  <2>3. ASSUME NEW c \in Sweeps, SweepStep(c) PROVE FALSE
    BY <2>3 DEF SweepStep, StartSweep, ListRemote, Inspect, DeleteLease, SweepFails, FinishSweep
  <2> QED
    BY <2>1, <2>2, <2>3 DEF Next
<1> QED
  BY <1>1, RefsBookkeeping, PTL DEF Spec, ReleasesOwn
=============================================================================
