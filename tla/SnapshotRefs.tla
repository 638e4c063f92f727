---------------------------- MODULE SnapshotRefs ----------------------------
(***************************************************************************)
(* The snapshot refs of the private repository: CLIs push one each and     *)
(* remove it when they leave, and `builder cleanup`, run at any time from  *)
(* any clone, removes those that were left behind.  From                   *)
(* internal/snapshot/snapshot.go and cmd/builder/cleanup.go, with the three*)
(* ways a CLI treats its own ref (central.go, coordinator.go, share.go).   *)
(*                                                                         *)
(* Staleness is decided from commit timestamps, so here time is measured:  *)
(* `now` ticks, and the clocks of two machines are at most Skew apart.     *)
(***************************************************************************)
EXTENDS Integers

CONSTANTS
    Builds,         \* invocations that push; a commit is named by the one that made it
    Ids,            \* build IDs, each the name of one ref
    Sweeps,         \* invocations of `builder cleanup`
    NoCommit,       \* what a ref that does not exist points to
    Timeout,        \* the longest a CLI lives, its deferred cleanup included
    OlderThan,      \* the values users give to --older-than
    DefaultMaxAge,
    Skew,
    MaxTime         \* bound of the model: time stops here

\* A non-positive age means the default one.
MaxAge(olderThan) == IF olderThan <= 0 THEN DefaultMaxAge ELSE olderThan

ASSUME CommitAssumption == NoCommit \notin Builds
ASSUME TimeAssumption == Timeout \in Nat /\ Skew \in Nat /\ DefaultMaxAge \in Nat /\ OlderThan \subseteq Int
\* Nobody asks for snapshots that a CLI may still be waiting on: the default is
\* 24 hours, the longest default timeout of a command 3 hours.
ASSUME AgeAssumption == \A a \in OlderThan : MaxAge(a) > Timeout + Skew

VARIABLES
    now,
    tip,    \* build ID -> the commit its ref points to, or NoCommit
    cli,    \* build -> the CLI and the commit it makes
    sweep   \* cleanup -> its progress

vars == <<now, tip, cli, sweep>>

(***************************************************************************)
(* "foreign" is a commit somebody pushed under a snapshot's name that does *)
(* not carry the subject "ios-builder snapshot ID".                        *)
(***************************************************************************)
Kinds == {"central", "repository", "share", "foreign"}
Cli == [kind : Kinds, id : Ids, started : Nat, made : Nat,
        at : {"idle", "started", "committed", "waiting", "left"}]
Inspected == Ids \X Builds
Sweep == [at : {"idle", "started", "inspect", "delete", "ok", "failed"},
          clock : Int, age : Int, todo : SUBSET Inspected, stale : SUBSET Inspected]

\* The type invariant.
TypeOK ==
    /\ now \in Nat
    /\ tip \in [Ids -> Builds \cup {NoCommit}]
    /\ cli \in [Builds -> Cli]
    /\ sweep \in [Sweeps -> Sweep]

Init ==
    /\ now = 0
    /\ tip = [i \in Ids |-> NoCommit]
    /\ cli \in [Builds -> [kind : Kinds, id : Ids, started : {0}, made : {0}, at : {"idle"}]]
    /\ sweep = [c \in Sweeps |-> [at |-> "idle", clock |-> 0, age |-> 0, todo |-> {}, stale |-> {}]]

-----------------------------------------------------------------------------
Alive(b) == cli[b].at \in {"started", "committed", "waiting"}
Deadline(b) == cli[b].started + Timeout
IsSnapshot(b) == cli[b].kind # "foreign"

\* Time passes, but not beyond the deadline of a CLI that is still there.
Tick ==
    /\ now < MaxTime
    /\ \A b \in Builds : Alive(b) => now < Deadline(b)
    /\ now' = now + 1
    /\ UNCHANGED <<tip, cli, sweep>>

Begin(b) ==
    /\ cli[b].at = "idle" /\ IsSnapshot(b)
    /\ cli' = [cli EXCEPT ![b].at = "started", ![b].started = now]
    /\ UNCHANGED <<now, tip, sweep>>

\* commit-tree stamps the commit with the time of the machine it runs on.
Create(b) ==
    /\ cli[b].at = "started"
    /\ cli' = [cli EXCEPT ![b].at = "committed", ![b].made = now]
    /\ UNCHANGED <<now, tip, sweep>>

\* Mutant: the push is forced.
ForcePush(b) ==
    /\ cli[b].at = "committed"
    /\ tip' = [tip EXCEPT ![cli[b].id] = b]
    /\ cli' = [cli EXCEPT ![b].at = "waiting"]
    /\ UNCHANGED <<now, sweep>>

\* A plain push: a ref that exists rejects it, since no snapshot descends from
\* another.  A push whose answer is lost leaves a ref that nobody will remove.
Push(b) ==
    /\ cli[b].at = "committed"
    /\ tip[cli[b].id] = NoCommit
    /\ tip' = [tip EXCEPT ![cli[b].id] = b]
    /\ \E next \in {"waiting", "left"} : cli' = [cli EXCEPT ![b].at = next]
    /\ UNCHANGED <<now, sweep>>

PushForeign(b) ==
    /\ cli[b].at = "idle" /\ ~IsSnapshot(b)
    /\ tip[cli[b].id] = NoCommit
    /\ tip' = [tip EXCEPT ![cli[b].id] = b]
    /\ cli' = [cli EXCEPT ![b].at = "left", ![b].made = now]
    /\ UNCHANGED <<now, sweep>>

\* What each kind of CLI does to its ref on the way out: the central build
\* deletes it if it still holds its commit, the repository build whatever it
\* holds, a share leaves it to its run.
Released(b) ==
    CASE cli[b].kind = "central" -> IF tip[cli[b].id] = b THEN NoCommit ELSE tip[cli[b].id]
      [] cli[b].kind = "repository" -> NoCommit
      [] OTHER -> tip[cli[b].id]

\* The build ends, is interrupted or times out.
Leave(b) ==
    /\ cli[b].at = "waiting"
    /\ tip' = [tip EXCEPT ![cli[b].id] = Released(b)]
    /\ cli' = [cli EXCEPT ![b].at = "left"]
    /\ UNCHANGED <<now, sweep>>

\* It fails before its push, or is killed, or cannot delete its ref.
Abandon(b) ==
    /\ Alive(b)
    /\ cli' = [cli EXCEPT ![b].at = "left"]
    /\ UNCHANGED <<now, tip, sweep>>

CliStep(b) == \/ Begin(b) \/ Create(b) \/ Push(b) \/ PushForeign(b) \/ Leave(b) \/ Abandon(b)

-----------------------------------------------------------------------------
\* runCleanup reads the clock once, before it asks for the refs.
StartSweep(c) ==
    /\ sweep[c].at = "idle"
    /\ \E a \in OlderThan, skew \in -Skew..Skew :
          sweep' = [sweep EXCEPT ![c].at = "started", ![c].clock = now + skew, ![c].age = MaxAge(a)]
    /\ UNCHANGED <<now, tip, cli>>

\* ls-remote: each ref with the commit it points to at that moment.
ListRemote(c) ==
    /\ sweep[c].at = "started"
    /\ LET listing == {p \in Inspected : tip[p[1]] = p[2]} IN
       sweep' = [sweep EXCEPT ![c].todo = listing,
                              ![c].at = IF listing = {} THEN "ok" ELSE "inspect"]
    /\ UNCHANGED <<now, tip, cli>>

Stale(c, b) == IsSnapshot(b) /\ sweep[c].clock - cli[b].made >= sweep[c].age

\* The commit is in the local object database or is fetched; what it says of
\* itself decides.
Inspect(c) ==
    /\ sweep[c].at = "inspect"
    /\ \E p \in sweep[c].todo :
          sweep' = [sweep EXCEPT ![c].todo = @ \ {p},
                                 ![c].stale = IF Stale(c, p[2]) THEN @ \cup {p} ELSE @,
                                 ![c].at = IF sweep[c].todo = {p} THEN "delete" ELSE "inspect"]
    /\ UNCHANGED <<now, tip, cli>>

\* Mutant: the ref is deleted whatever it points to by now.
DeleteAnyway(c) ==
    /\ sweep[c].at = "delete"
    /\ \E p \in sweep[c].stale :
          /\ tip' = [tip EXCEPT ![p[1]] = NoCommit]
          /\ sweep' = [sweep EXCEPT ![c].stale = @ \ {p}]
    /\ UNCHANGED <<now, cli>>

\* push --force-with-lease: only while the ref holds the inspected commit.
DeleteLease(c) ==
    /\ sweep[c].at = "delete"
    /\ \E p \in sweep[c].stale :
          /\ tip[p[1]] = p[2]
          /\ tip' = [tip EXCEPT ![p[1]] = NoCommit]
          /\ sweep' = [sweep EXCEPT ![c].stale = @ \ {p}]
    /\ UNCHANGED <<now, cli>>

\* Mutant: a cleanup that met an error reports success.
IgnoreErrors(c) ==
    /\ sweep[c].at \in {"started", "inspect", "delete"}
    /\ sweep' = [sweep EXCEPT ![c].at = "ok"]
    /\ UNCHANGED <<now, tip, cli>>

\* The first error ends the cleanup: a ref that is gone or was replaced, the
\* network, or a deletion whose answer is lost.
SweepFails(c) ==
    /\ sweep[c].at \in {"started", "inspect", "delete"}
    /\ sweep' = [sweep EXCEPT ![c].at = "failed"]
    /\ \/ UNCHANGED tip
       \/ /\ sweep[c].at = "delete"
          /\ \E p \in sweep[c].stale : tip[p[1]] = p[2] /\ tip' = [tip EXCEPT ![p[1]] = NoCommit]
    /\ UNCHANGED <<now, cli>>

FinishSweep(c) ==
    /\ sweep[c].at = "delete" /\ sweep[c].stale = {}
    /\ sweep' = [sweep EXCEPT ![c].at = "ok"]
    /\ UNCHANGED <<now, tip, cli>>

SweepStep(c) == \/ StartSweep(c) \/ ListRemote(c) \/ Inspect(c) \/ DeleteLease(c)
                \/ SweepFails(c) \/ FinishSweep(c)

Next == \/ Tick
        \/ \E b \in Builds : CliStep(b)
        \/ \E c \in Sweeps : SweepStep(c)

Spec == Init /\ [][Next]_vars

-----------------------------------------------------------------------------
(***************************************************************************)
(* Properties                                                              *)
(***************************************************************************)
\* `builder cleanup` removes abandoned snapshots and nothing else: what it
\* deletes carries the snapshot marker and was pushed by a CLI that has left,
\* even though the decision was taken from a clock read and a listing made
\* earlier (ListStale and DeleteLease).
CleanupSparesLive ==
    [][\A c \in Sweeps : sweep'[c] # sweep[c] =>
          \A i \in Ids : tip'[i] # tip[i] => IsSnapshot(tip[i]) /\ cli[tip[i]].at = "left"]_vars

\* A cleanup that reports success has removed every snapshot that was stale
\* when it started (Cleanup returns the first error instead of skipping a ref).
CleanupIsComplete ==
    \A c \in Sweeps, i \in Ids :
        sweep[c].at = "ok" /\ tip[i] # NoCommit => ~Stale(c, tip[i])

\* A CLI that leaves takes away no commit but its own, although the repository
\* build deletes its ref without looking (deleteSnapshot in coordinator.go).
ReleasesOwn ==
    [][\A b \in Builds : cli'[b] # cli[b] =>
          \A i \in Ids : tip'[i] # tip[i] => tip[i] \in {NoCommit, b}]_vars

\* "The next build prunes old refs" (internal/build/share.go:67): once a build
\* that started a day after a share was pushed has left, the share's ref is gone.
NextBuildPrunesOldRefs ==
    \A b \in Builds, s \in Builds :
        /\ cli[b].kind \in {"central", "repository"} /\ cli[b].at = "left"
        /\ cli[s].kind = "share" /\ cli[s].at = "left"
        /\ cli[b].started - cli[s].made >= DefaultMaxAge
        => tip[cli[s].id] # s

-----------------------------------------------------------------------------
(***************************************************************************)
(* The inductive invariant behind the three properties that hold.          *)
(***************************************************************************)
Pushed(b, i) == cli[b].id = i /\ cli[b].at \in {"waiting", "left"}

\* A CLI that is still there is within its deadline, made its commit after it
\* began, and its ref holds that commit from the push on.
CliInv(b) ==
    /\ Alive(b) => IsSnapshot(b) /\ cli[b].started <= now /\ now <= Deadline(b)
    /\ cli[b].at \in {"committed", "waiting"} => cli[b].started <= cli[b].made /\ cli[b].made <= now
    /\ cli[b].at = "waiting" => tip[cli[b].id] = b

\* A ref points to a commit pushed under its own name.
TipInv(i) == tip[i] # NoCommit => Pushed(tip[i], i)

\* A cleanup deletes only what it found stale, and has in hand everything that
\* was stale when it listed the refs and is still there.
SweepInv(c) ==
    /\ sweep[c].at # "idle" => sweep[c].clock <= now + Skew /\ sweep[c].age > Timeout + Skew
    /\ sweep[c].at \in {"idle", "started"} => sweep[c].todo = {} /\ sweep[c].stale = {}
    /\ sweep[c].at \in {"delete", "ok"} => sweep[c].todo = {}
    /\ sweep[c].at = "ok" => sweep[c].stale = {}
    /\ \A p \in sweep[c].todo \cup sweep[c].stale : Pushed(p[2], p[1])
    /\ \A p \in sweep[c].stale : Stale(c, p[2])
    /\ sweep[c].at \in {"inspect", "delete", "ok"} =>
          \A i \in Ids : tip[i] # NoCommit /\ Stale(c, tip[i])
                            => <<i, tip[i]>> \in sweep[c].todo \cup sweep[c].stale

IInv == /\ TypeOK
        /\ \A b \in Builds : CliInv(b)
        /\ \A i \in Ids : TipInv(i)
        /\ \A c \in Sweeps : SweepInv(c)
=============================================================================
