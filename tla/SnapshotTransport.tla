-------------------------- MODULE SnapshotTransport --------------------------
(***************************************************************************)
(* What a private snapshot contains (internal/snapshot, internal/transport *)
(* and internal/runner/snapshot_transport.go).  The CLI commits the        *)
(* working tree with every large regular file replaced by chunks of a      *)
(* reserved namespace and a manifest of them; the central workflow checks  *)
(* the commit out with a short-lived token, gives the token back and puts  *)
(* the files together again before any project code runs.  The workflows   *)
(* of a repository build check the commit out and run.                     *)
(*                                                                         *)
(* Contents are sequences of units, a digest is the content itself, paths  *)
(* are opaque: names, parents and links between them are left out.         *)
(***************************************************************************)
EXTENDS Naturals, FiniteSets, Sequences, SequencesExt

CONSTANTS
    Paths,         \* what a working tree may contain
    Reserved,      \* those of them under .ios-builder-transport
    Units, Files,  \* what contents are made of; [mode, data]: the files a path may be
    Threshold, ChunkSize,    \* LargeFileThreshold and ChunkSize
    BlobLimit,     \* the largest blob the remote takes
    MaxFiles, MaxChunks, MaxBytes,    \* the limits of the restoration
    Backends, None

ASSUME TransportAssumption ==
    /\ {Threshold, ChunkSize, BlobLimit, MaxFiles, MaxChunks, MaxBytes} \subseteq Nat \ {0}
    /\ ChunkSize <= Threshold /\ Threshold <= BlobLimit
    /\ Reserved \subseteq Paths /\ Backends \subseteq {"central", "repository"}
\* The target of a link is short; no path is the path of a chunk.
ASSUME FilesAssumption ==
    /\ Files \subseteq [mode : {"file", "exec", "link"}, data : Seq(Units)]
    /\ \A f \in Files : f.mode = "link" => Len(f.data) <= BlobLimit
    /\ Paths \cap (Paths \X Nat) = {}

VARIABLES
    backend, working, oversized,    \* inputs: the tree, and whether HEAD brings an unpushed blob over the limit
    index, todo, manifest,        \* the temporary index, its large files not yet split
    pushed,                       \* the commit of the ref
    source, restoring,            \* the checkout, the manifest's files not yet restored
    credential, persisted,        \* the installation token, and whether .git/config has it
    pc

inputs == <<backend, working, oversized>>
cli == <<index, todo, manifest, pushed>>
job == <<source, restoring, credential, persisted>>
vars == <<inputs, cli, job, pc>>

Empty == [p \in {} |-> None]
Size(entry) == Len(entry.data)
Total(sizes) == FoldSeq(LAMBDA a, b : a + b, 0, sizes)

Init ==
    /\ backend \in Backends /\ oversized \in BOOLEAN
    /\ \E P \in SUBSET Paths : working \in [P -> Files]
    /\ index = Empty /\ todo = {} /\ manifest = <<>> /\ pushed = None
    /\ source = Empty /\ restoring = <<>> /\ credential = "none" /\ persisted = FALSE
    /\ pc = "create"

(***************************************************************************)
(* The CLI.                                                                *)
(***************************************************************************)
\* A variant: the threshold itself is large.
LargeFrom(entry) == entry.mode \in {"file", "exec"} /\ Size(entry) >= Threshold
Large(entry) == entry.mode \in {"file", "exec"} /\ Size(entry) > Threshold

\* Create: read-tree and add -A; the reserved namespace is refused.
Create ==
    /\ pc = "create" /\ index' = working
    /\ IF DOMAIN working \cap Reserved = {}
       THEN pc' = "split" /\ todo' = {p \in DOMAIN working : Large(working[p])}
       ELSE pc' = "refused" /\ todo' = {}
    /\ UNCHANGED <<inputs, manifest, pushed, job>>

Parts(n) == (n + ChunkSize - 1) \div ChunkSize
Part(data, k) == SubSeq(data, (k - 1) * ChunkSize + 1, IF k * ChunkSize < Len(data) THEN k * ChunkSize ELSE Len(data))
Chunks(p) == [k \in 1..Parts(Size(index[p])) |-> [path |-> <<p, k>>, sha |-> Part(index[p].data, k)]]
DescribedPlain(p) == [path |-> p, exec |-> FALSE, sha |-> index[p].data, chunks |-> Chunks(p)]    \* a variant
Described(p) == [path |-> p, exec |-> index[p].mode = "exec", sha |-> index[p].data, chunks |-> Chunks(p)]
ChunkPaths(chunks) == {chunks[k].path : k \in DOMAIN chunks}

\* splitBlob of one large file: its entry makes way for its chunks.
SplitBlob(p) ==
    /\ pc = "split" /\ p \in todo /\ todo' = todo \ {p}
    /\ manifest' = Append(manifest, Described(p))
    /\ index' = [q \in (DOMAIN index \ {p}) \cup ChunkPaths(Chunks(p)) |->
                   IF q \in DOMAIN index THEN index[q] ELSE [mode |-> "file", data |-> Chunks(p)[q[2]].sha]]
    /\ UNCHANGED <<inputs, pushed, job, pc>>

\* The commit with its manifest, and the push, which takes HEAD's history along.
Push ==
    /\ pc = "split" /\ todo = {}
    /\ IF oversized \/ \E q \in DOMAIN index : Size(index[q]) > BlobLimit
       THEN pc' = "rejected" /\ pushed' = None
       ELSE pc' = "pushed" /\ pushed' = [tree |-> index, manifest |-> manifest]
    /\ UNCHANGED <<inputs, index, todo, manifest, job>>

(***************************************************************************)
(* The workflows.                                                          *)
(***************************************************************************)
\* ios-build.yml and ios-share.yml of a project's own repository.
CheckoutSnapshot ==
    /\ pc = "pushed" /\ backend = "repository" /\ source' = pushed.tree /\ pc' = "code"
    /\ UNCHANGED <<inputs, cli, restoring, credential, persisted>>

CreateToken ==
    /\ pc = "pushed" /\ backend = "central" /\ credential' = "live" /\ pc' = "checkout"
    /\ UNCHANGED <<inputs, cli, source, restoring, persisted>>

\* The checkout may fail, and may leave the token in .git/config either way.
Checkout ==
    /\ pc = "checkout" /\ persisted' \in BOOLEAN
    /\ \/ source' = pushed.tree /\ restoring' = pushed.manifest /\ pc' = "revoke"
       \/ UNCHANGED <<source, restoring>> /\ pc' = "abandon"
    /\ UNCHANGED <<inputs, cli, credential>>

\* A variant that revokes the token of a successful checkout only.
RevokeOnSuccess ==
    /\ \/ pc = "revoke" /\ credential' = "revoked" /\ pc' = "verify"
       \/ pc = "revoke" /\ credential' = "kept" /\ pc' = "failed"
       \/ pc = "abandon" /\ credential' = credential /\ pc' = "failed"
    /\ UNCHANGED <<inputs, cli, source, restoring, persisted>>

\* "if: always()": the token is revoked whatever became of the checkout; a
\* revocation that fails fails the job.
RevokeInstallationToken ==
    /\ pc \in {"revoke", "abandon"}
    /\ \/ credential' = "revoked" /\ pc' = IF pc = "revoke" THEN "verify" ELSE "failed"
       \/ credential' = "kept" /\ pc' = "failed"
    /\ UNCHANGED <<inputs, cli, source, restoring, persisted>>

VerifyCheckoutNoCredentials ==
    /\ pc = "verify" /\ pc' = IF persisted THEN "failed" ELSE "manifest"
    /\ UNCHANGED <<inputs, cli, job>>

Distinct(paths) == Cardinality({paths[i] : i \in DOMAIN paths}) = Len(paths)

ReadManifest ==
    /\ pc = "manifest"
    /\ pc' = IF restoring = <<>> THEN "code" ELSE IF Len(restoring) > MaxFiles THEN "unrestorable" ELSE "restore"
    /\ UNCHANGED <<inputs, cli, job>>

\* What RestoreLargeSnapshotFiles and restoreTransportFile check of the file
\* that is next, and of the files up to it.
Upto == SubSeq(pushed.manifest, 1, Len(pushed.manifest) - Len(restoring) + 1)
WithinLimits ==
    /\ Total([i \in DOMAIN Upto |-> Len(Upto[i].sha)]) <= MaxBytes
    /\ Total([i \in DOMAIN Upto |-> Len(Upto[i].chunks)]) <= MaxChunks
ValidateTransportPath(q, chunk) == IF chunk THEN q \in Paths \X Nat ELSE q \in Paths \ Reserved
ChunkMatches(chunk) ==
    /\ ValidateTransportPath(chunk.path, TRUE) /\ Len(chunk.sha) \in 1..ChunkSize
    /\ chunk.path \in DOMAIN source /\ source[chunk.path].data = chunk.sha
Restorable(file) ==
    /\ ValidateTransportPath(file.path, FALSE) /\ file.path \notin DOMAIN source
    /\ Len(file.sha) > Threshold /\ file.chunks # <<>> /\ WithinLimits
    /\ Distinct(FlattenSeq([i \in DOMAIN Upto |-> [k \in DOMAIN Upto[i].chunks |-> Upto[i].chunks[k].path]]))
    /\ \A k \in DOMAIN file.chunks : ChunkMatches(file.chunks[k])
    /\ FlattenSeq([k \in DOMAIN file.chunks |-> source[file.chunks[k].path].data]) = file.sha

RestoreTransportFile ==
    LET file == Head(restoring) IN
    /\ pc = "restore" /\ restoring # <<>>
    /\ IF Restorable(file)
       THEN /\ source' = [q \in DOMAIN source \cup {file.path} |->
                           IF q = file.path THEN [mode |-> IF file.exec THEN "exec" ELSE "file", data |-> file.sha] ELSE source[q]]
            /\ restoring' = Tail(restoring) /\ pc' = pc
       ELSE pc' = "unrestorable" /\ UNCHANGED <<source, restoring>>
    /\ UNCHANGED <<inputs, cli, credential, persisted>>

\* The transport directory goes last.
RemoveTransport ==
    /\ pc = "restore" /\ restoring = <<>> /\ pc' = "code"
    /\ source' = [q \in DOMAIN source \cap Paths |-> source[q]]
    /\ UNCHANGED <<inputs, cli, restoring, credential, persisted>>

\* Any command of Git and any file operation may fail.
Fail ==
    /\ pc \in {"create", "split", "pushed", "verify", "manifest", "restore"} /\ pc' = "failed"
    /\ UNCHANGED <<inputs, cli, job>>

Next ==
    \/ Create \/ (\E p \in Paths : SplitBlob(p)) \/ Push
    \/ CheckoutSnapshot \/ CreateToken \/ Checkout \/ RevokeInstallationToken \/ VerifyCheckoutNoCredentials
    \/ ReadManifest \/ RestoreTransportFile \/ RemoveTransport \/ Fail

Spec == Init /\ [][Next]_vars

(***************************************************************************)
(* Properties.                                                             *)
(***************************************************************************)

\* Project code of a central build sees the working tree that was snapshotted:
\* every file with its content and mode, and nothing of the transport; so does
\* the code of a repository build when nothing was split.
CodeSeesWorkingTree == pc = "code" /\ (backend = "central" \/ manifest = <<>>) => source = working

\* The same of every build: "Snapshot the working tree so the build matches what's on disk" (coordinator.go:145).
EveryCodeSeesWorkingTree == pc = "code" => source = working

\* The remote refuses a snapshot for a large blob only because of HEAD's history.
BlobsAccepted == pc = "rejected" => oversized

\* A snapshot of this CLI is refused by the remote only for HEAD's history, and by
\* the runner only for its own limits, which the CLI does not know.
RefusedForLimits ==
    /\ BlobsAccepted
    /\ pc = "unrestorable" => Len(pushed.manifest) > MaxFiles \/ ~WithinLimits

\* Project code runs without the token in reach; and a failed job leaves no live
\* token but one whose revocation was refused.
CredentialEnds ==
    /\ pc = "code" /\ backend = "central" => credential = "revoked" /\ ~persisted
    /\ pc \in {"failed", "unrestorable"} => credential # "live"
=============================================================================
