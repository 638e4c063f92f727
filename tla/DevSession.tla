------------------------------- MODULE DevSession -------------------------------
(***************************************************************************)
(* A development session (internal/dev, internal/mobai/client.go and the   *)
(* dev commands of cmd/builder): the application is installed and launched *)
(* on a device, its output is read, and, for Flutter, `flutter attach`     *)
(* runs with its input multiplexed between the terminal and the reloads    *)
(* that a file watcher asks for.                                           *)
(*                                                                         *)
(* Actors: the command, the goroutine that waits for Ctrl+C, the reader of *)
(* the debug stream, the reader of flutter's output, the two writers and   *)
(* the one reader of the input pipe, the watcher and its timer; outside,   *)
(* the user, the application and flutter.  When the command returns, or a  *)
(* goroutine panics, every actor is gone.                                  *)
(***************************************************************************)
EXTENDS Naturals, Sequences

CONSTANTS
    Sessions,    \* records: the framework, --no-attach or not, the keys typed, the edits, a polling watcher, new directories
    QueueSize,   \* the buffer of StdinMux.cmdChan
    MaxOutput    \* what the application prints

ASSUME BoundsAssumption ==
    /\ {QueueSize, MaxOutput} \subseteq Nat /\ QueueSize > 0
    /\ Sessions \subseteq [kind : {"flutter", "reactnative", "kmp"}, attach : BOOLEAN, keys : Nat, edits : Nat,
                     polling : BOOLEAN, creates : BOOLEAN]

VARIABLES
    session,
    main,                       \* where the command is
    sig, cancelled,             \* the waiter for Ctrl+C, and the context
    stopping,                   \* the calls of Session.Stop, by caller
    conn, known, stream, inbox, \* the debug connection, whether the session has it, its reader, the channel
    flutter, launched,          \* flutter attach, and whether its output has shown that it is ready
    muxed, done, pipe, queue,   \* StdinMux
    writer, copier,             \* who is writing what to the pipe, and who reads it
    watcher, closed, timer,     \* the watcher, its done channel and its debounce timer
    pending, edits,             \* a change the watcher has yet to handle, the edits so far
    owed,                       \* an edit made under watch that no reload has followed
    keys, printed, panicked

calls == <<session, main, sig, cancelled, stopping>>
device == <<conn, known, stream, inbox, printed>>
attach == <<flutter, launched, muxed, done, pipe, queue, writer, copier, keys>>
watch == <<watcher, closed, timer, pending, edits, owed>>
vars == <<calls, device, attach, watch, panicked>>

Callers == {"command", "interrupt"}
Writers == {"commands", "terminal"}
Flutter == session.kind = "flutter"
Over == main = "over" \/ panicked

Init ==
    /\ session \in Sessions /\ main = "setup"
    /\ sig = "waiting" /\ cancelled = FALSE /\ stopping = [c \in Callers |-> "no"]
    /\ conn = "none" /\ known = FALSE /\ stream = "none" /\ inbox = <<>> /\ printed = 0
    /\ flutter = "none" /\ launched = FALSE /\ muxed = FALSE /\ done = FALSE /\ pipe = "open" /\ queue = <<>>
    /\ writer = [w \in Writers |-> "none"] /\ copier = "none" /\ keys = 0
    /\ watcher = "none" /\ closed = FALSE /\ timer = "off" /\ pending = FALSE /\ edits = 0 /\ owed = FALSE
    /\ panicked = FALSE

(***************************************************************************)
(* The command.                                                            *)
(***************************************************************************)
\* A call under the context succeeds, or fails; it fails once it is cancelled.
Call(from, to) ==
    /\ main = from /\ main' \in {"return"} \cup (IF cancelled THEN {} ELSE {to})
    /\ UNCHANGED <<session, sig, cancelled, stopping>>

\* Setup only warns, and with --skip-install nothing is called before the dial.
Setup ==
    /\ main = "setup" /\ main' = "connect"
    /\ UNCHANGED <<session, sig, cancelled, stopping, device, attach, watch, panicked>>
ConnectDevice == Call("connect", "install") /\ UNCHANGED <<device, attach, watch, panicked>>
InstallApp ==
    /\ \/ Call("install", "dial")
       \/ main = "install" /\ main' = "dial" /\ UNCHANGED <<session, sig, cancelled, stopping>>
    /\ UNCHANGED <<device, attach, watch, panicked>>

\* DebugStream returns a connection whose reader is already running; launchApp
\* stores it a moment later.
DebugStream ==
    /\ Call("dial", "launched")
    /\ IF main' = "launched" THEN conn' = "open" /\ stream' = "check" ELSE UNCHANGED <<conn, stream>>
    /\ UNCHANGED <<known, inbox, printed, attach, watch, panicked>>
LaunchApp ==
    /\ main = "launched" /\ known' = TRUE /\ main' = IF Flutter THEN "find" ELSE "range"
    /\ UNCHANGED <<session, sig, cancelled, stopping, conn, stream, inbox, printed, attach, watch, panicked>>

Receive == inbox # <<>> /\ inbox' = Tail(inbox)
StreamClosed == stream = "gone" /\ inbox = <<>>

\* findDebugURL: 30 seconds, the context, or what the application prints.
FindDebugURL ==
    /\ main = "find"
    /\ \/ main' = "return" /\ UNCHANGED inbox
       \/ Receive /\ main' = CASE Head(inbox) = "url" -> "attach" [] Head(inbox) = "error" -> "return" [] OTHER -> "find"
    /\ UNCHANGED <<session, sig, cancelled, stopping, conn, known, stream, printed, attach, watch, panicked>>

\* runFlutterAttach, first part: the multiplexer and its goroutines.
Attach ==
    /\ main = "attach"
    /\ IF session.attach
       THEN /\ main' = "start" /\ muxed' = TRUE /\ writer' = [w \in Writers |-> "idle"]
       ELSE main' = "return" /\ UNCHANGED <<muxed, writer>>
    /\ UNCHANGED <<session, sig, cancelled, stopping, device, flutter, launched, done, pipe, queue, copier, keys, watch, panicked>>

\* cmd.Start: with an input that is no file, a goroutine of os/exec copies it.
StartFlutter ==
    /\ Call("start", "wait")
    /\ IF main' = "wait" THEN flutter' = "running" /\ copier' = "reading" ELSE UNCHANGED <<flutter, copier>>
    /\ UNCHANGED <<device, launched, muxed, done, pipe, queue, writer, keys, watch, panicked>>

\* cmd.Wait returns when flutter has exited and its input is copied.
WaitFlutter ==
    /\ main = "wait" /\ flutter = "exited" /\ copier = "gone" /\ main' = "return"
    /\ UNCHANGED <<session, sig, cancelled, stopping, device, attach, watch, panicked>>

\* Attach of React Native and Kotlin: until exit, a failed launch or the end.
RangeOutput ==
    /\ main = "range"
    /\ \/ Receive /\ main' = IF Head(inbox) \in {"exit", "failed"} THEN "return" ELSE "range"
       \/ StreamClosed /\ main' = "return" /\ UNCHANGED inbox
    /\ UNCHANGED <<session, sig, cancelled, stopping, conn, known, stream, printed, attach, watch, panicked>>

Return ==
    /\ main = "return" /\ main' = "stop" /\ stopping' = [stopping EXCEPT !["command"] = "begin"]
    /\ UNCHANGED <<session, sig, cancelled, device, attach, watch, panicked>>
Exit ==
    /\ main = "stop" /\ stopping["command"] = "end" /\ main' = "over"
    /\ UNCHANGED <<session, sig, cancelled, stopping, device, attach, watch, panicked>>

(***************************************************************************)
(* Ctrl+C, and Session.Stop, which both may run.                           *)
(***************************************************************************)
Interrupt ==
    /\ sig = "waiting" /\ sig' = "got"
    /\ UNCHANGED <<session, main, cancelled, stopping, device, attach, watch, panicked>>
OnSignal ==
    /\ sig = "got" /\ sig' = "gone" /\ cancelled' = TRUE /\ stopping' = [stopping EXCEPT !["interrupt"] = "begin"]
    /\ UNCHANGED <<session, main, device, attach, watch, panicked>>

At(c, from, to) == stopping[c] = from /\ stopping' = [stopping EXCEPT ![c] = to]

\* FileWatcher.Stop, when the handler has a watcher: the timer, the test of the
\* done channel, and its closing, which panics when it is closed meanwhile.
StopTimer(c) ==
    /\ At(c, "begin", IF watcher = "none" THEN "mux" ELSE "test")
    /\ timer' = IF watcher = "none" THEN timer ELSE "off"
    /\ UNCHANGED <<session, main, sig, cancelled, device, attach, watcher, closed, pending, edits, owed, panicked>>
TestDone(c) ==
    /\ At(c, "test", IF closed THEN "mux" ELSE "close")
    /\ UNCHANGED <<session, main, sig, cancelled, device, attach, watch, panicked>>
CloseDone(c) ==
    /\ At(c, "close", "mux") /\ closed' = TRUE /\ panicked' = closed
    /\ UNCHANGED <<session, main, sig, cancelled, device, attach, watcher, timer, pending, edits, owed>>

\* A variant of StopMux that leaves the pipe to its reader.
StopMuxDone(c) ==
    /\ At(c, "mux", "conn") /\ done' = muxed
    /\ UNCHANGED <<session, main, sig, cancelled, device, flutter, launched, muxed, pipe, queue, writer, copier, keys, watch, panicked>>

\* StdinMux.Stop.
StopMux(c) ==
    /\ At(c, "mux", "conn") /\ done' = muxed /\ pipe' = IF muxed THEN "closed" ELSE pipe
    /\ UNCHANGED <<session, main, sig, cancelled, device, flutter, launched, muxed, queue, writer, copier, keys, watch, panicked>>
CloseConn(c) ==
    /\ At(c, "conn", "end") /\ conn' = IF known THEN "closed" ELSE conn
    /\ UNCHANGED <<session, main, sig, cancelled, known, stream, inbox, printed, attach, watch, panicked>>
Stop(c) == StopTimer(c) \/ TestDone(c) \/ CloseDone(c) \/ StopMux(c) \/ CloseConn(c)

(***************************************************************************)
(* The debug stream.                                                       *)
(***************************************************************************)
\* The reader looks at the context before each read; a read ends with a
\* message, or with the connection.
CheckStream ==
    /\ stream = "check" /\ stream' = IF cancelled THEN "gone" ELSE "read"
    /\ UNCHANGED <<calls, conn, known, inbox, printed, attach, watch, panicked>>
ReadFails ==
    /\ stream = "read" /\ conn = "closed" /\ stream' = "gone"
    /\ UNCHANGED <<calls, conn, known, inbox, printed, attach, watch, panicked>>
AppPrints ==
    /\ stream = "read" /\ conn = "open" /\ printed < MaxOutput /\ printed' = printed + 1
    /\ \E m \in {"text", "url", "error", "failed", "exit"} : inbox' = Append(inbox, m)
    /\ stream' = "check"
    /\ UNCHANGED <<calls, conn, known, attach, watch, panicked>>
DeviceLost ==
    /\ conn = "open" /\ conn' = "closed"
    /\ UNCHANGED <<calls, known, stream, inbox, printed, attach, watch, panicked>>

(***************************************************************************)
(* Flutter and its input.                                                  *)
(***************************************************************************)
\* A variant of Send without the default of the select.
SendAlways(c) == Append(queue, c)

\* SendCommand drops what does not fit.
Send(c) == IF Len(queue) < QueueSize THEN Append(queue, c) ELSE queue

\* handleFlutterOutput sees the key help: onFlutterReady asks for a restart ...
FlutterReady ==
    /\ flutter = "running" /\ ~launched /\ launched' = TRUE /\ queue' = Send("R")
    /\ UNCHANGED <<calls, device, flutter, muxed, done, pipe, writer, copier, keys, watch, panicked>>
\* ... and then makes and starts the watcher.
StartWatcher ==
    /\ launched /\ watcher = "none" /\ watcher' = "made"
    /\ UNCHANGED <<calls, device, attach, closed, timer, pending, edits, owed, panicked>>

FlutterExits ==
    /\ flutter = "running" /\ flutter' = "exited"
    /\ UNCHANGED <<calls, device, launched, muxed, done, pipe, queue, writer, copier, keys, watch, panicked>>
KillFlutter == cancelled /\ FlutterExits

\* StdinMux.Start and its goroutine: one byte at a time into the pipe.
TakeCommand ==
    /\ writer["commands"] = "idle"
    /\ \/ queue # <<>> /\ writer' = [writer EXCEPT !["commands"] = Head(queue)] /\ queue' = Tail(queue)
       \/ (cancelled \/ done) /\ writer' = [writer EXCEPT !["commands"] = "gone"] /\ UNCHANGED queue
    /\ UNCHANGED <<calls, device, flutter, launched, muxed, done, pipe, copier, keys, watch, panicked>>
PressKey ==
    /\ writer["terminal"] = "idle" /\ keys < session.keys /\ keys' = keys + 1
    /\ writer' = [writer EXCEPT !["terminal"] = "key"]
    /\ UNCHANGED <<calls, device, flutter, launched, muxed, done, pipe, queue, copier, watch, panicked>>

Writing(w) == writer[w] \in {"R", "r", "key"}
WriteFails(w) ==
    /\ Writing(w) /\ pipe = "closed" /\ writer' = [writer EXCEPT ![w] = "gone"]
    /\ UNCHANGED <<calls, device, flutter, launched, muxed, done, pipe, queue, copier, keys, watch, panicked>>
\* The copier hands the byte to flutter, which reloads what is on disk, or
\* finds that flutter is gone.
Copy(w) ==
    /\ Writing(w) /\ pipe = "open" /\ copier = "reading"
    /\ writer' = [writer EXCEPT ![w] = "idle"]
    /\ copier' = IF flutter = "exited" THEN "gone" ELSE copier
    /\ owed' = (owed /\ (flutter = "exited" \/ writer[w] = "key"))
    /\ UNCHANGED <<calls, device, flutter, launched, muxed, done, pipe, queue, keys, watcher, closed, timer, pending, edits, panicked>>
CopyEnds ==
    /\ copier = "reading" /\ pipe = "closed" /\ copier' = "gone"
    /\ UNCHANGED <<calls, device, flutter, launched, muxed, done, pipe, queue, writer, keys, watch, panicked>>

(***************************************************************************)
(* The watcher.                                                            *)
(***************************************************************************)
BeginWatch ==
    /\ watcher = "made" /\ watcher' = "watching" /\ pending' = FALSE
    /\ UNCHANGED <<calls, device, attach, closed, timer, edits, owed, panicked>>

\* The user saves a file in a watched directory, or in one created since: a
\* scan sees it there, but fsnotify was never told of the directory, whose name
\* matches no pattern.
Edit ==
    /\ edits < session.edits /\ edits' = edits + 1
    /\ \E created \in {FALSE, session.creates} :
         pending' = (pending \/ (watcher = "watching" /\ (session.polling \/ ~created)))
    /\ owed' = (owed \/ (watcher = "watching" /\ ~cancelled /\ ~closed))
    /\ UNCHANGED <<calls, device, attach, watcher, closed, timer, panicked>>

\* A variant of HandleChange: a change while the timer runs stops it.
HandleChangeToggled ==
    /\ watcher = "watching" /\ pending /\ pending' = FALSE /\ timer' = IF timer = "armed" THEN "off" ELSE "armed"
    /\ UNCHANGED <<calls, device, attach, watcher, closed, edits, owed, panicked>>

\* handleEvent, or checkChanges and triggerDebounced: the timer starts again.
HandleChange ==
    /\ watcher = "watching" /\ pending /\ pending' = FALSE /\ timer' = "armed"
    /\ UNCHANGED <<calls, device, attach, watcher, closed, edits, owed, panicked>>
Fire ==
    /\ timer = "armed" /\ timer' = "off" /\ queue' = Send("r")
    /\ UNCHANGED <<calls, device, flutter, launched, muxed, done, pipe, writer, copier, keys, watcher, closed, pending, edits, owed, panicked>>
EndWatch ==
    /\ watcher = "watching" /\ (cancelled \/ closed) /\ watcher' = "gone"
    /\ UNCHANGED <<calls, device, attach, closed, timer, pending, edits, owed, panicked>>

-----------------------------------------------------------------------------
Command ==
    \/ Setup \/ ConnectDevice \/ InstallApp \/ DebugStream \/ LaunchApp \/ FindDebugURL \/ Attach \/ StartFlutter
    \/ WaitFlutter \/ RangeOutput \/ Return \/ Exit
Reader == CheckStream \/ ReadFails
Outside == Interrupt \/ AppPrints \/ DeviceLost \/ FlutterReady \/ FlutterExits \/ PressKey \/ Edit

Next ==
    /\ ~Over
    /\ \/ Command \/ OnSignal \/ (\E c \in Callers : Stop(c)) \/ Reader \/ Outside \/ StartWatcher
       \/ TakeCommand \/ (\E w \in Writers : WriteFails(w) \/ Copy(w)) \/ CopyEnds
       \/ BeginWatch \/ HandleChange \/ Fire \/ EndWatch

Spec == Init /\ [][Next]_vars

\* Every goroutine runs on, a timer fires and a process that is killed ends; the
\* user, the application and flutter may do nothing at all.
FairSpec ==
    /\ Spec
    /\ WF_vars(~Over /\ Command) /\ WF_vars(~Over /\ OnSignal) /\ WF_vars(~Over /\ Reader) /\ WF_vars(~Over /\ StartWatcher)
    /\ \A c \in Callers : WF_vars(~Over /\ Stop(c))
    /\ WF_vars(~Over /\ KillFlutter) /\ WF_vars(~Over /\ TakeCommand) /\ WF_vars(~Over /\ CopyEnds)
    /\ \A w \in Writers : WF_vars(~Over /\ (WriteFails(w) \/ Copy(w)))
    /\ WF_vars(~Over /\ BeginWatch) /\ WF_vars(~Over /\ HandleChange) /\ WF_vars(~Over /\ Fire)

(***************************************************************************)
(* Properties.                                                             *)
(***************************************************************************)
TypeOK ==
    /\ session \in Sessions
    /\ main \in {"setup", "connect", "install", "dial", "launched", "find", "attach", "start", "wait", "range", "return", "stop", "over"}
    /\ sig \in {"waiting", "got", "gone"} /\ stopping \in [Callers -> {"no", "begin", "test", "close", "mux", "conn", "end"}]
    /\ conn \in {"none", "open", "closed"} /\ stream \in {"none", "check", "read", "gone"} /\ Len(inbox) <= MaxOutput
    /\ flutter \in {"none", "running", "exited"} /\ pipe \in {"open", "closed"} /\ Len(queue) <= QueueSize
    /\ writer \in [Writers -> {"none", "idle", "R", "r", "key", "gone"}] /\ copier \in {"none", "reading", "gone"}
    /\ watcher \in {"none", "made", "watching", "gone"} /\ timer \in {"off", "armed"} /\ edits \in 0..session.edits /\ keys \in 0..session.keys
    /\ {known, cancelled, launched, muxed, done, closed, pending, owed, panicked} \subseteq BOOLEAN

\* A session ends: Ctrl+C ends a Flutter session from wherever it is, for what
\* the command waits for is cancelled, killed or closed by the goroutine that got
\* the signal; an application that exits ends a React Native or Kotlin session.
SessionEnds ==
    /\ Flutter /\ sig = "got" ~> Over
    /\ ~Flutter /\ known /\ (\E i \in DOMAIN inbox : inbox[i] = "exit") ~> Over

\* A file saved under watch is followed by a reload, although edits share one
\* timer and a full queue drops commands, unless the session ends.
ChangesReloaded == owed ~> (~owed \/ flutter = "exited" \/ cancelled \/ Over)

\* "Press Ctrl+C to stop" (internal/dev/kmp.go:38, reactnative.go:74).
InterruptStops == ~Flutter /\ sig = "got" ~> Over

\* "flutter attach" that has ended ends the session, which then tells the user
\* what to try (cmd/builder/flutter.go).
FlutterExitEnds == flutter = "exited" ~> Over

\* "Already closed" (watcher.go:117): stopping a stopped session is harmless.
StopTwice == ~panicked
=============================================================================
