---------------------------- MODULE DevSessionProofs ----------------------------
(***************************************************************************)
(* DevSession is well typed for every set of sessions, every size of the   *)
(* command queue and every amount of output.                               *)
(***************************************************************************)
EXTENDS DevSession, TLAPS

(***************************************************************************)
(* The invariant: TypeOK, group by group of the variables, with what it    *)
(* needs to be inductive.  The channel holds no more than was printed.     *)
(***************************************************************************)
CallsOK ==
    /\ session \in Sessions
    /\ main \in {"setup", "connect", "install", "dial", "launched", "find", "attach", "start", "wait", "range", "return", "stop", "over"}
    /\ sig \in {"waiting", "got", "gone"} /\ cancelled \in BOOLEAN
    /\ stopping \in [Callers -> {"no", "begin", "test", "close", "mux", "conn", "end"}]
DeviceOK ==
    /\ conn \in {"none", "open", "closed"} /\ known \in BOOLEAN /\ stream \in {"none", "check", "read", "gone"}
    /\ inbox \in Seq({"text", "url", "error", "failed", "exit"}) /\ Len(inbox) <= printed
    /\ printed \in 0..MaxOutput
AttachOK ==
    /\ flutter \in {"none", "running", "exited"} /\ pipe \in {"open", "closed"}
    /\ queue \in Seq({"R", "r"}) /\ Len(queue) <= QueueSize
    /\ writer \in [Writers -> {"none", "idle", "R", "r", "key", "gone"}] /\ copier \in {"none", "reading", "gone"}
    /\ keys \in 0..session.keys /\ {launched, muxed, done} \subseteq BOOLEAN
WatchOK ==
    /\ watcher \in {"none", "made", "watching", "gone"} /\ timer \in {"off", "armed"} /\ edits \in 0..session.edits
    /\ {closed, pending, owed} \subseteq BOOLEAN
SessionInv == CallsOK /\ DeviceOK /\ AttachOK /\ WatchOK /\ panicked \in BOOLEAN

\* A session has bounds that are numbers.
LEMMA SessionBounds ==
    ASSUME session \in Sessions
    PROVE  session.keys \in Nat /\ session.edits \in Nat /\ MaxOutput \in Nat /\ QueueSize \in Nat \ {0}
BY BoundsAssumption

\* What an action leaves alone stays well typed.
LEMMA Kept ==
    ASSUME SessionInv
    PROVE  /\ UNCHANGED calls => CallsOK'
           /\ UNCHANGED device => DeviceOK'
           /\ UNCHANGED attach /\ session' = session => AttachOK'
           /\ UNCHANGED watch /\ session' = session => WatchOK'
           /\ UNCHANGED panicked => panicked' \in BOOLEAN
<1>1. UNCHANGED calls => CallsOK'
  BY DEF SessionInv, CallsOK, calls
<1>2. UNCHANGED device => DeviceOK'
  BY DEF SessionInv, DeviceOK, device
<1>3. UNCHANGED attach /\ session' = session => AttachOK'
  BY DEF SessionInv, AttachOK, attach
<1>4. UNCHANGED watch /\ session' = session => WatchOK'
  BY DEF SessionInv, WatchOK, watch
<1> QED
  BY <1>1, <1>2, <1>3, <1>4 DEF SessionInv

\* The message taken from the channel, and the command taken from the queue.
LEMMA Taken ==
    ASSUME NEW T, NEW s \in Seq(T), s # <<>>
    PROVE  Head(s) \in T /\ Tail(s) \in Seq(T) /\ Len(s) \in Nat /\ Len(Tail(s)) = Len(s) - 1
OBVIOUS

\* Nothing is queued beyond the buffer.
LEMMA Sent ==
    ASSUME NEW c \in {"R", "r"}, SessionInv
    PROVE  Send(c) \in Seq({"R", "r"}) /\ Len(Send(c)) <= QueueSize
<1>1. queue \in Seq({"R", "r"}) /\ Len(queue) <= QueueSize /\ QueueSize \in Nat
  BY SessionBounds DEF SessionInv, CallsOK, AttachOK
<1>2. Append(queue, c) \in Seq({"R", "r"}) /\ Len(Append(queue, c)) = Len(queue) + 1 /\ Len(queue) \in Nat
  BY <1>1
<1> QED
  BY <1>1, <1>2 DEF Send

\* The steps of the command.
LEMMA CommandTyped == SessionInv /\ Command => SessionInv'
<1> SUFFICES ASSUME SessionInv, Command PROVE SessionInv'
  OBVIOUS
<1>1. CASE Setup \/ ConnectDevice \/ InstallApp
  <2>1. UNCHANGED <<session, sig, cancelled, stopping, device, attach, watch, panicked>>
        /\ main' \in {"connect", "install", "dial", "return"}
    BY <1>1 DEF Setup, ConnectDevice, InstallApp, Call
  <2>2. CallsOK'
    BY <2>1 DEF SessionInv, CallsOK
  <2> QED
    BY <2>1, <2>2, Kept DEF SessionInv
<1>2. CASE DebugStream \/ LaunchApp
  <2>1. /\ UNCHANGED <<session, sig, cancelled, stopping, inbox, printed, attach, watch, panicked>>
        /\ main' \in {"launched", "find", "range", "return"}
        /\ conn' \in {conn, "open"} /\ stream' \in {stream, "check"} /\ known' \in {known, TRUE}
    BY <1>2 DEF DebugStream, LaunchApp, Call
  <2>2. CallsOK'
    BY <2>1 DEF SessionInv, CallsOK
  <2>3. DeviceOK'
    BY <2>1 DEF SessionInv, DeviceOK
  <2> QED
    BY <2>1, <2>2, <2>3, Kept DEF SessionInv
<1>3. CASE FindDebugURL \/ RangeOutput
  <2>1. /\ UNCHANGED <<session, sig, cancelled, stopping, conn, known, stream, printed, attach, watch, panicked>>
        /\ main' \in {"find", "attach", "range", "return"} /\ (Receive \/ inbox' = inbox)
    BY <1>3 DEF FindDebugURL, RangeOutput
  <2>2. CallsOK'
    BY <2>1 DEF SessionInv, CallsOK
  <2>3. DeviceOK'
    <3>1. CASE Receive
      <4>1. inbox' = Tail(inbox) /\ inbox \in Seq({"text", "url", "error", "failed", "exit"}) /\ inbox # <<>>
            /\ Len(inbox) <= printed /\ printed \in 0..MaxOutput /\ MaxOutput \in Nat
        BY <3>1, SessionBounds DEF Receive, SessionInv, CallsOK, DeviceOK
      <4>2. inbox' \in Seq({"text", "url", "error", "failed", "exit"}) /\ Len(inbox') <= printed
        BY <4>1, Taken
      <4> QED
        BY <2>1, <4>2 DEF SessionInv, DeviceOK
    <3>2. CASE inbox' = inbox
      BY <2>1, <3>2 DEF SessionInv, DeviceOK
    <3> QED
      BY <2>1, <3>1, <3>2
  <2> QED
    BY <2>1, <2>2, <2>3, Kept DEF SessionInv
<1>4. CASE Attach \/ StartFlutter
  <2>1. /\ UNCHANGED <<session, sig, cancelled, stopping, device, launched, done, pipe, queue, keys, watch, panicked>>
        /\ main' \in {"start", "wait", "return"} /\ muxed' \in {muxed, TRUE}
        /\ writer' \in {writer, [w \in Writers |-> "idle"]} /\ flutter' \in {flutter, "running"} /\ copier' \in {copier, "reading"}
    BY <1>4 DEF Attach, StartFlutter, Call
  <2>2. CallsOK'
    BY <2>1 DEF SessionInv, CallsOK
  <2>3. AttachOK'
    BY <2>1 DEF SessionInv, AttachOK
  <2> QED
    BY <2>1, <2>2, <2>3, Kept DEF SessionInv
<1>5. CASE WaitFlutter \/ Return \/ Exit
  <2>1. /\ UNCHANGED <<session, sig, cancelled, device, attach, watch, panicked>>
        /\ main' \in {"return", "stop", "over"} /\ stopping' \in {stopping, [stopping EXCEPT !["command"] = "begin"]}
    BY <1>5 DEF WaitFlutter, Return, Exit
  <2>2. CallsOK'
    BY <2>1 DEF SessionInv, CallsOK
  <2> QED
    BY <2>1, <2>2, Kept DEF SessionInv
<1> QED
  BY <1>1, <1>2, <1>3, <1>4, <1>5 DEF Command

\* The steps of the one who got the signal, and of the two who may stop a session.
LEMMA StopTyped == ASSUME SessionInv, OnSignal \/ \E c \in Callers : Stop(c) PROVE SessionInv'
<1>1. CASE OnSignal
  <2>1. CallsOK'
    BY <1>1 DEF OnSignal, SessionInv, CallsOK, Callers
  <2> QED
    BY <1>1, <2>1, Kept DEF OnSignal, SessionInv, CallsOK
<1>2. ASSUME NEW c \in Callers, Stop(c) PROVE SessionInv'
  <2>1. /\ UNCHANGED <<session, main, sig, cancelled>> /\ \E to \in {"test", "mux", "close", "conn", "end"} :
               stopping' = [stopping EXCEPT ![c] = to]
        /\ watcher' = watcher /\ UNCHANGED <<pending, edits, owed>> /\ timer' \in {timer, "off"} /\ closed' \in {closed, TRUE}
        /\ panicked' \in {panicked, closed}
        /\ UNCHANGED <<flutter, launched, muxed, queue, writer, copier, keys>> /\ done' \in {done, muxed}
        /\ pipe' \in {pipe, "closed"}
        /\ UNCHANGED <<known, stream, inbox, printed>> /\ conn' \in {conn, "closed"}
    BY <1>2 DEF Stop, StopTimer, TestDone, CloseDone, StopMux, CloseConn, At, device, attach, watch
  <2>2. CallsOK'
    BY <2>1 DEF SessionInv, CallsOK
  <2>3. DeviceOK'
    BY <2>1 DEF SessionInv, DeviceOK
  <2>4. AttachOK'
    BY <2>1 DEF SessionInv, AttachOK
  <2>5. WatchOK' /\ panicked' \in BOOLEAN
    BY <2>1 DEF SessionInv, WatchOK
  <2> QED
    BY <2>2, <2>3, <2>4, <2>5 DEF SessionInv
<1> QED
  BY <1>1, <1>2

\* The debug stream: what is printed is counted, and at most read once.
LEMMA StreamTyped == ASSUME SessionInv, Reader \/ AppPrints \/ DeviceLost PROVE SessionInv'
<1>1. UNCHANGED <<calls, known, attach, watch, panicked>> /\ session' = session
  BY DEF Reader, CheckStream, ReadFails, AppPrints, DeviceLost, calls
<1>2. CASE Reader \/ DeviceLost
  <2>1. UNCHANGED <<known, inbox, printed>> /\ conn' \in {conn, "closed"} /\ stream' \in {stream, "gone", "read"}
    BY <1>2 DEF Reader, CheckStream, ReadFails, DeviceLost
  <2>2. DeviceOK'
    BY <2>1 DEF SessionInv, DeviceOK
  <2> QED
    BY <1>1, <2>2, Kept DEF SessionInv
<1>3. CASE AppPrints
  <2> DEFINE M == {"text", "url", "error", "failed", "exit"}
  <2>1. /\ UNCHANGED <<known, conn>> /\ stream' = "check" /\ printed < MaxOutput /\ printed' = printed + 1
        /\ \E m \in M : inbox' = Append(inbox, m)
    BY <1>3 DEF AppPrints
  <2>2. inbox \in Seq(M) /\ Len(inbox) <= printed /\ printed \in 0..MaxOutput /\ MaxOutput \in Nat
    BY SessionBounds DEF SessionInv, CallsOK, DeviceOK
  <2>3. inbox' \in Seq(M) /\ Len(inbox') <= printed' /\ printed' \in 0..MaxOutput
    BY <2>1, <2>2
  <2>4. DeviceOK'
    BY <2>1, <2>3 DEF SessionInv, DeviceOK
  <2> QED
    BY <1>1, <2>4, Kept DEF SessionInv
<1> QED
  BY <1>2, <1>3 DEF Reader

\* Flutter, and the writers and the reader of its input.
LEMMA InputTyped ==
    ASSUME SessionInv,
           \/ FlutterReady \/ FlutterExits \/ TakeCommand \/ PressKey \/ CopyEnds
           \/ \E w \in Writers : WriteFails(w) \/ Copy(w)
    PROVE  SessionInv'
<1>1. UNCHANGED <<calls, device, watcher, closed, timer, pending, edits, panicked>> /\ session' = session /\ owed' \in BOOLEAN
  BY DEF FlutterReady, FlutterExits, TakeCommand, PressKey, CopyEnds, WriteFails, Copy, calls, watch, SessionInv, WatchOK
<1>2. WatchOK'
  BY <1>1 DEF SessionInv, WatchOK
<1>3. CASE FlutterReady
  <2>1. launched' = TRUE /\ queue' = Send("R") /\ UNCHANGED <<flutter, muxed, done, pipe, writer, copier, keys>>
    BY <1>3 DEF FlutterReady
  <2>2. AttachOK'
    BY <1>1, <2>1, Sent DEF SessionInv, AttachOK
  <2> QED
    BY <1>1, <1>2, <2>2, Kept DEF SessionInv
<1>4. CASE FlutterExits \/ CopyEnds
  <2>1. UNCHANGED <<launched, muxed, done, pipe, queue, writer, keys>> /\ flutter' \in {flutter, "exited"} /\ copier' \in {copier, "gone"}
    BY <1>4 DEF FlutterExits, CopyEnds
  <2>2. AttachOK'
    BY <1>1, <2>1 DEF SessionInv, AttachOK
  <2> QED
    BY <1>1, <1>2, <2>2, Kept DEF SessionInv
<1>5. CASE TakeCommand
  <2>1. UNCHANGED <<flutter, launched, muxed, done, pipe, copier, keys>>
    BY <1>5 DEF TakeCommand
  <2>2. queue \in Seq({"R", "r"}) /\ Len(queue) <= QueueSize /\ QueueSize \in Nat
    BY SessionBounds DEF SessionInv, CallsOK, AttachOK
  <2>3. /\ queue' \in Seq({"R", "r"}) /\ Len(queue') <= QueueSize
        /\ \E x \in {"R", "r", "gone"} : writer' = [writer EXCEPT !["commands"] = x]
    <3>1. CASE queue # <<>> /\ writer' = [writer EXCEPT !["commands"] = Head(queue)] /\ queue' = Tail(queue)
      <4>1. Head(queue) \in {"R", "r"} /\ Tail(queue) \in Seq({"R", "r"}) /\ Len(Tail(queue)) <= QueueSize
        BY <2>2, <3>1, Taken
      <4> QED
        BY <3>1, <4>1
    <3>2. CASE writer' = [writer EXCEPT !["commands"] = "gone"] /\ UNCHANGED queue
      BY <2>2, <3>2
    <3> QED
      BY <1>5, <3>1, <3>2 DEF TakeCommand
  <2>4. AttachOK'
    BY <1>1, <2>1, <2>3 DEF SessionInv, AttachOK
  <2> QED
    BY <1>1, <1>2, <2>4, Kept DEF SessionInv
<1>6. CASE PressKey
  <2>1. /\ UNCHANGED <<flutter, launched, muxed, done, pipe, queue, copier>> /\ keys < session.keys /\ keys' = keys + 1
        /\ writer' = [writer EXCEPT !["terminal"] = "key"]
    BY <1>6 DEF PressKey
  <2>2. keys' \in 0..session'.keys
    BY <1>1, <2>1, SessionBounds DEF SessionInv, CallsOK, AttachOK
  <2>3. AttachOK'
    BY <1>1, <2>1, <2>2 DEF SessionInv, AttachOK
  <2> QED
    BY <1>1, <1>2, <2>3, Kept DEF SessionInv
<1>7. ASSUME NEW w \in Writers, WriteFails(w) \/ Copy(w) PROVE SessionInv'
  <2>1. /\ UNCHANGED <<flutter, launched, muxed, done, pipe, queue, keys>> /\ copier' \in {copier, "gone"}
        /\ \E x \in {"idle", "gone"} : writer' = [writer EXCEPT ![w] = x]
    BY <1>7 DEF WriteFails, Copy
  <2>2. AttachOK'
    BY <1>1, <2>1 DEF SessionInv, AttachOK
  <2> QED
    BY <1>1, <1>2, <2>2, Kept DEF SessionInv
<1> QED
  BY <1>3, <1>4, <1>5, <1>6, <1>7

\* The watcher and its timer.
LEMMA WatchTyped ==
    ASSUME SessionInv, StartWatcher \/ BeginWatch \/ Edit \/ HandleChange \/ Fire \/ EndWatch
    PROVE  SessionInv'
<1>1. UNCHANGED <<calls, device, panicked>> /\ session' = session
  BY DEF StartWatcher, BeginWatch, Edit, HandleChange, Fire, EndWatch, calls
<1>2. CASE StartWatcher \/ BeginWatch \/ HandleChange \/ EndWatch
  <2>1. /\ UNCHANGED <<attach, closed, edits, owed>> /\ watcher' \in {watcher, "made", "watching", "gone"}
        /\ timer' \in {timer, "armed"} /\ pending' \in {pending, FALSE}
    BY <1>2 DEF StartWatcher, BeginWatch, HandleChange, EndWatch
  <2>2. WatchOK'
    BY <1>1, <2>1 DEF SessionInv, WatchOK
  <2> QED
    BY <1>1, <2>1, <2>2, Kept DEF SessionInv
<1>3. CASE Edit
  <2>1. /\ UNCHANGED <<attach, watcher, closed, timer>> /\ edits < session.edits /\ edits' = edits + 1
        /\ pending' \in BOOLEAN /\ owed' \in BOOLEAN
    BY <1>3 DEF Edit, SessionInv, WatchOK
  <2>2. edits' \in 0..session'.edits
    BY <1>1, <2>1, SessionBounds DEF SessionInv, CallsOK, WatchOK
  <2>3. WatchOK'
    BY <1>1, <2>1, <2>2 DEF SessionInv, WatchOK
  <2> QED
    BY <1>1, <2>1, <2>3, Kept DEF SessionInv
<1>4. CASE Fire
  <2>1. /\ UNCHANGED <<flutter, launched, muxed, done, pipe, writer, copier, keys, watcher, closed, pending, edits, owed>>
        /\ timer' = "off" /\ queue' = Send("r")
    BY <1>4 DEF Fire
  <2>2. AttachOK'
    BY <1>1, <2>1, Sent DEF SessionInv, AttachOK
  <2>3. WatchOK'
    BY <1>1, <2>1 DEF SessionInv, WatchOK
  <2> QED
    BY <1>1, <2>2, <2>3, Kept DEF SessionInv
<1> QED
  BY <1>2, <1>3, <1>4

\* A session is well typed from its setup to its end: no queue outgrows its
\* buffer, whatever Ctrl+C, the device, flutter and the watcher do meanwhile.
THEOREM SessionTyped == Spec => []TypeOK
<1>1. Init => SessionInv
  <2> SUFFICES ASSUME Init PROVE SessionInv
    OBVIOUS
  <2>1. session \in Sessions /\ 0 \in 0..session.keys /\ 0 \in 0..session.edits /\ 0 \in 0..MaxOutput /\ 0 <= QueueSize
    BY SessionBounds DEF Init
  <2>e. <<>> \in Seq({"R", "r"}) /\ <<>> \in Seq({"text", "url", "error", "failed", "exit"}) /\ Len(<<>>) = 0
    OBVIOUS
  <2>2. CallsOK
    BY <2>1 DEF Init, CallsOK
  <2>3. DeviceOK
    <3>1. inbox = <<>> /\ printed = 0 /\ conn = "none" /\ known = FALSE /\ stream = "none"
      BY DEF Init
    <3>2. inbox \in Seq({"text", "url", "error", "failed", "exit"}) /\ Len(inbox) <= printed
      BY <2>e, <3>1
    <3> QED
      BY <2>1, <3>1, <3>2 DEF DeviceOK
  <2>4. AttachOK
    BY <2>1, <2>e DEF Init, AttachOK
  <2>5. WatchOK /\ panicked \in BOOLEAN
    BY <2>1 DEF Init, WatchOK
  <2> QED
    BY <2>2, <2>3, <2>4, <2>5 DEF SessionInv
<1>2. SessionInv /\ [Next]_vars => SessionInv'
  <2> SUFFICES ASSUME SessionInv, [Next]_vars PROVE SessionInv'
    OBVIOUS
  <2>1. CASE UNCHANGED vars
    BY <2>1, Kept DEF vars, calls, SessionInv
  <2>2. CASE Interrupt
    <3>1. CallsOK'
      BY <2>2 DEF Interrupt, SessionInv, CallsOK
    <3> QED
      BY <2>2, <3>1, Kept DEF Interrupt, SessionInv
  <2>3. CASE Next /\ ~Interrupt
    BY <2>3, CommandTyped, StopTyped, StreamTyped, InputTyped, WatchTyped DEF Next, Outside
  <2> QED
    BY <2>1, <2>2, <2>3
<1>3. SessionInv => TypeOK
  <2> SUFFICES ASSUME SessionInv PROVE TypeOK
    OBVIOUS
  <2>1. Len(inbox) <= MaxOutput
    <3>1. inbox \in Seq({"text", "url", "error", "failed", "exit"}) /\ Len(inbox) <= printed
          /\ printed \in 0..MaxOutput /\ MaxOutput \in Nat
      BY SessionBounds DEF SessionInv, CallsOK, DeviceOK
    <3> QED
      BY <3>1
  <2> QED
    BY <2>1 DEF SessionInv, CallsOK, DeviceOK, AttachOK, WatchOK, TypeOK
<1> QED
  BY <1>1, <1>2, <1>3, PTL DEF Spec

=============================================================================
