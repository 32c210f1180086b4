-------------------------------- MODULE AppLink --------------------------------
(* The app's end of an app-link above whole frames: AppLinkSession (kipc.ts) with *)
(* the DirectedReader of kipc-transport.ts, and the stock application that echoes *)
(* once, waits for the last window to close, asks the host to quit and exits      *)
(* after its reply (dev-hello main.ts).                                           *)
(*                                                                                *)
(* FrameReader hands out whole frames in order and LinkWriter puts whole frames   *)
(* on the wire in order, so a channel here is a sequence of frames. A deadline is *)
(* a timeout that may come at any point of the wait it guards. The host, which    *)
(* the repository does not hold, is external: it answers calls, announces its     *)
(* windows, probes with PING, or misbehaves.                                      *)
(*                                                                                *)
(* A task is one chain of awaits in the app. Its continuations are microtasks:    *)
(* they run, in any order, before the next timer or socket callback.              *)
EXTENDS Integers, Sequences, FiniteSets

CONSTANTS Tasks,               \* the chains of awaits that use the session
          Main,                \* the one that connects, and exits the process
          Program,             \* what each task does: "echo", "lifecycle"
          MAX_PARKED_FRAMES,
          CorrLimit,           \* 2^32: correlation ids wrap here
          Strays,              \* frames a faulty host may send at any time
          None,
          MaxPings             \* bound: PINGs the host sends

Kinds    == {"HELLO", "EVENT", "PING", "CALL", "REPLY", "ERR", "NONE"}
Channels == {"control", "lifecycle", "echo"}
Bodies   == {"token", "other token", "empty", "ready", "last-window-closed", "unknown",
             "echo", "garbled", "quit", "refused"}
Frames   == [kind : Kinds, channel : Channels, corr : Nat, flags : Nat, body : Bodies,
             call : (Tasks \cup {None}) \X Nat]   \* the call: whose echo this is

ASSUME LinkAssumption ==
  /\ Main \in Tasks /\ None \notin Tasks /\ Strays \subseteq Frames
  /\ Program \in [Tasks -> Seq({"echo", "lifecycle"})]
  /\ MAX_PARKED_FRAMES \in Nat \ {0}
  /\ CorrLimit \in Nat /\ CorrLimit > 1
  /\ MaxPings \in Nat

VARIABLES
  task,      \* each task: where it stands, what it does, its call, its frame
  session,   \* AppLinkSession: closed, nextCorr; DirectedReader: parked
  reader,    \* FrameReader: the waiting task, the unread frames, failed
  sending,   \* WriteQueue: frames not yet on the wire
  toHost, toApp,   \* frames on the wire
  exit,      \* the process: "running", or its exit code
  host,      \* the host's side of the protocol
  fault,     \* something outside the app's code went wrong
  events,    \* the lifecycle frames the host has sent, in order
  seen       \* the lifecycle frames the stock loop has taken, in order

vars == <<task, session, reader, sending, toHost, toApp, exit, host, fault, events, seen>>
appVars == <<task, session, reader, sending, exit, seen>>
hostVars == <<host, fault, events>>
--------------------------------------------------------------------------------
NoCall == <<None, 0>>
Frame(kind, channel, corr, body, call) ==
  [kind |-> kind, channel |-> channel, corr |-> corr, flags |-> 0,
   body |-> body, call |-> call]
HelloFrame       == Frame("HELLO", "control", 0, "token", NoCall)
EventFrame(what) == Frame("EVENT", "lifecycle", 0, what, NoCall)
PingFrame(n)     == Frame("PING", "control", n, "empty", NoCall)
NoFrame          == Frame("NONE", "control", 0, "empty", NoCall)

(* The receive policies the app uses.                                            *)
ClientAwaitHello ==
  [kinds |-> {"HELLO"}, channel |-> "control", corr |-> 0, allowPing |-> FALSE]
LifecycleEventReceiver ==
  [kinds |-> {"EVENT"}, channel |-> "lifecycle", corr |-> 0, allowPing |-> TRUE]
EchoReplyWaiter(corr) ==
  [kinds |-> {"REPLY"}, channel |-> "echo", corr |-> corr, allowPing |-> FALSE]
LifecycleReplyWaiter(corr) ==
  [kinds |-> {"REPLY", "ERR"}, channel |-> "lifecycle", corr |-> corr, allowPing |-> FALSE]

(* validateReceivedHeader: a 32-byte body is what HELLO needs, an empty one PING. *)
AdmitsHeader(policy, f) ==
  IF policy.allowPing /\ f.kind = "PING"
  THEN f.flags = 0 /\ f.body = "empty"
  ELSE /\ f.kind \in policy.kinds
       /\ f.flags = 0
       /\ f.channel = policy.channel
       /\ f.corr = policy.corr
       /\ f.kind = "HELLO" => f.body \in {"token", "other token"}

(* What a task that reads for `doing` waits for, and what it may park meanwhile. *)
Want(m) == CASE m.doing = "hello" -> ClientAwaitHello
             [] m.doing = "echo"  -> EchoReplyWaiter(m.corr)
             [] m.doing = "quit"  -> LifecycleReplyWaiter(m.corr)
             [] OTHER             -> LifecycleEventReceiver
Parks_Never(m, f) == FALSE
Parks(m, f) == m.doing = "echo" /\ AdmitsHeader(LifecycleEventReceiver, f)

(* A continuation is ready to run.                                               *)
Microtask ==
  exit = "running" /\ \E t \in Tasks : task[t].pc \in {"got", "written", "rejected", "threw"}

(* The parked frame a wait takes: the oldest that its policy admits.             *)
ParkedHits(m) == {i \in 1..Len(session.parked) : AdmitsHeader(Want(m), session.parked[i])}
TakeParked_Newest(m) == CHOOSE i \in ParkedHits(m) : \A j \in ParkedHits(m) : j <= i
TakeParked(m) == CHOOSE i \in ParkedHits(m) : \A j \in ParkedHits(m) : i <= j
Without(s, i) == SubSeq(s, 1, i - 1) \o SubSeq(s, i + 1, Len(s))

(* readFrame() for task t, which goes on as m: one waiter at a time; an unread   *)
(* frame is there at once.                                                       *)
ReadFrame(t, m) ==
  IF reader.failed \/ reader.pending # None
  THEN task' = [task EXCEPT ![t] = [m EXCEPT !.pc = "rejected"]] /\ UNCHANGED reader
  ELSE IF reader.unread = <<>>
  THEN /\ task' = [task EXCEPT ![t] = [m EXCEPT !.pc = "reading"]]
       /\ reader' = [reader EXCEPT !.pending = t]
  ELSE /\ task' = [task EXCEPT ![t] = [m EXCEPT !.pc = "got", !.frame = Head(reader.unread)]]
       /\ reader' = [reader EXCEPT !.unread = Tail(@)]

(* AppLinkSession.receive and receiveWhileIdle: a parked frame goes first.       *)
Receive(t, m) ==
  IF session.closed
  THEN /\ task' = [task EXCEPT ![t] = [m EXCEPT !.pc = "rejected"]]
       /\ UNCHANGED <<reader, session>>
  ELSE IF ParkedHits(m) # {}
  THEN LET i == TakeParked(m)
       IN /\ task' = [task EXCEPT ![t] = [m EXCEPT !.pc = "got", !.frame = session.parked[i]]]
          /\ session' = [session EXCEPT !.parked = Without(@, i)]
          /\ UNCHANGED reader
  ELSE ReadFrame(t, m) /\ UNCHANGED session

(* AppLinkSession.writeFrame of f; the task goes on as m once it is written.     *)
WriteFrame(t, m, f) ==
  IF session.closed
  THEN task' = [task EXCEPT ![t] = [m EXCEPT !.pc = "rejected"]] /\ UNCHANGED sending
  ELSE /\ task' = [task EXCEPT ![t] = [m EXCEPT !.pc = "writing"]]
       /\ sending' = Append(sending, [by |-> t, frame |-> f])

AllocCorr_Reuses == session' = session
AllocCorr ==
  session' = [session EXCEPT !.nextCorr = IF @ + 1 = CorrLimit THEN 1 ELSE @ + 1]

(* The socket is gone: the waiting read and the writes in line are rejected and  *)
(* the unread frames are dropped.                                                *)
Released == [t \in Tasks |-> IF task[t].pc \in {"reading", "writing"}
                             THEN [task[t] EXCEPT !.pc = "rejected"] ELSE task[t]]
FailIO == /\ reader' = [pending |-> None, unread |-> <<>>, failed |-> TRUE]
          /\ sending' = <<>>

(* AppLinkSession.close, by task t, which ends as `pc`.                          *)
Close_LeavesReader(t, pc) ==
  /\ task' = [task EXCEPT ![t].pc = pc]
  /\ session' = [session EXCEPT !.closed = TRUE]
  /\ UNCHANGED <<reader, sending>>
Close(t, pc) ==
  IF session.closed
  THEN task' = [task EXCEPT ![t].pc = pc] /\ UNCHANGED <<session, reader, sending>>
  ELSE /\ task' = [Released EXCEPT ![t].pc = pc]
       /\ session' = [session EXCEPT !.closed = TRUE]
       /\ FailIO
--------------------------------------------------------------------------------
Init ==
  /\ task = [t \in Tasks |-> [pc |-> "ready", doing |-> "hello", corr |-> 0,
                              todo |-> Program[t], call |-> NoCall, frame |-> NoFrame]]
  /\ session = [closed |-> FALSE, nextCorr |-> 1, parked |-> <<>>, connected |-> FALSE]
  /\ reader = [pending |-> None, unread |-> <<>>, failed |-> FALSE]
  /\ sending = <<>> /\ toHost = <<>> /\ toApp = <<>>
  /\ exit = "running"
  /\ host = [hello |-> FALSE, windows |-> "none", pings |-> 0, quit |-> FALSE]
  /\ fault = FALSE /\ events = <<>> /\ seen = <<>>

(* AppLinkSession.connect: HELLO with the session token.                         *)
Connect ==
  /\ task[Main].pc = "ready" /\ task[Main].doing = "hello"
  /\ WriteFrame(Main, task[Main], HelloFrame)
  /\ UNCHANGED <<session, reader, toHost, toApp, exit, seen, hostVars>>

Starts(t, op) ==
  /\ session.connected
  /\ task[t].pc = "ready" /\ task[t].todo # <<>> /\ Head(task[t].todo) = op
CallId(t) == <<t, Len(task[t].todo)>>

(* echo(): allocate a correlation id and send the Call.                          *)
BeginEcho(t) ==
  /\ Starts(t, "echo")
  /\ IF session.closed
     THEN task' = [task EXCEPT ![t].pc = "threw"] /\ UNCHANGED <<session, sending>>
     ELSE LET corr == session.nextCorr
          IN /\ AllocCorr
             /\ WriteFrame(t, [task[t] EXCEPT !.doing = "echo", !.corr = corr,
                                              !.call = CallId(t)],
                           Frame("CALL", "echo", corr, "echo", CallId(t)))
  /\ UNCHANGED <<reader, toHost, toApp, exit, seen, hostVars>>

(* quitAfterLastWindowClosed: wait, without a deadline, for the host's events.   *)
BeginLifecycle(t) ==
  /\ Starts(t, "lifecycle")
  /\ Receive(t, [task[t] EXCEPT !.doing = "events"])
  /\ UNCHANGED <<sending, toHost, toApp, exit, seen, hostVars>>

(* The frame was written: read the answer, or the next event.                    *)
AfterWrite(t) ==
  /\ task[t].pc = "written"
  /\ Receive(t, [task[t] EXCEPT !.doing = IF @ = "pong" THEN "events" ELSE @])
  /\ UNCHANGED <<sending, toHost, toApp, exit, seen, hostVars>>

(* DirectedReader.receive, resumed with a frame it does not want: park it and    *)
(* read on, or fail the wait.                                                    *)
Unwanted(t) ==
  LET m == task[t] IN
  /\ m.pc = "got" /\ ~AdmitsHeader(Want(m), m.frame)
  /\ IF Parks(m, m.frame) /\ Len(session.parked) < MAX_PARKED_FRAMES
     THEN /\ session' = [session EXCEPT !.parked = Append(@, m.frame)]
          /\ ReadFrame(t, m)
     ELSE task' = [task EXCEPT ![t].pc = "rejected"] /\ UNCHANGED <<session, reader>>
  /\ UNCHANGED <<sending, toHost, toApp, exit, seen, hostVars>>

Wanted(t, doing) ==
  /\ task[t].pc = "got" /\ task[t].doing = doing
  /\ AdmitsHeader(Want(task[t]), task[t].frame)
Threw(t) == task' = [task EXCEPT ![t].pc = "threw"]
NextOp(t) == task' = [task EXCEPT ![t].pc = "ready", ![t].todo = Tail(@)]

(* The HELLO answer must carry the token.                                        *)
HelloAnswered ==
  /\ Wanted(Main, "hello")
  /\ IF task[Main].frame.body = "token"
     THEN /\ task' = [task EXCEPT ![Main].pc = "ready", ![Main].doing = "events"]
          /\ session' = [session EXCEPT !.connected = TRUE]
     ELSE task' = [task EXCEPT ![Main].pc = "rejected"] /\ UNCHANGED session
  /\ UNCHANGED <<reader, sending, toHost, toApp, exit, seen, hostVars>>

(* echo() decodes its Reply outside the session's catch.                         *)
EchoAnswered(t) ==
  /\ Wanted(t, "echo")
  /\ IF task[t].frame.body = "garbled" THEN Threw(t) ELSE NextOp(t)
  /\ UNCHANGED <<session, reader, sending, toHost, toApp, exit, seen, hostVars>>

(* The stock loop takes an event: answer a PING, pass over Ready, and send Quit  *)
(* when the last window has closed.                                              *)
TakeEvent(t) ==
  /\ Wanted(t, "events")
  /\ seen' = Append(seen, task[t].frame)
  /\ LET f == task[t].frame IN
     CASE f.kind = "PING" ->
            /\ WriteFrame(t, [task[t] EXCEPT !.doing = "pong"], f)
            /\ UNCHANGED <<session, reader>>
       [] f.kind # "PING" /\ f.body = "ready" ->
            Receive(t, task[t]) /\ UNCHANGED sending
       [] f.kind # "PING" /\ f.body = "last-window-closed" ->
            /\ AllocCorr
            /\ WriteFrame(t, [task[t] EXCEPT !.doing = "quit", !.corr = session.nextCorr],
                          Frame("CALL", "lifecycle", session.nextCorr, "quit", NoCall))
            /\ UNCHANGED reader
       [] OTHER -> Threw(t) /\ UNCHANGED <<session, reader, sending>>
  /\ UNCHANGED <<toHost, toApp, exit, hostVars>>

QuitAnswered_Trusting(t) ==
  /\ Wanted(t, "quit")
  /\ NextOp(t)
  /\ UNCHANGED <<session, reader, sending, toHost, toApp, exit, seen, hostVars>>
QuitAnswered(t) ==
  /\ Wanted(t, "quit")
  /\ IF task[t].frame.kind = "ERR" \/ task[t].frame.body # "quit" THEN Threw(t) ELSE NextOp(t)
  /\ UNCHANGED <<session, reader, sending, toHost, toApp, exit, seen, hostVars>>

(* A task is through: the application closes the session and exits with 0.       *)
Finish(t) ==
  /\ task[t].pc = "ready" /\ task[t].todo = <<>> /\ task[t].doing # "hello"
  /\ IF t = Main
     THEN Close(t, "done") /\ exit' = "0"
     ELSE /\ task' = [task EXCEPT ![t].pc = "done"]
          /\ UNCHANGED <<session, reader, sending, exit>>
  /\ UNCHANGED <<toHost, toApp, seen, hostVars>>

(* A failure: what the session caught closes it; the application closes it in    *)
(* its finally and exits with 1.                                                 *)
Fails(t) ==
  /\ task[t].pc \in {"rejected", "threw"}
  /\ IF t = Main \/ task[t].pc = "rejected"
     THEN Close(t, "failed")
     ELSE task' = [task EXCEPT ![t].pc = "failed"] /\ UNCHANGED <<session, reader, sending>>
  /\ exit' = IF t = Main THEN "1" ELSE exit
  /\ UNCHANGED <<toHost, toApp, seen, hostVars>>
--------------------------------------------------------------------------------
(* The write queue puts its first frame on the wire and resolves its caller.     *)
Flush ==
  /\ sending # <<>> /\ task[Head(sending).by].pc = "writing"
  /\ toHost' = Append(toHost, Head(sending).frame)
  /\ sending' = Tail(sending)
  /\ task' = [task EXCEPT ![Head(sending).by].pc = "written"]
  /\ UNCHANGED <<session, reader, toApp, exit, seen, hostVars>>

(* The data callback brings n frames: the waiting task gets the first.           *)
Push(n) ==
  /\ ~Microtask /\ ~reader.failed
  /\ n <= Len(toApp)
  /\ LET all == reader.unread \o SubSeq(toApp, 1, n) IN
     IF reader.pending = None
     THEN reader' = [reader EXCEPT !.unread = all] /\ UNCHANGED task
     ELSE /\ reader' = [reader EXCEPT !.pending = None, !.unread = Tail(all)]
          /\ task' = [task EXCEPT ![reader.pending].pc = "got",
                                  ![reader.pending].frame = Head(all)]
  /\ toApp' = SubSeq(toApp, n + 1, Len(toApp))
  /\ UNCHANGED <<session, sending, toHost, exit, seen, hostVars>>

(* withIoDeadline gives up on a write, or on a read that is not the idle one.    *)
TimesOut_Never(t) == task[t].pc = "writing"
TimesOut_NotQuit(t) == \/ task[t].pc = "writing"
                       \/ /\ task[t].pc = "reading"
                          /\ task[t].doing \in {"hello", "echo"}
TimesOut(t) == \/ task[t].pc = "writing"
               \/ /\ task[t].pc = "reading"
                  /\ task[t].doing # "events"
Timeout(t) ==
  /\ ~Microtask /\ TimesOut(t)
  /\ task' = [task EXCEPT ![t].pc = "rejected"]
  /\ fault' = TRUE
  /\ UNCHANGED <<session, reader, sending, toHost, toApp, exit, seen, host, events>>

(* The socket's error or close callback, with whatever was still on its way.     *)
SocketCloses ==
  /\ ~Microtask /\ ~reader.failed
  /\ task' = Released /\ FailIO
  /\ fault' = TRUE
  /\ UNCHANGED <<session, toHost, toApp, exit, seen, host, events>>

App == /\ exit = "running"
       /\ \/ Connect
          \/ HelloAnswered
          \/ \E t \in Tasks :
               \/ BeginEcho(t) \/ BeginLifecycle(t) \/ AfterWrite(t) \/ Unwanted(t)
               \/ EchoAnswered(t) \/ TakeEvent(t) \/ QuitAnswered(t)
               \/ Finish(t) \/ Fails(t)
Delivery == /\ exit = "running"
            /\ Flush \/ \E n \in 1..Len(toApp) : Push(n)
Deadline == exit = "running" /\ \E t \in Tasks : Timeout(t)
--------------------------------------------------------------------------------
Says(f) == toApp' = Append(toApp, f)

(* The host takes the app's next frame and answers it; Quit may be refused.      *)
HostHandles ==
  /\ toHost # <<>>
  /\ toHost' = Tail(toHost)
  /\ LET f == Head(toHost) IN
     CASE f.kind = "HELLO" ->
            Says(HelloFrame) /\ host' = [host EXCEPT !.hello = TRUE] /\ UNCHANGED fault
       [] f.kind = "CALL" /\ f.channel = "echo" ->
            Says(Frame("REPLY", "echo", f.corr, "echo", f.call)) /\ UNCHANGED <<host, fault>>
       [] f.kind = "CALL" /\ f.channel = "lifecycle" ->
            \/ /\ Says(Frame("REPLY", "lifecycle", f.corr, "quit", NoCall))
               /\ host' = [host EXCEPT !.quit = TRUE] /\ UNCHANGED fault
            \/ /\ Says(Frame("ERR", "lifecycle", f.corr, "refused", NoCall))
               /\ fault' = TRUE /\ UNCHANGED host
       [] OTHER -> UNCHANGED <<host, fault, toApp>>
  /\ UNCHANGED <<appVars, events>>

(* Ready once the link is up, LastWindowClosed once after it.                    *)
HostAnnounces ==
  /\ host.hello
  /\ \/ /\ host.windows = "none"
        /\ host' = [host EXCEPT !.windows = "open"]
        /\ Says(EventFrame("ready")) /\ events' = Append(events, EventFrame("ready"))
     \/ /\ host.windows = "open"
        /\ host' = [host EXCEPT !.windows = "closed"]
        /\ Says(EventFrame("last-window-closed"))
        /\ events' = Append(events, EventFrame("last-window-closed"))
  /\ UNCHANGED <<appVars, toHost, fault>>

(* A PING probe. One sent after LastWindowClosed may meet an app that waits for  *)
(* its Quit Reply and admits no PING: the host's risk, counted as a fault.       *)
HostPings ==
  /\ host.hello /\ host.pings < MaxPings
  /\ host' = [host EXCEPT !.pings = @ + 1]
  /\ Says(PingFrame(host.pings + 1)) /\ events' = Append(events, PingFrame(host.pings + 1))
  /\ fault' = (fault \/ host.windows = "closed")
  /\ UNCHANGED <<appVars, toHost>>

(* A faulty host: a frame the protocol does not allow here.                      *)
HostStrays ==
  /\ host.hello /\ ~fault
  /\ \E f \in Strays : Says(f)
  /\ fault' = TRUE
  /\ UNCHANGED <<appVars, toHost, host, events>>

Host == HostHandles \/ HostAnnounces \/ HostPings \/ HostStrays

Next == \/ App \/ Delivery \/ Deadline \/ Host
        \/ exit = "running" /\ SocketCloses

(* Continuations run, the transport moves frames, and deadlines expire. The host *)
(* owes nothing.                                                                 *)
Fairness == /\ WF_vars(App)
            /\ WF_vars(Delivery)
            /\ SF_vars(Deadline)
Spec == Init /\ [][Next]_vars /\ Fairness
--------------------------------------------------------------------------------
(* A task that accepts an echo Reply accepts the reply to its own call, whatever *)
(* other tasks have outstanding on the link.                                     *)
RepliesMatch ==
  \A t \in Tasks : Wanted(t, "echo") => task[t].frame.call = task[t].call

IsEvent(f) == f.kind \in {"EVENT", "PING"}

(* Where the i-th frame of s stands among its events.                            *)
Rank(s, i) == Cardinality({j \in 1..i : IsEvent(s[j])})

(* The events that have reached the app's code: taken, in hand, or parked.       *)
Reached ==
  LET inHand == IF task[Main].pc = "got" /\ IsEvent(task[Main].frame)
                THEN <<task[Main].frame>> ELSE <<>>
  IN seen \o (IF task[Main].doing = "echo" THEN session.parked \o inHand
               ELSE inHand \o session.parked)

(* No lifecycle frame is lost or overtaken on its way to the stock loop, though  *)
(* some wait parked while an echo is outstanding: what reached the loop, and     *)
(* after it the events unread and on the wire, are the host's events in order.   *)
EventsInOrder ==
  ~fault /\ exit = "running" /\ task[Main].pc \notin {"rejected", "threw"} =>
    LET onTheWay == reader.unread \o toApp
        reached  == Len(Reached)
    IN /\ reached + Rank(onTheWay, Len(onTheWay)) = Len(events)
       /\ \A i \in DOMAIN Reached : Reached[i] = events[i]
       /\ \A i \in DOMAIN onTheWay :
            IsEvent(onTheWay[i]) => onTheWay[i] = events[reached + Rank(onTheWay, i)]

(* The app never fails a host that behaves: Ready, PINGs and LastWindowClosed    *)
(* around an echo are no protocol errors, up to the parking budget.              *)
NoFalseAlarm ==
  \A t \in Tasks : task[t].pc \in {"rejected", "threw", "failed"}
    => fault \/ Len(events) > MAX_PARKED_FRAMES

(* The process ends with success only after the host has agreed to quit.         *)
ExitIsAgreed == exit = "0" => host.quit

(* A closed session keeps no task waiting on its reader or its writer.           *)
ClosedReleases ==
  session.closed => \A t \in Tasks : task[t].pc \notin {"reading", "writing"}

(* Once the last window has closed the process ends, whatever the host does next. *)
LastWindowExits == host.windows = "closed" /\ exit = "running" ~> exit # "running"

(* Every echo is answered or fails, whoever else uses the session.               *)
EchoSettles ==
  \A t \in Tasks : task[t].doing = "echo" /\ task[t].pc = "writing"
                     ~> \/ task[t].pc \in {"ready", "done", "failed"}
                        \/ exit # "running"
================================================================================
