---------------------------- MODULE AppLinkProofs ------------------------------
(* What the app's end of a link promises: for any tasks and programs, any strays   *)
(* of a faulty host, any parking budget, and correlation ids that wrap.            *)
EXTENDS AppLink, FiniteSetTheorems, SequenceTheorems, WellFoundedInduction, TLAPS

Corrs == 1..(CorrLimit - 1)
Ops   == {"echo", "lifecycle"}
Waits == {"writing", "written", "reading", "got"}
Calls == (Tasks \cup {None}) \X Nat
TaskRecs == [pc : Waits \cup {"ready", "rejected", "threw", "done", "failed"},
             doing : {"hello", "echo", "events", "pong", "quit"}, corr : Nat,
             todo : Seq(Ops), call : Calls, frame : Frames]
Writes == [by : Tasks, frame : Frames]

TypeOK ==
  /\ task \in [Tasks -> TaskRecs]
  /\ session \in [closed : BOOLEAN, nextCorr : Corrs, parked : Seq(Frames),
                  connected : BOOLEAN]
  /\ reader \in [pending : Tasks \cup {None}, unread : Seq(Frames), failed : BOOLEAN]
  /\ sending \in Seq(Writes)
  /\ toHost \in Seq(Frames) /\ toApp \in Seq(Frames)
  /\ exit \in {"running", "0", "1"}
  /\ host \in [hello : BOOLEAN, windows : {"none", "open", "closed"}, pings : Nat,
               quit : BOOLEAN]
  /\ fault \in BOOLEAN
  /\ events \in Seq(Frames) /\ seen \in Seq(Frames)

(* The one task that waits on the reader is the one the reader holds.             *)
Reading ==
  /\ reader.pending # None => task[reader.pending].pc \in {"reading", "rejected"}
  /\ \A t \in Tasks : task[t].pc = "reading" => reader.pending = t

(* A closed session has failed its reader, and a failed reader serves nobody.     *)
Closing ==
  /\ session.closed => reader.failed
  /\ reader.failed => reader.pending = None /\ reader.unread = <<>>
  /\ ClosedReleases

(* A task that waits for an answer or an event is at the operation that needs it. *)
Works(m) ==
  m.doing # "hello" => /\ m.todo # <<>>
                       /\ Head(m.todo) = IF m.doing = "echo" THEN "echo" ELSE "lifecycle"
Working == \A t \in Tasks : task[t].pc \in Waits => Works(task[t])

IInv == TypeOK /\ Reading /\ Closing /\ Working
--------------------------------------------------------------------------------
(* The host's agreement reaches the app only after it was given, and the main     *)
(* task is not through with its program before it has taken it.                   *)
Agrees(f) == f.kind = "REPLY" /\ f.channel = "lifecycle" /\ f.body = "quit"
Near == {toApp[i] : i \in DOMAIN toApp} \cup {reader.unread[i] : i \in DOMAIN reader.unread}
        \cup {session.parked[i] : i \in DOMAIN session.parked} \cup {task[t].frame : t \in Tasks}
Agreement ==
  \/ host.quit
  \/ /\ \A f \in Near : ~Agrees(f)
     /\ \E i \in DOMAIN task[Main].todo : task[Main].todo[i] = "lifecycle"
     /\ exit # "0"
--------------------------------------------------------------------------------
LEMMA FrameTypes ==
  /\ HelloFrame \in Frames /\ NoFrame \in Frames
  /\ \A n \in Nat : PingFrame(n) \in Frames
  /\ EventFrame("ready") \in Frames /\ EventFrame("last-window-closed") \in Frames
  /\ \A kind \in Kinds, channel \in Channels, body \in Bodies, corr \in Nat, call \in Calls :
       Frame(kind, channel, corr, body, call) \in Frames
  /\ NoCall \in Calls
<1>1. NoCall \in Calls
  BY DEF NoCall, Calls
<1>2. ASSUME NEW kind \in Kinds, NEW channel \in Channels, NEW body \in Bodies,
             NEW corr \in Nat, NEW call \in Calls
      PROVE  Frame(kind, channel, corr, body, call) \in Frames
  BY <1>2 DEF Frame, Frames, Calls
<1> QED
  BY <1>1, <1>2 DEF HelloFrame, NoFrame, PingFrame, EventFrame, Kinds, Channels, Bodies

LEMMA InitInv == Init => IInv
<1> SUFFICES ASSUME Init PROVE IInv
  OBVIOUS
<1>1. \A t \in Tasks : Program[t] \in Seq(Ops)
  BY LinkAssumption DEF Ops
<1>2. task \in [Tasks -> TaskRecs]
  BY <1>1, FrameTypes DEF Init, TaskRecs
<1>3. TypeOK
  <2>1. session \in [closed : BOOLEAN, nextCorr : Corrs, parked : Seq(Frames),
                     connected : BOOLEAN]
    BY LinkAssumption DEF Init, Corrs
  <2>2. /\ reader \in [pending : Tasks \cup {None}, unread : Seq(Frames), failed : BOOLEAN]
        /\ host \in [hello : BOOLEAN, windows : {"none", "open", "closed"}, pings : Nat,
                     quit : BOOLEAN]
    BY DEF Init
  <2>3. /\ sending \in Seq(Writes) /\ toHost \in Seq(Frames) /\ toApp \in Seq(Frames)
        /\ exit \in {"running", "0", "1"} /\ fault \in BOOLEAN
        /\ events \in Seq(Frames) /\ seen \in Seq(Frames)
    <3>1. \A S : <<>> \in Seq(S)
      OBVIOUS
    <3>2. /\ sending = <<>> /\ toHost = <<>> /\ toApp = <<>> /\ exit = "running"
          /\ fault = FALSE /\ events = <<>> /\ seen = <<>>
      BY DEF Init
    <3> QED
      BY <3>1, <3>2
  <2> QED
    BY <1>2, <2>1, <2>2, <2>3 DEF TypeOK
<1> QED
  BY <1>3 DEF Init, IInv, Reading, Closing, ClosedReleases, Working, Waits

(* A task that reads a frame.                                                     *)
LEMMA ReadFrameInv ==
  ASSUME IInv, NEW t \in Tasks, NEW m \in TaskRecs, Works(m),
         task[t].pc \in {"ready", "written", "got"},
         ReadFrame(t, m), session'.closed = session.closed
  PROVE  /\ task' \in [Tasks -> TaskRecs]
         /\ reader' \in [pending : Tasks \cup {None}, unread : Seq(Frames), failed : BOOLEAN]
         /\ Reading' /\ Closing' /\ Working'
<1> USE LinkAssumption
<1>1. /\ task \in [Tasks -> TaskRecs]
      /\ reader \in [pending : Tasks \cup {None}, unread : Seq(Frames), failed : BOOLEAN]
      /\ reader.pending # t
  BY DEF IInv, TypeOK, Reading
<1>2. CASE reader.failed \/ reader.pending # None
  <2>1. task' = [task EXCEPT ![t] = [m EXCEPT !.pc = "rejected"]] /\ reader' = reader
    BY <1>2 DEF ReadFrame
  <2>2. task' \in [Tasks -> TaskRecs] /\ task'[t].pc = "rejected"
        /\ \A u \in Tasks : u # t => task'[u] = task[u]
    BY <1>1, <2>1 DEF TaskRecs
  <2> QED
    BY <1>1, <2>1, <2>2 DEF IInv, Reading, Closing, ClosedReleases, Working, Waits
<1>3. CASE ~(reader.failed \/ reader.pending # None) /\ reader.unread = <<>>
  <2>1. /\ task' = [task EXCEPT ![t] = [m EXCEPT !.pc = "reading"]]
        /\ reader' = [reader EXCEPT !.pending = t]
    BY <1>3 DEF ReadFrame
  <2>2. /\ task' \in [Tasks -> TaskRecs] /\ task'[t].pc = "reading" /\ Works(task'[t])
        /\ \A u \in Tasks : u # t => task'[u] = task[u]
    BY <1>1, <2>1 DEF TaskRecs, Waits, Works
  <2> QED
    BY <1>1, <1>3, <2>1, <2>2 DEF IInv, Reading, Closing, ClosedReleases, Working
<1>4. CASE ~(reader.failed \/ reader.pending # None) /\ reader.unread # <<>>
  <2>1. /\ task' = [task EXCEPT ![t] = [m EXCEPT !.pc = "got", !.frame = Head(reader.unread)]]
        /\ reader' = [reader EXCEPT !.unread = Tail(@)]
    BY <1>4 DEF ReadFrame
  <2>2. Head(reader.unread) \in Frames /\ Tail(reader.unread) \in Seq(Frames)
    BY <1>1, <1>4
  <2>3. /\ task' \in [Tasks -> TaskRecs] /\ task'[t].pc = "got" /\ Works(task'[t])
        /\ \A u \in Tasks : u # t => task'[u] = task[u]
    BY <1>1, <2>1, <2>2 DEF TaskRecs, Waits, Works
  <2> QED
    BY <1>1, <1>4, <2>1, <2>2, <2>3 DEF IInv, Reading, Closing, ClosedReleases, Working
<1> QED
  BY <1>2, <1>3, <1>4

LEMMA Least ==
  ASSUME NEW S \in SUBSET Nat, S # {}
  PROVE  \E x \in S : \A y \in S : x <= y
<1> DEFINE R == OpToRel(<, Nat)
<1>1. IsWellFoundedOn(R, Nat)
  BY NatLessThanWellFounded
<1>2. \A x, y \in Nat : x < y => <<x, y>> \in R
  BY DEF OpToRel
<1> HIDE DEF R
<1>3. \E x \in S : \A y \in S : ~(<<y, x>> \in R)
  BY <1>1, WFMin
<1>4. \E x \in S : \A y \in S : ~(y < x)
  BY <1>2, <1>3
<1> QED
  BY ONLY <1>4, S \in SUBSET Nat

LEMMA WithoutIndex ==
  ASSUME NEW s \in Seq(Frames), NEW i \in 1..Len(s)
  PROVE  /\ Without(s, i) \in Seq(Frames) /\ Len(Without(s, i)) = Len(s) - 1
         /\ \A j \in 1..(Len(s) - 1) :
              Without(s, i)[j] = IF j < i THEN s[j] ELSE s[j + 1]
<1> DEFINE a == SubSeq(s, 1, i - 1)
           b == SubSeq(s, i + 1, Len(s))
<1>1. a \in Seq(Frames) /\ Len(a) = i - 1 /\ \A j \in 1..(i - 1) : a[j] = s[j]
  OBVIOUS
<1>2. b \in Seq(Frames) /\ Len(b) = Len(s) - i /\ \A j \in 1..(Len(s) - i) : b[j] = s[i + j]
  OBVIOUS
<1>3. Without(s, i) = a \o b
  BY DEF Without
<1> HIDE DEF a, b
<1>0. Len(s) \in Nat /\ i \in Nat /\ 1 <= i /\ i <= Len(s)
  OBVIOUS
<1>a. a \o b \in Seq(Frames) /\ Len(a \o b) = Len(a) + Len(b)
  BY <1>1, <1>2, ConcatProperties
<1>4. a \o b \in Seq(Frames) /\ Len(a \o b) = Len(s) - 1
  BY <1>0, <1>1, <1>2, <1>a
<1>5. ASSUME NEW j \in 1..(Len(s) - 1) PROVE (a \o b)[j] = IF j < i THEN s[j] ELSE s[j + 1]
  <2>1. CASE j < i
    BY <1>1, <1>2, <2>1
  <2>2. CASE j >= i
    <3>1. (a \o b)[j] = b[j - (i - 1)] /\ j - (i - 1) \in 1..(Len(s) - i)
      BY <1>1, <1>2, <2>2
    <3>2. b[j - (i - 1)] = s[i + (j - (i - 1))]
      BY <1>2, <3>1
    <3> QED
      BY <2>2, <3>1, <3>2
  <2>3. j < i \/ j >= i
    BY <1>0
  <2> QED
    BY <2>1, <2>2, <2>3, Zenon
<1> QED
  BY <1>3, <1>4, <1>5

(* What a wait takes from the parked frames, and what it leaves.                  *)
LEMMA TakenParked ==
  ASSUME TypeOK, NEW m, ParkedHits(m) # {}
  PROVE  /\ TakeParked(m) \in 1..Len(session.parked)
         /\ TakeParked(m) \in ParkedHits(m)
         /\ \A j \in ParkedHits(m) : TakeParked(m) <= j
         /\ session.parked[TakeParked(m)] \in Frames
         /\ Without(session.parked, TakeParked(m)) \in Seq(Frames)
<1>1. session.parked \in Seq(Frames)
  BY DEF TypeOK
<1>2. ParkedHits(m) \in SUBSET (1..Len(session.parked)) /\ ParkedHits(m) \in SUBSET Nat
  BY <1>1 DEF ParkedHits
<1>3. \E i \in ParkedHits(m) : \A j \in ParkedHits(m) : i <= j
  BY <1>2, Least
<1>4. TakeParked(m) \in ParkedHits(m) /\ \A j \in ParkedHits(m) : TakeParked(m) <= j
  BY <1>3 DEF TakeParked
<1>5. ASSUME NEW i \in 1..Len(session.parked)
      PROVE  Without(session.parked, i) \in Seq(Frames) /\ session.parked[i] \in Frames
  BY <1>1, <1>5 DEF Without
<1> QED
  BY <1>2, <1>4, <1>5

Sessions == [closed : BOOLEAN, nextCorr : Corrs, parked : Seq(Frames), connected : BOOLEAN]
Readers  == [pending : Tasks \cup {None}, unread : Seq(Frames), failed : BOOLEAN]

(* A task that waits for a frame.                                                 *)
LEMMA ReceiveInv ==
  ASSUME IInv, NEW t \in Tasks, NEW m \in TaskRecs, Works(m),
         task[t].pc \in {"ready", "written", "got"}, Receive(t, m)
  PROVE  /\ task' \in [Tasks -> TaskRecs] /\ reader' \in Readers /\ session' \in Sessions
         /\ Reading' /\ Closing' /\ Working'
<1> USE LinkAssumption
<1>1. /\ task \in [Tasks -> TaskRecs] /\ reader \in Readers /\ session \in Sessions
      /\ reader.pending # t
  BY DEF IInv, TypeOK, Reading, Readers, Sessions
<1>2. CASE session.closed
  <2>1. /\ task' = [task EXCEPT ![t] = [m EXCEPT !.pc = "rejected"]]
        /\ reader' = reader /\ session' = session
    BY <1>2 DEF Receive
  <2>2. task' \in [Tasks -> TaskRecs] /\ task'[t].pc = "rejected"
        /\ \A u \in Tasks : u # t => task'[u] = task[u]
    BY <1>1, <2>1 DEF TaskRecs
  <2> QED
    BY <1>1, <2>1, <2>2 DEF IInv, Reading, Closing, ClosedReleases, Working, Waits
<1>3. CASE ~session.closed /\ ParkedHits(m) # {}
  <2> DEFINE i == TakeParked(m)
  <2>1. /\ task' = [task EXCEPT ![t] = [m EXCEPT !.pc = "got", !.frame = session.parked[i]]]
        /\ session' = [session EXCEPT !.parked = Without(@, i)] /\ reader' = reader
    BY <1>3 DEF Receive
  <2>2. session.parked[i] \in Frames /\ Without(session.parked, i) \in Seq(Frames)
    BY <1>3, TakenParked DEF IInv
  <2> HIDE DEF i
  <2>3. session' \in Sessions /\ session'.closed = session.closed
    BY <1>1, <2>1, <2>2 DEF Sessions
  <2>4. task' \in [Tasks -> TaskRecs] /\ task'[t].pc = "got" /\ Works(task'[t])
        /\ \A u \in Tasks : u # t => task'[u] = task[u]
    BY <1>1, <2>1, <2>2 DEF TaskRecs, Waits, Works
  <2> QED
    BY <1>1, <1>3, <2>1, <2>3, <2>4 DEF IInv, Reading, Closing, ClosedReleases, Working
<1>4. CASE ~session.closed /\ ParkedHits(m) = {}
  BY <1>1, <1>4, ReadFrameInv DEF Receive, Readers
<1> QED
  BY <1>2, <1>3, <1>4

(* A task that writes a frame.                                                    *)
LEMMA WriteFrameInv ==
  ASSUME IInv, NEW t \in Tasks, NEW m \in TaskRecs, Works(m), NEW f \in Frames,
         task[t].pc \in {"ready", "got"}, WriteFrame(t, m, f),
         session'.closed = session.closed, reader' = reader
  PROVE  /\ task' \in [Tasks -> TaskRecs] /\ sending' \in Seq(Writes)
         /\ Reading' /\ Closing' /\ Working'
<1> USE LinkAssumption
<1>1. /\ task \in [Tasks -> TaskRecs] /\ sending \in Seq(Writes) /\ reader.pending # t
  BY DEF IInv, TypeOK, Reading
<1>2. CASE session.closed
  <2>1. task' = [task EXCEPT ![t] = [m EXCEPT !.pc = "rejected"]] /\ sending' = sending
    BY <1>2 DEF WriteFrame
  <2>2. task' \in [Tasks -> TaskRecs] /\ task'[t].pc = "rejected"
        /\ \A u \in Tasks : u # t => task'[u] = task[u]
    BY <1>1, <2>1 DEF TaskRecs
  <2> QED
    BY <1>1, <2>1, <2>2 DEF IInv, Reading, Closing, ClosedReleases, Working, Waits
<1>3. CASE ~session.closed
  <2>1. /\ task' = [task EXCEPT ![t] = [m EXCEPT !.pc = "writing"]]
        /\ sending' = Append(sending, [by |-> t, frame |-> f])
    BY <1>3 DEF WriteFrame
  <2>2. task' \in [Tasks -> TaskRecs] /\ task'[t].pc = "writing" /\ Works(task'[t])
        /\ \A u \in Tasks : u # t => task'[u] = task[u]
    BY <1>1, <2>1 DEF TaskRecs, Waits, Works
  <2>3. sending' \in Seq(Writes)
    BY <1>1, <2>1 DEF Writes
  <2> QED
    <3>0. reader.pending \in Tasks \cup {None}
      BY DEF IInv, TypeOK
    <3>1. Reading'
      BY <1>1, <2>2, <3>0 DEF IInv, Reading
    <3>2. Closing'
      BY <1>1, <1>3, <2>2 DEF IInv, Closing, ClosedReleases
    <3>3. ASSUME NEW u \in Tasks, task'[u].pc \in Waits PROVE Works(task'[u])
      BY <2>2, <3>3, Zenon DEF IInv, Working
    <3> QED
      BY <2>2, <2>3, <3>1, <3>2, <3>3 DEF Working
<1> QED
  BY <1>2, <1>3

(* Every task that waits is released; the rest stay as they are.                  *)
LEMMA ReleasedTypes ==
  ASSUME TypeOK
  PROVE  /\ Released \in [Tasks -> TaskRecs]
         /\ \A u \in Tasks : /\ Released[u].pc \notin {"reading", "writing"}
                             /\ Released[u].pc \in Waits => Released[u] = task[u]
<1>1. \A u \in Tasks : Released[u] = IF task[u].pc \in {"reading", "writing"}
                                    THEN [task[u] EXCEPT !.pc = "rejected"] ELSE task[u]
  BY DEF Released
<1>2. \A r \in TaskRecs : /\ [r EXCEPT !.pc = "rejected"] \in TaskRecs
                         /\ [r EXCEPT !.pc = "rejected"].pc = "rejected"
  BY DEF TaskRecs
<1>3. \A u \in Tasks : task[u] \in TaskRecs
  BY DEF TypeOK
<1>4. \A u \in Tasks : Released[u] \in TaskRecs
  BY <1>1, <1>2, <1>3, Zenon
<1>5. Released \in [Tasks -> TaskRecs]
  BY <1>4 DEF Released
<1> QED
  BY <1>1, <1>2, <1>3, <1>5 DEF Waits

(* A task that closes the session.                                                *)
LEMMA CloseInv ==
  ASSUME IInv, NEW t \in Tasks, NEW pc \in {"done", "failed"},
         task[t].pc \in {"ready", "rejected", "threw"}, Close(t, pc)
  PROVE  /\ task' \in [Tasks -> TaskRecs] /\ reader' \in Readers /\ session' \in Sessions
         /\ sending' \in Seq(Writes)
         /\ Reading' /\ Closing' /\ Working'
<1> USE LinkAssumption
<1>1. /\ task \in [Tasks -> TaskRecs] /\ reader \in Readers /\ session \in Sessions
      /\ sending \in Seq(Writes)
  BY DEF IInv, TypeOK, Readers, Sessions
<1>2. CASE session.closed
  <2>1. /\ task' = [task EXCEPT ![t].pc = pc]
        /\ session' = session /\ reader' = reader /\ sending' = sending
    BY <1>2 DEF Close
  <2>2. task' \in [Tasks -> TaskRecs] /\ task'[t].pc = pc
        /\ \A u \in Tasks : u # t => task'[u] = task[u]
    BY <1>1, <2>1 DEF TaskRecs
  <2> QED
    BY <1>1, <1>2, <2>1, <2>2 DEF IInv, Reading, Closing, ClosedReleases, Working, Waits
<1>3. CASE ~session.closed
  <2>1. /\ task' = [Released EXCEPT ![t].pc = pc]
        /\ session' = [session EXCEPT !.closed = TRUE]
        /\ reader' = [pending |-> None, unread |-> <<>>, failed |-> TRUE]
        /\ sending' = <<>>
    BY <1>3 DEF Close, FailIO
  <2>2. /\ Released \in [Tasks -> TaskRecs]
        /\ \A u \in Tasks : /\ Released[u].pc \notin {"reading", "writing"}
                            /\ Released[u].pc \in Waits => Released[u] = task[u]
    BY ReleasedTypes DEF IInv
  <2>3. task' \in [Tasks -> TaskRecs] /\ task'[t].pc = pc
        /\ \A u \in Tasks : u # t => task'[u] = Released[u]
    <3> DEFINE r == [Released[t] EXCEPT !.pc = pc]
    <3>1. Released[t] \in TaskRecs
      BY <2>2
    <3>2. r \in TaskRecs /\ r.pc = pc
      BY <3>1 DEF TaskRecs
    <3>3. task' = [Released EXCEPT ![t] = r]
      BY <2>1
    <3> HIDE DEF r
    <3> QED
      BY <2>2, <3>2, <3>3
  <2>4. reader' \in Readers /\ session' \in Sessions /\ sending' \in Seq(Writes)
    <3>1. session' \in Sessions
      BY <1>1, <2>1 DEF Sessions
    <3>2. \A S : <<>> \in Seq(S)
      OBVIOUS
    <3> QED
      BY <2>1, <3>1, <3>2 DEF Readers
  <2>5. reader'.failed /\ reader'.pending = None /\ reader'.unread = <<>>
    BY <2>1
  <2>6. \A u \in Tasks : task'[u].pc \notin {"reading", "writing"}
    BY <2>2, <2>3
  <2>7. \A u \in Tasks : task'[u].pc \in Waits => task'[u] = task[u]
    BY <2>2, <2>3 DEF Waits
  <2> QED
    BY <2>3, <2>4, <2>5, <2>6, <2>7 DEF IInv, Reading, Closing, ClosedReleases, Working
<1> QED
  BY <1>2, <1>3

(* A task that goes on without the session.                                       *)
LEMMA TaskInv ==
  ASSUME IInv, NEW t \in Tasks, NEW m \in TaskRecs,
         reader.pending # t \/ m.pc = "rejected", m.pc \notin {"reading", "writing"},
         m.pc \in Waits => Works(m),
         task' = [task EXCEPT ![t] = m], session'.closed = session.closed, reader' = reader
  PROVE  task' \in [Tasks -> TaskRecs] /\ Reading' /\ Closing' /\ Working'
<1> USE LinkAssumption
<1>1. task \in [Tasks -> TaskRecs] /\ reader.pending \in Tasks \cup {None}
  BY DEF IInv, TypeOK
<1>2. task' \in [Tasks -> TaskRecs] /\ task'[t] = m
      /\ \A u \in Tasks : u # t => task'[u] = task[u]
  BY <1>1
<1>3. Reading'
  BY <1>1, <1>2 DEF IInv, Reading
<1>4. Closing'
  BY <1>1, <1>2 DEF IInv, Closing, ClosedReleases
<1>5. ASSUME NEW u \in Tasks, task'[u].pc \in Waits PROVE Works(task'[u])
  BY <1>2, <1>5, Zenon DEF IInv, Working
<1> QED
  BY <1>2, <1>3, <1>4, <1>5 DEF Working

(* What a task's record holds.                                                    *)
LEMMA RecTypes ==
  ASSUME TypeOK, NEW t \in Tasks
  PROVE  /\ task[t] \in TaskRecs /\ task[t].frame \in Frames /\ task[t].todo \in Seq(Ops)
         /\ task[t].todo # <<>> => Tail(task[t].todo) \in Seq(Ops)
         /\ CallId(t) \in Calls
<1>1. task[t] \in TaskRecs
  BY DEF TypeOK
<1>2. task[t].frame \in Frames /\ task[t].todo \in Seq(Ops)
  BY <1>1 DEF TaskRecs
<1>3. CallId(t) \in Calls
  BY <1>2 DEF CallId, Calls
<1> QED
  BY <1>1, <1>2, <1>3

LEMMA AllocInv ==
  ASSUME session \in Sessions, AllocCorr
  PROVE  session' \in Sessions /\ session'.closed = session.closed
<1> DEFINE next == IF session.nextCorr + 1 = CorrLimit THEN 1 ELSE session.nextCorr + 1
<1>0. session.nextCorr \in Corrs
  BY DEF Sessions
<1>1. session.nextCorr \in 1..(CorrLimit - 1)
  BY <1>0 DEF Corrs
<1>2. next \in 1..(CorrLimit - 1)
  <2>1. CorrLimit \in Nat /\ CorrLimit > 1
    BY LinkAssumption
  <2>2. PICK c \in 1..(CorrLimit - 1) : c = session.nextCorr
    BY <1>1
  <2> QED
    BY <2>1, <2>2
<1>3. session' = [session EXCEPT !.nextCorr = next]
  BY DEF AllocCorr
<1> HIDE DEF next
<1> QED
  BY <1>2, <1>3 DEF Sessions, Corrs

LEMMA TypeFields ==
  TypeOK <=> /\ task \in [Tasks -> TaskRecs] /\ session \in Sessions /\ reader \in Readers
             /\ sending \in Seq(Writes) /\ toHost \in Seq(Frames) /\ toApp \in Seq(Frames)
             /\ exit \in {"running", "0", "1"}
             /\ host \in [hello : BOOLEAN, windows : {"none", "open", "closed"}, pings : Nat,
                          quit : BOOLEAN]
             /\ fault \in BOOLEAN /\ events \in Seq(Frames) /\ seen \in Seq(Frames)
BY DEF TypeOK, Sessions, Readers

LEMMA AppInv == IInv /\ App => IInv'
<1> SUFFICES ASSUME IInv, App PROVE IInv'
  OBVIOUS
<1> USE LinkAssumption
<1>1. /\ TypeOK /\ task \in [Tasks -> TaskRecs] /\ session \in Sessions /\ reader \in Readers
      /\ sending \in Seq(Writes) /\ toHost \in Seq(Frames) /\ toApp \in Seq(Frames)
      /\ exit = "running" /\ seen \in Seq(Frames)
  BY TypeFields DEF IInv, App
<1>0. /\ \A t \in Tasks : task[t] \in TaskRecs
      /\ \A t \in Tasks : task[t].frame \in Frames
      /\ \A t \in Tasks : CallId(t) \in Calls
      /\ \A t \in Tasks : task[t].todo # <<>> => Tail(task[t].todo) \in Seq(Ops)
  BY <1>1, RecTypes, Zenon
<1>2. ASSUME /\ task' \in [Tasks -> TaskRecs] /\ session' \in Sessions /\ reader' \in Readers
             /\ sending' \in Seq(Writes) /\ exit' \in {"running", "0", "1"}
             /\ seen' \in Seq(Frames) /\ UNCHANGED <<toHost, toApp, hostVars>>
             /\ Reading' /\ Closing' /\ Working'
      PROVE  IInv'
  <2>1. host' = host /\ fault' = fault /\ events' = events
    BY <1>2 DEF hostVars
  <2> QED
    BY <1>1, <1>2, <2>1, TypeFields DEF IInv, TypeOK, Sessions, Readers
<1>3. \A t \in Tasks : task[t].pc \notin {"reading", "rejected"} => reader.pending # t
  BY <1>1 DEF IInv, Reading
<1>4. \A t \in Tasks : task[t].pc \in {"got", "written"} => Works(task[t])
  BY DEF IInv, Working, Waits
<1>a. session.nextCorr \in Corrs /\ session.nextCorr \in Nat /\ session.parked \in Seq(Frames)
  <2>1. session.nextCorr \in Corrs /\ session.parked \in Seq(Frames)
    BY <1>1 DEF Sessions
  <2> QED
    BY <2>1 DEF Corrs
<1>5. CASE Connect
  <2>1. WriteFrame(Main, task[Main], HelloFrame) /\ task[Main].pc = "ready"
        /\ UNCHANGED <<session, reader, toHost, toApp, exit, seen, hostVars>>
        /\ task[Main].doing = "hello"
    BY <1>5 DEF Connect
  <2>2. task[Main] \in TaskRecs /\ HelloFrame \in Frames /\ Works(task[Main])
    BY <1>1, <2>1, FrameTypes DEF Works
  <2>3. /\ task' \in [Tasks -> TaskRecs] /\ sending' \in Seq(Writes)
        /\ Reading' /\ Closing' /\ Working'
    BY <2>1, <2>2, WriteFrameInv
  <2> QED
    BY <1>1, <1>2, <2>1, <2>3
<1>6. ASSUME NEW t \in Tasks, BeginEcho(t) PROVE IInv'
  <2>1. /\ task[t].pc = "ready" /\ task[t].todo # <<>> /\ Head(task[t].todo) = "echo"
        /\ UNCHANGED <<reader, toHost, toApp, exit, seen, hostVars>>
    BY <1>6 DEF BeginEcho, Starts
  <2>2. CASE session.closed
    <3>1. task' = [task EXCEPT ![t].pc = "threw"] /\ UNCHANGED <<session, sending>>
      BY <1>6, <2>2 DEF BeginEcho
    <3> DEFINE m == [task[t] EXCEPT !.pc = "threw"]
    <3>2. m \in TaskRecs /\ m.pc = "threw" /\ task' = [task EXCEPT ![t] = m]
      BY <1>0, <1>1, <3>1 DEF TaskRecs
    <3> HIDE DEF m
    <3>3. task' \in [Tasks -> TaskRecs] /\ Reading' /\ Closing' /\ Working'
      BY <1>3, <2>1, <3>1, <3>2, TaskInv DEF Waits
    <3> QED
      BY <1>1, <1>2, <2>1, <3>1, <3>3
  <2>3. CASE ~session.closed
    <3> DEFINE m == [task[t] EXCEPT !.doing = "echo", !.corr = session.nextCorr,
                                    !.call = CallId(t)]
               f == Frame("CALL", "echo", session.nextCorr, "echo", CallId(t))
    <3>1. AllocCorr /\ WriteFrame(t, m, f)
      BY <1>6, <2>3 DEF BeginEcho
    <3>2. CallId(t) \in Calls /\ session.nextCorr \in Nat
      BY <1>0, <1>a
    <3>3. m \in TaskRecs /\ Works(m)
      BY <1>1, <2>1, <3>2 DEF TaskRecs, Works
    <3>4. f \in Frames
      BY <3>2, FrameTypes DEF Kinds, Channels, Bodies
    <3> HIDE DEF m, f
    <3>5. session' \in Sessions /\ session'.closed = session.closed
      BY <1>1, <3>1, AllocInv
    <3>6. /\ task' \in [Tasks -> TaskRecs] /\ sending' \in Seq(Writes)
          /\ Reading' /\ Closing' /\ Working'
      BY <2>1, <3>1, <3>3, <3>4, <3>5, WriteFrameInv
    <3> QED
      BY <1>1, <1>2, <2>1, <3>5, <3>6
  <2> QED
    BY <2>2, <2>3
<1>7. ASSUME NEW t \in Tasks, BeginLifecycle(t) PROVE IInv'
  <2>1. /\ task[t].pc = "ready" /\ task[t].todo # <<>> /\ Head(task[t].todo) = "lifecycle"
        /\ UNCHANGED <<sending, toHost, toApp, exit, seen, hostVars>>
    BY <1>7 DEF BeginLifecycle, Starts
  <2> DEFINE m == [task[t] EXCEPT !.doing = "events"]
  <2>2. Receive(t, m)
    BY <1>7 DEF BeginLifecycle
  <2>3. m \in TaskRecs /\ Works(m)
    BY <1>1, <2>1 DEF TaskRecs, Works
  <2> HIDE DEF m
  <2>4. /\ task' \in [Tasks -> TaskRecs] /\ reader' \in Readers /\ session' \in Sessions
        /\ Reading' /\ Closing' /\ Working'
    BY <2>1, <2>2, <2>3, ReceiveInv
  <2> QED
    BY <1>1, <1>2, <2>1, <2>4
<1>8. ASSUME NEW t \in Tasks, AfterWrite(t) PROVE IInv'
  <2>1. task[t].pc = "written" /\ UNCHANGED <<sending, toHost, toApp, exit, seen, hostVars>>
    BY <1>8 DEF AfterWrite
  <2> DEFINE m == [task[t] EXCEPT !.doing = IF @ = "pong" THEN "events" ELSE @]
  <2>2. Receive(t, m)
    BY <1>8 DEF AfterWrite
  <2>3. m \in TaskRecs /\ Works(m)
    BY <1>1, <1>4, <2>1 DEF TaskRecs, Works, Waits
  <2> HIDE DEF m
  <2>4. /\ task' \in [Tasks -> TaskRecs] /\ reader' \in Readers /\ session' \in Sessions
        /\ Reading' /\ Closing' /\ Working'
    BY <2>1, <2>2, <2>3, ReceiveInv
  <2> QED
    BY <1>1, <1>2, <2>1, <2>4
<1>9. ASSUME NEW t \in Tasks, Unwanted(t) PROVE IInv'
  <2>1. task[t].pc = "got" /\ UNCHANGED <<sending, toHost, toApp, exit, seen, hostVars>>
    BY <1>9 DEF Unwanted
  <2>2. CASE /\ session' = [session EXCEPT !.parked = Append(@, task[t].frame)]
             /\ ReadFrame(t, task[t])
    <3>1. task[t] \in TaskRecs /\ Works(task[t]) /\ task[t].frame \in Frames
      BY <1>0, <1>1, <1>4, <2>1
    <3>2. session' \in Sessions /\ session'.closed = session.closed
      <4>1. Append(session.parked, task[t].frame) \in Seq(Frames)
        BY <1>a, <3>1
      <4> QED
        BY <1>1, <2>2, <4>1 DEF Sessions
    <3>3. /\ task' \in [Tasks -> TaskRecs] /\ reader' \in Readers
          /\ Reading' /\ Closing' /\ Working'
      BY <2>1, <2>2, <3>1, <3>2, ReadFrameInv DEF Readers
    <3> QED
      BY <1>1, <1>2, <2>1, <3>2, <3>3
  <2>3. CASE task' = [task EXCEPT ![t].pc = "rejected"] /\ UNCHANGED <<session, reader>>
    <3> DEFINE m == [task[t] EXCEPT !.pc = "rejected"]
    <3>1. m \in TaskRecs /\ m.pc = "rejected" /\ task' = [task EXCEPT ![t] = m]
      BY <1>0, <1>1, <2>3 DEF TaskRecs
    <3> HIDE DEF m
    <3>2. task' \in [Tasks -> TaskRecs] /\ Reading' /\ Closing' /\ Working'
      BY <2>3, <3>1, TaskInv DEF Waits
    <3> QED
      BY <1>1, <1>2, <2>1, <2>3, <3>2
  <2> QED
    BY <1>9, <2>2, <2>3 DEF Unwanted
<1>10. CASE HelloAnswered
  <2>1. /\ task[Main].pc = "got" /\ task[Main] \in TaskRecs
        /\ UNCHANGED <<reader, sending, toHost, toApp, exit, seen, hostVars>>
    BY <1>0, <1>1, <1>10 DEF HelloAnswered, Wanted
  <2>2. CASE /\ task' = [task EXCEPT ![Main].pc = "ready", ![Main].doing = "events"]
             /\ session' = [session EXCEPT !.connected = TRUE]
    <3> DEFINE m == [task[Main] EXCEPT !.pc = "ready", !.doing = "events"]
    <3>1. m \in TaskRecs /\ m.pc = "ready" /\ task' = [task EXCEPT ![Main] = m]
      BY <1>1, <2>1, <2>2 DEF TaskRecs
    <3> HIDE DEF m
    <3>2. session' \in Sessions /\ session'.closed = session.closed
      BY <1>1, <2>2 DEF Sessions
    <3>3. task' \in [Tasks -> TaskRecs] /\ Reading' /\ Closing' /\ Working'
      BY <1>3, <2>1, <3>1, <3>2, TaskInv DEF Waits
    <3> QED
      BY <1>1, <1>2, <2>1, <3>2, <3>3
  <2>3. CASE task' = [task EXCEPT ![Main].pc = "rejected"] /\ UNCHANGED session
    <3> DEFINE m == [task[Main] EXCEPT !.pc = "rejected"]
    <3>1. m \in TaskRecs /\ m.pc = "rejected" /\ task' = [task EXCEPT ![Main] = m]
      BY <1>1, <2>1, <2>3 DEF TaskRecs
    <3> HIDE DEF m
    <3>2. task' \in [Tasks -> TaskRecs] /\ Reading' /\ Closing' /\ Working'
      BY <2>1, <2>3, <3>1, TaskInv DEF Waits
    <3> QED
      BY <1>1, <1>2, <2>1, <2>3, <3>2
  <2> QED
    BY <1>10, <2>2, <2>3 DEF HelloAnswered
<1>11. ASSUME NEW t \in Tasks, task[t].pc = "got", Threw(t),
              UNCHANGED <<session, reader, sending, toHost, toApp, exit, hostVars>>,
              seen' \in Seq(Frames)
       PROVE  IInv'
  <2> DEFINE m == [task[t] EXCEPT !.pc = "threw"]
  <2>1. m \in TaskRecs /\ m.pc = "threw" /\ task' = [task EXCEPT ![t] = m]
    BY <1>0, <1>1, <1>11 DEF TaskRecs, Threw
  <2> HIDE DEF m
  <2>2. task' \in [Tasks -> TaskRecs] /\ Reading' /\ Closing' /\ Working'
    BY <1>3, <1>11, <2>1, TaskInv DEF Waits
  <2> QED
    BY <1>1, <1>2, <1>11, <2>2
<1>12. ASSUME NEW t \in Tasks, task[t].pc = "got", task[t].doing # "hello", NextOp(t),
              UNCHANGED <<session, reader, sending, toHost, toApp, exit, seen, hostVars>>
       PROVE  IInv'
  <2>1. task[t] \in TaskRecs /\ Tail(task[t].todo) \in Seq(Ops)
    BY <1>0, <1>1, <1>4, <1>12 DEF Works
  <2> DEFINE m == [task[t] EXCEPT !.pc = "ready", !.todo = Tail(@)]
  <2>2. m \in TaskRecs /\ m.pc = "ready" /\ task' = [task EXCEPT ![t] = m]
    BY <1>1, <1>12, <2>1 DEF TaskRecs, NextOp
  <2> HIDE DEF m
  <2>3. task' \in [Tasks -> TaskRecs] /\ Reading' /\ Closing' /\ Working'
    BY <1>3, <1>12, <2>2, TaskInv DEF Waits
  <2> QED
    BY <1>1, <1>2, <1>12, <2>3
<1>13. ASSUME NEW t \in Tasks, EchoAnswered(t) PROVE IInv'
  <2>1. /\ task[t].pc = "got" /\ task[t].doing = "echo" /\ (Threw(t) \/ NextOp(t))
        /\ UNCHANGED <<session, reader, sending, toHost, toApp, exit, seen, hostVars>>
    BY <1>13 DEF EchoAnswered, Wanted
  <2> QED
    BY <1>1, <1>11, <1>12, <2>1
<1>14. ASSUME NEW t \in Tasks, QuitAnswered(t) PROVE IInv'
  <2>1. /\ task[t].pc = "got" /\ task[t].doing = "quit" /\ (Threw(t) \/ NextOp(t))
        /\ UNCHANGED <<session, reader, sending, toHost, toApp, exit, seen, hostVars>>
    BY <1>14 DEF QuitAnswered, Wanted
  <2> QED
    BY <1>1, <1>11, <1>12, <2>1
<1>15. ASSUME NEW t \in Tasks, TakeEvent(t) PROVE IInv'
  <2>1. /\ task[t].pc = "got" /\ task[t].doing = "events"
        /\ seen' = Append(seen, task[t].frame)
        /\ UNCHANGED <<toHost, toApp, exit, hostVars>>
    BY <1>15 DEF TakeEvent, Wanted
  <2>2. /\ task[t] \in TaskRecs /\ task[t].frame \in Frames /\ Works(task[t])
        /\ seen' \in Seq(Frames)
    BY <1>0, <1>1, <1>4, <2>1
  <2>3. CASE /\ WriteFrame(t, [task[t] EXCEPT !.doing = "pong"], task[t].frame)
             /\ UNCHANGED <<session, reader>>
    <3> DEFINE m == [task[t] EXCEPT !.doing = "pong"]
    <3>1. m \in TaskRecs /\ Works(m)
      BY <2>1, <2>2 DEF TaskRecs, Works
    <3> HIDE DEF m
    <3>2. WriteFrame(t, m, task[t].frame)
      BY <2>3 DEF m
    <3>3. /\ task' \in [Tasks -> TaskRecs] /\ sending' \in Seq(Writes)
          /\ Reading' /\ Closing' /\ Working'
      BY <2>1, <2>2, <2>3, <3>1, <3>2, WriteFrameInv
    <3> QED
      BY <1>1, <1>2, <2>1, <2>2, <2>3, <3>3
  <2>4. CASE Receive(t, task[t]) /\ UNCHANGED sending
    <3>1. /\ task' \in [Tasks -> TaskRecs] /\ reader' \in Readers /\ session' \in Sessions
          /\ Reading' /\ Closing' /\ Working'
      BY <2>1, <2>2, <2>4, ReceiveInv
    <3> QED
      BY <1>1, <1>2, <2>1, <2>2, <2>4, <3>1
  <2>5. CASE /\ AllocCorr
             /\ WriteFrame(t, [task[t] EXCEPT !.doing = "quit", !.corr = session.nextCorr],
                           Frame("CALL", "lifecycle", session.nextCorr, "quit", NoCall))
             /\ UNCHANGED reader
    <3> DEFINE m == [task[t] EXCEPT !.doing = "quit", !.corr = session.nextCorr]
               f == Frame("CALL", "lifecycle", session.nextCorr, "quit", NoCall)
    <3>1. session.nextCorr \in Nat
      BY <1>1 DEF Sessions, Corrs
    <3>2. m \in TaskRecs /\ Works(m)
      BY <2>1, <2>2, <3>1 DEF TaskRecs, Works
    <3>3. f \in Frames
      BY <3>1, FrameTypes DEF Kinds, Channels, Bodies
    <3>4. WriteFrame(t, m, f)
      BY <2>5
    <3> HIDE DEF m, f
    <3>5. session' \in Sessions /\ session'.closed = session.closed
      BY <1>1, <2>5, AllocInv
    <3>6. /\ task' \in [Tasks -> TaskRecs] /\ sending' \in Seq(Writes)
          /\ Reading' /\ Closing' /\ Working'
      BY <2>1, <2>5, <3>2, <3>3, <3>4, <3>5, WriteFrameInv
    <3> QED
      BY <1>1, <1>2, <2>1, <2>2, <2>5, <3>5, <3>6
  <2>6. CASE Threw(t) /\ UNCHANGED <<session, reader, sending>>
    BY <1>11, <2>1, <2>2, <2>6
  <2> QED
    BY <1>15, <2>3, <2>4, <2>5, <2>6 DEF TakeEvent
<1>16. ASSUME NEW t \in Tasks, NEW pc \in {"done", "failed"}, Close(t, pc),
              task[t].pc \in {"ready", "rejected", "threw"},
              exit' \in {"running", "0", "1"}, UNCHANGED <<toHost, toApp, seen, hostVars>>
       PROVE  IInv'
  <2>1. /\ task' \in [Tasks -> TaskRecs] /\ reader' \in Readers /\ session' \in Sessions
        /\ sending' \in Seq(Writes) /\ Reading' /\ Closing' /\ Working'
    BY <1>16, CloseInv
  <2> QED
    BY <1>1, <1>2, <1>16, <2>1
<1>17. ASSUME NEW t \in Tasks, NEW pc \in {"done", "failed"},
              task' = [task EXCEPT ![t].pc = pc], task[t].pc \in {"ready", "threw"},
              UNCHANGED <<session, reader, sending, exit, toHost, toApp, seen, hostVars>>
       PROVE  IInv'
  <2> DEFINE m == [task[t] EXCEPT !.pc = pc]
  <2>1. m \in TaskRecs /\ m.pc = pc /\ task' = [task EXCEPT ![t] = m]
    BY <1>0, <1>1, <1>17 DEF TaskRecs
  <2> HIDE DEF m
  <2>2. task' \in [Tasks -> TaskRecs] /\ Reading' /\ Closing' /\ Working'
    BY <1>3, <1>17, <2>1, TaskInv DEF Waits
  <2> QED
    BY <1>1, <1>2, <1>17, <2>2
<1>18. ASSUME NEW t \in Tasks, Finish(t) PROVE IInv'
  BY <1>16, <1>17, <1>18 DEF Finish
<1>19. ASSUME NEW t \in Tasks, Fails(t) PROVE IInv'
  <2>1. CASE t = Main \/ task[t].pc = "rejected"
    BY <1>1, <1>16, <1>19, <2>1 DEF Fails
  <2>2. CASE t # Main /\ task[t].pc # "rejected"
    BY <1>17, <1>19, <2>2 DEF Fails
  <2> QED
    BY <2>1, <2>2
<1> QED
  BY <1>5, <1>6, <1>7, <1>8, <1>9, <1>10, <1>13, <1>14, <1>15, <1>18, <1>19 DEF App

LEMMA FlushInv == IInv /\ Flush => IInv'
<1> SUFFICES ASSUME IInv, Flush PROVE IInv'
  OBVIOUS
<1> USE LinkAssumption
<1>1. /\ TypeOK /\ task \in [Tasks -> TaskRecs] /\ sending \in Seq(Writes)
      /\ toHost \in Seq(Frames)
  BY TypeFields DEF IInv
<1>2. /\ sending # <<>> /\ task[Head(sending).by].pc = "writing"
      /\ toHost' = Append(toHost, Head(sending).frame) /\ sending' = Tail(sending)
      /\ task' = [task EXCEPT ![Head(sending).by].pc = "written"]
      /\ UNCHANGED <<session, reader, toApp, exit, seen, hostVars>>
  BY DEF Flush
<1>3. Head(sending) \in Writes /\ Tail(sending) \in Seq(Writes)
  BY <1>1, <1>2
<1>4. PICK t \in Tasks : t = Head(sending).by
  BY <1>3 DEF Writes
<1>5. PICK f \in Frames : f = Head(sending).frame
  BY <1>3 DEF Writes
<1> DEFINE m == [task[t] EXCEPT !.pc = "written"]
<1>6. task[t] \in TaskRecs /\ task[t].pc = "writing" /\ Works(task[t])
  BY <1>1, <1>2, <1>4 DEF IInv, Working, Waits
<1>7. m \in TaskRecs /\ m.pc = "written" /\ Works(m) /\ task' = [task EXCEPT ![t] = m]
  BY <1>1, <1>2, <1>4, <1>6 DEF TaskRecs, Waits, Works
<1> HIDE DEF m
<1>8. reader.pending # t
  BY <1>6 DEF IInv, Reading
<1>9. task' \in [Tasks -> TaskRecs] /\ Reading' /\ Closing' /\ Working'
  BY <1>2, <1>7, <1>8, TaskInv
<1>10. toHost' \in Seq(Frames) /\ sending' \in Seq(Writes)
  <2>1. toHost' = Append(toHost, f)
    BY <1>2, <1>5
  <2> QED
    BY <1>1, <1>2, <1>3, <2>1
<1>11. host' = host /\ fault' = fault /\ events' = events
  BY <1>2 DEF hostVars
<1> QED
  BY <1>1, <1>2, <1>9, <1>10, <1>11, TypeFields DEF IInv, TypeOK, Sessions, Readers

LEMMA PushInv ==
  ASSUME IInv, exit = "running", NEW n \in 1..Len(toApp), Push(n)
  PROVE  IInv'
<1> USE LinkAssumption
<1>1. /\ TypeOK /\ task \in [Tasks -> TaskRecs] /\ reader \in Readers /\ toApp \in Seq(Frames)
  BY TypeFields DEF IInv
<1>2. /\ ~Microtask /\ ~reader.failed
      /\ toApp' = SubSeq(toApp, n + 1, Len(toApp))
      /\ UNCHANGED <<session, sending, toHost, exit, seen, hostVars>>
  BY DEF Push
<1> DEFINE all == reader.unread \o SubSeq(toApp, 1, n)
<1>3. reader.unread \in Seq(Frames) /\ reader.pending \in Tasks \cup {None}
  BY <1>1 DEF Readers
<1>4. all \in Seq(Frames) /\ Head(all) \in Frames /\ Tail(all) \in Seq(Frames)
  <2>1. SubSeq(toApp, 1, n) \in Seq(Frames) /\ Len(SubSeq(toApp, 1, n)) = n
    BY <1>1
  <2>2. all \in Seq(Frames) /\ Len(all) = Len(reader.unread) + n
    BY <1>3, <2>1
  <2>3. Len(reader.unread) \in Nat
    BY <1>3
  <2> HIDE DEF all
  <2>4. all # <<>>
    BY <2>2, <2>3
  <2> QED
    BY <2>2, <2>4
<1>5. toApp' \in Seq(Frames)
  BY <1>1, <1>2
<1>6. host' = host /\ fault' = fault /\ events' = events
  BY <1>2 DEF hostVars
<1>7. CASE reader.pending = None
  <2>1. reader' = [reader EXCEPT !.unread = all] /\ task' = task
    BY <1>7 DEF Push
  <2> HIDE DEF all
  <2>2. reader' \in Readers /\ reader'.pending = None /\ ~reader'.failed
    BY <1>1, <1>2, <1>4, <1>7, <2>1 DEF Readers
  <2>3. Reading' /\ Closing' /\ Working'
    BY <1>2, <1>7, <2>1, <2>2 DEF IInv, Reading, Closing, ClosedReleases, Working
  <2> QED
    BY <1>1, <1>2, <1>5, <1>6, <2>1, <2>2, <2>3, TypeFields
       DEF IInv, TypeOK, Sessions, Readers
<1>8. CASE reader.pending # None
  <2>1. PICK t \in Tasks : t = reader.pending
    BY <1>3, <1>8
  <2>2. /\ reader' = [reader EXCEPT !.pending = None, !.unread = Tail(all)]
        /\ task' = [task EXCEPT ![t].pc = "got", ![t].frame = Head(all)]
    BY <1>8, <2>1 DEF Push
  <2>3. task[t].pc = "reading" /\ Works(task[t]) /\ task[t] \in TaskRecs
    <3>1. task[t].pc \in {"reading", "rejected"}
      BY <1>8, <2>1 DEF IInv, Reading
    <3>2. task[t].pc = "reading"
      BY <1>2, <3>1 DEF Microtask
    <3> QED
      BY <1>1, <3>2 DEF IInv, Working, Waits
  <2> HIDE DEF all
  <2>4. reader' \in Readers /\ reader'.pending = None /\ ~reader'.failed
    BY <1>1, <1>2, <1>4, <2>2 DEF Readers
  <2>5. /\ task' \in [Tasks -> TaskRecs] /\ task'[t].pc = "got" /\ Works(task'[t])
        /\ \A u \in Tasks : u # t => task'[u] = task[u]
    BY <1>1, <1>4, <2>2, <2>3 DEF TaskRecs, Waits, Works
  <2>6. Reading'
    BY <2>1, <2>4, <2>5 DEF IInv, Reading
  <2>7. Closing'
    BY <1>2, <2>4, <2>5 DEF IInv, Closing, ClosedReleases
  <2>8. ASSUME NEW u \in Tasks, task'[u].pc \in Waits PROVE Works(task'[u])
    BY <2>5, <2>8, Zenon DEF IInv, Working
  <2>9. Working'
    BY <2>8 DEF Working
  <2> QED
    BY <1>1, <1>2, <1>5, <1>6, <2>4, <2>5, <2>6, <2>7, <2>9, TypeFields
       DEF IInv, TypeOK, Sessions, Readers
<1> QED
  BY <1>7, <1>8

LEMMA TimeoutInv == ASSUME IInv, NEW t \in Tasks, Timeout(t) PROVE IInv'
<1> USE LinkAssumption
<1>1. TypeOK /\ task \in [Tasks -> TaskRecs]
  BY TypeFields DEF IInv
<1>2. /\ task' = [task EXCEPT ![t].pc = "rejected"] /\ fault' = TRUE
      /\ UNCHANGED <<session, reader, sending, toHost, toApp, exit, seen, host, events>>
  BY DEF Timeout
<1> DEFINE m == [task[t] EXCEPT !.pc = "rejected"]
<1>3. m \in TaskRecs /\ m.pc = "rejected" /\ task' = [task EXCEPT ![t] = m]
  BY <1>1, <1>2 DEF TaskRecs
<1> HIDE DEF m
<1>4. task' \in [Tasks -> TaskRecs] /\ Reading' /\ Closing' /\ Working'
  BY <1>2, <1>3, TaskInv DEF Waits
<1> QED
  BY <1>1, <1>2, <1>4, TypeFields DEF IInv, TypeOK, Sessions, Readers

LEMMA SocketClosesInv == IInv /\ SocketCloses => IInv'
<1> SUFFICES ASSUME IInv, SocketCloses PROVE IInv'
  OBVIOUS
<1> USE LinkAssumption
<1>1. TypeOK /\ task \in [Tasks -> TaskRecs]
  BY TypeFields DEF IInv
<1>2. /\ task' = Released /\ fault' = TRUE
      /\ reader' = [pending |-> None, unread |-> <<>>, failed |-> TRUE] /\ sending' = <<>>
      /\ UNCHANGED <<session, toHost, toApp, exit, seen, host, events>>
  BY DEF SocketCloses, FailIO
<1>3. /\ task' \in [Tasks -> TaskRecs]
      /\ \A u \in Tasks : /\ task'[u].pc \notin {"reading", "writing"}
                          /\ task'[u].pc \in Waits => task'[u] = task[u]
  BY <1>1, <1>2, ReleasedTypes
<1>4. reader' \in Readers /\ sending' \in Seq(Writes)
  <2>1. \A S : <<>> \in Seq(S)
    OBVIOUS
  <2> QED
    BY <1>2, <2>1 DEF Readers
<1>5. reader'.failed /\ reader'.pending = None /\ reader'.unread = <<>>
  BY <1>2
<1>6. Reading' /\ Closing' /\ Working'
  BY <1>3, <1>5 DEF IInv, Reading, Closing, ClosedReleases, Working
<1> QED
  BY <1>1, <1>2, <1>3, <1>4, <1>6, TypeFields DEF IInv, TypeOK, Sessions, Readers

LEMMA HostInv == IInv /\ Host => IInv'
<1> SUFFICES ASSUME IInv, Host PROVE IInv'
  OBVIOUS
<1> USE LinkAssumption
<1> DEFINE Hosts == [hello : BOOLEAN, windows : {"none", "open", "closed"}, pings : Nat,
                     quit : BOOLEAN]
<1>1. /\ TypeOK /\ toHost \in Seq(Frames) /\ toApp \in Seq(Frames) /\ host \in Hosts
      /\ fault \in BOOLEAN /\ events \in Seq(Frames)
  BY TypeFields DEF IInv
<1>2. ASSUME UNCHANGED appVars, toHost' \in Seq(Frames), toApp' \in Seq(Frames),
             host' \in Hosts, fault' \in BOOLEAN, events' \in Seq(Frames)
      PROVE  IInv'
  <2>1. /\ task' = task /\ session' = session /\ reader' = reader /\ sending' = sending
        /\ exit' = exit /\ seen' = seen
    BY <1>2 DEF appVars
  <2>2. TypeOK'
    BY <1>1, <1>2, <2>1 DEF TypeOK
  <2> QED
    BY <2>1, <2>2 DEF IInv, Reading, Closing, ClosedReleases, Working
<1>3. CASE HostHandles
  <2>1. /\ toHost # <<>> /\ toHost' = Tail(toHost)
        /\ UNCHANGED <<appVars, events>>
    BY <1>3 DEF HostHandles
  <2>2. PICK f \in Frames : f = Head(toHost)
    BY <1>1, <2>1
  <2>3. f.corr \in Nat /\ f.call \in Calls
    BY <2>2 DEF Frames, Calls
  <2>4. /\ HelloFrame \in Frames /\ Frame("REPLY", "echo", f.corr, "echo", f.call) \in Frames
        /\ Frame("REPLY", "lifecycle", f.corr, "quit", NoCall) \in Frames
        /\ Frame("ERR", "lifecycle", f.corr, "refused", NoCall) \in Frames
    BY <2>3, FrameTypes DEF Kinds, Channels, Bodies
  <2>5. /\ toApp' = toApp \/ \E g \in Frames : toApp' = Append(toApp, g)
        /\ \/ host' = host \/ host' = [host EXCEPT !.hello = TRUE]
           \/ host' = [host EXCEPT !.quit = TRUE]
        /\ fault' = fault \/ fault' = TRUE
    BY <1>3, <2>2, <2>4 DEF HostHandles, Says
  <2>6. toApp' \in Seq(Frames) /\ toHost' \in Seq(Frames)
    <3>1. toHost' \in Seq(Frames)
      BY <1>1, <2>1
    <3>2. \A g \in Frames : Append(toApp, g) \in Seq(Frames)
      BY <1>1
    <3> QED
      BY <1>1, <2>5, <3>1, <3>2
  <2>7. host' \in Hosts /\ fault' \in BOOLEAN
    BY <1>1, <2>5
  <2> QED
    BY <1>1, <1>2, <2>1, <2>6, <2>7
<1>4. CASE HostAnnounces
  <2>1. PICK f \in Frames : toApp' = Append(toApp, f) /\ events' = Append(events, f)
    BY <1>4, FrameTypes DEF HostAnnounces, Says
  <2>2. /\ \/ host' = [host EXCEPT !.windows = "open"]
           \/ host' = [host EXCEPT !.windows = "closed"]
        /\ UNCHANGED <<appVars, toHost, fault>>
    BY <1>4 DEF HostAnnounces
  <2>3. toApp' \in Seq(Frames) /\ events' \in Seq(Frames)
    BY <1>1, <2>1
  <2>4. host' \in Hosts
    BY <1>1, <2>2
  <2> QED
    BY <1>1, <1>2, <2>2, <2>3, <2>4
<1>5. CASE HostPings
  <2>1. host.pings \in Nat
    BY <1>1
  <2>2. PingFrame(host.pings + 1) \in Frames
    BY <2>1, FrameTypes
  <2>3. PICK f \in Frames : toApp' = Append(toApp, f) /\ events' = Append(events, f)
    BY <1>5, <2>2 DEF HostPings, Says
  <2>4. /\ host' = [host EXCEPT !.pings = @ + 1] /\ UNCHANGED <<appVars, toHost>>
        /\ fault' \in BOOLEAN
    BY <1>1, <1>5 DEF HostPings
  <2>5. toApp' \in Seq(Frames) /\ events' \in Seq(Frames)
    BY <1>1, <2>3
  <2>6. host' \in Hosts
    <3>1. PICK k \in Nat : k = host.pings + 1
      BY <2>1
    <3>2. host' = [host EXCEPT !.pings = k]
      BY <2>4, <3>1
    <3> QED
      BY <1>1, <3>2
  <2> QED
    BY <1>1, <1>2, <2>4, <2>5, <2>6
<1>6. CASE HostStrays
  <2>1. PICK f \in Strays : toApp' = Append(toApp, f)
    BY <1>6 DEF HostStrays, Says
  <2>2. toApp' \in Seq(Frames)
    BY <1>1, <2>1
  <2>3. UNCHANGED <<appVars, toHost, host, events>> /\ fault' = TRUE
    BY <1>6 DEF HostStrays
  <2> QED
    BY <1>1, <1>2, <2>2, <2>3
<1> QED
  BY <1>3, <1>4, <1>5, <1>6 DEF Host

LEMMA NextInv == IInv /\ [Next]_vars => IInv'
<1> SUFFICES ASSUME IInv, [Next]_vars PROVE IInv'
  OBVIOUS
<1>1. CASE App
  BY <1>1, AppInv
<1>2. CASE Delivery
  BY <1>2, FlushInv, PushInv DEF Delivery
<1>3. CASE Deadline
  BY <1>3, TimeoutInv DEF Deadline
<1>4. CASE Host
  BY <1>4, HostInv
<1>5. CASE SocketCloses
  BY <1>5, SocketClosesInv
<1>6. CASE UNCHANGED vars
  BY <1>6 DEF vars, IInv, TypeOK, Reading, Closing, ClosedReleases, Working
<1> QED
  BY <1>1, <1>2, <1>3, <1>4, <1>5, <1>6 DEF Next

(* Whatever the tasks do and whatever arrives, every task's record, the reader     *)
(* and the session agree on who waits for what.                                   *)
THEOREM InductiveInvariant == Spec => []IInv
<1>1. Init => IInv
  BY InitInv
<1>2. IInv /\ [Next]_vars => IInv'
  BY NextInv
<1> QED
  BY <1>1, <1>2, PTL DEF Spec

(* A closed session leaves no task waiting for a frame or for a write: close()    *)
(* fails the reader, and every later receive or write is rejected at once.        *)
THEOREM CloseReleasesAll == Spec => []ClosedReleases
<1>1. IInv => ClosedReleases
  BY DEF IInv, Closing
<1> QED
  BY <1>1, InductiveInvariant, PTL
--------------------------------------------------------------------------------
(* A task that reads keeps at what it is doing.                                   *)
SameWork(r, m) ==
  r.doing = m.doing /\ r.corr = m.corr /\ r.call = m.call /\ r.todo = m.todo

LEMMA ReadFrameTask ==
  ASSUME TypeOK, NEW t \in Tasks, NEW m \in TaskRecs, ReadFrame(t, m)
  PROVE  \E r \in TaskRecs : /\ task' = [task EXCEPT ![t] = r] /\ SameWork(r, m)
                            /\ r.pc \in {"rejected", "reading", "got"}
<1>1. \A pc \in {"rejected", "reading"} :
        LET r == [m EXCEPT !.pc = pc] IN r \in TaskRecs /\ SameWork(r, m) /\ r.pc = pc
  BY DEF TaskRecs, Waits, SameWork
<1>2. reader.unread \in Seq(Frames)
  BY DEF TypeOK
<1>3. CASE reader.unread = <<>> \/ reader.failed \/ reader.pending # None
  BY <1>1, <1>3 DEF ReadFrame
<1>4. CASE ~(reader.unread = <<>> \/ reader.failed \/ reader.pending # None)
  <2> DEFINE r == [m EXCEPT !.pc = "got", !.frame = Head(reader.unread)]
  <2>1. Head(reader.unread) \in Frames
    BY <1>2, <1>4
  <2>2. r \in TaskRecs /\ SameWork(r, m) /\ r.pc = "got"
    BY <2>1 DEF TaskRecs, Waits, SameWork
  <2>3. task' = [task EXCEPT ![t] = r]
    BY <1>4 DEF ReadFrame
  <2> QED
    BY <2>2, <2>3
<1> QED
  BY <1>3, <1>4

LEMMA ReceiveTask ==
  ASSUME TypeOK, NEW t \in Tasks, NEW m \in TaskRecs, Receive(t, m)
  PROVE  \E r \in TaskRecs : /\ task' = [task EXCEPT ![t] = r] /\ SameWork(r, m)
                            /\ r.pc \in {"rejected", "reading", "got"}
<1>1. CASE session.closed
  <2> DEFINE r == [m EXCEPT !.pc = "rejected"]
  <2>1. r \in TaskRecs /\ SameWork(r, m) /\ r.pc = "rejected"
    BY DEF TaskRecs, Waits, SameWork
  <2>2. task' = [task EXCEPT ![t] = r]
    BY <1>1 DEF Receive
  <2> QED
    BY <2>1, <2>2
<1>2. CASE ~session.closed /\ ParkedHits(m) # {}
  <2> DEFINE f == session.parked[TakeParked(m)]
             r == [m EXCEPT !.pc = "got", !.frame = f]
  <2>1. f \in Frames
    BY <1>2, TakenParked
  <2>2. r \in TaskRecs /\ SameWork(r, m) /\ r.pc = "got"
    BY <2>1 DEF TaskRecs, Waits, SameWork
  <2>3. task' = [task EXCEPT ![t] = r]
    BY <1>2 DEF Receive
  <2> QED
    BY <2>2, <2>3
<1>3. CASE ~session.closed /\ ParkedHits(m) = {}
  BY <1>3, ReadFrameTask DEF Receive
<1> QED
  BY <1>1, <1>2, <1>3

(* The app makes up no frame: what it holds came from the host.                   *)
LEMMA ReadFrameNear ==
  ASSUME IInv, NEW t \in Tasks, NEW m \in TaskRecs, m.frame \in Near, ReadFrame(t, m),
         toApp' = toApp, \A i \in DOMAIN session'.parked : session'.parked[i] \in Near
  PROVE  Near' \subseteq Near
<1>1. TypeOK /\ task \in [Tasks -> TaskRecs] /\ reader \in Readers
  BY TypeFields DEF IInv
<1>2. reader.unread \in Seq(Frames)
  BY <1>1 DEF Readers
<1>3. /\ \A i \in DOMAIN reader'.unread : reader'.unread[i] \in Near
      /\ \A u \in Tasks : task'[u].frame \in Near
  <2>0. \A u \in Tasks : task[u].frame \in Near
    BY DEF Near
  <2>1. \A i \in DOMAIN reader.unread : reader.unread[i] \in Near
    BY DEF Near
  <2>2. CASE \E pc \in {"rejected", "reading"} :
               /\ task' = [task EXCEPT ![t] = [m EXCEPT !.pc = pc]]
               /\ reader'.unread = reader.unread
    <3>1. PICK pc \in {"rejected", "reading"} :
               /\ task' = [task EXCEPT ![t] = [m EXCEPT !.pc = pc]]
               /\ reader'.unread = reader.unread
      BY <2>2
    <3>2. \A u \in Tasks : task'[u].frame = IF u = t THEN m.frame ELSE task[u].frame
      BY <1>1, <3>1 DEF TaskRecs
    <3> QED
      BY <2>0, <2>1, <3>1, <3>2
  <2>3. CASE /\ reader.unread # <<>>
             /\ task' = [task EXCEPT ![t] = [m EXCEPT !.pc = "got", !.frame = Head(reader.unread)]]
             /\ reader' = [reader EXCEPT !.unread = Tail(@)]
    <3>1. \A u \in Tasks : task'[u].frame = IF u = t THEN reader.unread[1] ELSE task[u].frame
      BY <1>1, <1>2, <2>3 DEF TaskRecs
    <3>2. reader'.unread = Tail(reader.unread) /\ 1 \in DOMAIN reader.unread
      BY <1>1, <1>2, <2>3 DEF Readers
    <3>3. \A i \in DOMAIN reader'.unread :
            i + 1 \in DOMAIN reader.unread /\ reader'.unread[i] = reader.unread[i + 1]
      BY <1>2, <2>3, <3>2
    <3> QED
      BY <2>0, <2>1, <3>1, <3>2, <3>3
  <2> QED
    BY <1>1, <2>2, <2>3 DEF ReadFrame, Readers
<1>4. \A i \in DOMAIN toApp' : toApp'[i] \in Near
  BY DEF Near
<1> QED
  BY <1>3, <1>4 DEF Near

LEMMA ReceiveNear ==
  ASSUME IInv, NEW t \in Tasks, NEW m \in TaskRecs, m.frame \in Near, Receive(t, m),
         toApp' = toApp
  PROVE  Near' \subseteq Near
<1>1. TypeOK /\ task \in [Tasks -> TaskRecs] /\ session \in Sessions
  BY TypeFields DEF IInv
<1>2. /\ \A u \in Tasks : task[u].frame \in Near
      /\ \A i \in DOMAIN session.parked : session.parked[i] \in Near
      /\ \A i \in DOMAIN reader.unread : reader.unread[i] \in Near
      /\ \A i \in DOMAIN toApp : toApp[i] \in Near
  BY DEF Near
<1>3. CASE session.closed
  <2>1. /\ task' = [task EXCEPT ![t] = [m EXCEPT !.pc = "rejected"]]
        /\ reader' = reader /\ session' = session
    BY <1>3 DEF Receive
  <2>2. \A u \in Tasks : task'[u].frame = IF u = t THEN m.frame ELSE task[u].frame
    BY <1>1, <2>1 DEF TaskRecs
  <2> QED
    BY <1>2, <2>1, <2>2 DEF Near
<1>4. CASE ~session.closed /\ ParkedHits(m) # {}
  <2>1. PICK i \in 1..Len(session.parked) :
          /\ task' = [task EXCEPT ![t] = [m EXCEPT !.pc = "got", !.frame = session.parked[i]]]
          /\ session' = [session EXCEPT !.parked = Without(@, i)]
          /\ reader' = reader
    BY <1>1, <1>4, TakenParked DEF Receive
  <2>2. session.parked \in Seq(Frames)
    BY <1>1 DEF Sessions
  <2>3. session'.parked = Without(session.parked, i)
    BY <1>1, <2>1 DEF Sessions
  <2>4. \A j \in DOMAIN Without(session.parked, i) :
          \E k \in DOMAIN session.parked : Without(session.parked, i)[j] = session.parked[k]
    <3>1. Len(session.parked) \in Nat
      BY <2>2
    <3>2. /\ Without(session.parked, i) \in Seq(Frames)
          /\ Len(Without(session.parked, i)) = Len(session.parked) - 1
          /\ \A j \in 1..(Len(session.parked) - 1) :
               Without(session.parked, i)[j] =
                 IF j < i THEN session.parked[j] ELSE session.parked[j + 1]
      BY <2>2, WithoutIndex
    <3>3. DOMAIN session.parked = 1..Len(session.parked)
      BY <2>2
    <3> SUFFICES ASSUME NEW j \in DOMAIN Without(session.parked, i)
                 PROVE  \E k \in DOMAIN session.parked :
                          Without(session.parked, i)[j] = session.parked[k]
      OBVIOUS
    <3>4. j \in 1..(Len(session.parked) - 1)
      BY <3>1, <3>2
    <3>5. j \in DOMAIN session.parked /\ j + 1 \in DOMAIN session.parked
      BY <3>1, <3>3, <3>4
    <3> QED
      BY <3>2, <3>4, <3>5
  <2>6. \A u \in Tasks : task'[u].frame = IF u = t THEN session.parked[i] ELSE task[u].frame
    BY <1>1, <2>1 DEF TaskRecs
  <2>7. session.parked[i] \in Near
    BY <1>2, <2>2
  <2>8. \A j \in DOMAIN session'.parked : session'.parked[j] \in Near
    BY <1>2, <2>3, <2>4
  <2> QED
    BY <1>2, <2>1, <2>6, <2>7, <2>8 DEF Near
<1>5. CASE ~session.closed /\ ParkedHits(m) = {}
  <2>1. ReadFrame(t, m) /\ session' = session
    BY <1>5 DEF Receive
  <2> QED
    BY <1>2, <2>1, ReadFrameNear
<1> QED
  BY <1>3, <1>4, <1>5

(* A task that goes on, or ends, with the frame it has.                           *)
LEMMA TaskNear ==
  ASSUME TypeOK, NEW t \in Tasks, NEW m \in TaskRecs, m.frame \in Near,
         task' = [task EXCEPT ![t] = m], UNCHANGED <<toApp, reader>>,
         session'.parked = session.parked
  PROVE  Near' \subseteq Near
<1>1. task \in [Tasks -> TaskRecs]
  BY DEF TypeOK
<1>2. \A u \in Tasks : task'[u].frame = IF u = t THEN m.frame ELSE task[u].frame
  BY <1>1
<1> QED
  BY <1>2 DEF Near

LEMMA CloseNear ==
  ASSUME IInv, NEW t \in Tasks, NEW pc \in {"done", "failed"}, Close(t, pc), toApp' = toApp
  PROVE  Near' \subseteq Near /\ \A u \in Tasks : task'[u].todo = task[u].todo
<1>1. TypeOK /\ task \in [Tasks -> TaskRecs] /\ session \in Sessions
  BY TypeFields DEF IInv
<1>2. /\ Released \in [Tasks -> TaskRecs]
      /\ \A u \in Tasks : Released[u].frame = task[u].frame /\ Released[u].todo = task[u].todo
  <2>1. \A u \in Tasks : Released[u] = task[u] \/ Released[u] = [task[u] EXCEPT !.pc = "rejected"]
    BY DEF Released
  <2>2. \A r \in TaskRecs : /\ [r EXCEPT !.pc = "rejected"].frame = r.frame
                           /\ [r EXCEPT !.pc = "rejected"].todo = r.todo
    BY DEF TaskRecs
  <2>3. \A u \in Tasks : task[u] \in TaskRecs
    BY <1>1
  <2>4. \A u \in Tasks : Released[u].frame = task[u].frame /\ Released[u].todo = task[u].todo
    BY <2>1, <2>2, <2>3, Zenon
  <2> QED
    BY <1>1, <2>4, ReleasedTypes
<1>3. ASSUME NEW T \in [Tasks -> TaskRecs], task' = [T EXCEPT ![t].pc = pc],
             \A u \in Tasks : T[u].frame = task[u].frame /\ T[u].todo = task[u].todo
      PROVE  \A u \in Tasks : task'[u].frame = task[u].frame /\ task'[u].todo = task[u].todo
  <2>1. \A u \in Tasks : task'[u].frame = T[u].frame /\ task'[u].todo = T[u].todo
    BY <1>3 DEF TaskRecs
  <2> QED
    BY <1>3, <2>1
<1>4. \A u \in Tasks : task'[u].frame = task[u].frame /\ task'[u].todo = task[u].todo
  BY <1>1, <1>2, <1>3 DEF Close
<1>5. reader'.unread = reader.unread \/ reader'.unread = <<>>
  BY DEF Close, FailIO
<1>6. session'.parked = session.parked
  BY <1>1 DEF Close, Sessions
<1>7. DOMAIN reader'.unread = {} \/ reader'.unread = reader.unread
  BY <1>5
<1> QED
  BY <1>4, <1>6, <1>7 DEF Near

(* What remains of a task's program when an operation is done.                    *)
LEMMA AgreeApp == IInv /\ Agreement /\ App => Agreement'
<1> SUFFICES ASSUME IInv, Agreement, App PROVE Agreement'
  OBVIOUS
<1> USE LinkAssumption
<1>1. /\ TypeOK /\ task \in [Tasks -> TaskRecs] /\ session \in Sessions /\ reader \in Readers
      /\ exit = "running"
  BY TypeFields DEF IInv, App
<1>0. /\ \A t \in Tasks : task[t] \in TaskRecs
      /\ \A t \in Tasks : task[t].frame \in Frames
      /\ \A t \in Tasks : task[t].todo \in Seq(Ops)
      /\ \A t \in Tasks : CallId(t) \in Calls
      /\ \A t \in Tasks : task[t].frame \in Near
  BY <1>1, RecTypes, Zenon DEF Near
<1>2. host' = host
  BY DEF App, Connect, HelloAnswered, BeginEcho, BeginLifecycle, AfterWrite, Unwanted,
         EchoAnswered, TakeEvent, QuitAnswered, Finish, Fails, hostVars
<1> SUFFICES ASSUME ~host.quit PROVE Agreement'
  BY <1>2 DEF Agreement
<1>3. /\ \A f \in Near : ~Agrees(f)
      /\ \E i \in DOMAIN task[Main].todo : task[Main].todo[i] = "lifecycle"
  BY DEF Agreement
<1>4. ASSUME Near' \subseteq Near, exit' = exit,
             \E i \in DOMAIN task'[Main].todo : task'[Main].todo[i] = "lifecycle"
      PROVE  Agreement'
  BY <1>1, <1>3, <1>4 DEF Agreement
<1>5. ASSUME NEW t \in Tasks, NEW m \in TaskRecs, m.frame = task[t].frame,
             m.todo = task[t].todo, task' = [task EXCEPT ![t] = m], UNCHANGED <<toApp, reader>>,
             session'.parked = session.parked, exit' = exit
      PROVE  Agreement'
  <2>1. Near' \subseteq Near
    BY <1>0, <1>1, <1>5, TaskNear
  <2>2. task'[Main].todo = task[Main].todo
    BY <1>1, <1>5
  <2> QED
    BY <1>3, <1>4, <1>5, <2>1, <2>2
<1>6. ASSUME NEW t \in Tasks, NEW m \in TaskRecs, m.frame = task[t].frame,
             m.todo = task[t].todo, NEW f, WriteFrame(t, m, f), UNCHANGED <<toApp, reader>>,
             session'.parked = session.parked, exit' = exit
      PROVE  Agreement'
  <2>1. PICK pc \in {"rejected", "writing"} : task' = [task EXCEPT ![t] = [m EXCEPT !.pc = pc]]
    BY <1>6 DEF WriteFrame
  <2> DEFINE r == [m EXCEPT !.pc = pc]
  <2>2. r \in TaskRecs /\ r.frame = task[t].frame /\ r.todo = task[t].todo
    BY <1>6 DEF TaskRecs, Waits
  <2>3. task' = [task EXCEPT ![t] = r]
    BY <2>1
  <2> HIDE DEF r
  <2> QED
    BY <1>5, <1>6, <2>2, <2>3
<1>7. ASSUME NEW t \in Tasks, NEW m \in TaskRecs, m.frame = task[t].frame,
             m.todo = task[t].todo, Receive(t, m), toApp' = toApp, exit' = exit
      PROVE  Agreement'
  <2>1. Near' \subseteq Near
    BY <1>0, <1>7, ReceiveNear
  <2>2. task'[t].todo = m.todo /\ \A u \in Tasks : u # t => task'[u] = task[u]
    <3>1. PICK r \in TaskRecs : task' = [task EXCEPT ![t] = r] /\ r.todo = m.todo
      BY <1>1, <1>7, ReceiveTask DEF SameWork
    <3> QED
      BY <1>1, <3>1
  <2> QED
    BY <1>3, <1>4, <1>7, <2>1, <2>2
<1>8. ASSUME NEW t \in Tasks, task[t].pc = "got", task[t].doing # "hello", NextOp(t),
             task[t].doing = "echo" \/ Agrees(task[t].frame),
             UNCHANGED <<session, reader, toApp, exit>>
      PROVE  Agreement'
  <2>1. task[t].doing = "echo"
    BY <1>0, <1>3, <1>8
  <2>2. task[t].todo # <<>> /\ Head(task[t].todo) = "echo" /\ task[t].todo \in Seq(Ops)
    BY <1>0, <1>8, <2>1 DEF IInv, Working, Works, Waits
  <2> DEFINE m == [task[t] EXCEPT !.pc = "ready", !.todo = Tail(@)]
  <2>3. /\ m \in TaskRecs /\ m.frame = task[t].frame /\ m.todo = Tail(task[t].todo)
        /\ task' = [task EXCEPT ![t] = m]
    BY <1>0, <1>1, <1>8, <2>2 DEF TaskRecs, NextOp
  <2> HIDE DEF m
  <2>4. Near' \subseteq Near
    BY <1>0, <1>1, <1>8, <2>3, TaskNear
  <2>5. task'[Main].todo = IF t = Main THEN Tail(task[t].todo) ELSE task[Main].todo
    BY <1>1, <2>3
  <2>6. PICK i \in DOMAIN task[Main].todo : task[Main].todo[i] = "lifecycle"
    BY <1>3
  <2>7. t = Main => i > 1 /\ i - 1 \in DOMAIN Tail(task[t].todo)
                    /\ Tail(task[t].todo)[i - 1] = "lifecycle"
    <3> SUFFICES ASSUME t = Main
                 PROVE  i > 1 /\ i - 1 \in DOMAIN Tail(task[t].todo)
                        /\ Tail(task[t].todo)[i - 1] = "lifecycle"
      OBVIOUS
    <3>1. PICK s \in Seq(Ops) : s = task[t].todo
      BY <2>2
    <3>2. i \in 1..Len(s) /\ s[i] = "lifecycle" /\ s # <<>> /\ s[1] = "echo"
      BY <2>2, <2>6, <3>1
    <3>3. i > 1 /\ i - 1 \in DOMAIN Tail(s) /\ Tail(s)[i - 1] = "lifecycle"
      BY <3>2
    <3> QED
      BY <3>1, <3>3
  <2> QED
    BY <1>4, <1>8, <2>4, <2>5, <2>6, <2>7
<1>9. ASSUME NEW t \in Tasks, NEW pc \in {"done", "failed"}, Close(t, pc), toApp' = toApp
      PROVE  /\ Near' \subseteq Near
             /\ \E i \in DOMAIN task'[Main].todo : task'[Main].todo[i] = "lifecycle"
  BY <1>3, <1>9, CloseNear
<1>10. CASE Connect
  BY <1>0, <1>6, <1>10 DEF Connect
<1>11. ASSUME NEW t \in Tasks, Threw(t), UNCHANGED <<session, reader, toApp, exit>>
       PROVE  Agreement'
  <2> DEFINE m == [task[t] EXCEPT !.pc = "threw"]
  <2>1. m \in TaskRecs /\ m.frame = task[t].frame /\ m.todo = task[t].todo
        /\ task' = [task EXCEPT ![t] = m]
    BY <1>0, <1>1, <1>11 DEF TaskRecs, Threw
  <2> HIDE DEF m
  <2> QED
    BY <1>5, <1>11, <2>1
<1>12. ASSUME NEW t \in Tasks, BeginEcho(t) PROVE Agreement'
  <2>1. UNCHANGED <<reader, toHost, toApp, exit, seen, hostVars>>
    BY <1>12 DEF BeginEcho
  <2>2. CASE session.closed
    BY <1>11, <1>12, <2>1, <2>2 DEF BeginEcho, Threw
  <2>3. CASE ~session.closed
    <3> DEFINE m == [task[t] EXCEPT !.doing = "echo", !.corr = session.nextCorr,
                                    !.call = CallId(t)]
               f == Frame("CALL", "echo", session.nextCorr, "echo", CallId(t))
    <3>1. AllocCorr /\ WriteFrame(t, m, f)
      BY <1>12, <2>3 DEF BeginEcho
    <3>2. session.nextCorr \in Nat
      <4>1. session.nextCorr \in Corrs
        BY <1>1 DEF Sessions
      <4> QED
        BY <4>1 DEF Corrs
    <3>3. m \in TaskRecs /\ m.frame = task[t].frame /\ m.todo = task[t].todo
      BY <1>0, <3>2 DEF TaskRecs
    <3>4. session'.parked = session.parked
      BY <1>1, <3>1 DEF AllocCorr, Sessions
    <3> HIDE DEF m, f
    <3> QED
      BY <1>6, <2>1, <3>1, <3>3, <3>4
  <2> QED
    BY <2>2, <2>3
<1>13. ASSUME NEW t \in Tasks, BeginLifecycle(t) PROVE Agreement'
  <2> DEFINE m == [task[t] EXCEPT !.doing = "events"]
  <2>1. m \in TaskRecs /\ m.frame = task[t].frame /\ m.todo = task[t].todo
    BY <1>0 DEF TaskRecs
  <2>2. Receive(t, m) /\ toApp' = toApp /\ exit' = exit
    BY <1>13 DEF BeginLifecycle
  <2> HIDE DEF m
  <2> QED
    BY <1>7, <2>1, <2>2
<1>14. ASSUME NEW t \in Tasks, AfterWrite(t) PROVE Agreement'
  <2> DEFINE m == [task[t] EXCEPT !.doing = IF @ = "pong" THEN "events" ELSE @]
  <2>1. m \in TaskRecs /\ m.frame = task[t].frame /\ m.todo = task[t].todo
    BY <1>0 DEF TaskRecs
  <2>2. Receive(t, m) /\ toApp' = toApp /\ exit' = exit
    BY <1>14 DEF AfterWrite
  <2> HIDE DEF m
  <2> QED
    BY <1>7, <2>1, <2>2
<1>15. ASSUME NEW t \in Tasks, task' = [task EXCEPT ![t].pc = "rejected"],
              UNCHANGED <<session, reader, toApp, exit>>
       PROVE  Agreement'
  <2> DEFINE m == [task[t] EXCEPT !.pc = "rejected"]
  <2>1. m \in TaskRecs /\ m.frame = task[t].frame /\ m.todo = task[t].todo
        /\ task' = [task EXCEPT ![t] = m]
    BY <1>0, <1>1, <1>15 DEF TaskRecs
  <2> HIDE DEF m
  <2> QED
    BY <1>5, <1>15, <2>1
<1>16. ASSUME NEW t \in Tasks, Unwanted(t) PROVE Agreement'
  <2>1. UNCHANGED <<sending, toHost, toApp, exit, seen, hostVars>>
    BY <1>16 DEF Unwanted
  <2>2. CASE /\ session' = [session EXCEPT !.parked = Append(@, task[t].frame)]
             /\ ReadFrame(t, task[t])
    <3>1. session.parked \in Seq(Frames) /\ session'.parked = Append(session.parked, task[t].frame)
      BY <1>1, <2>2 DEF Sessions
    <3>2. \A i \in DOMAIN session.parked : session.parked[i] \in Near
      BY DEF Near
    <3>3. \A i \in DOMAIN session'.parked : session'.parked[i] \in Near
      BY <1>0, <3>1, <3>2
    <3>4. Near' \subseteq Near
      BY <1>0, <2>1, <2>2, <3>3, ReadFrameNear
    <3>5. task'[t].todo = task[t].todo /\ \A u \in Tasks : u # t => task'[u] = task[u]
      <4>1. PICK r \in TaskRecs : task' = [task EXCEPT ![t] = r] /\ r.todo = task[t].todo
        BY <1>0, <1>1, <2>2, ReadFrameTask DEF SameWork
      <4> QED
        BY <1>1, <4>1
    <3> QED
      BY <1>3, <1>4, <2>1, <3>4, <3>5
  <2>3. CASE task' = [task EXCEPT ![t].pc = "rejected"] /\ UNCHANGED <<session, reader>>
    BY <1>15, <2>1, <2>3
  <2> QED
    BY <1>16, <2>2, <2>3 DEF Unwanted
<1>17. CASE HelloAnswered
  <2>1. UNCHANGED <<reader, sending, toHost, toApp, exit, seen, hostVars>>
    BY <1>17 DEF HelloAnswered
  <2>2. CASE /\ task' = [task EXCEPT ![Main].pc = "ready", ![Main].doing = "events"]
             /\ session' = [session EXCEPT !.connected = TRUE]
    <3> DEFINE m == [task[Main] EXCEPT !.pc = "ready", !.doing = "events"]
    <3>1. m \in TaskRecs /\ m.frame = task[Main].frame /\ m.todo = task[Main].todo
          /\ task' = [task EXCEPT ![Main] = m]
      BY <1>0, <1>1, <2>2 DEF TaskRecs
    <3>2. session'.parked = session.parked
      BY <1>1, <2>2 DEF Sessions
    <3> HIDE DEF m
    <3> QED
      BY <1>5, <2>1, <3>1, <3>2
  <2>3. CASE task' = [task EXCEPT ![Main].pc = "rejected"] /\ UNCHANGED session
    BY <1>15, <2>1, <2>3
  <2> QED
    BY <1>17, <2>2, <2>3 DEF HelloAnswered
<1>18. ASSUME NEW t \in Tasks, EchoAnswered(t) PROVE Agreement'
  BY <1>8, <1>11, <1>18 DEF EchoAnswered, Wanted
<1>19. ASSUME NEW t \in Tasks, QuitAnswered(t) PROVE Agreement'
  <2>1. /\ task[t].pc = "got" /\ task[t].doing = "quit"
        /\ AdmitsHeader(LifecycleReplyWaiter(task[t].corr), task[t].frame)
        /\ UNCHANGED <<session, reader, sending, toHost, toApp, exit, seen, hostVars>>
    BY <1>19 DEF QuitAnswered, Wanted, Want
  <2>2. /\ task[t].frame.kind \in {"REPLY", "ERR"} /\ task[t].frame.channel = "lifecycle"
    BY <2>1 DEF AdmitsHeader, LifecycleReplyWaiter
  <2>3. Threw(t) \/ (NextOp(t) /\ Agrees(task[t].frame))
    BY <1>19, <2>2 DEF QuitAnswered, Agrees
  <2> QED
    BY <1>8, <1>11, <2>1, <2>3
<1>20. ASSUME NEW t \in Tasks, TakeEvent(t) PROVE Agreement'
  <2>1. UNCHANGED <<toHost, toApp, exit, hostVars>>
    BY <1>20 DEF TakeEvent
  <2>2. CASE /\ WriteFrame(t, [task[t] EXCEPT !.doing = "pong"], task[t].frame)
             /\ UNCHANGED <<session, reader>>
    <3> DEFINE m == [task[t] EXCEPT !.doing = "pong"]
    <3>1. m \in TaskRecs /\ m.frame = task[t].frame /\ m.todo = task[t].todo
          /\ WriteFrame(t, m, task[t].frame)
      BY <1>0, <2>2 DEF TaskRecs
    <3> HIDE DEF m
    <3> QED
      BY <1>6, <2>1, <2>2, <3>1
  <2>3. CASE Receive(t, task[t])
    BY <1>0, <1>7, <2>1, <2>3
  <2>4. CASE /\ AllocCorr
             /\ WriteFrame(t, [task[t] EXCEPT !.doing = "quit", !.corr = session.nextCorr],
                           Frame("CALL", "lifecycle", session.nextCorr, "quit", NoCall))
             /\ UNCHANGED reader
    <3> DEFINE m == [task[t] EXCEPT !.doing = "quit", !.corr = session.nextCorr]
               f == Frame("CALL", "lifecycle", session.nextCorr, "quit", NoCall)
    <3>1. session.nextCorr \in Nat
      <4>1. session.nextCorr \in Corrs
        BY <1>1 DEF Sessions
      <4> QED
        BY <4>1 DEF Corrs
    <3>2. m \in TaskRecs /\ m.frame = task[t].frame /\ m.todo = task[t].todo
          /\ WriteFrame(t, m, f)
      BY <1>0, <2>4, <3>1 DEF TaskRecs
    <3>3. session'.parked = session.parked
      BY <1>1, <2>4 DEF AllocCorr, Sessions
    <3> HIDE DEF m, f
    <3> QED
      BY <1>6, <2>1, <2>4, <3>2, <3>3
  <2>5. CASE Threw(t) /\ UNCHANGED <<session, reader, sending>>
    BY <1>11, <2>1, <2>5
  <2> QED
    BY <1>20, <2>2, <2>3, <2>4, <2>5 DEF TakeEvent
<1>21. ASSUME NEW t \in Tasks, NEW pc \in {"done", "failed"}, task' = [task EXCEPT ![t].pc = pc],
              UNCHANGED <<session, reader, toApp, exit>>
       PROVE  Agreement'
  <2> DEFINE m == [task[t] EXCEPT !.pc = pc]
  <2>1. m \in TaskRecs /\ m.frame = task[t].frame /\ m.todo = task[t].todo
        /\ task' = [task EXCEPT ![t] = m]
    BY <1>0, <1>1, <1>21 DEF TaskRecs
  <2> HIDE DEF m
  <2> QED
    BY <1>5, <1>21, <2>1
<1>22. ASSUME NEW t \in Tasks, Finish(t) PROVE Agreement'
  <2>1. t # Main
    BY <1>3, <1>22 DEF Finish
  <2> QED
    BY <1>21, <1>22, <2>1 DEF Finish
<1>23. ASSUME NEW t \in Tasks, Fails(t) PROVE Agreement'
  <2>1. CASE Close(t, "failed")
    <3>1. exit' # "0" /\ toApp' = toApp
      BY <1>1, <1>23 DEF Fails
    <3> QED
      BY <1>3, <1>9, <2>1, <3>1 DEF Agreement
  <2>2. CASE ~Close(t, "failed")
    BY <1>21, <1>23, <2>2 DEF Fails
  <2> QED
    BY <2>1, <2>2
<1> QED
  BY <1>10, <1>12, <1>13, <1>14, <1>16, <1>17, <1>18, <1>19, <1>20, <1>22, <1>23 DEF App

LEMMA Joined ==
  ASSUME NEW a \in Seq(Frames), NEW b \in Seq(Frames)
  PROVE  /\ a \o b \in Seq(Frames) /\ Len(a \o b) = Len(a) + Len(b)
         /\ Len(a) \in Nat /\ Len(b) \in Nat
         /\ \A i \in 1..(Len(a) + Len(b)) :
              (a \o b)[i] = IF i <= Len(a) THEN a[i] ELSE b[i - Len(a)]
<1>1. /\ a \o b \in Seq(Frames) /\ Len(a \o b) = Len(a) + Len(b)
      /\ \A i \in 1..(Len(a) + Len(b)) :
           (a \o b)[i] = IF i <= Len(a) THEN a[i] ELSE b[i - Len(a)]
  BY ConcatProperties, Zenon
<1>2. Len(a) \in Nat /\ Len(b) \in Nat
  OBVIOUS
<1> QED
  BY <1>1, <1>2

LEMMA JoinedTwice ==
  ASSUME NEW a \in Seq(Frames), NEW b \in Seq(Frames), NEW c \in Seq(Frames)
  PROVE  (a \o b) \o c = a \o (b \o c)
BY ConcatAssociative

LEMMA TailJoined ==
  ASSUME NEW a \in Seq(Frames), a # <<>>, NEW b \in Seq(Frames)
  PROVE  /\ Tail(a) \o b = Tail(a \o b) /\ Tail(a) \in Seq(Frames)
         /\ Head(a) = (a \o b)[1] /\ Head(a) \in Frames /\ a \o b # <<>>
<1>1. /\ Tail(a) \in Seq(Frames) /\ Len(Tail(a)) = Len(a) - 1
      /\ \A i \in 1..(Len(a) - 1) : Tail(a)[i] = a[i + 1]
      /\ Head(a) = a[1] /\ Head(a) \in Frames /\ Len(a) \in Nat \ {0}
  OBVIOUS
<1>2. /\ a \o b \in Seq(Frames) /\ Len(a \o b) = Len(a) + Len(b) /\ Len(b) \in Nat
      /\ \A i \in 1..(Len(a) + Len(b)) :
           (a \o b)[i] = IF i <= Len(a) THEN a[i] ELSE b[i - Len(a)]
  BY Joined
<1>3. /\ Tail(a) \o b \in Seq(Frames)
      /\ Len(Tail(a) \o b) = Len(Tail(a)) + Len(b)
      /\ \A i \in 1..(Len(Tail(a)) + Len(b)) :
           (Tail(a) \o b)[i] = IF i <= Len(Tail(a)) THEN Tail(a)[i] ELSE b[i - Len(Tail(a))]
  BY <1>1, Joined
<1>4. a \o b # <<>>
  BY <1>1, <1>2
<1>5. /\ Tail(a \o b) \in Seq(Frames) /\ Len(Tail(a \o b)) = Len(a) + Len(b) - 1
      /\ \A i \in 1..(Len(a) + Len(b) - 1) : Tail(a \o b)[i] = (a \o b)[i + 1]
  BY <1>2, <1>4
<1>6. ASSUME NEW i \in 1..(Len(a) + Len(b) - 1) PROVE Tail(a \o b)[i] = (Tail(a) \o b)[i]
  BY <1>1, <1>2, <1>3, <1>5
<1>7. Tail(a) \o b = Tail(a \o b)
  BY <1>1, <1>2, <1>3, <1>5, <1>6, SeqEqual
<1>8. Head(a) = (a \o b)[1]
  BY <1>1, <1>2
<1> QED
  BY <1>1, <1>4, <1>7, <1>8

(* The frames on their way to the app, in order.                                  *)
Inbound == reader.unread \o toApp

(* The frames a data callback brings were on the wire.                            *)
LEMMA Arrived ==
  ASSUME TypeOK, NEW n \in 1..Len(toApp)
  PROVE  LET all == reader.unread \o SubSeq(toApp, 1, n)
             rest == SubSeq(toApp, n + 1, Len(toApp)) IN
         /\ all \in Seq(Frames) /\ rest \in Seq(Frames) /\ all # <<>>
         /\ Head(all) = Inbound[1] /\ Head(all) \in Frames
         /\ all \o rest = Inbound /\ Tail(all) \o rest = Tail(Inbound) /\ Inbound # <<>>
         /\ Inbound \in Seq(Frames)
<1> DEFINE first == SubSeq(toApp, 1, n)
           rest == SubSeq(toApp, n + 1, Len(toApp))
           all == reader.unread \o first
<1>1. reader.unread \in Seq(Frames) /\ toApp \in Seq(Frames)
  BY DEF TypeOK
<1>2. /\ first \in Seq(Frames) /\ rest \in Seq(Frames) /\ Len(first) = n
      /\ first \o rest = toApp
  <2>1. /\ first \in Seq(Frames) /\ Len(first) = n /\ \A i \in 1..n : first[i] = toApp[i]
        /\ rest \in Seq(Frames) /\ Len(rest) = Len(toApp) - n
        /\ \A i \in 1..(Len(toApp) - n) : rest[i] = toApp[n + i]
    BY <1>1
  <2>2. Len(toApp) \in Nat /\ n \in Nat /\ n <= Len(toApp)
    BY <1>1
  <2> HIDE DEF first, rest
  <2>3. /\ first \o rest \in Seq(Frames) /\ Len(first \o rest) = Len(toApp)
        /\ \A i \in 1..Len(toApp) :
             (first \o rest)[i] = IF i <= n THEN first[i] ELSE rest[i - n]
    BY <2>1, <2>2, Joined
  <2>4. \A i \in 1..Len(toApp) : (first \o rest)[i] = toApp[i]
    BY <2>1, <2>2, <2>3
  <2>5. first \o rest = toApp
    BY <1>1, <2>3, <2>4, SeqEqual
  <2> QED
    BY <2>1, <2>5
<1> HIDE DEF first, rest
<1>3. /\ all \in Seq(Frames) /\ Len(all) = Len(reader.unread) + n
      /\ Len(reader.unread) \in Nat /\ n \in Nat /\ n >= 1
  <2>1. n \in Nat /\ n >= 1
    OBVIOUS
  <2>2. first \in Seq(Frames) /\ reader.unread \in Seq(Frames)
    BY <1>1, <1>2
  <2>3. /\ all \in Seq(Frames) /\ Len(all) = Len(reader.unread) + Len(first)
        /\ Len(reader.unread) \in Nat
    BY ONLY <2>2, Joined, Zenon
  <2> QED
    BY <1>2, <2>1, <2>3
<1>4. all \o rest = Inbound
  <2>1. first \in Seq(Frames) /\ reader.unread \in Seq(Frames) /\ rest \in Seq(Frames)
    BY <1>1, <1>2
  <2>2. (reader.unread \o first) \o rest = reader.unread \o (first \o rest)
    BY ONLY <2>1, JoinedTwice, Zenon
  <2> QED
    BY <1>2, <2>2 DEF Inbound
<1> HIDE DEF all
<1>5. all # <<>>
  BY <1>3
<1>6. /\ Tail(all) \o rest = Tail(all \o rest) /\ Head(all) = (all \o rest)[1]
      /\ all \o rest # <<>> /\ all \o rest \in Seq(Frames) /\ Head(all) \in Frames
  BY <1>2, <1>3, <1>5, TailJoined, Joined
<1> QED
  BY <1>2, <1>3, <1>4, <1>5, <1>6 DEF all, first, rest

LEMMA AgreePush ==
  ASSUME IInv, Agreement, exit = "running", NEW n \in 1..Len(toApp), Push(n)
  PROVE  Agreement'
<1> USE LinkAssumption
<1>1. /\ TypeOK /\ task \in [Tasks -> TaskRecs] /\ reader \in Readers
      /\ reader.pending \in Tasks \cup {None}
      /\ reader.unread \in Seq(Frames) /\ toApp \in Seq(Frames)
  BY TypeFields DEF IInv, TypeOK
<1> DEFINE all == reader.unread \o SubSeq(toApp, 1, n)
           rest == SubSeq(toApp, n + 1, Len(toApp))
<1>2. /\ all \in Seq(Frames) /\ rest \in Seq(Frames) /\ all # <<>> /\ all \o rest = Inbound
  BY <1>1, Arrived
<1>3. /\ toApp' = rest /\ host' = host /\ session' = session /\ exit' = exit
      /\ \/ reader'.unread = all /\ task' = task
         \/ \E t \in Tasks :
              /\ reader'.unread = Tail(all)
              /\ task' = [task EXCEPT ![t].pc = "got", ![t].frame = Head(all)]
  BY <1>1 DEF Push, hostVars, Readers
<1> HIDE DEF all, rest
<1>4. /\ \A i \in DOMAIN Inbound : Inbound[i] \in Near
  <2>1. \A i \in 1..(Len(reader.unread) + Len(toApp)) :
          Inbound[i] = IF i <= Len(reader.unread) THEN reader.unread[i]
                       ELSE toApp[i - Len(reader.unread)]
    BY <1>1, Joined DEF Inbound
  <2>2. Inbound \in Seq(Frames) /\ Len(Inbound) = Len(reader.unread) + Len(toApp)
        /\ Len(reader.unread) \in Nat /\ Len(toApp) \in Nat
    BY <1>1, Joined DEF Inbound
  <2>3. /\ \A i \in 1..Len(reader.unread) : reader.unread[i] \in Near
        /\ \A i \in 1..Len(toApp) : toApp[i] \in Near
    BY <1>1 DEF Near
  <2>4. DOMAIN Inbound = 1..(Len(reader.unread) + Len(toApp))
    BY <2>2
  <2>5. ASSUME NEW i \in 1..(Len(reader.unread) + Len(toApp)) PROVE Inbound[i] \in Near
    <3>1. CASE i <= Len(reader.unread)
      BY <2>1, <2>2, <2>3, <3>1
    <3>2. CASE ~(i <= Len(reader.unread))
      <4>1. i - Len(reader.unread) \in 1..Len(toApp)
        BY <2>2, <3>2
      <4> QED
        BY <2>1, <2>3, <3>2, <4>1
    <3> QED
      BY <3>1, <3>2
  <2> QED
    BY <2>4, <2>5
<1>5. /\ \A i \in DOMAIN all : all[i] \in Near
      /\ \A i \in DOMAIN rest : rest[i] \in Near
  <2>1. /\ Len(all \o rest) = Len(all) + Len(rest) /\ Len(all) \in Nat /\ Len(rest) \in Nat
        /\ \A i \in 1..(Len(all) + Len(rest)) :
             (all \o rest)[i] = IF i <= Len(all) THEN all[i] ELSE rest[i - Len(all)]
        /\ all \o rest \in Seq(Frames)
    BY <1>2, Joined
  <2>2. \A i \in 1..(Len(all) + Len(rest)) : (all \o rest)[i] \in Near
    <3>1. DOMAIN (all \o rest) = 1..(Len(all) + Len(rest))
      BY <2>1
    <3>2. \A i \in DOMAIN (all \o rest) : (all \o rest)[i] \in Near
      BY <1>2, <1>4
    <3> QED
      BY <3>1, <3>2, Zenon
  <2>3. \A i \in 1..Len(all) : all[i] \in Near
    BY <2>1, <2>2
  <2>4. ASSUME NEW i \in 1..Len(rest) PROVE rest[i] \in Near
    <3>1. /\ i + Len(all) \in 1..(Len(all) + Len(rest)) /\ ~(i + Len(all) <= Len(all))
          /\ (i + Len(all)) - Len(all) = i
      BY <2>1
    <3> QED
      BY <2>1, <2>2, <3>1
  <2> QED
    BY <1>2, <2>3, <2>4
<1>6. /\ \A i \in DOMAIN Tail(all) : Tail(all)[i] \in Near
      /\ Head(all) \in Near /\ Head(all) \in Frames
  BY <1>2, <1>5
<1>7. /\ \A i \in DOMAIN reader'.unread : reader'.unread[i] \in Near
      /\ \A u \in Tasks : task'[u].frame \in Near /\ task'[u].todo = task[u].todo
  <2>1. \A u \in Tasks : task[u].frame \in Near /\ task[u] \in TaskRecs
    BY <1>1 DEF Near
  <2>2. CASE reader'.unread = all /\ task' = task
    BY <1>5, <2>1, <2>2
  <2>3. CASE \E t \in Tasks :
              /\ reader'.unread = Tail(all)
              /\ task' = [task EXCEPT ![t].pc = "got", ![t].frame = Head(all)]
    <3>1. PICK t \in Tasks :
              /\ reader'.unread = Tail(all)
              /\ task' = [task EXCEPT ![t].pc = "got", ![t].frame = Head(all)]
      BY <2>3
    <3>2. \A u \in Tasks : /\ task'[u].frame = IF u = t THEN Head(all) ELSE task[u].frame
                           /\ task'[u].todo = task[u].todo
      BY <1>1, <3>1 DEF TaskRecs
    <3> QED
      BY <1>6, <2>1, <3>1, <3>2
  <2> QED
    BY <1>3, <2>2, <2>3
<1>8. Near' \subseteq Near
  <2>1. \A i \in DOMAIN session'.parked : session'.parked[i] \in Near
    BY <1>3 DEF Near
  <2>2. \A i \in DOMAIN toApp' : toApp'[i] \in Near
    BY <1>3, <1>5
  <2>3. \A i \in DOMAIN reader'.unread : reader'.unread[i] \in Near
    BY <1>7
  <2>4. \A u \in Tasks : task'[u].frame \in Near
    BY <1>7
  <2>5. ASSUME NEW f \in Near' PROVE f \in Near
    <3>1. \/ \E i \in DOMAIN toApp' : f = toApp'[i]
          \/ \E i \in DOMAIN reader'.unread : f = reader'.unread[i]
          \/ \E i \in DOMAIN session'.parked : f = session'.parked[i]
          \/ \E u \in Tasks : f = task'[u].frame
      BY <2>5, Zenon DEF Near
    <3> QED
      BY <2>1, <2>2, <2>3, <2>4, <3>1, Zenon
  <2> QED
    BY <2>5
<1> QED
  BY <1>3, <1>7, <1>8 DEF Agreement

LEMMA AgreeHost ==
  ASSUME \A f \in Strays : ~Agrees(f), IInv, Agreement, Host
  PROVE  Agreement'
<1> USE LinkAssumption
<1>1. /\ TypeOK /\ toApp \in Seq(Frames) /\ toHost \in Seq(Frames)
      /\ host \in [hello : BOOLEAN, windows : {"none", "open", "closed"}, pings : Nat,
                   quit : BOOLEAN]
  BY TypeFields DEF IInv
<1>2. task' = task /\ session' = session /\ reader' = reader /\ exit' = exit
  BY DEF Host, HostHandles, HostAnnounces, HostPings, HostStrays, appVars
<1>3. \/ host'.quit
      \/ /\ host'.quit = host.quit
         /\ toApp' = toApp \/ \E f : toApp' = Append(toApp, f) /\ ~Agrees(f)
  <2>1. CASE HostHandles
    BY <1>1, <2>1 DEF HostHandles, Says, HelloFrame, Frame, Agrees
  <2>2. CASE HostAnnounces
    BY <1>1, <2>2 DEF HostAnnounces, Says, EventFrame, Frame, Agrees
  <2>3. CASE HostPings
    BY <1>1, <2>3 DEF HostPings, Says, PingFrame, Frame, Agrees
  <2>4. CASE HostStrays
    BY <1>1, <2>4 DEF HostStrays, Says
  <2> QED
    BY <2>1, <2>2, <2>3, <2>4 DEF Host
<1>4. CASE host'.quit
  BY <1>4 DEF Agreement
<1>5. CASE host.quit
  BY <1>3, <1>5 DEF Agreement
<1>6. CASE /\ ~host.quit
           /\ toApp' = toApp \/ \E f : toApp' = Append(toApp, f) /\ ~Agrees(f)
  <2>1. \A f \in Near : ~Agrees(f)
    BY <1>6 DEF Agreement
  <2>2. \A i \in DOMAIN toApp : ~Agrees(toApp[i])
    BY <2>1 DEF Near
  <2>3. \A i \in DOMAIN toApp' : ~Agrees(toApp'[i])
    <3>1. CASE toApp' = toApp
      BY <2>2, <3>1
    <3>2. CASE \E f : toApp' = Append(toApp, f) /\ ~Agrees(f)
      <4>1. PICK f : toApp' = Append(toApp, f) /\ ~Agrees(f)
        BY <3>2
      <4>2. /\ DOMAIN toApp' = 1..(Len(toApp) + 1) /\ DOMAIN toApp = 1..Len(toApp)
            /\ \A i \in 1..Len(toApp) : toApp'[i] = toApp[i]
            /\ toApp'[Len(toApp) + 1] = f /\ Len(toApp) \in Nat
        BY <1>1, <4>1
      <4>3. \A i \in DOMAIN toApp' : i \in DOMAIN toApp \/ i = Len(toApp) + 1
        BY <4>2
      <4> QED
        BY <2>2, <4>1, <4>2, <4>3
    <3> QED
      BY <1>6, <3>1, <3>2
  <2>4. \A f \in Near' : f \in Near \/ \E i \in DOMAIN toApp' : f = toApp'[i]
    BY <1>2 DEF Near
  <2>5. \A f \in Near' : ~Agrees(f)
    BY <2>1, <2>3, <2>4
  <2> QED
    BY <1>2, <1>6, <2>5 DEF Agreement
<1> QED
  BY <1>3, <1>4, <1>5, <1>6

LEMMA AgreeNext ==
  ASSUME \A f \in Strays : ~Agrees(f), IInv, Agreement, [Next]_vars
  PROVE  Agreement'
<1> USE LinkAssumption
<1>1. TypeOK /\ task \in [Tasks -> TaskRecs] /\ sending \in Seq(Writes)
  BY TypeFields DEF IInv
<1>2. ASSUME UNCHANGED <<reader, session, toApp, exit, host>>,
             \A t \in Tasks : task'[t].frame = task[t].frame /\ task'[t].todo = task[t].todo
      PROVE  Agreement'
  <2>1. Near' = Near
    BY <1>2 DEF Near
  <2> QED
    BY <1>2, <2>1 DEF Agreement
<1>3. CASE App
  BY <1>3, AgreeApp
<1>4. CASE Flush
  <2>1. /\ sending # <<>> /\ UNCHANGED <<reader, session, toApp, exit, hostVars>>
        /\ task' = [task EXCEPT ![Head(sending).by].pc = "written"]
    BY <1>4 DEF Flush
  <2>2. Head(sending) \in Writes
    BY <1>1, <2>1
  <2>3. PICK t \in Tasks : t = Head(sending).by
    BY <2>2 DEF Writes
  <2>4. \A u \in Tasks : task'[u].frame = task[u].frame /\ task'[u].todo = task[u].todo
    BY <1>1, <2>1, <2>3 DEF TaskRecs
  <2> QED
    BY <1>2, <2>1, <2>4 DEF hostVars
<1>5. CASE exit = "running" /\ \E n \in 1..Len(toApp) : Push(n)
  BY <1>5, AgreePush
<1>6. CASE Deadline
  <2>1. PICK t \in Tasks : Timeout(t)
    BY <1>6 DEF Deadline
  <2>2. /\ task' = [task EXCEPT ![t].pc = "rejected"]
        /\ UNCHANGED <<reader, session, toApp, exit, host>>
    BY <2>1 DEF Timeout
  <2>3. \A u \in Tasks : task'[u].frame = task[u].frame /\ task'[u].todo = task[u].todo
    BY <1>1, <2>2 DEF TaskRecs
  <2> QED
    BY <1>2, <2>2, <2>3
<1>7. CASE Host
  BY <1>7, AgreeHost
<1>8. CASE SocketCloses
  <2>1. /\ task' = Released /\ reader'.unread = <<>>
        /\ UNCHANGED <<session, toApp, exit, host>>
    BY <1>8 DEF SocketCloses, FailIO
  <2>2. \A u \in Tasks : Released[u] = task[u] \/ Released[u] = [task[u] EXCEPT !.pc = "rejected"]
    BY DEF Released
  <2>3. \A r \in TaskRecs : /\ [r EXCEPT !.pc = "rejected"].frame = r.frame
                           /\ [r EXCEPT !.pc = "rejected"].todo = r.todo
    BY DEF TaskRecs
  <2>4. \A u \in Tasks : task[u] \in TaskRecs
    BY <1>1
  <2>5. \A u \in Tasks : task'[u].frame = task[u].frame /\ task'[u].todo = task[u].todo
    BY <2>1, <2>2, <2>3, <2>4, Zenon
  <2>6. DOMAIN reader'.unread = {}
    BY <2>1
  <2>7. Near' \subseteq Near
    BY <2>1, <2>5, <2>6 DEF Near
  <2> QED
    BY <2>1, <2>5, <2>7 DEF Agreement
<1>9. CASE UNCHANGED vars
  BY <1>2, <1>9 DEF vars
<1> QED
  BY <1>3, <1>4, <1>5, <1>6, <1>7, <1>8, <1>9 DEF Next, Delivery

(* Of an application whose main task runs the stock lifecycle, and a host that    *)
(* forges no agreement: the process exits with success only after the host has    *)
(* agreed to quit, whatever else is lost, refused or out of order.                *)
THEOREM ExitWaitsForHost ==
  ASSUME \A f \in Strays : ~Agrees(f),
         \E i \in DOMAIN Program[Main] : Program[Main][i] = "lifecycle"
  PROVE  Spec => []ExitIsAgreed
<1>1. Init => IInv /\ Agreement
  <2> SUFFICES ASSUME Init PROVE Agreement
    BY InitInv
  <2>1. \A f \in Near : f = NoFrame
    BY DEF Init, Near
  <2>2. ~Agrees(NoFrame)
    BY DEF NoFrame, Frame, Agrees
  <2>3. task[Main].todo = Program[Main] /\ exit = "running"
    BY LinkAssumption DEF Init
  <2> QED
    BY <2>1, <2>2, <2>3 DEF Agreement
<1>2. IInv /\ Agreement /\ [Next]_vars => (IInv /\ Agreement)'
  BY NextInv, AgreeNext
<1>3. IInv /\ Agreement => ExitIsAgreed
  BY DEF Agreement, ExitIsAgreed
<1> QED
  BY <1>1, <1>2, <1>3, PTL DEF Spec
--------------------------------------------------------------------------------
(* The frames on their way, and those to the host in order.                       *)
Carried(s) == {s[i] : i \in DOMAIN s}
Queued(s)  == [i \in DOMAIN s |-> s[i].frame]
Outbound == toHost \o Queued(sending)
InFlight == Carried(Inbound) \cup Carried(Outbound)

(* Calls and their answers carry a correlation id of the session. Its age says    *)
(* how many ids have been allocated since, itself included, when n is the next.   *)
Answerable(f) == f.kind \in {"CALL", "REPLY", "ERR"}
Age(n, c) == n - c + (IF c < n THEN 0 ELSE CorrLimit - 1)
Older(n, f, g) == Answerable(f) /\ Answerable(g) => Age(n, f.corr) > Age(n, g.corr)
Ordered(n, s) == \A i, j \in DOMAIN s : i < j => Older(n, s[i], s[j])

(* Frames a to the app and b to the host: whole calls and answers, oldest first.  *)
Line(n, a, b) ==
  /\ \A f \in Carried(a) \cup Carried(b) : Answerable(f) => f.corr \in Corrs
  /\ Ordered(n, a) /\ Ordered(n, b)
  /\ \A f \in Carried(a), g \in Carried(b) : Older(n, f, g)
  /\ \A f \in Carried(b) : /\ f.kind \in {"CALL", "HELLO", "PING"}
                           /\ f.kind = "CALL" => f.channel \in {"echo", "lifecycle"}
Aged == /\ Line(session.nextCorr, Inbound, Outbound)
        /\ \A f \in Carried(session.parked) : ~Answerable(f)

(* A settled task has no call of its own in flight: it may allocate the next id.  *)
Own(m) == Answerable(m.frame) /\ m.frame.corr = m.corr
Settled(m) == \/ m.pc = "ready"
              \/ m.doing \in {"hello", "events", "pong"}
              \/ m.pc = "got" /\ Own(m)
Awaits(m) == m.pc \in Waits /\ ~Settled(m)

(* Every id as young as a frame in flight belongs to a task that is not settled.  *)
Covered ==
  \A f \in InFlight : Answerable(f) =>
    \A c \in Corrs : Age(session.nextCorr, c) <= Age(session.nextCorr, f.corr) =>
      \E u \in Tasks : task[u].corr = c /\ ~Settled(task[u])

(* No further frame will come: the reader failed, or a task is about to close.    *)
Dooms(m) == \/ m.pc = "rejected"
            \/ m.pc = "got" /\ Answerable(m.frame) /\ ~AdmitsHeader(Want(m), m.frame)
Doomed == reader.failed \/ \E t \in Tasks : Dooms(task[t])

(* Each task that waits for an answer waits for a call in flight, and no other    *)
(* waits for the same one.                                                        *)
Distinct ==
  ~Doomed =>
    /\ \A t \in Tasks : Awaits(task[t]) =>
         \E f \in InFlight : Answerable(f) /\ f.corr = task[t].corr
    /\ \A t, u \in Tasks : Awaits(task[t]) /\ Awaits(task[u]) /\ task[t].corr = task[u].corr
                             => t = u

(* The answer that reaches a task, or may reach it, is the answer to its call.    *)
Replies(m, f) ==
  Answerable(f) /\ f.channel = "echo" /\ f.corr = m.corr => f.call = m.call
Matched ==
  /\ \A t \in Tasks : task[t].doing = "echo" /\ Awaits(task[t]) =>
       /\ \A f \in Carried(reader.unread) : Replies(task[t], f)
       /\ ~Doomed => \A f \in InFlight : Replies(task[t], f)
  /\ \A t \in Tasks : task[t].doing = "echo" /\ task[t].pc = "got" =>
       Replies(task[t], task[t].frame)

CInv == Aged /\ Covered /\ Distinct /\ Matched
--------------------------------------------------------------------------------
LEMMA TailCarried ==
  ASSUME NEW s \in Seq(Frames), s # <<>>
  PROVE  /\ Head(s) = s[1] /\ Head(s) \in Frames /\ Tail(s) \in Seq(Frames)
         /\ Carried(s) = {Head(s)} \cup Carried(Tail(s))
<1>1. /\ Tail(s) \in Seq(Frames) /\ Len(Tail(s)) = Len(s) - 1
      /\ \A i \in 1..(Len(s) - 1) : Tail(s)[i] = s[i + 1]
      /\ Head(s) = s[1] /\ Head(s) \in Frames /\ Len(s) \in Nat \ {0}
  OBVIOUS
<1>2. DOMAIN s = 1..Len(s) /\ DOMAIN Tail(s) = 1..(Len(s) - 1)
  BY <1>1
<1>3. ASSUME NEW i \in DOMAIN s PROVE s[i] \in {Head(s)} \cup Carried(Tail(s))
  <2>1. CASE i = 1
    BY <1>1, <2>1
  <2>2. CASE i # 1
    <3>1. i - 1 \in DOMAIN Tail(s) /\ Tail(s)[i - 1] = s[i]
      BY <1>1, <1>2, <2>2
    <3> QED
      BY <3>1 DEF Carried
  <2> QED
    BY <2>1, <2>2
<1>4. ASSUME NEW i \in DOMAIN Tail(s) PROVE Tail(s)[i] \in Carried(s)
  <2>1. i + 1 \in DOMAIN s /\ Tail(s)[i] = s[i + 1]
    BY <1>1, <1>2
  <2> QED
    BY <2>1 DEF Carried
<1>5. Head(s) \in Carried(s)
  BY <1>1, <1>2 DEF Carried
<1> QED
  BY <1>1, <1>3, <1>4, <1>5 DEF Carried

LEMMA AppendCarried ==
  ASSUME NEW s \in Seq(Frames), NEW f \in Frames
  PROVE  /\ Append(s, f) \in Seq(Frames) /\ Append(s, f) # <<>>
         /\ Carried(Append(s, f)) = Carried(s) \cup {f}
<1>1. /\ Append(s, f) \in Seq(Frames) /\ Len(Append(s, f)) = Len(s) + 1 /\ Len(s) \in Nat
      /\ \A i \in 1..Len(s) : Append(s, f)[i] = s[i]
      /\ Append(s, f)[Len(s) + 1] = f
  OBVIOUS
<1>2. DOMAIN s = 1..Len(s) /\ DOMAIN Append(s, f) = 1..(Len(s) + 1)
  BY <1>1
<1> HIDE <1>2
<1>3. \A i \in DOMAIN Append(s, f) : i \in DOMAIN s \/ i = Len(s) + 1
  BY <1>1, <1>2
<1>4. DOMAIN s \subseteq DOMAIN Append(s, f) /\ Len(s) + 1 \in DOMAIN Append(s, f)
  BY <1>1, <1>2
<1>5. \A i \in DOMAIN s : Append(s, f)[i] = s[i]
  BY <1>1, <1>2
<1>6. Append(s, f) # <<>>
  BY <1>1
<1> QED
  BY <1>1, <1>3, <1>4, <1>5, <1>6 DEF Carried

LEMMA JoinedCarried ==
  ASSUME NEW a \in Seq(Frames), NEW b \in Seq(Frames)
  PROVE  /\ a \o b \in Seq(Frames) /\ Carried(a \o b) = Carried(a) \cup Carried(b)
<1>1. /\ a \o b \in Seq(Frames) /\ Len(a \o b) = Len(a) + Len(b)
      /\ Len(a) \in Nat /\ Len(b) \in Nat
      /\ \A i \in 1..(Len(a) + Len(b)) :
           (a \o b)[i] = IF i <= Len(a) THEN a[i] ELSE b[i - Len(a)]
  BY Joined
<1>2. DOMAIN (a \o b) = 1..(Len(a) + Len(b)) /\ DOMAIN a = 1..Len(a) /\ DOMAIN b = 1..Len(b)
  BY <1>1
<1>3. ASSUME NEW i \in DOMAIN (a \o b) PROVE (a \o b)[i] \in Carried(a) \cup Carried(b)
  <2>1. CASE i <= Len(a)
    BY <1>1, <1>2, <2>1 DEF Carried
  <2>2. CASE ~(i <= Len(a))
    <3>1. i - Len(a) \in DOMAIN b
      BY <1>1, <1>2, <2>2
    <3> QED
      BY <1>1, <1>2, <2>2, <3>1 DEF Carried
  <2> QED
    BY <2>1, <2>2
<1>4. ASSUME NEW i \in DOMAIN a PROVE i \in DOMAIN (a \o b) /\ (a \o b)[i] = a[i]
  BY <1>1, <1>2
<1>5. ASSUME NEW i \in DOMAIN b
      PROVE  i + Len(a) \in DOMAIN (a \o b) /\ (a \o b)[i + Len(a)] = b[i]
  <2>1. i + Len(a) \in 1..(Len(a) + Len(b)) /\ ~(i + Len(a) <= Len(a)) /\ (i + Len(a)) - Len(a) = i
    BY <1>1, <1>2
  <2> QED
    BY <1>1, <1>2, <2>1
<1>6. Carried(a) \subseteq Carried(a \o b) /\ Carried(b) \subseteq Carried(a \o b)
  BY <1>4, <1>5 DEF Carried
<1>7. Carried(a \o b) \subseteq Carried(a) \cup Carried(b)
  BY <1>3 DEF Carried
<1> QED
  BY <1>1, <1>6, <1>7

LEMMA AgeRange ==
  ASSUME NEW n \in Corrs, NEW c \in Corrs
  PROVE  Age(n, c) \in 1..(CorrLimit - 1)
BY LinkAssumption DEF Age, Corrs

LEMMA AgeSteps ==
  ASSUME NEW n \in Corrs, NEW k, k = IF n + 1 = CorrLimit THEN 1 ELSE n + 1
  PROVE  /\ k \in Corrs /\ Age(n, n) = CorrLimit - 1 /\ Age(k, n) = 1
         /\ \A c \in Corrs : c # n => Age(k, c) = Age(n, c) + 1
BY LinkAssumption DEF Age, Corrs

LEMMA LineTake ==
  ASSUME NEW n, NEW a \in Seq(Frames), NEW b, Line(n, a, b), a # <<>>
  PROVE  /\ Line(n, Tail(a), b)
         /\ \A f \in Carried(Tail(a)) \cup Carried(b) : Older(n, Head(a), f)
<1>1. /\ Head(a) = a[1] /\ Carried(a) = {Head(a)} \cup Carried(Tail(a))
  BY TailCarried
<1>2. /\ DOMAIN a = 1..Len(a) /\ DOMAIN Tail(a) = 1..(Len(a) - 1) /\ Len(a) \in Nat \ {0}
      /\ \A i \in DOMAIN Tail(a) : Tail(a)[i] = a[i + 1]
  OBVIOUS
<1>3. \A i, j \in DOMAIN a : i < j => Older(n, a[i], a[j])
  BY DEF Line, Ordered
<1>4. Ordered(n, Tail(a))
  <2> SUFFICES ASSUME NEW i \in DOMAIN Tail(a), NEW j \in DOMAIN Tail(a), i < j
               PROVE  Older(n, Tail(a)[i], Tail(a)[j])
    BY DEF Ordered
  <2>1. i + 1 \in DOMAIN a /\ j + 1 \in DOMAIN a /\ i + 1 < j + 1
    BY <1>2
  <2> QED
    BY <1>2, <1>3, <2>1
<1>5. ASSUME NEW i \in DOMAIN Tail(a) PROVE Older(n, Head(a), Tail(a)[i])
  <2>1. 1 \in DOMAIN a /\ i + 1 \in DOMAIN a /\ 1 < i + 1
    BY <1>2
  <2> QED
    BY <1>1, <1>2, <1>3, <2>1
<1>6. \A f \in Carried(Tail(a)) : Older(n, Head(a), f)
  BY <1>5 DEF Carried
<1>7. /\ \A f \in Carried(a) \cup Carried(b) : Answerable(f) => f.corr \in Corrs
      /\ Ordered(n, b) /\ \A f \in Carried(a), g \in Carried(b) : Older(n, f, g)
      /\ \A f \in Carried(b) : /\ f.kind \in {"CALL", "HELLO", "PING"}
                               /\ f.kind = "CALL" => f.channel \in {"echo", "lifecycle"}
  BY DEF Line
<1> QED
  BY <1>1, <1>4, <1>6, <1>7 DEF Line

LEMMA OrderedAppend ==
  ASSUME NEW n, NEW s \in Seq(Frames), NEW f \in Frames, Ordered(n, s),
         \A g \in Carried(s) : Older(n, g, f)
  PROVE  Ordered(n, Append(s, f))
<1>1. /\ DOMAIN Append(s, f) = 1..(Len(s) + 1) /\ Len(s) \in Nat /\ DOMAIN s = 1..Len(s)
      /\ \A i \in 1..Len(s) : Append(s, f)[i] = s[i]
      /\ Append(s, f)[Len(s) + 1] = f
  OBVIOUS
<1> SUFFICES ASSUME NEW i \in DOMAIN Append(s, f), NEW j \in DOMAIN Append(s, f), i < j
             PROVE  Older(n, Append(s, f)[i], Append(s, f)[j])
  BY DEF Ordered
<1>2. i \in DOMAIN s /\ Append(s, f)[i] = s[i]
  BY <1>1
<1>3. CASE j = Len(s) + 1
  BY <1>1, <1>2, <1>3 DEF Carried
<1>4. CASE j # Len(s) + 1
  <2>1. j \in DOMAIN s /\ Append(s, f)[j] = s[j]
    BY <1>1, <1>4
  <2> QED
    BY <1>2, <2>1 DEF Ordered
<1> QED
  BY <1>3, <1>4

(* A frame that is no call, no reply and no error may be added at either end.     *)
LEMMA LineAdd ==
  ASSUME NEW n, NEW a \in Seq(Frames), NEW b \in Seq(Frames), Line(n, a, b),
         NEW f \in Frames, ~Answerable(f)
  PROVE  /\ Line(n, Append(a, f), b)
         /\ f.kind \in {"HELLO", "PING"} => Line(n, a, Append(b, f))
<1>1. \A g : Older(n, g, f) /\ Older(n, f, g)
  BY DEF Older
<1>2. Ordered(n, Append(a, f)) /\ Ordered(n, Append(b, f))
  BY <1>1, OrderedAppend DEF Line
<1>3. Carried(Append(a, f)) = Carried(a) \cup {f} /\ Carried(Append(b, f)) = Carried(b) \cup {f}
  BY AppendCarried
<1> QED
  BY <1>1, <1>2, <1>3 DEF Line

(* The host takes the oldest frame it was sent, and may answer a call.            *)
LEMMA LineAnswer ==
  ASSUME NEW n, NEW a \in Seq(Frames), NEW b \in Seq(Frames), Line(n, a, b), b # <<>>
  PROVE  /\ Line(n, a, Tail(b))
         /\ \A f \in Frames :
              Answerable(Head(b)) /\ f.corr = Head(b).corr => Line(n, Append(a, f), Tail(b))
<1>1. /\ Carried(b) = {Head(b)} \cup Carried(Tail(b)) /\ Tail(b) \in Seq(Frames)
  BY TailCarried
<1>2. Ordered(n, Tail(b)) /\ \A f \in Carried(Tail(b)) : Older(n, Head(b), f)
  <2>1. Line(n, b, <<>>)
    <3>1. Carried(<<>>) = {} /\ Ordered(n, <<>>)
      BY DEF Carried, Ordered
    <3> QED
      BY <3>1 DEF Line
  <2>2. Line(n, Tail(b), <<>>) /\ \A f \in Carried(Tail(b)) \cup Carried(<<>>) : Older(n, Head(b), f)
    BY <2>1, LineTake
  <2> QED
    BY <2>2 DEF Line
<1>3. Line(n, a, Tail(b))
  BY <1>1, <1>2 DEF Line
<1>4. ASSUME NEW f \in Frames, Answerable(Head(b)), f.corr = Head(b).corr
      PROVE  Line(n, Append(a, f), Tail(b))
  <2>1. \A g \in Carried(a) : Older(n, g, f)
    BY <1>1, <1>4 DEF Line, Older
  <2>2. Ordered(n, Append(a, f))
    BY <2>1, OrderedAppend DEF Line
  <2>3. Carried(Append(a, f)) = Carried(a) \cup {f}
    BY AppendCarried
  <2>4. \A g \in Carried(Tail(b)) : Older(n, f, g)
    BY <1>2, <1>4 DEF Older
  <2>5. f.corr \in Corrs
    BY <1>1, <1>4 DEF Line
  <2> QED
    BY <1>3, <2>2, <2>3, <2>4, <2>5 DEF Line
<1> QED
  BY <1>3, <1>4

(* A new call is the youngest when no frame in flight bears its id.               *)
LEMMA LineCall ==
  ASSUME NEW n \in Corrs, NEW a \in Seq(Frames), NEW b \in Seq(Frames), Line(n, a, b),
         NEW k, k = IF n + 1 = CorrLimit THEN 1 ELSE n + 1,
         \A f \in Carried(a) \cup Carried(b) : Answerable(f) => f.corr # n,
         NEW g \in Frames, g.kind = "CALL", g.channel \in {"echo", "lifecycle"}, g.corr = n
  PROVE  Line(k, a, b) /\ Line(k, a, Append(b, g))
<1>1. \A f \in Carried(a) \cup Carried(b) : Answerable(f) =>
        /\ f.corr \in Corrs /\ Age(k, f.corr) = Age(n, f.corr) + 1
        /\ Age(n, f.corr) \in Nat \ {0}
  <2> SUFFICES ASSUME NEW f \in Carried(a) \cup Carried(b), Answerable(f)
               PROVE  /\ f.corr \in Corrs /\ Age(k, f.corr) = Age(n, f.corr) + 1
                      /\ Age(n, f.corr) \in Nat \ {0}
    OBVIOUS
  <2>1. f.corr \in Corrs /\ f.corr # n
    BY DEF Line
  <2>2. Age(n, f.corr) \in 1..(CorrLimit - 1)
    BY <2>1, AgeRange
  <2>3. Age(k, f.corr) = Age(n, f.corr) + 1
    BY <2>1, AgeSteps
  <2> QED
    BY <2>1, <2>2, <2>3, LinkAssumption
<1>2. \A f, h \in Carried(a) \cup Carried(b) : Older(n, f, h) => Older(k, f, h)
  <2> SUFFICES ASSUME NEW f \in Carried(a) \cup Carried(b), NEW h \in Carried(a) \cup Carried(b),
                      Older(n, f, h), Answerable(f), Answerable(h)
               PROVE  Age(k, f.corr) > Age(k, h.corr)
    BY DEF Older
  <2>1. Age(n, f.corr) > Age(n, h.corr)
    BY DEF Older
  <2> QED
    BY <1>1, <2>1
<1>3. \A f \in Carried(a) \cup Carried(b) : Older(k, f, g)
  <2>1. Age(k, g.corr) = 1
    BY AgeSteps
  <2> QED
    BY <1>1, <2>1 DEF Older
<1>4. Ordered(k, a) /\ Ordered(k, b)
  <2>1. /\ \A i \in DOMAIN a : a[i] \in Carried(a) \cup Carried(b)
        /\ \A i \in DOMAIN b : b[i] \in Carried(a) \cup Carried(b)
    BY DEF Carried
  <2> QED
    BY <1>2, <2>1 DEF Line, Ordered
<1>5. Line(k, a, b)
  BY <1>2, <1>4 DEF Line
<1>6. Ordered(k, Append(b, g))
  BY <1>3, <1>4, OrderedAppend
<1>7. Carried(Append(b, g)) = Carried(b) \cup {g}
  BY AppendCarried
<1> QED
  BY <1>3, <1>5, <1>6, <1>7 DEF Line

(* What is left when the socket goes: the frames on the wire.                     *)
LEMMA LineDrop ==
  ASSUME NEW n, NEW u \in Seq(Frames), NEW a \in Seq(Frames), NEW b \in Seq(Frames),
         NEW v \in Seq(Frames), Line(n, u \o a, b \o v)
  PROVE  Line(n, a, b)
<1>1. /\ Len(u \o a) = Len(u) + Len(a) /\ Len(u) \in Nat /\ Len(a) \in Nat
      /\ \A i \in 1..(Len(u) + Len(a)) :
           (u \o a)[i] = IF i <= Len(u) THEN u[i] ELSE a[i - Len(u)]
      /\ u \o a \in Seq(Frames)
  BY Joined
<1>2. /\ Len(b \o v) = Len(b) + Len(v) /\ Len(b) \in Nat /\ Len(v) \in Nat
      /\ \A i \in 1..(Len(b) + Len(v)) :
           (b \o v)[i] = IF i <= Len(b) THEN b[i] ELSE v[i - Len(b)]
      /\ b \o v \in Seq(Frames)
  BY Joined
<1>3. Carried(a) \subseteq Carried(u \o a) /\ Carried(b) \subseteq Carried(b \o v)
  BY JoinedCarried
<1>4. Ordered(n, a)
  <2>1. ASSUME NEW i \in DOMAIN a
        PROVE  i + Len(u) \in DOMAIN (u \o a) /\ (u \o a)[i + Len(u)] = a[i]
    <3>1. DOMAIN a = 1..Len(a) /\ DOMAIN (u \o a) = 1..(Len(u) + Len(a))
      BY <1>1
    <3>2. i + Len(u) \in 1..(Len(u) + Len(a)) /\ ~(i + Len(u) <= Len(u)) /\ (i + Len(u)) - Len(u) = i
      BY <1>1, <3>1
    <3> QED
      BY <1>1, <3>1, <3>2
  <2> SUFFICES ASSUME NEW i \in DOMAIN a, NEW j \in DOMAIN a, i < j PROVE Older(n, a[i], a[j])
    BY DEF Ordered
  <2>2. i \in Nat /\ j \in Nat
    OBVIOUS
  <2>3. i + Len(u) < j + Len(u)
    BY <1>1, <2>2
  <2> QED
    BY <2>1, <2>3 DEF Line, Ordered
<1>5. Ordered(n, b)
  <2>1. \A i \in DOMAIN b : i \in DOMAIN (b \o v) /\ (b \o v)[i] = b[i]
    <3>1. DOMAIN b = 1..Len(b) /\ DOMAIN (b \o v) = 1..(Len(b) + Len(v))
      BY <1>2
    <3> QED
      BY <1>2, <3>1
  <2> QED
    BY <2>1 DEF Line, Ordered
<1> QED
  BY <1>3, <1>4, <1>5 DEF Line
(* The write queue as the frames it will put on the wire.                         *)
LEMMA QueueFrames ==
  ASSUME NEW s \in Seq(Writes)
  PROVE  /\ Queued(s) \in Seq(Frames)
         /\ \A w \in Writes : Queued(Append(s, w)) = Append(Queued(s), w.frame)
         /\ s # <<>> => /\ Queued(s) # <<>> /\ Head(Queued(s)) = Head(s).frame
                        /\ Queued(Tail(s)) = Tail(Queued(s)) /\ Head(s) \in Writes
<1>1. Len(s) \in Nat /\ DOMAIN s = 1..Len(s) /\ \A i \in 1..Len(s) : s[i] \in Writes
  OBVIOUS
<1>2. \A w \in Writes : w.frame \in Frames
  BY DEF Writes
<1>3. Queued(s) \in Seq(Frames) /\ Len(Queued(s)) = Len(s)
  BY <1>1, <1>2 DEF Queued
<1>4. \A i \in 1..Len(s) : Queued(s)[i] = s[i].frame
  BY <1>1 DEF Queued
<1>5. ASSUME NEW w \in Writes PROVE Queued(Append(s, w)) = Append(Queued(s), w.frame)
  <2>1. /\ Append(s, w) \in Seq(Writes) /\ Len(Append(s, w)) = Len(s) + 1
        /\ \A i \in 1..Len(s) : Append(s, w)[i] = s[i]
        /\ Append(s, w)[Len(s) + 1] = w
    BY <1>1
  <2>2. DOMAIN Append(s, w) = 1..(Len(s) + 1)
    BY <2>1
  <2>3. /\ \A i \in 1..(Len(s) + 1) : Append(s, w)[i].frame \in Frames
    BY <1>1, <1>2, <2>1
  <2>4. /\ Queued(Append(s, w)) \in Seq(Frames) /\ Len(Queued(Append(s, w))) = Len(s) + 1
        /\ \A i \in 1..(Len(s) + 1) : Queued(Append(s, w))[i] = Append(s, w)[i].frame
    BY <1>1, <2>2, <2>3 DEF Queued
  <2>5. w.frame \in Frames
    BY <1>2
  <2>6. /\ Append(Queued(s), w.frame) \in Seq(Frames)
        /\ Len(Append(Queued(s), w.frame)) = Len(s) + 1
        /\ \A i \in 1..Len(s) : Append(Queued(s), w.frame)[i] = Queued(s)[i]
        /\ Append(Queued(s), w.frame)[Len(s) + 1] = w.frame
    BY <1>3, <2>5
  <2>7. \A i \in 1..(Len(s) + 1) : Queued(Append(s, w))[i] = Append(Queued(s), w.frame)[i]
    BY <1>1, <1>4, <2>1, <2>4, <2>6
  <2> QED
    BY <2>4, <2>6, <2>7, SeqEqual
<1>6. ASSUME s # <<>>
      PROVE  /\ Queued(s) # <<>> /\ Head(Queued(s)) = Head(s).frame
             /\ Queued(Tail(s)) = Tail(Queued(s)) /\ Head(s) \in Writes
  <2>1. /\ Len(s) \in Nat \ {0} /\ Head(s) = s[1] /\ Tail(s) \in Seq(Writes)
        /\ Len(Tail(s)) = Len(s) - 1 /\ \A i \in 1..(Len(s) - 1) : Tail(s)[i] = s[i + 1]
    BY <1>6
  <2>2. Queued(s) # <<>> /\ Head(Queued(s)) = Head(s).frame /\ Head(s) \in Writes
    BY <1>1, <1>3, <1>4, <2>1
  <2>3. /\ Tail(Queued(s)) \in Seq(Frames) /\ Len(Tail(Queued(s))) = Len(s) - 1
        /\ \A i \in 1..(Len(s) - 1) : Tail(Queued(s))[i] = Queued(s)[i + 1]
    BY <1>3, <2>1, <2>2
  <2>4. DOMAIN Tail(s) = 1..(Len(s) - 1) /\ \A i \in 1..(Len(s) - 1) : Tail(s)[i].frame \in Frames
    BY <1>1, <1>2, <2>1
  <2>5. /\ Queued(Tail(s)) \in Seq(Frames) /\ Len(Queued(Tail(s))) = Len(s) - 1
        /\ \A i \in 1..(Len(s) - 1) : Queued(Tail(s))[i] = Tail(s)[i].frame
    BY <2>1, <2>4 DEF Queued
  <2>6. \A i \in 1..(Len(s) - 1) : Queued(Tail(s))[i] = Tail(Queued(s))[i]
    BY <1>4, <2>1, <2>3, <2>5
  <2> QED
    BY <2>2, <2>3, <2>5, <2>6, SeqEqual
<1> QED
  BY <1>3, <1>5, <1>6

LEMMA Pieces ==
  ASSUME NEW a \in Seq(Frames), NEW b \in Seq(Frames), NEW f \in Frames
  PROVE  /\ a \o Append(b, f) = Append(a \o b, f)
         /\ Append(a, f) \o b = a \o (<<f>> \o b)
         /\ b # <<>> => <<Head(b)>> \o Tail(b) = b
         /\ a \o <<>> = a /\ <<>> \o a = a
OBVIOUS

(* What the steps of the app and the host do to the frames on their way.          *)
LEMMA FlightTypes ==
  ASSUME TypeOK
  PROVE  /\ Inbound \in Seq(Frames) /\ Outbound \in Seq(Frames)
         /\ Queued(sending) \in Seq(Frames)
BY QueueFrames, Joined DEF TypeOK, Inbound, Outbound

LEMMA OutWrites ==
  ASSUME TypeOK, NEW t \in Tasks, NEW f \in Frames, toHost' = toHost,
         sending' = Append(sending, [by |-> t, frame |-> f])
  PROVE  Outbound' = Append(Outbound, f)
<1>1. [by |-> t, frame |-> f] \in Writes /\ [by |-> t, frame |-> f].frame = f
  BY DEF Writes
<1>2. sending \in Seq(Writes) /\ toHost \in Seq(Frames)
  BY DEF TypeOK
<1>3. Queued(sending') = Append(Queued(sending), f) /\ Queued(sending) \in Seq(Frames)
  BY <1>1, <1>2, QueueFrames
<1>4. toHost \o Append(Queued(sending), f) = Append(toHost \o Queued(sending), f)
  BY <1>2, <1>3, Pieces
<1> QED
  BY <1>3, <1>4 DEF Outbound

LEMMA OutFlushes ==
  ASSUME TypeOK, Flush
  PROVE  Outbound' = Outbound
<1>1. /\ sending # <<>> /\ sending' = Tail(sending)
      /\ toHost' = Append(toHost, Head(sending).frame)
      /\ sending \in Seq(Writes) /\ toHost \in Seq(Frames)
  BY DEF Flush, TypeOK
<1> DEFINE q == Queued(sending)
<1>2. /\ q \in Seq(Frames) /\ q # <<>> /\ Head(q) = Head(sending).frame
      /\ Queued(sending') = Tail(q)
  BY <1>1, QueueFrames
<1> HIDE DEF q
<1>3. Head(q) \in Frames /\ Tail(q) \in Seq(Frames)
  BY <1>2
<1>4. /\ Append(toHost, Head(q)) \o Tail(q) = toHost \o (<<Head(q)>> \o Tail(q))
      /\ <<Head(q)>> \o Tail(q) = q
  BY <1>1, <1>2, <1>3, Pieces
<1> QED
  BY <1>1, <1>2, <1>4 DEF Outbound, q

LEMMA OutHandled ==
  ASSUME TypeOK, toHost # <<>>, toHost' = Tail(toHost), sending' = sending
  PROVE  Outbound' = Tail(Outbound) /\ Outbound # <<>> /\ Head(Outbound) = Head(toHost)
<1>1. toHost \in Seq(Frames) /\ Queued(sending) \in Seq(Frames)
  BY QueueFrames DEF TypeOK
<1>2. /\ Tail(toHost) \o Queued(sending) = Tail(toHost \o Queued(sending))
      /\ Head(toHost) = (toHost \o Queued(sending))[1] /\ toHost \o Queued(sending) # <<>>
  BY <1>1, TailJoined
<1> QED
  BY <1>1, <1>2, Joined DEF Outbound

LEMMA InSaid ==
  ASSUME TypeOK, NEW f \in Frames, Says(f), reader' = reader
  PROVE  Inbound' = Append(Inbound, f)
<1>1. reader.unread \in Seq(Frames) /\ toApp \in Seq(Frames)
  BY DEF TypeOK
<1>2. reader.unread \o Append(toApp, f) = Append(reader.unread \o toApp, f)
  BY <1>1, Pieces
<1> QED
  BY <1>2 DEF Says, Inbound

LEMMA Dropped ==
  ASSUME TypeOK, FailIO, toHost' = toHost, toApp' = toApp
  PROVE  /\ Inbound' = toApp /\ Outbound' = toHost /\ reader'.unread = <<>>
         /\ Inbound = reader.unread \o toApp /\ Outbound = toHost \o Queued(sending)
<1>1. reader'.unread = <<>> /\ sending' = <<>> /\ Queued(<<>>) = <<>>
  BY DEF FailIO, Queued
<1>2. toApp \in Seq(Frames) /\ toHost \in Seq(Frames)
  BY DEF TypeOK
<1>3. <<>> \o toApp = toApp /\ toHost \o <<>> = toHost
  BY <1>2, Pieces
<1> QED
  BY <1>1, <1>3 DEF Inbound, Outbound
(* The next id is free: were a call in flight that bears it, every id would belong *)
(* to a task that waits, and there are fewer tasks.                               *)
LEMMA NextIsFree ==
  ASSUME TypeOK, Covered, IsFiniteSet(Tasks), Cardinality(Tasks) < CorrLimit,
         NEW t \in Tasks, Settled(task[t])
  PROVE  \A f \in InFlight : Answerable(f) => f.corr # session.nextCorr
<1> SUFFICES ASSUME NEW f \in InFlight, Answerable(f), f.corr = session.nextCorr PROVE FALSE
  OBVIOUS
<1>1. PICK n \in Corrs : n = session.nextCorr
  BY DEF TypeOK
<1>2. \A c \in Corrs : \E u \in Tasks \ {t} : task[u].corr = c
  <2> SUFFICES ASSUME NEW c \in Corrs PROVE \E u \in Tasks \ {t} : task[u].corr = c
    OBVIOUS
  <2>1. Age(n, n) = CorrLimit - 1
    BY AgeSteps
  <2>2. Age(n, c) \in 1..(CorrLimit - 1)
    BY AgeRange
  <2>3. Age(n, c) <= Age(n, f.corr)
    BY <1>1, <2>1, <2>2, LinkAssumption
  <2>4. PICK u \in Tasks : task[u].corr = c /\ ~Settled(task[u])
    BY <1>1, <2>3 DEF Covered
  <2> QED
    BY <2>4
<1> DEFINE others == Tasks \ {t}
           owner == [c \in Corrs |-> CHOOSE u \in others : task[u].corr = c]
<1>3. \A c \in Corrs : owner[c] \in others /\ task[owner[c]].corr = c
  BY <1>2
<1>4. owner \in [Corrs -> others] /\ \A c, d \in Corrs : owner[c] = owner[d] => c = d
  BY <1>3
<1>5. IsFiniteSet(others) /\ Cardinality(others) = Cardinality(Tasks) - 1
  BY FS_RemoveElement
<1>6. owner \in Injection(Corrs, others)
  BY <1>4, Zenon DEF Injection, IsInjective
<1> HIDE DEF owner, others
<1>7. Cardinality(Corrs) <= Cardinality(others)
  BY <1>5, <1>6, FS_Injection
<1>8. Cardinality(Corrs) = CorrLimit - 1
  <2>1. 1 \in Int /\ CorrLimit - 1 \in Int /\ CorrLimit > 1
    BY LinkAssumption
  <2>2. Cardinality(1..(CorrLimit - 1)) =
          IF 1 > CorrLimit - 1 THEN 0 ELSE (CorrLimit - 1) - 1 + 1
    BY ONLY <2>1, FS_Interval
  <2> QED
    BY <2>1, <2>2 DEF Corrs
<1>9. Cardinality(Tasks) \in Nat
  BY FS_CardinalityType
<1> QED
  BY <1>5, <1>7, <1>8, <1>9, LinkAssumption

LEMMA AdmitsOwn ==
  ASSUME NEW r, Answerable(r.frame), AdmitsHeader(Want(r), r.frame)
  PROVE  r.doing \in {"echo", "quit"} /\ r.frame.corr = r.corr
<1>1. ~(r.frame.kind = "PING") /\ ~(r.frame.kind \in {"HELLO"}) /\ ~(r.frame.kind \in {"EVENT"})
  BY DEF Answerable
<1> QED
  BY <1>1 DEF AdmitsHeader, Want, ClientAwaitHello, LifecycleEventReceiver, EchoReplyWaiter,
              LifecycleReplyWaiter

(* A task after a step that begins no call and takes no answer.                   *)
Tame(m, r) ==
  /\ ~Settled(m) => ~Settled(r) /\ r.corr = m.corr
  /\ Awaits(r) => Awaits(m) /\ r.corr = m.corr
  /\ Awaits(r) /\ r.doing = "echo" => m.doing = "echo" /\ r.call = m.call

(* Steps that begin no call and give no task an answer of its own.                *)
LEMMA Quietly ==
  ASSUME CInv, Aged', session'.nextCorr = session.nextCorr, Doomed => Doomed',
         \A u \in Tasks : Tame(task[u], task'[u]),
         \A u \in Tasks : task'[u].doing = "echo" /\ task'[u].pc = "got"
                            => Replies(task'[u], task'[u].frame),
         \A f \in InFlight' : Answerable(f) =>
           \E g \in InFlight : /\ Answerable(g) /\ g.corr = f.corr
                               /\ f.channel = "echo" => g.channel = "echo" /\ g.call = f.call,
         ~Doomed' => \A f \in InFlight : Answerable(f) =>
                       \E g \in InFlight' : Answerable(g) /\ g.corr = f.corr,
         \A f \in Carried(reader'.unread) :
           f \in Carried(reader.unread) \/ (~Doomed /\ f \in InFlight)
  PROVE  CInv'
<1>1. Covered'
  <2>1. PICK n : n = session.nextCorr /\ n = session'.nextCorr
    OBVIOUS
  <2> SUFFICES ASSUME NEW f \in InFlight', Answerable(f), NEW c \in Corrs,
                      Age(n, c) <= Age(n, f.corr)
               PROVE  \E u \in Tasks : task'[u].corr = c /\ ~Settled(task'[u])
    BY <2>1 DEF Covered
  <2>2. PICK g \in InFlight : Answerable(g) /\ g.corr = f.corr
    OBVIOUS
  <2>3. PICK u \in Tasks : task[u].corr = c /\ ~Settled(task[u])
    BY <2>1, <2>2 DEF CInv, Covered
  <2> QED
    BY <2>3 DEF Tame
<1>2. Distinct'
  <2> SUFFICES ASSUME ~Doomed'
               PROVE  /\ \A t \in Tasks : Awaits(task'[t]) =>
                           \E f \in InFlight' : Answerable(f) /\ f.corr = task'[t].corr
                      /\ \A t, u \in Tasks : Awaits(task'[t]) /\ Awaits(task'[u])
                           /\ task'[t].corr = task'[u].corr => t = u
    BY DEF Distinct
  <2>1. /\ \A t \in Tasks : Awaits(task[t]) =>
             \E f \in InFlight : Answerable(f) /\ f.corr = task[t].corr
        /\ \A t, u \in Tasks : Awaits(task[t]) /\ Awaits(task[u])
             /\ task[t].corr = task[u].corr => t = u
    BY DEF CInv, Distinct
  <2>2. \A t \in Tasks : Awaits(task'[t]) => Awaits(task[t]) /\ task'[t].corr = task[t].corr
    BY DEF Tame
  <2>3. ASSUME NEW t \in Tasks, Awaits(task'[t])
        PROVE  \E f \in InFlight' : Answerable(f) /\ f.corr = task'[t].corr
    BY <2>1, <2>2, <2>3
  <2> QED
    BY <2>1, <2>2, <2>3
<1>3. Matched'
  <2>1. ASSUME NEW t \in Tasks, task'[t].doing = "echo", Awaits(task'[t])
        PROVE  /\ \A f \in Carried(reader'.unread) : Replies(task'[t], f)
               /\ ~Doomed' => \A f \in InFlight' : Replies(task'[t], f)
    <3>1. /\ task[t].doing = "echo" /\ Awaits(task[t])
          /\ task'[t].corr = task[t].corr /\ task'[t].call = task[t].call
      BY <2>1 DEF Tame
    <3>2. /\ \A f \in Carried(reader.unread) : Replies(task[t], f)
          /\ ~Doomed => \A f \in InFlight : Replies(task[t], f)
      BY <3>1 DEF CInv, Matched
    <3>3. ASSUME NEW f \in Carried(reader'.unread) PROVE Replies(task'[t], f)
      BY <3>1, <3>2, <3>3 DEF Replies
    <3>4. ASSUME ~Doomed', NEW f \in InFlight' PROVE Replies(task'[t], f)
      BY <3>1, <3>2, <3>4 DEF Replies
    <3> QED
      BY <3>3, <3>4
  <2> QED
    BY <2>1 DEF Matched
<1> QED
  BY <1>1, <1>2, <1>3 DEF CInv
(* A task that takes the oldest frame on its way to the app.                      *)
LEMMA Taking ==
  ASSUME TypeOK, CInv, NEW t \in Tasks, NEW r \in TaskRecs,
         session'.nextCorr = session.nextCorr,
         \A f \in Carried(session'.parked) : ~Answerable(f),
         reader'.failed = reader.failed, task' = [task EXCEPT ![t] = r],
         Inbound # <<>>, Inbound' = Tail(Inbound), Outbound' = Outbound,
         r.pc = "got", r.frame = Head(Inbound), ~Dooms(task[t]),
         ~Settled(task[t]) => r.doing = task[t].doing /\ r.corr = task[t].corr,
         \/ r.doing \in {"hello", "events", "pong"}
         \/ /\ Awaits(task[t]) /\ r.call = task[t].call
            /\ r.doing = task[t].doing /\ r.corr = task[t].corr,
         Head(Inbound) \in Carried(reader.unread) \/ ~Doomed,
         \A f \in Carried(reader'.unread) :
           f \in Carried(reader.unread) \/ (~Doomed /\ f \in InFlight)
  PROVE  CInv'
<1> DEFINE h == Head(Inbound)
<1>1. PICK n \in Corrs : n = session.nextCorr /\ n = session'.nextCorr
  BY DEF TypeOK
<1>2. /\ Inbound \in Seq(Frames) /\ Outbound \in Seq(Frames) /\ task \in [Tasks -> TaskRecs]
  BY FlightTypes DEF TypeOK
<1>3. /\ Line(n, Inbound', Outbound')
      /\ \A f \in InFlight' : Older(n, h, f)
  BY <1>1, <1>2, LineTake DEF CInv, Aged, InFlight
<1>4. /\ h \in InFlight /\ InFlight' \subseteq InFlight
      /\ \A f \in InFlight : f = h \/ f \in InFlight'
  BY <1>2, TailCarried DEF InFlight
<1>5. Aged'
  BY <1>1, <1>3 DEF CInv, Aged
<1>6. /\ task'[t] = r /\ \A u \in Tasks : u # t => task'[u] = task[u]
  BY <1>2
<1>7. \A f \in InFlight : Answerable(f) => f.corr \in Corrs /\ Age(n, f.corr) \in Nat
  BY <1>1, AgeRange, LinkAssumption DEF CInv, Aged, Line, InFlight
<1> HIDE DEF h
<1>8. Covered'
  <2> SUFFICES ASSUME NEW f \in InFlight', Answerable(f), NEW c \in Corrs,
                      Age(n, c) <= Age(n, f.corr)
               PROVE  \E u \in Tasks : task'[u].corr = c /\ ~Settled(task'[u])
    BY <1>1 DEF Covered
  <2>1. PICK u \in Tasks : task[u].corr = c /\ ~Settled(task[u])
    BY <1>1, <1>4 DEF CInv, Covered
  <2>2. CASE u # t
    BY <1>6, <2>1, <2>2
  <2>3. CASE u = t /\ ~Settled(r)
    BY <1>6, <2>1, <2>3
  <2>4. CASE u = t /\ Settled(r)
    <3>1. Answerable(h) /\ h.corr = c
      BY <2>1, <2>4 DEF Settled, Own, h
    <3>2. Age(n, c) > Age(n, f.corr)
      BY <1>3, <3>1 DEF Older
    <3>3. Age(n, c) \in Nat /\ Age(n, f.corr) \in Nat
      BY <1>4, <1>7, <3>1
    <3> QED
      BY <3>2, <3>3
  <2> QED
    BY <2>2, <2>3, <2>4
<1>9. Doomed => Doomed'
  BY <1>6 DEF Doomed
<1>10. \A u \in Tasks : Awaits(task'[u]) =>
         /\ Awaits(task[u]) /\ task'[u].corr = task[u].corr /\ task'[u].doing = task[u].doing
         /\ task'[u].call = task[u].call
  BY <1>6 DEF Awaits, Settled
<1>11. Distinct'
  <2> SUFFICES ASSUME ~Doomed'
               PROVE  /\ \A u \in Tasks : Awaits(task'[u]) =>
                           \E f \in InFlight' : Answerable(f) /\ f.corr = task'[u].corr
                      /\ \A u, v \in Tasks : Awaits(task'[u]) /\ Awaits(task'[v])
                           /\ task'[u].corr = task'[v].corr => u = v
    BY DEF Distinct
  <2>1. /\ \A u \in Tasks : Awaits(task[u]) =>
             \E f \in InFlight : Answerable(f) /\ f.corr = task[u].corr
        /\ \A u, v \in Tasks : Awaits(task[u]) /\ Awaits(task[v])
             /\ task[u].corr = task[v].corr => u = v
    BY <1>9 DEF CInv, Distinct
  <2>2. Answerable(h) => Awaits(task[t]) /\ task[t].corr = h.corr /\ ~Awaits(r)
    <3> SUFFICES ASSUME Answerable(h)
                 PROVE  Awaits(task[t]) /\ task[t].corr = h.corr /\ ~Awaits(r)
      OBVIOUS
    <3>1. ~Dooms(r) /\ r.frame = h
      BY <1>6 DEF Doomed, h
    <3>2. AdmitsHeader(Want(r), r.frame) /\ Answerable(r.frame)
      BY <3>1 DEF Dooms
    <3>3. r.doing \in {"echo", "quit"} /\ r.frame.corr = r.corr
      BY <3>2, AdmitsOwn
    <3> QED
      BY <3>1, <3>2, <3>3 DEF Awaits, Settled, Own
  <2>3. ASSUME NEW u \in Tasks, Awaits(task'[u])
        PROVE  \E f \in InFlight' : Answerable(f) /\ f.corr = task'[u].corr
    <3>1. PICK f \in InFlight : Answerable(f) /\ f.corr = task'[u].corr
      BY <1>10, <2>1, <2>3
    <3>2. CASE f = h
      <4>1. u = t
        BY <1>10, <2>1, <2>2, <2>3, <3>1, <3>2
      <4> QED
        BY <1>6, <2>2, <2>3, <3>1, <3>2, <4>1
    <3> QED
      BY <1>4, <3>1, <3>2
  <2> QED
    BY <1>10, <2>1, <2>3
<1>12. Matched'
  <2>1. ASSUME NEW u \in Tasks, task'[u].doing = "echo", Awaits(task'[u])
        PROVE  /\ \A f \in Carried(reader'.unread) : Replies(task'[u], f)
               /\ ~Doomed' => \A f \in InFlight' : Replies(task'[u], f)
    <3>1. /\ \A f \in Carried(reader.unread) : Replies(task[u], f)
          /\ ~Doomed => \A f \in InFlight : Replies(task[u], f)
      BY <1>10, <2>1 DEF CInv, Matched
    <3>2. \A f : Replies(task[u], f) => Replies(task'[u], f)
      BY <1>10, <2>1 DEF Replies
    <3> QED
      BY <1>4, <1>9, <3>1, <3>2
  <2>2. ASSUME NEW u \in Tasks, task'[u].doing = "echo", task'[u].pc = "got"
        PROVE  Replies(task'[u], task'[u].frame)
    <3>1. CASE u # t
      BY <1>6, <2>2, <3>1 DEF CInv, Matched
    <3>2. CASE u = t
      <4>1. /\ Awaits(task[t]) /\ task[t].doing = "echo"
            /\ r.corr = task[t].corr /\ r.call = task[t].call
        BY <1>6, <2>2, <3>2
      <4>2. Replies(task[t], h)
        BY <1>4, <4>1 DEF CInv, Matched, h
      <4> QED
        BY <1>6, <3>2, <4>1, <4>2 DEF Replies, h
    <3> QED
      BY <3>1, <3>2
  <2> QED
    BY <2>1, <2>2 DEF Matched
<1> QED
  BY <1>5, <1>8, <1>11, <1>12 DEF CInv

(* A task that allocates an id and sends its call, or is refused.                 *)
LEMMA Calling ==
  ASSUME TypeOK, CInv, IsFiniteSet(Tasks), Cardinality(Tasks) < CorrLimit,
         NEW t \in Tasks, NEW r \in TaskRecs, Settled(task[t]), ~Dooms(task[t]),
         AllocCorr, UNCHANGED <<reader, toHost, toApp>>,
         task' = [task EXCEPT ![t] = r],
         r.corr = session.nextCorr, r.doing \in {"echo", "quit"},
         NEW g \in Frames, g.kind = "CALL", g.corr = session.nextCorr,
         \/ r.doing = "echo" /\ g.channel = "echo" /\ g.call = r.call
         \/ r.doing = "quit" /\ g.channel = "lifecycle",
         \/ r.pc = "writing" /\ Outbound' = Append(Outbound, g)
         \/ r.pc = "rejected" /\ Outbound' = Outbound
  PROVE  CInv'
<1>1. PICK n \in Corrs : n = session.nextCorr
  BY DEF TypeOK
<1>2. PICK k : k = (IF n + 1 = CorrLimit THEN 1 ELSE n + 1)
  OBVIOUS
<1>3. session'.nextCorr = k /\ session'.parked = session.parked
  BY <1>1, <1>2 DEF AllocCorr, TypeOK
<1>4. /\ Inbound \in Seq(Frames) /\ Outbound \in Seq(Frames) /\ task \in [Tasks -> TaskRecs]
      /\ Inbound' = Inbound /\ reader'.unread = reader.unread
  BY FlightTypes DEF TypeOK, Inbound
<1>5. \A f \in InFlight : Answerable(f) => f.corr # n
  BY <1>1, NextIsFree DEF CInv
<1>6. Line(n, Inbound, Outbound)
  BY <1>1 DEF CInv, Aged
<1>7. Line(k, Inbound, Outbound) /\ Line(k, Inbound, Append(Outbound, g))
  BY <1>1, <1>2, <1>4, <1>5, <1>6, LineCall DEF InFlight
<1>8. Aged'
  BY <1>3, <1>4, <1>7 DEF CInv, Aged
<1>9. /\ InFlight \subseteq InFlight' /\ \A f \in InFlight' : f \in InFlight \/ f = g
      /\ r.pc = "writing" => g \in InFlight'
  BY <1>4, AppendCarried DEF InFlight
<1>10. /\ task'[t] = r /\ \A u \in Tasks : u # t => task'[u] = task[u]
  BY <1>4
<1>11. /\ \A f \in InFlight : Answerable(f) =>
            f.corr \in Corrs /\ Age(k, f.corr) = Age(n, f.corr) + 1
       /\ \A c \in Corrs : c # n => Age(k, c) = Age(n, c) + 1
       /\ \A c \in Corrs : Age(n, c) \in 1..(CorrLimit - 1)
       /\ Age(k, n) = 1
  <2>1. \A c \in Corrs : c # n => Age(k, c) = Age(n, c) + 1
    BY <1>2, AgeSteps
  <2>2. \A f \in InFlight : Answerable(f) => f.corr \in Corrs
    BY <1>6 DEF Line, InFlight
  <2>3. \A c \in Corrs : Age(n, c) \in 1..(CorrLimit - 1)
    BY AgeRange
  <2>4. Age(k, n) = 1
    BY <1>2, AgeSteps
  <2> QED
    BY <1>5, <2>1, <2>2, <2>3, <2>4
<1>12. ~Settled(r)
  BY DEF Settled
<1>13. Answerable(g)
  BY DEF Answerable
<1>14. Covered'
  <2> SUFFICES ASSUME NEW f \in InFlight', Answerable(f), NEW c \in Corrs,
                      Age(k, c) <= Age(k, f.corr)
               PROVE  \E u \in Tasks : task'[u].corr = c /\ ~Settled(task'[u])
    BY <1>3 DEF Covered
  <2>1. CASE c = n
    BY <1>1, <1>10, <1>12, <2>1
  <2>2. CASE c # n /\ f \in InFlight
    <3>1. /\ Age(k, c) = Age(n, c) + 1 /\ Age(n, c) \in 1..(CorrLimit - 1)
      BY <1>11, <2>2
    <3>2. /\ Age(k, f.corr) = Age(n, f.corr) + 1 /\ Age(n, f.corr) \in 1..(CorrLimit - 1)
      BY <1>11, <2>2
    <3>3. Age(n, c) <= Age(n, f.corr)
      BY <3>1, <3>2, LinkAssumption
    <3>4. PICK u \in Tasks : task[u].corr = c /\ ~Settled(task[u])
      BY <1>1, <2>2, <3>3 DEF CInv, Covered
    <3> QED
      BY <1>10, <3>4
  <2>3. CASE c # n /\ f = g
    <3>1. Age(k, f.corr) = 1
      BY <1>1, <1>11, <2>3
    <3>2. Age(k, c) = Age(n, c) + 1 /\ Age(n, c) \in 1..(CorrLimit - 1)
      BY <1>11, <2>3
    <3> QED
      BY <3>1, <3>2, LinkAssumption
  <2> QED
    BY <1>9, <2>1, <2>2, <2>3
<1>15. Doomed => Doomed'
  BY <1>10 DEF Doomed
<1>16. Distinct'
  <2> SUFFICES ASSUME ~Doomed'
               PROVE  /\ \A u \in Tasks : Awaits(task'[u]) =>
                           \E f \in InFlight' : Answerable(f) /\ f.corr = task'[u].corr
                      /\ \A u, v \in Tasks : Awaits(task'[u]) /\ Awaits(task'[v])
                           /\ task'[u].corr = task'[v].corr => u = v
    BY DEF Distinct
  <2>1. /\ \A u \in Tasks : Awaits(task[u]) =>
             \E f \in InFlight : Answerable(f) /\ f.corr = task[u].corr
        /\ \A u, v \in Tasks : Awaits(task[u]) /\ Awaits(task[v])
             /\ task[u].corr = task[v].corr => u = v
    BY <1>15 DEF CInv, Distinct
  <2>2. Awaits(r) => g \in InFlight'
    BY <1>9 DEF Awaits, Waits
  <2>3. ASSUME NEW u \in Tasks, Awaits(task'[u])
        PROVE  \E f \in InFlight' : Answerable(f) /\ f.corr = task'[u].corr
    BY <1>9, <1>10, <1>13, <2>1, <2>2, <2>3
  <2>4. ASSUME NEW u \in Tasks, u # t, Awaits(task'[u]) PROVE task'[u].corr # n
    BY <1>5, <1>10, <2>1, <2>4
  <2> QED
    BY <1>1, <1>10, <2>1, <2>3, <2>4
<1>17. Matched'
  <2>1. ASSUME NEW u \in Tasks, task'[u].doing = "echo", Awaits(task'[u])
        PROVE  /\ \A f \in Carried(reader'.unread) : Replies(task'[u], f)
               /\ ~Doomed' => \A f \in InFlight' : Replies(task'[u], f)
    <3>1. CASE u = t
      <4>1. \A f \in InFlight : Replies(r, f)
        BY <1>1, <1>5 DEF Replies
      <4>2. Replies(r, g)
        BY <1>10, <2>1, <3>1 DEF Replies
      <4>3. Carried(reader.unread) \subseteq InFlight
        BY JoinedCarried DEF InFlight, Inbound, TypeOK
      <4> QED
        BY <1>4, <1>9, <1>10, <3>1, <4>1, <4>2, <4>3
    <3>2. CASE u # t
      <4>1. /\ \A f \in Carried(reader.unread) : Replies(task[u], f)
            /\ ~Doomed => \A f \in InFlight : Replies(task[u], f)
        BY <1>10, <2>1, <3>2 DEF CInv, Matched
      <4>2. ~Doomed => Replies(task[u], g)
        <5>1. ~Doomed => task[u].corr # n
          BY <1>5, <1>10, <2>1, <3>2 DEF CInv, Distinct
        <5> QED
          BY <1>1, <5>1 DEF Replies
      <4> QED
        BY <1>4, <1>9, <1>10, <1>15, <3>2, <4>1, <4>2
    <3> QED
      BY <3>1, <3>2
  <2>2. ASSUME NEW u \in Tasks, task'[u].doing = "echo", task'[u].pc = "got"
        PROVE  Replies(task'[u], task'[u].frame)
    BY <1>10, <2>2 DEF CInv, Matched
  <2> QED
    BY <2>1, <2>2 DEF Matched
<1> QED
  BY <1>8, <1>14, <1>16, <1>17 DEF CInv
(* A step of one task that begins no call and takes no answer.                    *)
LEMMA Alone ==
  ASSUME TypeOK, CInv, NEW t \in Tasks, NEW r \in TaskRecs, task' = [task EXCEPT ![t] = r],
         Tame(task[t], r), r.doing = "echo" /\ r.pc = "got" => Replies(r, r.frame),
         Dooms(task[t]) => Dooms(r) \/ reader.failed,
         session'.nextCorr = session.nextCorr,
         \A f \in Carried(session'.parked) : ~Answerable(f),
         reader'.failed = reader.failed, reader'.unread = reader.unread, toApp' = toApp,
         \/ Outbound' = Outbound
         \/ \E f \in Frames : /\ f.kind \in {"HELLO", "PING"}
                              /\ Outbound' = Append(Outbound, f)
  PROVE  CInv'
<1>1. /\ Inbound \in Seq(Frames) /\ Outbound \in Seq(Frames) /\ task \in [Tasks -> TaskRecs]
      /\ Inbound' = Inbound
  BY FlightTypes DEF TypeOK, Inbound
<1>2. task'[t] = r /\ \A u \in Tasks : u # t => task'[u] = task[u]
  BY <1>1
<1>3. Line(session'.nextCorr, Inbound', Outbound')
  <2>1. Line(session.nextCorr, Inbound, Outbound)
    BY DEF CInv, Aged
  <2>2. CASE Outbound' = Outbound
    BY <1>1, <2>1, <2>2
  <2>3. ASSUME NEW f \in Frames, f.kind \in {"HELLO", "PING"}, Outbound' = Append(Outbound, f)
        PROVE  Line(session'.nextCorr, Inbound', Outbound')
    <3>1. ~Answerable(f)
      BY <2>3 DEF Answerable
    <3> QED
      BY <1>1, <2>1, <2>3, <3>1, LineAdd
  <2> QED
    BY <2>2, <2>3
<1>4. Aged'
  BY <1>3 DEF Aged
<1>5. InFlight \subseteq InFlight' /\ \A f \in InFlight' : Answerable(f) => f \in InFlight
  <2>1. CASE Outbound' = Outbound
    BY <1>1, <2>1 DEF InFlight
  <2>2. ASSUME NEW f \in Frames, f.kind \in {"HELLO", "PING"}, Outbound' = Append(Outbound, f)
        PROVE  InFlight \subseteq InFlight' /\ \A g \in InFlight' : Answerable(g) => g \in InFlight
    <3>1. ~Answerable(f) /\ Carried(Outbound') = Carried(Outbound) \cup {f}
      BY <1>1, <2>2, AppendCarried DEF Answerable
    <3> QED
      BY <1>1, <3>1 DEF InFlight
  <2> QED
    BY <2>1, <2>2
<1>6. \A u \in Tasks : Tame(task[u], task'[u])
  BY <1>2 DEF Tame
<1>7. \A u \in Tasks : task'[u].doing = "echo" /\ task'[u].pc = "got"
                         => Replies(task'[u], task'[u].frame)
  BY <1>2 DEF CInv, Matched
<1>8. Doomed => Doomed'
  BY <1>2 DEF Doomed
<1> QED
  BY <1>4, <1>5, <1>6, <1>7, <1>8, Quietly

(* A task goes on to read.                                                        *)
Reader(m, r) ==   \* m is about to read as r
  /\ ~Dooms(m)
  /\ ~Settled(m) => r.doing = m.doing /\ r.corr = m.corr
  /\ \/ r.doing \in {"hello", "events", "pong"}
     \/ Awaits(m) /\ r.call = m.call /\ r.doing = m.doing /\ r.corr = m.corr

LEMMA ReaderTame ==
  ASSUME NEW m \in TaskRecs, NEW r \in TaskRecs, Reader(m, r), NEW pc, NEW f,
         NEW q, q = [r EXCEPT !.pc = pc, !.frame = f],
         pc \in {"rejected", "reading"} \/ (pc = "got" /\ ~Answerable(f))
  PROVE  Tame(m, q)
<1>1. /\ q.pc = pc /\ q.frame = f /\ q.doing = r.doing /\ q.corr = r.corr /\ q.call = r.call
  BY DEF TaskRecs
<1>2. Settled(q) => q.doing \in {"hello", "events", "pong"}
  BY <1>1 DEF Settled, Own
<1>3. ~Settled(m) => ~Settled(q) /\ q.corr = m.corr
  BY <1>1, <1>2 DEF Reader, Settled
<1>4. Awaits(q) => ~(r.doing \in {"hello", "events", "pong"})
  BY <1>1 DEF Awaits, Settled
<1> QED
  BY <1>1, <1>3, <1>4 DEF Reader, Tame

LEMMA Reads ==
  ASSUME TypeOK, CInv, NEW t \in Tasks, NEW m \in TaskRecs, Reader(task[t], m), ReadFrame(t, m),
         session'.nextCorr = session.nextCorr, \A f \in Carried(session'.parked) : ~Answerable(f),
         UNCHANGED <<sending, toHost, toApp>>
  PROVE  CInv'
<1>1. /\ Inbound \in Seq(Frames) /\ Outbound \in Seq(Frames) /\ task \in [Tasks -> TaskRecs]
      /\ Outbound' = Outbound /\ toApp' = toApp
      /\ reader \in Readers /\ reader.unread \in Seq(Frames) /\ toApp \in Seq(Frames)
      /\ task[t] \in TaskRecs
  BY FlightTypes DEF TypeOK, Outbound, Readers
<1>2. CASE \E pc \in {"rejected", "reading"} :
             /\ task' = [task EXCEPT ![t] = [m EXCEPT !.pc = pc]]
             /\ reader'.unread = reader.unread /\ reader'.failed = reader.failed
  <2>1. PICK pc \in {"rejected", "reading"} :
             /\ task' = [task EXCEPT ![t] = [m EXCEPT !.pc = pc]]
             /\ reader'.unread = reader.unread /\ reader'.failed = reader.failed
    BY <1>2
  <2> DEFINE q == [m EXCEPT !.pc = pc]
  <2>2. q \in TaskRecs /\ q.pc = pc /\ q = [m EXCEPT !.pc = pc, !.frame = m.frame]
    BY DEF TaskRecs, Waits
  <2>3. task' = [task EXCEPT ![t] = q]
    BY <2>1
  <2> HIDE DEF q
  <2>4. Tame(task[t], q)
    BY <1>1, <2>2, ReaderTame
  <2> QED
    BY <1>1, <2>1, <2>2, <2>3, <2>4, Alone DEF Reader
<1>3. CASE /\ reader.unread # <<>>
           /\ task' = [task EXCEPT ![t] = [m EXCEPT !.pc = "got", !.frame = Head(reader.unread)]]
           /\ reader'.unread = Tail(reader.unread) /\ reader'.failed = reader.failed
  <2> DEFINE r == [m EXCEPT !.pc = "got", !.frame = Head(reader.unread)]
  <2>1. /\ Inbound # <<>> /\ Head(Inbound) = Head(reader.unread) /\ Inbound' = Tail(Inbound)
    <3>1. /\ Tail(reader.unread) \o toApp = Tail(reader.unread \o toApp)
          /\ Head(reader.unread) = (reader.unread \o toApp)[1]
          /\ reader.unread \o toApp # <<>>
      BY <1>1, <1>3, TailJoined
    <3> QED
      BY <1>1, <1>3, <3>1 DEF Inbound
  <2>2. /\ Head(reader.unread) \in Carried(reader.unread) /\ Head(reader.unread) \in Frames
        /\ Carried(reader'.unread) \subseteq Carried(reader.unread)
    BY <1>1, <1>3, TailCarried
  <2>3. /\ r \in TaskRecs /\ r.pc = "got" /\ r.frame = Head(reader.unread)
        /\ r.doing = m.doing /\ r.corr = m.corr /\ r.call = m.call
    BY <2>2 DEF TaskRecs, Waits
  <2>4. task' = [task EXCEPT ![t] = r]
    BY <1>3
  <2> HIDE DEF r
  <2>5. /\ ~Dooms(task[t])
        /\ ~Settled(task[t]) => r.doing = task[t].doing /\ r.corr = task[t].corr
        /\ \/ r.doing \in {"hello", "events", "pong"}
           \/ /\ Awaits(task[t]) /\ r.call = task[t].call
              /\ r.doing = task[t].doing /\ r.corr = task[t].corr
    BY <2>3 DEF Reader
  <2> QED
    BY <1>1, <1>3, <2>1, <2>2, <2>3, <2>4, <2>5, Taking
<1> QED
  BY <1>1, <1>2, <1>3 DEF ReadFrame, Readers

LEMMA Receives ==
  ASSUME TypeOK, CInv, NEW t \in Tasks, NEW m \in TaskRecs, Reader(task[t], m), Receive(t, m),
         UNCHANGED <<sending, toHost, toApp>>
  PROVE  CInv'
<1>1. /\ task \in [Tasks -> TaskRecs] /\ task[t] \in TaskRecs /\ Outbound' = Outbound
      /\ session \in Sessions /\ session.parked \in Seq(Frames) /\ toApp' = toApp
      /\ \A f \in Carried(session.parked) : ~Answerable(f)
  BY DEF TypeOK, Outbound, Sessions, CInv, Aged
<1>2. CASE session.closed
  <2> DEFINE q == [m EXCEPT !.pc = "rejected"]
  <2>1. /\ task' = [task EXCEPT ![t] = q] /\ session' = session /\ reader' = reader
    BY <1>2 DEF Receive
  <2>2. q \in TaskRecs /\ q.pc = "rejected" /\ q = [m EXCEPT !.pc = "rejected", !.frame = m.frame]
    BY DEF TaskRecs
  <2> HIDE DEF q
  <2>3. Tame(task[t], q)
    BY <1>1, <2>2, ReaderTame
  <2> QED
    BY <1>1, <2>1, <2>2, <2>3, Alone DEF Reader
<1>3. CASE ~session.closed /\ ParkedHits(m) # {}
  <2>1. PICK i \in 1..Len(session.parked) :
          /\ task' = [task EXCEPT ![t] = [m EXCEPT !.pc = "got", !.frame = session.parked[i]]]
          /\ session' = [session EXCEPT !.parked = Without(@, i)]
          /\ reader' = reader
    BY <1>3, TakenParked DEF Receive
  <2>2. session'.parked = Without(session.parked, i) /\ session'.nextCorr = session.nextCorr
    BY <1>1, <2>1 DEF Sessions
  <2>3. Carried(Without(session.parked, i)) \subseteq Carried(session.parked)
    <3>1. /\ Without(session.parked, i) \in Seq(Frames)
          /\ Len(Without(session.parked, i)) = Len(session.parked) - 1
          /\ \A j \in 1..(Len(session.parked) - 1) :
               Without(session.parked, i)[j] =
                 IF j < i THEN session.parked[j] ELSE session.parked[j + 1]
      BY <1>1, WithoutIndex
    <3>2. /\ DOMAIN session.parked = 1..Len(session.parked) /\ Len(session.parked) \in Nat
          /\ DOMAIN Without(session.parked, i) = 1..(Len(session.parked) - 1)
      BY <1>1, <3>1
    <3>3. ASSUME NEW j \in DOMAIN Without(session.parked, i)
          PROVE  Without(session.parked, i)[j] \in Carried(session.parked)
      <4>1. j \in DOMAIN session.parked /\ j + 1 \in DOMAIN session.parked
        BY <3>2
      <4> QED
        BY <3>1, <3>2, <4>1 DEF Carried
    <3> QED
      BY <3>3 DEF Carried
  <2>4. session.parked[i] \in Frames /\ ~Answerable(session.parked[i])
    BY <1>1 DEF Carried
  <2> DEFINE q == [m EXCEPT !.pc = "got", !.frame = session.parked[i]]
  <2>5. q \in TaskRecs /\ q.pc = "got" /\ q.frame = session.parked[i]
    BY <2>4 DEF TaskRecs, Waits
  <2>6. Tame(task[t], q)
    BY <1>1, <2>4, ReaderTame
  <2>7. task' = [task EXCEPT ![t] = q]
    BY <2>1
  <2> HIDE DEF q
  <2>8. Replies(q, q.frame)
    BY <2>4, <2>5 DEF Replies
  <2> QED
    BY <1>1, <2>1, <2>2, <2>3, <2>5, <2>6, <2>7, <2>8, Alone DEF Reader
<1>4. CASE ~session.closed /\ ParkedHits(m) = {}
  BY <1>1, <1>4, Reads DEF Receive
<1> QED
  BY <1>2, <1>3, <1>4

(* A task that comes to rest, or fails, with the frame it has.                    *)
LEMMA Rests ==
  ASSUME TypeOK, CInv, NEW t \in Tasks, NEW r \in TaskRecs, task' = [task EXCEPT ![t] = r],
         r.doing = task[t].doing, r.corr = task[t].corr, r.pc \notin Waits,
         Settled(task[t]) \/ r.pc # "ready",
         ~Dooms(task[t]) \/ r.pc = "rejected" \/ reader.failed,
         session' = session, UNCHANGED <<reader, sending, toHost, toApp>>
  PROVE  CInv'
<1>1. Tame(task[t], r)
  BY DEF Tame, Settled, Awaits, Waits
<1>2. /\ \A f \in Carried(session'.parked) : ~Answerable(f)
      /\ Outbound' = Outbound
  BY DEF CInv, Aged, Outbound
<1>3. Dooms(task[t]) => Dooms(r) \/ reader.failed
  BY DEF Dooms
<1>4. r.pc # "got"
  BY DEF Waits
<1> QED
  BY <1>1, <1>2, <1>3, <1>4, Alone

(* The socket goes, with the frames that were not on the wire yet, or not read.   *)
LEMMA Drops ==
  ASSUME TypeOK, CInv, FailIO, UNCHANGED <<toHost, toApp>>,
         session'.nextCorr = session.nextCorr, session'.parked = session.parked,
         \A u \in Tasks : Tame(task[u], task'[u]),
         \A u \in Tasks : task'[u].pc = "got" => task'[u] = task[u]
  PROVE  CInv'
<1>1. /\ Inbound' = toApp /\ Outbound' = toHost /\ reader'.unread = <<>>
      /\ Inbound = reader.unread \o toApp /\ Outbound = toHost \o Queued(sending)
  BY Dropped
<1>2. /\ toApp \in Seq(Frames) /\ toHost \in Seq(Frames) /\ reader.unread \in Seq(Frames)
      /\ Queued(sending) \in Seq(Frames)
  BY FlightTypes DEF TypeOK
<1>3. Line(session.nextCorr, toApp, toHost)
  BY <1>1, <1>2, LineDrop DEF CInv, Aged
<1>4. Aged'
  BY <1>1, <1>3 DEF CInv, Aged
<1>5. InFlight' \subseteq InFlight
  BY <1>1, <1>2, JoinedCarried DEF InFlight
<1>6. Doomed'
  BY DEF Doomed, FailIO
<1>7. Carried(reader'.unread) = {}
  BY <1>1 DEF Carried
<1>8. \A u \in Tasks : task'[u].doing = "echo" /\ task'[u].pc = "got"
                         => Replies(task'[u], task'[u].frame)
  BY DEF CInv, Matched
<1> QED
  BY <1>4, <1>5, <1>6, <1>7, <1>8, Quietly

LEMMA ReleasedTame ==
  ASSUME TypeOK
  PROVE  \A u \in Tasks : /\ Tame(task[u], Released[u])
                          /\ Released[u].pc = "got" => Released[u] = task[u]
<1> SUFFICES ASSUME NEW u \in Tasks
             PROVE  /\ Tame(task[u], Released[u])
                    /\ Released[u].pc = "got" => Released[u] = task[u]
  OBVIOUS
<1>1. task[u] \in TaskRecs
  BY DEF TypeOK
<1>2. CASE Released[u] = task[u]
  BY <1>2 DEF Tame
<1>3. CASE Released[u] = [task[u] EXCEPT !.pc = "rejected"]
                /\ task[u].pc \in {"reading", "writing"}
  <2>1. /\ Released[u].pc = "rejected" /\ Released[u].doing = task[u].doing
        /\ Released[u].corr = task[u].corr
    BY <1>1, <1>3 DEF TaskRecs
  <2> QED
    BY <2>1 DEF Tame, Settled, Awaits, Waits
<1> QED
  BY <1>2, <1>3 DEF Released

LEMMA ParksEvents ==
  ASSUME NEW m, NEW f, Parks(m, f)
  PROVE  m.doing = "echo" /\ ~Answerable(f)
BY DEF Parks, AdmitsHeader, LifecycleEventReceiver, Answerable

(* The app's steps: no frame from the host, calls only with fresh ids.            *)
LEMMA AppMatches ==
  ASSUME IsFiniteSet(Tasks), Cardinality(Tasks) < CorrLimit, IInv, CInv, App
  PROVE  CInv'
<1> USE LinkAssumption
<1>0. /\ \A u \in Tasks : task[u] \in TaskRecs /\ task[u].frame \in Frames /\ task[u].corr \in Nat
      /\ \A u \in Tasks : task[u].todo \in Seq(Ops)
  BY DEF IInv, TypeOK, TaskRecs
<1>1. /\ TypeOK /\ task \in [Tasks -> TaskRecs] /\ session \in Sessions /\ reader \in Readers
      /\ session.nextCorr \in Corrs /\ session.nextCorr \in Nat
  <2>1. session \in Sessions
    BY DEF IInv, TypeOK, Sessions
  <2>2. session.nextCorr \in Corrs
    BY <2>1 DEF Sessions
  <2> QED
    BY <2>1, <2>2 DEF IInv, TypeOK, Readers, Corrs
<1>2. \A f \in Carried(session.parked) : ~Answerable(f)
  BY DEF CInv, Aged
<1>3. session.closed => reader.failed
  BY DEF IInv, Closing
<1>4. ASSUME NEW t \in Tasks, NEW m \in TaskRecs, NEW f \in Frames, WriteFrame(t, m, f),
             f.kind \in {"HELLO", "PING"}, m.doing \in {"hello", "pong"},
             Settled(task[t]), ~Dooms(task[t]),
             UNCHANGED <<session, reader, toHost, toApp>>
      PROVE  CInv'
  <2>1. ASSUME NEW pc \in {"writing", "rejected"}, task' = [task EXCEPT ![t] = [m EXCEPT !.pc = pc]],
               Outbound' = Outbound \/ Outbound' = Append(Outbound, f)
        PROVE  CInv'
    <3> DEFINE r == [m EXCEPT !.pc = pc]
    <3>1. r \in TaskRecs /\ r.pc = pc /\ r.doing = m.doing /\ task' = [task EXCEPT ![t] = r]
      BY <2>1 DEF TaskRecs, Waits
    <3> HIDE DEF r
    <3>2. Tame(task[t], r)
      BY <1>4, <3>1 DEF Tame, Settled, Awaits
    <3>3. ~(r.doing = "echo")
      BY <1>4, <3>1
    <3> QED
      BY <1>1, <1>2, <1>4, <2>1, <3>1, <3>2, <3>3, Alone
  <2>2. CASE session.closed
    <3>1. task' = [task EXCEPT ![t] = [m EXCEPT !.pc = "rejected"]] /\ Outbound' = Outbound
      BY <1>4, <2>2 DEF WriteFrame, Outbound
    <3> QED
      BY <2>1, <3>1
  <2>3. CASE ~session.closed
    <3>1. /\ task' = [task EXCEPT ![t] = [m EXCEPT !.pc = "writing"]]
          /\ sending' = Append(sending, [by |-> t, frame |-> f]) /\ toHost' = toHost
      BY <1>4, <2>3 DEF WriteFrame
    <3>2. Outbound' = Append(Outbound, f)
      BY <1>1, <3>1, OutWrites
    <3> QED
      BY <2>1, <3>1, <3>2
  <2> QED
    BY <2>2, <2>3
<1>5. ASSUME NEW t \in Tasks, NEW m \in TaskRecs, NEW g \in Frames, WriteFrame(t, m, g),
             AllocCorr, UNCHANGED <<reader, toHost, toApp>>,
             Settled(task[t]), ~Dooms(task[t]),
             m.corr = session.nextCorr, m.doing \in {"echo", "quit"},
             g.kind = "CALL", g.corr = session.nextCorr,
             \/ m.doing = "echo" /\ g.channel = "echo" /\ g.call = m.call
             \/ m.doing = "quit" /\ g.channel = "lifecycle"
      PROVE  CInv'
  <2>1. ASSUME NEW pc \in {"writing", "rejected"}, task' = [task EXCEPT ![t] = [m EXCEPT !.pc = pc]],
               \/ pc = "writing" /\ Outbound' = Append(Outbound, g)
               \/ pc = "rejected" /\ Outbound' = Outbound
        PROVE  CInv'
    <3> DEFINE r == [m EXCEPT !.pc = pc]
    <3>1. /\ r \in TaskRecs /\ r.pc = pc /\ r.doing = m.doing /\ r.corr = m.corr
          /\ r.call = m.call /\ task' = [task EXCEPT ![t] = r]
      BY <2>1 DEF TaskRecs, Waits
    <3> HIDE DEF r
    <3>2. /\ r.corr = session.nextCorr /\ r.doing \in {"echo", "quit"}
          /\ \/ r.doing = "echo" /\ g.channel = "echo" /\ g.call = r.call
             \/ r.doing = "quit" /\ g.channel = "lifecycle"
      BY <1>5, <3>1
    <3>3. \/ r.pc = "writing" /\ Outbound' = Append(Outbound, g)
          \/ r.pc = "rejected" /\ Outbound' = Outbound
      BY <2>1, <3>1
    <3>4. /\ TypeOK /\ CInv /\ Settled(task[t]) /\ ~Dooms(task[t])
          /\ AllocCorr /\ UNCHANGED <<reader, toHost, toApp>>
          /\ g.kind = "CALL" /\ g.corr = session.nextCorr
          /\ r \in TaskRecs /\ task' = [task EXCEPT ![t] = r]
      BY <1>1, <1>5, <3>1
    <3> QED
      BY <3>2, <3>3, <3>4, Calling, Zenon
  <2>2. CASE session.closed
    <3>1. task' = [task EXCEPT ![t] = [m EXCEPT !.pc = "rejected"]] /\ Outbound' = Outbound
      BY <1>5, <2>2 DEF WriteFrame, Outbound
    <3> QED
      BY <2>1, <3>1
  <2>3. CASE ~session.closed
    <3>1. /\ task' = [task EXCEPT ![t] = [m EXCEPT !.pc = "writing"]]
          /\ sending' = Append(sending, [by |-> t, frame |-> g]) /\ toHost' = toHost
      BY <1>5, <2>3 DEF WriteFrame
    <3>2. Outbound' = Append(Outbound, g)
      BY <1>1, <3>1, OutWrites
    <3> QED
      BY <2>1, <3>1, <3>2
  <2> QED
    BY <2>2, <2>3
<1>6. ASSUME NEW t \in Tasks, NEW pc \in {"rejected", "threw", "done", "failed"},
             task' = [task EXCEPT ![t].pc = pc],
             ~Dooms(task[t]) \/ pc = "rejected" \/ reader.failed,
             UNCHANGED <<session, reader, sending, toHost, toApp>>
      PROVE  CInv'
  <2> DEFINE r == [task[t] EXCEPT !.pc = pc]
  <2>1. /\ r \in TaskRecs /\ r.pc = pc /\ r.doing = task[t].doing /\ r.corr = task[t].corr
        /\ task' = [task EXCEPT ![t] = r]
    BY <1>0, <1>1, <1>6 DEF TaskRecs
  <2> HIDE DEF r
  <2>2. r.pc \notin Waits /\ r.pc # "ready"
    BY <2>1 DEF Waits
  <2> QED
    BY <1>1, <1>6, <2>1, <2>2, Rests
<1>7. ASSUME NEW t \in Tasks, NextOp(t), Settled(task[t]), ~Dooms(task[t]),
             task[t].todo # <<>>, UNCHANGED <<session, reader, sending, toHost, toApp>>
      PROVE  CInv'
  <2> DEFINE r == [task[t] EXCEPT !.pc = "ready", !.todo = Tail(@)]
  <2>0. Tail(task[t].todo) \in Seq(Ops)
    BY <1>0, <1>7
  <2>1. /\ r \in TaskRecs /\ r.pc = "ready" /\ r.doing = task[t].doing /\ r.corr = task[t].corr
        /\ task' = [task EXCEPT ![t] = r]
    BY <1>0, <1>1, <1>7, <2>0 DEF TaskRecs, NextOp
  <2> HIDE DEF r
  <2>2. r.pc \notin Waits
    BY <2>1 DEF Waits
  <2> QED
    BY <1>1, <1>7, <2>1, <2>2, Rests
<1>8. ASSUME NEW t \in Tasks, NEW pc \in {"done", "failed"}, Close(t, pc),
             task[t].pc \in {"ready", "rejected", "threw"}, UNCHANGED <<toHost, toApp>>
      PROVE  CInv'
  <2>1. CASE session.closed
    <3>1. task' = [task EXCEPT ![t].pc = pc] /\ UNCHANGED <<session, reader, sending>>
      BY <1>8, <2>1 DEF Close
    <3> QED
      BY <1>3, <1>6, <1>8, <2>1, <3>1
  <2>2. CASE ~session.closed
    <3>1. /\ task' = [Released EXCEPT ![t].pc = pc] /\ FailIO
          /\ session'.nextCorr = session.nextCorr /\ session'.parked = session.parked
      BY <1>1, <1>8, <2>2 DEF Close, Sessions
    <3>2. Released[t] = task[t] /\ Released \in [Tasks -> TaskRecs]
      BY <1>1, <1>8, ReleasedTypes DEF Released
    <3> DEFINE r == [task[t] EXCEPT !.pc = pc]
    <3>3. /\ r \in TaskRecs /\ r.pc = pc /\ r.doing = task[t].doing /\ r.corr = task[t].corr
          /\ task' = [Released EXCEPT ![t] = r]
      BY <1>0, <3>1, <3>2 DEF TaskRecs
    <3> HIDE DEF r
    <3>4. \A u \in Tasks : task'[u] = IF u = t THEN r ELSE Released[u]
      BY <3>2, <3>3
    <3>5. Tame(task[t], r) /\ r.pc # "got"
      BY <3>3 DEF Tame, Settled, Awaits, Waits
    <3>6. \A u \in Tasks : Tame(task[u], Released[u])
                           /\ (Released[u].pc = "got" => Released[u] = task[u])
      BY <1>1, ReleasedTame
    <3> QED
      BY <1>1, <1>8, <3>1, <3>4, <3>5, <3>6, Drops
  <2> QED
    BY <2>1, <2>2
<1>9. ASSUME NEW t \in Tasks, NEW m \in TaskRecs, Receive(t, m), Reader(task[t], m),
             UNCHANGED <<sending, toHost, toApp>>
      PROVE  CInv'
  BY <1>1, <1>9, Receives
<1>10. CASE Connect
  <2>1. /\ task[Main].pc = "ready" /\ task[Main].doing = "hello"
        /\ WriteFrame(Main, task[Main], HelloFrame)
        /\ UNCHANGED <<session, reader, toHost, toApp>>
    BY <1>10 DEF Connect
  <2>2. HelloFrame \in Frames /\ HelloFrame.kind = "HELLO"
    BY FrameTypes DEF HelloFrame, Frame
  <2>3. Settled(task[Main]) /\ ~Dooms(task[Main])
    BY <2>1 DEF Settled, Dooms
  <2> QED
    BY <1>0, <1>4, <2>1, <2>2, <2>3
<1>11. ASSUME NEW t \in Tasks, BeginEcho(t) PROVE CInv'
  <2>1. /\ task[t].pc = "ready" /\ UNCHANGED <<reader, toHost, toApp>>
    BY <1>11 DEF BeginEcho, Starts
  <2>2. Settled(task[t]) /\ ~Dooms(task[t])
    BY <2>1 DEF Settled, Dooms
  <2>3. CASE session.closed
    BY <1>6, <1>11, <2>1, <2>2, <2>3 DEF BeginEcho
  <2>4. CASE ~session.closed
    <3> DEFINE m == [task[t] EXCEPT !.doing = "echo", !.corr = session.nextCorr,
                                    !.call = CallId(t)]
               g == Frame("CALL", "echo", session.nextCorr, "echo", CallId(t))
    <3>1. AllocCorr /\ WriteFrame(t, m, g)
      BY <1>11, <2>4 DEF BeginEcho
    <3>2. CallId(t) \in Calls
      BY <1>0 DEF CallId, Calls
    <3>3. /\ m \in TaskRecs /\ m.doing = "echo" /\ m.corr = session.nextCorr /\ m.call = CallId(t)
      BY <1>0, <1>1, <3>2 DEF TaskRecs
    <3>4. /\ g \in Frames /\ g.kind = "CALL" /\ g.channel = "echo" /\ g.corr = session.nextCorr
          /\ g.call = CallId(t)
      BY <1>1, <3>2, FrameTypes DEF Frame, Kinds, Channels, Bodies
    <3> HIDE DEF m, g
    <3> QED
      BY <1>5, <2>1, <2>2, <3>1, <3>3, <3>4
  <2> QED
    BY <2>3, <2>4
<1>12. ASSUME NEW t \in Tasks, BeginLifecycle(t) PROVE CInv'
  <2> DEFINE m == [task[t] EXCEPT !.doing = "events"]
  <2>1. /\ task[t].pc = "ready" /\ Receive(t, m) /\ UNCHANGED <<sending, toHost, toApp>>
    BY <1>12 DEF BeginLifecycle, Starts
  <2>2. m \in TaskRecs /\ m.doing = "events"
    BY <1>0 DEF TaskRecs
  <2> HIDE DEF m
  <2>3. Reader(task[t], m)
    BY <2>1, <2>2 DEF Reader, Settled, Dooms
  <2> QED
    BY <1>9, <2>1, <2>2, <2>3
<1>13. ASSUME NEW t \in Tasks, AfterWrite(t) PROVE CInv'
  <2> DEFINE m == [task[t] EXCEPT !.doing = IF @ = "pong" THEN "events" ELSE @]
  <2>1. /\ task[t].pc = "written" /\ Receive(t, m) /\ UNCHANGED <<sending, toHost, toApp>>
    BY <1>13 DEF AfterWrite
  <2>2. /\ m \in TaskRecs /\ m.corr = task[t].corr /\ m.call = task[t].call
        /\ m.doing = IF task[t].doing = "pong" THEN "events" ELSE task[t].doing
        /\ task[t].doing \in {"hello", "echo", "events", "pong", "quit"}
    BY <1>0 DEF TaskRecs
  <2> HIDE DEF m
  <2>3. Reader(task[t], m)
    BY <2>1, <2>2 DEF Reader, Settled, Dooms, Awaits, Waits
  <2> QED
    BY <1>9, <2>1, <2>2, <2>3
<1>14. ASSUME NEW t \in Tasks, Unwanted(t) PROVE CInv'
  <2>1. /\ task[t].pc = "got" /\ UNCHANGED <<sending, toHost, toApp>>
    BY <1>14 DEF Unwanted
  <2>2. CASE /\ Parks(task[t], task[t].frame)
             /\ session' = [session EXCEPT !.parked = Append(@, task[t].frame)]
             /\ ReadFrame(t, task[t])
    <3>1. task[t].doing = "echo" /\ ~Answerable(task[t].frame)
      BY <2>2, ParksEvents
    <3>2. /\ session'.nextCorr = session.nextCorr
          /\ session'.parked = Append(session.parked, task[t].frame)
          /\ session.parked \in Seq(Frames)
      BY <1>1, <2>2 DEF Sessions
    <3>3. \A f \in Carried(session'.parked) : ~Answerable(f)
      BY <1>0, <1>2, <3>1, <3>2, AppendCarried
    <3>4. Reader(task[t], task[t])
      BY <2>1, <3>1 DEF Reader, Settled, Own, Dooms, Awaits, Waits
    <3> QED
      BY <1>0, <1>1, <2>1, <2>2, <3>2, <3>3, <3>4, Reads
  <2>3. CASE task' = [task EXCEPT ![t].pc = "rejected"] /\ UNCHANGED <<session, reader>>
    BY <1>6, <2>1, <2>3
  <2> QED
    BY <1>14, <2>2, <2>3 DEF Unwanted
<1>15. CASE HelloAnswered
  <2>1. /\ task[Main].pc = "got" /\ task[Main].doing = "hello"
        /\ AdmitsHeader(Want(task[Main]), task[Main].frame)
        /\ UNCHANGED <<reader, sending, toHost, toApp>>
    BY <1>15 DEF HelloAnswered, Wanted
  <2>2. ~Dooms(task[Main])
    BY <2>1 DEF Dooms
  <2>3. CASE /\ task' = [task EXCEPT ![Main].pc = "ready", ![Main].doing = "events"]
             /\ session' = [session EXCEPT !.connected = TRUE]
    <3> DEFINE r == [task[Main] EXCEPT !.pc = "ready", !.doing = "events"]
    <3>1. /\ r \in TaskRecs /\ r.pc = "ready" /\ r.doing = "events"
          /\ task' = [task EXCEPT ![Main] = r]
      BY <1>0, <1>1, <2>3 DEF TaskRecs
    <3> HIDE DEF r
    <3>2. Tame(task[Main], r)
      BY <2>1, <3>1 DEF Tame, Settled, Awaits
    <3>3. session'.nextCorr = session.nextCorr /\ session'.parked = session.parked
      BY <1>1, <2>3 DEF Sessions
    <3>4. Outbound' = Outbound
      BY <2>1 DEF Outbound
    <3> QED
      BY <1>1, <1>2, <2>1, <2>2, <3>1, <3>2, <3>3, <3>4, Alone
  <2>4. CASE task' = [task EXCEPT ![Main].pc = "rejected"] /\ UNCHANGED session
    BY <1>6, <2>1, <2>4
  <2> QED
    BY <1>15, <2>3, <2>4 DEF HelloAnswered
<1>16. ASSUME NEW t \in Tasks, EchoAnswered(t) PROVE CInv'
  <2>1. /\ task[t].pc = "got" /\ task[t].doing = "echo"
        /\ AdmitsHeader(EchoReplyWaiter(task[t].corr), task[t].frame)
        /\ AdmitsHeader(Want(task[t]), task[t].frame)
        /\ Threw(t) \/ NextOp(t)
        /\ UNCHANGED <<session, reader, sending, toHost, toApp>>
    BY <1>16 DEF EchoAnswered, Wanted, Want
  <2>2. Settled(task[t]) /\ ~Dooms(task[t])
    BY <2>1 DEF AdmitsHeader, EchoReplyWaiter, Settled, Own, Answerable, Dooms
  <2>3. task[t].todo # <<>>
    BY <2>1 DEF IInv, Working, Works, Waits
  <2> QED
    BY <1>6, <1>7, <2>1, <2>2, <2>3 DEF Threw
<1>17. ASSUME NEW t \in Tasks, QuitAnswered(t) PROVE CInv'
  <2>1. /\ task[t].pc = "got" /\ task[t].doing = "quit"
        /\ AdmitsHeader(LifecycleReplyWaiter(task[t].corr), task[t].frame)
        /\ AdmitsHeader(Want(task[t]), task[t].frame)
        /\ Threw(t) \/ NextOp(t)
        /\ UNCHANGED <<session, reader, sending, toHost, toApp>>
    BY <1>17 DEF QuitAnswered, Wanted, Want
  <2>2. Settled(task[t]) /\ ~Dooms(task[t])
    BY <2>1 DEF AdmitsHeader, LifecycleReplyWaiter, Settled, Own, Answerable, Dooms
  <2>3. task[t].todo # <<>>
    BY <2>1 DEF IInv, Working, Works, Waits
  <2> QED
    BY <1>6, <1>7, <2>1, <2>2, <2>3 DEF Threw
<1>18. ASSUME NEW t \in Tasks, TakeEvent(t) PROVE CInv'
  <2>1. /\ task[t].pc = "got" /\ task[t].doing = "events"
        /\ AdmitsHeader(Want(task[t]), task[t].frame) /\ UNCHANGED <<toHost, toApp>>
    BY <1>18 DEF TakeEvent, Wanted
  <2>2. Settled(task[t]) /\ ~Dooms(task[t])
    BY <2>1 DEF Settled, Dooms
  <2>3. CASE /\ task[t].frame.kind = "PING" /\ UNCHANGED <<session, reader>>
             /\ WriteFrame(t, [task[t] EXCEPT !.doing = "pong"], task[t].frame)
    <3> DEFINE m == [task[t] EXCEPT !.doing = "pong"]
    <3>1. m \in TaskRecs /\ m.doing = "pong" /\ WriteFrame(t, m, task[t].frame)
      BY <1>0, <2>3 DEF TaskRecs
    <3> HIDE DEF m
    <3> QED
      BY <1>0, <1>4, <2>1, <2>2, <2>3, <3>1
  <2>4. CASE Receive(t, task[t]) /\ UNCHANGED sending
    <3>1. Reader(task[t], task[t])
      BY <2>1, <2>2 DEF Reader
    <3> QED
      BY <1>0, <1>9, <2>1, <2>4, <3>1
  <2>5. CASE /\ AllocCorr
             /\ WriteFrame(t, [task[t] EXCEPT !.doing = "quit", !.corr = session.nextCorr],
                           Frame("CALL", "lifecycle", session.nextCorr, "quit", NoCall))
             /\ UNCHANGED reader
    <3> DEFINE m == [task[t] EXCEPT !.doing = "quit", !.corr = session.nextCorr]
               g == Frame("CALL", "lifecycle", session.nextCorr, "quit", NoCall)
    <3>1. WriteFrame(t, m, g)
      BY <2>5
    <3>2. m \in TaskRecs /\ m.doing = "quit" /\ m.corr = session.nextCorr
      BY <1>0, <1>1 DEF TaskRecs
    <3>3. g \in Frames /\ g.kind = "CALL" /\ g.channel = "lifecycle" /\ g.corr = session.nextCorr
      BY <1>1, FrameTypes DEF Frame, Kinds, Channels, Bodies
    <3> HIDE DEF m, g
    <3> QED
      BY <1>5, <2>1, <2>2, <2>5, <3>1, <3>2, <3>3
  <2>6. CASE Threw(t) /\ UNCHANGED <<session, reader, sending>>
    BY <1>6, <2>1, <2>2, <2>6 DEF Threw
  <2> QED
    BY <1>18, <2>3, <2>4, <2>5, <2>6 DEF TakeEvent
<1>19. ASSUME NEW t \in Tasks, Finish(t) PROVE CInv'
  <2>1. task[t].pc = "ready" /\ UNCHANGED <<toHost, toApp>>
    BY <1>19 DEF Finish
  <2>2. ~Dooms(task[t])
    BY <2>1 DEF Dooms
  <2>3. CASE Close(t, "done")
    BY <1>8, <2>1, <2>3
  <2>4. CASE task' = [task EXCEPT ![t].pc = "done"] /\ UNCHANGED <<session, reader, sending>>
    BY <1>6, <2>1, <2>2, <2>4
  <2> QED
    BY <1>19, <2>3, <2>4 DEF Finish
<1>20. ASSUME NEW t \in Tasks, Fails(t) PROVE CInv'
  <2>1. task[t].pc \in {"rejected", "threw"} /\ UNCHANGED <<toHost, toApp>>
    BY <1>20 DEF Fails
  <2>2. CASE Close(t, "failed")
    BY <1>8, <2>1, <2>2
  <2>3. CASE /\ task' = [task EXCEPT ![t].pc = "failed"] /\ UNCHANGED <<session, reader, sending>>
             /\ task[t].pc # "rejected"
    <3>1. ~Dooms(task[t])
      BY <2>1, <2>3 DEF Dooms
    <3> QED
      BY <1>6, <2>1, <2>3, <3>1
  <2> QED
    BY <1>20, <2>2, <2>3 DEF Fails
<1> QED
  BY <1>10, <1>11, <1>12, <1>13, <1>14, <1>15, <1>16, <1>17, <1>18, <1>19, <1>20 DEF App

LEMMA FlushMatches ==
  ASSUME TypeOK, CInv, Flush
  PROVE  CInv'
<1>1. /\ sending # <<>> /\ task[Head(sending).by].pc = "writing" /\ sending \in Seq(Writes)
      /\ task' = [task EXCEPT ![Head(sending).by].pc = "written"]
      /\ UNCHANGED <<session, reader, toApp>> /\ task \in [Tasks -> TaskRecs]
  BY DEF Flush, TypeOK
<1>2. PICK t \in Tasks : t = Head(sending).by
  <2>1. Head(sending) \in Writes
    BY <1>1
  <2> QED
    BY <2>1 DEF Writes
<1> DEFINE r == [task[t] EXCEPT !.pc = "written"]
<1>3. /\ r \in TaskRecs /\ r.pc = "written" /\ r.doing = task[t].doing
      /\ r.corr = task[t].corr /\ r.call = task[t].call
      /\ task' = [task EXCEPT ![t] = r]
  BY <1>1, <1>2 DEF TaskRecs, Waits
<1> HIDE DEF r
<1>4. task[t].pc = "writing"
  BY <1>1, <1>2
<1>5. Tame(task[t], r) /\ r.pc # "got" /\ ~Dooms(task[t])
  BY <1>3, <1>4 DEF Tame, Settled, Awaits, Waits, Dooms
<1>6. \A f \in Carried(session'.parked) : ~Answerable(f)
  BY <1>1 DEF CInv, Aged
<1>7. Outbound' = Outbound
  BY OutFlushes
<1> QED
  BY <1>1, <1>3, <1>5, <1>6, <1>7, Alone

(* A data callback comes only while the app has no reason to close the session.   *)
LEMMA PushMatches ==
  ASSUME IInv, CInv, exit = "running", NEW n \in 1..Len(toApp), Push(n)
  PROVE  CInv'
<1> USE LinkAssumption
<1> DEFINE all == reader.unread \o SubSeq(toApp, 1, n)
           rest == SubSeq(toApp, n + 1, Len(toApp))
<1>1. /\ TypeOK /\ task \in [Tasks -> TaskRecs] /\ reader \in Readers
      /\ reader.pending \in Tasks \cup {None} /\ Inbound \in Seq(Frames)
  BY FlightTypes DEF IInv, TypeOK, Readers
<1>2. /\ all \in Seq(Frames) /\ rest \in Seq(Frames) /\ all # <<>>
      /\ Head(all) = Inbound[1] /\ Head(all) \in Frames
      /\ all \o rest = Inbound /\ Tail(all) \o rest = Tail(Inbound) /\ Inbound # <<>>
  BY <1>1, Arrived
<1>3. ~Doomed
  <2>1. ~reader.failed /\ ~Microtask
    BY DEF Push
  <2>2. \A u \in Tasks : task[u].pc \notin {"got", "rejected"}
    BY <2>1 DEF Microtask
  <2> QED
    BY <2>1, <2>2 DEF Doomed, Dooms
<1>4. /\ toApp' = rest /\ UNCHANGED <<session, sending, toHost>>
      /\ \/ /\ reader.pending = None /\ reader' = [reader EXCEPT !.unread = all] /\ task' = task
         \/ /\ reader.pending # None
            /\ reader' = [reader EXCEPT !.pending = None, !.unread = Tail(all)]
            /\ task' = [task EXCEPT ![reader.pending].pc = "got",
                                    ![reader.pending].frame = Head(all)]
  BY DEF Push
<1>5. /\ Outbound' = Outbound /\ session'.nextCorr = session.nextCorr
      /\ \A f \in Carried(session'.parked) : ~Answerable(f)
  BY <1>4 DEF Outbound, CInv, Aged
<1> HIDE DEF all, rest
<1>6. Carried(all) \subseteq InFlight /\ Carried(Tail(all)) \subseteq InFlight
  <2>1. Carried(all) \subseteq Carried(all \o rest)
    BY <1>2, JoinedCarried
  <2>2. Carried(Tail(all)) \subseteq Carried(all)
    BY <1>2, TailCarried
  <2> QED
    BY <1>2, <2>1, <2>2 DEF InFlight
<1>7. CASE reader.pending = None
  <2>1. /\ reader'.unread = all /\ reader'.failed = reader.failed /\ task' = task
    BY <1>1, <1>4, <1>7 DEF Readers
  <2>2. Inbound' = Inbound
    BY <1>2, <1>4, <2>1 DEF Inbound
  <2>3. Aged' /\ InFlight' = InFlight
    BY <1>4, <1>5, <2>2 DEF CInv, Aged, InFlight
  <2>4. \A u \in Tasks : Tame(task[u], task'[u])
    BY <2>1 DEF Tame
  <2>5. Doomed => Doomed'
    BY <1>3
  <2>6. \A u \in Tasks : task'[u].doing = "echo" /\ task'[u].pc = "got"
                           => Replies(task'[u], task'[u].frame)
    BY <2>1 DEF CInv, Matched
  <2>7. \A f \in Carried(reader'.unread) : ~Doomed /\ f \in InFlight
    BY <1>3, <1>6, <2>1
  <2> QED
    BY <1>5, <2>3, <2>4, <2>5, <2>6, <2>7, Quietly
<1>8. CASE reader.pending # None
  <2>1. PICK t \in Tasks : t = reader.pending
    BY <1>1, <1>8
  <2>2. task[t].pc = "reading"
    <3>1. task[t].pc \in {"reading", "rejected"}
      BY <1>8, <2>1 DEF IInv, Reading
    <3> QED
      BY <1>3, <3>1 DEF Doomed, Dooms
  <2> DEFINE r == [task[t] EXCEPT !.pc = "got", !.frame = Head(all)]
  <2>3. /\ r \in TaskRecs /\ r.pc = "got" /\ r.frame = Head(all) /\ r.doing = task[t].doing
        /\ r.corr = task[t].corr /\ r.call = task[t].call
        /\ task' = [task EXCEPT ![t] = r]
    <3>1. task[t] \in TaskRecs /\ Head(all) \in Frames
      BY <1>1, <1>2
    <3>2. /\ r \in TaskRecs /\ r.pc = "got" /\ r.frame = Head(all) /\ r.doing = task[t].doing
          /\ r.corr = task[t].corr /\ r.call = task[t].call
      BY <3>1 DEF TaskRecs, Waits
    <3>3. task' = [task EXCEPT ![t].pc = "got", ![t].frame = Head(all)]
      BY <1>4, <1>8, <2>1
    <3>4. task' = [task EXCEPT ![t] = r]
      BY <1>1, <3>3
    <3> QED
      BY <3>2, <3>4
  <2> HIDE DEF r
  <2>4. /\ reader'.unread = Tail(all) /\ reader'.failed = reader.failed
    BY <1>1, <1>4, <1>8 DEF Readers
  <2>5. Inbound' = Tail(Inbound) /\ Head(Inbound) = Head(all)
    <3>1. Inbound' = reader'.unread \o toApp'
      BY DEF Inbound
    <3>2. Inbound' = Tail(all) \o rest
      BY <1>4, <2>4, <3>1
    <3>3. Head(Inbound) = Inbound[1]
      BY <1>1, <1>2, TailCarried
    <3> QED
      BY <1>2, <3>2, <3>3, Zenon
  <2>6. task[t].doing \in {"hello", "echo", "events", "pong", "quit"}
    BY <1>1 DEF TaskRecs
  <2>7. \/ r.doing \in {"hello", "events", "pong"}
        \/ /\ Awaits(task[t]) /\ r.call = task[t].call
           /\ r.doing = task[t].doing /\ r.corr = task[t].corr
    BY <2>2, <2>3, <2>6 DEF Awaits, Settled, Waits
  <2>8. ~Dooms(task[t])
    BY <1>3 DEF Doomed
  <2>9. \A f \in Carried(reader'.unread) : ~Doomed /\ f \in InFlight
    BY <1>3, <1>6, <2>4
  <2> QED
    BY <1>1, <1>2, <1>3, <1>5, <2>3, <2>4, <2>5, <2>7, <2>8, <2>9, Taking
<1> QED
  BY <1>7, <1>8

LEMMA HostMatches ==
  ASSUME \A f \in Strays : ~Answerable(f), IInv, CInv, Host
  PROVE  CInv'
<1> USE LinkAssumption
<1>1. /\ TypeOK /\ Inbound \in Seq(Frames) /\ Outbound \in Seq(Frames)
      /\ host.pings \in Nat /\ toHost \in Seq(Frames)
  BY FlightTypes DEF IInv, TypeOK
<1>2. UNCHANGED <<task, session, reader, sending>>
  BY DEF Host, HostHandles, HostAnnounces, HostPings, HostStrays, appVars
<1>3. ASSUME Line(session.nextCorr, Inbound', Outbound'),
             \A f \in InFlight' : Answerable(f) =>
               \E g \in InFlight : /\ Answerable(g) /\ g.corr = f.corr
                                   /\ f.channel = "echo" => g.channel = "echo" /\ g.call = f.call,
             \A f \in InFlight : Answerable(f) =>
               \E g \in InFlight' : Answerable(g) /\ g.corr = f.corr
      PROVE  CInv'
  <2>1. Aged'
    BY <1>2, <1>3 DEF CInv, Aged
  <2>2. Doomed' = Doomed /\ \A u \in Tasks : Tame(task[u], task'[u])
    BY <1>2 DEF Doomed, Tame
  <2>3. \A u \in Tasks : task'[u].doing = "echo" /\ task'[u].pc = "got"
                           => Replies(task'[u], task'[u].frame)
    BY <1>2 DEF CInv, Matched
  <2> QED
    BY <1>2, <1>3, <2>1, <2>2, <2>3, Quietly
<1>4. Line(session.nextCorr, Inbound, Outbound)
  BY DEF CInv, Aged
<1>5. ASSUME NEW f \in Frames, Says(f), ~Answerable(f), toHost' = toHost
      PROVE  CInv'
  <2>1. Inbound' = Append(Inbound, f) /\ Outbound' = Outbound
    BY <1>1, <1>2, <1>5, InSaid DEF Outbound
  <2>2. Line(session.nextCorr, Inbound', Outbound')
    BY <1>1, <1>4, <1>5, <2>1, LineAdd
  <2>3. InFlight \subseteq InFlight' /\ \A g \in InFlight' : Answerable(g) => g \in InFlight
    BY <1>1, <1>5, <2>1, AppendCarried DEF InFlight
  <2> QED
    BY <1>3, <2>2, <2>3
<1>6. CASE HostHandles
  <2> DEFINE f == Head(toHost)
  <2>1. toHost # <<>> /\ toHost' = Tail(toHost)
    BY <1>6 DEF HostHandles
  <2>2. /\ Outbound' = Tail(Outbound) /\ Outbound # <<>> /\ Head(Outbound) = f
        /\ f \in Frames
    BY <1>1, <1>2, <2>1, OutHandled
  <2>3. /\ Carried(Outbound) = {f} \cup Carried(Tail(Outbound)) /\ Tail(Outbound) \in Seq(Frames)
    BY <1>1, <2>2, TailCarried
  <2>4. /\ f.kind \in {"CALL", "HELLO", "PING"}
        /\ f.kind = "CALL" => f.channel \in {"echo", "lifecycle"}
    BY <1>4, <2>3 DEF Line
  <2>5. CASE f.kind = "HELLO" /\ Says(HelloFrame)
    <3>1. HelloFrame \in Frames /\ ~Answerable(HelloFrame) /\ ~Answerable(f)
      BY <2>5, FrameTypes DEF HelloFrame, Frame, Answerable
    <3>2. Inbound' = Append(Inbound, HelloFrame)
      BY <1>1, <1>2, <2>5, <3>1, InSaid
    <3>3. Line(session.nextCorr, Inbound', Outbound')
      BY <1>1, <1>4, <2>2, <2>3, <3>1, <3>2, LineAnswer, LineAdd
    <3>4. Carried(Inbound') = Carried(Inbound) \cup {HelloFrame}
      BY <1>1, <3>1, <3>2, AppendCarried
    <3>5. \A g : Answerable(g) => (g \in InFlight <=> g \in InFlight')
      BY <2>2, <2>3, <3>1, <3>4 DEF InFlight
    <3> QED
      BY <1>3, <3>3, <3>5
  <2>6. ASSUME NEW g \in Frames, Says(g), f.kind = "CALL", Answerable(g), g.corr = f.corr,
               g.channel = "echo" => f.channel = "echo" /\ g.call = f.call
        PROVE  CInv'
    <3>1. Answerable(f)
      BY <2>6 DEF Answerable
    <3>2. Inbound' = Append(Inbound, g)
      BY <1>1, <1>2, <2>6, InSaid
    <3>3. Line(session.nextCorr, Inbound', Outbound')
      BY <1>1, <1>4, <2>2, <2>6, <3>1, <3>2, LineAnswer
    <3>4. Carried(Inbound') = Carried(Inbound) \cup {g}
      BY <1>1, <2>6, <3>2, AppendCarried
    <3>5. /\ InFlight' \subseteq InFlight \cup {g} /\ InFlight \subseteq InFlight' \cup {f}
          /\ f \in InFlight /\ g \in InFlight'
      BY <2>2, <2>3, <3>4 DEF InFlight
    <3> QED
      BY <1>3, <2>6, <3>1, <3>3, <3>5
  <2>7. CASE f.kind = "CALL" /\ f.channel = "echo"
    <3> DEFINE g == Frame("REPLY", "echo", f.corr, "echo", f.call)
    <3>1. Says(g)
      BY <1>6, <2>7 DEF HostHandles
    <3>2. f.corr \in Nat /\ f.call \in Calls
      BY <2>2 DEF Frames, Calls
    <3>3. g \in Frames /\ Answerable(g) /\ g.corr = f.corr /\ g.call = f.call
      BY <3>2, FrameTypes DEF Frame, Kinds, Channels, Bodies, Answerable
    <3> HIDE DEF g
    <3> QED
      BY <2>6, <2>7, <3>1, <3>3
  <2>8. CASE f.kind = "CALL" /\ f.channel = "lifecycle"
    <3>1. PICK g : /\ Says(g)
                   /\ g \in {Frame("REPLY", "lifecycle", f.corr, "quit", NoCall),
                             Frame("ERR", "lifecycle", f.corr, "refused", NoCall)}
      BY <1>6, <2>8 DEF HostHandles
    <3>2. f.corr \in Nat
      BY <2>2 DEF Frames
    <3> DEFINE grants  == Frame("REPLY", "lifecycle", f.corr, "quit", NoCall)
               refuses == Frame("ERR", "lifecycle", f.corr, "refused", NoCall)
    <3>3. NoCall \in Calls /\ "lifecycle" \in Channels /\ {"REPLY", "ERR"} \subseteq Kinds
          /\ {"quit", "refused"} \subseteq Bodies
      BY FrameTypes DEF Kinds, Channels, Bodies
    <3>4. grants \in Frames /\ refuses \in Frames
      BY <3>2, <3>3, FrameTypes
    <3>5. /\ Answerable(grants) /\ grants.corr = f.corr /\ grants.channel # "echo"
          /\ Answerable(refuses) /\ refuses.corr = f.corr /\ refuses.channel # "echo"
      BY DEF Frame, Answerable
    <3>6. g = grants \/ g = refuses
      BY <3>1
    <3> HIDE DEF grants, refuses
    <3>7. g \in Frames /\ Answerable(g) /\ g.corr = f.corr /\ g.channel # "echo"
      BY <3>4, <3>5, <3>6
    <3> QED
      BY <2>6, <2>8, <3>1, <3>7
  <2>9. CASE f.kind = "PING" /\ toApp' = toApp
    <3>1. Inbound' = Inbound /\ ~Answerable(f)
      BY <1>2, <2>9 DEF Inbound, Answerable
    <3>2. Line(session.nextCorr, Inbound', Outbound')
      BY <1>1, <1>4, <2>2, <3>1, LineAnswer
    <3>3. \A g : Answerable(g) => (g \in InFlight <=> g \in InFlight')
      BY <2>2, <2>3, <3>1 DEF InFlight
    <3> QED
      BY <1>3, <3>2, <3>3
  <2> QED
    BY <1>6, <2>4, <2>5, <2>7, <2>8, <2>9 DEF HostHandles
<1>7. CASE HostAnnounces
  <2>1. PICK what \in {"ready", "last-window-closed"} :
          Says(EventFrame(what)) /\ toHost' = toHost
    BY <1>7 DEF HostAnnounces
  <2>2. EventFrame(what) \in Frames /\ ~Answerable(EventFrame(what))
    BY FrameTypes DEF EventFrame, Frame, Answerable
  <2> QED
    BY <1>5, <2>1, <2>2
<1>8. CASE HostPings
  <2>1. Says(PingFrame(host.pings + 1)) /\ toHost' = toHost
    BY <1>8 DEF HostPings
  <2>2. host.pings + 1 \in Nat
    BY <1>1
  <2>3. PingFrame(host.pings + 1) \in Frames
    BY <2>2, FrameTypes
  <2>4. ~Answerable(PingFrame(host.pings + 1))
    BY DEF PingFrame, Frame, Answerable
  <2> QED
    BY <1>5, <2>1, <2>3, <2>4
<1>9. CASE HostStrays
  <2>1. PICK f \in Strays : Says(f) /\ toHost' = toHost
    BY <1>9 DEF HostStrays
  <2> QED
    BY <1>5, <2>1
<1> QED
  BY <1>6, <1>7, <1>8, <1>9 DEF Host

LEMMA NextMatches ==
  ASSUME IsFiniteSet(Tasks), Cardinality(Tasks) < CorrLimit, \A f \in Strays : ~Answerable(f),
         IInv, CInv, [Next]_vars
  PROVE  CInv'
<1>1. /\ TypeOK /\ task \in [Tasks -> TaskRecs] /\ \A u \in Tasks : task[u] \in TaskRecs
      /\ \A f \in Carried(session.parked) : ~Answerable(f)
  BY DEF IInv, TypeOK, CInv, Aged
<1>2. CASE App
  BY <1>2, AppMatches
<1>3. CASE Flush
  BY <1>1, <1>3, FlushMatches
<1>4. CASE exit = "running" /\ \E n \in 1..Len(toApp) : Push(n)
  BY <1>4, PushMatches
<1>5. CASE Deadline
  <2>1. PICK t \in Tasks : Timeout(t)
    BY <1>5 DEF Deadline
  <2>2. /\ task[t].pc \in {"reading", "writing"}
        /\ task' = [task EXCEPT ![t].pc = "rejected"]
        /\ UNCHANGED <<session, reader, sending, toHost, toApp>>
    BY <2>1 DEF Timeout, TimesOut
  <2> DEFINE r == [task[t] EXCEPT !.pc = "rejected"]
  <2>3. /\ r \in TaskRecs /\ r.pc = "rejected" /\ r.doing = task[t].doing
        /\ r.corr = task[t].corr /\ task' = [task EXCEPT ![t] = r]
    BY <1>1, <2>2 DEF TaskRecs
  <2> HIDE DEF r
  <2>4. r.pc \notin Waits /\ r.pc # "ready"
    BY <2>3 DEF Waits
  <2> QED
    BY <1>1, <2>2, <2>3, <2>4, Rests
<1>6. CASE SocketCloses
  <2>1. /\ task' = Released /\ FailIO /\ UNCHANGED <<session, toHost, toApp>>
    BY <1>6 DEF SocketCloses
  <2> QED
    BY <1>1, <2>1, ReleasedTame, Drops
<1>7. CASE Host
  BY <1>7, HostMatches
<1>8. CASE UNCHANGED vars
  <2>1. UNCHANGED <<task, session, reader, sending, toHost, toApp>>
    BY <1>8 DEF vars
  <2>2. UNCHANGED <<Inbound, Outbound>>
    BY <2>1 DEF Inbound, Outbound
  <2>3. UNCHANGED InFlight /\ UNCHANGED Doomed
    BY <2>1, <2>2 DEF InFlight, Doomed
  <2> QED
    BY <2>1, <2>2, <2>3 DEF CInv, Aged, Covered, Distinct, Matched
<1> QED
  BY <1>2, <1>3, <1>4, <1>5, <1>6, <1>7, <1>8 DEF Next, Delivery

(* Replies never cross, though correlation ids wrap: with no more tasks than ids  *)
(* to allocate, an accepted echo Reply is the one to the task's own call. The     *)
(* host may be late, silent or faulty, but forges no calls, replies or errors.    *)
THEOREM RepliesNeverCross ==
  ASSUME IsFiniteSet(Tasks), Cardinality(Tasks) < CorrLimit, \A f \in Strays : ~Answerable(f)
  PROVE  Spec => []RepliesMatch
<1>1. Init => IInv /\ CInv
  <2> SUFFICES ASSUME Init PROVE CInv
    BY InitInv
  <2>1. /\ Inbound = <<>> /\ Outbound = <<>> /\ session.parked = <<>> /\ reader.unread = <<>>
    BY DEF Init, Inbound, Outbound, Queued
  <2>2. Carried(<<>>) = {} /\ \A n : Ordered(n, <<>>)
    BY DEF Carried, Ordered
  <2>3. InFlight = {}
    BY <2>1, <2>2 DEF InFlight
  <2>4. \A u \in Tasks : task[u].pc = "ready" /\ task[u].doing = "hello"
    BY DEF Init
  <2>5. Aged
    BY <2>1, <2>2 DEF Aged, Line
  <2> QED
    BY <2>1, <2>2, <2>3, <2>4, <2>5 DEF CInv, Covered, Distinct, Matched, Awaits, Settled
<1>2. IInv /\ CInv /\ [Next]_vars => (IInv /\ CInv)'
  BY NextInv, NextMatches
<1>3. IInv /\ CInv => RepliesMatch
  <2> SUFFICES ASSUME CInv, NEW t \in Tasks, Wanted(t, "echo")
               PROVE  task[t].frame.call = task[t].call
    BY DEF RepliesMatch
  <2>1. /\ task[t].pc = "got" /\ task[t].doing = "echo"
        /\ AdmitsHeader(EchoReplyWaiter(task[t].corr), task[t].frame)
    BY DEF Wanted, Want
  <2>2. /\ Answerable(task[t].frame) /\ task[t].frame.channel = "echo"
        /\ task[t].frame.corr = task[t].corr
    BY <2>1 DEF AdmitsHeader, EchoReplyWaiter, Answerable
  <2> QED
    BY <2>1, <2>2 DEF CInv, Matched, Replies
<1> QED
  BY <1>1, <1>2, <1>3, PTL DEF Spec
--------------------------------------------------------------------------------
(* The stock application is a single task. While nothing has gone wrong, every    *)
(* event of the host is one the app knows, and nothing follows the last window.   *)
Announced(ev, h) ==
  \A i \in DOMAIN ev :
    \/ ev[i] = EventFrame("ready") \/ ev[i] = PingFrame(ev[i].corr)
    \/ /\ ev[i] = EventFrame("last-window-closed")
       /\ i = Len(ev) /\ h.windows = "closed"

(* What reached the app when its task is m: seen s, parked p, or in hand. The     *)
(* events in a, on their way to it, come next.                                    *)
Hand(m)       == IF m.pc = "got" /\ IsEvent(m.frame) THEN <<m.frame>> ELSE <<>>
Gone(m, s, p) == s \o (IF m.doing = "echo" THEN p \o Hand(m) ELSE Hand(m) \o p)
InOrder(r, a, ev) ==
  /\ Len(r) + Rank(a, Len(a)) = Len(ev)
  /\ \A i \in DOMAIN r : r[i] = ev[i]
  /\ \A i \in DOMAIN a : IsEvent(a[i]) => a[i] = ev[Len(r) + Rank(a, i)]

(* Besides events there is one frame at a time on its way: what the task has      *)
(* asked, in b, or the answer to it, in a, unless the task has taken it.          *)
Quiet(s)   == \A i \in DOMAIN s : IsEvent(s[i])
Lone(s, f) == \E k \in DOMAIN s : s[k] = f /\ \A i \in DOMAIN s : i # k => IsEvent(s[i])
Ask(m) == CASE m.doing = "hello" -> HelloFrame
            [] m.doing = "echo"  -> Frame("CALL", "echo", m.corr, "echo", m.call)
            [] OTHER             -> Frame("CALL", "lifecycle", m.corr, "quit", NoCall)
Answer(m) == CASE m.doing = "hello" -> HelloFrame
               [] m.doing = "echo"  -> Frame("REPLY", "echo", m.corr, "echo", m.call)
               [] OTHER             -> Frame("REPLY", "lifecycle", m.corr, "quit", NoCall)
Asks(m)  == m.doing \in {"hello", "echo", "quit"} /\ m.pc \in Waits
Takes(m) == m.pc = "got" /\ ~IsEvent(m.frame)
Exchange(m, a, b) ==
  IF Asks(m) /\ ~Takes(m)
  THEN (Quiet(a) /\ Lone(b, Ask(m))) \/ (Lone(a, Answer(m)) /\ Quiet(b))
  ELSE Quiet(a) /\ Quiet(b) /\ (Takes(m) => Asks(m) /\ m.frame = Answer(m))

(* The host is silent until it has greeted, and its greeting comes first.         *)
Greeted(m, s, p, connected, a, h) ==
  /\ ~h.hello => a = <<>> /\ m.doing = "hello"
  /\ m.doing = "hello" =>
       /\ ~connected /\ p = <<>> /\ s = <<>>
       /\ m.pc = "ready" => ~h.hello
       /\ m.pc \in {"writing", "written", "reading"} /\ h.hello =>
            a # <<>> /\ a[1] = HelloFrame
       /\ m.pc = "got" => h.hello /\ m.frame = HelloFrame

(* A task that reads for anything but an echo has no parked frame to take, and    *)
(* Quit is sent after the last event.                                             *)
Rested(m, p)        == m.pc = "reading" /\ m.doing # "echo" => p = <<>>
Quitting(m, s, ev, h) == m.doing = "quit" => h.windows = "closed" /\ Len(s) = Len(ev)

Fit(m, s, p, connected, a, b, ev, h) ==
  /\ Announced(ev, h) /\ InOrder(Gone(m, s, p), a, ev) /\ Exchange(m, a, b)
  /\ Greeted(m, s, p, connected, a, h) /\ Rested(m, p) /\ Quitting(m, s, ev, h)

Stock   == task[Main]
Healthy == ~fault /\ exit = "running" /\ Stock.pc \notin {"rejected", "threw"}
SInv ==
  /\ Stock.pc \in {"done", "failed"} => exit # "running"
  /\ Healthy => /\ ~session.closed /\ ~reader.failed
                /\ Fit(Stock, seen, session.parked, session.connected, Inbound, Outbound,
                       events, host)
  /\ NoFalseAlarm
--------------------------------------------------------------------------------
(* Rank counts the events up to a place.                                          *)
LEMMA RankNat ==
  ASSUME NEW s \in Seq(Frames), NEW i \in Nat
  PROVE  /\ Rank(s, i) \in Nat /\ Rank(s, 0) = 0
         /\ IsFiniteSet({j \in 1..i : IsEvent(s[j])})
<1>1. IsFiniteSet(1..i)
  BY FS_Interval
<1>2. IsFiniteSet({j \in 1..i : IsEvent(s[j])})
  BY <1>1, FS_Subset
<1>3. {j \in 1..0 : IsEvent(s[j])} = {}
  OBVIOUS
<1> QED
  BY <1>2, <1>3, FS_CardinalityType, FS_EmptySet DEF Rank

LEMMA RankNext ==
  ASSUME NEW s \in Seq(Frames), NEW i \in Nat
  PROVE  Rank(s, i + 1) = Rank(s, i) + (IF IsEvent(s[i + 1]) THEN 1 ELSE 0)
<1> DEFINE S == {j \in 1..i : IsEvent(s[j])}
           T == {j \in 1..(i + 1) : IsEvent(s[j])}
<1>1. IsFiniteSet(S) /\ Cardinality(S) \in Nat
  BY RankNat, FS_CardinalityType
<1>2. CASE IsEvent(s[i + 1])
  <2>1. T = S \cup {i + 1} /\ i + 1 \notin S
    BY <1>2
  <2>2. Cardinality(S \cup {i + 1}) = Cardinality(S) + 1
    <3> HIDE DEF S
    <3> QED
      BY <1>1, <2>1, FS_AddElement
  <2> QED
    BY <1>2, <2>1, <2>2 DEF Rank
<1>3. CASE ~IsEvent(s[i + 1])
  <2>1. T = S
    BY <1>3
  <2>2. Rank(s, i + 1) = Rank(s, i)
    BY <2>1 DEF Rank
  <2>3. Rank(s, i) \in Nat
    BY RankNat
  <2> QED
    BY ONLY <1>3, <2>2, <2>3
<1> QED
  BY <1>2, <1>3

LEMMA RankSame ==
  ASSUME NEW s, NEW r, NEW i \in Nat, \A j \in 1..i : s[j] = r[j]
  PROVE  Rank(s, i) = Rank(r, i)
<1>1. {j \in 1..i : IsEvent(s[j])} = {j \in 1..i : IsEvent(r[j])}
  OBVIOUS
<1> QED
  BY <1>1 DEF Rank

LEMMA RankTail ==
  ASSUME NEW s \in Seq(Frames), s # <<>>, NEW i \in 1..Len(s)
  PROVE  Rank(s, i) = Rank(Tail(s), i - 1) + (IF IsEvent(s[1]) THEN 1 ELSE 0)
<1> DEFINE r == Tail(s)
           S == {j \in 1..(i - 1) : IsEvent(r[j])}
           T == {j \in 2..i : IsEvent(s[j])}
           f == [j \in S |-> j + 1]
<1>1. /\ r \in Seq(Frames) /\ i \in Nat /\ i - 1 \in Nat /\ Len(s) \in Nat /\ i <= Len(s)
      /\ \A j \in 1..(Len(s) - 1) : r[j] = s[j + 1]
  OBVIOUS
<1> HIDE DEF r
<1>2. IsFiniteSet(S) /\ Cardinality(S) \in Nat
  BY <1>1, RankNat, FS_CardinalityType
<1>3. \A j \in 1..(i - 1) : r[j] = s[j + 1]
  BY <1>1
<1>4. f \in Bijection(S, T)
  <2>1. f \in [S -> T]
    BY <1>1, <1>3
  <2>2. \A a, b \in S : f[a] = f[b] => a = b
    BY <1>1
  <2>3. \A b \in T : \E a \in S : f[a] = b
    <3> SUFFICES ASSUME NEW b \in T PROVE b - 1 \in S /\ f[b - 1] = b
      OBVIOUS
    <3>1. b - 1 \in 1..(i - 1) /\ b \in Nat
      BY <1>1
    <3>2. b - 1 \in S
      BY <1>3, <3>1
    <3> QED
      BY <3>1, <3>2
  <2> HIDE DEF S, T, f
  <2> QED
    BY <2>1, <2>2, <2>3 DEF Bijection, Injection, Surjection, IsInjective
<1>5. IsFiniteSet(T) /\ Cardinality(T) = Cardinality(S)
  <2> HIDE DEF S, T, f
  <2> QED
    BY <1>2, <1>4, FS_Bijection DEF ExistsBijection
<1>6. CASE IsEvent(s[1])
  <2>1. {j \in 1..i : IsEvent(s[j])} = T \cup {1} /\ 1 \notin T
    BY <1>1, <1>6
  <2>2. Cardinality(T \cup {1}) = Cardinality(T) + 1
    <3> HIDE DEF T
    <3> QED
      BY <1>5, <2>1, FS_AddElement
  <2>3. Rank(s, i) = Cardinality(S) + 1
    BY <1>5, <2>1, <2>2 DEF Rank
  <2> QED
    BY <1>6, <2>3 DEF Rank, r
<1>7. CASE ~IsEvent(s[1])
  <2>1. {j \in 1..i : IsEvent(s[j])} = T
    BY <1>1, <1>7
  <2>2. Rank(s, i) = Cardinality(S)
    BY <1>5, <2>1 DEF Rank
  <2>3. Rank(s, i) = Rank(r, i - 1)
    BY <2>2 DEF Rank
  <2>4. Rank(r, i - 1) \in Nat
    BY <1>1, RankNat
  <2> QED
    BY ONLY <1>7, <2>3, <2>4 DEF r
<1> QED
  BY <1>6, <1>7

(* The rank of an event lies among the ranks of the whole.                         *)
LEMMA RankWithin ==
  ASSUME NEW s \in Seq(Frames), NEW i \in 1..Len(s), IsEvent(s[i])
  PROVE  Rank(s, i) \in 1..Rank(s, Len(s)) /\ Rank(s, Len(s)) \in Nat
<1> DEFINE S == {j \in 1..i : IsEvent(s[j])}
           T == {j \in 1..Len(s) : IsEvent(s[j])}
<1>1. i \in Nat /\ Len(s) \in Nat
  OBVIOUS
<1>2. S \subseteq T /\ i \in S
  OBVIOUS
<1>3. IsFiniteSet(S) /\ IsFiniteSet(T)
  BY <1>1, RankNat
<1> HIDE DEF S, T
<1>4. Cardinality(S) <= Cardinality(T) /\ Cardinality(S) \in Nat /\ Cardinality(T) \in Nat
  BY <1>2, <1>3, FS_Subset, FS_CardinalityType
<1>5. Cardinality(S) # 0
  BY <1>2, <1>3, FS_EmptySet
<1> QED
  BY <1>4, <1>5 DEF Rank, S, T

(* The frame that is said or taken next keeps the order.                          *)
LEMMA Grown ==
  ASSUME NEW s \in Seq(Frames), NEW f \in Frames
  PROVE  /\ Append(s, f) \in Seq(Frames) /\ Len(Append(s, f)) = Len(s) + 1
         /\ Append(s, f)[Len(s) + 1] = f /\ \A i \in 1..Len(s) : Append(s, f)[i] = s[i]
         /\ Len(s) \in Nat /\ DOMAIN s = 1..Len(s) /\ DOMAIN Append(s, f) = 1..(Len(s) + 1)
OBVIOUS

LEMMA Shrunk ==
  ASSUME NEW s \in Seq(Frames), s # <<>>
  PROVE  /\ Tail(s) \in Seq(Frames) /\ Len(Tail(s)) = Len(s) - 1
         /\ \A i \in 1..(Len(s) - 1) : Tail(s)[i] = s[i + 1]
         /\ Head(s) = s[1] /\ Head(s) \in Frames /\ Len(s) \in Nat \ {0}
         /\ DOMAIN s = 1..Len(s) /\ DOMAIN Tail(s) = 1..(Len(s) - 1)
OBVIOUS

LEMMA InOrderSays ==
  ASSUME NEW r \in Seq(Frames), NEW a \in Seq(Frames), NEW ev \in Seq(Frames),
         NEW f \in Frames, InOrder(r, a, ev)
  PROVE  InOrder(r, Append(a, f), IF IsEvent(f) THEN Append(ev, f) ELSE ev)
<1> DEFINE b == Append(a, f)
           fv == IF IsEvent(f) THEN Append(ev, f) ELSE ev
           one == IF IsEvent(f) THEN 1 ELSE 0
<1>1. /\ b \in Seq(Frames) /\ Len(b) = Len(a) + 1 /\ b[Len(a) + 1] = f
      /\ \A i \in 1..Len(a) : b[i] = a[i]
      /\ Len(a) \in Nat /\ DOMAIN a = 1..Len(a) /\ DOMAIN b = 1..(Len(a) + 1)
  BY Grown
<1>2. /\ Len(ev) \in Nat /\ Len(r) \in Nat /\ DOMAIN ev = 1..Len(ev) /\ DOMAIN r = 1..Len(r)
      /\ \A i \in 1..Len(ev) : fv[i] = ev[i]
      /\ Len(fv) = Len(ev) + one /\ (IsEvent(f) => fv[Len(ev) + 1] = f)
  BY Grown
<1> HIDE DEF b, fv
<1>3. ASSUME NEW i \in 0..Len(a) PROVE Rank(b, i) = Rank(a, i) /\ Rank(a, i) \in Nat
  <2>1. i \in Nat /\ \A j \in 1..i : b[j] = a[j]
    BY <1>1
  <2>2. Rank(b, i) = Rank(a, i)
    BY ONLY <2>1, RankSame
  <2>3. Rank(a, i) \in Nat
    BY <2>1, RankNat
  <2> QED
    BY <2>2, <2>3
<1>4. Rank(b, Len(a) + 1) = Rank(a, Len(a)) + one
  <2>1. Rank(b, Len(a) + 1) = Rank(b, Len(a)) + (IF IsEvent(b[Len(a) + 1]) THEN 1 ELSE 0)
    BY <1>1, RankNext
  <2> QED
    BY <1>1, <1>3, <2>1
<1>5. Len(r) + Rank(a, Len(a)) = Len(ev) /\ Rank(a, Len(a)) \in Nat
  BY <1>1, <1>3 DEF InOrder
<1>6. Len(r) + Rank(b, Len(b)) = Len(fv)
  BY <1>1, <1>2, <1>4, <1>5
<1>7. \A i \in DOMAIN r : r[i] = fv[i]
  BY <1>2, <1>5 DEF InOrder
<1>8. ASSUME NEW i \in DOMAIN b, IsEvent(b[i]) PROVE b[i] = fv[Len(r) + Rank(b, i)]
  <2>1. CASE i = Len(a) + 1
    BY <1>1, <1>2, <1>4, <1>5, <1>8, <2>1
  <2>2. CASE i \in 1..Len(a)
    <3>1. /\ b[i] = a[i] /\ IsEvent(a[i]) /\ Rank(b, i) = Rank(a, i)
          /\ a[i] = ev[Len(r) + Rank(a, i)]
      BY <1>1, <1>3, <1>8, <2>2 DEF InOrder
    <3>2. Rank(a, i) \in 1..Rank(a, Len(a))
      BY <2>2, <3>1, RankWithin
    <3>3. Len(r) + Rank(a, i) \in 1..Len(ev)
      BY <1>2, <1>5, <3>2
    <3> QED
      BY <1>2, <3>1, <3>3
  <2> QED
    BY <1>1, <2>1, <2>2
<1>9. InOrder(r, b, fv)
  BY <1>6, <1>7, <1>8 DEF InOrder
<1> QED
  BY <1>9 DEF b, fv

LEMMA InOrderTakes ==
  ASSUME NEW r \in Seq(Frames), NEW a \in Seq(Frames), NEW ev \in Seq(Frames),
         a # <<>>, InOrder(r, a, ev)
  PROVE  InOrder(IF IsEvent(Head(a)) THEN Append(r, Head(a)) ELSE r, Tail(a), ev)
<1> DEFINE b == Tail(a)
           q == IF IsEvent(Head(a)) THEN Append(r, Head(a)) ELSE r
           one == IF IsEvent(Head(a)) THEN 1 ELSE 0
<1>1. /\ b \in Seq(Frames) /\ Len(b) = Len(a) - 1 /\ Head(a) = a[1] /\ Head(a) \in Frames
      /\ \A i \in 1..(Len(a) - 1) : b[i] = a[i + 1]
      /\ Len(a) \in Nat \ {0} /\ DOMAIN a = 1..Len(a) /\ DOMAIN b = 1..(Len(a) - 1)
  BY Shrunk
<1>2. /\ Len(r) \in Nat /\ DOMAIN r = 1..Len(r) /\ DOMAIN q = 1..Len(q)
      /\ Len(q) = Len(r) + one /\ \A i \in 1..Len(r) : q[i] = r[i]
      /\ IsEvent(Head(a)) => q[Len(r) + 1] = Head(a)
  BY <1>1, Grown
<1> HIDE DEF b, q
<1>3. \A i \in 1..Len(a) : /\ Rank(a, i) = Rank(b, i - 1) + one
                           /\ Rank(b, i - 1) \in Nat
  <2>1. ASSUME NEW i \in 1..Len(a) PROVE Rank(a, i) = Rank(b, i - 1) + one
    BY <1>1, RankTail DEF b
  <2>2. ASSUME NEW i \in 1..Len(a) PROVE Rank(b, i - 1) \in Nat
    <3>1. i - 1 \in Nat
      BY <1>1
    <3> QED
      BY <1>1, <3>1, RankNat
  <2> QED
    BY <2>1, <2>2
<1>4. Rank(b, 0) = 0
  BY <1>1, RankNat
<1>5. Len(q) + Rank(b, Len(b)) = Len(ev)
  <2>1. Len(r) + Rank(a, Len(a)) = Len(ev)
    BY DEF InOrder
  <2>2. Rank(a, Len(a)) = Rank(b, Len(a) - 1) + one /\ Rank(b, Len(a) - 1) \in Nat
    BY <1>1, <1>3
  <2> QED
    BY <1>1, <1>2, <2>1, <2>2
<1>6. ASSUME NEW i \in DOMAIN q PROVE q[i] = ev[i]
  <2>1. CASE i \in 1..Len(r)
    BY <1>2, <2>1 DEF InOrder
  <2>2. CASE IsEvent(Head(a)) /\ i = Len(r) + 1
    <3>1. Rank(a, 1) = 1
      BY <1>1, <1>3, <1>4, <2>2
    <3>2. a[1] = ev[Len(r) + Rank(a, 1)]
      BY <1>1, <2>2 DEF InOrder
    <3> QED
      BY <1>1, <1>2, <2>2, <3>1, <3>2
  <2> QED
    BY <1>2, <2>1, <2>2
<1>7. ASSUME NEW i \in DOMAIN b, IsEvent(b[i]) PROVE b[i] = ev[Len(q) + Rank(b, i)]
  <2>1. i + 1 \in 1..Len(a) /\ b[i] = a[i + 1] /\ i \in Nat
    BY <1>1
  <2>2. a[i + 1] = ev[Len(r) + Rank(a, i + 1)]
    BY <1>1, <1>7, <2>1 DEF InOrder
  <2>3. Rank(a, i + 1) = Rank(b, i) + one /\ Rank(b, i) \in Nat
    <3>1. /\ Rank(a, i + 1) = Rank(b, (i + 1) - 1) + one /\ Rank(b, (i + 1) - 1) \in Nat
      BY <1>3, <2>1
    <3>2. (i + 1) - 1 = i
      BY <2>1
    <3> QED
      BY <3>1, <3>2
  <2>4. Len(q) + Rank(b, i) = Len(r) + Rank(a, i + 1)
    BY <1>2, <2>3
  <2> QED
    BY <2>1, <2>2, <2>4
<1>8. InOrder(q, b, ev)
  BY <1>5, <1>6, <1>7 DEF InOrder
<1> QED
  BY <1>8 DEF b, q

(* So do the exchanges.                                                           *)
LEMMA QuietSays ==
  ASSUME NEW a \in Seq(Frames), NEW f \in Frames, Quiet(a)
  PROVE  Lone(Append(a, f), f) /\ (IsEvent(f) => Quiet(Append(a, f)))
BY Grown DEF Quiet, Lone

LEMMA LoneSays ==
  ASSUME NEW a \in Seq(Frames), NEW f \in Frames, NEW g, Lone(a, g), IsEvent(f)
  PROVE  Lone(Append(a, f), g)
<1>1. PICK k \in DOMAIN a : a[k] = g /\ \A i \in DOMAIN a : i # k => IsEvent(a[i])
  BY DEF Lone
<1>2. k \in DOMAIN Append(a, f) /\ Append(a, f)[k] = g
  BY <1>1, Grown
<1>3. \A i \in DOMAIN Append(a, f) : i # k => IsEvent(Append(a, f)[i])
  BY <1>1, Grown
<1> QED
  BY <1>2, <1>3 DEF Lone

LEMMA QuietTakes ==
  ASSUME NEW a \in Seq(Frames), a # <<>>, Quiet(a)
  PROVE  Quiet(Tail(a)) /\ IsEvent(Head(a))
BY Shrunk DEF Quiet

LEMMA LoneTakes ==
  ASSUME NEW a \in Seq(Frames), a # <<>>, NEW g, Lone(a, g), ~IsEvent(g)
  PROVE  IF IsEvent(Head(a)) THEN Lone(Tail(a), g) ELSE Head(a) = g /\ Quiet(Tail(a))
<1>1. PICK k \in DOMAIN a : a[k] = g /\ \A i \in DOMAIN a : i # k => IsEvent(a[i])
  BY DEF Lone
<1>2. /\ Len(Tail(a)) = Len(a) - 1 /\ \A i \in 1..(Len(a) - 1) : Tail(a)[i] = a[i + 1]
      /\ Head(a) = a[1] /\ Len(a) \in Nat \ {0}
      /\ DOMAIN a = 1..Len(a) /\ DOMAIN Tail(a) = 1..(Len(a) - 1)
  BY Shrunk
<1>3. CASE IsEvent(Head(a))
  <2>1. k # 1 /\ k - 1 \in DOMAIN Tail(a) /\ Tail(a)[k - 1] = g
    BY <1>1, <1>2, <1>3
  <2>2. \A i \in DOMAIN Tail(a) : i # k - 1 => IsEvent(Tail(a)[i])
    BY <1>1, <1>2
  <2> QED
    BY <1>3, <2>1, <2>2 DEF Lone
<1>4. CASE ~IsEvent(Head(a))
  <2>1. k = 1
    BY <1>1, <1>2, <1>4
  <2>2. \A i \in DOMAIN Tail(a) : IsEvent(Tail(a)[i])
    BY <1>1, <1>2, <2>1
  <2> QED
    BY <1>1, <1>2, <1>4, <2>1, <2>2 DEF Quiet
<1> QED
  BY <1>3, <1>4
--------------------------------------------------------------------------------
(* What each kind of step does to a task m and the frames around it.              *)
LEMMA AskTypes ==
  ASSUME NEW m \in TaskRecs
  PROVE  /\ Ask(m) \in Frames /\ Answer(m) \in Frames
         /\ ~IsEvent(Ask(m)) /\ ~IsEvent(Answer(m))
<1>1. m.corr \in Nat /\ m.call \in Calls
  BY DEF TaskRecs
<1>2. /\ {"CALL", "REPLY"} \subseteq Kinds /\ {"echo", "lifecycle"} \subseteq Channels
      /\ {"echo", "quit"} \subseteq Bodies /\ NoCall \in Calls
  BY FrameTypes DEF Kinds, Channels, Bodies
<1>3. /\ HelloFrame \in Frames
      /\ Frame("CALL", "echo", m.corr, "echo", m.call) \in Frames
      /\ Frame("REPLY", "echo", m.corr, "echo", m.call) \in Frames
      /\ Frame("CALL", "lifecycle", m.corr, "quit", NoCall) \in Frames
      /\ Frame("REPLY", "lifecycle", m.corr, "quit", NoCall) \in Frames
  BY <1>1, <1>2, FrameTypes
<1>4. /\ ~IsEvent(HelloFrame)
      /\ ~IsEvent(Frame("CALL", "echo", m.corr, "echo", m.call))
      /\ ~IsEvent(Frame("REPLY", "echo", m.corr, "echo", m.call))
      /\ ~IsEvent(Frame("CALL", "lifecycle", m.corr, "quit", NoCall))
      /\ ~IsEvent(Frame("REPLY", "lifecycle", m.corr, "quit", NoCall))
  BY DEF IsEvent, HelloFrame, Frame
<1> QED
  BY <1>3, <1>4 DEF Ask, Answer

LEMMA Glue ==
  ASSUME NEW s \in Seq(Frames), NEW p \in Seq(Frames), NEW f \in Frames
  PROVE  /\ s \o (p \o <<>>) = s \o p /\ s \o (<<>> \o p) = s \o p
         /\ s \o (p \o <<f>>) = Append(s \o p, f) /\ s \o (p \o <<f>>) = s \o Append(p, f)
         /\ s \o (<<f>> \o p) = Append(s, f) \o p
         /\ p # <<>> => s \o (<<Head(p)>> \o Tail(p)) = s \o p
OBVIOUS

LEMMA GoneIs ==
  ASSUME NEW m \in TaskRecs, NEW s \in Seq(Frames), NEW p \in Seq(Frames)
  PROVE  /\ Gone(m, s, p) \in Seq(Frames) /\ m.frame \in Frames
         /\ ~(m.pc = "got" /\ IsEvent(m.frame)) => Gone(m, s, p) = s \o p
         /\ m.pc = "got" /\ IsEvent(m.frame) =>
              Gone(m, s, p) = IF m.doing = "echo" THEN Append(s \o p, m.frame)
                                                  ELSE Append(s, m.frame) \o p
<1>1. m.frame \in Frames
  BY DEF TaskRecs
<1>2. s \o p \in Seq(Frames) /\ Append(s, m.frame) \in Seq(Frames)
  BY <1>1, Joined, Grown
<1>3. Append(s \o p, m.frame) \in Seq(Frames) /\ Append(s, m.frame) \o p \in Seq(Frames)
  BY <1>1, <1>2, Joined, Grown
<1>4. CASE m.pc = "got" /\ IsEvent(m.frame)
  <2>1. Gone(m, s, p) = IF m.doing = "echo" THEN s \o (p \o <<m.frame>>)
                                            ELSE s \o (<<m.frame>> \o p)
    BY <1>4 DEF Gone, Hand
  <2> QED
    BY <1>1, <1>3, <1>4, <2>1, Glue
<1>5. CASE ~(m.pc = "got" /\ IsEvent(m.frame))
  <2>1. Gone(m, s, p) = IF m.doing = "echo" THEN s \o (p \o <<>>) ELSE s \o (<<>> \o p)
    BY <1>5 DEF Gone, Hand
  <2> QED
    BY <1>1, <1>2, <1>5, <2>1, Glue
<1> QED
  BY <1>4, <1>5

(* Whatever reached the app is an event that the receiver of events admits.       *)
Known(f) == /\ IsEvent(f) /\ AdmitsHeader(LifecycleEventReceiver, f)
            /\ f.kind = "PING" \/ f.body \in {"ready", "last-window-closed"}

LEMMA AnnouncedKnown ==
  ASSUME NEW ev \in Seq(Frames), NEW h, Announced(ev, h), NEW i \in DOMAIN ev
  PROVE  Known(ev[i])
<1>1. ev[i] \in Frames
  OBVIOUS
<1>2. \/ ev[i] = EventFrame("ready") \/ ev[i] = PingFrame(ev[i].corr)
      \/ ev[i] = EventFrame("last-window-closed")
  BY DEF Announced
<1>3. \A c : Known(PingFrame(c))
  BY DEF Known, IsEvent, PingFrame, Frame, AdmitsHeader, LifecycleEventReceiver
<1>4. Known(EventFrame("ready")) /\ Known(EventFrame("last-window-closed"))
  BY DEF Known, IsEvent, EventFrame, Frame, AdmitsHeader, LifecycleEventReceiver
<1> QED
  BY ONLY <1>2, <1>3, <1>4

LEMMA GoneKnown ==
  ASSUME NEW r \in Seq(Frames), NEW a \in Seq(Frames), NEW ev \in Seq(Frames), NEW h,
         InOrder(r, a, ev), Announced(ev, h)
  PROVE  Len(r) <= Len(ev) /\ \A i \in DOMAIN r : i \in DOMAIN ev /\ r[i] = ev[i] /\ Known(r[i])
<1>1. Len(r) \in Nat /\ Len(ev) \in Nat /\ DOMAIN r = 1..Len(r) /\ DOMAIN ev = 1..Len(ev)
      /\ Len(a) \in Nat
  OBVIOUS
<1>2. Len(r) <= Len(ev)
  <2>1. Rank(a, Len(a)) \in Nat /\ Len(r) + Rank(a, Len(a)) = Len(ev)
    BY <1>1, RankNat DEF InOrder
  <2> QED
    BY <1>1, <2>1
<1>3. ASSUME NEW i \in DOMAIN r PROVE i \in DOMAIN ev /\ r[i] = ev[i] /\ Known(r[i])
  <2>1. i \in DOMAIN ev /\ r[i] = ev[i]
    BY <1>1, <1>2 DEF InOrder
  <2> QED
    BY <2>1, AnnouncedKnown
<1> QED
  BY <1>2, <1>3

LEMMA ParkedKnown ==
  ASSUME NEW m \in TaskRecs, NEW s \in Seq(Frames), NEW p \in Seq(Frames),
         NEW a \in Seq(Frames), NEW b \in Seq(Frames), NEW ev \in Seq(Frames), NEW c, NEW h,
         Fit(m, s, p, c, a, b, ev, h), m.pc # "got"
  PROVE  /\ \A i \in 1..Len(p) : Known(p[i])
         /\ Len(s) + Len(p) <= Len(ev)
<1>1. Gone(m, s, p) = s \o p /\ s \o p \in Seq(Frames)
  BY GoneIs
<1>2. InOrder(s \o p, a, ev) /\ Announced(ev, h)
  BY <1>1 DEF Fit
<1>3. /\ Len(s \o p) <= Len(ev) /\ \A i \in DOMAIN (s \o p) : Known((s \o p)[i])
  BY <1>1, <1>2, GoneKnown
<1>4. /\ Len(s \o p) = Len(s) + Len(p) /\ Len(s) \in Nat /\ Len(p) \in Nat
      /\ \A i \in 1..(Len(s) + Len(p)) :
           (s \o p)[i] = IF i <= Len(s) THEN s[i] ELSE p[i - Len(s)]
      /\ DOMAIN (s \o p) = 1..(Len(s) + Len(p))
  <2>1. DOMAIN (s \o p) = 1..Len(s \o p)
    BY <1>1
  <2> QED
    BY <2>1, Joined
<1>5. ASSUME NEW i \in 1..Len(p) PROVE Known(p[i])
  <2>1. Len(s) + i \in 1..(Len(s) + Len(p)) /\ ~(Len(s) + i <= Len(s)) /\ (Len(s) + i) - Len(s) = i
    BY <1>4
  <2>2. (s \o p)[Len(s) + i] = p[i]
    BY <1>4, <2>1
  <2> QED
    BY <1>3, <1>4, <2>1, <2>2
<1> QED
  BY <1>3, <1>4, <1>5

LEMMA HandKnown ==
  ASSUME NEW m \in TaskRecs, NEW s \in Seq(Frames), NEW p \in Seq(Frames),
         NEW a \in Seq(Frames), NEW b \in Seq(Frames), NEW ev \in Seq(Frames), NEW c, NEW h,
         Fit(m, s, p, c, a, b, ev, h), m.pc = "got", IsEvent(m.frame)
  PROVE  /\ Known(m.frame) /\ Len(s) + Len(p) + 1 <= Len(ev)
         /\ m.doing # "echo" => m.frame = ev[Len(s) + 1]
<1> DEFINE r == Gone(m, s, p)
           k == IF m.doing = "echo" THEN Len(s) + Len(p) + 1 ELSE Len(s) + 1
<1>1. /\ r \in Seq(Frames) /\ m.frame \in Frames
      /\ r = IF m.doing = "echo" THEN Append(s \o p, m.frame) ELSE Append(s, m.frame) \o p
  BY GoneIs
<1>2. /\ s \o p \in Seq(Frames) /\ Len(s \o p) = Len(s) + Len(p)
      /\ Len(s) \in Nat /\ Len(p) \in Nat
  BY Joined
<1>3. /\ Append(s, m.frame) \in Seq(Frames) /\ Len(Append(s, m.frame)) = Len(s) + 1
      /\ Append(s, m.frame)[Len(s) + 1] = m.frame
  BY <1>1, Grown
<1>4. Len(r) = Len(s) + Len(p) + 1 /\ r[k] = m.frame /\ k \in DOMAIN r
  <2>1. CASE m.doing = "echo"
    <3>1. /\ Len(Append(s \o p, m.frame)) = Len(s \o p) + 1
          /\ Append(s \o p, m.frame)[Len(s \o p) + 1] = m.frame
          /\ DOMAIN Append(s \o p, m.frame) = 1..(Len(s \o p) + 1)
      BY <1>1, <1>2, Grown
    <3> QED
      BY <1>1, <1>2, <2>1, <3>1
  <2>2. CASE m.doing # "echo"
    <3> DEFINE q == Append(s, m.frame)
    <3>1. q \in Seq(Frames) /\ Len(q) = Len(s) + 1 /\ q[Len(s) + 1] = m.frame
      BY <1>3
    <3> HIDE DEF q
    <3>2. /\ q \o p \in Seq(Frames) /\ Len(q \o p) = Len(q) + Len(p)
          /\ \A i \in 1..(Len(q) + Len(p)) : (q \o p)[i] = IF i <= Len(q) THEN q[i] ELSE p[i - Len(q)]
      BY <3>1, Joined
    <3>3. (q \o p)[Len(s) + 1] = m.frame /\ Len(q \o p) = Len(s) + Len(p) + 1
      BY <1>2, <3>1, <3>2
    <3>4. DOMAIN (q \o p) = 1..(Len(s) + Len(p) + 1)
      BY <3>2, <3>3
    <3>5. r = q \o p /\ k = Len(s) + 1
      BY <1>1, <2>2 DEF q
    <3> QED
      BY <1>2, <3>3, <3>4, <3>5
  <2> QED
    BY <2>1, <2>2
<1> HIDE DEF r, k
<1>5. InOrder(r, a, ev) /\ Announced(ev, h)
  BY DEF Fit, r
<1>6. Len(r) <= Len(ev) /\ Known(r[k]) /\ r[k] = ev[k]
  <2>1. r \in Seq(Frames)
    BY <1>1
  <2>2. Len(r) <= Len(ev) /\ \A i \in DOMAIN r : r[i] = ev[i] /\ Known(r[i])
    BY ONLY <1>5, <2>1, GoneKnown, a \in Seq(Frames), ev \in Seq(Frames)
  <2> QED
    BY <1>4, <2>2
<1> QED
  BY <1>4, <1>6 DEF k
(* The task turns to something else, with or without a question.                  *)
LEMMA Goes ==
  ASSUME NEW m \in TaskRecs, NEW s \in Seq(Frames), NEW p \in Seq(Frames),
         NEW a \in Seq(Frames), NEW b \in Seq(Frames), NEW ev \in Seq(Frames), NEW c, NEW h,
         Fit(m, s, p, c, a, b, ev, h), Quiet(a), h.hello,
         NEW n \in TaskRecs, NEW d, NEW e, n.doing # "hello",
         ~(m.pc = "got" /\ IsEvent(m.frame)), n.pc # "got",
         IF Asks(n) THEN Lone(e, Ask(n)) ELSE Quiet(e),
         Rested(n, p), Quitting(n, s, ev, h)
  PROVE  Fit(n, s, p, d, a, e, ev, h)
<1>1. Gone(m, s, p) = s \o p /\ Gone(n, s, p) = s \o p
  BY GoneIs
<1>2. Exchange(n, a, e)
  BY DEF Exchange, Takes
<1>3. Greeted(n, s, p, d, a, h)
  BY DEF Greeted
<1> QED
  BY <1>1, <1>2, <1>3 DEF Fit

(* It goes on with what it does, from one place to wait at to the next.           *)
LEMMA Stays ==
  ASSUME NEW m \in TaskRecs, NEW s \in Seq(Frames), NEW p \in Seq(Frames),
         NEW a, NEW b, NEW ev, NEW c, NEW h,
         Fit(m, s, p, c, a, b, ev, h), m.pc \in {"writing", "written"},
         NEW n \in TaskRecs, n.pc \in {"written", "reading"}, n.doing = m.doing,
         n.corr = m.corr, n.call = m.call, Rested(n, p)
  PROVE  Fit(n, s, p, c, a, b, ev, h)
<1>1. Gone(m, s, p) = s \o p /\ Gone(n, s, p) = s \o p
  BY GoneIs
<1>2. Exchange(n, a, b)
  BY DEF Fit, Exchange, Takes, Asks, Ask, Answer, Waits
<1>3. Greeted(n, s, p, c, a, h)
  BY DEF Fit, Greeted
<1>4. Quitting(n, s, ev, h)
  BY DEF Fit, Quitting
<1> QED
  BY <1>1, <1>2, <1>3, <1>4 DEF Fit

(* It gets the next frame from the wire.                                          *)
LEMMA Delivered ==
  ASSUME NEW m \in TaskRecs, NEW s \in Seq(Frames), NEW p \in Seq(Frames),
         NEW a \in Seq(Frames), NEW b \in Seq(Frames), NEW ev \in Seq(Frames), NEW c, NEW h,
         Fit(m, s, p, c, a, b, ev, h), m.pc \in {"written", "reading"}, a # <<>>,
         m.doing # "echo" => p = <<>>,
         NEW n \in TaskRecs, n.pc = "got", n.frame = Head(a), n.doing = m.doing,
         n.corr = m.corr, n.call = m.call
  PROVE  Fit(n, s, p, c, Tail(a), b, ev, h)
<1>1. Gone(m, s, p) = s \o p /\ s \o p \in Seq(Frames)
  <2>1. m.pc # "got"
    OBVIOUS
  <2>2. Gone(m, s, p) = s \o p
    BY <2>1, GoneIs
  <2> QED
    BY <2>2, Joined
<1>2. Head(a) \in Frames /\ Head(a) = a[1] /\ Tail(a) \in Seq(Frames)
  BY Shrunk
<1>3. Gone(n, s, p) = IF IsEvent(Head(a)) THEN Append(s \o p, Head(a)) ELSE s \o p
  <2>1. p = <<>> => Append(s, Head(a)) \o p = Append(s \o p, Head(a))
    BY <1>2, Grown, Pieces
  <2>2. CASE IsEvent(Head(a))
    <3>1. Gone(n, s, p) = IF n.doing = "echo" THEN Append(s \o p, n.frame)
                                              ELSE Append(s, n.frame) \o p
      BY <2>2, GoneIs
    <3> QED
      BY <2>1, <2>2, <3>1
  <2>3. CASE ~IsEvent(Head(a))
    BY <2>3, GoneIs
  <2> QED
    BY <2>2, <2>3
<1>4. InOrder(Gone(n, s, p), Tail(a), ev)
  <2>1. InOrder(s \o p, a, ev)
    BY <1>1 DEF Fit
  <2> QED
    BY <1>1, <1>3, <2>1, InOrderTakes
<1>5. ~Takes(m) /\ (Asks(n) <=> Asks(m)) /\ Ask(n) = Ask(m) /\ Answer(n) = Answer(m)
      /\ (Takes(n) <=> ~IsEvent(Head(a)))
  BY DEF Takes, Asks, Ask, Answer, Waits
<1>6. Exchange(n, Tail(a), b)
  <2>1. CASE Asks(m) /\ Quiet(a) /\ Lone(b, Ask(m))
    BY <1>5, <2>1, QuietTakes DEF Exchange
  <2>2. CASE Asks(m) /\ Lone(a, Answer(m)) /\ Quiet(b)
    <3>1. ~IsEvent(Answer(m))
      BY AskTypes
    <3>2. IF IsEvent(Head(a)) THEN Lone(Tail(a), Answer(m))
                              ELSE Head(a) = Answer(m) /\ Quiet(Tail(a))
      BY <2>2, <3>1, LoneTakes
    <3> QED
      BY <1>5, <2>2, <3>2 DEF Exchange
  <2>3. CASE ~Asks(m) /\ Quiet(a) /\ Quiet(b)
    BY <1>5, <2>3, QuietTakes DEF Exchange
  <2> QED
    BY <1>5, <2>1, <2>2, <2>3 DEF Fit, Exchange
<1>7. Greeted(n, s, p, c, Tail(a), h)
  BY <1>2 DEF Fit, Greeted
<1>8. Rested(n, p) /\ Quitting(n, s, ev, h)
  BY DEF Rested, Quitting, Fit
<1> QED
  BY <1>4, <1>6, <1>7, <1>8 DEF Fit

(* It takes the oldest parked frame.                                              *)
LEMMA Unparked ==
  ASSUME NEW m \in TaskRecs, NEW s \in Seq(Frames), NEW p \in Seq(Frames),
         NEW a \in Seq(Frames), NEW b \in Seq(Frames), NEW ev \in Seq(Frames), NEW c, NEW h,
         Fit(m, s, p, c, a, b, ev, h), m.pc = "written", m.doing = "events", p # <<>>,
         NEW n \in TaskRecs, n.pc = "got", n.frame = Head(p), n.doing = "events"
  PROVE  Fit(n, s, Tail(p), c, a, b, ev, h)
<1>1. Gone(m, s, p) = s \o p
  BY GoneIs
<1>2. Head(p) \in Frames /\ Head(p) = p[1] /\ Tail(p) \in Seq(Frames) /\ 1 \in 1..Len(p)
  BY Shrunk
<1>3. IsEvent(Head(p))
  BY <1>2, ParkedKnown DEF Known
<1>4. Gone(n, s, Tail(p)) = s \o p
  <2>1. s \o (<<Head(p)>> \o Tail(p)) = s \o p
        /\ s \o (<<Head(p)>> \o Tail(p)) = Append(s, Head(p)) \o Tail(p)
    BY <1>2, Glue
  <2>2. Gone(n, s, Tail(p)) = IF n.doing = "echo" THEN Append(s \o Tail(p), n.frame)
                                                  ELSE Append(s, n.frame) \o Tail(p)
    BY <1>2, <1>3, GoneIs
  <2> QED
    BY <2>1, <2>2
<1>5. ~Asks(m) /\ ~Asks(n) /\ ~Takes(n)
  BY <1>3 DEF Asks, Takes
<1>6. Exchange(n, a, b)
  BY <1>5 DEF Fit, Exchange
<1>7. Greeted(n, s, Tail(p), c, a, h)
  BY DEF Fit, Greeted
<1>8. Rested(n, Tail(p)) /\ Quitting(n, s, ev, h)
  BY DEF Rested, Quitting
<1> QED
  BY <1>1, <1>4, <1>6, <1>7, <1>8 DEF Fit

(* It sets an event aside, or has taken one.                                      *)
LEMMA SetsAside ==
  ASSUME NEW m \in TaskRecs, NEW s \in Seq(Frames), NEW p \in Seq(Frames),
         NEW a, NEW b, NEW ev, NEW c, NEW h,
         Fit(m, s, p, c, a, b, ev, h), m.pc = "got", IsEvent(m.frame), m.doing = "echo",
         NEW n \in TaskRecs, n.pc = "written", n.doing = "echo",
         n.corr = m.corr, n.call = m.call
  PROVE  Fit(n, s, Append(p, m.frame), c, a, b, ev, h)
<1>1. m.frame \in Frames /\ Append(p, m.frame) \in Seq(Frames)
  BY GoneIs, Grown
<1>2. Gone(m, s, p) = Append(s \o p, m.frame) /\ Gone(n, s, Append(p, m.frame)) = s \o Append(p, m.frame)
  BY <1>1, GoneIs
<1>3. Gone(n, s, Append(p, m.frame)) = Gone(m, s, p)
  BY <1>1, <1>2, Pieces
<1>4. Exchange(n, a, b)
  BY DEF Fit, Exchange, Takes, Asks, Ask, Answer, Waits
<1>5. Greeted(n, s, Append(p, m.frame), c, a, h)
  BY DEF Fit, Greeted
<1>6. Rested(n, Append(p, m.frame)) /\ Quitting(n, s, ev, h)
  BY DEF Rested, Quitting
<1> QED
  BY <1>3, <1>4, <1>5, <1>6 DEF Fit

LEMMA TakesEvent ==
  ASSUME NEW m \in TaskRecs, NEW s \in Seq(Frames), NEW p \in Seq(Frames),
         NEW a, NEW b, NEW ev, NEW c, NEW h,
         Fit(m, s, p, c, a, b, ev, h), m.pc = "got", IsEvent(m.frame), m.doing = "events",
         NEW n \in TaskRecs, n.pc = "written", n.doing = "events"
  PROVE  Fit(n, Append(s, m.frame), p, c, a, b, ev, h) /\ Quiet(a) /\ Quiet(b) /\ h.hello
<1>1. m.frame \in Frames /\ Append(s, m.frame) \in Seq(Frames)
  BY GoneIs, Grown
<1>2. Gone(m, s, p) = Append(s, m.frame) \o p /\ Gone(n, Append(s, m.frame), p) = Append(s, m.frame) \o p
  BY <1>1, GoneIs
<1>3. Exchange(n, a, b) /\ Quiet(a) /\ Quiet(b)
  BY DEF Fit, Exchange, Takes, Asks
<1>4. Greeted(n, Append(s, m.frame), p, c, a, h) /\ h.hello
  BY DEF Fit, Greeted
<1>5. Rested(n, p) /\ Quitting(n, Append(s, m.frame), ev, h)
  BY DEF Rested, Quitting
<1> QED
  BY <1>2, <1>3, <1>4, <1>5 DEF Fit
(* The host announces an event.                                                   *)
LEMMA Announces ==
  ASSUME NEW m \in TaskRecs, NEW s \in Seq(Frames), NEW p \in Seq(Frames),
         NEW a \in Seq(Frames), NEW b \in Seq(Frames), NEW ev \in Seq(Frames), NEW c, NEW h,
         Fit(m, s, p, c, a, b, ev, h), h.hello, h.windows # "closed",
         NEW f \in Frames, NEW g, g.hello,
         \/ f = EventFrame("ready") \/ f = PingFrame(f.corr)
         \/ f = EventFrame("last-window-closed") /\ g.windows = "closed"
  PROVE  Fit(m, s, p, c, Append(a, f), b, Append(ev, f), g)
<1>1. IsEvent(f)
  BY DEF IsEvent, EventFrame, PingFrame, Frame
<1>2. Announced(Append(ev, f), g)
  <2>1. /\ Len(ev) \in Nat /\ Len(Append(ev, f)) = Len(ev) + 1 /\ Append(ev, f)[Len(ev) + 1] = f
        /\ \A i \in 1..Len(ev) : Append(ev, f)[i] = ev[i]
        /\ DOMAIN Append(ev, f) = 1..(Len(ev) + 1) /\ DOMAIN ev = 1..Len(ev)
    BY Grown
  <2>2. \A i \in 1..Len(ev) : ev[i] = EventFrame("ready") \/ ev[i] = PingFrame(ev[i].corr)
    BY <2>1 DEF Fit, Announced
  <2> QED
    BY <2>1, <2>2 DEF Announced
<1>3. InOrder(Gone(m, s, p), Append(a, f), Append(ev, f))
  BY <1>1, GoneIs, InOrderSays DEF Fit
<1>4. Exchange(m, Append(a, f), b)
  BY <1>1, QuietSays, LoneSays DEF Fit, Exchange
<1>5. Greeted(m, s, p, c, Append(a, f), g)
  BY Grown DEF Fit, Greeted
<1>6. Rested(m, p) /\ Quitting(m, s, Append(ev, f), g)
  BY DEF Fit, Quitting
<1> QED
  BY <1>2, <1>3, <1>4, <1>5, <1>6 DEF Fit

(* It takes a PONG, or the question of the task, which it answers.                *)
LEMMA Hears ==
  ASSUME NEW m \in TaskRecs, NEW s, NEW p, NEW a \in Seq(Frames), NEW b \in Seq(Frames),
         NEW ev, NEW c, NEW h, Fit(m, s, p, c, a, b, ev, h), b # <<>>, IsEvent(Head(b))
  PROVE  Fit(m, s, p, c, a, Tail(b), ev, h)
<1>1. Exchange(m, a, Tail(b))
  <2>1. Quiet(b) => Quiet(Tail(b))
    BY QuietTakes
  <2>2. Lone(b, Ask(m)) => Lone(Tail(b), Ask(m))
    BY AskTypes, LoneTakes
  <2> QED
    BY <2>1, <2>2 DEF Fit, Exchange
<1> QED
  BY <1>1 DEF Fit

LEMMA Answers ==
  ASSUME NEW m \in TaskRecs, NEW s \in Seq(Frames), NEW p \in Seq(Frames),
         NEW a \in Seq(Frames), NEW b \in Seq(Frames), NEW ev \in Seq(Frames), NEW c, NEW h,
         Fit(m, s, p, c, a, b, ev, h), b # <<>>, ~IsEvent(Head(b)),
         NEW g, g.windows = h.windows, g.hello = (h.hello \/ m.doing = "hello")
  PROVE  /\ Head(b) = Ask(m) /\ m.doing \in {"hello", "echo", "quit"}
         /\ Fit(m, s, p, c, Append(a, Answer(m)), Tail(b), ev, g)
<1>1. ~Quiet(b)
  BY QuietTakes
<1>2. Asks(m) /\ ~Takes(m) /\ Quiet(a) /\ Lone(b, Ask(m))
  BY <1>1 DEF Fit, Exchange
<1>3. Head(b) = Ask(m) /\ Quiet(Tail(b))
  BY <1>2, AskTypes, LoneTakes
<1>4. Answer(m) \in Frames /\ ~IsEvent(Answer(m))
  BY AskTypes
<1>5. Exchange(m, Append(a, Answer(m)), Tail(b))
  BY <1>2, <1>3, <1>4, QuietSays DEF Exchange
<1>6. InOrder(Gone(m, s, p), Append(a, Answer(m)), ev)
  BY <1>4, GoneIs, InOrderSays DEF Fit
<1>7. Greeted(m, s, p, c, Append(a, Answer(m)), g)
  <2>1. CASE m.doing # "hello"
    BY <1>4, <2>1, Grown DEF Fit, Greeted
  <2>2. CASE m.doing = "hello"
    <3>1. Answer(m) = HelloFrame
      BY <2>2 DEF Answer
    <3>2. m.pc \in {"writing", "written", "reading"}
      <4>1. m.pc \in Waits /\ (m.pc = "got" => m.frame = HelloFrame)
        BY <1>2, <2>2 DEF Asks, Fit, Greeted
      <4>2. ~IsEvent(HelloFrame)
        BY DEF IsEvent, HelloFrame, Frame
      <4> QED
        BY <1>2, <4>1, <4>2 DEF Takes, Waits
    <3>3. ~h.hello
      <4>1. h.hello => a # <<>> /\ a[1] = HelloFrame
        BY <2>2, <3>2 DEF Fit, Greeted
      <4>2. a # <<>> => IsEvent(a[1])
        BY <1>2, QuietTakes, Shrunk
      <4>3. ~IsEvent(HelloFrame)
        BY DEF IsEvent, HelloFrame, Frame
      <4> QED
        BY <4>1, <4>2, <4>3
    <3>4. a = <<>>
      BY <3>3 DEF Fit, Greeted
    <3>5. Append(a, Answer(m)) # <<>> /\ Append(a, Answer(m))[1] = HelloFrame
      BY <1>4, <3>1, <3>4, Grown
    <3> QED
      BY <2>2, <3>2, <3>5 DEF Fit, Greeted
  <2> QED
    BY <2>1, <2>2
<1>8. Rested(m, p) /\ Quitting(m, s, ev, g) /\ Announced(ev, g)
  BY DEF Fit, Quitting, Announced
<1> QED
  BY <1>2, <1>3, <1>5, <1>6, <1>7, <1>8 DEF Fit, Asks
--------------------------------------------------------------------------------
(* The steps of the app, from a task that goes on as m; w is m as it stands just  *)
(* before it reads.                                                               *)
Waiting(m, w) == /\ m \in TaskRecs /\ w \in TaskRecs /\ w.pc = "written"
                 /\ w.doing = m.doing /\ w.corr = m.corr /\ w.call = m.call

LEMMA ReadsFit ==
  ASSUME TypeOK, Main \in Tasks, ~reader.failed, reader.pending = None,
         NEW m, NEW w, Waiting(m, w), NEW s \in Seq(Frames), NEW p \in Seq(Frames),
         NEW b \in Seq(Frames), NEW ev \in Seq(Frames), NEW c, NEW h,
         Fit(w, s, p, c, Inbound, b, ev, h), w.doing # "echo" => p = <<>>,
         ReadFrame(Main, m), toApp' = toApp
  PROVE  /\ task'[Main].pc \in {"reading", "got"} /\ ~reader'.failed
         /\ Fit(task'[Main], s, p, c, Inbound', b, ev, h)
<1>1. /\ task \in [Tasks -> TaskRecs] /\ reader \in Readers /\ Inbound \in Seq(Frames)
      /\ reader.unread \in Seq(Frames) /\ toApp \in Seq(Frames)
      /\ m \in TaskRecs /\ w \in TaskRecs
  BY FlightTypes DEF TypeOK, Readers, Waiting
<1>2. CASE reader.unread = <<>>
  <2> DEFINE n == [m EXCEPT !.pc = "reading"]
  <2>1. /\ n \in TaskRecs /\ n.pc = "reading" /\ n.doing = m.doing /\ n.corr = m.corr
        /\ n.call = m.call
    BY <1>1 DEF TaskRecs, Waits
  <2>2. /\ task' = [task EXCEPT ![Main] = n] /\ reader' = [reader EXCEPT !.pending = Main]
    BY <1>2 DEF ReadFrame
  <2> HIDE DEF n
  <2>3. task'[Main] = n
    BY <1>1, <2>2
  <2>4. reader'.unread = reader.unread /\ reader'.failed = reader.failed
    BY <1>1, <2>2 DEF Readers
  <2>5. Inbound' = Inbound
    BY <2>4 DEF Inbound
  <2>6. Rested(n, p)
    BY <2>1 DEF Rested, Waiting
  <2>7. Fit(n, s, p, c, Inbound, b, ev, h)
    BY <1>1, <2>1, <2>6, Stays DEF Waiting
  <2> QED
    BY <2>1, <2>3, <2>4, <2>5, <2>7
<1>3. CASE reader.unread # <<>>
  <2> DEFINE n == [m EXCEPT !.pc = "got", !.frame = Head(reader.unread)]
  <2>1. /\ Tail(reader.unread) \o toApp = Tail(Inbound) /\ Inbound # <<>>
        /\ Head(reader.unread) = Inbound[1] /\ Head(reader.unread) \in Frames
    BY <1>1, <1>3, TailJoined DEF Inbound
  <2>2. /\ n \in TaskRecs /\ n.pc = "got" /\ n.frame = Head(reader.unread)
        /\ n.doing = m.doing /\ n.corr = m.corr /\ n.call = m.call
    BY <1>1, <2>1 DEF TaskRecs, Waits
  <2>3. task' = [task EXCEPT ![Main] = n] /\ reader' = [reader EXCEPT !.unread = Tail(@)]
    BY <1>3 DEF ReadFrame
  <2> HIDE DEF n
  <2>4. task'[Main] = n
    BY <1>1, <2>3
  <2>5. reader'.unread = Tail(reader.unread) /\ reader'.failed = reader.failed
    BY <1>1, <2>3 DEF Readers
  <2>6. Inbound' = Tail(Inbound)
    BY <2>1, <2>5 DEF Inbound
  <2>7. Head(Inbound) = Head(reader.unread)
    BY <1>1, <2>1, Shrunk
  <2>8. Fit(n, s, p, c, Tail(Inbound), b, ev, h)
    BY <1>1, <2>1, <2>2, <2>7, Delivered DEF Waiting
  <2> QED
    BY <2>2, <2>4, <2>5, <2>6, <2>8
<1> QED
  BY <1>2, <1>3

LEMMA ReceivesFit ==
  ASSUME TypeOK, Main \in Tasks, ~reader.failed, reader.pending = None, ~session.closed,
         NEW m, NEW w, Waiting(m, w), NEW s \in Seq(Frames),
         NEW b \in Seq(Frames), NEW ev \in Seq(Frames), NEW h,
         Fit(w, s, session.parked, session.connected, Inbound, b, ev, h),
         w.doing \in {"hello", "echo", "events", "quit"},
         Receive(Main, m), toApp' = toApp
  PROVE  /\ task'[Main].pc \in {"reading", "got"} /\ ~reader'.failed /\ ~session'.closed
         /\ Fit(task'[Main], s, session'.parked, session'.connected, Inbound', b, ev, h)
<1> DEFINE p == session.parked
<1>1. /\ task \in [Tasks -> TaskRecs] /\ session \in Sessions /\ Inbound \in Seq(Frames)
      /\ p \in Seq(Frames) /\ m \in TaskRecs /\ w \in TaskRecs
  BY FlightTypes DEF TypeOK, Sessions, Waiting
<1>2. /\ \A i \in 1..Len(p) : Known(p[i])
      /\ Len(s) + Len(p) <= Len(ev)
  BY <1>1, ParkedKnown DEF Waiting
<1>3. Want(m) = Want(w) /\ m.doing = w.doing
  BY DEF Want, Waiting
<1>4. Fit(w, s, p, session.connected, Inbound, b, ev, h)
  OBVIOUS
<1>5. CASE ParkedHits(m) = {} /\ (w.doing # "echo" => p = <<>>)
  <2>1. ReadFrame(Main, m) /\ session' = session
    BY <1>5 DEF Receive
  <2> QED
    BY <1>1, <1>4, <1>5, <2>1, ReadsFit
<1>6. CASE w.doing \in {"hello", "quit"}
  <2>1. p = <<>>
    <3>1. CASE w.doing = "hello"
      BY <1>4, <3>1 DEF Fit, Greeted
    <3>2. CASE w.doing = "quit"
      <4>1. Len(s) = Len(ev)
        BY <1>4, <3>2 DEF Fit, Quitting
      <4>2. Len(s) \in Nat /\ Len(p) \in Nat
        BY <1>1
      <4>3. Len(p) = 0
        BY <1>2, <4>1, <4>2
      <4> QED
        BY <1>1, <4>3
    <3> QED
      BY <1>6, <3>1, <3>2
  <2>2. ParkedHits(m) = {}
    BY <2>1 DEF ParkedHits
  <2> QED
    BY <1>5, <2>1, <2>2
<1>7. CASE w.doing = "echo"
  <2>1. \A i \in 1..Len(p) : ~AdmitsHeader(Want(m), p[i])
    BY <1>2, <1>3, <1>7 DEF Want, EchoReplyWaiter, AdmitsHeader, Known, IsEvent
  <2>2. ParkedHits(m) = {}
    BY <2>1 DEF ParkedHits
  <2> QED
    BY <1>5, <1>7, <2>2
<1>8. CASE w.doing = "events" /\ p = <<>>
  <2>1. ParkedHits(m) = {}
    BY <1>8 DEF ParkedHits
  <2> QED
    BY <1>5, <1>8, <2>1
<1>9. CASE w.doing = "events" /\ p # <<>>
  <2> DEFINE n == [m EXCEPT !.pc = "got", !.frame = p[1]]
  <2>1. Len(p) \in Nat \ {0} /\ Head(p) = p[1] /\ p[1] \in Frames /\ Tail(p) \in Seq(Frames)
    BY <1>1, <1>9, Shrunk
  <2>2. \A i \in 1..Len(p) : AdmitsHeader(Want(m), p[i])
    BY <1>2, <1>3, <1>9 DEF Want, Known
  <2>3. 1 \in ParkedHits(m) /\ ParkedHits(m) \subseteq 1..Len(p)
    BY <2>1, <2>2 DEF ParkedHits
  <2>4. TakeParked(m) = 1
    <3>1. TakeParked(m) \in 1..Len(p) /\ TakeParked(m) <= 1
      BY <2>3, TakenParked
    <3> QED
      BY <2>1, <3>1
  <2>5. Without(p, 1) = Tail(p)
    <3>1. 1 \in 1..Len(p)
      BY <2>1
    <3>2. /\ Without(p, 1) \in Seq(Frames) /\ Len(Without(p, 1)) = Len(p) - 1
          /\ \A j \in 1..(Len(p) - 1) :
               Without(p, 1)[j] = IF j < 1 THEN p[j] ELSE p[j + 1]
      BY <1>1, <3>1, WithoutIndex
    <3>3. Len(Tail(p)) = Len(p) - 1 /\ \A j \in 1..(Len(p) - 1) : Tail(p)[j] = p[j + 1]
      BY <1>1, <1>9, Shrunk
    <3>4. \A j \in 1..(Len(p) - 1) : Without(p, 1)[j] = Tail(p)[j]
      BY <2>1, <3>2, <3>3
    <3> QED
      BY <2>1, <3>2, <3>3, <3>4, SeqEqual
  <2>6. /\ n \in TaskRecs /\ n.pc = "got" /\ n.frame = p[1] /\ n.doing = m.doing
    BY <1>1, <2>1 DEF TaskRecs, Waits
  <2>7. /\ task' = [task EXCEPT ![Main] = n]
        /\ session' = [session EXCEPT !.parked = Tail(p)] /\ reader' = reader
    BY <2>3, <2>4, <2>5 DEF Receive
  <2> HIDE DEF n
  <2>8. task'[Main] = n
    BY <1>1, <2>7
  <2>9. /\ session'.parked = Tail(p) /\ session'.connected = session.connected
        /\ session'.closed = session.closed
    BY <1>1, <2>7 DEF Sessions
  <2>10. Inbound' = Inbound
    BY <2>7 DEF Inbound
  <2>11. Fit(n, s, Tail(p), session.connected, Inbound, b, ev, h)
    <3> HIDE DEF p
    <3>1. Head(p) = p[1] /\ n.doing = "events"
      BY <1>3, <1>9, <2>1, <2>6
    <3> QED
      BY <1>1, <1>4, <1>9, <2>6, <3>1, Unparked DEF Waiting
  <2> QED
    BY <2>6, <2>7, <2>8, <2>9, <2>10, <2>11
<1> QED
  BY <1>6, <1>7, <1>8, <1>9

LEMMA WritesFit ==
  ASSUME TypeOK, Main \in Tasks, ~session.closed, NEW m \in TaskRecs, NEW f \in Frames,
         WriteFrame(Main, m, f), toHost' = toHost
  PROVE  /\ task'[Main] = [m EXCEPT !.pc = "writing"] /\ task'[Main] \in TaskRecs
         /\ Outbound' = Append(Outbound, f)
<1>1. /\ task' = [task EXCEPT ![Main] = [m EXCEPT !.pc = "writing"]]
      /\ sending' = Append(sending, [by |-> Main, frame |-> f])
  BY DEF WriteFrame
<1>2. task \in [Tasks -> TaskRecs]
  BY DEF TypeOK
<1>3. task'[Main] = [m EXCEPT !.pc = "writing"]
  BY <1>1, <1>2
<1>4. [m EXCEPT !.pc = "writing"] \in TaskRecs
  BY DEF TaskRecs, Waits
<1> QED
  BY <1>1, <1>3, <1>4, OutWrites

(* The task greets the host.                                                      *)
LEMMA Greets ==
  ASSUME NEW m \in TaskRecs, NEW s \in Seq(Frames), NEW p \in Seq(Frames),
         NEW a, NEW b \in Seq(Frames), NEW ev, NEW c, NEW h,
         Fit(m, s, p, c, a, b, ev, h), m.pc = "ready", m.doing = "hello",
         NEW n \in TaskRecs, n.pc = "writing", n.doing = "hello"
  PROVE  Fit(n, s, p, c, a, Append(b, HelloFrame), ev, h)
<1>1. Gone(m, s, p) = s \o p /\ Gone(n, s, p) = s \o p
  BY GoneIs
<1>2. Quiet(a) /\ Quiet(b)
  BY DEF Fit, Exchange, Asks, Waits
<1>3. Lone(Append(b, HelloFrame), HelloFrame)
  BY <1>2, QuietSays, FrameTypes
<1>4. Exchange(n, a, Append(b, HelloFrame))
  BY <1>2, <1>3 DEF Exchange, Asks, Takes, Ask, Waits
<1>5. Greeted(n, s, p, c, a, h)
  BY DEF Fit, Greeted
<1>6. Rested(n, p) /\ Quitting(n, s, ev, h)
  BY DEF Rested, Quitting
<1> QED
  BY <1>1, <1>4, <1>5, <1>6 DEF Fit

(* While nothing has gone wrong.                                                  *)
Fits == Fit(Stock, seen, session.parked, session.connected, Inbound, Outbound, events, host)

LEMMA KeepsHealth ==
  ASSUME Tasks = {Main}, exit' = "running", ~session'.closed, ~reader'.failed, Fits',
         task'[Main].pc \in Waits \cup {"ready"}
  PROVE  SInv'
BY DEF SInv, Fits, Stock, Healthy, NoFalseAlarm, Waits

LEMMA HealthyIs ==
  ASSUME Tasks = {Main}, IInv, SInv, Healthy
  PROVE  /\ Fits /\ ~session.closed /\ ~reader.failed /\ exit = "running" /\ ~fault
         /\ Stock.pc \in Waits \cup {"ready"} /\ Stock.pc = task[Main].pc
         /\ Stock.pc # "reading" => reader.pending = None
         /\ TypeOK /\ Main \in Tasks /\ Stock \in TaskRecs /\ task \in [Tasks -> TaskRecs]
         /\ session \in Sessions /\ session.parked \in Seq(Frames) /\ seen \in Seq(Frames)
         /\ events \in Seq(Frames) /\ Inbound \in Seq(Frames) /\ Outbound \in Seq(Frames)
<1>1. /\ TypeOK /\ Main \in Tasks /\ Stock \in TaskRecs /\ task \in [Tasks -> TaskRecs]
      /\ session \in Sessions /\ session.parked \in Seq(Frames) /\ seen \in Seq(Frames)
      /\ events \in Seq(Frames) /\ Inbound \in Seq(Frames) /\ Outbound \in Seq(Frames)
      /\ reader.pending \in Tasks \cup {None}
  BY FlightTypes, LinkAssumption DEF IInv, TypeOK, Sessions, Stock
<1>2. Fits /\ ~session.closed /\ ~reader.failed /\ exit = "running" /\ ~fault
  BY DEF SInv, Healthy, Fits
<1>3. Stock.pc \notin {"rejected", "threw", "failed", "done"}
  BY <1>2 DEF SInv, Healthy
<1>4. Stock.pc \in Waits \cup {"ready"}
  BY <1>1, <1>3 DEF TaskRecs
<1>5. Stock.pc # "reading" => reader.pending = None
  BY <1>1, <1>3 DEF IInv, Reading, Stock
<1> QED
  BY <1>1, <1>2, <1>4, <1>5 DEF Stock

(* What a task that is not waiting for an answer, or has taken it, leaves.        *)
LEMMA AllQuiet ==
  ASSUME NEW m, NEW s, NEW p, NEW a, NEW b, NEW ev, NEW c, NEW h,
         Fit(m, s, p, c, a, b, ev, h), ~Asks(m) \/ Takes(m)
  PROVE  /\ Quiet(a) /\ Quiet(b) /\ (Takes(m) => Asks(m) /\ m.frame = Answer(m))
         /\ m.doing # "hello" \/ m.pc = "got" => h.hello
BY DEF Fit, Exchange, Greeted

LEMMA ConnectFits == ASSUME Tasks = {Main}, IInv, SInv, Healthy, Connect PROVE SInv'
<1>1. /\ Fits /\ ~session.closed /\ ~reader.failed /\ exit = "running" /\ TypeOK /\ Main \in Tasks
      /\ Stock \in TaskRecs /\ session.parked \in Seq(Frames) /\ seen \in Seq(Frames)
      /\ Outbound \in Seq(Frames)
  BY HealthyIs
<1>2. /\ Stock.pc = "ready" /\ Stock.doing = "hello" /\ WriteFrame(Main, Stock, HelloFrame)
      /\ UNCHANGED <<session, reader, toHost, toApp, exit, seen, host, events>>
  BY DEF Connect, Stock, hostVars
<1>3. /\ task'[Main] = [Stock EXCEPT !.pc = "writing"] /\ task'[Main] \in TaskRecs
      /\ Outbound' = Append(Outbound, HelloFrame)
  BY <1>1, <1>2, FrameTypes, WritesFit
<1>4. task'[Main].pc = "writing" /\ task'[Main].doing = "hello"
  BY <1>1, <1>2, <1>3 DEF TaskRecs
<1>5. Inbound' = Inbound
  BY <1>2 DEF Inbound
<1>6. Fit(task'[Main], seen, session.parked, session.connected, Inbound, Append(Outbound, HelloFrame),
          events, host)
  BY <1>1, <1>2, <1>3, <1>4, Greets DEF Fits
<1>7. Fits'
  BY <1>2, <1>3, <1>5, <1>6 DEF Fits, Stock
<1> QED
  BY <1>1, <1>2, <1>4, <1>7, KeepsHealth DEF Waits

(* The task ends an operation: nothing is on its way but events.                  *)
LEMMA EndsFit ==
  ASSUME Tasks = {Main}, IInv, SInv, Healthy, Takes(Stock),
         NEW n \in TaskRecs, n.pc = "ready", n.doing # "hello",
         n.doing = Stock.doing \/ n.doing = "events", task' = [task EXCEPT ![Main] = n],
         session'.parked = session.parked, session'.closed = session.closed,
         UNCHANGED <<reader, sending, toHost, toApp, exit, seen, host, events>>
  PROVE  SInv'
<1>1. /\ Fits /\ ~session.closed /\ ~reader.failed /\ exit = "running"
      /\ Stock \in TaskRecs /\ session.parked \in Seq(Frames) /\ seen \in Seq(Frames)
      /\ Inbound \in Seq(Frames) /\ Outbound \in Seq(Frames) /\ events \in Seq(Frames)
      /\ task \in [Tasks -> TaskRecs] /\ Main \in Tasks
  BY HealthyIs
<1>2. Quiet(Inbound) /\ Quiet(Outbound) /\ host.hello
  BY <1>1, AllQuiet DEF Fits, Takes
<1>3. task'[Main] = n
  BY <1>1
<1>4. Inbound' = Inbound /\ Outbound' = Outbound
  BY DEF Inbound, Outbound
<1>5. Rested(n, session.parked) /\ Quitting(n, seen, events, host) /\ ~Asks(n)
  BY <1>1 DEF Rested, Quitting, Fits, Fit, Asks, Waits
<1>6. Fit(n, seen, session.parked, session'.connected, Inbound, Outbound, events, host)
  <2>1. ~(Stock.pc = "got" /\ IsEvent(Stock.frame))
    BY DEF Takes
  <2> QED
    BY <1>1, <1>2, <1>5, <2>1, Goes DEF Fits
<1>7. Fits'
  BY <1>3, <1>4, <1>6 DEF Fits, Stock
<1> QED
  BY <1>1, <1>3, <1>7, KeepsHealth

LEMMA AnsweredFits ==
  ASSUME Tasks = {Main}, IInv, SInv, Healthy,
         HelloAnswered \/ EchoAnswered(Main) \/ QuitAnswered(Main)
  PROVE  SInv'
<1>1. /\ Fits /\ Stock \in TaskRecs /\ task \in [Tasks -> TaskRecs] /\ session \in Sessions
      /\ TypeOK /\ Main \in Tasks
  BY HealthyIs
<1>2. Stock.pc = "got" /\ AdmitsHeader(Want(Stock), Stock.frame)
  BY DEF HelloAnswered, EchoAnswered, QuitAnswered, Wanted, Stock
<1>3. CASE HelloAnswered
  <2>1. Stock.doing = "hello"
    BY <1>3 DEF HelloAnswered, Wanted, Stock
  <2>2. Stock.frame = HelloFrame
    BY <1>1, <1>2, <2>1 DEF Fits, Fit, Greeted
  <2>3. Takes(Stock) /\ Stock.frame.body = "token"
    BY <1>2, <2>2 DEF Takes, IsEvent, HelloFrame, Frame
  <2> DEFINE n == [Stock EXCEPT !.pc = "ready", !.doing = "events"]
  <2>4. /\ task' = [task EXCEPT ![Main].pc = "ready", ![Main].doing = "events"]
        /\ session' = [session EXCEPT !.connected = TRUE]
        /\ UNCHANGED <<reader, sending, toHost, toApp, exit, seen, host, events>>
    BY <1>3, <2>3 DEF HelloAnswered, Stock, hostVars
  <2>5. n \in TaskRecs /\ n.pc = "ready" /\ n.doing = "events"
    BY <1>1 DEF TaskRecs
  <2>6. task' = [task EXCEPT ![Main] = n]
    BY <1>1, <2>4 DEF Stock
  <2>7. session'.parked = session.parked /\ session'.closed = session.closed
    BY <1>1, <2>4 DEF Sessions
  <2> HIDE DEF n
  <2> QED
    BY <2>3, <2>4, <2>5, <2>6, <2>7, EndsFit
<1>4. CASE EchoAnswered(Main) \/ QuitAnswered(Main)
  <2>1. Stock.doing \in {"echo", "quit"}
    BY <1>4 DEF EchoAnswered, QuitAnswered, Wanted, Stock
  <2>2. Takes(Stock)
    BY <1>2, <2>1 DEF Takes, IsEvent, AdmitsHeader, Want, EchoReplyWaiter, LifecycleReplyWaiter
  <2>3. Stock.frame = Answer(Stock)
    BY <1>1, <2>2, AllQuiet DEF Fits
  <2>4. /\ Stock.frame.kind = "REPLY" /\ Stock.frame.body # "garbled"
        /\ Stock.doing = "quit" => Stock.frame.body = "quit"
    BY <2>1, <2>3 DEF Answer, Frame
  <2> DEFINE n == [Stock EXCEPT !.pc = "ready", !.todo = Tail(@)]
  <2>5. /\ task' = [task EXCEPT ![Main].pc = "ready", ![Main].todo = Tail(@)]
        /\ UNCHANGED <<session, reader, sending, toHost, toApp, exit, seen, host, events>>
    BY <1>4, <2>4 DEF EchoAnswered, QuitAnswered, Wanted, NextOp, Stock, hostVars
  <2>6. n.pc = "ready" /\ n.doing = Stock.doing /\ n \in TaskRecs
    <3>1. Stock.todo \in Seq(Ops) /\ Stock.todo # <<>>
      BY <1>1, <1>2, <2>1 DEF IInv, Working, Works, TaskRecs, Waits, Stock
    <3>2. Tail(Stock.todo) \in Seq(Ops)
      BY <3>1
    <3> QED
      BY <1>1, <3>2 DEF TaskRecs
  <2>7. task' = [task EXCEPT ![Main] = n]
    BY <1>1, <2>5 DEF Stock
  <2> HIDE DEF n
  <2>8. n.doing # "hello"
    BY <2>1, <2>6
  <2> QED
    BY <2>2, <2>5, <2>6, <2>7, <2>8, EndsFit
<1> QED
  BY <1>3, <1>4

LEMMA BeginEchoFits == ASSUME Tasks = {Main}, IInv, SInv, Healthy, BeginEcho(Main) PROVE SInv'
<1>1. /\ Fits /\ ~session.closed /\ ~reader.failed /\ exit = "running" /\ TypeOK /\ Main \in Tasks
      /\ Stock \in TaskRecs /\ session.parked \in Seq(Frames) /\ seen \in Seq(Frames)
      /\ Outbound \in Seq(Frames) /\ Inbound \in Seq(Frames) /\ events \in Seq(Frames)
      /\ session \in Sessions
  BY HealthyIs
<1> DEFINE m == [Stock EXCEPT !.doing = "echo", !.corr = session.nextCorr, !.call = CallId(Main)]
           f == Frame("CALL", "echo", session.nextCorr, "echo", CallId(Main))
           n == [m EXCEPT !.pc = "writing"]
<1>2. /\ Stock.pc = "ready" /\ session.connected /\ AllocCorr /\ WriteFrame(Main, m, f)
      /\ UNCHANGED <<reader, toHost, toApp, exit, seen, host, events>>
  BY <1>1 DEF BeginEcho, Starts, Stock, hostVars
<1>3. session.nextCorr \in Nat /\ CallId(Main) \in Calls
  <2>1. session.nextCorr \in Corrs
    BY <1>1 DEF Sessions
  <2> QED
    BY <1>1, <2>1, RecTypes, LinkAssumption DEF Corrs
<1>4. /\ n.pc = "writing" /\ n.doing = "echo" /\ n.corr = session.nextCorr
      /\ n.call = CallId(Main) /\ m \in TaskRecs
  BY <1>1, <1>3 DEF TaskRecs
<1>5. f = Ask(n)
  BY <1>4 DEF Ask
<1>6. n \in TaskRecs
  BY <1>4 DEF TaskRecs, Waits
<1>7. f \in Frames
  BY <1>5, <1>6, AskTypes
<1> HIDE DEF m, f
<1>8. task'[Main] = n /\ Outbound' = Append(Outbound, f)
  BY <1>1, <1>2, <1>4, <1>7, WritesFit
<1> HIDE DEF n
<1>9. /\ session'.parked = session.parked /\ session'.closed = session.closed
  BY <1>1, <1>2 DEF AllocCorr, Sessions
<1>10. Stock.doing # "hello"
  BY <1>1, <1>2 DEF Fits, Fit, Greeted
<1>11. Quiet(Inbound) /\ Quiet(Outbound) /\ host.hello
  BY <1>1, <1>2, <1>10, AllQuiet DEF Fits, Asks, Waits
<1>12. Lone(Append(Outbound, f), Ask(n)) /\ Asks(n) /\ Rested(n, session.parked)
       /\ Quitting(n, seen, events, host)
  BY <1>1, <1>4, <1>5, <1>7, <1>11, QuietSays DEF Asks, Waits, Rested, Quitting
<1>13. Fit(n, seen, session.parked, session'.connected, Inbound, Append(Outbound, f), events, host)
  BY <1>1, <1>2, <1>4, <1>6, <1>11, <1>12, Goes DEF Fits
<1>14. Inbound' = Inbound
  BY <1>2 DEF Inbound
<1>15. Fits'
  BY <1>2, <1>8, <1>9, <1>13, <1>14 DEF Fits, Stock
<1> QED
  BY <1>1, <1>2, <1>4, <1>8, <1>9, <1>15, KeepsHealth DEF Waits

(* The task reads, having fitted as w.                                            *)
LEMMA ReceivedFits ==
  ASSUME Tasks = {Main}, IInv, SInv, Healthy, Stock.pc # "reading", NEW m, NEW w, Waiting(m, w),
         w.doing \in {"hello", "echo", "events", "quit"}, NEW s \in Seq(Frames), seen' = s,
         Fit(w, s, session.parked, session.connected, Inbound, Outbound, events, host),
         Receive(Main, m), UNCHANGED <<sending, toHost, toApp, exit, host, events>>
  PROVE  SInv'
<1>1. /\ ~session.closed /\ ~reader.failed /\ exit = "running" /\ TypeOK /\ Main \in Tasks
      /\ Outbound \in Seq(Frames) /\ events \in Seq(Frames) /\ reader.pending = None
  BY HealthyIs
<1>2. /\ task'[Main].pc \in {"reading", "got"} /\ ~reader'.failed /\ ~session'.closed
      /\ Fit(task'[Main], s, session'.parked, session'.connected, Inbound', Outbound, events, host)
  BY <1>1, ReceivesFit
<1>3. Outbound' = Outbound
  BY DEF Outbound
<1>4. Fits'
  BY <1>2, <1>3 DEF Fits, Stock
<1> QED
  BY <1>1, <1>2, <1>4, KeepsHealth DEF Waits

LEMMA BeginLifecycleFits ==
  ASSUME Tasks = {Main}, IInv, SInv, Healthy, BeginLifecycle(Main)
  PROVE  SInv'
<1>1. /\ Fits /\ Stock \in TaskRecs /\ session.parked \in Seq(Frames) /\ seen \in Seq(Frames)
      /\ Outbound \in Seq(Frames) /\ Inbound \in Seq(Frames) /\ events \in Seq(Frames)
  BY HealthyIs
<1> DEFINE m == [Stock EXCEPT !.doing = "events"]
           w == [Stock EXCEPT !.doing = "events", !.pc = "written"]
<1>2. /\ Stock.pc = "ready" /\ session.connected /\ Receive(Main, m)
      /\ UNCHANGED <<sending, toHost, toApp, exit, seen, host, events>>
  BY DEF BeginLifecycle, Starts, Stock, hostVars
<1>3. Waiting(m, w) /\ w.doing = "events" /\ w.pc = "written" /\ w \in TaskRecs
  BY <1>1 DEF Waiting, TaskRecs, Waits
<1> HIDE DEF m, w
<1>4. Stock.doing # "hello"
  BY <1>1, <1>2 DEF Fits, Fit, Greeted
<1>5. Quiet(Inbound) /\ Quiet(Outbound) /\ host.hello
  BY <1>1, <1>2, <1>4, AllQuiet DEF Fits, Asks, Waits
<1>6. ~Asks(w) /\ Rested(w, session.parked) /\ Quitting(w, seen, events, host)
  BY <1>3 DEF Asks, Rested, Quitting
<1>7. Fit(w, seen, session.parked, session.connected, Inbound, Outbound, events, host)
  BY <1>1, <1>2, <1>3, <1>5, <1>6, Goes DEF Fits
<1>8. seen' = seen /\ Stock.pc # "reading"
  BY <1>2
<1> QED
  BY <1>1, <1>2, <1>3, <1>7, <1>8, ReceivedFits

LEMMA AfterWriteFits == ASSUME Tasks = {Main}, IInv, SInv, Healthy, AfterWrite(Main) PROVE SInv'
<1>1. /\ Fits /\ Stock \in TaskRecs /\ session.parked \in Seq(Frames) /\ seen \in Seq(Frames)
      /\ Outbound \in Seq(Frames) /\ Inbound \in Seq(Frames) /\ events \in Seq(Frames)
  BY HealthyIs
<1> DEFINE m == [Stock EXCEPT !.doing = IF @ = "pong" THEN "events" ELSE @]
<1>2. /\ Stock.pc = "written" /\ Receive(Main, m)
      /\ UNCHANGED <<sending, toHost, toApp, exit, seen, host, events>>
  BY DEF AfterWrite, Stock, hostVars
<1>3. Waiting(m, m) /\ m.pc = "written" /\ m \in TaskRecs
      /\ m.doing = (IF Stock.doing = "pong" THEN "events" ELSE Stock.doing)
  BY <1>1, <1>2 DEF Waiting, TaskRecs, Waits
<1>4. CASE Stock.doing = "pong"
  <2>1. Quiet(Inbound) /\ Quiet(Outbound) /\ host.hello
    BY <1>1, <1>4, AllQuiet DEF Fits, Asks
  <2>2. m.doing = "events"
    BY <1>3, <1>4
  <2> HIDE DEF m
  <2>3. ~Asks(m) /\ Rested(m, session.parked) /\ Quitting(m, seen, events, host)
    BY <1>3, <2>2 DEF Asks, Rested, Quitting
  <2>4. Fit(m, seen, session.parked, session.connected, Inbound, Outbound, events, host)
    BY <1>1, <1>2, <1>3, <2>1, <2>2, <2>3, Goes DEF Fits
  <2>5. seen' = seen /\ Stock.pc # "reading"
    BY <1>2
  <2> QED
    BY <1>1, <1>2, <1>3, <2>2, <2>4, <2>5, ReceivedFits
<1>5. CASE Stock.doing # "pong"
  <2>1. m = Stock
    BY <1>1, <1>5 DEF TaskRecs
  <2>2. Stock.doing \in {"hello", "echo", "events", "quit"}
    BY <1>1, <1>5 DEF TaskRecs
  <2> HIDE DEF m
  <2>3. Fit(m, seen, session.parked, session.connected, Inbound, Outbound, events, host)
    BY <1>1, <2>1 DEF Fits
  <2>4. seen' = seen /\ Stock.pc # "reading"
    BY <1>2
  <2> QED
    BY <1>1, <1>2, <1>3, <2>1, <2>2, <2>3, <2>4, ReceivedFits
<1> QED
  BY <1>4, <1>5

LEMMA UnwantedFits == ASSUME Tasks = {Main}, IInv, SInv, Healthy, Unwanted(Main) PROVE SInv'
<1>1. /\ Fits /\ Stock \in TaskRecs /\ session.parked \in Seq(Frames) /\ seen \in Seq(Frames)
      /\ Outbound \in Seq(Frames) /\ Inbound \in Seq(Frames) /\ events \in Seq(Frames)
      /\ ~session.closed /\ ~reader.failed /\ exit = "running" /\ TypeOK /\ Main \in Tasks
      /\ session \in Sessions /\ task \in [Tasks -> TaskRecs]
      /\ Stock.pc # "reading" => reader.pending = None
  BY HealthyIs
<1>2. /\ Stock.pc = "got" /\ ~AdmitsHeader(Want(Stock), Stock.frame)
      /\ UNCHANGED <<sending, toHost, toApp, exit, seen, host, fault, events>>
  BY DEF Unwanted, Stock, hostVars
<1>3. IsEvent(Stock.frame) =>
        /\ Known(Stock.frame) /\ Len(seen) + Len(session.parked) + 1 <= Len(events)
  BY <1>1, <1>2, HandKnown DEF Fits
<1>4. ~IsEvent(Stock.frame) => Asks(Stock) /\ Stock.frame = Answer(Stock)
  BY <1>1, <1>2, AllQuiet DEF Fits, Takes
<1>5. Stock.doing = "echo" /\ IsEvent(Stock.frame)
  <2>1. IsEvent(Stock.frame)
    <3>1. SUFFICES ASSUME ~IsEvent(Stock.frame), Stock.frame = Answer(Stock), Asks(Stock)
                   PROVE  AdmitsHeader(Want(Stock), Stock.frame)
      BY <1>2, <1>4
    <3> QED
      BY <3>1 DEF Asks, Answer, Frame, HelloFrame, AdmitsHeader, Want, ClientAwaitHello,
                  EchoReplyWaiter, LifecycleReplyWaiter
  <2>2. Stock.doing # "hello"
    <3>1. Stock.doing = "hello" => Stock.frame = HelloFrame
      BY <1>1, <1>2 DEF Fits, Fit, Greeted
    <3> QED
      BY <2>1, <3>1 DEF IsEvent, HelloFrame, Frame
  <2>3. Stock.doing # "quit"
    <3>1. Stock.doing = "quit" => Len(seen) = Len(events)
      BY <1>1 DEF Fits, Fit, Quitting
    <3>2. Len(seen) \in Nat /\ Len(session.parked) \in Nat /\ Len(events) \in Nat
      BY <1>1
    <3> QED
      BY <1>3, <2>1, <3>1, <3>2
  <2>4. Stock.doing \notin {"events", "pong"}
    BY <1>2, <1>3, <2>1 DEF Want, Known
  <2> QED
    BY <1>1, <2>1, <2>2, <2>3, <2>4 DEF TaskRecs
<1>6. Parks(Stock, Stock.frame)
  BY <1>3, <1>5 DEF Parks, Known
<1>7. CASE Len(session.parked) < MAX_PARKED_FRAMES
  <2> DEFINE p == Append(session.parked, Stock.frame)
             w == [Stock EXCEPT !.pc = "written"]
  <2>1. session' = [session EXCEPT !.parked = p] /\ ReadFrame(Main, Stock)
    BY <1>6, <1>7 DEF Unwanted, Stock
  <2>2. p \in Seq(Frames)
    BY <1>1, GoneIs, Grown
  <2>3. Waiting(Stock, w) /\ w \in TaskRecs /\ w.pc = "written" /\ w.doing = "echo"
        /\ w.corr = Stock.corr /\ w.call = Stock.call
    BY <1>1, <1>5 DEF Waiting, TaskRecs, Waits
  <2> HIDE DEF w
  <2>4. Fit(w, seen, p, session.connected, Inbound, Outbound, events, host)
    BY <1>1, <1>2, <1>5, <2>3, SetsAside DEF Fits
  <2> HIDE DEF p
  <2>5. /\ session'.parked = p /\ session'.connected = session.connected
        /\ session'.closed = session.closed
    BY <1>1, <2>1 DEF Sessions
  <2>6. /\ task'[Main].pc \in {"reading", "got"} /\ ~reader'.failed
        /\ Fit(task'[Main], seen, p, session.connected, Inbound', Outbound, events, host)
    BY <1>1, <1>2, <2>1, <2>2, <2>3, <2>4, ReadsFit
  <2>7. Outbound' = Outbound
    BY <1>2 DEF Outbound
  <2>8. Fits'
    BY <1>2, <2>5, <2>6, <2>7 DEF Fits, Stock
  <2> QED
    BY <1>1, <1>2, <2>5, <2>6, <2>8, KeepsHealth DEF Waits
<1>8. CASE ~(Len(session.parked) < MAX_PARKED_FRAMES)
  <2>1. task' = [task EXCEPT ![Main].pc = "rejected"]
    BY <1>8 DEF Unwanted, Stock
  <2>2. task'[Main].pc = "rejected"
    BY <1>1, <2>1 DEF TaskRecs
  <2>3. Len(events) > MAX_PARKED_FRAMES
    <3>1. /\ Len(seen) \in Nat /\ Len(session.parked) \in Nat /\ Len(events) \in Nat
          /\ MAX_PARKED_FRAMES \in Nat
      BY <1>1, LinkAssumption
    <3> QED
      BY <1>3, <1>5, <1>8, <3>1
  <2> QED
    BY <1>2, <2>2, <2>3 DEF SInv, Stock, Healthy, NoFalseAlarm
<1> QED
  BY <1>7, <1>8

LEMMA TakeEventFits == ASSUME Tasks = {Main}, IInv, SInv, Healthy, TakeEvent(Main) PROVE SInv'
<1> DEFINE f == Stock.frame
           s == Append(seen, f)
           w == [Stock EXCEPT !.pc = "written"]
<1>1. /\ Fits /\ ~session.closed /\ ~reader.failed /\ exit = "running" /\ TypeOK /\ Main \in Tasks
      /\ Stock \in TaskRecs /\ session.parked \in Seq(Frames) /\ seen \in Seq(Frames)
      /\ Outbound \in Seq(Frames) /\ Inbound \in Seq(Frames) /\ events \in Seq(Frames)
      /\ session \in Sessions
  BY HealthyIs
<1>2. /\ Stock.pc = "got" /\ Stock.doing = "events" /\ seen' = s
      /\ UNCHANGED <<toHost, toApp, exit, host, events>>
  BY DEF TakeEvent, Wanted, Stock, hostVars
<1>3. IsEvent(f)
  BY <1>1, <1>2, AllQuiet DEF Fits, Takes, Asks
<1>4. /\ Known(f) /\ f = events[Len(seen) + 1]
      /\ Len(seen) + Len(session.parked) + 1 <= Len(events)
  <2>1. Fit(Stock, seen, session.parked, session.connected, Inbound, Outbound, events, host)
    BY <1>1 DEF Fits
  <2>2. IsEvent(Stock.frame) /\ Stock.pc = "got" /\ Stock.doing # "echo"
    BY <1>2, <1>3
  <2> QED
    BY ONLY <1>1, <2>1, <2>2, HandKnown
<1>5. f \in Frames /\ s \in Seq(Frames) /\ Len(s) = Len(seen) + 1 /\ Len(seen) \in Nat
  <2>1. f \in Frames
    BY <1>1 DEF TaskRecs
  <2> QED
    BY <1>1, <2>1, Grown
<1>6. w \in TaskRecs /\ w.pc = "written" /\ w.doing = "events" /\ Waiting(Stock, w)
  BY <1>1, <1>2 DEF TaskRecs, Waits, Waiting
<1> HIDE DEF w, s
<1>7. /\ Fit(w, s, session.parked, session.connected, Inbound, Outbound, events, host)
      /\ Quiet(Inbound) /\ Quiet(Outbound) /\ host.hello
  BY <1>1, <1>2, <1>3, <1>6, TakesEvent DEF Fits, s
<1> HIDE DEF f
<1>8. ASSUME NEW n \in TaskRecs, NEW g \in Frames, task'[Main] = n, n.pc = "writing",
             n.doing # "hello", Outbound' = Append(Outbound, g),
             IF Asks(n) THEN g = Ask(n) ELSE IsEvent(g), Quitting(n, s, events, host),
             session'.parked = session.parked, session'.closed = session.closed, reader' = reader
      PROVE  SInv'
  <2>1. IF Asks(n) THEN Lone(Append(Outbound, g), Ask(n)) ELSE Quiet(Append(Outbound, g))
    BY <1>1, <1>7, <1>8, QuietSays
  <2>2. Rested(n, session.parked) /\ n.pc # "got" /\ ~(w.pc = "got" /\ IsEvent(w.frame))
    BY <1>6, <1>8 DEF Rested
  <2>3. Fit(n, s, session.parked, session'.connected, Inbound, Append(Outbound, g), events, host)
    BY <1>1, <1>5, <1>6, <1>7, <1>8, <2>1, <2>2, Goes
  <2>4. Inbound' = Inbound
    BY <1>2, <1>8 DEF Inbound
  <2>5. Fits'
    BY <1>2, <1>8, <2>3, <2>4 DEF Fits, Stock
  <2> QED
    BY <1>1, <1>2, <1>8, <2>5, KeepsHealth DEF Waits
<1>9. CASE f.kind = "PING"
  <2> DEFINE m == [Stock EXCEPT !.doing = "pong"]
             n == [m EXCEPT !.pc = "writing"]
  <2>1. WriteFrame(Main, m, f) /\ UNCHANGED <<session, reader>>
    BY <1>9 DEF TakeEvent, Stock, f
  <2>2. m \in TaskRecs /\ n \in TaskRecs /\ n.pc = "writing" /\ n.doing = "pong"
    BY <1>1 DEF TaskRecs, Waits
  <2> HIDE DEF m
  <2>3. task'[Main] = n /\ Outbound' = Append(Outbound, f)
    BY <1>1, <1>2, <1>5, <2>1, <2>2, WritesFit
  <2> HIDE DEF n
  <2>4. ~Asks(n) /\ Quitting(n, s, events, host)
    BY <2>2 DEF Asks, Quitting
  <2> QED
    BY <1>3, <1>5, <1>8, <2>1, <2>2, <2>3, <2>4
<1>10. CASE f.kind # "PING" /\ f.body = "ready"
  <2>1. Receive(Main, Stock) /\ sending' = sending
    BY <1>10 DEF TakeEvent, Stock, f
  <2> QED
    BY <1>1, <1>2, <1>5, <1>6, <1>7, <2>1, ReceivedFits
<1>11. CASE f.kind # "PING" /\ f.body = "last-window-closed"
  <2> DEFINE m == [Stock EXCEPT !.doing = "quit", !.corr = session.nextCorr]
             g == Frame("CALL", "lifecycle", session.nextCorr, "quit", NoCall)
             n == [m EXCEPT !.pc = "writing"]
  <2>1. AllocCorr /\ WriteFrame(Main, m, g) /\ reader' = reader
    BY <1>11 DEF TakeEvent, Stock, f
  <2>2. session.nextCorr \in Nat
    <3>1. session.nextCorr \in Corrs
      BY <1>1 DEF Sessions
    <3> QED
      BY <3>1, LinkAssumption DEF Corrs
  <2>3. /\ m \in TaskRecs /\ n \in TaskRecs /\ n.pc = "writing" /\ n.doing = "quit"
        /\ n.corr = session.nextCorr
    BY <1>1, <2>2 DEF TaskRecs, Waits
  <2>4. g = Ask(n)
    BY <2>3 DEF Ask
  <2>5. g \in Frames
    BY <2>3, <2>4, AskTypes
  <2> HIDE DEF m, g
  <2>6. task'[Main] = n /\ Outbound' = Append(Outbound, g)
    BY <1>1, <1>2, <2>1, <2>3, <2>5, WritesFit
  <2> HIDE DEF n
  <2>7. session'.parked = session.parked /\ session'.closed = session.closed
    BY <1>1, <2>1 DEF AllocCorr, Sessions
  <2>8. host.windows = "closed" /\ Len(seen) + 1 = Len(events)
    <3>1. Announced(events, host)
      BY <1>1 DEF Fits, Fit
    <3>2. Len(seen) + 1 \in DOMAIN events
      <4>1. Len(session.parked) \in Nat /\ Len(events) \in Nat /\ DOMAIN events = 1..Len(events)
        BY <1>1
      <4> QED
        BY <1>4, <1>5, <4>1
    <3>3. f # EventFrame("ready") /\ \A c : f # PingFrame(c)
      BY <1>11 DEF EventFrame, PingFrame, Frame
    <3> QED
      BY <1>4, <3>1, <3>2, <3>3 DEF Announced
  <2>9. Quitting(n, s, events, host) /\ Asks(n)
    BY <1>5, <2>3, <2>8 DEF Quitting, Asks, Waits
  <2> QED
    BY <1>8, <2>1, <2>3, <2>4, <2>5, <2>6, <2>7, <2>9
<1> QED
  BY <1>4, <1>9, <1>10, <1>11 DEF Known

LEMMA FinishFits == ASSUME Tasks = {Main}, IInv, SInv, Healthy, Finish(Main) PROVE SInv'
<1>1. ~session.closed /\ Stock \in TaskRecs /\ task \in [Tasks -> TaskRecs] /\ Main \in Tasks
      /\ TypeOK
  BY HealthyIs
<1>2. exit' = "0" /\ Close(Main, "done")
  BY DEF Finish
<1>3. task'[Main].pc = "done"
  <2>1. task' = [Released EXCEPT ![Main].pc = "done"]
    BY <1>1, <1>2 DEF Close
  <2>2. Released \in [Tasks -> TaskRecs]
    BY <1>1, ReleasedTypes
  <2> QED
    BY <1>1, <2>1, <2>2 DEF TaskRecs
<1> QED
  BY <1>2, <1>3 DEF SInv, Stock, Healthy, NoFalseAlarm

LEMMA AppFits == ASSUME Tasks = {Main}, IInv, SInv, Healthy, App PROVE SInv'
<1>1. Stock.pc \notin {"rejected", "threw"}
  BY DEF Healthy
<1>2. ~Fails(Main)
  BY <1>1 DEF Fails, Stock
<1> QED
  BY <1>2, ConnectFits, BeginEchoFits, BeginLifecycleFits, AfterWriteFits, UnwantedFits,
     AnsweredFits, TakeEventFits, FinishFits DEF App
(* The transport's steps.                                                         *)
LEMMA FlushFits == ASSUME Tasks = {Main}, IInv, SInv, Healthy, Flush PROVE SInv'
<1>1. /\ Fits /\ ~session.closed /\ ~reader.failed /\ exit = "running" /\ TypeOK /\ Main \in Tasks
      /\ Stock \in TaskRecs /\ task \in [Tasks -> TaskRecs]
      /\ session.parked \in Seq(Frames) /\ seen \in Seq(Frames)
  BY HealthyIs
<1>2. /\ sending # <<>> /\ task[Head(sending).by].pc = "writing" /\ sending \in Seq(Writes)
      /\ task' = [task EXCEPT ![Head(sending).by].pc = "written"]
      /\ UNCHANGED <<session, reader, toApp, exit, seen, host, events>>
  BY <1>1 DEF Flush, TypeOK, hostVars
<1>3. Head(sending).by = Main
  <2>1. Head(sending) \in Writes
    BY <1>2
  <2> QED
    BY <2>1 DEF Writes
<1> DEFINE n == [Stock EXCEPT !.pc = "written"]
<1>4. /\ n \in TaskRecs /\ n.pc = "written" /\ n.doing = Stock.doing
      /\ n.corr = Stock.corr /\ n.call = Stock.call
  BY <1>1 DEF TaskRecs, Waits
<1>5. task'[Main] = n /\ Stock.pc = "writing"
  BY <1>1, <1>2, <1>3 DEF Stock
<1> HIDE DEF n
<1>6. Rested(n, session.parked)
  BY <1>4 DEF Rested
<1>7. Fit(n, seen, session.parked, session.connected, Inbound, Outbound, events, host)
  BY <1>1, <1>4, <1>5, <1>6, Stays DEF Fits
<1>8. Inbound' = Inbound /\ Outbound' = Outbound
  BY <1>1, <1>2, OutFlushes DEF Inbound
<1>9. Fits'
  BY <1>2, <1>5, <1>7, <1>8 DEF Fits, Stock
<1> QED
  BY <1>1, <1>2, <1>4, <1>5, <1>9, KeepsHealth DEF Waits

LEMMA PushFits ==
  ASSUME Tasks = {Main}, IInv, SInv, Healthy, NEW n \in 1..Len(toApp), Push(n)
  PROVE  SInv'
<1> DEFINE all == reader.unread \o SubSeq(toApp, 1, n)
           rest == SubSeq(toApp, n + 1, Len(toApp))
<1>1. /\ Fits /\ ~session.closed /\ ~reader.failed /\ exit = "running" /\ TypeOK /\ Main \in Tasks
      /\ Stock \in TaskRecs /\ task \in [Tasks -> TaskRecs] /\ Stock.pc \in Waits \cup {"ready"}
      /\ session.parked \in Seq(Frames) /\ seen \in Seq(Frames) /\ events \in Seq(Frames)
      /\ Inbound \in Seq(Frames) /\ Outbound \in Seq(Frames)
      /\ Stock.pc # "reading" => reader.pending = None
  BY HealthyIs
<1>2. /\ reader \in Readers /\ reader.pending \in Tasks \cup {None}
  BY <1>1 DEF TypeOK, Readers
<1>3. /\ all \in Seq(Frames) /\ rest \in Seq(Frames) /\ all # <<>>
      /\ Head(all) = Inbound[1] /\ Head(all) \in Frames
      /\ all \o rest = Inbound /\ Tail(all) \o rest = Tail(Inbound) /\ Inbound # <<>>
  BY <1>1, Arrived
<1>4. /\ toApp' = rest /\ UNCHANGED <<session, sending, toHost, exit, seen, host, events>>
      /\ \/ /\ reader.pending = None /\ reader' = [reader EXCEPT !.unread = all] /\ task' = task
         \/ /\ reader.pending # None
            /\ reader' = [reader EXCEPT !.pending = None, !.unread = Tail(all)]
            /\ task' = [task EXCEPT ![reader.pending].pc = "got",
                                    ![reader.pending].frame = Head(all)]
  BY DEF Push, hostVars
<1>5. Outbound' = Outbound
  BY <1>4 DEF Outbound
<1> HIDE DEF all, rest
<1>6. CASE reader.pending = None
  <2>1. reader'.unread = all /\ reader'.failed = reader.failed /\ task' = task
    BY <1>2, <1>4, <1>6 DEF Readers
  <2>2. Inbound' = Inbound
    BY <1>3, <1>4, <2>1 DEF Inbound
  <2>3. Fits'
    BY <1>1, <1>4, <1>5, <2>1, <2>2 DEF Fits, Stock
  <2> QED
    BY <1>1, <1>4, <2>1, <2>3, KeepsHealth DEF Stock
<1>7. CASE reader.pending # None
  <2>1. reader.pending = Main /\ Stock.pc = "reading"
    BY <1>1, <1>2, <1>7
  <2> DEFINE r == [Stock EXCEPT !.pc = "got", !.frame = Head(all)]
  <2>2. /\ r \in TaskRecs /\ r.pc = "got" /\ r.frame = Head(all) /\ r.doing = Stock.doing
        /\ r.corr = Stock.corr /\ r.call = Stock.call
    BY <1>1, <1>3 DEF TaskRecs, Waits
  <2>3. task'[Main] = r
    <3>1. task' = [task EXCEPT ![Main].pc = "got", ![Main].frame = Head(all)]
      BY <1>4, <1>7, <2>1
    <3> QED
      BY <1>1, <3>1 DEF Stock
  <2> HIDE DEF r
  <2>4. /\ reader'.unread = Tail(all) /\ reader'.failed = reader.failed
    BY <1>2, <1>4, <1>7 DEF Readers
  <2>5. Inbound' = Tail(Inbound)
    BY <1>3, <1>4, <2>4 DEF Inbound
  <2>6. Head(Inbound) = Head(all)
    BY <1>1, <1>3, Shrunk
  <2>7. Stock.doing # "echo" => session.parked = <<>>
    BY <1>1, <2>1 DEF Fits, Fit, Rested
  <2>8. Fit(r, seen, session.parked, session.connected, Tail(Inbound), Outbound, events, host)
    BY <1>1, <1>3, <2>1, <2>2, <2>6, <2>7, Delivered DEF Fits
  <2>9. Fits'
    BY <1>4, <1>5, <2>3, <2>5, <2>8 DEF Fits, Stock
  <2> QED
    BY <1>1, <1>4, <2>2, <2>3, <2>4, <2>9, KeepsHealth DEF Waits
<1> QED
  BY <1>6, <1>7

(* After a fault nothing is claimed of a process that runs.                       *)
LEMMA FaultFits ==
  ASSUME Tasks = {Main}, IInv, fault', exit' = "running" => task'[Main].pc \notin {"done", "failed"}
  PROVE  SInv'
BY DEF SInv, Healthy, NoFalseAlarm, Stock

LEMMA BreakFits ==
  ASSUME Tasks = {Main}, IInv, SInv, exit = "running",
         (\E t \in Tasks : Timeout(t)) \/ SocketCloses
  PROVE  SInv'
<1>1. /\ Stock.pc \notin {"done", "failed"} /\ task \in [Tasks -> TaskRecs] /\ Main \in Tasks /\ TypeOK
  BY LinkAssumption DEF SInv, IInv, TypeOK
<1>2. CASE \E t \in Tasks : Timeout(t)
  <2>1. task' = [task EXCEPT ![Main].pc = "rejected"] /\ fault' /\ Main \in Tasks
    BY <1>1, <1>2 DEF Timeout
  <2>2. task'[Main].pc = "rejected"
    BY <1>1, <2>1 DEF TaskRecs
  <2> QED
    BY <2>1, <2>2, FaultFits
<1>3. CASE SocketCloses
  <2>1. task' = Released /\ fault'
    BY <1>3 DEF SocketCloses
  <2>2. Released[Main] = IF task[Main].pc \in {"reading", "writing"}
                         THEN [task[Main] EXCEPT !.pc = "rejected"] ELSE task[Main]
    BY <1>1 DEF Released
  <2>3. [task[Main] EXCEPT !.pc = "rejected"].pc = "rejected"
    BY <1>1 DEF TaskRecs
  <2>4. task'[Main].pc \notin {"done", "failed"}
    BY <1>1, <2>1, <2>2, <2>3 DEF Stock
  <2> QED
    BY <2>1, <2>4, FaultFits
<1> QED
  BY <1>2, <1>3

LEMMA HostFits == ASSUME Tasks = {Main}, IInv, SInv, Healthy, Host PROVE SInv'
<1>1. /\ Fits /\ ~session.closed /\ ~reader.failed /\ exit = "running" /\ TypeOK /\ Main \in Tasks
      /\ Stock \in TaskRecs /\ Stock.pc \in Waits \cup {"ready"} /\ Stock.pc = task[Main].pc
      /\ session.parked \in Seq(Frames) /\ seen \in Seq(Frames) /\ events \in Seq(Frames)
      /\ Inbound \in Seq(Frames) /\ Outbound \in Seq(Frames)
  BY HealthyIs
<1>2. UNCHANGED <<task, session, reader, sending, exit, seen>>
  BY DEF Host, HostHandles, HostAnnounces, HostPings, HostStrays, appVars
<1>3. host \in [hello : BOOLEAN, windows : {"none", "open", "closed"}, pings : Nat, quit : BOOLEAN]
  BY <1>1 DEF TypeOK
<1>4. ASSUME fault' PROVE SInv'
  BY <1>1, <1>2, <1>4, FaultFits DEF Waits
<1>5. ASSUME NEW a, NEW b, NEW ev, NEW g, Inbound' = a, Outbound' = b, events' = ev, host' = g,
             Fit(Stock, seen, session.parked, session.connected, a, b, ev, g)
      PROVE  SInv'
  <2>1. Fits'
    BY <1>2, <1>5 DEF Fits, Stock
  <2> QED
    BY <1>1, <1>2, <2>1, KeepsHealth
<1>6. CASE HostHandles
  <2> DEFINE f == Head(toHost)
  <2>1. toHost # <<>> /\ toHost' = Tail(toHost) /\ events' = events
    BY <1>6 DEF HostHandles
  <2>2. Outbound' = Tail(Outbound) /\ Outbound # <<>> /\ Head(Outbound) = f
    BY <1>1, <1>2, <2>1, OutHandled
  <2>3. CASE IsEvent(f)
    <3>1. host' = host /\ toApp' = toApp
      BY <1>6, <2>3 DEF HostHandles, IsEvent
    <3>2. Inbound' = Inbound
      BY <1>2, <3>1 DEF Inbound
    <3>3. Fit(Stock, seen, session.parked, session.connected, Inbound, Tail(Outbound), events, host)
      BY <1>1, <2>2, <2>3, Hears DEF Fits
    <3> QED
      BY <1>5, <2>1, <2>2, <3>1, <3>2, <3>3
  <2>4. ASSUME NEW g, ~IsEvent(f), host' = g, g.windows = host.windows,
               g.hello = (host.hello \/ Stock.doing = "hello"), Says(Answer(Stock))
        PROVE  SInv'
    <3>1. Inbound' = Append(Inbound, Answer(Stock))
      BY <1>1, <1>2, <2>4, AskTypes, InSaid
    <3>2. Fit(Stock, seen, session.parked, session.connected, Append(Inbound, Answer(Stock)),
              Tail(Outbound), events, g)
      BY <1>1, <2>2, <2>4, Answers DEF Fits
    <3> QED
      BY <1>5, <2>1, <2>2, <2>4, <3>1, <3>2
  <2>5. ~IsEvent(f) => f = Ask(Stock) /\ Stock.doing \in {"hello", "echo", "quit"}
    <3>1. host.windows = host.windows
      OBVIOUS
    <3> DEFINE g == [host EXCEPT !.hello = (host.hello \/ Stock.doing = "hello")]
    <3>2. g.windows = host.windows /\ g.hello = (host.hello \/ Stock.doing = "hello")
      BY <1>3
    <3> HIDE DEF g
    <3> QED
      BY <1>1, <2>2, <3>2, Answers DEF Fits
  <2>6. CASE ~IsEvent(f) /\ Stock.doing = "hello"
    <3>1. f.kind = "HELLO" /\ Answer(Stock) = HelloFrame
      BY <2>5, <2>6 DEF Ask, Answer, HelloFrame, Frame
    <3>2. Says(HelloFrame) /\ host' = [host EXCEPT !.hello = TRUE]
      BY <1>6, <3>1 DEF HostHandles
    <3>3. host'.windows = host.windows /\ host'.hello = (host.hello \/ Stock.doing = "hello")
      BY <1>3, <2>6, <3>2
    <3> QED
      BY <2>4, <2>6, <3>1, <3>2, <3>3
  <2>7. CASE ~IsEvent(f) /\ Stock.doing = "echo"
    <3>1. /\ f.kind = "CALL" /\ f.channel = "echo"
          /\ Answer(Stock) = Frame("REPLY", "echo", f.corr, "echo", f.call)
      BY <2>5, <2>7 DEF Ask, Answer, Frame
    <3>2. Says(Frame("REPLY", "echo", f.corr, "echo", f.call)) /\ host' = host
      BY <1>6, <3>1 DEF HostHandles
    <3>3. host.hello
      BY <1>1, <2>7 DEF Fits, Fit, Greeted
    <3>4. Says(Answer(Stock)) /\ host.hello = (host.hello \/ Stock.doing = "hello")
      BY <1>3, <3>1, <3>2, <3>3
    <3> QED
      BY <2>4, <2>7, <3>2, <3>4
  <2>8. CASE ~IsEvent(f) /\ Stock.doing = "quit"
    <3>1. /\ f.kind = "CALL" /\ f.channel = "lifecycle"
          /\ Answer(Stock) = Frame("REPLY", "lifecycle", f.corr, "quit", NoCall)
      BY <2>5, <2>8 DEF Ask, Answer, Frame
    <3>2. \/ /\ Says(Frame("REPLY", "lifecycle", f.corr, "quit", NoCall))
             /\ host' = [host EXCEPT !.quit = TRUE]
          \/ fault' = TRUE
      BY <1>6, <3>1 DEF HostHandles
    <3>3. host.hello
      BY <1>1, <2>8 DEF Fits, Fit, Greeted
    <3>4. /\ [host EXCEPT !.quit = TRUE].windows = host.windows
          /\ [host EXCEPT !.quit = TRUE].hello = (host.hello \/ Stock.doing = "hello")
      BY <1>3, <3>3
    <3> QED
      BY <1>4, <2>4, <2>8, <3>1, <3>2, <3>4
  <2> QED
    BY <2>3, <2>5, <2>6, <2>7, <2>8
<1>7. ASSUME NEW f \in Frames, NEW g, Says(f), toHost' = toHost, events' = Append(events, f),
             host' = g, g.hello, host.hello, host.windows # "closed",
             \/ f = EventFrame("ready") \/ f = PingFrame(f.corr)
             \/ f = EventFrame("last-window-closed") /\ g.windows = "closed"
      PROVE  SInv'
  <2>1. Inbound' = Append(Inbound, f) /\ Outbound' = Outbound
    BY <1>1, <1>2, <1>7, InSaid DEF Outbound
  <2>2. Fit(Stock, seen, session.parked, session.connected, Append(Inbound, f), Outbound,
            Append(events, f), g)
    BY <1>1, <1>7, Announces DEF Fits
  <2> QED
    BY <1>5, <1>7, <2>1, <2>2
<1>8. CASE HostAnnounces
  <2>1. EventFrame("ready") \in Frames /\ EventFrame("last-window-closed") \in Frames
    BY FrameTypes DEF EventFrame, Kinds, Channels, Bodies
  <2>2. host.hello /\ toHost' = toHost
    BY <1>8 DEF HostAnnounces
  <2>3. CASE /\ host.windows = "none" /\ host' = [host EXCEPT !.windows = "open"]
             /\ Says(EventFrame("ready")) /\ events' = Append(events, EventFrame("ready"))
    <3>1. host'.hello
      BY <1>3, <2>2, <2>3
    <3> QED
      BY <1>7, <2>1, <2>2, <2>3, <3>1
  <2>4. CASE /\ host.windows = "open" /\ host' = [host EXCEPT !.windows = "closed"]
             /\ Says(EventFrame("last-window-closed"))
             /\ events' = Append(events, EventFrame("last-window-closed"))
    <3>1. host'.hello /\ host'.windows = "closed"
      BY <1>3, <2>2, <2>4
    <3> QED
      BY <1>7, <2>1, <2>2, <2>4, <3>1
  <2> QED
    BY <1>8, <2>3, <2>4 DEF HostAnnounces
<1>9. CASE HostPings
  <2> DEFINE f == PingFrame(host.pings + 1)
  <2>1. /\ host.hello /\ host' = [host EXCEPT !.pings = @ + 1] /\ Says(f) /\ toHost' = toHost
        /\ events' = Append(events, f) /\ fault' = (fault \/ host.windows = "closed")
    BY <1>9 DEF HostPings
  <2>2. f \in Frames /\ f = PingFrame(f.corr)
    <3>1. host.pings + 1 \in Nat
      BY <1>3
    <3> QED
      BY <3>1, FrameTypes DEF PingFrame, Frame
  <2>3. host'.hello
    BY <1>3, <2>1
  <2> HIDE DEF f
  <2> QED
    BY <1>4, <1>7, <2>1, <2>2, <2>3
<1>10. CASE HostStrays
  BY <1>4, <1>10 DEF HostStrays
<1> QED
  BY <1>6, <1>8, <1>9, <1>10 DEF Host
(* A task that has not ended ends only with the process.                          *)
LEMMA AppLives ==
  ASSUME Tasks = {Main}, IInv, App, exit' = "running", Stock.pc \notin {"done", "failed"}
  PROVE  task'[Main].pc \notin {"done", "failed"}
<1>1. /\ TypeOK /\ Main \in Tasks /\ Stock \in TaskRecs /\ task \in [Tasks -> TaskRecs]
      /\ session.nextCorr \in Nat /\ CallId(Main) \in Calls /\ Stock.frame \in Frames
  <2>1. /\ TypeOK /\ Main \in Tasks /\ Stock \in TaskRecs /\ task \in [Tasks -> TaskRecs]
        /\ session \in Sessions
    BY LinkAssumption DEF IInv, TypeOK, Sessions, Stock
  <2>2. session.nextCorr \in Corrs
    BY <2>1 DEF Sessions
  <2>3. session.nextCorr \in Nat
    BY <2>2, LinkAssumption DEF Corrs
  <2>4. CallId(Main) \in Calls
    BY <2>1, RecTypes
  <2> QED
    BY <2>1, <2>3, <2>4 DEF TaskRecs
<1>2. ASSUME NEW m \in TaskRecs, NEW f, WriteFrame(Main, m, f)
      PROVE  task'[Main].pc \notin {"done", "failed"}
  <2>1. PICK pc \in {"rejected", "writing"} : task' = [task EXCEPT ![Main] = [m EXCEPT !.pc = pc]]
    BY <1>2 DEF WriteFrame
  <2> QED
    BY <1>1, <2>1 DEF TaskRecs
<1>3. ASSUME NEW m \in TaskRecs, Receive(Main, m) \/ ReadFrame(Main, m)
      PROVE  task'[Main].pc \notin {"done", "failed"}
  <2>1. PICK r \in TaskRecs : /\ task' = [task EXCEPT ![Main] = r]
                              /\ r.pc \in {"rejected", "reading", "got"}
    BY <1>1, <1>3, ReceiveTask, ReadFrameTask
  <2> QED
    BY <1>1, <2>1
<1>4. ASSUME NEW pc \in {"rejected", "threw", "ready"}, task' = [task EXCEPT ![Main].pc = pc]
      PROVE  task'[Main].pc \notin {"done", "failed"}
  BY <1>1, <1>4 DEF TaskRecs
<1>5. CASE Connect
  BY <1>1, <1>2, <1>5 DEF Connect, Stock
<1>6. CASE HelloAnswered
  <2>1. CASE task' = [task EXCEPT ![Main].pc = "ready", ![Main].doing = "events"]
    BY <1>1, <2>1 DEF TaskRecs
  <2> QED
    BY <1>4, <1>6, <2>1 DEF HelloAnswered
<1>7. CASE BeginEcho(Main)
  <2> DEFINE m == [Stock EXCEPT !.doing = "echo", !.corr = session.nextCorr, !.call = CallId(Main)]
  <2>1. m \in TaskRecs
    BY <1>1 DEF TaskRecs
  <2>2. \/ task' = [task EXCEPT ![Main].pc = "threw"]
        \/ WriteFrame(Main, m, Frame("CALL", "echo", session.nextCorr, "echo", CallId(Main)))
    BY <1>7 DEF BeginEcho, Stock
  <2> HIDE DEF m
  <2> QED
    BY <1>2, <1>4, <2>1, <2>2
<1>8. CASE BeginLifecycle(Main) \/ AfterWrite(Main)
  <2>1. \A d \in {"events", Stock.doing} : [Stock EXCEPT !.doing = d] \in TaskRecs
    BY <1>1 DEF TaskRecs
  <2>2. \E d \in {"events", Stock.doing} : Receive(Main, [Stock EXCEPT !.doing = d])
    BY <1>8 DEF BeginLifecycle, AfterWrite, Stock
  <2> QED
    BY <1>3, <2>1, <2>2
<1>9. CASE Unwanted(Main)
  <2>1. task' = [task EXCEPT ![Main].pc = "rejected"] \/ ReadFrame(Main, Stock)
    BY <1>9 DEF Unwanted, Stock
  <2> QED
    BY <1>1, <1>3, <1>4, <2>1
<1>10. CASE EchoAnswered(Main) \/ QuitAnswered(Main)
  <2>1. CASE task' = [task EXCEPT ![Main].pc = "ready", ![Main].todo = Tail(@)]
    BY <1>1, <2>1 DEF TaskRecs
  <2>2. \/ task' = [task EXCEPT ![Main].pc = "threw"]
        \/ task' = [task EXCEPT ![Main].pc = "ready", ![Main].todo = Tail(@)]
    BY <1>10 DEF EchoAnswered, QuitAnswered, Threw, NextOp
  <2> QED
    BY <1>4, <2>1, <2>2
<1>11. CASE TakeEvent(Main)
  <2>1. /\ [Stock EXCEPT !.doing = "pong"] \in TaskRecs
        /\ [Stock EXCEPT !.doing = "quit", !.corr = session.nextCorr] \in TaskRecs
    BY <1>1 DEF TaskRecs
  <2>2. \/ WriteFrame(Main, [Stock EXCEPT !.doing = "pong"], Stock.frame)
        \/ Receive(Main, Stock)
        \/ WriteFrame(Main, [Stock EXCEPT !.doing = "quit", !.corr = session.nextCorr],
                      Frame("CALL", "lifecycle", session.nextCorr, "quit", NoCall))
        \/ task' = [task EXCEPT ![Main].pc = "threw"]
    BY <1>11 DEF TakeEvent, Threw, Stock
  <2> QED
    BY <1>1, <1>2, <1>3, <1>4, <2>1, <2>2
<1>12. ~Finish(Main) /\ ~Fails(Main)
  BY DEF Finish, Fails
<1> QED
  BY <1>5, <1>6, <1>7, <1>8, <1>9, <1>10, <1>11, <1>12 DEF App

LEMMA TransportLives ==
  ASSUME Tasks = {Main}, IInv, Delivery, Stock.pc \notin {"done", "failed"}
  PROVE  task'[Main].pc \notin {"done", "failed"}
<1>1. /\ Main \in Tasks /\ task \in [Tasks -> TaskRecs] /\ reader.pending \in Tasks \cup {None}
      /\ sending \in Seq(Writes)
  BY LinkAssumption DEF IInv, TypeOK
<1>2. \A f : /\ [task EXCEPT ![Main].pc = "written"][Main].pc = "written"
             /\ [task EXCEPT ![Main].pc = "got", ![Main].frame = f][Main].pc = "got"
  BY <1>1 DEF TaskRecs
<1>3. CASE Flush
  <2>1. sending # <<>> => Head(sending) \in Writes
    BY <1>1
  <2>2. task' = [task EXCEPT ![Main].pc = "written"]
    BY <1>3, <2>1 DEF Flush, Writes
  <2> QED
    BY <1>2, <2>2
<1>4. CASE \E n \in 1..Len(toApp) : Push(n)
  <2>1. \/ task' = task
        \/ \E f : task' = [task EXCEPT ![Main].pc = "got", ![Main].frame = f]
    BY <1>1, <1>4 DEF Push
  <2> QED
    BY <1>2, <2>1 DEF Stock
<1> QED
  BY <1>3, <1>4 DEF Delivery

(* Once something has gone wrong, or the process has exited, it stays so.         *)
LEMMA IllStays == ASSUME Tasks = {Main}, IInv, SInv, ~Healthy, Next PROVE SInv'
<1>1. /\ events \in Seq(Frames) /\ TypeOK /\ Main \in Tasks /\ sending \in Seq(Writes)
      /\ host.pings \in Nat
  BY LinkAssumption DEF IInv, TypeOK
<1>2. Stock.pc \in {"done", "failed"} => exit # "running"
  BY DEF SInv
<1>3. fault => fault'
  BY DEF Next, App, Delivery, Deadline, Host, Connect, HelloAnswered, BeginEcho, BeginLifecycle,
         AfterWrite, Unwanted, EchoAnswered, TakeEvent, QuitAnswered, Finish, Fails, Flush, Push,
         Timeout, SocketCloses, HostHandles, HostAnnounces, HostPings, HostStrays, hostVars
<1>4. CASE Host
  <2>1. task' = task /\ exit' = exit
    BY <1>4 DEF Host, HostHandles, HostAnnounces, HostPings, HostStrays, appVars
  <2>2. Len(events') >= Len(events) /\ Len(events) \in Nat
    <3>1. \/ events' = events \/ events' = Append(events, EventFrame("ready"))
          \/ events' = Append(events, EventFrame("last-window-closed"))
          \/ events' = Append(events, PingFrame(host.pings + 1))
      BY <1>4 DEF Host, HostHandles, HostAnnounces, HostPings, HostStrays
    <3>2. /\ EventFrame("ready") \in Frames /\ EventFrame("last-window-closed") \in Frames
          /\ PingFrame(host.pings + 1) \in Frames
      BY <1>1, FrameTypes
    <3>3. \A f \in Frames : Len(Append(events, f)) = Len(events) + 1 /\ Len(events) \in Nat
      BY <1>1, Grown
    <3> QED
      BY <1>1, <3>1, <3>2, <3>3
  <2>3. NoFalseAlarm'
    <3>1. MAX_PARKED_FRAMES \in Nat /\ Len(events') \in Nat
      BY <1>1, <2>2, NextInv, <1>4, LinkAssumption DEF Next, IInv, TypeOK
    <3> QED
      BY <1>3, <2>1, <2>2, <3>1 DEF SInv, NoFalseAlarm
  <2>4. ~Healthy'
    BY <1>3, <2>1 DEF Healthy, Stock
  <2> QED
    BY <1>2, <2>1, <2>3, <2>4 DEF SInv, Stock
<1>5. CASE exit = "running" /\ fault /\ (App \/ Delivery)
  <2>1. exit' = "running" => task'[Main].pc \notin {"done", "failed"}
    BY <1>2, <1>5, AppLives, TransportLives
  <2> QED
    BY <1>3, <1>5, <2>1, FaultFits
<1>6. CASE exit = "running" /\ Stock.pc \in {"rejected", "threw"} /\ (App \/ Delivery)
  <2>1. Microtask
    BY <1>1, <1>6 DEF Microtask, Stock
  <2>2. ~Delivery
    <3>1. sending # <<>> => Head(sending).by = Main
      <4>1. sending # <<>> => Head(sending) \in Writes
        BY <1>1
      <4> QED
        BY <4>1 DEF Writes
    <3> QED
      BY <1>6, <2>1, <3>1 DEF Delivery, Flush, Push, Stock
  <2>3. Fails(Main)
    BY <1>6, <2>2 DEF App, Stock, Connect, HelloAnswered, BeginEcho, BeginLifecycle, AfterWrite,
         Unwanted, EchoAnswered, TakeEvent, QuitAnswered, Finish, Wanted, Starts
  <2>4. exit' = "1" /\ events' = events /\ fault' = fault
    BY <2>3 DEF Fails, hostVars
  <2>5. fault \/ Len(events) > MAX_PARKED_FRAMES
    BY <1>1, <1>6 DEF SInv, NoFalseAlarm, Stock
  <2> QED
    BY <2>4, <2>5 DEF SInv, Healthy, NoFalseAlarm
<1>7. exit # "running" => Host
  BY DEF Next, App, Delivery, Deadline
<1>8. CASE exit = "running" /\ (Deadline \/ SocketCloses)
  BY <1>8, BreakFits DEF Deadline
<1> QED
  BY <1>4, <1>5, <1>6, <1>7, <1>8 DEF Next, Healthy

LEMMA NextFits == Tasks = {Main} /\ IInv /\ SInv /\ [Next]_vars => SInv'
<1> SUFFICES ASSUME Tasks = {Main}, IInv, SInv, [Next]_vars PROVE SInv'
  OBVIOUS
<1>1. CASE Next /\ Healthy
  BY <1>1, AppFits, FlushFits, PushFits, HostFits, BreakFits
     DEF Next, Delivery, Deadline, Healthy
<1>2. CASE Next /\ ~Healthy
  BY <1>2, IllStays
<1>3. CASE UNCHANGED vars
  BY <1>3 DEF vars, SInv, Healthy, Stock, Inbound, Outbound, NoFalseAlarm
<1> QED
  BY <1>1, <1>2, <1>3

LEMMA InitFits == Init => SInv
<1> SUFFICES ASSUME Init PROVE SInv
  OBVIOUS
<1>1. /\ Stock.pc = "ready" /\ Stock.doing = "hello" /\ Stock.frame = NoFrame
      /\ \A t \in Tasks : task[t].pc = "ready"
      /\ ~session.closed /\ ~session.connected /\ session.parked = <<>> /\ ~reader.failed
      /\ events = <<>> /\ seen = <<>> /\ ~host.hello
  BY LinkAssumption DEF Init, Stock
<1>2. Inbound = <<>> /\ Outbound = <<>>
  BY DEF Init, Inbound, Outbound, Queued
<1>3. /\ Gone(Stock, <<>>, <<>>) = <<>>
  BY <1>1 DEF Gone, Hand
<1>4. <<>> \in Seq(Frames) /\ Len(<<>>) = 0 /\ DOMAIN <<>> = {}
  OBVIOUS
<1>5. Rank(<<>>, 0) = 0
  BY <1>4, RankNat
<1>6. InOrder(<<>>, <<>>, <<>>) /\ Announced(<<>>, host) /\ Quiet(<<>>)
  BY <1>4, <1>5 DEF InOrder, Announced, Quiet
<1>7. Exchange(Stock, <<>>, <<>>)
  BY <1>1, <1>6 DEF Exchange, Asks, Takes, Waits
<1>8. /\ Greeted(Stock, <<>>, <<>>, session.connected, <<>>, host)
      /\ Rested(Stock, <<>>) /\ Quitting(Stock, <<>>, <<>>, host)
  BY <1>1 DEF Greeted, Rested, Quitting
<1>9. Fits
  BY <1>1, <1>2, <1>3, <1>6, <1>7, <1>8 DEF Fits, Fit
<1> QED
  BY <1>1, <1>9 DEF SInv, Fits, NoFalseAlarm

LEMMA StockInvariant == ASSUME Tasks = {Main} PROVE Spec => [](IInv /\ SInv)
<1>1. Init => IInv /\ SInv
  BY InitInv, InitFits
<1>2. IInv /\ SInv /\ [Next]_vars => (IInv /\ SInv)'
  BY NextInv, NextFits
<1> QED
  BY <1>1, <1>2, PTL DEF Spec

(* With a single task, whatever its program, its host's strays and the parking    *)
(* budget: while nothing has gone wrong, no event is lost, doubled or overtaken,  *)
(* though the app may set events aside while it waits for an echo.                *)
THEOREM EventsArriveInOrder == ASSUME Tasks = {Main} PROVE Spec => []EventsInOrder
<1>1. IInv /\ SInv => EventsInOrder
  <2> SUFFICES ASSUME SInv, ~fault, exit = "running", task[Main].pc \notin {"rejected", "threw"}
               PROVE  InOrder(Reached, Inbound, events)
    BY DEF EventsInOrder, InOrder, Inbound
  <2>1. Reached = Gone(Stock, seen, session.parked)
    BY DEF Reached, Gone, Hand, Stock
  <2> QED
    BY <2>1 DEF SInv, Healthy, Fit, Stock
<1> QED
  BY <1>1, StockInvariant, PTL

(* That single task gives up on its host only after a fault, or after more events *)
(* than it may set aside.                                                         *)
THEOREM GoodHostIsServed == ASSUME Tasks = {Main} PROVE Spec => []NoFalseAlarm
<1>1. SInv => NoFalseAlarm
  BY DEF SInv
<1> QED
  BY <1>1, StockInvariant, PTL
================================================================================
