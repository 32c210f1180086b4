------------------------------- MODULE LinkWriter -------------------------------
(* The writing half of an app-link: AppLinkSession.writeFrame over the WriteQueue *)
(* and DrainSignal of kipc-transport.ts. Frames of concurrent callers go to one   *)
(* socket that takes them in pieces, refuses bytes under backpressure, and may    *)
(* close; a caller's deadline runs from its call, a frame's own from its first    *)
(* write, and close() has to release whoever still waits.                         *)
(*                                                                                *)
(* Promise reactions (microtasks) are separate steps and run before the next      *)
(* timer or socket callback. The socket is external: it accepts any part of what  *)
(* it is offered, and nothing once it is closed.                                  *)
EXTENDS Integers, Sequences

CONSTANTS Calls,                 \* the writeFrame calls of a run
          Size,                  \* bytes of each call's frame, header included
          TooLarge,              \* the calls whose payload exceeds MAX_FRAME_LEN
          APP_LINK_IO_DEADLINE,
          None,                  \* no frame is being written
          LastCall,              \* bound: no call after this time
          MaxTime                \* bound: the clock stops here

ASSUME WriterAssumption ==
  /\ Size \in [Calls -> Nat \ {0}]
  /\ TooLarge \subseteq Calls
  /\ APP_LINK_IO_DEADLINE \in Nat \ {0}
  /\ None \notin Calls
  /\ LastCall \in Nat /\ MaxTime \in Nat

VARIABLES
  now,         \* performance.now()
  outcome,     \* each caller's promise; "rejecting" until its catch has run
  dueBy,       \* when each caller's withIoDeadline expires
  admitted,    \* the calls whose frames were queued, in order
  chain,       \* queued frames whose turn has not come
  current,     \* the frame writeOneFrame is writing
  offset,      \* its bytes the socket has accepted
  deadlineAt,  \* its own deadline
  phase,       \* "idle"; "waiting" on the drain signal; "woken" by it
  waiters,     \* DrainSignal: calls parked on wait(), timed-out ones included
  poison,      \* WriteQueue: a serialized write has failed
  closed,      \* AppLinkSession: close() has run
  open,        \* the socket still accepts bytes
  wire         \* bytes accepted so far, run by run: [call, n]

vars == <<now, outcome, dueBy, admitted, chain, current, offset, deadlineAt,
          phase, waiters, poison, closed, open, wire>>

Init ==
  /\ now = 0
  /\ outcome = [c \in Calls |-> "new"]
  /\ dueBy = [c \in Calls |-> 0]
  /\ admitted = <<>> /\ chain = <<>>
  /\ current = None /\ offset = 0 /\ deadlineAt = 0 /\ phase = "idle"
  /\ waiters = {}
  /\ poison = FALSE /\ closed = FALSE /\ open = TRUE
  /\ wire = <<>>

(* A promise reaction is ready: no timer or socket callback runs before it.      *)
Microtask == \/ phase = "woken"
             \/ current = None /\ chain # <<>>
             \/ \E c \in Calls : outcome[c] = "rejecting"

(* withIoDeadline's timer for time t is due.                                     *)
Expired_InSeconds(t) == now >= 1000 * t
Expired(t) == now >= t

(* The caller of c learns that its write failed, unless its deadline was first.  *)
Reject(c) == [outcome EXCEPT ![c] = IF @ = "pending" THEN "rejecting" ELSE @]

(* drain.fire(): the parked writer goes on, whatever woke it.                    *)
Fire == /\ phase' = IF current \in waiters THEN "woken" ELSE phase
        /\ waiters' = {}

(* close(): end the socket and wake the parked writer. Safe to call again.       *)
Close_NoWake == closed' = TRUE /\ open' = FALSE /\ UNCHANGED <<phase, waiters>>
Close == IF closed THEN UNCHANGED <<closed, open, phase, waiters>>
         ELSE closed' = TRUE /\ open' = FALSE /\ Fire
--------------------------------------------------------------------------------
(* AppLinkSession.writeFrame: refused on a closed session; an oversized payload  *)
(* or a poisoned queue rejects it; otherwise its frame takes its place in line.  *)
WriteFrame_PastPoison(c) ==
  /\ outcome[c] = "new"
  /\ now <= LastCall
  /\ IF closed \/ c \in TooLarge
     THEN /\ outcome' = [outcome EXCEPT ![c] = IF closed THEN "failed" ELSE "rejecting"]
          /\ UNCHANGED <<admitted, chain, dueBy>>
     ELSE /\ outcome' = [outcome EXCEPT ![c] = "pending"]
          /\ dueBy' = [dueBy EXCEPT ![c] = now + APP_LINK_IO_DEADLINE]
          /\ admitted' = Append(admitted, c)
          /\ chain' = Append(chain, c)
  /\ UNCHANGED <<now, current, offset, deadlineAt, phase, waiters, poison, closed, open, wire>>
WriteFrame(c) ==
  /\ outcome[c] = "new"
  /\ now <= LastCall
  /\ \/ /\ closed
        /\ outcome' = [outcome EXCEPT ![c] = "failed"]
        /\ UNCHANGED <<admitted, chain, dueBy>>
     \/ /\ ~closed /\ (c \in TooLarge \/ poison)
        /\ outcome' = [outcome EXCEPT ![c] = "rejecting"]
        /\ UNCHANGED <<admitted, chain, dueBy>>
     \/ /\ ~closed /\ c \notin TooLarge /\ ~poison
        /\ outcome' = [outcome EXCEPT ![c] = "pending"]
        /\ dueBy' = [dueBy EXCEPT ![c] = now + APP_LINK_IO_DEADLINE]
        /\ admitted' = Append(admitted, c)
        /\ chain' = Append(chain, c)
  /\ UNCHANGED <<now, current, offset, deadlineAt, phase, waiters, poison, closed, open, wire>>

(* The wire after the socket accepted k more bytes of c.                         *)
Extended(c, k) ==
  IF k = 0 THEN wire
  ELSE IF wire # <<>> /\ wire[Len(wire)].call = c
  THEN [wire EXCEPT ![Len(wire)].n = @ + k]
  ELSE Append(wire, [call |-> c, n |-> k])

(* The serialized write of c throws: the queue is poisoned, the caller rejected.  *)
(* (The queue's own catch runs a reaction or two after the throw, before the next *)
(* frame in line takes its turn.)                                                 *)
FailRun_NoPoison(c) ==
  /\ outcome' = Reject(c)
  /\ current' = None /\ offset' = 0 /\ phase' = "idle"
  /\ UNCHANGED <<poison, waiters, wire>>
FailRun(c) ==
  /\ poison' = TRUE
  /\ outcome' = Reject(c)
  /\ current' = None /\ offset' = 0 /\ phase' = "idle"
  /\ UNCHANGED <<waiters, wire>>

(* writeOneFrame from byte `off` of c on: the socket takes k more bytes at once, *)
(* then the frame is done, or the writer parks on the drain signal; a closed     *)
(* socket reports itself and fails the run.                                      *)
WriteFrom_FireAndForget(c, off) ==
  \E k \in 0..Size[c] - off :
    /\ open
    /\ wire' = Extended(c, k)
    /\ outcome' = [outcome EXCEPT ![c] = IF @ = "pending" THEN "ok" ELSE @]
    /\ current' = None /\ offset' = 0 /\ phase' = "idle"
    /\ UNCHANGED <<waiters, poison>>
WriteFrom(c, off) ==
  \/ ~open /\ FailRun(c)
  \/ \E k \in 0..Size[c] - off :
       /\ open
       /\ wire' = Extended(c, k)
       /\ IF off + k = Size[c]
          THEN /\ outcome' = [outcome EXCEPT ![c] = IF @ = "pending" THEN "ok" ELSE @]
               /\ current' = None /\ offset' = 0 /\ phase' = "idle"
               /\ UNCHANGED <<waiters, poison>>
          ELSE /\ current' = c /\ offset' = off + k /\ phase' = "waiting"
               /\ waiters' = waiters \cup {c}
               /\ UNCHANGED <<outcome, poison>>

(* The head of the chain takes its turn once the frame before it has settled; in *)
(* a poisoned queue it fails without a byte.                                     *)
BeginRun_Unserialized ==
  /\ chain # <<>>
  /\ ~poison
  /\ deadlineAt' = now + APP_LINK_IO_DEADLINE
  /\ WriteFrom(Head(chain), 0)
  /\ chain' = Tail(chain)
  /\ UNCHANGED <<now, dueBy, admitted, closed, open>>
BeginRun_SkipsPoisoned ==
  /\ current = None /\ chain # <<>>
  /\ deadlineAt' = IF poison THEN deadlineAt ELSE now + APP_LINK_IO_DEADLINE
  /\ IF poison THEN UNCHANGED <<outcome, current, offset, phase, poison, waiters, wire>>
     ELSE WriteFrom(Head(chain), 0)
  /\ chain' = Tail(chain)
  /\ UNCHANGED <<now, dueBy, admitted, closed, open>>
BeginRun ==
  /\ current = None /\ chain # <<>>
  /\ \/ poison /\ FailRun(Head(chain)) /\ UNCHANGED deadlineAt
     \/ /\ ~poison
        /\ deadlineAt' = now + APP_LINK_IO_DEADLINE
        /\ WriteFrom(Head(chain), 0)
  /\ chain' = Tail(chain)
  /\ UNCHANGED <<now, dueBy, admitted, closed, open>>

(* The parked writer goes on: out of time, or with another try at the socket.    *)
Resume ==
  /\ phase = "woken"
  /\ \/ now >= deadlineAt /\ FailRun(current)
     \/ now < deadlineAt /\ WriteFrom(current, offset)
  /\ UNCHANGED <<now, dueBy, admitted, chain, deadlineAt, closed, open>>

(* writeFrame's catch: a failed write closes the session.                        *)
SessionCatch(c) ==
  /\ outcome[c] = "rejecting"
  /\ outcome' = [outcome EXCEPT ![c] = "failed"]
  /\ Close
  /\ UNCHANGED <<now, dueBy, admitted, chain, current, offset, deadlineAt, poison, wire>>

(* The application closes the session on its own account.                        *)
AppClose ==
  /\ ~closed
  /\ Close
  /\ UNCHANGED <<now, outcome, dueBy, admitted, chain, current, offset, deadlineAt, poison, wire>>
--------------------------------------------------------------------------------
(* The socket's drain callback.                                                  *)
Drain ==
  /\ ~Microtask
  /\ open /\ waiters # {}
  /\ Fire
  /\ UNCHANGED <<now, outcome, dueBy, admitted, chain, current, offset, deadlineAt,
                 poison, closed, open, wire>>

(* The socket's close and error callbacks: they fire the drain signal too.       *)
SocketCloses ==
  /\ ~Microtask
  /\ open /\ open' = FALSE
  /\ Fire
  /\ UNCHANGED <<now, outcome, dueBy, admitted, chain, current, offset, deadlineAt,
                 poison, closed, wire>>

(* withIoDeadline around drain.wait(): the frame has run out of its own time. Its *)
(* waiter stays parked and will be woken for nothing.                             *)
WriteTimeout ==
  /\ ~Microtask
  /\ phase = "waiting" /\ Expired(deadlineAt)
  /\ FailRun(current)
  /\ UNCHANGED <<now, dueBy, admitted, chain, deadlineAt, closed, open>>

(* withIoDeadline around the whole call: the caller stops waiting, the write goes *)
(* on until close() reaches it.                                                   *)
CallerTimeout(c) ==
  /\ ~Microtask
  /\ outcome[c] = "pending" /\ Expired(dueBy[c])
  /\ outcome' = [outcome EXCEPT ![c] = "rejecting"]
  /\ UNCHANGED <<now, dueBy, admitted, chain, current, offset, deadlineAt, phase,
                 waiters, poison, closed, open, wire>>

Tick ==
  /\ ~Microtask
  /\ now < MaxTime /\ now' = now + 1
  /\ UNCHANGED <<outcome, dueBy, admitted, chain, current, offset, deadlineAt, phase,
                 waiters, poison, closed, open, wire>>

Reaction == BeginRun \/ Resume \/ \E c \in Calls : SessionCatch(c)
Timer == WriteTimeout \/ \E c \in Calls : CallerTimeout(c)
Next == \/ \E c \in Calls : WriteFrame(c)
        \/ AppClose
        \/ Reaction
        \/ Timer
        \/ Drain \/ SocketCloses \/ Tick

(* The engine runs ready reactions, and due timers and the clock are not held up *)
(* for good by socket callbacks. Neither the peer nor the application owes        *)
(* anything.                                                                     *)
Fairness == WF_vars(Reaction) /\ SF_vars(Timer) /\ SF_vars(Tick)
Spec == Init /\ [][Next]_vars /\ Fairness
--------------------------------------------------------------------------------
TypeOK ==
  /\ now \in 0..MaxTime
  /\ outcome \in [Calls -> {"new", "pending", "rejecting", "ok", "failed"}]
  /\ dueBy \in [Calls -> Nat]
  /\ admitted \in Seq(Calls) /\ chain \in Seq(Calls)
  /\ current \in Calls \cup {None}
  /\ offset \in Nat /\ deadlineAt \in Nat
  /\ phase \in {"idle", "waiting", "woken"}
  /\ phase = "idle" <=> current = None
  /\ current # None => offset < Size[current]
  /\ waiters \subseteq Calls
  /\ poison \in BOOLEAN /\ closed \in BOOLEAN /\ open \in BOOLEAN
  /\ wire \in Seq([call : Calls, n : Nat \ {0}])

(* What the peer reads is whole frames in the order they were admitted; only the *)
(* last may be cut short, so no two frames ever mix on the stream.               *)
WholeFramesInOrder ==
  /\ Len(wire) <= Len(admitted)
  /\ \A i \in 1..Len(wire) : wire[i].call = admitted[i]
  /\ \A i \in 1..Len(wire) - 1 : wire[i].n = Size[wire[i].call]

(* A caller told "written" has every byte of its frame on the stream, even when  *)
(* others failed around it.                                                      *)
ResolvedIsWritten ==
  \A c \in Calls : outcome[c] = "ok" =>
    \E i \in 1..Len(wire) : wire[i].call = c /\ wire[i].n = Size[c]

(* A frame cut short that nobody is writing any more means a poisoned queue:     *)
(* nothing may follow it.                                                        *)
Cut == wire # <<>> /\ wire[Len(wire)].n < Size[wire[Len(wire)].call]
TruncationPoisons == Cut => poison \/ current = wire[Len(wire)].call

(* Once the session is closed and its reactions have run, no write is parked on  *)
(* the drain signal and none is left in line.                                    *)
CloseReleasesWriters == closed /\ ~Microtask => current = None /\ chain = <<>>

(* One failed write answers every caller at once: those in line behind it do not *)
(* sit out their own deadlines.                                                  *)
PoisonSettlesAll == poison /\ ~Microtask => \A c \in Calls : outcome[c] # "pending"

(* Every caller gets an answer, although the peer never drains, and so does a    *)
(* caller whose frame waits behind another's.                                    *)
EveryCallSettles == \A c \in Calls : outcome[c] = "pending" ~> outcome[c] \in {"ok", "failed"}

(* LinkWriter is a FrameLine: what has been sent is what the peer can read in     *)
(* full, and a caller's promise, its catch included, is what it has been told.    *)
Whole == IF Cut THEN Len(wire) - 1 ELSE Len(wire)
Told(o) == CASE o = "pending" -> "waiting"
             [] o = "ok" -> "written"
             [] o = "new" -> "new"
             [] OTHER -> "failed"
Line == INSTANCE FrameLine WITH line <- SubSeq(admitted, Whole + 1, Len(admitted)),
                                sent <- [i \in 1..Whole |-> wire[i].call],
                                broken <- poison,
                                told <- [c \in Calls |-> Told(outcome[c])]
ImplementsLine == Line!Spec
================================================================================
