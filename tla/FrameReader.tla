------------------------------ MODULE FrameReader ------------------------------
(* The FrameReader of kipc-transport.ts: it buffers the socket's chunks, hands   *)
(* whole frames to at most one waiting readFrame(), and keeps one absolute       *)
(* deadline for a frame that has started to arrive.                              *)
(*                                                                               *)
(* Bytes are named by their offset in the peer's stream, so the chunk queue with *)
(* its head cursor is the interval consumed..received-1 and the chunk boundaries *)
(* inside it. The JavaScript turn is the atomic step: one action per socket      *)
(* callback, per readFrame() call and per timer callback. Time is a clock in     *)
(* units the deadline is counted in; a due timer may fire late, after other      *)
(* callbacks, as on a busy event loop.                                           *)
EXTENDS Integers, Sequences, FiniteSets

CONSTANTS HEADER_LEN,            \* bytes of a frame header
          MAX_FRAME_LEN,         \* payload cap of a frame
          MAX_PENDING_CHUNKS,    \* cap on unread fragments
          APP_LINK_IO_DEADLINE,  \* time a started frame has to finish
          Streams,               \* byte streams a peer may send (see FrameStream)
          Callers,               \* the places that call readFrame()
          None,                  \* no caller
          MaxChunk,              \* bound: bytes one data callback brings
          LastArrival,           \* bound: no data callback after this time
          MaxTime                \* bound: the clock stops here

ASSUME ReaderAssumption ==
  /\ HEADER_LEN \in Nat \ {0}
  /\ MAX_FRAME_LEN \in Nat
  /\ MAX_PENDING_CHUNKS \in Nat \ {0}
  /\ APP_LINK_IO_DEADLINE \in Nat \ {0}
  /\ MaxChunk \in Nat /\ LastArrival \in Nat /\ MaxTime \in Nat
  /\ None \notin Callers
  /\ \A s \in Streams : /\ s.size \in Nat
                        /\ \A p \in 0..s.size - 1 : s.header[p] \in Nat \cup {-1}

VARIABLES wire,    \* the peer's stream
          now,     \* performance.now()
          reader   \* the FrameReader object and the promises it has handed out

vars == <<wire, now, reader>>

NoTimer == -1
Bad == -1      \* decodeHeader throws
Errors == {"001", "002", "004", "006"}   \* KELD-IPC-*
NoError == "none"
NotHeld == -1  \* no byte of this offset is buffered
Offsets == 0..wire.size - 1

(* The frame that starts at offset p, as its header declares it.                 *)
PayloadLen(p) == wire.header[p]
FrameEnd(p)   == p + HEADER_LEN + PayloadLen(p)

Length(r) == r.received - r.consumed
PendingChunkCount(r) == Cardinality({e \in r.chunkEnds : e > r.consumed})

EmptyReader ==
  [received      |-> 0,         \* offset after the last byte pushed
   consumed      |-> 0,         \* offset of the first unread byte
   chunkEnds     |-> {},        \* where the unread chunks end
   arrival       |-> [p \in Offsets |-> NotHeld],  \* when the byte's chunk was pushed
   census        |-> 0,         \* first byte the deadline scan has not passed
   frameDeadline |-> NoTimer,   \* when the armed timer is due
   pending       |-> None,      \* the caller whose promise is unsettled
   closed        |-> FALSE,
   closeError    |-> NoError,
   call          |-> [c \in Callers |-> "idle"],   \* each caller's promise
   delivered     |-> <<>>]      \* frames resolved so far, with arrival spans

(* fail: drop everything, remember the error, reject the waiting read.           *)
Fail(r, err) ==
  [r EXCEPT !.frameDeadline = NoTimer, !.closed = TRUE, !.closeError = err,
            !.received = r.consumed, !.census = r.consumed,
            !.chunkEnds = {}, !.arrival = [p \in Offsets |-> NotHeld], !.pending = None,
            !.call = [c \in Callers |-> IF c = r.pending THEN "rejected" ELSE r.call[c]]]

(* The byte at offset q came the deadline or longer after the one at p.          *)
Overran_OffByOne(r, p, q) == r.arrival[q] - r.arrival[p] > APP_LINK_IO_DEADLINE
Overran(r, p, q) == r.arrival[q] - r.arrival[p] >= APP_LINK_IO_DEADLINE

(* What #tryResolve at the head, and the deadline scan at its cursor, find at p: *)
(* a frame still arriving, a complete one, or the error the reader fails with.   *)
Verdict(r, p) ==
  IF r.received - p < HEADER_LEN THEN "incomplete"
  ELSE IF Overran(r, p, p + HEADER_LEN - 1) THEN "006"
  ELSE IF PayloadLen(p) = Bad THEN "002"
  ELSE IF PayloadLen(p) > MAX_FRAME_LEN THEN "004"
  ELSE IF r.received < FrameEnd(p) THEN "incomplete"
  ELSE IF Overran(r, p, FrameEnd(p) - 1) THEN "006"
  ELSE "complete"

(* #consume of the head frame, header then payload: a cursor the consumed bytes  *)
(* overtake restarts at the new head.                                            *)
Consume(r, end) ==
  [r EXCEPT !.consumed = end,
            !.census = IF r.census < end THEN end ELSE r.census,
            !.chunkEnds = {e \in r.chunkEnds : e > end},
            !.arrival = [p \in Offsets |-> IF p < end THEN NotHeld ELSE r.arrival[p]]]

(* One deadline at a time, counted from the oldest byte the scan has not passed. *)
ArmAt(r, startedAt) ==
  [r EXCEPT !.frameDeadline =
     IF startedAt + APP_LINK_IO_DEADLINE > now THEN startedAt + APP_LINK_IO_DEADLINE ELSE now]

EnsureFrameDeadline_Renewed(r) == IF r.census >= r.received THEN r ELSE ArmAt(r, now)
EnsureFrameDeadline(r) ==
  IF r.census >= r.received \/ r.frameDeadline # NoTimer
  THEN r
  ELSE ArmAt(r, r.arrival[r.census])

(* The head frame goes to the waiting caller; the deadline starts over for what  *)
(* is left in the buffer.                                                        *)
Resolve_PayloadLeft(r) ==
  LET p == r.consumed
      frame == [at |-> p, len |-> PayloadLen(p), span |-> 0]
  IN [Consume(r, p + HEADER_LEN) EXCEPT !.pending = None, !.call[r.pending] = "resolved",
                                        !.delivered = Append(r.delivered, frame)]
Resolve(r) ==
  LET p     == r.consumed
      frame == [at |-> p, len |-> PayloadLen(p),
                span |-> r.arrival[FrameEnd(p) - 1] - r.arrival[p]]
      rest  == EnsureFrameDeadline([Consume(r, FrameEnd(p)) EXCEPT !.frameDeadline = NoTimer])
  IN [rest EXCEPT !.pending = None,
                  !.call[r.pending] = "resolved",
                  !.delivered = Append(r.delivered, frame)]

TryResolve(r) ==
  LET v == Verdict(r, r.consumed)
  IN IF r.pending = None \/ v = "incomplete" THEN r
     ELSE IF v = "complete" THEN Resolve(r)
     ELSE Fail(r, v)

(* The bounds on what an application that does not read may let pile up.         *)
FloodCheck_BytesOnly(r) ==
  IF ~r.closed /\ Length(r) > HEADER_LEN + MAX_FRAME_LEN THEN Fail(r, "004") ELSE r
FloodCheck(r) ==
  IF ~r.closed /\ (\/ Length(r) > HEADER_LEN + MAX_FRAME_LEN
                   \/ PendingChunkCount(r) > MAX_PENDING_CHUNKS)
  THEN Fail(r, "004")
  ELSE r

Buffered(r, n) ==
  [r EXCEPT !.received = r.received + n,
            !.chunkEnds = r.chunkEnds \cup {r.received + n},
            !.arrival = [p \in Offsets |-> IF p \in r.received..r.received + n - 1
                                          THEN now ELSE r.arrival[p]]]
--------------------------------------------------------------------------------
Init == /\ wire \in Streams
        /\ now = 0
        /\ reader = EmptyReader

(* The socket's data callback: push. A closed reader ignores the chunk.          *)
Push(n) ==
  /\ ~reader.closed
  /\ reader.received + n <= wire.size
  /\ now <= LastArrival
  /\ reader' = FloodCheck(TryResolve(EnsureFrameDeadline(Buffered(reader, n))))
  /\ UNCHANGED <<wire, now>>

(* readFrame(): refused on a closed reader and while another read waits.         *)
ReadFrame_Overwrites(c) ==
  /\ reader.call[c] # "waiting" /\ ~reader.closed
  /\ reader' = TryResolve([reader EXCEPT !.pending = c, !.call[c] = "waiting"])
  /\ UNCHANGED <<wire, now>>
ReadFrame_WaitsForPush(c) ==
  /\ reader.call[c] # "waiting" /\ ~reader.closed /\ reader.pending = None
  /\ reader' = [reader EXCEPT !.pending = c, !.call[c] = "waiting"]
  /\ UNCHANGED <<wire, now>>
ReadFrame(c) ==
  /\ reader.call[c] # "waiting"
  /\ reader' = IF reader.closed \/ reader.pending # None
               THEN [reader EXCEPT !.call[c] = "rejected"]
               ELSE TryResolve(EnsureFrameDeadline(
                      [reader EXCEPT !.pending = c, !.call[c] = "waiting"]))
  /\ UNCHANGED <<wire, now>>

(* Whole frames, one behind the other, lead from offset p to offset q.           *)
Leads(r, p, q) ==
  \E starts \in SUBSET (p..q) :
    /\ p \in starts /\ q \in starts
    /\ \A s \in starts \ {q} : Verdict(r, s) = "complete" /\ FrameEnd(s) \in starts

(* The deadline scan stops at the first frame from the cursor on that is not     *)
(* complete and punctual, or at the end of the buffer.                           *)
ScanStops(r, p) == /\ Leads(r, r.census, p)
                   /\ p < r.received => Verdict(r, p) # "complete"

(* What the scan found at p, once the complete frames before it are passed: the  *)
(* end of the buffer, an error, a frame that started later, or a late frame.     *)
AfterScan_NoRecheck(r, p) == IF p = r.received THEN r ELSE Fail(r, "006")
AfterScan_NoRearm(r, p) ==
  IF p = r.received \/ now < r.arrival[p] + APP_LINK_IO_DEADLINE THEN r ELSE Fail(r, "006")
AfterScan(r, p) ==
  IF p = r.received THEN r
  ELSE IF Verdict(r, p) \in Errors THEN Fail(r, Verdict(r, p))
  ELSE IF now < r.arrival[p] + APP_LINK_IO_DEADLINE THEN ArmAt(r, r.arrival[p])
  ELSE Fail(r, "006")

(* The timer callback. The scan leaves its cursor where it stopped.              *)
DeadlineFires ==
  /\ reader.frameDeadline # NoTimer
  /\ reader.frameDeadline <= now
  /\ \E p \in reader.census..reader.received :
       /\ ScanStops(reader, p)
       /\ reader' = AfterScan([reader EXCEPT !.frameDeadline = NoTimer, !.census = p], p)
  /\ UNCHANGED <<wire, now>>

(* The socket's close, error and connectError callbacks, and session close().    *)
SocketFails == reader' = Fail(reader, "001") /\ UNCHANGED <<wire, now>>

Tick == now < MaxTime /\ now' = now + 1 /\ UNCHANGED <<wire, reader>>

Next == \/ \E n \in 1..MaxChunk : Push(n)
        \/ \E c \in Callers : ReadFrame(c)
        \/ DeadlineFires
        \/ SocketFails
        \/ Tick

(* The event loop runs due timers and time passes; nobody has to send or read.   *)
Fairness == WF_vars(DeadlineFires) /\ WF_vars(Tick)
Spec == Init /\ [][Next]_vars /\ Fairness
--------------------------------------------------------------------------------
Readers ==
  [received : Nat, consumed : Nat, chunkEnds : SUBSET Nat,
   arrival : [Offsets -> Nat \cup {NotHeld}],
   census : Nat, frameDeadline : Nat \cup {NoTimer},
   pending : Callers \cup {None}, closed : BOOLEAN, closeError : Errors \cup {NoError},
   call : [Callers -> {"idle", "waiting", "resolved", "rejected"}],
   delivered : Seq([at : Nat, len : Nat, span : Nat])]

(* The reader is well-formed: the arrival times are those of the unread bytes,   *)
(* the scan cursor lies in the buffer, and a closed reader holds nothing.        *)
TypeOK ==
  /\ wire \in Streams
  /\ now \in 0..MaxTime
  /\ reader \in Readers
  /\ reader.consumed <= reader.census /\ reader.census <= reader.received
  /\ reader.received <= wire.size
  /\ \A p \in Offsets : /\ reader.arrival[p] <= now
                         /\ p \in reader.consumed..reader.received - 1
                              <=> reader.arrival[p] # NotHeld
  /\ reader.closed <=> reader.closeError # NoError

(* A frame whose bytes took the deadline or longer to arrive is never handed     *)
(* out, whether the timer ran late, the last chunk came before the timer, or     *)
(* nobody was reading when it completed (#tryResolve's arrival checks).          *)
NoLateFrame ==
  \A i \in 1..Len(reader.delivered) : reader.delivered[i].span < APP_LINK_IO_DEADLINE

(* The deadline is armed exactly while the buffer holds bytes the scan has not   *)
(* passed, and is due no later than their first byte demands: later chunks do    *)
(* not renew it, handing out a frame does not lose it, an idle reader has none.  *)
DeadlineArmed ==
  IF reader.census < reader.received
  THEN /\ reader.frameDeadline # NoTimer
       /\ \/ reader.frameDeadline <= reader.arrival[reader.census] + APP_LINK_IO_DEADLINE
          \/ reader.frameDeadline <= now
  ELSE reader.frameDeadline = NoTimer

(* Between callbacks the buffer is within one maximum frame and the fragment cap *)
(* even when the application does not read.                                      *)
BoundedBuffer == /\ Length(reader) <= HEADER_LEN + MAX_FRAME_LEN
                 /\ PendingChunkCount(reader) <= MAX_PENDING_CHUNKS

(* Every caller whose promise is unsettled is the one the reader will settle, an *)
(* overlapping readFrame() does not take its place; and it waits for bytes still *)
(* to come: a complete frame is handed out or refused in the very callback that  *)
(* brought its last byte, or in the readFrame() that found it.                   *)
PromptDelivery ==
  /\ \A c \in Callers : reader.call[c] = "waiting" <=> reader.pending = c
  /\ reader.pending # None => Verdict(reader, reader.consumed) = "incomplete"
--------------------------------------------------------------------------------
(* The starts of the unread frames, as far as their headers have arrived.        *)
FrameStarts(r) == {p \in r.consumed..r.received : Leads(r, r.consumed, p)}

(* The frame at p took, or by now has been taking, the deadline or longer.       *)
Overdue(r, p) ==
  /\ p < r.received
  /\ CASE Verdict(r, p) = "incomplete" -> now >= r.arrival[p] + APP_LINK_IO_DEADLINE
       [] Verdict(r, p) = "006"        -> TRUE
       [] OTHER                        -> FALSE

(* The deadline fails a link only for a frame that really is overdue: pipelined  *)
(* punctual frames the application has not read yet never expire.                *)
SparesPunctual ==
  [][reader'.closeError = "006" /\ ~reader.closed
       => \E p \in FrameStarts(reader) : Overdue(reader, p)]_vars

IncompleteAt(p) ==
  /\ ~reader.closed
  /\ reader.consumed <= p /\ p < reader.received
  /\ Verdict(reader, p) = "incomplete" /\ Leads(reader, reader.consumed, p)

(* A frame can only start at the front of a stream or where another would end.   *)
Heads(s) ==
  {p \in 0..s.size - 1 : \/ p = 0
                         \/ \E q \in 0..p - 1 : /\ s.header[q] # Bad
                                                /\ p = q + HEADER_LEN + s.header[q]}

(* A frame that has started does not stay half received: it completes or the     *)
(* reader fails, although neither peer nor application ever acts again.          *)
StartedFrameSettles ==
  \A p \in UNION {Heads(s) : s \in Streams} : IncompleteAt(p) ~> ~IncompleteAt(p)

(* FrameReader hands out the stream's frames as FrameStream promises.            *)
Stream == INSTANCE FrameStream WITH next <- reader.consumed,
                                    open <- ~reader.closed,
                                    delivered <- [i \in 1..Len(reader.delivered) |->
                                                    [at  |-> reader.delivered[i].at,
                                                     len |-> reader.delivered[i].len]]
ImplementsStream == Stream!Spec
================================================================================
