--------------------------- MODULE FrameReaderProofs ---------------------------
(* Theorems about FrameReader, and about the chunk queue under it, for every     *)
(* header size, payload cap, deadline, compaction threshold, set of callers and  *)
(* set of streams. The invariant is stated for a reader value r, because a       *)
(* callback is a composition of operators on that value: one lemma per operator  *)
(* says what it preserves, and the action steps only compose them.               *)
EXTENDS ChunkQueue, FiniteSetTheorems, SequenceTheorems, TLAPS

Env == wire \in Streams /\ now \in Nat

(* What every intermediate reader value of a callback satisfies.                 *)
Held(r) == \A p \in Offsets : /\ r.arrival[p] <= now
                              /\ p \in r.consumed..r.received - 1 <=> r.arrival[p] # NotHeld
InOrder(r) == \A p, q \in r.consumed..r.received - 1 : p <= q => r.arrival[p] <= r.arrival[q]
Shape(r) == /\ r \in Readers
            /\ r.consumed <= r.census /\ r.census <= r.received
            /\ r.received <= wire.size
            /\ r.closed <=> r.closeError # NoError
            /\ Held(r) /\ InOrder(r)
Punctual(r) == \A i \in 1..Len(r.delivered) : r.delivered[i].span < APP_LINK_IO_DEADLINE
Waiter(r) == \A c \in Callers : r.call[c] = "waiting" <=> r.pending = c
Sound(r) == Shape(r) /\ Punctual(r) /\ Waiter(r)

(* What holds again at the end of a callback.                                    *)
Armed(r) ==
  IF r.census < r.received
  THEN /\ r.frameDeadline # NoTimer
       /\ \/ r.frameDeadline <= r.arrival[r.census] + APP_LINK_IO_DEADLINE
          \/ r.frameDeadline <= now
  ELSE r.frameDeadline = NoTimer

IInv == /\ Env
        /\ now <= MaxTime
        /\ Sound(reader)
        /\ Armed(reader)
--------------------------------------------------------------------------------
LEMMA StreamFacts ==
  ASSUME Env
  PROVE  /\ wire.size \in Nat
         /\ \A p \in Offsets : PayloadLen(p) \in Nat \cup {-1}
  BY ReaderAssumption DEF Env, Offsets, PayloadLen

(* fail leaves an empty, closed, well-formed reader with no timer and no waiter. *)
LEMMA FailSound ==
  ASSUME Env, NEW r, Sound(r), NEW err \in Errors
  PROVE  Sound(Fail(r, err)) /\ Armed(Fail(r, err)) /\ Fail(r, err).delivered = r.delivered
<1> DEFINE f == Fail(r, err)
<1>1. f \in Readers
  BY ReaderAssumption DEF Fail, Readers, Sound, Shape, NoTimer, NotHeld
<1>f. /\ f.consumed = r.consumed /\ f.census = r.consumed /\ f.received = r.consumed
      /\ f.closed = TRUE /\ f.closeError = err
      /\ f.arrival = [p \in Offsets |-> NotHeld]
      /\ r.consumed \in Nat /\ r.consumed <= wire.size
  BY StreamFacts DEF Fail, Readers, Sound, Shape
<1>2. Shape(f)
  <2>1. Held(f)
    BY <1>f DEF Held, NotHeld, Env
  <2>2. InOrder(f)
    BY <1>f DEF InOrder
  <2> QED BY <1>1, <1>f, <2>1, <2>2 DEF Shape, Errors, NoError
<1>3. Punctual(f) /\ f.delivered = r.delivered
  BY DEF Fail, Punctual, Sound, Shape, Readers
<1>4. Waiter(f)
  BY ReaderAssumption DEF Fail, Waiter, Sound, Shape, Readers
<1>5. Armed(f)
  BY DEF Fail, Armed, Sound, Shape, Readers
<1> QED BY <1>2, <1>3, <1>4, <1>5 DEF Sound

LEMMA VerdictFacts ==
  ASSUME Env, NEW r, Shape(r), NEW p \in r.consumed..r.received
  PROVE  /\ Verdict(r, p) \in {"incomplete", "complete"} \cup Errors
         /\ Verdict(r, p) # "incomplete" => p + HEADER_LEN <= r.received
         /\ Verdict(r, p) = "complete" =>
              /\ PayloadLen(p) \in Nat
              /\ FrameEnd(p) \in p + 1..r.received
              /\ r.arrival[p] \in Nat
              /\ r.arrival[FrameEnd(p) - 1] \in Nat
              /\ r.arrival[FrameEnd(p) - 1] - r.arrival[p] < APP_LINK_IO_DEADLINE
<1>1. /\ r.received \in Nat /\ r.consumed \in Nat /\ p \in Nat
      /\ HEADER_LEN \in Nat /\ HEADER_LEN > 0
  BY ReaderAssumption DEF Shape, Readers
<1>2. Verdict(r, p) \in {"incomplete", "complete"} \cup Errors
  BY DEF Verdict, Errors
<1>3. Verdict(r, p) # "incomplete" => p + HEADER_LEN <= r.received
  BY <1>1 DEF Verdict
<1>4. ASSUME Verdict(r, p) = "complete"
      PROVE  /\ PayloadLen(p) \in Nat
             /\ FrameEnd(p) \in p + 1..r.received
             /\ ~Overran(r, p, FrameEnd(p) - 1)
  <2>1. p \in Offsets
    BY <1>1, <1>3, <1>4, StreamFacts DEF Shape, Offsets
  <2>2. PayloadLen(p) \in Nat
    BY <2>1, <1>4, StreamFacts DEF Verdict, Bad
  <2>3. r.received >= FrameEnd(p) /\ ~Overran(r, p, FrameEnd(p) - 1)
    BY <1>1, <1>4, <2>2 DEF Verdict, FrameEnd
  <2> QED BY <1>1, <2>2, <2>3 DEF FrameEnd
<1>5. ASSUME Verdict(r, p) = "complete"
      PROVE  r.arrival[p] \in Nat /\ r.arrival[FrameEnd(p) - 1] \in Nat
  <2>1. p \in Offsets /\ FrameEnd(p) - 1 \in Offsets
    BY <1>1, <1>4, <1>5, StreamFacts DEF Shape, Offsets
  <2>2. p \in r.consumed..r.received - 1 /\ FrameEnd(p) - 1 \in r.consumed..r.received - 1
    BY <1>1, <1>4, <1>5
  <2> QED BY <2>1, <2>2 DEF Shape, Held, Readers, NotHeld
<1> QED BY <1>2, <1>3, <1>4, <1>5, ReaderAssumption DEF Overran

(* Consuming whole bytes from the head keeps the reader well-formed.             *)
LEMMA ConsumeShape ==
  ASSUME Env, NEW r, Shape(r), NEW end \in r.consumed..r.received
  PROVE  LET k == Consume(r, end)
         IN /\ Shape(k)
            /\ k.pending = r.pending /\ k.call = r.call /\ k.closed = r.closed
            /\ k.delivered = r.delivered /\ k.consumed = end /\ k.received = r.received
<1> DEFINE k == Consume(r, end)
<1>1. /\ r.consumed \in Nat /\ r.received \in Nat /\ r.census \in Nat /\ end \in Nat
      /\ r.consumed <= end /\ end <= r.received
  BY DEF Shape, Readers
<1>2. /\ k.pending = r.pending /\ k.call = r.call /\ k.closed = r.closed
      /\ k.closeError = r.closeError /\ k.delivered = r.delivered
      /\ k.consumed = end /\ k.received = r.received
      /\ k.census = IF r.census < end THEN end ELSE r.census
      /\ k.arrival = [p \in Offsets |-> IF p < end THEN NotHeld ELSE r.arrival[p]]
  BY DEF Consume, Shape, Readers
<1>3. k \in Readers
  BY <1>1 DEF Consume, Shape, Readers, NotHeld
<1>4. Held(k)
  <2> SUFFICES ASSUME NEW p \in Offsets
               PROVE  /\ k.arrival[p] <= now
                      /\ p \in end..r.received - 1 <=> k.arrival[p] # NotHeld
    BY <1>2 DEF Held
  <2>1. p \in Int
    BY StreamFacts DEF Offsets
  <2>2. CASE p < end
    BY <1>1, <1>2, <2>1, <2>2 DEF Env, NotHeld
  <2>3. CASE ~(p < end)
    BY <1>1, <1>2, <2>1, <2>3 DEF Shape, Held
  <2> QED BY <2>2, <2>3
<1>5. InOrder(k)
  <2> SUFFICES ASSUME NEW p \in end..r.received - 1, NEW q \in end..r.received - 1, p <= q
               PROVE  k.arrival[p] <= k.arrival[q]
    BY <1>2 DEF InOrder
  <2>1. p \in Offsets /\ q \in Offsets
    BY <1>1, StreamFacts DEF Shape, Offsets
  <2>2. k.arrival[p] = r.arrival[p] /\ k.arrival[q] = r.arrival[q]
    BY <1>1, <1>2, <2>1
  <2> QED BY <1>1, <2>2 DEF Shape, InOrder
<1> QED BY <1>1, <1>2, <1>3, <1>4, <1>5 DEF Shape

(* Arming keeps the reader sound and, from a reader without a timer, arms it     *)
(* exactly when the scan has bytes ahead of it.                                  *)
LEMMA EnsureSound ==
  ASSUME Env, NEW r, Shape(r),
         \/ r.frameDeadline = NoTimer
         \/ r.census < r.received /\ Armed(r)
  PROVE  LET k == EnsureFrameDeadline(r)
         IN /\ Shape(k) /\ Armed(k)
            /\ k.pending = r.pending /\ k.call = r.call /\ k.delivered = r.delivered
            /\ k.consumed = r.consumed /\ k.received = r.received /\ k.closed = r.closed
            /\ k.arrival = r.arrival /\ k.census = r.census
<1>1. /\ r.census \in Nat /\ r.received \in Nat /\ r.consumed \in Nat
      /\ r.census >= r.consumed
  BY DEF Shape, Readers
<1>2. CASE r.census >= r.received
  BY <1>1, <1>2 DEF EnsureFrameDeadline, Armed
<1>3. CASE r.census < r.received /\ r.frameDeadline # NoTimer
  BY <1>1, <1>3 DEF EnsureFrameDeadline
<1>4. CASE r.census < r.received /\ r.frameDeadline = NoTimer
  <2> DEFINE due == IF r.arrival[r.census] + APP_LINK_IO_DEADLINE > now
                    THEN r.arrival[r.census] + APP_LINK_IO_DEADLINE ELSE now
             k == EnsureFrameDeadline(r)
  <2>1. r.census \in Offsets
    BY <1>1, <1>4, StreamFacts DEF Shape, Offsets
  <2>2. r.arrival[r.census] \in Nat
    BY <1>1, <1>4, <2>1 DEF Shape, Held, Readers, NotHeld
  <2>3. due \in Nat /\ (due <= r.arrival[r.census] + APP_LINK_IO_DEADLINE \/ due <= now)
    BY <2>2, ReaderAssumption DEF Env
  <2>4. k = [r EXCEPT !.frameDeadline = due]
    BY <1>1, <1>4 DEF EnsureFrameDeadline, ArmAt
  <2> HIDE DEF due
  <2>5. /\ k.pending = r.pending /\ k.call = r.call /\ k.delivered = r.delivered
        /\ k.consumed = r.consumed /\ k.received = r.received /\ k.closed = r.closed
        /\ k.arrival = r.arrival /\ k.census = r.census /\ k.closeError = r.closeError
        /\ k.frameDeadline = due
    BY <2>4 DEF Shape, Readers
  <2>6. k \in Readers
    BY <2>3, <2>4 DEF Shape, Readers
  <2>7. Shape(k)
    BY <2>5, <2>6 DEF Shape, Held, InOrder
  <2>8. Armed(k)
    BY <1>4, <2>3, <2>5 DEF Armed, NoTimer
  <2> QED BY <2>5, <2>7, <2>8
<1> QED BY <1>1, <1>2, <1>3, <1>4

(* Handing out the head frame: one more punctual frame that begins where the     *)
(* unread bytes began, the caller no longer waits, and the deadline is re-armed. *)
Handed(r) == [at |-> r.consumed, len |-> PayloadLen(r.consumed),
              span |-> r.arrival[FrameEnd(r.consumed) - 1] - r.arrival[r.consumed]]

LEMMA ResolveSound ==
  ASSUME Env, NEW r, Sound(r), r.pending \in Callers, Verdict(r, r.consumed) = "complete"
  PROVE  LET k == Resolve(r)
         IN /\ Sound(k) /\ Armed(k)
            /\ k.delivered = Append(r.delivered, Handed(r))
            /\ k.consumed = FrameEnd(r.consumed) /\ k.closed = r.closed
<1> DEFINE end == FrameEnd(r.consumed)
           c == Consume(r, end)
           c0 == [c EXCEPT !.frameDeadline = NoTimer]
           e == EnsureFrameDeadline(c0)
           k == Resolve(r)
<1>1. /\ Shape(r) /\ r.consumed \in Nat /\ r.received \in Nat
      /\ r.consumed <= r.received
  BY DEF Sound, Shape, Readers
<1>2. /\ PayloadLen(r.consumed) \in Nat
      /\ end \in r.consumed + 1..r.received
      /\ Handed(r).span \in Int /\ Handed(r).span < APP_LINK_IO_DEADLINE
  BY <1>1, VerdictFacts DEF Handed
<1>3. Handed(r).span \in Nat
  <2>1. r.consumed \in r.consumed..r.received - 1 /\ end - 1 \in r.consumed..r.received - 1
    BY <1>1, <1>2
  <2>2. r.arrival[r.consumed] <= r.arrival[end - 1]
    BY <1>1, <1>2, <2>1 DEF Shape, InOrder
  <2>3. r.arrival[r.consumed] \in Nat /\ r.arrival[end - 1] \in Nat
    BY <1>1, VerdictFacts
  <2> QED BY <2>2, <2>3 DEF Handed
<1>4. /\ Shape(c) /\ c.consumed = end /\ c.pending = r.pending /\ c.call = r.call
      /\ c.delivered = r.delivered /\ c.closed = r.closed
  BY <1>1, <1>2, ConsumeShape
<1>5. /\ Shape(c0) /\ c0.frameDeadline = NoTimer /\ c0.consumed = end
      /\ c0.pending = r.pending /\ c0.call = r.call
      /\ c0.delivered = r.delivered /\ c0.closed = r.closed
  BY <1>4 DEF Shape, Readers, Held, InOrder
<1>6. /\ Shape(e) /\ Armed(e) /\ e.consumed = end
      /\ e.pending = r.pending /\ e.call = r.call
      /\ e.delivered = r.delivered /\ e.closed = r.closed
  BY <1>5, EnsureSound
<1>7. k = [e EXCEPT !.pending = None, !.call[r.pending] = "resolved",
                    !.delivered = Append(r.delivered, Handed(r))]
  BY DEF Resolve, Handed
<1> HIDE DEF c, c0, e, k
<1>8. /\ k.pending = None /\ k.call = [r.call EXCEPT ![r.pending] = "resolved"]
      /\ k.delivered = Append(r.delivered, Handed(r))
      /\ k.consumed = e.consumed /\ k.received = e.received /\ k.census = e.census
      /\ k.arrival = e.arrival /\ k.frameDeadline = e.frameDeadline
      /\ k.closed = e.closed /\ k.closeError = e.closeError
  BY <1>6, <1>7 DEF Shape, Readers
<1>9. Handed(r) \in [at : Nat, len : Nat, span : Nat]
  BY <1>1, <1>2, <1>3 DEF Handed
<1>10. k \in Readers
  <2>1. Append(r.delivered, Handed(r)) \in Seq([at : Nat, len : Nat, span : Nat])
    BY <1>1, <1>9 DEF Shape, Readers
  <2> QED BY <1>6, <1>7, <1>8, <2>1 DEF Shape, Readers
<1>11. Shape(k)
  BY <1>6, <1>8, <1>10 DEF Shape, Held, InOrder
<1>12. Punctual(k)
  <2> DEFINE d == r.delivered
  <2>1. d \in Seq([at : Nat, len : Nat, span : Nat])
    BY <1>1 DEF Shape, Readers
  <2>2. \A i \in 1..Len(d) : d[i].span < APP_LINK_IO_DEADLINE
    BY DEF Sound, Punctual
  <2> HIDE DEF d
  <2>3. \A i \in 1..Len(Append(d, Handed(r))) :
          Append(d, Handed(r))[i].span < APP_LINK_IO_DEADLINE
    BY <1>2, <1>9, <2>1, <2>2
  <2> QED BY <1>8, <2>3 DEF Punctual, d
<1>13. Waiter(k)
  BY <1>1, <1>8, ReaderAssumption DEF Sound, Shape, Readers, Waiter
<1>14. Armed(k)
  BY <1>6, <1>8 DEF Armed
<1> QED BY <1>6, <1>8, <1>11, <1>12, <1>13, <1>14 DEF Sound, k

(* A reader after tryResolve: what it handed out, if anything.                   *)
Delivers(r, k) ==
  \/ k.delivered = r.delivered /\ k.consumed = r.consumed /\ (r.closed => k.closed)
  \/ /\ Verdict(r, r.consumed) = "complete"
     /\ k.delivered = Append(r.delivered, Handed(r))
     /\ k.consumed = FrameEnd(r.consumed)
     /\ k.closed = r.closed

LEMMA FailConsumes ==
  ASSUME NEW r, Shape(r), NEW err
  PROVE  Fail(r, err).consumed = r.consumed /\ Fail(r, err).closed = TRUE
  BY DEF Fail, Shape, Readers

LEMMA TryResolveSound ==
  ASSUME Env, NEW r, Sound(r), Armed(r)
  PROVE  LET k == TryResolve(r) IN Sound(k) /\ Armed(k) /\ Delivers(r, k)
<1> DEFINE v == Verdict(r, r.consumed)
<1>1. /\ Shape(r) /\ r.consumed \in r.consumed..r.received /\ r.pending \in Callers \cup {None}
  BY DEF Sound, Shape, Readers
<1>2. v \in {"incomplete", "complete"} \cup Errors
  BY <1>1, VerdictFacts
<1>3. CASE r.pending = None \/ v = "incomplete"
  BY <1>3 DEF TryResolve, Delivers
<1>4. CASE r.pending # None /\ v = "complete"
  <2>1. TryResolve(r) = Resolve(r)
    BY <1>4 DEF TryResolve
  <2> QED BY <1>1, <1>4, <2>1, ResolveSound DEF Delivers
<1>5. CASE r.pending # None /\ v \in Errors
  <2>1. TryResolve(r) = Fail(r, v)
    BY <1>5 DEF TryResolve, Errors
  <2> QED BY <1>1, <1>5, <2>1, FailSound, FailConsumes DEF Delivers
<1> QED BY <1>1, <1>2, <1>3, <1>4, <1>5

LEMMA FloodCheckSound ==
  ASSUME Env, NEW r, Sound(r), Armed(r)
  PROVE  LET k == FloodCheck(r)
         IN /\ Sound(k) /\ Armed(k)
            /\ k.delivered = r.delivered /\ k.consumed = r.consumed /\ (r.closed => k.closed)
  BY FailSound, FailConsumes DEF FloodCheck, Errors, Sound

(* A chunk extends the unread bytes; the deadline stays as it was.               *)
LEMMA BufferedSound ==
  ASSUME Env, NEW r, Sound(r), Armed(r), NEW n \in Nat \ {0}, r.received + n <= wire.size
  PROVE  LET k == Buffered(r, n)
         IN /\ Sound(k)
            /\ k.frameDeadline = NoTimer \/ (k.census < k.received /\ Armed(k))
            /\ k.delivered = r.delivered /\ k.consumed = r.consumed /\ k.closed = r.closed
<1> DEFINE k == Buffered(r, n)
<1>1. /\ Shape(r) /\ r.consumed \in Nat /\ r.received \in Nat /\ r.census \in Nat
      /\ r.consumed <= r.census /\ r.census <= r.received
  BY DEF Sound, Shape, Readers
<1>2. /\ k.pending = r.pending /\ k.call = r.call /\ k.closed = r.closed
      /\ k.closeError = r.closeError /\ k.delivered = r.delivered
      /\ k.consumed = r.consumed /\ k.census = r.census
      /\ k.received = r.received + n /\ k.frameDeadline = r.frameDeadline
      /\ k.arrival = [p \in Offsets |-> IF p \in r.received..r.received + n - 1
                                        THEN now ELSE r.arrival[p]]
  BY DEF Buffered, Sound, Shape, Readers
<1>3. k \in Readers
  <2> DEFINE arr == [p \in Offsets |-> IF p \in r.received..r.received + n - 1
                                      THEN now ELSE r.arrival[p]]
             ends == r.chunkEnds \cup {r.received + n}
  <2>1. arr \in [Offsets -> Nat \cup {NotHeld}]
    BY <1>1 DEF Shape, Readers, Env
  <2>2. ends \in SUBSET Nat /\ r.received + n \in Nat
    BY <1>1 DEF Shape, Readers
  <2>3. k = [r EXCEPT !.received = r.received + n, !.chunkEnds = ends, !.arrival = arr]
    BY DEF Buffered
  <2> HIDE DEF k, arr, ends
  <2> QED BY <1>1, <2>1, <2>2, <2>3 DEF Shape, Readers
<1>4. Held(k)
  <2> SUFFICES ASSUME NEW p \in Offsets
               PROVE  /\ k.arrival[p] <= now
                      /\ p \in r.consumed..r.received + n - 1 <=> k.arrival[p] # NotHeld
    BY <1>1, <1>2 DEF Held
  <2>1. p \in Int
    BY StreamFacts DEF Offsets
  <2>2. CASE p \in r.received..r.received + n - 1
    BY <1>1, <1>2, <2>1, <2>2 DEF Env, NotHeld
  <2>3. CASE p \notin r.received..r.received + n - 1
    BY <1>1, <1>2, <2>1, <2>3 DEF Shape, Held
  <2> QED BY <2>2, <2>3
<1>5. InOrder(k)
  <2> SUFFICES ASSUME NEW p \in r.consumed..r.received + n - 1,
                      NEW q \in r.consumed..r.received + n - 1, p <= q
               PROVE  k.arrival[p] <= k.arrival[q]
    BY <1>1, <1>2 DEF InOrder
  <2>1. p \in Offsets /\ q \in Offsets
    BY <1>1, StreamFacts DEF Offsets
  <2>2. CASE q < r.received
    <3>1. p \in r.consumed..r.received - 1 /\ q \in r.consumed..r.received - 1
      BY <1>1, <2>2
    <3>2. k.arrival[p] = r.arrival[p] /\ k.arrival[q] = r.arrival[q]
      BY <1>1, <1>2, <2>1, <2>2
    <3> QED BY <1>1, <3>1, <3>2 DEF Shape, InOrder
  <2>3. CASE ~(q < r.received)
    <3>1. k.arrival[q] = now
      BY <1>1, <1>2, <2>1, <2>3
    <3>2. k.arrival[p] <= now
      BY <1>4, <2>1 DEF Held
    <3> QED BY <3>1, <3>2
  <2> QED BY <2>2, <2>3
<1>6. Shape(k)
  BY <1>1, <1>2, <1>3, <1>4, <1>5 DEF Shape
<1>7. k.frameDeadline = NoTimer \/ (k.census < k.received /\ Armed(k))
  <2>1. CASE r.census < r.received
    <3>1. r.census \in Offsets /\ r.census \notin r.received..r.received + n - 1
      BY <1>1, <2>1, StreamFacts DEF Shape, Offsets
    <3>2. k.arrival[r.census] = r.arrival[r.census]
      BY <1>2, <3>1
    <3> QED BY <1>1, <1>2, <2>1, <3>2 DEF Armed
  <2>2. CASE ~(r.census < r.received)
    BY <1>2, <2>2 DEF Armed
  <2> QED BY <2>1, <2>2
<1> QED BY <1>2, <1>6, <1>7 DEF Sound, Punctual, Waiter, k

(* The timer callback, from the reader whose timer has gone off and whose scan   *)
(* has stopped at its cursor.                                                    *)
LEMMA AfterScanSound ==
  ASSUME Env, NEW r, Sound(r), r.frameDeadline = NoTimer
  PROVE  LET k == AfterScan(r, r.census)
         IN /\ Sound(k) /\ Armed(k)
            /\ k.delivered = r.delivered /\ k.consumed = r.consumed /\ (r.closed => k.closed)
<1>1. /\ Shape(r) /\ r.census \in r.consumed..r.received /\ r.received \in Nat
  BY DEF Sound, Shape, Readers
<1>2. CASE r.census = r.received
  BY <1>1, <1>2 DEF AfterScan, Armed
<1>3. CASE r.census # r.received /\ Verdict(r, r.census) \in Errors
  <2>1. AfterScan(r, r.census) = Fail(r, Verdict(r, r.census))
    BY <1>3 DEF AfterScan
  <2> QED BY <1>1, <1>3, <2>1, FailSound, FailConsumes
<1>4. CASE r.census # r.received /\ Verdict(r, r.census) \notin Errors
  <2>1. CASE now < r.arrival[r.census] + APP_LINK_IO_DEADLINE
    <3>1. AfterScan(r, r.census) = EnsureFrameDeadline(r)
      BY <1>1, <1>4, <2>1 DEF AfterScan, EnsureFrameDeadline
    <3> QED BY <1>1, <3>1, EnsureSound DEF Sound, Punctual, Waiter
  <2>2. CASE ~(now < r.arrival[r.census] + APP_LINK_IO_DEADLINE)
    <3>1. AfterScan(r, r.census) = Fail(r, "006")
      BY <1>4, <2>2 DEF AfterScan
    <3> QED BY <1>1, <3>1, FailSound, FailConsumes DEF Errors
  <2> QED BY <2>1, <2>2
<1> QED BY <1>2, <1>3, <1>4
--------------------------------------------------------------------------------
LEMMA InitSound == ASSUME Init PROVE IInv
<1>1. Env
  BY DEF Init, Env
<1>2. /\ reader = EmptyReader /\ EmptyReader \in Readers
  BY ReaderAssumption DEF Init, EmptyReader, Readers, NoTimer, NotHeld, NoError
<1>3. Shape(reader)
  BY <1>1, <1>2, StreamFacts
     DEF EmptyReader, Shape, Held, InOrder, NotHeld, NoError, Env
<1>4. Punctual(reader) /\ Waiter(reader) /\ Armed(reader)
  BY <1>2, ReaderAssumption DEF EmptyReader, Punctual, Waiter, Armed
<1>5. now <= MaxTime
  BY ReaderAssumption DEF Init
<1> QED BY <1>1, <1>3, <1>4, <1>5 DEF IInv, Sound

LEMMA SameClock ==
  ASSUME Env, now <= MaxTime, wire' = wire, now' = now, Sound(reader'), Armed(reader')
  PROVE  IInv'
<1>1. Env'
  BY DEF Env
<1>2. Shape(reader)'
  BY DEF Sound, Shape, Readers, Held, InOrder, Offsets
<1>3. Punctual(reader)' /\ Waiter(reader)' /\ Armed(reader)'
  BY DEF Sound, Punctual, Waiter, Armed
<1> QED BY <1>1, <1>2, <1>3 DEF IInv, Sound

(* What one step of the reader does to the frames handed out.                    *)
Progress == \/ /\ reader'.delivered = reader.delivered
               /\ reader'.consumed = reader.consumed
               /\ reader.closed => reader'.closed
            \/ \E r \in Readers :
                 /\ ~reader.closed
                 /\ Shape(r) /\ r.consumed = reader.consumed
                 /\ Verdict(r, r.consumed) = "complete"
                 /\ reader'.delivered = Append(reader.delivered, Handed(r))
                 /\ reader'.consumed = FrameEnd(reader.consumed)

LEMMA StepSound ==
  ASSUME IInv, [Next]_vars
  PROVE  IInv' /\ wire' = wire /\ Progress
<1> USE DEF IInv
<1>0. Shape(reader) /\ reader \in Readers
  BY DEF Sound, Shape
<1>1. ASSUME NEW n \in 1..MaxChunk, Push(n)
      PROVE  IInv' /\ wire' = wire /\ Progress
  <2> DEFINE b == Buffered(reader, n)
             e == EnsureFrameDeadline(b)
             t == TryResolve(e)
  <2>1. /\ Sound(b) /\ (b.frameDeadline = NoTimer \/ (b.census < b.received /\ Armed(b)))
        /\ b.delivered = reader.delivered /\ b.consumed = reader.consumed
        /\ b.closed = reader.closed
    BY <1>1, BufferedSound, ReaderAssumption DEF Push
  <2> HIDE DEF b
  <2>2. /\ Shape(e) /\ Armed(e) /\ Sound(e)
        /\ e.delivered = reader.delivered /\ e.consumed = reader.consumed
        /\ e.closed = reader.closed
    BY <2>1, EnsureSound DEF Sound, Punctual, Waiter
  <2> HIDE DEF e
  <2>3. Sound(t) /\ Armed(t) /\ Delivers(e, t)
    BY <2>2, TryResolveSound
  <2> HIDE DEF t
  <2>4. /\ Sound(reader') /\ Armed(reader') /\ wire' = wire /\ now' = now
        /\ reader'.delivered = t.delivered /\ reader'.consumed = t.consumed
        /\ t.closed => reader'.closed
    BY <1>1, <2>3, FloodCheckSound DEF Push, b, e, t
  <2>5. Progress
    BY <1>1, <2>2, <2>3, <2>4 DEF Delivers, Progress, Shape, Push
  <2> QED BY <2>4, <2>5, SameClock
<1>2. ASSUME NEW c \in Callers, ReadFrame(c)
      PROVE  IInv' /\ wire' = wire /\ Progress
  <2>1. CASE reader.closed \/ reader.pending # None
    <3>1. /\ reader' = [reader EXCEPT !.call[c] = "rejected"]
          /\ wire' = wire /\ now' = now /\ reader.call[c] # "waiting"
      BY <1>2, <2>1 DEF ReadFrame
    <3>2. /\ reader' \in Readers
          /\ reader'.call = [reader.call EXCEPT ![c] = "rejected"]
          /\ reader'.consumed = reader.consumed /\ reader'.received = reader.received
          /\ reader'.census = reader.census /\ reader'.arrival = reader.arrival
          /\ reader'.frameDeadline = reader.frameDeadline
          /\ reader'.pending = reader.pending /\ reader'.closed = reader.closed
          /\ reader'.closeError = reader.closeError
          /\ reader'.delivered = reader.delivered
      BY <1>0, <3>1 DEF Readers
    <3>3. Shape(reader') /\ Punctual(reader') /\ Armed(reader')
      BY <1>0, <3>2 DEF Sound, Shape, Held, InOrder, Punctual, Armed
    <3>4. Waiter(reader')
      BY <1>0, <3>1, <3>2 DEF Sound, Waiter, Readers
    <3> QED BY <3>1, <3>2, <3>3, <3>4, SameClock DEF Sound, Progress
  <2>2. CASE ~reader.closed /\ reader.pending = None
    <3> DEFINE w == [reader EXCEPT !.pending = c, !.call[c] = "waiting"]
               e == EnsureFrameDeadline(w)
    <3>1. /\ w \in Readers
          /\ w.call = [reader.call EXCEPT ![c] = "waiting"]
          /\ w.consumed = reader.consumed /\ w.received = reader.received
          /\ w.census = reader.census /\ w.arrival = reader.arrival
          /\ w.frameDeadline = reader.frameDeadline
          /\ w.pending = c /\ w.closed = reader.closed
          /\ w.closeError = reader.closeError
          /\ w.delivered = reader.delivered
      BY <1>0 DEF Readers
    <3> HIDE DEF w
    <3>2. Shape(w) /\ Punctual(w) /\ Waiter(w) /\ Armed(w)
      <4>1. Shape(w) /\ Punctual(w) /\ Armed(w)
        BY <1>0, <3>1 DEF Sound, Shape, Held, InOrder, Punctual, Armed
      <4>2. Waiter(w)
        BY <1>0, <2>2, <3>1, ReaderAssumption DEF Sound, Waiter, Readers
      <4> QED BY <4>1, <4>2
    <3>3. w.frameDeadline = NoTimer \/ (w.census < w.received /\ Armed(w))
      BY <3>2 DEF Armed
    <3>4. /\ Sound(e) /\ Armed(e)
          /\ e.delivered = reader.delivered /\ e.consumed = reader.consumed
      <4>1. /\ Shape(e) /\ Armed(e)
            /\ e.delivered = w.delivered /\ e.consumed = w.consumed
            /\ e.call = w.call /\ e.pending = w.pending
        BY <3>2, <3>3, EnsureSound
      <4> QED BY <3>1, <3>2, <4>1 DEF Sound, Punctual, Waiter
    <3> HIDE DEF e
    <3>5. /\ reader' = TryResolve(e) /\ wire' = wire /\ now' = now
      BY <1>2, <2>2 DEF ReadFrame, e, w
    <3>6. Sound(reader') /\ Armed(reader') /\ Delivers(e, reader')
      BY <3>4, <3>5, TryResolveSound
    <3>7. Progress
      BY <2>2, <3>4, <3>6 DEF Delivers, Progress, Sound, Shape
    <3> QED BY <3>5, <3>6, <3>7, SameClock
  <2>3. reader.closed \in BOOLEAN
    BY <1>0 DEF Readers
  <2> QED BY <2>1, <2>2, <2>3
<1>3. ASSUME DeadlineFires
      PROVE  IInv' /\ wire' = wire /\ Progress
  <2>1. PICK p \in reader.census..reader.received :
          reader' = AfterScan([reader EXCEPT !.frameDeadline = NoTimer, !.census = p], p)
    BY <1>3 DEF DeadlineFires
  <2> DEFINE s == [reader EXCEPT !.frameDeadline = NoTimer, !.census = p]
  <2>2. /\ reader.consumed \in Nat /\ reader.census \in Nat /\ reader.received \in Nat
        /\ reader.consumed <= reader.census
    BY <1>0 DEF Shape, Readers
  <2>3. /\ s \in Readers /\ s.census = p /\ s.frameDeadline = NoTimer
        /\ s.call = reader.call /\ s.pending = reader.pending
        /\ s.consumed = reader.consumed /\ s.received = reader.received
        /\ s.arrival = reader.arrival /\ s.closed = reader.closed
        /\ s.closeError = reader.closeError /\ s.delivered = reader.delivered
    <3>1. p \in Nat
      BY <2>2
    <3> QED BY <1>0, <3>1 DEF Readers
  <2> HIDE DEF s
  <2>4. Sound(s)
    BY <1>0, <2>2, <2>3 DEF Sound, Shape, Held, InOrder, Punctual, Waiter
  <2>5. /\ Sound(reader') /\ Armed(reader')
        /\ reader'.delivered = reader.delivered /\ reader'.consumed = reader.consumed
        /\ reader.closed => reader'.closed
    <3> DEFINE k == AfterScan(s, s.census)
    <3>1. reader' = k
      BY <2>1, <2>3 DEF s
    <3>2. /\ Sound(k) /\ Armed(k) /\ k.delivered = s.delivered /\ k.consumed = s.consumed
          /\ s.closed => k.closed
      BY <1>0, <2>3, <2>4, AfterScanSound
    <3> HIDE DEF k
    <3>3. Sound(reader') /\ Armed(reader')
      BY <3>1, <3>2
    <3> QED BY <2>3, <3>1, <3>2, <3>3
  <2> QED BY <1>3, <2>5, SameClock DEF DeadlineFires, Progress
<1>4. ASSUME SocketFails
      PROVE  IInv' /\ wire' = wire /\ Progress
  <2>1. /\ Sound(reader') /\ Armed(reader')
        /\ reader'.delivered = reader.delivered /\ reader'.consumed = reader.consumed
        /\ reader'.closed
    BY <1>0, <1>4, FailSound, FailConsumes DEF SocketFails, Errors
  <2> QED BY <1>4, <2>1, SameClock DEF SocketFails, Progress
<1>5. ASSUME Tick
      PROVE  IInv' /\ wire' = wire /\ Progress
  <2>1. /\ reader' = reader /\ wire' = wire /\ now' = now + 1 /\ now \in Nat
        /\ now' <= MaxTime
    BY <1>5, ReaderAssumption DEF Tick, Env
  <2>2. Env'
    BY <2>1 DEF Env
  <2>3. Held(reader)'
    <3>1. \A p \in Offsets : reader.arrival[p] \in Nat \cup {NotHeld}
      BY <1>0 DEF Shape, Readers
    <3> QED BY <1>0, <2>1, <3>1 DEF Shape, Held, Offsets, NotHeld
  <2>4. Shape(reader)'
    BY <1>0, <2>1, <2>3 DEF Shape, Readers, Offsets, InOrder
  <2>5. Punctual(reader)' /\ Waiter(reader)'
    BY <2>1 DEF Sound, Punctual, Waiter
  <2>6. Armed(reader)'
    BY <1>0, <2>1 DEF Armed, Shape, Readers, NoTimer
  <2> QED BY <2>1, <2>2, <2>4, <2>5, <2>6 DEF Sound, Progress
<1>6. ASSUME UNCHANGED vars
      PROVE  IInv' /\ wire' = wire /\ Progress
  BY <1>6, SameClock DEF vars, Progress
<1> QED BY <1>1, <1>2, <1>3, <1>4, <1>5, <1>6 DEF Next

(* The strengthening holds of every reachable state: the buffer's arrival times,  *)
(* the scan cursor and the armed timer agree with each other whatever push,       *)
(* readFrame, the timer and fail do in turn.                                      *)
THEOREM InductiveInvariant == Spec => []IInv
<1>1. Init => IInv
  BY InitSound
<1>2. IInv /\ [Next]_vars => IInv'
  BY StepSound
<1> QED BY <1>1, <1>2, PTL DEF Spec

(* The properties the runs check are parts of the invariant.                     *)

(* Every reachable reader is well-formed.                                        *)
THEOREM TypeCorrect == Spec => []TypeOK
<1>1. IInv => TypeOK
  BY ReaderAssumption DEF IInv, Env, Sound, Shape, Held, TypeOK
<1> QED BY <1>1, InductiveInvariant, PTL

(* No frame whose bytes straddle the deadline is handed to the application.      *)
THEOREM NeverLate == Spec => []NoLateFrame
<1>1. IInv => NoLateFrame
  BY DEF IInv, Sound, Punctual, NoLateFrame
<1> QED BY <1>1, InductiveInvariant, PTL

(* Bytes the scan has not passed always have a deadline no later chunk renews.   *)
THEOREM AlwaysArmed == Spec => []DeadlineArmed
<1>1. IInv => DeadlineArmed
  BY DEF IInv, Armed, DeadlineArmed
<1> QED BY <1>1, InductiveInvariant, PTL
--------------------------------------------------------------------------------
(* FrameReader implements FrameStream.                                           *)
Bar == [i \in 1..Len(reader.delivered) |->
          [at |-> reader.delivered[i].at, len |-> reader.delivered[i].len]]

Strip(d) == [i \in 1..Len(d) |-> [at |-> d[i].at, len |-> d[i].len]]

LEMMA StripSeq ==
  ASSUME NEW d \in Seq([at : Nat, len : Nat, span : Nat])
  PROVE  Strip(d) \in Seq([at : Nat, len : Nat]) /\ Len(Strip(d)) = Len(d)
<1>1. Len(d) \in Nat /\ \A i \in 1..Len(d) : d[i] \in [at : Nat, len : Nat, span : Nat]
  BY ElementOfSeq, LenProperties
<1>2. Strip(d) \in [1..Len(d) -> [at : Nat, len : Nat]]
  BY <1>1 DEF Strip
<1>3. Strip(d) \in Seq([at : Nat, len : Nat])
  <2> DEFINE n == Len(d)
             T == [at : Nat, len : Nat]
  <2>1. n \in Nat /\ Strip(d) \in [1..n -> T]
    BY <1>1, <1>2
  <2> HIDE DEF n, T
  <2>2. Strip(d) \in UNION {[1..m -> T] : m \in Nat}
    BY <2>1
  <2> QED BY <2>2, SeqDef DEF T
<1>4. 1..Len(Strip(d)) = 1..Len(d) /\ Len(Strip(d)) \in Nat
  BY <1>2, <1>3, LenProperties
<1> QED BY <1>1, <1>3, <1>4

LEMMA StripAppend ==
  ASSUME NEW d \in Seq([at : Nat, len : Nat, span : Nat]),
         NEW f, Append(d, f) \in Seq([at : Nat, len : Nat, span : Nat])
  PROVE  Strip(Append(d, f)) = Append(Strip(d), [at |-> f.at, len |-> f.len])
<1> DEFINE x == [at |-> f.at, len |-> f.len]
           e == Append(d, f)
<1>1. /\ Len(e) = Len(d) + 1 /\ Len(d) \in Nat
      /\ \A i \in 1..Len(d) : e[i] = d[i]
      /\ e[Len(d) + 1] = f
  OBVIOUS
<1>2. f \in [at : Nat, len : Nat, span : Nat]
  BY <1>1, ElementOfSeq
<1>3. /\ Strip(d) \in Seq([at : Nat, len : Nat]) /\ Len(Strip(d)) = Len(d)
      /\ Strip(e) \in Seq([at : Nat, len : Nat]) /\ Len(Strip(e)) = Len(d) + 1
  BY <1>1, StripSeq
<1>4. /\ \A i \in 1..Len(d) : Strip(d)[i] = [at |-> d[i].at, len |-> d[i].len]
      /\ \A i \in 1..Len(d) : Strip(e)[i] = [at |-> d[i].at, len |-> d[i].len]
      /\ Strip(e)[Len(d) + 1] = x
  BY <1>1 DEF Strip
<1> HIDE DEF e
<1>5. x \in [at : Nat, len : Nat]
  BY <1>2
<1> HIDE DEF x
<1>6. /\ Append(Strip(d), x) \in Seq([at : Nat, len : Nat])
      /\ Len(Append(Strip(d), x)) = Len(d) + 1
      /\ \A i \in 1..Len(d) : Append(Strip(d), x)[i] = Strip(d)[i]
      /\ Append(Strip(d), x)[Len(d) + 1] = x
  BY <1>3, <1>5
<1> DEFINE s == Strip(e)
           t == Append(Strip(d), x)
<1>7. \A i \in 1..Len(d) + 1 : s[i] = t[i]
  <2> SUFFICES ASSUME NEW i \in 1..Len(d) + 1 PROVE s[i] = t[i]
    OBVIOUS
  <2>1. CASE i \in 1..Len(d)
    BY <1>4, <1>6, <2>1
  <2>2. CASE i = Len(d) + 1
    BY <1>4, <1>6, <2>2
  <2>3. i \in 1..Len(d) \/ i = Len(d) + 1
    <3>1. Len(d) \in Nat
      BY <1>1
    <3> QED BY <3>1
  <2> QED BY <2>1, <2>2, <2>3
<1> HIDE DEF s, t
<1>8. /\ s \in Seq([at : Nat, len : Nat]) /\ t \in Seq([at : Nat, len : Nat])
      /\ Len(s) = Len(t) /\ Len(s) = Len(d) + 1
  BY <1>3, <1>6 DEF s, t
<1>9. s = t
  BY <1>7, <1>8, SeqEqual
<1> QED BY <1>9 DEF s, t, e, x

LEMMA InitImplements == ASSUME Init PROVE Stream!Init
<1>1. reader.delivered = <<>> /\ reader.consumed = 0 /\ reader.closed = FALSE
  BY DEF Init, EmptyReader
<1>2. Bar = <<>>
  BY <1>1 DEF Bar
<1> QED BY <1>1, <1>2 DEF Init, Stream!Init, Bar

LEMMA StepImplements ==
  ASSUME IInv, IInv', [Next]_vars, wire' = wire, Progress
  PROVE  [Stream!Next]_(Stream!vars)
<1>0. /\ reader \in Readers /\ reader' \in Readers
  BY DEF IInv, Sound, Shape, Readers, Offsets
<1>1. CASE /\ reader'.delivered = reader.delivered
           /\ reader'.consumed = reader.consumed
           /\ reader.closed => reader'.closed
  <2>1. CASE reader'.closed = reader.closed
    BY <1>1, <2>1 DEF Stream!vars
  <2>2. CASE reader'.closed /\ ~reader.closed
    BY <1>1, <2>2 DEF Stream!Next, Stream!Close
  <2>3. reader.closed \in BOOLEAN /\ reader'.closed \in BOOLEAN
    BY <1>0 DEF Readers
  <2> QED BY <1>1, <2>1, <2>2, <2>3
<1>2. ASSUME NEW r \in Readers, ~reader.closed, Shape(r), r.consumed = reader.consumed,
             Verdict(r, r.consumed) = "complete",
             reader'.delivered = Append(reader.delivered, Handed(r)),
             reader'.consumed = FrameEnd(reader.consumed)
      PROVE  Stream!Deliver
  <2> DEFINE p == reader.consumed
  <2>1. /\ r.consumed \in r.consumed..r.received /\ p \in Nat /\ r.received \in Nat
        /\ r.received <= wire.size
    BY <1>0, <1>2, SMTT(30) DEF Shape, Readers
  <2>2. /\ PayloadLen(p) \in Nat /\ FrameEnd(p) \in p + 1..r.received
        /\ r.arrival[p] \in Nat /\ r.arrival[FrameEnd(p) - 1] \in Nat
    BY <1>2, <2>1, VerdictFacts DEF IInv
  <2>3. PayloadLen(p) <= MAX_FRAME_LEN
    BY <1>2, <2>2, ReaderAssumption DEF Verdict
  <2>4. Stream!WholeFrameAt(p)
    BY <2>1, <2>2, <2>3, StreamFacts
       DEF Stream!WholeFrameAt, Stream!Bad, PayloadLen, FrameEnd, IInv
  <2>5. Bar' = Append(Bar, [at |-> p, len |-> PayloadLen(p)])
    <3>1. /\ reader.delivered \in Seq([at : Nat, len : Nat, span : Nat])
          /\ reader'.delivered \in Seq([at : Nat, len : Nat, span : Nat])
      BY <1>0 DEF Readers
    <3>2. Handed(r).at = p /\ Handed(r).len = PayloadLen(p)
      BY <1>2 DEF Handed
    <3>3. Bar = Strip(reader.delivered) /\ Bar' = Strip(reader'.delivered)
      BY DEF Bar, Strip
    <3> QED BY <1>2, <3>1, <3>2, <3>3, StripAppend
  <2>6. reader'.closed \in BOOLEAN
    BY <1>0 DEF Readers
  <2> QED BY <1>2, <2>2, <2>4, <2>5, <2>6
          DEF Stream!Deliver, Bar, PayloadLen, FrameEnd
<1> QED BY <1>1, <1>2 DEF Progress, Stream!Next

(* Frames come out whole, in stream order and each once, whatever the chunking,  *)
(* the deadlines and the callers do: every behaviour of the reader is one of     *)
(* FrameStream.                                                                  *)
THEOREM Implementation == Spec => ImplementsStream
<1>1. Init => Stream!Init
  BY InitImplements
<1>2. IInv /\ IInv' /\ [Next]_vars => [Stream!Next]_(Stream!vars)
  BY StepSound, StepImplements
<1> QED BY <1>1, <1>2, InductiveInvariant, PTL DEF Spec, ImplementsStream, Stream!Spec
--------------------------------------------------------------------------------
(* The buffer bounds and prompt delivery. What they need beyond IInv: a finite   *)
(* set of chunks, and nothing left in a closed reader.                           *)
Rest(r) == /\ IsFiniteSet(r.chunkEnds)
           /\ r.closed => /\ r.received = r.consumed /\ r.chunkEnds = {}
                          /\ r.pending = None
Bounded(r) == /\ Length(r) <= HEADER_LEN + MAX_FRAME_LEN
              /\ PendingChunkCount(r) <= MAX_PENDING_CHUNKS
Prompt(r) == r.pending # None => Verdict(r, r.consumed) = "incomplete"
Tidy(r) == Rest(r) /\ Bounded(r) /\ Prompt(r)

LEMMA FailTidy ==
  ASSUME NEW r, Shape(r), NEW err
  PROVE  Tidy(Fail(r, err))
<1> DEFINE f == Fail(r, err)
<1>1. /\ f.received = r.consumed /\ f.consumed = r.consumed /\ f.chunkEnds = {}
      /\ f.pending = None /\ r.consumed \in Nat
  BY DEF Fail, Shape, Readers
<1> HIDE DEF f
<1>2. {e \in f.chunkEnds : e > f.consumed} = {}
  BY <1>1
<1>3. PendingChunkCount(f) = 0 /\ Length(f) = 0
  BY <1>1, <1>2, FS_EmptySet DEF PendingChunkCount, Length
<1> QED BY <1>1, <1>3, FS_EmptySet, ReaderAssumption DEF Tidy, Rest, Bounded, Prompt, f

(* The verdict depends on the buffered bytes alone.                              *)
LEMMA SameVerdict ==
  ASSUME NEW r, NEW k, k.received = r.received, k.arrival = r.arrival, NEW p
  PROVE  Verdict(k, p) = Verdict(r, p)
  BY DEF Verdict, Overran

(* Arming touches the timer only.                                                *)
LEMMA EnsureTidy ==
  ASSUME NEW r, Shape(r)
  PROVE  LET k == EnsureFrameDeadline(r)
         IN /\ k.received = r.received /\ k.consumed = r.consumed /\ k.arrival = r.arrival
            /\ k.chunkEnds = r.chunkEnds /\ k.pending = r.pending /\ k.closed = r.closed
  BY DEF EnsureFrameDeadline, ArmAt, Shape, Readers

LEMMA ResolveTidy ==
  ASSUME Env, NEW r, Shape(r), Rest(r), ~r.closed, Verdict(r, r.consumed) = "complete"
  PROVE  LET k == Resolve(r)
         IN /\ Rest(k) /\ Prompt(k) /\ k.closed = r.closed
            /\ Bounded(r) => Bounded(k)
<1> DEFINE end == FrameEnd(r.consumed)
           c == Consume(r, end)
           c0 == [c EXCEPT !.frameDeadline = NoTimer]
           e == EnsureFrameDeadline(c0)
           k == Resolve(r)
           left == {x \in r.chunkEnds : x > end}
<1>0. r.consumed \in Nat /\ r.received \in Nat /\ r.consumed \in r.consumed..r.received
  BY DEF Shape, Readers
<1>1. end \in r.consumed + 1..r.received /\ end \in Nat /\ end >= r.consumed
      /\ r.consumed \in Nat /\ r.received \in Nat
  BY <1>0, VerdictFacts
<1>2. Shape(c)
  BY <1>1, ConsumeShape
<1>3. /\ c.chunkEnds = left /\ c.received = r.received /\ c.consumed = end
      /\ c.pending = r.pending /\ c.closed = r.closed
  BY DEF Consume, Shape, Readers
<1> HIDE DEF c
<1>4. /\ Shape(c0) /\ c0.chunkEnds = left /\ c0.received = r.received
      /\ c0.frameDeadline = NoTimer /\ c0.consumed = end
      /\ c0.pending = r.pending /\ c0.closed = r.closed
  BY <1>2, <1>3 DEF Shape, Readers, Held, InOrder
<1> HIDE DEF c0
<1>5. /\ Shape(e) /\ e.chunkEnds = left /\ e.received = r.received
      /\ e.consumed = end /\ e.pending = r.pending /\ e.closed = r.closed
  BY <1>4, EnsureSound, EnsureTidy
<1> HIDE DEF e
<1>6. k = [e EXCEPT !.pending = None, !.call[r.pending] = "resolved",
                    !.delivered = Append(r.delivered, Handed(r))]
  BY DEF Resolve, Handed, e, c0, c
<1> HIDE DEF k
<1>7. /\ k.chunkEnds = left /\ k.received = r.received /\ k.consumed = end
      /\ k.pending = None /\ k.closed = r.closed
  BY <1>5, <1>6 DEF Shape, Readers
<1>8. IsFiniteSet(left) /\ left \subseteq r.chunkEnds
  BY FS_Subset DEF Rest
<1>9. ASSUME Bounded(r) PROVE Bounded(k)
  <2> DEFINE before == {x \in r.chunkEnds : x > r.consumed}
             after  == {x \in left : x > end}
  <2>1. IsFiniteSet(before) /\ after \subseteq before
    <3>1. r.chunkEnds \subseteq Nat
      BY DEF Shape, Readers
    <3> QED BY <1>1, <3>1, FS_Subset DEF Rest
  <2>2. Cardinality(after) <= Cardinality(before)
    BY <2>1, FS_Subset
  <2>3. Cardinality(after) \in Nat /\ Cardinality(before) \in Nat
    BY <2>1, FS_Subset, FS_CardinalityType
  <2>4. PendingChunkCount(k) = Cardinality(after) /\ PendingChunkCount(r) = Cardinality(before)
    BY <1>7 DEF PendingChunkCount
  <2> HIDE DEF before, after
  <2>5. PendingChunkCount(k) <= MAX_PENDING_CHUNKS
    BY <1>9, <2>2, <2>3, <2>4, ReaderAssumption DEF Bounded
  <2>6. Length(k) <= HEADER_LEN + MAX_FRAME_LEN
    BY <1>1, <1>7, <1>9, ReaderAssumption DEF Length, Bounded
  <2> QED BY <2>5, <2>6 DEF Bounded
<1> QED BY <1>7, <1>8, <1>9 DEF Rest, Prompt, k

LEMMA TryResolveTidy ==
  ASSUME Env, NEW r, Shape(r), Rest(r)
  PROVE  LET k == TryResolve(r)
         IN Rest(k) /\ Prompt(k) /\ (Bounded(r) => Bounded(k))
<1> DEFINE v == Verdict(r, r.consumed)
<1>1. CASE r.pending = None \/ v = "incomplete"
  BY <1>1 DEF TryResolve, Prompt
<1>2. CASE r.pending # None /\ v = "complete"
  BY <1>2, ResolveTidy DEF TryResolve, Rest
<1>3. CASE r.pending # None /\ v # "complete" /\ v # "incomplete"
  BY <1>3, FailTidy DEF TryResolve, Tidy
<1> QED BY <1>1, <1>2, <1>3

LEMMA FloodCheckTidy ==
  ASSUME Env, NEW r, Shape(r), Rest(r), Prompt(r)
  PROVE  Tidy(FloodCheck(r))
<1>0. r.consumed \in Nat /\ r.received \in Nat /\ r.closed \in BOOLEAN
  BY DEF Shape, Readers
<1>1. CASE r.closed
  <2>1. {e \in r.chunkEnds : e > r.consumed} = {}
    BY <1>1 DEF Rest
  <2>2. PendingChunkCount(r) = 0 /\ Length(r) = 0
    BY <1>0, <1>1, <2>1, FS_EmptySet DEF PendingChunkCount, Length, Rest
  <2> QED BY <1>1, <2>2, ReaderAssumption DEF FloodCheck, Tidy, Bounded
<1>2. CASE ~r.closed /\ (\/ Length(r) > HEADER_LEN + MAX_FRAME_LEN
                        \/ PendingChunkCount(r) > MAX_PENDING_CHUNKS)
  BY <1>2, FailTidy DEF FloodCheck
<1>3. CASE ~r.closed /\ ~(\/ Length(r) > HEADER_LEN + MAX_FRAME_LEN
                         \/ PendingChunkCount(r) > MAX_PENDING_CHUNKS)
  <2>1. {e \in r.chunkEnds : e > r.consumed} \subseteq r.chunkEnds
    OBVIOUS
  <2>2. PendingChunkCount(r) \in Nat
    BY <2>1, FS_Subset, FS_CardinalityType DEF PendingChunkCount, Rest
  <2>3. Bounded(r)
    BY <1>0, <1>3, <2>2, ReaderAssumption DEF Bounded, Length
  <2> QED BY <1>3, <2>3 DEF FloodCheck, Tidy
<1> QED BY <1>0, <1>1, <1>2, <1>3

LEMMA StepTidy ==
  ASSUME IInv, Tidy(reader), [Next]_vars
  PROVE  Tidy(reader)'
<1>0. Shape(reader) /\ reader \in Readers /\ Env /\ wire' = wire
  BY StepSound DEF IInv, Sound, Shape
<1>1. ASSUME NEW n \in 1..MaxChunk, Push(n)
      PROVE  Tidy(reader')
  <2> DEFINE b == Buffered(reader, n)
             e == EnsureFrameDeadline(b)
             t == TryResolve(e)
  <2>1. /\ Sound(b) /\ (b.frameDeadline = NoTimer \/ (b.census < b.received /\ Armed(b)))
        /\ b.closed = reader.closed
    BY <1>0, <1>1, BufferedSound, ReaderAssumption DEF Push, IInv
  <2>2. b.chunkEnds = reader.chunkEnds \cup {reader.received + n}
    BY <1>0 DEF Buffered, Readers
  <2> HIDE DEF b
  <2>3. Rest(b)
    <3>1. IsFiniteSet(b.chunkEnds)
      BY <2>2, FS_AddElement DEF Tidy, Rest
    <3>2. ~b.closed
      BY <1>1, <2>1 DEF Push
    <3> QED BY <3>1, <3>2 DEF Rest
  <2>4. Shape(e) /\ Rest(e) /\ Sound(e) /\ Armed(e)
    BY <1>0, <2>1, <2>3, EnsureSound, EnsureTidy DEF Sound, Rest, Punctual, Waiter
  <2> HIDE DEF e
  <2>5. Rest(t) /\ Prompt(t) /\ Shape(t)
    BY <1>0, <2>4, TryResolveTidy, TryResolveSound DEF Sound
  <2> HIDE DEF t
  <2> QED BY <1>0, <1>1, <2>5, FloodCheckTidy DEF Push, b, e, t
<1>2. ASSUME NEW c \in Callers, ReadFrame(c)
      PROVE  Tidy(reader')
  <2>1. CASE reader.closed \/ reader.pending # None
    <3>1. reader' = [reader EXCEPT !.call[c] = "rejected"]
      BY <1>2, <2>1 DEF ReadFrame
    <3>2. /\ reader'.received = reader.received /\ reader'.consumed = reader.consumed
          /\ reader'.arrival = reader.arrival /\ reader'.chunkEnds = reader.chunkEnds
          /\ reader'.pending = reader.pending /\ reader'.closed = reader.closed
      BY <1>0, <3>1 DEF Readers
    <3>3. Verdict(reader', reader.consumed) = Verdict(reader, reader.consumed)
      BY <3>2, SameVerdict
    <3> QED BY <3>2, <3>3 DEF Tidy, Rest, Bounded, Prompt, Length, PendingChunkCount
  <2>2. CASE ~reader.closed /\ reader.pending = None
    <3> DEFINE w == [reader EXCEPT !.pending = c, !.call[c] = "waiting"]
               e == EnsureFrameDeadline(w)
    <3>1. /\ w \in Readers
          /\ w.consumed = reader.consumed /\ w.received = reader.received
          /\ w.census = reader.census /\ w.arrival = reader.arrival
          /\ w.closed = reader.closed /\ w.closeError = reader.closeError
          /\ w.frameDeadline = reader.frameDeadline /\ w.chunkEnds = reader.chunkEnds
      BY <1>0 DEF Readers
    <3> HIDE DEF w
    <3>2. Shape(w) /\ Rest(w) /\ Bounded(w) /\ Armed(w)
      BY <1>0, <2>2, <3>1
         DEF IInv, Shape, Held, InOrder, Armed, Tidy, Rest, Bounded, Length, PendingChunkCount
    <3>3. w.frameDeadline = NoTimer \/ (w.census < w.received /\ Armed(w))
      BY <3>2 DEF Armed
    <3>4. Shape(e) /\ Rest(e) /\ Bounded(e)
      BY <1>0, <3>2, <3>3, EnsureSound, EnsureTidy
         DEF Rest, Bounded, Length, PendingChunkCount
    <3> HIDE DEF e
    <3> QED BY <1>0, <1>2, <2>2, <3>4, TryResolveTidy DEF ReadFrame, Tidy, e, w
  <2>3. reader.closed \in BOOLEAN
    BY <1>0 DEF Readers
  <2> QED BY <2>1, <2>2, <2>3
<1>3. ASSUME DeadlineFires
      PROVE  Tidy(reader')
  <2>1. PICK p \in reader.census..reader.received :
          reader' = AfterScan([reader EXCEPT !.frameDeadline = NoTimer, !.census = p], p)
    BY <1>3 DEF DeadlineFires
  <2> DEFINE s == [reader EXCEPT !.frameDeadline = NoTimer, !.census = p]
  <2>2. /\ reader.consumed \in Nat /\ reader.census \in Nat /\ reader.received \in Nat
        /\ reader.consumed <= reader.census
    BY <1>0 DEF Shape, Readers
  <2>3. /\ s \in Readers /\ s.census = p
        /\ s.consumed = reader.consumed /\ s.received = reader.received
        /\ s.arrival = reader.arrival /\ s.closed = reader.closed
        /\ s.closeError = reader.closeError /\ s.chunkEnds = reader.chunkEnds
        /\ s.pending = reader.pending
    <3>1. p \in Nat
      BY <2>2
    <3> QED BY <1>0, <3>1 DEF Readers
  <2> HIDE DEF s
  <2>4. Shape(s)
    BY <1>0, <2>2, <2>3 DEF Shape, Held, InOrder
  <2>5. CASE \E err : reader' = Fail(s, err)
    BY <2>4, <2>5, FailTidy
  <2>6. CASE \A err : reader' # Fail(s, err)
    <3>1. reader' = s \/ reader' = ArmAt(s, s.arrival[p])
      BY <2>1, <2>6 DEF AfterScan, s
    <3>2. /\ reader'.received = reader.received /\ reader'.consumed = reader.consumed
          /\ reader'.arrival = reader.arrival /\ reader'.chunkEnds = reader.chunkEnds
          /\ reader'.pending = reader.pending /\ reader'.closed = reader.closed
      BY <2>3, <3>1 DEF ArmAt, Readers
    <3>3. Verdict(reader', reader.consumed) = Verdict(reader, reader.consumed)
      BY <3>2, SameVerdict
    <3> QED BY <3>2, <3>3 DEF Tidy, Rest, Bounded, Prompt, Length, PendingChunkCount
  <2> QED BY <2>5, <2>6
<1>4. ASSUME SocketFails PROVE Tidy(reader')
  BY <1>0, <1>4, FailTidy DEF SocketFails
<1>5. ASSUME Tick \/ UNCHANGED vars PROVE Tidy(reader')
  BY <1>5 DEF Tick, vars
<1>6. Tidy(reader')
  BY <1>1, <1>2, <1>3, <1>4, <1>5 DEF Next
<1>7. Tidy(reader)' <=> Tidy(reader')
  BY <1>0 DEF Tidy, Rest, Bounded, Prompt, Verdict, Overran, FrameEnd, PayloadLen
<1> QED BY <1>6, <1>7

LEMMA InitTidy == ASSUME Init PROVE Tidy(reader)
<1>1. reader = EmptyReader
  BY DEF Init
<1>2. {e \in EmptyReader.chunkEnds : e > EmptyReader.consumed} = {}
  BY DEF EmptyReader
<1>3. PendingChunkCount(EmptyReader) = 0 /\ Length(EmptyReader) = 0
  BY <1>2, FS_EmptySet DEF PendingChunkCount, Length, EmptyReader
<1>4. Rest(EmptyReader) /\ Prompt(EmptyReader)
  BY FS_EmptySet DEF Rest, Prompt, EmptyReader
<1> QED BY <1>1, <1>3, <1>4, ReaderAssumption DEF Tidy, Bounded

LEMMA AlwaysTidy == Spec => []Tidy(reader)
<1>1. Init => Tidy(reader)
  BY InitTidy
<1>2. IInv /\ Tidy(reader) /\ [Next]_vars => Tidy(reader)'
  BY StepTidy
<1> QED BY <1>1, <1>2, InductiveInvariant, PTL DEF Spec

(* An application that does not read cannot make the buffer grow past one        *)
(* maximum frame or the fragment cap.                                            *)
THEOREM AlwaysBounded == Spec => []BoundedBuffer
<1>1. Tidy(reader) => BoundedBuffer
  BY DEF Tidy, Bounded, BoundedBuffer
<1> QED BY <1>1, AlwaysTidy, PTL

(* No readFrame() promise is forgotten, and no caller waits in front of a        *)
(* complete frame.                                                               *)
THEOREM AlwaysPrompt == Spec => []PromptDelivery
<1>1. IInv /\ Tidy(reader) => PromptDelivery
  BY DEF IInv, Sound, Waiter, Tidy, Prompt, PromptDelivery
<1> QED BY <1>1, InductiveInvariant, AlwaysTidy, PTL
--------------------------------------------------------------------------------
(* The chunk queue. At every moment of a callback the unread entries tile the     *)
(* unread bytes of a reader value r: in order, without gap or overlap, each with   *)
(* its arrival and its end; and a cursor stands at the byte it is meant to.        *)
Entries == [from : Nat, to : Nat, at : Nat \cup {NotHeld}]
Queues == [chunks : Seq(Entries), chunkIndex : Nat, head : Nat, length : Nat,
           censusChunkIndex : Int, censusOffset : Nat, censusBytes : Nat]
Unread(q) == q.chunkIndex..Len(q.chunks) - 1

Tiled(q, r) ==
  /\ q.chunkIndex <= Len(q.chunks)
  /\ \A i \in Unread(q) :
       /\ Chunk(q, i).from < Chunk(q, i).to
       /\ r.consumed < Chunk(q, i).to /\ Chunk(q, i).to <= r.received
       /\ Chunk(q, i).to \in r.chunkEnds
       /\ \A p \in r.consumed..r.received - 1 :
            Chunk(q, i).from <= p /\ p < Chunk(q, i).to => Chunk(q, i).at = r.arrival[p]
  /\ \A i, j \in Unread(q) : i < j => Chunk(q, i).to <= Chunk(q, j).from
  /\ \A p \in r.consumed..r.received - 1 :
       \E i \in Unread(q) : Chunk(q, i).from <= p /\ p < Chunk(q, i).to
  /\ \A e \in r.chunkEnds :
       r.consumed < e => \E i \in Unread(q) : Chunk(q, i).to = e

Stands(q, idx, offset, p, r) ==
  IF p = r.received THEN idx = Len(q.chunks) /\ offset = 0
  ELSE /\ idx \in Unread(q)
       /\ Chunk(q, idx).from <= p /\ p < Chunk(q, idx).to
       /\ offset = p - Chunk(q, idx).from

Agree(q, r) ==
  /\ q \in Queues /\ Tiled(q, r)
  /\ Stands(q, q.chunkIndex, q.head, r.consumed, r)
  /\ Stands(q, q.censusChunkIndex, q.censusOffset, r.census, r)
  /\ q.length = r.received - r.consumed
  /\ q.censusBytes = r.census - r.consumed
--------------------------------------------------------------------------------
LEMMA ChunkTyped ==
  ASSUME NEW q \in Queues, q.chunkIndex <= Len(q.chunks), NEW i \in Unread(q)
  PROVE  /\ i \in Int /\ 0 <= i /\ i < Len(q.chunks) /\ q.chunkIndex <= i
         /\ Chunk(q, i) \in Entries
         /\ Chunk(q, i).from \in Nat /\ Chunk(q, i).to \in Nat
<1>1. q.chunks \in Seq(Entries) /\ q.chunkIndex \in Nat /\ Len(q.chunks) \in Nat
  BY DEF Queues
<1>2. i \in Int /\ 0 <= i /\ i < Len(q.chunks) /\ q.chunkIndex <= i
  BY <1>1 DEF Unread
<1>3. Chunk(q, i) \in Entries
  <2>1. i + 1 \in 1..Len(q.chunks)
    BY <1>1, <1>2
  <2> QED BY <1>1, <2>1, ElementOfSeq DEF Chunk
<1> QED BY <1>2, <1>3 DEF Entries

(* A cursor that walks n bytes on comes to stand n bytes further.                 *)
LEMMA AheadStands ==
  ASSUME NEW q \in Queues, NEW r, r.consumed \in Nat, r.received \in Nat, Tiled(q, r),
         NEW p \in Nat, r.consumed <= p, p < r.received,
         NEW idx, NEW offset, Stands(q, idx, offset, p, r),
         NEW n \in Nat, p + n <= r.received
  PROVE  LET a == Ahead(q, idx, offset, n)
         IN Stands(q, a.idx, a.offset, p + n, r)
<1> DEFINE target == Chunk(q, idx).from + offset + n
           beyond == {i \in idx..Len(q.chunks) - 1 : target < Chunk(q, i).to}
           entry  == CHOOSE i \in beyond : \A j \in beyond : i <= j
<1>0. /\ q.chunkIndex <= Len(q.chunks) /\ q.chunkIndex \in Nat /\ Len(q.chunks) \in Nat
      /\ \A i \in Unread(q) : /\ i \in Int /\ i < Len(q.chunks) /\ q.chunkIndex <= i
                              /\ Chunk(q, i).from \in Nat /\ Chunk(q, i).to \in Nat
                              /\ Chunk(q, i).to <= r.received
      /\ \A i, j \in Unread(q) : i < j => Chunk(q, i).to <= Chunk(q, j).from
  <2>1. q.chunkIndex <= Len(q.chunks) /\ q.chunkIndex \in Nat /\ Len(q.chunks) \in Nat
    BY DEF Queues, Tiled
  <2> QED BY <2>1, ChunkTyped DEF Tiled
<1>1. /\ idx \in Unread(q) /\ Chunk(q, idx).from <= p /\ p < Chunk(q, idx).to
      /\ target = p + n
  BY <1>0 DEF Stands
<1>2. beyond = {i \in idx..Len(q.chunks) - 1 : p + n < Chunk(q, i).to}
  BY <1>1
<1>3. idx..Len(q.chunks) - 1 \subseteq Unread(q)
  BY <1>0, <1>1 DEF Unread
<1> HIDE DEF target
<1>4. CASE p + n = r.received
  <2>1. beyond = {}
    BY <1>0, <1>2, <1>3, <1>4
  <2> QED BY <1>4, <2>1 DEF Ahead, Stands, target
<1>5. CASE p + n < r.received
  <2>0. p + n \in r.consumed..r.received - 1
    BY <1>5
  <2>1. PICK k \in Unread(q) : Chunk(q, k).from <= p + n /\ p + n < Chunk(q, k).to
    BY <2>0 DEF Tiled
  <2>2. idx <= k
    BY <1>0, <1>1, <2>1
  <2>3. k \in beyond
    BY <1>0, <1>2, <2>1, <2>2
  <2>4. \A j \in beyond : j \in Int /\ k <= j
    <3> SUFFICES ASSUME NEW j \in beyond PROVE j \in Int /\ k <= j
      OBVIOUS
    <3>1. j \in Unread(q) /\ p + n < Chunk(q, j).to
      BY <1>2, <1>3
    <3>2. j \in Int /\ k \in Int /\ Chunk(q, j).to \in Nat /\ Chunk(q, k).from \in Nat
      BY <1>0, <2>1, <3>1
    <3>3. j < k => Chunk(q, j).to <= Chunk(q, k).from
      BY <1>0, <2>1, <3>1
    <3> QED BY <2>1, <3>1, <3>2, <3>3
  <2>5. entry = k
    BY <1>0, <2>1, <2>3, <2>4
  <2>6. beyond # {} => /\ Ahead(q, idx, offset, n).idx = entry
                       /\ Ahead(q, idx, offset, n).offset = target - Chunk(q, entry).from
    BY DEF Ahead, target
  <2> HIDE DEF beyond, entry
  <2>7. beyond # {} /\ target = p + n
    BY <1>1, <2>3
  <2> DEFINE a == Ahead(q, idx, offset, n)
  <2>8. a.idx = entry /\ a.offset = target - Chunk(q, entry).from
    BY <2>6, <2>7
  <2> HIDE DEF a
  <2>9. a.idx = k /\ a.offset = (p + n) - Chunk(q, k).from
    BY <2>5, <2>7, <2>8
  <2>10. p + n # r.received
    BY <1>5
  <2>11. Stands(q, a.idx, a.offset, p + n, r)
    BY <2>1, <2>9, <2>10 DEF Stands
  <2> QED BY <2>11 DEF a
<1> QED BY <1>4, <1>5

(* Slicing off the d oldest entries moves every index by d and nothing else.      *)
LEMMA ShiftAgrees ==
  ASSUME NEW q \in Queues, NEW k \in Queues, NEW r, Tiled(q, r),
         NEW d \in Nat, d <= q.chunkIndex,
         Len(k.chunks) = Len(q.chunks) - d, k.chunkIndex = q.chunkIndex - d,
         \A i \in Unread(q) : Chunk(k, i - d) = Chunk(q, i)
  PROVE  /\ Tiled(k, r)
         /\ \A idx \in Int : \A offset, p :
              Stands(q, idx, offset, p, r) => Stands(k, idx - d, offset, p, r)
<1>1. /\ q.chunkIndex \in Nat /\ Len(q.chunks) \in Nat /\ q.chunkIndex <= Len(q.chunks)
      /\ k.chunkIndex \in Nat /\ Len(k.chunks) \in Nat /\ k.chunkIndex <= Len(k.chunks)
  <2>1. q.chunkIndex \in Nat /\ Len(q.chunks) \in Nat /\ q.chunkIndex <= Len(q.chunks)
    BY DEF Queues, Tiled
  <2>2. k.chunkIndex \in Nat /\ Len(k.chunks) \in Nat
    BY DEF Queues
  <2> QED BY <2>1, <2>2
<1>2. \A i \in Unread(k) : i \in Int /\ i + d \in Unread(q) /\ Chunk(k, i) = Chunk(q, i + d)
  <2> SUFFICES ASSUME NEW i \in Unread(k)
               PROVE  i \in Int /\ i + d \in Unread(q) /\ Chunk(k, i) = Chunk(q, i + d)
    OBVIOUS
  <2>1. i \in Int /\ i + d \in Unread(q)
    BY <1>1 DEF Unread
  <2>2. Chunk(k, (i + d) - d) = Chunk(q, i + d) /\ (i + d) - d = i
    BY <2>1
  <2> QED BY <2>1, <2>2
<1>3. \A i \in Unread(q) : i \in Int /\ i - d \in Unread(k) /\ Chunk(k, i - d) = Chunk(q, i)
  BY <1>1 DEF Unread
<1>4. Tiled(k, r)
  <2>1. \A i \in Unread(k) :
          /\ Chunk(k, i).from < Chunk(k, i).to
          /\ r.consumed < Chunk(k, i).to /\ Chunk(k, i).to <= r.received
          /\ Chunk(k, i).to \in r.chunkEnds
          /\ \A p \in r.consumed..r.received - 1 :
               Chunk(k, i).from <= p /\ p < Chunk(k, i).to => Chunk(k, i).at = r.arrival[p]
    BY <1>2 DEF Tiled
  <2>2. \A i, j \in Unread(k) : i < j => Chunk(k, i).to <= Chunk(k, j).from
    <3> SUFFICES ASSUME NEW i \in Unread(k), NEW j \in Unread(k), i < j
                 PROVE  Chunk(k, i).to <= Chunk(k, j).from
      OBVIOUS
    <3>1. i + d \in Unread(q) /\ j + d \in Unread(q) /\ i + d < j + d
      BY <1>2
    <3>2. Chunk(q, i + d).to <= Chunk(q, j + d).from
      BY <3>1 DEF Tiled
    <3> QED BY <1>2, <3>2
  <2>3. \A p \in r.consumed..r.received - 1 :
          \E i \in Unread(k) : Chunk(k, i).from <= p /\ p < Chunk(k, i).to
    <3> SUFFICES ASSUME NEW p \in r.consumed..r.received - 1
                 PROVE  \E i \in Unread(k) : Chunk(k, i).from <= p /\ p < Chunk(k, i).to
      OBVIOUS
    <3>1. PICK i \in Unread(q) : Chunk(q, i).from <= p /\ p < Chunk(q, i).to
      BY DEF Tiled
    <3> QED BY <1>3, <3>1
  <2>4. \A e \in r.chunkEnds : r.consumed < e => \E i \in Unread(k) : Chunk(k, i).to = e
    <3> SUFFICES ASSUME NEW e \in r.chunkEnds, r.consumed < e
                 PROVE  \E i \in Unread(k) : Chunk(k, i).to = e
      OBVIOUS
    <3>1. PICK i \in Unread(q) : Chunk(q, i).to = e
      BY DEF Tiled
    <3> QED BY <1>3, <3>1
  <2> QED BY <1>1, <2>1, <2>2, <2>3, <2>4 DEF Tiled
<1>5. ASSUME NEW idx \in Int, NEW offset, NEW p, Stands(q, idx, offset, p, r)
      PROVE  Stands(k, idx - d, offset, p, r)
  BY <1>1, <1>3, <1>5 DEF Stands
<1> QED BY <1>4, <1>5

LEMMA CompactAgrees ==
  ASSUME NEW q \in Queues, NEW r, Tiled(q, r),
         Stands(q, q.chunkIndex, q.head, r.consumed, r)
  PROVE  LET k == CompactChunks(q)
         IN /\ k \in Queues /\ Tiled(k, r)
            /\ k.length = q.length /\ k.censusBytes = q.censusBytes
            /\ Stands(k, k.chunkIndex, k.head, r.consumed, r)
            /\ \A p : Stands(q, q.censusChunkIndex, q.censusOffset, p, r)
                        => Stands(k, k.censusChunkIndex, k.censusOffset, p, r)
<1> DEFINE k == CompactChunks(q)
<1>1. /\ q.chunks \in Seq(Entries) /\ Len(q.chunks) \in Nat /\ q.chunkIndex \in Nat
      /\ q.chunkIndex <= Len(q.chunks) /\ q.censusChunkIndex \in Int /\ q.censusOffset \in Nat
      /\ q.head \in Nat /\ q.length \in Nat /\ q.censusBytes \in Nat
  BY DEF Queues, Tiled
<1>2. CASE q.chunkIndex = Len(q.chunks)
  <2>1. k = [q EXCEPT !.chunks = <<>>, !.chunkIndex = 0,
                      !.censusChunkIndex = 0, !.censusOffset = 0]
    BY <1>2 DEF CompactChunks
  <2>2. /\ k.chunks = <<>> /\ k.chunkIndex = 0 /\ k.head = q.head
        /\ k.censusChunkIndex = 0 /\ k.censusOffset = 0
        /\ k.length = q.length /\ k.censusBytes = q.censusBytes
        /\ k \in Queues
    <3>1. /\ k.chunks = <<>> /\ k.chunkIndex = 0 /\ k.head = q.head
          /\ k.censusChunkIndex = 0 /\ k.censusOffset = 0
          /\ k.length = q.length /\ k.censusBytes = q.censusBytes
      BY <1>1, <2>1 DEF Queues
    <3>2. <<>> \in Seq(Entries)
      OBVIOUS
    <3>3. k = [chunks |-> <<>>, chunkIndex |-> 0, head |-> q.head, length |-> q.length,
               censusChunkIndex |-> 0, censusOffset |-> 0, censusBytes |-> q.censusBytes]
      BY <2>1 DEF Queues
    <3>4. k \in Queues
      BY <1>1, <3>2, <3>3 DEF Queues
    <3> QED BY <3>1, <3>4
  <2> HIDE DEF k
  <2>3. /\ Len(k.chunks) = 0 /\ Unread(k) = {} /\ Unread(q) = {}
    BY <1>1, <1>2, <2>2 DEF Unread
  <2>4. Tiled(k, r)
    BY <2>2, <2>3 DEF Tiled
  <2>5. Stands(k, k.chunkIndex, k.head, r.consumed, r)
    BY <2>2, <2>3 DEF Stands
  <2>6. \A p : Stands(q, q.censusChunkIndex, q.censusOffset, p, r)
                 => Stands(k, k.censusChunkIndex, k.censusOffset, p, r)
    BY <2>2, <2>3 DEF Stands
  <2> QED BY <2>2, <2>4, <2>5, <2>6 DEF k
<1>3. CASE /\ q.chunkIndex # Len(q.chunks)
           /\ q.chunkIndex >= CHUNK_COMPACT_THRESHOLD /\ q.chunkIndex * 2 >= Len(q.chunks)
  <2> DEFINE d == q.chunkIndex
             rest == SubSeq(q.chunks, d + 1, Len(q.chunks))
  <2>1. k = [q EXCEPT !.chunks = rest, !.chunkIndex = 0, !.censusChunkIndex = @ - d]
    BY <1>3 DEF CompactChunks
  <2>2. \A i \in d + 1..Len(q.chunks) : q.chunks[i] \in Entries
    BY <1>1, ElementOfSeq
  <2>3. /\ rest \in Seq(Entries) /\ Len(rest) = Len(q.chunks) - d
        /\ \A i \in 1..Len(q.chunks) - d : rest[i] = q.chunks[d + i]
    <3> DEFINE m == d + 1
               n == Len(q.chunks)
    <3>1. m \in Int /\ n \in Int /\ m <= n /\ d \in Nat
      BY <1>1, <1>3
    <3>2. \A i \in m..n : q.chunks[i] \in Entries
      BY <2>2
    <3> HIDE DEF m, n
    <3>3. /\ SubSeq(q.chunks, m, n) \in Seq(Entries)
          /\ Len(SubSeq(q.chunks, m, n)) = IF m <= n THEN n - m + 1 ELSE 0
          /\ \A i \in 1..n - m + 1 : SubSeq(q.chunks, m, n)[i] = q.chunks[m + i - 1]
      BY <3>1, <3>2, SubSeqProperties
    <3>4. /\ SubSeq(q.chunks, m, n) \in Seq(Entries)
          /\ Len(SubSeq(q.chunks, m, n)) = n - d
          /\ \A i \in 1..n - d : SubSeq(q.chunks, m, n)[i] = q.chunks[m + i - 1]
      BY <3>1, <3>3 DEF m
    <3>5. \A i \in 1..n - d : m + i - 1 = d + i
      BY <3>1 DEF m
    <3> QED BY <3>4, <3>5 DEF m, n
  <2> HIDE DEF rest
  <2>4. /\ k.chunks = rest /\ k.chunkIndex = 0 /\ k.head = q.head
        /\ k.censusChunkIndex = q.censusChunkIndex - d /\ k.censusOffset = q.censusOffset
        /\ k.length = q.length /\ k.censusBytes = q.censusBytes
        /\ k \in Queues
    <3>1. k = [chunks |-> rest, chunkIndex |-> 0, head |-> q.head, length |-> q.length,
               censusChunkIndex |-> q.censusChunkIndex - d, censusOffset |-> q.censusOffset,
               censusBytes |-> q.censusBytes]
      BY <2>1 DEF Queues
    <3>2. q.censusChunkIndex - d \in Int
      BY <1>1
    <3>3. k \in Queues
      BY <1>1, <2>3, <3>1, <3>2 DEF Queues
    <3> QED BY <3>1, <3>3
  <2> HIDE DEF k
  <2>5. \A i \in Unread(q) : Chunk(k, i - d) = Chunk(q, i)
    <3> SUFFICES ASSUME NEW i \in Unread(q) PROVE Chunk(k, i - d) = Chunk(q, i)
      OBVIOUS
    <3>0. i \in Int /\ q.chunkIndex <= i /\ i <= Len(q.chunks) - 1
      BY <1>1 DEF Unread
    <3>1. i \in Int /\ i - d + 1 \in 1..Len(q.chunks) - d /\ d + (i - d + 1) = i + 1
      BY <1>1, <3>0
    <3>2. rest[i - d + 1] = q.chunks[i + 1]
      BY <2>3, <3>1
    <3> QED BY <2>4, <3>2 DEF Chunk
  <2>6. /\ Len(k.chunks) = Len(q.chunks) - d /\ k.chunkIndex = q.chunkIndex - d
        /\ d \in Nat /\ d <= q.chunkIndex
    BY <1>1, <2>3, <2>4
  <2>7. /\ Tiled(k, r)
        /\ \A idx \in Int : \A offset, p :
             Stands(q, idx, offset, p, r) => Stands(k, idx - d, offset, p, r)
    <3> HIDE DEF d
    <3> QED BY <2>4, <2>5, <2>6, ShiftAgrees
  <2>8. Stands(k, k.chunkIndex, k.head, r.consumed, r)
    <3>1. Stands(k, q.chunkIndex - d, q.head, r.consumed, r)
      BY <1>1, <2>7
    <3> QED BY <2>4, <2>6, <3>1
  <2>9. \A p : Stands(q, q.censusChunkIndex, q.censusOffset, p, r)
                 => Stands(k, k.censusChunkIndex, k.censusOffset, p, r)
    BY <1>1, <2>4, <2>7
  <2> QED BY <2>4, <2>7, <2>8, <2>9 DEF k
<1>4. CASE /\ q.chunkIndex # Len(q.chunks)
           /\ ~(q.chunkIndex >= CHUNK_COMPACT_THRESHOLD /\ q.chunkIndex * 2 >= Len(q.chunks))
  BY <1>4 DEF CompactChunks
<1> QED BY <1>2, <1>3, <1>4
LEMMA StandsTyped ==
  ASSUME NEW q \in Queues, NEW r, Tiled(q, r), NEW idx, NEW offset, NEW p \in Nat,
         r.consumed \in Nat, r.received \in Nat, Stands(q, idx, offset, p, r)
  PROVE  idx \in Nat /\ offset \in Nat /\ q.chunkIndex <= idx /\ idx <= Len(q.chunks)
<1>1. Len(q.chunks) \in Nat /\ q.chunkIndex \in Nat /\ q.chunkIndex <= Len(q.chunks)
  BY DEF Queues, Tiled
<1>2. CASE p = r.received
  BY <1>1, <1>2 DEF Stands
<1>3. CASE p # r.received
  BY <1>1, <1>3, ChunkTyped DEF Stands
<1> QED BY <1>2, <1>3

(* What consume is told to do to the offsets: read n bytes on.                    *)
ReadOn(r, s, n) ==
  /\ s.consumed = r.consumed + n /\ s.received = r.received
  /\ s.census = IF r.census < s.consumed THEN s.consumed ELSE r.census
  /\ s.chunkEnds = {e \in r.chunkEnds : e > s.consumed}
  /\ \A p \in s.consumed..s.received - 1 : s.arrival[p] = r.arrival[p]
OffsetsOK(r) == /\ r.consumed \in Nat /\ r.census \in Nat /\ r.received \in Nat
              /\ r.consumed <= r.census /\ r.census <= r.received
              /\ r.chunkEnds \in SUBSET Nat

(* Dropping the entries before the one the n-th byte on lies in keeps the rest.   *)
LEMMA DropAgrees ==
  ASSUME NEW q \in Queues, NEW r, OffsetsOK(r), Tiled(q, r),
         NEW n \in Nat, 0 < n, r.consumed + n <= r.received,
         NEW s, ReadOn(r, s, n),
         NEW idx, NEW offset, Stands(q, idx, offset, r.consumed + n, r),
         NEW k \in Queues, k.chunkIndex = idx, k.head = offset,
         k.chunks = [i \in DOMAIN q.chunks |-> IF i <= idx THEN Gone ELSE q.chunks[i]],
         k.censusChunkIndex = q.censusChunkIndex, k.censusOffset = q.censusOffset
  PROVE  /\ Tiled(k, s)
         /\ Stands(k, k.chunkIndex, k.head, s.consumed, s)
         /\ \A p \in Nat :
           (/\ s.consumed <= p /\ p <= s.received
            /\ Stands(q, q.censusChunkIndex, q.censusOffset, p, r))
             => Stands(k, k.censusChunkIndex, k.censusOffset, p, s)
<1>0. /\ r.consumed \in Nat /\ r.received \in Nat /\ s.consumed \in Nat /\ s.received \in Nat
      /\ s.consumed = r.consumed + n /\ s.received = r.received /\ r.chunkEnds \in SUBSET Nat
      /\ s.chunkEnds = {e \in r.chunkEnds : e > s.consumed}
      /\ \A p \in s.consumed..s.received - 1 : s.arrival[p] = r.arrival[p]
  BY DEF OffsetsOK, ReadOn
<1>1. /\ q.chunks \in Seq(Entries) /\ Len(q.chunks) \in Nat /\ q.chunkIndex \in Nat
      /\ q.chunkIndex <= Len(q.chunks) /\ DOMAIN q.chunks = 1..Len(q.chunks)
      /\ k.chunks \in Seq(Entries) /\ Len(k.chunks) \in Nat
      /\ DOMAIN k.chunks = 1..Len(k.chunks)
  BY DEF Queues, Tiled
<1>2. idx \in Nat /\ q.chunkIndex <= idx /\ idx <= Len(q.chunks)
  BY <1>0, StandsTyped
<1>3. DOMAIN k.chunks = DOMAIN q.chunks
  OBVIOUS
<1>4. Len(k.chunks) = Len(q.chunks)
  BY <1>1, <1>3
<1>5. \A i \in Unread(k) : i \in Int /\ i \in Unread(q) /\ Chunk(k, i) = Chunk(q, i)
  <2> SUFFICES ASSUME NEW i \in Unread(k)
               PROVE  i \in Int /\ i \in Unread(q) /\ Chunk(k, i) = Chunk(q, i)
    OBVIOUS
  <2>1. i \in Int /\ idx <= i /\ i < Len(q.chunks)
    BY <1>1, <1>2, <1>4 DEF Unread
  <2>2. i \in Unread(q) /\ i + 1 \in DOMAIN q.chunks /\ ~(i + 1 <= idx)
    BY <1>1, <1>2, <2>1 DEF Unread
  <2>3. k.chunks[i + 1] = q.chunks[i + 1]
    BY <2>2
  <2> QED BY <2>1, <2>2, <2>3 DEF Chunk
<1>6. \A i \in Unread(q) : idx <= i => i \in Unread(k)
  BY <1>1, <1>2, <1>4 DEF Unread
<1>7. \A i \in Unread(q) : /\ i \in Int /\ Chunk(q, i).from \in Nat /\ Chunk(q, i).to \in Nat
                           /\ Chunk(q, i).from < Chunk(q, i).to
  BY <1>1, ChunkTyped DEF Tiled
(* What ends behind the new head is unread, and nothing else is.                  *)
<1>8. \A i \in Unread(q) : idx <= i <=> s.consumed < Chunk(q, i).to
  <2>1. CASE s.consumed = r.received
    <3>1. idx = Len(q.chunks)
      BY <1>0, <2>1 DEF Stands
    <3>2. \A i \in Unread(q) : Chunk(q, i).to <= r.received
      BY DEF Tiled
    <3> QED BY <1>0, <1>1, <1>7, <2>1, <3>1, <3>2 DEF Unread
  <2>2. CASE s.consumed # r.received
    <3>1. /\ idx \in Unread(q) /\ Chunk(q, idx).from <= s.consumed
          /\ s.consumed < Chunk(q, idx).to
      BY <1>0, <2>2 DEF Stands
    <3>2. \A i \in Unread(q) : i < idx => Chunk(q, i).to <= Chunk(q, idx).from
      BY <3>1 DEF Tiled
    <3>3. \A i \in Unread(q) : idx < i => Chunk(q, idx).to <= Chunk(q, i).from
      BY <3>1 DEF Tiled
    <3> SUFFICES ASSUME NEW i \in Unread(q)
                 PROVE  idx <= i <=> s.consumed < Chunk(q, i).to
      OBVIOUS
    <3>4. /\ i \in Int /\ Chunk(q, i).from \in Nat /\ Chunk(q, i).to \in Nat
          /\ Chunk(q, i).from < Chunk(q, i).to
          /\ Chunk(q, idx).from \in Nat /\ Chunk(q, idx).to \in Nat
      BY <1>7, <3>1
    <3>5. CASE i < idx
      BY <1>0, <1>2, <3>1, <3>2, <3>4, <3>5
    <3>6. CASE i = idx
      BY <1>2, <3>1, <3>6
    <3>7. CASE idx < i
      BY <1>0, <1>2, <3>1, <3>3, <3>4, <3>7
    <3> QED BY <1>2, <3>4, <3>5, <3>6, <3>7
  <2> QED BY <2>1, <2>2
<1>9. Tiled(k, s)
  <2>1. \A i \in Unread(k) :
          /\ Chunk(k, i).from < Chunk(k, i).to
          /\ s.consumed < Chunk(k, i).to /\ Chunk(k, i).to <= s.received
          /\ Chunk(k, i).to \in s.chunkEnds
          /\ \A p \in s.consumed..s.received - 1 :
               Chunk(k, i).from <= p /\ p < Chunk(k, i).to => Chunk(k, i).at = s.arrival[p]
    <3> SUFFICES ASSUME NEW i \in Unread(k)
                 PROVE  /\ Chunk(k, i).from < Chunk(k, i).to
                        /\ s.consumed < Chunk(k, i).to /\ Chunk(k, i).to <= s.received
                        /\ Chunk(k, i).to \in s.chunkEnds
                        /\ \A p \in s.consumed..s.received - 1 :
                             Chunk(k, i).from <= p /\ p < Chunk(k, i).to
                               => Chunk(k, i).at = s.arrival[p]
      OBVIOUS
    <3>1. /\ i \in Unread(q) /\ Chunk(k, i) = Chunk(q, i) /\ i \in Int /\ idx <= i
      BY <1>1, <1>2, <1>5 DEF Unread
    <3>2. /\ Chunk(q, i).from < Chunk(q, i).to /\ Chunk(q, i).to <= r.received
          /\ Chunk(q, i).to \in r.chunkEnds
      BY <3>1 DEF Tiled
    <3>3. s.consumed < Chunk(q, i).to /\ Chunk(q, i).to \in Nat
      BY <1>7, <1>8, <3>1
    <3>4. \A p \in s.consumed..s.received - 1 :
            Chunk(q, i).from <= p /\ p < Chunk(q, i).to => Chunk(q, i).at = s.arrival[p]
      <4> SUFFICES ASSUME NEW p \in s.consumed..s.received - 1,
                          Chunk(q, i).from <= p, p < Chunk(q, i).to
                   PROVE  Chunk(q, i).at = s.arrival[p]
        OBVIOUS
      <4>1. p \in r.consumed..r.received - 1
        BY <1>0
      <4>2. Chunk(q, i).at = r.arrival[p]
        BY <3>1, <4>1 DEF Tiled
      <4> QED BY <1>0, <4>2
    <3> QED BY <1>0, <3>1, <3>2, <3>3, <3>4
  <2>2. \A i, j \in Unread(k) : i < j => Chunk(k, i).to <= Chunk(k, j).from
    BY <1>5 DEF Tiled
  <2>3. \A p \in s.consumed..s.received - 1 :
          \E i \in Unread(k) : Chunk(k, i).from <= p /\ p < Chunk(k, i).to
    <3> SUFFICES ASSUME NEW p \in s.consumed..s.received - 1
                 PROVE  \E i \in Unread(k) : Chunk(k, i).from <= p /\ p < Chunk(k, i).to
      OBVIOUS
    <3>0. p \in r.consumed..r.received - 1 /\ p \in Nat /\ s.consumed <= p
      BY <1>0
    <3>1. PICK i \in Unread(q) : Chunk(q, i).from <= p /\ p < Chunk(q, i).to
      BY <3>0 DEF Tiled
    <3>2. i \in Unread(k)
      BY <1>0, <1>6, <1>7, <1>8, <3>0, <3>1
    <3> QED BY <1>5, <3>1, <3>2
  <2>4. \A e \in s.chunkEnds : s.consumed < e => \E i \in Unread(k) : Chunk(k, i).to = e
    <3> SUFFICES ASSUME NEW e \in s.chunkEnds, s.consumed < e
                 PROVE  \E i \in Unread(k) : Chunk(k, i).to = e
      OBVIOUS
    <3>0. e \in r.chunkEnds /\ e \in Nat /\ r.consumed < e
      BY <1>0
    <3>1. PICK i \in Unread(q) : Chunk(q, i).to = e
      BY <3>0 DEF Tiled
    <3>2. i \in Unread(k)
      BY <1>6, <1>8, <3>1
    <3> QED BY <1>5, <3>1, <3>2
  <2> QED BY <1>2, <1>4, <2>1, <2>2, <2>3, <2>4 DEF Tiled
<1>10. ASSUME NEW i, NEW o, NEW p \in Nat, s.consumed <= p, p <= s.received,
              Stands(q, i, o, p, r)
       PROVE  Stands(k, i, o, p, s)
  <2>1. CASE p = r.received
    BY <1>0, <1>4, <1>10, <2>1 DEF Stands
  <2>2. CASE p # r.received
    <3>1. /\ i \in Unread(q) /\ Chunk(q, i).from <= p /\ p < Chunk(q, i).to
          /\ o = p - Chunk(q, i).from
      BY <1>10, <2>2 DEF Stands
    <3>2. i \in Unread(k)
      BY <1>0, <1>6, <1>7, <1>8, <1>10, <3>1
    <3> QED BY <1>0, <1>5, <2>2, <3>1, <3>2 DEF Stands
  <2> QED BY <2>1, <2>2
<1>11. Stands(k, k.chunkIndex, k.head, s.consumed, s)
  <2>1. s.consumed <= s.consumed /\ s.consumed <= s.received
    BY <1>0
  <2>2. Stands(q, idx, offset, s.consumed, r)
    BY <1>0
  <2>3. Stands(k, idx, offset, s.consumed, s)
    BY <1>0, <1>10, <2>1, <2>2
  <2>4. k.chunkIndex = idx /\ k.head = offset
    OBVIOUS
  <2> QED BY <2>3, <2>4 DEF Stands
<1> QED BY <1>9, <1>10, <1>11
(* #consume moves both cursors to where the offsets are.                          *)
LEMMA ConsumeAgrees ==
  ASSUME NEW q, NEW r, OffsetsOK(r), Agree(q, r),
         NEW n \in Nat, 0 < n, r.consumed + n <= r.received,
         NEW s, ReadOn(r, s, n)
  PROVE  Agree(ConsumeBytes(q, n), s)
<1> DEFINE to   == Ahead(q, q.chunkIndex, q.head, n)
           mid  == [q EXCEPT !.chunks = [i \in DOMAIN @ |-> IF i <= to.idx THEN Gone ELSE @[i]],
                             !.chunkIndex = to.idx, !.head = to.offset, !.length = @ - n,
                             !.censusBytes = IF n > @ THEN 0 ELSE @ - n]
           rest == CompactChunks(mid)
           end  == ConsumeBytes(q, n)
<1>0. /\ r.consumed \in Nat /\ r.received \in Nat /\ r.census \in Nat
      /\ r.consumed <= r.census /\ r.census <= r.received
      /\ s.consumed \in Nat /\ s.received \in Nat
      /\ s.consumed = r.consumed + n /\ s.received = r.received
      /\ s.census = IF r.census < s.consumed THEN s.consumed ELSE r.census
  BY DEF OffsetsOK, ReadOn
<1>1. /\ q \in Queues /\ Tiled(q, r)
      /\ Stands(q, q.chunkIndex, q.head, r.consumed, r)
      /\ Stands(q, q.censusChunkIndex, q.censusOffset, r.census, r)
      /\ q.length = r.received - r.consumed
      /\ q.censusBytes = r.census - r.consumed
  BY DEF Agree
<1>2. /\ q.chunks \in Seq(Entries) /\ Len(q.chunks) \in Nat
      /\ q.censusChunkIndex \in Int /\ q.censusOffset \in Nat
      /\ DOMAIN q.chunks = 1..Len(q.chunks)
  BY <1>1 DEF Queues
<1>3. Stands(q, to.idx, to.offset, s.consumed, r)
  BY <1>0, <1>1, AheadStands
<1>4. to.idx \in Nat /\ to.offset \in Nat
  BY <1>0, <1>1, <1>3, StandsTyped
<1>5. ConsumeBytes(q, n) = IF n > q.censusBytes
                           THEN [rest EXCEPT !.censusChunkIndex = rest.chunkIndex,
                                             !.censusOffset = rest.head]
                           ELSE rest
  BY DEF ConsumeBytes
<1> HIDE DEF to
<1> DEFINE left == [i \in DOMAIN q.chunks |-> IF i <= to.idx THEN Gone ELSE q.chunks[i]]
<1>6. left \in Seq(Entries)
  <2>1. Gone \in Entries
    BY DEF Gone, Entries, NotHeld
  <2>2. \A i \in 1..Len(q.chunks) : q.chunks[i] \in Entries
    BY <1>2, ElementOfSeq
  <2>3. left \in [1..Len(q.chunks) -> Entries]
    BY <1>2, <2>1, <2>2
  <2> DEFINE m == Len(q.chunks)
  <2>4. m \in Nat /\ left \in [1..m -> Entries]
    BY <1>2, <2>3
  <2> HIDE DEF left, m
  <2>5. left \in UNION {[1..j -> Entries] : j \in Nat}
    BY <2>4
  <2> QED BY <2>5, SeqDef
<1> DEFINE bytes == IF n > q.censusBytes THEN 0 ELSE q.censusBytes - n
<1>7. mid = [chunks |-> left, chunkIndex |-> to.idx, head |-> to.offset,
             length |-> q.length - n, censusChunkIndex |-> q.censusChunkIndex,
             censusOffset |-> q.censusOffset, censusBytes |-> bytes]
  <2>1. mid = [q EXCEPT !.chunks = left, !.chunkIndex = to.idx, !.head = to.offset,
                        !.length = q.length - n, !.censusBytes = bytes]
    OBVIOUS
  <2> HIDE DEF mid, left, bytes
  <2> QED BY <1>1, <2>1 DEF Queues
<1> HIDE DEF mid
<1>8. /\ mid.chunks = left /\ mid.chunkIndex = to.idx /\ mid.head = to.offset
      /\ mid.length = s.received - s.consumed
      /\ mid.censusChunkIndex = q.censusChunkIndex /\ mid.censusOffset = q.censusOffset
      /\ mid.censusBytes = s.census - s.consumed
      /\ mid \in Queues
  <2>1. /\ q.length - n = s.received - s.consumed /\ q.length - n \in Nat
        /\ bytes = s.census - s.consumed /\ bytes \in Nat
    BY <1>0, <1>1
  <2> HIDE DEF left, bytes
  <2> QED BY <1>2, <1>4, <1>6, <1>7, <2>1 DEF Queues
<1>9. /\ Tiled(mid, s) /\ Stands(mid, mid.chunkIndex, mid.head, s.consumed, s)
      /\ \A p \in Nat :
           (/\ s.consumed <= p /\ p <= s.received
            /\ Stands(q, q.censusChunkIndex, q.censusOffset, p, r))
             => Stands(mid, mid.censusChunkIndex, mid.censusOffset, p, s)
  <2>1. Stands(q, to.idx, to.offset, r.consumed + n, r)
    BY <1>0, <1>3
  <2> QED BY <1>1, <1>8, <2>1, DropAgrees
<1>10. /\ rest \in Queues /\ Tiled(rest, s)
       /\ rest.length = mid.length /\ rest.censusBytes = mid.censusBytes
       /\ Stands(rest, rest.chunkIndex, rest.head, s.consumed, s)
       /\ \A p : Stands(mid, mid.censusChunkIndex, mid.censusOffset, p, s)
                   => Stands(rest, rest.censusChunkIndex, rest.censusOffset, p, s)
  BY <1>8, <1>9, CompactAgrees
<1> HIDE DEF rest
<1>11. CASE n > q.censusBytes
  <2>1. end = [rest EXCEPT !.censusChunkIndex = rest.chunkIndex, !.censusOffset = rest.head]
    BY <1>5, <1>11
  <2> HIDE DEF end
  <2>2. rest.chunkIndex \in Nat /\ rest.head \in Nat
    BY <1>10 DEF Queues
  <2>3. /\ end.chunks = rest.chunks /\ end.chunkIndex = rest.chunkIndex /\ end.head = rest.head
        /\ end.length = rest.length /\ end.censusBytes = rest.censusBytes
        /\ end.censusChunkIndex = rest.chunkIndex /\ end.censusOffset = rest.head
        /\ end \in Queues
    <3>1. end = [chunks |-> rest.chunks, chunkIndex |-> rest.chunkIndex, head |-> rest.head,
                 length |-> rest.length, censusChunkIndex |-> rest.chunkIndex,
                 censusOffset |-> rest.head, censusBytes |-> rest.censusBytes]
      BY <1>10, <2>1 DEF Queues
    <3>2. /\ rest.chunks \in Seq(Entries) /\ rest.length \in Nat /\ rest.censusBytes \in Nat
          /\ rest.chunkIndex \in Int
      BY <1>10, <2>2 DEF Queues
    <3>3. end \in Queues
      BY <2>2, <3>1, <3>2 DEF Queues
    <3> QED BY <3>1, <3>3
  <2>4. Tiled(end, s)
    BY <1>10, <2>3 DEF Tiled, Unread, Chunk
  <2>5. \A i, o, p : Stands(rest, i, o, p, s) => Stands(end, i, o, p, s)
    BY <2>3 DEF Stands, Unread, Chunk
  <2>6. s.census = s.consumed
    BY <1>0, <1>1, <1>11
  <2>7. Agree(end, s)
    BY <1>8, <1>10, <2>3, <2>4, <2>5, <2>6 DEF Agree
  <2> QED BY <2>7 DEF end
<1>12. CASE ~(n > q.censusBytes)
  <2>1. end = rest
    BY <1>5, <1>12
  <2>2. s.census = r.census /\ s.consumed <= s.census /\ s.census <= s.received
        /\ s.census \in Nat
    BY <1>0, <1>1, <1>12
  <2>3. Stands(rest, rest.censusChunkIndex, rest.censusOffset, s.census, s)
    <3>1. Stands(mid, mid.censusChunkIndex, mid.censusOffset, s.census, s)
      BY <1>1, <1>9, <2>2
    <3> QED BY <1>10, <3>1
  <2>4. Agree(rest, s)
    BY <1>8, <1>10, <2>3 DEF Agree
  <2> QED BY <2>1, <2>4
<1> QED BY <1>11, <1>12
SameOffsets(r, s) ==
  /\ s.consumed = r.consumed /\ s.received = r.received /\ s.census = r.census
  /\ s.chunkEnds = r.chunkEnds /\ s.arrival = r.arrival

LEMMA SameAgree ==
  ASSUME NEW q, NEW r, NEW s, SameOffsets(r, s), Agree(q, r)
  PROVE  Agree(q, s)
<1>1. Tiled(q, s)
  BY DEF SameOffsets, Agree, Tiled
<1>2. \A i, o, p : Stands(q, i, o, p, r) => Stands(q, i, o, p, s)
  BY DEF SameOffsets, Stands
<1> QED BY <1>1, <1>2 DEF SameOffsets, Agree

(* Reading the header and then the payload is reading the frame.                  *)
LEMMA TakeAgrees ==
  ASSUME NEW q, NEW r, OffsetsOK(r), Agree(q, r),
         NEW len \in Nat, r.consumed + HEADER_LEN + len <= r.received,
         NEW s, ReadOn(r, s, HEADER_LEN + len)
  PROVE  Agree(TakeFrame(q, HEADER_LEN + len), s)
<1>0. /\ HEADER_LEN \in Nat /\ 0 < HEADER_LEN /\ r.consumed \in Nat /\ r.received \in Nat
      /\ r.census \in Nat /\ r.consumed <= r.census /\ r.census <= r.received
      /\ r.chunkEnds \in SUBSET Nat
  BY ReaderAssumption DEF OffsetsOK
<1>1. CASE len = 0
  <2>1. HEADER_LEN + len = HEADER_LEN /\ r.consumed + HEADER_LEN <= r.received
    BY <1>0, <1>1
  <2>2. ReadOn(r, s, HEADER_LEN)
    BY <2>1
  <2>3. TakeFrame(q, HEADER_LEN + len) = ConsumeBytes(q, HEADER_LEN)
    BY <2>1 DEF TakeFrame
  <2> QED BY <1>0, <2>1, <2>2, <2>3, ConsumeAgrees
<1>2. CASE len # 0
  <2> DEFINE to == r.consumed + HEADER_LEN
             h == [consumed |-> to, received |-> r.received,
                   census |-> IF r.census < to THEN to ELSE r.census,
                   chunkEnds |-> {e \in r.chunkEnds : e > to}, arrival |-> r.arrival]
             payload == ConsumeBytes(q, HEADER_LEN)
  <2>1. ReadOn(r, h, HEADER_LEN) /\ to <= r.received /\ to \in Nat
    BY <1>0 DEF ReadOn
  <2>2. Agree(payload, h)
    BY <1>0, <2>1, ConsumeAgrees
  <2>3. OffsetsOK(h)
    BY <1>0, <2>1 DEF OffsetsOK
  <2>4. /\ h.consumed + len = s.consumed /\ h.received = s.received
        /\ s.consumed = r.consumed + (HEADER_LEN + len) /\ s.consumed <= s.received
        /\ s.consumed \in Nat /\ to < s.consumed
    BY <1>0, <1>2, <2>1 DEF ReadOn
  <2>5. s.census = IF h.census < s.consumed THEN s.consumed ELSE h.census
    BY <1>0, <2>1, <2>4 DEF ReadOn
  <2>6. s.chunkEnds = {e \in h.chunkEnds : e > s.consumed}
    <3>1. s.chunkEnds = {e \in r.chunkEnds : e > s.consumed}
      BY DEF ReadOn
    <3>2. \A e \in r.chunkEnds : e > s.consumed => e > to
      BY <1>0, <2>1, <2>4
    <3> QED BY <3>1, <3>2
  <2>7. ReadOn(h, s, len)
    BY <2>4, <2>5, <2>6 DEF ReadOn
  <2>8. TakeFrame(q, HEADER_LEN + len) = ConsumeBytes(payload, len)
    <3>1. HEADER_LEN + len # HEADER_LEN /\ (HEADER_LEN + len) - HEADER_LEN = len
      BY <1>0, <1>2
    <3> QED BY <3>1 DEF TakeFrame
  <2>9. h.consumed + len <= h.received /\ 0 < len
    BY <1>2, <2>4
  <2> HIDE DEF h, payload
  <2>10. Agree(ConsumeBytes(payload, len), s)
    BY <2>2, <2>3, <2>7, <2>9, ConsumeAgrees
  <2> QED BY <2>8, <2>10
<1> QED BY <1>1, <1>2

(* The deadline scan moves its own cursor and no other.                           *)
LEMMA ScanAgrees ==
  ASSUME NEW q, NEW r, OffsetsOK(r), Agree(q, r),
         NEW s, s.consumed = r.consumed, s.received = r.received,
         s.chunkEnds = r.chunkEnds, s.arrival = r.arrival,
         s.census \in r.census..r.received
  PROVE  Agree(Scan(q, s.census - r.census), s)
<1> DEFINE n  == s.census - r.census
           to == Ahead(q, q.censusChunkIndex, q.censusOffset, n)
           k  == Scan(q, n)
<1>0. /\ r.consumed \in Nat /\ r.received \in Nat /\ r.census \in Nat /\ s.census \in Nat
      /\ r.consumed <= r.census /\ r.census <= s.census /\ s.census <= r.received
      /\ n \in Nat /\ r.census + n = s.census
  BY DEF OffsetsOK
<1>1. /\ q \in Queues /\ Tiled(q, r)
      /\ Stands(q, q.chunkIndex, q.head, r.consumed, r)
      /\ Stands(q, q.censusChunkIndex, q.censusOffset, r.census, r)
      /\ q.length = r.received - r.consumed
      /\ q.censusBytes = r.census - r.consumed
  BY DEF Agree
<1>2. CASE n = 0
  <2>1. s.census = r.census /\ k = q
    BY <1>0, <1>2 DEF Scan
  <2> QED BY <2>1, SameAgree DEF SameOffsets
<1>3. CASE n # 0
  <2>1. r.census < r.received /\ r.census + n <= r.received
    BY <1>0, <1>3
  <2>2. Stands(q, to.idx, to.offset, s.census, r)
    BY <1>0, <1>1, <2>1, AheadStands
  <2>3. to.idx \in Int /\ to.offset \in Nat
    BY <1>0, <1>1, <2>2, StandsTyped
  <2>4. k = [q EXCEPT !.censusChunkIndex = to.idx, !.censusOffset = to.offset,
                      !.censusBytes = @ + n]
    BY <1>3 DEF Scan
  <2> HIDE DEF k, to, n
  <2>5. /\ q.censusBytes + n \in Nat /\ q.censusBytes + n = s.census - s.consumed
    BY <1>0, <1>1
  <2>6. k = [chunks |-> q.chunks, chunkIndex |-> q.chunkIndex, head |-> q.head,
             length |-> q.length, censusChunkIndex |-> to.idx, censusOffset |-> to.offset,
             censusBytes |-> q.censusBytes + n]
    BY <1>1, <2>4 DEF Queues
  <2>7. k \in Queues
    BY <1>1, <2>3, <2>5, <2>6 DEF Queues
  <2>8. k.chunks = q.chunks /\ k.chunkIndex = q.chunkIndex /\ k.head = q.head
        /\ k.length = q.length /\ k.censusChunkIndex = to.idx
        /\ k.censusOffset = to.offset /\ k.censusBytes = q.censusBytes + n
    BY <2>6
  <2>9. Tiled(k, s)
    BY <1>1, <2>8 DEF Tiled, Unread, Chunk
  <2>10. \A i, o, p : Stands(q, i, o, p, r) => Stands(k, i, o, p, s)
    BY <2>8 DEF Stands, Unread, Chunk
  <2>11. Agree(k, s)
    BY <1>1, <2>2, <2>5, <2>7, <2>8, <2>9, <2>10 DEF Agree
  <2> QED BY <2>11 DEF k, n
<1> QED BY <1>2, <1>3

(* Nothing is buffered in a reader that failed, nor in a fresh one.                *)
LEMMA EmptyAgrees ==
  ASSUME NEW r, r.consumed \in Nat, r.received = r.consumed, r.census = r.consumed,
         r.chunkEnds = {}
  PROVE  Agree(EmptyQueue, r)
<1>1. /\ EmptyQueue.chunks = <<>> /\ Len(EmptyQueue.chunks) = 0 /\ EmptyQueue.chunkIndex = 0
      /\ EmptyQueue.head = 0 /\ EmptyQueue.length = 0 /\ EmptyQueue.censusChunkIndex = 0
      /\ EmptyQueue.censusOffset = 0 /\ EmptyQueue.censusBytes = 0
  BY DEF EmptyQueue
<1>2. EmptyQueue \in Queues
  <2>1. <<>> \in Seq(Entries)
    OBVIOUS
  <2> QED BY <2>1 DEF EmptyQueue, Queues
<1>3. Unread(EmptyQueue) = {} /\ r.consumed..r.received - 1 = {}
  BY <1>1 DEF Unread
<1>4. Tiled(EmptyQueue, r)
  BY <1>1, <1>3 DEF Tiled
<1> QED BY <1>1, <1>2, <1>4 DEF Agree, Stands
(* A pushed chunk is one more entry, which a scan at the end of the buffer stands  *)
(* at.                                                                            *)
LEMMA PushAgrees ==
  ASSUME NEW q, NEW s, OffsetsOK(reader), Agree(q, reader),
         NEW n \in Nat, 0 < n, now \in Nat,
         s.consumed = reader.consumed, s.census = reader.census,
         s.received = reader.received + n,
         s.chunkEnds = reader.chunkEnds \cup {s.received},
         \A p \in s.consumed..s.received - 1 :
           s.arrival[p] = IF reader.received <= p THEN now ELSE reader.arrival[p]
  PROVE  Agree(Pushed(q, n), s)
<1> DEFINE r == reader
           entry == [from |-> r.received, to |-> r.received + n, at |-> now]
           k == Pushed(q, n)
           L == Len(q.chunks)
<1>0. /\ r.consumed \in Nat /\ r.received \in Nat /\ r.census \in Nat /\ s.received \in Nat
      /\ r.consumed <= r.census /\ r.census <= r.received /\ r.chunkEnds \in SUBSET Nat
  BY DEF OffsetsOK
<1>1. /\ q \in Queues /\ Tiled(q, r)
      /\ Stands(q, q.chunkIndex, q.head, r.consumed, r)
      /\ Stands(q, q.censusChunkIndex, q.censusOffset, r.census, r)
      /\ q.length = r.received - r.consumed
      /\ q.censusBytes = r.census - r.consumed
  BY DEF Agree
<1>2. /\ q.chunks \in Seq(Entries) /\ L \in Nat /\ q.chunkIndex \in Nat /\ q.chunkIndex <= L
  BY <1>1 DEF Queues, Tiled
<1>3. entry \in Entries
  BY <1>0 DEF Entries
<1>4. k = [chunks |-> Append(q.chunks, entry), chunkIndex |-> q.chunkIndex, head |-> q.head,
           length |-> q.length + n, censusChunkIndex |-> q.censusChunkIndex,
           censusOffset |-> q.censusOffset, censusBytes |-> q.censusBytes]
  <2>1. k = [q EXCEPT !.chunks = Append(q.chunks, entry), !.length = q.length + n]
    BY DEF Pushed
  <2> HIDE DEF k, entry
  <2> QED BY <1>1, <2>1 DEF Queues
<1> HIDE DEF k, entry
<1>5. /\ k.chunks = Append(q.chunks, entry) /\ k.chunkIndex = q.chunkIndex /\ k.head = q.head
      /\ k.length = q.length + n /\ k.censusChunkIndex = q.censusChunkIndex
      /\ k.censusOffset = q.censusOffset /\ k.censusBytes = q.censusBytes
  BY <1>4
<1>6. /\ Append(q.chunks, entry) \in Seq(Entries) /\ Len(Append(q.chunks, entry)) = L + 1
      /\ \A i \in 1..L : Append(q.chunks, entry)[i] = q.chunks[i]
      /\ Append(q.chunks, entry)[L + 1] = entry
  BY <1>2, <1>3
<1>7. k \in Queues
  <2>1. q.length + n \in Nat
    BY <1>0, <1>1
  <2> QED BY <1>1, <1>4, <1>6, <2>1 DEF Queues
<1>8. /\ Chunk(k, L) = entry
      /\ Chunk(k, L).from = r.received /\ Chunk(k, L).to = s.received /\ Chunk(k, L).at = now
  BY <1>5, <1>6 DEF Chunk, entry
<1>9. \A i \in Unread(q) : i \in Unread(k) /\ i \in Int /\ i < L /\ Chunk(k, i) = Chunk(q, i)
  BY <1>2, <1>5, <1>6 DEF Unread, Chunk
<1>10. /\ L \in Unread(k) /\ Unread(k) = Unread(q) \cup {L} /\ L \notin Unread(q)
  BY <1>2, <1>5, <1>6 DEF Unread
<1>11. \A i \in Unread(q) : /\ Chunk(q, i).from \in Nat /\ Chunk(q, i).to \in Nat
                            /\ Chunk(q, i).from < Chunk(q, i).to
                            /\ r.consumed < Chunk(q, i).to /\ Chunk(q, i).to <= r.received
                            /\ Chunk(q, i).to \in r.chunkEnds
  BY <1>1, <1>2, ChunkTyped DEF Tiled
<1> HIDE DEF L
<1>12. Tiled(k, s)
  <2>1. \A i \in Unread(k) :
          /\ Chunk(k, i).from < Chunk(k, i).to
          /\ s.consumed < Chunk(k, i).to /\ Chunk(k, i).to <= s.received
          /\ Chunk(k, i).to \in s.chunkEnds
          /\ \A p \in s.consumed..s.received - 1 :
               Chunk(k, i).from <= p /\ p < Chunk(k, i).to => Chunk(k, i).at = s.arrival[p]
    <3> SUFFICES ASSUME NEW i \in Unread(k)
                 PROVE  /\ Chunk(k, i).from < Chunk(k, i).to
                        /\ s.consumed < Chunk(k, i).to /\ Chunk(k, i).to <= s.received
                        /\ Chunk(k, i).to \in s.chunkEnds
                        /\ \A p \in s.consumed..s.received - 1 :
                             Chunk(k, i).from <= p /\ p < Chunk(k, i).to
                               => Chunk(k, i).at = s.arrival[p]
      OBVIOUS
    <3>1. CASE i = L
      BY <1>0, <1>8, <3>1
    <3>2. CASE i \in Unread(q)
      <4>1. /\ Chunk(k, i).from < Chunk(k, i).to
            /\ s.consumed < Chunk(k, i).to /\ Chunk(k, i).to <= s.received
            /\ Chunk(k, i).to \in s.chunkEnds
        BY <1>0, <1>9, <1>11, <3>2
      <4>2. ASSUME NEW p \in s.consumed..s.received - 1,
                   Chunk(k, i).from <= p, p < Chunk(k, i).to
            PROVE  Chunk(k, i).at = s.arrival[p]
        <5>1. p \in r.consumed..r.received - 1 /\ ~(r.received <= p)
          BY <1>0, <1>9, <1>11, <3>2, <4>2
        <5>2. Chunk(q, i).at = r.arrival[p]
          BY <1>1, <1>9, <3>2, <4>2, <5>1 DEF Tiled
        <5> QED BY <1>9, <3>2, <5>1, <5>2
      <4> QED BY <4>1, <4>2
    <3> QED BY <1>10, <3>1, <3>2
  <2>2. \A i, j \in Unread(k) : i < j => Chunk(k, i).to <= Chunk(k, j).from
    <3> SUFFICES ASSUME NEW i \in Unread(k), NEW j \in Unread(k), i < j
                 PROVE  Chunk(k, i).to <= Chunk(k, j).from
      OBVIOUS
    <3>1. i \in Unread(q)
      BY <1>2, <1>9, <1>10 DEF L
    <3>2. CASE j = L
      BY <1>8, <1>9, <1>11, <3>1, <3>2
    <3>3. CASE j \in Unread(q)
      BY <1>1, <1>9, <3>1, <3>3 DEF Tiled
    <3> QED BY <1>10, <3>2, <3>3
  <2>3. \A p \in s.consumed..s.received - 1 :
          \E i \in Unread(k) : Chunk(k, i).from <= p /\ p < Chunk(k, i).to
    <3> SUFFICES ASSUME NEW p \in s.consumed..s.received - 1
                 PROVE  \E i \in Unread(k) : Chunk(k, i).from <= p /\ p < Chunk(k, i).to
      OBVIOUS
    <3>1. CASE r.received <= p
      BY <1>0, <1>8, <1>10, <3>1
    <3>2. CASE ~(r.received <= p)
      <4>1. p \in r.consumed..r.received - 1
        BY <1>0, <3>2
      <4>2. PICK i \in Unread(q) : Chunk(q, i).from <= p /\ p < Chunk(q, i).to
        BY <1>1, <4>1 DEF Tiled
      <4> QED BY <1>9, <4>2
    <3> QED BY <3>1, <3>2
  <2>4. \A e \in s.chunkEnds : s.consumed < e => \E i \in Unread(k) : Chunk(k, i).to = e
    <3> SUFFICES ASSUME NEW e \in s.chunkEnds, s.consumed < e
                 PROVE  \E i \in Unread(k) : Chunk(k, i).to = e
      OBVIOUS
    <3>1. CASE e = s.received
      BY <1>8, <1>10, <3>1
    <3>2. CASE e \in r.chunkEnds
      <4>1. PICK i \in Unread(q) : Chunk(q, i).to = e
        BY <1>1, <3>2 DEF Tiled
      <4> QED BY <1>9, <4>1
    <3> QED BY <3>1, <3>2
  <2>5. k.chunkIndex <= Len(k.chunks)
    BY <1>2, <1>5, <1>6 DEF L
  <2> QED BY <2>1, <2>2, <2>3, <2>4, <2>5 DEF Tiled
<1>13. ASSUME NEW i, NEW o, NEW p \in Nat, p <= r.received, Stands(q, i, o, p, r)
       PROVE  Stands(k, i, o, p, s)
  <2>0. p # s.received
    BY <1>0, <1>13
  <2>1. CASE p = r.received
    <3>1. i = L /\ o = 0
      BY <1>13, <2>1 DEF Stands, L
    <3> QED BY <1>0, <1>8, <1>10, <2>0, <2>1, <3>1 DEF Stands
  <2>2. CASE p # r.received
    <3>1. /\ i \in Unread(q) /\ Chunk(q, i).from <= p /\ p < Chunk(q, i).to
          /\ o = p - Chunk(q, i).from
      BY <1>13, <2>2 DEF Stands
    <3> QED BY <1>9, <2>0, <3>1 DEF Stands
  <2> QED BY <2>1, <2>2
<1>14. /\ Stands(k, k.chunkIndex, k.head, s.consumed, s)
       /\ Stands(k, k.censusChunkIndex, k.censusOffset, s.census, s)
  <2>1. Stands(k, q.chunkIndex, q.head, r.consumed, s)
    BY <1>0, <1>1, <1>13
  <2>2. Stands(k, q.censusChunkIndex, q.censusOffset, r.census, s)
    BY <1>0, <1>1, <1>13
  <2> QED BY <1>5, <2>1, <2>2
<1>15. k.length = s.received - s.consumed /\ k.censusBytes = s.census - s.consumed
  BY <1>0, <1>1, <1>5
<1> QED BY <1>7, <1>12, <1>14, <1>15 DEF Agree, k

(* What a callback leaves of the offsets: they are as it found them, or one whole  *)
(* frame has been read.                                                           *)
Took(r, s) == \E len \in Nat : /\ r.consumed + HEADER_LEN + len <= r.received
                               /\ ReadOn(r, s, HEADER_LEN + len)

LEMMA TryResolveTakes ==
  ASSUME Env, NEW r, Shape(r)
  PROVE  LET k == TryResolve(r)
         IN k.closed \/ SameOffsets(r, k) \/ Took(r, k)
<1> DEFINE v == Verdict(r, r.consumed)
           end == FrameEnd(r.consumed)
           c == Consume(r, end)
           c0 == [c EXCEPT !.frameDeadline = NoTimer]
           e == EnsureFrameDeadline(c0)
           k == Resolve(r)
<1>0. /\ r \in Readers /\ r.consumed \in Nat /\ r.received \in Nat /\ r.census \in Nat
      /\ r.consumed \in r.consumed..r.received /\ r.received <= wire.size
      /\ HEADER_LEN \in Nat
  BY ReaderAssumption DEF Shape, Readers
<1>1. CASE r.pending = None \/ v = "incomplete"
  BY <1>1 DEF TryResolve, SameOffsets
<1>2. CASE r.pending # None /\ v # "incomplete" /\ v # "complete"
  <2>1. TryResolve(r) = Fail(r, v)
    BY <1>2 DEF TryResolve
  <2>2. Fail(r, v).closed = TRUE
    BY FailConsumes
  <2> QED BY <2>1, <2>2
<1>3. CASE r.pending # None /\ v = "complete"
  <2>1. TryResolve(r) = k
    BY <1>3 DEF TryResolve
  <2>2. /\ PayloadLen(r.consumed) \in Nat /\ end \in r.consumed + 1..r.received
        /\ end = r.consumed + HEADER_LEN + PayloadLen(r.consumed)
    BY <1>0, <1>3, VerdictFacts DEF FrameEnd
  <2>3. Shape(c)
    BY <1>0, <2>2, ConsumeShape
  <2>4. /\ c.consumed = end /\ c.received = r.received
        /\ c.census = IF r.census < end THEN end ELSE r.census
        /\ c.chunkEnds = {x \in r.chunkEnds : x > end}
        /\ c.arrival = [p \in Offsets |-> IF p < end THEN NotHeld ELSE r.arrival[p]]
    BY <1>0 DEF Consume, Readers
  <2> HIDE DEF c
  <2>5. /\ Shape(c0) /\ c0.frameDeadline = NoTimer
        /\ c0.consumed = c.consumed /\ c0.received = c.received /\ c0.census = c.census
        /\ c0.chunkEnds = c.chunkEnds /\ c0.arrival = c.arrival
    BY <2>3 DEF Shape, Readers, Held, InOrder
  <2> HIDE DEF c0
  <2>6. /\ Shape(e)
        /\ e.consumed = c.consumed /\ e.received = c.received /\ e.census = c.census
        /\ e.chunkEnds = c.chunkEnds /\ e.arrival = c.arrival
    BY <2>5, EnsureSound, EnsureTidy
  <2> HIDE DEF e
  <2>7. k = [e EXCEPT !.pending = None, !.call[r.pending] = "resolved",
                      !.delivered = Append(r.delivered, Handed(r))]
    BY DEF Resolve, Handed, e, c0, c
  <2> HIDE DEF k
  <2>8. /\ k.consumed = c.consumed /\ k.received = c.received /\ k.census = c.census
        /\ k.chunkEnds = c.chunkEnds /\ k.arrival = c.arrival
    BY <2>6, <2>7 DEF Shape, Readers
  <2>9. \A p \in end..r.received - 1 : c.arrival[p] = r.arrival[p]
    <3>1. \A p \in end..r.received - 1 : p \in Offsets /\ ~(p < end)
      BY <1>0, <2>2, StreamFacts DEF Offsets
    <3> QED BY <2>4, <3>1
  <2>10. end = r.consumed + (HEADER_LEN + PayloadLen(r.consumed))
    BY <1>0, <2>2
  <2> HIDE DEF end
  <2>11. ReadOn(r, k, HEADER_LEN + PayloadLen(r.consumed))
    BY <2>4, <2>8, <2>9, <2>10 DEF ReadOn
  <2>12. Took(r, k)
    BY <2>2, <2>11 DEF Took, end
  <2> QED BY <2>1, <2>12
<1> QED BY <1>1, <1>2, <1>3
(* The entries not read yet are as many as the chunk ends the reader counts.       *)
LEMMA CountAgrees ==
  ASSUME NEW q \in Queues, NEW r, OffsetsOK(r), Tiled(q, r)
  PROVE  PendingChunkCount(r) = Len(q.chunks) - q.chunkIndex
<1> DEFINE E == {e \in r.chunkEnds : e > r.consumed}
           m == Len(q.chunks) - q.chunkIndex
           f == [j \in 1..m |-> Chunk(q, q.chunkIndex + j - 1).to]
<1>1. /\ q.chunkIndex \in Nat /\ Len(q.chunks) \in Nat /\ q.chunkIndex <= Len(q.chunks)
      /\ m \in Nat /\ r.consumed \in Nat /\ r.chunkEnds \in SUBSET Nat
  BY DEF Queues, Tiled, OffsetsOK
<1>2. \A i \in Unread(q) : /\ i \in Int /\ Chunk(q, i).from \in Nat /\ Chunk(q, i).to \in Nat
                           /\ Chunk(q, i).from < Chunk(q, i).to
                           /\ r.consumed < Chunk(q, i).to /\ Chunk(q, i).to \in r.chunkEnds
  BY <1>1, ChunkTyped DEF Tiled
<1>3. \A j \in 1..m : q.chunkIndex + j - 1 \in Unread(q)
  BY <1>1 DEF Unread
<1>4. \A i \in Unread(q) : i - q.chunkIndex + 1 \in 1..m
                           /\ q.chunkIndex + (i - q.chunkIndex + 1) - 1 = i
  BY <1>1, <1>2 DEF Unread
<1>5. f \in [1..m -> E]
  BY <1>1, <1>2, <1>3
<1>6. \A a, b \in 1..m : f[a] = f[b] => a = b
  <2>1. ASSUME NEW a \in 1..m, NEW b \in 1..m, a < b
        PROVE  f[a] < f[b]
    <3>1. /\ q.chunkIndex + a - 1 \in Unread(q) /\ q.chunkIndex + b - 1 \in Unread(q)
          /\ q.chunkIndex + a - 1 < q.chunkIndex + b - 1
      BY <1>1, <1>3, <2>1
    <3>2. Chunk(q, q.chunkIndex + a - 1).to <= Chunk(q, q.chunkIndex + b - 1).from
      BY <3>1 DEF Tiled
    <3>3. /\ Chunk(q, q.chunkIndex + a - 1).to \in Nat
          /\ Chunk(q, q.chunkIndex + b - 1).from \in Nat
          /\ Chunk(q, q.chunkIndex + b - 1).to \in Nat
          /\ Chunk(q, q.chunkIndex + b - 1).from < Chunk(q, q.chunkIndex + b - 1).to
      BY <1>2, <3>1
    <3> QED BY <3>2, <3>3
  <2>2. \A a \in 1..m : f[a] \in Nat /\ a \in Int
    <3> SUFFICES ASSUME NEW a \in 1..m PROVE f[a] \in Nat /\ a \in Int
      OBVIOUS
    <3>1. q.chunkIndex + a - 1 \in Unread(q) /\ f[a] = Chunk(q, q.chunkIndex + a - 1).to
      BY <1>3
    <3>2. f[a] \in Nat
      BY <1>2, <3>1
    <3> QED BY <1>1, <3>2
  <2> HIDE DEF f
  <2> SUFFICES ASSUME NEW a \in 1..m, NEW b \in 1..m, f[a] = f[b], a # b PROVE FALSE
    OBVIOUS
  <2>3. a < b \/ b < a
    BY <2>2
  <2>4. f[a] < f[b] \/ f[b] < f[a]
    BY <2>1, <2>3
  <2> QED BY <2>2, <2>4
<1>7. \A e \in E : \E j \in 1..m : f[j] = e
  <2> SUFFICES ASSUME NEW e \in E PROVE \E j \in 1..m : f[j] = e
    OBVIOUS
  <2>1. e \in r.chunkEnds /\ r.consumed < e
    BY <1>1
  <2>2. PICK i \in Unread(q) : Chunk(q, i).to = e
    BY <2>1 DEF Tiled
  <2>3. i - q.chunkIndex + 1 \in 1..m /\ f[i - q.chunkIndex + 1] = e
    BY <1>4, <2>2
  <2> QED BY <2>3
<1>8. ExistsBijection(1..m, E)
  <2> HIDE DEF f, E
  <2>1. f \in Bijection(1..m, E)
    BY <1>5, <1>6, <1>7 DEF Bijection, Injection, Surjection, IsInjective
  <2> QED BY <2>1 DEF ExistsBijection
<1> HIDE DEF m, E
<1>9. Cardinality(E) = m
  BY <1>1, <1>8, FS_CountingElements
<1> QED BY <1>9 DEF PendingChunkCount, m, E

LEMMA AgreeIsCursorsAgree ==
  ASSUME IInv, Agree(queue, reader)
  PROVE  CursorsAgree
<1>1. OffsetsOK(reader)
  BY DEF IInv, Sound, Shape, Readers, OffsetsOK
<1>2. /\ reader.consumed \in Nat /\ reader.census \in Nat /\ reader.received \in Nat
      /\ reader.consumed <= reader.census /\ reader.census <= reader.received
  BY <1>1 DEF OffsetsOK
<1>3. /\ queue \in Queues /\ Tiled(queue, reader)
      /\ Stands(queue, queue.chunkIndex, queue.head, reader.consumed, reader)
      /\ Stands(queue, queue.censusChunkIndex, queue.censusOffset, reader.census, reader)
      /\ queue.length = reader.received - reader.consumed
      /\ queue.censusBytes = reader.census - reader.consumed
  BY DEF Agree
<1>4. queue.length = Length(reader)
  BY <1>3 DEF Length
<1>5. Len(queue.chunks) - queue.chunkIndex = PendingChunkCount(reader)
  BY <1>1, <1>3, CountAgrees
<1>6. ASSUME NEW skip \in 0..queue.length - 1
      PROVE  LET place == Ahead(queue, queue.chunkIndex, queue.head, skip)
                 chunk == Chunk(queue, place.idx)
             IN /\ chunk.from + place.offset = reader.consumed + skip
                /\ chunk.at = reader.arrival[reader.consumed + skip]
  <2> DEFINE p == reader.consumed + skip
             place == Ahead(queue, queue.chunkIndex, queue.head, skip)
  <2>1. /\ skip \in Nat /\ p \in Nat /\ p < reader.received
        /\ p \in reader.consumed..reader.received - 1
        /\ reader.consumed <= reader.consumed /\ reader.consumed < reader.received
    BY <1>2, <1>3
  <2>2. Stands(queue, place.idx, place.offset, p, reader)
    BY <1>2, <1>3, <2>1, AheadStands
  <2> HIDE DEF place, p
  <2>3. /\ place.idx \in Unread(queue)
        /\ Chunk(queue, place.idx).from <= p /\ p < Chunk(queue, place.idx).to
        /\ place.offset = p - Chunk(queue, place.idx).from
    BY <2>1, <2>2 DEF Stands
  <2>4. Chunk(queue, place.idx).from \in Nat
    BY <1>3, <2>3, ChunkTyped DEF Tiled
  <2>5. Chunk(queue, place.idx).from + place.offset = p
    BY <2>1, <2>3, <2>4
  <2>6. Chunk(queue, place.idx).at = reader.arrival[p]
    BY <1>3, <2>1, <2>3 DEF Tiled
  <2> QED BY <2>5, <2>6 DEF place, p
<1>7. ASSUME queue.censusBytes < queue.length
      PROVE  LET chunk == Chunk(queue, queue.censusChunkIndex)
             IN /\ queue.censusChunkIndex < Len(queue.chunks)
                /\ chunk.from + queue.censusOffset = reader.census
                /\ chunk.at = reader.arrival[reader.census]
  <2>1. reader.census # reader.received
    BY <1>2, <1>3, <1>7
  <2>2. /\ queue.censusChunkIndex \in Unread(queue)
        /\ queue.censusOffset = reader.census - Chunk(queue, queue.censusChunkIndex).from
    BY <1>3, <2>1 DEF Stands
  <2>3. /\ queue.censusChunkIndex < Len(queue.chunks)
        /\ Chunk(queue, queue.censusChunkIndex).from \in Nat
    BY <1>3, <2>2, ChunkTyped DEF Tiled
  <2>4. reader.census \in reader.consumed..reader.received - 1
    BY <1>2, <2>1
  <2>5. Chunk(queue, queue.censusChunkIndex).at = reader.arrival[reader.census]
    BY <1>3, <2>1, <2>2, <2>4 DEF Tiled, Stands
  <2> QED BY <1>2, <2>2, <2>3, <2>5
<1> QED BY <1>3, <1>4, <1>5, <1>6, <1>7 DEF CursorsAgree

LEMMA QueueStep ==
  ASSUME IInv, Tidy(reader), Agree(queue, reader), [QueueNext]_queueVars
  PROVE  [Next]_vars /\ Agree(queue', reader')
<1>0. /\ Shape(reader) /\ reader \in Readers /\ Env /\ now \in Nat
      /\ OffsetsOK(reader)
  BY DEF IInv, Sound, Shape, Readers, OffsetsOK, Env
<1>1. [Next]_vars
  BY DEF QueueNext, queueVars, PushChunk, ReadFrameBytes, ScanFires, DropAll, TimePasses,
         Next, vars
<1>2. /\ Shape(reader)' /\ Tidy(reader)' /\ Env
  BY <1>0, <1>1, StepSound, StepTidy DEF IInv, Sound
<1>3. /\ reader'.consumed \in Nat /\ reader'.received \in Nat /\ reader'.census \in Nat
      /\ reader'.consumed <= reader'.census /\ reader'.census <= reader'.received
      /\ reader'.closed => reader'.received = reader'.consumed /\ reader'.chunkEnds = {}
  BY <1>2 DEF Shape, Readers, Tidy, Rest
<1>4. ASSUME reader'.closed PROVE Agree(EmptyQueue, reader')
  BY <1>3, <1>4, EmptyAgrees
<1>5. ASSUME NEW q, NEW b, Agree(q, b), OffsetsOK(b), b.consumed = reader.consumed,
             ~reader'.closed, SameOffsets(b, reader') \/ Took(b, reader')
      PROVE  Agree(After(q), reader')
  <2>1. CASE SameOffsets(b, reader')
    <3>1. After(q) = q
      BY <1>5, <2>1 DEF After, SameOffsets
    <3> QED BY <1>5, <2>1, <3>1, SameAgree
  <2>2. CASE Took(b, reader')
    <3>1. PICK len \in Nat : /\ b.consumed + HEADER_LEN + len <= b.received
                             /\ ReadOn(b, reader', HEADER_LEN + len)
      BY <2>2 DEF Took
    <3>2. /\ reader'.consumed = reader.consumed + (HEADER_LEN + len)
          /\ reader.consumed \in Nat /\ HEADER_LEN \in Nat /\ 0 < HEADER_LEN
      BY <1>0, <1>5, <3>1, ReaderAssumption DEF ReadOn, OffsetsOK
    <3>3. /\ reader'.consumed - reader.consumed = HEADER_LEN + len
          /\ reader'.consumed # reader.consumed
      BY <3>2
    <3>4. After(q) = TakeFrame(q, HEADER_LEN + len)
      BY <1>5, <3>3 DEF After
    <3> QED BY <1>5, <3>1, <3>4, TakeAgrees
  <2> QED BY <1>5, <2>1, <2>2
<1>6. ASSUME NEW n \in 1..MaxChunk, PushChunk(n) PROVE Agree(queue', reader')
  <2> DEFINE b == Buffered(reader, n)
             e == EnsureFrameDeadline(b)
             t == TryResolve(e)
  <2>1. /\ reader' = FloodCheck(t) /\ queue' = After(Pushed(queue, n))
        /\ reader.received + n <= wire.size /\ n \in Nat /\ 0 < n
    BY <1>6, ReaderAssumption DEF PushChunk, Push
  <2>2. /\ Sound(b) /\ (b.frameDeadline = NoTimer \/ (b.census < b.received /\ Armed(b)))
    BY <1>0, <2>1, BufferedSound DEF IInv
  <2>3. /\ b.consumed = reader.consumed /\ b.census = reader.census
        /\ b.received = reader.received + n
        /\ b.chunkEnds = reader.chunkEnds \cup {reader.received + n}
        /\ b.arrival = [p \in Offsets |-> IF p \in reader.received..reader.received + n - 1
                                          THEN now ELSE reader.arrival[p]]
    BY <1>0 DEF Buffered, Readers
  <2> HIDE DEF b
  <2>4. \A p \in b.consumed..b.received - 1 :
          b.arrival[p] = IF reader.received <= p THEN now ELSE reader.arrival[p]
    <3>1. \A p \in b.consumed..b.received - 1 :
            /\ p \in Offsets
            /\ p \in reader.received..reader.received + n - 1 <=> reader.received <= p
      BY <1>0, <2>1, <2>3, StreamFacts DEF OffsetsOK, Offsets
    <3> QED BY <2>3, <3>1
  <2>5. Agree(Pushed(queue, n), b)
    BY <1>0, <2>1, <2>3, <2>4, PushAgrees
  <2>6. OffsetsOK(b) /\ Shape(b)
    BY <2>2 DEF Sound, Shape, Readers, OffsetsOK
  <2>7. SameOffsets(b, e) /\ Shape(e)
    BY <1>0, <2>2, <2>6, EnsureSound, EnsureTidy DEF SameOffsets
  <2> HIDE DEF e
  <2>8. t.closed \/ SameOffsets(e, t) \/ Took(e, t)
    BY <1>0, <2>7, TryResolveTakes
  <2> HIDE DEF t
  <2>9. reader'.closed \/ reader' = t
    BY <2>1 DEF FloodCheck, Fail
  <2>10. CASE ~reader'.closed
    <3>1. SameOffsets(e, reader') \/ Took(e, reader')
      BY <2>8, <2>9, <2>10
    <3>2. Agree(Pushed(queue, n), e) /\ OffsetsOK(e) /\ e.consumed = reader.consumed
      BY <2>3, <2>5, <2>6, <2>7, SameAgree DEF SameOffsets, OffsetsOK
    <3> QED BY <1>5, <2>1, <2>10, <3>1, <3>2
  <2>11. CASE reader'.closed
    BY <1>4, <2>1, <2>11 DEF After
  <2> QED BY <2>10, <2>11
<1>7. ASSUME NEW c \in Callers, ReadFrameBytes(c) PROVE Agree(queue', reader')
  <2>1. queue' = After(queue) /\ ReadFrame(c)
    BY <1>7 DEF ReadFrameBytes
  <2>2. CASE reader'.closed
    BY <1>4, <2>1, <2>2 DEF After
  <2>3. CASE ~reader'.closed /\ (reader.closed \/ reader.pending # None)
    <3>1. reader' = [reader EXCEPT !.call[c] = "rejected"]
      BY <2>1, <2>3 DEF ReadFrame
    <3>2. SameOffsets(reader, reader')
      BY <1>0, <3>1 DEF SameOffsets, Readers
    <3> QED BY <1>0, <1>5, <2>1, <2>3, <3>2
  <2>4. CASE ~reader'.closed /\ ~(reader.closed \/ reader.pending # None)
    <3> DEFINE w == [reader EXCEPT !.pending = c, !.call[c] = "waiting"]
               e == EnsureFrameDeadline(w)
    <3>1. /\ w \in Readers /\ SameOffsets(reader, w) /\ w.frameDeadline = reader.frameDeadline
          /\ w.closed = reader.closed /\ w.closeError = reader.closeError
      BY <1>0 DEF Readers, SameOffsets
    <3>2. reader' = TryResolve(e)
      BY <2>1, <2>4 DEF ReadFrame
    <3> HIDE DEF w
    <3>3. Shape(w) /\ Armed(w)
      BY <1>0, <3>1 DEF SameOffsets, IInv, Shape, Held, InOrder, Armed
    <3>4. w.frameDeadline = NoTimer \/ (w.census < w.received /\ Armed(w))
      BY <3>3 DEF Armed
    <3>5. SameOffsets(w, e) /\ Shape(e)
      BY <1>0, <3>3, <3>4, EnsureSound, EnsureTidy DEF SameOffsets
    <3> HIDE DEF e
    <3>6. SameOffsets(e, reader') \/ Took(e, reader')
      BY <1>0, <2>4, <3>2, <3>5, TryResolveTakes
    <3>7. SameOffsets(reader, e)
      BY <3>1, <3>5 DEF SameOffsets
    <3>8. Agree(queue, e) /\ OffsetsOK(e) /\ e.consumed = reader.consumed
      BY <1>0, <3>7, SameAgree DEF SameOffsets, OffsetsOK
    <3> QED BY <1>5, <2>1, <2>4, <3>6, <3>8
  <2> QED BY <2>2, <2>3, <2>4
<1>8. ASSUME ScanFires PROVE Agree(queue', reader')
  <2>1. CASE reader'.closed
    BY <1>4, <1>8, <2>1 DEF ScanFires
  <2>2. CASE ~reader'.closed
    <3>1. queue' = Scan(queue, reader'.census - reader.census)
      BY <1>8, <2>2 DEF ScanFires
    <3>2. PICK p \in reader.census..reader.received :
            reader' = AfterScan([reader EXCEPT !.frameDeadline = NoTimer, !.census = p], p)
      BY <1>8 DEF ScanFires, DeadlineFires
    <3> DEFINE s == [reader EXCEPT !.frameDeadline = NoTimer, !.census = p]
    <3>3. /\ s.consumed = reader.consumed /\ s.received = reader.received
          /\ s.chunkEnds = reader.chunkEnds /\ s.arrival = reader.arrival
          /\ s.census = p /\ s \in Readers
      <4>1. p \in Nat
        BY <1>0 DEF OffsetsOK
      <4> QED BY <1>0, <4>1 DEF Readers
    <3> HIDE DEF s
    <3>4. \A err : reader' # Fail(s, err)
      BY <2>2, <3>3 DEF Fail, Readers
    <3>5. reader' = s \/ reader' = ArmAt(s, s.arrival[p])
      BY <3>2, <3>4 DEF AfterScan, s
    <3>6. SameOffsets(s, reader')
      BY <3>3, <3>5 DEF ArmAt, SameOffsets, Readers
    <3> QED BY <1>0, <3>1, <3>3, <3>6, ScanAgrees DEF SameOffsets
  <2> QED BY <2>1, <2>2
<1>9. ASSUME DropAll PROVE Agree(queue', reader')
  <2>1. reader' = Fail(reader, "001") /\ queue' = EmptyQueue
    BY <1>9 DEF DropAll, SocketFails
  <2>2. reader'.closed
    BY <1>0, <2>1 DEF Fail, Readers
  <2> QED BY <1>4, <2>1, <2>2
<1>10. ASSUME TimePasses \/ UNCHANGED queueVars PROVE Agree(queue', reader')
  BY <1>10 DEF TimePasses, Tick, queueVars
<1>11. Agree(queue', reader')
  BY <1>6, <1>7, <1>8, <1>9, <1>10 DEF QueueNext
<1> QED BY <1>1, <1>11

(* The chunks only record what the reader does: every behaviour of the two is one  *)
(* of FrameReader, so that all that is proved of it holds while they are kept.     *)
THEOREM QueueImplements == QueueSpec => Spec
<1>1. QueueInit => Init
  BY DEF QueueInit
<1>2. [QueueNext]_queueVars => [Next]_vars
  BY DEF QueueNext, PushChunk, ReadFrameBytes, ScanFires, DropAll, TimePasses, Next,
         queueVars, vars
<1> QED BY <1>1, <1>2, PTL DEF QueueSpec, Spec

(* The array of chunks and its two cursors say what the reader's offsets say,      *)
(* for every threshold of the compaction and every way to cut the stream: the      *)
(* entries tile the unread bytes, and both cursors stand at their offsets.         *)
THEOREM CursorsKept == QueueSpec => []CursorsAgree
<1>1. QueueInit => IInv /\ Tidy(reader) /\ Agree(queue, reader)
  <2> SUFFICES ASSUME QueueInit PROVE IInv /\ Tidy(reader) /\ Agree(queue, reader)
    OBVIOUS
  <2>1. Init /\ queue = EmptyQueue /\ reader = EmptyReader
    BY DEF QueueInit, Init
  <2>2. Agree(queue, reader)
    BY <2>1, EmptyAgrees DEF EmptyReader
  <2> QED BY <2>1, <2>2, InitSound, InitTidy
<1>2. IInv /\ Tidy(reader) /\ Agree(queue, reader) /\ [QueueNext]_queueVars
        => (IInv /\ Tidy(reader) /\ Agree(queue, reader))'
  <2> SUFFICES ASSUME IInv, Tidy(reader), Agree(queue, reader), [QueueNext]_queueVars
               PROVE  (IInv /\ Tidy(reader) /\ Agree(queue, reader))'
    OBVIOUS
  <2>1. [Next]_vars /\ Agree(queue', reader')
    BY QueueStep
  <2>2. IInv' /\ Tidy(reader)'
    BY <2>1, StepSound, StepTidy
  <2>3. Agree(queue, reader)' <=> Agree(queue', reader')
    BY DEF Agree, Tiled, Stands
  <2> QED BY <2>1, <2>2, <2>3
<1>3. IInv /\ Agree(queue, reader) => CursorsAgree
  BY AgreeIsCursorsAgree
<1> QED BY <1>1, <1>2, <1>3, PTL DEF QueueSpec
--------------------------------------------------------------------------------
(* The deadline spares punctual frames. What it needs beyond IInv and Tidy: the   *)
(* scan's cursor stands where a frame starts, or at the end of the buffer.         *)
Scanned(r) == Leads(r, r.consumed, r.census)

LEMMA LeadsSelf == ASSUME NEW r, NEW p \in Int PROVE Leads(r, p, p)
<1>1. {p} \in SUBSET (p..p)
  OBVIOUS
<1> QED BY <1>1 DEF Leads

LEMMA LeadsOn ==
  ASSUME NEW r, NEW p \in Int, NEW q \in Int, NEW s \in Int, p <= q, q <= s,
         Leads(r, p, q), Leads(r, q, s)
  PROVE  Leads(r, p, s)
<1>1. PICK A \in SUBSET (p..q) :
        /\ p \in A /\ q \in A
        /\ \A x \in A \ {q} : Verdict(r, x) = "complete" /\ FrameEnd(x) \in A
  BY DEF Leads
<1>2. PICK B \in SUBSET (q..s) :
        /\ q \in B /\ s \in B
        /\ \A x \in B \ {s} : Verdict(r, x) = "complete" /\ FrameEnd(x) \in B
  BY DEF Leads
<1>3. A \cup B \in SUBSET (p..s)
  BY <1>1, <1>2
<1>4. \A x \in (A \cup B) \ {s} : Verdict(r, x) = "complete" /\ FrameEnd(x) \in A \cup B
  BY <1>1, <1>2
<1> QED BY <1>1, <1>2, <1>3, <1>4 DEF Leads

LEMMA LeadsKept ==
  ASSUME NEW r, NEW k, NEW p \in Int, NEW q \in Int, Leads(r, p, q),
         \A x \in p..q - 1 : Verdict(r, x) = "complete" => Verdict(k, x) = "complete"
  PROVE  Leads(k, p, q)
<1>1. PICK A \in SUBSET (p..q) :
        /\ p \in A /\ q \in A
        /\ \A x \in A \ {q} : Verdict(r, x) = "complete" /\ FrameEnd(x) \in A
  BY DEF Leads
<1>2. \A x \in A \ {q} : x \in p..q - 1
  BY <1>1
<1>3. \A x \in A \ {q} : Verdict(k, x) = "complete" /\ FrameEnd(x) \in A
  BY <1>1, <1>2
<1> QED BY <1>1, <1>3 DEF Leads

(* Past the head frame the rest of the way is still one.                          *)
LEMMA LeadsFrom ==
  ASSUME Env, NEW r, Shape(r), NEW q \in Int, q <= r.received, q # r.consumed,
         Leads(r, r.consumed, q)
  PROVE  /\ Verdict(r, r.consumed) = "complete" /\ FrameEnd(r.consumed) <= q
         /\ Leads(r, FrameEnd(r.consumed), q)
<1> DEFINE p == r.consumed
           end == FrameEnd(p)
<1>1. PICK A \in SUBSET (p..q) :
        /\ p \in A /\ q \in A
        /\ \A x \in A \ {q} : Verdict(r, x) = "complete" /\ FrameEnd(x) \in A
  BY DEF Leads
<1>2. p \in Nat /\ r.received \in Nat
  BY DEF Shape, Readers
<1> HIDE DEF p
<1>3. Verdict(r, p) = "complete" /\ end \in A /\ end \in p..q /\ end \in Int /\ end <= q
  <2>1. p \in A \ {q}
    BY <1>1 DEF p
  <2>2. Verdict(r, p) = "complete" /\ FrameEnd(p) \in A
    BY <1>1, <2>1
  <2>3. FrameEnd(p) \in p..q
    BY <1>1, <2>2
  <2> QED BY <1>2, <2>2, <2>3
<1> HIDE DEF end
<1> DEFINE B == {x \in A : end <= x}
<1>4. B \in SUBSET (end..q) /\ end \in B /\ q \in B
  <2>1. A \subseteq p..q
    BY <1>1
  <2>2. \A x \in B : x \in end..q
    BY <1>2, <1>3, <2>1
  <2>3. end \in B /\ q \in B
    BY <1>1, <1>3
  <2> HIDE DEF B
  <2> QED BY <2>2, <2>3
<1>5. ASSUME NEW x \in B \ {q} PROVE Verdict(r, x) = "complete" /\ FrameEnd(x) \in B
  <2>1. x \in A /\ x # q /\ end <= x /\ x \in Int /\ x \in r.consumed..r.received
    BY <1>1, <1>2, <1>3 DEF p
  <2>2. Verdict(r, x) = "complete" /\ FrameEnd(x) \in A
    BY <1>1, <2>1
  <2>3. FrameEnd(x) \in x + 1..r.received
    BY <2>1, <2>2, VerdictFacts
  <2>4. end <= FrameEnd(x)
    BY <1>3, <2>1, <2>3
  <2> QED BY <2>2, <2>4
<1>6. Leads(r, end, q)
  BY <1>4, <1>5 DEF Leads
<1> QED BY <1>3, <1>6 DEF p, end

(* More bytes do not undo a frame.                                                *)
LEMMA CompleteKept ==
  ASSUME Env, NEW r, Shape(r), NEW x \in r.consumed..r.received, Verdict(r, x) = "complete",
         NEW k, k.received \in Nat, r.received <= k.received,
         \A y \in x..r.received - 1 : k.arrival[y] = r.arrival[y]
  PROVE  Verdict(k, x) = "complete"
<1>1. /\ r.received \in Nat /\ r.consumed \in Nat /\ x \in Nat /\ HEADER_LEN \in Nat
      /\ 0 < HEADER_LEN
  BY ReaderAssumption DEF Shape, Readers
<1>2. PayloadLen(x) \in Nat /\ FrameEnd(x) \in x + 1..r.received /\ x + HEADER_LEN <= r.received
  BY <1>1, VerdictFacts
<1>3. /\ k.arrival[x] = r.arrival[x]
      /\ k.arrival[x + HEADER_LEN - 1] = r.arrival[x + HEADER_LEN - 1]
      /\ k.arrival[FrameEnd(x) - 1] = r.arrival[FrameEnd(x) - 1]
  BY <1>1, <1>2
<1>4. /\ Overran(k, x, x + HEADER_LEN - 1) <=> Overran(r, x, x + HEADER_LEN - 1)
      /\ Overran(k, x, FrameEnd(x) - 1) <=> Overran(r, x, FrameEnd(x) - 1)
  BY <1>3 DEF Overran
<1>5. /\ ~Overran(r, x, x + HEADER_LEN - 1) /\ PayloadLen(x) # Bad
      /\ ~(PayloadLen(x) > MAX_FRAME_LEN) /\ ~Overran(r, x, FrameEnd(x) - 1)
  BY DEF Verdict
<1>6. ~(k.received - x < HEADER_LEN) /\ ~(k.received < FrameEnd(x))
  BY <1>1, <1>2
<1> QED BY <1>4, <1>5, <1>6 DEF Verdict

LEMMA SameScanned ==
  ASSUME NEW r, NEW s, SameOffsets(r, s), Scanned(r)
  PROVE  Scanned(s)
<1>1. \A x : Verdict(s, x) = Verdict(r, x)
  BY DEF SameOffsets, Verdict, Overran
<1> QED BY <1>1 DEF Scanned, Leads, SameOffsets

LEMMA GrownScanned ==
  ASSUME Env, NEW r, Shape(r), Scanned(r),
         NEW k, k.consumed = r.consumed, k.census = r.census, k.received \in Nat,
         r.received <= k.received,
         \A y \in r.consumed..r.received - 1 : k.arrival[y] = r.arrival[y]
  PROVE  Scanned(k)
<1>1. /\ r.consumed \in Nat /\ r.census \in Nat /\ r.received \in Nat
      /\ r.consumed <= r.census /\ r.census <= r.received
  BY DEF Shape, Readers
<1>2. ASSUME NEW x \in r.consumed..r.census - 1, Verdict(r, x) = "complete"
      PROVE  Verdict(k, x) = "complete"
  <2>1. /\ x \in r.consumed..r.received
        /\ \A y \in x..r.received - 1 : k.arrival[y] = r.arrival[y]
    BY <1>1
  <2> QED BY <1>2, <2>1, CompleteKept
<1>3. Leads(k, r.consumed, r.census)
  BY <1>1, <1>2, LeadsKept DEF Scanned
<1> QED BY <1>3 DEF Scanned

LEMMA TryResolveScanned ==
  ASSUME Env, NEW r, Sound(r), Armed(r), Scanned(r), ~TryResolve(r).closed
  PROVE  Scanned(TryResolve(r))
<1> DEFINE k == TryResolve(r)
<1>1. /\ Shape(r) /\ r.consumed \in Nat /\ r.census \in Nat /\ r.received \in Nat
      /\ r.consumed <= r.census /\ r.census <= r.received
  BY DEF Sound, Shape, Readers
<1>2. SameOffsets(r, k) \/ Took(r, k)
  BY <1>1, TryResolveTakes
<1>3. Delivers(r, k)
  BY TryResolveSound
<1> HIDE DEF k
<1>4. CASE SameOffsets(r, k)
  BY <1>4, SameScanned DEF k
<1>5. CASE Took(r, k)
  <2>1. PICK len \in Nat : ReadOn(r, k, HEADER_LEN + len)
    BY <1>5 DEF Took
  <2>2. k.consumed # r.consumed
    BY <1>1, <2>1, ReaderAssumption DEF ReadOn
  <2>3. Verdict(r, r.consumed) = "complete" /\ k.consumed = FrameEnd(r.consumed)
    BY <1>3, <2>2 DEF Delivers
  <2>4. /\ FrameEnd(r.consumed) \in r.consumed + 1..r.received /\ k.consumed \in Nat
        /\ k.received = r.received
        /\ k.census = IF r.census < k.consumed THEN k.consumed ELSE r.census
        /\ \A y \in k.consumed..r.received - 1 : k.arrival[y] = r.arrival[y]
    BY <1>1, <2>1, <2>3, VerdictFacts DEF ReadOn
  <2>5. CASE r.census < k.consumed
    BY <2>4, <2>5, LeadsSelf DEF Scanned, k
  <2>6. CASE ~(r.census < k.consumed)
    <3>1. k.census = r.census /\ r.census # r.consumed /\ k.consumed <= r.census
      BY <1>1, <2>3, <2>4, <2>6
    <3>2. Leads(r, k.consumed, r.census)
      BY <1>1, <2>3, <3>1, LeadsFrom DEF Scanned
    <3>3. ASSUME NEW x \in k.consumed..r.census - 1, Verdict(r, x) = "complete"
          PROVE  Verdict(k, x) = "complete"
      <4>1. /\ x \in r.consumed..r.received /\ k.received \in Nat /\ r.received <= k.received
            /\ \A y \in x..r.received - 1 : k.arrival[y] = r.arrival[y]
        BY <1>1, <2>3, <2>4
      <4> QED BY <1>1, <3>3, <4>1, CompleteKept
    <3>4. Leads(k, k.consumed, r.census)
      BY <1>1, <2>4, <3>2, <3>3, LeadsKept
    <3> QED BY <3>1, <3>4 DEF Scanned, k
  <2> QED BY <2>5, <2>6
<1> QED BY <1>2, <1>4, <1>5

LEMMA ScannedStep ==
  ASSUME IInv, Tidy(reader), Scanned(reader), [Next]_vars
  PROVE  Scanned(reader')
<1>0. /\ Shape(reader) /\ reader \in Readers /\ Env /\ Sound(reader)
      /\ reader.consumed \in Nat /\ reader.census \in Nat /\ reader.received \in Nat
      /\ reader.consumed <= reader.census /\ reader.census <= reader.received
  BY DEF IInv, Sound, Shape, Readers
<1>1. CASE reader'.closed
  <2>1. Shape(reader)' /\ Tidy(reader)'
    BY StepSound, StepTidy DEF IInv, Sound
  <2>2. reader'.consumed \in Nat /\ reader'.census = reader'.consumed
    BY <1>1, <2>1 DEF Shape, Readers, Tidy, Rest
  <2> QED BY <2>2, LeadsSelf DEF Scanned
<1>2. ASSUME NEW n \in 1..MaxChunk, Push(n), ~reader'.closed PROVE Scanned(reader')
  <2> DEFINE b == Buffered(reader, n)
             e == EnsureFrameDeadline(b)
             t == TryResolve(e)
  <2>1. /\ Sound(b) /\ (b.frameDeadline = NoTimer \/ (b.census < b.received /\ Armed(b)))
    BY <1>0, <1>2, BufferedSound, ReaderAssumption DEF Push, IInv
  <2>2. /\ b.consumed = reader.consumed /\ b.census = reader.census
        /\ b.received = reader.received + n /\ n \in Nat /\ b.received <= wire.size
        /\ b.arrival = [p \in Offsets |-> IF p \in reader.received..reader.received + n - 1
                                          THEN now ELSE reader.arrival[p]]
    BY <1>0, <1>2 DEF Push, Buffered, Readers
  <2> HIDE DEF b
  <2>3. \A y \in reader.consumed..reader.received - 1 : b.arrival[y] = reader.arrival[y]
    <3>1. \A y \in reader.consumed..reader.received - 1 :
            y \in Offsets /\ y \notin reader.received..reader.received + n - 1
      BY <1>0, <2>2, StreamFacts DEF Offsets
    <3> QED BY <2>2, <3>1
  <2>4. Scanned(b)
    BY <1>0, <2>2, <2>3, GrownScanned
  <2>5. Sound(e) /\ Armed(e) /\ SameOffsets(b, e)
    BY <1>0, <2>1, EnsureSound, EnsureTidy DEF SameOffsets, Sound, Punctual, Waiter
  <2> HIDE DEF e
  <2>6. Scanned(e)
    BY <2>4, <2>5, SameScanned
  <2> HIDE DEF t
  <2>7. reader' = FloodCheck(t)
    BY <1>2 DEF Push, t, e, b
  <2>8. reader' = t
    BY <1>2, <2>7 DEF FloodCheck, Fail
  <2> QED BY <1>0, <1>2, <2>5, <2>6, <2>8, TryResolveScanned DEF t
<1>3. ASSUME NEW c \in Callers, ReadFrame(c), ~reader'.closed PROVE Scanned(reader')
  <2>1. CASE reader.closed \/ reader.pending # None
    <3>1. reader' = [reader EXCEPT !.call[c] = "rejected"]
      BY <1>3, <2>1 DEF ReadFrame
    <3>2. SameOffsets(reader, reader')
      BY <1>0, <3>1 DEF SameOffsets, Readers
    <3> QED BY <3>2, SameScanned
  <2>2. CASE ~(reader.closed \/ reader.pending # None)
    <3> DEFINE w == [reader EXCEPT !.pending = c, !.call[c] = "waiting"]
               e == EnsureFrameDeadline(w)
    <3>1. /\ w \in Readers /\ SameOffsets(reader, w) /\ w.frameDeadline = reader.frameDeadline
          /\ w.closed = reader.closed /\ w.closeError = reader.closeError
          /\ w.delivered = reader.delivered /\ w.pending = c
          /\ w.call = [reader.call EXCEPT ![c] = "waiting"]
      BY <1>0 DEF Readers, SameOffsets
    <3>2. reader' = TryResolve(e)
      BY <1>3, <2>2 DEF ReadFrame
    <3> HIDE DEF w
    <3>3. Shape(w) /\ Armed(w) /\ Punctual(w)
      BY <1>0, <3>1 DEF SameOffsets, IInv, Sound, Shape, Held, InOrder, Armed, Punctual
    <3>4. Waiter(w)
      BY <1>0, <2>2, <3>1, ReaderAssumption DEF Sound, Waiter, Readers
    <3>5. w.frameDeadline = NoTimer \/ (w.census < w.received /\ Armed(w))
      BY <3>3 DEF Armed
    <3>6. Sound(e) /\ Armed(e) /\ SameOffsets(w, e)
      BY <1>0, <3>3, <3>4, <3>5, EnsureSound, EnsureTidy
         DEF SameOffsets, Sound, Punctual, Waiter
    <3> HIDE DEF e
    <3>7. Scanned(e)
      BY <3>1, <3>6, SameScanned
    <3> QED BY <1>0, <1>3, <3>2, <3>6, <3>7, TryResolveScanned
  <2> QED BY <2>1, <2>2
<1>4. ASSUME DeadlineFires, ~reader'.closed PROVE Scanned(reader')
  <2>1. PICK p \in reader.census..reader.received :
          /\ ScanStops(reader, p)
          /\ reader' = AfterScan([reader EXCEPT !.frameDeadline = NoTimer, !.census = p], p)
    BY <1>4 DEF DeadlineFires
  <2> DEFINE s == [reader EXCEPT !.frameDeadline = NoTimer, !.census = p]
  <2>2. /\ s \in Readers /\ s.consumed = reader.consumed /\ s.received = reader.received
        /\ s.arrival = reader.arrival /\ s.census = p
    <3>1. p \in Nat
      BY <1>0
    <3> QED BY <1>0, <3>1 DEF Readers
  <2> HIDE DEF s
  <2>3. \A err : reader' # Fail(s, err)
    BY <1>4, <2>2 DEF Fail, Readers
  <2>4. reader' = s \/ reader' = ArmAt(s, s.arrival[p])
    BY <2>1, <2>3 DEF AfterScan, s
  <2>5. SameOffsets(s, reader')
    BY <2>2, <2>4 DEF ArmAt, SameOffsets, Readers
  <2>6. Leads(reader, reader.consumed, p)
    <3>1. p \in Int /\ reader.census <= p
      BY <1>0
    <3>2. Leads(reader, reader.census, p)
      BY <2>1 DEF ScanStops
    <3> QED BY <1>0, <3>1, <3>2, LeadsOn DEF Scanned
  <2>7. \A x : Verdict(s, x) = Verdict(reader, x)
    BY <2>2, SameVerdict
  <2>8. Scanned(s)
    BY <2>2, <2>6, <2>7 DEF Scanned, Leads
  <2> QED BY <2>5, <2>8, SameScanned
<1>5. ASSUME SocketFails PROVE reader'.closed
  BY <1>0, <1>5 DEF SocketFails, Fail, Readers
<1>6. ASSUME Tick \/ UNCHANGED vars PROVE Scanned(reader')
  BY <1>6 DEF Tick, vars
<1> QED BY <1>1, <1>2, <1>3, <1>4, <1>5, <1>6 DEF Next

(* A failing head frame: whose verdict the caller gets.                           *)
LEMMA LateHead ==
  ASSUME Env, NEW r, Sound(r), ~r.closed, TryResolve(r).closeError = "006"
  PROVE  r.pending # None /\ Verdict(r, r.consumed) = "006"
<1> DEFINE v == Verdict(r, r.consumed)
<1>1. /\ Shape(r) /\ r \in Readers /\ r.consumed \in r.consumed..r.received
      /\ r.closeError = NoError /\ r.pending \in Callers \cup {None}
  BY DEF Sound, Shape, Readers
<1>2. CASE r.pending = None \/ v = "incomplete"
  BY <1>1, <1>2 DEF TryResolve, NoError
<1>3. CASE r.pending # None /\ v = "complete"
  <2>1. TryResolve(r) = Resolve(r)
    BY <1>3 DEF TryResolve
  <2>2. Sound(Resolve(r)) /\ ~Resolve(r).closed
    BY <1>1, <1>3, ResolveSound
  <2>3. Resolve(r).closeError = NoError
    BY <2>2 DEF Sound, Shape
  <2> QED BY <2>1, <2>3 DEF NoError
<1>4. CASE r.pending # None /\ v # "complete" /\ v # "incomplete"
  <2>1. TryResolve(r) = Fail(r, v)
    BY <1>4 DEF TryResolve
  <2>2. Fail(r, v).closeError = v
    BY <1>1 DEF Fail, Readers
  <2> QED BY <1>4, <2>1, <2>2
<1> QED BY <1>2, <1>3, <1>4

(* What a late verdict says about arrival times.                                  *)
LEMMA LateBytes ==
  ASSUME Env, NEW r, Shape(r), NEW p \in r.consumed..r.received, Verdict(r, p) = "006"
  PROVE  /\ p < r.received /\ r.arrival[p] \in Nat
         /\ now >= r.arrival[p] + APP_LINK_IO_DEADLINE
<1>1. /\ r.consumed \in Nat /\ r.received \in Nat /\ p \in Nat /\ HEADER_LEN \in Nat
      /\ 0 < HEADER_LEN /\ p + HEADER_LEN <= r.received /\ r.received <= wire.size
      /\ now \in Nat /\ APP_LINK_IO_DEADLINE \in Nat
  BY VerdictFacts, ReaderAssumption DEF Shape, Readers, Env
<1>2. \A q \in p..r.received - 1 : r.arrival[q] \in Nat /\ r.arrival[q] <= now
  <2>1. \A q \in p..r.received - 1 : q \in Offsets /\ q \in r.consumed..r.received - 1
    BY <1>1, StreamFacts DEF Offsets
  <2>2. \A q \in Offsets : r.arrival[q] \in Nat \cup {NotHeld}
    BY DEF Shape, Readers
  <2> QED BY <2>1, <2>2 DEF Shape, Held
<1>3. \E q \in p..r.received - 1 : Overran(r, p, q)
  <2>1. CASE Overran(r, p, p + HEADER_LEN - 1)
    BY <1>1, <2>1
  <2>2. CASE ~Overran(r, p, p + HEADER_LEN - 1)
    <3>1. /\ PayloadLen(p) # Bad /\ ~(r.received < FrameEnd(p)) /\ Overran(r, p, FrameEnd(p) - 1)
      BY <1>1, <2>2 DEF Verdict
    <3>2. p \in Offsets
      BY <1>1, StreamFacts DEF Offsets
    <3>3. PayloadLen(p) \in Nat
      BY <3>1, <3>2, StreamFacts DEF Bad
    <3>4. FrameEnd(p) - 1 \in p..r.received - 1
      BY <1>1, <3>1, <3>3 DEF FrameEnd
    <3> QED BY <3>1, <3>4
  <2> QED BY <2>1, <2>2
<1>4. PICK q \in p..r.received - 1 : r.arrival[q] - r.arrival[p] >= APP_LINK_IO_DEADLINE
  BY <1>3 DEF Overran
<1>5. p \in p..r.received - 1
  BY <1>1
<1> QED BY <1>1, <1>2, <1>4, <1>5

LEMMA SparesStep ==
  ASSUME IInv, Tidy(reader), Scanned(reader), [Next]_vars,
         reader'.closeError = "006", ~reader.closed
  PROVE  \E p \in FrameStarts(reader) : Overdue(reader, p)
<1>0. /\ Shape(reader) /\ reader \in Readers /\ Env /\ Sound(reader)
      /\ reader.consumed \in Nat /\ reader.census \in Nat /\ reader.received \in Nat
      /\ reader.consumed <= reader.census /\ reader.census <= reader.received
      /\ reader.closeError = NoError /\ now \in Nat
      /\ APP_LINK_IO_DEADLINE \in Nat /\ 0 < APP_LINK_IO_DEADLINE
  BY ReaderAssumption DEF IInv, Sound, Shape, Readers, Env
<1>1. reader.consumed \in FrameStarts(reader)
  BY <1>0, LeadsSelf DEF FrameStarts
<1>2. ASSUME NEW n \in 1..MaxChunk, Push(n)
      PROVE  Overdue(reader, reader.consumed)
  <2> DEFINE p == reader.consumed
             b == Buffered(reader, n)
             e == EnsureFrameDeadline(b)
             t == TryResolve(e)
  <2>1. /\ Sound(b) /\ (b.frameDeadline = NoTimer \/ (b.census < b.received /\ Armed(b)))
        /\ b.closed = reader.closed
    BY <1>0, <1>2, BufferedSound, ReaderAssumption DEF Push, IInv
  <2>2. /\ b.consumed = reader.consumed /\ b.pending = reader.pending
        /\ b.received = reader.received + n /\ n \in Nat /\ b.received <= wire.size
        /\ b.arrival = [x \in Offsets |-> IF x \in reader.received..reader.received + n - 1
                                          THEN now ELSE reader.arrival[x]]
    BY <1>0, <1>2 DEF Push, Buffered, Readers
  <2> HIDE DEF b
  <2>3. /\ Sound(e) /\ SameOffsets(b, e) /\ e.pending = b.pending /\ e.closed = b.closed
    BY <1>0, <2>1, EnsureSound, EnsureTidy DEF SameOffsets, Sound, Punctual, Waiter
  <2> HIDE DEF e
  <2>4. reader' = FloodCheck(t) /\ Sound(t)
    BY <1>0, <1>2, <2>1, <2>3, EnsureSound, TryResolveSound DEF Push, t, e, b, Sound
  <2> HIDE DEF t
  <2>5. reader' = t
    <3>1. Fail(t, "004").closeError = "004"
      BY <2>4 DEF Fail, Sound, Shape, Readers
    <3> QED BY <2>4, <3>1 DEF FloodCheck
  <2>6. e.pending # None /\ Verdict(e, e.consumed) = "006"
    BY <1>0, <2>1, <2>3, <2>5, LateHead DEF t
  <2>7. Verdict(b, p) = "006" /\ reader.pending # None
    BY <2>2, <2>3, <2>6, SameVerdict DEF SameOffsets
  <2>8. Verdict(reader, p) = "incomplete"
    BY <2>7 DEF Tidy, Prompt
  <2>9. /\ p < b.received /\ b.arrival[p] \in Nat
        /\ now >= b.arrival[p] + APP_LINK_IO_DEADLINE
    <3>1. Shape(b) /\ p \in b.consumed..b.received
      BY <1>0, <2>1, <2>2 DEF Sound
    <3> QED BY <1>0, <2>7, <3>1, LateBytes
  <2>10. p \in Offsets
    BY <1>0, <2>2, <2>9, StreamFacts DEF Offsets
  <2>11. p < reader.received /\ b.arrival[p] = reader.arrival[p]
    BY <1>0, <2>2, <2>9, <2>10
  <2> QED BY <2>8, <2>9, <2>11 DEF Overdue
<1>3. ASSUME NEW c \in Callers, ReadFrame(c)
      PROVE  Overdue(reader, reader.consumed)
  <2>1. reader.pending = None
    <3> SUFFICES ASSUME reader.pending # None PROVE FALSE
      OBVIOUS
    <3>1. reader' = [reader EXCEPT !.call[c] = "rejected"]
      BY <1>3 DEF ReadFrame
    <3> QED BY <1>0, <3>1 DEF Readers, NoError
  <2> DEFINE w == [reader EXCEPT !.pending = c, !.call[c] = "waiting"]
             e == EnsureFrameDeadline(w)
  <2>2. /\ w \in Readers /\ SameOffsets(reader, w) /\ w.frameDeadline = reader.frameDeadline
        /\ w.closed = reader.closed /\ w.closeError = reader.closeError
        /\ w.delivered = reader.delivered /\ w.pending = c
        /\ w.call = [reader.call EXCEPT ![c] = "waiting"]
    BY <1>0 DEF Readers, SameOffsets
  <2>3. reader' = TryResolve(e)
    BY <1>3, <2>1 DEF ReadFrame
  <2> HIDE DEF w
  <2>4. Shape(w) /\ Armed(w) /\ Punctual(w)
    BY <1>0, <2>2 DEF SameOffsets, IInv, Sound, Shape, Held, InOrder, Armed, Punctual
  <2>5. Waiter(w)
    BY <1>0, <2>1, <2>2, ReaderAssumption DEF Sound, Waiter, Readers
  <2>6. w.frameDeadline = NoTimer \/ (w.census < w.received /\ Armed(w))
    BY <2>4 DEF Armed
  <2>7. Sound(e) /\ SameOffsets(w, e) /\ e.closed = w.closed
    BY <1>0, <2>4, <2>5, <2>6, EnsureSound, EnsureTidy
       DEF SameOffsets, Sound, Punctual, Waiter
  <2> HIDE DEF e
  <2>8. Verdict(e, e.consumed) = "006"
    BY <1>0, <2>2, <2>3, <2>7, LateHead
  <2>9. Verdict(reader, reader.consumed) = "006"
    BY <2>2, <2>7, <2>8, SameVerdict DEF SameOffsets
  <2>10. reader.consumed < reader.received
    BY <1>0, <2>9, LateBytes
  <2> QED BY <2>9, <2>10 DEF Overdue
<1>4. ASSUME DeadlineFires
      PROVE  \E p \in FrameStarts(reader) : Overdue(reader, p)
  <2>1. PICK p \in reader.census..reader.received :
          /\ ScanStops(reader, p)
          /\ reader' = AfterScan([reader EXCEPT !.frameDeadline = NoTimer, !.census = p], p)
    BY <1>4 DEF DeadlineFires
  <2> DEFINE s == [reader EXCEPT !.frameDeadline = NoTimer, !.census = p]
             v == Verdict(reader, p)
  <2>2. /\ s \in Readers /\ s.consumed = reader.consumed /\ s.received = reader.received
        /\ s.arrival = reader.arrival /\ s.closeError = NoError /\ p \in Int
        /\ reader.census <= p /\ p \in reader.consumed..reader.received
    <3>1. p \in Nat /\ reader.census <= p /\ p \in reader.consumed..reader.received
      BY <1>0
    <3>2. s \in Readers
      BY <1>0, <3>1 DEF Readers
    <3>3. /\ s.consumed = reader.consumed /\ s.received = reader.received
          /\ s.arrival = reader.arrival /\ s.closeError = reader.closeError
      BY <1>0 DEF Readers
    <3> QED BY <1>0, <3>1, <3>2, <3>3
  <2>3. reader' = AfterScan(s, p)
    BY <2>1
  <2> HIDE DEF s
  <2>4. Verdict(s, p) = v /\ v \in {"incomplete", "complete"} \cup Errors
    BY <1>0, <2>2, SameVerdict, VerdictFacts
  <2> HIDE DEF v
  <2>5. ArmAt(s, s.arrival[p]).closeError = NoError
    BY <2>2 DEF ArmAt, Readers
  <2>6. \A err : Fail(s, err).closeError = err
    BY <2>2 DEF Fail, Readers
  <2>7. p # reader.received
    BY <2>2, <2>3 DEF AfterScan, NoError
  <2>8. p < reader.received /\ v # "complete"
    <3>1. p < reader.received
      BY <1>0, <2>2, <2>7
    <3> QED BY <2>1, <3>1 DEF ScanStops, v
  <2>9. p \in FrameStarts(reader)
    <3>1. Leads(reader, reader.census, p)
      BY <2>1 DEF ScanStops
    <3>2. Leads(reader, reader.consumed, p)
      BY <1>0, <2>2, <3>1, LeadsOn DEF Scanned
    <3> QED BY <2>2, <3>2 DEF FrameStarts
  <2>10. CASE v \in Errors
    <3>1. reader' = Fail(s, v)
      BY <2>2, <2>3, <2>4, <2>7, <2>10 DEF AfterScan
    <3>2. v = "006"
      BY <2>6, <3>1
    <3> QED BY <2>8, <2>9, <3>2 DEF Overdue, v
  <2>11. CASE v \notin Errors
    <3>1. v = "incomplete"
      BY <2>4, <2>8, <2>11
    <3>2. ~(now < s.arrival[p] + APP_LINK_IO_DEADLINE)
      BY <2>2, <2>3, <2>4, <2>5, <2>7, <2>11 DEF AfterScan, NoError
    <3>3. reader.arrival[p] \in Nat
      <4>1. p \in Offsets /\ p \in reader.consumed..reader.received - 1
        BY <1>0, <2>2, <2>8, StreamFacts DEF Shape, Offsets
      <4> QED BY <1>0, <4>1 DEF Shape, Held, Readers
    <3>4. now >= reader.arrival[p] + APP_LINK_IO_DEADLINE
      BY <1>0, <2>2, <3>2, <3>3
    <3> QED BY <2>8, <2>9, <3>1, <3>4 DEF Overdue, v
  <2> QED BY <2>10, <2>11
<1>5. ~SocketFails
  <2> SUFFICES ASSUME SocketFails PROVE FALSE
    OBVIOUS
  <2>1. reader'.closeError = "001"
    BY <1>0 DEF SocketFails, Fail, Readers
  <2> QED BY <2>1
<1>6. ~Tick /\ ~UNCHANGED vars
  BY <1>0 DEF Tick, vars, NoError
<1> QED BY <1>1, <1>2, <1>3, <1>4, <1>5, <1>6 DEF Next

(* The deadline fails a link only for a frame that is overdue, and one that        *)
(* starts where the frames before it end: pipelined frames that came in time, and  *)
(* the bytes inside a frame, never expire, whatever the timing of the timer.       *)
THEOREM PunctualSpared == Spec => SparesPunctual
<1>1. Init => Scanned(reader)
  <2> SUFFICES ASSUME Init PROVE Scanned(reader)
    OBVIOUS
  <2>1. reader.consumed = 0 /\ reader.census = 0
    BY DEF Init, EmptyReader
  <2> QED BY <2>1, LeadsSelf DEF Scanned
<1>2. IInv /\ Tidy(reader) /\ Scanned(reader) /\ [Next]_vars => Scanned(reader)'
  <2> SUFFICES ASSUME IInv, Tidy(reader), Scanned(reader), [Next]_vars
               PROVE  Scanned(reader)'
    OBVIOUS
  <2>1. Scanned(reader') /\ wire' = wire
    BY ScannedStep, StepSound
  <2> QED BY <2>1 DEF Scanned, Leads, Verdict, FrameEnd, PayloadLen, Overran
<1>3. IInv /\ Tidy(reader) /\ Scanned(reader) /\ [Next]_vars
        => [reader'.closeError = "006" /\ ~reader.closed
              => \E p \in FrameStarts(reader) : Overdue(reader, p)]_vars
  BY SparesStep
<1> QED BY <1>1, <1>2, <1>3, InductiveInvariant, AlwaysTidy, PTL DEF Spec, SparesPunctual
================================================================================
