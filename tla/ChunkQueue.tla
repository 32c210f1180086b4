------------------------------- MODULE ChunkQueue ------------------------------
(* How a FrameReader keeps its unread bytes: an array of chunks whose read part   *)
(* is dropped in place and sliced off now and then, a cursor for the reads and a  *)
(* second one for the deadline scan. FrameReader speaks of offsets in the peer's   *)
(* stream; here every callback moves both, and the cursors must come to stand at   *)
(* the bytes the offsets name.                                                    *)
(*                                                                                *)
(* A chunk is the stretch from..to-1 of the stream that it holds. Indices count   *)
(* from 0, as in the code.                                                        *)
EXTENDS FrameReader

CONSTANT CHUNK_COMPACT_THRESHOLD   \* read entries the array may carry along

ASSUME QueueAssumption == CHUNK_COMPACT_THRESHOLD \in Nat

VARIABLE queue

queueVars == <<wire, now, reader, queue>>

Chunk(q, i) == q.chunks[i + 1]
Gone == [from |-> 0, to |-> 0, at |-> NotHeld]   \* undefined

EmptyQueue ==
  [chunks |-> <<>>, chunkIndex |-> 0, head |-> 0, length |-> 0,
   censusChunkIndex |-> 0, censusOffset |-> 0, censusBytes |-> 0]
--------------------------------------------------------------------------------
(* Where a cursor stands n bytes further on; past the last byte it stands at the   *)
(* start of the entry that comes next.                                            *)
Ahead(q, idx, offset, n) ==
  LET target == Chunk(q, idx).from + offset + n
      beyond == {i \in idx..Len(q.chunks) - 1 : target < Chunk(q, i).to}
      entry  == CHOOSE i \in beyond : \A j \in beyond : i <= j
  IN IF beyond = {} THEN [idx |-> Len(q.chunks), offset |-> 0]
     ELSE [idx |-> entry, offset |-> target - Chunk(q, entry).from]

Pushed(q, n) ==
  [q EXCEPT !.chunks = Append(@, [from |-> reader.received, to |-> reader.received + n,
                                  at |-> now]),
            !.length = @ + n]

(* #compactChunks                                                                *)
CompactChunks_ScanLeft(q) ==
  IF q.chunkIndex = Len(q.chunks)
  THEN [q EXCEPT !.chunks = <<>>, !.chunkIndex = 0, !.censusChunkIndex = 0, !.censusOffset = 0]
  ELSE IF q.chunkIndex >= CHUNK_COMPACT_THRESHOLD /\ q.chunkIndex * 2 >= Len(q.chunks)
  THEN [q EXCEPT !.chunks = SubSeq(@, q.chunkIndex + 1, Len(@)), !.chunkIndex = 0]
  ELSE q
CompactChunks(q) ==
  IF q.chunkIndex = Len(q.chunks)
  THEN [q EXCEPT !.chunks = <<>>, !.chunkIndex = 0, !.censusChunkIndex = 0, !.censusOffset = 0]
  ELSE IF q.chunkIndex >= CHUNK_COMPACT_THRESHOLD /\ q.chunkIndex * 2 >= Len(q.chunks)
  THEN [q EXCEPT !.chunks = SubSeq(@, q.chunkIndex + 1, Len(@)), !.chunkIndex = 0,
                 !.censusChunkIndex = @ - q.chunkIndex]
  ELSE q

(* #consume of n > 0 bytes: a scan cursor they overtake restarts at the new head. *)
ConsumeBytes(q, n) ==
  LET to   == Ahead(q, q.chunkIndex, q.head, n)
      rest == CompactChunks(
                [q EXCEPT !.chunks = [i \in DOMAIN @ |-> IF i <= to.idx THEN Gone ELSE @[i]],
                          !.chunkIndex = to.idx, !.head = to.offset, !.length = @ - n,
                          !.censusBytes = IF n > @ THEN 0 ELSE @ - n])
  IN IF n > q.censusBytes
     THEN [rest EXCEPT !.censusChunkIndex = rest.chunkIndex, !.censusOffset = rest.head]
     ELSE rest

(* A frame of n bytes is read, its header first.                                  *)
TakeFrame(q, n) ==
  LET payload == ConsumeBytes(q, HEADER_LEN)
  IN IF n = HEADER_LEN THEN payload ELSE ConsumeBytes(payload, n - HEADER_LEN)

(* The deadline scan passes the complete frames in the next n bytes.              *)
Scan(q, n) ==
  LET to == Ahead(q, q.censusChunkIndex, q.censusOffset, n)
  IN IF n = 0 THEN q
     ELSE [q EXCEPT !.censusChunkIndex = to.idx, !.censusOffset = to.offset,
                    !.censusBytes = @ + n]
--------------------------------------------------------------------------------
QueueInit == Init /\ queue = EmptyQueue

(* What a callback leaves of q, the queue with the callback's own bytes in it: the *)
(* frame it resolved is read, and a reader that failed has dropped everything.    *)
After(q) ==
  IF reader'.closed THEN EmptyQueue
  ELSE IF reader'.consumed = reader.consumed THEN q
  ELSE TakeFrame(q, reader'.consumed - reader.consumed)

PushChunk(n) == Push(n) /\ queue' = After(Pushed(queue, n))
ReadFrameBytes(c) == ReadFrame(c) /\ queue' = After(queue)
ScanFires ==
  /\ DeadlineFires
  /\ queue' = IF reader'.closed THEN EmptyQueue ELSE Scan(queue, reader'.census - reader.census)
DropAll == SocketFails /\ queue' = EmptyQueue
TimePasses == Tick /\ UNCHANGED queue

QueueNext == \/ \E n \in 1..MaxChunk : PushChunk(n)
             \/ \E c \in Callers : ReadFrameBytes(c)
             \/ ScanFires
             \/ DropAll
             \/ TimePasses

QueueSpec == QueueInit /\ [][QueueNext]_queueVars /\ Fairness
--------------------------------------------------------------------------------
(* The array and its two cursors tell the reader what its offsets say, however    *)
(* often entries were dropped and sliced off: as many bytes and chunks, the same   *)
(* byte with the same arrival at every distance from the head, and the scan at the *)
(* byte it has not passed yet, whose arrival the next deadline counts from.        *)
CursorsAgree ==
  /\ queue.length = Length(reader)
  /\ queue.censusBytes = reader.census - reader.consumed
  /\ Len(queue.chunks) - queue.chunkIndex = PendingChunkCount(reader)
  /\ \A skip \in 0..queue.length - 1 :
       LET place == Ahead(queue, queue.chunkIndex, queue.head, skip)
           chunk == Chunk(queue, place.idx)
       IN /\ chunk.from + place.offset = reader.consumed + skip
          /\ chunk.at = reader.arrival[reader.consumed + skip]
  /\ queue.censusBytes < queue.length =>
       LET chunk == Chunk(queue, queue.censusChunkIndex)
       IN /\ queue.censusChunkIndex < Len(queue.chunks)
          /\ chunk.from + queue.censusOffset = reader.census
          /\ chunk.at = reader.arrival[reader.census]
================================================================================
