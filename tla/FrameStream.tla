------------------------------ MODULE FrameStream ------------------------------
(* What the reading half of a kipc app-link promises, and nothing else: the      *)
(* frames of the peer's byte stream come out whole, in stream order, each once,  *)
(* until the link closes; after that none comes out. How bytes are buffered, how *)
(* deadlines are kept and who reads is the business of FrameReader.              *)
EXTENDS Integers, Sequences

CONSTANTS HEADER_LEN,     \* bytes of a frame header
          MAX_FRAME_LEN,  \* largest payload a frame may declare
          Streams         \* the byte streams a peer may send

VARIABLES wire,           \* the stream of this link
          next,           \* offset of the first byte not handed out yet
          delivered,      \* the frames handed out, [at |-> offset, len |-> payload]
          open            \* whether more frames may come

vars == <<wire, next, delivered, open>>

(* wire.header[p] is what decodeHeader makes of the bytes at offset p: the       *)
(* declared payload length, or -1 where it throws.                               *)
Bad == -1
WholeFrameAt(p) ==
  /\ p < wire.size
  /\ wire.header[p] # Bad
  /\ wire.header[p] <= MAX_FRAME_LEN
  /\ p + HEADER_LEN + wire.header[p] <= wire.size

Init == /\ wire \in Streams
        /\ next = 0
        /\ delivered = <<>>
        /\ open = TRUE

(* The callback that hands out a frame may find the rest of its chunk too much   *)
(* to keep and close the link in the same step.                                  *)
Deliver ==
  /\ open
  /\ WholeFrameAt(next)
  /\ delivered' = Append(delivered, [at |-> next, len |-> wire.header[next]])
  /\ next' = next + HEADER_LEN + wire.header[next]
  /\ open' \in BOOLEAN
  /\ UNCHANGED wire

Close == open' = FALSE /\ UNCHANGED <<wire, next, delivered>>

Next == Deliver \/ Close

Spec == Init /\ [][Next]_vars

(* The frames handed out tile the stream from its first byte to `next`: none is  *)
(* skipped, repeated, truncated or started inside another.                       *)
EndOf(i) == IF i = 0 THEN 0 ELSE delivered[i].at + HEADER_LEN + delivered[i].len
Tiles == /\ \A i \in 1..Len(delivered) : /\ delivered[i].at = EndOf(i - 1)
                                         /\ delivered[i].len = wire.header[delivered[i].at]
         /\ next = EndOf(Len(delivered))
================================================================================
