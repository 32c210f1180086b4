----------------------------- MODULE MCFrameReader -----------------------------
(* A small link: two-byte headers, payloads of at most two bytes, a deadline of  *)
(* two clock ticks, two places in the application that read.                     *)
EXTENDS ChunkQueue

(* The stream whose frames declare the payload lengths lens, followed by `tail`  *)
(* bytes of a frame cut short. Offsets inside a frame do not decode.             *)
StreamOf(lens, tail) ==
  LET end[i \in 0..Len(lens)] ==
        IF i = 0 THEN 0 ELSE end[i - 1] + 2 + (IF lens[i] \in 0..2 THEN lens[i] ELSE 0)
      at(p) == {i \in 1..Len(lens) : end[i - 1] = p}
  IN [size   |-> end[Len(lens)] + tail,
      header |-> [p \in 0..end[Len(lens)] + tail - 1 |->
                    IF at(p) = {} THEN -1 ELSE lens[CHOOSE i \in at(p) : TRUE]]]

(* Pipelined frames with an unfinished one behind them; two maximal frames; a    *)
(* good frame before an undecodable header; a payload beyond the cap.            *)
MCStreams == {StreamOf(<<1, 0>>, 1), StreamOf(<<0, 2>>, 1),
              StreamOf(<<0, -1>>, 0), StreamOf(<<0, 3>>, 1)}
================================================================================
