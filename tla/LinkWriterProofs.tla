--------------------------- MODULE LinkWriterProofs ----------------------------
(* The safety of the app-link writer, for any number of calls, any frame sizes   *)
(* and any deadline. The invariant says where in the order of admission the      *)
(* writer stands: the frames before it are on the wire in full, the one it holds *)
(* is there up to `offset`, the rest are still in the chain.                     *)
EXTENDS LinkWriter, SequenceTheorems, TLAPS

(* Frames whose turn has come.                                                   *)
Begun == Len(admitted) - Len(chain)

(* Each call is admitted once, and the chain is the end of that order.           *)
QueueOK ==
  /\ Len(chain) <= Len(admitted)
  /\ \A i \in 1..Len(chain) : chain[i] = admitted[Begun + i]
  /\ \A i, j \in 1..Len(admitted) : admitted[i] = admitted[j] => i = j
  /\ \A i \in 1..Len(admitted) : outcome[admitted[i]] # "new"

(* A parked writer can be woken, and only an open socket parks one.              *)
WriterOK ==
  /\ poison => current = None
  /\ phase = "waiting" => open /\ current \in waiters
  /\ closed => ~open

(* A caller still waiting has its frame in the writer's hands or in the chain.   *)
PendingOK == \A c \in Calls : outcome[c] = "pending" =>
  c = current \/ \E i \in 1..Len(chain) : chain[i] = c

Full(i) == wire[i].n = Size[wire[i].call]
InOrder == \A i \in 1..Len(wire) : wire[i].call = admitted[i]

(* The writer holds the b-th admitted frame, c, of which `off` bytes are written. *)
Position(c, off, b) ==
  /\ b \in 1..Len(admitted) /\ c = admitted[b]
  /\ off = 0 => Len(wire) = b - 1 /\ \A i \in 1..Len(wire) : Full(i)
  /\ off > 0 => /\ Len(wire) = b /\ wire[b].n = off
                /\ \A i \in 1..b - 1 : Full(i)

WireOK ==
  /\ InOrder
  /\ Len(wire) <= Begun
  /\ \A i \in 1..Len(wire) - 1 : Full(i)
  /\ current # None => Position(current, offset, Begun)
  /\ ~poison /\ current = None => Len(wire) = Begun /\ \A i \in 1..Len(wire) : Full(i)

IInv == TypeOK /\ QueueOK /\ WriterOK /\ PendingOK /\ WireOK /\ ResolvedIsWritten
--------------------------------------------------------------------------------
Runs == [call : Calls, n : Nat \ {0}]

(* A run accepted by the socket: the wire grows at its end, and what stood there *)
(* in full stays.                                                                *)
LEMMA WireGrows ==
  ASSUME WriterAssumption, wire \in Seq(Runs), admitted \in Seq(Calls), InOrder,
         \A i, j \in 1..Len(admitted) : admitted[i] = admitted[j] => i = j,
         NEW c \in Calls, NEW off \in Nat, off < Size[c], NEW b \in Nat, Position(c, off, b),
         NEW k \in 0..Size[c] - off, wire' = Extended(c, k), admitted' = admitted
  PROVE  /\ wire' \in Seq(Runs)
         /\ InOrder'
         /\ off + k = 0 => Len(wire') = b - 1
         /\ off + k > 0 => Len(wire') = b /\ wire'[b].n = off + k /\ wire'[b].call = c
         /\ \A i \in 1..b - 1 : i <= Len(wire') /\ Full(i)'
         /\ \A i \in 1..Len(wire) : Full(i) => i <= Len(wire') /\ wire'[i] = wire[i]
<1>0. /\ Size \in [Calls -> Nat \ {0}] /\ Size[c] \in Nat /\ k \in Nat
      /\ b \in 1..Len(admitted) /\ c = admitted[b] /\ Len(wire) \in Nat /\ Len(admitted) \in Nat
  BY DEF WriterAssumption, Position
<1>a. \A i \in 1..Len(wire) : wire[i] \in Runs
  BY ElementOfSeq
<1>1. CASE k = 0
  <2>1. wire' = wire
    BY <1>1 DEF Extended
  <2>2. off + k = off
    BY <1>1, <1>0
  <2>3. /\ off = 0 => Len(wire) = b - 1 /\ \A i \in 1..b - 1 : Full(i)
        /\ off > 0 => Len(wire) = b /\ wire[b].n = off /\ \A i \in 1..b - 1 : Full(i)
    BY <1>0 DEF Position
  <2>4. \A i \in 1..b - 1 : i <= Len(wire) /\ Full(i)
    BY <2>3, <1>0, SMTT(30)
  <2>5. off > 0 => wire[b].call = c
    BY <2>3, <1>0 DEF InOrder
  <2>6. InOrder'
    BY <2>1 DEF InOrder
  <2>7. \A i \in 1..b - 1 : i <= Len(wire') /\ Full(i)'
    BY <2>1, <2>4 DEF Full
  <2>8. QED
    BY <2>1, <2>2, <2>3, <2>5, <2>6, <2>7, <1>0
<1>2. CASE k > 0 /\ off > 0
  <2>1. /\ Len(wire) = b /\ wire[b].n = off /\ \A i \in 1..b - 1 : Full(i)
        /\ b \in 1..Len(wire) /\ wire[b].call = c
    BY <1>0, <1>2 DEF Position, InOrder
  <2>2. wire # <<>>
    BY <2>1
  <2>3. wire' = [wire EXCEPT ![b].n = @ + k]
    BY <1>0, <1>2, <2>1, <2>2 DEF Extended
  <2>4. [wire[b] EXCEPT !.n = @ + k] \in Runs
    <3>1. wire[b] \in Runs
      BY <1>a, <2>1
    <3>2. wire[b].n + k \in Nat \ {0}
      BY <1>0, <1>2, <2>1
    <3>3. QED
      BY <3>1, <3>2 DEF Runs
  <2>5. /\ wire' = [wire EXCEPT ![b] = [wire[b] EXCEPT !.n = @ + k]]
    BY <2>3
  <2>6. wire' \in Seq(Runs) /\ Len(wire') = Len(wire)
    BY <2>4, <2>5, <2>1, ExceptSeq
  <2>7. /\ wire'[b].n = off + k /\ wire'[b].call = c
        /\ \A i \in 1..Len(wire) : i # b => wire'[i] = wire[i]
    <3>1. DOMAIN wire = 1..Len(wire)
      BY LenProperties
    <3>2. wire'[b] = [wire[b] EXCEPT !.n = @ + k]
      BY <3>1, <2>1, <2>5
    <3>3. \A i \in 1..Len(wire) : i # b => wire'[i] = wire[i]
      BY <3>1, <2>5
    <3>4. wire[b] \in Runs
      BY <1>a, <2>1
    <3>5. QED
      BY <3>2, <3>3, <3>4, <2>1 DEF Runs
  <2>8. ~Full(b)
    BY <2>1, <1>0 DEF Full
  <2>9. InOrder'
    BY <1>0, <2>1, <2>6, <2>7 DEF InOrder
  <2>10. \A i \in 1..b - 1 : i <= Len(wire') /\ wire'[i] = wire[i]
    <3>1. \A i \in 1..b - 1 : i \in 1..Len(wire) /\ i # b
      BY <1>0, <2>1
    <3>2. QED
      BY <3>1, <2>6, <2>7
  <2>11. \A i \in 1..b - 1 : i <= Len(wire') /\ Full(i)'
    BY <2>1, <2>10 DEF Full
  <2>12. \A i \in 1..Len(wire) : Full(i) => i <= Len(wire') /\ wire'[i] = wire[i]
    BY <1>0, <2>1, <2>6, <2>7, <2>8
  <2>13. off + k > 0 /\ Len(wire') = b
    BY <1>0, <1>2, <2>1, <2>6
  <2>14. QED
    BY <2>6, <2>7, <2>9, <2>11, <2>12, <2>13
<1>3. CASE k > 0 /\ off = 0
  <2>1. Len(wire) = b - 1 /\ \A i \in 1..Len(wire) : Full(i)
    BY <1>3 DEF Position
  <2>2. wire # <<>> => wire[Len(wire)].call # c
    <3>1. SUFFICES ASSUME wire # <<>> PROVE wire[Len(wire)].call # c
      OBVIOUS
    <3>2. Len(wire) \in 1..Len(wire)
      BY <3>1, EmptySeq, <1>0
    <3>3. wire[Len(wire)].call = admitted[b - 1] /\ b - 1 \in 1..Len(admitted)
      BY <3>2, <2>1, <1>0 DEF InOrder
    <3>4. QED
      BY <3>3, <1>0, SMTT(30)
  <2>3. wire' = Append(wire, [call |-> c, n |-> k])
    BY <2>2, <1>3 DEF Extended
  <2>4. [call |-> c, n |-> k] \in Runs
    BY <1>0, <1>3 DEF Runs
  <2>5. /\ wire' \in Seq(Runs) /\ Len(wire') = Len(wire) + 1
        /\ \A i \in 1..Len(wire) : wire'[i] = wire[i]
        /\ wire'[Len(wire) + 1] = [call |-> c, n |-> k]
    BY <2>3, <2>4, AppendProperties
  <2>a. Len(wire) = b - 1 /\ Len(wire') = b /\ wire'[b] = [call |-> c, n |-> k]
    BY <1>0, <2>1, <2>5
  <2>b. \A i \in 1..b - 1 : i \in 1..Len(wire) /\ wire'[i] = wire[i]
    BY <1>0, <2>a, <2>5
  <2>6. InOrder'
    <3>1. \A i \in 1..b - 1 : wire'[i].call = admitted'[i]
      BY <2>b DEF InOrder
    <3>2. wire'[b].call = admitted'[b]
      BY <2>a, <1>0
    <3>3. \A i \in 1..Len(wire') : i \in 1..b - 1 \/ i = b
      BY <2>a, <1>0
    <3>4. QED
      BY <3>1, <3>2, <3>3 DEF InOrder
  <2>7. \A i \in 1..b - 1 : i <= Len(wire') /\ Full(i)'
    <3>1. \A i \in 1..b - 1 : Full(i)
      BY <2>1, <2>b
    <3>2. \A i \in 1..b - 1 : i <= Len(wire')
      BY <2>a, <1>0
    <3>3. QED
      BY <3>1, <3>2, <2>b DEF Full
  <2>8. off + k > 0 /\ Len(wire') = b /\ wire'[b].n = off + k /\ wire'[b].call = c
    BY <1>0, <1>3, <2>a
  <2>9. \A i \in 1..Len(wire) : i <= Len(wire') /\ wire'[i] = wire[i]
    BY <1>0, <2>5, SMTT(30)
  <2>10. QED
    BY <2>5, <2>6, <2>7, <2>8, <2>9
<1>4. QED
  BY <1>0, <1>1, <1>2, <1>3
--------------------------------------------------------------------------------
Outcomes == {"new", "pending", "rejecting", "ok", "failed"}
AllFull == \A i \in 1..Len(wire) : Full(i)

(* How WriteFrom(c, off) may end: refused by a closed socket, done, or parked.   *)
Completed(c, b) ==
  /\ open
  /\ outcome' = [outcome EXCEPT ![c] = IF @ = "pending" THEN "ok" ELSE @]
  /\ current' = None /\ offset' = 0 /\ phase' = "idle"
  /\ poison' = poison /\ waiters' = waiters
  /\ Len(wire') = b /\ AllFull'
Parked(c, b) ==
  /\ open
  /\ outcome' = outcome /\ poison' = poison
  /\ current' = c /\ offset' \in Nat /\ offset' < Size[c] /\ phase' = "waiting"
  /\ waiters' = waiters \cup {c}
  /\ Position(c, offset, b)'

LEMMA WriteFromEnds ==
  ASSUME WriterAssumption, wire \in Seq(Runs), admitted \in Seq(Calls), InOrder,
         outcome \in [Calls -> Outcomes], ResolvedIsWritten,
         \A i, j \in 1..Len(admitted) : admitted[i] = admitted[j] => i = j,
         NEW c \in Calls, NEW off \in Nat, off < Size[c], NEW b \in Nat, Position(c, off, b),
         WriteFrom(c, off), admitted' = admitted
  PROVE  /\ (~open /\ FailRun(c)) \/ Completed(c, b) \/ Parked(c, b)
         /\ wire' \in Seq(Runs) /\ InOrder' /\ ResolvedIsWritten'
<1>0. Size[c] \in Nat /\ Len(wire) \in Nat
  BY DEF WriterAssumption
<1>1. CASE ~open /\ FailRun(c)
  <2>1. wire' = wire /\ outcome' = Reject(c)
    BY <1>1 DEF FailRun
  <2>2. \A d \in Calls : outcome'[d] = "ok" => outcome[d] = "ok"
    BY <2>1 DEF Reject
  <2>3. ResolvedIsWritten'
    BY <2>1, <2>2 DEF ResolvedIsWritten
  <2>4. QED
    BY <1>1, <2>1, <2>3 DEF InOrder
<1>2. ASSUME NEW k \in 0..Size[c] - off, open, wire' = Extended(c, k),
             IF off + k = Size[c]
             THEN /\ outcome' = [outcome EXCEPT ![c] = IF @ = "pending" THEN "ok" ELSE @]
                  /\ current' = None /\ offset' = 0 /\ phase' = "idle"
                  /\ UNCHANGED <<waiters, poison>>
             ELSE /\ current' = c /\ offset' = off + k /\ phase' = "waiting"
                  /\ waiters' = waiters \cup {c}
                  /\ UNCHANGED <<outcome, poison>>
      PROVE  /\ Completed(c, b) \/ Parked(c, b)
             /\ wire' \in Seq(Runs) /\ InOrder' /\ ResolvedIsWritten'
  <2>1. /\ wire' \in Seq(Runs) /\ InOrder'
        /\ off + k = 0 => Len(wire') = b - 1
        /\ off + k > 0 => Len(wire') = b /\ wire'[b].n = off + k /\ wire'[b].call = c
        /\ \A i \in 1..b - 1 : i <= Len(wire') /\ Full(i)'
        /\ \A i \in 1..Len(wire) : Full(i) => i <= Len(wire') /\ wire'[i] = wire[i]
    BY <1>2, WireGrows
  <2>2. k \in Nat /\ off + k \in Nat /\ Len(wire') \in Nat
    BY <1>0, <2>1
  <2>3. b \in 1..Len(admitted) /\ c = admitted[b]
    BY DEF Position
  <2>4. \A d \in Calls : outcome[d] = "ok" =>
          \E i \in 1..Len(wire') : wire'[i].call = d /\ wire'[i].n = Size[d]
    <3>1. SUFFICES ASSUME NEW d \in Calls, outcome[d] = "ok"
                   PROVE  \E i \in 1..Len(wire') : wire'[i].call = d /\ wire'[i].n = Size[d]
      OBVIOUS
    <3>2. PICK i \in 1..Len(wire) : wire[i].call = d /\ wire[i].n = Size[d]
      BY <3>1 DEF ResolvedIsWritten
    <3>3. i <= Len(wire') /\ wire'[i] = wire[i]
      BY <3>2, <2>1 DEF Full
    <3>4. i \in 1..Len(wire')
      BY <3>3, <2>2, <1>0
    <3>5. QED
      BY <3>2, <3>3, <3>4
  <2>5. CASE off + k = Size[c]
    <3>1. /\ outcome' = [outcome EXCEPT ![c] = IF @ = "pending" THEN "ok" ELSE @]
          /\ current' = None /\ offset' = 0 /\ phase' = "idle"
          /\ UNCHANGED <<waiters, poison>>
      BY <1>2, <2>5
    <3>2. Len(wire') = b /\ wire'[b].n = Size[c] /\ wire'[b].call = c /\ b \in 1..Len(wire')
      BY <2>1, <2>2, <2>3, <2>5, <1>0
    <3>3. AllFull'
      <4>1. \A i \in 1..Len(wire') : i \in 1..b - 1 \/ i = b
        BY <3>2
      <4>2. Full(b)'
        BY <3>2 DEF Full
      <4>3. QED
        BY <4>1, <4>2, <2>1 DEF AllFull
    <3>4. \A d \in Calls : outcome'[d] = "ok" => outcome[d] = "ok" \/ d = c
      BY <3>1
    <3>5. ResolvedIsWritten'
      BY <2>4, <3>2, <3>4 DEF ResolvedIsWritten
    <3>6. QED
      BY <1>2, <2>1, <3>1, <3>2, <3>3, <3>5 DEF Completed
  <2>6. CASE off + k # Size[c]
    <3>1. /\ current' = c /\ offset' = off + k /\ phase' = "waiting"
          /\ waiters' = waiters \cup {c}
          /\ UNCHANGED <<outcome, poison>>
      BY <1>2, <2>6
    <3>a. off + k < Size[c]
      <4>1. k <= Size[c] - off
        BY <1>0
      <4> QED BY <4>1, <2>2, <2>6, <1>0
    <3>2. offset' \in Nat /\ offset' < Size[c]
      BY <3>1, <3>a, <2>2
    <3>3. Position(c, offset, b)'
      <4>1. offset' = 0 => Len(wire') = b - 1 /\ \A i \in 1..Len(wire') : Full(i)'
        BY <2>1, <3>1
      <4>2. offset' > 0 => /\ Len(wire') = b /\ wire'[b].n = offset'
                           /\ \A i \in 1..b - 1 : Full(i)'
        BY <2>1, <3>1
      <4>3. QED
        BY <2>3, <4>1, <4>2 DEF Position
    <3>4. ResolvedIsWritten'
      BY <2>4, <3>1 DEF ResolvedIsWritten
    <3>5. QED
      BY <1>2, <2>1, <3>1, <3>2, <3>3, <3>4 DEF Parked
  <2>7. QED
    BY <2>5, <2>6
<1>3. QED
  BY <1>1, <1>2 DEF WriteFrom

(* The writer and the wire are left alone, and outcomes only move away from the  *)
(* ones the invariant speaks of.                                                 *)
LEMMA Untouched ==
  ASSUME IInv, outcome' \in [Calls -> Outcomes],
         UNCHANGED <<admitted, chain, current, offset, wire, poison>>,
         \A c \in Calls : outcome'[c] \in {"new", "ok", "pending"} => outcome'[c] = outcome[c]
  PROVE  QueueOK' /\ PendingOK' /\ WireOK' /\ ResolvedIsWritten'
<1>1. \A i \in 1..Len(admitted) : admitted[i] \in Calls
  BY ElementOfSeq DEF IInv, TypeOK
<1>2. QueueOK'
  BY <1>1 DEF IInv, QueueOK, Begun
<1>3. PendingOK'
  BY DEF IInv, PendingOK
<1>4. WireOK'
  BY DEF IInv, WireOK, InOrder, Begun, Position, Full
<1>5. ResolvedIsWritten'
  BY DEF IInv, ResolvedIsWritten
<1>6. QED
  BY <1>2, <1>3, <1>4, <1>5

(* The writer finishes with the frame in its hands, for better or worse, or goes *)
(* on with it; the chain is left alone.                                          *)
LEMMA CurrentMoves ==
  ASSUME WriterAssumption, IInv, NEW c \in Calls, current = c, NEW b \in Nat, Begun = b,
         UNCHANGED <<now, dueBy, admitted, chain, deadlineAt, closed, open>>,
         FailRun(c) \/ WriteFrom(c, offset)
  PROVE  IInv'
<1>0. /\ wire \in Seq(Runs) /\ admitted \in Seq(Calls) /\ chain \in Seq(Calls)
      /\ outcome \in [Calls -> Outcomes] /\ current = c
      /\ offset \in Nat /\ offset < Size[c] /\ None \notin Calls
      /\ Len(wire) \in Nat /\ Len(admitted) \in Nat /\ Len(chain) \in Nat
      /\ Position(c, offset, b) /\ poison = FALSE
  <2>1. /\ wire \in Seq(Runs) /\ admitted \in Seq(Calls) /\ chain \in Seq(Calls)
        /\ outcome \in [Calls -> Outcomes] /\ current = c
        /\ offset \in Nat /\ offset < Size[c] /\ None \notin Calls
    BY DEF IInv, TypeOK, Runs, Outcomes, WriterAssumption
  <2>2. Len(wire) \in Nat /\ Len(admitted) \in Nat /\ Len(chain) \in Nat
    BY <2>1
  <2>4. Position(c, offset, b) /\ poison = FALSE
    BY DEF IInv, WireOK, WriterOK, TypeOK
  <2>5. QED
    BY <2>1, <2>2, <2>4
<1>a. \A i \in 1..Len(admitted) : admitted[i] \in Calls
  BY <1>0, ElementOfSeq
<1>b. /\ InOrder /\ ResolvedIsWritten /\ Begun' = b
      /\ \A i, j \in 1..Len(admitted) : admitted[i] = admitted[j] => i = j
  BY DEF IInv, WireOK, QueueOK, Begun
<1>c. /\ (outcome' = Reject(c) /\ FailRun(c))
      \/ Completed(c, b) \/ Parked(c, b)
  BY <1>0, <1>b, WriteFromEnds DEF FailRun
<1>d. wire' \in Seq(Runs) /\ InOrder' /\ ResolvedIsWritten'
  <2>1. CASE FailRun(c)
    <3>1. wire' = wire /\ outcome' = Reject(c)
      BY <2>1 DEF FailRun
    <3>2. \A d \in Calls : outcome'[d] = "ok" => outcome[d] = "ok"
      BY <3>1, <1>0 DEF Reject
    <3>3. QED
      BY <3>1, <3>2, <1>0, <1>b DEF InOrder, ResolvedIsWritten
  <2>2. CASE WriteFrom(c, offset)
    BY <2>2, <1>0, <1>b, WriteFromEnds
  <2>3. QED
    BY <2>1, <2>2
<1>1. /\ outcome' \in [Calls -> Outcomes]
      /\ \A d \in Calls : outcome'[d] = "new" => outcome[d] = "new"
      /\ \A d \in Calls : outcome'[d] = "pending" =>
           outcome[d] = "pending" /\ (d = c => current' = c)
  BY <1>0, <1>c DEF Reject, Completed, Parked, Outcomes
<1>2. TypeOK'
  <2>1. /\ offset' \in Nat /\ phase' \in {"idle", "waiting", "woken"}
        /\ current' \in Calls \cup {None}
        /\ phase' = "idle" <=> current' = None
        /\ current' # None => offset' < Size[current']
        /\ waiters' \subseteq Calls /\ poison' \in BOOLEAN
    <3>1. CASE FailRun(c)
      BY <3>1, <1>0 DEF FailRun, IInv, TypeOK
    <3>2. CASE Completed(c, b)
      BY <3>2, <1>0 DEF Completed, IInv, TypeOK
    <3>3. CASE Parked(c, b)
      BY <3>3, <1>0 DEF Parked, IInv, TypeOK
    <3>4. QED
      BY <1>c, <3>1, <3>2, <3>3
  <2>2. /\ now' \in 0..MaxTime /\ dueBy' \in [Calls -> Nat]
        /\ admitted' \in Seq(Calls) /\ chain' \in Seq(Calls)
        /\ deadlineAt' \in Nat /\ closed' \in BOOLEAN /\ open' \in BOOLEAN
    BY DEF IInv, TypeOK
  <2>3. QED
    BY <2>1, <2>2, <1>1, <1>d DEF TypeOK, Runs, Outcomes
<1>3. QueueOK'
  BY <1>1, <1>a, <1>b DEF IInv, QueueOK, Begun
<1>4. WriterOK'
  BY <1>0, <1>c DEF FailRun, Completed, Parked, IInv, WriterOK
<1>5. PendingOK'
  BY <1>1 DEF IInv, PendingOK
<1>6. WireOK'
  <2>1. CASE FailRun(c)
    <3>1. wire' = wire /\ poison' = TRUE /\ current' = None
      BY <2>1 DEF FailRun
    <3>2. QED
      BY <3>1, <1>b, <1>d DEF IInv, WireOK, Full
  <2>2. CASE Completed(c, b)
    BY <2>2, <1>0, <1>b, <1>d DEF Completed, AllFull, WireOK, Full
  <2>3. CASE Parked(c, b)
    <3>1. /\ Position(c, offset, b)' /\ current' = c /\ offset' \in Nat
          /\ Begun' = b /\ c # None
      BY <2>3, <1>0, <1>b DEF Parked
    <3>2. Len(wire') \in Nat
      BY <1>d
    <3>3. Len(wire') <= b /\ \A i \in 1..Len(wire') - 1 : Full(i)'
      <4>1. CASE offset' = 0
        BY <4>1, <3>1, <3>2 DEF Position
      <4>2. CASE offset' > 0
        BY <4>2, <3>1, <3>2 DEF Position
      <4>3. QED
        BY <3>1, <4>1, <4>2
    <3>4. Position(current, offset, Begun)'
      BY <3>1 DEF Position, Full
    <3>5. QED
      BY <3>1, <3>3, <3>4, <1>d DEF WireOK
  <2>4. QED
    BY <1>c, <2>1, <2>2, <2>3
<1>7. QED
  BY <1>2, <1>3, <1>4, <1>5, <1>6, <1>d DEF IInv

(* The head of the chain takes its turn.                                         *)
LEMMA BeginRunKeeps ==
  ASSUME WriterAssumption, IInv, BeginRun
  PROVE  IInv'
<1> DEFINE c == Head(chain)
           b == Begun + 1
<1>0. /\ wire \in Seq(Runs) /\ admitted \in Seq(Calls) /\ chain \in Seq(Calls)
      /\ outcome \in [Calls -> Outcomes] /\ None \notin Calls /\ current = None
      /\ chain # <<>> /\ chain' = Tail(chain) /\ Size \in [Calls -> Nat \ {0}]
      /\ UNCHANGED <<now, dueBy, admitted, closed, open>>
      /\ Len(wire) \in Nat /\ Len(admitted) \in Nat /\ Len(chain) \in Nat
      /\ APP_LINK_IO_DEADLINE \in Nat /\ now \in Nat
  BY DEF IInv, TypeOK, Runs, Outcomes, BeginRun, WriterAssumption
<1>1. /\ Len(chain) > 0 /\ c = chain[1] /\ c \in Calls /\ chain' \in Seq(Calls)
      /\ Len(chain') = Len(chain) - 1
      /\ \A i \in 1..Len(chain') : chain'[i] = chain[i + 1]
  BY <1>0, HeadTailProperties, EmptySeq
<1>2. /\ Begun \in Nat /\ b \in 1..Len(admitted) /\ Begun' = b /\ c = admitted[b]
  BY <1>0, <1>1 DEF IInv, QueueOK, Begun
<1>3. /\ \A i \in 1..Len(admitted) : admitted[i] \in Calls
      /\ \A i, j \in 1..Len(admitted) : admitted[i] = admitted[j] => i = j
      /\ InOrder /\ ResolvedIsWritten
  BY <1>0, ElementOfSeq DEF IInv, QueueOK, WireOK
<1> HIDE DEF c, b
<1>4. /\ Len(chain') <= Len(admitted')
      /\ \A i \in 1..Len(chain') : chain'[i] = admitted'[Begun' + i]
  <2>1. \A i \in 1..Len(chain') : i + 1 \in 1..Len(chain) /\ Begun + (i + 1) = Begun' + i
    BY <1>0, <1>1, <1>2 DEF b
  <2>2. \A j \in 1..Len(chain) : chain[j] = admitted[Begun + j]
    BY DEF IInv, QueueOK
  <2>3. \A i \in 1..Len(chain') : chain'[i] = admitted'[Begun' + i]
    BY <1>0, <1>1, <2>1, <2>2
  <2>4. QED
    BY <2>3, <1>0, <1>1 DEF IInv, QueueOK
<1>5. ASSUME outcome' \in [Calls -> Outcomes],
             \A d \in Calls : outcome'[d] = "new" => outcome[d] = "new",
             \A d \in Calls : outcome'[d] = "pending" =>
               outcome[d] = "pending" /\ (d = c => current' = c)
      PROVE  QueueOK' /\ PendingOK'
  <2>1. QueueOK'
    <3>1. \A i \in 1..Len(admitted') : outcome'[admitted'[i]] # "new"
      BY <1>0, <1>3, <1>5 DEF IInv, QueueOK
    <3>2. QED
      BY <3>1, <1>0, <1>3, <1>4 DEF QueueOK
  <2>2. ASSUME NEW d \in Calls, outcome'[d] = "pending"
        PROVE  d = current' \/ \E i \in 1..Len(chain') : chain'[i] = d
    <3>1. PICK i \in 1..Len(chain) : chain[i] = d
      BY <1>0, <1>5, <2>2 DEF IInv, PendingOK
    <3>2. CASE i = 1
      BY <3>1, <3>2, <1>1, <1>5, <2>2
    <3>3. CASE i # 1
      <4>1. i - 1 \in 1..Len(chain') /\ chain'[i - 1] = chain[i]
        BY <3>3, <1>0, <1>1
      <4>2. QED
        BY <3>1, <4>1
    <3>4. QED
      BY <3>2, <3>3
  <2>3. QED
    BY <2>1, <2>2 DEF PendingOK
<1>6. CASE poison /\ FailRun(c) /\ UNCHANGED deadlineAt
  <2>1. /\ wire' = wire /\ outcome' = Reject(c) /\ poison' = TRUE /\ current' = None
        /\ offset' = 0 /\ phase' = "idle" /\ waiters' = waiters
    BY <1>6 DEF FailRun
  <2>2. /\ outcome' \in [Calls -> Outcomes]
        /\ \A d \in Calls : outcome'[d] \in {"new", "ok", "pending"} =>
              outcome'[d] = outcome[d] /\ (d = c => outcome'[d] # "pending")
    BY <1>0, <2>1 DEF Reject, Outcomes
  <2>3. QueueOK' /\ PendingOK'
    BY <1>5, <2>2
  <2>4. TypeOK'
    BY <1>0, <1>1, <1>6, <2>1, <2>2 DEF IInv, TypeOK, Outcomes
  <2>5. WriterOK'
    BY <1>0, <2>1 DEF IInv, WriterOK
  <2>6. WireOK'
    <3>1. Len(wire) <= Begun'
      BY <1>0, <1>2 DEF IInv, WireOK, b
    <3>2. QED
      BY <1>0, <2>1, <3>1 DEF IInv, WireOK, InOrder, Full
  <2>7. ResolvedIsWritten'
    BY <2>1, <2>2 DEF IInv, ResolvedIsWritten
  <2>8. QED
    BY <2>3, <2>4, <2>5, <2>6, <2>7 DEF IInv
<1>7. CASE ~poison /\ deadlineAt' = now + APP_LINK_IO_DEADLINE /\ WriteFrom(c, 0)
  <2>1. Position(c, 0, b)
    <3>1. Len(wire) = b - 1 /\ \A i \in 1..Len(wire) : Full(i)
      BY <1>0, <1>2, <1>7 DEF IInv, WireOK, b
    <3>2. QED
      BY <3>1, <1>2 DEF Position
  <2>2. 0 < Size[c] /\ Size[c] \in Nat /\ b \in Nat
    BY <1>0, <1>1, <1>2
  <2>3. ASSUME NEW cc \in Calls, cc = c, NEW bb \in Nat, bb = b
        PROVE  IInv'
    <3>1. /\ (~open /\ FailRun(cc)) \/ Completed(cc, bb) \/ Parked(cc, bb)
          /\ wire' \in Seq(Runs) /\ InOrder' /\ ResolvedIsWritten'
      <4>1. 0 < Size[cc] /\ 0 \in Nat /\ Position(cc, 0, bb) /\ WriteFrom(cc, 0)
        BY <2>3, <2>1, <2>2, <1>7
      <4>2. QED
        BY <4>1, <1>0, <1>3, WriteFromEnds
    <3>2. /\ outcome' \in [Calls -> Outcomes]
          /\ \A d \in Calls : outcome'[d] = "new" => outcome[d] = "new"
          /\ \A d \in Calls : outcome'[d] = "pending" =>
               outcome[d] = "pending" /\ (d = c => current' = c)
      BY <1>0, <2>3, <3>1 DEF FailRun, Reject, Completed, Parked, Outcomes
    <3>3. QueueOK' /\ PendingOK'
      BY <1>5, <3>2
    <3>4. /\ offset' \in Nat /\ phase' \in {"idle", "waiting", "woken"}
          /\ current' \in Calls \cup {None}
          /\ phase' = "idle" <=> current' = None
          /\ current' # None => offset' < Size[current']
          /\ waiters' \subseteq Calls /\ poison' \in BOOLEAN
      <4>1. CASE FailRun(cc)
        BY <4>1, <1>0 DEF FailRun, IInv, TypeOK
      <4>2. CASE Completed(cc, bb)
        BY <4>2, <1>0 DEF Completed, IInv, TypeOK
      <4>3. CASE Parked(cc, bb)
        BY <4>3, <1>0 DEF Parked, IInv, TypeOK
      <4>4. QED
        BY <3>1, <4>1, <4>2, <4>3
    <3>5. TypeOK'
      <4>1. deadlineAt' \in Nat
        BY <1>0, <1>7
      <4>2. QED
        BY <3>1, <3>2, <3>4, <4>1, <1>0, <1>1 DEF IInv, TypeOK, Runs, Outcomes
    <3>6. WriterOK'
      BY <1>0, <1>7, <3>1 DEF FailRun, Completed, Parked, IInv, WriterOK
    <3>7. WireOK'
      <4>1. Begun' = bb /\ cc # None /\ Len(wire') \in Nat
        BY <1>0, <1>2, <2>3, <3>1
      <4>2. CASE FailRun(cc)
        <5>1. /\ wire' = wire /\ poison' = TRUE /\ current' = None
              /\ Len(wire) <= bb
          BY <4>2, <1>2, <1>0, <2>3 DEF FailRun, IInv, WireOK, b
        <5>2. QED
          BY <4>1, <5>1, <3>1 DEF IInv, WireOK, Full
      <4>3. CASE Completed(cc, bb)
        BY <4>1, <4>3, <3>1 DEF Completed, AllFull, WireOK, Full
      <4>4. CASE Parked(cc, bb)
        <5>1. Position(cc, offset, bb)' /\ current' = cc /\ offset' \in Nat
          BY <4>4 DEF Parked
        <5>2. Len(wire') <= bb /\ \A i \in 1..Len(wire') - 1 : Full(i)'
          <6>1. CASE offset' = 0
            BY <6>1, <4>1, <5>1 DEF Position
          <6>2. CASE offset' > 0
            BY <6>2, <4>1, <5>1 DEF Position
          <6>3. QED
            BY <5>1, <6>1, <6>2
        <5>3. Position(current, offset, Begun)'
          BY <4>1, <5>1 DEF Position, Full
        <5>4. QED
          BY <4>1, <5>1, <5>2, <5>3, <3>1 DEF WireOK
      <4>5. QED
        BY <3>1, <4>2, <4>3, <4>4
    <3>8. QED
      BY <3>1, <3>3, <3>5, <3>6, <3>7 DEF IInv
  <2>4. QED
    BY <2>3, <2>2, <1>1
<1>8. QED
  BY <1>6, <1>7 DEF BeginRun, c
--------------------------------------------------------------------------------
LEMMA InitIInv == ASSUME WriterAssumption, Init PROVE IInv
<1>1. TypeOK
  <2>1. /\ now \in 0..MaxTime
        /\ outcome \in [Calls -> {"new", "pending", "rejecting", "ok", "failed"}]
        /\ dueBy \in [Calls -> Nat]
    BY DEF Init, WriterAssumption
  <2>2. admitted \in Seq(Calls) /\ chain \in Seq(Calls) /\ wire \in Seq(Runs)
    BY DEF Init
  <2>3. QED
    BY <2>1, <2>2 DEF Init, TypeOK, Runs
<1>2. Len(admitted) = 0 /\ Len(chain) = 0 /\ Len(wire) = 0
  BY DEF Init
<1>3. Begun = 0
  BY <1>2 DEF Begun
<1>4. QueueOK
  BY <1>2, <1>3 DEF QueueOK
<1>5. WriterOK /\ PendingOK /\ ResolvedIsWritten
  BY DEF Init, WriterOK, PendingOK, ResolvedIsWritten
<1>6. WireOK
  <2>1. current = None /\ \A i \in 1..Len(wire) : FALSE
    BY <1>2 DEF Init
  <2>2. \A i \in 1..Len(wire) - 1 : FALSE
    BY <1>2
  <2>3. QED
    BY <1>2, <1>3, <2>1, <2>2 DEF WireOK, InOrder
<1>7. QED
  BY <1>1, <1>4, <1>5, <1>6 DEF IInv

(* A new call takes the last place in line, once.                                *)
LEMMA WriteFrameKeeps ==
  ASSUME WriterAssumption, IInv, NEW c \in Calls, WriteFrame(c)
  PROVE  IInv'
<1>0. /\ admitted \in Seq(Calls) /\ chain \in Seq(Calls) /\ outcome \in [Calls -> Outcomes]
      /\ Len(wire) \in Nat /\ Len(admitted) \in Nat /\ Len(chain) \in Nat
      /\ outcome[c] = "new" /\ now \in Nat /\ APP_LINK_IO_DEADLINE \in Nat
      /\ UNCHANGED <<now, current, offset, deadlineAt, phase, waiters, poison, closed, open,
                     wire>>
  BY DEF IInv, TypeOK, Runs, Outcomes, WriteFrame, WriterAssumption
<1>1. CASE UNCHANGED <<admitted, chain, dueBy>>
           /\ outcome' \in {[outcome EXCEPT ![c] = "failed"],
                            [outcome EXCEPT ![c] = "rejecting"]}
  <2>1. /\ outcome' \in [Calls -> Outcomes]
        /\ \A d \in Calls : outcome'[d] \in {"new", "ok", "pending"} => outcome'[d] = outcome[d]
    BY <1>0, <1>1 DEF Outcomes
  <2>2. QueueOK' /\ PendingOK' /\ WireOK' /\ ResolvedIsWritten'
    BY <1>0, <1>1, <2>1, Untouched
  <2>3. TypeOK' /\ WriterOK'
    BY <1>0, <1>1, <2>1 DEF IInv, TypeOK, WriterOK, Outcomes
  <2>4. QED
    BY <2>2, <2>3 DEF IInv
<1>2. CASE /\ outcome' = [outcome EXCEPT ![c] = "pending"]
           /\ dueBy' = [dueBy EXCEPT ![c] = now + APP_LINK_IO_DEADLINE]
           /\ admitted' = Append(admitted, c)
           /\ chain' = Append(chain, c)
  <2>1. /\ admitted' \in Seq(Calls) /\ Len(admitted') = Len(admitted) + 1
        /\ \A i \in 1..Len(admitted) : admitted'[i] = admitted[i]
        /\ admitted'[Len(admitted) + 1] = c
    BY <1>0, <1>2, AppendProperties
  <2>2. /\ chain' \in Seq(Calls) /\ Len(chain') = Len(chain) + 1
        /\ \A i \in 1..Len(chain) : chain'[i] = chain[i]
        /\ chain'[Len(chain) + 1] = c
    BY <1>0, <1>2, AppendProperties
  <2>3. Begun' = Begun /\ Begun \in Nat /\ Begun + (Len(chain) + 1) = Len(admitted) + 1
    BY <1>0, <2>1, <2>2 DEF IInv, QueueOK, Begun
  <2>4. /\ \A i \in 1..Len(admitted) : admitted[i] \in Calls /\ admitted[i] # c
        /\ \A i \in 1..Len(admitted') : i \in 1..Len(admitted) \/ i = Len(admitted) + 1
        /\ \A i \in 1..Len(chain') : i \in 1..Len(chain) \/ i = Len(chain) + 1
    <3>1. \A i \in 1..Len(admitted) : admitted[i] \in Calls
      BY <1>0, ElementOfSeq
    <3>2. \A i \in 1..Len(admitted) : admitted[i] # c
      BY <1>0 DEF IInv, QueueOK
    <3>3. \A n, m \in Nat : m = n + 1 => \A i \in 1..m : i \in 1..n \/ i = n + 1
      OBVIOUS
    <3>4. Len(admitted') = Len(admitted) + 1 /\ Len(admitted') \in Nat
          /\ Len(chain') = Len(chain) + 1 /\ Len(chain') \in Nat
      BY <1>0, <2>1, <2>2
    <3>5. QED
      BY <1>0, <3>1, <3>2, <3>3, <3>4
  <2>5. TypeOK'
    <3>1. outcome' \in [Calls -> Outcomes]
      BY <1>0, <1>2 DEF Outcomes
    <3>2. now + APP_LINK_IO_DEADLINE \in Nat /\ dueBy \in [Calls -> Nat]
      BY <1>0 DEF IInv, TypeOK
    <3>3. dueBy' \in [Calls -> Nat]
      BY <1>2, <3>2
    <3>4. QED
      BY <1>0, <2>1, <2>2, <3>1, <3>3 DEF IInv, TypeOK, Outcomes
  <2>6. QueueOK'
    <3>1. Len(chain') <= Len(admitted')
      BY <1>0, <2>1, <2>2 DEF IInv, QueueOK
    <3>2. \A i \in 1..Len(chain) : Begun + i \in 1..Len(admitted)
      BY <1>0, <2>3
    <3>3. \A i \in 1..Len(chain') : chain'[i] = admitted'[Begun' + i]
      BY <2>1, <2>2, <2>3, <2>4, <3>2 DEF IInv, QueueOK
    <3>4. \A i, j \in 1..Len(admitted') : admitted'[i] = admitted'[j] => i = j
      BY <2>1, <2>4 DEF IInv, QueueOK
    <3>5. \A i \in 1..Len(admitted') : outcome'[admitted'[i]] # "new"
      BY <1>0, <1>2, <2>1, <2>4 DEF IInv, QueueOK
    <3>6. QED
      BY <3>1, <3>3, <3>4, <3>5 DEF QueueOK
  <2>7. WriterOK'
    BY <1>0 DEF IInv, WriterOK
  <2>8. PendingOK'
    <3>1. \A d \in Calls : outcome'[d] = "pending" => outcome[d] = "pending" \/ d = c
      BY <1>0, <1>2
    <3>2. \A i \in 1..Len(chain) : i \in 1..Len(chain') /\ chain'[i] = chain[i]
      BY <1>0, <2>2
    <3>3. Len(chain) + 1 \in 1..Len(chain') /\ chain'[Len(chain) + 1] = c
      BY <1>0, <2>2
    <3>4. QED
      BY <1>0, <3>1, <3>2, <3>3 DEF IInv, PendingOK
  <2>9. WireOK'
    <3>1. InOrder'
      <4>1. \A i \in 1..Len(wire) : i \in 1..Len(admitted)
        BY <1>0, <2>3 DEF IInv, WireOK, Begun
      <4>2. QED
        BY <4>1, <1>0, <2>1 DEF IInv, WireOK, InOrder
    <3>2. current # None => Position(current, offset, Begun)'
      <4>1. ASSUME current # None PROVE Position(current, offset, Begun)'
        <5>1. Position(current, offset, Begun)
          BY <4>1 DEF IInv, WireOK
        <5>2. Begun' \in 1..Len(admitted') /\ current' = admitted'[Begun']
          BY <1>0, <2>1, <2>3, <5>1 DEF Position
        <5>3. QED
          BY <1>0, <2>3, <5>1, <5>2 DEF Position, Full
      <4>2. QED
        BY <4>1
    <3>3. QED
      BY <1>0, <2>3, <3>1, <3>2 DEF IInv, WireOK, Full
  <2>10. ResolvedIsWritten'
    BY <1>0, <1>2 DEF IInv, ResolvedIsWritten
  <2>11. QED
    BY <2>5, <2>6, <2>7, <2>8, <2>9, <2>10 DEF IInv
<1>3. QED
  BY <1>1, <1>2 DEF WriteFrame

(* Steps that leave the writer and the wire alone and at most close the session, *)
(* wake the writer, answer a caller or move the clock.                           *)
LEMMA OthersKeep ==
  ASSUME WriterAssumption, IInv,
         \/ \E c \in Calls : SessionCatch(c) \/ CallerTimeout(c)
         \/ AppClose \/ Drain \/ SocketCloses \/ Tick
         \/ UNCHANGED vars
  PROVE  IInv'
<1>0. /\ outcome \in [Calls -> Outcomes] /\ now \in 0..MaxTime /\ MaxTime \in Nat
      /\ phase \in {"idle", "waiting", "woken"} /\ waiters \subseteq Calls
      /\ phase = "idle" <=> current = None
      /\ None \notin Calls
  BY DEF IInv, TypeOK, Outcomes, WriterAssumption
<1>1. UNCHANGED <<dueBy, admitted, chain, current, offset, deadlineAt, poison, wire>>
  BY DEF SessionCatch, CallerTimeout, AppClose, Drain, SocketCloses, Tick, vars
<1>2. /\ outcome' \in [Calls -> Outcomes]
      /\ \A c \in Calls : outcome'[c] \in {"new", "ok", "pending"} => outcome'[c] = outcome[c]
  <2>1. \/ outcome' = outcome
        \/ \E c \in Calls : \E r \in {"failed", "rejecting"} :
             outcome' = [outcome EXCEPT ![c] = r]
    BY DEF SessionCatch, CallerTimeout, AppClose, Drain, SocketCloses, Tick, vars
  <2>2. QED
    BY <2>1, <1>0 DEF Outcomes
<1>3. now' \in 0..MaxTime
  BY <1>0 DEF SessionCatch, CallerTimeout, AppClose, Drain, SocketCloses, Tick, vars
<1>4. /\ (phase' = phase /\ waiters' = waiters) \/ Fire
      /\ open' = open \/ (open' = FALSE /\ Fire)
      /\ closed' = closed \/ (closed' = TRUE /\ open' = FALSE)
  BY DEF SessionCatch, CallerTimeout, AppClose, Drain, SocketCloses, Tick, vars, Close
<1>5. /\ phase' \in {"idle", "waiting", "woken"} /\ waiters' \subseteq Calls
      /\ phase' = "idle" <=> current' = None
      /\ closed' \in BOOLEAN /\ open' \in BOOLEAN
  <2>1. closed' \in BOOLEAN /\ open' \in BOOLEAN
    BY <1>4 DEF IInv, TypeOK
  <2>2. CASE phase' = phase /\ waiters' = waiters
    BY <2>1, <2>2, <1>0, <1>1
  <2>3. CASE Fire
    BY <2>1, <2>3, <1>0, <1>1 DEF Fire
  <2>4. QED
    BY <1>4, <2>2, <2>3
<1>6. TypeOK'
  BY <1>1, <1>2, <1>3, <1>5 DEF IInv, TypeOK, Outcomes
<1>7. WriterOK'
  <2>1. poison' => current' = None
    BY <1>1 DEF IInv, WriterOK
  <2>2. closed' => ~open'
    BY <1>4 DEF IInv, WriterOK
  <2>3. phase' = "waiting" => open' /\ current' \in waiters'
    <3>1. CASE Fire
      BY <3>1, <1>0 DEF Fire, IInv, WriterOK
    <3>2. CASE ~Fire
      BY <3>2, <1>1, <1>4 DEF IInv, WriterOK
    <3>3. QED
      BY <3>1, <3>2
  <2>4. QED
    BY <2>1, <2>2, <2>3 DEF WriterOK
<1>8. QueueOK' /\ PendingOK' /\ WireOK' /\ ResolvedIsWritten'
  BY <1>1, <1>2, Untouched
<1>9. QED
  BY <1>6, <1>7, <1>8 DEF IInv

(* The writer that goes on, or runs out of time, is one that holds a frame.      *)
LEMMA HolderKeeps ==
  ASSUME WriterAssumption, IInv, Resume \/ WriteTimeout
  PROVE  IInv'
<1>1. /\ current \in Calls
      /\ FailRun(current) \/ WriteFrom(current, offset)
      /\ UNCHANGED <<now, dueBy, admitted, chain, deadlineAt, closed, open>>
  BY DEF Resume, WriteTimeout, IInv, TypeOK
<1>2. Begun \in Nat
  <2>1. admitted \in Seq(Calls) /\ chain \in Seq(Calls)
    BY DEF IInv, TypeOK
  <2>2. QED
    BY <2>1 DEF IInv, QueueOK, Begun
<1>3. ASSUME NEW c \in Calls, c = current, NEW b \in Nat, b = Begun PROVE IInv'
  BY <1>1, <1>3, CurrentMoves
<1>4. QED
  BY <1>1, <1>2, <1>3

(* The inductive invariant: the queue is the end of the order of admission, the  *)
(* wire its beginning, and the writer stands between them (WriteQueue.push and    *)
(* writeOneFrame in kipc-transport.ts, AppLinkSession.writeFrame and close in      *)
(* kipc.ts).                                                                      *)
THEOREM InductiveInvariant == Spec => []IInv
<1>1. Init => IInv
  BY WriterAssumption, InitIInv
<1>2. IInv /\ [Next]_vars => IInv'
  <2>1. SUFFICES ASSUME IInv, [Next]_vars PROVE IInv'
    OBVIOUS
  <2>2. CASE \E c \in Calls : WriteFrame(c)
    BY <2>1, <2>2, WriterAssumption, WriteFrameKeeps
  <2>3. CASE BeginRun
    BY <2>1, <2>3, WriterAssumption, BeginRunKeeps
  <2>4. CASE Resume \/ WriteTimeout
    BY <2>1, <2>4, WriterAssumption, HolderKeeps
  <2>5. CASE \/ \E c \in Calls : SessionCatch(c) \/ CallerTimeout(c)
             \/ AppClose \/ Drain \/ SocketCloses \/ Tick
             \/ UNCHANGED vars
    BY <2>1, <2>5, WriterAssumption, OthersKeep
  <2>6. QED
    BY <2>1, <2>2, <2>3, <2>4, <2>5 DEF Next, Reaction, Timer
<1>3. QED
  BY <1>1, <1>2, PTL DEF Spec

(* Every variable of the writing side keeps its type, in every run.              *)
THEOREM TypeCorrect == Spec => []TypeOK
<1>1. IInv => TypeOK
  BY DEF IInv
<1>2. QED
  BY <1>1, InductiveInvariant, PTL

(* The peer reads whole frames in the order writeFrame admitted them, whatever    *)
(* the interleaving of callers, drains, timeouts and closes: the WriteQueue       *)
(* serializes the frames.                                                         *)
THEOREM Serialized == Spec => []WholeFramesInOrder
<1>1. IInv => WholeFramesInOrder
  <2>1. SUFFICES ASSUME IInv PROVE WholeFramesInOrder
    OBVIOUS
  <2>2. Len(wire) \in Nat /\ Len(admitted) \in Nat /\ Len(chain) \in Nat
    BY <2>1 DEF IInv, TypeOK
  <2>3. Len(wire) <= Len(admitted)
    BY <2>1, <2>2 DEF IInv, WireOK, Begun
  <2>4. QED
    BY <2>1, <2>3 DEF IInv, WireOK, InOrder, Full, WholeFramesInOrder
<1>2. QED
  BY <1>1, InductiveInvariant, PTL

(* A caller whose writeFrame resolved has its whole frame on the stream, whatever *)
(* failed after or around it.                                                     *)
THEOREM AnswersAreTrue == Spec => []ResolvedIsWritten
<1>1. IInv => ResolvedIsWritten
  BY DEF IInv
<1>2. QED
  BY <1>1, InductiveInvariant, PTL

(* A frame cut short is the last thing on the stream, and the queue that cut it   *)
(* is poisoned: no later frame can start in the middle of it.                     *)
THEOREM NothingAfterTruncation == Spec => []TruncationPoisons
<1>1. IInv => TruncationPoisons
  <2>1. SUFFICES ASSUME IInv, wire # <<>>, ~poison,
                        wire[Len(wire)].n < Size[wire[Len(wire)].call]
                 PROVE  current = wire[Len(wire)].call
    BY DEF TruncationPoisons, Cut
  <2>2. wire \in Seq(Runs) /\ Len(wire) \in Nat
    BY <2>1 DEF IInv, TypeOK, Runs
  <2>3. Len(wire) \in 1..Len(wire)
    BY <2>1, <2>2, EmptySeq
  <2>4. wire[Len(wire)] \in Runs
    BY <2>2, <2>3, ElementOfSeq
  <2>5. ~Full(Len(wire))
    <3>1. wire[Len(wire)].n \in Nat /\ Size[wire[Len(wire)].call] \in Nat
      BY <2>4, WriterAssumption DEF Runs, WriterAssumption
    <3>2. QED
      BY <2>1, <3>1 DEF Full
  <2>6. current # None /\ Position(current, offset, Begun) /\ InOrder
    BY <2>1, <2>3, <2>5 DEF IInv, WireOK
  <2>7. offset \in Nat
    BY <2>1 DEF IInv, TypeOK
  <2>8. Len(wire) = Begun
    BY <2>3, <2>5, <2>6, <2>7 DEF Position
  <2>9. QED
    BY <2>3, <2>6, <2>8 DEF Position, InOrder
<1>2. QED
  BY <1>1, InductiveInvariant, PTL

(* A closed session holds no parked writer and no queued frame once its promise   *)
(* reactions have run: AppLinkSession.close fires the drain signal.                *)
THEOREM CloseReleases == Spec => []CloseReleasesWriters
<1>1. IInv => CloseReleasesWriters
  BY DEF IInv, TypeOK, WriterOK, CloseReleasesWriters, Microtask
<1>2. QED
  BY <1>1, InductiveInvariant, PTL

(* After one failed write no caller is left waiting once the reactions have run:  *)
(* the poisoned queue fails the frames behind it at once.                         *)
THEOREM PoisonSettles == Spec => []PoisonSettlesAll
<1>1. IInv => PoisonSettlesAll
  <2>1. SUFFICES ASSUME IInv, poison, ~Microtask, NEW c \in Calls, outcome[c] = "pending"
                 PROVE  FALSE
    BY DEF PoisonSettlesAll
  <2>2. current = None /\ None \notin Calls /\ chain = <<>>
    BY <2>1, WriterAssumption DEF IInv, WriterOK, Microtask, WriterAssumption
  <2>3. \E i \in 1..Len(chain) : chain[i] = c
    BY <2>1, <2>2 DEF IInv, PendingOK
  <2>4. Len(chain) = 0
    BY <2>2
  <2>5. QED
    BY <2>3, <2>4
<1>2. QED
  BY <1>1, InductiveInvariant, PTL
--------------------------------------------------------------------------------
(* LinkWriter implements FrameLine.                                              *)
Left(n) == SubSeq(admitted, n + 1, Len(admitted))
LineBar == Left(Whole)
SentBar == [i \in 1..Whole |-> wire[i].call]
ToldBar == [c \in Calls |-> Told(outcome[c])]

(* The front of the line, and the line without it.                               *)
LEMMA LeftMoves ==
  ASSUME admitted \in Seq(Calls), NEW b \in 1..Len(admitted)
  PROVE  /\ Left(b - 1) # <<>>
         /\ Head(Left(b - 1)) = admitted[b]
         /\ Tail(Left(b - 1)) = Left(b)
<1>1. /\ Len(admitted) \in Nat /\ b \in Int /\ (b - 1) + 1 = b /\ b <= Len(admitted)
      /\ b \in 1..Len(admitted) + 1 /\ Len(admitted) \in 1..Len(admitted)
  OBVIOUS
<1>2. /\ SubSeq(admitted, b, Len(admitted)) \in Seq(Calls)
      /\ Len(SubSeq(admitted, b, Len(admitted))) = Len(admitted) - b + 1
  BY <1>1, SubSeqProperties
<1>3. SubSeq(admitted, b, Len(admitted)) # <<>>
  <2>1. Len(SubSeq(admitted, b, Len(admitted))) # 0
    BY <1>1, <1>2
  <2>2. \A t : t = <<>> => Len(t) = 0
    OBVIOUS
  <2> QED
    BY <2>1, <2>2
<1>4. /\ Head(SubSeq(admitted, b, Len(admitted))) = admitted[b]
      /\ Tail(SubSeq(admitted, b, Len(admitted))) = SubSeq(admitted, b + 1, Len(admitted))
  BY <1>1, HeadTailOfSubSeq
<1> QED
  BY <1>1, <1>3, <1>4 DEF Left

(* A frame that joins stands at the end of what is left.                         *)
LEMMA LeftGrows ==
  ASSUME admitted \in Seq(Calls), NEW c \in Calls, NEW n \in 0..Len(admitted),
         admitted' = Append(admitted, c)
  PROVE  Left(n)' = Append(Left(n), c)
<1> DEFINE s == admitted
           t == Left(n)
           u == Left(n)'
<1>1. /\ s' \in Seq(Calls) /\ Len(s') = Len(s) + 1 /\ s'[Len(s) + 1] = c
      /\ \A i \in 1..Len(s) : s'[i] = s[i]
  BY AppendProperties
<1>2. Len(s) \in Nat /\ n \in Nat /\ n <= Len(s)
  OBVIOUS
<1>3. /\ t \in Seq(Calls) /\ Len(t) = Len(s) - n
      /\ \A i \in 1..Len(s) - n : t[i] = s[n + i]
  <2>1. n + 1 \in 1..Len(s) + 1 /\ Len(s) \in 0..Len(s)
    BY <1>2
  <2>2. /\ t \in Seq(Calls)
        /\ Len(t) = IF n + 1 <= Len(s) THEN Len(s) - (n + 1) + 1 ELSE 0
        /\ \A i \in 1..Len(s) - (n + 1) + 1 : t[i] = s[n + 1 + i - 1]
    BY <2>1, SubSeqProperties DEF Left
  <2> QED
    BY <1>2, <2>2
<1>4. /\ u \in Seq(Calls) /\ Len(u) = Len(s) + 1 - n
      /\ \A i \in 1..Len(s) + 1 - n : u[i] = s'[n + i]
  <2>1. n + 1 \in 1..Len(s') + 1 /\ Len(s') \in 0..Len(s')
    BY <1>1, <1>2
  <2>2. /\ SubSeq(s', n + 1, Len(s')) \in Seq(Calls)
        /\ Len(SubSeq(s', n + 1, Len(s'))) =
             IF n + 1 <= Len(s') THEN Len(s') - (n + 1) + 1 ELSE 0
        /\ \A i \in 1..Len(s') - (n + 1) + 1 :
             SubSeq(s', n + 1, Len(s'))[i] = s'[n + 1 + i - 1]
    BY <1>1, <2>1, SubSeqProperties
  <2>3. u = SubSeq(s', n + 1, Len(s'))
    BY DEF Left
  <2> HIDE DEF u
  <2> QED
    BY <1>1, <1>2, <2>2, <2>3
<1>5. /\ Append(t, c) \in Seq(Calls) /\ Len(Append(t, c)) = Len(t) + 1
      /\ \A i \in 1..Len(t) : Append(t, c)[i] = t[i]
      /\ Append(t, c)[Len(t) + 1] = c
  BY <1>3, AppendProperties
<1> HIDE DEF s, t, u
<1>6. Len(Append(t, c)) = Len(u)
  BY <1>2, <1>3, <1>4, <1>5
<1>7. ASSUME NEW i \in 1..Len(u) PROVE u[i] = Append(t, c)[i]
  <2>1. CASE i \in 1..Len(t)
    BY <1>1, <1>2, <1>3, <1>4, <1>5, <2>1
  <2>2. CASE i = Len(t) + 1
    <3>1. n + i = Len(s) + 1
      BY <1>2, <1>3, <2>2
    <3> QED
      BY <1>1, <1>4, <1>5, <2>2, <3>1
  <2>3. i \in 1..Len(t) \/ i = Len(t) + 1
    <3>1. Len(u) = Len(t) + 1 /\ Len(t) \in Nat
      BY <1>2, <1>3, <1>4
    <3> QED
      BY <3>1
  <2> QED
    BY <2>1, <2>2, <2>3
<1>8. u = Append(t, c)
  BY <1>4, <1>5, <1>6, <1>7, SeqEqual
<1> QED
  BY <1>8 DEF t, u
--------------------------------------------------------------------------------
(* How many frames of a stream stand there in full: all of them, or all but the   *)
(* last.                                                                         *)
WholeOf(w) == IF w # <<>> /\ w[Len(w)].n < Size[w[Len(w)].call] THEN Len(w) - 1 ELSE Len(w)

LEMMA WholeIs ==
  ASSUME WriterAssumption, NEW w \in Seq(Runs)
  PROVE  /\ Len(w) \in Nat /\ WholeOf(w) \in 0..Len(w)
         /\ (\A i \in 1..Len(w) : w[i].n = Size[w[i].call]) => WholeOf(w) = Len(w)
         /\ Len(w) > 0 /\ w[Len(w)].n < Size[w[Len(w)].call] => WholeOf(w) = Len(w) - 1
<1>1. Len(w) \in Nat /\ \A i \in 1..Len(w) : w[i] \in Runs
  BY ElementOfSeq
<1>2. w # <<>> <=> Len(w) > 0
  BY <1>1, EmptySeq
<1>3. ASSUME Len(w) > 0, \A i \in 1..Len(w) : w[i].n = Size[w[i].call]
      PROVE  ~(w[Len(w)].n < Size[w[Len(w)].call])
  <2>1. Len(w) \in 1..Len(w)
    BY <1>1, <1>3
  <2>2. w[Len(w)].n = Size[w[Len(w)].call] /\ w[Len(w)].n \in Nat
    BY <1>1, <1>3, <2>1 DEF Runs
  <2> QED
    BY <2>2
<1> QED
  BY <1>1, <1>2, <1>3 DEF WholeOf

LEMMA PositionWhole ==
  ASSUME WriterAssumption, NEW w \in Seq(Runs), NEW c \in Calls, NEW off \in Nat,
         NEW b \in Nat, off < Size[c],
         off = 0 => Len(w) = b - 1 /\ \A i \in 1..Len(w) : w[i].n = Size[w[i].call],
         off > 0 => Len(w) = b /\ b > 0 /\ w[b].n = off /\ w[b].call = c
  PROVE  WholeOf(w) = b - 1
<1>1. CASE off = 0
  BY <1>1, WholeIs
<1>2. CASE off > 0
  <2>1. w[Len(w)].n < Size[w[Len(w)].call] /\ Len(w) > 0
    BY <1>2
  <2> QED
    BY <1>2, <2>1, WholeIs
<1> QED
  BY <1>1, <1>2

(* The invariant places the abstract line and stream in the order of admission.  *)
LEMMA Placed ==
  ASSUME WriterAssumption, IInv
  PROVE  /\ wire \in Seq(Runs) /\ admitted \in Seq(Calls) /\ InOrder
         /\ Len(wire) \in Nat /\ Len(admitted) \in Nat
         /\ Whole \in 0..Len(admitted)
         /\ outcome \in [Calls -> Outcomes]
<1>1. /\ wire \in Seq(Runs) /\ admitted \in Seq(Calls) /\ chain \in Seq(Calls) /\ InOrder
      /\ outcome \in [Calls -> Outcomes]
  BY DEF IInv, TypeOK, WireOK, Runs, Outcomes
<1>2. Len(wire) \in Nat /\ Len(admitted) \in Nat /\ Len(chain) \in Nat
  BY <1>1
<1>3. Len(wire) <= Len(admitted)
  BY <1>2 DEF IInv, WireOK, Begun
<1>4. Whole \in 0..Len(wire)
  BY <1>1, WholeIs DEF Whole, Cut, WholeOf
<1> QED
  BY <1>1, <1>2, <1>3, <1>4

(* In order, what is sent is the beginning of what was admitted.                 *)
LEMMA SentIs ==
  ASSUME NEW w, NEW a, NEW n \in Nat, NEW l \in Nat, n <= l,
         \A i \in 1..l : w[i].call = a[i]
  PROVE  [i \in 1..n |-> w[i].call] = [i \in 1..n |-> a[i]]
<1>1. \A i \in 1..n : i \in 1..l
  OBVIOUS
<1> QED
  BY <1>1

(* What a caller has been told after its promise moved.                          *)
LEMMA ToldMoves ==
  ASSUME outcome \in [Calls -> Outcomes], NEW c \in Calls
  PROVE  /\ \A o \in Outcomes : outcome' = [outcome EXCEPT ![c] = o] =>
              ToldBar' = [ToldBar EXCEPT ![c] = Told(o)]
         /\ outcome' = Reject(c) =>
              ToldBar' = [ToldBar EXCEPT ![c] = IF @ = "waiting" THEN "failed" ELSE @]
         /\ outcome' = [outcome EXCEPT ![c] = IF @ = "pending" THEN "ok" ELSE @] =>
              ToldBar' = [ToldBar EXCEPT ![c] = IF @ = "waiting" THEN "written" ELSE @]
         /\ ToldBar[c] = Told(outcome[c])
  BY DEF ToldBar, Told, Reject, Outcomes

(* The actions of FrameLine, in terms of the writer's state.                     *)
LEMMA BarMoves ==
  /\ \A c \in Calls :
       /\ Line!Join(c) <=> /\ ~poison /\ ToldBar[c] = "new"
                           /\ LineBar' = Append(LineBar, c)
                           /\ ToldBar' = [ToldBar EXCEPT ![c] = "waiting"]
                           /\ SentBar' = SentBar /\ poison' = poison
       /\ Line!GiveUp(c) <=> /\ ToldBar[c] \in {"new", "waiting"}
                             /\ ToldBar' = [ToldBar EXCEPT ![c] = "failed"]
                             /\ LineBar' = LineBar /\ SentBar' = SentBar /\ poison' = poison
  /\ Line!Send <=>
       /\ ~poison /\ LineBar # <<>>
       /\ SentBar' = Append(SentBar, Head(LineBar))
       /\ LineBar' = Tail(LineBar)
       /\ ToldBar' = [ToldBar EXCEPT ![Head(LineBar)] = IF @ = "waiting" THEN "written" ELSE @]
       /\ poison' = poison
  /\ Line!Break <=>
       /\ ~poison /\ LineBar # <<>>
       /\ poison' = TRUE
       /\ ToldBar' = [ToldBar EXCEPT ![Head(LineBar)] = IF @ = "waiting" THEN "failed" ELSE @]
       /\ LineBar' = LineBar /\ SentBar' = SentBar
  /\ UNCHANGED Line!vars <=> /\ LineBar' = LineBar /\ SentBar' = SentBar
                             /\ poison' = poison /\ ToldBar' = ToldBar
BY DEF Line!Join, Line!GiveUp, Line!Send, Line!Break, Line!vars, LineBar, Left, SentBar, ToldBar

(* A step that leaves admission and wire alone leaves line and stream alone.     *)
LEMMA BarsStay ==
  ASSUME UNCHANGED <<admitted, wire>> PROVE LineBar' = LineBar /\ SentBar' = SentBar
BY DEF LineBar, Left, SentBar, Whole, Cut

(* The writer's step with the b-th frame, c: the line breaks, sends c, or waits.  *)
LEMMA FrameMoves ==
  ASSUME WriterAssumption, IInv, ~poison, admitted' = admitted,
         NEW c \in Calls, NEW off \in Nat, NEW b \in Nat, Position(c, off, b), off < Size[c],
         FailRun(c) \/ WriteFrom(c, off)
  PROVE  Line!Next \/ UNCHANGED Line!vars
<1>1. /\ wire \in Seq(Runs) /\ admitted \in Seq(Calls) /\ InOrder /\ Len(wire) \in Nat
      /\ outcome \in [Calls -> Outcomes] /\ Len(admitted) \in Nat
  BY Placed
<1>2. b \in 1..Len(admitted) /\ admitted[b] = c
  BY DEF Position
<1>3. Whole = b - 1
  <2>1. off = 0 => Len(wire) = b - 1 /\ \A i \in 1..Len(wire) : wire[i].n = Size[wire[i].call]
    BY DEF Position, Full
  <2>2. off > 0 => Len(wire) = b /\ b > 0 /\ wire[b].n = off /\ wire[b].call = c
    BY <1>1, <1>2 DEF Position, InOrder
  <2>3. WholeOf(wire) = b - 1
    BY ONLY WriterAssumption, <1>1, <2>1, <2>2, PositionWhole, c \in Calls, off \in Nat,
            b \in Nat, off < Size[c]
  <2> QED
    BY <2>3 DEF Whole, Cut, WholeOf
<1>4. LineBar # <<>> /\ Head(LineBar) = c /\ Tail(LineBar) = Left(b)
  BY <1>1, <1>2, <1>3, LeftMoves DEF LineBar
<1>5. FailRun(c) \/ Completed(c, b) \/ Parked(c, b)
  <2>1. /\ ResolvedIsWritten
        /\ \A i, j \in 1..Len(admitted) : admitted[i] = admitted[j] => i = j
    BY DEF IInv, QueueOK
  <2> QED
    BY <1>1, <2>1, WriteFromEnds
<1>6. CASE FailRun(c)
  <2>1. wire' = wire /\ poison' = TRUE /\ outcome' = Reject(c)
    BY <1>6 DEF FailRun
  <2>2. LineBar' = LineBar /\ SentBar' = SentBar
    BY <2>1, BarsStay
  <2>3. ToldBar' = [ToldBar EXCEPT ![c] = IF @ = "waiting" THEN "failed" ELSE @]
    BY <1>1, <2>1, ToldMoves
  <2>4. Line!Break
    BY <1>4, <2>1, <2>2, <2>3, BarMoves
  <2> QED
    BY <2>4 DEF Line!Next
<1>7. ASSUME ~FailRun(c)
      PROVE  wire' \in Seq(Runs) /\ InOrder' /\ Len(wire') \in Nat
  <2>1. /\ ResolvedIsWritten /\ WriteFrom(c, off)
        /\ \A i, j \in 1..Len(admitted) : admitted[i] = admitted[j] => i = j
    BY <1>7 DEF IInv, QueueOK
  <2>2. wire' \in Seq(Runs) /\ InOrder'
    BY <1>1, <2>1, WriteFromEnds
  <2> QED
    BY <2>2
<1>8. CASE ~FailRun(c) /\ Completed(c, b)
  <2>1. /\ outcome' = [outcome EXCEPT ![c] = IF @ = "pending" THEN "ok" ELSE @]
        /\ poison' = poison /\ Len(wire') = b /\ AllFull'
    BY <1>8 DEF Completed
  <2>2. Whole' = b
    <3>1. \A i \in 1..Len(wire') : wire'[i].n = Size[wire'[i].call]
      BY <2>1 DEF AllFull, Full
    <3>2. WholeOf(wire') = Len(wire')
      BY <1>7, <1>8, <3>1, WholeIs
    <3> QED
      BY <2>1, <3>2 DEF Whole, Cut, WholeOf
  <2>3. LineBar' = Tail(LineBar)
    BY <1>4, <2>2 DEF LineBar, Left
  <2>4. SentBar' = Append(SentBar, c)
    <3>1. \A i \in 1..b : admitted[i] \in Calls
      BY <1>1, <1>2, ElementOfSeq
    <3>2. SentBar = [i \in 1..b - 1 |-> admitted[i]]
      <4>1. b - 1 <= Len(wire) /\ b - 1 \in Nat
        BY <1>1, <1>2 DEF Position
      <4>2. \A i \in 1..Len(wire) : wire[i].call = admitted[i]
        BY <1>1 DEF InOrder
      <4>3. [i \in 1..b - 1 |-> wire[i].call] = [i \in 1..b - 1 |-> admitted[i]]
        BY <1>1, <4>1, <4>2, SentIs
      <4> QED
        BY <1>3, <4>3 DEF SentBar
    <3>3. SentBar' = [i \in 1..b |-> admitted[i]]
      <4>1. \A i \in 1..Len(wire') : wire'[i].call = admitted[i]
        BY <1>7, <1>8 DEF InOrder
      <4>2. [i \in 1..b |-> wire'[i].call] = [i \in 1..b |-> admitted[i]]
        BY <1>7, <1>8, <2>1, <4>1, SentIs
      <4> QED
        BY <2>2, <4>2 DEF SentBar
    <3>4. SentBar \in Seq(Calls) /\ Len(SentBar) = b - 1
      BY <1>2, <3>1, <3>2
    <3> QED
      BY <1>2, <3>1, <3>2, <3>3, <3>4
  <2>5. ToldBar' = [ToldBar EXCEPT ![c] = IF @ = "waiting" THEN "written" ELSE @]
    BY <1>1, <2>1, ToldMoves
  <2>6. Line!Send
    BY <1>4, <2>1, <2>3, <2>4, <2>5, BarMoves
  <2> QED
    BY <2>6 DEF Line!Next
<1>9. CASE ~FailRun(c) /\ Parked(c, b)
  <2>1. /\ outcome' = outcome /\ poison' = poison
        /\ offset' \in Nat /\ offset' < Size[c] /\ Position(c, offset, b)'
    BY <1>9 DEF Parked
  <2>2. Whole' = b - 1
    <3>1. offset' = 0 => /\ Len(wire') = b - 1
                         /\ \A i \in 1..Len(wire') : wire'[i].n = Size[wire'[i].call]
      BY <2>1 DEF Position, Full
    <3>2. offset' > 0 => Len(wire') = b /\ b > 0 /\ wire'[b].n = offset' /\ wire'[b].call = c
      BY <1>2, <1>7, <1>9, <2>1 DEF Position, InOrder
    <3>3. WholeOf(wire') = b - 1
      BY ONLY WriterAssumption, <1>7, <1>9, <2>1, <3>1, <3>2, PositionWhole, c \in Calls,
              b \in Nat
    <3> QED
      BY <3>3 DEF Whole, Cut, WholeOf
  <2>3. LineBar' = LineBar
    BY <1>3, <2>2 DEF LineBar, Left
  <2>4. SentBar' = SentBar
    <3>1. \A i \in 1..b - 1 : wire'[i].call = wire[i].call
      <4>1. \A i \in 1..b - 1 : i \in 1..Len(wire) /\ i \in 1..Len(wire')
        BY <1>1, <1>2, <1>7, <1>9, <2>1 DEF Position
      <4> QED
        BY <1>1, <1>7, <1>9, <4>1 DEF InOrder
    <3> QED
      BY <1>3, <2>2, <3>1 DEF SentBar
  <2>5. ToldBar' = ToldBar
    BY <2>1 DEF ToldBar
  <2> QED
    BY <2>1, <2>3, <2>4, <2>5, BarMoves
<1> QED
  BY <1>5, <1>6, <1>8, <1>9

(* Every step of the writer is a step of the line, or no step of it.             *)
LEMMA StepImplements ==
  ASSUME WriterAssumption, IInv, [Next]_vars
  PROVE  [Line!Next]_(Line!vars)
<1>0. /\ outcome \in [Calls -> Outcomes] /\ admitted \in Seq(Calls)
      /\ Whole \in 0..Len(admitted) /\ Len(admitted) \in Nat
      /\ None \notin Calls /\ poison \in BOOLEAN
  BY Placed DEF WriterAssumption, IInv, TypeOK
<1>1. ASSUME NEW c \in Calls, WriteFrame(c) PROVE Line!Next \/ UNCHANGED Line!vars
  <2>1. /\ outcome[c] = "new" /\ poison' = poison /\ wire' = wire
        /\ ToldBar[c] = "new"
    BY <1>0, <1>1, ToldMoves DEF WriteFrame, Told
  <2>2. CASE /\ admitted' = admitted
             /\ \E o \in {"failed", "rejecting"} : outcome' = [outcome EXCEPT ![c] = o]
    <3>1. ToldBar' = [ToldBar EXCEPT ![c] = "failed"]
      BY <1>0, <2>2, ToldMoves DEF Told, Outcomes
    <3>2. Line!GiveUp(c)
      BY <2>1, <2>2, <3>1, BarsStay, BarMoves
    <3> QED
      BY <3>2 DEF Line!Next
  <2>3. CASE /\ admitted' = Append(admitted, c) /\ ~poison
             /\ outcome' = [outcome EXCEPT ![c] = "pending"]
    <3>1. ToldBar' = [ToldBar EXCEPT ![c] = "waiting"]
      BY <1>0, <2>3, ToldMoves DEF Told, Outcomes
    <3>2. Whole' = Whole /\ SentBar' = SentBar
      BY <2>1 DEF Whole, Cut, SentBar
    <3>3. LineBar' = Append(LineBar, c)
      <4>1. \A n \in 0..Len(admitted) : Left(n)' = Append(Left(n), c)
        BY <1>0, <2>3, LeftGrows
      <4>2. LineBar' = Left(Whole)'
        BY DEF LineBar
      <4> QED
        BY <1>0, <3>2, <4>1, <4>2 DEF LineBar, Left
    <3>4. Line!Join(c)
      BY <2>1, <2>3, <3>1, <3>2, <3>3, BarMoves
    <3> QED
      BY <3>4 DEF Line!Next
  <2> QED
    BY <1>1, <2>2, <2>3 DEF WriteFrame
<1>2. ASSUME NEW c \in Calls, CallerTimeout(c) PROVE Line!Next \/ UNCHANGED Line!vars
  <2>1. /\ outcome[c] = "pending" /\ outcome' = [outcome EXCEPT ![c] = "rejecting"]
        /\ UNCHANGED <<admitted, wire, poison>>
    BY <1>2 DEF CallerTimeout
  <2>2. ToldBar' = [ToldBar EXCEPT ![c] = "failed"] /\ ToldBar[c] = "waiting"
    BY <1>0, <2>1, ToldMoves DEF Told, Outcomes
  <2>3. Line!GiveUp(c)
    BY <2>1, <2>2, BarsStay, BarMoves
  <2> QED
    BY <2>3 DEF Line!Next
<1>3. ASSUME NEW c \in Calls, SessionCatch(c) PROVE UNCHANGED Line!vars
  <2>1. /\ outcome[c] = "rejecting" /\ outcome' = [outcome EXCEPT ![c] = "failed"]
        /\ UNCHANGED <<admitted, wire, poison>>
    BY <1>3 DEF SessionCatch
  <2>2. ToldBar' = ToldBar
    BY <1>0, <2>1 DEF ToldBar, Told
  <2> QED
    BY <2>1, <2>2, BarsStay, BarMoves
<1>4. CASE AppClose \/ Drain \/ SocketCloses \/ Tick \/ UNCHANGED vars
  <2>1. UNCHANGED <<outcome, admitted, wire, poison>>
    BY <1>4 DEF AppClose, Drain, SocketCloses, Tick, vars
  <2>2. ToldBar' = ToldBar
    BY <2>1 DEF ToldBar
  <2> QED
    BY <2>1, <2>2, BarsStay, BarMoves
<1>5. CASE Resume \/ WriteTimeout
  <2>1. /\ current \in Calls /\ current # None
        /\ FailRun(current) \/ WriteFrom(current, offset)
        /\ admitted' = admitted
    BY <1>0, <1>5 DEF Resume, WriteTimeout, IInv, TypeOK
  <2>2. /\ ~poison /\ Position(current, offset, Begun) /\ offset \in Nat
        /\ offset < Size[current]
    BY <2>1 DEF IInv, WriterOK, WireOK, TypeOK
  <2>3. Begun \in Nat
    BY <1>0, <2>2 DEF Position
  <2>4. ASSUME NEW c \in Calls, c = current, NEW b \in Nat, b = Begun,
               NEW off \in Nat, off = offset
        PROVE  Line!Next \/ UNCHANGED Line!vars
    <3>1. Position(c, off, b) /\ off < Size[c] /\ (FailRun(c) \/ WriteFrom(c, off))
      BY <2>1, <2>2, <2>4
    <3> QED
      BY <2>1, <2>2, <3>1, FrameMoves
  <2> QED
    BY <2>1, <2>2, <2>3, <2>4
<1>6. CASE BeginRun
  <2>1. /\ chain # <<>> /\ chain \in Seq(Calls) /\ current = None /\ admitted' = admitted
        /\ \/ poison /\ FailRun(Head(chain))
           \/ ~poison /\ WriteFrom(Head(chain), 0)
    BY <1>6 DEF BeginRun, IInv, TypeOK
  <2>2. /\ Len(chain) \in Nat /\ Len(chain) > 0 /\ Head(chain) = chain[1]
        /\ Head(chain) \in Calls
    BY <2>1, HeadTailProperties, EmptySeq
  <2>3. CASE poison /\ FailRun(Head(chain))
    <3>1. PICK c \in Calls : outcome' = Reject(c) /\ wire' = wire /\ poison' = poison
      BY <2>2, <2>3 DEF FailRun
    <3>2. LineBar' = LineBar /\ SentBar' = SentBar
      BY <2>1, <3>1, BarsStay
    <3>3. CASE outcome[c] = "pending"
      <4>1. ToldBar[c] = "waiting" /\ ToldBar' = [ToldBar EXCEPT ![c] = "failed"]
        BY <1>0, <3>1, <3>3, ToldMoves DEF Told, Outcomes
      <4>2. Line!GiveUp(c)
        BY <3>1, <3>2, <4>1, BarMoves
      <4> QED
        BY <4>2 DEF Line!Next
    <3>4. CASE outcome[c] # "pending"
      <4>1. outcome' = outcome
        BY <1>0, <3>1, <3>4 DEF Reject
      <4>2. ToldBar' = ToldBar
        BY <4>1 DEF ToldBar
      <4> QED
        BY <3>1, <3>2, <4>2, BarMoves
    <3> QED
      BY <3>3, <3>4
  <2>4. CASE ~poison /\ WriteFrom(Head(chain), 0)
    <3>1. /\ Begun \in Nat /\ Begun + 1 \in 1..Len(admitted)
          /\ Head(chain) = admitted[Begun + 1]
      BY <1>0, <2>2 DEF IInv, QueueOK, Begun
    <3>2. Len(wire) = Begun /\ \A i \in 1..Len(wire) : Full(i)
      BY <2>1, <2>4 DEF IInv, WireOK
    <3>3. Position(Head(chain), 0, Begun + 1)
      BY <3>1, <3>2 DEF Position
    <3>4. ASSUME NEW c \in Calls, c = Head(chain), NEW b \in Nat, b = Begun + 1
          PROVE  Line!Next \/ UNCHANGED Line!vars
      <4>1. Position(c, 0, b) /\ WriteFrom(c, 0)
        BY <2>4, <3>3, <3>4
      <4>2. 0 < Size[c] /\ 0 \in Nat
        BY DEF WriterAssumption
      <4> QED
        BY <2>1, <2>4, <4>1, <4>2, FrameMoves
    <3> QED
      BY <2>2, <3>1, <3>4
  <2> QED
    BY <2>1, <2>3, <2>4
<1> QED
  BY <1>1, <1>2, <1>3, <1>4, <1>5, <1>6 DEF Next, Reaction, Timer

LEMMA InitImplements == ASSUME WriterAssumption, Init PROVE Line!Init
<1>1. Len(admitted) = 0 /\ admitted = <<>> /\ wire = <<>> /\ Len(wire) = 0 /\ ~poison
  BY DEF Init
<1>2. Whole = 0
  BY <1>1 DEF Whole, Cut
<1>3. LineBar = <<>>
  BY <1>1, <1>2, SubSeqEmpty DEF LineBar, Left
<1>4. SentBar = <<>>
  BY <1>2 DEF SentBar
<1>5. ToldBar = [c \in Calls |-> "new"]
  BY DEF Init, ToldBar, Told
<1> QED
  BY <1>1, <1>3, <1>4, <1>5 DEF Init, Line!Init, LineBar, Left, SentBar, ToldBar

(* The WriteQueue and the session's writeFrame, whatever the socket, the timers   *)
(* and other callers do, are one line of frames: FrameLine, which is what a       *)
(* channel of AppLink takes a link to be.                                         *)
THEOREM Implementation == Spec => ImplementsLine
<1>1. Init => Line!Init
  BY WriterAssumption, InitImplements
<1>2. IInv /\ [Next]_vars => [Line!Next]_(Line!vars)
  BY WriterAssumption, StepImplements
<1> QED
  BY <1>1, <1>2, InductiveInvariant, PTL DEF Spec, ImplementsLine, Line!Spec
================================================================================
