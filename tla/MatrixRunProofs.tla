---------------------------- MODULE MatrixRunProofs ----------------------------
(* What a complete matrix says, for any cells, mitigations, repetitions and       *)
(* bound on the attempts, and any shuffle of the schedule.                        *)
EXTENDS MatrixRun, FiniteSetTheorems, SequenceTheorems, WellFoundedInduction, TLAPS

Kinds == {"native", "negative", "keld"}
Phases == Kinds \cup {"checks", "census", "completion", "done", "raised", "refused"}
Mains == [phase : Phases, todo : Seq(Keys), schedule : Seq(Keys), attempt : 1..MaxAttempts,
          census : SUBSET {"missing"}, complete : BOOLEAN \cup {None}, exit : {None, 0, 1, 2}]
Places == {"idle", "await", "capture", "exit", "cleanup", "judge"}
Locals == [pc : Places, line : BOOLEAN, timedOut : BOOLEAN, code : {None, "ok", "failed"},
           capture : Captures \cup {"none"}, members : BOOLEAN, requests : Seq(Requests),
           accepted : BOOLEAN, exited : BOOLEAN, cleaned : BOOLEAN]
Taken == [kind : Kinds, key : Keys, valid : BOOLEAN, acquisition : BOOLEAN]

TypeOK ==
  /\ main \in Mains
  /\ row \in Locals
  /\ rows \in Seq(Taken)
  /\ probe \in {None, "running", "ok", "failed"}
  /\ leaked \subseteq DOMAIN rows

(* No key is scheduled twice, and a row belongs to a key that is still to do.     *)
Distinct(s) == \A i, j \in DOMAIN s : s[i] = s[j] => i = j
Scheduled ==
  /\ main.schedule # <<>> /\ Distinct(main.schedule) /\ Distinct(main.todo)
  /\ main.phase = "negative" => Len(main.todo) <= 1
  /\ main.phase = "keld" /\ main.todo # <<>> => Opaque(main.todo[1])
  /\ row.pc # "idle" => main.todo # <<>> /\ main.phase \in Kinds

(* The rows of a phase come after those of the phases before it.                  *)
Ordered ==
  /\ main.phase = "checks" => rows = <<>>
  /\ main.phase = "native" => \A i \in DOMAIN rows : rows[i].kind = "native"
  /\ main.phase = "negative" => \A i \in DOMAIN rows : rows[i].kind # "keld"
  /\ main.phase = "negative" /\ main.todo # <<>> =>
       \A i \in DOMAIN rows : rows[i].kind # "negative"
  /\ \A i, j \in DOMAIN rows :
       rows[i].kind = "negative" /\ rows[j].kind = "negative" => i = j
  /\ \A i \in DOMAIN rows : rows[i].kind = "keld" => Opaque(rows[i].key)

(* The attempts at the key that is to do are the last rows, and each was rejected *)
(* for its acquisition alone; the keys after it have no row yet.                  *)
Rejected(i) == ~rows[i].valid /\ rows[i].acquisition
Attempted ==
  /\ main.phase \in {"checks", "negative"} => main.attempt = 1
  /\ main.phase \in Kinds /\ main.todo = <<>> => main.attempt = 1
  /\ main.phase \in {"native", "keld"} /\ main.todo # <<>> =>
       LET first == Len(rows) - main.attempt + 2 IN
       /\ first >= 1
       /\ RowsOf(main.phase, main.todo[1]) = first..Len(rows)
       /\ \A i \in first..Len(rows) : Rejected(i)
       /\ \A n \in DOMAIN main.todo \ {1} : RowsOf(main.phase, main.todo[n]) = {}

(* The rows of a key follow one another, and all but the last were rejected for   *)
(* the acquisition.                                                               *)
Consecutive(kind, key) ==
  \E first \in 1..(Len(rows) + 1), last \in 0..Len(rows) :
    /\ RowsOf(kind, key) = first..last
    /\ last - first < MaxAttempts
    /\ \A i \in first..last : i # last => Rejected(i)
Bounded == \A kind \in {"native", "keld"}, key \in Keys : Consecutive(kind, key)

(* A row that left its probe running is rejected, and not for the acquisition.    *)
Reported ==
  /\ row.cleaned => row.pc = "judge" /\ probe # "running"
  /\ \A i \in leaked : ~rows[i].valid /\ ~rows[i].acquisition

(* What completion found stays so: no row comes after it.                         *)
Completed ==
  main.complete = TRUE =>
    /\ main.phase = "done"
    /\ ValidKeys("native") = Keys
    /\ ValidKeys("negative") # {}
    /\ ValidKeys("keld") = {k \in Keys : Opaque(k)}

IInv == TypeOK /\ Scheduled /\ Ordered /\ Attempted /\ Bounded /\ Reported /\ Completed
--------------------------------------------------------------------------------
(* A set of numbers has a least element.                                          *)
LEMMA LeastNat ==
  ASSUME NEW S \in SUBSET Nat, S # {}
  PROVE  \E x \in S : \A y \in S : x <= y
<1> DEFINE R == OpToRel(<, Nat)
<1>1. IsWellFoundedOn(R, Nat)
  BY NatLessThanWellFounded
<1>2. \A x, y \in Nat : x < y => <<x, y>> \in R
  BY DEF OpToRel
<1> HIDE DEF R
<1>3. \E x \in S : \A y \in S : ~(<<y, x>> \in R)
  BY <1>1, WFMin
<1>4. \E x \in S : \A y \in S : ~(y < x)
  BY <1>2, <1>3
<1> QED
  BY ONLY <1>4, S \in SUBSET Nat

(* A number is its quotient and its remainder.                                    *)
LEMMA Division ==
  ASSUME NEW n \in Nat \ {0}, NEW a \in Nat
  PROVE  /\ a \div n \in Nat /\ a % n \in 0..(n - 1)
         /\ a = n * (a \div n) + (a % n)
OBVIOUS

LEMMA SameDivision ==
  ASSUME NEW n \in Nat \ {0}, NEW a \in Nat, NEW b \in Nat, a \div n = b \div n, a % n = b % n
  PROVE  a = b
BY Division

LEMMA QuotientBound ==
  ASSUME NEW n \in Nat \ {0}, NEW m \in Nat, NEW a \in Nat, a < n * m
  PROVE  a \div n < m
<1>1. a \div n \in Nat /\ a % n \in 0..(n - 1) /\ a = n * (a \div n) + (a % n)
  BY Division
<1>2. \A q, r \in Nat : q >= m => n * q + r >= n * m
  OBVIOUS
<1> QED
  BY <1>1, <1>2

LEMMA DivisionUnique ==
  ASSUME NEW n \in Nat \ {0}, NEW q \in Nat, NEW r \in 0..(n - 1), NEW a \in Nat, a = n * q + r
  PROVE  a % n = r
<1> DEFINE p == a \div n
           w == a % n
<1>1. p \in Nat /\ w \in 0..(n - 1) /\ a = n * p + w
  BY Division
<1> HIDE DEF p, w
<1>2. CASE p < q
  <2>1. PICK d \in Nat : q = p + 1 + d
    BY <1>1, <1>2
  <2>2. n * q = n * p + n + n * d
    BY <1>1, <2>1
  <2>3. n * d \in Nat /\ n * p \in Nat
    BY <1>1
  <2> QED
    BY <1>1, <2>2, <2>3
<1>3. CASE q < p
  <2>1. PICK d \in Nat : p = q + 1 + d
    BY <1>1, <1>3
  <2>2. n * p = n * q + n + n * d
    BY <1>1, <2>1
  <2>3. n * d \in Nat /\ n * q \in Nat
    BY <1>1
  <2> QED
    BY <1>1, <2>2, <2>3
<1>4. CASE p = q
  <2>1. n * p \in Nat
    BY <1>1
  <2> QED
    BY <1>1, <1>4, <2>1 DEF w
<1> QED
  BY <1>1, <1>2, <1>3, <1>4

(* Dividing by a multiple first leaves the remainder as it is.                    *)
LEMMA Remainders ==
  ASSUME NEW n \in Nat \ {0}, NEW m \in Nat \ {0}, NEW a \in Nat
  PROVE  (a % (n * m)) % n = a % n
<1>1. PICK c \in Nat \ {0} : c = n * m
  OBVIOUS
<1> DEFINE q == a \div c
           r == a % c
           d == r \div n
           w == r % n
<1>2. q \in Nat /\ r \in Nat /\ a = c * q + r
  BY Division
<1> HIDE DEF q, r
<1>3. d \in Nat /\ w \in 0..(n - 1) /\ r = n * d + w
  BY <1>2, Division
<1> HIDE DEF d, w
<1>4. c * q = n * (m * q)
  BY <1>1, <1>2
<1>5. PICK k \in Nat : k = m * q + d /\ n * k = n * (m * q) + n * d
  BY <1>2, <1>3
<1>6. a = n * k + w
  <2>1. n * (m * q) \in Nat /\ n * d \in Nat
    BY <1>2, <1>3
  <2> QED
    BY <1>2, <1>3, <1>4, <1>5, <2>1
<1>7. a % n = w
  BY <1>3, <1>6, DivisionUnique
<1> QED
  BY <1>1, <1>7 DEF w, r

(* The keys that are not opaque are left out at the front only; what remains is   *)
(* taken from the keys, in a sequence without repetitions.                        *)
LEMMA OpaqueRemain ==
  ASSUME NEW keys \in Seq(Keys), Distinct(keys)
  PROVE  /\ FromOpaque(keys) \in Seq(Keys) /\ Distinct(FromOpaque(keys))
         /\ \A n \in DOMAIN FromOpaque(keys) : \E m \in DOMAIN keys : FromOpaque(keys)[n] = keys[m]
         /\ FromOpaque(keys) # <<>> => Opaque(FromOpaque(keys)[1])
<1> DEFINE opaque == {i \in DOMAIN keys : Opaque(keys[i])}
<1>1. CASE opaque = {}
  <2>1. FromOpaque(keys) = <<>>
    BY <1>1 DEF FromOpaque
  <2> QED
    BY <2>1, EmptySeq DEF Distinct
<1>2. CASE opaque # {}
  <2>1. PICK k \in opaque : \A j \in opaque : k <= j
    <3>1. DOMAIN keys \in SUBSET Nat
      BY LenProperties
    <3> QED
      BY <1>2, <3>1, LeastNat
  <2>2. (CHOOSE i \in opaque : \A j \in opaque : i <= j) \in opaque
    BY <2>1
  <2>3. PICK f \in opaque : FromOpaque(keys) = SubSeq(keys, f, Len(keys))
    BY <1>2, <2>2 DEF FromOpaque
  <2> DEFINE rest == SubSeq(keys, f, Len(keys))
  <2>4. /\ f \in 1..Len(keys) /\ Len(keys) \in Nat /\ Opaque(keys[f])
        /\ DOMAIN keys = 1..Len(keys) /\ \A i \in f..Len(keys) : keys[i] \in Keys
    BY <2>3, LenProperties, ElementOfSeq
  <2>5. /\ rest \in Seq(Keys) /\ Len(rest) = Len(keys) - f + 1
        /\ \A i \in 1..(Len(keys) - f + 1) : rest[i] = keys[f + i - 1]
    BY <2>4, SubSeqProperties
  <2>6. DOMAIN rest = 1..(Len(keys) - f + 1)
    BY <2>5, LenProperties
  <2> HIDE DEF rest
  <2>7. \A n \in DOMAIN rest : f + n - 1 \in DOMAIN keys /\ rest[n] = keys[f + n - 1]
    BY <2>4, <2>5, <2>6
  <2>8. Distinct(rest)
    BY <2>4, <2>6, <2>7 DEF Distinct
  <2>9. Opaque(rest[1])
    BY <2>4, <2>5
  <2> QED
    BY <2>3, <2>5, <2>7, <2>8, <2>9 DEF rest
<1> QED
  BY <1>1, <1>2

(* A shuffled schedule holds every key at most once.                              *)
LEMMA SchedulesDistinct ==
  ASSUME NEW s \in Schedules
  PROVE  s \in Seq(Keys) /\ s # <<>> /\ Distinct(s)
<1> DEFINE M == Cardinality(Mitigations)
           C == Cardinality(Cells)
           P == M * C
           Round(i) == ((i - 1) \div P) + 1
           Place(i) == (((i - 1) % P) \div M) + 1
           Within(i) == ((i - 1) % M) + 1
<1>1. M \in Nat \ {0} /\ C \in Nat \ {0}
  BY MatrixAssumption, FS_CardinalityType, FS_EmptySet
<1>2. P \in Nat \ {0} /\ P * Samples \in Nat \ {0}
  BY <1>1, MatrixAssumption
<1>3. PICK cells \in [1..Samples -> Shuffled(Cells)],
           mitigations \in [1..Samples -> [1..C -> Shuffled(Mitigations)]] :
        s = [i \in 1..(P * Samples) |->
               [cell |-> cells[Round(i)][Place(i)],
                mitigation |-> mitigations[Round(i)][Place(i)][Within(i)],
                repetition |-> Round(i)]]
  BY DEF Schedules
<1>4. ASSUME NEW i \in 1..(P * Samples)
      PROVE  /\ i - 1 \in Nat /\ (i - 1) \div P \in Nat /\ (i - 1) % P \in Nat
             /\ ((i - 1) % P) \div M \in Nat /\ ((i - 1) % P) % M = (i - 1) % M
             /\ Round(i) \in 1..Samples /\ Place(i) \in 1..C /\ Within(i) \in 1..M
  <2> HIDE DEF M, C
  <2>1. i - 1 \in Nat /\ i - 1 < P * Samples
    BY <1>2
  <2>2. (i - 1) \div P \in Nat /\ (i - 1) % P \in Nat /\ (i - 1) % P < P
    <3> HIDE DEF P
    <3>1. (i - 1) \div P \in Nat /\ (i - 1) % P \in 0..(P - 1)
      BY <1>2, <2>1, Division
    <3>2. \A n \in Nat \ {0} : \A r \in 0..(n - 1) : r \in Nat /\ r < n
      OBVIOUS
    <3> QED
      BY <1>2, <3>1, <3>2
  <2>3. ((i - 1) % P) \div M \in Nat /\ (i - 1) % M \in 0..(M - 1)
    BY <1>1, <2>1, <2>2, Division
  <2>4. ((i - 1) % P) % M = (i - 1) % M
    BY <1>1, <2>1, Remainders
  <2>5. (i - 1) \div P < Samples
    BY <1>2, <2>1, QuotientBound, MatrixAssumption
  <2>6. ((i - 1) % P) \div M < C
    BY <1>1, <2>2, QuotientBound
  <2>7. Samples \in Nat
    BY MatrixAssumption
  <2>8. \A q, n \in Nat : q < n => q + 1 \in 1..n
    OBVIOUS
  <2>9. Round(i) \in 1..Samples /\ Place(i) \in 1..C
    <3> HIDE DEF P
    <3> QED
      BY ONLY <1>1, <2>2, <2>3, <2>5, <2>6, <2>7, <2>8
  <2>10. Within(i) \in 1..M
    BY ONLY <1>1, <2>3
  <2> QED
    BY <2>1, <2>2, <2>3, <2>4, <2>9, <2>10, Zenon
<1> HIDE DEF Round, Place, Within
<1>5. \A S, t : t \in Shuffled(S) => t \in [1..Cardinality(S) -> S] /\ Distinct(t)
  BY DEF Shuffled, Distinct
<1>6. \A i \in 1..(P * Samples) :
        /\ cells[Round(i)] \in Shuffled(Cells)
        /\ mitigations[Round(i)][Place(i)] \in Shuffled(Mitigations)
  BY <1>3, <1>4
<1>7. \A i \in 1..(P * Samples) :
        /\ cells[Round(i)] \in [1..C -> Cells] /\ Distinct(cells[Round(i)])
        /\ mitigations[Round(i)][Place(i)] \in [1..M -> Mitigations]
        /\ Distinct(mitigations[Round(i)][Place(i)])
  BY <1>5, <1>6
<1>8. \A i \in 1..(P * Samples) : s[i] \in Keys
  BY <1>3, <1>4, <1>7 DEF Keys
<1>9. s \in Seq(Keys) /\ s # <<>> /\ DOMAIN s = 1..(P * Samples)
  BY <1>2, <1>3, <1>8, LenProperties
<1>10. ASSUME NEW i \in 1..(P * Samples), NEW j \in 1..(P * Samples), s[i] = s[j]
       PROVE  i = j
  <2>1. Round(i) = Round(j)
    BY <1>3, <1>10
  <2>2. cells[Round(i)][Place(i)] = cells[Round(i)][Place(j)]
    BY <1>3, <1>10, <2>1
  <2>3. Place(i) = Place(j)
    BY <1>4, <1>7, <2>2 DEF Distinct
  <2>4. mitigations[Round(i)][Place(i)][Within(i)] = mitigations[Round(i)][Place(i)][Within(j)]
    BY <1>3, <1>10, <2>1, <2>3
  <2>5. Within(i) = Within(j)
    BY <1>4, <1>7, <2>4 DEF Distinct
  <2> QED
    <3>1. (i - 1) \div P = (j - 1) \div P
      <4>1. PICK a : a = (i - 1) \div P
        OBVIOUS
      <4>2. PICK b : b = (j - 1) \div P
        OBVIOUS
      <4>3. a \in Nat /\ b \in Nat
        BY <1>4, <4>1, <4>2, Zenon
      <4>4. a + 1 = b + 1
        BY <2>1, <4>1, <4>2, Zenon DEF Round
      <4>5. a = b
        BY ONLY <4>3, <4>4
      <4> QED
        BY <4>1, <4>2, <4>5, Zenon
    <3>2. ((i - 1) % P) \div M = ((j - 1) % P) \div M
      <4>1. PICK a : a = ((i - 1) % P) \div M
        OBVIOUS
      <4>2. PICK b : b = ((j - 1) % P) \div M
        OBVIOUS
      <4>3. a \in Nat /\ b \in Nat
        BY <1>4, <4>1, <4>2, Zenon
      <4>4. a + 1 = b + 1
        BY <2>3, <4>1, <4>2, Zenon DEF Place
      <4>5. a = b
        BY ONLY <4>3, <4>4
      <4> QED
        BY <4>1, <4>2, <4>5, Zenon
    <3>3. (i - 1) % M = (j - 1) % M
      <4> HIDE DEF M
      <4>1. (i - 1) % M \in Nat /\ (j - 1) % M \in Nat
        BY <1>1, <1>4, Division
      <4> QED
        BY <2>5, <4>1 DEF Within
    <3>4. ((i - 1) % P) % M = ((j - 1) % P) % M
      BY <1>4, <3>3
    <3>5. (i - 1) % P = (j - 1) % P
      <4> HIDE DEF P, M
      <4> QED
        BY <1>1, <1>4, <3>2, <3>4, SameDivision
    <3>6. i - 1 = j - 1
      <4> HIDE DEF P, M
      <4> QED
        BY <1>2, <1>4, <3>1, <3>5, SameDivision
    <3> QED
      BY <1>2, <3>6
<1> QED
  BY <1>9, <1>10 DEF Distinct
--------------------------------------------------------------------------------
LEMMA InitIInv ==
  ASSUME Init
  PROVE  IInv
<1>1. PICK schedule \in Schedules :
        main = [phase |-> "checks", todo |-> schedule, schedule |-> schedule,
                attempt |-> 1, census |-> {}, complete |-> None, exit |-> None]
  BY DEF Init
<1>2. schedule \in Seq(Keys) /\ schedule # <<>> /\ Distinct(schedule)
  BY SchedulesDistinct
<1>3. row = NoRow /\ rows = <<>> /\ probe = None /\ leaked = {}
  BY DEF Init
<1>4. rows \in Seq(Taken) /\ Len(rows) = 0 /\ DOMAIN rows = {}
  BY <1>3, EmptySeq, LenProperties
<1>5. TypeOK
  <2>1. 1 \in 1..MaxAttempts
    BY MatrixAssumption
  <2>2. main \in Mains
    BY <1>1, <1>2, <2>1 DEF Mains, Phases
  <2>3. row \in Locals
    BY <1>3 DEF Locals, NoRow, Places
  <2> QED
    BY <1>3, <1>4, <2>2, <2>3 DEF TypeOK
<1>6. \A kind, key : Consecutive(kind, key)
  <2> SUFFICES ASSUME NEW kind, NEW key
               PROVE  Consecutive(kind, key)
    OBVIOUS
  <2>1. RowsOf(kind, key) = 1..0
    BY <1>4 DEF RowsOf
  <2>2. 0 - 1 < MaxAttempts
    BY MatrixAssumption
  <2> QED
    BY <1>4, <2>1, <2>2 DEF Consecutive
<1>7. main.complete # TRUE
  BY <1>1, MatrixAssumption
<1>8. Scheduled /\ Ordered /\ Attempted
  BY <1>1, <1>2, <1>3, <1>4 DEF Scheduled, Ordered, Attempted, NoRow, Kinds
<1> QED
  BY <1>3, <1>5, <1>6, <1>7, <1>8 DEF IInv, Bounded, Reported, Completed, NoRow

(* A row is added after all others, and only its own key has one more.            *)
LEMMA OneMore ==
  ASSUME TypeOK, NEW r \in Taken, rows' = Append(rows, r)
  PROVE  /\ rows' \in Seq(Taken) /\ Len(rows) \in Nat /\ Len(rows') = Len(rows) + 1
         /\ DOMAIN rows = 1..Len(rows) /\ DOMAIN rows' = 1..(Len(rows) + 1)
         /\ \A i \in 1..Len(rows) : rows'[i] = rows[i]
         /\ rows'[Len(rows) + 1] = r
         /\ \A kind, key : RowsOf(kind, key) \subseteq 1..Len(rows)
         /\ \A kind, key : RowsOf(kind, key)' =
              IF kind = r.kind /\ key = r.key THEN RowsOf(kind, key) \cup {Len(rows) + 1}
              ELSE RowsOf(kind, key)
<1>1. /\ rows' \in Seq(Taken) /\ Len(rows) \in Nat /\ Len(rows') = Len(rows) + 1
      /\ \A i \in 1..Len(rows) : rows'[i] = rows[i]
      /\ rows'[Len(rows) + 1] = r
  BY AppendProperties, LenProperties DEF TypeOK
<1>2. DOMAIN rows = 1..Len(rows) /\ DOMAIN rows' = 1..(Len(rows) + 1)
  BY <1>1, LenProperties DEF TypeOK
<1>3. DOMAIN rows' = DOMAIN rows \cup {Len(rows) + 1}
  BY <1>1, <1>2
<1> QED
  BY <1>1, <1>2, <1>3 DEF RowsOf

(* What is left to do when a key is done.                                         *)
LEMMA RestIsLeft ==
  ASSUME TypeOK, Scheduled, main.phase \in Kinds, main.todo # <<>>, NEW rest,
         main.phase = "keld" => rest = FromOpaque(Tail(main.todo)),
         main.phase # "keld" => rest = Tail(main.todo)
  PROVE  /\ rest \in Seq(Keys) /\ Distinct(rest)
         /\ \A n \in DOMAIN rest : \E m \in DOMAIN main.todo \ {1} : rest[n] = main.todo[m]
         /\ main.phase = "keld" /\ rest # <<>> => Opaque(rest[1])
         /\ main.phase = "negative" => rest = <<>>
<1>1. PICK todo \in Seq(Keys) : todo = main.todo
  BY DEF TypeOK, Mains
<1>2. todo # <<>> /\ Distinct(todo)
  BY <1>1 DEF Scheduled
<1> DEFINE tail == Tail(todo)
<1>3. /\ tail \in Seq(Keys) /\ Len(tail) = Len(todo) - 1
      /\ \A i \in 1..Len(tail) : tail[i] = todo[i + 1]
      /\ Len(todo) \in Nat /\ DOMAIN todo = 1..Len(todo) /\ DOMAIN tail = 1..Len(tail)
  BY <1>2, HeadTailProperties, LenProperties
<1> HIDE DEF tail
<1>4. \A n \in DOMAIN tail : n + 1 \in DOMAIN todo \ {1} /\ tail[n] = todo[n + 1]
  BY <1>3
<1>5. Distinct(tail)
  BY <1>2, <1>3, <1>4 DEF Distinct
<1>6. CASE main.phase = "keld"
  <2>1. rest = FromOpaque(tail)
    BY <1>1, <1>6 DEF tail
  <2>2. PICK t \in Seq(Keys) : t = tail /\ Distinct(t)
    BY <1>3, <1>5
  <2>3. /\ FromOpaque(t) \in Seq(Keys) /\ Distinct(FromOpaque(t))
        /\ \A n \in DOMAIN FromOpaque(t) : \E m \in DOMAIN t : FromOpaque(t)[n] = t[m]
        /\ FromOpaque(t) # <<>> => Opaque(FromOpaque(t)[1])
    BY <2>2, OpaqueRemain
  <2>4. rest = FromOpaque(t)
    BY <2>1, <2>2
  <2> QED
    BY <1>1, <1>4, <1>6, <2>2, <2>3, <2>4
<1>7. CASE main.phase # "keld"
  <2>1. rest = tail
    BY <1>1, <1>7 DEF tail
  <2>2. main.phase = "negative" => rest = <<>>
    BY <1>1, <1>3, <2>1, EmptySeq DEF Scheduled
  <2> QED
    BY <1>1, <1>4, <1>3, <1>5, <1>7, <2>1, <2>2
<1> QED
  BY <1>6, <1>7
(* The end of a row, in whatever phase: what it is rejected for decides whether   *)
(* the key may be taken again, and a running probe forbids it.                    *)
LEMMA EndsKeeps ==
  ASSUME IInv, NEW kind \in Kinds, kind = main.phase, main.todo # <<>>,
         NEW reasons, NEW retry \in BOOLEAN, Ends(kind, reasons, retry),
         retry => kind # "negative" /\ reasons # {} /\ OnlyMissed(kind, reasons),
         probe = "running" => reasons # {} /\ ~OnlyMissed(kind, reasons)
  PROVE  IInv'
<1>1. PICK L \in Nat, k \in 1..MaxAttempts, todo \in Seq(Keys) :
        L = Len(rows) /\ k = main.attempt /\ todo = main.todo
  BY LenProperties DEF IInv, TypeOK, Mains
<1>2. PICK key \in Keys : key = todo[1] /\ 1 \in DOMAIN todo
  <2>1. Len(todo) \in Nat \ {0} /\ DOMAIN todo = 1..Len(todo)
    BY <1>1, EmptySeq, LenProperties
  <2> QED
    BY <2>1, ElementOfSeq
<1>3. PICK r \in Taken, again \in BOOLEAN, rest \in {Tail(todo), FromOpaque(Tail(todo))} :
        /\ rows' = Append(rows, r)
        /\ r.kind = kind /\ r.key = key /\ (r.valid <=> reasons = {})
        /\ (r.acquisition <=> OnlyMissed(kind, reasons))
        /\ again => retry /\ k < MaxAttempts
        /\ rest = IF kind = "keld" THEN FromOpaque(Tail(todo)) ELSE Tail(todo)
        /\ main' = IF again THEN [main EXCEPT !.attempt = k + 1]
                   ELSE [main EXCEPT !.attempt = 1, !.todo = rest]
  <2>0. PICK missed \in BOOLEAN : missed = OnlyMissed(kind, reasons)
    BY DEF OnlyMissed
  <2> DEFINE r == [kind |-> kind, key |-> key, valid |-> reasons = {}, acquisition |-> missed]
             again == retry /\ k < MaxAttempts
             rest == IF kind = "keld" THEN FromOpaque(Tail(todo)) ELSE Tail(todo)
  <2>1. r \in Taken
    BY DEF Taken
  <2>2. again \in BOOLEAN
    OBVIOUS
  <2>3. rows' = Append(rows, r)
    BY <1>1, <1>2, <2>0 DEF Ends
  <2>4. main' = IF again THEN [main EXCEPT !.attempt = k + 1]
                ELSE [main EXCEPT !.attempt = 1, !.todo = rest]
    BY <1>1 DEF Ends
  <2> QED
    BY <2>0, <2>1, <2>2, <2>3, <2>4
<1>4. /\ rest \in Seq(Keys) /\ Distinct(rest)
      /\ \A n \in DOMAIN rest : \E m \in DOMAIN todo \ {1} : rest[n] = todo[m]
      /\ kind = "keld" /\ rest # <<>> => Opaque(rest[1])
      /\ kind = "negative" => rest = <<>>
  <2>1. /\ main.phase = "keld" => rest = FromOpaque(Tail(main.todo))
        /\ main.phase # "keld" => rest = Tail(main.todo)
    BY <1>1, <1>3
  <2>2. TypeOK /\ Scheduled /\ main.phase \in Kinds
    BY DEF IInv
  <2>3. /\ rest \in Seq(Keys) /\ Distinct(rest)
        /\ \A n \in DOMAIN rest : \E m \in DOMAIN main.todo \ {1} : rest[n] = main.todo[m]
        /\ main.phase = "keld" /\ rest # <<>> => Opaque(rest[1])
        /\ main.phase = "negative" => rest = <<>>
    BY <2>1, <2>2, RestIsLeft, Zenon
  <2> QED
    BY <1>1, <2>3
<1>5. row' = NoRow /\ probe' = None
      /\ leaked' = IF probe = "running" THEN leaked \cup {L + 1} ELSE leaked
  BY <1>1 DEF Ends
<1>6. /\ rows' \in Seq(Taken) /\ Len(rows') = L + 1
      /\ DOMAIN rows = 1..L /\ DOMAIN rows' = 1..(L + 1)
      /\ \A i \in 1..L : rows'[i] = rows[i]
      /\ rows'[L + 1] = r
  BY <1>1, <1>3, OneMore DEF IInv
<1>7. \A i \in 1..L : rows[i] \in Taken
  BY <1>1, ElementOfSeq DEF IInv, TypeOK
<1>8. \A kd, key2 : /\ RowsOf(kd, key2) \subseteq 1..L
                    /\ RowsOf(kd, key2)' = IF kd = kind /\ key2 = key THEN RowsOf(kd, key2) \cup {L + 1}
                                           ELSE RowsOf(kd, key2)
  BY <1>1, <1>3, OneMore DEF IInv
<1>9. /\ main'.phase = kind /\ main'.schedule = main.schedule /\ main'.complete = main.complete
      /\ again => main'.attempt = k + 1 /\ main'.todo = todo
      /\ ~again => main'.attempt = 1 /\ main'.todo = rest
  BY <1>1, <1>3 DEF IInv, TypeOK, Mains
<1>10. /\ again => ~r.valid /\ r.acquisition /\ kind # "negative"
       /\ probe = "running" => ~r.valid /\ ~r.acquisition
       /\ r.valid \in BOOLEAN /\ r.acquisition \in BOOLEAN
  BY <1>3 DEF Taken
<1>11. TypeOK'
  <2>1. k + 1 \in 1..MaxAttempts \/ ~again
    BY <1>3, MatrixAssumption
  <2>2. 1 \in 1..MaxAttempts
    BY MatrixAssumption
  <2>3. main' \in Mains
    BY <1>1, <1>3, <1>4, <2>1, <2>2 DEF IInv, TypeOK, Mains
  <2>4. row' \in Locals
    BY <1>5 DEF Locals, NoRow, Places
  <2>5. leaked' \subseteq 1..(L + 1)
    BY <1>5, <1>6 DEF IInv, TypeOK
  <2> QED
    BY <1>5, <1>6, <2>3, <2>4, <2>5 DEF TypeOK
<1>12. Scheduled'
  <2>1. Distinct(main'.todo)
    BY <1>1, <1>4, <1>9 DEF IInv, Scheduled
  <2>2. kind = "keld" /\ main'.todo # <<>> => Opaque(main'.todo[1])
    BY <1>1, <1>4, <1>9 DEF IInv, Scheduled
  <2>3. kind = "negative" => Len(main'.todo) <= 1
    BY <1>4, <1>9, <1>10, EmptySeq
  <2>4. main'.schedule # <<>> /\ Distinct(main'.schedule)
    BY <1>9 DEF IInv, Scheduled
  <2>5. row'.pc = "idle"
    BY <1>5 DEF NoRow
  <2> QED
    BY <1>9, <2>1, <2>2, <2>3, <2>4, <2>5 DEF Scheduled, Distinct, Opaque
<1>13. Ordered'
  <2>1. kind # "checks"
    BY DEF Kinds
  <2>2. kind = "native" => \A i \in 1..(L + 1) : rows'[i].kind = "native"
    BY <1>1, <1>3, <1>6 DEF IInv, Ordered
  <2>3. kind = "negative" => \A i \in 1..(L + 1) : rows'[i].kind # "keld"
    BY <1>1, <1>3, <1>6 DEF IInv, Ordered
  <2>4. kind = "negative" => main'.todo = <<>>
    BY <1>4, <1>9, <1>10
  <2>5. ASSUME NEW i \in 1..(L + 1), NEW j \in 1..(L + 1),
               rows'[i].kind = "negative", rows'[j].kind = "negative"
        PROVE  i = j
    <3>1. CASE kind = "negative"
      <4>1. \A n \in 1..L : rows'[n].kind # "negative"
        BY <1>1, <1>6, <3>1 DEF IInv, Ordered
      <4> QED
        BY <2>5, <4>1
    <3>2. CASE kind # "negative"
      <4>1. i \in 1..L /\ j \in 1..L
        BY <1>3, <1>6, <2>5, <3>2
      <4> QED
        BY <1>6, <2>5, <4>1 DEF IInv, Ordered
    <3> QED
      BY <3>1, <3>2
  <2>6. \A i \in 1..(L + 1) : rows'[i].kind = "keld" => Opaque(rows'[i].key)
    <3>1. kind = "keld" => Opaque(key)
      BY <1>1, <1>2 DEF IInv, Scheduled
    <3> QED
      BY <1>3, <1>6, <3>1 DEF IInv, Ordered
  <2> QED
    BY <1>6, <1>9, <2>1, <2>2, <2>3, <2>4, <2>5, <2>6 DEF Ordered, Opaque
<1>14. \A i \in 1..L : Rejected(i)' <=> Rejected(i)
  BY <1>6 DEF Rejected
<1>15. ASSUME kind # "negative"
       PROVE  LET first == L - k + 2 IN
              /\ first \in 1..(L + 1)
              /\ RowsOf(kind, key) = first..L
              /\ \A i \in first..L : Rejected(i)
              /\ \A n \in DOMAIN todo \ {1} : RowsOf(kind, todo[n]) = {}
  <2>1. main.phase \in {"native", "keld"}
    BY <1>15 DEF Kinds
  <2>2. LET first == Len(rows) - main.attempt + 2 IN
        /\ first >= 1
        /\ RowsOf(main.phase, main.todo[1]) = first..Len(rows)
        /\ \A i \in first..Len(rows) : Rejected(i)
        /\ \A n \in DOMAIN main.todo \ {1} : RowsOf(main.phase, main.todo[n]) = {}
    BY <2>1 DEF IInv, Attempted
  <2>3. /\ L - k + 2 >= 1
        /\ RowsOf(kind, key) = (L - k + 2)..L
        /\ \A i \in (L - k + 2)..L : Rejected(i)
        /\ \A n \in DOMAIN todo \ {1} : RowsOf(kind, todo[n]) = {}
    BY <1>1, <1>2, <2>2
  <2>4. L - k + 2 \in 1..(L + 1)
    BY <2>3, MatrixAssumption
  <2> QED
    BY <2>3, <2>4
<1>16. Attempted'
  <2>1. kind = "negative" => main'.attempt = 1
    BY <1>9, <1>10
  <2>2. main'.todo = <<>> => main'.attempt = 1
    BY <1>1, <1>9
  <2>3. ASSUME kind # "negative", main'.todo # <<>>, NEW left, left = main'.todo
        PROVE  LET first == Len(rows') - main'.attempt + 2 IN
               /\ first >= 1
               /\ RowsOf(kind, left[1])' = first..Len(rows')
               /\ \A i \in first..Len(rows') : Rejected(i)'
               /\ \A n \in DOMAIN left \ {1} : RowsOf(kind, left[n])' = {}
    <3>1. \A n \in DOMAIN todo \ {1} : todo[n] # key /\ RowsOf(kind, todo[n])' = {}
      <4>1. \A n \in DOMAIN todo \ {1} : todo[n] # key
        BY <1>1, <1>2 DEF IInv, Scheduled, Distinct
      <4> QED
        BY <1>8, <1>15, <2>3, <4>1
    <3>2. CASE again
      <4>1. PICK first \in 1..(L + 1) : first = L - k + 2
        BY <1>15, <2>3
      <4>2. RowsOf(kind, key)' = (first..L) \cup {L + 1}
        BY <1>8, <1>15, <2>3, <4>1
      <4>3. (first..L) \cup {L + 1} = first..(L + 1)
        OBVIOUS
      <4>4. Rejected(L + 1)'
        BY <1>6, <1>10, <3>2 DEF Rejected
      <4>5. \A i \in first..(L + 1) : i = L + 1 \/ (i \in first..L /\ i \in 1..L)
        OBVIOUS
      <4>6. \A i \in first..(L + 1) : Rejected(i)'
        BY <1>14, <1>15, <2>3, <4>1, <4>4, <4>5
      <4>7. left = todo /\ left[1] = key
        BY <1>2, <1>9, <2>3, <3>2
      <4>8. first = Len(rows') - main'.attempt + 2 /\ first >= 1 /\ L + 1 = Len(rows')
        BY <1>6, <1>9, <3>2, <4>1
      <4>9. RowsOf(kind, left[1])' = first..(L + 1)
        BY <4>2, <4>3, <4>7
      <4>10. \A n \in DOMAIN left \ {1} : RowsOf(kind, left[n])' = {}
        BY <3>1, <4>7
      <4> QED
        BY <4>6, <4>8, <4>9, <4>10
    <3>3. CASE ~again
      <4>1. \A n \in DOMAIN rest : RowsOf(kind, rest[n])' = {}
        BY <1>4, <3>1
      <4>2. left = rest
        BY <1>9, <2>3, <3>3
      <4>3. 1 \in DOMAIN rest
        BY <1>4, <2>3, <4>2, EmptySeq, LenProperties
      <4>4. /\ L + 2 = Len(rows') - main'.attempt + 2 /\ L + 2 >= 1 /\ Len(rows') = L + 1
            /\ (L + 2)..(L + 1) = {}
        BY <1>6, <1>9, <3>3
      <4>5. RowsOf(kind, left[1])' = {}
        BY <4>1, <4>2, <4>3
      <4> QED
        BY <4>1, <4>2, <4>4, <4>5
    <3> QED
      BY <3>2, <3>3
  <2>4. PICK left : left = main'.todo
    OBVIOUS
  <2>5. kind # "negative" /\ left # <<>> =>
          LET first == Len(rows') - main'.attempt + 2 IN
          /\ first >= 1
          /\ RowsOf(kind, left[1])' = first..Len(rows')
          /\ \A i \in first..Len(rows') : Rejected(i)'
          /\ \A n \in DOMAIN left \ {1} : RowsOf(kind, left[n])' = {}
    BY <2>3, <2>4
  <2>6. kind # "checks" /\ kind \in Kinds
    BY DEF Kinds
  <2>7. kind # "negative" /\ left # <<>> =>
          LET first == Len(rows') - main'.attempt + 2 IN
          /\ first >= 1
          /\ {i \in DOMAIN rows' : rows'[i].kind = main'.phase /\ rows'[i].key = main'.todo[1]}
               = first..Len(rows')
          /\ \A i \in first..Len(rows') : ~rows'[i].valid /\ rows'[i].acquisition
          /\ \A n \in DOMAIN main'.todo \ {1} :
               {i \in DOMAIN rows' : rows'[i].kind = main'.phase /\ rows'[i].key = main'.todo[n]} = {}
    <3>1. kind # "negative" /\ left # <<>> =>
            LET first == Len(rows') - main'.attempt + 2 IN
            /\ first >= 1
            /\ {i \in DOMAIN rows' : rows'[i].kind = kind /\ rows'[i].key = left[1]}
                 = first..Len(rows')
            /\ \A i \in first..Len(rows') : ~rows'[i].valid /\ rows'[i].acquisition
            /\ \A n \in DOMAIN left \ {1} :
                 {i \in DOMAIN rows' : rows'[i].kind = kind /\ rows'[i].key = left[n]} = {}
      BY <2>5, Zenon DEF RowsOf, Rejected
    <3>2. kind = main'.phase /\ left = main'.todo
      BY <1>9, <2>4
    <3> QED
      BY <3>1, <3>2, Zenon
  <2> QED
    <3>1. /\ main'.phase \in {"checks", "negative"} => main'.attempt = 1
          /\ main'.phase \in Kinds /\ main'.todo = <<>> => main'.attempt = 1
      BY <1>9, <2>1, <2>2, <2>6
    <3>2. main'.phase \in {"native", "keld"} /\ main'.todo # <<>> =>
            kind # "negative" /\ left # <<>>
      BY <1>9, <2>4
    <3>3. Kinds' = Kinds
      BY DEF Kinds
    <3> QED
      BY ONLY <2>7, <3>1, <3>2, <3>3 DEF Attempted, RowsOf, Rejected
<1>17. Bounded'
  <2> SUFFICES ASSUME NEW kd \in {"native", "keld"}, NEW key2 \in Keys
               PROVE  Consecutive(kd, key2)'
    BY DEF Bounded
  <2>1. CASE kd = kind /\ key2 = key
    <3> DEFINE first == L - k + 2
    <3>1. first \in 1..(L + 1) /\ L + 1 - first < MaxAttempts
      BY <1>15, <2>1, MatrixAssumption
    <3>2. RowsOf(kd, key2)' = (first..L) \cup {L + 1}
      BY <1>8, <1>15, <2>1
    <3>3. (first..L) \cup {L + 1} = first..(L + 1)
      BY <3>1
    <3>4. \A i \in first..(L + 1) : i # L + 1 => i \in first..L /\ i \in 1..L
      BY <3>1
    <3>5. \A i \in first..(L + 1) : i # L + 1 => Rejected(i)'
      BY <1>14, <1>15, <2>1, <3>4
    <3>6. first \in 1..(L + 1 + 1) /\ L + 1 \in 0..(L + 1)
      BY <3>1
    <3> HIDE DEF first
    <3>7. RowsOf(kd, key2)' = first..(L + 1)
      BY <3>2, <3>3
    <3>8. first \in 1..(Len(rows') + 1) /\ L + 1 \in 0..Len(rows')
      BY <1>6, <3>6
    <3> QED
      BY <3>1, <3>5, <3>7, <3>8 DEF Consecutive
  <2>2. CASE ~(kd = kind /\ key2 = key)
    <3>1. RowsOf(kd, key2)' = RowsOf(kd, key2)
      BY <1>8, <2>2
    <3>2. PICK first \in 1..(L + 1), last \in 0..L :
            /\ RowsOf(kd, key2) = first..last
            /\ last - first < MaxAttempts
            /\ \A i \in first..last : i # last => Rejected(i)
      <4>1. Consecutive(kd, key2)
        BY DEF IInv, Bounded
      <4> QED
        BY <1>1, <4>1 DEF Consecutive
    <3>3. first \in 1..(L + 1 + 1) /\ last \in 0..(L + 1) /\ first..last \subseteq 1..L
      OBVIOUS
    <3> QED
      BY <1>6, <1>14, <3>1, <3>2, <3>3 DEF Consecutive
  <2> QED
    BY <2>1, <2>2
<1>18. Reported'
  <2>1. ASSUME NEW i \in leaked'
        PROVE  ~rows'[i].valid /\ ~rows'[i].acquisition
    <3>1. CASE i \in leaked
      BY <1>6, <3>1 DEF IInv, TypeOK, Reported
    <3>2. CASE i \notin leaked
      BY <1>5, <1>6, <1>10, <2>1, <3>2
    <3> QED
      BY <3>1, <3>2
  <2> QED
    BY <1>5, <2>1 DEF Reported, NoRow
<1>19. Completed'
  BY <1>1, <1>9 DEF IInv, Completed, Kinds
<1> QED
  BY <1>11, <1>12, <1>13, <1>16, <1>17, <1>18, <1>19 DEF IInv
(* A step of a row changes its locals and the probe, and nothing of the loops.    *)
LEMMA RowStep ==
  ASSUME IInv, UNCHANGED <<main, rows, leaked>>, row' \in Locals,
         probe' \in {None, "running", "ok", "failed"},
         row'.pc # "idle" => main.todo # <<>> /\ main.phase \in Kinds,
         row'.cleaned => row'.pc = "judge" /\ probe' # "running"
  PROVE  IInv'
<1>1. TypeOK'
  BY DEF IInv, TypeOK
<1>2. Scheduled'
  BY DEF IInv, Scheduled, Distinct, Opaque, Kinds
<1>3. Ordered' /\ Completed'
  BY DEF IInv, Ordered, Completed, Opaque, ValidKeys
<1>4. Attempted' /\ Bounded'
  <2>1. main' = main /\ rows' = rows
    OBVIOUS
  <2>2. (\A kind, key : RowsOf(kind, key)' = RowsOf(kind, key)) /\ (\A i : Rejected(i)' = Rejected(i))
    BY <2>1, Zenon DEF RowsOf, Rejected
  <2>3. \A kind, key : Consecutive(kind, key) => Consecutive(kind, key)'
    BY <2>1, <2>2 DEF Consecutive
  <2>4. Attempted'
    <3>1. Attempted
      BY DEF IInv
    <3>2. UNCHANGED <<main, rows>>
      BY <2>1
    <3>3. Attempted' = Attempted
      BY ONLY <3>2 DEF Attempted, RowsOf, Rejected, Kinds
    <3> QED
      BY <3>1, <3>3
  <2> QED
    BY <2>3, <2>4 DEF IInv, Bounded
<1>5. Reported'
  BY DEF IInv, Reported
<1> QED
  BY <1>1, <1>2, <1>3, <1>4, <1>5 DEF IInv

(* A step of the loops between or after the phases leaves the rows as they are.   *)
LEMMA AfterRows ==
  ASSUME IInv, UNCHANGED <<rows, leaked>>, main' \in Mains, main'.phase \notin Kinds \cup {"checks"},
         main'.schedule = main.schedule, main'.todo = main.todo,
         main'.complete = TRUE => Completed',
         row' \in Locals, row'.pc = "idle", ~row'.cleaned,
         probe' \in {None, "running", "ok", "failed"}
  PROVE  IInv'
<1>1. TypeOK'
  BY DEF IInv, TypeOK
<1>2. Scheduled'
  BY DEF IInv, Scheduled, Distinct, Kinds
<1>3. Ordered' /\ Completed'
  BY DEF IInv, Ordered, Completed, Opaque, Kinds
<1>4. Attempted'
  BY DEF Attempted, Kinds
<1>5. Bounded'
  <2>1. (\A kind, key : RowsOf(kind, key)' = RowsOf(kind, key)) /\ (\A i : Rejected(i)' = Rejected(i))
    BY Zenon DEF RowsOf, Rejected
  <2>2. \A kind, key : Consecutive(kind, key) => Consecutive(kind, key)'
    BY <2>1 DEF Consecutive
  <2> QED
    BY <2>2 DEF IInv, Bounded
<1>6. Reported'
  BY DEF IInv, Reported
<1> QED
  BY <1>1, <1>2, <1>3, <1>4, <1>5, <1>6 DEF IInv

LEMMA IdleTypes == NoRow \in Locals /\ NoRow.pc = "idle" /\ ~NoRow.cleaned
BY EmptySeq DEF NoRow, Locals, Places

LEMMA RaisesKeeps ==
  ASSUME IInv, main.phase # "done", main' = [main EXCEPT !.phase = "raised", !.exit = 1],
         row' \in Locals, row'.pc = "idle", ~row'.cleaned, UNCHANGED <<rows, leaked>>,
         probe' \in {None, "running", "ok", "failed"}
  PROVE  IInv'
<1>1. main' \in Mains
  BY DEF IInv, TypeOK, Mains, Phases
<1>2. /\ main'.phase = "raised" /\ main'.schedule = main.schedule /\ main'.todo = main.todo
      /\ main'.complete = main.complete
  BY DEF IInv, TypeOK, Mains
<1>3. main.complete # TRUE
  BY DEF IInv, Completed
<1> QED
  BY <1>1, <1>2, <1>3, AfterRows DEF Kinds
(* A phase begins with no row of its kind.                                        *)
LEMMA PhaseBegins ==
  ASSUME IInv, main.phase # "done", UNCHANGED <<row, rows, probe, leaked>>, row.pc = "idle",
         main' \in Mains, main'.phase \in Kinds, main'.schedule = main.schedule,
         main'.complete = main.complete, main'.attempt = 1,
         \A i \in DOMAIN rows : rows[i].kind # main'.phase,
         Distinct(main'.todo), Ordered',
         main'.phase = "negative" => Len(main'.todo) <= 1,
         main'.phase = "keld" /\ main'.todo # <<>> => Opaque(main'.todo[1])
  PROVE  IInv'
<1>1. TypeOK'
  BY DEF IInv, TypeOK
<1>2. Scheduled'
  BY DEF IInv, Scheduled, Distinct, Opaque
<1>3. Completed'
  BY DEF IInv, Completed
<1>4. PICK phase \in Kinds, L \in Nat :
        phase = main'.phase /\ L = Len(rows) /\ DOMAIN rows = 1..L
  BY LenProperties DEF IInv, TypeOK
<1>5. \A key : {i \in DOMAIN rows : rows[i].kind = main'.phase /\ rows[i].key = key} = {}
  OBVIOUS
<1>6. Attempted'
  <2>1. Len(rows') - main'.attempt + 2 = L + 1 /\ L + 1 >= 1 /\ (L + 1)..Len(rows') = {}
    BY <1>4
  <2> QED
    BY <1>4, <1>5, <2>1 DEF Attempted, RowsOf, Kinds
<1>7. Bounded'
  <2>1. (\A kind, key : RowsOf(kind, key)' = RowsOf(kind, key)) /\ (\A i : Rejected(i)' = Rejected(i))
    BY Zenon DEF RowsOf, Rejected
  <2>2. \A kind, key : Consecutive(kind, key) => Consecutive(kind, key)'
    BY <2>1 DEF Consecutive
  <2> QED
    BY <2>2 DEF IInv, Bounded
<1>8. Reported'
  BY DEF IInv, Reported
<1> QED
  BY <1>1, <1>2, <1>3, <1>6, <1>7, <1>8 DEF IInv

LEMMA PrepareKeeps ==
  ASSUME IInv, Prepare
  PROVE  IInv'
<1>1. main.phase = "checks" /\ UNCHANGED <<row, rows, probe, leaked>>
  BY DEF Prepare
<1>2. row.pc = "idle" /\ ~row.cleaned /\ row \in Locals
  BY <1>1 DEF IInv, Scheduled, Reported, TypeOK, Kinds, Locals
<1>3. CASE main' = [main EXCEPT !.phase = "native"]
  <2>1. /\ main' \in Mains /\ main'.phase = "native" /\ main'.schedule = main.schedule
        /\ main'.complete = main.complete /\ main'.attempt = main.attempt
        /\ main'.todo = main.todo
    BY <1>3 DEF IInv, TypeOK, Mains, Phases, Kinds
  <2>2. DOMAIN rows = {}
    BY <1>1, EmptySeq, LenProperties DEF IInv, Ordered
  <2>3. Ordered'
    BY <1>1, <2>1, <2>2 DEF Ordered
  <2>4. main.attempt = 1 /\ Distinct(main.todo)
    BY <1>1 DEF IInv, Attempted, Scheduled
  <2>5. Distinct(main'.todo)
    BY <2>1, <2>4
  <2> QED
    BY <1>1, <1>2, <2>1, <2>2, <2>3, <2>4, <2>5, PhaseBegins DEF Kinds
<1>4. CASE main' = [main EXCEPT !.phase = "refused", !.exit = 2]
  <2>1. /\ main' \in Mains /\ main'.phase = "refused" /\ main'.schedule = main.schedule
        /\ main'.complete = main.complete /\ main'.todo = main.todo
    BY <1>4 DEF IInv, TypeOK, Mains, Phases, Kinds
  <2>2. main.complete # TRUE
    BY <1>1 DEF IInv, Completed
  <2>3. probe' \in {None, "running", "ok", "failed"}
    BY <1>1 DEF IInv, TypeOK
  <2> QED
    BY <1>1, <1>2, <2>1, <2>2, <2>3, AfterRows DEF Kinds
<1> QED
  BY <1>3, <1>4 DEF Prepare

LEMMA NextPhaseKeeps ==
  ASSUME IInv, NextPhase
  PROVE  IInv'
<1>1. row.pc = "idle" /\ main.todo = <<>> /\ UNCHANGED <<row, rows, probe, leaked>>
  BY DEF NextPhase, At
<1>2. /\ ~row.cleaned /\ row \in Locals /\ probe \in {None, "running", "ok", "failed"}
      /\ main.schedule \in Seq(Keys) /\ main.schedule # <<>> /\ Distinct(main.schedule)
  BY <1>1 DEF IInv, Scheduled, Reported, TypeOK, Locals, Mains
<1>3. CASE /\ main.phase = "native"
           /\ main' = [main EXCEPT !.phase = "negative", !.todo = <<main.schedule[1]>>]
  <2>1. PICK key \in Keys : key = main.schedule[1]
    <3>1. Len(main.schedule) \in Nat \ {0}
      BY <1>2, EmptySeq
    <3> QED
      BY <1>2, <3>1, ElementOfSeq
  <2>2. <<key>> \in Seq(Keys) /\ Len(<<key>>) = 1 /\ DOMAIN <<key>> = {1}
    OBVIOUS
  <2>3. /\ main' \in Mains /\ main'.phase = "negative" /\ main'.schedule = main.schedule
        /\ main'.complete = main.complete /\ main'.attempt = main.attempt
        /\ main'.todo = <<key>>
    BY <1>3, <2>1, <2>2 DEF IInv, TypeOK, Mains, Phases, Kinds
  <2>4. main.attempt = 1
    BY <1>1, <1>3 DEF IInv, Attempted, Kinds
  <2>5. \A i \in DOMAIN rows : rows[i].kind = "native"
    BY <1>3 DEF IInv, Ordered
  <2>6. Ordered'
    BY <1>1, <2>3, <2>5 DEF Ordered
  <2>7. Distinct(main'.todo) /\ Len(main'.todo) <= 1
    BY <2>2, <2>3 DEF Distinct
  <2> QED
    BY <1>1, <1>3, <2>3, <2>4, <2>5, <2>6, <2>7, PhaseBegins DEF Kinds
<1>4. CASE /\ main.phase = "negative"
           /\ main' = [main EXCEPT !.phase = "keld", !.todo = FromOpaque(main.schedule)]
  <2>1. PICK schedule \in Seq(Keys) : schedule = main.schedule /\ Distinct(schedule)
    BY <1>2
  <2>2. PICK left \in Seq(Keys) :
          left = FromOpaque(schedule) /\ Distinct(left) /\ (left # <<>> => Opaque(left[1]))
    BY <2>1, OpaqueRemain
  <2>3. /\ main' \in Mains /\ main'.phase = "keld" /\ main'.schedule = main.schedule
        /\ main'.complete = main.complete /\ main'.attempt = main.attempt
        /\ main'.todo = left
    BY <1>4, <2>1, <2>2 DEF IInv, TypeOK, Mains, Phases, Kinds
  <2>4. main.attempt = 1
    BY <1>4 DEF IInv, Attempted
  <2>5. \A i \in DOMAIN rows : rows[i].kind # "keld"
    BY <1>4 DEF IInv, Ordered
  <2>6. Ordered'
    BY <1>1, <2>3, <2>5 DEF IInv, Ordered
  <2>7. Distinct(main'.todo) /\ (main'.todo # <<>> => Opaque(main'.todo[1]))
    BY <2>2, <2>3
  <2> QED
    BY <1>1, <1>4, <2>3, <2>4, <2>5, <2>6, <2>7, PhaseBegins DEF Kinds
<1>5. CASE main.phase = "keld" /\ main' = [main EXCEPT !.phase = "census"]
  <2>1. /\ main' \in Mains /\ main'.phase = "census" /\ main'.schedule = main.schedule
        /\ main'.complete = main.complete /\ main'.todo = main.todo
    BY <1>5 DEF IInv, TypeOK, Mains, Phases, Kinds
  <2>2. main.complete # TRUE
    BY <1>5 DEF IInv, Completed
  <2> QED
    BY <1>1, <1>2, <2>1, <2>2, AfterRows DEF Kinds
<1> QED
  BY <1>3, <1>4, <1>5 DEF NextPhase
LEMMA LaunchKeeps ==
  ASSUME IInv, Launch
  PROVE  IInv'
<1>1. /\ row.pc = "idle" /\ main.phase \in Kinds /\ main.todo # <<>>
      /\ probe' \in {None, "running"}
  BY DEF Launch, At, Kinds
<1>2. ~row.cleaned /\ row \in Locals
  BY <1>1 DEF IInv, Reported, TypeOK, Locals
<1>3. CASE Goes([NoRow EXCEPT !.pc = "await"]) /\ Elsewhere
  <2>1. row' = [NoRow EXCEPT !.pc = "await"]
    BY <1>3 DEF Goes
  <2>2. row' \in Locals /\ row'.pc = "await" /\ ~row'.cleaned
    BY <2>1, IdleTypes DEF Locals, Places
  <2> QED
    BY <1>1, <1>3, <2>2, RowStep DEF Elsewhere
<1>4. CASE /\ main' = [main EXCEPT !.phase = "raised", !.exit = 1]
           /\ UNCHANGED <<row, rows, leaked>>
  BY <1>1, <1>2, <1>4, RaisesKeeps DEF Kinds
<1> QED
  BY <1>3, <1>4 DEF Launch

(* The waits of a row, its raises, and the exit of the probe.                     *)
LEMMA WaitsKeep ==
  ASSUME IInv, AwaitReceipt \/ Capture \/ AwaitExit \/ BeaconArrives \/ AwaitBeacon
  PROVE  IInv'
<1>1. /\ row.pc \in {"await", "capture", "exit"} /\ row \in Locals
      /\ probe \in {None, "running", "ok", "failed"}
  BY DEF AwaitReceipt, Capture, AwaitExit, BeaconArrives, AwaitBeacon, At, IInv, TypeOK
<1>2. main.todo # <<>> /\ main.phase \in Kinds /\ ~row.cleaned
  BY <1>1 DEF IInv, Scheduled, Reported, Locals
<1>3. CASE Raises
  <2>1. row' \in Locals /\ row'.pc = "idle" /\ ~row'.cleaned
    BY <1>3, IdleTypes DEF Raises
  <2>2. main.phase # "done"
    BY <1>2 DEF Kinds
  <2> QED
    BY <1>1, <1>3, <2>1, <2>2, RaisesKeeps DEF Raises
<1>4. CASE UNCHANGED probe /\ Elsewhere /\ row' \in Locals /\ row'.cleaned = row.cleaned
  BY <1>1, <1>2, <1>4, RowStep DEF Elsewhere
<1>5. ASSUME AwaitReceipt
      PROVE  UNCHANGED probe /\ Elsewhere /\ row' \in Locals /\ row'.cleaned = row.cleaned
  BY <1>1, <1>5 DEF AwaitReceipt, Goes, Locals, Places
<1>6. ASSUME AwaitBeacon, ~Raises
      PROVE  UNCHANGED probe /\ Elsewhere /\ row' \in Locals /\ row'.cleaned = row.cleaned
  <2>1. UNCHANGED probe /\ Elsewhere
    BY <1>6 DEF AwaitBeacon
  <2>2. \/ row' = [row EXCEPT !.pc = "cleanup", !.accepted = TRUE]
        \/ row' = [row EXCEPT !.pc = "cleanup", !.exited = TRUE]
        \/ row' = [row EXCEPT !.pc = "cleanup"]
    BY <1>6 DEF AwaitBeacon, Then, Goes
  <2>3. row' \in Locals /\ row'.cleaned = row.cleaned
    BY <1>1, <2>2 DEF Locals, Places
  <2> QED
    BY <2>1, <2>3
<1>9. ASSUME BeaconArrives
      PROVE  UNCHANGED probe /\ Elsewhere /\ row' \in Locals /\ row'.cleaned = row.cleaned
  <2>1. PICK kind \in Requests : row' = [row EXCEPT !.requests = Append(@, kind)]
    BY <1>9 DEF BeaconArrives, Goes
  <2>2. Append(row.requests, kind) \in Seq(Requests)
    BY <1>1, AppendProperties DEF Locals
  <2>3. row' \in Locals /\ row'.cleaned = row.cleaned
    BY <1>1, <2>1, <2>2 DEF Locals
  <2> QED
    BY <1>9, <2>3 DEF BeaconArrives
<1>7. ASSUME AwaitExit, ~Raises
      PROVE  UNCHANGED probe /\ Elsewhere /\ row' \in Locals /\ row'.cleaned = row.cleaned
  BY <1>1, <1>7 DEF AwaitExit, Goes, Locals, Places
<1>8. ASSUME Capture, ~Raises
      PROVE  UNCHANGED probe /\ Elsewhere /\ row' \in Locals /\ row'.cleaned = row.cleaned
  <2>1. CASE Then("exit") /\ UNCHANGED probe /\ Elsewhere
    BY <1>1, <2>1 DEF Then, Goes, Locals, Places
  <2>2. CASE /\ \E c \in Captures :
                  Goes([row EXCEPT !.pc = "exit", !.members = TRUE, !.capture = c])
             /\ UNCHANGED probe /\ Elsewhere
    <3>1. PICK c \in Captures : row' = [row EXCEPT !.pc = "exit", !.members = TRUE, !.capture = c]
      BY <2>2 DEF Goes
    <3> QED
      BY <1>1, <2>2, <3>1 DEF Locals, Places
  <2> QED
    BY <1>8, <2>1, <2>2 DEF Capture
<1> QED
  BY <1>3, <1>4, <1>5, <1>6, <1>7, <1>8, <1>9

LEMMA CleanupKeeps ==
  ASSUME IInv, Cleanup
  PROVE  IInv'
<1>1. row.pc = "cleanup" /\ row \in Locals /\ probe \in {None, "running", "ok", "failed"}
  BY DEF Cleanup, At, IInv, TypeOK
<1>2. main.todo # <<>> /\ main.phase \in Kinds /\ ~row.cleaned /\ UNCHANGED <<main, rows, leaked>>
  BY <1>1 DEF IInv, Scheduled, Reported, Locals, Cleanup, Elsewhere
<1>3. CASE probe' = None /\ Goes([row EXCEPT !.pc = "judge", !.cleaned = TRUE])
  <2>1. row' \in Locals /\ row'.pc = "judge"
    BY <1>1, <1>3 DEF Goes, Locals, Places
  <2>2. probe' # "running" /\ probe' \in {None, "running", "ok", "failed"}
    BY <1>3, MatrixAssumption
  <2> QED
    BY <1>2, <2>1, <2>2, RowStep
<1>4. CASE UNCHANGED probe /\ Goes([row EXCEPT !.pc = "judge"])
  <2>1. row' \in Locals /\ row'.pc = "judge" /\ ~row'.cleaned
    BY <1>1, <1>2, <1>4 DEF Goes, Locals, Places
  <2> QED
    BY <1>1, <1>2, <1>4, <2>1, RowStep
<1> QED
  BY <1>3, <1>4 DEF Cleanup

LEMMA ProbeExitsKeeps ==
  ASSUME IInv, ProbeExits
  PROVE  IInv'
<1>1. row' = row /\ row \in Locals /\ probe' \in {"ok", "failed"} /\ UNCHANGED <<main, rows, leaked>>
  BY DEF ProbeExits, IInv, TypeOK
<1>2. /\ row.pc # "idle" => main.todo # <<>> /\ main.phase \in Kinds
      /\ row.cleaned => row.pc = "judge"
  BY DEF IInv, Scheduled, Reported
<1>3. probe' # "running"
  BY <1>1
<1> QED
  BY <1>1, <1>2, <1>3, RowStep

(* A native row that is retried lasted its course and missed its picture only.    *)
LEMMA NativeRetry ==
  ASSUME NEW reasons \in NativeReasons(row), row \in Locals, RetryNative(reasons, row.capture)
  PROVE  reasons # {} /\ OnlyMissed("native", reasons)
<1>1. PICK more \in SUBSET {"receipt", "nvidia"} : reasons = Always(row) \cup more
  BY DEF NativeReasons
<1>2. reasons \subseteq {"capture", "oracle"} /\ reasons # {}
  BY DEF RetryNative
<1>3. row.capture \in {"none", "failed", "no marker"}
  BY DEF RetryNative
<1>4. \A reason \in {"timeout", "exit", "cleanup", "receipt", "nvidia"} : reason \notin Always(row)
  BY <1>1, <1>2
<1>5. ~row.timedOut /\ row.code = "ok" /\ row.cleaned /\ row.line /\ row.members
  BY <1>4 DEF Always
<1>6. reasons \cap {"receipt", "nvidia", "audit"} = {}
  BY <1>2
<1> QED
  BY <1>2, <1>3, <1>5, <1>6 DEF OnlyMissed

(* A Keld row that is retried lost the focus: nobody saw its process exit.        *)
LEMMA KeldRetry ==
  ASSUME NEW reasons \in KeldReasons(row), row \in Locals, RetryKeld(reasons)
  PROVE  reasons # {} /\ OnlyMissed("keld", reasons)
<1>1. PICK more \in SUBSET {"audit", "nvidia"} : reasons = KeldAlways(row) \cup more
  BY DEF KeldReasons
<1>2. reasons = {"beacon", "focus"}
  BY DEF RetryKeld
<1>3. "beacon" \in KeldAlways(row) /\ "focus" \in KeldAlways(row)
  BY <1>1, <1>2
<1>4. "exit" \notin KeldAlways(row) /\ "cleanup" \notin KeldAlways(row)
  BY <1>1, <1>2
<1>5. ~row.accepted
  <2>1. LastRejected(row) \subseteq Requests
    BY LenProperties, ElementOfSeq DEF LastRejected, Locals
  <2>2. "beacon" \notin Requests
    BY DEF Requests
  <2> QED
    BY <1>3, <2>1, <2>2 DEF KeldAlways
<1>6. "focus" \in LastRejected(row)
  BY <1>3 DEF KeldAlways
<1>7. ~row.exited /\ row.cleaned
  BY <1>4 DEF KeldAlways
<1>8. reasons \cap {"receipt", "nvidia", "audit"} = {}
  BY <1>2
<1> QED
  BY <1>2, <1>5, <1>6, <1>7, <1>8 DEF OnlyMissed

(* A probe that still runs was not cleaned up after, and so it was not only the   *)
(* picture or the focus that its row missed.                                      *)
LEMMA JudgeNativeKeeps ==
  ASSUME IInv, JudgeNative
  PROVE  IInv'
<1>1. PICK reasons \in NativeReasons(row) :
        Ends("native", reasons, RetryNative(reasons, row.capture))
  BY DEF JudgeNative
<1>2. main.phase = "native" /\ row.pc = "judge" /\ main.todo # <<>> /\ row \in Locals
  BY DEF JudgeNative, At, IInv, Scheduled, TypeOK
<1>3. probe = "running" => ~row.cleaned
  BY DEF IInv, Reported
<1>4. PICK retry \in BOOLEAN : retry = RetryNative(reasons, row.capture)
  BY DEF RetryNative
<1>5. retry => reasons # {} /\ OnlyMissed("native", reasons)
  BY <1>2, <1>4, NativeRetry
<1>6. probe = "running" => reasons # {} /\ ~OnlyMissed("native", reasons)
  BY <1>1, <1>3 DEF OnlyMissed, NativeReasons, Always
<1>7. Ends("native", reasons, retry)
  BY <1>1, <1>4
<1> QED
  BY <1>2, <1>5, <1>6, <1>7, EndsKeeps DEF Kinds

LEMMA JudgeKeldKeeps ==
  ASSUME IInv, JudgeKeld
  PROVE  IInv'
<1>1. main.phase = "keld" /\ row.pc = "judge" /\ main.todo # <<>> /\ row \in Locals
  BY DEF JudgeKeld, At, IInv, Scheduled, TypeOK
<1>2. ASSUME NEW reasons \in KeldReasons(row), Ends("keld", reasons, RetryKeld(reasons))
      PROVE  IInv'
  <2>1. probe = "running" => ~row.cleaned
    BY DEF IInv, Reported
  <2>2. PICK retry \in BOOLEAN : retry = RetryKeld(reasons)
    BY DEF RetryKeld
  <2>3. retry => reasons # {} /\ OnlyMissed("keld", reasons)
    BY <1>1, <2>2, KeldRetry
  <2>4. probe = "running" => reasons # {} /\ ~OnlyMissed("keld", reasons)
    BY <2>1 DEF OnlyMissed, KeldReasons, KeldAlways
  <2>5. Ends("keld", reasons, retry)
    BY <1>2, <2>2
  <2> QED
    BY <1>1, <2>3, <2>4, <2>5, EndsKeeps DEF Kinds
<1>3. CASE Raises
  <2>1. row' \in Locals /\ row'.pc = "idle" /\ ~row'.cleaned
    BY <1>3, IdleTypes DEF Raises
  <2>2. main.phase # "done" /\ probe' \in {None, "running", "ok", "failed"}
    BY <1>1, <1>3 DEF Raises, IInv, TypeOK
  <2> QED
    BY <1>3, <2>1, <2>2, RaisesKeeps DEF Raises
<1> QED
  BY <1>2, <1>3 DEF JudgeKeld

(* What is wrong with the negative control is one reason, for which nothing is    *)
(* taken again.                                                                   *)
LEMMA JudgeNegativeKeeps ==
  ASSUME IInv, JudgeNegative
  PROVE  IInv'
<1>1. PICK reasons \in NativeReasons(row), black \in BOOLEAN, verdict \in SUBSET {"not rejected"} :
        /\ verdict = IF reasons \ {"nvidia"} = {"oracle"} /\ row.capture = "wrong" /\ black
                     THEN {} ELSE {"not rejected"}
        /\ Ends("negative", verdict, FALSE)
  BY DEF JudgeNegative
<1>2. main.phase = "negative" /\ row.pc = "judge" /\ main.todo # <<>>
  BY DEF JudgeNegative, At, IInv, Scheduled
<1>3. probe = "running" => "cleanup" \in reasons /\ ~row.cleaned
  BY <1>1 DEF NativeReasons, Always, IInv, Reported
<1>4. probe = "running" => verdict = {"not rejected"}
  <2>1. "cleanup" \in reasons => reasons \ {"nvidia"} # {"oracle"}
    <3> SUFFICES ASSUME "cleanup" \in reasons PROVE reasons \ {"nvidia"} # {"oracle"}
      OBVIOUS
    <3>1. "cleanup" \in reasons \ {"nvidia"} /\ "cleanup" \notin {"oracle"}
      OBVIOUS
    <3> QED
      BY <3>1, Zenon
  <2>2. "cleanup" \in reasons => verdict = {"not rejected"}
    BY <1>1, <2>1, Zenon
  <2> QED
    BY <1>3, <2>2, Zenon
<1>5. probe = "running" => verdict # {} /\ ~OnlyMissed("negative", verdict)
  BY <1>3, <1>4 DEF OnlyMissed
<1> QED
  BY <1>1, <1>2, <1>5, EndsKeeps DEF Kinds

LEMMA TakeCensusKeeps ==
  ASSUME IInv, TakeCensus
  PROVE  IInv'
<1>1. main.phase = "census" /\ UNCHANGED <<row, rows, probe, leaked>>
  BY DEF TakeCensus
<1>2. /\ row.pc = "idle" /\ ~row.cleaned /\ row \in Locals
      /\ probe \in {None, "running", "ok", "failed"} /\ main.complete # TRUE
  BY <1>1 DEF IInv, Scheduled, Reported, TypeOK, Kinds, Locals, Completed
<1>3. ASSUME NEW errors \in SUBSET {"missing"},
             main' = [main EXCEPT !.phase = "completion", !.census = errors]
      PROVE  IInv'
  <2>1. /\ main' \in Mains /\ main'.phase = "completion" /\ main'.schedule = main.schedule
        /\ main'.complete = main.complete /\ main'.todo = main.todo
    BY <1>3 DEF IInv, TypeOK, Mains, Phases, Kinds
  <2> QED
    BY <1>1, <1>2, <2>1, AfterRows DEF Kinds
<1>4. CASE main' = [main EXCEPT !.phase = "raised", !.exit = 1]
  BY <1>1, <1>2, <1>4, RaisesKeeps
<1> QED
  BY <1>3, <1>4 DEF TakeCensus

LEMMA FinishKeeps ==
  ASSUME IInv, Finish
  PROVE  IInv'
<1>1. main.phase = "completion" /\ UNCHANGED <<row, rows, probe, leaked>>
  BY DEF Finish
<1>2. /\ row.pc = "idle" /\ ~row.cleaned /\ row \in Locals
      /\ probe \in {None, "running", "ok", "failed"} /\ main.complete # TRUE
  BY <1>1 DEF IInv, Scheduled, Reported, TypeOK, Kinds, Locals, Completed
<1>3. PICK complete \in BOOLEAN :
        /\ complete => /\ ValidKeys("native") = Keys
                       /\ ValidKeys("negative") # {}
                       /\ ValidKeys("keld") = {k \in Keys : Opaque(k)}
        /\ main' = [main EXCEPT !.phase = "done", !.complete = complete,
                                !.exit = IF complete THEN 0 ELSE 2]
  BY DEF Finish
<1>4. /\ main' \in Mains /\ main'.phase = "done" /\ main'.schedule = main.schedule
      /\ main'.complete = complete /\ main'.todo = main.todo
  BY <1>3 DEF IInv, TypeOK, Mains, Phases, Kinds
<1>5. Completed'
  BY <1>1, <1>3, <1>4 DEF Completed, ValidKeys, Opaque
<1> QED
  BY <1>1, <1>2, <1>4, <1>5, AfterRows DEF Kinds
--------------------------------------------------------------------------------
LEMMA NextKeepsIInv ==
  ASSUME IInv, [Next]_vars
  PROVE  IInv'
<1>1. CASE UNCHANGED vars
  <2>1. /\ row \in Locals /\ probe \in {None, "running", "ok", "failed"}
        /\ row.pc # "idle" => main.todo # <<>> /\ main.phase \in Kinds
        /\ row.cleaned => row.pc = "judge" /\ probe # "running"
    BY DEF IInv, TypeOK, Scheduled, Reported
  <2> QED
    BY <1>1, <2>1, RowStep DEF vars
<1>2. CASE Next
  BY <1>2, PrepareKeeps, LaunchKeeps, WaitsKeep, CleanupKeeps, ProbeExitsKeeps, JudgeNativeKeeps,
     JudgeKeldKeeps, JudgeNegativeKeeps, NextPhaseKeeps, TakeCensusKeeps, FinishKeeps
     DEF Next, Runner
<1> QED
  BY <1>1, <1>2

(* The schedule, the order of the rows and the attempts at every key, for any     *)
(* cells, mitigations, repetitions and bound on the attempts.                     *)
THEOREM InductiveInvariant == Spec => []IInv
<1> QED
  BY InitIInv, NextKeepsIInv, PTL DEF Spec

LEMMA RetriesShow ==
  ASSUME IInv
  PROVE  RetriesHideNothing
<1> SUFFICES ASSUME main.complete = TRUE, NEW kind \in {"native", "keld"}, NEW key \in Keys
             PROVE  LET taken == RowsOf(kind, key) IN
                    /\ taken = {} => kind = "keld" /\ ~Opaque(key)
                    /\ Cardinality(taken) <= MaxAttempts
                    /\ \A i \in taken : IF \A j \in taken : j <= i THEN rows[i].valid
                                        ELSE ~rows[i].valid /\ rows[i].acquisition
  BY DEF RetriesHideNothing
<1>1. PICK L \in Nat : L = Len(rows) /\ DOMAIN rows = 1..L /\ \A i \in 1..L : rows[i] \in Taken
  BY LenProperties, ElementOfSeq DEF IInv, TypeOK
<1>2. PICK first \in 1..(L + 1), last \in 0..L :
        /\ RowsOf(kind, key) = first..last
        /\ last - first < MaxAttempts
        /\ \A i \in first..last : i # last => Rejected(i)
  <2>1. Consecutive(kind, key)
    BY DEF IInv, Bounded
  <2> QED
    BY <1>1, <2>1 DEF Consecutive
<1>3. key \in ValidKeys(kind) => \E i \in RowsOf(kind, key) : rows[i].valid
  BY DEF ValidKeys, RowsOf
<1>4. kind = "native" \/ Opaque(key) => key \in ValidKeys(kind)
  BY DEF IInv, Completed
<1>5. RowsOf(kind, key) # {} => kind = "native" \/ Opaque(key)
  BY DEF IInv, Ordered, RowsOf
<1>6. Cardinality(first..last) <= MaxAttempts
  <2>1. Cardinality(first..last) = IF first > last THEN 0 ELSE last - first + 1
    BY FS_Interval
  <2> QED
    BY <1>2, <2>1, MatrixAssumption
<1>7. ASSUME NEW i \in first..last
      PROVE  IF \A j \in first..last : j <= i THEN rows[i].valid
             ELSE ~rows[i].valid /\ rows[i].acquisition
  <2>1. PICK v \in first..last : rows[v].valid
    BY <1>2, <1>3, <1>4, <1>5, <1>7
  <2>2. v = last
    BY <1>2, <2>1 DEF Rejected
  <2>3. CASE i = last
    BY <2>1, <2>2, <2>3
  <2>4. CASE i # last
    <3>1. last \in first..last /\ ~(last <= i)
      BY <1>7, <2>4
    <3> QED
      BY <1>2, <2>4, <3>1 DEF Rejected
  <2> QED
    BY <2>3, <2>4
<1> QED
  BY <1>2, <1>3, <1>4, <1>6, <1>7

(* In a complete matrix every key was taken at most MaxAttempts times, its last   *)
(* row is valid, and each earlier one missed its picture or the focus alone: its  *)
(* probe was cleaned up after and did not fail, time out natively, or exit before *)
(* its beacon under Keld (RetriesHideNothing).                                    *)
THEOREM RetriesAreShown == Spec => []RetriesHideNothing
<1> QED
  BY InductiveInvariant, RetriesShow, PTL

LEMMA NoProbeIsLeft ==
  ASSUME IInv
  PROVE  CompleteLeavesNoProbe
<1> SUFFICES ASSUME main.complete = TRUE, NEW i \in leaked
             PROVE  FALSE
  BY DEF CompleteLeavesNoProbe
<1>1. /\ i \in DOMAIN rows /\ rows[i] \in Taken
      /\ ~rows[i].valid /\ ~rows[i].acquisition
  <2>1. i \in DOMAIN rows /\ ~rows[i].valid /\ ~rows[i].acquisition
    BY DEF IInv, TypeOK, Reported
  <2> QED
    BY <2>1, LenProperties, ElementOfSeq DEF IInv, TypeOK
<1>2. CASE rows[i].kind = "negative"
  <2>1. PICK j \in DOMAIN rows : rows[j].kind = "negative" /\ rows[j].valid
    BY DEF IInv, Completed, ValidKeys
  <2> QED
    BY <1>1, <1>2, <2>1 DEF IInv, Ordered
<1>3. CASE rows[i].kind \in {"native", "keld"}
  <2>1. PICK kind \in {"native", "keld"}, key \in Keys : kind = rows[i].kind /\ key = rows[i].key
    BY <1>1, <1>3 DEF Taken
  <2>2. i \in RowsOf(kind, key)
    BY <1>1, <2>1 DEF RowsOf
  <2>3. IF \A j \in RowsOf(kind, key) : j <= i THEN rows[i].valid
        ELSE ~rows[i].valid /\ rows[i].acquisition
    BY <2>2, RetriesShow DEF RetriesHideNothing
  <2> QED
    BY <1>1, <2>3
<1> QED
  BY <1>1, <1>2, <1>3 DEF Taken, Kinds

(* A complete matrix left no probe running behind any of its rows, whatever       *)
(* cleanup failed at: such a row is rejected and its key not taken again          *)
(* (CompleteLeavesNoProbe).                                                       *)
THEOREM NoProbeOutlivesCompletion == Spec => []CompleteLeavesNoProbe
<1> QED
  BY InductiveInvariant, NoProbeIsLeft, PTL
================================================================================
