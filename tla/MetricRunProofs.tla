---------------------------- MODULE MetricRunProofs ----------------------------
(* What a run publishes, for every value of the constants of MetricRun: the file  *)
(* it creates is never replaced, "nominal" means that nothing throttled, and a    *)
(* comparison is of arms that took turns.                                         *)
EXTENDS MetricRun, FiniteSetTheorems, SequenceTheorems, TLAPS

RunFields == {"pc", "paired", "problems", "start", "read", "state", "primed", "orders",
              "samples", "compared", "exit"}

(* The phases around the two boundaries of the session.                           *)
Before == {"checks", "artifacts", "git", "environment", "arms", "open"}
Opened == {"priming", "orders", "samples"}
After  == {"compare", "publish", "dump", "exited"}

Shape ==
  /\ DOMAIN run = RunFields
  /\ world \in [count : [Counters -> Nat], throttled : SUBSET Counters, restarts : Nat]

(* Nothing happens to the counters before the samples begin.                      *)
Calm == run.pc \in Before \cup {"priming", "orders"} => world.throttled = {}

(* What the opening boundary read is a lower bound of what the counters are, and  *)
(* a strict one for those that have throttled since, unless one has restarted.    *)
LowerBound(read) ==
  /\ DOMAIN read \subseteq Counters
  /\ world.restarts = 0 =>
       \A c \in DOMAIN read :
         /\ read[c] \in Nat
         /\ read[c] <= world.count[c]
         /\ c \in world.throttled => read[c] < world.count[c]
Watched == run.pc \in Opened => LowerBound(run.start.counters)

(* The verdict is given once, after the samples.                                  *)
Judged ==
  run.state = "nominal" =>
    /\ run.pc \in After
    /\ world.throttled \cap run.read = {} \/ world.restarts > 0

IInv == Shape /\ Calm /\ Watched /\ Judged
--------------------------------------------------------------------------------
(* A boundary shows the counters as they are (linux_thermal_snapshot).            *)
LEMMA ReadingShowsCounts ==
  ASSUME Shape, NEW s \in Readings
  PROVE  /\ DOMAIN s.counters \subseteq Counters
         /\ \A c \in DOMAIN s.counters : s.counters[c] = world.count[c]
<1>1. PICK r \in Readable : s = Reading(r[1], r[2], r[3])
  BY DEF Readings
<1>2. r[1] \subseteq Counters
  BY <1>1 DEF Readable
<1>3. s.counters = [c \in r[1] |-> world.count[c]]
  BY <1>1 DEF Reading, Snapshot
<1> QED
  BY <1>2, <1>3

(* A nominal verdict means the same counters at both boundaries, none advanced    *)
(* (thermal_state_from_boundaries).                                               *)
LEMMA NominalMeansNoAdvance ==
  ASSUME NEW start, NEW end, ThermalState(start, end) = "nominal"
  PROVE  /\ DOMAIN start.counters = DOMAIN end.counters
         /\ \A c \in DOMAIN start.counters : ~(end.counters[c] > start.counters[c])
  BY DEF ThermalState, Throttled, CounterAdvanced, Structural

LEMMA InitInv == Init => IInv
  BY RunAssumption DEF Init, IInv, Shape, Calm, Watched, Judged, RunFields, Before, Opened

(* What a step of the harness may change when it leaves the session alone.        *)
LEMMA QuietStep ==
  ASSUME IInv, UNCHANGED world, DOMAIN run' = RunFields, run'.state = run.state,
         run'.start = run.start, run'.read = run.read,
         run'.pc \in Before => run.pc \in Before,
         run'.pc \in {"priming", "orders"} => run.pc \in {"priming", "orders"},
         run'.pc \in Opened => run.pc \in Opened,
         run.pc \in After => run'.pc \in After
  PROVE  IInv'
  BY DEF IInv, Shape, Calm, Watched, Judged, LowerBound

(* An early end keeps the verdict that was there.                                 *)
LEMMA FailsInv == ASSUME IInv, Fails PROVE IInv'
<1>1. run' = [run EXCEPT !.pc = "exited", !.exit = 2]
  BY DEF Fails, Goes, Exit
<1>2. DOMAIN run' = RunFields /\ run'.pc = "exited" /\ run'.state = run.state
      /\ run'.start = run.start /\ run'.read = run.read
  BY <1>1 DEF IInv, Shape, RunFields
<1> QED
  BY <1>2, QuietStep DEF Fails, Quiet, Before, Opened, After

(* The steps that only move on: checks, provenance, priming, orders, comparison,  *)
(* publication.                                                                   *)
Moves(from, to) ==
  /\ run.pc = from /\ UNCHANGED world
  /\ DOMAIN run' = RunFields /\ run'.pc = to /\ run'.state = run.state
  /\ run'.start = run.start /\ run'.read = run.read

LEMMA MovesInv ==
  ASSUME IInv, NEW from, NEW to, Moves(from, to),
         \/ from \in Before /\ to \in Before
         \/ from \in {"priming", "orders"} /\ to \in {"priming", "orders", "samples"}
         \/ from \in Opened /\ to = "samples"
         \/ to \in After
  PROVE  IInv'
  BY QuietStep DEF Moves, Before, Opened, After

LEMMA ThenMoves ==
  ASSUME IInv, NEW from, NEW to, At(from), Then(to), UNCHANGED world
  PROVE  Moves(from, to)
  BY DEF IInv, Shape, RunFields, At, Then, Goes, Moves

LEMMA NotesMoves ==
  ASSUME IInv, NEW from, NEW to, Notes(from, to)
  PROVE  Moves(from, to)
  BY DEF IInv, Shape, RunFields, Notes, At, Goes, Moves, Quiet

LEMMA ChecksInv ==
  ASSUME IInv, Check \/ ReadArtifacts \/ GitState \/ Environment
  PROVE  IInv'
<1>1. CASE Fails
  BY <1>1, FailsInv
<1>2. CASE At("checks") /\ Then("artifacts") /\ Quiet
  BY <1>2, ThenMoves, MovesInv DEF Quiet, Before
<1>3. CASE At("artifacts") /\ Then("git") /\ Quiet
  BY <1>3, ThenMoves, MovesInv DEF Quiet, Before
<1>4. CASE Notes("git", "environment")
  BY <1>4, NotesMoves, MovesInv DEF Before
<1>5. CASE Notes("environment", "arms")
  BY <1>5, NotesMoves, MovesInv DEF Before
<1> QED
  BY <1>1, <1>2, <1>3, <1>4, <1>5
     DEF Check, ReadArtifacts, GitState, Environment, Fails

LEMMA ConfigureArmsInv == ASSUME IInv, ConfigureArms PROVE IInv'
  BY FailsInv, NotesMoves, MovesInv DEF ConfigureArms, Before

LEMMA PrimeInv == ASSUME IInv, Prime PROVE IInv'
<1>1. CASE Fails
  BY <1>1, FailsInv
<1>2. CASE ~Fails
  <2>1. Moves("priming", run'.pc) /\ run'.pc \in {"priming", "orders"}
    BY <1>2 DEF Prime, At, Goes, Quiet, Moves, IInv, Shape, RunFields
  <2> QED
    BY <2>1, MovesInv
<1> QED
  BY <1>1, <1>2

LEMMA DrawOrdersInv == ASSUME IInv, DrawOrders PROVE IInv'
<1>1. Moves("orders", "samples")
  BY DEF DrawOrders, At, Goes, Quiet, Moves, IInv, Shape, RunFields
<1> QED
  BY <1>1, MovesInv

LEMMA TakeSampleInv == ASSUME IInv, TakeSample PROVE IInv'
<1>1. CASE Fails
  BY <1>1, FailsInv
<1>2. CASE ~Fails
  <2>1. Moves("samples", "samples")
    BY <1>2 DEF TakeSample, At, Goes, Quiet, Moves, IInv, Shape, RunFields
  <2> QED
    BY <2>1, MovesInv DEF Opened
<1> QED
  BY <1>1, <1>2

LEMMA CompareInv == ASSUME IInv, Compare PROVE IInv'
<1>1. CASE Fails
  BY <1>1, FailsInv
<1>2. CASE ~Fails
  <2>1. Moves("compare", "publish")
    BY <1>2 DEF Compare, At, Then, Goes, Quiet, Moves, IInv, Shape, RunFields
  <2> QED
    BY <2>1, MovesInv DEF After
<1> QED
  BY <1>1, <1>2

LEMMA PublishInv == ASSUME IInv, Publish \/ Dump PROVE IInv'
<1>1. CASE Fails
  BY <1>1, FailsInv
<1>2. CASE Publish /\ ~Fails
  <2>1. Moves("publish", "dump")
    BY <1>2 DEF Publish, At, Then, Goes, Moves, IInv, Shape, RunFields
  <2> QED
    BY <2>1, MovesInv DEF After
<1>3. CASE Dump /\ ~Fails
  <2>1. Moves("dump", "exited")
    BY <1>3 DEF Dump, At, Goes, Exit, Moves, IInv, Shape, RunFields
  <2> QED
    BY <2>1, MovesInv DEF After
<1> QED
  BY <1>1, <1>2, <1>3
--------------------------------------------------------------------------------
(* The opening boundary: nothing has throttled yet, so the reading is a bound.    *)
LEMMA OpenSessionInv == ASSUME IInv, OpenSession PROVE IInv'
<1>1. PICK s \in Readings, state \in {"fresh-process", "warm-cache"} :
        run' = [run EXCEPT !.pc = IF state = "warm-cache" THEN "priming" ELSE "orders",
                           !.start = s]
  BY DEF OpenSession, Goes
<1>2. /\ DOMAIN run' = RunFields /\ run'.pc \in {"priming", "orders"}
      /\ run'.start = s /\ run'.state = run.state /\ run'.read = run.read
      /\ run.pc = "open" /\ UNCHANGED world
  BY <1>1 DEF OpenSession, At, Quiet, IInv, Shape, RunFields
<1>3. world.throttled = {}
  BY <1>2 DEF IInv, Calm, Before
<1>4. /\ DOMAIN s.counters \subseteq Counters
      /\ \A c \in DOMAIN s.counters : s.counters[c] = world.count[c]
  BY ReadingShowsCounts DEF IInv
<1>5. LowerBound(s.counters)
  BY <1>3, <1>4 DEF LowerBound, IInv, Shape
<1>6. Shape' /\ Calm'
  BY <1>2, <1>3 DEF IInv, Shape, Calm
<1>7. Watched'
  BY <1>2, <1>5 DEF Watched, LowerBound
<1>8. Judged'
  BY <1>2 DEF IInv, Judged, After
<1> QED
  BY <1>6, <1>7, <1>8 DEF IInv

(* The closing boundary: a counter that throttled has advanced, and the verdict   *)
(* sees that unless it restarted.                                                 *)
LEMMA CloseSessionInv == ASSUME IInv, CloseSession PROVE IInv'
<1>1. PICK s \in Readings :
        run' = [run EXCEPT !.pc = "compare", !.start = None,
                           !.read = DOMAIN run.start.counters,
                           !.state = ThermalState(run.start, s)]
  BY DEF CloseSession, Goes
<1>2. /\ DOMAIN run' = RunFields /\ run'.pc = "compare"
      /\ run'.read = DOMAIN run.start.counters
      /\ run'.state = ThermalState(run.start, s)
      /\ run.pc = "samples" /\ UNCHANGED world
  BY <1>1 DEF CloseSession, At, Quiet, IInv, Shape, RunFields
<1>3. LowerBound(run.start.counters)
  BY <1>2 DEF IInv, Watched, Opened
<1>4. ASSUME ThermalState(run.start, s) = "nominal", world.restarts = 0
      PROVE  world.throttled \cap DOMAIN run.start.counters = {}
  <2>1. SUFFICES ASSUME NEW c \in DOMAIN run.start.counters, c \in world.throttled
                 PROVE  FALSE
    OBVIOUS
  <2>2. c \in DOMAIN s.counters /\ ~(s.counters[c] > run.start.counters[c])
    <3> DEFINE start == run.start
    <3>1. ThermalState(start, s) = "nominal"
      BY <1>4
    <3> HIDE DEF start
    <3>2. /\ DOMAIN start.counters = DOMAIN s.counters
          /\ \A d \in DOMAIN start.counters : ~(s.counters[d] > start.counters[d])
      BY <3>1, NominalMeansNoAdvance
    <3> QED
      BY <3>2, <2>1 DEF start
  <2>3. s.counters[c] = world.count[c]
    BY <2>2, ReadingShowsCounts DEF IInv
  <2>4. run.start.counters[c] < world.count[c]
    BY <1>3, <1>4, <2>1 DEF LowerBound
  <2>5. run.start.counters[c] \in Nat /\ world.count[c] \in Nat
    BY <1>3, <1>4, <2>1 DEF LowerBound, IInv, Shape
  <2> QED
    BY <2>2, <2>3, <2>4, <2>5
<1>5. Judged'
  BY <1>2, <1>4 DEF Judged, After, IInv, Shape
<1>6. Shape' /\ Calm' /\ Watched'
  BY <1>2 DEF IInv, Shape, Calm, Watched, Before, Opened
<1> QED
  BY <1>5, <1>6 DEF IInv

(* The counters advance or restart while samples are taken.                       *)
LEMMA MachineInv == ASSUME IInv, Machine PROVE IInv'
<1>1. run.pc = "samples" /\ UNCHANGED run
  BY DEF Machine, At
<1>2. Shape'
  <2>1. CASE Throttle
    <3>1. PICK c \in Counters :
            world' = [world EXCEPT !.count[c] = @ + 1, !.throttled = @ \cup {c}]
      BY <2>1 DEF Throttle
    <3>2. [world.count EXCEPT ![c] = @ + 1] \in [Counters -> Nat]
      BY DEF IInv, Shape
    <3> QED
      BY <1>1, <3>1, <3>2 DEF IInv, Shape
  <2>2. CASE Restart
    <3>1. PICK c \in Counters : world' = [world EXCEPT !.count[c] = 0, !.restarts = @ + 1]
      BY <2>2 DEF Restart
    <3>2. [world.count EXCEPT ![c] = 0] \in [Counters -> Nat] /\ world.restarts + 1 \in Nat
      BY DEF IInv, Shape
    <3>3. world' = [count |-> [world.count EXCEPT ![c] = 0],
                    throttled |-> world.throttled, restarts |-> world.restarts + 1]
      BY <3>1 DEF IInv, Shape
    <3> QED
      BY <1>1, <3>2, <3>3 DEF IInv, Shape
  <2> QED
    BY <2>1, <2>2 DEF Machine
<1>3. LowerBound(run.start.counters)
  BY <1>1 DEF IInv, Watched, Opened
<1>4. Watched'
  <2>1. CASE Throttle
    <3>1. PICK c \in Counters :
            world' = [world EXCEPT !.count[c] = @ + 1, !.throttled = @ \cup {c}]
      BY <2>1 DEF Throttle
    <3>2. /\ world'.restarts = world.restarts
          /\ world'.throttled = world.throttled \cup {c}
          /\ world'.count = [world.count EXCEPT ![c] = @ + 1]
      BY <3>1 DEF IInv, Shape
    <3>3. world.count \in [Counters -> Nat]
      BY DEF IInv, Shape
    <3> QED
      BY <1>1, <1>3, <3>2, <3>3 DEF Watched, LowerBound
  <2>2. CASE Restart
    <3>1. world'.restarts # 0
      BY <2>2 DEF Restart, IInv, Shape
    <3> QED
      BY <1>1, <1>3, <3>1 DEF Watched, LowerBound
  <2> QED
    BY <2>1, <2>2 DEF Machine
<1>5. Calm' /\ Judged'
  BY <1>1 DEF IInv, Calm, Judged, Before, After
<1> QED
  BY <1>2, <1>4, <1>5 DEF IInv
--------------------------------------------------------------------------------
LEMMA StepInv == IInv /\ [Next]_vars => IInv'
<1> SUFFICES ASSUME IInv, [Next]_vars PROVE IInv'
  OBVIOUS
<1>1. CASE Harness
  BY <1>1, ChecksInv, ConfigureArmsInv, OpenSessionInv, PrimeInv, DrawOrdersInv,
     TakeSampleInv, CloseSessionInv, CompareInv, PublishInv DEF Harness
<1>2. CASE Machine
  BY <1>2, MachineInv
<1>3. CASE OtherWrites \/ UNCHANGED vars
  BY <1>3 DEF OtherWrites, vars, IInv, Shape, Calm, Watched, Judged, LowerBound
<1> QED
  BY <1>1, <1>2, <1>3 DEF Next

(* The strengthening of NominalMeansCool that every step of a run keeps.          *)
THEOREM InductiveInvariant == Spec => []IInv
  BY InitInv, StepInv, PTL DEF Spec

(* A result says "nominal" only if no counter the boundaries could read throttled *)
(* between them, unless one restarted (thermal_state_from_boundaries).            *)
THEOREM NominalIsCool == Spec => []NominalMeansCool
<1>1. IInv => NominalMeansCool
  BY DEF IInv, Judged, NominalMeansCool
<1> QED
  BY <1>1, InductiveInvariant, PTL

(* What a step of the harness does to the file: nothing but create it under a     *)
(* free name and complete it (the exclusive open and the dump of run.py).         *)
LEMMA FileStep ==
  ASSUME Next, out # None
  PROVE  out' = out \/ (At("dump") /\ out' = "result")
<1>1. CASE Check \/ ReadArtifacts \/ GitState \/ Environment \/ ConfigureArms
  BY <1>1 DEF Check, ReadArtifacts, GitState, Environment, ConfigureArms, Notes, Fails, Quiet
<1>2. CASE OpenSession \/ Prime \/ DrawOrders \/ TakeSample \/ CloseSession \/ Compare
  BY <1>2 DEF OpenSession, Prime, DrawOrders, TakeSample, CloseSession, Compare, Fails, Quiet
<1>3. CASE Publish \/ Dump
  BY <1>3 DEF Publish, Dump, Fails, Quiet
<1>4. CASE Machine \/ OtherWrites
  BY <1>4 DEF Machine, OtherWrites
<1> QED
  BY <1>1, <1>2, <1>3, <1>4 DEF Next, Harness

(* The file that is being written is the one the run created.                     *)
Held == run.pc = "dump" => out = "partial"

LEMMA HeldStep == IInv /\ Held /\ [Next]_vars => Held'
<1> SUFFICES ASSUME IInv, Held, [Next]_vars PROVE Held'
  OBVIOUS
<1> USE DEF Held, At, Goes, Then, Quiet, Exit, IInv, Shape, RunFields
<1>1. CASE Check \/ ReadArtifacts \/ GitState \/ Environment \/ ConfigureArms
  BY <1>1 DEF Check, ReadArtifacts, GitState, Environment, ConfigureArms, Notes, Fails
<1>2. CASE OpenSession
  BY <1>2 DEF OpenSession
<1>3. CASE Prime \/ DrawOrders \/ TakeSample \/ Compare
  BY <1>3 DEF Prime, DrawOrders, TakeSample, Compare, Fails
<1>4. CASE CloseSession
  BY <1>4 DEF CloseSession
<1>5. CASE Publish \/ Dump
  BY <1>5 DEF Publish, Dump, Fails
<1>6. CASE Machine \/ OtherWrites \/ UNCHANGED vars
  BY <1>6, RunAssumption DEF Machine, OtherWrites, vars
<1> QED
  BY <1>1, <1>2, <1>3, <1>4, <1>5, <1>6 DEF Next, Harness

(* Whatever is under the name of the result stays as it is, but for the file the  *)
(* run created itself, which it completes (the exclusive open in run.py).         *)
THEOREM NeverReplaced == Spec => ResultImmutable
<1>1. Init => Held
  BY DEF Init, Held
<1>2. Held /\ [Next]_vars =>
        [out # None => out' = out \/ (out = "partial" /\ At("dump") /\ out' = "result")]_vars
  BY FileStep DEF Held, At, vars
<1> QED
  BY <1>1, <1>2, HeldStep, InductiveInvariant, PTL DEF Spec, ResultImmutable
--------------------------------------------------------------------------------
(* A paired run draws its orders before the first sample; every sample then has   *)
(* the round, the place and the arm that its index stands for.                    *)
Later == {"samples", "compare", "publish", "dump"}
SampleRecords == [arm : {Arms[1], Arms[2]}, run : 1..Samples, position : {1, 2}, valid : BOOLEAN]
RoundAt(i) == ((i - 1) \div 2) + 1
PlaceAt(i) == ((i - 1) % 2) + 1
Drawn ==
  \E shuffled \in [1..((Samples + 1) \div 2) -> Shuffles] : run.orders = PairedRoundOrders(shuffled)
Sampled ==
  /\ run.samples \in Seq(SampleRecords)
  /\ Len(run.samples) <= 2 * Samples
  /\ \A i \in DOMAIN run.samples :
       /\ run.samples[i].run = RoundAt(i)
       /\ run.samples[i].position = PlaceAt(i)
       /\ run.samples[i].arm = run.orders[RoundAt(i)][PlaceAt(i)]

(* A comparison is made of complete and valid samples, and they stay as they are. *)
Pairing ==
  /\ run.pc \in Before \cup {"priming", "orders"} => run.samples = <<>>
  /\ run.paired /\ run.pc \in Later => Drawn /\ Sampled
  /\ run.pc = "compare" => Len(run.samples) = Samples * Len(ArmIds)
  /\ run.compared =>
       /\ run.pc \in {"publish", "dump", "exited"}
       /\ run.paired /\ Drawn /\ Sampled /\ Len(run.samples) = 2 * Samples /\ AllValid

(* Rounds and places count the indices, two to a round.                           *)
LEMMA IndexOfRound ==
  /\ \A i \in 1..(2 * Samples) :
       /\ RoundAt(i) \in 1..Samples /\ PlaceAt(i) \in {1, 2}
       /\ i = 2 * (RoundAt(i) - 1) + PlaceAt(i)
  /\ \A round \in 1..Samples, place \in {1, 2} :
       /\ 2 * (round - 1) + place \in 1..(2 * Samples)
       /\ RoundAt(2 * (round - 1) + place) = round
       /\ PlaceAt(2 * (round - 1) + place) = place
BY RunAssumption DEF RoundAt, PlaceAt

LEMMA TwoToABlock ==
  ASSUME NEW S \in Nat, NEW block \in 1..(S \div 2)
  PROVE  /\ 2 * block - 1 \in 1..S /\ 2 * block \in 1..S
         /\ (2 * block - 1 + 1) \div 2 = block /\ (2 * block + 1) \div 2 = block
         /\ (2 * block - 1) % 2 = 1 /\ (2 * block) % 2 # 1
OBVIOUS

(* Every order has both arms, and the second of a block is the first reversed.    *)
LEMMA OrdersTakeTurns ==
  ASSUME NEW shuffled \in [1..((Samples + 1) \div 2) -> Shuffles],
         NEW orders, orders = PairedRoundOrders(shuffled)
  PROVE  /\ \A round \in 1..Samples : orders[round] \in Shuffles
         /\ \A block \in 1..(Samples \div 2) :
              orders[2 * block - 1][1] = orders[2 * block][2]
<1>1. \A round \in 1..Samples : (round + 1) \div 2 \in 1..((Samples + 1) \div 2)
  BY RunAssumption
<1>2. \A first \in Shuffles : <<first[2], first[1]>> \in Shuffles
  BY RunAssumption DEF Shuffles
<1>3. ASSUME NEW round \in 1..Samples
      PROVE  orders[round] = LET first == shuffled[(round + 1) \div 2] IN
                             IF round % 2 = 1 THEN first ELSE <<first[2], first[1]>>
  BY DEF PairedRoundOrders
<1>4. \A round \in 1..Samples : orders[round] \in Shuffles
  BY <1>1, <1>2, <1>3
<1>5. ASSUME NEW block \in 1..(Samples \div 2)
      PROVE  orders[2 * block - 1][1] = orders[2 * block][2]
  <2>1. /\ 2 * block - 1 \in 1..Samples /\ 2 * block \in 1..Samples
        /\ (2 * block - 1 + 1) \div 2 = block /\ (2 * block + 1) \div 2 = block
        /\ (2 * block - 1) % 2 = 1 /\ (2 * block) % 2 # 1
    BY TwoToABlock, RunAssumption
  <2>2. PICK first : first = shuffled[block]
    OBVIOUS
  <2>3. orders[2 * block - 1] = first /\ orders[2 * block] = <<first[2], first[1]>>
    BY <1>3, <2>1, <2>2
  <2> QED
    BY <2>3
<1> QED
  BY <1>4, <1>5

ValidIn(samples, arm) ==
  Cardinality({i \in {j \in DOMAIN samples : samples[j].arm = arm} : samples[i].valid})
LEMMA SameSamples ==
  ASSUME run'.paired = run.paired, run'.orders = run.orders, run'.samples = run.samples
  PROVE  AllValid' = AllValid /\ Drawn' = Drawn /\ Sampled' = Sampled /\ ArmIds' = ArmIds
<1>1. ArmIds' = ArmIds
  BY DEF ArmIds
<1>2. Drawn' = Drawn
  BY DEF Drawn, PairedRoundOrders, Shuffles
<1>3. Sampled' = Sampled
  BY DEF Sampled, SampleRecords, RoundAt, PlaceAt
<1>4. AllValid = \A i \in DOMAIN ArmIds : ValidIn(run.samples, ArmIds[i]) = Samples
  BY Zenon DEF AllValid, ValidOf, SamplesOf, ValidIn
<1>5. AllValid' = \A i \in DOMAIN ArmIds' : ValidIn(run'.samples, ArmIds'[i]) = Samples
  BY Zenon DEF AllValid, ValidOf, SamplesOf, ValidIn
<1> QED
  BY <1>1, <1>2, <1>3, <1>4, <1>5

(* Most steps leave the samples alone.                                            *)
LEMMA PairingStays ==
  ASSUME Pairing, run'.paired = run.paired, run'.orders = run.orders,
         run'.samples = run.samples, run'.compared = run.compared,
         run'.pc \in Later => run.pc \in Later,
         run'.pc \in Before \cup {"priming", "orders"} => run.pc \in Before \cup {"priming", "orders"},
         run'.pc = "compare" => run.pc = "compare" \/ Len(run.samples) = Samples * Len(ArmIds),
         run.compared => run'.pc \in {"publish", "dump", "exited"}
  PROVE  Pairing'
BY SameSamples DEF Pairing, Later, Before

LEMMA FailsPairing == ASSUME IInv, Pairing, Fails PROVE Pairing'
<1>1. /\ run'.pc = "exited" /\ run'.paired = run.paired /\ run'.orders = run.orders
      /\ run'.samples = run.samples /\ run'.compared = run.compared
  BY DEF Fails, Goes, Exit, IInv, Shape, RunFields
<1> QED
  BY <1>1, PairingStays DEF Later, Before

LEMMA EarlyPairing ==
  ASSUME IInv, Pairing, ~Fails,
         Check \/ ReadArtifacts \/ GitState \/ Environment \/ ConfigureArms \/ OpenSession \/ Prime
  PROVE  Pairing'
<1>1. /\ run.pc \in Before \cup {"priming", "orders"} /\ run'.pc \in Before \cup {"priming", "orders"}
      /\ run'.paired = run.paired /\ run'.orders = run.orders
      /\ run'.samples = run.samples /\ run'.compared = run.compared
  <2> USE DEF At, Then, Goes, IInv, Shape, RunFields, Before
  <2>1. CASE Check
    BY <2>1 DEF Check
  <2>2. CASE ReadArtifacts
    BY <2>2 DEF ReadArtifacts, Fails
  <2>3. CASE GitState \/ Environment \/ ConfigureArms
    BY <2>3 DEF GitState, Environment, ConfigureArms, Notes
  <2>4. CASE OpenSession
    BY <2>4 DEF OpenSession
  <2>5. CASE Prime
    BY <2>5 DEF Prime
  <2> QED
    BY <2>1, <2>2, <2>3, <2>4, <2>5
<1>2. run'.pc \notin Later /\ run'.pc # "compare" /\ ~run.compared
  BY <1>1 DEF Later, Before, Pairing
<1> QED
  BY <1>1, <1>2, PairingStays

LEMMA DrawOrdersPairing == ASSUME IInv, Pairing, DrawOrders PROVE Pairing'
<1>1. PICK shuffled \in [1..((Samples + 1) \div 2) -> Shuffles] :
        run' = [run EXCEPT !.pc = "samples",
                  !.orders = IF run.paired THEN PairedRoundOrders(shuffled)
                             ELSE [round \in 1..Samples |-> ArmIds]]
  BY DEF DrawOrders, Goes
<1>2. /\ run.pc = "orders" /\ run'.pc = "samples" /\ run'.paired = run.paired
      /\ run.paired => run'.orders = PairedRoundOrders(shuffled)
      /\ run'.samples = run.samples /\ run'.compared = run.compared
  BY <1>1 DEF DrawOrders, At, IInv, Shape, RunFields
<1>3. run.samples = <<>> /\ ~run.compared
  BY <1>2 DEF Pairing
<1>4. run'.paired => Drawn'
  BY <1>2 DEF Drawn, Shuffles, PairedRoundOrders
<1>5. Sampled'
  <2>1. <<>> \in Seq(SampleRecords) /\ Len(<<>>) = 0 /\ DOMAIN <<>> = {}
    BY EmptySeq, LenProperties
  <2>2. run'.samples = <<>> /\ 0 <= 2 * Samples
    BY <1>2, <1>3, RunAssumption
  <2> QED
    BY <2>1, <2>2 DEF Sampled, SampleRecords
<1> QED
  BY <1>2, <1>3, <1>4, <1>5 DEF Pairing, Before

LEMMA ArmsOfPair == ASSUME run.paired PROVE ArmIds = Arms /\ Len(ArmIds) = 2 /\ DOMAIN ArmIds = {1, 2}
<1>1. Len(<<Arms[1], Arms[2]>>) = 2 /\ DOMAIN <<Arms[1], Arms[2]>> = {1, 2}
  OBVIOUS
<1> QED
  BY <1>1, RunAssumption DEF ArmIds

LEMMA TakeSamplePairing == ASSUME IInv, Pairing, TakeSample, ~Fails PROVE Pairing'
<1>1. LET round == (Len(run.samples) \div Len(ArmIds)) + 1
          position == (Len(run.samples) % Len(ArmIds)) + 1
      IN \E valid \in BOOLEAN :
           /\ Goes([run EXCEPT !.samples = Append(@,
                 [arm |-> run.orders[round][position], run |-> round,
                  position |-> position, valid |-> valid])])
           /\ Quiet
  BY Zenon DEF TakeSample
<1>2. PICK round, position :
        /\ round = (Len(run.samples) \div Len(ArmIds)) + 1
        /\ position = (Len(run.samples) % Len(ArmIds)) + 1
  OBVIOUS
<1>3. PICK valid \in BOOLEAN :
        Goes([run EXCEPT !.samples = Append(@,
          [arm |-> run.orders[round][position], run |-> round,
           position |-> position, valid |-> valid])])
  BY <1>1, <1>2
<1>4. PICK sample :
        /\ sample = [arm |-> run.orders[round][position], run |-> round,
                     position |-> position, valid |-> valid]
        /\ run' = [run EXCEPT !.samples = Append(run.samples, sample)]
  BY <1>3, Zenon DEF Goes
<1>5. /\ run.pc = "samples" /\ run'.pc = "samples" /\ run'.paired = run.paired
      /\ run'.orders = run.orders /\ run'.compared = run.compared
      /\ run'.samples = Append(run.samples, sample)
  BY <1>2, <1>3, <1>4 DEF TakeSample, At, IInv, Shape, RunFields
<1>6. ~run.compared
  BY <1>5 DEF Pairing
<1>7. ASSUME run.paired
      PROVE  Drawn' /\ Sampled'
  <2>1. Drawn /\ Sampled
    BY <1>5, <1>7 DEF Pairing, Later
  <2>2. PICK L \in Nat : L = Len(run.samples) /\ DOMAIN run.samples = 1..L
    BY <2>1, LenProperties DEF Sampled
  <2>3. /\ L < 2 * Samples /\ round = (L \div 2) + 1 /\ position = (L % 2) + 1
    <3>1. Len(ArmIds) = 2
      BY <1>7, ArmsOfPair
    <3>2. Len(run.samples) < Samples * Len(ArmIds)
      BY DEF TakeSample, Fails
    <3> QED
      BY <1>2, <1>3, <1>4, <2>2, <3>1, <3>2, RunAssumption
  <2>4. round = RoundAt(L + 1) /\ position = PlaceAt(L + 1)
    BY <2>3 DEF RoundAt, PlaceAt
  <2>5. round \in 1..Samples /\ position \in {1, 2}
    <3>1. L + 1 \in 1..(2 * Samples)
      BY <2>3, RunAssumption
    <3> QED
      BY <2>4, <3>1, IndexOfRound
  <2>6. run.orders[round] \in Shuffles
    BY <2>1, <2>5, OrdersTakeTurns DEF Drawn
  <2>7. sample \in SampleRecords
    <3>1. run.orders[round][position] \in {Arms[1], Arms[2]}
      BY <2>5, <2>6, RunAssumption DEF Shuffles
    <3> QED
      BY <1>2, <1>3, <1>4, <2>5, <3>1 DEF SampleRecords
  <2>8. /\ run'.samples \in Seq(SampleRecords) /\ Len(run'.samples) = L + 1
        /\ \A i \in 1..L : run'.samples[i] = run.samples[i]
        /\ run'.samples[L + 1] = sample
        /\ DOMAIN run'.samples = 1..(L + 1)
    BY <1>5, <2>1, <2>2, <2>7, AppendProperties, LenProperties DEF Sampled
  <2>9. ASSUME NEW i \in 1..(L + 1)
        PROVE  /\ run'.samples[i].run = RoundAt(i)
               /\ run'.samples[i].position = PlaceAt(i)
               /\ run'.samples[i].arm = run'.orders[RoundAt(i)][PlaceAt(i)]
    <3>1. CASE i = L + 1
      <4>1. /\ sample.run = round /\ sample.position = position
            /\ sample.arm = run.orders[round][position]
        BY <1>2, <1>3, <1>4
      <4>2. run'.samples[i] = sample /\ RoundAt(i) = round /\ PlaceAt(i) = position
        BY <2>4, <2>8, <3>1
      <4> QED
        BY <1>5, <4>1, <4>2
    <3>2. CASE i \in 1..L
      BY <1>5, <2>1, <2>2, <2>8, <3>2 DEF Sampled
    <3> QED
      BY <3>1, <3>2
  <2>10. Sampled'
    BY <2>3, <2>8, <2>9, RunAssumption DEF Sampled, SampleRecords, RoundAt, PlaceAt
  <2>11. Drawn'
    BY <1>5, <2>1 DEF Drawn, Shuffles, PairedRoundOrders
  <2> QED
    BY <2>10, <2>11
<1> QED
  BY <1>5, <1>6, <1>7 DEF Pairing, Before

LEMMA LatePairing ==
  ASSUME IInv, Pairing, ~Fails, CloseSession \/ Publish \/ Dump
  PROVE  Pairing'
<1>1. /\ run'.paired = run.paired /\ run'.orders = run.orders
      /\ run'.samples = run.samples /\ run'.compared = run.compared
      /\ \/ /\ run.pc = "samples" /\ run'.pc = "compare"
            /\ Len(run.samples) = Samples * Len(ArmIds)
         \/ run.pc = "publish" /\ run'.pc = "dump"
         \/ run.pc = "dump" /\ run'.pc = "exited"
  <2> USE DEF At, Then, Goes, Exit, IInv, Shape, RunFields
  <2>1. CASE CloseSession
    BY <2>1 DEF CloseSession
  <2>2. CASE Publish
    BY <2>2 DEF Publish
  <2>3. CASE Dump
    BY <2>3 DEF Dump
  <2> QED
    BY <2>1, <2>2, <2>3
<1>2. run.compared => run.pc # "samples"
  BY DEF Pairing
<1> QED
  BY <1>1, <1>2, PairingStays DEF Later, Before

LEMMA ComparePairing == ASSUME IInv, Pairing, Compare, ~Fails PROVE Pairing'
<1>1. /\ run.pc = "compare" /\ run'.pc = "publish"
      /\ run'.paired = run.paired /\ run'.orders = run.orders /\ run'.samples = run.samples
      /\ run'.compared = run.compared \/ (run'.compared = TRUE /\ run.paired /\ AllValid)
  BY DEF Compare, At, Then, Goes, IInv, Shape, RunFields
<1>2. CASE run'.compared = run.compared
  BY <1>1, <1>2, PairingStays DEF Later, Before, Pairing
<1>3. CASE run.paired /\ AllValid
  <2>1. Drawn /\ Sampled
    BY <1>1, <1>3 DEF Pairing, Later
  <2>2. Len(run.samples) = 2 * Samples
    <3>1. Len(run.samples) = Samples * 2
      BY <1>1, <1>3, ArmsOfPair DEF Pairing
    <3> QED
      BY <3>1, RunAssumption
  <2> QED
    BY <1>1, <1>3, <2>1, <2>2, SameSamples DEF Pairing, Later, Before
<1> QED
  BY <1>1, <1>2, <1>3

LEMMA PairingStep == IInv /\ Pairing /\ [Next]_vars => Pairing'
<1> SUFFICES ASSUME IInv, Pairing, [Next]_vars PROVE Pairing'
  OBVIOUS
<1>1. CASE Fails
  BY <1>1, FailsPairing
<1>2. CASE Harness /\ ~Fails
  BY <1>2, EarlyPairing, DrawOrdersPairing, TakeSamplePairing, LatePairing, ComparePairing DEF Harness
<1>3. CASE UNCHANGED run
  BY <1>3, PairingStays DEF Pairing
<1> QED
  BY <1>1, <1>2, <1>3 DEF Next, Machine, OtherWrites, vars

(* The arm that goes first at both ends of so many blocks goes first so often.    *)
LEMMA CountFirsts ==
  ASSUME NEW first, NEW S \in Nat, NEW n \in Nat, n <= (S + 1) \div 2,
         \A block \in 1..n : \/ 2 * block - 1 \in first /\ 2 * block \notin first
                             \/ 2 * block - 1 \notin first /\ 2 * block \in first,
         \A round \in first : round \in 1..S /\ (round + 1) \div 2 <= n
  PROVE  Cardinality({2 * round - 1 : round \in first}) = n
<1> DEFINE indices == {2 * round - 1 : round \in first}
           f == [block \in 1..n |-> IF 2 * block - 1 \in first THEN 4 * block - 3 ELSE 4 * block - 1]
<1>1. \A block \in 1..n : f[block] \in indices
  <2> SUFFICES ASSUME NEW block \in 1..n
               PROVE  f[block] \in indices
    OBVIOUS
  <2>1. CASE 2 * block - 1 \in first
    <3>1. f[block] = 2 * (2 * block - 1) - 1
      BY <2>1
    <3> QED
      BY <2>1, <3>1
  <2>2. CASE 2 * block - 1 \notin first
    <3>1. f[block] = 2 * (2 * block) - 1 /\ 2 * block \in first
      BY <2>2
    <3> QED
      BY <3>1
  <2> QED
    BY <2>1, <2>2
<1>2. f \in [1..n -> indices]
  BY <1>1
<1>3. \A a, b \in 1..n : f[a] = f[b] => a = b
  OBVIOUS
<1>4. \A i \in indices : \E block \in 1..n : f[block] = i
  <2> SUFFICES ASSUME NEW round \in first
               PROVE  \E block \in 1..n : f[block] = 2 * round - 1
    OBVIOUS
  <2>1. PICK block \in 1..n : round = 2 * block - 1 \/ round = 2 * block
    <3>1. PICK b \in 1..n : b = (round + 1) \div 2
      OBVIOUS
    <3>2. round \in 1..S
      OBVIOUS
    <3>3. round = 2 * b - 1 \/ round = 2 * b
      BY <3>1, <3>2
    <3> QED
      BY <3>3
  <2>2. f[block] = 2 * round - 1
    BY <2>1
  <2> QED
    BY <2>2
<1>5. f \in Bijection(1..n, indices)
  <2> HIDE DEF f, indices
  <2> QED
    BY <1>2, <1>3, <1>4 DEF Bijection, Injection, Surjection, IsInjective
<1> QED
  BY <1>5, FS_CountingElements DEF ExistsBijection

LEMMA ArmsTookTurns ==
  ASSUME Pairing, run.compared
  PROVE  /\ \A i \in {1, 2}, round \in 1..Samples :
              \E s \in ValidOf(run, Arms[i]) :
                SamplesOf(run, Arms[i]) \cap {t \in DOMAIN run.samples : run.samples[t].run = round} = {s}
         /\ Cardinality(FirstOf(Arms[1])) - Cardinality(FirstOf(Arms[2])) \in {-(Samples % 2), Samples % 2}
<1>1. PICK samples, orders :
        /\ samples = run.samples /\ orders = run.orders
        /\ DOMAIN samples = 1..(2 * Samples)
        /\ \A i \in 1..(2 * Samples) :
             /\ samples[i].run = RoundAt(i)
             /\ samples[i].position = PlaceAt(i)
             /\ samples[i].arm = orders[RoundAt(i)][PlaceAt(i)]
             /\ samples[i].valid \in BOOLEAN
  <2>1. Sampled /\ Len(run.samples) = 2 * Samples
    BY DEF Pairing
  <2>2. DOMAIN run.samples = 1..(2 * Samples)
    BY <2>1, LenProperties DEF Sampled
  <2>3. \A i \in 1..(2 * Samples) : run.samples[i] \in SampleRecords
    BY <2>1, ElementOfSeq DEF Sampled
  <2> QED
    BY <2>1, <2>2, <2>3 DEF Sampled, SampleRecords
<1>2. /\ \A round \in 1..Samples : orders[round] \in Shuffles
      /\ \A block \in 1..(Samples \div 2) : orders[2 * block - 1][1] = orders[2 * block][2]
  BY <1>1, OrdersTakeTurns DEF Pairing, Drawn
<1>3. \A round \in 1..Samples, i \in {1, 2} :
        \/ orders[round][1] = Arms[i] /\ orders[round][2] # Arms[i]
        \/ orders[round][1] # Arms[i] /\ orders[round][2] = Arms[i]
  BY <1>2, RunAssumption DEF Shuffles
<1>4. ASSUME NEW i \in {1, 2}
      PROVE  /\ SamplesOf(run, Arms[i]) = {t \in 1..(2 * Samples) : orders[RoundAt(t)][PlaceAt(t)] = Arms[i]}
             /\ ValidOf(run, Arms[i]) = SamplesOf(run, Arms[i])
  <2> DEFINE own == {t \in 1..(2 * Samples) : orders[RoundAt(t)][PlaceAt(t)] = Arms[i]}
             g == [t \in own |-> RoundAt(t)]
  <2>1. SamplesOf(run, Arms[i]) = own
    BY <1>1 DEF SamplesOf
  <2>2. g \in [own -> 1..Samples]
    BY IndexOfRound
  <2>3. \A a, b \in own : g[a] = g[b] => a = b
    <3> SUFFICES ASSUME NEW a \in own, NEW b \in own, RoundAt(a) = RoundAt(b)
                 PROVE  a = b
      OBVIOUS
    <3>1. /\ RoundAt(a) \in 1..Samples /\ PlaceAt(a) \in {1, 2} /\ PlaceAt(b) \in {1, 2}
          /\ a = 2 * (RoundAt(a) - 1) + PlaceAt(a) /\ b = 2 * (RoundAt(b) - 1) + PlaceAt(b)
      BY IndexOfRound
    <3>2. orders[RoundAt(a)][PlaceAt(a)] = Arms[i] /\ orders[RoundAt(a)][PlaceAt(b)] = Arms[i]
      OBVIOUS
    <3>3. PlaceAt(a) = PlaceAt(b)
      BY <1>3, <3>1, <3>2
    <3> QED
      BY <3>1, <3>3
  <2>4. g \in Injection(own, 1..Samples)
    <3> HIDE DEF own, g
    <3>1. DOMAIN g = own
      BY <2>2
    <3> QED
      BY <2>2, <2>3, <3>1 DEF Injection, IsInjective
  <2>5. IsFiniteSet(1..Samples) /\ Cardinality(1..Samples) = Samples
    <3>1. 1 \in Int /\ Samples \in Int /\ Samples >= 1
      BY RunAssumption
    <3>2. /\ IsFiniteSet(1..Samples)
          /\ Cardinality(1..Samples) = IF 1 > Samples THEN 0 ELSE Samples - 1 + 1
      BY <3>1, FS_Interval
    <3> QED
      BY <3>1, <3>2
  <2>6. IsFiniteSet(own) /\ Cardinality(own) <= Samples
    <3> HIDE DEF own, g
    <3> QED
      BY <2>4, <2>5, FS_Injection
  <2>7. Cardinality(ValidOf(run, Arms[i])) = Samples
    <3>1. run.paired /\ AllValid
      BY DEF Pairing
    <3>2. ArmIds = Arms /\ i \in DOMAIN ArmIds
      BY <3>1, ArmsOfPair
    <3> QED
      BY <3>1, <3>2 DEF AllValid
  <2>8. ValidOf(run, Arms[i]) \in SUBSET own
    BY <2>1 DEF ValidOf
  <2>9. Cardinality(own) = Samples
    <3> HIDE DEF own
    <3>1. Cardinality(ValidOf(run, Arms[i])) <= Cardinality(own) /\ Cardinality(own) \in Nat
      BY <2>6, <2>8, FS_Subset, FS_CardinalityType
    <3> QED
      BY <2>6, <2>7, <3>1, RunAssumption
  <2>10. own = ValidOf(run, Arms[i])
    <3> HIDE DEF own
    <3> QED
      BY <2>6, <2>7, <2>8, <2>9, FS_Subset
  <2> QED
    <3>1. SamplesOf(run, Arms[i]) = own /\ ValidOf(run, Arms[i]) = own
      BY <2>1, <2>10
    <3>2. ValidOf(run, Arms[i]) = SamplesOf(run, Arms[i])
      BY <2>1, <2>10
    <3> QED
      BY <3>1, <3>2
<1>5. ASSUME NEW i \in {1, 2}, NEW round \in 1..Samples
      PROVE  \E s \in ValidOf(run, Arms[i]) :
               SamplesOf(run, Arms[i]) \cap {t \in DOMAIN run.samples : run.samples[t].run = round} = {s}
  <2>1. PICK place \in {1, 2} :
          /\ orders[round][place] = Arms[i]
          /\ \A other \in {1, 2} : other # place => orders[round][other] # Arms[i]
    BY <1>3
  <2>2. PICK s \in 1..(2 * Samples) :
          s = 2 * (round - 1) + place /\ RoundAt(s) = round /\ PlaceAt(s) = place
    BY IndexOfRound
  <2>3. s \in SamplesOf(run, Arms[i])
    BY <1>4, <2>1, <2>2
  <2>4. ASSUME NEW t \in SamplesOf(run, Arms[i]), run.samples[t].run = round
        PROVE  t = s
    <3>1. /\ t \in 1..(2 * Samples) /\ orders[RoundAt(t)][PlaceAt(t)] = Arms[i]
          /\ RoundAt(t) = round
      BY <1>1, <1>4, <2>4
    <3>2. PlaceAt(t) \in {1, 2} /\ t = 2 * (round - 1) + PlaceAt(t)
      BY <3>1, IndexOfRound
    <3>3. PlaceAt(t) = place
      BY <2>1, <3>1, <3>2
    <3> QED
      BY <2>2, <3>2, <3>3
  <2>5. s \in {t \in DOMAIN run.samples : run.samples[t].run = round}
    BY <1>1, <2>2
  <2>6. SamplesOf(run, Arms[i]) \cap {t \in DOMAIN run.samples : run.samples[t].run = round} = {s}
    BY <2>3, <2>4, <2>5
  <2> QED
    BY <1>4, <2>3, <2>6
<1> DEFINE first(i) == {round \in 1..Samples : orders[round][1] = Arms[i]}
<1>6. ASSUME NEW i \in {1, 2}
      PROVE  FirstOf(Arms[i]) = {2 * round - 1 : round \in first(i)}
  <2>1. ASSUME NEW t \in FirstOf(Arms[i])
        PROVE  \E round \in first(i) : t = 2 * round - 1
    <3>1. /\ t \in 1..(2 * Samples) /\ orders[RoundAt(t)][PlaceAt(t)] = Arms[i]
          /\ PlaceAt(t) = 1
      BY <1>1, <1>4, <2>1 DEF FirstOf
    <3>2. RoundAt(t) \in 1..Samples /\ t = 2 * (RoundAt(t) - 1) + 1
      BY <3>1, IndexOfRound
    <3> QED
      BY <3>1, <3>2
  <2>2. ASSUME NEW round \in first(i)
        PROVE  2 * round - 1 \in FirstOf(Arms[i])
    <3>1. PICK t \in 1..(2 * Samples) :
            t = 2 * (round - 1) + 1 /\ RoundAt(t) = round /\ PlaceAt(t) = 1
      BY IndexOfRound
    <3>2. t \in SamplesOf(run, Arms[i]) /\ run.samples[t].position = 1
      BY <1>1, <1>4, <3>1
    <3> QED
      BY <3>1, <3>2 DEF FirstOf
  <2> HIDE DEF first
  <2> QED
    BY <2>1, <2>2
<1>7. ASSUME NEW i \in {1, 2}, NEW block \in 1..(Samples \div 2)
      PROVE  \/ 2 * block - 1 \in first(i) /\ 2 * block \notin first(i)
             \/ 2 * block - 1 \notin first(i) /\ 2 * block \in first(i)
  <2>1. 2 * block - 1 \in 1..Samples /\ 2 * block \in 1..Samples
    BY TwoToABlock, RunAssumption
  <2>2. orders[2 * block - 1][1] = orders[2 * block][2]
    BY <1>2
  <2> QED
    BY <1>3, <2>1, <2>2
<1> HIDE DEF first
<1>8. \A i \in {1, 2} : \A round \in first(i) : round \in 1..Samples /\ orders[round][1] = Arms[i]
  BY DEF first
<1>9. CASE Samples % 2 = 0
  <2>1. PICK n \in Nat : n = Samples \div 2 /\ Samples = 2 * n
    BY <1>9, RunAssumption
  <2>2. \A i \in {1, 2} : Cardinality(FirstOf(Arms[i])) = n
    <3> SUFFICES ASSUME NEW i \in {1, 2}
                 PROVE  Cardinality(FirstOf(Arms[i])) = n
      OBVIOUS
    <3>1. n <= (Samples + 1) \div 2 /\ Samples \in Nat
      BY <2>1
    <3>2. \A round \in first(i) : round \in 1..Samples /\ (round + 1) \div 2 <= n
      BY <1>8, <2>1
    <3>3. \A block \in 1..n : \/ 2 * block - 1 \in first(i) /\ 2 * block \notin first(i)
                              \/ 2 * block - 1 \notin first(i) /\ 2 * block \in first(i)
      BY <1>7, <2>1
    <3>4. PICK set : set = first(i)
      OBVIOUS
    <3>5. Cardinality({2 * round - 1 : round \in set}) = n
      BY <3>1, <3>2, <3>3, <3>4, CountFirsts
    <3> QED
      BY <1>6, <3>4, <3>5
  <2> QED
    BY <1>5, <1>9, <2>2
<1>10. CASE Samples % 2 = 1
  <2>1. PICK m \in Nat : m = Samples \div 2 /\ Samples = 2 * m + 1 /\ (Samples + 1) \div 2 = m + 1
    BY <1>10, RunAssumption
  <2>2. PICK x \in {1, 2}, y \in {1, 2} :
          x # y /\ orders[Samples][1] = Arms[x] /\ orders[Samples][1] # Arms[y]
    <3>1. Samples \in 1..Samples
      BY RunAssumption
    <3> QED
      BY <1>2, <3>1, RunAssumption DEF Shuffles
  <2>3. Cardinality(FirstOf(Arms[x])) = m + 1
    <3>1. Samples \in first(x) /\ Samples + 1 \notin first(x)
      BY <1>8, <2>1, <2>2 DEF first
    <3>2. \A block \in 1..(m + 1) : \/ 2 * block - 1 \in first(x) /\ 2 * block \notin first(x)
                                    \/ 2 * block - 1 \notin first(x) /\ 2 * block \in first(x)
      <4> SUFFICES ASSUME NEW block \in 1..(m + 1)
                   PROVE  \/ 2 * block - 1 \in first(x) /\ 2 * block \notin first(x)
                          \/ 2 * block - 1 \notin first(x) /\ 2 * block \in first(x)
        OBVIOUS
      <4>1. CASE block \in 1..m
        BY <1>7, <2>1, <4>1
      <4>2. CASE block = m + 1
        <5>1. 2 * block - 1 = Samples /\ 2 * block = Samples + 1
          BY <2>1, <4>2
        <5> QED
          BY <3>1, <5>1
      <4> QED
        BY <4>1, <4>2
    <3>3. \A round \in first(x) : round \in 1..Samples /\ (round + 1) \div 2 <= m + 1
      BY <1>8, <2>1
    <3>4. PICK set : set = first(x)
      OBVIOUS
    <3>5. m + 1 \in Nat /\ m + 1 <= (Samples + 1) \div 2 /\ Samples \in Nat
      BY <2>1
    <3>6. Cardinality({2 * round - 1 : round \in set}) = m + 1
      BY <3>2, <3>3, <3>4, <3>5, CountFirsts
    <3> QED
      BY <1>6, <3>4, <3>6
  <2>4. Cardinality(FirstOf(Arms[y])) = m
    <3>1. \A round \in first(y) : round \in 1..Samples /\ round # Samples
      BY <1>8, <2>2
    <3>2. \A round \in first(y) : round \in 1..Samples /\ (round + 1) \div 2 <= m
      BY <2>1, <3>1
    <3>3. \A block \in 1..m : \/ 2 * block - 1 \in first(y) /\ 2 * block \notin first(y)
                              \/ 2 * block - 1 \notin first(y) /\ 2 * block \in first(y)
      BY <1>7, <2>1
    <3>4. PICK set : set = first(y)
      OBVIOUS
    <3>5. m <= (Samples + 1) \div 2 /\ Samples \in Nat
      BY <2>1
    <3>6. Cardinality({2 * round - 1 : round \in set}) = m
      BY <3>2, <3>3, <3>4, <3>5, CountFirsts
    <3> QED
      BY <1>6, <3>4, <3>6
  <2>5. Cardinality(FirstOf(Arms[1])) - Cardinality(FirstOf(Arms[2])) \in {-1, 1}
    BY <2>2, <2>3, <2>4
  <2> QED
    BY <1>5, <1>10, <2>5
<1> QED
  BY <1>9, <1>10, RunAssumption

(* A published comparison has one valid sample of each arm in every round, and    *)
(* the arms went first equally often but for an incomplete block                  *)
(* (paired_round_orders, the check before paired_ratio_comparison).               *)
THEOREM ComparisonIsPaired == Spec => []ComparisonPaired
<1>1. Init => Pairing
  BY RunAssumption DEF Init, Pairing, Later, Before
<1>2. Pairing => ComparisonPaired
  BY ArmsTookTurns DEF ComparisonPaired
<1> QED
  BY <1>1, <1>2, PairingStep, InductiveInvariant, PTL DEF Spec
================================================================================
