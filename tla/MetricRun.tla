------------------------------- MODULE MetricRun -------------------------------
(* One `run` of the Linux harness (run.py, run_metric and its product variants in *)
(* harness.py): checks, provenance, the opening thermal boundary, priming, the    *)
(* samples of one arm or of two arms paired by round, the closing boundary, the   *)
(* comparison, and an immutable result file.                                      *)
(*                                                                                *)
(* An attempt (PaintAttempt, ProductAttempt) is a step: a sample, valid or        *)
(* rejected, or an exception. The machine around it is external: CPUs throttle    *)
(* and their counters restart, sensors come and go, another run uses the name.    *)
EXTENDS ThermalBoundary, Sequences, FiniteSets

CONSTANTS Arms,        \* the two arms of a paired run; the first is the baseline
          Samples,     \* args.samples: the requested rounds
          Minimum,     \* samples the policy requires (the harness: 30)
          Problems,    \* by step: the publication problems it may note
          Counters,    \* the CPU throttle counters of the machine
          None,
          MaxThrottles, MaxRestarts  \* bounds: events of the counters

ASSUME RunAssumption ==
  /\ Arms = <<Arms[1], Arms[2]>> /\ Arms[1] # Arms[2]
  /\ DOMAIN Problems = {"git", "environment", "arms"}
  /\ Samples \in Nat \ {0, 1} /\ Minimum \in Nat /\ Counters # {}
  /\ MaxThrottles \in Nat /\ MaxRestarts \in Nat
  /\ None \notin {"other", "partial", "result"}

VARIABLES
  world,   \* the counters, and history: throttles and restarts in the session
  run,     \* the locals of run_metric
  out      \* the file under the result's name

vars == <<world, run, out>>

Init ==
  /\ world = [count |-> [c \in Counters |-> 1], throttled |-> {}, restarts |-> 0]
  /\ \E paired \in BOOLEAN :
       run = [pc |-> "checks", paired |-> paired, problems |-> {}, start |-> None,
              read |-> {}, state |-> "unverified", primed |-> 0, orders |-> <<>>,
              samples |-> <<>>, compared |-> FALSE, exit |-> None]
  /\ out \in {None, "other"}

At(pc) == run.pc = pc
Goes(r) == run' = r
Then(pc) == Goes([run EXCEPT !.pc = pc])
Quiet == UNCHANGED <<world, out>>
Exit(r, code) == [r EXCEPT !.pc = "exited", !.exit = code]

(* HarnessError, OSError and ValueError end run.py with 2, before any result.     *)
Fails == Goes(Exit(run, 2)) /\ Quiet
--------------------------------------------------------------------------------
(* The machine while the session is open, and whoever else uses the name.        *)
Throttle == \E c \in Counters :
  /\ world.count[c] <= MaxThrottles
  /\ world' = [world EXCEPT !.count[c] = @ + 1, !.throttled = @ \cup {c}]
Restart ==
  /\ world.restarts < MaxRestarts
  /\ \E c \in Counters : world' = [world EXCEPT !.count[c] = 0, !.restarts = @ + 1]
Machine == At("samples") /\ (Throttle \/ Restart) /\ UNCHANGED <<run, out>>
OtherWrites == out = None /\ out' = "other" /\ UNCHANGED <<world, run>>

(* What a boundary shows: the counters that can be read, how hot the package is, *)
(* and the GPU: none, one that cannot be queried, one at speed or slowed down.    *)
(* Bound: at most one source is out of the ordinary.                             *)
Readable == {Counters} \X {1} \X {None, "mute", "fast", "slow"}
            \cup (SUBSET Counters) \X {1} \X {"fast"} \cup {Counters} \X {2} \X {"fast"}
Reading(readable, heat, gpu) ==
  Snapshot([c \in readable |-> world.count[c]],
           [p \in {"package"} |-> [current |-> heat, critical |-> 2]], gpu # None,
           [g \in IF gpu \in {"fast", "slow"} THEN {0} ELSE {} |->
              [sw |-> gpu = "slow", hw |-> FALSE]])
Readings == {Reading(r[1], r[2], r[3]) : r \in Readable}
--------------------------------------------------------------------------------
(* The arguments, and the name of the result: an existing file is refused.        *)
Check ==
  /\ At("checks")
  /\ \/ out = None /\ Then("artifacts") /\ Quiet
     \/ Fails

(* The Keld artifact and its provenance: anything inconsistent fails.             *)
ReadArtifacts == At("artifacts") /\ (Then("git") \/ Goes(Exit(run, 2))) /\ Quiet

(* What stands in the way of publication is kept and not fatal.                   *)
Notes(step, next) ==
  /\ At(step)
  /\ \E found \in SUBSET Problems[step] :
       Goes([run EXCEPT !.pc = next, !.problems = @ \cup found])
  /\ Quiet
GitState == Notes("git", "environment") \/ (At("git") /\ Fails)
Environment == Notes("environment", "arms") \/ (At("environment") /\ Fails)

(* The payload, and the artifact and engine of the other arm.                     *)
ConfigureArms == Notes("arms", "open") \/ (At("arms") /\ Fails)

OpenSession ==
  /\ At("open")
  /\ \E s \in Readings, state \in {"fresh-process", "warm-cache"} :
       Goes([run EXCEPT !.pc = IF state = "warm-cache" THEN "priming" ELSE "orders",
                        !.start = s])
  /\ Quiet

(* warm-cache: one discarded launch of every arm, which must be valid.           *)
ArmIds == IF run.paired THEN Arms ELSE SubSeq(Arms, 2, 2)
Prime ==
  /\ At("priming")
  /\ \/ /\ Goes([run EXCEPT !.primed = (@ + 1) % Len(ArmIds),
                           !.pc = IF run.primed + 1 = Len(ArmIds) THEN "orders" ELSE @])
        /\ Quiet
     \/ Fails

(* paired_round_orders: each block of two rounds is a shuffle and its reverse.    *)
Shuffles == {Arms, <<Arms[2], Arms[1]>>}
PairedRoundOrders_Unreversed(shuffled) ==
  [round \in 1..Samples |-> shuffled[(round + 1) \div 2]]
PairedRoundOrders(shuffled) ==
  [round \in 1..Samples |->
     LET first == shuffled[(round + 1) \div 2] IN
     IF round % 2 = 1 THEN first ELSE <<first[2], first[1]>>]
DrawOrders ==
  /\ At("orders")
  /\ \E shuffled \in [1..((Samples + 1) \div 2) -> Shuffles] :
       Goes([run EXCEPT !.pc = "samples",
               !.orders = IF run.paired THEN PairedRoundOrders(shuffled)
                          ELSE [round \in 1..Samples |-> ArmIds]])
  /\ Quiet

(* One attempt; a rejected sample is kept, an exception loses them all.           *)
TakeSample ==
  /\ At("samples") /\ Len(run.samples) < Samples * Len(ArmIds)
  /\ \/ LET round == (Len(run.samples) \div Len(ArmIds)) + 1
            position == (Len(run.samples) % Len(ArmIds)) + 1
        IN \E valid \in BOOLEAN :
             /\ Goes([run EXCEPT !.samples = Append(@,
                   [arm |-> run.orders[round][position], run |-> round,
                    position |-> position, valid |-> valid])])
             /\ Quiet
     \/ Fails

CloseSession ==
  /\ At("samples") /\ Len(run.samples) = Samples * Len(ArmIds)
  /\ \E s \in Readings :
       Goes([run EXCEPT !.pc = "compare", !.start = None,
                        !.read = DOMAIN run.start.counters,
                        !.state = ThermalState(run.start, s)])
  /\ Quiet
--------------------------------------------------------------------------------
SamplesOf(r, arm) == {i \in DOMAIN r.samples : r.samples[i].arm = arm}
ValidOf(r, arm) == {i \in SamplesOf(r, arm) : r.samples[i].valid}
AllValid == \A i \in DOMAIN ArmIds : Cardinality(ValidOf(run, ArmIds[i])) = Samples
RoundsOf(r, arm) == {r.samples[i].run : i \in SamplesOf(r, arm)}

(* paired_ratio_comparison: only for two arms, each valid in every round; it     *)
(* fails on a value that is not positive.                                        *)
Compare ==
  /\ At("compare")
  /\ \/ ~(run.paired /\ AllValid) /\ Then("publish") /\ Quiet
     \/ /\ run.paired /\ AllValid /\ RoundsOf(run, Arms[1]) = RoundsOf(run, Arms[2])
        /\ Goes([run EXCEPT !.pc = "publish", !.compared = TRUE]) /\ Quiet
     \/ run.paired /\ AllValid /\ Fails

(* _publication_reasons: every metric of this harness has a scope of its own     *)
(* that bars it from a score.                                                    *)
Reasons ==
  run.problems \cup ThermalReason(run.state)
  \cup {code \in {"INVALID_SAMPLES", "SAMPLES_BELOW_POLICY", "NO_PAIRED_ARM", "SCOPE"} :
          \/ code = "INVALID_SAMPLES" /\ ~AllValid
          \/ code = "SAMPLES_BELOW_POLICY" /\ Samples < Minimum
          \/ code = "NO_PAIRED_ARM" /\ ~run.paired
          \/ code = "SCOPE"}

(* The document is validated and the file created, never replaced.               *)
Publish_Replacing ==
  At("publish") /\ out' = "partial" /\ Then("dump") /\ UNCHANGED world
Publish ==
  /\ At("publish")
  /\ \/ out = None /\ out' = "partial" /\ Then("dump") /\ UNCHANGED world
     \/ Fails

(* The dump may fail half-way: the file stays as it is.                          *)
Dump ==
  /\ At("dump")
  /\ \/ /\ out' = "result"
        /\ \E publish \in BOOLEAN :
             Goes(Exit(run, IF ~AllValid THEN 2
                            ELSE IF publish /\ Reasons # {} THEN 3 ELSE 0))
        /\ UNCHANGED world
     \/ Fails

Harness == Check \/ ReadArtifacts \/ GitState \/ Environment \/ ConfigureArms
           \/ OpenSession \/ Prime \/ DrawOrders \/ TakeSample \/ CloseSession \/ Compare \/ Publish \/ Dump
Next == Harness \/ Machine \/ OtherWrites
Spec == Init /\ [][Next]_vars
--------------------------------------------------------------------------------
Published == out = "result"

(* A published comparison rests on one valid sample of each arm in every round,   *)
(* none of a priming launch, and each arm went first equally often, give or take  *)
(* the one round of an incomplete block.                                         *)
FirstOf(arm) == {i \in SamplesOf(run, arm) : run.samples[i].position = 1}
ComparisonPaired ==
  Published /\ run.compared =>
    /\ \A i \in {1, 2}, round \in 1..Samples :
         \E s \in ValidOf(run, Arms[i]) :
           SamplesOf(run, Arms[i]) \cap {t \in DOMAIN run.samples : run.samples[t].run = round} = {s}
    /\ Cardinality(FirstOf(Arms[1])) - Cardinality(FirstOf(Arms[2]))
         \in {-(Samples % 2), Samples % 2}

(* A result says "nominal" only if no counter that both boundaries could read     *)
(* throttled in the session, as long as no counter restarted meanwhile.           *)
NominalMeansCool ==
  Published /\ run.state = "nominal" =>
    world.throttled \cap run.read = {} \/ world.restarts > 0

(* The name is checked long before it is used: whatever is created there in       *)
(* between, by whomever, is never changed, and a result only completes the file    *)
(* this run created.                                                             *)
ResultImmutable ==
  [][out # None => out' = out \/ (out = "partial" /\ At("dump") /\ out' = "result")]_vars
================================================================================
