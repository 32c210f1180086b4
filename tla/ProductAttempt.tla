---------------------------- MODULE ProductAttempt -----------------------------
(* One product sample of the Linux harness (harness.py): `keld dev` is launched,  *)
(* its descendants are counted in /proc, its window is closed natively, and what  *)
(* does not end by itself is killed by captured generations.                      *)
(*                                                                                *)
(* The kernel is external: processes fork and exit, orphans go to init (parent    *)
(* 0), and a free PID goes to anybody. A process that is not the harness's child  *)
(* is reaped as it exits; a zombie is as invisible to the harness as no process.  *)
(* /proc is read one entry at a time, in ascending order of PID.                  *)
EXTENDS MemoryWindow, FiniteSets

CONSTANTS PIDs,          \* the process ids of the machine, positive integers
          Cli,           \* the PID Popen returned for `keld dev`
          Others,        \* by PID: the parent of a process that ran before the launch
          HelperClasses, \* the process classes a descendant of the CLI may have
          Needed,        \* the classes a complete census has besides CLI and host
          Levels,        \* the resident memory (main, total) a snapshot may show, in KiB
          Kinds,         \* the metrics sampled: "paint", "memory"
          None,
          MaxBirths      \* bound: processes ever started

ASSUME AttemptAssumption ==
  /\ PIDs \subseteq Nat \ {0} /\ IsFiniteSet(PIDs) /\ Cli \in PIDs
  /\ DOMAIN Others \subseteq PIDs \ {Cli}
  /\ \A p \in DOMAIN Others : Others[p] \in {0} \cup DOMAIN Others
  /\ None \notin Nat /\ Kinds \subseteq {"paint", "memory"}
  /\ Levels \subseteq [main : Nat, total : Nat] /\ MaxBirths \in Nat

VARIABLES
  procs,     \* by PID: generation, parent, class, exit code, launched by us
  births,    \* processes started so far; the next generation
  att,       \* the attempt: its place, its locals, the running census
  captured,  \* the identities cleanup is bound to
  steady,    \* history: the generations in the tree since the running census began
  seen       \* history: those steady throughout the census before the close, as
             \* long as the sample may still count

vars == <<procs, births, att, captured, steady, seen>>

Free == [born |-> 0, parent |-> 0, class |-> None, code |-> None, mine |-> FALSE]
Running(born, parent, class, mine) ==
  [born |-> born, parent |-> parent, class |-> class, code |-> None, mine |-> mine]
NoCensus == [use |-> None, left |-> {}, records |-> <<>>, counting |-> {}]

Init ==
  /\ procs = [p \in PIDs |->
       IF p = Cli THEN Running(1, 0, "keld-cli", TRUE)
       ELSE IF p \in DOMAIN Others THEN Running(1 + p, Others[p], "other", FALSE)
       ELSE Free]
  /\ births = 1 + Max(PIDs)
  /\ \E kind \in Kinds :
       att = [pc |-> "launched", kind |-> kind, root |-> None, reaped |-> FALSE,
              code |-> None, value |-> FALSE, closed |-> FALSE, normal |-> FALSE,
              raising |-> FALSE, finally |-> FALSE,
              todo |-> {}, target |-> None, fd |-> 0, signal |-> None,
              history |-> <<>>, census |-> NoCensus]
  /\ captured = {} /\ steady = {} /\ seen = {}
--------------------------------------------------------------------------------
Present(p) == procs[p].born # 0
Alive(p) == Present(p) /\ procs[p].code = None
HarnessChild(p) == p = Cli /\ procs[p].born = 1

(* The descendants of the CLI in a parent relation: the least set that has the   *)
(* CLI and every child of its members.                                           *)
Descendants(parents) ==
  {p \in DOMAIN parents :
     \A S \in SUBSET DOMAIN parents :
       Cli \in S /\ (\A q \in DOMAIN parents : parents[q] \in S => q \in S) => p \in S}

LiveIn(ps) == {p \in PIDs : ps[p].born # 0 /\ ps[p].code = None}
TreeOf(ps) == IF Cli \notin LiveIn(ps) THEN {}
              ELSE {ps[p].born : p \in Descendants([q \in LiveIn(ps) |-> ps[q].parent])}

(* A kernel step; who left the tree is no longer steady.                         *)
Kernel(ps) ==
  /\ procs' = ps
  /\ steady' = steady \cap TreeOf(ps)
  /\ UNCHANGED <<att, captured, seen>>

Gone(ps, p) == [q \in PIDs |->
  IF q = p THEN Free ELSE IF ps[q].parent = p THEN [ps[q] EXCEPT !.parent = 0] ELSE ps[q]]
Ended(ps, p, code) ==
  IF HarnessChild(p) THEN [Gone(ps, p) EXCEPT ![p] = [ps[p] EXCEPT !.code = code]]
  ELSE Gone(ps, p)

Start(p, parent, class, mine) ==
  /\ births < MaxBirths /\ ~Present(p)
  /\ births' = births + 1
  /\ Kernel([procs EXCEPT ![p] = Running(births + 1, parent, class, mine)])

(* What was launched forks; strangers come as daemons, besides those of Others.  *)
Fork == \E parent, p \in PIDs :
          /\ Alive(parent) /\ procs[parent].mine
          /\ \E class \in HelperClasses : Start(p, parent, class, TRUE)
Stranger == \E p \in PIDs : Start(p, 0, "other", FALSE)
Exit == \E p \in PIDs :
          /\ Alive(p)
          /\ \E code \in {0, 1} : (code = 1 => HarnessChild(p)) /\ Kernel(Ended(procs, p, code))
          /\ UNCHANGED births
KernelStep == Fork \/ Stranger \/ Exit
--------------------------------------------------------------------------------
At(pc) == att.pc = pc
Goes(a) == att' = a
Only(pc) == Goes([att EXCEPT !.pc = pc])
Bookkeeping == UNCHANGED <<births, captured, steady, seen>>
ReadOnly == UNCHANGED procs /\ Bookkeeping

(* _proc_identity: a zombie has none.                                            *)
ProcIdentity(p) == IF Alive(p) THEN procs[p].born ELSE None
GenerationAlive(i) == ProcIdentity(i.pid) = i.born
Survivors_CliOnly == {i \in captured : i.pid = Cli /\ GenerationAlive(i)}
Survivors == {i \in captured : GenerationAlive(i)}

(* An exception leaves the try block; one in the finally block leaves the attempt. *)
Raise(a) == IF a.finally THEN [a EXCEPT !.pc = "raised"]
            ELSE [a EXCEPT !.pc = "finally", !.raising = TRUE, !.value = FALSE]

(* process.poll(): collects the exit status of a CLI that has exited.            *)
CliExited == ~att.reaped /\ procs[Cli].code # None
Collected(a) == [a EXCEPT !.reaped = TRUE, !.code = procs[Cli].code]
Poll(exited, running) ==
  \/ att.reaped /\ Goes([att EXCEPT !.pc = exited]) /\ UNCHANGED procs
  \/ /\ CliExited /\ Goes([Collected(att) EXCEPT !.pc = exited])
     /\ procs' = [procs EXCEPT ![Cli] = Free]
  \/ ~att.reaped /\ ~CliExited /\ Goes([att EXCEPT !.pc = running]) /\ UNCHANGED procs

(* Popen is followed by a read of the CLI's generation: cleanup is bound to it.  *)
Launch ==
  /\ At("launched")
  /\ IF Alive(Cli)
     THEN /\ Goes([att EXCEPT !.pc = "waiting", !.root = procs[Cli].born])
          /\ captured' = {[pid |-> Cli, born |-> procs[Cli].born]}
     ELSE Only("verdict") /\ UNCHANGED captured
  /\ UNCHANGED <<procs, births, steady, seen>>

(* The wait ends with a valid beacon, with the exit of the CLI, or without either. *)
AwaitBeacon ==
  /\ At("waiting")
  /\ \/ \E accepted \in BOOLEAN :
          /\ Goes([att EXCEPT !.value = accepted /\ att.kind = "paint",
                              !.pc = IF att.kind = "paint" THEN "paint census"
                                     ELSE IF accepted THEN "memory poll" ELSE "finish"])
          /\ UNCHANGED procs
     \/ /\ CliExited
        /\ Goes([Collected(att) EXCEPT !.pc = IF att.kind = "paint" THEN "paint census"
                                              ELSE "finish"])
        /\ procs' = [procs EXCEPT ![Cli] = Free]
  /\ Bookkeeping

(* The memory loop polls, measures, and asks whether the deadline has passed.    *)
MemoryPoll == At("memory poll") /\ Poll("finish", "memory census") /\ Bookkeeping
ProtocolError == At("memory poll") /\ Only("finish") /\ ReadOnly
MemoryAgain == At("memory again") /\ Only("memory poll") /\ ReadOnly
DeadlinePassed == At("memory again") /\ Only("finish") /\ ReadOnly
--------------------------------------------------------------------------------
(* _product_process_records: the CLI's entry, every entry of /proc, the closure  *)
(* of what was read. The caller goes on with the members, or with none.          *)
Ids(found) == {[pid |-> m.pid, born |-> m.born] : m \in found}
Count(found, class) == Cardinality({m \in found : m.class = class})
CompleteTree(found) ==
  /\ Count(found, "keld-cli") = 1 /\ Count(found, "keld-host") = 1
  /\ \A class \in Needed : Count(found, class) >= 1

Keeps == {"paint census", "finish", "force census"}
AfterCensus(use, found) ==
  CASE use = "paint census" ->
         [att EXCEPT !.pc = "finish", !.census = NoCensus,
                     !.value = @ /\ CompleteTree(found) /\ Count(found, "webkit") >= 1]
    [] use = "memory census" ->
         IF found = {} THEN [att EXCEPT !.pc = "memory again", !.census = NoCensus]
         ELSE [att EXCEPT !.pc = "count", !.census.counting = found]
    [] use = "finish" -> [att EXCEPT !.pc = "close poll", !.census = NoCensus, !.history = <<>>]
    [] use = "force census" -> [att EXCEPT !.pc = "terminate", !.census = NoCensus]

BeginCensus(use) ==
  /\ At(use)
  /\ LET root == ProcIdentity(Cli) IN
     /\ Goes(IF root = None THEN AfterCensus(use, {})
             ELSE IF root # att.root THEN Raise(att)
             ELSE [att EXCEPT !.pc = "scan",
                              !.census = [NoCensus EXCEPT !.use = use, !.left = PIDs]])
     /\ steady' = IF root = att.root THEN TreeOf(procs) ELSE {}
  /\ UNCHANGED <<procs, births, captured, seen>>

ReadEntry ==
  /\ At("scan") /\ att.census.left # {}
  /\ LET p == Min(att.census.left)
         records == att.census.records
         entry == [born |-> procs[p].born, parent |-> procs[p].parent, class |-> procs[p].class]
         longer == [q \in DOMAIN records \cup {p} |-> IF q = p THEN entry ELSE records[q]]
     IN Goes([att EXCEPT !.census.left = @ \ {p},
                         !.census.records = IF Alive(p) THEN longer ELSE records])
  /\ ReadOnly

Members_Direct(records) ==
  {[pid |-> p, born |-> records[p].born, class |-> records[p].class] :
     p \in {q \in DOMAIN records : q = Cli \/ records[q].parent = Cli}}
Members(records) == LET parents == [p \in DOMAIN records |-> records[p].parent] IN
  {[pid |-> p, born |-> records[p].born, class |-> records[p].class] : p \in Descendants(parents)}

EndCensus ==
  /\ At("scan") /\ att.census.left = {}
  /\ LET records == att.census.records
         found == IF Cli \in DOMAIN records THEN Members(records) ELSE {}
         keeps == att.census.use \in Keeps /\ found # {}
     IN /\ Goes(AfterCensus(att.census.use, found))
        /\ captured' = captured \cup (IF keeps THEN Ids(found) ELSE {})
        /\ seen' = IF att.census.use = "finish" /\ att.value THEN steady ELSE seen
        /\ steady' = {}
  /\ UNCHANGED <<procs, births>>

(* _product_memory_counters: the generation is compared before and after the     *)
(* counters are read (one step: it can only change once).                        *)
CountMember ==
  /\ At("count") /\ att.census.counting # {}
  /\ \E m \in att.census.counting :
       /\ \A n \in att.census.counting : m.pid <= n.pid
       /\ LET current == ProcIdentity(m.pid) IN
          Goes(IF current = m.born THEN [att EXCEPT !.census.counting = @ \ {m}]
               ELSE IF current = None
                    THEN [att EXCEPT !.pc = "memory again", !.census = NoCensus]
                    ELSE Raise([att EXCEPT !.census = NoCensus]))
  /\ ReadOnly

(* A complete tree is captured and shown to the window; an incomplete one is no  *)
(* observation and leaves the window as it is.                                   *)
ObserveTree ==
  /\ At("count") /\ att.census.counting = {}
  /\ LET found == Members(att.census.records) IN
     IF ~CompleteTree(found)
     THEN Goes([att EXCEPT !.pc = "memory again", !.census = NoCensus])
          /\ UNCHANGED captured
     ELSE /\ \E level \in Levels :
               LET window == Observe(att.history,
                     [members |-> found, engines |-> Count(found, "webkit"),
                      main |-> level.main, total |-> level.total])
               IN Goes([att EXCEPT !.pc = IF window.accepted THEN "finish" ELSE "memory again",
                                   !.value = window.accepted,
                                   !.history = window.history, !.census = NoCensus])
          /\ captured' = captured \cup Ids(found)
  /\ UNCHANGED <<procs, births, steady, seen>>
--------------------------------------------------------------------------------
(* _product_finish_lifecycle: a native close if the CLI still runs, its exit,    *)
(* and who of the captured is left.                                              *)
ClosePoll == At("close poll") /\ Poll("judge", "native close") /\ Bookkeeping

(* _product_native_close: a census of its own finds the one host, whose window is *)
(* asked to close. The request is sent, or not; a stuck window tool raises.       *)
NativeClose ==
  /\ At("native close")
  /\ \/ Goes([att EXCEPT !.pc = "wait exit", !.closed = TRUE])
     \/ Only("judge")
     \/ Goes(Raise(att))
  /\ seen' = IF att'.closed THEN seen ELSE {}
  /\ UNCHANGED <<procs, births, captured, steady>>

(* process.wait(timeout=...): the exit of the CLI, or the timeout.               *)
Wait(from, to) == At(from) /\ Poll(to, to) /\ Bookkeeping
WaitExit == Wait("wait exit", "judge")
JudgePoll == At("judge") /\ Poll("survivors", "survivors") /\ Bookkeeping

Judge ==
  /\ At("survivors")
  /\ \E stage_clean \in BOOLEAN :
       LET normal == att.closed /\ att.code = 0 /\ Survivors = {} /\ stage_clean IN
       Goes([att EXCEPT !.normal = normal,
                        !.pc = IF normal THEN "verdict" ELSE "force"])
  /\ seen' = IF att'.normal THEN seen ELSE {}
  /\ UNCHANGED <<procs, births, captured, steady>>
--------------------------------------------------------------------------------
(* _product_force_cleanup: SIGTERM to the CLI, then SIGTERM and SIGKILL to every *)
(* captured generation that is left, then SIGKILL to the CLI.                    *)
BeginForce == At("force") /\ Poll("term", "force census") /\ Bookkeeping
Terminate == Wait("terminate", "term")

Target(sig) ==
  /\ At(sig)
  /\ Goes([att EXCEPT !.signal = sig, !.todo = Survivors,
                      !.pc = IF Survivors = {} THEN "kill poll" ELSE "open"])
  /\ ReadOnly

(* pidfd_open binds whatever generation has the PID now.                         *)
Open ==
  /\ At("open")
  /\ \/ /\ att.todo = {}
        /\ Goes([att EXCEPT !.pc = IF att.signal = "term" THEN "kill" ELSE "kill poll"])
     \/ \E i \in att.todo :
          Goes(IF Present(i.pid)
               THEN [att EXCEPT !.pc = "check", !.target = i, !.fd = procs[i.pid].born]
               ELSE [att EXCEPT !.todo = @ \ {i}])
  /\ ReadOnly

(* The generation is compared after the descriptor is bound.                     *)
Check_Skipped ==
  At("check") /\ Only("send") /\ ReadOnly
Check ==
  /\ At("check")
  /\ Goes(IF GenerationAlive(att.target) THEN [att EXCEPT !.pc = "send"]
          ELSE [att EXCEPT !.pc = "open", !.todo = @ \ {att.target}, !.target = None, !.fd = 0])
  /\ ReadOnly

(* pidfd_send_signal: SIGTERM may be ignored, and a process that has gone since  *)
(* raises ProcessLookupError.                                                    *)
Send ==
  /\ At("send")
  /\ LET behind == {p \in PIDs : procs[p].born = att.fd}
         done == [att EXCEPT !.pc = "open", !.todo = @ \ {att.target},
                             !.target = None, !.fd = 0]
     IN IF behind = {}
        THEN Goes(Raise([done EXCEPT !.todo = {}])) /\ UNCHANGED <<procs, steady>>
        ELSE \E p \in behind :
               /\ Goes(done)
               /\ procs' = IF att.signal = "kill" /\ Alive(p) THEN Ended(procs, p, 1) ELSE procs
               /\ steady' = steady \cap TreeOf(procs')
  /\ UNCHANGED <<births, captured, seen>>

(* The last poll; a CLI that still runs is killed, and waited for at most 2 s.   *)
Forced(a) == IF a.finally THEN [a EXCEPT !.pc = IF a.raising THEN "raised" ELSE "done"]
             ELSE [a EXCEPT !.pc = "verdict"]
KillCli ==
  /\ At("kill poll")
  /\ \/ /\ att.reaped
        /\ Goes(Forced(att)) /\ UNCHANGED <<procs, steady>>
     \/ /\ CliExited
        /\ Goes(Forced(Collected(att)))
        /\ procs' = [procs EXCEPT ![Cli] = Free] /\ UNCHANGED steady
     \/ /\ ~att.reaped /\ Alive(Cli)
        /\ procs' = Ended(procs, Cli, 1) /\ steady' = {}
        /\ Only("kill poll")
     \/ /\ ~att.reaped /\ Alive(Cli)
        /\ Goes(Raise(att)) /\ UNCHANGED <<procs, steady>>
  /\ UNCHANGED <<births, captured, seen>>
--------------------------------------------------------------------------------
(* A value survives only with the ready marker and a normal lifecycle.           *)
Verdict ==
  /\ At("verdict")
  /\ \E ready \in BOOLEAN :
       Goes([att EXCEPT !.pc = "finally", !.value = @ /\ ready /\ att.normal])
  /\ ReadOnly

(* The finally block kills what is still running, by what was captured.          *)
Finally ==
  /\ At("finally")
  /\ \/ /\ att.reaped \/ CliExited
        /\ Poll(IF att.raising THEN "raised" ELSE "done", "force")
     \/ /\ ~att.reaped /\ ~CliExited
        /\ Goes([att EXCEPT !.pc = "force", !.finally = TRUE]) /\ UNCHANGED procs
  /\ Bookkeeping

Census == \/ \E use \in Keeps \cup {"memory census"} : BeginCensus(use)
          \/ ReadEntry \/ EndCensus \/ CountMember \/ ObserveTree
Close == ClosePoll \/ NativeClose \/ WaitExit \/ JudgePoll \/ Judge
Cleanup == BeginForce \/ Terminate \/ Target("term") \/ Target("kill") \/ Open \/ Check \/ Send
           \/ KillCli
Harness == \/ Launch \/ AwaitBeacon \/ MemoryPoll \/ ProtocolError \/ MemoryAgain
           \/ DeadlinePassed \/ Census \/ Close \/ Cleanup \/ Verdict \/ Finally

Next == Harness \/ KernelStep

Spec == Init /\ [][Next]_vars
--------------------------------------------------------------------------------
(* The window behind a memory value holds no process that was not launched, in   *)
(* any of its snapshots: a stranger taken for a descendant because its parent's  *)
(* PID was reused during one scan is gone from the next, and restarts the window. *)
NoStrangerMeasured ==
  att.value /\ att.kind = "memory" =>
    \A i \in DOMAIN att.history, p \in PIDs :
      Present(p) /\ ~procs[p].mine => procs[p].born \notin {m.born : m \in att.history[i].members}

(* Whoever is in the tree from the first to the last entry of a scan is found,   *)
(* whatever forks, exits and reuses PIDs around it, however deep it sits.        *)
CensusComplete ==
  At("scan") /\ att.census.left = {} =>
    steady \subseteq {m.born : m \in Members(att.census.records)}

(* A sample that counts left nothing behind: its CLI exited with 0 after a native *)
(* close, no captured generation is alive, and no process either that was in the  *)
(* tree throughout the census that precedes the close; what may be left was       *)
(* forked, or left the tree, after that census had begun.                         *)
ValidMeansGone ==
  At("done") /\ att.value =>
    /\ att.closed /\ att.code = 0 /\ Survivors = {}
    /\ \A p \in PIDs : Alive(p) => procs[p].born \notin seen

(* A forced cleanup signals a process only in a captured generation: a PID that  *)
(* went to a stranger between the census, pidfd_open and the signal is not hit.  *)
SignalsAsCaptured ==
  At("send") => [pid |-> att.target.pid, born |-> att.fd] \in captured
================================================================================
