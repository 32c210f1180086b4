----------------------------- MODULE PaintAttempt ------------------------------
(* One cold-paint sample of the Linux harness: _paint_attempt of harness.py, the  *)
(* runner thread that spawns the program under test and waits for its beacon, and *)
(* the BeaconServer whose handler threads answer its requests at the same time.   *)
(*                                                                                *)
(* A handler takes the state lock for each of its sections; between them, and     *)
(* between the lock and accepted.set(), the runner may do anything. Handler       *)
(* threads are daemons: they outlive close(). The program under test is external: *)
(* it loads the page, sends beacons good and bad, and exits when it likes.        *)
EXTENDS Integers, Sequences

CONSTANTS Timeout,      \* seconds a sample may take, in ticks
          BadKinds,     \* requests the server rejects, by its reason for it
          Unset,        \* no value, no reason, not accepted
          MaxRequests,  \* bound: requests of one attempt
          LastSpawn,    \* bound: the program is spawned by this time
          MaxTime       \* bound: the clock stops here

ASSUME AttemptAssumption ==
  /\ Timeout \in Nat \ {0}
  /\ BadKinds \subseteq {"host_mismatch", "path_nonce_mismatch", "malformed_query",
                         "query_nonce_mismatch", "wrong_phase", "document_not_visible",
                         "document_not_focused", "unexpected_query"}
  /\ MaxRequests \in Nat /\ LastSpawn \in Nat /\ MaxTime \in Nat

VARIABLES
  now,       \* time.monotonic, counted from before the spawn
  state,     \* _BeaconState: what the handler threads share with the runner
  handlers,  \* the handler threads, one per request, in order of arrival
  serving,   \* the server still accepts connections
  child,     \* the program under test: "none", "alive", "exited", "killed"
  runner,    \* _paint_attempt: where it stands and its local variables
  sample     \* what it returned: value and reject_reason

paintVars == <<now, state, handlers, serving, child, runner, sample>>

PaintInit ==
  /\ now = 0
  /\ state = [accepted_ns |-> Unset, accepted |-> FALSE, page_requests |-> 0,
              beacon_requests |-> 0, rejections |-> <<>>, protocol_error |-> Unset]
  /\ handlers = <<>>
  /\ serving = TRUE
  /\ child = "none"
  /\ runner = [pc |-> "spawn", accepted |-> FALSE, exited |-> FALSE, timedOut |-> FALSE,
               owned |-> FALSE, failed |-> FALSE, deadline |-> 0,
               value |-> Unset, reason |-> Unset]
  /\ sample = Unset
--------------------------------------------------------------------------------
(* The page is loaded, and beacons are sent, by the program under test; a good   *)
(* beacon needs the nonce that the page carries.                                 *)
Request ==
  /\ serving /\ child = "alive"
  /\ Len(handlers) < MaxRequests
  /\ \E kind \in {"page", "good"} \cup BadKinds :
       /\ kind = "good" => state.page_requests > 0
       /\ handlers' = Append(handlers, [kind |-> kind, pc |-> "new"])
  /\ UNCHANGED <<now, state, serving, child, runner, sample>>

Moves(h, pc) == handlers' = [handlers EXCEPT ![h].pc = pc]
At(h, pc) == handlers[h].pc = pc

(* do_GET: a wrong Host is rejected before anything is counted; a page and a     *)
(* beacon request are counted under the lock.                                    *)
Count(h) ==
  /\ At(h, "new")
  /\ CASE handlers[h].kind = "host_mismatch" -> Moves(h, "reject") /\ UNCHANGED state
       [] handlers[h].kind = "page" ->
            state' = [state EXCEPT !.page_requests = @ + 1] /\ Moves(h, "done")
       [] OTHER ->
            /\ state' = [state EXCEPT !.beacon_requests = @ + 1]
            /\ Moves(h, IF handlers[h].kind = "good" THEN "accept" ELSE "reject")
  /\ UNCHANGED <<now, serving, child, runner, sample>>

(* _reject: the reason is recorded under the lock.                               *)
Reject(h) ==
  /\ At(h, "reject")
  /\ state' = [state EXCEPT !.rejections = Append(@, handlers[h].kind)]
  /\ Moves(h, "done")
  /\ UNCHANGED <<now, serving, child, runner, sample>>

(* The first good beacon is timed, any later one is a protocol error.            *)
Accept_Last(h) ==
  /\ At(h, "accept")
  /\ state' = [state EXCEPT !.accepted_ns = now]
  /\ Moves(h, "signal")
  /\ UNCHANGED <<now, serving, child, runner, sample>>
Accept(h) ==
  /\ At(h, "accept")
  /\ IF state.accepted_ns # Unset
     THEN state' = [state EXCEPT !.protocol_error = "duplicate_beacon"] /\ Moves(h, "done")
     ELSE state' = [state EXCEPT !.accepted_ns = now] /\ Moves(h, "signal")
  /\ UNCHANGED <<now, serving, child, runner, sample>>

(* accepted.set(), outside the lock.                                             *)
Signal(h) ==
  /\ At(h, "signal")
  /\ state' = [state EXCEPT !.accepted = TRUE]
  /\ Moves(h, "done")
  /\ UNCHANGED <<now, serving, child, runner, sample>>

Handler(h) == Count(h) \/ Reject(h) \/ Accept(h) \/ Signal(h)
--------------------------------------------------------------------------------
RunnerIs(r) == runner' = r
RunnerOnly == UNCHANGED <<now, state, handlers, serving, child, sample>>

(* Popen and OwnedProcess: the spawn may fail, and so may taking ownership of a   *)
(* process that already runs.                                                     *)
Spawn ==
  /\ runner.pc = "spawn"
  /\ \/ /\ RunnerIs([runner EXCEPT !.pc = "loop", !.owned = TRUE, !.deadline = now + Timeout])
        /\ child' = "alive"
     \/ RunnerIs([runner EXCEPT !.pc = "cleanup", !.failed = TRUE]) /\ child' \in {"none", "alive"}
  /\ UNCHANGED <<now, state, handlers, serving, sample>>

(* The top of the wait loop.                                                     *)
CheckDeadline_Forgotten ==
  runner.pc = "loop" /\ RunnerIs([runner EXCEPT !.pc = "waiting"]) /\ RunnerOnly
CheckDeadline ==
  /\ runner.pc = "loop"
  /\ RunnerIs(IF now >= runner.deadline THEN [runner EXCEPT !.pc = "judge", !.timedOut = TRUE]
              ELSE [runner EXCEPT !.pc = "waiting"])
  /\ RunnerOnly

(* wait_for_beacon returns true, or false after its slice; then poll the child.  *)
Waited ==
  /\ runner.pc = "waiting"
  /\ RunnerIs(IF state.accepted THEN [runner EXCEPT !.pc = "judge", !.accepted = TRUE]
              ELSE IF child = "exited" THEN [runner EXCEPT !.pc = "judge", !.exited = TRUE]
              ELSE [runner EXCEPT !.pc = "loop"])
  /\ RunnerOnly

(* snapshot(), one view under the lock, and the verdict on it.                   *)
Rejected(reason) == [runner EXCEPT !.pc = "cleanup", !.reason = reason]
Judge_AnyBeacon ==
  /\ runner.pc = "judge"
  /\ RunnerIs(IF state.accepted_ns # Unset /\ state.protocol_error = Unset
              THEN [runner EXCEPT !.pc = "cleanup", !.value = state.accepted_ns]
              ELSE Rejected("beacon_timeout"))
  /\ RunnerOnly
Judge ==
  /\ runner.pc = "judge"
  /\ RunnerIs(IF runner.accepted /\ state.accepted_ns # Unset /\ state.protocol_error = Unset
              THEN [runner EXCEPT !.pc = "cleanup", !.value = state.accepted_ns]
              ELSE IF state.protocol_error # Unset THEN Rejected(state.protocol_error)
              ELSE IF runner.exited THEN Rejected("process_exited")
              ELSE IF state.rejections # <<>> THEN Rejected(state.rejections[Len(state.rejections)])
              ELSE Rejected("beacon_timeout"))
  /\ RunnerOnly

(* The finally clause, in which an owned process, or one nobody owns yet, is     *)
(* killed. Owned cleanup may raise; the server is closed all the same.           *)
EndChild_OwnedOnly ==
  /\ runner.pc = "cleanup"
  /\ child' = IF runner.owned /\ child = "alive" THEN "killed" ELSE child
  /\ RunnerIs([runner EXCEPT !.pc = "close"])
  /\ UNCHANGED <<now, state, handlers, serving, sample>>
EndChild ==
  /\ runner.pc = "cleanup"
  /\ \/ /\ child' = IF child = "alive" THEN "killed" ELSE child
        /\ RunnerIs([runner EXCEPT !.pc = "close"])
     \/ /\ runner.owned /\ child' = child
        /\ RunnerIs([runner EXCEPT !.pc = "close", !.failed = TRUE])
  /\ UNCHANGED <<now, state, handlers, serving, sample>>

(* close() raises if the server thread does not stop in time.                    *)
CloseServer ==
  /\ runner.pc = "close"
  /\ serving' = FALSE
  /\ \/ ~runner.failed /\ RunnerIs([runner EXCEPT !.pc = "report"])
     \/ RunnerIs([runner EXCEPT !.pc = "raised"])
  /\ UNCHANGED <<now, state, handlers, child, sample>>

(* The last snapshot() only feeds the diagnostics.                               *)
Return ==
  /\ runner.pc = "report"
  /\ sample' = [value |-> runner.value, reject_reason |-> runner.reason,
                beacon_requests |-> state.beacon_requests]
  /\ RunnerIs([runner EXCEPT !.pc = "returned"])
  /\ UNCHANGED <<now, state, handlers, serving, child>>

Runner == Spawn \/ CheckDeadline \/ Waited \/ Judge \/ EndChild \/ CloseServer \/ Return

ChildExits == /\ child = "alive" /\ child' = "exited"
              /\ UNCHANGED <<now, state, handlers, serving, runner, sample>>
Tick == /\ now < (IF runner.pc = "spawn" THEN LastSpawn ELSE MaxTime)
        /\ now' = now + 1
        /\ UNCHANGED <<state, handlers, serving, child, runner, sample>>

PaintNext == \/ Runner
             \/ Request
             \/ \E h \in 1..Len(handlers) : Handler(h)
             \/ ChildExits
             \/ Tick

(* The runner thread is scheduled and time passes; the program under test and    *)
(* the handler threads may stall for good.                                       *)
Fairness == WF_paintVars(Runner) /\ WF_paintVars(Tick)
PaintSpec == PaintInit /\ [][PaintNext]_paintVars /\ Fairness
--------------------------------------------------------------------------------
(* The score is the time of the first good beacon, and stays so: a later beacon, *)
(* handled by another thread while the runner judges, cleans up or reports, does *)
(* not move it.                                                                  *)
ScoreIsFirstBeacon ==
  runner.value # Unset => runner.value = state.accepted_ns

(* A timeout can only fail a run: an attempt whose wait ran out has no value,    *)
(* though its beacon came between the last look at the event and the snapshot.   *)
TimeoutOnlyFails == runner.timedOut => runner.value = Unset

(* The attempt leaves no program running, even one it never came to own, unless  *)
(* the cleanup of an owned one itself failed and said so.                        *)
NothingLeftRunning ==
  runner.pc \in {"close", "report", "returned", "raised"} /\ child = "alive"
    => runner.owned /\ runner.failed

(* The attempt ends, though the program is silent, floods the server with bad    *)
(* beacons, or never exits.                                                      *)
AttemptEnds == <>(runner.pc \in {"returned", "raised"})

(* What the harness contract says of a valid sample: duplicate and wrong beacons *)
(* reject the run.                                                               *)
BadSignalRejects ==
  runner.pc = "returned" /\ sample.value # Unset =>
    state.protocol_error = Unset /\ state.rejections = <<>>
================================================================================
