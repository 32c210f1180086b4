------------------------------- MODULE MatrixRun -------------------------------
(* The DMA-BUF correctness matrix (run_matrix.py): every key of a schedule gets a *)
(* row of the native probe, a negative control follows, then a Keld row for every *)
(* opaque key. A row that only failed to acquire its picture (or, for Keld, the   *)
(* focus) is taken again, at most MaxAttempts times.                              *)
(*                                                                                *)
(* Probe, compositor and census are external. OwnedProcess.cleanup (its own       *)
(* module) either ends the launched process or fails with HarnessError; helpers   *)
(* forked past its last scan (CleanGroup there) are not followed here. What the   *)
(* oracles reject is abstracted to one reason per oracle.                         *)
EXTENDS Integers, Sequences, FiniteSets

CONSTANTS Cells,        \* backend and style, such as [backend |-> .., style |-> ..]
          Mitigations,
          Samples,      \* repetitions of every key
          MaxAttempts,  \* per row of a key (the code: 3)
          MaxRequests,  \* bound: beacons that reach the server of a Keld row
          None

ASSUME MatrixAssumption ==
  /\ Samples \in Nat \ {0} /\ MaxAttempts \in Nat \ {0} /\ MaxRequests \in Nat
  /\ IsFiniteSet(Cells) /\ Cells # {} /\ IsFiniteSet(Mitigations) /\ Mitigations # {}
  /\ None \notin BOOLEAN /\ None \notin {"running", "ok", "failed"}

VARIABLES
  main,     \* the loops of main(): phase, schedule, attempt, the outcome
  row,      \* the locals of run_row and run_keld_row
  rows,     \* native rows, the negative control and Keld rows, in order
  probe,    \* the launched process: None, "running", or how it exited
  leaked    \* history: the rows whose process was still running when they ended

vars == <<main, row, rows, probe, leaked>>

Keys == [cell : Cells, mitigation : Mitigations, repetition : 1..Samples]
Opaque(key) == key.cell.style = "opaque"

(* matrix_schedule: in every repetition the cells are shuffled, and within a      *)
(* cell its mitigations. (The same seed gives the Keld rows the same schedule.)   *)
Shuffled(S) == {s \in [1..Cardinality(S) -> S] : \A i, j \in DOMAIN s : s[i] = s[j] => i = j}
Schedules ==
  LET M == Cardinality(Mitigations)
      perRound == M * Cardinality(Cells)
      Round(i) == ((i - 1) \div perRound) + 1
      Place(i) == (((i - 1) % perRound) \div M) + 1
      Within(i) == ((i - 1) % M) + 1
  IN {[i \in 1..(perRound * Samples) |->
         [cell |-> cells[Round(i)][Place(i)],
          mitigation |-> mitigations[Round(i)][Place(i)][Within(i)],
          repetition |-> Round(i)]] :
        cells \in [1..Samples -> Shuffled(Cells)],
        mitigations \in [1..Samples -> [1..Cardinality(Cells) -> Shuffled(Mitigations)]]}

NoRow == [pc |-> "idle", line |-> FALSE, timedOut |-> FALSE, code |-> None,
          capture |-> "none", members |-> FALSE, requests |-> <<>>, accepted |-> FALSE,
          exited |-> FALSE, cleaned |-> FALSE]

Init ==
  /\ \E schedule \in Schedules :
       main = [phase |-> "checks", todo |-> schedule, schedule |-> schedule,
               attempt |-> 1, census |-> {}, complete |-> None, exit |-> None]
  /\ row = NoRow /\ rows = <<>> /\ probe = None /\ leaked = {}

At(pc) == row.pc = pc
Goes(r) == row' = r
Then(pc) == Goes([row EXCEPT !.pc = pc])
Native == main.phase \in {"native", "negative"}
Elsewhere == UNCHANGED <<main, rows, leaked>>

(* An exception in a row is not caught: the program ends with a traceback, the   *)
(* process is left as it is, and there is no manifest.                           *)
Raises ==
  /\ main' = [main EXCEPT !.phase = "raised", !.exit = 1]
  /\ row' = NoRow /\ UNCHANGED <<rows, probe, leaked>>
--------------------------------------------------------------------------------
ProbeExits ==
  /\ probe = "running"
  /\ probe' \in {"ok", "failed"}
  /\ UNCHANGED <<main, row, rows, leaked>>

(* Arguments, provenance, clean recipe, verified private copies: or exit code 2.  *)
Prepare ==
  /\ main.phase = "checks"
  /\ \/ main' = [main EXCEPT !.phase = "native"]
     \/ main' = [main EXCEPT !.phase = "refused", !.exit = 2]
  /\ UNCHANGED <<row, rows, probe, leaked>>

(* Popen, then OwnedProcess: it captures the group. Either may raise.            *)
Launch ==
  /\ At("idle") /\ main.phase \in {"native", "negative", "keld"}
  /\ main.todo # <<>>
  /\ \/ probe' = "running" /\ Goes([NoRow EXCEPT !.pc = "await"]) /\ Elsewhere
     \/ /\ probe' \in {None, "running"}
        /\ main' = [main EXCEPT !.phase = "raised", !.exit = 1] /\ UNCHANGED <<row, rows, leaked>>

(* run_row waits for one line of stdout: the line, its end, or the timeout.      *)
AwaitReceipt ==
  /\ At("await") /\ Native
  /\ \/ Goes([row EXCEPT !.pc = "capture", !.line = TRUE])
     \/ probe # "running" /\ Goes([row EXCEPT !.pc = "exit"])
     \/ probe = "running" /\ Goes([row EXCEPT !.pc = "exit", !.timedOut = TRUE])
  /\ UNCHANGED probe /\ Elsewhere

(* The group is read and the compositor captured while the probe runs, up to     *)
(* twelve times, until a picture shows the window. Then the probe is released.   *)
Pictures == {"pass", "wrong", "no marker"}
Captures == Pictures \cup {"failed"}
Capture ==
  /\ At("capture")
  /\ \/ /\ probe = "running"
        /\ \E c \in Captures : Goes([row EXCEPT !.pc = "exit", !.members = TRUE, !.capture = c])
        /\ UNCHANGED probe /\ Elsewhere
     \/ probe = "running" /\ Raises
     \/ probe # "running" /\ Then("exit") /\ UNCHANGED probe /\ Elsewhere

(* wait(timeout): exit code or timeout; then the group is read again.            *)
AwaitExit ==
  /\ At("exit")
  /\ \/ /\ probe \in {"ok", "failed"}
        /\ Goes([row EXCEPT !.pc = "cleanup", !.code = probe])
        /\ UNCHANGED probe /\ Elsewhere
     \/ /\ probe = "running"
        /\ Goes([row EXCEPT !.pc = "cleanup", !.timedOut = TRUE])
        /\ UNCHANGED probe /\ Elsewhere
     \/ Raises

(* A handler thread of the row's server: the beacon of the page, one of a window  *)
(* without the focus, or one that is wrong otherwise (nonce, phase, visibility).  *)
Requests == {"good", "focus", "wrong"}
BeaconArrives ==
  /\ At("await") /\ main.phase = "keld" /\ Len(row.requests) < MaxRequests
  /\ \E kind \in Requests : Goes([row EXCEPT !.requests = Append(@, kind)])
  /\ UNCHANGED probe /\ Elsewhere

(* run_keld_row waits until a good beacon is in, its process has exited, or the   *)
(* time is over; then it takes a snapshot of the server and reads group and audit.*)
AwaitBeacon ==
  /\ At("await") /\ main.phase = "keld"
  /\ \/ /\ \E i \in DOMAIN row.requests : row.requests[i] = "good"
        /\ Goes([row EXCEPT !.pc = "cleanup", !.accepted = TRUE])
        /\ UNCHANGED probe /\ Elsewhere
     \/ /\ probe # "running"
        /\ Goes([row EXCEPT !.pc = "cleanup", !.exited = TRUE])
        /\ UNCHANGED probe /\ Elsewhere
     \/ Then("cleanup") /\ UNCHANGED probe /\ Elsewhere
     \/ Raises

Cleanup_Assumed ==
  /\ At("cleanup") /\ Goes([row EXCEPT !.pc = "judge", !.cleaned = TRUE])
  /\ probe' \in {None, probe} /\ Elsewhere
Cleanup ==
  /\ At("cleanup")
  /\ \/ probe' = None /\ Goes([row EXCEPT !.pc = "judge", !.cleaned = TRUE])
     \/ UNCHANGED probe /\ Goes([row EXCEPT !.pc = "judge"])
  /\ Elsewhere
--------------------------------------------------------------------------------
(* The reasons of run_row that the row itself decides; receipt and picture of     *)
(* the probe, and the GPU its processes hold, may be wrong besides.               *)
Always(r) ==
  {reason \in {"timeout", "exit", "cleanup", "receipt", "nvidia", "capture", "oracle"} :
     \/ reason = "timeout" /\ r.timedOut
     \/ reason = "exit" /\ r.code # "ok"
     \/ reason = "cleanup" /\ ~r.cleaned
     \/ reason = "receipt" /\ ~r.line
     \/ reason = "nvidia" /\ ~r.members
     \/ reason = "capture" /\ r.capture \in {"none", "failed"}
     \/ reason = "oracle" /\ r.capture # "pass"}
NativeReasons(r) == {Always(r) \cup more : more \in SUBSET {"receipt", "nvidia"}}

(* retryable_native_acquisition, retryable_keld_focus: exactly these reasons.     *)
RetryNative_Any(reasons, capture) == "oracle" \in reasons /\ capture # "wrong"
RetryNative(reasons, capture) ==
  \/ reasons = {"oracle"} /\ capture = "no marker"
  \/ reasons = {"capture", "oracle"} /\ capture \in {"none", "failed"}
RetryKeld(reasons) == reasons = {"beacon", "focus"}

(* The reasons of run_keld_row. Of the rejected beacons only the last one counts, *)
(* whatever came before it; audit and GPU of the processes may be wrong besides.  *)
LastRejected(r) ==
  {r.requests[i] : i \in {k \in DOMAIN r.requests :
     /\ r.requests[k] # "good"
     /\ \A j \in DOMAIN r.requests : k < j => r.requests[j] = "good"}}
Duplicate(r) == \E i, j \in DOMAIN r.requests : i < j /\ r.requests[i] = "good" /\ r.requests[j] = "good"
KeldAlways(r) ==
  {reason \in {"beacon", "protocol", "exit", "cleanup"} \cup Requests :
     \/ reason = "beacon" /\ ~r.accepted
     \/ reason = "protocol" /\ Duplicate(r)
     \/ reason \in LastRejected(r)
     \/ reason = "exit" /\ r.exited
     \/ reason = "cleanup" /\ ~r.cleaned}
KeldReasons_ExitForgotten(r) ==
  {(KeldAlways(r) \ {"exit"}) \cup more : more \in SUBSET {"audit", "nvidia"}}
KeldReasons(r) == {KeldAlways(r) \cup more : more \in SUBSET {"audit", "nvidia"}}

(* The Keld rows skip the keys that are not opaque.                               *)
FromOpaque(keys) ==
  LET opaque == {i \in DOMAIN keys : Opaque(keys[i])} IN
  IF opaque = {} THEN <<>>
  ELSE SubSeq(keys, CHOOSE i \in opaque : \A j \in opaque : i <= j, Len(keys))

(* History: what happened to a row, whatever its reasons say. It missed no more   *)
(* than its picture, or the focus: the probe ran its course, or was not seen to   *)
(* exit while it was waited for and its last bad beacon had no focus.             *)
OnlyMissed(kind, reasons) ==
  /\ row.cleaned /\ reasons \cap {"receipt", "nvidia", "audit"} = {}
  /\ IF kind = "keld" THEN ~row.accepted /\ ~row.exited /\ "focus" \in LastRejected(row)
     ELSE /\ row.line /\ ~row.timedOut /\ row.code = "ok" /\ row.members
          /\ row.capture \in {"none", "failed", "no marker"}

(* The end of a row: the loop takes it again or goes on to the next key.         *)
Ends(kind, reasons, retry) ==
  LET again == retry /\ main.attempt < MaxAttempts
      rest == IF kind = "keld" THEN FromOpaque(Tail(main.todo)) ELSE Tail(main.todo) IN
  /\ rows' = Append(rows, [kind |-> kind, key |-> main.todo[1], valid |-> reasons = {},
                           acquisition |-> OnlyMissed(kind, reasons)])
  /\ main' = IF again THEN [main EXCEPT !.attempt = @ + 1]
             ELSE [main EXCEPT !.attempt = 1, !.todo = rest]
  /\ leaked' = IF probe = "running" THEN leaked \cup {Len(rows) + 1} ELSE leaked
  /\ row' = NoRow /\ probe' = None

JudgeNative ==
  /\ At("judge") /\ main.phase = "native"
  /\ \E reasons \in NativeReasons(row) : Ends("native", reasons, RetryNative(reasons, row.capture))
(* A beacon server that does not stop raises, after the cleanup.                  *)
JudgeKeld ==
  /\ At("judge") /\ main.phase = "keld"
  /\ \/ \E reasons \in KeldReasons(row) : Ends("keld", reasons, RetryKeld(reasons))
     \/ Raises

(* The negative control is valid only if the oracle sees the black it was given   *)
(* and nothing else is wrong; the GPU of its processes is not asked for.          *)
JudgeNegative ==
  /\ At("judge") /\ main.phase = "negative"
  /\ \E reasons \in NativeReasons(row), black \in BOOLEAN :
       Ends("negative", IF reasons \ {"nvidia"} = {"oracle"} /\ row.capture = "wrong" /\ black
                        THEN {} ELSE {"not rejected"}, FALSE)

NextPhase ==
  /\ At("idle") /\ main.todo = <<>>
  /\ \/ /\ main.phase = "native"
        /\ main' = [main EXCEPT !.phase = "negative", !.todo = <<main.schedule[1]>>]
     \/ /\ main.phase = "negative"
        /\ main' = [main EXCEPT !.phase = "keld", !.todo = FromOpaque(main.schedule)]
     \/ main.phase = "keld" /\ main' = [main EXCEPT !.phase = "census"]
  /\ UNCHANGED <<row, rows, probe, leaked>>

(* collect_census, validate_census: what the machine lacks is kept as errors.     *)
TakeCensus ==
  /\ main.phase = "census"
  /\ \/ \E errors \in SUBSET {"missing"} :
          main' = [main EXCEPT !.phase = "completion", !.census = errors]
     \/ main' = [main EXCEPT !.phase = "raised", !.exit = 1]
  /\ UNCHANGED <<row, rows, probe, leaked>>

(* matrix_completion: every expected key was observed and has a valid row, the    *)
(* negative control is valid, the census has no errors, and every Keld key is     *)
(* valid once. Then the manifest and its checksums are written.                   *)
ValidKeys(kind) == {rows[i].key : i \in {j \in DOMAIN rows : rows[j].kind = kind /\ rows[j].valid}}
Observed == {rows[i].key : i \in {j \in DOMAIN rows : rows[j].kind = "native"}}
Finish ==
  /\ main.phase = "completion"
  /\ LET complete == /\ Observed = Keys /\ ValidKeys("native") = Keys
                     /\ ValidKeys("negative") # {} /\ main.census = {}
                     /\ ValidKeys("keld") = {k \in Keys : Opaque(k)}
     IN main' = [main EXCEPT !.phase = "done", !.complete = complete,
                             !.exit = IF complete THEN 0 ELSE 2]
  /\ UNCHANGED <<row, rows, probe, leaked>>

Runner == Prepare \/ Launch \/ AwaitReceipt \/ Capture \/ AwaitExit \/ AwaitBeacon \/ Cleanup
          \/ JudgeNative \/ JudgeKeld \/ JudgeNegative \/ NextPhase \/ TakeCensus
          \/ Finish
Next == Runner \/ ProbeExits \/ BeaconArrives
Spec == Init /\ [][Next]_vars
--------------------------------------------------------------------------------
(* Retries hide no failure: in a complete matrix every key was taken at most      *)
(* MaxAttempts times, its last row is valid, and all its earlier ones missed      *)
(* nothing but the picture or the focus, although completion itself only asks for *)
(* one valid row among all. No probe that was seen to exit before its beacon, or  *)
(* failed, timed out or outlived its cleanup, is retried away. A wrong beacon     *)
(* before an unfocused one may be: the code looks at the last rejection only.     *)
RowsOf(kind, key) == {i \in DOMAIN rows : rows[i].kind = kind /\ rows[i].key = key}
RetriesHideNothing ==
  main.complete = TRUE =>
    \A kind \in {"native", "keld"}, key \in Keys :
      LET taken == RowsOf(kind, key) IN
      /\ taken = {} => kind = "keld" /\ ~Opaque(key)
      /\ Cardinality(taken) <= MaxAttempts
      /\ \A i \in taken : IF \A j \in taken : j <= i THEN rows[i].valid
                           ELSE ~rows[i].valid /\ rows[i].acquisition

(* A complete matrix left no probe running behind any of its rows: a process that *)
(* outlives its cleanup rejects its row for good.                                 *)
CompleteLeavesNoProbe == main.complete = TRUE => leaked = {}
================================================================================
