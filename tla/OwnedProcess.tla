------------------------------ MODULE OwnedProcess -----------------------------
(* OwnedProcess of the Linux harness (harness.py): the process group of one       *)
(* benchmark launch, captured at spawn and taken down by cleanup().               *)
(*                                                                                *)
(* The kernel is external: processes fork, exit, are reaped, and their PIDs go    *)
(* to strangers. A PID is not reused while a process has it or belongs to the     *)
(* group it names. Every /proc read and every signal of the harness is a step of  *)
(* its own, so the kernel may act between a check and the signal it guards.       *)
EXTENDS Integers, FiniteSets

CONSTANTS PIDs,       \* process ids of the machine
          Leader,     \* the PID Popen returned; also the launched process group
          None,
          MaxBirths   \* bound: processes ever started

ASSUME OwnerAssumption ==
  /\ Leader \in PIDs /\ None \notin Nat /\ None \notin PIDs
  /\ MaxBirths \in Nat \ {0}

VARIABLES
  procs,    \* by PID: state, start_ticks (the generation), group, launched by us
  births,   \* processes started so far; the next start_ticks
  owner,    \* the OwnedProcess object and the locals of cleanup()
  listed,   \* history: the generations _process_group_members ever listed
  hits      \* the signals that reached a process: [how, born, mine]

vars == <<procs, births, owner, listed, hits>>

Free == [st |-> "free", born |-> 0, group |-> None, mine |-> FALSE]
Proc(born, group, mine) == [st |-> "alive", born |-> born, group |-> group, mine |-> mine]

Init ==
  /\ procs = [p \in PIDs |-> IF p = Leader THEN Proc(1, Leader, TRUE) ELSE Free]
  /\ births = 1
  /\ owner = [pc |-> "capture", identity |-> None, reaped |-> FALSE, reapedEarly |-> FALSE,
              unread |-> {}, todo |-> {}, member |-> None, fd |-> None,
              descriptors |-> {}, mark |-> 0]
  /\ listed = {} /\ hits = {}
--------------------------------------------------------------------------------
Alive(p) == procs[p].st = "alive"
Unused(p) == procs[p].st = "free" /\ \A q \in PIDs : procs[q].st # "free" => procs[q].group # p

Starts(p, proc) ==
  /\ births < MaxBirths /\ Unused(p)
  /\ procs' = [procs EXCEPT ![p] = proc]
  /\ births' = births + 1
  /\ UNCHANGED <<owner, listed, hits>>

(* A process forks within its group; a stranger starts a group of its own.       *)
Fork == \E parent, p \in PIDs :
          /\ Alive(parent)
          /\ Starts(p, Proc(births + 1, procs[parent].group, procs[parent].mine))
NewGroup == \E p \in PIDs : Starts(p, Proc(births + 1, p, FALSE))
Exit == \E p \in PIDs :
          /\ Alive(p)
          /\ procs' = [procs EXCEPT ![p].st = "zombie"]
          /\ UNCHANGED <<births, owner, listed, hits>>

(* Everyone but the harness reaps its children in its own time.                  *)
HarnessChild(p) == p = Leader /\ procs[p].born = 1
Reaped == \E p \in PIDs :
            /\ procs[p].st = "zombie" /\ ~HarnessChild(p)
            /\ procs' = [procs EXCEPT ![p] = Free]
            /\ UNCHANGED <<births, owner, listed, hits>>

Kernel == Fork \/ NewGroup \/ Exit \/ Reaped
--------------------------------------------------------------------------------
(* _proc_identity: the start ticks behind a PID; a zombie has none.              *)
ProcIdentity(p) == IF Alive(p) THEN procs[p].born ELSE None

LeaderExited == procs[Leader].st = "zombie" /\ HarnessChild(Leader)
Goes(o) == owner' = o
ReadOnly == UNCHANGED <<procs, births, listed, hits>>

(* poll() or wait() collects the exit status, and the PID is free again.         *)
Collect == procs' = [procs EXCEPT ![Leader] = Free]

Hit(how, ps) == hits' = hits \cup
  {[how |-> how, born |-> procs[p].born, mine |-> procs[p].mine] : p \in ps}
Killed(ps) == [p \in PIDs |-> IF p \in ps THEN [procs[p] EXCEPT !.st = "zombie"] ELSE procs[p]]

(* __init__: capture the leader's generation; one that has already exited is     *)
(* reaped and not owned; a /proc entry that cannot be read, or a missing         *)
(* pidfd_open, raises.                                                           *)
Capture ==
  /\ owner.pc = "capture"
  /\ \/ /\ Alive(Leader)
        /\ Goes([owner EXCEPT !.pc = "measuring", !.identity = ProcIdentity(Leader)])
        /\ UNCHANGED procs
     \/ /\ LeaderExited
        /\ Goes([owner EXCEPT !.pc = "measuring", !.reaped = TRUE])
        /\ Collect
     \/ /\ Alive(Leader)
        /\ Goes([owner EXCEPT !.pc = "raised"])
        /\ UNCHANGED procs
  /\ UNCHANGED <<births, listed, hits>>

(* The attempt polls the process while it waits: an exit is collected long       *)
(* before cleanup() runs.                                                        *)
Poll ==
  /\ owner.pc = "measuring" /\ ~owner.reaped /\ LeaderExited
  /\ Goes([owner EXCEPT !.reaped = TRUE, !.reapedEarly = TRUE])
  /\ Collect
  /\ UNCHANGED <<births, listed, hits>>

(* cleanup(): signal the owned group, or go straight to what is left of it.      *)
BeginCleanup ==
  /\ owner.pc = "measuring"
  /\ Goes([owner EXCEPT !.pc = IF owner.identity # None THEN "term check" ELSE "list"])
  /\ ReadOnly

(* _signal_group: the leader's PID must not have gone to another process.        *)
CheckLeader(from, to) ==
  /\ owner.pc = from
  /\ Goes([owner EXCEPT !.pc = IF ProcIdentity(Leader) \notin {None, owner.identity}
                               THEN "raised" ELSE to])
  /\ ReadOnly

Group == {p \in PIDs : Alive(p) /\ procs[p].group = Leader}

(* killpg; SIGTERM may be ignored, SIGKILL is not.                               *)
SignalTerm ==
  /\ owner.pc = "term send"
  /\ Hit("group", Group)
  /\ Goes([owner EXCEPT !.pc = "term wait"])
  /\ UNCHANGED <<procs, births, listed>>
SignalKill ==
  /\ owner.pc = "kill send"
  /\ Hit("group", Group)
  /\ procs' = Killed(Group)
  /\ Goes([owner EXCEPT !.pc = "kill wait"])
  /\ UNCHANGED <<births, listed>>

(* process.wait(timeout=2): the exit status, or the timeout; a status collected  *)
(* earlier is there at once.                                                     *)
WaitLeader_Patient(from, onTimeout) ==
  /\ owner.pc = from
  /\ \/ /\ owner.reaped /\ Goes([owner EXCEPT !.pc = "list"]) /\ UNCHANGED procs
     \/ /\ ~owner.reaped /\ LeaderExited
        /\ Collect /\ Goes([owner EXCEPT !.pc = "list", !.reaped = TRUE])
  /\ UNCHANGED <<births, listed, hits>>
WaitLeader_ThenKill(from, onTimeout) ==
  /\ owner.pc = from
  /\ \/ /\ owner.reaped /\ Goes([owner EXCEPT !.pc = onTimeout]) /\ UNCHANGED procs
     \/ /\ ~owner.reaped /\ LeaderExited
        /\ Collect /\ Goes([owner EXCEPT !.pc = onTimeout, !.reaped = TRUE])
  /\ UNCHANGED <<births, listed, hits>>
WaitLeader(from, onTimeout) ==
  /\ owner.pc = from
  /\ \/ /\ owner.reaped /\ Goes([owner EXCEPT !.pc = "list"]) /\ UNCHANGED procs
     \/ /\ ~owner.reaped /\ LeaderExited
        /\ Collect /\ Goes([owner EXCEPT !.pc = "list", !.reaped = TRUE])
     \/ /\ ~owner.reaped /\ Goes([owner EXCEPT !.pc = onTimeout]) /\ UNCHANGED procs
  /\ UNCHANGED <<births, listed, hits>>

(* _process_group_members reads /proc one PID at a time: a process may fork past *)
(* the scan. _terminate_remaining_members scans for the members to go, and again *)
(* for survivors once it has dealt with them.                                    *)
Scan(from, to) ==
  /\ owner.pc = from
  /\ Goes([owner EXCEPT !.pc = to, !.unread = PIDs, !.todo = {},
                        !.mark = IF from = "list" THEN births ELSE @])
  /\ ReadOnly
ReadEntry(at) ==
  /\ owner.pc = at
  /\ \E p \in owner.unread :
       LET found == IF p \in Group THEN {[pid |-> p, born |-> procs[p].born]} ELSE {}
       IN /\ Goes([owner EXCEPT !.unread = @ \ {p}, !.todo = @ \cup found])
          /\ listed' = listed \cup {m.born : m \in found}
  /\ UNCHANGED <<procs, births, hits>>

(* The members to go, if any.                                                    *)
List ==
  /\ owner.pc = "listing" /\ owner.unread = {}
  /\ Goes([owner EXCEPT !.pc = IF owner.todo = {} THEN "done" ELSE "open"])
  /\ ReadOnly

(* pidfd_open binds whatever generation the PID has now; a free PID is skipped.  *)
OpenMember ==
  /\ owner.pc = "open"
  /\ \/ /\ owner.todo = {} /\ Goes([owner EXCEPT !.pc = "members wait"])
     \/ \E m \in owner.todo :
          Goes(IF procs[m.pid].st = "free" THEN [owner EXCEPT !.todo = @ \ {m}]
               ELSE [owner EXCEPT !.pc = "member check", !.todo = @ \ {m}, !.member = m,
                                  !.fd = procs[m.pid].born])
  /\ ReadOnly

(* The generation is compared after the descriptor is bound.                     *)
CheckMember_Skipped ==
  /\ owner.pc = "member check"
  /\ Goes([owner EXCEPT !.pc = "member send"])
  /\ ReadOnly
CheckMember ==
  /\ owner.pc = "member check"
  /\ LET current == ProcIdentity(owner.member.pid) IN
     Goes(IF current = owner.member.born THEN [owner EXCEPT !.pc = "member send"]
          ELSE [owner EXCEPT !.pc = IF current = None THEN "open" ELSE "raised",
                             !.member = None, !.fd = None])
  /\ ReadOnly

Behind(fds) == {p \in PIDs : Alive(p) /\ procs[p].born \in fds}
SendMember ==
  /\ owner.pc = "member send"
  /\ Hit("member", Behind({owner.fd}))
  /\ Goes([owner EXCEPT !.pc = "open", !.descriptors = @ \cup {owner.fd},
                        !.member = None, !.fd = None])
  /\ UNCHANGED <<procs, births, listed>>

(* The selector loops: wait for the descriptors, kill those that did not exit.   *)
WaitMembers ==
  /\ owner.pc = "members wait"
  /\ LET left == Behind(owner.descriptors) IN Hit("member", left) /\ procs' = Killed(left)
  /\ Goes([owner EXCEPT !.pc = "survivors", !.descriptors = {}, !.mark = births])
  /\ UNCHANGED <<births, listed>>

(* What is still in the group, forked since the listing, fails the cleanup.      *)
CheckSurvivors_Trusting ==
  owner.pc = "checking" /\ Goes([owner EXCEPT !.pc = "done"]) /\ ReadOnly
CheckSurvivors ==
  /\ owner.pc = "checking" /\ owner.unread = {}
  /\ Goes([owner EXCEPT !.pc = IF owner.todo = {} THEN "done" ELSE "raised"])
  /\ ReadOnly

Cleanup == \/ CheckLeader("term check", "term send") \/ SignalTerm
           \/ WaitLeader("term wait", "kill check")
           \/ CheckLeader("kill check", "kill send") \/ SignalKill
           \/ WaitLeader("kill wait", "raised")
           \/ Scan("list", "listing") \/ ReadEntry("listing") \/ List
           \/ OpenMember \/ CheckMember \/ SendMember \/ WaitMembers
           \/ Scan("survivors", "checking") \/ ReadEntry("checking") \/ CheckSurvivors

Next == Capture \/ Poll \/ BeginCleanup \/ Cleanup \/ Kernel

(* The harness thread runs and its waits are bounded; processes owe nothing.     *)
Spec == Init /\ [][Next]_vars /\ WF_vars(Capture \/ BeginCleanup \/ Cleanup)
--------------------------------------------------------------------------------
(* killpg reaches only what was launched, as long as the leader was not collected *)
(* before cleanup began: until then its PID cannot name another group, however    *)
(* the kernel interleaves with the check and the signal.                          *)
GroupSignalOwn == \A h \in hits : h.how = "group" => h.mine \/ owner.reapedEarly

(* A member is signalled only in the generation that was listed: a PID that went  *)
(* to a stranger between listing, pidfd_open and the signal is never hit.         *)
MembersAsListed == \A h \in hits : h.how = "member" => h.born \in listed

(* A cleanup that returns has left no launched process in the group, not even one *)
(* forked while it was at work: what may be left was forked past the last scan.    *)
(* (`mark` counts the processes born when the wait for the members ended, or, if   *)
(* there were none, when the only scan began.)                                     *)
CleanGroup ==
  owner.pc = "done" => \A p \in Group : procs[p].mine => procs[p].born > owner.mark

(* cleanup() comes to an end, whatever ignores its signals.                       *)
CleanupEnds == owner.pc = "term check" ~> owner.pc \in {"done", "raised"}

(* What the README says of the group signal: it is bound to the spawned          *)
(* generation.                                                                   *)
GroupSignalBound == \A h \in hits : h.how = "group" => h.mine
================================================================================
