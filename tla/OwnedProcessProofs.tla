--------------------------- MODULE OwnedProcessProofs --------------------------
(* Whom the signals of a cleanup reach, for any number of processes and PIDs and  *)
(* any interleaving of the harness with the kernel; and what the paint attempt,    *)
(* which calls that cleanup, promises of its sample.                              *)
EXTENDS OwnedProcess, PaintAttempt, TLAPS

Processes == [st : {"free", "alive", "zombie"}, born : Nat, group : PIDs \cup {None},
              mine : BOOLEAN]
Members == [pid : PIDs, born : Nat]
Places == {"capture", "measuring", "raised", "term check", "term send", "term wait",
           "kill check", "kill send", "kill wait", "list", "listing", "open",
           "member check", "member send", "members wait", "survivors", "checking", "done"}
Owners == [pc : Places, identity : Nat \cup {None}, reaped : BOOLEAN, reapedEarly : BOOLEAN,
           unread : SUBSET PIDs, todo : SUBSET Members, member : Members \cup {None},
           fd : Nat \cup {None}, descriptors : SUBSET (Nat \cup {None}), mark : Nat]

TypeOK ==
  /\ procs \in [PIDs -> Processes]
  /\ births \in Nat
  /\ owner \in Owners
  /\ listed \in SUBSET Nat

(* A generation is the number of a birth; what is free has none.                  *)
Generations ==
  /\ \A p \in PIDs : procs[p].born <= births
  /\ \A p \in PIDs : procs[p].st # "free" => procs[p].born # 0
  /\ \A b \in listed : b <= births
  /\ owner.mark <= births

(* Until its status is collected, the leader keeps its PID, and with it the group *)
(* to what was launched.                                                          *)
LeaderKept ==
  ~owner.reaped =>
    /\ procs[Leader].st # "free" /\ procs[Leader].born = 1
    /\ \A p \in PIDs : procs[p].st # "free" /\ procs[p].group = Leader => procs[p].mine

(* A group signal comes before the collection, or after an early one.             *)
GroupPhase == {"term check", "term send", "term wait", "kill check", "kill send"}
Early ==
  /\ owner.pc = "capture" => owner.identity = None /\ ~owner.reaped
  /\ owner.pc = "measuring" /\ owner.identity # None /\ owner.reaped => owner.reapedEarly
  /\ owner.pc \in GroupPhase /\ owner.reaped => owner.reapedEarly

(* What the member signals go by was listed; once the generation has been         *)
(* compared, the descriptor is that of the listed one.                            *)
Holding == owner.pc \in {"member check", "member send"}
Bound ==
  /\ \A m \in owner.todo : m.born \in listed
  /\ Holding => owner.member \in Members /\ owner.member.born \in listed
  /\ owner.pc = "member check" =>
       (Alive(owner.member.pid) /\ procs[owner.member.pid].born = owner.member.born
          => owner.fd = owner.member.born)
  /\ owner.pc = "member send" => owner.fd = owner.member.born
  /\ owner.descriptors \subseteq listed

(* A scan has found whoever was there when it began, as far as it has come.       *)
Scanned ==
  owner.pc \in {"listing", "checking"} =>
    \A p \in PIDs \ owner.unread :
      p \in Group /\ procs[p].born <= owner.mark
        => [pid |-> p, born |-> procs[p].born] \in owner.todo
Left == owner.pc = "done" => \A p \in Group : procs[p].born > owner.mark

IInv == /\ TypeOK /\ Generations /\ LeaderKept /\ Early /\ Bound /\ Scanned /\ Left
        /\ GroupSignalOwn /\ MembersAsListed
--------------------------------------------------------------------------------
LEMMA InitInv == Init => IInv
<1> SUFFICES ASSUME Init PROVE IInv
  OBVIOUS
<1>1. TypeOK
  <2>1. Proc(1, Leader, TRUE) \in Processes /\ Free \in Processes
    BY OwnerAssumption DEF Proc, Free, Processes
  <2> QED
    BY <2>1 DEF Init, TypeOK, Owners, Places
<1>2. Generations /\ LeaderKept
  BY OwnerAssumption DEF Init, Generations, LeaderKept, Proc, Free
<1> QED
  BY <1>1, <1>2 DEF Init, IInv, Early, GroupPhase, Bound, Holding, Scanned, Left,
     GroupSignalOwn, MembersAsListed

(* What may become of the processes in a step: one exits, is reaped, is born.     *)
Same(p) == /\ procs'[p].born = procs[p].born /\ procs'[p].group = procs[p].group
           /\ procs'[p].mine = procs[p].mine
           /\ procs'[p].st = procs[p].st \/ (Alive(p) /\ procs'[p].st = "zombie")
Born(p) == procs'[p].st = "alive" /\ procs'[p].born = births' /\ births' > births
Evolution ==
  /\ procs' \in [PIDs -> Processes] /\ births' \in Nat /\ births <= births'
  /\ \A p \in PIDs : Same(p) \/ procs'[p] = Free \/ Born(p)

LEMMA EvolutionKeepsGenerations ==
  ASSUME IInv, Evolution, UNCHANGED <<owner, listed>>
  PROVE  Generations'
<1> USE DEF IInv, TypeOK, Generations, Evolution, Same, Born, Free, Processes
<1>1. \A p \in PIDs : procs[p].born \in Nat /\ procs'[p].born \in Nat
  OBVIOUS
<1>2. ASSUME NEW p \in PIDs
      PROVE  procs'[p].born <= births' /\ (procs'[p].st # "free" => procs'[p].born # 0)
  <2>1. /\ procs[p].born \in Nat /\ procs'[p].born \in Nat /\ procs[p].born <= births
        /\ births \in Nat /\ births' \in Nat /\ births <= births'
        /\ procs[p].st # "free" => procs[p].born # 0
    BY <1>1
  <2>2. CASE Same(p)
    BY <2>1, <2>2 DEF Alive
  <2>3. CASE procs'[p] = Free
    BY <2>1, <2>3
  <2>4. CASE Born(p)
    BY <2>1, <2>4
  <2> QED
    BY <2>2, <2>3, <2>4
<1>3. owner.mark <= births' /\ \A b \in listed : b <= births'
  <2>1. owner.mark \in Nat /\ listed \subseteq Nat
    BY DEF Owners
  <2> QED
    BY <2>1
<1> QED
  BY <1>2, <1>3

LEMMA EvolutionKeepsHarness ==
  ASSUME IInv, Evolution, UNCHANGED <<owner, listed, hits>>
  PROVE  Early' /\ Bound' /\ Scanned' /\ Left' /\ GroupSignalOwn' /\ MembersAsListed'
<1>1. \A p \in PIDs : procs[p].born \in Nat /\ procs'[p].born \in Nat
  BY DEF IInv, TypeOK, Evolution, Processes
<1>2. owner.mark \in Nat /\ owner.mark <= births /\ births \in Nat /\ births' \in Nat
  BY DEF IInv, TypeOK, Owners, Generations, Evolution
<1>3. ASSUME NEW p \in PIDs, p \in Group', procs'[p].born <= owner.mark
      PROVE  p \in Group /\ procs'[p].born = procs[p].born
  BY <1>1, <1>2, <1>3 DEF Evolution, Same, Born, Group, Alive, Free
<1>4. Scanned'
  <2> SUFFICES ASSUME owner.pc \in {"listing", "checking"}, NEW p \in PIDs \ owner.unread,
                      p \in Group', procs'[p].born <= owner.mark
               PROVE  [pid |-> p, born |-> procs'[p].born] \in owner.todo
    BY DEF Scanned
  <2> QED
    BY <1>3 DEF IInv, Scanned
<1>5. Left'
  <2> SUFFICES ASSUME owner.pc = "done", NEW p \in Group'
               PROVE  procs'[p].born > owner.mark
    BY DEF Left
  <2>1. p \in PIDs
    BY DEF Group
  <2> QED
    BY <1>1, <1>2, <1>3, <2>1 DEF IInv, Left
<1>6. Bound'
  <2>1. ASSUME owner.pc = "member check", Alive(owner.member.pid)',
               procs'[owner.member.pid].born = owner.member.born
        PROVE  owner.fd = owner.member.born
    <3> DEFINE q == owner.member.pid
    <3>1. q \in PIDs /\ owner.member.born \in Nat /\ owner.member.born <= births
      BY <2>1 DEF IInv, Bound, Holding, Members, Generations
    <3>2. Same(q)
      <4>1. procs'[q].st = "alive" /\ procs'[q].born = owner.member.born
        BY <2>1 DEF Alive
      <4>2. ~Born(q) /\ procs'[q] # Free
        BY <1>2, <3>1, <4>1 DEF Born, Free, Evolution
      <4> QED
        BY <3>1, <4>2 DEF Evolution
    <3>3. Alive(q) /\ procs[q].born = owner.member.born
      BY <2>1, <3>2 DEF Same, Alive
    <3> QED
      BY <2>1, <3>3 DEF IInv, Bound
  <2> QED
    BY <2>1 DEF IInv, Bound, Holding
<1>7. Early' /\ GroupSignalOwn' /\ MembersAsListed'
  BY DEF IInv, Early, GroupSignalOwn, MembersAsListed
<1> QED
  BY <1>4, <1>5, <1>6, <1>7

LEMMA StartsInv ==
  ASSUME IInv, NEW p \in PIDs, NEW proc \in Processes, Starts(p, proc),
         proc.st = "alive", proc.born = births + 1,
         proc.group = Leader => proc.mine \/ p = Leader \/ owner.reaped
  PROVE  IInv'
<1>1. /\ procs[p].st = "free" /\ UNCHANGED <<owner, listed, hits>>
      /\ procs' = [procs EXCEPT ![p] = proc] /\ births' = births + 1
  BY DEF Starts, Unused
<1>2. procs \in [PIDs -> Processes] /\ births \in Nat
  BY DEF IInv, TypeOK
<1>3. Evolution
  BY <1>1, <1>2 DEF Evolution, Same, Born
<1>4. LeaderKept'
  BY <1>1, <1>2, OwnerAssumption DEF IInv, LeaderKept
<1>5. TypeOK'
  BY <1>1, <1>3 DEF IInv, TypeOK, Evolution
<1> QED
  BY <1>1, <1>3, <1>4, <1>5, EvolutionKeepsGenerations, EvolutionKeepsHarness DEF IInv

LEMMA KernelInv == ASSUME IInv, Kernel PROVE IInv'
<1>1. procs \in [PIDs -> Processes] /\ births \in Nat
  BY DEF IInv, TypeOK
<1>2. CASE Fork
  <2>1. PICK parent \in PIDs, p \in PIDs :
          /\ Alive(parent)
          /\ Starts(p, Proc(births + 1, procs[parent].group, procs[parent].mine))
    BY <1>2 DEF Fork
  <2> DEFINE proc == Proc(births + 1, procs[parent].group, procs[parent].mine)
  <2>2. procs[parent] \in Processes
    BY <1>1
  <2>3. /\ proc \in Processes /\ proc.st = "alive" /\ proc.born = births + 1
        /\ proc.group = procs[parent].group /\ proc.mine = procs[parent].mine
    BY <1>1, <2>2 DEF Proc, Processes
  <2>4. proc.group = Leader => proc.mine \/ owner.reaped
    BY <2>1, <2>3 DEF IInv, LeaderKept, Alive
  <2> HIDE DEF proc
  <2> QED
    BY <2>1, <2>3, <2>4, StartsInv DEF proc
<1>3. CASE NewGroup
  <2>1. PICK p \in PIDs : Starts(p, Proc(births + 1, p, FALSE))
    BY <1>3 DEF NewGroup
  <2>2. /\ Proc(births + 1, p, FALSE) \in Processes
        /\ Proc(births + 1, p, FALSE).st = "alive"
        /\ Proc(births + 1, p, FALSE).born = births + 1
        /\ Proc(births + 1, p, FALSE).group = p
    BY <1>1 DEF Proc, Processes
  <2> QED
    BY <2>1, <2>2, StartsInv
<1>4. CASE Exit \/ Reaped
  <2>1. /\ UNCHANGED <<births, owner, listed, hits>>
        /\ \E p \in PIDs :
             \/ Alive(p) /\ procs' = [procs EXCEPT ![p].st = "zombie"]
             \/ ~HarnessChild(p) /\ procs' = [procs EXCEPT ![p] = Free]
    BY <1>4 DEF Exit, Reaped
  <2>2. PICK p \in PIDs :
             \/ Alive(p) /\ procs' = [procs EXCEPT ![p] = [procs[p] EXCEPT !.st = "zombie"]]
             \/ ~HarnessChild(p) /\ procs' = [procs EXCEPT ![p] = Free]
    BY <2>1
  <2>3. procs[p] \in Processes
    BY <1>1
  <2>4. [procs[p] EXCEPT !.st = "zombie"] \in Processes /\ Free \in Processes
    BY <2>3, OwnerAssumption DEF Processes, Free
  <2>5. Evolution
    BY <1>1, <2>1, <2>2, <2>3, <2>4 DEF Evolution, Same, Processes
  <2>6. LeaderKept'
    BY <1>1, <2>1, <2>2, <2>3, OwnerAssumption
       DEF IInv, LeaderKept, HarnessChild, Free, Alive, Processes
  <2>7. TypeOK'
    BY <2>1, <2>5 DEF IInv, TypeOK, Evolution
  <2> QED
    BY <2>1, <2>5, <2>6, <2>7, EvolutionKeepsGenerations, EvolutionKeepsHarness DEF IInv
<1> QED
  BY <1>2, <1>3, <1>4 DEF Kernel

(* A step of the harness that only reads the machine.                             *)
LEMMA ReadingInv ==
  ASSUME IInv, ReadOnly,
         \/ BeginCleanup
         \/ CheckLeader("term check", "term send") \/ CheckLeader("kill check", "kill send")
         \/ Scan("list", "listing") \/ Scan("survivors", "checking")
         \/ List \/ CheckSurvivors
  PROVE  IInv'
<1>1. TypeOK' /\ owner'.mark <= births
  <2>1. owner' \in Owners /\ owner'.mark <= births
    <3>1. owner \in Owners /\ births \in Nat /\ owner.mark <= births
      BY DEF IInv, TypeOK, Generations
    <3>2. \A pc \in Places : [owner EXCEPT !.pc = pc] \in Owners
      BY <3>1 DEF Owners
    <3>3. CASE Scan("list", "listing") \/ Scan("survivors", "checking")
      <4>1. PICK pc \in Places, mark \in {owner.mark, births} :
              owner' = [owner EXCEPT !.pc = pc, !.unread = PIDs, !.todo = {}, !.mark = mark]
        BY <3>3 DEF Scan, Goes, Places
      <4>2. mark \in Nat /\ mark <= births
        <5>1. owner.mark \in Nat
          BY <3>1 DEF Owners
        <5> QED
          BY ONLY <3>1, <5>1, mark \in {owner.mark, births}
      <4> QED
        BY <3>1, <4>1, <4>2 DEF Owners
    <3>4. CASE ~(Scan("list", "listing") \/ Scan("survivors", "checking"))
      <4>1. \E pc \in Places : owner' = [owner EXCEPT !.pc = pc]
        BY <3>4 DEF BeginCleanup, CheckLeader, List, CheckSurvivors, Goes, Places
      <4> QED
        BY <3>1, <3>2, <4>1 DEF Owners
    <3> QED
      BY <3>3, <3>4
  <2> QED
    BY <2>1 DEF IInv, TypeOK, ReadOnly
<1>2. Generations'
  BY <1>1 DEF IInv, Generations, ReadOnly
<1>3. owner \in Owners
  BY DEF IInv, TypeOK
<1>4. owner'.reaped = owner.reaped /\ owner'.reapedEarly = owner.reapedEarly
  BY <1>3 DEF BeginCleanup, CheckLeader, Scan, List, CheckSurvivors, Goes, Owners
<1>5. LeaderKept' /\ GroupSignalOwn' /\ MembersAsListed'
  BY <1>4 DEF IInv, LeaderKept, GroupSignalOwn, MembersAsListed, ReadOnly
<1>6. Early'
  BY <1>3 DEF IInv, Early, GroupPhase, BeginCleanup, CheckLeader, Scan, List, CheckSurvivors,
     Goes, Owners
<1>7. Bound'
  BY <1>3 DEF IInv, Bound, Holding, BeginCleanup, CheckLeader, Scan, List, CheckSurvivors,
     ReadOnly, Goes, Owners
<1>8. Scanned'
  BY <1>3 DEF Scanned, BeginCleanup, CheckLeader, Scan, List, CheckSurvivors,
     ReadOnly, Goes, Owners
<1>9. Left'
  <2> SUFFICES ASSUME owner'.pc = "done", NEW p \in Group
               PROVE  procs[p].born > owner'.mark
    BY DEF Left, ReadOnly, Group, Alive
  <2>1. /\ owner.pc \in {"listing", "checking"} /\ owner.unread = {} /\ owner.todo = {}
        /\ owner'.mark = owner.mark
    BY <1>3 DEF BeginCleanup, CheckLeader, Scan, List, CheckSurvivors, Goes, Owners
  <2>2. p \in PIDs /\ procs[p].born \in Nat /\ owner.mark \in Nat
    BY <1>3 DEF Group, IInv, TypeOK, Processes, Owners
  <2>3. ~(procs[p].born <= owner.mark)
    <3>1. Scanned /\ p \in PIDs \ owner.unread
      BY <2>1, <2>2 DEF IInv
    <3>2. [pid |-> p, born |-> procs[p].born] \notin owner.todo
      BY <2>1
    <3> QED
      BY <2>1, <3>1, <3>2 DEF Scanned
  <2> QED
    BY ONLY <2>1, <2>2, <2>3
<1> QED
  BY <1>1, <1>2, <1>5, <1>6, <1>7, <1>8, <1>9 DEF IInv

LEMMA ReadEntryInv ==
  ASSUME IInv, NEW at \in {"listing", "checking"}, ReadEntry(at)
  PROVE  IInv'
<1> DEFINE found(p) == IF p \in Group THEN {[pid |-> p, born |-> procs[p].born]} ELSE {}
<1>1. PICK p \in owner.unread :
        /\ owner' = [owner EXCEPT !.unread = @ \ {p}, !.todo = @ \cup found(p)]
        /\ listed' = listed \cup {m.born : m \in found(p)}
  BY DEF ReadEntry, Goes
<1>2. owner.pc = at /\ UNCHANGED <<procs, births, hits>>
  BY DEF ReadEntry
<1>3. owner \in Owners /\ p \in PIDs /\ procs[p].born \in Nat /\ births \in Nat
  BY <1>1 DEF IInv, TypeOK, Owners, Processes
<1>4. found(p) \subseteq Members /\ \A m \in found(p) : m.born = procs[p].born
  BY <1>3 DEF Members
<1>5. /\ owner'.pc = at /\ owner'.reaped = owner.reaped /\ owner'.reapedEarly = owner.reapedEarly
      /\ owner'.mark = owner.mark /\ owner'.unread = owner.unread \ {p}
      /\ owner'.todo = owner.todo \cup found(p) /\ owner'.descriptors = owner.descriptors
  BY <1>1, <1>2, <1>3 DEF Owners
<1>6. listed' \subseteq Nat /\ (\A b \in listed' : b <= births) /\ listed \subseteq listed'
      /\ \A m \in found(p) : m.born \in listed'
  <2>1. procs[p].born <= births
    BY <1>3 DEF IInv, Generations
  <2> QED
    BY <1>1, <1>3, <1>4, <2>1 DEF IInv, TypeOK, Generations
<1>7. TypeOK'
  <2>1. owner' \in Owners
    <3>1. owner.unread \ {p} \in SUBSET PIDs /\ owner.todo \cup found(p) \in SUBSET Members
      BY <1>3, <1>4 DEF Owners
    <3> HIDE DEF found
    <3> QED
      BY <1>1, <1>3, <3>1 DEF Owners
  <2> QED
    BY <1>2, <1>6, <2>1 DEF IInv, TypeOK
<1> HIDE DEF found
<1>8. Generations' /\ LeaderKept' /\ GroupSignalOwn' /\ MembersAsListed'
  BY <1>2, <1>5, <1>6 DEF IInv, Generations, LeaderKept, GroupSignalOwn, MembersAsListed
<1>9. Early' /\ Left' /\ Bound'
  BY <1>2, <1>5, <1>6 DEF IInv, Early, GroupPhase, Left, Bound, Holding
<1>10. Scanned'
  <2> SUFFICES ASSUME NEW q \in PIDs \ owner'.unread, q \in Group, procs[q].born <= owner.mark
               PROVE  [pid |-> q, born |-> procs[q].born] \in owner'.todo
    BY <1>2, <1>5 DEF Scanned, Group, Alive
  <2>1. CASE q = p
    BY <1>5, <2>1 DEF found
  <2>2. CASE q # p
    BY <1>2, <1>5, <2>2 DEF IInv, Scanned
  <2> QED
    BY <2>1, <2>2
<1> QED
  BY <1>7, <1>8, <1>9, <1>10 DEF IInv

(* A step that moves the harness and at most ends or frees processes keeps what   *)
(* does not speak of where the harness is.                                        *)
LEMMA EndingKeeps ==
  ASSUME IInv, procs' \in [PIDs -> Processes], UNCHANGED <<births, listed>>,
         \A p \in PIDs : Same(p) \/ procs'[p] = Free,
         owner' \in Owners, owner'.mark <= births
  PROVE  TypeOK' /\ Generations'
<1>1. TypeOK'
  BY DEF IInv, TypeOK
<1>2. ASSUME NEW p \in PIDs
      PROVE  procs'[p].born <= births /\ (procs'[p].st # "free" => procs'[p].born # 0)
  <2>1. /\ procs[p].born \in Nat /\ births \in Nat /\ procs[p].born <= births
        /\ procs[p].st # "free" => procs[p].born # 0
    BY DEF IInv, TypeOK, Processes, Generations
  <2>2. CASE Same(p)
    BY <2>1, <2>2 DEF Same, Alive
  <2>3. CASE procs'[p] = Free
    BY <2>1, <2>3 DEF Free
  <2> QED
    BY <2>2, <2>3
<1> QED
  BY <1>1, <1>2 DEF IInv, Generations

Collecting == Poll \/ Capture \/ WaitLeader("term wait", "kill check")
                              \/ WaitLeader("kill wait", "raised")

LEMMA CollectingInv == ASSUME IInv, Collecting PROVE IInv'
<1> DEFINE freed == [procs EXCEPT ![Leader] = Free]
<1>1. /\ owner \in Owners /\ procs \in [PIDs -> Processes] /\ births \in Nat
      /\ owner.mark <= births /\ Leader \in PIDs
  BY OwnerAssumption DEF IInv, TypeOK, Generations
<1>2. freed \in [PIDs -> Processes] /\ ProcIdentity(Leader) \in Nat \cup {None}
      /\ UNCHANGED <<births, listed, hits>>
  <2>1. Free \in Processes
    BY DEF Free, Processes
  <2>2. ProcIdentity(Leader) \in Nat \cup {None}
    BY <1>1 DEF ProcIdentity, Processes
  <2> QED
    BY <1>1, <2>1, <2>2 DEF Collecting, Poll, Capture, WaitLeader
<1>3. ASSUME procs' = procs, NEW pc \in {"measuring", "raised", "kill check", "list"},
             NEW id \in Nat \cup {None}, owner' = [owner EXCEPT !.pc = pc, !.identity = id],
             pc = "measuring" => ~owner.reaped,
             pc = "kill check" /\ owner.reaped => owner.reapedEarly
      PROVE  IInv'
  <2>1. /\ owner' \in Owners /\ owner'.mark = owner.mark /\ owner'.pc = pc
        /\ owner'.reaped = owner.reaped /\ owner'.reapedEarly = owner.reapedEarly
        /\ owner'.todo = owner.todo /\ owner'.descriptors = owner.descriptors
    <3>1. pc \in Places
      BY <1>3 DEF Places
    <3> QED
      BY <1>1, <1>3, <3>1 DEF Owners
  <2>2. TypeOK' /\ Generations'
    BY <1>1, <1>2, <1>3, <2>1, EndingKeeps DEF Same
  <2>3. LeaderKept' /\ GroupSignalOwn' /\ MembersAsListed'
    BY <1>2, <1>3, <2>1 DEF IInv, LeaderKept, GroupSignalOwn, MembersAsListed
  <2>4. Early' /\ Bound' /\ Scanned' /\ Left'
    BY <1>2, <1>3, <2>1 DEF IInv, Early, GroupPhase, Bound, Holding, Scanned, Left
  <2> QED
    BY <2>2, <2>3, <2>4 DEF IInv
<1>4. ASSUME procs' = freed, NEW pc \in {"measuring", "list"}, NEW e \in BOOLEAN,
             owner' = [owner EXCEPT !.pc = pc, !.reaped = TRUE, !.reapedEarly = e],
             owner.reapedEarly => e,
             pc = "measuring" => e \/ owner.identity = None
      PROVE  IInv'
  <2>1. /\ owner' \in Owners /\ owner'.mark = owner.mark /\ owner'.pc = pc
        /\ owner'.reaped = TRUE /\ owner'.reapedEarly = e /\ owner'.identity = owner.identity
        /\ owner'.todo = owner.todo /\ owner'.descriptors = owner.descriptors
    <3>1. pc \in Places /\ TRUE \in BOOLEAN
      BY <1>4 DEF Places
    <3> QED
      BY <1>1, <1>4, <3>1 DEF Owners
  <2>2. TypeOK' /\ Generations'
    <3>1. \A p \in PIDs : Same(p) \/ procs'[p] = Free
      BY <1>1, <1>4 DEF Same
    <3> HIDE DEF freed
    <3> QED
      BY <1>1, <1>2, <1>4, <2>1, <3>1, EndingKeeps
  <2>3. LeaderKept' /\ GroupSignalOwn' /\ MembersAsListed'
    BY <1>2, <1>4, <2>1 DEF IInv, LeaderKept, GroupSignalOwn, MembersAsListed
  <2>4. Early' /\ Bound' /\ Scanned' /\ Left'
    BY <1>2, <1>4, <2>1 DEF IInv, Early, GroupPhase, Bound, Holding, Scanned, Left
  <2> QED
    BY <2>2, <2>3, <2>4 DEF IInv
<1>5. CASE Poll
  <2>1. procs' = freed /\ owner.pc = "measuring"
        /\ owner' = [owner EXCEPT !.reaped = TRUE, !.reapedEarly = TRUE]
    BY <1>5 DEF Poll, Goes, Collect
  <2>2. owner' = [owner EXCEPT !.pc = "measuring", !.reaped = TRUE, !.reapedEarly = TRUE]
    BY <1>1, <2>1 DEF Owners
  <2> QED
    BY <1>4, <2>1, <2>2
<1>6. CASE Capture
  <2>1. owner.pc = "capture" /\ owner.identity = None /\ ~owner.reaped
    BY <1>6 DEF Capture, IInv, Early
  <2>2. \/ procs' = procs /\ owner' = [owner EXCEPT !.pc = "measuring",
                                                    !.identity = ProcIdentity(Leader)]
        \/ procs' = freed /\ owner' = [owner EXCEPT !.pc = "measuring", !.reaped = TRUE]
        \/ procs' = procs /\ owner' = [owner EXCEPT !.pc = "raised"]
    BY <1>6 DEF Capture, Goes, Collect
  <2>3. owner.identity \in Nat \cup {None} /\ owner.reapedEarly \in BOOLEAN
    BY <1>1 DEF Owners
  <2>4. CASE owner' = [owner EXCEPT !.pc = "measuring", !.identity = ProcIdentity(Leader)]
             /\ procs' = procs
    BY <1>2, <1>3, <2>1, <2>4
  <2>5. CASE procs' = freed /\ owner' = [owner EXCEPT !.pc = "measuring", !.reaped = TRUE]
    <3>1. owner' = [owner EXCEPT !.pc = "measuring", !.reaped = TRUE,
                                 !.reapedEarly = owner.reapedEarly]
      BY <1>1, <2>5 DEF Owners
    <3> QED
      BY <1>4, <2>1, <2>3, <2>5, <3>1
  <2>6. CASE procs' = procs /\ owner' = [owner EXCEPT !.pc = "raised"]
    <3>1. owner' = [owner EXCEPT !.pc = "raised", !.identity = owner.identity]
      BY <1>1, <2>6 DEF Owners
    <3> QED
      BY <1>3, <2>3, <2>6, <3>1
  <2> QED
    BY <2>2, <2>4, <2>5, <2>6
<1>7. ASSUME NEW from \in {"term wait", "kill wait"}, NEW onTimeout \in {"kill check", "raised"},
             WaitLeader(from, onTimeout)
      PROVE  IInv'
  <2>1. owner.identity \in Nat \cup {None} /\ owner.reapedEarly \in BOOLEAN
    BY <1>1 DEF Owners
  <2>2. \/ procs' = procs /\ \E pc \in {"list", onTimeout} :
             owner' = [owner EXCEPT !.pc = pc] /\ (pc = "list" \/ ~owner.reaped)
        \/ procs' = freed /\ owner' = [owner EXCEPT !.pc = "list", !.reaped = TRUE]
    BY <1>7 DEF WaitLeader, Goes, Collect
  <2>3. ASSUME procs' = procs, NEW pc \in {"list", onTimeout},
               owner' = [owner EXCEPT !.pc = pc], pc = "list" \/ ~owner.reaped
        PROVE  IInv'
    <3>1. owner' = [owner EXCEPT !.pc = pc, !.identity = owner.identity]
      BY <1>1, <2>3 DEF Owners
    <3> QED
      BY <1>3, <1>7, <2>1, <2>3, <3>1
  <2>4. CASE procs' = freed /\ owner' = [owner EXCEPT !.pc = "list", !.reaped = TRUE]
    <3>1. owner' = [owner EXCEPT !.pc = "list", !.reaped = TRUE,
                                 !.reapedEarly = owner.reapedEarly]
      BY <1>1, <2>4 DEF Owners
    <3> QED
      BY <1>4, <2>1, <2>4, <3>1
  <2> QED
    BY <2>2, <2>3, <2>4
<1> QED
  BY <1>5, <1>6, <1>7 DEF Collecting

LEMMA HitOnly ==
  ASSUME NEW how, NEW ps, Hit(how, ps), NEW h \in hits'
  PROVE  h \in hits \/ (h.how = how /\ \E p \in ps : h.born = procs[p].born
                                               /\ h.mine = procs[p].mine)
BY DEF Hit

(* killpg reaches what has the leader's group, which is what was launched unless   *)
(* the leader was collected before cleanup began.                                 *)
LEMMA GroupSignalInv == ASSUME IInv, SignalTerm \/ SignalKill PROVE IInv'
<1>1. /\ owner \in Owners /\ procs \in [PIDs -> Processes] /\ births \in Nat
      /\ owner.mark <= births
  BY DEF IInv, TypeOK, Generations
<1>2. PICK pc \in {"term wait", "kill wait"} : owner' = [owner EXCEPT !.pc = pc]
  BY DEF SignalTerm, SignalKill, Goes
<1>3. /\ owner.pc \in GroupPhase /\ UNCHANGED <<births, listed>> /\ Hit("group", Group)
      /\ procs' = procs \/ procs' = Killed(Group)
  BY DEF SignalTerm, SignalKill, GroupPhase
<1>4. /\ owner' \in Owners /\ owner'.pc = pc /\ owner'.mark = owner.mark
      /\ owner'.reaped = owner.reaped /\ owner'.reapedEarly = owner.reapedEarly
      /\ owner'.todo = owner.todo /\ owner'.descriptors = owner.descriptors
  <2>1. pc \in Places
    BY DEF Places
  <2> QED
    BY <1>1, <1>2, <2>1 DEF Owners
<1>5. procs' \in [PIDs -> Processes] /\ \A p \in PIDs : Same(p)
  <2>1. Killed(Group) \in [PIDs -> Processes]
    <3>1. \A p \in PIDs : [procs[p] EXCEPT !.st = "zombie"] \in Processes
      BY <1>1 DEF Processes
    <3> QED
      BY <1>1, <3>1 DEF Killed
  <2>2. \A p \in PIDs : Killed(Group)[p] = IF p \in Group THEN [procs[p] EXCEPT !.st = "zombie"]
                                           ELSE procs[p]
    BY DEF Killed
  <2>3. \A p \in PIDs : procs[p] \in Processes /\ (p \in Group => Alive(p))
    BY <1>1 DEF Group
  <2>4. CASE procs' = procs
    BY <1>1, <2>4 DEF Same
  <2>5. CASE procs' = Killed(Group)
    <3>1. ASSUME NEW p \in PIDs PROVE Same(p)
      BY <2>2, <2>3, <2>5 DEF Same, Processes
    <3> QED
      BY <2>1, <2>5, <3>1
  <2> QED
    BY ONLY <1>3, <2>4, <2>5
<1>6. TypeOK' /\ Generations'
  <2>1. owner'.mark <= births
    BY ONLY <1>1, <1>4
  <2> QED
    BY <1>3, <1>4, <1>5, <2>1, EndingKeeps
<1>7. LeaderKept'
  <2>1. \A p \in PIDs : /\ procs'[p].st # "free" <=> procs[p].st # "free"
                        /\ procs'[p].born = procs[p].born /\ procs'[p].group = procs[p].group
                        /\ procs'[p].mine = procs[p].mine
    BY <1>5 DEF Same, Alive
  <2> QED
    BY <1>4, <2>1, OwnerAssumption DEF IInv, LeaderKept
<1>8. Early' /\ Bound' /\ Scanned' /\ Left'
  BY <1>3, <1>4 DEF IInv, Early, GroupPhase, Bound, Holding, Scanned, Left
<1>9. GroupSignalOwn'
  <2> SUFFICES ASSUME NEW h \in hits', h.how = "group", ~owner.reapedEarly PROVE h.mine
    BY <1>4 DEF GroupSignalOwn
  <2>1. \/ h \in hits
        \/ \E p \in Group : h.mine = procs[p].mine
    BY <1>3, HitOnly
  <2>2. ~owner.reaped
    BY <1>3 DEF IInv, Early
  <2>3. \A p \in Group : procs[p].mine
    BY <2>2 DEF IInv, LeaderKept, Group, Alive
  <2>4. CASE h \in hits
    BY <2>4 DEF IInv, GroupSignalOwn
  <2>5. ASSUME NEW p \in Group, h.mine = procs[p].mine PROVE h.mine
    <3>1. procs[p].mine
      BY <2>3
    <3> QED
      BY ONLY <2>5, <3>1, Zenon
  <2> QED
    BY <2>1, <2>4, <2>5
<1>10. MembersAsListed'
  <2> SUFFICES ASSUME NEW h \in hits', h.how = "member" PROVE h.born \in listed
    BY <1>3 DEF MembersAsListed
  <2>1. h \in hits \/ h.how = "group"
    BY <1>3, HitOnly
  <2>2. h \in hits
    BY <2>1
  <2> QED
    BY <2>2 DEF IInv, MembersAsListed
<1> QED
  BY <1>6, <1>7, <1>8, <1>9, <1>10 DEF IInv

(* pidfd_open binds a generation, and the comparison that follows is with it.      *)
LEMMA MemberInv == ASSUME IInv, OpenMember \/ CheckMember PROVE IInv'
<1>1. /\ owner \in Owners /\ procs \in [PIDs -> Processes] /\ births \in Nat
      /\ owner.mark <= births /\ UNCHANGED <<procs, births, listed, hits>>
  BY DEF IInv, TypeOK, Generations, OpenMember, CheckMember, ReadOnly
<1> DEFINE Kept == /\ owner'.reaped = owner.reaped /\ owner'.reapedEarly = owner.reapedEarly
                   /\ owner'.mark = owner.mark /\ owner'.descriptors = owner.descriptors
                   /\ owner'.todo \subseteq owner.todo
<1>2. ASSUME owner' \in Owners, Kept,
             owner'.pc \in {"open", "members wait", "member check", "member send", "raised"},
             Bound'
      PROVE  IInv'
  <2>1. TypeOK' /\ Generations' /\ LeaderKept' /\ GroupSignalOwn' /\ MembersAsListed'
    BY <1>1, <1>2 DEF IInv, TypeOK, Generations, LeaderKept, GroupSignalOwn, MembersAsListed
  <2>2. Early' /\ Scanned' /\ Left'
    BY <1>2 DEF Early, GroupPhase, Scanned, Left
  <2> QED
    BY <1>2, <2>1, <2>2 DEF IInv
<1>3. ASSUME NEW pc \in {"open", "members wait", "raised"}, NEW todo \in SUBSET owner.todo,
             NEW member \in Members \cup {None}, NEW fd \in Nat \cup {None},
             owner' = [owner EXCEPT !.pc = pc, !.todo = todo, !.member = member, !.fd = fd]
      PROVE  IInv'
  <2>1. owner' \in Owners /\ Kept /\ owner'.pc = pc /\ owner'.todo = todo
    <3>1. pc \in Places /\ todo \in SUBSET Members
      BY <1>1, <1>3 DEF Owners, Places
    <3> QED
      BY <1>1, <1>3, <3>1 DEF Owners
  <2>2. Bound'
    BY <1>1, <1>3, <2>1 DEF IInv, Bound, Holding
  <2> QED
    BY <1>2, <2>1, <2>2
<1>4. owner.member \in Members \cup {None} /\ owner.fd \in Nat \cup {None}
      /\ owner.todo \subseteq Members /\ None \in Members \cup {None} /\ None \in Nat \cup {None}
  BY <1>1 DEF Owners
<1>5. CASE OpenMember
  <2>1. \/ owner' = [owner EXCEPT !.pc = "members wait"]
        \/ \E m \in owner.todo :
             \/ owner.pc = "open" /\ owner' = [owner EXCEPT !.todo = @ \ {m}]
             \/ /\ procs[m.pid].st # "free"
                /\ owner' = [owner EXCEPT !.pc = "member check", !.todo = @ \ {m}, !.member = m,
                                          !.fd = procs[m.pid].born]
    BY <1>5 DEF OpenMember, Goes
  <2>2. CASE owner' = [owner EXCEPT !.pc = "members wait"]
    <3>1. owner' = [owner EXCEPT !.pc = "members wait", !.todo = owner.todo,
                                 !.member = owner.member, !.fd = owner.fd]
      BY <1>1, <2>2 DEF Owners
    <3> QED
      BY <1>3, <1>4, <3>1
  <2>3. ASSUME NEW m \in owner.todo, owner.pc = "open",
               owner' = [owner EXCEPT !.todo = @ \ {m}]
        PROVE  IInv'
    <3>1. owner' = [owner EXCEPT !.pc = "open", !.todo = owner.todo \ {m},
                                 !.member = owner.member, !.fd = owner.fd]
      BY <1>1, <2>3 DEF Owners
    <3> QED
      BY <1>3, <1>4, <3>1
  <2>4. ASSUME NEW m \in owner.todo, procs[m.pid].st # "free",
               owner' = [owner EXCEPT !.pc = "member check", !.todo = @ \ {m}, !.member = m,
                                      !.fd = procs[m.pid].born]
        PROVE  IInv'
    <3>1. m \in Members /\ m.pid \in PIDs /\ procs[m.pid].born \in Nat /\ m.born \in listed
      BY <1>1, <1>4 DEF Members, Processes, IInv, Bound
    <3>2. /\ owner' \in Owners /\ Kept /\ owner'.pc = "member check" /\ owner'.member = m
          /\ owner'.fd = procs[m.pid].born /\ owner'.todo = owner.todo \ {m}
      <4>1. "member check" \in Places /\ owner.todo \ {m} \in SUBSET Members
        BY <1>4 DEF Places
      <4> QED
        BY <1>1, <2>4, <3>1, <4>1 DEF Owners
    <3>3. Bound'
      BY <1>1, <3>1, <3>2 DEF IInv, Bound, Holding, Alive
    <3> QED
      BY <1>2, <3>2, <3>3
  <2> QED
    BY <2>1, <2>2, <2>3, <2>4
<1>6. CASE CheckMember
  <2> DEFINE current == ProcIdentity(owner.member.pid)
  <2>1. owner.pc = "member check" /\ owner.member \in Members /\ owner.member.born \in listed
        /\ owner.member.born \in Nat
    BY <1>6 DEF CheckMember, IInv, Bound, Holding, Members
  <2>2. CASE current = owner.member.born
    <3>1. owner' = [owner EXCEPT !.pc = "member send"]
      BY <1>6, <2>2 DEF CheckMember, Goes
    <3>2. /\ owner' \in Owners /\ Kept /\ owner'.pc = "member send" /\ owner'.member = owner.member
          /\ owner'.fd = owner.fd /\ owner'.todo = owner.todo
      BY <1>1, <3>1 DEF Owners, Places
    <3>3. Alive(owner.member.pid) /\ procs[owner.member.pid].born = owner.member.born
      BY <2>1, <2>2, OwnerAssumption DEF ProcIdentity
    <3>4. owner.fd = owner.member.born
      BY <2>1, <3>3 DEF IInv, Bound
    <3>5. Bound'
      BY <1>1, <2>1, <3>2, <3>4 DEF IInv, Bound, Holding
    <3> QED
      BY <1>2, <3>2, <3>5
  <2>3. CASE current # owner.member.born
    <3>1. PICK pc \in {"open", "raised"} :
            owner' = [owner EXCEPT !.pc = pc, !.member = None, !.fd = None]
      BY <1>6, <2>3 DEF CheckMember, Goes
    <3>2. owner' = [owner EXCEPT !.pc = pc, !.todo = owner.todo, !.member = None, !.fd = None]
      BY <1>1, <3>1 DEF Owners
    <3> QED
      BY <1>3, <1>4, <3>2
  <2> QED
    BY <2>2, <2>3
<1> QED
  BY <1>5, <1>6

(* What a descriptor reaches was listed, whatever has become of the PID.           *)
LEMMA MemberSignalInv == ASSUME IInv, SendMember \/ WaitMembers PROVE IInv'
<1>1. /\ owner \in Owners /\ procs \in [PIDs -> Processes] /\ births \in Nat
      /\ UNCHANGED <<births, listed>>
  BY DEF IInv, TypeOK, SendMember, WaitMembers
<1>2. PICK fds \in SUBSET listed : Hit("member", Behind(fds))
  <2>1. CASE SendMember
    <3>1. {owner.fd} \in SUBSET listed
      BY <2>1 DEF SendMember, IInv, Bound, Holding
    <3> QED
      BY <2>1, <3>1 DEF SendMember
  <2>2. CASE WaitMembers
    <3>1. owner.descriptors \in SUBSET listed
      BY DEF IInv, Bound
    <3> QED
      BY <2>2, <3>1 DEF WaitMembers
  <2> QED
    BY <2>1, <2>2
<1>3. MembersAsListed'
  <2> SUFFICES ASSUME NEW h \in hits', h.how = "member" PROVE h.born \in listed
    BY <1>1 DEF MembersAsListed
  <2>1. h \in hits \/ \E p \in Behind(fds) : h.born = procs[p].born
    BY <1>2, HitOnly
  <2>2. \A p \in Behind(fds) : procs[p].born \in listed
    BY DEF Behind
  <2> QED
    BY <2>1, <2>2 DEF IInv, MembersAsListed
<1>4. \A h \in hits' : h.how = "group" => h \in hits
  BY <1>2, HitOnly
<1>5. /\ owner' \in Owners /\ owner'.reaped = owner.reaped /\ owner'.mark <= births
      /\ owner'.reapedEarly = owner.reapedEarly /\ owner'.todo = owner.todo
      /\ owner'.descriptors \subseteq listed /\ owner'.pc \in {"open", "survivors"}
  <2>1. /\ owner.mark \in Nat /\ owner.mark <= births /\ owner.descriptors \subseteq listed
        /\ owner.descriptors \subseteq Nat \cup {None}
    BY <1>1 DEF IInv, Bound, Generations, Owners
  <2>2. CASE SendMember
    <3>1. owner.fd \in listed /\ owner.fd \in Nat \cup {None}
      BY <1>1, <2>2 DEF SendMember, IInv, Bound, Holding, Owners
    <3>2. owner' = [owner EXCEPT !.pc = "open", !.member = None, !.fd = None,
                                 !.descriptors = owner.descriptors \cup {owner.fd}]
      BY <1>1, <2>2 DEF SendMember, Goes, Owners
    <3>3. "open" \in Places /\ owner.descriptors \cup {owner.fd} \in SUBSET (Nat \cup {None})
      BY <2>1, <3>1 DEF Places
    <3>4. owner' \in Owners
      BY <1>1, <3>2, <3>3 DEF Owners
    <3> QED
      BY <1>1, <2>1, <3>1, <3>2, <3>4 DEF Owners
  <2>3. CASE WaitMembers
    <3>1. owner' = [owner EXCEPT !.pc = "survivors", !.descriptors = {}, !.mark = births]
      BY <2>3 DEF WaitMembers, Goes
    <3>2. "survivors" \in Places /\ {} \in SUBSET (Nat \cup {None})
      BY DEF Places
    <3>3. owner' \in Owners
      BY <1>1, <3>1, <3>2 DEF Owners
    <3>4. owner'.mark = births
      BY <1>1, <3>1 DEF Owners
    <3>5. owner'.mark <= births
      BY ONLY <1>1, <3>4
    <3> QED
      BY <1>1, <3>1, <3>3, <3>5 DEF Owners
  <2> QED
    BY <2>2, <2>3
<1>6. procs' \in [PIDs -> Processes] /\ \A p \in PIDs : Same(p)
  <2>1. CASE procs' = procs
    BY <1>1, <2>1 DEF Same
  <2>2. CASE procs' = Killed(Behind(owner.descriptors))
    <3> DEFINE ps == Behind(owner.descriptors)
    <3>1. \A p \in PIDs : /\ [procs[p] EXCEPT !.st = "zombie"] \in Processes
                          /\ procs[p] \in Processes /\ (p \in ps => Alive(p))
      BY <1>1 DEF Processes, Behind
    <3> HIDE DEF ps
    <3>2. procs' \in [PIDs -> Processes]
      BY <1>1, <2>2, <3>1 DEF Killed, ps
    <3>3. \A p \in PIDs : procs'[p] = IF p \in ps THEN [procs[p] EXCEPT !.st = "zombie"]
                                      ELSE procs[p]
      BY <2>2 DEF Killed, ps
    <3>4. ASSUME NEW p \in PIDs PROVE Same(p)
      BY <3>1, <3>3 DEF Same, Processes
    <3> QED
      BY <3>2, <3>4
  <2> QED
    BY <2>1, <2>2 DEF SendMember, WaitMembers
<1>7. TypeOK' /\ Generations'
  BY <1>1, <1>5, <1>6, EndingKeeps
<1>8. LeaderKept'
  <2>1. \A p \in PIDs : /\ procs'[p].st # "free" <=> procs[p].st # "free"
                        /\ procs'[p].born = procs[p].born /\ procs'[p].group = procs[p].group
                        /\ procs'[p].mine = procs[p].mine
    BY <1>6 DEF Same, Alive
  <2> QED
    BY <1>5, <2>1, OwnerAssumption DEF IInv, LeaderKept
<1>9. Early' /\ Bound' /\ Scanned' /\ Left'
  BY <1>1, <1>5 DEF IInv, Early, GroupPhase, Bound, Holding, Scanned, Left
<1>10. GroupSignalOwn'
  BY <1>4, <1>5 DEF IInv, GroupSignalOwn
<1> QED
  BY <1>3, <1>7, <1>8, <1>9, <1>10 DEF IInv
--------------------------------------------------------------------------------
LEMMA StepInv == ASSUME IInv, [Next]_vars PROVE IInv'
<1>1. CASE Capture \/ Poll
  BY <1>1, CollectingInv DEF Collecting
<1>2. CASE BeginCleanup
  BY <1>2, ReadingInv DEF BeginCleanup
<1>3. CASE Cleanup
  <2>1. CASE CheckLeader("term check", "term send") \/ CheckLeader("kill check", "kill send")
             \/ Scan("list", "listing") \/ Scan("survivors", "checking")
             \/ List \/ CheckSurvivors
    <3>1. ReadOnly
      BY <2>1 DEF CheckLeader, Scan, List, CheckSurvivors
    <3> QED
      BY <2>1, <3>1, ReadingInv
  <2>2. CASE SignalTerm \/ SignalKill
    BY <2>2, GroupSignalInv
  <2>3. CASE WaitLeader("term wait", "kill check") \/ WaitLeader("kill wait", "raised")
    BY <2>3, CollectingInv DEF Collecting
  <2>4. CASE ReadEntry("listing") \/ ReadEntry("checking")
    BY <2>4, ReadEntryInv
  <2>5. CASE OpenMember \/ CheckMember
    BY <2>5, MemberInv
  <2>6. CASE SendMember \/ WaitMembers
    BY <2>6, MemberSignalInv
  <2> QED
    BY <1>3, <2>1, <2>2, <2>3, <2>4, <2>5, <2>6 DEF Cleanup
<1>4. CASE Kernel
  BY <1>4, KernelInv
<1>5. CASE UNCHANGED vars
  BY <1>5 DEF vars, IInv, TypeOK, Generations, LeaderKept, Early, Bound, Holding, Scanned, Left,
     Group, Alive, GroupSignalOwn, MembersAsListed
<1> QED
  BY <1>1, <1>2, <1>3, <1>4, <1>5 DEF Next

(* Types, what a scan has seen, whom the descriptors and the leader's PID name.    *)
THEOREM InductiveInvariant == Spec => []IInv
<1>1. Init => IInv
  BY InitInv
<1>2. IInv /\ [Next]_vars => IInv'
  BY StepInv
<1> QED
  BY <1>1, <1>2, PTL DEF Spec

(* killpg reaches strangers only when the leader was collected before cleanup():   *)
(* no interleaving of the kernel with the check and the signal is enough.          *)
THEOREM GroupSignalsOwn == Spec => []GroupSignalOwn
<1>1. IInv => GroupSignalOwn
  BY DEF IInv
<1> QED
  BY <1>1, InductiveInvariant, PTL

(* The pidfd is bound before the generation is compared, so a PID that was reused  *)
(* at any point of the listing and signalling is skipped or refused.               *)
THEOREM MembersSignalledAsListed == Spec => []MembersAsListed
<1>1. IInv => MembersAsListed
  BY DEF IInv
<1> QED
  BY <1>1, InductiveInvariant, PTL

(* A cleanup that ends without an error has left nothing in the group that was     *)
(* there when its last scan began.                                                *)
THEOREM CleanupLeavesNothing == Spec => []CleanGroup
<1>1. IInv => CleanGroup
  BY DEF IInv, Left, CleanGroup
<1> QED
  BY <1>1, InductiveInvariant, PTL
--------------------------------------------------------------------------------
(* The paint attempt, which owns a process and has it cleaned up: what one sample  *)
(* promises, for any number of requests, any timeout and any interleaving of      *)
(* runner, handler threads and program under test.                                *)
RequestKinds == {"page", "good"} \cup BadKinds
Reasons == BadKinds \cup {"duplicate_beacon", "process_exited", "beacon_timeout"}
PaintTimes == Nat \cup {Unset}

Beacons == [accepted_ns : PaintTimes, accepted : BOOLEAN, page_requests : Nat,
            beacon_requests : Nat, rejections : Seq(RequestKinds),
            protocol_error : {Unset, "duplicate_beacon"}]
Handlers == [kind : RequestKinds, pc : {"new", "reject", "accept", "signal", "done"}]
Locals == [pc : {"spawn", "loop", "waiting", "judge", "cleanup", "close", "report",
                 "returned", "raised"},
           accepted : BOOLEAN, exited : BOOLEAN, timedOut : BOOLEAN, owned : BOOLEAN,
           failed : BOOLEAN, deadline : Nat, value : PaintTimes,
           reason : RequestKinds \cup Reasons \cup {Unset}]
PaintSamples == [value : PaintTimes, reject_reason : RequestKinds \cup Reasons \cup {Unset},
                 beacon_requests : Nat]

PaintTypeOK ==
  /\ now \in Nat
  /\ state \in Beacons
  /\ handlers \in Seq(Handlers)
  /\ serving \in BOOLEAN
  /\ child \in {"none", "alive", "exited", "killed"}
  /\ runner \in Locals
  /\ sample \in PaintSamples \cup {Unset}

(* The runner learns of a beacon, of an exit and of the timeout only at the end   *)
(* of its wait, of one of them at most, and gives its verdict after that.         *)
RunnerWaits == {"spawn", "loop", "waiting"}
OneEnd ==
  /\ runner.pc \in RunnerWaits => ~runner.accepted /\ ~runner.exited /\ ~runner.timedOut
  /\ ~(runner.accepted /\ runner.timedOut)
  /\ runner.pc \in RunnerWaits \cup {"judge"} => runner.value = Unset

(* A value was judged on an accepted beacon, which is the one that is recorded.   *)
Scored == runner.value # Unset => runner.accepted /\ runner.value = state.accepted_ns

(* What the cleanup leaves, it leaves because it failed.                          *)
Cleaned ==
  runner.pc \in {"close", "report", "returned", "raised"} /\ child = "alive"
    => runner.owned /\ runner.failed

(* The report is made of what was judged.                                         *)
Reported ==
  /\ runner.pc = "report" => ~runner.failed
  /\ runner.pc = "returned" => ~runner.failed /\ sample.value = runner.value

PaintIInv == PaintTypeOK /\ OneEnd /\ Scored /\ Cleaned /\ Reported
--------------------------------------------------------------------------------
LEMMA PaintInitInv == PaintInit => PaintIInv
  BY DEF PaintInit, PaintIInv, PaintTypeOK, Beacons, Handlers, Locals, PaintTimes, OneEnd,
         Scored, Cleaned,
         Reported, RunnerWaits

(* The handler threads and the program under test do not touch the runner, and    *)
(* move the recorded beacon only while there is none.                             *)
LEMMA MovesType ==
  ASSUME PaintTypeOK, NEW h \in 1..Len(handlers),
         NEW pc \in {"new", "reject", "accept", "signal", "done"}, Moves(h, pc)
  PROVE  handlers' \in Seq(Handlers)
<1>1. handlers[h] \in Handlers
  BY DEF PaintTypeOK
<1>2. [handlers[h] EXCEPT !.pc = pc] \in Handlers
  BY <1>1 DEF Handlers
<1>3. handlers' = [handlers EXCEPT ![h] = [handlers[h] EXCEPT !.pc = pc]]
  BY DEF Moves
<1> QED
  BY <1>2, <1>3 DEF PaintTypeOK

LEMMA HandlerStep ==
  ASSUME PaintIInv, NEW h \in 1..Len(handlers), Handler(h)
  PROVE  /\ PaintTypeOK'
         /\ UNCHANGED <<runner, sample, child, serving, now>>
         /\ state.accepted_ns # Unset => state'.accepted_ns = state.accepted_ns
<1>1. UNCHANGED <<runner, sample, child, serving, now>>
  BY DEF Handler, Count, Reject, Accept, Signal
<1>2. handlers' \in Seq(Handlers)
  BY MovesType DEF Handler, Count, Reject, Accept, Signal, PaintIInv
<1>3. handlers[h].kind \in RequestKinds
  <2>1. handlers[h] \in Handlers
    BY DEF PaintIInv, PaintTypeOK
  <2> QED
    BY <2>1 DEF Handlers
<1>4. /\ state' \in Beacons
      /\ state.accepted_ns # Unset => state'.accepted_ns = state.accepted_ns
  <2>1. state \in Beacons /\ now \in Nat
    BY DEF PaintIInv, PaintTypeOK
  <2>2. CASE Count(h)
    BY <2>1, <2>2 DEF Count, Beacons
  <2>3. CASE Reject(h)
    <3>1. state.rejections \in Seq(RequestKinds)
      BY <2>1 DEF Beacons
    <3>2. Append(state.rejections, handlers[h].kind) \in Seq(RequestKinds)
      BY <1>3, <3>1
    <3> QED
      BY <2>1, <2>3, <3>2 DEF Reject, Beacons
  <2>4. CASE Accept(h)
    BY <2>1, <2>4 DEF Accept, Beacons, PaintTimes
  <2>5. CASE Signal(h)
    BY <2>1, <2>5 DEF Signal, Beacons
  <2> QED
    BY <2>2, <2>3, <2>4, <2>5 DEF Handler
<1> QED
  BY <1>1, <1>2, <1>4 DEF PaintIInv, PaintTypeOK

LEMMA RequestType == ASSUME PaintTypeOK, Request PROVE PaintTypeOK'
<1>1. PICK kind \in RequestKinds : handlers' = Append(handlers, [kind |-> kind, pc |-> "new"])
  BY DEF Request, RequestKinds
<1>2. UNCHANGED <<now, state, serving, child, runner, sample>>
  BY DEF Request
<1>3. [kind |-> kind, pc |-> "new"] \in Handlers
  BY DEF Handlers
<1> QED
  BY <1>1, <1>2, <1>3 DEF PaintTypeOK

(* One step of the runner: spawn, the wait loop, the verdict, the finally clause, *)
(* the report.                                                                    *)
LEMMA RunnerType == ASSUME PaintTypeOK, Runner PROVE PaintTypeOK'
<1>1. /\ now \in Nat /\ runner \in Locals /\ state \in Beacons
      /\ child \in {"none", "alive", "exited", "killed"}
  BY DEF PaintTypeOK
<1>2. UNCHANGED <<now, state, handlers>> /\ serving' \in BOOLEAN
      /\ child' \in {"none", "alive", "exited", "killed"}
  BY DEF Runner, Spawn, CheckDeadline, Waited, Judge, EndChild, CloseServer, Return, RunnerOnly,
         PaintTypeOK
<1>3. state.rejections # <<>> => state.rejections[Len(state.rejections)] \in RequestKinds
  BY <1>1 DEF Beacons
<1>4. runner' \in Locals
  <2>1. CASE Spawn
    <3>1. now + Timeout \in Nat
      BY <1>1, AttemptAssumption
    <3>2. /\ [runner EXCEPT !.pc = "loop", !.owned = TRUE, !.deadline = now + Timeout] \in Locals
          /\ [runner EXCEPT !.pc = "cleanup", !.failed = TRUE] \in Locals
      BY <1>1, <3>1 DEF Locals
    <3> QED
      BY <2>1, <3>2 DEF Spawn, RunnerIs
  <2>2. CASE CheckDeadline
    BY <1>1, <2>2 DEF CheckDeadline, RunnerIs, Locals
  <2>3. CASE Waited
    BY <1>1, <2>3 DEF Waited, RunnerIs, Locals
  <2>4. CASE Judge
    <3>1. /\ state.accepted_ns \in PaintTimes
          /\ state.protocol_error # Unset => state.protocol_error \in Reasons
          /\ {"process_exited", "beacon_timeout"} \subseteq Reasons
      BY <1>1 DEF Beacons, Reasons
    <3>2. ASSUME NEW reason \in RequestKinds \cup Reasons PROVE Rejected(reason) \in Locals
      BY <1>1 DEF Rejected, Locals
    <3>3. [runner EXCEPT !.pc = "cleanup", !.value = state.accepted_ns] \in Locals
      BY <1>1, <3>1 DEF Locals
    <3> QED
      BY <1>3, <2>4, <3>1, <3>2, <3>3 DEF Judge, RunnerIs
  <2>5. CASE EndChild
    BY <1>1, <2>5 DEF EndChild, RunnerIs, Locals
  <2>6. CASE CloseServer
    BY <1>1, <2>6 DEF CloseServer, RunnerIs, Locals
  <2>7. CASE Return
    BY <1>1, <2>7 DEF Return, RunnerIs, Locals
  <2> QED
    BY <2>1, <2>2, <2>3, <2>4, <2>5, <2>6, <2>7 DEF Runner
<1>5. sample' \in PaintSamples \cup {Unset}
  <2>1. CASE Return
    BY <1>1, <2>1 DEF Return, PaintSamples, Locals, Beacons
  <2>2. CASE ~Return
    BY <2>2 DEF Runner, Spawn, CheckDeadline, Waited, Judge, EndChild, CloseServer, RunnerOnly,
                PaintTypeOK
  <2> QED
    BY <2>1, <2>2
<1> QED
  BY <1>2, <1>4, <1>5 DEF PaintTypeOK

LEMMA RunnerInv == ASSUME PaintIInv, Runner PROVE PaintIInv'
<1>1. PaintTypeOK'
  BY RunnerType DEF PaintIInv
<1>2. runner \in Locals
  BY DEF PaintIInv, PaintTypeOK
<1> USE DEF PaintIInv, OneEnd, Scored, Cleaned, Reported, RunnerWaits, RunnerIs, RunnerOnly,
            Locals
<1>3. CASE Spawn
  BY <1>1, <1>2, <1>3 DEF Spawn
<1>4. CASE CheckDeadline
  BY <1>1, <1>2, <1>4 DEF CheckDeadline
<1>5. CASE Waited
  BY <1>1, <1>2, <1>5 DEF Waited
<1>6. CASE Judge
  BY <1>1, <1>2, <1>6 DEF Judge, Rejected
<1>7. CASE EndChild
  BY <1>1, <1>2, <1>7 DEF EndChild
<1>8. CASE CloseServer
  BY <1>1, <1>2, <1>8 DEF CloseServer
<1>9. CASE Return
  BY <1>1, <1>2, <1>9 DEF Return
<1> QED
  BY <1>3, <1>4, <1>5, <1>6, <1>7, <1>8, <1>9 DEF Runner
--------------------------------------------------------------------------------
LEMMA PaintStepInv == PaintIInv /\ [PaintNext]_paintVars => PaintIInv'
<1> SUFFICES ASSUME PaintIInv, [PaintNext]_paintVars PROVE PaintIInv'
  OBVIOUS
<1>1. CASE Runner
  BY <1>1, RunnerInv
<1>2. CASE Request
  <2>1. UNCHANGED <<runner, sample, state, child>>
    BY <1>2 DEF Request
  <2> QED
    BY <1>2, <2>1, RequestType DEF PaintIInv, OneEnd, Scored, Cleaned, Reported
<1>3. ASSUME NEW h \in 1..Len(handlers), Handler(h) PROVE PaintIInv'
  BY <1>3, HandlerStep DEF PaintIInv, OneEnd, Scored, Cleaned, Reported
<1>4. CASE ChildExits
  BY <1>4 DEF ChildExits, PaintIInv, PaintTypeOK, OneEnd, Scored, Cleaned, Reported
<1>5. CASE Tick
  BY <1>5 DEF Tick, PaintIInv, PaintTypeOK, OneEnd, Scored, Cleaned, Reported
<1>6. CASE UNCHANGED paintVars
  BY <1>6 DEF paintVars, PaintIInv, PaintTypeOK, OneEnd, Scored, Cleaned, Reported
<1> QED
  BY <1>1, <1>2, <1>3, <1>4, <1>5, <1>6 DEF PaintNext

(* Runner, handlers and program keep the attempt as PaintIInv describes it.       *)
THEOREM PaintInvariant == PaintSpec => []PaintIInv
  BY PaintInitInv, PaintStepInv, PTL DEF PaintSpec

(* The score of _paint_attempt is the first beacon the server accepted, and no    *)
(* later request moves it.                                                        *)
THEOREM ScoreStays == PaintSpec => []ScoreIsFirstBeacon
<1>1. PaintIInv => ScoreIsFirstBeacon
  BY DEF PaintIInv, Scored, ScoreIsFirstBeacon
<1> QED
  BY <1>1, PaintInvariant, PTL

(* An attempt whose wait ran out has no score, whenever its beacon came.          *)
THEOREM TimeoutNeverScores == PaintSpec => []TimeoutOnlyFails
<1>1. PaintIInv => TimeoutOnlyFails
  BY DEF PaintIInv, OneEnd, Scored, TimeoutOnlyFails
<1> QED
  BY <1>1, PaintInvariant, PTL

(* The finally clause leaves no program running, owned or not, unless the cleanup *)
(* of an owned one failed.                                                        *)
THEOREM NothingIsLeft == PaintSpec => []NothingLeftRunning
<1>1. PaintIInv => NothingLeftRunning
  BY DEF PaintIInv, Cleaned, NothingLeftRunning
<1> QED
  BY <1>1, PaintInvariant, PTL

(* What the caller gets: a returned sample with a value has the time of the first *)
(* accepted beacon, its wait did not run out, and its program is gone.            *)
SampleSound ==
  runner.pc = "returned" /\ sample.value # Unset =>
    sample.value = state.accepted_ns /\ ~runner.timedOut /\ child # "alive"

THEOREM ReturnedSampleIsSound == PaintSpec => []SampleSound
<1>1. PaintIInv => SampleSound
  BY DEF PaintIInv, OneEnd, Scored, Cleaned, Reported, SampleSound
<1> QED
  BY <1>1, PaintInvariant, PTL
================================================================================
