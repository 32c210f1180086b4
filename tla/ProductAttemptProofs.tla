-------------------------- MODULE ProductAttemptProofs -------------------------
(* A product sample for any number of processes: a census misses nobody who was   *)
(* there throughout, the forced cleanup signals captured generations only, and a  *)
(* sample that counts has left nothing of its tree alive.                         *)
EXTENDS ProductAttempt, FiniteSetTheorems, SequenceTheorems, TLAPS

Classes == HelperClasses \cup {"keld-cli", "other", None}
Codes == {None, 0, 1}
Slots == [born : Nat, parent : PIDs \cup {0}, class : Classes, code : Codes, mine : BOOLEAN]
Identities == [pid : PIDs, born : Nat]
Counted == [pid : PIDs, born : Nat, class : Classes]
Entries == [born : Nat, parent : PIDs \cup {0}, class : Classes]
Records == UNION {[D -> Entries] : D \in SUBSET PIDs}
Uses == Keeps \cup {"memory census"}
Censuses == [use : Uses \cup {None}, left : SUBSET PIDs, records : Records,
             counting : SUBSET Counted]
Engines == {Count(found, "webkit") : found \in SUBSET Counted}
Snapshots == [members : SUBSET Counted, engines : Engines, main : Nat, total : Nat]
Places == {"launched", "waiting", "memory poll", "memory again", "scan", "count", "close poll",
           "native close", "wait exit", "judge", "survivors", "verdict", "force", "terminate",
           "term", "kill", "open", "check", "send", "kill poll", "finally", "raised", "done"}
          \cup Uses
Attempts == [pc : Places, kind : {"paint", "memory"}, root : Nat \cup {None}, reaped : BOOLEAN,
             code : Codes, value : BOOLEAN, closed : BOOLEAN, normal : BOOLEAN,
             raising : BOOLEAN, finally : BOOLEAN,
             todo : SUBSET Identities, target : Identities \cup {None}, fd : Nat,
             signal : {None, "term", "kill"}, history : Seq(Snapshots), census : Censuses]

TypeOK == /\ procs \in [PIDs -> Slots]
          /\ births \in Nat
          /\ att \in Attempts
          /\ captured \in SUBSET Identities

(* A generation has one PID; a parent is alive; only the CLI is ever a zombie, and *)
(* it keeps its PID until its status is collected.                                *)
Kinship ==
  /\ \A p \in PIDs : procs[p].born <= births
  /\ \A p, q \in PIDs : procs[p].born = procs[q].born /\ Present(p) => p = q
  /\ \A p \in PIDs : procs[p].parent # 0 => Alive(procs[p].parent)
  /\ \A p \in PIDs : procs[p].code # None => p = Cli /\ procs[p].born = 1
  /\ IF att.reaped THEN procs[Cli].born # 1
     ELSE procs[Cli].born = 1 /\ procs[Cli].parent = 0
  /\ births >= 1 /\ (att.code # None => att.reaped)

(* Whoever was read under a PID is not to be found under another one.             *)
Owns(pid, born) == /\ born # 0 /\ born <= births
                   /\ \A p \in PIDs : procs[p].born = born => p = pid
Identified ==
  /\ \A i \in captured : Owns(i.pid, i.born)
  /\ \A p \in DOMAIN att.census.records : Owns(p, att.census.records[p].born)
  /\ \A m \in att.census.counting : Owns(m.pid, m.born)

Targeting ==
  /\ At("open") \/ At("check") \/ At("send") => att.todo \subseteq captured
  /\ At("check") \/ At("send") => att.target \in captured
  /\ At("check") /\ GenerationAlive(att.target) => att.fd = att.target.born
  /\ At("send") => att.fd = att.target.born

(* The steady ones are in the tree with all their ancestors, and those that were  *)
(* read are on record as they are.                                                *)
Steadfast ==
  /\ att.pc # "scan" => steady = {}
  /\ At("scan") => att.census.use \in Uses
  /\ steady \subseteq TreeOf(procs)
  /\ steady # {} => Alive(Cli) /\ procs[Cli].born \in steady
  /\ \A p \in PIDs \ {Cli} : procs[p].born \in steady =>
       procs[p].parent # 0 /\ procs[procs[p].parent].born \in steady
  /\ \A p \in PIDs \ att.census.left : At("scan") /\ procs[p].born \in steady =>
       /\ p \in DOMAIN att.census.records
       /\ att.census.records[p].born = procs[p].born
       /\ p # Cli => att.census.records[p].parent = procs[p].parent

FinalPlaces == {"scan", "force census", "force", "terminate", "term", "kill", "open", "check",
                "send", "kill poll", "raised", "done"}
(* A value outlives the try block only with a normal lifecycle, and nothing is    *)
(* captured or collected after that.                                              *)
Lifecycle ==
  /\ seen \subseteq {i.born : i \in captured}
  /\ att.normal => /\ att.pc \in {"verdict", "finally", "done", "raised"}
                   /\ att.closed /\ att.code = 0 /\ Survivors = {}
  /\ At("launched") => seen = {}
  /\ att.value /\ att.pc \in {"finally", "done"} => att.normal
  /\ att.finally => ~att.value
  /\ att.finally => /\ att.pc \in FinalPlaces
                    /\ At("scan") => att.census.use = "force census"

IInv == TypeOK /\ Kinship /\ Identified /\ Targeting /\ Steadfast /\ Lifecycle
--------------------------------------------------------------------------------
(* The library's well-founded orderings give the least and the greatest element.  *)
LEMMA LeastNat ==
  ASSUME NEW S \in SUBSET Nat, S # {}
  PROVE  Min(S) \in S /\ \A y \in S : Min(S) <= y
<1> DEFINE R == OpToRel(<, Nat)
<1>1. IsWellFoundedOn(R, Nat)
  BY NatLessThanWellFounded
<1>2. \A x, y \in Nat : x < y => <<x, y>> \in R
  BY DEF OpToRel
<1> HIDE DEF R
<1>3. \E x \in S : \A y \in S : ~(<<y, x>> \in R)
  BY <1>1, WFMin
<1>4. \E x \in S : \A y \in S : ~(y < x)
  BY <1>2, <1>3
<1>5. \E x \in S : \A y \in S : x <= y
  BY ONLY <1>4, S \in SUBSET Nat
<1> QED
  BY <1>5 DEF Min

LEMMA GreatestNat ==
  ASSUME NEW S \in SUBSET Nat, S # {}, IsFiniteSet(S)
  PROVE  Max(S) \in S /\ \A y \in S : Max(S) >= y
<1>0. \A x, y, z \in S : y > x /\ z > y => z > x
  <2>1. \A x, y, z \in Nat : y > x /\ z > y => z > x
    OBVIOUS
  <2> QED
    BY <2>1
<1> DEFINE Above(x) == {y \in S : y > x}
           R == StrictSubsetOrdering(S)
           T == {U \in SUBSET S : \E x \in S : U = Above(x)}
<1>1. IsWellFoundedOn(R, FiniteSubsetsOf(S)) /\ T \subseteq FiniteSubsetsOf(S)
  BY FS_StrictSubsetOrderingWellFounded, FS_FiniteSubsetsOfFinite
<1>2. T # {}
  <2>1. PICK x \in S : TRUE
    OBVIOUS
  <2>2. Above(x) \in T
    OBVIOUS
  <2> QED
    BY <2>2
<1>3. \E U \in T : \A V \in T : ~(<<V, U>> \in R)
  <2> HIDE DEF R, T
  <2> QED
    BY <1>1, <1>2, WFMin
<1>4. PICK x \in S : \A V \in T : ~(<<V, Above(x)>> \in R)
  BY <1>3
<1>5. \A y \in S : x >= y
  <2> SUFFICES ASSUME NEW y \in S, y > x PROVE FALSE
    OBVIOUS
  <2>1. Above(y) \in T
    OBVIOUS
  <2>2. (\A z \in S : z > y => z > x) /\ ~(y > y)
    <3>1. y \in Nat
      OBVIOUS
    <3> QED
      BY <1>0, <3>1
  <2>3. Above(y) \subseteq Above(x) /\ y \in Above(x) /\ y \notin Above(y)
    BY <2>2
  <2>4. <<Above(y), Above(x)>> \in R
    BY <2>3 DEF StrictSubsetOrdering
  <2> QED
    BY <1>4, <2>1, <2>4
<1> QED
  BY <1>5 DEF Max

(* The descendants are closed under children and, but for the CLI, under parents; *)
(* and whatever has the CLI and is closed under children has them all.            *)
LEMMA DescendantsClosed ==
  ASSUME NEW parents, Cli \in DOMAIN parents
  PROVE  /\ Cli \in Descendants(parents) /\ Descendants(parents) \subseteq DOMAIN parents
         /\ \A q \in DOMAIN parents :
              parents[q] \in Descendants(parents) => q \in Descendants(parents)
BY DEF Descendants

LEMMA DescendantsLeast ==
  ASSUME NEW parents, NEW S \in SUBSET DOMAIN parents, Cli \in S,
         \A q \in DOMAIN parents : parents[q] \in S => q \in S
  PROVE  Descendants(parents) \subseteq S
BY DEF Descendants

LEMMA DescendantsUpward ==
  ASSUME NEW parents, Cli \in DOMAIN parents, NEW p \in Descendants(parents), p # Cli
  PROVE  parents[p] \in Descendants(parents)
<1> SUFFICES ASSUME parents[p] \notin Descendants(parents) PROVE FALSE
  OBVIOUS
<1> DEFINE S == Descendants(parents) \ {p}
<1>1. Cli \in S /\ S \in SUBSET DOMAIN parents
  BY DescendantsClosed
<1>2. \A q \in DOMAIN parents : parents[q] \in S => q \in S
  BY DescendantsClosed
<1>3. Descendants(parents) \subseteq S
  <2> HIDE DEF S
  <2> QED
    BY <1>1, <1>2, DescendantsLeast
<1> QED
  BY <1>3

LEMMA EmptyFacts ==
  /\ <<>> \in Records /\ DOMAIN <<>> = {}
  /\ NoCensus \in Censuses /\ NoCensus.records = <<>> /\ NoCensus.counting = {}
<1>1. <<>> \in [{} -> Entries] /\ DOMAIN <<>> = {}
  OBVIOUS
<1>2. <<>> \in Records
  BY <1>1 DEF Records
<1> QED
  BY <1>1, <1>2 DEF NoCensus, Censuses
--------------------------------------------------------------------------------
LEMMA InitInv == Init => IInv
<1> SUFFICES ASSUME Init PROVE IInv
  OBVIOUS
<1>1. /\ PIDs \in SUBSET Nat /\ IsFiniteSet(PIDs) /\ Cli \in PIDs /\ 0 \notin PIDs
      /\ DOMAIN Others \subseteq PIDs \ {Cli} /\ None \notin Nat
      /\ \A p \in DOMAIN Others : Others[p] \in {0} \cup DOMAIN Others
  BY AttemptAssumption
<1>2. Max(PIDs) \in Nat /\ \A p \in PIDs : Max(PIDs) >= p
  BY <1>1, GreatestNat
<1>3. births \in Nat /\ \A p \in PIDs : 1 + p <= births
  BY <1>1, <1>2 DEF Init
<1>4. /\ procs[Cli] = Running(1, 0, "keld-cli", TRUE)
      /\ \A p \in DOMAIN Others : procs[p] = Running(1 + p, Others[p], "other", FALSE)
      /\ \A p \in PIDs \ (DOMAIN Others \cup {Cli}) : procs[p] = Free
  BY <1>1 DEF Init
<1>5. procs \in [PIDs -> Slots]
  <2>1. Free \in Slots /\ Running(1, 0, "keld-cli", TRUE) \in Slots
    BY DEF Free, Running, Slots, Classes, Codes
  <2>2. ASSUME NEW p \in DOMAIN Others
        PROVE  Running(1 + p, Others[p], "other", FALSE) \in Slots
    <3>1. 1 + p \in Nat /\ Others[p] \in PIDs \cup {0}
      <4>1. p \in Nat
        BY <1>1
      <4>2. Others[p] \in {0} \cup DOMAIN Others
        BY <1>1
      <4> QED
        BY <1>1, <4>1, <4>2
    <3>2. "other" \in Classes /\ None \in Codes
      BY DEF Classes, Codes
    <3> QED
      BY <3>1, <3>2 DEF Running, Slots
  <2> QED
    BY <1>1, <2>1, <2>2 DEF Init
<1>6. PICK kind \in Kinds :
        att = [pc |-> "launched", kind |-> kind, root |-> None, reaped |-> FALSE,
              code |-> None, value |-> FALSE, closed |-> FALSE, normal |-> FALSE,
              raising |-> FALSE, finally |-> FALSE,
              todo |-> {}, target |-> None, fd |-> 0, signal |-> None,
              history |-> <<>>, census |-> NoCensus]
  BY DEF Init
<1>7. att \in Attempts
  BY <1>6, EmptyFacts, AttemptAssumption DEF Attempts, Places, Codes
<1>8. Kinship
  <2>0. \A p \in PIDs : p \in Nat /\ p >= 1 /\ 1 + p # 1 /\ 1 + p # 0
    BY <1>1
  <2>1. ASSUME NEW p \in PIDs
        PROVE  /\ procs[p].code = None
               /\ \/ p = Cli /\ procs[p].born = 1 /\ procs[p].parent = 0
                  \/ /\ p \in DOMAIN Others /\ procs[p].born = 1 + p
                     /\ procs[p].parent = Others[p]
                  \/ p \notin DOMAIN Others /\ p # Cli /\ procs[p].born = 0 /\ procs[p].parent = 0
    <3>1. CASE p = Cli
      BY <1>4, <3>1 DEF Running
    <3>2. CASE p \in DOMAIN Others
      <4>1. procs[p] = Running(1 + p, Others[p], "other", FALSE)
        BY <1>4, <3>2
      <4> QED
        BY <3>2, <4>1 DEF Running
    <3>3. CASE p \notin DOMAIN Others \cup {Cli}
      <4>1. procs[p] = Free
        BY <1>4, <3>3
      <4> QED
        BY <3>3, <4>1 DEF Free
    <3> QED
      BY <3>1, <3>2, <3>3
  <2>2. \A p \in PIDs : (p = Cli <=> procs[p].born = 1)
                        /\ (procs[p].born = 0 \/ procs[p].born = 1 \/ procs[p].born = 1 + p)
    <3>1. ASSUME NEW p \in PIDs
          PROVE  (p = Cli <=> procs[p].born = 1)
                 /\ (procs[p].born = 0 \/ procs[p].born = 1 \/ procs[p].born = 1 + p)
      <4>1. 1 + p # 1 /\ (p \in DOMAIN Others => p # Cli)
        BY <1>1, <2>0
      <4> QED
        BY <2>1, <4>1
    <3> QED
      BY <3>1
  <2>3. ASSUME NEW p \in PIDs PROVE procs[p].born <= births
    <3>1. 1 + p <= births /\ births \in Nat /\ p \in Nat /\ p >= 1
      BY <1>3, <2>0
    <3>2. procs[p].born = 0 \/ procs[p].born = 1 \/ procs[p].born = 1 + p
      BY <2>2
    <3> QED
      BY <3>1, <3>2
  <2>4. \A p, q \in PIDs : procs[p].born = procs[q].born /\ Present(p) => p = q
    <3>1. ASSUME NEW p \in PIDs, NEW q \in PIDs, procs[p].born = procs[q].born, Present(p)
          PROVE  p = q
      <4>1. p \in Nat /\ q \in Nat /\ procs[p].born # 0
        BY <2>0, <3>1 DEF Present
      <4>2. CASE procs[p].born = 1
        BY <2>2, <3>1, <4>2
      <4>3. CASE procs[p].born # 1
        <5>1. procs[p].born = 1 + p /\ procs[p].born = 1 + q
          BY <2>2, <3>1, <4>1, <4>3
        <5> QED
          BY <4>1, <5>1
      <4> QED
        BY <4>2, <4>3
    <3> QED
      BY <3>1
  <2>5. \A p \in PIDs : procs[p].parent # 0 => Alive(procs[p].parent)
    <3>1. ASSUME NEW p \in PIDs, procs[p].parent # 0 PROVE Alive(procs[p].parent)
      <4>1. p \in DOMAIN Others /\ procs[p].parent = Others[p]
        BY <2>1, <3>1
      <4>2. Others[p] \in DOMAIN Others /\ Others[p] \in PIDs /\ Others[p] # Cli
        BY <1>1, <3>1, <4>1
      <4>3. procs[Others[p]].born = 1 + Others[p] /\ procs[Others[p]].code = None
        BY <2>1, <4>2
      <4> QED
        BY <2>0, <4>1, <4>2, <4>3 DEF Alive, Present
    <3> QED
      BY <3>1
  <2>6. births >= 1
    <3>1. 1 + Cli <= births /\ births \in Nat /\ Cli \in Nat
      BY <1>1, <1>3
    <3>2. \A m, n \in Nat : 1 + m <= n => n >= 1
      OBVIOUS
    <3> QED
      BY <3>1, <3>2
  <2>7. ~att.reaped /\ att.code = None
    BY <1>6
  <2> QED
    BY <1>1, <2>1, <2>2, <2>3, <2>4, <2>5, <2>6, <2>7 DEF Kinship
<1>9. Identified /\ Targeting /\ Steadfast /\ Lifecycle
  BY <1>6, EmptyFacts DEF Init, Identified, Targeting, At, Steadfast, Lifecycle
<1> QED
  BY <1>3, <1>5, <1>7, <1>8, <1>9 DEF Init, IInv, TypeOK
--------------------------------------------------------------------------------
(* What may become of a PID in a step: it goes on, perhaps orphaned or a zombie;   *)
(* it is free; or a process with a generation nobody had starts on it, below an    *)
(* alive one if it was launched, below none if it is a stranger.                   *)
GoesOn(p) ==
  /\ procs'[p].born = procs[p].born /\ procs'[p].class = procs[p].class
  /\ procs'[p].mine = procs[p].mine
  /\ procs'[p].parent = procs[p].parent \/ procs'[p].parent = 0
  /\ procs'[p].code = procs[p].code \/ (procs[p].code = None /\ procs'[p].code # None)
Starts(p) == ~Present(p) /\ procs'[p].born = births' /\ births' > births
             /\ procs'[p].code = None /\ (procs'[p].mine \/ procs'[p].parent = 0)
Evolution == /\ births' \in Nat /\ births <= births'
             /\ procs' \in [PIDs -> Slots]
             /\ \A p \in PIDs : GoesOn(p) \/ procs'[p] = Free \/ Starts(p)

LEMMA OwnsStays ==
  ASSUME TypeOK, Evolution, NEW pid, NEW born \in Nat, Owns(pid, born)
  PROVE  Owns(pid, born)'
<1>1. born # 0 /\ born <= births /\ births \in Nat /\ births' \in Nat /\ births <= births'
  BY DEF Owns, Evolution, TypeOK
<1>2. born <= births'
  BY <1>1
<1>3. ASSUME NEW p \in PIDs, procs'[p].born = born PROVE p = pid
  <2>1. ~Starts(p)
    BY <1>1, <1>3 DEF Starts
  <2>2. procs'[p] # Free
    BY <1>1, <1>3 DEF Free
  <2>3. procs[p].born = born
    BY <1>3, <2>1, <2>2 DEF Evolution, GoesOn
  <2> QED
    BY <2>3 DEF Owns
<1> QED
  BY <1>1, <1>2, <1>3 DEF Owns

(* No generation is ever revived.                                                 *)
LEMMA NoRevival ==
  ASSUME TypeOK, Evolution, NEW i \in Identities, Owns(i.pid, i.born), GenerationAlive(i)'
  PROVE  GenerationAlive(i)
<1>1. /\ i.pid \in PIDs /\ i.born \in Nat /\ i.born # 0 /\ i.born <= births
      /\ births \in Nat /\ births' \in Nat /\ None \notin Nat
  BY AttemptAssumption DEF Owns, Evolution, TypeOK, Identities
<1>2. procs'[i.pid].born = i.born /\ procs'[i.pid].code = None
  BY <1>1 DEF GenerationAlive, ProcIdentity, Alive
<1>3. ~Starts(i.pid) /\ procs'[i.pid] # Free
  BY <1>1, <1>2 DEF Starts, Free
<1>4. GoesOn(i.pid)
  BY <1>1, <1>3 DEF Evolution
<1> QED
  BY <1>1, <1>2, <1>4 DEF GoesOn, GenerationAlive, ProcIdentity, Alive, Present

LEMMA OwnersStay ==
  ASSUME TypeOK, Identified, Evolution, captured' = captured, att'.census = att.census
  PROVE  Identified'
<1>1. ASSUME NEW i \in captured PROVE Owns(i.pid, i.born)'
  BY OwnsStays DEF TypeOK, Identities, Identified
<1>2. att.census \in Censuses
  BY DEF TypeOK, Attempts
<1>3. ASSUME NEW p \in DOMAIN att.census.records PROVE Owns(p, att.census.records[p].born)'
  <2>1. att.census.records[p].born \in Nat
    BY <1>2 DEF Censuses, Records, Entries
  <2>2. PICK b \in Nat : b = att.census.records[p].born /\ b = att'.census.records[p].born
    BY <2>1
  <2>3. Owns(p, b)
    BY <2>2 DEF Identified
  <2>4. Owns(p, b)'
    BY <2>3, OwnsStays
  <2> QED
    BY <2>2, <2>4
<1>4. ASSUME NEW m \in att.census.counting PROVE Owns(m.pid, m.born)'
  <2>1. m \in Counted
    BY <1>2 DEF Censuses
  <2> QED
    BY <2>1, OwnsStays DEF Counted, Identified
<1> QED
  BY <1>1, <1>3, <1>4 DEF Identified

LEMMA SurvivorsStayGone ==
  ASSUME TypeOK, Identified, Evolution, captured' = captured, Survivors = {}
  PROVE  Survivors' = {}
<1>1. ASSUME NEW i \in captured, GenerationAlive(i)' PROVE FALSE
  <2>1. i \in Identities /\ Owns(i.pid, i.born)
    BY DEF TypeOK, Identified
  <2>2. GenerationAlive(i)
    BY <1>1, <2>1, NoRevival
  <2> QED
    BY <2>2 DEF Survivors
<1> QED
  BY <1>1 DEF Survivors

(* The ways the processes change: nothing does, a start, an end, a collection.    *)
LEMMA StillEvolves ==
  ASSUME TypeOK, UNCHANGED <<procs, births>>
  PROVE  Evolution
BY DEF TypeOK, Evolution, GoesOn

LEMMA StartEvolves ==
  ASSUME TypeOK, Kinship, NEW p \in PIDs, ~Present(p), NEW parent \in PIDs \cup {0},
         parent # 0 => Alive(parent),
         NEW class \in Classes, NEW mine \in BOOLEAN, mine \/ parent = 0, UNCHANGED att,
         births' = births + 1, procs' = [procs EXCEPT ![p] = Running(births + 1, parent, class, mine)]
  PROVE  Evolution /\ Kinship'
<1> DEFINE new == Running(births + 1, parent, class, mine)
<1>1. /\ new \in Slots /\ new.born = births + 1 /\ new.code = None /\ new.parent = parent
      /\ new.mine = mine
      /\ births \in Nat /\ births >= 1 /\ births' \in Nat /\ births <= births' /\ births' > births
  BY DEF TypeOK, Kinship, Running, Slots, Codes
<1> HIDE DEF new
<1>2. procs \in [PIDs -> Slots] /\ procs' = [procs EXCEPT ![p] = new]
  BY DEF TypeOK, new
<1>3. procs'[p] = new /\ \A q \in PIDs \ {p} : procs'[q] = procs[q]
  BY <1>2
<1>4. Evolution
  <2>1. procs' \in [PIDs -> Slots]
    BY <1>1, <1>2
  <2>2. Starts(p)
    BY <1>1, <1>3 DEF Starts
  <2>3. \A q \in PIDs \ {p} : GoesOn(q)
    BY <1>3 DEF GoesOn
  <2> QED
    BY <1>1, <2>1, <2>2, <2>3 DEF Evolution
<1>5. \A q \in PIDs \ {p} : procs[q].born <= births /\ procs[q].born \in Nat /\ births' > procs[q].born
  <2>1. ASSUME NEW q \in PIDs PROVE procs[q].born <= births /\ procs[q].born \in Nat
    BY <1>2 DEF Kinship, Slots
  <2> QED
    BY <1>1, <2>1
<1>6. ASSUME NEW q \in PIDs PROVE procs'[q].born <= births' /\ (procs'[q].born = 1 <=> procs[q].born = 1)
  <2>1. CASE q = p
    BY <1>1, <1>3, <2>1 DEF Present
  <2>2. CASE q # p
    BY <1>1, <1>3, <1>5, <2>2
  <2> QED
    BY <2>1, <2>2
<1>7. \A q, r \in PIDs : procs'[q].born = procs'[r].born /\ Present(q)' => q = r
  BY <1>1, <1>3, <1>5 DEF Kinship, Present
<1>8. ASSUME NEW q \in PIDs, procs'[q].parent # 0
      PROVE  procs'[procs'[q].parent].born # 0 /\ procs'[procs'[q].parent].code = None
  <2>1. procs'[q].parent \in PIDs
    BY <1>4, <1>8 DEF Evolution, Slots
  <2>2. Alive(procs'[q].parent)
    BY <1>1, <1>3, <1>8 DEF Kinship
  <2> QED
    BY <1>3, <2>1, <2>2 DEF Alive, Present
<1>9. \A q \in PIDs : procs'[q].code # None => q = Cli /\ procs'[q].born = 1
  BY <1>1, <1>3 DEF Kinship
<1>10. births' >= 1
  BY <1>1
<1> QED
  BY <1>4, <1>6, <1>7, <1>8, <1>9, <1>10, AttemptAssumption DEF Kinship, Alive, Present

LEMMA EndEvolves ==
  ASSUME TypeOK, Kinship, NEW p \in PIDs, Alive(p), NEW code \in {0, 1},
         att'.reaped = att.reaped, att'.code = att.code,
         UNCHANGED births, procs' = Ended(procs, p, code)
  PROVE  Evolution /\ Kinship'
<1>1. procs \in [PIDs -> Slots] /\ births \in Nat /\ 0 \notin PIDs /\ Cli \in PIDs /\ None \notin Nat
  BY AttemptAssumption DEF TypeOK
<1>2. procs' = [q \in PIDs |->
        IF q = p THEN IF HarnessChild(p) THEN [procs[p] EXCEPT !.code = code] ELSE Free
        ELSE IF procs[q].parent = p THEN [procs[q] EXCEPT !.parent = 0] ELSE procs[q]]
  BY <1>1 DEF Ended, Gone
<1>3. ASSUME NEW q \in PIDs \ {p}
      PROVE  /\ procs'[q] \in Slots
             /\ procs'[q].born = procs[q].born /\ procs'[q].class = procs[q].class
             /\ procs'[q].mine = procs[q].mine /\ procs'[q].code = procs[q].code
             /\ procs'[q].parent = procs[q].parent \/ procs'[q].parent = 0
             /\ procs'[q].parent # p
  <2>1. procs'[q] = IF procs[q].parent = p THEN [procs[q] EXCEPT !.parent = 0] ELSE procs[q]
    BY <1>2
  <2>2. procs[q] \in Slots
    BY <1>1
  <2>3. CASE procs[q].parent = p
    BY <1>1, <2>1, <2>2, <2>3 DEF Slots
  <2>4. CASE procs[q].parent # p
    BY <2>1, <2>2, <2>4
  <2> QED
    BY <2>3, <2>4
<1>4. CASE HarnessChild(p)
  <2>1. /\ p = Cli /\ procs[Cli].born = 1 /\ procs[Cli].code = None /\ procs[Cli] \in Slots
        /\ ~att.reaped /\ procs[Cli].parent = 0
    BY <1>1, <1>4 DEF HarnessChild, Alive, Kinship
  <2>2. /\ procs'[Cli] = [procs[Cli] EXCEPT !.code = code]
        /\ code \in Codes /\ code # None
    BY <1>1, <1>2, <1>4, <2>1 DEF Codes
  <2>3. /\ procs'[Cli] \in Slots /\ procs'[Cli].born = 1 /\ procs'[Cli].code # None
        /\ procs'[Cli].class = procs[Cli].class /\ procs'[Cli].mine = procs[Cli].mine
        /\ procs'[Cli].parent = procs[Cli].parent
    BY <2>1, <2>2 DEF Slots
  <2>4. GoesOn(Cli) /\ \A q \in PIDs \ {p} : GoesOn(q)
    BY <1>3, <2>1, <2>3 DEF GoesOn
  <2>5. procs' \in [PIDs -> Slots]
    <3>1. \A q \in PIDs : procs'[q] \in Slots
      BY <1>3, <2>1, <2>3
    <3> QED
      BY <1>2, <3>1
  <2>6. Evolution
    BY <1>1, <2>1, <2>4, <2>5 DEF Evolution
  <2>7. \A q \in PIDs : procs'[q].born = procs[q].born
    BY <2>1, <2>4 DEF GoesOn
  <2>8. ASSUME NEW q \in PIDs, procs'[q].parent # 0
        PROVE  procs'[procs'[q].parent].born # 0 /\ procs'[procs'[q].parent].code = None
    <3>1. procs'[q].parent = procs[q].parent /\ procs[q].parent # 0 /\ procs[q].parent \in PIDs
      BY <1>1, <2>1, <2>4, <2>8 DEF GoesOn, Slots
    <3>2. Alive(procs[q].parent)
      BY <3>1 DEF Kinship
    <3>3. procs'[q].parent # p
      BY <1>3, <2>1, <3>1
    <3> QED
      BY <1>3, <2>1, <2>7, <3>1, <3>2, <3>3 DEF Alive, Present
  <2> QED
    BY <1>3, <2>1, <2>3, <2>6, <2>7, <2>8 DEF Kinship, Alive, Present
<1>5. CASE ~HarnessChild(p)
  <2>1. procs'[p] = Free /\ Free \in Slots /\ procs[p].born # 0
    BY <1>2, <1>5, AttemptAssumption DEF Free, Slots, Classes, Codes, Alive, Present
  <2>2. procs' \in [PIDs -> Slots]
    <3>1. \A q \in PIDs : procs'[q] \in Slots
      BY <1>3, <2>1
    <3> QED
      BY <1>2, <3>1
  <2>3. \A q \in PIDs \ {p} : GoesOn(q)
    BY <1>3 DEF GoesOn
  <2>4. Evolution
    BY <1>1, <2>1, <2>2, <2>3 DEF Evolution
  <2>5. /\ procs'[p].born = 0 /\ procs'[p].parent = 0 /\ procs'[p].code = None
        /\ p = Cli => procs[p].born # 1
    BY <1>5, <2>1 DEF Free, HarnessChild
  <2>6. ASSUME NEW q \in PIDs, procs'[q].parent # 0
        PROVE  procs'[procs'[q].parent].born # 0 /\ procs'[procs'[q].parent].code = None
    <3>1. q # p /\ procs'[q].parent = procs[q].parent /\ procs[q].parent # 0
          /\ procs[q].parent # p /\ procs[q].parent \in PIDs
      BY <1>1, <1>3, <2>5, <2>6 DEF Slots
    <3>2. Alive(procs[q].parent)
      BY <3>1 DEF Kinship
    <3> QED
      BY <1>3, <3>1, <3>2 DEF Alive, Present
  <2>7. \A q \in PIDs : procs'[q].born <= births /\ (procs'[q].born = procs[q].born \/ procs'[q].born = 0)
    <3>1. \A q \in PIDs : procs[q].born <= births
      BY DEF Kinship
    <3> QED
      BY <1>1, <1>3, <2>5, <3>1
  <2>8. /\ procs'[Cli].born = 1 <=> procs[Cli].born = 1
        /\ procs[Cli].parent = 0 => procs'[Cli].parent = 0
    BY <1>1, <1>3, <2>5
  <2>9. \A q, r \in PIDs : procs'[q].born = procs'[r].born /\ procs'[q].born # 0 => q = r
    BY <1>3, <2>5, <2>7 DEF Kinship, Present
  <2>10. \A q \in PIDs : procs'[q].code # None => q = Cli /\ procs'[q].born = 1
    BY <1>3, <2>5 DEF Kinship
  <2> QED
    BY <2>4, <2>6, <2>7, <2>8, <2>9, <2>10 DEF Kinship, Alive, Present
<1> QED
  BY <1>4, <1>5

LEMMA CollectEvolves ==
  ASSUME TypeOK, Kinship, CliExited, att'.reaped = TRUE, UNCHANGED births,
         procs' = [procs EXCEPT ![Cli] = Free]
  PROVE  Evolution /\ Kinship' /\ TreeOf(procs)' = {} /\ TreeOf(procs) = {}
<1>1. procs \in [PIDs -> Slots] /\ births \in Nat /\ Cli \in PIDs /\ procs[Cli].code # None
      /\ Free \in Slots
  BY AttemptAssumption DEF TypeOK, CliExited, Free, Slots, Classes, Codes
<1>2. /\ procs'[Cli] = Free /\ \A q \in PIDs \ {Cli} : procs'[q] = procs[q]
      /\ procs' \in [PIDs -> Slots]
  BY <1>1
<1>3. Evolution
  BY <1>1, <1>2 DEF Evolution, GoesOn
<1>4. \A q \in PIDs : procs[q].parent # 0 => procs[q].parent # Cli
  BY <1>1 DEF Kinship, Alive
<1>5. procs'[Cli].born = 0 /\ procs'[Cli].parent = 0 /\ procs'[Cli].code = None
  BY <1>2 DEF Free
<1>6. ASSUME NEW q \in PIDs, procs'[q].parent # 0
      PROVE  procs'[procs'[q].parent].born # 0 /\ procs'[procs'[q].parent].code = None
  <2>1. q # Cli /\ procs'[q].parent = procs[q].parent /\ procs[q].parent # Cli
        /\ procs[q].parent \in PIDs
    BY <1>1, <1>2, <1>4, <1>5, <1>6 DEF Slots
  <2>2. Alive(procs[q].parent)
    BY <1>6, <2>1 DEF Kinship
  <2> QED
    BY <1>2, <2>1, <2>2 DEF Alive, Present
<1>7. \A q \in PIDs : procs'[q].born <= births
  <2>1. \A q \in PIDs : procs[q].born <= births
    BY DEF Kinship
  <2> QED
    BY <1>1, <1>2, <1>5, <2>1
<1>8. \A q, r \in PIDs : procs'[q].born = procs'[r].born /\ procs'[q].born # 0 => q = r
  BY <1>2, <1>5 DEF Kinship, Present
<1>9. \A q \in PIDs : procs'[q].code # None => q = Cli /\ procs'[q].born = 1
  BY <1>2, <1>5 DEF Kinship
<1>10. Kinship'
  BY <1>5, <1>6, <1>7, <1>8, <1>9 DEF Kinship, Alive, Present
<1>11. Cli \notin LiveIn(procs) /\ Cli \notin LiveIn(procs')
  BY <1>1, <1>5 DEF LiveIn
<1> QED
  BY <1>3, <1>10, <1>11 DEF TreeOf
--------------------------------------------------------------------------------
ParentsIn(ps) == [q \in LiveIn(ps) |-> ps[q].parent]
TreeIn(ps) == Descendants(ParentsIn(ps))
Distinct(ps) == \A p, q \in PIDs : ps[p].born = ps[q].born /\ ps[p].born # 0 => p = q

LEMMA TreeFacts ==
  ASSUME NEW ps, Distinct(ps), NEW p \in PIDs, ps[p].born \in TreeOf(ps)
  PROVE  /\ Cli \in LiveIn(ps) /\ p \in LiveIn(ps) /\ p \in TreeIn(ps)
         /\ Cli \in TreeIn(ps) /\ ps[Cli].born \in TreeOf(ps)
         /\ p # Cli => /\ ps[p].parent \in TreeIn(ps) /\ ps[p].parent \in LiveIn(ps)
                       /\ ps[p].parent \in PIDs /\ ps[p].parent # 0
                       /\ ps[ps[p].parent].born \in TreeOf(ps)
<1>1. Cli \in LiveIn(ps) /\ TreeOf(ps) = {ps[q].born : q \in TreeIn(ps)}
  BY DEF TreeOf, TreeIn, ParentsIn
<1>2. DOMAIN ParentsIn(ps) = LiveIn(ps) /\ \A q \in LiveIn(ps) : ParentsIn(ps)[q] = ps[q].parent
  BY DEF ParentsIn
<1>3. TreeIn(ps) \subseteq LiveIn(ps) /\ Cli \in TreeIn(ps)
  BY <1>1, <1>2, DescendantsClosed DEF TreeIn
<1>4. LiveIn(ps) \subseteq PIDs /\ 0 \notin PIDs
  BY AttemptAssumption DEF LiveIn
<1>5. p \in TreeIn(ps)
  <2>1. PICK q \in TreeIn(ps) : ps[p].born = ps[q].born
    BY <1>1
  <2>2. q \in PIDs /\ ps[q].born # 0
    BY <1>3 DEF LiveIn
  <2> QED
    BY <2>1, <2>2 DEF Distinct
<1>6. ASSUME p # Cli PROVE ps[p].parent \in TreeIn(ps)
  <2>1. ParentsIn(ps)[p] \in Descendants(ParentsIn(ps))
    BY <1>1, <1>2, <1>5, <1>6, DescendantsUpward DEF TreeIn
  <2> QED
    BY <1>2, <1>3, <1>5, <2>1 DEF TreeIn
<1> QED
  BY <1>1, <1>3, <1>4, <1>5, <1>6

LEMMA KernelSteadfast ==
  ASSUME TypeOK, Kinship, Steadfast, Evolution, Kinship', UNCHANGED att,
         steady' = steady \cap TreeOf(procs)'
  PROVE  Steadfast'
<1>1. Distinct(procs) /\ Distinct(procs)'
  BY DEF Kinship, Distinct, Present
<1>2. ASSUME NEW p \in PIDs, procs'[p].born \in steady'
      PROVE  GoesOn(p) /\ procs[p].born \in steady /\ procs'[p].born = procs[p].born
             /\ procs'[p].born # 0
  <2>1. procs'[p].born \in TreeOf(procs) /\ procs'[p].born \in TreeOf(procs')
    BY <1>2 DEF Steadfast
  <2>2. procs'[p].born # 0
    <3>1. p \in LiveIn(procs')
      BY <1>1, <2>1, TreeFacts
    <3> QED
      BY <3>1 DEF LiveIn
  <2>3. ~Starts(p)
    <3>1. PICK q \in PIDs : procs'[p].born = procs[q].born
      <4>1. PICK q \in TreeIn(procs) : procs'[p].born = procs[q].born
        BY <2>1 DEF TreeOf, TreeIn, ParentsIn
      <4>2. TreeIn(procs) \subseteq PIDs
        BY DEF TreeIn, Descendants, ParentsIn, LiveIn
      <4> QED
        BY <4>1, <4>2
    <3>2. procs[q].born <= births /\ births \in Nat /\ births' \in Nat
      BY DEF Kinship, TypeOK, Evolution
    <3>3. ~(procs[q].born = births' /\ births' > births)
      BY <3>2
    <3> QED
      BY <3>1, <3>3 DEF Starts
  <2>4. procs'[p] # Free
    BY <2>2 DEF Free
  <2>5. GoesOn(p)
    BY <2>3, <2>4 DEF Evolution
  <2> QED
    BY <1>2, <2>2, <2>5 DEF GoesOn
<1>3. ASSUME NEW p \in PIDs \ {Cli}, procs'[p].born \in steady'
      PROVE  /\ procs'[p].parent # 0 /\ procs'[p].parent = procs[p].parent
             /\ procs'[procs'[p].parent].born \in steady'
  <2>1. GoesOn(p) /\ procs[p].born \in steady
    BY <1>2, <1>3
  <2>2. /\ procs'[p].parent # 0 /\ procs'[p].parent \in PIDs
        /\ procs'[procs'[p].parent].born \in TreeOf(procs')
        /\ procs'[p].parent \in LiveIn(procs')
    BY <1>1, <1>3, TreeFacts
  <2> DEFINE q == procs'[p].parent
  <2>3. q = procs[p].parent /\ procs[q].born \in steady
    BY <2>1, <2>2 DEF GoesOn, Steadfast
  <2>4. procs[q].born \in TreeOf(procs)
    BY <2>3 DEF Steadfast
  <2>5. procs[q].born # 0 /\ procs'[q].born # 0
    <3>1. q \in LiveIn(procs)
      BY <1>1, <2>2, <2>4, TreeFacts
    <3> QED
      BY <2>2, <3>1 DEF LiveIn
  <2>6. GoesOn(q)
    BY <2>2, <2>5 DEF Evolution, Starts, Free, Present
  <2> QED
    BY <2>2, <2>3, <2>6 DEF GoesOn
<1>4. ASSUME steady' # {} PROVE Alive(Cli)' /\ procs'[Cli].born \in steady'
  <2>1. Cli \in PIDs /\ procs[Cli].born \in steady /\ steady # {} /\ TreeOf(procs') # {}
    BY <1>4, AttemptAssumption DEF Steadfast
  <2>2. Cli \in LiveIn(procs')
    BY <2>1 DEF TreeOf
  <2>3. procs[Cli].born # 0 /\ procs'[Cli].born # 0 /\ procs'[Cli].code = None
    BY <2>1, <2>2, <1>4 DEF Steadfast, LiveIn, Alive, Present
  <2>4. procs'[Cli].born = procs[Cli].born
    BY <2>1, <2>3 DEF Evolution, Starts, Free, Present, GoesOn
  <2>5. procs'[Cli].born \in TreeOf(procs')
    <3>1. DOMAIN ParentsIn(procs') = LiveIn(procs')
      BY DEF ParentsIn
    <3>2. Cli \in TreeIn(procs')
      BY <2>2, <3>1, DescendantsClosed DEF TreeIn
    <3> QED
      BY <2>2, <3>2 DEF TreeOf, TreeIn, ParentsIn
  <2> QED
    BY <2>1, <2>3, <2>4, <2>5 DEF Alive, Present
<1>5. ASSUME NEW p \in PIDs \ att.census.left, At("scan"), procs'[p].born \in steady'
      PROVE  /\ p \in DOMAIN att.census.records
             /\ att.census.records[p].born = procs'[p].born
             /\ p # Cli => att.census.records[p].parent = procs'[p].parent
  <2>1. procs[p].born \in steady /\ procs'[p].born = procs[p].born
    BY <1>2, <1>5
  <2>2. p # Cli => procs'[p].parent = procs[p].parent
    BY <1>3, <1>5
  <2> QED
    BY <1>5, <2>1, <2>2 DEF Steadfast
<1>6. (att.pc # "scan" => steady' = {}) /\ (At("scan") => att.census.use \in Uses)
  BY DEF Steadfast
<1> QED
  BY <1>3, <1>4, <1>5, <1>6 DEF Steadfast, At

LEMMA KernelEvolves ==
  ASSUME IInv, KernelStep
  PROVE  Evolution /\ Kinship' /\ UNCHANGED <<att, captured, seen>>
         /\ steady' = steady \cap TreeOf(procs)'
<1>0. TypeOK /\ Kinship /\ procs \in [PIDs -> Slots] /\ births \in Nat
  BY DEF IInv, TypeOK
<1>1. CASE Fork
  <2>1. PICK parent \in PIDs, p \in PIDs, class \in HelperClasses :
          Alive(parent) /\ Start(p, parent, class, TRUE)
    BY <1>1 DEF Fork
  <2>2. class \in Classes /\ parent \in PIDs \cup {0} /\ ~Present(p) /\ births' = births + 1
        /\ procs' = [procs EXCEPT ![p] = Running(births + 1, parent, class, TRUE)]
        /\ UNCHANGED <<att, captured, seen>> /\ steady' = steady \cap TreeOf(procs')
    BY <2>1 DEF Classes, Start, Kernel
  <2> QED
    BY <1>0, <2>1, <2>2, StartEvolves
<1>2. CASE Stranger
  <2>1. PICK p \in PIDs : Start(p, 0, "other", FALSE)
    BY <1>2 DEF Stranger
  <2>2. "other" \in Classes /\ ~Present(p) /\ births' = births + 1
        /\ procs' = [procs EXCEPT ![p] = Running(births + 1, 0, "other", FALSE)]
        /\ UNCHANGED <<att, captured, seen>> /\ steady' = steady \cap TreeOf(procs')
    BY <2>1 DEF Classes, Start, Kernel
  <2> QED
    BY <1>0, <2>1, <2>2, StartEvolves
<1>3. CASE Exit
  <2>1. PICK p \in PIDs, code \in {0, 1} :
          /\ Alive(p) /\ procs' = Ended(procs, p, code) /\ UNCHANGED births
          /\ UNCHANGED <<att, captured, seen>> /\ steady' = steady \cap TreeOf(procs')
    BY <1>3 DEF Exit, Kernel
  <2> QED
    BY <1>0, <2>1, EndEvolves
<1> QED
  BY <1>1, <1>2, <1>3 DEF KernelStep

LEMMA KernelInv == ASSUME IInv, KernelStep PROVE IInv'
<1>1. TypeOK /\ Kinship
  BY DEF IInv
<1>2. Evolution /\ Kinship' /\ UNCHANGED <<att, captured, seen>>
      /\ steady' = steady \cap TreeOf(procs)'
  BY KernelEvolves
<1>3. TypeOK'
  BY <1>2 DEF IInv, TypeOK, Evolution
<1>4. Identified'
  BY <1>1, <1>2, OwnersStay DEF IInv
<1>5. Steadfast'
  BY <1>1, <1>2, KernelSteadfast DEF IInv
<1>6. Targeting'
  <2>1. ASSUME att.pc = "check" PROVE GenerationAlive(att.target)' => GenerationAlive(att.target)
    <3>1. att.target \in captured /\ att.target \in Identities
      BY <2>1 DEF IInv, Targeting, At, TypeOK
    <3>2. Owns(att.target.pid, att.target.born)
      BY <3>1 DEF IInv, Identified
    <3>3. att' = att
      BY <1>2
    <3> QED
      BY <1>1, <1>2, <3>1, <3>2, <3>3, NoRevival
  <2> QED
    BY <1>2, <2>1 DEF IInv, Targeting, At
<1>7. Lifecycle'
  <2>1. Survivors = {} => Survivors' = {}
    BY <1>1, <1>2, SurvivorsStayGone DEF IInv
  <2> QED
    BY <1>2, <2>1 DEF IInv, Lifecycle, At
<1> QED
  BY <1>2, <1>3, <1>4, <1>5, <1>6, <1>7 DEF IInv
--------------------------------------------------------------------------------
(* A step that takes no census and captures nothing.                              *)
LEMMA AsideInv ==
  ASSUME IInv, Evolution, Kinship', att' \in Attempts, Targeting',
         UNCHANGED captured, seen' \subseteq seen, steady' = {},
         att'.census = att.census \/ att'.census = NoCensus, att'.pc \notin {"scan", "launched"},
         att'.normal => /\ att'.pc \in {"verdict", "finally", "done", "raised"}
                        /\ att'.closed /\ att'.code = 0 /\ Survivors = {},
         att'.value /\ att'.pc \in {"finally", "done"} => att'.normal,
         att'.finally => ~att'.value /\ att'.pc \in FinalPlaces
  PROVE  IInv'
<1>1. TypeOK /\ Identified
  BY DEF IInv
<1>2. TypeOK'
  BY <1>1 DEF TypeOK, Evolution
<1>3. Identified'
  <2>1. CASE att'.census = att.census
    BY <1>1, <2>1, OwnersStay
  <2>2. CASE att'.census = NoCensus
    <3>1. \A i \in captured : Owns(i.pid, i.born)'
      <4>1. ASSUME NEW i \in captured PROVE Owns(i.pid, i.born)'
        BY <1>1, OwnsStays DEF TypeOK, Identities, Identified
      <4> QED
        BY <4>1
    <3>2. DOMAIN att'.census.records = {} /\ att'.census.counting = {}
      BY <2>2, EmptyFacts
    <3> QED
      BY <3>1, <3>2 DEF Identified
  <2> QED
    BY <2>1, <2>2
<1>4. Steadfast'
  BY DEF Steadfast, At
<1>5. Lifecycle'
  <2>1. Survivors = {} => Survivors' = {}
    BY <1>1, SurvivorsStayGone
  <2> QED
    BY <2>1 DEF IInv, Lifecycle, At
<1> QED
  BY <1>2, <1>3, <1>4, <1>5 DEF IInv

Calm == /\ att'.census = att.census /\ att'.closed = att.closed /\ att'.normal = att.normal
        /\ att'.finally = att.finally /\ att'.value = att.value

(* process.poll() and process.wait() collect at most the exit of the CLI.          *)
LEMMA PollFacts ==
  ASSUME IInv, NEW exited \in Places, NEW running \in Places, Poll(exited, running),
         UNCHANGED births
  PROVE  /\ Evolution /\ Kinship' /\ att' \in Attempts /\ Calm
         /\ att'.pc = exited \/ (~att.reaped /\ ~CliExited /\ att'.pc = running)
         /\ att.reaped => att'.code = att.code /\ att'.pc = exited
<1>1. TypeOK /\ Kinship /\ att \in Attempts /\ procs \in [PIDs -> Slots] /\ Cli \in PIDs
  BY AttemptAssumption DEF IInv, TypeOK
<1>2. CASE \E pc \in {exited, running} : att' = [att EXCEPT !.pc = pc] /\ UNCHANGED procs
                                        /\ (pc = exited \/ (~att.reaped /\ ~CliExited))
  <2>1. PICK pc \in {exited, running} : att' = [att EXCEPT !.pc = pc] /\ UNCHANGED procs
                                        /\ (pc = exited \/ (~att.reaped /\ ~CliExited))
    BY <1>2
  <2>2. att' \in Attempts /\ Calm /\ att'.pc = pc /\ att'.code = att.code /\ att'.reaped = att.reaped
    BY <1>1, <2>1 DEF Attempts, Calm
  <2>3. Evolution
    BY <1>1, <2>1, StillEvolves
  <2>4. Kinship'
    BY <1>1, <2>1, <2>2 DEF Kinship, Present, Alive
  <2> QED
    BY <2>1, <2>2, <2>3, <2>4
<1>3. CASE /\ CliExited /\ att' = [Collected(att) EXCEPT !.pc = exited]
           /\ procs' = [procs EXCEPT ![Cli] = Free]
  <2>1. procs[Cli].code \in Codes /\ ~att.reaped
    BY <1>1, <1>3 DEF Slots, CliExited
  <2>2. att' = [att EXCEPT !.pc = exited, !.reaped = TRUE, !.code = procs[Cli].code]
    BY <1>1, <1>3 DEF Collected, Attempts
  <2>3. att' \in Attempts /\ Calm /\ att'.pc = exited /\ att'.reaped = TRUE
    BY <1>1, <2>1, <2>2 DEF Attempts, Calm
  <2> QED
    BY <1>1, <1>3, <2>1, <2>3, CollectEvolves
<1> QED
  BY <1>2, <1>3 DEF Poll, Goes

LEMMA PollingInv ==
  ASSUME IInv, MemoryPoll \/ ClosePoll \/ WaitExit \/ JudgePoll \/ BeginForce \/ Terminate
  PROVE  IInv'
<1>1. /\ UNCHANGED <<births, captured, steady, seen>>
      /\ att.pc \in {"memory poll", "close poll", "wait exit", "judge", "force", "terminate"}
      /\ \E exited, running \in {"finish", "memory census", "judge", "native close", "survivors",
                                 "term", "force census"} :
           /\ Poll(exited, running)
           /\ att.pc \in FinalPlaces => exited \in FinalPlaces /\ running \in FinalPlaces
  BY DEF MemoryPoll, ClosePoll, WaitExit, JudgePoll, BeginForce, Terminate, Wait, Bookkeeping, At,
     FinalPlaces
<1>2. PICK exited, running \in {"finish", "memory census", "judge", "native close", "survivors",
                                "term", "force census"} :
        /\ Poll(exited, running)
        /\ att.pc \in FinalPlaces => exited \in FinalPlaces /\ running \in FinalPlaces
  BY <1>1
<1>3. exited \in Places /\ running \in Places
  BY DEF Places, Uses, Keeps
<1>4. /\ Evolution /\ Kinship' /\ att' \in Attempts /\ Calm /\ att'.pc \in {exited, running}
  BY <1>1, <1>2, <1>3, PollFacts
<1>5. steady' = {} /\ ~att'.normal /\ Targeting' /\ att'.pc # "scan"
  BY <1>1, <1>4 DEF IInv, Steadfast, Lifecycle, Calm, Targeting, At
<1>6. att'.pc \notin {"finally", "done"}
      /\ (att'.finally => ~att'.value /\ att'.pc \in FinalPlaces)
  BY <1>2, <1>4 DEF IInv, Lifecycle, Calm
<1> QED
  BY <1>1, <1>4, <1>5, <1>6, AsideInv DEF Calm

LEMMA QuietInv ==
  ASSUME IInv, UNCHANGED <<procs, births, captured, steady>>, seen' \subseteq seen,
         att' \in Attempts, att'.reaped = att.reaped, att'.code = att.code,
         att.pc # "scan", Targeting',
         att'.census = att.census \/ att'.census = NoCensus, att'.pc \notin {"scan", "launched"},
         att'.normal => /\ att'.pc \in {"verdict", "finally", "done", "raised"}
                        /\ att'.closed /\ att'.code = 0 /\ Survivors = {},
         att'.value /\ att'.pc \in {"finally", "done"} => att'.normal,
         att'.finally => ~att'.value /\ att'.pc \in FinalPlaces
  PROVE  IInv'
<1>1. Evolution
  BY StillEvolves DEF IInv
<1>2. Kinship'
  BY DEF IInv, Kinship, Present, Alive
<1>3. steady' = {}
  BY DEF IInv, Steadfast
<1> QED
  BY <1>1, <1>2, <1>3, AsideInv

(* An exception leaves the try block without a value, or the attempt.              *)
LEMMA RaiseFacts ==
  ASSUME NEW a \in Attempts, a.finally => ~a.value
  PROVE  /\ Raise(a) \in Attempts /\ Raise(a).reaped = a.reaped /\ Raise(a).code = a.code
         /\ Raise(a).census = a.census /\ Raise(a).normal = a.normal
         /\ Raise(a).finally = a.finally /\ Raise(a).closed = a.closed
         /\ ~Raise(a).value
         /\ Raise(a).pc \in {"raised", "finally"} /\ (a.finally => Raise(a).pc = "raised")
<1>1. CASE a.finally
  <2>1. Raise(a) = [a EXCEPT !.pc = "raised"] /\ "raised" \in Places
    BY <1>1 DEF Raise, Places
  <2> QED
    BY <1>1, <2>1 DEF Attempts
<1>2. CASE ~a.finally
  <2>1. Raise(a) = [a EXCEPT !.pc = "finally", !.raising = TRUE, !.value = FALSE]
        /\ "finally" \in Places
    BY <1>2 DEF Raise, Places
  <2> QED
    BY <1>2, <2>1 DEF Attempts
<1> QED
  BY <1>1, <1>2

LEMMA MemoryLoopInv == ASSUME IInv, ProtocolError \/ MemoryAgain \/ DeadlinePassed PROVE IInv'
<1>1. PICK pc \in {"finish", "memory poll"} : att' = [att EXCEPT !.pc = pc]
  BY DEF ProtocolError, MemoryAgain, DeadlinePassed, Only, Goes
<1>2. UNCHANGED <<procs, births, captured, steady, seen>>
      /\ att.pc \in {"memory poll", "memory again"}
  BY DEF ProtocolError, MemoryAgain, DeadlinePassed, ReadOnly, Bookkeeping, At
<1>3. att' \in Attempts /\ Calm /\ att'.pc = pc /\ att'.reaped = att.reaped /\ att'.code = att.code
  <2>1. pc \in Places /\ att \in Attempts
    BY DEF Places, Uses, Keeps, IInv, TypeOK
  <2> QED
    BY <1>1, <2>1 DEF Attempts, Calm
<1>4. ~att'.normal /\ ~att'.finally /\ Targeting'
  BY <1>2, <1>3 DEF IInv, Lifecycle, FinalPlaces, Calm, Targeting, At
<1> QED
  BY <1>2, <1>3, <1>4, QuietInv DEF Calm

LEMMA CloseInv == ASSUME IInv, NativeClose \/ Judge \/ Verdict PROVE IInv'
<1>1. /\ UNCHANGED <<procs, births, captured, steady>>
      /\ att.pc \in {"native close", "survivors", "verdict"}
  BY DEF NativeClose, Judge, Verdict, ReadOnly, Bookkeeping, At
<1>2. att \in Attempts /\ ~att.finally
  BY <1>1 DEF IInv, TypeOK, Lifecycle, FinalPlaces
<1>3. CASE NativeClose
  <2>1. att.pc = "native close" /\ ~att.normal
    BY <1>3 DEF NativeClose, At, IInv, Lifecycle
  <2>2. seen' \subseteq seen
    BY <1>3 DEF NativeClose
  <2>3. CASE att' = Raise(att)
    <3>1. Targeting'
      BY <1>2, <2>3, RaiseFacts DEF Targeting, At
    <3> QED
      BY <1>1, <1>2, <2>1, <2>2, <2>3, <3>1, RaiseFacts, QuietInv
  <2>4. CASE \E pc \in {"wait exit", "judge"}, closed \in BOOLEAN :
               att' = [att EXCEPT !.pc = pc, !.closed = closed]
    <3>1. PICK pc \in {"wait exit", "judge"}, closed \in BOOLEAN :
               att' = [att EXCEPT !.pc = pc, !.closed = closed]
      BY <2>4
    <3>2. /\ att' \in Attempts /\ att'.pc = pc /\ att'.census = att.census
          /\ att'.reaped = att.reaped /\ att'.code = att.code
          /\ ~att'.normal /\ ~att'.finally
      <4>1. pc \in Places
        BY DEF Places
      <4> QED
        BY <1>2, <2>1, <3>1, <4>1 DEF Attempts
    <3>3. Targeting'
      BY <3>2 DEF Targeting, At
    <3> QED
      BY <1>1, <2>1, <2>2, <3>2, <3>3, QuietInv
  <2>5. att' = [att EXCEPT !.pc = "judge"]
          => att' = [att EXCEPT !.pc = "judge", !.closed = att.closed] /\ att.closed \in BOOLEAN
    BY <1>2 DEF Attempts
  <2>6. \/ att' = [att EXCEPT !.pc = "wait exit", !.closed = TRUE]
        \/ att' = [att EXCEPT !.pc = "judge"] \/ att' = Raise(att)
    BY <1>3 DEF NativeClose, Goes, Only
  <2> QED
    BY <2>3, <2>4, <2>5, <2>6
<1>4. CASE Judge
  <2>1. PICK stage_clean \in BOOLEAN :
          LET normal == att.closed /\ att.code = 0 /\ Survivors = {} /\ stage_clean IN
          att' = [att EXCEPT !.normal = normal, !.pc = IF normal THEN "verdict" ELSE "force"]
    BY <1>4 DEF Judge, Goes
  <2> DEFINE normal == att.closed /\ att.code = 0 /\ Survivors = {} /\ stage_clean
  <2>2. CASE normal
    <3>1. att' = [att EXCEPT !.normal = TRUE, !.pc = "verdict"] /\ "verdict" \in Places
      BY <2>1, <2>2 DEF Places
    <3>2. /\ att' \in Attempts /\ att'.pc = "verdict" /\ att'.census = att.census
          /\ att'.reaped = att.reaped /\ att'.code = att.code /\ att'.closed = att.closed
          /\ att'.finally = att.finally
      BY <1>2, <3>1 DEF Attempts
    <3>3. Targeting' /\ seen' \subseteq seen
      BY <1>4, <3>2 DEF Targeting, At, Judge
    <3>4. att'.closed /\ att'.code = 0 /\ Survivors = {} /\ ~att'.finally
      BY <1>2, <2>2, <3>2
    <3> QED
      BY <1>1, <3>2, <3>3, <3>4, QuietInv
  <2>3. CASE ~normal
    <3>1. att' = [att EXCEPT !.normal = FALSE, !.pc = "force"] /\ "force" \in Places
      BY <2>1, <2>3 DEF Places
    <3>2. /\ att' \in Attempts /\ att'.pc = "force" /\ att'.census = att.census
          /\ att'.reaped = att.reaped /\ att'.code = att.code
          /\ ~att'.finally /\ ~att'.normal
      BY <1>2, <3>1 DEF Attempts
    <3>3. Targeting' /\ seen' \subseteq seen
      BY <1>4, <3>2 DEF Targeting, At, Judge
    <3> QED
      BY <1>1, <3>2, <3>3, QuietInv
  <2> QED
    BY <2>2, <2>3
<1>5. CASE Verdict
  <2>1. PICK ready \in BOOLEAN :
          att' = [att EXCEPT !.pc = "finally", !.value = att.value /\ ready /\ att.normal]
    BY <1>2, <1>5 DEF Verdict, Goes, Attempts
  <2>2. PICK value \in BOOLEAN : value = (att.value /\ ready /\ att.normal)
    OBVIOUS
  <2>3. /\ att' = [att EXCEPT !.pc = "finally", !.value = value] /\ "finally" \in Places
        /\ value => att.normal
    BY <2>1, <2>2 DEF Places
  <2>4. /\ att' \in Attempts /\ att'.pc = "finally" /\ att'.census = att.census
        /\ att'.reaped = att.reaped /\ att'.code = att.code /\ att'.closed = att.closed
        /\ att'.finally = att.finally /\ att'.normal = att.normal /\ att'.value = value
    BY <1>2, <2>3 DEF Attempts
  <2>5. Targeting' /\ seen' \subseteq seen
    BY <1>5, <2>4 DEF Targeting, At, Verdict, ReadOnly, Bookkeeping
  <2>6. att.normal => att.closed /\ att.code = 0 /\ Survivors = {}
    BY DEF IInv, Lifecycle
  <2> QED
    BY <1>1, <1>2, <2>3, <2>4, <2>5, <2>6, QuietInv
<1> QED
  BY <1>3, <1>4, <1>5

LEMMA CollectedFacts ==
  ASSUME IInv, CliExited
  PROVE  /\ Collected(att) \in Attempts /\ Collected(att).reaped = TRUE
         /\ Collected(att).census = att.census /\ Collected(att).finally = att.finally
         /\ Collected(att).value = att.value /\ Collected(att).closed = att.closed
         /\ Collected(att).normal = att.normal /\ Collected(att).pc = att.pc
         /\ Collected(att).raising = att.raising /\ ~att.normal
<1>1. att \in Attempts /\ procs[Cli].code \in Codes
  BY AttemptAssumption DEF IInv, TypeOK, Slots
<1>2. ~att.normal
  <2>1. ~att.reaped /\ att.code = None /\ None # 0
    BY AttemptAssumption DEF CliExited, IInv, Kinship
  <2> QED
    BY <2>1 DEF IInv, Lifecycle
<1> QED
  BY <1>1, <1>2 DEF Collected, Attempts

LEMMA AwaitInv == ASSUME IInv, AwaitBeacon PROVE IInv'
<1>1. /\ att.pc = "waiting" /\ UNCHANGED <<births, captured, steady, seen>>
      /\ att \in Attempts /\ ~att.finally /\ ~att.normal /\ steady = {}
  BY DEF AwaitBeacon, At, Bookkeeping, IInv, TypeOK, Lifecycle, FinalPlaces, Steadfast
<1>2. CASE \E pc \in {"paint census", "memory poll", "finish"}, value \in BOOLEAN :
             att' = [att EXCEPT !.value = value, !.pc = pc] /\ UNCHANGED procs
  <2>1. PICK pc \in {"paint census", "memory poll", "finish"}, value \in BOOLEAN :
               att' = [att EXCEPT !.value = value, !.pc = pc] /\ UNCHANGED procs
    BY <1>2
  <2>2. /\ att' \in Attempts /\ att'.pc = pc /\ att'.census = att.census
        /\ att'.reaped = att.reaped /\ att'.code = att.code
        /\ ~att'.finally /\ ~att'.normal
    <3>1. pc \in Places
      BY DEF Places, Uses, Keeps
    <3> QED
      BY <1>1, <2>1, <3>1 DEF Attempts
  <2>3. Targeting'
    BY <2>2 DEF Targeting, At
  <2> QED
    BY <1>1, <2>1, <2>2, <2>3, QuietInv
<1>3. CASE \E pc \in {"paint census", "finish"} :
             /\ CliExited /\ att' = [Collected(att) EXCEPT !.pc = pc]
             /\ procs' = [procs EXCEPT ![Cli] = Free]
  <2>1. PICK pc \in {"paint census", "finish"} :
             /\ CliExited /\ att' = [Collected(att) EXCEPT !.pc = pc]
             /\ procs' = [procs EXCEPT ![Cli] = Free]
    BY <1>3
  <2>2. /\ att' \in Attempts /\ att'.pc = pc /\ att'.census = att.census /\ att'.reaped = TRUE
        /\ ~att'.finally /\ ~att'.normal
    <3>1. pc \in Places
      BY DEF Places, Uses, Keeps
    <3> QED
      BY <1>1, <2>1, <3>1, CollectedFacts DEF Attempts
  <2>3. Evolution /\ Kinship'
    BY <1>1, <2>1, <2>2, CollectEvolves DEF IInv
  <2>4. Targeting'
    BY <2>2 DEF Targeting, At
  <2> QED
    BY <1>1, <2>1, <2>2, <2>3, <2>4, AsideInv
<1>4. ASSUME NEW accepted \in BOOLEAN,
             att' = [att EXCEPT !.value = accepted /\ att.kind = "paint",
                                !.pc = IF att.kind = "paint" THEN "paint census"
                                       ELSE IF accepted THEN "memory poll" ELSE "finish"],
             UNCHANGED procs
      PROVE  IInv'
  <2>1. PICK value \in BOOLEAN : value = (accepted /\ att.kind = "paint")
    OBVIOUS
  <2>2. PICK pc \in {"paint census", "memory poll", "finish"} :
          pc = IF att.kind = "paint" THEN "paint census"
               ELSE IF accepted THEN "memory poll" ELSE "finish"
    OBVIOUS
  <2>3. att' = [att EXCEPT !.value = value, !.pc = pc]
    BY <1>4, <2>1, <2>2
  <2> QED
    BY <1>2, <1>4, <2>3
<1>5. CASE /\ CliExited
           /\ att' = [Collected(att) EXCEPT !.pc = IF att.kind = "paint" THEN "paint census"
                                                   ELSE "finish"]
           /\ procs' = [procs EXCEPT ![Cli] = Free]
  BY <1>3, <1>5
<1> QED
  BY <1>4, <1>5 DEF AwaitBeacon, Goes

LEMMA FinallyInv == ASSUME IInv, Finally PROVE IInv'
<1>1. /\ att.pc = "finally" /\ UNCHANGED <<births, captured, steady, seen>>
      /\ att \in Attempts /\ ~att.finally /\ steady = {} /\ (att.value => att.normal)
      /\ att.normal => att.closed /\ att.code = 0 /\ Survivors = {} /\ att.reaped
  <2>1. att.pc = "finally" /\ UNCHANGED <<births, captured, steady, seen>>
    BY DEF Finally, At, Bookkeeping
  <2>2. att.normal => att.closed /\ att.code = 0 /\ Survivors = {} /\ att.reaped
    <3>1. 0 # None
      BY AttemptAssumption
    <3> QED
      BY <3>1 DEF IInv, Lifecycle, Kinship
  <2> QED
    BY <2>1, <2>2 DEF IInv, TypeOK, Lifecycle, FinalPlaces, Steadfast
<1>2. ASSUME att.reaped \/ CliExited, NEW exited \in {"raised", "done"}, Poll(exited, "force")
      PROVE  IInv'
  <2>1. exited \in Places /\ "force" \in Places
    BY DEF Places
  <2>2. /\ Evolution /\ Kinship' /\ att' \in Attempts /\ Calm /\ att'.pc = exited
        /\ att.reaped => att'.code = att.code
    BY <1>1, <1>2, <2>1, PollFacts
  <2>3. Targeting'
    BY <2>2 DEF Targeting, At
  <2> QED
    BY <1>1, <2>2, <2>3, AsideInv DEF Calm
<1>3. CASE ~att.reaped /\ att' = [att EXCEPT !.pc = "force", !.finally = TRUE] /\ UNCHANGED procs
  <2>1. /\ att' \in Attempts /\ att'.pc = "force" /\ att'.census = att.census
        /\ att'.reaped = att.reaped /\ att'.code = att.code /\ att'.value = att.value
        /\ att'.normal = att.normal
    <3>1. "force" \in Places
      BY DEF Places
    <3> QED
      BY <1>1, <1>3, <3>1 DEF Attempts
  <2>2. ~att'.value /\ ~att'.normal /\ Targeting' /\ att'.pc \in FinalPlaces
    BY <1>1, <1>3, <2>1 DEF Targeting, At, FinalPlaces
  <2> QED
    BY <1>1, <1>3, <2>1, <2>2, QuietInv
<1> QED
  BY <1>2, <1>3 DEF Finally, Goes

LEMMA KillCliInv == ASSUME IInv, KillCli PROVE IInv'
<1>1. /\ att.pc = "kill poll" /\ UNCHANGED <<births, captured, seen>>
      /\ att \in Attempts /\ ~att.normal /\ steady = {} /\ (att.finally => ~att.value)
      /\ TypeOK /\ Kinship
  BY DEF KillCli, At, IInv, TypeOK, Lifecycle, Steadfast
<1>2. ASSUME NEW a \in Attempts, a.pc = "kill poll", a.finally = att.finally, a.value = att.value
      PROVE  /\ Forced(a) \in Attempts /\ Forced(a).pc \in {"raised", "done", "verdict"}
             /\ Forced(a).finally = a.finally /\ Forced(a).normal = a.normal
             /\ Forced(a).reaped = a.reaped /\ Forced(a).code = a.code
             /\ Forced(a).value = a.value /\ Forced(a).census = a.census
             /\ a.finally => Forced(a).pc # "verdict"
             /\ ~a.finally => Forced(a).pc = "verdict"
  <2>1. PICK pc \in {"raised", "done", "verdict"} :
          /\ Forced(a) = [a EXCEPT !.pc = pc]
          /\ a.finally => pc # "verdict"
          /\ ~a.finally => pc = "verdict"
    BY DEF Forced
  <2>2. pc \in Places
    BY DEF Places
  <2> QED
    BY <1>2, <2>1, <2>2 DEF Attempts
<1>3. CASE att' = Forced(att) /\ UNCHANGED <<procs, steady>>
  <2>1. Targeting' /\ (att'.finally => att'.pc \in FinalPlaces)
    BY <1>1, <1>2, <1>3 DEF Targeting, At, FinalPlaces
  <2> QED
    BY <1>1, <1>2, <1>3, <2>1, QuietInv
<1>4. CASE /\ CliExited /\ att' = Forced(Collected(att)) /\ UNCHANGED steady
           /\ procs' = [procs EXCEPT ![Cli] = Free]
  <2>1. /\ att' \in Attempts /\ att'.pc \in {"raised", "done", "verdict"}
        /\ att'.finally = att.finally /\ ~att'.normal /\ att'.reaped = TRUE
        /\ att'.value = att.value /\ att'.census = att.census
        /\ att.finally => att'.pc # "verdict"
        /\ ~att.finally => att'.pc = "verdict"
    BY <1>1, <1>2, <1>4, CollectedFacts
  <2>2. Evolution /\ Kinship'
    BY <1>1, <1>4, <2>1, CollectEvolves
  <2>3. Targeting' /\ (att'.finally => att'.pc \in FinalPlaces)
    BY <2>1 DEF Targeting, At, FinalPlaces
  <2> QED
    BY <1>1, <1>4, <2>1, <2>2, <2>3, AsideInv
<1>5. CASE /\ Alive(Cli) /\ procs' = Ended(procs, Cli, 1) /\ steady' = {}
           /\ att' = [att EXCEPT !.pc = "kill poll"]
  <2>1. att' = att
    BY <1>1, <1>5 DEF Attempts
  <2>2. Evolution /\ Kinship'
    <3>1. Cli \in PIDs /\ 1 \in {0, 1}
      BY AttemptAssumption
    <3> QED
      BY <1>1, <1>5, <2>1, <3>1, EndEvolves
  <2>3. Targeting' /\ att.pc \in FinalPlaces
    BY <1>1, <2>1 DEF Targeting, At, FinalPlaces
  <2> QED
    BY <1>1, <1>5, <2>1, <2>2, <2>3, AsideInv
<1>6. CASE att' = Raise(att) /\ UNCHANGED <<procs, steady>>
  <2>1. Targeting' /\ (att'.finally => att'.pc \in FinalPlaces)
    BY <1>1, <1>6, RaiseFacts DEF Targeting, At, FinalPlaces
  <2> QED
    BY <1>1, <1>6, <2>1, RaiseFacts, QuietInv
<1> QED
  BY <1>3, <1>4, <1>5, <1>6 DEF KillCli, Goes, Only

LEMMA LaunchInv == ASSUME IInv, Launch PROVE IInv'
<1>1. /\ att.pc = "launched" /\ UNCHANGED <<procs, births, steady, seen>>
      /\ att \in Attempts /\ ~att.finally /\ ~att.normal /\ steady = {}
      /\ Cli \in PIDs /\ procs[Cli].born \in Nat
  BY AttemptAssumption
     DEF Launch, At, IInv, TypeOK, Slots, Lifecycle, FinalPlaces, Steadfast
<1>2. CASE /\ Alive(Cli) /\ att' = [att EXCEPT !.pc = "waiting", !.root = procs[Cli].born]
           /\ captured' = {[pid |-> Cli, born |-> procs[Cli].born]}
  <2>1. /\ att' \in Attempts /\ att'.pc = "waiting" /\ att'.census = att.census
        /\ att'.reaped = att.reaped /\ att'.code = att.code
        /\ ~att'.finally /\ ~att'.normal
    <3>1. "waiting" \in Places
      BY DEF Places
    <3> QED
      BY <1>1, <1>2, <3>1 DEF Attempts
  <2>2. Owns(Cli, procs[Cli].born)
    BY <1>1, <1>2 DEF Owns, IInv, Kinship, Alive, Present
  <2>3. TypeOK' /\ Kinship'
    BY <1>1, <1>2, <2>1 DEF IInv, TypeOK, Kinship, Identities, Present, Alive
  <2>4. Identified'
    BY <1>1, <1>2, <2>1, <2>2 DEF IInv, Identified, Owns
  <2>5. Targeting' /\ Steadfast'
    BY <1>1, <2>1 DEF Targeting, At, Steadfast
  <2>6. Lifecycle'
    <3>1. seen = {}
      BY <1>1 DEF IInv, Lifecycle, At
    <3> QED
      BY <1>1, <2>1, <3>1 DEF Lifecycle, At
  <2> QED
    BY <2>3, <2>4, <2>5, <2>6 DEF IInv
<1>3. CASE att' = [att EXCEPT !.pc = "verdict"] /\ UNCHANGED captured
  <2>1. /\ att' \in Attempts /\ att'.pc = "verdict" /\ att'.census = att.census
        /\ att'.reaped = att.reaped /\ att'.code = att.code
        /\ ~att'.finally /\ ~att'.normal
    <3>1. "verdict" \in Places
      BY DEF Places
    <3> QED
      BY <1>1, <1>3, <3>1 DEF Attempts
  <2>2. Targeting'
    BY <2>1 DEF Targeting, At
  <2> QED
    BY <1>1, <1>3, <2>1, <2>2, QuietInv
<1> QED
  BY <1>2, <1>3 DEF Launch, Goes, Only

LEMMA TargetInv == ASSUME IInv, NEW sig \in {"term", "kill"}, Target(sig) PROVE IInv'
<1>1. /\ att.pc = sig /\ UNCHANGED <<procs, births, captured, steady, seen>>
      /\ att \in Attempts /\ ~att.normal /\ (att.finally => ~att.value)
      /\ Survivors \subseteq captured /\ Survivors \in SUBSET Identities
  BY DEF Target, At, ReadOnly, Bookkeeping, IInv, TypeOK, Lifecycle, Survivors
<1>2. PICK pc \in {"kill poll", "open"} :
        att' = [att EXCEPT !.signal = sig, !.todo = Survivors, !.pc = pc]
  BY DEF Target, Goes
<1>3. /\ att' \in Attempts /\ att'.pc = pc /\ att'.todo = Survivors
      /\ att'.census = att.census /\ att'.reaped = att.reaped /\ att'.code = att.code
      /\ att'.finally = att.finally /\ ~att'.normal /\ att'.value = att.value
  <2>1. pc \in Places
    BY DEF Places
  <2> QED
    BY <1>1, <1>2, <2>1 DEF Attempts
<1>4. Targeting' /\ att'.pc \in FinalPlaces
  BY <1>1, <1>3 DEF Targeting, At, FinalPlaces
<1> QED
  BY <1>1, <1>3, <1>4, QuietInv

LEMMA OpenInv == ASSUME IInv, Open PROVE IInv'
<1>1. /\ att.pc = "open" /\ UNCHANGED <<procs, births, captured, steady, seen>>
      /\ att \in Attempts /\ ~att.normal /\ (att.finally => ~att.value)
      /\ att.todo \subseteq captured /\ captured \subseteq Identities
  BY DEF Open, At, ReadOnly, Bookkeeping, IInv, TypeOK, Lifecycle, Targeting
<1>2. PICK pc \in {"kill", "kill poll", "open", "check"}, todo \in SUBSET att.todo,
           target \in captured \cup {att.target}, fd \in Nat :
        /\ att' = [att EXCEPT !.pc = pc, !.todo = todo, !.target = target, !.fd = fd]
        /\ pc = "check" => target \in captured /\ fd = procs[target.pid].born
  <2>1. att.fd \in Nat
    BY <1>1 DEF Attempts
  <2>2. CASE \E pc \in {"kill", "kill poll"} : att' = [att EXCEPT !.pc = pc]
    <3>1. PICK pc \in {"kill", "kill poll"} : att' = [att EXCEPT !.pc = pc]
      BY <2>2
    <3>2. att' = [att EXCEPT !.pc = pc, !.todo = att.todo, !.target = att.target, !.fd = att.fd]
      BY <1>1, <3>1 DEF Attempts
    <3> QED
      BY <2>1, <3>2
  <2>3. ASSUME NEW i \in att.todo, Present(i.pid),
               att' = [att EXCEPT !.pc = "check", !.target = i, !.fd = procs[i.pid].born]
        PROVE  \E pc \in {"kill", "kill poll", "open", "check"}, todo \in SUBSET att.todo,
                  target \in captured \cup {att.target}, fd \in Nat :
                 /\ att' = [att EXCEPT !.pc = pc, !.todo = todo, !.target = target, !.fd = fd]
                 /\ pc = "check" => target \in captured /\ fd = procs[target.pid].born
    <3>1. i \in captured /\ procs[i.pid].born \in Nat
      BY <1>1 DEF IInv, TypeOK, Identities, Slots
    <3>2. att' = [att EXCEPT !.pc = "check", !.todo = att.todo, !.target = i,
                             !.fd = procs[i.pid].born]
      BY <1>1, <2>3 DEF Attempts
    <3> QED
      BY <3>1, <3>2
  <2>4. ASSUME NEW i \in att.todo, att' = [att EXCEPT !.todo = @ \ {i}]
        PROVE  \E pc \in {"kill", "kill poll", "open", "check"}, todo \in SUBSET att.todo,
                  target \in captured \cup {att.target}, fd \in Nat :
                 /\ att' = [att EXCEPT !.pc = pc, !.todo = todo, !.target = target, !.fd = fd]
                 /\ pc = "check" => target \in captured /\ fd = procs[target.pid].born
    <3>1. att' = [att EXCEPT !.pc = "open", !.todo = att.todo \ {i}, !.target = att.target,
                             !.fd = att.fd]
      BY <1>1, <2>4 DEF Attempts
    <3> QED
      BY <2>1, <3>1
  <2> QED
    BY <2>2, <2>3, <2>4 DEF Open, Goes
<1>3. /\ att' \in Attempts /\ att'.pc = pc /\ att'.todo = todo /\ att'.target = target
      /\ att'.fd = fd
      /\ att'.census = att.census /\ att'.reaped = att.reaped /\ att'.code = att.code
      /\ att'.finally = att.finally /\ ~att'.normal /\ att'.value = att.value
  <2>1. pc \in Places /\ todo \in SUBSET Identities /\ target \in Identities \cup {None}
    BY <1>1 DEF Places, Attempts
  <2> QED
    BY <1>1, <1>2, <2>1 DEF Attempts
<1>4. Targeting'
  <2>1. ASSUME pc = "check", GenerationAlive(target) PROVE fd = target.born
    <3>1. None \notin Nat /\ target \in Identities
      BY <1>1, <1>2, <2>1, AttemptAssumption
    <3> QED
      BY <1>2, <2>1, <3>1 DEF GenerationAlive, ProcIdentity, Identities
  <2>2. GenerationAlive(att.target)' <=> GenerationAlive(target)
    BY <1>1, <1>3 DEF GenerationAlive, ProcIdentity, Alive, Present
  <2>3. /\ At("open")' \/ At("check")' \/ At("send")' => att'.todo \subseteq captured'
        /\ At("check")' => att'.target \in captured'
        /\ ~At("send")'
    <3>1. att'.todo \subseteq captured'
      BY <1>1, <1>3
    <3>2. At("check")' => att'.target \in captured'
      BY <1>1, <1>2, <1>3 DEF At
    <3>3. ~At("send")'
      BY <1>3 DEF At
    <3> QED
      BY <3>1, <3>2, <3>3
  <2>4. At("check")' /\ GenerationAlive(att.target)' => att'.fd = att'.target.born
    BY <1>3, <2>1, <2>2 DEF At
  <2> QED
    BY <2>3, <2>4 DEF Targeting
<1>5. att'.pc \in FinalPlaces
  BY <1>3 DEF FinalPlaces
<1> QED
  BY <1>1, <1>3, <1>4, <1>5, QuietInv

LEMMA CheckInv == ASSUME IInv, Check PROVE IInv'
<1>1. /\ att.pc = "check" /\ UNCHANGED <<procs, births, captured, steady, seen>>
      /\ att \in Attempts /\ ~att.normal /\ (att.finally => ~att.value)
      /\ att.todo \subseteq captured /\ att.target \in captured /\ captured \subseteq Identities
      /\ (GenerationAlive(att.target) => att.fd = att.target.born)
  BY DEF Check, At, ReadOnly, Bookkeeping, IInv, TypeOK, Lifecycle, Targeting
<1>2. CASE GenerationAlive(att.target)
  <2>1. att' = [att EXCEPT !.pc = "send"] /\ "send" \in Places
    BY <1>2 DEF Check, Goes, Places
  <2>2. /\ att' \in Attempts /\ att'.pc = "send" /\ att'.todo = att.todo
        /\ att'.target = att.target /\ att'.fd = att.fd
        /\ att'.census = att.census /\ att'.reaped = att.reaped /\ att'.code = att.code
        /\ att'.finally = att.finally /\ ~att'.normal /\ att'.value = att.value
    BY <1>1, <2>1 DEF Attempts
  <2>3. Targeting' /\ att'.pc \in FinalPlaces
    BY <1>1, <1>2, <2>2 DEF Targeting, At, FinalPlaces
  <2> QED
    BY <1>1, <2>2, <2>3, QuietInv
<1>3. CASE ~GenerationAlive(att.target)
  <2>1. att' = [att EXCEPT !.pc = "open", !.todo = att.todo \ {att.target}, !.target = None,
                           !.fd = 0]
    BY <1>1, <1>3 DEF Check, Goes, Attempts
  <2>2. /\ att' \in Attempts /\ att'.pc = "open" /\ att'.todo \subseteq captured
        /\ att'.census = att.census /\ att'.reaped = att.reaped /\ att'.code = att.code
        /\ att'.finally = att.finally /\ ~att'.normal /\ att'.value = att.value
    <3>1. "open" \in Places /\ att.todo \ {att.target} \in SUBSET Identities
      BY <1>1 DEF Places
    <3> QED
      BY <1>1, <2>1, <3>1 DEF Attempts
  <2>3. Targeting' /\ att'.pc \in FinalPlaces
    BY <1>1, <2>2 DEF Targeting, At, FinalPlaces
  <2> QED
    BY <1>1, <2>2, <2>3, QuietInv
<1> QED
  BY <1>2, <1>3

LEMMA SendInv == ASSUME IInv, Send PROVE IInv'
<1>1. /\ att.pc = "send" /\ UNCHANGED <<births, captured, seen>> /\ steady = {}
      /\ att \in Attempts /\ ~att.normal /\ (att.finally => ~att.value)
      /\ att.todo \subseteq captured /\ captured \subseteq Identities
      /\ TypeOK /\ Kinship
  BY DEF Send, At, IInv, TypeOK, Lifecycle, Targeting, Steadfast
<1> DEFINE done == [att EXCEPT !.pc = "open", !.todo = att.todo \ {att.target},
                               !.target = None, !.fd = 0]
<1>2. /\ done \in Attempts /\ done.pc = "open" /\ done.todo \subseteq captured
      /\ done.census = att.census /\ done.reaped = att.reaped /\ done.code = att.code
      /\ done.finally = att.finally /\ ~done.normal /\ done.value = att.value
  <2>1. "open" \in Places /\ att.todo \ {att.target} \in SUBSET Identities
    BY <1>1 DEF Places
  <2> QED
    BY <1>1, <2>1 DEF Attempts
<1>3. \/ att' = Raise([done EXCEPT !.todo = {}]) /\ UNCHANGED <<procs, steady>>
      \/ \E p \in PIDs : /\ att' = done /\ steady' \subseteq steady
                         /\ \/ Alive(p) /\ procs' = Ended(procs, p, 1)
                            \/ UNCHANGED procs
  <2>1. done = [att EXCEPT !.pc = "open", !.todo = @ \ {att.target}, !.target = None, !.fd = 0]
    BY <1>1 DEF Attempts
  <2> HIDE DEF done
  <2> QED
    BY <2>1 DEF Send, Goes
<1> HIDE DEF done
<1>4. CASE att' = Raise([done EXCEPT !.todo = {}]) /\ UNCHANGED <<procs, steady>>
  <2> DEFINE a == [done EXCEPT !.todo = {}]
  <2>1. /\ a \in Attempts /\ a.census = att.census /\ a.reaped = att.reaped /\ a.code = att.code
        /\ a.finally = att.finally /\ ~a.normal /\ (a.finally => ~a.value)
    BY <1>1, <1>2 DEF Attempts
  <2> HIDE DEF a
  <2>2. att' = Raise(a)
    BY <1>4 DEF a
  <2>3. Targeting' /\ (att'.finally => att'.pc \in FinalPlaces)
    BY <2>1, <2>2, RaiseFacts DEF Targeting, At, FinalPlaces
  <2> QED
    BY <1>1, <1>4, <2>1, <2>2, <2>3, RaiseFacts, QuietInv
<1>5. ASSUME NEW p \in PIDs, att' = done, steady' \subseteq steady,
             \/ Alive(p) /\ procs' = Ended(procs, p, 1)
             \/ UNCHANGED procs
      PROVE  IInv'
  <2>1. Targeting' /\ att'.pc \in FinalPlaces /\ att'.pc = "open"
    BY <1>1, <1>2, <1>5 DEF Targeting, At, FinalPlaces
  <2>2. CASE Alive(p) /\ procs' = Ended(procs, p, 1)
    <3>1. Evolution /\ Kinship'
      BY <1>1, <1>2, <1>5, <2>2, EndEvolves
    <3> QED
      BY <1>1, <1>2, <1>5, <2>1, <3>1, AsideInv
  <2>3. CASE UNCHANGED procs
    BY <1>1, <1>2, <1>5, <2>1, <2>3, QuietInv
  <2> QED
    BY <1>5, <2>2, <2>3
<1> QED
  BY <1>3, <1>4, <1>5
--------------------------------------------------------------------------------
LEMMA MembersFacts ==
  ASSUME NEW records \in Records
  PROVE  /\ Members(records) \in SUBSET Counted
         /\ \A m \in Members(records) : m.pid \in DOMAIN records /\ m.born = records[m.pid].born
<1> DEFINE parents == [p \in DOMAIN records |-> records[p].parent]
<1>1. /\ DOMAIN records \subseteq PIDs
      /\ \A p \in DOMAIN records : records[p].born \in Nat /\ records[p].class \in Classes
  BY DEF Records, Entries
<1>2. Descendants(parents) \subseteq DOMAIN records
  BY DEF Descendants
<1> HIDE DEF parents
<1>3. Members(records) =
        {[pid |-> p, born |-> records[p].born, class |-> records[p].class] : p \in Descendants(parents)}
  BY DEF Members, parents
<1> QED
  BY <1>1, <1>2, <1>3 DEF Counted

(* Where a census goes on, with whatever it found.                                *)
LEMMA AfterCensusFacts ==
  ASSUME NEW use \in Uses, NEW found \in SUBSET Counted, att \in Attempts
  PROVE  /\ AfterCensus(use, found) \in Attempts
         /\ AfterCensus(use, found).reaped = att.reaped
         /\ AfterCensus(use, found).code = att.code
         /\ AfterCensus(use, found).normal = att.normal
         /\ AfterCensus(use, found).finally = att.finally
         /\ AfterCensus(use, found).value => att.value
         /\ AfterCensus(use, found).pc \in
              {"finish", "memory again", "count", "close poll", "terminate"}
         /\ use = "force census" => AfterCensus(use, found).pc = "terminate"
         /\ found = {} => AfterCensus(use, found).census = NoCensus
         /\ \/ AfterCensus(use, found).census = NoCensus
            \/ /\ use = "memory census" /\ found # {}
               /\ AfterCensus(use, found).census = [att.census EXCEPT !.counting = found]
<1>0. NoCensus \in Censuses /\ <<>> \in Seq(Snapshots) /\ att.census \in Censuses
      /\ att.history \in Seq(Snapshots) /\ att.value \in BOOLEAN
      /\ {"finish", "memory again", "count", "close poll", "terminate"} \subseteq Places
  <2>1. {"finish", "memory again", "count", "close poll", "terminate"} \subseteq Places
    BY DEF Places, Uses, Keeps
  <2>2. att.census \in Censuses /\ att.history \in Seq(Snapshots) /\ att.value \in BOOLEAN
    BY DEF Attempts
  <2>3. <<>> \in Seq(Snapshots)
    OBVIOUS
  <2> QED
    BY <2>1, <2>2, <2>3, EmptyFacts
<1>1. CASE use = "paint census"
  <2>1. PICK value \in BOOLEAN :
          value = (att.value /\ CompleteTree(found) /\ Count(found, "webkit") >= 1)
    OBVIOUS
  <2>2. AfterCensus(use, found)
          = [att EXCEPT !.pc = "finish", !.census = NoCensus, !.value = value]
    BY <1>1, <2>1 DEF AfterCensus
  <2> DEFINE next == [att EXCEPT !.pc = "finish", !.census = NoCensus, !.value = value]
  <2>3. next \in Attempts
    BY <1>0 DEF Attempts
  <2>4. /\ next.reaped = att.reaped /\ next.code = att.code /\ next.normal = att.normal
        /\ next.finally = att.finally /\ next.value = value /\ next.pc = "finish"
        /\ next.census = NoCensus
    BY DEF Attempts
  <2> HIDE DEF next
  <2>5. AfterCensus(use, found) = next
    BY <2>2 DEF next
  <2> QED
    BY <1>1, <2>1, <2>3, <2>4, <2>5
<1>2. CASE use = "memory census"
  <2>1. CASE found = {}
    <3>1. AfterCensus(use, found) = [att EXCEPT !.pc = "memory again", !.census = NoCensus]
      BY <1>2, <2>1 DEF AfterCensus
    <3> QED
      BY <1>0, <1>2, <3>1 DEF Attempts
  <2>2. CASE found # {}
    <3>1. AfterCensus(use, found)
            = [att EXCEPT !.pc = "count", !.census = [att.census EXCEPT !.counting = found]]
      BY <1>2, <2>2 DEF AfterCensus, Attempts
    <3>2. [att.census EXCEPT !.counting = found] \in Censuses
      BY <1>0 DEF Censuses
    <3> QED
      BY <1>0, <1>2, <2>2, <3>1, <3>2 DEF Attempts
  <2> QED
    BY <2>1, <2>2
<1>3. CASE use = "finish"
  <2>1. AfterCensus(use, found)
          = [att EXCEPT !.pc = "close poll", !.census = NoCensus, !.history = <<>>]
    BY <1>3 DEF AfterCensus
  <2> QED
    BY <1>0, <1>3, <2>1 DEF Attempts
<1>4. CASE use = "force census"
  <2>1. AfterCensus(use, found) = [att EXCEPT !.pc = "terminate", !.census = NoCensus]
    BY <1>4 DEF AfterCensus
  <2> QED
    BY <1>0, <1>4, <2>1 DEF Attempts
<1> QED
  BY <1>1, <1>2, <1>3, <1>4 DEF Uses, Keeps

LEMMA BeginCensusInv == ASSUME IInv, NEW use \in Uses, BeginCensus(use) PROVE IInv'
<1>1. /\ att.pc = use /\ UNCHANGED <<procs, births, captured, seen>>
      /\ att \in Attempts /\ ~att.normal /\ (att.finally => ~att.value)
      /\ (att.finally => use = "force census") /\ steady = {}
      /\ TypeOK /\ Kinship /\ Cli \in PIDs
  BY AttemptAssumption
     DEF BeginCensus, At, IInv, TypeOK, Lifecycle, FinalPlaces, Steadfast, Uses, Keeps
<1>2. CASE ProcIdentity(Cli) = None
  <2>1. att' = AfterCensus(use, {}) /\ {} \in SUBSET Counted
    BY <1>2 DEF BeginCensus, Goes
  <2>2. steady' = {}
    <3>1. Cli \notin LiveIn(procs)
      <4>1. procs[Cli].born \in Nat /\ None \notin Nat
        BY <1>1, AttemptAssumption DEF TypeOK, Slots
      <4> QED
        BY <1>2, <4>1 DEF ProcIdentity, LiveIn, Alive, Present
    <3> QED
      BY <3>1 DEF BeginCensus, TreeOf
  <2>3. /\ att' \in Attempts /\ att'.reaped = att.reaped /\ att'.code = att.code
        /\ att'.normal = att.normal /\ att'.finally = att.finally /\ (att'.value => att.value)
        /\ att'.pc \in {"finish", "memory again", "count", "close poll", "terminate"}
        /\ use = "force census" => att'.pc = "terminate"
        /\ att'.census = NoCensus
    <3>1. att \in Attempts /\ use \in Uses /\ {} \in SUBSET Counted
      BY <1>1
    <3> DEFINE found == {}
    <3>2. found \in SUBSET Counted /\ att' = AfterCensus(use, found) /\ found = {}
      BY <2>1
    <3> HIDE DEF found
    <3>3. /\ AfterCensus(use, found) \in Attempts
          /\ AfterCensus(use, found).reaped = att.reaped
          /\ AfterCensus(use, found).code = att.code
          /\ AfterCensus(use, found).normal = att.normal
          /\ AfterCensus(use, found).finally = att.finally
          /\ AfterCensus(use, found).value => att.value
      BY <3>1, <3>2, AfterCensusFacts
    <3>4. /\ AfterCensus(use, found).pc \in
               {"finish", "memory again", "count", "close poll", "terminate"}
          /\ use = "force census" => AfterCensus(use, found).pc = "terminate"
      BY <3>1, <3>2, AfterCensusFacts
    <3>5. AfterCensus(use, found).census = NoCensus
      BY <3>1, <3>2, AfterCensusFacts
    <3> QED
      BY <3>2, <3>3, <3>4, <3>5
  <2>4. Targeting' /\ (att'.finally => att'.pc \in FinalPlaces)
    BY <1>1, <2>3 DEF Targeting, At, FinalPlaces
  <2> QED
    BY <1>1, <2>2, <2>3, <2>4, QuietInv DEF Uses, Keeps
<1>3. CASE ProcIdentity(Cli) # None /\ ProcIdentity(Cli) # att.root
  <2>1. att' = Raise(att) /\ steady' = {}
    BY <1>3 DEF BeginCensus, Goes
  <2>2. Targeting' /\ (att'.finally => att'.pc \in FinalPlaces)
    BY <1>1, <2>1, RaiseFacts DEF Targeting, At, FinalPlaces
  <2> QED
    BY <1>1, <2>1, <2>2, RaiseFacts, QuietInv DEF Uses, Keeps
<1>4. CASE ProcIdentity(Cli) # None /\ ProcIdentity(Cli) = att.root
  <2> DEFINE census == [NoCensus EXCEPT !.use = use, !.left = PIDs]
  <2>1. /\ att' = [att EXCEPT !.pc = "scan", !.census = census]
        /\ steady' = TreeOf(procs)
    BY <1>4 DEF BeginCensus, Goes
  <2>2. /\ census \in Censuses /\ census.use = use /\ census.left = PIDs
        /\ census.records = <<>> /\ census.counting = {}
    <3>1. NoCensus \in Censuses /\ NoCensus.records = <<>> /\ NoCensus.counting = {}
      BY EmptyFacts
    <3> QED
      BY <3>1 DEF Censuses
  <2> HIDE DEF census
  <2>3. /\ att' \in Attempts /\ att'.pc = "scan" /\ att'.census = census
        /\ att'.reaped = att.reaped /\ att'.code = att.code
        /\ att'.finally = att.finally /\ att'.value = att.value /\ att'.normal = att.normal
    <3>1. "scan" \in Places
      BY DEF Places
    <3> QED
      BY <1>1, <2>1, <2>2, <3>1 DEF Attempts
  <2>4. TypeOK' /\ Kinship'
    BY <1>1, <2>3 DEF TypeOK, Kinship, Present, Alive
  <2>5. Identified'
    <3>1. DOMAIN att'.census.records = {} /\ att'.census.counting = {}
      BY <2>2, <2>3, EmptyFacts
    <3> QED
      BY <1>1, <3>1 DEF IInv, Identified, Owns
  <2>6. Targeting'
    BY <2>3 DEF Targeting, At
  <2>7. Steadfast'
    <3>1. Distinct(procs)
      BY <1>1 DEF Kinship, Distinct, Present
    <3>2. ASSUME steady' # {} PROVE Alive(Cli)' /\ procs'[Cli].born \in steady'
      <4>1. Cli \in LiveIn(procs)
        BY <2>1, <3>2 DEF TreeOf
      <4>2. Cli \in TreeIn(procs)
        <5>1. DOMAIN ParentsIn(procs) = LiveIn(procs)
          BY DEF ParentsIn
        <5> QED
          BY <4>1, <5>1, DescendantsClosed DEF TreeIn
      <4>3. procs[Cli].born \in TreeOf(procs)
        BY <4>1, <4>2 DEF TreeOf, TreeIn, ParentsIn
      <4> QED
        BY <1>1, <2>1, <4>1, <4>3 DEF LiveIn, Alive, Present
    <3>3. ASSUME NEW p \in PIDs \ {Cli}, procs'[p].born \in steady'
          PROVE  procs'[p].parent # 0 /\ procs'[procs'[p].parent].born \in steady'
      BY <1>1, <2>1, <3>1, <3>3, TreeFacts
    <3>4. att'.pc = "scan" /\ att'.census.use \in Uses /\ PIDs \ att'.census.left = {}
      BY <2>2, <2>3
    <3> QED
      BY <1>1, <2>1, <3>2, <3>3, <3>4 DEF Steadfast, At
  <2>8. Lifecycle'
    BY <1>1, <2>2, <2>3 DEF IInv, Lifecycle, At, FinalPlaces
  <2> QED
    BY <2>4, <2>5, <2>6, <2>7, <2>8 DEF IInv
<1> QED
  BY <1>2, <1>3, <1>4

(* What reading the entry of p makes of the census.                                *)
Reads(p, records) == LET old == att.census.records IN
  /\ p \in PIDs /\ DOMAIN old \subseteq PIDs /\ procs[p].born \in Nat
  /\ Alive(p) => /\ DOMAIN records = DOMAIN old \cup {p}
                 /\ records[p].born = procs[p].born
                 /\ records[p].parent = procs[p].parent
                 /\ \A q \in DOMAIN old \ {p} : records[q] = old[q]
  /\ ~Alive(p) => records = old
  /\ att' \in Attempts /\ att'.pc = "scan" /\ att'.kind = att.kind
  /\ att'.reaped = att.reaped /\ att'.code = att.code
  /\ att'.finally = att.finally /\ att'.value = att.value /\ att'.normal = att.normal
  /\ att'.history = att.history
  /\ att'.census.use = att.census.use /\ att'.census.left = att.census.left \ {p}
  /\ att'.census.records = records /\ att'.census.counting = att.census.counting

(* The next entry of /proc is that of the least PID not read yet.                 *)
LEMMA ReadFacts ==
  ASSUME IInv, ReadEntry
  PROVE  \E p \in att.census.left, records \in Records : Reads(p, records)
<1>1. /\ att.pc = "scan" /\ att.census.left # {}
      /\ UNCHANGED <<procs, births, captured, steady, seen>>
      /\ att \in Attempts /\ att.census \in Censuses /\ TypeOK /\ Kinship
  BY DEF ReadEntry, At, ReadOnly, Bookkeeping, IInv, TypeOK, Attempts
<1>2. PICK p \in att.census.left : p = Min(att.census.left)
  <2>1. att.census.left \in SUBSET Nat
    BY <1>1, AttemptAssumption DEF Censuses
  <2> QED
    BY <1>1, <2>1, LeastNat
<1> DEFINE old == att.census.records
           entry == [born |-> procs[p].born, parent |-> procs[p].parent, class |-> procs[p].class]
           longer == [q \in DOMAIN old \cup {p} |-> IF q = p THEN entry ELSE old[q]]
<1>3. /\ p \in PIDs /\ old \in Records /\ DOMAIN old \subseteq PIDs
      /\ \A q \in DOMAIN old : old[q] \in Entries
      /\ procs[p] \in Slots /\ entry \in Entries
      /\ entry.born = procs[p].born /\ entry.parent = procs[p].parent
  BY <1>1 DEF Censuses, Records, TypeOK, Slots, Entries
<1>4. PICK records :
        /\ att' = [att EXCEPT !.census = [att.census EXCEPT !.left = @ \ {p}, !.records = records]]
        /\ records = IF Alive(p) THEN longer ELSE old
  BY <1>1, <1>2 DEF ReadEntry, Goes, Attempts
<1> HIDE DEF entry
<1>5. /\ Alive(p) => /\ DOMAIN records = DOMAIN old \cup {p}
                     /\ records[p] = entry
                     /\ \A q \in DOMAIN old \ {p} : records[q] = old[q]
      /\ ~Alive(p) => records = old
  BY <1>4
<1>6. records \in Records
  <2>1. longer \in [DOMAIN old \cup {p} -> Entries]
    BY <1>3
  <2> QED
    BY <1>3, <1>4, <2>1 DEF Records
<1>7. /\ att' \in Attempts /\ att'.pc = "scan" /\ att'.kind = att.kind
      /\ att'.history = att.history
      /\ att'.reaped = att.reaped /\ att'.code = att.code
      /\ att'.finally = att.finally /\ att'.value = att.value /\ att'.normal = att.normal
      /\ att'.census.use = att.census.use /\ att'.census.left = att.census.left \ {p}
      /\ att'.census.records = records /\ att'.census.counting = att.census.counting
  <2>1. [att.census EXCEPT !.left = @ \ {p}, !.records = records] \in Censuses
    BY <1>1, <1>6 DEF Censuses
  <2> QED
    BY <1>1, <1>4, <2>1 DEF Attempts, Censuses
<1>8. Reads(p, records)
  <2>1. procs[p].born \in Nat
    BY <1>3 DEF Slots
  <2>2. Alive(p) => records[p].born = procs[p].born /\ records[p].parent = procs[p].parent
    BY <1>3, <1>5
  <2> QED
    BY <1>3, <1>5, <1>7, <2>1, <2>2 DEF Reads
<1> QED
  BY <1>6, <1>8

LEMMA ReadEntryInv == ASSUME IInv, ReadEntry PROVE IInv'
<1> DEFINE old == att.census.records
<1>1. /\ att.pc = "scan" /\ UNCHANGED <<procs, births, captured, steady, seen>>
      /\ TypeOK /\ Kinship
  BY DEF ReadEntry, At, ReadOnly, Bookkeeping, IInv
<1>2. PICK p \in att.census.left, records \in Records : Reads(p, records)
  BY ReadFacts
<1> USE DEF Reads
<1>8. TypeOK' /\ Kinship'
  BY <1>1, <1>2 DEF TypeOK, Kinship, Present, Alive
<1>9. Identified'
  <2>1. ASSUME NEW q \in DOMAIN records PROVE Owns(q, records[q].born)
    <3>1. CASE q = p /\ Alive(p)
      BY <1>1, <1>2, <3>1 DEF Owns, Kinship, Alive, Present
    <3>2. CASE q # p \/ ~Alive(p)
      <4>1. q \in DOMAIN old /\ records[q] = old[q]
        BY <1>2, <2>1, <3>2
      <4> QED
        BY <4>1 DEF IInv, Identified
    <3> QED
      BY <3>1, <3>2
  <2> QED
    BY <1>1, <1>2, <2>1 DEF IInv, Identified, Owns
<1>10. Targeting' /\ Lifecycle'
  BY <1>1, <1>2 DEF Targeting, At, IInv, Lifecycle, FinalPlaces
<1>11. Steadfast'
  <2>1. ASSUME NEW q \in PIDs \ (att.census.left \ {p}), procs[q].born \in steady
        PROVE  /\ q \in DOMAIN records
               /\ records[q].born = procs[q].born
               /\ q # Cli => records[q].parent = procs[q].parent
    <3>1. CASE q = p
      <4>1. Distinct(procs) /\ procs[p].born \in TreeOf(procs)
        BY <1>1, <2>1, <3>1 DEF Kinship, Distinct, Present, IInv, Steadfast
      <4>2. Alive(p)
        BY <1>2, <4>1, TreeFacts DEF LiveIn, Alive, Present
      <4> QED
        BY <1>2, <3>1, <4>2
    <3>2. CASE q # p
      <4>1. /\ q \in DOMAIN old
            /\ old[q].born = procs[q].born
            /\ q # Cli => old[q].parent = procs[q].parent
        BY <1>1, <2>1, <3>2 DEF IInv, Steadfast, At
      <4> QED
        BY <1>2, <3>2, <4>1
    <3> QED
      BY <3>1, <3>2
  <2>2. att.census.use \in Uses
    BY <1>1 DEF IInv, Steadfast, At
  <2> QED
    BY <1>1, <1>2, <2>1, <2>2 DEF IInv, Steadfast, At, Alive, Present
<1> QED
  BY <1>8, <1>9, <1>10, <1>11 DEF IInv

(* The members of what was read are a set that has the CLI and, by Steadfast, all  *)
(* steady processes: outside it are at most strangers to the tree.                *)
LEMMA CensusIsComplete == ASSUME IInv PROVE CensusComplete
<1> SUFFICES ASSUME att.pc = "scan", att.census.left = {}
             PROVE  steady \subseteq {m.born : m \in Members(att.census.records)}
  BY DEF CensusComplete, At
<1> DEFINE records == att.census.records
           parents == [p \in DOMAIN records |-> records[p].parent]
           found == Descendants(parents)
           T == {q \in LiveIn(procs) : procs[q].born \in steady => q \in found}
<1>1. /\ Distinct(procs) /\ steady \subseteq TreeOf(procs)
      /\ \A p \in PIDs : procs[p].born \in steady =>
           /\ p \in DOMAIN records /\ records[p].born = procs[p].born
           /\ p # Cli => /\ records[p].parent = procs[p].parent
                         /\ procs[p].parent # 0 /\ procs[procs[p].parent].born \in steady
      /\ DOMAIN parents = DOMAIN records
      /\ \A p \in DOMAIN records : parents[p] = records[p].parent
  BY DEF IInv, Kinship, Distinct, Present, Steadfast, At
<1>2. SUFFICES ASSUME steady # {} PROVE steady \subseteq {m.born : m \in Members(records)}
  OBVIOUS
<1>3. /\ Cli \in PIDs /\ procs[Cli].born \in steady /\ Cli \in DOMAIN records
      /\ Cli \in LiveIn(procs)
  BY <1>1, <1>2, AttemptAssumption DEF IInv, Steadfast, LiveIn, Alive, Present
<1>4. Cli \in found /\ \A q \in DOMAIN records : records[q].parent \in found => q \in found
  <2> HIDE DEF parents
  <2> QED
    BY <1>1, <1>3, DescendantsClosed
<1> HIDE DEF found, parents, records
<1>5. Cli \in T /\ T \in SUBSET LiveIn(procs)
  BY <1>3, <1>4
<1>6. ASSUME NEW q \in LiveIn(procs), procs[q].parent \in T PROVE q \in T
  <2> SUFFICES ASSUME procs[q].born \in steady, q # Cli PROVE q \in found
    BY <1>4
  <2>1. q \in PIDs
    BY DEF LiveIn
  <2>2. /\ q \in DOMAIN records /\ records[q].parent = procs[q].parent
        /\ procs[procs[q].parent].born \in steady
    BY <1>1, <2>1
  <2> QED
    BY <1>4, <1>6, <2>2
<1>7. TreeIn(procs) \subseteq T
  <2>1. DOMAIN ParentsIn(procs) = LiveIn(procs)
        /\ \A q \in LiveIn(procs) : ParentsIn(procs)[q] = procs[q].parent
    BY DEF ParentsIn
  <2> HIDE DEF T
  <2> QED
    BY <1>5, <1>6, <2>1, DescendantsLeast DEF TreeIn
<1>8. ASSUME NEW born \in steady PROVE born \in {m.born : m \in Members(records)}
  <2>1. PICK p \in TreeIn(procs) : born = procs[p].born
    BY <1>1, <1>3 DEF TreeOf, TreeIn, ParentsIn
  <2>2. p \in found /\ p \in PIDs
    BY <1>7, <2>1 DEF LiveIn
  <2>3. records[p].born = born
    BY <1>1, <2>1, <2>2
  <2>4. [pid |-> p, born |-> records[p].born, class |-> records[p].class] \in Members(records)
    BY <2>2 DEF Members, found, parents
  <2> QED
    BY <2>3, <2>4
<1> QED
  BY <1>8

(* A step that may capture: what it adds has one PID, and nothing is a stale value. *)
LEMMA CaptureInv ==
  ASSUME IInv, UNCHANGED <<procs, births>>, att' \in Attempts, att'.reaped = att.reaped,
         att'.code = att.code, Targeting', att'.pc \notin {"scan", "launched"}, steady' = {},
         NEW new \in SUBSET Identities, captured' = captured \cup new,
         \A i \in new : Owns(i.pid, i.born),
         \A p \in DOMAIN att'.census.records : Owns(p, att'.census.records[p].born),
         \A m \in att'.census.counting : Owns(m.pid, m.born),
         seen' \subseteq {i.born : i \in captured'}, ~att'.normal,
         att'.pc \notin {"finally", "done"},
         att'.finally => ~att'.value /\ att'.pc \in FinalPlaces
  PROVE  IInv'
<1>1. TypeOK' /\ Kinship'
  BY DEF IInv, TypeOK, Kinship, Present, Alive
<1>2. Identified'
  BY DEF IInv, Identified, Owns
<1>3. Steadfast' /\ Lifecycle'
  BY DEF Steadfast, Lifecycle, At
<1> QED
  BY <1>1, <1>2, <1>3 DEF IInv

LEMMA EndCensusInv == ASSUME IInv, EndCensus PROVE IInv'
<1> DEFINE records == att.census.records
           use == att.census.use
           found == IF Cli \in DOMAIN records THEN Members(records) ELSE {}
           new == IF use \in Keeps /\ found # {} THEN Ids(found) ELSE {}
<1>1. /\ att.pc = "scan" /\ att.census.left = {} /\ UNCHANGED <<procs, births>>
      /\ att' = AfterCensus(use, found) /\ captured' = captured \cup new /\ steady' = {}
      /\ seen' = IF use = "finish" /\ att.value THEN steady ELSE seen
  BY DEF EndCensus, At, Goes
<1>2. /\ use \in Uses /\ att \in Attempts /\ att.census \in Censuses /\ records \in Records
      /\ ~att.normal /\ (att.finally => ~att.value /\ use = "force census")
  BY <1>1 DEF IInv, TypeOK, Attempts, Censuses, Steadfast, At, Lifecycle
<1>3. /\ found \in SUBSET Counted
      /\ \A m \in found : Owns(m.pid, m.born)
      /\ \A p \in DOMAIN records : Owns(p, records[p].born)
  <2>1. \A p \in DOMAIN records : Owns(p, records[p].born)
    BY DEF IInv, Identified
  <2> QED
    BY <1>2, <2>1, MembersFacts
<1>4. steady # {} => Cli \in DOMAIN records
  BY <1>1, AttemptAssumption DEF IInv, Steadfast, At
<1>5. steady \subseteq {m.born : m \in found}
  <2>1. steady \subseteq {m.born : m \in Members(records)}
    BY <1>1, CensusIsComplete DEF CensusComplete, At
  <2> QED
    BY <1>4, <2>1
<1> HIDE DEF found
<1>6. new \in SUBSET Identities /\ \A i \in new : Owns(i.pid, i.born)
  BY <1>3 DEF Ids, Identities, Counted
<1>7. seen' \subseteq {i.born : i \in captured'}
  <2>1. CASE use = "finish" /\ att.value
    <3>1. \A m \in found : [pid |-> m.pid, born |-> m.born] \in new
      BY <2>1 DEF Keeps, Ids
    <3>2. ASSUME NEW born \in steady PROVE born \in {i.born : i \in captured'}
      <4>1. PICK m \in found : m.born = born
        BY <1>5, <3>2
      <4>2. [pid |-> m.pid, born |-> m.born] \in captured'
        BY <1>1, <3>1
      <4> QED
        BY <4>1, <4>2
    <3> QED
      BY <1>1, <2>1, <3>2
  <2>2. CASE ~(use = "finish" /\ att.value)
    BY <1>1, <2>2 DEF IInv, Lifecycle
  <2> QED
    BY <2>1, <2>2
<1> HIDE DEF new, use, records
<1>8. /\ att' \in Attempts /\ att'.reaped = att.reaped /\ att'.code = att.code
      /\ att'.normal = att.normal /\ att'.finally = att.finally /\ (att'.value => att.value)
  BY <1>1, <1>2, <1>3, AfterCensusFacts
<1>9. /\ att'.pc \in {"finish", "memory again", "count", "close poll", "terminate"}
      /\ use = "force census" => att'.pc = "terminate"
  BY <1>1, <1>2, <1>3, AfterCensusFacts
<1>10. att'.census = NoCensus \/ att'.census = [att.census EXCEPT !.counting = found]
  BY <1>1, <1>2, <1>3, AfterCensusFacts
<1>11. /\ \A p \in DOMAIN att'.census.records : Owns(p, att'.census.records[p].born)
       /\ \A m \in att'.census.counting : Owns(m.pid, m.born)
  <2>1. CASE att'.census = NoCensus
    <3>1. DOMAIN att'.census.records = {} /\ att'.census.counting = {}
      BY <2>1, EmptyFacts
    <3> QED
      BY <3>1
  <2>2. CASE att'.census = [att.census EXCEPT !.counting = found]
    <3>1. att'.census.records = records /\ att'.census.counting = found
      BY <1>2, <2>2 DEF Censuses, records
    <3> QED
      BY <1>3, <3>1
  <2> QED
    BY <1>10, <2>1, <2>2
<1>12. Targeting' /\ (att'.finally => ~att'.value /\ att'.pc \in FinalPlaces)
  BY <1>2, <1>8, <1>9 DEF Targeting, At, FinalPlaces
<1> QED
  BY <1>1, <1>2, <1>6, <1>7, <1>8, <1>9, <1>11, <1>12, CaptureInv

LEMMA CountMemberInv == ASSUME IInv, CountMember PROVE IInv'
<1>1. /\ att.pc = "count" /\ UNCHANGED <<procs, births, captured, steady, seen>> /\ steady = {}
      /\ att \in Attempts /\ att.census \in Censuses /\ ~att.normal /\ ~att.finally
  BY DEF CountMember, At, ReadOnly, Bookkeeping, IInv, TypeOK, Attempts, Lifecycle, FinalPlaces,
     Steadfast
<1>2. PICK m \in att.census.counting :
        \/ att' = [att EXCEPT !.census = [att.census EXCEPT !.counting = @ \ {m}]]
        \/ att' = [att EXCEPT !.pc = "memory again", !.census = NoCensus]
        \/ att' = Raise([att EXCEPT !.census = NoCensus])
  BY <1>1 DEF CountMember, Goes, Attempts
<1>3. CASE att' = [att EXCEPT !.census = [att.census EXCEPT !.counting = @ \ {m}]]
  <2>1. [att.census EXCEPT !.counting = @ \ {m}] \in Censuses
    BY <1>1 DEF Censuses
  <2>2. /\ att' \in Attempts /\ att'.pc = "count" /\ att'.reaped = att.reaped
        /\ att'.code = att.code /\ ~att'.normal /\ ~att'.finally
        /\ att'.census.records = att.census.records
        /\ att'.census.counting \subseteq att.census.counting
    BY <1>1, <1>3, <2>1 DEF Attempts, Censuses
  <2>3. Targeting' /\ captured' = captured \cup {} /\ {} \in SUBSET Identities
    BY <1>1, <2>2 DEF Targeting, At
  <2>4. /\ \A p \in DOMAIN att'.census.records : Owns(p, att'.census.records[p].born)
        /\ \A n \in att'.census.counting : Owns(n.pid, n.born)
        /\ seen' \subseteq {i.born : i \in captured'}
    BY <1>1, <2>2 DEF IInv, Identified, Lifecycle
  <2> QED
    BY <1>1, <2>2, <2>3, <2>4, CaptureInv
<1>4. CASE att' = [att EXCEPT !.pc = "memory again", !.census = NoCensus]
  <2>1. /\ att' \in Attempts /\ att'.pc = "memory again" /\ att'.reaped = att.reaped
        /\ att'.code = att.code /\ ~att'.normal /\ ~att'.finally /\ att'.census = NoCensus
    <3>1. "memory again" \in Places /\ NoCensus \in Censuses
      BY EmptyFacts DEF Places
    <3> QED
      BY <1>1, <1>4, <3>1 DEF Attempts
  <2>2. Targeting'
    BY <2>1 DEF Targeting, At
  <2> QED
    BY <1>1, <2>1, <2>2, QuietInv
<1>5. CASE att' = Raise([att EXCEPT !.census = NoCensus])
  <2> DEFINE a == [att EXCEPT !.census = NoCensus]
  <2>1. /\ a \in Attempts /\ a.reaped = att.reaped /\ a.code = att.code
        /\ ~a.normal /\ ~a.finally /\ a.census = NoCensus
    BY <1>1, EmptyFacts DEF Attempts
  <2> HIDE DEF a
  <2>2. att' = Raise(a)
    BY <1>5 DEF a
  <2>3. Targeting'
    BY <2>1, <2>2, RaiseFacts DEF Targeting, At
  <2> QED
    BY <1>1, <2>1, <2>2, <2>3, RaiseFacts, QuietInv
<1> QED
  BY <1>2, <1>3, <1>4, <1>5

(* The history stays a sequence of such snapshots, whatever the window says of it.  *)
LEMMA ObserveType ==
  ASSUME NEW S, NEW history \in Seq(S), NEW snapshot \in S
  PROVE  /\ Observe(history, snapshot).history \in Seq(S)
         /\ Observe(history, snapshot).accepted \in BOOLEAN
<1> DEFINE longer == Append(history, snapshot)
           start == Max({1, Len(longer) - Required + 1})
           window == SubSeq(longer, start, Len(longer))
<1>1. longer \in Seq(S) /\ Len(longer) \in Nat /\ Len(longer) >= 1 /\ Required \in Nat
      /\ Required >= 1
  BY WindowAssumption
<1>2. start \in 1 .. Len(longer)
  <2>1. \A a, b \in Int : Max({a, b}) \in {a, b} /\ Max({a, b}) >= a /\ Max({a, b}) >= b
    <3> SUFFICES ASSUME NEW a \in Int, NEW b \in Int
                 PROVE  Max({a, b}) \in {a, b} /\ Max({a, b}) >= a /\ Max({a, b}) >= b
      OBVIOUS
    <3>1. \E x \in {a, b} : \A y \in {a, b} : x >= y
      <4>1. (a >= a /\ a >= b) \/ (b >= a /\ b >= b)
        OBVIOUS
      <4> QED
        BY <4>1
    <3> QED
      BY <3>1 DEF Max
  <2> DEFINE k == Len(longer) - Required + 1
  <2>2. k \in Int /\ k <= Len(longer) /\ 1 \in Int
    BY <1>1
  <2> HIDE DEF k
  <2>3. start \in {1, k} /\ start >= 1
    BY <2>1, <2>2 DEF k
  <2> HIDE DEF start, longer
  <2> QED
    BY <1>1, <2>2, <2>3
<1>3. window \in Seq(S)
  <2> HIDE DEF longer, start
  <2>1. start \in 1 .. Len(longer) + 1 /\ Len(longer) \in start - 1 .. Len(longer)
    BY <1>1, <1>2
  <2> QED
    BY <1>1, <2>1, SubSeqProperties
<1>4. <<>> \in Seq(S) /\ <<snapshot>> \in Seq(S)
  OBVIOUS
<1> DEFINE observed == Observe(history, snapshot)
<1> HIDE DEF longer, window, start
<1>5. \/ observed = [history |-> <<>>, accepted |-> FALSE]
      \/ observed = [history |-> <<snapshot>>, accepted |-> FALSE]
      \/ observed = [history |-> longer, accepted |-> FALSE]
      \/ observed = [history |-> window, accepted |-> TRUE]
  BY DEF Observe, longer, window, start, Churned
<1> HIDE DEF observed
<1>6. \E h \in {<<>>, <<snapshot>>, longer, window}, accepted \in BOOLEAN :
        observed = [history |-> h, accepted |-> accepted]
  BY <1>5
<1>7. PICK h \in Seq(S), accepted \in BOOLEAN :
        observed = [history |-> h, accepted |-> accepted]
  BY <1>1, <1>3, <1>4, <1>6
<1>8. observed.history = h /\ observed.accepted = accepted
  BY <1>7
<1> QED
  BY <1>8 DEF observed

LEMMA ObserveTreeInv == ASSUME IInv, ObserveTree PROVE IInv'
<1> DEFINE found == Members(att.census.records)
<1>1. /\ att.pc = "count" /\ UNCHANGED <<procs, births, steady, seen>> /\ steady = {}
      /\ att \in Attempts /\ ~att.normal /\ ~att.finally /\ att.history \in Seq(Snapshots)
      /\ att.census.records \in Records
  BY DEF ObserveTree, At, IInv, TypeOK, Attempts, Censuses, Lifecycle, FinalPlaces, Steadfast
<1>2. found \in SUBSET Counted /\ \A m \in found : Owns(m.pid, m.born)
  BY <1>1, MembersFacts DEF IInv, Identified
<1> HIDE DEF found
<1>3. PICK pc \in {"finish", "memory again"}, value \in BOOLEAN, history \in Seq(Snapshots),
           new \in {{}, Ids(found)} :
        /\ att' = [att EXCEPT !.pc = pc, !.value = value, !.history = history, !.census = NoCensus]
        /\ captured' = captured \cup new
  <2>1. CASE ~CompleteTree(found)
    <3>1. /\ att' = [att EXCEPT !.pc = "memory again", !.census = NoCensus]
          /\ captured' = captured \cup {}
      BY <2>1 DEF ObserveTree, Goes, found
    <3>2. att' = [att EXCEPT !.pc = "memory again", !.value = att.value,
                             !.history = att.history, !.census = NoCensus]
          /\ att.value \in BOOLEAN
      BY <1>1, <3>1 DEF Attempts
    <3> QED
      BY <1>1, <3>1, <3>2
  <2>2. CASE CompleteTree(found)
    <3>1. PICK level \in Levels :
            LET window == Observe(att.history,
                  [members |-> found, engines |-> Count(found, "webkit"),
                   main |-> level.main, total |-> level.total])
            IN att' = [att EXCEPT !.pc = IF window.accepted THEN "finish" ELSE "memory again",
                                  !.value = window.accepted,
                                  !.history = window.history, !.census = NoCensus]
      BY <2>2 DEF ObserveTree, Goes, found
    <3> DEFINE snapshot == [members |-> found, engines |-> Count(found, "webkit"),
                            main |-> level.main, total |-> level.total]
    <3>2. snapshot \in Snapshots
      BY <1>2, AttemptAssumption DEF Snapshots, Engines
    <3> HIDE DEF snapshot
    <3>3. /\ Observe(att.history, snapshot).history \in Seq(Snapshots)
          /\ Observe(att.history, snapshot).accepted \in BOOLEAN
      BY <1>1, <3>2, ObserveType
    <3>4. PICK history \in Seq(Snapshots), accepted \in BOOLEAN :
            /\ history = Observe(att.history, snapshot).history
            /\ accepted = Observe(att.history, snapshot).accepted
      BY <3>3
    <3>5. att' = [att EXCEPT !.pc = IF accepted THEN "finish" ELSE "memory again",
                             !.value = accepted, !.history = history, !.census = NoCensus]
      BY <3>1, <3>4 DEF snapshot
    <3>6. captured' = captured \cup Ids(found)
      BY <2>2 DEF ObserveTree, found
    <3> QED
      BY <3>5, <3>6
  <2> QED
    BY <2>1, <2>2
<1>4. /\ att' \in Attempts /\ att'.pc = pc /\ att'.reaped = att.reaped
      /\ att'.code = att.code /\ ~att'.normal /\ ~att'.finally /\ att'.census = NoCensus
  <2>1. pc \in Places /\ NoCensus \in Censuses
    BY EmptyFacts DEF Places, Uses, Keeps
  <2>2. att' \in Attempts
    BY <1>1, <1>3, <2>1 DEF Attempts
  <2> QED
    BY <1>1, <1>3, <2>2 DEF Attempts
<1>5. new \in SUBSET Identities /\ \A i \in new : Owns(i.pid, i.born)
  <2>1. \A m \in found : m.pid \in PIDs /\ m.born \in Nat
    BY <1>2 DEF Counted
  <2>2. ASSUME NEW i \in Ids(found) PROVE i \in Identities /\ Owns(i.pid, i.born)
    <3>1. PICK m \in found : i = [pid |-> m.pid, born |-> m.born]
      BY DEF Ids
    <3>2. i.pid = m.pid /\ i.born = m.born
      BY <3>1
    <3>3. i \in Identities
      BY <2>1, <3>1 DEF Identities
    <3> QED
      BY <1>2, <3>2, <3>3
  <2> QED
    BY <2>2
<1>6. DOMAIN att'.census.records = {} /\ att'.census.counting = {}
  BY <1>4, EmptyFacts
<1>7. Targeting' /\ seen' \subseteq {i.born : i \in captured'}
  BY <1>1, <1>3, <1>4 DEF Targeting, At, IInv, Lifecycle
<1> QED
  BY <1>1, <1>3, <1>4, <1>5, <1>6, <1>7, CaptureInv

LEMMA StepInv == ASSUME IInv, [Next]_vars PROVE IInv'
<1>1. CASE Launch \/ AwaitBeacon \/ Verdict \/ Finally
  BY <1>1, LaunchInv, AwaitInv, CloseInv, FinallyInv
<1>2. CASE MemoryPoll \/ ProtocolError \/ MemoryAgain \/ DeadlinePassed
  BY <1>2, PollingInv, MemoryLoopInv
<1>3. CASE Census
  BY <1>3, BeginCensusInv, ReadEntryInv, EndCensusInv, CountMemberInv, ObserveTreeInv
     DEF Census, Uses
<1>4. CASE Close
  BY <1>4, PollingInv, CloseInv DEF Close
<1>5. CASE Cleanup
  BY <1>5, PollingInv, TargetInv, OpenInv, CheckInv, SendInv, KillCliInv DEF Cleanup
<1>6. CASE KernelStep
  BY <1>6, KernelInv
<1>7. CASE UNCHANGED vars
  <2>1. TypeOK' /\ Kinship' /\ Identified'
    BY <1>7 DEF vars, IInv, TypeOK, Kinship, Present, Alive, Identified, Owns
  <2>2. Targeting' /\ Steadfast' /\ Lifecycle'
    BY <1>7 DEF vars, IInv, Targeting, Steadfast, Lifecycle, At, Alive, Present, GenerationAlive,
       ProcIdentity, Survivors
  <2> QED
    BY <2>1, <2>2 DEF IInv
<1> QED
  BY <1>1, <1>2, <1>3, <1>4, <1>5, <1>6, <1>7 DEF Next, Harness

(* At every point of a sample: generations are unique and parents alive, what was  *)
(* read about a PID is what that generation was, and what is steady is on record.  *)
THEOREM InductiveInvariant == Spec => []IInv
<1>1. Init => IInv
  BY InitInv
<1>2. IInv /\ [Next]_vars => IInv'
  BY StepInv
<1> QED
  BY <1>1, <1>2, PTL DEF Spec

(* pidfd_open, the comparison of the generation and the signal are three steps, and *)
(* a PID may go to somebody else before each: the signal still is for the captured  *)
(* generation, whose descriptor the comparison confirmed.                           *)
THEOREM SignalsStayBound == Spec => []SignalsAsCaptured
<1>1. IInv => SignalsAsCaptured
  <2> SUFFICES ASSUME IInv, At("send") PROVE [pid |-> att.target.pid, born |-> att.fd] \in captured
    BY DEF SignalsAsCaptured
  <2>1. att.target \in captured /\ att.fd = att.target.born /\ captured \subseteq Identities
    BY DEF IInv, TypeOK, Targeting
  <2> QED
    BY <2>1 DEF Identities
<1> QED
  BY <1>1, InductiveInvariant, PTL

(* One pass over /proc misses nobody who stays in the tree throughout it.          *)
THEOREM CensusFindsTheSteady == Spec => []CensusComplete
<1>1. IInv => CensusComplete
  BY CensusIsComplete
<1> QED
  BY <1>1, InductiveInvariant, PTL

(* A sample counts only if its CLI ended with 0 after a native close, and nothing   *)
(* that was in its tree throughout the census before the close is alive.            *)
THEOREM ValidLeavesNothing == Spec => []ValidMeansGone
<1>1. IInv => ValidMeansGone
  <2> SUFFICES ASSUME IInv, att.pc = "done", att.value
               PROVE  /\ att.closed /\ att.code = 0 /\ Survivors = {}
                      /\ \A p \in PIDs : Alive(p) => procs[p].born \notin seen
    BY DEF ValidMeansGone, At
  <2>1. att.closed /\ att.code = 0 /\ Survivors = {}
    BY DEF IInv, Lifecycle
  <2>2. ASSUME NEW p \in PIDs, Alive(p), procs[p].born \in seen PROVE FALSE
    <3>1. PICK i \in captured : i.born = procs[p].born
      BY <2>2 DEF IInv, Lifecycle
    <3>2. i.pid = p
      BY <3>1 DEF IInv, Identified, Owns
    <3>3. GenerationAlive(i)
      BY <2>2, <3>1, <3>2 DEF GenerationAlive, ProcIdentity
    <3> QED
      BY <2>1, <3>3 DEF Survivors
  <2> QED
    BY <2>1, <2>2
<1> QED
  BY <1>1, InductiveInvariant, PTL
--------------------------------------------------------------------------------
(* What keeps a stranger out of a memory value. A stranger taken for a descendant  *)
(* was read below a PID that somebody else had when that PID was read: one of its  *)
(* ancestors was an orphan, or gone, before the census was over, stays that, and   *)
(* is not found again; so two equal snapshots have no stranger.                    *)
Foreign(p) == Present(p) /\ ~procs[p].mine
Clean(members) == \A p \in PIDs : Foreign(p) => procs[p].born \notin {m.born : m \in members}
Lost(m) == procs[m.pid].born = m.born => procs[m.pid].parent = 0
Unread(m) == LET records == att.census.records IN
  m.pid \in DOMAIN records /\ records[m.pid].born = m.born => records[m.pid].parent = 0
HasLost(members) == \E m \in members : m.pid # Cli /\ Lost(m) /\ Unread(m)

Families ==
  /\ \A p \in PIDs : Foreign(p) /\ procs[p].parent # 0 => ~procs[procs[p].parent].mine
  /\ procs[Cli].born = 1 => procs[Cli].mine

Recorded == LET records == att.census.records IN
  /\ \A p \in PIDs : Foreign(p) /\ procs[p].parent \in DOMAIN records =>
       records[procs[p].parent].born = procs[procs[p].parent].born
  /\ \A p \in DOMAIN records : procs[p].born = records[p].born =>
       procs[p].parent \in {0, records[p].parent}

Measuring == \/ att.pc \in {"memory census", "count"}
             \/ att.pc = "scan" /\ att.census.use = "memory census"
Looping == (Measuring => ~att.reaped) /\ (att.pc = "count" => Cli \in DOMAIN att.census.records)

Remembered ==
  /\ \A i \in DOMAIN att.history : \A m \in att.history[i].members : Owns(m.pid, m.born)
  /\ \A i, j \in DOMAIN att.history : att.history[i].members = att.history[j].members
  /\ \A i \in DOMAIN att.history :
       Clean(att.history[i].members) \/ HasLost(att.history[i].members)
  /\ att.value /\ att.kind = "memory" =>
       \A i \in DOMAIN att.history : Clean(att.history[i].members)

Strangers == Families /\ Recorded /\ Looping /\ Remembered

(* A stranger with a parent has had it from the start.                             *)
LEMMA ForeignParents ==
  ASSUME TypeOK, Kinship, Kinship', Evolution, NEW p \in PIDs, Foreign(p)', procs'[p].parent # 0
  PROVE  /\ Foreign(p) /\ procs[p].parent = procs'[p].parent /\ procs[p].parent \in PIDs
         /\ GoesOn(procs[p].parent)
<1>1. procs'[p] \in Slots /\ procs[p] \in Slots
  BY DEF Evolution, TypeOK
<1>2. GoesOn(p)
  BY DEF Evolution, Starts, Free, Foreign, Present
<1>3. Foreign(p) /\ procs[p].parent = procs'[p].parent /\ procs[p].parent \in PIDs
  BY <1>1, <1>2 DEF GoesOn, Foreign, Present, Slots
<1>4. PICK q \in PIDs : q = procs[p].parent
  BY <1>3
<1>5. procs[q].born # 0 /\ procs'[q].born # 0
  BY <1>3, <1>4 DEF Kinship, Alive, Present
<1>6. GoesOn(q)
  BY <1>4, <1>5 DEF Evolution, Starts, Free, Present
<1> QED
  BY <1>3, <1>4, <1>6

LEMMA FamiliesStay ==
  ASSUME TypeOK, Kinship, Kinship', Evolution, Families
  PROVE  Families'
<1>1. ASSUME NEW p \in PIDs, Foreign(p)', procs'[p].parent # 0
      PROVE  ~procs'[procs'[p].parent].mine
  <2>1. /\ Foreign(p) /\ procs[p].parent = procs'[p].parent /\ procs[p].parent \in PIDs
        /\ GoesOn(procs[p].parent)
    BY <1>1, ForeignParents
  <2> QED
    BY <1>1, <2>1 DEF Families, GoesOn
<1>2. ASSUME procs'[Cli].born = 1 PROVE procs'[Cli].mine
  <2>1. Cli \in PIDs /\ births \in Nat /\ births >= 1 /\ births' \in Nat
    BY AttemptAssumption DEF TypeOK, Kinship, Evolution
  <2>2. ~(births' > births /\ births' = 1)
    BY <2>1
  <2>3. GoesOn(Cli)
    BY <1>2, <2>1, <2>2 DEF Evolution, Starts, Free
  <2> QED
    BY <1>2, <2>3 DEF Families, GoesOn
<1> QED
  BY <1>1, <1>2 DEF Families, Foreign, Present

LEMMA RecordedStays ==
  ASSUME TypeOK, Kinship, Kinship', Identified, Evolution, Recorded,
         att'.census.records = att.census.records
  PROVE  Recorded'
<1> DEFINE records == att.census.records
<1>1. ASSUME NEW p \in PIDs, Foreign(p)', procs'[p].parent \in DOMAIN records
      PROVE  records[procs'[p].parent].born = procs'[procs'[p].parent].born
  <2>1. procs'[p].parent # 0
    <3>1. DOMAIN records \subseteq PIDs /\ 0 \notin PIDs
      <4>1. records \in Records
        BY DEF TypeOK, Attempts, Censuses
      <4> QED
        BY <4>1, AttemptAssumption DEF Records
    <3> QED
      BY <1>1, <3>1
  <2>2. /\ Foreign(p) /\ procs[p].parent = procs'[p].parent
        /\ GoesOn(procs[p].parent)
    BY <1>1, <2>1, ForeignParents
  <2> QED
    BY <1>1, <2>2 DEF Recorded, GoesOn
<1>2. ASSUME NEW p \in DOMAIN records, procs'[p].born = records[p].born
      PROVE  procs'[p].parent \in {0, records[p].parent}
  <2>1. p \in PIDs /\ Owns(p, records[p].born) /\ records[p].born \in Nat
    BY DEF TypeOK, Attempts, Censuses, Records, Entries, Identified
  <2>2. births \in Nat /\ births' \in Nat /\ records[p].born <= births /\ records[p].born # 0
    BY <2>1 DEF TypeOK, Evolution, Owns
  <2>3. ~(births' > births /\ births' = records[p].born)
    BY <2>1, <2>2
  <2>4. GoesOn(p)
    BY <1>2, <2>1, <2>2, <2>3 DEF Evolution, Starts, Free
  <2> QED
    BY <1>2, <2>4 DEF Recorded, GoesOn
<1> QED
  BY <1>1, <1>2 DEF Recorded, Foreign, Present

LEMMA CleanStays ==
  ASSUME TypeOK, Evolution, NEW members \in SUBSET Counted,
         \A m \in members : Owns(m.pid, m.born), Clean(members)
  PROVE  Clean(members)'
<1> SUFFICES ASSUME NEW p \in PIDs, Foreign(p)', NEW m \in members, procs'[p].born = m.born
             PROVE  FALSE
  BY DEF Clean, Foreign, Present
<1>1. births \in Nat /\ births' \in Nat /\ m.born \in Nat /\ m.born <= births /\ m.born # 0
  BY DEF TypeOK, Evolution, Owns, Counted
<1>2. ~(births' > births /\ births' = m.born)
  BY <1>1
<1>3. GoesOn(p)
  BY <1>1, <1>2 DEF Evolution, Starts, Free
<1> QED
  BY <1>3 DEF GoesOn, Clean, Foreign, Present

LEMMA LostStays ==
  ASSUME TypeOK, Evolution, NEW m \in Counted, Owns(m.pid, m.born), Lost(m)
  PROVE  Lost(m)'
<1> SUFFICES ASSUME procs'[m.pid].born = m.born PROVE procs'[m.pid].parent = 0
  BY DEF Lost
<1>1. births \in Nat /\ births' \in Nat /\ m.born \in Nat /\ m.born <= births /\ m.born # 0
      /\ m.pid \in PIDs
  BY DEF TypeOK, Evolution, Owns, Counted
<1>2. ~(births' > births /\ births' = m.born)
  BY <1>1
<1>3. GoesOn(m.pid)
  BY <1>1, <1>2 DEF Evolution, Starts, Free
<1> QED
  BY <1>3 DEF GoesOn, Lost

(* A step that observes no tree and reads no entry leaves what is remembered.       *)
Framed ==
  /\ att'.kind = att.kind /\ (att'.history = att.history \/ att'.history = <<>>)
  /\ att'.value /\ att'.kind = "memory" => att.value
  /\ att'.census.records = att.census.records \/ att'.census.records = <<>>

LEMMA RememberedStays ==
  ASSUME TypeOK, Evolution, Framed, Remembered
  PROVE  Remembered'
<1>1. CASE att'.history = <<>>
  <2>1. DOMAIN att'.history = {}
    BY <1>1
  <2> QED
    BY <2>1 DEF Remembered
<1>2. CASE att'.history = att.history
  <2>1. ASSUME NEW i \in DOMAIN att.history
        PROVE  /\ att.history[i].members \in SUBSET Counted
               /\ \A m \in att.history[i].members : m \in Counted /\ Owns(m.pid, m.born)
    <3>1. att.history \in Seq(Snapshots)
      BY DEF TypeOK, Attempts
    <3>2. att.history[i] \in Snapshots
      BY <3>1
    <3> QED
      BY <3>2 DEF Snapshots, Remembered
  <2>2. ASSUME NEW i \in DOMAIN att.history, NEW m \in att.history[i].members
        PROVE  Owns(m.pid, m.born)'
    BY <2>1, <2>2, OwnsStays DEF Counted
  <2>3. ASSUME NEW i \in DOMAIN att.history, Clean(att.history[i].members)
        PROVE  Clean(att.history[i].members)'
    <3>1. PICK members \in SUBSET Counted : members = att.history[i].members
      BY <2>1
    <3>2. Clean(members)'
      BY <2>1, <2>3, <3>1, CleanStays
    <3> QED
      BY <1>2, <3>1, <3>2
  <2>4. ASSUME NEW i \in DOMAIN att.history, HasLost(att.history[i].members)
        PROVE  HasLost(att.history[i].members)'
    <3>1. PICK m \in att.history[i].members : m.pid # Cli /\ Lost(m) /\ Unread(m)
      BY <2>4 DEF HasLost
    <3>2. Lost(m)'
      BY <2>1, <3>1, LostStays
    <3>3. Unread(m)'
      <4>1. CASE att'.census.records = <<>>
        BY <4>1 DEF Unread
      <4>2. CASE att'.census.records = att.census.records
        BY <3>1, <4>2 DEF Unread
      <4> QED
        BY <4>1, <4>2 DEF Framed
    <3> QED
      BY <1>2, <3>1, <3>2, <3>3 DEF HasLost
  <2> QED
    BY <1>2, <2>1, <2>2, <2>3, <2>4 DEF Remembered, Framed
<1> QED
  BY <1>1, <1>2 DEF Framed

LEMMA ReadStrange == ASSUME IInv, Strangers, ReadEntry PROVE Strangers'
<1> DEFINE old == att.census.records
<1>1. att.pc = "scan" /\ UNCHANGED <<procs, births>> /\ TypeOK
  BY DEF ReadEntry, At, ReadOnly, Bookkeeping, IInv
<1>2. PICK p \in att.census.left, records \in Records : Reads(p, records)
  BY ReadFacts
<1> USE DEF Reads
<1>3. Families'
  BY <1>1 DEF Strangers, Families, Foreign, Present
<1>4. Recorded'
  <2>1. ASSUME NEW q \in PIDs, Foreign(q), procs[q].parent \in DOMAIN records
        PROVE  records[procs[q].parent].born = procs[procs[q].parent].born
    BY <1>2, <2>1 DEF Strangers, Recorded
  <2>2. ASSUME NEW q \in DOMAIN records, procs[q].born = records[q].born
        PROVE  procs[q].parent \in {0, records[q].parent}
    BY <1>2, <2>2 DEF Strangers, Recorded
  <2> QED
    BY <1>1, <1>2, <2>1, <2>2 DEF Recorded, Foreign, Present
<1>5. Looping'
  BY <1>1, <1>2 DEF Strangers, Looping, Measuring
<1>6. Remembered'
  <2>1. ASSUME NEW i \in DOMAIN att.history, HasLost(att.history[i].members)
        PROVE  HasLost(att.history[i].members)'
    <3>1. PICK m \in att.history[i].members : m.pid # Cli /\ Lost(m) /\ Unread(m)
      BY <2>1 DEF HasLost
    <3>2. ASSUME m.pid \in DOMAIN records, records[m.pid].born = m.born
          PROVE  records[m.pid].parent = 0
      BY <1>2, <3>1, <3>2 DEF Lost, Unread
    <3>3. Lost(m)' /\ Unread(m)'
      BY <1>1, <1>2, <3>1, <3>2 DEF Lost, Unread
    <3> QED
      BY <1>2, <3>1, <3>3 DEF HasLost
  <2>2. ASSUME NEW members, Clean(members) PROVE Clean(members)'
    BY <1>1, <2>2 DEF Clean, Foreign, Present
  <2>3. ASSUME NEW i \in DOMAIN att.history, Clean(att.history[i].members)
        PROVE  Clean(att.history[i].members)'
    BY <1>1, <1>2, <2>3 DEF Clean, Foreign, Present
  <2> QED
    BY <1>1, <1>2, <2>1, <2>3 DEF Strangers, Remembered, Owns
<1> QED
  BY <1>3, <1>4, <1>5, <1>6 DEF Strangers

(* Whoever is found below the CLI was read with a parent.                          *)
LEMMA FoundWithParent ==
  ASSUME IInv, Strangers, att.pc = "count", NEW m \in Members(att.census.records), m.pid # Cli
  PROVE  ~Unread(m)
<1> DEFINE records == att.census.records
           parents == [p \in DOMAIN records |-> records[p].parent]
<1>1. records \in Records /\ Cli \in DOMAIN records
  BY DEF IInv, TypeOK, Attempts, Censuses, Strangers, Looping
<1>2. DOMAIN records \subseteq PIDs /\ 0 \notin PIDs
  BY <1>1, AttemptAssumption DEF Records
<1>3. DOMAIN parents = DOMAIN records /\ \A p \in DOMAIN records : parents[p] = records[p].parent
  OBVIOUS
<1> HIDE DEF parents
<1>4. PICK p \in Descendants(parents) :
        m = [pid |-> p, born |-> records[p].born, class |-> records[p].class]
  BY DEF Members, parents
<1>5. p \in DOMAIN records /\ parents[p] \in DOMAIN records
  <2>1. parents[p] \in Descendants(parents)
    BY <1>1, <1>3, <1>4, DescendantsUpward
  <2> QED
    BY <1>1, <1>3, <2>1, DescendantsClosed
<1> QED
  BY <1>2, <1>3, <1>4, <1>5 DEF Unread

(* A stranger that is found has a lost ancestor among those that are found.        *)
LEMMA FoundStrangers ==
  ASSUME IInv, Strangers, att.pc = "count"
  PROVE  LET found == Members(att.census.records) IN
         Clean(found) \/ \E m \in found : m.pid # Cli /\ Lost(m)
<1> DEFINE records == att.census.records
           parents == [p \in DOMAIN records |-> records[p].parent]
           tree == Descendants(parents)
           Strange == {p \in tree : Foreign(p) /\ procs[p].born = records[p].born}
<1> SUFFICES ASSUME \A m \in Members(records) : m.pid # Cli => ~Lost(m)
             PROVE  Clean(Members(records))
  OBVIOUS
<1>1. records \in Records /\ Cli \in DOMAIN records /\ Cli \in PIDs
  BY AttemptAssumption DEF IInv, TypeOK, Attempts, Censuses, Strangers, Looping
<1>2. DOMAIN records \subseteq PIDs
  BY <1>1 DEF Records
<1>3. DOMAIN parents = DOMAIN records /\ \A p \in DOMAIN records : parents[p] = records[p].parent
  OBVIOUS
<1>4. /\ Cli \in tree /\ tree \subseteq DOMAIN records
      /\ \A p \in DOMAIN records : records[p].parent \in tree => p \in tree
      /\ \A p \in tree \ {Cli} : records[p].parent \in tree
  <2> HIDE DEF parents
  <2> QED
    BY <1>1, <1>3, DescendantsClosed, DescendantsUpward
<1>5. \A p \in tree : [pid |-> p, born |-> records[p].born, class |-> records[p].class]
                        \in Members(records)
  BY DEF Members
<1>6. ~Foreign(Cli)
  <2>1. ~att.reaped
    BY DEF Strangers, Looping, Measuring
  <2> QED
    BY <2>1 DEF IInv, Kinship, Strangers, Families, Foreign
<1> HIDE DEF tree, parents
<1>7. ASSUME NEW p \in Strange PROVE records[p].parent \in Strange
  <2>1. p \in tree /\ p # Cli /\ p \in PIDs /\ Foreign(p) /\ procs[p].born = records[p].born
    BY <1>2, <1>4, <1>6
  <2>2. ~Lost([pid |-> p, born |-> records[p].born, class |-> records[p].class])
    BY <1>5, <2>1
  <2>3. procs[p].parent # 0
    BY <2>2 DEF Lost
  <2>4. procs[p].parent = records[p].parent
    BY <1>4, <2>1, <2>3 DEF Strangers, Recorded
  <2> DEFINE q == records[p].parent
  <2>5. q \in tree /\ q \in DOMAIN records
    BY <1>4, <2>1
  <2>6. Alive(q) /\ ~procs[q].mine
    BY <2>1, <2>3, <2>4 DEF IInv, Kinship, Strangers, Families
  <2>7. records[q].born = procs[q].born
    BY <2>1, <2>4, <2>5 DEF Strangers, Recorded
  <2> QED
    BY <2>5, <2>6, <2>7 DEF Foreign, Alive
<1> DEFINE rest == tree \ Strange
<1>8. Cli \in rest /\ rest \in SUBSET DOMAIN records
      /\ \A p \in DOMAIN records : records[p].parent \in rest => p \in rest
  BY <1>4, <1>6, <1>7
<1>9. tree \subseteq rest
  <2> HIDE DEF rest
  <2>1. \A p \in DOMAIN parents : parents[p] \in rest => p \in rest
    BY <1>3, <1>8
  <2> QED
    BY <1>3, <1>8, <2>1, DescendantsLeast DEF tree
<1>10. ASSUME NEW p \in PIDs, Foreign(p), NEW m \in Members(records), procs[p].born = m.born
       PROVE  FALSE
  <2>1. PICK q \in tree :
          m = [pid |-> q, born |-> records[q].born, class |-> records[q].class]
    BY DEF Members, tree, parents
  <2>2. q \in DOMAIN records /\ procs[p].born = records[q].born
    BY <1>4, <1>10, <2>1
  <2>3. p = q
    BY <1>10, <2>2 DEF IInv, Identified, Owns
  <2> QED
    BY <1>9, <1>10, <2>1, <2>2, <2>3
<1> QED
  BY <1>10 DEF Clean

(* A history of one membership stays one, that of the last snapshot; and an        *)
(* accepted snapshot has the membership of an earlier one.                         *)
LEMMA ObserveAlike ==
  ASSUME NEW history \in Seq(Snapshots), NEW snapshot \in Snapshots,
         \A i, j \in DOMAIN history : history[i].members = history[j].members
  PROVE  LET observed == Observe(history, snapshot) IN
         /\ \A i \in DOMAIN observed.history : observed.history[i].members = snapshot.members
         /\ observed.accepted => \E i \in DOMAIN history : history[i].members = snapshot.members
<1> DEFINE observed == Observe(history, snapshot)
           Alike == {s \in Snapshots : s.members = snapshot.members}
<1>1. CASE snapshot.engines = 0
  <2>1. observed = [history |-> <<>>, accepted |-> FALSE]
    BY <1>1 DEF Observe
  <2>2. DOMAIN observed.history = {} /\ ~observed.accepted
    BY <2>1
  <2> QED
    BY <2>2
<1>2. CASE snapshot.engines # 0 /\ Churned(history, snapshot)
  <2>1. observed = [history |-> <<snapshot>>, accepted |-> FALSE]
    BY <1>2 DEF Observe
  <2>2. ~observed.accepted /\ \A i \in DOMAIN observed.history : observed.history[i] = snapshot
    BY <2>1
  <2> QED
    BY <2>2
<1>3. CASE snapshot.engines # 0 /\ ~Churned(history, snapshot)
  <2>1. Len(history) \in Nat /\ DOMAIN history = 1 .. Len(history)
        /\ (Len(history) = 0 <=> history = <<>>)
    BY EmptySeq
  <2>2. history # <<>> => Len(history) \in DOMAIN history
    BY <2>1
  <2>3. \A i \in DOMAIN history : history[i].members = snapshot.members
    BY <1>3, <2>1, <2>2 DEF Churned
  <2>4. history \in Seq(Alike) /\ snapshot \in Alike
    <3>1. \A i \in 1 .. Len(history) : history[i] \in Alike
      BY <2>1, <2>3
    <3> QED
      BY <2>1, <3>1, IsASeq
  <2>5. observed.history \in Seq(Alike)
    BY <2>4, ObserveType
  <2>6. \A i \in DOMAIN observed.history : observed.history[i].members = snapshot.members
    <3>1. \A i \in DOMAIN observed.history : observed.history[i] \in Alike
      BY <2>5, ElementOfSeq
    <3> QED
      BY <3>1
  <2>7. ASSUME observed.accepted PROVE history # <<>>
    <3>1. Len(Append(history, snapshot)) < Required
             => observed = [history |-> Append(history, snapshot), accepted |-> FALSE]
      BY <1>3 DEF Observe
    <3>2. ~(Len(Append(history, snapshot)) < Required)
      BY <2>7, <3>1
    <3>3. Len(Append(history, snapshot)) = Len(history) + 1
      OBVIOUS
    <3> QED
      BY <2>1, <3>2, <3>3, WindowAssumption
  <2> QED
    BY <2>2, <2>3, <2>6, <2>7
<1> QED
  BY <1>1, <1>2, <1>3

LEMMA ObserveStrange == ASSUME IInv, Strangers, ObserveTree PROVE Strangers'
<1>1. /\ att.pc = "count" /\ UNCHANGED <<procs, births>>
      /\ att \in Attempts /\ att.history \in Seq(Snapshots) /\ att.census.records \in Records
      /\ TypeOK
  BY DEF ObserveTree, At, IInv, TypeOK, Attempts, Censuses
<1>2. PICK found \in SUBSET Counted :
        found = Members(att.census.records) /\ \A m \in found : Owns(m.pid, m.born)
  BY <1>1, MembersFacts DEF IInv, Identified
<1>3. Clean(found) \/ \E m \in found : m.pid # Cli /\ Lost(m)
  BY <1>1, <1>2, FoundStrangers
<1>4. \A m \in found : m.pid # Cli => ~Unread(m)
  BY <1>1, <1>2, FoundWithParent
<1>5. Families'
  BY <1>1 DEF Strangers, Families, Foreign, Present
<1>6. CASE ~CompleteTree(found)
  <2>1. att' = [att EXCEPT !.pc = "memory again", !.census = NoCensus]
    BY <1>2, <1>6 DEF ObserveTree, Goes
  <2>2. /\ att'.pc = "memory again" /\ att'.kind = att.kind /\ att'.history = att.history
        /\ att'.value = att.value /\ att'.census.records = <<>>
    BY <1>1, <2>1, EmptyFacts DEF Attempts
  <2>3. Recorded' /\ Looping'
    BY <2>2, EmptyFacts DEF Recorded, Looping, Measuring
  <2>4. Remembered'
    BY <1>1, <2>2, StillEvolves, RememberedStays DEF Strangers, Framed
  <2> QED
    BY <1>5, <2>3, <2>4 DEF Strangers
<1>7. CASE CompleteTree(found)
  <2>1. PICK level \in Levels :
          LET window == Observe(att.history,
                [members |-> found, engines |-> Count(found, "webkit"),
                 main |-> level.main, total |-> level.total])
          IN att' = [att EXCEPT !.pc = IF window.accepted THEN "finish" ELSE "memory again",
                                !.value = window.accepted,
                                !.history = window.history, !.census = NoCensus]
    BY <1>2, <1>7 DEF ObserveTree, Goes
  <2> DEFINE snapshot == [members |-> found, engines |-> Count(found, "webkit"),
                          main |-> level.main, total |-> level.total]
             observed == Observe(att.history, snapshot)
  <2>2. snapshot \in Snapshots /\ snapshot.members = found
    BY <1>2, AttemptAssumption DEF Snapshots, Engines
  <2> HIDE DEF snapshot
  <2>3. /\ \A i \in DOMAIN observed.history : observed.history[i].members = found
        /\ observed.accepted =>
             \E i \in DOMAIN att.history : att.history[i].members = found
    <3>1. \A i, j \in DOMAIN att.history : att.history[i].members = att.history[j].members
      BY DEF Strangers, Remembered
    <3> QED
      BY <1>1, <2>2, <3>1, ObserveAlike
  <2>4. observed.accepted => Clean(found)
    <3> SUFFICES ASSUME NEW i \in DOMAIN att.history, att.history[i].members = found,
                        HasLost(found)
                 PROVE  FALSE
      BY <2>3 DEF Strangers, Remembered
    <3> QED
      BY <1>4 DEF HasLost
  <2>5. /\ att'.pc \in {"finish", "memory again"} /\ att'.history = observed.history
        /\ att'.value = observed.accepted /\ att'.census = NoCensus
    BY <1>1, <2>1 DEF Attempts, snapshot
  <2> HIDE DEF observed
  <2>6. att'.census.records = <<>> /\ DOMAIN att'.census.records = {}
    BY <2>5, EmptyFacts
  <2>7. Recorded' /\ Looping'
    BY <2>5, <2>6 DEF Recorded, Looping, Measuring
  <2>8. Clean(found)' \/ HasLost(found)'
    <3>1. CASE Clean(found)
      BY <1>1, <1>2, <3>1, StillEvolves, CleanStays
    <3>2. CASE \E m \in found : m.pid # Cli /\ Lost(m)
      <4>1. PICK m \in found : m.pid # Cli /\ Lost(m)
        BY <3>2
      <4>2. Unread(m)' /\ Lost(m)'
        BY <1>1, <2>6, <4>1 DEF Unread, Lost
      <4> QED
        BY <4>1, <4>2 DEF HasLost
    <3> QED
      BY <1>3, <3>1, <3>2
  <2>9. ASSUME NEW m \in found PROVE Owns(m.pid, m.born)'
    BY <1>1, <1>2, <2>9 DEF Owns
  <2>10. att'.value => Clean(found)'
    BY <1>1, <2>4, <2>5 DEF Clean, Foreign, Present, observed
  <2>11. \A i \in DOMAIN att'.history : att'.history[i].members = found
    BY <2>3, <2>5
  <2>12. Remembered'
    <3>1. ASSUME NEW i \in DOMAIN att'.history
          PROVE  /\ \A m \in att'.history[i].members : Owns(m.pid, m.born)'
                 /\ Clean(att.history[i].members)' \/ HasLost(att.history[i].members)'
                 /\ att'.value => Clean(att.history[i].members)'
      BY <2>8, <2>9, <2>10, <2>11
    <3>2. \A i, j \in DOMAIN att'.history : att'.history[i].members = att'.history[j].members
      BY <2>11
    <3> QED
      BY <3>1, <3>2 DEF Remembered
  <2> QED
    BY <1>5, <2>7, <2>12 DEF Strangers
<1> QED
  BY <1>6, <1>7

LEMMA AsideStrange ==
  ASSUME IInv, Strangers, Evolution, Kinship', Framed, Looping'
  PROVE  Strangers'
<1>1. TypeOK /\ Kinship /\ Identified
  BY DEF IInv
<1>2. Families'
  BY <1>1, FamiliesStay DEF Strangers
<1>3. Recorded'
  <2>1. CASE att'.census.records = <<>>
    BY <2>1 DEF Recorded
  <2>2. CASE att'.census.records = att.census.records
    BY <1>1, <2>2, RecordedStays DEF Strangers
  <2> QED
    BY <2>1, <2>2 DEF Framed
<1>4. Remembered'
  BY <1>1, RememberedStays DEF Strangers
<1> QED
  BY <1>2, <1>3, <1>4 DEF Strangers

(* The harness ends processes, and collects the status of the CLI; it starts none. *)
LEMMA HarnessEvolves == ASSUME IInv, Harness PROVE Evolution
<1>1. TypeOK /\ Kinship /\ procs \in [PIDs -> Slots] /\ births \in Nat /\ att \in Attempts
  BY DEF IInv, TypeOK
<1>2. ASSUME UNCHANGED births, CliExited, procs' = [procs EXCEPT ![Cli] = Free]
      PROVE  Evolution
  <2>1. Free \in Slots
    BY AttemptAssumption DEF Free, Slots, Classes, Codes
  <2>2. /\ procs' \in [PIDs -> Slots] /\ procs'[Cli] = Free
        /\ \A q \in PIDs \ {Cli} : procs'[q] = procs[q]
    BY <1>1, <1>2, <2>1, AttemptAssumption
  <2>3. \A q \in PIDs \ {Cli} : GoesOn(q)
    BY <2>2 DEF GoesOn
  <2> QED
    BY <1>1, <1>2, <2>2, <2>3 DEF Evolution
<1>3. ASSUME UNCHANGED births, NEW p \in PIDs, Alive(p), procs' = Ended(procs, p, 1),
             att'.reaped = att.reaped, att'.code = att.code
      PROVE  Evolution
  BY <1>1, <1>3, EndEvolves
<1>4. CASE Send \/ KillCli
  <2>1. ASSUME Send PROVE Evolution
    <3> DEFINE done == [att EXCEPT !.pc = "open", !.todo = @ \ {att.target}, !.target = None, !.fd = 0]
    <3>1. UNCHANGED births
          /\ \/ UNCHANGED procs
             \/ \E p \in PIDs : Alive(p) /\ procs' = Ended(procs, p, 1) /\ att' = done
      BY <2>1 DEF Send, Goes
    <3>2. done.reaped = att.reaped /\ done.code = att.code
      BY <1>1 DEF Attempts
    <3> QED
      BY <1>1, <1>3, <3>1, <3>2, StillEvolves
  <2>2. ASSUME KillCli PROVE Evolution
    <3>1. UNCHANGED births
          /\ \/ UNCHANGED procs
             \/ CliExited /\ procs' = [procs EXCEPT ![Cli] = Free]
             \/ Alive(Cli) /\ procs' = Ended(procs, Cli, 1) /\ att' = [att EXCEPT !.pc = "kill poll"]
      BY <2>2 DEF KillCli, Goes, Only
    <3>2. [att EXCEPT !.pc = "kill poll"].reaped = att.reaped
          /\ [att EXCEPT !.pc = "kill poll"].code = att.code /\ Cli \in PIDs
      BY <1>1, AttemptAssumption DEF Attempts
    <3> QED
      BY <1>1, <1>2, <1>3, <3>1, <3>2, StillEvolves
  <2> QED
    BY <1>4, <2>1, <2>2
<1>5. CASE Launch \/ ProtocolError \/ MemoryAgain \/ DeadlinePassed \/ Census \/ NativeClose
           \/ Judge \/ Target("term") \/ Target("kill") \/ Open \/ Check \/ Verdict
  <2>1. UNCHANGED <<procs, births>>
    BY <1>5 DEF Launch, ProtocolError, MemoryAgain, DeadlinePassed, Census, BeginCensus, ReadEntry,
       EndCensus, CountMember, ObserveTree, NativeClose, Judge, Target, Open, Check, Verdict,
       ReadOnly, Bookkeeping
  <2> QED
    BY <1>1, <2>1, StillEvolves
<1>6. CASE AwaitBeacon \/ MemoryPoll \/ ClosePoll \/ WaitExit \/ JudgePoll \/ BeginForce
           \/ Terminate \/ Finally
  <2>1. UNCHANGED births
        /\ (UNCHANGED procs \/ (CliExited /\ procs' = [procs EXCEPT ![Cli] = Free]))
    BY <1>6 DEF AwaitBeacon, MemoryPoll, ClosePoll, WaitExit, JudgePoll, BeginForce, Terminate,
       Finally, Wait, Poll, Bookkeeping
  <2> QED
    BY <1>1, <1>2, <2>1, StillEvolves
<1> QED
  BY <1>4, <1>5, <1>6 DEF Harness, Close, Cleanup

LEMMA AfterCensusFramed ==
  ASSUME NEW use \in Uses, NEW found \in SUBSET Counted, att \in Attempts
  PROVE  LET next == AfterCensus(use, found) IN
         /\ next.kind = att.kind /\ (next.history = att.history \/ next.history = <<>>)
         /\ (next.value => att.value) /\ next.reaped = att.reaped
         /\ next.pc \in {"finish", "memory again", "count", "close poll", "terminate"}
         /\ next.pc = "count" => use = "memory census" /\ found # {}
         /\ \/ next.census.records = <<>> /\ next.pc # "count"
            \/ next.census.records = att.census.records /\ next.pc = "count"
<1>0. NoCensus.records = <<>> /\ att.census \in Censuses
  BY EmptyFacts DEF Attempts
<1>1. CASE use = "paint census"
  <2>1. PICK value \in BOOLEAN :
          value = (att.value /\ CompleteTree(found) /\ Count(found, "webkit") >= 1)
    OBVIOUS
  <2>2. AfterCensus(use, found)
          = [att EXCEPT !.pc = "finish", !.census = NoCensus, !.value = value]
    BY <1>1, <2>1 DEF AfterCensus
  <2> QED
    BY <1>0, <1>1, <2>1, <2>2 DEF Attempts
<1>2. CASE use = "memory census" /\ found = {}
  <2>1. AfterCensus(use, found) = [att EXCEPT !.pc = "memory again", !.census = NoCensus]
    BY <1>2 DEF AfterCensus
  <2> QED
    BY <1>0, <1>2, <2>1 DEF Attempts
<1>3. CASE use = "memory census" /\ found # {}
  <2>1. AfterCensus(use, found)
          = [att EXCEPT !.pc = "count", !.census = [att.census EXCEPT !.counting = found]]
    BY <1>3 DEF AfterCensus, Attempts
  <2> QED
    BY <1>0, <1>3, <2>1 DEF Attempts, Censuses
<1>4. CASE use = "finish"
  <2>1. AfterCensus(use, found)
          = [att EXCEPT !.pc = "close poll", !.census = NoCensus, !.history = <<>>]
    BY <1>4 DEF AfterCensus
  <2> QED
    BY <1>0, <1>4, <2>1 DEF Attempts
<1>5. CASE use = "force census"
  <2>1. AfterCensus(use, found) = [att EXCEPT !.pc = "terminate", !.census = NoCensus]
    BY <1>5 DEF AfterCensus
  <2> QED
    BY <1>0, <1>5, <2>1 DEF Attempts
<1> QED
  BY <1>1, <1>2, <1>3, <1>4, <1>5 DEF Uses, Keeps

LEMMA RaiseFramed ==
  ASSUME NEW a \in Attempts
  PROVE  /\ Raise(a).kind = a.kind /\ Raise(a).history = a.history
         /\ Raise(a).census = a.census /\ (Raise(a).value => a.value)
         /\ Raise(a).pc \in {"raised", "finally"}
<1>1. CASE a.finally
  BY <1>1 DEF Raise, Attempts
<1>2. CASE ~a.finally
  BY <1>2 DEF Raise, Attempts
<1> QED
  BY <1>1, <1>2

LEMMA HarnessFramed ==
  ASSUME IInv, Looping, Harness, ~ReadEntry, ~ObserveTree
  PROVE  Framed /\ Looping'
<1>1. att \in Attempts
  BY DEF IInv, TypeOK
<1>2. CASE Launch
  <2>1. \/ att' = [att EXCEPT !.pc = "waiting", !.root = procs[Cli].born]
        \/ att' = [att EXCEPT !.pc = "verdict"]
    BY <1>2 DEF Launch, Goes, Only
  <2> QED
    BY <1>1, <2>1 DEF Framed, Looping, Measuring, Attempts
<1>19. CASE Check
  BY <1>1, <1>19 DEF Check, Goes, Framed, Looping, Measuring, Attempts
<1>18. CASE Judge
  <2>1. PICK normal \in BOOLEAN, pc \in {"verdict", "force"} :
          att' = [att EXCEPT !.normal = normal, !.pc = pc]
    BY <1>18 DEF Judge, Goes
  <2> QED
    BY <1>1, <2>1 DEF Framed, Looping, Measuring, Attempts
<1>3. CASE ProtocolError \/ MemoryAgain \/ DeadlinePassed
  BY <1>1, <1>3 DEF ProtocolError, MemoryAgain, DeadlinePassed, Goes, Only, Framed, Looping,
     Measuring, Attempts
<1>4. CASE AwaitBeacon
  BY <1>1, <1>4 DEF AwaitBeacon, Collected, Goes, Framed, Looping, Measuring, Attempts
<1>5. CASE MemoryPoll
  BY <1>1, <1>5 DEF MemoryPoll, Poll, Collected, Goes, Framed, Looping, Measuring, Attempts
<1>6. CASE ClosePoll \/ WaitExit \/ JudgePoll
  BY <1>1, <1>6 DEF ClosePoll, WaitExit, JudgePoll, Wait, Poll, Collected, Goes, Framed, Looping,
     Measuring, Attempts
<1>7. CASE BeginForce \/ Terminate
  BY <1>1, <1>7 DEF BeginForce, Terminate, Wait, Poll, Collected, Goes, Framed, Looping,
     Measuring, Attempts
<1>8. CASE NativeClose
  BY <1>1, <1>8 DEF NativeClose, Raise, Only, Goes, Framed, Looping, Measuring, Attempts
<1>9. CASE Target("term") \/ Target("kill")
  BY <1>1, <1>9 DEF Target, Goes, Framed, Looping, Measuring, Attempts
<1>10. CASE Open
  BY <1>1, <1>10 DEF Open, Goes, Framed, Looping, Measuring, Attempts, At
<1>11. CASE Send
  <2> DEFINE done == [att EXCEPT !.pc = "open", !.todo = @ \ {att.target}, !.target = None, !.fd = 0]
  <2>1. att' = done \/ att' = Raise([done EXCEPT !.todo = {}])
    BY <1>11 DEF Send, Goes
  <2>2. CASE att' = done
    BY <1>1, <2>2 DEF Framed, Looping, Measuring, Attempts
  <2>3. CASE att' = Raise([done EXCEPT !.todo = {}])
    <3> DEFINE a == [done EXCEPT !.todo = {}]
    <3>1. /\ a \in Attempts /\ a.kind = att.kind /\ a.history = att.history
          /\ a.census = att.census /\ a.value = att.value
      BY <1>1 DEF Attempts, Places
    <3> HIDE DEF a
    <3>2. att' = Raise(a)
      BY <2>3 DEF a
    <3> QED
      BY <3>1, <3>2, RaiseFramed DEF Framed, Looping, Measuring
  <2> QED
    BY <2>1, <2>2, <2>3
<1>12. CASE KillCli
  <2>1. ASSUME NEW a \in Attempts, NEW pc \in Places, pc \notin {"memory census", "count", "scan"},
               a.kind = att.kind, a.history = att.history, a.census = att.census,
               a.value = att.value, att' = [a EXCEPT !.pc = pc]
        PROVE  Framed /\ Looping'
    BY <2>1 DEF Framed, Looping, Measuring, Attempts
  <2>2. \A a : \E pc \in {"raised", "done", "verdict"} : Forced(a) = [a EXCEPT !.pc = pc]
    BY DEF Forced
  <2>3. {"raised", "done", "verdict", "kill poll"} \subseteq Places
    BY DEF Places
  <2>4. CASE att' = Forced(att)
    BY <1>1, <2>1, <2>2, <2>3, <2>4
  <2>5. CASE CliExited /\ att' = Forced(Collected(att))
    <3>1. /\ Collected(att) \in Attempts /\ Collected(att).kind = att.kind
          /\ Collected(att).history = att.history /\ Collected(att).census = att.census
          /\ Collected(att).value = att.value
      BY <1>1, <2>5, CollectedFacts DEF Collected, Attempts
    <3> QED
      BY <2>1, <2>2, <2>3, <2>5, <3>1
  <2>6. CASE att' = [att EXCEPT !.pc = "kill poll"]
    BY <1>1, <2>1, <2>3, <2>6
  <2>7. CASE att' = Raise(att)
    BY <1>1, <2>7, RaiseFramed DEF Framed, Looping, Measuring
  <2> QED
    BY <1>12, <2>4, <2>5, <2>6, <2>7 DEF KillCli, Goes, Only
<1>13. CASE Verdict
  BY <1>1, <1>13 DEF Verdict, Goes, Framed, Looping, Measuring, Attempts
<1>14. CASE Finally
  BY <1>1, <1>14 DEF Finally, Poll, Collected, Goes, Framed, Looping, Measuring, Attempts
<1>15. ASSUME NEW use \in Uses, BeginCensus(use) PROVE Framed /\ Looping'
  <2>1. /\ att.pc = use
        /\ \/ att' = AfterCensus(use, {})
           \/ att' = Raise(att)
           \/ att' = [att EXCEPT !.pc = "scan",
                                 !.census = [NoCensus EXCEPT !.use = use, !.left = PIDs]]
    BY <1>15 DEF BeginCensus, At, Goes
  <2>2. CASE att' = AfterCensus(use, {})
    BY <1>1, <2>2, AfterCensusFramed DEF Framed, Looping, Measuring
  <2>3. CASE att' = Raise(att)
    BY <1>1, <2>3, RaiseFramed DEF Framed, Looping, Measuring
  <2>4. CASE att' = [att EXCEPT !.pc = "scan",
                                !.census = [NoCensus EXCEPT !.use = use, !.left = PIDs]]
    <3>1. /\ att'.kind = att.kind /\ att'.history = att.history /\ att'.value = att.value
          /\ att'.reaped = att.reaped /\ att'.pc = "scan"
          /\ att'.census = [NoCensus EXCEPT !.use = use, !.left = PIDs]
      BY <1>1, <2>4 DEF Attempts
    <3>2. att'.census.records = <<>> /\ att'.census.use = use
      BY <3>1 DEF NoCensus
    <3> QED
      BY <2>1, <3>1, <3>2 DEF Framed, Looping, Measuring
  <2> QED
    BY <2>1, <2>2, <2>3, <2>4
<1>16. CASE EndCensus
  <2>1. att.pc = "scan" /\ att.census.use \in Uses /\ att.census.records \in Records
    BY <1>16 DEF EndCensus, At, IInv, Steadfast, TypeOK, Attempts, Censuses
  <2>2. PICK found \in SUBSET Counted :
          /\ att' = AfterCensus(att.census.use, found)
          /\ found # {} => Cli \in DOMAIN att.census.records
    <3>1. Members(att.census.records) \in SUBSET Counted /\ {} \in SUBSET Counted
      BY <2>1, MembersFacts
    <3> QED
      BY <1>16, <3>1 DEF EndCensus, Goes
  <2>3. /\ att'.kind = att.kind /\ (att'.history = att.history \/ att'.history = <<>>)
        /\ (att'.value => att.value) /\ att'.reaped = att.reaped
        /\ att'.pc \in {"finish", "memory again", "count", "close poll", "terminate"}
    BY <1>1, <2>1, <2>2, AfterCensusFramed
  <2>4. /\ att'.pc = "count" => att.census.use = "memory census" /\ found # {}
        /\ \/ att'.census.records = <<>> /\ att'.pc # "count"
           \/ att'.census.records = att.census.records /\ att'.pc = "count"
    <3>0. PICK use \in Uses : use = att.census.use
      BY <2>1
    <3>1. LET next == AfterCensus(use, found) IN
          /\ next.pc = "count" => use = "memory census" /\ found # {}
          /\ \/ next.census.records = <<>> /\ next.pc # "count"
             \/ next.census.records = att.census.records /\ next.pc = "count"
      BY <1>1, AfterCensusFramed
    <3>2. att' = AfterCensus(use, found)
      BY <2>2, <3>0
    <3> QED
      BY <3>0, <3>1, <3>2
  <2>5. Framed
    BY <2>3, <2>4 DEF Framed
  <2>6. Looping'
    <3>1. Measuring' => att'.pc = "count"
      BY <2>3 DEF Measuring
    <3>2. att'.pc = "count" => ~att.reaped
      BY <2>1, <2>4 DEF Looping, Measuring
    <3>3. att'.pc = "count" => Cli \in DOMAIN att'.census.records
      BY <2>2, <2>4
    <3> QED
      BY <2>3, <3>1, <3>2, <3>3 DEF Looping
  <2> QED
    BY <2>5, <2>6
<1>17. CASE CountMember
  <2>1. PICK m \in att.census.counting :
          \/ att' = [att EXCEPT !.census = [att.census EXCEPT !.counting = @ \ {m}]]
          \/ att' = [att EXCEPT !.pc = "memory again", !.census = NoCensus]
          \/ att' = Raise([att EXCEPT !.census = NoCensus])
    BY <1>1, <1>17 DEF CountMember, Goes, Attempts
  <2>2. NoCensus \in Censuses /\ NoCensus.records = <<>> /\ att.pc = "count"
        /\ att.census \in Censuses
    BY <1>1, <1>17, EmptyFacts DEF CountMember, At, Attempts
  <2>3. CASE att' = [att EXCEPT !.census = [att.census EXCEPT !.counting = @ \ {m}]]
    BY <1>1, <2>2, <2>3 DEF Framed, Looping, Measuring, Attempts, Censuses
  <2>4. CASE att' = [att EXCEPT !.pc = "memory again", !.census = NoCensus]
    BY <1>1, <2>2, <2>4 DEF Framed, Looping, Measuring, Attempts
  <2>5. CASE att' = Raise([att EXCEPT !.census = NoCensus])
    <3> DEFINE a == [att EXCEPT !.census = NoCensus]
    <3>1. /\ a \in Attempts /\ a.kind = att.kind /\ a.history = att.history
          /\ a.census = NoCensus /\ a.value = att.value
      BY <1>1, <2>2 DEF Attempts
    <3> HIDE DEF a
    <3>2. att' = Raise(a)
      BY <2>5 DEF a
    <3> QED
      BY <2>2, <3>1, <3>2, RaiseFramed DEF Framed, Looping, Measuring
  <2> QED
    BY <2>1, <2>3, <2>4, <2>5
<1> QED
  BY <1>2, <1>3, <1>4, <1>5, <1>6, <1>7, <1>8, <1>9, <1>10, <1>11, <1>12, <1>13, <1>14, <1>15,
     <1>16, <1>17, <1>18, <1>19 DEF Harness, Census, Close, Cleanup, Uses

LEMMA StepStrange == ASSUME IInv, Strangers, [Next]_vars PROVE Strangers'
<1>1. Kinship'
  BY StepInv DEF IInv
<1>2. CASE ReadEntry
  BY <1>2, ReadStrange
<1>3. CASE ObserveTree
  BY <1>3, ObserveStrange
<1>4. CASE Harness /\ ~ReadEntry /\ ~ObserveTree
  BY <1>1, <1>4, HarnessEvolves, HarnessFramed, AsideStrange DEF Strangers
<1>5. CASE KernelStep
  <2>1. Evolution /\ att' = att
    BY <1>5, KernelEvolves
  <2>2. Framed /\ Looping'
    BY <2>1 DEF Framed, Strangers, Looping, Measuring
  <2> QED
    BY <1>1, <2>1, <2>2, AsideStrange
<1>6. CASE UNCHANGED vars
  <2>1. UNCHANGED <<procs, births>> /\ att' = att /\ TypeOK
    BY <1>6 DEF vars, IInv
  <2>2. Evolution /\ Framed /\ Looping'
    BY <2>1, StillEvolves DEF Framed, Strangers, Looping, Measuring
  <2> QED
    BY <1>1, <2>2, AsideStrange
<1> QED
  BY <1>2, <1>3, <1>4, <1>5, <1>6 DEF Next

(* A memory value rests on snapshots that have no stranger: a PID reused within one *)
(* census may pass a stranger off as a descendant, but not twice in a row.          *)
THEOREM StrangersAreNotMeasured == Spec => []NoStrangerMeasured
<1>1. Init => Strangers
  <2> SUFFICES ASSUME Init PROVE Strangers
    OBVIOUS
  <2>1. /\ att.history = <<>> /\ att.census.records = <<>> /\ att.pc = "launched"
        /\ DOMAIN att.history = {} /\ DOMAIN att.census.records = {}
    BY EmptyFacts DEF Init
  <2>2. Families
    <3>1. Cli \in PIDs /\ procs[Cli].mine
      BY AttemptAssumption DEF Init, Running
    <3>2. ASSUME NEW p \in PIDs, Foreign(p), procs[p].parent # 0
          PROVE  ~procs[procs[p].parent].mine
      <4>1. p \in DOMAIN Others /\ procs[p].parent = Others[p]
        BY <3>2 DEF Init, Foreign, Running, Free
      <4>2. Others[p] \in DOMAIN Others /\ DOMAIN Others \subseteq PIDs \ {Cli}
        BY <3>2, <4>1, AttemptAssumption
      <4> QED
        BY <4>1, <4>2 DEF Init, Running
    <3> QED
      BY <3>1, <3>2 DEF Families
  <2> QED
    BY <2>1, <2>2 DEF Strangers, Recorded, Looping, Measuring, Remembered
<1>2. IInv /\ Strangers /\ [Next]_vars => Strangers'
  BY StepStrange
<1>3. Strangers => NoStrangerMeasured
  <2> SUFFICES ASSUME Strangers, att.value, att.kind = "memory", NEW i \in DOMAIN att.history,
                      NEW p \in PIDs, Present(p), ~procs[p].mine
               PROVE  procs[p].born \notin {m.born : m \in att.history[i].members}
    BY DEF NoStrangerMeasured
  <2> QED
    BY DEF Strangers, Remembered, Clean, Foreign
<1> QED
  BY <1>1, <1>2, <1>3, InductiveInvariant, PTL DEF Spec
================================================================================
