---------------------------- MODULE CampaignProofs -----------------------------
(* The manifest of an IPC campaign, for any number of rounds, paired or not, warm *)
(* or cold, and whatever its processes do. The invariant ties the scored          *)
(* documents to the plan: they are its rounds so far, in its order, with their    *)
(* raw files; the rest is counting in the plan.                                   *)
EXTENDS Campaign, FiniteSetTheorems, SequenceTheorems, TLAPS

ArmNames == {"rust", "bun"}
Cases == [phase : {"control", "priming", "pilot", "round"}, tier : Tiers, arm : ArmNames,
          round : Nat, fault : {"none", "bad-token", "wrong-response"}]
Unscored == {c \in Cases : c.phase # "round"}
Heads(paired, warm) ==
  Controls(paired) \o (IF warm THEN Once("priming", paired) ELSE <<>>) \o Once("pilot", paired)
--------------------------------------------------------------------------------
(* The plan: cases that are not scored, then the rounds.                         *)
LEMMA CaseType ==
  ASSUME NEW phase \in {"control", "priming", "pilot", "round"}, NEW tier \in Tiers,
         NEW arm \in ArmNames, NEW round \in Nat,
         NEW fault \in {"none", "bad-token", "wrong-response"}
  PROVE  /\ Case(phase, tier, arm, round, fault) \in Cases
         /\ Case(phase, tier, arm, round, fault).phase = phase
         /\ Case(phase, tier, arm, round, fault).tier = tier
         /\ Case(phase, tier, arm, round, fault).arm = arm
         /\ Case(phase, tier, arm, round, fault).round = round
         /\ Case(phase, tier, arm, round, fault).fault = fault
BY DEF Case, Cases

LEMMA ControlsType == ASSUME NEW p \in BOOLEAN PROVE Controls(p) \in Seq(Unscored)
<1>1. /\ Case("control", "small", "rust", 0, "bad-token") \in Unscored
      /\ Case("control", "small", "bun", 0, "bad-token") \in Unscored
      /\ Case("control", "small", "bun", 0, "wrong-response") \in Unscored
  BY DEF Case, Unscored, Cases, Tiers, ArmNames
<1> QED
  BY <1>1 DEF Controls

LEMMA OnceType ==
  ASSUME NEW p \in BOOLEAN, NEW phase \in {"priming", "pilot"}
  PROVE  Once(phase, p) \in Seq(Unscored)
<1> DEFINE arms(i) == IF ~p THEN <<"bun">>
                      ELSE IF i = 1 THEN <<"rust", "bun">> ELSE <<"bun", "rust">>
           Part(i, a) == Case(phase, TierOrder[i], arms(i)[a], 0, "none")
<1>1. ASSUME NEW i \in 1..2, NEW a \in 1..Width(p) PROVE Part(i, a) \in Unscored
  <2>1. TierOrder[i] \in Tiers
    BY DEF TierOrder, Tiers
  <2>2. arms(i)[a] \in ArmNames
    BY DEF Width, ArmNames
  <2> QED
    BY <2>1, <2>2 DEF Case, Unscored, Cases
<1>2. Width(p) \in {1, 2}
  BY DEF Width
<1>3. ASSUME NEW k \in 1..2 * Width(p)
      PROVE  /\ ((k - 1) \div Width(p)) + 1 \in 1..2
             /\ ((k - 1) % Width(p)) + 1 \in 1..Width(p)
  BY <1>2
<1>4. Once(phase, p) =
        [k \in 1..2 * Width(p) |-> Part(((k - 1) \div Width(p)) + 1, ((k - 1) % Width(p)) + 1)]
  BY DEF Once, Flat
<1> HIDE DEF Part
<1>5. \A k \in 1..2 * Width(p) : Once(phase, p)[k] \in Unscored
  BY <1>1, <1>3, <1>4
<1>6. 2 * Width(p) \in Nat
  BY <1>2
<1> QED
  BY <1>4, <1>5, <1>6

LEMMA HeadsType == ASSUME NEW p \in BOOLEAN, NEW w \in BOOLEAN PROVE Heads(p, w) \in Seq(Unscored)
<1>1. Controls(p) \in Seq(Unscored)
  BY ControlsType
<1>2. Once("pilot", p) \in Seq(Unscored) /\ Once("priming", p) \in Seq(Unscored)
  BY OnceType
<1>3. (IF w THEN Once("priming", p) ELSE <<>>) \in Seq(Unscored)
  BY <1>2
<1>4. Controls(p) \o (IF w THEN Once("priming", p) ELSE <<>>) \in Seq(Unscored)
  BY <1>1, <1>3
<1> QED
  BY <1>2, <1>4 DEF Heads

(* The case of a round: t-th tier, a-th arm.                                     *)
RoundCase(p, r, t, a) ==
  Case("round", TiersOf(p, r)[t], ArmsOf(p, r, TiersOf(p, r)[t])[a], r, "none")

LEMMA RoundsAre ==
  ASSUME SessionsAssumption, NEW p \in BOOLEAN
  PROVE  /\ Len(Rounds(p)) = Sessions * (2 * Width(p)) /\ DOMAIN Rounds(p) = 1..Len(Rounds(p))
         /\ Sessions * (2 * Width(p)) \in Nat
         /\ \A r \in 1..Sessions, t \in 1..2, a \in 1..Width(p) :
              LET k == (r - 1) * (2 * Width(p)) + (t - 1) * Width(p) + a
              IN k \in 1..Sessions * (2 * Width(p)) /\ Rounds(p)[k] = RoundCase(p, r, t, a)
         /\ \A k \in 1..Sessions * (2 * Width(p)) : \E r \in 1..Sessions, t \in 1..2, a \in 1..Width(p) :
              k = (r - 1) * (2 * Width(p)) + (t - 1) * Width(p) + a
<1> DEFINE w == Width(p)
           tier(r, k) == TiersOf(p, r)[((k - 1) \div w) + 1]
           Part(r, k) == Case("round", tier(r, k), ArmsOf(p, r, tier(r, k))[((k - 1) % w) + 1], r, "none")
<1>1. Sessions \in Nat /\ w \in {1, 2}
  BY DEF SessionsAssumption, Width
<1>2. Rounds(p) = [k \in 1..Sessions * (2 * w) |->
                     Part(((k - 1) \div (2 * w)) + 1, ((k - 1) % (2 * w)) + 1)]
  BY DEF Rounds, Flat
<1>3. Sessions * (2 * w) \in Nat
  BY <1>1
<1>4. ASSUME NEW r \in 1..Sessions, NEW t \in 1..2, NEW a \in 1..w
      PROVE  LET k == (r - 1) * (2 * w) + (t - 1) * w + a
             IN /\ k \in 1..Sessions * (2 * w)
                /\ ((k - 1) \div (2 * w)) + 1 = r
                /\ ((((k - 1) % (2 * w)) + 1 - 1) \div w) + 1 = t
                /\ ((((k - 1) % (2 * w)) + 1 - 1) % w) + 1 = a
  <2>1. CASE w = 1
    BY <1>1, <1>4, <2>1
  <2>2. CASE w = 2
    BY <1>1, <1>4, <2>2
  <2> QED
    BY <1>1, <2>1, <2>2
<1>5. ASSUME NEW k \in 1..Sessions * (2 * w)
      PROVE  \E r \in 1..Sessions, t \in 1..2, a \in 1..w : k = (r - 1) * (2 * w) + (t - 1) * w + a
  <2>1. CASE w = 1
    <3>1. /\ ((k - 1) \div 2) + 1 \in 1..Sessions /\ ((k - 1) % 2) + 1 \in 1..2
          /\ k = (((k - 1) \div 2) + 1 - 1) * 2 + (((k - 1) % 2) + 1 - 1) * 1 + 1
      BY <1>1, <1>5, <2>1
    <3> QED
      BY <2>1, <3>1
  <2>2. CASE w = 2
    <3>1. /\ ((k - 1) \div 4) + 1 \in 1..Sessions /\ (((k - 1) % 4) \div 2) + 1 \in 1..2
          /\ ((k - 1) % 2) + 1 \in 1..2
          /\ k = (((k - 1) \div 4) + 1 - 1) * 4 + ((((k - 1) % 4) \div 2) + 1 - 1) * 2
                 + (((k - 1) % 2) + 1)
      BY <1>1, <1>5, <2>2
    <3> QED
      BY <2>2, <3>1
  <2> QED
    BY <1>1, <2>1, <2>2
<1>6. ASSUME NEW r \in 1..Sessions, NEW t \in 1..2, NEW a \in 1..w,
             NEW k, k = (r - 1) * (2 * w) + (t - 1) * w + a
      PROVE  k \in 1..Sessions * (2 * w) /\ Rounds(p)[k] = RoundCase(p, r, t, a)
  <2>1. /\ k \in 1..Sessions * (2 * w)
        /\ ((k - 1) \div (2 * w)) + 1 = r
        /\ ((((k - 1) % (2 * w)) + 1 - 1) \div w) + 1 = t
        /\ ((((k - 1) % (2 * w)) + 1 - 1) % w) + 1 = a
    BY <1>4, <1>6
  <2> HIDE DEF w, Part
  <2>2. Rounds(p)[k] = Part(r, ((k - 1) % (2 * w)) + 1)
    BY <1>2, <2>1
  <2>3. Part(r, ((k - 1) % (2 * w)) + 1) = RoundCase(p, r, t, a)
    <3>1. PICK j : j = ((k - 1) % (2 * w)) + 1
      OBVIOUS
    <3>2. ((j - 1) \div w) + 1 = t /\ ((j - 1) % w) + 1 = a
      <4>1. k \in Int /\ w \in Int
        BY <1>1, <2>1
      <4>2. j - 1 = (k - 1) % (2 * w) /\ j - 1 = ((k - 1) % (2 * w)) + 1 - 1
        BY <1>1, <3>1, <4>1
      <4> QED
        BY <2>1, <4>2
    <3>3. tier(r, j) = TiersOf(p, r)[t]
      BY <3>2
    <3> HIDE DEF tier
    <3>4. Part(r, j) = RoundCase(p, r, t, a)
      BY <3>2, <3>3 DEF Part, RoundCase
    <3> QED
      BY <3>1, <3>4
  <2> QED
    BY <2>1, <2>2, <2>3
<1> HIDE DEF w, Part
<1>7. Len(Rounds(p)) = Sessions * (2 * w) /\ DOMAIN Rounds(p) = 1..Len(Rounds(p))
  BY <1>2, <1>3
<1> QED
  BY <1>3, <1>5, <1>6, <1>7 DEF w
LEMMA RoundCaseType ==
  ASSUME SessionsAssumption, NEW p \in BOOLEAN, NEW r \in 1..Sessions, NEW t \in 1..2,
         NEW a \in 1..Width(p)
  PROVE  /\ RoundCase(p, r, t, a) \in Cases /\ RoundCase(p, r, t, a).phase = "round"
         /\ RoundCase(p, r, t, a).fault = "none" /\ RoundCase(p, r, t, a).round = r
         /\ RoundCase(p, r, t, a).tier = TiersOf(p, r)[t]
         /\ RoundCase(p, r, t, a).arm = ArmsOf(p, r, TiersOf(p, r)[t])[a]
<1>1. TiersOf(p, r)[t] \in Tiers
  BY DEF TiersOf, TierOrder, Tiers, Reverse
<1>2. \A tier : ArmsOf(p, r, tier)[a] \in ArmNames
  BY DEF ArmsOf, ArmNames, Width
<1>3. r \in Nat
  BY DEF SessionsAssumption
<1> QED
  BY <1>1, <1>2, <1>3, CaseType DEF RoundCase

(* Where the plan's scored cases are, and what they are.                         *)
LEMMA PlanIs ==
  ASSUME SessionsAssumption, NEW p \in BOOLEAN, NEW w \in BOOLEAN
  PROVE  /\ Plans[p][w] \in Seq(Cases) /\ Rounds(p) \in Seq(Cases)
         /\ Len(Heads(p, w)) \in Nat /\ Len(Rounds(p)) \in Nat
         /\ Len(Plans[p][w]) = Len(Heads(p, w)) + Len(Rounds(p))
         /\ \A i \in 1..Len(Heads(p, w)) : Plans[p][w][i].phase # "round"
         /\ \A i \in 1..Len(Rounds(p)) :
              /\ Plans[p][w][Len(Heads(p, w)) + i] = Rounds(p)[i]
              /\ Rounds(p)[i] \in Cases
              /\ Rounds(p)[i].phase = "round" /\ Rounds(p)[i].fault = "none"
<1>1. Plans[p][w] = Heads(p, w) \o Rounds(p)
  BY DEF Plans, Plan, Heads
<1>2. Heads(p, w) \in Seq(Unscored)
  BY HeadsType
<1>3. ASSUME NEW i \in 1..Len(Rounds(p))
      PROVE  /\ Rounds(p)[i] \in Cases
             /\ Rounds(p)[i].phase = "round" /\ Rounds(p)[i].fault = "none"
  <2>1. PICK r \in 1..Sessions, t \in 1..2, a \in 1..Width(p) :
          i = (r - 1) * (2 * Width(p)) + (t - 1) * Width(p) + a
    <3>1. i \in 1..Sessions * (2 * Width(p))
      BY RoundsAre
    <3> QED
      BY <3>1, RoundsAre
  <2>2. Rounds(p)[i] = RoundCase(p, r, t, a)
    BY <2>1, RoundsAre, SMTT(60)
  <2>3. /\ RoundCase(p, r, t, a) \in Cases /\ RoundCase(p, r, t, a).phase = "round"
        /\ RoundCase(p, r, t, a).fault = "none"
    BY RoundCaseType
  <2> QED
    BY <2>2, <2>3
<1>4. Rounds(p) \in Seq(Cases) /\ Len(Rounds(p)) \in Nat
  <2>1. DOMAIN Rounds(p) = 1..Len(Rounds(p)) /\ Len(Rounds(p)) \in Nat
    BY RoundsAre
  <2>2. Rounds(p) = [i \in 1..Len(Rounds(p)) |-> Rounds(p)[i]]
    <3>1. PICK n, m : Rounds(p) = [k \in 1..n |-> m[k]] /\ n \in Nat
      <4>1. Sessions * (2 * Width(p)) \in Nat
        BY RoundsAre
      <4> DEFINE f == Rounds(p)
      <4>2. f = [k \in 1..Sessions * (2 * Width(p)) |-> f[k]]
        BY DEF Rounds, Flat
      <4> QED
        BY <4>1, <4>2
    <3> QED
      BY <2>1, <3>1
  <2> QED
    BY <1>3, <2>1, <2>2
<1>5. Heads(p, w) \in Seq(Cases) /\ Len(Heads(p, w)) \in Nat
  BY <1>2 DEF Unscored
<1>6. /\ Plans[p][w] \in Seq(Cases)
      /\ Len(Plans[p][w]) = Len(Heads(p, w)) + Len(Rounds(p))
      /\ \A i \in 1..Len(Heads(p, w)) + Len(Rounds(p)) : Plans[p][w][i] =
           IF i <= Len(Heads(p, w)) THEN Heads(p, w)[i] ELSE Rounds(p)[i - Len(Heads(p, w))]
  BY <1>1, <1>4, <1>5, ConcatProperties
<1>7. \A i \in 1..Len(Heads(p, w)) : Plans[p][w][i].phase # "round"
  <2>1. ASSUME NEW i \in 1..Len(Heads(p, w)) PROVE Plans[p][w][i] = Heads(p, w)[i]
    BY <1>4, <1>5, <1>6
  <2>2. ASSUME NEW i \in 1..Len(Heads(p, w)) PROVE Heads(p, w)[i] \in Unscored
    BY <1>2, ElementOfSeq
  <2> QED
    BY <2>1, <2>2 DEF Unscored
<1>8. \A i \in 1..Len(Rounds(p)) : Plans[p][w][Len(Heads(p, w)) + i] = Rounds(p)[i]
  <2>1. ASSUME NEW i \in 1..Len(Rounds(p))
        PROVE  Plans[p][w][Len(Heads(p, w)) + i] = Rounds(p)[i]
    <3>1. PICK j : j = Len(Heads(p, w)) + i
      OBVIOUS
    <3>2. /\ j \in 1..Len(Heads(p, w)) + Len(Rounds(p)) /\ ~(j <= Len(Heads(p, w)))
          /\ j - Len(Heads(p, w)) = i
      BY <1>4, <1>5, <3>1
    <3> QED
      BY <1>6, <3>1, <3>2
  <2> QED
    BY <2>1
<1> QED
  BY <1>3, <1>4, <1>5, <1>6, <1>7, <1>8
--------------------------------------------------------------------------------
(* The invariant.                                                                *)
InCase == main.pc \in {"link", "client", "server", "verify", "finally", "load"}
Mains == [pc : {"checks", "plan", "receipt", "results", "exited", "link", "client", "server",
                "verify", "finally", "load"},
          paired : BOOLEAN, warm : BOOLEAN, next : Nat \ {0}, raised : BOOLEAN,
          docs : Seq(Cases), exit : {None, 0, 2}]

ThePlan == Plans[main.paired][main.warm]
HeadLen == Len(Heads(main.paired, main.warm))
RoundSeq == Rounds(main.paired)

(* A case is one of the plan; receipt and results wait until the plan is done.   *)
PlaceOK ==
  /\ main.next <= Len(ThePlan) + 1
  /\ InCase => main.next <= Len(ThePlan)
  /\ main.pc \in {"receipt", "results"} => main.next = Len(ThePlan) + 1

(* The documents are those of the rounds that are over.                          *)
DocsOK ==
  /\ Len(main.docs) = IF main.next <= HeadLen THEN 0 ELSE main.next - 1 - HeadLen
  /\ \A i \in 1..Len(main.docs) : main.docs[i] = RoundSeq[i]

(* The raw file of a document stays, and a round is loaded with its file there.  *)
FilesOK ==
  /\ \A i \in 1..Len(main.docs) : main.docs[i] \in outs
  /\ main.pc = "load" \/ (main.pc = "finally" /\ ~main.raised)
       => (Current.phase = "round" => Current \in outs)

(* Results first, the manifest last.                                             *)
Files == <<"small", "representative", "manifest">>
WrittenOK ==
  /\ written \in Seq(Tiers \cup {"manifest"}) /\ Len(written) <= 3
  /\ \A i \in 1..Len(written) : written[i] = Files[i]
  /\ Len(written) = 3 => main.pc = "exited" /\ main.next = Len(ThePlan) + 1

IInv == main \in Mains /\ PlaceOK /\ DocsOK /\ FilesOK /\ WrittenOK

LEMMA InitIInv == ASSUME SessionsAssumption, Init PROVE IInv
<1>1. PICK p \in BOOLEAN, w \in BOOLEAN :
        main = [pc |-> "checks", paired |-> p, warm |-> w, next |-> 1,
                raised |-> FALSE, docs |-> <<>>, exit |-> None]
  BY DEF Init
<1>2. main \in Mains
  BY <1>1 DEF Mains
<1>3. /\ main.pc = "checks" /\ main.paired = p /\ main.warm = w /\ main.next = 1
      /\ main.docs = <<>> /\ Len(main.docs) = 0 /\ written = <<>> /\ Len(written) = 0
  BY <1>1 DEF Init
<1>4. /\ Len(Heads(p, w)) \in Nat /\ Len(Rounds(p)) \in Nat
      /\ Len(Plans[p][w]) = Len(Heads(p, w)) + Len(Rounds(p))
  BY PlanIs
<1>5. PlaceOK
  BY <1>3, <1>4 DEF PlaceOK, ThePlan, InCase
<1>6. DocsOK
  BY <1>3, <1>4 DEF DocsOK, HeadLen
<1>7. FilesOK /\ WrittenOK
  BY <1>3 DEF FilesOK, WrittenOK
<1> QED
  BY <1>2, <1>5, <1>6, <1>7 DEF IInv

(* What the invariant and the plan say of the place main() is at.                *)
LEMMA Place ==
  ASSUME SessionsAssumption, IInv
  PROVE  /\ main \in Mains /\ main.docs \in Seq(Cases) /\ Len(main.docs) \in Nat
         /\ main.next \in Nat /\ main.next > 0
         /\ ThePlan \in Seq(Cases) /\ HeadLen \in Nat /\ Len(RoundSeq) \in Nat
         /\ Len(ThePlan) = HeadLen + Len(RoundSeq)
         /\ main.next <= Len(ThePlan) =>
              /\ Current \in Cases
              /\ main.next <= HeadLen => Current.phase # "round"
              /\ main.next > HeadLen =>
                   /\ main.next - HeadLen \in 1..Len(RoundSeq)
                   /\ Current = RoundSeq[main.next - HeadLen]
                   /\ Current.phase = "round" /\ Current.fault = "none"
         /\ \A i \in 1..Len(main.docs) : main.docs[i].phase = "round"
<1> DEFINE p == main.paired
           w == main.warm
<1>1. /\ main \in Mains /\ p \in BOOLEAN /\ w \in BOOLEAN /\ main.docs \in Seq(Cases)
      /\ main.next \in Nat /\ main.next > 0
  BY DEF IInv, Mains
<1>2. Len(main.docs) \in Nat
  BY <1>1
<1>3. /\ ThePlan \in Seq(Cases) /\ HeadLen \in Nat /\ Len(RoundSeq) \in Nat
      /\ Len(ThePlan) = HeadLen + Len(RoundSeq)
      /\ \A i \in 1..HeadLen : ThePlan[i].phase # "round"
      /\ \A i \in 1..Len(RoundSeq) :
              /\ ThePlan[HeadLen + i] = RoundSeq[i]
              /\ RoundSeq[i].phase = "round" /\ RoundSeq[i].fault = "none"
  <2>1. ASSUME NEW q \in BOOLEAN, q = p, NEW v \in BOOLEAN, v = w
        PROVE  /\ Plans[q][v] \in Seq(Cases) /\ Len(Heads(q, v)) \in Nat /\ Len(Rounds(q)) \in Nat
               /\ Len(Plans[q][v]) = Len(Heads(q, v)) + Len(Rounds(q))
               /\ \A i \in 1..Len(Heads(q, v)) : Plans[q][v][i].phase # "round"
               /\ \A i \in 1..Len(Rounds(q)) :
                    /\ Plans[q][v][Len(Heads(q, v)) + i] = Rounds(q)[i]
                    /\ Rounds(q)[i].phase = "round" /\ Rounds(q)[i].fault = "none"
    BY PlanIs, SMTT(60)
  <2> QED
    BY <1>1, <2>1 DEF ThePlan, HeadLen, RoundSeq
<1>4. Current = ThePlan[main.next]
  BY DEF Current, ThePlan
<1> HIDE DEF p, w
<1>5. ASSUME main.next <= Len(ThePlan)
      PROVE  /\ Current \in Cases
             /\ main.next <= HeadLen => Current.phase # "round"
             /\ main.next > HeadLen =>
                  /\ main.next - HeadLen \in 1..Len(RoundSeq)
                  /\ Current = RoundSeq[main.next - HeadLen]
                  /\ Current.phase = "round" /\ Current.fault = "none"
  <2>1. main.next \in 1..Len(ThePlan)
    BY <1>1, <1>3, <1>5
  <2>2. Current \in Cases
    BY <1>3, <1>4, <2>1, ElementOfSeq
  <2>3. main.next <= HeadLen => Current.phase # "round"
    BY <1>1, <1>3, <1>4
  <2>4. ASSUME main.next > HeadLen
        PROVE  /\ main.next - HeadLen \in 1..Len(RoundSeq)
               /\ Current = RoundSeq[main.next - HeadLen]
               /\ Current.phase = "round" /\ Current.fault = "none"
    <3>1. PICK i : i = main.next - HeadLen
      OBVIOUS
    <3>2. i \in 1..Len(RoundSeq) /\ main.next = HeadLen + i
      BY <1>1, <1>3, <1>5, <2>4, <3>1
    <3>3. /\ ThePlan[HeadLen + i] = RoundSeq[i]
          /\ RoundSeq[i].phase = "round" /\ RoundSeq[i].fault = "none"
      BY <1>3, <3>2
    <3>4. Current = RoundSeq[i]
      BY <1>4, <3>2, <3>3
    <3> QED
      BY <3>1, <3>2, <3>3, <3>4
  <2> QED
    BY <2>2, <2>3, <2>4
<1>6. ASSUME NEW i \in 1..Len(main.docs) PROVE main.docs[i].phase = "round"
  <2>1. /\ main.docs[i] = RoundSeq[i] /\ main.next <= Len(ThePlan) + 1
        /\ Len(main.docs) = IF main.next <= HeadLen THEN 0 ELSE main.next - 1 - HeadLen
    BY DEF IInv, DocsOK, PlaceOK
  <2>2. i \in 1..Len(RoundSeq)
    BY <1>1, <1>2, <1>3, <2>1
  <2> QED
    BY <1>3, <2>1, <2>2
<1> QED
  BY <1>1, <1>2, <1>3, <1>5, <1>6

(* Steps that stay with the case, or with none, and take no file away but a       *)
(* control's.                                                                    *)
LEMMA StaysAt ==
  ASSUME SessionsAssumption, IInv, main' \in Mains,
         main'.paired = main.paired, main'.warm = main.warm, main'.next = main.next,
         main'.docs = main.docs, written' = written,
         \A c \in outs : c.phase # "control" => c \in outs',
         InCase' => main.next <= Len(ThePlan),
         main'.pc \in {"receipt", "results"} => main.next = Len(ThePlan) + 1,
         main.pc = "exited" => main'.pc = "exited",
         (main'.pc = "load" \/ (main'.pc = "finally" /\ ~main'.raised)) =>
           (Current.phase = "round" => Current \in outs')
  PROVE  IInv'
<1>1. /\ Current' = Current /\ ThePlan' = ThePlan /\ HeadLen' = HeadLen /\ RoundSeq' = RoundSeq
  BY DEF Current, ThePlan, HeadLen, RoundSeq
<1>2. PlaceOK'
  BY <1>1 DEF IInv, PlaceOK
<1>3. DocsOK'
  BY <1>1 DEF IInv, DocsOK
<1>4. FilesOK'
  <2>1. \A i \in 1..Len(main.docs) : main.docs[i] \in outs /\ main.docs[i].phase = "round"
    BY Place DEF IInv, FilesOK
  <2>2. \A i \in 1..Len(main'.docs) : main'.docs[i] \in outs'
    BY <2>1
  <2> QED
    BY <1>1, <2>2 DEF FilesOK
<1>5. WrittenOK'
  BY <1>1 DEF IInv, WrittenOK
<1> QED
  BY <1>2, <1>3, <1>4, <1>5 DEF IInv
LEMMA Moves ==
  ASSUME SessionsAssumption, IInv, NEW pc \in {"checks", "plan", "receipt", "results", "exited", "link",
         "client", "server", "verify", "finally", "load"}
  PROVE  /\ Then(pc) => /\ main' \in Mains /\ main'.pc = pc /\ main'.raised = main.raised
                        /\ main'.paired = main.paired /\ main'.warm = main.warm
                        /\ main'.next = main.next /\ main'.docs = main.docs
         /\ Raises => /\ main' \in Mains /\ main'.pc = "finally" /\ main'.raised = TRUE
                      /\ main'.paired = main.paired /\ main'.warm = main.warm
                      /\ main'.next = main.next /\ main'.docs = main.docs
         /\ Fails => /\ main' \in Mains /\ main'.pc = "exited"
                     /\ main'.paired = main.paired /\ main'.warm = main.warm
                     /\ main'.next = main.next /\ main'.docs = main.docs
<1>1. main \in Mains
  BY DEF IInv
<1>2. Then(pc) => /\ main' \in Mains /\ main'.pc = pc /\ main'.raised = main.raised
                  /\ main'.paired = main.paired /\ main'.warm = main.warm
                  /\ main'.next = main.next /\ main'.docs = main.docs
  BY <1>1 DEF Then, Goes, Mains
<1>3. Raises => /\ main' \in Mains /\ main'.pc = "finally" /\ main'.raised = TRUE
                /\ main'.paired = main.paired /\ main'.warm = main.warm
                /\ main'.next = main.next /\ main'.docs = main.docs
  BY <1>1 DEF Raises, Goes, Mains
<1>4. Fails => /\ main' \in Mains /\ main'.pc = "exited"
               /\ main'.paired = main.paired /\ main'.warm = main.warm
               /\ main'.next = main.next /\ main'.docs = main.docs
  BY <1>1 DEF Fails, Goes, Mains
<1> QED
  BY <1>2, <1>3, <1>4

(* A step that gives up keeps the invariant, whatever it left behind.            *)
LEMMA FailsKeeps ==
  ASSUME SessionsAssumption, IInv, Fails, written' = written,
         \A c \in outs : c.phase # "control" => c \in outs'
  PROVE  IInv'
<1>1. /\ main' \in Mains /\ main'.pc = "exited"
      /\ main'.paired = main.paired /\ main'.warm = main.warm
      /\ main'.next = main.next /\ main'.docs = main.docs
  BY Moves
<1> QED
  BY <1>1, StaysAt DEF InCase

LEMMA RaisesKeeps ==
  ASSUME SessionsAssumption, IInv, InCase, Raises, written' = written, outs' = outs
  PROVE  IInv'
<1>1. /\ main' \in Mains /\ main'.pc = "finally" /\ main'.raised = TRUE
      /\ main'.paired = main.paired /\ main'.warm = main.warm
      /\ main'.next = main.next /\ main'.docs = main.docs
  BY Moves
<1>2. main.pc # "exited" /\ main.next <= Len(ThePlan)
  BY DEF InCase, IInv, PlaceOK
<1> QED
  BY <1>1, <1>2, StaysAt DEF InCase

(* On to a place of the same case where its file need not be there yet.          *)
LEMMA ThenKeeps ==
  ASSUME SessionsAssumption, IInv, main.next <= Len(ThePlan), main.pc # "exited",
         NEW pc \in {"link", "client", "server", "verify"},
         Then(pc), written' = written, \A c \in outs : c.phase # "control" => c \in outs'
  PROVE  IInv'
<1>1. /\ main' \in Mains /\ main'.pc = pc
      /\ main'.paired = main.paired /\ main'.warm = main.warm
      /\ main'.next = main.next /\ main'.docs = main.docs
  BY Moves
<1> QED
  BY <1>1, StaysAt DEF InCase
LEMMA ProcessStep == ASSUME SessionsAssumption, IInv, Server \/ Client \/ UNCHANGED vars PROVE IInv'
<1>1. main' = main /\ written' = written /\ outs \subseteq outs'
  BY DEF Server, Client, ClientConnects, ClientCloses, ClientWrites, ClientRefused, ClientFails,
         RunnerEnds, vars
<1>2. main' \in Mains /\ (InCase => main.next <= Len(ThePlan))
      /\ (main.pc \in {"receipt", "results"} => main.next = Len(ThePlan) + 1)
      /\ ((main.pc = "load" \/ (main.pc = "finally" /\ ~main.raised)) =>
            (Current.phase = "round" => Current \in outs))
  BY <1>1 DEF IInv, PlaceOK, FilesOK
<1> QED
  BY <1>1, <1>2, StaysAt DEF InCase

LEMMA CheckStep == ASSUME SessionsAssumption, IInv, Check PROVE IInv'
<1>1. CASE Fails
  BY <1>1, FailsKeeps DEF Check, Quiet
<1>2. CASE Then("plan")
  <2>1. /\ main' \in Mains /\ main'.pc = "plan"
        /\ main'.paired = main.paired /\ main'.warm = main.warm
        /\ main'.next = main.next /\ main'.docs = main.docs
    BY <1>2, Moves
  <2> QED
    BY <2>1, StaysAt DEF Check, At, Quiet, InCase
<1> QED
  BY <1>1, <1>2 DEF Check

LEMMA StartCaseStep == ASSUME SessionsAssumption, IInv, StartCase PROVE IInv'
<1>1. main.next <= Len(ThePlan) /\ main.pc = "plan"
  BY DEF StartCase, At, ThePlan
<1>2. CASE Fails /\ Quiet
  BY <1>2, FailsKeeps DEF Quiet
<1>3. ASSUME outs' = outs \ {c \in {Current} : Rust /\ Current.phase = "control"},
             IF Rust THEN server' = "starting" /\ client' = None /\ Then("link")
                     ELSE server' = None /\ client' = "running" /\ Then("client"),
             UNCHANGED written
      PROVE  IInv'
  <2>1. \A c \in outs : c.phase # "control" => c \in outs'
    BY <1>3
  <2>2. Then("link") \/ Then("client")
    BY <1>3
  <2> QED
    BY <1>1, <1>3, <2>1, <2>2, ThenKeeps
<1> QED
  BY <1>2, <1>3 DEF StartCase

LEMMA AwaitStep ==
  ASSUME SessionsAssumption, IInv, AwaitLink \/ AwaitClient \/ AwaitServer PROVE IInv'
<1>1. InCase /\ main.pc # "exited" /\ main.next <= Len(ThePlan)
      /\ UNCHANGED <<outs, written>>
  BY DEF AwaitLink, AwaitClient, AwaitServer, At, InCase, IInv, PlaceOK
<1>2. Then("client") \/ Then("server") \/ Then("verify") \/ Raises \/ Fails
  BY DEF AwaitLink, AwaitClient, AwaitServer
<1> QED
  BY <1>1, <1>2, ThenKeeps, RaisesKeeps, FailsKeeps

(* A case without a fault is passed only with its raw file there.                *)
LEMMA VerifyStep == ASSUME SessionsAssumption, IInv, Verify PROVE IInv'
<1>1. main.pc = "verify" /\ InCase /\ main.next <= Len(ThePlan)
  BY DEF Verify, At, InCase, IInv, PlaceOK
<1>2. CASE Raises
  BY <1>1, <1>2, RaisesKeeps DEF Verify, Quiet
<1>3. CASE Fails
  BY <1>1, <1>3, FailsKeeps DEF Verify, Quiet
<1>4. ASSUME Sound, Then("finally") \/ Then("load") PROVE IInv'
  <2>1. /\ main' \in Mains /\ main'.pc \in {"finally", "load"}
        /\ main'.paired = main.paired /\ main'.warm = main.warm
        /\ main'.next = main.next /\ main'.docs = main.docs
    BY <1>4, Moves
  <2>2. Current.phase = "round" => Current.fault = "none"
    BY <1>1, Place
  <2>3. Current.phase = "round" => Current \in outs
    BY <1>4, <2>2 DEF Sound
  <2> QED
    BY <1>1, <2>1, <2>3, StaysAt DEF Verify, Quiet
<1> QED
  BY <1>2, <1>3, <1>4 DEF Verify

LEMMA FinallyStep == ASSUME SessionsAssumption, IInv, Finally PROVE IInv'
<1>1. main.pc = "finally" /\ InCase /\ main.next <= Len(ThePlan)
  BY DEF Finally, At, InCase, IInv, PlaceOK
<1>2. \A c \in outs : c.phase # "control" => c \in outs'
  BY DEF Finally
<1>3. CASE main.raised
  BY <1>2, <1>3, FailsKeeps DEF Finally
<1>4. CASE ~main.raised
  <2>1. /\ main' \in Mains /\ main'.pc = "load"
        /\ main'.paired = main.paired /\ main'.warm = main.warm
        /\ main'.next = main.next /\ main'.docs = main.docs
    BY <1>4, Moves DEF Finally
  <2>2. Current.phase = "round" => Current \in outs'
    BY <1>1, <1>2, <1>4 DEF IInv, FilesOK
  <2> QED
    BY <1>1, <1>2, <2>1, <2>2, StaysAt DEF Finally
<1> QED
  BY <1>3, <1>4

LEMMA SummariseStep == ASSUME SessionsAssumption, IInv, Summarise PROVE IInv'
<1>1. CASE Fails
  BY <1>1, FailsKeeps DEF Summarise, Quiet
<1>2. CASE Then("receipt")
  <2>1. /\ main' \in Mains /\ main'.pc = "receipt"
        /\ main'.paired = main.paired /\ main'.warm = main.warm
        /\ main'.next = main.next /\ main'.docs = main.docs
    BY <1>2, Moves
  <2>2. main.next > Len(ThePlan) /\ main.next <= Len(ThePlan) + 1
    BY DEF Summarise, ThePlan, IInv, PlaceOK
  <2>3. main.next = Len(ThePlan) + 1
    BY <2>2, Place
  <2> QED
    BY <2>1, <2>3, StaysAt DEF Summarise, At, Quiet, InCase
<1> QED
  BY <1>1, <1>2 DEF Summarise
LEMMA ReceiptStep == ASSUME SessionsAssumption, IInv, Receipt PROVE IInv'
<1>1. CASE Fails
  BY <1>1, FailsKeeps DEF Receipt, Quiet
<1>2. CASE Then("results")
  <2>1. /\ main' \in Mains /\ main'.pc = "results"
        /\ main'.paired = main.paired /\ main'.warm = main.warm
        /\ main'.next = main.next /\ main'.docs = main.docs
    BY <1>2, Moves
  <2>2. main.pc = "receipt" /\ main.next = Len(ThePlan) + 1
    BY DEF Receipt, At, IInv, PlaceOK
  <2> QED
    BY <2>1, <2>2, StaysAt DEF Receipt, Quiet, InCase
<1> QED
  BY <1>1, <1>2 DEF Receipt
(* The next document is the next round of the plan, and its file is there.       *)
LEMMA LoadStep == ASSUME SessionsAssumption, IInv, Load PROVE IInv'
<1>1. main.pc = "load" /\ main.next <= Len(ThePlan) /\ InCase /\ Quiet
  BY DEF Load, At, InCase, IInv, PlaceOK
<1>2. CASE Fails
  BY <1>1, <1>2, FailsKeeps DEF Quiet
<1>3. ASSUME Goes([main EXCEPT !.pc = "plan", !.next = @ + 1,
                     !.docs = IF Current.phase = "round" THEN Append(@, Current) ELSE @])
      PROVE  IInv'
  <2>1. /\ main \in Mains /\ main.docs \in Seq(Cases) /\ Len(main.docs) \in Nat
        /\ main.next \in Nat /\ main.next > 0
        /\ HeadLen \in Nat /\ Len(RoundSeq) \in Nat /\ Len(ThePlan) = HeadLen + Len(RoundSeq)
        /\ Current \in Cases
        /\ main.next <= HeadLen => Current.phase # "round"
        /\ main.next > HeadLen =>
             Current = RoundSeq[main.next - HeadLen] /\ Current.phase = "round"
    BY <1>1, Place
  <2>2. /\ main'.pc = "plan" /\ main'.paired = main.paired /\ main'.warm = main.warm
        /\ main'.next = main.next + 1
        /\ main'.docs = IF Current.phase = "round" THEN Append(main.docs, Current) ELSE main.docs
    BY <1>3, <2>1 DEF Goes, Mains
  <2>3. main' \in Mains
    <3>1. main'.docs \in Seq(Cases)
      BY <2>1, <2>2
    <3>2. main' = [main EXCEPT !.pc = "plan", !.next = main'.next, !.docs = main'.docs]
      BY <1>3, <2>1, <2>2 DEF Goes, Mains
    <3>3. main'.next \in Nat \ {0}
      BY <2>1, <2>2
    <3> QED
      BY <2>1, <3>1, <3>2, <3>3 DEF Mains
  <2>4. ThePlan' = ThePlan /\ HeadLen' = HeadLen /\ RoundSeq' = RoundSeq
    BY <2>2 DEF ThePlan, HeadLen, RoundSeq
  <2>5. outs' = outs /\ written' = written
    BY <1>1 DEF Quiet
  <2>6. PlaceOK'
    <3>1. main'.next <= Len(ThePlan) + 1
      BY <1>1, <2>1, <2>2
    <3> QED
      BY <2>2, <2>4, <3>1 DEF PlaceOK, InCase
  <2>7. CASE main.next <= HeadLen
    <3>1. Current.phase # "round" /\ main'.docs = main.docs /\ Len(main.docs) = 0
      BY <2>1, <2>2, <2>7 DEF IInv, DocsOK
    <3>2. Len(main'.docs) = IF main'.next <= HeadLen THEN 0 ELSE main'.next - 1 - HeadLen
      BY <2>1, <2>2, <2>7, <3>1
    <3>3. DocsOK' /\ FilesOK'
      BY <2>2, <2>4, <3>1, <3>2 DEF DocsOK, FilesOK
    <3>4. WrittenOK'
      BY <1>1, <2>5, <2>2, <2>4 DEF IInv, WrittenOK
    <3> QED
      BY <2>3, <2>6, <3>3, <3>4 DEF IInv
  <2>8. CASE main.next > HeadLen
    <3>1. /\ Current = RoundSeq[main.next - HeadLen] /\ Current.phase = "round"
          /\ main'.docs = Append(main.docs, Current) /\ Len(main.docs) = main.next - 1 - HeadLen
      BY <2>1, <2>2, <2>8 DEF IInv, DocsOK
    <3>2. /\ Len(main'.docs) = Len(main.docs) + 1
          /\ \A i \in 1..Len(main'.docs) :
               main'.docs[i] = IF i <= Len(main.docs) THEN main.docs[i] ELSE Current
      BY <2>1, <3>1
    <3>3. Len(main.docs) + 1 = main.next - HeadLen
      BY <2>1, <3>1
    <3>4. Len(main'.docs) = IF main'.next <= HeadLen THEN 0 ELSE main'.next - 1 - HeadLen
      BY <2>1, <2>2, <2>8, <3>2, <3>3
    <3>5. \A i \in 1..Len(main'.docs) : main'.docs[i] = RoundSeq[i]
      <4>1. ASSUME NEW i \in 1..Len(main'.docs) PROVE main'.docs[i] = RoundSeq[i]
        <5>1. CASE i <= Len(main.docs)
          BY <2>1, <3>2, <5>1 DEF IInv, DocsOK
        <5>2. CASE i = Len(main.docs) + 1
          BY <2>1, <3>1, <3>2, <3>3, <5>2
        <5> QED
          BY <2>1, <3>2, <5>1, <5>2
      <4> QED
        BY <4>1
    <3>6. DocsOK'
      BY <2>4, <3>4, <3>5 DEF DocsOK
    <3>7. Current \in outs
      BY <1>1, <3>1 DEF IInv, FilesOK
    <3>8. FilesOK'
      <4>1. \A i \in 1..Len(main.docs) : main.docs[i] \in outs
        BY DEF IInv, FilesOK
      <4>2. \A i \in 1..Len(main'.docs) : main'.docs[i] \in outs'
        BY <2>1, <2>5, <3>2, <3>7, <4>1
      <4> QED
        BY <2>2, <4>2 DEF FilesOK
    <3>9. WrittenOK'
      BY <1>1, <2>5, <2>2, <2>4 DEF IInv, WrittenOK
    <3> QED
      BY <2>3, <2>6, <3>6, <3>8, <3>9 DEF IInv
  <2> QED
    BY <2>1, <2>7, <2>8
<1> QED
  BY <1>2, <1>3 DEF Load

(* The files come in their order, and the manifest with the end of main().       *)
LEMMA WriteStep == ASSUME SessionsAssumption, IInv, WriteResult \/ WriteManifest PROVE IInv'
<1>1. main.pc = "results" /\ outs' = outs /\ main.next = Len(ThePlan) + 1
  BY DEF WriteResult, WriteManifest, At, IInv, PlaceOK
<1>2. /\ written \in Seq(Tiers \cup {"manifest"}) /\ Len(written) \in Nat
      /\ \A i \in 1..Len(written) : written[i] = Files[i]
  BY DEF IInv, WrittenOK
<1>3. CASE Fails /\ UNCHANGED written
  BY <1>1, <1>3, FailsKeeps
<1>4. ASSUME Len(written) <= 2, written' = Append(written, Files[Len(written) + 1])
      PROVE  /\ written' \in Seq(Tiers \cup {"manifest"}) /\ Len(written') = Len(written) + 1
             /\ \A i \in 1..Len(written') : written'[i] = Files[i]
  <2>1. Files[Len(written) + 1] \in Tiers \cup {"manifest"}
    BY <1>2, <1>4 DEF Files, Tiers
  <2>2. PICK f : f = Files[Len(written) + 1]
    OBVIOUS
  <2>3. /\ written' \in Seq(Tiers \cup {"manifest"}) /\ Len(written') = Len(written) + 1
        /\ \A i \in 1..Len(written') :
             written'[i] = IF i <= Len(written) THEN written[i] ELSE f
    BY <1>2, <1>4, <2>1, <2>2
  <2>4. ASSUME NEW i \in 1..Len(written') PROVE written'[i] = Files[i]
    <3>1. CASE i <= Len(written)
      BY <1>2, <2>3, <3>1
    <3>2. CASE i = Len(written) + 1
      BY <1>2, <2>2, <2>3, <3>2
    <3> QED
      BY <1>2, <2>3, <3>1, <3>2
  <2> QED
    BY <2>3, <2>4
<1>5. ASSUME UNCHANGED main, Len(written) < 2, written' = Append(written, TierOrder[Len(written) + 1])
      PROVE  IInv'
  <2>1. TierOrder[Len(written) + 1] = Files[Len(written) + 1]
    BY <1>2, <1>5 DEF TierOrder, Files
  <2>2. /\ written' \in Seq(Tiers \cup {"manifest"}) /\ Len(written') = Len(written) + 1
        /\ \A i \in 1..Len(written') : written'[i] = Files[i]
    BY <1>2, <1>4, <1>5, <2>1
  <2>3. WrittenOK'
    BY <1>2, <1>5, <2>2 DEF WrittenOK
  <2>4. main' \in Mains /\ PlaceOK' /\ DocsOK' /\ FilesOK'
    BY <1>1, <1>5 DEF IInv, PlaceOK, DocsOK, FilesOK, InCase, ThePlan, HeadLen, RoundSeq, Current
  <2> QED
    BY <2>3, <2>4 DEF IInv
<1>6. ASSUME written' = Append(written, "manifest"), Len(written) = 2,
             Goes([main EXCEPT !.pc = "exited", !.exit = 0])
      PROVE  IInv'
  <2>1. /\ main' \in Mains /\ main'.pc = "exited" /\ main'.paired = main.paired
        /\ main'.warm = main.warm /\ main'.next = main.next /\ main'.docs = main.docs
    BY <1>6 DEF Goes, IInv, Mains
  <2>2. Files[Len(written) + 1] = "manifest"
    BY <1>6 DEF Files
  <2>3. /\ written' \in Seq(Tiers \cup {"manifest"}) /\ Len(written') = Len(written) + 1
        /\ \A i \in 1..Len(written') : written'[i] = Files[i]
    BY <1>4, <1>6, <2>2
  <2>4. ThePlan' = ThePlan /\ HeadLen' = HeadLen /\ RoundSeq' = RoundSeq
    BY <2>1 DEF ThePlan, HeadLen, RoundSeq
  <2>5. PlaceOK' /\ DocsOK' /\ FilesOK'
    BY <1>1, <2>1, <2>4 DEF IInv, PlaceOK, DocsOK, FilesOK, InCase
  <2>6. WrittenOK'
    BY <1>1, <1>6, <2>1, <2>3, <2>4 DEF WrittenOK
  <2> QED
    BY <2>1, <2>5, <2>6 DEF IInv
<1>7. CASE WriteResult
  BY <1>3, <1>5, <1>7 DEF WriteResult
<1>8. CASE WriteManifest
  BY <1>3, <1>6, <1>8 DEF WriteManifest
<1> QED
  BY <1>7, <1>8

(* The invariant holds of every campaign: what is scored is the plan's rounds so   *)
(* far, in order, each with its raw file; the manifest comes with all of them.   *)
THEOREM InductiveInvariant == Spec => []IInv
<1>1. Init => IInv
  BY SessionsAssumption, InitIInv
<1>2. IInv /\ [Next]_vars => IInv'
  <2> SUFFICES ASSUME IInv, [Next]_vars PROVE IInv'
    OBVIOUS
  <2>1. CASE Server \/ Client \/ UNCHANGED vars
    BY <2>1, SessionsAssumption, ProcessStep
  <2>2. CASE Check
    BY <2>2, SessionsAssumption, CheckStep
  <2>3. CASE StartCase
    BY <2>3, SessionsAssumption, StartCaseStep
  <2>4. CASE AwaitLink \/ AwaitClient \/ AwaitServer
    BY <2>4, SessionsAssumption, AwaitStep
  <2>5. CASE Verify
    BY <2>5, SessionsAssumption, VerifyStep
  <2>6. CASE Finally
    BY <2>6, SessionsAssumption, FinallyStep
  <2>7. CASE Load
    BY <2>7, SessionsAssumption, LoadStep
  <2>8. CASE Summarise
    BY <2>8, SessionsAssumption, SummariseStep
  <2>9. CASE Receipt
    BY <2>9, SessionsAssumption, ReceiptStep
  <2>10. CASE WriteResult \/ WriteManifest
    BY <2>10, SessionsAssumption, WriteStep
  <2> QED
    BY <2>1, <2>2, <2>3, <2>4, <2>5, <2>6, <2>7, <2>8, <2>9, <2>10 DEF Next, Timed, Untimed
<1> QED
  BY <1>1, <1>2, PTL DEF Spec
--------------------------------------------------------------------------------
(* Counting. Odd and even numbers up to n are equally many, but for an odd n.    *)
Odds(n) == {r \in 1..n : r % 2 = 1}
Evens(n) == {r \in 1..n : r % 2 = 0}

LEMMA Halves ==
  ASSUME NEW n \in Nat
  PROVE  /\ Cardinality(Odds(n)) \in Nat /\ Cardinality(Evens(n)) \in Nat
         /\ Cardinality(Odds(n)) = Cardinality(Evens(n)) + (n % 2)
<1> DEFINE S == IF n % 2 = 1 THEN Odds(n) \ {n} ELSE Odds(n)
           T == Evens(n)
           f == [r \in S |-> r + 1]
<1>1. IsFiniteSet(1..n)
  BY FS_Interval
<1>2. Odds(n) \in SUBSET (1..n) /\ T \in SUBSET (1..n)
  BY DEF Odds, Evens
<1>3. IsFiniteSet(Odds(n)) /\ IsFiniteSet(T)
  BY <1>1, <1>2, FS_Subset
<1>4. IsFiniteSet(S)
  BY <1>3, FS_RemoveElement
<1>5. S = {r \in 1..(n - 1) : r % 2 = 1}
  BY DEF Odds
<1>6. f \in [S -> T]
  BY <1>5 DEF Evens
<1>7. \A t \in T : \E s \in S : f[s] = t
  <2>1. ASSUME NEW t \in T PROVE t - 1 \in S /\ f[t - 1] = t
    <3>1. t \in 1..n /\ t % 2 = 0
      BY DEF Evens
    <3>2. t - 1 \in 1..(n - 1) /\ (t - 1) % 2 = 1 /\ (t - 1) + 1 = t
      BY <3>1
    <3> QED
      BY <1>5, <3>2
  <2> QED
    BY <2>1
<1>8. \A a, b \in S : f[a] = f[b] => a = b
  BY <1>5
<1>9. f \in Bijection(S, T)
  BY <1>6, <1>7, <1>8 DEF Bijection, Injection, Surjection, IsInjective
<1> HIDE DEF S, T, f
<1>10. Cardinality(T) = Cardinality(S)
  BY <1>4, <1>9, FS_Bijection DEF ExistsBijection
<1>11. Cardinality(Odds(n)) \in Nat /\ Cardinality(T) \in Nat
  BY <1>3, FS_CardinalityType
<1>12. CASE n % 2 = 1
  <2>1. S = Odds(n) \ {n}
    BY <1>12 DEF S
  <2>2. n \in Odds(n)
    BY <1>12 DEF Odds
  <2>3. Cardinality(S) = Cardinality(Odds(n)) - 1
    BY <1>3, <2>1, <2>2, FS_RemoveElement
  <2>4. Cardinality(Odds(n)) = Cardinality(T) + 1
    BY <1>10, <1>11, <2>3
  <2>5. T = Evens(n)
    BY DEF T
  <2> QED
    BY <1>11, <1>12, <2>4, <2>5
<1>13. CASE n % 2 = 0
  <2>1. S = Odds(n)
    BY <1>13 DEF S
  <2>2. Cardinality(Odds(n)) = Cardinality(T)
    BY <1>10, <2>1
  <2>3. T = Evens(n)
    BY DEF T
  <2> QED
    BY <1>11, <1>13, <2>2, <2>3
<1> QED
  BY <1>12, <1>13

(* The scored documents of a tier and a round, once the plan is done.            *)
Hits(d, tier, r) == {i \in DOMAIN d : d[i].tier = tier /\ d[i].round = r}

LEMMA HitsAre ==
  ASSUME SessionsAssumption, NEW p \in BOOLEAN, NEW tier \in Tiers, NEW r \in 1..Sessions
  PROVE  \E b \in Nat :
           /\ Hits(Rounds(p), tier, r) = (b + 1)..(b + Width(p))
           /\ \A a \in 1..Width(p) : Rounds(p)[b + a].arm = ArmsOf(p, r, tier)[a]
<1> DEFINE w == Width(p)
           TierAt(t) == TiersOf(p, r)[t]
<1>1. w \in {1, 2} /\ r \in Nat /\ Sessions \in Nat /\ r > 0
  BY DEF Width, SessionsAssumption
<1>2. ASSUME NEW v \in 1..Sessions, NEW t \in 1..2, NEW a \in 1..w,
             NEW k, k = (v - 1) * (2 * w) + (t - 1) * w + a
      PROVE  /\ k \in DOMAIN Rounds(p) /\ Rounds(p)[k].round = v
             /\ Rounds(p)[k].tier = TiersOf(p, v)[t]
             /\ Rounds(p)[k].arm = ArmsOf(p, v, TiersOf(p, v)[t])[a]
  <2>1. k \in 1..Sessions * (2 * w) /\ Rounds(p)[k] = RoundCase(p, v, t, a)
    <3>1. \A y \in 1..Sessions, z \in 1..2, x \in 1..Width(p) :
            LET j == (y - 1) * (2 * Width(p)) + (z - 1) * Width(p) + x
            IN j \in 1..Sessions * (2 * Width(p)) /\ Rounds(p)[j] = RoundCase(p, y, z, x)
      BY RoundsAre
    <3>2. /\ (v - 1) * (2 * Width(p)) + (t - 1) * Width(p) + a \in 1..Sessions * (2 * Width(p))
          /\ Rounds(p)[(v - 1) * (2 * Width(p)) + (t - 1) * Width(p) + a] = RoundCase(p, v, t, a)
      BY <3>1, Zenon
    <3> QED
      BY <1>2, <3>2, Zenon
  <2>2. DOMAIN Rounds(p) = 1..Sessions * (2 * w)
    BY RoundsAre
  <2> QED
    BY <2>1, <2>2, RoundCaseType
<1>3. PICK u \in 1..2 : /\ TierAt(u) = tier
                        /\ \A t \in 1..2 : TierAt(t) = tier => t = u
  BY DEF TiersOf, TierOrder, Tiers, Reverse
<1>4. PICK b : b = (r - 1) * (2 * w) + (u - 1) * w
  OBVIOUS
<1>5. b \in Nat
  <2>1. CASE w = 1
    BY <1>1, <1>4, <2>1
  <2>2. CASE w = 2
    BY <1>1, <1>4, <2>2
  <2> QED
    BY <1>1, <2>1, <2>2
<1>6. ASSUME NEW i \in Hits(Rounds(p), tier, r) PROVE i \in (b + 1)..(b + w)
  <2>1. i \in DOMAIN Rounds(p) /\ Rounds(p)[i].tier = tier /\ Rounds(p)[i].round = r
    BY DEF Hits
  <2>2. i \in 1..Sessions * (2 * w)
    BY <2>1, RoundsAre
  <2>3. PICK v \in 1..Sessions, t \in 1..2, a \in 1..w : i = (v - 1) * (2 * w) + (t - 1) * w + a
    BY <2>2, RoundsAre
  <2>4. v = r /\ TiersOf(p, v)[t] = tier
    BY <1>2, <2>1, <2>3
  <2>5. t = u
    BY <1>3, <2>4
  <2>6. i = b + a
    <3>1. CASE w = 1
      BY <1>1, <1>4, <2>3, <2>4, <2>5, <3>1
    <3>2. CASE w = 2
      BY <1>1, <1>4, <2>3, <2>4, <2>5, <3>2
    <3> QED
      BY <1>1, <3>1, <3>2
  <2> QED
    BY <1>1, <1>5, <2>6
<1>7. ASSUME NEW a \in 1..w
      PROVE  b + a \in Hits(Rounds(p), tier, r) /\ Rounds(p)[b + a].arm = ArmsOf(p, r, tier)[a]
  <2>1. PICK k : k = (r - 1) * (2 * w) + (u - 1) * w + a
    OBVIOUS
  <2>2. k = b + a
    BY <1>4, <2>1
  <2> QED
    BY <1>2, <1>3, <2>1, <2>2 DEF Hits
<1>8. ASSUME NEW i \in (b + 1)..(b + w) PROVE i \in Hits(Rounds(p), tier, r)
  <2>1. PICK a : a = i - b
    OBVIOUS
  <2>2. a \in 1..w /\ i = b + a
    BY <1>1, <1>5, <2>1
  <2> QED
    BY <1>7, <2>2
<1> QED
  BY <1>5, <1>6, <1>7, <1>8
(* Every arm once in every round of every tier.                                  *)
LEMMA OncePerRound ==
  ASSUME SessionsAssumption, NEW p \in BOOLEAN, NEW tier \in Tiers, NEW r \in 1..Sessions,
         NEW arm \in Arms(p)
  PROVE  Cardinality({i \in Hits(Rounds(p), tier, r) : Rounds(p)[i].arm = arm}) = 1
<1>1. PICK b \in Nat :
           /\ Hits(Rounds(p), tier, r) = (b + 1)..(b + Width(p))
           /\ \A a \in 1..Width(p) : Rounds(p)[b + a].arm = ArmsOf(p, r, tier)[a]
  BY HitsAre
<1>2. PICK x \in 1..Width(p) : /\ ArmsOf(p, r, tier)[x] = arm
                               /\ \A a \in 1..Width(p) : ArmsOf(p, r, tier)[a] = arm => a = x
  <2>1. CASE ~p
    BY <2>1 DEF ArmsOf, Arms, Width
  <2>2. CASE p /\ ArmsOf(p, r, tier) = <<"rust", "bun">>
    <3>1. PICK s : s = ArmsOf(p, r, tier)
      OBVIOUS
    <3>2. s[1] = "rust" /\ s[2] = "bun" /\ Width(p) = 2 /\ arm \in {"rust", "bun"}
      BY <2>2, <3>1 DEF Arms, Width
    <3> QED
      BY <3>1, <3>2
  <2>3. CASE p /\ ArmsOf(p, r, tier) = <<"bun", "rust">>
    <3>1. PICK s : s = ArmsOf(p, r, tier)
      OBVIOUS
    <3>2. s[1] = "bun" /\ s[2] = "rust" /\ Width(p) = 2 /\ arm \in {"rust", "bun"}
      BY <2>3, <3>1 DEF Arms, Width
    <3> QED
      BY <3>1, <3>2
  <2> QED
    BY <2>1, <2>2, <2>3 DEF ArmsOf
<1>3. Width(p) \in {1, 2}
  BY DEF Width
<1>4. ASSUME NEW i \in Hits(Rounds(p), tier, r) PROVE Rounds(p)[i].arm = arm <=> i = b + x
  <2>1. PICK a : a = i - b
    OBVIOUS
  <2>2. a \in 1..Width(p) /\ i = b + a
    BY <1>1, <1>3, <2>1
  <2> QED
    BY <1>1, <1>2, <2>2
<1>5. b + x \in Hits(Rounds(p), tier, r)
  BY <1>1, <1>3
<1>6. {i \in Hits(Rounds(p), tier, r) : Rounds(p)[i].arm = arm} = {b + x}
  BY <1>4, <1>5
<1> QED
  BY <1>6, FS_Singleton

(* The arm that goes first: in odd rounds for one tier, in even ones for the other. *)
First(d, tier, arm) ==
  {r \in 1..Sessions : \E i \in Hits(d, tier, r) :
     d[i].arm = arm /\ \A j \in Hits(d, tier, r) : i <= j}

LEMMA FirstAre ==
  ASSUME SessionsAssumption, NEW tier \in Tiers
  PROVE  LET rust == First(Rounds(TRUE), tier, "rust")
             bun == First(Rounds(TRUE), tier, "bun")
         IN IF tier = "small" THEN rust = Odds(Sessions) /\ bun = Evens(Sessions)
                              ELSE rust = Evens(Sessions) /\ bun = Odds(Sessions)
<1>1. ASSUME NEW r \in 1..Sessions, NEW arm
      PROVE  r \in First(Rounds(TRUE), tier, arm) <=> ArmsOf(TRUE, r, tier)[1] = arm
  <2>1. PICK b \in Nat :
           /\ Hits(Rounds(TRUE), tier, r) = (b + 1)..(b + Width(TRUE))
           /\ \A a \in 1..Width(TRUE) : Rounds(TRUE)[b + a].arm = ArmsOf(TRUE, r, tier)[a]
    BY HitsAre
  <2>2. PICK H : H = Hits(Rounds(TRUE), tier, r)
    OBVIOUS
  <2>3. H = (b + 1)..(b + 2)
    <3>1. Width(TRUE) = 2
      BY DEF Width
    <3> QED
      BY <2>1, <2>2, <3>1, Zenon
  <2>4. Rounds(TRUE)[b + 1].arm = ArmsOf(TRUE, r, tier)[1]
    <3>1. 1 \in 1..Width(TRUE)
      BY DEF Width
    <3> QED
      BY <2>1, <3>1, Zenon
  <2>5. b + 1 \in H /\ \A i \in H : (\A j \in H : i <= j) <=> i = b + 1
    BY <2>3
  <2>6. r \in First(Rounds(TRUE), tier, arm) <=>
          \E i \in H : Rounds(TRUE)[i].arm = arm /\ \A j \in H : i <= j
    BY <2>2 DEF First
  <2> QED
    BY <2>4, <2>5, <2>6
<1>2. ASSUME NEW r \in 1..Sessions
      PROVE  ArmsOf(TRUE, r, tier)[1] =
               IF (r % 2 = 1) <=> (tier = "small") THEN "rust" ELSE "bun"
  <2>1. r \in Int
    OBVIOUS
  <2>2. CASE tier = "small"
    BY <2>1, <2>2 DEF ArmsOf
  <2>3. CASE tier # "small"
    BY <2>1, <2>3 DEF ArmsOf
  <2> QED
    BY <2>2, <2>3
<1>3. ASSUME NEW r \in 1..Sessions PROVE r % 2 = 0 <=> ~(r % 2 = 1)
  OBVIOUS
<1>4. \A arm : First(Rounds(TRUE), tier, arm) \subseteq 1..Sessions
  BY DEF First
<1>5. CASE tier = "small"
  <2>1. First(Rounds(TRUE), tier, "rust") = Odds(Sessions)
    BY <1>1, <1>2, <1>4, <1>5 DEF Odds
  <2>2. First(Rounds(TRUE), tier, "bun") = Evens(Sessions)
    <3>1. ASSUME NEW r \in 1..Sessions
          PROVE  r \in First(Rounds(TRUE), tier, "bun") <=> r \in Evens(Sessions)
      BY <1>1, <1>2, <1>3, <1>5 DEF Evens
    <3> QED
      BY <1>4, <3>1 DEF Evens
  <2> QED
    BY <1>5, <2>1, <2>2
<1>6. CASE tier # "small"
  <2>1. First(Rounds(TRUE), tier, "rust") = Evens(Sessions)
    BY <1>1, <1>2, <1>3, <1>4, <1>6 DEF Evens
  <2>2. First(Rounds(TRUE), tier, "bun") = Odds(Sessions)
    BY <1>1, <1>2, <1>4, <1>6 DEF Odds
  <2> QED
    BY <1>6, <2>1, <2>2
<1> QED
  BY <1>5, <1>6

LEMMA Balanced ==
  ASSUME SessionsAssumption, NEW tier \in Tiers
  PROVE  Cardinality(First(Rounds(TRUE), tier, "rust"))
           - Cardinality(First(Rounds(TRUE), tier, "bun"))
         \in (-(Sessions % 2))..(Sessions % 2)
<1>1. PICK o, e, z : /\ o = Cardinality(Odds(Sessions)) /\ e = Cardinality(Evens(Sessions))
                     /\ z = Sessions % 2
  OBVIOUS
<1>2. o \in Nat /\ e \in Nat /\ z \in {0, 1} /\ o = e + z
  BY <1>1, Halves DEF SessionsAssumption
<1>3. CASE tier = "small"
  <2>1. /\ Cardinality(First(Rounds(TRUE), tier, "rust")) = o
        /\ Cardinality(First(Rounds(TRUE), tier, "bun")) = e
    BY <1>1, <1>3, FirstAre
  <2>2. o - e \in (-z)..z
    BY <1>2
  <2> QED
    BY <1>1, <2>1, <2>2
<1>4. CASE tier # "small"
  <2>1. /\ Cardinality(First(Rounds(TRUE), tier, "rust")) = e
        /\ Cardinality(First(Rounds(TRUE), tier, "bun")) = o
    BY <1>1, <1>4, FirstAre
  <2>2. e - o \in (-z)..z
    BY <1>2
  <2> QED
    BY <1>1, <2>1, <2>2
<1> QED
  BY <1>3, <1>4
--------------------------------------------------------------------------------
LEMMA Complete == ASSUME SessionsAssumption, IInv PROVE ManifestIsComplete
<1> SUFFICES ASSUME "manifest" \in ToSet(written) PROVE ManifestIsComplete
  BY DEF ManifestIsComplete
<1>1. /\ written \in Seq(Tiers \cup {"manifest"}) /\ Len(written) \in Nat /\ Len(written) <= 3
      /\ \A i \in 1..Len(written) : written[i] = Files[i]
  BY DEF IInv, WrittenOK
<1>2. Len(written) = 3
  <2>1. PICK i \in 1..Len(written) : written[i] = "manifest"
    BY <1>1 DEF ToSet
  <2>2. Files[i] = "manifest" /\ i \in 1..3
    BY <1>1, <2>1
  <2>3. i = 3
    BY <2>2 DEF Files
  <2>4. PICK n : n = Len(written)
    OBVIOUS
  <2>5. n \in Nat /\ n <= 3 /\ 3 \in 1..n
    BY <1>1, <2>3, <2>4
  <2>6. n = 3
    BY <2>5
  <2> QED
    BY <2>4, <2>6
<1>3. Tiers \subseteq ToSet(written)
  <2>1. DOMAIN written = 1..3 /\ written[1] = "small" /\ written[2] = "representative"
    BY <1>1, <1>2 DEF Files
  <2> QED
    BY <2>1 DEF ToSet, Tiers
<1>4. PICK p \in BOOLEAN : p = main.paired
  BY DEF IInv, Mains
<1>5. main.docs = Rounds(p)
  <2>1. /\ main.docs \in Seq(Cases) /\ Len(main.docs) \in Nat /\ HeadLen \in Nat
        /\ Len(RoundSeq) \in Nat /\ Len(ThePlan) = HeadLen + Len(RoundSeq)
    BY Place
  <2>2. main.next = Len(ThePlan) + 1
    BY <1>2 DEF IInv, WrittenOK
  <2>3. /\ Len(main.docs) = IF main.next <= HeadLen THEN 0 ELSE main.next - 1 - HeadLen
        /\ \A i \in 1..Len(main.docs) : main.docs[i] = RoundSeq[i]
    BY DEF IInv, DocsOK
  <2>4. Len(main.docs) = Len(RoundSeq)
    BY <2>1, <2>2, <2>3
  <2>5. RoundSeq = Rounds(p)
    BY <1>4 DEF RoundSeq
  <2>6. Rounds(p) \in Seq(Cases)
    BY PlanIs
  <2> QED
    BY <2>1, <2>3, <2>4, <2>5, <2>6, SeqEqual
<1>6. ToSet(main.docs) \subseteq outs
  <2>1. main.docs \in Seq(Cases) /\ \A i \in 1..Len(main.docs) : main.docs[i] \in outs
    BY Place DEF IInv, FilesOK
  <2> QED
    BY <2>1 DEF ToSet
<1>7. \A tier, r : Scored(tier, r) = Hits(Rounds(p), tier, r)
  BY <1>5 DEF Scored, Hits
<1>8. \A tier, arm : FirstIn(tier, arm) = First(Rounds(p), tier, arm)
  BY <1>5, <1>7 DEF FirstIn, First
<1>9. \A tier \in Tiers, arm \in Arms(main.paired), r \in 1..Sessions :
         Cardinality({i \in Scored(tier, r) : main.docs[i].arm = arm}) = 1
  BY <1>4, <1>5, <1>7, OncePerRound
<1>10. ASSUME main.paired, NEW tier \in Tiers
       PROVE  Cardinality(FirstIn(tier, "rust")) - Cardinality(FirstIn(tier, "bun"))
                \in (-(Sessions % 2))..(Sessions % 2)
  <2>1. p = TRUE
    BY <1>4, <1>10
  <2> QED
    BY <1>8, <2>1, Balanced
<1> QED
  BY <1>3, <1>6, <1>9, <1>10 DEF ManifestIsComplete

(* A manifest rests on the whole corpus: for any number of sessions, either arm has *)
(* its document in every round of every tier, with its file, and the arms take     *)
(* turns in going first.                                                         *)
THEOREM ManifestComplete == Spec => []ManifestIsComplete
<1>1. IInv => ManifestIsComplete
  BY SessionsAssumption, Complete
<1> QED
  BY <1>1, InductiveInvariant, PTL
====
