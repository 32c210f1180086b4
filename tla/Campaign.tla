-------------------------------- MODULE Campaign -------------------------------
(* The two IPC campaigns of linux/keld/kipc-bun-echo: campaign.py (Bun alone) and *)
(* paired_campaign.py (Bun against the Rust floor). A campaign runs negative      *)
(* controls, priming launches, pilots and the scored rounds one case at a time,   *)
(* gives up at the first failure, and writes two results and then a manifest.     *)
(*                                                                                *)
(* A Rust case is a server process, which publishes its address in a link file,   *)
(* and a client process that reads it: the campaign waits for the link, for the   *)
(* client and for the server, each with a deadline of its own. A Bun case is one  *)
(* runner process. Any process may fail or hang at any point.                    *)
EXTENDS Integers, Sequences, FiniteSets, SequencesExt

CONSTANTS Sessions, None

ASSUME SessionsAssumption == Sessions \in Nat \ {0}

VARIABLES
  main,     \* the locals of main() and of the case it is in
  server,   \* the Rust server of the case
  client,   \* the Rust client or the Bun runner of the case
  linked,   \* the client has connected to the server's socket
  outs,     \* the raw files the cases wrote
  written   \* results and manifest in the output directory

procs == <<server, client, linked>>
vars == <<main, server, client, linked, outs, written>>

Tiers == {"small", "representative"}
TierOrder == <<"small", "representative">>
--------------------------------------------------------------------------------
(* What main() runs, case by case.                                               *)
Case(phase, tier, arm, round, fault) ==
  [phase |-> phase, tier |-> tier, arm |-> arm, round |-> round, fault |-> fault]
Flat(n, width, Part(_, _)) ==
  [k \in 1..n * width |-> Part(((k - 1) \div width) + 1, ((k - 1) % width) + 1)]
Arms(paired) == IF paired THEN {"rust", "bun"} ELSE {"bun"}
Width(paired) == IF paired THEN 2 ELSE 1

Controls(paired) ==
  (IF paired THEN <<Case("control", "small", "rust", 0, "bad-token")>> ELSE <<>>)
  \o <<Case("control", "small", "bun", 0, "bad-token"),
       Case("control", "small", "bun", 0, "wrong-response")>>

(* Priming and pilots: every arm once per tier.                                  *)
Once(phase, paired) ==
  LET Part(i, a) ==
        LET arms == IF ~paired THEN <<"bun">>
                    ELSE IF i = 1 THEN <<"rust", "bun">> ELSE <<"bun", "rust">>
        IN Case(phase, TierOrder[i], arms[a], 0, "none")
  IN Flat(2, Width(paired), Part)

TiersOf(paired, round) ==
  IF ~paired \/ round % 2 = 1 THEN TierOrder ELSE Reverse(TierOrder)
ArmsOf_ByPosition(paired, round, tier) ==
  LET offset == IF tier = TiersOf(paired, round)[1] THEN 0 ELSE 1 IN
  IF ~paired THEN <<"bun">>
  ELSE IF (round + offset) % 2 = 1 THEN <<"rust", "bun">> ELSE <<"bun", "rust">>
ArmsOf(paired, round, tier) ==
  LET offset == IF tier = "small" THEN 0 ELSE 1 IN
  IF ~paired THEN <<"bun">>
  ELSE IF (round + offset) % 2 = 1 THEN <<"rust", "bun">> ELSE <<"bun", "rust">>
Rounds(paired) ==
  LET Part(r, k) ==
        LET tier == TiersOf(paired, r)[((k - 1) \div Width(paired)) + 1]
        IN Case("round", tier, ArmsOf(paired, r, tier)[((k - 1) % Width(paired)) + 1], r, "none")
  IN Flat(Sessions, 2 * Width(paired), Part)

Plan(paired, warm) ==
  Controls(paired) \o (IF warm THEN Once("priming", paired) ELSE <<>>)
  \o Once("pilot", paired) \o Rounds(paired)
Plans == [paired \in BOOLEAN |-> [warm \in BOOLEAN |-> Plan(paired, warm)]]

Init ==
  /\ \E paired \in BOOLEAN, warm \in BOOLEAN :
       main = [pc |-> "checks", paired |-> paired, warm |-> warm, next |-> 1,
               raised |-> FALSE, docs |-> <<>>, exit |-> None]
  /\ server = None /\ client = None /\ linked = FALSE
  /\ outs = {} /\ written = <<>>

At(pc) == main.pc = pc
Goes(m) == main' = m
Then(pc) == Goes([main EXCEPT !.pc = pc])
(* Any OSError, ValueError, RuntimeError or SubprocessError ends main() with 2;    *)
(* inside a Rust case the finally clause runs first.                             *)
Fails == Goes([main EXCEPT !.pc = "exited", !.exit = 2])
Raises == Goes([main EXCEPT !.pc = "finally", !.raised = TRUE])
Current == Plans[main.paired][main.warm][main.next]
Rust == Current.arm = "rust"
Quiet == UNCHANGED <<procs, outs, written>>
--------------------------------------------------------------------------------
(* Processes. Server: starting, listening (the link file is there), serving, then *)
(* an outcome; "rejected" is a failure that left KELD-IPC-007 on stderr.          *)
Ended(p) == p \in {"ok", "failed", "rejected", "killed"}
Runs(p) == p # None /\ ~Ended(p)
Kill(p) == IF Runs(p) THEN "killed" ELSE p

ServerBinds == server = "starting" /\ server' \in {"listening", "failed"}
ServerAccepts == server = "listening" /\ linked /\ server' \in {"serving", "failed"}
ServerAcceptTimeout == server = "listening" /\ ~linked /\ server' = "failed"
(* A session ends well only once the client has closed its end; a forged token    *)
(* is answered by closing the session.                                           *)
ServerEnds ==
  /\ server = "serving"
  /\ \/ server' = "failed"
     \/ Current.fault = "bad-token" /\ server' = "rejected"
     \/ Current.fault = "none" /\ (client = "closed" \/ Ended(client)) /\ server' = "ok"
Server ==
  /\ ServerBinds \/ ServerAccepts \/ ServerAcceptTimeout \/ ServerEnds
  /\ UNCHANGED <<main, client, linked, outs, written>>

(* The client connects while the server listens; its calls need a serving server. *)
(* It writes its output after it has closed the session, and may fail half-way.   *)
ClientConnects ==
  /\ client = "running" /\ Rust /\ server = "listening" /\ ~linked
  /\ client' = "connected" /\ linked' = TRUE /\ UNCHANGED outs
ClientCloses ==
  /\ client = "connected" /\ Current.fault = "none" /\ server = "serving"
  /\ client' = "closed" /\ UNCHANGED <<linked, outs>>
ClientWrites ==
  /\ client = "closed" /\ client' = "ok" /\ outs' = outs \cup {Current} /\ UNCHANGED linked
ClientRefused ==
  /\ client = "connected" /\ Current.fault = "bad-token" /\ Ended(server)
  /\ client' = "ok" /\ UNCHANGED <<linked, outs>>
ClientFails ==
  /\ Runs(client) /\ client' = "failed" /\ UNCHANGED linked
  /\ outs' \in {outs, outs \cup {c \in {Current} : client = "closed"}}

(* A runner reports the marker of its mode ("rejected" is the marker of a fault    *)
(* and a failing exit code), with the raw file of a live session or without.      *)
RunnerEnds ==
  /\ client = "running" /\ ~Rust
  /\ client' \in {"ok", "rejected", "failed"}
  /\ outs' \in {outs, outs \cup {Current}} /\ UNCHANGED linked
Client ==
  /\ ClientConnects \/ ClientCloses \/ ClientWrites \/ ClientRefused \/ ClientFails
     \/ RunnerEnds
  /\ UNCHANGED <<main, server, written>>
--------------------------------------------------------------------------------
(* Output directory, clean tree, product hashes, builds. git and cargo run        *)
(* without a timeout, and cargo may wait for its build lock as long as it likes.  *)
Check ==
  /\ At("checks")
  /\ Then("plan") \/ Fails
  /\ Quiet

(* Popen, unless the raw file is already there (the Rust control removes it).     *)
StartCase ==
  /\ At("plan") /\ main.next <= Len(Plans[main.paired][main.warm])
  /\ \/ /\ Current \notin outs \/ (Rust /\ Current.phase = "control")
        /\ outs' = outs \ {c \in {Current} : Rust /\ Current.phase = "control"}
        /\ IF Rust THEN server' = "starting" /\ client' = None /\ Then("link")
                   ELSE server' = None /\ client' = "running" /\ Then("client")
        /\ linked' = FALSE /\ UNCHANGED written
     \/ Fails /\ Quiet

(* wait_for_file, which looks at the file only and not at the server: one that    *)
(* failed while it wrote the file has left it there.                             *)
AwaitLink ==
  /\ At("link")
  /\ \/ /\ server \in {"listening", "failed"}
        /\ \/ client' = "running" /\ Then("client")
           \/ client' = client /\ Raises
        /\ UNCHANGED <<server, linked>>
     \/ server # "listening" /\ Raises /\ UNCHANGED procs
  /\ UNCHANGED <<outs, written>>

(* subprocess.run: on its timeout it kills the process, waits for it and raises.  *)
AwaitClient ==
  /\ At("client")
  /\ \/ Ended(client) /\ Then(IF Rust THEN "server" ELSE "verify") /\ UNCHANGED client
     \/ Runs(client) /\ client' = "killed" /\ (IF Rust THEN Raises ELSE Fails)
  /\ UNCHANGED <<server, linked, outs, written>>

(* server.wait(15): a server that stays is killed, here or in the finally clause. *)
AwaitServer_Forever ==
  /\ At("server") /\ Ended(server) /\ Then("verify") /\ UNCHANGED server
  /\ UNCHANGED <<client, linked, outs, written>>
AwaitServer ==
  /\ At("server")
  /\ \/ Ended(server) /\ Then("verify") /\ UNCHANGED server
     \/ /\ Runs(server) /\ Raises
        /\ server' = IF Current.fault = "none" THEN "killed" ELSE server
  /\ UNCHANGED <<client, linked, outs, written>>

Sound ==
  IF Rust THEN IF Current.fault = "none"
               THEN client = "ok" /\ server = "ok" /\ Current \in outs
               ELSE client = "ok" /\ server = "rejected" /\ Current \notin outs
  ELSE IF Current.fault = "none" THEN client = "ok" /\ Current \in outs
                                 ELSE client = "rejected" /\ Current \notin outs
Verify ==
  /\ At("verify")
  /\ IF Rust THEN IF Sound THEN Then("finally") ELSE Raises
             ELSE IF Sound THEN Then("load") ELSE Fails
  /\ Quiet

Finally ==
  /\ At("finally")
  /\ server' = Kill(server)
  /\ outs' = outs \ {c \in {Current} : Current.phase = "control"}
  /\ IF main.raised THEN Fails ELSE Then("load")
  /\ UNCHANGED <<client, linked, written>>

(* load_rust, load_bun, load_raw: a document that is not what was asked for ends   *)
(* the campaign, and so does a pilot above its p99 limit. Only rounds are scored.  *)
Load ==
  /\ At("load")
  /\ \/ Goes([main EXCEPT !.pc = "plan", !.next = @ + 1,
                !.docs = IF Current.phase = "round" THEN Append(@, Current) ELSE @])
     \/ Current.phase # "control" /\ Fails
  /\ Quiet
--------------------------------------------------------------------------------
DocsOf(tier, arm) == SelectSeq(main.docs, LAMBDA d : d.tier = tier /\ d.arm = arm)

(* block_corpus: the blocks of an arm are exactly 1..n, once each.                *)
BlockCorpus(tier, arm) ==
  LET blocks == [i \in DOMAIN DocsOf(tier, arm) |-> DocsOf(tier, arm)[i].round]
  IN blocks # <<>> /\ ToSet(blocks) = 1..Len(blocks)

(* Thermal state and statistics; a paired bootstrap needs as many sessions of     *)
(* either arm and positive Rust values.                                          *)
Summarise ==
  /\ At("plan") /\ main.next > Len(Plans[main.paired][main.warm])
  /\ \/ /\ \A tier \in Tiers, arm \in Arms(main.paired) :
             Len(DocsOf(tier, arm)) = Len(DocsOf(tier, "bun"))
        /\ Then("receipt")
     \/ Fails
  /\ Quiet

(* environment_metadata: rustc, cargo and bun tell their versions, also without a *)
(* timeout.                                                                      *)
Receipt ==
  /\ At("receipt")
  /\ Then("results") \/ Fails
  /\ Quiet

(* write_v3_results: each tier's document is validated and then written.          *)
WriteResult ==
  /\ At("results") /\ Len(written) < 2
  /\ LET tier == TierOrder[Len(written) + 1] IN
     \/ /\ \A arm \in Arms(main.paired) : BlockCorpus(tier, arm)
        /\ written' = Append(written, tier) /\ UNCHANGED main
     \/ Fails /\ UNCHANGED written
  /\ UNCHANGED <<procs, outs>>

WriteManifest ==
  /\ At("results") /\ Len(written) = 2
  /\ \/ written' = Append(written, "manifest")
        /\ Goes([main EXCEPT !.pc = "exited", !.exit = 0])
     \/ Fails /\ UNCHANGED written
  /\ UNCHANGED <<procs, outs>>

(* The steps of main() whose waits have a deadline, and those that wait for tools *)
(* without one.                                                                  *)
Timed == StartCase \/ AwaitLink \/ AwaitClient \/ AwaitServer \/ Verify \/ Finally \/ Load
         \/ Summarise \/ WriteResult \/ WriteManifest
Untimed == Check \/ Receipt
Next == Timed \/ Untimed \/ Server \/ Client

(* A timed step is taken in the end. Nothing is assumed of the tools, and nothing *)
(* of the processes that the campaign starts.                                     *)
Spec == Init /\ [][Next]_vars /\ WF_vars(Timed)
--------------------------------------------------------------------------------
(* Whatever hangs or dies first, server, client or runner: a campaign that has     *)
(* passed its checks works off its cases or gives up, and then, waiting for the    *)
(* tools of its receipt or ended, has nothing running; with the receipt it ends.   *)
Over == At("receipt") \/ At("results") \/ At("exited")
CasesEnd ==
  /\ At("plan") ~> [](Over /\ ~Runs(server) /\ ~Runs(client))
  /\ At("results") ~> At("exited")

(* A manifest rests on a complete and balanced corpus: every arm of every tier has *)
(* its scored session in every round and the raw file of it, and in a paired       *)
(* campaign both arms of a tier go first equally often ("so each arm runs first    *)
(* equally often"), but for the last round of an odd number; both results are there. *)
Scored(tier, r) == {i \in DOMAIN main.docs : main.docs[i].tier = tier /\ main.docs[i].round = r}
FirstIn(tier, arm) ==
  {r \in 1..Sessions : \E i \in Scored(tier, r) :
     main.docs[i].arm = arm /\ \A j \in Scored(tier, r) : i <= j}
ManifestIsComplete ==
  "manifest" \in ToSet(written) =>
    /\ Tiers \subseteq ToSet(written) /\ ToSet(main.docs) \subseteq outs
    /\ \A tier \in Tiers, arm \in Arms(main.paired), r \in 1..Sessions :
         Cardinality({i \in Scored(tier, r) : main.docs[i].arm = arm}) = 1
    /\ main.paired => \A tier \in Tiers :
         Cardinality(FirstIn(tier, "rust")) - Cardinality(FirstIn(tier, "bun"))
           \in (-(Sessions % 2))..(Sessions % 2)
================================================================================
