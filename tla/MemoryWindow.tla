----------------------------- MODULE MemoryWindow ------------------------------
(* MemoryStability of the Linux harness (harness.py): a memory sample is accepted *)
(* only from a window of consecutive snapshots with one membership and an RSS     *)
(* drift of at most MaxDrift percent. A snapshot is a record with the fields      *)
(* members (the processes counted), engines (how many are browser engines), main  *)
(* and total (resident memory of the main process and of the tree).               *)
EXTENDS Integers, Sequences, FiniteSetsExt

CONSTANTS Required,   \* snapshots in a window (the harness: 4)
          MaxDrift    \* in percent (the harness: 1)

ASSUME WindowAssumption == Required \in Nat /\ Required >= 2 /\ MaxDrift \in Nat

(* _drift(values) > maximum: the spread, relative to the smallest value.          *)
Drifts(values) == LET low == Min(values) IN
  100 * (Max(values) - low) > MaxDrift * Max({1, low})

Churned_Never(history, snapshot) == FALSE
Churned(history, snapshot) ==
  history # <<>> /\ snapshot.members # history[Len(history)].members

Unsteady(window) ==
  \/ Drifts({window[i].main : i \in DOMAIN window})
  \/ Drifts({window[i].total : i \in DOMAIN window})

(* observe(): the next history, and whether its window is accepted.               *)
Observe(history, snapshot) ==
  LET longer == Append(history, snapshot)
      window == SubSeq(longer, Max({1, Len(longer) - Required + 1}), Len(longer))
  IN CASE snapshot.engines = 0      -> [history |-> <<>>, accepted |-> FALSE]
       [] snapshot.engines # 0 /\ Churned(history, snapshot)
                                    -> [history |-> <<snapshot>>, accepted |-> FALSE]
       [] snapshot.engines # 0 /\ ~Churned(history, snapshot) ->
            IF Len(longer) < Required THEN [history |-> longer, accepted |-> FALSE]
            ELSE IF Unsteady(window)  THEN [history |-> <<snapshot>>, accepted |-> FALSE]
            ELSE [history |-> window, accepted |-> TRUE]
================================================================================
