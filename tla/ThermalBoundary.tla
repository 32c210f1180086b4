---------------------------- MODULE ThermalBoundary ----------------------------
(* The Linux thermal oracle (thermal.py): a session is judged by two snapshots,   *)
(* one at each boundary. A snapshot is a record with the fields counters (by CPU  *)
(* counter: how often it throttled), packages (by sensor: current and critical    *)
(* temperature), nvidia (a driver is loaded), gpus (by GPU: its slowdown flags)   *)
(* and errors (the sources that could not be read).                               *)
EXTENDS Integers

(* linux_thermal_snapshot: a source without readings is an error.                 *)
Snapshot(counters, packages, nvidia, gpus) ==
  [counters |-> counters, packages |-> packages, nvidia |-> nvidia, gpus |-> gpus,
   errors |-> {source \in {"counters", "packages", "nvidia"} :
                 \/ source = "counters" /\ DOMAIN counters = {}
                 \/ source = "packages" /\ DOMAIN packages = {}
                 \/ source = "nvidia" /\ nvidia /\ DOMAIN gpus = {}}]

Both(start, end) == {start, end}

CounterAdvanced(start, end) ==
  /\ DOMAIN start.counters = DOMAIN end.counters
  /\ \E c \in DOMAIN start.counters : end.counters[c] > start.counters[c]

AtCritical(s) == \E p \in DOMAIN s.packages : s.packages[p].current >= s.packages[p].critical

(* The flags are looked at only if the driver was there at the start.             *)
SlowedDown(start, end) ==
  start.nvidia /\ \E s \in Both(start, end) : \E g \in DOMAIN s.gpus :
                    s.gpus[g].sw \/ s.gpus[g].hw

Throttled(start, end) ==
  \/ CounterAdvanced(start, end)
  \/ \E s \in Both(start, end) : AtCritical(s)
  \/ SlowedDown(start, end)

(* What makes two snapshots incomparable.                                         *)
Structural_SameCountersAssumed(start, end) ==
  \/ start.errors \cup end.errors # {}
  \/ \E c \in DOMAIN start.counters \cap DOMAIN end.counters :
       end.counters[c] < start.counters[c]
Structural(start, end) ==
  \/ start.errors \cup end.errors # {}
  \/ DOMAIN start.counters # DOMAIN end.counters
  \/ \E c \in DOMAIN start.counters \cap DOMAIN end.counters :
       end.counters[c] < start.counters[c]
  \/ DOMAIN start.packages # DOMAIN end.packages
  \/ \E p \in DOMAIN start.packages \cap DOMAIN end.packages :
       start.packages[p].critical # end.packages[p].critical
  \/ start.nvidia # end.nvidia
  \/ start.nvidia /\ DOMAIN start.gpus # DOMAIN end.gpus

(* thermal_state_from_boundaries                                                  *)
ThermalState(start, end) ==
  IF Throttled(start, end) THEN "throttled"
  ELSE IF Structural(start, end) THEN "unverified" ELSE "nominal"

(* thermal_publication_reason                                                     *)
ThermalReason(state) ==
  CASE state = "nominal"    -> {}
    [] state = "throttled"  -> {"THERMAL_THROTTLED"}
    [] state = "unverified" -> {"THERMAL_STATE_UNVERIFIED"}
================================================================================
