-------------------------- MODULE SettingsContract --------------------------
(***************************************************************************)
(* What the settings runtime promises about one setting at one scope,      *)
(* without rows, locks or concurrent calls: its values form a log that     *)
(* only grows, and the applied version is the last one at the moment it is *)
(* applied, which for a hot setting is the moment it is saved.             *)
(***************************************************************************)
EXTENDS Naturals

CONSTANTS Values, Hot

VARIABLES version,   \* the length of the log
          log,       \* log[n]: the value saved as version n
          applied    \* the version last acknowledged as applied, 0 if none

vars == <<version, log, applied>>

Init ==
  /\ version = 0
  /\ log = [n \in {} |-> n]
  /\ applied = 0

Save(v) ==
  /\ version' = version + 1
  /\ log' = [n \in 1..(version + 1) |-> IF n <= version THEN log[n] ELSE v]
  /\ applied' = IF Hot THEN version + 1 ELSE applied

Apply ==
  /\ version > 0
  /\ applied' = version
  /\ UNCHANGED <<version, log>>

Next == Apply \/ \E v \in Values : Save(v)

Spec == Init /\ [][Next]_vars
=============================================================================
