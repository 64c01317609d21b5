---------------------------- MODULE MCSnapshotter ----------------------------
(* The snapshotter in two scenarios over the same variables: "faults", with *)
(* the constants of the cfg, has rollbacks and every failure; "ranges" has  *)
(* fewer of them on a chain long enough for the pruner to pass whole        *)
(* ranges.  The properties that do not depend on the constants hold of      *)
(* both as they stand.                                                      *)
EXTENDS Snapshotter

VARIABLE scenario

Ranges == INSTANCE Snapshotter WITH
  MaxHeight <- 7, MaxRolls <- 0, Faults <- {"write", "crash"}

ScenarioInit ==
  \/ scenario = "faults" /\ Init
  \/ scenario = "ranges" /\ Ranges!Init

ScenarioNext ==
  /\ UNCHANGED scenario
  /\ \/ scenario = "faults" /\ Next
     \/ scenario = "ranges" /\ Ranges!Next

ScenarioSpec == ScenarioInit /\ [][ScenarioNext]_<<vars, scenario>>
=============================================================================
