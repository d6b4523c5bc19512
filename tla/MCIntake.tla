------------------------------ MODULE MCIntake ------------------------------
(***************************************************************************)
(* An instance of Intake for TLC: one job that comes as two deliveries and *)
(* as a file, and a delivery that is no job.                               *)
(***************************************************************************)
EXTENDS Intake

CONSTANTS m1, m2, m3, f1, j1

ContentDef == [x \in Msg \cup File |-> IF x = m3 THEN Malformed ELSE j1]

OwnId == [j \in Job |-> j]
=============================================================================
