---------------------------- MODULE MCSubmitPath ----------------------------
(* Instances of SubmitPath for TLC. *)
EXTENDS SubmitPath, TLC
CONSTANTS t1, t2, t3, w1, w2
MCSize == [t \in Tasks |-> IF t = t1 THEN 2 ELSE 1]
MCLeftover == {[seq |-> 1, task |-> t2]}
=============================================================================
