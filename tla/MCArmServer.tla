---------------------------- MODULE MCArmServer ----------------------------
(* Small instances of ArmServer: two devices are the least for a broadcast *)
(* to be in the middle of, two runs the least for a stale key.             *)
EXTENDS ArmServer

OneRunEach == [d \in Devices |-> 1]
FirstRestarts == [d \in Devices |-> IF d = 1 THEN 2 ELSE 1]
=============================================================================
