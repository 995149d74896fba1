------------------------------ MODULE MCIntake ------------------------------
(* Instances of Intake: two facts and limits of one, so that the second    *)
(* fact is deferred and admitted later.                                    *)
EXTENDS Intake
=============================================================================
