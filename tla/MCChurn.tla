------------------------------- MODULE MCChurn ------------------------------
(* Three rows: the first fraction churns one, the second the other two.       *)
EXTENDS Churn

MCCumulative == <<2, 1, 3>>
=============================================================================
