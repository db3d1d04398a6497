------------------------------ MODULE MCOpsRun ------------------------------
(* Two build modes on one dataset, and the first of them on the next one:     *)
(* container names do not say which dataset.                                  *)
EXTENDS OpsRun

MCUnits == <<[name |-> "post", phase |-> 1],
             [name |-> "incremental", phase |-> 1],
             [name |-> "post", phase |-> 2]>>
=============================================================================
