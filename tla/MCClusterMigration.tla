------------------------ MODULE MCClusterMigration ------------------------
(* Two shards of a master and a replica; one fault of every kind. *)
EXTENDS ClusterMigration

None ==
    [crashes |-> 0, losses |-> 0, probes |-> 0, errors |-> 0, holds |-> 0, faults |-> 0]
OneFault ==
    {[None EXCEPT ![f] = 1] : f \in {"crashes", "losses", "probes", "errors", "holds"}}
=============================================================================
