------------------------------ MODULE KeyStore ------------------------------
(***************************************************************************)
(* What a keyspace promises its clients: a write replaces the version of   *)
(* one key by the next and is acknowledged, nothing else changes a key.    *)
(***************************************************************************)
EXTENDS Naturals

CONSTANT Keys

VARIABLES store,   \* the version of each key that a read returns
          acked    \* the last version of each key that was acknowledged

Init   == store \in [Keys -> Nat] /\ acked = store
Put(k) == /\ store' = [store EXCEPT ![k] = @ + 1]
          /\ acked' = [acked EXCEPT ![k] = @ + 1]
Next   == \E k \in Keys : Put(k)
Spec   == Init /\ [][Next]_<<store, acked>>
=============================================================================
