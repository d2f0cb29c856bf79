------------------------------ MODULE Storage -------------------------------
(***************************************************************************)
(* Soroban persistent storage, as the contracts use it: a map from keys to *)
(* entries in which a key may be absent.  External to the repository; the  *)
(* TTL of an entry is extended on every write and read nowhere, and an     *)
(* expired entry can be restored, so that no entry is ever lost.           *)
(***************************************************************************)

Has(map, key) == key \in DOMAIN map
Put(map, key, value) ==
  [k \in DOMAIN map \cup {key} |-> IF k = key THEN value ELSE map[k]]
Erase(map, key) == [k \in DOMAIN map \ {key} |-> map[k]]
Empty == [k \in {} |-> 0]
=============================================================================
