-------------------------------- MODULE Dict --------------------------------
(***************************************************************************)
(* What a clox hash table promises its callers: a map from interned        *)
(* strings to values, each call answered from it at one moment.            *)
(* Table.tla (clox/table.c) implements it.                                 *)
(***************************************************************************)
CONSTANTS Key, Value, NULL

VARIABLES
  dict,    \* the map, a function on the keys it holds
  reply    \* the last call and its answer

vars == <<dict, reply>>

Holding == DOMAIN dict

\* dict without the keys of K
Less(K) == [k \in Holding \ K |-> dict[k]]

Answer(op, k, result) == reply' = [op |-> op, key |-> k, result |-> result]

Init == dict = [k \in {} |-> NULL] /\ reply = [op |-> "none", key |-> NULL, result |-> <<>>]

Set(k, v) == /\ dict' = [x \in Holding \cup {k} |-> IF x = k THEN v ELSE dict[x]]
             /\ Answer("set", k, <<k \notin Holding>>)

Get(k) == /\ Answer("get", k, IF k \in Holding THEN <<TRUE, dict[k]>> ELSE <<FALSE>>)
          /\ UNCHANGED dict

Delete(k) == /\ dict' = Less({k})
             /\ Answer("delete", k, <<k \in Holding>>)

Find(k) == /\ Answer("find", k, <<IF k \in Holding THEN k ELSE NULL>>)
           /\ UNCHANGED dict

\* The collector drops the unmarked keys; at most one of them may survive it.
RemoveWhite(W) == \E K \in SUBSET (W \cap Holding) :
  /\ \A x, y \in (W \cap Holding) \ K : x = y
  /\ dict' = Less(K)
  /\ UNCHANGED reply

Next == \/ \E k \in Key, v \in Value : Set(k, v)
        \/ \E k \in Key : Get(k) \/ Delete(k) \/ Find(k)
        \/ \E W \in SUBSET Key : RemoveWhite(W)

Spec == Init /\ [][Next]_vars
=============================================================================
