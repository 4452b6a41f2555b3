-------------------------------- MODULE Maps --------------------------------
(***************************************************************************)
(* The two operations of std::unordered_map that the servers use, on a map *)
(* represented by a function whose domain is the set of stored keys.       *)
(***************************************************************************)
EXTENDS Functions

(* emplace(k, v): an entry that is already there is kept as it is. *)
Emplace(map, k, v) ==
  [x \in DOMAIN map \cup {k} |-> IF x \in DOMAIN map THEN map[x] ELSE v]

(* map[k] = v: an entry that is already there is replaced. *)
Assign(map, k, v) ==
  [x \in DOMAIN map \cup {k} |-> IF x = k THEN v ELSE map[x]]

(* erase(k): nothing happens when k is not there. *)
Erase(map, k) == Restrict(map, DOMAIN map \ {k})

EmptyMap == [x \in {} |-> x]

=============================================================================
