---------------------------- MODULE RegistryMap ----------------------------
(***************************************************************************)
(* What the registry (util/alg_ds/ds/assoc_container/assoc_reg.h)          *)
(* promises: "it associates an ID with some data" and "replaces the        *)
(* std::map".  Ids are handed out in increasing order and never again.     *)
(***************************************************************************)
EXTENDS Naturals

CONSTANT Values     \* the data registered

VARIABLES
  map,      \* the registered ids and their data
  nextId    \* the id the next registration gets

mapVars == <<map, nextId>>

MapInit == map = << >> /\ nextId = 1

Keep(ids) == map' = [k \in DOMAIN map \cap ids |-> map[k]]

Register(v) ==
  /\ map' = [k \in DOMAIN map \cup {nextId} |-> IF k = nextId THEN v ELSE map[k]]
  /\ nextId' = nextId + 1

Store(k, v) == map' = [map EXCEPT ![k] = v] /\ UNCHANGED nextId

StoreAll(v) == map' = [k \in DOMAIN map |-> v] /\ UNCHANGED nextId

\* The ids from lo to hi are unregistered.
Erase(lo, hi) == Keep(DOMAIN map \ (lo..hi)) /\ UNCHANGED nextId

\* The ids whose value is in S are unregistered.
RemoveIf(S) == Keep({k \in DOMAIN map : map[k] \notin S}) /\ UNCHANGED nextId

MapNext ==
  \/ \E v \in Values : Register(v) \/ StoreAll(v)
  \/ \E k \in DOMAIN map, v \in Values : Store(k, v)
  \/ \E lo, hi \in DOMAIN map : Erase(lo, hi)
  \/ \E S \in SUBSET Values : RemoveIf(S)

MapSpec == MapInit /\ [][MapNext]_mapVars

===========================================================================
