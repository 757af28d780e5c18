---------------------------- MODULE RegistryIds -----------------------------
(***************************************************************************)
(* The ids of native objects.  A registry is a std::map<jint, T>; the id   *)
(* of a new object is the least positive integer that is not a key of the  *)
(* map, so the id of an erased object is soon handed out again.  The other *)
(* modules say that with IsMissingKey; module MissingKey shows that the    *)
(* loop of findMissingKey computes it.                                     *)
(***************************************************************************)
EXTENDS Integers

CONSTANT MaxId      \* bound: a registry never holds an id above MaxId

ASSUME MaxIdAssumption == MaxId \in Nat \ {0}

Ids == 1 .. MaxId

IsMissingKey(keys, id) == id \notin keys /\ \A j \in 1 .. id - 1 : j \in keys
=============================================================================
