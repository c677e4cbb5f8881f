------------------------------ MODULE LruCache ------------------------------
(***************************************************************************)
(* The map with an order of use, storage/buffer/lru_cache.h.  items_ is    *)
(* the list of the pairs of key and value, most recently used first;       *)
(* lookup_ only finds the place of a key in it, so it is not kept apart.   *)
(***************************************************************************)
EXTENDS Naturals, Sequences, SequencesExt

PlaceOf(items, key) == {i \in 1 .. Len(items) : items[i].key = key}

Found(items, key) == PlaceOf(items, key) # {}
Lookup(items, key) == CHOOSE i \in PlaceOf(items, key) : TRUE
ValueOf(items, key) == items[Lookup(items, key)].value

(* remove(): a key that is not there is ignored.                           *)
LruRemove(items, key) ==
    IF Found(items, key) THEN RemoveAt(items, Lookup(items, key)) ELSE items

(* put(): a key that is there gets the new value.                          *)
LruPut(items, key, value) == <<[key |-> key, value |-> value]>> \o LruRemove(items, key)

(* get(): the order of the list after it.                                  *)
LruGet(items, key) ==
    IF Found(items, key) THEN LruPut(items, key, ValueOf(items, key)) ELSE items
=============================================================================
