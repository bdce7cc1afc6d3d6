----------------------------- MODULE CacheStore -----------------------------
(***************************************************************************)
(* The cashews cache behind transport/cashews.py, as far as sqlacache uses *)
(* it: a store is a set of entries with a field "key" and a field "tags".  *)
(* At most one entry has a given key.  Each operator is the effect of one  *)
(* awaited transport call, which is atomic here: one backend command (or   *)
(* one pipeline) of an event loop or of a Redis server.                    *)
(***************************************************************************)

(* get: the entries with key k, none or one.                               *)
Lookup(store, k) == {e \in store : e.key = k}

(* set: an entry replaces the entry of the same key.                       *)
Put(store, e) == (store \ Lookup(store, e.key)) \cup {e}

(* delete_tags: every entry that carries one of the tags goes.             *)
DeleteTags(store, tags) == {e \in store : e.tags \cap tags = {}}

=============================================================================
