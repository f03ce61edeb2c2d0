------------------------------ MODULE WatchMap ------------------------------
(***************************************************************************)
(* hash_table.c and list_node.c as fss_manager uses them: inotify_map,     *)
(* from a watch descriptor to the source directory it was created for.     *)
(* Nothing is ever removed from it.                                        *)
(*                                                                         *)
(* The table has 193 buckets and a descriptor falls in bucket              *)
(* (uint)key % 193.  Descriptors here stay below 107, the bucket of the    *)
(* key -1 that a failed inotify_add_watch leaves, so every node is alone   *)
(* in its bucket and buckets are scanned in descriptor order.              *)
(*                                                                         *)
(* list_node_create does not set next: a node is wild if what malloc       *)
(* returned leaves a non-NULL pointer there, and a scan that goes past it  *)
(* follows that pointer.                                                   *)
(***************************************************************************)
EXTENDS Integers

NoWatch == -1
MinusOneBucket == 107

BucketOf(wd) == IF wd = NoWatch THEN MinusOneBucket ELSE wd

EmptyMap == [wd \in {} |-> [source |-> {}, wild |-> FALSE]]

(* A key that is present is left as it is. *)
hash_table_insert(map, wd, source, wild) ==
  IF wd \in DOMAIN map THEN map
  ELSE [w \in DOMAIN map \cup {wd} |->
          IF w = wd THEN [source |-> source, wild |-> wild] ELSE map[w]]

(* The descriptors of a source: find_key returns the one in the first bucket. *)
KeysOf(map, source) == {wd \in DOMAIN map : map[wd].source = source}

hash_table_find_key(map, source) ==
  IF KeysOf(map, source) = {} THEN NoWatch
  ELSE CHOOSE wd \in KeysOf(map, source) :
         \A w \in KeysOf(map, source) : BucketOf(wd) <= BucketOf(w)

(* The scan for a source goes past a node whose next is wild. *)
ScanGoesWild(map, source) ==
  \E wd \in DOMAIN map :
    /\ map[wd].wild
    /\ map[wd].source # source
    /\ \A w \in KeysOf(map, source) : BucketOf(wd) < BucketOf(w)
=============================================================================
