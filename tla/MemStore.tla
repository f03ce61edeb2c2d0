------------------------------ MODULE MemStore ------------------------------
(***************************************************************************)
(* sync_info_mem_store.c and lnode.c: the hash table of dir_info records   *)
(* that fss_manager keeps, with separate chaining.                         *)
(*                                                                         *)
(* hash_code computes a djb2 hash and then returns the loop counter, so    *)
(* the bucket of a name is its LENGTH modulo the capacity.  add puts an    *)
(* entry in the bucket of its target_dir, find looks in the bucket of the  *)
(* source_dir it is given.                                                 *)
(*                                                                         *)
(* Buckets that no name hashes to stay NULL for ever and are left out.     *)
(***************************************************************************)
EXTENDS FssTypes, Integers, Sequences

CONSTANTS
  NameLen,   \* the length of each name
  Capacity   \* the capacity of the table: INITIAL_SIZE, 193 in the code

ASSUME NameLenAssumption == NameLen \in [Dir -> Nat]
ASSUME CapacityAssumption == Capacity \in Nat \ {0}

hash_code(d) == NameLen[d]
Bucket(d) == hash_code(d) % Capacity
Buckets == {Bucket(d) : d \in Dir}

(***************************************************************************)
(* dir_info.  status holds the number of the worker whose STATUS string    *)
(* was copied last, 0 before the first report; last_sync_time and          *)
(* active_error_count are printed by the status command only and left out. *)
(***************************************************************************)
DirInfo == [source : Dir, target : Dir, is_active : BOOLEAN,
            is_in_workers : BOOLEAN, status : Nat]

Store == [size : Nat, chain : [Buckets -> Seq(DirInfo)]]

sync_info_mem_store_create == [size |-> 0, chain |-> [b \in Buckets |-> <<>>]]

(* Mutant of lnode_add_next: the new node is not linked to the rest. *)
lnode_add_next_unlinked(chain, info) == <<Head(chain), info>>

(* A new node goes right after the head of its chain. *)
lnode_add_next(chain, info) == <<Head(chain), info>> \o Tail(chain)

sync_info_mem_store_add(mem, info) ==
  LET b == Bucket(info.target)
  IN [size  |-> mem.size + 1,
      chain |-> [mem.chain EXCEPT ![b] =
                   IF @ = <<>> THEN <<info>> ELSE lnode_add_next(@, info)]]

(***************************************************************************)
(* add ends in a rehash when size / capacity > 0.9.  The rehash picks the  *)
(* largest listed prime that is not above the capacity, allocates that     *)
(* many buckets without setting them to NULL, and re-adds every entry,     *)
(* which passes the same load factor again: it never returns to its        *)
(* caller.  An add that overloads the table is therefore a crash.          *)
(***************************************************************************)
Overloaded(mem) == 10 * mem.size > 9 * Capacity

(* lnode_find: the positions of the entries of a source in its own bucket. *)
Matches(mem, source) ==
  LET chain == mem.chain[Bucket(source)]
  IN {i \in DOMAIN chain : chain[i].source = source}

(* sync_info_mem_store_find(mem, source) does not return NULL. *)
IsFound(mem, source) == Matches(mem, source) # {}

Position(mem, source) ==
  CHOOSE i \in Matches(mem, source) : \A j \in Matches(mem, source) : i <= j

sync_info_mem_store_find(mem, source) ==
  mem.chain[Bucket(source)][Position(mem, source)]

(* A write through the dir_info pointer that find returned. *)
Overwrite(mem, source, info) ==
  [mem EXCEPT !.chain[Bucket(source)][Position(mem, source)] = info]

(* Every entry of the table. *)
Entries(mem) == UNION {{mem.chain[b][i] : i \in DOMAIN mem.chain[b]} : b \in Buckets}
=============================================================================
