---- MODULE Hash ----
(***************************************************************************)
(* The hash table of hash.c, as libgenders keeps the attributes of a file  *)
(* and of a line in it: with copies of their names, which the table is to  *)
(* free, and with _genders_rehash(), which moves them to a larger table    *)
(* when they have become many.  The size the caller keeps beside the table *)
(* decides when.                                                           *)
(*                                                                         *)
(* The nodes of a slot are a set: no caller depends on their order.  Every *)
(* allocation may fail.                                                    *)
(***************************************************************************)
EXTENDS Integers, FiniteSets

CONSTANTS
  Key,        \* attribute names
  HashKey,    \* hash_key_string(): what a name is hashed to
  InitSize,   \* GENDERS_ATTR_INDEX_INIT_SIZE
  MaxSize     \* bound of the model: no table is made larger

ASSUME HashAssumption ==
  /\ HashKey \in [Key -> Nat]
  /\ IsFiniteSet(Key)
  /\ InitSize \in Nat \ {0} /\ MaxSize \in Nat

VARIABLES
  hash,      \* struct hash: size, count, table, frees (del_f is given)
  size,      \* attrs_size or attrval_index_size
  names,     \* the copies of attribute names that are allocated
  known,     \* the names that were entered since the table was empty
  lost,      \* those of them that a rehash had no memory for
  rehashed,  \* whether a rehash has taken place
  result     \* what the last call returned

hashVars == <<hash, size, names, known, lost, rehashed, result>>

Slot(key, n) == HashKey[key] % n
Nodes(h) == UNION {h.table[s] : s \in 0 .. h.size - 1}

\* hash_find() looks in one slot only.
Found(h, key) == key \in h.table[Slot(key, h.size)]

\* A table of n slots with the given nodes where they belong.
Filled(n, keys, frees) ==
  [size  |-> n,
   count |-> Cardinality(keys),
   table |-> [s \in 0 .. n - 1 |-> {key \in keys : Slot(key, n) = s}],
   frees |-> frees]

\* hash_create()
NewHash == Filled(InitSize, {}, TRUE)

\* hash_insert(), of a key that is not found.
Inserted(h, key) ==
  [size  |-> h.size,
   count |-> h.count + 1,
   table |-> [h.table EXCEPT ![Slot(key, h.size)] = @ \cup {key}],
   frees |-> h.frees]

\* hash_remove(), hash_remove_if(), hash_delete_if(), of keys that are there.
Removed(h, keys) ==
  [size  |-> h.size,
   count |-> h.count - Cardinality(keys),
   table |-> [s \in 0 .. h.size - 1 |-> h.table[s] \ keys],
   frees |-> h.frees]

\* A slip: entries keep the slots they had.
RehashedInPlace(h, n, dropped) ==
  [size  |-> n,
   count |-> Cardinality(Nodes(h) \ dropped),
   table |-> [s \in 0 .. n - 1 |->
                IF s < h.size THEN h.table[s] \ dropped ELSE {}],
   frees |-> FALSE]

\* _genders_rehash(): the entries that memory suffices for are inserted into
\* the new table, which frees nothing; the others go unnoticed, since a NULL
\* of hash_insert() is not less than 0.
Rehashed(h, n, dropped) == Filled(n, Nodes(h) \ dropped, FALSE)

-----------------------------------------------------------------------------
HashInit ==
  /\ hash = NewHash
  /\ size = InitSize
  /\ names = {}
  /\ known = {}
  /\ lost = {}
  /\ rehashed = FALSE
  /\ result = 0

\* When the attributes have become too many for the size.
Crowded == hash.count > size * 2

\* The call changes nothing, but for the size.
Returns(r) ==
  result' = r /\ UNCHANGED <<hash, names, known, lost, rehashed>>

\* No memory for the copy of the name.
CopyFails == Returns(-1) /\ UNCHANGED size

\* No memory for the new table: the size has been doubled already.
RehashFails ==
  Crowded /\ size * 2 =< MaxSize /\ size' = size * 2 /\ Returns(-1)

\* hash_insert() into h: there is no memory for a node, or the copy is in the
\* table, or the name is there already.  When it fails the copy is freed.
Enter(h, key) ==
  IF Found(h, key)
  THEN result' = 2 /\ hash' = h /\ UNCHANGED <<names, known>>
  ELSE \/ result' = -1 /\ hash' = h /\ UNCHANGED <<names, known>>
       \/ /\ result' = 1
          /\ hash' = Inserted(h, key)
          /\ names' = names \cup {key}
          /\ known' = known \cup {key}

\* The table grows first, if it must.
InsertGrown(key) ==
  IF Crowded
  THEN /\ size * 2 =< MaxSize
       /\ size' = size * 2
       /\ rehashed' = TRUE
       /\ \E dropped \in SUBSET Nodes(hash) :
            /\ Enter(Rehashed(hash, size * 2, dropped), key)
            /\ lost' = (lost \cup dropped) \ Nodes(hash')
  ELSE /\ Enter(hash, key)
       /\ lost' = lost \ Nodes(hash')
       /\ UNCHANGED <<size, rehashed>>

\* _insert_attr() into the attributes of a file: what is known is skipped.
InsertAttr == \E key \in Key :
  IF Found(hash, key) THEN Returns(0) /\ UNCHANGED size
  ELSE CopyFails \/ RehashFails \/ InsertGrown(key)

\* _insert_attrval() into the attributes of a line: that is an error there.
InsertAttrval == \E key \in Key : CopyFails \/ RehashFails \/ InsertGrown(key)

\* A load that fails empties the table with hash_delete_if().
Clear ==
  /\ hash' = Removed(hash, Nodes(hash))
  /\ names' = IF hash.frees THEN names \ Nodes(hash) ELSE names
  /\ known' = {} /\ lost' = {}
  /\ result' = Cardinality(Nodes(hash))
  /\ UNCHANGED <<size, rehashed>>

\* hash_destroy(), and hash_create() for the next line.
RenewHash ==
  /\ hash' = NewHash
  /\ size' = InitSize
  /\ names' = IF hash.frees THEN names \ Nodes(hash) ELSE names
  /\ known' = {} /\ lost' = {}
  /\ result' = 0
  /\ UNCHANGED rehashed

\* hash_remove() hands the entry to its caller, who is to free it.
RemoveKey == \E key \in Key :
  /\ IF Found(hash, key)
     THEN /\ hash' = Removed(hash, {key})
          /\ names' = names \ {key}
          /\ result' = 1
     ELSE result' = 0 /\ UNCHANGED <<hash, names>>
  /\ known' = known \ {key} /\ lost' = lost \ {key}
  /\ UNCHANGED <<size, rehashed>>

\* hash_for_each() counts the entries its function says yes to.
ForEachEntry == \E keys \in SUBSET Nodes(hash) :
  Returns(Cardinality(keys)) /\ UNCHANGED size

HashNext ==
  \/ InsertAttr \/ InsertAttrval
  \/ Clear \/ RenewHash \/ RemoveKey \/ ForEachEntry

HashSpec == HashInit /\ [][HashNext]_hashVars

-----------------------------------------------------------------------------
(* What must hold.                                                         *)

\* Every entry is in the slot its name is looked for in, and hash_count(), by
\* which a table is found to be crowded and queries size their answers,
\* counts them all.
EntriesInPlace ==
  /\ hash.size =< size
  /\ \A s \in 0 .. hash.size - 1 : \A key \in hash.table[s] :
       Slot(key, hash.size) = s
  /\ hash.count = Cardinality(Nodes(hash))

\* An attribute that was entered is found, and one that was not is not,
\* through all rehashes for which there is memory: otherwise a line could list
\* an attribute twice.  (The comment of _hash_reinsert(), "return -1 will
\* result in GENDERS_ERR_INTERNAL in caller", would have it without memory
\* too: it never returns -1.)
AttrsAreFound ==
  \A key \in Key : Found(hash, key) <=> key \in known \ lost

\* No name in a table has been freed; and until a table is rehashed, which
\* loses its del_f, none is allocated that is not in a table.
NamesAreOwned ==
  /\ Nodes(hash) \subseteq names
  /\ ~ rehashed => names = Nodes(hash)

HashHolds == EntriesInPlace /\ AttrsAreFound /\ NamesAreOwned

====
