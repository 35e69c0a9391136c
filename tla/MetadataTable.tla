-------------------------- MODULE MetadataTable --------------------------
(***************************************************************************)
(* The bounds of pointers that are in memory: __ds_table of datashield.c,  *)
(* with the calls that the pass inserts around stores, loads and copies.   *)
(*                                                                         *)
(* Every word of the safe heap, and every word of a sensitive global, has  *)
(* an entry of its own in the table, found by hashing its address.  A      *)
(* store of a pointer also stores the bounds; a memcpy is followed by a    *)
(* copy of the entries.  Nothing else touches the table: not the           *)
(* allocator, not realloc, not memmove.                                    *)
(*                                                                         *)
(* Addresses are bytes.  The program is left open: it may use any memory   *)
(* it has allocated, and no other.                                         *)
(***************************************************************************)
EXTENDS Integers, FiniteSets

CONSTANTS
  BOUNDARY,         \* last byte of the unsafe region, 2^32 - 1
  GLOBAL_RESERVE,   \* entries kept for globals
  N_TABLE_ENTRIES,
  Table,            \* __ds_table
  Heap,             \* safe_heap
  NGlobals,         \* words of sensitive globals: they follow BOUNDARY
  NHeap,            \* words of the heap
  Sizes,            \* words of a block
  MaxWords,         \* bound: words copied at once
  Null, Data,       \* the null pointer; anything that is no pointer
  Empty             \* __ds_empty_bounds

EntrySize == 16

TableEnd == Table + EntrySize * N_TABLE_ENTRIES

\* The linker script puts the sensitive globals right above BOUNDARY.  If they
\* leave the address __ds_init asks for free, the heap follows them and the
\* table, too large for the mspace, is mapped far above; if not, the kernel
\* chooses, and maps the table below the heap.
ASSUME LayoutAssumption ==
  /\ {BOUNDARY, GLOBAL_RESERVE, N_TABLE_ENTRIES, Table, Heap, NGlobals, NHeap, MaxWords}
       \subseteq Nat
  /\ Sizes \subseteq Nat \ {0}
  /\ BOUNDARY % 8 = 7 /\ Table % 8 = 0 /\ Heap % 8 = 0
  /\ BOUNDARY + 8 * NGlobals < Table
  /\ \/ TableEnd <= Heap
     \/ BOUNDARY + 8 * NGlobals < Heap /\ Heap + 8 * NHeap <= Table

GlobalWord == {BOUNDARY + 1 + 8 * k : k \in 0..(NGlobals - 1)}
HeapWord   == {Heap + 8 * k : k \in 0..(NHeap - 1)}
Word       == GlobalWord \cup HeapWord

WordsOf(b) == {b.base + 8 * k : k \in 0..(b.words - 1)}

\* An allocated block, also as the pointer to it and as the bounds of that.
Block == {b \in [base : HeapWord, words : Sizes] : WordsOf(b) \subseteq HeapWord}

Pointer == Block \cup {Null}
Bounds  == Block \cup {Empty}

ASSUME ValueAssumption ==
  {Null, Data, Empty} \cap Block = {} /\ Null # Data

BoundsOf(p) == IF p = Null THEN Empty ELSE p

\* Wrong: divided by the size of an entry, where the size of a word is meant.
Hash_EntrySize(ptr) ==
  IF ptr < Table THEN (ptr - BOUNDARY) \div 8
  ELSE (ptr - TableEnd) \div EntrySize + GLOBAL_RESERVE

\* Wrong: counted from the start of the table.
Hash_TableStart(ptr) ==
  IF ptr < Table THEN (ptr - BOUNDARY) \div 8
  ELSE (ptr - Table) \div 8 + GLOBAL_RESERVE

Hash(ptr) ==
  IF ptr < Table THEN (ptr - BOUNDARY) \div 8
  ELSE (ptr - TableEnd) \div 8 + GLOBAL_RESERVE

VARIABLES
  blocks,   \* the blocks allocated
  mem,      \* what each word holds
  table,    \* the bounds in each entry
  strays,   \* history: words whose entry nothing has written for what they hold
  copy      \* the call of __ds_metadata_copy under way

vars == <<blocks, mem, table, strays, copy>>

Idle == [dst |-> 0, src |-> 0, words |-> 0, i |-> 0]

Copy == [dst : Nat, src : Nat, words : Nat, i : Nat]

Running == copy = Idle

Usable == GlobalWord \cup UNION {WordsOf(b) : b \in blocks}

Range(w, n) == {w + 8 * k : k \in 0..(n - 1)}

----------------------------------------------------------------------------

\* The table is fresh memory of the kernel.
Init ==
  /\ blocks = {}
  /\ mem = [w \in Word |-> Data]
  /\ table = [e \in {Hash(w) : w \in Word} |-> Empty]
  /\ strays = {}
  /\ copy = Idle

\* mspace_malloc and mspace_calloc return memory of no other block.
Fresh(b, others) == \A c \in others : WordsOf(b) \cap WordsOf(c) = {}

\* __ds_safe_malloc: what is in the memory is no pointer of the program's.
Malloc ==
  /\ Running
  /\ \E b \in Block :
       /\ Fresh(b, blocks)
       /\ blocks' = blocks \cup {b}
       /\ mem' = [w \in Word |-> IF w \in WordsOf(b) THEN Data ELSE mem[w]]
       /\ strays' = strays \ WordsOf(b)
  /\ UNCHANGED <<table, copy>>

\* __ds_safe_calloc: null pointers whose entries are whatever they were.
Calloc ==
  /\ Running
  /\ \E b \in Block :
       /\ Fresh(b, blocks)
       /\ blocks' = blocks \cup {b}
       /\ mem' = [w \in Word |-> IF w \in WordsOf(b) THEN Null ELSE mem[w]]
       /\ strays' = strays \cup WordsOf(b)
  /\ UNCHANGED <<table, copy>>

\* __ds_safe_free: the entries stay.
Free ==
  /\ Running
  /\ \E b \in blocks :
       /\ blocks' = blocks \ {b}
       /\ mem' = [w \in Word |-> IF w \in WordsOf(b) THEN Data ELSE mem[w]]
       /\ strays' = strays \ WordsOf(b)
  /\ UNCHANGED <<table, copy>>

\* __ds_safe_realloc in place.
Resize ==
  /\ Running
  /\ \E b \in blocks : \E c \in Block :
       /\ c.base = b.base
       /\ Fresh(c, blocks \ {b})
       /\ blocks' = (blocks \ {b}) \cup {c}
       /\ mem' = [w \in Word |->
                    IF w \in WordsOf(b) \cap WordsOf(c) \/ w \notin WordsOf(b) \cup WordsOf(c)
                    THEN mem[w] ELSE Data]
       /\ strays' = strays \cap {w \in Word : mem'[w] # Data}
  /\ UNCHANGED <<table, copy>>

\* __ds_safe_realloc to another place: mspace_realloc copies the words, nobody
\* copies the entries.
Move ==
  /\ Running
  /\ \E b \in blocks : \E c \in Block :
       /\ Fresh(c, blocks)
       /\ blocks' = (blocks \ {b}) \cup {c}
       /\ mem' = [w \in Word |->
                    IF w \in WordsOf(c) /\ w - c.base < 8 * b.words THEN mem[b.base + (w - c.base)]
                    ELSE IF w \in WordsOf(b) \cup WordsOf(c) THEN Data
                    ELSE mem[w]]
       /\ strays' = (strays \cup WordsOf(c)) \cap {w \in Word : mem'[w] # Data}
  /\ UNCHANGED <<table, copy>>

----------------------------------------------------------------------------

\* A store of a pointer the function has the bounds of: to a new object, or
\* null.  insertBoundsStores puts __ds_set_bounds in front of it.
Store ==
  /\ Running
  /\ \E w \in Usable : \E p \in blocks \cup {Null} :
       /\ mem' = [mem EXCEPT ![w] = p]
       /\ table' = [table EXCEPT ![Hash(w)] = BoundsOf(p)]
       /\ strays' = strays \ {w}
  /\ UNCHANGED <<blocks, copy>>

\* A store of a pointer just loaded: its bounds are those __ds_get_bounds gave.
StoreLoaded ==
  /\ Running
  /\ \E w, v \in Usable :
       /\ mem[v] \in Pointer
       /\ mem' = [mem EXCEPT ![w] = mem[v]]
       /\ table' = [table EXCEPT ![Hash(w)] = table[Hash(v)]]
       /\ strays' = IF v \in strays THEN strays \cup {w} ELSE strays \ {w}
  /\ UNCHANGED <<blocks, copy>>

\* A store of anything else.  What a memset leaves is counted here, although words
\* of zeros are null pointers over old entries, as after a calloc.
StoreData ==
  /\ Running
  /\ \E w \in Usable :
       /\ mem' = [mem EXCEPT ![w] = Data]
       /\ strays' = strays \ {w}
  /\ UNCHANGED <<blocks, table, copy>>

Moved(dst, src, n) ==
  [w \in Word |-> IF w \in Range(dst, n) THEN mem[src + (w - dst)] ELSE mem[w]]

\* memmove: no call of __ds_metadata_copy is inserted after it.
Memmove ==
  /\ Running
  /\ \E dst, src \in Usable : \E n \in 1..MaxWords :
       /\ Range(dst, n) \cup Range(src, n) \subseteq Usable
       /\ mem' = Moved(dst, src, n)
       /\ strays' = (strays \cup Range(dst, n)) \cap {w \in Word : mem'[w] # Data}
  /\ UNCHANGED <<blocks, table, copy>>

\* llvm.memcpy: its blocks are the same or do not overlap.
Memcpy ==
  /\ Running
  /\ \E dst, src \in Usable : \E n \in 1..MaxWords :
       /\ Range(dst, n) \cup Range(src, n) \subseteq Usable
       /\ dst = src \/ Range(dst, n) \cap Range(src, n) = {}
       /\ mem' = Moved(dst, src, n)
       /\ strays' = strays \cup (Range(dst, n) \ Range(src, n))
       /\ copy' = [dst |-> dst, src |-> src, words |-> n, i |-> 0]
  /\ UNCHANGED <<blocks, table>>

\* Wrong: i <= n_ptrs.
CopyEntry_OneMore ==
  LET d == copy.dst + 8 * copy.i
      s == copy.src + 8 * copy.i
  IN
  /\ ~ Running
  /\ copy.i <= copy.words
  /\ {d, s} \subseteq Word
  /\ table' = [table EXCEPT ![Hash(d)] = table[Hash(s)]]
  /\ strays' = IF s \in strays /\ mem[d] # Data THEN strays ELSE strays \ {d}
  /\ copy' = [copy EXCEPT !.i = @ + 1]
  /\ UNCHANGED <<blocks, mem>>

\* Wrong: source and destination exchanged.
CopyEntry_Swapped ==
  LET d == copy.dst + 8 * copy.i
      s == copy.src + 8 * copy.i
  IN
  /\ ~ Running
  /\ copy.i < copy.words
  /\ table' = [table EXCEPT ![Hash(s)] = table[Hash(d)]]
  /\ strays' = IF s \in strays /\ mem[d] # Data THEN strays ELSE strays \ {d}
  /\ copy' = [copy EXCEPT !.i = @ + 1]
  /\ UNCHANGED <<blocks, mem>>

\* One turn of the loop of __ds_metadata_copy, where its assertions do not stop
\* the program: they are CopyAssertions.
CopyEntry ==
  LET d == copy.dst + 8 * copy.i
      s == copy.src + 8 * copy.i
  IN
  /\ ~ Running
  /\ copy.i < copy.words
  /\ table' = [table EXCEPT ![Hash(d)] = table[Hash(s)]]
  /\ strays' = IF s \in strays /\ mem[d] # Data THEN strays ELSE strays \ {d}
  /\ copy' = [copy EXCEPT !.i = @ + 1]
  /\ UNCHANGED <<blocks, mem>>

CopyDone ==
  /\ ~ Running
  /\ copy.i >= copy.words
  /\ copy' = Idle
  /\ UNCHANGED <<blocks, mem, table, strays>>

Next ==
  \/ Malloc
  \/ Calloc
  \/ Free
  \/ Resize
  \/ Move
  \/ Store
  \/ StoreLoaded
  \/ StoreData
  \/ Memmove
  \/ Memcpy
  \/ CopyEntry
  \/ CopyDone

Spec == Init /\ [][Next]_vars

----------------------------------------------------------------------------
(* Properties *)

\* What the sizes in datashield.c are meant to give: the globals fit into
\* their entries, and the heap, as far as it is used, into the rest.
Fits ==
  /\ NGlobals <= GLOBAL_RESERVE
  /\ GLOBAL_RESERVE <= N_TABLE_ENTRIES
  /\ Hash(Heap) + NHeap <= N_TABLE_ENTRIES

\* Type correctness.
TypeOK ==
  /\ blocks \in SUBSET Block
  /\ mem \in [Word -> Pointer \cup {Data}]
  /\ table \in [{Hash(w) : w \in Word} -> Bounds]
  /\ strays \in SUBSET Word
  /\ copy \in Copy
  /\ copy.i <= copy.words
  /\ Range(copy.dst, copy.words) \cup Range(copy.src, copy.words) \subseteq Word

\* A load of a pointer gets the bounds of that very pointer, whatever was
\* allocated, freed, stored and copied in between, in this word or in others;
\* except where the pointer came by realloc, memmove or calloc, or was copied
\* from such a word.
PointersKeepBounds ==
  \A w \in Word \ strays : mem[w] \in Pointer => table[Hash(w)] = BoundsOf(mem[w])

\* The assertion of __ds_hash, "hash < N_TABLE_ENTRIES": no word the program may
\* store to has an entry outside the table.
EntriesInTable == \A w \in Usable : Hash(w) \in 0..(N_TABLE_ENTRIES - 1)

\* The assertions of __ds_metadata_copy, "dst_hash > 0" and "src_hash > 0".
\* The first global has entry 0, and a copy of it fails them.
CopyAssertions ==
  copy.i < copy.words =>
    Hash(copy.dst + 8 * copy.i) > 0 /\ Hash(copy.src + 8 * copy.i) > 0
==========================================================================
