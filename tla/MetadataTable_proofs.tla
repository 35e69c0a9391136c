----------------------- MODULE MetadataTable_proofs ----------------------
(***************************************************************************)
(* Theorems about the metadata table, for every layout, every number of    *)
(* globals and every size of the heap and of its blocks.                   *)
(***************************************************************************)
EXTENDS MetadataTable, TLAPS

----------------------------------------------------------------------------
(* The hash *)

\* The k-th word of the globals has entry k.
LEMMA GlobalHash ==
  ASSUME NEW k \in 0..(NGlobals - 1)
  PROVE  Hash(BOUNDARY + 1 + 8 * k) = k
<1>1. /\ BOUNDARY \in Nat /\ Table \in Nat /\ NGlobals \in Nat /\ k \in Nat
      /\ BOUNDARY + 8 * NGlobals < Table
  BY LayoutAssumption
<1>2. BOUNDARY + 1 + 8 * k < Table
  BY <1>1
<1>3. (BOUNDARY + 1 + 8 * k) - BOUNDARY = 8 * k + 1
  BY <1>1
<1>4. (8 * k + 1) \div 8 = k
  BY <1>1
<1> QED
  BY <1>2, <1>3, <1>4 DEF Hash

\* The words of the heap have entries in their order, wherever the table is.
LEMMA HeapHash ==
  ASSUME NEW k \in 0..(NHeap - 1)
  PROVE  Hash(Heap + 8 * k) = Hash(Heap) + k
<1>1. /\ Table \in Nat /\ Heap \in Nat /\ N_TABLE_ENTRIES \in Nat /\ NHeap \in Nat
      /\ BOUNDARY \in Nat /\ BOUNDARY % 8 = 7 /\ GLOBAL_RESERVE \in Nat /\ k \in Nat
      /\ Table % 8 = 0 /\ Heap % 8 = 0
      /\ TableEnd <= Heap \/ Heap + 8 * NHeap <= Table
  BY LayoutAssumption
<1>2. TableEnd = Table + 16 * N_TABLE_ENTRIES
  BY DEF TableEnd, EntrySize
<1>3. CASE TableEnd <= Heap
  <2>1. ~ (Heap + 8 * k < Table) /\ ~ (Heap < Table)
    BY <1>1, <1>2, <1>3
  <2>2. ((Heap - TableEnd) + 8 * k) \div 8 = (Heap - TableEnd) \div 8 + k
    BY <1>1, <1>2
  <2>3. (Heap + 8 * k) - TableEnd = (Heap - TableEnd) + 8 * k
    BY <1>1, <1>2
  <2>4. (Heap - TableEnd) \div 8 \in Int
    BY <1>1, <1>2
  <2> QED
    BY <1>1, <2>1, <2>2, <2>3, <2>4 DEF Hash
<1>4. CASE Heap + 8 * NHeap <= Table
  <2>1. Heap + 8 * k < Table /\ Heap < Table
    BY <1>1, <1>4
  <2>2. ((Heap - BOUNDARY) + 8 * k) \div 8 = (Heap - BOUNDARY) \div 8 + k
    BY <1>1
  <2>3. (Heap + 8 * k) - BOUNDARY = (Heap - BOUNDARY) + 8 * k
    BY <1>1
  <2> QED
    BY <2>1, <2>2, <2>3 DEF Hash
<1> QED
  BY <1>1, <1>3, <1>4

\* The heap's entries come after those of the globals, as long as the globals
\* fit into the entries kept for them.
LEMMA HeapEntriesAreLater ==
  ASSUME NGlobals <= GLOBAL_RESERVE, NHeap > 0
  PROVE  Hash(Heap) \in Nat /\ NGlobals <= Hash(Heap)
<1>1. /\ Table \in Nat /\ Heap \in Nat /\ N_TABLE_ENTRIES \in Nat /\ NHeap \in Nat
      /\ BOUNDARY \in Nat /\ GLOBAL_RESERVE \in Nat /\ NGlobals \in Nat
      /\ BOUNDARY % 8 = 7 /\ Heap % 8 = 0
      /\ \/ TableEnd <= Heap
         \/ BOUNDARY + 8 * NGlobals < Heap /\ Heap + 8 * NHeap <= Table
  BY LayoutAssumption
<1>2. TableEnd = Table + 16 * N_TABLE_ENTRIES
  BY DEF TableEnd, EntrySize
<1>3. CASE TableEnd <= Heap
  <2>1. ~ (Heap < Table) /\ (Heap - TableEnd) \div 8 \in Nat
    BY <1>1, <1>2, <1>3
  <2> QED
    BY <1>1, <2>1 DEF Hash
<1>4. CASE BOUNDARY + 8 * NGlobals < Heap /\ Heap + 8 * NHeap <= Table
  <2>1. Heap < Table
    BY <1>1, <1>4
  <2>2. (Heap - BOUNDARY) \div 8 \in Nat /\ NGlobals <= (Heap - BOUNDARY) \div 8
    BY <1>1, <1>4
  <2> QED
    BY <2>1, <2>2 DEF Hash
<1> QED
  BY <1>1, <1>3, <1>4

\* Two words never share an entry, as long as the globals fit into the
\* entries kept for them.
THEOREM HashIsInjective ==
  ASSUME NGlobals <= GLOBAL_RESERVE, NEW w \in Word, NEW v \in Word, Hash(w) = Hash(v)
  PROVE  w = v
<1>1. NGlobals \in Nat /\ GLOBAL_RESERVE \in Nat /\ NHeap \in Nat
  BY LayoutAssumption
<1>2. ASSUME NEW x \in GlobalWord
      PROVE  \E k \in 0..(NGlobals - 1) : x = BOUNDARY + 1 + 8 * k /\ Hash(x) = k
  BY GlobalHash DEF GlobalWord
<1>3. ASSUME NEW x \in HeapWord
      PROVE  /\ NHeap > 0 /\ Hash(Heap) \in Nat /\ NGlobals <= Hash(Heap)
             /\ \E k \in 0..(NHeap - 1) : x = Heap + 8 * k /\ Hash(x) = Hash(Heap) + k
  <2>1. PICK k \in 0..(NHeap - 1) : x = Heap + 8 * k
    BY DEF HeapWord
  <2>2. NHeap > 0
    BY <1>1
  <2> QED
    BY <2>1, <2>2, HeapHash, HeapEntriesAreLater
<1>4. CASE w \in GlobalWord /\ v \in GlobalWord
  BY <1>2, <1>4
<1>5. CASE w \in HeapWord /\ v \in HeapWord
  <2>1. PICK j \in 0..(NHeap - 1) : w = Heap + 8 * j /\ Hash(w) = Hash(Heap) + j
    BY <1>3, <1>5
  <2>2. PICK k \in 0..(NHeap - 1) : v = Heap + 8 * k /\ Hash(v) = Hash(Heap) + k
    BY <1>3, <1>5
  <2>3. j = k
    BY <1>3, <1>5, <2>1, <2>2
  <2> QED
    BY <2>1, <2>2, <2>3
<1>6. ASSUME NEW x \in GlobalWord, NEW y \in HeapWord
      PROVE  Hash(x) # Hash(y)
  <2>1. PICK j \in 0..(NGlobals - 1) : Hash(x) = j
    BY <1>2
  <2>2. PICK k \in 0..(NHeap - 1) : Hash(y) = Hash(Heap) + k
    BY <1>3
  <2> QED
    BY <1>1, <1>3, <2>1, <2>2
<1> QED
  BY <1>4, <1>5, <1>6 DEF Word

\* Where the heap in use fits as well, every word has an entry in the table.
LEMMA HashInTable ==
  ASSUME Fits, NEW w \in Word
  PROVE  Hash(w) \in 0..(N_TABLE_ENTRIES - 1)
<1>1. /\ NGlobals \in Nat /\ GLOBAL_RESERVE \in Nat /\ NHeap \in Nat /\ N_TABLE_ENTRIES \in Nat
  BY LayoutAssumption
<1>2. CASE w \in GlobalWord
  BY <1>1, <1>2, GlobalHash DEF GlobalWord, Fits
<1>3. CASE w \in HeapWord
  <2>1. PICK k \in 0..(NHeap - 1) : w = Heap + 8 * k
    BY <1>3 DEF HeapWord
  <2>2. Hash(w) = Hash(Heap) + k
    BY <2>1, HeapHash
  <2>3. Hash(Heap) \in Nat
    BY <1>1, HeapEntriesAreLater DEF Fits
  <2> QED
    BY <1>1, <2>2, <2>3 DEF Fits
<1> QED
  BY <1>2, <1>3 DEF Word

----------------------------------------------------------------------------
(* Type correctness *)

LEMMA WordsAreInts == Word \subseteq Int
BY LayoutAssumption DEF Word, GlobalWord, HeapWord

LEMMA BlockWords ==
  ASSUME NEW b \in Block
  PROVE  WordsOf(b) \subseteq Word /\ b.base \in Word /\ b.words \in Nat \ {0}
BY LayoutAssumption DEF Block, Word

LEMMA UsableWords ==
  ASSUME TypeOK
  PROVE  Usable \subseteq Word
BY BlockWords DEF TypeOK, Usable, Word

LEMMA InitTyped == Init => TypeOK
<1> SUFFICES ASSUME Init PROVE TypeOK
  OBVIOUS
<1>1. copy \in Copy /\ copy.i <= copy.words /\ Range(copy.dst, copy.words) = {}
      /\ Range(copy.src, copy.words) = {}
  BY DEF Init, Idle, Copy, Range
<1> QED
  BY <1>1 DEF Init, TypeOK, Bounds

\* Where the words of a range lie.
LEMMA InRange ==
  ASSUME NEW src \in Int, NEW dst \in Int, NEW n \in Nat, NEW w \in Range(dst, n)
  PROVE  src + (w - dst) \in Range(src, n)
BY DEF Range

\* The allocator leaves the table and the copying alone.
LEMMA AllocationTyped ==
  ASSUME TypeOK, Malloc \/ Calloc \/ Free \/ Resize \/ Move
  PROVE  TypeOK'
<1> USE DEF TypeOK
<1>1. CASE Malloc
  BY <1>1, BlockWords DEF Malloc
<1>2. CASE Calloc
  BY <1>2, BlockWords DEF Calloc, Pointer
<1>3. CASE Free
  BY <1>3 DEF Free
<1>4. CASE Resize
  BY <1>4 DEF Resize
<1>5. CASE Move
  <2>1. PICK b \in blocks : \E c \in Block :
          /\ blocks' = (blocks \ {b}) \cup {c}
          /\ mem' = [w \in Word |->
                    IF w \in WordsOf(c) /\ w - c.base < 8 * b.words THEN mem[b.base + (w - c.base)]
                    ELSE IF w \in WordsOf(b) \cup WordsOf(c) THEN Data
                    ELSE mem[w]]
          /\ strays' = (strays \cup WordsOf(c)) \cap {w \in Word : mem'[w] # Data}
          /\ UNCHANGED <<table, copy>>
    BY <1>5 DEF Move
  <2>2. PICK c \in Block :
          /\ blocks' = (blocks \ {b}) \cup {c}
          /\ mem' = [w \in Word |->
                    IF w \in WordsOf(c) /\ w - c.base < 8 * b.words THEN mem[b.base + (w - c.base)]
                    ELSE IF w \in WordsOf(b) \cup WordsOf(c) THEN Data
                    ELSE mem[w]]
          /\ strays' = (strays \cup WordsOf(c)) \cap {w \in Word : mem'[w] # Data}
          /\ UNCHANGED <<table, copy>>
    BY <2>1
  <2>3. ASSUME NEW w \in WordsOf(c), w - c.base < 8 * b.words
        PROVE  b.base + (w - c.base) \in Word
    <3>1. PICK k \in 0..(c.words - 1) : w = c.base + 8 * k
      BY DEF WordsOf
    <3>2. /\ b.words \in Nat /\ c.words \in Nat /\ b.base \in Int /\ c.base \in Int
          /\ WordsOf(b) \subseteq Word
      BY BlockWords, WordsAreInts
    <3>3. k \in 0..(b.words - 1) /\ b.base + (w - c.base) = b.base + 8 * k
      BY <2>3, <3>1, <3>2
    <3> QED
      BY <3>2, <3>3 DEF WordsOf
  <2>4. mem' \in [Word -> Pointer \cup {Data}]
    BY <2>2, <2>3
  <2> QED
    BY <2>2, <2>4
<1> QED
  BY <1>1, <1>2, <1>3, <1>4, <1>5

LEMMA StoreTyped ==
  ASSUME TypeOK, Store \/ StoreLoaded \/ StoreData
  PROVE  TypeOK'
<1> USE DEF TypeOK
<1>1. Usable \subseteq Word
  BY UsableWords
<1>2. CASE Store
  BY <1>1, <1>2 DEF Store, Pointer, Bounds, BoundsOf
<1>3. CASE StoreLoaded
  BY <1>1, <1>3 DEF StoreLoaded
<1>4. CASE StoreData
  BY <1>1, <1>4 DEF StoreData
<1> QED
  BY <1>2, <1>3, <1>4

LEMMA MovedTyped ==
  ASSUME TypeOK, NEW dst \in Word, NEW src \in Word, NEW n \in Nat,
         Range(dst, n) \cup Range(src, n) \subseteq Word
  PROVE  Moved(dst, src, n) \in [Word -> Pointer \cup {Data}]
<1>1. ASSUME NEW w \in Range(dst, n)
      PROVE  src + (w - dst) \in Word
  BY InRange, WordsAreInts
<1> QED
  BY <1>1 DEF Moved, TypeOK

LEMMA CopyTyped ==
  ASSUME TypeOK, Memmove \/ Memcpy \/ CopyEntry \/ CopyDone
  PROVE  TypeOK'
<1>1. Usable \subseteq Word /\ MaxWords \in Nat /\ Word \subseteq Nat
  BY UsableWords, LayoutAssumption DEF Word, GlobalWord, HeapWord
<1>2. CASE Memmove
  <2>1. PICK dst, src \in Usable, n \in 1..MaxWords :
          /\ Range(dst, n) \cup Range(src, n) \subseteq Usable
          /\ mem' = Moved(dst, src, n)
          /\ strays' = (strays \cup Range(dst, n)) \cap {w \in Word : mem'[w] # Data}
          /\ UNCHANGED <<blocks, table, copy>>
    BY <1>2 DEF Memmove
  <2>2. /\ dst \in Word /\ src \in Word
        /\ Range(dst, n) \subseteq Word /\ Range(src, n) \subseteq Word
    BY <1>1, <2>1, Zenon
  <2> n \in Nat
    BY <1>1
  <2>3. mem' \in [Word -> Pointer \cup {Data}]
    BY <2>1, <2>2, MovedTyped
  <2> QED
    BY <2>1, <2>2, <2>3 DEF TypeOK
<1>3. CASE Memcpy
  <2>1. PICK dst, src \in Usable, n \in 1..MaxWords :
          /\ Range(dst, n) \cup Range(src, n) \subseteq Usable
          /\ mem' = Moved(dst, src, n)
          /\ strays' = strays \cup (Range(dst, n) \ Range(src, n))
          /\ copy' = [dst |-> dst, src |-> src, words |-> n, i |-> 0]
          /\ UNCHANGED <<blocks, table>>
    BY <1>3 DEF Memcpy
  <2>2. /\ dst \in Word /\ src \in Word
        /\ Range(dst, n) \subseteq Word /\ Range(src, n) \subseteq Word
    BY <1>1, <2>1, Zenon
  <2> n \in Nat
    BY <1>1
  <2>3. mem' \in [Word -> Pointer \cup {Data}]
    BY <2>1, <2>2, MovedTyped
  <2>4. copy' \in Copy /\ copy'.i <= copy'.words /\ copy'.dst = dst /\ copy'.src = src
        /\ copy'.words = n
    BY <1>1, <2>1, <2>2 DEF Copy
  <2> QED
    BY <2>1, <2>2, <2>3, <2>4 DEF TypeOK
<1>4. CASE CopyEntry
  <2> DEFINE d == copy.dst + 8 * copy.i
             s == copy.src + 8 * copy.i
  <2>1. copy \in Copy /\ copy.i < copy.words
    BY <1>4 DEF CopyEntry, TypeOK
  <2>2. d \in Word /\ s \in Word
    BY <2>1 DEF TypeOK, Copy, Range
  <2>3. /\ table' = [table EXCEPT ![Hash(d)] = table[Hash(s)]]
        /\ strays' \subseteq strays
        /\ copy' = [copy EXCEPT !.i = copy.i + 1]
        /\ UNCHANGED <<blocks, mem>>
    BY <1>4 DEF CopyEntry
  <2>4. /\ copy' \in Copy /\ copy'.i <= copy'.words /\ copy'.dst = copy.dst
        /\ copy'.src = copy.src /\ copy'.words = copy.words
    BY <2>1, <2>3 DEF Copy
  <2>5. table' \in [{Hash(w) : w \in Word} -> Bounds]
    BY <2>2, <2>3 DEF TypeOK
  <2> QED
    BY <2>3, <2>4, <2>5 DEF TypeOK
<1>5. CASE CopyDone
  BY <1>5 DEF CopyDone, TypeOK, Idle, Copy, Range
<1> QED
  BY <1>2, <1>3, <1>4, <1>5

LEMMA NextTyped == TypeOK /\ [Next]_vars => TypeOK'
<1>1. TypeOK /\ UNCHANGED vars => TypeOK'
  BY DEF TypeOK, vars
<1> QED
  BY <1>1, AllocationTyped, StoreTyped, CopyTyped DEF Next

\* Type correctness: a copy of entries never leaves the words being copied.
THEOREM TypeCorrect == Spec => []TypeOK
BY InitTyped, NextTyped, PTL DEF Spec

\* The assertion of __ds_hash holds as long as globals and heap fit.
THEOREM EntriesStayInTable == Fits /\ Spec => []EntriesInTable
<1>1. Fits /\ TypeOK => EntriesInTable
  BY UsableWords, HashInTable DEF EntriesInTable
<1>2. CASE Fits
  BY <1>1, <1>2, TypeCorrect, PTL
<1> QED
  BY <1>2

\* One word alone has entry 0.
LEMMA EntryZero ==
  ASSUME GLOBAL_RESERVE > 0, NEW w \in Word, w # BOUNDARY + 1
  PROVE  Hash(w) > 0
<1>1. /\ BOUNDARY \in Nat /\ Table \in Nat /\ Heap \in Nat /\ GLOBAL_RESERVE \in Nat
      /\ N_TABLE_ENTRIES \in Nat /\ NGlobals \in Nat /\ NHeap \in Nat
      /\ BOUNDARY % 8 = 7 /\ Heap % 8 = 0
      /\ BOUNDARY + 8 * NGlobals < Table
      /\ \/ TableEnd <= Heap
         \/ BOUNDARY + 8 * NGlobals < Heap /\ Heap + 8 * NHeap <= Table
  BY LayoutAssumption
<1>2. TableEnd \in Nat /\ Table <= TableEnd
  BY <1>1 DEF TableEnd, EntrySize
<1>3. CASE w \in GlobalWord
  <2>1. PICK k \in 0..(NGlobals - 1) : w = BOUNDARY + 1 + 8 * k
    BY <1>3 DEF GlobalWord
  <2>2. Hash(w) = k /\ k # 0
    BY <1>1, <2>1, GlobalHash
  <2> QED
    BY <1>1, <2>1, <2>2
<1>4. CASE w \in HeapWord
  <2>1. PICK k \in 0..(NHeap - 1) : w = Heap + 8 * k
    BY <1>4 DEF HeapWord
  <2>2. CASE w < Table
    <3>1. BOUNDARY < Heap
      BY <1>1, <1>2, <2>1, <2>2
    <3>2. w - BOUNDARY >= 8
      BY <1>1, <2>1, <3>1
    <3> QED
      BY <1>1, <2>1, <2>2, <3>2 DEF Hash
  <2>3. CASE ~ (w < Table)
    <3>1. TableEnd <= w
      BY <1>1, <1>2, <2>1, <2>3
    <3> QED
      BY <1>1, <1>2, <2>1, <2>3, <3>1 DEF Hash
  <2> QED
    BY <2>2, <2>3
<1> QED
  BY <1>3, <1>4 DEF Word

\* The assertions of __ds_metadata_copy fail at one word and no other: the one
\* right above BOUNDARY, the first of the globals.
THEOREM OnlyTheFirstWordFails ==
  GLOBAL_RESERVE > 0 /\ Spec =>
    [](~ CopyAssertions =>
         BOUNDARY + 1 \in {copy.dst + 8 * copy.i, copy.src + 8 * copy.i})
<1> DEFINE Fails ==
      ~ CopyAssertions => BOUNDARY + 1 \in {copy.dst + 8 * copy.i, copy.src + 8 * copy.i}
<1>1. ASSUME GLOBAL_RESERVE > 0, TypeOK PROVE Fails
  <2> SUFFICES ASSUME copy.i < copy.words,
                      copy.dst + 8 * copy.i # BOUNDARY + 1, copy.src + 8 * copy.i # BOUNDARY + 1
               PROVE  Hash(copy.dst + 8 * copy.i) > 0 /\ Hash(copy.src + 8 * copy.i) > 0
    BY DEF CopyAssertions
  <2>1. copy.i \in 0..(copy.words - 1)
    BY <1>1 DEF TypeOK, Copy
  <2>2. copy.dst + 8 * copy.i \in Word /\ copy.src + 8 * copy.i \in Word
    BY <1>1, <2>1 DEF TypeOK, Range
  <2> QED
    BY <1>1, <2>2, EntryZero
<1> HIDE DEF Fails
<1>2. CASE GLOBAL_RESERVE > 0
  <2>1. TypeOK => Fails
    BY <1>1, <1>2
  <2>2. Spec => []Fails
    BY <2>1, TypeCorrect, PTL
  <2> QED
    BY <2>2 DEF Fails
<1> QED
  BY <1>2

----------------------------------------------------------------------------
(* Pointers keep their bounds *)

\* While entries are copied, both blocks hold the same words, and those still
\* to be copied to are known to be without their bounds.
CopyInv ==
  \A j \in 0..(copy.words - 1) :
    /\ mem[copy.dst + 8 * j] = mem[copy.src + 8 * j]
    /\ j >= copy.i => copy.dst = copy.src \/ copy.dst + 8 * j \in strays

KeepInv == TypeOK /\ PointersKeepBounds /\ CopyInv

LEMMA DataIsNoPointer == Data \notin Pointer
BY ValueAssumption DEF Pointer

\* A write to the entry of a word changes the bounds of no other word.
LEMMA OneEntry ==
  ASSUME NGlobals <= GLOBAL_RESERVE, TypeOK, NEW w \in Word, NEW x,
         table' = [table EXCEPT ![Hash(w)] = x]
  PROVE  /\ table'[Hash(w)] = x
         /\ \A v \in Word \ {w} : table'[Hash(v)] = table[Hash(v)]
<1>1. table \in [{Hash(v) : v \in Word} -> Bounds]
  BY DEF TypeOK
<1>2. \A v \in Word \ {w} : Hash(v) # Hash(w)
  BY HashIsInjective
<1> QED
  BY <1>1, <1>2

\* What the allocator moves or clears is nobody's pointer any more, or stray.
LEMMA AllocationKeeps ==
  ASSUME KeepInv, Malloc \/ Calloc \/ Free \/ Resize \/ Move
  PROVE  PointersKeepBounds'
<1> SUFFICES ASSUME NEW w \in Word, w \notin strays', mem'[w] \in Pointer
             PROVE  table'[Hash(w)] = BoundsOf(mem'[w])
  BY DEF PointersKeepBounds
<1>1. mem'[w] # Data
  BY DataIsNoPointer
<1>2. w \notin strays => table[Hash(w)] = BoundsOf(mem[w]) \/ mem[w] \notin Pointer
  BY DEF KeepInv, PointersKeepBounds
<1>3. CASE Malloc
  BY <1>1, <1>2, <1>3 DEF Malloc
<1>4. CASE Calloc
  BY <1>1, <1>2, <1>4 DEF Calloc
<1>5. CASE Free
  BY <1>1, <1>2, <1>5 DEF Free
<1>6. CASE Resize
  BY <1>1, <1>2, <1>6 DEF Resize
<1>7. CASE Move
  <2>1. /\ table' = table
        /\ \E c \in Block :
             /\ w \notin WordsOf(c) => mem'[w] \in {mem[w], Data}
             /\ strays' = (strays \cup WordsOf(c)) \cap {v \in Word : mem'[v] # Data}
    BY <1>7 DEF Move
  <2> QED
    BY <1>1, <1>2, <2>1
<1> QED
  BY <1>3, <1>4, <1>5, <1>6, <1>7

LEMMA StoreKeeps ==
  ASSUME NGlobals <= GLOBAL_RESERVE, KeepInv, Store \/ StoreLoaded \/ StoreData
  PROVE  PointersKeepBounds'
<1> SUFFICES ASSUME NEW u \in Word, u \notin strays', mem'[u] \in Pointer
             PROVE  table'[Hash(u)] = BoundsOf(mem'[u])
  BY DEF PointersKeepBounds
<1>1. TypeOK /\ Usable \subseteq Word /\ mem \in [Word -> Pointer \cup {Data}]
  BY UsableWords DEF KeepInv, TypeOK
<1>2. \A v \in Word : v \notin strays /\ mem[v] \in Pointer => table[Hash(v)] = BoundsOf(mem[v])
  BY DEF KeepInv, PointersKeepBounds
<1>3. CASE Store
  <2>1. PICK w \in Word, p \in blocks \cup {Null} :
          /\ mem' = [mem EXCEPT ![w] = p]
          /\ table' = [table EXCEPT ![Hash(w)] = BoundsOf(p)]
          /\ strays' = strays \ {w}
    BY <1>1, <1>3 DEF Store
  <2>2. /\ table'[Hash(w)] = BoundsOf(p)
        /\ \A v \in Word \ {w} : table'[Hash(v)] = table[Hash(v)]
    BY <1>1, <2>1, OneEntry
  <2>3. mem'[w] = p /\ (u # w => mem'[u] = mem[u] /\ u \notin strays)
    BY <1>1, <2>1
  <2> QED
    BY <1>2, <2>2, <2>3
<1>4. CASE StoreLoaded
  <2>1. PICK w \in Word, v \in Word :
          /\ mem[v] \in Pointer
          /\ mem' = [mem EXCEPT ![w] = mem[v]]
          /\ table' = [table EXCEPT ![Hash(w)] = table[Hash(v)]]
          /\ strays' = IF v \in strays THEN strays \cup {w} ELSE strays \ {w}
    BY <1>1, <1>4 DEF StoreLoaded
  <2>2. /\ table'[Hash(w)] = table[Hash(v)]
        /\ \A x \in Word \ {w} : table'[Hash(x)] = table[Hash(x)]
    BY <1>1, <2>1, OneEntry
  <2>3. mem'[w] = mem[v] /\ (u # w => mem'[u] = mem[u] /\ u \notin strays)
        /\ (u = w => v \notin strays)
    BY <1>1, <2>1
  <2> QED
    BY <1>2, <2>1, <2>2, <2>3
<1>5. CASE StoreData
  <2>1. PICK w \in Word :
          mem' = [mem EXCEPT ![w] = Data] /\ strays' = strays \ {w} /\ table' = table
    BY <1>1, <1>5 DEF StoreData
  <2>2. mem'[w] = Data /\ (u # w => mem'[u] = mem[u] /\ u \notin strays)
    BY <1>1, <2>1
  <2> QED
    BY <1>2, <2>1, <2>2, DataIsNoPointer
<1> QED
  BY <1>3, <1>4, <1>5

LEMMA MemmoveKeeps ==
  ASSUME KeepInv, Memmove
  PROVE  PointersKeepBounds'
<1>1. PICK dst, src \in Usable, n \in 1..MaxWords :
        /\ mem' = Moved(dst, src, n)
        /\ strays' = (strays \cup Range(dst, n)) \cap {w \in Word : mem'[w] # Data}
        /\ table' = table
  BY DEF Memmove
<1> SUFFICES ASSUME NEW w \in Word, w \notin strays', mem'[w] \in Pointer
             PROVE  table'[Hash(w)] = BoundsOf(mem'[w])
  BY DEF PointersKeepBounds
<1>2. w \notin strays /\ w \notin Range(dst, n)
  BY <1>1, DataIsNoPointer
<1>3. mem'[w] = mem[w]
  BY <1>1, <1>2 DEF Moved
<1> QED
  BY <1>1, <1>2, <1>3 DEF KeepInv, PointersKeepBounds

LEMMA MemcpyKeeps ==
  ASSUME KeepInv, Memcpy
  PROVE  PointersKeepBounds' /\ CopyInv'
<1>1. PICK dst, src \in Usable, n \in 1..MaxWords :
        /\ Range(dst, n) \cup Range(src, n) \subseteq Usable
        /\ dst = src \/ Range(dst, n) \cap Range(src, n) = {}
        /\ mem' = Moved(dst, src, n)
        /\ strays' = strays \cup (Range(dst, n) \ Range(src, n))
        /\ copy' = [dst |-> dst, src |-> src, words |-> n, i |-> 0]
        /\ table' = table
  BY DEF Memcpy
<1>2. Usable \subseteq Word /\ Word \subseteq Int /\ MaxWords \in Nat
  BY UsableWords, WordsAreInts, LayoutAssumption DEF KeepInv
<1>3. dst \in Int /\ src \in Int /\ n \in Nat
  BY <1>2
<1>4. Range(dst, n) \subseteq Word /\ Range(src, n) \subseteq Word
  BY <1>1, <1>2, Zenon
<1>5. \A w \in Word \ Range(dst, n) : mem'[w] = mem[w]
  BY <1>1 DEF Moved
<1>6. ASSUME NEW j \in 0..(n - 1)
      PROVE  /\ dst + 8 * j \in Range(dst, n) /\ src + 8 * j \in Range(src, n)
             /\ mem'[dst + 8 * j] = mem[src + 8 * j]
             /\ mem'[src + 8 * j] = mem[src + 8 * j]
  <2>1. dst + 8 * j \in Range(dst, n) /\ src + 8 * j \in Range(src, n)
    BY DEF Range
  <2>2. src + ((dst + 8 * j) - dst) = src + 8 * j
    BY <1>3
  <2>3. mem'[dst + 8 * j] = mem[src + 8 * j]
    BY <1>1, <1>4, <2>1, <2>2 DEF Moved
  <2>4. CASE dst = src
    BY <2>1, <2>3, <2>4
  <2>5. CASE dst # src
    BY <1>1, <1>4, <1>5, <2>1, <2>3, <2>5
  <2> QED
    BY <2>1, <2>3, <2>4, <2>5
<1>7. CopyInv'
  BY <1>1, <1>6 DEF CopyInv
<1>8. ASSUME NEW w \in Word, w \notin strays'
      PROVE  mem'[w] = mem[w]
  <2>1. CASE w \notin Range(dst, n)
    BY <1>5, <2>1
  <2>2. CASE w \in Range(dst, n)
    <3>1. dst = src
      BY <1>1, <1>8, <2>2
    <3>2. PICK j \in 0..(n - 1) : w = dst + 8 * j
      BY <2>2 DEF Range
    <3> QED
      BY <1>6, <3>1, <3>2
  <2> QED
    BY <2>1, <2>2
<1>9. PointersKeepBounds'
  BY <1>1, <1>8 DEF KeepInv, PointersKeepBounds
<1> QED
  BY <1>7, <1>9

LEMMA CopyEntryKeeps ==
  ASSUME NGlobals <= GLOBAL_RESERVE, KeepInv, CopyEntry
  PROVE  PointersKeepBounds' /\ CopyInv'
<1> DEFINE d == copy.dst + 8 * copy.i
           s == copy.src + 8 * copy.i
<1>1. /\ copy.dst \in Nat /\ copy.src \in Nat /\ copy.words \in Nat /\ copy.i \in Nat
      /\ copy.i \in 0..(copy.words - 1)
  BY DEF CopyEntry, KeepInv, TypeOK, Copy
<1>2. d \in Word /\ s \in Word
  BY <1>1 DEF KeepInv, TypeOK, Range
<1>3. /\ table' = [table EXCEPT ![Hash(d)] = table[Hash(s)]]
      /\ strays' = IF s \in strays /\ mem[d] # Data THEN strays ELSE strays \ {d}
      /\ copy' = [copy EXCEPT !.i = copy.i + 1]
      /\ mem' = mem
  BY DEF CopyEntry
<1>4. /\ table'[Hash(d)] = table[Hash(s)]
      /\ \A v \in Word \ {d} : table'[Hash(v)] = table[Hash(v)]
  <2>1. TypeOK
    BY DEF KeepInv
  <2> QED
    BY <1>2, <1>3, <2>1, OneEntry
<1>5. mem[d] = mem[s] /\ (copy.dst = copy.src \/ d \in strays)
  BY <1>1 DEF KeepInv, CopyInv
<1>6. PointersKeepBounds'
  <2> SUFFICES ASSUME NEW w \in Word, w \notin strays', mem[w] \in Pointer
               PROVE  table'[Hash(w)] = BoundsOf(mem[w])
    BY <1>3 DEF PointersKeepBounds
  <2>1. \A v \in Word : v \notin strays /\ mem[v] \in Pointer => table[Hash(v)] = BoundsOf(mem[v])
    BY DEF KeepInv, PointersKeepBounds
  <2>2. CASE w # d
    BY <1>3, <1>4, <2>1, <2>2
  <2>3. CASE w = d
    <3>1. mem[d] # Data
      BY <2>3, DataIsNoPointer
    <3>2. s \notin strays
      BY <1>3, <1>5, <2>3, <3>1
    <3> QED
      BY <1>2, <1>4, <1>5, <2>1, <2>3, <3>2
  <2> QED
    BY <2>2, <2>3
<1>7. CopyInv'
  <2>1. /\ copy'.dst = copy.dst /\ copy'.src = copy.src /\ copy'.words = copy.words
        /\ copy'.i = copy.i + 1
    BY <1>3 DEF KeepInv, TypeOK, Copy
  <2>2. ASSUME NEW j \in 0..(copy.words - 1), j >= copy.i + 1
        PROVE  copy.dst = copy.src \/ copy.dst + 8 * j \in strays'
    <3>1. copy.dst = copy.src \/ copy.dst + 8 * j \in strays
      BY <1>1, <2>2 DEF KeepInv, CopyInv
    <3>2. copy.dst + 8 * j # d
      BY <1>1, <2>2
    <3> QED
      BY <1>3, <3>1, <3>2
  <2> QED
    BY <1>3, <2>1, <2>2 DEF KeepInv, CopyInv
<1> QED
  BY <1>6, <1>7

LEMMA NextKeeps ==
  ASSUME NGlobals <= GLOBAL_RESERVE, KeepInv, [Next]_vars
  PROVE  KeepInv'
<1>1. TypeOK'
  BY NextTyped DEF KeepInv
<1>2. CASE Malloc \/ Calloc \/ Free \/ Resize \/ Move
  <2>1. copy' = Idle
    BY <1>2 DEF Malloc, Calloc, Free, Resize, Move, Running
  <2> QED
    BY <1>1, <1>2, <2>1, AllocationKeeps DEF KeepInv, CopyInv, Idle
<1>3. CASE Store \/ StoreLoaded \/ StoreData
  <2>1. copy' = Idle
    BY <1>3 DEF Store, StoreLoaded, StoreData, Running
  <2> QED
    BY <1>1, <1>3, <2>1, StoreKeeps DEF KeepInv, CopyInv, Idle
<1>4. CASE Memmove
  <2>1. copy' = Idle
    BY <1>4 DEF Memmove, Running
  <2> QED
    BY <1>1, <1>4, <2>1, MemmoveKeeps DEF KeepInv, CopyInv, Idle
<1>5. CASE Memcpy
  BY <1>1, <1>5, MemcpyKeeps DEF KeepInv
<1>6. CASE CopyEntry
  BY <1>1, <1>6, CopyEntryKeeps DEF KeepInv
<1>7. CASE CopyDone
  <2>1. copy' = Idle /\ PointersKeepBounds'
    BY <1>7 DEF CopyDone, KeepInv, PointersKeepBounds
  <2> QED
    BY <1>1, <2>1 DEF KeepInv, CopyInv, Idle
<1>8. CASE UNCHANGED vars
  BY <1>1, <1>8 DEF KeepInv, PointersKeepBounds, CopyInv, vars
<1> QED
  BY <1>2, <1>3, <1>4, <1>5, <1>6, <1>7, <1>8 DEF Next

\* A load gets the bounds of the very pointer it loads, whatever happened in
\* between to this or any other word, as long as the globals fit into the
\* entries kept for them.
THEOREM PointersKeepTheirBounds == NGlobals <= GLOBAL_RESERVE /\ Spec => []PointersKeepBounds
<1>1. Init => KeepInv
  <2>1. ASSUME Init PROVE PointersKeepBounds /\ CopyInv
    BY <2>1, DataIsNoPointer DEF Init, PointersKeepBounds, CopyInv, Idle
  <2> QED
    BY <2>1, InitTyped DEF KeepInv
<1>2. CASE NGlobals <= GLOBAL_RESERVE
  <2>1. KeepInv /\ [Next]_vars => KeepInv'
    BY <1>2, NextKeeps
  <2>2. KeepInv => PointersKeepBounds
    BY DEF KeepInv
  <2> QED
    BY <1>1, <2>1, <2>2, PTL DEF Spec
<1> QED
  BY <1>2
==========================================================================
