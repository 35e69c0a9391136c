------------------ MODULE MetadataTableRefinement_proofs ------------------
(***************************************************************************)
(* The metadata table implements memory whose words carry bounds, for      *)
(* every layout, every number of globals that fit into their entries, and  *)
(* every size of the heap, of its blocks and of a copy.                    *)
(***************************************************************************)
EXTENDS MetadataTableRefinement, MetadataTable_proofs

\* The blocks of the copy under way are the same or do not overlap.
CopyApart ==
  copy.dst = copy.src \/ Range(copy.dst, copy.words) \cap Range(copy.src, copy.words) = {}

FatInv == KeepInv /\ CopyApart

\* A cell by the word's own entry: what it is while no copy is under way.
OwnCell(w) ==
  IF mem[w] = Data THEN Data
  ELSE [ptr |-> mem[w], bounds |-> IF w \in strays THEN Unknown ELSE table[Hash(w)]]

LEMMA RunningCells ==
  /\ Running => \A w \in Word : Cells[w] = OwnCell(w)
  /\ Running' => \A w \in Word : Cells'[w] = OwnCell(w)'
<1>1. ASSUME Running PROVE \A w \in Word : Cells[w] = OwnCell(w)
  BY <1>1 DEF Cells, CellOf, OwnCell, Origin
<1>2. ASSUME Running' PROVE \A w \in Word : Cells'[w] = OwnCell(w)'
  BY <1>2 DEF Cells, CellOf, OwnCell, Origin
<1> QED
  BY <1>1, <1>2

LEMMA CellsAreFunctions == Cells' = [w \in Word |-> Cells'[w]]
BY DEF Cells

\* What a step that leaves words alone has to show.
LEMMA OthersStay ==
  ASSUME NEW W, \A w \in Word \ W : Cells'[w] = Cells[w]
  PROVE  Fat!OnlyIn(W)
BY CellsAreFunctions DEF Fat!OnlyIn

\* The same in terms of memory, table and strays.
LEMMA SameCell ==
  ASSUME Running, Running', NEW w \in Word, mem'[w] = mem[w],
         mem[w] # Data => (w \in strays' <=> w \in strays) /\ table'[Hash(w)] = table[Hash(w)]
  PROVE  Cells'[w] = Cells[w]
BY RunningCells DEF OwnCell

LEMMA DataCell ==
  ASSUME Running', NEW w \in Word, mem'[w] = Data
  PROVE  Cells'[w] = Data
BY RunningCells DEF OwnCell

\* A cell is never taken for Data.
LEMMA RecordIsNoData ==
  ASSUME NEW p \in Pointer, NEW b \in Bounds \cup {Unknown}
  PROVE  [ptr |-> p, bounds |-> b] # Data
BY UnknownAssumption

LEMMA ForgetsRecord ==
  ASSUME NEW p \in Pointer, NEW b \in Bounds \cup {Unknown}
  PROVE  Fat!Forgets([ptr |-> p, bounds |-> b]) = [ptr |-> p, bounds |-> Unknown]
BY RecordIsNoData DEF Fat!Forgets

\* A word that gets what another one held, and no entry.
LEMMA ForgottenCell ==
  ASSUME TypeOK, Running, Running', NEW w \in Word, NEW v \in Word, mem'[w] = mem[v],
         mem[v] # Data => w \in strays'
  PROVE  Cells'[w] = Fat!Forgets(Cells[v])
<1>1. CASE mem[v] = Data
  <2>1. Cells[v] = Data
    BY <1>1, RunningCells DEF OwnCell
  <2> QED
    BY <1>1, <2>1, DataCell DEF Fat!Forgets
<1>2. CASE mem[v] # Data
  <2>1. mem[v] \in Pointer /\ table[Hash(v)] \in Bounds
    BY <1>2 DEF TypeOK
  <2>2. \E b \in Bounds \cup {Unknown} : Cells[v] = [ptr |-> mem[v], bounds |-> b]
    BY <1>2, <2>1, RunningCells DEF OwnCell
  <2>3. Cells'[w] = [ptr |-> mem[v], bounds |-> Unknown]
    BY <1>2, RunningCells DEF OwnCell
  <2> QED
    BY <2>1, <2>2, <2>3, ForgetsRecord
<1> QED
  BY <1>1, <1>2

LEMMA FatUsable == Fat!Usable = Usable
BY DEF Fat!Usable, Usable

----------------------------------------------------------------------------
(* The allocator *)

LEMMA MallocFat ==
  ASSUME TypeOK, Malloc
  PROVE  Fat!Malloc
<1>1. PICK b \in Block :
        /\ Fresh(b, blocks)
        /\ blocks' = blocks \cup {b}
        /\ mem' = [w \in Word |-> IF w \in WordsOf(b) THEN Data ELSE mem[w]]
        /\ strays' = strays \ WordsOf(b)
        /\ table' = table
  BY DEF Malloc
<1>2. Running /\ Running'
  BY DEF Malloc, Running
<1>3. WordsOf(b) \subseteq Word
  BY BlockWords
<1>4. \A w \in Word \ WordsOf(b) : Cells'[w] = Cells[w]
  BY <1>1, <1>2, SameCell
<1>5. \A w \in WordsOf(b) : Cells'[w] = Data
  BY <1>1, <1>2, <1>3, DataCell
<1>6. Fat!Fill(WordsOf(b), Data)
  BY <1>4, <1>5, OthersStay DEF Fat!Fill
<1> QED
  BY <1>1, <1>6 DEF Fat!Malloc, Fat!Fresh, Fresh

LEMMA CallocFat ==
  ASSUME TypeOK, Calloc
  PROVE  Fat!Calloc
<1>1. PICK b \in Block :
        /\ Fresh(b, blocks)
        /\ blocks' = blocks \cup {b}
        /\ mem' = [w \in Word |-> IF w \in WordsOf(b) THEN Null ELSE mem[w]]
        /\ strays' = strays \cup WordsOf(b)
        /\ table' = table
  BY DEF Calloc
<1>2. Running /\ Running'
  BY DEF Calloc, Running
<1>3. WordsOf(b) \subseteq Word /\ Null # Data
  BY BlockWords, ValueAssumption
<1>4. \A w \in Word \ WordsOf(b) : Cells'[w] = Cells[w]
  BY <1>1, <1>2, SameCell
<1>5. \A w \in WordsOf(b) : Cells'[w] = [ptr |-> Null, bounds |-> Unknown]
  BY <1>1, <1>2, <1>3, RunningCells DEF OwnCell
<1>6. Fat!Forgets(Fat!Own(Null)) = [ptr |-> Null, bounds |-> Unknown]
  BY ForgetsRecord DEF Fat!Own, Pointer, Bounds
<1>7. Fat!Fill(WordsOf(b), Fat!Forgets(Fat!Own(Null)))
  BY <1>4, <1>5, <1>6, OthersStay DEF Fat!Fill
<1> QED
  BY <1>1, <1>7 DEF Fat!Calloc, Fat!Fresh, Fresh

LEMMA FreeFat ==
  ASSUME TypeOK, Free
  PROVE  Fat!Free
<1>1. PICK b \in blocks :
        /\ blocks' = blocks \ {b}
        /\ mem' = [w \in Word |-> IF w \in WordsOf(b) THEN Data ELSE mem[w]]
        /\ strays' = strays \ WordsOf(b)
        /\ table' = table
  BY DEF Free
<1>2. Running /\ Running'
  BY DEF Free, Running
<1>3. WordsOf(b) \subseteq Word
  BY BlockWords DEF TypeOK
<1>4. \A w \in Word \ WordsOf(b) : Cells'[w] = Cells[w]
  BY <1>1, <1>2, SameCell
<1>5. \A w \in WordsOf(b) : Cells'[w] = Data
  BY <1>1, <1>2, <1>3, DataCell
<1>6. Fat!Fill(WordsOf(b), Data)
  BY <1>4, <1>5, OthersStay DEF Fat!Fill
<1> QED
  BY <1>1, <1>6 DEF Fat!Free

LEMMA ResizeFat ==
  ASSUME TypeOK, Resize
  PROVE  Fat!Resize
<1>1. PICK b \in blocks, c \in Block :
        /\ c.base = b.base
        /\ Fresh(c, blocks \ {b})
        /\ blocks' = (blocks \ {b}) \cup {c}
        /\ mem' = [w \in Word |->
                    IF w \in WordsOf(b) \cap WordsOf(c) \/ w \notin WordsOf(b) \cup WordsOf(c)
                    THEN mem[w] ELSE Data]
        /\ strays' = strays \cap {w \in Word : mem'[w] # Data}
        /\ table' = table
  BY DEF Resize
<1> DEFINE W == (WordsOf(b) \cup WordsOf(c)) \ (WordsOf(b) \cap WordsOf(c))
<1>2. Running /\ Running'
  BY DEF Resize, Running
<1>3. W \subseteq Word
  BY BlockWords DEF TypeOK
<1>4. \A w \in Word \ W : mem'[w] = mem[w]
  BY <1>1
<1>5. \A w \in W : mem'[w] = Data
  BY <1>1, <1>3
<1> HIDE DEF W
<1>6. \A w \in Word \ W : Cells'[w] = Cells[w]
  BY <1>1, <1>2, <1>4, SameCell
<1>7. \A w \in W : Cells'[w] = Data
  BY <1>2, <1>3, <1>5, DataCell
<1>8. Fat!Fill(W, Data)
  BY <1>6, <1>7, OthersStay DEF Fat!Fill
<1> QED
  BY <1>1, <1>8 DEF Fat!Resize, Fat!Fresh, Fresh, W

LEMMA MoveFat ==
  ASSUME TypeOK, Move
  PROVE  Fat!Move
<1>1. PICK b \in blocks, c \in Block :
        /\ Fresh(c, blocks)
        /\ blocks' = (blocks \ {b}) \cup {c}
        /\ mem' = [w \in Word |->
                    IF w \in WordsOf(c) /\ w - c.base < 8 * b.words THEN mem[b.base + (w - c.base)]
                    ELSE IF w \in WordsOf(b) \cup WordsOf(c) THEN Data
                    ELSE mem[w]]
        /\ strays' = (strays \cup WordsOf(c)) \cap {w \in Word : mem'[w] # Data}
        /\ table' = table
  BY DEF Move
<1>2. Running /\ Running'
  BY DEF Move, Running
<1>3. /\ WordsOf(b) \subseteq Word /\ WordsOf(c) \subseteq Word
      /\ WordsOf(b) \cap WordsOf(c) = {}
  BY <1>1, BlockWords DEF TypeOK, Fresh
<1>4. \A w \in Word \ (WordsOf(b) \cup WordsOf(c)) : Cells'[w] = Cells[w]
  BY <1>1, <1>2, SameCell
<1>5. \A w \in WordsOf(b) : Cells'[w] = Data
  BY <1>1, <1>2, <1>3, DataCell
<1>6. ASSUME NEW w \in WordsOf(c)
      PROVE  Cells'[w] = IF w - c.base < 8 * b.words
                         THEN Fat!Forgets(Cells[b.base + (w - c.base)]) ELSE Data
  <2>1. CASE w - c.base < 8 * b.words
    <3>1. b.base + (w - c.base) \in Word
      <4>1. PICK k \in 0..(c.words - 1) : w = c.base + 8 * k
        BY DEF WordsOf
      <4>2. /\ b.words \in Nat /\ c.words \in Nat /\ b.base \in Int /\ c.base \in Int
        BY BlockWords, WordsAreInts DEF TypeOK
      <4>3. k \in 0..(b.words - 1) /\ b.base + (w - c.base) = b.base + 8 * k
        BY <2>1, <4>1, <4>2
      <4> QED
        BY <1>3, <4>3 DEF WordsOf
    <3>2. mem'[w] = mem[b.base + (w - c.base)] /\ (mem'[w] # Data => w \in strays')
      BY <1>1, <1>3, <2>1
    <3> QED
      BY <1>2, <1>3, <2>1, <3>1, <3>2, ForgottenCell
  <2>2. CASE ~ (w - c.base < 8 * b.words)
    BY <1>1, <1>2, <1>3, <2>2, DataCell
  <2> QED
    BY <2>1, <2>2
<1>7. Fat!OnlyIn(WordsOf(b) \cup WordsOf(c))
  BY <1>4, OthersStay
<1> QED
  BY <1>1, <1>5, <1>6, <1>7 DEF Fat!Move, Fat!Fresh, Fresh

----------------------------------------------------------------------------
(* Stores *)

LEMMA StoreFat ==
  ASSUME NGlobals <= GLOBAL_RESERVE, TypeOK, Store
  PROVE  Fat!Store
<1>1. PICK w \in Usable, p \in blocks \cup {Null} :
        /\ mem' = [mem EXCEPT ![w] = p]
        /\ table' = [table EXCEPT ![Hash(w)] = BoundsOf(p)]
        /\ strays' = strays \ {w}
        /\ blocks' = blocks
  BY DEF Store
<1>2. Running /\ Running' /\ w \in Word /\ mem \in [Word -> Pointer \cup {Data}]
  BY UsableWords DEF Store, Running, TypeOK
<1>3. /\ table'[Hash(w)] = BoundsOf(p)
      /\ \A v \in Word \ {w} : table'[Hash(v)] = table[Hash(v)]
  BY <1>1, <1>2, OneEntry
<1>4. p # Data
  BY ValueAssumption DEF TypeOK
<1>5. Fat!OnlyIn({w})
  <2>1. \A v \in Word \ {w} : Cells'[v] = Cells[v]
    BY <1>1, <1>2, <1>3, SameCell
  <2> QED
    BY <2>1, OthersStay
<1>6. mem'[w] = p /\ w \notin strays'
  BY <1>1, <1>2
<1>7. Cells'[w] = Fat!Own(p)
  BY <1>2, <1>3, <1>4, <1>6, RunningCells DEF OwnCell, Fat!Own, BoundsOf
<1> QED
  BY <1>1, <1>5, <1>7, FatUsable DEF Fat!Store

LEMMA StoreLoadedFat ==
  ASSUME NGlobals <= GLOBAL_RESERVE, TypeOK, StoreLoaded
  PROVE  Fat!Store
<1>1. PICK w \in Usable, v \in Usable :
        /\ mem[v] \in Pointer
        /\ mem' = [mem EXCEPT ![w] = mem[v]]
        /\ table' = [table EXCEPT ![Hash(w)] = table[Hash(v)]]
        /\ strays' = IF v \in strays THEN strays \cup {w} ELSE strays \ {w}
        /\ blocks' = blocks
  BY DEF StoreLoaded
<1>2. Running /\ Running' /\ w \in Word /\ v \in Word /\ mem \in [Word -> Pointer \cup {Data}]
  BY UsableWords DEF StoreLoaded, Running, TypeOK
<1>3. /\ table'[Hash(w)] = table[Hash(v)]
      /\ \A u \in Word \ {w} : table'[Hash(u)] = table[Hash(u)]
  BY <1>1, <1>2, OneEntry
<1>4. Fat!OnlyIn({w})
  <2>1. \A u \in Word \ {w} : Cells'[u] = Cells[u]
    BY <1>1, <1>2, <1>3, SameCell
  <2> QED
    BY <2>1, OthersStay
<1>5. mem'[w] = mem[v] /\ (w \in strays' <=> v \in strays)
  BY <1>1, <1>2
<1>6. Cells'[w] = Cells[v]
  BY <1>2, <1>3, <1>5, RunningCells DEF OwnCell
<1> QED
  BY <1>1, <1>4, <1>6, FatUsable DEF Fat!Store

LEMMA StoreDataFat ==
  ASSUME TypeOK, StoreData
  PROVE  Fat!Store
<1>1. PICK w \in Usable :
        /\ mem' = [mem EXCEPT ![w] = Data]
        /\ strays' = strays \ {w}
        /\ blocks' = blocks /\ table' = table
  BY DEF StoreData
<1>2. Running /\ Running' /\ w \in Word /\ mem \in [Word -> Pointer \cup {Data}]
  BY UsableWords DEF StoreData, Running, TypeOK
<1>3. Fat!OnlyIn({w})
  <2>1. \A v \in Word \ {w} : Cells'[v] = Cells[v]
    BY <1>1, <1>2, SameCell
  <2> QED
    BY <2>1, OthersStay
<1>4. Cells'[w] = Data
  BY <1>1, <1>2, DataCell
<1> QED
  BY <1>1, <1>3, <1>4, FatUsable DEF Fat!Store

----------------------------------------------------------------------------
(* Copies *)

LEMMA MemmoveFat ==
  ASSUME TypeOK, Memmove
  PROVE  Fat!Memmove
<1>1. PICK dst \in Usable, src \in Usable, n \in 1..MaxWords :
        /\ Range(dst, n) \cup Range(src, n) \subseteq Usable
        /\ mem' = Moved(dst, src, n)
        /\ strays' = (strays \cup Range(dst, n)) \cap {w \in Word : mem'[w] # Data}
        /\ blocks' = blocks /\ table' = table
  BY DEF Memmove
<1>2. Running /\ Running' /\ Usable \subseteq Word /\ Word \subseteq Int /\ MaxWords \in Nat
  BY UsableWords, WordsAreInts, LayoutAssumption DEF Memmove, Running
<1>3. dst \in Int /\ src \in Int /\ n \in Nat
  BY <1>2
<1>4. Range(dst, n) \subseteq Word /\ Range(src, n) \subseteq Word
  BY <1>1, <1>2, Zenon
<1>5. Fat!OnlyIn(Range(dst, n))
  <2>1. \A w \in Word \ Range(dst, n) : Cells'[w] = Cells[w]
    BY <1>1, <1>2, SameCell DEF Moved
  <2> QED
    BY <2>1, OthersStay
<1>6. ASSUME NEW w \in Range(dst, n)
      PROVE  Cells'[w] = Fat!Forgets(Cells[src + (w - dst)])
  <2>1. w \in Word /\ src + (w - dst) \in Word
    BY <1>3, <1>4, InRange
  <2>2. mem'[w] = mem[src + (w - dst)] /\ (mem'[w] # Data => w \in strays')
    BY <1>1, <2>1 DEF Moved
  <2> QED
    BY <1>2, <2>1, <2>2, ForgottenCell
<1>7. dst \in Fat!Starts(n) /\ src \in Fat!Starts(n)
  BY <1>1, FatUsable DEF Fat!Starts, Fat!Range, Range
<1>8. Fat!Range(dst, n) = Range(dst, n)
  BY DEF Fat!Range, Range
<1> QED
  BY <1>1, <1>5, <1>6, <1>7, <1>8 DEF Fat!Memmove

\* The words not yet reached, by number.
LEMMA UncopiedWords ==
  ASSUME TypeOK, NEW w
  PROVE  w \in Uncopied <=> \E j \in copy.i..(copy.words - 1) : w = copy.dst + 8 * j
<1>1. copy.i \in Nat /\ copy.words \in Nat /\ copy.dst \in Nat
  BY DEF TypeOK, Copy
<1>2. ASSUME NEW k \in 0..(copy.words - copy.i - 1), w = copy.dst + 8 * copy.i + 8 * k
      PROVE  copy.i + k \in copy.i..(copy.words - 1) /\ w = copy.dst + 8 * (copy.i + k)
  BY <1>1, <1>2
<1>3. ASSUME NEW j \in copy.i..(copy.words - 1), w = copy.dst + 8 * j
      PROVE  j - copy.i \in 0..(copy.words - copy.i - 1)
             /\ w = copy.dst + 8 * copy.i + 8 * (j - copy.i)
  BY <1>1, <1>3
<1> QED
  BY <1>2, <1>3 DEF Uncopied, Range

\* At once, each word of the destination is seen with the bounds of its source.
LEMMA MemcpyFat ==
  ASSUME TypeOK, Memcpy
  PROVE  Fat!Memcpy
<1>1. PICK dst \in Usable, src \in Usable, n \in 1..MaxWords :
        /\ Range(dst, n) \cup Range(src, n) \subseteq Usable
        /\ mem' = Moved(dst, src, n)
        /\ strays' = strays \cup (Range(dst, n) \ Range(src, n))
        /\ copy' = [dst |-> dst, src |-> src, words |-> n, i |-> 0]
        /\ blocks' = blocks /\ table' = table
  BY DEF Memcpy
<1>2. Running /\ Usable \subseteq Word /\ Word \subseteq Int /\ MaxWords \in Nat
  BY UsableWords, WordsAreInts, LayoutAssumption DEF Memcpy
<1>3. dst \in Int /\ src \in Int /\ n \in Nat
  BY <1>2
<1>4. Range(dst, n) \subseteq Word /\ Range(src, n) \subseteq Word
  BY <1>1, <1>2, Zenon
<1>5. /\ copy'.dst = dst /\ copy'.src = src /\ copy'.words = n /\ copy'.i = 0
      /\ ~ Running'
  BY <1>1, <1>2 DEF Running, Idle
<1>6. Uncopied' = Range(dst, n)
  <2>1. dst + 8 * 0 = dst /\ n - 0 = n
    BY <1>3
  <2> QED
    BY <1>5, <2>1 DEF Uncopied
<1>7. \A w \in Word : Cells'[w] = CellOf(w)'
  BY DEF Cells
<1>8. \A w \in Word : Cells[w] = OwnCell(w)
  BY <1>2, RunningCells
<1>9. Fat!OnlyIn(Range(dst, n))
  <2>1. ASSUME NEW w \in Word \ Range(dst, n)
        PROVE  Cells'[w] = Cells[w]
    <3>1. Origin(w)' = w
      BY <1>6, <2>1 DEF Origin
    <3>2. mem'[w] = mem[w] /\ (w \in strays' <=> w \in strays)
      BY <1>1, <2>1 DEF Moved
    <3> QED
      BY <1>1, <1>7, <1>8, <2>1, <3>1, <3>2 DEF CellOf, OwnCell
  <2> QED
    BY <2>1, OthersStay
<1>10. ASSUME NEW w \in Range(dst, n)
       PROVE  Cells'[w] = Cells[src + (w - dst)]
  <2> DEFINE o == src + (w - dst)
  <2>1. w \in Word /\ o \in Word /\ o \in Range(src, n)
    BY <1>3, <1>4, InRange
  <2>2. Origin(w)' = o
    BY <1>5, <1>6 DEF Origin
  <2>3. mem'[w] = mem[o] /\ (o \in strays' <=> o \in strays)
    BY <1>1, <2>1 DEF Moved
  <2> HIDE DEF o
  <2>4. Cells'[w] = Cells[o]
    BY <1>1, <1>7, <1>8, <2>1, <2>2, <2>3 DEF CellOf, OwnCell
  <2> QED
    BY <2>4 DEF o
<1>11. dst \in Fat!Starts(n) /\ src \in Fat!Starts(n)
  BY <1>1, FatUsable DEF Fat!Starts, Fat!Range, Range
<1>12. Fat!Range(dst, n) = Range(dst, n)
  BY DEF Fat!Range, Range
<1> QED
  BY <1>1, <1>9, <1>10, <1>11, <1>12 DEF Fat!Memcpy

\* A turn of the loop writes an entry that is already seen.
LEMMA CopyEntryFat ==
  ASSUME NGlobals <= GLOBAL_RESERVE, FatInv, CopyEntry
  PROVE  Cells' = Cells
<1>0. PICK d, s : d = copy.dst + 8 * copy.i /\ s = copy.src + 8 * copy.i
  OBVIOUS
<1>1. /\ copy.dst \in Nat /\ copy.src \in Nat /\ copy.words \in Nat /\ copy.i \in Nat
      /\ copy.i \in 0..(copy.words - 1)
      /\ TypeOK /\ TypeOK'
  BY CopyTyped DEF CopyEntry, FatInv, KeepInv, TypeOK, Copy
<1>2. d \in Word /\ s \in Word
  BY <1>0, <1>1 DEF TypeOK, Range
<1>3. /\ table' = [table EXCEPT ![Hash(d)] = table[Hash(s)]]
      /\ strays' = IF s \in strays /\ mem[d] # Data THEN strays ELSE strays \ {d}
      /\ mem' = mem
      /\ ~ Running /\ ~ Running'
      /\ copy'.dst = copy.dst /\ copy'.src = copy.src /\ copy'.words = copy.words
      /\ copy'.i = copy.i + 1
  <2>1. copy' = [copy EXCEPT !.i = copy.i + 1] /\ copy \in Copy
    BY <1>1 DEF CopyEntry, TypeOK
  <2>2. /\ copy'.dst = copy.dst /\ copy'.src = copy.src /\ copy'.words = copy.words
        /\ copy'.i = copy.i + 1
    BY <2>1 DEF Copy
  <2>3. copy' # Idle
    BY <1>1, <2>2 DEF Idle
  <2> QED
    BY <1>0, <2>2, <2>3 DEF CopyEntry, Running
<1>4. /\ table'[Hash(d)] = table[Hash(s)]
      /\ \A v \in Word \ {d} : table'[Hash(v)] = table[Hash(v)]
  BY <1>1, <1>2, <1>3, OneEntry
<1>5. \A v \in Word \ {d} : v \in strays' <=> v \in strays
  BY <1>3
<1>6. ASSUME NEW w
      PROVE  /\ w \in Uncopied <=> \E j \in copy.i..(copy.words - 1) : w = copy.dst + 8 * j
             /\ w \in Uncopied' <=>
                  \E j \in (copy.i + 1)..(copy.words - 1) : w = copy.dst + 8 * j
  <2>1. w \in Uncopied <=> \E j \in copy.i..(copy.words - 1) : w = copy.dst + 8 * j
    BY <1>1, UncopiedWords
  <2>2. /\ copy'.i \in Nat /\ copy'.words \in Nat
        /\ Uncopied' = {copy.dst + 8 * (copy.i + 1) + 8 * k :
                          k \in 0..(copy.words - (copy.i + 1) - 1)}
    BY <1>1, <1>3 DEF Uncopied, Range
  <2>3. ASSUME NEW k \in 0..(copy.words - (copy.i + 1) - 1),
               w = copy.dst + 8 * (copy.i + 1) + 8 * k
        PROVE  /\ copy.i + 1 + k \in (copy.i + 1)..(copy.words - 1)
               /\ w = copy.dst + 8 * (copy.i + 1 + k)
    BY <1>1, <2>3
  <2>4. ASSUME NEW j \in (copy.i + 1)..(copy.words - 1), w = copy.dst + 8 * j
        PROVE  /\ j - (copy.i + 1) \in 0..(copy.words - (copy.i + 1) - 1)
               /\ w = copy.dst + 8 * (copy.i + 1) + 8 * (j - (copy.i + 1))
    BY <1>1, <2>4
  <2> QED
    BY <2>1, <2>2, <2>3, <2>4
<1>7. /\ d \in Uncopied /\ d \notin Uncopied'
      /\ \A w : w # d => (w \in Uncopied <=> w \in Uncopied')
  BY <1>0, <1>1, <1>6
<1>8. copy.src + (d - copy.dst) = s
  BY <1>0, <1>1
<1>9. mem[d] = mem[s] /\ (copy.dst = copy.src \/ d \in strays)
  BY <1>0, <1>1 DEF FatInv, KeepInv, CopyInv
<1>10. CellOf(d)' = CellOf(d)
  <2>1. Origin(d) = s /\ Origin(d)' = d
    BY <1>3, <1>7, <1>8 DEF Origin
  <2>2. mem[d] # Data => (d \in strays' <=> s \in strays)
    <3>1. copy.dst = copy.src => d = s
      BY <1>0
    <3> QED
      BY <1>3, <1>9, <3>1
  <2> QED
    BY <1>3, <1>4, <2>1, <2>2 DEF CellOf
<1>11. ASSUME NEW w \in Word \ {d}
       PROVE  CellOf(w)' = CellOf(w)
  <2>1. CASE w \in Uncopied
    <3>1. PICK j \in copy.i..(copy.words - 1) : w = copy.dst + 8 * j
      BY <1>6, <2>1
    <3> DEFINE o == copy.src + (w - copy.dst)
    <3>2. o = copy.src + 8 * j /\ j # copy.i /\ j \in 0..(copy.words - 1)
      BY <1>0, <1>1, <1>11, <3>1
    <3>3. o \in Range(copy.src, copy.words) /\ d \in Range(copy.dst, copy.words)
      BY <1>0, <1>1, <3>2 DEF Range
    <3>4. o # d
      BY <1>0, <1>1, <3>2, <3>3 DEF FatInv, CopyApart
    <3>5. o \in Word
      BY <1>1, <3>3 DEF TypeOK
    <3>6. Origin(w) = o /\ Origin(w)' = o
      BY <1>3, <1>7, <1>11, <2>1 DEF Origin
    <3> HIDE DEF o
    <3> QED
      BY <1>3, <1>4, <1>5, <3>4, <3>5, <3>6 DEF CellOf
  <2>2. CASE w \notin Uncopied
    <3>1. Origin(w) = w /\ Origin(w)' = w
      BY <1>7, <1>11, <2>2 DEF Origin
    <3> QED
      BY <1>3, <1>4, <1>5, <1>11, <3>1 DEF CellOf
  <2> QED
    BY <2>1, <2>2
<1>12. \A w \in Word : CellOf(w)' = CellOf(w)
  BY <1>10, <1>11
<1> QED
  BY <1>12 DEF Cells

LEMMA CopyDoneFat ==
  ASSUME FatInv, CopyDone
  PROVE  Cells' = Cells
<1>1. /\ TypeOK /\ copy.i = copy.words /\ copy.i \in Nat
      /\ Running' /\ UNCHANGED <<mem, table, strays>>
  BY DEF FatInv, KeepInv, TypeOK, Copy, CopyDone, Running
<1>2. \A w : w \notin Uncopied
  BY <1>1, UncopiedWords
<1>3. \A w \in Word : CellOf(w)' = CellOf(w)
  BY <1>1, <1>2 DEF CellOf, Origin
<1> QED
  BY <1>3 DEF Cells

----------------------------------------------------------------------------
(* The refinement *)

LEMMA InitFat == Init => Fat!Init /\ FatInv
<1> SUFFICES ASSUME Init PROVE Fat!Init /\ FatInv
  OBVIOUS
<1>1. KeepInv
  <2>1. PointersKeepBounds /\ CopyInv
    BY DataIsNoPointer DEF Init, PointersKeepBounds, CopyInv, Idle
  <2> QED
    BY <2>1, InitTyped DEF KeepInv
<1>2. CopyApart
  BY DEF Init, Idle, CopyApart
<1>3. Fat!Init
  BY DEF Init, Fat!Init, Cells, CellOf
<1> QED
  BY <1>1, <1>2, <1>3 DEF FatInv

LEMMA NextFatInv ==
  ASSUME NGlobals <= GLOBAL_RESERVE, FatInv, [Next]_vars
  PROVE  FatInv'
<1>1. KeepInv'
  BY NextKeeps DEF FatInv
<1>2. CopyApart'
  <2>1. CASE Memcpy
    BY <2>1 DEF Memcpy, CopyApart
  <2>2. CASE CopyDone
    BY <2>2 DEF CopyDone, Idle, CopyApart
  <2>3. CASE CopyEntry
    <3>1. copy' = [copy EXCEPT !.i = copy.i + 1] /\ copy \in Copy
      BY <2>3 DEF CopyEntry, FatInv, KeepInv, TypeOK
    <3>2. copy'.dst = copy.dst /\ copy'.src = copy.src /\ copy'.words = copy.words
      BY <3>1 DEF Copy
    <3> QED
      BY <3>2 DEF FatInv, CopyApart
  <2>4. CASE UNCHANGED copy
    BY <2>4 DEF FatInv, CopyApart
  <2> QED
    BY <2>1, <2>2, <2>3, <2>4 DEF Next, Malloc, Calloc, Free, Resize, Move, Store,
       StoreLoaded, StoreData, Memmove, vars
<1> QED
  BY <1>1, <1>2 DEF FatInv

LEMMA NextFat ==
  ASSUME NGlobals <= GLOBAL_RESERVE, FatInv, [Next]_vars
  PROVE  [Fat!Next]_(Fat!vars)
<1>1. TypeOK
  BY DEF FatInv, KeepInv
<1>2. CASE Malloc \/ Calloc \/ Free \/ Resize \/ Move
  BY <1>1, <1>2, MallocFat, CallocFat, FreeFat, ResizeFat, MoveFat DEF Fat!Next
<1>3. CASE Store \/ StoreLoaded \/ StoreData
  BY <1>1, <1>3, StoreFat, StoreLoadedFat, StoreDataFat DEF Fat!Next
<1>4. CASE Memmove \/ Memcpy
  BY <1>1, <1>4, MemmoveFat, MemcpyFat DEF Fat!Next
<1>5. CASE CopyEntry
  BY <1>5, CopyEntryFat DEF CopyEntry, Fat!vars
<1>6. CASE CopyDone
  BY <1>6, CopyDoneFat DEF CopyDone, Fat!vars
<1>7. CASE UNCHANGED vars
  <2>1. Cells' = Cells
    BY <1>7 DEF vars, Cells, CellOf, Origin, Uncopied, Running
  <2> QED
    BY <1>7, <2>1 DEF vars, Fat!vars
<1> QED
  BY <1>2, <1>3, <1>4, <1>5, <1>6, <1>7 DEF Next

\* The program sees memory in which a pointer and its bounds are one word, and
\* a memcpy is one step: no layout, no order of allocations, stores and copies
\* makes a step that FatMemory does not have, as long as the globals fit into
\* the entries kept for them.
THEOREM TableIsFatMemory == NGlobals <= GLOBAL_RESERVE /\ Spec => ImplementsFatMemory
<1>1. CASE NGlobals <= GLOBAL_RESERVE
  <2>1. FatInv /\ [Next]_vars => FatInv' /\ [Fat!Next]_(Fat!vars)
    BY <1>1, NextFatInv, NextFat
  <2> QED
    BY <2>1, InitFat, PTL DEF Spec, ImplementsFatMemory, Fat!Spec
<1> QED
  BY <1>1
==========================================================================
