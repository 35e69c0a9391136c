--------------------------- MODULE FatMemory -----------------------------
(***************************************************************************)
(* What the metadata table promises: memory behaves as if a pointer and    *)
(* its bounds were stored in one word, and copied as one.  No hash, no     *)
(* entries, and a memcpy is one step.                                      *)
(*                                                                         *)
(* The promise has gaps, and they are part of it: calloc, memmove and a    *)
(* realloc that moves the block leave the bounds of what they write        *)
(* Unknown, and they stay so until the word is written again.              *)
(*                                                                         *)
(* Module MetadataTable is the mechanism (MetadataTableRefinement).        *)
(***************************************************************************)
EXTENDS Integers

CONSTANTS
  Word,             \* addresses of the words that may hold pointers
  GlobalWord,       \* those in global variables
  Block, WordsOf(_),\* the blocks there may be, and the words of each
  MaxWords,         \* bound: words copied at once
  Null, Data,       \* the null pointer; anything that is no pointer
  Empty, Unknown    \* the bounds of Null; bounds nothing is known of

VARIABLES
  blocks,   \* the blocks allocated
  cells     \* a fat pointer, or Data, for each word

vars == <<blocks, cells>>

\* A pointer with its own bounds, and with some others.
Own(p)     == [ptr |-> p, bounds |-> IF p = Null THEN Empty ELSE p]
Forgets(c) == IF c = Data THEN Data ELSE [c EXCEPT !.bounds = Unknown]

Usable == GlobalWord \cup UNION {WordsOf(b) : b \in blocks}
Fresh(b, others) == \A c \in others : WordsOf(b) \cap WordsOf(c) = {}
Range(w, n) == {w + 8 * k : k \in 0..(n - 1)}

\* Where n words in a row may be used.
Starts(n) == {w \in Usable : Range(w, n) \subseteq Usable}

\* Nothing but the words of W is written (what they get is said beside it), and
\* cells remains a function of the words.
OnlyIn(W) ==
  /\ \A w \in Word \ W : cells'[w] = cells[w]
  /\ cells' = [w \in Word |-> cells'[w]]

Fill(W, c) == OnlyIn(W) /\ \A w \in W : cells'[w] = c

Init ==
  /\ blocks = {}
  /\ cells = [w \in Word |-> Data]

Malloc ==
  \E b \in Block :
    /\ Fresh(b, blocks)
    /\ blocks' = blocks \cup {b}
    /\ Fill(WordsOf(b), Data)

Calloc ==
  \E b \in Block :
    /\ Fresh(b, blocks)
    /\ blocks' = blocks \cup {b}
    /\ Fill(WordsOf(b), Forgets(Own(Null)))

Free ==
  \E b \in blocks :
    /\ blocks' = blocks \ {b}
    /\ Fill(WordsOf(b), Data)

\* A block that stays where it is keeps the bounds in it ...
Resize ==
  \E b \in blocks : \E c \in Block :
    /\ c.base = b.base
    /\ Fresh(c, blocks \ {b})
    /\ blocks' = (blocks \ {b}) \cup {c}
    /\ Fill((WordsOf(b) \cup WordsOf(c)) \ (WordsOf(b) \cap WordsOf(c)), Data)

\* ... and one that moves does not.
Move ==
  \E b \in blocks : \E c \in Block :
    /\ Fresh(c, blocks)
    /\ blocks' = (blocks \ {b}) \cup {c}
    /\ OnlyIn(WordsOf(b) \cup WordsOf(c))
    /\ \A w \in WordsOf(b) : cells'[w] = Data
    /\ \A w \in WordsOf(c) :
         cells'[w] = IF w - c.base < 8 * b.words
                     THEN Forgets(cells[b.base + (w - c.base)]) ELSE Data

\* A store of no pointer, of one the program has the bounds of, or of one it
\* has loaded.
Store ==
  /\ UNCHANGED blocks
  /\ \E w \in Usable :
       /\ OnlyIn({w})
       /\ cells'[w] \in {Data} \cup {Own(p) : p \in blocks \cup {Null}}
                          \cup {cells[v] : v \in Usable}

Memmove ==
  /\ UNCHANGED blocks
  /\ \E n \in 1..MaxWords : \E dst \in Starts(n) :
       /\ OnlyIn(Range(dst, n))
       /\ \E src \in Starts(n) :
            \A w \in Range(dst, n) : cells'[w] = Forgets(cells[src + (w - dst)])

Memcpy ==
  /\ UNCHANGED blocks
  /\ \E n \in 1..MaxWords : \E dst \in Starts(n) :
       /\ OnlyIn(Range(dst, n))
       /\ \E src \in Starts(n) :
            \A w \in Range(dst, n) : cells'[w] = cells[src + (w - dst)]

Next ==
  \/ Store
  \/ Memcpy
  \/ Memmove
  \/ Malloc
  \/ Calloc
  \/ Free
  \/ Resize
  \/ Move

Spec == Init /\ [][Next]_vars
==========================================================================
