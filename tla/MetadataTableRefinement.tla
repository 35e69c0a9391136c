-------------------- MODULE MetadataTableRefinement ----------------------
(***************************************************************************)
(* The table implements memory whose words carry bounds.  The mapping      *)
(* reads, for each word that holds a pointer, the entry it hashes to; for  *)
(* a word whose entry a copy has still to write, that of its source: the   *)
(* loop of __ds_metadata_copy finishes what the memcpy has done.           *)
(***************************************************************************)
EXTENDS MetadataTable

CONSTANT Unknown

ASSUME UnknownAssumption ==
  /\ Unknown \notin Bounds
  /\ Data \notin [ptr : Pointer, bounds : Bounds \cup {Unknown}]

\* Words the loop of __ds_metadata_copy has not reached.
Uncopied == Range(copy.dst + 8 * copy.i, copy.words - copy.i)

\* The word whose entry tells the bounds of what is in w.
Origin(w) == IF ~ Running /\ w \in Uncopied THEN copy.src + (w - copy.dst) ELSE w

CellOf(w) ==
  IF mem[w] = Data THEN Data
  ELSE LET o == Origin(w) IN
       [ptr |-> mem[w], bounds |-> IF o \in strays THEN Unknown ELSE table[Hash(o)]]

Cells == [w \in Word |-> CellOf(w)]

Fat == INSTANCE FatMemory WITH cells <- Cells

\* A program sees memory in which bounds travel with pointers: no store, copy,
\* allocation or release changes the bounds of another word's pointer, and a
\* memcpy carries all of them, however its loop and the table's layout go.
ImplementsFatMemory == Fat!Spec
==========================================================================
