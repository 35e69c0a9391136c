----------------------------- MODULE Regions -----------------------------
(***************************************************************************)
(* What runOnModule does to one function once the analysis has decided     *)
(* what is sensitive: Sandboxer, MemoryRegioner and BoundsAnalysis, in the *)
(* order in which they run.                                                *)
(*                                                                         *)
(* They share the set of sensitive values.  The sandboxer reads it, the    *)
(* regioner replaces instructions and adds to it, and the bounds analysis  *)
(* reads what has become of it.  The other functions of the module were    *)
(* told what is sensitive by the set as the analysis left it, prog.sens.   *)
(*                                                                         *)
(* Every phase goes over the instructions once and none of its decisions   *)
(* depends on their order, so a phase is one step.  An instruction that is *)
(* replaced keeps its name here; it is sensitive afterwards only if the    *)
(* code inserts the replacement.                                           *)
(***************************************************************************)
EXTENDS Integers, Sequences, FiniteSets

CONSTANTS
  Param,     \* parameters of the function
  Global,    \* global variables
  Null,      \* a literal constant
  Programs   \* the functions to transform, each with its sensitive values

\* "malloc" stands for all allocators but the two below it, "gep" for casts,
\* address arithmetic and other instructions with one pointer operand, "call"
\* for a call of a function with a body, "extern" for one without.
Heap    == {"malloc", "realloc", "strdup", "free"}
Access  == {"load", "store"}
Derived == {"gep", "phi"}
Calls   == {"call", "extern", "setjmp"}
Op      == Heap \cup Access \cup Derived \cup Calls
             \cup {"alloca", "mmap", "strerror", "memcpy", "ret"}
NoValue == {"free", "store", "memcpy", "ret"}

\* The value of an instruction is its position.
Value == Nat \cup Param \cup Global \cup {Null}
Instr == [op : Op, args : Seq(Value)]

Program == [code : Seq(Instr), byval : SUBSET Param, ints : SUBSET Param,
            mode : {"both", "integrity", "confidentiality"}, sens : SUBSET Value]

Args(ins) == {ins.args[j] : j \in DOMAIN ins.args}

\* propagateSensitivity has left the set closed.  Calls tie nothing together,
\* except memcpy its two pointers.
ClosedSet(p) ==
  /\ Null \notin p.sens
  /\ \A k \in DOMAIN p.code :
       LET ins == p.code[k] IN
       /\ ins.op \in Access \cup Derived \cup {"alloca", "ret"} =>
            (Args(ins) \cup {k}) \cap p.sens = {} \/ (Args(ins) \ {Null}) \cup {k} \subseteq p.sens
       /\ ins.op = "memcpy" =>
            (ins.args[1] \in p.sens <=> ins.args[2] \in p.sens)

Arity == [op \in Op |->
            CASE op \in {"alloca", "mmap", "strerror"} -> {0}
              [] op \in {"store", "phi", "memcpy", "realloc"} -> {2}
              [] op \in {"call", "extern"} -> Nat
              [] OTHER -> {1}]

\* Instructions are in SSA form; a size is an integer, and nothing but a size.
WellFormed(p) ==
  \A k \in DOMAIN p.code :
    LET ins == p.code[k] IN
    /\ Len(ins.args) \in Arity[ins.op]
    /\ \A j \in DOMAIN ins.args :
         /\ ins.args[j] \in Nat =>
              ins.args[j] \in 1..(k - 1) /\ p.code[ins.args[j]].op \notin NoValue
         /\ ins.op \notin {"call", "extern", "ret"} =>
              (ins.args[j] \in p.ints
                 => <<ins.op, j>> \in {<<"malloc", 1>>, <<"realloc", 2>>})

ASSUME NamesAssumption ==
  /\ Param \cap Global = {} /\ Null \notin Param \cup Global
  /\ (Param \cup Global \cup {Null}) \cap Nat = {}

ASSUME ProgramsAssumption ==
  /\ Programs \subseteq Program
  /\ \A p \in Programs : WellFormed(p) /\ ClosedSet(p)

VARIABLES
  prog,     \* the function, and the sensitive values the analysis found
  pc,       \* the next phase of runOnModule
  sens,     \* sensitiveSet
  region,   \* the heap an instruction allocates from or frees to, after replacement
  masked,   \* loads and stores with a masked pointer
  frees,    \* the stack objects freed in front of each return
  copied,   \* the byval parameters replaced by a copy on the safe heap
  entries,  \* boundsMap: the allocations with bounds
  passed,   \* <<call, argument>>, or <<return, 0>>: bounds put into a slot
  fetched,  \* the calls and parameters whose bounds are taken from a slot
  checked,  \* loads and stores behind a bounds check
  moved     \* the memcpys followed by a copy of the metadata

vars == <<prog, pc, sens, region, masked, frees, copied, entries, passed,
          fetched, checked, moved>>

Phases == {"allocators", "masks", "libc", "stack", "heap", "byval", "bounds",
           "stores", "checks", "copies", "done", "unreachable"}

----------------------------------------------------------------------------
(* The function *)

Pos    == DOMAIN prog.code
OpOf(k)  == prog.code[k].op
ArgsOf(k) == Args(prog.code[k])

Are(ops) == {k \in Pos : OpOf(k) \in ops}

Users(X) == {k \in Pos : ArgsOf(k) \cap X # {}}

\* getPointerOperand
Ptr(k) == prog.code[k].args[IF OpOf(k) = "store" THEN 2 ELSE 1]

\* The values a value is computed from, itself included: the recursion of
\* getBasedOnValue, and of getOrLoadBounds where values meet in a phi.
derivation[k \in Pos] ==
  {k} \cup (IF OpOf(k) \in Derived
           THEN UNION {IF a \in Pos THEN derivation[a] ELSE {a} : a \in ArgsOf(k)} ELSE {})

Derivation(x) == IF x \in Pos THEN derivation[x] ELSE {x}

\* Where it ends.
getBasedOnValue(x) == Derivation(x) \ Are(Derived)

BasedOn(X) == UNION {getBasedOnValue(x) : x \in X}

\* A moved stack object is a call of __ds_safe_malloc.
IsAllocation(k) ==
  \/ OpOf(k) \in Heap \ {"free"}
  \/ OpOf(k) = "alloca" /\ region[k] = "safe"

isAnyOperandSensitive(k) == (ArgsOf(k) \cup {k}) \cap sens # {}

Unreachable(changed) ==
  /\ pc' = "unreachable"
  /\ UNCHANGED changed

----------------------------------------------------------------------------
(* The phases *)

Init ==
  /\ prog \in Programs
  /\ pc = "allocators"
  /\ sens = prog.sens
  /\ region = [k \in Pos |-> "none"]
  /\ frees = [k \in Are({"ret"}) |-> {}]
  /\ masked = {} /\ copied = {} /\ entries = {} /\ passed = {}
  /\ fetched = {} /\ checked = {} /\ moved = {}

\* replaceAllByNameWith: every allocator is first the unsafe one.
replaceAllByNameWith ==
  /\ pc = "allocators"
  /\ region' = [k \in Pos |-> IF OpOf(k) \in Heap THEN "unsafe" ELSE region[k]]
  /\ pc' = "masks"
  /\ UNCHANGED <<prog, sens, masked, frees, copied, entries, passed, fetched, checked, moved>>

\* The accesses the mode protects.
Sandboxed == Are(CASE prog.mode = "integrity" -> {"store"}
                   [] prog.mode = "confidentiality" -> {"load"}
                   [] OTHER -> Access)

shouldMask(k) == Ptr(k) \notin sens \cup Global

\* The masked instruction is a new one, which is not inserted.
insertPointerMasks ==
  /\ pc = "masks"
  /\ masked' = {k \in Sandboxed : shouldMask(k)}
  /\ sens' = sens \ masked'
  /\ pc' = "libc"
  /\ UNCHANGED <<prog, region, frees, copied, entries, passed, fetched, checked, moved>>

\* mmap is replaced unless its result is sensitive, strerror if it is; neither
\* replacement is inserted.
replaceCFuncsThatAlloc ==
  /\ pc = "libc"
  /\ LET maps   == Are({"mmap"}) \ sens
         errors == Are({"strerror"}) \cap sens
     IN /\ region' = [k \in Pos |-> IF k \in maps THEN "unsafe"
                                    ELSE IF k \in errors THEN "safe" ELSE region[k]]
        /\ sens' = sens \ (maps \cup errors)
  /\ pc' = "stack"
  /\ UNCHANGED <<prog, masked, frees, copied, entries, passed, fetched, checked, moved>>

sensitiveAllocas == Are({"alloca"}) \cap sens

\* Wrong: only the first return frees.
moveSensitiveAllocsToHeap_FirstReturn ==
  /\ pc = "stack"
  /\ IF sensitiveAllocas # {} /\ Are({"setjmp"}) # {}
     THEN Unreachable(<<sens, region, frees>>)
     ELSE /\ region' = [k \in Pos |-> IF k \in sensitiveAllocas THEN "safe" ELSE region[k]]
          /\ sens' = sens \cup Users(sensitiveAllocas)
          /\ frees' = [r \in Are({"ret"}) |->
                         IF \E q \in Are({"ret"}) : q < r THEN {} ELSE sensitiveAllocas]
          /\ pc' = "heap"
  /\ UNCHANGED <<prog, masked, copied, entries, passed, fetched, checked, moved>>

moveSensitiveAllocsToHeap ==
  /\ pc = "stack"
  /\ IF sensitiveAllocas # {} /\ Are({"setjmp"}) # {}
     THEN Unreachable(<<sens, region, frees>>)
     ELSE /\ region' = [k \in Pos |-> IF k \in sensitiveAllocas THEN "safe" ELSE region[k]]
          /\ sens' = sens \cup Users(sensitiveAllocas)
          /\ frees' = [r \in Are({"ret"}) |-> sensitiveAllocas]
          /\ pc' = "heap"
  /\ UNCHANGED <<prog, masked, copied, entries, passed, fetched, checked, moved>>

\* Wrong: only the result is looked at, and a free has none.
Collected_ByResult == {k \in Pos : (IsAllocation(k) \/ OpOf(k) = "free") /\ k \in sens}

Collected == {k \in Pos : (IsAllocation(k) \/ OpOf(k) = "free") /\ isAnyOperandSensitive(k)}

\* All are collected before the first is replaced.  strdup is __ds_unsafe_strdup
\* by now, which getSafeReplacementForAllocationOrFree does not know.
replaceAllocationsWithSafe ==
  /\ pc = "heap"
  /\ IF \E k \in Collected : OpOf(k) = "strdup"
     THEN Unreachable(<<sens, region>>)
     ELSE /\ region' = [k \in Pos |-> IF k \in Collected THEN "safe" ELSE region[k]]
          /\ sens' = sens \cup Collected \cup Users(Collected)
          /\ pc' = "byval"
  /\ UNCHANGED <<prog, masked, frees, copied, entries, passed, fetched, checked, moved>>

\* Wrong: every object passed by value is copied.
replaceByValSensitiveArguments_All ==
  /\ pc = "byval"
  /\ copied' = prog.byval
  /\ sens' = sens \cup Users(copied')
  /\ pc' = "bounds"
  /\ UNCHANGED <<prog, region, masked, frees, entries, passed, fetched, checked, moved>>

\* Wrong: there is no such phase.
replaceByValSensitiveArguments_Skipped ==
  /\ pc = "byval"
  /\ pc' = "bounds"
  /\ UNCHANGED <<prog, sens, region, masked, frees, copied, entries, passed, fetched,
                 checked, moved>>

replaceByValSensitiveArguments ==
  /\ pc = "byval"
  /\ copied' = prog.byval \cap sens
  /\ sens' = sens \cup Users(copied')
  /\ pc' = "bounds"
  /\ UNCHANGED <<prog, region, masked, frees, entries, passed, fetched, checked, moved>>

\* Wrong: what is sensitive is not asked whether it allocates.
createBoundsForAllocations_Everything ==
  /\ pc = "bounds"
  /\ entries' = sens
  /\ pc' = "stores"
  /\ UNCHANGED <<prog, sens, region, masked, frees, copied, passed, fetched, checked, moved>>

\* Wrong: the allocators are those there were before the stack objects moved.
createBoundsForAllocations_HeapOnly ==
  /\ pc = "bounds"
  /\ entries' = sens \cap Are({"malloc", "realloc"})
  /\ pc' = "stores"
  /\ UNCHANGED <<prog, sens, region, masked, frees, copied, passed, fetched, checked, moved>>

\* findSensitiveAllocations and createBoundsForAllocations.
createBoundsForAllocations ==
  /\ pc = "bounds"
  /\ entries' = {k \in sens \cap Pos : (IsAllocation(k) \/ OpOf(k) = "alloca")
                                          /\ OpOf(k) # "strdup"}
  /\ pc' = "stores"
  /\ UNCHANGED <<prog, sens, region, masked, frees, copied, passed, fetched, checked, moved>>

\* getOrLoadBoundsFromBasedOn has bounds for the base of every value in X:
\* allocations have an entry, globals infinite bounds, other bases take theirs from
\* a slot or from memory.
HaveBounds(X) ==
  \A b \in BasedOn(X) \cap Pos : IsAllocation(b) \/ OpOf(b) = "alloca" => b \in entries

\* A parameter passed by value and copied is an allocation by now.
FromSlots(X) ==
  {b \in BasedOn(X) : \/ b \in Param \ copied
                      \/ b \in Pos /\ OpOf(b) \in Calls \cup {"mmap", "strerror"}}

Pointers(X) == X \ prog.ints

storedWithBounds ==
  {prog.code[k].args[1] : k \in {s \in Are({"store"}) : ArgsOf(s) \cap sens # {}}}

\* Wrong: the position is not counted on past an integer.
argSlots_NoIncrement ==
  UNION {{<<k, Cardinality({i \in 1..j : prog.code[k].args[i] \notin prog.ints})>> :
            j \in {i \in DOMAIN prog.code[k].args : prog.code[k].args[i] \in Pointers(sens)}} :
         k \in Are({"call"})}

\* The arguments of calls that get bounds, by position.  A literal null, which may
\* get the empty ones, is left to CallBounds.
argSlots ==
  UNION {{k} \X {j \in DOMAIN prog.code[k].args : prog.code[k].args[j] \in Pointers(sens)} :
         k \in Are({"call"})}

returnSlots == {<<k, 0>> : k \in {r \in Are({"ret"}) : prog.code[r].args[1] \in Pointers(sens)}}

\* A pointer is stored, passed to a function with a body, or returned.
insertBoundsStores ==
  /\ pc = "stores"
  /\ LET users == Pointers(storedWithBounds)
                     \cup {prog.code[s[1]].args[s[2]] : s \in argSlots}
                     \cup {prog.code[s[1]].args[1] : s \in returnSlots}
     IN IF ~HaveBounds(users)
        THEN Unreachable(<<passed, fetched>>)
        ELSE /\ passed' = argSlots \cup returnSlots
             /\ fetched' = FromSlots(users)
             /\ pc' = "checks"
  /\ UNCHANGED <<prog, sens, region, masked, frees, copied, entries, checked, moved>>

needsBounds == {k \in Are(Access) : Ptr(k) \in sens \ Global}

\* Wrong: one global among the bases is enough.
hasInfiniteBounds_AnyBase(x) == getBasedOnValue(x) \cap Global # {}

\* A global has infinite bounds, and what is derived from it alone has them too.
\* Where values meet, the bounds are new ones, selected when the program runs.
hasInfiniteBounds(x) ==
  getBasedOnValue(x) \subseteq Global /\ Derivation(x) \cap Are({"phi"}) = {}

\* insertInLineBoundsCheck returns early for infinite bounds.
insertBoundsChecks ==
  /\ pc = "checks"
  /\ LET users == {Ptr(k) : k \in needsBounds} IN
     IF ~HaveBounds(users)
     THEN Unreachable(<<checked, fetched>>)
     ELSE /\ checked' = {k \in needsBounds : ~hasInfiniteBounds(Ptr(k))}
          /\ fetched' = fetched \cup FromSlots(users)
          /\ pc' = "copies"
  /\ UNCHANGED <<prog, sens, region, masked, frees, copied, entries, passed, moved>>

\* Wrong: it asks for bounds of the destination, which only allocations have.
metadataCopy_OfAllocations ==
  /\ pc = "copies"
  /\ moved' = {k \in Are({"memcpy"}) : prog.code[k].args[1] \in entries}
  /\ pc' = "done"
  /\ UNCHANGED <<prog, sens, region, masked, frees, copied, entries, passed, fetched, checked>>

\* The loop over llvm.memcpy at the end of runOnModule.
metadataCopy ==
  /\ pc = "copies"
  /\ moved' = {k \in Are({"memcpy"}) : prog.code[k].args[1] \in sens}
  /\ pc' = "done"
  /\ UNCHANGED <<prog, sens, region, masked, frees, copied, entries, passed, fetched, checked>>

Ended == pc \in {"done", "unreachable"} /\ UNCHANGED vars

Next ==
  \/ replaceAllByNameWith
  \/ insertPointerMasks
  \/ replaceCFuncsThatAlloc
  \/ moveSensitiveAllocsToHeap
  \/ replaceAllocationsWithSafe
  \/ replaceByValSensitiveArguments
  \/ createBoundsForAllocations
  \/ insertBoundsStores
  \/ insertBoundsChecks
  \/ metadataCopy
  \/ Ended

Spec == Init /\ [][Next]_vars

----------------------------------------------------------------------------
(* Properties *)

\* Type correctness.
TypeOK ==
  /\ prog \in Program
  /\ pc \in Phases
  /\ sens \subseteq prog.sens \cup Pos
  /\ region \in [Pos -> {"none", "unsafe", "safe"}]
  /\ masked \subseteq Are(Access)
  /\ frees \in [Are({"ret"}) -> SUBSET Are({"alloca"})]
  /\ copied \subseteq prog.byval
  /\ entries \subseteq Pos
  /\ passed \subseteq Pos \X Nat
  /\ fetched \subseteq Param \cup Pos
  /\ checked \subseteq Are(Access)
  /\ moved \subseteq Pos

\* The values whose sensitivity has changed since the analysis told the other
\* functions of it, those nobody uses left out.
Shifted ==
  {k \in Pos : (k \in sens) # (k \in prog.sens) /\ OpOf(k) \notin NoValue /\ Users({k}) # {}}

\* What MemoryRegioner replaces.
Objects == prog.sens \cap (Are(Heap \cup {"alloca"}) \cup prog.byval)

\* Sensitivity ends at no used result: an ordinary call, of a function with a body
\* or without one, takes no sensitive object, an ordinary allocation nothing
\* sensitive, and no sensitive result is replaced by an instruction that is not
\* inserted.
Contained ==
  \A k \in Pos : Users({k}) # {} =>
    /\ OpOf(k) \in Calls /\ k \notin prog.sens => ArgsOf(k) \cap Objects = {}
    /\ OpOf(k) \in Heap /\ k \notin prog.sens => ArgsOf(k) \cap prog.sens = {}
    /\ k \in prog.sens => OpOf(k) # "strerror" /\ ~ (k \in Sandboxed /\ Ptr(k) = Null)

\* The set the phases pass on is the one the analysis left exactly in the functions
\* that contain it: in them no phase, at any time, decides by other values than
\* those the rest of the module was told of, and in the others one of them has.
SetIsKept ==
  /\ Contained => Shifted = {}
  /\ pc = "done" /\ Shifted = {} => Contained

\* Where a base points when the program runs.  What comes from elsewhere is
\* where the other functions put what the analysis calls sensitive.
InSafeRegion(b) ==
  IF b \in Pos
  THEN IF IsAllocation(b) \/ OpOf(b) \in {"alloca", "mmap", "strerror"}
       THEN region[b] = "safe" ELSE b \in prog.sens
  ELSE IF b \in prog.byval THEN b \in copied ELSE b \in prog.sens

\* A sensitive mmap stays where it is: there is no safe one.
Steady(x) ==
  Derivation(x) \cap (Shifted \cup (Are({"mmap"}) \cap prog.sens)) = {}

\* An access through a pointer into the safe region is never masked, and checked
\* if the pointer may be to anything but a global; any other one is masked if the
\* mode protects it and never checked: although masks, regions and checks are
\* decided by three phases that read different states of the set.  Pointers whose
\* sensitivity has shifted are left out.
GuardMatchesRegion ==
  pc = "done" =>
    \A k \in Are(Access) : Ptr(k) \notin Global /\ Steady(Ptr(k)) =>
      \A b \in getBasedOnValue(Ptr(k)) \ {Null} :
        IF InSafeRegion(b)
        THEN k \notin masked /\ (b \notin Global => k \in checked)
        ELSE k \notin checked /\ (k \in masked <=> k \in Sandboxed)

\* A heap gets back what it has handed out: free and realloc use the heap their
\* pointer comes from.  Left out are shifted pointers and sizes, and a realloc of
\* which the result or the size is sensitive and the pointer is not.
FreesMatchRegions ==
  pc = "done" =>
    \A k \in Are({"free", "realloc"}) :
      LET x == prog.code[k].args[1] IN
      /\ \A y \in ArgsOf(k) : Steady(y)
      /\ x \in prog.sens \/ (ArgsOf(k) \cup {k}) \cap prog.sens = {}
      => \A b \in getBasedOnValue(x) \ {Null} : (region[k] = "safe") = InSafeRegion(b)

\* No sensitive object stays on the stack, each one that has moved has bounds, and
\* every return frees it once.
StackObjectsMoved ==
  pc = "done" =>
    \A k \in Are({"alloca"}) \cap prog.sens :
      /\ region[k] = "safe"
      /\ k \in entries
      /\ \A r \in Are({"ret"}) : k \in frees[r]

\* The function keeps to what the analysis told its callers and callees: it puts
\* into a slot the bounds of exactly the pointers they take from one, and takes
\* only what they put there.  CallBounds assumes this of every function.
SlotsAgree ==
  pc = "done" /\ Contained =>
    /\ \A k \in Are({"call"}) : \A j \in DOMAIN prog.code[k].args :
         <<k, j>> \in passed <=> prog.code[k].args[j] \in Pointers(prog.sens)
    /\ \A r \in Are({"ret"}) :
         <<r, 0>> \in passed <=> prog.code[r].args[1] \in Pointers(prog.sens)
    /\ \A s \in passed :
         \/ OpOf(s[1]) = "call" /\ s[2] \in DOMAIN prog.code[s[1]].args
         \/ OpOf(s[1]) = "ret" /\ s[2] = 0
    /\ fetched \subseteq prog.sens

\* A copy between safe objects takes the metadata with it, from and to whatever
\* the pointers were derived from; derived from nothing but null, they were not
\* objects.
CopiesTakeMetadata ==
  pc = "done" =>
    \A k \in Are({"memcpy"}) :
      (\A x \in ArgsOf(k) : Steady(x)) /\ BasedOn(ArgsOf(k)) \ {Null} # {} =>
      (k \in moved <=> \E b \in BasedOn(ArgsOf(k)) : InSafeRegion(b))

\* What __ds_mask_debug asserts with "we tried to mask a sensitive pointer?": no
\* masked pointer points into the safe region.
MaskedPointersStayLow ==
  pc = "done" =>
    \A k \in masked : \A b \in getBasedOnValue(Ptr(k)) \ {Null} : ~InSafeRegion(b)

\* The pass gives up only on a sensitive strdup, on sensitive stack objects next
\* to a setjmp, and where sensitivity has shifted: "all malloc like fn should be
\* in bounds map" is true of every other function.
GivesUpOnlyHere ==
  pc = "unreachable" =>
    \/ \E k \in Are({"strdup"}) : (ArgsOf(k) \cup {k}) \cap sens # {}
    \/ Are({"setjmp"}) # {} /\ Are({"alloca"}) \cap prog.sens # {}
    \/ Shifted # {}
=============================================================================
