-------------------------- MODULE Regions_proofs ---------------------------
(***************************************************************************)
(* Proofs about Regions, for functions of any length over the instructions *)
(* of Op.                                                                  *)
(***************************************************************************)
EXTENDS Regions, WellFoundedInduction, TLAPS

----------------------------------------------------------------------------
(* Induction over the positions of a function: a set of naturals has a least *)
(* element.                                                                 *)

Smaller == {ss \in Nat \X Nat : ss[1] < ss[2]}

LEMMA LeastNatural ==
  ASSUME NEW S \in SUBSET Nat, S # {}
  PROVE  \E n \in S : \A m \in S : n <= m
<1>1. IsWellFoundedOn(Smaller, Nat)
  BY NatLessThanWellFounded DEF OpToRel, Smaller
<1>2. PICK n \in S : \A m \in S : <<m, n>> \notin Smaller
  BY <1>1, WFMin
<1>3. ASSUME NEW m \in S PROVE n <= m
  <2>1. n \in Nat /\ m \in Nat
    OBVIOUS
  <2>2. ~ (m < n)
    BY <1>2, <2>1 DEF Smaller
  <2> QED BY <2>1, <2>2
<1> QED BY <1>3

----------------------------------------------------------------------------
(* The shape of a function *)

\* What a well-formed function gives for each instruction.
LEMMA Shape ==
  ASSUME prog \in Programs
  PROVE  /\ prog \in Program
         /\ Pos = 1..Len(prog.code) /\ Len(prog.code) \in Nat
         /\ \A k \in Pos : prog.code[k] \in Instr /\ OpOf(k) \in Op
         /\ prog.sens \subseteq Value /\ Null \notin prog.sens
         /\ prog.byval \subseteq Param
<1>1. prog \in Program /\ ClosedSet(prog)
  BY ProgramsAssumption
<1>2. prog.code \in Seq(Instr)
  BY <1>1 DEF Program
<1>3. Pos = 1..Len(prog.code) /\ Len(prog.code) \in Nat
  BY <1>2 DEF Pos
<1>4. \A k \in Pos : prog.code[k] \in Instr
  BY <1>2 DEF Pos
<1>5. \A k \in Pos : OpOf(k) \in Op
  BY <1>4 DEF OpOf, Instr
<1>6. Null \notin prog.sens
  BY <1>1 DEF ClosedSet
<1>7. prog.sens \subseteq Value /\ prog.byval \subseteq Param
  BY <1>1 DEF Program
<1> QED BY <1>1, <1>3, <1>4, <1>5, <1>6, <1>7

\* An operand is a value computed before, or comes from outside.
LEMMA Operands ==
  ASSUME prog \in Programs, NEW k \in Pos, NEW a \in ArgsOf(k)
  PROVE  /\ a \in Value
         /\ a \in Nat => a \in 1..(k - 1) /\ a \in Pos /\ OpOf(a) \notin NoValue
         /\ k \in Nat
<1>1. prog \in Program /\ WellFormed(prog)
  BY ProgramsAssumption
<1>2. PICK j \in DOMAIN prog.code[k].args : a = prog.code[k].args[j]
  BY DEF ArgsOf, Args
<1>3. prog.code[k] \in Instr
  BY Shape
<1>4. a \in Value
  BY <1>2, <1>3 DEF Instr
<1>5. k \in 1..Len(prog.code) /\ Len(prog.code) \in Nat
  BY Shape
<1>6. ASSUME a \in Nat PROVE a \in 1..(k - 1) /\ OpOf(a) \notin NoValue
  BY <1>1, <1>2, <1>6 DEF WellFormed, Pos, OpOf
<1>7. a \in Nat => a \in Pos
  BY <1>5, <1>6, Shape
<1> QED BY <1>4, <1>5, <1>6, <1>7

----------------------------------------------------------------------------
(* Derivation *)

\* One step of the recursion, with f for what is known.
From(f, k) ==
  {k} \cup (IF OpOf(k) \in Derived
           THEN UNION {IF a \in Pos THEN f[a] ELSE {a} : a \in ArgsOf(k)} ELSE {})

LEMMA FromUsesEarlier ==
  ASSUME prog \in Programs, NEW k \in Pos, NEW f, NEW g,
         \A j \in 1..(k - 1) : f[j] = g[j]
  PROVE  From(f, k) = From(g, k)
<1>1. \A a \in ArgsOf(k) : a \in Pos => f[a] = g[a]
  BY Operands, Shape
<1> QED BY <1>1 DEF From

LEMMA FromHasSolution ==
  ASSUME prog \in Programs, NEW n \in 0..Len(prog.code)
  PROVE  \E f : f = [k \in 1..n |-> From(f, k)]
<1> DEFINE P(m) == \E f : f = [k \in 1..m |-> From(f, k)]
           Bad == {m \in 0..Len(prog.code) : ~P(m)}
<1> SUFFICES ASSUME Bad # {} PROVE FALSE
  OBVIOUS
<1>0. Len(prog.code) \in Nat /\ Pos = 1..Len(prog.code)
  BY Shape
<1>1. PICK m \in Bad : \A i \in Bad : m <= i
  <2> Bad \in SUBSET Nat
    BY <1>0
  <2> HIDE DEF Bad
  <2> QED BY LeastNatural
<1>2. m # 0
  <2>1. [k \in {} |-> k] = [k \in 1..0 |-> From([j \in {} |-> j], k)]
    OBVIOUS
  <2> SUFFICES P(0)
     OBVIOUS
  <2> QED BY <2>1
<1>3. P(m-1)
  <2>1. m - 1 \in 0..Len(prog.code) /\ ~ (m <= m - 1)
    BY <1>0, <1>2
  <2>2. m - 1 \notin Bad
    <3> HIDE DEF Bad
    <3> QED BY <1>1, <2>1
  <2> QED BY <2>1, <2>2
<1>4. PICK f : f = [k \in 1..(m-1) |-> From(f, k)]
  BY <1>3
<1> DEFINE g == [k \in 1..m |-> IF k < m THEN f[k] ELSE From(f, m)]
<1>a. m \in 1..Len(prog.code)
  BY <1>0, <1>2
<1>5. ASSUME NEW k \in 1..m PROVE From(f,k) = From(g,k)
  <2>1. k \in Pos
    BY <1>0, <1>a
  <2>2. \A j \in 1..(k - 1) : j \in 1..m /\ j < m
    BY <1>a
  <2>3. \A j \in 1..(k - 1) : f[j] = g[j]
    BY <2>2
  <2> HIDE DEF g
  <2> QED BY <2>1, <2>3, FromUsesEarlier
<1>6. ASSUME NEW k \in 1..m PROVE g[k] = From(f,k)
  <2>1. CASE k < m
    <3>1. f[k] = From(f, k)
      <4>1. k \in 1..(m-1)
        BY <2>1, <1>a
      <4> HIDE DEF Bad, P
      <4> DEFINE h == f
      <4>2. h = [j \in 1..(m-1) |-> From(h, j)]
        BY <1>4
      <4> HIDE DEF h
      <4>3. h[k] = From(h,k)
        BY <4>1, <4>2
      <4> QED BY <4>3 DEF h
    <3> QED BY <2>1, <3>1
  <2>2. CASE k = m
    BY <2>2
  <2> QED BY <2>1, <2>2, <1>a
<1>7. g = [k \in 1..m |-> From(g,k)]
  BY <1>5, <1>6
<1>8. P(m)
  BY <1>7
<1> QED BY <1>1, <1>8

LEMMA DerivationEquation ==
  ASSUME prog \in Programs
  PROVE  derivation = [k \in Pos |-> From(derivation, k)]
<1>1. Len(prog.code) \in 0..Len(prog.code) /\ Pos = 1..Len(prog.code)
  BY Shape
<1>2. \E f : f = [k \in Pos |-> From(f, k)]
  BY <1>1, FromHasSolution
<1>3. derivation = CHOOSE f : f = [k \in Pos |-> From(f, k)]
  BY DEF derivation, From
<1> QED BY <1>2, <1>3

\* A value is in its own derivation, and what it is derived from is.
LEMMA DerivationSteps ==
  ASSUME prog \in Programs, NEW k \in Pos
  PROVE  Derivation(k) =
           {k} \cup (IF OpOf(k) \in Derived THEN UNION {Derivation(a) : a \in ArgsOf(k)} ELSE {})
<1>1. derivation[k] = From(derivation, k)
  <2> DEFINE d == derivation
  <2>1. d = [j \in Pos |-> From(d, j)]
    BY DerivationEquation
  <2> HIDE DEF d
  <2>2. d[k] = From(d, k)
    BY <2>1
  <2> QED BY <2>2 DEF d
<1> QED BY <1>1 DEF Derivation, From

\* Induction: a set that holds x and, with a gep or phi, its operands.
LEMMA DerivationStaysIn ==
  ASSUME prog \in Programs, NEW G, NEW x \in G,
         \A k \in G \cap Are(Derived) : ArgsOf(k) \subseteq G
  PROVE  Derivation(x) \subseteq G
<1> DEFINE Bad == {k \in Pos \cap G : ~ (Derivation(k) \subseteq G)}
<1>1. Bad = {}
  <2> SUFFICES ASSUME Bad # {} PROVE FALSE
    OBVIOUS
  <2>1. Bad \in SUBSET Nat
    BY Shape
  <2>2. PICK k \in Bad : \A i \in Bad : k <= i
    <3> HIDE DEF Bad
    <3> QED BY <2>1, LeastNatural
  <2>3. OpOf(k) \in Derived
    BY DerivationSteps
  <2>4. ArgsOf(k) \subseteq G
    BY <2>3 DEF Are
  <2>5. ASSUME NEW a \in ArgsOf(k) PROVE Derivation(a) \subseteq G
    <3>1. CASE a \in Pos
      <4>1. a < k
        BY <3>1, Operands, Shape
      <4>2. a \notin Bad
        BY <2>1, <2>2, <4>1
      <4> QED BY <2>4, <3>1, <4>2
    <3>2. CASE a \notin Pos
      BY <2>4, <3>2 DEF Derivation
    <3> QED BY <3>1, <3>2
  <2> QED BY <2>5, DerivationSteps
<1>2. CASE x \in Pos
  BY <1>1, <1>2
<1>3. CASE x \notin Pos
  BY <1>3 DEF Derivation
<1> QED BY <1>2, <1>3

\* What the function is made of.
Names == Pos \cup UNION {ArgsOf(k) : k \in Pos}

\* Sensitivity is one and the same along a derivation: the analysis has left
\* the set closed.
LEMMA DerivationAgrees ==
  ASSUME prog \in Programs, NEW x, x # Null, NEW d \in Derivation(x), d # Null
  PROVE  d \in prog.sens <=> x \in prog.sens
<1> DEFINE G == {e \in Names \cup {x} : e # Null => (e \in prog.sens <=> x \in prog.sens)}
<1>1. ASSUME NEW k \in G \cap Are(Derived), NEW a \in ArgsOf(k) PROVE a \in G
  <2>1. k \in Pos /\ OpOf(k) \in Derived
    BY DEF Are
  <2>2. k # Null
    BY <2>1, Shape, NamesAssumption
  <2>3. \/ (ArgsOf(k) \cup {k}) \cap prog.sens = {}
        \/ (ArgsOf(k) \ {Null}) \cup {k} \subseteq prog.sens
    <3>1. ClosedSet(prog)
      BY ProgramsAssumption
    <3> QED BY <2>1, <3>1 DEF ClosedSet, Pos, OpOf, ArgsOf
  <2>4. a \in Names
    BY <2>1 DEF Names
  <2> QED BY <2>2, <2>3, <2>4
<1>2. Derivation(x) \subseteq G
  <2>1. x \in G
    OBVIOUS
  <2>2. \A k \in G \cap Are(Derived) : ArgsOf(k) \subseteq G
    BY <1>1
  <2> HIDE DEF G
  <2> QED BY <2>1, <2>2, DerivationStaysIn
<1> QED BY <1>2

\* An instruction whose value something uses.
IsUsed(x) == x \in Pos => OpOf(x) \notin NoValue /\ Users({x}) # {}

LEMMA OperandsAreUsed ==
  ASSUME prog \in Programs, NEW k \in Pos, NEW a \in ArgsOf(k)
  PROVE  IsUsed(a)
<1>1. a \in Pos => a \in Nat
  BY Shape
<1>2. k \in Users({a})
  BY DEF Users
<1> QED BY <1>1, <1>2, Operands DEF IsUsed

LEMMA DerivationIsUsed ==
  ASSUME prog \in Programs, NEW x, IsUsed(x), NEW d \in Derivation(x)
  PROVE  IsUsed(d)
<1> DEFINE G == {e \in Names \cup {x} : IsUsed(e)}
<1>1. \A k \in G \cap Are(Derived) : ArgsOf(k) \subseteq G
  BY OperandsAreUsed DEF Are, Names
<1>2. Derivation(x) \subseteq G
  <2>1. x \in G
    OBVIOUS
  <2> HIDE DEF G
  <2> QED BY <1>1, <2>1, DerivationStaysIn
<1> QED BY <1>2

----------------------------------------------------------------------------
(* Types *)

LEMMA TypeInit == Init => TypeOK
<1> SUFFICES ASSUME Init PROVE TypeOK
  OBVIOUS
<1>1. prog \in Programs /\ prog \in Program
  BY ProgramsAssumption DEF Init
<1> QED BY <1>1 DEF Init, TypeOK, Phases

LEMMA SameProgram ==
  ASSUME prog' = prog
  PROVE  /\ Pos' = Pos
         /\ \A ops : Are(ops)' = Are(ops)
         /\ \A X : Users(X)' = Users(X)
         /\ \A k : OpOf(k)' = OpOf(k) /\ ArgsOf(k)' = ArgsOf(k) /\ Ptr(k)' = Ptr(k)
BY DEF Pos, Are, Users, OpOf, ArgsOf, Args, Ptr

LEMMA SameDerivation ==
  ASSUME prog' = prog
  PROVE  \A x : hasInfiniteBounds(x)' = hasInfiniteBounds(x)
<1>1. derivation' = derivation
  BY DEF derivation, Pos, OpOf, ArgsOf, Args
<1>2. \A x : Derivation(x)' = Derivation(x)
  BY <1>1, SameProgram DEF Derivation
<1>3. \A x : getBasedOnValue(x)' = getBasedOnValue(x)
  BY <1>2, SameProgram DEF getBasedOnValue
<1> QED BY <1>2, <1>3, SameProgram DEF hasInfiniteBounds

LEMMA ProgramStays == [Next]_vars => prog' = prog
BY DEF Next, vars, replaceAllByNameWith, insertPointerMasks, replaceCFuncsThatAlloc,
       moveSensitiveAllocsToHeap, replaceAllocationsWithSafe, replaceByValSensitiveArguments,
       createBoundsForAllocations, insertBoundsStores, insertBoundsChecks, metadataCopy, Ended,
       Unreachable

LEMMA TypeStep == TypeOK /\ prog \in Programs /\ [Next]_vars => TypeOK'
<1> SUFFICES ASSUME TypeOK, prog \in Programs, [Next]_vars PROVE TypeOK'
  OBVIOUS
<1>1. prog' = prog
  BY ProgramStays
<1>2. /\ Pos' = Pos
      /\ \A ops : Are(ops)' = Are(ops)
  BY <1>1, SameProgram
<1>3. \A X : Users(X) \subseteq Pos
  BY DEF Users
<1>4. \A ops : Are(ops) \subseteq Pos
  BY DEF Are
<1> USE DEF Phases
<1>5. CASE replaceAllByNameWith
  BY <1>1, <1>2, <1>5 DEF replaceAllByNameWith, TypeOK
<1>6. CASE insertPointerMasks
  <2>1. Sandboxed \subseteq Are(Access)
    BY DEF Sandboxed, Are, Access
  <2> QED BY <1>1, <1>2, <1>6, <2>1 DEF insertPointerMasks, TypeOK
<1>7. CASE replaceCFuncsThatAlloc
  BY <1>1, <1>2, <1>7 DEF replaceCFuncsThatAlloc, TypeOK
<1>8. CASE moveSensitiveAllocsToHeap
  <2>1. sensitiveAllocas \subseteq Are({"alloca"})
    BY DEF sensitiveAllocas
  <2> QED BY <1>1, <1>2, <1>3, <1>8, <2>1 DEF moveSensitiveAllocsToHeap, Unreachable, TypeOK
<1>9. CASE replaceAllocationsWithSafe
  <2>1. Collected \subseteq Pos
    BY DEF Collected
  <2> QED BY <1>1, <1>2, <1>3, <1>9, <2>1 DEF replaceAllocationsWithSafe, Unreachable, TypeOK
<1>10. CASE replaceByValSensitiveArguments
  BY <1>1, <1>2, <1>3, <1>10 DEF replaceByValSensitiveArguments, TypeOK
<1>11. CASE createBoundsForAllocations
  BY <1>1, <1>2, <1>11 DEF createBoundsForAllocations, TypeOK
<1>12. CASE insertBoundsStores
  <2>1. argSlots \cup returnSlots \subseteq Pos \X Nat
    <3>1. \A k \in Pos : DOMAIN prog.code[k].args \subseteq Nat
      BY Shape DEF Instr
    <3> QED BY <1>4, <3>1 DEF argSlots, returnSlots
  <2>2. \A X : FromSlots(X) \subseteq Param \cup Pos
    BY DEF FromSlots
  <2> QED BY <1>1, <1>2, <1>12, <2>1, <2>2 DEF insertBoundsStores, Unreachable, TypeOK
<1>13. CASE insertBoundsChecks
  <2>1. {k \in needsBounds : ~hasInfiniteBounds(Ptr(k))} \subseteq Are(Access)
    BY DEF needsBounds
  <2>2. \A X : FromSlots(X) \subseteq Param \cup Pos
    BY DEF FromSlots
  <2> QED BY <1>1, <1>2, <1>13, <2>1, <2>2 DEF insertBoundsChecks, Unreachable, TypeOK
<1>14. CASE metadataCopy
  BY <1>1, <1>2, <1>4, <1>14 DEF metadataCopy, TypeOK
<1>15. CASE Ended \/ UNCHANGED vars
  BY <1>1, <1>2, <1>15 DEF Ended, vars, TypeOK
<1> QED BY <1>5, <1>6, <1>7, <1>8, <1>9, <1>10, <1>11, <1>12, <1>13, <1>14, <1>15 DEF Next

----------------------------------------------------------------------------
(* What each phase has done, in terms of what the analysis left *)

PastMasks  == Phases \ {"allocators", "masks", "unreachable"}
PastLibc   == PastMasks \ {"libc"}
PastStack  == PastLibc \ {"stack"}
PastHeap   == PastStack \ {"heap"}
PastByVal  == PastHeap \ {"byval"}
PastBounds == PastByVal \ {"bounds"}
PastStores == PastBounds \ {"stores"}
PastChecks == PastStores \ {"checks"}

\* What the masks leave in front of, and what is dropped from the set for good.
MaskedAtFirst == {k \in Sandboxed : Ptr(k) \notin prog.sens \cup Global}
Dropped       == MaskedAtFirst \cup (Are({"strerror"}) \cap prog.sens)

StackObjects == Are({"alloca"}) \cap prog.sens

\* The set when the allocations are collected.
SensAtHeap == (prog.sens \ Dropped) \cup Users(StackObjects)

Allocates(k) == (ArgsOf(k) \cup {k}) \cap SensAtHeap # {}

SensInv ==
  /\ pc \in {"allocators", "masks"} => sens = prog.sens
  /\ pc = "libc" => sens = prog.sens \ MaskedAtFirst
  /\ pc = "stack" => sens = prog.sens \ Dropped
  /\ pc = "heap" => sens = SensAtHeap
  /\ pc \in PastHeap => SensAtHeap \subseteq sens
  /\ pc \in PastMasks => masked = MaskedAtFirst

\* A dropped value, if it is one, has no operand that could bring it back.
DroppedInv ==
  pc \in PastLibc =>
    \A k \in Dropped \cap prog.sens : OpOf(k) \notin NoValue => k \notin sens

RegionInv ==
  /\ \A k \in Are(Heap) :
       /\ pc \in {"masks", "libc", "stack", "heap"} => region[k] = "unsafe"
       /\ pc \in PastHeap => (region[k] = "safe" <=> Allocates(k))
       /\ pc \in PastHeap /\ region[k] = "safe" => k \in sens
       /\ pc \in PastHeap /\ OpOf(k) = "strdup" => k \notin prog.sens
  /\ \A k \in Are({"alloca"}) :
       /\ pc \notin PastStack \cup {"unreachable"} => region[k] = "none"
       /\ pc \in PastStack => (region[k] = "safe" <=> k \in prog.sens)
  /\ \A k \in Are({"strerror"}) :
       /\ pc \notin PastLibc \cup {"unreachable"} => region[k] = "none"
       /\ pc \in PastLibc => (region[k] = "safe" <=> k \in prog.sens)
  /\ \A k \in Are({"mmap"}) : region[k] # "safe"

FreesInv ==
  pc \in PastStack => \A r \in Are({"ret"}) : frees[r] = StackObjects

CopiedInv == pc \in PastByVal => copied = prog.byval \cap prog.sens

EntriesInv ==
  pc \in PastBounds =>
    entries = {k \in sens \cap Pos : (IsAllocation(k) \/ OpOf(k) = "alloca")
                                        /\ OpOf(k) # "strdup"}

SlotsInv ==
  pc \in PastStores =>
    /\ passed = argSlots \cup returnSlots
    /\ Shifted = {} => fetched \subseteq prog.sens

CheckedLoadsAndStores == {k \in needsBounds : ~hasInfiniteBounds(Ptr(k))}

GuardInv ==
  /\ pc \in PastChecks => checked = CheckedLoadsAndStores
  /\ pc = "done" => moved = {k \in Are({"memcpy"}) : prog.code[k].args[1] \in sens}

PhaseInv ==
  /\ TypeOK
  /\ prog \in Programs
  /\ SensInv
  /\ DroppedInv
  /\ RegionInv
  /\ FreesInv
  /\ CopiedInv
  /\ EntriesInv
  /\ SlotsInv
  /\ GuardInv
  /\ GivesUpOnlyHere

----------------------------------------------------------------------------
(* The invariant is inductive *)

LEMMA SameAnalysis ==
  ASSUME prog' = prog
  PROVE  /\ MaskedAtFirst' = MaskedAtFirst
         /\ Dropped' = Dropped
         /\ StackObjects' = StackObjects
         /\ SensAtHeap' = SensAtHeap
         /\ \A k : Allocates(k)' = Allocates(k)
<1>1. Sandboxed' = Sandboxed
  BY SameProgram DEF Sandboxed
<1>2. MaskedAtFirst' = MaskedAtFirst
  BY <1>1, SameProgram DEF MaskedAtFirst
<1>3. Dropped' = Dropped /\ StackObjects' = StackObjects
  BY <1>2, SameProgram DEF Dropped, StackObjects
<1>4. SensAtHeap' = SensAtHeap
  BY <1>3, SameProgram DEF SensAtHeap
<1> QED BY <1>2, <1>3, <1>4, SameProgram DEF Allocates

LEMMA DroppedAlone ==
  ASSUME prog \in Programs, NEW k \in Dropped \cap prog.sens, OpOf(k) \notin NoValue
  PROVE  k \in Are({"load", "strerror"}) /\ ArgsOf(k) \subseteq {Null}
<1>1. k \in Pos
  BY DEF Dropped, MaskedAtFirst, Sandboxed, Are
<1>2. WellFormed(prog) /\ ClosedSet(prog)
  BY ProgramsAssumption
<1>3. /\ Len(prog.code[k].args) \in Arity[OpOf(k)]
      /\ prog.code[k].args \in Seq(Value)
  BY <1>1, <1>2, Shape DEF WellFormed, Instr, Pos, OpOf
<1>4. CASE k \in Are({"strerror"})
  <2>1. OpOf(k) = "strerror"
    BY <1>4 DEF Are
  <2>2. Arity["strerror"] = {0}
    BY DEF Arity, Op, Calls
  <2>3. DOMAIN prog.code[k].args = {}
    BY <1>3, <2>1, <2>2
  <2> QED BY <1>4, <2>3 DEF ArgsOf, Args, Are
<1>5. CASE k \in MaskedAtFirst
  <2>1. OpOf(k) = "load"
    BY <1>5 DEF MaskedAtFirst, Sandboxed, Are, Access, NoValue
  <2>2. Arity["load"] = {1}
    BY DEF Arity, Op, Access, Heap, Derived, Calls
  <2>3. DOMAIN prog.code[k].args = {1}
    BY <1>3, <2>1, <2>2
  <2>4. ArgsOf(k) = {Ptr(k)}
    BY <2>1, <2>3 DEF ArgsOf, Args, Ptr
  <2>5. (ArgsOf(k) \ {Null}) \cup {k} \subseteq prog.sens
    BY <1>1, <1>2, <2>1 DEF ClosedSet, Pos, OpOf, ArgsOf, Access
  <2>6. Ptr(k) \notin prog.sens
    BY <1>5 DEF MaskedAtFirst
  <2> QED BY <1>1, <2>1, <2>4, <2>5, <2>6 DEF Are
<1> QED BY <1>4, <1>5 DEF Dropped

LEMMA PhaseInit == Init => PhaseInv
<1> SUFFICES ASSUME Init PROVE PhaseInv
  OBVIOUS
<1> USE DEF Init, PastMasks, PastLibc, PastStack, PastHeap, PastByVal, PastBounds,
            PastStores, PastChecks, Phases
<1>1. TypeOK /\ prog \in Programs
  BY TypeInit
<1>2. SensInv /\ DroppedInv
  BY DEF SensInv, DroppedInv
<1>3. RegionInv
  BY DEF RegionInv, Are
<1>4. FreesInv /\ CopiedInv /\ EntriesInv /\ SlotsInv /\ GuardInv /\ GivesUpOnlyHere
  BY DEF FreesInv, CopiedInv, EntriesInv, SlotsInv, GuardInv, GivesUpOnlyHere
<1> QED BY <1>1, <1>2, <1>3, <1>4 DEF PhaseInv

\* What no phase before the stores of bounds has to say.
LaterInv == EntriesInv /\ SlotsInv /\ GuardInv /\ GivesUpOnlyHere

LEMMA AllocatorsStep == PhaseInv /\ replaceAllByNameWith => PhaseInv'
<1> SUFFICES ASSUME PhaseInv, replaceAllByNameWith PROVE PhaseInv'
  OBVIOUS
<1> USE DEF replaceAllByNameWith, PastMasks, PastLibc, PastStack, PastHeap, PastByVal,
            PastBounds, PastStores, PastChecks, Phases
<1>1. prog' = prog /\ TypeOK' /\ prog' \in Programs
  BY TypeStep DEF PhaseInv, Next
<1>2. SensInv' /\ DroppedInv'
  BY <1>1 DEF PhaseInv, SensInv, DroppedInv
<1>3. RegionInv'
  <2>1. \A ops : Are(ops)' = Are(ops) /\ Are(ops) \subseteq Pos
    BY <1>1, SameProgram DEF Are
  <2>2. \A k \in Are({"alloca", "strerror", "mmap"}) : OpOf(k) \notin Heap
    BY DEF Are, Heap
  <2>3. Are({"alloca", "strerror", "mmap"}) = Are({"alloca"}) \cup Are({"strerror"}) \cup Are({"mmap"})
    BY DEF Are
  <2>4. \A k \in Are(Heap) : OpOf(k) \in Heap
    BY DEF Are
  <2> QED BY <1>1, <2>1, <2>2, <2>3, <2>4 DEF PhaseInv, RegionInv
<1>4. FreesInv' /\ CopiedInv' /\ LaterInv'
  BY DEF FreesInv, CopiedInv, LaterInv, EntriesInv, SlotsInv, GuardInv, GivesUpOnlyHere
<1> QED BY <1>1, <1>2, <1>3, <1>4 DEF PhaseInv, LaterInv

LEMMA MasksStep == PhaseInv /\ insertPointerMasks => PhaseInv'
<1> SUFFICES ASSUME PhaseInv, insertPointerMasks PROVE PhaseInv'
  OBVIOUS
<1> USE DEF insertPointerMasks, PastMasks, PastLibc, PastStack, PastHeap, PastByVal,
            PastBounds, PastStores, PastChecks, Phases
<1>1. prog' = prog /\ TypeOK' /\ prog' \in Programs
  BY TypeStep DEF PhaseInv, Next
<1>2. SensInv' /\ DroppedInv'
  <2>1. sens = prog.sens
    BY DEF PhaseInv, SensInv
  <2>2. masked' = MaskedAtFirst
    BY <2>1 DEF MaskedAtFirst, shouldMask
  <2> QED BY <1>1, <2>1, <2>2, SameAnalysis DEF SensInv, DroppedInv
<1>3. RegionInv'
  BY <1>1, SameProgram DEF PhaseInv, RegionInv
<1>4. FreesInv' /\ CopiedInv' /\ LaterInv'
  BY DEF FreesInv, CopiedInv, LaterInv, EntriesInv, SlotsInv, GuardInv, GivesUpOnlyHere
<1> QED BY <1>1, <1>2, <1>3, <1>4 DEF PhaseInv, LaterInv

LEMMA LibcStep == PhaseInv /\ replaceCFuncsThatAlloc => PhaseInv'
<1> SUFFICES ASSUME PhaseInv, replaceCFuncsThatAlloc PROVE PhaseInv'
  OBVIOUS
<1> USE DEF replaceCFuncsThatAlloc, PastMasks, PastLibc, PastStack, PastHeap, PastByVal,
            PastBounds, PastStores, PastChecks, Phases
<1>1. prog' = prog /\ TypeOK' /\ prog' \in Programs
  BY TypeStep DEF PhaseInv, Next
<1>2. sens = prog.sens \ MaskedAtFirst
  BY DEF PhaseInv, SensInv
<1>3. MaskedAtFirst \cap Are({"mmap", "strerror"}) = {}
  BY DEF MaskedAtFirst, Sandboxed, Are, Access
<1>4. Are({"mmap", "strerror"}) = Are({"mmap"}) \cup Are({"strerror"})
  BY DEF Are
<1>5. sens' = prog.sens \ Dropped
  BY <1>2, <1>3, <1>4 DEF Dropped
<1>6. SensInv' /\ DroppedInv'
  BY <1>1, <1>5, SameAnalysis DEF PhaseInv, SensInv, DroppedInv
<1>7. RegionInv'
  <2>1. \A ops : Are(ops)' = Are(ops) /\ Are(ops) \subseteq Pos
    BY <1>1, SameProgram DEF Are
  <2>2. /\ \A k \in Are(Heap) \cup Are({"alloca"}) : k \notin Are({"mmap"}) \cup Are({"strerror"})
        /\ Are({"mmap"}) \cap Are({"strerror"}) = {}
    BY DEF Are, Heap
  <2>3. \A k \in Are({"strerror"}) : k \in sens <=> k \in prog.sens
    BY <1>2, <1>3, <1>4
  <2> QED BY <1>1, <2>1, <2>2, <2>3 DEF PhaseInv, RegionInv
<1>8. FreesInv' /\ CopiedInv' /\ LaterInv'
  BY DEF FreesInv, CopiedInv, LaterInv, EntriesInv, SlotsInv, GuardInv, GivesUpOnlyHere
<1> QED BY <1>1, <1>6, <1>7, <1>8 DEF PhaseInv, LaterInv

LEMMA StackStep == PhaseInv /\ moveSensitiveAllocsToHeap => PhaseInv'
<1> SUFFICES ASSUME PhaseInv, moveSensitiveAllocsToHeap PROVE PhaseInv'
  OBVIOUS
<1> USE DEF moveSensitiveAllocsToHeap, Unreachable, PastMasks, PastLibc, PastStack, PastHeap,
            PastByVal, PastBounds, PastStores, PastChecks, Phases
<1>1. prog' = prog /\ TypeOK' /\ prog' \in Programs
  BY TypeStep DEF PhaseInv, Next
<1>2. sens = prog.sens \ Dropped
  BY DEF PhaseInv, SensInv
<1>3. Dropped \cap Are({"alloca"}) = {}
  BY DEF Dropped, MaskedAtFirst, Sandboxed, Are, Access
<1>4. sensitiveAllocas = StackObjects
  BY <1>2, <1>3 DEF sensitiveAllocas, StackObjects
<1>5. /\ \A ops : Are(ops)' = Are(ops) /\ Are(ops) \subseteq Pos
      /\ StackObjects' = StackObjects
  BY <1>1, SameProgram, SameAnalysis DEF Are
<1>6. CASE pc' = "unreachable"
  <2>1. GivesUpOnlyHere'
    BY <1>4, <1>5, <1>6 DEF GivesUpOnlyHere, StackObjects
  <2>2. SensInv' /\ DroppedInv' /\ FreesInv' /\ CopiedInv' /\ EntriesInv' /\ SlotsInv' /\ GuardInv'
    BY <1>6 DEF SensInv, DroppedInv, FreesInv, CopiedInv, EntriesInv, SlotsInv, GuardInv
  <2>3. RegionInv'
    BY <1>1, <1>5, <1>6 DEF PhaseInv, RegionInv
  <2> QED BY <1>1, <2>1, <2>2, <2>3 DEF PhaseInv
<1>7. CASE pc' = "heap"
  <2>1. sens' = SensAtHeap
    BY <1>2, <1>4, <1>7 DEF SensAtHeap
  <2>2. SensInv'
    BY <1>1, <1>7, <2>1, SameAnalysis DEF PhaseInv, SensInv
  <2>3. DroppedInv'
    <3>1. StackObjects \subseteq Pos /\ Null \notin Pos
      BY Shape, NamesAssumption DEF PhaseInv, StackObjects, Are
    <3>2. ASSUME NEW k \in Dropped \cap prog.sens, OpOf(k) \notin NoValue
          PROVE  k \notin SensAtHeap
      <4>1. ArgsOf(k) \subseteq {Null}
        BY <3>2, DroppedAlone DEF PhaseInv
      <4> QED BY <3>1, <4>1 DEF SensAtHeap, Users
    <3> QED BY <1>1, <2>1, <3>2, SameProgram, SameAnalysis DEF DroppedInv
  <2>4. RegionInv'
    <3>1. \A k \in Are(Heap) \cup Are({"mmap"}) \cup Are({"strerror"}) : k \notin StackObjects
      BY DEF Are, Heap, StackObjects
    <3>2. \A k \in Are({"alloca"}) : k \in StackObjects <=> k \in prog.sens
      BY DEF StackObjects
    <3>3. region' = [k \in Pos |-> IF k \in StackObjects THEN "safe" ELSE region[k]]
      BY <1>4, <1>7
    <3> QED BY <1>1, <1>5, <1>7, <3>1, <3>2, <3>3 DEF PhaseInv, RegionInv
  <2>5. FreesInv'
    BY <1>4, <1>5, <1>7 DEF FreesInv
  <2>6. CopiedInv' /\ LaterInv'
    BY <1>7 DEF CopiedInv, LaterInv, EntriesInv, SlotsInv, GuardInv, GivesUpOnlyHere
  <2> QED BY <1>1, <2>2, <2>3, <2>4, <2>5, <2>6 DEF PhaseInv, LaterInv
<1> QED BY <1>6, <1>7

LEMMA HeapStep == PhaseInv /\ replaceAllocationsWithSafe => PhaseInv'
<1> SUFFICES ASSUME PhaseInv, replaceAllocationsWithSafe PROVE PhaseInv'
  OBVIOUS
<1> USE DEF replaceAllocationsWithSafe, Unreachable, PastMasks, PastLibc, PastStack, PastHeap,
            PastByVal, PastBounds, PastStores, PastChecks, Phases
<1>1. prog' = prog /\ TypeOK' /\ prog' \in Programs
  BY TypeStep DEF PhaseInv, Next
<1>2. sens = SensAtHeap
  BY DEF PhaseInv, SensInv
<1>3. /\ \A ops : Are(ops)' = Are(ops) /\ Are(ops) \subseteq Pos
      /\ StackObjects' = StackObjects /\ SensAtHeap' = SensAtHeap
      /\ \A k : Allocates(k)' = Allocates(k)
      /\ \A k : OpOf(k)' = OpOf(k) /\ ArgsOf(k)' = ArgsOf(k)
  BY <1>1, SameProgram, SameAnalysis DEF Are
<1>4. CASE pc' = "unreachable"
  <2>1. PICK k \in Collected : OpOf(k) = "strdup"
    BY <1>4
  <2>2. k \in Are({"strdup"}) /\ (ArgsOf(k) \cup {k}) \cap sens # {}
    BY <2>1 DEF Collected, Are, isAnyOperandSensitive
  <2>3. GivesUpOnlyHere'
    BY <1>3, <1>4, <2>2 DEF GivesUpOnlyHere
  <2>4. SensInv' /\ DroppedInv' /\ FreesInv' /\ CopiedInv' /\ EntriesInv' /\ SlotsInv' /\ GuardInv'
    BY <1>4 DEF SensInv, DroppedInv, FreesInv, CopiedInv, EntriesInv, SlotsInv, GuardInv
  <2>5. RegionInv'
    BY <1>1, <1>3, <1>4 DEF PhaseInv, RegionInv
  <2> QED BY <1>1, <2>3, <2>4, <2>5 DEF PhaseInv
<1>5. CASE pc' = "byval"
  <2>1. /\ sens' = sens \cup Collected \cup Users(Collected)
        /\ region' = [k \in Pos |-> IF k \in Collected THEN "safe" ELSE region[k]]
        /\ \A k \in Collected : OpOf(k) # "strdup"
    BY <1>5
  <2>2. SensInv'
    BY <1>1, <1>2, <1>3, <1>5, <2>1, SameAnalysis DEF PhaseInv, SensInv
  <2>3. Collected \subseteq Pos /\ Null \notin Pos
    BY Shape, NamesAssumption DEF PhaseInv, Collected
  <2>4. DroppedInv'
    <3>1. ASSUME NEW k \in Dropped \cap prog.sens, OpOf(k) \notin NoValue
          PROVE  k \notin sens'
      <4>1. k \in Are({"load", "strerror"}) /\ ArgsOf(k) \subseteq {Null}
        BY <3>1, DroppedAlone DEF PhaseInv
      <4>2. k \notin sens
        BY <3>1 DEF PhaseInv, DroppedInv
      <4>3. k \notin Collected
        BY <4>1 DEF Collected, IsAllocation, Are, Heap
      <4> QED BY <2>1, <2>3, <4>1, <4>2, <4>3 DEF Users
    <3> QED BY <1>1, <1>3, <3>1, SameAnalysis DEF DroppedInv
  <2>5. \A k \in Are(Heap) : k \in Collected <=> Allocates(k)
    BY <1>2 DEF Collected, IsAllocation, isAnyOperandSensitive, Allocates, Are
  <2>6. \A k \in Are({"alloca"}) : k \in Collected => region[k] = "safe"
    BY DEF Collected, IsAllocation, Are, Heap
  <2>7. \A k \in Are({"mmap"}) \cup Are({"strerror"}) : k \notin Collected
    BY DEF Collected, IsAllocation, Are, Heap
  <2>8. ASSUME NEW k \in Are(Heap), OpOf(k) = "strdup" PROVE k \notin prog.sens
    <3>1. ~ Allocates(k)
      BY <2>1, <2>5, <2>8
    <3>2. k \notin Dropped
      BY <2>8 DEF Dropped, MaskedAtFirst, Sandboxed, Are, Access
    <3> QED BY <3>1, <3>2 DEF Allocates, SensAtHeap
  <2>9. RegionInv'
    <3>1. \A k \in Are(Heap) : /\ region'[k] = "safe" <=> Allocates(k)
                               /\ region'[k] = "safe" => k \in sens'
      BY <1>3, <2>1, <2>5 DEF PhaseInv, RegionInv
    <3>2. /\ \A k \in Are({"alloca"}) : region'[k] = "safe" <=> k \in prog.sens
          /\ \A k \in Are({"strerror"}) : region'[k] = "safe" <=> k \in prog.sens
          /\ \A k \in Are({"mmap"}) : region'[k] # "safe"
      BY <1>3, <2>1, <2>6, <2>7 DEF PhaseInv, RegionInv
    <3> QED BY <1>1, <1>3, <1>5, <2>8, <3>1, <3>2 DEF RegionInv
  <2>10. FreesInv'
    BY <1>3, <1>5 DEF PhaseInv, FreesInv
  <2>11. CopiedInv' /\ LaterInv'
    BY <1>5 DEF CopiedInv, LaterInv, EntriesInv, SlotsInv, GuardInv, GivesUpOnlyHere
  <2> QED BY <1>1, <2>2, <2>4, <2>9, <2>10, <2>11 DEF PhaseInv, LaterInv
<1> QED BY <1>4, <1>5

\* Nothing but additions to the set, and nothing at all to regions and frees.
LEMMA RegionsStay ==
  ASSUME PhaseInv, prog' = prog, region' = region, frees' = frees, masked' = masked,
         sens \subseteq sens', pc \in PastHeap, pc' \in PastHeap
  PROVE  SensInv' /\ RegionInv' /\ FreesInv'
<1> USE DEF PastMasks, PastLibc, PastStack, PastHeap, Phases
<1>1. /\ \A ops : Are(ops)' = Are(ops)
      /\ StackObjects' = StackObjects /\ SensAtHeap' = SensAtHeap
      /\ MaskedAtFirst' = MaskedAtFirst
      /\ \A k : Allocates(k)' = Allocates(k)
      /\ \A k : OpOf(k)' = OpOf(k)
  BY SameProgram, SameAnalysis
<1>2. SensInv'
  BY <1>1 DEF PhaseInv, SensInv
<1>3. RegionInv'
  BY <1>1 DEF PhaseInv, RegionInv
<1>4. FreesInv'
  BY <1>1 DEF PhaseInv, FreesInv
<1> QED BY <1>2, <1>3, <1>4

LEMMA ByValStep == PhaseInv /\ replaceByValSensitiveArguments => PhaseInv'
<1> SUFFICES ASSUME PhaseInv, replaceByValSensitiveArguments PROVE PhaseInv'
  OBVIOUS
<1> USE DEF replaceByValSensitiveArguments, PastMasks, PastLibc, PastStack, PastHeap,
            PastByVal, PastBounds, PastStores, PastChecks, Phases
<1>1. prog' = prog /\ TypeOK' /\ prog' \in Programs
  BY TypeStep DEF PhaseInv, Next
<1>2. SensInv' /\ RegionInv' /\ FreesInv'
  BY <1>1, RegionsStay DEF PhaseInv
<1>3. Param \cap Pos = {} /\ prog.byval \subseteq Param /\ Null \notin Param
  BY Shape, NamesAssumption DEF PhaseInv
<1>4. copied' = prog.byval \cap prog.sens
  <2>1. sens \subseteq prog.sens \cup Pos /\ prog.sens \ Dropped \subseteq sens
    BY DEF PhaseInv, TypeOK, SensInv, SensAtHeap
  <2>2. Dropped \subseteq Pos
    BY DEF Dropped, MaskedAtFirst, Sandboxed, Are
  <2> QED BY <1>3, <2>1, <2>2
<1>5. DroppedInv'
  <2>1. ASSUME NEW k \in Dropped \cap prog.sens, OpOf(k) \notin NoValue
        PROVE  k \notin sens'
    <3>1. ArgsOf(k) \subseteq {Null}
      BY <2>1, DroppedAlone DEF PhaseInv
    <3>2. k \notin sens
      BY <2>1 DEF PhaseInv, DroppedInv
    <3> QED BY <1>3, <1>4, <3>1, <3>2 DEF Users
  <2> QED BY <1>1, <2>1, SameProgram, SameAnalysis DEF DroppedInv
<1>6. CopiedInv' /\ LaterInv'
  BY <1>1, <1>4 DEF CopiedInv, LaterInv, EntriesInv, SlotsInv, GuardInv, GivesUpOnlyHere
<1> QED BY <1>1, <1>2, <1>5, <1>6 DEF PhaseInv, LaterInv

\* From here on the set stays as it is.
LEMMA SetStays ==
  ASSUME PhaseInv, prog' = prog, sens' = sens, copied' = copied, pc \in PastByVal,
         pc' \in PastByVal
  PROVE  DroppedInv' /\ CopiedInv' /\ Shifted' = Shifted
<1> USE DEF PastMasks, PastLibc, PastStack, PastHeap, PastByVal, Phases
<1>1. DroppedInv'
  BY SameProgram, SameAnalysis DEF PhaseInv, DroppedInv
<1>2. CopiedInv'
  BY DEF PhaseInv, CopiedInv
<1>3. Shifted' = Shifted
  BY SameProgram DEF Shifted
<1> QED BY <1>1, <1>2, <1>3

LEMMA BoundsStep == PhaseInv /\ createBoundsForAllocations => PhaseInv'
<1> SUFFICES ASSUME PhaseInv, createBoundsForAllocations PROVE PhaseInv'
  OBVIOUS
<1> USE DEF createBoundsForAllocations, PastMasks, PastLibc, PastStack, PastHeap,
            PastByVal, PastBounds, PastStores, PastChecks, Phases
<1>1. prog' = prog /\ TypeOK' /\ prog' \in Programs
  BY TypeStep DEF PhaseInv, Next
<1>2. SensInv' /\ RegionInv' /\ FreesInv'
  BY <1>1, RegionsStay DEF PhaseInv
<1>3. DroppedInv' /\ CopiedInv'
  BY <1>1, SetStays
<1>4. EntriesInv'
  BY <1>1, SameProgram DEF EntriesInv, IsAllocation
<1>5. SlotsInv' /\ GuardInv' /\ GivesUpOnlyHere'
  BY DEF SlotsInv, GuardInv, GivesUpOnlyHere
<1> QED BY <1>1, <1>2, <1>3, <1>4, <1>5 DEF PhaseInv

----------------------------------------------------------------------------
(* Operands, as the phases meet them *)

LEMMA NamedOperands ==
  ASSUME prog \in Programs
  PROVE  /\ \A k \in Are(Access) : Ptr(k) \in ArgsOf(k)
         /\ \A k \in Are({"store", "ret", "memcpy", "free", "realloc"}) :
              prog.code[k].args[1] \in ArgsOf(k)
         /\ \A k \in Are({"memcpy"}) :
              ArgsOf(k) = {prog.code[k].args[1], prog.code[k].args[2]}
<1>1. ASSUME NEW k \in Pos
      PROVE  /\ Len(prog.code[k].args) \in Arity[OpOf(k)]
             /\ prog.code[k].args \in Seq(Value)
  <2>1. WellFormed(prog)
    BY ProgramsAssumption
  <2> QED BY <2>1, Shape DEF WellFormed, Instr, Pos, OpOf
<1>2. /\ Arity["load"] = {1} /\ Arity["ret"] = {1} /\ Arity["free"] = {1}
      /\ Arity["store"] = {2} /\ Arity["memcpy"] = {2} /\ Arity["realloc"] = {2}
  BY DEF Arity, Op, Access, Heap, Derived, Calls
<1>3. ASSUME NEW k \in Are({"load", "ret", "free"})
      PROVE  DOMAIN prog.code[k].args = {1} /\ k \in Pos
  BY <1>1, <1>2 DEF Are
<1>4. ASSUME NEW k \in Are({"store", "memcpy", "realloc"})
      PROVE  DOMAIN prog.code[k].args = {1, 2} /\ k \in Pos
  BY <1>1, <1>2 DEF Are
<1>5. ASSUME NEW k \in Are(Access) PROVE Ptr(k) \in ArgsOf(k)
  <2>1. CASE OpOf(k) = "load"
    <3>1. k \in Are({"load", "ret", "free"})
      BY <2>1 DEF Are
    <3> QED BY <1>3, <2>1, <3>1 DEF Ptr, ArgsOf, Args
  <2>2. CASE OpOf(k) = "store"
    <3>1. k \in Are({"store", "memcpy", "realloc"})
      BY <2>2 DEF Are
    <3> QED BY <1>4, <2>2, <3>1 DEF Ptr, ArgsOf, Args
  <2> QED BY <2>1, <2>2 DEF Are, Access
<1>6. ASSUME NEW k \in Are({"store", "ret", "memcpy", "free", "realloc"})
      PROVE  prog.code[k].args[1] \in ArgsOf(k)
  <2>1. k \in Are({"load", "ret", "free"}) \cup Are({"store", "memcpy", "realloc"})
    BY DEF Are
  <2>2. 1 \in DOMAIN prog.code[k].args
    BY <1>3, <1>4, <2>1
  <2> QED BY <2>2 DEF ArgsOf, Args
<1>7. ASSUME NEW k \in Are({"memcpy"})
      PROVE  ArgsOf(k) = {prog.code[k].args[1], prog.code[k].args[2]}
  <2>1. k \in Are({"store", "memcpy", "realloc"})
    BY DEF Are
  <2> QED BY <1>4, <2>1 DEF ArgsOf, Args
<1> QED BY <1>5, <1>6, <1>7

\* What has not shifted is as sensitive as the analysis said.
LEMMA NotShifted ==
  ASSUME PhaseInv, pc \in PastHeap, NEW x, IsUsed(x), x \notin Shifted
  PROVE  x \in sens <=> x \in prog.sens
<1>1. CASE x \in Pos
  BY <1>1 DEF Shifted, IsUsed
<1>2. CASE x \notin Pos
  <2>1. sens \subseteq prog.sens \cup Pos /\ prog.sens \ Dropped \subseteq sens
    BY DEF PhaseInv, TypeOK, SensInv, SensAtHeap
  <2>2. Dropped \subseteq Pos
    BY DEF Dropped, MaskedAtFirst, Sandboxed, Are
  <2> QED BY <1>2, <2>1, <2>2
<1> QED BY <1>1, <1>2

\* Where nothing has shifted, bounds are found for every sensitive pointer, and
\* those from the slots are of pointers that the analysis called sensitive.
LEMMA BoundsAtHand ==
  ASSUME PhaseInv, pc \in PastBounds, Shifted = {},
         NEW X, \A x \in X : IsUsed(x) /\ (x \in prog.sens \/ x = Null)
  PROVE  HaveBounds(X) /\ FromSlots(X) \subseteq prog.sens
<1> USE DEF PastBounds, PastByVal, PastHeap
<1>1. Null \notin Pos /\ Null \notin Param
  BY Shape, NamesAssumption DEF PhaseInv
<1>2. ASSUME NEW b \in BasedOn(X), b # Null PROVE b \in prog.sens /\ IsUsed(b)
  <2>1. PICK x \in X : b \in Derivation(x)
    BY DEF BasedOn, getBasedOnValue
  <2>2. x # Null
    BY <1>1, <1>2, <2>1 DEF Derivation
  <2> QED BY <1>2, <2>1, <2>2, DerivationAgrees, DerivationIsUsed DEF PhaseInv
<1>3. ASSUME NEW b \in BasedOn(X) \cap Pos, IsAllocation(b) \/ OpOf(b) = "alloca"
      PROVE  b \in entries
  <2>1. b \in prog.sens /\ IsUsed(b)
    BY <1>1, <1>2
  <2>2. b \in sens
    BY <2>1, NotShifted
  <2>3. OpOf(b) # "strdup"
    <3>1. \A k \in Are(Heap) : OpOf(k) = "strdup" => k \notin prog.sens
      BY DEF PhaseInv, RegionInv
    <3> QED BY <2>1, <3>1 DEF Are, Heap
  <2> QED BY <1>3, <2>2, <2>3 DEF PhaseInv, EntriesInv
<1>4. HaveBounds(X)
  BY <1>3 DEF HaveBounds
<1>5. FromSlots(X) \subseteq prog.sens
  BY <1>1, <1>2 DEF FromSlots
<1> QED BY <1>4, <1>5

LEMMA StoresStep == PhaseInv /\ insertBoundsStores => PhaseInv'
<1> SUFFICES ASSUME PhaseInv, insertBoundsStores PROVE PhaseInv'
  OBVIOUS
<1> USE DEF PastMasks, PastLibc, PastStack, PastHeap,
            PastByVal, PastBounds, PastStores, PastChecks, Phases
<1> DEFINE users == Pointers(storedWithBounds)
                     \cup {prog.code[s[1]].args[s[2]] : s \in argSlots}
                     \cup {prog.code[s[1]].args[1] : s \in returnSlots}
<1>0. /\ pc = "stores" /\ pc' \in {"unreachable", "checks"}
      /\ UNCHANGED <<prog, sens, region, masked, frees, copied, entries, checked, moved>>
      /\ pc' = "unreachable" => ~ HaveBounds(users)
      /\ pc' = "checks" => passed' = argSlots \cup returnSlots /\ fetched' = FromSlots(users)
  BY DEF insertBoundsStores, Unreachable
<1>1. prog' = prog /\ TypeOK' /\ prog' \in Programs
  BY <1>0, TypeStep DEF PhaseInv, Next
<1>2. ASSUME Shifted = {} PROVE HaveBounds(users) /\ FromSlots(users) \subseteq prog.sens
  <2>1. ASSUME NEW k \in Pos, NEW a \in ArgsOf(k)
        PROVE  IsUsed(a) /\ (a \in sens <=> a \in prog.sens)
    BY <1>0, <1>2, <2>1, OperandsAreUsed, NotShifted DEF PhaseInv
  <2>2. ASSUME NEW x \in Pointers(storedWithBounds)
        PROVE  IsUsed(x) /\ (x \in prog.sens \/ x = Null)
    <3>1. PICK k \in Are({"store"}) : ArgsOf(k) \cap sens # {} /\ x = prog.code[k].args[1]
      BY DEF Pointers, storedWithBounds
    <3>2. k \in Pos /\ OpOf(k) = "store"
      BY DEF Are
    <3>3. x \in ArgsOf(k)
      BY <3>1, <3>2, NamedOperands DEF PhaseInv, Are
    <3>4. ArgsOf(k) \cap prog.sens # {}
      BY <2>1, <3>1, <3>2
    <3>5. ClosedSet(prog)
      BY ProgramsAssumption DEF PhaseInv
    <3>6. ArgsOf(k) \ {Null} \subseteq prog.sens
      BY <3>2, <3>4, <3>5 DEF ClosedSet, Pos, OpOf, ArgsOf, Access
    <3> QED BY <2>1, <3>2, <3>3, <3>6
  <2>3. ASSUME NEW s \in argSlots
        PROVE  LET x == prog.code[s[1]].args[s[2]] IN IsUsed(x) /\ x \in prog.sens
    <3>0. PICK k \in Are({"call"}) : \E j \in DOMAIN prog.code[k].args :
            s = <<k, j>> /\ prog.code[k].args[j] \in sens
      BY DEF argSlots, Pointers
    <3>1. PICK j \in DOMAIN prog.code[k].args :
            s = <<k, j>> /\ prog.code[k].args[j] \in sens
      BY <3>0
    <3>2. k \in Pos /\ prog.code[k].args[j] \in ArgsOf(k)
      BY DEF Are, ArgsOf, Args
    <3> QED BY <2>1, <3>1, <3>2
  <2>4. ASSUME NEW s \in returnSlots
        PROVE  LET x == prog.code[s[1]].args[1] IN IsUsed(x) /\ x \in prog.sens
    <3>1. PICK k \in Are({"ret"}) : s = <<k, 0>> /\ prog.code[k].args[1] \in sens
      BY DEF returnSlots, Pointers
    <3>2. k \in Pos /\ prog.code[k].args[1] \in ArgsOf(k)
      BY NamedOperands DEF PhaseInv, Are
    <3> QED BY <2>1, <3>1, <3>2
  <2>5. \A x \in users : IsUsed(x) /\ (x \in prog.sens \/ x = Null)
    BY <2>2, <2>3, <2>4
  <2> HIDE DEF users
  <2> QED BY <1>0, <1>2, <2>5, BoundsAtHand
<1>3. Shifted' = Shifted
  <2>1. prog' = prog /\ sens' = sens
    BY <1>0
  <2> HIDE <1>0
  <2> QED BY <2>1, SameProgram DEF Shifted
<1>4. CASE pc' = "unreachable"
  <2>1. GivesUpOnlyHere'
    BY <1>0, <1>2, <1>3, <1>4 DEF GivesUpOnlyHere
  <2>2. SensInv' /\ DroppedInv' /\ FreesInv' /\ CopiedInv' /\ EntriesInv' /\ SlotsInv' /\ GuardInv'
    BY <1>4 DEF SensInv, DroppedInv, FreesInv, CopiedInv, EntriesInv, SlotsInv, GuardInv
  <2>3. RegionInv'
    BY <1>0, <1>1, <1>4, SameProgram DEF PhaseInv, RegionInv
  <2> QED BY <1>1, <2>1, <2>2, <2>3 DEF PhaseInv
<1>5. CASE pc' = "checks"
  <2>1. SensInv' /\ RegionInv' /\ FreesInv'
    BY <1>0, <1>5, RegionsStay DEF PhaseInv
  <2>2. DroppedInv' /\ CopiedInv'
    BY <1>0, <1>5, SetStays
  <2>3. EntriesInv'
    BY <1>0, SameProgram DEF PhaseInv, EntriesInv, IsAllocation
  <2>4. SlotsInv'
    <3>1. argSlots' = argSlots /\ returnSlots' = returnSlots
      BY <1>0, SameProgram DEF argSlots, returnSlots, Pointers
    <3> QED BY <1>0, <1>2, <1>3, <1>5, <3>1 DEF SlotsInv
  <2>5. GuardInv' /\ GivesUpOnlyHere'
    BY <1>5 DEF GuardInv, GivesUpOnlyHere
  <2> QED BY <1>1, <2>1, <2>2, <2>3, <2>4, <2>5 DEF PhaseInv
<1> QED BY <1>0, <1>4, <1>5

LEMMA ChecksAsPlanned ==
  ASSUME prog' = prog, sens' = sens
  PROVE  CheckedLoadsAndStores' = CheckedLoadsAndStores
<1>1. needsBounds' = needsBounds
  BY SameProgram DEF needsBounds
<1> QED BY <1>1, SameProgram, SameDerivation DEF CheckedLoadsAndStores

LEMMA ChecksStep == PhaseInv /\ insertBoundsChecks => PhaseInv'
<1> SUFFICES ASSUME PhaseInv, insertBoundsChecks PROVE PhaseInv'
  OBVIOUS
<1> USE DEF PastMasks, PastLibc, PastStack, PastHeap,
            PastByVal, PastBounds, PastStores, PastChecks, Phases
<1> DEFINE users == {Ptr(k) : k \in needsBounds}
<1>0. /\ pc = "checks" /\ pc' \in {"unreachable", "copies"}
      /\ UNCHANGED <<prog, sens, region, masked, frees, copied, entries, passed, moved>>
      /\ pc' = "unreachable" => ~ HaveBounds(users)
      /\ pc' = "copies" => checked' = CheckedLoadsAndStores /\ fetched' = fetched \cup FromSlots(users)
  BY DEF insertBoundsChecks, CheckedLoadsAndStores, Unreachable
<1>1. prog' = prog /\ TypeOK' /\ prog' \in Programs
  BY <1>0, TypeStep DEF PhaseInv, Next
<1>2. ASSUME Shifted = {} PROVE HaveBounds(users) /\ FromSlots(users) \subseteq prog.sens
  <2>1. ASSUME NEW k \in needsBounds PROVE IsUsed(Ptr(k)) /\ Ptr(k) \in prog.sens
    <3>1. k \in Pos /\ Ptr(k) \in ArgsOf(k) /\ Ptr(k) \in sens
      BY NamedOperands DEF PhaseInv, needsBounds, Are
    <3> QED BY <1>0, <1>2, <3>1, OperandsAreUsed, NotShifted DEF PhaseInv
  <2>2. \A x \in users : IsUsed(x) /\ (x \in prog.sens \/ x = Null)
    BY <2>1
  <2> HIDE DEF users
  <2> QED BY <1>0, <1>2, <2>2, BoundsAtHand
<1>3. Shifted' = Shifted
  <2>1. prog' = prog /\ sens' = sens
    BY <1>0
  <2> HIDE <1>0
  <2> QED BY <2>1, SameProgram DEF Shifted
<1>4. CASE pc' = "unreachable"
  <2>1. GivesUpOnlyHere'
    BY <1>0, <1>2, <1>3, <1>4 DEF GivesUpOnlyHere
  <2>2. SensInv' /\ DroppedInv' /\ FreesInv' /\ CopiedInv' /\ EntriesInv' /\ SlotsInv' /\ GuardInv'
    BY <1>4 DEF SensInv, DroppedInv, FreesInv, CopiedInv, EntriesInv, SlotsInv, GuardInv
  <2>3. RegionInv'
    BY <1>0, <1>1, <1>4, SameProgram DEF PhaseInv, RegionInv
  <2> QED BY <1>1, <2>1, <2>2, <2>3 DEF PhaseInv
<1>5. CASE pc' = "copies"
  <2>1. SensInv' /\ RegionInv' /\ FreesInv'
    BY <1>0, <1>5, RegionsStay DEF PhaseInv
  <2>2. DroppedInv' /\ CopiedInv'
    BY <1>0, <1>5, SetStays
  <2>3. EntriesInv'
    BY <1>0, SameProgram DEF PhaseInv, EntriesInv, IsAllocation
  <2>4. SlotsInv'
    <3>1. argSlots' = argSlots /\ returnSlots' = returnSlots
      BY <1>0, SameProgram DEF argSlots, returnSlots, Pointers
    <3>2. passed = argSlots \cup returnSlots /\ (Shifted = {} => fetched \subseteq prog.sens)
      BY <1>0 DEF PhaseInv, SlotsInv
    <3> QED BY <1>0, <1>2, <1>3, <1>5, <3>1, <3>2 DEF SlotsInv
  <2>5. GuardInv'
    <3>1. CheckedLoadsAndStores' = CheckedLoadsAndStores
      BY <1>0, ChecksAsPlanned
    <3> QED BY <1>0, <1>5, <3>1 DEF GuardInv
  <2>6. GivesUpOnlyHere'
    BY <1>5 DEF GivesUpOnlyHere
  <2> QED BY <1>1, <2>1, <2>2, <2>3, <2>4, <2>5, <2>6 DEF PhaseInv
<1> QED BY <1>0, <1>4, <1>5

LEMMA CopiesStep == PhaseInv /\ metadataCopy => PhaseInv'
<1> SUFFICES ASSUME PhaseInv, metadataCopy PROVE PhaseInv'
  OBVIOUS
<1> USE DEF PastMasks, PastLibc, PastStack, PastHeap,
            PastByVal, PastBounds, PastStores, PastChecks, Phases
<1>0. /\ pc = "copies" /\ pc' = "done"
      /\ UNCHANGED <<prog, sens, region, masked, frees, copied, entries, passed, fetched, checked>>
      /\ moved' = {k \in Are({"memcpy"}) : prog.code[k].args[1] \in sens}
  BY DEF metadataCopy
<1>1. prog' = prog /\ TypeOK' /\ prog' \in Programs
  BY <1>0, TypeStep DEF PhaseInv, Next
<1>2. SensInv' /\ RegionInv' /\ FreesInv'
  BY <1>0, RegionsStay DEF PhaseInv
<1>3. DroppedInv' /\ CopiedInv' /\ Shifted' = Shifted
  BY <1>0, SetStays
<1>4. EntriesInv'
  BY <1>0, SameProgram DEF PhaseInv, EntriesInv, IsAllocation
<1>5. SlotsInv'
  <2>1. argSlots' = argSlots /\ returnSlots' = returnSlots
    BY <1>0, SameProgram DEF argSlots, returnSlots, Pointers
  <2> QED BY <1>0, <1>3, <2>1 DEF PhaseInv, SlotsInv
<1>6. GuardInv'
  <2>1. CheckedLoadsAndStores' = CheckedLoadsAndStores
    BY <1>0, ChecksAsPlanned
  <2> QED BY <1>0, <2>1, SameProgram DEF PhaseInv, GuardInv
<1>7. GivesUpOnlyHere'
  BY <1>0 DEF GivesUpOnlyHere
<1> QED BY <1>1, <1>2, <1>3, <1>4, <1>5, <1>6, <1>7 DEF PhaseInv

LEMMA EndedStep == PhaseInv /\ (Ended \/ UNCHANGED vars) => PhaseInv'
<1> SUFFICES ASSUME PhaseInv, UNCHANGED vars PROVE PhaseInv'
  BY DEF Ended
<1>1. /\ \A ops : Are(ops)' = Are(ops)
      /\ \A k : OpOf(k)' = OpOf(k)
      /\ \A X : Users(X)' = Users(X)
      /\ MaskedAtFirst' = MaskedAtFirst /\ Dropped' = Dropped
      /\ StackObjects' = StackObjects /\ SensAtHeap' = SensAtHeap
      /\ \A k : Allocates(k)' = Allocates(k)
      /\ Pos' = Pos /\ \A k : ArgsOf(k)' = ArgsOf(k) /\ Ptr(k)' = Ptr(k)
  BY SameProgram, SameAnalysis DEF vars
<1>2. TypeOK' /\ prog' \in Programs
  BY TypeStep DEF PhaseInv, vars
<1>3. SensInv' /\ DroppedInv' /\ FreesInv' /\ CopiedInv'
  BY <1>1 DEF vars, PhaseInv, SensInv, DroppedInv, FreesInv, CopiedInv
<1>4. RegionInv'
  BY <1>1 DEF vars, PhaseInv, RegionInv
<1>5. EntriesInv'
  BY <1>1 DEF vars, PhaseInv, EntriesInv, IsAllocation
<1>6. Shifted' = Shifted
  BY <1>1 DEF vars, Shifted
<1>7. SlotsInv'
  <2>1. argSlots' = argSlots /\ returnSlots' = returnSlots
    BY <1>1 DEF vars, argSlots, returnSlots, Pointers
  <2> QED BY <1>6, <2>1 DEF vars, PhaseInv, SlotsInv
<1>8. GuardInv'
  <2>1. CheckedLoadsAndStores' = CheckedLoadsAndStores
    BY ChecksAsPlanned DEF vars
  <2> QED BY <1>1, <2>1 DEF vars, PhaseInv, GuardInv
<1>9. GivesUpOnlyHere'
  BY <1>1, <1>6 DEF vars, PhaseInv, GivesUpOnlyHere
<1> QED BY <1>2, <1>3, <1>4, <1>5, <1>7, <1>8, <1>9 DEF PhaseInv

LEMMA PhasesAsPlanned == Spec => []PhaseInv
<1>1. PhaseInv /\ [Next]_vars => PhaseInv'
  BY AllocatorsStep, MasksStep, LibcStep, StackStep, HeapStep, ByValStep, BoundsStep,
     StoresStep, ChecksStep, CopiesStep, EndedStep DEF Next
<1> QED BY <1>1, PhaseInit, PTL DEF Spec

----------------------------------------------------------------------------
(* Where the set stays what the analysis left *)

\* In a function that contains its sensitive values, what uses an object is
\* sensitive, if it is a value that is used in turn.
LEMMA UsersAreSensitive ==
  ASSUME prog \in Programs, Contained, NEW X, X \subseteq Objects,
         NEW k \in Users(X), OpOf(k) \notin NoValue, Users({k}) # {}
  PROVE  k \in prog.sens
<1>1. k \in Pos /\ OpOf(k) \in Op
  BY Shape DEF Users
<1>2. PICK a \in ArgsOf(k) : a \in X
  BY DEF Users
<1>3. a \in Objects /\ a \in prog.sens
  BY <1>2 DEF Objects
<1>4. WellFormed(prog) /\ ClosedSet(prog)
  BY ProgramsAssumption
<1>5. CASE OpOf(k) \in Access \cup Derived \cup {"alloca"}
  <2>1. \/ (ArgsOf(k) \cup {k}) \cap prog.sens = {}
        \/ (ArgsOf(k) \ {Null}) \cup {k} \subseteq prog.sens
    BY <1>1, <1>4, <1>5 DEF ClosedSet, Pos, OpOf, ArgsOf
  <2> QED BY <1>2, <1>3, <2>1
<1>6. CASE OpOf(k) \in Heap \cup Calls
  BY <1>1, <1>2, <1>3, <1>6 DEF Contained
<1>7. CASE OpOf(k) \in {"mmap", "strerror"}
  <2>1. Arity[OpOf(k)] = {0}
    BY <1>7 DEF Arity, Op, Calls
  <2>2. Len(prog.code[k].args) = 0 /\ prog.code[k].args \in Seq(Value)
    BY <1>1, <1>4, <2>1, Shape DEF WellFormed, Instr, Pos, OpOf
  <2>3. DOMAIN prog.code[k].args = {}
    BY <2>2
  <2> QED BY <1>2, <2>3 DEF ArgsOf, Args
<1> QED BY <1>1, <1>5, <1>6, <1>7 DEF Op, Calls, NoValue

\* Until the allocations are replaced, the set is known in closed form.
KeptSet == Contained => Shifted = {}

Early == pc \in {"allocators", "masks", "libc", "stack", "heap"}

LEMMA KeptEarly == PhaseInv /\ Early => KeptSet
<1> SUFFICES ASSUME PhaseInv, Contained, Early, NEW k \in Pos, OpOf(k) \notin NoValue,
                    Users({k}) # {}
             PROVE  k \in sens <=> k \in prog.sens
  BY DEF Shifted, KeptSet
<1>1. k \in prog.sens => k \notin Dropped
  <2> SUFFICES ASSUME k \in prog.sens, k \in Dropped PROVE FALSE
    OBVIOUS
  <2>1. k \in Are({"load", "strerror"}) /\ ArgsOf(k) \subseteq {Null}
    BY DroppedAlone DEF PhaseInv
  <2>2. OpOf(k) # "strerror" /\ ~ (k \in Sandboxed /\ Ptr(k) = Null)
    BY DEF Contained
  <2>3. k \in Are({"load"})
    BY <2>1, <2>2 DEF Are
  <2>4. Ptr(k) = Null
    BY <2>1, <2>3, NamedOperands DEF PhaseInv, Are, Access
  <2>5. k \in Sandboxed
    BY <2>3 DEF Dropped, MaskedAtFirst, Are
  <2> QED BY <2>2, <2>4, <2>5
<1>2. k \in Users(StackObjects) => k \in prog.sens
  <2>1. StackObjects \subseteq Objects
    BY DEF StackObjects, Objects, Are
  <2> QED BY <2>1, UsersAreSensitive DEF PhaseInv
<1> QED BY <1>1, <1>2 DEF PhaseInv, SensInv, Dropped, SensAtHeap, Early

LEMMA KeptEarlyNext == PhaseInv' /\ Early' => KeptSet'
BY KeptEarly, PTL

Allocated == prog.sens \cap (Are(Heap) \cup Are({"alloca"}))

\* What uses an object that has been replaced is in the set.
TakenInv ==
  /\ pc \in PastHeap => Users(Allocated) \subseteq sens
  /\ pc \in PastByVal => Users(copied) \subseteq sens

KeptInv == TakenInv /\ KeptSet

LEMMA SameSet ==
  ASSUME prog' = prog
  PROVE  /\ Contained' = Contained
         /\ Users(Allocated)' = Users(Allocated)
         /\ sens' = sens => Shifted' = Shifted
<1>1. /\ Pos' = Pos
      /\ \A ops : Are(ops)' = Are(ops)
      /\ \A X : Users(X)' = Users(X)
      /\ \A k : OpOf(k)' = OpOf(k) /\ ArgsOf(k)' = ArgsOf(k) /\ Ptr(k)' = Ptr(k)
  BY SameProgram
<1>2. Objects' = Objects /\ Sandboxed' = Sandboxed
  BY <1>1 DEF Objects, Sandboxed
<1>3. Contained' = Contained
  BY <1>1, <1>2 DEF Contained
<1>4. ASSUME sens' = sens PROVE Shifted' = Shifted
  BY <1>1, <1>4 DEF Shifted
<1>5. Allocated' = Allocated
  BY <1>1 DEF Allocated
<1> QED BY <1>1, <1>3, <1>4, <1>5 DEF Users

LEMMA KeptHeap ==
  ASSUME PhaseInv, PhaseInv', KeptInv, replaceAllocationsWithSafe, pc' = "byval"
  PROVE  KeptInv'
<1> USE DEF PastMasks, PastLibc, PastStack, PastHeap, PastByVal, Phases
<1>1. /\ prog' = prog /\ pc = "heap"
      /\ sens' = sens \cup Collected \cup Users(Collected)
  BY DEF replaceAllocationsWithSafe, Unreachable
<1>2. sens = SensAtHeap
  BY <1>1 DEF PhaseInv, SensInv
<1>3. TakenInv'
  <2>1. Users(StackObjects) \subseteq sens
    BY <1>2 DEF SensAtHeap
  <2>2. ASSUME NEW a \in prog.sens \cap Are(Heap) PROVE a \in Collected
    <3>1. a \notin Dropped
      BY DEF Dropped, MaskedAtFirst, Sandboxed, Are, Access, Heap
    <3>2. a \in sens
      BY <1>2, <3>1 DEF SensAtHeap
    <3> QED BY <3>2 DEF Collected, IsAllocation, isAnyOperandSensitive, Are
  <2>3. ASSUME NEW k \in Users(Allocated)
        PROVE  k \in sens'
    <3>1. PICK a \in ArgsOf(k) : a \in prog.sens \cap (Are(Heap) \cup Are({"alloca"}))
      BY DEF Users, Allocated
    <3>2. CASE a \in Are(Heap)
      BY <1>1, <2>2, <3>1, <3>2 DEF Users
    <3>3. CASE a \in Are({"alloca"})
      BY <1>1, <2>1, <3>1, <3>3 DEF Users, StackObjects
    <3> QED BY <3>1, <3>2, <3>3
  <2> QED BY <1>1, <2>3, SameSet DEF TakenInv
<1>4. ASSUME Contained PROVE Shifted' = {}
  <2>1. Shifted = {}
    BY <1>4 DEF KeptInv, KeptSet
  <2>2. \A k \in Pos : OpOf(k) \notin NoValue /\ Users({k}) # {} =>
                         (k \in sens <=> k \in prog.sens)
    BY <2>1 DEF Shifted
  <2>3. ASSUME NEW k \in Collected, OpOf(k) \notin NoValue, Users({k}) # {}
        PROVE  k \in prog.sens
    <3>1. k \in Pos /\ (OpOf(k) \in Heap \/ OpOf(k) = "alloca")
      BY <2>3 DEF Collected, IsAllocation, NoValue
    <3>2. PICK a \in ArgsOf(k) \cup {k} : a \in sens
      BY DEF Collected, isAnyOperandSensitive
    <3>3. a \in prog.sens
      <4>1. sens \subseteq prog.sens \cup Pos
        BY DEF PhaseInv, TypeOK
      <4>2. a \in Pos => OpOf(a) \notin NoValue /\ Users({a}) # {}
        BY <2>3, <3>1, <3>2, OperandsAreUsed DEF PhaseInv, IsUsed
      <4> QED BY <2>2, <3>2, <4>1, <4>2
    <3>4. CASE OpOf(k) \in Heap
      BY <1>4, <2>3, <3>1, <3>2, <3>3, <3>4 DEF Contained
    <3>5. CASE OpOf(k) = "alloca"
      <4>1. \/ (ArgsOf(k) \cup {k}) \cap prog.sens = {}
            \/ (ArgsOf(k) \ {Null}) \cup {k} \subseteq prog.sens
        BY <3>1, <3>5, ProgramsAssumption DEF PhaseInv, ClosedSet, Pos, OpOf, ArgsOf
      <4> QED BY <3>2, <3>3, <4>1
    <3> QED BY <3>1, <3>4, <3>5
  <2>4. ASSUME NEW k \in Users(Collected), OpOf(k) \notin NoValue, Users({k}) # {}
        PROVE  k \in prog.sens
    <3>1. k \in Pos
      BY DEF Users
    <3>2. PICK a \in ArgsOf(k) : a \in Collected
      BY DEF Users
    <3>3. a \in Pos /\ OpOf(a) \notin NoValue /\ Users({a}) # {}
      BY <3>1, <3>2, OperandsAreUsed DEF PhaseInv, IsUsed, Collected
    <3>4. a \in prog.sens
      BY <2>3, <3>2, <3>3
    <3>5. a \in Objects
      BY <3>2, <3>3, <3>4 DEF Objects, Are, Collected, IsAllocation, Heap
    <3>6. k \in Users({a})
      BY <3>1, <3>2 DEF Users
    <3> QED BY <1>4, <2>4, <3>5, <3>6, UsersAreSensitive DEF PhaseInv
  <2> QED BY <1>1, <2>2, <2>3, <2>4, SameProgram DEF Shifted
<1> QED BY <1>1, <1>3, <1>4, SameSet DEF KeptInv, KeptSet

LEMMA KeptByVal ==
  ASSUME PhaseInv, PhaseInv', KeptInv, replaceByValSensitiveArguments
  PROVE  KeptInv'
<1> USE DEF PastMasks, PastLibc, PastStack, PastHeap, PastByVal, Phases
<1>1. /\ prog' = prog /\ pc = "byval" /\ pc' = "bounds"
      /\ sens' = sens \cup Users(copied')
  BY DEF replaceByValSensitiveArguments
<1>2. copied' = prog.byval \cap prog.sens
  BY <1>1 DEF PhaseInv, CopiedInv
<1>3. TakenInv'
  <2>1. Users(copied)' = Users(copied')
    BY <1>1, SameProgram DEF Users
  <2> QED BY <1>1, <2>1, SameSet DEF KeptInv, TakenInv
<1>4. ASSUME Contained PROVE Shifted' = {}
  <2>1. \A k \in Pos : OpOf(k) \notin NoValue /\ Users({k}) # {} =>
                         (k \in sens <=> k \in prog.sens)
    BY <1>4 DEF KeptInv, KeptSet, Shifted
  <2>2. copied' \subseteq Objects
    BY <1>2 DEF Objects
  <2>3. \A k \in Users(copied') : OpOf(k) \notin NoValue /\ Users({k}) # {} => k \in prog.sens
    BY <1>4, <2>2, UsersAreSensitive DEF PhaseInv
  <2> QED BY <1>1, <2>1, <2>3, SameProgram DEF Shifted
<1> QED BY <1>1, <1>3, <1>4, SameSet DEF KeptInv, KeptSet

LEMMA KeptStep == PhaseInv /\ PhaseInv' /\ KeptInv /\ [Next]_vars => KeptInv'
<1> SUFFICES ASSUME PhaseInv, PhaseInv', KeptInv, [Next]_vars PROVE KeptInv'
  OBVIOUS
<1> USE DEF PastMasks, PastLibc, PastStack, PastHeap, PastByVal, Phases
<1>1. prog' = prog
  BY ProgramStays
<1>2. CASE insertPointerMasks \/ replaceCFuncsThatAlloc
  <2>1. pc' \in {"libc", "stack"}
    BY <1>2 DEF insertPointerMasks, replaceCFuncsThatAlloc
  <2>2. KeptSet'
    BY <2>1, KeptEarlyNext DEF Early
  <2> QED BY <2>1, <2>2 DEF KeptInv, TakenInv
<1>3. CASE moveSensitiveAllocsToHeap /\ pc' = "heap"
  <2>1. KeptSet'
    BY <1>3, KeptEarlyNext DEF Early
  <2> QED BY <1>3, <2>1 DEF KeptInv, TakenInv
<1>4. CASE replaceAllocationsWithSafe /\ pc' = "byval"
  BY <1>4, KeptHeap
<1>5. CASE replaceByValSensitiveArguments
  BY <1>5, KeptByVal
<1>6. CASE /\ sens' = sens /\ copied' = copied
           /\ pc' \in PastHeap => pc \in PastHeap
           /\ pc' \in PastByVal => pc \in PastByVal
  <2>1. TakenInv'
    BY <1>1, <1>6, SameSet, SameProgram DEF KeptInv, TakenInv
  <2> QED BY <1>1, <1>6, <2>1, SameSet DEF KeptInv, KeptSet
<1>7. CASE moveSensitiveAllocsToHeap /\ pc' # "heap"
  BY <1>6, <1>7 DEF moveSensitiveAllocsToHeap, Unreachable
<1>8. CASE replaceAllocationsWithSafe /\ pc' # "byval"
  BY <1>6, <1>8 DEF replaceAllocationsWithSafe, Unreachable
<1>9. CASE replaceAllByNameWith
  BY <1>6, <1>9 DEF replaceAllByNameWith
<1>10. CASE createBoundsForAllocations \/ metadataCopy \/ Ended \/ UNCHANGED vars
  BY <1>6, <1>10 DEF createBoundsForAllocations, metadataCopy, Ended, vars
<1>11. CASE insertBoundsStores \/ insertBoundsChecks
  <2>1. /\ sens' = sens /\ copied' = copied
        /\ pc \in PastByVal /\ pc \in PastHeap
    BY <1>11 DEF insertBoundsStores, insertBoundsChecks
  <2> QED BY <1>6, <2>1
<1> QED BY <1>2, <1>3, <1>4, <1>5, <1>7, <1>8, <1>9, <1>10, <1>11 DEF Next

LEMMA KeptForEver == Spec => []KeptInv
<1>1. Init => KeptInv
  <2> SUFFICES ASSUME Init PROVE KeptInv
    OBVIOUS
  <2>1. PhaseInv /\ pc = "allocators"
    BY PhaseInit DEF Init
  <2> QED BY <2>1, KeptEarly
          DEF Early, KeptInv, TakenInv, PastHeap, PastByVal, PastStack, PastLibc, PastMasks
<1> QED BY <1>1, KeptStep, PhasesAsPlanned, PTL DEF Spec

----------------------------------------------------------------------------
(* The properties *)

\* Every state of the phases has the right types: regions, slots and checks speak
\* of instructions and parameters of the function.
THEOREM TypeCorrect == Spec => []TypeOK
BY PhasesAsPlanned, PTL DEF PhaseInv

\* Where nothing has shifted, a base is in the safe region if the analysis has
\* called it sensitive.
LEMMA SensitiveMeansSafe ==
  ASSUME PhaseInv, pc = "done", NEW x, IsUsed(x), Steady(x),
         NEW b \in getBasedOnValue(x), b # Null
  PROVE  InSafeRegion(b) <=> x \in prog.sens
<1> USE DEF PastMasks, PastLibc, PastStack, PastHeap, PastByVal, Phases
<1>1. b \in Derivation(x)
  BY DEF getBasedOnValue
<1>2. Null \notin Pos
  BY Shape, NamesAssumption DEF PhaseInv
<1>3. x # Null
  BY <1>1, <1>2 DEF Derivation
<1>4. b \in prog.sens <=> x \in prog.sens
  BY <1>1, <1>3, DerivationAgrees DEF PhaseInv
<1>5. IsUsed(b)
  BY <1>1, DerivationIsUsed DEF PhaseInv
<1>6. b \notin Shifted /\ (b \in Are({"mmap"}) => b \notin prog.sens)
  BY <1>1 DEF Steady
<1>7. b \in sens <=> b \in prog.sens
  BY <1>5, <1>6, NotShifted
<1>8. InSafeRegion(b) <=> b \in prog.sens
  <2>1. CASE b \in Are(Heap)
    <3>1. IsAllocation(b)
      BY <1>5, <2>1 DEF IsUsed, IsAllocation, Are, NoValue
    <3>2. region[b] = "safe" => b \in prog.sens
      BY <1>7, <2>1 DEF PhaseInv, RegionInv
    <3>3. b \in prog.sens => region[b] = "safe"
      <4>1. b \notin Dropped
        BY <2>1 DEF Dropped, MaskedAtFirst, Sandboxed, Are, Access, Heap
      <4>2. b \in prog.sens => Allocates(b)
        BY <4>1 DEF Allocates, SensAtHeap
      <4> QED BY <2>1, <4>2 DEF PhaseInv, RegionInv
    <3> QED BY <2>1, <3>1, <3>2, <3>3 DEF InSafeRegion, Are
  <2>2. CASE b \in Are({"alloca"})
    BY <2>2 DEF PhaseInv, RegionInv, InSafeRegion, Are
  <2>3. CASE b \in Are({"mmap"})
    BY <1>6, <2>3 DEF PhaseInv, RegionInv, InSafeRegion, Are
  <2>4. CASE b \in Are({"strerror"})
    BY <2>4 DEF PhaseInv, RegionInv, InSafeRegion, Are
  <2>5. CASE b \in Pos /\ OpOf(b) \notin Heap \cup {"alloca", "mmap", "strerror"}
    BY <2>5 DEF InSafeRegion, IsAllocation
  <2>6. CASE b \notin Pos
    BY <2>6 DEF PhaseInv, CopiedInv, InSafeRegion
  <2> QED BY <2>1, <2>2, <2>3, <2>4, <2>5, <2>6 DEF Are
<1> QED BY <1>4, <1>8

\* Accesses to the safe region are never masked, and checked unless they can only
\* be to globals, all others are masked where the mode says so and never checked:
\* for functions of any length over the instructions of Op.
THEOREM GuardsFitRegions == Spec => []GuardMatchesRegion
<1>1. PhaseInv => GuardMatchesRegion
  <2> SUFFICES ASSUME PhaseInv, pc = "done", NEW k \in Are(Access),
                      Ptr(k) \notin Global, Steady(Ptr(k)),
                      NEW b \in getBasedOnValue(Ptr(k)), b # Null
               PROVE  IF InSafeRegion(b)
                      THEN k \notin masked /\ (b \notin Global => k \in checked)
                      ELSE k \notin checked /\ (k \in masked <=> k \in Sandboxed)
    BY DEF GuardMatchesRegion
  <2> USE DEF PastMasks, PastLibc, PastStack, PastHeap, PastByVal, PastBounds, PastStores,
              PastChecks, Phases
  <2>1. k \in Pos /\ Ptr(k) \in ArgsOf(k)
    BY NamedOperands DEF PhaseInv, Are
  <2>2. IsUsed(Ptr(k))
    BY <2>1, OperandsAreUsed DEF PhaseInv
  <2>3. InSafeRegion(b) <=> Ptr(k) \in prog.sens
    BY <2>2, SensitiveMeansSafe
  <2>4. Ptr(k) \notin Shifted
    <3>1. Ptr(k) \in Derivation(Ptr(k))
      BY DerivationSteps DEF PhaseInv, Derivation
    <3> QED BY <3>1 DEF Steady
  <2>5. Ptr(k) \in sens <=> Ptr(k) \in prog.sens
    BY <2>2, <2>4, NotShifted
  <2>6. checked = CheckedLoadsAndStores /\ masked = MaskedAtFirst
    BY DEF PhaseInv, GuardInv, SensInv
  <2>7. b \notin Global => ~hasInfiniteBounds(Ptr(k))
    BY DEF hasInfiniteBounds
  <2> QED BY <2>3, <2>5, <2>6, <2>7 DEF CheckedLoadsAndStores, needsBounds, MaskedAtFirst
<1> QED BY <1>1, PhasesAsPlanned, PTL

\* free and realloc use the heap their pointer comes from: for functions of any length
\* over the instructions of Op.
THEOREM HeapsGetTheirsBack == Spec => []FreesMatchRegions
<1>1. PhaseInv => FreesMatchRegions
  <2> SUFFICES ASSUME PhaseInv, pc = "done", NEW k \in Are({"free", "realloc"}),
                      \A y \in ArgsOf(k) : Steady(y),
                      \/ prog.code[k].args[1] \in prog.sens
                      \/ (ArgsOf(k) \cup {k}) \cap prog.sens = {},
                      NEW b \in getBasedOnValue(prog.code[k].args[1]), b # Null
               PROVE  (region[k] = "safe") = InSafeRegion(b)
    BY DEF FreesMatchRegions
  <2> USE DEF PastMasks, PastLibc, PastStack, PastHeap, PastByVal, PastBounds, PastStores,
              PastChecks, Phases
  <2> DEFINE x == prog.code[k].args[1]
  <2>1. k \in Pos /\ k \in Are(Heap) /\ x \in ArgsOf(k)
    BY NamedOperands DEF PhaseInv, Are, Heap
  <2>2. ASSUME NEW y \in ArgsOf(k) PROVE IsUsed(y) /\ (y \in sens <=> y \in prog.sens)
    <3>1. IsUsed(y)
      BY <2>1, OperandsAreUsed DEF PhaseInv
    <3>2. y \in Derivation(y)
      BY DerivationSteps DEF PhaseInv, Derivation
    <3> QED BY <3>1, <3>2, NotShifted DEF Steady
  <2>3. InSafeRegion(b) <=> x \in prog.sens
    BY <2>1, <2>2, SensitiveMeansSafe
  <2>4. region[k] = "safe" <=> Allocates(k)
    BY <2>1 DEF PhaseInv, RegionInv
  <2>5. SensAtHeap \subseteq sens
    BY DEF PhaseInv, SensInv
  <2>6. CASE x \in prog.sens
    <3>1. x \notin Dropped
      <4>1. SUFFICES ASSUME x \in Dropped PROVE FALSE
        OBVIOUS
      <4>2. x \in Pos
        BY <4>1 DEF Dropped, MaskedAtFirst, Sandboxed, Are
      <4>3. OpOf(x) \notin NoValue /\ x \in sens
        BY <2>1, <2>2, <2>6, <4>2 DEF IsUsed
      <4> QED BY <2>6, <4>1, <4>3 DEF PhaseInv, DroppedInv
    <3>2. Allocates(k)
      BY <2>1, <2>6, <3>1 DEF Allocates, SensAtHeap
    <3> QED BY <2>3, <2>4, <2>6, <3>2
  <2>7. CASE x \notin prog.sens
    <3>1. (ArgsOf(k) \cup {k}) \cap prog.sens = {}
      BY <2>7
    <3>2. k \notin SensAtHeap
      BY <3>1 DEF SensAtHeap, Users, StackObjects
    <3>3. \A y \in ArgsOf(k) : y \notin SensAtHeap
      BY <2>2, <2>5, <3>1
    <3>4. ~Allocates(k)
      BY <3>2, <3>3 DEF Allocates
    <3>5. (region[k] = "safe") = FALSE
      BY <2>4, <3>4
    <3>6. InSafeRegion(b) = FALSE
      BY <2>3, <2>7 DEF InSafeRegion
    <3> QED BY <3>5, <3>6
  <2> QED BY <2>6, <2>7
<1> QED BY <1>1, PhasesAsPlanned, PTL

\* Sensitive stack objects are moved, get bounds, and are freed by every return.
THEOREM NoObjectLeftOnTheStack == Spec => []StackObjectsMoved
<1>1. PhaseInv => StackObjectsMoved
  <2> SUFFICES ASSUME PhaseInv, pc = "done", NEW k \in Are({"alloca"}), k \in prog.sens
               PROVE  /\ region[k] = "safe"
                      /\ k \in entries
                      /\ \A r \in Are({"ret"}) : k \in frees[r]
    BY DEF StackObjectsMoved
  <2> USE DEF PastMasks, PastLibc, PastStack, PastHeap, PastByVal, PastBounds, PastStores,
              PastChecks, Phases
  <2>1. region[k] = "safe"
    BY DEF PhaseInv, RegionInv
  <2>2. k \in sens
    <3>1. k \notin Dropped
      BY DEF Dropped, MaskedAtFirst, Sandboxed, Are, Access
    <3> QED BY <3>1 DEF PhaseInv, SensInv, SensAtHeap
  <2>3. k \in entries
    BY <2>2 DEF PhaseInv, EntriesInv, Are
  <2>4. \A r \in Are({"ret"}) : k \in frees[r]
    BY DEF PhaseInv, FreesInv, StackObjects
  <2> QED BY <2>1, <2>3, <2>4
<1> QED BY <1>1, PhasesAsPlanned, PTL

\* The phases keep the set exactly in the functions that contain their sensitive
\* values: a condition on what the analysis left, and not on what became of it.
THEOREM ContainedFunctionsKeepTheirSet == Spec => []SetIsKept
<1>1. ASSUME PhaseInv, KeptInv, pc = "done", Shifted = {} PROVE Contained
  <2> USE DEF PastMasks, PastLibc, PastStack, PastHeap, PastByVal, PastBounds, PastStores,
              PastChecks, Phases
  <2>1. SUFFICES ASSUME NEW k \in Pos, Users({k}) # {}
        PROVE  /\ OpOf(k) \in Calls /\ k \notin prog.sens => ArgsOf(k) \cap Objects = {}
               /\ OpOf(k) \in Heap /\ k \notin prog.sens => ArgsOf(k) \cap prog.sens = {}
               /\ k \in prog.sens =>
                    OpOf(k) # "strerror" /\ ~ (k \in Sandboxed /\ Ptr(k) = Null)
    BY DEF Contained
  <2>2. OpOf(k) \notin NoValue
    <3>1. PICK u \in Pos : k \in ArgsOf(u)
      BY <2>1 DEF Users
    <3> QED BY <1>1, <3>1, OperandsAreUsed DEF PhaseInv, IsUsed
  <2>3. k \in sens <=> k \in prog.sens
    BY <1>1, <2>1, <2>2 DEF Shifted
  <2>4. ASSUME NEW a \in prog.sens, a \in Dropped, OpOf(a) \notin NoValue, Users({a}) # {}
        PROVE  FALSE
    <3>1. a \in Pos
      BY <2>4 DEF Dropped, MaskedAtFirst, Sandboxed, Are
    <3>2. a \notin sens
      BY <1>1, <2>4 DEF PhaseInv, DroppedInv
    <3> QED BY <1>1, <2>4, <3>1, <3>2 DEF Shifted
  <2>5. ASSUME OpOf(k) \in Calls, k \notin prog.sens, NEW a \in ArgsOf(k) \cap Objects
        PROVE  FALSE
    <3>1. k \in Users(Allocated) \/ k \in Users(prog.byval \cap prog.sens)
      BY DEF Objects, Allocated, Users, Are
    <3>2. k \in sens
      BY <1>1, <3>1 DEF KeptInv, TakenInv, PhaseInv, CopiedInv
    <3> QED BY <2>3, <2>5, <3>2
  <2>6. ASSUME OpOf(k) \in Heap, k \notin prog.sens, NEW a \in ArgsOf(k) \cap prog.sens
        PROVE  FALSE
    <3>1. a \notin Dropped
      <4>1. a \in Dropped => a \in Pos
        BY DEF Dropped, MaskedAtFirst, Sandboxed, Are
      <4>2. IsUsed(a)
        BY <1>1, OperandsAreUsed DEF PhaseInv
      <4> QED BY <2>4, <4>1, <4>2 DEF IsUsed
    <3>2. Allocates(k)
      BY <3>1 DEF Allocates, SensAtHeap
    <3>3. k \in sens
      BY <1>1, <2>6, <3>2 DEF PhaseInv, RegionInv, Are
    <3> QED BY <2>3, <2>6, <3>3
  <2>7. ASSUME k \in prog.sens, OpOf(k) = "strerror" PROVE FALSE
    BY <2>1, <2>2, <2>4, <2>7 DEF Dropped, Are
  <2>8. ASSUME k \in prog.sens, k \in Sandboxed, Ptr(k) = Null PROVE FALSE
    <3>1. Null \notin prog.sens \cup Global
      BY <1>1, Shape, NamesAssumption DEF PhaseInv
    <3> QED BY <2>1, <2>2, <2>4, <2>8, <3>1 DEF Dropped, MaskedAtFirst
  <2>9. OpOf(k) \in Calls /\ k \notin prog.sens => ArgsOf(k) \cap Objects = {}
    BY <2>5
  <2>10. OpOf(k) \in Heap /\ k \notin prog.sens => ArgsOf(k) \cap prog.sens = {}
    BY <2>6
  <2> QED BY <2>7, <2>8, <2>9, <2>10
<1>2. PhaseInv /\ KeptInv => SetIsKept
  BY <1>1 DEF KeptInv, KeptSet, SetIsKept
<1> QED BY <1>2, PhasesAsPlanned, KeptForEver, PTL

\* In such a function no masked pointer points into the safe region: what the
\* debug runtime asserts of a mask holds, and fails only where the set has changed.
THEOREM ContainedFunctionsMaskLow == Spec => [](Contained => MaskedPointersStayLow)
<1>1. ASSUME PhaseInv, KeptInv, Contained PROVE MaskedPointersStayLow
  <2> USE DEF PastMasks, PastLibc, PastStack, PastHeap, PastByVal, PastBounds, PastStores,
              PastChecks, Phases
  <2> SUFFICES ASSUME pc = "done", NEW k \in masked, NEW b \in getBasedOnValue(Ptr(k)), b # Null
               PROVE  ~ InSafeRegion(b)
    BY DEF MaskedPointersStayLow
  <2>1. Shifted = {} /\ prog \in Programs
    BY <1>1 DEF KeptInv, KeptSet, PhaseInv
  <2>2. k \in MaskedAtFirst
    BY <1>1 DEF PhaseInv, SensInv
  <2>3. k \in Are(Access) /\ Ptr(k) \notin prog.sens
    BY <2>2 DEF MaskedAtFirst, Sandboxed, Are, Access
  <2>4. k \in Pos /\ Ptr(k) \in ArgsOf(k)
    BY <2>1, <2>3, NamedOperands DEF Are
  <2>5. IsUsed(Ptr(k))
    BY <2>1, <2>4, OperandsAreUsed
  <2>6. Ptr(k) # Null
    <3>1. Null \notin Pos
      BY <2>1, Shape, NamesAssumption
    <3> QED
      BY <3>1 DEF getBasedOnValue, Derivation
  <2>7. \A d \in Derivation(Ptr(k)) : d # Null => d \notin prog.sens
    BY <2>1, <2>3, <2>6, DerivationAgrees
  <2>8. Steady(Ptr(k))
    <3>1. Null \notin prog.sens
      BY <2>1, Shape
    <3> QED
      BY <2>1, <2>7, <3>1 DEF Steady
  <2> QED
    BY <1>1, <2>3, <2>5, <2>8, SensitiveMeansSafe
<1>2. PhaseInv /\ KeptInv => (Contained => MaskedPointersStayLow)
  BY <1>1
<1> QED BY <1>2, PhasesAsPlanned, KeptForEver, PTL

\* The function stores and loads the slots that its callers and callees expect.
THEOREM FunctionsKeepTheirSlots == Spec => []SlotsAgree
<1>1. PhaseInv /\ KeptInv => SlotsAgree
  <2> SUFFICES ASSUME PhaseInv, KeptInv, pc = "done", Contained PROVE SlotsAgree
    BY DEF SlotsAgree
  <2>0. Shifted = {}
    BY DEF KeptInv, KeptSet
  <2> USE DEF PastMasks, PastLibc, PastStack, PastHeap, PastByVal, PastBounds, PastStores,
              PastChecks, Phases
  <2>1. passed = argSlots \cup returnSlots /\ fetched \subseteq prog.sens
    BY <2>0 DEF PhaseInv, SlotsInv
  <2>2. ASSUME NEW k \in Pos, NEW a \in ArgsOf(k)
        PROVE  a \in Pointers(sens) <=> a \in Pointers(prog.sens)
    BY <2>0, OperandsAreUsed, NotShifted DEF PhaseInv, Pointers
  <2>3. ASSUME NEW k \in Are({"call"}), NEW j \in DOMAIN prog.code[k].args
        PROVE  <<k, j>> \in passed <=> prog.code[k].args[j] \in Pointers(prog.sens)
    <3>1. k \in Pos /\ k \notin Are({"ret"}) /\ prog.code[k].args[j] \in ArgsOf(k)
      BY DEF Are, ArgsOf, Args
    <3>2. <<k, j>> \notin returnSlots
      BY <3>1 DEF returnSlots
    <3>3. <<k, j>> \in argSlots <=> prog.code[k].args[j] \in Pointers(sens)
      BY DEF argSlots
    <3> QED BY <2>1, <2>2, <3>1, <3>2, <3>3
  <2>4. ASSUME NEW r \in Are({"ret"})
        PROVE  <<r, 0>> \in passed <=> prog.code[r].args[1] \in Pointers(prog.sens)
    <3>1. r \in Pos /\ r \notin Are({"call"}) /\ prog.code[r].args[1] \in ArgsOf(r)
      BY NamedOperands DEF PhaseInv, Are
    <3>2. <<r, 0>> \notin argSlots
      BY <3>1 DEF argSlots
    <3>3. <<r, 0>> \in returnSlots <=> prog.code[r].args[1] \in Pointers(sens)
      BY DEF returnSlots
    <3> QED BY <2>1, <2>2, <3>1, <3>2, <3>3
  <2>5. ASSUME NEW s \in passed
        PROVE  \/ OpOf(s[1]) = "call" /\ s[2] \in DOMAIN prog.code[s[1]].args
               \/ OpOf(s[1]) = "ret" /\ s[2] = 0
    BY <2>1 DEF argSlots, returnSlots, Are
  <2> QED BY <2>1, <2>3, <2>4, <2>5 DEF SlotsAgree
<1> QED BY <1>1, PhasesAsPlanned, KeptForEver, PTL

\* A copy between safe objects, and no other, takes the metadata with it.
THEOREM MetadataFollowsCopies == Spec => []CopiesTakeMetadata
<1>1. PhaseInv => CopiesTakeMetadata
  <2> SUFFICES ASSUME PhaseInv, pc = "done", NEW k \in Are({"memcpy"}),
                      \A x \in ArgsOf(k) : Steady(x), BasedOn(ArgsOf(k)) \ {Null} # {}
               PROVE  k \in moved <=> \E b \in BasedOn(ArgsOf(k)) : InSafeRegion(b)
    BY DEF CopiesTakeMetadata
  <2> USE DEF PastMasks, PastLibc, PastStack, PastHeap, PastByVal, PastBounds, PastStores,
              PastChecks, Phases
  <2> DEFINE dst == prog.code[k].args[1]
  <2>1. k \in Pos /\ OpOf(k) = "memcpy" /\ dst \in ArgsOf(k)
    BY NamedOperands DEF PhaseInv, Are
  <2>2. ASSUME NEW x \in ArgsOf(k)
        PROVE  /\ IsUsed(x) /\ (x \in sens <=> x \in prog.sens)
               /\ x \in prog.sens <=> dst \in prog.sens
    <3>1. IsUsed(x)
      BY <2>1, OperandsAreUsed DEF PhaseInv
    <3>2. x \in Derivation(x)
      BY DerivationSteps DEF PhaseInv, Derivation
    <3>3. x \in sens <=> x \in prog.sens
      BY <3>1, <3>2, NotShifted DEF Steady
    <3>4. prog.code[k].args[1] \in prog.sens <=> prog.code[k].args[2] \in prog.sens
      BY <2>1, ProgramsAssumption DEF PhaseInv, ClosedSet, Pos, OpOf
    <3>5. x \in {prog.code[k].args[1], prog.code[k].args[2]}
      BY NamedOperands DEF PhaseInv
    <3> QED BY <3>1, <3>3, <3>4, <3>5
  <2>3. ASSUME NEW b \in BasedOn(ArgsOf(k)), b # Null
        PROVE  InSafeRegion(b) <=> dst \in prog.sens
    <3>1. PICK x \in ArgsOf(k) : b \in getBasedOnValue(x)
      BY DEF BasedOn
    <3>2. IsUsed(x) /\ Steady(x) /\ (x \in prog.sens <=> dst \in prog.sens)
      BY <2>2
    <3> QED BY <2>3, <3>1, <3>2, SensitiveMeansSafe
  <2>4. ~ InSafeRegion(Null)
    <3>1. Null \notin Pos /\ Null \notin Param /\ Null \notin prog.sens
          /\ prog.byval \subseteq Param
      BY Shape, NamesAssumption DEF PhaseInv
    <3> QED BY <3>1 DEF InSafeRegion
  <2>5. k \in moved <=> dst \in prog.sens
    BY <2>1, <2>2 DEF PhaseInv, GuardInv
  <2> QED BY <2>3, <2>4, <2>5
<1> QED BY <1>1, PhasesAsPlanned, PTL

\* The pass gives up only where the model says so: in every other function each
\* sensitive pointer has bounds when they are asked for.
THEOREM BoundsAreFound == Spec => []GivesUpOnlyHere
BY PhasesAsPlanned, PTL DEF PhaseInv
=============================================================================
