--------------------------- MODULE CallBounds ----------------------------
(***************************************************************************)
(* How the bounds of pointers cross a call in a program compiled by the    *)
(* DataShield pass: BoundsAnalysis of DataShield.cpp inserts the stores    *)
(* and the loads, datashield.c holds the slots.                            *)
(*                                                                         *)
(* Calls keep their original signature, so bounds travel beside them, in a *)
(* global array: slot j for argument j and slot 0 for the return value.    *)
(* The caller stores the bounds of the arguments it knows to be sensitive. *)
(* The callee loads, on entry, those of the sensitive parameters it needs. *)
(* A load leaves other bounds in the slot: those of the unsafe region, or  *)
(* in a debug build the invalid ones.                                      *)
(*                                                                         *)
(* The state is that of a running program; what the instructions of a      *)
(* function compute is left open.                                          *)
(***************************************************************************)
EXTENDS Integers, Sequences, CallAgreement

CONSTANTS
  Fn,              \* functions
  Obj,             \* objects in the safe region; also the bounds of each
  Programs,        \* the compiled programs to run
  N_ARG_ENTRIES,   \* slots of __ds_fn_args_array, 128 in datashield.c
  MaxDepth,        \* bound: frames on the stack
  Null, Plain,     \* the null pointer, a pointer into the unsafe region
  Unsafe, Empty,   \* __ds_unsafe_region_bounds, __ds_empty_bounds
  Left,            \* what a load leaves in a slot: Unsafe, or in a debug build
                   \* __ds_invalid_bounds
  NoSite

Target == Obj \cup {Null, Plain}
Bounds == Obj \cup {Unsafe, Empty, Left}
Slot   == 0..(N_ARG_ENTRIES - 1)

\* A pointer of the program, with the bounds the compiled code has for it.
Pointer == Target \X Bounds

BoundsOf(t) == IF t = Null THEN Empty ELSE IF t = Plain THEN Unsafe ELSE t

\* "declared": the callee has no body or is on the white list.  "direct": it is
\* known to the pass.
\* "usesResult": some instruction needs the bounds of the returned pointer.
Site == [callees : SUBSET Fn, direct : BOOLEAN, declared : BOOLEAN,
         args : Seq(Kind), usesResult : BOOLEAN]

\* "params" says which parameters are sensitive pointers, "uses" which of them
\* some instruction needs the bounds of.
FnBody == [params : Seq(BOOLEAN), uses : SUBSET (Nat \ {0}), sites : SUBSET Site,
           rets : SUBSET Kind]

Program == [main : Fn, fns : [Fn -> FnBody]]

\* (A call with more arguments than slots is not modelled.)
WellFormed(p) ==
  /\ CallsFit(p)
  /\ \A f \in Fn : \A s \in p.fns[f].sites : Len(s.args) < N_ARG_ENTRIES

ASSUME ProgramsAssumption ==
  /\ Programs \subseteq Program
  /\ \A p \in Programs : WellFormed(p)

ASSUME BoundsAssumption ==
  /\ N_ARG_ENTRIES \in Nat \ {0}
  /\ MaxDepth \in Nat
  /\ {Null, Plain, Unsafe, Empty, Left} \cap Obj = {}
  /\ Null # Plain
  /\ Empty \notin {Unsafe, Left}

VARIABLES
  prog,      \* the program
  stack,     \* the frames, innermost last
  slots,     \* __ds_fn_args_array
  pc,        \* where the innermost frame is: in its body or in a call sequence
  callee,    \* the function being called
  passed,    \* the arguments passed so far
  pending,   \* the bounds the prologue has yet to load
  returned   \* the value being returned

vars == <<prog, stack, slots, pc, callee, passed, pending, returned>>

Frame == [fn : Fn, args : Seq(Target), vals : SUBSET Pointer, site : Site \cup {NoSite}]

Top == stack[Len(stack)]

\* Pointers a function may use: those it has, and a new allocation, whose
\* bounds createBounds makes on the spot.
Available(frame) == frame.vals \cup {<<o, o>> : o \in Obj}

Sources(frame, kind) ==
  IF kind = "sensitive" THEN Available(frame)
  ELSE IF kind = "null" THEN {<<Null, Empty>>}
  ELSE {<<Plain, Unsafe>>}

\* The array has static storage: it starts with zeros, the empty bounds.
Init ==
  /\ prog \in Programs
  /\ stack = <<[fn |-> prog.main, args |-> <<>>, vals |-> {}, site |-> NoSite]>>
  /\ slots = [i \in Slot |-> Empty]
  /\ pc = "body"
  /\ callee = prog.main
  /\ passed = <<>>
  /\ pending = {}
  /\ returned = Null

StartCall ==
  /\ pc = "body"
  /\ Len(stack) < MaxDepth
  /\ \E s \in prog.fns[Top.fn].sites : \E g \in s.callees :
       /\ stack' = [stack EXCEPT ![Len(stack)].site = s]
       /\ callee' = g
  /\ passed' = <<>>
  /\ pc' = "pass"
  /\ UNCHANGED <<prog, slots, pending, returned>>

\* Wrong: a null pointer is never passed as sensitive.
IsNullPassedAsSensitive_Never(s, g, j) == FALSE

\* isNullPointerPassedAsSensitive: only of a call whose callee is known.
IsNullPassedAsSensitive(s, g, j) ==
  s.args[j] = "null" /\ s.direct /\ prog.fns[g].params[j]

\* No bounds are stored for a callee known to be declared only.
Stores(s, g, j) ==
  /\ ~ (s.direct /\ s.declared)
  /\ s.args[j] = "sensitive" \/ IsNullPassedAsSensitive(s, g, j)

\* Wrong: an argument that has no bounds does not advance the slot number.
PassArg_NoIncrement ==
  LET s == Top.site
      j == Len(passed) + 1
      slot == Len(SelectSeq(SubSeq(s.args, 1, j), LAMBDA k : k # "plain"))
  IN
  /\ pc = "pass"
  /\ j <= Len(s.args)
  /\ \E v \in Sources(Top, s.args[j]) :
       /\ passed' = Append(passed, v[1])
       /\ slots' = IF Stores(s, callee, j) THEN [slots EXCEPT ![slot] = v[2]] ELSE slots
  /\ UNCHANGED <<prog, stack, pc, callee, pending, returned>>

\* One turn of the loop over the arguments of a call: storeFnArg.
PassArg ==
  LET s == Top.site
      j == Len(passed) + 1
  IN
  /\ pc = "pass"
  /\ j <= Len(s.args)
  /\ \E v \in Sources(Top, s.args[j]) :
       /\ passed' = Append(passed, v[1])
       /\ slots' = IF Stores(s, callee, j) THEN [slots EXCEPT ![j] = v[2]] ELSE slots
  /\ UNCHANGED <<prog, stack, pc, callee, pending, returned>>

\* The call instruction, of a function the pass has instrumented.
Enter ==
  /\ pc = "pass"
  /\ Len(passed) = Len(Top.site.args)
  /\ ~ Top.site.declared
  /\ stack' = Append(stack, [fn |-> callee, args |-> passed, vals |-> {}, site |-> NoSite])
  /\ pending' = prog.fns[callee].uses
  /\ pc' = "enter"
  /\ UNCHANGED <<prog, slots, callee, passed, returned>>

\* Of any other function: it runs, and leaves the slots alone.
CallDeclared ==
  /\ pc = "pass"
  /\ Len(passed) = Len(Top.site.args)
  /\ Top.site.declared
  /\ returned' = Plain
  /\ pc' = "result"
  /\ UNCHANGED <<prog, stack, slots, callee, passed, pending>>

\* Wrong: arguments are counted from slot 0, as the parameters of LLVM are.
LoadArg_SlotBefore ==
  /\ pc = "enter"
  /\ \E j \in pending :
       /\ stack' = [stack EXCEPT ![Len(stack)].vals = @ \cup {<<Top.args[j], slots[j - 1]>>}]
       /\ slots' = [slots EXCEPT ![j - 1] = Left]
       /\ pending' = pending \ {j}
  /\ UNCHANGED <<prog, pc, callee, passed, returned>>

\* __ds_get_fn_arg_bounds(j), in the entry block.
LoadArg ==
  /\ pc = "enter"
  /\ \E j \in pending :
       /\ stack' = [stack EXCEPT ![Len(stack)].vals = @ \cup {<<Top.args[j], slots[j]>>}]
       /\ slots' = [slots EXCEPT ![j] = Left]
       /\ pending' = pending \ {j}
  /\ UNCHANGED <<prog, pc, callee, passed, returned>>

Begin ==
  /\ pc = "enter"
  /\ pending = {}
  /\ pc' = "body"
  /\ UNCHANGED <<prog, stack, slots, callee, passed, pending, returned>>

\* Wrong: main returns to a caller it does not have.
Return_FromMain ==
  /\ pc = "body"
  /\ \E kind \in prog.fns[Top.fn].rets : \E v \in Sources(Top, kind) :
       /\ returned' = v[1]
       /\ slots' = IF kind = "sensitive" THEN [slots EXCEPT ![0] = v[2]] ELSE slots
  /\ stack' = SubSeq(stack, 1, Len(stack) - 1)
  /\ pc' = "result"
  /\ UNCHANGED <<prog, callee, passed, pending>>

\* A return instruction: for a literal null pointer nothing is stored.
Return ==
  /\ pc = "body"
  /\ Len(stack) > 1
  /\ \E kind \in prog.fns[Top.fn].rets : \E v \in Sources(Top, kind) :
       /\ returned' = v[1]
       /\ slots' = IF kind = "sensitive" THEN [slots EXCEPT ![0] = v[2]] ELSE slots
  /\ stack' = SubSeq(stack, 1, Len(stack) - 1)
  /\ pc' = "result"
  /\ UNCHANGED <<prog, callee, passed, pending>>

\* __ds_get_fn_arg_bounds(0), right after the call instruction.
LoadResult ==
  /\ pc = "result"
  /\ IF Top.site.usesResult
     THEN /\ stack' = [stack EXCEPT ![Len(stack)].vals = @ \cup {<<returned, slots[0]>>}]
          /\ slots' = [slots EXCEPT ![0] = Left]
     ELSE UNCHANGED <<stack, slots>>
  /\ pc' = "body"
  /\ UNCHANGED <<prog, callee, passed, pending, returned>>

Exit ==
  /\ pc = "body"
  /\ Len(stack) = 1
  /\ pc' = "done"
  /\ UNCHANGED <<prog, stack, slots, callee, passed, pending, returned>>

\* The program has ended.
Ended == pc = "done" /\ UNCHANGED vars

Next ==
  \/ StartCall
  \/ PassArg
  \/ Enter
  \/ CallDeclared
  \/ LoadArg
  \/ Begin
  \/ Return
  \/ LoadResult
  \/ Exit
  \/ Ended

Spec == Init /\ [][Next]_vars

----------------------------------------------------------------------------
(* Properties *)

\* Type correctness.
TypeOK ==
  /\ prog \in Programs
  /\ stack \in Seq(Frame) \ {<<>>}
  /\ slots \in [Slot -> Bounds]
  /\ pc \in {"body", "pass", "enter", "result", "done"}
  /\ callee \in Fn
  /\ passed \in Seq(Target)
  /\ pending \in SUBSET (Nat \ {0})
  /\ returned \in Target

\* The bounds every active function has for a pointer it received as an
\* argument or as a result are those of the object pointed to, however many
\* calls were made in between and whatever they left in the slots.
BoundsAreOwn ==
  \A k \in DOMAIN stack : \A v \in stack[k].vals : v[2] = BoundsOf(v[1])

\* In the prologue, every slot still to be loaded holds the bounds of the
\* argument of this very call, not of an earlier call whose callee did not
\* load them; likewise slot 0 when the result's bounds are to be loaded.
SlotsAreOfThisCall ==
  /\ pc = "enter" => \A j \in pending : slots[j] = BoundsOf(Top.args[j])
  /\ pc = "result" /\ Top.site.usesResult => slots[0] = BoundsOf(returned)

\* The assertion of __ds_get_fn_arg_bounds_debug ("we get the same fn arg
\* bounds twice with out setting!"): what a load of a debug build leaves in a
\* slot is never loaded in its turn.
NoSlotLoadedTwice ==
  \A k \in DOMAIN stack : \A v \in stack[k].vals : v[2] # Left
==========================================================================
