---------------------- MODULE CallBoundsRefinement -----------------------
(***************************************************************************)
(* The slots implement fat pointers.  The mapping forgets the slots, the   *)
(* sites and the arguments on their way, and keeps the bounds each frame   *)
(* has in fact loaded.                                                     *)
(***************************************************************************)
EXTENDS CallBounds

FramesOf == [k \in 1..Len(stack) |-> [args |-> stack[k].args, vals |-> stack[k].vals]]

AtOf ==
  IF pc = "enter" THEN "entry" ELSE IF pc = "result" THEN "returned" ELSE "running"

Fat == INSTANCE FatCalls
         WITH MaxArgs <- N_ARG_ENTRIES - 1,
              frames <- FramesOf, at <- AtOf, result <- returned

\* A program whose calls agree with the functions they reach runs as if its
\* pointers were fat: every load of a slot, at every nesting of calls, gives
\* the bounds of the pointer that was passed or returned beside it.
ImplementsFatCalls == Fat!Spec
==========================================================================
