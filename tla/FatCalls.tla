---------------------------- MODULE FatCalls -----------------------------
(***************************************************************************)
(* What the function-argument slots of DataShield promise: calls behave as *)
(* if every pointer were a fat one, that carries the bounds of its object  *)
(* wherever it goes.  No slots, no sites, no signatures: whatever a        *)
(* function learns of a pointer it is passed, or gets back, is right.      *)
(*                                                                         *)
(* Module CallBounds is the mechanism, and implements this for programs    *)
(* whose calls agree with the functions they reach (CallBoundsRefinement). *)
(***************************************************************************)
EXTENDS Integers, Sequences

CONSTANTS
  Obj,             \* objects in the safe region; also the bounds of each
  Null, Plain,     \* the null pointer, a pointer into the unsafe region
  Unsafe, Empty,   \* the bounds of these
  MaxArgs          \* arguments of a call

VARIABLES
  frames,   \* the active functions, innermost last: the pointers each was
            \* passed, and the fat pointers it has
  at,       \* where the innermost is: on its entry, running, after a call
  result    \* the pointer the last call returned

vars == <<frames, at, result>>

Target == Obj \cup {Null, Plain}

\* A pointer with its own bounds.
Own(t) == <<t, IF t = Null THEN Empty ELSE IF t = Plain THEN Unsafe ELSE t>>

Top == frames[Len(frames)]

\* The innermost function now has the fat pointer v too.
Learn(v) == frames' = [frames EXCEPT ![Len(frames)].vals = @ \cup {v}]

Init ==
  /\ frames = <<[args |-> <<>>, vals |-> {}]>>
  /\ at = "running"
  /\ result = Null

Call ==
  /\ at = "running"
  /\ \E n \in 0..MaxArgs : \E args \in [1..n -> Target] :
       frames' = Append(frames, [args |-> args, vals |-> {}])
  /\ at' = "entry"
  /\ UNCHANGED result

\* The function needs the bounds of an argument.
Receive ==
  /\ at = "entry"
  /\ \E j \in DOMAIN Top.args : Learn(Own(Top.args[j]))
  /\ UNCHANGED <<at, result>>

Begin ==
  /\ at = "entry"
  /\ at' = "running"
  /\ UNCHANGED <<frames, result>>

Return ==
  /\ at = "running"
  /\ Len(frames) > 1
  /\ result' \in Target
  /\ frames' = SubSeq(frames, 1, Len(frames) - 1)
  /\ at' = "returned"

\* A call of code that knows nothing of the safe region.
CallOutside ==
  /\ at = "running"
  /\ result' = Plain
  /\ at' = "returned"
  /\ UNCHANGED frames

TakeResult ==
  /\ at = "returned"
  /\ Learn(Own(result)) \/ UNCHANGED frames
  /\ at' = "running"
  /\ UNCHANGED result

Next ==
  \/ Call
  \/ Receive
  \/ Begin
  \/ Return
  \/ CallOutside
  \/ TakeResult

Spec == Init /\ [][Next]_vars
==========================================================================
