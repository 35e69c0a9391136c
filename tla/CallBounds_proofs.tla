------------------------ MODULE CallBounds_proofs ------------------------
(***************************************************************************)
(* Theorems about module CallBounds, for every program, every number of    *)
(* slots and every depth of the stack.                                     *)
(*                                                                         *)
(* Neither TypeOK nor BoundsAreOwn is inductive.  ShapeInv adds what the   *)
(* code's structure gives: a frame below another one is in a call, the     *)
(* frame above it is the callee, and the prologue loads slots that exist.  *)
(* OwnInv adds what the slots hold in the middle of a call sequence; from  *)
(* it also follows that the slots implement fat pointers, in the last part.*)
(***************************************************************************)
EXTENDS CallBoundsRefinement, SequenceTheorems, TLAPS

----------------------------------------------------------------------------
(* The shape of the state *)

InCall(fr) == fr.site \in prog.fns[fr.fn].sites

\* Frame k is in a call of the function of frame k + 1.
Calls(k) ==
  /\ InCall(stack[k])
  /\ ~ stack[k].site.declared
  /\ stack[k + 1].fn \in stack[k].site.callees

ShapeInv ==
  /\ TypeOK
  /\ \A k \in 1..(Len(stack) - 1) : Calls(k)
  /\ pc \in {"pass", "result"} => InCall(Top)
  /\ pc = "pass" => /\ callee \in Top.site.callees
                    /\ Len(passed) <= Len(Top.site.args)
  /\ pc = "enter" => /\ pending \subseteq DOMAIN Top.args
                     /\ Len(Top.args) < N_ARG_ENTRIES
                     /\ \A j \in pending : prog.fns[Top.fn].params[j]

\* What a site of a program says.
LEMMA SiteType ==
  ASSUME NEW p \in Programs, NEW f \in Fn, NEW s \in p.fns[f].sites
  PROVE  /\ s \in Site
         /\ Len(s.args) \in Nat
         /\ Len(s.args) < N_ARG_ENTRIES
         /\ \A g \in s.callees : g \in Fn /\ Len(s.args) = Len(p.fns[g].params)
<1>1. p \in Program /\ WellFormed(p)
  BY ProgramsAssumption
<1>2. p.fns[f] \in FnBody
  BY <1>1 DEF Program
<1>3. s \in Site
  BY <1>2 DEF FnBody
<1>4. s.args \in Seq(Kind) /\ s.callees \subseteq Fn
  BY <1>3 DEF Site
<1>5. Len(s.args) \in Nat
  BY <1>4, LenProperties
<1>6. DOMAIN p.fns = Fn
  BY <1>1 DEF Program
<1> QED
  BY <1>1, <1>3, <1>4, <1>5, <1>6 DEF WellFormed, CallsFit

\* What a function of a program says.
LEMMA BodyType ==
  ASSUME NEW p \in Programs, NEW f \in Fn
  PROVE  /\ p.fns[f] \in FnBody
         /\ p.fns[f].uses \subseteq DOMAIN p.fns[f].params
         /\ p.fns[f].uses \subseteq Nat \ {0}
         /\ \A j \in p.fns[f].uses : p.fns[f].params[j]
         /\ p.fns[f].params \in Seq(BOOLEAN)
         /\ p.fns[f].rets \subseteq Kind
<1>1. p \in Program /\ WellFormed(p)
  BY ProgramsAssumption
<1>2. p.fns[f] \in FnBody
  BY <1>1 DEF Program
<1>3. DOMAIN p.fns = Fn
  BY <1>1 DEF Program
<1> QED
  BY <1>1, <1>2, <1>3 DEF WellFormed, CallsFit, FnBody

\* What an agreement says of one call.
LEMMA SiteAgrees ==
  ASSUME NEW p \in Programs, Agrees(p), NEW f \in Fn, NEW s \in p.fns[f].sites
  PROVE  /\ s.declared => ~ s.usesResult
         /\ ~ s.declared => \A g \in s.callees :
              /\ s.usesResult => p.fns[g].rets \subseteq {"sensitive"}
              /\ \A j \in DOMAIN s.args :
                   IF s.args[j] = "null" THEN p.fns[g].params[j] => s.direct
                   ELSE s.args[j] = "sensitive" <=> p.fns[g].params[j]
<1>1. DOMAIN p.fns = Fn
  BY ProgramsAssumption DEF Program
<1> QED
  BY <1>1 DEF Agrees

\* A position below the innermost one, n.
LEMMA Below ==
  ASSUME NEW n \in Nat \ {0}, NEW k \in 1..(n - 1)
  PROVE  /\ k \in 1..n /\ k # n /\ k + 1 \in 1..n
         /\ k = n - 1 => k + 1 = n
         /\ k # n - 1 => k + 1 \in 1..(n - 1)
OBVIOUS

\* Exchanging the innermost frame.
LEMMA UpdateTop ==
  ASSUME NEW s \in Seq(Frame) \ {<<>>}, NEW fr \in Frame,
         NEW t, t = [s EXCEPT ![Len(s)] = fr]
  PROVE  /\ t \in Seq(Frame) \ {<<>>}
         /\ Len(t) = Len(s)
         /\ Len(s) \in Nat \ {0}
         /\ t[Len(s)] = fr
         /\ \A k \in 1..(Len(s) - 1) : t[k] = s[k]
<1>1. s \in Seq(Frame) /\ s # <<>>
  OBVIOUS
<1>2. Len(s) \in Nat \ {0} /\ DOMAIN s = 1..Len(s)
  BY <1>1, EmptySeq, LenProperties
<1>3. Len(s) \in DOMAIN s
  BY <1>2
<1>4. t \in Seq(Frame) /\ Len(t) = Len(s) /\ t[Len(s)] = fr
  BY <1>1, <1>2, <1>3, ExceptSeq
<1>5. t # <<>>
  BY <1>2, <1>4, EmptySeq
<1>6. ASSUME NEW k \in 1..(Len(s) - 1)
      PROVE  t[k] = s[k]
  <2>1. k \in 1..Len(s) /\ k # Len(s)
    BY <1>2, <1>6, Below
  <2> QED
    BY <1>2, <2>1
<1> QED
  BY <1>1, <1>2, <1>4, <1>5, <1>6

\* The innermost frame.
LEMMA TopType ==
  ASSUME TypeOK
  PROVE  /\ Len(stack) \in Nat \ {0}
         /\ DOMAIN stack = 1..Len(stack)
         /\ Len(stack) \in DOMAIN stack
         /\ Top \in Frame
         /\ \A k \in 1..Len(stack) : stack[k] \in Frame
<1>1. stack \in Seq(Frame) /\ stack # <<>>
  BY DEF TypeOK
<1>2. Len(stack) \in Nat \ {0} /\ DOMAIN stack = 1..Len(stack)
  BY <1>1, EmptySeq, LenProperties
<1>3. \A k \in 1..Len(stack) : stack[k] \in Frame
  BY <1>1, <1>2, ElementOfSeq
<1> QED
  BY <1>2, <1>3 DEF Top

\* The pointers a function may pass or return.
LEMMA SourcesType ==
  ASSUME NEW fr \in Frame, NEW kind, NEW v \in Sources(fr, kind)
  PROVE  v[1] \in Target /\ v[2] \in Bounds
BY DEF Sources, Available, Frame, Pointer, Target, Bounds

----------------------------------------------------------------------------
(* The steps preserve the shape *)

LEMMA InitShape == Init => ShapeInv
<1> SUFFICES ASSUME Init PROVE ShapeInv
  OBVIOUS
<1>1. prog \in Programs /\ prog \in Program
  BY ProgramsAssumption DEF Init
<1>2. prog.main \in Fn
  BY <1>1 DEF Program
<1> DEFINE fr == [fn |-> prog.main, args |-> <<>>, vals |-> {}, site |-> NoSite]
<1>3. fr \in Frame
  <2>1. <<>> \in Seq(Target)
    BY EmptySeq
  <2> QED
    BY <1>2, <2>1 DEF Frame
<1>4. stack = <<fr>> /\ Len(stack) = 1
  BY DEF Init
<1>5. stack \in Seq(Frame) \ {<<>>}
  BY <1>3, <1>4
<1>6. slots \in [Slot -> Bounds]
  BY DEF Init, Bounds
<1>7. passed \in Seq(Target)
  BY EmptySeq DEF Init
<1>8. TypeOK
  BY <1>1, <1>2, <1>5, <1>6, <1>7 DEF Init, TypeOK, Target
<1> QED
  BY <1>4, <1>8 DEF Init, ShapeInv

\* A step that exchanges the innermost frame for one of the same function.
LEMMA SameCalls ==
  ASSUME ShapeInv, NEW fr \in Frame, fr.fn = Top.fn,
         stack' = [stack EXCEPT ![Len(stack)] = fr], prog' = prog
  PROVE  /\ stack' \in Seq(Frame) \ {<<>>}
         /\ Len(stack') = Len(stack)
         /\ Top' = fr
         /\ (\A k \in 1..(Len(stack) - 1) : Calls(k))'
<1>1. stack \in Seq(Frame) \ {<<>>}
  BY DEF ShapeInv, TypeOK
<1>2. /\ stack' \in Seq(Frame) \ {<<>>}
      /\ Len(stack') = Len(stack)
      /\ Len(stack) \in Nat \ {0}
      /\ stack'[Len(stack)] = fr
      /\ \A k \in 1..(Len(stack) - 1) : stack'[k] = stack[k]
  BY <1>1, UpdateTop
<1>3. ASSUME NEW k \in 1..(Len(stack) - 1)
      PROVE  Calls(k)'
  <2>1. Calls(k)
    BY <1>3 DEF ShapeInv
  <2>2. stack'[k] = stack[k]
    BY <1>2, <1>3
  <2>3. stack'[k + 1].fn = stack[k + 1].fn
    <3>1. CASE k = Len(stack) - 1
      <4>1. k + 1 = Len(stack)
        BY <1>2, <1>3, <3>1, Below
      <4> QED
        BY <1>2, <4>1 DEF Top
    <3>2. CASE k # Len(stack) - 1
      <4>1. k + 1 \in 1..(Len(stack) - 1)
        BY <1>2, <1>3, <3>2, Below
      <4> QED
        BY <1>2, <4>1
    <3> QED
      BY <3>1, <3>2
  <2> QED
    BY <2>1, <2>2, <2>3 DEF Calls, InCall
<1>4. Top' = fr
  BY <1>2 DEF Top
<1> QED
  BY <1>2, <1>3, <1>4

LEMMA StartCallShape ==
  ASSUME ShapeInv, StartCall
  PROVE  ShapeInv'
<1> USE DEF ShapeInv
<1>1. PICK s \in prog.fns[Top.fn].sites : \E g \in s.callees :
        /\ stack' = [stack EXCEPT ![Len(stack)].site = s]
        /\ callee' = g
  BY DEF StartCall
<1>2. /\ TypeOK /\ Top \in Frame /\ Top.fn \in Fn
      /\ prog' = prog /\ prog \in Programs
      /\ passed' = <<>> /\ pc' = "pass"
      /\ UNCHANGED <<slots, pending, returned>>
  BY TopType DEF StartCall, TypeOK, Frame
<1>3. s \in Site /\ callee' \in s.callees /\ callee' \in Fn /\ Len(s.args) \in Nat
  BY <1>1, <1>2, SiteType
<1> DEFINE fr == [Top EXCEPT !.site = s]
<1>4. fr \in Frame /\ fr.fn = Top.fn /\ fr.site = s
  BY <1>2, <1>3 DEF Frame
<1>5. stack' = [stack EXCEPT ![Len(stack)] = fr]
  BY <1>1 DEF Top
<1> HIDE DEF fr
<1>6. /\ stack' \in Seq(Frame) \ {<<>>}
      /\ Len(stack') = Len(stack)
      /\ Top' = fr
      /\ (\A k \in 1..(Len(stack) - 1) : Calls(k))'
  BY <1>2, <1>4, <1>5, SameCalls
<1>7. passed' \in Seq(Target) /\ Len(passed') = 0
  BY <1>2, EmptySeq
<1>8. TypeOK'
  BY <1>2, <1>3, <1>6, <1>7 DEF TypeOK
<1>9. InCall(Top)'
  BY <1>1, <1>2, <1>4, <1>6 DEF InCall
<1> QED
  BY <1>2, <1>3, <1>4, <1>6, <1>7, <1>8, <1>9

LEMMA PassArgShape ==
  ASSUME ShapeInv, PassArg
  PROVE  ShapeInv'
<1> USE DEF ShapeInv
<1> DEFINE j == Len(passed) + 1
           site == Top.site
<1>1. PICK v \in Sources(Top, site.args[j]) :
        /\ passed' = Append(passed, v[1])
        /\ slots' = IF Stores(site, callee, j) THEN [slots EXCEPT ![j] = v[2]] ELSE slots
  BY DEF PassArg
<1>2. /\ TypeOK /\ Top \in Frame /\ Top.fn \in Fn /\ prog \in Programs
      /\ InCall(Top) /\ pc = "pass" /\ j <= Len(site.args)
      /\ UNCHANGED <<prog, stack, pc, callee, pending, returned>>
      /\ passed \in Seq(Target)
  BY TopType DEF PassArg, TypeOK, Frame
<1>3. v[1] \in Target /\ v[2] \in Bounds
  BY <1>1, <1>2, SourcesType
<1>4. passed' \in Seq(Target) /\ Len(passed') = j
  BY <1>1, <1>2, <1>3, AppendProperties
<1>5. Len(site.args) \in Nat /\ Len(site.args) < N_ARG_ENTRIES
  BY <1>2, SiteType DEF InCall
<1>6. j \in Slot
  BY <1>2, <1>5, LenProperties, BoundsAssumption DEF Slot
<1> HIDE DEF j, site
<1>7. slots' \in [Slot -> Bounds]
  BY <1>1, <1>2, <1>3, <1>6 DEF TypeOK
<1>8. TypeOK'
  BY <1>2, <1>4, <1>7 DEF TypeOK
<1>9. Top' = Top /\ Len(passed') <= Len(Top.site.args)
  BY <1>2, <1>4 DEF Top, site
<1> QED
  BY <1>2, <1>8, <1>9 DEF Calls, InCall

LEMMA EnterShape ==
  ASSUME ShapeInv, Enter
  PROVE  ShapeInv'
<1> USE DEF ShapeInv
<1> DEFINE n == Len(stack)
           fr == [fn |-> callee, args |-> passed, vals |-> {}, site |-> NoSite]
<1>1. /\ TypeOK /\ Top \in Frame /\ Top.fn \in Fn /\ prog \in Programs
      /\ InCall(Top) /\ ~ Top.site.declared /\ callee \in Top.site.callees
      /\ callee \in Fn /\ passed \in Seq(Target)
      /\ Len(passed) = Len(Top.site.args)
      /\ stack \in Seq(Frame) /\ n \in Nat \ {0} /\ DOMAIN passed = 1..Len(passed)
      /\ Top = stack[n]
  BY TopType, LenProperties DEF Enter, TypeOK, Frame, Top
<1>2. /\ stack' = Append(stack, fr) /\ pc' = "enter"
      /\ pending' = prog.fns[callee].uses
      /\ UNCHANGED <<prog, slots, callee, passed, returned>>
  BY DEF Enter
<1>3. fr \in Frame /\ fr.fn = callee /\ fr.args = passed
  BY <1>1 DEF Frame
<1> HIDE DEF fr
<1>4. /\ stack' \in Seq(Frame) /\ Len(stack') = n + 1
      /\ \A k \in 1..n : stack'[k] = stack[k]
      /\ stack'[n + 1] = fr
  BY <1>1, <1>2, <1>3, AppendProperties
<1> HIDE DEF n
<1>5. stack' # <<>> /\ Top' = fr
  BY <1>1, <1>4, EmptySeq DEF Top
<1>6. ASSUME NEW k \in 1..n
      PROVE  Calls(k)'
  <2>1. CASE k = n
    BY <1>1, <1>2, <1>3, <1>4, <2>1 DEF Calls, InCall
  <2>2. CASE k # n
    <3>1. k \in 1..(n - 1) /\ k + 1 \in 1..n
      BY <1>1, <1>6, <2>2
    <3>2. Calls(k)
      BY <3>1 DEF n
    <3> QED
      BY <1>2, <1>4, <1>6, <3>1, <3>2 DEF Calls, InCall
  <2> QED
    BY <2>1, <2>2
<1>7. /\ pending' \subseteq DOMAIN passed
      /\ pending' \subseteq Nat \ {0}
      /\ Len(passed) < N_ARG_ENTRIES
      /\ \A j \in pending' : prog.fns[callee].params[j]
  <2>1. Len(passed) < N_ARG_ENTRIES /\ Len(passed) = Len(prog.fns[callee].params)
    BY <1>1, SiteType DEF InCall
  <2>2. DOMAIN prog.fns[callee].params = 1..Len(passed)
    BY <1>1, <2>1, BodyType, LenProperties
  <2> QED
    BY <1>1, <1>2, <2>1, <2>2, BodyType
<1>8. TypeOK'
  BY <1>1, <1>2, <1>4, <1>5, <1>7 DEF TypeOK
<1>9. Len(stack') - 1 = n
  BY <1>1, <1>4
<1> QED
  BY <1>2, <1>3, <1>5, <1>6, <1>7, <1>8, <1>9

LEMMA CallDeclaredShape ==
  ASSUME ShapeInv, CallDeclared
  PROVE  ShapeInv'
BY DEF ShapeInv, CallDeclared, TypeOK, Target, Calls, InCall, Top

LEMMA LoadArgShape ==
  ASSUME ShapeInv, LoadArg
  PROVE  ShapeInv'
<1> USE DEF ShapeInv
<1>1. PICK j \in pending :
        /\ stack' = [stack EXCEPT ![Len(stack)].vals = @ \cup {<<Top.args[j], slots[j]>>}]
        /\ slots' = [slots EXCEPT ![j] = Left]
        /\ pending' = pending \ {j}
  BY DEF LoadArg
<1>2. /\ TypeOK /\ Top \in Frame /\ Top.args \in Seq(Target) /\ pc = "enter"
      /\ UNCHANGED <<prog, pc, callee, passed, returned>>
  BY TopType DEF LoadArg, Frame
<1>3. /\ Top.args[j] \in Target /\ j \in Slot
  <2>1. j \in DOMAIN Top.args /\ DOMAIN Top.args = 1..Len(Top.args) /\ Len(Top.args) \in Nat
    BY <1>2, LenProperties
  <2> QED
    BY <1>2, <2>1, ElementOfSeq, BoundsAssumption DEF Slot
<1>4. slots[j] \in Bounds /\ slots' \in [Slot -> Bounds]
  BY <1>1, <1>2, <1>3 DEF TypeOK, Bounds
<1> DEFINE fr == [Top EXCEPT !.vals = @ \cup {<<Top.args[j], slots[j]>>}]
<1>5. fr \in Frame /\ fr.fn = Top.fn /\ fr.args = Top.args
  BY <1>2, <1>3, <1>4 DEF Frame, Pointer
<1>6. stack' = [stack EXCEPT ![Len(stack)] = fr]
  BY <1>1 DEF Top
<1> HIDE DEF fr
<1>7. /\ stack' \in Seq(Frame) \ {<<>>}
      /\ Len(stack') = Len(stack)
      /\ Top' = fr
      /\ (\A k \in 1..(Len(stack) - 1) : Calls(k))'
  BY <1>2, <1>5, <1>6, SameCalls
<1>8. TypeOK'
  BY <1>1, <1>2, <1>4, <1>7 DEF TypeOK
<1> QED
  BY <1>1, <1>2, <1>5, <1>7, <1>8

LEMMA ReturnShape ==
  ASSUME ShapeInv, Return
  PROVE  ShapeInv'
<1> USE DEF ShapeInv
<1> DEFINE n == Len(stack) - 1
<1>0. PICK kind \in prog.fns[Top.fn].rets : \E v \in Sources(Top, kind) :
        /\ returned' = v[1]
        /\ slots' = IF kind = "sensitive" THEN [slots EXCEPT ![0] = v[2]] ELSE slots
  BY DEF Return
<1>1. PICK v \in Sources(Top, kind) :
        /\ returned' = v[1]
        /\ slots' = IF kind = "sensitive" THEN [slots EXCEPT ![0] = v[2]] ELSE slots
  BY <1>0
<1>2. /\ TypeOK /\ Top \in Frame /\ stack \in Seq(Frame)
      /\ Len(stack) \in Nat /\ Len(stack) > 1
      /\ stack' = SubSeq(stack, 1, n) /\ pc' = "result"
      /\ UNCHANGED <<prog, callee, passed, pending>>
  BY TopType DEF Return, TypeOK
<1>3. returned' \in Target /\ v[2] \in Bounds
  BY <1>1, <1>2, SourcesType
<1>4. slots' \in [Slot -> Bounds]
  BY <1>1, <1>2, <1>3 DEF TypeOK, Slot
<1>5. n \in Nat /\ n >= 1 /\ n + 1 = Len(stack) /\ n <= Len(stack)
  BY <1>2
<1>6. /\ stack' \in Seq(Frame) /\ Len(stack') = n
      /\ \A k \in 1..n : stack'[k] = stack[k]
  <2>1. \A k \in 1..n : stack[k] \in Frame
    BY <1>2, <1>5, TopType
  <2>2. n - 1 + 1 = n /\ \A k \in 1..n : 1 + k - 1 = k
    BY <1>5
  <2> HIDE DEF n
  <2> QED
    BY <1>2, <1>5, <2>1, <2>2, SubSeqProperties
<1>7. stack' # <<>> /\ Top' = stack[n]
  BY <1>5, <1>6, EmptySeq DEF Top
<1>8. ASSUME NEW k \in 1..(n - 1)
      PROVE  Calls(k)'
  <2>1. k \in 1..n /\ k + 1 \in 1..n
    BY <1>5
  <2>2. Calls(k)
    BY <1>5, <2>1
  <2> QED
    BY <1>2, <1>6, <2>1, <2>2 DEF Calls, InCall
<1>9. Calls(n)
  BY <1>5
<1>10. InCall(Top)'
  BY <1>2, <1>7, <1>9 DEF Calls, InCall
<1> HIDE DEF n
<1>11. TypeOK'
  BY <1>2, <1>3, <1>4, <1>6, <1>7 DEF TypeOK
<1> QED
  BY <1>2, <1>6, <1>8, <1>10, <1>11

LEMMA LoadResultShape ==
  ASSUME ShapeInv, LoadResult
  PROVE  ShapeInv'
<1> USE DEF ShapeInv
<1>1. /\ TypeOK /\ Top \in Frame /\ pc' = "body"
      /\ UNCHANGED <<prog, callee, passed, pending, returned>>
  BY TopType DEF LoadResult
<1>2. CASE UNCHANGED <<stack, slots>>
  BY <1>1, <1>2 DEF TypeOK, Calls, InCall
<1>3. CASE /\ stack' = [stack EXCEPT ![Len(stack)].vals = @ \cup {<<returned, slots[0]>>}]
           /\ slots' = [slots EXCEPT ![0] = Left]
  <2>0. 0 \in Slot
    BY BoundsAssumption DEF Slot
  <2>1. slots[0] \in Bounds /\ slots' \in [Slot -> Bounds] /\ returned \in Target
    BY <1>1, <1>3, <2>0 DEF TypeOK, Bounds
  <2> DEFINE fr == [Top EXCEPT !.vals = @ \cup {<<returned, slots[0]>>}]
  <2>2. fr \in Frame /\ fr.fn = Top.fn
    BY <1>1, <2>1 DEF Frame, Pointer
  <2>3. stack' = [stack EXCEPT ![Len(stack)] = fr]
    BY <1>3 DEF Top
  <2> HIDE DEF fr
  <2>4. /\ stack' \in Seq(Frame) \ {<<>>}
        /\ Len(stack') = Len(stack)
        /\ (\A k \in 1..(Len(stack) - 1) : Calls(k))'
    BY <1>1, <2>2, <2>3, SameCalls
  <2>5. TypeOK'
    BY <1>1, <2>1, <2>4 DEF TypeOK
  <2>6. (\A k \in 1..(Len(stack) - 1) : Calls(k))' /\ pc' = "body"
    BY <1>1, <2>4
  <2> QED
    BY <2>5, <2>6
<1> QED
  BY <1>2, <1>3 DEF LoadResult

\* The steps that change neither the stack nor the slots.
LEMMA QuietShape ==
  ASSUME ShapeInv, Begin \/ Exit \/ Ended \/ UNCHANGED vars
  PROVE  ShapeInv'
<1> USE DEF ShapeInv, TypeOK, Calls, InCall, Top
<1>1. CASE Begin
  BY <1>1 DEF Begin
<1>2. CASE Exit
  BY <1>2 DEF Exit
<1>3. CASE UNCHANGED vars
  BY <1>3 DEF vars
<1> QED
  BY <1>1, <1>2, <1>3 DEF Ended

LEMMA NextShape == ShapeInv /\ [Next]_vars => ShapeInv'
BY StartCallShape, PassArgShape, EnterShape, CallDeclaredShape, LoadArgShape,
   ReturnShape, LoadResultShape, QuietShape DEF Next

THEOREM ShapeInvariance == Spec => []ShapeInv
BY InitShape, NextShape, PTL DEF Spec

\* Type correctness, of every program at every depth: no frame is popped that
\* is not there, and no slot is stored or loaded outside the array.
THEOREM TypeCorrect == Spec => []TypeOK
<1>1. ShapeInv => TypeOK
  BY DEF ShapeInv
<1> QED
  BY <1>1, ShapeInvariance, PTL

----------------------------------------------------------------------------
(* The bounds of agreeing programs *)

OwnFrame(fr) == \A v \in fr.vals : v[2] = BoundsOf(v[1])

\* The arguments stored so far are in their slots.
PassedStored ==
  pc = "pass" =>
    \A j \in 1..Len(passed) :
      Stores(Top.site, callee, j) => slots[j] = BoundsOf(passed[j])

OwnInv ==
  /\ ShapeInv
  /\ Agrees(prog)
  /\ BoundsAreOwn
  /\ SlotsAreOfThisCall
  /\ PassedStored

\* What is passed or returned has its own bounds.
LEMMA SourcesOwn ==
  ASSUME NEW fr, OwnFrame(fr), NEW kind, NEW v \in Sources(fr, kind)
  PROVE  v[2] = BoundsOf(v[1])
<1>1. CASE kind = "sensitive"
  <2>1. v \in fr.vals \/ \E o \in Obj : v = <<o, o>>
    BY <1>1 DEF Sources, Available
  <2> QED
    BY <2>1, BoundsAssumption DEF OwnFrame, BoundsOf
<1>2. CASE kind # "sensitive"
  <2>1. v = <<Null, Empty>> \/ v = <<Plain, Unsafe>>
    BY <1>2 DEF Sources
  <2> QED
    BY <2>1, BoundsAssumption DEF BoundsOf
<1> QED
  BY <1>1, <1>2

LEMMA TopOwn ==
  ASSUME ShapeInv, BoundsAreOwn
  PROVE  OwnFrame(Top)
BY TopType DEF ShapeInv, BoundsAreOwn, OwnFrame, Top

\* Exchanging the innermost frame for another with its own bounds.
LEMMA OwnTop ==
  ASSUME ShapeInv, BoundsAreOwn, NEW fr \in Frame, OwnFrame(fr),
         stack' = [stack EXCEPT ![Len(stack)] = fr]
  PROVE  BoundsAreOwn'
<1>1. stack \in Seq(Frame) \ {<<>>}
  BY DEF ShapeInv, TypeOK
<1>2. \A k \in DOMAIN stack : stack'[k] = IF k = Len(stack) THEN fr ELSE stack[k]
  OBVIOUS
<1>3. DOMAIN stack' = DOMAIN stack
  OBVIOUS
<1> QED
  BY <1>2, <1>3 DEF BoundsAreOwn, OwnFrame

\* The caller stores the bounds of every argument the callee takes for sensitive.
LEMMA SensitiveIsStored ==
  ASSUME ShapeInv, Agrees(prog), pc = "pass", ~ Top.site.declared,
         NEW j \in DOMAIN Top.site.args, prog.fns[callee].params[j]
  PROVE  Stores(Top.site, callee, j)
<1>1. Top.fn \in Fn /\ InCall(Top) /\ callee \in Top.site.callees
  BY TopType DEF ShapeInv, Frame
<1>2. IF Top.site.args[j] = "null" THEN Top.site.direct
      ELSE Top.site.args[j] = "sensitive"
  <2>1. prog \in Programs
    BY DEF ShapeInv, TypeOK
  <2> QED
    BY <1>1, <2>1, SiteAgrees DEF InCall
<1> QED
  BY <1>2 DEF Stores, IsNullPassedAsSensitive

LEMMA InitOwn == Init /\ Agrees(prog) => OwnInv
<1> SUFFICES ASSUME Init, Agrees(prog) PROVE OwnInv
  OBVIOUS
<1>1. BoundsAreOwn
  <2>1. stack = <<[fn |-> prog.main, args |-> <<>>, vals |-> {}, site |-> NoSite]>>
    BY DEF Init
  <2>2. \A k \in DOMAIN stack : stack[k].vals = {}
    BY <2>1
  <2> QED
    BY <2>2 DEF BoundsAreOwn
<1> QED
  BY <1>1, InitShape DEF Init, OwnInv, SlotsAreOfThisCall, PassedStored

LEMMA StartCallOwn ==
  ASSUME OwnInv, StartCall
  PROVE  OwnInv'
<1>1. ShapeInv /\ ShapeInv' /\ prog' = prog /\ pc' = "pass" /\ passed' = <<>>
  BY StartCallShape DEF OwnInv, StartCall
<1>2. PICK s : stack' = [stack EXCEPT ![Len(stack)].site = s]
  BY DEF StartCall
<1>3. \A k \in DOMAIN stack : stack'[k].vals = stack[k].vals
  <2>1. TypeOK
    BY <1>1 DEF ShapeInv
  <2>2. Top \in Frame /\ \A k \in DOMAIN stack : stack[k] \in Frame
    BY <2>1, TopType
  <2>3. Top = stack[Len(stack)]
    BY DEF Top
  <2> DEFINE fr == [Top EXCEPT !.site = s]
  <2>4. fr.vals = Top.vals
    BY <2>2 DEF Frame
  <2>5. stack' = [stack EXCEPT ![Len(stack)] = fr]
    BY <1>2 DEF Top
  <2> HIDE DEF fr
  <2> QED
    BY <2>3, <2>4, <2>5
<1>4. DOMAIN stack' = DOMAIN stack
  BY <1>2
<1>5. BoundsAreOwn'
  BY <1>3, <1>4 DEF OwnInv, BoundsAreOwn
<1>6. 1..Len(passed') = {}
  BY <1>1
<1> QED
  BY <1>1, <1>5, <1>6 DEF OwnInv, SlotsAreOfThisCall, PassedStored

LEMMA PassArgOwn ==
  ASSUME OwnInv, PassArg
  PROVE  OwnInv'
<1> DEFINE j == Len(passed) + 1
           site == Top.site
<1>1. PICK v \in Sources(Top, site.args[j]) :
        /\ passed' = Append(passed, v[1])
        /\ slots' = IF Stores(site, callee, j) THEN [slots EXCEPT ![j] = v[2]] ELSE slots
  BY DEF PassArg
<1>2. /\ ShapeInv /\ ShapeInv' /\ TypeOK /\ Top \in Frame /\ prog \in Programs
      /\ InCall(Top) /\ Top.fn \in Fn
      /\ pc = "pass" /\ j <= Len(site.args) /\ passed \in Seq(Target)
      /\ UNCHANGED <<prog, stack, pc, callee, pending, returned>>
  BY PassArgShape, TopType DEF OwnInv, ShapeInv, TypeOK, PassArg, Frame
<1>3. v[2] = BoundsOf(v[1])
  BY <1>1, <1>2, TopOwn, SourcesOwn DEF OwnInv
<1>4. v[1] \in Target
  BY <1>1, <1>2, SourcesType
<1>5. /\ Len(passed') = j /\ j \in Nat /\ passed'[j] = v[1]
      /\ \A k \in 1..Len(passed) : passed'[k] = passed[k] /\ k # j
  BY <1>1, <1>2, <1>4, AppendProperties, LenProperties
<1>6. Len(site.args) \in Nat /\ Len(site.args) < N_ARG_ENTRIES
  BY <1>2, SiteType DEF InCall
<1>7. j \in Slot
  BY <1>2, <1>5, <1>6, BoundsAssumption, LenProperties DEF Slot
<1>8. Top' = Top
  BY <1>2 DEF Top
<1>9. ASSUME NEW k \in 1..j, Stores(site, callee, k)
      PROVE  slots'[k] = BoundsOf(passed'[k])
  <2>1. CASE k = j
    BY <1>1, <1>2, <1>3, <1>5, <1>7, <1>9, <2>1 DEF TypeOK
  <2>2. CASE k # j
    <3>1. k \in 1..Len(passed)
      BY <1>2, <2>2, LenProperties
    <3>2. slots[k] = BoundsOf(passed[k])
      BY <1>2, <1>9, <3>1 DEF OwnInv, PassedStored
    <3>3. slots'[k] = slots[k]
      BY <1>1, <2>2
    <3> QED
      BY <1>5, <3>1, <3>2, <3>3
  <2> QED
    BY <2>1, <2>2
<1>10. PassedStored'
  BY <1>2, <1>5, <1>8, <1>9 DEF PassedStored, Stores, IsNullPassedAsSensitive
<1> QED
  BY <1>2, <1>10 DEF OwnInv, SlotsAreOfThisCall, BoundsAreOwn, Agrees

LEMMA EnterOwn ==
  ASSUME OwnInv, Enter
  PROVE  OwnInv'
<1> DEFINE n == Len(stack)
           fr == [fn |-> callee, args |-> passed, vals |-> {}, site |-> NoSite]
<1>1. /\ ShapeInv /\ ShapeInv' /\ TypeOK /\ Agrees(prog)
      /\ stack \in Seq(Frame) /\ n \in Nat \ {0} /\ DOMAIN stack = 1..n
      /\ prog \in Programs /\ callee \in Fn /\ passed \in Seq(Target)
      /\ InCall(Top) /\ Top.fn \in Fn /\ callee \in Top.site.callees
      /\ pc = "pass" /\ ~ Top.site.declared /\ Len(passed) = Len(Top.site.args)
  BY EnterShape, TopType DEF OwnInv, ShapeInv, TypeOK, Enter, Frame
<1>2. /\ stack' = Append(stack, fr) /\ pc' = "enter"
      /\ pending' = prog.fns[callee].uses
      /\ UNCHANGED <<prog, slots, callee, passed, returned>>
  BY DEF Enter
<1>3. fr \in Frame /\ fr.args = passed /\ fr.vals = {}
  BY <1>1 DEF Frame
<1> HIDE DEF fr
<1>4. /\ stack' \in Seq(Frame) /\ Len(stack') = n + 1
      /\ \A k \in 1..n : stack'[k] = stack[k]
      /\ stack'[n + 1] = fr
  BY <1>1, <1>2, <1>3, AppendProperties
<1> HIDE DEF n
<1>5. Top' = fr /\ DOMAIN stack' = 1..(n + 1)
  BY <1>4, LenProperties DEF Top
<1>6. BoundsAreOwn'
  <2>1. ASSUME NEW k \in 1..(n + 1), NEW v \in stack'[k].vals
        PROVE  v[2] = BoundsOf(v[1])
    <3>1. k # n + 1
      BY <1>3, <1>4, <2>1
    <3>2. k \in 1..n
      BY <1>1, <2>1, <3>1
    <3> QED
      BY <1>1, <1>4, <2>1, <3>2 DEF OwnInv, BoundsAreOwn
  <2> QED
    BY <1>5, <2>1 DEF BoundsAreOwn
<1>7. ASSUME NEW j \in prog.fns[callee].uses
      PROVE  slots[j] = BoundsOf(passed[j])
  <2>1. prog.fns[callee].params[j] /\ j \in DOMAIN prog.fns[callee].params
    BY <1>1, <1>7, BodyType
  <2>2. DOMAIN prog.fns[callee].params = 1..Len(prog.fns[callee].params)
    BY <1>1, BodyType, LenProperties
  <2>3. Len(prog.fns[callee].params) = Len(Top.site.args) /\ Top.site \in Site
    BY <1>1, SiteType DEF InCall
  <2>4. DOMAIN Top.site.args = 1..Len(Top.site.args)
    BY <2>3, LenProperties DEF Site
  <2>5. j \in DOMAIN Top.site.args /\ j \in 1..Len(passed)
    BY <1>1, <2>1, <2>2, <2>3, <2>4
  <2>6. Stores(Top.site, callee, j)
    BY <1>1, <2>1, <2>5, SensitiveIsStored
  <2> QED
    BY <1>1, <2>5, <2>6 DEF OwnInv, PassedStored
<1>8. SlotsAreOfThisCall'
  BY <1>2, <1>3, <1>5, <1>7 DEF SlotsAreOfThisCall
<1> QED
  BY <1>1, <1>2, <1>6, <1>8 DEF OwnInv, PassedStored, Agrees

LEMMA CallDeclaredOwn ==
  ASSUME OwnInv, CallDeclared
  PROVE  OwnInv'
<1>1. /\ ShapeInv /\ ShapeInv' /\ TypeOK /\ Top.fn \in Fn /\ InCall(Top)
      /\ Top.site.declared /\ pc' = "result"
      /\ UNCHANGED <<prog, stack, slots, callee, passed, pending>>
  BY CallDeclaredShape, TopType DEF OwnInv, ShapeInv, CallDeclared, Frame
<1>2. ~ Top.site.usesResult
  <2>1. prog \in Programs /\ Agrees(prog)
    BY DEF OwnInv, ShapeInv, TypeOK
  <2> QED
    BY <1>1, <2>1, SiteAgrees DEF InCall
<1> QED
  BY <1>1, <1>2 DEF OwnInv, SlotsAreOfThisCall, PassedStored, BoundsAreOwn, Agrees, Top

LEMMA LoadArgOwn ==
  ASSUME OwnInv, LoadArg
  PROVE  OwnInv'
<1>1. PICK j \in pending :
        /\ stack' = [stack EXCEPT ![Len(stack)].vals = @ \cup {<<Top.args[j], slots[j]>>}]
        /\ slots' = [slots EXCEPT ![j] = Left]
        /\ pending' = pending \ {j}
  BY DEF LoadArg
<1>2. /\ ShapeInv /\ ShapeInv' /\ TypeOK /\ Top \in Frame /\ pc = "enter"
      /\ UNCHANGED <<prog, pc, callee, passed, returned>>
  BY LoadArgShape, TopType DEF OwnInv, ShapeInv, LoadArg
<1>3. slots[j] = BoundsOf(Top.args[j])
  BY <1>2 DEF OwnInv, SlotsAreOfThisCall
<1> DEFINE fr == [Top EXCEPT !.vals = @ \cup {<<Top.args[j], slots[j]>>}]
<1>4. j \in DOMAIN Top.args /\ Top.args \in Seq(Target)
  BY <1>2 DEF ShapeInv, Frame
<1>5. j \in 1..Len(Top.args) /\ Len(Top.args) \in Nat /\ Len(Top.args) < N_ARG_ENTRIES
  BY <1>2, <1>4, LenProperties DEF ShapeInv
<1>6. Top.args[j] \in Target /\ j \in Slot
  BY <1>4, <1>5, ElementOfSeq, BoundsAssumption DEF Slot
<1>7. slots[j] \in Bounds
  BY <1>2, <1>6 DEF TypeOK
<1>8. fr \in Frame /\ fr.args = Top.args
      /\ fr.vals = Top.vals \cup {<<Top.args[j], slots[j]>>}
  BY <1>2, <1>6, <1>7 DEF Frame, Pointer
<1>9. stack' = [stack EXCEPT ![Len(stack)] = fr]
  BY <1>1 DEF Top
<1> HIDE DEF fr
<1>10. OwnFrame(fr)
  BY <1>2, <1>3, <1>8, TopOwn DEF OwnInv, OwnFrame
<1>11. BoundsAreOwn'
  BY <1>2, <1>8, <1>9, <1>10, OwnTop DEF OwnInv
<1>12. Top' = fr
  BY <1>2, <1>8, <1>9, UpdateTop DEF TypeOK, Top
<1>13. SlotsAreOfThisCall'
  BY <1>1, <1>2, <1>8, <1>12 DEF OwnInv, SlotsAreOfThisCall
<1> QED
  BY <1>2, <1>11, <1>13 DEF OwnInv, PassedStored, Agrees

LEMMA ReturnOwn ==
  ASSUME OwnInv, Return
  PROVE  OwnInv'
<1> DEFINE n == Len(stack) - 1
<1>0. PICK kind \in prog.fns[Top.fn].rets : \E v \in Sources(Top, kind) :
        /\ returned' = v[1]
        /\ slots' = IF kind = "sensitive" THEN [slots EXCEPT ![0] = v[2]] ELSE slots
  BY DEF Return
<1>1. PICK v \in Sources(Top, kind) :
        /\ returned' = v[1]
        /\ slots' = IF kind = "sensitive" THEN [slots EXCEPT ![0] = v[2]] ELSE slots
  BY <1>0
<1>2. /\ ShapeInv /\ ShapeInv' /\ TypeOK /\ Agrees(prog)
      /\ Len(stack) \in Nat /\ Len(stack) > 1 /\ DOMAIN stack = 1..Len(stack)
      /\ stack' = SubSeq(stack, 1, n) /\ pc' = "result"
      /\ UNCHANGED <<prog, callee, passed, pending>>
      /\ slots \in [Slot -> Bounds]
      /\ \A k \in 1..Len(stack) : stack[k] \in Frame
  BY ReturnShape, TopType DEF OwnInv, ShapeInv, TypeOK, Return
<1>3. v[2] = BoundsOf(v[1])
  BY <1>1, <1>2, TopOwn, SourcesOwn DEF OwnInv
<1>4. n \in Nat /\ n >= 1 /\ n + 1 = Len(stack) /\ 1..n \subseteq 1..Len(stack)
  BY <1>2
<1>5. n \in 1..n /\ n - 1 + 1 = n /\ \A k \in 1..n : 1 + k - 1 = k
  BY <1>4
<1> HIDE DEF n
<1>6. /\ stack' \in Seq(Frame) /\ Len(stack') = n /\ DOMAIN stack' = 1..n
      /\ \A k \in 1..n : stack'[k] = stack[k]
  BY <1>2, <1>4, <1>5, SubSeqProperties, LenProperties
<1>7. BoundsAreOwn'
  BY <1>2, <1>4, <1>6 DEF OwnInv, BoundsAreOwn
<1>8. Top' = stack[n]
  BY <1>5, <1>6 DEF Top
<1>9. Calls(n) /\ stack[n].fn \in Fn
  BY <1>2, <1>4, <1>5 DEF ShapeInv, n, Frame
<1>10. stack[n].site.usesResult => slots'[0] = BoundsOf(returned')
  <2>1. SUFFICES ASSUME stack[n].site.usesResult
                 PROVE  slots'[0] = BoundsOf(returned')
    OBVIOUS
  <2>2. stack[n + 1].fn = Top.fn
    BY <1>4 DEF Top
  <2>3. prog.fns[Top.fn].rets \subseteq {"sensitive"}
    <3>1. prog \in Programs
      BY <1>2 DEF TypeOK
    <3> QED
      BY <1>2, <1>9, <2>1, <2>2, <3>1, SiteAgrees DEF Calls, InCall
  <2>4. slots' = [slots EXCEPT ![0] = v[2]]
    BY <1>1, <2>3
  <2>5. 0 \in Slot
    BY BoundsAssumption DEF Slot
  <2> QED
    BY <1>1, <1>2, <1>3, <2>4, <2>5
<1> QED
  BY <1>2, <1>7, <1>8, <1>10 DEF OwnInv, SlotsAreOfThisCall, PassedStored, Agrees

LEMMA LoadResultOwn ==
  ASSUME OwnInv, LoadResult
  PROVE  OwnInv'
<1>1. /\ ShapeInv /\ ShapeInv' /\ TypeOK /\ Top \in Frame
      /\ pc = "result" /\ pc' = "body"
      /\ UNCHANGED <<prog, callee, passed, pending, returned>>
  BY LoadResultShape, TopType DEF OwnInv, ShapeInv, LoadResult
<1>2. BoundsAreOwn'
  <2>1. CASE ~ Top.site.usesResult
    BY <2>1 DEF OwnInv, BoundsAreOwn, LoadResult
  <2>2. CASE Top.site.usesResult
    <3>1. stack' = [stack EXCEPT ![Len(stack)].vals = @ \cup {<<returned, slots[0]>>}]
      BY <2>2 DEF LoadResult
    <3>2. slots[0] = BoundsOf(returned)
      BY <1>1, <2>2 DEF OwnInv, SlotsAreOfThisCall
    <3> DEFINE fr == [Top EXCEPT !.vals = @ \cup {<<returned, slots[0]>>}]
    <3>3. 0 \in Slot
      BY BoundsAssumption DEF Slot
    <3>4. slots[0] \in Bounds /\ returned \in Target
      BY <1>1, <3>3 DEF TypeOK
    <3>5. fr \in Frame /\ fr.vals = Top.vals \cup {<<returned, slots[0]>>}
      BY <1>1, <3>4 DEF Frame, Pointer
    <3>6. stack' = [stack EXCEPT ![Len(stack)] = fr]
      BY <3>1 DEF Top
    <3> HIDE DEF fr
    <3>7. OwnFrame(fr)
      BY <1>1, <3>2, <3>5, TopOwn DEF OwnInv, OwnFrame
    <3> QED
      BY <1>1, <3>5, <3>6, <3>7, OwnTop DEF OwnInv
  <2> QED
    BY <2>1, <2>2
<1> QED
  BY <1>1, <1>2 DEF OwnInv, SlotsAreOfThisCall, PassedStored, Agrees

LEMMA QuietOwn ==
  ASSUME OwnInv, Begin \/ Exit \/ Ended \/ UNCHANGED vars
  PROVE  OwnInv'
<1>1. ShapeInv'
  BY QuietShape DEF OwnInv
<1> USE DEF OwnInv, BoundsAreOwn, SlotsAreOfThisCall, PassedStored, Stores,
            IsNullPassedAsSensitive, Agrees, Top
<1>2. CASE Begin
  BY <1>1, <1>2 DEF Begin
<1>3. CASE Exit
  BY <1>1, <1>3 DEF Exit
<1>4. CASE UNCHANGED vars
  BY <1>1, <1>4 DEF vars
<1> QED
  BY <1>2, <1>3, <1>4 DEF Ended

LEMMA NextOwn == OwnInv /\ [Next]_vars => OwnInv'
BY StartCallOwn, PassArgOwn, EnterOwn, CallDeclaredOwn, LoadArgOwn,
   ReturnOwn, LoadResultOwn, QuietOwn DEF Next

LEMMA OwnInvariance == Spec /\ Agrees(prog) => []OwnInv
BY InitOwn, NextOwn, PTL DEF Spec

\* In a program whose calls agree with the functions they reach on what is
\* sensitive, no active function ever has, for a pointer it received across a
\* call, bounds that are not those of the object pointed to: the one array of
\* slots is enough, for every nesting of calls and every subset of the
\* parameters the callees load.
THEOREM AgreeingProgramsKeepBounds == Spec /\ Agrees(prog) => []BoundsAreOwn
<1>1. OwnInv => BoundsAreOwn
  BY DEF OwnInv
<1> QED
  BY <1>1, OwnInvariance, PTL

\* In such a program, a prologue and the code after a call load slots that
\* hold the bounds this very call, or return, has stored.
THEOREM AgreeingProgramsLoadFreshSlots == Spec /\ Agrees(prog) => []SlotsAreOfThisCall
<1>1. OwnInv => SlotsAreOfThisCall
  BY DEF OwnInv
<1> QED
  BY <1>1, OwnInvariance, PTL

\* The debug runtime's assertion holds in such a program: what is left in a slot
\* by a load, if that is told apart from the bounds of the unsafe region, is
\* overwritten before the next load.  So it is only a program that does not agree
\* that fails it, as one does through a pointer to a function.
THEOREM AgreeingProgramsPassTheAssertion ==
  Spec /\ Agrees(prog) /\ Left # Unsafe => []NoSlotLoadedTwice
<1>1. ASSUME Left # Unsafe, OwnInv PROVE NoSlotLoadedTwice
  <2>1. \A k \in DOMAIN stack : stack[k].vals \subseteq Pointer
    BY <1>1, TopType DEF OwnInv, ShapeInv, TypeOK, Frame
  <2>2. \A t \in Target : BoundsOf(t) # Left
    BY <1>1, BoundsAssumption DEF Target, BoundsOf
  <2> QED
    BY <1>1, <2>1, <2>2 DEF OwnInv, BoundsAreOwn, NoSlotLoadedTwice, Pointer
<1>2. CASE Left # Unsafe
  <2>1. OwnInv => NoSlotLoadedTwice
    BY <1>1, <1>2
  <2> QED
    BY <2>1, OwnInvariance, PTL
<1> QED
  BY <1>2

----------------------------------------------------------------------------
(* Slots as fat pointers: how each step looks when the slots are forgotten. *)

\* What the mapping keeps of a frame.
Seen(fr) == [args |-> fr.args, vals |-> fr.vals]

FatStep == [Fat!Next]_(Fat!vars)

LEMMA FramesOfLen ==
  ASSUME TypeOK
  PROVE  /\ FramesOf \in Seq({Seen(fr) : fr \in Frame})
         /\ Len(FramesOf) = Len(stack)
         /\ DOMAIN FramesOf = 1..Len(stack)
         /\ \A k \in 1..Len(stack) : FramesOf[k] = Seen(stack[k])
<1>1. /\ Len(stack) \in Nat
      /\ \A k \in 1..Len(stack) : stack[k] \in Frame
  BY TopType
<1>2. FramesOf \in [1..Len(stack) -> {Seen(fr) : fr \in Frame}]
  BY <1>1 DEF FramesOf, Seen
<1> QED
  BY <1>1, <1>2, SeqDef, LenProperties DEF FramesOf, Seen

LEMMA InitFat == Init => Fat!Init
<1> SUFFICES ASSUME Init PROVE Fat!Init
  OBVIOUS
<1>1. stack = <<[fn |-> prog.main, args |-> <<>>, vals |-> {}, site |-> NoSite]>>
  BY DEF Init
<1>2. Len(stack) = 1 /\ stack[1].args = <<>> /\ stack[1].vals = {}
  BY <1>1
<1>3. FramesOf = <<[args |-> <<>>, vals |-> {}]>>
  <2> DEFINE none == [args |-> <<>>, vals |-> {}]
  <2>1. \A k \in 1..1 : [args |-> stack[k].args, vals |-> stack[k].vals] = none
    <3>1. \A k \in 1..1 : k = 1
      OBVIOUS
    <3>2. [args |-> stack[1].args, vals |-> stack[1].vals] = none
      BY <1>2, Zenon
    <3> QED
      BY <3>1, <3>2, Zenon
  <2>2. FramesOf = [k \in 1..1 |-> none]
    BY <1>2, <2>1 DEF FramesOf
  <2> HIDE DEF none
  <2>3. [k \in 1..1 |-> none] = <<none>>
    OBVIOUS
  <2> QED
    BY <2>2, <2>3 DEF none
<1> QED
  BY <1>3 DEF Init, Fat!Init, AtOf

\* A step that exchanges the innermost frame.
LEMMA TopChanges ==
  ASSUME TypeOK, NEW fr \in Frame, stack' = [stack EXCEPT ![Len(stack)] = fr]
  PROVE  FramesOf' = [FramesOf EXCEPT ![Len(FramesOf)] = Seen(fr)]
<1>1. /\ Len(stack) \in Nat \ {0}
      /\ Len(FramesOf) = Len(stack)
      /\ stack \in Seq(Frame) \ {<<>>}
  BY TopType, FramesOfLen DEF TypeOK
<1>2. /\ Len(stack') = Len(stack)
      /\ stack'[Len(stack)] = fr
      /\ \A k \in 1..(Len(stack) - 1) : stack'[k] = stack[k]
  BY <1>1, UpdateTop
<1>3. \A k \in 1..Len(stack) : k = Len(stack) \/ k \in 1..(Len(stack) - 1)
  BY <1>1
<1> QED
  BY <1>1, <1>2, <1>3 DEF FramesOf, Seen

\* The call sequence does not show: a site, and arguments on their way.
LEMMA StartCallFat ==
  ASSUME OwnInv, StartCall
  PROVE  FatStep
<1>1. PICK s \in prog.fns[Top.fn].sites : stack' = [stack EXCEPT ![Len(stack)].site = s]
  BY DEF StartCall
<1>2. TypeOK /\ Top \in Frame /\ Top.fn \in Fn /\ prog \in Programs
  BY TopType DEF OwnInv, ShapeInv, TypeOK, Frame
<1>3. s \in Site
  BY <1>2, SiteType
<1> DEFINE fr == [Top EXCEPT !.site = s]
<1>4. fr \in Frame /\ Seen(fr) = Seen(Top)
  BY <1>2, <1>3 DEF Frame, Seen
<1>5. stack' = [stack EXCEPT ![Len(stack)] = fr]
  BY <1>1 DEF Top
<1> HIDE DEF fr
<1>6. FramesOf' = [FramesOf EXCEPT ![Len(FramesOf)] = Seen(fr)]
  BY <1>2, <1>4, <1>5, TopChanges
<1>7. FramesOf[Len(FramesOf)] = Seen(Top) /\ Len(FramesOf) \in DOMAIN FramesOf
  BY <1>2, TopType, FramesOfLen DEF Top
<1>8. FramesOf' = FramesOf
  BY <1>2, <1>4, <1>6, <1>7, FramesOfLen
<1> QED
  BY <1>8 DEF FatStep, Fat!vars, AtOf, StartCall

LEMMA QuietFat ==
  ASSUME PassArg \/ Exit \/ Ended \/ UNCHANGED vars
  PROVE  FatStep
BY DEF PassArg, Exit, Ended, vars, FatStep, Fat!vars, FramesOf, AtOf

LEMMA EnterFat ==
  ASSUME OwnInv, Enter
  PROVE  FatStep
<1> DEFINE n == Len(stack)
           fr == [fn |-> callee, args |-> passed, vals |-> {}, site |-> NoSite]
<1>1. /\ TypeOK /\ ShapeInv' /\ stack \in Seq(Frame) /\ n \in Nat \ {0}
      /\ callee \in Fn /\ passed \in Seq(Target) /\ Len(passed) \in Nat
      /\ passed \in [1..Len(passed) -> Target]
      /\ pc = "pass" /\ pc' = "enter"
      /\ stack' = Append(stack, fr) /\ returned' = returned
  BY EnterShape, TopType, LenProperties DEF OwnInv, ShapeInv, TypeOK, Enter
<1>2. fr \in Frame /\ Seen(fr) = [args |-> passed, vals |-> {}] /\ fr.args = passed
  BY <1>1 DEF Frame, Seen
<1> HIDE DEF fr
<1>3. /\ Len(stack') = n + 1
      /\ \A k \in 1..n : stack'[k] = stack[k]
      /\ stack'[n + 1] = fr
  BY <1>1, <1>2, AppendProperties
<1>4. Top' = fr
  BY <1>3 DEF Top
<1>5. Len(passed) \in 0..(N_ARG_ENTRIES - 1)
  BY <1>1, <1>2, <1>4, BoundsAssumption DEF ShapeInv
<1> HIDE DEF n
<1>6. FramesOf' = [k \in 1..(n + 1) |-> Seen(stack'[k])]
  BY <1>3 DEF FramesOf, Seen
<1>7. /\ FramesOf \in Seq({Seen(x) : x \in Frame}) /\ Len(FramesOf) = n
      /\ DOMAIN FramesOf = 1..n
      /\ \A k \in 1..n : FramesOf[k] = Seen(stack[k])
  BY <1>1, FramesOfLen DEF n
<1>8. FramesOf' = Append(FramesOf, [args |-> passed, vals |-> {}])
  <2> DEFINE new == Append(FramesOf, Seen(fr))
  <2>1. /\ new \in Seq({Seen(x) : x \in Frame}) /\ Len(new) = n + 1
        /\ \A k \in 1..n : new[k] = FramesOf[k]
        /\ new[n + 1] = Seen(fr)
    BY <1>2, <1>7, AppendProperties
  <2>2. DOMAIN new = 1..(n + 1) /\ new = [k \in 1..(n + 1) |-> new[k]]
    BY <2>1, LenProperties
  <2>3. \A k \in 1..(n + 1) : k \in 1..n \/ k = n + 1
    BY <1>1
  <2> HIDE DEF new
  <2>4. \A k \in 1..(n + 1) : new[k] = Seen(stack'[k])
    BY <1>3, <1>7, <2>1, <2>3
  <2>5. FramesOf' = new
    BY <1>6, <2>2, <2>4
  <2> QED
    BY <1>2, <2>5 DEF new
<1>9. Fat!Call
  BY <1>1, <1>5, <1>8 DEF Fat!Call, Fat!Target, Target, AtOf
<1> QED
  BY <1>9 DEF FatStep, Fat!Next

LEMMA CallDeclaredFat ==
  ASSUME CallDeclared
  PROVE  FatStep
<1>1. Fat!CallOutside
  BY DEF CallDeclared, Fat!CallOutside, FramesOf, AtOf
<1> QED
  BY <1>1 DEF FatStep, Fat!Next

LEMMA AddVal ==
  ASSUME NEW a, NEW X, NEW v
  PROVE  [[args |-> a, vals |-> X] EXCEPT !.vals = @ \cup {v}]
           = [args |-> a, vals |-> X \cup {v}]
OBVIOUS

\* Adding a pointer to those of the innermost frame.
LEMMA Learns ==
  ASSUME TypeOK, NEW v \in Pointer,
         stack' = [stack EXCEPT ![Len(stack)].vals = @ \cup {v}]
  PROVE  Fat!Learn(v)
<1> DEFINE fr == [Top EXCEPT !.vals = @ \cup {v}]
<1>1. Top \in Frame
  BY TopType
<1>2. fr \in Frame /\ Seen(fr) = [args |-> Top.args, vals |-> Top.vals \cup {v}]
  BY <1>1 DEF Frame, Seen
<1>3. stack' = [stack EXCEPT ![Len(stack)] = fr]
  BY DEF Top
<1> HIDE DEF fr
<1>4. FramesOf' = [FramesOf EXCEPT ![Len(FramesOf)] = Seen(fr)]
  BY <1>2, <1>3, TopChanges
<1>5. FramesOf[Len(FramesOf)] = [args |-> Top.args, vals |-> Top.vals]
  BY TopType, FramesOfLen DEF Top, Seen
<1>6. [FramesOf[Len(FramesOf)] EXCEPT !.vals = @ \cup {v}] = Seen(fr)
  <2> DEFINE top == [args |-> Top.args, vals |-> Top.vals]
  <2>1. [top EXCEPT !.vals = @ \cup {v}] = Seen(fr)
    BY <1>2, AddVal
  <2>2. FramesOf[Len(FramesOf)] = top
    BY <1>5
  <2> HIDE DEF top
  <2> QED
    BY <2>1, <2>2, Zenon
<1> QED
  BY <1>4, <1>6 DEF Fat!Learn

\* The slot has the bounds of the argument: SlotsAreOfThisCall.
LEMMA LoadArgFat ==
  ASSUME OwnInv, LoadArg
  PROVE  FatStep
<1>1. PICK j \in pending :
        stack' = [stack EXCEPT ![Len(stack)].vals = @ \cup {<<Top.args[j], slots[j]>>}]
  BY DEF LoadArg
<1>2. /\ TypeOK /\ Top \in Frame /\ pc = "enter"
      /\ UNCHANGED <<pc, returned>>
  BY TopType DEF OwnInv, ShapeInv, LoadArg
<1>3. slots[j] = BoundsOf(Top.args[j])
  BY <1>2 DEF OwnInv, SlotsAreOfThisCall
<1>4. j \in DOMAIN Top.args /\ Top.args \in Seq(Target)
  BY <1>2 DEF OwnInv, ShapeInv, Frame
<1>5. Top.args[j] \in Target
  BY <1>4, ElementOfSeq, LenProperties
<1>6. <<Top.args[j], slots[j]>> \in Pointer
  BY <1>3, <1>5 DEF Pointer, BoundsOf, Bounds, Target
<1>7. Fat!Learn(<<Top.args[j], slots[j]>>)
  BY <1>1, <1>2, <1>6, Learns
<1>8. Fat!Top.args = Top.args
  BY <1>2, TopType, FramesOfLen DEF Fat!Top, Top, Seen
<1>9. Fat!Own(Top.args[j]) = <<Top.args[j], slots[j]>>
  BY <1>3 DEF Fat!Own, BoundsOf
<1>10. Fat!Receive
  BY <1>2, <1>4, <1>7, <1>8, <1>9 DEF Fat!Receive, AtOf
<1> QED
  BY <1>10 DEF FatStep, Fat!Next

LEMMA BeginFat ==
  ASSUME Begin
  PROVE  FatStep
<1>1. Fat!Begin
  BY DEF Begin, Fat!Begin, FramesOf, AtOf
<1> QED
  BY <1>1 DEF FatStep, Fat!Next

LEMMA ReturnFat ==
  ASSUME OwnInv, Return
  PROVE  FatStep
<1> DEFINE n == Len(stack) - 1
<1>1. /\ TypeOK /\ ShapeInv'
      /\ Len(stack) \in Nat /\ Len(stack) > 1
      /\ stack' = SubSeq(stack, 1, n) /\ pc = "body" /\ pc' = "result"
      /\ \A k \in 1..Len(stack) : stack[k] \in Frame
  BY ReturnShape, TopType DEF OwnInv, ShapeInv, Return
<1>2. returned' \in Target
  BY <1>1 DEF ShapeInv, TypeOK
<1>3. n \in Nat /\ n >= 1 /\ n <= Len(stack) /\ 1..n \subseteq 1..Len(stack)
  BY <1>1
<1>4. n - 1 + 1 = n /\ \A k \in 1..n : 1 + k - 1 = k
  BY <1>3
<1>5. /\ FramesOf \in Seq({Seen(fr) : fr \in Frame})
      /\ Len(FramesOf) = Len(stack)
      /\ \A k \in 1..Len(stack) : FramesOf[k] = Seen(stack[k])
  BY <1>1, FramesOfLen
<1> HIDE DEF n
<1>6. Len(stack') = n /\ \A k \in 1..n : stack'[k] = stack[k]
  BY <1>1, <1>3, <1>4, SubSeqProperties
<1>7. FramesOf' = [k \in 1..n |-> Seen(stack[k])]
  BY <1>6 DEF FramesOf, Seen
<1>8. SubSeq(FramesOf, 1, n) = [k \in 1..n |-> Seen(stack[k])]
  <2> DEFINE cut == SubSeq(FramesOf, 1, n)
  <2>1. /\ cut \in Seq({Seen(fr) : fr \in Frame}) /\ Len(cut) = n
        /\ \A k \in 1..n : cut[k] = FramesOf[k]
    BY <1>3, <1>4, <1>5, SubSeqProperties
  <2>2. cut = [k \in 1..n |-> cut[k]]
    BY <2>1, LenProperties
  <2> HIDE DEF cut
  <2>3. \A k \in 1..n : cut[k] = Seen(stack[k])
    BY <1>3, <1>5, <2>1
  <2>4. cut = [k \in 1..n |-> Seen(stack[k])]
    BY <2>2, <2>3
  <2> QED
    BY <2>4 DEF cut
<1>9. Fat!Return
  BY <1>1, <1>2, <1>5, <1>7, <1>8 DEF Fat!Return, Fat!Target, Target, AtOf, n
<1> QED
  BY <1>9 DEF FatStep, Fat!Next

\* Slot 0 has the bounds of the result, if anybody asks for them.
LEMMA LoadResultFat ==
  ASSUME OwnInv, LoadResult
  PROVE  FatStep
<1>1. /\ TypeOK /\ pc = "result" /\ pc' = "body" /\ returned' = returned
      /\ returned \in Target
  BY DEF OwnInv, ShapeInv, TypeOK, LoadResult
<1>2. CASE ~ Top.site.usesResult
  <2>1. FramesOf' = FramesOf
    BY <1>2 DEF LoadResult, FramesOf
  <2> QED
    BY <1>1, <2>1 DEF FatStep, Fat!Next, Fat!TakeResult, AtOf
<1>3. CASE Top.site.usesResult
  <2>1. stack' = [stack EXCEPT ![Len(stack)].vals = @ \cup {<<returned, slots[0]>>}]
    BY <1>3 DEF LoadResult
  <2>2. slots[0] = BoundsOf(returned)
    BY <1>1, <1>3 DEF OwnInv, SlotsAreOfThisCall
  <2>3. <<returned, slots[0]>> \in Pointer
    BY <1>1, <2>2 DEF Pointer, BoundsOf, Bounds, Target
  <2>4. Fat!Learn(<<returned, slots[0]>>)
    BY <1>1, <2>1, <2>3, Learns
  <2>5. Fat!Own(returned) = <<returned, slots[0]>>
    BY <2>2 DEF Fat!Own, BoundsOf
  <2>6. Fat!TakeResult
    BY <1>1, <2>4, <2>5 DEF Fat!TakeResult, AtOf
  <2> QED
    BY <2>6 DEF FatStep, Fat!Next
<1> QED
  BY <1>2, <1>3

LEMMA NextFat == OwnInv /\ [Next]_vars => [Fat!Next]_(Fat!vars)
BY StartCallFat, QuietFat, EnterFat, CallDeclaredFat, LoadArgFat, BeginFat,
   ReturnFat, LoadResultFat DEF Next, FatStep

\* The compiled program implements the one with fat pointers: if its calls
\* agree with the functions they reach on what is sensitive, each of its steps
\* is a step of FatCalls or changes nothing there.  No program over the array
\* of slots can tell it from pointers that carry their bounds.
THEOREM AgreeingProgramsHaveFatPointers == Spec /\ Agrees(prog) => ImplementsFatCalls
<1>1. Spec /\ Agrees(prog) => Fat!Init
  BY InitFat DEF Spec
<1> QED
  BY <1>1, OwnInvariance, NextFat, PTL DEF Spec, ImplementsFatCalls, Fat!Spec
==========================================================================
