------------------- MODULE SensitivityAnalysis_proofs --------------------
(***************************************************************************)
(* Proofs about the sensitivity analysis, for every set of programs that   *)
(* satisfies the assumptions of module SensitivityAnalysis.                *)
(***************************************************************************)
EXTENDS SensitivityAnalysis, SequenceTheorems, FiniteSetTheorems, TLAPS

----------------------------------------------------------------------------
(* The invariant the type of the state rests on *)

\* The values of the functions made so far, and the globals.
Known == (Listed \X (Local \cup {Itself})) \cup ({Unit} \X Global)

\* A CallInfo is about a call of a function of the module; its replacement is
\* a function of the module made from the callee.
InfoOK(ci) ==
  /\ ci \in CallInfo
  /\ ci.inst \in Listed
  /\ ci.call \in DOMAIN Body(ci.inst).calls
  /\ ci.repl # None => ci.repl \in Listed /\ ci.repl[1] = SiteOf(ci).callee

Crossing == pc \in {"crossNew", "crossOld"}

\* The functions of the module: the originals are always among them.
FunctionsInv ==
  /\ prog \in Programs
  /\ functions \in Seq(Instance)
  /\ \A x \in Fn : <<x, Original>> \in Listed

ShapeInv ==
  /\ FunctionsInv
  /\ sens \in SUBSET Known
  /\ isChanged \in BOOLEAN
  /\ callInfos \in Seq(CallInfo)
  /\ \A k \in DOMAIN callInfos : InfoOK(callInfos[k])
  /\ newFs \in Seq(Listed)
  /\ todo \in Seq(Listed)
  /\ pc \in Phases
  /\ idx \in Nat \ {0}
  /\ arg \in Nat \ {0}
  /\ redirected \in SUBSET (Nat \ {0})
  /\ Crossing =>
       /\ idx \in DOMAIN callInfos
       /\ IsInternal(callInfos[idx])
       /\ callInfos[idx].repl # None
  /\ pc \in {"round", "redirect", "done", "unreachable"} => todo = <<>>

----------------------------------------------------------------------------
(* Sequences that grow keep their elements in place *)

LEMMA ConcatExtends ==
  ASSUME NEW S, NEW s \in Seq(S), NEW t \in Seq(S)
  PROVE  /\ s \o t \in Seq(S)
         /\ \A k \in DOMAIN s : k \in DOMAIN (s \o t) /\ (s \o t)[k] = s[k]
         /\ \A k \in DOMAIN (s \o t) : k \notin DOMAIN s =>
              k - Len(s) \in DOMAIN t /\ (s \o t)[k] = t[k - Len(s)]
<1>1. s \o t \in Seq(S) /\ Len(s \o t) = Len(s) + Len(t)
  BY ConcatProperties
<1>2. DOMAIN s = 1..Len(s) /\ DOMAIN t = 1..Len(t) /\ DOMAIN (s \o t) = 1..(Len(s) + Len(t))
  BY <1>1, LenProperties
<1>3. Len(s) \in Nat /\ Len(t) \in Nat
  BY LenProperties
<1>4. \A k \in 1..(Len(s) + Len(t)) :
        (s \o t)[k] = IF k <= Len(s) THEN s[k] ELSE t[k - Len(s)]
  BY ConcatProperties
<1>5. QED
  BY <1>1, <1>2, <1>3, <1>4

----------------------------------------------------------------------------
(* Types of the operators *)

LEMMA ListedType ==
  ASSUME functions \in Seq(Instance)
  PROVE  Listed \subseteq Instance
BY DEF Listed

LEMMA BodyType ==
  ASSUME prog \in Programs, NEW i \in Instance
  PROVE  Body(i) \in FnBody
<1>1. prog \in Program
  BY ProgramsAssumption
<1>2. i[1] \in Fn
  BY DEF Instance
<1>3. QED
  BY <1>1, <1>2 DEF Program, Body

LEMMA ValsKnown ==
  ASSUME FunctionsInv, NEW i \in Listed, NEW X \in SUBSET Operand
  PROVE  Vals(i, X) \subseteq Known
<1>1. SUFFICES ASSUME NEW x \in X, x # Const
               PROVE  Val(i, x) \in Known
  BY DEF Vals
<1>2. x \in Local \cup Global \cup Fn
  BY <1>1 DEF Operand
<1>3. CASE x \in Local
  BY <1>3 DEF Val, Known
<1>4. CASE x \in Fn
  <2>1. <<x, Original>> \in Listed
    BY <1>4 DEF FunctionsInv
  <2>2. x \notin Local
    BY <1>4, DistinctAssumption
  <2>3. QED
    BY <1>4, <2>1, <2>2 DEF Val, Known
<1>5. CASE x \in Global
  <2>1. x \notin Local /\ x \notin Fn
    BY <1>5, DistinctAssumption
  <2>2. QED
    BY <1>5, <2>1 DEF Val, Known
<1>6. QED
  BY <1>2, <1>3, <1>4, <1>5

LEMMA ParamKnown ==
  ASSUME FunctionsInv, NEW i \in Listed, NEW j \in DOMAIN Body(i).params
  PROVE  Param(i, j) \in Known
<1>1. Body(i) \in FnBody
  BY ListedType, BodyType DEF FunctionsInv
<1>2. Body(i).params[j] \in Local
  BY <1>1 DEF FnBody
<1>3. QED
  BY <1>2 DEF Param, Known

\* The same of a function about to be added.
OwnValues(i) == {i} \X (Local \cup {Itself})

LEMMA ReturnsOwned ==
  ASSUME FunctionsInv, NEW i \in Instance
  PROVE  Returns(i) \subseteq Known \cup OwnValues(i)
<1>1. Body(i) \in FnBody
  BY BodyType DEF FunctionsInv
<1>2. Body(i).rets \in SUBSET Operand
  BY <1>1 DEF FnBody
<1>3. SUFFICES ASSUME NEW x \in Body(i).rets, x # Const
               PROVE  Val(i, x) \in Known \cup OwnValues(i)
  BY DEF Returns, Vals
<1>4. CASE x \in Local
  BY <1>4 DEF Val, OwnValues
<1>5. CASE x \in Fn
  BY <1>5 DEF Val, Known, FunctionsInv, OwnValues
<1>6. CASE x \in Global
  <2>1. x \notin Local /\ x \notin Fn
    BY <1>6, DistinctAssumption
  <2>2. QED
    BY <1>6, <2>1 DEF Val, Known
<1>7. QED
  BY <1>2, <1>3, <1>4, <1>5, <1>6 DEF Operand

LEMMA ReturnsKnown ==
  ASSUME FunctionsInv, NEW i \in Listed
  PROVE  Returns(i) \subseteq Known
<1>1. i \in Instance /\ OwnValues(i) \subseteq Known
  BY ListedType DEF FunctionsInv, OwnValues, Known
<1>2. QED
  BY <1>1, ReturnsOwned

LEMMA TypedKnown ==
  ASSUME FunctionsInv, NEW i \in Listed
  PROVE  Typed(i) \subseteq Known
<1>1. Body(i) \in FnBody
  BY ListedType, BodyType DEF FunctionsInv
<1>2. Body(i).typed \subseteq Local
  BY <1>1 DEF FnBody
<1>3. QED
  BY <1>2 DEF Typed, Known

LEMMA GainKnown ==
  ASSUME FunctionsInv, NEW i \in Listed, NEW ins \in Propagating(i)
  PROVE  Gain(i, ins) \subseteq Known
<1>1. Body(i) \in FnBody
  BY ListedType, BodyType DEF FunctionsInv
<1>2. ins \in Instr
  BY <1>1 DEF Propagating, FnBody
<1>3. ins.main \in SUBSET Operand /\ ins.rest \in SUBSET Operand
  BY <1>2 DEF Instr
<1>4. QED
  BY <1>3, ValsKnown DEF Gain

\* A call of a function with a body passes as many arguments as it has
\* parameters, and its parameters and arguments have values.
LEMMA SiteType ==
  ASSUME FunctionsInv, NEW ci, InfoOK(ci)
  PROVE  /\ SiteOf(ci) \in Site
         /\ \A j \in DOMAIN SiteOf(ci).args : ArgValues(ci, j) \subseteq Known
         /\ IsInternal(ci) => /\ getCallee(ci) \in Listed
                              /\ DOMAIN SiteOf(ci).args = DOMAIN Body(getCallee(ci)).params
                              /\ ci.repl # None =>
                                   DOMAIN SiteOf(ci).args = DOMAIN Body(ci.repl).params
<1>1. ci.inst \in Instance /\ Body(ci.inst) \in FnBody
  BY ListedType, BodyType DEF FunctionsInv, InfoOK
<1>2. SiteOf(ci) \in Site
  BY <1>1 DEF InfoOK, FnBody, SiteOf
<1>3. ASSUME NEW j \in DOMAIN SiteOf(ci).args
      PROVE  ArgValues(ci, j) \subseteq Known
  <2>1. {SiteOf(ci).args[j]} \in SUBSET Operand
    BY <1>2 DEF Site
  <2>2. QED
    BY <2>1, ValsKnown DEF ArgValues, InfoOK
<1>4. ASSUME IsInternal(ci)
      PROVE  /\ getCallee(ci) \in Listed
             /\ DOMAIN SiteOf(ci).args = DOMAIN Body(getCallee(ci)).params
             /\ ci.repl # None => DOMAIN SiteOf(ci).args = DOMAIN Body(ci.repl).params
  <2>1. SiteOf(ci).callee \in Fn
    BY <1>4 DEF IsInternal
  <2>2. getCallee(ci) \in Listed
    BY <2>1 DEF getCallee, FunctionsInv
  <2>3. WellFormed(prog)
    BY ProgramsAssumption DEF FunctionsInv
  <2>4. ci.inst[1] \in Fn
    BY <1>1 DEF Instance
  <2>5. Len(SiteOf(ci).args) = Len(prog.fns[SiteOf(ci).callee].params)
    BY <2>1, <2>3, <2>4 DEF WellFormed, SiteOf, Body, InfoOK
  <2>6. prog.fns[SiteOf(ci).callee] \in FnBody
    BY <2>1, ProgramsAssumption DEF FunctionsInv, Program
  <2>7. DOMAIN SiteOf(ci).args = DOMAIN prog.fns[SiteOf(ci).callee].params
    BY <1>2, <2>5, <2>6 DEF Site, FnBody
  <2>8. QED
    BY <2>2, <2>7 DEF Body, getCallee, InfoOK
<1>5. QED
  BY <1>2, <1>3, <1>4

----------------------------------------------------------------------------
(* Init establishes ShapeInv *)

LEMMA SensitiveParamsKnown ==
  ASSUME FunctionsInv, NEW i \in Listed
  PROVE  SensitiveParams(i) \subseteq Known
BY ParamKnown DEF SensitiveParams

LEMMA AnnotatedKnown ==
  ASSUME FunctionsInv, NEW i \in Listed
  PROVE  Annotated(i) \subseteq Known
BY ParamKnown, ReturnsKnown DEF Annotated

LEMMA InitFunctions == Init => FunctionsInv
<1> SUFFICES ASSUME Init PROVE FunctionsInv
  OBVIOUS
<1>1. prog \in Program /\ WellFormed(prog)
  BY ProgramsAssumption DEF Init
<1>2. prog.originals \in Seq(Instance) /\ prog.annotated \in Seq(Instance)
  <2>1. prog.originals \in Seq(Fn \X {Original}) /\ prog.annotated \in Seq(Fn \X SUBSET Nat)
    BY <1>1 DEF Program
  <2>2. Fn \X {Original} \subseteq Instance /\ Fn \X SUBSET Nat \subseteq Instance
    BY DEF Instance, Signature
  <2>3. QED
    BY <2>1, <2>2
<1>3. functions \in Seq(Instance)
  BY <1>2, ConcatProperties DEF Init
<1>4. ASSUME NEW x \in Fn
      PROVE  <<x, Original>> \in Listed
  <2>1. PICK k \in DOMAIN prog.originals : prog.originals[k][1] = x
    BY <1>1 DEF WellFormed
  <2>2. prog.originals[k] = <<x, Original>>
    BY <1>1, <2>1 DEF Program
  <2>3. functions = prog.originals \o prog.annotated
    BY DEF Init
  <2>4. k \in DOMAIN functions /\ functions[k] = prog.originals[k]
    BY <1>2, <2>1, <2>3, ConcatExtends
  <2>5. QED
    BY <2>2, <2>4 DEF Listed
<1>5. QED
  BY <1>3, <1>4 DEF FunctionsInv, Init

LEMMA InitShape == Init => ShapeInv
<1> SUFFICES ASSUME Init PROVE ShapeInv
  OBVIOUS
<1>1. FunctionsInv
  BY InitFunctions
<1>2. sens \subseteq Known
  <2>1. \A i \in Listed : Typed(i) \cup SensitiveParams(i) \cup Annotated(i) \subseteq Known
    BY <1>1, TypedKnown, SensitiveParamsKnown, AnnotatedKnown
  <2>2. prog.typedGlobals \subseteq Global
    BY ProgramsAssumption DEF Init, Program
  <2>3. {<<Unit, x>> : x \in prog.typedGlobals} \subseteq Known
    BY <2>2 DEF Known
  <2>4. QED
    BY <2>1, <2>3 DEF Init
<1>3. functions \in Seq(Listed)
  BY <1>1 DEF FunctionsInv, Listed
<1>4. callInfos = <<>> /\ newFs = <<>> /\ todo = functions /\ pc = "collect"
      /\ idx = 1 /\ arg = 1 /\ redirected = {} /\ isChanged \in BOOLEAN
  BY DEF Init
<1>5. QED
  BY <1>1, <1>2, <1>3, <1>4 DEF ShapeInv, Crossing, Phases

----------------------------------------------------------------------------
(* Every step preserves ShapeInv *)

LEMMA SameFunctions ==
  ASSUME FunctionsInv, prog' = prog, functions' = functions
  PROVE  /\ FunctionsInv'
         /\ Listed' = Listed
         /\ Known' = Known
         /\ \A ci : InfoOK(ci) => InfoOK(ci)'
<1>1. Listed' = Listed
  BY DEF Listed
<1>2. FunctionsInv'
  BY <1>1 DEF FunctionsInv
<1>3. Known' = Known
  BY <1>1 DEF Known
<1>4. \A ci : InfoOK(ci) => InfoOK(ci)'
  BY <1>1 DEF InfoOK, Body, SiteOf
<1>5. QED
  BY <1>1, <1>2, <1>3, <1>4

LEMMA HeadListed ==
  ASSUME ShapeInv, todo # <<>>
  PROVE  Head(todo) \in Listed /\ Tail(todo) \in Seq(Listed)
BY HeadTailProperties DEF ShapeInv

LEMMA PropagateShape == ShapeInv /\ PropagateInstruction => ShapeInv'
<1> SUFFICES ASSUME ShapeInv, PropagateInstruction PROVE ShapeInv'
  OBVIOUS
<1>1. PICK ins \in Propagating(Head(todo)) : sens' = sens \cup Gain(Head(todo), ins)
  BY DEF PropagateInstruction
<1>2. prog' = prog /\ functions' = functions
  BY DEF PropagateInstruction
<1>3. FunctionsInv' /\ Listed' = Listed /\ Known' = Known /\ \A ci : InfoOK(ci) => InfoOK(ci)'
  BY <1>2, SameFunctions DEF ShapeInv
<1>4. sens' \subseteq Known
  BY <1>1, HeadListed, GainKnown DEF ShapeInv, PropagateInstruction
<1>5. QED
  BY <1>2, <1>3, <1>4 DEF ShapeInv, PropagateInstruction, Crossing, IsInternal, SiteOf, Body

\* The steps that insert nothing and make no function.
QuietStep ==
  \/ FunctionClosed \/ StartRound \/ SkipCall \/ CrossDone \/ CallsDone
  \/ EndRound \/ Redirect \/ RedirectDone \/ UNCHANGED vars

LEMMA AppendInfos ==
  ASSUME ShapeInv, NEW i \in Listed
  PROVE  /\ callInfos \o CallsOf(i) \in Seq(CallInfo)
         /\ \A k \in DOMAIN (callInfos \o CallsOf(i)) : InfoOK((callInfos \o CallsOf(i))[k])
<1>1. i \in Instance /\ Body(i) \in FnBody
  BY ListedType, BodyType DEF ShapeInv, FunctionsInv
<1>2. Body(i).calls \in Seq(Site)
  BY <1>1 DEF FnBody
<1>3. Len(Body(i).calls) \in Nat /\ DOMAIN Body(i).calls = 1..Len(Body(i).calls)
  BY <1>2, LenProperties
<1>4. ASSUME NEW n \in 1..Len(Body(i).calls)
      PROVE  CallsOf(i)[n] \in CallInfo /\ InfoOK(CallsOf(i)[n])
  <2>1. CallsOf(i)[n] = [inst |-> i, call |-> n, repl |-> None]
    BY <1>4 DEF CallsOf
  <2>2. CallsOf(i)[n] \in CallInfo
    BY <1>1, <1>3, <1>4, <2>1 DEF CallInfo
  <2>3. CallsOf(i)[n].inst = i /\ CallsOf(i)[n].call = n /\ CallsOf(i)[n].repl = None
    BY <2>1
  <2>4. QED
    BY <1>3, <1>4, <2>2, <2>3 DEF InfoOK
<1>5. DOMAIN CallsOf(i) = 1..Len(Body(i).calls)
  BY DEF CallsOf
<1>6. CallsOf(i) \in Seq(CallInfo)
  <2>1. CallsOf(i) \in [1..Len(Body(i).calls) -> CallInfo]
    BY <1>4 DEF CallsOf
  <2>2. QED
    BY <1>3, <2>1, SeqDef
<1>7. callInfos \in Seq(CallInfo)
  BY DEF ShapeInv
<1>8. QED
  BY <1>4, <1>5, <1>6, <1>7, ConcatExtends DEF ShapeInv

LEMMA CollectShape == ShapeInv /\ CollectCalls => ShapeInv'
<1> SUFFICES ASSUME ShapeInv, CollectCalls PROVE ShapeInv'
  OBVIOUS
<1>1. prog' = prog /\ functions' = functions
  BY DEF CollectCalls
<1>2. FunctionsInv' /\ Listed' = Listed /\ Known' = Known /\ \A ci : InfoOK(ci) => InfoOK(ci)'
  BY <1>1, SameFunctions DEF ShapeInv
<1>3. CASE idx <= Len(functions)
  <2>1. functions[idx] \in Listed
    BY <1>3 DEF ShapeInv, FunctionsInv, Listed
  <2>2. callInfos' \in Seq(CallInfo) /\ \A k \in DOMAIN callInfos' : InfoOK(callInfos'[k])
    BY <1>3, <2>1, AppendInfos DEF CollectCalls
  <2>3. QED
    BY <1>2, <1>3, <2>2 DEF ShapeInv, CollectCalls, Crossing, Phases
<1>4. CASE ~ (idx <= Len(functions))
  BY <1>2, <1>4 DEF ShapeInv, CollectCalls, Crossing, Phases
<1>5. QED
  BY <1>3, <1>4

LEMMA QuietShape == ShapeInv /\ QuietStep => ShapeInv'
<1> SUFFICES ASSUME ShapeInv, QuietStep PROVE ShapeInv'
  OBVIOUS
<1>1. prog' = prog /\ functions' = functions /\ sens' = sens /\ callInfos' = callInfos
  BY DEF QuietStep, FunctionClosed, StartRound, SkipCall, CrossDone, CallsDone, EndRound,
         Redirect, RedirectDone, vars
<1>2. FunctionsInv' /\ Listed' = Listed /\ Known' = Known /\ \A ci : InfoOK(ci) => InfoOK(ci)'
  BY <1>1, SameFunctions DEF ShapeInv
<1>3. /\ FunctionsInv'
      /\ sens' \in SUBSET Known'
      /\ callInfos' \in Seq(CallInfo)
      /\ (\A k \in DOMAIN callInfos : InfoOK(callInfos[k]))'
  BY <1>1, <1>2 DEF ShapeInv
<1>4. ASSUME Crossing', idx' = idx, Crossing
      PROVE  /\ idx' \in DOMAIN callInfos'
             /\ IsInternal(callInfos[idx])'
             /\ callInfos'[idx'].repl # None
  <2>1. idx \in DOMAIN callInfos /\ IsInternal(callInfos[idx]) /\ callInfos[idx].repl # None
    BY <1>4 DEF ShapeInv
  <2>2. IsInternal(callInfos[idx])'
    BY <1>1, <1>4, <2>1 DEF IsInternal, SiteOf, Body
  <2>3. QED
    BY <1>1, <1>4, <2>1, <2>2
<1>5. CASE FunctionClosed
  <2>1. todo' \in Seq(Listed)
    BY <1>5, HeadListed DEF FunctionClosed
  <2>2. QED
    BY <1>1, <1>2, <1>3, <1>4, <1>5, <2>1 DEF ShapeInv, FunctionClosed, Crossing
<1>6. CASE StartRound
  <2>1. todo' \in Seq(Listed')
    BY <1>6, <1>2 DEF StartRound, ShapeInv, FunctionsInv, Listed
  <2>2. /\ newFs' = <<>> /\ pc' = "calls" /\ idx' = 1 /\ isChanged' = FALSE
        /\ arg' = arg /\ redirected' = redirected
    BY <1>6 DEF StartRound
  <2>3. pc' \in Phases /\ ~ Crossing' /\ isChanged' \in BOOLEAN
    BY <2>2 DEF Phases, Crossing
  <2>7. newFs' \in Seq(Listed')
    BY <2>2, EmptySeq
  <2>4. arg' \in Nat \ {0} /\ idx' \in Nat \ {0} /\ redirected' \in SUBSET (Nat \ {0})
    BY <2>2 DEF ShapeInv
  <2>5. pc' \notin {"round", "redirect", "done", "unreachable"}
    BY <2>2
  <2>6. QED
    BY <1>3, <2>1, <2>3, <2>4, <2>5, <2>7 DEF ShapeInv
<1>7. CASE SkipCall
  BY <1>2, <1>3, <1>7 DEF ShapeInv, SkipCall, AtCall, Crossing
<1>8. CASE CrossDone
  <2>1. callInfos[idx].inst \in Listed /\ callInfos[idx].repl \in Listed
    BY <1>8 DEF ShapeInv, CrossDone, Crossing, InfoOK
  <2>2. todo' \in Seq(Listed')
    BY <1>2, <1>8, <2>1 DEF CrossDone
  <2>3. QED
    BY <1>2, <1>3, <1>8, <2>2 DEF ShapeInv, CrossDone, Crossing, Phases
<1>9. CASE CallsDone
  BY <1>2, <1>3, <1>9 DEF ShapeInv, CallsDone, Crossing, Phases
<1>10. CASE EndRound
  BY <1>2, <1>3, <1>10 DEF ShapeInv, EndRound, Crossing, Phases
<1>11. CASE Redirect
  <2>1. redirected' \in SUBSET (Nat \ {0})
    BY <1>11 DEF ShapeInv, Redirect
  <2>2. pc' \in {"redirect", "unreachable"} /\ idx' \in Nat \ {0}
    BY <1>11 DEF ShapeInv, Redirect
  <2>3. QED
    BY <1>2, <1>3, <1>11, <2>1, <2>2 DEF ShapeInv, Redirect, Crossing, Phases
<1>12. CASE RedirectDone
  BY <1>2, <1>3, <1>12 DEF ShapeInv, RedirectDone, Crossing, Phases
<1>13. CASE UNCHANGED vars
  BY <1>1, <1>2, <1>3, <1>4, <1>13 DEF ShapeInv, vars, Crossing
<1>14. QED
  BY <1>5, <1>6, <1>7, <1>8, <1>9, <1>10, <1>11, <1>12, <1>13 DEF QuietStep

\* A function is added: what was there remains.
LEMMA MoreFunctions ==
  ASSUME FunctionsInv, prog' = prog, NEW i \in Instance, functions' = Append(functions, i)
  PROVE  /\ FunctionsInv'
         /\ Listed' = Listed \cup {i}
         /\ Known \cup OwnValues(i) \subseteq Known'
         /\ \A ci : InfoOK(ci) => InfoOK(ci)'
<1>1. functions \in Seq(Instance) /\ functions' \in Seq(Instance)
  BY AppendProperties DEF FunctionsInv
<1>2. /\ DOMAIN functions' = DOMAIN functions \cup {Len(functions) + 1}
      /\ \A k \in DOMAIN functions : functions'[k] = functions[k]
      /\ functions'[Len(functions) + 1] = i
  BY <1>1, AppendProperties, LenProperties
<1>3. Listed' = Listed \cup {i}
  BY <1>2 DEF Listed
<1>4. FunctionsInv'
  BY <1>1, <1>3 DEF FunctionsInv
<1>5. Known \cup OwnValues(i) \subseteq Known'
  BY <1>3 DEF Known, OwnValues
<1>6. \A ci : InfoOK(ci) => InfoOK(ci)'
  BY <1>3 DEF InfoOK, Body, SiteOf
<1>7. QED
  BY <1>3, <1>4, <1>5, <1>6

\* Exchanging the replacement of one call leaves the others as they are.
LEMMA UpdateInfo ==
  ASSUME ShapeInv, NEW k \in DOMAIN callInfos, NEW i \in Instance,
         callInfos' = [callInfos EXCEPT ![k].repl = i]
  PROVE  /\ callInfos' \in Seq(CallInfo)
         /\ DOMAIN callInfos' = DOMAIN callInfos
         /\ \A m \in DOMAIN callInfos : m # k => callInfos'[m] = callInfos[m]
         /\ callInfos'[k].inst = callInfos[k].inst
         /\ callInfos'[k].call = callInfos[k].call
         /\ callInfos'[k].repl = i
<1>1. callInfos \in Seq(CallInfo) /\ callInfos[k] \in CallInfo
  BY DEF ShapeInv
<1>2. [callInfos[k] EXCEPT !.repl = i] \in CallInfo
  BY <1>1 DEF CallInfo
<1>3. callInfos' = [callInfos EXCEPT ![k] = [callInfos[k] EXCEPT !.repl = i]]
  OBVIOUS
<1>4. callInfos' \in Seq(CallInfo)
  BY <1>1, <1>2, <1>3, ExceptSeq
<1>5. QED
  BY <1>1, <1>3, <1>4 DEF CallInfo

LEMMA ReturnGainKnown ==
  ASSUME FunctionsInv, NEW ci, InfoOK(ci), IsInternal(ci), NEW i \in Instance
  PROVE  ReturnGain(ci, i) \subseteq Known \cup OwnValues(i)
<1>1. Returns(i) \subseteq Known \cup OwnValues(i)
  BY ReturnsOwned
<1>2. <<i, Itself>> \in OwnValues(i)
  BY DEF OwnValues
<1>3. <<getCallee(ci), Itself>> \in Known
  BY DEF getCallee, IsInternal, FunctionsInv, Known
<1>4. QED
  BY <1>1, <1>2, <1>3 DEF ReturnGain

LEMMA CloneNameType ==
  ASSUME ShapeInv, NEW ci, InfoOK(ci), IsInternal(ci)
  PROVE  /\ CloneName(ci) \in Instance
         /\ CloneName(ci)[1] = SiteOf(ci).callee
         /\ CloneName(ci)[2] # Original
<1>1. SiteOf(ci).args \in Seq(Operand)
  BY SiteType DEF ShapeInv, Site
<1>2. DOMAIN SiteOf(ci).args \subseteq Nat
  BY <1>1, LenProperties
<1>3. DEFINE sig == {m \in {0} : ReturnBit(ci)} \cup {j \in DOMAIN SiteOf(ci).args : ArgBit(ci, j)}
<1>4. sig \in SUBSET Nat
  BY <1>2
<1>5. sig # Original
  BY <1>4 DEF Original
<1>6. CloneName(ci) = <<SiteOf(ci).callee, sig>>
  BY DEF CloneName
<1>7. QED
  BY <1>4, <1>5, <1>6 DEF Instance, Signature, IsInternal

\* The first half of ReuseClone and MakeClone.
LEMMA ReplaceShape ==
  ASSUME ShapeInv, AtCall, MustReplace(callInfos[idx]), prog' = prog,
         NEW i \in Instance, i[1] = SiteOf(callInfos[idx]).callee, Replace(i),
         FunctionsInv', Listed' = Listed \cup {i}, Known \cup OwnValues(i) \subseteq Known',
         \A ci : InfoOK(ci) => InfoOK(ci)'
  PROVE  /\ sens' \in SUBSET Known'
         /\ callInfos' \in Seq(CallInfo)
         /\ (\A k \in DOMAIN callInfos : InfoOK(callInfos[k]))'
         /\ idx \in DOMAIN callInfos'
         /\ IsInternal(callInfos'[idx])
         /\ callInfos'[idx].repl = i
         /\ isChanged' \in BOOLEAN
         /\ arg' = 1
<1>1. idx \in DOMAIN callInfos /\ InfoOK(callInfos[idx]) /\ IsInternal(callInfos[idx])
  BY LenProperties DEF AtCall, ShapeInv, MustReplace
<1>2. ReturnGain(callInfos[idx], i) \subseteq Known'
  BY <1>1, ReturnGainKnown DEF ShapeInv
<1>3. sens' \in SUBSET Known'
  BY <1>2 DEF Replace, ShapeInv
<1>4. /\ callInfos' \in Seq(CallInfo)
      /\ DOMAIN callInfos' = DOMAIN callInfos
      /\ \A m \in DOMAIN callInfos : m # idx => callInfos'[m] = callInfos[m]
      /\ callInfos'[idx].inst = callInfos[idx].inst
      /\ callInfos'[idx].call = callInfos[idx].call
      /\ callInfos'[idx].repl = i
  BY <1>1, UpdateInfo DEF Replace
<1>5. SiteOf(callInfos'[idx]) = SiteOf(callInfos[idx])
  BY <1>4 DEF SiteOf
<1>6. ASSUME NEW d, d = callInfos'[idx]
      PROVE  InfoOK(d)'
  <2>1. /\ d \in CallInfo /\ d.inst = callInfos[idx].inst
        /\ d.call = callInfos[idx].call /\ d.repl = i
    BY <1>1, <1>4, <1>6
  <2>2. /\ callInfos[idx].inst \in Listed'
        /\ callInfos[idx].call \in DOMAIN Body(callInfos[idx].inst).calls
    BY <1>1 DEF InfoOK
  <2>3. SiteOf(d).callee = i[1]
    BY <1>5, <1>6
  <2>4. QED
    BY <2>1, <2>2, <2>3 DEF InfoOK, SiteOf, Body
<1>7. ASSUME NEW k \in DOMAIN callInfos'
      PROVE  InfoOK(callInfos[k])'
  <2>1. CASE k = idx
    BY <1>6, <2>1
  <2>2. CASE k # idx
    <3>1. callInfos'[k] = callInfos[k] /\ InfoOK(callInfos[k])
      BY <1>4, <2>2 DEF ShapeInv
    <3>2. ASSUME NEW d, d = callInfos'[k]
          PROVE  InfoOK(d)'
      BY <3>1, <3>2
    <3>3. QED
      BY <3>2
  <2>3. QED
    BY <2>1, <2>2
<1>8. IsInternal(callInfos'[idx]) /\ isChanged' \in BOOLEAN /\ arg' = 1
  BY <1>1, <1>5 DEF Replace, ShapeInv, IsInternal
<1>9. QED
  BY <1>1, <1>3, <1>4, <1>7, <1>8

LEMMA ReuseShape == ShapeInv /\ ReuseClone => ShapeInv'
<1> SUFFICES ASSUME ShapeInv, ReuseClone PROVE ShapeInv'
  OBVIOUS
<1> DEFINE i == CloneName(callInfos[idx])
<1>1. /\ prog' = prog /\ functions' = functions /\ newFs' = newFs /\ todo' = todo
      /\ idx' = idx /\ redirected' = redirected /\ pc' = "crossOld" /\ Replace(i)
      /\ AtCall /\ MustReplace(callInfos[idx]) /\ i \in Listed
  BY DEF ReuseClone, NewFunctions
<1>2. FunctionsInv' /\ Listed' = Listed /\ Known' = Known /\ \A ci : InfoOK(ci) => InfoOK(ci)'
  BY <1>1, SameFunctions DEF ShapeInv
<1>3. i \in Instance /\ i[1] = SiteOf(callInfos[idx]).callee
  BY <1>1, CloneNameType, LenProperties DEF AtCall, MustReplace, ShapeInv
<1>4. Listed' = Listed \cup {i} /\ Known \cup OwnValues(i) \subseteq Known'
  BY <1>1, <1>2 DEF OwnValues, Known
<1>5. /\ sens' \in SUBSET Known'
      /\ callInfos' \in Seq(CallInfo)
      /\ (\A k \in DOMAIN callInfos : InfoOK(callInfos[k]))'
      /\ idx \in DOMAIN callInfos' /\ IsInternal(callInfos'[idx])
      /\ callInfos'[idx].repl = i /\ isChanged' \in BOOLEAN /\ arg' = 1
  BY <1>1, <1>2, <1>3, <1>4, ReplaceShape
<1>6. IsInternal(callInfos[idx])' /\ callInfos'[idx'].repl # None
  BY <1>1, <1>3, <1>5, DistinctAssumption DEF IsInternal, SiteOf, Body
<1>7. pc' \in Phases /\ pc' \notin {"round", "redirect", "done", "unreachable"}
  BY <1>1 DEF Phases
<1> HIDE DEF i
<1>8. QED
  BY <1>1, <1>2, <1>5, <1>6, <1>7 DEF ShapeInv

LEMMA MakeShape == ShapeInv /\ MakeClone => ShapeInv'
<1> SUFFICES ASSUME ShapeInv, MakeClone PROVE ShapeInv'
  OBVIOUS
<1> DEFINE i == CloneName(callInfos[idx])
<1>1. /\ prog' = prog /\ functions' = Append(functions, i) /\ newFs' = Append(newFs, i)
      /\ todo' = todo /\ idx' = idx /\ redirected' = redirected /\ pc' = "crossNew"
      /\ Replace(i) /\ AtCall /\ MustReplace(callInfos[idx])
  BY DEF MakeClone
<1>2. i \in Instance /\ i[1] = SiteOf(callInfos[idx]).callee
  BY <1>1, CloneNameType, LenProperties DEF AtCall, MustReplace, ShapeInv
<1> HIDE DEF i
<1>3. /\ FunctionsInv' /\ Listed' = Listed \cup {i}
      /\ Known \cup OwnValues(i) \subseteq Known'
      /\ \A ci : InfoOK(ci) => InfoOK(ci)'
  BY <1>1, <1>2, MoreFunctions DEF ShapeInv
<1>4. /\ sens' \in SUBSET Known'
      /\ callInfos' \in Seq(CallInfo)
      /\ (\A k \in DOMAIN callInfos : InfoOK(callInfos[k]))'
      /\ idx \in DOMAIN callInfos' /\ IsInternal(callInfos'[idx])
      /\ callInfos'[idx].repl = i /\ isChanged' \in BOOLEAN /\ arg' = 1
  BY <1>1, <1>2, <1>3, ReplaceShape
<1>5. IsInternal(callInfos[idx])' /\ callInfos'[idx'].repl # None
  BY <1>1, <1>2, <1>4, DistinctAssumption DEF IsInternal, SiteOf, Body
<1>6. pc' \in Phases /\ pc' \notin {"round", "redirect", "done", "unreachable"}
  BY <1>1 DEF Phases
<1>7. newFs' \in Seq(Listed') /\ todo' \in Seq(Listed')
  <2>1. newFs \in Seq(Listed') /\ todo \in Seq(Listed') /\ i \in Listed'
    BY <1>3, SeqMonotonic DEF ShapeInv
  <2>2. QED
    BY <1>1, <2>1, AppendProperties
<1>8. QED
  BY <1>1, <1>3, <1>4, <1>5, <1>6, <1>7 DEF ShapeInv

LEMMA CrossArgShape == ShapeInv /\ CrossArg => ShapeInv'
<1> SUFFICES ASSUME ShapeInv, CrossArg PROVE ShapeInv'
  OBVIOUS
<1> DEFINE ci == callInfos[idx]
<1>1. /\ prog' = prog /\ functions' = functions /\ callInfos' = callInfos /\ newFs' = newFs
      /\ todo' = todo /\ pc' = pc /\ idx' = idx /\ redirected' = redirected
      /\ Crossing /\ arg \in 1..Len(SiteOf(ci).args) /\ arg' = arg + 1
      /\ sens' = sens \cup ArgGain(ci, arg) /\ isChanged' \in BOOLEAN
  BY DEF CrossArg, Crossing, ShapeInv
<1>2. FunctionsInv' /\ Listed' = Listed /\ Known' = Known /\ \A d : InfoOK(d) => InfoOK(d)'
  BY <1>1, SameFunctions DEF ShapeInv
<1>3. InfoOK(ci) /\ IsInternal(ci) /\ ci.repl # None /\ ci.repl \in Listed
  BY <1>1 DEF ShapeInv, InfoOK
<1> HIDE DEF ci
<1>4. arg \in DOMAIN SiteOf(ci).args /\ arg \in DOMAIN Body(ci.repl).params
  <2>1. SiteOf(ci).args \in Seq(Operand)
    BY <1>3, SiteType DEF ShapeInv, Site
  <2>2. arg \in DOMAIN SiteOf(ci).args
    BY <1>1, <2>1, LenProperties
  <2>3. QED
    BY <1>3, <2>2, SiteType DEF ShapeInv
<1>5. ArgGain(ci, arg) \subseteq Known
  BY <1>3, <1>4, ParamKnown, SiteType DEF ArgGain, ShapeInv
<1>6. IsInternal(ci)'
  BY <1>1, <1>3 DEF IsInternal, SiteOf, Body, ci
<1>7. QED
  BY <1>1, <1>2, <1>3, <1>5, <1>6 DEF ShapeInv, Crossing, ci

LEMMA ScanShape == ShapeInv /\ ScanFresh => ShapeInv'
<1> SUFFICES ASSUME ShapeInv, ScanFresh PROVE ShapeInv'
  OBVIOUS
<1>1. /\ prog' = prog /\ functions' = functions /\ newFs' = newFs /\ pc' = "fresh"
      /\ isChanged' = isChanged /\ arg' = arg /\ redirected' = redirected
      /\ idx' = idx + 1 /\ todo' = <<newFs[idx]>>
      /\ sens' = sens \cup Typed(newFs[idx])
      /\ callInfos' = callInfos \o CallsOf(newFs[idx])
  BY DEF ScanFresh
<1>2. FunctionsInv' /\ Listed' = Listed /\ Known' = Known /\ \A d : InfoOK(d) => InfoOK(d)'
  BY <1>1, SameFunctions DEF ShapeInv
<1>3. newFs[idx] \in Listed
  BY LenProperties DEF ScanFresh, ShapeInv
<1>4. /\ callInfos' \in Seq(CallInfo) /\ \A k \in DOMAIN callInfos' : InfoOK(callInfos'[k])
      /\ sens' \in SUBSET Known /\ todo' \in Seq(Listed)
  BY <1>1, <1>3, AppendInfos, TypedKnown DEF ShapeInv
<1>5. QED
  BY <1>1, <1>2, <1>4 DEF ShapeInv, Crossing, Phases

LEMMA NextShape == ShapeInv /\ [Next]_vars => ShapeInv'
<1> SUFFICES ASSUME ShapeInv, [Next]_vars PROVE ShapeInv'
  OBVIOUS
<1>1. QED
  BY PropagateShape, CollectShape, QuietShape, ReuseShape, MakeShape, CrossArgShape, ScanShape
  DEF Next, QuietStep, Finished

----------------------------------------------------------------------------
(* Type correctness *)

LEMMA ShapeImpliesTypeOK == ShapeInv => TypeOK
<1> SUFFICES ASSUME ShapeInv PROVE TypeOK
  OBVIOUS
<1>1. Listed \subseteq Instance
  BY ListedType DEF ShapeInv, FunctionsInv
<1>2. Known \subseteq Value
  BY <1>1 DEF Known, Value
<1>3. prog \in Program
  BY ProgramsAssumption DEF ShapeInv, FunctionsInv
<1>4. newFs \in Seq(Instance) /\ todo \in Seq(Instance)
  BY <1>1, SeqMonotonic DEF ShapeInv
<1>5. QED
  BY <1>2, <1>3, <1>4 DEF ShapeInv, FunctionsInv, TypeOK, InfoOK

\* The state of the analysis keeps its types: sensitive values belong to
\* functions and globals, and every CallInfo is about an existing call.
THEOREM TypeCorrect == Spec => []TypeOK
<1>1. Init => ShapeInv
  BY InitShape
<1>2. ShapeInv /\ [Next]_vars => ShapeInv'
  BY NextShape
<1>3. QED
  BY <1>1, <1>2, ShapeImpliesTypeOK, PTL DEF Spec

----------------------------------------------------------------------------
(* The list of calls *)

\* The functions whose calls have yet to be collected.
Waiting ==
  IF pc = "collect" THEN {functions[k] : k \in idx..Len(functions)}
  ELSE IF pc \in {"calls", "crossNew", "crossOld"} THEN {newFs[k] : k \in DOMAIN newFs}
  ELSE IF pc = "fresh" THEN {newFs[k] : k \in idx..Len(newFs)}
  ELSE {}

NewFsDistinct == \A k, m \in DOMAIN newFs : newFs[k] = newFs[m] => k = m

SameSite(ci, cj) == ci.inst = cj.inst /\ ci.call = cj.call

\* Every call of a function that does not wait has one entry, no other call has.
CallsInv ==
  /\ \A k, m \in DOMAIN callInfos : SameSite(callInfos[k], callInfos[m]) => k = m
  /\ \A k \in DOMAIN callInfos : callInfos[k].inst \notin Waiting
  /\ \A i \in Listed \ Waiting : \A n \in DOMAIN Body(i).calls :
       \E k \in DOMAIN callInfos : callInfos[k].inst = i /\ callInfos[k].call = n

CollectedInv == ShapeInv /\ OneClonePerName /\ NewFsDistinct /\ CallsInv

LEMMA InitCollected == Init => CollectedInv
<1> SUFFICES ASSUME Init PROVE CollectedInv
  OBVIOUS
<1>1. ShapeInv
  BY InitShape
<1>2. prog \in Program /\ WellFormed(prog)
  BY ProgramsAssumption DEF Init
<1>3. OneClonePerName
  <2> DEFINE S == Fn \X Signature
  <2>1. prog.originals \in Seq(Fn \X {Original}) /\ prog.annotated \in Seq(Fn \X SUBSET Nat)
    BY <1>2 DEF Program
  <2>2. prog.originals \in Seq(S) /\ prog.annotated \in Seq(S)
    BY <2>1 DEF Signature
  <2>3. \A k \in DOMAIN prog.originals : prog.originals[k][2] = Original
    BY <2>1
  <2>4. \A k \in DOMAIN prog.annotated : prog.annotated[k][2] # Original
    <3>1. -1 \in Original /\ -1 \notin Nat
      BY DEF Original
    <3>2. \A k \in DOMAIN prog.annotated : prog.annotated[k][2] \subseteq Nat
      BY <2>1
    <3> QED
      BY <3>1, <3>2
  <2>5. functions = prog.originals \o prog.annotated
    BY DEF Init
  <2>6. \A k \in DOMAIN functions :
          \/ k \in DOMAIN prog.originals /\ functions[k] = prog.originals[k]
          \/ /\ k \notin DOMAIN prog.originals
             /\ k - Len(prog.originals) \in DOMAIN prog.annotated
             /\ functions[k] = prog.annotated[k - Len(prog.originals)]
    <3> DEFINE s == prog.originals
               t == prog.annotated
    <3>1. /\ \A k \in DOMAIN s : k \in DOMAIN (s \o t) /\ (s \o t)[k] = s[k]
          /\ \A k \in DOMAIN (s \o t) : k \notin DOMAIN s =>
               k - Len(s) \in DOMAIN t /\ (s \o t)[k] = t[k - Len(s)]
      <4>1. s \in Seq(S) /\ t \in Seq(S)
        BY <2>2
      <4> HIDE DEF s, t, S
      <4> QED
        BY <4>1, ConcatExtends
    <3>2. functions = s \o t
      BY <2>5
    <3> QED
      BY <3>1, <3>2
  <2>7. DOMAIN functions \subseteq Nat /\ Len(prog.originals) \in Nat
    BY <1>1, <2>2, LenProperties DEF ShapeInv, FunctionsInv
  <2> SUFFICES ASSUME NEW k \in DOMAIN functions, NEW m \in DOMAIN functions,
                      functions[k] = functions[m]
               PROVE  k = m
    BY DEF OneClonePerName
  <2>8. CASE k \in DOMAIN prog.originals
    <3>1. m \in DOMAIN prog.originals
      BY <2>3, <2>4, <2>6, <2>8
    <3> QED
      BY <1>2, <2>6, <2>8, <3>1 DEF WellFormed
  <2>9. CASE k \notin DOMAIN prog.originals
    <3>1. m \notin DOMAIN prog.originals
      BY <2>3, <2>4, <2>6, <2>9
    <3>2. k - Len(prog.originals) = m - Len(prog.originals)
      BY <1>2, <2>6, <2>9, <3>1 DEF WellFormed
    <3> QED
      BY <2>7, <3>2
  <2> QED
    BY <2>8, <2>9
<1>4. Listed \subseteq Waiting /\ callInfos = <<>> /\ newFs = <<>>
  <2>1. DOMAIN functions = 1..Len(functions)
    BY <1>1, LenProperties DEF ShapeInv, FunctionsInv
  <2> QED
    BY <2>1 DEF Init, Waiting, Listed
<1> QED
  BY <1>1, <1>3, <1>4 DEF CollectedInv, NewFsDistinct, CallsInv

\* The steps that collect nothing and wait for the same functions.
LEMMA SameCalls ==
  ASSUME CallsInv, prog' = prog, Listed' \ Waiting' = Listed \ Waiting,
         \A k \in DOMAIN callInfos : callInfos[k].inst \notin Waiting',
         DOMAIN callInfos' = DOMAIN callInfos,
         \A k \in DOMAIN callInfos : SameSite(callInfos'[k], callInfos[k])
  PROVE  CallsInv'
<1>1. \A k \in DOMAIN callInfos : /\ callInfos'[k].inst = callInfos[k].inst
                                   /\ callInfos'[k].call = callInfos[k].call
  BY DEF SameSite
<1>2. \A i : Body(i)' = Body(i)
  BY DEF Body
<1>3. (\A k, m \in DOMAIN callInfos : SameSite(callInfos[k], callInfos[m]) => k = m)'
  BY <1>1 DEF CallsInv, SameSite
<1>4. (\A k \in DOMAIN callInfos : callInfos[k].inst \notin Waiting)'
  BY <1>1
<1>5. (\A i \in Listed \ Waiting : \A n \in DOMAIN Body(i).calls :
         \E k \in DOMAIN callInfos : callInfos[k].inst = i /\ callInfos[k].call = n)'
  <2> SUFFICES ASSUME NEW i \in Listed \ Waiting, NEW n \in DOMAIN Body(i)'.calls
               PROVE  \E k \in DOMAIN callInfos' :
                        callInfos'[k].inst = i /\ callInfos'[k].call = n
    OBVIOUS
  <2>1. PICK k \in DOMAIN callInfos : callInfos[k].inst = i /\ callInfos[k].call = n
    BY <1>2 DEF CallsInv
  <2> QED
    BY <1>1, <2>1
<1> QED
  BY <1>3, <1>4, <1>5 DEF CallsInv

LEMMA SameTop == ASSUME NEW a \in Nat, NEW b \in Nat, 1..a = 1..b PROVE a = b
<1>1. a = 0 \/ a \in 1..b
  OBVIOUS
<1>2. b = 0 \/ b \in 1..a
  OBVIOUS
<1>3. a = 0 => ~ (1 \in 1..b)
  OBVIOUS
<1>4. b = 0 => ~ (1 \in 1..a)
  OBVIOUS
<1> QED
  BY <1>1, <1>2, <1>3, <1>4

\* The calls of a function that waits are collected.
LEMMA CollectOne ==
  ASSUME ShapeInv, CallsInv, NEW i \in Waiting, i \in Listed,
         callInfos' = callInfos \o CallsOf(i),
         prog' = prog, functions' = functions, Waiting' = Waiting \ {i}
  PROVE  CallsInv'
<1> DEFINE n == Len(callInfos)
           c == Len(Body(i).calls)
<1>1. callInfos \in Seq(CallInfo) /\ n \in Nat /\ DOMAIN callInfos = 1..n
  BY LenProperties DEF ShapeInv
<1>2. c \in Nat /\ DOMAIN Body(i).calls = 1..c
  <2>1. Body(i).calls \in Seq(Site)
    BY ListedType, BodyType DEF ShapeInv, FunctionsInv, FnBody
  <2> QED
    BY <2>1, LenProperties
<1>3. CallsOf(i) \in Seq(CallInfo) /\ Len(CallsOf(i)) = c
  <2>1. i \in Instance
    BY ListedType DEF ShapeInv, FunctionsInv
  <2>2. CallsOf(i) \in [1..c -> CallInfo]
    BY <1>2, <2>1 DEF CallsOf, CallInfo
  <2> HIDE DEF c
  <2>3. CallsOf(i) \in Seq(CallInfo)
    BY <1>2, <2>2, SeqDef
  <2>4. DOMAIN CallsOf(i) = 1..Len(CallsOf(i)) /\ Len(CallsOf(i)) \in Nat
    BY <2>3, LenProperties
  <2>5. DOMAIN CallsOf(i) = 1..c
    BY <2>2
  <2>6. Len(CallsOf(i)) = c
    BY <1>2, <2>4, <2>5, SameTop DEF c
  <2> QED
    BY <2>3, <2>6
<1>4. \A k \in 1..c : CallsOf(i)[k].inst = i /\ CallsOf(i)[k].call = k
  BY DEF CallsOf
<1> HIDE DEF n, c
<1>5. /\ DOMAIN callInfos' = 1..(n + c)
      /\ \A k \in 1..n : callInfos'[k] = callInfos[k]
      /\ \A k \in 1..(n + c) : k \notin 1..n =>
           k - n \in 1..c /\ callInfos'[k].inst = i /\ callInfos'[k].call = k - n
  <2>1. /\ callInfos' \in Seq(CallInfo) /\ Len(callInfos') = n + c
        /\ \A k \in 1..(n + c) :
             callInfos'[k] = IF k <= n THEN callInfos[k] ELSE CallsOf(i)[k - n]
    BY <1>1, <1>3, ConcatProperties DEF n
  <2>2. DOMAIN callInfos' = 1..(n + c)
    BY <2>1, LenProperties
  <2>3. \A k \in 1..(n + c) : k \notin 1..n => k - n \in 1..c /\ ~ (k <= n)
    BY <1>1, <1>2
  <2>4. \A k \in 1..n : k \in 1..(n + c) /\ k <= n
    BY <1>1, <1>2
  <2>5. \A k \in 1..n : callInfos'[k] = callInfos[k]
    BY <2>1, <2>4
  <2>6. ASSUME NEW k \in 1..(n + c), k \notin 1..n
        PROVE  k - n \in 1..c /\ callInfos'[k].inst = i /\ callInfos'[k].call = k - n
    <3>1. callInfos'[k] = CallsOf(i)[k - n] /\ k - n \in 1..c
      BY <2>1, <2>3, <2>6
    <3> QED
      BY <1>4, <3>1
  <2> QED
    BY <2>2, <2>5, <2>6
<1>6. \A k \in 1..n : callInfos[k].inst # i
  BY <1>1 DEF CallsInv
<1>7. ASSUME NEW k \in DOMAIN callInfos', NEW m \in DOMAIN callInfos',
             SameSite(callInfos'[k], callInfos'[m])
      PROVE  k = m
  <2>1. CASE k \in 1..n
    <3>1. m \in 1..n
      BY <1>5, <1>6, <1>7, <2>1 DEF SameSite
    <3> QED
      BY <1>1, <1>5, <1>7, <2>1, <3>1 DEF CallsInv
  <2>2. CASE k \notin 1..n
    <3>1. m \notin 1..n
      BY <1>5, <1>6, <1>7, <2>2 DEF SameSite
    <3>2. k - n = m - n
      BY <1>5, <1>7, <2>2, <3>1 DEF SameSite
    <3> QED
      BY <1>1, <1>2, <1>5, <3>2
  <2> QED
    BY <2>1, <2>2
<1>8. ASSUME NEW k \in DOMAIN callInfos'
      PROVE  callInfos'[k].inst \notin Waiting'
  BY <1>1, <1>5 DEF CallsInv
<1>9. ASSUME NEW h \in Listed' \ Waiting', NEW m \in DOMAIN Body(h).calls
      PROVE  \E k \in DOMAIN callInfos' : callInfos'[k].inst = h /\ callInfos'[k].call = m
  <2>1. CASE h = i
    <3> DEFINE k == n + m
    <3>1. m \in 1..c
      BY <1>2, <1>9, <2>1
    <3>2. k \in 1..(n + c) /\ k \notin 1..n /\ k - n = m
      BY <1>1, <1>2, <3>1
    <3> HIDE DEF k
    <3>3. k \in DOMAIN callInfos' /\ callInfos'[k].inst = i /\ callInfos'[k].call = m
      BY <1>5, <3>2
    <3> QED
      BY <2>1, <3>3
  <2>2. CASE h # i
    <3>1. h \in Listed \ Waiting
      BY <2>2 DEF Listed
    <3>2. PICK k \in 1..n : callInfos[k].inst = h /\ callInfos[k].call = m
      BY <1>1, <3>1 DEF CallsInv
    <3>3. k \in 1..(n + c)
      BY <1>1, <1>2
    <3> QED
      BY <1>5, <3>2, <3>3
  <2> QED
    BY <2>1, <2>2
<1>10. ASSUME NEW h \in Listed' \ Waiting'
       PROVE  Body(h)' = Body(h)
  BY DEF Body
<1> QED
  BY <1>7, <1>8, <1>9, <1>10 DEF CallsInv

LEMMA CollectCallsCollected ==
  ASSUME CollectedInv, CollectCalls
  PROVE  CallsInv'
<1>1. /\ ShapeInv /\ CallsInv /\ OneClonePerName /\ functions \in Seq(Instance)
      /\ DOMAIN functions = 1..Len(functions) /\ Len(functions) \in Nat /\ idx \in Nat \ {0}
  BY LenProperties DEF CollectedInv, ShapeInv, FunctionsInv
<1>2. /\ pc = "collect" /\ prog' = prog /\ functions' = functions /\ Listed' = Listed
  BY DEF CollectCalls, Listed
<1>3. CASE idx <= Len(functions)
  <2> DEFINE i == functions[idx]
  <2>1. idx' = idx + 1 /\ pc' = "collect" /\ callInfos' = callInfos \o CallsOf(i)
    BY <1>2, <1>3 DEF CollectCalls
  <2>2. i \in Waiting /\ i \in Listed
    BY <1>1, <1>2, <1>3 DEF Waiting, Listed
  <2>3. \A k \in idx..Len(functions) : k = idx \/ (k \in (idx + 1)..Len(functions) /\ functions[k] # i)
    BY <1>1, <1>3 DEF OneClonePerName
  <2>4. Waiting' = Waiting \ {i}
    <3>1. Waiting' = {functions[k] : k \in (idx + 1)..Len(functions)}
      BY <1>2, <2>1 DEF Waiting
    <3>2. Waiting = {functions[k] : k \in idx..Len(functions)}
      BY <1>2 DEF Waiting
    <3>3. \A k \in (idx + 1)..Len(functions) : k \in idx..Len(functions) /\ k # idx
      BY <1>1
    <3> QED
      BY <2>3, <3>1, <3>2, <3>3
  <2> QED
    BY <1>1, <1>2, <2>1, <2>2, <2>4, CollectOne
<1>4. CASE ~ (idx <= Len(functions))
  <2>1. callInfos' = callInfos /\ Waiting = {} /\ Waiting' = {}
    BY <1>1, <1>2, <1>4 DEF CollectCalls, Waiting
  <2> QED
    BY <1>1, <1>2, <2>1, SameCalls DEF SameSite
<1> QED
  BY <1>3, <1>4

LEMMA ScanCollected ==
  ASSUME CollectedInv, ScanFresh
  PROVE  CallsInv'
<1> DEFINE i == newFs[idx]
<1>1. /\ ShapeInv /\ CallsInv /\ NewFsDistinct /\ newFs \in Seq(Listed)
      /\ DOMAIN newFs = 1..Len(newFs) /\ Len(newFs) \in Nat /\ idx \in Nat \ {0}
  BY LenProperties DEF CollectedInv, ShapeInv
<1>2. /\ pc = "fresh" /\ pc' = "fresh" /\ prog' = prog /\ functions' = functions
      /\ newFs' = newFs /\ idx <= Len(newFs) /\ idx' = idx + 1
      /\ callInfos' = callInfos \o CallsOf(i)
  BY DEF ScanFresh
<1>3. i \in Waiting /\ i \in Listed
  BY <1>1, <1>2 DEF Waiting
<1>4. \A k \in idx..Len(newFs) : k = idx \/ (k \in (idx + 1)..Len(newFs) /\ newFs[k] # i)
  BY <1>1, <1>2 DEF NewFsDistinct
<1>5. Waiting' = Waiting \ {i}
  <2>1. Waiting' = {newFs[k] : k \in (idx + 1)..Len(newFs)}
    BY <1>2 DEF Waiting
  <2>2. Waiting = {newFs[k] : k \in idx..Len(newFs)}
    BY <1>2 DEF Waiting
  <2>3. \A k \in (idx + 1)..Len(newFs) : k \in idx..Len(newFs) /\ k # idx
    BY <1>1
  <2> QED
    BY <1>4, <2>1, <2>2, <2>3
<1> QED
  BY <1>1, <1>2, <1>3, <1>5, CollectOne

\* A clone is new: nothing is known of it, and it waits.
LEMMA MakeCollected ==
  ASSUME CollectedInv, MakeClone
  PROVE  OneClonePerName' /\ NewFsDistinct' /\ CallsInv'
<1> DEFINE i == CloneName(callInfos[idx])
<1>1. /\ ShapeInv /\ CallsInv /\ OneClonePerName /\ NewFsDistinct
      /\ functions \in Seq(Instance) /\ newFs \in Seq(Listed) /\ callInfos \in Seq(CallInfo)
      /\ \A k \in DOMAIN callInfos : InfoOK(callInfos[k])
  BY DEF CollectedInv, ShapeInv, FunctionsInv
<1>2. /\ pc = "calls" /\ pc' = "crossNew" /\ prog' = prog
      /\ functions' = Append(functions, i) /\ newFs' = Append(newFs, i)
      /\ AtCall /\ IsInternal(callInfos[idx]) /\ i \notin NewFunctions
      /\ Replace(i)
  BY DEF MakeClone, AtCall, MustReplace
<1>3. idx \in DOMAIN callInfos
  BY <1>1, <1>2, LenProperties DEF AtCall, ShapeInv
<1>4. i \in Instance /\ i \notin Listed
  BY <1>1, <1>2, <1>3, CloneNameType DEF NewFunctions
<1>5. /\ DOMAIN callInfos' = DOMAIN callInfos
      /\ \A k \in DOMAIN callInfos : SameSite(callInfos'[k], callInfos[k])
  BY <1>1, <1>2, <1>3, <1>4, UpdateInfo DEF Replace, SameSite
<1> HIDE DEF i
<1>6. /\ DOMAIN functions' = DOMAIN functions \cup {Len(functions) + 1}
      /\ \A k \in DOMAIN functions : functions'[k] = functions[k]
      /\ functions'[Len(functions) + 1] = i
  BY <1>1, <1>2, <1>4, AppendProperties, LenProperties
<1>7. Listed' = Listed \cup {i}
  BY <1>6 DEF Listed
<1>8. OneClonePerName'
  BY <1>1, <1>4, <1>6 DEF OneClonePerName, Listed
<1>9. /\ DOMAIN newFs' = DOMAIN newFs \cup {Len(newFs) + 1}
      /\ \A k \in DOMAIN newFs : newFs'[k] = newFs[k] /\ newFs[k] \in Listed
      /\ newFs'[Len(newFs) + 1] = i
  <2>1. newFs \in Seq(Listed \cup {i}) /\ i \in Listed \cup {i}
    BY <1>1, SeqMonotonic
  <2> QED
    BY <1>1, <1>2, <2>1, AppendProperties, LenProperties
<1>10. NewFsDistinct'
  BY <1>1, <1>4, <1>9 DEF NewFsDistinct
<1>11. Waiting' = Waiting \cup {i}
  BY <1>2, <1>9 DEF Waiting
<1>12. \A k \in DOMAIN callInfos : callInfos[k].inst \notin Waiting'
  BY <1>1, <1>4, <1>11 DEF CallsInv, InfoOK
<1>13. Listed' \ Waiting' = Listed \ Waiting
  BY <1>4, <1>7, <1>11
<1> QED
  BY <1>1, <1>2, <1>5, <1>8, <1>10, <1>12, <1>13, SameCalls

LEMMA NextCollected == CollectedInv /\ [Next]_vars => CollectedInv'
<1> SUFFICES ASSUME CollectedInv, [Next]_vars PROVE CollectedInv'
  OBVIOUS
<1>1. ShapeInv' /\ ShapeInv /\ CallsInv /\ OneClonePerName /\ NewFsDistinct
  BY NextShape DEF CollectedInv
<1>2. CASE CollectCalls
  BY <1>1, <1>2, CollectCallsCollected
  DEF CollectedInv, CollectCalls, OneClonePerName, NewFsDistinct
<1>3. CASE ScanFresh
  BY <1>1, <1>3, ScanCollected DEF CollectedInv, ScanFresh, OneClonePerName, NewFsDistinct
<1>4. CASE MakeClone
  BY <1>1, <1>4, MakeCollected DEF CollectedInv
<1>5. CASE ReuseClone
  <2>1. /\ prog' = prog /\ functions' = functions /\ newFs' = newFs /\ pc = "calls"
        /\ pc' = "crossOld" /\ AtCall /\ MustReplace(callInfos[idx])
        /\ Replace(CloneName(callInfos[idx]))
    BY <1>5 DEF ReuseClone, AtCall
  <2>2. idx \in DOMAIN callInfos /\ CloneName(callInfos[idx]) \in Instance
    BY <1>1, <2>1, CloneNameType, LenProperties DEF AtCall, ShapeInv, MustReplace
  <2>3. /\ DOMAIN callInfos' = DOMAIN callInfos
        /\ \A k \in DOMAIN callInfos : SameSite(callInfos'[k], callInfos[k])
    BY <1>1, <2>1, <2>2, UpdateInfo DEF Replace, SameSite
  <2>4. Waiting' = Waiting /\ Listed' = Listed
    BY <2>1 DEF Waiting, Listed
  <2>5. CallsInv'
    BY <1>1, <2>1, <2>3, <2>4, SameCalls DEF CallsInv
  <2> QED
    BY <1>1, <2>1, <2>5 DEF CollectedInv, OneClonePerName, NewFsDistinct
<1>6. CASE PropagateInstruction \/ CrossArg \/ QuietStep
  <2>1. prog' = prog /\ functions' = functions /\ callInfos' = callInfos
    BY <1>6, Zenon DEF PropagateInstruction, CrossArg, QuietStep, FunctionClosed, StartRound, SkipCall,
                CrossDone, CallsDone, EndRound, Redirect, RedirectDone, vars
  <2>2. newFs' = newFs \/ newFs' = <<>>
    BY <1>6 DEF PropagateInstruction, CrossArg, QuietStep, FunctionClosed, StartRound, SkipCall,
                CrossDone, CallsDone, EndRound, Redirect, RedirectDone, vars
  <2>3. Waiting' = Waiting
    <3>1. CASE newFs' = newFs /\ pc' = pc /\ idx' = idx
      BY <2>1, <3>1 DEF Waiting
    <3>2. CASE SkipCall \/ CrossDone \/ CrossArg
      BY <3>2 DEF SkipCall, AtCall, CrossDone, CrossArg, Waiting
    <3>3. CASE StartRound
      BY <3>3 DEF StartRound, Waiting
    <3>4. CASE CallsDone
      <4>1. DOMAIN newFs = 1..Len(newFs)
        BY <1>1, LenProperties DEF ShapeInv
      <4> QED
        BY <3>4, <4>1 DEF CallsDone, Waiting
    <3>5. CASE EndRound
      <4>1. idx \in Nat /\ Len(newFs) \in Nat
        BY <1>1, LenProperties DEF ShapeInv
      <4> QED
        BY <3>5, <4>1 DEF EndRound, Waiting
    <3>6. CASE Redirect \/ RedirectDone
      BY <3>6 DEF Redirect, RedirectDone, Waiting
    <3> QED
      BY <1>6, <3>1, <3>2, <3>3, <3>4, <3>5, <3>6
      DEF PropagateInstruction, QuietStep, FunctionClosed, vars
  <2>4. Listed' = Listed
    BY <2>1 DEF Listed
  <2>5. CallsInv'
    BY <1>1, <2>1, <2>3, <2>4, SameCalls DEF CallsInv, SameSite
  <2> QED
    BY <1>1, <2>1, <2>2, <2>5 DEF CollectedInv, OneClonePerName, NewFsDistinct
<1> QED
  BY <1>2, <1>3, <1>4, <1>5, <1>6 DEF Next, QuietStep, Finished

LEMMA CollectedInvariance == Spec => []CollectedInv
BY InitCollected, NextCollected, PTL DEF Spec

\* No name gets two clones: the search by name finds those made from annotations,
\* in earlier rounds, and in this one.
THEOREM NoCloneTwice == Spec => []OneClonePerName
<1>1. CollectedInv => OneClonePerName
  BY DEF CollectedInv
<1> QED
  BY <1>1, CollectedInvariance, PTL

\* When the rounds have ended, every call of every function, of clones made in
\* the last of the rounds included, has one entry in the list that is redirected.
THEOREM NoCallMissed == Spec => []EveryCallCollected
<1>1. CollectedInv => EveryCallCollected
  <2> SUFFICES ASSUME CollectedInv, Analysed, NEW k \in DOMAIN functions,
                      NEW n \in DOMAIN Body(functions[k]).calls
               PROVE  Cardinality({m \in DOMAIN callInfos :
                        callInfos[m].inst = functions[k] /\ callInfos[m].call = n}) = 1
    BY DEF EveryCallCollected
  <2>1. functions[k] \in Listed \ Waiting
    BY DEF Analysed, Waiting, Listed
  <2>2. PICK m \in DOMAIN callInfos : callInfos[m].inst = functions[k] /\ callInfos[m].call = n
    BY <2>1 DEF CollectedInv, CallsInv
  <2>3. {j \in DOMAIN callInfos : callInfos[j].inst = functions[k] /\ callInfos[j].call = n} = {m}
    BY <2>2 DEF CollectedInv, CallsInv, SameSite
  <2> QED
    BY <2>3, FS_Singleton
<1> QED
  BY <1>1, CollectedInvariance, PTL
==========================================================================
