----------------------- MODULE SensitivityAnalysis -----------------------
(***************************************************************************)
(* The interprocedural sensitivity analysis of the DataShield pass: class  *)
(* SensitivityAnalysis, with CallInfo and ValueSet, of DataShield.cpp, and  *)
(* the loop of runOnModule that redirects the calls afterwards.            *)
(*                                                                         *)
(* The analysis splits the values of a module into sensitive and other     *)
(* values.  Inside a function, an instruction makes its result and its     *)
(* operands sensitive together.  Across a call, the callee is cloned, one  *)
(* clone per signature (which of the return value and the arguments are    *)
(* sensitive), and sensitivity crosses into the clone.  Rounds are         *)
(* repeated until one leaves the set of sensitive values as it was.        *)
(*                                                                         *)
(* A program is data: for every function its parameters, the operand sets  *)
(* of its instructions, its calls in order, and what it returns.  The      *)
(* order of the instructions inside one function is left open: the code    *)
(* visits them in order, again and again until nothing changes.            *)
(***************************************************************************)
EXTENDS Integers, Sequences, FiniteSets

CONSTANTS
  Fn,                 \* functions with a body
  Local,              \* names of parameters and of instruction results
  Global,             \* global variables, declared functions as values, and literals
                      \* of a sensitive type (in typedGlobals)
  Programs,           \* the modules to analyse
  UseSeparationMode,  \* the option of that name
  Unit,               \* scope of the values that belong to no function
  Itself,             \* the value a function is
  Const,              \* an operand that is any other literal constant
  External, Indirect, \* callees the pass cannot clone
  None                \* no replacement

Operand == Local \cup Global \cup Fn \cup {Const}

\* "main" and "rest" are operand sets, the result included.  Only the calls of
\* memcpy and strchr have a "rest": their operands that are not tied together.
Instr == [arith : BOOLEAN, main : SUBSET Operand, rest : SUBSET Operand]

Site == [callee : Fn \cup {External, Indirect}, args : Seq(Operand), res : Local]

FnBody == [params : Seq(Local), instrs : SUBSET Instr, calls : Seq(Site),
           rets : SUBSET Operand, typed : SUBSET Local, retTyped : BOOLEAN]

\* The name of a function after cloning: the original name and the signature,
\* the set of the sensitive positions (0 is the return value).
\* A function as written has no signature in its name.
Original  == {-1}
Signature == {Original} \cup SUBSET Nat
Instance  == Fn \X Signature

Program == [fns : [Fn -> FnBody], originals : Seq(Fn \X {Original}),
            typedGlobals : SUBSET Global, firstArg : SUBSET Fn,
            annotated : Seq(Fn \X SUBSET Nat)]

\* What the verifier of LLVM accepts: every function is listed, no two functions
\* have one name, and a call agrees with its callee on the number and on the
\* types of the arguments.  The list of clones made from annotations, which is
\* in the pass itself, names each function once.
TypedOperand(p, f, x) == x \in p.fns[f].typed \cup p.typedGlobals

WellFormed(p) ==
  /\ \A f \in Fn : \E k \in DOMAIN p.originals : p.originals[k][1] = f
  /\ \A k, m \in DOMAIN p.originals : p.originals[k] = p.originals[m] => k = m
  /\ \A k, m \in DOMAIN p.annotated : p.annotated[k] = p.annotated[m] => k = m
  /\ \A f \in Fn : \A n \in DOMAIN p.fns[f].calls :
       LET s == p.fns[f].calls[n] IN
       s.callee \in Fn =>
         /\ Len(s.args) = Len(p.fns[s.callee].params)
         /\ (s.res \in p.fns[f].typed) <=> p.fns[s.callee].retTyped
         /\ \A j \in DOMAIN s.args : s.args[j] # Const =>
              (TypedOperand(p, f, s.args[j])
                 <=> TypedOperand(p, s.callee, p.fns[s.callee].params[j]))
  /\ \A f \in Fn : \A x \in p.fns[f].rets \ {Const} :
       TypedOperand(p, f, x) <=> p.fns[f].retTyped

ASSUME ProgramsAssumption ==
  /\ Programs \subseteq Program
  /\ \A p \in Programs : WellFormed(p)

ASSUME OptionAssumption == UseSeparationMode \in BOOLEAN

ASSUME DistinctAssumption ==
  /\ {External, Indirect} \cap Fn = {}
  /\ None \notin Instance
  /\ Unit \notin Instance
  /\ Itself \notin Local
  /\ Const \notin Local \cup Global \cup Fn
  /\ Local \cap (Global \cup Fn) = {}
  /\ Global \cap Fn = {}

VARIABLES
  prog,          \* the module being compiled
  functions,     \* M's function list: the originals, then every clone
  sens,          \* sensitiveSet.vals
  isChanged,     \* sensitiveSet.isChanged
  callInfos,     \* callInfos.data
  newFs,         \* newFsThisLoop
  todo,          \* functions a call of propagateSensitivity has yet to close
  pc,            \* the loop of analyzeModule or runOnModule being run
  idx,           \* its position
  arg,           \* position in the argument loop of propagateAcrossCallBoundary
  redirected     \* the calls that call their replacement

vars == <<prog, functions, sens, isChanged, callInfos, newFs, todo, pc, idx,
          arg, redirected>>

Phases == {"collect", "round", "calls", "crossNew", "crossOld", "fresh",
           "redirect", "done", "unreachable"}

Value    == (Instance \X (Local \cup {Itself})) \cup ({Unit} \X Global)
CallInfo == [inst : Instance, call : Nat \ {0}, repl : {None} \cup Instance]

----------------------------------------------------------------------------
(* Values *)

Body(i) == prog.fns[i[1]]

\* The value an operand denotes in function i.  A clone has locals of its own;
\* globals and function addresses are shared with the original.
Val(i, x) == IF x \in Local THEN <<i, x>>
             ELSE IF x \in Fn THEN <<<<x, Original>>, Itself>>
             ELSE <<Unit, x>>

\* ValueSet.insert ignores literal constants, and count never finds them.  Those of
\* a sensitive type are the exception: findSensitiveTypedValues does not use insert.
\* A literal is one value in the whole module, so they are like the globals it finds.
Vals(i, X) == {Val(i, x) : x \in X \ {Const}}

Param(i, j) == <<i, Body(i).params[j]>>

Returns(i) == Vals(i, Body(i).rets)

\* ValueSet.findSensitiveTypedValues(F): operands of a sensitive type.
Typed(i) ==
  {<<i, x>> : x \in {y \in Body(i).typed :
     \/ \E ins \in Body(i).instrs : y \in ins.main \cup ins.rest
     \/ \E n \in DOMAIN Body(i).calls :
          \E j \in DOMAIN Body(i).calls[n].args : y = Body(i).calls[n].args[j]
     \/ y \in Body(i).rets}}

Listed == {functions[k] : k \in DOMAIN functions}

\* Wrong: cloneFunctionWithSensitivity does not insert into newFunctions.
NewFunctions_WithoutAnnotated ==
  {i \in Listed : i[2] # Original /\ \A k \in DOMAIN prog.annotated : prog.annotated[k] # i}

NewFunctions == {i \in Listed : i[2] # Original}

----------------------------------------------------------------------------
(* CallInfo: what a call site says of its own sensitivity *)

SiteOf(ci) == Body(ci.inst).calls[ci.call]

isDirectCall(ci) == SiteOf(ci).callee # Indirect

isCallToExternalFunction(ci) == SiteOf(ci).callee = External

IsInternal(ci) == SiteOf(ci).callee \in Fn

getCallee(ci) == <<SiteOf(ci).callee, Original>>

ArgValues(ci, j) == Vals(ci.inst, {SiteOf(ci).args[j]})

isReturnValSensitive(ci) == <<ci.inst, SiteOf(ci).res>> \in sens

isReturnTypeSensitive(ci) == IsInternal(ci) /\ Body(getCallee(ci)).retTyped

isArgSensitive(ci, j) == ArgValues(ci, j) \cap sens # {}

isParamTypeSensitive(ci, j) ==
  IsInternal(ci) /\ Body(getCallee(ci)).params[j] \in Body(getCallee(ci)).typed

\* Wrong: it looks at the callee only, never at the replacement.
isArgSensitiveAtCallee_CalleeOnly(ci, j) ==
  /\ IsInternal(ci)
  /\ \E n \in DOMAIN Body(getCallee(ci)).params : Param(getCallee(ci), n) \in sens

isArgSensitiveAtCallee(ci, j) ==
  /\ IsInternal(ci)
  /\ \/ \E n \in DOMAIN Body(getCallee(ci)).params : Param(getCallee(ci), n) \in sens
     \/ ci.repl # None /\ Param(ci.repl, j) \in sens

ReturnBit(ci) == isReturnValSensitive(ci) \/ isReturnTypeSensitive(ci)

ArgBit(ci, j) ==
  isArgSensitive(ci, j) \/ isParamTypeSensitive(ci, j) \/ isArgSensitiveAtCallee(ci, j)

needsNewFunction(ci) ==
  ReturnBit(ci) \/ \E j \in DOMAIN SiteOf(ci).args : ArgBit(ci, j)

\* getSignatureString, with the callee's name in front of it.
CloneName(ci) ==
  <<SiteOf(ci).callee,
    {m \in {0} : ReturnBit(ci)}
      \cup {j \in DOMAIN SiteOf(ci).args : ArgBit(ci, j)}>>

MustReplace(ci) == IsInternal(ci) /\ needsNewFunction(ci)

\* Wrong: one call too many.
CallsOf_OffByOne(i) ==
  [n \in 1..(Len(Body(i).calls) + 1) |-> [inst |-> i, call |-> n, repl |-> None]]

CallsOf(i) ==
  [n \in 1..Len(Body(i).calls) |-> [inst |-> i, call |-> n, repl |-> None]]

----------------------------------------------------------------------------
(* propagateSensitivity(F), one instruction at a time *)

Propagating(i) ==
  {ins \in Body(i).instrs : ~(UseSeparationMode /\ ins.arith)}

\* What the visit of one instruction inserts.  A call of memcpy or strchr with
\* no tied operand sensitive falls through to the general rule.
Gain(i, ins) ==
  LET tied  == Vals(i, ins.main)
      other == Vals(i, ins.rest)
  IN IF tied \cap sens # {} THEN tied
     ELSE IF other \cap sens # {} THEN tied \cup other
     ELSE {}

Closed(i) == \A ins \in Propagating(i) : Gain(i, ins) \subseteq sens

PropagateInstruction ==
  /\ todo # <<>>
  /\ \E ins \in Propagating(Head(todo)) :
       /\ ~ (Gain(Head(todo), ins) \subseteq sens)
       /\ sens' = sens \cup Gain(Head(todo), ins)
  /\ isChanged' = TRUE
  /\ UNCHANGED <<prog, functions, callInfos, newFs, todo, pc, idx, arg, redirected>>

\* Wrong: "changed" is overwritten, so one visit may be the last.
FunctionClosed_OneVisit ==
  /\ todo # <<>>
  /\ todo' = Tail(todo)
  /\ UNCHANGED <<prog, functions, sens, isChanged, callInfos, newFs, pc, idx, arg,
                 redirected>>

\* "while (changed)" ends: a whole visit of the function inserted nothing.
FunctionClosed ==
  /\ todo # <<>>
  /\ Closed(Head(todo))
  /\ todo' = Tail(todo)
  /\ UNCHANGED <<prog, functions, sens, isChanged, callInfos, newFs, pc, idx, arg,
                 redirected>>

----------------------------------------------------------------------------
(* analyzeModule *)

\* ValueSet.findSensitiveTypedValues(M) also visits the parameters.
SensitiveParams(i) ==
  {Param(i, j) : j \in {m \in DOMAIN Body(i).params :
                          Body(i).params[m] \in Body(i).typed}}

\* makeFirstArgSensitive, and cloneFunctionWithSensitivity: the latter makes
\* every parameter of the clone sensitive, whatever the signature says.
Annotated(i) ==
  IF i[2] = Original
  THEN {Param(i, j) : j \in {m \in DOMAIN Body(i).params :
                                m = 1 /\ i[1] \in prog.firstArg}}
  ELSE {Param(i, j) : j \in DOMAIN Body(i).params}
         \cup (IF 0 \in i[2] THEN Returns(i) ELSE {})

Init ==
  /\ prog \in Programs
  /\ functions = prog.originals \o prog.annotated
  /\ sens = {<<Unit, g>> : g \in prog.typedGlobals}
            \cup UNION {Typed(i) \cup SensitiveParams(i) \cup Annotated(i) : i \in Listed}
  /\ isChanged = (prog.annotated # <<>> \/ prog.firstArg # {})
  /\ callInfos = <<>>
  /\ newFs = <<>>
  /\ todo = functions
  /\ pc = "collect"
  /\ idx = 1
  /\ arg = 1
  /\ redirected = {}

\* callInfos.makeCallInfoForEachCallInst(M), one function at a time.
CollectCalls ==
  /\ pc = "collect"
  /\ todo = <<>>
  /\ IF idx <= Len(functions)
     THEN /\ callInfos' = callInfos \o CallsOf(functions[idx])
          /\ idx' = idx + 1
          /\ pc' = pc
     ELSE /\ pc' = "round"
          /\ UNCHANGED <<callInfos, idx>>
  /\ UNCHANGED <<prog, functions, sens, isChanged, newFs, todo, arg, redirected>>

\* Wrong: isChanged is not reset.
StartRound_KeepsChanged ==
  /\ pc = "round"
  /\ newFs' = <<>>
  /\ todo' = functions
  /\ pc' = "calls"
  /\ idx' = 1
  /\ UNCHANGED <<prog, functions, sens, isChanged, callInfos, arg, redirected>>

StartRound ==
  /\ pc = "round"
  /\ isChanged' = FALSE
  /\ newFs' = <<>>
  /\ todo' = functions
  /\ pc' = "calls"
  /\ idx' = 1
  /\ UNCHANGED <<prog, functions, sens, callInfos, arg, redirected>>

AtCall == pc = "calls" /\ todo = <<>> /\ idx <= Len(callInfos)

SkipCall ==
  /\ AtCall
  /\ ~ MustReplace(callInfos[idx])
  /\ idx' = idx + 1
  /\ UNCHANGED <<prog, functions, sens, isChanged, callInfos, newFs, todo, pc, arg,
                 redirected>>

\* Wrong: the function becomes sensitive, what it returns does not.
ReturnGain_FunctionOnly(ci, i) ==
  IF ReturnBit(ci) THEN {<<i, Itself>>, <<getCallee(ci), Itself>>} ELSE {}

\* propagateAcrossCallBoundary, the part about the return value.
ReturnGain(ci, i) ==
  IF ReturnBit(ci)
  THEN Returns(i) \cup {<<i, Itself>>, <<getCallee(ci), Itself>>}
  ELSE {}

\* acall.replacement = i, and the call of propagateAcrossCallBoundary begins.
Replace(i) ==
  LET ci == callInfos[idx] IN
  /\ callInfos' = [callInfos EXCEPT ![idx].repl = i]
  /\ sens' = sens \cup ReturnGain(ci, i)
  /\ isChanged' = (isChanged \/ ~ (ReturnGain(ci, i) \subseteq sens))
  /\ arg' = 1

\* A clone of that name exists: the call shares it.
ReuseClone ==
  /\ AtCall
  /\ MustReplace(callInfos[idx])
  /\ CloneName(callInfos[idx]) \in NewFunctions
  /\ Replace(CloneName(callInfos[idx]))
  /\ pc' = "crossOld"
  /\ UNCHANGED <<prog, functions, newFs, todo, idx, redirected>>

\* Wrong: clones are looked for among those of this round only.
MakeClone_SearchesThisRound ==
  /\ AtCall
  /\ MustReplace(callInfos[idx])
  /\ \A k \in DOMAIN newFs : newFs[k] # CloneName(callInfos[idx])
  /\ Replace(CloneName(callInfos[idx]))
  /\ functions' = Append(functions, CloneName(callInfos[idx]))
  /\ newFs' = Append(newFs, CloneName(callInfos[idx]))
  /\ pc' = "crossNew"
  /\ UNCHANGED <<prog, todo, idx, redirected>>

\* duplicateFunction, and the pushes onto newFsThisLoop and newFunctions.
MakeClone ==
  /\ AtCall
  /\ MustReplace(callInfos[idx])
  /\ CloneName(callInfos[idx]) \notin NewFunctions
  /\ Replace(CloneName(callInfos[idx]))
  /\ functions' = Append(functions, CloneName(callInfos[idx]))
  /\ newFs' = Append(newFs, CloneName(callInfos[idx]))
  /\ pc' = "crossNew"
  /\ UNCHANGED <<prog, todo, idx, redirected>>

\* Wrong: sensitivity crosses into the callee only.
ArgGain_OneWay(ci, j) == IF ArgBit(ci, j) THEN {Param(ci.repl, j)} ELSE {}

\* One turn of the argument loop of propagateAcrossCallBoundary.
ArgGain(ci, j) ==
  IF ArgBit(ci, j)
  THEN {Param(ci.repl, j)} \cup ArgValues(ci, j)
  ELSE {}

\* Wrong: what crosses is not reported as a change.
CrossArg_Silent ==
  LET ci == callInfos[idx] IN
  /\ pc \in {"crossNew", "crossOld"}
  /\ arg <= Len(SiteOf(ci).args)
  /\ sens' = sens \cup ArgGain(ci, arg)
  /\ arg' = arg + 1
  /\ UNCHANGED <<prog, functions, isChanged, callInfos, newFs, todo, pc, idx, redirected>>

CrossArg ==
  LET ci == callInfos[idx] IN
  /\ pc \in {"crossNew", "crossOld"}
  /\ arg <= Len(SiteOf(ci).args)
  /\ sens' = sens \cup ArgGain(ci, arg)
  /\ isChanged' = (isChanged \/ ~ (ArgGain(ci, arg) \subseteq sens))
  /\ arg' = arg + 1
  /\ UNCHANGED <<prog, functions, callInfos, newFs, todo, pc, idx, redirected>>

\* The boundary is crossed: propagate in a new clone, then in the caller.
CrossDone ==
  LET ci == callInfos[idx] IN
  /\ pc \in {"crossNew", "crossOld"}
  /\ arg > Len(SiteOf(ci).args)
  /\ todo' = IF pc = "crossNew" THEN <<ci.repl, ci.inst>> ELSE <<ci.inst>>
  /\ pc' = "calls"
  /\ idx' = idx + 1
  /\ UNCHANGED <<prog, functions, sens, isChanged, callInfos, newFs, arg, redirected>>

CallsDone ==
  /\ pc = "calls"
  /\ todo = <<>>
  /\ idx > Len(callInfos)
  /\ pc' = "fresh"
  /\ idx' = 1
  /\ UNCHANGED <<prog, functions, sens, isChanged, callInfos, newFs, todo, arg,
                 redirected>>

\* Wrong: the calls of a new clone are not collected.
ScanFresh_WithoutCalls ==
  /\ pc = "fresh"
  /\ todo = <<>>
  /\ idx <= Len(newFs)
  /\ sens' = sens \cup Typed(newFs[idx])
  /\ todo' = <<newFs[idx]>>
  /\ idx' = idx + 1
  /\ UNCHANGED <<prog, functions, isChanged, callInfos, newFs, pc, arg, redirected>>

\* One turn of the loop over newFsThisLoop.  findSensitiveTypedValues inserts
\* into vals directly: it leaves isChanged alone.
ScanFresh ==
  /\ pc = "fresh"
  /\ todo = <<>>
  /\ idx <= Len(newFs)
  /\ sens' = sens \cup Typed(newFs[idx])
  /\ todo' = <<newFs[idx]>>
  /\ callInfos' = callInfos \o CallsOf(newFs[idx])
  /\ idx' = idx + 1
  /\ UNCHANGED <<prog, functions, isChanged, newFs, pc, arg, redirected>>

\* Wrong: one round only.
EndRound_Once ==
  /\ pc = "fresh"
  /\ todo = <<>>
  /\ idx > Len(newFs)
  /\ pc' = "redirect"
  /\ idx' = 1
  /\ UNCHANGED <<prog, functions, sens, isChanged, callInfos, newFs, todo, arg,
                 redirected>>

\* while (sensitiveSet.isChanged)
EndRound ==
  /\ pc = "fresh"
  /\ todo = <<>>
  /\ idx > Len(newFs)
  /\ pc' = IF isChanged THEN "round" ELSE "redirect"
  /\ idx' = 1
  /\ UNCHANGED <<prog, functions, sens, isChanged, callInfos, newFs, todo, arg,
                 redirected>>

----------------------------------------------------------------------------
(* runOnModule: redirect the calls to the clones *)

Redirect ==
  /\ pc = "redirect"
  /\ idx <= Len(callInfos)
  /\ LET ci == callInfos[idx]
         redirects == isDirectCall(ci) /\ needsNewFunction(ci)
     IN /\ pc' = IF redirects /\ ci.repl = None /\ ~ isCallToExternalFunction(ci)
                 THEN "unreachable" ELSE pc
        /\ redirected' = IF redirects /\ ci.repl # None
                         THEN redirected \cup {idx} ELSE redirected
  /\ idx' = idx + 1
  /\ UNCHANGED <<prog, functions, sens, isChanged, callInfos, newFs, todo, arg>>

RedirectDone ==
  /\ pc = "redirect"
  /\ idx > Len(callInfos)
  /\ pc' = "done"
  /\ UNCHANGED <<prog, functions, sens, isChanged, callInfos, newFs, todo, idx, arg,
                 redirected>>

\* The pass has returned.
Finished == pc = "done" /\ UNCHANGED vars

Next ==
  \/ PropagateInstruction
  \/ FunctionClosed
  \/ CollectCalls
  \/ StartRound
  \/ SkipCall
  \/ ReuseClone
  \/ MakeClone
  \/ CrossArg
  \/ CrossDone
  \/ CallsDone
  \/ ScanFresh
  \/ EndRound
  \/ Redirect
  \/ RedirectDone
  \/ Finished

Spec == Init /\ [][Next]_vars

\* The pass is one thread of the compiler: a step it can take is taken.
FairSpec == Spec /\ WF_vars(Next)

----------------------------------------------------------------------------
(* Properties *)

\* Type correctness of the analysis state.
TypeOK ==
  /\ prog \in Program
  /\ functions \in Seq(Instance)
  /\ sens \in SUBSET Value
  /\ isChanged \in BOOLEAN
  /\ callInfos \in Seq(CallInfo)
  /\ \A k \in DOMAIN callInfos :
       callInfos[k].call \in DOMAIN Body(callInfos[k].inst).calls
  /\ newFs \in Seq(Instance)
  /\ todo \in Seq(Instance)
  /\ pc \in Phases
  /\ idx \in Nat \ {0}
  /\ arg \in Nat \ {0}
  /\ redirected \in SUBSET (Nat \ {0})

\* The llvm_unreachable of runOnModule is not reached: when the rounds end,
\* every call of a function with a body that needs a clone has one.
EveryNeededCloneExists == pc # "unreachable"

\* Sensitivity agrees across the boundary of a call that needs a clone.
Settled(ci) ==
  MustReplace(ci) =>
    /\ ci.repl # None
    /\ ReturnBit(ci) => Returns(ci.repl) \subseteq sens
    /\ \A j \in DOMAIN SiteOf(ci).args :
         ArgBit(ci, j) => {Param(ci.repl, j)} \cup ArgValues(ci, j) \subseteq sens

\* While a round has changed nothing, the calls it has examined are settled,
\* whatever happened to other calls and functions since; and a round that made
\* a clone does not end as one that changed nothing.  This is what makes
\* isChanged a sound reason to stop.
UnchangedRoundIsSettled ==
  /\ pc = "calls" /\ ~isChanged => \A k \in 1..(idx - 1) : Settled(callInfos[k])
  /\ pc = "fresh" /\ ~isChanged =>
       newFs = <<>> /\ \A k \in DOMAIN callInfos : Settled(callInfos[k])

Analysed == pc \in {"redirect", "done"}

\* The rounds end only when no instruction of any function, clones included,
\* would insert another value: isChanged has missed nothing.
FixpointIsClosed == Analysed => \A k \in DOMAIN functions : Closed(functions[k])

\* The function a call calls once runOnModule has redirected it.
TargetOf(k) ==
  IF k \in redirected THEN callInfos[k].repl ELSE getCallee(callInfos[k])

\* After the redirection, a call and the function it now calls agree on every
\* argument, and a caller that takes the result for sensitive is given one
\* (literal constants are neither).
CallBoundaryAgrees ==
  pc = "done" =>
    \A k \in DOMAIN callInfos : IsInternal(callInfos[k]) =>
      LET ci == callInfos[k] IN
      /\ \A j \in DOMAIN SiteOf(ci).args : SiteOf(ci).args[j] # Const =>
           (isArgSensitive(ci, j) <=> Param(TargetOf(k), j) \in sens)
      /\ isReturnValSensitive(ci) => Returns(TargetOf(k)) \subseteq sens

\* Every call instruction of every function, clones included, has exactly one
\* CallInfo when the rounds end: none is left calling an unexamined callee.
EveryCallCollected ==
  Analysed =>
    \A k \in DOMAIN functions : \A n \in DOMAIN Body(functions[k]).calls :
      Cardinality({m \in DOMAIN callInfos :
        callInfos[m].inst = functions[k] /\ callInfos[m].call = n}) = 1

\* findFunctionWithSameName finds every clone: no function is made twice.
OneClonePerName ==
  \A k, m \in DOMAIN functions : functions[k] = functions[m] => k = m

\* The rounds end and the pass returns, on recursive programs too.
Termination == <>(pc = "done")

\* What the comment in propagateAcrossCallBoundary says ("in both
\* directions"), for the return value: when the function a call was redirected
\* to returns a sensitive value, the caller's result is sensitive as well.
ReturnCrossesBackToCaller ==
  pc = "done" =>
    \A k \in redirected :
      Returns(TargetOf(k)) \cap sens # {} => isReturnValSensitive(callInfos[k])
==========================================================================
