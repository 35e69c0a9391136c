-------------------- MODULE SensitivityRounds_proofs ---------------------
(***************************************************************************)
(* Why a round that leaves the set of sensitive values as it was is the    *)
(* last one needed: proofs of the properties of the sensitivity analysis   *)
(* that rest on isChanged, for every set of programs.                      *)
(***************************************************************************)
EXTENDS SensitivityAnalysis_proofs, CompiledCalls

----------------------------------------------------------------------------
(* A round that changes nothing *)

\* A position of a call that is sensitive whatever the call's replacement is.
BaseBit(ci, j) ==
  \/ isArgSensitive(ci, j)
  \/ isParamTypeSensitive(ci, j)
  \/ \E n \in DOMAIN Body(getCallee(ci)).params : Param(getCallee(ci), n) \in sens

Grounded(ci) == ReturnBit(ci) \/ \E j \in DOMAIN SiteOf(ci).args : BaseBit(ci, j)

\* Sensitivity agrees on the return value, and on the arguments before m.
SettledTo(ci, m) ==
  /\ ReturnBit(ci) => Returns(ci.repl) \subseteq sens
  /\ \A j \in DOMAIN SiteOf(ci).args :
       j < m /\ ArgBit(ci, j) => {Param(ci.repl, j)} \cup ArgValues(ci, j) \subseteq sens

\* Crossing into the new clone will still change something.
WillChange(ci) ==
  \E j \in DOMAIN SiteOf(ci).args :
    j >= arg /\ ArgBit(ci, j) /\ Param(ci.repl, j) \notin sens

AllSettled == \A k \in DOMAIN callInfos : Settled(callInfos[k])

Redirected(k) ==
  isDirectCall(callInfos[k]) /\ needsNewFunction(callInfos[k]) /\ callInfos[k].repl # None

\* A call that has a replacement needs one, whatever becomes of the replacement.
GroundedInv == \A k \in DOMAIN callInfos : callInfos[k].repl # None => Grounded(callInfos[k])

RoundInv ==
  /\ ShapeInv
  /\ GroundedInv
  /\ (pc = "calls" \/ Crossing) /\ ~isChanged =>
       \A k \in 1..(idx - 1) : Settled(callInfos[k])
  /\ Crossing /\ ~isChanged => SettledTo(callInfos[idx], arg)
  /\ pc \in {"calls", "crossNew", "crossOld", "fresh"} =>
       newFs = <<>> \/ isChanged \/ (pc = "crossNew" /\ WillChange(callInfos[idx]))
  /\ pc = "fresh" /\ ~isChanged => AllSettled
  /\ Analysed => AllSettled
  /\ pc # "unreachable"
  /\ ~Analysed => redirected = {}
  /\ pc = "redirect" => redirected = {k \in DOMAIN callInfos : k < idx /\ Redirected(k)}
  /\ pc = "done" => redirected = {k \in DOMAIN callInfos : Redirected(k)}

\* What of a call does not depend on its replacement.
LEMMA SameCall ==
  ASSUME NEW ci, NEW d, d.inst = ci.inst, d.call = ci.call
  PROVE  /\ SiteOf(d) = SiteOf(ci)
         /\ IsInternal(d) = IsInternal(ci)
         /\ getCallee(d) = getCallee(ci)
         /\ ReturnBit(d) = ReturnBit(ci)
         /\ \A j : ArgValues(d, j) = ArgValues(ci, j)
         /\ \A j : BaseBit(d, j) = BaseBit(ci, j)
         /\ Grounded(d) = Grounded(ci)
<1>1. SiteOf(d) = SiteOf(ci)
  BY DEF SiteOf
<1>2. IsInternal(d) = IsInternal(ci) /\ getCallee(d) = getCallee(ci)
  BY <1>1 DEF IsInternal, getCallee
<1>3. ReturnBit(d) = ReturnBit(ci)
  BY <1>1, <1>2 DEF ReturnBit, isReturnValSensitive, isReturnTypeSensitive
<1>4. \A j : ArgValues(d, j) = ArgValues(ci, j)
  BY <1>1 DEF ArgValues
<1>5. \A j : BaseBit(d, j) = BaseBit(ci, j)
  BY <1>1, <1>2, <1>4 DEF BaseBit, isArgSensitive, isParamTypeSensitive
<1> QED
  BY <1>1, <1>2, <1>3, <1>4, <1>5 DEF Grounded

LEMMA ArgBitBase ==
  ASSUME NEW ci, NEW j, IsInternal(ci)
  PROVE  ArgBit(ci, j) <=> BaseBit(ci, j) \/ (ci.repl # None /\ Param(ci.repl, j) \in sens)
BY DEF ArgBit, BaseBit, isArgSensitiveAtCallee

\* A call that needs a clone needs it whatever replacement it has.
LEMMA NeededIsGrounded ==
  ASSUME NEW ci, MustReplace(ci), ci.repl # None => Grounded(ci)
  PROVE  Grounded(ci)
BY ArgBitBase DEF MustReplace, needsNewFunction, Grounded

LEMMA GroundedGrows ==
  ASSUME prog' = prog, sens \subseteq sens', NEW ci, Grounded(ci)
  PROVE  Grounded(ci)'
<1>1. Body(ci.inst)' = Body(ci.inst) /\ SiteOf(ci)' = SiteOf(ci)
  BY DEF Body, SiteOf
<1>2. IsInternal(ci)' = IsInternal(ci) /\ getCallee(ci)' = getCallee(ci)
  BY <1>1 DEF IsInternal, getCallee
<1>3. Body(getCallee(ci))' = Body(getCallee(ci))
  BY <1>2 DEF Body
<1>4. \A j : ArgValues(ci, j)' = ArgValues(ci, j)
  BY <1>1 DEF ArgValues, Vals, Val
<1>5. \A n : Param(getCallee(ci), n)' = Param(getCallee(ci), n)
  BY <1>2, <1>3 DEF Param
<1>6. ReturnBit(ci) => ReturnBit(ci)'
  BY <1>1, <1>2, <1>3 DEF ReturnBit, isReturnValSensitive, isReturnTypeSensitive
<1>7. \A j : BaseBit(ci, j) => BaseBit(ci, j)'
  BY <1>2, <1>3, <1>4, <1>5 DEF BaseBit, isArgSensitive, isParamTypeSensitive
<1> QED
  BY <1>1, <1>6, <1>7 DEF Grounded

\* While no value is inserted, what is said of a call stays true of it.
LEMMA SameSens ==
  ASSUME prog' = prog, sens' = sens, NEW ci
  PROVE  /\ Settled(ci)' = Settled(ci)
         /\ \A n : SettledTo(ci, n)' = SettledTo(ci, n)
         /\ needsNewFunction(ci)' = needsNewFunction(ci)
         /\ SiteOf(ci)' = SiteOf(ci)
         /\ \A j : ArgBit(ci, j)' = ArgBit(ci, j)
         /\ \A j : Param(ci.repl, j)' = Param(ci.repl, j)
<1>1. \A i : Body(i)' = Body(i)
  BY DEF Body
<1>2. SiteOf(ci)' = SiteOf(ci)
  BY <1>1 DEF SiteOf
<1>3. IsInternal(ci)' = IsInternal(ci) /\ getCallee(ci)' = getCallee(ci)
  BY <1>2 DEF IsInternal, getCallee
<1>4. \A i, j : Param(i, j)' = Param(i, j)
  BY <1>1 DEF Param
<1>5. \A j : ArgValues(ci, j)' = ArgValues(ci, j)
  BY <1>2 DEF ArgValues, Vals, Val
<1>6. \A i : Returns(i)' = Returns(i)
  BY <1>1 DEF Returns, Vals, Val
<1>7. ReturnBit(ci)' = ReturnBit(ci)
  BY <1>1, <1>2, <1>3 DEF ReturnBit, isReturnValSensitive, isReturnTypeSensitive
<1>8. \A j : ArgBit(ci, j)' = ArgBit(ci, j)
  BY <1>1, <1>3, <1>4, <1>5 DEF ArgBit, isArgSensitive, isParamTypeSensitive,
     isArgSensitiveAtCallee
<1>9. needsNewFunction(ci)' = needsNewFunction(ci)
  BY <1>2, <1>7, <1>8 DEF needsNewFunction
<1>10. Settled(ci)' = Settled(ci)
  BY <1>2, <1>3, <1>4, <1>5, <1>6, <1>7, <1>8, <1>9 DEF Settled, MustReplace
<1>11. \A n : SettledTo(ci, n)' = SettledTo(ci, n)
  BY <1>2, <1>4, <1>5, <1>6, <1>7, <1>8 DEF SettledTo
<1> QED
  BY <1>2, <1>4, <1>8, <1>9, <1>10, <1>11

----------------------------------------------------------------------------
(* The steps preserve the invariant *)

LEMMA InitRound == Init => RoundInv
<1> SUFFICES ASSUME Init PROVE RoundInv
  OBVIOUS
<1>1. DOMAIN callInfos = {}
  BY DEF Init
<1> QED
  BY <1>1, InitShape DEF Init, RoundInv, GroundedInv, Crossing, Analysed

LEMMA StepGrows ==
  ASSUME ShapeInv, Next
  PROVE  prog' = prog /\ sens \subseteq sens'
BY DEF Next, PropagateInstruction, FunctionClosed, CollectCalls, StartRound, SkipCall,
   ReuseClone, MakeClone, Replace, CrossArg, CrossDone, CallsDone, ScanFresh, EndRound,
   Redirect, RedirectDone, Finished, vars

\* A call given a replacement needs one.
LEMMA ReplaceGrounded ==
  ASSUME ShapeInv, GroundedInv, AtCall, MustReplace(callInfos[idx]),
         NEW i \in Instance, Replace(i), prog' = prog
  PROVE  GroundedInv'
<1>1. idx \in DOMAIN callInfos
  BY LenProperties DEF AtCall, ShapeInv
<1>2. /\ DOMAIN callInfos' = DOMAIN callInfos
      /\ \A m \in DOMAIN callInfos : m # idx => callInfos'[m] = callInfos[m]
      /\ callInfos'[idx].inst = callInfos[idx].inst
      /\ callInfos'[idx].call = callInfos[idx].call
  BY <1>1, UpdateInfo DEF Replace
<1>3. sens \subseteq sens'
  BY DEF Replace
<1>4. ASSUME NEW k \in DOMAIN callInfos, callInfos'[k].repl # None
      PROVE  Grounded(callInfos'[k])
  <2>1. CASE k = idx
    <3>1. Grounded(callInfos[idx])
      BY <1>1, NeededIsGrounded DEF GroundedInv
    <3> QED
      BY <1>2, <2>1, <3>1, SameCall
  <2>2. CASE k # idx
    BY <1>2, <1>4, <2>2 DEF GroundedInv
  <2> QED
    BY <2>1, <2>2
<1>5. ASSUME NEW d, Grounded(d)
      PROVE  Grounded(d)'
  BY <1>3, <1>5, GroundedGrows
<1>6. ASSUME NEW k \in DOMAIN callInfos, callInfos'[k].repl # None, NEW d, d = callInfos'[k]
      PROVE  Grounded(d)'
  BY <1>4, <1>5, <1>6
<1> QED
  BY <1>2, <1>6 DEF GroundedInv

LEMMA NextGrounded ==
  ASSUME ShapeInv, GroundedInv, Next
  PROVE  GroundedInv'
<1>1. prog' = prog /\ sens \subseteq sens'
  BY StepGrows
<1>2. ASSUME NEW d, Grounded(d)
      PROVE  Grounded(d)'
  BY <1>1, <1>2, GroundedGrows
<1>3. CASE callInfos' = callInfos
  <2>1. ASSUME NEW k \in DOMAIN callInfos, callInfos[k].repl # None, NEW d, d = callInfos[k]
        PROVE  Grounded(d)'
    BY <1>2, <2>1 DEF GroundedInv
  <2> QED
    BY <1>3, <2>1 DEF GroundedInv
<1>4. ASSUME NEW i \in Listed, callInfos' = callInfos \o CallsOf(i)
      PROVE  GroundedInv'
  <2>1. i \in Instance /\ Body(i) \in FnBody
    BY ListedType, BodyType DEF ShapeInv, FunctionsInv
  <2>2. /\ \A k \in DOMAIN CallsOf(i) : CallsOf(i)[k].repl = None
        /\ \A k \in DOMAIN callInfos' :
             \/ k \in DOMAIN callInfos /\ callInfos'[k] = callInfos[k]
             \/ k - Len(callInfos) \in DOMAIN CallsOf(i)
                  /\ callInfos'[k] = CallsOf(i)[k - Len(callInfos)]
    <3>1. \A k \in DOMAIN CallsOf(i) : CallsOf(i)[k].repl = None
      BY DEF CallsOf
    <3>2. callInfos \in Seq(CallInfo) /\ CallsOf(i) \in Seq(CallInfo)
      <4>1. Len(Body(i).calls) \in Nat /\ DOMAIN Body(i).calls = 1..Len(Body(i).calls)
        BY <2>1, LenProperties DEF FnBody
      <4>2. CallsOf(i) \in [1..Len(Body(i).calls) -> CallInfo]
        BY <2>1, <4>1 DEF CallsOf, CallInfo
      <4> QED
        BY <4>1, <4>2, SeqDef DEF ShapeInv
    <3> QED
      BY <1>4, <3>1, <3>2, ConcatExtends
  <2>3. ASSUME NEW k \in DOMAIN callInfos', callInfos'[k].repl # None, NEW d, d = callInfos'[k]
        PROVE  Grounded(d)'
    <3>1. k \in DOMAIN callInfos /\ callInfos'[k] = callInfos[k]
      BY <2>2, <2>3
    <3>2. Grounded(d)
      BY <2>3, <3>1 DEF GroundedInv
    <3> QED
      BY <1>2, <3>2
  <2> QED
    BY <2>3 DEF GroundedInv
<1>5. CASE CollectCalls
  <2>1. CASE idx <= Len(functions)
    <3>1. functions[idx] \in Listed
      BY <2>1, LenProperties DEF ShapeInv, FunctionsInv, Listed
    <3> QED
      BY <1>4, <1>5, <2>1, <3>1 DEF CollectCalls
  <2>2. CASE ~ (idx <= Len(functions))
    BY <1>3, <1>5, <2>2 DEF CollectCalls
  <2> QED
    BY <2>1, <2>2
<1>6. CASE ScanFresh
  <2>1. newFs[idx] \in Listed
    BY <1>6, LenProperties DEF ScanFresh, ShapeInv
  <2> QED
    BY <1>4, <1>6, <2>1 DEF ScanFresh
<1>7. CASE ReuseClone \/ MakeClone
  <2> DEFINE i == CloneName(callInfos[idx])
  <2>1. AtCall /\ MustReplace(callInfos[idx]) /\ Replace(i)
    BY <1>7 DEF ReuseClone, MakeClone
  <2>2. i \in Instance
    BY <2>1, CloneNameType, LenProperties DEF AtCall, MustReplace, ShapeInv
  <2> HIDE DEF i
  <2> QED
    BY <1>1, <2>1, <2>2, ReplaceGrounded
<1> QED
  BY <1>3, <1>5, <1>6, <1>7 DEF Next, PropagateInstruction, FunctionClosed, StartRound,
     SkipCall, CrossArg, CrossDone, CallsDone, EndRound, Redirect, RedirectDone, Finished, vars

\* Once something has changed, or before the first round, nothing is claimed.
LEMMA ChangedRound ==
  ASSUME ShapeInv', GroundedInv', redirected' = {},
         \/ isChanged' /\ pc' \in {"calls", "crossNew", "crossOld", "fresh"}
         \/ pc' \in {"collect", "round"}
  PROVE  RoundInv'
BY DEF RoundInv, Crossing, Analysed

\* The steps that change nothing the invariant speaks of.
LEMMA SameRound ==
  ASSUME RoundInv, ShapeInv',
         UNCHANGED <<prog, sens, isChanged, callInfos, newFs, pc, idx, arg, redirected>>
  PROVE  RoundInv'
<1>1. \A ci : /\ Settled(ci)' = Settled(ci)
              /\ needsNewFunction(ci)' = needsNewFunction(ci)
              /\ SiteOf(ci)' = SiteOf(ci)
              /\ \A n : SettledTo(ci, n)' = SettledTo(ci, n)
              /\ \A j : ArgBit(ci, j)' = ArgBit(ci, j)
              /\ \A j : Param(ci.repl, j)' = Param(ci.repl, j)
  BY SameSens
<1>2. AllSettled' = AllSettled /\ Crossing' = Crossing /\ Analysed' = Analysed
  BY <1>1 DEF AllSettled, Crossing, Analysed
<1>3. GroundedInv'
  <2>1. ASSUME NEW d, Grounded(d)
        PROVE  Grounded(d)'
    BY <2>1, GroundedGrows
  <2>2. ASSUME NEW k \in DOMAIN callInfos, callInfos[k].repl # None, NEW d, d = callInfos[k]
        PROVE  Grounded(d)'
    BY <2>1, <2>2 DEF RoundInv, GroundedInv
  <2> QED
    BY <2>2 DEF GroundedInv
<1>4. WillChange(callInfos[idx])' = WillChange(callInfos[idx])
  BY <1>1 DEF WillChange
<1>5. \A k : /\ Settled(callInfos[k])' = Settled(callInfos[k])
             /\ Redirected(k)' = Redirected(k)
  BY <1>1 DEF Redirected, isDirectCall
<1>6. SettledTo(callInfos[idx], arg)' = SettledTo(callInfos[idx], arg)
  BY <1>1
<1> QED
  BY <1>2, <1>3, <1>4, <1>5, <1>6 DEF RoundInv

LEMMA SkipRound ==
  ASSUME RoundInv, SkipCall, ShapeInv', GroundedInv'
  PROVE  RoundInv'
<1>1. /\ pc = "calls" /\ pc' = "calls" /\ idx' = idx + 1 /\ idx \in Nat \ {0}
      /\ UNCHANGED <<prog, sens, isChanged, callInfos, newFs, redirected>>
      /\ ~ MustReplace(callInfos[idx])
  BY DEF SkipCall, AtCall, RoundInv, ShapeInv
<1>2. ASSUME ~ isChanged, NEW k \in 1..idx
      PROVE  Settled(callInfos[k])
  <2>1. CASE k = idx
    BY <1>1, <2>1 DEF Settled
  <2>2. CASE k # idx
    <3>1. k \in 1..(idx - 1)
      BY <1>1, <1>2, <2>2
    <3> QED
      BY <1>1, <1>2, <3>1 DEF RoundInv
  <2> QED
    BY <2>1, <2>2
<1>3. ASSUME ~ isChanged, NEW k \in 1..idx
      PROVE  Settled(callInfos[k])'
  <2>1. ASSUME NEW d, d = callInfos[k]
        PROVE  Settled(d)'
    BY <1>1, <1>2, <1>3, <2>1, SameSens
  <2> QED
    BY <1>1, <2>1
<1>4. idx' - 1 = idx
  BY <1>1
<1> QED
  BY <1>1, <1>3, <1>4 DEF RoundInv, Crossing, Analysed

\* A new clone has no sensitive value yet: giving it to a call changes some.
LEMMA ReplaceRound ==
  ASSUME RoundInv, ReuseClone \/ MakeClone, ShapeInv', GroundedInv'
  PROVE  RoundInv'
<1> DEFINE ci == callInfos[idx]
           i == CloneName(ci)
<1>1. /\ pc = "calls" /\ pc' \in {"crossNew", "crossOld"} /\ idx' = idx /\ prog' = prog
      /\ redirected' = redirected /\ redirected = {} /\ arg' = 1
      /\ AtCall /\ MustReplace(ci) /\ Replace(i)
      /\ ShapeInv /\ idx \in Nat \ {0} /\ isChanged \in BOOLEAN
  BY DEF ReuseClone, MakeClone, Replace, AtCall, RoundInv, Analysed, ShapeInv
<1>2. idx \in DOMAIN callInfos /\ InfoOK(ci) /\ IsInternal(ci)
  BY <1>1, LenProperties DEF AtCall, ShapeInv, MustReplace
<1>3. i \in Instance /\ i[2] # Original
  BY <1>1, <1>2, CloneNameType
<1>4. CASE isChanged'
  BY <1>1, <1>4, ChangedRound
<1>5. CASE ~ isChanged'
  <2>1. ReturnGain(ci, i) \subseteq sens /\ sens' = sens /\ ~ isChanged
    BY <1>1, <1>5 DEF Replace
  <2>2. /\ \A m \in DOMAIN callInfos : m # idx => callInfos'[m] = callInfos[m]
        /\ callInfos'[idx].inst = ci.inst /\ callInfos'[idx].call = ci.call
        /\ callInfos'[idx].repl = i
    BY <1>1, <1>2, <1>3, UpdateInfo DEF Replace
  <2> HIDE DEF i
  <2>3. ASSUME NEW k \in 1..(idx - 1)
        PROVE  Settled(callInfos[k])'
    <3>1. k \in DOMAIN callInfos /\ k # idx
      BY <1>1, <1>2, LenProperties DEF ShapeInv
    <3>2. callInfos'[k] = callInfos[k]
      BY <2>2, <3>1
    <3>3. Settled(callInfos[k])
      BY <1>1, <2>1 DEF RoundInv
    <3>4. ASSUME NEW d, d = callInfos'[k]
          PROVE  Settled(d)'
      BY <1>1, <2>1, <3>2, <3>3, <3>4, SameSens
    <3> QED
      BY <3>4
  <2>4. ASSUME NEW d, d = callInfos'[idx]
        PROVE  SettledTo(d, 1)
    <3>1. ReturnBit(d) = ReturnBit(ci) /\ SiteOf(d) = SiteOf(ci) /\ d.repl = i
      BY <2>2, <2>4, SameCall
    <3>2. ReturnBit(d) => Returns(i) \subseteq sens
      BY <2>1, <3>1 DEF ReturnGain
    <3>3. DOMAIN SiteOf(ci).args \subseteq Nat \ {0}
      BY <1>1, <1>2, SiteType, LenProperties DEF ShapeInv, Site
    <3> QED
      BY <3>1, <3>2, <3>3 DEF SettledTo
  <2>5. ASSUME NEW d, d = callInfos'[idx]
        PROVE  SettledTo(d, 1)'
    BY <1>1, <2>1, <2>4, <2>5, SameSens
  <2>6. newFs = <<>>
    BY <1>1, <2>1 DEF RoundInv
  <2>7. CASE ReuseClone
    <3>1. newFs' = <<>>
      BY <2>6, <2>7 DEF ReuseClone
    <3> QED
      BY <1>1, <2>3, <2>5, <3>1 DEF RoundInv, Crossing, Analysed
  <2>8. CASE MakeClone
    <3>1. i \notin Listed /\ pc' = "crossNew"
      BY <1>3, <2>8 DEF MakeClone, NewFunctions, i
    <3>2. \A x : <<i, x>> \notin sens
      <4>1. sens \subseteq Known /\ i # Unit
        BY <1>1, <1>3, DistinctAssumption DEF ShapeInv
      <4> QED
        BY <3>1, <4>1 DEF Known
    <3>3. ~ ReturnBit(ci)
      BY <2>1, <3>2 DEF ReturnGain
    <3>4. Grounded(ci)
      BY <1>1, <1>2, NeededIsGrounded DEF RoundInv, GroundedInv
    <3>5. PICK j \in DOMAIN SiteOf(ci).args : BaseBit(ci, j)
      BY <3>3, <3>4 DEF Grounded
    <3>6. j \in Nat \ {0}
      BY <1>1, <1>2, SiteType, LenProperties DEF ShapeInv, Site
    <3>7. ASSUME NEW d, d = callInfos'[idx]
          PROVE  ArgBit(d, j) /\ j \in DOMAIN SiteOf(d).args /\ Param(d.repl, j) \notin sens
      <4>1. BaseBit(d, j) /\ IsInternal(d) /\ SiteOf(d) = SiteOf(ci) /\ d.repl = i
        BY <1>2, <2>2, <3>5, <3>7, SameCall
      <4> QED
        BY <3>2, <3>5, <4>1, ArgBitBase DEF Param
    <3>8. ASSUME NEW d, d = callInfos'[idx]
          PROVE  ArgBit(d, j)' /\ (j \in DOMAIN SiteOf(d).args)' /\ (Param(d.repl, j) \notin sens)'
      BY <1>1, <2>1, <3>7, <3>8, SameSens
    <3>9. (ArgBit(callInfos[idx], j) /\ j \in DOMAIN SiteOf(callInfos[idx]).args
             /\ Param(callInfos[idx].repl, j) \notin sens)'
      BY <1>1, <3>8
    <3>10. WillChange(callInfos[idx])'
      BY <1>1, <3>6, <3>9 DEF WillChange
    <3> QED
      BY <1>1, <2>3, <2>5, <3>1, <3>10 DEF RoundInv, Crossing, Analysed
  <2> QED
    BY <2>7, <2>8
<1> QED
  BY <1>4, <1>5

LEMMA CrossArgRound ==
  ASSUME RoundInv, CrossArg, ShapeInv', GroundedInv'
  PROVE  RoundInv'
<1> DEFINE ci == callInfos[idx]
<1>1. /\ Crossing /\ pc \in {"crossNew", "crossOld"} /\ pc' = pc
      /\ arg' = arg + 1 /\ arg \in Nat \ {0}
      /\ UNCHANGED <<prog, callInfos, newFs, idx, redirected>>
      /\ redirected = {} /\ isChanged \in BOOLEAN /\ isChanged' \in BOOLEAN
      /\ sens' = sens \cup ArgGain(ci, arg)
      /\ isChanged' = (isChanged \/ ~ (ArgGain(ci, arg) \subseteq sens))
      /\ ShapeInv /\ InfoOK(ci)
  BY DEF CrossArg, Crossing, RoundInv, ShapeInv, Analysed
<1>2. CASE isChanged'
  BY <1>1, <1>2, ChangedRound
<1>3. CASE ~ isChanged'
  <2>1. ArgGain(ci, arg) \subseteq sens /\ sens' = sens /\ ~ isChanged
    BY <1>1, <1>3
  <2>2. DOMAIN SiteOf(ci).args \subseteq Nat \ {0}
    BY <1>1, SiteType, LenProperties DEF ShapeInv, Site
  <2>3. ASSUME NEW k \in 1..(idx - 1)
        PROVE  Settled(callInfos[k])'
    <3>1. Settled(callInfos[k])
      BY <1>1, <2>1 DEF RoundInv
    <3>2. ASSUME NEW d, d = callInfos[k]
          PROVE  Settled(d)'
      BY <1>1, <2>1, <3>1, <3>2, SameSens
    <3> QED
      BY <1>1, <3>2
  <2>4. SettledTo(ci, arg + 1)
    <3>1. SettledTo(ci, arg)
      BY <1>1, <2>1 DEF RoundInv
    <3>2. ASSUME NEW j \in DOMAIN SiteOf(ci).args, j < arg + 1, ArgBit(ci, j)
          PROVE  {Param(ci.repl, j)} \cup ArgValues(ci, j) \subseteq sens
      <4>1. CASE j = arg
        BY <2>1, <3>2, <4>1 DEF ArgGain
      <4>2. CASE j # arg
        <5>1. j < arg
          BY <1>1, <2>2, <3>2, <4>2
        <5> QED
          BY <3>1, <3>2, <5>1 DEF SettledTo
      <4> QED
        BY <4>1, <4>2
    <3> QED
      BY <3>1, <3>2 DEF SettledTo
  <2>5. ASSUME NEW d, d = ci, NEW n, n = arg + 1
        PROVE  SettledTo(d, n)'
    BY <1>1, <2>1, <2>4, <2>5, SameSens
  <2>6. ASSUME newFs # <<>>
        PROVE  pc = "crossNew" /\ WillChange(callInfos[idx])'
    <3>1. pc = "crossNew" /\ WillChange(ci)
      BY <1>1, <2>1, <2>6 DEF RoundInv
    <3>2. PICK j \in DOMAIN SiteOf(ci).args :
            j >= arg /\ ArgBit(ci, j) /\ Param(ci.repl, j) \notin sens
      BY <3>1 DEF WillChange
    <3>3. j # arg
      BY <2>1, <3>2 DEF ArgGain
    <3>4. j >= arg + 1
      BY <1>1, <2>2, <3>2, <3>3
    <3>5. ASSUME NEW d, d = ci
          PROVE  /\ ArgBit(d, j)' /\ (j \in DOMAIN SiteOf(d).args)'
                 /\ (Param(d.repl, j) \notin sens)'
      BY <1>1, <2>1, <3>2, <3>5, SameSens
    <3>6. (ArgBit(callInfos[idx], j) /\ j \in DOMAIN SiteOf(callInfos[idx]).args
             /\ Param(callInfos[idx].repl, j) \notin sens)'
      BY <1>1, <3>5
    <3> QED
      BY <1>1, <3>1, <3>4, <3>6 DEF WillChange
  <2>7. SettledTo(callInfos[idx], arg)'
    BY <1>1, <2>5
  <2> QED
    BY <1>1, <2>3, <2>6, <2>7 DEF RoundInv, Crossing, Analysed
<1> QED
  BY <1>2, <1>3

LEMMA CrossDoneRound ==
  ASSUME RoundInv, CrossDone, ShapeInv', GroundedInv'
  PROVE  RoundInv'
<1> DEFINE ci == callInfos[idx]
<1>1. /\ Crossing /\ pc \in {"crossNew", "crossOld"} /\ pc' = "calls"
      /\ arg > Len(SiteOf(ci).args) /\ idx' = idx + 1 /\ idx \in Nat \ {0}
      /\ UNCHANGED <<prog, sens, isChanged, callInfos, newFs, redirected>>
      /\ redirected = {} /\ ShapeInv /\ InfoOK(ci) /\ ci.repl # None /\ arg \in Nat
  BY DEF CrossDone, Crossing, RoundInv, ShapeInv, Analysed
<1>2. CASE isChanged
  BY <1>1, <1>2, ChangedRound
<1>3. CASE ~ isChanged
  <2>1. \A j \in DOMAIN SiteOf(ci).args : j \in Nat /\ j < arg
    <3>1. SiteOf(ci).args \in Seq(Operand)
      BY <1>1, SiteType DEF ShapeInv, Site
    <3>2. DOMAIN SiteOf(ci).args = 1..Len(SiteOf(ci).args) /\ Len(SiteOf(ci).args) \in Nat
      BY <3>1, LenProperties
    <3> QED
      BY <1>1, <3>2
  <2>2. Settled(ci)
    BY <1>1, <1>3, <2>1 DEF RoundInv, SettledTo, Settled
  <2>3. ASSUME NEW k \in 1..idx
        PROVE  Settled(callInfos[k])'
    <3>1. Settled(callInfos[k])
      <4>1. CASE k = idx
        BY <2>2, <4>1
      <4>2. CASE k # idx
        <5>1. k \in 1..(idx - 1)
          BY <1>1, <2>3, <4>2
        <5> QED
          BY <1>1, <1>3, <5>1 DEF RoundInv
      <4> QED
        BY <4>1, <4>2
    <3>2. ASSUME NEW d, d = callInfos[k]
          PROVE  Settled(d)'
      BY <1>1, <3>1, <3>2, SameSens
    <3> QED
      BY <1>1, <3>2
  <2>4. newFs = <<>>
    <3>1. ~ WillChange(ci)
      BY <1>1, <2>1 DEF WillChange
    <3> QED
      BY <1>1, <1>3, <3>1 DEF RoundInv
  <2>5. idx' - 1 = idx
    BY <1>1
  <2> QED
    BY <1>1, <2>3, <2>4, <2>5 DEF RoundInv, Crossing, Analysed
<1> QED
  BY <1>2, <1>3

LEMMA AllSettledStays ==
  ASSUME AllSettled, UNCHANGED <<prog, sens, callInfos>>
  PROVE  AllSettled'
<1>1. ASSUME NEW k \in DOMAIN callInfos, NEW d, d = callInfos[k]
      PROVE  Settled(d)'
  BY <1>1, SameSens DEF AllSettled
<1> QED
  BY <1>1 DEF AllSettled

LEMMA CallsDoneRound ==
  ASSUME RoundInv, CallsDone, ShapeInv', GroundedInv'
  PROVE  RoundInv'
<1>1. /\ pc = "calls" /\ pc' = "fresh" /\ idx > Len(callInfos) /\ idx \in Nat
      /\ UNCHANGED <<prog, sens, isChanged, callInfos, newFs, redirected>>
      /\ redirected = {} /\ callInfos \in Seq(CallInfo)
  BY DEF CallsDone, RoundInv, ShapeInv, Analysed
<1>2. ~ isChanged => AllSettled
  <2>1. DOMAIN callInfos = 1..Len(callInfos) /\ Len(callInfos) \in Nat
    BY <1>1, LenProperties
  <2>2. DOMAIN callInfos \subseteq 1..(idx - 1)
    BY <1>1, <2>1
  <2> QED
    BY <1>1, <2>2 DEF RoundInv, AllSettled
<1>3. newFs' = <<>> \/ isChanged'
  BY <1>1 DEF RoundInv
<1> QED
  BY <1>1, <1>2, <1>3, AllSettledStays DEF RoundInv, Crossing, Analysed

LEMMA EndRoundRound ==
  ASSUME RoundInv, EndRound, ShapeInv', GroundedInv'
  PROVE  RoundInv'
<1>1. /\ pc = "fresh" /\ pc' = IF isChanged THEN "round" ELSE "redirect"
      /\ UNCHANGED <<prog, sens, isChanged, callInfos, newFs, redirected>>
      /\ redirected = {} /\ callInfos \in Seq(CallInfo) /\ idx' = 1
  BY DEF EndRound, RoundInv, ShapeInv, Analysed
<1>2. CASE isChanged
  BY <1>1, <1>2, ChangedRound
<1>3. CASE ~ isChanged
  <2>1. AllSettled'
    BY <1>1, <1>3, AllSettledStays DEF RoundInv
  <2>2. \A k \in DOMAIN callInfos : ~ (k < 1)
    BY <1>1, LenProperties
  <2>3. {k \in DOMAIN callInfos : k < idx' /\ Redirected(k)'} = {}
    BY <1>1, <2>2
  <2> QED
    BY <1>1, <1>3, <2>1, <2>3 DEF RoundInv, Crossing, Analysed
<1> QED
  BY <1>2, <1>3

\* No call of a function with a body is without the clone it needs.
LEMMA RedirectRound ==
  ASSUME RoundInv, Redirect, ShapeInv', GroundedInv'
  PROVE  RoundInv'
<1> DEFINE ci == callInfos[idx]
<1>1. /\ pc = "redirect" /\ idx <= Len(callInfos) /\ idx' = idx + 1 /\ idx \in Nat \ {0}
      /\ UNCHANGED <<prog, sens, isChanged, callInfos, newFs>>
      /\ callInfos \in Seq(CallInfo) /\ AllSettled
      /\ redirected = {k \in DOMAIN callInfos : k < idx /\ Redirected(k)}
  BY DEF Redirect, RoundInv, ShapeInv, Analysed
<1>2. /\ pc' = IF (isDirectCall(ci) /\ needsNewFunction(ci)) /\ ci.repl = None
                   /\ ~ isCallToExternalFunction(ci)
                THEN "unreachable" ELSE pc
      /\ redirected' = IF Redirected(idx) THEN redirected \cup {idx} ELSE redirected
  BY DEF Redirect, Redirected
<1>3. idx \in DOMAIN callInfos /\ DOMAIN callInfos \subseteq Nat
  BY <1>1, LenProperties
<1>4. pc' = "redirect"
  <2>1. InfoOK(ci)
    BY <1>3 DEF RoundInv, ShapeInv
  <2>2. SiteOf(ci) \in Site
    BY <2>1, SiteType DEF RoundInv, ShapeInv
  <2>3. isDirectCall(ci) /\ ~ isCallToExternalFunction(ci) => IsInternal(ci)
    BY <2>2 DEF isDirectCall, isCallToExternalFunction, IsInternal, Site
  <2>4. MustReplace(ci) => ci.repl # None
    BY <1>1, <1>3 DEF AllSettled, Settled
  <2> QED
    BY <1>1, <1>2, <2>3, <2>4 DEF MustReplace
<1>5. redirected' = {k \in DOMAIN callInfos : k < idx + 1 /\ Redirected(k)}
  <2>1. \A k \in DOMAIN callInfos : k < idx + 1 <=> k < idx \/ k = idx
    BY <1>1, <1>3
  <2> QED
    BY <1>1, <1>2, <1>3, <2>1
<1>6. \A k : Redirected(k)' = Redirected(k)
  <2>1. \A d : needsNewFunction(d)' = needsNewFunction(d) /\ SiteOf(d)' = SiteOf(d)
    BY <1>1, SameSens
  <2> QED
    BY <1>1, <2>1 DEF Redirected, isDirectCall
<1>7. AllSettled'
  BY <1>1, AllSettledStays
<1> QED
  BY <1>1, <1>4, <1>5, <1>6, <1>7 DEF RoundInv, Crossing, Analysed

LEMMA RedirectDoneRound ==
  ASSUME RoundInv, RedirectDone, ShapeInv', GroundedInv'
  PROVE  RoundInv'
<1>1. /\ pc = "redirect" /\ pc' = "done" /\ idx > Len(callInfos) /\ idx \in Nat
      /\ UNCHANGED <<prog, sens, isChanged, callInfos, newFs, redirected>>
      /\ callInfos \in Seq(CallInfo) /\ AllSettled
      /\ redirected = {k \in DOMAIN callInfos : k < idx /\ Redirected(k)}
  BY DEF RedirectDone, RoundInv, ShapeInv, Analysed
<1>2. \A k \in DOMAIN callInfos : k < idx
  BY <1>1, LenProperties
<1>3. redirected = {k \in DOMAIN callInfos : Redirected(k)}
  BY <1>1, <1>2
<1>4. \A k : Redirected(k)' = Redirected(k)
  <2>1. \A d : needsNewFunction(d)' = needsNewFunction(d) /\ SiteOf(d)' = SiteOf(d)
    BY <1>1, SameSens
  <2> QED
    BY <1>1, <2>1 DEF Redirected, isDirectCall
<1>5. AllSettled'
  BY <1>1, AllSettledStays
<1> QED
  BY <1>1, <1>3, <1>4, <1>5 DEF RoundInv, Crossing, Analysed

LEMMA NextRound == RoundInv /\ [Next]_vars => RoundInv'
<1> SUFFICES ASSUME RoundInv, [Next]_vars PROVE RoundInv'
  OBVIOUS
<1>1. ShapeInv'
  BY NextShape DEF RoundInv
<1>2. CASE UNCHANGED vars
  BY <1>1, <1>2, SameRound DEF vars
<1>3. ASSUME Next
      PROVE  GroundedInv'
  BY <1>3, NextGrounded DEF RoundInv
<1>4. CASE PropagateInstruction
  <2>1. GroundedInv'
    BY <1>3, <1>4 DEF Next
  <2>2. pc' = pc /\ isChanged' /\ redirected' = redirected /\ todo # <<>>
    BY <1>4 DEF PropagateInstruction
  <2>3. pc \in {"collect", "calls", "crossNew", "crossOld", "fresh"} /\ redirected = {}
    BY <2>2 DEF RoundInv, ShapeInv, Phases, Analysed
  <2> QED
    BY <1>1, <2>1, <2>2, <2>3, ChangedRound
<1>5. CASE FunctionClosed
  BY <1>1, <1>5, SameRound DEF FunctionClosed
<1>6. CASE CollectCalls
  <2>1. GroundedInv'
    BY <1>3, <1>6 DEF Next
  <2>2. pc' \in {"collect", "round"} /\ redirected' = {}
    BY <1>6 DEF CollectCalls, RoundInv, Analysed
  <2> QED
    BY <1>1, <2>1, <2>2, ChangedRound
<1>7. CASE StartRound
  <2>1. GroundedInv'
    BY <1>3, <1>7 DEF Next
  <2>2. newFs' = <<>> /\ pc' = "calls" /\ idx' = 1 /\ redirected' = {}
    BY <1>7 DEF StartRound, RoundInv, Analysed
  <2>3. 1..(idx' - 1) = {}
    BY <2>2
  <2> QED
    BY <1>1, <2>1, <2>2, <2>3 DEF RoundInv, Crossing, Analysed
<1>8. CASE ScanFresh
  <2>1. GroundedInv'
    BY <1>3, <1>8 DEF Next
  <2>2. pc = "fresh" /\ pc' = pc /\ isChanged' = isChanged /\ redirected' = {}
    BY <1>8 DEF ScanFresh, RoundInv, Analysed
  <2>3. newFs # <<>>
    BY <1>8, EmptySeq DEF ScanFresh, RoundInv, ShapeInv
  <2>4. isChanged
    BY <2>2, <2>3 DEF RoundInv
  <2> QED
    BY <1>1, <2>1, <2>2, <2>4, ChangedRound
<1>9. CASE \/ SkipCall \/ ReuseClone \/ MakeClone \/ CrossArg \/ CrossDone
           \/ CallsDone \/ EndRound \/ Redirect \/ RedirectDone
  <2>1. GroundedInv'
    BY <1>3, <1>9 DEF Next
  <2> QED
    BY <1>1, <1>9, <2>1, SkipRound, ReplaceRound, CrossArgRound, CrossDoneRound,
       CallsDoneRound, EndRoundRound, RedirectRound, RedirectDoneRound
<1> QED
  BY <1>2, <1>4, <1>5, <1>6, <1>7, <1>8, <1>9 DEF Next, Finished

LEMMA RoundInvariance == Spec => []RoundInv
BY InitRound, NextRound, PTL DEF Spec

----------------------------------------------------------------------------
(* What follows for every module, whatever the order of the instructions *)

\* The llvm_unreachable in the redirection loop of runOnModule is not reached.
THEOREM NoCallLeftBehind == Spec => []EveryNeededCloneExists
<1>1. RoundInv => EveryNeededCloneExists
  BY DEF RoundInv, EveryNeededCloneExists
<1> QED
  BY <1>1, RoundInvariance, PTL

\* isChanged is a sound reason to stop: in a round in which it is still FALSE,
\* the calls examined so far agree with their replacements, and no clone was
\* made whose calls have yet to be collected.
THEOREM IsChangedIsSound == Spec => []UnchangedRoundIsSettled
<1>1. RoundInv => UnchangedRoundIsSettled
  BY DEF RoundInv, UnchangedRoundIsSettled, AllSettled
<1> QED
  BY <1>1, RoundInvariance, PTL

LEMMA RedirectedAgrees ==
  ASSUME NEW ci, IsInternal(ci), needsNewFunction(ci), Settled(ci)
  PROVE  /\ \A j \in DOMAIN SiteOf(ci).args : SiteOf(ci).args[j] # Const =>
              (isArgSensitive(ci, j) <=> Param(ci.repl, j) \in sens)
         /\ isReturnValSensitive(ci) => Returns(ci.repl) \subseteq sens
<1>1. MustReplace(ci) /\ ci.repl # None
  BY DEF MustReplace, Settled
<1>2. ASSUME NEW j \in DOMAIN SiteOf(ci).args, SiteOf(ci).args[j] # Const
      PROVE  isArgSensitive(ci, j) <=> Param(ci.repl, j) \in sens
  <2>1. ArgBit(ci, j) => {Param(ci.repl, j)} \cup ArgValues(ci, j) \subseteq sens
    BY <1>1 DEF Settled
  <2>2. isArgSensitive(ci, j) => ArgBit(ci, j)
    BY DEF ArgBit
  <2>3. Param(ci.repl, j) \in sens => ArgBit(ci, j)
    BY <1>1 DEF ArgBit, isArgSensitiveAtCallee
  <2>4. Val(ci.inst, SiteOf(ci).args[j]) \in ArgValues(ci, j)
    BY <1>2 DEF ArgValues, Vals
  <2> QED
    BY <2>1, <2>2, <2>3, <2>4 DEF isArgSensitive
<1>3. isReturnValSensitive(ci) => Returns(ci.repl) \subseteq sens
  BY <1>1 DEF Settled, ReturnBit
<1> QED
  BY <1>2, <1>3

LEMMA OthersAgree ==
  ASSUME ShapeInv, NEW ci, InfoOK(ci), IsInternal(ci), ~ needsNewFunction(ci)
  PROVE  /\ \A j \in DOMAIN SiteOf(ci).args :
              ~ isArgSensitive(ci, j) /\ Param(getCallee(ci), j) \notin sens
         /\ ~ isReturnValSensitive(ci)
<1>1. \A j \in DOMAIN SiteOf(ci).args : ~ ArgBit(ci, j)
  BY DEF needsNewFunction
<1>2. DOMAIN SiteOf(ci).args \subseteq DOMAIN Body(getCallee(ci)).params
  BY SiteType DEF ShapeInv
<1>3. ~ isReturnValSensitive(ci)
  BY DEF needsNewFunction, ReturnBit
<1> QED
  BY <1>1, <1>2, <1>3 DEF ArgBit, isArgSensitiveAtCallee

LEMMA RoundsMakeAgree == RoundInv => CallBoundaryAgrees
<1>1. ASSUME RoundInv, pc = "done", NEW k \in DOMAIN callInfos, IsInternal(callInfos[k])
      PROVE  LET ci == callInfos[k] IN
             /\ \A j \in DOMAIN SiteOf(ci).args : SiteOf(ci).args[j] # Const =>
                  (isArgSensitive(ci, j) <=> Param(TargetOf(k), j) \in sens)
             /\ isReturnValSensitive(ci) => Returns(TargetOf(k)) \subseteq sens
  <2> DEFINE ci == callInfos[k]
  <2>1. ShapeInv /\ InfoOK(ci) /\ Settled(ci)
    BY <1>1 DEF RoundInv, ShapeInv, AllSettled, Analysed
  <2>2. isDirectCall(ci)
    BY <1>1, DistinctAssumption DEF isDirectCall, IsInternal
  <2>3. k \in redirected <=> needsNewFunction(ci)
    BY <1>1, <2>1, <2>2 DEF RoundInv, Redirected, Settled, MustReplace
  <2>4. CASE needsNewFunction(ci)
    BY <1>1, <2>1, <2>3, <2>4, RedirectedAgrees DEF TargetOf
  <2>5. CASE ~ needsNewFunction(ci)
    BY <1>1, <2>1, <2>3, <2>5, OthersAgree DEF TargetOf
  <2> QED
    BY <2>4, <2>5
<1> QED
  BY <1>1 DEF CallBoundaryAgrees

\* In every module, once the calls are redirected, a call and the function it
\* calls agree on which arguments are sensitive, and a sensitive result is
\* that of a function all of whose returned values are sensitive.
THEOREM RedirectedCallsAgree == Spec => []CallBoundaryAgrees
BY RoundsMakeAgree, RoundInvariance, PTL

----------------------------------------------------------------------------
(* The program that leaves the pass *)

\* The function a call ends up calling is one of the module, with as many
\* parameters as the call has arguments.
LEMMA TargetListed ==
  ASSUME RoundInv, pc = "done", NEW k \in DOMAIN callInfos, IsInternal(callInfos[k])
  PROVE  /\ TargetOf(k) \in Listed
         /\ SiteOf(callInfos[k]).args \in Seq(Operand)
         /\ Body(TargetOf(k)).params \in Seq(Local)
         /\ DOMAIN SiteOf(callInfos[k]).args = DOMAIN Body(TargetOf(k)).params
<1> DEFINE ci == callInfos[k]
<1>1. ShapeInv /\ FunctionsInv /\ InfoOK(ci)
  BY DEF RoundInv, ShapeInv
<1>2. k \in redirected => ci.repl # None
  BY DEF RoundInv, Redirected
<1>3. /\ SiteOf(ci) \in Site /\ getCallee(ci) \in Listed
      /\ DOMAIN SiteOf(ci).args = DOMAIN Body(getCallee(ci)).params
      /\ ci.repl # None => ci.repl \in Listed /\
                           DOMAIN SiteOf(ci).args = DOMAIN Body(ci.repl).params
  <2> HIDE DEF ci
  <2>1. IsInternal(ci)
    BY DEF ci
  <2> QED
    BY <1>1, <2>1, SiteType DEF InfoOK
<1>4. TargetOf(k) \in Listed /\ DOMAIN SiteOf(ci).args = DOMAIN Body(TargetOf(k)).params
  BY <1>2, <1>3 DEF TargetOf
<1>5. Body(TargetOf(k)) \in FnBody
  BY <1>1, <1>4, ListedType, BodyType DEF FunctionsInv
<1> QED
  BY <1>3, <1>4, <1>5 DEF Site, FnBody

LEMMA CompiledFits ==
  ASSUME RoundInv, pc = "done"
  PROVE  Emitted!CallsFit(Compiled)
<1> SUFFICES ASSUME NEW f \in Listed
             PROVE  /\ \A j \in CompiledFn(f).uses :
                         j \in DOMAIN CompiledFn(f).params /\ CompiledFn(f).params[j]
                    /\ \A s \in CompiledFn(f).sites : \A g \in s.callees :
                         g \in Listed /\ Len(s.args) = Len(CompiledFn(g).params)
  BY DEF Emitted!CallsFit, Compiled
<1>1. \A j \in CompiledFn(f).uses :
        j \in DOMAIN CompiledFn(f).params /\ CompiledFn(f).params[j]
  BY DEF CompiledFn
<1>2. ASSUME NEW s \in CompiledFn(f).sites, NEW g \in s.callees
      PROVE  g \in Listed /\ Len(s.args) = Len(CompiledFn(g).params)
  <2>1. PICK k \in DOMAIN callInfos : IsInternal(callInfos[k]) /\ s = CompiledSite(k)
    BY DEF CompiledFn
  <2>2. g = TargetOf(k)
    BY <2>1 DEF CompiledSite
  <2>3. /\ g \in Listed
        /\ DOMAIN SiteOf(callInfos[k]).args = DOMAIN Body(g).params
    BY <2>1, <2>2, TargetListed
  <2>4. PICK n \in Nat : DOMAIN Body(g).params = 1..n
    BY <2>1, <2>2, TargetListed, LenProperties
  <2>5. s.args = [j \in 1..n |->
          Looks(callInfos[k].inst, SiteOf(callInfos[k]).args[j])]
    BY <2>1, <2>3, <2>4 DEF CompiledSite
  <2>6. CompiledFn(g).params = [j \in 1..n |-> Param(g, j) \in sens]
    BY <2>4 DEF CompiledFn
  <2> QED
    BY <2>3, <2>5, <2>6
<1> QED
  BY <1>1, <1>2

LEMMA CompiledAgrees ==
  ASSUME RoundInv, pc = "done"
  PROVE  Emitted!Agrees(Compiled)
<1> SUFFICES ASSUME NEW f \in Listed, NEW s \in CompiledFn(f).sites
             PROVE  /\ s.declared => ~ s.usesResult
                    /\ ~ s.declared => \A g \in s.callees :
                         /\ s.usesResult => Compiled.fns[g].rets \subseteq {"sensitive"}
                         /\ \A j \in DOMAIN s.args :
                              IF s.args[j] = "null"
                              THEN Compiled.fns[g].params[j] => s.direct
                              ELSE s.args[j] = "sensitive" <=> Compiled.fns[g].params[j]
  BY DEF Emitted!Agrees, Compiled
<1>1. PICK k \in DOMAIN callInfos : IsInternal(callInfos[k]) /\ s = CompiledSite(k)
  BY DEF CompiledFn
<1> DEFINE ci == callInfos[k]
           g  == TargetOf(k)
<1>2. /\ s.callees = {g} /\ s.direct /\ ~ s.declared
      /\ s.usesResult <=> isReturnValSensitive(ci) /\ ~ ReturnsLiteral(g)
      /\ DOMAIN s.args = DOMAIN SiteOf(ci).args
      /\ \A j \in DOMAIN SiteOf(ci).args : s.args[j] = Looks(ci.inst, SiteOf(ci).args[j])
  BY <1>1 DEF CompiledSite
<1>3. /\ \A j \in DOMAIN SiteOf(ci).args : SiteOf(ci).args[j] # Const =>
           (isArgSensitive(ci, j) <=> Param(g, j) \in sens)
      /\ isReturnValSensitive(ci) => Returns(g) \subseteq sens
  BY <1>1, RoundsMakeAgree DEF CallBoundaryAgrees
<1>4. g \in Listed /\ DOMAIN SiteOf(ci).args = DOMAIN Body(g).params
  BY <1>1, TargetListed
<1>5. Compiled.fns[g] = CompiledFn(g)
  BY <1>4 DEF Compiled
<1>6. \A j \in DOMAIN SiteOf(ci).args : Compiled.fns[g].params[j] <=> Param(g, j) \in sens
  <2>1. CompiledFn(g).params = [j \in DOMAIN Body(g).params |-> Param(g, j) \in sens]
    BY DEF CompiledFn
  <2> HIDE DEF g
  <2> QED
    BY <1>4, <1>5, <2>1
<1> HIDE DEF ci, g
<1>7. ASSUME s.usesResult
      PROVE  Compiled.fns[g].rets \subseteq {"sensitive"}
  <2>1. Const \notin Body(g).rets /\ Returns(g) \subseteq sens
    BY <1>2, <1>3, <1>7 DEF ReturnsLiteral
  <2>2. \A x \in Body(g).rets : Looks(g, x) = "sensitive"
    BY <2>1 DEF Returns, Vals, Looks
  <2> QED
    BY <1>5, <2>2 DEF CompiledFn
<1>8. ASSUME NEW j \in DOMAIN s.args
      PROVE  IF s.args[j] = "null" THEN Compiled.fns[g].params[j] => s.direct
             ELSE s.args[j] = "sensitive" <=> Compiled.fns[g].params[j]
  <2> DEFINE x == SiteOf(ci).args[j]
  <2>1. j \in DOMAIN SiteOf(ci).args /\ s.args[j] = Looks(ci.inst, x)
    BY <1>2
  <2>2. CASE x = Const
    BY <1>2, <2>1, <2>2 DEF Looks
  <2>3. CASE x # Const
    <3>1. isArgSensitive(ci, j) <=> Val(ci.inst, x) \in sens
      BY <2>3 DEF isArgSensitive, ArgValues, Vals
    <3>2. s.args[j] # "null" /\ (s.args[j] = "sensitive" <=> Val(ci.inst, x) \in sens)
      BY <2>1, <2>3 DEF Looks
    <3> QED
      BY <1>3, <1>6, <2>1, <2>3, <3>1, <3>2
  <2> QED
    BY <2>2, <2>3
<1> QED
  BY <1>2, <1>7, <1>8

\* Whatever the module, the program that leaves the pass is one the protocol of
\* the fn-arg slots can serve: what CallBounds assumes of a program, the
\* analysis delivers.
THEOREM AnalysisDelivers == Spec => []CompiledProgramAgrees
<1>1. RoundInv => CompiledProgramAgrees
  BY CompiledFits, CompiledAgrees DEF CompiledProgramAgrees
<1> QED
  BY <1>1, RoundInvariance, PTL

----------------------------------------------------------------------------
(* The set of sensitive values is closed when the rounds end *)

InTodo(i)  == \E k \in DOMAIN todo : todo[k] = i
InNewFs(i) == \E k \in DOMAIN newFs : newFs[k] = i

InRound == pc \in {"calls", "crossNew", "crossOld", "fresh"}

\* While a round has changed nothing, the functions it has visited are closed.
ClosedInv ==
  /\ RoundInv
  /\ Crossing => todo = <<>>
  /\ InRound /\ ~isChanged => \A i \in Listed : Closed(i) \/ InTodo(i) \/ InNewFs(i)
  /\ Analysed => \A i \in Listed : Closed(i)

LEMMA SameClosed ==
  ASSUME prog' = prog, sens' = sens
  PROVE  \A i : Closed(i)' = Closed(i)
<1>1. \A i : Body(i)' = Body(i)
  BY DEF Body
<1>2. \A i, X : Vals(i, X)' = Vals(i, X)
  BY DEF Vals, Val
<1>3. \A i, ins : Gain(i, ins)' = Gain(i, ins)
  BY <1>2 DEF Gain
<1>4. \A i : Propagating(i)' = Propagating(i)
  BY <1>1 DEF Propagating
<1> QED
  BY <1>3, <1>4 DEF Closed

\* The functions of a sequence are its head and those of its tail.
LEMMA TodoHead ==
  ASSUME ShapeInv, FunctionClosed, NEW i, InTodo(i)
  PROVE  i = Head(todo) \/ InTodo(i)'
<1>1. /\ todo \in Seq(Listed) /\ todo # <<>> /\ todo' = Tail(todo)
  BY DEF FunctionClosed, ShapeInv
<1>2. PICK k \in DOMAIN todo : todo[k] = i
  BY DEF InTodo
<1>3. Len(todo) \in Nat /\ DOMAIN todo = 1..Len(todo)
  BY <1>1, LenProperties
<1>4. CASE k = 1
  BY <1>1, <1>2, <1>4, HeadTailProperties
<1>5. CASE k # 1
  <2>1. k - 1 \in 1..(Len(todo) - 1) /\ (k - 1) + 1 = k
    BY <1>2, <1>3, <1>5
  <2>2. /\ todo' \in Seq(Listed) /\ Len(todo') = Len(todo) - 1
        /\ \A m \in 1..Len(todo') : todo'[m] = todo[m + 1]
    BY <1>1, HeadTailProperties
  <2>3. DOMAIN todo' = 1..Len(todo')
    BY <2>2, LenProperties
  <2> QED
    BY <1>2, <2>1, <2>2, <2>3 DEF InTodo
<1> QED
  BY <1>4, <1>5

LEMMA InitClosed == Init => ClosedInv
BY InitRound DEF Init, ClosedInv, Crossing, InRound, Analysed

LEMMA NextClosed == ClosedInv /\ [Next]_vars => ClosedInv'
<1> SUFFICES ASSUME ClosedInv, [Next]_vars PROVE ClosedInv'
  OBVIOUS
<1>1. RoundInv' /\ RoundInv /\ ShapeInv
  BY NextRound DEF ClosedInv, RoundInv
<1> USE DEF InRound, Crossing, Analysed
<1>2. CASE UNCHANGED vars
  <2>1. \A i : /\ Closed(i)' = Closed(i) /\ InTodo(i)' = InTodo(i) /\ InNewFs(i)' = InNewFs(i)
    BY <1>2, SameClosed DEF vars, InTodo, InNewFs
  <2>2. Listed' = Listed
    BY <1>2 DEF vars, Listed
  <2> QED
    BY <1>1, <1>2, <2>1, <2>2 DEF ClosedInv, vars
<1>3. CASE PropagateInstruction
  <2>1. isChanged' /\ pc' = pc /\ todo' = todo /\ todo # <<>>
    BY <1>3 DEF PropagateInstruction
  <2> QED
    BY <1>1, <2>1 DEF ClosedInv, ShapeInv
<1>4. CASE FunctionClosed
  <2>1. /\ UNCHANGED <<prog, functions, sens, isChanged, newFs, pc>> /\ Closed(Head(todo))
        /\ todo # <<>>
    BY <1>4 DEF FunctionClosed
  <2>2. \A i : Closed(i)' = Closed(i) /\ InNewFs(i)' = InNewFs(i)
    BY <2>1, SameClosed DEF InNewFs
  <2>3. \A i : InTodo(i) => i = Head(todo) \/ InTodo(i)'
    BY <1>1, <1>4, TodoHead
  <2>4. Listed' = Listed
    BY <2>1 DEF Listed
  <2> QED
    BY <1>1, <2>1, <2>2, <2>3, <2>4 DEF ClosedInv
<1>5. CASE CollectCalls
  <2>1. pc' \in {"collect", "round"}
    BY <1>5 DEF CollectCalls
  <2> QED
    BY <1>1, <2>1 DEF ClosedInv
<1>6. CASE StartRound
  <2>1. pc' = "calls" /\ todo' = functions /\ functions' = functions
    BY <1>6 DEF StartRound
  <2>2. \A i \in Listed' : InTodo(i)'
    BY <2>1 DEF InTodo, Listed
  <2> QED
    BY <1>1, <2>1, <2>2 DEF ClosedInv
<1>7. CASE SkipCall \/ CallsDone
  <2>1. /\ UNCHANGED <<prog, functions, sens, isChanged, newFs, todo>>
        /\ pc = "calls" /\ pc' \in {"calls", "fresh"}
    BY <1>7 DEF SkipCall, CallsDone, AtCall
  <2>2. \A i : Closed(i)' = Closed(i) /\ InNewFs(i)' = InNewFs(i) /\ InTodo(i)' = InTodo(i)
    BY <2>1, SameClosed DEF InNewFs, InTodo
  <2>3. Listed' = Listed
    BY <2>1 DEF Listed
  <2> QED
    BY <1>1, <2>1, <2>2, <2>3 DEF ClosedInv
<1>8. CASE ReuseClone \/ CrossArg
  <2>1. /\ UNCHANGED <<prog, functions, newFs, todo>> /\ todo = <<>>
        /\ InRound /\ pc' \in {"crossNew", "crossOld"}
        /\ isChanged' \/ (sens' = sens /\ ~isChanged)
    BY <1>8 DEF ReuseClone, CrossArg, AtCall, Replace, ClosedInv
  <2>2. \A i : InNewFs(i)' = InNewFs(i) /\ InTodo(i)' = InTodo(i)
    BY <2>1 DEF InNewFs, InTodo
  <2>3. ~isChanged' => \A i : Closed(i)' = Closed(i)
    BY <2>1, SameClosed
  <2>4. Listed' = Listed
    BY <2>1 DEF Listed
  <2> QED
    BY <1>1, <2>1, <2>2, <2>3, <2>4 DEF ClosedInv
<1>9. CASE MakeClone
  <2>0. PICK c : c = CloneName(callInfos[idx])
    OBVIOUS
  <2>1. /\ functions' = Append(functions, c) /\ newFs' = Append(newFs, c)
        /\ UNCHANGED <<prog, todo>> /\ todo = <<>> /\ pc = "calls" /\ pc' = "crossNew"
        /\ isChanged' \/ (sens' = sens /\ ~isChanged)
        /\ MustReplace(callInfos[idx]) /\ AtCall
    BY <1>9, <2>0 DEF MakeClone, AtCall, Replace
  <2>2. c \in Instance
    BY <1>1, <2>0, <2>1, CloneNameType, LenProperties DEF AtCall, MustReplace, ShapeInv
  <2>3. Listed' = Listed \cup {c}
    BY <1>1, <2>1, <2>2, MoreFunctions DEF ShapeInv
  <2>4. InNewFs(c)' /\ \A i : InNewFs(i) => InNewFs(i)'
    <3>1. newFs \in Seq(Instance)
      BY <1>1, SeqMonotonic, ListedType DEF ShapeInv, FunctionsInv
    <3>2. /\ newFs' \in Seq(Instance) /\ Len(newFs') = Len(newFs) + 1
          /\ \A k \in 1..Len(newFs) : newFs'[k] = newFs[k]
          /\ newFs'[Len(newFs) + 1] = c
      BY <2>1, <2>2, <3>1, AppendProperties
    <3>3. /\ DOMAIN newFs = 1..Len(newFs) /\ DOMAIN newFs' = 1..(Len(newFs) + 1)
          /\ Len(newFs) \in Nat
      BY <3>1, <3>2, LenProperties
    <3>4. Len(newFs) + 1 \in DOMAIN newFs' /\ DOMAIN newFs \subseteq DOMAIN newFs'
      BY <3>3
    <3>5. \A k \in DOMAIN newFs : newFs'[k] = newFs[k]
      BY <3>2, <3>3
    <3> QED
      BY <3>2, <3>4, <3>5 DEF InNewFs
  <2>5. ~isChanged' => \A i : Closed(i)' = Closed(i)
    BY <2>1, SameClosed
  <2>6. \A i : InTodo(i)' = InTodo(i)
    BY <2>1 DEF InTodo
  <2>7. ASSUME ~ isChanged', NEW i \in Listed'
        PROVE  Closed(i)' \/ InTodo(i)' \/ InNewFs(i)'
    <3>1. i = c \/ (i \in Listed /\ ~isChanged)
      BY <2>1, <2>3, <2>7
    <3>2. i \in Listed /\ ~isChanged => Closed(i) \/ InTodo(i) \/ InNewFs(i)
      BY <2>1 DEF ClosedInv
    <3> QED
      BY <2>4, <2>5, <2>6, <2>7, <3>1, <3>2
  <2>8. pc' = "crossNew" /\ todo' = <<>>
    BY <2>1
  <2> QED
    BY <1>1, <2>7, <2>8 DEF ClosedInv
<1>10. CASE CrossDone
  <2>1. /\ UNCHANGED <<prog, functions, sens, isChanged, newFs>> /\ todo = <<>>
        /\ InRound /\ pc' = "calls"
    BY <1>10 DEF CrossDone, ClosedInv
  <2>2. \A i : Closed(i)' = Closed(i) /\ InNewFs(i)' = InNewFs(i) /\ ~ InTodo(i)
    BY <2>1, SameClosed DEF InNewFs, InTodo
  <2>3. Listed' = Listed
    BY <2>1 DEF Listed
  <2> QED
    BY <1>1, <2>1, <2>2, <2>3 DEF ClosedInv
<1>11. CASE ScanFresh
  <2>1. pc' = "fresh" /\ pc = "fresh" /\ isChanged' = isChanged /\ newFs # <<>>
    BY <1>1, <1>11, EmptySeq DEF ScanFresh, ShapeInv
  <2>2. isChanged
    BY <1>1, <2>1 DEF RoundInv
  <2> QED
    BY <1>1, <2>1, <2>2 DEF ClosedInv
<1>12. CASE EndRound
  <2>1. /\ UNCHANGED <<prog, functions, sens, isChanged, newFs, todo>> /\ todo = <<>>
        /\ pc = "fresh" /\ pc' = IF isChanged THEN "round" ELSE "redirect"
    BY <1>12 DEF EndRound
  <2>2. ~isChanged => newFs = <<>>
    BY <1>1, <2>1 DEF RoundInv
  <2>3. \A i : Closed(i)' = Closed(i)
    BY <2>1, SameClosed
  <2>4. Listed' = Listed
    BY <2>1 DEF Listed
  <2>5. ~isChanged => \A i \in Listed : Closed(i)
    BY <2>1, <2>2 DEF ClosedInv, InTodo, InNewFs
  <2> QED
    BY <1>1, <2>1, <2>3, <2>4, <2>5 DEF ClosedInv
<1>13. CASE Redirect \/ RedirectDone
  <2>1. /\ UNCHANGED <<prog, functions, sens>> /\ pc = "redirect"
        /\ pc' \in {"redirect", "unreachable", "done"}
    BY <1>13 DEF Redirect, RedirectDone
  <2>2. \A i : Closed(i)' = Closed(i)
    BY <2>1, SameClosed
  <2>3. Listed' = Listed
    BY <2>1 DEF Listed
  <2> QED
    BY <1>1, <2>1, <2>2, <2>3 DEF ClosedInv
<1> QED
  BY <1>2, <1>3, <1>4, <1>5, <1>6, <1>7, <1>8, <1>9, <1>10, <1>11, <1>12, <1>13
  DEF Next, Finished

LEMMA ClosedInvariance == Spec => []ClosedInv
BY InitClosed, NextClosed, PTL DEF Spec

\* The rounds do not end while some instruction, in a clone or in a function
\* as written, would still make another value sensitive.
THEOREM FixpointReached == Spec => []FixpointIsClosed
<1>1. ClosedInv => FixpointIsClosed
  BY DEF ClosedInv, FixpointIsClosed, Listed
<1> QED
  BY <1>1, ClosedInvariance, PTL
==========================================================================
