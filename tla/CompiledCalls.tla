-------------------------- MODULE CompiledCalls --------------------------
(***************************************************************************)
(* From the analysis to the running program: what BoundsAnalysis makes of  *)
(* the calls of a module once SensitivityAnalysis has ended and the calls  *)
(* are redirected.  It is the kind of program module CallBounds runs.      *)
(*                                                                         *)
(* Only the calls whose callee the analysis knows are here.  Nothing makes *)
(* a call through a pointer agree with the functions it reaches.           *)
(***************************************************************************)
EXTENDS SensitivityAnalysis

Emitted == INSTANCE CallAgreement

\* What sensitiveSet.count and the test for a literal null say of an operand.
\* Values that are no pointers are here as well: no bounds are stored or loaded
\* for them on either side of a call.
Looks(i, x) ==
  IF x = Const THEN "null" ELSE IF Val(i, x) \in sens THEN "sensitive" ELSE "plain"

ReturnsLiteral(i) == Const \in Body(i).rets

\* insertBoundsStores stores the bounds of the arguments, the callee's name in
\* hand; getOrLoadBoundsFromBasedOn loads those of a sensitive result.  A result
\* that may be a literal, whose bounds nobody stores, counts as unused.
CompiledSite(k) ==
  LET ci == callInfos[k] IN
  [callees |-> {TargetOf(k)}, direct |-> TRUE, declared |-> FALSE,
   args |-> [j \in DOMAIN SiteOf(ci).args |-> Looks(ci.inst, SiteOf(ci).args[j])],
   usesResult |-> isReturnValSensitive(ci) /\ ~ ReturnsLiteral(TargetOf(k))]

\* Bounds may be needed of every parameter that is sensitive.
CompiledFn(i) ==
  LET sensitive == [j \in DOMAIN Body(i).params |-> Param(i, j) \in sens] IN
  [params |-> sensitive,
   uses   |-> {j \in DOMAIN sensitive : sensitive[j]},
   sites  |-> {CompiledSite(k) : k \in {m \in DOMAIN callInfos :
                                         callInfos[m].inst = i /\ IsInternal(callInfos[m])}},
   rets   |-> {Looks(i, x) : x \in Body(i).rets}]

Compiled == [fns |-> [i \in Listed |-> CompiledFn(i)]]

\* The program that leaves the pass meets what the protocol of the slots assumes
\* of it, in every call the analysis has examined: recursive functions, shared
\* clones, and clones that no call uses any more included.
CompiledProgramAgrees ==
  pc = "done" => Emitted!CallsFit(Compiled) /\ Emitted!Agrees(Compiled)
==========================================================================
