---------------------- MODULE MCSensitivityAnalysis ----------------------
(***************************************************************************)
(* Small modules for TLC: a function main that calls f, f that may call    *)
(* itself or g, and every combination of the switches below.               *)
(***************************************************************************)
EXTENDS CompiledCalls

CONSTANTS main, f, g,      \* functions
          a, b, c,         \* locals
          buf, memcpy      \* a global, and a declared function

Flow(X)  == [arith |-> FALSE, main |-> X, rest |-> {}]
Arith(X) == [arith |-> TRUE,  main |-> X, rest |-> {}]
Copy(x, y, n) == [arith |-> FALSE, main |-> {x, y}, rest |-> {n, memcpy}]
Call(callee, args, res) == [callee |-> callee, args |-> args, res |-> res]

Fun(params, instrs, calls, rets, typed, retTyped) ==
  [params |-> params, instrs |-> instrs, calls |-> calls, rets |-> rets,
   typed |-> typed, retTyped |-> retTyped]

Modules(mains, fs, gs, firstArgs, annotations) ==
  {p \in {[fns |-> [x \in {main, f, g} |->
                      IF x = main THEN m ELSE IF x = f THEN h ELSE k],
           originals |-> <<<<main, Original>>, <<f, Original>>, <<g, Original>>>>,
           typedGlobals |-> {buf}, firstArg |-> fa, annotated |-> an] :
             m \in mains, h \in fs, k \in gs, fa \in firstArgs, an \in annotations}
     : WellFormed(p)}

\* The sensitive global flows into main, into g, or into both; it comes back
\* through arguments, through returns, and by recursion.
Mains(typed) ==
  {Fun(<<>>, instrs, calls, {Const}, typed, FALSE) :
     instrs \in {{Flow({a, b})}, {Arith({a, buf}), Flow({c, b})},
                {Flow({a, buf}), Flow({c, b})}, {Copy(a, b, c)}},
     calls \in {<<Call(f, <<a>>, c), Call(f, <<b>>, b)>>,
                <<Call(f, <<Const>>, c), Call(Indirect, <<f>>, b)>>,
                <<Call(External, <<a>>, b), Call(f, <<a>>, c)>>}}

Fs(typed, retTyped) ==
  {Fun(<<a>>, instrs, calls, {c}, typed, retTyped) :
     instrs \in {{}, {Flow({a, c}), Flow({b, f})}},
     calls \in {<<Call(f, <<c>>, b)>>, <<Call(g, <<a, c>>, b), Call(g, <<Const, b>>, c)>>}}

Gs(typed) ==
  {Fun(<<a, b>>, instrs, <<>>, {b}, typed, FALSE) :
     instrs \in {{Flow({b, buf})}, {Flow({a, b})}, {Flow({a, c, buf})}}}

\* Literals passed through two levels of calls to parameters that become
\* sensitive in the innermost callee, and a value passed twice: the calls go
\* from one clone to another and back.
NestedPrograms ==
  Modules({Fun(<<>>, {Flow({a, buf})}, calls, {Const}, {}, FALSE) :
             calls \in {<<Call(f, <<a, Const>>, c)>>,
                       <<Call(f, <<b, b>>, b), Call(f, <<a, Const>>, c)>>,
                       <<Call(f, <<Const, a>>, b), Call(f, <<b, Const>>, c)>>}},
          {Fun(<<a, b>>, {}, calls, {b}, {}, FALSE) :
             calls \in {<<Call(g, <<a, b>>, c)>>,
                       <<Call(g, <<b, Const>>, c), Call(f, <<b, a>>, c)>>}},
          {Fun(<<a, b>>, instrs, <<>>, {b}, {}, FALSE) :
             instrs \in {{Flow({a, b})}, {Flow({b, buf})}}},
          {{}}, {<<>>})

\* Sensitivity comes from the types of globals, and in the second family from
\* the types of parameters and of results as well.
PlainPrograms ==
  Modules(Mains({}), Fs({}, FALSE), Gs({}), {{}}, {<<>>})
    \cup Modules(Mains({a, b}), Fs({a}, FALSE), Gs({a}), {{}}, {<<>>})
    \cup Modules(Mains({c, b}), Fs({c, b}, TRUE), Gs({b}), {{}}, {<<>>})
    \cup NestedPrograms

\* Clones made in advance, as UseMbedtlsAnnotations does, and first arguments
\* declared sensitive.
AnnotatedPrograms ==
  Modules(Mains({}), Fs({}, FALSE), Gs({}), {{}, {f}, {g}},
          {<<>>, <<<<f, {1}>>>>, <<<<g, {0, 2}>>, <<f, {0}>>>>})

\* Under UseSeparationMode an instruction that is not arithmetic is treated as
\* every instruction is without it, so one value of the option covers both.
AllPrograms == PlainPrograms \cup AnnotatedPrograms
==========================================================================
