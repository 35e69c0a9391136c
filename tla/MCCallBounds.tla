-------------------------- MODULE MCCallBounds ---------------------------
(***************************************************************************)
(* Small programs for TLC: main calls f and g, f calls itself and g.       *)
(***************************************************************************)
EXTENDS CallBoundsRefinement

CONSTANTS main, f, g, o1, o2

Call(h, args, usesResult) ==
  [callees |-> {h}, direct |-> TRUE, declared |-> FALSE, args |-> args,
   usesResult |-> usesResult]

CallPointer(hs, args) ==
  [callees |-> hs, direct |-> FALSE, declared |-> FALSE, args |-> args,
   usesResult |-> FALSE]

CallLibraryPointer(h, args) ==
  [callees |-> {h}, direct |-> FALSE, declared |-> TRUE, args |-> args,
   usesResult |-> FALSE]

CallLibrary(h, args) ==
  [callees |-> {h}, direct |-> TRUE, declared |-> TRUE, args |-> args,
   usesResult |-> FALSE]

Fun(params, uses, sites, rets) ==
  [params |-> params, uses |-> uses, sites |-> sites, rets |-> rets]

Compiled(mains, fs, gs) ==
  {[main |-> main,
    fns |-> [x \in {main, f, g} |-> IF x = main THEN m ELSE IF x = f THEN h ELSE k]] :
   m \in mains, h \in fs, k \in gs}

\* Callees that leave slots full, that empty them, and that return pointers
\* nobody asks the bounds of.
Sites(u) ==
  {{Call(f, <<"plain", "sensitive">>, TRUE), Call(g, <<"sensitive", "null">>, u)},
   {CallPointer({f}, <<"plain", "sensitive">>), CallLibrary(f, <<"plain", "sensitive">>),
    CallLibraryPointer(g, <<"sensitive", "plain">>), Call(g, <<"null", "sensitive">>, u)},
   {CallPointer({g}, <<"sensitive", "sensitive">>), Call(f, <<"plain", "null">>, u)}}

AgreeingPrograms ==
  {p \in Compiled(
     {Fun(<<>>, {}, s, {"plain"}) : s \in Sites(TRUE) \cup Sites(FALSE)},
     {Fun(<<FALSE, TRUE>>, uses, s, {"sensitive"}) :
        uses \in {{}, {2}},
        s \in {{Call(f, <<"plain", "sensitive">>, FALSE),
               Call(g, <<"sensitive", "sensitive">>, TRUE)}}},
     {Fun(<<TRUE, TRUE>>, uses, {}, r) :
        uses \in {{1}, {1, 2}}, r \in {{"sensitive"}, {"sensitive", "null"}}})
   : Agrees(p)}

\* f needs the bounds of its parameter, and so does its clone g.  Direct calls
\* call the clone; a call through a pointer calls f, with a literal null pointer.
IndirectPrograms ==
  Compiled({Fun(<<>>, {}, {Call(g, <<"sensitive">>, FALSE), CallPointer({f}, <<"null">>)}, {"plain"})},
           {Fun(<<TRUE>>, {1}, {}, {"plain"})},
           {Fun(<<TRUE>>, {1}, {}, {"plain"})})
==========================================================================
