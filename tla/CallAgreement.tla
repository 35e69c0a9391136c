-------------------------- MODULE CallAgreement --------------------------
(***************************************************************************)
(* What the two sides of a call owe each other in a compiled program: the  *)
(* sensitivity analysis delivers it (CompiledCalls), and the protocol that *)
(* carries bounds across calls depends on it (CallBounds).                 *)
(*                                                                         *)
(* A compiled program, p, has its functions in p.fns, by name.             *)
(***************************************************************************)
EXTENDS Naturals, Sequences

\* How an argument or a returned value looks to the pass, at its own place:
\* a value in the sensitive set, a literal null pointer that is not in it, anything
\* else.
Kind == {"sensitive", "null", "plain"}

\* A call passes what its callee takes, and bounds are needed of parameters
\* that are sensitive.
CallsFit(p) ==
  \A f \in DOMAIN p.fns :
    /\ \A j \in p.fns[f].uses : j \in DOMAIN p.fns[f].params /\ p.fns[f].params[j]
    /\ \A s \in p.fns[f].sites : \A g \in s.callees :
         g \in DOMAIN p.fns /\ Len(s.args) = Len(p.fns[g].params)

\* Caller and callee agree on what is sensitive, literals apart.  A call through
\* a pointer must agree with every function it may reach, and pass no literal
\* null as sensitive; a result whose bounds are loaded must not come from a
\* function that returns a literal.
Agrees(p) ==
  \A f \in DOMAIN p.fns : \A s \in p.fns[f].sites :
    /\ s.declared => ~ s.usesResult
    /\ ~ s.declared => \A g \in s.callees :
         /\ s.usesResult => p.fns[g].rets \subseteq {"sensitive"}
         /\ \A j \in DOMAIN s.args :
              IF s.args[j] = "null" THEN p.fns[g].params[j] => s.direct
              ELSE s.args[j] = "sensitive" <=> p.fns[g].params[j]
==========================================================================
