----------------------------- MODULE MCTypeSet -----------------------------
(***************************************************************************)
(* Every module of a few types.                                            *)
(***************************************************************************)
EXTENDS TypeSet

CONSTANTS
  t1, t2, t3,
  MaxElements   \* bound

\* What one type can be: its kind and its elements.
Shapes ==
  ({"struct"} \X UNION {[1..n -> Type] : n \in 0..MaxElements})
    \cup ({"array", "pointer"} \X [1..1 -> Type])
    \cup {<<"metadata", <<>>>>, <<"other", <<>>>>}

\* Which types are annotated makes no difference but by their number: a variable
\* annotated is one type, a type annotated is a pointer to it as well.
AllGraphs ==
  {[kind |-> [t \in Type |-> s[t][1]], elems |-> [t \in Type |-> s[t][2]], annotated |-> A] :
     s \in [Type -> Shapes], A \in {{t1}, {t1, t2}}}
============================================================================
