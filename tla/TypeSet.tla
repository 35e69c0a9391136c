------------------------------ MODULE TypeSet ------------------------------
(***************************************************************************)
(* Which types are sensitive: class TypeSet of DataShield.cpp.             *)
(*                                                                         *)
(* isSensitiveTypeRecursive walks from a type to the element of an array,  *)
(* the target of a pointer, or the first element of a struct that is not   *)
(* the struct or a pointer to it, until it meets a type it knows.  Every   *)
(* type on the way is remembered, in sensTys or nonsensTys.  loopDetector, *)
(* the set of types visited, is shared by all walks and never cleared.     *)
(*                                                                         *)
(* Types may contain themselves through pointers, and are asked for in any *)
(* order and more than once.                                               *)
(***************************************************************************)
EXTENDS Naturals, Sequences

CONSTANTS
  Type,
  Graphs   \* the modules: what their types are made of and which are annotated

Kinds == {"struct", "array", "pointer", "metadata", "other"}

\* elems lists what the walk may go to: vectors and functions list nothing.
Graph == [kind : [Type -> Kinds], elems : [Type -> Seq(Type)], annotated : SUBSET Type]

WellFormed(g) ==
  /\ g \in Graph
  /\ \A t \in Type :
       /\ g.kind[t] \in {"array", "pointer"} => Len(g.elems[t]) = 1
       /\ g.kind[t] \in {"metadata", "other"} => g.elems[t] = <<>>

ASSUME GraphsAreWellFormed == Type # {} /\ \A g \in Graphs : WellFormed(g)

VARIABLES
  graph,
  sensTys, nonsensTys, loopDetector,
  path,    \* the calls of isSensitiveTypeRecursive under way
  phase,   \* "asking": the last of path is looked at; "yes", "no": it gets the
           \* answer of the call it made, or the walk has ended
  root     \* the type the walk began with

vars == <<graph, sensTys, nonsensTys, loopDetector, path, phase, root>>

\* The elements that are not passed over: a struct passes over itself and
\* pointers to itself.
Candidates(g, t) ==
  {i \in DOMAIN g.elems[t] :
     LET e == g.elems[t][i]
     IN  g.kind[t] = "struct" => e # t /\ ~ (g.kind[e] = "pointer" /\ g.elems[e] = <<t>>)}

\* The one type the walk goes to from t, if any: the loop over the elements of a
\* struct returns in its first turn.
First(g, t) ==
  {g.elems[t][i] : i \in {j \in Candidates(g, t) : \A k \in Candidates(g, t) : j <= k}}

Follow(t) == First(graph, t)

Top == path[Len(path)]
Popped == SubSeq(path, 1, Len(path) - 1)

----------------------------------------------------------------------------

\* findSensitiveTypeAnnotations has put the annotated types into sensTys.
Init ==
  /\ graph \in Graphs
  /\ sensTys = graph.annotated
  /\ nonsensTys = {}
  /\ loopDetector = {}
  /\ path = <<>>
  /\ phase = "no"
  /\ root = CHOOSE t \in Type : TRUE

\* The constructor asks for every struct, the value set for the type of every
\* operand, parameter and global.
Ask ==
  /\ path = <<>>
  /\ \E t \in Type : path' = <<t>> /\ root' = t
  /\ phase' = "asking"
  /\ UNCHANGED <<graph, sensTys, nonsensTys, loopDetector>>

Looking == phase = "asking"

\* Wrong: the call does not return its answer.
IsKnown_NoAnswer ==
  /\ Looking
  /\ Top \in sensTys \cup nonsensTys \/ graph.kind[Top] = "metadata"
  /\ path' = Popped
  /\ UNCHANGED <<graph, sensTys, nonsensTys, loopDetector, phase, root>>

IsKnown ==
  /\ Looking
  /\ Top \in sensTys \cup nonsensTys \/ graph.kind[Top] = "metadata"
  /\ phase' = IF Top \in sensTys THEN "yes" ELSE "no"
  /\ path' = Popped
  /\ UNCHANGED <<graph, sensTys, nonsensTys, loopDetector, root>>

IsNew == Top \notin sensTys \cup nonsensTys /\ graph.kind[Top] # "metadata"

IsLoop ==
  /\ Looking
  /\ IsNew
  /\ Top \in loopDetector
  /\ nonsensTys' = nonsensTys \cup {Top}
  /\ phase' = "no"
  /\ path' = Popped
  /\ UNCHANGED <<graph, sensTys, loopDetector, root>>

IsLeaf ==
  /\ Looking
  /\ IsNew
  /\ Top \notin loopDetector
  /\ Follow(Top) = {}
  /\ loopDetector' = loopDetector \cup {Top}
  /\ nonsensTys' = nonsensTys \cup {Top}
  /\ phase' = "no"
  /\ path' = Popped
  /\ UNCHANGED <<graph, sensTys, root>>

\* Wrong: only structs are entered into loopDetector.
Descend_Structs ==
  /\ Looking
  /\ IsNew
  /\ Top \notin loopDetector
  /\ loopDetector' = IF graph.kind[Top] = "struct" THEN loopDetector \cup {Top} ELSE loopDetector
  /\ \E e \in Follow(Top) : path' = Append(path, e)
  /\ UNCHANGED <<graph, sensTys, nonsensTys, phase, root>>

Descend ==
  /\ Looking
  /\ IsNew
  /\ Top \notin loopDetector
  /\ loopDetector' = loopDetector \cup {Top}
  /\ \E e \in Follow(Top) : path' = Append(path, e)
  /\ UNCHANGED <<graph, sensTys, nonsensTys, phase, root>>

\* The types remembered on the way back: of a pointer not what it points to.
Remembered(t) == IF graph.kind[t] = "pointer" THEN {t} ELSE {t} \cup Follow(t)

\* Wrong: pointers are not remembered.
ReturnYes_ForgetsPointers ==
  /\ phase = "yes" /\ path # <<>>
  /\ sensTys' = IF graph.kind[Top] = "pointer" THEN sensTys ELSE sensTys \cup Remembered(Top)
  /\ path' = Popped
  /\ UNCHANGED <<graph, nonsensTys, loopDetector, phase, root>>

ReturnYes ==
  /\ phase = "yes" /\ path # <<>>
  /\ sensTys' = sensTys \cup Remembered(Top)
  /\ path' = Popped
  /\ UNCHANGED <<graph, nonsensTys, loopDetector, phase, root>>

\* Wrong: a struct is not sensitive although its first element is.
ReturnNo_Struct ==
  /\ phase \in {"yes", "no"} /\ path # <<>>
  /\ phase = "yes" => graph.kind[Top] = "struct"
  /\ nonsensTys' = nonsensTys \cup Remembered(Top)
  /\ phase' = "no"
  /\ path' = Popped
  /\ UNCHANGED <<graph, sensTys, loopDetector, root>>

ReturnNo ==
  /\ phase = "no" /\ path # <<>>
  /\ nonsensTys' = nonsensTys \cup Remembered(Top)
  /\ path' = Popped
  /\ UNCHANGED <<graph, sensTys, loopDetector, phase, root>>

Next ==
  \/ Ask
  \/ IsKnown
  \/ IsLoop
  \/ IsLeaf
  \/ Descend
  \/ ReturnYes
  \/ ReturnNo

Spec == Init /\ [][Next]_vars

----------------------------------------------------------------------------
(* Properties *)

\* The sensitive types: the annotated ones, and those from which the walk leads
\* to a sensitive one.  Nothing in this depends on what was asked before.
Closed(S) ==
  /\ graph.annotated \subseteq S
  /\ \A t \in Type : Follow(t) \cap S # {} => t \in S

Sensitive == {t \in Type : \A S \in SUBSET Type : Closed(S) => t \in S}

\* Type correctness.
TypeOK ==
  /\ WellFormed(graph)
  /\ {sensTys, nonsensTys, loopDetector} \subseteq SUBSET Type
  /\ path \in Seq(Type)
  /\ phase \in {"asking", "yes", "no"}
  /\ phase = "asking" => path # <<>>
  /\ root \in Type

\* The calls that wait for others: all of path, but for the one being looked at.
Waiting == IF Looking THEN 1..(Len(path) - 1) ELSE 1..Len(path)

\* The recursion ends, whatever types contain themselves: no type waits twice.
NoTypeTwice == \A i, j \in Waiting : path[i] = path[j] => i = j

\* What is remembered is right at any moment, in the middle of a walk through a
\* cycle too, and so the answer does not depend on the order of the questions.
MemoIsRight == sensTys \subseteq Sensitive /\ nonsensTys \cap Sensitive = {}

\* Between walks count() answers for every type walked so far what the walk
\* would: loopDetector need not be cleared.
CountIsRight ==
  path = <<>> => \A t \in loopDetector : t \in sensTys <=> t \in Sensitive

\* The walk answers what it was asked.
AnswerIsRight ==
  path = <<>> /\ loopDetector # {} => (phase = "yes" <=> root \in Sensitive)
============================================================================
