--------------------------- MODULE TypeSet_proofs ---------------------------
(***************************************************************************)
(* Theorems about the memoised walk over types, for every module of any    *)
(* number of types and every order of questions.                           *)
(***************************************************************************)
EXTENDS TypeSet, SequenceTheorems, TLAPS

----------------------------------------------------------------------------
(* The graph of types *)

\* The walk goes to one type at most.
LEMMA FollowIsOne ==
  ASSUME WellFormed(graph), NEW t \in Type
  PROVE  /\ Follow(t) \subseteq Type
         /\ \A a, b \in Follow(t) : a = b
         /\ graph.kind[t] = "metadata" => Follow(t) = {}
<1> DEFINE C == Candidates(graph, t)
<1>1. graph.elems[t] \in Seq(Type)
  BY DEF WellFormed, Graph
<1>2. C \subseteq Nat /\ \A i \in C : graph.elems[t][i] \in Type
  BY <1>1 DEF Candidates
<1>3. \A i, j \in C : (\A k \in C : i <= k) /\ (\A k \in C : j <= k) => i = j
  BY <1>2
<1>4. graph.kind[t] = "metadata" => C = {}
  BY <1>1 DEF Candidates, WellFormed
<1> QED
  BY <1>2, <1>3, <1>4 DEF Follow, First

\* Types from which the walk never comes to an annotated one.
Ended(N) == \A t \in N : t \notin graph.annotated /\ Follow(t) \subseteq N

LEMMA EndedIsNotSensitive ==
  ASSUME NEW N \in SUBSET Type, Ended(N), WellFormed(graph)
  PROVE  N \cap Sensitive = {}
<1> DEFINE S == Type \ N
<1>1. graph.annotated \subseteq Type
  BY DEF WellFormed, Graph
<1>2. Closed(S)
  BY <1>1 DEF Closed, Ended
<1> QED
  BY <1>2 DEF Sensitive

----------------------------------------------------------------------------
(* The invariant *)

OnPath == {path[i] : i \in Waiting}

Dead == nonsensTys \cup {t \in Type : graph.kind[t] = "metadata" /\ t \notin graph.annotated}

Linked == \A i \in 1..(Len(path) - 1) : path[i + 1] \in Follow(path[i])

\* The calls follow the walk from root, each type once, and all types entered
\* into loopDetector but those still waiting are remembered.
PathInv ==
  /\ path # <<>> => path[1] = root
  /\ Linked
  /\ NoTypeTwice
  /\ OnPath \subseteq loopDetector
  /\ loopDetector \subseteq sensTys \cup nonsensTys \cup OnPath

\* Sensitive types are in every closed set, and so is what a "yes" returns to.
SensInv ==
  /\ graph.annotated \subseteq sensTys
  /\ \A S \in SUBSET Type : Closed(S) => sensTys \subseteq S
  /\ phase = "yes" => IF path = <<>> THEN root \in sensTys ELSE Follow(Top) \cap sensTys # {}

\* On the way back with "no" the types still waiting belong to those without way
\* to an annotated type: through a cycle nonsensTys alone is not closed.
NonsensInv ==
  /\ phase # "yes" => OnPath \cap sensTys = {}
  /\ phase # "no" => Ended(Dead)
  /\ phase = "no" => Ended(Dead \cup OnPath)
  /\ phase = "no" => IF path = <<>> THEN loopDetector # {} => root \in Dead
                     ELSE Follow(Top) \subseteq Dead

IInv == TypeOK /\ PathInv /\ SensInv /\ NonsensInv

LEMMA PoppedPath ==
  ASSUME path \in Seq(Type), path # <<>>
  PROVE  /\ Len(path) \in Nat \ {0}
         /\ Top \in Type
         /\ Popped \in Seq(Type)
         /\ Len(Popped) = Len(path) - 1
         /\ \A i \in 1..(Len(path) - 1) : Popped[i] = path[i]
<1>1. Len(path) \in Nat \ {0}
  BY EmptySeq
<1>2. Top \in Type
  BY <1>1, ElementOfSeq DEF Top
<1> DEFINE n == Len(path)
<1>3. /\ 1 \in Int /\ n - 1 \in Int
      /\ \A i \in 1..(n - 1) : path[i] \in Type
  BY <1>1, ElementOfSeq
<1>4. /\ Popped \in Seq(Type)
      /\ Len(Popped) = IF 1 <= n - 1 THEN (n - 1) - 1 + 1 ELSE 0
      /\ \A i \in 1..((n - 1) - 1 + 1) : Popped[i] = path[1 + i - 1]
  BY <1>3, SubSeqProperties DEF Popped
<1>5. n \in Nat \ {0}
  BY <1>1
<1> HIDE DEF n
<1>6. Len(Popped) = n - 1
  BY <1>4, <1>5
<1>7. ASSUME NEW i \in 1..(n - 1)
      PROVE  Popped[i] = path[i]
  <2>1. i \in 1..((n - 1) - 1 + 1) /\ 1 + i - 1 = i
    BY <1>5
  <2> QED
    BY <1>4, <2>1
<1> QED
  BY <1>2, <1>4, <1>5, <1>6, <1>7 DEF n

\* What a return does to the path.
LEMMA Pop ==
  ASSUME TypeOK, path # <<>>, path' = Popped, phase' \in {"yes", "no"}
  PROVE  /\ path' \in Seq(Type)
         /\ Len(path) \in Nat \ {0} /\ Len(path') = Len(path) - 1
         /\ Waiting' = 1..(Len(path) - 1)
         /\ \A i \in 1..(Len(path) - 1) : path'[i] = path[i]
         /\ OnPath' = {path[i] : i \in 1..(Len(path) - 1)}
         /\ path' = <<>> <=> Len(path) = 1
         /\ path' # <<>> => Top' = path[Len(path) - 1] /\ Len(path) - 1 \in 1..(Len(path) - 1)
<1>1. /\ path' \in Seq(Type) /\ Len(path) \in Nat \ {0} /\ Len(path') = Len(path) - 1
      /\ \A i \in 1..(Len(path) - 1) : path'[i] = path[i]
  BY PoppedPath DEF TypeOK
<1>2. Waiting' = 1..(Len(path) - 1)
  BY <1>1 DEF Waiting, Looking
<1>3. path' = <<>> <=> Len(path) = 1
  BY <1>1, EmptySeq
<1>4. OnPath' = {path[i] : i \in 1..(Len(path) - 1)}
  BY <1>1, <1>2 DEF OnPath
<1> QED
  BY <1>1, <1>2, <1>3, <1>4 DEF Top

LEMMA DeadTypes == TypeOK => Dead \subseteq Type
BY DEF TypeOK, Dead

\* What is said of all actions that return.
LEMMA PoppedInv ==
  ASSUME IInv, path # <<>>, path' = Popped, phase' \in {"yes", "no"},
         UNCHANGED <<graph, root>>,
         loopDetector' \subseteq loopDetector \cup {Top},
         loopDetector \subseteq loopDetector',
         sensTys \subseteq sensTys', nonsensTys \subseteq nonsensTys',
         sensTys' \cup nonsensTys' \subseteq Type,
         Top \in loopDetector' => Top \in sensTys' \cup nonsensTys'
  PROVE  TypeOK' /\ PathInv'
<1>1. TypeOK
  BY DEF IInv
<1>2. /\ path' \in Seq(Type)
      /\ Len(path) \in Nat \ {0} /\ Len(path') = Len(path) - 1
      /\ Waiting' = 1..(Len(path) - 1)
      /\ \A i \in 1..(Len(path) - 1) : path'[i] = path[i]
      /\ OnPath' = {path[i] : i \in 1..(Len(path) - 1)}
      /\ path' = <<>> <=> Len(path) = 1
      /\ path' # <<>> => Top' = path[Len(path) - 1] /\ Len(path) - 1 \in 1..(Len(path) - 1)
  BY <1>1, Pop, Zenon
<1>3. Top \in Type
  BY <1>1, PoppedPath DEF TypeOK
<1>4. TypeOK'
  BY <1>1, <1>2, <1>3 DEF TypeOK
<1>5. Waiting' \subseteq Waiting /\ Waiting \subseteq Waiting' \cup {Len(path)}
  BY <1>2 DEF Waiting
<1>6. OnPath' \subseteq OnPath /\ OnPath \subseteq OnPath' \cup {Top}
  BY <1>2, <1>5 DEF OnPath, Top
<1>7. OnPath' \subseteq loopDetector' /\ loopDetector' \subseteq sensTys' \cup nonsensTys' \cup OnPath'
  BY <1>6 DEF IInv, PathInv
<1>8. NoTypeTwice'
  <2>1. \A i \in Waiting' : path'[i] = path[i] /\ i \in Waiting
    BY <1>2, <1>5
  <2> QED
    BY <2>1 DEF IInv, PathInv, NoTypeTwice
<1>9. Linked'
  <2> SUFFICES ASSUME NEW i \in 1..(Len(path') - 1)
               PROVE  path'[i + 1] \in First(graph', path'[i])
    BY DEF Linked, Follow
  <2>1. i \in 1..(Len(path) - 1) /\ i + 1 \in 1..(Len(path) - 1)
    BY <1>2
  <2>2. path'[i + 1] = path[i + 1] /\ path'[i] = path[i]
    BY <1>2, <2>1
  <2>3. path[i + 1] \in First(graph, path[i])
    BY <2>1 DEF IInv, PathInv, Linked, Follow
  <2> QED
    BY <2>2, <2>3
<1>10. path' # <<>> => path'[1] = root'
  <2>1. path' # <<>> => 1 \in 1..(Len(path) - 1)
    BY <1>2
  <2> QED
    BY <1>2, <2>1 DEF IInv, PathInv
<1> QED
  BY <1>4, <1>7, <1>8, <1>9, <1>10 DEF PathInv

\* The graph does not change, nor what is defined by it.
LEMMA SameGraph ==
  ASSUME graph' = graph
  PROVE  /\ \A S \in SUBSET Type : Closed(S)' <=> Closed(S)
         /\ Sensitive' = Sensitive
         /\ \A N \in SUBSET Type : (\A t \in N : t \notin graph'.annotated /\ First(graph', t) \subseteq N)
                                     <=> Ended(N)
<1>1. \A S \in SUBSET Type : Closed(S)' <=> Closed(S)
  BY DEF Closed, Follow
<1>2. Sensitive' = Sensitive
  BY <1>1 DEF Sensitive
<1> QED
  BY <1>1, <1>2 DEF Ended, Follow

LEMMA InitInv == Init => IInv
<1> SUFFICES ASSUME Init PROVE IInv
  OBVIOUS
<1>1. WellFormed(graph) /\ graph.annotated \subseteq Type
  BY GraphsAreWellFormed DEF Init, WellFormed, Graph
<1>2. Len(path) = 0 /\ Waiting = {} /\ OnPath = {}
  BY DEF Init, Waiting, Looking, OnPath
<1>3. TypeOK /\ PathInv
  BY <1>1, <1>2, GraphsAreWellFormed DEF Init, TypeOK, PathInv, Linked, NoTypeTwice
<1>4. SensInv
  BY <1>1 DEF Init, SensInv, Closed
<1>5. Ended(Dead)
  BY <1>1, FollowIsOne DEF Init, Dead, Ended
<1> QED
  BY <1>2, <1>3, <1>4, <1>5 DEF IInv, NonsensInv, Init

----------------------------------------------------------------------------
(* Steps *)

\* The call that gets the answer is the one that asked for Top, if any.
LEMMA Returned ==
  ASSUME IInv, path # <<>>, path' = Popped, phase' \in {"yes", "no"}, graph' = graph, root' = root
  PROVE  /\ IF path' = <<>> THEN root' = Top
            ELSE First(graph', Top') = {Top} /\ Follow(Top)' = {Top}
         /\ Looking => OnPath' = OnPath
         /\ ~ Looking => OnPath = OnPath' \cup {Top}
<1>1. TypeOK
  BY DEF IInv
<1>2. /\ Len(path) \in Nat \ {0}
      /\ Waiting' = 1..(Len(path) - 1)
      /\ OnPath' = {path[i] : i \in 1..(Len(path) - 1)}
      /\ path' = <<>> <=> Len(path) = 1
      /\ path' # <<>> => Top' = path[Len(path) - 1] /\ Len(path) - 1 \in 1..(Len(path) - 1)
  BY <1>1, Pop, Zenon
<1>3. ASSUME path' = <<>>
      PROVE  root' = Top
  BY <1>2, <1>3 DEF IInv, PathInv, Top
<1>4. ASSUME path' # <<>>
      PROVE  First(graph', Top') = {Top} /\ Follow(Top)' = {Top}
  <2>1. Top' = path[Len(path) - 1] /\ Top' \in Type
    BY <1>1, <1>2, <1>4, ElementOfSeq DEF TypeOK
  <2>2. Top \in Follow(Top')
    BY <1>2, <1>4, <2>1 DEF IInv, PathInv, Linked, Top
  <2>3. \A a, b \in Follow(Top') : a = b
    BY <1>1, <2>1, FollowIsOne DEF TypeOK
  <2>4. Follow(Top') = {Top}
    BY <2>2, <2>3
  <2> QED
    BY <2>4 DEF Follow
<1>5. Looking => OnPath' = OnPath
  BY <1>2 DEF OnPath, Waiting
<1>6. ASSUME ~ Looking
      PROVE  OnPath = OnPath' \cup {Top}
  <2>1. Waiting = Waiting' \cup {Len(path)}
    BY <1>2, <1>6 DEF Waiting
  <2> QED
    BY <1>2, <2>1 DEF OnPath, Top
<1> QED
  BY <1>3, <1>4, <1>5, <1>6

\* If Top turns out to have no way to an annotated type, neither have the types
\* waiting for it.
LEMMA PathEnded ==
  ASSUME IInv, Looking, NEW D \in SUBSET Type, Ended(D), Top \in D \cup OnPath
  PROVE  Ended(D \cup OnPath)
<1> SUFFICES ASSUME NEW t \in OnPath
             PROVE  t \notin graph.annotated /\ Follow(t) \subseteq D \cup OnPath
  BY DEF Ended
<1>1. TypeOK /\ path # <<>> /\ Len(path) \in Nat \ {0}
  BY PoppedPath DEF IInv, TypeOK, Looking
<1>2. t \notin graph.annotated
  BY DEF IInv, SensInv, NonsensInv, Looking
<1>3. PICK i \in 1..(Len(path) - 1) : t = path[i]
  BY DEF OnPath, Waiting
<1>4. path[i + 1] \in Follow(t) /\ t \in Type
  BY <1>1, <1>3, ElementOfSeq DEF IInv, PathInv, Linked, TypeOK
<1>5. Follow(t) = {path[i + 1]}
  BY <1>1, <1>4, FollowIsOne DEF TypeOK
<1>6. path[i + 1] \in D \cup OnPath
  <2>1. CASE i + 1 = Len(path)
    BY <2>1 DEF Top
  <2>2. CASE i + 1 # Len(path)
    <3>1. i + 1 \in Waiting
      BY <1>1, <2>2 DEF Waiting
    <3> QED
      BY <3>1 DEF OnPath
  <2> QED
    BY <2>1, <2>2
<1> QED
  BY <1>2, <1>5, <1>6

LEMMA AskInv == IInv /\ Ask => IInv'
<1> SUFFICES ASSUME IInv, Ask PROVE IInv'
  OBVIOUS
<1>1. /\ path = <<>> /\ phase # "asking" /\ Waiting = {} /\ OnPath = {}
  BY DEF Ask, IInv, TypeOK, Waiting, OnPath, Looking
<1>2. PICK t \in Type : path' = <<t>> /\ root' = t
  BY DEF Ask
<1>3. /\ UNCHANGED <<graph, sensTys, nonsensTys, loopDetector>> /\ phase' = "asking"
      /\ path' \in Seq(Type) /\ path' # <<>> /\ Len(path') = 1 /\ path'[1] = root'
  BY <1>2 DEF Ask
<1>4. Waiting' = {} /\ OnPath' = {}
  BY <1>3 DEF Waiting, OnPath, Looking
<1>5. TypeOK'
  BY <1>2, <1>3 DEF IInv, TypeOK
<1>6. PathInv'
  BY <1>1, <1>3, <1>4 DEF IInv, PathInv, Linked, NoTypeTwice
<1>7. SensInv'
  BY <1>3, SameGraph DEF IInv, SensInv
<1>8. Ended(Dead)
  BY <1>1 DEF IInv, NonsensInv, TypeOK
<1>9. NonsensInv'
  BY <1>3, <1>4, <1>8 DEF NonsensInv, Ended, Dead, Follow
<1> QED
  BY <1>5, <1>6, <1>7, <1>9 DEF IInv

LEMMA DescendInv == IInv /\ Descend => IInv'
<1> SUFFICES ASSUME IInv, Descend PROVE IInv'
  OBVIOUS
<1>1. TypeOK /\ path # <<>> /\ phase = "asking" /\ Len(path) \in Nat \ {0} /\ Top \in Type
  BY PoppedPath DEF IInv, TypeOK, Descend, Looking
<1>2. PICK e \in Follow(Top) : path' = Append(path, e)
  BY DEF Descend
<1>3. e \in Type
  BY <1>1, FollowIsOne DEF TypeOK
<1>4. /\ path' \in Seq(Type) /\ Len(path') = Len(path) + 1 /\ path' # <<>>
      /\ path'[Len(path) + 1] = e
      /\ \A i \in 1..Len(path) : path'[i] = path[i]
  BY <1>1, <1>2, <1>3, AppendProperties DEF TypeOK
<1>5. /\ UNCHANGED <<graph, sensTys, nonsensTys, phase, root>>
      /\ loopDetector' = loopDetector \cup {Top}
      /\ Top \notin loopDetector /\ Top \notin sensTys
  BY DEF Descend, IsNew
<1>6. Waiting' = 1..Len(path) /\ Waiting = 1..(Len(path) - 1)
  BY <1>1, <1>4, <1>5 DEF Waiting, Looking
<1>7. OnPath' = OnPath \cup {Top}
  <2>1. OnPath' = {path[i] : i \in 1..Len(path)}
    BY <1>4, <1>6 DEF OnPath
  <2>2. 1..Len(path) = Waiting \cup {Len(path)}
    BY <1>1, <1>6
  <2> QED
    BY <2>1, <2>2 DEF OnPath, Top
<1>8. TypeOK'
  BY <1>1, <1>4, <1>5 DEF TypeOK
<1>9. Linked'
  <2> SUFFICES ASSUME NEW i \in 1..(Len(path') - 1)
               PROVE  path'[i + 1] \in First(graph', path'[i])
    BY DEF Linked, Follow
  <2>1. CASE i = Len(path)
    BY <1>1, <1>2, <1>4, <1>5, <2>1 DEF Follow, Top
  <2>2. CASE i # Len(path)
    <3>1. i \in 1..(Len(path) - 1) /\ i + 1 \in 1..Len(path)
      BY <1>1, <1>4, <2>2
    <3>2. path[i + 1] \in First(graph, path[i])
      BY <3>1 DEF IInv, PathInv, Linked, Follow
    <3> QED
      BY <1>1, <1>4, <1>5, <3>1, <3>2
  <2> QED
    BY <2>1, <2>2
<1>10. NoTypeTwice'
  <2>1. \A i \in Waiting : path[i] # Top
    BY <1>5 DEF IInv, PathInv, OnPath
  <2>2. \A i \in Waiting' : path'[i] = path[i] /\ (i \in Waiting \/ i = Len(path))
    BY <1>1, <1>4, <1>6
  <2>3. path[Len(path)] = Top
    BY DEF Top
  <2> QED
    BY <2>1, <2>2, <2>3 DEF IInv, PathInv, NoTypeTwice
<1>11. PathInv'
  <2>1. path'[1] = root'
    BY <1>1, <1>4, <1>5 DEF IInv, PathInv
  <2> QED
    BY <1>5, <1>7, <1>9, <1>10, <2>1 DEF IInv, PathInv
<1>12. SensInv'
  BY <1>1, <1>5, SameGraph DEF IInv, SensInv
<1>13. NonsensInv'
  BY <1>1, <1>5, <1>7 DEF IInv, NonsensInv, Ended, Dead, Follow
<1> QED
  BY <1>8, <1>11, <1>12, <1>13 DEF IInv

LEMMA KnownInv == IInv /\ IsKnown => IInv'
<1> SUFFICES ASSUME IInv, IsKnown PROVE IInv'
  OBVIOUS
<1>1. TypeOK /\ path # <<>> /\ phase = "asking" /\ Looking /\ Top \in Type
  BY PoppedPath DEF IInv, TypeOK, IsKnown, Looking
<1>2. /\ UNCHANGED <<graph, sensTys, nonsensTys, loopDetector, root>> /\ path' = Popped
      /\ phase' = IF Top \in sensTys THEN "yes" ELSE "no"
      /\ Top \in sensTys \cup nonsensTys \/ graph.kind[Top] = "metadata"
  BY DEF IsKnown
<1>3. phase' \in {"yes", "no"} /\ sensTys \cup nonsensTys \subseteq Type
  BY <1>1, <1>2 DEF TypeOK
<1>4. loopDetector \subseteq sensTys \cup nonsensTys \cup OnPath
  BY DEF IInv, PathInv
<1>5. Top \in loopDetector => Top \in sensTys \cup nonsensTys
  <2>1. OnPath \cap sensTys = {}
    BY <1>1 DEF IInv, NonsensInv
  <2>2. ASSUME graph.kind[Top] = "metadata" PROVE Top \notin OnPath
    <3>1. ASSUME NEW i \in Waiting, path[i] = Top PROVE FALSE
      <4>1. i \in 1..(Len(path) - 1)
        BY <1>1, <3>1 DEF Waiting
      <4>2. path[i + 1] \in Follow(path[i])
        BY <4>1 DEF IInv, PathInv, Linked
      <4> QED
        BY <1>1, <2>2, <3>1, <4>2, FollowIsOne DEF TypeOK
    <3> QED
      BY <3>1 DEF OnPath
  <2> QED
    BY <1>2, <1>4, <2>2
<1>6. TypeOK' /\ PathInv'
  BY <1>1, <1>2, <1>3, <1>5, PoppedInv
<1>7. /\ IF path' = <<>> THEN root' = Top ELSE First(graph', Top') = {Top} /\ Follow(Top)' = {Top}
      /\ OnPath' = OnPath
  BY <1>1, <1>2, <1>3, Returned
<1>8. SensInv'
  BY <1>2, <1>7, SameGraph DEF IInv, SensInv
<1>9. Dead' = Dead /\ Dead \in SUBSET Type /\ Ended(Dead)
  BY <1>1, <1>2, DeadTypes DEF Dead, IInv, NonsensInv
<1>10. phase' = "no" => Top \in Dead
  BY <1>1, <1>2 DEF IInv, SensInv, Dead
<1>11. phase' = "no" => Ended(Dead \cup OnPath)
  BY <1>1, <1>9, <1>10, PathEnded
<1>12. NonsensInv'
  BY <1>1, <1>2, <1>7, <1>9, <1>10, <1>11 DEF IInv, NonsensInv, Ended, Follow
<1> QED
  BY <1>6, <1>8, <1>12 DEF IInv

\* A type met a second time is on the path: the types from there on are a cycle.
LEMMA LoopInv == IInv /\ IsLoop => IInv'
<1> SUFFICES ASSUME IInv, IsLoop PROVE IInv'
  OBVIOUS
<1>1. TypeOK /\ path # <<>> /\ phase = "asking" /\ Looking /\ Top \in Type
  BY PoppedPath DEF IInv, TypeOK, IsLoop, Looking
<1>2. /\ UNCHANGED <<graph, sensTys, loopDetector, root>> /\ path' = Popped
      /\ phase' = "no" /\ nonsensTys' = nonsensTys \cup {Top}
      /\ Top \in loopDetector /\ Top \notin sensTys \cup nonsensTys
  BY DEF IsLoop, IsNew
<1>3. sensTys' \cup nonsensTys' \subseteq Type
  BY <1>1, <1>2 DEF TypeOK
<1>4. Top \in OnPath
  BY <1>2 DEF IInv, PathInv
<1>5. TypeOK' /\ PathInv'
  BY <1>1, <1>2, <1>3, PoppedInv
<1>6. /\ IF path' = <<>> THEN root' = Top ELSE First(graph', Top') = {Top} /\ Follow(Top)' = {Top}
      /\ OnPath' = OnPath
  BY <1>1, <1>2, Returned
<1>7. SensInv'
  BY <1>2, SameGraph DEF IInv, SensInv
<1>8. Dead' = Dead \cup {Top} /\ Dead \in SUBSET Type /\ Ended(Dead)
  BY <1>1, <1>2, DeadTypes DEF Dead, IInv, NonsensInv
<1>9. Ended(Dead \cup OnPath)
  BY <1>1, <1>4, <1>8, PathEnded
<1>10. NonsensInv'
  <2>1. Dead' \cup OnPath' = Dead \cup OnPath
    BY <1>4, <1>6, <1>8
  <2> QED
    BY <1>1, <1>2, <1>6, <1>8, <1>9, <2>1 DEF IInv, NonsensInv, Ended, Follow
<1> QED
  BY <1>5, <1>7, <1>10 DEF IInv

LEMMA LeafInv == IInv /\ IsLeaf => IInv'
<1> SUFFICES ASSUME IInv, IsLeaf PROVE IInv'
  OBVIOUS
<1>1. TypeOK /\ path # <<>> /\ phase = "asking" /\ Looking /\ Top \in Type
  BY PoppedPath DEF IInv, TypeOK, IsLeaf, Looking
<1>2. /\ UNCHANGED <<graph, sensTys, root>> /\ path' = Popped
      /\ loopDetector' = loopDetector \cup {Top}
      /\ phase' = "no" /\ nonsensTys' = nonsensTys \cup {Top}
      /\ Follow(Top) = {} /\ Top \notin sensTys
  BY DEF IsLeaf, IsNew
<1>3. sensTys' \cup nonsensTys' \subseteq Type
  BY <1>1, <1>2 DEF TypeOK
<1>4. TypeOK' /\ PathInv'
  BY <1>1, <1>2, <1>3, PoppedInv
<1>5. /\ IF path' = <<>> THEN root' = Top ELSE First(graph', Top') = {Top} /\ Follow(Top)' = {Top}
      /\ OnPath' = OnPath
  BY <1>1, <1>2, Returned
<1>6. SensInv'
  BY <1>2, SameGraph DEF IInv, SensInv
<1>7. Dead' = Dead \cup {Top} /\ Dead \in SUBSET Type /\ Ended(Dead)
  BY <1>1, <1>2, DeadTypes DEF Dead, IInv, NonsensInv
<1>8. Dead' \in SUBSET Type /\ Ended(Dead')
  BY <1>1, <1>2, <1>7 DEF Ended, IInv, SensInv
<1>9. Ended(Dead' \cup OnPath)
  BY <1>1, <1>7, <1>8, PathEnded
<1>10. NonsensInv'
  BY <1>1, <1>2, <1>5, <1>7, <1>9 DEF IInv, NonsensInv, Ended, Follow
<1> QED
  BY <1>4, <1>6, <1>10 DEF IInv

LEMMA ReturnYesInv == IInv /\ ReturnYes => IInv'
<1> SUFFICES ASSUME IInv, ReturnYes PROVE IInv'
  OBVIOUS
<1>1. TypeOK /\ path # <<>> /\ phase = "yes" /\ Top \in Type
  BY PoppedPath DEF IInv, TypeOK, ReturnYes
<1>2. /\ UNCHANGED <<graph, nonsensTys, loopDetector, phase, root>> /\ path' = Popped
      /\ sensTys' = sensTys \cup Remembered(Top)
  BY DEF ReturnYes
<1>3. Follow(Top) \subseteq sensTys /\ Follow(Top) # {}
  BY <1>1, FollowIsOne DEF IInv, SensInv, TypeOK
<1>4. sensTys' = sensTys \cup {Top}
  BY <1>2, <1>3 DEF Remembered
<1>5. sensTys' \cup nonsensTys' \subseteq Type
  BY <1>1, <1>2, <1>4 DEF TypeOK
<1>6. TypeOK' /\ PathInv'
  BY <1>1, <1>2, <1>4, <1>5, PoppedInv
<1>7. IF path' = <<>> THEN root' = Top ELSE First(graph', Top') = {Top} /\ Follow(Top)' = {Top}
  BY <1>1, <1>2, Returned
<1>8. SensInv'
  <2>1. ASSUME NEW S \in SUBSET Type, Closed(S) PROVE sensTys' \subseteq S
    BY <1>1, <1>3, <1>4, <2>1 DEF Closed, IInv, SensInv
  <2> QED
    BY <1>2, <1>4, <1>7, <2>1, SameGraph DEF IInv, SensInv
<1>9. NonsensInv'
  BY <1>1, <1>2 DEF IInv, NonsensInv, Ended, Follow, Dead
<1> QED
  BY <1>6, <1>8, <1>9 DEF IInv

LEMMA ReturnNoInv == IInv /\ ReturnNo => IInv'
<1> SUFFICES ASSUME IInv, ReturnNo PROVE IInv'
  OBVIOUS
<1>1. TypeOK /\ path # <<>> /\ phase = "no" /\ ~ Looking /\ Top \in Type
  BY PoppedPath DEF IInv, TypeOK, ReturnNo, Looking
<1>2. /\ UNCHANGED <<graph, sensTys, loopDetector, phase, root>> /\ path' = Popped
      /\ nonsensTys' = nonsensTys \cup Remembered(Top)
  BY DEF ReturnNo
<1>3. Follow(Top) \subseteq Dead /\ Ended(Dead \cup OnPath)
  BY <1>1 DEF IInv, NonsensInv
<1>4. Top \in Remembered(Top) /\ Remembered(Top) \subseteq {Top} \cup Follow(Top)
      /\ Follow(Top) \subseteq Type
  BY <1>1, FollowIsOne DEF Remembered, TypeOK
<1>5. sensTys' \cup nonsensTys' \subseteq Type
  BY <1>1, <1>2, <1>4 DEF TypeOK
<1>6. TypeOK' /\ PathInv'
  BY <1>1, <1>2, <1>4, <1>5, PoppedInv
<1>7. /\ IF path' = <<>> THEN root' = Top ELSE First(graph', Top') = {Top} /\ Follow(Top)' = {Top}
      /\ OnPath = OnPath' \cup {Top}
  BY <1>1, <1>2, Returned
<1>8. SensInv'
  BY <1>1, <1>2, SameGraph DEF IInv, SensInv
<1>9. Dead' = Dead \cup {Top}
  BY <1>2, <1>3, <1>4 DEF Dead
<1>10. Dead' \cup OnPath' = Dead \cup OnPath
  BY <1>7, <1>9
<1>11. NonsensInv'
  BY <1>1, <1>2, <1>3, <1>7, <1>9, <1>10 DEF IInv, NonsensInv, Ended, Follow
<1> QED
  BY <1>6, <1>8, <1>11 DEF IInv

LEMMA NextInv == IInv /\ [Next]_vars => IInv'
<1>1. IInv /\ UNCHANGED vars => IInv'
  <2> SUFFICES ASSUME IInv, UNCHANGED vars PROVE IInv'
    OBVIOUS
  <2>1. UNCHANGED <<Waiting, OnPath, Dead, Top>>
    BY DEF vars, Waiting, OnPath, Dead, Top, Looking
  <2>2. TypeOK' /\ PathInv'
    BY <2>1 DEF vars, IInv, TypeOK, PathInv, Linked, NoTypeTwice, Follow
  <2>3. SensInv'
    BY <2>1, SameGraph DEF vars, IInv, SensInv, Follow
  <2>4. NonsensInv'
    BY <2>1 DEF vars, IInv, NonsensInv, Ended, Follow
  <2> QED
    BY <2>2, <2>3, <2>4 DEF IInv
<1> QED
  BY <1>1, AskInv, KnownInv, LoopInv, LeafInv, DescendInv, ReturnYesInv, ReturnNoInv DEF Next

----------------------------------------------------------------------------
(* Theorems *)

LEMMA Invariance == Spec => []IInv
BY InitInv, NextInv, PTL DEF Spec

\* Type correctness of the walk.
THEOREM TypeCorrect == Spec => []TypeOK
<1>1. IInv => TypeOK
  BY DEF IInv
<1> QED
  BY <1>1, Invariance, PTL

\* The recursion ends: no type waits twice for the walk.
THEOREM RecursionEnds == Spec => []NoTypeTwice
<1>1. IInv => NoTypeTwice
  BY DEF IInv, PathInv
<1> QED
  BY <1>1, Invariance, PTL

\* What is remembered is right, in the middle of a walk too.
LEMMA RightMemo == IInv => MemoIsRight
<1> SUFFICES ASSUME IInv PROVE MemoIsRight
  OBVIOUS
<1>1. TypeOK /\ OnPath \subseteq loopDetector /\ loopDetector \subseteq Type
  BY DEF IInv, PathInv, TypeOK
<1>2. sensTys \subseteq Sensitive
  BY <1>1 DEF IInv, SensInv, Sensitive, TypeOK
<1>3. PICK N \in SUBSET Type : Ended(N) /\ Dead \subseteq N
  BY <1>1, DeadTypes DEF IInv, NonsensInv
<1>4. N \cap Sensitive = {}
  BY <1>1, <1>3, EndedIsNotSensitive DEF TypeOK
<1> QED
  BY <1>2, <1>3, <1>4 DEF MemoIsRight, Dead

THEOREM MemoStaysRight == Spec => []MemoIsRight
BY RightMemo, Invariance, PTL

\* loopDetector need not be cleared: after a walk all it holds is remembered.
THEOREM CountStaysRight == Spec => []CountIsRight
<1>1. IInv => CountIsRight
  <2> SUFFICES ASSUME IInv, path = <<>>, NEW t \in loopDetector
               PROVE  t \in sensTys <=> t \in Sensitive
    BY DEF CountIsRight
  <2>1. OnPath = {}
    BY DEF IInv, TypeOK, OnPath, Waiting, Looking
  <2>2. t \in sensTys \cup nonsensTys
    BY <2>1 DEF IInv, PathInv
  <2> QED
    BY <2>2, RightMemo DEF MemoIsRight
<1> QED
  BY <1>1, Invariance, PTL

\* The walk answers whether it leads to an annotated type.
THEOREM AnswersAreRight == Spec => []AnswerIsRight
<1>1. IInv => AnswerIsRight
  <2> SUFFICES ASSUME IInv, path = <<>>, loopDetector # {}
               PROVE  phase = "yes" <=> root \in Sensitive
    BY DEF AnswerIsRight
  <2>1. CASE phase = "yes"
    BY <2>1, RightMemo DEF IInv, SensInv, MemoIsRight
  <2>2. CASE phase # "yes"
    <3>1. TypeOK /\ phase = "no" /\ OnPath = {} /\ Dead \cup {} = Dead
      BY <2>2 DEF IInv, TypeOK, OnPath, Waiting, Looking
    <3>2. root \in Dead /\ Ended(Dead)
      BY <3>1 DEF IInv, NonsensInv
    <3> QED
      BY <2>2, <3>1, <3>2, DeadTypes, EndedIsNotSensitive DEF TypeOK
  <2> QED
    BY <2>1, <2>2
<1> QED
  BY <1>1, Invariance, PTL
============================================================================
