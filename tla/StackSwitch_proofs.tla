------------------------ MODULE StackSwitch_proofs ------------------------
(***************************************************************************)
(* Theorems about startup and exit, for every length of the lists of       *)
(* handlers, every depth of the program's code and every number of         *)
(* registrations.                                                          *)
(*                                                                         *)
(* HandlersRunOnce says nothing of the handlers still to come.  ListInv    *)
(* does: those listed from head and slot on are the ones not yet started,  *)
(* in the order of their registration, so that the last of them is the     *)
(* last registered.                                                        *)
(***************************************************************************)
EXTENDS StackSwitch, SequenceTheorems, TLAPS

----------------------------------------------------------------------------
(* The processes and the list *)

ProcInv ==
  /\ TypeOK
  /\ At("run") => This.depth \in 1..MaxDepth
  /\ chain # <<>> => chain[1].at # "run"
  /\ head # 0 => slot \in 0..COUNT
  /\ At("init") => head = 0
  /\ At("init") \/ (At("run") /\ head = 0) => slot = 0 /\ registered = 0
  /\ At("fini") \/ (chain = <<>> /\ status # Undefined) => head = 0

LEMMA Constants ==
  /\ COUNT \in Nat /\ COUNT >= 1 /\ MaxDepth \in Nat /\ MaxDepth >= 1 /\ MaxRegs \in Nat
  /\ Codes \subseteq Nat
BY ConstantsAssumption

LEMMA LastProc ==
  ASSUME chain \in Seq(Proc), chain # <<>>
  PROVE  /\ Me \in Nat \ {0} /\ DOMAIN chain = 1..Me /\ Me \in 1..Me
         /\ This \in Proc
         /\ This.job \in Job /\ This.at \in Phase /\ This.depth \in 0..(MaxDepth + 1)
         /\ This.code \in Nat
<1>1. Me \in Nat \ {0} /\ DOMAIN chain = 1..Me
  BY EmptySeq, LenProperties DEF Me
<1>2. This \in Proc
  BY <1>1, ElementOfSeq DEF This, Me
<1> QED
  BY <1>1, <1>2 DEF Proc

\* A process may write a frame.
LEMMA FrameWritten ==
  ASSUME stack \in [1..(MaxDepth + 1) -> Nat], NEW d, NEW k \in Nat,
         stack' = [stack EXCEPT ![d] = k]
  PROVE  stack' \in [1..(MaxDepth + 1) -> Nat]
OBVIOUS

\* The running process goes on.
LEMMA BecomesProc ==
  ASSUME chain \in Seq(Proc), chain # <<>>, NEW p \in Proc, Becomes(p)
  PROVE  /\ chain' \in Seq(Proc) /\ chain' # <<>>
         /\ Me' = Me /\ This' = p
         /\ \A k \in 1..Me : k # Me => chain'[k] = chain[k]
<1>1. Me \in Nat \ {0} /\ DOMAIN chain = 1..Me /\ Me \in 1..Me /\ Me = Len(chain)
  BY LastProc DEF Me
<1>2. chain' = [chain EXCEPT ![Len(chain)] = p]
  BY DEF Becomes, Me
<1>3. chain' \in Seq(Proc) /\ Len(chain') = Len(chain) /\ chain'[Len(chain)] = p
  BY <1>1, <1>2, ExceptSeq
<1>4. chain' # <<>>
  BY <1>1, <1>3, EmptySeq
<1>5. \A k \in 1..Me : k # Me => chain'[k] = chain[k]
  BY <1>1, <1>2
<1> QED
  BY <1>3, <1>4, <1>5 DEF Me, This

\* It waits for a clone.
LEMMA CloneProc ==
  ASSUME chain \in Seq(Proc), chain # <<>>, NEW job \in Job, NEW phase \in Phase,
         Clone(job, phase)
  PROVE  /\ chain' \in Seq(Proc) /\ chain' # <<>>
         /\ Me \in Nat \ {0} /\ Me' = Me + 1
         /\ This' = [job |-> job, at |-> "run", depth |-> 1, code |-> 0]
         /\ chain'[Me] = [This EXCEPT !.at = phase]
         /\ \A k \in 1..Me : k # Me => chain'[k] = chain[k]
<1> DEFINE p == [This EXCEPT !.at = phase]
           new == [job |-> job, at |-> "run", depth |-> 1, code |-> 0]
           rest == [chain EXCEPT ![Len(chain)] = p]
<1>1. /\ Me \in Nat \ {0} /\ DOMAIN chain = 1..Me /\ Me \in 1..Me /\ Me = Len(chain)
      /\ This \in Proc
  BY LastProc DEF Me
<1>2. p \in Proc
  BY <1>1 DEF Proc
<1>3. new \in Proc
  BY Constants DEF Proc, Phase
<1>4. chain' = Append(rest, new)
  <2>1. [chain EXCEPT ![Me].at = phase] = rest
    BY DEF This, Me
  <2> QED
    BY <2>1 DEF Clone
<1> HIDE DEF p, new
<1>5. rest \in Seq(Proc) /\ Len(rest) = Len(chain) /\ rest[Len(chain)] = p
  BY <1>1, <1>2, ExceptSeq
<1>6. \A k \in 1..Me : k # Me => rest[k] = chain[k]
  BY <1>1
<1> HIDE DEF rest
<1>7. /\ chain' \in Seq(Proc) /\ Len(chain') = Me + 1 /\ chain'[Me + 1] = new
      /\ \A k \in 1..Me : chain'[k] = rest[k]
  BY <1>1, <1>3, <1>4, <1>5, AppendProperties
<1>8. chain' # <<>>
  BY <1>1, <1>7, EmptySeq
<1> QED
  BY <1>1, <1>5, <1>6, <1>7, <1>8 DEF Me, This, p, new

LEMMA ExitStatus ==
  ASSUME NEW s \in Nat
  PROVE  WEXITSTATUS(s) \in Nat /\ Exited(s) \in Nat
BY DEF WEXITSTATUS, Exited

\* It dies, and the one that waits for it goes on.
LEMMA DiesProc ==
  ASSUME chain \in Seq(Proc), chain # <<>>, NEW s \in Nat, Dies(s)
  PROVE  \/ Me = 1 /\ chain' = <<>> /\ chain' \in Seq(Proc) /\ status' = s
         \/ /\ Me \in Nat /\ Me > 1 /\ chain' \in Seq(Proc) /\ chain' # <<>>
            /\ Me' = Me - 1 /\ status' = status
            /\ This' = IF chain[Me - 1].at = "waitMain"
                       THEN [chain[Me - 1] EXCEPT !.at = "list", !.code = WEXITSTATUS(s)]
                       ELSE [chain[Me - 1] EXCEPT !.at = "slots"]
            /\ chain[Me - 1] \in Proc
            /\ This'.at \in {"list", "slots"}
            /\ \A k \in 1..(Me - 2) : chain'[k] = chain[k]
<1>1. Me \in Nat \ {0} /\ DOMAIN chain = 1..Me /\ Me = Len(chain)
  BY LastProc DEF Me
<1>2. CASE Me = 1
  BY <1>2, EmptySeq DEF Dies
<1>3. CASE Me # 1
  <2> DEFINE p == chain[Me - 1]
             q == IF p.at = "waitMain" THEN [p EXCEPT !.at = "list", !.code = WEXITSTATUS(s)]
                  ELSE [p EXCEPT !.at = "slots"]
             n == Me - 2
             cut == SubSeq(chain, 1, n)
  <2>1. chain' = Append(cut, q) /\ status' = status
    BY <1>3 DEF Dies
  <2>2. p \in Proc
    BY <1>1, <1>3, ElementOfSeq
  <2>3. q \in Proc /\ q.at \in {"list", "slots"}
    BY <2>2, ExitStatus DEF Proc, Phase
  <2>4. n \in Nat /\ n <= Len(chain) /\ n + 1 = Me - 1
    BY <1>1, <1>3
  <2>5. n - 1 + 1 = n /\ \A k \in 1..n : 1 + k - 1 = k
    BY <2>4
  <2>6. cut \in Seq(Proc) /\ Len(cut) = n /\ \A k \in 1..n : cut[k] = chain[k]
    <3>1. CASE n = 0
      <4>1. cut = <<>>
        BY <3>1
      <4> QED
        BY <3>1, <4>1, EmptySeq
    <3>2. CASE n # 0
      <4>1. \A k \in 1..n : chain[k] \in Proc
        BY <1>1, <2>4, ElementOfSeq
      <4> HIDE DEF n
      <4> QED
        BY <2>4, <2>5, <3>2, <4>1, SubSeqProperties
    <3> QED
      BY <3>1, <3>2
  <2> HIDE DEF q, cut
  <2>7. /\ chain' \in Seq(Proc) /\ Len(chain') = n + 1 /\ chain'[n + 1] = q
        /\ \A k \in 1..n : chain'[k] = cut[k]
    BY <2>1, <2>3, <2>6, AppendProperties
  <2>8. chain' # <<>>
    BY <2>4, <2>7, EmptySeq
  <2>9. Me' = Me - 1 /\ This' = q
    BY <2>4, <2>7 DEF Me, This
  <2> QED
    BY <1>1, <1>3, <2>1, <2>2, <2>3, <2>6, <2>7, <2>8, <2>9 DEF q
<1> QED
  BY <1>2, <1>3

LEMMA InitProc == Init => ProcInv
<1> SUFFICES ASSUME Init PROVE ProcInv
  OBVIOUS
<1> DEFINE p == [job |-> "start", at |-> "init", depth |-> 0, code |-> 0]
<1>1. p \in Proc
  BY Constants DEF Proc, Phase, Job
<1>2. chain = <<p>> /\ chain \in Seq(Proc) /\ chain # <<>> /\ This.at = "init" /\ chain[1].at = "init"
  BY <1>1 DEF Init, This, Me
<1>3. lists \in Seq([1..COUNT -> 0..MaxRegs]) \ {<<>>} /\ Len(lists) = 1
  <2>1. [n \in 1..COUNT |-> 0] \in [1..COUNT -> 0..MaxRegs]
    BY Constants
  <2> QED
    BY <2>1 DEF Init
<1>4. ran \in Seq(Nat)
  BY EmptySeq DEF Init
<1>5. stack \in [1..(MaxDepth + 1) -> Nat]
  BY DEF Init
<1>6. head \in 0..Len(lists) /\ slot \in Int /\ slot <= COUNT /\ registered \in 0..MaxRegs
  BY <1>3, Constants DEF Init
<1>7. /\ status \in Nat \cup {Running, Undefined} /\ wanted \in Nat \cup {Running}
      /\ finis \in Nat /\ left \in BOOLEAN
  BY DEF Init
<1>8. TypeOK
  BY <1>2, <1>3, <1>4, <1>5, <1>6, <1>7 DEF TypeOK
<1> QED
  BY <1>2, <1>8 DEF Init, ProcInv, At

\* The steps that leave the lists alone.
ListsStay == UNCHANGED <<lists, head, slot, registered, ran>>

LEMMA StartMainProc ==
  ASSUME ProcInv, StartMain
  PROVE  ProcInv'
<1>1. /\ chain \in Seq(Proc) /\ chain # <<>> /\ Clone("main", "waitMain") /\ This.at = "init"
      /\ ListsStay /\ UNCHANGED <<status, finis, wanted, left>>
      /\ Me \in Nat \ {0} /\ This \in Proc
  BY LastProc DEF ProcInv, TypeOK, StartMain, At, ListsStay
<1>2. /\ chain' \in Seq(Proc) /\ chain' # <<>> /\ Me' = Me + 1
      /\ This' = [job |-> "main", at |-> "run", depth |-> 1, code |-> 0]
      /\ chain'[Me] = [This EXCEPT !.at = "waitMain"]
      /\ \A k \in 1..Me : k # Me => chain'[k] = chain[k]
  BY <1>1, CloneProc DEF Job, Phase
<1>3. stack' \in [1..(MaxDepth + 1) -> Nat]
  <2>1. stack' = [stack EXCEPT ![1] = Me + 1] /\ Me + 1 \in Nat
    BY <1>1 DEF Clone
  <2> QED
    BY <2>1, FrameWritten DEF ProcInv, TypeOK
<1>4. chain'[1].at # "run"
  <2>1. CASE Me = 1
    BY <1>1, <1>2, <2>1 DEF Proc
  <2>2. CASE Me # 1
    <3>1. chain'[1] = chain[1]
      BY <1>1, <1>2, <2>2
    <3> QED
      BY <1>1, <3>1 DEF ProcInv
  <2> QED
    BY <2>1, <2>2
<1>5. TypeOK'
  BY <1>1, <1>2, <1>3 DEF ProcInv, TypeOK, ListsStay
<1> QED
  BY <1>1, <1>2, <1>4, <1>5, Constants DEF ProcInv, At, ListsStay

\* A process that goes on, and is in its own code only if it was before.
LEMMA BecomesInv ==
  ASSUME ProcInv, chain # <<>>, NEW p \in Proc, Becomes(p), TypeOK',
         p.at = "run" => /\ At("run") /\ p.depth \in 1..MaxDepth
                         /\ head' = 0 => slot' = 0 /\ registered' = 0,
         p.at \in {"run", "list", "slots", "fini"},
         p.at = "fini" => head' = 0,
         head' # 0 => slot' \in 0..COUNT
  PROVE  ProcInv'
<1>1. chain \in Seq(Proc)
  BY DEF ProcInv, TypeOK
<1>2. /\ chain' # <<>> /\ Me' = Me /\ This' = p
      /\ \A k \in 1..Me : k # Me => chain'[k] = chain[k]
  BY <1>1, BecomesProc
<1>3. Me \in Nat \ {0}
  BY <1>1, LastProc
<1>4. chain'[1].at # "run"
  <2>1. CASE Me = 1
    <3>1. chain'[1] = p /\ chain[1] = This
      BY <1>2, <2>1 DEF This
    <3> QED
      BY <3>1 DEF ProcInv, At
  <2>2. CASE Me # 1
    BY <1>2, <1>3, <2>2 DEF ProcInv
  <2> QED
    BY <2>1, <2>2
<1> QED
  BY <1>2, <1>4 DEF ProcInv, At

LEMMA CodeProc ==
  ASSUME ProcInv, Call \/ Return
  PROVE  ProcInv'
<1>1. /\ chain \in Seq(Proc) /\ chain # <<>> /\ This.at = "run" /\ At("run")
      /\ ListsStay /\ UNCHANGED <<status, finis, wanted, left>>
      /\ This \in Proc /\ This.depth \in 1..MaxDepth /\ Me \in Nat
  BY LastProc DEF ProcInv, TypeOK, Call, Return, At, ListsStay
<1>2. PICK p : /\ Becomes(p)
               /\ \/ p = [This EXCEPT !.depth = This.depth + 1] /\ This.depth < MaxDepth
                  \/ p = [This EXCEPT !.depth = This.depth - 1] /\ This.depth > 1
  BY DEF Call, Return
<1>3. p \in Proc /\ p.at = "run" /\ p.depth \in 1..MaxDepth
  <2>1. ASSUME NEW d \in 1..MaxDepth
        PROVE  /\ [This EXCEPT !.depth = d] \in Proc
               /\ [This EXCEPT !.depth = d].at = "run" /\ [This EXCEPT !.depth = d].depth = d
    <3>1. d \in 0..(MaxDepth + 1)
      BY Constants
    <3>2. This \in Proc /\ This.at = "run"
      BY <1>1
    <3> QED
      BY <3>1, <3>2 DEF Proc
  <2>2. CASE This.depth < MaxDepth /\ p = [This EXCEPT !.depth = This.depth + 1]
    <3>1. This.depth + 1 \in 1..MaxDepth
      BY <1>1, <2>2, Constants
    <3> QED
      BY <2>1, <2>2, <3>1
  <2>3. CASE This.depth > 1 /\ p = [This EXCEPT !.depth = This.depth - 1]
    <3>1. This.depth - 1 \in 1..MaxDepth
      BY <1>1, <2>3, Constants
    <3> QED
      BY <2>1, <2>3, <3>1
  <2> QED
    BY <1>2, <2>2, <2>3
<1>4. stack' \in [1..(MaxDepth + 1) -> Nat]
  <2>1. stack \in [1..(MaxDepth + 1) -> Nat]
    BY DEF ProcInv, TypeOK
  <2> QED
    BY <1>1, <2>1, FrameWritten DEF Call, Return
<1>5. chain' \in Seq(Proc)
  BY <1>1, <1>2, <1>3, BecomesProc
<1>6. TypeOK'
  BY <1>1, <1>4, <1>5 DEF ProcInv, TypeOK, ListsStay
<1> QED
  BY <1>1, <1>2, <1>3, <1>6, BecomesInv DEF ProcInv, ListsStay, At

LEMMA CodeExitsProc ==
  ASSUME ProcInv, CodeExits
  PROVE  ProcInv'
<1>1. /\ chain \in Seq(Proc) /\ chain # <<>> /\ This.at = "run"
      /\ ListsStay /\ UNCHANGED <<status, finis>> /\ left' = TRUE
      /\ This \in Proc /\ This.depth \in 1..MaxDepth /\ Me \in Nat
  BY LastProc DEF ProcInv, TypeOK, CodeExits, At, ListsStay
<1>2. PICK c \in Codes :
        /\ Becomes([This EXCEPT !.at = "list", !.code = c, !.depth = This.depth + 1])
        /\ wanted' = IF This.job = "main" THEN Exited(c) ELSE wanted
  BY DEF CodeExits
<1> DEFINE p == [This EXCEPT !.at = "list", !.code = c, !.depth = This.depth + 1]
<1>3. p \in Proc /\ p.at = "list" /\ c \in Nat
  <2>1. c \in Nat /\ This.depth + 1 \in 0..(MaxDepth + 1)
    BY <1>1, Constants
  <2> QED
    BY <1>1, <2>1 DEF Proc, Phase
<1>4. stack' \in [1..(MaxDepth + 1) -> Nat] /\ wanted' \in Nat \cup {Running}
  <2>1. stack \in [1..(MaxDepth + 1) -> Nat] /\ wanted \in Nat \cup {Running}
    BY DEF ProcInv, TypeOK
  <2>2. stack' = [stack EXCEPT ![This.depth + 1] = Me]
    BY DEF CodeExits
  <2> QED
    BY <1>1, <1>2, <1>3, <2>1, <2>2, FrameWritten, ExitStatus
<1> HIDE DEF p
<1>5. Becomes(p)
  BY <1>2 DEF p
<1>6. chain' \in Seq(Proc)
  BY <1>1, <1>3, <1>5, BecomesProc
<1>7. TypeOK'
  BY <1>1, <1>4, <1>6 DEF ProcInv, TypeOK, ListsStay
<1> QED
  BY <1>1, <1>3, <1>5, <1>7, BecomesInv DEF ProcInv, ListsStay

\* A process that dies, wherever it is: the first one only with an empty list.
LEMMA DiesInv ==
  ASSUME ProcInv, chain # <<>>, NEW s \in Nat, Dies(s), stack' = stack,
         wanted' \in Nat \cup {Running}, left' \in BOOLEAN,
         UNCHANGED <<lists, head, registered, ran>>,
         finis' \in Nat,
         slot' = slot \/ (head = 0 /\ slot' = slot - 1),
         Me = 1 => head = 0
  PROVE  ProcInv'
<1>1. chain \in Seq(Proc)
  BY DEF ProcInv, TypeOK
<1>2. chain' \in Seq(Proc) /\ status' \in Nat \cup {Running, Undefined}
  BY <1>1, DiesProc DEF ProcInv, TypeOK
<1>3. slot' \in Int /\ slot' <= COUNT
  <2>1. slot \in Int /\ slot <= COUNT
    BY DEF ProcInv, TypeOK
  <2>2. slot' = slot \/ slot' = slot - 1
    OBVIOUS
  <2> QED
    BY <2>1, <2>2, Constants
<1>4. TypeOK'
  BY <1>2, <1>3 DEF ProcInv, TypeOK
<1>5. CASE chain' = <<>>
  <2>1. Me = 1
    BY <1>1, <1>5, DiesProc
  <2> QED
    BY <1>4, <1>5, <2>1 DEF ProcInv, At
<1>6. CASE chain' # <<>>
  <2>1. /\ Me \in Nat /\ Me > 1 /\ Me' = Me - 1
        /\ This'.at \in {"list", "slots"}
        /\ \A k \in 1..(Me - 2) : chain'[k] = chain[k]
    BY <1>1, <1>6, DiesProc
  <2>2. chain'[1].at # "run"
    <3>1. CASE Me = 2
      BY <2>1, <3>1 DEF This
    <3>2. CASE Me # 2
      BY <2>1, <3>2 DEF ProcInv
    <3> QED
      BY <3>1, <3>2
  <2> QED
    BY <1>4, <1>6, <2>1, <2>2 DEF ProcInv, At
<1> QED
  BY <1>5, <1>6

\* A program of which nothing more is known: its chain is empty.
LEMMA EndsUndefined ==
  ASSUME ProcInv, chain' = <<>>, status' = Undefined, stack' = stack,
         UNCHANGED <<lists, head, slot, registered, ran>>,
         wanted' \in Nat \cup {Running}, left' \in BOOLEAN, finis' \in Nat
  PROVE  ProcInv'
<1>1. chain' \in Seq(Proc)
  BY EmptySeq
<1>2. TypeOK'
  BY <1>1 DEF ProcInv, TypeOK
<1> QED
  BY <1>2 DEF ProcInv, At

LEMMA FirstIsNotRunning ==
  ASSUME ProcInv, At("run")
  PROVE  Me # 1
BY DEF ProcInv, At, This

LEMMA CodeEndsProc ==
  ASSUME ProcInv, CodeReturns \/ CodeAborts
  PROVE  ProcInv'
<1>1. /\ chain # <<>> /\ Me # 1
      /\ stack' = stack /\ slot' = slot
      /\ UNCHANGED <<lists, head, registered, ran, finis>>
      /\ finis' \in Nat
  BY FirstIsNotRunning DEF ProcInv, TypeOK, CodeReturns, CodeAborts, At
<1>2. left' \in BOOLEAN
  BY DEF ProcInv, TypeOK, CodeReturns, CodeAborts
<1>3. CASE CodeReturns
  <2>1. PICK c \in Codes :
          /\ Dies(Exited(c))
          /\ wanted' = IF This.job = "main" THEN Exited(c) ELSE wanted
    BY <1>3 DEF CodeReturns
  <2>2. Exited(c) \in Nat
    BY Constants, ExitStatus
  <2>3. wanted' \in Nat \cup {Running}
    BY <2>1, <2>2 DEF ProcInv, TypeOK
  <2> QED
    BY <1>1, <1>2, <2>1, <2>2, <2>3, DiesInv
<1>4. CASE CodeAborts
  <2>1. Dies(SIGABRT) /\ SIGABRT \in Nat /\ wanted' \in Nat \cup {Running}
    BY <1>4 DEF CodeAborts, SIGABRT, ProcInv, TypeOK
  <2> QED
    BY <1>1, <1>2, <2>1, DiesInv
<1> QED
  BY <1>3, <1>4

LEMMA LoopDiesProc ==
  ASSUME ProcInv, NullHead \/ FrameOfExitLost \/ Finish
  PROVE  ProcInv'
<1>1. /\ chain # <<>> /\ chain \in Seq(Proc) /\ stack' = stack
      /\ UNCHANGED <<lists, head, registered, ran>>
      /\ wanted' \in Nat \cup {Running} /\ left' \in BOOLEAN /\ finis' \in Nat
      /\ SIGSEGV \in Nat /\ This.code \in Nat
  BY LastProc DEF ProcInv, TypeOK, NullHead, FrameOfExitLost, Finish, At, SIGSEGV
<1>2. CASE NullHead
  BY <1>1, <1>2, DiesInv DEF NullHead
<1>3. CASE FrameOfExitLost
  <2>1. Me # 1 /\ slot' = slot /\ finis' = finis
    BY <1>1, <1>3, LastProc DEF FrameOfExitLost
  <2>2. CASE Dies(SIGSEGV)
    BY <1>1, <2>1, <2>2, DiesInv
  <2>3. CASE chain' = <<>> /\ status' = Undefined
    BY <1>1, <2>1, <2>3, EndsUndefined
  <2> QED
    BY <1>3, <2>2, <2>3 DEF FrameOfExitLost
<1>4. CASE Finish
  <2>1. Dies(Exited(This.code)) /\ Exited(This.code) \in Nat /\ head = 0 /\ slot' = slot
    BY <1>1, <1>4, ExitStatus DEF Finish, ProcInv
  <2> QED
    BY <1>1, <2>1, DiesInv
<1> QED
  BY <1>2, <1>3, <1>4

LEMMA LoopProc ==
  ASSUME ProcInv, EnterList \/ LeaveList
  PROVE  ProcInv'
<1>1. /\ chain # <<>> /\ chain \in Seq(Proc) /\ This \in Proc
      /\ UNCHANGED <<stack, lists, status, registered, ran, finis, wanted, left>>
  BY LastProc DEF ProcInv, TypeOK, EnterList, LeaveList, At
<1>2. PICK p : /\ Becomes(p)
               /\ \E a \in {"list", "slots", "fini"} : p = [This EXCEPT !.at = a]
               /\ p.at = "fini" => EnterList /\ head = 0
  <2>1. CASE EnterList
    <3>1. CASE head = 0
      <4>1. /\ Becomes([This EXCEPT !.at = "fini"])
            /\ [This EXCEPT !.at = "fini"].at = "fini"
        BY <1>1, <2>1, <3>1 DEF EnterList, Proc
      <4> QED
        BY <2>1, <3>1, <4>1
    <3>2. CASE head # 0
      <4>1. /\ Becomes([This EXCEPT !.at = "slots"])
            /\ [This EXCEPT !.at = "slots"].at = "slots"
        BY <1>1, <2>1, <3>2 DEF EnterList, Proc
      <4> QED
        BY <4>1
    <3> QED
      BY <3>1, <3>2
  <2>2. CASE LeaveList
    <3>1. Becomes([This EXCEPT !.at = "list"]) /\ [This EXCEPT !.at = "list"].at = "list"
      BY <1>1, <2>2 DEF LeaveList, Proc
    <3> QED
      BY <3>1
  <2> QED
    BY <2>1, <2>2
<1>3. p \in Proc /\ p.at \in {"list", "slots", "fini"}
  BY <1>1, <1>2 DEF Proc, Phase
<1>4. chain' \in Seq(Proc)
  BY <1>1, <1>2, <1>3, BecomesProc
<1>5. /\ head' \in 0..Len(lists') /\ slot' \in Int /\ slot' <= COUNT
      /\ head' # 0 => slot' \in 0..COUNT
      /\ p.at = "fini" => head' = 0
  <2>1. Len(lists) \in Nat
    BY LenProperties DEF ProcInv, TypeOK
  <2> QED
    BY <1>2, <2>1, Constants DEF EnterList, LeaveList, ProcInv, TypeOK
<1>6. TypeOK'
  BY <1>1, <1>4, <1>5 DEF ProcInv, TypeOK
<1> QED
  BY <1>1, <1>2, <1>3, <1>5, <1>6, BecomesInv

LEMMA ListEntry ==
  ASSUME TypeOK, NEW k \in 1..Len(lists)
  PROVE  lists[k] \in [1..COUNT -> 0..MaxRegs]
BY ElementOfSeq DEF TypeOK

LEMMA RunHandlerProc ==
  ASSUME ProcInv, RunHandler
  PROVE  ProcInv'
<1>1. /\ chain \in Seq(Proc) /\ chain # <<>> /\ Clone("handler", "waitHandler")
      /\ This.at = "slots" /\ This \in Proc /\ Me \in Nat \ {0}
      /\ UNCHANGED <<lists, head, status, registered, finis, wanted, left>>
      /\ head # 0 /\ slot' = slot - 1 /\ slot \in 1..COUNT
      /\ ran' = Append(ran, lists[head][slot])
  BY LastProc, Constants DEF ProcInv, TypeOK, RunHandler, At
<1>2. /\ chain' \in Seq(Proc) /\ chain' # <<>> /\ Me' = Me + 1
      /\ This' = [job |-> "handler", at |-> "run", depth |-> 1, code |-> 0]
      /\ chain'[Me] = [This EXCEPT !.at = "waitHandler"]
      /\ \A k \in 1..Me : k # Me => chain'[k] = chain[k]
  BY <1>1, CloneProc DEF Job, Phase
<1>3. stack' \in [1..(MaxDepth + 1) -> Nat]
  <2>1. stack' = [stack EXCEPT ![1] = Me + 1] /\ Me + 1 \in Nat
    BY <1>1 DEF Clone
  <2> QED
    BY <2>1, FrameWritten DEF ProcInv, TypeOK
<1>4. chain'[1].at # "run"
  <2>1. CASE Me = 1
    BY <1>1, <1>2, <2>1 DEF Proc
  <2>2. CASE Me # 1
    <3>1. chain'[1] = chain[1]
      BY <1>1, <1>2, <2>2
    <3> QED
      BY <1>1, <3>1 DEF ProcInv
  <2> QED
    BY <2>1, <2>2
<1>5. ran' \in Seq(Nat)
  <2>1. head \in 1..Len(lists)
    BY <1>1, LenProperties DEF ProcInv, TypeOK
  <2>2. lists[head][slot] \in Nat
    BY <1>1, <2>1, ListEntry, Constants DEF ProcInv
  <2> QED
    BY <1>1, <2>2, AppendProperties DEF ProcInv, TypeOK
<1>6. slot' \in Int /\ slot' <= COUNT /\ slot' \in 0..COUNT
  BY <1>1, Constants
<1>7. TypeOK'
  BY <1>1, <1>2, <1>3, <1>5, <1>6 DEF ProcInv, TypeOK
<1> QED
  BY <1>1, <1>2, <1>4, <1>6, <1>7, Constants DEF ProcInv, At

\* A registration either fills the next slot of the list head points to, or
\* starts a new list.
LEMMA Registers ==
  ASSUME ProcInv, cxa_atexit
  PROVE  /\ registered' = registered + 1 /\ registered' \in 1..MaxRegs
         /\ chain' = chain /\ At("run") /\ ran' = ran /\ registered \in Nat
         /\ lists' \in Seq([1..COUNT -> 0..MaxRegs]) \ {<<>>}
         /\ head' \in 1..Len(lists') /\ slot' \in 1..COUNT
         /\ lists'[head'][slot'] = registered'
         /\ \/ /\ head # 0 /\ slot = COUNT /\ head' = head + 1 /\ slot' = 1
               /\ \A k \in 1..head : lists'[k] = lists[k]
            \/ /\ head' = IF head = 0 THEN 1 ELSE head
               /\ slot \in 0..(COUNT - 1) /\ slot' = slot + 1
               /\ \A k \in 1..(head' - 1) : lists'[k] = lists[k]
               /\ \A n \in 1..slot : lists'[head'][n] = lists[head'][n]
<1> DEFINE L == [1..COUNT -> 0..MaxRegs]
           first == IF head = 0 THEN 1 ELSE head
<1>1. /\ At("run") /\ registered \in 0..MaxRegs /\ registered < MaxRegs
      /\ registered' = registered + 1 /\ chain' = chain /\ ran' = ran
      /\ lists \in Seq(L) \ {<<>>} /\ Len(lists) \in Nat \ {0} /\ DOMAIN lists = 1..Len(lists)
      /\ head \in 0..Len(lists)
      /\ head = 0 => slot = 0
      /\ slot \in 0..COUNT
  BY EmptySeq, LenProperties, Constants DEF ProcInv, TypeOK, cxa_atexit
<1>2. registered' \in 1..MaxRegs
  BY <1>1, Constants
<1>3. first \in 1..Len(lists) /\ lists[first] \in L
  <2>1. first \in 1..Len(lists)
    BY <1>1
  <2> QED
    BY <2>1, ListEntry DEF ProcInv
<1> HIDE DEF first
<1>4. CASE slot = COUNT
  <2>1. head # 0 /\ first = head
    BY <1>1, <1>4, Constants DEF first
  <2> DEFINE new == [n \in 1..COUNT |-> IF n = 1 THEN registered + 1 ELSE 0]
             cut == SubSeq(lists, 1, first)
  <2>2. lists' = Append(cut, new) /\ head' = first + 1 /\ slot' = 1
    BY <1>4 DEF cxa_atexit, first
  <2>3. new \in L /\ new[1] = registered'
    BY <1>1, <1>2, Constants
  <2>4. \A k \in 1..first : lists[k] \in L
    BY <1>1, <1>3, ElementOfSeq
  <2>5. first \in Nat /\ first - 1 + 1 = first /\ \A k \in 1..first : 1 + k - 1 = k
    BY <1>1, <1>3
  <2>6. cut \in Seq(L) /\ Len(cut) = first /\ \A k \in 1..first : cut[k] = lists[k]
    BY <1>1, <1>3, <2>4, <2>5, SubSeqProperties
  <2> HIDE DEF new, cut, L
  <2>7. /\ lists' \in Seq(L) /\ Len(lists') = first + 1 /\ lists'[first + 1] = new
        /\ \A k \in 1..first : lists'[k] = cut[k]
    BY <2>2, <2>3, <2>6, AppendProperties
  <2>8. lists' # <<>>
    BY <2>5, <2>7, EmptySeq
  <2> QED
    BY <1>1, <1>2, <1>4, <2>1, <2>2, <2>3, <2>5, <2>6, <2>7, <2>8, Constants DEF L
<1>5. CASE slot # COUNT
  <2> DEFINE new == [lists[first] EXCEPT ![slot + 1] = registered + 1]
  <2>1. lists' = [lists EXCEPT ![first] = new] /\ head' = first /\ slot' = slot + 1
    BY <1>5 DEF cxa_atexit, first
  <2>2. slot + 1 \in 1..COUNT
    BY <1>1, <1>5, Constants
  <2>3. /\ new \in L /\ new[slot + 1] = registered'
        /\ \A n \in 1..slot : new[n] = lists[first][n]
    BY <1>1, <1>2, <1>3, <2>2
  <2> HIDE DEF new
  <2>4. /\ lists' \in Seq(L) /\ Len(lists') = Len(lists) /\ lists'[first] = new
        /\ \A k \in 1..Len(lists) : k # first => lists'[k] = lists[k]
    BY <1>1, <1>3, <2>1, <2>3, ExceptSeq
  <2>5. lists' # <<>>
    BY <1>1, <2>4, EmptySeq
  <2>6. \A k \in 1..(first - 1) : k \in 1..Len(lists) /\ k # first
    BY <1>1, <1>3
  <2> QED
    BY <1>1, <1>2, <1>3, <1>5, <2>1, <2>2, <2>3, <2>4, <2>5, <2>6, Constants DEF first
<1> QED
  BY <1>4, <1>5

LEMMA RegisterProc ==
  ASSUME ProcInv, cxa_atexit
  PROVE  ProcInv'
<1>1. /\ registered' \in 1..MaxRegs /\ chain' = chain /\ At("run") /\ ran' = ran
      /\ lists' \in Seq([1..COUNT -> 0..MaxRegs]) \ {<<>>}
      /\ head' \in 1..Len(lists') /\ slot' \in 1..COUNT
      /\ UNCHANGED <<stack, status, finis, wanted, left>>
  BY Registers DEF cxa_atexit
<1>2. Len(lists') \in Nat
  BY <1>1, LenProperties
<1>3. TypeOK'
  <2>1. /\ head' \in 0..Len(lists') /\ slot' \in Int /\ slot' <= COUNT
        /\ registered' \in 0..MaxRegs
    BY <1>1, <1>2, Constants
  <2> QED
    BY <1>1, <2>1 DEF ProcInv, TypeOK
<1>4. chain # <<>> /\ This.at = "run" /\ This' = This
  BY <1>1 DEF At, This, Me
<1> QED
  BY <1>1, <1>2, <1>3, <1>4, Constants DEF ProcInv, At

LEMMA StillProc ==
  ASSUME ProcInv, UNCHANGED vars
  PROVE  ProcInv'
BY DEF vars, ProcInv, TypeOK, At, This, Me

LEMMA NextProc == ProcInv /\ [Next]_vars => ProcInv'
BY StartMainProc, CodeProc, RegisterProc, CodeEndsProc, CodeExitsProc, LoopProc,
   RunHandlerProc, LoopDiesProc, StillProc DEF Next, Ended

LEMMA ProcInvariance == Spec => []ProcInv
BY InitProc, NextProc, PTL DEF Spec

\* Type correctness: head never points outside the lists, and no process is
\* deeper than the code has called.
THEOREM TypeCorrect == Spec => []TypeOK
<1>1. ProcInv => TypeOK
  BY DEF ProcInv
<1> QED
  BY <1>1, ProcInvariance, PTL

----------------------------------------------------------------------------
(* The handlers *)

Listed(k, n) == k \in 1..head /\ n \in 1..COUNT /\ (k = head => n <= slot)

Before(j, m, k, n) == j < k \/ (j = k /\ m < n)

ListInv ==
  /\ \A k, n : Listed(k, n) => lists[k][n] \in 1..registered
  /\ \A j, m, k, n : Listed(j, m) /\ Listed(k, n) /\ Before(j, m, k, n)
                       => lists[j][m] < lists[k][n]
  /\ Ran \subseteq 1..registered
  /\ \A h \in 1..registered : h \in Ran <=> ~\E k, n : Listed(k, n) /\ lists[k][n] = h
  /\ \A j, k \in DOMAIN ran : ran[j] = ran[k] => j = k

LEMMA InitList == Init => ListInv
BY DEF Init, ListInv, Listed, Ran

\* The history with one more handler.
LEMMA RanGrows ==
  ASSUME ran \in Seq(Nat), NEW h \in Nat, ran' = Append(ran, h)
  PROVE  /\ Ran' = Ran \cup {h}
         /\ DOMAIN ran' \ DOMAIN ran = {Len(ran) + 1} /\ ran'[Len(ran) + 1] = h
         /\ DOMAIN ran' = DOMAIN ran \cup {Len(ran) + 1}
         /\ \A k \in DOMAIN ran : ran'[k] = ran[k]
<1>1. /\ Len(ran) \in Nat /\ DOMAIN ran = 1..Len(ran)
      /\ DOMAIN ran' = 1..(Len(ran) + 1) /\ ran'[Len(ran) + 1] = h
      /\ \A k \in 1..Len(ran) : ran'[k] = ran[k]
  BY AppendProperties, LenProperties
<1>2. DOMAIN ran' = DOMAIN ran \cup {Len(ran) + 1} /\ Len(ran) + 1 \notin DOMAIN ran
  BY <1>1
<1> QED
  BY <1>1, <1>2 DEF Ran

LEMMA StillList ==
  ASSUME ListInv, ListsStay
  PROVE  ListInv'
BY DEF ListInv, ListsStay, Listed, Before, Ran

\* A registration adds the last of the listed handlers.
LEMMA RegisterListed ==
  ASSUME ProcInv, cxa_atexit
  PROVE  /\ \A k, n : Listed(k, n)' <=> Listed(k, n) \/ (k = head' /\ n = slot')
         /\ \A k, n : Listed(k, n) => /\ lists'[k][n] = lists[k][n]
                                      /\ Before(k, n, head', slot')
<1>1. /\ COUNT \in Nat /\ COUNT >= 1 /\ head' \in Nat /\ slot' \in 1..COUNT
      /\ head \in Nat /\ slot \in 0..COUNT
  <2>1. Len(lists) \in Nat /\ Len(lists') \in Nat
    BY Registers, LenProperties DEF ProcInv, TypeOK
  <2>2. head \in 0..Len(lists) /\ slot \in Int /\ slot <= COUNT
    BY DEF ProcInv, TypeOK
  <2>3. (head = 0 => slot = 0) /\ (head # 0 => slot \in 0..COUNT)
    BY Registers DEF ProcInv
  <2>4. head' \in 1..Len(lists') /\ slot' \in 1..COUNT
    BY Registers
  <2> QED
    BY <2>1, <2>2, <2>3, <2>4, Constants
<1>2. CASE /\ head # 0 /\ slot = COUNT /\ head' = head + 1 /\ slot' = 1
           /\ \A k \in 1..head : lists'[k] = lists[k]
  <2>1. ASSUME NEW k, NEW n
        PROVE  Listed(k, n)' <=> Listed(k, n) \/ (k = head' /\ n = slot')
    BY <1>1, <1>2 DEF Listed
  <2>2. ASSUME NEW k, NEW n, Listed(k, n)
        PROVE  lists'[k][n] = lists[k][n] /\ Before(k, n, head', slot')
    BY <1>1, <1>2, <2>2 DEF Listed, Before
  <2> QED
    BY <2>1, <2>2
<1>3. CASE /\ head' = IF head = 0 THEN 1 ELSE head
           /\ slot \in 0..(COUNT - 1) /\ slot' = slot + 1
           /\ \A k \in 1..(head' - 1) : lists'[k] = lists[k]
           /\ \A n \in 1..slot : lists'[head'][n] = lists[head'][n]
  <2>1. head = 0 => slot = 0
    BY Registers DEF ProcInv
  <2>2. ASSUME NEW k, NEW n
        PROVE  Listed(k, n)' <=> Listed(k, n) \/ (k = head' /\ n = slot')
    BY <1>1, <1>3, <2>1 DEF Listed
  <2>3. ASSUME NEW k, NEW n, Listed(k, n)
        PROVE  lists'[k][n] = lists[k][n] /\ Before(k, n, head', slot')
    <3>1. head' = head /\ k \in 1..head /\ (k = head => n \in 1..slot)
      BY <1>1, <1>3, <2>3 DEF Listed
    <3>2. CASE k = head
      BY <1>1, <1>3, <3>1, <3>2 DEF Before
    <3>3. CASE k # head
      BY <1>1, <1>3, <3>1, <3>3 DEF Before
    <3> QED
      BY <3>2, <3>3
  <2> QED
    BY <2>2, <2>3
<1> QED
  BY <1>2, <1>3, Registers

LEMMA RegisterList ==
  ASSUME ProcInv, ListInv, cxa_atexit
  PROVE  ListInv'
<1>1. /\ \A k, n : Listed(k, n)' <=> Listed(k, n) \/ (k = head' /\ n = slot')
      /\ \A k, n : Listed(k, n) => /\ lists'[k][n] = lists[k][n]
                                   /\ Before(k, n, head', slot')
  BY RegisterListed
<1>2. /\ registered \in Nat /\ registered' = registered + 1 /\ ran' = ran
      /\ lists'[head'][slot'] = registered + 1
      /\ head' \in Nat /\ slot' \in Nat
  <2>1. Len(lists') \in Nat
    BY Registers, LenProperties
  <2> QED
    BY <2>1, Registers, Constants
<1>3. ASSUME NEW k, NEW n, Listed(k, n)'
      PROVE  lists'[k][n] \in 1..registered'
  BY <1>1, <1>2, <1>3 DEF ListInv
<1>4. ASSUME NEW j, NEW m, NEW k, NEW n, Listed(j, m)', Listed(k, n)', Before(j, m, k, n)
      PROVE  lists'[j][m] < lists'[k][n]
  <2>1. Listed(j, m) \/ (j = head' /\ m = slot')
    BY <1>1, <1>4
  <2>2. CASE Listed(k, n)
    <3>1. Listed(j, m)
      BY <1>1, <1>2, <1>4, <2>1, <2>2 DEF Before, Listed
    <3> QED
      BY <1>1, <1>4, <2>2, <3>1 DEF ListInv
  <2>3. CASE k = head' /\ n = slot'
    <3>1. Listed(j, m)
      BY <1>2, <1>4, <2>1, <2>3 DEF Before
    <3>2. lists'[j][m] = lists[j][m] /\ lists[j][m] \in 1..registered
      BY <1>1, <3>1 DEF ListInv
    <3> QED
      BY <1>2, <2>3, <3>2
  <2> QED
    BY <1>1, <1>4, <2>2, <2>3
<1>5. Ran' = Ran /\ Ran' \subseteq 1..registered'
  BY <1>2 DEF ListInv, Ran
<1>6. ASSUME NEW h \in 1..registered'
      PROVE  h \in Ran' <=> ~\E k, n : Listed(k, n)' /\ lists'[k][n] = h
  <2>1. CASE h = registered + 1
    <3>1. h \notin Ran
      BY <1>2, <2>1 DEF ListInv
    <3>2. \E k, n : Listed(k, n)' /\ k = head' /\ n = slot'
      BY <1>1
    <3>3. \E k, n : Listed(k, n)' /\ lists'[k][n] = h
      BY <1>2, <2>1, <3>2
    <3> QED
      BY <1>5, <3>1, <3>3
  <2>2. CASE h # registered + 1
    <3>1. h \in 1..registered
      BY <1>2, <2>2
    <3>2. (\E k, n : Listed(k, n)' /\ lists'[k][n] = h)
            <=> (\E k, n : Listed(k, n) /\ lists[k][n] = h)
      BY <1>1, <1>2, <2>2
    <3> QED
      BY <1>5, <3>1, <3>2 DEF ListInv
  <2> QED
    BY <2>1, <2>2
<1> QED
  BY <1>2, <1>3, <1>4, <1>5, <1>6 DEF ListInv

\* A handler started is the last of the listed ones.
LEMMA RunListed ==
  ASSUME ProcInv, RunHandler
  PROVE  /\ Listed(head, slot) /\ lists[head][slot] \in Nat
         /\ \A k, n : Listed(k, n)' <=> Listed(k, n) /\ ~(k = head /\ n = slot)
         /\ \A k, n : Listed(k, n)' => Before(k, n, head, slot)
<1>1. /\ head' = head /\ slot' = slot - 1 /\ slot \in 1..COUNT /\ COUNT \in Nat
      /\ head \in 1..Len(lists) /\ Len(lists) \in Nat
  BY LenProperties, Constants DEF ProcInv, TypeOK, RunHandler
<1>2. lists[head][slot] \in Nat
  BY <1>1, ListEntry, Constants DEF ProcInv
<1> QED
  BY <1>1, <1>2 DEF Listed, Before

LEMMA RunHandlerList ==
  ASSUME ProcInv, ListInv, RunHandler
  PROVE  /\ ListInv'
         /\ (lists[head][slot] + 1)..registered \subseteq Ran
<1> DEFINE g == lists[head][slot]
<1>1. /\ Listed(head, slot) /\ g \in Nat
      /\ \A k, n : Listed(k, n)' <=> Listed(k, n) /\ ~(k = head /\ n = slot)
      /\ \A k, n : Listed(k, n)' => Before(k, n, head, slot)
  BY RunListed
<1>2. /\ ran \in Seq(Nat) /\ ran' = Append(ran, g) /\ registered' = registered
      /\ lists' = lists /\ registered \in Nat
  BY Constants DEF RunHandler, ProcInv, TypeOK
<1>3. g \in 1..registered /\ g \notin Ran
  BY <1>1 DEF ListInv
<1>4. \A k, n : Listed(k, n)' => lists[k][n] < g /\ lists[k][n] \in Nat
  BY <1>1, <1>2 DEF ListInv
<1> HIDE DEF g
<1>5. /\ Ran' = Ran \cup {g}
      /\ DOMAIN ran' = DOMAIN ran \cup {Len(ran) + 1} /\ ran'[Len(ran) + 1] = g
      /\ \A k \in DOMAIN ran : ran'[k] = ran[k]
  BY <1>1, <1>2, RanGrows
<1>6. \A h \in 1..registered : h \in Ran' <=> ~\E k, n : Listed(k, n)' /\ lists'[k][n] = h
  <2> SUFFICES ASSUME NEW h \in 1..registered
               PROVE  h \in Ran' <=> ~\E k, n : Listed(k, n)' /\ lists'[k][n] = h
    OBVIOUS
  <2>1. CASE h = g
    BY <1>2, <1>4, <1>5, <2>1
  <2>2. CASE h # g
    <3>1. (\E k, n : Listed(k, n)' /\ lists'[k][n] = h)
            <=> (\E k, n : Listed(k, n) /\ lists[k][n] = h)
      BY <1>1, <1>2, <2>2 DEF g
    <3> QED
      BY <1>5, <2>2, <3>1 DEF ListInv
  <2> QED
    BY <2>1, <2>2
<1>7. \A j, k \in DOMAIN ran' : ran'[j] = ran'[k] => j = k
  <2>1. \A k \in DOMAIN ran : ran[k] # g
    BY <1>3 DEF Ran
  <2> QED
    BY <1>5, <2>1 DEF ListInv
<1>8. \A k, n : Listed(k, n)' => lists'[k][n] \in 1..registered'
  BY <1>1, <1>2 DEF ListInv
<1>9. \A j, m, k, n : Listed(j, m)' /\ Listed(k, n)' /\ Before(j, m, k, n)
                        => lists'[j][m] < lists'[k][n]
  BY <1>1, <1>2 DEF ListInv
<1>10. Ran' \subseteq 1..registered'
  BY <1>2, <1>3, <1>5 DEF ListInv
<1>11. ListInv'
  BY <1>2, <1>6, <1>7, <1>8, <1>9, <1>10 DEF ListInv
<1>12. (g + 1)..registered \subseteq Ran
  <2> SUFFICES ASSUME NEW h \in (g + 1)..registered, h \notin Ran
               PROVE  FALSE
    OBVIOUS
  <2>1. h \in 1..registered /\ h > g /\ h \in Nat
    BY <1>1, <1>2
  <2>2. PICK k, n : Listed(k, n) /\ lists[k][n] = h
    BY <2>1 DEF ListInv
  <2>3. Listed(k, n)'
    BY <1>1, <2>1, <2>2 DEF g
  <2> QED
    BY <1>1, <1>4, <2>1, <2>2, <2>3
<1> QED
  BY <1>11, <1>12 DEF g

\* The next list, or none: nothing is listed that was not.
LEMMA LeaveListList ==
  ASSUME ProcInv, ListInv, LeaveList \/ NullHead
  PROVE  ListInv'
<1>1. UNCHANGED <<lists, registered, ran>> /\ COUNT \in Nat
  BY Constants DEF LeaveList, NullHead
<1>2. \A k, n : Listed(k, n)' <=> Listed(k, n)
  <2>1. head \in Nat
    BY LenProperties DEF ProcInv, TypeOK
  <2>2. CASE LeaveList
    BY <1>1, <2>1, <2>2 DEF LeaveList, Listed
  <2>3. CASE NullHead
    BY <2>3 DEF NullHead, Listed
  <2> QED
    BY <2>2, <2>3
<1> QED
  BY <1>1, <1>2 DEF ListInv, Ran

HandlersInv == ProcInv /\ ListInv

LEMMA NextList == HandlersInv /\ [Next]_vars => ListInv'
<1> SUFFICES ASSUME HandlersInv, [Next]_vars
             PROVE  ListInv'
  OBVIOUS
<1>1. CASE cxa_atexit
  BY <1>1, RegisterList DEF HandlersInv
<1>2. CASE RunHandler
  BY <1>2, RunHandlerList DEF HandlersInv
<1>3. CASE LeaveList \/ NullHead
  BY <1>3, LeaveListList DEF HandlersInv
<1>4. CASE ListsStay
  BY <1>4, StillList DEF HandlersInv
<1>5. \/ cxa_atexit \/ RunHandler \/ LeaveList \/ NullHead \/ ListsStay
  BY DEF Next, StartMain, Call, Return, CodeReturns, CodeExits, CodeAborts, EnterList,
         FrameOfExitLost, Finish, Ended, vars, ListsStay
<1> QED
  BY <1>1, <1>2, <1>3, <1>4, <1>5

LEMMA HandlersInvariance == Spec => []HandlersInv
<1>1. Init => HandlersInv
  BY InitProc, InitList DEF HandlersInv
<1>2. HandlersInv /\ [Next]_vars => HandlersInv'
  BY NextProc, NextList DEF HandlersInv
<1> QED
  BY <1>1, <1>2, PTL DEF Spec

\* However many lists the handlers fill, and however many processes go through
\* exit, no handler is started twice, and none is left when the program has ended in
\* its own code.
THEOREM EveryHandlerOnce == Spec => []HandlersRunOnce
<1>1. HandlersInv => HandlersRunOnce
  <2> SUFFICES ASSUME HandlersInv
               PROVE  HandlersRunOnce
    OBVIOUS
  <2>1. \A j, k \in DOMAIN ran : ran[j] = ran[k] => j = k
    BY DEF HandlersInv, ListInv
  <2>2. ASSUME chain = <<>>, status # Undefined
        PROVE  Ran = 1..registered
    <3>1. \A k, n : ~Listed(k, n)
      BY <2>2 DEF HandlersInv, ProcInv, Listed
    <3> QED
      BY <3>1 DEF HandlersInv, ListInv
  <2> QED
    BY <2>1, <2>2 DEF HandlersRunOnce
<1> QED
  BY <1>1, HandlersInvariance, PTL

\* A handler is started after all that were registered later, handlers that other
\* handlers register included.
THEOREM LastRegisteredFirst == Spec => HandlersInReverse
<1> DEFINE Reverse ==
      \A k \in DOMAIN ran' \ DOMAIN ran : (ran'[k] + 1)..registered \subseteq Ran
<1>1. HandlersInv /\ [Next]_vars => [Reverse]_vars
  <2> SUFFICES ASSUME HandlersInv, [Next]_vars
               PROVE  [Reverse]_vars
    OBVIOUS
  <2>1. CASE RunHandler
    <3>1. lists[head][slot] \in Nat /\ ran \in Seq(Nat)
      BY <2>1, RunListed DEF HandlersInv, ProcInv, TypeOK
    <3>2. ran' = Append(ran, lists[head][slot])
      BY <2>1 DEF RunHandler
    <3>3. /\ DOMAIN ran' \ DOMAIN ran = {Len(ran) + 1}
          /\ ran'[Len(ran) + 1] = lists[head][slot]
      BY <3>1, <3>2, RanGrows
    <3>4. (lists[head][slot] + 1)..registered \subseteq Ran
      BY <2>1, RunHandlerList DEF HandlersInv
    <3> QED
      BY <3>3, <3>4
  <2>2. CASE ran' = ran
    BY <2>2
  <2>3. RunHandler \/ ran' = ran
    BY DEF Next, StartMain, Call, Return, cxa_atexit, CodeReturns, CodeExits, CodeAborts,
           EnterList, LeaveList, NullHead, FrameOfExitLost, Finish, Ended, vars
  <2> QED
    BY <2>1, <2>2, <2>3
<1> QED
  BY <1>1, HandlersInvariance, PTL DEF Spec, HandlersInReverse

----------------------------------------------------------------------------
(* A program whose code only returns *)

ReturnsInv ==
  ~left =>
    /\ chain = <<>> => finis = 1 /\ status = wanted
    /\ chain # <<>> => finis = 0 /\ Me \in {1, 2}
    /\ Me = 1 => /\ This.at \in {"init", "list", "slots", "fini"}
                 /\ This.at # "init" => Exited(This.code) = wanted
                 /\ This.at = "slots" => head # 0
    /\ Me = 2 => /\ This.at = "run"
                 /\ \/ chain[1].at = "waitMain" /\ This.job = "main"
                    \/ /\ chain[1].at = "waitHandler" /\ This.job = "handler"
                       /\ head # 0 /\ Exited(chain[1].code) = wanted
                 /\ \A d \in 1..This.depth : stack[d] = 2

\* What every step but the first and the last starts from.
LEMMA Running1or2 ==
  ASSUME ProcInv, ReturnsInv, ~left, chain # <<>>
  PROVE  /\ chain \in Seq(Proc) /\ This \in Proc /\ finis = 0
         /\ \/ Me = 1 /\ chain[1] = This /\ This.at # "run"
            \/ Me = 2 /\ chain[1] \in Proc /\ This.at = "run"
<1>1. chain \in Seq(Proc) /\ Me \in {1, 2} /\ finis = 0 /\ This \in Proc /\ DOMAIN chain = 1..Me
  BY LastProc DEF ProcInv, TypeOK, ReturnsInv
<1>2. CASE Me = 1
  BY <1>1, <1>2 DEF ReturnsInv, This
<1>3. CASE Me = 2
  <2>1. chain[1] \in Proc
    BY <1>1, <1>3, ElementOfSeq DEF Me
  <2> QED
    BY <1>1, <1>3, <2>1 DEF ReturnsInv
<1> QED
  BY <1>1, <1>2, <1>3

LEMMA EmptyChain == chain = <<>> => Me = 0
BY EmptySeq DEF Me

LEMMA InitReturns == Init => ReturnsInv
<1> SUFFICES ASSUME Init PROVE ReturnsInv
  OBVIOUS
<1>1. Me = 1 /\ This.at = "init" /\ chain # <<>>
  BY DEF Init, Me, This
<1> QED
  BY <1>1 DEF Init, ReturnsInv

\* A clone of the first process.
LEMMA ClonedReturns ==
  ASSUME ProcInv, ReturnsInv, ~left, ~left', chain # <<>>, Me = 1,
         NEW job \in Job, NEW phase \in Phase, Clone(job, phase),
         UNCHANGED <<head, finis, wanted>>,
         \/ job = "main" /\ phase = "waitMain"
         \/ job = "handler" /\ phase = "waitHandler" /\ head # 0 /\ Exited(This.code) = wanted
  PROVE  ReturnsInv'
<1>1. chain \in Seq(Proc) /\ This \in Proc /\ finis = 0
  BY Running1or2
<1>2. /\ chain' # <<>> /\ Me' = 2
      /\ This' = [job |-> job, at |-> "run", depth |-> 1, code |-> 0]
      /\ chain'[1] = [This EXCEPT !.at = phase]
  BY <1>1, CloneProc
<1>3. chain'[1].at = phase /\ chain'[1].code = This.code
  BY <1>1, <1>2 DEF Proc
<1>4. This'.at = "run" /\ This'.job = job /\ This'.depth = 1
  BY <1>2
<1>5. stack'[1] = 2
  <2>1. stack \in [1..(MaxDepth + 1) -> Nat] /\ 1 \in 1..(MaxDepth + 1)
    BY Constants DEF ProcInv, TypeOK
  <2> QED
    BY <2>1 DEF Clone
<1>6. \A d \in 1..This'.depth : stack'[d] = 2
  BY <1>4, <1>5
<1> QED
  BY <1>1, <1>2, <1>3, <1>4, <1>6 DEF ReturnsInv

LEMMA CloningReturns ==
  ASSUME ProcInv, ReturnsInv, ~left', StartMain \/ RunHandler
  PROVE  ReturnsInv'
<1>1. ~left /\ chain # <<>>
  BY DEF StartMain, RunHandler, At
<1>2. Me = 1
  BY <1>1, Running1or2 DEF StartMain, RunHandler, At
<1>3. CASE StartMain
  BY <1>1, <1>2, <1>3, ClonedReturns DEF StartMain, Job, Phase
<1>4. CASE RunHandler
  <2>1. Exited(This.code) = wanted
    BY <1>1, <1>2, <1>4 DEF RunHandler, At, ReturnsInv
  <2> QED
    BY <1>1, <1>2, <1>4, <2>1, ClonedReturns DEF RunHandler, Job, Phase
<1> QED
  BY <1>3, <1>4

LEMMA CodeStepReturns ==
  ASSUME ProcInv, ReturnsInv, ~left', Call \/ Return
  PROVE  ReturnsInv'
<1>1. /\ ~left /\ chain # <<>> /\ This.at = "run" /\ At("run")
      /\ UNCHANGED <<head, finis, wanted>>
  BY DEF Call, Return, At
<1>2. /\ Me = 2 /\ chain \in Seq(Proc) /\ This \in Proc /\ finis = 0
      /\ This.depth \in 1..MaxDepth
      /\ \A d \in 1..This.depth : stack[d] = 2
      /\ stack \in [1..(MaxDepth + 1) -> Nat]
  BY <1>1, Running1or2 DEF ProcInv, TypeOK, ReturnsInv
<1>3. PICK e \in 1..MaxDepth :
        /\ Becomes([This EXCEPT !.depth = e])
        /\ \A d \in 1..e : stack'[d] = 2
  <2>1. CASE Call
    <3>1. /\ Becomes([This EXCEPT !.depth = This.depth + 1])
          /\ stack' = [stack EXCEPT ![This.depth + 1] = 2]
          /\ This.depth + 1 \in 1..MaxDepth
      BY <1>2, <2>1, Constants DEF Call
    <3>2. \A d \in 1..(This.depth + 1) : stack'[d] = 2
      BY <1>2, <3>1, Constants
    <3> QED
      BY <3>1, <3>2
  <2>2. CASE Return
    <3>1. /\ Becomes([This EXCEPT !.depth = This.depth - 1]) /\ stack' = stack
          /\ This.depth - 1 \in 1..MaxDepth
      BY <1>2, <2>2, Constants DEF Return
    <3>2. \A d \in 1..(This.depth - 1) : stack'[d] = 2
      BY <1>2, <3>1, Constants
    <3> QED
      BY <3>1, <3>2
  <2> QED
    BY <2>1, <2>2
<1> DEFINE p == [This EXCEPT !.depth = e]
<1>4. p \in Proc /\ p.at = "run" /\ p.job = This.job /\ p.depth = e
  <2>1. e \in 0..(MaxDepth + 1)
    BY Constants
  <2> QED
    BY <1>1, <1>2, <2>1 DEF Proc
<1> HIDE DEF p
<1>5. Becomes(p)
  BY <1>3 DEF p
<1>6. chain' # <<>> /\ Me' = 2 /\ This' = p /\ chain'[1] = chain[1]
  BY <1>1, <1>2, <1>4, <1>5, BecomesProc
<1> QED
  BY <1>1, <1>2, <1>3, <1>4, <1>6 DEF ReturnsInv

LEMMA RegisterReturns ==
  ASSUME ProcInv, ReturnsInv, ~left', cxa_atexit
  PROVE  ReturnsInv'
<1>1. /\ ~left /\ At("run") /\ chain' = chain
      /\ UNCHANGED <<stack, status, finis, wanted>>
  BY Registers DEF cxa_atexit
<1>2. head' # 0
  <2>1. Len(lists') \in Nat /\ head' \in 1..Len(lists')
    BY Registers, LenProperties
  <2> QED
    BY <2>1
<1>3. chain # <<>> /\ This.at = "run" /\ This' = This /\ Me' = Me
  BY <1>1 DEF At, This, Me
<1> QED
  BY <1>1, <1>2, <1>3 DEF ReturnsInv

\* The status word of an exit gives the byte that was passed to it.
LEMMA StatusAgain ==
  ASSUME NEW c \in Nat
  PROVE  Exited(WEXITSTATUS(Exited(c))) = Exited(c)
<1> DEFINE m == c % 256
<1>1. m \in 0..255
  OBVIOUS
<1>2. Exited(c) = m * 256
  BY DEF Exited
<1> HIDE DEF m
<1>3. (m * 256) \div 256 = m /\ m % 256 = m
  BY <1>1
<1> QED
  BY <1>2, <1>3 DEF WEXITSTATUS, Exited

\* The clone returns, and the first process goes on.
LEMMA CodeReturnsReturns ==
  ASSUME ProcInv, ReturnsInv, ~left', CodeReturns
  PROVE  ReturnsInv'
<1>1. ~left /\ chain # <<>> /\ This.at = "run" /\ UNCHANGED <<head, finis>>
  BY DEF CodeReturns, At
<1>2. Me = 2 /\ chain \in Seq(Proc) /\ chain[1] \in Proc /\ finis = 0
  BY <1>1, Running1or2
<1>3. PICK c \in Codes :
        /\ Dies(Exited(c))
        /\ wanted' = IF This.job = "main" THEN Exited(c) ELSE wanted
  BY DEF CodeReturns
<1>4. c \in Nat /\ Exited(c) \in Nat
  BY Constants, ExitStatus
<1>5. /\ chain' # <<>> /\ Me' = 1
      /\ This' = IF chain[1].at = "waitMain"
                 THEN [chain[1] EXCEPT !.at = "list", !.code = WEXITSTATUS(Exited(c))]
                 ELSE [chain[1] EXCEPT !.at = "slots"]
  <2>1. /\ chain' # <<>> /\ Me' = Me - 1
        /\ This' = IF chain[Me - 1].at = "waitMain"
                   THEN [chain[Me - 1] EXCEPT !.at = "list", !.code = WEXITSTATUS(Exited(c))]
                   ELSE [chain[Me - 1] EXCEPT !.at = "slots"]
    <3>1. Me # 1
      BY <1>2
    <3> QED
      BY <1>1, <1>2, <1>3, <1>4, <3>1, DiesProc
  <2>2. Me - 1 = 1
    BY <1>2
  <2> QED
    BY <2>1, <2>2
<1>6. CASE chain[1].at = "waitMain"
  <2>1. This.job = "main"
    BY <1>1, <1>2, <1>6 DEF ReturnsInv
  <2>2. This'.at = "list" /\ This'.code = WEXITSTATUS(Exited(c))
    BY <1>2, <1>5, <1>6 DEF Proc
  <2>3. Exited(This'.code) = wanted'
    BY <1>3, <1>4, <2>1, <2>2, StatusAgain
  <2> QED
    BY <1>1, <1>2, <1>5, <2>2, <2>3 DEF ReturnsInv
<1>7. CASE chain[1].at # "waitMain"
  <2>1. This.job = "handler" /\ head # 0 /\ Exited(chain[1].code) = wanted
    BY <1>1, <1>2, <1>7 DEF ReturnsInv
  <2>2. This'.at = "slots" /\ This'.code = chain[1].code
    BY <1>2, <1>5, <1>7 DEF Proc
  <2>3. Exited(This'.code) = wanted'
    BY <1>3, <2>1, <2>2
  <2> QED
    BY <1>1, <1>2, <1>5, <2>1, <2>2, <2>3 DEF ReturnsInv
<1> QED
  BY <1>6, <1>7

LEMMA LoopReturns ==
  ASSUME ProcInv, ReturnsInv, ~left', EnterList \/ LeaveList
  PROVE  ReturnsInv'
<1>1. /\ ~left /\ chain # <<>> /\ This.at \in {"list", "slots"}
      /\ UNCHANGED <<finis, wanted>>
  BY DEF EnterList, LeaveList, At
<1>2. Me = 1 /\ chain \in Seq(Proc) /\ This \in Proc /\ finis = 0
  BY <1>1, Running1or2
<1>3. Exited(This.code) = wanted
  BY <1>1, <1>2 DEF ReturnsInv
<1>4. PICK a \in {"list", "slots", "fini"} :
        Becomes([This EXCEPT !.at = a]) /\ (a = "slots" => head' # 0)
  <2>1. CASE EnterList /\ head = 0
    BY <2>1 DEF EnterList
  <2>2. CASE EnterList /\ head # 0
    BY <2>2 DEF EnterList
  <2>3. CASE LeaveList
    BY <2>3 DEF LeaveList
  <2> QED
    BY <2>1, <2>2, <2>3
<1> DEFINE p == [This EXCEPT !.at = a]
<1>5. p \in Proc /\ p.at = a /\ p.code = This.code
  BY <1>2 DEF Proc, Phase
<1> HIDE DEF p
<1>6. Becomes(p)
  BY <1>4 DEF p
<1>7. chain' # <<>> /\ Me' = 1 /\ This' = p
  BY <1>1, <1>2, <1>5, <1>6, BecomesProc
<1> QED
  BY <1>1, <1>2, <1>3, <1>4, <1>5, <1>7 DEF ReturnsInv

LEMMA FinishReturns ==
  ASSUME ProcInv, ReturnsInv, ~left', Finish
  PROVE  ReturnsInv'
<1>1. ~left /\ chain # <<>> /\ This.at = "fini" /\ wanted' = wanted
  BY DEF Finish, At
<1>2. Me = 1 /\ chain \in Seq(Proc) /\ This \in Proc /\ finis = 0
  BY <1>1, Running1or2
<1>3. Exited(This.code) = wanted
  BY <1>1, <1>2 DEF ReturnsInv
<1>4. finis' = 1 /\ chain' = <<>> /\ status' = wanted
  BY <1>2, <1>3 DEF Finish, Dies
<1>5. Me' = 0
  BY <1>4, EmptySeq DEF Me
<1> QED
  BY <1>1, <1>4, <1>5 DEF ReturnsInv

\* The steps of a program whose code has not only returned.
LEMMA NeverThere ==
  ASSUME ProcInv, ReturnsInv, ~left'
  PROVE  ~CodeExits /\ ~CodeAborts /\ ~NullHead /\ ~FrameOfExitLost
<1>1. ~CodeExits /\ ~CodeAborts
  BY DEF CodeExits, CodeAborts
<1>2. ASSUME NullHead
      PROVE  FALSE
  <2>1. ~left /\ chain # <<>> /\ This.at = "slots" /\ head = 0
    BY <1>2 DEF NullHead, At
  <2>2. Me = 1
    BY <2>1, Running1or2
  <2> QED
    BY <2>1, <2>2 DEF ReturnsInv
<1>3. ASSUME FrameOfExitLost
      PROVE  FALSE
  <2>1. ~left /\ chain # <<>> /\ This.at = "slots" /\ Me > 1
    BY <1>3 DEF FrameOfExitLost, At
  <2>2. Me = 1
    BY <2>1, Running1or2
  <2> QED
    BY <2>1, <2>2
<1> QED
  BY <1>1, <1>2, <1>3

LEMMA NextReturns == ProcInv /\ ReturnsInv /\ [Next]_vars => ReturnsInv'
<1> SUFFICES ASSUME ProcInv, ReturnsInv, [Next]_vars, ~left'
             PROVE  ReturnsInv'
  BY DEF ReturnsInv
<1>1. CASE UNCHANGED vars
  BY <1>1 DEF vars, ReturnsInv, This, Me
<1> QED
  BY <1>1, CloningReturns, CodeStepReturns, RegisterReturns, CodeReturnsReturns, LoopReturns,
     FinishReturns, NeverThere DEF Next, Ended

LEMMA ReturnsInvariance == Spec => [](ProcInv /\ ReturnsInv)
<1>1. Init => ProcInv /\ ReturnsInv
  BY InitProc, InitReturns
<1>2. ProcInv /\ ReturnsInv /\ [Next]_vars => (ProcInv /\ ReturnsInv)'
  BY NextProc, NextReturns
<1> QED
  BY <1>1, <1>2, PTL DEF Spec

\* As long as main and the handlers return, no process of the program finds
\* another's data in a frame of the shared unsafe stack.
THEOREM FramesAreKept == Spec => []FramesIntact
<1>1. ProcInv /\ ReturnsInv => FramesIntact
  <2> SUFFICES ASSUME ProcInv, ReturnsInv, ~left, NEW k \in 2..Me, NEW d \in 1..chain[k].depth
               PROVE  stack[d] = k
    BY DEF FramesIntact
  <2>1. chain # <<>>
    BY EmptyChain
  <2>2. Me = 2 /\ k = 2 /\ chain[k] = This
    BY <2>1, Running1or2 DEF This
  <2> QED
    BY <2>2 DEF ReturnsInv
<1> QED
  BY <1>1, ReturnsInvariance, PTL

\* As long as they return, the loops of __funcs_on_exit have a list to read.
THEOREM ListIsKept == Spec => []ListIsThere
<1>1. ProcInv /\ ReturnsInv => ListIsThere
  BY Running1or2 DEF ListIsThere, ReturnsInv, At
<1> QED
  BY <1>1, ReturnsInvariance, PTL

\* If they return, the destructors run once.
THEOREM DestructorsOnce == Spec => []FiniRunsOnce
<1>1. ProcInv /\ ReturnsInv => FiniRunsOnce
  BY DEF FiniRunsOnce, ReturnsInv
<1> QED
  BY <1>1, ReturnsInvariance, PTL

\* If they return, the status that main returned is the one the program ends with,
\* after a status word, WEXITSTATUS and a second exit.
THEOREM StatusArrives == Spec => []StatusIsMains
<1>1. ProcInv /\ ReturnsInv => StatusIsMains
  BY DEF StatusIsMains, ReturnsInv
<1> QED
  BY <1>1, ReturnsInvariance, PTL
=============================================================================
