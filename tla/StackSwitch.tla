--------------------------- MODULE StackSwitch ----------------------------
(***************************************************************************)
(* Startup and exit of a DataShield program: __libc_start_main.c, clone.s, *)
(* exit.c and atexit.c of the modified musl.                               *)
(*                                                                         *)
(* The first process keeps the original stack.  It runs main, and later    *)
(* each exit handler, in a cloned process that shares all its memory and   *)
(* whose stack starts at the top of the one unsafe stack; it waits for the *)
(* clone and goes on.  A clone that calls exit does the same again.  So at *)
(* most one process runs, and the others wait, each for the next.          *)
(***************************************************************************)
EXTENDS Integers, Sequences, FiniteSets

CONSTANTS
  COUNT,      \* handlers per list, 32 in atexit.c
  Codes,      \* what main returns and exit is called with
  Exiting,    \* the jobs whose code may call exit
  Aborting,   \* the jobs whose code may abort
  MaxDepth,   \* bound: frames of the code of one process
  MaxRegs     \* bound: calls of atexit

Job == {"start", "main", "handler"}

ASSUME ConstantsAssumption ==
  /\ COUNT \in Nat \ {0}
  /\ Codes \subseteq Nat
  /\ Exiting \subseteq {"main", "handler"}
  /\ Aborting \subseteq {"main", "handler"}
  /\ MaxDepth \in Nat \ {0}
  /\ MaxRegs \in Nat

VARIABLES
  chain,      \* the processes, each waiting for the next; the last one runs
  stack,      \* the process that wrote each frame of the unsafe stack last
  lists,      \* the lists of handlers in memory; the first is builtin
  head,       \* position of the list head points to, 0 for null
  slot,
  status,     \* the status the first process ends with, if that can be told
  registered, \* history: calls of atexit
  ran,        \* history: handlers started, as numbers of their registration
  finis,      \* history: runs of __libc_exit_fini
  wanted,     \* history: how main ended
  left        \* history: main or a handler has called exit or aborted

vars == <<chain, stack, lists, head, slot, status, registered, ran, finis, wanted, left>>

\* "run": the program's own code.  "list" and "slots": the two loops of
\* __funcs_on_exit, in exit.  "fini": the rest of exit.
Phase == {"init", "waitMain", "run", "list", "slots", "waitHandler", "fini"}

Proc == [job : Job, at : Phase, depth : 0..(MaxDepth + 1), code : Nat]

Me == Len(chain)

This == chain[Me]

At(phase) == chain # <<>> /\ This.at = phase

Becomes(p) == chain' = [chain EXCEPT ![Me] = p]

\* Status words, as wait4 gives them.
Exited(code) == (code % 256) * 256
SIGABRT == 6
SIGSEGV == 11
Running == -1

\* The status of a program that has left its code behind.
Undefined == -2

\* Wrong: the status word itself.
WEXITSTATUS_Raw(s) == s

WEXITSTATUS(s) == (s \div 256) % 256

----------------------------------------------------------------------------

Init ==
  /\ chain = <<[job |-> "start", at |-> "init", depth |-> 0, code |-> 0]>>
  /\ stack = [d \in 1..(MaxDepth + 1) |-> 0]
  /\ lists = <<[n \in 1..COUNT |-> 0]>>
  /\ head = 0
  /\ slot = 0
  /\ status = Running
  /\ registered = 0
  /\ ran = <<>>
  /\ finis = 0
  /\ wanted = Running
  /\ left = FALSE

\* __ds_unsafe_clone: the clone has its argument on top of the unsafe stack.
Clone(job, phase) ==
  /\ chain' = Append([chain EXCEPT ![Me].at = phase],
                     [job |-> job, at |-> "run", depth |-> 1, code |-> 0])
  /\ stack' = [stack EXCEPT ![1] = Me + 1]

\* The process waiting for this one goes on: the first one calls exit with the
\* status of main, __funcs_on_exit ignores that of a handler.
Dies(s) ==
  IF Me = 1
  THEN chain' = <<>> /\ status' = s
  ELSE LET p == chain[Me - 1]
           q == IF p.at = "waitMain" THEN [p EXCEPT !.at = "list", !.code = WEXITSTATUS(s)]
                ELSE [p EXCEPT !.at = "slots"]
       IN chain' = Append(SubSeq(chain, 1, Me - 2), q) /\ UNCHANGED status

----------------------------------------------------------------------------
(* The program *)

\* __libc_start_main
StartMain ==
  /\ At("init")
  /\ Clone("main", "waitMain")
  /\ UNCHANGED <<lists, head, slot, status, registered, ran, finis, wanted, left>>

Call ==
  /\ At("run")
  /\ This.depth < MaxDepth
  /\ Becomes([This EXCEPT !.depth = @ + 1])
  /\ stack' = [stack EXCEPT ![This.depth + 1] = Me]
  /\ UNCHANGED <<lists, head, slot, status, registered, ran, finis, wanted, left>>

Return ==
  /\ At("run")
  /\ This.depth > 1
  /\ Becomes([This EXCEPT !.depth = @ - 1])
  /\ UNCHANGED <<stack, lists, head, slot, status, registered, ran, finis, wanted, left>>

\* Wrong: a full list is not replaced.
cxa_atexit_OneList ==
  /\ At("run")
  /\ registered < MaxRegs
  /\ registered' = registered + 1
  /\ head' = IF head = 0 THEN 1 ELSE head
  /\ slot' = slot + 1
  /\ lists' = [lists EXCEPT ![head'] =
                 [n \in DOMAIN @ |-> IF n = slot + 1 THEN registered + 1 ELSE @[n]]]
  /\ UNCHANGED <<chain, stack, status, ran, finis, wanted, left>>

\* Wrong: the first slot of a list is its last one.
cxa_atexit_Backwards ==
  /\ At("run")
  /\ registered < MaxRegs
  /\ registered' = registered + 1
  /\ LET first == IF head = 0 THEN 1 ELSE head IN
     IF slot = COUNT
     THEN /\ lists' = Append(SubSeq(lists, 1, first),
                             [n \in 1..COUNT |-> IF n = COUNT THEN registered + 1 ELSE 0])
          /\ head' = first + 1
          /\ slot' = 1
     ELSE /\ lists' = [lists EXCEPT ![first][COUNT - slot] = registered + 1]
          /\ head' = first
          /\ slot' = slot + 1
  /\ UNCHANGED <<chain, stack, status, ran, finis, wanted, left>>

\* __cxa_atexit.  A list that is full gets an empty one in front of it.
cxa_atexit ==
  /\ At("run")
  /\ registered < MaxRegs
  /\ registered' = registered + 1
  /\ LET first == IF head = 0 THEN 1 ELSE head IN
     IF slot = COUNT
     THEN /\ lists' = Append(SubSeq(lists, 1, first),
                             [n \in 1..COUNT |-> IF n = 1 THEN registered + 1 ELSE 0])
          /\ head' = first + 1
          /\ slot' = 1
     ELSE /\ lists' = [lists EXCEPT ![first][slot + 1] = registered + 1]
          /\ head' = first
          /\ slot' = slot + 1
  /\ UNCHANGED <<chain, stack, status, ran, finis, wanted, left>>

\* Wrong: the clone calls exit with what main returned, as in an ordinary libc.
CodeReturns_ToExit ==
  /\ At("run")
  /\ This.depth = 1
  /\ \E c \in Codes :
       /\ Becomes([This EXCEPT !.at = "list", !.code = c])
       /\ wanted' = IF This.job = "main" THEN Exited(c) ELSE wanted
  /\ UNCHANGED <<stack, lists, head, slot, status, registered, ran, finis, left>>

\* clone.s: when main or a handler returns, the clone ends, and nothing else.
CodeReturns ==
  /\ At("run")
  /\ This.depth = 1
  /\ \E c \in Codes :
       /\ Dies(Exited(c))
       /\ wanted' = IF This.job = "main" THEN Exited(c) ELSE wanted
  /\ UNCHANGED <<stack, lists, head, slot, registered, ran, finis, left>>

CodeExits ==
  /\ At("run")
  /\ This.job \in Exiting
  /\ \E c \in Codes :
       /\ Becomes([This EXCEPT !.at = "list", !.code = c, !.depth = @ + 1])
       /\ wanted' = IF This.job = "main" THEN Exited(c) ELSE wanted
  /\ left' = TRUE
  /\ stack' = [stack EXCEPT ![This.depth + 1] = Me]
  /\ UNCHANGED <<lists, head, slot, status, registered, ran, finis>>

\* A failed bounds check, for one: __ds_abort.
CodeAborts ==
  /\ At("run")
  /\ This.job \in Aborting
  /\ Dies(SIGABRT)
  /\ wanted' = IF This.job = "main" THEN SIGABRT ELSE wanted
  /\ left' = TRUE
  /\ UNCHANGED <<stack, lists, head, slot, registered, ran, finis>>

----------------------------------------------------------------------------
(* exit *)

\* Wrong: "do ... while (head)".
EnterList_Always ==
  /\ At("list")
  /\ Becomes([This EXCEPT !.at = "slots"])
  /\ UNCHANGED <<stack, lists, head, slot, status, registered, ran, finis, wanted, left>>

\* for (; head; ...)
EnterList ==
  /\ At("list")
  /\ Becomes([This EXCEPT !.at = IF head = 0 THEN "fini" ELSE "slots"])
  /\ UNCHANGED <<stack, lists, head, slot, status, registered, ran, finis, wanted, left>>

\* Wrong: slot is decremented after the handler has run, in effect not at all.
RunHandler_KeepsSlot ==
  /\ At("slots")
  /\ slot > 0
  /\ head # 0
  /\ slot' = slot
  /\ ran' = Append(ran, lists[head][slot])
  /\ Clone("handler", "waitHandler")
  /\ UNCHANGED <<lists, head, status, registered, finis, wanted, left>>

\* while (slot-- > 0)
RunHandler ==
  /\ At("slots")
  /\ slot > 0
  /\ head # 0
  /\ slot' = slot - 1
  /\ ran' = Append(ran, lists[head][slot])
  /\ Clone("handler", "waitHandler")
  /\ UNCHANGED <<lists, head, status, registered, finis, wanted, left>>

\* Wrong: the next list is not followed.
LeaveList_Forgets ==
  /\ At("slots")
  /\ slot = 0
  /\ head # 0
  /\ head' = 0
  /\ slot' = COUNT
  /\ Becomes([This EXCEPT !.at = "list"])
  /\ UNCHANGED <<stack, lists, status, registered, ran, finis, wanted, left>>

\* head = head->next, slot = COUNT
LeaveList ==
  /\ At("slots")
  /\ slot = 0
  /\ head # 0
  /\ head' = head - 1
  /\ slot' = COUNT
  /\ Becomes([This EXCEPT !.at = "list"])
  /\ UNCHANGED <<stack, lists, status, registered, ran, finis, wanted, left>>

\* The inner loop reads head->f and head->next without a check.
NullHead ==
  /\ At("slots")
  /\ head = 0
  /\ slot' = slot - 1
  /\ Dies(SIGSEGV)
  /\ UNCHANGED <<stack, lists, head, registered, ran, finis, wanted, left>>

\* A clone has written over the frame of exit.  The process that goes on in it may
\* crash, may find what it needs untouched and take the other actions, or may do
\* anything at all: the model stops there, and claims nothing more.
FrameOfExitLost ==
  /\ At("slots")
  /\ Me > 1
  /\ stack[This.depth] # Me
  /\ \/ Dies(SIGSEGV)
     \/ chain' = <<>> /\ status' = Undefined
  /\ UNCHANGED <<stack, lists, head, slot, registered, ran, finis, wanted, left>>

\* __libc_exit_fini, __stdio_exit, _Exit
Finish ==
  /\ At("fini")
  /\ finis' = finis + 1
  /\ Dies(Exited(This.code))
  /\ UNCHANGED <<stack, lists, head, slot, registered, ran, wanted, left>>

Ended == chain = <<>> /\ UNCHANGED vars

Next ==
  \/ StartMain
  \/ Call
  \/ Return
  \/ cxa_atexit
  \/ CodeReturns
  \/ CodeExits
  \/ CodeAborts
  \/ EnterList
  \/ RunHandler
  \/ LeaveList
  \/ NullHead
  \/ FrameOfExitLost
  \/ Finish
  \/ Ended

Spec == Init /\ [][Next]_vars

----------------------------------------------------------------------------
(* Properties *)

\* Type correctness.
TypeOK ==
  /\ chain \in Seq(Proc)
  /\ stack \in [1..(MaxDepth + 1) -> Nat]
  /\ lists \in Seq([1..COUNT -> 0..MaxRegs]) \ {<<>>}
  /\ head \in 0..Len(lists)
  /\ slot \in Int /\ slot <= COUNT
  /\ status \in Nat \cup {Running, Undefined}
  /\ registered \in 0..MaxRegs
  /\ ran \in Seq(Nat)
  /\ finis \in Nat
  /\ wanted \in Nat \cup {Running}
  /\ left \in BOOLEAN

\* While main and the handlers return, no process finds a frame of its own on the
\* unsafe stack overwritten, although all processes share the memory and every
\* clone starts at the same top.
FramesIntact ==
  ~left => \A k \in 2..Me : \A d \in 1..chain[k].depth : stack[d] = k

Ran == {ran[k] : k \in DOMAIN ran}

\* However many processes go through exit, and although some of them crash on the
\* way, every registered handler is started exactly once, those registered by other
\* handlers included; of a program that goes on at random in an overwritten frame
\* only what came before that is claimed.
HandlersRunOnce ==
  /\ \A j, k \in DOMAIN ran : ran[j] = ran[k] => j = k
  /\ chain = <<>> /\ status # Undefined => Ran = 1..registered

\* A handler is started after every handler registered later than itself, as long as
\* no process goes on at random in an overwritten frame.
HandlersInReverse ==
  [][\A k \in DOMAIN ran' \ DOMAIN ran : (ran'[k] + 1)..registered \subseteq Ran]_vars

\* While main and the handlers return, the loops of __funcs_on_exit never read
\* through a null list, although head and slot are moved by clones between two
\* turns.
ListIsThere == ~left /\ At("slots") => head # 0

\* If main and the handlers return, the destructors of the program run once.
FiniRunsOnce == ~left => finis <= 1 /\ (chain = <<>> => finis = 1)

\* If main and the handlers return, the program ends as main ended.
StatusIsMains == ~left /\ chain = <<>> => status = wanted

\* What the README of the test "buggy" says of a failed bounds check, "the
\* program should abort": a program whose main aborts ends as aborted.
AbortIsReported == chain = <<>> /\ wanted = SIGABRT => status \in {SIGABRT, Undefined}
==========================================================================
