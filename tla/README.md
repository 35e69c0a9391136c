# DataShield in TLA+

DataShield protects the data of chosen C and C++ types. The programmer marks the
types; a link-time LLVM pass finds every value the marked data can flow into,
moves those objects to a *safe region*, gives every pointer to them bounds that
are checked on use, and masks every other pointer so that it cannot reach the
safe region. A modified musl holds the runtime: two heaps, the table of bounds,
the slots in which bounds travel across calls, and a startup that runs the
program on an unsafe stack of its own.

This directory models the parts of it that have state and order: the
interprocedural analysis that decides what is sensitive, the types it starts
from, the phases that then rewrite each function, the protocol that carries
bounds across calls, the table that keeps the bounds of pointers in memory, and
startup and exit. TLC checks the models on small
instances; TLAPS proves the main results for every instance.

`DS` below is `src/compiler/llvm/lib/Transforms/IPO/DataShield.cpp`, `rt` is
`src/libc/musl/src/datashield/datashield.c`.

- [Inventory](#inventory)
- [Plan](#plan)
- [The sensitivity analysis](#the-sensitivity-analysis)
- [Masks, regions and checks](#masks-regions-and-checks)
- [Bounds across calls](#bounds-across-calls)
- [Bounds in memory](#bounds-in-memory)
- [Sensitive types](#sensitive-types)
- [Startup, the stack switch and exit](#startup-the-stack-switch-and-exit)
- [Runs](#runs)
- [Theorems](#theorems)
- [What is only model-checked, and what is not modelled](#what-is-only-model-checked-and-what-is-not-modelled)

## Inventory

| Component | Where | State it keeps | Operations | Module |
|---|---|---|---|---|
| Type set | `DS` 549-672 | the annotated types, a memo of answers | `isSensitiveTypeRecursive`, `findSensitiveTypeAnnotations` | `TypeSet` |
| Sensitivity analysis | `DS` 675-990, 1606-2064, 3380-3405 | the sensitive values and `isChanged`; one `CallInfo` per call; the clones | `propagateSensitivity`, `propagateAcrossCallBoundary`, `analyzeModule`, the redirection in `runOnModule` | `SensitivityAnalysis`, `CompiledCalls` |
| Sandboxer | `DS` 1263-1604 | none of its own: rewrites the module | masks on loads and stores of other pointers, copies of `argv` and `environ` | `Regions` (masks) |
| Memory regioner | `DS` 992-1261 | none of its own; adds to the sensitive values | allocations replaced by safe ones, stack objects moved to the safe heap, freed at returns | `Regions` |
| Bounds analysis | `DS` 2066-3301 | the bounds known for each value of a function | creates bounds, stores and loads them around calls and memory, inserts checks | `Regions` (what is inserted where), `CallBounds` (calls), `MetadataTable` (memory) |
| Slots | `rt` 81, 578-588 | one array of 128 bounds | `__ds_set_fn_arg_bounds`, `__ds_get_fn_arg_bounds` | `CallBounds`, which implements `FatCalls` |
| Metadata table | `rt` 95-115, 485-595 | one entry per word of the safe heap, and per global | `__ds_get_bounds`, `__ds_set_bounds`, `__ds_metadata_copy` | `MetadataTable`, which implements `FatMemory` |
| Region allocators | `rt` 120-260, 880-960 | two mspaces | `__ds_safe_*`, `__ds_unsafe_*`, copies of `environ` | `MetadataTable` (safe heap) |
| Startup and exit | musl `__libc_start_main.c`, `clone.s`, `exit.c`, `atexit.c` | the top of the unsafe stack, the lists of exit handlers, the waiting processes | `__ds_unsafe_clone`, `__cxa_atexit`, `exit`, `__funcs_on_exit` | `StackSwitch` |
| Prefix back end, pass registration, build scripts | `X86MCInstLower.cpp`, `PassManagerBuilder.cpp`, `src/bin`, `src/linker` | none | | not modelled |
| LLVM, clang, libc++, musl, dlmalloc, the MPX runtime | | | | third-party |

How they interact. `runOnModule` runs the components in a fixed order over one
module: unsafe allocators everywhere, sensitivity analysis, redirection of calls to
clones, masks, memory regioner, bounds. They share the set of sensitive values,
and later phases still add to it. What they emit meets again at run time: the
stores of bounds a caller has before a call and the loads its callee has on
entry are inserted separately, function by function, and must fit together
because the analysis has made both sides agree on what is sensitive. That chain -
analysis, agreement at the boundary, right bounds in the callee - is the core of
the system and of this project.

What is hard here, and what makes each component correct:

- *Sensitivity analysis.* A fixpoint over a program that grows while it is
  computed. Rounds stop on a flag that only some insertions set; a call's
  replacement is assigned anew each round and read by the next signature; clones
  are shared by name. Correct when the rounds end, when nothing is left to
  propagate at the end, when no call is left without a clone it needs
  (`llvm_unreachable` otherwise), and when every call agrees with the function it
  now calls.
- *Bounds across calls.* The slots are global, are filled by one function and
  emptied by another, and stay full or emptied in between. Correct when a load
  finds what this very call stored, at any nesting, and every pointer has the
  bounds of its object.
- *Startup and exit.* Several processes share memory, one unsafe stack and one
  list of handlers. Correct when no process finds its frames overwritten, every
  handler runs once and in reverse order, destructors run once, and the program
  ends as `main` ended.
- *Metadata table and allocators.* Correct when two words never share an entry,
  when the entry of a word is written whenever a pointer is stored there, and when
  copies move entries with the words. Hazards: reuse after free, `realloc`, overlapping
  copies, the reserve for globals, the end of the table.
- *Masks, regions and checks.* Three phases read and write one set of sensitive
  values, one after the other. Correct when an access is checked if its object is in
  the safe region and masked if it is not, when memory goes back to the heap it came
  from, and when the function keeps to what the analysis told its callers and
  callees. Hazard: a phase that adds sensitive values after another has acted on
  their absence.
- *Type set.* Correct when the answer depends on the type alone, not on what was
  asked before; hazard: a memo written in the middle of a walk through a cycle.

`PROJECT.json` lists each hazard at its line, with the properties that cover it.

## Plan

Done, in this order: `SensitivityAnalysis` (the core) and its proofs, `CallBounds`,
`StackSwitch`, `MetadataTable` and `TypeSet` with their proofs. Then what joins and
explains them: the abstract specifications `FatCalls` and `FatMemory`, with the
refinements and their proofs; `Regions`, the phases between the analysis and the
running program; `CompiledCalls`, which composes the analysis with the call
protocol; and the proofs about `StackSwitch` and `Regions`.

How the modules compose:

```
TypeSet           -> which types are sensitive
SensitivityAnalysis -> prog.sens of Regions (closed: FixpointIsClosed)
      |
CompiledCalls ----> CallAgreement <---- CallBounds -- CallBoundsRefinement --> FatCalls
 (delivers it)                    (assumes it)

MetadataTable -- MetadataTableRefinement --> FatMemory        StackSwitch
```

Next:

1. From `Regions` to `CallBounds`: that the functions `Regions` leaves behind are the
   functions of a program that `Agrees`, as `CompiledCalls` does for the analysis.
2. The startup copies of `argv` and `environ`, `strdup`, and allocation failure, with
   sizes in bytes.
3. `CallBounds` with threads: what the protocol needs of its environment.
4. `invoke` and calls with a variable number of arguments in `SensitivityAnalysis`.

## The sensitivity analysis

Module `SensitivityAnalysis`. The input, `prog`, is an LLVM module reduced to
what the analysis looks at: per function its parameters, the operand set of each
instruction (result included), its calls in order, what it returns, and which
names have a sensitive type. `Programs` is the set of modules analysed; it is a
constant, and `WellFormed` says what the LLVM verifier accepts. The order of
instructions within a function is left open, which is sound because the code
visits a function until a whole visit inserts nothing.

| Model | Code |
|---|---|
| `sens`, `isChanged` | `sensitiveSet.vals`, `sensitiveSet.isChanged` |
| `callInfos`, `functions`, `newFs` | `callInfos.data`, the function list of `M`, `newFsThisLoop` |
| an instance `<<f, signature>>` | a clone's name: the callee's name with `getSignatureString` |
| `todo` | the functions a call of `propagateSensitivity` has still to close |
| `PropagateInstruction`, `FunctionClosed` | one visit of an instruction; the end of `while (changed)` |
| `Init`, `CollectCalls` | the seeds (types, annotations), the first `makeCallInfoForEachCallInst` |
| `StartRound` ... `EndRound` | the `do ... while (sensitiveSet.isChanged)` of `analyzeModule` |
| `SkipCall`, `ReuseClone`, `MakeClone` | a turn of the loop over the calls: nothing needed, clone found by name, clone made |
| `CrossArg`, `CrossDone` | the argument loop of `propagateAcrossCallBoundary`, and the propagation after it |
| `ScanFresh` | the loop over the clones of this round |
| `Redirect`, `RedirectDone` | the loop of `runOnModule`, its `llvm_unreachable` included |

The details that matter are kept: `findSensitiveTypedValues` leaves `isChanged`
alone; literals are not inserted, and never sensitive, except those of a
sensitive type, which `findSensitiveTypedValues` inserts past the filter (`DS` 736; a
literal is one value in the whole module, so the model has these among
the globals of a sensitive type); `isArgSensitiveAtCallee` answers for all
positions once any parameter of the original is sensitive, and reads the
replacement of the round before; a clone made from an annotation has all its
parameters sensitive whatever its signature says; a call of `memcpy` whose
tied operands are not sensitive falls through to the general rule and may make
the function `memcpy` itself sensitive.

Properties: `EveryNeededCloneExists` (the `llvm_unreachable` is not reached),
`UnchangedRoundIsSettled` (the flag is a sound reason to stop, although calls
already examined may be disturbed by later ones), `FixpointIsClosed`,
`CallBoundaryAgrees`, `EveryCallCollected`, `OneClonePerName`, `Termination`, and
`CompiledProgramAgrees`.

The last one composes the analysis with what follows. Module `CompiledCalls` builds,
from the state the analysis ends in, the program `BoundsAnalysis` makes: for each
function which parameters are sensitive and how what it returns looks, for each
direct call which arguments have their bounds stored and whether the bounds of the
result are loaded. `CompiledProgramAgrees` says that this program meets
`CallAgreement`, the contract that `CallBounds` assumes. Results of functions that may
return a literal are left out: nobody stores bounds for them.

One thing that looks like a property and is not: a call's replacement is not
refined monotonically. With literal arguments it may go from one clone to another
and back, because literals never count as sensitive at the caller while the
replacement's parameters do. This does no harm: `isChanged` follows the values,
not the replacements, and the proof of `UnchangedRoundIsSettled` shows that a
call settled once stays settled while the values stay the same.

Finding, run `sensitivity_return`: the comment says that sensitivity crosses the
boundary "in both directions"; for return values it crosses from the call into
the callee only. A clone made for its arguments may return a sensitive pointer
to a caller that takes it for an ordinary one.

## Masks, regions and checks

Module `Regions`: one function, from the end of the analysis to the end of
`runOnModule`. A program is a sequence of instructions in SSA form, in which a value
is a position, with the set of sensitive values as the analysis has left it (closed,
which `FixpointIsClosed` delivers). The other functions of the module were told what
is sensitive by that set, `prog.sens`; the phases below go on changing `sens`.

| Model | Code |
|---|---|
| `replaceAllByNameWith` | every allocator becomes the unsafe one |
| `insertPointerMasks` | `Sandboxer`, in its three modes |
| `replaceCFuncsThatAlloc`, `moveSensitiveAllocsToHeap`, `replaceAllocationsWithSafe`, `replaceByValSensitiveArguments` | `MemoryRegioner` |
| `createBoundsForAllocations`, `insertBoundsStores`, `insertBoundsChecks` | `BoundsAnalysis` |
| `metadataCopy` | the loop over `llvm.memcpy` at the end of `runOnModule` |
| `pc = "unreachable"` | an `llvm_unreachable` of one of them |

Each phase is one step: none of its decisions depends on the order in which it
visits the instructions, and no other phase runs in between. An instruction
that is replaced keeps its name in the model, and is sensitive afterwards only if
the code inserts the replacement. `"gep"` stands for every instruction with one pointer
operand, `"malloc"` for every allocator without a case of its own, `"extern"` for a call
of a function without a body.

A global has infinite bounds (`DS` 2297, 2459), and an access with infinite bounds is not
checked (`DS` 3115). `hasInfiniteBounds` says which pointers have them: those derived from
globals without a merge on the way. Where pointers meet in a phi the bounds are new
ones, selected at run time, and the access is checked.

Properties: `GuardMatchesRegion` (an access that reaches the safe region is not masked,
and checked if the pointer may be to anything but a global; any other is masked
and not checked), `FreesMatchRegions` (a
heap gets back what it handed out), `StackObjectsMoved`, `SetIsKept` (in which functions the
set stays what the analysis left), `SlotsAgree` (such a function
stores the slots its callers and callees expect, and loads no others),
`CopiesTakeMetadata`, `GivesUpOnlyHere` (when `llvm_unreachable` can be reached).

`Contained` is the condition of `SetIsKept`: no call, of a function with a body or without,
takes a sensitive object, and no allocation
anything sensitive, without having a sensitive result itself, and no sensitive result is
replaced by an instruction that is not inserted. It speaks of what the analysis
left alone, so it can be decided before the phases run, and it is exact: where it fails, the
set at the end is another one.

They leave out, by name, what the code really does otherwise. `Shifted` are the values whose
sensitivity changes after the analysis: a replaced allocation or stack object
inserts all its users into the set (`DS` 778), an allocation becomes sensitive by
any of its operands, and a masked load or a replaced `mmap` drops out because the new
instruction is not inserted. A sensitive `mmap` has no safe replacement and
stays outside. A `realloc` with a sensitive size takes an unsafe block to the safe
heap; so does one whose size is the result of a call that got a moved stack object, which
makes the size sensitive after the analysis. A `memcpy` of pointers derived from
nothing but null copies no object. A sensitive `strdup` has been renamed to `__ds_unsafe_strdup` by the first phase,
which the later ones do not know, and ends the pass. All are reached in the run.

Finding, run `regions_mask`: with `p = malloc(n)` and only `n` sensitive, a store
through a pointer derived from `p` is masked, and the allocation becomes a safe
one afterwards. The debug runtime asks "we tried to mask a sensitive pointer?" and
stops.

By reading, not in the model: the library mode returns before any mask is
inserted (`DS` 3347), where the help text of its option says "just mask everything".

## Bounds across calls

Module `CallBounds`: a running program, after the pass. A site says how each
argument looks to the pass (`"sensitive"`, a literal `"null"`, `"plain"`); a
function says which parameters are sensitive and of which it needs the bounds.
The functions' own computations are left open: a function may use any pointer
it has, or a new object.

| Model | Code |
|---|---|
| `slots` | `__ds_fn_args_array`; slot 0 is the return value |
| `Left` | what a load leaves: `__ds_unsafe_region_bounds`, in a debug build `__ds_invalid_bounds` |
| `stack`, `passed`, `pending`, `returned` | the program's call stack and the call sequence in progress |
| `StartCall`, `PassArg` | the loop over the arguments in `insertBoundsStores` |
| `Enter`, `CallDeclared` | the call, of an instrumented function or of one without body or on the white list |
| `LoadArg`, `LoadResult` | `__ds_get_fn_arg_bounds` in the entry block and after the call |
| `Return` | the store of slot 0 before a return |

`Agrees`, in module `CallAgreement`, is the contract with the analysis: caller and
callee agree position by position, a call through a pointer agrees with every
function it may reach. For direct calls the analysis delivers it
(`CompiledProgramAgrees`); for the others nothing in the code
ensures it, and the run `call_bounds_indirect` shows one way it fails: a literal
null passed through a function pointer is not stored, and the callee
loads a slot that was emptied before. The debug runtime has an assertion against
exactly this. (A literal of a sensitive type is in the sensitive set and is stored like any
other value; `"null"` stands for the others.) Two more ways are excluded by `Agrees`, and no
run has them: a literal null that is returned is not stored, and neither is what a
library function returns, but the caller of a sensitive result loads slot 0 all the same.

Properties: `BoundsAreOwn` (every pointer received across a call has the bounds of
its object), `SlotsAreOfThisCall` (what is about to be loaded was stored by
this call) and `ImplementsFatCalls`.

The promise of the mechanism is module `FatCalls`: calls in which a pointer carries
its bounds itself. It has no slots, no sites and no signatures, and whatever a
function learns of a pointer is right. `CallBoundsRefinement` maps the running
program to it: the mapping forgets the slots and the call sequence, and keeps
the bounds each frame has in fact loaded, so that it hides no error. The call sequence is a
stutter until `Enter`; `LoadArg` is `Receive` and `LoadResult` is `TakeResult`, which
they are only if the slot held the right bounds.

## Bounds in memory

Module `MetadataTable`: the words of the sensitive globals and of the safe heap,
and one entry of `__ds_table` for each, found by `Hash` (`__ds_hash`). Addresses are
numbers of bytes, so that the hash is computed as in the code. A pointer is the
block it points to, and so are its bounds. The program is left open: it may
allocate, free, store and copy in any order, within the memory it owns.

| Model | Code |
|---|---|
| `LayoutAssumption` | the linker script's 0x100000000 and the two mappings of `__ds_init` |
| `Malloc`, `Calloc`, `Free`, `Resize`, `Move` | `__ds_safe_malloc` and so on; the last two are `realloc` in place and to another block |
| `Store`, `StoreLoaded`, `StoreData` | a store with the `__ds_set_bounds` that `insertBoundsStores` puts before it; the bounds are those of an object, or those `__ds_get_bounds` gave at a load |
| `Memcpy`, `CopyEntry`, `CopyDone` | `llvm.memcpy` and the `__ds_metadata_copy` inserted after it |
| `Memmove` | a copy for which the pass inserts nothing |
| `strays` | history: words whose pointer came without an entry |

The layout is an assumption because the kernel decides it. `__ds_init` asks for the
heap 4 KB above the globals. If they leave that free, the heap follows them and the
table, which is too large for the mspace, is mapped far above; otherwise the kernel
maps the heap elsewhere and the table below it. The two branches of `__ds_hash`
make both work, the first in a way its own debug assertion (line 103) does not
expect. The theorems are for both; the runs use the second.

`PointersKeepBounds`: a load gets the bounds of the pointer it loads. Words that a
pointer reached by `realloc`, `memmove` or `calloc` are excepted: there the entries
stay behind, or are those of an earlier owner. The property says that the exception
does not spread: a store or a copy of a good word makes a good word of a stray one,
and of what the model can do nothing else makes strays. In a program a `memset`
to zero does: it leaves null pointers over old entries, as `calloc` does. The model counts
the words it writes as data, `StoreData`, of which the property says nothing.

The promise of the table is module `FatMemory`: words that hold a pointer and its
bounds together, in which a memcpy is one step. The gaps are part of it: what
`calloc`, `memmove` and a `realloc` to another block write has bounds `Unknown`, until
the word is written again. `MetadataTableRefinement` reads the cell of a word from
the entry it hashes to; while a copy runs, the words its loop has not reached are read
from the entries of their sources. The loop of `__ds_metadata_copy` then changes
nothing that can be seen, and `ImplementsFatMemory` says so for every step.

Findings. `metadata_overflow`: the table has one entry per word of the heap, but the
heap's entries begin after `GLOBAL_RESERVE`, so those of the last words of a full
heap lie after the table, against the assertion in `__ds_hash`. `metadata_copy`: the
first word of the globals has entry 0, and `__ds_metadata_copy` asserts that no word
has. The model goes on where this assertion stops the program, as a build with
`NDEBUG` does.

## Sensitive types

Module `TypeSet`: the calls of `isSensitiveTypeRecursive` as a stack, `path`, with
the two memos and `loopDetector` as in the code. `Graphs` is the set of modules: the
kind of every type, what it is made of, and which types are annotated.

| Model | Code |
|---|---|
| `First`, `Candidates` | where the walk goes: element, target, or the first element of a struct that is not passed over |
| `Ask` | a call from outside, for any type |
| `IsKnown`, `IsLoop`, `IsLeaf`, `Descend` | the early returns, the type met again, the end of the function, the recursive call |
| `ReturnYes`, `ReturnNo` | what is inserted after the recursive call |

The loop over the elements of a struct returns in its first turn, so the walk is a
single path: a struct whose second element is annotated is not sensitive. The
reference of the properties, `Sensitive`, is the least set with the annotated types
that is closed under this walk; it says what the walk finds, and the properties say
that memo, loop detection and earlier questions do not change it. `MemoIsRight` is
the delicate one: in a cycle the type met again is remembered as not sensitive while
the calls between are still under way.

## Startup, the stack switch and exit

Module `StackSwitch`. `chain` is the list of processes: each has cloned the next
and waits for it, so only the last runs. All share the memory; every clone's
stack starts at the top of the one unsafe stack, and `stack` says which process
wrote each frame of it last.

| Model | Code |
|---|---|
| `Clone`, `Dies` | `__clone` in `clone.s`; the return from `waitpid` in `__ds_unsafe_clone` |
| `StartMain`, `CodeReturns` | `__libc_start_main`, and what follows the call in `clone.s` |
| `lists`, `head`, `slot`, `cxa_atexit` | the same names in `atexit.c`; lists are numbered from `builtin` |
| `EnterList`, `RunHandler`, `LeaveList` | the two loops of `__funcs_on_exit`, split where another process may run |
| `Finish` | the rest of `exit` |
| `NullHead`, `FrameOfExitLost` | a null `head` in these loops, which crashes, and a frame that has been overwritten |
| `CodeExits`, `CodeAborts` | `exit` and `abort` called by `main` or by a handler |

Frames are counted, not sized. `registered`, `ran`, `finis`, `wanted` and `left` are
histories. The locks of `atexit.c` are left out: with one running process they
are always free when they are taken.

A process that goes on in an overwritten frame has three outcomes in the model: it crashes,
it finds what it needs untouched and takes the other actions, or it does anything at all.
In the last case the program ends as `Undefined`, and nothing is claimed of what follows.

In every program, whoever exits and when, `HandlersRunOnce` and `HandlersInReverse`
hold, as far as the program is defined: of one that ends as `Undefined` they say what
happened before. The other properties hold as long as nobody has called `exit` or aborted
(`left` is false), and each fails afterwards: the handler's clone overwrites the
frames of the `main` that called `exit` (`FramesIntact`), a handler that called `exit`
leaves the loop that started it with a null `head` (`ListIsThere`), so that even
the first process may crash there (`StatusIsMains`), and destructors run in each
process that goes through `exit` (`FiniRunsOnce`). No text of the repository promises
otherwise; what goes wrong is in the model (`NullHead`, `FrameOfExitLost`), so that
the run covers what happens after them.

Finding, run `stack_switch_abort`: a failed bounds check aborts the clone, and the
waiting process reads `WEXITSTATUS` of a death by signal, which is 0. The program
then goes through a normal exit with status 0, where the README of the test `buggy`
says that it should abort.

## Runs

| Run | States | Shows |
|---|---|---|
| `sensitivity` | 132,747 (1,356 modules) | the analysis, with sensitivity from types, from clones made before the rounds and from annotated first arguments, in separation mode; the rounds end, under weak fairness, and the program that leaves the pass meets what `CallBounds` assumes |
| `sensitivity_return` | violation | return values do not cross back |
| `call_bounds_agreeing` | 214,025 (24 programs) | right bounds in programs that agree; they implement `FatCalls` |
| `call_bounds_indirect` | violation | a null through a function pointer meets the runtime's own assertion |
| `regions` | 1,000,030 (93,104 functions) | masks, heaps, checks, slots and copies of metadata fit together in a function |
| `regions_mask` | violation | an address in the safe region is masked |
| `metadata_table` | 317,712 | the right bounds in memory, no entry outside the table; it implements `FatMemory` |
| `metadata_overflow` | violation | a full heap has entries after the end of the table |
| `metadata_copy` | violation | entry 0 against the assertion of `__ds_metadata_copy` |
| `type_set` | 330,500 (18,522 modules) | the walk over types and its memo |
| `stack_switch` | 4,215,113 | startup and exit when `main` and handlers return, call `exit` or abort |
| `stack_switch_abort` | violation | an abort is reported as success |

Each property of a passing run has a mutant in `PROJECT.json`: a plausible bug,
written in the module under "Wrong:", that breaks it under the same configuration.

Bounds, and why they are enough to see the cases:

- `SensitivityAnalysis` itself has no bound; its runs have families of modules
  with three functions, three locals and at most two calls per function. They contain
  recursion, a chain of three functions, a shared clone, a call through a pointer,
  an external call, literals, address-taken functions, `memcpy`, and types that
  seed parameters or results. Functions are called at least twice with different
  sensitivity, so that clones are shared, refined and reused over three and more
  rounds. What is proved holds for every set of modules.
- `CallBounds`: `MaxDepth` = 3 bounds the stack, so that a recursive call and the
  call below it are both active; three slots; two objects, so that bounds can be
  of the wrong one. Callees leave slots full, empty them, or return pointers nobody
  asks the bounds of. The proofs are for every depth, number of slots and program.
- `Regions`: functions of six instructions with three parameters, a pointer, an object
  passed by value and a size. Two instructions make values (every kind of allocation,
  stack objects, loads, also of a null address, calls), two mix them (derive, merge, load, store, copy, pass,
  return early), one uses the result (load, store, free, realloc), and the last returns. A
  second family derives addresses from a global, alone and merged with other pointers, and
  passes objects to a function without a body. Each function
  is run under up to nine sets of sensitive values, closed as the analysis closes
  them. That is the shortest function in which a pointer is allocated, derived,
  stored, and freed or returned on one of two ways out.
- `MetadataTable`: one global and two heap words, in blocks of one or two. Each heap
  word can be freed and reused as part of the same block or another, a block is
  grown, shrunk and moved, and a copy can go within the heap and between it and the
  global. The constants keep the proportions that matter: globals exactly fill their
  entries, the last heap word has the last entry, and there is a gap between table and
  heap. A copy of two words to elsewhere takes four words, and with four a run takes
  too long once the refinement is checked as well (1,179,405 states; it
  passes). Those copies, larger blocks and the other layout are left to the proofs, which
  hold for all of them.
- `TypeSet`: three types, structs of up to two elements, one or two types annotated,
  which makes cycles of length one to three, with and without an entry from outside.
- `StackSwitch`: `COUNT` = 2 in place of 32 and five registrations (`MaxRegs`), which is
  two full lists and a half; two frames (`MaxDepth`), so that a clone can overwrite
  one frame or both; exit codes 0 and 259, the second to see the byte that is
  left of it. Chains of seven processes occur. The run that looks for the abort
  has two registrations and three frames.


Symmetry is not used: the families name their functions.

Fairness. `FairSpec` has `WF_vars(Next)`: the pass is one thread of the compiler,
which runs while it has a step to take; no fairness between actions is assumed,
and none is needed. The other runs check safety only. Deadlock is checked in every run.

## Theorems

Proofs are for every value of the constants that satisfies the `ASSUME`s of the
module: for any set of well-formed programs, finite or not.

`SensitivityAnalysis_proofs`, `TypeCorrect`. `TypeOK` alone is not inductive: a
list entry is indexed through the function it names. `ShapeInv` adds that every
instance named anywhere (in the work lists, in a `CallInfo`, in a sensitive value)
is a function of the module, and that a replacement is a clone of the callee.

`NoCloneTwice` (`OneClonePerName`) and `NoCallMissed` (`EveryCallCollected`), from `CollectedInv`:
`Waiting` are the functions whose calls have yet to be collected, in the first pass
over the module or among the clones of this round. Calls of the others have one
entry each, calls of those that wait have none, and a clone that is made waits.

`SensitivityRounds_proofs`:

- `NoCallLeftBehind` (`EveryNeededCloneExists`), `IsChangedIsSound`
  (`UnchangedRoundIsSettled`), `RedirectedCallsAgree` (`CallBoundaryAgrees`). The
  invariant is `RoundInv`: while `isChanged` is false the calls before `idx` are
  settled, and the one being crossed is settled up to `arg`. The two difficulties
  are replacements that change without a change of values, and clones. For the
  first, `GroundedInv`: a call with a replacement needs one whatever the
  replacement is. For the second, `WillChange`: a call for which a clone was just
  made is about to insert a value that is not there yet, since the clone's values
  are new.
- `FixpointReached` (`FixpointIsClosed`), from `ClosedInv`: in an unchanged round
  every function is closed, or still in `todo`, or a clone of this round.
- `AnalysisDelivers` (`CompiledProgramAgrees`), from `RoundInv` through `CallBoundaryAgrees`, and
  from the agreement of calls and callees on the number of arguments.

`CallBounds_proofs`:

- `TypeCorrect`, from `ShapeInv`: each frame but the last is in a call of the
  function of the next frame, and a prologue loads existing slots.
- `AgreeingProgramsKeepBounds` and `AgreeingProgramsLoadFreshSlots`: `Spec` and
  `Agrees(prog)` in the initial state imply `BoundsAreOwn` and `SlotsAreOfThisCall`
  for ever. `OwnInv` adds `PassedStored`: in the middle of a call sequence the slots
  of the arguments passed so far hold their bounds. `SensitiveIsStored` is where
  the agreement is used: what the callee will load, the caller has stored.

`MetadataTable_proofs`:

- `HashIsInjective`: words of globals and heap have different entries if the globals
  fit into theirs (`NGlobals <= GLOBAL_RESERVE`), in either layout.
- `TypeCorrect`; `EntriesStayInTable` (`EntriesInTable`) under `Fits`.
- `PointersKeepTheirBounds` (`PointersKeepBounds`) under `NGlobals <= GLOBAL_RESERVE`.
  The property is not inductive while a copy is under way: `CopyInv` adds that both
  blocks hold the same words, and that the words still to come are strays unless
  the blocks are the same.

`TypeSet_proofs`: `TypeCorrect`, `RecursionEnds`, `MemoStaysRight`, `CountStaysRight`,
`AnswersAreRight`. The invariant has two parts of interest. `PathInv`: everything in
`loopDetector` is remembered or still waiting, so a type met again that is not
remembered is on the path. `NonsensInv`: on the way back with "no", it is the types
remembered together with those still waiting that have no way out to an annotated
type; the remembered ones alone have not.

`CallBounds_proofs` again, `AgreeingProgramsHaveFatPointers` (`ImplementsFatCalls`):
`Spec` and `Agrees(prog)` in the initial state imply `Fat!Spec`. The invariant is
`OwnInv` again, which says what each slot holds when it is read; the rest of the proof
is one lemma per action, on how the stack looks when the slots are forgotten
(`TopChanges`, for a step that exchanges the innermost frame). These lemmas are the last part of
`CallBounds_proofs`.

`MetadataTableRefinement_proofs`, `TableIsFatMemory` (`ImplementsFatMemory`) under
`NGlobals <= GLOBAL_RESERVE`. To the invariant of `PointersKeepTheirBounds` it adds
`CopyApart`: the blocks of a copy are the same or do not overlap, so that no
source entry is overwritten before it is read. With `HashIsInjective` a step then
changes the cells of the words it writes and of no others (`OthersStay`), and a turn of
the copying loop changes none.

`StackSwitch_proofs`, for any number of handlers per list, of registrations, of frames
and of processes in the chain:

- `TypeCorrect` (`TypeOK`), from `ProcInv`: `head` is null before the first registration and
  after the lists are emptied, and `slot` is within a list while there is one.
- `EveryHandlerOnce` (`HandlersRunOnce`) and `LastRegisteredFirst` (`HandlersInReverse`), whoever
  calls `exit` or aborts in between. `ListInv`: the handlers still listed, from `head` and
  `slot` down, are those registered and not started, in order of registration. Both
  need the boundary of two lists to be right, where `head` and `slot` change together.
- `FramesAreKept`, `ListIsKept`, `DestructorsOnce`, `StatusArrives`. `ReturnsInv`: while nobody has
  called `exit` or aborted, there are at most two processes, the second is the
  only one on the unsafe stack, and the status of `main` is on its way up.

`Regions_proofs`, for functions of any length over the instructions of `Op`, with any
well-formed operands:

- What a pointer is derived from is a recursive function, `derivation`. The prover has no
  induction over data to offer, but it has well-founded sets: `LeastNatural` gives each set of
  positions a least one, and a least position at which a fact fails contradicts the
  recursion. So `DerivationEquation` shows that the function exists, and `DerivationStaysIn` that
  a set with `x` that is closed under the operands of casts and merges holds all that `x`
  is derived from. `DerivationAgrees` uses it: along a derivation sensitivity is one and the
  same, because the analysis has closed the set.
- `PhaseInv` says in terms of `prog.sens`, what the analysis left, what each phase has done:
  the set in closed form until the allocations are replaced (`SensInv`), the regions
  (`RegionInv`), the frees, copies, entries and slots. `DroppedInv` is the part that
  is easily missed: a value dropped by a mask or by `strerror` is not brought back by a
  later phase, since it has no operand but null.
- `GuardsFitRegions` (`GuardMatchesRegion`; accesses that can only be to globals, which have
  infinite bounds, are excepted from the check), `HeapsGetTheirsBack` (`FreesMatchRegions`) and
  `MetadataFollowsCopies` (`CopiesTakeMetadata`) follow through `SensitiveMeansSafe`: a base is in
  the safe region if and only if the pointer derived from it is sensitive.
  `NoObjectLeftOnTheStack` (`StackObjectsMoved`) and `TypeCorrect` follow at once.
- `BoundsAreFound` (`GivesUpOnlyHere`), with `BoundsAtHand`: where nothing has shifted, each
  allocation a sensitive pointer is based on has an entry.
- `ContainedFunctionsKeepTheirSet` (`SetIsKept`), from `KeptInv`. In one direction the set does
  not change from phase to phase: what uses a replaced object is sensitive
  already (`UsersAreSensitive`). In the other, what uses one is in the set at the end
  (`TakenInv`), so that where `Contained` fails something has shifted.
- `FunctionsKeepTheirSlots` (`SlotsAgree`) follows from both.

Two statements were stronger before they were proved, and wrong: `FreesMatchRegions` did not
leave out a `realloc` with a shifted size, nor `CopiesTakeMetadata` a copy from null to null. The
first was not in the family of before; TLC finds it in the present one. The second no
family had: only the proof, which has to hold for any operands, asked for it.

Three theorems say how far a finding goes. What they are about fails in a run, so
none of them holds without its hypothesis:

- `AgreeingProgramsPassTheAssertion`, from `OwnInv`: the assertion of
  `__ds_get_fn_arg_bounds_debug` holds in a program that satisfies `Agrees`. `call_bounds_indirect`
  has one that does not, through a pointer to a function.
- `OnlyTheFirstWordFails`: the assertions of `__ds_metadata_copy` fail at `BOUNDARY + 1` and at
  no other word, in either layout.
- `ContainedFunctionsMaskLow`, from `KeptInv`: where whatever uses an object is sensitive with it
  no masked pointer points into the safe region. `regions_mask` has a function where
  something is not.

Together: the analysis ends with a program that meets what the call protocol assumes
(`AnalysisDelivers`: `CallsFit` and `Agrees` of the emitted program), and a program
that meets it has the right bounds and behaves as if its pointers were fat
(`AgreeingProgramsHaveFatPointers`). Both theorems name the operators of
`CallAgreement`, so nothing is lost between the two. What remains an assumption is
listed with `Agrees`: calls through pointers, results of functions that may
return a literal, results of library functions.

## What is only model-checked, and what is not modelled

Only model-checked: `Termination` (liveness is out of the prover's reach). Every other
property of a passing run is stated by a theorem.

Most of the repository is third-party code: LLVM, clang, libc++, musl, dlmalloc, the
runtimes of the sanitizers. The DataShield code is one pass of 3,658 lines, one runtime
file of about 1,000, and small changes in musl, in the X86 back end and in the
driver. The models cover that, and nothing of the rest.

Not modelled in the parts that are covered:

- Analysis: calls with a variable number of arguments and `invoke` (the code
  indexes parameters past their end, and does not look at `invoke` at all); the
  functions and variables of mbedtls that are named in the source, of which the
  module keeps the effect (`firstArg`, `annotated`) but not the insertions after
  the rounds (`DS` 2034-2039, 2055-2060); a clone whose name is already taken.
- Masks, regions and checks: `errno`,
  `gettimeofday`, `memalign`, `select`, vectors and pointers stored as integers, infinite
  bounds of anything but globals (pointers made from integers, landing pads, functions, inline
  assembly, undefined values, what is loaded from `stdout` and its like), the
  arithmetic of masks and checks, the prefix and MPX modes, unwinding.
- Calls: more arguments than slots, threads.
- Table: copies that are not aligned or not whole words, pointers in vectors,
  initialisers of globals, infinite bounds of pointers made from integers, a heap so
  full that the mspace maps memory elsewhere, `strdup`, failing allocation.
- Types: vectors and functions, into which the walk does not go either; annotations
  it cannot parse.
- Startup: sizes of the copies of `argv` and `environ`, failing `mmap`, `clone`,
  `waitpid` and `calloc`, flushing of stdio, constructors and destructors that
  register handlers.
