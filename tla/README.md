# Tolza: a verification development

TLA+ models of the Tolza compiler and its toolchain, the TLC configurations that
model-check them, and TLAPS proofs about them. Paths are relative to the root of the
repository's sources; `P/` stands for `compiler/src/`.

1. The system
2. What is modelled, and how it corresponds to the code
3. The runs
4. Fairness
5. The proofs
6. Where the code and its documents disagree
7. What is not modelled, and the plan

## 1. The system

### Parts, state and interactions

| part | state it keeps | operations | talks to |
|---|---|---|---|
| driver and pipeline (`P/compiler/compiler.cpp`, `P/pipeline/`) | `COMPILER`: the units by index and by path, the sets `unprepared_`, `prepared_`, `analyzed_compilation_units`, the queue of bindings, the errors grouped by unit, `TARGET_MACHINE` | `start_compilation`, `query_CU_at_path`, `query_CUs_at_dir`, `prepare_cu`, `resolve_modules`, `engage_bindings`, `resolve_cu`, `codegen_cu`, `link_modules`, `emit`, `link_executable`, `add_error` | calls every part below, in order |
| lexer, token viewer (`P/lexer/`) | the tokens of a unit; a cursor | `lex`; `match`, `expect`, `next`, `look_ahead` | preprocessor, parser |
| metacode (`P/metacode/`) | the metacode of a unit: conditional and expanded parts, each with its tokens | `preprocess`, `Token_Generator::gen` | reads the lexer's tokens, writes the parser's |
| parser (`P/parser/`) | the tree; the current module, scope and breakable statement | one function per construct; `parse_import` and `parse_reexport` **create units while the driver iterates over them** | units, modules, scopes |
| recovery (`P/parser/recovery.cpp`) | the cursor | `recover` after an exception | parser |
| modules, scopes, definitions (`P/module/`, `P/scope/`) | per unit, a graph of modules (children, imports, exports) and of scopes | `enter_scope`, `exit_scope`, path search | parser, resolver |
| types (`P/type/`) | an arena with one type per shape | interning, cast and operator rules | resolver, generator |
| resolver (`P/resolver/`) | what every node resolves to, its type, its constant value | three passes: symbols, types, semantics | scopes, modules, types |
| code generator (`P/codegen/`) | the LLVM builder: insertion block, `current_bb_break`, `current_bb_continue`, `gotos` | one function per kind of node | LLVM |
| foreign functions (`P/ffi/`) | none | C headers and JSON to Tolza text | files |
| diagnostics (`P/misc/`) | none | formatting of errors | terminal |
| identifiers, pools (`P/id/`, `P/pool/`) | packed integers; vectors with stable addresses | allocation, lookup | all |
| options, environment, files (`common/src/`) | `OPTIONS`, the environment | merge of the command line and the configuration; listing and writing of files; `write_barrel` | all |
| toolchain (`toolchain/src/`) | none but `audit`'s shared counters | `build`, `check`, `compiler`, `audit`, `sync`, `new`, package stubs | files, the compiler's process |

### What is hard

- *Concurrency.* Only `tolza audit` runs threads: workers that claim files through an
  atomic index, a progress thread, a merge under a mutex, and files other programs may
  delete meanwhile. The compiler is one thread; its "wait" steps are loops.
- *Collections that change while they are walked.* Parsing a unit creates units; three
  sets and a map of errors decide when the preparation loop ends and what comes next.
- *Failure.* Errors are data (groups in `COMPILER.errors`), exceptions (the parser),
  assertions (Debug builds) and `exit` (`fail_fatal`); what each stage looks at differs.
- *Persistence.* `tolza sync` rewrites files in the user's source directory and may be
  killed between two writes. The next run cannot tell an empty barrel from user code.
- *Context in members.* The generator keeps jump targets in members that nested
  statements overwrite, and creates blocks long before it enters them.
- *Ordering.* A parent's barrel must be written after those of its sub-directories; an
  analyser must not see a partial tree; a total must not be read before the last merge.

### What makes each part correct

- *audit*: the totals contain every file that could be opened exactly once; the audit
  ends.
- *pipeline*: one unit per path; nothing prepared twice; the generator only sees a
  complete and clean front end; no binding is left out; the verdict and the exit are honest; the compiler ends.
- *sync*: a barrel names exactly the scripts beside it; no user code is lost.
- *statements*: every basic block has one terminator and phi nodes are complete; a jump
  goes to a live target; the blocks do what the statements say.
- *metacode*: no token of the code is lost, doubled or put into a block it is not in;
  the parser gets the chosen branches, in order (which it does not, section 6).
- *lexer*: it ends on every text; no character of the code is lost or in two tokens;
  instructions and interpolations are closed, which preprocessor and parser rely on.
- *parser*: a break is bound to the loop around it and a return to its function, whatever
  is nested between; what a function changes in the shared context it changes back; an
  operation binds as the levels say; a parse that never ends has reported why.
- *resolver*: a name has the type of its definition in whatever order units and names are
  met; inference ends; what is accepted fits: values, arguments and results.
- *arithmetic*: folded and generated operations compute what the language says, and a
  constant is the same wherever it is evaluated.
- *options*: the last layer that says something decides (of profiles it does not, section 6);
  a set of flags is what the layers put into it.

`PROJECT.json` lists the hazards one by one, at their lines.

## 2. What is modelled, and how it corresponds to the code

### AuditPool, AuditReport (`toolchain/src/command_audit.cpp`)

One action per step between two accesses to shared state. `index`, `processed`, `done`
are the atomics; `lock` is `stats_mutex`; `local` and `totals` are the statistics
objects, kept as *how often each file is contained in each ledger* (three categories and
the global line): a lost or doubled file shows whatever its lines are. The merge
(`operator+=` on four objects) is a load and a store, so that a missing mutex would be
visible. `Delete` is another program. `process_file` is `Open`, then `FileSize`, whose
exception terminates the process because the function is `noexcept`: the model ends in
"aborted", one of the ends of an audit, and the properties speak of the report of the others. `AuditReport` is the audit without threads: see, keep, report. `AuditPool`
refines it, with `kept` mapped to what the shared totals contain.

### Pipeline, StagedBuild (`P/compiler/compiler.cpp`, `P/pipeline/`, `parse_import`)

A unit is named by its path. The text of a file is reduced to the imports it contains
and the passes that find an error in it, both chosen by the actions. `phase` and `todo`
are the position of `start_compilation` and the units its current loop has still to
visit, in any order since the code's sets are unordered.

| action | code |
|---|---|
| `NoFiles`, `QueryDir` | `query_CUs_at_dir`, `find_tolza_files` |
| `BeginUnit`, `ParseImport`, `EndUnit` | `prepare_cu` and the parser it runs; `engage_bindings`' loop |
| `Hang` | an exception at the last token: `recover_sync` never leaves its loop |
| `Settle` | the end of the body of `while (!unprepared...)`, with both erasures |
| `ResolveModules`, `EngageBindings`, `BindingsDone` | `resolve_modules`, `generate_bind`, `engage_bindings` |
| `Resolve` | `resolve_cu`: its three passes, and its detection of errors by the number of groups |
| `Verdict` | the tests after the analyser, check mode included |
| `GenerateTargetMachine`, `Codegen`, `CodegenDone` | `generate_target_machine`, `codegen_cu` |
| `LinkModules`, `Emit`, `LinkExecutable` | `linker.cpp` |
| `AddErrors` | `compiler::add_error` with its exit under `fail_fatal` |

The unusual ends are kept apart: "crash" (null pointer, empty vector, assertion), "exit"
(`fail_fatal`), "hang". The properties accept them as ends of a compilation: that a blank
file or an unknown target may crash it, and a syntax error at the last token hang it, is
written in section 6 and is no property. `engage_bindings` stops at the first binding that
fails and its answer is dropped: `BindingsPrepared` says that the errors keep such a build
from the generator. A blank binding reports none, so the property excepts it. `StagedBuild` says what `pipeline.hpp` promises: units pass three
stages, and a stage starts when the required units have passed the one before.

### Barrel (`synchronize` in `command_workspace.cpp`, `write_barrel` in `fileutils.cpp`)

A file is absent, a barrel with the names it re-exports, or user code. A run writes one
directory after the other in an order `directory_iterator` allows, each in four steps:
`List`, `Rescue` (to `mod.tlz` or the temporary file), `Truncate`, `Write`. `Edit` and
`Crash` are the world around it. `Stem` and `DirName` are separate because the barrel is
named by `path::stem()`, which drops what follows the last dot: directories side by side may
share one (section 6), which the run's tree leaves out and two of the theorems do not.

### StructuredFlow, ControlFlow (`P/parser/statement.cpp`, `P/codegen/codegen.cpp`)

`StructuredFlow` is the language: the statements the parser accepts, with the relation
`follow` of the points of the program that may follow one another. `ControlFlow` is the
generator: every action is one step of the visit of the tree *and* the step of
`StructuredFlow` that says which statement it is, so TLC enumerates all functions up to
a size. `code` is the content of the basic blocks (points evaluated, terminators in
order), `frames` the C++ stack, `brk` and `cont` the members `current_bb_break` and
`current_bb_continue`. `Faithful` compares the two relations on finished functions.
`odd` records the constructs for which the code is known to fail (section 6); each
property says which of them it excludes, and none more than it must.

### Metacode (`P/metacode/`, on the cursor of `P/lexer/token_viewer.cpp`)

The constant `Files` is the set of token sequences the lexer may deliver: every
instruction is closed, the end of file comes last. The run puts them together from
pieces, each with whole instructions. The functions of the preprocessor call each other, so `frames` is their
C++ stack; `parent` and `expand` are `current_parent` and `current_expand`, and `step`
the place in `preprocess_any`. Each branch, scope and expansion is a record of `metas`
with its list of tokens; a token is its position.

| action | code |
|---|---|
| `If`, `Elif`, `Else`, `EndIf`, `StrayBranch` | `preprocess_if`, `_elif`, `_else`, `_if_end`; errors 137, 138 |
| `Expand`, `For`, `EndHeader`, `EndEach` | `preprocess_expand`, `_expand_header`, `_expand_body` |
| `Scope`, `EndScope`, `Inline` | `preprocess_metablock`, `preprocess_scope` |
| `Token`, `StrayEnd` | `add_token_to_generate` with `preprocess_token`; error 135 |
| `Unclosed` | what each loop does at the end of the file: errors 136, 139 to 141, 145 |
| `Crash` | `assert(current_expand)` and the write through it in `_expand_body` |
| `Generate` | `start_generator`, `gen_tokens` |

A condition is one token. Its operators build nodes that only `eval_cond` reads, and
nothing calls `eval_cond`, because no metacode below the root is ever generated.

### Lexer (`P/lexer/lexer.cpp` on `stream_tracker.hpp`)

`tokenize` calls itself for an instruction and for the expression of an interpolation, so
`frames` is the stack of running loops, and one action is one turn of the innermost loop:
a symbol, a word or number, a comment, a placeholder, the opening of an instruction or of
a literal, one character or escape of a literal, one token of a format specifier. A
character stands for its class; which keyword a word is does not matter to the loops.
`buffer` is `buffer_start_pos`, which some tokens begin with although it is another
token's. `last_op` is `static`: a session is a text with what the file before it left
there, and `Asserts` is the assertion of a Debug build on it.

### Grammar, ParserCode, Parser (`P/parser/`)

Every function of the parser is a list of steps (`match`, `expect`, a call, a loop, a scope
entered, a target set): `Grammar` holds them function by function, `ParserCode` the kinds
of steps they are built from. `Parser` executes the steps on the viewer and on what
the functions share: `scopes` with the names defined in them, `breakable` and `returnable`
(`current_breakable`, `current_returnable`), `abi` (`extern_abi`). `Leave` is the
exception with `recover` and `recover_sync`. The tree is left out but for `operations`,
the expression in postfix order. A parse is "accepted", "rejected" (it reported an error),
or it fails to end: "hang" (`recover_sync` at the last token), "spin" (a loop that consumes
nothing), "deep" (a function called again at the same token), "crash" (an assertion). A test
whose outcome depends on what the model leaves out is a choice (`either`). The types after
`T is` are a loop over `|` as in the code (`Alternatives`), although no text goes round it: the
lexer has no such token (`P/lexer/pool.cpp:174`).

### Passes (`P/resolver/`, `P/type/rule.cpp`, `P/scope/`, `P/module/`)

A program is data: nodes with their children, scopes, and two units with the aliases they
import. The handler of a kind of node is the list of what it does (visit a child, bind a
name, give a type, note a parameter, report an error); `stack` holds the handlers that have
not returned. `EndPass` moves a unit from names to types to semantics, `StartUnit` to the next
unit, and inference follows a name to its definition *in another unit*, which may not have
been through its first pass. `resolved`, `inferred` and `metadata` are the maps of
`COMPILER`. A name with a path is searched through the imports (`find_imports`,
`resolve_definition_from_import`). A failed assertion aborts the build that checks
them (`checked`); reading an invalid identifier is undefined and ends every build as
"aborted"; unbounded recursion is "overflow". The rules of casts, comparison and inference
are operators on types, which are tuples: equal exactly when the arena would share them.

### Arithmetic (`P/codegen/eval.cpp`, `P/codegen/tool.cpp`)

The same operation is computed in two places: folded, on the 128 bits of a literal, and
generated, on words of the type. A word of w bits is a number below 2^w. `cells` are the
two literals *in the syntax tree*, which power and minus write while they read, and
each unit (and each table whose size names the variable) evaluates the tree again.
`Documented` is the reference: what `docs/wiki/language/operators.md` says of
the numbers, with every value where it says nothing.

### Options (`common/src/common/compiler_options.cpp`, `P/pipeline/configurator.cpp`)

The fields of `Manifest` from a new workspace to `OPTIONS`: `write_manifest` and
`write_profile`, the user's edits with a merge mode, the command with its presets,
`read_manifest`, the loop over the profiles the manifest lists (which reads the manifest
again instead, and replaces the list it walks: `torn`), the profiles of the command,
and the command itself. A value is one of few: absent, the program's, the host's, the
file's, the command's. `Studied` chooses the fields one behaviour gives values to.

## 3. The runs

Every passing run explores its bounded instance completely. Deadlock is checked where
the system is not meant to stop by itself or says so with an action for its end. In
`Arithmetic`, `Options` and `Passes` a run of the program ends when everything is
evaluated, merged or resolved, so `CHECK_DEADLOCK` is `FALSE`.

| run | instance | what it shows |
|---|---|---|
| `audit_pool` | 2 workers, 3 files of 3 categories, one deletion each; 54,076 states | the totals are exact; no merge is lost; the audit ends; it implements `AuditReport` |
| `pipeline` | 2 source files, 1 library file, 2 bindings (one may be blank), 1 absent path, 1 import per file; 883,426 states | each unit prepared once, a clean and complete input for the generator, no binding left out, honest verdicts, the compilation ends, implements `StagedBuild` |
| `barrel` | 2 nested directories, 6 names, 2 user codes, 3 edits, 1 kill; 877,482 states | complete barrels, other scripts untouched, the last copy of user code survives a kill |
| `control_flow` | every function of at most 4 statements, 17 blocks, 1 label; 542,104 states | targets are open, finished functions well formed, phi nodes complete, the blocks do what the statements say |
| `metacode` | every file of at most 4 of 16 pieces; 365,990 states | the code is sorted without loss or duplicate, the generator finds every token, accepted files are closed, preprocessing ends |
| `lexer` | 9,046 texts of at most 5 characters from seven alphabets | every turn advances or leaves a loop; no character lost or doubled; instructions and interpolations closed |
| `parser` | the 51 forms of the language, each whole, cut at every place, with any one token left out or one of five put in at any place; every operation of three binary operators; 1,321,255 states | the bindings of break, continue and return; restored context; operator levels; no silent spin |
| `arithmetic` | words of 3 and 4 bits, literals of 6, two units, both builds, 62,760 initial states; 657,436 states | the named operations compute what the documentation says; a constant is one constant everywhere |
| `options` | every field alone and the two that are mixed up, three triples, lists of up to two profiles of which one exists; 2,374,820 states | options the profiles leave alone have the value of the last layer; flags are kept |
| `passes` | one variable with each kind of value against each type, calls with 0 to 2 arguments, each statement, initialisers in cycles, two units in both orders with chains of aliases, both builds; 129,654 states | only initialisers recurse without end; a name has its definition's type; accepted values and arguments fit |

The two other runs end in a counterexample on purpose; section 6 describes them.

Why the bounds are enough:

- *audit*: two workers are enough for every order of two accesses, three files for a
  worker that claims twice while the other claims once and the index passes the end.
- *pipeline*: the library file is reached only by an import or a re-export, a binding may be
  blank, absent, shared by two importers or imported by another binding; two sources give every
  order of preparation and one failing beside one that does not. `MaxImports` counts
  the imports of a file; one is enough to reach each kind of target, and a chain of
  imports uses one per file. `Asserts = FALSE` explores the Release build, which goes
  on where a Debug build stops.
- *barrel*: the inner directory is named with a dot, so its stem differs from its name and
  `copy_file` throws;
  three edits reach a script that is set aside, replaced and set aside again, and one
  kill falls between any two steps.
- *control flow*: four statements nest a loop in a loop with a jump and something after
  it, and give an if, elif, else with a jump in one branch. `MaxBlocks` is above what
  four statements create, so it cuts nothing.
- *metacode*: four pieces close an inner block in an outer one; one piece is the whole
  head of an expansion, so two nested expansions and their ends fit. Each instruction
  also occurs where it does not belong.
- *lexer*: each alphabet has the characters one part of the lexer looks at, and some that
  are foreign to it. No part looks more than three characters ahead, so four or five give
  every opening, every ending and a text that ends in the middle.
- *parser*: the forms are those of the hints of the parser's own error messages and of
  the language's pages, so every function runs; the edits reach every error path.
- *arithmetic*: three bits have a lowest number, a sign, words with the top bit set and
  divisors of both signs; at run time every pair of words is tried. Literals of 6 bits
  are wider than their types, as 128 are. `Int32` is 3: the code has shifts for i32 only.
- *options*: fields are merged one by one, so a second field matters only for `abi`, which
  the merge takes for the relocation model. Two profiles are needed for a list that is
  replaced while it is walked. What profiles set is left out of the two properties, since the
  code does not do what its document says of it (section 6); `debugs` of the manifest, which is never read, and
  sets with another mode than the union are left out of `FlagsKept`.
- *passes*: of the 1,848 ways the programs end 167 are accepted, 687 have reported errors,
  938 are aborted at an assertion or an undefined reading and 56 overflow, so none of the
  four properties holds for want of cases.

Each property of a passing run has a mutant: a definition of the model changed the way a
bug would change the code (a missing mutex, a guard dropped, a target not restored, a
cursor one token too far), under which the run finds the property violated.

## 4. Fairness

- `AuditPool`: weak fairness for the main thread, for the progress thread and for each
  worker. They are threads of the operating system that never wait for one another
  except at the mutex, which is held for a finite merge, and at `join`. Nothing is
  assumed of the program that deletes files.
- `Pipeline` and `Metacode`: weak fairness of the next-state relation. One thread runs
  and nothing blocks it. `CompilationEnds` counts "crash", "exit" and "hang" as ends:
  `recover_sync` at the last token is an endless loop of the parser.
- `Barrel` and `ControlFlow`: none; their properties are about safety. A user need not
  run `sync` again after a kill, so nothing is promised until he does.
- `Lexer`, `Parser`, `Arithmetic`, `Options`, `Passes`: none. That the lexer ends is
  `Advances`, stronger than a liveness property: each turn advances the cursor or leaves a loop,
  and a text has an end. The parser does *not* end on every text: `Failures` are its other
  ends, and `SpinsOnlyAfterError` says how much of a promise remains. `Passes` overflows on
  cyclic initialisers, and `OverflowThroughInitialisers` says on nothing else.

## 5. The proofs

TLAPS proves these for every value of the constants that satisfies the named assumption.
`PROJECT.json` lists the theorems.

**AuditPoolProofs** (from `AuditAssumption`: at least one worker, a number of
files, a category for each). `IInv` is the type invariant with

- `LockInv`: a worker between load and store holds the mutex,
- `ClaimInv`: the index of a claimed file is below `index` and belongs to one worker,
- `OpenInv`, `LedgerInv`: where a file is in its life, and in which ledger it is counted,
- `JoinInv`: after the join, every worker is done and every file settled.

`ReportExact` needs all of them: that the totals are right at the end follows only from
what every ledger contains at each earlier step. `Implements` shows with it that every
step of the pool is a step of `AuditReport` or a stutter: a merge keeps what its worker
counted, a termination finds a file seen, gone and not kept, and the report
finds everything seen kept. Theorems: `TypeCorrect`, `Invariance`, `ExactReport`,
`DisjointClaims`, `KeptMerges`, `Implements`.

**PipelineProofs** (from `PipelineAssumption`: the files found are listed once,
only a binding is imported as one, and the absent and the empty path are no files). `IInv` adds to the three properties it proves (`GeneratorInput`,
`VerdictHonest`, `StagesStop`) the facts of the collections: `UnitInv` (one unit per
path; prepared, analysed and compiled units exist), `LoopInv` (what `todo` and `current`
are in each phase) and `ErrorInv` (which units have a group, what a phase says about it).
Theorems: `TypeCorrect`, `Invariance`, `OneUnitPerPath`, `NeverPreparedTwice`,
`CleanGenerator`, `HonestVerdict`, `StoppedStages`, `BindingsComplete`, and `Implements`: every
step of `Pipeline` is a step of `StagedBuild` or a stutter. `BindingsComplete` has an invariant
of its own, `BindInv`: what a visited source file imports is queued, what is queued is still to
visit or prepared, or the build is `Broken` by an error or a blank binding, and stays so.

**ControlFlowProofs** (from `FlowAssumption`). The argument is ownership: each frame of the
C++ stack owns the blocks it has created and not yet entered (`OwnerInv`); owners are
disjoint, so an owned block is empty and is entered once. With `JumpInv` (where
`current_bb_break` and `current_bb_continue` point, per frame), `TargetsOpen`, `StackInv`
and `EndInv` (every block but the current and the owned ones has exactly one end) the
conjunction is inductive. One lemma per action.

`PhiInv` adds what the phi nodes know: a header has a value for every block that goes
to it so far, and the latch of a `for` under way is an owned block, so it has not gone
there yet.

`Faithful` compares the blocks with the program in a finished function, where the blocks
without a point have to be walked through. What is inductive is a relation `g` beside them:
the points from which control gets to the start of a block without meeting another one.
`Sound` says that `g` is carried by the branches made so far, that the finished blocks
without a point form no circle (`Grounded`), and that a point is the last of one block
only. `Holds` ties it to the program: `follow` is what `g` and the blocks link (`Told`),
`live` is what gets to the current place (`Here`), and what gets to the blocks a statement
owns are its `outs`, its `conts` or its condition (`Matches`). Only the latch of a `for`
waits (`Waits`): it is entered by nobody until the statement ends. `LoopInv` is the reason
why break and continue go where they should: the targets are those of the innermost loop
as long as no loop inside it is complete. A step evaluates points and makes branches in an
order that is always one of a few moves (`AddPoint`, `AddEdge`, `AddHead`, `AddTest`), which
are proved once. In a finished function the circle-free blocks give the recursive
`FirstPoints` a solution (`ReachedSolved`, the least one), and `Onward` shows that it says
what `g` says.

Theorems: `Invariant`, `TypeCorrect`, `EveryBlockEnds`, `PendingBlocksAreFresh`,
`TargetsAreOpen`, `FunctionsAreWellFormed`, `PhisAreComplete`, `BlocksAreFaithful`.

**MetacodeProofs** (from `FilesAssumption`: what the lexer guarantees of a file). `CoreInv`
is the type invariant with

- `StackInv`: each running function has a metacode of its own, created after those of
  its callers, and an elif or else runs on top of its if,
- `ParentInv`: `current_parent` is never below the metacode of the innermost function,
- `ExpandInv`: `current_expand`, when set, is the innermost expansion that runs.

An `# end if` does not restore `current_parent` (section 6), so `ParentInv` cannot say
where code goes; that it never goes further down is what the other arguments need.
`ListsInv` adds that the lists hold only positions behind the cursor, so a token is new
when it is added, and that the root gets nothing while an expansion runs. `ClosedInv`
follows the branches: a function that reads an elif or else hands over to it
(`Handover`), and a metacode without error is running, ended or handed over; with
`DoneInv` (no function runs when the generator has run) that is `AcceptedIsClosed`.
The three parts are inductive in this order, with one lemma per action for `CoreInv`.
Theorems: `TypeCorrect`, `StaysInside`, `KeptOnce`, `CleanInput`, `AcceptedClosed`.

**BarrelProofs** (from `BarrelAssumption`: the names of temporary files are no names of
barrels, and a directory is named by its parent and its name). `IInv` says what
`write_barrel` knows between two steps: while it rescues, the path of the barrel
holds user code; when it truncates, what stands there is elsewhere too, or is no user code;
when it writes, the file is empty. It needs nothing of the tree, so the theorems hold for any
directories, edits and kills. `LastCopy` names the one step that loses code, which is the
defect of `barrel_loses_code`. `CompleteInv` is about an undisturbed run: the directory in
hand is listed as it is and holds only directories that are done (`HandInv`), and what
is done is complete with all that is in it (`DoneInv`); so writing the barrel of one
directory, which changes the one around it, disturbs no finished one. Its theorem has
the hypothesis `StemsDiffer`: two directories side by side with the same stem write the
same barrel, and the second replaces the first (section 6). The run evaluates `StemsDiffer` for
its tree. Theorems: `Invariance`, `OthersKept`, `LastCopy`, `CompleteBarrels`.

**LexerProofs** (no assumption: the texts are of any length over the classes of characters).
`Inv` is the type invariant with `StackInv`: the loops lie on one another as `tokenize`
calls itself, and nothing but the outermost one is left at the end. `Turns` sorts the
actions by what a turn does to the stack and the tokens, so each later argument has a case
per shape instead of one per action. `LexerAdvances` needs that the searches for the next
newline, quote or bracket find a place behind the cursor (`LeastNumber`: a set of numbers
has a least one). The others count: the starts without an end among the tokens (`Balance`)
are the loops of that kind on the stack (`Hits`), at every prefix (`Within`), which is
`InstructionInv`, and `InterpolationInv` with an inequality for literals cut off; `LostInv`
follows, for each character, how many tokens cover it. Theorems: `TypeCorrect`,
`LexerAdvances`, `InstructionsAreClosed`, `InterpolationsAreClosed`, `NothingIsLost`.

**ParserProofs** (no assumption: the texts are any). Whether a call gives the context back
depends on every function of `Grammar`, on every way through it, so the functions are judged
first. A *mode* is what a function has done to its context so far: whether it has entered a
scope, and whether it has set the target it is about. `Judged` says what each kind of step
does to the mode (a `return` only at rest, a `break` only in the mode its loop came round
in, a call or a bind only where the target is set), and `Leads` that code leads from one
mode to another. It is the greatest such relation, a closed set of judgements, so steps
inside of steps need no induction. `FunctionsLead` goes through all functions: each leads
from rest to rest.

A state adds what is left to do. `Chained`, the inductive invariant, puts a *point* before
each step of `todo`: its mode, its call, and where the innermost statement and function
around it begin. Neighbours agree with the step between them (`Link`), the last point is
the file's, and the first one agrees with `scopes`, `breakable` and `returnable` (`Fits`).
Steps put in front keep a chain (`Ahead`, `Pushed`), steps left out do too (`Dropped`), so
a `break` far back to its loop and a `return` far back to its call are like any other
step. A function at rest has the context its mark holds, which is `ContextIsRestored`; and
where a target is set the context is what the points carry from mark to mark, which is
`LinksAreRight`. Theorems: `StepsFitTogether`, `ContextIsRestored`, `LinksAreRight`.

**ValueProofs** has the proofs of two small modules.

- *Arithmetic* (from `ArithmeticAssumption`: power and minus, which write into their
  literals, are not called unwritten). An operation of the others has exactly one
  outcome, which leaves the literals alone (`OneOutcome`), and generated code is never
  taken for a constant (`RunIsNoConstant`); so every constant of a variable is what its
  literals folded to in the source. Theorem: `OneConstant`, for any width and any number of
  units.
- *Options* (from `OptionsAssumption`: the fields studied are fields). While profiles are
  applied, a decided field is what the manifest says and flags hold what it sets and at most
  the program's default besides, because what is read in place of a profile is the manifest
  again; neither the list nor its freed memory matters. The merge of the command line then
  gives both properties, which leave out what profiles set: there the code does not do what
  its document says (section 6). Theorems:
  `Invariance`, `LastLayerDecides`, `KeptFlags`.

Some invariants are stated by theorems only, since a run would show nothing more:
`ClaimsDisjoint`, `UnitsUnique`, `StagesStop`, `BlocksEnded`, `PendingUntouched`,
`CodeStaysInside`, and the types of `ControlFlow` and `Metacode`.

Only model-checked:

- the liveness properties `AuditEnds`, `CompilationEnds` and `PreprocessingEnds` (the
  prover has no reasoning about fairness and `ENABLED`);
- of `Parser`, what relates a parse to its text. `SpinsOnlyAfterError` needs, for every
  function of the grammar, a second judgement beside the one `StepsFitTogether` rests on:
  whether the function consumes a token before it returns, with exceptions that depend on the
  result (`parse_statement`, `parse_local`, `literal_silent`) or on the first token
  (`literal_textual`, `return_flow`). No obstacle to that proof is known; it is not written.
  `OperatorsBind` compares with a recursive reading of the text, an induction over data;
- the properties of `Passes`, whose steps follow the trees of programs through recursive
  functions; what these compute for every tree is an induction over data, which the provers
  cannot instantiate;
- `FoldsAsDocumented` and `GeneratesAsDocumented`: arithmetic on powers of two and sums over
  bits, which is out of reach of the solver for words of any width.

## 6. Where the code and its documents disagree

### Shown by a run

| run | what happens | the text it contradicts |
|---|---|---|
| `imports_unprepared` | an imported library file is never lexed nor parsed | `P/pipeline/pipeline.hpp:27` |
| `barrel_loses_code` | user code moved to the temporary file twice: the first is overwritten | `common/src/common/fileutils.cpp:235` |

### Met while reading, without a run

Pipeline, statements, metacode, lexer and the toolchain:

- The resolver runs on the partial tree of a file with a syntax error: the check after
  `resolve_modules` is commented out (`P/compiler/compiler.cpp:137`, against
  `docs/wiki/compiler/pipeline.md:24`). Errors of the generator are read by nobody, so the
  compilation succeeds (`P/pipeline/codegen.cpp:61`, against `pipeline.md:42`). A failing linker
  returns without the errors being printed.
- A re-export is dereferenced as an import: null pointer (`P/pipeline/module_resolver.cpp:50`).
- A while or do-while whose body ends in a jump gets a second terminator in that block
  (`P/codegen/codegen.cpp:1490`, `:1522`), which the verifier refuses.
- No branch of an accepted `# if` reaches the parser (`P/metacode/token_generator.cpp:99`,
  against `docs/wiki/language/metacode.md:14`).
- Release builds: `generate_bind` queues the empty path of an absent binding and a unit
  is made for it (`P/compiler/file_info.cpp:29` asserts the contrary).
- The temporary file of `sync`, `.foo..tlz`, has the extension of a script and is
  re-exported by the barrel of its directory. Without a directory for `mod.tlz` the copy throws
  in a `noexcept` function (`common/src/common/fileutils.cpp:247`).
- Directories side by side whose names differ only behind the last dot share one barrel, and
  the second to be written replaces the first (`common/src/common/fileutils.cpp:223`, against
  `toolchain/src/command_workspace.hpp:18`, "generate all necessary barrels, indexing subdir
  scripts inside").
- A file deleted between its reading and `fs::file_size` ends the audit without a report
  (`toolchain/src/command_audit.cpp:99`).
- A blank file makes the preprocessor read past an empty vector (`P/pipeline/preparer.cpp:54`),
  an unknown target leaves a null pointer (`P/pipeline/codegen.cpp:87`). A blank binding stops
  `engage_bindings` without an error, and the other bindings are left out silently.
- `break` or `continue` after a nested loop of the same loop generates nothing: the
  targets were reset to `nullptr`. `break` in a do-while leaves the loop around it.
- A label is entered without a branch from the block before; a `goto` inside its own
  label recurses for ever.
- `resolve_Statement_If` never visits `alternative_statement`: symbols in elif and else
  stay unresolved (`P/resolver/symbol.cpp:376`). `For_Items` ignores `end_included`.
- Metacode: an `# if` directly after an `# end if` or another instruction is read as a
  word of a metablock, not as a condition; a placeholder is looked up by the text of the
  token behind it; a placeholder outside an expansion and a nested expansion crash
  (the generator has error 248 for the first); what follows an `# end if` joins the
  branch and is lost with it; a file of metacodes only gives the parser an empty vector;
  `Graph::Audit::get_metacode_from_pos` has a loop that never runs; xnor is evaluated as
  and. The documents write `meta if`, the code reads `# if`.
- Lexer: `""` and a literal that ends in an interpolation are reported unterminated; the
  text after an interpolation overlaps the expression; `\"` ends a literal; a `//`
  comment directly followed by a newline swallows the next line; `/**/` does not close;
  word operators have no word boundary; the `static` guard against endless loops
  survives from file to file.
- `recover_sync` never resumes, and hangs at the last token (`P/parser/recovery.cpp:28`).
- `generate_c_api_wrappers` lists the destination (`P/ffi/c_reader.cpp:163`) and its test
  of the file is inverted; wrappers are regenerated by modification time only.
- Units of the same stem share the name of their `.ll` file (`P/pipeline/codegen.cpp:155`).

Parser:

- Three forms of the parser's own messages are rejected: contracts
  (`P/parser/declaration_global.cpp:421`), `match other` (`P/parser/statement.cpp:251`) and
  `mod m {...}` (`declaration_global.cpp:105`). A file that ends in `;` or in an expression
  hangs. `use MyFacet {...}` spins, a facet in braces as in `sfm_form.md:131` crashes, and so
  do `table()` types without `;` and `a.b()`.
- `fn n() => }`, `fn lam n()`, `f(1 2)` and a block that the end of file closes are accepted.
  `continue` in a match in a loop is bound to the match (`statement.cpp:58`). A nested
  `extern` clears `extern_abi`. An enum pattern needs `((`. Unary operators bind loosest,
  against the comment at `P/parser/operation.cpp:20`. `T is A | B` cannot be written, against
  the comment at `declaration_global.cpp:506`: the lexer has no `|`.

Resolver:

- Definitions are in `COMPILER.resolved` before the symbol pass (`P/parser/preparer.cpp:112`),
  so its guard returns at once for local variables, parameters and labels: names in their
  initialisers stay unresolved. Names in operations are never resolved. Inference follows names
  into bodies of units whose symbol pass has not run, in the order of an `unordered_set`.
- The semantic pass aborts on an `if` without else, on `return;`, on a `for` without index and
  on a `match` without other case. The base of a `match` must be bool
  (`inference.cpp:675`, against `docs/wiki/language/flow.md:40`). Conditions joined by `&&` let
  `var x: bool = 3` pass (`inference.cpp:207`). A record's field is reported unknown when it
  is found. A call in a default value is never checked; variadic functions accept missing
  arguments. The cast of a form to a view never holds (`P/type/rule.cpp:117`).
- Cyclic initialisers recurse without end. `COMPILER.errors.size()` counts units, so a second
  error of a unit is not seen as one.
- Of several imports with one alias the first unit wins silently; imports outside the root
  scope of a file are never found. `get_src`, `get_std` and their neighbours are off by
  one (`P/module/pool.hpp`).

Arithmetic:

- Folds swap quo and rem (`P/codegen/eval.cpp:138`, against `docs/wiki/language/operators.md:26`);
  shift-left-a falls through to a shift right; power and minus change their literals
  (`eval.cpp:178`, `:561`); `1 + 2.0` dereferences null; a literal 300 of type u8 is 44; a
  folded constant keeps 128 bits whatever its type.
- At run time signed quo is wrong at the lowest number, unsigned mod and quo for words
  with the top bit; unary signs work on the bits below the sign; coercion sign-extends
  unsigned words; `==` on floats is exact, and within 4 ULP in folds.

Options:

- The contents of profiles are never read: for each profile whose file exists the manifest is
  read again (`P/pipeline/configurator.cpp:22`). `docs/wiki/compiler/profile.md:7` says that
  profiles "override or extend these defaults", `:17` that "the value from the last applied
  profile takes precedence". An option a listed profile sets therefore has the value of the
  manifest or of the command, and flags a profile adds are missing.
- The loop over the listed profiles replaces the list it walks and reads freed memory
  (`P/pipeline/configurator.cpp:17`). The command's defaults override the manifest's directories, optimisation, levels
  and diagnostics; its default relocation model overrides `abi`, and no relocation model is ever
  merged. `--preset` drops the architecture and the options before it. `warn.level` is written
  as a number and read as a name; the two keys of `[diagnostic]` are crossed between manifest
  and profile; `override` keeps what was there; a written profile is commented out altogether.

## 7. What is not modelled, and the plan

| next | module | states and properties |
|---|---|---|
| 1 | `Extensions` | the search of extensions by type and operator and what a duplicate does |
| 2 | `Generator` | declarations, calls and types: an order of declaration that leaves nothing undeclared when its use is generated |
| 3 | `AuditCommands` | build, check and sync as one protocol with the compiler's process and the files between them |

Theorems next: `ValuesFit` and `ArgumentsBound` of `Passes`, which look at one statement at a
time, under the shape of trees the parser guarantees.

Not modelled, and why:

- Vendored libraries, the formatting of diagnostics, dumps and help texts: no property is
  about their wording.
- The reader of C headers (through libclang, whose cursors a model would have to invent) and of
  JSON descriptions; the directories of the environment; the package commands, which are stubs.
- Debug information and the generator for declarations the code marks `NOT_DEFINED`, `match`
  among them; operations on tables, texts, facets and forms.
- Code nothing calls: `P/resolver/evaluable.cpp`, `eval.cpp` and `dumper.cpp`, the
  generator's branches of `P/metacode/`, `Manifest::to_args`, `generate_clang_args`,
  `generate_preprocessor_args`, the table of casts in `P/type/rule.cpp`, `enter_module`.
- The nodes the parser builds (but for operations), positions in lines and columns, the packing
  of identifiers into integers, which asks for 2^32 nodes to matter.

The components with their status are in `PROJECT.json`.
