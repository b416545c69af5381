# Verification of vcc, the V compiler

TLA+ models of the compiler in `src/` (`src/src/` and `src/include/vcc/` are its sources), checked
with TLC on small instances, and theorems about them proved with TLAPS. The models are translated from the code; the
documents (`docs/grammar.md`, `docs/syntax.md`, `docs/V_LANGUAGE_V01_PLAN.md`, `README.md`) supply
the properties. Paths below are relative to the repository unless they name a module.

## 1. The system

`vcc` is a sequential batch compiler. One process reads options, then takes the input files one
after the other through lexer, parser, semantic analysis (three passes), IR generation, LLVM IR
emission, `llc` and `gcc`. Nothing runs concurrently and nothing is persisted but the output files;
what makes it hard is that each stage is a recursive walk that carries *mutable side state*
(positions, a scope stack, the "last" register or type, a current block, a shared error counter)
which must be right after any nesting and any failure.

| component | state it keeps | operations | interacts through |
|---|---|---|---|
| Lexer (`lexer/Lexer.cpp`) | `pos_`, `line_`, `column_` | one round per token or blank; comments, numbers, strings, characters, operators | hands the parser a token list; counts errors in the diagnostics |
| Parser (`parser/Parser.cpp`) | `pos_`, the call stack, the synthetic `main` | a function per construct, Pratt loop, `synchronise`, `catch (...)` in `parse` | token list in, AST out, diagnostics |
| Symbol table (`semantic/SymbolTable.cpp`) | stack of scopes | `define`, `lookup`, `enterScope`, `leaveScope` | shared by passes 2 and 3 |
| Semantic analyser (`semantic/SemanticAnalyzer.cpp`) | current function, the table | pass 1 hoists, pass 2 resolves names and checks assignments and calls | calls the type checker on the *same* table |
| Type checker (`semantic/TypeChecker.cpp`) | `lastExprType_`, `hasReturn_` | pass 3: rebuilds the inner scopes, infers and compares types | reads what pass 2 left in the global scope |
| IR builder and generator (`ir/IRBuilder.cpp`, `ir/IRGen.cpp`) | blocks, insert point, counters, `lastReg_`, `varSlots_` | a visitor per statement; suspended visitors keep labels and registers in locals | reads the AST; relies on the analyser's verdict |
| LLVM code generator (`codegen/LLVMCodeGenerator.cpp`) | maps from labels to blocks and from registers to values | create blocks, emit, implicit terminators, verify | reads the finished IR function |
| Driver (`driver/main.cpp`, `driver/Compiler.cpp`) | options, error count, results, files | option loop, file loop, stages with early returns, clean-up | runs everything; `llc` and `gcc` are external processes |
| Diagnostics (`common/Diagnostics.cpp`) | the list of diagnostics and its counts | `emit`, `hasErrors`; the renderer finds the line and places the caret | shared by all files and stages, never reset |
| AST (`ast/*.h`) and its dumper (`ast/ASTDumper.cpp`) | the tree; the dumper's one string `prefix_` | a visit per class, `printChild` | built by the parser, read by everything after it; `--ast` prints it |
| IR printer (`ir/IRPrinter.cpp`) | a map of names per function | `buildNameMap`, `printInstr` | reads the finished IR; `--dump-ir` prints it |

Tokens and source locations, the code generation stubs and the `vcc-dump-ast` tool have no behaviour of
their own and are not modelled (section 8).

**What is hard here.** Long legal inputs whose nesting leaves side state wrong (labels,
terminators, slots, scopes, `lastReg_`, `lastExprType_`, the dumper's `prefix_`); values that lose their order or
their type between the tree, the IR and LLVM; signatures that are guessed from instructions; lookahead and ambiguity (comments in strings, `1..2`, dangling else,
optional parentheses, statements without terminator); error recovery and an exception that unwinds
in the middle of a body; loops that must consume a token; passes that must agree on a shared table;
partial failure of a pipeline that writes and removes files; an error count that outlives a file;
arithmetic at a boundary (columns, end of source). `PROJECT.json` lists each at its line.

**What makes each component correct.** Lexer: every character is in a token, a blank or a comment,
tokens are maximal and located. Parser: ends on every input, accepts what the grammar derives with
the grammar's tree, reports the rest. Semantic analysis: reports the violations of scoping and typing and nothing else.
IR generator: one terminator per block, unique labels, no dangling branch, the control flow and the
variables of the source, every operand defined. LLVM: passes the verifier, keeps that flow, and computes what the tree means,
effect by effect. Diagnostics: every fault is reported, at its place, and the caret stands there. Dumper and printer: the text determines what it shows. Driver: exit code 0 exactly when all
passed, fail-stop, output where asked, no source harmed.

## 2. Modules

| module | what it is | code |
|---|---|---|
| `Lexer` | the tokeniser as a state machine: an action per kind of token or blank | `Lexer.cpp` |
| `LexerRules` | the reference: where comments, strings and tokens are, token classes, locations | docs |
| `Diagnostics` | the engine and the renderer as operators: counts, the line of a location, the blanks before the caret | `Diagnostics.cpp` |
| `Rendering` | what a reader of the rendered panel sees, over `LexerRules` | terminal, docs |
| `MCLexer` | alphabets for TLC | |
| `LexerProofs` | inductive invariants of `Lexer`, its ends of strings, comments and tokens against `LexerRules`, its diagnostics against `Rendering`; theorems | |
| `Parser` | the recursive-descent parser with an explicit stack `todo` of what the suspended C++ calls still have to do; one operator per parse function | `Parser.cpp` |
| `Grammar`, `ParserGrammar` | the grammar as productions, and the parser composed with a derivation that runs one token ahead of it | docs |
| `MCParserGrammar` | roots, tokens and budgets of derivations | |
| `Sema` | passes 1 to 3 and the symbol table | `SemanticAnalyzer.cpp`, `TypeChecker.cpp`, `SymbolTable.cpp` |
| `SemaRules` | the reference: lexical scoping, mutability, calls and types stated over the list of nodes, without a symbol table | docs |
| `MCSema` | pools of declarations, statements and expressions | |
| `IRGen` | lowering of one function body: builder, visitors, slots | `IRGen.cpp`, `IRBuilder.cpp`, `IRModule.cpp` |
| `StructuredFlow` | the control flow that a body means, independent of blocks | docs |
| `IRUses` | what the blocks of `IRGen` say: branches, dominance, the slots that names use; the properties of registers and slots | |
| `IRFlow` | `IRGen` and `StructuredFlow` in step; the property of the flow graph | |
| `LLVMLower` | lowering of the finished IR to LLVM blocks, composed with `IRFlow` | `LLVMCodeGenerator.cpp` |
| `ExprGen` | declarations of a module, straight-line bodies and every expression: visitors, registers, slots, the active function | `IRGen.cpp`, `IRBuilder.cpp` |
| `ExprMeaning` | the reference: what such a body means, its value and its effects in order | docs |
| `ModuleLower` | LLVM instructions, types and symbols of the module that `ExprGen` made | `LLVMCodeGenerator.cpp` |
| `ModuleRuns` | a run of those instructions, compared with what the functions mean | LLVM |
| `IRPrinter` | the text of that IR | `IRPrinter.cpp` |
| `MCModules` | families of modules | |
| `IRGenProofs` | inductive invariants of `IRGen`: builder and blocks, labels, uses; theorems | |
| `ExprGenProofs` | inductive invariants of `ExprGen`, and of `ModuleLower` on top of them; theorems | |
| `ParserProofs`, `SemaProofs` | inductive invariants of `Parser` and `Sema`, the symbol table against the rules of `SemaRules`; theorems | |
| `LowerProofs` | inductive invariant of `LLVMLower` on top of those of `IRGen`, theorems | |
| `AST` | the classes of nodes and what each owns | `ast/*.h` |
| `ASTDump` | the dumper as a stack of visits over a tree made up as it is walked | `ASTDumper.cpp` |
| `MCDump` | families of classes | |
| `ASTDumpProofs` | inductive invariants of `ASTDump`, theorems | |
| `Batch` | abstract specification of an invocation | |
| `Driver` | options, files, stages; implements `Batch` | `main.cpp`, `Compiler.cpp` |
| `MCDriver` | command lines | |
| `DriverProofs` | refinement, fail-stop, and theorems about the files | |

What composes what: `Rendering` extends `LexerRules`, which extends `Lexer` (and uses `Diagnostics`); `ParserGrammar`
runs `Parser` beside `Grammar`; `SemaRules` is over `Sema`; `LLVMLower` extends `IRFlow`, which runs `IRGen` beside
`StructuredFlow`; `ModuleLower` extends `ExprGen`, `ModuleRuns` extends that and compares with `ExprMeaning`; `MCModules` adds `IRPrinter`; `Driver`
implements `Batch`. The two IR models split the generator: `IRGen` has statements, nesting and blocks with opaque expressions,
`ExprGen` has expressions, operands and functions with straight-line bodies.

`PROJECT.json` maps every definition to its lines of code.

## 3. How states and actions correspond to the code

**Input is nondeterminism.** Tokens, statements or nodes are *revealed* one at a time by the actions
that consume them, so a behaviour is one input and one run over it; all inputs
within the bounds are covered. (The lexer's source is chosen at the start.)

**Lexer.** A character is one of the classes the lexer tells apart. `pos` counts from 1; `MoveTo`
moves `line` and `column` over a stretch as repeated `advance()` does. `column` of a token is taken modulo `Word`, the
width of `uint32_t`. `state = "abort"` is the failed `assert` in `advance()`. Keywords are identifiers. `diag` is the diagnostics engine;
each action emits where its function calls `error`, with the location that the function had at hand.
`Rendering` takes the text that the renderer makes for a location, with tabs as wide as a terminal shows them.

**Parser.** `todo` is the control stack: `DoCall` expands a call to the items that the function of
the same name stands for at the current token; `DoExpect`, `DoMatch`, `DoTake`, `DoUntil`, `DoMore`
are the helpers and loops; `DoThrow` is the exception of `std::stoll`/`std::stod`, which unwinds to `parse`;
`DoSync` is `synchronise`; `Finish` adds the synthetic `main`. A node is its kind and span, which is
enough to tell any two trees of one source apart.

**Sema.** `Hoist` is pass 1. Pass 2's visits append the visited node to `log`; pass 3 (`Check...`)
goes through `log` again with the table that pass 2 left. `if`, `while`, `vloop` and `match` are
a `cond` expression followed by a block, because neither pass treats them otherwise. `found` records what every use was resolved to and
`errors` every diagnostic with its node, for the properties only. A module is written from one *pool*: declarations,
locals, expressions, statement kinds and how many of each.

**IRGen.** A `Visit` action is a visitor up to the recursive call for a nested body; a frame keeps
what the suspended call keeps in locals (labels, subject register, slot); `End` actions are the rest of the
visitor. Expressions have no control flow in the code (`&&` and `||` evaluate both sides), so an
expression is an instruction with a fresh register. `env` and `here` say what the analyser accepts and
resolves; `reads` and `writes` record the resolved slots, for the properties. `Lang` lists the kinds of statement in use,
including freedoms such as `shadow` (a declaration may hide another) that the
code handles wrongly (section 6).

**ExprGen.** A node is revealed when its `accept` is called: `Visit...` is the visitor up to its first nested `accept` (all of a
leaf's), `Lower...` the rest; a frame on `visits` holds the trees of the operands seen so far and the registers that the
suspended visitor has put aside. `last` is `lastReg_`, `slots` is `varSlots_`, `fn` the builder's active function; an
instruction has its operands. The `kind` of a value and `Fits` keep to programs of the language; what the
code generator is known to get wrong is in `Lang`, as above. Straight-line code is enough here, because a value crosses a block
boundary only through a slot or a register, which `IRUses` follows.

**ModuleLower.** `LowerFunction` is one round of the loop over the functions: `emit` is folded over the IR, a value has the LLVM
type it is made with, an unknown register is an `i64` `undef`, and `syms` are the symbols with the signature that the code gives them.
`VerifyModule` is LLVM's verifier (external): types of operands and calls. `Run`, in `ModuleRuns`, interprets the accepted code; a
value is a term over parameters, literals and results of calls, so two equal terms are equal for every input.

**LLVMLower.** `CreateBlocks` (the later of two blocks of one label wins the map), `LowerBlock` (emission
stops at the first terminator, else an implicit one is added), `VerifyModule` (external: terminators,
pointers, dominance).

**ASTDump.** `calls` is the stack of visits under way, each with the children still to print and the `prefix_` that
`printChild` saved in its local; `printChild` is the step into a child, `return` the step out of it. `AST` lists for
each class what its nodes own (one, an optional one, or many of a kind), and the tree is chosen
as it is walked; the order in which `visit` takes the members is that of the dumper.

**Driver.** One action per stage with each early return; what a stage finds, and whether a
file can be read, `llc` and `gcc` succeed, is chosen freely. A path is a directory, stem and extension because names of intermediate files are
made by `replace_extension`.

## 4. Runs

Every run is exhaustive within its bounds. Deadlock checking is on in all of them but `Dumps`, because a dump ends; the other
modules have a named final stutter.

| run | module | bounds | shows |
|---|---|---|---|
| `Sources` | `MCLexer` | every source of up to 6 characters over 7 alphabets | tokens cover exactly the program text, and are maximal and well formed unless they are malformed numbers; every fault of the source is reported once, in order, on its line; the caret of a diagnostic at a token stands under it; tokenising ends |
| `Recovery` | `Parser` | every sequence of up to 5 tokens over 9 kinds, one a literal that makes `stoll` throw | the parser ends; unpaired brackets and exceptions never go unreported |
| `Derivations` | `MCParserGrammar` | everything 4 roots derive within a budget of 3 or 4 | what the grammar derives is accepted, with the grammar's tree |
| `Analysis` | `MCSema` | 3 pools: 2 declarations and 2 statements, or 1 and 3 | diagnostics are faults of names and of types and nothing else, and are complete except at assignments to parameters, calls of functions without parameters and arguments of the wrong type; passes 2 and 3 agree |
| `Programs` | `IRFlow` | 3 statements, 3 deep, 2 arms, every documented statement but a `vloop` with a condition (`Lowering` has it); `break` and `continue` only behind a `return` or `exit` | blocks close once, no branch dangles, unique labels, the source's control flow, dominance, right slots |
| `Lowering` | `LLVMLower` | 3 statements (of loops, `while` and `vloop`; no assignments), 2 deep, 2 arms | LLVM's verifier accepts, flow is kept, no operand is `undef` |
| `Modules` | `MCModules` | 7 families: operators, order of evaluation, builtins and ends, arrays and placeholders, calls between functions (3); 1 to 3 statements and 2 to 7 nodes a function | the verifier accepts, the LLVM code has the value and the effects of the tree in their order, calls reach definitions, no operand is undefined; printed names tell values apart |
| `Dumps` | `MCDump` | trees of up to 7 nodes, lists of up to 2, over declarations, statements or expressions | shape and children of the tree can be read back from the text |
| `Invocations` | `MCDriver` | about 80 command lines of one or two files | the batch contract, fail-stop, outputs, clean-up, termination |

*Why the bounds are enough to be interesting.* Six characters hold a nested comment, a string with an
escape, a comment sign in a character literal, `1.1..1`, or `1.1e+1`. Five tokens hold a parameter list with an error, a body that throws and its rest at top
level. A budget counts expansions of optional or repeated parts, so three operators or four declarations
with nesting. Two declarations and two statements give a redefinition, a shadowed parameter, an implicit
variable and its use; three statements in one body a name hidden and found again. Three statements three deep give every pair of nested
statements with code after them: labels wait in suspended visitors while others are issued, and a
terminated body meets every kind of visitor. Seven nodes hold two nested operators with a call, an assignment or
a division on either side, and an array of calls; two functions hold a call with parameters and a
register, slot or name left over from the other. A dump's `prefix_` is wrong, if it is, as soon as a subtree two deep is followed by a
sibling of its root, which takes five nodes; seven are an `if` with both branches filled. Two files give every influence that an earlier file has on a later one.

*Fairness.* `Lexer`, `Parser` and `Driver` have `WF_vars(Next)`: the program is one thread without
waiting, so it takes its next step as long as there is one. `llc` and `gcc` are assumed to end. The other
modules claim safety only and have no fairness.

Runs that show a disagreement (expected violations):

| run | what it shows |
|---|---|
| `StructHang` | a token that begins no field makes the loop of a struct body run forever (`Parser.cpp:293`), against `Parser.h:22`. Under weak fairness of the whole parser, so it is a real loop, not a stop |
| `ParameterAssigned` | a parameter without `mut` may be assigned (`SemanticAnalyzer.cpp:338`), against `syntax.md:369` |
| `ForwardCalls` | a call of a function defined later in the file goes to a symbol without a body, and the definition gets another name (`LLVMCodeGenerator.cpp:441`), against `docs/grammar.md:314` |

*Where a property stops short.* Some properties of passing runs leave open what is known to be violated (`ParameterAssigned`, and section 6), and claim the
rest. `WellFormed` says nothing of a `Malformed` number. `NamesChecked` says of a `Condoned` node (an assignment to a parameter without
`mut`, a call with arguments of a function without parameters) that whatever is reported there is a violation, not that the violation is reported:
the rule itself counts both as violations. `TypesChecked` does the same where an argument has the wrong type (`Misapplied`). `ParamsImmutable`, `ArityChecked` and
`ArgumentsChecked` state the three promises by themselves.
`TokensPointedAt` is about tokens with only ASCII characters before them on their line, and `FaultsReported` asks for the caret of
comments without end only; of other faults it asks for the line, the order and the number.

Where several facts are one promise, the property is the conjunction of its named parts: `WellFormed` (class, longest match,
character literals), `ParsesGrammar` (accepted, same tree), `NamesResolved` (reads, writes), `OutputsAsAsked` (inspection, build,
clean-up). The table of section 6 names the part.

Every property of a passing run has a mutant: a definition changed as a plausible bug would (an `EndLoop`
that does not jump back, a `Report` that looks at the last file only), under which the
run must fail. The mutated operators stand before the ones they replace, marked "Mutation of".

## 5. What is proved

Each theorem holds for every value of the constants, from the named assumptions on them; a hypothesis beyond those is said below,
and is one that the runs of that module satisfy. "For bodies of any length and nesting" is what the proofs add to the runs.

**IR generator.**

* `IRGenProofs!TypeCorrect`, `IRGenProofs!Disciplined`: `Spec => []TypeOK`, `Spec => []TerminatorDiscipline`.
  TypeOK is not inductive, because an instruction is appended to `blocks[cur]` and `cur` must be a
  block; `TerminatorDiscipline` is not, because a visitor that emits relies on the current block being open, and one that resumes
  after a body on its frame being well formed. The inductive invariant `IInv` says: the builder has its
  type and `cur` is the last block; every block before it is closed; the last is open while a body is being lowered
  (and closed when the function is done); frames carry labels and registers. The proof is by layers:
  lemmas say that `Emit`, `Value`, `Effect`, `OpenBlock` take a *ready* builder (last block open) to a ready or a *shut* one;
  then one lemma per action; then `NextIInv` and `Invariant`. So the rule that `IRGen.cpp` follows by habit, "branch only if
  not terminated, then open a block", is shown to hold for bodies of any length and nesting, and whatever `Lang` has: even for functions that the
  analyser refuses or that section 6 is about.
* `IRGenProofs!EveryTargetOpens`: `Spec => []TargetsOpened`. A branch names a block long before that block is added, so the
  invariant relates the targets used so far to the blocks there are *and* to the labels that suspended visitors keep.
* `IRGenProofs!EveryLabelUnique`: `"partial" \notin Lang => (Spec => []LabelsUnique)`. The labels that pending frames still have
  to open are distinct from each other and from those of the blocks, and all carry numbers below the counter. The hypothesis is
  necessary: a `match` without `_` opens its exit twice (section 6).
* `IRGenProofs!EveryUseDominated` and `EveryNameResolved`: `Spec => []DefinitionsDominate`, `Spec => []NamesResolved`, if `Plain`: `Lang` is
  without `shadow` and `implicit` (with which `NamesResolved` is false), `baredecl` (`DefinitionsDominate` is false) and `partial`
  (the argument needs labels to be unique; TLC finds neither violated by it within three statements). See section 6; `NamesAssumption` says that
  no variable is called by the markers `literal` and `none`. Dominance is a property of the finished graph, which a visitor that emits
  a use does not know: it may not be able to name, let alone see, the blocks from which its block will be entered. The invariant
  `UInv` is therefore about a graph under construction. A block is *open* (`OpenTo`) for the visitors suspended
  outside it when no branch from before it leads past it except to a label that one of those still has to open; whatever is
  emitted meanwhile comes behind it. When the visitor resumes, the blocks it leaves are `Sealed`: none but their first
  can be entered from outside any more, now or later, because no label of theirs is `Nameable`. `Uses` says that each use
  is behind its definition in the same block, or that the definition's block is open or sealed around the use; `Scoped`, that every name bound
  in a scope has its slot in a block that is open there, and the same for what a visitor keeps over its body (a match's subject, a
  loop's counter). `Reaching` gives the blocks that paths reach as a solution of the recursion, and `ComesBefore` turns open and sealed blocks into
  dominators at the end, when nothing is suspended.
* `ExprGenProofs!ExprTypeCorrect` and `OperandsAlwaysDefined`: `GenSpec => []TypeOK`, `GenSpec => []OperandsDefined`, if `EmptyArraysDropped` (no
  empty array whose value is used: `*[]` loads from no register, section 6). The invariant: every register on `visits`, in `slots` and in
  `last` is the result of an instruction *of the active function*, although none of the three is cleared or checked when it is read.

**LLVM code generator.**

* `LowerProofs!EveryOperandResolved` and `EveryModuleVerifies`: `LowerSpec => []OperandsResolved`, `LowerSpec => []ModuleVerifies`, if `Ordinary`: `Plain`, and
  `Lang` is without `afterexit` (a declaration behind a call of `exit`). With `partial`, `baredecl` or `afterexit` the second is false (section 6).
  What lowering needs of the IR is a fourth invariant of `IRGen`, `TInv`: no instruction lacks an operand (`Proper`), and behind a call of `exit` a
  block holds only what the visitors around it append when they resume, which has no result (`Trailing`); like `IInv` it is carried through
  every action, with `Going` and `Steady` in the place of `Ready`. Lowering drops the code behind `exit`, so without it a definition would go
  missing. `LowInv` then says that the blocks before `next` are `Rendered`, one instruction for one up to the first that stops, with the
  operands they had, and that `regs` are just the registers that those blocks define: the fold of `EmitAll` is followed instruction by instruction (`BlockEmitted`), and
  a use finds its value because `UsesInOrder` puts the definition in an earlier block *of the text*, or before it in its own.
  Dominance is not proved again: the LLVM blocks branch as those of the IR do (`RenderedTargets`; the map from labels to blocks is one to one because labels
  are unique), have the same live uses and define no less (`RenderedLive`), so it carries over (`UsesCarry`).

* `ExprGenProofs!TypesAlwaysKept` and `CallsReach`: `ModSpec => []TypesKept`, `ModSpec => []CallsReachDefinitions`, if `Supported`: `Lang` has
  at most `eager`, `target` and `narrow`, which break `MeaningPreserved` only (for nearly every other use section 6 has a counterexample to one of the two), no two functions of a module have the
  same name, none has that of a builtin or of a function of the C library (`printf` is in section 6), no variable or import is called `exit`, `escape` or `wait` (section 6), and a literal that is a number becomes an `i64`,
  one that is a text a pointer. `MCModules`' assumption `Covered` has TLC check that the run's families are such.
  The IR has no types, so that a register's type in LLVM is known only from the instruction that
  defines it, and the code generator never compares it with what the reader takes. The invariant is in three parts. `IInv` is that of the
  other two theorems. `KInv` speaks of the IR: `Visited`, the functions done are the declarations visited so far, with their
  parameters; `Compiled` and `Active`, in these and in the function being lowered the type that every register will have is told (`Has`) by its
  defining opcode and, for an immediate, by its form, every operand has the type that the opcode reading it takes, and a call has as many as the function
  called has parameters; in the latter the same holds of the values that suspended visitors have put aside, by the kinds of their expressions. `Lowered` speaks of the LLVM module: `Table`, each symbol has the signature of its function's declaration, and only functions that were
  lowered, and the C library's, are symbols; `Right`, each instruction is valid under that table and a call's symbol has a body.
  The step is one call of `LowerFunction`. `countParams` counts the instructions that define parameters, and is shown to give as many
  as the declaration has, by a bijection; `EmitAll` is a recursive function, shown to have a solution over a least counterexample, and is followed
  instruction by instruction, with a lemma for each group of opcodes (arithmetic, comparisons, logic, calls and builtins, memory, returns)
  that carries the correspondence between the IR's registers and `regs`. That a callee is defined
  before its caller is what the hypothesis on `Lang` (no `forward`) gives; calls of later functions are the run `ForwardCalls`.

**Lexer.**

* `LexerProofs!LexerTypes`: `Spec => []TypeOK`. The strengthening is that a column is at most the position (hence below `Word`), and that
  `diag` is a sequence of reports whose counts do not exceed it. What it takes is that every end that a token or comment computes
  (`Past`, `NumberEnd`, `OperatorEnd`, `StringEnd`, `CommentEnd`) is in the source and behind the start.
* `LexerProofs!NoneSwallowed`, `NeverAborts`: `NothingSwallowed`, and that no assertion fails, if `NoHash`: no alphabet has `#` (with it both are false,
  section 6). The
  invariant `Sweeping` ties the position to the rules' `Context`, which the lexer does not keep: it looks for a token only in `Code`, at the
  newline that ends a line comment or a broken character literal, or at the end; `Swept`: up to there the tokens cover just what is significant.
  `StringEnds`, `CharTailEnds` and `CommentEnds` show that the lexer's loops, which recurse to the right, and the rules, which
  look to the left, agree on where a string, a character literal and a nested comment end.
* `LexerProofs!CaretsPointAtTokens`: `Spec => []TokensPointedAt`, for every source; of tokens behind a character of two bytes on their line the property
  itself says nothing (`ColumnsCountCharacters`, section 6). The invariant `Pointing`: the lexer's line and column, which it
  counts as it goes, are those of its position in the text (`MoveLocated`), so that a token on one line has the location of its first
  character, the subtraction of the token's length included. `LocatedPointsAt` is about the renderer alone: counting newlines leads to the start of that
  line (`LineStartIs`), and the blanks before the caret take the columns of the text before the token, because tabs are kept (`SameWidth`).
* `LexerProofs!TokensWellFormed`: `Spec => []WellFormed` if `AsciiTicks`: no alphabet has a character outside ASCII with a tick (with both, `CharLiterals` is
  false: `TwoBytes`, section 6). Prefixes, fractions and exponents are covered; malformed numbers are left out by `WellFormed` itself (`NumbersOfGrammar`, section 6). The invariant `Forming` says of every token that it is the longest of
  its class from where it begins. No state of the lexer is needed for it, but what each function reads ahead is: `IdentifierRead`,
  `NumberRead`, `OperatorRead` and `CharRead` compare it with the classes of `LexerRules`, which are about substrings.
* `LexerProofs!LexerFaults`: `Spec => []FaultsReported` if `NoHash` and `AsciiTicks`. The rules read the faults off the source: characters of the program that begin nothing,
  and strings, characters and comments without end. The invariant `Reporting` is `Sweeping` and `Pointing`, and that the reports so far are those of the faults
  before the position, one for one and in order. Each step then adds no fault and no report, or one of each; a comment that
  nests to the end is one fault and is reported once, by the call that began it, at its sign.

`StringEnd`, `CommentEnd` and `Context` are recursive functions, so that a proof must first know that the recursion has a solution. The
lemmas `StringsExist`, `CommentsExist`, `ContextExists` show it without the library's induction theorems, over the greatest
(or least) position that has none, and the properties of the solutions in the same way.

**Parser.**

* `ParserProofs!ParserTypes` and `OutOfRangeReported`: `Spec => []TypeOK`, `Spec => []RecoveryReported`.
* `ParserProofs!BracesInPairs`: whatever is accepted without an error has its `[ ]` and `{ }` in pairs; `AllInPairs`: `AcceptedBalanced`, so `( )` as well, in
  sources without `if`, `ef` and `match` (with them it is false: `if (a {}`, section 6). The invariant is `Typed /\ (Broken \/ Clean)`: as long as nothing was reported,
  the brackets opened so far and those that the calls on `todo` are still *due* to close make a balanced
  sequence with the tokens consumed; each of the parse functions is shown to hand over a stack that is due the same. After a report
  nothing is claimed but that it stays.

**Semantic analysis.**

* `SemaProofs!SemaTypes`: `Spec => []TypeOK`; the scope stack has the shape that pass and `fn` say, pass 3 starts with the global scope alone.
* `SemaProofs!SameDeclarations`: `Spec => []PassesAgree`. Pass 3 rebuilds the inner scopes of pass 2 but keeps the global
  one, with everything pass 2 put there, later declarations included; pass 2 adds implicit variables that pass 3 does not. The invariant
  is therefore `Typed /\ \E H : History(H)`: `H[k]` is the table that pass 2 had before node `k`, `Lived` ties each to the next by what
  the visitor of node `k` does, `Answered` ties `found` to what was looked up in them, `Reported` ties `errors` to what those visits
  refuse, `HoistedBy` says what pass 1 has put in the global scope so far, and in pass 3 the table is `Aligned` with `H[next]`, scope
  for scope, and `Alike` in names but for implicit variables. `SameAnswer` then says that, when pass 2 found every name, the
  lookup of pass 3 ends at the same scope. The constants' pools are typed (`PoolsAssumption`), as the parser makes them.
* `SemaProofs!ScopesEnforced`: `Spec => []NamesChecked`, so that nothing but violations is reported, and every violation that is not at a
  `Condoned` node. The invariant is the same; what is added is about a finished history alone, by
  induction along it (over the least node that would be wrong: the library's induction theorems cannot be
  instantiated). `Stack(H, k)` are the nodes whose scopes are open before node `k`: they are the scopes of the table, one for one and in order
  (`Places`, `Full`), and the rules' `Around` is the same set (`Levels`, `Arounds`). `Holdings`: each scope has just the names that were
  hoisted into it or declared in it, with the place of the first. `Resolved`: so a lookup ends where the rules' `Meaning` does.
  `Declarations`: what the table says each node declares satisfies the recursive definition of `Declares`, which has one
  solution. `AlwaysFaithful`: a symbol's kind, mutability and arity say of its declaration what the rules do, parameters apart, whose mutability the analyser does not
  ask for. `Judged` puts these together, fault by fault; `Excused` shows that where the symbol's answer is not the rules', the node is
  condoned.

**Driver.**

* `DriverProofs!DriverImplementsBatch`: `Spec => ImplementsBatch`. `Driver` refines `Batch` under `verdicts <- passed`,
  `poisoned <- errors > 0`. `IInv` keeps which stages can be reached only without errors on record;
  `StepKinds` classifies every action as a verdict, progress inside a file or an exit, and each maps
  to a step of `Batch` or a stutter.
* `DriverProofs!FailStop`: `Spec => NoOutputAfterError`, from the same invariant: the stages that write
  files are among those of `IInv`'s clean ones.
* `SourcesKept`, `EveryBinaryOwn`, `OutputsKept`: `SourcesSurvive`, `OwnBinary` and `OutputsAsAsked`, from `FInv`, which says what the directory
  holds at each stage of a file: the sources, the results of the files before, and of this one exactly the
  intermediate files that its stage has made and not yet removed. Their hypotheses speak of the command
  lines: `SourcesApart` (no path that the compiler writes is a source's), `OneNameEach` (sources in the working directory with stems of their own)
  and `OutputsApart` (no `-o` names an intermediate file or `a.out`). What happens without them is in section 6; `MCDriver`'s
  `Covered` has TLC check that the run's command lines satisfy all three.

**Dumper.**

* `ASTDumpProofs!DumpReadsBack`: `DumpSpec => []ParentsReadBack`, for any classes and size of tree. A line's parent is the
  visit under way when it was printed, but the text shows its depth only; that the two agree needs to be known of
  the visits that are to come. The inductive invariant adds `Path`: the visit `i` from the bottom of `calls` printed its line at depth `i - 1`, no
  line since is less deep than that, and what it saved of `prefix_` has the length to return to. Each step then appends
  at most one line, at the depth below the top visit, and the lemmas of `ASTDumpProofs` on appended and shortened sequences carry the older lines over.
* `ASTDumpProofs!DumpWellDrawn`: `DumpSpec => []WellDrawn`. Whether a line is a last child is decided when it is printed, while the
  bars to its left depend on lines that come after. The invariant adds `Drawing`: call a line *open* while all that follow are deeper; each line has a
  bar where the line above is open and not last, and a blank where it is last (`Joined`, `Columns`, `Closed`); an open line's
  parent still has a child to visit if and only if the line is not last (`Awaited`); and `prefix_` is the segments of the lines of
  the visits under way (`Pending`). `FlattenSeq`, by which a visit lists its children, is shown to have a solution over a least counterexample.

*Only model-checked.* Liveness (`Terminates`, `Tokenised`: outside TLAPS's reach); everything that compares with a
recursive reference (`FlowPreserved`, `SameTree`, `MeaningPreserved`, `ChildrenReadBack`), and the other properties of the modules that
interpret their output with such operators (`LoweredFlow` of `LLVMLower`, `PrintedApart`); `ParsesGrammar`, which compares the
parser with a derivation that takes its steps beside it; and `TypesChecked`, for which the history of `SemaProofs` would have to
record the types that pass 3 gives and the function it is in as well.

## 6. Divergences

What the models showed to differ from a document, comment or assertion, beyond the runs of section 4. Each can be
reproduced by giving the constants of the run on that module the value on the right; the listed property is then violated.

| property (module) | instance | code | what it is |
|---|---|---|---|
| `NothingSwallowed` (`LexerRules`) | `Alphabets <- Hashes` | `Lexer.cpp:171` | `#` directly before a newline comments out the next line too, because two characters are always consumed (`V_LANGUAGE_V01_PLAN.md:234`) |
| `Tokenised` | `Alphabets <- Hashes` | `Lexer.cpp:171` | `#` as the last character trips the assertion of `Lexer.cpp:137` |
| `NumbersOfGrammar` | `Alphabets <- Digital` | `Lexer.cpp:221` | `00`, `0x`, `1e` are literals without a diagnostic (`grammar.md:227`) |
| `ColumnsCountCharacters` | `Alphabets <- Wide` | `Lexer.cpp:140` | columns count bytes: behind a character of two bytes a token's column, and its caret, is one too far (`SourceLocation.h:25`) |
| `EveryTokenLocated` | `Alphabets <- TickLines`, `Word = 256` | `Lexer.cpp:324` | a token over two lines has an underflowed column (`Lexer.cpp:323`) |
| `CharLiterals` | `Alphabets <- TwoBytes` | `Lexer.cpp:300` | a non-ASCII code point is refused as a character (`grammar.md:217`) |
| `FaultsPointedAt` (`Rendering`) | `Alphabets <- Strays` | `Lexer.cpp:329` | the diagnostic of an unexpected character points one column past it, and that of an unterminated string or a bad character literal (`:270`, `:293`) past the sign that opens it (`SourceLocation.h:9`) |
| `AcceptedBalanced` (`Parser`) | `Tokens = {"if", "id", "(", ")", "{", "}"}` | `Parser.cpp:422` | `if (a {}` is accepted (`grammar.md:154`) |
| `SameTree` (`ParserGrammar`) | `Sources <- Suffixes`, `Lang = {"suffixed"}` | `Parser.cpp:653` | `-f(x)` is a call of `-f` (`Parser.h:44`) |
| `AcceptsGrammar` | `Sources <- Parens`, `Lang = {"parencond"}` | `Parser.cpp:420` | `if (a) == b {}` is refused (`syntax.md:271`) |
| `SameTree` | `Sources <- Targets`, `Lang = {"anytarget"}` | `Parser.cpp:621` | `a + b = c` is `a + (b = c)` (`grammar.md:110`) |
| `SameTree` | `Sources <- Lines`, `Lang = {"anyexpr"}` | `Parser.cpp:758` | a line that begins with `(` goes on with the one before (`grammar.md:99`) |
| `AcceptsGrammar` | `Sources <- Untyped`, `Lang = {"untyped"}` | `Parser.cpp:279` | a parameter without a type is refused (`V_LANGUAGE_V01_PLAN.md:63`) |
| `AutoCallsFit` (`Parser`) | `Sources <- Scripts` | `Parser.cpp:136` | a function with parameters is called without arguments (`README.md:99`) |
| `OneMain` (`Parser`) | `Sources <- Scripts` | `Parser.cpp:168` | `module main` with `fn main` has two (`README.md:106`) |
| `ArityChecked` (`SemaRules`) | `Pools <- PlainCalls` | `SemanticAnalyzer.cpp:292` | a function without parameters may be called with arguments (`SemanticAnalyzer.cpp:279`: "argument-count validation") |
| `ArgumentsChecked` | `Pools <- PlainCalls` | `TypeChecker.cpp:265` | arguments of any type are passed for a parameter (`TypeChecker.h:16`: "Checks that function call argument types match parameter types") |
| `TypesChecked` | `Pools <- InferredGlobal` | `TypeChecker.cpp:137` | the inferred type of a global is dropped (`grammar.md:323`) |
| `TypesChecked` | `Pools <- StaleType` | `TypeChecker.cpp:35` | an unvisited expression has the type of the one before (`TypeChecker.h:67`) |
| `TypesChecked` | `Pools <- LateGlobal` | `SemanticAnalyzer.cpp:320` | a global declared after an implicit variable of its name keeps the latter's unknown type |
| `ReadsResolved` (`IRUses`) | `Lang` with `shadow` | `IRGen.cpp:105` | after an inner block that declares the same name, the outer name reads the inner slot (`grammar.md:313`) |
| `FlowPreserved` | `Lang` with `break` or `continue`, and `jump` | `ASTVisitor.h:150` | `break` and `continue` generate nothing: the loop goes on (`syntax.md:284`) |
| `ReadsResolved` (`IRUses`) | `Lang` with `selfinit`, `shadow` | `IRGen.cpp:105` | `let x = x` reads the slot it initialises (`SemanticAnalyzer.cpp:179`) |
| `WritesResolved` | `Lang` with `implicit` | `IRGen.cpp:416` | a first assignment to an undeclared name stores nothing (`SemanticAnalyzer.cpp:321`) |
| `LabelsUnique` | `Lang` with `partial` | `IRGen.cpp:275` | a `match` without `_` adds its exit block twice (`IRBuilder.h:60`) |
| `DefinitionsDominate` (`IRUses`) | `Lang` with `bare`, `baredecl` | `SemanticAnalyzer.cpp:213` | a body without braces opens no scope (`grammar.md:312`), so a variable declared in one is visible behind the `if`, where it may have no slot; `ModuleVerifies` fails on it too |
| `ModuleVerifies` (`LLVMLower`) | `Lang` with `partial` | `IRGen.cpp:275` | with its exit block added twice, a `match` without `_` is rejected by the verifier |
| `OperandsResolved` (`LLVMLower`) | `Lang` with `afterexit` | `LLVMCodeGenerator.cpp:528` | a declaration after `exit` is dropped, its uses are not (`LLVMCodeGenerator.cpp:38`) |
| `MeaningPreserved` (`ModuleRuns`) | `Pools <- Eager`, `Lang = {"eager"}` | `IRGen.cpp:347` | `&&` and `\|\|` evaluate both operands, calls in them too (`syntax.md:205`) |
| `MeaningPreserved` | `Pools <- Values`, `Lang = {"text"}` | `LLVMCodeGenerator.cpp:418` | a string that went through a variable is printed as a number, its address |
| `MeaningPreserved` | `Pools <- Values`, `Lang = {"none"}` | `LLVMCodeGenerator.cpp:367` | the result of a call without one is used, and is `undef` |
| `MeaningPreserved` | `Pools <- Values`, `Lang = {"symbol"}` | `IRGen.cpp:343` | a function or module used as a value is `undef` |
| `MeaningPreserved` | `Pools <- Casts`, `Lang = {"narrow"}` | `IRGen.cpp:445` | a cast to a narrower type changes no value (`syntax.md:447`) |
| `MeaningPreserved` | `Pools <- Exits`, `Lang = {}` | `IRGen.cpp:335` | a variable called `exit`, `escape` or `wait` is not read: its use is a call, and ends the program |
| `MeaningPreserved` | `Pools <- Targets`, `Lang = {"target"}` | `IRGen.cpp:420` | an assignment to an index, a member or `*p` stores nothing |
| `TypesKept` | `Pools <- Pointers`, `Lang = {"address"}` | `IRGen.cpp:371` | `*&x` loads from an `i64`: the verifier rejects the module |
| `TypesKept` | `Pools <- Values`, `Lang = {"real"}` | `LLVMCodeGenerator.cpp:150` | a `float` is a `double` where every parameter and result is an `i64` |
| `TypesKept` | `Pools <- Values`, `Lang = {"overargs"}` | `SemanticAnalyzer.cpp:292` | arguments to a function without parameters are not refused, and the call has the wrong signature |
| `TypesKept` | `Pools <- Empty`, `Lang = {"empty"}` | `IRGen.cpp:290` | `*[]` loads from no register |
| `CallsReachDefinitions` | `Pools <- Values`, `Lang = {"builtins"}` or `{"printargs"}` | `LLVMCodeGenerator.cpp:410` | `eprint`, `eprintln`, `len`, `sizeof`, and `print` of other than one argument, are calls of symbols that nothing defines |
| `CallsReachDefinitions` | `Pools <- Imported`, `Lang = {"indirect", "opaque"}` | `IRGen.cpp:465` | `mu.gcd(12, 8)` is a call of a symbol called after a register, `%N`, that nothing defines (`syntax.md:408`) |
| `CallsReachDefinitions` | `Pools <- CLibrary`, `Lang = {}` | `LLVMCodeGenerator.cpp:413` | a function of the program called `printf` takes the place of the library's |
| `ChildrenReadBack` (`ASTDump`) | `Families <- FunctionTypes`, `Lang = {"fntype"}`, `MaxNodes = 8` | `ASTDumper.cpp:335` | `fn(int) -> int` and `fn(int, int)` are printed alike |
| `OutputHonoured` (`Driver`) | `Argvs <- MCOutLl` | `Compiler.cpp:222` | `-o x.ll` builds a binary under the name of its own intermediate file and removes it (`main.cpp:24`) |
| `OutputHonoured` (`Driver`) | `Argvs <- MCOutAOut` | `Compiler.cpp:85` | `-o a.out` is taken for no `-o` (`main.cpp:24`) |
| `OwnBinary` | `Argvs <- MCElsewhere`, `Dirs` with `sub` | `Compiler.cpp:88` | a binary goes to the working directory, not the source's (`Compiler.cpp:79`) |

A module with a global, with an initialiser or without, trips the assertion of `IRBuilder.cpp:49` (the action `VisitGlobal`
of `ExprGen`; a family of `Modules` ends there).

What the passing runs leave out for these reasons and for those of the runs in section 4:

* `Sources`: `#`; characters outside ASCII beside a tick. A character of two bytes outside literals counts as two faults,
  because the lexer looks at one byte at a time. What a property leaves open is in section 4.
* `Derivations`: the freedoms of `Lang` in the table, and a bare `return` other than as the last statement of its block (the next line would be its value).
* `Analysis`: opaque expressions, globals whose type is inferred and globals declared after an implicit variable of the same name. Assignments
  to parameters, calls with arguments of functions without parameters, and arguments of the wrong type are in it.
* `Programs`, `Lowering`: the statements and freedoms of `Lang` in the table.
* `Modules`: those of its `Lang`; variables and imports called `exit`, `escape` or `wait`; names of the C library; narrowing casts.
* `Invocations`: the command lines in the table.

Read off the code without a run:

* A condition need not be `bool` (`TypeChecker.cpp:172`, `syntax.md:271`); `int`, the documented name, is not an integer
  type (`TypeChecker.cpp:50`, `syntax.md:131`); a comparison has the type of its left operand, so `let b: bool = 1 < 2` is refused
  (`TypeChecker.cpp:250`, `syntax.md:190`).
* `import std.io` binds the name `std.io`, so that the documented `io.println("hello")` is refused (`Parser.cpp:205`,
  `SemanticAnalyzer.cpp:127`, `syntax.md:407`).
* `0b` and `0o` literals are read as 0 and `010` as 8, by `stoll` with base 0 (`Parser.cpp:694`, `syntax.md:67`). Escapes in strings are never
  processed (`Parser.cpp:705`), and a character literal is its second byte (`Parser.cpp:710`).
* A plain invocation builds a binary, not the `.ll` that `main.cpp:23` calls the default (`Compiler.cpp:194`).
* `print` adds a newline as `println` does (`LLVMCodeGenerator.cpp:410`); members and indices are
  placeholders (`IRGen.cpp:425-441`).
* In `--dump-ir` the element slots of two array literals print alike, and a variable called `t1` like the first temporary
  (`IRPrinter.cpp:41`); `PrintedApart` allows the former.
* `ASTDumper.h:17-28` shows `BlockStmt`, `BinaryExpr [+]`, `IdentExpr`; the code prints `Block`, `BinaryExpr(+)`, `IdentifierExpr`.
* The tables of token names lack `fun`, `ef`, `el`, `vloop` and `array`, which print as unknown (`Token.cpp:9`).

## 7. Plan

Done, in this order: `IRGen` with its flow (most of the compiler's invariants live there), `LLVMLower`, `Driver`
with `Batch`, `Sema`, `Parser` with the grammar, `Lexer`; the proofs of `IRGen` and `Driver`; then expressions and whole modules
(`ExprGen`, `ModuleLower`, against `ExprMeaning`), the IR printer, the AST with its dumper and the proof about it, and the
diagnostics with their rendering; `break` and `continue` in `StructuredFlow`; the proofs about labels, expressions, the parser, the
driver's files and the agreement of passes 2 and 3, lexical scoping, the drawing of dumps, and the lexer against `LexerRules`; dominance, the
slots of names, and the lowering to LLVM blocks; the classes of tokens and the lexer's own diagnostics; the types and symbols of
lowered modules.

Next:

1. Proofs: `TypesChecked`, on top of `ScopesEnforced` (extend the history with what pass 3 reports, the types of the symbols it declares
   and the function it is in).
2. Composition of the stages' verdicts with `Driver`, where each stage now chooses them.

The values of integer literals were in the plan and have been dropped: the parser hands the text to `std::stoll`, so a model of them would
be one of the library; what differs from the documents is in section 6.

## 8. Not modelled

Tokens and locations (records and tables of names), the `vcc-dump-ast` tool (it calls the lexer, the parser and the dumper), `CodeGen` and
`LLVMBackend` (stubs that the driver does not call); names, flags and operators in the labels of the dumper; wording and colours of
diagnostics and the underline after the caret; notes and warnings, which count nowhere; names of keywords and types; the values that
operators compute, and those of literals; the depth of the C++ stack. `llc`, `gcc` and LLVM's verifier are external and appear by what the code expects of them.

## 9. Running

    tlc -config Programs.cfg IRFlow        # module and cfg of each run: PROJECT.json
    tlapm IRGenProofs.tla

`Sources`, `Derivations`, `Analysis` and `Programs` take one to three minutes each on two workers, the others seconds to a minute.
