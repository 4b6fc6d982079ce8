# A verification project for PasGo

PasGo compiles a subset of Pascal to LLVM bitcode and runs it. It is one
process with one thread: a flex lexer, a bison parser that builds a syntax
tree, a recursive semantic checker over that tree, and a recursive code
generator over the same tree; `main` calls them one after the other. What is
hard in it is therefore not concurrency but *protocol*: some fifteen handlers
share one mutable stack of basic blocks and one current function, and each of
them calls the others in the middle of its own work; two symbol tables with
different rules have to agree; files outlive the process that wrote them.

The specifications below are about that. Line numbers refer to the sources of
this repository: `codegen.cpp:378` is line 378 of `src/codegen.cpp`.

## 1. Inventory

| part | source | state it keeps | operations |
|---|---|---|---|
| lexer, identifier table | `src/lexer.l`, `include/symbol.h` | `PASCALiconTable`, 50 entries | a token per call; `Conversion` interns a name |
| parser, tree building | `src/parser.y`, `src/tree.cpp`, `include/tree.h` | the tree, `treeRoot` | one action per production; `...Add`, `...Setup` set `father` |
| parser, types | `parser.y:117-219`, `tree.cpp:218-239`, `codegen.cpp:37-71` | the `Type` objects, the type names `tmp` | a production per form of type; `isSameType`, `LLVMTYPERET` read the objects |
| name lookup | `tree.cpp:157-379` | none, walks `father` | `findName`, `findVar`, `findFunction`, `findType`, `canFindLabel` |
| semantic checker | `src/semantics.cpp` | `isLegal`, `returnType`, `returnVal` of nodes | `SEMANT_CHECK_LEGAL` of each node class |
| code generation, control flow | `codegen.cpp`, `include/codegen.h` | `STACKofCodeRUN`, `CURRENCTFUNCION`, the blocks | `PascalCodeCreate` of each node class |
| code generation, names | `codegen.cpp:15-71, 173-385, 997-1082` | LLVM's symbol tables, `typeMap` | `VALUERETGET`, `getFunction`, `LLVMTYPERET` |
| code generation, expressions | `codegen.cpp:764-1101` | none | `PascalCodeCreate` of expressions |
| storage of the compiled program | `codegen.cpp:233-429, 485-545, 879-1082` | globals and stack slots | loads, stores, element addresses, calls, results |
| generated for loops at run time | `codegen.cpp:675-714` | the loop variable, 32 bits | test, body, step |
| driver, `make test` | `src/main.cpp`, `Makefile:66-85` | `a.tree`, `a.bc`, `tgt/<case>/*` | the phases of `main`, the loop over the cases |
| tree printer | `src/treeprint.cpp` | none | `visualizeTree` writes `a.tree` |
| build, formatting rules | `Makefile`, `ptop.cfg` | none | |

How they interact. The parser calls the lexer and indexes its table; the
checker and the code generator call `findName` along `father`; the code
generator relies on `returnType` set by the checker, on the tables of LLVM for
names, and on the stack of blocks for every instruction. `main` hands the tree
from phase to phase and leaves at the first that fails: `yyerror(const char *)`
with `exit(1)`, an illegal program with 0, code generation with `exit(0)` from
wherever it is. The test loop knows of all this only the files in the working
directory.

What is hard, and the property that makes each part correct:

- *Block protocol.* A handler pops the block it is building and pushes the
  one that comes next, with handlers of children in between; `FuncDef` unwinds
  what a whole body left behind. Correct: no block is lost, none is written
  after its terminator, none of another function is written, the module is
  well formed, and the branches mean what the statement means.
- *Nested functions* are generated in the middle of their parents. Correct:
  afterwards, names and blocks are the parent's again.
- *Two notions of scope.* The checker has static scopes, LLVM has one table
  for the module and one per function, searched globals first. Correct: where
  both find a name they find the same declaration.
- *Boundaries of integers.* The generated for loop tests for equality and
  steps with wrap-around. Correct: each value once, up to the largest integer.
- *Two passes over one tree.* The generator takes every operand for what the
  checker made sure of. Correct: what is accepted can be compiled, an error
  anywhere in an expression stops compilation, and the checker itself survives
  expressions without a type.
- *Bytes of a table.* The lexer copies texts of any length into entries of a
  fixed one. Correct: an index leads back to its text for as long as the
  process runs, and equal texts get one index.
- *Shared objects.* A type name stands for the object itself, and an array type
  is the object of its index with an element pushed on. Correct: what was
  declared keeps meaning what it was declared as, and has room for it.
- *Fathers.* A statement moves from one `Body` to another while the parser
  reduces lists, and parameters from one `FuncDef` to another; the checker walks
  up along `father`. Correct: the way up is the way down reversed, and it passes
  the scopes the source has.
- *Pointers.* A `var` parameter is a pointer in a slot, passed on from call to
  call. Correct: all uses of a variable meet in one cell, and no cell is shared
  by two.
- *Files that survive.* Correct: what a test publishes belongs to its case.

## 2. Modules

| module | models | kind |
|---|---|---|
| `CodeGen` | control flow of code generation: every statement handler but the case statement, functions, exits | core |
| `Programs` | the small programs that `CodeGen` is run with | instances |
| `Structured` | what a compiled function promises to do: the statements of its body in order | abstract specification |
| `Exec` | `CodeGen`, then the execution of the blocks it made; implements `Structured` | composition |
| `Scope` | names in the checker and in the tables of LLVM | component |
| `Typing` | the types of expressions and statements in the checker and in the generated code | component |
| `PascalStore` | variables, parameters and results as the language means them | abstract specification |
| `Memory` | the cells and pointers the generated code uses for them; implements `PascalStore` | component |
| `ForLoop` | a for statement with machine integers | component |
| `InternTable` | the table of identifiers and literals, byte by byte | component |
| `Tree` | the productions that build the tree, with the setters, and the walks along `father` | component |
| `TypeNames` | the productions of types, the objects they share, and their readers | component |
| `Printer` | `a.tree`, as a function of the tree | algorithm |
| `Driver` | the files of `main` and of `make test` | component |
| `CodeGenProofs`, `ForLoopProofs`, `TypingProofs`, `FrontEndProofs`, `MemoryProofs`, `ScopeProofs`, `TreeProofs`, `DriverProofs` | theorems | proofs |
| `MC...` | instances for TLC | instances |

The modules follow the phases: `InternTable` is the lexer, `Tree` and
`TypeNames` the parser, `Printer` what `main` does with the tree next, `Scope`
and `Typing` the checker together with the part of the generator that relies on
it, `CodeGen` the rest of the generator, `Exec`, `Memory` and `ForLoop` the
program that comes out, and `Driver` the files around all that. What one takes
from another is a fact the other checks: `Scope` and `Typing` take a tree whose
walks find the scopes of the source (`Tree!WalkFindsScope`), `Typing` types
that mean what they say (`TypeNames!MeansWhatItSays`), `Memory` integers in
every cell (`Typing!Agreement`), and each of them blocks that run in order
(`Exec!Refines`).

### CodeGen

`stack` is `STACKofCodeRUN`, `curFn` is `CURRENCTFUNCION`, `code`, `owner` and
`nblk` are the blocks with their instructions and functions, `fns` the
functions of the module, `status` what became of the process. The recursion of
the C++ handlers becomes `calls`, a stack of frames; a frame holds the local
variables a handler still needs and the point where it waits for a child. An
action is what the code does between two of those points:
`BeginIf` runs to the call of `trueBody`, `EndThen` from there to the call of
`falseBody`, `EndElse` to the return. An instruction that evaluates an
expression is one event with the statement's name. Expressions create no
blocks: the only one whose handler does is a `UnaryExp` with `OP_ABS`, which
the parser never builds.

The model is parameterised by sets of statements, functions and programs that
are closed under their parts (`StmAssumption` and its two companions); `ok` is
whether code generation finds what the statement evaluates, and `Abort` is the
`exit(0)` when it does not.

Not in the model: the case statement (its tree is built by casting a vector to
`CaseStm`, `parser.y:292-293`, which is undefined) and definitions of the
program, which come before the walk and add no block.

### Structured and Exec

`Structured` takes the productions of `parser.y:228-287` as a description of
behaviour: `todo` is the list of statements to run, an event is an assignment,
a call, the outcome of a test or the return; a loop in progress stands on the
list as the point where it is evaluated next (`At`). `Exec` runs `CodeGen` to the end,
then enters any function of the module and executes its blocks, a conditional
branch going either way. `todo` and `turn` are auxiliary; the refinement mapping
is the identity on `phase`, `todo`, `event` and `turn`. Until a function is
entered a step is one of `CodeGen` (`Compile`). Compilation and unconditional
branches are stuttering steps, so that `Refines` also says that the code never
spins through blocks without an event.

### Scope

A program is its scopes in the order of the source with the names each
declares; `ProgramAssumption` says what that order is: the functions in a function
follow its heading, and the next function beside it follows them. `FindName`, `DefineLegal`, `FuncLegal`, `LegalVar` and `LegalCall`
are the checker; `module`, `tables`, `Value` and `Function` are LLVM's tables
and the two lookups of `codegen.cpp`; `EnterFunc` and `LeaveFunc` are the two
halves of `FuncDef::PascalCodeCreate`. The bodies use names without end:
`Resolve` those the checker accepts, `ResolveUnchecked` those in places it
does not look at. `last` records the last lookup, for the properties.

LLVM renames a newcomer whose name is taken. The renamed value can be found
only under an identifier that ends in the number LLVM picked; the instances
have no such identifier.

### Driver

`cwd` holds `a.bc` and `a.tree`, `dir` the files of each case, a file being the
case and version it was made from. `source` says, per case, its version and how
far the tools get with it: which phase of `main` fails, whether `llvm-dis` reads
the bitcode (`Disassembles`) and whether `llc` takes the IR (`Assembles`). What a
tool rejects leaves its output file as it was; `llc` may also have removed it.
`at` is the command in progress with the version it has read (`input`).
A source is edited and a command interrupted at any time, a source also while it
is being compiled. Commands themselves, the compiler by hand, `make test` and
`make clean_test`, are given one after the other, as in one shell: two of them at
once in one directory, or a `clean_test` in the middle of a compilation, are not in
the model. `fresh` is auxiliary.

### ForLoop

`pc` is the block; `i`, `start`, `end` are integers of `N` values; `ran`
records the values the body ran for (at most `N` + 1, one more than any loop
visits). A body may assign to the loop variable or change what the end expression evaluates to, in any way (`touched`).

### Typing

Checker and generator visit the operands of an operator before the operator.
The model visits a tree once, in that order: `operands` are the subexpressions
whose parent is still to come, each with its `returnType` (`type`, which may be
null), the LLVM type of its value (`value`, which may be null), whether its
code can be built (`ok`) and whether the checker crashes on it (`crash`). An
action is one `SEMANT_CHECK_LEGAL` of an expression with the
`PascalCodeCreate` of the same node; an action of a statement ends in
`Verdict`, which is `main`: crashed, rejected, or generated, which works or is
broken. What an expression is (`node`) matters to the generator alone, for
arguments passed by reference and targets of assignments.

Code that cannot be built is what an LLVM built with assertions refuses:
operands of different types or of a class that the instruction does not have,
a null operand, an `exit(0)` of the generator. `WellFormed` is the part of
LLVM's rules that matters; it is not in this repository.

`Supported` is not in the code either. It lists, per operator, the operand
types for which `Checked` and `Result` agree, and `Passable` and the last
arguments of `Expr` and `Verdict` do the same for arguments and statements: it
is what a user of the language can rely on. Accepted but not supported are
mixed integers and reals, comparisons and `div` of reals, `or`, `not`, `var`
parameters that are not integers, loops over characters, names that code
generation does not find (see `Scope`), calls of functions declared after the
caller (`found`, `codegen.cpp:480-484, 999-1003`), assignments of whole arrays, and
everything but numbers in `write`.

Not in the model: fields of records (their code looks for a variable of the
field's name and exits); calls with more than one argument, whose arguments are
checked and passed one by one; the values of expressions, except that
`Predicate` says what comparisons compute.

### PascalStore and Memory

`PascalStore` has locations: a global, an element of an array, a value
parameter or result of a call in progress. A name denotes a location; a `var`
parameter the one of its argument. `Memory` has cells, at offsets in the
objects that `VarDef` and `FuncDef` allocate, and `mem` holds a value or, for
the slot of a `var` parameter, a cell. `Address` is what the generated code
computes for a use (`codegen.cpp:408-420`), `Assign` a store, `Call` the
evaluation of arguments, the slots of the callee and their stores, `Return` the
load of the result and its store to `dest`, an address computed before the
call. A slot that was not stored to reads as any value. A reference outside of
its object is undefined, and the model stops there (`Overrun`): LLVM gives no
more. The refinement mapping turns cells into locations.

Data are integers, since a `var` parameter is an `i32*` whatever it was declared
as (`Typing` has the others). Arrays as arguments, records, and variables of
enclosing functions (which code generation does not find, see `Scope`) are left
out. Local variables behave like the slot of a result: allocated with the
call, not initialised.

### InternTable

`mem` is `PASCALiconTable` as bytes: `IdLen` for a text and one for its type,
entries without a gap. A token is found (`Found`, the last entry that matches
wins), put into the next entry (`Insert`, `strcpy` writes as far as the text
goes), or overruns the table, the buffer `STR` of the string action, or
`identifyOFLOWER` (`Overrun`), after which nothing is said. `given` remembers
the indices the parser got.

Met while modelling: an identifier of exactly 50 characters works, because the
byte after its entry is its type, 0; longer texts get a new entry at every
occurrence and hide an older entry that equals their beginning; a string of
more than 48 characters overruns `STR` and a text of 100 or more
`identifyOFLOWER`.

### Tree

`heap` are the nodes with `father` and children, `stack` the semantic values of
bison, and every action is a reduction, with the setters it calls
(`Take`, `Adopt`, `Build`). Next to its nodes a value carries a term, what the
source says. `scope` is auxiliary: the function in whose text a node stands.
A list of statements is a `Body` that takes over the children of the `Body`
around each statement (`ExtendList`). A parameter group makes one type and one
`FuncDef`; the first `FuncDef` takes the types of the others, and a function
then becomes their father, a procedure does not: the types of its later groups
keep a `FuncDef` as father that is not in the tree (`Stray`). They are types of
parameters, from which nothing looks up, and the properties except them.
The pair of definitions and body (`regular_array`) is no node. Setters guarded by
"if it is not set yet" are called on fresh nodes only and always act. A labelled
statement becomes an empty `Body`, so that its code is lost (`parser.y:238`).

Not in the model: the case statement, types (in `TypeNames`), and with them that
a parameter or result type given by name (`parser.y:154`) is an object that others
have too, whose father `PARAMAdd` and `setReturnType` overwrite (`tree.cpp:62, 70`):
here each has a node of its own. No walk starts at a type, so that none meets such a
father. Nor how bison
resolves precedence: any order of reductions that the grammar allows is
allowed.

### TypeNames

`heap` are the `Type` objects, `tmp` the parser's vector of definitions, which
the end of each type section replaces, `section` the definitions since,
`build` the types in progress, `declared` the variables and parameters so far.
A declaration carries a term as in `Tree`: what it says by the rules of Pascal,
the array dimensions (`dims`) and the element they are around (`of`). `Parts` are
the objects a reader follows from an object, `Reach` all it can get to; objects
may contain themselves, and a reader comes back from those of `Sound` only. On
these the readers are recursive functions: `Term`, `LLVMTYPERET` and
`isSameType`, with `Defined` on top of them. `careful` is whether
all declarations so far avoided what makes objects differ from terms: a name
that `tmp` has under a meaning from elsewhere, and a named type as the index of
arrays with different elements. Whatever is careless, variables of finished
scalar and array types keep their type (`FinishedStays`).

Not in the model: the names and number of a record's fields, whose base type
nothing sets.

### Printer

`Text` gives for a tree the pieces `print_rec` writes: bars for the layer, a
label, what it says, and the parts one layer further in. `main` prints before it
checks, so that only constants have a `returnType`. Numbers and names are not
taken apart, but for reals, of which two decimals are printed. A `goto` prints
without a bar, hence in and behind a loop alike: the property excepts it. A
`Define` prints its constants, types, variables and functions and never its labels
(`treeprint.cpp:68-114, 136`): the instances have label sections, and the property
tells trees apart but for these. A bare
subrange or a type that contains itself crashes the printer; trees with such
types are no instances.

## 3. Runs

| run | instance and bounds | shows |
|---|---|---|
| `codegen` | all statements to depth 2 with lists of up to 2 (`Width`), functions nested to depth 3 or two in a row; then each function executed | the block protocol, well-formedness, termination, and that the blocks do what the source says |
| `scope` | up to three scopes, beside or in each other; 5 names that may clash with each other, with `main`, `printf` and block names | agreement of the two notions of scope |
| `scope_abort` | the same without the clashes | a finding |
| `typing` | every tree whose walk has at most 2 subexpressions waiting, every statement | agreement of the passes, no error lost |
| `typing_compare` | the same | a finding |
| `memory` | a variable, an array from 0 and one from 1, a function with a `var` and one with a value parameter, 2 values, calls to depth 2 | storage means variables |
| `forloop` | all start and end values of 3-bit integers, both directions | exactness and end of for loops |
| `intern` | entries of 3 bytes, 3 of them, texts of 0 to 6 bytes with common beginnings | the table, up to and past its limits |
| `tree` | every program of up to 9 nodes, all constructs, up to 2 groups of parameters | fathers, order, scopes |
| `typenames` | 2 names, 2 base types, up to 3 objects and 4 declarations in 2 nested scopes | shared types |
| `printer` | 4182 programs of up to three levels | the file tells the tree, but for its label sections |
| `driver` | 2 cases, each edited once, at any moment; five outcomes of the tools for each version | what a test leaves behind |

Why the bounds are enough. A handler of `CodeGen` looks at the top of the
stack, at the block numbers in its own frame and, in `EndFunc`, at the block of
the calling function. Depth 2 puts every construct inside every branch of every
other; two in a row puts every construct before every other; depth 3 of
functions puts a function between two others, each having left blocks on the
stack. The theorems of section 5 cover every other depth. In `Scope` a lookup
concerns the scope of a name and the scope of its use: three scopes give all
relations of two (same, around, beside, inside a sibling). In `Driver` a file
is of the present or an earlier source, of this case or another. In `ForLoop`
the ranges of 3-bit integers have all relations to the two ends. The theorems
cover every number of scopes, cases and edits, and integers of any width; only
`Ends` of `ForLoop` rests on the bound. In `Typing`
an operator looks at its one or two operands: with `Depth` 2 the first can be
any tree that leans to the left and the second anything without a binary
operator of its own; a write has up to two arguments. The
theorems cover deeper walks. In `Memory` depth 2 is a `var` parameter passed on
to another one, and an array can be left by its start only; the theorems cover
any depth, program and values. In `InternTable` a text is shorter than, as long
as or longer than an entry, reaches the end of the table or not, and begins
like another or not; all three properties are proved for all sizes. In
`Tree` 9 nodes are enough for finished programs with a statement in a list in a
list in a procedure, an `if` with both branches, a procedure with two groups of
parameters, and a procedure in a procedure; larger ones, such as a function in a
function, are checked while they are being parsed, as far as 9 nodes go;
`FathersHold` and `WalkFindsScope` are proved for every number of nodes. In `TypeNames` three objects are an array, its index and its element,
each of which another declaration may share; a nested scope comes before or
after the sections around it. Names and bases are treated alike by the code, so
that names are symmetric. In `Printer` what an entry looks like depends on one
node and its parent.

Properties of `codegen`. `OpenBlocksAccounted` says that the unfinished blocks
are always those on top of the stack or waited for in a frame; `WellFormedIR`
is what LLVM's verifier, which nothing calls, would check; `AllReachable` and
`BodyCopies` that no block dangles and that bodies are generated as often as
for statements require, no more and no less; `UnwoundStack` that the loop at
`codegen.cpp:378` removes what a body left and no more; `FrozenBlocks` and
`BuildsCurrentFunction` are about every step; `Terminates` is about the
unwinding loop and every handler. `IInv` is run so that its proof starts from
a formula TLC has agreed to.

Properties of `scope`. `ResolvesAsChecked` is the agreement for names that are
declared once; `LocalToFunction` and `LocalsBindRight` are for any names, also
those that clash: instructions never use values of another function, and what
is found in the current function's table is what the checker found.

Properties of `driver`. `CleanTestIsExact`: after `make clean_test`, a test
publishes nothing of another case or version, whichever cases fail;
`DerivedTogether`: when the loop leaves a case, its output comes from the bitcode in
its directory, and so do the disassembly and the assembly as far as `llvm-dis` and
`llc` can read it; a file of an earlier run that stays beside bitcode they reject
is of no later version of the same case. `TreeWithCode`: no bitcode without a tree as recent.

Properties of `forloop`. `RunsInOrder`, `RunsToTheEnd`, `Ends`, and the inductive
`RangeInv`, one part of which is `StaysInRange`.

Properties of `typing`. `Agreement` is about expressions, `AcceptedCompiles`
about statements: with operators used as in `Supported`, the LLVM type is that
of the checker's type and code can be built. `ErrorsStop`: no error is
forgotten before code is generated, except by `write`. `CrashNeedsError`: the
checker follows a null pointer only if the program has an error, calls a
procedure in an expression, or indexes a string. `ErrorShows` is why: no
operator makes a type out of operands without one.

Properties of `memory`. `PointersLive`: a pointer leads to a variable of a
caller or a global, never to another pointer and never to a call that is over;
`OverrunNeedsStart`: only an array that does not start at 0 can be overrun by a
program that keeps to its subranges; `Refines`: aliases are exactly those of
Pascal.

Properties of `intern`. `ReadBack` and `OneEntryEach`, as above, the latter for
texts that fit their entry.

Properties of `tree`. `FathersHold` for all nodes that can still come into the
tree; `TreeSaysSource` for every semantic value, the labelled statements
excepted that are lost; `WalkFindsScope` for the finished tree: the first scope
on the way up, and all scopes that `canFindLabel` looks into.

Properties of `typenames`. `MeansWhatItSays` and `RoomAsDeclared` for careful
programs, the second for the types that `VarDef` has an initial value for;
`SameIsSameLayout`: `isSameType` compares the ends of arrays and not their
starts, and where these agree it accepts exactly the types of equal layout;
`FinishedStays` for all programs.

`printer` has one: `FileTellsTree`, that printing is injective on the instance's
trees, but for label definitions, texts of strings and decimals beyond the second.

The type invariants of `Scope`, `Driver`, `TypeNames`, `Tree` and `ForLoop` are
conjuncts of `LocalToFunction`, `TreeWithCode`, `MeansWhatItSays`, `FathersHold`
and `RangeInv`, those of `CodeGen` and `Typing` of theorems' `IInv`.

Deadlock is checked in every run but `memory`: a finished compiler or program
has an explicit stuttering action. `memory` has none, because after `Overrun`
the process is undefined and there is nothing it could be said to do.

## 4. Fairness

`CodeGen`: `WF(Next)`: one thread, which never waits. `Structured` and `Exec`:
a function that runs goes on to its next instruction; compiler and processor
keep going. `ForLoop`: the same. No fairness is assumed of the outcome of
tests, so that loops of the compiled program may run for ever. The
other modules have only safety properties and assume none.

## 5. What is proved

From the assumptions on the constants only, hence for programs of any size and
nesting, integers of any width, expressions of any depth, tables and texts of
any length, trees of any size, any depth of calls and any number of test cases. What is assumed,
and why the code justifies it: the sets of statements, functions and programs of
`CodeGen` are closed under parts (`StmAssumption`, `FuncDefAssumption` and its
`ProgramAssumption`), as trees are, and a statement is higher than its parts
(`HeightAssumption`), since the parser builds it after them; the scopes of a program of `Scope` are in the
order of their headings (its `ProgramAssumption`), which is the order of the
grammar, and LLVM is given the names `main`, `printf` and `entry`
(`NameAssumption`); the names under `test` are different from each other
(`CasesAssumption`); literals are of type `int`, which has fewer values than the
`uint64_t` that counts the elements of an array (`SubrangeAssumption`); `NAssumption`, `DepthAssumption`, `VersionAssumption`,
`BoundAssumption`, `SizeAssumption`, `TextAssumption` and those of `Memory` give sizes and bounds
their type.

- `CodeGenProofs!TypeCorrect`: `TypeOK`, with the lemmas about `Emit` (what it
  does to blocks and owners) and about pushing and replacing frames.
- `CodeGenProofs!InductiveInvariant`: `IInv`. `WellFormedIR` alone is not
  inductive: to know that a finished module has no open block one has to know
  who was to finish each (`OpenBlocksAccounted`); for that, that no two frames
  wait for the same block (`WaitedForOnce`) and that the top of the stack is
  waited for by none; to know that a branch stays in its function, that frames
  of statements hold blocks of the current function only (`Owned`), which is
  kept because a function is never generated in the middle of a statement
  (`FunctionsOutside`). A step completes open blocks (`EmitCloses`) and moves
  frames (`EnterStatement`, `LeaveStatement`, `ContinueFrames`, ...); there is
  one lemma per action.
- `BlocksAccounted`, `WellFormedResult`: from `IInv`. `BlocksFrozen`,
  `CurrentFunctionBuilt`: action properties, since a step writes only to the
  top of the stack and to blocks it creates.
- `CodeGenProofs!StackUnwound`: `UnwoundStack`. `StackInv` adds to `IInv` which
  blocks lie on the stack: at the bottom one for each function in progress but
  the innermost, its entry, and above them only blocks of the innermost. The loop
  at `codegen.cpp:378` therefore stops where it should: the block it looks for is
  not among those it removes.
- `CodeGenProofs!BlocksReached`: `AllReachable`. `ReachInv` adds to `IInv` that a
  set of blocks which control cannot leave (`Closed`) and which holds the entry of
  a function holds all its blocks, but those behind ifs whose true branch is still
  in progress (`Merges`): nothing leads there before that branch ends. It has to be
  about all such sets and not about what is reached so far, since a block in
  progress leads nowhere yet. What was reached stays so because complete blocks do
  not change (`StillReached`); each action writes the top of the stack, and what it
  creates follows from there (`TopLeads`, `BranchLeads`). `ReachableIs` ties it to
  the steps that `Reachable` takes: `nblk` of them are enough, because each adds one
  of `nblk` blocks until none adds any (`StepsEnd`).
- `CodeGenProofs!EachCopyGenerated`: `BodyCopies`. `CopiesInv` adds to `StackInv` an
  account (`Counts`): what a function has (`Made`) and what the handlers above its
  own still have to generate (`Due`) is what its body asks for; a function in
  progress that waits for one inside it is owed what its own handlers owe. `DueMoves`
  carries the account through every step of a statement, `EmitDo` and `EmitsNone` say
  when a function gets one more. What a statement asks for is a recursive
  function: `RecursionExists` shows that a function which descends along a
  rank (here `Height`) exists, and `CopiesOf` what it gives for each kind of statement.
- `CodeGenProofs!CompiledAsWritten`: compiler correctness, the safety part of
  `Exec!Refines`, for every program. `ExecInv` says that there is an annotation `c` of the
  code, the list of statements still to be run at each instruction, which the code
  follows (`Means`), and that `todo` is what `c` says where the processor stands
  (`Stands`). The code follows `c` (`Follows`) when what each instruction does is what
  `Structured` allows with the list before it and leaves the list after it (`Runs`).
  While code is generated, blocks are open: what is to be run at the end of an open
  block is what the frames on the stack will generate there (`Chain`), and a block
  that waits for the end of a loop or an if is already annotated with what comes
  after it (`Waits`). Each handler then keeps a list of promises, one per frame:
  a loop's body ends in its test, a branch of an if in what follows the if, and a
  function's body in its return. `Extends` and `Grows` let the annotation grow and
  never change; once the module is done, `MeaningStays`. `Unfold` gets its equations,
  along a rank, from the lemmas that `BodyCopies` uses for the statements.
- `ForLoopProofs`: `RangeInvariant`, `NoOverflow`, `ForLoopTypeCorrect`; the
  strengthening is that the step is taken only from a value that is not the
  last, where `Wrap` is exact. `EachValueInOrder` (`RunsInOrder`) and
  `LoopRunsToTheEnd` (`RunsToTheEnd`) count: `CountInv` says that `i` is the start
  plus or minus the number of rounds, until the body touches something, and the
  `Wrap...` lemmas that arithmetic modulo `N` is exact as long as there are no
  more rounds than values.
- `TypingProofs`: `Invariant` (`IInv`), and from it `TypesOK`, `PassesAgree`,
  `SupportedCompiles`, `NoErrorLost`, `CrashAfterError`, `ErrorsShow`. The
  strengthening is `ErrorShows`: an error is visible as an operand without a
  type until the statement looks at it. `ReduceKeeps` and `VerdictKeeps` say
  once what an expression and a statement have to satisfy; `SupportedAgrees` is
  the agreement for operators; then there is one lemma per action.
- `FrontEndProofs`, for `InternTable`: `InternTableTypeCorrect`, `TextsKept` (`ReadBack`) and
  `OneEntryForEachText` (`OneEntryEach`). The first two are inductive together:
  indices that were given are below `curr`, and every write is at or behind the
  entry `curr`. `EntriesApart` says that entries share no byte, `StoredIsNamed`
  that a text that was stored is found, `OthersKept` that a text that fits is out
  of reach of every later `strcpy`. For the third, `OneEntryInv` adds
  that every entry was given to some text, so that what is found again was given
  before.
- `FrontEndProofs`, for `TypeNames`: `TypesTypeCorrect` (`TypesOK`),
  `ObjectsMeanWhatTheySay` (`MeansWhatItSays`), `RoomIsAsDeclared`
  (`RoomAsDeclared`), `SameTypeIsSameLayout` (`SameIsSameLayout`) and
  `FinishedTypesStay` (`FinishedStays`). `MeansWhatItSays` is not inductive: a
  variable's object is right because the value it was declared with was, and that
  because of what the scopes held under its name. `TypesInv` therefore says of all
  `Claims`, whatever carries a type and a term, that the object means the term,
  and that every object is sound (`Meant`), as long as the program is careful;
  the parser's `tmp` is no claim, since a careful program uses it only where it
  agrees with the scopes. Steps add objects and element types and change nothing
  else (`Kept`). The delicate one is `ArrayType`, which writes into an object that
  others share: soundness survives because the index is not reached from the
  element, terms because the first element type is the one readers follow. `Means`
  says it by the path of objects along the dimensions, which the induction needs,
  and the lemmas tie it to the recursive functions: `Rank`, the number of objects
  a type reaches, is what these descend along. `FinishedStays` needs no care: all
  that a finished type reaches has its first element type already.
- `MemoryProofs`: `MemoryTypeCorrect`, `PointersStayLive`, `StartsOverrun`. The
  inductive invariant is `TypeOK` and `PointersLive` together: a cell is followed
  as a pointer because it is one, and it is one because nothing stores data
  there, which follows from no pointer leading to it.
- `MemoryProofs!MemoryImplementsPascal`: `Spec => Refines`, every step of
  `Memory` is a step of `PascalStore` or changes nothing there. `StoreAt` and
  `CellsAndLocs` are the heart: cells and locations correspond one to one, so
  that a store changes one location and no other.
- `ScopeProofs`: `NamesResolveAsChecked`, `NamesLocalToFunction`,
  `NamesBindRight`. `ScopeInv` ties LLVM's tables to the progress of generation:
  with `m` functions begun, the table of the module has the globals and the
  functions up to `m`, each under its name unless an earlier one had it, and the
  table of a function its parameters and variables (`TablesInv`); the handlers in
  progress are those of a scope and of the scopes around it, and a function that
  is done has all its functions done (`CallsInv`), and it is here that the
  order of the source is needed: the next function to be generated is the next
  one in the source, so that what a lookup can find was declared before it in
  either notion of scope. `FindNameIs` says what the recursive walk of `findName`
  returns.
- `TreeProofs`: `FathersStayRight` (`FathersHold`) and `WalksAreThoseOfSource`
  (`WalkFindsScope`), from `TreeInvariant`, the inductive `TreeInv`. It says that the
  nodes under the parser's values are trees (`Forest`) and where those values
  belong (`ValuesOK`). `FathersHold` alone is not inductive: for `ExtendList` to be
  right, the children that move must have been the Body's alone, and the Body
  that takes them must not be below itself. `Forest` is therefore about all
  nodes that some value or node holds (`Held`), whether or not they can still come
  into the tree: each has one holder, and ranks grow along the way up
  (`Ranked`), so that there are no cycles. Values of one stack share no node,
  and each node stands in the function of the innermost head below it, which is
  what a head and the routine that replaces it have to keep. A reduction takes
  nodes from values (`TakeKeeps`), makes one (`BuildKeeps`), opens a function
  (`GroupsShape`, `HeadKeeps`, `FunctionKeeps`) or drops what it emptied
  (`DropKeeps`), and replaces values (`PushKeeps`, `ReplaceKeeps`). The walks of
  the properties are recursive functions; `ReachExists` says that such functions
  exist, since every node reaches finitely many, and `FromTheTop` and `ByRank` are
  the inductions along ranks that compare the way up (`findName`, `canFindLabel`)
  with the scopes of the source (`InnerWalks`).
- `DriverProofs`: `TreeComesWithCode` (`TreeWithCode`), `DerivedFromOneBitcode`
  (`DerivedTogether`), `CleanTestPublishesExactly` (`CleanTestIsExact`).
  `DriverInv` adds to the properties what holds in the middle of a test: after
  `make clean_test`, the working directory is empty between two cases and holds
  nothing but files of the present case during one (`ExactInv`); a bitcode comes
  with a tree (`TreeInv`); the disassembly and the assembly in a directory are of no
  later version than the bitcode there, and the disassembly is of it when
  `llvm-dis` reads it (`DeriveInv`). For the last, files have to be made in the order
  of the versions (`AgeInv`): what is being compiled was read at a time when no file
  was newer, so that the bitcode in the working directory is as new as any file of
  its case, wherever those files are and in whatever order cases were edited,
  compiled and interrupted. `MadeFrom` says that only `mv a.bc` brings anything
  into a directory, `CompilerStep` what a step does to what is being compiled.

Induction. The library's induction theorems take an operator as a parameter,
which the provers cannot instantiate, but the least-number principle can be had
from `WFMin`, whose parameters are a set and a relation: `Least`, in `ScopeProofs`,
`TreeProofs` and `CodeGenProofs`, and `LeastNumber` in `FrontEndProofs`. With it `FindNameIs` shows, by the least scope for which it fails, what the
recursive function in `FindName` computes, and `RecursionExists` that there are such
functions at all. What stays out of reach are recursive operators, which walk
terms that belong to no set: the prover has no SMT backend for modules with one.

Model-checked only: `Terminates`, `Ends` and the fairness in `Exec!Refines`, that a
function that runs goes on to its next event (liveness under fairness);
`MCTree!TreeSaysSource`, which reads the terms of a source by recursion, and
`Printer!FileTellsTree`, which says that a recursive function is injective. `UndeclaredMeansUndeclared` and `ComparesAsNamed` are
false (section 6).

## 6. Findings

With a run that shows them:

- `scope_abort`: `[Error] Undeclared variable` (`codegen.cpp:26`) for names
  that are declared and that the checker accepted: constants of functions,
  variables and parameters of enclosing functions.
- `typing_compare`: `codegen.cpp:980-985` against `symbol.cpp:15-16`: `<=` is
  generated as `>=` and `>=` as `<=`.

Read off the code while modelling, without a run of their own:

- `Makefile:80-82` against `README.md:61-62`: the loop moves and runs whatever
  `a.bc` it finds. `CleanTestIsExact` needs its `make clean_test`: an `a.bc` left
  by another case is executed and filed under a case that does not compile.
- `Makefile:83-84` against `README.md:63-64`: the commands are joined by `;`. Bitcode
  that `llvm-dis` cannot read or IR that `llc` rejects leaves the `.ll` or `.s` of an
  earlier run beside the new bitcode, and nothing says so. `Driver!DerivedTogether`
  says what then lies there.
- `treeprint.cpp:136`: label definitions are never printed; a program with a label
  section and the same one without have one `a.tree`. `Printer!Told`.
- `codegen.cpp:19`: global variables are searched before the table of the current
  function, so that a local variable or parameter with the name of a global one is
  never found: loads and stores silently go to the global. The checker finds the
  local one. `Scope!Ambiguous` excepts such names from `ResolvesAsChecked`, and
  `LocalsBindRight` is about the table of the function only.
- `semantics.cpp:697` against its own message two lines below: `or` demands
  characters and rejects booleans. `Typing!Supported` leaves it out.
- `lexer.l:133`, "convert to lower case", against `lexer.l:147` and `155`: the
  converted copy is not used, identifiers keep their case.
- `parser.y:154`, "Undefined type", against `parser.y:130`: `tmp` gets the
  definitions of a section at its end, so that a type is unknown in the section
  that defines it, and those of enclosing scopes are gone after a nested type
  section. `TypeNames!UndefinedType`.
- `tree.h:170` against "Cannot find label" (`semantics.cpp:409`): the number of
  a label is never stored, and `canFindLabel` compares with uninitialised memory.
- `parser.y:238`: a labelled statement is dropped. `Tree!Labelled`.
- `codegen.cpp:884` against `codegen.cpp:50`: an array has room for its subrange
  and is indexed without its start. `Memory!Overrun`; the programs under `test`
  use arrays from 0.

## 7. Plan

Done: every module of section 2, and the proofs of `CodeGen`, `ForLoop`, `Typing`,
`InternTable`, `TypeNames`, `Memory` with its refinement, `Scope`, `Tree` and `Driver`:
all their safety properties but `TreeSaysSource`, and with `Exec` that compiled
programs run as they are written, up to fairness. Left, in order of what it would add:

1. Proofs: `TreeSaysSource`, with the terms of a source as nodes of their own, so that
   they can be read by a recursive function.
2. `Memory` with a local array and a slot for each local variable.

Not modelled, and why: the case statement (its tree is built by casting a vector
to `CaseStm`, `parser.y:292-293`: whatever the program then does is undefined);
fields of records (a field's type is never set, `parser.y:171`, and their code
looks for a variable of the field's name); the promotion of a real passed to
`printf` (`codegen.cpp:446`, the calling convention of the platform); the regular
expressions of the lexer and the tables of bison (generated code); the build
rules and `ptop.cfg` (no state of the program).
