# Verification of llvm-mipt

The repository is a small tool chain written for a compiler course: an
instruction set (qrisc) with an assembler, an interpreter and a compiling
simulator; a compiler (mercy) for a language whose functions are templates; a
game of life that draws on the display the simulators use, with a generator that
builds the same game out of LLVM instructions; and an LLVM pass with a script that
counts what an instrumented program has executed. Every program is sequential and runs
once from its input to its exit. What is hard in them is therefore not
concurrency: it is recursion that re-enters itself (Sema), two passes that must
agree on indices (the assembler, the compiling simulator), arithmetic at the
edges of sixteen and thirty-two bits, state that is read where it is already
stale (scopes, instances, self-modified memory), and exits half way through.

This directory holds TLA+ models of those programs, the TLC configurations that
check them, and TLAPS proofs of their main properties for all values of the
constants.

## 1. Inventory

### qrisc instruction set — `asm/src/Instr.h`

State: none. Operations: encode an R or an I instruction, decode each field,
execute one class of arithmetic instruction, read and write a little-endian
word. Hard: signed and unsigned reading of the same sixteen bits, wrap-around
of addresses, encodings that must decode to what was encoded. Used by all the
programs below. Correct when decoding inverts encoding and a load sees the
store before it.

### Assembler — `asm/src/Assembler.{h,cpp}`, `parser.y`, `lexer.l`, `qrisc-asm.cpp`

State: the vector of instructions, the map of labels, the list of unresolved
references. Operations: one append per grammar rule, `finalize` at the end of
the file. `parser.y` calls the class from its actions; `parse` is called by all
three tools (`qrisc-asm`, `qrisc-sim`, `qrisc-llvm-sim`). Hard: forward
references patched after the fact by index; offsets cut to sixteen bits without
a check; a right-recursive grammar, so the source stays on bison's stack; a
scanner error that neither exits nor reaches `finalize`. Correct when what an
accepted source assembles to is the translation of that source, and what
`parse` does with any other source follows from the source alone.

### qrisc-sim — `asm/src/qrisc-sim.cpp`

State: register file, byte memory, two device registers. Operations: load the
binary, then one iteration per instruction; loads and stores may reach devices
(`IO_STDIN`, `IO_STDOUT`, and the window of `life_game/sim`). Hard: checks made
on the first byte of four, a program counter that is a register, a binary that
is also data. Correct when no checked program makes the interpreter itself
undefined, and a binary that leaves itself alone executes what was assembled.

### qrisc-llvm-sim — `asm/src/qrisc-llvm-sim.cpp`

State: the map from addresses to basic blocks, the insertion point, then the
registers, memory and devices of the running function. Operations: a loop that
creates blocks, a loop that fills them, the verifier, the execution. Interacts
with LLVM (verifier, execution engine) and with the same devices. Hard: the two
loops must agree on where blocks start; a verdict that is ignored; constants
fixed at translation that the interpreter reads at run time. Correct when the
translated function does what the interpreter does.

### Devices — `life_game/sim/sim.{h,cpp}`

State: a hidden and a shown buffer of pixels, the window. Operations: clear,
draw a pixel, swap the buffers, poll for the closing of the window (which exits),
return a random number. The buffers are state of the models of the two games; for
the simulators of qrisc a store to a device is an event and a load a choice.

### mercy parser and syntax tree — `lexer.l`, `parser.y`, `Parser.h`, `AST.{h,cpp}`, `GenericValue.h`

State: the tree under construction; later phases write types, declarations,
callees and instances into it. Operations: constructors, `clone` (per
instance), printing. Correct when a clone shares nothing that later analysis
writes.

### mercy types — `Type.{h,cpp}`

State: the intern table of types. Operations: look up or create. Correct when
equal types are one pointer, which Sema relies on (`==`).

### mercy semantic analysis — `Sema.{h,cpp}`

State: the chain of scopes (locals of C++ frames), `CurScope`, the list of all
instances, the types in the tree. Operations: one handler per kind of node;
`getOrCreateFunctionInstance` starts, recursively and in the middle of an
expression, the analysis of a function's body. Called once by the driver;
hands the tree and the instances to Codegen. Hard: the recursion itself, names
looked up where a function was written although it is analysed where it is
called, instances found while still in progress, variables in scope before they
have a type. Correct when every use sees the declaration the text says, every
call the type its callee ends up with, and nothing is analysed twice.

### mercy code generation — `Codegen.{h,cpp}`

State: the LLVM module, the insertion point, the block after the domain at hand,
the address of each declaration. Operations: declare the globals, emit each
instance in the order Sema made them, then `main` with the initializers of the
globals. Reads what Sema wrote and checks nothing. Hard: fragments after the one
that cannot fail are emitted behind a terminator; an identifier reads an address
that another instance sets; globals are initialised after the functions that read
them are emitted; the verifier's verdict is dropped. Correct when a module is
valid, each call runs the body of the first fragment whose domain holds, and
every value read was written.

### mercy driver — `mercy.cpp`; mercy tests — `tests/`

Sema, then Codegen, then the verifier; command line, target and file output; a
script that compiles and runs programs.

### Game of life — `life_game/src/life.c`; generator — `irgen/main.cpp`

State: the map, the neighbour counts, the loops. Operations: fill the map, count,
draw, update in place. `irgen/main.cpp` builds the same game from LLVM
instructions, block by block, and runs it. Hard: a map that is overwritten while
it decides on the rest of itself; indices that wrap around; in the generated
code, values that one block loads and another uses. Correct when every picture
is that of a whole generation and each generation follows by the rule.

### Trace tools — `trace/TraceGenPass.cpp`, `trace/analyze.pl`

State: of the pass, the function being changed and the calls still to insert; of
the script, what it has counted. Interaction: the pass makes a program whose
output is the trace, `head` and `tail` cut a part out of it, and the script reads
that. Hard: the inserted calls rename the values and blocks that the lines of the
trace are about; phi nodes must stay at the head of a block; calls, `exit` and a
stopped program end blocks half way. Correct when the trace is the history of
the run and the profile is one of the original program.

## 2. Modules

| Module | Models | Builds on |
|---|---|---|
| `QriscIsa` | `Instr.h`: encodings, fields, arithmetic, words in memory | |
| `QriscSim` | `qrisc-sim.cpp` | `QriscIsa` |
| `QriscLlvmSim` | `qrisc-llvm-sim.cpp`, with a refinement to `QriscSim` | `QriscIsa` |
| `Assembler` | `Assembler.cpp`, the actions of `parser.y`, errors of `lexer.l` | `QriscIsa` |
| `MercySema` | `Sema.cpp` with what it reads of `AST.h` and `Type.h` | |
| `MercyCodegen` | the compiler: `MercySema` composed with `Codegen.cpp` and the end of `mercy.cpp` | `MercySema` |
| `LifeRule`, `Life` | the rule of the game, and what a game promises (abstract) | |
| `LifeGame` | `life.c` on the buffers of `sim.cpp`, with a refinement to `Life` | `LifeRule` |
| `LifeIr` | the program `irgen/main.cpp` builds, with a refinement to `Life` | `LifeRule` |
| `TraceGen` | `TraceGenPass.cpp` and a run of what it instrumented | |
| `Trace` | `TraceGen` composed with `analyze.pl` | `TraceGen` |
| `MC…` | instances of each for TLC | |
| `…Proofs` | theorems and proofs, a module for each of `QriscIsa`, `QriscSim`, `QriscLlvmSim`, `Assembler`, `LifeGame`, `LifeIr`, `Trace` (with `TraceGen`), and `MercyProofs` for Sema and the compiler | the module they are about |

### QriscIsa

A word is the number it encodes, so that one value can be an address, a
register's content and an instruction, as `uint32_t` is in the code. The widths
are constants: `REG_COUNT` registers, `IMM_BASE` values of an immediate, bytes of
`BYTE` values, four to a word, and a window of `MMIO_SIZE` device addresses at
the top. `WidthAssumption` says how they fit together; `BitAnd`, `BitOr` and
`BitXor` are parameters, because tlapm cannot reason about the bitwise modules:
the theorems only need that their results are words, and TLC gets the real
operators.

### QriscSim

| Model | Code |
|---|---|
| `RegFile`, `Memory`, `SimPixelColor`, `SimPixelShape` | members of `Simulator` |
| `status` | where `run` is, or which exit it took (`halted`, `trap_…`) |
| `event` | what the last iteration sent to a device |
| `Start`, `TooSmall` | the start of `run` |
| `ExecAlu`, `ExecBranch`, `ExecJalr`, `ExecLoad`, `ExecStore` | one iteration of the loop, from fetch to the write of rpc |
| `IllegalOpcode`, `AccessTrap`, `Advance`, `WriteReg` | the exits inside an iteration, in the order of the code |
| `CloseWindow` | a store that shows the frame finds the window closed and exits (`sim.cpp`) |
| `DivideByZero`, `AccessOverrun`, `FetchOverrun` | undefined behaviour; the run ends in `ub` and nothing is claimed after it |

An iteration is one action because nothing else runs: the only inputs, what a
device reads and whether the window has been closed, are choices. The first
`sim_clear` opens the window; that a `SIM_DISPLAY` before it may find it closed is
more than the program can do.

### QriscLlvmSim

`BBJumpDest` maps an address to the code of its block, a sequence of items: an
instruction's code, or a terminator. `Gather…` actions are rounds of the first
loop of `simulate`, `Emit…` of the second, `Prepare` and `RunUnchecked` the
hand-over to LLVM, and the remaining ones execute an item. The verifier is modelled by the
rules this code can break (one terminator, at the end; no branch to the entry).
The interpreter is an `INSTANCE` of `QriscSim` with the registers, memory and
status of the running function and `rpc` computed from the item about to run;
`RefinesInterpreter` says that the translation of a portable binary only takes
steps of the interpreter. `Portable` lists what the two tools knowingly or
unknowingly treat differently: `bne`, the comparisons, `lui` on a register, and
writes to rpc. Self-modifying code leaves the refinement at the store that
changes the image.

### Assembler

`src` is the source as items of the grammar; `pos`, `Instrs`, `Labels`,
`UnresolvedLabels` are the parser's place and the class's members, `fin` the
loop variable of `finalize`. One action reads one item or resolves one
reference. The scanner is what it does to the assembler: a bad symbol ends
`yyparse` without `yyerror`, so `parse` returns with status `abandoned`. The
parser's tables are what they do to the stack: an item occupies as many entries
as it has tokens and one stays behind for each item read, until `YYMAXDEPTH`.

### MercySema

The syntax tree is given in the order Sema visits it, one step per node with
operands before operators. The C++ stack is the variable `stack`: a frame per
instance in progress, holding the local `Scope`, the place in the body, and the
operands analysed so far. Pointers to scopes are indices into the stack, so that
"a pointer that outlives its scope" is a state the model can reach. An action is
one handler (`actOnIdentifier`, `actOnReturnStmt`, …); `actOnFunctionCall`
contains the search among the instances and pushes a frame when there is none;
`EnterFragment`, `EnterBody`, `NextFragment` and `ReturnInstance` are the loop of
`getOrCreateFunctionInstance` and the two halves of `actOnFunctionBody`. A run
ends `accepted`, `rejected` (a diagnostic), `unnamed` (a diagnostic that would
spell a type without a name), `crashed` (a null type is used or a cast fails),
`overflowed` (the stack is full) or `broken` (an assertion about scopes fails).

`CoreIsSound` and `CoreFitsStack` speak of programs of the core. In the code that
was reached they use only operators, calls of functions, and conversions of
literals that are not names of types; each call has an argument for every
parameter of every fragment; no variable is read, and nothing is called, in its
own initializer (`InCore`). `IsCore` adds that no call finds a variable.
`CoreFitsStack` is part of `CompilationEnds`: a compilation ends, and that of a
program of the core not because the stack is full.

`CreateInstance` makes its clones with `Clone`, which says what
`FragmentDecl::clone` and its kin share with the original and what they reset.

The sources are a constant, `Sources`, with their `Parts`, the bodies and domains
of the fragments in them, and with `Height`, the number of operands at hand
before each step of a code. `SourceAssumption` says what the parser guarantees of
them: each step is `WellFormed` and finds its operands, a domain is an expression,
a `let` is followed by the expression that initializes its variable, and the
bodies and domains of fragments are parts.

`InstancesDiffer` speaks of the instances that have been entered: the argument
types of one are set in `EnterFragment`, as the code sets them in the loop that
analyses it, so that an instance just made has none, like one of a function
without parameters.

A function `f(x)` that is called as `f()` gets an instance whose parameter has no
type and which no later call finds: each such call analyses the function anew.
`InstancesDiffer` excepts it.

Integer widths are abstracted to signed and unsigned, and parameter types inside
function types are dropped. Function types that differ in them alone are one type
in the model. Sema compares types among the elements of an array, the arguments
with those of an instance, and what several statements or fragments return; there
the model finds two such types equal where the program does not. No property
depends on which it is.

### MercyCodegen

`Analyse` is a step of Sema with what it writes into its clones of the tree:
`links` has, for each node, its type, the declaration of an identifier and the
instance of a call. When Sema has accepted, the second half walks the same code
again, in the order of `Codegen`'s handlers:

| Model | Code |
|---|---|
| `funcs` | the LLVM module: functions by name, each a sequence of blocks of instructions with the values they use |
| `Addr` | `DeclStmt`'s address, set by declarations and read by `emitIdentifier` |
| `InsertPoint`, `NextBB` | the place of `Builder`; the block after the domain |
| `cur`, `values` | the node at hand; the C++ expressions not yet finished |
| `EmitGlobals`, `BeginInstance`, `BeginFragment`, `BranchOnDomain`, `NoDomain`, `MoveToNextDomain`, `EndInstance`, `CreateMain`, `CallEntryPoint` | `run`, `emitTemplateInstance` and its loop over fragments |
| `emit…` | the handler of that name |
| `verifyModule` | the verifier, by the rules this code can break: one terminator per block, at its end; the kind of a `ret`; a value is used in its function, where its definition dominates |

A compilation ends `valid` or `invalid` (the verifier's verdict, which the code
drops), `rejected`, or `crashed` (a null pointer is used, or LLVM asserts). The
core that the properties speak of is named in parts, each a condition the
generator relies on and does not check: `IsCore` and `SeparateLocals` from
Sema; `LastFragmentOnly` (only the last fragment lacks a condition, and
conditions are of type bool), `NoCaptures`, `OnlyPlainValues`. For programs with a
fragment behind one without a condition, `ModulesAreValid` says that the verifier
refuses the module. Not in the model: reference variables (`let &x`), which the
generator refuses by an assertion, and an extern with the name of a global of the
program, which would be that global (names of externs are one value). Constant folding,
widths and the elements of arrays are abstracted.

### LifeRule, Life, LifeGame, LifeIr

`Life` is the abstract game: seed, show, evolve, until the window is closed.
`LifeGame` has an action per function of `life.c` and does one cell per step, so
that the states in the middle of the in-place update exist; `hidden` and `shown`
are the two buffers of `sim.cpp`. `LifeIr` has an action per basic block that
`irgen` links together: an activation holds its two allocas and the values its
condition blocks have loaded, which the other blocks use. Both map to `Life` by
`Board`, what is alive or, in the middle of an update, what the counts have
decided to be alive.

### TraceGen, Trace

A program is functions of blocks of instructions without names, as clang hands
them to the pass; `Slot` is the numbering LLVM prints with, recomputed from the
code as it is at that moment: the parameters and then the places that have a
name, so the number of a place is how many come before it. `ProgramsAssumption` says what LLVM's verifier
guarantees of them, of the instructions that are modelled. `Gather`, `TraceEntrance`, `InsertPrepared` and
`TraceExits` are the phases of `runOnFunction`, `Puts`…`Return` a run of the
result, which writes `trace`; `ran` records what it really did. `Trace` adds the
script: options, a part of the trace as its input, and a line or a window per
step. A `switch` is printed on several lines, as LLVM does. Entries of one frequency are printed in the order they were
first met, where Perl takes them in the order of its hash.

### Seeded faults

Next to the operators of each module stand operators marked "Seeded fault", with
the same parameters and the change a plausible mistake would make (a check off by
one, a scope taken from the caller, a reference recorded late). They are used by
no specification: `PROJECT.json` pairs each with the property that fails when it
takes the place of the original, so that every property is known to be able to
fail.

## 3. Runs

| Run | Question |
|---|---|
| `sim` | Which steps of the interpreter are undefined, what replaces the binary in memory other than a store at an address inside it, and do programs with only forward branches end? |
| `assembler` | Is an accepted source translated exactly, does the outcome follow from the source, and does assembly end? |
| `llvm_sim` | Are the blocks those of the textbook, does the verifier accept exactly the closed programs, and does the translation refine the interpreter? |
| `mercy` | Sema: scoping, instances, return types, soundness. Codegen: valid modules, dispatch on domains, initialisation of globals. Does the compiler end, for programs of the core before its stack is full? |
| `life`, `irgen` | Does the program play the game, although it overwrites its map in place, and reads only what is defined? |
| `trace` | Is the trace the history of the run, and the profile that of the program? |
| `sim_doc_jalr`, `mercy_doc_declarations`, `mercy_doc_domains`, `mercy_doc_captures`, `mercy_doc_operators` | One statement each of a document that the code does not keep; TLC gives the counterexample (section 6) |

`CHECK_DEADLOCK` is on everywhere: a program that has ended stutters by an action
of its own, so that a deadlock would be a state the code has no branch for.

### Bounds

* **Widths.** `REG_COUNT = 4` (zero, sp, bp, pc), `IMM_BASE = 1024`,
  `BYTE = 32`, `MMIO_SIZE = 64`: words of 20 bits that keep every proportion of
  the real ones (two halves of an immediate's width, four bytes, a six-bit
  opcode). Signs, carries, wrap-around and the device window all occur. The
  theorems of section 5 hold for every width.
* **Programs.** All sequences of up to two instructions of a pool that has every
  class, operands at the boundary and every device, all of three from a smaller
  pool, all of three with only forward branches, and a few routines (a call and
  its return, a counted loop, a binary that overwrites itself, two that fill the
  memory, one that is too large). Memory of 16 bytes for `sim`, so that accesses
  fall on each side of its end; 20 for `llvm_sim`.
* **`RegBound = 40`** (constraint `RegistersBounded`): a looping program whose
  registers move further than this from zero is not followed; all values that
  reach memory, a device or the end of the binary lie inside. It does not apply
  to programs that only go forward, so it takes nothing from the liveness
  properties.
* **Sources of the assembler.** Up to three items of every kind and up to five of
  those that concern labels, with two labels: duplicate, missing, forward,
  backward and self references, before and after data. `YYMAXDEPTH = 11` lets
  sources of five items exhaust the stack.
* **Translation units.** Some 5300: one or two fragments of `f` from 15 bodies
  (constant, recursive, mutually recursive, local functions, captures,
  mismatching returns, an endless chain of instances), small programs for every
  expression, all pairs of fragments with and without domains and with
  statements after a return, and all lists of three definitions of globals and
  functions that read them. `MaxDepth = 8` frames is more than any needs, except
  the endless chain, which then overflows. The runs end in each verdict: about
  325 valid modules, 270 invalid ones, 250 crashes of the generator, the rest in Sema.
* **Maps.** 4 by 3 for `life` and `irgen`: not square, so that rows and columns
  cannot be mixed up, and small enough for every one of the 4096 first boards in
  `life`; `MaxSeeds = 4` cells at most in `irgen`, whose steps are finer. A map
  wraps around, so its neighbours are on both sides of every edge. In a column of
  three every cell neighbours every other, which both the rule and the code count
  the same way; the theorems hold for maps of any size.
* **Traces.** Three programs (a loop with phi nodes and a call, a switch with an
  `exit`, a recursive function), `MaxLog = 18` lines, after which the program is
  stopped as `head` stops it, every contiguous part of the result as input,
  `-n` up to `MaxOutputSz = 2`, windows up to `MaxWindowSz = 2`.

### Fairness

Each specification has weak fairness on its whole step and nothing else: the
programs are one thread that waits for nothing but a device read or a file, so a
step that can be taken is taken. No action is preferred over another. A read of
standard input that never returns is outside this assumption. That the user
closes the window is a choice, with no fairness. `Trace` has safety properties
only.

### Liveness

`AssemblyEnds` and `CompilationEnds` (the source is finite, but `finalize` loops
and instantiation recurses), the two `ForwardProgramsStop` (branches always
forward, hence an end, although the loops of the simulators have no bound), and
the fairness of `Life` in both `PlaysLife`: the game goes on until the window is
closed.

## 4. Abstract specifications

* `AssemblesSource` and `OutcomeFollowsSource` define, from the source alone, what
  the assembler must produce and how it must end.
* `BlocksFollowLeaders` defines the basic blocks of a binary by the textbook: the
  code from one leader to the next, in the order of the addresses, with one jump,
  at the end.
* `QriscSim` is the abstract specification of `QriscLlvmSim` (`RefinesInterpreter`).
* `Life` is that of `LifeGame` and of `LifeIr` (`PlaysLife`, liveness included).
* `Meaning` says what a call of a mercy function does, from the syntax tree alone,
  for every outcome of the conditions of the domains and of the left operands of
  `&&` and `||`, whose right operands it leaves out where the left decides.
  `DispatchIsMeaning` compares the emitted blocks with it, for the functions with
  no effect on the right of such an operator; `DocOperatorsAsInC` does so for all,
  and fails (section 6).
* `RanLines` is the trace a run should leave (`LogsWhatRuns`), and the counts over
  `ran` are the profile it should have (`ProfileOfRun`).

## 5. What is proved

All by TLAPS, for every value of the constants that satisfies the named
assumptions on the constants: `WidthAssumption`, `SimAssumption` and
`LlvmSimAssumption` (widths and memory sizes), `AssemblerAssumption` and
`SourceAssumption` (sources are what the parsers can read), `MapAssumption` and
`ProgramsAssumption` (programs are what LLVM's verifier accepts). The theorems about the two simulators also assume `BitsStayInWord`, that and, or and
xor of two words are words. TLC evaluates all of them on every run.

* **QriscIsaProofs.** Decoding inverts encoding (`IInstrRoundTrip`,
  `RInstrRoundTrip`), and a load returns the word stored while other bytes and
  words that do not overlap it are unchanged (`LoadSeesStore`). They rest on uniqueness of quotient and remainder
  (`DivModUnique`), from which every field is read off as a digit.
* **QriscSimProofs.** The inductive invariant is `IInv == TypeOK /\
  ZeroIsHardwired /\ FetchBound`. `FetchBound` (the binary fits the memory, and
  `PC` is an address of it while running) is what the size check and the range
  check at the end of an iteration establish and what the fetch needs; that r0
  is zero is kept only together with the types of the registers.
  From it: `TypeCorrect`, `ZeroRegister`, `FullMemory`, `OverrunUnaligned` (in a
  memory of whole words undefined behaviour takes an unaligned fetch, an unaligned
  access or a divisor of zero), `Alignment` (all successors of an aligned PC but a
  jalr's are aligned, as WORD is a multiple of four) and `BinaryIntact` (only a
  store at an address inside the binary replaces one of its words in memory),
  which rests on `LoadSeesStore`.
* **AssemblerProofs.** `IInv == TypeOK /\ RefsOrdered /\ RefsAreIInstrs /\
  StackBound /\ Progress`: references are recorded in increasing order of index,
  each at an I instruction; there are never more items behind than the stack
  holds, so no index exceeds `YYMAXDEPTH`; references before `fin` are resolved.
  `StackBound` with `2 * YYMAXDEPTH <= IMM_BASE` is why a branch's offset
  survives the cut to sixteen bits (`BranchesExact`), and `RefsOrdered` why a
  resolved reference is not overwritten by a later one. `LabelsFinal` and
  `PatchesImmediates` are action properties from the same invariant.
  The two theorems about whole sources need a second invariant, `SourceInv`, that
  relates what the class holds to the text read so far: `Accepted` and `Reasoned`
  (no item behind the parser ends it, and an error has its reason at the item
  reached), `LabelsMeant` (the map is that of the label items read, each at the
  address of what follows it), `RefsMeant` (references and reference items
  correspond) and `Translated` (the vector is the translation, save zero
  immediates from `fin` on). An address is a number of instructions before a
  position, so the proofs count with cardinalities. From it:
  `AssemblesEverySource` and `OutcomeDecided`, for sources of any length.
* **QriscLlvmSimProofs.** `IInv == Loaded /\ Filled /\ Machine /\ Running`.
  `Loaded`: the map's keys are 0 and, for every transfer the first loop has
  passed, its target and the address behind it; it is what makes the two loops
  agree. `Filled`: what the second loop has behind it is closed blocks, what is
  before it empty ones, and the block at hand is the code from the insertion
  point up to the instruction at hand. `Machine`: the registers and the memory.
  `Running`: the verifier, which was asked although its verdict is dropped,
  has accepted, and the place of execution is an item. From it: `TypeCorrect`
  (execution never runs off a block), `BlocksCorrect`, `VerifierInRange` and
  `ImplementsInterpreter`. The latter maps each step to one of `QriscSim`: in a
  portable binary every address holds an instruction, so that an item's place in
  its block is its address; an instruction, a conditional branch and a jump are
  then iterations of the interpreter, the fall through to the next block and the
  start are none, and the first store into the image ends the correspondence.
* **LifeGameProofs.** For maps of every width and height. `IInv == TypeOK /\
  CountsAreCurrent /\ AtOrigin /\ Drawn`: the functions
  without loops run at the first cell; while the map is updated in place, the
  cells to come have the state and the count they had on the board in the window
  (`CountsAreCurrent`); what is drawn so far are those of the living cells passed. From
  it: `TypeCorrect` (nothing is read before it is written, no index leaves the
  map or the colour scheme), `CountsCurrent`, and `ImplementsLife`: every step
  maps to a step of `Life` or to none, the safety part of `PlaysLife`. The heart
  is `UpdateEvolves`: the first cell that is overwritten takes the board to its
  next generation, and the rest of the loop leaves it there. `LoopStep` says once
  what an iteration of the two loops passes.

* **LifeIrProofs.** `IInv == Shape /\ MapIsTyped /\ MapIsWritten /\ Drawn`.
  `Shape` says which activations there can be on top of which, and in which
  blocks an alloca's value and the value loaded from it are equal and in range:
  that is all a block may rely on, as the code passes such values from block to
  block without loading them again. The others say how far the map is written,
  counted and drawn. From it: `TypeCorrect`, `IndicesCurrent` and
  `ImplementsLife`, on maps of every size.
* **MercyProofs.** About Sema: `IInv == Typed /\ Sized /\ Stacked /\ Lexical /\
  Unique /\ Undecided`, for every program, however deep the calls.
  `Stacked`: a frame waits at a call or is on top; each frame has the operands
  its place says; scopes point down the stack, and no instance is on it twice.
  `Lexical`: a function is declared in one scope only, the scope of the text its
  fragments are part of, which is why the search through the scopes finds it
  (`ScopesIntact`) and why the scope around a fragment is the one written around
  it (`Scoping`). `Unique`: an instance that is about to be entered is the first
  for its argument types (`OneInstance`, which with the invariant of `CoreSoundness`
  also says that in programs of the core no two instances at all have the same).
  `Undecided`: an instance whose first
  fragment is in progress has no return type yet unless the fragment has no
  return, so nobody has seen a type that changes (`ReturnFinal`). A search through
  scopes is a recursive function; the facts about it are proved by its least
  counterexample. `NamesDistinct` has an invariant of its own: each function has
  a home, the fragment it is declared in, and the first two instances of one
  name would have homes of one name. Its hypothesis, that no fragments of one
  function have local functions of one name, is part of the property: the run
  `mercy_doc_declarations` is what happens without it.
  About the compiler: `CompilerAnalyses` says that a run of it is one of Sema with
  steps of the generator in which what Sema made stays as it is. So all of the
  above holds of the specification that the run `mercy` checks (`CompilerSafe`,
  `CompilerReturnsFinal`, `CompilerCoreSoundness`).
  `CoreSoundness` proves `CoreIsSound` with the invariant `CoreSound == InCore =>
  Sound`. `Sound` says where a type can be missing while a program of the core is
  analysed. Operands, arguments and deduced returns have one (`FrameTyped`). The
  fragments of an instance that are behind have one return type (`FrameReturns`),
  and its parameters are typed from its first fragment on (`FrameTakes`). A
  variable without a type is one whose initializer is under way in the frame on
  top, with neither a call nor a use of the variable before its end (`TopSound`),
  so that a frame that waits at a call has none (`AllSettled`) and a search
  through the scopes finds none. An instance that is not on the stack is
  `Complete`. That is why a recursive call, which finds an instance in progress,
  either is given a return type that is known or is rejected. Whether a program is
  of the core depends on what has been reached, which grows: `StepKeepsPrograms`
  says that no step takes back a fragment or changes one, so that a program that
  is of the core after a step was so before.
* **TraceProofs.** `IInv == Shaped /\ Instrumented /\ Reported /\ Examined`, for
  every program of any number of functions, blocks and instructions.
  `Instrumented`: a block the pass has come to is laid out in a way that four
  numbers say, namely how many calls of its own it has and whether those of the
  function's entry and exit are there (`LaidOut`), and the calls that wait are
  those that are missing, in the order in which they are inserted (`Queued`). That
  is why an instruction is found where its call belongs although everything
  before it has moved, and why phi nodes stay first. `Reported`: each place of a
  finished block is one of five kinds, and the kind says how many events of the
  block are past and how many of its lines are written (`Spot`); the trace and the
  history agree where both are there, and what only one of them has is of that
  block. A function that waits for a call is at a place where both are equal,
  which is what makes calls, recursion included, and returns work. `Examined`: the
  script has counted no more than it has read. From it: `TraceTypeOK` and
  `TraceLogsWhatRuns`.
  The script has a second inductive invariant, `Profiled == Happened(ran) /\
  (pc = "analyze" => Read(input, ran)) /\ Tallied`: what happens in a run are
  events of the program, each line of the input is printed for one of them, and
  the tally is one of what has been read (`IsTally`: a row of entries with
  different keys, in which each key counted is found, with as many as there are
  lines, or windows of opcodes, of that key). The line of a
  block names its place in the program and an instruction is counted by what is
  printed of it, which is why a tally of texts is one of blocks entered and of
  instructions executed. The rest is about the operators: `Sorted` puts each entry at the place
  its rank says, no two at one, so the sorted list is a rearrangement in falling
  order; `Sum` is the size of what was counted; the recursion of `OpcodeSequence`
  is unrolled by its least counterexample. From it: `TraceProfileOfRun` and
  `TraceMostFrequentFirst`.

Only model-checked, and why:

* Liveness (`AssemblyEnds`, `CompilationEnds`, both `ForwardProgramsStop`, the
  fairness of `Life` in both `PlaysLife`): beyond this prover.
* `CoreFitsStack`: how many frames are enough depends on the program, so that a
  bound such as `MaxDepth` is one of the instance that is checked.
* `ModulesAreValid`, `DispatchIsMeaning`, `GlobalsReadAfterInit` of
  `MercyCodegen`: they need the invariants of Sema for what it leaves in `links`
  and in the types, an induction over the expressions still to be emitted, and
  `Meaning`, which is defined over the tree.

## 6. Where documents and code disagree

Checked, each by a run that ends in a counterexample (details in `PROJECT.json`):

* `jalr` links to itself, not to the next instruction (`qrisc-sim.cpp:235`).
* Functions of one name in two fragments get instances of one name.
* An instance made before a later fragment lacks that fragment's domain.
* A local function that uses a variable of the function around it is emitted with
  an operand from that function.
* `&&` and `||` evaluate both operands, where `mercy.md:230-231` gives the
  operators the meaning they have in C: a call on the right is always made.

Noticed while reading or modelling, not checked by a run of its own:

* `qrisc-llvm-sim` tests `OPCODE_BEQ` twice and `OPCODE_BNE` never, so that a
  `bne` fails the assertion that every instruction was handled
  (`qrisc-llvm-sim.cpp:240`, 253). In the model such a translation ends with
  status `assert`, and a binary with a `bne` is not `Portable`.
* `lui` keeps the high half of its source (`qrisc-sim.cpp:201`), and
  `qrisc-llvm-sim` its low half; the latter compares r1 with r2 where the manual
  says r2 with r3. A reference from arithmetic to data far away is cut to sixteen
  bits (`Assembler.cpp:88`).
* `diviu` and `remiu` zero-extend (`Instr.h:114`, `qrisc.md:90`), and
  `IO_STDOUT` prints eight bits, not `arg & 0xf` (`qrisc.md:186`).
* The opcode table of `qrisc.md` numbers `slti` and `sltu` differently from
  `Instr.h`.
* mercy, Sema: `main` with parameters is accepted; fragments may differ in their
  number of parameters (`mercy.md:456`); arrays cannot be assigned; a call to a
  later declared function from a global's initializer is refused
  (`mercy.md:445`); a domain's condition may have any type, and one that is no
  bool fails in `CreateCondBr`.
* mercy, types: a diagnostic that names `string` reaches the `llvm_unreachable` of
  `getBuiltinTypeName` (`Type.cpp:21`), which has no case for it, and one that names
  the type of a function dereferences its null return type; a conversion of a
  string is enough. Sources of the run `mercy` end so, with status `unnamed`.
* mercy, Codegen: a fragment after one without a domain is emitted behind a
  terminator; `let &x` fails an assertion (line 367); the verdict of `verifyModule`
  is dropped (`mercy.cpp:122`).
* `analyze.pl` counts two windows too few (line 53), prints one line too many
  when trimming (lines 69 and 103, usage in line 14), and dies in opcode mode of
  a `switch`, which LLVM prints on several lines (line 40). The properties of
  `Trace` are stated so that they hold with this. A line of the trace does not
  say which function its instruction belongs to.
* `irgen` takes a signed remainder of `sim_rand`, where C's `%` is on an unsigned
  number, and its `draw_map` counts the neighbours once more.

## 7. Not modelled, and the plan

Not modelled because there is nothing for a model checker in it: command lines,
printing, the SFML window and the shapes of its pixels, the execution engine,
options and output files of the drivers, the scanners' and parsers' tables, the
constructors and printing of the syntax tree, the test script, and the widths of
integers in mercy. `life_game`'s assembly is input of the assembler, not part of
it.

In order of importance:

1. Proofs about what is only model-checked: that `MercyCodegen` emits no block
   without a terminator for programs of the core.
2. `QriscToolchain`: `Assembler` composed with `QriscSim` and `QriscLlvmSim`, to
   state that an assembled source runs as its text says, `abandoned` parses
   included.
3. `MercyTypes`: the intern table itself.
