# goforth and ctil in TLA+

The repository holds two Forth systems. **goforth** (Go, `*.go`) executes a
Forth program directly from its source text. **ctil** (C, `ctil/`) compiles
words into threaded code that lives in the interpreter's own memory. They share
the test programs in `testdata/`. This directory models them in TLA+, checks the
models with TLC on small instances, and proves the central invariants with TLAPS
for every instance.

## Inventory

| Component | State it keeps | Operations | What makes it correct |
|---|---|---|---|
| goforth data words (`builtins.go`, `stack.go`, `dictentry.go`) | `dataStack`, `returnStack`, `memory`, `memptr`, `dict`, `stdout` | one Go method per builtin: stack, arithmetic, memory, defining and output words | values stay int64, an access stays inside the 64 KB or is reported, allotted bytes are not lost, a failing word has no effect that is still seen |
| goforth interpreter (`goforth.go`, `builtins.go`, `loopstate.go`) | `input`, `inputPtr`, `compileMode`, `ptrStack`, `loopStack`, `skippedThenCount`, and Go's call stack | `Run`, `doRun`, `executeWord`, `if_`, `do_`, `leave`, `skipIfUntil`, `skipLoop`, `colon`, `semicolon`, comments, `."` | constructs nest as Forth says, `loopStack` agrees with the `do_` calls, remembered positions are valid, programs end |
| goforth character input (`goforth.go`) | `inputPtr` as a byte offset | `nextWord`, `rewindWord`, `skipWhitespace`, the searches of `\`, `(` and `."` | words are cut at whitespace, rewinding undoes reading |
| ctil inner interpreter and compiler (`ctil/state.c`, `ctil/builtins.c`) | `mem` with the dictionary in it, `here`, `latest`, `pc`, `compiling`, `loop_compile_stack`, the return stack | `interpret`, `execute_toplevel_word`, `:`, `;`, `CREATE`, `CONSTANT`, `IMMEDIATE`, `DO` … `LOOP`, `LEAVE`, `BRANCH`, `LITSTRING`, `.D` | compiled code does what its source says, operands are patched to an instruction of their definition, a definition is not disturbed by later ones, a word returns to its caller |
| ctil data words (`ctil/builtins.c`) | data stack, return stack, `mem` | stack, arithmetic, memory and output words | accesses stay inside the arrays of `state_t`; a word goforth has too does the same |
| ctil prelude (`ctil/prelude.4th`) | none of its own | `IF`, `BEGIN` loops, `VARIABLE`, … as Forth definitions | the compiled branches nest |
| ctil input (`ctil/input.c`, `builtins.c`) | the position in the stream, a buffer | `get_word`, and the loops of `\`, `(`, `."` | words are cut at whitespace, nothing is consumed that nobody sees |
| ctil start-up (`ctil/ctil.c`, `die.c`, `zmalloc.c`) | what is being read | `main`, `register_builtins`, `die` | the file of `-i` is read before stdin |
| test harness (`*_test.go`) | — | runs both systems on `testdata/` | — |

The components of goforth interact through one `Interpreter` value. The control
words `IF`, `DO` and `LEAVE` are Go functions that **read words themselves** and
call back into `executeWord`, so the state of a construct is spread over Go's
call stack, `loopStack` and `skippedThenCount`. A user word is called by setting
`inputPtr`; whichever Go loop is innermost then reads the words of its body. A
definition is a position in `input`, which `Run` replaces.

The components of ctil interact through one `state_t`, and above all through
`mem`: the dictionary, the compiled code, the texts in it and the program's own
data lie in one array that everything extends at `here`. Compiled code is
addresses of dictionary entries with operands in between and nothing that tells
them apart; the prelude's `IF` writes such operands with the same `!` the program
has. The return stack holds return addresses, loop indices and what `>R` puts
there.

There is no concurrency, no persistence and no message passing. What is hard is
long sequences of legal words that bring two of those records out of step,
values that outlive what they describe (`skippedThenCount` after its loop,
positions after their input, an open `DO` after its `;`, bytes above `here`),
arithmetic at the edge of memory, of int64 and of a byte, and programs that do
not end. `hazards` in `PROJECT.json` lists each at its line; where the property it names lists
or permits what goes wrong, or no run takes the shape, its note says so.

## Modules

| Module | Models | Correspondence |
|---|---|---|
| `Cells` | int64 cells and their bytes | `Wrap` is int64 arithmetic, `ByteOf`/`FromBytes` the little-endian conversions |
| `GoWords` | the builtins that compute | one action per builtin; `Access` is the bounds check shared by the memory words; `status` becomes `"fatal"` where the code calls `fatalErrorf`, `"crash"` where the Go runtime panics |
| `GoForth` | `Run`, `doRun`, `if_`, `do_`, `colon` and what they call | extends `GoWords`; `calls` is the stack of Go loops that are reading words (`"if"`, `"else"`, `"do"`); a step is the handling of one word by the innermost loop |
| `ForthSemantics` | what the control words promise | a machine with a program counter whose jumps are read off the nesting of the program; it has a step for every word, an error if need be |
| `GoRefinement` | that `GoForth` implements `ForthSemantics`, and where it does not | refinement mapping `inputPtr`, `compileMode` and `leaving` to `pc` (`Position`), `loopStack` to `loops` (`LoopsLeft`), `ptrStack` to `returns`; `Diverges` lists the steps that differ |
| `GoTestdata` | programs of `testdata/` and the output their files list | written as the words `nextWord` returns |
| `GoReading` | the words of the input, for `GoForth` | `WordsAfter` is what `nextWord` can return, `SkipsTo` the search of a comment |
| `GoInput` | the loops of `nextWord` and `rewindWord`, the searches of `\`, `(` and `."`, on characters | a step is one turn of a loop; shown to move among the words of `GoReading`, which `GoInputMC` counts off the text |
| `CtilWords` | the builtins of ctil that compute | one action per builtin, its asserts and bounds checks as `Needs` and `Access` |
| `CtilDictionary` | entries in memory, and what defines words | `Header`, `PlaceCell`, `PlaceWord` extend a dictionary as `create`, `comma` and `place_dict_word` do; `FindIn` follows the links |
| `Vocabulary` | what the dictionary promises | a sequence of definitions of which only the newest changes |
| `CtilCompiler` | the words that compile loops and the words that move `pc` | `loops` is `loop_compile_stack` with its backpatches; `Patched` writes them |
| `CtilInput` | `get_word` and the reading of texts | functions of the whole input and a position |
| `CtilReader` | the same as loops over `fgetc` | a step is one call of `fgetc` |
| `Ctil` | `main`, `interpret`, `execute_toplevel_word`, and the builtins that read the input | extends all of these; a step is the handling of one word read or of one cell of code |
| `CtilPrelude`, `CtilTestdata` | `prelude.4th`, programs of `testdata/` and their output | written as characters |
| `CtilCode` | compiled code, read back | `Instructions(e)` is what the inner interpreter would read of entry `e` |
| `CtilAgreement` | ctil beside `ForthSemantics` | the abstract machine runs the program that ctil compiles |
| `…MC` | instances for TLC | |
| `CellsProofs`, `CtilTyped` | lemmas for several proofs | about cells and numbers; about ctil's data words and the dictionary |
| `GoForthProofs`, `GoInputProofs`, `CtilWordsProofs`, `CtilDictionaryProofs`, `CtilReaderProofs`, `CtilProofs` | theorems | about `GoWords`, `GoForth` and `GoRefinement`, `GoInputMC`, `CtilWordsMC`, `CtilDictionaryMC`, `CtilReader`, `Ctil` |

`ForthSemantics` and `CtilCode` are not translated from the code: the first says what the
control words have to do, the second reads back what the compiler has written. Their
entries in `map` name the lines whose effect that is.

### How goforth is modelled

**Words, not characters.** `input` is the sequence of the words `nextWord`
returns, upper-cased; `inputPtr` is the number of words consumed. Newlines, `)`
and `"` are words where a comment or a string looks for them (`GoReading`). `LEAVE`'s
`rewindWord` is then a step back of one position. Lines, columns and the texts
of errors are left out.

**Go's call stack.** The recursion `if_` → `executeWord` → `if_` is the variable
`calls`. When a word ends, `WordEnds` makes the innermost `if_` loops return as
long as `skippedThenCount` is positive, which is the check at the bottom of the
loop in `if_`; the loop after an `ELSE` has no such check and stops the cascade,
as in the code. `EndOfInput` is `nextWord` returning `""`: `doRun` returns, all
other loops report an error.

**Searches.** `skipIfUntil` and `skipLoop` are given by the set of positions at
which they may stop (`IfStops`, `LoopStops`); the first of them is taken, or the
search fails.

**Memory.** A cell is two bytes instead of eight and a byte has `ByteBits` bits,
so that overlapping, partial and overflowing accesses all exist in a memory of a
few bytes. `memptr` is a cell, since `int` wraps around in Go. A check that the
code makes on the first byte of an access is made on that byte only; what then
lies outside `memory` is a panic of the runtime.

**The refinement.** `LEAVE` takes two steps of goforth (it moves in front of
`LOOP`, and `LOOP` then ends the loop), so `GoRefinement` adds the history
variable `leaving`; while it is true the abstract machine already is behind the
`LOOP` and out of the loop. The abstract machine executes a definition in one step,
so while goforth reads one (`compileMode`), it already is behind the `;`.

goforth does not implement `ForthSemantics` on every program. `Diverges` is the
disjunction of the steps with which it does not, each a formula about the word that is read
and the words that are passed over, named for what goes wrong:

| Steps | What happens |
|---|---|
| `SkipsToOtherBranch` | `skipIfUntil` stops at the `ELSE` of an `IF` it passes over, or at a word inside a comment, a text or a name |
| `SkipsToOtherLoop` | `skipLoop` passes a `?DO` or a `-LOOP` as if it were no loop, or takes a word of a comment, a text or a name for one |
| `LeavesPlusLoop` | a `+LOOP` that is left takes a step |
| `PassesName` | `colon` passes a name that is a word it acts upon (`[CHAR] ;`) |
| `Redefined` | the program has defined a name that a Go loop compares words with before the dictionary is asked |
| `Unmatched` | an error at a word of a structure that is not complete, or is read by another loop than its own |
| `EndsTooEarly` | an error at the end of the input: something is still open |
| `Run` | the words of the previous input are lost |

None of these can be left out: without any one of them TLC finds a program of `go_any`
for which `OnlyListedDivergences` is false, for instance `0 IF : THEN :` without the first.

**Characters.** `GoInput` shows what the words leave out. Texts to which a closing
character clings have no counterpart among the words (`x)` is one word to
`nextWord` and ends a comment for `(`); the inputs of `GoForth` have none where
a word is read. Of a text that `."` writes, one blank or newline in front is
passed over, which the words do not tell apart from others; and at the very end of
the input `."` crashes only if not even a blank follows, so the inputs of `GoForth`
do not end in blanks.

### How ctil is modelled

**Memory is bytes.** The dictionary is not a data structure of the model but
what is read off `mem` by the operators the code uses: an entry is
`link | flags | length | name 0 padding | code`, with the length in a byte that is
computed in `uint8_t` and read back as a signed `char`. A cell is two bytes
instead of eight, and the alignment of names is that of a cell.

**Characters and words.** Which letters a name consists of plays no part, its
length does: a word of the programs is one character with a code of its own,
and names of other lengths are given directly in `CtilDictionaryMC`. Everything
`get_word` does with blanks, line ends and its buffer is kept.

**How a word can end.** `status` becomes `"abort"` for a failed `assert`, `"fatal"`
for `die`, `"crash"` for a trap of the processor, `"exited"` for `exit` and `"done"`
when `main` returns. An access outside an array is undefined in C: it ends the
behaviour as `"undefined"`, and no property says anything of what the process
does from there on except that it did not have to happen. A search for a name
that follows links in a circle ends as `"hangs"`.

**`.D`** is modelled by the addresses it shows: those of the cells of code
(`Dumped`, which is `debug_dump_dict`) and then those of the bytes below `here`
(`DumpedMem`, which is `debug_dump_mem`). `DumpEntry` and `DumpCell` are the bodies of the
two loops of `debug_dump_dict`; what they read outside memory, or a name or text without an
end, is undefined, and a dictionary or code that goes round in circles never ends.
`debug_dump_mem` reads all bytes below `here`, and is undefined when `here` has passed the
end of memory. How the addresses, words and bytes are laid out is left out.

**Execution.** `execute_toplevel_word` is `executing` and `pc`; one step (`Cycle`)
runs the cell at `pc`. Function pointers are the position of the builtin in
`register_builtins`, which the model reads word by word before the prelude, so
that the initial dictionary is the outcome of the code that builds it.

## Runs

| Run | Question | Instance |
|---|---|---|
| `go_words` | Do the data words keep their types, stay within a cell of what is allotted, crash only at the edge, and never lose allotted bytes? | every program of at most `MaxWords` = 6 words over the literals of the cfg; 4-bit cells (2-bit bytes), memory of 5 bytes. Six words suffice to allot to the end, wrap `memptr` around and then store |
| `go_any` | Do `calls`, `loopStack` and the remembered positions stay consistent for programs that are **not** well formed, and for a second `Run`? Are all divergences from `ForthSemantics` listed? | four beginnings (an open loop, a false condition, a word that opens a condition, a word that leaves a loop) followed by every tail of at most 4 of 11 control words, and `1` followed by every tail of 4 of 10 words that read text; then a second input. `MaxDepth` = 4 bounds the stacks (a word may call itself for ever) and `MaxRuns` = 2 the calls of `Run` |
| `go_refines` | Do well-formed programs take none of the listed divergences, so that skipped words have the effect of structured jumps? Are listed outputs produced, do programs end? | all programs of a grammar with loops (`DO`, `?DO`, `LOOP`, `+LOOP`, `-LOOP`), conditions two deep and `LEAVE`, called words, some erroneous programs, and six programs of `testdata/` (10-bit cells) |
| `go_nested_else` | Does a false condition take its own branch? (finding 1) | a false condition around an `IF … ELSE … THEN` |
| `go_input` | Do the loops on characters move among words as `GoForth` says, does a rewind undo a read, does every call return? | every text of up to five of the characters letter, blank, newline, `)`, `"`, inside and outside a definition. Five characters have room for a comment and a word, two words with any blanks between, and a text with a blank in front |
| `ctil_words` | Does an access leave an array only where a stack or memory is used up, and does a word goforth has do what it does there? | every program of at most 6 words and numbers, 3-bit bytes (6-bit cells), 5 bytes of memory, stacks of 2: six words fill each array from empty and then use it |
| `ctil_dictionary` | Are words found as they were last defined, are older definitions left alone? | every sequence of at most 6 of `CREATE`, `CONSTANT`, `:`, `;`, compiled cells, `,`, `ALLOT`, `IMMEDIATE`; names of one to three characters (each alignment of two), 34 bytes: the longest sequences run out of memory |
| `ctil_long_name` | Does the code of a word lie behind its name? (finding 2) | the instance of `ctil_dictionary` with one long name: a byte has 4 bits, so that six characters are as 120 are in the code |
| `ctil_code` | Do all operands lead to instructions of their definition, do programs print what their files list, does every program end, is any array of the compiler overrun before it is full, do `here`, `latest` and the open loops stay where they belong, and does `.D` keep in step with the code? | the prelude, the programs of `CtilTestdata`, input that ends too early for the word that reads it, and every `IF`, `BEGIN` and `DO` construct inside every other, with `LEAVE`s and texts, then two more definitions (compiled, not called: `ctil_agreement` executes such programs); 16 and 17 nested loops, 16 and 17 `LEAVE`s in a loop (the arrays of the source hold 16); 16-bit cells, 1500 bytes |
| `ctil_dump` | Does `.D` show each word? (finding 3) | a definition with a text, and `.D` |
| `ctil_agreement` | Does the compiled program do what its structure says, leave the return stack as it found it, and is code overwritten anywhere but in the operands of the loop that is closed? | a grammar like that of `go_refines` with the shapes goforth cannot handle, compiled with the prelude |
| `ctil_reader` | Do the loops over `fgetc` return what `CtilInput` says, and does every call return? | every text of up to five characters, a buffer of 3 (12 for texts), and two longer texts, one that just fits the latter and one that does not |

`GoForthMC`, `GoWordsMC`, `CtilWordsMC` and `CtilDictionaryMC` switch deadlock
checking off because their bounds stop a behaviour, `GoInputMC` because goforth
stops after an error; elsewhere the end of the process is the stuttering action
`Terminated` (`AtEOF` in `CtilReader`), so the other runs check for deadlock. In
the runs of ctil on programs `StackSize` and `BufSize` are large enough never to be
met, `MaxLoops` and `MaxPatches` are the constants of the source.

The grammar of `go_refines` leaves out the shapes of finding 1 and of the first
four divergences listed behind it, and
three more that goforth does not handle as structured jumps would: an `IF … THEN`
after a `LEAVE` in the same loop body, `LEAVE` in a `-LOOP` loop, and `THEN`
inside a `?DO` loop that is not entered. The comments of `GoRefinementMC`
name them where they are excluded.

**Fairness.** `Spec` has `WF_vars(Step)`: the interpreter is one thread that
takes its next step whenever there is a word to read, and nothing else runs.
There is no fairness for `Run`, which the environment may or may not call.
`GoInput` and `CtilReader` have weak fairness for the steps inside a function, none
for the calls. `Ctil` has the same assumption as `GoForth`, one thread that goes
on as long as it runs, written without `ENABLED` as `Fairness`: a running ctil
always has a step that changes something (the runs check for deadlock) except
for a `BRANCH` to itself, so infinitely often it has stopped, spins, or takes such a
step. `CtilAgreement` states no liveness and no fairness.
`Terminates` uses it. It holds for the programs of `go_refines` because each of their
loops has finite bounds; for ctil it says so of the programs of `testdata/`, and of the
rest that compiling, which executes the immediate words of the prelude, ends.

## What the runs found

1. **A false condition around an `IF … ELSE … THEN` runs the inner `ELSE`
   branch** (`go_nested_else`). `skipIfUntil` counts nesting for `THEN` but stops at
   an `ELSE` of any depth. Nothing of `0 IF 0 IF 1 . ELSE 2 . THEN THEN` should be
   executed, but the outer `IF` goes on behind the inner `ELSE`, and `2 .` is. The first `THEN`
   then ends the loop for the `ELSE`, the second is read by `doRun`, and the program
   panics with "unknown word 'THEN'" (`goforth.go:127`, `149`). The 2 is never printed: it
   is in the buffer, which only `exit` writes. (The comment on `if_`, `builtins.go:557–559`,
   says "it skips words until the next ELSE or THEN"; the next `THEN` of a nested `IF` is
   passed over, its `ELSE` is not.)
2. **The code of a word with a long name lies before the name** (`ctil_long_name`).
   The padded length, 128 or more, is read back from a signed `char`.
3. **`.D` passes over the word behind a text** (`ctil_dump`).

The model reproduces more places where the code does not do what its comments say.
They are no runs of their own: the grammars leave their shapes out, and those that
concern `Refines` are steps of `Diverges`, which `go_any` takes. Where a property is
named, it is the one that the shape concerns.

- **A `?DO` loop that is not entered leaves `skippedThenCount` positive**
  (`EveryNotedThenIsClaimed`). `skipLoop` counts the `THEN` of an `IF` that lies
  entirely inside the words it skips; the next true `IF` then returns after its first
  word. The last loop of `testdata/doloop.4th` is such a loop, but nothing follows it.
- **`LEAVE` after `ELSE` ends in "unknown word 'LOOP'"** (`Refines`, `Unmatched`). The loop for the
  `ELSE` branch does not look at `skippedThenCount`, so it, and not `do_`, reads the
  `LOOP`.
- **`LEAVE` in a `+LOOP` loop still takes a step** (`Refines`, `LeavesPlusLoop`). `LEAVE` skips the words
  that compute the step and prepares the index for `LOOP`; `+LOOP` then pops a step
  that is not there: `5 0 DO I . I 2 = IF LEAVE THEN 1 +LOOP` ends in a stack
  underflow.
- **`LEAVE` in front of an inner `?DO` loop stops at the inner `LOOP`** (`Refines`,
  `SkipsToOtherLoop`).
  `skipLoop` counts `DO` as a nested loop but not `?DO`.
- **Words do not survive a second `Run`.** "State is retained between runs"
  (`goforth.go:72`), but a definition is a position in the text that was replaced. It may
  lie behind the end of a shorter text (`PositionsAreInInput` is about the first run only),
  or be that of any other word there.
- **A program that defines `LOOP`, `THEN` or `DO` gets the builtin inside a construct** and
  its own word outside (`Redefined`).
- **A `;` that is a name ends a definition** (`: A [CHAR] ; ;`, `PassesName`), **and an `ELSE` or
  a `LOOP` in a comment ends a search** (`Hides`).
- **`memptr` can leave the memory.** `VARIABLE` does not check, and the sum in
  `ALLOT` can wrap around to a negative number that passes the check
  (`CrashOnlyAtTheEdge` and `AllottedBytesAreKept` say what follows from it).
- **The comma of ctil writes beyond `mem`.** `ALLOT` lets `here` be the size of
  memory; `,` does not look (`UndefinedOnlyAtABound` lists the case).
- **A word that fills the buffer of `get_word` loses the character behind it**
  (`LeavesWhatInputSays` says which characters are in which word).
- **`;` does not look at open loops** (`BalancedAtTopLevel`). After `: A 2 0 DO ;` the
  `LOOP` of the next definition jumps into `A`.
- **One `LEAVE` too many writes behind `backpatch_addrs`** (`OnlyPatchesOverrun`
  shows that it is the only array that is written without a check).
- **After `5 >R` at top level the next word ends by continuing at address 5**
  (`BalancedAtTopLevel`).
- **`.D` takes a word quoted by `'` for an instruction**, and when that word has an operand, the
  word behind it for the operand: in `: A ' BRANCH DROP ;`, and in the prelude's `IF`, `ELSE`,
  `WHILE`, …, the word behind is not shown. `DumpKeepsInStep` says that this and finding 3 are
  all that is missing.
- **`[CHAR]` reads a character, not a word**: with two blanks it compiles a blank.
- **A text is not ended by a zero** when the bytes above `here` have been written, and
  **the length of a text of 248 characters or more wraps around**
  (`AgreesWithSemantics`).

ctil has none of the divergences of goforth's control words: `ctil_agreement` has
those programs in its grammar and finds that they do what their structure says.

## What is proved

The proofs hold for every width of a byte, size of memory and of the stacks,
table of numbers, and set of inputs, names and literals that meets the
assumptions of the modules (`CellsAssumption`, `GoWordsAssumption`,
`GoForthAssumption`, `CtilWordsAssumption`, `CodeAssumption`, `CtilInputAssumption`,
`CtilCompilerAssumption`, `CtilAssumption`, `ReaderAssumption`, `NumbersAssumption`, …), all of which TLC
evaluates in the runs. (`CellsAssumption` repeats that `ByteBase` is even, and a multiple
of four unless it is two, because the provers know nothing about powers.
`CtilAssumption` says that files consist of characters that have a code, and that
numbers and the positions of builtins in their list are cells. `NumbersAssumption`: no
word that is a number is one of Forth's, as `ParseInt` accepts only digits and a sign.)

`CellsProofs`: the cells are `-h .. h - 1`; wrapped numbers, bytes and decoded
cells lie in their ranges; a cell that was stored is read back; wrapping a sum that is at
most one turn too large takes one turn off; division truncates to an integer. A
nonempty set of numbers has a least element (`LeastExists`), for the `CHOOSE`s of
positions. `AllNumbers` (a set that holds 0 and every successor holds all numbers) and
`Repeats` (a step can be repeated any number of times) are the two forms of induction
the provers can use: they are about sets and functions, not about operators, and a
recursive function of the model is shown to be the one that `Repeats` gives.

`GoForthProofs`, for `WordsSpec`: `WordsTypes` (one lemma per way a word can end,
one per group of words), and from it `SpillIsBounded`, `CrashesAreAtTheEdge` and
`AllottedBytes`. The type invariant is inductive by itself; it is what bounds
`memptr + n` to one turn, which the other three need.

`GoForthProofs`, for `Spec`: one inductive invariant

    Inv == Typed /\ Balanced /\ PositionsAreInInput

where `Typed` is `TypeOK` with the fact that `input` is one of the given inputs,
and `Balanced` says `Len(loopStack) = Cardinality(DoFrames)`. The conjuncts need
each other: popping `loopStack` keeps `Balanced` only if a `"do"` frame goes
with it, a position taken from a stack is a position of the input only because
all that were pushed are, and `skippedThenCount` stays a natural number because
`Unwinds` returns from at most that many loops. The heart of it is three lemmas on Go's
call stack: returning from `if_` loops keeps the set of `"do"` frames
(`UnwindsFrames`), entering a loop adds one exactly for `do_` (`EntersFrames`),
returning from `do_` removes one (`CallerFrames`). From `Inv` follow `Types`,
`LoopStackAgreesWithCalls` and `PositionsStayInInput`; `ReadingIsSilent` is an
action property of `Next` and needs no invariant.

`GoForthProofs`, for `HSpec`, that is for every program, well formed or not, and any
number of runs:

- `DivergencesAreListed`: every step of goforth is a step of `ForthSemantics` or a
  stutter of it, unless it is one of the steps `Diverges` lists. It has no hypothesis: the
  steps that come *after* a divergence are covered too.
- `GoForthRefinesSemantics`: a behaviour without such a step implements `ForthSemantics`
  (`HSpec /\ NeverDiverges => Refines`). That the programs of the grammar and of `testdata/` take
  none is what `go_refines` checks. A second `Run` is such a step, so this theorem is about the
  first; the other one goes on behind it.

The inductive invariant is that of goforth with what `LEAVE` leaves behind:

    HInv == Inv /\ leaving \in BOOLEAN /\ LeavesLoop

`LeavesLoop` says that between the two steps of a `LEAVE` goforth runs, reads no definition,
has a loop whose index is one below its limit, and stands in front of the `LOOP` or `+LOOP` at
which the search stopped. Without it the second step would not be known to end the loop.
The proof has three parts. First, searches: goforth counts the words between two positions,
the abstract machine those of them that are code (`CodeOf`, a recursive function whose
values are unfolded one word at a time), and where nothing hides a word the two sets are the
same (`BranchIs`, `LoopEndIs`, `BodyEndIs`, …). Second, the data words of the two machines are the same
actions under the mapping. Third, one lemma per word, `Turn(p)` being the handling of the
word at `p` by whichever Go loop reads it: the abstract machine takes the same step from
`Position`. Which frame of Go's call stack is innermost matters only to the words a frame
looks for itself; that `loopStack` and the frames agree is `Balanced` of `Inv`. Words inside
a definition, the `LOOP` of a `LEAVE` and the end of a definition are the stutters. The value
of `skippedThenCount` plays no part in the proof: a wrong count shows only when a `THEN` or a
`LOOP` is then read outside of its loop, and that is an `Unmatched` step.

`GoInputProofs`: `WordsAreRead` and `WordsAreSearched`, that the loops of goforth on
characters move among the words of `GoReading`, on every text. With them the step from
characters to words, on which all that is said of `GoForth` rests, is proved and not only
checked on short texts. A position in the characters is one in the words by counting the words
that begin before it (`Count`); the count grows by one where a word begins and nowhere else
(`CountGrows`, `CountStays`), so it numbers the words (`WordsAre`). The inductive invariant

    InputInv == types /\ Stands(inputPtr) /\ EndsWord(inputPtr) /\ ReadsWord /\ RewindsWord

(the last four each under the condition in which they are meant) says where `inputPtr` stands
between two calls, and of each loop what it has passed over so far: `nextWord` only white space,
then only the word; `rewindWord` only the word. That a word was read to its end (`EndsWord`)
is why `rewindWord` is never refused, why it ends at the same word, and why `."` finds white
space to skip. The words of a text that is written are those of the input between the
quotes (`TextWords`), by induction along the text.

`CtilTyped`: every data word of ctil keeps `WordsTypeOK`. What it takes is arithmetic
(a quotient fits a cell unless it is the one that traps; a sum of two bytes' worth does).

`CtilWordsProofs`, for any program of data words: `CtilWordsTypes`; from it
`BoundsSuffice` (outside the listed cases no access leaves an array, word by word);
and `CtilAgrees`, that a step of ctil which is a word of both systems *is* the step of
`GoWords` under the mapping of the state, apart from four listed differences. The
last needs the type invariant in both states: the return stack of ctil is an array
and a top, that of goforth a sequence.

`CtilTyped` also holds the lemmas about the dictionary that `CtilDictionaryProofs` and
`CtilProofs` share.

    DictInv == WordsTypeOK /\ LatestIs(latest)

`LatestIs` says that the newest entry's header lies in memory, without which
`IMMEDIATE` could write anywhere. Each way of extending the dictionary is shown to
`Grow` it (memory below `here` unchanged, `here` no lower, the invariant kept), and
since `Grows` composes (`GrowsTwice`), a definition is a chain of such extensions. What
`find_word_in_dict` returns is an entry whose header lies in memory, or none (`FoundHolds`).

`CtilDictionaryProofs`: `WritesAtHere` and `DictionaryTypes` follow from `DictInv`.
`NewestIsFound` and `DictionaryIsVocabulary` are about the contents of the dictionary,
and their invariant relates the bytes of memory to the history of definitions:

    Listed == DictInv /\ words = Definitions /\ stack \in Seq(Literals) /\ WordsListed

`WordsListed` says that there is a sequence of entries, linked one to the next from
`latest` to -1, ascending and disjoint in memory, whose names are those that were defined, in order.
A definition appends an entry to it (`HeaderLists`), everything else
leaves the bytes of all entries alone; the search and the reading back of entries, both
recursive functions, are then determined by induction along that sequence. With it the
refinement of `Vocabulary` goes action by action: a defining word adds a definition at
the end, a compiled cell extends the newest, `IMMEDIATE` sets its flag. Both theorems have
two hypotheses. `ShortNames`: the padded length of a name is less than `F_BUILTIN`, that
is 128; with longer names they are false, which is finding 2. `Forwards`: the numbers that
are pushed are not negative, so `ALLOT` does not move `here` back below the latest
definition, after which the next one overwrites it. The instance of the run meets both.

`CtilReaderProofs`: `ReaderAgrees`, that the loops over `fgetc` leave the word, the
text and the position that `CtilInput` reads off the whole input, for every input and
buffer size. The inductive invariant

    ReaderInv == Positions /\ Skipping /\ InWord /\ InText

says of each loop what has been passed over so far (only blanks; the characters of
the word up to here; no closing character) and relates `c` to `pos`, which is what a
loop that reads one character ahead gets wrong.

`CtilProofs`, for `Spec` of `Ctil`, that is for the whole of ctil with any prelude and any
program, those that are in error or overwrite themselves among them:

    MachineInv == MachineTypeOK /\ (stream = "builtins" => input = Builtins)

The second conjunct is needed where a builtin is registered: the number that stands for
its function is a cell because it is a position in the list. `MachineTypes` says that
`MachineTypeOK` holds always. It is more than types: `here` passes memory by at most a
cell although `?DO`, `LEAVE` and `[CHAR]` move it on without looking (`ReserveGrows`, `BytesGrow`),
the operands noted in open loops lie in memory, and the lists of
loops and operands fit their arrays. `CodeIsNotOverwritten` comes from the same
induction, in which every builtin is shown to keep the invariant **and** to change bytes
below `here` only in one of three ways (`Writing`): a data word by a store at the address
it pops (`DataWordStores`), `IMMEDIATE` in the flags of the newest entry, and `LOOP` or
`+LOOP` in the operands of the innermost open loop (`PatchedIs`, by induction over
them). For the words that are compiled into others, from `BRANCH` to `+LOOP`'s
run-time part, it is shown that they change no memory at all (`ThreadedWordThreads`). So whatever a
program compiles stays as it is unless the program itself stores into it. An access
outside an array, which ends the behaviour as `"undefined"`, is a step of the model
like others; what the process does after it is not covered.

Only model-checked:

- `AgreesWithSemantics`, `CodeIsWellFormed`, `JumpsStayInDefinition`: they
  relate a program, or code whose shape a program made, to what a recursion over all of it says.
  The dictionary could be dealt with because its list grows only at one end; the code of a
  definition is patched in its midst by words of the prelude, which are programs themselves.
- `Terminates`, `EveryCallReturns`: liveness.
- `OutputIsAsListed`: about particular programs. `NeverDiverges`, `EveryNotedThenIsClaimed`,
  `BalancedAtTopLevel`, `OnlyPatchesOverrun` and `DumpKeepsInStep`: true only for the programs of a
  grammar.

## Not modelled

- The wording of error messages, with the line and column goforth computes for them,
  and the formatting of output.
- `zmalloc`, which allocates the state once and dies if it cannot.
- The Go test harness, which starts the two programs and compares text.
- The spelling of names and numbers: `strtoll` and `ParseInt` are the table `Numbers`,
  upper-casing is `Upper` where characters are read and has been done elsewhere.
- Line comments in the prelude and in the programs of ctil's runs are left out;
  `Backslash` models them. A `\` at the very end of a line (`prelude.4th:62`) swallows the next
  line, because `get_word` has consumed the newline; nothing says what it should do.
- Programs that define their own `LITNUMBER`, `LITSTRING` or `TYPE`, which the
  compiler then finds, and negative sizes for `ALLOT` that move `here` below the latest
  definition: both are in the model, no property is stated about them.
- A `LOOP` that starts above its limit, which runs through all of int64.
- What a process does after an undefined access.
