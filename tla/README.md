# Verification of riscy

riscy translates statically linked RV64I programs to AArch64 assembly ahead of
time. This directory holds TLA+ models of its translation pipeline, TLC
configurations that check them on small instances, and TLAPS proofs of the
results that hold for every instance. Paths below are relative to `src/`.

## 1. Inventory

| Component | Code | State it keeps | Operations | Module |
|---|---|---|---|---|
| ELF image, memory readers | `src/ELFImage.cpp`, `src/MemoryReaders.h` | sections with address, size and bytes | `load`, `read`, `read32`, `getEntry` | `DecodeNext`; the constant `Image` of `GuestCode` |
| Decoder | `src/RISCV/Decoder.cpp` | none | `decodeNext` | `Decoder`, `DecodeNext`; a function of the address (`Decodes`) for the builder |
| CFG builder | `src/RISCV/CFG.cpp` | worklist, leaders, blocks, index by address | `build` | `CFG` |
| Lifter | `src/RISCV/Lifter.cpp` | the IR of the block so far | `lift` | `Lifter`, `IR` |
| Instruction selection | `src/AArch64/ISel.cpp` | value map, host instructions so far | `select` | `ISel`, `AArch64` |
| Liveness | `src/AArch64/Liveness.cpp` | map from virtual registers to intervals | `analyze` | `Liveness` |
| Register allocation | `src/AArch64/RegAlloc.cpp` | sorted items, pool, active list, assignment | `allocate` | `RegAlloc`, `LinearScan` |
| Emitter | `src/AArch64/Emitter.cpp` | text written so far | `emit` | `AArch64` (what a block's text does), `Runtime` (entry, tables, terminators) |
| Driver | `tools/riscy.cpp` | host blocks and assignments, by sorted address | `main` | `Translate` (one block), `Execution` (the whole program) |
| Runtime | `src/runtime/runtime.c` | guest registers, guest memory, host stack | `riscy_indirect_jump`, `main` | `Runtime`, `Execution` |
| Printers | `src/RISCV/Printer.cpp`, `src/IR/IR.cpp` | none | formatting | none |
| `lower.py` | `tools/lower.py` | none | runs riscy, assembler and linker | none |

**How they interact.** Everything is a call of `main`: the CFG builder asks the
decoder for one instruction at a time, which asks a memory reader for one word;
each block of the finished graph is lifted, selected, analyzed and allocated in
address order; the emitter gets all of them at the end. Nothing runs
concurrently and nothing is persisted. What is hard is order and agreement: in
which order blocks are discovered, in which order intervals with equal starts
are served (an `unordered_map` and an unstable sort), what "the last
instruction" is when a terminator is made, and whether one stage means by a
value, a position or an address what the next one takes it for. The output
then runs with a control stack of its own: links in registers, a frame of the
C runtime for every indirect jump.

**What makes each part correct.**
- CFG builder: finds what is statically reachable, each leader built once,
  every copy of overlapping code follows the guest, no branch without a target.
- Lifter, selection, allocation: each keeps what the block does to guest
  registers and memory and where control goes next.
- Liveness: intervals cover every use. Register allocation: interfering
  intervals get different registers, none is lost, it aborts only when it must.
- Decoder: a word becomes the instruction it encodes, or is refused. Readers: a
  word is read exactly where a section holds it.
- Translated program: the host runs the block the guest is at; what it returns
  to, traps on and loses its way by is known.

`PROJECT.json` lists, under `hazards`, every place found where this may go
wrong in a way a unit test would hardly reach, at its line.

## 2. Modules

```
GuestCode <- StaticReach                    what a graph builder promises
GuestCode <- CFG <- MC_CFG                  CFGBuilder::build; refines StaticReach
LiveIntervals <- LinearScan                 what linear scan promises
LiveIntervals <- RegAlloc <- MC_RegAlloc    RegAlloc::allocate; refines LinearScan
LiveIntervals <- Liveness <- MC_Liveness    Liveness::analyze
Words <- GuestISA                           what guest instructions mean (reference)
Words <- IR <- Lifter                       the IR and Lifter::lift
         IR <- AArch64 <- ISel              host instructions and ISel::select
GuestISA, Lifter, ISel, Liveness, RegAlloc <- Translate <- MC_Translate
GuestISA, Lifter, HostABI <- Runtime        the output when it runs
CFG, Runtime <- Execution <- MC_Execution   a program from image to end of run
RV64I, Decoder <- DecodeNext <- MC_Decode   encodings; load, read, decodeNext
HostABI                                     registers emitter and runtime agree on

SequenceFacts <- CFG_proofs, RegAlloc_proofs, Lifter_proofs, Translate_proofs
RegAlloc_proofs <- Liveness_proofs          liveness and allocation together
Lifter_proofs, CFG_proofs <- Execution_proofs
Lifter_proofs, Liveness_proofs, RegAlloc_proofs <- Translate_proofs
DecodeNext_proofs
```

**GuestCode.** Addresses are `0 .. AddrMod - 1` and wrap as `uint64_t` does. A
program maps the readable aligned words (`Image`) to decoded instructions or
`Invalid`; `Decodes` is `decodeNext` succeeding. The predicates are those of
`CFGBuilder`; `StaticSucc` is the reference for where control may go. A return
is `jalr x0, 0(ra)` only, as in the code.

**CFG.** One step per pop of the worklist or turn of the scanning loop. A turn
that leaves the loop stores the block too, as the code does. `insts` keeps
addresses, since a program is constant. The `try`/`break` for undecodable words
is `EndUndecodable`.

**Liveness.** One step per operand, per instruction and for the terminator;
`Touched` is the lambda `touch`, with its sentinel.

**RegAlloc.** One step to take an item, one for each active interval that
`expire` keeps (`Keep`) or erases (`Free`), one for each register it pushes
back, and one to allocate or abort. `active` is a prefix-consumed list while
`expire` runs, `kept` is what `remove_if` has kept so far. The order of items
with equal starts is open (`IsNextItem`), because the items come out of an
`unordered_map` and `std::sort` is not stable. `pool` is the vector the code
pops from at its end and appends freed registers to. `Abort` is the branch that
ends in `abort()`.

**IR, Lifter, ISel, AArch64.** Pure functions, as in the code. The IR and the
host instructions have a semantics (`RunIR`, `RunBlock`) so that blocks can be
compared with the guest's meaning (`GuestISA`). Value ids are positions in the
block; virtual registers are ids plus one, and address registers take the size
of the value map, as in `ISel::select`. Lifter, selection and both semantics
are folds of one operator over the instructions (`LiftInst`, `SelectStep`,
`IRStep`, `Execute`), as the code's loops are. The 8- and 16-bit loads and stores of
`ISel` are left out: the lifter never makes one. Every opcode without a case in
the lifter falls into `OTHER`, which adds nothing, as in `default`.

**Translate.** One basic block through `main`'s loop: `LiftBlock`,
`SelectBlock`, the steps of `Liveness` and `RegAlloc` (by `INSTANCE`), `Emit`.
`BlockOf` and `CutOff` make the blocks the CFG builder stores. Host registers
hold `Junk` when a block is entered, so reading a register nothing has written
shows. The registers a block was emitted with are part of the host state, so that
`Execute` is one step function and `RunBlock` a fold of it. `Emitted` runs the
host block over the machine registers it was given, `Unlimited` over one
register for each virtual one: there are at most twice as many as IR
instructions, and one more.

**Decoder, RV64I.** A word is the set of its 1 bits. `Decode` is the switch of
`decodeNext`, an operator for each shape of operands; `RV64I` is the reference,
written the other way round: a table of fixed bits and an `Encode` that scatters
registers and immediates over the word bit by bit, so that the two share
nothing. The
compiled code works on `uint32_t` and 64-bit integers that never overflow here.

**DecodeNext.** One call: the sections of the file are loaded one by one, the
bounds checks of `read` are tried section by section with sums that wrap at
`AddrMod`, the word is copied and decoded. A copy that reaches behind a buffer
is undefined behaviour: any word, or a fault (`CopyBehindEnd`). ELFIO is what it
gives `load`: header fields and sections. The reader of the tests is the second
kind of reader.

**Runtime, HostABI.** Return addresses are named for what is there
(`Places`): behind `main`'s call, behind the `bl` of the entry, inside
`riscy_indirect_jump`, behind the `bl` of a block. `lr` is x30, `frames` what the
frames of `riscy_indirect_jump` keep of it. A block runs in one step: its IR is
evaluated and the terminator moves control as the emitted text does. (That
selection and allocation keep the meaning of the IR, or not, is the question of
`Translate`.) A guest that follows the architecture runs beside it, over the
same instructions while the host is where the guest is. `Cells` are the cells of
guest memory; what `malloc` leaves in them is arbitrary. `strayed` notes that an
indirect jump went elsewhere. Behind the `bl` of a block comes whatever the
text has next, with x0 no longer the state: the run is `lost` there.

**Execution.** The steps of `CFG` (by `INSTANCE`), then `EmitModule`, the
driver's loop over the sorted keys of `indexByAddr`, then the steps of
`Runtime`.


## 3. Runs

| Run | Question | Instance | Distinct states |
|---|---|---|---|
| `cfg` | Does the builder keep its books, follow the guest and find everything? | every program of four words over 14 instructions | 349 495 |
| `liveness` | What does `analyze` compute? | every well-formed block of up to 3 instructions over 3 virtual registers | 79 100 |
| `regalloc` | Is the allocator a linear scan, and does it conserve its pool? | every map of up to 4 intervals over positions 0..3, 2 registers, one step per active interval looked at | 534 338 |
| `translate` | Does a block keep its meaning from stage to stage? | blocks of one and two instructions, the empty block, four guest states | 22 137 |
| `decode` | Is a word decoded to what it encodes, and read from where it is? | 52 opcodes with boundary operands, all opcodes with each funct3 and telling funct7; all layouts of up to two sections of 37 in 32 bytes | 133 874 |
| `execution` | Does the output run where the guest runs, and how does it end? | every program of four words over 11 instructions, two arguments, four frames | 368 469 |
| `allocation_meaning` | Is what is emitted what was selected? | the same | violated |
| `indirect_target` | Does a lifted JALR jump to its target? | JALR with rd x0 and x1 | violated |
| `late_auipc` | Does AUIPC add its own address? | AUIPC behind another instruction | violated |
| `dropped_ops` | Is every RV64I instruction translated? | LUI, SUBW, SLT, SLTU, SLTI, SLTIU | violated |
| `shift_amounts` | Does every RV64I word decode? | SRLI and SRAI by 0 to 63 | violated |
| `callee_return` | Does a program that returns to main return in the guest? | as `execution` | violated |

**cfg.** `EveryLeaderOnce` (a leader is queued once, being scanned, or built),
`IndexMatchesBlocks`, `BlocksFollowGuest` (also in overlapping copies: a branch
into a stored block does not split it), `NoRunOver` (a block never runs over the
start of one stored earlier), `NoDanglingSuccessor`, `Termination`, and the
refinement `ImplementsReach`.

**liveness.** `ExactIntervals` says exactly what is computed. `touch()` takes an
interval with start 0 and end 0 for one not yet set, which is also the interval
of a value touched at position 0 only; so the interval of such a value starts
at its *second* touch. All other intervals run from the first to the last touch.

**regalloc.** `ImplementsScan` (the stack and the active list implement a scan
over sets), `PoolConservation` (each register of the pool is free once, on its
way back or held once), `NoSharing`, `GivesUpOnlyWhenFull`, `Termination`.

**translate.** `LiftPreservesState`, `LiftPreservesExit`,
`SelectPreservesMeaning` compare each stage with the one before it on every
guest state; `WrittenOnceThenRead` covers the two ways `ISel` numbers virtual
registers; `OnlyLostStartsClobber` says that allocation keeps the meaning of
every block in which no register is shared during the lost start of a value of
position 0 (`Unclobbered`: none is given to an interval that starts before, or
with, the recorded start of such a value, and before its end), in any order of
equal starts. `TranslatesTruly` puts the stages together: such a block, emitted,
does to registers, memory and control what the guest's instructions do.
`NeverAborts`, `Termination`. Of the 534 emitted blocks (a block counts once for each
way its equal starts can be served) 179 are clobbered, the other 355 are the ones the two
properties are about.

**decode.** `DecodesTruly`: the instruction returned, encoded again, gives the
word, but for named positions the decoder does not look at (that is how the M
extension passes for base arithmetic). `AcceptsRV64I`: a refused word is no
RV64I instruction, but for right shifts by 32 and more. `ReadsExactly`: a word
is read exactly where an executable section holds it, except where sums wrap:
at the top of the address space every image that starts no later seems to hold
the last word, and a section that reaches the top is readable nowhere else.
`Termination`.

**execution.** `InStep`: whenever a block is about to run, the guest stands at
its first instruction with the same registers, unless an indirect jump went
astray. This puts together how blocks are cut, the order of branch sides,
lifting, the tables and the search in them. `FramesCountJumps`: each indirect
jump made so far has its frame on the host stack while blocks run.
`WhenMainReturns`, `WhenTrapped`, `WhenLost`: what is true of a run that ends in
each of these ways. `NoCodeBelowMemory`: guest memory starts at the lowest block
and no instruction lies below it.

**Findings.** The six runs that expect a violation state what the repository
says of itself and what its code does not do:
- `allocation_meaning`: because of the lost start, a block that begins with a
  branch loads both of its operands into one host register and compares it with
  itself (`Liveness.cpp:9`).
- `indirect_target`: the terminator takes the value of the last instruction for
  the target of a JALR. That is the return address when rd is x0, and when rd is
  not x0 the last instruction is a `WriteReg`, which has no value, and the
  target is value 0 of the block (`Lifter.cpp:462`).
- `late_auipc`: `GetPC` is lowered to the address of the block (`ISel.cpp:254`).
- `dropped_ops`: instructions without a case in `lift` vanish (`Lifter.cpp:426`).
- `shift_amounts`: SRLI and SRAI compare all of funct7, whose lowest bit is the
  highest bit of the shift amount, so amounts of 32 and more are refused
  (`Decoder.cpp:213`).
- `callee_return`: a guest call is a branch and a guest return a host `ret`; the
  first return of a function returns from the whole run (`Emitter.cpp:229`).

**Bounds.**
- `cfg`: `AddrMod` is 32, so branch targets wrap, and `Image` is four words
  (8 to 20): blocks can overlap, be cut by a leader found before or after them,
  run off the end of the image, and jump below it, past it, onto themselves and
  off alignment. Every kind of terminator occurs. Three words make an
  overlap (a branch back into the middle of its own, already stored block), and
  the fourth leaves room for another block to run into it.
- `liveness`: three instructions are needed for a first touch at 0, a second
  and a third touch; the operand shapes are those of `ISel`.
- `regalloc`: two registers and four intervals let the pool run dry, refill in
  a different order and run dry again.
- `translate`: words have 8 bits, with 4-bit halves (i32) and 2-bit chunks (the
  16-bit pieces of a constant). Sign extension, wrap-around, constants of one to
  four pieces and zero pieces in the middle occur; a program's memory is a
  function on all addresses in cells of one half. Three guest registers tell
  rd, rs1, rs2 and x0 apart. Two instructions make a block with a `WriteReg`
  between reads and a position 0 that is far from the end. The pool has four
  registers, the last four of the code's: the values of one instruction are all
  over when the next one starts, so a pool of four is enough for any block
  of these and `NeverAborts` holds with it. The code's pool has 25. There are
  30 virtual registers and positions up to 60, more than the longest of the
  blocks needs (`Rooms` and `HostPool` of `Translate_proofs` hold of this instance).
- `decode`: 32-bit words as they are. Immediates are the boundaries of each
  format and values that set alternating bits, registers set each bit of their
  fields. Two sections touch, overlap, leave gaps, are empty, wrap and reach the
  top; a third would add no new position of the search relative to a read.
- `execution`: entry at the second of four words, so that a block lies below it
  and blocks are found out of order; calls, returns, computed jumps to blocks
  and elsewhere; words of 8 bits. Four frames let an indirect jump return behind
  a block, and a loop of them overflow. The instructions access no memory, and
  `Cells` is empty: loads and stores are compared in `translate`, and the
  theorems about `Execution` cover them.

**Deadlock** is not checked: every stage ends, and stays in its last state.

**Fairness.** `WF_vars(Next)` in each specification: each stage is a
sequential loop that takes its next step while there is one. `execution` checks
no liveness: a guest program may loop for ever.

## 4. Proofs

All are checked by tlapm without assumptions other than the ones the modules
name for their constants (`CodeAssumption`: addresses are a nonempty range,
readable words and the entry are addresses, immediates are integers;
`ProgramAssumption`: the image lies in the machine words and instructions name guest
registers; `WidthAssumption`: a word has a positive width, a multiple of 4;
`PositionAssumption`: positions are naturals; `BlocksAssumption`: the operands
of blocks are operands; `PoolAssumption`: the pool repeats no register;
`MemBaseAssumption`: the host address of guest memory is a natural;
`CallAssumption`: addresses, words and sections are in range and the number of
addresses is a multiple of 4; `RuntimeAssumption`: the stack has room for a
frame) and, where a theorem is not about every program, the hypotheses it states
and this section names.

**SequenceFacts**: what `Append`, `Tail` and taking the top do to the elements of
a sequence, and what a fold over one does. The operators of the community
modules are recursive functions, so a fold can be unrolled in a proof; what it
comes to at position n is proved by induction over a *set* of positions
(`NatSetInduction`: a set with 0 that is closed under successor contains every
number), since the library's induction theorems take an operator. The module
has a constant operator `Step`, and each user instantiates it with the step of
its own loop.

**CFG_proofs**, for every image, program and entry. The inductive invariant
`Inv` is the type invariant, `EveryLeaderOnce`, `IndexMatchesBlocks`, the shape
of the block being scanned, and two facts the properties do not mention: every
discovered address that decodes is covered by a block, waits in the queue, or is
where the scan stands (`AllAccounted`), and successors stored in blocks are
leaders (`SuccsAdmitted`). Without the first nothing says at the end that the queue was
all there was to do. `InvStep` proves, for every action, that `Inv` is kept and
that the discovered set grows by static successors only.
- `Typing`, `LeadersOnce`, `IndexCorrect`: parts of the invariant.
- `SuccessorsBuilt`: with an empty queue at the end, leaders are built blocks.
- `Refinement`: the builder implements `StaticReach`. `SeesOnlyReachable`,
  `SeesAllReachable`: what the search of `StaticReach` promises, over the
  refinement mapping: the finished graph covers exactly what is statically
  reachable.
- `BlocksTrue`, `RunsOverNone`: by `BlockInv`, which adds to the two properties
  what holds of the block being scanned (`Trail`: the only static successor of
  each instruction is the next one, that of the last one is where the scan
  stands, and none behind the first starts a stored block). Storing a block then
  keeps the properties.

**Liveness_proofs**, for every block. `IInv` is the type invariant and
`ExactIntervals`; it is inductive because positions only grow (no touch lies
behind the current one). Theorems `LiveTyping` and `LiveExact`. `SharedApart`
puts liveness and allocation together: of two virtual registers of a block that
share a machine register, one has all its touches before those of the other,
touches at position 0 excepted. So only what the sentinel forgets can be lost,
for every block; what that does to the meaning is `AllocatedMeaning` below.

**RegAlloc_proofs**, for every pool and every liveness map. First the linear
scan of `LinearScan` over the refinement mapping (`Scan`): the invariant
`ScanInv` adds to the types that a register is held by one interval at a time,
that intervals no longer held have ended before every start still to come, and
that starts are served in order. Theorems `Sharing`, `GivingUp`, `Serving`. Then
the code: `Inv` is the type invariant, `PoolConservation`, that the active list
repeats none, and that what `expire` has kept spans the current start. Without
the last a full pool would not be a full scan when `abort` is reached.
`AllocTyping` and `Conservation` are parts of it; `AllocRefinement` maps each
`Free` to the expiry of one interval of `LinearScan`, `Allocate` and `Abort` to
its choices and all else to a stutter; `AllocSharing` and `AllocGivingUp` are
`Sharing` and `GivingUp` carried over by it. The same facts as an invariant of the
code's state (`ScanHolds`, kept by `ScanStarts` and `ScanGoesOn`) say of two virtual registers
with one register that one ends before the other starts (`SharersOrdered`).

**DecodeNext_proofs**. `ReadsRight`, for every layout of sections and size of the
address space: `FitsExactly` frees the two bounds checks of their wrapping sums;
the invariant `ReadState` says which sections have been loaded and which passed
over. `WordsDecodeTruly`, `BaseSetDecodes` and `DecodeTypes`, for all 2^32
words, which no run could enumerate: each shape of operands
is a lemma (the fields of the word, put together by the decoder, scatter to the
same bits again), and the switch is split along opcode, funct3 and funct7.

**Lifter_proofs**, for every word width, block, register file and memory.
The hypotheses (`Enters`, `AllRunnable`) say that the guest can run the block
(registers and cells it names exist, `Runnable`) and that the lifter translates
it (`Lifts`): the operations of `LiftedOps`, and AUIPC only as the first
instruction. The others are the findings `dropped_ops` and `late_auipc`: the
theorem does not hold of them. For each shape of the switch a lemma shows that its IR
`Renders` the instruction, from any earlier values; that a block renders its
instructions is an induction along the two folds, with the number of values so
far as the link (value ids are positions: `SSA`).
- `LiftPreservesRun`: registers and memory.
- `LiftPreservesGoto`: control, for blocks that end in a branch, a jump or by
  falling through. `LastICmp` finds the comparison of the branch, since a branch
  is the last instruction and its IR ends in one.
- `IndirectExit`: for blocks that end in an indirect jump, where they go
  *instead* of the masked target. The finding `indirect_target` shows one such
  block; this says what every one of them does.

**Execution_proofs**, for every guest program, register set and stack depth. The
invariant `RunInv` has three parts. `BuildInv` carries the graph's invariants
through the emitter: the text is the stored blocks in strictly ascending order,
each one cut as `Cut` says, and every target of a branch is in the tables.
`Control` gives, for each place the host can be at, what the link register, x19
and the frames hold: the entry's return address at the bottom, a block's above.
`Together` says that guest and host have equal registers and memory unless
strayed, and where the guest's pc is at each place the host can be at. A block's step then is
`LiftPreservesRun` and `LiftPreservesGoto`.
- `FramesGrow`, `LostByJumpsOnly`, `MainReturnsJumpless`: by `Control`, for every
  program whatsoever; of blocks they need only that they leave x19 alone
  (`EntryLinkKept`, from the allocator's pool).
- `GuestInStep`, `TrapsWithGuest`: for every program of translated instructions
  (`Translatable`). AUIPC is left out altogether, since an overlapping copy can
  put one behind the start of a block.
- `RunTypes`: adds `Typing`; that an indirect jump finds a word in x1 uses
  `IndirectExit`.
- `MainReturns`: adds `Homeward` (before the first indirect jump the guest's x1 is
  where main() or a call has put it), for programs in which only JAL and JALR
  write x1 (`LinkedByCalls`). Without that a program may compute its return
  address, and a `ret` then ends the run anywhere; the property, read so
  widely, is false.
- `CodeAboveMemory`: for every program without a readable word at address 0; with
  one, a block may wrap around the end of the address space to it and lie below
  its own start.

**Translate_proofs**, for all blocks and guest states that `Inputs(R, C)`
describes: the blocks are those the CFG builder makes (`BlockOf`, `CutOff`) of
translated instructions, the states have registers R and cells C. `Staged` says
what each stage has been given and has made.
- `LiftedState`, `LiftedExit`: `Staged` and the theorems of `Lifter_proofs`.
- `SelectedOnce`: an invariant of the loop of `select()` (`Flows`): what has been
  written so far is the values so far and addresses beyond the size of the value
  map, what is read has been written, and the map only grows.
- `SelectedMeaning`: `Mirrors` says what the host state is after the code of the
  first n IR instructions, run with a register for each virtual one: guest
  registers and memory are those of the IR's run, x21 is the memory base, and
  each value so far stands in its register (`Stands`). A `Trunc` is a plain `mov`,
  so its register keeps all bits and stands for the value by its low half only;
  that nothing but a sign extension from the half reads one is what the lifter
  provides (`Extended`). `SelectedOnce` keeps values where they are: an
  instruction writes one register, and a new one (`Others`, `OneWrite`).
  `SelectPerforms` is the step, a case for each kind of IR instruction: a constant
  is its four chunks, joined as sets of bits (`MovKJoins`, `ZeroJoins` and
  `WordOfBitsOf`, `LowBits`, `HighBits` of `Lifter_proofs`), `cmp` and `cset` are
  the condition, and a host address less the base, which wraps twice, is the guest
  address (`AddressOf`). `HostFold` unrolls the run, `MirrorsAll` is the induction.
- `PipelineTypes`, `EmitterFindsAll`: `Piped` says which machine's invariant holds at
  which stage. The invariants of `Liveness_proofs` and `RegAlloc_proofs` are used
  inside the pipeline through instances of these modules (`LiveP`, `AllocP`); what
  select() makes is shown to be what analyze() may be given (`SelectedIsBlock`),
  and its result what allocate() may be given. `Rooms`: there are positions and
  virtual registers for all the code of a block (in the program they are
  machine integers and no block is that long), and the pool repeats none.
- `NeverRunsOut`: `Grouped` assigns each host instruction to the IR instruction it
  was selected for, in order; a value is touched at most six of these behind its
  own, because what the lifter makes of one guest instruction is at most seven
  long (`LiftedLength`) and takes no value of another's, and an address register
  by one only. So at most nine intervals meet anywhere (`FewMeet`: seven values, an
  address, the operand of the terminator). `abort()` is reached only where the pool
  and one more meet (`FullHouse` of `RegAlloc_proofs`, from the order of starts).
  That the pool has nine is the theorem's hypothesis; the code's has 25, and the
  run's, of four, shows that less will do for its blocks.

- `AllocatedMeaning`: the host code of a block, run with the registers it was given and
  with a register for each virtual one. An instruction does the same in both runs if
  what it reads is the same (`CodedSame`, a case for each form select() emits). `Alike`
  is the invariant of the two runs: after p instructions they agree on flags, guest
  state, memory and x21, and on every value written so far that is touched later on;
  no more can be true, since the register of a value that is over belongs to others.
  `AlikeMore` is the step: what the instruction changes is no register of another
  value still to be read (`Undisturbed`), because the intervals of the two do not overlap
  (`SharersOrdered`) and span their touches (`Spanned`), except for a lost start, and
  that one is not `Clobbered`. The operand of the terminator is touched last. `Scanned`
  keeps `ScanHolds` in the pipeline. Hypotheses besides `Inputs` and `Rooms`: the
  registers of the pool are host registers and none is the memory base (`HostPool`;
  `RegAlloc.cpp` takes x2 to x28 without x19 and x21). The finding
  `allocation_meaning` is a block with a clobbered value.
- `BlocksTranslated`: `LiftedRun`, `UnlimitedRun` and `EmittedRun`, one behind the other.

**Only model-checked.** Liveness (all `Termination`), which the prover cannot do.
Every invariant and every other property a passing run checks is proved.

The counterexamples of the runs that expect a violation are TLC's; the hypotheses
of the theorems above are drawn exactly where they lie.

## 5. Not modelled

- Printers, dumps, option parsing and the output options of the runner:
  formatting and I/O.
- Which immediates an assembler accepts (`mov` with a large block address, load
  and store offsets out of range): the rules are the assembler's, not this
  repository's. The hazards are listed.
- What blocks do to registers a C caller keeps values in (x20, x22 to x28):
  which values those are is the C compiler's choice.
- Data sections: `ELFImage` keeps executable sections only and the runtime loads
  nothing into guest memory; the programs of `execution` access no memory.
- `lower.py`, tests and build files. ELFIO is a submodule that is not part of
  the sources.

## 6. Plan

Decoder and readers, CFG builder, pipeline of one block, runtime and their
composition are modelled and, but for what section 4 names, proved. What a next
step could take up:
1. `Execution` over what `Translate` emits instead of the IR, so that a clobbered
   register shows in a whole run.
