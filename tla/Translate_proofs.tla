--------------------------- MODULE Translate_proofs ---------------------------
(***************************************************************************)
(* The way of a block through the translator, for every width of the       *)
(* words, all blocks the CFG builder makes of instructions that the lifter *)
(* translates, and all guest states: what the stages hand on to each other *)
(* fits together.                                                          *)
(***************************************************************************)
EXTENDS Translate, Lifter_proofs

LiveP == INSTANCE Liveness_proofs WITH Blocks <- {}, block <- blk, phase <- scan

AllocP == INSTANCE RegAlloc_proofs WITH phase <- loop

\* A block that the CFG builder makes of instructions the lifter translates.
Liftable(b, R, C) ==
  /\ \E start \in Word : \E insts :
       /\ IsSequence(insts)
       /\ b = CutOff(start, insts) \/ (insts # <<>> /\ b = BlockOf(start, insts))
  /\ AllRunnable(b.insts, b.start, R, C)

\* All blocks are, and the guest's states have the registers R and memory in C.
Inputs(R, C) ==
  /\ R \subseteq Nat
  /\ \A b \in BasicBlocks : Liftable(b, R, C)
  /\ \A g \in GuestStates : GuestTyped(g, R, C)

-----------------------------------------------------------------------------
\* Indices.
LEMMA InBlock ==
  ASSUME NEW start \in Word, NEW insts, IsSequence(insts), insts # <<>>
  PROVE  /\ Len(insts) \in Nat \ {0} /\ DOMAIN insts = 1 .. Len(insts)
         /\ Wrap(Wrap(start + 4 * (Len(insts) - 1)) + 4)
              = Wrap(start + 4 * (Len(insts) + 1 - 1))
<1>. DEFINE n == Len(insts)
<1>1. n \in Nat \ {0} /\ DOMAIN insts = 1 .. n
  <2>1. PICK A : insts \in Seq(A)
    BY DEF IsSequence
  <2>. QED
    BY <2>1
<1>. HIDE DEF n
<1>2. /\ start + 4 * (n - 1) \in Int
      /\ (start + 4 * (n - 1)) + 4 = start + 4 * (n + 1 - 1)
  BY <1>1, Widths
<1>3. Wrap(Wrap(start + 4 * (n - 1)) + 4) = Wrap((start + 4 * (n - 1)) + 4)
  <2>. DEFINE x == start + 4 * (n - 1)
              M == 2 ^ Width
  <2>1. x \in Int /\ M \in Nat \ {0} /\ 4 \in Int
    BY <1>2, Widths
  <2>. HIDE DEF x, M
  <2>2. ((x % M) + 4) % M = (x + 4) % M
    BY <2>1, WrapAgain
  <2>. QED
    BY <2>2 DEF Wrap, x, M
<1>. QED
  BY <1>1, <1>2, <1>3 DEF n

\* What the CFG builder gives a block: its start, its instructions where they
\* are, and an end that fits the last one.
LEMMA BlockForm ==
  ASSUME NEW R, NEW C, NEW b, Liftable(b, R, C)
  PROVE  /\ IsSequence(b.insts) /\ b.start \in Word
         /\ \/ b.term = "Trap"
            \/ /\ b.insts # <<>>
               /\ \/ b.term = "Return"
                  \/ b.term = "IndirectJump" /\ b.insts[Len(b.insts)].op = "JALR"
                  \/ WellEnded(b)
<1>a. PICK start \in Word : \E insts :
        /\ IsSequence(insts)
        /\ b = CutOff(start, insts) \/ (insts # <<>> /\ b = BlockOf(start, insts))
  BY DEF Liftable
<1>1. PICK insts :
        /\ IsSequence(insts)
        /\ b = CutOff(start, insts) \/ (insts # <<>> /\ b = BlockOf(start, insts))
  BY <1>a
<1>. DEFINE At(i) == Wrap(start + 4 * (i - 1))
            placed == [i \in DOMAIN insts |-> DecodedAt(insts[i], At(i))]
            n == Len(insts)
<1>2. IsSequence(placed) /\ Len(placed) = n /\ n \in Nat
  <2>1. PICK A : insts \in Seq(A)
    BY <1>1 DEF IsSequence
  <2>2. n \in Nat /\ DOMAIN insts = 1 .. n
    BY <2>1
  <2>. DEFINE B == {DecodedAt(insts[i], At(i)) : i \in 1 .. n}
  <2>. HIDE DEF At
  <2>3. placed \in [1 .. n -> B]
    BY <2>2
  <2>. HIDE DEF B, n, placed
  <2>4. placed \in Seq(B) /\ Len(placed) = n
    BY <2>2, <2>3
  <2>. QED
    BY <2>2, <2>4 DEF IsSequence
<1>3. CASE b = CutOff(start, insts)
  <2>1. b.start = start /\ b.term = "Trap" /\ b.insts = placed
    BY <1>3 DEF CutOff
  <2>. HIDE DEF placed
  <2>. QED
    BY <1>2, <2>1
<1>4. CASE insts # <<>> /\ b = BlockOf(start, insts)
  <2>. DEFINE last == insts[n]
              there == Wrap(At(n) + last.imm)
              fall == At(n + 1)
              Out(term, succs) ==
                [start |-> start, term |-> term, succs |-> succs, insts |-> placed]
  <2>1. b = CASE Code!IsCondBranch(last) -> Out("Branch", <<there, fall>>)
              [] Code!IsJump(last)       -> Out("Jump", <<there>>)
              [] Code!IsIndirect(last)   -> Out("IndirectJump", <<>>)
              [] Code!IsReturn(last)     -> Out("Return", <<>>)
              [] Code!IsTrap(last)       -> Out("Trap", <<>>)
              [] OTHER                   -> Out("Fallthrough", <<fall>>)
    BY <1>4 DEF BlockOf
  <2>2. /\ placed[n] = DecodedAt(last, At(n)) /\ n \in 1 .. n
        /\ Wrap(At(n) + 4) = fall
    <3>1. n \in Nat \ {0} /\ DOMAIN insts = 1 .. n /\ Wrap(At(n) + 4) = fall
      BY <1>1, <1>4, InBlock
    <3>. HIDE DEF At, fall
    <3>. QED
      BY <3>1
  <2>. DEFINE l == placed[n]
  <2>3. l.op = last.op /\ l.imm = last.imm /\ l.pc = At(n)
    BY <2>2 DEF DecodedAt
  <2>4. placed # <<>>
    BY <1>2, <2>2
  <2>. HIDE DEF placed, At, n, last, fall
  <2>5. \/ Code!IsCondBranch(last) /\ b = Out("Branch", <<there, fall>>)
        \/ Code!IsJump(last) /\ b = Out("Jump", <<there>>)
        \/ Code!IsIndirect(last) /\ b = Out("IndirectJump", <<>>)
        \/ Code!IsReturn(last) /\ b = Out("Return", <<>>)
        \/ Code!IsTrap(last) /\ b = Out("Trap", <<>>)
        \/ /\ ~ Code!IsCondBranch(last) /\ ~ Code!IsJump(last)
           /\ ~ Code!IsIndirect(last) /\ ~ Code!IsReturn(last)
           /\ b = Out("Fallthrough", <<fall>>)
    BY <2>1
  <2>6. b.insts = placed /\ b.start = start
    BY <2>5
  <2>7. b.insts[Len(b.insts)] = l /\ b.insts # <<>>
    BY <1>2, <2>4, <2>6
  <2>8. \/ b.term = "Trap" \/ b.term = "Return"
        \/ b.term = "IndirectJump" /\ l.op = "JALR"
        \/ WellEnded(b)
    <3>1. CASE Code!IsCondBranch(last) /\ b = Out("Branch", <<there, fall>>)
      BY <2>2, <2>3, <2>7, <3>1
         DEF WellEnded, Code!IsCondBranch, Code!CondBranchOps, Branches
    <3>2. CASE Code!IsJump(last) /\ b = Out("Jump", <<there>>)
      BY <2>3, <2>7, <3>2 DEF WellEnded, Code!IsJump
    <3>3. CASE Code!IsIndirect(last) /\ b = Out("IndirectJump", <<>>)
      BY <2>3, <3>3 DEF Code!IsIndirect
    <3>4. CASE /\ ~ Code!IsCondBranch(last) /\ ~ Code!IsJump(last)
               /\ ~ Code!IsIndirect(last) /\ ~ Code!IsReturn(last)
               /\ b = Out("Fallthrough", <<fall>>)
      <4>1. l.op \notin Branches \cup {"JAL", "JALR"}
        BY <2>3, <3>4 DEF Code!IsCondBranch, Code!CondBranchOps, Branches, Code!IsJump,
                          Code!IsIndirect
      <4>2. b.term = "Fallthrough" /\ b.succs = <<Wrap(l.pc + 4)>>
        BY <2>2, <2>3, <3>4
      <4>. QED
        BY <2>7, <4>1, <4>2 DEF WellEnded
    <3>5. CASE b = Out("Return", <<>>) \/ b = Out("Trap", <<>>)
      BY <3>5
    <3>. QED
      BY <2>5, <3>1, <3>2, <3>3, <3>4, <3>5
  <2>. QED
    BY <1>2, <2>6, <2>7, <2>8
<1>. QED
  BY <1>1, <1>3, <1>4

-----------------------------------------------------------------------------
\* What each stage has made, once it is over.
Staged ==
  /\ bb \in BasicBlocks
  /\ stage \in {"start", "lifted", "selected", "analyzed", "allocating",
                "emitted", "abort"}
  /\ stage # "start" => ir = Lift(bb)
  /\ stage \notin {"start", "lifted"} => blk = Select(Lift(bb))

LEMMA StagedInit == Init => Staged
  BY DEF Init, Staged

LEMMA StagedStep ==
  ASSUME Staged, [Next]_vars
  PROVE  Staged'
<1>1. CASE LiftBlock
  BY <1>1 DEF LiftBlock, Staged
<1>2. CASE SelectBlock
  BY <1>2 DEF SelectBlock, Staged
<1>3. CASE AnalyzeStep
  <2>1. blk' = blk
    BY <1>3 DEF AnalyzeStep, Live!Next, Live!TouchOperand, Live!NextInstr, Live!TouchTerm
  <2>. QED
    BY <1>3, <2>1 DEF AnalyzeStep, Staged
<1>4. CASE StartAllocate \/ AllocateStep
  BY <1>4 DEF StartAllocate, AllocateStep, Staged
<1>5. CASE Emit
  BY <1>5 DEF Emit, Staged
<1>6. CASE UNCHANGED vars
  BY <1>6 DEF vars, Staged
<1>. QED
  BY <1>1, <1>2, <1>3, <1>4, <1>5, <1>6 DEF Next

LEMMA StagedAlways == Spec => []Staged
  BY StagedInit, StagedStep, PTL DEF Spec

\* A run of the IR of a block starts where the guest does.
LEMMA RunEnters ==
  ASSUME NEW R, NEW C, NEW b, Liftable(b, R, C), NEW s, GuestTyped(s, R, C)
  PROVE  Enters(b, s, s, R, C)
  BY BlockForm DEF Liftable, Enters

LEMMA InitialTyped ==
  ASSUME NEW R, NEW C, NEW g, GuestTyped(g, R, C)
  PROVE  GuestTyped(InitialState(g), R, C)
  BY DEF GuestTyped, InitialState

\* The IR of a block does what the guest does.
LEMMA LiftedRun ==
  ASSUME NEW R, NEW C, Inputs(R, C), Staged, stage # "start", NEW g \in GuestStates
  PROVE  /\ SameState(RunIR(ir, InitialState(g)), Guest(g))
         /\ EndsAsGuest(RunIR(ir, InitialState(g)).exit, g)
<1>. DEFINE s == InitialState(g)
            exit == RunIR(ir, s).exit
<1>1. Liftable(bb, R, C) /\ GuestTyped(g, R, C)
  BY DEF Inputs, Staged
<1>2. Enters(bb, s, s, R, C)
  BY <1>1, InitialTyped, RunEnters
<1>3. ir = Lift(bb)
  BY DEF Staged
<1>4. SameState(RunIR(ir, s), Guest(g))
  BY <1>2, <1>3, LiftPreservesRun DEF SameState, Guest
<1>5. \/ bb.term = "Trap"
      \/ /\ bb.insts # <<>>
         /\ \/ bb.term = "Return"
            \/ bb.term = "IndirectJump" /\ bb.insts[Len(bb.insts)].op = "JALR"
            \/ WellEnded(bb)
  BY <1>1, BlockForm
<1>6. CASE bb.term \in {"Return", "Trap", "IndirectJump"}
  <2>1. exit.kind = CASE bb.term = "Return" -> "ret" [] bb.term = "Trap" -> "trap"
                      [] OTHER -> "goto"
    <3>1. /\ bb.term = "Return" => Lift(bb).term.kind = "Ret"
          /\ bb.term = "Trap" => Lift(bb).term.kind = "Trap"
          /\ bb.term = "IndirectJump" => Lift(bb).term.kind = "BrIndirect"
      BY DEF Lift, LiftTerm, IRTerm
    <3>2. \E v : exit = ExitOf(Lift(bb).term, v)
      BY <1>3 DEF RunIR
    <3>. QED
      BY <1>6, <3>1, <3>2 DEF ExitOf
  <2>. HIDE DEF exit
  <2>2. EndsAsGuest(exit, g)
    BY <1>6, <2>1 DEF EndsAsGuest
  <2>. QED
    BY <1>4, <2>2 DEF exit
<1>7. CASE WellEnded(bb) /\ bb.insts # <<>>
  <2>1. exit = [kind |-> "goto", pc |-> RunGuest(bb.insts, s).pc]
    BY <1>2, <1>3, <1>7, LiftPreservesGoto
  <2>2. bb.term \notin {"Return", "Trap", "IndirectJump"}
    BY <1>7 DEF WellEnded
  <2>. HIDE DEF exit
  <2>3. EndsAsGuest(exit, g)
    BY <2>1, <2>2 DEF EndsAsGuest, Guest, s
  <2>. QED
    BY <1>4, <2>3 DEF exit
<1>. QED
  BY <1>5, <1>6, <1>7

(***************************************************************************)
(* The IR of a block changes the registers and the memory as the guest's   *)
(* instructions do (Lifter.cpp, every case that lowers an instruction).    *)
(***************************************************************************)
THEOREM LiftedState ==
  ASSUME NEW CONSTANT R, NEW CONSTANT C, Inputs(R, C)
  PROVE  Spec => []LiftPreservesState
<1>1. Staged => LiftPreservesState
  BY LiftedRun DEF LiftPreservesState
<1>. QED
  BY <1>1, StagedAlways, PTL

(***************************************************************************)
(* Control leaves the lifted block to where the guest's goes, or by the    *)
(* end that stands for the guest's own return or trap (Lifter.cpp, the     *)
(* terminators; CFG.cpp, the successors in their order).                   *)
(***************************************************************************)
THEOREM LiftedExit ==
  ASSUME NEW CONSTANT R, NEW CONSTANT C, Inputs(R, C)
  PROVE  Spec => []LiftPreservesExit
<1>1. Staged => LiftPreservesExit
  BY LiftedRun DEF LiftPreservesExit
<1>. QED
  BY <1>1, StagedAlways, PTL

-----------------------------------------------------------------------------
\* The IR of a block is what select() takes: as many arguments as it has a use
\* for, and operations it has instructions for.
Selectable(I) ==
  /\ I.reg \in Nat /\ I.imm \in Int
  /\ \/ I.kind \in {"Const", "ReadReg", "GetPC"} /\ Len(I.args) = 0
     \/ I.kind \in {"WriteReg", "SExt", "ZExt", "Trunc", "Load"} /\ Len(I.args) = 1
     \/ I.kind = "BinOp" /\ I.what \in DOMAIN OpOfBinOp /\ Len(I.args) = 2
     \/ I.kind = "ICmp" /\ I.what \in DOMAIN CsetOf /\ Len(I.args) = 2
     \/ I.kind = "Store" /\ Len(I.args) = 2

\* And it can run on a guest with registers in R and memory in C: constants are
\* words, halves are extended to words, and halves or words are moved.
Formed(I, R, C) ==
  /\ Selectable(I)
  /\ I.kind = "Const" => I.imm \in Word
  /\ I.kind = "ReadReg" => I.reg \in R
  /\ I.kind \in {"SExt", "ZExt"} => I.what = "I64"
  /\ I.kind \in {"Load", "Store"} => I.what \in {"I32", "I64"}
  /\ I.kind = "Load" => C = Word

AllSelectable(t) == \A i \in 1 .. Len(t) : Selectable(t[i])

AllFormed(t, R, C) == \A i \in 1 .. Len(t) : Formed(t[i], R, C)

LEMMA FormedParts ==
  ASSUME NEW R, R \subseteq Nat, NEW C
  PROVE  /\ \A v, r : r \in R => Formed(IRReadReg(v, r), R, C)
         /\ \A v, c : c \in Word => Formed(IRConst(v, c), R, C)
         /\ \A v : Formed(IRGetPC(v), R, C)
         /\ \A v, a, b : \A o \in DOMAIN OpOfBinOp : Formed(IRBinOp(v, o, a, b), R, C)
         /\ \A v, a, b : \A c \in DOMAIN CsetOf : Formed(IRICmp(v, c, a, b), R, C)
         /\ \A v, a : \A o \in {"SExt", "ZExt"} : Formed(IRCast(o, v, "I64", a), R, C)
         /\ \A v, y, a : Formed(IRCast("Trunc", v, y, a), R, C)
         /\ \A v, a, o : \A y \in {"I32", "I64"} :
              C = Word /\ o \in Int => Formed(IRLoad(v, y, a, o), R, C)
         /\ \A a, b, o : \A y \in {"I32", "I64"} :
              o \in Int => Formed(IRStore(y, a, b, o), R, C)
         /\ \A r, a : r \in R => Formed(IRWriteReg(r, a), R, C)
<1>1. Word \subseteq Int
  BY Widths
<1>2. \A v, r : r \in R => Formed(IRReadReg(v, r), R, C)
  BY <1>1 DEF Formed, Selectable, IRReadReg, IRInst
<1>3. \A v, c : c \in Word => Formed(IRConst(v, c), R, C)
  BY <1>1 DEF Formed, Selectable, IRConst, IRInst
<1>4. \A v : Formed(IRGetPC(v), R, C)
  BY <1>1 DEF Formed, Selectable, IRGetPC, IRInst
<1>5. \A v, a, b : \A o \in DOMAIN OpOfBinOp : Formed(IRBinOp(v, o, a, b), R, C)
  BY <1>1 DEF Formed, Selectable, IRBinOp, IRInst
<1>6. \A v, a, b : \A c \in DOMAIN CsetOf : Formed(IRICmp(v, c, a, b), R, C)
  BY <1>1 DEF Formed, Selectable, IRICmp, IRInst
<1>7. \A v, a : \A o \in {"SExt", "ZExt"} : Formed(IRCast(o, v, "I64", a), R, C)
  BY <1>1 DEF Formed, Selectable, IRCast, IRInst
<1>8. \A v, y, a : Formed(IRCast("Trunc", v, y, a), R, C)
  BY <1>1 DEF Formed, Selectable, IRCast, IRInst
<1>9. \A v, a, o : \A y \in {"I32", "I64"} :
       C = Word /\ o \in Int => Formed(IRLoad(v, y, a, o), R, C)
  BY <1>1 DEF Formed, Selectable, IRLoad, IRInst
<1>10. \A a, b, o : \A y \in {"I32", "I64"} :
       o \in Int => Formed(IRStore(y, a, b, o), R, C)
  BY <1>1 DEF Formed, Selectable, IRStore, IRInst
<1>11. \A r, a : r \in R => Formed(IRWriteReg(r, a), R, C)
  BY <1>1 DEF Formed, Selectable, IRWriteReg, IRInst
<1>. QED
  BY <1>2, <1>3, <1>4, <1>5, <1>6, <1>7, <1>8, <1>9, <1>10, <1>11

LEMMA FormedConcat ==
  ASSUME NEW R, NEW C, NEW t, IsSequence(t), AllFormed(t, R, C),
         NEW u, IsSequence(u), AllFormed(u, R, C)
  PROVE  AllFormed(t \o u, R, C)
<1>1. /\ Len(t) \in Nat /\ Len(u) \in Nat /\ Len(t \o u) = Len(t) + Len(u)
      /\ \A i \in 1 .. Len(t) : (t \o u)[i] = t[i]
      /\ \A i \in 1 .. Len(u) : (t \o u)[Len(t) + i] = u[i]
  <2>1. Len(t) \in Nat /\ Len(u) \in Nat /\ Len(t \o u) = Len(t) + Len(u)
    BY ElementOfConcat
  <2>2. \A i \in 1 .. Len(t) : (t \o u)[i] = t[i]
    BY ElementOfConcat
  <2>3. \A i \in 1 .. Len(u) : (t \o u)[Len(t) + i] = u[i]
    BY ElementOfConcat
  <2>. QED
    BY <2>1, <2>2, <2>3
<1>2. ASSUME NEW i \in 1 .. Len(t \o u)
      PROVE  Formed((t \o u)[i], R, C)
  <2>1. CASE i <= Len(t)
    BY <1>1, <2>1 DEF AllFormed
  <2>2. CASE ~ (i <= Len(t))
    <3>1. PICK j \in 1 .. Len(u) : i = Len(t) + j
      <4>1. i - Len(t) \in 1 .. Len(u) /\ i = Len(t) + (i - Len(t))
        BY <1>1, <2>2
      <4>. QED
        BY <4>1
    <3>2. (t \o u)[i] = u[j]
      BY <1>1, <3>1
    <3>. QED
      BY <3>2 DEF AllFormed
  <2>. QED
    BY <2>1, <2>2
<1>. QED
  BY <1>2 DEF AllFormed

LEMMA LiftedFormed ==
  ASSUME NEW R, NEW C, R \subseteq Nat, NEW inst, Runnable(inst, R, C), NEW n \in Nat
  PROVE  AllFormed(LiftOp(inst, n), R, C)
<1>1. inst.rd \in R /\ inst.rs1 \in R /\ inst.rs2 \in R /\ inst.imm \in Int
      /\ Wrap(inst.imm) \in Word /\ Wrap(inst.pc + 4) \in Word /\ Wrap(-2) \in Word
  <2>1. /\ inst.rd \in R /\ inst.rs1 \in R /\ inst.rs2 \in R /\ inst.imm \in Int
        /\ inst.pc + 4 \in Int /\ -2 \in Int
    <3>1. inst.rd \in R /\ inst.rs1 \in R /\ inst.rs2 \in R /\ inst.imm \in Int
          /\ inst.pc \in Int
      BY DEF Runnable
    <3>2. inst.pc + 4 \in Int
      BY <3>1
    <3>3. -2 \in Int
      OBVIOUS
    <3>. QED
      BY <3>1, <3>2, <3>3
  <2>2. \A m \in Int : Wrap(m) \in Word
    BY Widths
  <2>. QED
    BY <2>1, <2>2
<1>2. ASSUME NEW t, IsSequence(t), AllFormed(t, R, C), NEW v
      PROVE  AllFormed(t \o WriteReg(inst.rd, v), R, C)
  <2>1. IsSequence(WriteReg(inst.rd, v)) /\ AllFormed(WriteReg(inst.rd, v), R, C)
    <3>1. CASE inst.rd = 0
      BY <3>1, TuplesAreSequences DEF WriteReg, AllFormed
    <3>2. CASE inst.rd # 0
      <4>. DEFINE w == IRWriteReg(inst.rd, v)
      <4>1. WriteReg(inst.rd, v) = <<w>> /\ Formed(w, R, C)
        BY <1>1, <3>2, FormedParts DEF WriteReg
      <4>. HIDE DEF w
      <4>. QED
        BY <4>1, TuplesAreSequences DEF AllFormed
    <3>. QED
      BY <3>1, <3>2
  <2>. QED
    BY <1>2, <2>1, FormedConcat
<1>. DEFINE a == IRReadReg(n, inst.rs1)
            b == IRReadReg(n + 1, inst.rs2)
            c == IRConst(n + 1, Wrap(inst.imm))
<1>3. Formed(a, R, C) /\ Formed(b, R, C) /\ Formed(c, R, C)
  BY <1>1, FormedParts
<1>4. /\ \A x : Formed(x, R, C) => AllFormed(<<x>>, R, C)
      /\ \A x, y : Formed(x, R, C) /\ Formed(y, R, C) => AllFormed(<<x, y>>, R, C)
      /\ \A x, y, z : Formed(x, R, C) /\ Formed(y, R, C) /\ Formed(z, R, C)
                       => AllFormed(<<x, y, z>>, R, C)
      /\ \A x, y, z, u, v : /\ Formed(x, R, C) /\ Formed(y, R, C) /\ Formed(z, R, C)
                             /\ Formed(u, R, C) /\ Formed(v, R, C)
           => AllFormed(<<x, y, z, u, v>>, R, C)
      /\ \A x, y, z, u, v, w : /\ Formed(x, R, C) /\ Formed(y, R, C) /\ Formed(z, R, C)
                                /\ Formed(u, R, C) /\ Formed(v, R, C) /\ Formed(w, R, C)
           => AllFormed(<<x, y, z, u, v, w>>, R, C)
  BY DEF AllFormed
<1>. HIDE DEF a, b, c
<1>5. inst.op \in ImmediateOps => AllFormed(LiftImmediate(inst, n), R, C)
  <2>. DEFINE d == IRBinOp(n + 2, BinOpOf[inst.op], n, n + 1)
  <2>1. SUFFICES ASSUME inst.op \in ImmediateOps PROVE AllFormed(LiftImmediate(inst, n), R, C)
    OBVIOUS
  <2>2. BinOpOf[inst.op] \in DOMAIN OpOfBinOp
    BY <2>1 DEF ImmediateOps, BinOpOf, OpOfBinOp
  <2>3. Formed(d, R, C)
    BY <2>2, FormedParts
  <2>. HIDE DEF d
  <2>4. AllFormed(<<a, c, d>> \o WriteReg(inst.rd, n + 2), R, C)
    BY <1>2, <1>3, <1>4, <2>3, TuplesAreSequences
  <2>. QED
    BY <2>4 DEF LiftImmediate, a, c, d
<1>6. inst.op \in RegisterOps => AllFormed(LiftRegister(inst, n), R, C)
  <2>. DEFINE d == IRBinOp(n + 2, BinOpOf[inst.op], n, n + 1)
  <2>1. SUFFICES ASSUME inst.op \in RegisterOps PROVE AllFormed(LiftRegister(inst, n), R, C)
    OBVIOUS
  <2>2. BinOpOf[inst.op] \in DOMAIN OpOfBinOp
    BY <2>1 DEF RegisterOps, BinOpOf, OpOfBinOp
  <2>3. Formed(d, R, C)
    BY <2>2, FormedParts
  <2>. HIDE DEF d
  <2>4. AllFormed(<<a, b, d>> \o WriteReg(inst.rd, n + 2), R, C)
    BY <1>2, <1>3, <1>4, <2>3, TuplesAreSequences
  <2>. QED
    BY <2>4 DEF LiftRegister, a, b, d
<1>7. AllFormed(LiftAddWord(inst, n), R, C)
  <2>. DEFINE d == IF inst.op = "ADDIW" THEN c ELSE b
              e == IRBinOp(n + 2, "Add", n, n + 1)
              f == IRCast("Trunc", n + 3, "I32", n + 2)
              g == IRCast("SExt", n + 4, "I64", n + 3)
  <2>1. "Add" \in DOMAIN OpOfBinOp
    BY DEF OpOfBinOp
  <2>2. Formed(d, R, C) /\ Formed(e, R, C) /\ Formed(f, R, C) /\ Formed(g, R, C)
    BY <1>3, <2>1, FormedParts
  <2>3. LiftAddWord(inst, n) = <<a, d, e, f, g>> \o WriteReg(inst.rd, n + 4)
    BY DEF LiftAddWord, a, b, c
  <2>. HIDE DEF d, e, f, g
  <2>. QED
    BY <1>2, <1>3, <1>4, <2>2, <2>3, TuplesAreSequences
<1>8. inst.op \in {"LW", "LWU"} => AllFormed(LiftLoadWord(inst, n), R, C)
  <2>. SUFFICES ASSUME inst.op \in {"LW", "LWU"}
                PROVE  AllFormed(LiftLoadWord(inst, n), R, C)
    OBVIOUS
  <2>0. C = Word
    BY DEF Runnable, Loads
  <2>. DEFINE d == IRLoad(n + 1, "I32", n, inst.imm)
              e == IRCast(IF inst.op = "LW" THEN "SExt" ELSE "ZExt", n + 2, "I64", n + 1)
  <2>1. Formed(d, R, C) /\ Formed(e, R, C)
    BY <1>1, <2>0, FormedParts
  <2>2. LiftLoadWord(inst, n) = <<a, d, e>> \o WriteReg(inst.rd, n + 2)
    BY DEF LiftLoadWord, a
  <2>. HIDE DEF d, e
  <2>. QED
    BY <1>2, <1>3, <1>4, <2>1, <2>2, TuplesAreSequences
<1>9. inst.op = "LD" => AllFormed(LiftLoadDouble(inst, n), R, C)
  <2>. SUFFICES ASSUME inst.op = "LD"
                PROVE  AllFormed(LiftLoadDouble(inst, n), R, C)
    OBVIOUS
  <2>0. C = Word
    BY DEF Runnable, Loads
  <2>. DEFINE d == IRLoad(n + 1, "I64", n, inst.imm)
  <2>1. Formed(d, R, C)
    BY <1>1, <2>0, FormedParts
  <2>2. LiftLoadDouble(inst, n) = <<a, d>> \o WriteReg(inst.rd, n + 1)
    BY DEF LiftLoadDouble, a
  <2>. HIDE DEF d
  <2>. QED
    BY <1>2, <1>3, <1>4, <2>1, <2>2, TuplesAreSequences
<1>10. AllFormed(LiftStore(inst, n), R, C)
  <2>. DEFINE d == IRStore(IF inst.op = "SW" THEN "I32" ELSE "I64", n + 1, n, inst.imm)
  <2>1. Formed(d, R, C)
    BY <1>1, FormedParts
  <2>2. LiftStore(inst, n) = <<a, b, d>>
    BY DEF LiftStore, a, b
  <2>. HIDE DEF d
  <2>. QED
    BY <1>3, <1>4, <2>1, <2>2
<1>11. inst.op \in DOMAIN CondOf => AllFormed(LiftBranch(inst, n), R, C)
  <2>. DEFINE d == IRICmp(n + 2, CondOf[inst.op], n, n + 1)
  <2>1. SUFFICES ASSUME inst.op \in DOMAIN CondOf PROVE AllFormed(LiftBranch(inst, n), R, C)
    OBVIOUS
  <2>2. CondOf[inst.op] \in DOMAIN CsetOf
    BY <2>1 DEF CondOf, CsetOf
  <2>3. Formed(d, R, C)
    BY <2>2, FormedParts
  <2>4. LiftBranch(inst, n) = <<a, b, d>>
    BY DEF LiftBranch, a, b
  <2>. HIDE DEF d
  <2>. QED
    BY <1>3, <1>4, <2>3, <2>4
<1>12. AllFormed(LiftAuipc(inst, n), R, C)
  <2>. DEFINE d == IRGetPC(n)
              e == IRBinOp(n + 2, "Add", n, n + 1)
  <2>1. "Add" \in DOMAIN OpOfBinOp
    BY DEF OpOfBinOp
  <2>2. Formed(d, R, C) /\ Formed(e, R, C)
    BY <2>1, FormedParts
  <2>3. LiftAuipc(inst, n) = <<d, c, e>> \o WriteReg(inst.rd, n + 2)
    BY DEF LiftAuipc, c
  <2>. HIDE DEF d, e
  <2>. QED
    BY <1>2, <1>3, <1>4, <2>2, <2>3, TuplesAreSequences
<1>13. AllFormed(LiftJal(inst, n), R, C)
  <2>. DEFINE d == IRConst(n, Wrap(inst.pc + 4))
  <2>1. Formed(d, R, C)
    BY <1>1, FormedParts
  <2>2. LiftJal(inst, n) = <<d>> \o WriteReg(inst.rd, n)
    BY DEF LiftJal
  <2>. HIDE DEF d
  <2>. QED
    BY <1>2, <1>4, <2>1, <2>2, TuplesAreSequences
<1>14. AllFormed(LiftJalr(inst, n), R, C)
  <2>. DEFINE d == IRBinOp(n + 2, "Add", n, n + 1)
              e == IRConst(n + 3, Wrap(-2))
              f == IRBinOp(n + 4, "And", n + 2, n + 3)
              g == IRConst(n + 5, Wrap(inst.pc + 4))
  <2>1. "Add" \in DOMAIN OpOfBinOp /\ "And" \in DOMAIN OpOfBinOp
    BY DEF OpOfBinOp
  <2>2. Formed(d, R, C) /\ Formed(e, R, C) /\ Formed(f, R, C) /\ Formed(g, R, C)
    BY <1>1, <2>1, FormedParts
  <2>3. LiftJalr(inst, n) = <<a, c, d, e, f, g>> \o WriteReg(inst.rd, n + 5)
    BY DEF LiftJalr, a, c
  <2>. HIDE DEF d, e, f, g
  <2>. QED
    BY <1>2, <1>3, <1>4, <2>2, <2>3, TuplesAreSequences
<1>15. AllFormed(<<>>, R, C)
  BY DEF AllFormed
<1>. QED
  BY <1>5, <1>6, <1>7, <1>8, <1>9, <1>10, <1>11, <1>12, <1>13, <1>14, <1>15 DEF LiftOp

\* The values of t, behind n others, that are the low half of another are used
\* to extend that half to a word, and for nothing else.
Extended(t, n) ==
  \A i, j \in 1 .. Len(t) :
    t[i].kind = "Trunc" /\ n + i - 1 \in Uses(t[j]) => t[j].kind = "SExt"

Whole(t) == \A i \in 1 .. Len(t) : t[i].kind # "Trunc"

LEMMA WholeWrite ==
  ASSUME NEW t, IsSequence(t), Whole(t), NEW rd, NEW v
  PROVE  Whole(t \o WriteReg(rd, v))
<1>1. IsSequence(WriteReg(rd, v)) /\ Whole(WriteReg(rd, v))
  <2>1. CASE rd = 0
    BY <2>1, TuplesAreSequences DEF WriteReg, Whole
  <2>2. CASE rd # 0
    BY <2>2, TuplesAreSequences DEF WriteReg, Whole, IRWriteReg, IRInst
  <2>. QED
    BY <2>1, <2>2
<1>. DEFINE w == WriteReg(rd, v)
            u == t \o w
<1>. HIDE DEF w
<1>2. /\ Len(t) \in Nat /\ Len(w) \in Nat /\ Len(u) = Len(t) + Len(w)
      /\ \A i \in 1 .. Len(t) : u[i] = t[i]
      /\ \A i \in 1 .. Len(w) : u[Len(t) + i] = w[i]
  BY <1>1, ElementOfConcat DEF w
<1>. HIDE DEF u
<1>3. ASSUME NEW i \in 1 .. Len(u)
      PROVE  u[i].kind # "Trunc"
  <2>1. CASE i <= Len(t)
    BY <1>2, <1>3, <2>1 DEF Whole
  <2>2. CASE i > Len(t)
    <3>1. i - Len(t) \in 1 .. Len(w) /\ i = Len(t) + (i - Len(t))
      BY <1>2, <1>3, <2>2
    <3>2. u[i] = w[i - Len(t)]
      BY <1>2, <3>1
    <3>. QED
      BY <1>1, <3>1, <3>2 DEF Whole, w
  <2>. QED
    BY <1>2, <2>1, <2>2
<1>. QED
  BY <1>3 DEF Whole, u, w

\* Two casts at the end of addw and addiw.
LEMMA AddWordExtended ==
  ASSUME NEW inst, NEW n \in Nat
  PROVE  Extended(LiftAddWord(inst, n), n)
<1>. DEFINE a == IRReadReg(n, inst.rs1)
            b == IF inst.op = "ADDIW" THEN IRConst(n + 1, Wrap(inst.imm))
                                      ELSE IRReadReg(n + 1, inst.rs2)
            d == IRBinOp(n + 2, "Add", n, n + 1)
            e == IRCast("Trunc", n + 3, "I32", n + 2)
            f == IRCast("SExt", n + 4, "I64", n + 3)
            w == IRWriteReg(inst.rd, n + 4)
            t == LiftAddWord(inst, n)
<1>1. /\ Uses(a) = {} /\ Uses(b) = {} /\ Uses(d) = {n, n + 1} /\ Uses(e) = {n + 2}
      /\ Uses(f) = {n + 3} /\ Uses(w) = {n + 4}
  <2>1. Uses(a) = {}
    BY Parts
  <2>2. Uses(b) = {}
    BY Parts
  <2>3. Uses(d) = {n, n + 1}
    BY Parts
  <2>4. Uses(e) = {n + 2} /\ Uses(f) = {n + 3}
    BY Parts
  <2>5. Uses(w) = {n + 4}
    BY Parts
  <2>. QED
    BY <2>1, <2>2, <2>3, <2>4, <2>5
<1>2. /\ a.kind = "ReadReg" /\ b.kind \in {"Const", "ReadReg"} /\ d.kind = "BinOp"
      /\ e.kind = "Trunc" /\ f.kind = "SExt" /\ w.kind = "WriteReg"
  BY DEF IRReadReg, IRConst, IRBinOp, IRCast, IRWriteReg, IRInst
<1>. DEFINE p == <<a, b, d, e, f>>
            q == WriteReg(inst.rd, n + 4)
<1>3. t = p \o q
  BY DEF LiftAddWord
<1>4. IsSequence(q) /\ \A i \in 1 .. Len(q) : q[i] = w
  BY TuplesAreSequences DEF WriteReg
<1>5. /\ IsSequence(p) /\ Len(p) = 5
      /\ p[1] = a /\ p[2] = b /\ p[3] = d /\ p[4] = e /\ p[5] = f
  BY TuplesAreSequences
<1>. HIDE DEF a, b, d, e, f, w, t, p, q
<1>6. /\ Len(t) \in Nat
      /\ \A i \in 1 .. Len(t) : i <= 5 \/ t[i] = w
      /\ t[1] = a /\ t[2] = b /\ t[3] = d /\ t[4] = e /\ t[5] = f
  <2>1. /\ Len(q) \in Nat /\ Len(p \o q) = Len(p) + Len(q)
        /\ \A i \in 1 .. Len(p) : (p \o q)[i] = p[i]
        /\ \A i \in 1 .. Len(q) : (p \o q)[Len(p) + i] = q[i]
    <3>1. IsSequence(p) /\ IsSequence(q)
      BY <1>4, <1>5
    <3>. QED
      BY <3>1, ElementOfConcat
  <2>2. /\ Len(t) = 5 + Len(q)
        /\ \A i \in 1 .. 5 : t[i] = p[i]
        /\ \A i \in 1 .. Len(q) : t[5 + i] = q[i]
    BY <1>3, <1>5, <2>1
  <2>3. ASSUME NEW i \in 1 .. Len(t), i > 5
        PROVE  t[i] = w
    <3>1. i - 5 \in 1 .. Len(q) /\ 5 + (i - 5) = i
      BY <2>1, <2>2, <2>3
    <3>. QED
      BY <1>4, <2>2, <3>1
  <2>. QED
    BY <1>5, <2>1, <2>2, <2>3
<1>7. ASSUME NEW i \in 1 .. Len(t), NEW j \in 1 .. Len(t),
             t[i].kind = "Trunc", n + i - 1 \in Uses(t[j])
      PROVE  t[j].kind = "SExt"
  <2>1. i = 4
    BY <1>2, <1>6, <1>7, SMTT(20)
  <2>2. n + 3 \in Uses(t[j])
    BY <1>7, <2>1
  <2>. QED
    BY <1>1, <1>2, <1>6, <2>2
<1>. QED
  BY <1>7 DEF Extended, t

LEMMA LiftedExtended ==
  ASSUME NEW inst, NEW n \in Nat
  PROVE  Extended(LiftOp(inst, n), n)
<1>1. /\ \A a : a.kind # "Trunc" => Whole(<<a>>)
      /\ \A a, b : a.kind # "Trunc" /\ b.kind # "Trunc" => Whole(<<a, b>>)
      /\ \A a, b, c : a.kind # "Trunc" /\ b.kind # "Trunc" /\ c.kind # "Trunc"
                       => Whole(<<a, b, c>>)
      /\ \A a, b, c, d, e, f :
           /\ a.kind # "Trunc" /\ b.kind # "Trunc" /\ c.kind # "Trunc"
           /\ d.kind # "Trunc" /\ e.kind # "Trunc" /\ f.kind # "Trunc"
           => Whole(<<a, b, c, d, e, f>>)
  BY DEF Whole
<1>2. /\ \A v, r : IRReadReg(v, r).kind = "ReadReg"
      /\ \A v, c : IRConst(v, c).kind = "Const"
      /\ \A v : IRGetPC(v).kind = "GetPC"
      /\ \A v, o, a, b : IRBinOp(v, o, a, b).kind = "BinOp"
      /\ \A v, c, a, b : IRICmp(v, c, a, b).kind = "ICmp"
      /\ \A o, v, y, a : IRCast(o, v, y, a).kind = o
      /\ \A v, y, a, o : IRLoad(v, y, a, o).kind = "Load"
      /\ \A y, a, b, o : IRStore(y, a, b, o).kind = "Store"
  BY DEF IRReadReg, IRConst, IRGetPC, IRBinOp, IRICmp, IRCast, IRLoad, IRStore, IRInst
<1>. DEFINE a == IRReadReg(n, inst.rs1)
            b == IRReadReg(n + 1, inst.rs2)
            c == IRConst(n + 1, Wrap(inst.imm))
            d == IRBinOp(n + 2, BinOpOf[inst.op], n, n + 1)
            e == IRBinOp(n + 2, "Add", n, n + 1)
            f == IRLoad(n + 1, "I32", n, inst.imm)
            g == IRCast(IF inst.op = "LW" THEN "SExt" ELSE "ZExt", n + 2, "I64", n + 1)
            h == IRLoad(n + 1, "I64", n, inst.imm)
            o == IRStore(IF inst.op = "SW" THEN "I32" ELSE "I64", n + 1, n, inst.imm)
            p == IRICmp(n + 2, CondOf[inst.op], n, n + 1)
            q == IRGetPC(n)
            r == IRConst(n, Wrap(inst.pc + 4))
            s == IRConst(n + 3, Wrap(-2))
            u == IRBinOp(n + 4, "And", n + 2, n + 3)
            v == IRConst(n + 5, Wrap(inst.pc + 4))
<1>3. /\ a.kind # "Trunc" /\ b.kind # "Trunc" /\ c.kind # "Trunc" /\ d.kind # "Trunc"
      /\ e.kind # "Trunc" /\ f.kind # "Trunc" /\ g.kind # "Trunc" /\ h.kind # "Trunc"
      /\ o.kind # "Trunc" /\ p.kind # "Trunc" /\ q.kind # "Trunc" /\ r.kind # "Trunc"
      /\ s.kind # "Trunc" /\ u.kind # "Trunc" /\ v.kind # "Trunc"
  BY <1>2
<1>4. /\ LiftImmediate(inst, n) = <<a, c, d>> \o WriteReg(inst.rd, n + 2)
      /\ LiftRegister(inst, n) = <<a, b, d>> \o WriteReg(inst.rd, n + 2)
      /\ LiftLoadWord(inst, n) = <<a, f, g>> \o WriteReg(inst.rd, n + 2)
      /\ LiftLoadDouble(inst, n) = <<a, h>> \o WriteReg(inst.rd, n + 1)
      /\ LiftStore(inst, n) = <<a, b, o>>
      /\ LiftBranch(inst, n) = <<a, b, p>>
      /\ LiftAuipc(inst, n) = <<q, c, e>> \o WriteReg(inst.rd, n + 2)
      /\ LiftJal(inst, n) = <<r>> \o WriteReg(inst.rd, n)
      /\ LiftJalr(inst, n) = <<a, c, e, s, u, v>> \o WriteReg(inst.rd, n + 5)
  BY DEF LiftImmediate, LiftRegister, LiftLoadWord, LiftLoadDouble, LiftStore, LiftBranch,
         LiftAuipc, LiftJal, LiftJalr
<1>. HIDE DEF a, b, c, d, e, f, g, h, o, p, q, r, s, u, v
<1>5. /\ Whole(<<a, c, d>>) /\ Whole(<<a, b, d>>) /\ Whole(<<a, f, g>>) /\ Whole(<<a, h>>)
      /\ Whole(<<a, b, o>>) /\ Whole(<<a, b, p>>) /\ Whole(<<q, c, e>>) /\ Whole(<<r>>)
      /\ Whole(<<a, c, e, s, u, v>>)
  BY <1>1, <1>3
<1>6. /\ Whole(LiftImmediate(inst, n)) /\ Whole(LiftRegister(inst, n))
      /\ Whole(LiftLoadWord(inst, n)) /\ Whole(LiftLoadDouble(inst, n))
      /\ Whole(LiftAuipc(inst, n)) /\ Whole(LiftJal(inst, n)) /\ Whole(LiftJalr(inst, n))
  BY <1>4, <1>5, WholeWrite, TuplesAreSequences
<1>7. Whole(LiftStore(inst, n)) /\ Whole(LiftBranch(inst, n)) /\ Whole(<<>>)
  BY <1>4, <1>5 DEF Whole
<1>8. inst.op \notin {"ADDW", "ADDIW"} => Whole(LiftOp(inst, n))
  BY <1>6, <1>7 DEF LiftOp
<1>9. \A t : Whole(t) => Extended(t, n)
  BY DEF Whole, Extended
<1>10. inst.op \in {"ADDW", "ADDIW"} => LiftOp(inst, n) = LiftAddWord(inst, n)
  BY LiftCases
<1>. QED
  BY <1>8, <1>9, <1>10, AddWordExtended

LEMMA ExtendedConcat ==
  ASSUME NEW p, SSA(p, 0), Extended(p, 0), NEW q, SSA(q, Len(p)), Extended(q, Len(p))
  PROVE  Extended(p \o q, 0)
<1>. DEFINE t == p \o q
            m == Len(p)
<1>1. IsSequence(p) /\ IsSequence(q)
  BY DEF SSA
<1>2. /\ m \in Nat /\ Len(q) \in Nat /\ Len(t) = m + Len(q)
      /\ \A i \in 1 .. m : t[i] = p[i]
      /\ \A i \in 1 .. Len(q) : t[m + i] = q[i]
  BY <1>1, ElementOfConcat
<1>. HIDE DEF t, m
<1>3. ASSUME NEW i \in 1 .. Len(t), NEW j \in 1 .. Len(t),
             t[i].kind = "Trunc", 0 + i - 1 \in Uses(t[j])
      PROVE  t[j].kind = "SExt"
  <2>1. CASE j <= m
    <3>1. j \in 1 .. m /\ t[j] = p[j]
      BY <1>2, <1>3, <2>1
    <3>a. \A v \in Uses(p[j]) : \E x \in 1 .. j - 1 : Defines(p[x]) /\ v = 0 + x - 1
      BY <3>1 DEF SSA, m
    <3>2. PICK x \in 1 .. j - 1 : Defines(p[x]) /\ 0 + i - 1 = 0 + x - 1
      BY <1>3, <3>1, <3>a
    <3>3. i \in 1 .. m /\ t[i] = p[i]
      BY <1>2, <1>3, <3>1, <3>2
    <3>. QED
      BY <1>3, <3>1, <3>3 DEF Extended, m
  <2>2. CASE j > m
    <3>. DEFINE y == j - m
    <3>1. y \in 1 .. Len(q) /\ t[j] = q[y]
      <4>1. y \in 1 .. Len(q) /\ m + y = j
        BY <1>2, <1>3, <2>2
      <4>. QED
        BY <1>2, <4>1
    <3>. HIDE DEF y
    <3>a. \A v \in Uses(q[y]) : \E x \in 1 .. y - 1 : Defines(q[x]) /\ v = m + x - 1
      BY <3>1 DEF SSA, m
    <3>2. PICK x \in 1 .. y - 1 : Defines(q[x]) /\ 0 + i - 1 = m + x - 1
      BY <1>3, <3>1, <3>a
    <3>3. x \in 1 .. Len(q) /\ t[i] = q[x] /\ m + x - 1 \in Uses(q[y])
      <4>1. x \in 1 .. Len(q) /\ m + x = i
        BY <1>2, <1>3, <3>1, <3>2
      <4>2. t[i] = q[x]
        BY <1>2, <4>1
      <4>. QED
        BY <1>3, <3>1, <3>2, <4>1, <4>2
    <3>. QED
      BY <1>3, <3>1, <3>3 DEF Extended, m
  <2>. QED
    BY <1>2, <2>1, <2>2
<1>. QED
  BY <1>3 DEF Extended, t

\* The IR of the first instructions of a block is numbered by position and
\* formed for select().
LEMMA PrefixFormed ==
  ASSUME NEW R, NEW C, R \subseteq Nat, NEW I, NEW insts \in Seq(I), NEW a,
         AllRunnable(insts, a, R, C), NEW l, LiftFold!IsRun(l, <<>>, insts)
  PROVE  \A i \in 0 .. Len(insts) :
           SSA(l[i], 0) /\ AllFormed(l[i], R, C) /\ Extended(l[i], 0)
<1>. DEFINE Good(t) == SSA(t, 0) /\ AllFormed(t, R, C) /\ Extended(t, 0)
            T == {i \in Nat : i <= Len(insts) => Good(l[i])}
<1>0. Len(insts) \in Nat
  OBVIOUS
<1>1. 0 \in T
  <2>1. l[0] = <<>>
    BY DEF LiftFold!IsRun
  <2>2. SSA(<<>>, 0) /\ AllFormed(<<>>, R, C) /\ Extended(<<>>, 0)
    BY SSATuples DEF AllFormed, Extended
  <2>. QED
    BY <2>1, <2>2
<1>2. ASSUME NEW i \in Nat, i \in T, i + 1 <= Len(insts)
      PROVE  Good(l[i + 1])
  <2>. DEFINE p == l[i]
              inst == insts[i + 1]
              q == LiftOp(inst, Len(p))
  <2>1. i + 1 \in 1 .. Len(insts) /\ (i + 1) - 1 = i
    BY <1>0, <1>2
  <2>2. l[i + 1] = p \o q
    BY <2>1 DEF LiftFold!IsRun, LiftInst
  <2>3. SSA(p, 0) /\ AllFormed(p, R, C) /\ Extended(p, 0)
    BY <1>0, <1>2
  <2>4. IsSequence(p) /\ Len(p) \in Nat
    BY <2>3 DEF SSA, IsSequence
  <2>5. Runnable(inst, R, C)
    BY <2>1 DEF AllRunnable
  <2>. HIDE DEF inst
  <2>6. AllFormed(q, R, C)
    BY <2>4, <2>5, LiftedFormed
  <2>7. SSA(q, Len(p)) /\ SSA(q, 0 + Len(p)) /\ Extended(q, Len(p))
    BY <2>4, LiftedSSA, LiftedExtended
  <2>. HIDE DEF p, q
  <2>8. IsSequence(q)
    BY <2>7 DEF SSA
  <2>9. SSA(p \o q, 0)
    BY <2>3, <2>7, SSAConcat
  <2>10. AllFormed(p \o q, R, C)
    BY <2>3, <2>4, <2>6, <2>8, FormedConcat
  <2>11. Extended(p \o q, 0)
    BY <2>3, <2>7, ExtendedConcat
  <2>. QED
    BY <2>2, <2>9, <2>10, <2>11
<1>. HIDE DEF Good
<1>3. \A i \in Nat : i \in T => i + 1 \in T
  <2>1. ASSUME NEW i \in Nat, i \in T
        PROVE  i + 1 \in T
    <3>1. i + 1 <= Len(insts) => Good(l[i + 1])
      BY <1>2, <2>1
    <3>2. i + 1 \in Nat
      OBVIOUS
    <3>. QED
      BY <3>1, <3>2
  <2>. QED
    BY <2>1
<1>4. Nat \subseteq T
  <2>. HIDE DEF T
  <2>. QED
    BY <1>1, <1>3, NatSetInduction
<1>. QED
  BY <1>0, <1>4 DEF Good

\* The value that the terminator of the IR takes is defined in the block, and is
\* a whole word.
TermDefined(t, term) ==
  term.kind \in {"CBr", "BrIndirect"} =>
    \E i \in 1 .. Len(t) : Defines(t[i]) /\ t[i].kind # "Trunc" /\ term.v = i - 1

LEMMA BlockFormed ==
  ASSUME NEW R, NEW C, R \subseteq Nat, NEW b, Liftable(b, R, C)
  PROVE  /\ SSA(Lift(b).insts, 0) /\ AllFormed(Lift(b).insts, R, C)
         /\ Extended(Lift(b).insts, 0)
         /\ TermDefined(Lift(b).insts, Lift(b).term)
<1>. DEFINE insts == b.insts
            K == Len(insts)
<1>1. /\ IsSequence(insts) /\ AllRunnable(insts, b.start, R, C)
      /\ \/ b.term = "Trap"
         \/ /\ insts # <<>>
            /\ \/ b.term = "Return"
               \/ b.term = "IndirectJump" /\ insts[K].op = "JALR"
               \/ WellEnded(b)
  BY BlockForm DEF Liftable
<1>2. PICK I : insts \in Seq(I)
  BY <1>1 DEF IsSequence
<1>. HIDE DEF insts
<1>3. K \in Nat /\ K \in 0 .. K
  BY <1>2
<1>4. PICK l : LiftFold!IsRun(l, <<>>, insts) /\ LiftFold!Fold(<<>>, insts) = l[K]
  BY <1>2, LiftFold!FoldRun
<1>5. Lift(b).insts = l[K] /\ Lift(b).term = LiftTerm(b, l[K])
  BY <1>4, LiftLoop DEF Lift, insts
<1>6. \A i \in 0 .. K : SSA(l[i], 0) /\ AllFormed(l[i], R, C) /\ Extended(l[i], 0)
  BY <1>1, <1>2, <1>4, PrefixFormed
<1>. DEFINE t == l[K]
<1>. HIDE DEF K
<1>7. SSA(t, 0) /\ AllFormed(t, R, C) /\ Extended(t, 0)
  BY <1>3, <1>6
<1>8. TermDefined(t, LiftTerm(b, t))
  <2>1. CASE b.term \in {"Trap", "Return", "Jump", "Fallthrough"}
    <3>1. LiftTerm(b, t).kind \notin {"CBr", "BrIndirect"}
      BY <2>1 DEF LiftTerm, IRTerm
    <3>. QED
      BY <3>1 DEF TermDefined
  <2>. DEFINE p == l[K - 1]
              n == Len(p)
              inst == insts[K]
  <2>2. insts # <<>> => /\ t = p \o LiftOp(inst, n)
                        /\ IsSequence(p) /\ n \in Nat
    <3>1. SUFFICES ASSUME insts # <<>> PROVE t = p \o LiftOp(inst, n) /\ IsSequence(p) /\ n \in Nat
      OBVIOUS
    <3>2. K \in 1 .. K /\ K - 1 \in 0 .. K
      BY <1>2, <3>1 DEF K
    <3>3. t = p \o LiftOp(inst, n)
      BY <1>4, <3>2 DEF LiftFold!IsRun, LiftInst, K
    <3>4. SSA(p, 0)
      BY <1>6, <3>2
    <3>. HIDE DEF p
    <3>5. IsSequence(p) /\ n \in Nat
      BY <3>4 DEF SSA, IsSequence
    <3>. QED
      BY <3>3, <3>5
  <2>3. CASE WellEnded(b) /\ b.term = "Branch" /\ insts # <<>>
    <3>1. inst.op \in Branches
      BY <2>3 DEF WellEnded, insts, K
    <3>. HIDE DEF t, p, inst
    <3>2. t = p \o LiftBranch(inst, n)
      BY <2>2, <2>3, <3>1, LiftCases
    <3>3. LastICmp(t) = n + 2
      BY <2>2, <2>3, <3>1, <3>2, BranchComparesLast
    <3>4. /\ Len(t) = n + 3 /\ t[n + 3].dest = n + 2
          /\ Defines(t[n + 3]) /\ t[n + 3].kind # "Trunc"
      <4>. DEFINE q == LiftBranch(inst, n)
      <4>1. /\ IsSequence(q) /\ Len(q) = 3 /\ q[3].dest = n + 2
            /\ Defines(q[3]) /\ q[3].kind # "Trunc"
        <5>1. q[3] = IRICmp(n + 2, CondOf[inst.op], n, n + 1) /\ Len(q) = 3 /\ IsSequence(q)
          BY TuplesAreSequences DEF LiftBranch
        <5>. HIDE DEF q
        <5>. QED
          BY <5>1 DEF IRICmp, IRInst, Defines
      <4>. HIDE DEF q
      <4>2. /\ Len(p \o q) = n + Len(q)
            /\ \A i \in 1 .. Len(q) : (p \o q)[n + i] = q[i]
        <5>1. IsSequence(p) /\ IsSequence(q)
          BY <2>2, <2>3, <4>1
        <5>. QED
          BY <5>1, ElementOfConcat
      <4>3. t = p \o q
        BY <3>2 DEF q
      <4>4. 3 \in 1 .. Len(q)
        BY <4>1
      <4>. HIDE DEF n
      <4>5. Len(p \o q) = n + 3 /\ (p \o q)[n + 3] = q[3]
        BY <4>1, <4>2, <4>4
      <4>6. Len(t) = n + 3 /\ t[n + 3] = q[3]
        BY <4>3, <4>5
      <4>. QED
        BY <4>1, <4>6
    <3>5. n \in Nat
      BY <2>2, <2>3
    <3>6. LiftTerm(b, t).v = n + 2
      BY <2>3, <3>3 DEF LiftTerm, IRTerm
    <3>. HIDE DEF n
    <3>7. n + 3 \in 1 .. Len(t) /\ n + 2 = (n + 3) - 1
      BY <3>4, <3>5
    <3>. QED
      BY <3>4, <3>6, <3>7 DEF TermDefined
  <2>4. CASE b.term = "IndirectJump" /\ insts[K].op = "JALR" /\ insts # <<>>
    <3>. DEFINE q == LiftJalr(inst, n)
    <3>1. t = p \o q
      BY <2>2, <2>4, LiftCases
    <3>2. IsSequence(p) /\ n \in Nat
      BY <2>2, <2>4
    <3>. HIDE DEF t, p, inst
    <3>3. /\ IsSequence(q)
          /\ inst.rd = 0 => Len(q) = 6 /\ q[6] = IRConst(n + 5, Wrap(inst.pc + 4))
          /\ inst.rd # 0 => Len(q) = 7 /\ q[7] = IRWriteReg(inst.rd, n + 5)
      BY <3>2, JalrEnds
    <3>. HIDE DEF q
    <3>4. /\ Len(t) = n + Len(q)
          /\ \A i \in 1 .. Len(q) : t[n + i] = q[i]
      BY <3>1, <3>2, <3>3, ElementOfConcat
    <3>5. LiftTerm(b, t).v = LastValue(t)
      BY <2>4 DEF LiftTerm, IRTerm
    <3>6. Last(t) = t[Len(t)]
      BY DEF Last
    <3>7. CASE inst.rd = 0
      <4>0. Len(q) = 6 /\ q[6] = IRConst(n + 5, Wrap(inst.pc + 4))
        BY <3>3, <3>7
      <4>. HIDE DEF n
      <4>a. 6 \in 1 .. Len(q)
        BY <4>0
      <4>1. Len(t) = n + 6 /\ t[n + 6] = q[6]
        BY <3>4, <4>0, <4>a
      <4>2. t[n + 6] = IRConst(n + 5, Wrap(inst.pc + 4))
        BY <4>0, <4>1
      <4>3. t[n + 6].dest = n + 5 /\ Defines(t[n + 6]) /\ t[n + 6].kind # "Trunc"
        BY <4>2 DEF IRConst, IRInst, Defines
      <4>4. t # <<>> /\ n + 5 # NoValue /\ n + 6 \in 1 .. Len(t) /\ n + 5 = (n + 6) - 1
        BY <3>2, <4>1 DEF NoValue
      <4>5. LastValue(t) = n + 5
        BY <3>6, <4>1, <4>3, <4>4 DEF LastValue
      <4>. QED
        BY <3>5, <4>3, <4>4, <4>5 DEF TermDefined
    <3>8. CASE inst.rd # 0
      <4>0. Len(q) = 7 /\ q[7] = IRWriteReg(inst.rd, n + 5)
        BY <3>3, <3>8
      <4>. HIDE DEF n
      <4>a. 7 \in 1 .. Len(q)
        BY <4>0
      <4>1. Len(t) = n + 7 /\ t[n + 7] = q[7]
        BY <3>4, <4>0, <4>a
      <4>2. t[n + 7] = IRWriteReg(inst.rd, n + 5)
        BY <4>0, <4>1
      <4>3. t[n + 7].dest = NoValue
        BY <4>2 DEF IRWriteReg, IRInst
      <4>4. LastValue(t) = 0
        BY <3>6, <4>1, <4>3 DEF LastValue
      <4>5. Len(t) \in Nat \ {0}
        BY <3>2, <4>1
      <4>6. t = <<>> \/ (Defines(t[1]) /\ t[1].kind # "Trunc")
        <5>1. \A i \in 0 .. Len(insts) : IsSequence(l[i])
          BY <1>6 DEF SSA, K
        <5>2. \A i \in 0 .. Len(insts) :
                l[i] = <<>> \/ (Len(l[i]) \in Nat \ {0} /\ Leads(l[i][1], R))
          BY <1>1, <1>2, <1>4, <5>1, PrefixLeads
        <5>3. l[K] = <<>> \/ Leads(l[K][1], R)
          BY <1>3, <5>2 DEF K
        <5>. QED
          BY <5>3 DEF Leads, t
      <4>7. 1 \in 1 .. Len(t) /\ Defines(t[1]) /\ t[1].kind # "Trunc" /\ 0 = 1 - 1
        BY <4>5, <4>6
      <4>. QED
        BY <3>5, <4>4, <4>7 DEF TermDefined
    <3>. QED
      BY <3>7, <3>8
  <2>5. WellEnded(b) => b.term \in {"Branch", "Jump", "Fallthrough"}
    BY DEF WellEnded
  <2>. QED
    BY <1>1, <2>1, <2>3, <2>4, <2>5
<1>. QED
  BY <1>5, <1>7, <1>8


-----------------------------------------------------------------------------
\* What the instructions of q up to p write, and all of them.
Written(q, p) == UNION {Writes(q[i]) : i \in 1 .. p}

Made(q) == Written(q, Len(q))

\* Behind instructions that write W: what q reads is written before, and what
\* it writes is not.
Flows(q, W) ==
  /\ q \in Seq(Live!AnyInstr)
  /\ \A p \in 1 .. Len(q) : /\ Reads(q[p]) \subseteq W \cup Written(q, p - 1)
                            /\ Writes(q[p]) \cap (W \cup Written(q, p - 1)) = {}

LEMMA FlowsConcat ==
  ASSUME NEW W, NEW p, Flows(p, W), NEW q, Flows(q, W \cup Made(p))
  PROVE  Flows(p \o q, W) /\ Made(p \o q) = Made(p) \cup Made(q)
<1>. DEFINE A == Live!AnyInstr
            m == Len(p)
            n == Len(q)
            h == p \o q
<1>1. /\ h \in Seq(A) /\ m \in Nat /\ n \in Nat /\ Len(h) = m + n
      /\ \A i \in 1 .. m : h[i] = p[i]
      /\ \A i \in 1 .. n : h[m + i] = q[i]
  <2>1. p \in Seq(A) /\ q \in Seq(A)
    BY DEF Flows
  <2>. HIDE DEF A
  <2>2. IsSequence(p) /\ IsSequence(q)
    BY <2>1 DEF IsSequence
  <2>3. h \in Seq(A)
    BY <2>1
  <2>4. /\ Len(p) \in Nat /\ Len(q) \in Nat /\ Len(p \o q) = Len(p) + Len(q)
        /\ \A i \in 1 .. Len(p) : (p \o q)[i] = p[i]
        /\ \A i \in 1 .. Len(q) : (p \o q)[Len(p) + i] = q[i]
    BY <2>2, ElementOfConcat
  <2>. QED
    BY <2>3, <2>4
<1>. HIDE DEF h, A
<1>2. \A j \in 0 .. m : Written(h, j) = Written(p, j)
  <2>1. ASSUME NEW j \in 0 .. m PROVE Written(h, j) = Written(p, j)
    <3>1. \A i \in 1 .. j : h[i] = p[i]
      BY <1>1
    <3>. QED
      BY <3>1 DEF Written
  <2>. QED
    BY <2>1
<1>3. \A j \in 0 .. n : Written(h, m + j) = Made(p) \cup Written(q, j)
  <2>1. ASSUME NEW j \in 0 .. n PROVE Written(h, m + j) = Made(p) \cup Written(q, j)
    <3>1. ASSUME NEW x \in Written(h, m + j) PROVE x \in Made(p) \cup Written(q, j)
      <4>1. PICK i \in 1 .. m + j : x \in Writes(h[i])
        BY <3>1 DEF Written
      <4>2. CASE i <= m
        <5>1. i \in 1 .. m /\ h[i] = p[i]
          BY <1>1, <4>1, <4>2
        <5>. QED
          BY <4>1, <5>1 DEF Made, Written
      <4>3. CASE ~ (i <= m)
        <5>1. i - m \in 1 .. j /\ i - m \in 1 .. n /\ i = m + (i - m)
          BY <1>1, <4>1, <4>3
        <5>2. h[i] = q[i - m]
          BY <1>1, <5>1
        <5>. QED
          BY <4>1, <5>1, <5>2 DEF Written
      <4>. QED
        BY <4>2, <4>3
    <3>2. ASSUME NEW x \in Made(p) PROVE x \in Written(h, m + j)
      <4>1. PICK i \in 1 .. m : x \in Writes(p[i])
        BY <3>2 DEF Made, Written
      <4>2. i \in 1 .. m + j /\ h[i] = p[i]
        BY <1>1, <4>1
      <4>. QED
        BY <4>1, <4>2 DEF Written
    <3>3. ASSUME NEW x \in Written(q, j) PROVE x \in Written(h, m + j)
      <4>1. PICK i \in 1 .. j : x \in Writes(q[i])
        BY <3>3 DEF Written
      <4>2. m + i \in 1 .. m + j /\ i \in 1 .. n
        BY <1>1, <4>1
      <4>3. h[m + i] = q[i]
        BY <1>1, <4>2
      <4>. QED
        BY <4>1, <4>2, <4>3 DEF Written
    <3>. QED
      BY <3>1, <3>2, <3>3
  <2>. QED
    BY <2>1
<1>4. Made(h) = Made(p) \cup Made(q)
  <2>1. n \in 0 .. n
    BY <1>1
  <2>. QED
    BY <1>1, <1>3, <2>1 DEF Made
<1>5. ASSUME NEW i \in 1 .. m + n
      PROVE  /\ Reads(h[i]) \subseteq W \cup Written(h, i - 1)
             /\ Writes(h[i]) \cap (W \cup Written(h, i - 1)) = {}
  <2>1. CASE i <= m
    <3>1. i \in 1 .. m /\ i - 1 \in 0 .. m
      BY <1>1, <2>1
    <3>2. h[i] = p[i] /\ Written(h, i - 1) = Written(p, i - 1)
      BY <1>1, <1>2, <3>1
    <3>. QED
      BY <3>1, <3>2 DEF Flows
  <2>2. CASE ~ (i <= m)
    <3>1. PICK j \in Int : i = m + j
      <4>1. i - m \in Int /\ i = m + (i - m)
        BY <1>1
      <4>. QED
        BY <4>1
    <3>2. j \in 1 .. n /\ j - 1 \in 0 .. n /\ i - 1 = m + (j - 1)
      BY <1>1, <2>2, <3>1
    <3>3. h[i] = q[j]
      BY <1>1, <3>1, <3>2
    <3>4. Written(h, i - 1) = Made(p) \cup Written(q, j - 1)
      BY <1>3, <3>2
    <3>5. /\ Reads(q[j]) \subseteq (W \cup Made(p)) \cup Written(q, j - 1)
          /\ Writes(q[j]) \cap ((W \cup Made(p)) \cup Written(q, j - 1)) = {}
      BY <3>2 DEF Flows
    <3>. QED
      BY <3>3, <3>4, <3>5
  <2>. QED
    BY <2>1, <2>2
<1>. QED
  BY <1>1, <1>4, <1>5 DEF Flows, h, A

LEMMA FlowsNone ==
  ASSUME NEW W
  PROVE  Flows(<<>>, W) /\ Made(<<>>) = {}
<1>1. <<>> \in Seq(Live!AnyInstr) /\ Len(<<>>) = 0
  OBVIOUS
<1>2. 1 .. 0 = {}
  OBVIOUS
<1>. QED
  BY <1>1, <1>2 DEF Flows, Made, Written

LEMMA FlowsOne ==
  ASSUME NEW W, NEW J \in Live!AnyInstr, Reads(J) \subseteq W, Writes(J) \cap W = {}
  PROVE  Flows(<<J>>, W) /\ Made(<<J>>) = Writes(J)
<1>. DEFINE A == Live!AnyInstr
            q == <<J>>
<1>1. q \in Seq(A) /\ Len(q) = 1 /\ q[1] = J
  <2>1. J \in A
    OBVIOUS
  <2>. HIDE DEF A
  <2>. QED
    BY <2>1
<1>. HIDE DEF q
<1>2. Written(q, 0) = {} /\ Written(q, 1) = Writes(J)
  BY <1>1 DEF Written
<1>3. \A p \in 1 .. 1 : p = 1 /\ p - 1 = 0
  OBVIOUS
<1>4. Flows(q, W)
  BY <1>1, <1>2, <1>3 DEF Flows
<1>. QED
  BY <1>1, <1>2, <1>4 DEF Made, q

\* What the host instructions of select() read and write.
LEMMA HostTwo ==
  ASSUME NEW op \in Live!Opcodes, NEW d \in Nat, NEW x \in Live!AnyOperand
  PROVE  LET J == Instr(op, <<RegV(d), x>>)
         IN /\ J \in Live!AnyInstr
            /\ op \notin {"Cmp", "StrX", "StrW", "MovK"} =>
                 Writes(J) = {d} /\ Reads(J) = Live!TouchedBy(x)
            /\ op \in {"Cmp", "StrX", "StrW", "MovK"} =>
                 Writes(J) = {} /\ Reads(J) = {d} \cup Live!TouchedBy(x)
<1>. DEFINE t == <<RegV(d), x>>
            A == Live!AnyOperand
            J == Instr(op, t)
<1>1. RegV(d) \in A
  BY DEF RegV, Live!AnyOperand
<1>2. Live!TouchedBy(RegV(d)) = {d} /\ RegV(d).id = d /\ RegV(d).kind = "RegV"
  BY DEF RegV, Live!TouchedBy
<1>3. t \in Seq(A) /\ DOMAIN t = {1, 2} /\ t[1] = RegV(d) /\ t[2] = x
  <2>. DEFINE y == RegV(d)
  <2>1. x \in A /\ y \in A
    BY <1>1
  <2>. HIDE DEF A, y
  <2>2. <<y, x>> \in Seq(A) /\ DOMAIN <<y, x>> = 1 .. 2
    BY <2>1
  <2>3. 1 .. 2 = {1, 2}
    OBVIOUS
  <2>. QED
    BY <2>2, <2>3 DEF y
<1>. HIDE DEF t
<1>4. J.op = op /\ J.ops = t
  BY DEF Instr
<1>5. J \in Live!AnyInstr
  BY <1>3 DEF Instr, Live!AnyInstr
<1>. HIDE DEF J
<1>6. /\ UNION {Live!TouchedBy(J.ops[i]) : i \in DOMAIN J.ops \ {}} = {d} \cup Live!TouchedBy(x)
      /\ UNION {Live!TouchedBy(J.ops[i]) : i \in DOMAIN J.ops \ {1}} = Live!TouchedBy(x)
  BY <1>2, <1>3, <1>4
<1>7. J.ops[1].id = d /\ J.ops[1].kind = "RegV"
  BY <1>2, <1>3, <1>4
<1>. HIDE DEF A
<1>8. /\ op \notin {"Cmp", "StrX", "StrW", "MovK"} => Writes(J) = {d}
      /\ op \in {"Cmp", "StrX", "StrW", "MovK"} => Writes(J) = {}
  BY <1>4, <1>7 DEF Writes
<1>9. /\ Writes(J) = {d} => Reads(J) = Live!TouchedBy(x)
      /\ Writes(J) = {} => Reads(J) = {d} \cup Live!TouchedBy(x)
  BY <1>6 DEF Reads
<1>. QED
  BY <1>5, <1>8, <1>9 DEF J, t

LEMMA HostThree ==
  ASSUME NEW op \in Live!Opcodes, NEW d \in Nat,
         NEW x \in Live!AnyOperand, NEW y \in Live!AnyOperand
  PROVE  LET J == Instr(op, <<RegV(d), x, y>>)
         IN /\ J \in Live!AnyInstr
            /\ op \notin {"Cmp", "StrX", "StrW", "MovK"} =>
                 /\ Writes(J) = {d}
                 /\ Reads(J) = Live!TouchedBy(x) \cup Live!TouchedBy(y)
            /\ op = "MovK" =>
                 /\ Writes(J) = {}
                 /\ Reads(J) = {d} \cup Live!TouchedBy(x) \cup Live!TouchedBy(y)
<1>. DEFINE t == <<RegV(d), x, y>>
            A == Live!AnyOperand
            J == Instr(op, t)
<1>1. RegV(d) \in A
  BY DEF RegV, Live!AnyOperand
<1>2. Live!TouchedBy(RegV(d)) = {d} /\ RegV(d).id = d /\ RegV(d).kind = "RegV"
  BY DEF RegV, Live!TouchedBy
<1>3. t \in Seq(A) /\ DOMAIN t = {1, 2, 3} /\ t[1] = RegV(d) /\ t[2] = x /\ t[3] = y
  <2>. DEFINE z == RegV(d)
  <2>1. x \in A /\ y \in A /\ z \in A
    BY <1>1
  <2>. HIDE DEF A, z
  <2>2. <<z, x, y>> \in Seq(A) /\ DOMAIN <<z, x, y>> = 1 .. 3
    BY <2>1
  <2>3. 1 .. 3 = {1, 2, 3}
    OBVIOUS
  <2>. QED
    BY <2>2, <2>3 DEF z
<1>. HIDE DEF t
<1>4. J.op = op /\ J.ops = t
  BY DEF Instr
<1>5. J \in Live!AnyInstr
  BY <1>3 DEF Instr, Live!AnyInstr
<1>. HIDE DEF J
<1>6. /\ UNION {Live!TouchedBy(J.ops[i]) : i \in DOMAIN J.ops \ {}}
           = {d} \cup Live!TouchedBy(x) \cup Live!TouchedBy(y)
      /\ UNION {Live!TouchedBy(J.ops[i]) : i \in DOMAIN J.ops \ {1}}
           = Live!TouchedBy(x) \cup Live!TouchedBy(y)
  BY <1>2, <1>3, <1>4
<1>7. J.ops[1].id = d /\ J.ops[1].kind = "RegV"
  BY <1>2, <1>3, <1>4
<1>. HIDE DEF A
<1>8. /\ op \notin {"Cmp", "StrX", "StrW", "MovK"} => Writes(J) = {d}
      /\ op = "MovK" => Writes(J) = {}
  BY <1>4, <1>7 DEF Writes
<1>9. /\ Writes(J) = {d} => Reads(J) = Live!TouchedBy(x) \cup Live!TouchedBy(y)
      /\ Writes(J) = {} => Reads(J) = {d} \cup Live!TouchedBy(x) \cup Live!TouchedBy(y)
  BY <1>6 DEF Reads
<1>. QED
  BY <1>5, <1>8, <1>9 DEF J, t

LEMMA HostOne ==
  ASSUME NEW op \in Live!Opcodes, NEW d \in Nat,
         op \notin {"Cmp", "StrX", "StrW", "MovK"}
  PROVE  LET J == Instr(op, <<RegV(d)>>)
         IN J \in Live!AnyInstr /\ Writes(J) = {d} /\ Reads(J) = {}
<1>. DEFINE t == <<RegV(d)>>
            A == Live!AnyOperand
            J == Instr(op, t)
<1>1. RegV(d) \in A
  BY DEF RegV, Live!AnyOperand
<1>2. Live!TouchedBy(RegV(d)) = {d} /\ RegV(d).id = d /\ RegV(d).kind = "RegV"
  BY DEF RegV, Live!TouchedBy
<1>3. t \in Seq(A) /\ DOMAIN t = {1} /\ t[1] = RegV(d)
  <2>. DEFINE y == RegV(d)
  <2>1. y \in A
    BY <1>1
  <2>. HIDE DEF A, y
  <2>2. <<y>> \in Seq(A) /\ DOMAIN <<y>> = 1 .. 1
    BY <2>1
  <2>3. 1 .. 1 = {1}
    OBVIOUS
  <2>. QED
    BY <2>2, <2>3 DEF y
<1>. HIDE DEF t
<1>4. J.op = op /\ J.ops = t
  BY DEF Instr
<1>5. J \in Live!AnyInstr
  BY <1>3 DEF Instr, Live!AnyInstr
<1>. HIDE DEF J
<1>6. UNION {Live!TouchedBy(J.ops[i]) : i \in DOMAIN J.ops \ {1}} = {}
  BY <1>2, <1>3, <1>4
<1>7. J.ops[1].id = d /\ J.ops[1].kind = "RegV"
  BY <1>2, <1>3, <1>4
<1>. HIDE DEF A
<1>8. Writes(J) = {d}
  BY <1>4, <1>7 DEF Writes
<1>9. Reads(J) = {}
  BY <1>6, <1>8 DEF Reads
<1>. QED
  BY <1>5, <1>8, <1>9 DEF J, t

\* Operands, and what they make analyze() touch.
LEMMA HostOperands ==
  /\ \A v \in Nat : RegV(v) \in Live!AnyOperand /\ Live!TouchedBy(RegV(v)) = {v}
  /\ RegP(21) \in Live!AnyOperand /\ Live!TouchedBy(RegP(21)) = {}
  /\ \A n \in Int : Imm(n) \in Live!AnyOperand /\ Live!TouchedBy(Imm(n)) = {}
  /\ \A v \in Nat, n \in Int :
       Mem(v, n) \in Live!AnyOperand /\ Live!TouchedBy(Mem(v, n)) = {v} \ {0}
<1>1. \A v \in Nat : RegV(v) \in Live!AnyOperand /\ Live!TouchedBy(RegV(v)) = {v}
  BY DEF RegV, Live!AnyOperand, Live!TouchedBy
<1>2. RegP(21) \in Live!AnyOperand /\ Live!TouchedBy(RegP(21)) = {}
  BY DEF RegP, Live!AnyOperand, Live!TouchedBy
<1>3. \A n \in Int : Imm(n) \in Live!AnyOperand /\ Live!TouchedBy(Imm(n)) = {}
  BY DEF Imm, Live!AnyOperand, Live!TouchedBy
<1>4. \A v \in Nat, n \in Int :
        Mem(v, n) \in Live!AnyOperand /\ Live!TouchedBy(Mem(v, n)) = {v} \ {0}
  BY DEF Mem, Live!AnyOperand, Live!TouchedBy
<1>. QED
  BY <1>1, <1>2, <1>3, <1>4

LEMMA FlowsTwo ==
  ASSUME NEW W, NEW J \in Live!AnyInstr, Reads(J) \subseteq W, Writes(J) \cap W = {},
         NEW K \in Live!AnyInstr, Reads(K) \subseteq W \cup Writes(J),
         Writes(K) \cap (W \cup Writes(J)) = {}
  PROVE  Flows(<<J, K>>, W) /\ Made(<<J, K>>) = Writes(J) \cup Writes(K)
<1>. DEFINE A == Live!AnyInstr
            q == <<J, K>>
<1>1. q \in Seq(A) /\ Len(q) = 2 /\ q[1] = J /\ q[2] = K
  <2>1. J \in A /\ K \in A
    OBVIOUS
  <2>. HIDE DEF A
  <2>. QED
    BY <2>1
<1>. HIDE DEF q
<1>2. Written(q, 0) = {} /\ Written(q, 1) = Writes(J)
  BY <1>1 DEF Written
<1>3. Written(q, 2) = Writes(J) \cup Writes(K)
  <2>1. 1 .. 2 = {1, 2}
    OBVIOUS
  <2>. QED
    BY <1>1, <2>1 DEF Written
<1>4. ASSUME NEW p \in 1 .. 2
      PROVE  /\ Reads(q[p]) \subseteq W \cup Written(q, p - 1)
             /\ Writes(q[p]) \cap (W \cup Written(q, p - 1)) = {}
  <2>1. (p = 1 /\ p - 1 = 0) \/ (p = 2 /\ p - 1 = 1)
    OBVIOUS
  <2>. QED
    BY <1>1, <1>2, <2>1
<1>5. Flows(q, W)
  BY <1>1, <1>4 DEF Flows
<1>. QED
  BY <1>1, <1>3, <1>5 DEF Made, q

\* A constant in pieces: the first writes the register, the others change it.
LEMMA ConstFlows ==
  ASSUME NEW v \in Nat, NEW c \in Int, NEW W, v \notin W
  PROVE  Flows(SelectConst(v, c), W) /\ Made(SelectConst(v, c)) = {v}
<1>1. \A i \in 0 .. 3 : Chunk(c, i) \in Int /\ i * ChunkWidth \in Int
  <2>1. ChunkWidth \in Nat
    BY WidthAssumption DEF ChunkWidth
  <2>2. ASSUME NEW i \in 0 .. 3 PROVE Chunk(c, i) \in Int /\ i * ChunkWidth \in Int
    <3>. DEFINE a == 2 ^ (i * ChunkWidth)
                b == 2 ^ ChunkWidth
    <3>1. i * ChunkWidth \in Nat
      BY <2>1
    <3>2. a \in Nat \ {0} /\ b \in Nat \ {0}
      BY <2>1, <3>1, Powers
    <3>3. Chunk(c, i) = (c \div a) % b
      BY DEF Chunk
    <3>. HIDE DEF a, b
    <3>. QED
      BY <3>1, <3>2, <3>3
  <2>. QED
    BY <2>2
<1>. HIDE DEF Chunk, ChunkWidth
<1>2. ASSUME NEW op \in {"Mov", "MovZ"}, NEW n \in Int
      PROVE  LET q == <<Instr(op, <<RegV(v), Imm(n)>>)>> IN Flows(q, W) /\ Made(q) = {v}
  <2>. DEFINE J == Instr(op, <<RegV(v), Imm(n)>>)
  <2>1. op \in Live!Opcodes /\ op \notin {"Cmp", "StrX", "StrW", "MovK"}
    BY DEF Live!Opcodes
  <2>2. Imm(n) \in Live!AnyOperand /\ Live!TouchedBy(Imm(n)) = {}
    BY HostOperands
  <2>3. J \in Live!AnyInstr /\ Writes(J) = {v} /\ Reads(J) \subseteq {}
    BY <2>1, <2>2, HostTwo
  <2>. HIDE DEF J
  <2>. QED
    BY <2>3, FlowsOne DEF J
<1>3. ASSUME NEW i \in 0 .. 3, NEW U, v \in U
      PROVE  Flows(SelectChunk(v, c, i), U) /\ Made(SelectChunk(v, c, i)) = {}
  <2>1. CASE Chunk(c, i) = 0
    BY <2>1, FlowsNone DEF SelectChunk
  <2>2. CASE Chunk(c, i) # 0
    <3>. DEFINE x == Imm(Chunk(c, i))
                y == Imm(i * ChunkWidth)
                J == Instr("MovK", <<RegV(v), x, y>>)
    <3>1. /\ x \in Live!AnyOperand /\ Live!TouchedBy(x) = {}
          /\ y \in Live!AnyOperand /\ Live!TouchedBy(y) = {}
      BY <1>1, HostOperands
    <3>2. SelectChunk(v, c, i) = <<J>>
      BY <2>2 DEF SelectChunk
    <3>. HIDE DEF x, y
    <3>3. "MovK" \in Live!Opcodes
      BY DEF Live!Opcodes
    <3>4. J \in Live!AnyInstr /\ Writes(J) = {} /\ Reads(J) \subseteq {v}
      BY <3>1, <3>3, HostThree
    <3>. HIDE DEF J
    <3>. QED
      BY <1>3, <3>2, <3>4, FlowsOne
  <2>. QED
    BY <2>1, <2>2
<1>4. ASSUME NEW s, Flows(s, W), Made(s) = {v}, NEW t, Flows(t, W \cup {v}), Made(t) = {}
      PROVE  Flows(s \o t, W) /\ Made(s \o t) = {v}
  <2>1. Flows(t, W \cup Made(s))
    BY <1>4
  <2>2. Flows(s \o t, W) /\ Made(s \o t) = Made(s) \cup Made(t)
    BY <1>4, <2>1, FlowsConcat
  <2>. QED
    BY <1>4, <2>2
<1>5. CASE c \div 2 ^ ChunkWidth = 0
  <2>1. SelectConst(v, c) = <<Instr("Mov", <<RegV(v), Imm(c)>>)>>
    BY <1>5 DEF SelectConst
  <2>. QED
    BY <1>2, <2>1
<1>6. CASE c \div 2 ^ ChunkWidth # 0
  <2>. DEFINE z == <<Instr("MovZ", <<RegV(v), Imm(Chunk(c, 0))>>)>>
              a == SelectChunk(v, c, 1)
              b == SelectChunk(v, c, 2)
              d == SelectChunk(v, c, 3)
              q == z \o a
              r == q \o b
  <2>1. SelectConst(v, c) = r \o d
    BY <1>6 DEF SelectConst
  <2>2. Flows(z, W) /\ Made(z) = {v}
    BY <1>1, <1>2
  <2>3. /\ Flows(a, W \cup {v}) /\ Made(a) = {}
        /\ Flows(b, W \cup {v}) /\ Made(b) = {}
        /\ Flows(d, W \cup {v}) /\ Made(d) = {}
    BY <1>3
  <2>. HIDE DEF z, a, b, d, q, r
  <2>4. Flows(q, W) /\ Made(q) = {v}
    BY <1>4, <2>2, <2>3 DEF q
  <2>5. Flows(r, W) /\ Made(r) = {v}
    BY <1>4, <2>3, <2>4 DEF r
  <2>6. Flows(r \o d, W) /\ Made(r \o d) = {v}
    BY <1>4, <2>3, <2>5
  <2>. QED
    BY <2>1, <2>6
<1>. QED
  BY <1>5, <1>6

\* The virtual registers that the host code of an instruction writes: that of
\* its value, and va if it has an address.
SelectWrites(I, va) ==
  (IF Defines(I) THEN {VRegOf(I.dest)} ELSE {}) \cup (IF NeedsAddress(I) THEN {va} ELSE {})

\* W holds what I takes, and neither its value nor va.
Fresh(I, va, W) ==
  /\ \A v \in Uses(I) : v \in Nat /\ VRegOf(v) \in W
  /\ Defines(I) => I.dest \in Nat /\ VRegOf(I.dest) \notin W /\ va # VRegOf(I.dest)
  /\ va \in Nat /\ va \notin W

LEMMA SelectFlows ==
  ASSUME NEW I, Selectable(I), NEW va, NEW W, Fresh(I, va, W), NEW pc \in Int
  PROVE  Flows(SelectInst(I, pc, va), W) /\ Made(SelectInst(I, pc, va)) = SelectWrites(I, va)
<1>. DEFINE No == {"Cmp", "StrX", "StrW", "MovK"}
            d == VRegOf(I.dest)
            a == VRegOf(I.args[1])
            b == VRegOf(I.args[2])
<1>1. Defines(I) => d \in Nat /\ d \notin W /\ va # d
  BY DEF Fresh, VRegOf
<1>2. Len(I.args) \in {1, 2} => a \in Nat /\ a \in W
  <2>1. SUFFICES ASSUME Len(I.args) \in {1, 2} PROVE a \in Nat /\ a \in W
    OBVIOUS
  <2>2. I.args[1] \in Uses(I)
    BY <2>1 DEF Uses
  <2>. QED
    BY <2>2 DEF Fresh, VRegOf
<1>3. Len(I.args) = 2 => b \in Nat /\ b \in W
  <2>1. SUFFICES ASSUME Len(I.args) = 2 PROVE b \in Nat /\ b \in W
    OBVIOUS
  <2>2. I.args[2] \in Uses(I)
    BY <2>1 DEF Uses
  <2>. QED
    BY <2>2 DEF Fresh, VRegOf
<1>4. va \in Nat /\ va \notin W /\ I.reg \in Nat /\ I.imm \in Int /\ 8 * I.reg \in Int
  BY DEF Fresh, Selectable
<1>. HIDE DEF d, a, b
\* One instruction that writes d and reads x.
<1>5. ASSUME NEW op \in Live!Opcodes, op \notin No, Defines(I),
             NEW x \in Live!AnyOperand, Live!TouchedBy(x) \subseteq W
      PROVE  LET q == <<Instr(op, <<RegV(d), x>>)>> IN Flows(q, W) /\ Made(q) = {d}
  <2>. DEFINE J == Instr(op, <<RegV(d), x>>)
  <2>1. J \in Live!AnyInstr /\ Writes(J) = {d} /\ Reads(J) \subseteq Live!TouchedBy(x)
    BY <1>1, <1>5, HostTwo
  <2>. HIDE DEF J
  <2>2. Reads(J) \subseteq W /\ Writes(J) \cap W = {}
    BY <1>1, <1>5, <2>1
  <2>. QED
    BY <2>1, <2>2, FlowsOne DEF J
\* The address goes to va, and what follows reads it.
<1>6. ASSUME NEW base \in W, base \in Nat
      PROVE  LET J == SelectAddress(va, base)
             IN J \in Live!AnyInstr /\ Writes(J) = {va} /\ Reads(J) \subseteq W
  <2>1. "Add" \in Live!Opcodes /\ "Add" \notin No
    BY DEF Live!Opcodes
  <2>2. /\ RegV(base) \in Live!AnyOperand /\ Live!TouchedBy(RegV(base)) = {base}
        /\ RegP(21) \in Live!AnyOperand /\ Live!TouchedBy(RegP(21)) = {}
    BY <1>6, HostOperands
  <2>. DEFINE J == Instr("Add", <<RegV(va), RegV(base), RegP(21)>>)
  <2>3. J \in Live!AnyInstr /\ Writes(J) = {va} /\ Reads(J) \subseteq {base} \cup {}
    BY <1>4, <2>1, <2>2, HostThree
  <2>. HIDE DEF J
  <2>. QED
    BY <1>6, <2>3 DEF SelectAddress, J
<1>7. CASE I.kind = "Const"
  <2>1. SelectInst(I, pc, va) = SelectConst(d, I.imm)
    BY <1>7 DEF SelectInst, d
  <2>2. Defines(I) /\ SelectWrites(I, va) = {d}
    BY <1>7 DEF Defines, NeedsAddress, SelectWrites, d
  <2>. QED
    BY <1>1, <1>4, <2>1, <2>2, ConstFlows
<1>8. CASE I.kind = "ReadReg"
  <2>. DEFINE x == Mem(0, 8 * I.reg)
  <2>1. SelectInst(I, pc, va) = <<Instr("LdrX", <<RegV(d), x>>)>>
    BY <1>8 DEF SelectInst, d
  <2>2. Defines(I) /\ SelectWrites(I, va) = {d}
    BY <1>8 DEF Defines, NeedsAddress, SelectWrites, d
  <2>3. x \in Live!AnyOperand /\ Live!TouchedBy(x) = {}
    BY <1>4, HostOperands
  <2>4. "LdrX" \in Live!Opcodes /\ "LdrX" \notin No
    BY DEF Live!Opcodes
  <2>. HIDE DEF x, No
  <2>. QED
    BY <1>5, <2>1, <2>2, <2>3, <2>4
<1>9. CASE I.kind = "WriteReg"
  <2>. DEFINE x == Mem(0, 8 * I.reg)
              J == Instr("StrX", <<RegV(a), x>>)
  <2>1. SelectInst(I, pc, va) = <<J>>
    BY <1>9 DEF SelectInst, a
  <2>2. SelectWrites(I, va) = {}
    BY <1>9 DEF Defines, NeedsAddress, SelectWrites
  <2>3. x \in Live!AnyOperand /\ Live!TouchedBy(x) = {}
    BY <1>4, HostOperands
  <2>4. a \in Nat /\ a \in W
    BY <1>2, <1>9 DEF Selectable
  <2>5. "StrX" \in Live!Opcodes /\ "StrX" \in No
    BY DEF Live!Opcodes
  <2>6. J \in Live!AnyInstr /\ Writes(J) = {} /\ Reads(J) \subseteq {a} \cup {}
    BY <2>3, <2>4, <2>5, HostTwo
  <2>. HIDE DEF J
  <2>. QED
    BY <2>1, <2>2, <2>4, <2>6, FlowsOne
<1>10. CASE I.kind = "BinOp"
  <2>. DEFINE op == OpOfBinOp[I.what]
              J == Instr(op, <<RegV(d), RegV(a), RegV(b)>>)
  <2>1. SelectInst(I, pc, va) = <<J>>
    BY <1>10 DEF SelectInst, d, a, b
  <2>2. Defines(I) /\ SelectWrites(I, va) = {d}
    BY <1>10 DEF Defines, NeedsAddress, SelectWrites, d
  <2>3. I.what \in DOMAIN OpOfBinOp /\ Len(I.args) = 2
    BY <1>10 DEF Selectable
  <2>4. a \in Nat /\ a \in W /\ b \in Nat /\ b \in W
    BY <1>2, <1>3, <2>3
  <2>5. op \in Live!Opcodes /\ op \notin No
    BY <2>3 DEF Live!Opcodes, OpOfBinOp
  <2>. HIDE DEF op
  <2>6. /\ RegV(a) \in Live!AnyOperand /\ Live!TouchedBy(RegV(a)) = {a}
        /\ RegV(b) \in Live!AnyOperand /\ Live!TouchedBy(RegV(b)) = {b}
    BY <2>4, HostOperands
  <2>7. J \in Live!AnyInstr /\ Writes(J) = {d} /\ Reads(J) \subseteq {a} \cup {b}
    BY <1>1, <2>2, <2>5, <2>6, HostThree
  <2>. HIDE DEF J
  <2>. QED
    BY <1>1, <2>1, <2>2, <2>4, <2>7, FlowsOne
<1>11. CASE I.kind = "ICmp"
  <2>. DEFINE op == CsetOf[I.what]
              J == Instr("Cmp", <<RegV(a), RegV(b)>>)
              K == Instr(op, <<RegV(d)>>)
  <2>1. SelectInst(I, pc, va) = <<J, K>>
    BY <1>11 DEF SelectInst, d, a, b
  <2>2. Defines(I) /\ SelectWrites(I, va) = {d}
    BY <1>11 DEF Defines, NeedsAddress, SelectWrites, d
  <2>3. I.what \in DOMAIN CsetOf /\ Len(I.args) = 2
    BY <1>11 DEF Selectable
  <2>4. a \in Nat /\ a \in W /\ b \in Nat /\ b \in W
    BY <1>2, <1>3, <2>3
  <2>5. /\ "Cmp" \in Live!Opcodes /\ "Cmp" \in No
        /\ op \in Live!Opcodes /\ op \notin No
    BY <2>3 DEF Live!Opcodes, CsetOf
  <2>. HIDE DEF op
  <2>6. RegV(b) \in Live!AnyOperand /\ Live!TouchedBy(RegV(b)) = {b}
    BY <2>4, HostOperands
  <2>7. J \in Live!AnyInstr /\ Writes(J) = {} /\ Reads(J) \subseteq {a} \cup {b}
    BY <2>4, <2>5, <2>6, HostTwo
  <2>8. K \in Live!AnyInstr /\ Writes(K) = {d} /\ Reads(K) = {}
    BY <1>1, <2>2, <2>5, HostOne
  <2>. HIDE DEF J, K
  <2>9. /\ Reads(J) \subseteq W /\ Writes(J) \cap W = {}
        /\ Reads(K) \subseteq W \cup Writes(J) /\ Writes(K) \cap (W \cup Writes(J)) = {}
    BY <1>1, <2>2, <2>4, <2>7, <2>8
  <2>10. Flows(<<J, K>>, W) /\ Made(<<J, K>>) = Writes(J) \cup Writes(K)
    BY <2>7, <2>8, <2>9, FlowsTwo
  <2>. QED
    BY <2>1, <2>2, <2>7, <2>8, <2>10
<1>12. CASE I.kind \in {"ZExt", "SExt", "Trunc"}
  <2>1. PICK op \in {"Uxtw", "Sxtw", "Mov"} :
          SelectInst(I, pc, va) = <<Instr(op, <<RegV(d), RegV(a)>>)>>
    BY <1>12 DEF SelectInst, d, a
  <2>2. Defines(I) /\ SelectWrites(I, va) = {d}
    BY <1>12 DEF Defines, NeedsAddress, SelectWrites, d
  <2>3. a \in Nat /\ a \in W
    BY <1>2, <1>12 DEF Selectable
  <2>4. op \in Live!Opcodes /\ op \notin No
    BY DEF Live!Opcodes
  <2>5. RegV(a) \in Live!AnyOperand /\ Live!TouchedBy(RegV(a)) = {a}
    BY <2>3, HostOperands
  <2>. DEFINE x == RegV(a)
  <2>6. x \in Live!AnyOperand /\ Live!TouchedBy(x) \subseteq W
    BY <2>3, <2>5
  <2>7. SelectInst(I, pc, va) = <<Instr(op, <<RegV(d), x>>)>>
    BY <2>1
  <2>. HIDE DEF x, No
  <2>. QED
    BY <1>5, <2>2, <2>4, <2>6, <2>7
<1>13. CASE I.kind = "Load"
  <2>. DEFINE J == SelectAddress(va, a)
              x == Mem(va, I.imm)
  <2>1. PICK op \in {"LdrW", "LdrX"} :
          SelectInst(I, pc, va) = <<J, Instr(op, <<RegV(d), x>>)>>
    BY <1>13 DEF SelectInst, d, a
  <2>. DEFINE K == Instr(op, <<RegV(d), x>>)
  <2>2. Defines(I) /\ SelectWrites(I, va) = {d} \cup {va}
    BY <1>13 DEF Defines, NeedsAddress, SelectWrites, d
  <2>3. a \in Nat /\ a \in W
    BY <1>2, <1>13 DEF Selectable
  <2>4. op \in Live!Opcodes /\ op \notin No
    BY DEF Live!Opcodes
  <2>5. x \in Live!AnyOperand /\ Live!TouchedBy(x) \subseteq {va}
    BY <1>4, HostOperands
  <2>6. J \in Live!AnyInstr /\ Writes(J) = {va} /\ Reads(J) \subseteq W
    BY <1>6, <2>3
  <2>. HIDE DEF x
  <2>7. K \in Live!AnyInstr /\ Writes(K) = {d} /\ Reads(K) \subseteq Live!TouchedBy(x)
    BY <1>1, <2>2, <2>4, <2>5, HostTwo
  <2>8. SelectInst(I, pc, va) = <<J, K>>
    BY <2>1
  <2>. HIDE DEF J, K
  <2>9. /\ Writes(J) \cap W = {}
        /\ Reads(K) \subseteq W \cup Writes(J) /\ Writes(K) \cap (W \cup Writes(J)) = {}
    BY <1>1, <1>4, <2>2, <2>5, <2>6, <2>7
  <2>10. Flows(<<J, K>>, W) /\ Made(<<J, K>>) = Writes(J) \cup Writes(K)
    BY <2>6, <2>7, <2>9, FlowsTwo
  <2>. QED
    BY <2>2, <2>6, <2>7, <2>8, <2>10
<1>14. CASE I.kind = "Store"
  <2>. DEFINE J == SelectAddress(va, b)
              x == Mem(va, I.imm)
  <2>1. PICK op \in {"StrW", "StrX"} :
          SelectInst(I, pc, va) = <<J, Instr(op, <<RegV(a), x>>)>>
    BY <1>14 DEF SelectInst, a, b
  <2>. DEFINE K == Instr(op, <<RegV(a), x>>)
  <2>2. SelectWrites(I, va) = {va}
    BY <1>14 DEF Defines, NeedsAddress, SelectWrites
  <2>3. a \in Nat /\ a \in W /\ b \in Nat /\ b \in W
    BY <1>2, <1>3, <1>14 DEF Selectable
  <2>4. op \in Live!Opcodes /\ op \in No
    BY DEF Live!Opcodes
  <2>5. x \in Live!AnyOperand /\ Live!TouchedBy(x) \subseteq {va}
    BY <1>4, HostOperands
  <2>6. J \in Live!AnyInstr /\ Writes(J) = {va} /\ Reads(J) \subseteq W
    BY <1>6, <2>3
  <2>. HIDE DEF x
  <2>7. K \in Live!AnyInstr /\ Writes(K) = {} /\ Reads(K) \subseteq {a} \cup Live!TouchedBy(x)
    BY <2>3, <2>4, <2>5, HostTwo
  <2>8. SelectInst(I, pc, va) = <<J, K>>
    BY <2>1
  <2>. HIDE DEF J, K
  <2>9. /\ Writes(J) \cap W = {}
        /\ Reads(K) \subseteq W \cup Writes(J) /\ Writes(K) \cap (W \cup Writes(J)) = {}
    BY <1>4, <2>3, <2>5, <2>6, <2>7
  <2>10. Flows(<<J, K>>, W) /\ Made(<<J, K>>) = Writes(J) \cup Writes(K)
    BY <2>6, <2>7, <2>9, FlowsTwo
  <2>. QED
    BY <2>2, <2>6, <2>7, <2>8, <2>10
<1>15. CASE I.kind = "GetPC"
  <2>. DEFINE x == Imm(pc)
  <2>1. SelectInst(I, pc, va) = <<Instr("Mov", <<RegV(d), x>>)>>
    BY <1>15 DEF SelectInst, d
  <2>2. Defines(I) /\ SelectWrites(I, va) = {d}
    BY <1>15 DEF Defines, NeedsAddress, SelectWrites, d
  <2>3. x \in Live!AnyOperand /\ Live!TouchedBy(x) = {}
    BY HostOperands
  <2>4. "Mov" \in Live!Opcodes /\ "Mov" \notin No
    BY DEF Live!Opcodes
  <2>. HIDE DEF x, No
  <2>. QED
    BY <1>5, <2>1, <2>2, <2>3, <2>4
<1>. QED
  BY <1>7, <1>8, <1>9, <1>10, <1>11, <1>12, <1>13, <1>14, <1>15 DEF Selectable

-----------------------------------------------------------------------------
\* How far behind its definition a value is used.
LEMMA LiftedLength ==
  ASSUME NEW inst, NEW n
  PROVE  Len(LiftOp(inst, n)) <= 7
<1>. DEFINE Short(q) == Len(q) <= 7
<1>1. \A rd, v : \E w : WriteReg(rd, v) = <<>> \/ WriteReg(rd, v) = <<w>>
  BY DEF WriteReg
<1>2. /\ \A a, w : Short(<<a>> \o <<>>) /\ Short(<<a>> \o <<w>>)
      /\ \A a, b, w : Short(<<a, b>> \o <<>>) /\ Short(<<a, b>> \o <<w>>)
      /\ \A a, b, c, w : Short(<<a, b, c>> \o <<>>) /\ Short(<<a, b, c>> \o <<w>>)
  OBVIOUS
<1>3. \A a, b, c, d, e, w : /\ Short(<<a, b, c, d, e>> \o <<>>)
                            /\ Short(<<a, b, c, d, e>> \o <<w>>)
  OBVIOUS
<1>4. \A a, b, c, d, e, f, w : /\ Short(<<a, b, c, d, e, f>> \o <<>>)
                               /\ Short(<<a, b, c, d, e, f>> \o <<w>>)
  OBVIOUS
<1>5. Short(<<>>) /\ \A a, b, c : Short(<<a, b, c>>)
  OBVIOUS
<1>. HIDE DEF Short
<1>6. /\ \A a, rd, v : Short(<<a>> \o WriteReg(rd, v))
      /\ \A a, b, rd, v : Short(<<a, b>> \o WriteReg(rd, v))
      /\ \A a, b, c, rd, v : Short(<<a, b, c>> \o WriteReg(rd, v))
  BY <1>1, <1>2
<1>7. \A a, b, c, d, e, rd, v : Short(<<a, b, c, d, e>> \o WriteReg(rd, v))
  BY <1>1, <1>3
<1>8. \A a, b, c, d, e, f, rd, v : Short(<<a, b, c, d, e, f>> \o WriteReg(rd, v))
  BY <1>1, <1>4
<1>9. /\ Short(LiftImmediate(inst, n)) /\ Short(LiftRegister(inst, n))
      /\ Short(LiftLoadWord(inst, n)) /\ Short(LiftLoadDouble(inst, n))
      /\ Short(LiftAuipc(inst, n)) /\ Short(LiftJal(inst, n))
  BY <1>6 DEF LiftImmediate, LiftRegister, LiftLoadWord, LiftLoadDouble, LiftAuipc, LiftJal
<1>10. Short(LiftAddWord(inst, n)) /\ Short(LiftJalr(inst, n))
  BY <1>7, <1>8 DEF LiftAddWord, LiftJalr
<1>11. Short(LiftStore(inst, n)) /\ Short(LiftBranch(inst, n))
  BY <1>5 DEF LiftStore, LiftBranch
<1>12. Short(LiftOp(inst, n))
  BY <1>5, <1>9, <1>10, <1>11 DEF LiftOp
<1>. QED
  BY <1>12 DEF Short

\* No instruction of t uses a value of more than seven places before it.
Near(t) == \A j \in 1 .. Len(t) : \A v \in Uses(t[j]) : j <= v + 7

LEMMA NearConcat ==
  ASSUME NEW p, IsSequence(p), Near(p), NEW q, SSA(q, Len(p)), Len(q) <= 7
  PROVE  Near(p \o q)
<1>. DEFINE a == Len(p)
            b == Len(q)
            t == p \o q
<1>1. /\ a \in Nat /\ b \in Nat /\ Len(t) = a + b
      /\ \A i \in 1 .. a : t[i] = p[i]
      /\ \A i \in 1 .. b : t[a + i] = q[i]
  BY ElementOfConcat DEF SSA
<1>. HIDE DEF t
<1>2. ASSUME NEW j \in 1 .. Len(t), NEW v \in Uses(t[j])
      PROVE  j <= v + 7
  <2>1. CASE j <= a
    <3>1. j \in 1 .. a /\ t[j] = p[j]
      BY <1>1, <2>1
    <3>. QED
      BY <1>2, <3>1 DEF Near
  <2>2. CASE ~ (j <= a)
    <3>1. PICK i \in 1 .. b : j = a + i
      <4>1. j - a \in 1 .. b /\ j = a + (j - a)
        BY <1>1, <2>2
      <4>. QED
        BY <4>1
    <3>2. v \in Uses(q[i])
      BY <1>1, <1>2, <3>1
    <3>a. /\ q[i].dest = IF Defines(q[i]) THEN Len(p) + i - 1 ELSE NoValue
          /\ \A u \in Uses(q[i]) :
               \E c \in 1 .. i - 1 : Defines(q[c]) /\ u = Len(p) + c - 1
      BY DEF SSA
    <3>b. \E c \in 1 .. i - 1 : Defines(q[c]) /\ v = Len(p) + c - 1
      BY <3>2, <3>a
    <3>3. PICK c \in 1 .. i - 1 : v = a + c - 1
      BY <3>b
    <3>4. i <= b /\ i \in Nat /\ c \in Nat /\ 1 <= c
      BY <1>1, <3>1, <3>3
    <3>5. i <= 7
      BY <1>1, <3>4
    <3>. HIDE DEF a
    <3>. QED
      BY <1>1, <3>1, <3>3, <3>4, <3>5
  <2>. HIDE DEF a
  <2>. QED
    BY <1>1, <2>1, <2>2
<1>3. Near(t)
  BY <1>2 DEF Near
<1>. QED
  BY <1>3 DEF t

LEMMA BlockNear ==
  ASSUME NEW b, IsSequence(b.insts)
  PROVE  Near(Lift(b).insts)
<1>. DEFINE insts == b.insts
            K == Len(insts)
<1>1. PICK I : insts \in Seq(I)
  BY DEF IsSequence
<1>2. PICK l : LiftFold!IsRun(l, <<>>, insts) /\ LiftFold!Fold(<<>>, insts) = l[K]
  BY <1>1, LiftFold!FoldRun
<1>3. K \in Nat
  BY <1>1
<1>. DEFINE Good(t) == SSA(t, 0) /\ Near(t)
            T == {i \in Nat : i <= K => Good(l[i])}
<1>4. 0 \in T
  <2>1. l[0] = <<>>
    BY <1>2 DEF LiftFold!IsRun
  <2>2. SSA(<<>>, 0) /\ Near(<<>>)
    BY SSATuples DEF Near
  <2>. QED
    BY <2>1, <2>2
<1>5. ASSUME NEW i \in Nat, i \in T, i + 1 <= K
      PROVE  Good(l[i + 1])
  <2>. DEFINE p == l[i]
              q == LiftOp(insts[i + 1], Len(p))
  <2>1. i + 1 \in 1 .. K /\ (i + 1) - 1 = i
    BY <1>3, <1>5
  <2>2. l[i + 1] = p \o q
    BY <1>2, <2>1 DEF LiftFold!IsRun, LiftInst
  <2>3. SSA(p, 0) /\ Near(p)
    BY <1>3, <1>5
  <2>4. IsSequence(p) /\ Len(p) \in Nat
    BY <2>3 DEF SSA, IsSequence
  <2>5. SSA(q, Len(p)) /\ Len(q) <= 7
    BY <2>4, LiftedSSA, LiftedLength
  <2>6. 0 + Len(p) = Len(p)
    BY <2>4
  <2>. HIDE DEF p, q
  <2>7. SSA(p \o q, 0)
    BY <2>3, <2>5, <2>6, SSAConcat
  <2>8. Near(p \o q)
    BY <2>3, <2>4, <2>5, NearConcat
  <2>. QED
    BY <2>2, <2>7, <2>8
<1>. HIDE DEF Good
<1>6. \A i \in Nat : i \in T => i + 1 \in T
  <2>1. ASSUME NEW i \in Nat, i \in T
        PROVE  i + 1 \in T
    <3>1. i + 1 <= K => Good(l[i + 1])
      BY <1>5, <2>1
    <3>2. i + 1 \in Nat
      OBVIOUS
    <3>. QED
      BY <3>1, <3>2
  <2>. QED
    BY <2>1
<1>7. Nat \subseteq T
  <2>. HIDE DEF T
  <2>. QED
    BY <1>4, <1>6, NatSetInduction
<1>8. Good(l[K])
  BY <1>3, <1>7
<1>9. Lift(b).insts = l[K]
  BY <1>2, LiftLoop DEF Lift, insts
<1>. QED
  BY <1>8, <1>9 DEF Good

-----------------------------------------------------------------------------
\* The host instructions that select() makes.
Coded(J) ==
  \/ \E op \in {"Mov", "Sxtw", "Uxtw"}, d, v \in Nat : J = Instr(op, <<RegV(d), RegV(v)>>)
  \/ \E op \in {"Mov", "MovZ"}, d \in Nat, n \in Int : J = Instr(op, <<RegV(d), Imm(n)>>)
  \/ \E d \in Nat, n, l \in Int : J = Instr("MovK", <<RegV(d), Imm(n), Imm(l)>>)
  \/ \E o \in DOMAIN OpOfBinOp, d, v, w \in Nat :
       J = Instr(OpOfBinOp[o], <<RegV(d), RegV(v), RegV(w)>>)
  \/ \E d, v \in Nat : J = SelectAddress(d, v)
  \/ \E v, w \in Nat : J = Instr("Cmp", <<RegV(v), RegV(w)>>)
  \/ \E o \in DOMAIN CsetOf, d \in Nat : J = Instr(CsetOf[o], <<RegV(d)>>)
  \/ \E op \in {"LdrX", "LdrW", "StrX", "StrW"}, d, v \in Nat, n \in Int :
       J = Instr(op, <<RegV(d), Mem(v, n)>>)

AllCoded(q) == \A p \in 1 .. Len(q) : Coded(q[p])

LEMMA CodedOne ==
  ASSUME NEW J, Coded(J)
  PROVE  AllCoded(<<J>>)
<1>1. Len(<<J>>) = 1 /\ <<J>>[1] = J
  OBVIOUS
<1>2. \A p \in 1 .. 1 : p = 1
  OBVIOUS
<1>. DEFINE q == <<J>>
<1>. HIDE DEF q
<1>3. Len(q) = 1 /\ q[1] = J
  BY <1>1 DEF q
<1>4. AllCoded(q)
  BY <1>2, <1>3 DEF AllCoded
<1>. QED
  BY <1>4 DEF q

LEMMA CodedTwo ==
  ASSUME NEW J, Coded(J), NEW K, Coded(K)
  PROVE  AllCoded(<<J, K>>)
<1>1. Len(<<J, K>>) = 2 /\ <<J, K>>[1] = J /\ <<J, K>>[2] = K
  OBVIOUS
<1>2. \A p \in 1 .. 2 : p = 1 \/ p = 2
  OBVIOUS
<1>. DEFINE q == <<J, K>>
<1>. HIDE DEF q
<1>3. Len(q) = 2 /\ q[1] = J /\ q[2] = K
  BY <1>1 DEF q
<1>4. AllCoded(q)
  BY <1>2, <1>3 DEF AllCoded
<1>. QED
  BY <1>4 DEF q

LEMMA CodedConcat ==
  ASSUME NEW p, IsSequence(p), AllCoded(p), NEW q, IsSequence(q), AllCoded(q)
  PROVE  AllCoded(p \o q)
<1>. DEFINE m == Len(p)
            n == Len(q)
            s == p \o q
<1>1. /\ m \in Nat /\ n \in Nat /\ Len(s) = m + n
      /\ \A i \in 1 .. m : s[i] = p[i]
      /\ \A i \in 1 .. n : s[m + i] = q[i]
  BY ElementOfConcat DEF IsSequence
<1>. HIDE DEF s
<1>2. ASSUME NEW i \in 1 .. m + n
      PROVE  Coded(s[i])
  <2>1. CASE i <= m
    BY <1>1, <1>2, <2>1 DEF AllCoded
  <2>2. CASE ~ (i <= m)
    <3>1. i - m \in 1 .. n /\ m + (i - m) = i
      BY <1>1, <1>2, <2>2
    <3>2. s[i] = q[i - m]
      BY <1>1, <3>1
    <3>. QED
      BY <3>1, <3>2 DEF AllCoded
  <2>. QED
    BY <2>1, <2>2
<1>3. AllCoded(s)
  BY <1>1, <1>2 DEF AllCoded
<1>. QED
  BY <1>3 DEF s

\* A word is four chunks.
LEMMA Chunks ==
  /\ ChunkWidth \in Nat \ {0} /\ Width = 4 * ChunkWidth
  /\ 2 ^ ChunkWidth \in Nat \ {0}
<1>1. ChunkWidth \in Nat \ {0} /\ Width = 4 * ChunkWidth
  BY WidthAssumption DEF ChunkWidth
<1>. QED
  BY <1>1, Powers

LEMMA ConstCoded ==
  ASSUME NEW v \in Nat, NEW c \in Int
  PROVE  AllCoded(SelectConst(v, c))
<1>. DEFINE z == <<Instr("MovZ", <<RegV(v), Imm(Chunk(c, 0))>>)>>
            s(i) == SelectChunk(v, c, i)
<1>1. ASSUME NEW i \in 0 .. 3
      PROVE  Chunk(c, i) \in Int /\ i * ChunkWidth \in Int
  <2>. DEFINE a == 2 ^ (i * ChunkWidth)
              b == 2 ^ ChunkWidth
  <2>1. i * ChunkWidth \in Nat
    BY Chunks
  <2>2. a \in Nat \ {0} /\ b \in Nat \ {0}
    BY <2>1, Chunks, Powers
  <2>3. Chunk(c, i) = (c \div a) % b
    BY DEF Chunk
  <2>. HIDE DEF a, b
  <2>. QED
    BY <2>1, <2>2, <2>3
<1>2. ASSUME NEW i \in 0 .. 3
      PROVE  IsSequence(s(i)) /\ AllCoded(s(i))
  <2>. DEFINE n == Chunk(c, i)
              l == i * ChunkWidth
  <2>1. n \in Int /\ l \in Int
    BY <1>1
  <2>2. s(i) = IF n = 0 THEN <<>> ELSE <<Instr("MovK", <<RegV(v), Imm(n), Imm(l)>>)>>
    BY DEF SelectChunk
  <2>. HIDE DEF n, l, s
  <2>3. Coded(Instr("MovK", <<RegV(v), Imm(n), Imm(l)>>))
    BY <2>1 DEF Coded
  <2>4. AllCoded(<<>>)
    BY DEF AllCoded
  <2>. QED
    BY <2>2, <2>3, <2>4, CodedOne, TuplesAreSequences
<1>3. CASE c \div 2 ^ ChunkWidth = 0
  <2>1. SelectConst(v, c) = <<Instr("Mov", <<RegV(v), Imm(c)>>)>>
    BY <1>3 DEF SelectConst
  <2>2. Coded(Instr("Mov", <<RegV(v), Imm(c)>>))
    BY DEF Coded
  <2>. QED
    BY <2>1, <2>2, CodedOne
<1>4. CASE c \div 2 ^ ChunkWidth # 0
  <2>1. SelectConst(v, c) = z \o s(1) \o s(2) \o s(3)
    BY <1>4 DEF SelectConst
  <2>2. IsSequence(z) /\ AllCoded(z)
    <3>. DEFINE n == Chunk(c, 0)
    <3>1. n \in Int
      BY <1>1
    <3>. HIDE DEF n
    <3>2. Coded(Instr("MovZ", <<RegV(v), Imm(n)>>))
      BY <3>1 DEF Coded
    <3>. QED
      BY <3>2, CodedOne, TuplesAreSequences DEF n
  <2>3. \A i \in {1, 2, 3} : IsSequence(s(i)) /\ AllCoded(s(i))
    BY <1>2
  <2>. HIDE DEF z, s
  <2>4. IsSequence(z \o s(1)) /\ AllCoded(z \o s(1))
    BY <2>2, <2>3, CodedConcat, ElementOfConcat
  <2>5. IsSequence(z \o s(1) \o s(2)) /\ AllCoded(z \o s(1) \o s(2))
    BY <2>3, <2>4, CodedConcat, ElementOfConcat
  <2>6. AllCoded(z \o s(1) \o s(2) \o s(3))
    BY <2>3, <2>5, CodedConcat
  <2>. QED
    BY <2>1, <2>6
<1>. QED
  BY <1>3, <1>4

LEMMA SelectCoded ==
  ASSUME NEW I, Selectable(I), NEW va, NEW W, Fresh(I, va, W), NEW pc \in Int
  PROVE  AllCoded(SelectInst(I, pc, va))
<1>. DEFINE d == VRegOf(I.dest)
            a == VRegOf(I.args[1])
            b == VRegOf(I.args[2])
<1>1. Defines(I) => d \in Nat
  BY DEF Fresh, VRegOf
<1>2. Len(I.args) \in {1, 2} => a \in Nat
  <2>1. Len(I.args) \in {1, 2} => I.args[1] \in Uses(I)
    BY DEF Uses
  <2>. QED
    BY <2>1 DEF Fresh, VRegOf
<1>3. Len(I.args) = 2 => b \in Nat
  <2>1. Len(I.args) = 2 => I.args[2] \in Uses(I)
    BY DEF Uses
  <2>. QED
    BY <2>1 DEF Fresh, VRegOf
<1>4. va \in Nat /\ I.imm \in Int /\ 8 * I.reg \in Int
  BY DEF Fresh, Selectable
<1>. HIDE DEF d, a, b
<1>5. CASE I.kind = "Const"
  <2>1. SelectInst(I, pc, va) = SelectConst(d, I.imm)
    BY <1>5 DEF SelectInst, d
  <2>2. d \in Nat
    BY <1>1, <1>5 DEF Defines
  <2>. QED
    BY <1>4, <2>1, <2>2, ConstCoded
<1>6. CASE I.kind = "ReadReg"
  <2>. DEFINE n == 8 * I.reg
  <2>1. SelectInst(I, pc, va) = <<Instr("LdrX", <<RegV(d), Mem(0, n)>>)>>
    BY <1>6 DEF SelectInst, d
  <2>2. d \in Nat /\ n \in Int
    BY <1>1, <1>4, <1>6 DEF Defines
  <2>. HIDE DEF n
  <2>3. Coded(Instr("LdrX", <<RegV(d), Mem(0, n)>>))
    BY <2>2 DEF Coded
  <2>. QED
    BY <2>1, <2>3, CodedOne
<1>7. CASE I.kind = "WriteReg"
  <2>. DEFINE n == 8 * I.reg
  <2>1. SelectInst(I, pc, va) = <<Instr("StrX", <<RegV(a), Mem(0, n)>>)>>
    BY <1>7 DEF SelectInst, a
  <2>2. a \in Nat /\ n \in Int
    BY <1>2, <1>4, <1>7 DEF Selectable
  <2>. HIDE DEF n
  <2>3. Coded(Instr("StrX", <<RegV(a), Mem(0, n)>>))
    BY <2>2 DEF Coded
  <2>. QED
    BY <2>1, <2>3, CodedOne
<1>8. CASE I.kind = "BinOp"
  <2>. DEFINE o == I.what
  <2>1. SelectInst(I, pc, va) = <<Instr(OpOfBinOp[o], <<RegV(d), RegV(a), RegV(b)>>)>>
    BY <1>8 DEF SelectInst, d, a, b
  <2>2. o \in DOMAIN OpOfBinOp /\ d \in Nat /\ a \in Nat /\ b \in Nat
    BY <1>1, <1>2, <1>3, <1>8 DEF Selectable, Defines
  <2>. HIDE DEF o
  <2>3. Coded(Instr(OpOfBinOp[o], <<RegV(d), RegV(a), RegV(b)>>))
    BY <2>2 DEF Coded
  <2>. QED
    BY <2>1, <2>3, CodedOne
<1>9. CASE I.kind = "ICmp"
  <2>. DEFINE o == I.what
  <2>1. SelectInst(I, pc, va)
          = <<Instr("Cmp", <<RegV(a), RegV(b)>>), Instr(CsetOf[o], <<RegV(d)>>)>>
    BY <1>9 DEF SelectInst, d, a, b
  <2>2. o \in DOMAIN CsetOf /\ d \in Nat /\ a \in Nat /\ b \in Nat
    BY <1>1, <1>2, <1>3, <1>9 DEF Selectable, Defines
  <2>. HIDE DEF o
  <2>3. Coded(Instr("Cmp", <<RegV(a), RegV(b)>>))
    BY <2>2 DEF Coded
  <2>4. Coded(Instr(CsetOf[o], <<RegV(d)>>))
    BY <2>2 DEF Coded
  <2>. QED
    BY <2>1, <2>3, <2>4, CodedTwo
<1>10. CASE I.kind \in {"ZExt", "SExt", "Trunc"}
  <2>1. PICK op \in {"Mov", "Sxtw", "Uxtw"} :
          SelectInst(I, pc, va) = <<Instr(op, <<RegV(d), RegV(a)>>)>>
    BY <1>10 DEF SelectInst, d, a
  <2>2. d \in Nat /\ a \in Nat
    BY <1>1, <1>2, <1>10 DEF Selectable, Defines
  <2>3. Coded(Instr(op, <<RegV(d), RegV(a)>>))
    BY <2>2 DEF Coded
  <2>. QED
    BY <2>1, <2>3, CodedOne
<1>11. CASE I.kind = "Load"
  <2>. DEFINE n == I.imm
  <2>1. PICK op \in {"LdrX", "LdrW", "StrX", "StrW"} :
          SelectInst(I, pc, va) = <<SelectAddress(va, a), Instr(op, <<RegV(d), Mem(va, n)>>)>>
    BY <1>11 DEF SelectInst, d, a
  <2>2. d \in Nat /\ a \in Nat /\ va \in Nat /\ n \in Int
    BY <1>1, <1>2, <1>4, <1>11 DEF Selectable, Defines
  <2>. HIDE DEF n
  <2>3. Coded(SelectAddress(va, a))
    BY <2>2 DEF Coded
  <2>4. Coded(Instr(op, <<RegV(d), Mem(va, n)>>))
    BY <2>2 DEF Coded
  <2>. QED
    BY <2>1, <2>3, <2>4, CodedTwo
<1>12. CASE I.kind = "Store"
  <2>. DEFINE n == I.imm
  <2>1. PICK op \in {"LdrX", "LdrW", "StrX", "StrW"} :
          SelectInst(I, pc, va) = <<SelectAddress(va, b), Instr(op, <<RegV(a), Mem(va, n)>>)>>
    BY <1>12 DEF SelectInst, a, b
  <2>2. a \in Nat /\ b \in Nat /\ va \in Nat /\ n \in Int
    BY <1>2, <1>3, <1>4, <1>12 DEF Selectable
  <2>. HIDE DEF n
  <2>3. Coded(SelectAddress(va, b))
    BY <2>2 DEF Coded
  <2>4. Coded(Instr(op, <<RegV(a), Mem(va, n)>>))
    BY <2>2 DEF Coded
  <2>. QED
    BY <2>1, <2>3, <2>4, CodedTwo
<1>13. CASE I.kind = "GetPC"
  <2>1. SelectInst(I, pc, va) = <<Instr("Mov", <<RegV(d), Imm(pc)>>)>>
    BY <1>13 DEF SelectInst, d
  <2>2. d \in Nat
    BY <1>1, <1>13 DEF Defines
  <2>3. Coded(Instr("Mov", <<RegV(d), Imm(pc)>>))
    BY <2>2 DEF Coded
  <2>. QED
    BY <2>1, <2>3, CodedOne
<1>. QED
  BY <1>5, <1>6, <1>7, <1>8, <1>9, <1>10, <1>11, <1>12, <1>13 DEF Selectable

-----------------------------------------------------------------------------
\* select() takes the instructions of a block in their order.
SelectFold == INSTANCE SequenceFacts WITH Step <- SelectStep

LEMMA SelectLoop ==
  ASSUME NEW s, NEW t
  PROVE  FoldLeft(SelectStep, s, t) = SelectFold!Fold(s, t)
  BY DEF SelectFold!Fold, SelectFold!FoldLeft, SelectFold!MapThenFoldSet, SelectFold!Max,
         FoldLeft, MapThenFoldSet, Max

SoFar(pc, h, z) == [guest_pc |-> pc, instrs |-> h, size |-> z]

LEMMA SelectOne ==
  ASSUME NEW pc, NEW h, NEW z, NEW I
  PROVE  SelectStep(SoFar(pc, h, z), I)
           = SoFar(pc, h \o SelectInst(I, pc, z + 1), IF NeedsAddress(I) THEN z + 1 ELSE z)
<1>. DEFINE q == SelectInst(I, pc, z + 1)
            out == SoFar(pc, h, z)
<1>1. out.guest_pc = pc /\ out.instrs = h /\ out.size = z
  BY DEF SoFar
<1>2. SelectInst(I, out.guest_pc, out.size + 1) = q
  BY <1>1
<1>3. SelectStep(out, I) = [out EXCEPT !.instrs = @ \o q,
                                       !.size   = IF NeedsAddress(I) THEN @ + 1 ELSE @]
  BY <1>2 DEF SelectStep
<1>. HIDE DEF q
<1>4. SelectStep(out, I) = SoFar(pc, h \o q, IF NeedsAddress(I) THEN z + 1 ELSE z)
  BY <1>3 DEF SoFar
<1>. QED
  BY <1>4 DEF q

\* The virtual registers an instruction of the host takes or sets.
Touches(I) == Reads(I) \cup Writes(I)

\* Each instruction of h is made of one of the first i of t, f names it, and
\* they keep their order.  A value is touched no more than six places behind
\* the instruction that defines it, an address in the code of one alone, which
\* touches no other.
Grouped(h, f, t, i) ==
  /\ \A p \in 1 .. Len(h) : f[p] \in 1 .. i
  /\ \A p, q \in 1 .. Len(h) : p <= q => f[p] <= f[q]
  /\ \A p \in 1 .. Len(h) : \A v \in Touches(h[p]) :
       v <= Len(t) => f[p] <= v + 6 /\ v <= f[p]
  /\ \A p, q \in 1 .. Len(h) : \A v \in Touches(h[p]), w \in Touches(h[q]) :
       v > Len(t) /\ w > Len(t) => (v = w <=> f[p] = f[q])

\* The host code of the first i instructions of t, with virtual registers up to
\* z: a value has the number of its position, an address one above all of them.
Selected(h, z, t, i) ==
  /\ z \in Nat /\ Len(t) + 1 <= z /\ z <= Len(t) + 1 + i
  /\ AllCoded(h)
  /\ Flows(h, {})
  /\ Made(h) = {j \in 1 .. i : Defines(t[j])} \cup (Len(t) + 2 .. z)
  /\ \E f : Grouped(h, f, t, i)

\* The next instruction takes what is written, and sets what is not.
LEMMA NextFresh ==
  ASSUME NEW t, SSA(t, 0), NEW i \in Nat, i + 1 <= Len(t),
         NEW h, NEW z, Selected(h, z, t, i)
  PROVE  /\ Defines(t[i + 1]) => t[i + 1].dest = i
         /\ Fresh(t[i + 1], z + 1, Made(h))
<1>. DEFINE I == t[i + 1]
            W == Made(h)
            N == Len(t)
            V == {j \in 1 .. i : Defines(t[j])}
<1>1. N \in Nat /\ i + 1 \in 1 .. N
  BY DEF SSA, IsSequence
<1>2. z \in Nat /\ N + 1 <= z /\ z <= N + 1 + i /\ W = V \cup (N + 2 .. z)
  BY DEF Selected
<1>3. /\ Defines(I) => I.dest = i
      /\ \A v \in Uses(I) : \E j \in 1 .. i : Defines(t[j]) /\ v = j - 1
  <2>1. /\ I.dest = IF Defines(I) THEN 0 + (i + 1) - 1 ELSE NoValue
        /\ \A v \in Uses(I) : \E j \in 1 .. (i + 1) - 1 : Defines(t[j]) /\ v = 0 + j - 1
    BY <1>1 DEF SSA
  <2>2. 0 + (i + 1) - 1 = i /\ (i + 1) - 1 = i /\ \A j \in Int : 0 + j - 1 = j - 1
    OBVIOUS
  <2>. HIDE DEF I
  <2>3. Defines(I) => I.dest = i
    BY <2>1, <2>2
  <2>4. ASSUME NEW v \in Uses(I)
        PROVE  \E j \in 1 .. i : Defines(t[j]) /\ v = j - 1
    <3>1. PICK j \in 1 .. i : Defines(t[j]) /\ v = 0 + j - 1
      BY <2>1, <2>2
    <3>. QED
      BY <3>1
  <2>. QED
    BY <2>3, <2>4
<1>. HIDE DEF I, N
<1>4. Fresh(I, z + 1, W)
  <2>1. ASSUME NEW v \in Uses(I)
        PROVE  v \in Nat /\ VRegOf(v) \in W
    <3>1. PICK j \in 1 .. i : Defines(t[j]) /\ v = j - 1
      BY <1>3
    <3>2. v \in Nat /\ v + 1 = j
      BY <3>1
    <3>. QED
      BY <1>2, <3>1, <3>2 DEF VRegOf
  <2>2. i + 1 \notin V /\ i + 1 \notin N + 2 .. z /\ z + 1 # i + 1
    BY <1>1, <1>2
  <2>3. z + 1 \notin V /\ z + 1 \notin N + 2 .. z
    BY <1>1, <1>2
  <2>4. Defines(I) => I.dest \in Nat /\ VRegOf(I.dest) \notin W /\ z + 1 # VRegOf(I.dest)
    BY <1>2, <1>3, <2>2 DEF VRegOf
  <2>. QED
    BY <1>2, <2>1, <2>3, <2>4 DEF Fresh
<1>. QED
  BY <1>3, <1>4 DEF I

\* What the code of an instruction touches is what it takes and what it sets.
LEMMA SelectTouches ==
  ASSUME NEW I, Selectable(I), NEW va, NEW W, Fresh(I, va, W), NEW pc \in Int
  PROVE  \A p \in 1 .. Len(SelectInst(I, pc, va)) :
           Touches(SelectInst(I, pc, va)[p])
             \subseteq {VRegOf(v) : v \in Uses(I)} \cup SelectWrites(I, va)
<1>. DEFINE q == SelectInst(I, pc, va)
            X == {VRegOf(v) : v \in Uses(I)}
<1>1. Fresh(I, va, X)
  <2>1. X \subseteq W
    BY DEF Fresh
  <2>. QED
    BY <2>1 DEF Fresh
<1>2. Flows(q, X) /\ Made(q) = SelectWrites(I, va)
  BY <1>1, SelectFlows
<1>. HIDE DEF q, X
<1>3. Len(q) \in Nat
  <2>1. q \in Seq(Live!AnyInstr)
    BY <1>2 DEF Flows
  <2>. QED
    BY <2>1
<1>4. ASSUME NEW p \in 1 .. Len(q)
      PROVE  Touches(q[p]) \subseteq X \cup Made(q)
  <2>1. Writes(q[p]) \subseteq Made(q)
    BY <1>4 DEF Made, Written
  <2>2. Reads(q[p]) \subseteq X \cup Written(q, p - 1)
    BY <1>2, <1>4 DEF Flows
  <2>3. Written(q, p - 1) \subseteq Made(q)
    <3>1. \A j \in 1 .. p - 1 : j \in 1 .. Len(q)
      BY <1>3, <1>4
    <3>. QED
      BY <3>1 DEF Made, Written
  <2>. QED
    BY <2>1, <2>2, <2>3 DEF Touches
<1>. QED
  BY <1>2, <1>4 DEF q, X

\* What written code touches has been written.
LEMMA TouchesMade ==
  ASSUME NEW h, Flows(h, {}), NEW p \in 1 .. Len(h)
  PROVE  Touches(h[p]) \subseteq Made(h)
<1>1. Len(h) \in Nat
  <2>1. h \in Seq(Live!AnyInstr)
    BY DEF Flows
  <2>. QED
    BY <2>1
<1>2. Writes(h[p]) \subseteq Made(h)
  BY DEF Made, Written
<1>3. Reads(h[p]) \subseteq Written(h, p - 1)
  BY DEF Flows
<1>4. Written(h, p - 1) \subseteq Made(h)
  <2>1. \A j \in 1 .. p - 1 : j \in 1 .. Len(h)
    BY <1>1
  <2>. QED
    BY <2>1 DEF Made, Written
<1>. QED
  BY <1>2, <1>3, <1>4 DEF Touches

\* The code of one more instruction: all of it belongs to that one.
LEMMA GroupedMore ==
  ASSUME NEW t, Len(t) \in Nat, NEW i \in Nat, i + 1 <= Len(t),
         NEW z \in Nat, Len(t) + 1 <= z,
         NEW h, IsSequence(h), NEW f, Grouped(h, f, t, i),
         \A p \in 1 .. Len(h) : \A v \in Touches(h[p]) : v \in Nat /\ v <= z,
         NEW q, IsSequence(q),
         \A p \in 1 .. Len(q) : \A v \in Touches(q[p]) :
           v \in Nat /\ (v = z + 1 \/ (v <= i + 1 /\ i + 1 <= v + 6))
  PROVE  \E g : Grouped(h \o q, g, t, i + 1)
<1>. DEFINE m == Len(h)
            n == Len(q)
            s == h \o q
            N == Len(t)
            g == [p \in 1 .. m + n |-> IF p <= m THEN f[p] ELSE i + 1]
<1>1. /\ m \in Nat /\ n \in Nat /\ Len(s) = m + n
      /\ \A p \in 1 .. m : s[p] = h[p]
      /\ \A p \in 1 .. n : s[m + p] = q[p]
  BY ElementOfConcat DEF IsSequence
<1>2. /\ \A p \in 1 .. m : f[p] \in 1 .. i
      /\ \A p, r \in 1 .. m : p <= r => f[p] <= f[r]
      /\ \A p \in 1 .. m : \A v \in Touches(h[p]) : v <= N => f[p] <= v + 6 /\ v <= f[p]
      /\ \A p, r \in 1 .. m : \A v \in Touches(h[p]), w \in Touches(h[r]) :
           v > N /\ w > N => (v = w <=> f[p] = f[r])
  BY DEF Grouped
<1>3. N \in Nat /\ i + 1 <= N /\ N + 1 <= z
  OBVIOUS
<1>4. \A p \in 1 .. m : \A v \in Touches(h[p]) : v \in Nat /\ v <= z
  OBVIOUS
<1>5. \A p \in 1 .. n : \A v \in Touches(q[p]) :
        v \in Nat /\ (v = z + 1 \/ (v <= i + 1 /\ i + 1 <= v + 6))
  OBVIOUS
<1>. HIDE DEF s, N
<1>6. \A p \in 1 .. m + n : \/ p \in 1 .. m /\ s[p] = h[p] /\ g[p] = f[p] /\ f[p] \in 1 .. i
                            \/ ~ (p <= m) /\ p - m \in 1 .. n /\ s[p] = q[p - m] /\ g[p] = i + 1
  <2>1. ASSUME NEW p \in 1 .. m + n, p <= m
        PROVE  p \in 1 .. m /\ s[p] = h[p] /\ g[p] = f[p] /\ f[p] \in 1 .. i
    BY <1>1, <1>2, <2>1
  <2>2. ASSUME NEW p \in 1 .. m + n, ~ (p <= m)
        PROVE  p - m \in 1 .. n /\ s[p] = q[p - m] /\ g[p] = i + 1
    <3>1. p - m \in 1 .. n /\ m + (p - m) = p
      BY <1>1, <2>2
    <3>. QED
      BY <1>1, <2>2, <3>1
  <2>. QED
    BY <2>1, <2>2
<1>. HIDE DEF m, n, g
<1>7. \A p \in 1 .. m + n : g[p] \in 1 .. i + 1
  BY <1>6
<1>8. ASSUME NEW p \in 1 .. m + n, NEW r \in 1 .. m + n, p <= r
      PROVE  g[p] <= g[r]
  <2>1. CASE r \in 1 .. m /\ g[r] = f[r]
    <3>1. p \in 1 .. m /\ g[p] = f[p]
      BY <1>1, <1>6, <1>8, <2>1
    <3>. QED
      BY <1>2, <1>8, <2>1, <3>1
  <2>2. CASE g[r] = i + 1
    BY <1>7, <2>2
  <2>. QED
    BY <1>6, <2>1, <2>2
<1>9. ASSUME NEW p \in 1 .. m + n, NEW v \in Touches(s[p]), v <= N
      PROVE  g[p] <= v + 6 /\ v <= g[p]
  <2>1. CASE p \in 1 .. m /\ s[p] = h[p] /\ g[p] = f[p]
    BY <1>2, <1>9, <2>1
  <2>2. CASE p - m \in 1 .. n /\ s[p] = q[p - m] /\ g[p] = i + 1
    <3>1. v \in Nat /\ (v = z + 1 \/ (v <= i + 1 /\ i + 1 <= v + 6))
      BY <1>5, <1>9, <2>2
    <3>. QED
      BY <1>3, <1>9, <2>2, <3>1
  <2>. QED
    BY <1>6, <2>1, <2>2
<1>10. ASSUME NEW p \in 1 .. m + n, NEW v \in Touches(s[p]), v > N
       PROVE  \/ p \in 1 .. m /\ s[p] = h[p] /\ g[p] = f[p] /\ f[p] \in 1 .. i /\ v \in Nat /\ v <= z
              \/ g[p] = i + 1 /\ v = z + 1
  <2>1. CASE p \in 1 .. m /\ s[p] = h[p] /\ g[p] = f[p] /\ f[p] \in 1 .. i
    <3>1. v \in Nat /\ v <= z
      BY <1>4, <1>10, <2>1
    <3>. QED
      BY <2>1, <3>1
  <2>2. CASE p - m \in 1 .. n /\ s[p] = q[p - m] /\ g[p] = i + 1
    <3>1. v \in Nat /\ (v = z + 1 \/ (v <= i + 1 /\ i + 1 <= v + 6))
      BY <1>5, <1>10, <2>2
    <3>. QED
      BY <1>3, <1>10, <2>2, <3>1
  <2>. QED
    BY <1>6, <2>1, <2>2
<1>11. ASSUME NEW p \in 1 .. m + n, NEW r \in 1 .. m + n,
              NEW v \in Touches(s[p]), NEW w \in Touches(s[r]), v > N, w > N
       PROVE  v = w <=> g[p] = g[r]
  <2>. DEFINE Old(x, y) == x \in 1 .. m /\ s[x] = h[x] /\ g[x] = f[x] /\ f[x] \in 1 .. i
                           /\ y \in Nat /\ y <= z
              Next1(x, y) == g[x] = i + 1 /\ y = z + 1
  <2>1. (Old(p, v) \/ Next1(p, v)) /\ (Old(r, w) \/ Next1(r, w))
    BY <1>10, <1>11
  <2>2. CASE Old(p, v) /\ Old(r, w)
    BY <1>2, <1>11, <2>2
  <2>3. CASE Old(p, v) /\ Next1(r, w)
    BY <2>3
  <2>4. CASE Next1(p, v) /\ Old(r, w)
    BY <2>4
  <2>5. CASE Next1(p, v) /\ Next1(r, w)
    BY <2>5
  <2>. HIDE DEF Old, Next1
  <2>. QED
    BY <2>1, <2>2, <2>3, <2>4, <2>5
<1>12. Grouped(s, g, t, i + 1)
  BY <1>1, <1>7, <1>8, <1>9, <1>11 DEF Grouped, N
<1>. QED
  BY <1>12 DEF s

LEMMA SelectedMore ==
  ASSUME NEW pc \in Int, NEW t, SSA(t, 0), AllSelectable(t), Near(t),
         NEW i \in Nat, i + 1 <= Len(t),
         NEW h, NEW z, Selected(h, z, t, i)
  PROVE  Selected(h \o SelectInst(t[i + 1], pc, z + 1),
                  IF NeedsAddress(t[i + 1]) THEN z + 1 ELSE z, t, i + 1)
<1>. DEFINE I == t[i + 1]
            W == Made(h)
            q == SelectInst(I, pc, z + 1)
            N == Len(t)
            y == IF NeedsAddress(I) THEN z + 1 ELSE z
            V == {j \in 1 .. i : Defines(t[j])}
<1>1. N \in Nat /\ i + 1 \in 1 .. N
  BY DEF SSA, IsSequence
<1>2. z \in Nat /\ N + 1 <= z /\ z <= N + 1 + i /\ Flows(h, {}) /\ W = V \cup (N + 2 .. z)
  BY DEF Selected
<1>3. Selectable(I)
  BY <1>1 DEF AllSelectable
<1>4. (Defines(I) => I.dest = i) /\ Fresh(I, z + 1, W)
  BY NextFresh
<1>5. ASSUME NEW p \in 1 .. Len(q), NEW v \in Touches(q[p])
      PROVE  v \in Nat /\ (v = z + 1 \/ (v <= i + 1 /\ i + 1 <= v + 6))
  <2>1. v \in {VRegOf(u) : u \in Uses(I)} \cup SelectWrites(I, z + 1)
    BY <1>3, <1>4, <1>5, SelectTouches
  <2>2. \A u \in Uses(I) : u \in Nat /\ i + 1 <= u + 7 /\ u <= i
    <3>1. ASSUME NEW u \in Uses(I)
          PROVE  u \in Nat /\ i + 1 <= u + 7 /\ u <= i
      <4>1. u \in Nat /\ VRegOf(u) \in W
        BY <1>4, <3>1 DEF Fresh
      <4>2. i + 1 <= u + 7
        BY <1>1, <3>1 DEF Near
      <4>a. /\ I.dest = IF Defines(I) THEN 0 + (i + 1) - 1 ELSE NoValue
            /\ \A w \in Uses(I) :
                 \E j \in 1 .. (i + 1) - 1 : Defines(t[j]) /\ w = 0 + j - 1
        BY <1>1 DEF SSA
      <4>b. \E j \in 1 .. (i + 1) - 1 : Defines(t[j]) /\ u = 0 + j - 1
        BY <3>1, <4>a
      <4>3. PICK j \in 1 .. (i + 1) - 1 : u = 0 + j - 1
        BY <4>b
      <4>. QED
        BY <4>1, <4>2, <4>3
    <3>. QED
      BY <3>1
  <2>. HIDE DEF I, q
  <2>3. CASE v \in {VRegOf(u) : u \in Uses(I)}
    <3>1. PICK u \in Uses(I) : v = u + 1
      BY <2>3 DEF VRegOf
    <3>. QED
      BY <2>2, <3>1
  <2>4. CASE v \in SelectWrites(I, z + 1)
    <3>1. v = z + 1 \/ (Defines(I) /\ v = I.dest + 1)
      BY <2>4 DEF SelectWrites, VRegOf
    <3>. QED
      BY <1>2, <1>4, <3>1
  <2>. QED
    BY <2>1, <2>3, <2>4
<1>. HIDE DEF I, N
<1>6. Flows(q, W) /\ Made(q) = SelectWrites(I, z + 1)
  BY <1>3, <1>4, SelectFlows
<1>a. AllCoded(q)
  BY <1>3, <1>4, SelectCoded
<1>. HIDE DEF q
<1>b. AllCoded(h \o q)
  <2>1. IsSequence(h) /\ IsSequence(q) /\ AllCoded(h)
    BY <1>6 DEF Selected, Flows, IsSequence
  <2>. QED
    BY <1>a, <2>1, CodedConcat
<1>7. Flows(h \o q, {}) /\ Made(h \o q) = W \cup Made(q)
  <2>1. Flows(q, {} \cup Made(h))
    BY <1>6
  <2>. QED
    BY <1>2, <2>1, FlowsConcat, ZenonT(60)
<1>8. Made(h \o q) = {j \in 1 .. i + 1 : Defines(t[j])} \cup (N + 2 .. y)
  <2>1. {j \in 1 .. i + 1 : Defines(t[j])} = V \cup IF Defines(I) THEN {i + 1} ELSE {}
    BY DEF I
  <2>2. N + 2 .. y = (N + 2 .. z) \cup IF NeedsAddress(I) THEN {z + 1} ELSE {}
    BY <1>1, <1>2
  <2>3. Made(q) = (IF Defines(I) THEN {i + 1} ELSE {})
                    \cup (IF NeedsAddress(I) THEN {z + 1} ELSE {})
    BY <1>4, <1>6 DEF SelectWrites, VRegOf
  <2>. HIDE DEF V, y
  <2>4. Made(h \o q) = (V \cup (N + 2 .. z)) \cup Made(q)
    BY <1>2, <1>7
  <2>. QED
    BY <2>1, <2>2, <2>3, <2>4
<1>9. y \in Nat /\ N + 1 <= y /\ y <= N + 1 + (i + 1)
  BY <1>1, <1>2
<1>10. \E g : Grouped(h \o q, g, t, i + 1)
  <2>1. IsSequence(h) /\ IsSequence(q)
    BY <1>2, <1>6 DEF Flows, IsSequence
  <2>2. PICK f : Grouped(h, f, t, i)
    BY DEF Selected
  <2>3. ASSUME NEW p \in 1 .. Len(h), NEW v \in Touches(h[p])
        PROVE  v \in Nat /\ v <= z
    <3>1. v \in V \cup (N + 2 .. z)
      BY <1>2, <2>3, TouchesMade
    <3>2. \A j \in V : j \in Nat /\ j <= z
      BY <1>1, <1>2
    <3>. HIDE DEF V
    <3>. QED
      BY <1>1, <1>2, <3>1, <3>2
  <2>4. Len(t) \in Nat /\ i + 1 <= Len(t) /\ Len(t) + 1 <= z
    BY <1>1, <1>2 DEF N
  <2>. QED
    BY <1>2, <1>5, <2>1, <2>2, <2>3, <2>4, GroupedMore
<1>. HIDE DEF y
<1>11. Selected(h \o q, y, t, i + 1)
  BY <1>7, <1>8, <1>9, <1>10, <1>b DEF Selected, N
<1>. QED
  BY <1>11 DEF y, q, I

LEMMA SelectedBlock ==
  ASSUME NEW pc \in Int, NEW t, SSA(t, 0), AllSelectable(t), Near(t)
  PROVE  LET start == SoFar(pc, <<>>, Len(t) + 1)
         IN \E z : Selected(FoldLeft(SelectStep, start, t).instrs, z, t, Len(t))
<1>. DEFINE N == Len(t)
            start == SoFar(pc, <<>>, N + 1)
<1>1. PICK S : t \in Seq(S)
  BY DEF SSA, IsSequence
<1>2. N \in Nat
  BY <1>1
<1>3. PICK m : SelectFold!IsRun(m, start, t) /\ SelectFold!Fold(start, t) = m[N]
  BY <1>1, SelectFold!FoldRun
<1>. DEFINE Good(i) == \E h, z : m[i] = SoFar(pc, h, z) /\ Selected(h, z, t, i)
            T == {i \in Nat : i <= N => Good(i)}
<1>4. 0 \in T
  <2>1. m[0] = start
    BY <1>3 DEF SelectFold!IsRun
  <2>. HIDE DEF N
  <2>2. /\ N + 1 \in Nat /\ N + 1 <= N + 1 /\ N + 1 <= N + 1 + 0
        /\ N + 2 .. N + 1 = {} /\ {j \in 1 .. 0 : Defines(t[j])} = {}
    BY <1>2
  <2>3. Grouped(<<>>, <<>>, t, 0)
    BY DEF Grouped
  <2>a. AllCoded(<<>>)
    BY DEF AllCoded
  <2>4. Selected(<<>>, N + 1, t, 0)
    BY <2>2, <2>3, <2>a, FlowsNone DEF Selected, N
  <2>5. Good(0)
    BY <2>1, <2>4
  <2>. QED
    BY <2>5
<1>5. ASSUME NEW i \in Nat, i \in T
      PROVE  i + 1 \in T
  <2>1. SUFFICES ASSUME i + 1 <= N PROVE Good(i + 1)
    OBVIOUS
  <2>2. i + 1 \in 1 .. N /\ (i + 1) - 1 = i /\ i <= N
    BY <1>2, <2>1
  <2>. HIDE DEF N
  <2>3. Good(i)
    BY <1>5, <2>2
  <2>4. PICK h : \E z : m[i] = SoFar(pc, h, z) /\ Selected(h, z, t, i)
    BY <2>3
  <2>5. PICK z : m[i] = SoFar(pc, h, z) /\ Selected(h, z, t, i)
    BY <2>4
  <2>6. m[i + 1] = SelectStep(m[i], t[i + 1])
    BY <1>3, <2>2 DEF SelectFold!IsRun, N
  <2>. DEFINE g == h \o SelectInst(t[i + 1], pc, z + 1)
              y == IF NeedsAddress(t[i + 1]) THEN z + 1 ELSE z
  <2>7. m[i + 1] = SoFar(pc, g, y)
    BY <2>5, <2>6, SelectOne
  <2>8. Selected(g, y, t, i + 1)
    BY <2>1, <2>5, SelectedMore DEF N
  <2>. HIDE DEF g, y
  <2>. QED
    BY <2>7, <2>8
<1>6. Nat \subseteq T
  <2>. HIDE DEF T
  <2>. QED
    BY <1>4, <1>5, NatSetInduction
<1>7. Good(N)
  BY <1>2, <1>6
<1>8. PICK h : \E z : m[N] = SoFar(pc, h, z) /\ Selected(h, z, t, N)
  BY <1>7
<1>9. PICK z : m[N] = SoFar(pc, h, z) /\ Selected(h, z, t, N)
  BY <1>8
<1>10. FoldLeft(SelectStep, start, t) = m[N]
  BY <1>3, SelectLoop
<1>11. m[N].instrs = h
  BY <1>9 DEF SoFar
<1>. HIDE DEF start
<1>12. Selected(FoldLeft(SelectStep, start, t).instrs, z, t, N)
  BY <1>9, <1>10, <1>11
<1>. QED
  BY <1>12 DEF start

LEMMA SelectedLift ==
  ASSUME NEW R, NEW C, R \subseteq Nat, NEW b, Liftable(b, R, C)
  PROVE  LET t == Lift(b).insts
             s == Select(Lift(b))
         IN /\ Len(t) \in Nat
            /\ \E z : Selected(s.instrs, z, t, Len(t))
            /\ Live!TouchedByTerm(s.term) \subseteq Made(s.instrs)
<1>. DEFINE t == Lift(b).insts
            e == Lift(b).term
            s == Select(Lift(b))
            N == Len(t)
<1>1. SSA(t, 0) /\ AllSelectable(t) /\ TermDefined(t, e) /\ Near(t)
  <2>1. IsSequence(b.insts)
    BY BlockForm
  <2>2. SSA(t, 0) /\ AllFormed(t, R, C) /\ TermDefined(t, e)
    BY BlockFormed
  <2>3. AllSelectable(t)
    BY <2>2 DEF AllFormed, Formed, AllSelectable
  <2>. QED
    BY <2>1, <2>2, <2>3, BlockNear
<1>2. Lift(b).start = b.start /\ b.start \in Int
  BY BlockForm, Widths DEF Lift
<1>3. s.instrs = FoldLeft(SelectStep, SoFar(b.start, <<>>, N + 1), t).instrs
  BY <1>2 DEF Select, SelectInsts, SoFar
<1>4. s.term = SelectTerm(e)
  BY DEF Select
<1>5. N \in Nat
  <2>1. IsSequence(t)
    BY <1>1 DEF SSA
  <2>. HIDE DEF t
  <2>. QED
    BY <2>1 DEF IsSequence
<1>. HIDE DEF t, e, s
<1>6. PICK z : Selected(s.instrs, z, t, N)
  BY <1>1, <1>2, <1>3, SelectedBlock
<1>7. Live!TouchedByTerm(s.term) \subseteq Made(s.instrs)
  <2>1. CASE e.kind \in {"CBr", "BrIndirect"}
    <3>1. PICK i \in 1 .. N : Defines(t[i]) /\ t[i].kind # "Trunc" /\ e.v = i - 1
      BY <1>1, <2>1 DEF TermDefined
    <3>2. i \in Made(s.instrs)
      BY <1>6, <3>1 DEF Selected
    <3>3. Live!TouchedByTerm(s.term) = {VRegOf(e.v)}
      BY <1>4, <2>1 DEF SelectTerm, Live!TouchedByTerm
    <3>4. VRegOf(e.v) = i
      BY <3>1 DEF VRegOf
    <3>. QED
      BY <3>2, <3>3, <3>4
  <2>2. CASE e.kind \notin {"CBr", "BrIndirect"}
    <3>1. Live!TouchedByTerm(s.term) = {}
      BY <1>4, <2>2 DEF SelectTerm, Live!TouchedByTerm
    <3>. QED
      BY <3>1
  <2>. QED
    BY <2>1, <2>2
<1>. QED
  BY <1>5, <1>6, <1>7 DEF t, s

(***************************************************************************)
(* In the host code of a block every virtual register is written once,     *)
(* before anything reads it, and an address never takes the number of a    *)
(* value (ISel.cpp, vreg_of and the numbers after the size of vmap).       *)
(***************************************************************************)
THEOREM SelectedOnce ==
  ASSUME NEW CONSTANT R, NEW CONSTANT C, Inputs(R, C)
  PROVE  Spec => []WrittenOnceThenRead
<1>1. Staged => WrittenOnceThenRead
  <2> SUFFICES ASSUME Staged, stage = "selected"
               PROVE  WrittenOnceThenRead
    BY DEF WrittenOnceThenRead
  <2>. DEFINE n == Len(blk.instrs)
  <2>1. Liftable(bb, R, C) /\ R \subseteq Nat
    BY DEF Inputs, Staged
  <2>2. blk = Select(Lift(bb))
    BY DEF Staged
  <2>3. Flows(blk.instrs, {}) /\ Live!TouchedByTerm(blk.term) \subseteq Made(blk.instrs)
    BY <2>1, <2>2, SelectedLift DEF Selected
  <2>4. \A p \in 1 .. n : /\ Reads(blk.instrs[p]) \subseteq Written(blk.instrs, p - 1)
                          /\ Writes(blk.instrs[p]) \cap Written(blk.instrs, p - 1) = {}
    BY <2>3 DEF Flows
  <2>5. Live!TouchedByTerm(blk.term) \subseteq Written(blk.instrs, n)
    BY <2>3 DEF Made
  <2>. QED
    BY <2>4, <2>5 DEF WrittenOnceThenRead, Written
<1>. QED
  BY <1>1, StagedAlways, PTL

-----------------------------------------------------------------------------
\* What the host code does.

\* The function f, but v at p.
Put(f, p, v) == [f EXCEPT ![p] = v]

\* A host that runs a block emitted with the registers a.
Host(a, r, c, x, m) == [asg |-> a, r |-> r, cmp |-> c, x |-> x, mem |-> m]

\* What each host instruction does to it.
LEMMA HostMov ==
  ASSUME NEW a, NEW r, NEW c, NEW x, NEW m, NEW d, NEW v
  PROVE  Execute(Host(a, r, c, x, m), Instr("Mov", <<RegV(d), RegV(v)>>))
           = Host(a, Put(r, a[d], r[a[v]]), c, x, m)
  BY DEF Execute, Host, Put, Instr, RegV, Imm, MachineReg, BinOps, CondCodes

LEMMA HostImm ==
  ASSUME NEW a, NEW r, NEW c, NEW x, NEW m, NEW d, NEW v
  PROVE  Execute(Host(a, r, c, x, m), Instr("Mov", <<RegV(d), Imm(v)>>))
           = Host(a, Put(r, a[d], v), c, x, m)
  BY DEF Execute, Host, Put, Instr, RegV, Imm, MachineReg, BinOps, CondCodes

LEMMA HostSxtw ==
  ASSUME NEW a, NEW r, NEW c, NEW x, NEW m, NEW d, NEW v
  PROVE  Execute(Host(a, r, c, x, m), Instr("Sxtw", <<RegV(d), RegV(v)>>))
           = Host(a, Put(r, a[d], SextHalf(r[a[v]])), c, x, m)
  BY DEF Execute, Host, Put, Instr, RegV, Imm, MachineReg, BinOps, CondCodes

LEMMA HostUxtw ==
  ASSUME NEW a, NEW r, NEW c, NEW x, NEW m, NEW d, NEW v
  PROVE  Execute(Host(a, r, c, x, m), Instr("Uxtw", <<RegV(d), RegV(v)>>))
           = Host(a, Put(r, a[d], Low(r[a[v]])), c, x, m)
  BY DEF Execute, Host, Put, Instr, RegV, Imm, MachineReg, BinOps, CondCodes

LEMMA HostMovZ ==
  ASSUME NEW a, NEW r, NEW c, NEW x, NEW m, NEW d, NEW v
  PROVE  Execute(Host(a, r, c, x, m), Instr("MovZ", <<RegV(d), Imm(v)>>))
           = Host(a, Put(r, a[d], v), c, x, m)
  BY DEF Execute, Host, Put, Instr, RegV, Imm, MachineReg, BinOps, CondCodes

LEMMA HostMovK ==
  ASSUME NEW a, NEW r, NEW c, NEW x, NEW m, NEW d, NEW v, NEW l
  PROVE  Execute(Host(a, r, c, x, m), Instr("MovK", <<RegV(d), Imm(v), Imm(l)>>))
           = Host(a, Put(r, a[d], MovK(r[a[d]], v, l)), c, x, m)
  BY DEF Execute, Host, Put, Instr, RegV, Imm, MachineReg, BinOps, CondCodes

LEMMA HostBinOp ==
  ASSUME NEW a, NEW r, NEW c, NEW x, NEW m, NEW d, NEW v, NEW w, NEW o \in DOMAIN OpOfBinOp
  PROVE  Execute(Host(a, r, c, x, m), Instr(OpOfBinOp[o], <<RegV(d), RegV(v), RegV(w)>>))
           = Host(a, Put(r, a[d], WordOp(o, r[a[v]], r[a[w]])), c, x, m)
<1>1. /\ OpOfBinOp[o] \in DOMAIN BinOps
      /\ OpOfBinOp[o] \notin {"Mov", "MovZ", "MovK"}
      /\ BinOps[OpOfBinOp[o]] = o
  BY DEF OpOfBinOp, BinOps
<1>. DEFINE p == OpOfBinOp[o]
            J == Instr(p, <<RegV(d), RegV(v), RegV(w)>>)
<1>. HIDE DEF p
<1>2. /\ J.op = p /\ J.ops[1] = RegV(d) /\ J.ops[2] = RegV(v) /\ J.ops[3] = RegV(w)
  BY DEF Instr
<1>3. p \notin {"Cmp", "Sxtw", "Uxtw", "LdrX", "LdrW", "StrX", "StrW"} \cup DOMAIN CondCodes
  BY DEF OpOfBinOp, p, CondCodes
<1>. HIDE DEF J
<1>. DEFINE h == Host(a, r, c, x, m)
<1>4. h.asg = a /\ h.r = r /\ \A u : [h EXCEPT !.r[a[d]] = u] = Host(a, Put(r, a[d], u), c, x, m)
  BY DEF Host, Put
<1>. HIDE DEF h
<1>5. /\ MachineReg(a, RegV(v)) = a[v] /\ MachineReg(a, RegV(w)) = a[w]
      /\ RegV(d).id = d
  BY DEF MachineReg, RegV
<1>6. Execute(h, J) = [h EXCEPT !.r[a[d]] = WordOp(BinOps[p], r[a[v]], r[a[w]])]
  BY <1>1, <1>2, <1>3, <1>4, <1>5 DEF Execute, p
<1>. QED
  BY <1>1, <1>4, <1>6 DEF p, J, h

\* The address of an access: a base and register x21.
LEMMA HostAddress ==
  ASSUME NEW a, NEW r, NEW c, NEW x, NEW m, NEW d, NEW v
  PROVE  Execute(Host(a, r, c, x, m), SelectAddress(d, v))
           = Host(a, Put(r, a[d], Wrap(r[a[v]] + r[21])), c, x, m)
  BY DEF Execute, Host, Put, SelectAddress, Instr, RegV, RegP, MachineReg, BinOps, CondCodes, WordOp

LEMMA HostCmp ==
  ASSUME NEW a, NEW r, NEW c, NEW x, NEW m, NEW v, NEW w
  PROVE  Execute(Host(a, r, c, x, m), Instr("Cmp", <<RegV(v), RegV(w)>>))
           = Host(a, r, <<r[a[v]], r[a[w]]>>, x, m)
  BY DEF Execute, Host, Put, Instr, RegV, MachineReg, BinOps, CondCodes

LEMMA HostAnyCset ==
  ASSUME NEW a, NEW r, NEW c, NEW x, NEW m, NEW d, NEW o \in DOMAIN CsetOf
  PROVE  Execute(Host(a, r, c, x, m), Instr(CsetOf[o], <<RegV(d)>>))
           = Host(a, Put(r, a[d], IF Holds(o, c[1], c[2]) THEN 1 ELSE 0), c, x, m)
<1>. DEFINE p == CsetOf[o]
            J == Instr(p, <<RegV(d)>>)
            h == Host(a, r, c, x, m)
<1>1. p \in DOMAIN CondCodes /\ CondCodes[p] = o
  BY DEF CsetOf, CondCodes
<1>2. p \notin {"Mov", "MovZ", "MovK", "Cmp", "Sxtw", "Uxtw", "LdrX", "LdrW", "StrX", "StrW"}
               \cup DOMAIN BinOps
  BY DEF CsetOf, BinOps
<1>. HIDE DEF p
<1>3. J.op = p /\ J.ops[1] = RegV(d)
  BY DEF Instr
<1>. HIDE DEF J
<1>4. /\ h.asg = a /\ h.cmp = c
      /\ \A u : [h EXCEPT !.r[a[d]] = u] = Host(a, Put(r, a[d], u), c, x, m)
  BY DEF Host, Put
<1>. HIDE DEF h
<1>5. RegV(d).id = d
  BY DEF RegV
<1>6. Execute(h, J) = [h EXCEPT !.r[a[d]] = IF Holds(o, c[1], c[2]) THEN 1 ELSE 0]
  BY <1>1, <1>2, <1>3, <1>4, <1>5 DEF Execute
<1>. QED
  BY <1>4, <1>6 DEF p, J, h

LEMMA HostCset ==
  ASSUME NEW a, NEW r, NEW v, NEW w, NEW x, NEW m, NEW d, NEW o \in DOMAIN CsetOf
  PROVE  Execute(Host(a, r, <<v, w>>, x, m), Instr(CsetOf[o], <<RegV(d)>>))
           = Host(a, Put(r, a[d], IF Holds(o, v, w) THEN 1 ELSE 0), <<v, w>>, x, m)
<1>. DEFINE c == <<v, w>>
<1>1. c[1] = v /\ c[2] = w
  OBVIOUS
<1>. HIDE DEF c
<1>2. Execute(Host(a, r, c, x, m), Instr(CsetOf[o], <<RegV(d)>>))
      = Host(a, Put(r, a[d], IF Holds(o, c[1], c[2]) THEN 1 ELSE 0), c, x, m)
  BY HostAnyCset
<1>3. Holds(o, c[1], c[2]) = Holds(o, v, w)
  BY <1>1
<1>4. Execute(Host(a, r, c, x, m), Instr(CsetOf[o], <<RegV(d)>>))
      = Host(a, Put(r, a[d], IF Holds(o, v, w) THEN 1 ELSE 0), c, x, m)
  BY <1>2, <1>3
<1>. QED
  BY <1>4 DEF c

\* The state pointer x0 is the base of the guest's registers.
LEMMA HostReadReg ==
  ASSUME NEW a, NEW r, NEW c, NEW x, NEW m, NEW d, NEW n \in Nat
  PROVE  Execute(Host(a, r, c, x, m), Instr("LdrX", <<RegV(d), Mem(0, 8 * n)>>))
           = Host(a, Put(r, a[d], x[n]), c, x, m)
<1>1. (8 * n) \div 8 = n
  OBVIOUS
<1>. DEFINE o == 8 * n
<1>2. o \div 8 = n
  BY <1>1
<1>. HIDE DEF o
<1>3. Execute(Host(a, r, c, x, m), Instr("LdrX", <<RegV(d), Mem(0, o)>>))
        = Host(a, Put(r, a[d], x[n]), c, x, m)
  BY <1>2 DEF Execute, Host, Put, Instr, RegV, Mem, MachineReg, BinOps, CondCodes, LoadAt, StoreAt
<1>. QED
  BY <1>3 DEF o

LEMMA HostWriteReg ==
  ASSUME NEW a, NEW r, NEW c, NEW x, NEW m, NEW d, NEW n \in Nat
  PROVE  Execute(Host(a, r, c, x, m), Instr("StrX", <<RegV(d), Mem(0, 8 * n)>>))
           = Host(a, r, c, Put(x, n, r[a[d]]), m)
<1>1. (8 * n) \div 8 = n
  OBVIOUS
<1>. DEFINE o == 8 * n
<1>2. o \div 8 = n
  BY <1>1
<1>. HIDE DEF o
<1>3. Execute(Host(a, r, c, x, m), Instr("StrX", <<RegV(d), Mem(0, o)>>))
        = Host(a, r, c, Put(x, n, r[a[d]]), m)
  BY <1>2 DEF Execute, Host, Put, Instr, RegV, Mem, MachineReg, BinOps, CondCodes, LoadAt, StoreAt
<1>. QED
  BY <1>3 DEF o

\* The guest register at an offset from the state pointer.
Slot(n) == n \div 8

LEMMA HostStateLdrX ==
  ASSUME NEW a, NEW r, NEW c, NEW x, NEW m, NEW d, NEW n
  PROVE  Execute(Host(a, r, c, x, m), Instr("LdrX", <<RegV(d), Mem(0, n)>>))
           = Host(a, Put(r, a[d], x[Slot(n)]), c, x, m)
<1>. DEFINE o == Slot(n)
<1>1. n \div 8 = o
  BY DEF Slot
<1>. HIDE DEF o
<1>2. Execute(Host(a, r, c, x, m), Instr("LdrX", <<RegV(d), Mem(0, n)>>))
        = Host(a, Put(r, a[d], x[o]), c, x, m)
  BY <1>1 DEF Execute, Host, Put, Instr, RegV, Mem, MachineReg, BinOps, CondCodes, LoadAt, StoreAt
<1>. QED
  BY <1>2 DEF o

LEMMA HostStateLdrW ==
  ASSUME NEW a, NEW r, NEW c, NEW x, NEW m, NEW d, NEW n
  PROVE  Execute(Host(a, r, c, x, m), Instr("LdrW", <<RegV(d), Mem(0, n)>>))
           = Host(a, Put(r, a[d], x[Slot(n)]), c, x, m)
<1>. DEFINE o == Slot(n)
<1>1. n \div 8 = o
  BY DEF Slot
<1>. HIDE DEF o
<1>2. Execute(Host(a, r, c, x, m), Instr("LdrW", <<RegV(d), Mem(0, n)>>))
        = Host(a, Put(r, a[d], x[o]), c, x, m)
  BY <1>1 DEF Execute, Host, Put, Instr, RegV, Mem, MachineReg, BinOps, CondCodes, LoadAt, StoreAt
<1>. QED
  BY <1>2 DEF o

LEMMA HostStateStrX ==
  ASSUME NEW a, NEW r, NEW c, NEW x, NEW m, NEW d, NEW n
  PROVE  Execute(Host(a, r, c, x, m), Instr("StrX", <<RegV(d), Mem(0, n)>>))
           = Host(a, r, c, Put(x, Slot(n), r[a[d]]), m)
<1>. DEFINE o == Slot(n)
<1>1. n \div 8 = o
  BY DEF Slot
<1>. HIDE DEF o
<1>2. Execute(Host(a, r, c, x, m), Instr("StrX", <<RegV(d), Mem(0, n)>>))
        = Host(a, r, c, Put(x, o, r[a[d]]), m)
  BY <1>1 DEF Execute, Host, Put, Instr, RegV, Mem, MachineReg, BinOps, CondCodes, LoadAt, StoreAt
<1>. QED
  BY <1>2 DEF o

LEMMA HostStateStrW ==
  ASSUME NEW a, NEW r, NEW c, NEW x, NEW m, NEW d, NEW n
  PROVE  Execute(Host(a, r, c, x, m), Instr("StrW", <<RegV(d), Mem(0, n)>>))
           = Host(a, r, c, Put(x, Slot(n), r[a[d]]), m)
<1>. DEFINE o == Slot(n)
<1>1. n \div 8 = o
  BY DEF Slot
<1>. HIDE DEF o
<1>2. Execute(Host(a, r, c, x, m), Instr("StrW", <<RegV(d), Mem(0, n)>>))
        = Host(a, r, c, Put(x, o, r[a[d]]), m)
  BY <1>1 DEF Execute, Host, Put, Instr, RegV, Mem, MachineReg, BinOps, CondCodes, LoadAt, StoreAt
<1>. QED
  BY <1>2 DEF o

\* Any other base is an address register.
LEMMA HostLdrX ==
  ASSUME NEW a, NEW r, NEW c, NEW x, NEW m, NEW d, NEW v, v # 0, NEW n
  PROVE  Execute(Host(a, r, c, x, m), Instr("LdrX", <<RegV(d), Mem(v, n)>>))
           = Host(a, Put(r, a[d], Load(m, "I64", r[a[v]] + n - MemBase)), c, x, m)
  BY DEF Execute, Host, Put, Instr, RegV, Mem, MachineReg, BinOps, CondCodes, LoadAt, StoreAt

LEMMA HostLdrW ==
  ASSUME NEW a, NEW r, NEW c, NEW x, NEW m, NEW d, NEW v, v # 0, NEW n
  PROVE  Execute(Host(a, r, c, x, m), Instr("LdrW", <<RegV(d), Mem(v, n)>>))
           = Host(a, Put(r, a[d], Load(m, "I32", r[a[v]] + n - MemBase)), c, x, m)
  BY DEF Execute, Host, Put, Instr, RegV, Mem, MachineReg, BinOps, CondCodes, LoadAt, StoreAt

LEMMA HostStrX ==
  ASSUME NEW a, NEW r, NEW c, NEW x, NEW m, NEW d, NEW v, v # 0, NEW n
  PROVE  Execute(Host(a, r, c, x, m), Instr("StrX", <<RegV(d), Mem(v, n)>>))
           = Host(a, r, c, x, Store(m, "I64", r[a[v]] + n - MemBase, r[a[d]]))
  BY DEF Execute, Host, Put, Instr, RegV, Mem, MachineReg, BinOps, CondCodes, LoadAt, StoreAt

LEMMA HostStrW ==
  ASSUME NEW a, NEW r, NEW c, NEW x, NEW m, NEW d, NEW v, v # 0, NEW n
  PROVE  Execute(Host(a, r, c, x, m), Instr("StrW", <<RegV(d), Mem(v, n)>>))
           = Host(a, r, c, x, Store(m, "I32", r[a[v]] + n - MemBase, r[a[d]]))
  BY DEF Execute, Host, Put, Instr, RegV, Mem, MachineReg, BinOps, CondCodes, LoadAt, StoreAt

\* What movk makes of the low bits of a word: the chunk behind them joins.
LEMMA MovKJoins ==
  ASSUME NEW w \in Word, NEW l \in Nat, l + ChunkWidth <= Width
  PROVE  MovK(w % 2 ^ l, (w \div 2 ^ l) % 2 ^ ChunkWidth, l) = w % 2 ^ (l + ChunkWidth)
<1>. DEFINE C == ChunkWidth
            v == w % 2 ^ l
            h == w \div 2 ^ l
            n == h % 2 ^ C
            u == w % 2 ^ (l + C)
            field == {i \in 0 .. Width - 1 : i >= l /\ i < l + C}
            bits == (BitsOf(v) \ field) \cup {i \in field : i - l \in BitsOf(n)}
<1>1. /\ C \in Nat \ {0} /\ Width \in Nat \ {0} /\ w \in Nat
      /\ 2 ^ l \in Nat \ {0} /\ 2 ^ C \in Nat \ {0} /\ 2 ^ (l + C) \in Nat \ {0}
      /\ 2 ^ Width \in Nat \ {0} /\ l + C \in Nat
  BY Chunks, Widths, Powers DEF Word
<1>2. h \in Nat
  BY <1>1
<1>3. u \in Word
  <2>. DEFINE P == 2 ^ (l + C)
              Q == 2 ^ Width
  <2>1. u \in Nat /\ u <= w
    <3>. HIDE DEF P
    <3>1. P \in Nat \ {0}
      BY <1>1 DEF P
    <3>2. w % P \in 0 .. w
      BY <1>1, <3>1
    <3>. QED
      BY <3>2 DEF P
  <2>. HIDE DEF u
  <2>. QED
    BY <1>1, <2>1 DEF Word
<1>4. ASSUME NEW i \in 0 .. Width - 1
      PROVE  i \in bits <=> i \in BitsOf(u)
  <2>1. i \in Nat
    BY <1>1
  <2>2. i \in BitsOf(u) <=> Bit(u, i) = 1
    BY DEF BitsOf, Bit
  <2>3. i \in BitsOf(v) <=> Bit(v, i) = 1
    BY DEF BitsOf, Bit
  <2>4. CASE i < l
    <3>1. i < l + C /\ i \notin field
      BY <1>1, <2>1, <2>4
    <3>2. Bit(u, i) = Bit(w, i) /\ Bit(v, i) = Bit(w, i)
      BY <1>1, <2>1, <2>4, <3>1, LowBits
    <3>. HIDE DEF field, u, v, n
    <3>. QED
      BY <2>2, <2>3, <3>1, <3>2
  <2>5. CASE i >= l /\ i < l + C
    <3>1. i \in field /\ i - l \in Nat /\ i - l < C /\ i - l \in 0 .. Width - 1 /\ l + (i - l) = i
      BY <1>1, <2>1, <2>5
    <3>2. i - l \in BitsOf(n) <=> Bit(n, i - l) = 1
      BY <3>1 DEF BitsOf, Bit
    <3>3. Bit(n, i - l) = Bit(h, i - l)
      BY <1>1, <1>2, <3>1, LowBits, SMTT(20)
    <3>4. Bit(h, i - l) = Bit(w, i)
      BY <1>1, <3>1, HighBits
    <3>5. Bit(u, i) = Bit(w, i)
      BY <1>1, <2>1, <2>5, LowBits
    <3>. HIDE DEF field, u, v, n
    <3>. QED
      BY <2>2, <3>1, <3>2, <3>3, <3>4, <3>5
  <2>6. CASE i >= l + C
    <3>1. i >= l /\ i \notin field
      BY <1>1, <2>1, <2>6
    <3>2. Bit(u, i) = 0 /\ Bit(v, i) = 0
      BY <1>1, <2>1, <2>6, <3>1, LowBits
    <3>. HIDE DEF field, u, v, n
    <3>. QED
      BY <2>2, <2>3, <3>1, <3>2
  <2>. HIDE DEF field, bits, u, v, n
  <2>. QED
    BY <1>1, <2>1, <2>4, <2>5, <2>6
<1>5. bits = BitsOf(u)
  <2>1. bits \subseteq 0 .. Width - 1 /\ BitsOf(u) \subseteq 0 .. Width - 1
    BY DEF BitsOf
  <2>. HIDE DEF bits, u
  <2>. QED
    BY <1>4, <2>1
<1>6. MovK(v, n, l) = WordOf(bits)
  BY DEF MovK
<1>. HIDE DEF bits, u
<1>. QED
  BY <1>3, <1>5, <1>6, WordOfBitsOf DEF u

\* A chunk that is zero need not join.
LEMMA ZeroJoins ==
  ASSUME NEW w \in Word, NEW l \in Nat, (w \div 2 ^ l) % 2 ^ ChunkWidth = 0
  PROVE  w % 2 ^ l = w % 2 ^ (l + ChunkWidth)
<1>. DEFINE M == 2 ^ l
            N == 2 ^ ChunkWidth
<1>1. w \in Nat /\ M \in Nat \ {0} /\ N \in Nat \ {0}
  BY Chunks, Widths, Powers DEF Word
<1>2. 2 ^ (l + ChunkWidth) = M * N
  BY Chunks, PowerSum
<1>3. (w \div M) % N = 0
  OBVIOUS
<1>. HIDE DEF M, N
<1>4. w % (M * N) = (w % M) + M * ((w \div M) % N)
  BY <1>1, DivideTwice
<1>5. M * ((w \div M) % N) = 0 /\ w % M \in Int
  BY <1>1, <1>3
<1>6. w % (M * N) = w % M
  BY <1>4, <1>5
<1>. QED
  BY <1>2, <1>6 DEF M

\* The loop of the host over its instructions.
HostFold == INSTANCE SequenceFacts WITH Step <- Execute

LEMMA HostLoop ==
  ASSUME NEW s, NEW t
  PROVE  FoldLeft(Execute, s, t) = HostFold!Fold(s, t)
  BY DEF HostFold!Fold, HostFold!FoldLeft, HostFold!MapThenFoldSet, HostFold!Max,
         FoldLeft, MapThenFoldSet, Max

LEMMA HostConcat ==
  ASSUME NEW p, NEW t, IsSequence(p), IsSequence(t), NEW s
  PROVE  /\ IsSequence(p \o t)
         /\ HostFold!Fold(s, p \o t) = HostFold!Fold(HostFold!Fold(s, p), t)
<1>1. PICK A : p \in Seq(A)
  BY DEF IsSequence
<1>2. PICK B : t \in Seq(B)
  BY DEF IsSequence
<1>. DEFINE D == A \cup B
<1>3. p \in Seq(D)
  BY <1>1, SeqOfLarger
<1>4. t \in Seq(D)
  BY <1>2, SeqOfLarger
<1>5. p \o t \in Seq(D)
  <2>. HIDE DEF D
  <2>. QED
    BY <1>3, <1>4
<1>. HIDE DEF D
<1>. QED
  BY <1>3, <1>4, <1>5, HostFold!FoldConcat DEF IsSequence

\* A constant, in one move or put together from its chunks.
LEMMA HostConst ==
  ASSUME NEW a, NEW r, NEW c, NEW x, NEW m, NEW d, a[d] \in DOMAIN r, NEW w \in Word
  PROVE  HostFold!Fold(Host(a, r, c, x, m), SelectConst(d, w))
           = Host(a, Put(r, a[d], w), c, x, m)
<1>. DEFINE C == ChunkWidth
            at(u) == Host(a, Put(r, a[d], u), c, x, m)
            h == Host(a, r, c, x, m)
            s(i) == SelectChunk(d, w, i)
            z == <<Instr("MovZ", <<RegV(d), Imm(Chunk(w, 0))>>)>>
<1>1. \A u, v : /\ Put(Put(r, a[d], u), a[d], v) = Put(r, a[d], v)
                /\ Put(r, a[d], u)[a[d]] = u
  BY DEF Put
<1>2. ASSUME NEW i \in {1, 2, 3}
      PROVE  IsSequence(s(i)) /\ HostFold!Fold(at(w % 2 ^ (i * C)), s(i)) = at(w % 2 ^ (i * C + C))
  <2>. DEFINE l == i * C
              n == (w \div 2 ^ l) % 2 ^ C
              v == w % 2 ^ l
  <2>1. l \in Nat /\ l + C <= Width
    BY Chunks
  <2>2. Chunk(w, i) = n
    BY DEF Chunk
  <2>. HIDE DEF l
  <2>3. CASE n = 0
    <3>1. s(i) = <<>>
      BY <2>2, <2>3 DEF SelectChunk
    <3>2. v = w % 2 ^ (l + C)
      BY <2>1, <2>3, ZeroJoins
    <3>3. HostFold!Fold(at(v), s(i)) = at(v)
      BY <3>1, HostFold!FoldEmpty
    <3>. QED
      BY <3>1, <3>2, <3>3, TuplesAreSequences DEF l
  <2>4. CASE n # 0
    <3>. DEFINE J == Instr("MovK", <<RegV(d), Imm(n), Imm(l)>>)
    <3>1. s(i) = <<J>>
      BY <2>2, <2>4 DEF SelectChunk, l
    <3>2. MovK(v, n, l) = w % 2 ^ (l + C)
      BY <2>1, MovKJoins
    <3>. HIDE DEF n, v
    <3>3. Execute(at(v), J) = at(MovK(v, n, l))
      <4>. DEFINE q == Put(r, a[d], v)
      <4>1. q[a[d]] = v /\ \A u : Put(q, a[d], u) = Put(r, a[d], u)
        BY <1>1
      <4>. HIDE DEF q
      <4>2. Execute(Host(a, q, c, x, m), J) = Host(a, Put(q, a[d], MovK(q[a[d]], n, l)), c, x, m)
        BY HostMovK
      <4>. QED
        BY <4>1, <4>2 DEF q
    <3>4. HostFold!Fold(at(v), s(i)) = Execute(at(v), J)
      BY <3>1, HostFold!FoldOne
    <3>. HIDE DEF J
    <3>. QED
      BY <3>1, <3>2, <3>3, <3>4, TuplesAreSequences DEF l, v
  <2>. QED
    BY <2>3, <2>4
<1>3. CASE w \div 2 ^ C = 0
  <2>1. SelectConst(d, w) = <<Instr("Mov", <<RegV(d), Imm(w)>>)>>
    BY <1>3 DEF SelectConst
  <2>2. Execute(h, Instr("Mov", <<RegV(d), Imm(w)>>)) = at(w)
    BY HostImm
  <2>. HIDE DEF h, at
  <2>3. HostFold!Fold(h, <<Instr("Mov", <<RegV(d), Imm(w)>>)>>) = at(w)
    BY <2>2, HostFold!FoldOne
  <2>. QED
    BY <2>1, <2>3 DEF h, at
<1>4. CASE w \div 2 ^ C # 0
  <2>1. SelectConst(d, w) = z \o s(1) \o s(2) \o s(3)
    BY <1>4 DEF SelectConst
  <2>2. Chunk(w, 0) = w % 2 ^ C
    <3>1. 0 * C = 0 /\ 2 ^ 0 = 1 /\ w \in Nat
      BY Chunks, Widths DEF Word
    <3>2. w \div 1 = w
      BY <3>1
    <3>. QED
      BY <3>1, <3>2 DEF Chunk
  <2>3. HostFold!Fold(h, z) = at(w % 2 ^ C) /\ IsSequence(z)
    <3>1. Execute(h, Instr("MovZ", <<RegV(d), Imm(Chunk(w, 0))>>)) = at(w % 2 ^ C)
      BY <2>2, HostMovZ
    <3>. HIDE DEF h, at
    <3>. QED
      BY <3>1, HostFold!FoldOne, TuplesAreSequences
  <2>4. 1 * C = C /\ 1 * C + C = 2 * C /\ 2 * C + C = 3 * C /\ 3 * C + C = Width
    BY Chunks
  <2>5. w % 2 ^ Width = w
    BY Widths DEF Word
  <2>6. IsSequence(s(1)) /\ IsSequence(s(2)) /\ IsSequence(s(3))
    BY <1>2
  <2>7. /\ HostFold!Fold(at(w % 2 ^ C), s(1)) = at(w % 2 ^ (2 * C))
        /\ HostFold!Fold(at(w % 2 ^ (2 * C)), s(2)) = at(w % 2 ^ (3 * C))
        /\ HostFold!Fold(at(w % 2 ^ (3 * C)), s(3)) = at(w)
    <3>1. /\ HostFold!Fold(at(w % 2 ^ (1 * C)), s(1)) = at(w % 2 ^ (1 * C + C))
          /\ HostFold!Fold(at(w % 2 ^ (2 * C)), s(2)) = at(w % 2 ^ (2 * C + C))
          /\ HostFold!Fold(at(w % 2 ^ (3 * C)), s(3)) = at(w % 2 ^ (3 * C + C))
      BY <1>2
    <3>. HIDE DEF at, s, C
    <3>. QED
      BY <3>1, <2>4, <2>5
  <2>. HIDE DEF h, at, s, z, C
  <2>8. /\ IsSequence(z \o s(1))
        /\ HostFold!Fold(h, z \o s(1)) = at(w % 2 ^ (2 * C))
    BY <2>3, <2>6, <2>7, HostConcat
  <2>9. /\ IsSequence(z \o s(1) \o s(2))
        /\ HostFold!Fold(h, z \o s(1) \o s(2)) = at(w % 2 ^ (3 * C))
    BY <2>6, <2>7, <2>8, HostConcat
  <2>10. /\ IsSequence(z \o s(1) \o s(2) \o s(3))
         /\ HostFold!Fold(h, z \o s(1) \o s(2) \o s(3)) = at(w)
    BY <2>6, <2>7, <2>9, HostConcat
  <2>. QED
    BY <2>1, <2>10 DEF h, at
<1>. QED
  BY <1>3, <1>4

\* The host adds the memory base, which the model of the memory takes off:
\* what remains is the address of the guest.
LEMMA AddressOf ==
  ASSUME NEW b \in Int, NEW o \in Int, NEW mem, NEW ty, NEW v
  PROVE  /\ Load(mem, ty, Wrap(b + MemBase) + o - MemBase) = Load(mem, ty, b + o)
         /\ Store(mem, ty, Wrap(b + MemBase) + o - MemBase, v) = Store(mem, ty, b + o, v)
<1>. DEFINE M == 2 ^ Width
            g == Wrap(b + MemBase) + o - MemBase
<1>1. M \in Nat \ {0} /\ MemBase \in Int
  BY Widths, MemBaseAssumption
<1>2. Wrap(g) = Wrap(b + o)
  <2>1. b + MemBase \in Int /\ o - MemBase \in Int /\ (b + MemBase) + (o - MemBase) = b + o
    BY <1>1
  <2>2. (((b + MemBase) % M) + (o - MemBase)) % M = ((b + MemBase) + (o - MemBase)) % M
    BY <1>1, <2>1, WrapAgain
  <2>3. ((b + MemBase) % M) + (o - MemBase) = ((b + MemBase) % M) + o - MemBase
    BY <1>1, <2>1
  <2>. QED
    BY <2>1, <2>2, <2>3 DEF Wrap
<1>3. Wrap(g + 1) = Wrap(b + o + 1)
  <2>1. b + MemBase \in Int /\ o - MemBase + 1 \in Int
        /\ (b + MemBase) + (o - MemBase + 1) = b + o + 1
    BY <1>1
  <2>2. (((b + MemBase) % M) + (o - MemBase + 1)) % M = ((b + MemBase) + (o - MemBase + 1)) % M
    BY <1>1, <2>1, WrapAgain
  <2>3. ((b + MemBase) % M) + (o - MemBase + 1) = ((b + MemBase) % M) + o - MemBase + 1
    BY <1>1, <2>1
  <2>. QED
    BY <2>1, <2>2, <2>3 DEF Wrap
<1>. HIDE DEF g
<1>. QED
  BY <1>2, <1>3 DEF Load, Store, g

\* s is r but for the registers P.
Others(r, s, P) == DOMAIN s = DOMAIN r /\ \A p \in DOMAIN r \ P : s[p] = r[p]

LEMMA PutOthers ==
  ASSUME NEW r, NEW p \in DOMAIN r, NEW v
  PROVE  Put(r, p, v)[p] = v /\ Others(r, Put(r, p, v), {p})
         /\ DOMAIN Put(r, p, v) = DOMAIN r /\ \A q : q # p => Put(r, p, v)[q] = r[q]
  BY DEF Put, Others

\* A host register holds what I takes and has one for what I computes and for
\* its address, at va; f is what the registers of its operands hold.
Ready(I, va, a, r, f) ==
  /\ \A v \in Uses(I) : f[v] = r[a[VRegOf(v)]] /\ f[v] \in Word
  /\ Defines(I) => a[VRegOf(I.dest)] \in DOMAIN r
  /\ NeedsAddress(I) =>
       /\ va # 0 /\ a[va] \in DOMAIN r /\ r[21] = MemBase
       /\ \A v \in Uses(I) : a[va] # a[VRegOf(v)]

\* The host code of one instruction of IR ends in a host that is as the
\* instruction, run on what the host registers hold, says.
Performs(I, pc, va, a, r, c, x, m, f) ==
  \E r2, c2, x2, m2 :
    /\ HostFold!Fold(Host(a, r, c, x, m), SelectInst(I, pc, va)) = Host(a, r2, c2, x2, m2)
    /\ Others(r, r2, {a[v] : v \in SelectWrites(I, va)})
    /\ Defines(I) =>
         /\ x2 = x /\ m2 = m
         /\ r2[a[VRegOf(I.dest)]] = IF I.kind = "Trunc" THEN f[I.args[1]]
                                    ELSE IRValue(Running(f, x, m, pc), I)
    /\ ~ Defines(I) => IRStep(Running(f, x, m, pc), I) = Running(f, x2, m2, pc)

\* The registers that one operand or two name.
LEMMA Operand ==
  ASSUME NEW I, NEW va, NEW a, NEW r, NEW f, Ready(I, va, a, r, f)
  PROVE  /\ Len(I.args) \in {1, 2} =>
              f[I.args[1]] = r[a[VRegOf(I.args[1])]] /\ f[I.args[1]] \in Word
              /\ I.args[1] \in Uses(I)
         /\ Len(I.args) = 2 =>
              f[I.args[2]] = r[a[VRegOf(I.args[2])]] /\ f[I.args[2]] \in Word
              /\ I.args[2] \in Uses(I)
<1>1. Len(I.args) \in {1, 2} => I.args[1] \in Uses(I)
  BY DEF Uses
<1>2. Len(I.args) = 2 => I.args[2] \in Uses(I)
  BY DEF Uses
<1>. QED
  BY <1>1, <1>2 DEF Ready

\* One write to the register of the value.
LEMMA OneWrite ==
  ASSUME NEW I, Defines(I), ~ NeedsAddress(I), NEW pc, NEW va, NEW a, NEW r, NEW c, NEW x, NEW m,
         NEW f, Ready(I, va, a, r, f), NEW d, NEW u,
         HostFold!Fold(Host(a, r, c, x, m), SelectInst(I, pc, va))
           = Host(a, Put(r, a[VRegOf(I.dest)], u), d, x, m),
         u = IF I.kind = "Trunc" THEN f[I.args[1]] ELSE IRValue(Running(f, x, m, pc), I)
  PROVE  Performs(I, pc, va, a, r, c, x, m, f)
<1>. DEFINE p == a[VRegOf(I.dest)]
            s == Put(r, p, u)
<1>1. p \in DOMAIN r
  BY DEF Ready
<1>2. s[p] = u /\ Others(r, s, {p})
  BY <1>1, PutOthers
<1>3. {a[v] : v \in SelectWrites(I, va)} = {p}
  BY DEF SelectWrites
<1>. HIDE DEF p
<1>4. HostFold!Fold(Host(a, r, c, x, m), SelectInst(I, pc, va)) = Host(a, s, d, x, m)
  BY DEF p
<1>. HIDE DEF s
<1>. QED
  BY <1>2, <1>3, <1>4 DEF Performs, p

\* The code of every instruction of IR does what the instruction does.
LEMMA SelectPerforms ==
  ASSUME NEW R, NEW C, NEW I, Formed(I, R, C), NEW pc, NEW va, NEW a, NEW r, NEW c, NEW x, NEW m,
         NEW f, Ready(I, va, a, r, f)
  PROVE  Performs(I, pc, va, a, r, c, x, m, f)
<1>. DEFINE h == Host(a, r, c, x, m)
            s == Running(f, x, m, pc)
            d == VRegOf(I.dest)
            v == VRegOf(I.args[1])
            w == VRegOf(I.args[2])
            q == SelectInst(I, pc, va)
            at(u) == Host(a, Put(r, a[d], u), c, x, m)
<1>1. Selectable(I)
  BY DEF Formed
<1>2. s.env = f /\ s.x = x /\ s.mem = m /\ s.start = pc
  BY DEF Running
<1>3. I.kind \in {"SExt", "ZExt"} => I.what = "I64"
  BY DEF Formed
<1>4. CASE I.kind = "ReadReg"
  <2>. DEFINE J == Instr("LdrX", <<RegV(d), Mem(0, 8 * I.reg)>>)
              u == x[I.reg]
  <2>1. Defines(I) /\ ~ NeedsAddress(I)
    BY <1>1, <1>4 DEF Defines, NeedsAddress, Selectable
  <2>2. q = <<J>>
    BY <1>4 DEF SelectInst
  <2>3. Execute(h, J) = at(u)
    <3>1. I.reg \in Nat
      BY <1>1 DEF Selectable
    <3>. QED
      <4>. DEFINE n == I.reg
      <4>1. n \in Nat
        BY <3>1
      <4>. HIDE DEF n, d
      <4>2. Execute(h, Instr("LdrX", <<RegV(d), Mem(0, 8 * n)>>)) = at(x[n])
        BY <4>1, HostReadReg
      <4>. QED
        BY <4>2 DEF n
  <2>4. HostFold!Fold(h, q) = at(u)
    <3>. HIDE DEF h, J, at, u, q
    <3>. QED
      BY <2>2, <2>3, HostFold!FoldOne
  <2>5. u = IRValue(s, I)
    <3>. HIDE DEF s
    <3>. QED
      BY <1>4, <1>2 DEF IRValue
  <2>. HIDE DEF u
  <2>. QED
    BY <1>4, <2>1, <2>4, <2>5, OneWrite
<1>5. CASE I.kind = "GetPC"
  <2>. DEFINE J == Instr("Mov", <<RegV(d), Imm(pc)>>)
              u == pc
  <2>1. Defines(I) /\ ~ NeedsAddress(I)
    BY <1>1, <1>5 DEF Defines, NeedsAddress, Selectable
  <2>2. q = <<J>>
    BY <1>5 DEF SelectInst
  <2>3. Execute(h, J) = at(u)
    BY HostImm
  <2>4. HostFold!Fold(h, q) = at(u)
    <3>. HIDE DEF h, J, at, u, q
    <3>. QED
      BY <2>2, <2>3, HostFold!FoldOne
  <2>5. u = IRValue(s, I)
    <3>. HIDE DEF s
    <3>. QED
      BY <1>5, <1>2 DEF IRValue
  <2>. HIDE DEF u
  <2>. QED
    BY <1>5, <2>1, <2>4, <2>5, OneWrite
<1>6. CASE I.kind = "SExt"
  <2>. DEFINE J == Instr("Sxtw", <<RegV(d), RegV(v)>>)
              u == SextHalf(r[a[v]])
  <2>1. Defines(I) /\ ~ NeedsAddress(I) /\ Len(I.args) = 1
    BY <1>1, <1>6 DEF Defines, NeedsAddress, Selectable
  <2>2. q = <<J>>
    BY <1>6, <1>3 DEF SelectInst
  <2>3. Execute(h, J) = at(u)
    BY HostSxtw
  <2>4. HostFold!Fold(h, q) = at(u)
    <3>. HIDE DEF h, J, at, u, q
    <3>. QED
      BY <2>2, <2>3, HostFold!FoldOne
  <2>5. u = IRValue(s, I)
    <3>. HIDE DEF s
    <3>. QED
      BY <1>6, <1>2, <2>1, Operand DEF IRValue
  <2>. HIDE DEF u
  <2>. QED
    BY <1>6, <2>1, <2>4, <2>5, OneWrite
<1>7. CASE I.kind = "ZExt"
  <2>. DEFINE J == Instr("Uxtw", <<RegV(d), RegV(v)>>)
              u == Low(r[a[v]])
  <2>1. Defines(I) /\ ~ NeedsAddress(I) /\ Len(I.args) = 1
    BY <1>1, <1>7 DEF Defines, NeedsAddress, Selectable
  <2>2. q = <<J>>
    BY <1>7, <1>3 DEF SelectInst
  <2>3. Execute(h, J) = at(u)
    BY HostUxtw
  <2>4. HostFold!Fold(h, q) = at(u)
    <3>. HIDE DEF h, J, at, u, q
    <3>. QED
      BY <2>2, <2>3, HostFold!FoldOne
  <2>5. u = IRValue(s, I)
    <3>. HIDE DEF s
    <3>. QED
      BY <1>7, <1>2, <2>1, Operand DEF IRValue
  <2>. HIDE DEF u
  <2>. QED
    BY <1>7, <2>1, <2>4, <2>5, OneWrite
<1>8. CASE I.kind = "Trunc"
  <2>. DEFINE J == Instr("Mov", <<RegV(d), RegV(v)>>)
              u == r[a[v]]
  <2>1. Defines(I) /\ ~ NeedsAddress(I) /\ Len(I.args) = 1
    BY <1>1, <1>8 DEF Defines, NeedsAddress, Selectable
  <2>2. q = <<J>>
    BY <1>8 DEF SelectInst
  <2>3. Execute(h, J) = at(u)
    BY HostMov
  <2>4. HostFold!Fold(h, q) = at(u)
    <3>. HIDE DEF h, J, at, u, q
    <3>. QED
      BY <2>2, <2>3, HostFold!FoldOne
  <2>5. u = f[I.args[1]]
    <3>. HIDE DEF s
    <3>. QED
      BY <1>8, <1>2, <2>1, Operand DEF IRValue
  <2>. HIDE DEF u
  <2>. QED
    BY <1>8, <2>1, <2>4, <2>5, OneWrite
<1>9. CASE I.kind = "BinOp"
  <2>. DEFINE J == Instr(OpOfBinOp[I.what], <<RegV(d), RegV(v), RegV(w)>>)
              u == WordOp(I.what, r[a[v]], r[a[w]])
  <2>1. Defines(I) /\ ~ NeedsAddress(I) /\ Len(I.args) = 2
    BY <1>1, <1>9 DEF Defines, NeedsAddress, Selectable
  <2>2. q = <<J>>
    BY <1>9 DEF SelectInst
  <2>3. Execute(h, J) = at(u)
    <3>1. I.what \in DOMAIN OpOfBinOp
      BY <1>1, <1>9 DEF Selectable
    <3>. QED
      <4>. DEFINE o == I.what
      <4>1. o \in DOMAIN OpOfBinOp
        BY <3>1
      <4>. HIDE DEF o, d, v, w
      <4>2. Execute(h, Instr(OpOfBinOp[o], <<RegV(d), RegV(v), RegV(w)>>))
              = at(WordOp(o, r[a[v]], r[a[w]]))
        BY <4>1, HostBinOp
      <4>. QED
        BY <4>2 DEF o
  <2>4. HostFold!Fold(h, q) = at(u)
    <3>. HIDE DEF h, J, at, u, q
    <3>. QED
      BY <2>2, <2>3, HostFold!FoldOne
  <2>5. u = IRValue(s, I)
    <3>. HIDE DEF s
    <3>. QED
      BY <1>9, <1>2, <2>1, Operand DEF IRValue
  <2>. HIDE DEF u
  <2>. QED
    BY <1>9, <2>1, <2>4, <2>5, OneWrite
<1>10. CASE I.kind = "Const"
  <2>1. Defines(I) /\ ~ NeedsAddress(I) /\ I.imm \in Word
    BY <1>10 DEF Defines, NeedsAddress, Formed
  <2>2. q = SelectConst(d, I.imm)
    BY <1>10 DEF SelectInst
  <2>3. a[d] \in DOMAIN r
    BY <2>1 DEF Ready
  <2>4. HostFold!Fold(h, q) = at(I.imm)
    <3>1. HostFold!Fold(h, SelectConst(d, I.imm)) = at(I.imm)
      <4>. DEFINE n == I.imm
      <4>1. n \in Word
        BY <2>1
      <4>. HIDE DEF n, d
      <4>2. HostFold!Fold(h, SelectConst(d, n)) = at(n)
        BY <2>3, <4>1, HostConst
      <4>. QED
        BY <4>2 DEF n
    <3>. QED
      BY <2>2, <3>1
  <2>5. I.imm = IRValue(s, I)
    <3>. HIDE DEF s
    <3>. QED
      BY <1>10, <1>2 DEF IRValue
  <2>. QED
    BY <1>10, <2>1, <2>4, <2>5, OneWrite
<1>11. CASE I.kind = "ICmp"
  <2>. DEFINE u == IF Holds(I.what, r[a[v]], r[a[w]]) THEN 1 ELSE 0
              J == Instr("Cmp", <<RegV(v), RegV(w)>>)
              K == Instr(CsetOf[I.what], <<RegV(d)>>)
              o == <<r[a[v]], r[a[w]]>>
  <2>1. Defines(I) /\ ~ NeedsAddress(I) /\ Len(I.args) = 2 /\ I.what \in DOMAIN CsetOf
    BY <1>1, <1>11 DEF Defines, NeedsAddress, Selectable
  <2>2. q = <<J, K>>
    BY <1>11 DEF SelectInst
  <2>3. Execute(h, J) = Host(a, r, o, x, m)
    BY HostCmp
  <2>4. Execute(Host(a, r, o, x, m), K) = Host(a, Put(r, a[d], u), o, x, m)
    BY <2>1, HostCset
  <2>5. HostFold!Fold(h, q) = Host(a, Put(r, a[d], u), o, x, m)
    <3>. HIDE DEF h, J, K, u, q, o
    <3>. QED
      BY <2>2, <2>3, <2>4, HostFold!FoldTwo
  <2>6. u = IRValue(s, I)
    <3>. HIDE DEF s
    <3>. QED
      BY <1>11, <1>2, <2>1, Operand DEF IRValue
  <2>. HIDE DEF u, o
  <2>. QED
    BY <1>11, <2>1, <2>5, <2>6, OneWrite
<1>12. CASE I.kind = "WriteReg"
  <2>. DEFINE J == Instr("StrX", <<RegV(v), Mem(0, 8 * I.reg)>>)
              y == Put(x, I.reg, r[a[v]])
  <2>1. ~ Defines(I) /\ ~ NeedsAddress(I) /\ Len(I.args) = 1 /\ I.reg \in Nat
    BY <1>1, <1>12 DEF Defines, NeedsAddress, Selectable
  <2>2. q = <<J>>
    BY <1>12 DEF SelectInst
  <2>3. Execute(h, J) = Host(a, r, c, y, m)
    BY <2>1, HostWriteReg
  <2>4. HostFold!Fold(h, q) = Host(a, r, c, y, m)
    <3>. HIDE DEF h, J, q, y
    <3>. QED
      BY <2>2, <2>3, HostFold!FoldOne
  <2>5. y = [x EXCEPT ![I.reg] = f[I.args[1]]]
    BY <2>1, Operand DEF Put
  <2>6. IRStep(s, I) = Running(f, y, m, pc)
    <3>1. IRStep(s, I) = IRWrite(s, I)
      BY <1>12 DEF IRStep
    <3>2. IRWrite(s, I) = Running(f, [x EXCEPT ![I.reg] = f[I.args[1]]], m, pc)
      BY DEF IRWrite, Running
    <3>. HIDE DEF y
    <3>. QED
      BY <2>5, <3>1, <3>2
  <2>7. Others(r, r, {a[u] : u \in SelectWrites(I, va)})
    BY DEF Others
  <2>. HIDE DEF y
  <2>. QED
    BY <2>1, <2>4, <2>6, <2>7 DEF Performs
<1>13. CASE I.kind = "Load"
  <2>. DEFINE b == Wrap(r[a[v]] + MemBase)
              r1 == Put(r, a[va], b)
              u == Load(m, I.what, r[a[v]] + I.imm)
              r2 == Put(r1, a[d], u)
              A == SelectAddress(va, v)
              J == Instr(IF I.what = "I32" THEN "LdrW" ELSE "LdrX", <<RegV(d), Mem(va, I.imm)>>)
  <2>1. Defines(I) /\ NeedsAddress(I) /\ Len(I.args) = 1 /\ I.imm \in Int
        /\ I.what \in {"I32", "I64"}
    BY <1>1, <1>13 DEF Defines, NeedsAddress, Selectable, Formed
  <2>2. q = <<A, J>>
    BY <1>13 DEF SelectInst
  <2>3. /\ va # 0 /\ a[va] \in DOMAIN r /\ r[21] = MemBase /\ a[d] \in DOMAIN r
        /\ r[a[v]] = f[I.args[1]] /\ r[a[v]] \in Int
    <3>1. r[a[v]] = f[I.args[1]] /\ f[I.args[1]] \in Word
      BY <2>1, Operand
    <3>2. va # 0 /\ a[va] \in DOMAIN r /\ r[21] = MemBase /\ a[d] \in DOMAIN r
      BY <2>1 DEF Ready
    <3>. QED
      BY <3>1, <3>2, Widths
  <2>4. Execute(h, A) = Host(a, r1, c, x, m)
    BY <2>3, HostAddress
  <2>5. r1[a[va]] = b /\ Others(r, r1, {a[va]}) /\ DOMAIN r1 = DOMAIN r
    <3>. HIDE DEF b
    <3>. QED
      BY <2>3, PutOthers, SMTT(20)
  <2>6. \A ty : Load(m, ty, b + I.imm - MemBase) = Load(m, ty, r[a[v]] + I.imm)
    <3>. DEFINE y == r[a[v]]
    <3>1. y \in Int
      BY <2>3
    <3>. HIDE DEF y
    <3>2. \A ty : Load(m, ty, Wrap(y + MemBase) + I.imm - MemBase) = Load(m, ty, y + I.imm)
      BY <2>1, <3>1, AddressOf
    <3>. QED
      BY <3>2 DEF y
  <2>7. Execute(Host(a, r1, c, x, m), J) = Host(a, r2, c, x, m)
    <3>. HIDE DEF r1, b, d, v
    <3>1. CASE I.what = "I32"
      <4>1. J = Instr("LdrW", <<RegV(d), Mem(va, I.imm)>>)
        BY <3>1
      <4>2. Execute(Host(a, r1, c, x, m), Instr("LdrW", <<RegV(d), Mem(va, I.imm)>>))
              = Host(a, Put(r1, a[d], Load(m, "I32", r1[a[va]] + I.imm - MemBase)), c, x, m)
        BY <2>3, HostLdrW
      <4>. QED
        BY <2>5, <2>6, <3>1, <4>1, <4>2
    <3>2. CASE I.what = "I64"
      <4>1. J = Instr("LdrX", <<RegV(d), Mem(va, I.imm)>>)
        BY <3>2
      <4>2. Execute(Host(a, r1, c, x, m), Instr("LdrX", <<RegV(d), Mem(va, I.imm)>>))
              = Host(a, Put(r1, a[d], Load(m, "I64", r1[a[va]] + I.imm - MemBase)), c, x, m)
        BY <2>3, HostLdrX
      <4>. QED
        BY <2>5, <2>6, <3>2, <4>1, <4>2
    <3>. QED
      BY <2>1, <3>1, <3>2
  <2>8. HostFold!Fold(h, q) = Host(a, r2, c, x, m)
    <3>. HIDE DEF h, A, J, r1, r2, q
    <3>. QED
      BY <2>2, <2>4, <2>7, HostFold!FoldTwo
  <2>9. u = IRValue(s, I)
    <3>. HIDE DEF s
    <3>. QED
      BY <1>13, <1>2, <2>3 DEF IRValue
  <2>10. r2[a[d]] = u /\ Others(r1, r2, {a[d]})
    <3>. DEFINE p == a[d]
    <3>1. p \in DOMAIN r1
      BY <2>3, <2>5
    <3>. HIDE DEF r1, u, p
    <3>2. Put(r1, p, u)[p] = u /\ Others(r1, Put(r1, p, u), {p})
      BY <3>1, PutOthers
    <3>. QED
      BY <3>2 DEF p
  <2>11. {a[y] : y \in SelectWrites(I, va)} = {a[d], a[va]}
    BY <2>1 DEF SelectWrites
  <2>. HIDE DEF r1, r2, u, d
  <2>12. Others(r, r2, {a[d], a[va]})
    BY <2>5, <2>10 DEF Others
  <2>. QED
    BY <1>13, <2>1, <2>8, <2>9, <2>10, <2>11, <2>12 DEF Performs, d
<1>14. CASE I.kind = "Store"
  <2>. DEFINE b == Wrap(r[a[w]] + MemBase)
              r1 == Put(r, a[va], b)
              n == Store(m, I.what, r[a[w]] + I.imm, r[a[v]])
              A == SelectAddress(va, w)
              J == Instr(IF I.what = "I32" THEN "StrW" ELSE "StrX", <<RegV(v), Mem(va, I.imm)>>)
  <2>1. ~ Defines(I) /\ NeedsAddress(I) /\ Len(I.args) = 2 /\ I.imm \in Int
        /\ I.what \in {"I32", "I64"}
    BY <1>1, <1>14 DEF Defines, NeedsAddress, Selectable, Formed
  <2>2. q = <<A, J>>
    BY <1>14 DEF SelectInst
  <2>3. /\ va # 0 /\ a[va] \in DOMAIN r /\ r[21] = MemBase /\ a[va] # a[v]
        /\ r[a[w]] = f[I.args[2]] /\ r[a[w]] \in Int /\ r[a[v]] = f[I.args[1]]
    <3>1. /\ r[a[w]] = f[I.args[2]] /\ f[I.args[2]] \in Word
          /\ r[a[v]] = f[I.args[1]] /\ I.args[1] \in Uses(I)
      BY <2>1, Operand
    <3>2. va # 0 /\ a[va] \in DOMAIN r /\ r[21] = MemBase
      BY <2>1 DEF Ready
    <3>3. a[va] # a[v]
      BY <2>1, <3>1 DEF Ready
    <3>. QED
      BY <3>1, <3>2, <3>3, Widths
  <2>4. Execute(h, A) = Host(a, r1, c, x, m)
    BY <2>3, HostAddress
  <2>5. /\ r1[a[va]] = b /\ Others(r, r1, {a[va]}) /\ DOMAIN r1 = DOMAIN r
        /\ r1[a[v]] = r[a[v]]
    <3>. DEFINE p == a[va]
    <3>1. p \in DOMAIN r /\ a[v] # p
      BY <2>3
    <3>. HIDE DEF b, p
    <3>2. /\ Put(r, p, b)[p] = b /\ Others(r, Put(r, p, b), {p})
          /\ DOMAIN Put(r, p, b) = DOMAIN r /\ \A y : y # p => Put(r, p, b)[y] = r[y]
      BY <3>1, PutOthers, SMTT(20)
    <3>. QED
      BY <3>1, <3>2 DEF p
  <2>6. \A ty, g : Store(m, ty, b + I.imm - MemBase, g) = Store(m, ty, r[a[w]] + I.imm, g)
    <3>. DEFINE y == r[a[w]]
    <3>1. y \in Int
      BY <2>3
    <3>. HIDE DEF y
    <3>2. \A ty, g : Store(m, ty, Wrap(y + MemBase) + I.imm - MemBase, g)
                       = Store(m, ty, y + I.imm, g)
      BY <2>1, <3>1, AddressOf
    <3>. QED
      BY <3>2 DEF y
  <2>7. Execute(Host(a, r1, c, x, m), J) = Host(a, r1, c, x, n)
    <3>. HIDE DEF r1, b, v
    <3>1. CASE I.what = "I32"
      <4>1. J = Instr("StrW", <<RegV(v), Mem(va, I.imm)>>)
        BY <3>1
      <4>2. Execute(Host(a, r1, c, x, m), Instr("StrW", <<RegV(v), Mem(va, I.imm)>>))
              = Host(a, r1, c, x, Store(m, "I32", r1[a[va]] + I.imm - MemBase, r1[a[v]]))
        BY <2>3, HostStrW
      <4>. QED
        BY <2>5, <2>6, <3>1, <4>1, <4>2
    <3>2. CASE I.what = "I64"
      <4>1. J = Instr("StrX", <<RegV(v), Mem(va, I.imm)>>)
        BY <3>2
      <4>2. Execute(Host(a, r1, c, x, m), Instr("StrX", <<RegV(v), Mem(va, I.imm)>>))
              = Host(a, r1, c, x, Store(m, "I64", r1[a[va]] + I.imm - MemBase, r1[a[v]]))
        BY <2>3, HostStrX
      <4>. QED
        BY <2>5, <2>6, <3>2, <4>1, <4>2
    <3>. QED
      BY <2>1, <3>1, <3>2
  <2>8. HostFold!Fold(h, q) = Host(a, r1, c, x, n)
    <3>. HIDE DEF h, A, J, r1, q, n
    <3>. QED
      BY <2>2, <2>4, <2>7, HostFold!FoldTwo
  <2>9. IRStep(s, I) = Running(f, x, n, pc)
    <3>1. IRStep(s, I) = IRToMemory(s, I)
      BY <1>14 DEF IRStep
    <3>2. IRToMemory(s, I)
            = Running(f, x, Store(m, I.what, f[I.args[2]] + I.imm, f[I.args[1]]), pc)
      BY DEF IRToMemory, Running
    <3>. QED
      BY <2>3, <3>1, <3>2
  <2>10. {a[y] : y \in SelectWrites(I, va)} = {a[va]}
    BY <2>1 DEF SelectWrites
  <2>. HIDE DEF r1, n
  <2>. QED
    BY <2>1, <2>5, <2>8, <2>9, <2>10 DEF Performs
<1>. QED
  BY <1>1, <1>4, <1>5, <1>6, <1>7, <1>8, <1>9, <1>10, <1>11, <1>12, <1>13, <1>14 DEF Selectable

\* Operands of I: the values e, and what host registers hold in their stead.
\* Half words, which casts to a word alone take, may have bits above.
Stands(I, e, f) ==
  \A v \in Uses(I) : /\ e[v] \in Word /\ f[v] \in Word
                     /\ f[v] = e[v] \/ (I.kind = "SExt" /\ Low(f[v]) = e[v])

\* What is computed of them.
LEMMA SameValue ==
  ASSUME NEW R, NEW C, NEW I, Formed(I, R, C), Defines(I),
         NEW x \in [R -> Word], NEW m \in [C -> Half], NEW pc \in Word,
         NEW e, NEW f, Stands(I, e, f)
  PROVE  LET v == IRValue(Running(e, x, m, pc), I)
         IN /\ v \in Word
            /\ I.kind # "Trunc" => IRValue(Running(f, x, m, pc), I) = v
            /\ I.kind = "Trunc" => Low(f[I.args[1]]) = v /\ f[I.args[1]] \in Word
<1>. DEFINE s == Running(e, x, m, pc)
            h == Running(f, x, m, pc)
<1>1. /\ s.env = e /\ s.x = x /\ s.mem = m /\ s.start = pc
      /\ h.env = f /\ h.x = x /\ h.mem = m /\ h.start = pc
  BY DEF Running
<1>2. Selectable(I)
  BY DEF Formed
<1>3. ASSUME Len(I.args) \in {1, 2}
      PROVE  /\ e[I.args[1]] \in Word /\ f[I.args[1]] \in Word
             /\ I.kind # "SExt" => f[I.args[1]] = e[I.args[1]]
             /\ I.kind = "SExt" => f[I.args[1]] = e[I.args[1]] \/ Low(f[I.args[1]]) = e[I.args[1]]
  <2>1. I.args[1] \in Uses(I)
    BY <1>3 DEF Uses
  <2>. QED
    BY <2>1 DEF Stands
<1>4. ASSUME Len(I.args) = 2, I.kind # "SExt"
      PROVE  e[I.args[2]] \in Word /\ f[I.args[2]] = e[I.args[2]]
  <2>1. I.args[2] \in Uses(I)
    BY <1>4 DEF Uses
  <2>. QED
    BY <1>4, <2>1 DEF Stands
<1>5. Half \subseteq Word /\ Word \subseteq Int /\ 0 \in Word /\ 1 \in Word
  <2>1. 2 <= 2 ^ Width
    <3>1. Width - 1 \in Nat /\ (Width - 1) + 1 = Width
      BY Widths
    <3>2. 2 ^ ((Width - 1) + 1) = 2 ^ (Width - 1) + 2 ^ (Width - 1) /\ 2 ^ (Width - 1) \in Nat \ {0}
      BY <3>1, Doubling, Powers
    <3>. QED
      BY <3>1, <3>2
  <2>. QED
    BY <2>1, Widths, TwoHalves DEF Word
<1>. HIDE DEF s, h
<1>6. CASE I.kind = "Const"
  <2>1. IRValue(s, I) = I.imm /\ IRValue(h, I) = I.imm
    BY <1>6 DEF IRValue
  <2>. QED
    BY <1>6, <2>1 DEF Formed, s, h
<1>7. CASE I.kind = "GetPC"
  <2>1. IRValue(s, I) = pc /\ IRValue(h, I) = pc
    BY <1>1, <1>7 DEF IRValue
  <2>. QED
    BY <1>7, <2>1 DEF s, h
<1>8. CASE I.kind = "ReadReg"
  <2>1. IRValue(s, I) = x[I.reg] /\ IRValue(h, I) = x[I.reg]
    BY <1>1, <1>8 DEF IRValue
  <2>2. I.reg \in R
    BY <1>8 DEF Formed
  <2>. QED
    BY <1>8, <2>1, <2>2 DEF s, h
<1>9. CASE I.kind = "BinOp"
  <2>1. Len(I.args) = 2 /\ I.what \in DOMAIN OpOfBinOp
    BY <1>2, <1>9 DEF Selectable
  <2>2. /\ IRValue(s, I) = WordOp(I.what, e[I.args[1]], e[I.args[2]])
        /\ IRValue(h, I) = WordOp(I.what, f[I.args[1]], f[I.args[2]])
    BY <1>1, <1>9 DEF IRValue
  <2>3. I.what \in {"Add", "Sub", "And", "Or", "Xor", "Shl", "LShr", "AShr"}
    BY <2>1 DEF OpOfBinOp
  <2>4. /\ e[I.args[1]] \in Word /\ f[I.args[1]] = e[I.args[1]]
        /\ e[I.args[2]] \in Word /\ f[I.args[2]] = e[I.args[2]]
    BY <1>3, <1>4, <1>9, <2>1
  <2>5. WordOp(I.what, e[I.args[1]], e[I.args[2]]) \in Word
    BY <2>3, <2>4, WordOpTyped
  <2>. QED
    BY <1>9, <2>2, <2>4, <2>5 DEF s, h
<1>10. CASE I.kind = "ICmp"
  <2>1. Len(I.args) = 2
    BY <1>2, <1>10 DEF Selectable
  <2>2. /\ IRValue(s, I) = IF Holds(I.what, e[I.args[1]], e[I.args[2]]) THEN 1 ELSE 0
        /\ IRValue(h, I) = IF Holds(I.what, f[I.args[1]], f[I.args[2]]) THEN 1 ELSE 0
    BY <1>1, <1>10 DEF IRValue
  <2>3. f[I.args[1]] = e[I.args[1]] /\ f[I.args[2]] = e[I.args[2]]
    BY <1>3, <1>4, <1>10, <2>1
  <2>. QED
    BY <1>5, <1>10, <2>2, <2>3 DEF s, h
<1>11. CASE I.kind = "SExt"
  <2>. DEFINE a == e[I.args[1]]
              b == f[I.args[1]]
  <2>1. Len(I.args) = 1
    BY <1>2, <1>11 DEF Selectable
  <2>2. IRValue(s, I) = SextHalf(a) /\ IRValue(h, I) = SextHalf(b)
    BY <1>1, <1>11 DEF IRValue
  <2>3. a \in Int /\ b \in Int /\ (b = a \/ Low(b) = a)
    BY <1>3, <1>5, <1>11, <2>1
  <2>. HIDE DEF a, b
  <2>4. b % 2 ^ HalfWidth = a % 2 ^ HalfWidth
    BY <2>3, Widths
  <2>5. SextHalf(b) = SextHalf(a)
    BY <2>4 DEF SextHalf, Signed
  <2>6. SextHalf(a) \in Word
    BY <2>3, SextHalfTyped
  <2>. QED
    BY <1>11, <2>2, <2>5, <2>6 DEF s, h
<1>12. CASE I.kind \in {"ZExt", "Trunc"}
  <2>1. Len(I.args) = 1
    BY <1>2, <1>12 DEF Selectable
  <2>2. IRValue(s, I) = Low(e[I.args[1]]) /\ IRValue(h, I) = Low(f[I.args[1]])
    BY <1>1, <1>12 DEF IRValue
  <2>3. e[I.args[1]] \in Word /\ f[I.args[1]] = e[I.args[1]]
    BY <1>3, <1>12, <2>1
  <2>4. Low(e[I.args[1]]) \in Word
    BY <1>5, <2>3, Widths
  <2>. QED
    BY <1>12, <2>2, <2>3, <2>4 DEF s, h
<1>13. CASE I.kind = "Load"
  <2>. DEFINE a == e[I.args[1]] + I.imm
  <2>1. Len(I.args) = 1 /\ I.imm \in Int /\ I.what \in {"I32", "I64"} /\ C = Word
    BY <1>2, <1>13 DEF Selectable, Formed
  <2>2. e[I.args[1]] \in Word /\ f[I.args[1]] = e[I.args[1]]
    BY <1>3, <1>13, <2>1
  <2>3. IRValue(s, I) = Load(m, I.what, a) /\ IRValue(h, I) = Load(m, I.what, a)
    BY <1>1, <1>13, <2>2 DEF IRValue
  <2>4. a \in Int
    BY <1>5, <2>1, <2>2
  <2>. HIDE DEF a
  <2>5. Load(m, "I32", a) \in Half /\ Load(m, "I64", a) \in Word
    BY <2>1, <2>4, LoadTyped
  <2>. QED
    BY <1>5, <1>13, <2>1, <2>3, <2>5 DEF s, h
<1>. QED
  BY <1>2, <1>6, <1>7, <1>8, <1>9, <1>10, <1>11, <1>12, <1>13 DEF Selectable, Defines

\* What is done with them to the registers and the memory of the guest.
LEMMA SameEffect ==
  ASSUME NEW R, NEW C, NEW I, Formed(I, R, C), ~ Defines(I),
         NEW x \in [R -> Word], NEW m \in [C -> Half], NEW pc,
         NEW e, NEW f, Stands(I, e, f), NEW y, NEW n,
         IRStep(Running(f, x, m, pc), I) = Running(f, y, n, pc)
  PROVE  /\ IRStep(Running(e, x, m, pc), I) = Running(e, y, n, pc)
         /\ y \in [R -> Word] /\ n \in [C -> Half]
<1>1. Selectable(I)
  BY DEF Formed
<1>2. \A g : IRWrite(Running(g, x, m, pc), I) = Running(g, [x EXCEPT ![I.reg] = g[I.args[1]]], m, pc)
  BY DEF IRWrite, Running
<1>3. \A g : IRToMemory(Running(g, x, m, pc), I)
               = Running(g, x, Store(m, I.what, g[I.args[2]] + I.imm, g[I.args[1]]), pc)
  BY DEF IRToMemory, Running
<1>4. \A u, v, w, g : Running(f, u, v, pc) = Running(f, w, g, pc) => u = w /\ v = g
  BY DEF Running
<1>5. Word \subseteq Int
  BY Widths
<1>6. ASSUME Len(I.args) \in {1, 2}, I.kind # "SExt"
      PROVE  e[I.args[1]] \in Word /\ f[I.args[1]] = e[I.args[1]]
  <2>1. I.args[1] \in Uses(I)
    BY <1>6 DEF Uses
  <2>. QED
    BY <1>6, <2>1 DEF Stands
<1>7. ASSUME Len(I.args) = 2, I.kind # "SExt"
      PROVE  e[I.args[2]] \in Word /\ f[I.args[2]] = e[I.args[2]]
  <2>1. I.args[2] \in Uses(I)
    BY <1>7 DEF Uses
  <2>. QED
    BY <1>7, <2>1 DEF Stands
<1>8. CASE I.kind = "WriteReg"
  <2>1. Len(I.args) = 1
    BY <1>1, <1>8 DEF Selectable
  <2>2. \A g : IRStep(Running(g, x, m, pc), I) = IRWrite(Running(g, x, m, pc), I)
    BY <1>8 DEF IRStep
  <2>3. e[I.args[1]] \in Word /\ f[I.args[1]] = e[I.args[1]]
    BY <1>6, <1>8, <2>1
  <2>4. y = [x EXCEPT ![I.reg] = e[I.args[1]]] /\ n = m
    <3>. DEFINE w == [x EXCEPT ![I.reg] = f[I.args[1]]]
    <3>1. IRStep(Running(f, x, m, pc), I) = Running(f, w, m, pc)
      BY <1>2, <2>2
    <3>2. w = [x EXCEPT ![I.reg] = e[I.args[1]]]
      BY <2>3
    <3>. HIDE DEF w
    <3>3. y = w /\ n = m
      BY <1>4, <3>1
    <3>. QED
      BY <3>2, <3>3
  <2>5. y \in [R -> Word]
    BY <2>3, <2>4
  <2>. QED
    BY <1>2, <2>2, <2>4, <2>5
<1>9. CASE I.kind = "Store"
  <2>1. Len(I.args) = 2 /\ I.imm \in Int
    BY <1>1, <1>9 DEF Selectable
  <2>2. \A g : IRStep(Running(g, x, m, pc), I) = IRToMemory(Running(g, x, m, pc), I)
    BY <1>9 DEF IRStep
  <2>3. /\ e[I.args[1]] \in Word /\ f[I.args[1]] = e[I.args[1]]
        /\ e[I.args[2]] \in Word /\ f[I.args[2]] = e[I.args[2]]
    BY <1>6, <1>7, <1>9, <2>1
  <2>4. y = x /\ n = Store(m, I.what, e[I.args[2]] + I.imm, e[I.args[1]])
    BY <1>3, <1>4, <2>2, <2>3
  <2>5. e[I.args[2]] + I.imm \in Int
    BY <1>5, <2>1, <2>3
  <2>6. n \in [C -> Half]
    BY <2>3, <2>4, <2>5, StoreTyped
  <2>. QED
    BY <1>3, <2>2, <2>4, <2>6
<1>. QED
  BY <1>8, <1>9 DEF Defines

\* A register of its own for each of n virtual ones, behind those of the host.
Own(n) == [v \in 1 .. n |-> 31 + v]

\* After i instructions of the IR t: h runs with a register for each virtual
\* one and is where s is, and the values that t has defined are in theirs; of
\* the low half of a value it has the value.
Mirrors(t, i, n, pc, R, C, s, h) ==
  \E e, r, c, x, m :
    /\ s = Running(e, x, m, pc) /\ h = Host(Own(n), r, c, x, m)
    /\ x \in [R -> Word] /\ m \in [C -> Half]
    /\ DOMAIN r = 0 .. 31 + n /\ r[21] = MemBase
    /\ \A j \in 1 .. i : Defines(t[j]) =>
         /\ j - 1 \in DOMAIN e /\ e[j - 1] \in Word /\ r[31 + j] \in Word
         /\ t[j].kind # "Trunc" => r[31 + j] = e[j - 1]
         /\ t[j].kind = "Trunc" => Low(r[31 + j]) = e[j - 1]

LEMMA MirrorsMore ==
  ASSUME NEW R, NEW C, NEW pc \in Word, NEW t, SSA(t, 0), AllFormed(t, R, C), Extended(t, 0),
         NEW i \in Nat, i + 1 <= Len(t), NEW z \in Nat, Len(t) + 1 <= z, z <= Len(t) + 1 + i,
         NEW s, NEW h, Mirrors(t, i, 2 * Len(t) + 1, pc, R, C, s, h)
  PROVE  Mirrors(t, i + 1, 2 * Len(t) + 1, pc, R, C, IRStep(s, t[i + 1]),
                 HostFold!Fold(h, SelectInst(t[i + 1], pc, z + 1)))
<1>. DEFINE N == Len(t)
            n == 2 * N + 1
            I == t[i + 1]
            q == SelectInst(I, pc, z + 1)
            Value(e, r, j) == /\ j - 1 \in DOMAIN e /\ e[j - 1] \in Word /\ r[31 + j] \in Word
                              /\ t[j].kind # "Trunc" => r[31 + j] = e[j - 1]
                              /\ t[j].kind = "Trunc" => Low(r[31 + j]) = e[j - 1]
<1>1. N \in Nat
  BY DEF SSA, IsSequence
<1>2. /\ i + 1 \in 1 .. N /\ n \in Nat /\ i + 1 \in 1 .. n /\ z + 1 \in 1 .. n /\ z + 1 > N
      /\ 1 .. i \subseteq 1 .. n
  BY <1>1
<1>3. PICK e, r, c, x, m :
        /\ s = Running(e, x, m, pc) /\ h = Host(Own(n), r, c, x, m)
        /\ x \in [R -> Word] /\ m \in [C -> Half]
        /\ DOMAIN r = 0 .. 31 + n /\ r[21] = MemBase
        /\ \A j \in 1 .. i : Defines(t[j]) => Value(e, r, j)
  BY DEF Mirrors
<1>. HIDE DEF N, n
<1>4. Formed(I, R, C)
  BY <1>2 DEF AllFormed, N
<1>5. I.dest = IF Defines(I) THEN i ELSE NoValue
  <2>1. 0 + (i + 1) - 1 = i
    OBVIOUS
  <2>2. I.dest = IF Defines(I) THEN 0 + (i + 1) - 1 ELSE NoValue
    BY <1>2 DEF SSA, N
  <2>. QED
    BY <2>1, <2>2
<1>6. \A v \in Uses(I) : \E j \in 1 .. i : Defines(t[j]) /\ v = j - 1
  <2>1. \A v \in Uses(I) : \E j \in 1 .. (i + 1) - 1 : Defines(t[j]) /\ v = 0 + j - 1
    BY <1>2 DEF SSA, N
  <2>2. (i + 1) - 1 = i
    OBVIOUS
  <2>3. \A j \in 1 .. i : 0 + j - 1 = j - 1
    OBVIOUS
  <2>. HIDE DEF I
  <2>. QED
    BY <2>1, <2>2, <2>3
<1>. DEFINE f == [v \in Uses(I) |-> r[31 + VRegOf(v)]]
<1>7. \A j \in 1 .. n : Own(n)[j] = 31 + j
  BY DEF Own
<1>8. Stands(I, e, f)
  <2>. SUFFICES ASSUME NEW v \in Uses(I)
                PROVE  /\ e[v] \in Word /\ f[v] \in Word
                       /\ f[v] = e[v] \/ (I.kind = "SExt" /\ Low(f[v]) = e[v])
    BY DEF Stands
  <2>1. PICK j \in 1 .. i : Defines(t[j]) /\ v = j - 1
    BY <1>6
  <2>2. VRegOf(v) = j /\ f[v] = r[31 + j]
    BY <2>1 DEF VRegOf
  <2>3. Value(e, r, j)
    BY <1>3, <2>1
  <2>4. t[j].kind = "Trunc" => I.kind = "SExt"
    <3>1. j \in 1 .. N /\ 0 + j - 1 = j - 1
      BY <1>1, <1>2
    <3>2. t[j].kind = "Trunc" /\ 0 + j - 1 \in Uses(I) => I.kind = "SExt"
      BY <1>2, <3>1 DEF Extended, N
    <3>. QED
      BY <2>1, <3>1, <3>2
  <2>. HIDE DEF f, I
  <2>. QED
    BY <2>1, <2>2, <2>3, <2>4
<1>9. Ready(I, z + 1, Own(n), r, f)
  <2>1. \A v \in Uses(I) : f[v] = r[Own(n)[VRegOf(v)]] /\ f[v] \in Word
                           /\ Own(n)[z + 1] # Own(n)[VRegOf(v)]
    <3>. SUFFICES ASSUME NEW v \in Uses(I)
                  PROVE  f[v] = r[Own(n)[VRegOf(v)]] /\ f[v] \in Word
                         /\ Own(n)[z + 1] # Own(n)[VRegOf(v)]
      OBVIOUS
    <3>1. PICK j \in 1 .. i : Defines(t[j]) /\ v = j - 1
      BY <1>6
    <3>2. VRegOf(v) = j
      BY <3>1 DEF VRegOf
    <3>3. Own(n)[j] = 31 + j /\ Own(n)[z + 1] = 31 + (z + 1) /\ z + 1 # j
      BY <1>1, <1>2, <1>7
    <3>4. f[v] \in Word
      BY <1>8 DEF Stands
    <3>. QED
      BY <3>2, <3>3, <3>4
  <2>2. Defines(I) => Own(n)[VRegOf(I.dest)] \in DOMAIN r
    BY <1>2, <1>3, <1>5, <1>7 DEF VRegOf
  <2>3. z + 1 # 0 /\ Own(n)[z + 1] \in DOMAIN r /\ r[21] = MemBase
    BY <1>2, <1>3, <1>7
  <2>. HIDE DEF f
  <2>. QED
    BY <2>1, <2>2, <2>3 DEF Ready
<1>10. PICK r2, c2, x2, m2 :
         /\ HostFold!Fold(Host(Own(n), r, c, x, m), q) = Host(Own(n), r2, c2, x2, m2)
         /\ Others(r, r2, {Own(n)[v] : v \in SelectWrites(I, z + 1)})
         /\ Defines(I) =>
              /\ x2 = x /\ m2 = m
              /\ r2[Own(n)[VRegOf(I.dest)]] = IF I.kind = "Trunc" THEN f[I.args[1]]
                                              ELSE IRValue(Running(f, x, m, pc), I)
         /\ ~ Defines(I) => IRStep(Running(f, x, m, pc), I) = Running(f, x2, m2, pc)
  <2>. HIDE DEF f
  <2>1. Performs(I, pc, z + 1, Own(n), r, c, x, m, f)
    BY <1>4, <1>9, SelectPerforms
  <2>. QED
    BY <2>1 DEF Performs
<1>11. /\ DOMAIN r2 = 0 .. 31 + n /\ r2[21] = MemBase
       /\ \A j \in 1 .. i : r2[31 + j] = r[31 + j]
  <2>1. {Own(n)[v] : v \in SelectWrites(I, z + 1)} \subseteq {31 + (i + 1), 31 + (z + 1)}
    <3>1. SelectWrites(I, z + 1) \subseteq {i + 1, z + 1}
      BY <1>5 DEF SelectWrites, VRegOf
    <3>2. Own(n)[i + 1] = 31 + (i + 1) /\ Own(n)[z + 1] = 31 + (z + 1)
      BY <1>2, <1>7
    <3>. QED
      BY <3>1, <3>2
  <2>2. /\ 21 \in DOMAIN r \ {31 + (i + 1), 31 + (z + 1)}
        /\ \A j \in 1 .. i : 31 + j \in DOMAIN r \ {31 + (i + 1), 31 + (z + 1)}
    BY <1>1, <1>2, <1>3
  <2>. QED
    BY <1>3, <1>10, <2>1, <2>2 DEF Others
<1>12. \A j \in 1 .. i + 1 : j \in 1 .. i \/ (j = i + 1 /\ j - 1 = i)
  OBVIOUS
<1>13. HostFold!Fold(h, q) = Host(Own(n), r2, c2, x2, m2)
  BY <1>3, <1>10
<1>14. CASE Defines(I)
  <2>. DEFINE v == IRValue(s, I)
              b == Bind(e, i, v)
  <2>1. IRStep(s, I) = Running(b, x, m, pc)
    BY <1>3, <1>5, <1>14, IRStepOf
  <2>2. /\ v \in Word
        /\ I.kind # "Trunc" => IRValue(Running(f, x, m, pc), I) = v
        /\ I.kind = "Trunc" => Low(f[I.args[1]]) = v /\ f[I.args[1]] \in Word
    <3>. HIDE DEF f, I
    <3>. QED
      BY <1>3, <1>4, <1>8, <1>14, SameValue
  <2>3. r2[31 + (i + 1)] = IF I.kind = "Trunc" THEN f[I.args[1]]
                           ELSE IRValue(Running(f, x, m, pc), I)
    <3>1. Own(n)[VRegOf(I.dest)] = 31 + (i + 1)
      BY <1>2, <1>5, <1>7, <1>14 DEF VRegOf
    <3>. HIDE DEF f, I
    <3>. QED
      BY <1>10, <1>14, <3>1
  <2>4. i \in DOMAIN b /\ b[i] = v /\ \A j \in DOMAIN e : j \in DOMAIN b /\ (j # i => b[j] = e[j])
    BY DEF Bind
  <2>5. Value(b, r2, i + 1)
    <3>1. (i + 1) - 1 = i
      OBVIOUS
    <3>. HIDE DEF f, b, v
    <3>. QED
      BY <2>2, <2>3, <2>4, <3>1
  <2>6. \A j \in 1 .. i : Defines(t[j]) => Value(b, r2, j)
    <3>1. \A j \in 1 .. i : j - 1 # i
      OBVIOUS
    <3>. HIDE DEF b
    <3>. QED
      BY <1>3, <1>11, <2>4, <3>1
  <2>7. \A j \in 1 .. i + 1 : Defines(t[j]) => Value(b, r2, j)
    <3>. HIDE DEF Value, b
    <3>. QED
      BY <1>12, <2>5, <2>6
  <2>8. x2 = x /\ m2 = m
    BY <1>10, <1>14
  <2>9. IRStep(s, I) = Running(b, x2, m2, pc) /\ x2 \in [R -> Word] /\ m2 \in [C -> Half]
    BY <1>3, <2>1, <2>8
  <2>. DEFINE s2 == IRStep(s, I)
              h2 == HostFold!Fold(h, q)
  <2>10. s2 = Running(b, x2, m2, pc) /\ h2 = Host(Own(n), r2, c2, x2, m2)
    BY <1>13, <2>9
  <2>. HIDE DEF b, s2, h2
  <2>11. Mirrors(t, i + 1, n, pc, R, C, s2, h2)
    <3>. SUFFICES \E e1, r1, c1, x1, m1 :
           /\ s2 = Running(e1, x1, m1, pc) /\ h2 = Host(Own(n), r1, c1, x1, m1)
           /\ x1 \in [R -> Word] /\ m1 \in [C -> Half]
           /\ DOMAIN r1 = 0 .. 31 + n /\ r1[21] = MemBase
           /\ \A j \in 1 .. i + 1 : Defines(t[j]) => Value(e1, r1, j)
      BY DEF Mirrors
    <3>. HIDE DEF Value
    <3>. WITNESS b, r2, c2, x2, m2
    <3>. QED
      BY <1>11, <2>7, <2>9, <2>10
  <2>. QED
    BY <2>11 DEF s2, h2, n, N
<1>15. CASE ~ Defines(I)
  <2>1. /\ IRStep(Running(e, x, m, pc), I) = Running(e, x2, m2, pc)
        /\ x2 \in [R -> Word] /\ m2 \in [C -> Half]
    <3>. HIDE DEF f, I
    <3>1. IRStep(Running(f, x, m, pc), I) = Running(f, x2, m2, pc)
      BY <1>10, <1>15
    <3>. QED
      BY <1>3, <1>4, <1>8, <1>15, <3>1, SameEffect
  <2>2. \A j \in 1 .. i + 1 : Defines(t[j]) => Value(e, r2, j)
    <3>1. \A j \in 1 .. i : Defines(t[j]) => Value(e, r2, j)
      BY <1>3, <1>11
    <3>. HIDE DEF Value
    <3>. QED
      BY <1>12, <1>15, <3>1
  <2>. DEFINE s2 == IRStep(s, I)
              h2 == HostFold!Fold(h, q)
  <2>3. s2 = Running(e, x2, m2, pc) /\ h2 = Host(Own(n), r2, c2, x2, m2)
    BY <1>3, <1>13, <2>1
  <2>. HIDE DEF s2, h2
  <2>4. Mirrors(t, i + 1, n, pc, R, C, s2, h2)
    <3>. SUFFICES \E e1, r1, c1, x1, m1 :
           /\ s2 = Running(e1, x1, m1, pc) /\ h2 = Host(Own(n), r1, c1, x1, m1)
           /\ x1 \in [R -> Word] /\ m1 \in [C -> Half]
           /\ DOMAIN r1 = 0 .. 31 + n /\ r1[21] = MemBase
           /\ \A j \in 1 .. i + 1 : Defines(t[j]) => Value(e1, r1, j)
      BY DEF Mirrors
    <3>. HIDE DEF Value
    <3>. WITNESS e, r2, c2, x2, m2
    <3>. QED
      BY <1>11, <2>1, <2>2, <2>3
  <2>. QED
    BY <2>4 DEF s2, h2, n, N
<1>. QED
  BY <1>14, <1>15

\* A host that enters a block with whatever its registers hold.
Entered(n, g) == Host(Own(n), Put([r \in 0 .. 31 + n |-> Junk], 21, MemBase), <<0, 0>>, g.x, g.mem)

LEMMA MirrorsNone ==
  ASSUME NEW R, NEW C, NEW t, NEW n \in Nat, NEW pc, NEW g, GuestTyped(g, R, C)
  PROVE  Mirrors(t, 0, n, pc, R, C, Running(<<>>, g.x, g.mem, pc), Entered(n, g))
<1>. DEFINE r == Put([r \in 0 .. 31 + n |-> Junk], 21, MemBase)
            e == <<>>
            c == <<0, 0>>
<1>1. DOMAIN r = 0 .. 31 + n /\ r[21] = MemBase
  <2>1. 21 \in 0 .. 31 + n
    OBVIOUS
  <2>. QED
    BY <2>1 DEF Put
<1>2. g.x \in [R -> Word] /\ g.mem \in [C -> Half]
  BY DEF GuestTyped
<1>3. \A j \in 1 .. 0 : FALSE
  OBVIOUS
<1>4. Entered(n, g) = Host(Own(n), r, c, g.x, g.mem)
  BY DEF Entered
<1>. HIDE DEF r, e, c
<1>. SUFFICES \E e1, r1, c1, x1, m1 :
       /\ Running(e, g.x, g.mem, pc) = Running(e1, x1, m1, pc)
       /\ Entered(n, g) = Host(Own(n), r1, c1, x1, m1)
       /\ x1 \in [R -> Word] /\ m1 \in [C -> Half]
       /\ DOMAIN r1 = 0 .. 31 + n /\ r1[21] = MemBase
       /\ \A j \in 1 .. 0 : Defines(t[j]) =>
            /\ j - 1 \in DOMAIN e1 /\ e1[j - 1] \in Word /\ r1[31 + j] \in Word
            /\ t[j].kind # "Trunc" => r1[31 + j] = e1[j - 1]
            /\ t[j].kind = "Trunc" => Low(r1[31 + j]) = e1[j - 1]
  BY DEF Mirrors, e
<1>. WITNESS e, r, c, g.x, g.mem
<1>. QED
  BY <1>1, <1>2, <1>3, <1>4

\* The host runs the code of a block as the IR of the block runs.
LEMMA MirrorsAll ==
  ASSUME NEW R, NEW C, NEW pc \in Word, NEW t, SSA(t, 0), AllFormed(t, R, C), Extended(t, 0),
         Near(t), NEW g, GuestTyped(g, R, C)
  PROVE  LET n == 2 * Len(t) + 1
             q == FoldLeft(SelectStep, SoFar(pc, <<>>, Len(t) + 1), t).instrs
         IN Mirrors(t, Len(t), n, pc, R, C,
                    IRFold!Fold(Running(<<>>, g.x, g.mem, pc), t),
                    HostFold!Fold(Entered(n, g), q))
<1>. DEFINE N == Len(t)
            n == 2 * N + 1
            start == SoFar(pc, <<>>, N + 1)
            guest == Running(<<>>, g.x, g.mem, pc)
            host == Entered(n, g)
<1>1. PICK S : t \in Seq(S)
  BY DEF SSA, IsSequence
<1>2. N \in Nat /\ n \in Nat /\ pc \in Int
  <2>1. Word \subseteq Int
    BY Widths
  <2>2. N \in Nat
    BY <1>1
  <2>. QED
    BY <2>1, <2>2
<1>3. PICK m : SelectFold!IsRun(m, start, t) /\ SelectFold!Fold(start, t) = m[N]
  BY <1>1, SelectFold!FoldRun
<1>4. PICK l : IRFold!IsRun(l, guest, t) /\ IRFold!Fold(guest, t) = l[N]
  BY <1>1, IRFold!FoldRun
<1>5. AllSelectable(t)
  BY DEF AllFormed, Formed, AllSelectable
<1>. DEFINE Good(i) == \E h, z : /\ m[i] = SoFar(pc, h, z) /\ Selected(h, z, t, i)
                                 /\ Mirrors(t, i, n, pc, R, C, l[i], HostFold!Fold(host, h))
            T == {i \in Nat : i <= N => Good(i)}
<1>6. 0 \in T
  <2>1. m[0] = start /\ l[0] = guest
    BY <1>3, <1>4 DEF SelectFold!IsRun, IRFold!IsRun
  <2>2. Selected(<<>>, N + 1, t, 0)
    <3>1. /\ N + 1 \in Nat /\ N + 1 <= N + 1 /\ N + 1 <= N + 1 + 0
          /\ N + 2 .. N + 1 = {} /\ {j \in 1 .. 0 : Defines(t[j])} = {}
      BY <1>2
    <3>2. Grouped(<<>>, <<>>, t, 0)
      BY DEF Grouped
    <3>3. AllCoded(<<>>)
      BY DEF AllCoded
    <3>. HIDE DEF N
    <3>. QED
      BY <3>1, <3>2, <3>3, FlowsNone DEF Selected, N
  <2>3. HostFold!Fold(host, <<>>) = host
    BY HostFold!FoldEmpty
  <2>4. Mirrors(t, 0, n, pc, R, C, guest, host)
    <3>. HIDE DEF n
    <3>. QED
      BY <1>2, MirrorsNone
  <2>. HIDE DEF guest, host, N, n
  <2>5. Good(0)
    BY <2>1, <2>2, <2>3, <2>4 DEF start
  <2>. QED
    BY <2>5
<1>7. ASSUME NEW i \in Nat, i \in T
      PROVE  i + 1 \in T
  <2>1. SUFFICES ASSUME i + 1 <= N PROVE Good(i + 1)
    OBVIOUS
  <2>2. i + 1 \in 1 .. N /\ (i + 1) - 1 = i /\ i <= N
    BY <1>2, <2>1
  <2>. HIDE DEF N, n, host, guest, start
  <2>3. Good(i)
    BY <1>7, <2>2
  <2>4. PICK h : \E z : /\ m[i] = SoFar(pc, h, z) /\ Selected(h, z, t, i)
                        /\ Mirrors(t, i, n, pc, R, C, l[i], HostFold!Fold(host, h))
    BY <2>3
  <2>5. PICK z : /\ m[i] = SoFar(pc, h, z) /\ Selected(h, z, t, i)
                 /\ Mirrors(t, i, n, pc, R, C, l[i], HostFold!Fold(host, h))
    BY <2>4
  <2>. DEFINE I == t[i + 1]
              q == SelectInst(I, pc, z + 1)
              g2 == h \o q
              y == IF NeedsAddress(I) THEN z + 1 ELSE z
  <2>6. m[i + 1] = SelectStep(m[i], I) /\ l[i + 1] = IRStep(l[i], I)
    BY <1>3, <1>4, <2>2 DEF SelectFold!IsRun, IRFold!IsRun, N
  <2>7. m[i + 1] = SoFar(pc, g2, y)
    BY <2>5, <2>6, SelectOne
  <2>8. Selected(g2, y, t, i + 1)
    BY <1>2, <1>5, <2>1, <2>5, SelectedMore DEF N
  <2>9. z \in Nat /\ N + 1 <= z /\ z <= N + 1 + i /\ Flows(h, {})
    BY <2>5 DEF Selected, N
  <2>10. Mirrors(t, i + 1, n, pc, R, C, IRStep(l[i], I), HostFold!Fold(HostFold!Fold(host, h), q))
    BY <2>1, <2>5, <2>9, MirrorsMore DEF N, n
  <2>11. IsSequence(h) /\ IsSequence(q)
    <3>1. Fresh(I, z + 1, Made(h))
      BY <2>1, <2>5, NextFresh DEF N
    <3>2. Selectable(I)
      BY <1>5, <2>2 DEF AllSelectable, N
    <3>. HIDE DEF I
    <3>3. Flows(q, Made(h))
      BY <1>2, <3>1, <3>2, SelectFlows
    <3>. HIDE DEF q
    <3>. QED
      BY <2>9, <3>3 DEF Flows, IsSequence
  <2>12. HostFold!Fold(host, g2) = HostFold!Fold(HostFold!Fold(host, h), q)
    <3>. HIDE DEF q
    <3>. QED
      BY <2>11, HostConcat
  <2>13. Mirrors(t, i + 1, n, pc, R, C, l[i + 1], HostFold!Fold(host, g2))
    BY <2>6, <2>10, <2>12
  <2>. HIDE DEF g2, y
  <2>. QED
    BY <2>7, <2>8, <2>13
<1>8. Nat \subseteq T
  <2>. HIDE DEF T
  <2>. QED
    BY <1>6, <1>7, NatSetInduction
<1>9. Good(N)
  BY <1>2, <1>8
<1>10. PICK h : \E z : /\ m[N] = SoFar(pc, h, z) /\ Selected(h, z, t, N)
                       /\ Mirrors(t, N, n, pc, R, C, l[N], HostFold!Fold(host, h))
  BY <1>9
<1>11. PICK z : /\ m[N] = SoFar(pc, h, z)
                /\ Mirrors(t, N, n, pc, R, C, l[N], HostFold!Fold(host, h))
  BY <1>10
<1>12. FoldLeft(SelectStep, start, t) = m[N]
  BY <1>3, SelectLoop
<1>13. m[N].instrs = h
  BY <1>11 DEF SoFar
<1>. HIDE DEF start, guest, host, n
<1>14. FoldLeft(SelectStep, start, t).instrs = h
  BY <1>12, <1>13
<1>15. Mirrors(t, N, n, pc, R, C, IRFold!Fold(guest, t),
               HostFold!Fold(host, FoldLeft(SelectStep, start, t).instrs))
  BY <1>4, <1>11, <1>14
<1>. QED
  BY <1>15 DEF start, guest, host, n

\* A block run as selected, with a register for each virtual one, ends as its
\* IR does.
LEMMA SelectedRun ==
  ASSUME NEW R, NEW C, R \subseteq Nat, NEW b, Liftable(b, R, C),
         NEW g, GuestTyped(g, R, C), NEW s, s.x = g.x, s.mem = g.mem
  PROVE  LET n == 2 * Len(Lift(b).insts) + 1
         IN RunBlock(Select(Lift(b)), Own(n), [r \in 0 .. 31 + n |-> Junk], g) = RunIR(Lift(b), s)
<1>. DEFINE i == Lift(b)
            t == i.insts
            N == Len(t)
            n == 2 * N + 1
            k1 == Select(i)
            pc == b.start
            junk == [r \in 0 .. 31 + n |-> Junk]
            host == EnterBlock(Own(n), junk, g)
            guest == [env |-> <<>>, x |-> s.x, mem |-> s.mem, start |-> i.start]
<1>1. /\ SSA(t, 0) /\ AllFormed(t, R, C) /\ Extended(t, 0) /\ Near(t)
      /\ TermDefined(t, i.term) /\ pc \in Word
  <2>1. IsSequence(b.insts) /\ pc \in Word
    BY BlockForm
  <2>. QED
    BY <2>1, BlockFormed, BlockNear
<1>2. i.start = pc
  BY DEF Lift
<1>3. N \in Nat
  BY <1>1 DEF SSA, IsSequence
<1>4. /\ k1.instrs = FoldLeft(SelectStep, SoFar(pc, <<>>, N + 1), t).instrs
      /\ k1.term = SelectTerm(i.term)
  BY <1>2 DEF Select, SelectInsts, SoFar
<1>5. guest = Running(<<>>, g.x, g.mem, pc)
  BY <1>2 DEF Running
<1>6. host = Entered(n, g)
  BY DEF EnterBlock, Entered, Host, Put
<1>. HIDE DEF t, i, N, n, k1, pc, host, guest, junk
<1>7. Mirrors(t, N, n, pc, R, C, IRFold!Fold(guest, t), HostFold!Fold(host, k1.instrs))
  BY <1>1, <1>4, <1>5, <1>6, MirrorsAll DEF N, n
<1>. DEFINE h == FoldLeft(Execute, host, k1.instrs)
            f == FoldLeft(IRStep, guest, t)
            branch == {"CBr", "BrIndirect"}
            u == IF k1.term.kind \in branch THEN h.r[Own(n)[k1.term.id]] ELSE 0
            v == IF i.term.kind \in branch THEN f.env[i.term.v] ELSE 0
<1>8. Mirrors(t, N, n, pc, R, C, f, h)
  BY <1>7, HostLoop, IRLoop
<1>. HIDE DEF h, f
<1>9. PICK e, r, c, x, m :
        /\ f = Running(e, x, m, pc) /\ h = Host(Own(n), r, c, x, m)
        /\ x \in [R -> Word] /\ m \in [C -> Half]
        /\ DOMAIN r = 0 .. 31 + n /\ r[21] = MemBase
        /\ \A j \in 1 .. N : Defines(t[j]) =>
             /\ j - 1 \in DOMAIN e /\ e[j - 1] \in Word /\ r[31 + j] \in Word
             /\ t[j].kind # "Trunc" => r[31 + j] = e[j - 1]
             /\ t[j].kind = "Trunc" => Low(r[31 + j]) = e[j - 1]
  BY <1>8 DEF Mirrors
<1>10. h.r = r /\ h.x = x /\ h.mem = m
  BY <1>9 DEF Host
<1>11. f.env = e /\ f.x = x /\ f.mem = m
  BY <1>9 DEF Running
<1>12. k1.term.kind = i.term.kind /\ k1.term.t = i.term.t /\ k1.term.f = i.term.f
       /\ (i.term.kind \in branch => k1.term.id = VRegOf(i.term.v))
  BY <1>4 DEF SelectTerm
<1>13. u = v
  <2>1. CASE i.term.kind \in branch
    <3>1. PICK j \in 1 .. N : Defines(t[j]) /\ t[j].kind # "Trunc" /\ i.term.v = j - 1
      BY <1>1, <2>1 DEF TermDefined, N
    <3>2. VRegOf(i.term.v) = j /\ j \in 1 .. n
      BY <1>3, <3>1 DEF VRegOf, n
    <3>3. Own(n)[j] = 31 + j
      BY <3>2 DEF Own
    <3>4. r[31 + j] = e[j - 1]
      BY <1>9, <3>1
    <3>. QED
      BY <1>10, <1>11, <1>12, <2>1, <3>1, <3>2, <3>3, <3>4
  <2>2. CASE i.term.kind \notin branch
    BY <1>12, <2>2
  <2>. QED
    BY <2>1, <2>2
<1>14. RunBlock(k1, Own(n), junk, g) = [x |-> h.x, mem |-> h.mem, exit |-> ExitOf(k1.term, u)]
  BY DEF RunBlock, host, h
<1>15. RunIR(i, s) = [x |-> f.x, mem |-> f.mem, exit |-> ExitOf(i.term, v)]
  BY DEF RunIR, guest, f, t
<1>. HIDE DEF u, v
<1>16. ExitOf(k1.term, u) = ExitOf(i.term, v)
  BY <1>12, <1>13 DEF ExitOf
<1>17. RunBlock(k1, Own(n), junk, g) = RunIR(i, s)
  BY <1>10, <1>11, <1>14, <1>15, <1>16
<1>. QED
  BY <1>17 DEF k1, n, N, t, i, junk

LEMMA UnlimitedRun ==
  ASSUME NEW R, NEW C, Inputs(R, C), Staged, stage \notin {"start", "lifted"},
         NEW g \in GuestStates
  PROVE  Unlimited(g) = RunIR(ir, InitialState(g))
<1>. DEFINE n == 2 * Len(Lift(bb).insts) + 1
<1>1. Liftable(bb, R, C) /\ R \subseteq Nat /\ GuestTyped(g, R, C)
  BY DEF Inputs, Staged
<1>2. ir = Lift(bb) /\ blk = Select(Lift(bb))
  BY DEF Staged
<1>3. InitialState(g).x = g.x /\ InitialState(g).mem = g.mem
  BY DEF InitialState
<1>4. RunBlock(Select(Lift(bb)), Own(n), [r \in 0 .. 31 + n |-> Junk], g)
        = RunIR(Lift(bb), InitialState(g))
  <2>. DEFINE s == InitialState(g)
  <2>1. s.x = g.x /\ s.mem = g.mem
    BY <1>3
  <2>. HIDE DEF s
  <2>2. LET N == 2 * Len(Lift(bb).insts) + 1
        IN RunBlock(Select(Lift(bb)), Own(N), [r \in 0 .. 31 + N |-> Junk], g) = RunIR(Lift(bb), s)
    BY <1>1, <2>1, SelectedRun
  <2>. QED
    BY <2>2 DEF s
<1>5. Unlimited(g) = RunBlock(blk, Own(n), [r \in 0 .. 31 + n |-> Junk], g)
  BY <1>2 DEF Unlimited, Own
<1>. QED
  BY <1>2, <1>4, <1>5

(***************************************************************************)
(* What select() makes of a block does what the IR of the block does, if   *)
(* every virtual register has a host register of its own (ISel.cpp, every  *)
(* case of select): constants put together from 16-bit pieces, conditions, *)
(* addresses relative to the memory base, casts that leave bits above the  *)
(* half in place, and the end of the block.                                *)
(***************************************************************************)
THEOREM SelectedMeaning ==
  ASSUME NEW CONSTANT R, NEW CONSTANT C, Inputs(R, C)
  PROVE  Spec => []SelectPreservesMeaning
<1>1. Staged => SelectPreservesMeaning
  BY UnlimitedRun DEF SelectPreservesMeaning
<1>. QED
  BY <1>1, StagedAlways, PTL

-----------------------------------------------------------------------------
\* Types of the whole pipeline.  There is room for what select() makes: a
\* position for each of its instructions and the end, and virtual registers up
\* to two for each instruction of the IR; and the pool is one.
Room(b) ==
  /\ 0 .. Len(Select(Lift(b)).instrs) \subseteq Position
  /\ 1 .. 2 * Len(Lift(b).insts) + 1 \subseteq VReg

Rooms ==
  /\ \A b \in BasicBlocks : Room(b)
  /\ PhysPool \in Seq(Nat) /\ IsInjective(PhysPool)

\* The host code of a block writes what it reads, and has a number for each
\* virtual register.
LEMMA SelectedMade ==
  ASSUME NEW R, NEW C, R \subseteq Nat, NEW b, Liftable(b, R, C)
  PROVE  LET s == Select(Lift(b))
             N == Len(Lift(b).insts)
         IN /\ N \in Nat
            /\ AllCoded(s.instrs) /\ Flows(s.instrs, {}) /\ Made(s.instrs) \subseteq 1 .. 2 * N + 1
            /\ Live!TouchedByTerm(s.term) \subseteq Made(s.instrs)
<1>. DEFINE t == Lift(b).insts
            s == Select(Lift(b))
            q == s.instrs
            N == Len(t)
<1>1. /\ N \in Nat
      /\ \E z : Selected(q, z, t, N)
      /\ Live!TouchedByTerm(s.term) \subseteq Made(q)
  BY SelectedLift
<1>. HIDE DEF N, t, s
<1>2. PICK z : Selected(q, z, t, N)
  BY <1>1
<1>3. Len(t) = N
  BY DEF N
<1>4. /\ z \in Nat /\ z <= N + 1 + N /\ AllCoded(q) /\ Flows(q, {})
      /\ Made(q) = {j \in 1 .. N : Defines(t[j])} \cup (N + 2 .. z)
  BY <1>2, <1>3 DEF Selected
<1>5. 1 .. N \subseteq 1 .. 2 * N + 1 /\ N + 2 .. z \subseteq 1 .. 2 * N + 1
  BY <1>1, <1>4
<1>6. Made(q) \subseteq 1 .. 2 * N + 1
  BY <1>4, <1>5
<1>. QED
  BY <1>1, <1>4, <1>6 DEF s, N, t

\* The host code of a block is what analyze() may be given.
LEMMA SelectedIsBlock ==
  ASSUME NEW R, NEW C, R \subseteq Nat, NEW b, Liftable(b, R, C), Room(b)
  PROVE  Live!IsBlock(Select(Lift(b)))
<1>. DEFINE t == Lift(b).insts
            s == Select(Lift(b))
            q == s.instrs
            N == Len(t)
<1>1. /\ N \in Nat
      /\ Flows(q, {}) /\ Made(q) \subseteq 1 .. 2 * N + 1
      /\ Live!TouchedByTerm(s.term) \subseteq Made(q)
  BY SelectedMade
<1>2. 0 .. Len(q) \subseteq Position /\ 1 .. 2 * N + 1 \subseteq VReg
  BY DEF Room
<1>. HIDE DEF N, t, s
<1>4. Flows(q, {}) /\ Made(q) \subseteq VReg
  BY <1>1, <1>2
<1>. HIDE DEF q
<1>5. q \in Seq(Live!AnyInstr) /\ DOMAIN q = 1 .. Len(q) /\ Len(q) \in Nat
  BY <1>4 DEF Flows
<1>6. ASSUME NEW p \in DOMAIN q, NEW j \in DOMAIN q[p].ops
      PROVE  Live!TouchedBy(q[p].ops[j]) \subseteq VReg
  <2>1. Live!TouchedBy(q[p].ops[j]) \subseteq Reads(q[p]) \cup Writes(q[p])
    <3>1. CASE Writes(q[p]) # {} /\ j = 1
      BY <3>1 DEF Writes, Live!TouchedBy
    <3>2. CASE Writes(q[p]) = {} \/ j # 1
      BY <1>6, <3>2 DEF Reads
    <3>. QED
      BY <3>1, <3>2
  <2>2. Writes(q[p]) \subseteq Made(q)
    BY <1>5, <1>6 DEF Made, Written
  <2>3. Reads(q[p]) \subseteq Made(q)
    <3>1. Reads(q[p]) \subseteq Written(q, p - 1)
      BY <1>4, <1>5, <1>6 DEF Flows
    <3>2. Written(q, p - 1) \subseteq Made(q)
      <4>1. \A i \in 1 .. p - 1 : i \in 1 .. Len(q)
        BY <1>5, <1>6
      <4>. QED
        BY <4>1 DEF Made, Written
    <3>. QED
      BY <3>1, <3>2
  <2>. QED
    BY <1>4, <2>1, <2>2, <2>3
<1>7. Live!TouchedByTerm(s.term) \subseteq VReg
  BY <1>1, <1>4
<1>. QED
  BY <1>2, <1>5, <1>6, <1>7 DEF Live!IsBlock, q, s

\* The instances of the analysis and of the allocator that the pipeline runs
\* are the ones that have been proved about.
LEMMA SameAnalysis ==
  /\ Live!Next => LiveP!Next
  /\ \A b : Live!IsBlock(b) => LiveP!IsBlock(b)
  /\ UNCHANGED <<blk, pos, k, live, scan>> => UNCHANGED LiveP!vars
<1>1. Live!Next => LiveP!Next
  BY DEF Live!Next, Live!TouchOperand, Live!NextInstr, Live!TouchTerm, Live!AtInstr,
         Live!Operands, Live!TouchEach, Live!Touched, Live!TouchedBy, Live!TouchedByTerm,
         LiveP!Next, LiveP!TouchOperand, LiveP!NextInstr, LiveP!TouchTerm, LiveP!AtInstr,
         LiveP!Operands, LiveP!TouchEach, LiveP!Touched, LiveP!TouchedBy,
         LiveP!TouchedByTerm
<1>2. \A b : Live!IsBlock(b) => LiveP!IsBlock(b)
  BY DEF Live!IsBlock, Live!AnyInstr, Live!AnyOperand, Live!Opcodes, Live!TouchedBy,
         Live!TouchedByTerm, LiveP!IsBlock, LiveP!AnyInstr, LiveP!AnyOperand,
         LiveP!Opcodes, LiveP!TouchedBy, LiveP!TouchedByTerm
<1>3. UNCHANGED <<blk, pos, k, live, scan>> => UNCHANGED LiveP!vars
  BY DEF LiveP!vars
<1>. QED
  BY <1>1, <1>2, <1>3

LEMMA SameAllocation ==
  /\ Alloc!Next => AllocP!Next /\ live' = live
  /\ UNCHANGED <<live, allocVars>> => UNCHANGED AllocP!vars
  /\ AllocP!TypeOK => Alloc!TypeOK
<1>1. Alloc!Next => AllocP!Next /\ live' = live
  BY DEF Alloc!Next, Alloc!TakeItem, Alloc!IsNextItem, Alloc!Keep, Alloc!Free,
         Alloc!PushFreed, Alloc!Allocate, Alloc!Abort, Alloc!Return, Alloc!Serve,
         Alloc!Examine, Alloc!Expired, Alloc!NoItem,
         AllocP!Next, AllocP!TakeItem, AllocP!IsNextItem, AllocP!Keep, AllocP!Free,
         AllocP!PushFreed, AllocP!Allocate, AllocP!Abort, AllocP!Return, AllocP!Serve,
         AllocP!Examine, AllocP!Expired, AllocP!NoItem
<1>2. UNCHANGED <<live, allocVars>> => UNCHANGED AllocP!vars
  BY DEF allocVars, AllocP!vars
<1>3. AllocP!TypeOK => Alloc!TypeOK
  <2>1. Alloc!Range(PhysPool) = AllocP!Range(PhysPool)
    BY DEF Alloc!Range, AllocP!Range
  <2>2. Alloc!IsLivenessMap(live) <=> AllocP!IsLivenessMap(live)
    BY DEF Alloc!IsLivenessMap, Alloc!LiveRange, AllocP!IsLivenessMap, AllocP!LiveRange
  <2>. QED
    BY <2>1, <2>2
       DEF Alloc!TypeOK, Alloc!IsNextItem, AllocP!TypeOK, AllocP!IsNextItem
<1>. QED
  BY <1>1, <1>2, <1>3

IdleAnalysis == pos = 0 /\ k = 0 /\ live = <<>> /\ scan = "scan"

IdleAllocation ==
  /\ item = 0 /\ pool = PhysPool /\ active = <<>> /\ kept = <<>> /\ freed = <<>>
  /\ asg = <<>> /\ loop = "alloc"

\* What the analysis of a block keeps.
LEMMA AnalysisStarts == LiveP!IsBlock(blk) /\ IdleAnalysis => LiveP!IInv
  BY PositionAssumption, LiveP!LiveStarts DEF IdleAnalysis

LEMMA AnalysisSteps ==
  ASSUME LiveP!IInv, Live!Next \/ UNCHANGED <<blk, pos, k, live, scan>>
  PROVE  LiveP!IInv'
<1>1. LiveP!Next \/ UNCHANGED LiveP!vars
  BY SameAnalysis
<1>2. LiveP!IInv /\ [LiveP!Next]_(LiveP!vars) => LiveP!IInv'
  BY PositionAssumption, LiveP!LiveStep
<1>. QED
  BY <1>1, <1>2

LEMMA AllocationBegins ==
  IsLivenessMap(live) /\ todo = DOMAIN live /\ IdleAllocation => AllocP!Init
<1>1. SUFFICES ASSUME IsLivenessMap(live), todo = DOMAIN live, IdleAllocation
               PROVE  AllocP!Init
  OBVIOUS
<1>2. DOMAIN live \in SUBSET VReg /\ live \in [DOMAIN live -> LiveRange]
  BY <1>1 DEF IsLivenessMap
<1>3. \E S \in SUBSET VReg : live \in [S -> LiveRange]
  BY <1>2
<1>4. \E S \in SUBSET VReg : live \in [S -> AllocP!LiveRange]
  BY <1>3 DEF LiveRange, AllocP!LiveRange
<1>. QED
  BY <1>1, <1>4 DEF AllocP!Init, AllocP!NoItem, IdleAllocation

\* What the allocation keeps, for a pool of distinct registers.
LEMMA AllocationStarts ==
  /\ PhysPool \in Seq(Nat) /\ IsInjective(PhysPool)
  /\ IsLivenessMap(live) /\ todo = DOMAIN live /\ IdleAllocation
  => AllocP!Inv
<1>1. SUFFICES ASSUME PhysPool \in Seq(Nat), IsInjective(PhysPool),
                      IsLivenessMap(live), todo = DOMAIN live, IdleAllocation
               PROVE  AllocP!Inv
  OBVIOUS
<1>2. AllocP!Init
  BY <1>1, AllocationBegins
<1>3. PhysPool \in Seq(Nat) /\ AllocP!IsInjective(PhysPool) /\ Position \subseteq Nat
  BY <1>1, PositionAssumption DEF IsInjective, AllocP!IsInjective
<1>. QED
  BY <1>2, <1>3, AllocP!AllocInit

LEMMA AllocationSteps ==
  ASSUME PhysPool \in Seq(Nat), IsInjective(PhysPool),
         AllocP!Inv, Alloc!Next \/ UNCHANGED <<live, allocVars>>
  PROVE  AllocP!Inv'
<1>1. AllocP!Next \/ UNCHANGED AllocP!vars
  BY SameAllocation
<1>2. PhysPool \in Seq(Nat) /\ AllocP!IsInjective(PhysPool) /\ Position \subseteq Nat
  BY PositionAssumption DEF IsInjective, AllocP!IsInjective
<1>3. AllocP!Inv /\ [AllocP!Next]_(AllocP!vars) => AllocP!Inv'
  BY <1>2, AllocP!InvStep
<1>. QED
  BY <1>1, <1>3

\* Where the pipeline is: a stage that has not begun is idle, one that has
\* keeps the invariant of its machine, and all registers the emitter looks up
\* have been assigned.
Piped ==
  /\ stage \in {"start", "lifted"} => IdleAnalysis
  /\ stage \notin {"start", "lifted"} => LiveP!IInv
  /\ scan = "done" => pos = Len(blk.instrs)
  /\ stage \in {"start", "lifted", "selected", "analyzed"} => IdleAllocation
  /\ stage \in {"allocating", "emitted", "abort"} => scan = "done" /\ AllocP!Inv
  /\ loop = "done" => todo = {}
  /\ stage # "abort"

LEMMA PipedInit == Init => Piped
  BY DEF Init, Piped, IdleAnalysis, IdleAllocation

\* analyze() begins with the host code of the block.
LEMMA PipedSelect ==
  ASSUME NEW R, NEW C, Inputs(R, C), Rooms, Staged, Piped, SelectBlock
  PROVE  Piped'
<1>1. /\ blk' = Select(Lift(bb)) /\ bb \in BasicBlocks
      /\ stage = "lifted" /\ stage' = "selected"
      /\ UNCHANGED <<bb, ir, liveVars, allocVars>>
  BY DEF Staged, SelectBlock
<1>2. LiveP!IsBlock(blk')
  <2>1. Liftable(bb, R, C) /\ R \subseteq Nat /\ Room(bb)
    BY <1>1 DEF Inputs, Rooms
  <2>2. Live!IsBlock(Select(Lift(bb)))
    BY <2>1, SelectedIsBlock
  <2>. QED
    BY <1>1, <2>2, SameAnalysis
<1>3. IdleAnalysis' /\ IdleAllocation'
  BY <1>1 DEF Piped, liveVars, allocVars, IdleAnalysis, IdleAllocation
<1>4. (LiveP!IsBlock(blk) /\ IdleAnalysis => LiveP!IInv)'
  BY AnalysisStarts, PTL
<1>5. LiveP!IInv'
  BY <1>2, <1>3, <1>4
<1>. QED
  BY <1>1, <1>3, <1>5 DEF Piped, IdleAnalysis, IdleAllocation

LEMMA PipedAnalyze ==
  ASSUME Piped, AnalyzeStep
  PROVE  Piped'
<1>1. /\ stage \in {"selected", "analyzed"} /\ stage' = "analyzed" /\ Live!Next
      /\ UNCHANGED allocVars
  BY DEF AnalyzeStep
<1>2. LiveP!IInv /\ IdleAllocation /\ (scan = "done" => pos = Len(blk.instrs))
      /\ (loop = "done" => todo = {})
  BY <1>1 DEF Piped
<1>3. LiveP!IInv'
  BY <1>1, <1>2, AnalysisSteps
<1>4. scan' = "done" => pos' = Len(blk'.instrs)
  BY <1>1, <1>2
     DEF Live!Next, Live!TouchOperand, Live!NextInstr, Live!TouchTerm, Live!AtInstr
<1>5. IdleAllocation' /\ (loop' = "done" => todo' = {})
  BY <1>1, <1>2 DEF allocVars, IdleAllocation
<1>. QED
  BY <1>1, <1>3, <1>4, <1>5 DEF Piped

LEMMA PipedAllocate ==
  ASSUME Rooms, Piped, StartAllocate \/ AllocateStep
  PROVE  Piped'
<1>1. PhysPool \in Seq(Nat) /\ IsInjective(PhysPool)
  BY DEF Rooms
<1>2. CASE StartAllocate
  <2>1. /\ stage = "analyzed" /\ stage' = "allocating" /\ scan = "done"
        /\ todo' = DOMAIN live
        /\ UNCHANGED <<bb, ir, blk, pos, k, live, scan, item, pool, active, kept, freed,
                       asg, loop>>
    BY <1>2 DEF StartAllocate, liveVars
  <2>2. LiveP!IInv /\ IdleAllocation /\ pos = Len(blk.instrs)
    BY <2>1 DEF Piped
  <2>3. IsLivenessMap(live)
    BY <2>2 DEF LiveP!IInv, LiveP!TypeOK, LiveP!IsLivenessMap, LiveP!LiveRange,
                IsLivenessMap, LiveRange
  <2>4. IsLivenessMap(live)' /\ (todo = DOMAIN live)' /\ IdleAllocation'
    BY <2>1, <2>2, <2>3 DEF IsLivenessMap, IdleAllocation
  <2>5. (/\ PhysPool \in Seq(Nat) /\ IsInjective(PhysPool)
         /\ IsLivenessMap(live) /\ todo = DOMAIN live /\ IdleAllocation
         => AllocP!Inv)'
    BY AllocationStarts, PTL
  <2>6. LiveP!IInv'
    BY <2>1, <2>2, AnalysisSteps
  <2>7. loop' # "done"
    BY <2>1, <2>2 DEF IdleAllocation
  <2>. QED
    BY <1>1, <2>1, <2>2, <2>4, <2>5, <2>6, <2>7 DEF Piped
<1>3. CASE AllocateStep
  <2>1. /\ stage = "allocating" /\ stage' = "allocating" /\ Alloc!Next
        /\ UNCHANGED <<bb, ir, blk, pos, k, scan>>
    BY <1>3 DEF AllocateStep
  <2>2. LiveP!IInv /\ AllocP!Inv /\ scan = "done" /\ pos = Len(blk.instrs)
        /\ (loop = "done" => todo = {})
    BY <2>1 DEF Piped
  <2>3. live' = live
    BY <2>1, SameAllocation
  <2>4. LiveP!IInv' /\ AllocP!Inv'
    BY <1>1, <2>1, <2>2, <2>3, AnalysisSteps, AllocationSteps
  <2>5. loop' = "done" => todo' = {}
    BY <2>1, <2>2 DEF Alloc!Next, Alloc!TakeItem, Alloc!Keep, Alloc!Free, Alloc!PushFreed,
                      Alloc!Allocate, Alloc!Abort, Alloc!Return, Alloc!Serve, Alloc!Examine
  <2>. QED
    BY <2>1, <2>2, <2>4, <2>5 DEF Piped
<1>. QED
  BY <1>2, <1>3

\* Every virtual register of the host code is in the map of analyze(), and the
\* allocator has served all of them when it returns.
LEMMA OperandsAssigned ==
  ASSUME Piped, stage = "allocating", loop = "done"
  PROVE  Operands \subseteq DOMAIN asg
<1>1. /\ LiveP!TypeOK /\ LiveP!ExactIntervals /\ scan = "done" /\ pos = Len(blk.instrs)
      /\ AllocP!TypeOK /\ todo = {}
  BY DEF Piped, LiveP!IInv, AllocP!Inv
<1>2. DOMAIN asg = DOMAIN live
  BY <1>1 DEF AllocP!TypeOK
<1>3. DOMAIN live = {v \in VReg : LiveP!Positions(v) # {}}
  BY <1>1 DEF LiveP!ExactIntervals
<1>4. LiveP!IsBlock(blk) /\ Len(blk.instrs) \in Nat
  BY <1>1 DEF LiveP!TypeOK, LiveP!IsBlock
<1>5. ASSUME NEW p \in 0 .. Len(blk.instrs), NEW v \in Live!TouchesAt(p)
      PROVE  v \in VReg /\ LiveP!Positions(v) # {}
  <2>1. Live!TouchesAt(p) = LiveP!TouchesAt(p)
    BY DEF Live!TouchesAt, Live!TouchedBy, Live!TouchedByTerm,
           LiveP!TouchesAt, LiveP!TouchedBy, LiveP!TouchedByTerm
  <2>2. LiveP!SeenAt(p) = LiveP!TouchesAt(p)
    BY <1>1, <1>4 DEF LiveP!SeenAt
  <2>3. p \in LiveP!Positions(v)
    BY <1>1, <1>5, <2>1, <2>2 DEF LiveP!Positions
  <2>4. LiveP!TouchesAt(p) \subseteq VReg
    <3>1. CASE p < Len(blk.instrs)
      <4>1. p + 1 \in DOMAIN blk.instrs
        BY <1>4, <3>1 DEF LiveP!IsBlock
      <4>2. \A j \in DOMAIN blk.instrs[p + 1].ops :
              LiveP!TouchedBy(blk.instrs[p + 1].ops[j]) \subseteq VReg
        BY <1>4, <4>1 DEF LiveP!IsBlock
      <4>3. LiveP!TouchesAt(p) = UNION {LiveP!TouchedBy(blk.instrs[p + 1].ops[j]) :
                                          j \in DOMAIN blk.instrs[p + 1].ops}
        BY <3>1 DEF LiveP!TouchesAt
      <4>. QED
        BY <4>2, <4>3
    <3>2. CASE ~ (p < Len(blk.instrs))
      BY <1>4, <3>2 DEF LiveP!TouchesAt, LiveP!IsBlock
    <3>. QED
      BY <3>1, <3>2
  <2>. QED
    BY <1>5, <2>1, <2>3, <2>4
<1>. QED
  BY <1>2, <1>3, <1>5 DEF Operands

LEMMA PipedStep ==
  ASSUME NEW R, NEW C, Inputs(R, C), Rooms, Staged, Piped, [Next]_vars
  PROVE  Piped'
<1>. DEFINE machines == <<pos, k, live, scan, todo, item, pool, active, kept, freed, asg, loop>>
<1>1. CASE LiftBlock
  BY <1>1 DEF LiftBlock, liveVars, allocVars, Piped, IdleAnalysis, IdleAllocation
<1>2. CASE Emit
  <2>1. Operands \subseteq DOMAIN asg
    BY <1>2, OperandsAssigned DEF Emit
  <2>2. /\ stage = "allocating" /\ stage' = "emitted"
        /\ UNCHANGED <<blk, pos, k, live, scan>> /\ UNCHANGED allocVars
    BY <1>2, <2>1 DEF Emit, liveVars
  <2>3. LiveP!IInv' /\ AllocP!Inv'
    BY <2>2, AnalysisSteps, AllocationSteps DEF Piped, Rooms
  <2>. QED
    BY <2>2, <2>3 DEF Piped, allocVars
<1>3. CASE UNCHANGED vars
  <2>1. /\ stage' = stage /\ UNCHANGED <<blk, pos, k, live, scan>> /\ UNCHANGED allocVars
    BY <1>3 DEF vars, liveVars
  <2>2. /\ LiveP!IInv => LiveP!IInv'
        /\ AllocP!Inv => AllocP!Inv'
    BY <2>1, AnalysisSteps, AllocationSteps DEF Rooms
  <2>. QED
    BY <2>1, <2>2 DEF Piped, allocVars, IdleAnalysis, IdleAllocation
<1>. QED
  BY <1>1, <1>2, <1>3, PipedSelect, PipedAnalyze, PipedAllocate DEF Next

LEMMA PipedAlways ==
  ASSUME NEW CONSTANT R, NEW CONSTANT C, Inputs(R, C), Rooms
  PROVE  Spec => [](Staged /\ Piped)
  BY StagedInit, StagedStep, PipedInit, PipedStep, PTL DEF Spec

(***************************************************************************)
(* The state of the pipeline keeps its types: each stage is given what it  *)
(* takes from the stage before it (riscy.cpp, the loop of main).           *)
(***************************************************************************)
THEOREM PipelineTypes ==
  ASSUME NEW CONSTANT R, NEW CONSTANT C, Inputs(R, C), Rooms
  PROVE  Spec => []TypeOK
<1>1. Staged /\ Piped => TypeOK
  <2> SUFFICES ASSUME Staged, Piped PROVE TypeOK
    OBVIOUS
  <2>1. stage # "start" => ir.start = bb.start
    BY DEF Staged, Lift
  <2>2. stage \notin {"start", "lifted"} => blk.guest_pc = bb.start
    BY DEF Staged, Lift, Select
  <2>3. IsLivenessMap(live)
    <3>1. CASE IdleAnalysis
      BY <3>1 DEF IdleAnalysis, IsLivenessMap
    <3>2. CASE LiveP!IInv
      BY <3>2 DEF LiveP!IInv, LiveP!TypeOK, LiveP!IsLivenessMap, LiveP!LiveRange,
                  IsLivenessMap, LiveRange
    <3>. QED
      BY <3>1, <3>2 DEF Piped
  <2>4. stage \in {"allocating", "emitted"} => Alloc!TypeOK
    BY SameAllocation DEF Piped, AllocP!Inv
  <2>. QED
    BY <2>1, <2>2, <2>3, <2>4 DEF TypeOK, Staged
<1>. QED
  BY <1>1, PipedAlways, PTL

(***************************************************************************)
(* When the emitter writes a block, every virtual register in its text has *)
(* a register: the abort of map_v (Emitter.cpp) is never reached, because  *)
(* analyze() maps each register it meets and allocate() returns only when  *)
(* it has served all of them.                                              *)
(***************************************************************************)
THEOREM EmitterFindsAll ==
  ASSUME NEW CONSTANT R, NEW CONSTANT C, Inputs(R, C), Rooms
  PROVE  Spec => [](stage # "abort")
<1>1. Piped => stage # "abort"
  BY DEF Piped
<1>. QED
  BY <1>1, PipedAlways, PTL
-----------------------------------------------------------------------------
\* How many registers a block may need at one time.

\* A set of registers that are values of seven neighbouring numbers, addresses
\* of which there is one at most, or operands of the terminator, one at most.
LEMMA FewOf ==
  ASSUME NEW S, NEW j \in Int, NEW X, NEW Y,
         \A v, w \in X : v = w, \A v, w \in Y : v = w,
         S \subseteq (j - 6 .. j) \cup X \cup Y
  PROVE  IsFiniteSet(S) /\ Cardinality(S) \in Nat /\ Cardinality(S) <= 9
<1>1. ASSUME NEW A, \A v, w \in A : v = w
      PROVE  IsFiniteSet(A) /\ Cardinality(A) \in Nat /\ Cardinality(A) <= 1
  <2>1. CASE A = {}
    BY <2>1, FS_EmptySet
  <2>2. CASE A # {}
    <3>1. PICK v \in A : TRUE
      BY <2>2
    <3>2. A = {v}
      BY <1>1, <3>1
    <3>3. IsFiniteSet({v}) /\ Cardinality({v}) = 1
      BY FS_Singleton
    <3>4. IsFiniteSet(A) /\ Cardinality(A) = 1
      BY <3>2, <3>3, Zenon
    <3>. QED
      BY <3>4
  <2>. QED
    BY <2>1, <2>2
<1>2. ASSUME NEW A, IsFiniteSet(A), NEW B, IsFiniteSet(B)
      PROVE  IsFiniteSet(A \cup B) /\ Cardinality(A \cup B) <= Cardinality(A) + Cardinality(B)
  <2>1. /\ IsFiniteSet(A \cup B)
        /\ Cardinality(A \cup B) = Cardinality(A) + Cardinality(B) - Cardinality(A \cap B)
    BY <1>2, FS_Union
  <2>2. IsFiniteSet(A \cap B)
    <3>1. A \cap B \in SUBSET A
      OBVIOUS
    <3>. QED
      BY <1>2, <3>1, FS_Subset
  <2>3. Cardinality(A) \in Nat /\ Cardinality(B) \in Nat /\ Cardinality(A \cap B) \in Nat
    BY <1>2, <2>2, FS_CardinalityType
  <2>. QED
    BY <2>1, <2>3
<1>. DEFINE Z == j - 6 .. j
<1>3. IsFiniteSet(Z) /\ Cardinality(Z) = 7
  <2>1. j - 6 \in Int /\ ~ (j - 6 > j) /\ j - (j - 6) + 1 = 7
    OBVIOUS
  <2>. QED
    BY <2>1, FS_Interval
<1>. HIDE DEF Z
<1>4. IsFiniteSet(X) /\ Cardinality(X) \in Nat /\ Cardinality(X) <= 1
  BY <1>1
<1>5. IsFiniteSet(Y) /\ Cardinality(Y) \in Nat /\ Cardinality(Y) <= 1
  BY <1>1
<1>6. IsFiniteSet(Z \cup X) /\ Cardinality(Z \cup X) <= Cardinality(Z) + Cardinality(X)
  BY <1>2, <1>3, <1>4
<1>7. /\ IsFiniteSet((Z \cup X) \cup Y)
      /\ Cardinality((Z \cup X) \cup Y) <= Cardinality(Z \cup X) + Cardinality(Y)
  BY <1>2, <1>5, <1>6
<1>8. Cardinality(Z \cup X) \in Nat /\ Cardinality((Z \cup X) \cup Y) \in Nat
  BY <1>6, <1>7, FS_CardinalityType
<1>9. Cardinality((Z \cup X) \cup Y) <= 9
  BY <1>3, <1>4, <1>5, <1>6, <1>7, <1>8
<1>10. S \in SUBSET ((Z \cup X) \cup Y)
  BY DEF Z
<1>11. IsFiniteSet(S) /\ Cardinality(S) <= Cardinality((Z \cup X) \cup Y)
  BY <1>7, <1>10, FS_Subset
<1>12. Cardinality(S) \in Nat
  BY <1>11, FS_CardinalityType
<1>. QED
  BY <1>8, <1>9, <1>11, <1>12

\* What analyze() touches at an instruction the instruction takes or sets.
LEMMA TouchesOfInstr ==
  ASSUME NEW p \in Nat, p < Len(blk.instrs)
  PROVE  Live!TouchesAt(p) \subseteq Touches(blk.instrs[p + 1])
<1>. DEFINE I == blk.instrs[p + 1]
<1>1. Live!TouchesAt(p) = UNION {Live!TouchedBy(I.ops[j]) : j \in DOMAIN I.ops}
  BY DEF Live!TouchesAt
<1>. HIDE DEF I
<1>2. ASSUME NEW j \in DOMAIN I.ops
      PROVE  Live!TouchedBy(I.ops[j]) \subseteq Touches(I)
  <2>1. CASE Writes(I) = {} \/ j # 1
    BY <1>2, <2>1 DEF Reads, Touches
  <2>2. CASE Writes(I) # {} /\ j = 1
    <3>1. Writes(I) = {I.ops[1].id}
      BY <2>2 DEF Writes
    <3>2. Live!TouchedBy(I.ops[1]) \subseteq {I.ops[1].id}
      BY DEF Live!TouchedBy
    <3>. QED
      BY <2>2, <3>1, <3>2 DEF Touches
  <2>. QED
    BY <2>1, <2>2
<1>. QED
  BY <1>1, <1>2 DEF I

\* The registers in the map of the finished analysis.
LEMMA Analyzed ==
  ASSUME LiveP!IInv, scan = "done", pos = Len(blk.instrs), NEW v \in DOMAIN live
  PROVE  /\ Len(blk.instrs) \in Nat
         /\ live[v].start \in 0 .. Len(blk.instrs) /\ v \in Live!TouchesAt(live[v].start)
         /\ live[v].end \in 0 .. Len(blk.instrs) /\ v \in Live!TouchesAt(live[v].end)
<1>1. /\ LiveP!ExactIntervals
      /\ Len(blk.instrs) \in Nat
  BY DEF LiveP!IInv, LiveP!TypeOK, LiveP!IsBlock
<1>2. live[v].start \in LiveP!Positions(v) /\ live[v].end \in LiveP!Positions(v)
  BY <1>1 DEF LiveP!ExactIntervals
<1>3. ASSUME NEW p \in LiveP!Positions(v)
      PROVE  p \in 0 .. Len(blk.instrs) /\ v \in Live!TouchesAt(p)
  <2>1. p \in 0 .. Len(blk.instrs) /\ v \in LiveP!SeenAt(p)
    BY <1>3 DEF LiveP!Positions
  <2>2. LiveP!SeenAt(p) = LiveP!TouchesAt(p)
    BY <1>1, <2>1 DEF LiveP!SeenAt
  <2>3. Live!TouchesAt(p) = LiveP!TouchesAt(p)
    BY DEF Live!TouchesAt, Live!TouchedBy, Live!TouchedByTerm,
           LiveP!TouchesAt, LiveP!TouchedBy, LiveP!TouchedByTerm
  <2>. QED
    BY <2>1, <2>2, <2>3
<1>. QED
  BY <1>1, <1>2, <1>3

\* No more than nine intervals of a block meet at a position.
LEMMA FewMeet ==
  ASSUME LiveP!IInv, scan = "done", pos = Len(blk.instrs),
         NEW t, NEW z, NEW i \in Nat, Selected(blk.instrs, z, t, i),
         NEW p \in 0 .. Len(blk.instrs)
  PROVE  LET M == AllocP!Meeting(p)
         IN IsFiniteSet(M) /\ Cardinality(M) \in Nat /\ Cardinality(M) <= 9
<1>. DEFINE M == AllocP!Meeting(p)
            h == blk.instrs
            n == Len(h)
            N == Len(t)
            Y == Live!TouchedByTerm(blk.term)
<1>1. \A v, w \in Y : v = w
  BY DEF Live!TouchedByTerm
<1>2. ASSUME NEW v \in M
      PROVE  /\ v \in DOMAIN live /\ n \in Nat
             /\ live[v].start \in 0 .. n /\ v \in Live!TouchesAt(live[v].start)
             /\ live[v].end \in 0 .. n /\ v \in Live!TouchesAt(live[v].end)
             /\ live[v].start <= p /\ p <= live[v].end
  BY <1>2, Analyzed DEF AllocP!Meeting
<1>3. ASSUME NEW v \in M, live[v].end = n
      PROVE  v \in Y
  <2>1. v \in Live!TouchesAt(n) /\ ~ (n < n)
    BY <1>2, <1>3
  <2>. QED
    BY <2>1 DEF Live!TouchesAt
<1>4. n \in Nat /\ h \in Seq(Live!AnyInstr)
  <2>1. h \in Seq(Live!AnyInstr)
    BY DEF Selected, Flows
  <2>. HIDE DEF h
  <2>. QED
    BY <2>1
<1>5. CASE p = n
  <2>1. M \subseteq Y
    <3>1. ASSUME NEW v \in M PROVE v \in Y
      <4>1. live[v].end = n
        BY <1>2, <1>4, <1>5, <3>1
      <4>. QED
        BY <1>3, <3>1, <4>1
    <3>. QED
      BY <3>1
  <2>2. M \subseteq (0 - 6 .. 0) \cup {} \cup Y /\ 0 \in Int /\ \A v, w \in {} : v = w
    BY <2>1
  <2>. HIDE DEF M, Y
  <2>. QED
    BY <1>1, <2>2, FewOf DEF M
<1>6. CASE p # n
  <2>1. PICK f : Grouped(h, f, t, i)
    BY DEF Selected
  <2>2. Flows(h, {}) /\ z \in Nat /\ N \in Nat
        /\ Made(h) = {j \in 1 .. i : Defines(t[j])} \cup (N + 2 .. z)
    BY DEF Selected
  <2>. DEFINE X == {v \in M : v > N /\ live[v].end # n}
              c == f[p + 1]
  <2>3. p + 1 \in 1 .. n /\ p \in 0 .. n - 1
    BY <1>4, <1>6
  <2>4. /\ \A a \in 1 .. n : f[a] \in 1 .. i
        /\ \A a, b \in 1 .. n : a <= b => f[a] <= f[b]
        /\ \A a \in 1 .. n : \A v \in Touches(h[a]) : v <= N => f[a] <= v + 6 /\ v <= f[a]
        /\ \A a, b \in 1 .. n : \A v \in Touches(h[a]), w \in Touches(h[b]) :
             v > N /\ w > N => (v = w <=> f[a] = f[b])
    BY <2>1 DEF Grouped
  <2>. HIDE DEF c
  <2>5. c \in 1 .. i /\ c = f[p + 1]
    BY <2>3, <2>4 DEF c
  <2>6. ASSUME NEW v \in M, live[v].end # n
        PROVE  \E a, b \in 1 .. n : /\ v \in Touches(h[a]) /\ v \in Touches(h[b])
                                    /\ f[a] <= c /\ c <= f[b] /\ v \in Int
    <3>. DEFINE a == live[v].start + 1
                b == live[v].end + 1
    <3>1. /\ live[v].start \in Nat /\ live[v].start < n
          /\ live[v].end \in Nat /\ live[v].end < n
          /\ a \in 1 .. n /\ b \in 1 .. n /\ a <= p + 1 /\ p + 1 <= b
      BY <1>2, <1>4, <2>3, <2>6, SMTT(20)
    <3>2. v \in Touches(h[a]) /\ v \in Touches(h[b])
      BY <1>2, <2>6, <3>1, TouchesOfInstr
    <3>3. v \in Int
      <4>1. v \in Made(h)
        BY <2>2, <3>1, <3>2, TouchesMade
      <4>. HIDE DEF N
      <4>. QED
        BY <2>2, <4>1
    <3>. HIDE DEF a, b, h, n, N
    <3>4. f[a] <= f[p + 1]
      BY <2>3, <2>4, <3>1
    <3>5. f[p + 1] <= f[b]
      BY <2>3, <2>4, <3>1
    <3>6. f[a] <= c /\ c <= f[b]
      BY <2>5, <3>4, <3>5
    <3>. QED
      BY <3>1, <3>2, <3>3, <3>6
  <2>. HIDE DEF M, Y, h, n, N
  <2>7. ASSUME NEW v \in M, live[v].end # n, v <= N
        PROVE  v \in c - 6 .. c
    <3>1. PICK a, b \in 1 .. n : /\ v \in Touches(h[a]) /\ v \in Touches(h[b])
                                 /\ f[a] <= c /\ c <= f[b] /\ v \in Int
      BY <2>6, <2>7
    <3>2. v <= f[a] /\ f[b] <= v + 6 /\ f[a] \in 1 .. i /\ f[b] \in 1 .. i
      BY <2>4, <2>7, <3>1
    <3>. QED
      BY <2>5, <3>1, <3>2
  <2>8. ASSUME NEW v \in X
        PROVE  \E a \in 1 .. n : v \in Touches(h[a]) /\ f[a] = c
    <3>1. v \in M /\ v > N /\ live[v].end # n
      BY <2>8
    <3>2. PICK a, b \in 1 .. n : /\ v \in Touches(h[a]) /\ v \in Touches(h[b])
                                 /\ f[a] <= c /\ c <= f[b] /\ v \in Int
      BY <2>6, <3>1
    <3>3. f[a] = f[b] /\ f[a] \in 1 .. i
      BY <2>4, <3>1, <3>2
    <3>4. f[a] = c
      BY <2>5, <3>2, <3>3
    <3>. QED
      BY <3>2, <3>4
  <2>9. ASSUME NEW v \in X, NEW w \in X
        PROVE  v = w
    <3>1. v > N /\ w > N
      OBVIOUS
    <3>2. PICK a \in 1 .. n : v \in Touches(h[a]) /\ f[a] = c
      BY <2>8
    <3>3. PICK b \in 1 .. n : w \in Touches(h[b]) /\ f[b] = c
      BY <2>8
    <3>. QED
      BY <2>4, <3>1, <3>2, <3>3
  <2>10. M \subseteq (c - 6 .. c) \cup X \cup Y
    <3>1. ASSUME NEW v \in M
          PROVE  v \in (c - 6 .. c) \cup X \cup Y
      <4>1. CASE live[v].end = n
        BY <1>3, <3>1, <4>1
      <4>2. CASE live[v].end # n
        <5>1. v \in Int
          BY <2>6, <3>1, <4>2
        <5>2. v <= N \/ v > N
          BY <2>2, <5>1
        <5>. QED
          BY <2>7, <3>1, <4>2, <5>2
      <4>. QED
        BY <4>1, <4>2
    <3>. QED
      BY <3>1
  <2>11. c \in Int
    BY <2>5
  <2>. HIDE DEF X
  <2>. QED
    BY <1>1, <2>9, <2>10, <2>11, FewOf DEF M
<1>. QED
  BY <1>5, <1>6

\* A set that holds all registers of a pool of distinct ones is as large.
LEMMA AllHeld ==
  ASSUME NEW P, P \in Seq(Nat), IsInjective(P), NEW H, IsFiniteSet(H), NEW a,
         {a[v] : v \in H} = {P[j] : j \in DOMAIN P}
  PROVE  Len(P) <= Cardinality(H)
<1>1. Len(P) \in Nat /\ DOMAIN P = 1 .. Len(P) /\ Cardinality(H) \in Nat
  BY FS_CardinalityType
<1>2. IsFiniteSet(1 .. Len(P)) /\ Cardinality(1 .. Len(P)) = Len(P)
  <2>. DEFINE n == Len(P)
  <2>1. 1 \in Int /\ n \in Int /\ n \in Nat
    BY <1>1
  <2>. HIDE DEF n
  <2>2. /\ IsFiniteSet(1 .. n)
        /\ Cardinality(1 .. n) = IF 1 > n THEN 0 ELSE n - 1 + 1
    BY <2>1, FS_Interval
  <2>3. Cardinality(1 .. n) = n
    BY <2>1, <2>2
  <2>. QED
    BY <2>2, <2>3 DEF n
<1>. DEFINE f == [j \in 1 .. Len(P) |-> CHOOSE v \in H : a[v] = P[j]]
<1>3. \A j \in 1 .. Len(P) : f[j] \in H /\ a[f[j]] = P[j]
  <2>1. ASSUME NEW j \in 1 .. Len(P)
        PROVE  f[j] \in H /\ a[f[j]] = P[j]
    <3>1. P[j] \in {a[v] : v \in H}
      BY <1>1
    <3>2. \E v \in H : a[v] = P[j]
      BY <3>1
    <3>. QED
      BY <3>2
  <2>. QED
    BY <2>1
<1>4. f \in [1 .. Len(P) -> H]
  BY <1>3
<1>. HIDE DEF f
<1>5. ASSUME Cardinality(H) < Len(P)
      PROVE  FALSE
  <2>1. \E x, y \in 1 .. Len(P) : x # y /\ f[x] = f[y]
    BY <1>2, <1>4, <1>5, FS_PigeonHole
  <2>2. PICK x, y \in 1 .. Len(P) : x # y /\ f[x] = f[y]
    BY <2>1
  <2>3. P[x] = P[y]
    BY <1>3, <2>2
  <2>. QED
    BY <1>1, <2>2, <2>3 DEF IsInjective
<1>. QED
  BY <1>1, <1>5

\* allocate() takes the intervals by their starts and has not given up.
Roomy ==
  /\ loop # "abort"
  /\ stage = "allocating" => AllocP!Ordered

\* It does not give up on the host code of a block if the pool has nine
\* registers.
LEMMA NoAbort ==
  ASSUME NEW R, NEW C, Inputs(R, C), Rooms, 9 <= Len(PhysPool),
         Staged, Piped, Roomy, stage = "allocating", AllocP!Abort
  PROVE  FALSE
<1>1. /\ LiveP!IInv /\ AllocP!Inv /\ AllocP!Ordered
      /\ scan = "done" /\ pos = Len(blk.instrs)
      /\ bb \in BasicBlocks /\ blk = Select(Lift(bb))
  BY DEF Piped, Roomy, Staged
<1>2. PICK z : Selected(blk.instrs, z, Lift(bb).insts, Len(Lift(bb).insts))
  <2>1. Liftable(bb, R, C) /\ R \subseteq Nat
    BY <1>1 DEF Inputs
  <2>. QED
    BY <1>1, <2>1, SelectedLift
<1>3. Len(Lift(bb).insts) \in Nat
  <2>1. Liftable(bb, R, C) /\ R \subseteq Nat
    BY <1>1 DEF Inputs
  <2>. QED
    BY <2>1, SelectedLift
<1>. DEFINE H == AllocP!Range(kept)
            M == AllocP!Meeting(live[item].start)
<1>4. PhysPool \in Seq(Nat) /\ IsInjective(PhysPool) /\ AllocP!IsInjective(PhysPool)
      /\ Position \subseteq Nat
  BY PositionAssumption DEF Rooms, IsInjective, AllocP!IsInjective
<1>5. /\ item \in M \ H /\ H \subseteq M
      /\ {asg[v] : v \in H} = AllocP!Range(PhysPool)
  BY <1>1, <1>4, AllocP!FullHouse
<1>6. live[item].start \in 0 .. Len(blk.instrs)
  <2>1. item \in DOMAIN live
    BY <1>5 DEF AllocP!Meeting
  <2>. QED
    BY <1>1, <2>1, Analyzed
<1>7. IsFiniteSet(M) /\ Cardinality(M) \in Nat /\ Cardinality(M) <= 9
  BY <1>1, <1>2, <1>3, <1>6, FewMeet
<1>. HIDE DEF M, H
<1>8. IsFiniteSet(H) /\ Len(PhysPool) <= Cardinality(H)
  <2>1. H \in SUBSET M
    BY <1>5
  <2>2. IsFiniteSet(H)
    BY <1>7, <2>1, FS_Subset
  <2>3. {asg[v] : v \in H} = {PhysPool[j] : j \in DOMAIN PhysPool}
    BY <1>5 DEF AllocP!Range
  <2>. QED
    BY <1>4, <2>2, <2>3, AllHeld
<1>9. /\ IsFiniteSet(H \cup {item})
      /\ Cardinality(H \cup {item}) = Cardinality(H) + 1
      /\ Cardinality(H) \in Nat
  BY <1>5, <1>8, FS_AddElement, FS_CardinalityType
<1>10. Cardinality(H \cup {item}) <= Cardinality(M)
  <2>1. H \cup {item} \in SUBSET M
    BY <1>5
  <2>. QED
    BY <1>7, <2>1, FS_Subset
<1>11. Len(PhysPool) \in Nat
  BY <1>4
<1>. QED
  BY <1>7, <1>8, <1>9, <1>10, <1>11

LEMMA RoomyInit == Init => Roomy
  BY DEF Init, Roomy

LEMMA RoomyStep ==
  ASSUME NEW R, NEW C, Inputs(R, C), Rooms, 9 <= Len(PhysPool),
         Staged, Piped, Roomy, [Next]_vars
  PROVE  Roomy'
<1>1. CASE StartAllocate
  <2>1. /\ stage = "analyzed" /\ UNCHANGED <<asg, loop>>
    BY <1>1 DEF StartAllocate
  <2>2. asg' = <<>> /\ loop' = "alloc"
    BY <2>1 DEF Piped, IdleAllocation
  <2>. QED
    BY <2>2 DEF Roomy, AllocP!Ordered
<1>2. CASE AllocateStep
  <2>1. /\ stage = "allocating" /\ stage' = "allocating" /\ Alloc!Next
        /\ AllocP!Inv /\ AllocP!Ordered /\ loop # "abort"
    BY <1>2 DEF AllocateStep, Piped, Roomy
  <2>2. AllocP!Next
    BY <2>1, SameAllocation
  <2>3. PhysPool \in Seq(Nat) /\ AllocP!IsInjective(PhysPool) /\ Position \subseteq Nat
    BY PositionAssumption DEF Rooms, IsInjective, AllocP!IsInjective
  <2>4. AllocP!Inv /\ AllocP!Ordered /\ [AllocP!Next]_(AllocP!vars) => AllocP!Ordered'
    BY <2>3, AllocP!OrderStep
  <2>5. AllocP!Ordered'
    BY <2>1, <2>2, <2>4
  <2>6. ~ AllocP!Abort
    BY <2>1, NoAbort
  <2>7. loop' # "abort"
    BY <2>1, <2>2, <2>6
       DEF AllocP!Next, AllocP!TakeItem, AllocP!Keep, AllocP!Free, AllocP!PushFreed,
           AllocP!Allocate, AllocP!Return, AllocP!Serve, AllocP!Examine
  <2>. QED
    BY <2>5, <2>7 DEF Roomy
<1>3. CASE AnalyzeStep
  BY <1>3 DEF AnalyzeStep, allocVars, Roomy
<1>4. CASE ~ AnalyzeStep /\ ~ StartAllocate /\ ~ AllocateStep
  <2>1. UNCHANGED <<live, todo, asg, loop>> /\ (stage' = "allocating" => stage = "allocating")
    BY <1>4 DEF Next, LiftBlock, SelectBlock, Emit, vars, liveVars, allocVars
  <2>. QED
    BY <2>1 DEF Roomy, AllocP!Ordered
<1>. QED
  BY <1>1, <1>2, <1>3, <1>4

(***************************************************************************)
(* No block, however long, makes the allocator run out of registers or the *)
(* emitter meet one it cannot map, if the pool has nine (that of           *)
(* RegAlloc.cpp has 25): a value of the IR is used within seven places of  *)
(* its own, an address only where it is computed, and the terminator takes *)
(* one value.                                                              *)
(***************************************************************************)
THEOREM NeverRunsOut ==
  ASSUME NEW CONSTANT R, NEW CONSTANT C, Inputs(R, C), Rooms, 9 <= Len(PhysPool)
  PROVE  Spec => []NeverAborts
<1>1. Piped /\ Roomy => NeverAborts
  BY DEF Piped, Roomy, NeverAborts
<1>2. Init => Roomy
  BY RoomyInit
<1>3. Staged /\ Piped /\ Roomy /\ [Next]_vars => Roomy'
  BY RoomyStep
<1>. QED
  BY <1>1, <1>2, <1>3, PipedAlways, PTL DEF Spec

-----------------------------------------------------------------------------
\* Two runs of the host code of a block, with different registers.

\* What registers hold after J if it computes u.
After(J, a, r, u) == IF J.op \in {"Cmp", "StrX", "StrW"} THEN r ELSE Put(r, a[J.ops[1].id], u)

\* Hosts that run with registers a and b, which may hold different things, do
\* the same by J.
SameStep(J, a, r, b, s, c, x, m) ==
  \E u, d, y, n :
    /\ Execute(Host(a, r, c, x, m), J) = Host(a, After(J, a, r, u), d, y, n)
    /\ Execute(Host(b, s, c, x, m), J) = Host(b, After(J, b, s, u), d, y, n)

\* An instruction that computes the same for both.
LEMMA SameWrite ==
  ASSUME NEW J, J.op \notin {"Cmp", "StrX", "StrW"}, NEW d, J.ops[1].id = d,
         NEW a, NEW r, NEW b, NEW s, NEW c, NEW x, NEW m, NEW u,
         Execute(Host(a, r, c, x, m), J) = Host(a, Put(r, a[d], u), c, x, m),
         Execute(Host(b, s, c, x, m), J) = Host(b, Put(s, b[d], u), c, x, m)
  PROVE  SameStep(J, a, r, b, s, c, x, m)
<1>1. After(J, a, r, u) = Put(r, a[d], u) /\ After(J, b, s, u) = Put(s, b[d], u)
  BY DEF After
<1>2. /\ Execute(Host(a, r, c, x, m), J) = Host(a, After(J, a, r, u), c, x, m)
      /\ Execute(Host(b, s, c, x, m), J) = Host(b, After(J, b, s, u), c, x, m)
  BY <1>1
<1>. QED
  BY <1>2 DEF SameStep

\* One that computes nothing.
LEMMA SameMemory ==
  ASSUME NEW J, J.op \in {"Cmp", "StrX", "StrW"},
         NEW a, NEW r, NEW b, NEW s, NEW c, NEW x, NEW m, NEW d, NEW y, NEW n,
         Execute(Host(a, r, c, x, m), J) = Host(a, r, d, y, n),
         Execute(Host(b, s, c, x, m), J) = Host(b, s, d, y, n)
  PROVE  SameStep(J, a, r, b, s, c, x, m)
<1>1. \A u : After(J, a, r, u) = r /\ After(J, b, s, u) = s
  BY DEF After
<1>2. \A u : /\ Execute(Host(a, r, c, x, m), J) = Host(a, After(J, a, r, u), d, y, n)
             /\ Execute(Host(b, s, c, x, m), J) = Host(b, After(J, b, s, u), d, y, n)
  BY <1>1
<1>. QED
  BY <1>2 DEF SameStep

\* What an instruction of two operands reads, and what it is.
LEMMA CodedRegReads ==
  ASSUME NEW op \in Live!Opcodes, NEW d \in Nat, NEW v \in Nat,
         NEW J, J = Instr(op, <<RegV(d), RegV(v)>>)
  PROVE  /\ J.op = op /\ J.ops[1].id = d /\ v \in Reads(J)
         /\ op \in {"Cmp", "StrX", "StrW"} => d \in Reads(J)
<1>1. RegV(v) \in Live!AnyOperand /\ Live!TouchedBy(RegV(v)) = {v}
  BY HostOperands
<1>2. J.op = op /\ J.ops[1].id = d
  BY DEF Instr, RegV
<1>. QED
  BY <1>1, <1>2, HostTwo

LEMMA CodedMemReads ==
  ASSUME NEW op \in Live!Opcodes, NEW d \in Nat, NEW v \in Nat, NEW n \in Int,
         NEW J, J = Instr(op, <<RegV(d), Mem(v, n)>>)
  PROVE  /\ J.op = op /\ J.ops[1].id = d /\ (v # 0 => v \in Reads(J))
         /\ op \in {"Cmp", "StrX", "StrW"} => d \in Reads(J)
<1>1. Mem(v, n) \in Live!AnyOperand /\ Live!TouchedBy(Mem(v, n)) = {v} \ {0}
  BY HostOperands
<1>2. J.op = op /\ J.ops[1].id = d
  BY DEF Instr, RegV
<1>. QED
  BY <1>1, <1>2, HostTwo

\* What a load finds and a store leaves, if the address register holds w.
Found(op, v, n, w, x, m) ==
  IF v = 0 THEN x[Slot(n)]
  ELSE Load(m, IF op = "LdrX" THEN "I64" ELSE "I32", w + n - MemBase)

LEMMA HostLoad ==
  ASSUME NEW op \in {"LdrX", "LdrW"}, NEW d, NEW v, NEW n, NEW a, NEW r, NEW c, NEW x, NEW m
  PROVE  Execute(Host(a, r, c, x, m), Instr(op, <<RegV(d), Mem(v, n)>>))
           = Host(a, Put(r, a[d], Found(op, v, n, r[a[v]], x, m)), c, x, m)
<1>1. CASE v = 0 /\ op = "LdrX"
  <2>1. Found(op, v, n, r[a[v]], x, m) = x[Slot(n)]
    BY <1>1 DEF Found
  <2>2. Execute(Host(a, r, c, x, m), Instr("LdrX", <<RegV(d), Mem(0, n)>>))
          = Host(a, Put(r, a[d], x[Slot(n)]), c, x, m)
    BY HostStateLdrX
  <2>. QED
    BY <1>1, <2>1, <2>2
<1>2. CASE v = 0 /\ op = "LdrW"
  <2>1. Found(op, v, n, r[a[v]], x, m) = x[Slot(n)]
    BY <1>2 DEF Found
  <2>2. Execute(Host(a, r, c, x, m), Instr("LdrW", <<RegV(d), Mem(0, n)>>))
          = Host(a, Put(r, a[d], x[Slot(n)]), c, x, m)
    BY HostStateLdrW
  <2>. QED
    BY <1>2, <2>1, <2>2
<1>3. CASE v # 0 /\ op = "LdrX"
  <2>1. Found(op, v, n, r[a[v]], x, m) = Load(m, "I64", r[a[v]] + n - MemBase)
    BY <1>3 DEF Found
  <2>2. Execute(Host(a, r, c, x, m), Instr("LdrX", <<RegV(d), Mem(v, n)>>))
          = Host(a, Put(r, a[d], Load(m, "I64", r[a[v]] + n - MemBase)), c, x, m)
    BY <1>3, HostLdrX
  <2>. QED
    BY <1>3, <2>1, <2>2
<1>4. CASE v # 0 /\ op = "LdrW"
  <2>1. Found(op, v, n, r[a[v]], x, m) = Load(m, "I32", r[a[v]] + n - MemBase)
    BY <1>4 DEF Found
  <2>2. Execute(Host(a, r, c, x, m), Instr("LdrW", <<RegV(d), Mem(v, n)>>))
          = Host(a, Put(r, a[d], Load(m, "I32", r[a[v]] + n - MemBase)), c, x, m)
    BY <1>4, HostLdrW
  <2>. QED
    BY <1>4, <2>1, <2>2
<1>. QED
  BY <1>1, <1>2, <1>3, <1>4

LeftState(v, n, u, x) == IF v = 0 THEN Put(x, Slot(n), u) ELSE x

LeftMemory(op, v, n, w, u, m) ==
  IF v = 0 THEN m ELSE Store(m, IF op = "StrX" THEN "I64" ELSE "I32", w + n - MemBase, u)

LEMMA HostStore ==
  ASSUME NEW op \in {"StrX", "StrW"}, NEW d, NEW v, NEW n, NEW a, NEW r, NEW c, NEW x, NEW m
  PROVE  Execute(Host(a, r, c, x, m), Instr(op, <<RegV(d), Mem(v, n)>>))
           = Host(a, r, c, LeftState(v, n, r[a[d]], x), LeftMemory(op, v, n, r[a[v]], r[a[d]], m))
<1>. DEFINE y == LeftState(v, n, r[a[d]], x)
            z == LeftMemory(op, v, n, r[a[v]], r[a[d]], m)
<1>1. CASE v = 0 /\ op = "StrX"
  <2>1. y = Put(x, Slot(n), r[a[d]]) /\ z = m
    BY <1>1 DEF LeftState, LeftMemory
  <2>2. Execute(Host(a, r, c, x, m), Instr("StrX", <<RegV(d), Mem(0, n)>>))
          = Host(a, r, c, Put(x, Slot(n), r[a[d]]), m)
    BY HostStateStrX
  <2>. QED
    BY <1>1, <2>1, <2>2
<1>2. CASE v = 0 /\ op = "StrW"
  <2>1. y = Put(x, Slot(n), r[a[d]]) /\ z = m
    BY <1>2 DEF LeftState, LeftMemory
  <2>2. Execute(Host(a, r, c, x, m), Instr("StrW", <<RegV(d), Mem(0, n)>>))
          = Host(a, r, c, Put(x, Slot(n), r[a[d]]), m)
    BY HostStateStrW
  <2>. QED
    BY <1>2, <2>1, <2>2
<1>3. CASE v # 0 /\ op = "StrX"
  <2>1. y = x /\ z = Store(m, "I64", r[a[v]] + n - MemBase, r[a[d]])
    BY <1>3 DEF LeftState, LeftMemory
  <2>2. Execute(Host(a, r, c, x, m), Instr("StrX", <<RegV(d), Mem(v, n)>>))
          = Host(a, r, c, x, Store(m, "I64", r[a[v]] + n - MemBase, r[a[d]]))
    BY <1>3, HostStrX
  <2>. QED
    BY <1>3, <2>1, <2>2
<1>4. CASE v # 0 /\ op = "StrW"
  <2>1. y = x /\ z = Store(m, "I32", r[a[v]] + n - MemBase, r[a[d]])
    BY <1>4 DEF LeftState, LeftMemory
  <2>2. Execute(Host(a, r, c, x, m), Instr("StrW", <<RegV(d), Mem(v, n)>>))
          = Host(a, r, c, x, Store(m, "I32", r[a[v]] + n - MemBase, r[a[d]]))
    BY <1>4, HostStrW
  <2>. QED
    BY <1>4, <2>1, <2>2
<1>. QED
  BY <1>1, <1>2, <1>3, <1>4

LEMMA HostIsBinOp ==
  ASSUME NEW o \in DOMAIN OpOfBinOp, NEW d, NEW v, NEW w, NEW a, NEW r, NEW c, NEW x, NEW m,
         NEW J, J = Instr(OpOfBinOp[o], <<RegV(d), RegV(v), RegV(w)>>)
  PROVE  Execute(Host(a, r, c, x, m), J)
           = Host(a, Put(r, a[d], WordOp(o, r[a[v]], r[a[w]])), c, x, m)
<1>1. Execute(Host(a, r, c, x, m), Instr(OpOfBinOp[o], <<RegV(d), RegV(v), RegV(w)>>))
        = Host(a, Put(r, a[d], WordOp(o, r[a[v]], r[a[w]])), c, x, m)
  BY HostBinOp
<1>. QED
  BY <1>1

\* Every instruction does the same for both, if what it reads is the same.
LEMMA CodedSame ==
  ASSUME NEW J, Coded(J), NEW a, NEW r, NEW b, NEW s, NEW c, NEW x, NEW m,
         r[21] = s[21], \A v \in Reads(J) : r[a[v]] = s[b[v]]
  PROVE  SameStep(J, a, r, b, s, c, x, m)
<1>. DEFINE A == Execute(Host(a, r, c, x, m), J)
            B == Execute(Host(b, s, c, x, m), J)
            D == SameStep(J, a, r, b, s, c, x, m)
<1>a. ASSUME NEW d, NEW u, J.op \notin {"Cmp", "StrX", "StrW"}, J.ops[1].id = d,
             A = Host(a, Put(r, a[d], u), c, x, m), B = Host(b, Put(s, b[d], u), c, x, m)
      PROVE  D
  BY <1>a, SameWrite
<1>b. ASSUME NEW d, NEW y, NEW n, J.op \in {"Cmp", "StrX", "StrW"},
             A = Host(a, r, d, y, n), B = Host(b, s, d, y, n)
      PROVE  D
  BY <1>b, SameMemory
<1>. HIDE DEF D
<1>1. ASSUME NEW op \in {"Mov", "Sxtw", "Uxtw"}, NEW d \in Nat, NEW v \in Nat,
             J = Instr(op, <<RegV(d), RegV(v)>>)
      PROVE  D
  <2>1. op \in Live!Opcodes
    BY DEF Live!Opcodes
  <2>2. J.op = op /\ J.ops[1].id = d /\ v \in Reads(J)
    BY <1>1, <2>1, CodedRegReads
  <2>3. r[a[v]] = s[b[v]] /\ J.op \notin {"Cmp", "StrX", "StrW"}
    BY <2>2
  <2>4. CASE op = "Mov"
    <3>1. /\ A = Host(a, Put(r, a[d], r[a[v]]), c, x, m)
          /\ B = Host(b, Put(s, b[d], s[b[v]]), c, x, m)
      <4>1. A = Host(a, Put(r, a[d], r[a[v]]), c, x, m)
        <5>1. Execute(Host(a, r, c, x, m), Instr("Mov", <<RegV(d), RegV(v)>>))
                = Host(a, Put(r, a[d], r[a[v]]), c, x, m)
          BY <2>4, HostMov
        <5>. QED
          BY <1>1, <2>4, <5>1
      <4>2. B = Host(b, Put(s, b[d], s[b[v]]), c, x, m)
        <5>1. Execute(Host(b, s, c, x, m), Instr("Mov", <<RegV(d), RegV(v)>>))
                = Host(b, Put(s, b[d], s[b[v]]), c, x, m)
          BY <2>4, HostMov
        <5>. QED
          BY <1>1, <2>4, <5>1
      <4>. QED
        BY <4>1, <4>2
    <3>. QED
      BY <2>2, <2>3, <3>1, <1>a
  <2>5. CASE op = "Sxtw"
    <3>1. /\ A = Host(a, Put(r, a[d], SextHalf(r[a[v]])), c, x, m)
          /\ B = Host(b, Put(s, b[d], SextHalf(s[b[v]])), c, x, m)
      <4>1. A = Host(a, Put(r, a[d], SextHalf(r[a[v]])), c, x, m)
        <5>1. Execute(Host(a, r, c, x, m), Instr("Sxtw", <<RegV(d), RegV(v)>>))
                = Host(a, Put(r, a[d], SextHalf(r[a[v]])), c, x, m)
          BY <2>5, HostSxtw
        <5>. QED
          BY <1>1, <2>5, <5>1
      <4>2. B = Host(b, Put(s, b[d], SextHalf(s[b[v]])), c, x, m)
        <5>1. Execute(Host(b, s, c, x, m), Instr("Sxtw", <<RegV(d), RegV(v)>>))
                = Host(b, Put(s, b[d], SextHalf(s[b[v]])), c, x, m)
          BY <2>5, HostSxtw
        <5>. QED
          BY <1>1, <2>5, <5>1
      <4>. QED
        BY <4>1, <4>2
    <3>. QED
      BY <2>2, <2>3, <3>1, <1>a
  <2>6. CASE op = "Uxtw"
    <3>1. /\ A = Host(a, Put(r, a[d], Low(r[a[v]])), c, x, m)
          /\ B = Host(b, Put(s, b[d], Low(s[b[v]])), c, x, m)
      <4>1. A = Host(a, Put(r, a[d], Low(r[a[v]])), c, x, m)
        <5>1. Execute(Host(a, r, c, x, m), Instr("Uxtw", <<RegV(d), RegV(v)>>))
                = Host(a, Put(r, a[d], Low(r[a[v]])), c, x, m)
          BY <2>6, HostUxtw
        <5>. QED
          BY <1>1, <2>6, <5>1
      <4>2. B = Host(b, Put(s, b[d], Low(s[b[v]])), c, x, m)
        <5>1. Execute(Host(b, s, c, x, m), Instr("Uxtw", <<RegV(d), RegV(v)>>))
                = Host(b, Put(s, b[d], Low(s[b[v]])), c, x, m)
          BY <2>6, HostUxtw
        <5>. QED
          BY <1>1, <2>6, <5>1
      <4>. QED
        BY <4>1, <4>2
    <3>. QED
      BY <2>2, <2>3, <3>1, <1>a
  <2>. QED
    BY <2>4, <2>5, <2>6
<1>2. ASSUME NEW op \in {"Mov", "MovZ"}, NEW d \in Nat, NEW n \in Int,
             J = Instr(op, <<RegV(d), Imm(n)>>)
      PROVE  D
  <2>1. op \in Live!Opcodes
    BY DEF Live!Opcodes
  <2>2. J.op = op /\ J.ops[1].id = d
    BY <1>2 DEF Instr, RegV
  <2>3. J.op \notin {"Cmp", "StrX", "StrW"}
    BY <2>2
  <2>4. /\ A = Host(a, Put(r, a[d], n), c, x, m)
        /\ B = Host(b, Put(s, b[d], n), c, x, m)
    <3>1. A = Host(a, Put(r, a[d], n), c, x, m)
      <4>1. CASE op = "Mov"
        <5>1. Execute(Host(a, r, c, x, m), Instr("Mov", <<RegV(d), Imm(n)>>))
                = Host(a, Put(r, a[d], n), c, x, m)
          BY HostImm
        <5>. QED
          BY <1>2, <4>1, <5>1
      <4>2. CASE op = "MovZ"
        <5>1. Execute(Host(a, r, c, x, m), Instr("MovZ", <<RegV(d), Imm(n)>>))
                = Host(a, Put(r, a[d], n), c, x, m)
          BY HostMovZ
        <5>. QED
          BY <1>2, <4>2, <5>1
      <4>. QED
        BY <4>1, <4>2
    <3>2. B = Host(b, Put(s, b[d], n), c, x, m)
      <4>1. CASE op = "Mov"
        <5>1. Execute(Host(b, s, c, x, m), Instr("Mov", <<RegV(d), Imm(n)>>))
                = Host(b, Put(s, b[d], n), c, x, m)
          BY HostImm
        <5>. QED
          BY <1>2, <4>1, <5>1
      <4>2. CASE op = "MovZ"
        <5>1. Execute(Host(b, s, c, x, m), Instr("MovZ", <<RegV(d), Imm(n)>>))
                = Host(b, Put(s, b[d], n), c, x, m)
          BY HostMovZ
        <5>. QED
          BY <1>2, <4>2, <5>1
      <4>. QED
        BY <4>1, <4>2
    <3>. QED
      BY <3>1, <3>2
  <2>. QED
    BY <2>2, <2>3, <2>4, <1>a
<1>3. ASSUME NEW d \in Nat, NEW n \in Int, NEW l \in Int,
             J = Instr("MovK", <<RegV(d), Imm(n), Imm(l)>>)
      PROVE  D
  <2>1. "MovK" \in Live!Opcodes
    BY DEF Live!Opcodes
  <2>2. J.op = "MovK" /\ J.ops[1].id = d
    BY <1>3 DEF Instr, RegV
  <2>3. d \in Reads(J)
    <3>1. Imm(n) \in Live!AnyOperand /\ Imm(l) \in Live!AnyOperand
      BY HostOperands
    <3>. QED
      BY <1>3, <2>1, <3>1, HostThree
  <2>4. r[a[d]] = s[b[d]] /\ J.op \notin {"Cmp", "StrX", "StrW"}
    BY <2>2, <2>3
  <2>5. /\ A = Host(a, Put(r, a[d], MovK(r[a[d]], n, l)), c, x, m)
        /\ B = Host(b, Put(s, b[d], MovK(s[b[d]], n, l)), c, x, m)
    <3>1. A = Host(a, Put(r, a[d], MovK(r[a[d]], n, l)), c, x, m)
      <4>1. Execute(Host(a, r, c, x, m), Instr("MovK", <<RegV(d), Imm(n), Imm(l)>>))
              = Host(a, Put(r, a[d], MovK(r[a[d]], n, l)), c, x, m)
        BY HostMovK
      <4>. QED
        BY <1>3, <4>1
    <3>2. B = Host(b, Put(s, b[d], MovK(s[b[d]], n, l)), c, x, m)
      <4>1. Execute(Host(b, s, c, x, m), Instr("MovK", <<RegV(d), Imm(n), Imm(l)>>))
              = Host(b, Put(s, b[d], MovK(s[b[d]], n, l)), c, x, m)
        BY HostMovK
      <4>. QED
        BY <1>3, <4>1
    <3>. QED
      BY <3>1, <3>2
  <2>. QED
    BY <2>2, <2>4, <2>5, <1>a
<1>4. ASSUME NEW o \in DOMAIN OpOfBinOp, NEW d \in Nat, NEW v \in Nat, NEW w \in Nat,
             J = Instr(OpOfBinOp[o], <<RegV(d), RegV(v), RegV(w)>>)
      PROVE  D
  <2>. DEFINE op == OpOfBinOp[o]
  <2>1. op \in Live!Opcodes /\ op \notin {"Cmp", "StrX", "StrW", "MovK"}
    BY DEF Live!Opcodes, OpOfBinOp
  <2>2. J = Instr(op, <<RegV(d), RegV(v), RegV(w)>>)
    BY <1>4
  <2>3. /\ A = Host(a, Put(r, a[d], WordOp(o, r[a[v]], r[a[w]])), c, x, m)
        /\ B = Host(b, Put(s, b[d], WordOp(o, s[b[v]], s[b[w]])), c, x, m)
    <3>1. A = Host(a, Put(r, a[d], WordOp(o, r[a[v]], r[a[w]])), c, x, m)
      BY <1>4, HostIsBinOp
    <3>2. B = Host(b, Put(s, b[d], WordOp(o, s[b[v]], s[b[w]])), c, x, m)
      BY <1>4, HostIsBinOp
    <3>. QED
      BY <3>1, <3>2
  <2>. HIDE DEF op
  <2>4. J.op = op /\ J.ops[1].id = d
    BY <2>2 DEF Instr, RegV
  <2>5. v \in Reads(J) /\ w \in Reads(J)
    <3>1. /\ RegV(v) \in Live!AnyOperand /\ Live!TouchedBy(RegV(v)) = {v}
          /\ RegV(w) \in Live!AnyOperand /\ Live!TouchedBy(RegV(w)) = {w}
      BY HostOperands
    <3>. QED
      BY <2>1, <2>2, <3>1, HostThree
  <2>6. r[a[v]] = s[b[v]] /\ r[a[w]] = s[b[w]] /\ J.op \notin {"Cmp", "StrX", "StrW"}
    BY <2>1, <2>4, <2>5
  <2>. QED
    BY <2>3, <2>4, <2>6, <1>a
<1>5. ASSUME NEW d \in Nat, NEW v \in Nat, J = SelectAddress(d, v)
      PROVE  D
  <2>1. "Add" \in Live!Opcodes
    BY DEF Live!Opcodes
  <2>2. J.op = "Add" /\ J.ops[1].id = d
    BY <1>5 DEF SelectAddress, Instr, RegV
  <2>3. v \in Reads(J)
    <3>1. /\ RegV(v) \in Live!AnyOperand /\ Live!TouchedBy(RegV(v)) = {v}
          /\ RegP(21) \in Live!AnyOperand
      BY HostOperands
    <3>. QED
      BY <1>5, <2>1, <3>1, HostThree DEF SelectAddress
  <2>4. r[a[v]] = s[b[v]] /\ J.op \notin {"Cmp", "StrX", "StrW"}
    BY <2>2, <2>3
  <2>5. /\ A = Host(a, Put(r, a[d], Wrap(r[a[v]] + r[21])), c, x, m)
        /\ B = Host(b, Put(s, b[d], Wrap(s[b[v]] + s[21])), c, x, m)
    <3>1. A = Host(a, Put(r, a[d], Wrap(r[a[v]] + r[21])), c, x, m)
      <4>1. Execute(Host(a, r, c, x, m), SelectAddress(d, v))
              = Host(a, Put(r, a[d], Wrap(r[a[v]] + r[21])), c, x, m)
        BY HostAddress
      <4>. QED
        BY <1>5, <4>1
    <3>2. B = Host(b, Put(s, b[d], Wrap(s[b[v]] + s[21])), c, x, m)
      <4>1. Execute(Host(b, s, c, x, m), SelectAddress(d, v))
              = Host(b, Put(s, b[d], Wrap(s[b[v]] + s[21])), c, x, m)
        BY HostAddress
      <4>. QED
        BY <1>5, <4>1
    <3>. QED
      BY <3>1, <3>2
  <2>. QED
    BY <2>2, <2>4, <2>5, <1>a
<1>6. ASSUME NEW v \in Nat, NEW w \in Nat, J = Instr("Cmp", <<RegV(v), RegV(w)>>)
      PROVE  D
  <2>1. "Cmp" \in Live!Opcodes
    BY DEF Live!Opcodes
  <2>2. J.op = "Cmp" /\ v \in Reads(J) /\ w \in Reads(J)
    BY <1>6, <2>1, CodedRegReads
  <2>3. /\ A = Host(a, r, <<r[a[v]], r[a[w]]>>, x, m)
        /\ B = Host(b, s, <<s[b[v]], s[b[w]]>>, x, m)
    <3>1. A = Host(a, r, <<r[a[v]], r[a[w]]>>, x, m)
      <4>1. Execute(Host(a, r, c, x, m), Instr("Cmp", <<RegV(v), RegV(w)>>))
              = Host(a, r, <<r[a[v]], r[a[w]]>>, x, m)
        BY HostCmp
      <4>. QED
        BY <1>6, <4>1
    <3>2. B = Host(b, s, <<s[b[v]], s[b[w]]>>, x, m)
      <4>1. Execute(Host(b, s, c, x, m), Instr("Cmp", <<RegV(v), RegV(w)>>))
              = Host(b, s, <<s[b[v]], s[b[w]]>>, x, m)
        BY HostCmp
      <4>. QED
        BY <1>6, <4>1
    <3>. QED
      BY <3>1, <3>2
  <2>4. r[a[v]] = s[b[v]] /\ r[a[w]] = s[b[w]]
    BY <2>2
  <2>. QED
    BY <2>2, <2>3, <2>4, <1>b
<1>7. ASSUME NEW o \in DOMAIN CsetOf, NEW d \in Nat, J = Instr(CsetOf[o], <<RegV(d)>>)
      PROVE  D
  <2>. DEFINE u == IF Holds(o, c[1], c[2]) THEN 1 ELSE 0
  <2>1. CsetOf[o] \notin {"Cmp", "StrX", "StrW"}
    BY DEF CsetOf
  <2>2. J.op \notin {"Cmp", "StrX", "StrW"} /\ J.ops[1].id = d
    BY <1>7, <2>1 DEF Instr, RegV
  <2>3. /\ A = Host(a, Put(r, a[d], u), c, x, m)
        /\ B = Host(b, Put(s, b[d], u), c, x, m)
    <3>1. A = Host(a, Put(r, a[d], u), c, x, m)
      <4>1. \A q \in DOMAIN CsetOf :
              Execute(Host(a, r, c, x, m), Instr(CsetOf[q], <<RegV(d)>>))
                = Host(a, Put(r, a[d], IF Holds(q, c[1], c[2]) THEN 1 ELSE 0), c, x, m)
        BY HostAnyCset
      <4>. QED
        BY <1>7, <4>1
    <3>2. B = Host(b, Put(s, b[d], u), c, x, m)
      <4>1. \A q \in DOMAIN CsetOf :
              Execute(Host(b, s, c, x, m), Instr(CsetOf[q], <<RegV(d)>>))
                = Host(b, Put(s, b[d], IF Holds(q, c[1], c[2]) THEN 1 ELSE 0), c, x, m)
        BY HostAnyCset
      <4>. QED
        BY <1>7, <4>1
    <3>. QED
      BY <3>1, <3>2
  <2>. HIDE DEF u
  <2>. QED
    BY <2>2, <2>3, <1>a
<1>8. ASSUME NEW op \in {"LdrX", "LdrW", "StrX", "StrW"}, NEW d \in Nat, NEW v \in Nat,
             NEW n \in Int, J = Instr(op, <<RegV(d), Mem(v, n)>>)
      PROVE  D
  <2>1. op \in Live!Opcodes
    BY DEF Live!Opcodes
  <2>2. /\ J.op = op /\ J.ops[1].id = d /\ (v # 0 => v \in Reads(J))
        /\ op \in {"StrX", "StrW"} => d \in Reads(J)
    BY <1>8, <2>1, CodedMemReads
  <2>3. CASE op \in {"LdrX", "LdrW"}
    <3>1. A = Host(a, Put(r, a[d], Found(op, v, n, r[a[v]], x, m)), c, x, m)
      <4>1. Execute(Host(a, r, c, x, m), Instr(op, <<RegV(d), Mem(v, n)>>))
              = Host(a, Put(r, a[d], Found(op, v, n, r[a[v]], x, m)), c, x, m)
        BY <2>3, HostLoad, SMTT(20)
      <4>. QED
        BY <1>8, <2>3, <4>1
    <3>2. B = Host(b, Put(s, b[d], Found(op, v, n, s[b[v]], x, m)), c, x, m)
      <4>1. Execute(Host(b, s, c, x, m), Instr(op, <<RegV(d), Mem(v, n)>>))
              = Host(b, Put(s, b[d], Found(op, v, n, s[b[v]], x, m)), c, x, m)
        BY <2>3, HostLoad, SMTT(20)
      <4>. QED
        BY <1>8, <2>3, <4>1
    <3>3. Found(op, v, n, r[a[v]], x, m) = Found(op, v, n, s[b[v]], x, m)
      BY <2>2 DEF Found
    <3>4. J.op \notin {"Cmp", "StrX", "StrW"} /\ J.ops[1].id = d
      BY <2>2, <2>3
    <3>. QED
      BY <3>1, <3>2, <3>3, <3>4, <1>a
  <2>4. CASE op \in {"StrX", "StrW"}
    <3>1. A = Host(a, r, c, LeftState(v, n, r[a[d]], x), LeftMemory(op, v, n, r[a[v]], r[a[d]], m))
      <4>1. Execute(Host(a, r, c, x, m), Instr(op, <<RegV(d), Mem(v, n)>>))
              = Host(a, r, c, LeftState(v, n, r[a[d]], x),
                       LeftMemory(op, v, n, r[a[v]], r[a[d]], m))
        BY <2>4, HostStore
      <4>. QED
        BY <1>8, <2>4, <4>1
    <3>2. B = Host(b, s, c, LeftState(v, n, s[b[d]], x), LeftMemory(op, v, n, s[b[v]], s[b[d]], m))
      <4>1. Execute(Host(b, s, c, x, m), Instr(op, <<RegV(d), Mem(v, n)>>))
              = Host(b, s, c, LeftState(v, n, s[b[d]], x),
                       LeftMemory(op, v, n, s[b[v]], s[b[d]], m))
        BY <2>4, HostStore
      <4>. QED
        BY <1>8, <2>4, <4>1
    <3>3. r[a[d]] = s[b[d]] /\ J.op \in {"Cmp", "StrX", "StrW"}
      BY <2>2, <2>4
    <3>4. LeftMemory(op, v, n, r[a[v]], r[a[d]], m) = LeftMemory(op, v, n, s[b[v]], r[a[d]], m)
      BY <2>2 DEF LeftMemory
    <3>. QED
      BY <3>1, <3>2, <3>3, <3>4, <1>b
  <2>. QED
    BY <2>3, <2>4
<1>9. D
  BY <1>1, <1>2, <1>3, <1>4, <1>5, <1>6, <1>7, <1>8 DEF Coded
<1>. QED
  BY <1>9 DEF D

-----------------------------------------------------------------------------
\* The registers that allocate() gives.

\* The virtual register whose register J changes.
Sets(J) == IF J.op \in {"Cmp", "StrX", "StrW"} THEN {} ELSE {J.ops[1].id}

\* The first operand of every instruction is a virtual register.
LEMMA CodedFirst ==
  ASSUME NEW J, Coded(J)
  PROVE  1 \in DOMAIN J.ops /\ J.ops[1].kind = "RegV"
<1>1. ASSUME NEW op, NEW d, NEW x, NEW y,
             \/ J = Instr(op, <<RegV(d)>>)
             \/ J = Instr(op, <<RegV(d), x>>)
             \/ J = Instr(op, <<RegV(d), x, y>>)
      PROVE  1 \in DOMAIN J.ops /\ J.ops[1].kind = "RegV"
  BY <1>1 DEF Instr, RegV
<1>2. \E op, d, x, y : \/ J = Instr(op, <<RegV(d)>>)
                       \/ J = Instr(op, <<RegV(d), x>>)
                       \/ J = Instr(op, <<RegV(d), x, y>>)
  BY DEF Coded, SelectAddress
<1>. QED
  BY <1>1, <1>2

\* What an instruction reads or changes analyze() touches at it.
LEMMA CodedTouches ==
  ASSUME NEW p \in Nat, p < Len(blk.instrs), Coded(blk.instrs[p + 1])
  PROVE  /\ Reads(blk.instrs[p + 1]) \subseteq Live!TouchesAt(p)
         /\ Sets(blk.instrs[p + 1]) \subseteq Live!TouchesAt(p)
         /\ Sets(blk.instrs[p + 1]) \subseteq Reads(blk.instrs[p + 1]) \cup Writes(blk.instrs[p + 1])
         /\ Writes(blk.instrs[p + 1]) \subseteq Sets(blk.instrs[p + 1])
<1>. DEFINE J == blk.instrs[p + 1]
            D == DOMAIN J.ops
<1>1. Live!TouchesAt(p) = UNION {Live!TouchedBy(J.ops[j]) : j \in D}
  BY DEF Live!TouchesAt
<1>2. 1 \in D /\ J.ops[1].kind = "RegV"
  BY CodedFirst
<1>3. Live!TouchedBy(J.ops[1]) = {J.ops[1].id}
  BY <1>2 DEF Live!TouchedBy
<1>. HIDE DEF J
<1>4. Reads(J) = UNION {Live!TouchedBy(J.ops[j]) : j \in D \ IF Writes(J) = {} THEN {} ELSE {1}}
  BY DEF Reads
<1>5. Reads(J) \subseteq Live!TouchesAt(p)
  BY <1>1, <1>4
<1>6. Sets(J) \subseteq Live!TouchesAt(p)
  BY <1>1, <1>2, <1>3 DEF Sets
<1>7. Writes(J) \subseteq Sets(J)
  BY DEF Sets, Writes
<1>8. Sets(J) \subseteq Reads(J) \cup Writes(J)
  <2>1. CASE Writes(J) = {}
    <3>1. J.ops[1].id \in Reads(J)
      BY <1>2, <1>3, <1>4, <2>1
    <3>. QED
      BY <3>1 DEF Sets
  <2>2. CASE Writes(J) # {}
    BY <2>2 DEF Sets, Writes
  <2>. QED
    BY <2>1, <2>2
<1>. QED
  BY <1>5, <1>6, <1>7, <1>8 DEF J

\* The map of the finished analysis has every register that is touched, with
\* an interval that is not over before and, after position 0, has started.
LEMMA Spanned ==
  ASSUME LiveP!IInv, scan = "done", pos = Len(blk.instrs),
         NEW p \in 0 .. Len(blk.instrs), NEW v \in Live!TouchesAt(p)
  PROVE  /\ v \in DOMAIN live /\ p <= live[v].end
         /\ p # 0 => live[v].start # 0 /\ live[v].start <= p
<1>1. /\ LiveP!TypeOK /\ LiveP!ExactIntervals
      /\ LiveP!IsBlock(blk) /\ Len(blk.instrs) \in Nat
  BY DEF LiveP!IInv, LiveP!TypeOK, LiveP!IsBlock
<1>2. Live!TouchesAt(p) = LiveP!TouchesAt(p)
  BY DEF Live!TouchesAt, Live!TouchedBy, Live!TouchedByTerm,
         LiveP!TouchesAt, LiveP!TouchedBy, LiveP!TouchedByTerm
<1>3. LiveP!SeenAt(p) = LiveP!TouchesAt(p)
  BY <1>1 DEF LiveP!SeenAt
<1>4. p \in LiveP!Positions(v)
  BY <1>1, <1>2, <1>3 DEF LiveP!Positions
<1>5. LiveP!TouchesAt(p) \subseteq VReg
  <2>1. CASE p < Len(blk.instrs)
    <3>1. p + 1 \in DOMAIN blk.instrs
      BY <1>1, <2>1 DEF LiveP!IsBlock
    <3>2. \A j \in DOMAIN blk.instrs[p + 1].ops :
            LiveP!TouchedBy(blk.instrs[p + 1].ops[j]) \subseteq VReg
      BY <1>1, <3>1 DEF LiveP!IsBlock
    <3>3. LiveP!TouchesAt(p) = UNION {LiveP!TouchedBy(blk.instrs[p + 1].ops[j]) :
                                        j \in DOMAIN blk.instrs[p + 1].ops}
      BY <2>1 DEF LiveP!TouchesAt
    <3>. QED
      BY <3>2, <3>3
  <2>2. CASE ~ (p < Len(blk.instrs))
    BY <1>1, <2>2 DEF LiveP!TouchesAt, LiveP!IsBlock
  <2>. QED
    BY <2>1, <2>2
<1>6. v \in DOMAIN live
  BY <1>1, <1>2, <1>4, <1>5 DEF LiveP!ExactIntervals
<1>. QED
  BY <1>1, <1>4, <1>6 DEF LiveP!ExactIntervals

\* The registers are given to the intervals of the block, and no value whose
\* start was lost is clobbered.
Allotted ==
  /\ LiveP!IInv /\ scan = "done" /\ pos = Len(blk.instrs)
  /\ AllocP!ScanHolds /\ DOMAIN asg = DOMAIN live
  /\ Unclobbered

\* No instruction changes the register of a value that is still to be read.
LEMMA Undisturbed ==
  ASSUME PhysPool \in Seq(Nat), IsInjective(PhysPool), Allotted,
         NEW p \in 0 .. Len(blk.instrs), NEW d \in Live!TouchesAt(p),
         NEW e \in 0 .. Len(blk.instrs), e < p,
         NEW f \in 0 .. Len(blk.instrs), p < f,
         NEW w \in Live!TouchesAt(e), w \in Live!TouchesAt(f), w # d
  PROVE  asg[w] # asg[d]
<1>1. /\ LiveP!IInv /\ scan = "done" /\ pos = Len(blk.instrs)
      /\ AllocP!ScanHolds /\ DOMAIN asg = DOMAIN live
  BY DEF Allotted
<1>2. /\ d \in DOMAIN live /\ p <= live[d].end /\ live[d].start # 0 /\ live[d].start <= p
  BY <1>1, Spanned
<1>3. /\ w \in DOMAIN live /\ f <= live[w].end /\ live[w].start # 0
  BY <1>1, Spanned
<1>4. /\ live[d].start \in 0 .. Len(blk.instrs) /\ live[d].end \in 0 .. Len(blk.instrs)
      /\ live[w].start \in 0 .. Len(blk.instrs) /\ live[w].end \in 0 .. Len(blk.instrs)
      /\ Len(blk.instrs) \in Nat
  BY <1>1, <1>2, <1>3, Analyzed
<1>5. SUFFICES ASSUME asg[w] = asg[d]
               PROVE  FALSE
  OBVIOUS
<1>6. live[w].end <= live[d].start \/ live[d].end <= live[w].start
  <2>1. PhysPool \in Seq(Nat) /\ AllocP!IsInjective(PhysPool) /\ Position \subseteq Nat
    BY PositionAssumption DEF IsInjective, AllocP!IsInjective
  <2>2. AllocP!ScanHolds /\ w \in DOMAIN asg /\ d \in DOMAIN asg
    BY <1>1, <1>2, <1>3
  <2>. QED
    BY <1>5, <2>1, <2>2, AllocP!SharersOrdered
<1>7. p <= live[w].start
  BY <1>2, <1>3, <1>4, <1>6
<1>8. e = 0
  <2>1. e # 0 => live[w].start <= e
    BY <1>1, Spanned
  <2>. QED
    BY <1>4, <1>7, <2>1
<1>9. StartLost(w)
  BY <1>3, <1>4, <1>8 DEF StartLost
<1>10. ~ Clobbered(w)
  BY <1>1, <1>3, <1>9 DEF Allotted, Unclobbered
<1>11. d \in DOMAIN asg \ {w}
  BY <1>1, <1>2
<1>12. ~ (live[d].start <= live[w].start /\ live[d].start < live[w].end)
  BY <1>5, <1>10, <1>11 DEF Clobbered
<1>. QED
  BY <1>2, <1>3, <1>4, <1>7, <1>12

\* After p instructions: what r, with the registers of asg, and s, with one for
\* each of n virtual registers, hold of the values still to be read is equal.
Agree(p, n, r, s) ==
  /\ DOMAIN r = 0 .. 31 /\ DOMAIN s = 0 .. 31 + n /\ r[21] = s[21]
  /\ \A v \in Written(blk.instrs, p) : \A f \in p .. Len(blk.instrs) :
       v \in Live!TouchesAt(f) => r[asg[v]] = s[Own(n)[v]]

\* And two hosts that run with them have done the same.
Alike(p, n, h, g) ==
  \E r, s, c, x, m :
    h = Host(asg, r, c, x, m) /\ g = Host(Own(n), s, c, x, m) /\ Agree(p, n, r, s)

\* The block takes virtual registers up to n, reads what it has written and is
\* made by select(); the registers it is given are not the memory base.
Placed(n) ==
  /\ n \in Nat
  /\ AllCoded(blk.instrs) /\ Flows(blk.instrs, {}) /\ Made(blk.instrs) \subseteq 1 .. n
  /\ Live!TouchedByTerm(blk.term) \subseteq Made(blk.instrs)
  /\ \A v \in DOMAIN asg : asg[v] \in 0 .. 31 /\ asg[v] # 21

LEMMA AlikeMore ==
  ASSUME PhysPool \in Seq(Nat), IsInjective(PhysPool), Allotted, NEW n, Placed(n),
         NEW p \in Nat, p < Len(blk.instrs), NEW h, NEW g, Alike(p, n, h, g)
  PROVE  Alike(p + 1, n, Execute(h, blk.instrs[p + 1]), Execute(g, blk.instrs[p + 1]))
<1>. DEFINE q == blk.instrs
            L == Len(q)
            J == q[p + 1]
            own == Own(n)
<1>1. /\ q \in Seq(Live!AnyInstr) /\ L \in Nat /\ DOMAIN q = 1 .. L /\ n \in Nat
      /\ p + 1 \in 1 .. L
  BY DEF Placed, Flows
<1>2. Coded(J)
  BY <1>1 DEF Placed, AllCoded
<1>3. Reads(J) \subseteq Written(q, p) /\ Writes(J) \cap Written(q, p) = {}
  <2>1. p + 1 - 1 = p
    OBVIOUS
  <2>2. /\ Reads(J) \subseteq {} \cup Written(q, p + 1 - 1)
        /\ Writes(J) \cap ({} \cup Written(q, p + 1 - 1)) = {}
    BY <1>1 DEF Placed, Flows
  <2>. QED
    BY <2>1, <2>2
<1>4. /\ Reads(J) \subseteq Live!TouchesAt(p) /\ Sets(J) \subseteq Live!TouchesAt(p)
      /\ Sets(J) \subseteq Reads(J) \cup Writes(J) /\ Writes(J) \subseteq Sets(J)
  BY <1>1, <1>2, CodedTouches
<1>5. Written(q, p + 1) = Written(q, p) \cup Writes(J)
  <2>1. 1 .. p + 1 = (1 .. p) \cup {p + 1}
    OBVIOUS
  <2>. QED
    BY <2>1 DEF Written
<1>6. Written(q, p) \cup Writes(J) \subseteq 1 .. n
  <2>1. \A i \in 1 .. p : i \in 1 .. L
    BY <1>1
  <2>2. Written(q, p) \cup Writes(J) \subseteq Made(q)
    BY <1>1, <2>1 DEF Made, Written
  <2>. QED
    BY <2>2 DEF Placed
<1>7. \A v \in Written(q, p) : \E e \in 0 .. L : e < p /\ v \in Live!TouchesAt(e)
  <2> SUFFICES ASSUME NEW v \in Written(q, p)
               PROVE  \E e \in 0 .. L : e < p /\ v \in Live!TouchesAt(e)
    OBVIOUS
  <2>1. PICK i \in 1 .. p : v \in Writes(q[i])
    BY DEF Written
  <2>2. i - 1 \in Nat /\ i - 1 < L /\ i - 1 + 1 = i /\ i \in 1 .. L /\ i - 1 \in 0 .. L /\ i - 1 < p
    BY <1>1, <2>1
  <2>3. Coded(q[i - 1 + 1])
    BY <2>2 DEF Placed, AllCoded
  <2>4. Writes(q[i - 1 + 1]) \subseteq Live!TouchesAt(i - 1)
    BY <2>2, <2>3, CodedTouches
  <2>. QED
    BY <2>1, <2>2, <2>4
<1>8. \A v \in Live!TouchesAt(p) : v \in DOMAIN asg /\ asg[v] \in 0 .. 31 /\ asg[v] # 21
  <2>1. p \in 0 .. L
    BY <1>1
  <2>. QED
    BY <2>1, Spanned DEF Allotted, Placed
<1>9. PICK r, s, c, x, m :
        h = Host(asg, r, c, x, m) /\ g = Host(own, s, c, x, m) /\ Agree(p, n, r, s)
  BY DEF Alike
<1>a. /\ DOMAIN r = 0 .. 31 /\ DOMAIN s = 0 .. 31 + n /\ r[21] = s[21]
      /\ \A v \in Written(q, p) : \A f \in p .. L :
           v \in Live!TouchesAt(f) => r[asg[v]] = s[own[v]]
  BY <1>9 DEF Agree
<1>10. \A v \in 1 .. n : own[v] = 31 + v
  BY DEF Own
<1>11. \A v \in Reads(J) : r[asg[v]] = s[own[v]]
  <2>1. p \in p .. L
    BY <1>1
  <2>. QED
    BY <1>3, <1>4, <1>a, <2>1
<1>. HIDE DEF own
<1>12. SameStep(J, asg, r, own, s, c, x, m)
  BY <1>2, <1>a, <1>11, CodedSame
<1>. HIDE DEF J, q
<1>13. PICK u, d, y, z :
         /\ Execute(Host(asg, r, c, x, m), J) = Host(asg, After(J, asg, r, u), d, y, z)
         /\ Execute(Host(own, s, c, x, m), J) = Host(own, After(J, own, s, u), d, y, z)
  BY <1>12 DEF SameStep
<1>. DEFINE r2 == After(J, asg, r, u)
            s2 == After(J, own, s, u)
<1>14. /\ DOMAIN r2 = 0 .. 31 /\ DOMAIN s2 = 0 .. 31 + n /\ r2[21] = s2[21]
       /\ \A v \in Written(q, p + 1) : \A f \in p + 1 .. L :
            v \in Live!TouchesAt(f) => r2[asg[v]] = s2[own[v]]
  <2>0. \A f \in p + 1 .. L : f \in p .. L /\ f \in 0 .. L /\ p < f
    BY <1>1
  <2>1. CASE Sets(J) = {}
    <3>1. r2 = r /\ s2 = s
      BY <2>1 DEF Sets, After
    <3>2. Written(q, p + 1) = Written(q, p)
      BY <1>4, <1>5, <2>1
    <3>. HIDE DEF r2, s2
    <3>. QED
      BY <1>a, <2>0, <3>1, <3>2
  <2>2. CASE Sets(J) # {}
    <3>. DEFINE w == J.ops[1].id
    <3>1. Sets(J) = {w} /\ r2 = Put(r, asg[w], u) /\ s2 = Put(s, own[w], u)
      BY <2>2 DEF Sets, After
    <3>. HIDE DEF w, r2, s2
    <3>2. w \in Live!TouchesAt(p) /\ w \in 1 .. n
      BY <1>3, <1>4, <1>6, <3>1
    <3>3. asg[w] \in 0 .. 31 /\ asg[w] # 21
      BY <1>8, <3>2
    <3>4. own[w] \in 0 .. 31 + n /\ own[w] # 21 /\ 21 \in 0 .. 31 /\ 21 \in 0 .. 31 + n
      BY <1>1, <1>10, <3>2
    <3>5. /\ DOMAIN r2 = 0 .. 31 /\ r2[asg[w]] = u
          /\ \A i \in 0 .. 31 : i # asg[w] => r2[i] = r[i]
      BY <1>a, <3>1, <3>3 DEF Put
    <3>6. /\ DOMAIN s2 = 0 .. 31 + n /\ s2[own[w]] = u
          /\ \A i \in 0 .. 31 + n : i # own[w] => s2[i] = s[i]
      BY <1>a, <3>1, <3>4 DEF Put
    <3>7. r2[21] = s2[21]
      BY <1>a, <3>3, <3>4, <3>5, <3>6
    <3>8. ASSUME NEW v \in Written(q, p + 1), NEW f \in p + 1 .. L, v \in Live!TouchesAt(f)
          PROVE  r2[asg[v]] = s2[own[v]]
      <4>1. CASE v = w
        BY <3>5, <3>6, <4>1
      <4>2. CASE v # w
        <5>1. v \in Written(q, p)
          BY <1>4, <1>5, <3>1, <4>2
        <5>2. r[asg[v]] = s[own[v]]
          BY <1>a, <2>0, <3>8, <5>1
        <5>3. v \in 1 .. n
          BY <1>6, <5>1
        <5>4. own[v] # own[w] /\ own[v] \in 0 .. 31 + n
          BY <1>1, <1>10, <3>2, <4>2, <5>3
        <5>5. PICK e \in 0 .. L : e < p /\ v \in Live!TouchesAt(e)
          BY <1>7, <5>1
        <5>6. asg[v] # asg[w]
          <6>1. p \in 0 .. L /\ f \in 0 .. L /\ p < f
            BY <1>1, <2>0, <3>8
          <6>. QED
            BY <3>2, <3>8, <4>2, <5>5, <6>1, Undisturbed DEF q
        <5>7. asg[v] \in 0 .. 31
          <6>1. f \in 0 .. L
            BY <2>0, <3>8
          <6>2. v \in DOMAIN asg
            BY <3>8, <6>1, Spanned DEF q, Allotted
          <6>. QED
            BY <6>2 DEF Placed
        <5>. QED
          BY <3>5, <3>6, <5>2, <5>4, <5>6, <5>7
      <4>. QED
        BY <4>1, <4>2
    <3>. QED
      BY <3>5, <3>6, <3>7, <3>8
  <2>. QED
    BY <2>1, <2>2
<1>15. Agree(p + 1, n, r2, s2)
  BY <1>14 DEF Agree, own, q
<1>16. /\ Execute(h, J) = Host(asg, r2, d, y, z)
       /\ Execute(g, J) = Host(own, s2, d, y, z)
  BY <1>9, <1>13 DEF r2, s2
<1>. HIDE DEF r2, s2
<1>17. Alike(p + 1, n, Execute(h, J), Execute(g, J))
  BY <1>15, <1>16 DEF Alike, own
<1>. QED
  BY <1>17 DEF J, q

\* Hosts that begin alike are alike after the block.
LEMMA AlikeAll ==
  ASSUME PhysPool \in Seq(Nat), IsInjective(PhysPool), Allotted, NEW n, Placed(n),
         NEW h, NEW g, Alike(0, n, h, g)
  PROVE  Alike(Len(blk.instrs), n, HostFold!Fold(h, blk.instrs), HostFold!Fold(g, blk.instrs))
<1>. DEFINE q == blk.instrs
            L == Len(q)
<1>1. q \in Seq(Live!AnyInstr) /\ L \in Nat
  <2>1. q \in Seq(Live!AnyInstr)
    BY DEF Placed, Flows
  <2>. HIDE DEF q
  <2>. QED
    BY <2>1
<1>2. PICK l : HostFold!IsRun(l, h, q) /\ HostFold!Fold(h, q) = l[L]
  BY <1>1, HostFold!FoldRun
<1>3. PICK m : HostFold!IsRun(m, g, q) /\ HostFold!Fold(g, q) = m[L]
  BY <1>1, HostFold!FoldRun
<1>. DEFINE T == {p \in Nat : p <= L => Alike(p, n, l[p], m[p])}
<1>4. 0 \in T
  BY <1>2, <1>3 DEF HostFold!IsRun
<1>5. ASSUME NEW p \in Nat, p \in T
      PROVE  p + 1 \in T
  <2>1. SUFFICES ASSUME p + 1 <= L PROVE Alike(p + 1, n, l[p + 1], m[p + 1])
    OBVIOUS
  <2>2. p + 1 \in 1 .. L /\ (p + 1) - 1 = p /\ p < L
    BY <1>1, <2>1
  <2>3. Alike(p, n, l[p], m[p])
    BY <1>1, <1>5, <2>2
  <2>. HIDE DEF L
  <2>4. l[p + 1] = Execute(l[p], q[p + 1]) /\ m[p + 1] = Execute(m[p], q[p + 1])
    BY <1>2, <1>3, <2>2 DEF HostFold!IsRun, L
  <2>5. Alike(p + 1, n, Execute(l[p], q[p + 1]), Execute(m[p], q[p + 1]))
    BY <2>2, <2>3, AlikeMore DEF L
  <2>. QED
    BY <2>4, <2>5
<1>6. Nat \subseteq T
  <2>. HIDE DEF T
  <2>. QED
    BY <1>4, <1>5, NatSetInduction
<1>7. Alike(L, n, l[L], m[L])
  BY <1>1, <1>6
<1>. QED
  BY <1>2, <1>3, <1>7

\* A block with the registers it was given ends as with a register for each
\* virtual one.
LEMMA AllottedRun ==
  ASSUME PhysPool \in Seq(Nat), IsInjective(PhysPool), Allotted, NEW n, Placed(n), NEW g
  PROVE  RunBlock(blk, asg, [r \in Registers |-> Junk], g)
           = RunBlock(blk, Own(n), [r \in 0 .. 31 + n |-> Junk], g)
<1>. DEFINE q == blk.instrs
            L == Len(q)
            own == Own(n)
            jr == [r \in Registers |-> Junk]
            js == [r \in 0 .. 31 + n |-> Junk]
            h0 == EnterBlock(asg, jr, g)
            g0 == EnterBlock(own, js, g)
            h == FoldLeft(Execute, h0, q)
            f == FoldLeft(Execute, g0, q)
            branch == {"CBr", "BrIndirect"}
            u == IF blk.term.kind \in branch THEN h.r[asg[blk.term.id]] ELSE 0
            v == IF blk.term.kind \in branch THEN f.r[own[blk.term.id]] ELSE 0
<1>1. n \in Nat /\ q \in Seq(Live!AnyInstr) /\ L \in Nat
  <2>1. n \in Nat /\ q \in Seq(Live!AnyInstr)
    BY DEF Placed, Flows
  <2>. HIDE DEF q
  <2>. QED
    BY <2>1
<1>2. Alike(0, n, h0, g0)
  <2>. DEFINE r == Put(jr, 21, MemBase)
              s == Put(js, 21, MemBase)
              c == <<0, 0>>
  <2>1. h0 = Host(asg, r, c, g.x, g.mem) /\ g0 = Host(own, s, c, g.x, g.mem)
    BY DEF EnterBlock, Host, Put
  <2>2. DOMAIN r = 0 .. 31 /\ r[21] = MemBase
    BY DEF Put, Registers
  <2>3. DOMAIN s = 0 .. 31 + n /\ s[21] = MemBase
    <3>1. 21 \in 0 .. 31 + n
      BY <1>1
    <3>. QED
      BY <3>1 DEF Put
  <2>. HIDE DEF r, s, c, own, h0, g0
  <2>4. Written(q, 0) = {}
    <3>1. 1 .. 0 = {}
      OBVIOUS
    <3>. QED
      BY <3>1 DEF Written
  <2>5. Agree(0, n, r, s)
    BY <2>2, <2>3, <2>4 DEF Agree
  <2>. QED
    BY <2>1, <2>5 DEF Alike, own
<1>. HIDE DEF h0, g0
<1>3. Alike(L, n, h, f)
  BY <1>2, AlikeAll, HostLoop
<1>. HIDE DEF h, f
<1>4. PICK r, s, c, x, m :
        h = Host(asg, r, c, x, m) /\ f = Host(own, s, c, x, m) /\ Agree(L, n, r, s)
  BY <1>3 DEF Alike
<1>5. h.r = r /\ h.x = x /\ h.mem = m /\ f.r = s /\ f.x = x /\ f.mem = m
  BY <1>4 DEF Host
<1>6. u = v
  <2>1. CASE blk.term.kind \in branch
    <3>. DEFINE w == blk.term.id
    <3>1. w \in Live!TouchedByTerm(blk.term)
      BY <2>1 DEF Live!TouchedByTerm
    <3>2. w \in Live!TouchesAt(L)
      BY <1>1, <3>1 DEF Live!TouchesAt
    <3>3. w \in Written(q, L)
      BY <3>1 DEF Placed, Made
    <3>4. L \in L .. L
      BY <1>1
    <3>. HIDE DEF w, own
    <3>5. r[asg[w]] = s[own[w]]
      BY <1>4, <3>2, <3>3, <3>4 DEF Agree, own
    <3>. QED
      BY <1>5, <2>1, <3>5 DEF w
  <2>2. CASE blk.term.kind \notin branch
    BY <2>2
  <2>. QED
    BY <2>1, <2>2
<1>7. RunBlock(blk, asg, jr, g) = [x |-> h.x, mem |-> h.mem, exit |-> ExitOf(blk.term, u)]
  BY DEF RunBlock, h0, h
<1>8. RunBlock(blk, own, js, g) = [x |-> f.x, mem |-> f.mem, exit |-> ExitOf(blk.term, v)]
  BY DEF RunBlock, g0, f
<1>. HIDE DEF u, v, own, jr, js
<1>9. RunBlock(blk, asg, jr, g) = RunBlock(blk, own, js, g)
  BY <1>5, <1>6, <1>7, <1>8
<1>. QED
  BY <1>9 DEF own, jr, js

LEMMA ScanBegins ==
  /\ PhysPool \in Seq(Nat) /\ IsInjective(PhysPool)
  /\ IsLivenessMap(live) /\ todo = DOMAIN live /\ IdleAllocation
  => AllocP!ScanHolds
<1>1. SUFFICES ASSUME PhysPool \in Seq(Nat), IsInjective(PhysPool),
                      IsLivenessMap(live), todo = DOMAIN live, IdleAllocation
               PROVE  AllocP!ScanHolds
  OBVIOUS
<1>2. PhysPool \in Seq(Nat) /\ AllocP!IsInjective(PhysPool) /\ Position \subseteq Nat
  BY <1>1, PositionAssumption DEF IsInjective, AllocP!IsInjective
<1>. QED
  BY <1>1, <1>2, AllocationBegins, AllocP!ScanStarts

\* The allocation goes on as its abstract scan does, and the block is emitted
\* when it has returned.
Scanned ==
  /\ stage \in {"allocating", "emitted"} => AllocP!ScanHolds
  /\ stage = "emitted" => loop = "done"

LEMMA ScannedInit == Init => Scanned
  BY DEF Init, Scanned

LEMMA ScannedStep ==
  ASSUME Rooms, Piped, Piped', Scanned, [Next]_vars
  PROVE  Scanned'
<1>1. PhysPool \in Seq(Nat) /\ AllocP!IsInjective(PhysPool) /\ Position \subseteq Nat
  BY PositionAssumption DEF Rooms, IsInjective, AllocP!IsInjective
<1>2. ASSUME stage \in {"allocating", "emitted"}, Alloc!Next \/ UNCHANGED <<live, allocVars>>
      PROVE  AllocP!ScanHolds'
  <2>1. AllocP!Next \/ UNCHANGED AllocP!vars
    BY <1>2, SameAllocation
  <2>2. AllocP!Inv /\ AllocP!ScanHolds
    BY <1>2 DEF Piped, Scanned
  <2>3. AllocP!Inv /\ AllocP!ScanHolds /\ [AllocP!Next]_(AllocP!vars) => AllocP!ScanHolds'
    BY <1>1, AllocP!ScanGoesOn
  <2>. QED
    BY <2>1, <2>2, <2>3
<1>3. CASE StartAllocate
  <2>1. /\ stage = "analyzed" /\ stage' = "allocating" /\ todo' = DOMAIN live
        /\ UNCHANGED <<live, item, pool, active, kept, freed, asg, loop>>
    BY <1>3 DEF StartAllocate, liveVars
  <2>2. IdleAllocation'
    BY <2>1 DEF Piped, IdleAllocation
  <2>3. AllocP!Inv'
    BY <2>1 DEF Piped
  <2>4. IsLivenessMap(live)' /\ (todo = DOMAIN live)'
    BY <2>1, <2>3 DEF AllocP!Inv, AllocP!TypeOK, AllocP!IsLivenessMap, AllocP!LiveRange,
                      IsLivenessMap, LiveRange
  <2>5. (/\ PhysPool \in Seq(Nat) /\ IsInjective(PhysPool)
         /\ IsLivenessMap(live) /\ todo = DOMAIN live /\ IdleAllocation
         => AllocP!ScanHolds)'
    BY ScanBegins, PTL
  <2>6. AllocP!ScanHolds'
    BY <2>2, <2>4, <2>5 DEF Rooms
  <2>. QED
    BY <2>1, <2>6 DEF Scanned
<1>4. CASE AllocateStep
  <2>1. stage = "allocating" /\ stage' = "allocating" /\ Alloc!Next
    BY <1>4 DEF AllocateStep
  <2>. QED
    BY <1>2, <2>1 DEF Scanned
<1>5. CASE Emit
  <2>1. stage = "allocating" /\ loop' = "done" /\ UNCHANGED <<live, allocVars>>
    BY <1>5 DEF Emit, liveVars, allocVars
  <2>. QED
    BY <1>2, <2>1 DEF Scanned
<1>6. CASE LiftBlock \/ SelectBlock \/ AnalyzeStep
  BY <1>6 DEF LiftBlock, SelectBlock, AnalyzeStep, Scanned
<1>7. CASE UNCHANGED vars
  <2>1. stage' = stage /\ loop' = loop /\ UNCHANGED <<live, allocVars>>
    BY <1>7 DEF vars, liveVars, allocVars
  <2>. QED
    BY <1>2, <2>1 DEF Scanned
<1>. QED
  BY <1>3, <1>4, <1>5, <1>6, <1>7 DEF Next

LEMMA ScannedAlways ==
  ASSUME NEW CONSTANT R, NEW CONSTANT C, Inputs(R, C), Rooms
  PROVE  Spec => [](Staged /\ Piped /\ Scanned)
<1>1. Init => Scanned
  BY ScannedInit
<1>2. Piped /\ Piped' /\ Scanned /\ [Next]_vars => Scanned'
  BY ScannedStep
<1>. QED
  BY <1>1, <1>2, PipedAlways, PTL DEF Spec

\* Registers that may be given: none is the memory base.
HostPool == \A j \in DOMAIN PhysPool : PhysPool[j] \in Registers /\ PhysPool[j] # 21

\* An emitted block, if no value whose start was lost is clobbered.
LEMMA EmittedRun ==
  ASSUME NEW R, NEW C, Inputs(R, C), Rooms, HostPool, Staged, Piped, Scanned,
         stage = "emitted", Unclobbered, NEW g
  PROVE  Emitted(g) = Unlimited(g)
<1>. DEFINE n == 2 * Len(ir.insts) + 1
<1>1. /\ LiveP!IInv /\ AllocP!Inv /\ AllocP!ScanHolds /\ scan = "done"
      /\ pos = Len(blk.instrs) /\ todo = {} /\ loop = "done"
  BY DEF Piped, Scanned
<1>2. DOMAIN asg = DOMAIN live /\ \A v \in DOMAIN asg : asg[v] \in AllocP!Range(PhysPool)
  BY <1>1 DEF AllocP!Inv, AllocP!TypeOK
<1>3. Allotted
  BY <1>1, <1>2 DEF Allotted
<1>4. /\ n \in Nat
      /\ AllCoded(blk.instrs) /\ Flows(blk.instrs, {}) /\ Made(blk.instrs) \subseteq 1 .. n
      /\ Live!TouchedByTerm(blk.term) \subseteq Made(blk.instrs)
  <2>1. Liftable(bb, R, C) /\ R \subseteq Nat /\ ir = Lift(bb) /\ blk = Select(Lift(bb))
    BY DEF Inputs, Staged
  <2>2. /\ Len(ir.insts) \in Nat
        /\ AllCoded(blk.instrs) /\ Flows(blk.instrs, {}) /\ Made(blk.instrs) \subseteq 1 .. n
        /\ Live!TouchedByTerm(blk.term) \subseteq Made(blk.instrs)
    BY <2>1, SelectedMade
  <2>. QED
    BY <2>2
<1>5. \A v \in DOMAIN asg : asg[v] \in 0 .. 31 /\ asg[v] # 21
  BY <1>2 DEF AllocP!Range, HostPool, Registers
<1>. HIDE DEF n
<1>6. Placed(n)
  BY <1>4, <1>5 DEF Placed
<1>7. RunBlock(blk, asg, [r \in Registers |-> Junk], g)
        = RunBlock(blk, Own(n), [r \in 0 .. 31 + n |-> Junk], g)
  BY <1>3, <1>6, AllottedRun DEF Rooms
<1>8. Unlimited(g) = RunBlock(blk, Own(n), [r \in 0 .. 31 + n |-> Junk], g)
  BY DEF Unlimited, Own, n
<1>. QED
  BY <1>7, <1>8 DEF Emitted

(***************************************************************************)
(* A block in the registers allocate() gave it does what it did with one   *)
(* register for each virtual one, unless a value that is touched at        *)
(* position 0, whose start analyze() loses, shares its register meanwhile  *)
(* (Liveness.cpp, RegAlloc.cpp).  The pool has no register twice and not   *)
(* the memory base.                                                        *)
(***************************************************************************)
THEOREM AllocatedMeaning ==
  ASSUME NEW CONSTANT R, NEW CONSTANT C, Inputs(R, C), Rooms, HostPool
  PROVE  Spec => []OnlyLostStartsClobber
<1>1. Staged /\ Piped /\ Scanned => OnlyLostStartsClobber
  BY EmittedRun DEF OnlyLostStartsClobber
<1>. QED
  BY <1>1, ScannedAlways, PTL

(***************************************************************************)
(* The translation of a block does what the guest's instructions do, to    *)
(* registers, memory and control, wherever no lost start clobbers one of   *)
(* its values (riscy.cpp, the loop of main).                               *)
(***************************************************************************)
THEOREM BlocksTranslated ==
  ASSUME NEW CONSTANT R, NEW CONSTANT C, Inputs(R, C), Rooms, HostPool
  PROVE  Spec => []TranslatesTruly
<1>1. Staged /\ Piped /\ Scanned => TranslatesTruly
  <2> SUFFICES ASSUME Staged, Piped, Scanned, stage = "emitted", Unclobbered,
                      NEW g \in GuestStates
               PROVE  SameState(Emitted(g), Guest(g)) /\ EndsAsGuest(Emitted(g).exit, g)
    BY DEF TranslatesTruly
  <2>1. Emitted(g) = Unlimited(g)
    BY EmittedRun
  <2>2. Unlimited(g) = RunIR(ir, InitialState(g))
    BY UnlimitedRun
  <2>. QED
    BY <2>1, <2>2, LiftedRun
<1>. QED
  BY <1>1, ScannedAlways, PTL
=============================================================================
