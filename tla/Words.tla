-------------------------------- MODULE Words --------------------------------
(***************************************************************************)
(* Machine words and the operations on them that the guest instructions,   *)
(* the IR and the host instructions share.  The code has 64-bit words;     *)
(* here a word has Width bits, a half (i32, a w register) Width \div 2 and *)
(* a chunk (the 16 bits of a movz or movk) Width \div 4.                   *)
(*                                                                         *)
(* Memory is addressed in units of one half: an i32 access takes one cell, *)
(* an i64 access two.                                                      *)
(***************************************************************************)
EXTENDS Integers, FiniteSetsExt

CONSTANT Width

ASSUME WidthAssumption == Width \in Nat \ {0} /\ Width % 4 = 0

HalfWidth == Width \div 2

ChunkWidth == Width \div 4

Word == 0 .. 2 ^ Width - 1

Half == 0 .. 2 ^ HalfWidth - 1

Wrap(n) == n % (2 ^ Width)

Low(n) == n % (2 ^ HalfWidth)

\* The value of the low w bits of n as a two's complement number.
Signed(n, w) == LET u == n % (2 ^ w) IN IF u >= 2 ^ (w - 1) THEN u - 2 ^ w ELSE u

SextHalf(n) == Wrap(Signed(n, HalfWidth))

BitsOf(n) == {i \in 0 .. Width - 1 : (n \div 2 ^ i) % 2 = 1}

WordOf(bits) == MapThenSumSet(LAMBDA i : 2 ^ i, bits)

\* BinOpKind of src/IR/IR.h; shift amounts count modulo the width.
WordOp(kind, a, b) ==
  CASE kind = "Add"  -> Wrap(a + b)
    [] kind = "Sub"  -> Wrap(a - b)
    [] kind = "And"  -> WordOf(BitsOf(a) \cap BitsOf(b))
    [] kind = "Or"   -> WordOf(BitsOf(a) \cup BitsOf(b))
    [] kind = "Xor"  -> WordOf((BitsOf(a) \cup BitsOf(b)) \ (BitsOf(a) \cap BitsOf(b)))
    [] kind = "Shl"  -> Wrap(a * 2 ^ (b % Width))
    [] kind = "LShr" -> a \div 2 ^ (b % Width)
    [] kind = "AShr" -> Wrap(Signed(a, Width) \div 2 ^ (b % Width))

\* ICmpCond of src/IR/IR.h.
Holds(cond, a, b) ==
  LET sa == Signed(a, Width)
      sb == Signed(b, Width)
  IN CASE cond = "EQ"  -> a = b
       [] cond = "NE"  -> a # b
       [] cond = "ULT" -> a < b
       [] cond = "ULE" -> a <= b
       [] cond = "UGT" -> a > b
       [] cond = "UGE" -> a >= b
       [] cond = "SLT" -> sa < sb
       [] cond = "SLE" -> sa <= sb
       [] cond = "SGT" -> sa > sb
       [] cond = "SGE" -> sa >= sb

Load(mem, ty, a) ==
  IF ty = "I32" THEN mem[Wrap(a)]
                ELSE mem[Wrap(a)] + 2 ^ HalfWidth * mem[Wrap(a + 1)]

Store(mem, ty, a, v) ==
  IF ty = "I32" THEN [mem EXCEPT ![Wrap(a)] = Low(v)]
  ELSE [mem EXCEPT ![Wrap(a)] = Low(v), ![Wrap(a + 1)] = v \div 2 ^ HalfWidth]
=============================================================================
