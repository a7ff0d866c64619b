----------------------------- MODULE Instructions -----------------------------
(***************************************************************************)
(* The RISC-V instructions codegen.c prints.  An instruction is a record:  *)
(* its operation, then registers, immediates and targets.  The lui and     *)
(* addi that load the address of a symbol are one instruction.             *)
(***************************************************************************)
EXTENDS Integers, Sequences

Registers ==
  {"zero", "ra", "sp", "fp", "t0", "t1", "t2", "t3",
   "a0", "a1", "a2", "a3", "a4", "a5", "a6", "a7"}

AluFunctions == {"add", "sub", "mul", "div", "slt", "seq", "sne", "or", "and"}

li(rd, imm)              == [op |-> "li", rd |-> rd, imm |-> imm]
mv(rd, rs)               == [op |-> "addi", rd |-> rd, rs |-> rs, imm |-> 0]
addi(rd, rs, imm)        == [op |-> "addi", rd |-> rd, rs |-> rs, imm |-> imm]
alu(fn, rd, rs1, rs2)    ==
  [op |-> "alu", fn |-> fn, rd |-> rd, rs1 |-> rs1, rs2 |-> rs2]
load(size, rd, off, rs)  ==
  [op |-> "load", size |-> size, rd |-> rd, off |-> off, rs |-> rs]
store(size, rd, off, rs) ==
  [op |-> "store", size |-> size, rd |-> rd, off |-> off, rs |-> rs]
la(rd, symbol)           == [op |-> "la", rd |-> rd, symbol |-> symbol]
beqz(rs, target)         ==
  [op |-> "beq", rs1 |-> rs, rs2 |-> "zero", target |-> target]
beq(rs1, rs2, target)    ==
  [op |-> "beq", rs1 |-> rs1, rs2 |-> rs2, target |-> target]
j(target)                == [op |-> "j", target |-> target]
label(name)              == [op |-> "label", name |-> name]
call(symbol, count)      == [op |-> "call", symbol |-> symbol, count |-> count]
ret                      == [op |-> "ret"]
error                    == [op |-> "error"]

(* What comes out when the compiler reads storage nobody has written:      *)
(* anything, or nothing more because it is killed.                         *)
unknown                  == [op |-> "unknown"]

(* seqz, snez and xori with 1.                                             *)
seqz(rd, rs) == alu("seq", rd, rs, "zero")
snez(rd, rs) == alu("sne", rd, rs, "zero")

a(i) == <<"a0", "a1", "a2", "a3", "a4", "a5", "a6", "a7", "a8">>[i + 1]
=============================================================================
