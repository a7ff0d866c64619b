-------------------------------- MODULE Hart --------------------------------
(***************************************************************************)
(* A RISC-V hart with the registers and instructions the code of codegen.c *)
(* uses, and the stack discipline that code keeps.                         *)
(*                                                                         *)
(* A register holds a number; Junk is a value nobody may rely on.  mem has *)
(* a cell, with its size, for every address that was stored to.  A step    *)
(* executes one instruction.  A call of a function that is not in the      *)
(* program is an external function: it returns any of Values, and leaves   *)
(* in the caller-saved registers and below sp what it likes.               *)
(***************************************************************************)
EXTENDS StackDiscipline, Quotients, SequencesExt

CONSTANTS
  Executables,  \* what the linker makes of each program, a sequence
  Values,       \* what external functions return
  MaxTape,      \* bound on the number of external calls
  Junk          \* an unspecified value

ASSUME HartAssumption ==
  /\ Values \subseteq Int
  /\ MaxTape \in Nat
  /\ Junk \notin Int

VARIABLES
  program,      \* the program that runs
  pc,           \* the position in its code; Exited or Cut when it has stopped
  regs,
  mem,
  tape,         \* what the external calls have returned
  trace,        \* the external calls with their arguments
  calls         \* auxiliary: sp, fp, ra and the function at each entry

vars == <<program, pc, regs, mem, tape, trace, calls>>

Exited == 0
Cut    == -1

-----------------------------------------------------------------------------
StackTop == 4096

(* The fp of whoever called main.                                          *)
CallerFrame == StackTop + 64

-----------------------------------------------------------------------------
(* Memory                                                                  *)

Truncated(v, size) ==
  IF size = 1 /\ v # Junk THEN ((v + 128) % 256) - 128 ELSE v

IsZeroByte(b) == b \in DOMAIN mem /\ mem[b] = [size |-> 1, val |-> 0]

(* The low bytes of a cell can be loaded, no more than were stored, and    *)
(* several bytes where all are zero.                                       *)
Loaded(address, size) ==
  CASE address \in DOMAIN mem /\ size <= mem[address].size ->
         Truncated(mem[address].val, size)
    [] /\ ~ (address \in DOMAIN mem /\ size <= mem[address].size)
       /\ \A k \in 0 .. size - 1 : IsZeroByte(address + k) -> 0
    [] OTHER -> Junk

(* A store replaces every cell it overlaps.                                *)
Written(address, size, v) ==
  LET kept == {b \in DOMAIN mem :
                 b + mem[b].size <= address \/ address + size <= b}
  IN  [b \in kept \cup {address} |->
         IF b = address THEN [size |-> size, val |-> v] ELSE mem[b]]

Computed(fn, x, y) ==
  IF Junk \in {x, y} THEN Junk
  ELSE CASE fn = "add" -> x + y
         [] fn = "sub" -> x - y
         [] fn = "mul" -> x * y
         [] fn = "div" -> IF y = 0 THEN -1 ELSE Quotient(x, y)
         [] fn = "slt" -> IF x < y THEN 1 ELSE 0
         [] fn = "seq" -> IF x = y THEN 1 ELSE 0
         [] fn = "sne" -> IF x # y THEN 1 ELSE 0
         [] fn = "or"  -> IF x = 0 THEN y ELSE IF y = 0 THEN x ELSE 1
         [] fn = "and" -> IF x = 0 \/ y = 0 THEN 0 ELSE 1

-----------------------------------------------------------------------------
(* Execution                                                               *)

Entry(exe, ident, r) ==
  [sp |-> r["sp"], fp |-> r["fp"], ra |-> r["ra"], frame |-> exe.frames[ident]]

(* The hart starts at main, whose caller is the system.                    *)
Boots(exe) ==
  /\ exe.accepted
  /\ pc = exe.at[<<"fn", "main">>]
  /\ regs = [r \in Registers |->
               CASE r = "zero" -> 0
                 [] r = "sp" -> StackTop
                 [] r = "fp" -> CallerFrame
                 [] r = "ra" -> Exited
                 [] OTHER -> Junk]
  /\ mem = exe.image
  /\ tape = <<>> /\ trace = <<>>
  /\ calls = <<Entry(exe, "main", regs)>>

Init ==
  /\ program \in 1 .. Len(Executables)
  /\ Boots(Executables[program])

Running == pc > 0

(* The instruction at pc, which is executed if it is one of ops.           *)
Instr(exe)          == exe.text[pc]
Executing(exe, ops) == Running /\ Instr(exe).op \in ops

(* What an instruction that writes a register computes.                    *)
ResultOf(exe, at) ==
  CASE at.op = "li"   -> at.imm
    [] at.op = "la"   -> exe.address[at.symbol]
    [] at.op = "addi" -> Computed("add", regs[at.rs], at.imm)
    [] at.op = "alu"  -> Computed(at.fn, regs[at.rs1], regs[at.rs2])
    [] at.op = "load" -> Loaded(regs[at.rs] + at.off, at.size)

Compute(exe) ==
  /\ Executing(exe, {"li", "la", "addi", "alu", "load"})
  /\ regs' = [regs EXCEPT ![Instr(exe).rd] = ResultOf(exe, Instr(exe))]
  /\ pc' = pc + 1
  /\ UNCHANGED <<program, mem, tape, trace, calls>>

Store(exe) ==
  /\ Executing(exe, {"store"})
  /\ LET at == Instr(exe)
     IN  mem' = Written(regs[at.rs] + at.off, at.size, regs[at.rd])
  /\ pc' = pc + 1
  /\ UNCHANGED <<program, regs, tape, trace, calls>>

Taken(at) == at.op = "j" \/ (at.op = "beq" /\ regs[at.rs1] = regs[at.rs2])

Branch(exe) ==
  /\ Executing(exe, {"beq", "j", "label"})
  /\ pc' = IF Taken(Instr(exe)) THEN exe.at[Instr(exe).target] ELSE pc + 1
  /\ UNCHANGED <<program, regs, mem, tape, trace, calls>>

IsExternal(exe) == Instr(exe).symbol \notin DOMAIN exe.frames

CallInternal(exe) ==
  /\ Executing(exe, {"call"}) /\ ~ IsExternal(exe)
  /\ pc' = exe.at[<<"fn", Instr(exe).symbol>>]
  /\ regs' = [regs EXCEPT !["ra"] = pc + 1]
  /\ calls' = Append(calls, Entry(exe, Instr(exe).symbol, regs'))
  /\ UNCHANGED <<program, mem, tape, trace>>

(* What the external function sees of its arguments; vext(n, ap) reads n   *)
(* double words from ap.                                                   *)
Arguments(at) ==
  IF at.symbol = "vext"
  THEN [i \in 1 .. regs["a0"] |-> Loaded(regs["a1"] + 8 * (i - 1), 8)]
  ELSE [i \in 1 .. at.count |-> regs[a(i - 1)]]

CallExternal(exe) ==
  /\ Executing(exe, {"call"}) /\ IsExternal(exe)
  /\ Len(tape) < MaxTape
  /\ \E v \in Values :
       /\ tape' = Append(tape, v)
       /\ regs' = [r \in Registers |->
                     CASE r \in {"zero", "sp", "fp"} -> regs[r]
                       [] r = "a0" -> v
                       [] OTHER -> Junk]
  /\ trace' = Append(trace, <<Instr(exe).symbol, Arguments(Instr(exe))>>)
  /\ mem' = [b \in {c \in DOMAIN mem : c >= regs["sp"]} |-> mem[b]]
  /\ pc' = pc + 1
  /\ UNCHANGED <<program, calls>>

(* One external call too many for the bound.                               *)
TapeEnds(exe) ==
  /\ Executing(exe, {"call"}) /\ IsExternal(exe)
  /\ Len(tape) = MaxTape
  /\ pc' = Cut
  /\ UNCHANGED <<program, regs, mem, tape, trace, calls>>

Ret(exe) ==
  /\ Executing(exe, {"ret"})
  /\ pc' = regs["ra"]
  /\ calls' = Front(calls)
  /\ UNCHANGED <<program, regs, mem, tape, trace>>

Exe == Executables[program]

Next ==
  \/ Compute(Exe) \/ Store(Exe) \/ Branch(Exe)
  \/ CallInternal(Exe) \/ CallExternal(Exe) \/ TapeEnds(Exe) \/ Ret(Exe)

(* The hart goes on executing.                                             *)
Spec == Init /\ [][Next]_vars /\ WF_vars(Next)

-----------------------------------------------------------------------------
(* Correctness                                                             *)

Cell == [size : Widths, val : Int \cup {Junk}]

TypeOK ==
  /\ program \in 1 .. Len(Executables)
  /\ pc \in {Exited, Cut} \cup 1 .. Len(Exe.text)
  /\ regs \in [Registers -> Int \cup {Junk}]
  /\ \A b \in DOMAIN mem : b \in Int /\ mem[b] \in Cell
  /\ tape \in Seq(Values)
  /\ Len(trace) = Len(tape)

(* Every function gives back the stack, the frame and the return address   *)
(* it got, however deep the nesting a return is in: codegen_epilogue is    *)
(* printed for each return, and has to find sp where the prologue left it. *)
ReturnsBalanced ==
  Executing(Exe, {"ret"}) =>
    /\ regs["sp"] = Last(calls).sp
    /\ regs["fp"] = Last(calls).fp
    /\ regs["ra"] = Last(calls).ra

(* No temporary is on the stack where a statement can be jumped to: the    *)
(* value of every expression statement was discarded on every path that    *)
(* leads there (the result of codegen_node, the pops of its callers).      *)
StatementsBalanced ==
  Running /\ IsStatementLabel(Instr(Exe)) =>
    regs["sp"] = Last(calls).sp - Last(calls).frame

(* ra and fp stay where the prologue of each active function saved them:   *)
(* no push, no local and no argument register area overlaps them           *)
(* (codegen_prologue moves fp below the saved registers and sp below the   *)
(* locals).  A frame is complete once sp has reached its end.              *)
SavedRegistersIntact ==
  \A k \in 1 .. Len(calls) :
    k < Len(calls) \/ regs["sp"] <= calls[k].sp - calls[k].frame =>
      /\ Loaded(calls[k].sp - 8, 8) = calls[k].ra
      /\ Loaded(calls[k].sp - 16, 8) = calls[k].fp

(* Every executable keeps the discipline of the stack: it can be seen in   *)
(* the code alone, before it runs (each codegen_push has its pop on every  *)
(* path, and each epilogue finds what the prologue left).                  *)
CodeVerified ==
  pc = Exe.at[<<"fn", "main">>] =>
    /\ Verified(Exe)
    /\ \A b \in DOMAIN Exe.image : b \in Int /\ Exe.image[b] \in Cell

(* No store through a pointer reaches the registers a function has saved:  *)
(* a local variable, an element or member of one, or what a parameter      *)
(* points to lies in its frame below them (add_var counts down from fp,    *)
(* which codegen_prologue has moved below the saved registers).            *)
StoresSpareFrames ==
  Executing(Exe, {"store"}) /\ Instr(Exe).rs \notin {"sp", "fp"} =>
    LET base    == regs[Instr(Exe).rs]
        address == base + Instr(Exe).off
    IN  /\ base # Junk
        /\ \A k \in 1 .. Len(calls) :
             \/ address + Instr(Exe).size <= calls[k].sp - SaveArea
             \/ calls[k].sp <= address

(* A program whose loops are bounded by its external calls ends: no jump   *)
(* that codegen_node prints goes round without reaching them.              *)
Terminates == <>(~ Running)
=============================================================================
