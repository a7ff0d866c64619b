--------------------------- MODULE StackDiscipline ---------------------------
(***************************************************************************)
(* The discipline that codegen.c keeps with sp, fp and ra, as a rule for   *)
(* each instruction.  A view is what is known of the frame where an        *)
(* instruction stands, whatever way led there:                             *)
(*   fn      the function                                                  *)
(*   sp, fp  how far sp and fp are below the sp at the function's entry    *)
(*   held    which of ra and fp hold what they held at the entry           *)
(*   saved   which of the two are saved in the frame                       *)
(* fp means nothing as long as fp is held.                                 *)
(***************************************************************************)
EXTENDS Instructions

(* The registers codegen_prologue saves, how far below the sp at the entry *)
(* it does, and the size of the area they take.                            *)
Kept    == {"ra", "fp"}
SaveSlot == [ra |-> 8, fp |-> 16]
SaveArea == 16

EntryView(fn) == [fn |-> fn, sp |-> 0, fp |-> 0, held |-> Kept, saved |-> {}]

(* The address of a load or store, or the result of an addi, is known if   *)
(* it is based on sp or fp: by its distance below the sp at the entry.     *)
Based(v, at) == at.rs = "sp" \/ (at.rs = "fp" /\ "fp" \notin v.held)

Depth(v, rs, off) == (IF rs = "sp" THEN v.sp ELSE v.fp) - off

Saves(v, at) ==
  /\ at.op = "store" /\ at.rd \in v.held /\ Based(v, at)
  /\ at.size = 8 /\ Depth(v, at.rs, at.off) = SaveSlot[at.rd]

Restores(v, at) ==
  /\ at.op = "load" /\ at.rd \in v.saved /\ Based(v, at)
  /\ at.size = 8 /\ Depth(v, at.rs, at.off) = SaveSlot[at.rd]

Moves(v, at) == at.op = "addi" /\ at.rd \in {"sp", "fp"} /\ Based(v, at)

(* The view after an instruction that does not jump.  With a frame of its  *)
(* own a function gives up what ra holds too, since a call changes it.     *)
ViewAfter(v, at) ==
  CASE Moves(v, at) /\ at.rd = "sp" -> [v EXCEPT !.sp = Depth(v, at.rs, at.imm)]
    [] Moves(v, at) /\ at.rd = "fp" ->
         [v EXCEPT !.fp = Depth(v, at.rs, at.imm), !.held = {}]
    [] Restores(v, at) -> [v EXCEPT !.held = @ \cup {at.rd}]
    [] Saves(v, at)    -> [v EXCEPT !.saved = @ \cup {at.rd}]
    [] OTHER           -> v

Writing == {"li", "la", "addi", "alu", "load"}

(* What the discipline asks of an instruction.  sp, fp and ra are moved,   *)
(* or restored, and nothing else; a store that is based on sp or fp leaves *)
(* the saved registers alone; a call is made, and a return reached, with   *)
(* the frame as the prologue and the epilogue leave it.                    *)
Keeps(v, at) ==
  /\ at.op \in Writing /\ at.rd \in {"sp", "fp", "ra"} =>
       Moves(v, at) \/ Restores(v, at)
  /\ at.op = "store" /\ at.rs \in {"sp", "fp"} =>
       \/ Saves(v, at)
       \/ Based(v, at) /\ Depth(v, at.rs, at.off) - at.size >= SaveArea
  /\ at.op = "call" =>
       v.saved = Kept /\ v.held = {} /\ v.sp >= SaveArea
  /\ at.op = "ret"  => v.sp = 0 /\ v.held = Kept

(* Where a statement can be jumped to.                                     *)
IsStatementLabel(at) ==
  at.op = "label"
    /\ at.name[1] \in {"begin", "continue", "break", "case", "default"}

(* What the hart has to execute.                                           *)
Widths == {1, 4, 8}

WellFormed(exe, at) ==
  CASE at.op = "li"    -> at.rd \in Registers /\ at.imm \in Int
    [] at.op = "la"    -> at.rd \in Registers /\ exe.address[at.symbol] \in Int
    [] at.op = "addi"  -> {at.rd, at.rs} \subseteq Registers /\ at.imm \in Int
    [] at.op = "alu"   -> /\ {at.rd, at.rs1, at.rs2} \subseteq Registers
                          /\ at.fn \in AluFunctions
    [] at.op \in {"load", "store"} ->
         /\ {at.rd, at.rs} \subseteq Registers
         /\ at.off \in Int /\ at.size \in Widths
    [] at.op = "beq"   -> {at.rs1, at.rs2} \subseteq Registers
    [] OTHER           -> at.op \in {"j", "label", "call", "ret"}

(* The position follows the discipline, and the views around it agree: the *)
(* next one is what the instruction makes of this one, a target of a jump  *)
(* has the same, and a function begins with that of its entry.  Statements *)
(* begin where the frame is complete and nothing else is on the stack.     *)
Follows(exe, i) ==
  LET at == exe.text[i]
      v  == exe.view[i]
  IN  /\ WellFormed(exe, at) /\ Keeps(v, at)
      /\ at.op \notin {"j", "ret"} =>
           i < Len(exe.text) /\ exe.view[i + 1] = ViewAfter(v, at)
      /\ at.op \in {"j", "beq"} =>
           at.target \in DOMAIN exe.at /\ exe.view[exe.at[at.target]] = v
      /\ IsStatementLabel(at) => v.sp = exe.frames[v.fn]
      /\ v.sp >= exe.frames[v.fn] => v.saved = Kept

View(exe) ==
  [fn : DOMAIN exe.frames, sp : Int, fp : Int,
   held : SUBSET Kept, saved : SUBSET Kept]

Verified(exe) ==
  /\ Len(exe.text) \in Nat
  /\ DOMAIN exe.view = 1 .. Len(exe.text)
  /\ \A name \in DOMAIN exe.at : exe.at[name] \in 1 .. Len(exe.text)
  /\ "main" \in DOMAIN exe.frames
  /\ \A fn \in DOMAIN exe.frames :
       /\ exe.frames[fn] \in Int
       /\ <<"fn", fn>> \in DOMAIN exe.at
       /\ exe.view[exe.at[<<"fn", fn>>]] = EntryView(fn)
  /\ \A i \in 1 .. Len(exe.text) : exe.view[i] \in View(exe) /\ Follows(exe, i)
=============================================================================
