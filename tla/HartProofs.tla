----------------------------- MODULE HartProofs -----------------------------
(***************************************************************************)
(* The stack discipline is sound: an executable whose code follows it      *)
(* (CodeVerified) and whose pointers stay out of the saved registers       *)
(* (StoresSpareFrames) balances its stack and keeps its caller's registers *)
(* in every run, whatever the external functions return.                   *)
(***************************************************************************)
EXTENDS Hart, SequencePositions

(* What the entry of a function remembers.                                 *)
Frame == [sp : Int, fp : Int, ra : Int, frame : Int]

(* The types, which the guards of the actions do not establish by          *)
(* themselves: what is stored has to be a number or Junk.                  *)
Typed ==
  /\ program \in 1 .. Len(Executables)
  /\ pc \in {Exited, Cut} \cup 1 .. Len(Exe.text)
  /\ regs \in [Registers -> Int \cup {Junk}]
  /\ \A b \in DOMAIN mem : b \in Int /\ mem[b] \in Cell
  /\ tape \in Seq(Values)
  /\ trace = [n \in 1 .. Len(tape) |-> trace[n]]
  /\ calls \in Seq(Frame)

(* The registers `which` of the caller are where the entry e saved them.   *)
Intact(e, which) ==
  \A r \in which :
    /\ e.sp - SaveSlot[r] \in DOMAIN mem
    /\ mem[e.sp - SaveSlot[r]] = [size |-> 8, val |-> e[r]]

(* The registers are what the view of the position says of them.           *)
Matches(e, v) ==
  /\ regs["sp"] = e.sp - v.sp
  /\ regs["fp"] = IF "fp" \in v.held THEN e.fp ELSE e.sp - v.fp
  /\ "ra" \in v.held => regs["ra"] = e.ra
  /\ e.frame = Exe.frames[v.fn]
  /\ Intact(e, v.saved)

(* A function that has made a call finds its registers as the view of the  *)
(* position it returns to says.                                            *)
Suspended(e, callee) ==
  LET v == Exe.view[callee.ra]
  IN  /\ callee.ra \in 1 .. Len(Exe.text)
      /\ v.saved = Kept /\ v.held = {} /\ v.sp >= SaveArea
      /\ callee.sp = e.sp - v.sp
      /\ callee.fp = e.sp - v.fp
      /\ e.frame = Exe.frames[v.fn]
      /\ Intact(e, Kept)

(* The stack of the active functions.                                      *)
Stacked ==
  /\ calls # <<>> => calls[1].ra = Exited
  /\ \A k \in 1 .. Len(calls) - 1 : Suspended(calls[k], calls[k + 1])
  /\ \A k \in 1 .. Len(calls) : \A i \in 1 .. k - 1 :
       calls[k].sp + SaveArea <= calls[i].sp

Current ==
  /\ Running => calls # <<>> /\ Matches(calls[Len(calls)], Exe.view[pc])
  /\ pc = Exited => calls = <<>>
  /\ pc = Cut => calls # <<>> /\ Intact(calls[Len(calls)], Kept)

IInv == Typed /\ Verified(Exe) /\ Stacked /\ Current

-----------------------------------------------------------------------------
(* The code at the position of the hart                                    *)

LEMMA CodeAt ==
  ASSUME Typed, Verified(Exe), Running
  PROVE  /\ pc \in 1 .. Len(Exe.text) /\ Len(Exe.text) \in Nat
         /\ Exe.view[pc] \in View(Exe) /\ Follows(Exe, pc)
         /\ WellFormed(Exe, Instr(Exe)) /\ Keeps(Exe.view[pc], Instr(Exe))
<1>1. pc \in 1 .. Len(Exe.text)
  BY DEF Typed, Running, Exited, Cut
<1>2. Len(Exe.text) \in Nat /\ Exe.view[pc] \in View(Exe) /\ Follows(Exe, pc)
  BY <1>1 DEF Verified
<1> QED
  BY <1>1, <1>2 DEF Follows, Instr

(* What follows the instruction, if it does not jump.                      *)
LEMMA FallsThrough ==
  ASSUME Typed, Verified(Exe), Running, Instr(Exe).op \notin {"j", "ret"}
  PROVE  /\ pc + 1 \in 1 .. Len(Exe.text)
         /\ Exe.view[pc + 1] = ViewAfter(Exe.view[pc], Instr(Exe))
<1>1. pc \in 1 .. Len(Exe.text) /\ Len(Exe.text) \in Nat /\ Follows(Exe, pc)
  BY CodeAt
<1>2. pc < Len(Exe.text) /\ Exe.view[pc + 1] = ViewAfter(Exe.view[pc], Instr(Exe))
  BY <1>1 DEF Follows, Instr
<1> QED
  BY <1>1, <1>2

(* The active function has entered with numbers.                           *)
LEMMA Entries ==
  ASSUME Typed, NEW k \in 1 .. Len(calls)
  PROVE  /\ calls[k] \in Frame /\ Len(calls) \in Nat
         /\ calls[k].sp \in Int /\ calls[k].fp \in Int
         /\ calls[k].ra \in Int /\ calls[k].frame \in Int
<1>1. calls[k] \in Frame /\ Len(calls) \in Nat
  BY ElementOfSeq, LenProperties DEF Typed
<1> QED
  BY <1>1 DEF Frame

LEMMA LastEntry ==
  ASSUME Typed, calls # <<>>
  PROVE  Len(calls) \in 1 .. Len(calls) /\ Len(calls) \in Nat /\ Last(calls) = calls[Len(calls)]
<1>1. Len(calls) \in Nat /\ Len(calls) # 0
  BY LenProperties, EmptySeq DEF Typed
<1> QED
  BY <1>1 DEF Last

-----------------------------------------------------------------------------
(* Memory                                                                  *)

(* A cell that a store does not overlap stays.                             *)
LEMMA WrittenKeeps ==
  ASSUME NEW address \in Int, NEW size \in Widths, NEW x,
         NEW b \in DOMAIN mem, b \in Int, mem[b].size = 8,
         address + size <= b \/ b + 8 <= address
  PROVE  b \in DOMAIN Written(address, size, x)
         /\ Written(address, size, x)[b] = mem[b]
<1>1. b # address
  BY DEF Widths
<1> QED
  BY <1>1 DEF Written

LEMMA WrittenHas ==
  ASSUME NEW address \in Int, NEW size \in Widths, NEW x
  PROVE  address \in DOMAIN Written(address, size, x)
         /\ Written(address, size, x)[address] = [size |-> size, val |-> x]
BY DEF Written

LEMMA WrittenTyped ==
  ASSUME Typed, NEW address \in Int, NEW size \in Widths,
         NEW x \in Int \cup {Junk},
         NEW b \in DOMAIN Written(address, size, x)
  PROVE  b \in Int /\ Written(address, size, x)[b] \in Cell
<1>1. CASE b = address
  <2>1. Written(address, size, x)[b] = [size |-> size, val |-> x]
    BY <1>1 DEF Written
  <2> QED
    BY <1>1, <2>1 DEF Cell
<1>2. CASE b # address
  <2>1. b \in DOMAIN mem /\ Written(address, size, x)[b] = mem[b]
    BY <1>2 DEF Written
  <2> QED
    BY <2>1 DEF Typed
<1> QED
  BY <1>1, <1>2

(* What a load gives is a number or Junk.                                  *)
LEMMA LoadedTyped ==
  ASSUME Typed, NEW address, NEW size
  PROVE  Loaded(address, size) \in Int \cup {Junk}
<1>1. CASE address \in DOMAIN mem /\ size <= mem[address].size
  <2>1. mem[address].val \in Int \cup {Junk}
    BY <1>1 DEF Typed, Cell
  <2>2. Truncated(mem[address].val, size) \in Int \cup {Junk}
    BY <2>1 DEF Truncated
  <2> QED
    BY <1>1, <2>2 DEF Loaded
<1>2. CASE ~ (address \in DOMAIN mem /\ size <= mem[address].size)
  BY <1>2 DEF Loaded
<1> QED
  BY <1>1, <1>2

(* A saved register is loaded as it was saved.                             *)
LEMMA LoadedSaved ==
  ASSUME NEW e \in Frame, NEW which \in SUBSET Kept, NEW r \in which,
         Intact(e, which)
  PROVE  Loaded(e.sp - SaveSlot[r], 8) = e[r]
<1>1. /\ e.sp - SaveSlot[r] \in DOMAIN mem
      /\ mem[e.sp - SaveSlot[r]] = [size |-> 8, val |-> e[r]]
  BY DEF Intact
<1>2. mem[e.sp - SaveSlot[r]].size = 8 /\ mem[e.sp - SaveSlot[r]].val = e[r]
  BY <1>1
<1>3. Loaded(e.sp - SaveSlot[r], 8) = Truncated(e[r], 8)
  BY <1>1, <1>2 DEF Loaded
<1> QED
  BY <1>3 DEF Truncated

-----------------------------------------------------------------------------
(* Steps that leave the memory and the active functions alone              *)

LEMMA ComputedTyped ==
  ASSUME NEW fn \in AluFunctions, NEW x \in Int \cup {Junk},
         NEW y \in Int \cup {Junk}
  PROVE  Computed(fn, x, y) \in Int \cup {Junk}
<1>1. CASE x \in Int /\ y \in Int /\ x # Junk /\ y # Junk
  <2>1. Junk \notin {x, y}
    BY <1>1
  <2>2. CASE fn = "div"
    <3>1. y # 0 => Quotient(x, y) \in Int
      BY <1>1 DEF Quotient
    <3> QED
      BY <2>1, <2>2, <3>1 DEF Computed
  <2>3. CASE fn # "div"
    BY <1>1, <2>1, <2>3 DEF Computed, AluFunctions
  <2> QED
    BY <2>2, <2>3
<1>2. CASE x = Junk \/ y = Junk
  BY <1>2 DEF Computed
<1> QED
  BY <1>1, <1>2, HartAssumption

LEMMA ResultTyped ==
  ASSUME Typed, NEW at, WellFormed(Exe, at), at.op \in Writing
  PROVE  ResultOf(Exe, at) \in Int \cup {Junk}
<1>1. regs \in [Registers -> Int \cup {Junk}]
  BY DEF Typed
<1>2. CASE at.op = "li"
  BY <1>2 DEF WellFormed, ResultOf
<1>3. CASE at.op = "la"
  BY <1>3 DEF WellFormed, ResultOf
<1>4. CASE at.op = "addi"
  <2>1. at.rs \in Registers /\ at.imm \in Int \cup {Junk}
    BY <1>4 DEF WellFormed
  <2>2. Computed("add", regs[at.rs], at.imm) \in Int \cup {Junk}
    BY <2>1, <1>1, ComputedTyped DEF AluFunctions
  <2> QED
    BY <1>4, <2>2 DEF ResultOf
<1>5. CASE at.op = "alu"
  <2>1. at.rs1 \in Registers /\ at.rs2 \in Registers /\ at.fn \in AluFunctions
    BY <1>5 DEF WellFormed
  <2>2. Computed(at.fn, regs[at.rs1], regs[at.rs2]) \in Int \cup {Junk}
    BY <2>1, <1>1, ComputedTyped
  <2> QED
    BY <1>5, <2>2 DEF ResultOf
<1>6. CASE at.op = "load"
  <2>1. Loaded(regs[at.rs] + at.off, at.size) \in Int \cup {Junk}
    BY LoadedTyped
  <2> QED
    BY <1>6, <2>1 DEF ResultOf
<1> QED
  BY <1>2, <1>3, <1>4, <1>5, <1>6 DEF Writing

(* The value an instruction based on sp or fp starts from.                 *)
LEMMA BaseIs ==
  ASSUME NEW e \in Frame, NEW v \in View(Exe), Matches(e, v),
         NEW at, Based(v, at), NEW off \in Int
  PROVE  /\ regs[at.rs] \in Int
         /\ regs[at.rs] + off = e.sp - Depth(v, at.rs, off)
         /\ Depth(v, at.rs, off) \in Int
<1>1. e.sp \in Int /\ v.sp \in Int /\ v.fp \in Int
  BY DEF Frame, View
<1>2. CASE at.rs = "sp"
  BY <1>1, <1>2 DEF Matches, Depth
<1>3. CASE at.rs # "sp"
  BY <1>1, <1>3 DEF Matches, Depth, Based
<1> QED
  BY <1>2, <1>3

LEMMA IntactStays ==
  ASSUME NEW e, NEW which, Intact(e, which), mem' = mem
  PROVE  Intact(e, which)'
BY DEF Intact

LEMMA SuspendedStays ==
  ASSUME NEW e, NEW callee, Suspended(e, callee), Intact(e, Kept)', program' = program
  PROVE  Suspended(e, callee)'
BY DEF Suspended, Exe

(* An addi on sp or fp leaves what the view says.                          *)
LEMMA MovesMatches ==
  ASSUME Typed, NEW e \in Frame, NEW v \in View(Exe), Matches(e, v),
         NEW at, Moves(v, at), WellFormed(Exe, at),
         regs' = [regs EXCEPT ![at.rd] = ResultOf(Exe, at)],
         mem' = mem, program' = program
  PROVE  Matches(e, ViewAfter(v, at))'
<1>1. at.imm \in Int /\ at.op = "addi" /\ at.rd \in {"sp", "fp"} /\ Based(v, at)
  BY DEF Moves, WellFormed
<1> DEFINE d == Depth(v, at.rs, at.imm)
<1>2. regs[at.rs] \in Int /\ regs[at.rs] + at.imm = e.sp - d /\ d \in Int
  BY <1>1, BaseIs
<1>3. ResultOf(Exe, at) = e.sp - d
  <2>1. Junk \notin {regs[at.rs], at.imm}
    BY <1>1, <1>2, HartAssumption
  <2>2. Computed("add", regs[at.rs], at.imm) = regs[at.rs] + at.imm
    BY <2>1 DEF Computed
  <2> QED
    BY <1>1, <1>2, <2>2 DEF ResultOf
<1> HIDE DEF d
<1>4. regs \in [Registers -> Int \cup {Junk}] /\ {"sp", "fp", "ra"} \subseteq Registers
  BY DEF Typed, Registers
<1>5. Exe' = Exe /\ Intact(e, v.saved)'
  BY IntactStays DEF Exe, Matches
<1>6. CASE at.rd = "sp"
  <2> DEFINE w == [v EXCEPT !.sp = d]
  <2>1. ViewAfter(v, at) = w
    BY <1>1, <1>6 DEF ViewAfter, Restores, Saves, d
  <2>2. /\ w.sp = d /\ w.fp = v.fp /\ w.held = v.held /\ w.saved = v.saved
        /\ w.fn = v.fn
    BY DEF View
  <2>3. regs'["sp"] = e.sp - d /\ regs'["fp"] = regs["fp"] /\ regs'["ra"] = regs["ra"]
    BY <1>3, <1>4, <1>6
  <2> HIDE DEF w
  <2>4. Intact(e, w.saved)'
    BY <1>5, <2>2 DEF Intact
  <2>5. Matches(e, w)'
    BY <1>5, <2>2, <2>3, <2>4 DEF Matches
  <2> QED
    BY <2>1, <2>5
<1>7. CASE at.rd = "fp"
  <2> DEFINE w == [v EXCEPT !.fp = d, !.held = {}]
  <2>1. ViewAfter(v, at) = w
    BY <1>1, <1>7 DEF ViewAfter, Restores, Saves, d
  <2>2. /\ w.sp = v.sp /\ w.fp = d /\ w.held = {} /\ w.saved = v.saved
        /\ w.fn = v.fn
    BY DEF View
  <2>3. regs'["fp"] = e.sp - d /\ regs'["sp"] = regs["sp"] /\ regs'["ra"] = regs["ra"]
    BY <1>3, <1>4, <1>7
  <2> HIDE DEF w
  <2>4. Intact(e, w.saved)'
    BY <1>5, <2>2 DEF Intact
  <2>5. Matches(e, w)'
    BY <1>5, <2>2, <2>3, <2>4 DEF Matches
  <2> QED
    BY <2>1, <2>5
<1> QED
  BY <1>1, <1>6, <1>7

(* A register that is restored holds what it held at the entry.            *)
LEMMA RestoresMatches ==
  ASSUME Typed, NEW e \in Frame, NEW v \in View(Exe), Matches(e, v),
         NEW at, Restores(v, at), WellFormed(Exe, at),
         regs' = [regs EXCEPT ![at.rd] = ResultOf(Exe, at)],
         mem' = mem, program' = program
  PROVE  Matches(e, ViewAfter(v, at))'
<1>1. /\ at.off \in Int /\ at.op = "load" /\ at.rd \in v.saved /\ Based(v, at)
      /\ at.size = 8 /\ Depth(v, at.rs, at.off) = SaveSlot[at.rd]
  BY DEF Restores, WellFormed
<1>2. v.saved \in SUBSET Kept /\ Intact(e, v.saved)
  BY DEF View, Matches
<1>3. ResultOf(Exe, at) = e[at.rd]
  <2>1. regs[at.rs] + at.off = e.sp - SaveSlot[at.rd]
    BY <1>1, BaseIs
  <2>2. Loaded(e.sp - SaveSlot[at.rd], 8) = e[at.rd]
    BY <1>1, <1>2, LoadedSaved
  <2> QED
    BY <1>1, <2>1, <2>2 DEF ResultOf
<1>4. regs \in [Registers -> Int \cup {Junk}] /\ {"sp", "fp", "ra"} \subseteq Registers
  BY DEF Typed, Registers
<1>5. Exe' = Exe
  BY DEF Exe
<1> DEFINE w == [v EXCEPT !.held = @ \cup {at.rd}]
<1>6. ViewAfter(v, at) = w
  BY <1>1 DEF ViewAfter, Moves, Saves, Restores
<1>7. /\ w.sp = v.sp /\ w.fp = v.fp /\ w.held = v.held \cup {at.rd}
      /\ w.saved = v.saved /\ w.fn = v.fn
  BY DEF View
<1>8. at.rd = "ra" \/ at.rd = "fp"
  BY <1>1, <1>2 DEF Kept
<1>9. regs'["sp"] = regs["sp"] /\ regs'[at.rd] = e[at.rd]
      /\ (at.rd = "ra" => regs'["fp"] = regs["fp"])
      /\ (at.rd = "fp" => regs'["ra"] = regs["ra"])
  BY <1>3, <1>4, <1>8
<1> HIDE DEF w
<1>10. Intact(e, w.saved)'
  BY <1>2, <1>7 DEF Intact
<1>11. Matches(e, w)'
  <2>1. regs'["fp"] = IF "fp" \in w.held THEN e.fp ELSE e.sp - w.fp
    BY <1>7, <1>8, <1>9 DEF Matches
  <2>2. "ra" \in w.held => regs'["ra"] = e.ra
    BY <1>7, <1>8, <1>9 DEF Matches
  <2>3. regs'["sp"] = e.sp - w.sp /\ e.frame = Exe.frames[w.fn]
    BY <1>7, <1>9 DEF Matches
  <2> QED
    BY <1>5, <1>10, <2>1, <2>2, <2>3 DEF Matches
<1> QED
  BY <1>6, <1>11

(* The other registers are nothing to the view.                            *)
LEMMA OthersMatch ==
  ASSUME Typed, NEW e \in Frame, NEW v \in View(Exe), Matches(e, v),
         NEW r, r \notin {"sp", "fp", "ra"}, NEW x,
         regs' = [regs EXCEPT ![r] = x],
         mem' = mem, program' = program
  PROVE  Matches(e, v)'
<1>1. regs \in [Registers -> Int \cup {Junk}] /\ {"sp", "fp", "ra"} \subseteq Registers
  BY DEF Typed, Registers
<1>2. Exe' = Exe /\ Intact(e, v.saved)'
  BY IntactStays DEF Exe, Matches
<1>3. regs'["sp"] = regs["sp"] /\ regs'["fp"] = regs["fp"] /\ regs'["ra"] = regs["ra"]
  BY <1>1
<1> QED
  BY <1>2, <1>3 DEF Matches

(* A step of which the memory and the active functions take no notice.     *)
LEMMA StackedStays ==
  ASSUME Stacked, UNCHANGED <<mem, calls, program>>
  PROVE  Stacked'
<1>1. \A k \in 1 .. Len(calls) - 1 : Suspended(calls[k], calls[k + 1])'
  <2> TAKE k \in 1 .. Len(calls) - 1
  <2>1. Suspended(calls[k], calls[k + 1])
    BY DEF Stacked
  <2>2. Intact(calls[k], Kept)'
    BY <2>1 DEF Suspended, Intact
  <2> QED
    BY <2>1, <2>2 DEF Suspended, Exe
<1> QED
  BY <1>1 DEF Stacked

(* The state after a step, from what holds of its frame and its view.      *)
LEMMA CurrentAfter ==
  ASSUME NEW e, NEW w, Matches(e, w)', calls' # <<>>, calls'[Len(calls')] = e,
         pc' \notin {Exited, Cut}, Exe'.view[pc'] = w
  PROVE  Current'
BY DEF Current, Matches, Intact

(* What is known before an instruction is executed.                        *)
LEMMA Before ==
  ASSUME IInv, Running
  PROVE  \E e \in Frame, v \in View(Exe), at \in {Instr(Exe)} :
           /\ e = calls[Len(calls)] /\ calls # <<>> /\ Len(calls) \in Nat \ {0}
           /\ v = Exe.view[pc] /\ Matches(e, v)
           /\ WellFormed(Exe, at) /\ Keeps(v, at)
           /\ at.op \notin {"j", "ret"} =>
                /\ pc + 1 \in 1 .. Len(Exe.text)
                /\ Exe.view[pc + 1] = ViewAfter(v, at)
<1>1. Typed /\ Verified(Exe) /\ calls # <<>> /\ Matches(calls[Len(calls)], Exe.view[pc])
  BY DEF IInv, Current
<1>2. Len(calls) \in 1 .. Len(calls) /\ Len(calls) \in Nat
  BY <1>1, LastEntry
<1>3. calls[Len(calls)] \in Frame
  BY <1>1, <1>2, Entries
<1>4. /\ Exe.view[pc] \in View(Exe)
      /\ WellFormed(Exe, Instr(Exe)) /\ Keeps(Exe.view[pc], Instr(Exe))
  BY <1>1, CodeAt
<1>5. Instr(Exe).op \notin {"j", "ret"} =>
        /\ pc + 1 \in 1 .. Len(Exe.text)
        /\ Exe.view[pc + 1] = ViewAfter(Exe.view[pc], Instr(Exe))
  BY <1>1, FallsThrough
<1> QED
  BY <1>1, <1>2, <1>3, <1>4, <1>5

LEMMA ComputeMatches ==
  ASSUME Typed, NEW e \in Frame, NEW v \in View(Exe), Matches(e, v),
         NEW at, at.op \in Writing, WellFormed(Exe, at), Keeps(v, at),
         regs' = [regs EXCEPT ![at.rd] = ResultOf(Exe, at)],
         mem' = mem, program' = program
  PROVE  Matches(e, ViewAfter(v, at))'
<1>1. CASE Moves(v, at)
  BY <1>1, MovesMatches
<1>2. CASE Restores(v, at)
  BY <1>2, RestoresMatches
<1>3. CASE ~ Moves(v, at) /\ ~ Restores(v, at)
  <2>1. at.rd \notin {"sp", "fp", "ra"}
    BY <1>3 DEF Keeps
  <2>2. ViewAfter(v, at) = v
    BY <1>3 DEF ViewAfter, Saves, Writing
  <2>3. Matches(e, v)'
    BY <2>1, OthersMatch
  <2> QED
    BY <2>2, <2>3
<1> QED
  BY <1>1, <1>2, <1>3

LEMMA ComputeKeeps ==
  ASSUME IInv, Compute(Exe)
  PROVE  IInv'
<1>1. Typed /\ Verified(Exe) /\ Stacked /\ Running /\ Instr(Exe).op \in Writing
  BY DEF IInv, Compute, Executing, Writing
<1>2. PICK e \in Frame, v \in View(Exe), at \in {Instr(Exe)} :
           /\ e = calls[Len(calls)] /\ calls # <<>> /\ Len(calls) \in Nat \ {0}
           /\ v = Exe.view[pc] /\ Matches(e, v)
           /\ WellFormed(Exe, at) /\ Keeps(v, at)
           /\ at.op \notin {"j", "ret"} =>
                /\ pc + 1 \in 1 .. Len(Exe.text)
                /\ Exe.view[pc + 1] = ViewAfter(v, at)
  BY <1>1, Before
<1>3. pc + 1 \in 1 .. Len(Exe.text) /\ Exe.view[pc + 1] = ViewAfter(v, at)
  BY <1>1, <1>2 DEF Writing
<1>4. /\ regs' = [regs EXCEPT ![at.rd] = ResultOf(Exe, at)]
      /\ pc' = pc + 1 /\ UNCHANGED <<program, mem, tape, trace, calls>>
  BY <1>2 DEF Compute
<1>5. ResultOf(Exe, at) \in Int \cup {Junk}
  BY <1>1, <1>2, ResultTyped
<1>6. Exe' = Exe /\ Verified(Exe)'
  BY <1>1, <1>4 DEF Exe
<1>7. Typed'
  BY <1>1, <1>3, <1>4, <1>5, <1>6 DEF Typed
<1>8. Stacked'
  BY <1>1, <1>4, StackedStays
<1>9. Matches(e, ViewAfter(v, at))'
  BY <1>1, <1>2, <1>4, ComputeMatches
<1>10. pc' \notin {Exited, Cut}
  BY <1>3, <1>4 DEF Exited, Cut
<1>11. Current'
  BY <1>2, <1>3, <1>4, <1>6, <1>9, <1>10, CurrentAfter
<1> QED
  BY <1>6, <1>7, <1>8, <1>11 DEF IInv

LEMMA MatchesStays ==
  ASSUME NEW e, NEW v, Matches(e, v), UNCHANGED <<program, regs, mem>>
  PROVE  Matches(e, v)'
BY DEF Matches, Intact, Exe

LEMMA BranchKeeps ==
  ASSUME IInv, Branch(Exe)
  PROVE  IInv'
<1>1. Typed /\ Verified(Exe) /\ Stacked /\ Running /\ Instr(Exe).op \in {"beq", "j", "label"}
  BY DEF IInv, Branch, Executing
<1>2. PICK e \in Frame, v \in View(Exe), at \in {Instr(Exe)} :
           /\ e = calls[Len(calls)] /\ calls # <<>> /\ Len(calls) \in Nat \ {0}
           /\ v = Exe.view[pc] /\ Matches(e, v)
           /\ WellFormed(Exe, at) /\ Keeps(v, at)
           /\ at.op \notin {"j", "ret"} =>
                /\ pc + 1 \in 1 .. Len(Exe.text)
                /\ Exe.view[pc + 1] = ViewAfter(v, at)
  BY <1>1, Before
<1>3. /\ UNCHANGED <<program, regs, mem, tape, trace, calls>>
      /\ pc' = IF Taken(at) THEN Exe.at[at.target] ELSE pc + 1
  BY <1>2 DEF Branch
<1>4. Exe' = Exe /\ Verified(Exe)'
  BY <1>1, <1>3 DEF Exe
<1>5. pc' \in 1 .. Len(Exe.text) /\ Exe.view[pc'] = v
  <2>1. CASE Taken(at)
    <3>1. at.op \in {"j", "beq"}
      BY <2>1 DEF Taken
    <3>2. Follows(Exe, pc)
      BY <1>1, CodeAt
    <3>3. at.target \in DOMAIN Exe.at /\ Exe.view[Exe.at[at.target]] = v
      BY <1>2, <3>1, <3>2 DEF Follows, Instr
    <3>4. Exe.at[at.target] \in 1 .. Len(Exe.text)
      BY <1>1, <3>3 DEF Verified
    <3> QED
      BY <1>3, <2>1, <3>3, <3>4
  <2>2. CASE ~ Taken(at)
    <3>1. at.op \in {"beq", "label"}
      BY <1>1, <1>2, <2>2 DEF Taken
    <3>2. ViewAfter(v, at) = v
      BY <3>1 DEF ViewAfter, Moves, Restores, Saves
    <3> QED
      BY <1>2, <1>3, <2>2, <3>1, <3>2
  <2> QED
    BY <2>1, <2>2
<1>6. Typed'
  BY <1>1, <1>3, <1>4, <1>5 DEF Typed
<1>7. Stacked'
  BY <1>1, <1>3, StackedStays
<1>8. Matches(e, v)'
  BY <1>2, <1>3, MatchesStays
<1>9. pc' \notin {Exited, Cut}
  BY <1>5 DEF Exited, Cut
<1>10. Current'
  BY <1>2, <1>3, <1>4, <1>5, <1>8, <1>9, CurrentAfter
<1> QED
  BY <1>4, <1>6, <1>7, <1>10 DEF IInv

-----------------------------------------------------------------------------
(* Stores                                                                  *)

LEMMA IntactStored ==
  ASSUME NEW e \in Frame, NEW which \in SUBSET Kept, Intact(e, which),
         NEW address \in Int, NEW size \in Widths, NEW x,
         mem' = Written(address, size, x),
         address + size <= e.sp - SaveArea \/ e.sp <= address
  PROVE  Intact(e, which)'
<1> SUFFICES ASSUME NEW r \in which
             PROVE  /\ e.sp - SaveSlot[r] \in DOMAIN mem'
                    /\ mem'[e.sp - SaveSlot[r]] = [size |-> 8, val |-> e[r]]
  BY DEF Intact
<1> DEFINE b == e.sp - SaveSlot[r]
<1>1. b \in DOMAIN mem /\ mem[b] = [size |-> 8, val |-> e[r]]
  BY DEF Intact
<1>2. SaveSlot[r] = 8 \/ SaveSlot[r] = 16
  BY DEF SaveSlot, Kept
<1>3. b \in Int /\ size \in Int /\ (address + size <= b \/ b + 8 <= address)
  BY <1>2 DEF Frame, SaveArea, Widths
<1>4. mem[b].size = 8
  BY <1>1
<1> HIDE DEF b
<1>5. b \in DOMAIN mem' /\ mem'[b] = mem[b]
  BY <1>1, <1>3, <1>4, WrittenKeeps
<1> QED
  BY <1>1, <1>5 DEF b

(* A register that is saved is where the view says.                        *)
LEMMA IntactSaved ==
  ASSUME NEW e \in Frame, NEW which \in SUBSET Kept, Intact(e, which),
         NEW r \in Kept, mem' = Written(e.sp - SaveSlot[r], 8, e[r])
  PROVE  Intact(e, which \cup {r})'
<1> SUFFICES ASSUME NEW q \in which \cup {r}
             PROVE  /\ e.sp - SaveSlot[q] \in DOMAIN mem'
                    /\ mem'[e.sp - SaveSlot[q]] = [size |-> 8, val |-> e[q]]
  BY DEF Intact
<1>1. e.sp \in Int /\ e.sp - SaveSlot[r] \in Int /\ 8 \in Widths
  BY DEF Frame, SaveSlot, Kept, Widths
<1> DEFINE c == e.sp - SaveSlot[r]
<1>2. CASE q = r
  <2>1. c \in DOMAIN mem' /\ mem'[c] = [size |-> 8, val |-> e[r]]
    BY <1>1 DEF Written
  <2> QED
    BY <1>2, <2>1
<1>3. CASE q # r
  <2> DEFINE b == e.sp - SaveSlot[q]
  <2>1. b \in DOMAIN mem /\ mem[b] = [size |-> 8, val |-> e[q]]
    BY <1>3 DEF Intact
  <2>2. b \in Int /\ c \in Int /\ (c + 8 <= b \/ b + 8 <= c)
    BY <1>1, <1>3 DEF SaveSlot, Kept
  <2>3. mem[b].size = 8
    BY <2>1
  <2>4. mem' = Written(c, 8, e[r])
    BY DEF c
  <2>5. b # c
    BY <2>2
  <2> HIDE DEF b, c
  <2>6. b \in DOMAIN mem' /\ mem'[b] = mem[b]
    BY <2>1, <2>2, <2>3, <2>4, <2>5 DEF Written
  <2> QED
    BY <2>1, <2>6 DEF b
<1> QED
  BY <1>2, <1>3

(* A store that spares the saved registers of the active function: it is   *)
(* based on sp or fp and below them, or the guard keeps it away.           *)
LEMMA StoreAway ==
  ASSUME NEW e \in Frame, NEW v \in View(Exe), Matches(e, v),
         NEW at, at.op = "store", WellFormed(Exe, at), Keeps(v, at),
         at.rs \in {"sp", "fp"}
  PROVE  /\ regs[at.rs] \in Int /\ at.off \in Int /\ at.size \in Widths
         /\ \/ /\ Saves(v, at)
               /\ at.size = 8
               /\ regs[at.rs] + at.off = e.sp - SaveSlot[at.rd]
            \/ /\ ~ Saves(v, at)
               /\ regs[at.rs] + at.off + at.size <= e.sp - SaveArea
<1>1. at.off \in Int /\ at.size \in Widths /\ at.rd \in Registers
  BY DEF WellFormed
<1>2. \/ Saves(v, at)
      \/ Based(v, at) /\ Depth(v, at.rs, at.off) - at.size >= SaveArea
  BY DEF Keeps
<1>3. Based(v, at)
  BY <1>2 DEF Saves
<1>4. /\ regs[at.rs] \in Int /\ Depth(v, at.rs, at.off) \in Int
      /\ regs[at.rs] + at.off = e.sp - Depth(v, at.rs, at.off)
  BY <1>1, <1>3, BaseIs
<1>5. CASE Saves(v, at)
  BY <1>1, <1>4, <1>5 DEF Saves
<1>6. CASE ~ Saves(v, at)
  <2> DEFINE d == Depth(v, at.rs, at.off)
             address == regs[at.rs] + at.off
  <2>1. d - at.size >= 16
    BY <1>2, <1>6 DEF SaveArea
  <2>2. address = e.sp - d /\ d \in Int /\ e.sp \in Int /\ at.size \in Int
    BY <1>1, <1>4 DEF Frame, Widths
  <2> HIDE DEF d, address
  <2>3. address + at.size <= e.sp - 16
    BY <2>1, <2>2
  <2> QED
    BY <1>1, <1>4, <1>6, <2>3 DEF address, SaveArea
<1> QED
  BY <1>5, <1>6

(* The functions further out have their registers above those of the       *)
(* active one.                                                             *)
LEMMA StoredStacked ==
  ASSUME Typed, Stacked, calls # <<>>,
         NEW address \in Int, NEW size \in Widths, NEW x,
         mem' = Written(address, size, x), UNCHANGED <<calls, program>>,
         \A k \in 1 .. Len(calls) - 1 :
           address + size <= calls[k].sp - SaveArea \/ calls[k].sp <= address
  PROVE  Stacked'
<1>1. \A k \in 1 .. Len(calls) - 1 : Suspended(calls[k], calls[k + 1])'
  <2> TAKE k \in 1 .. Len(calls) - 1
  <2>1. Len(calls) \in Nat /\ k \in 1 .. Len(calls)
    BY LenProperties DEF Typed
  <2> PICK e \in Frame : e = calls[k]
    BY <2>1, Entries
  <2>2. Suspended(e, calls[k + 1])
    BY DEF Stacked
  <2>3. Intact(e, Kept)
    BY <2>2 DEF Suspended
  <2>4. Intact(e, Kept)'
    BY <2>3, IntactStored
  <2> QED
    BY <2>2, <2>4 DEF Suspended, Exe, Intact
<1> QED
  BY <1>1 DEF Stacked

LEMMA StoreKeeps ==
  ASSUME IInv, StoresSpareFrames, Store(Exe)
  PROVE  IInv'
<1>1. Typed /\ Verified(Exe) /\ Stacked /\ Running /\ Instr(Exe).op = "store"
  BY DEF IInv, Store, Executing
<1>2. PICK e \in Frame, v \in View(Exe), at \in {Instr(Exe)} :
           /\ e = calls[Len(calls)] /\ calls # <<>> /\ Len(calls) \in Nat \ {0}
           /\ v = Exe.view[pc] /\ Matches(e, v)
           /\ WellFormed(Exe, at) /\ Keeps(v, at)
           /\ at.op \notin {"j", "ret"} =>
                /\ pc + 1 \in 1 .. Len(Exe.text)
                /\ Exe.view[pc + 1] = ViewAfter(v, at)
  BY <1>1, Before
<1>3. pc + 1 \in 1 .. Len(Exe.text) /\ Exe.view[pc + 1] = ViewAfter(v, at)
  BY <1>1, <1>2
<1> DEFINE address == regs[at.rs] + at.off
<1>4. /\ mem' = Written(address, at.size, regs[at.rd])
      /\ pc' = pc + 1 /\ UNCHANGED <<program, regs, tape, trace, calls>>
  BY <1>2 DEF Store
<1>5. /\ at.rd \in Registers /\ at.rs \in Registers
      /\ at.off \in Int /\ at.size \in Widths
      /\ regs \in [Registers -> Int \cup {Junk}]
  BY <1>1, <1>2 DEF WellFormed, Typed
<1>6. Exe' = Exe /\ Verified(Exe)'
  BY <1>1, <1>4 DEF Exe
<1>7. /\ regs[at.rs] \in Int
      /\ \A k \in 1 .. Len(calls) - 1 :
           address + at.size <= calls[k].sp - SaveArea \/ calls[k].sp <= address
      /\ Matches(e, ViewAfter(v, at))'
  <2>1. e.sp \in Int /\ v.saved \in SUBSET Kept /\ Intact(e, v.saved)
    BY <1>2 DEF Frame, View, Matches
  <2>2. CASE at.rs \notin {"sp", "fp"}
    <3>1. /\ regs[at.rs] # Junk
          /\ \A k \in 1 .. Len(calls) :
               address + at.size <= calls[k].sp - SaveArea \/ calls[k].sp <= address
      BY <1>1, <1>2, <2>2 DEF StoresSpareFrames, Executing
    <3>2. regs[at.rs] \in Int /\ address \in Int
      BY <1>5, <3>1
    <3>3. ViewAfter(v, at) = v
      BY <1>1, <1>2, <2>2 DEF ViewAfter, Moves, Restores, Saves, Based
    <3>4. Intact(e, v.saved)'
      BY <1>2, <1>4, <1>5, <2>1, <3>1, <3>2, IntactStored
    <3>5. Matches(e, v)'
      BY <1>2, <1>4, <1>6, <3>4 DEF Matches
    <3> QED
      BY <1>2, <3>1, <3>2, <3>3, <3>5
  <2>3. CASE at.rs \in {"sp", "fp"}
    <3>1. /\ regs[at.rs] \in Int
          /\ \/ /\ Saves(v, at)
                /\ at.size = 8
                /\ address = e.sp - SaveSlot[at.rd]
             \/ /\ ~ Saves(v, at)
                /\ address + at.size <= e.sp - SaveArea
      BY <1>1, <1>2, <2>3, StoreAway
    <3>2. address \in Int /\ at.size \in Int
      BY <1>5, <3>1 DEF Widths
    <3> HIDE DEF address
    <3>3. address + at.size <= e.sp
      <4>1. CASE Saves(v, at)
        <5>1. SaveSlot[at.rd] \in {8, 16}
          BY <1>2, <4>1 DEF Saves, SaveSlot, View, Kept
        <5> QED
          BY <2>1, <3>1, <3>2, <4>1, <5>1
      <4>2. CASE ~ Saves(v, at)
        BY <2>1, <3>1, <3>2, <4>2 DEF SaveArea
      <4> QED
        BY <4>1, <4>2
    <3>4. \A k \in 1 .. Len(calls) - 1 : address + at.size <= calls[k].sp - SaveArea
      <4> TAKE k \in 1 .. Len(calls) - 1
      <4>1. k \in 1 .. Len(calls) /\ calls[k].sp \in Int
        BY <1>1, <1>2, Entries
      <4>2. e.sp + 16 <= calls[k].sp
        BY <1>1, <1>2 DEF Stacked, SaveArea
      <4> QED
        BY <2>1, <3>2, <3>3, <4>1, <4>2 DEF SaveArea
    <3>5. CASE Saves(v, at)
      <4>1. at.rd \in v.held /\ at.rd \in Kept /\ at.op = "store"
        BY <1>2, <3>5 DEF Saves, View
      <4>2. regs[at.rd] = e[at.rd]
        BY <1>2, <4>1 DEF Matches, Kept
      <4>3. Intact(e, v.saved \cup {at.rd})'
        BY <1>4, <2>1, <3>1, <3>5, <4>1, <4>2, IntactSaved
      <4> DEFINE w == [v EXCEPT !.saved = @ \cup {at.rd}]
      <4>4. ViewAfter(v, at) = w
        BY <3>5, <4>1 DEF ViewAfter, Moves, Restores
      <4>5. /\ w.sp = v.sp /\ w.fp = v.fp /\ w.held = v.held
            /\ w.saved = v.saved \cup {at.rd} /\ w.fn = v.fn
        BY DEF View
      <4> HIDE DEF w
      <4>6. Intact(e, w.saved)'
        BY <4>3, <4>5 DEF Intact
      <4>7. Matches(e, w)'
        BY <1>2, <1>4, <1>6, <4>5, <4>6 DEF Matches
      <4> QED
        BY <3>1, <3>4, <4>4, <4>7
    <3>6. CASE ~ Saves(v, at)
      <4>1. ViewAfter(v, at) = v
        BY <1>1, <1>2, <3>6 DEF ViewAfter, Moves, Restores
      <4>2. Intact(e, v.saved)'
        BY <1>4, <1>5, <2>1, <3>1, <3>2, <3>6, IntactStored
      <4>3. Matches(e, v)'
        BY <1>2, <1>4, <1>6, <4>2 DEF Matches
      <4> QED
        BY <3>1, <3>4, <4>1, <4>3
    <3> QED
      BY <3>5, <3>6
  <2> QED
    BY <2>2, <2>3
<1>8. address \in Int
  BY <1>5, <1>7
<1> HIDE DEF address
<1>9. Typed'
  <2>1. regs[at.rd] \in Int \cup {Junk}
    BY <1>5
  <2>2. \A b \in DOMAIN mem' : b \in Int /\ mem'[b] \in Cell
    BY <1>1, <1>4, <1>5, <1>8, <2>1, WrittenTyped
  <2> QED
    BY <1>1, <1>3, <1>4, <1>6, <2>2 DEF Typed
<1>10. Stacked'
  BY <1>1, <1>2, <1>4, <1>5, <1>7, <1>8, StoredStacked
<1>11. pc' \notin {Exited, Cut}
  BY <1>3, <1>4 DEF Exited, Cut
<1>12. Current'
  BY <1>2, <1>3, <1>4, <1>6, <1>7, <1>11, CurrentAfter
<1> QED
  BY <1>6, <1>9, <1>10, <1>12 DEF IInv

-----------------------------------------------------------------------------
(* Calls and returns                                                       *)

(* A call pushes an entry that finds its registers as they were left.      *)
LEMMA CallStacked ==
  ASSUME Typed, Stacked, calls # <<>>, UNCHANGED <<program, mem>>,
         NEW e \in Frame, e = calls[Len(calls)],
         NEW new \in Frame, calls' = Append(calls, new),
         Suspended(e, new), new.sp + SaveArea <= e.sp
  PROVE  /\ Stacked' /\ calls' \in Seq(Frame) /\ calls' # <<>>
         /\ calls'[Len(calls')] = new
<1> DEFINE n == Len(calls)
<1>1. calls \in Seq(Frame) /\ n \in Nat /\ n # 0
  BY LenProperties, EmptySeq DEF Typed
<1>2. /\ calls' \in Seq(Frame) /\ calls' # <<>>
      /\ Len(calls') = n + 1 /\ calls'[n + 1] = new
      /\ \A i \in 1 .. n : calls'[i] = calls[i]
  BY <1>1, AppendProperties
<1>3. \A i \in 1 .. n : calls[i] \in Frame /\ calls[i].sp \in Int
  BY Entries
<1> HIDE DEF n
<1>4. calls'[1].ra = Exited
  BY <1>1, <1>2 DEF Stacked, n
<1>5. \A k \in 1 .. n : Suspended(calls[k], calls[k + 1])'
  <2> TAKE k \in 1 .. n
  <2>1. Suspended(calls'[k], calls'[k + 1])
    <3>1. CASE k = n
      BY <1>1, <1>2, <3>1 DEF n
    <3>2. CASE k # n
      <4>1. k \in 1 .. n - 1 /\ k + 1 \in 1 .. n
        BY <1>1, <3>2
      <4>2. Suspended(calls[k], calls[k + 1])
        BY <4>1 DEF Stacked, n
      <4> QED
        BY <1>2, <4>1, <4>2
    <3> QED
      BY <3>1, <3>2
  <2> QED
    BY <2>1 DEF Suspended, Intact, Exe
<1>6. \A k \in 1 .. n + 1 : \A i \in 1 .. k - 1 :
        calls'[k].sp + SaveArea <= calls'[i].sp
  <2> TAKE k \in 1 .. n + 1
  <2> TAKE i \in 1 .. k - 1
  <2>1. i \in 1 .. n /\ calls'[i] = calls[i]
    BY <1>1, <1>2
  <2>2. CASE k = n + 1
    <3>1. e.sp \in Int /\ new.sp \in Int /\ SaveArea \in Int /\ SaveArea > 0
      BY DEF Frame, SaveArea
    <3>2. i = n \/ e.sp + SaveArea <= calls[i].sp
      BY <1>1, <2>1 DEF Stacked, n
    <3>3. calls[i].sp \in Int /\ calls[n] = e
      BY <1>3, <2>1 DEF n
    <3> QED
      BY <1>2, <2>1, <2>2, <3>1, <3>2, <3>3
  <2>3. CASE k # n + 1
    <3>1. k \in 1 .. n
      BY <1>1, <2>3
    <3> QED
      BY <1>2, <2>1, <3>1 DEF Stacked, n
  <2> QED
    BY <2>2, <2>3
<1>7. Stacked'
  <2>1. Len(calls') - 1 = n
    BY <1>1, <1>2
  <2>2. \A k \in 1 .. Len(calls') - 1 : Suspended(calls[k], calls[k + 1])'
    BY <1>5, <2>1
  <2>3. \A k \in 1 .. Len(calls') : \A i \in 1 .. k - 1 :
        calls'[k].sp + SaveArea <= calls'[i].sp
    BY <1>2, <1>6
  <2> QED
    BY <1>4, <2>2, <2>3 DEF Stacked
<1> QED
  BY <1>2, <1>7

LEMMA CallInternalKeeps ==
  ASSUME IInv, CallInternal(Exe)
  PROVE  IInv'
<1>1. Typed /\ Verified(Exe) /\ Stacked /\ Running /\ Instr(Exe).op = "call"
  BY DEF IInv, CallInternal, Executing
<1>2. PICK e \in Frame, v \in View(Exe), at \in {Instr(Exe)} :
           /\ e = calls[Len(calls)] /\ calls # <<>> /\ Len(calls) \in Nat \ {0}
           /\ v = Exe.view[pc] /\ Matches(e, v)
           /\ WellFormed(Exe, at) /\ Keeps(v, at)
           /\ at.op \notin {"j", "ret"} =>
                /\ pc + 1 \in 1 .. Len(Exe.text)
                /\ Exe.view[pc + 1] = ViewAfter(v, at)
  BY <1>1, Before
<1>3. pc + 1 \in 1 .. Len(Exe.text) /\ Exe.view[pc + 1] = v
  <2>1. ViewAfter(v, at) = v
    BY <1>1, <1>2 DEF ViewAfter, Moves, Restores, Saves
  <2> QED
    BY <1>1, <1>2, <2>1
<1>4. v.saved = Kept /\ v.held = {} /\ v.sp >= SaveArea /\ v.sp \in Int /\ v.fp \in Int
  BY <1>1, <1>2 DEF Keeps, View
<1>5. PICK sym \in DOMAIN Exe.frames : sym = at.symbol
  BY <1>2 DEF CallInternal, IsExternal
<1>6. /\ Exe.frames[sym] \in Int /\ <<"fn", sym>> \in DOMAIN Exe.at
      /\ Exe.at[<<"fn", sym>>] \in 1 .. Len(Exe.text)
      /\ Exe.view[Exe.at[<<"fn", sym>>]] = EntryView(sym)
  BY <1>1 DEF Verified
<1>7. regs["sp"] = e.sp - v.sp /\ regs["fp"] = e.sp - v.fp /\ e.sp \in Int
      /\ e.frame = Exe.frames[v.fn] /\ Intact(e, Kept)
  BY <1>2, <1>4 DEF Matches, Frame
<1>8. PICK new \in Frame :
        new = [sp |-> e.sp - v.sp, fp |-> e.sp - v.fp, ra |-> pc + 1,
               frame |-> Exe.frames[sym]]
  <2>1. /\ e.sp - v.sp \in Int /\ e.sp - v.fp \in Int
        /\ pc + 1 \in Int /\ Exe.frames[sym] \in Int
    BY <1>3, <1>4, <1>6, <1>7
  <2>2. [sp |-> e.sp - v.sp, fp |-> e.sp - v.fp, ra |-> pc + 1,
         frame |-> Exe.frames[sym]] \in Frame
    BY <2>1 DEF Frame
  <2> QED
    BY <2>2
<1>9. /\ regs' = [regs EXCEPT !["ra"] = pc + 1]
      /\ pc' = Exe.at[<<"fn", sym>>]
      /\ UNCHANGED <<program, mem, tape, trace>>
  BY <1>2, <1>5 DEF CallInternal
<1>10. regs \in [Registers -> Int \cup {Junk}] /\ {"sp", "fp", "ra"} \subseteq Registers
  BY <1>1 DEF Typed, Registers
<1>11. regs'["sp"] = new.sp /\ regs'["fp"] = new.fp /\ regs'["ra"] = new.ra
  BY <1>7, <1>8, <1>9, <1>10
<1>12. calls' = Append(calls, new)
  BY <1>2, <1>5, <1>8, <1>9, <1>11 DEF CallInternal, Entry
<1>13. new.sp + SaveArea <= e.sp
  BY <1>4, <1>7, <1>8 DEF SaveArea
<1>14. Suspended(e, new)
  BY <1>3, <1>4, <1>7, <1>8 DEF Suspended
<1>15. /\ new.sp = e.sp - v.sp /\ new.fp = e.sp - v.fp /\ new.ra = pc + 1
       /\ new.frame = Exe.frames[sym]
  BY <1>8
<1>16. /\ Stacked' /\ calls' \in Seq(Frame) /\ calls' # <<>>
       /\ calls'[Len(calls')] = new
  BY <1>1, <1>2, <1>8, <1>9, <1>12, <1>13, <1>14, CallStacked
<1>17. Exe' = Exe /\ Verified(Exe)'
  BY <1>1, <1>9 DEF Exe
<1>18. Typed'
  <2>1. regs' \in [Registers -> Int \cup {Junk}]
    BY <1>3, <1>9, <1>10
  <2> QED
    BY <1>1, <1>6, <1>9, <1>16, <1>17, <2>1 DEF Typed
<1> DEFINE w == EntryView(sym)
<1>19. w.fn = sym /\ w.sp = 0 /\ w.fp = 0 /\ w.held = Kept /\ w.saved = {}
  BY DEF EntryView
<1>20. Exe'.view[pc'] = w
  BY <1>6, <1>9, <1>17
<1> HIDE DEF w
<1>21. Matches(new, w)'
  <2>1. new.sp \in Int
    BY <1>8 DEF Frame
  <2>2. Intact(new, w.saved)'
    BY <1>19 DEF Intact
  <2>3. regs'["sp"] = new.sp - w.sp /\ "fp" \in w.held
    BY <1>11, <1>19, <2>1 DEF Kept
  <2>4. new.frame = Exe'.frames[w.fn]
    BY <1>15, <1>17, <1>19
  <2> QED
    BY <1>11, <2>2, <2>3, <2>4 DEF Matches
<1>22. pc' \notin {Exited, Cut}
  BY <1>6, <1>9 DEF Exited, Cut
<1>23. Current'
  BY <1>16, <1>20, <1>21, <1>22 DEF Current, Matches, Intact
<1> QED
  BY <1>16, <1>17, <1>18, <1>23 DEF IInv

(* One external call too many: the hart stops in the middle of a function. *)
LEMMA TapeEndsKeeps ==
  ASSUME IInv, TapeEnds(Exe)
  PROVE  IInv'
<1>1. Typed /\ Verified(Exe) /\ Stacked /\ Running /\ Instr(Exe).op = "call"
  BY DEF IInv, TapeEnds, Executing
<1>2. PICK e \in Frame, v \in View(Exe), at \in {Instr(Exe)} :
           /\ e = calls[Len(calls)] /\ calls # <<>> /\ Len(calls) \in Nat \ {0}
           /\ v = Exe.view[pc] /\ Matches(e, v)
           /\ WellFormed(Exe, at) /\ Keeps(v, at)
           /\ at.op \notin {"j", "ret"} =>
                /\ pc + 1 \in 1 .. Len(Exe.text)
                /\ Exe.view[pc + 1] = ViewAfter(v, at)
  BY <1>1, Before
<1>3. pc' = Cut /\ UNCHANGED <<program, regs, mem, tape, trace, calls>>
  BY DEF TapeEnds
<1>4. Intact(e, Kept)
  BY <1>1, <1>2 DEF Keeps, Matches
<1>5. Exe' = Exe /\ Verified(Exe)'
  BY <1>1, <1>3 DEF Exe
<1>6. Typed'
  BY <1>1, <1>3, <1>5 DEF Typed
<1>7. Stacked'
  BY <1>1, <1>3, StackedStays
<1>8. ~ Running' /\ pc' # Exited
  BY <1>3 DEF Running, Cut, Exited
<1>9. Current'
  BY <1>2, <1>3, <1>4, <1>8 DEF Current, Intact
<1> QED
  BY <1>5, <1>6, <1>7, <1>9 DEF IInv

(* An external function leaves the cells from sp on alone, and the saved   *)
(* registers are among them.                                               *)
LEMMA IntactAbove ==
  ASSUME NEW e \in Frame, NEW which \in SUBSET Kept, Intact(e, which),
         NEW bottom \in Int, bottom <= e.sp - SaveArea,
         mem' = [b \in {c \in DOMAIN mem : c >= bottom} |-> mem[b]]
  PROVE  Intact(e, which)'
<1> SUFFICES ASSUME NEW r \in which
             PROVE  /\ e.sp - SaveSlot[r] \in DOMAIN mem'
                    /\ mem'[e.sp - SaveSlot[r]] = [size |-> 8, val |-> e[r]]
  BY DEF Intact
<1> DEFINE b == e.sp - SaveSlot[r]
<1>1. b \in DOMAIN mem /\ mem[b] = [size |-> 8, val |-> e[r]]
  BY DEF Intact
<1>2. e.sp \in Int /\ (SaveSlot[r] = 8 \/ SaveSlot[r] = 16) /\ SaveArea = 16
  BY DEF SaveSlot, Kept, Frame, SaveArea
<1>3. b >= bottom
  BY <1>2
<1> QED
  BY <1>1, <1>3

LEMMA AboveStacked ==
  ASSUME Typed, Stacked, calls # <<>>, UNCHANGED <<calls, program>>,
         NEW bottom \in Int, bottom <= calls[Len(calls)].sp - SaveArea,
         mem' = [b \in {c \in DOMAIN mem : c >= bottom} |-> mem[b]]
  PROVE  Stacked'
<1>1. \A k \in 1 .. Len(calls) - 1 : Suspended(calls[k], calls[k + 1])'
  <2> TAKE k \in 1 .. Len(calls) - 1
  <2>1. /\ Len(calls) \in 1 .. Len(calls) /\ Len(calls) \in Nat
        /\ k \in 1 .. Len(calls) /\ k \in 1 .. Len(calls) - 1
    BY LastEntry
  <2>2. PICK e \in Frame : e = calls[k]
    BY <2>1, Entries
  <2>3. calls[k].sp \in Int /\ calls[Len(calls)].sp \in Int
    BY <2>1, Entries
  <2>4. calls[Len(calls)].sp + SaveArea <= e.sp
    BY <2>1, <2>2 DEF Stacked
  <2>5. bottom <= e.sp - SaveArea
    BY <2>2, <2>3, <2>4 DEF SaveArea
  <2>6. Suspended(e, calls[k + 1])
    BY <2>2 DEF Stacked
  <2>7. Intact(e, Kept)
    BY <2>6 DEF Suspended
  <2>8. Intact(e, Kept)'
    BY <2>5, <2>7, IntactAbove
  <2> QED
    BY <2>2, <2>6, <2>8 DEF Suspended, Exe, Intact
<1> QED
  BY <1>1 DEF Stacked

LEMMA CallExternalKeeps ==
  ASSUME IInv, CallExternal(Exe)
  PROVE  IInv'
<1>1. Typed /\ Verified(Exe) /\ Stacked /\ Running /\ Instr(Exe).op = "call"
  BY DEF IInv, CallExternal, Executing
<1>2. PICK e \in Frame, v \in View(Exe), at \in {Instr(Exe)} :
           /\ e = calls[Len(calls)] /\ calls # <<>> /\ Len(calls) \in Nat \ {0}
           /\ v = Exe.view[pc] /\ Matches(e, v)
           /\ WellFormed(Exe, at) /\ Keeps(v, at)
           /\ at.op \notin {"j", "ret"} =>
                /\ pc + 1 \in 1 .. Len(Exe.text)
                /\ Exe.view[pc + 1] = ViewAfter(v, at)
  BY <1>1, Before
<1>3. pc + 1 \in 1 .. Len(Exe.text) /\ Exe.view[pc + 1] = v
  <2>1. ViewAfter(v, at) = v
    BY <1>1, <1>2 DEF ViewAfter, Moves, Restores, Saves
  <2> QED
    BY <1>1, <1>2, <2>1
<1>4. v.saved = Kept /\ v.held = {} /\ v.sp >= SaveArea /\ v.sp \in Int /\ e.sp \in Int
  BY <1>1, <1>2 DEF Keeps, View, Frame
<1>5. /\ mem' = [b \in {c \in DOMAIN mem : c >= regs["sp"]} |-> mem[b]]
      /\ pc' = pc + 1 /\ UNCHANGED <<program, calls>>
      /\ trace' = Append(trace, <<Instr(Exe).symbol, Arguments(Instr(Exe))>>)
  BY DEF CallExternal
<1>6. PICK x \in Values :
        /\ tape' = Append(tape, x)
        /\ regs' = [r \in Registers |->
                      CASE r \in {"zero", "sp", "fp"} -> regs[r]
                        [] r = "a0" -> x
                        [] OTHER -> Junk]
  BY DEF CallExternal
<1>7. Exe' = Exe /\ Verified(Exe)'
  BY <1>1, <1>5 DEF Exe
<1>8. regs["sp"] \in Int /\ regs["sp"] <= e.sp - SaveArea
  <2>1. regs["sp"] = e.sp - v.sp
    BY <1>2 DEF Matches
  <2> QED
    BY <1>4, <2>1 DEF SaveArea
<1>9. Typed'
  <2>1. regs \in [Registers -> Int \cup {Junk}] /\ x \in Int
    BY <1>1, HartAssumption DEF Typed
  <2>2. regs' \in [Registers -> Int \cup {Junk}]
    BY <1>6, <2>1
  <2>3. tape \in Seq(Values) /\ trace = [m \in 1 .. Len(tape) |-> trace[m]]
    BY <1>1 DEF Typed
  <2>4. tape' \in Seq(Values) /\ Len(tape') = Len(tape) + 1 /\ Len(tape) \in Nat
    BY <1>6, <2>3, AppendProperties, LenProperties
  <2>5. DOMAIN trace = 1 .. Len(tape)
    BY <2>3
  <2>6. trace' = [m \in 1 .. Len(tape') |-> trace'[m]]
    <3>1. Len(trace) = Len(tape)
      BY <2>3, <2>4
    <3> QED
      BY <1>5, <2>3, <2>4, <3>1
  <2>7. \A b \in DOMAIN mem' : b \in Int /\ mem'[b] \in Cell
    BY <1>1, <1>5 DEF Typed
  <2> QED
    BY <1>1, <1>3, <1>5, <1>7, <2>2, <2>4, <2>6, <2>7 DEF Typed
<1>10. Stacked'
  BY <1>1, <1>2, <1>5, <1>8, AboveStacked
<1>11. Matches(e, v)'
  <2>1. regs'["sp"] = regs["sp"] /\ regs'["fp"] = regs["fp"]
    BY <1>6 DEF Registers
  <2>2. Intact(e, v.saved)'
    <3>1. v.saved \in SUBSET Kept /\ Intact(e, v.saved)
      BY <1>2 DEF Matches, View
    <3> QED
      BY <1>5, <1>8, <3>1, IntactAbove
  <2> QED
    BY <1>2, <1>4, <1>7, <2>1, <2>2 DEF Matches
<1>12. pc' \notin {Exited, Cut}
  BY <1>3, <1>5 DEF Exited, Cut
<1>13. Current'
  BY <1>2, <1>3, <1>5, <1>7, <1>11, <1>12, CurrentAfter
<1> QED
  BY <1>7, <1>9, <1>10, <1>13 DEF IInv

(* A return drops the last entry and finds the one below suspended.        *)
LEMMA ReturnStacked ==
  ASSUME Typed, Stacked, calls # <<>>, UNCHANGED <<program, mem>>,
         calls' = Front(calls)
  PROVE  /\ Stacked' /\ calls' \in Seq(Frame)
         /\ Len(calls') = Len(calls) - 1
         /\ \A k \in 1 .. Len(calls') : calls'[k] = calls[k]
<1> DEFINE n == Len(calls)
<1>1. calls \in Seq(Frame) /\ n \in Nat /\ n >= 1
  BY LastEntry DEF Typed
<1>2. /\ calls' \in Seq(Frame) /\ Len(calls') = n - 1
      /\ \A k \in 1 .. n - 1 : calls'[k] = calls[k]
  BY <1>1, FrontProperties
<1> HIDE DEF n
<1>3. calls' # <<>> => calls'[1].ra = Exited
  <2> SUFFICES ASSUME calls' # <<>> PROVE calls'[1].ra = Exited
    OBVIOUS
  <2>1. n - 1 # 0
    BY <1>2, EmptySeq
  <2>2. 1 \in 1 .. n - 1
    BY <1>1, <2>1
  <2> QED
    BY <1>1, <1>2, <2>2, EmptySeq DEF Stacked
<1>4. \A k \in 1 .. n - 2 : Suspended(calls[k], calls[k + 1])'
  <2> TAKE k \in 1 .. n - 2
  <2>1. k \in 1 .. n - 1 /\ k + 1 \in 1 .. n - 1
    BY <1>1
  <2>2. Suspended(calls[k], calls[k + 1])
    BY <2>1 DEF Stacked, n
  <2>3. calls'[k] = calls[k] /\ calls'[k + 1] = calls[k + 1]
    BY <1>2, <2>1
  <2> QED
    BY <2>2, <2>3 DEF Suspended, Intact, Exe
<1>5. \A k \in 1 .. n - 1 : \A i \in 1 .. k - 1 :
        calls'[k].sp + SaveArea <= calls'[i].sp
  <2> TAKE k \in 1 .. n - 1
  <2> TAKE i \in 1 .. k - 1
  <2>1. i \in 1 .. n - 1 /\ k \in 1 .. n
    BY <1>1
  <2> QED
    BY <1>2, <2>1 DEF Stacked, n
<1>6. n - 1 - 1 = n - 2
  BY <1>1
<1>7. Stacked'
  BY <1>2, <1>3, <1>4, <1>5, <1>6 DEF Stacked
<1> QED
  BY <1>2, <1>7 DEF n

LEMMA RetKeeps ==
  ASSUME IInv, Ret(Exe)
  PROVE  IInv'
<1>1. Typed /\ Verified(Exe) /\ Stacked /\ Running /\ Instr(Exe).op = "ret"
  BY DEF IInv, Ret, Executing
<1>2. PICK e \in Frame, v \in View(Exe), at \in {Instr(Exe)} :
           /\ e = calls[Len(calls)] /\ calls # <<>> /\ Len(calls) \in Nat \ {0}
           /\ v = Exe.view[pc] /\ Matches(e, v)
           /\ WellFormed(Exe, at) /\ Keeps(v, at)
           /\ at.op \notin {"j", "ret"} =>
                /\ pc + 1 \in 1 .. Len(Exe.text)
                /\ Exe.view[pc + 1] = ViewAfter(v, at)
  BY <1>1, Before
<1>3. regs["sp"] = e.sp /\ regs["fp"] = e.fp /\ regs["ra"] = e.ra
  <2>1. v.sp = 0 /\ v.held = Kept /\ e.sp \in Int
    BY <1>1, <1>2 DEF Keeps, Frame
  <2> QED
    BY <1>2, <2>1 DEF Matches, Kept
<1>4. /\ pc' = e.ra /\ calls' = Front(calls)
      /\ UNCHANGED <<program, regs, mem, tape, trace>>
  BY <1>3 DEF Ret
<1>5. Exe' = Exe /\ Verified(Exe)'
  BY <1>1, <1>4 DEF Exe
<1>6. /\ Stacked' /\ calls' \in Seq(Frame)
      /\ Len(calls') = Len(calls) - 1
      /\ \A k \in 1 .. Len(calls') : calls'[k] = calls[k]
  BY <1>1, <1>2, <1>4, ReturnStacked
<1>7. CASE Len(calls) = 1
  <2>1. e.ra = Exited
    BY <1>1, <1>2, <1>7 DEF Stacked
  <2>2. calls' = <<>>
    BY <1>6, <1>7, EmptySeq
  <2>3. Typed'
    BY <1>1, <1>4, <1>5, <1>6, <2>1 DEF Typed
  <2>4. Current'
    BY <1>4, <2>1, <2>2 DEF Current, Running, Exited, Cut
  <2> QED
    BY <1>5, <1>6, <2>3, <2>4 DEF IInv
<1>8. CASE Len(calls) # 1
  <2>1. PICK m \in Nat : m + 1 = Len(calls) /\ m >= 1
    <3>1. PICK n \in Nat : n = Len(calls) /\ n # 0 /\ n # 1
      BY <1>2, <1>8
    <3>2. n - 1 \in Nat /\ (n - 1) + 1 = n /\ n - 1 >= 1
      BY <3>1
    <3> QED
      BY <3>1, <3>2
  <2>2. PICK d \in Frame : d = calls[m]
    <3>1. m \in 1 .. Len(calls)
      BY <2>1
    <3> QED
      BY <1>1, <3>1, Entries
  <2>3. Suspended(d, e)
    <3>1. m \in 1 .. Len(calls) - 1
      BY <2>1
    <3> QED
      BY <1>1, <1>2, <2>1, <2>2, <3>1 DEF Stacked
  <2>4. calls'[Len(calls')] = d /\ Len(calls') # 0
    BY <1>6, <2>1, <2>2
  <2>5. calls' # <<>>
    BY <1>6, <2>4, EmptySeq
  <2>6. PICK w : w = Exe.view[e.ra]
    OBVIOUS
  <2>7. /\ e.ra \in 1 .. Len(Exe.text)
        /\ w.saved = Kept /\ w.held = {}
        /\ e.sp = d.sp - w.sp /\ e.fp = d.sp - w.fp
        /\ d.frame = Exe.frames[w.fn] /\ Intact(d, Kept)
    BY <2>3, <2>6 DEF Suspended
  <2>8. Intact(d, w.saved)'
    BY <1>4, <2>7 DEF Intact
  <2>9. Matches(d, w)'
    BY <1>3, <1>4, <1>5, <2>7, <2>8 DEF Matches
  <2>10. Exe'.view[pc'] = w /\ pc' \notin {Exited, Cut}
    BY <1>4, <1>5, <2>6, <2>7 DEF Exited, Cut
  <2>11. Current'
    BY <2>4, <2>5, <2>9, <2>10, CurrentAfter
  <2>12. Typed'
    BY <1>1, <1>4, <1>5, <1>6, <2>7 DEF Typed
  <2> QED
    BY <1>5, <1>6, <2>11, <2>12 DEF IInv
<1> QED
  BY <1>7, <1>8

-----------------------------------------------------------------------------
(* The invariant                                                           *)

LEMMA InitEstablishes ==
  ASSUME Init, CodeVerified
  PROVE  IInv
<1>1. program \in 1 .. Len(Executables) /\ Boots(Exe)
  BY DEF Init, Exe
<1>2. /\ pc = Exe.at[<<"fn", "main">>] /\ mem = Exe.image
      /\ tape = <<>> /\ trace = <<>> /\ calls = <<Entry(Exe, "main", regs)>>
      /\ regs = [r \in Registers |->
                   CASE r = "zero" -> 0
                     [] r = "sp" -> StackTop
                     [] r = "fp" -> CallerFrame
                     [] r = "ra" -> Exited
                     [] OTHER -> Junk]
  BY <1>1 DEF Boots
<1>3. /\ Verified(Exe)
      /\ \A b \in DOMAIN mem : b \in Int /\ mem[b] \in Cell
  BY <1>2 DEF CodeVerified
<1>4. /\ "main" \in DOMAIN Exe.frames /\ Exe.frames["main"] \in Int
      /\ pc \in 1 .. Len(Exe.text) /\ Exe.view[pc] = EntryView("main")
  BY <1>2, <1>3 DEF Verified
<1>5. /\ regs["sp"] = StackTop /\ regs["fp"] = CallerFrame /\ regs["ra"] = Exited
      /\ regs \in [Registers -> Int \cup {Junk}]
  BY <1>2 DEF Registers, StackTop, CallerFrame, Exited
<1> DEFINE e == Entry(Exe, "main", regs)
<1>6. /\ e.sp = StackTop /\ e.fp = CallerFrame /\ e.ra = Exited
      /\ e.frame = Exe.frames["main"] /\ e \in Frame
  BY <1>4, <1>5 DEF Entry, Frame, StackTop, CallerFrame, Exited
<1> HIDE DEF e
<1>7. calls = <<e>> /\ calls \in Seq(Frame) /\ Len(calls) = 1 /\ calls[1] = e
  BY <1>2, <1>6 DEF e
<1>8. Typed
  <2>1. tape \in Seq(Values) /\ trace = [m \in 1 .. Len(tape) |-> trace[m]]
    BY <1>2
  <2> QED
    BY <1>1, <1>3, <1>4, <1>5, <1>7, <2>1 DEF Typed
<1>9. Stacked
  BY <1>6, <1>7 DEF Stacked
<1>10. Current
  <2>1. Matches(e, EntryView("main"))
    BY <1>5, <1>6 DEF Matches, EntryView, Intact, Kept, StackTop
  <2> QED
    BY <1>4, <1>7, <2>1 DEF Current, Exited, Cut
<1> QED
  BY <1>3, <1>8, <1>9, <1>10 DEF IInv

LEMMA NextKeeps ==
  ASSUME IInv, StoresSpareFrames, [Next]_vars
  PROVE  IInv'
<1>1. CASE UNCHANGED vars
  <2>1. UNCHANGED <<program, pc, regs, mem, tape, trace, calls>>
    BY <1>1 DEF vars
  <2>2. Typed /\ Verified(Exe) /\ Stacked /\ Current
    BY DEF IInv
  <2>3. Exe' = Exe /\ Verified(Exe)'
    BY <2>1, <2>2 DEF Exe
  <2>4. Typed'
    BY <2>1, <2>2, <2>3 DEF Typed
  <2>5. Stacked'
    BY <2>1, <2>2, StackedStays
  <2>6. Current'
    BY <2>1, <2>2, <2>3 DEF Current, Running, Matches, Intact
  <2> QED
    BY <2>3, <2>4, <2>5, <2>6 DEF IInv
<1>2. CASE Next
  BY <1>2, ComputeKeeps, StoreKeeps, BranchKeeps, CallInternalKeeps,
     CallExternalKeeps, TapeEndsKeeps, RetKeeps DEF Next
<1> QED
  BY <1>1, <1>2

(* The invariant holds in every run of code that keeps the discipline and  *)
(* whose pointers spare the frames.                                        *)
LEMMA Invariance ==
  Spec /\ []CodeVerified /\ []StoresSpareFrames => []IInv
<1>1. Init /\ CodeVerified => IInv
  BY InitEstablishes
<1>2. IInv /\ StoresSpareFrames /\ [Next]_vars => IInv'
  BY NextKeeps
<1> QED
  BY <1>1, <1>2, PTL DEF Spec

-----------------------------------------------------------------------------
(* What the invariant says                                                 *)

(* The values of the hart have their types: no instruction reads an        *)
(* operand it does not have, and nothing but numbers is computed.          *)
THEOREM RunTyped ==
  Spec /\ []CodeVerified /\ []StoresSpareFrames => []TypeOK
<1>1. IInv => TypeOK
  <2> SUFFICES ASSUME Typed PROVE TypeOK
    BY DEF IInv
  <2>1. Len(tape) \in Nat /\ trace = [m \in 1 .. Len(tape) |-> trace[m]]
    BY LenProperties DEF Typed
  <2>2. Len(trace) = Len(tape)
    BY <2>1
  <2> QED
    BY <2>2 DEF Typed, TypeOK
<1> QED
  BY <1>1, Invariance, PTL

(* Every return finds sp, fp and ra as its caller left them, in every run  *)
(* and at every depth of calls (codegen_prologue, codegen_epilogue).       *)
THEOREM RunReturnsBalanced ==
  Spec /\ []CodeVerified /\ []StoresSpareFrames => []ReturnsBalanced
<1>1. IInv => ReturnsBalanced
  <2> SUFFICES ASSUME IInv, Executing(Exe, {"ret"})
               PROVE  /\ regs["sp"] = Last(calls).sp
                      /\ regs["fp"] = Last(calls).fp
                      /\ regs["ra"] = Last(calls).ra
    BY DEF ReturnsBalanced
  <2>1. Typed /\ Verified(Exe) /\ Running /\ Instr(Exe).op = "ret" /\ calls # <<>>
    BY DEF Executing, IInv, Current
  <2>2. PICK e \in Frame, v \in View(Exe), at \in {Instr(Exe)} :
           /\ e = calls[Len(calls)] /\ v = Exe.view[pc] /\ Matches(e, v)
           /\ Keeps(v, at)
    BY <2>1, Before
  <2>3. v.sp = 0 /\ v.held = Kept /\ e.sp \in Int
    BY <2>1, <2>2 DEF Keeps, Frame
  <2>4. regs["sp"] = e.sp /\ regs["fp"] = e.fp /\ regs["ra"] = e.ra
    BY <2>2, <2>3 DEF Matches, Kept
  <2> QED
    BY <2>1, <2>2, <2>4, LastEntry
<1> QED
  BY <1>1, Invariance, PTL

(* A statement that can be jumped to begins with nothing on the stack but  *)
(* the frame, whatever way led there.                                      *)
THEOREM RunStatementsBalanced ==
  Spec /\ []CodeVerified /\ []StoresSpareFrames => []StatementsBalanced
<1>1. IInv => StatementsBalanced
  <2> SUFFICES ASSUME IInv, Running, IsStatementLabel(Instr(Exe))
               PROVE  regs["sp"] = Last(calls).sp - Last(calls).frame
    BY DEF StatementsBalanced
  <2>1. Typed /\ Verified(Exe) /\ calls # <<>>
    BY DEF IInv, Current
  <2>2. PICK e \in Frame, v \in View(Exe) :
           e = calls[Len(calls)] /\ v = Exe.view[pc] /\ Matches(e, v)
    BY Before
  <2>3. Follows(Exe, pc)
    BY <2>1, CodeAt
  <2>4. v.sp = Exe.frames[v.fn]
    BY <2>2, <2>3 DEF Follows, Instr
  <2> QED
    BY <2>1, <2>2, <2>4, LastEntry DEF Matches
<1> QED
  BY <1>1, Invariance, PTL

(* What the prologue saved of each active function can be read back, the   *)
(* functions that have made a call and the one that is running alike.      *)
THEOREM RunSavedRegistersIntact ==
  Spec /\ []CodeVerified /\ []StoresSpareFrames => []SavedRegistersIntact
<1>1. IInv => SavedRegistersIntact
  <2> SUFFICES ASSUME IInv, NEW k \in 1 .. Len(calls),
                      k < Len(calls) \/ regs["sp"] <= calls[k].sp - calls[k].frame
               PROVE  /\ Loaded(calls[k].sp - 8, 8) = calls[k].ra
                      /\ Loaded(calls[k].sp - 16, 8) = calls[k].fp
    BY DEF SavedRegistersIntact
  <2>1. Typed /\ Verified(Exe) /\ Stacked /\ Current
    BY DEF IInv
  <2>2. PICK d \in Frame : d = calls[k]
    BY <2>1, Entries
  <2>3. Intact(d, Kept)
    <3>1. CASE k < Len(calls)
      <4>1. k \in 1 .. Len(calls) - 1
        BY <2>1, <3>1, Entries
      <4> QED
        BY <2>1, <2>2, <4>1 DEF Stacked, Suspended
    <3>2. CASE ~ (k < Len(calls))
      <4>1. k = Len(calls)
        BY <2>1, <3>2, Entries
      <4>2. calls # <<>>
        BY <4>1
      <4>3. CASE Running
        <5>1. PICK e \in Frame, v \in View(Exe) :
                e = calls[Len(calls)] /\ v = Exe.view[pc] /\ Matches(e, v)
          BY <4>3, Before
        <5>2. e = d /\ d.frame \in Int /\ d.sp \in Int /\ v.sp \in Int
          BY <2>2, <4>1, <5>1 DEF Frame, View
        <5>3. v.sp >= Exe.frames[v.fn]
          BY <2>2, <3>2, <5>1, <5>2 DEF Matches
        <5>4. Follows(Exe, pc)
          BY <2>1, <4>3, CodeAt
        <5>5. v.saved = Kept
          BY <5>1, <5>3, <5>4 DEF Follows
        <5> QED
          BY <5>1, <5>2, <5>5 DEF Matches
      <4>4. CASE ~ Running
        BY <2>1, <2>2, <4>1, <4>2, <4>4 DEF Current, Typed, Running, Exited, Cut
      <4> QED
        BY <4>3, <4>4
    <3> QED
      BY <3>1, <3>2
  <2>4. /\ Loaded(d.sp - SaveSlot["ra"], 8) = d["ra"]
        /\ Loaded(d.sp - SaveSlot["fp"], 8) = d["fp"]
    BY <2>3, LoadedSaved DEF Kept
  <2> QED
    BY <2>2, <2>4 DEF SaveSlot
<1> QED
  BY <1>1, Invariance, PTL
=============================================================================
