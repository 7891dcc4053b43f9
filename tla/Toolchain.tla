------------------------------ MODULE Toolchain ------------------------------
(***************************************************************************)
(* From a source to what runs: the assembler writes a ROM, the machine     *)
(* boots it, the core evaluates it, and the emulator may restart it        *)
(* (uxnasm.c; system_boot and system_reboot; uxn_eval).  What one of them  *)
(* writes the next one must read in the same way.                          *)
(*                                                                         *)
(* A run also starts with machines no short source leads to: deep stacks,  *)
(* accesses at the edges of a page, local storage, overlapping copies.     *)
(***************************************************************************)
EXTENDS Assembler, UxnTnl

CONSTANTS
  Machines,         \* the machines a run starts with
  MaxSteps          \* bound: the instructions of a ROM that are evaluated; a machine that
                    \* is given only has to obey the laws of the core

ASSUME MachinesAssumption == Machines \subseteq Machine

VARIABLES
  m,                \* the machine
  mode,             \* "off", "run" or "stopped"
  steps,
  restarted

machine == <<m, mode, steps, restarted>>
vars    == <<asm, machine>>

Init ==
  /\ AsmInit
  /\ steps = 0 /\ restarted = FALSE
  /\ IF todo = <<>> THEN m \in Machines /\ mode = "run"
     ELSE m = Blank /\ mode = "off"

\* The command line: uxnasm, then uxnemu.
Assemble == mode = "off" /\ AsmNext /\ UNCHANGED machine

Boot ==
  /\ mode = "off" /\ phase = "built"
  /\ \E args \in BOOLEAN : m' = Booted(m, rom, args)
  /\ mode' = "run"
  /\ UNCHANGED <<asm, steps, restarted>>

\* The machine behind the opcode.
Before == Skip(m, 1)

\* Code in the first half of the zero page may reach behind the memory's start, and an index
\* of local storage beyond the last bank behind its end, which is undefined in uxn.c: such
\* steps are left out.
Defined(i) ==
  LET st == m[Own(i)]
  IN CASE i.op \in {"LDR", "STR"} -> Before.pc + Signed(Below(st, 0)) >= 0
       [] i.op \in {"LDZ", "STZ", "LDA", "STA"} -> m.dev[Local] < BANKS
       [] OTHER -> TRUE

Instructions == {i \in Decode(m.ram[m.pc]) : Defined(i)}

\* One turn of uxn_eval's loop.
Eval ==
  /\ mode = "run" /\ phase = "built" /\ steps < MaxSteps
  /\ \E i \in Instructions :
       /\ m' = Step(m, i)
       /\ mode' = IF i.op = "BRK" THEN "stopped" ELSE "run"
  /\ steps' = steps + 1
  /\ UNCHANGED <<asm, restarted>>

\* emu_restart, between two vectors.
Restart(soft) ==
  /\ mode = "stopped" /\ phase = "built" /\ ~restarted
  /\ m' = Rebooted(m, soft, rom)
  /\ mode' = "run"
  /\ restarted' = TRUE
  /\ UNCHANGED <<asm, steps>>

Next == Assemble \/ Boot \/ Eval \/ \E soft \in BOOLEAN : Restart(soft)

Spec == Init /\ [][Next]_vars

-----------------------------------------------------------------------------
(* Properties of the whole chain.                                          *)

\* Whether it boots or restarts, the core starts with the image the assembler laid out,
\* every byte at the address its labels were given, and with nothing of a run before but
\* the zero page, if the restart is soft, the other banks and what lies above the tops of
\* the stacks (build, system_boot, system_reboot).
StartsFresh ==
  [][mode # "run" /\ mode' = "run" =>
       /\ m'.pc = PAGE_PROGRAM /\ m'.wst.ptr = 0 /\ m'.rst.ptr = 0
       /\ \A a \in Short : a >= PAGE_PROGRAM => m'.ram[a] = data[a]
       /\ \/ \A a \in Short : a < PAGE_PROGRAM => m'.ram[a] = 0
          \/ mode = "stopped" /\ \A a \in Short : a < PAGE_PROGRAM => m'.ram[a] = m.ram[a]
       /\ \A p \in Byte : m'.dev[p] # 0 => p = Type /\ mode = "off"]_vars

\* What the core does with a reference of the ROM, at its opcode (or, for a byte that is
\* not a literal, when it is taken as a jump's operand): it arrives at the label, or has
\* the label's address on the stack.
At_(a) == [m EXCEPT !.pc = a]
Does(op, s, n) == Step(n, [op |-> op, s |-> s, r |-> FALSE, k |-> FALSE])
Jumped(s, n) == Operate(Skip(n, 1), [op |-> "JMP", s |-> s, r |-> FALSE, k |-> FALSE]).pc

Links(r) ==
  LET l == Label(r).addr
      n == At_(r.addr - 1)
      Pushed(bytes) == [n EXCEPT !.pc = r.addr + Len(bytes), !.wst = Put(@, bytes)]
  IN CASE r.rune = "!" -> Does("JMI", FALSE, n).pc = l
       [] r.rune = "?" -> \A c \in Byte :
                            Does("JCI", FALSE, [n EXCEPT !.wst = Put(@, <<c>>)]).pc =
                              IF c # 0 THEN l ELSE (r.addr + 2) % PAGE_SIZE
       [] r.rune = " " -> LET t == Does("JSI", FALSE, n)
                          IN t.pc = l /\ Item(t.rst, 0, 2) = (r.addr + 2) % PAGE_SIZE
       [] r.rune = "," -> Jumped(FALSE, Does("LIT", FALSE, n)) = l
       [] r.rune = "_" -> Jumped(FALSE, Pushed(<<m.ram[r.addr]>>)) = l
       [] r.rune = ";" -> Jumped(TRUE, Does("LIT", TRUE, n)) = l
       [] r.rune = "=" -> Peek2(m.ram, r.addr) = l
       [] r.rune = "." -> Below(Does("LIT", FALSE, n).wst, 0) = Lo(l)
       [] OTHER        -> m.ram[r.addr] = Lo(l)     \* "-"

\* Every reference of a ROM that was written leads the core to its label: a relative byte
\* that does not reach is refused (resolve, uxn_eval).
Linked ==
  mode = "run" /\ phase = "built" /\ steps = 0 /\ ~restarted =>
    \A i \in DOMAIN refs : Links(refs[i])

-----------------------------------------------------------------------------
(* Properties of the core, of every instruction it may be at.              *)
\* A machine as uxn-tnl.c keeps it: a stack's pointer is at the top byte.
ShiftedDown(st) == [st EXCEPT !.dat = [a \in Byte |-> st.dat[(a + 1) % B]]]
ShiftedUp(st)   == [st EXCEPT !.dat = [a \in Byte |-> st.dat[(a - 1) % B]]]
AsTnl(n)   == [n EXCEPT !.wst = ShiftedUp(@), !.rst = ShiftedUp(@)]
FromTnl(n) == [n EXCEPT !.wst = ShiftedDown(@), !.rst = ShiftedDown(@)]

\* Where the two cores part: the local storage only uxn.c has, the second byte of a short
\* at the end of the zero page or of the memory, an access that leaves the memory, and a DEI
\* of the pointer of the stack it works on.
Parts(i) ==
  LET st == m[Own(i)]
      a  == Below(st, 0)
      there == Before.pc + Signed(a)
      own   == IF i.r THEN Rst ELSE Wst
  IN \/ i.op \in {"LDZ", "STZ", "LDA", "STA"} /\ m.dev[Local] # 0
     \/ i.op \in {"LDZ", "STZ"} /\ i.s /\ a = B - 1
     \/ i.op \in {"LDA", "STA"} /\ i.s /\ Item(st, 0, 2) = PAGE_SIZE - 1
     \/ i.op \in {"LDR", "STR"} /\ there \notin Short
     \/ i.op = "DEI" /\ (a = own \/ (i.s /\ (a + 1) % B = own))

\* The two cores agree on every other instruction, dead bytes of the stacks included
\* (uxn.c, uxn-tnl.c).
CoresAgree ==
  mode = "run" => \A i \in Instructions : Parts(i) \/ FromTnl(TnlStep(AsTnl(m), i)) = Step(m, i)

\* The machine keeps its widths.  A store by an address stays in the bank of the thread's
\* local storage, but for the second byte of a short at the bank's last address, which is the
\* next bank's first.  A store relative to the code stays in the first bank, but for its first
\* byte where the offset runs over the bank's end: that one goes to the second bank, and the
\* byte after it to the first again (POK, the port 0xDA).
Confined ==
  /\ m \in Machine
  /\ mode = "run" =>
      \A i \in {i \in Instructions : i.op \in {"STZ", "STA", "STR"}} :
        LET bank == IF i.op = "STR" THEN 0 ELSE m.dev[Local]
            over == {a \in Memory : Step(m, i).ram[a] # m.ram[a]}
        IN \A a \in over :
             \/ a \div PAGE_SIZE = bank
             \/ i.op = "STA" /\ i.s /\ Item(m[Own(i)], 0, 2) = PAGE_SIZE - 1
                  /\ a = ((bank + 1) * PAGE_SIZE) % ALL
             \/ i.op = "STR" /\ a >= PAGE_SIZE /\ a = Before.pc + Signed(Below(m[Own(i)], 0))

-----------------------------------------------------------------------------
(* Properties of the expansion port.                                       *)

\* The bytes a command of the expansion port reads, before it writes any.
Source(c, j) == m.ram[InBank(c.bank, c.addr, j)]
Overlaps(c, d) == c.bank = c.dstBank /\ d % PAGE_SIZE \in 1 .. c.length - 1
Safe(c) ==
  \/ c.op = 1 /\ ~Overlaps(c, c.dst - c.addr)
  \/ c.op = 2 /\ ~Overlaps(c, c.addr - c.dst)

\* A copy whose direction suits the overlap moves what was there, all of it, to where it
\* belongs and nothing else, also round the end of a bank; a command for a bank there is
\* not does nothing (system_expansion).
ExpansionMoves ==
  mode = "run" =>
    LET e   == Peek2(m.dev, Expansion - 1)
        c   == At(m.ram, e)
        to  == [j \in 0 .. c.length - 1 |-> InBank(c.dstBank, c.dst, j)]
        ram == Expanded(m.ram, e)
    IN (c.op \in {1, 2}) =>
         IF c.bank >= BANKS \/ c.dstBank >= BANKS THEN ram = m.ram
         ELSE Safe(c) =>
                /\ \A j \in DOMAIN to : ram[to[j]] = Source(c, j)
                /\ \A a \in Memory \ {to[j] : j \in DOMAIN to} : ram[a] = m.ram[a]
=============================================================================
