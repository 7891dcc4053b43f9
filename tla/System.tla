------------------------------- MODULE System -------------------------------
(***************************************************************************)
(* The memory of a Varvara machine, its System device and how a ROM gets   *)
(* into it (devices/system.c, uxn.h).                                      *)
(*                                                                         *)
(* A machine is a record: the memory, the ports, the two stacks, and the   *)
(* program counter of the vector that is evaluated.  Numbers keep their    *)
(* width, with a byte of B values: 0x100 in the code, fewer in a run.  The *)
(* ports are those of the System device and the index of local storage;    *)
(* the rest of them only keep what is written.                             *)
(***************************************************************************)
EXTENDS Integers, Sequences, SequencesExt

CONSTANTS
  B,                \* the values of a byte
  BANKS             \* the banks of memory, 0x10 in the code

ASSUME ByteAssumption  == B \in Nat /\ B >= 16
ASSUME BanksAssumption == BANKS \in Nat /\ BANKS >= 2

PAGE_SIZE    == B * B
PAGE_PROGRAM == B
Byte   == 0 .. B - 1
Short  == 0 .. PAGE_SIZE - 1
Memory == 0 .. PAGE_SIZE * BANKS - 1

\* Ports of the System device, the Console's 0x17, and 0xDA.
Type      == 7
Expansion == 3
Wst       == 4
Rst       == 5
Local     == 13

\* (Sint8)v
Signed(v) == IF v >= B \div 2 THEN v - B ELSE v

Hi(v) == (v \div B) % B
Lo(v) == v % B
Peek2(d, a) == d[a] * B + d[a + 1]

Stack == [dat : [Byte -> Byte], ptr : Byte]
EmptyStack == [dat |-> [i \in Byte |-> 0], ptr |-> 0]
Machine == [ram : [Memory -> Byte], dev : [Byte -> Byte], wst : Stack, rst : Stack, pc : Short]

-----------------------------------------------------------------------------
(* The expansion port: fill, copy from the left, copy from the right.      *)

\* A command at address e of bank 0: its code, its length, its source (or what it
\* fills) and its destination.
At(ram, e) ==
  [op |-> ram[e], length |-> Peek2(ram, e + 1), bank |-> Peek2(ram, e + 3),
   addr |-> Peek2(ram, e + 5), value |-> ram[e + 7],
   dstBank |-> Peek2(ram, e + 7), dst |-> Peek2(ram, e + 9)]

\* The j-th byte from address a of a bank: the address wraps, the bank does not.
InBank(bank, a, j) == bank * PAGE_SIZE + ((a + j) % PAGE_SIZE)

Fill(ram, c) ==
  IF c.bank >= BANKS THEN ram
  ELSE [x \in Memory |->
          IF x \div PAGE_SIZE = c.bank /\ (x - c.addr) % PAGE_SIZE < c.length
          THEN c.value ELSE ram[x]]

\* Mutant: both copies go from the left.
Copy_Left(ram, c, order) ==
  IF c.bank >= BANKS \/ c.dstBank >= BANKS THEN ram
  ELSE FoldLeft(LAMBDA r, j : [r EXCEPT ![InBank(c.dstBank, c.dst, j)] = r[InBank(c.bank, c.addr, j)]],
                ram, [j \in 1 .. c.length |-> j - 1])

\* One byte after the other, in the order given.
Copy(ram, c, order) ==
  IF c.bank >= BANKS \/ c.dstBank >= BANKS THEN ram
  ELSE FoldLeft(LAMBDA r, j : [r EXCEPT ![InBank(c.dstBank, c.dst, j)] = r[InBank(c.bank, c.addr, j)]],
                ram, order)

\* system_expansion.
Expanded(ram, e) ==
  LET c  == At(ram, e)
      up == [j \in 1 .. c.length |-> j - 1]
  IN CASE c.op = 0 -> Fill(ram, c)
       [] c.op = 1 -> Copy(ram, c, up)
       [] c.op = 2 -> Copy(ram, c, Reverse(up))
       [] OTHER    -> ram

-----------------------------------------------------------------------------
(* emu_dei and emu_deo, as far as they concern this device.                *)

Dei(m, port) ==
  CASE port = Wst -> m.wst.ptr
    [] port = Rst -> m.rst.ptr
    [] OTHER      -> m.dev[port]

Deo(m, port, v) ==
  LET n == [m EXCEPT !.dev[port] = v]
  IN CASE port = Expansion -> [n EXCEPT !.ram = Expanded(@, Peek2(n.dev, Expansion - 1))]
       [] port = Wst       -> [n EXCEPT !.wst.ptr = v]
       [] port = Rst       -> [n EXCEPT !.rst.ptr = v]
       [] OTHER            -> n

-----------------------------------------------------------------------------
(* Booting.                                                                *)

\* system_load: the file from PAGE_PROGRAM on, through all the banks.
Load(ram, rom) ==
  [a \in Memory |-> IF a - PAGE_PROGRAM \in 0 .. Len(rom) - 1
                    THEN rom[a - PAGE_PROGRAM + 1] ELSE ram[a]]

\* What calloc and the static storage hold.
Blank == [ram |-> [a \in Memory |-> 0], dev |-> [p \in Byte |-> 0],
          wst |-> EmptyStack, rst |-> EmptyStack, pc |-> 0]

\* system_boot: the ROM is told whether it has arguments.
Booted(m, rom, args) ==
  [m EXCEPT !.ram = Load(@, rom), !.pc = PAGE_PROGRAM, !.dev[Type] = IF args THEN 1 ELSE 0]

\* Mutant: the stacks stay.
Rebooted_KeepsStacks(m, soft, rom) ==
  Booted([m EXCEPT !.dev = Blank.dev,
                   !.ram = [a \in Memory |-> IF a < PAGE_SIZE /\ (soft => a >= PAGE_PROGRAM)
                                             THEN 0 ELSE @[a]]], rom, FALSE)

\* system_reboot clears the ports and bank 0, but for the zero page if it is soft.
Rebooted(m, soft, rom) ==
  Booted([m EXCEPT !.dev = Blank.dev,
                   !.ram = [a \in Memory |-> IF a < PAGE_SIZE /\ (soft => a >= PAGE_PROGRAM)
                                             THEN 0 ELSE @[a]],
                   !.wst.ptr = 0, !.rst.ptr = 0], rom, FALSE)
=============================================================================
