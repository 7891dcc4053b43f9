-------------------------------- MODULE Uxn --------------------------------
(***************************************************************************)
(* The core (uxn.c): one turn of uxn_eval's loop.  An instruction is an    *)
(* opcode with its three modes: s works on shorts, r on the return stack,  *)
(* k keeps the operands.                                                   *)
(*                                                                         *)
(* The macros take an instruction's operands from the stack one byte after *)
(* the other and put its results there; here an instruction names the      *)
(* number of bytes it takes and the bytes it puts.                         *)
(***************************************************************************)
EXTENDS System, FiniteSetsExt

CONSTANT NIBBLE     \* B is its square: 0x10 in the code, and no more: a short has 16 bits

ASSUME NibbleAssumption == NIBBLE \in 1 .. 16 /\ B = NIBBLE * NIBBLE /\ B % 8 = 0

\* The opcodes that read what follows them, and the others in the order of their codes.
Immediate == {"BRK", "JCI", "JMI", "JSI", "LIT"}
Ops == <<"INC", "POP", "NIP", "SWP", "ROT", "DUP", "OVR", "EQU", "NEQ", "GTH", "LTH", "JMP",
         "JCN", "JSR", "STH", "LDZ", "STZ", "LDR", "STR", "LDA", "STA", "DEI", "DEO", "ADD",
         "SUB", "MUL", "DIV", "AND", "ORA", "EOR", "SFT">>
Compares == {"EQU", "NEQ", "GTH", "LTH"}
Sums     == {"ADD", "SUB", "MUL", "DIV", "AND", "ORA", "EOR"}

\* The instructions a byte may stand for.  Its first three bits are the modes k, r and s;
\* the others number the opcode, and where the byte is too narrow for 32 of them several
\* share a number.
Decode(byte) ==
  LET width == B \div 8
      mode  == byte \div width
      low   == byte % width
      As(op) == [op |-> op, s |-> mode % 2 = 1, r |-> (mode \div 2) % 2 = 1, k |-> mode >= 4]
  IN IF low # 0
     THEN {As(Ops[n]) : n \in {n \in DOMAIN Ops : (n - low) % (width - 1) = 0}}
     ELSE {As(IF mode >= 4 THEN "LIT" ELSE <<"BRK", "JCI", "JMI", "JSI">>[mode + 1])}

\* The other stack.
Own(i)   == IF i.r THEN "rst" ELSE "wst"
Other(i) == IF i.r THEN "wst" ELSE "rst"

Size(i) == IF i.s THEN 2 ELSE 1

\* The bits of two shorts, one by one.
BitByBit(And(_, _), x, y) ==
  MapThenSumSet(LAMBDA b : IF And((x \div 2^b) % 2 = 1, (y \div 2^b) % 2 = 1) THEN 2^b ELSE 0,
                {b \in 0 .. 15 : 2^b < PAGE_SIZE})

Bool(p) == IF p THEN 1 ELSE 0

\* PUx: a value as the bytes that are put, the first one first.
Bytes(i, v) == IF i.s THEN <<Hi(v), Lo(v)>> ELSE <<Lo(v)>>

\* The byte d below the top of the stack, and the item of n bytes from there.
Below(st, d) == st.dat[(st.ptr - 1 - d) % B]

\* Mutant: the bytes of a short are taken in the order they were put.
Item_Swapped(st, d, n) == IF n = 2 THEN Below(st, d) * B + Below(st, d + 1) ELSE Below(st, d)

Item(st, d, n) == IF n = 2 THEN Below(st, d + 1) * B + Below(st, d) ELSE Below(st, d)

\* Bytes put on a stack.
Put(st, bytes) ==
  [dat |-> [a \in Byte |-> LET j == (a - st.ptr) % B
                           IN IF j < Len(bytes) THEN bytes[j + 1] ELSE st.dat[a]],
   ptr |-> (st.ptr + Len(bytes)) % B]

\* Mutant: the second byte wraps within the first bank.
Pok_FirstBank(m, a, bytes, w) ==
  LET one == [m EXCEPT !.ram[a] = bytes[1]]
  IN IF Len(bytes) = 2 THEN [one EXCEPT !.ram[(a + 1) % PAGE_SIZE] = bytes[2]] ELSE one

\* PEK and POK with the item's n bytes at address a, the second one at (a + 1) % w.
Pek(m, a, n, w) == IF n = 2 THEN <<m.ram[a], m.ram[(a + 1) % w]>> ELSE <<m.ram[a]>>
Pok(m, a, bytes, w) ==
  LET one == [m EXCEPT !.ram[a] = bytes[1]]
  IN IF Len(bytes) = 2 THEN [one EXCEPT !.ram[(a + 1) % w] = bytes[2]] ELSE one

\* The address of a zero-page or absolute access lies in the bank of the local storage,
\* and its second byte in the next one when the first is the last.
InLocal(m, a) == a + m.dev[Local] * PAGE_SIZE
ALL == PAGE_SIZE * BANKS

\* DEI and DEO of one or two ports.
Ports(i, port) == IF i.s THEN <<port, (port + 1) % B>> ELSE <<port>>
DeiAll(m, i, port) == [j \in DOMAIN Ports(i, port) |-> Dei(m, Ports(i, port)[j])]
DeoAll(m, i, port, bytes) ==
  IF i.s THEN Deo(Deo(m, port, bytes[1]), (port + 1) % B, bytes[2]) ELSE Deo(m, port, bytes[1])

-----------------------------------------------------------------------------
(* The operands, by depth: x is the top item, y and z are the next ones.   *)

\* How many bytes an instruction takes.
Takes(i) ==
  LET n == Size(i) IN
  CASE i.op \in {"INC", "POP", "DUP", "JMP", "JSR", "STH"} -> n
    [] i.op \in {"NIP", "SWP", "OVR"} \cup Compares \cup Sums -> 2 * n
    [] i.op = "ROT" -> 3 * n
    [] i.op \in {"JCN", "STZ", "STR", "DEO", "SFT"} -> n + 1
    [] i.op \in {"LDZ", "LDR", "DEI"} -> 1
    [] i.op = "LDA" -> 2
    [] OTHER        -> n + 2     \* STA

\* JMP: relative to the program counter in byte mode.
Jump(i, pc, x) == IF i.s THEN x ELSE (pc + Signed(x)) % PAGE_SIZE

Result(op, y, x) ==
  CASE op = "EQU" -> Bool(y = x)
    [] op = "NEQ" -> Bool(y # x)
    [] op = "GTH" -> Bool(y > x)
    [] op = "LTH" -> Bool(y < x)
    [] op = "ADD" -> y + x
    [] op = "SUB" -> (y - x) % PAGE_SIZE
    [] op = "MUL" -> y * x
    [] op = "DIV" -> IF x = 0 THEN 0 ELSE y \div x
    [] op = "AND" -> BitByBit(LAMBDA p, q : p /\ q, y, x)
    [] op = "ORA" -> BitByBit(LAMBDA p, q : p \/ q, y, x)
    [] OTHER      -> BitByBit(LAMBDA p, q : p # q, y, x)     \* EOR

\* b >> (a & 0xf) << (a >> 4)
Shifted(b, a) == (b \div 2^(a % NIBBLE)) * 2^(a \div NIBBLE)

\* The bytes instruction i puts on its stack; taken is the machine without the
\* operands, which a DEI reads the ports of.
Puts(i, m, taken) ==
  LET n  == Size(i)
      st == m[Own(i)]
      V(j) == Bytes(i, Item(st, (j - 1) * n, n))
      x  == Item(st, 0, n)
      y  == Item(st, n, n)
      a  == Below(st, 0)
  IN CASE i.op = "INC" -> Bytes(i, x + 1)
       [] i.op = "NIP" -> V(1)
       [] i.op = "SWP" -> V(1) \o V(2)
       [] i.op = "ROT" -> V(2) \o V(1) \o V(3)
       [] i.op = "DUP" -> V(1) \o V(1)
       [] i.op = "OVR" -> V(2) \o V(1) \o V(2)
       [] i.op \in Compares -> <<Result(i.op, y, x)>>
       [] i.op \in Sums -> Bytes(i, Result(i.op, y, x))
       [] i.op = "SFT" -> Bytes(i, Shifted(Item(st, 1, n), a))
       [] i.op = "LDZ" -> Pek(m, InLocal(m, a), n, ALL)
       [] i.op = "LDR" -> Pek(m, m.pc + Signed(a), n, PAGE_SIZE)
       [] i.op = "LDA" -> Pek(m, InLocal(m, Item(st, 0, 2)), n, ALL)
       [] i.op = "DEI" -> DeiAll(taken, i, a)
       [] OTHER        -> <<>>

\* RP1: what an instruction puts on the other stack.
PutsOther(i, m) ==
  CASE i.op = "STH" -> Bytes(i, Item(m[Own(i)], 0, Size(i)))
    [] i.op = "JSR" -> <<Hi(m.pc), Lo(m.pc)>>
    [] OTHER        -> <<>>

\* Where it goes on.
Goes(i, m) ==
  LET x == Item(m[Own(i)], 0, Size(i))
  IN IF i.op \in {"JMP", "JSR"} \/ (i.op = "JCN" /\ Below(m[Own(i)], Size(i)) # 0)
     THEN Jump(i, m.pc, x) ELSE m.pc

\* The memory and the ports after it.
Stores(i, m, taken) ==
  LET n  == Size(i)
      st == m[Own(i)]
      a  == Below(st, 0)
      y  == Bytes(i, Item(st, 1, n))
  IN CASE i.op = "STZ" -> Pok(taken, InLocal(m, a), y, ALL)
       [] i.op = "STR" -> Pok(taken, m.pc + Signed(a), y, PAGE_SIZE)
       [] i.op = "STA" -> Pok(taken, InLocal(m, Item(st, 0, 2)), Bytes(i, Item(st, 2, n)), ALL)
       [] i.op = "DEO" -> DeoAll(taken, i, a, y)
       [] OTHER        -> taken

\* The machine without the operands of i: k puts the pointer back.
Taken(m, i) == IF i.k THEN m ELSE [m EXCEPT ![Own(i)].ptr = (@ - Takes(i)) % B]

\* m.pc is behind the opcode already.
Operate(m, i) ==
  LET taken == Taken(m, i)
      puts  == Puts(i, m, taken)
      done  == [Stores(i, m, taken) EXCEPT !.pc = Goes(i, m)]
      own   == [done EXCEPT ![Own(i)] = Put(@, puts)]
  IN [own EXCEPT ![Other(i)] = Put(@, PutsOther(i, m))]

-----------------------------------------------------------------------------
(* The instructions with an operand in the memory, and the loop.           *)

\* JMI: a jump relative to what follows the operand.
JumpImmediate(m) == [m EXCEPT !.pc = (@ + Peek2(m.ram, @) + 2) % PAGE_SIZE]

Skip(m, n) == [m EXCEPT !.pc = (@ + n) % PAGE_SIZE]

Step(m, i) ==
  LET n == Skip(m, 1)
  IN CASE i.op = "BRK" -> n
       [] i.op = "JMI" -> JumpImmediate(n)
       [] i.op = "JCI" -> LET t == [n EXCEPT !.wst.ptr = (@ - 1) % B]
                          IN IF Below(n.wst, 0) # 0 THEN JumpImmediate(t) ELSE Skip(t, 2)
       [] i.op = "JSI" -> LET c == (n.pc + 2) % PAGE_SIZE
                          IN JumpImmediate([n EXCEPT !.rst = Put(@, <<Hi(c), Lo(c)>>)])
       [] i.op = "LIT" -> LET v == [j \in 1 .. Size(i) |-> n.ram[(n.pc + j - 1) % PAGE_SIZE]]
                          IN [Skip(n, Size(i)) EXCEPT ![Own(i)] = Put(@, v)]
       [] OTHER        -> Operate(n, i)
=============================================================================
