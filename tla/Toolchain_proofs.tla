-------------------------- MODULE Toolchain_proofs --------------------------
(***************************************************************************)
(* From a source to what runs, proved for every width of a byte with the   *)
(* code's shape, every number of banks and every source: the core starts   *)
(* with the image the assembler laid out and nothing else, every reference *)
(* of a ROM leads the core to its label, stores stay in their bank, and    *)
(* the copies of the expansion port move what was there; and the two cores *)
(* the repository keeps answer every instruction alike, where they do not  *)
(* part.                                                                   *)
(*                                                                         *)
(* The chain's invariant is ChainInv, about the machine, the file and the  *)
(* image, and the assembler's ImageSound, which holds of the chain because *)
(* every step of it is a step of the assembler or leaves its state alone.  *)
(* Before it come the facts about bytes, stacks and memory it rests on.    *)
(* Folds (a copy of many bytes, the bits of two shorts) are unfolded by    *)
(* well-founded induction on the number of their steps.                    *)
(*                                                                         *)
(* The cores' part is a simulation: AsTnl writes a machine as the other    *)
(* core keeps it, its stacks one byte up, and a step there of AsTnl(m) is  *)
(* AsTnl of the step of m (StepSame). An item read at the top is the item  *)
(* popped (Tops), a pointer moved by an instruction's balance is what      *)
(* taking and putting leave (MovedTaken), the bytes put are the bytes      *)
(* written over (Overwritten).                                             *)
(***************************************************************************)
EXTENDS Toolchain, Assembler_proofs, FiniteSetTheorems, WellFoundedInduction

-----------------------------------------------------------------------------
(* Machines.                                                               *)

\* What a machine has.
LEMMA Fields ==
  ASSUME NEW n \in Machine
  PROVE  /\ n.ram \in [Memory -> Byte] /\ n.dev \in [Byte -> Byte]
         /\ n.wst \in Stack /\ n.rst \in Stack /\ n.pc \in Short
BY DEF Machine

\* What a stack has.
LEMMA StackFields ==
  ASSUME NEW st \in Stack
  PROVE  st.dat \in [Byte -> Byte] /\ st.ptr \in Byte
BY DEF Stack

\* A machine with another program counter.
LEMMA SetPc ==
  ASSUME NEW n \in Machine, NEW v \in Short
  PROVE  /\ [n EXCEPT !.pc = v] \in Machine
         /\ [n EXCEPT !.pc = v].pc = v
         /\ [n EXCEPT !.pc = v].ram = n.ram /\ [n EXCEPT !.pc = v].dev = n.dev
         /\ [n EXCEPT !.pc = v].wst = n.wst /\ [n EXCEPT !.pc = v].rst = n.rst
BY DEF Machine

\* A machine with another memory.
LEMMA SetRam ==
  ASSUME NEW n \in Machine, NEW v \in [Memory -> Byte]
  PROVE  /\ [n EXCEPT !.ram = v] \in Machine
         /\ [n EXCEPT !.ram = v].ram = v
         /\ [n EXCEPT !.ram = v].pc = n.pc /\ [n EXCEPT !.ram = v].dev = n.dev
         /\ [n EXCEPT !.ram = v].wst = n.wst /\ [n EXCEPT !.ram = v].rst = n.rst
BY DEF Machine

\* A machine with another stack.
LEMMA SetStack ==
  ASSUME NEW n \in Machine, NEW v \in Stack, NEW f \in {"wst", "rst"}
  PROVE  /\ [n EXCEPT ![f] = v] \in Machine
         /\ [n EXCEPT ![f] = v][f] = v
         /\ [n EXCEPT ![f] = v].ram = n.ram /\ [n EXCEPT ![f] = v].dev = n.dev
         /\ [n EXCEPT ![f] = v].pc = n.pc
         /\ f = "wst" => [n EXCEPT ![f] = v].rst = n.rst
         /\ f = "rst" => [n EXCEPT ![f] = v].wst = n.wst
<1>1. CASE f = "wst"
  BY <1>1 DEF Machine
<1>2. CASE f = "rst"
  BY <1>2 DEF Machine
<1> QED
  BY <1>1, <1>2

\* A port that is written.
LEMMA SetPort ==
  ASSUME NEW n \in Machine, NEW p \in Byte, NEW v \in Byte
  PROVE  /\ [n EXCEPT !.dev[p] = v] \in Machine
         /\ [n EXCEPT !.dev[p] = v].dev = [n.dev EXCEPT ![p] = v]
         /\ [n EXCEPT !.dev[p] = v].ram = n.ram /\ [n EXCEPT !.dev[p] = v].pc = n.pc
         /\ [n EXCEPT !.dev[p] = v].wst = n.wst /\ [n EXCEPT !.dev[p] = v].rst = n.rst
<1>1. [n.dev EXCEPT ![p] = v] \in [Byte -> Byte]
  BY Fields
<1>2. [n EXCEPT !.dev[p] = v] = [n EXCEPT !.dev = [n.dev EXCEPT ![p] = v]]
  BY DEF Machine
<1> QED
  BY <1>1, <1>2 DEF Machine

\* A pointer that is written.
LEMMA SetPtr ==
  ASSUME NEW st \in Stack, NEW v \in Byte
  PROVE  /\ [st EXCEPT !.ptr = v] \in Stack
         /\ [st EXCEPT !.ptr = v].ptr = v /\ [st EXCEPT !.ptr = v].dat = st.dat
BY DEF Stack

\* Bytes that are put on a stack.
LEMMA PutTyped ==
  ASSUME NEW st \in Stack, NEW bytes \in Seq(Byte)
  PROVE  Put(st, bytes) \in Stack
<1>1. B \in Nat \ {0} /\ Len(bytes) \in Nat /\ st.dat \in [Byte -> Byte] /\ st.ptr \in Byte
  BY StackFields, ByteAssumption
<1>2. (st.ptr + Len(bytes)) % B \in Byte
  <2>1. st.ptr + Len(bytes) \in Int
    BY <1>1 DEF Byte
  <2> QED
    BY <2>1, Widths
<1>3. ASSUME NEW a \in Byte
      PROVE  (LET j == (a - st.ptr) % B IN IF j < Len(bytes) THEN bytes[j + 1] ELSE st.dat[a]) \in Byte
  <2>1. a - st.ptr \in Int
    BY <1>1 DEF Byte
  <2>2. PICK j : j = (a - st.ptr) % B
    OBVIOUS
  <2>3. j \in Byte
    BY ONLY <2>1, <2>2, Widths
  <2>4. j < Len(bytes) => bytes[j + 1] \in Byte
    <3>1. j \in Nat
      BY <1>1, <2>3 DEF Byte
    <3> QED
      BY <1>1, <3>1, ElementOfSeq
  <2>5. st.dat[a] \in Byte
    BY <1>1
  <2> QED
    BY <2>2, <2>4, <2>5
<1>4. [a \in Byte |-> LET j == (a - st.ptr) % B
                      IN IF j < Len(bytes) THEN bytes[j + 1] ELSE st.dat[a]] \in [Byte -> Byte]
  BY <1>3
<1> QED
  BY <1>2, <1>4 DEF Put, Stack

\* What is on a stack are bytes, and items of them have their width.
LEMMA ItemTyped ==
  ASSUME NEW st \in Stack
  PROVE  /\ \A d \in Int : Below(st, d) \in Byte
         /\ \A d \in Int : Item(st, d, 1) = Below(st, d) /\ Item(st, d, 1) \in Byte
         /\ \A d \in Int : Item(st, d, 2) \in Short
<1>1. \A d \in Int : Below(st, d) \in Byte
  <2> SUFFICES ASSUME NEW d \in Int PROVE Below(st, d) \in Byte
    OBVIOUS
  <2>1. st.dat \in [Byte -> Byte] /\ st.ptr - 1 - d \in Int
    <3>1. st.dat \in [Byte -> Byte] /\ st.ptr \in Byte
      BY StackFields
    <3>2. st.ptr \in Int
      BY <3>1 DEF Byte
    <3> QED
      BY <3>1, <3>2
  <2>2. (st.ptr - 1 - d) % B \in Byte
    BY <2>1, Widths
  <2> QED
    BY <2>1, <2>2 DEF Below
<1>2. \A x, y \in Byte : x * B + y \in Short
  BY ByteAssumption, Z3 DEF Byte, Short, PAGE_SIZE
<1>3. \A d \in Int : Item(st, d, 2) \in Short
  BY <1>1, <1>2 DEF Item
<1> QED
  BY <1>1, <1>3 DEF Item

-----------------------------------------------------------------------------
(* Folds.                                                                  *)

\* A set of numbers that is not empty has a least one.
LEMMA Least ==
  ASSUME NEW T \in SUBSET Nat, T # {}
  PROVE  \E x \in T : \A y \in T : x <= y
<1>1. PICK x \in T : \A y \in T : ~ (<<y, x>> \in OpToRel(<, Nat))
  BY NatLessThanWellFounded, WFMin
<1>2. \A y \in T : ~ (y < x)
  BY <1>1 DEF OpToRel
<1> QED
  BY <1>2

\* What holds of 0 and of the successor holds of all numbers.
LEMMA Induction ==
  ASSUME NEW T, 0 \in T, \A n \in T : n \in Nat => n + 1 \in T
  PROVE  Nat \subseteq T
<1> SUFFICES ASSUME Nat \ T # {} PROVE FALSE
  OBVIOUS
<1>1. PICK n \in Nat \ T : \A k \in Nat \ T : n <= k
  BY Least
<1>2. n # 0 /\ n - 1 \in Nat
  BY <1>1
<1>3. n - 1 \notin T
  BY <1>2
<1> QED
  BY <1>1, <1>2, <1>3

\* The greatest of numbers from 1 to n + 1: the last one, if it is among them.
LEMMA Greatest ==
  ASSUME NEW n \in Nat, NEW s \in SUBSET (1 .. n + 1), n + 1 \in s
  PROVE  Max(s) = n + 1
<1>1. n + 1 \in s /\ \A y \in s : n + 1 >= y
  OBVIOUS
<1>2. \A x \in s : (\A y \in s : x >= y) => x = n + 1
  BY <1>1
<1> QED
  BY <1>1, <1>2 DEF Max

\* One byte of a copy.
CopyOne(r, c, j) == [r EXCEPT ![InBank(c.dstBank, c.dst, j)] = r[InBank(c.bank, c.addr, j)]]

\* What FoldLeft makes of the places in s of an order, and a function that does it step by step.
CopiesSets(ram, c, order, n, g) ==
  g = [s \in SUBSET (1 .. n) |->
         IF s = {} THEN ram ELSE CopyOne(g[s \ {Max(s)}], c, order[Max(s)])]

\* There is such a function.
LEMMA CopiesExist ==
  ASSUME NEW ram, NEW c, NEW order, NEW n \in Nat
  PROVE  \E g : CopiesSets(ram, c, order, n, g)
<1> DEFINE T == {k \in Nat : \E g : CopiesSets(ram, c, order, k, g)}
<1>1. 0 \in T
  <2> DEFINE g == [s \in SUBSET (1 .. 0) |-> ram]
  <2>1. \A s \in SUBSET (1 .. 0) : s = {}
    OBVIOUS
  <2>2. g = [s \in SUBSET (1 .. 0) |->
               IF s = {} THEN ram ELSE CopyOne(g[s \ {Max(s)}], c, order[Max(s)])]
    BY <2>1
  <2>3. CopiesSets(ram, c, order, 0, g)
    BY <2>2 DEF CopiesSets
  <2> QED
    BY <2>3
<1>2. ASSUME NEW k \in Nat, k \in T PROVE k + 1 \in T
  <2>1. PICK g : CopiesSets(ram, c, order, k, g)
    BY <1>2
  <2> DEFINE new == [s \in SUBSET (1 .. k + 1) |->
                       IF k + 1 \in s THEN CopyOne(g[s \ {k + 1}], c, order[k + 1]) ELSE g[s]]
  <2>2. ASSUME NEW s \in SUBSET (1 .. k + 1)
        PROVE  new[s] = IF s = {} THEN ram ELSE CopyOne(new[s \ {Max(s)}], c, order[Max(s)])
    <3>1. CASE k + 1 \in s
      <4>1. Max(s) = k + 1
        BY <3>1, Greatest
      <4>2. s \ {k + 1} \in SUBSET (1 .. k + 1) /\ k + 1 \notin s \ {k + 1}
        OBVIOUS
      <4>3. new[s \ {k + 1}] = g[s \ {k + 1}]
        BY <4>2
      <4>4. new[s] = CopyOne(g[s \ {k + 1}], c, order[k + 1])
        BY <3>1
      <4> HIDE DEF new
      <4> QED
        BY <3>1, <4>1, <4>3, <4>4
    <3>2. CASE k + 1 \notin s
      <4>1. s \in SUBSET (1 .. k) /\ new[s] = g[s]
        BY <3>2
      <4>2. g[s] = IF s = {} THEN ram ELSE CopyOne(g[s \ {Max(s)}], c, order[Max(s)])
        BY <2>1, <4>1 DEF CopiesSets
      <4>3. s \ {Max(s)} \in SUBSET (1 .. k + 1) /\ k + 1 \notin s \ {Max(s)}
        BY <3>2
      <4>4. new[s \ {Max(s)}] = g[s \ {Max(s)}]
        BY <4>3
      <4> HIDE DEF new
      <4> QED
        BY <4>1, <4>2, <4>4
    <3> QED
      BY <3>1, <3>2
  <2>3. new = [s \in SUBSET (1 .. k + 1) |->
                 IF s = {} THEN ram ELSE CopyOne(new[s \ {Max(s)}], c, order[Max(s)])]
    <3>1. new = [s \in SUBSET (1 .. k + 1) |-> new[s]]
      OBVIOUS
    <3> HIDE DEF new
    <3> QED
      BY <2>2, <3>1
  <2>4. CopiesSets(ram, c, order, k + 1, new)
    BY <2>3 DEF CopiesSets
  <2> QED
    BY <2>4
<1> HIDE DEF T
<1>3. Nat \subseteq T
  BY <1>1, <1>2, Induction
<1> QED
  BY <1>3 DEF T

\* The memories of a copy, one byte after the other.
CopyRun(ram, c, order, g) ==
  /\ g[0] = ram
  /\ \A k \in 0 .. Len(order) - 1 : g[k + 1] = CopyOne(g[k], c, order[k + 1])
  /\ Copy(ram, c, order) = g[Len(order)]

\* A copy is one byte after the other.
LEMMA CopySteps ==
  ASSUME NEW ram, NEW c, ~(c.bank >= BANKS), ~(c.dstBank >= BANKS), NEW order \in Seq(Nat)
  PROVE  \E g : CopyRun(ram, c, order, g)
<1> DEFINE n == Len(order)
           f == CHOOSE h : CopiesSets(ram, c, order, n, h)
           g == [k \in 0 .. n |-> f[1 .. k]]
<1>1. n \in Nat /\ DOMAIN order = 1 .. n
  BY LenProperties
<1>2. CopiesSets(ram, c, order, n, f)
  BY <1>1, CopiesExist
<1>3. Copy(ram, c, order) = FoldLeft(LAMBDA r, j : CopyOne(r, c, j), ram, order)
  BY DEF Copy, CopyOne
<1>4. FoldLeft(LAMBDA r, j : CopyOne(r, c, j), ram, order) = f[1 .. n]
  BY <1>1 DEF FoldLeft, MapThenFoldSet, CopiesSets
<1> HIDE DEF f
<1>5. g[0] = ram
  <2>1. f[{}] = ram
    <3>1. {} \in SUBSET (1 .. n)
      OBVIOUS
    <3> QED
      BY <1>2, <3>1 DEF CopiesSets
  <2>2. 1 .. 0 = {} /\ 0 \in 0 .. n
    BY <1>1
  <2>3. g[0] = f[1 .. 0]
    BY <2>2
  <2> HIDE DEF g
  <2> QED
    BY <2>1, <2>2, <2>3
<1>6. ASSUME NEW k \in 0 .. n - 1 PROVE g[k + 1] = CopyOne(g[k], c, order[k + 1])
  <2>1. PICK s : s = 1 .. k + 1
    OBVIOUS
  <2>2. s \in SUBSET (1 .. n) /\ s # {} /\ k + 1 \in s /\ s \in SUBSET (1 .. k + 1) /\ k \in Nat
    <3>1. k \in Nat /\ n \in Nat /\ k + 1 <= n
      BY <1>1
    <3>2. 1 .. k + 1 \subseteq 1 .. n /\ k + 1 \in 1 .. k + 1
      BY ONLY <3>1
    <3> QED
      BY ONLY <2>1, <3>1, <3>2
  <2>3. Max(s) = k + 1 /\ s \ {k + 1} = 1 .. k
    BY <2>1, <2>2, Greatest
  <2>4. f[s] = CopyOne(f[s \ {Max(s)}], c, order[Max(s)])
    BY <1>2, <2>2 DEF CopiesSets
  <2>5. g[k + 1] = f[s] /\ g[k] = f[1 .. k]
    <3>1. k + 1 \in 0 .. n /\ k \in 0 .. n
      BY <1>1
    <3>2. g[k + 1] = f[1 .. k + 1]
      BY <3>1
    <3>3. g[k] = f[1 .. k]
      BY <3>1
    <3> HIDE DEF g
    <3> QED
      BY <2>1, <3>2, <3>3
  <2> HIDE DEF g
  <2> QED
    BY <2>3, <2>4, <2>5
<1>7. g[n] = f[1 .. n]
  BY <1>1
<1> HIDE DEF g
<1> QED
  BY <1>3, <1>4, <1>5, <1>6, <1>7 DEF CopyRun

-----------------------------------------------------------------------------
(* Addresses.                                                              *)

\* A bank and a place in it give an address, and two of them the same only if they are
\* the same.
LEMMA BankAndPlace ==
  /\ \A b \in 0 .. BANKS - 1, r \in Short : b * PAGE_SIZE + r \in Memory
  /\ \A b, d \in Nat : \A r, s \in Short : b * PAGE_SIZE + r = d * PAGE_SIZE + s => b = d /\ r = s
<1>1. PAGE_SIZE \in Nat /\ PAGE_SIZE > 0 /\ BANKS \in Nat
  BY Pages, BanksAssumption
<1>2. ASSUME NEW p \in Nat, NEW x \in Nat, NEW y \in Nat, x < y PROVE x * p + p <= y * p
  <2>1. PICK z \in Nat : y = x + 1 + z
    BY <1>2
  <2>2. y * p = x * p + p + z * p
    BY <2>1
  <2>3. z * p \in Nat /\ x * p \in Nat
    BY <2>1
  <2> QED
    BY <2>2, <2>3
<1>3. ASSUME NEW b \in 0 .. BANKS - 1, NEW r \in Short PROVE b * PAGE_SIZE + r \in Memory
  <2>1. b * PAGE_SIZE + PAGE_SIZE <= BANKS * PAGE_SIZE
    BY <1>1, <1>2
  <2>2. b * PAGE_SIZE \in Nat /\ BANKS * PAGE_SIZE = PAGE_SIZE * BANKS /\ BANKS * PAGE_SIZE \in Nat
    BY <1>1
  <2>3. r \in 0 .. PAGE_SIZE - 1
    BY DEF Short
  <2> QED
    BY <1>1, <2>1, <2>2, <2>3 DEF Memory
<1>4. ASSUME NEW b \in Nat, NEW d \in Nat, NEW r \in Short, NEW s \in Short,
             b * PAGE_SIZE + r = d * PAGE_SIZE + s
      PROVE  b = d /\ r = s
  <2>1. b * PAGE_SIZE \in Nat /\ d * PAGE_SIZE \in Nat
    BY <1>1
  <2>2. r \in 0 .. PAGE_SIZE - 1 /\ s \in 0 .. PAGE_SIZE - 1
    BY DEF Short
  <2>3. ~ (b < d)
    <3> SUFFICES ASSUME b < d PROVE FALSE
      OBVIOUS
    <3>1. b * PAGE_SIZE + PAGE_SIZE <= d * PAGE_SIZE
      BY <1>1, <1>2
    <3> QED
      BY <1>1, <1>4, <2>1, <2>2, <3>1
  <2>4. ~ (d < b)
    <3> SUFFICES ASSUME d < b PROVE FALSE
      OBVIOUS
    <3>1. d * PAGE_SIZE + PAGE_SIZE <= b * PAGE_SIZE
      BY <1>1, <1>2
    <3> QED
      BY <1>1, <1>4, <2>1, <2>2, <3>1
  <2>5. b = d
    BY <2>3, <2>4
  <2> QED
    BY <1>1, <1>4, <2>1, <2>2, <2>5
<1> QED
  BY <1>3, <1>4

\* A byte and a byte are a short, whose parts they are.
LEMMA Bytewise ==
  /\ \A x, y \in Byte : x * B + y \in Short /\ Hi(x * B + y) = x /\ Lo(x * B + y) = y
  /\ \A v \in Short : Hi(v) \in Byte /\ Lo(v) \in Byte /\ Hi(v) * B + Lo(v) = v
<1>1. B \in Nat /\ B >= 16
  BY ByteAssumption
<1>2. ASSUME NEW x \in Byte, NEW y \in Byte
      PROVE  x * B + y \in Short /\ Hi(x * B + y) = x /\ Lo(x * B + y) = y
  <2>1. x \in 0 .. B - 1 /\ y \in 0 .. B - 1
    BY DEF Byte
  <2>2. x * B + y \in 0 .. B * B - 1
    BY <1>1, <2>1, Z3
  <2>3. (x * B + y) % B = y /\ (x * B + y) \div B = x
    BY <1>1, <2>1, Z3
  <2>4. x % B = x
    <3>1. B \in Nat \ {0} /\ x \in Int
      BY <1>1, <2>1
    <3> QED
      BY ONLY <2>1, <3>1, Remainder
  <2> QED
    BY <2>2, <2>3, <2>4 DEF Short, PAGE_SIZE, Hi, Lo
<1>3. ASSUME NEW v \in Short PROVE Hi(v) \in Byte /\ Lo(v) \in Byte /\ Hi(v) * B + Lo(v) = v
  <2>1. v \in 0 .. B * B - 1
    BY DEF Short, PAGE_SIZE
  <2>2. v \in Int /\ Hi(v) \in Byte /\ Lo(v) \in Byte
    <3>1. v \in Int
      BY <1>1, <2>1
    <3> QED
      BY <3>1, Widths
  <2>3. PICK q \in Int, r \in Int : q = v \div B /\ r = v % B
    BY <1>1, <2>2
  <2>4. v = q * B + r /\ r \in 0 .. B - 1
    BY <1>1, <2>2, <2>3
  <2>5. q \in 0 .. B - 1
    BY <1>1, <2>1, <2>4, Z3
  <2>6. q % B = q
    BY <1>1, <2>5, Remainder
  <2> QED
    BY <2>2, <2>3, <2>4, <2>6 DEF Hi, Lo
<1> QED
  BY <1>2, <1>3

\* The places of the first bank, and those just behind them, are in the memory.
LEMMA FirstBank ==
  /\ Short \subseteq Memory
  /\ \A a \in 0 .. PAGE_SIZE + 15 : a \in Memory
  /\ PAGE_SIZE * BANKS \in Nat /\ PAGE_SIZE >= 256
<1>1. B \in Nat /\ B >= 16 /\ BANKS \in Nat /\ BANKS >= 2
  BY ByteAssumption, BanksAssumption
<1>2. PAGE_SIZE \in Nat /\ PAGE_SIZE >= 256
  BY <1>1, Z3 DEF PAGE_SIZE
<1>3. PAGE_SIZE * BANKS >= PAGE_SIZE + PAGE_SIZE /\ PAGE_SIZE * BANKS \in Nat
  BY <1>1, <1>2, Z3
<1> QED
  BY <1>2, <1>3 DEF Memory, Short

\* Two bytes of the memory are a short.
LEMMA PeekTyped ==
  ASSUME NEW r \in [Memory -> Byte], NEW a \in 0 .. PAGE_SIZE + 14
  PROVE  Peek2(r, a) \in Short
<1>1. a \in 0 .. PAGE_SIZE + 15 /\ a + 1 \in 0 .. PAGE_SIZE + 15
  BY Pages
<1>2. a \in Memory /\ a + 1 \in Memory
  BY <1>1, FirstBank
<1> QED
  BY <1>2, Bytewise DEF Peek2

\* A command's parts have their widths.
LEMMA CommandTyped ==
  ASSUME NEW r \in [Memory -> Byte], NEW e \in Short
  PROVE  LET c == At(r, e) IN
         /\ c.op \in Byte /\ c.value \in Byte
         /\ c.length \in Short /\ c.bank \in Short /\ c.addr \in Short
         /\ c.dstBank \in Short /\ c.dst \in Short
<1>1. e \in 0 .. PAGE_SIZE - 1 /\ PAGE_SIZE \in Nat
  BY Pages DEF Short
<1>2. /\ e + 1 \in 0 .. PAGE_SIZE + 14 /\ e + 3 \in 0 .. PAGE_SIZE + 14 /\ e + 5 \in 0 .. PAGE_SIZE + 14
      /\ e + 7 \in 0 .. PAGE_SIZE + 14 /\ e + 9 \in 0 .. PAGE_SIZE + 14
  BY <1>1
<1>3. r[e] \in Byte /\ r[e + 7] \in Byte
  BY <1>1, <1>2, FirstBank
<1> QED
  BY <1>2, <1>3, PeekTyped DEF At

\* A place in a bank there is.
LEMMA InBankTyped ==
  ASSUME NEW b \in Nat, ~(b >= BANKS), NEW a \in Nat, NEW j \in Nat
  PROVE  InBank(b, a, j) \in Memory
<1>1. (a + j) % PAGE_SIZE \in Short
  BY Widths
<1>2. b \in 0 .. BANKS - 1
  BY BanksAssumption
<1> QED
  BY <1>1, <1>2, BankAndPlace DEF InBank

-----------------------------------------------------------------------------
(* The expansion port.                                                     *)

\* A fill writes bytes.
LEMMA FillTyped ==
  ASSUME NEW r \in [Memory -> Byte], NEW e \in Short
  PROVE  Fill(r, At(r, e)) \in [Memory -> Byte]
<1>1. At(r, e).value \in Byte
  BY CommandTyped
<1> QED
  BY <1>1 DEF Fill

\* A copy writes bytes, whatever its order.
LEMMA CopyTyped ==
  ASSUME NEW r \in [Memory -> Byte], NEW e \in Short, NEW order \in Seq(Nat)
  PROVE  Copy(r, At(r, e), order) \in [Memory -> Byte]
<1> DEFINE n == Len(order)
<1>1. PICK c : c = At(r, e)
  OBVIOUS
<1>2. c.bank \in Nat /\ c.addr \in Nat /\ c.dstBank \in Nat /\ c.dst \in Nat
  BY <1>1, CommandTyped, Pages DEF Short
<1>3. CASE c.bank >= BANKS \/ c.dstBank >= BANKS
  BY <1>1, <1>3 DEF Copy
<1>4. CASE ~(c.bank >= BANKS) /\ ~(c.dstBank >= BANKS)
  <2>1. PICK g : CopyRun(r, c, order, g)
    BY <1>4, CopySteps
  <2>2. n \in Nat /\ \A k \in 1 .. n : order[k] \in Nat
    BY LenProperties, ElementOfSeq
  <2> DEFINE T == {k \in Nat : k \in 0 .. n => g[k] \in [Memory -> Byte]}
  <2>3. 0 \in T
    BY <2>1 DEF CopyRun
  <2>4. ASSUME NEW k \in Nat, k \in T PROVE k + 1 \in T
    <3> SUFFICES ASSUME k + 1 \in 0 .. n PROVE g[k + 1] \in [Memory -> Byte]
      OBVIOUS
    <3>1. k \in 0 .. n - 1 /\ k \in 0 .. n /\ k + 1 \in 1 .. n
      BY <2>2
    <3>2. g[k] \in [Memory -> Byte] /\ order[k + 1] \in Nat
      BY <2>2, <2>4, <3>1
    <3>3. InBank(c.bank, c.addr, order[k + 1]) \in Memory
      BY <1>2, <1>4, <3>2, InBankTyped
    <3>4. g[k + 1] = CopyOne(g[k], c, order[k + 1])
      BY <2>1, <3>1 DEF CopyRun
    <3>5. g[k][InBank(c.bank, c.addr, order[k + 1])] \in Byte
      BY <3>2, <3>3
    <3> QED
      BY <3>2, <3>4, <3>5 DEF CopyOne
  <2> HIDE DEF T
  <2>5. n \in T
    BY <2>2, <2>3, <2>4, Induction
  <2> QED
    BY <1>1, <2>1, <2>2, <2>5 DEF T, CopyRun
<1> QED
  BY <1>3, <1>4

\* The two orders of a copy.
LEMMA Orders ==
  ASSUME NEW n \in Nat
  PROVE  LET up == [j \in 1 .. n |-> j - 1] IN
         /\ up \in Seq(Nat) /\ Len(up) = n
         /\ Reverse(up) \in Seq(Nat) /\ Len(Reverse(up)) = n
         /\ \A k \in 1 .. n : up[k] = k - 1 /\ Reverse(up)[k] = n - k
<1> DEFINE up == [j \in 1 .. n |-> j - 1]
<1>1. up \in Seq(Nat) /\ Len(up) = n
  OBVIOUS
<1>2. Reverse(up) = [i \in 1 .. n |-> up[n - i + 1]]
  BY <1>1 DEF Reverse
<1>3. \A i \in 1 .. n : up[n - i + 1] = n - i /\ n - i \in Nat
  OBVIOUS
<1>4. Reverse(up) \in Seq(Nat) /\ Len(Reverse(up)) = n /\ \A k \in 1 .. n : Reverse(up)[k] = n - k
  BY <1>2, <1>3
<1> QED
  BY <1>1, <1>4

\* The memory keeps its type, whatever the command.
LEMMA ExpandedTyped ==
  ASSUME NEW r \in [Memory -> Byte], NEW e \in Short
  PROVE  Expanded(r, e) \in [Memory -> Byte]
<1> DEFINE n == At(r, e).length
           up == [j \in 1 .. n |-> j - 1]
<1>1. n \in Nat
  BY CommandTyped, Pages DEF Short
<1>2. up \in Seq(Nat) /\ Reverse(up) \in Seq(Nat)
  BY <1>1, Orders
<1> HIDE DEF up
<1>3. Copy(r, At(r, e), up) \in [Memory -> Byte] /\ Copy(r, At(r, e), Reverse(up)) \in [Memory -> Byte]
  BY <1>2, CopyTyped
<1>4. Fill(r, At(r, e)) \in [Memory -> Byte]
  BY FillTyped
<1>5. PICK c : c = At(r, e)
  OBVIOUS
<1>6. Expanded(r, e) = CASE c.op = 0 -> Fill(r, c)
                         [] c.op = 1 -> Copy(r, c, up)
                         [] c.op = 2 -> Copy(r, c, Reverse(up))
                         [] OTHER    -> r
  BY <1>5 DEF Expanded, up
<1> QED
  BY <1>3, <1>4, <1>5, <1>6

\* No byte is written before it is read, and none twice.
InTime(c, order) ==
  \A k, l \in 1 .. Len(order) : l < k =>
    /\ InBank(c.bank, c.addr, order[k]) # InBank(c.dstBank, c.dst, order[l])
    /\ InBank(c.dstBank, c.dst, order[k]) # InBank(c.dstBank, c.dst, order[l])

\* What was at the places of the order is where it belongs, and the rest is as it was.
MovedBy(r, c, order, h) ==
  /\ \A k \in 1 .. Len(order) :
       h[InBank(c.dstBank, c.dst, order[k])] = r[InBank(c.bank, c.addr, order[k])]
  /\ \A a \in Memory :
       (\A k \in 1 .. Len(order) : a # InBank(c.dstBank, c.dst, order[k])) => h[a] = r[a]

\* A copy that is in time moves what was there, all of it, and nothing else.
LEMMA CopyMoves ==
  ASSUME NEW r \in [Memory -> Byte], NEW c, NEW order \in Seq(Nat),
         c.bank \in Nat, c.addr \in Nat, c.dstBank \in Nat, c.dst \in Nat,
         ~(c.bank >= BANKS), ~(c.dstBank >= BANKS), InTime(c, order)
  PROVE  MovedBy(r, c, order, Copy(r, c, order))
<1>1. PICK g : CopyRun(r, c, order, g)
  BY CopySteps
<1>2. PICK n \in Nat : n = Len(order)
  BY LenProperties
<1>3. PICK from, to : /\ from = [k \in 1 .. n |-> InBank(c.bank, c.addr, order[k])]
                      /\ to = [k \in 1 .. n |-> InBank(c.dstBank, c.dst, order[k])]
  OBVIOUS
<1>4. ASSUME NEW k \in 1 .. n
      PROVE  /\ from[k] = InBank(c.bank, c.addr, order[k]) /\ from[k] \in Memory
             /\ to[k] = InBank(c.dstBank, c.dst, order[k]) /\ to[k] \in Memory
  <2>1. order[k] \in Nat
    BY <1>2, ElementOfSeq
  <2> QED
    BY <1>3, <2>1, InBankTyped
<1>5. \A k, l \in 1 .. n : l < k => from[k] # to[l] /\ to[k] # to[l]
  BY <1>2, <1>4 DEF InTime
\* What the memory is after k bytes.
<1> DEFINE Moved(h, k) == /\ DOMAIN h = Memory
                          /\ \A l \in 1 .. k : h[to[l]] = r[from[l]]
                          /\ \A a \in Memory : (\A l \in 1 .. k : a # to[l]) => h[a] = r[a]
           T == {k \in Nat : k \in 0 .. n => Moved(g[k], k)}
<1>6. 0 \in T
  <2>1. g[0] = r /\ DOMAIN r = Memory
    BY <1>1 DEF CopyRun
  <2> QED
    BY <2>1
<1>7. ASSUME NEW k \in Nat, k \in T PROVE k + 1 \in T
  <2> SUFFICES ASSUME k + 1 \in 0 .. n PROVE Moved(g[k + 1], k + 1)
    OBVIOUS
  <2>1. k \in 0 .. n /\ k \in 0 .. n - 1 /\ k + 1 \in 1 .. n
        /\ \A l \in 1 .. k + 1 : (l \in 1 .. k \/ l = k + 1)
        /\ \A i \in 1 .. k : i \in 1 .. k + 1 /\ i \in 1 .. n /\ i < k + 1
    OBVIOUS
  <2>2. PICK h, t, u : h = g[k] /\ t = to[k + 1] /\ u = from[k + 1]
    OBVIOUS
  <2>3. Moved(h, k)
    BY <1>7, <2>1, <2>2
  <2>4. g[k + 1] = [h EXCEPT ![t] = h[u]]
    <3>1. g[k + 1] = CopyOne(g[k], c, order[k + 1])
      BY <1>1, <1>2, <2>1 DEF CopyRun
    <3> QED
      BY <1>4, <2>1, <2>2, <3>1 DEF CopyOne
  <2>5. t \in Memory /\ u \in Memory /\ \A l \in 1 .. k : t # to[l] /\ u # to[l] /\ to[l] \in Memory
    BY <1>4, <1>5, <2>1, <2>2
  <2>6. h[u] = r[u]
    BY <2>3, <2>5
  <2>7. g[k + 1][t] = r[u] /\ DOMAIN g[k + 1] = Memory
        /\ \A a \in Memory : a # t => g[k + 1][a] = h[a]
    BY <2>3, <2>4, <2>5, <2>6
  <2>8. ASSUME NEW l \in 1 .. k + 1 PROVE g[k + 1][to[l]] = r[from[l]]
    <3>1. CASE l = k + 1
      BY <2>2, <2>7, <3>1
    <3>2. CASE l \in 1 .. k
      BY <2>3, <2>5, <2>7, <3>2
    <3> QED
      BY <2>1, <3>1, <3>2
  <2>9. ASSUME NEW a \in Memory, \A l \in 1 .. k + 1 : a # to[l] PROVE g[k + 1][a] = r[a]
    <3>1. a # t /\ \A l \in 1 .. k : a # to[l]
      <4>1. k + 1 \in 1 .. k + 1
        OBVIOUS
      <4> QED
        BY <2>1, <2>2, <2>9, <4>1
    <3> QED
      BY <2>3, <2>7, <3>1
  <2> QED
    BY <2>7, <2>8, <2>9
<1> HIDE DEF T
<1>8. n \in T
  BY <1>6, <1>7, Induction
<1>9. Moved(g[n], n) /\ Copy(r, c, order) = g[n]
  BY <1>1, <1>2, <1>8 DEF T, CopyRun
<1> QED
  <2>1. n \in 0 .. n /\ Len(order) = n
    BY <1>2
  <2>2. /\ \A k \in 1 .. n : g[n][to[k]] = r[from[k]]
        /\ \A a \in Memory : (\A k \in 1 .. n : a # to[k]) => g[n][a] = r[a]
    BY <1>9
  <2>3. MovedBy(r, c, order, g[n])
    BY ONLY <1>4, <2>1, <2>2 DEF MovedBy
  <2> QED
    BY <1>9, <2>3

\* A number is a multiple and a remainder.
LEMMA Division ==
  ASSUME NEW p \in Nat \ {0}, NEW x \in Int
  PROVE  \E q \in Int : x = q * p + (x % p)
<1>1. x = (x \div p) * p + (x % p) /\ x \div p \in Int
  OBVIOUS
<1> QED
  BY <1>1

\* There is only one.
LEMMA DivisionOnce ==
  ASSUME NEW p \in Nat \ {0}, NEW q \in Int, NEW s \in 0 .. p - 1
  PROVE  (q * p + s) % p = s
<1>1. PICK t \in Int : q * p + s = t * p + ((q * p + s) % p)
  <2>1. q * p + s \in Int
    OBVIOUS
  <2> QED
    BY ONLY <2>1, p \in Nat \ {0}, Division
<1>2. PICK u \in 0 .. p - 1 : u = (q * p + s) % p
  <2>1. q * p + s \in Int
    OBVIOUS
  <2> QED
    BY ONLY <2>1, p \in Nat \ {0}, Remainder
<1>3. (q - t) * p = u - s
  BY <1>1, <1>2
<1>4. q - t = 0
  BY <1>2, <1>3, Z3
<1> QED
  BY <1>2, <1>3, <1>4

\* Two places of a bank are the same only if their distances are.
LEMMA InBankSame ==
  ASSUME NEW b \in Nat, NEW d \in Nat, NEW a \in Nat, NEW e \in Nat, NEW j \in Nat, NEW k \in Nat,
         InBank(b, a, j) = InBank(d, e, k), j \in Short, k \in Short, j <= k
  PROVE  b = d /\ (a - e) % PAGE_SIZE = k - j
<1>1. PICK p \in Nat \ {0} : p = PAGE_SIZE
  BY Pages
<1>2. (a + j) % p \in Short /\ (e + k) % p \in Short /\ (a + j) % p \in Int /\ (e + k) % p \in Int
  <2>1. (a + j) % p \in 0 .. p - 1 /\ (e + k) % p \in 0 .. p - 1
    BY Remainder
  <2> QED
    BY <1>1, <2>1 DEF Short
<1>3. b = d /\ (a + j) % p = (e + k) % p
  BY <1>1, <1>2, BankAndPlace DEF InBank
<1>4. k - j \in 0 .. p - 1
  BY <1>1 DEF Short
<1>5. (a - e) % p = k - j
  <2>1. a + j \in Int /\ e + k \in Int
    OBVIOUS
  <2>2. PICK q \in Int : a + j = q * p + ((a + j) % p)
    BY <2>1, Division
  <2>3. PICK s \in Int : e + k = s * p + ((e + k) % p)
    BY <2>1, Division
  <2>4. a - e = (q - s) * p + (k - j) /\ q - s \in Int
    BY <1>2, <1>3, <2>2, <2>3
  <2> QED
    BY <1>4, <2>4, DivisionOnce
<1> QED
  BY <1>1, <1>3, <1>5

\* How far two places are apart that are the same, and that a command writes no place twice.
Differ(b, a, j, d, t, i) ==
  /\ InBank(b, a, j) = InBank(d, t, i) /\ i <= j => b = d /\ (t - a) % PAGE_SIZE = j - i
  /\ InBank(b, a, j) = InBank(d, t, i) /\ j <= i => b = d /\ (a - t) % PAGE_SIZE = i - j
  /\ InBank(d, t, j) = InBank(d, t, i) => i = j

\* What two places of a copy have in common.
LEMMA InBankApart ==
  ASSUME NEW b \in Nat, NEW d \in Nat, NEW a \in Nat, NEW t \in Nat, NEW i \in Nat, NEW j \in Nat,
         i \in Short, j \in Short
  PROVE  Differ(b, a, j, d, t, i)
<1>1. ASSUME InBank(b, a, j) = InBank(d, t, i), i <= j PROVE b = d /\ (t - a) % PAGE_SIZE = j - i
  <2>1. InBank(d, t, i) = InBank(b, a, j)
    BY <1>1
  <2> QED
    BY <1>1, <2>1, InBankSame
<1>2. ASSUME InBank(b, a, j) = InBank(d, t, i), j <= i PROVE b = d /\ (a - t) % PAGE_SIZE = i - j
  BY <1>2, InBankSame
<1>3. ASSUME InBank(d, t, j) = InBank(d, t, i) PROVE i = j
  <2>1. (t - t) % PAGE_SIZE = 0
    BY Pages
  <2>2. ASSUME j <= i PROVE i = j
    <3>1. (t - t) % PAGE_SIZE = i - j
      BY <1>3, <2>2, InBankSame
    <3> QED
      BY <2>1, <3>1
  <2>3. ASSUME i <= j PROVE i = j
    <3>1. InBank(d, t, i) = InBank(d, t, j)
      BY <1>3
    <3>2. (t - t) % PAGE_SIZE = j - i
      BY <2>3, <3>1, InBankSame
    <3> QED
      BY <2>1, <3>2
  <2> QED
    BY <2>2, <2>3
<1> QED
  BY <1>1, <1>2, <1>3 DEF Differ

\* A copy in the direction that suits the overlap, if there are such banks.
LEMMA SafeMoves ==
  ASSUME NEW r \in [Memory -> Byte], NEW e \in Short, NEW c, c = At(r, e), c.op \in {1, 2},
         ~(c.bank >= BANKS), ~(c.dstBank >= BANKS), Safe(c)
  PROVE  /\ \A j \in 0 .. c.length - 1 : Expanded(r, e)[InBank(c.dstBank, c.dst, j)] = r[InBank(c.bank, c.addr, j)]
         /\ \A a \in Memory : (\A j \in 0 .. c.length - 1 : a # InBank(c.dstBank, c.dst, j))
                                => Expanded(r, e)[a] = r[a]
<1>1. c.bank \in Nat /\ c.addr \in Nat /\ c.dstBank \in Nat /\ c.dst \in Nat /\ c.length \in Nat
      /\ c.length \in Short
  BY CommandTyped, Pages DEF Short
<1>2. PICK n \in Nat : n = c.length /\ n \in Short
  BY <1>1
<1>3. PICK up : up = [j \in 1 .. n |-> j - 1]
  OBVIOUS
<1>4. /\ up \in Seq(Nat) /\ Len(up) = n
      /\ Reverse(up) \in Seq(Nat) /\ Len(Reverse(up)) = n
      /\ \A k \in 1 .. n : up[k] = k - 1 /\ Reverse(up)[k] = n - k
  BY <1>3, Orders
<1>5. PICK order : /\ order = (IF c.op = 1 THEN up ELSE Reverse(up))
                   /\ Expanded(r, e) = Copy(r, c, order)
  <2>1. Expanded(r, e) = CASE c.op = 0 -> Fill(r, c)
                           [] c.op = 1 -> Copy(r, c, up)
                           [] c.op = 2 -> Copy(r, c, Reverse(up))
                           [] OTHER    -> r
    BY <1>2, <1>3 DEF Expanded
  <2> QED
    BY <2>1
<1>6. order \in Seq(Nat) /\ Len(order) = n /\ \A k \in 1 .. n : order[k] = IF c.op = 1 THEN k - 1 ELSE n - k
  BY <1>4, <1>5
\* No byte is written before it is read, and none twice.
<1>7. ASSUME NEW i \in Nat, NEW j \in Nat, i < n, j < n, IF c.op = 1 THEN i < j ELSE j < i
      PROVE  /\ InBank(c.bank, c.addr, j) # InBank(c.dstBank, c.dst, i)
             /\ InBank(c.dstBank, c.dst, j) # InBank(c.dstBank, c.dst, i)
  <2>1. i \in Short /\ j \in Short /\ n \in 0 .. PAGE_SIZE - 1
    BY <1>2, <1>7, Pages DEF Short
  <2>2. PICK b \in Nat, a \in Nat, d \in Nat, t \in Nat :
          b = c.bank /\ a = c.addr /\ d = c.dstBank /\ t = c.dst
    BY <1>1
  <2>3. /\ InBank(b, a, j) = InBank(d, t, i) /\ i <= j => b = d /\ (t - a) % PAGE_SIZE = j - i
        /\ InBank(b, a, j) = InBank(d, t, i) /\ j <= i => b = d /\ (a - t) % PAGE_SIZE = i - j
        /\ InBank(d, t, j) = InBank(d, t, i) => i = j
    <3>0. b \in Nat /\ a \in Nat /\ d \in Nat /\ t \in Nat /\ i \in Nat /\ j \in Nat
          /\ i \in Short /\ j \in Short
      BY <1>7, <2>1, <2>2
    <3>1. Differ(b, a, j, d, t, i)
      BY ONLY <3>0, InBankApart
    <3> QED
      BY ONLY <3>1 DEF Differ
  <2>4. CASE c.op = 1
    <3>1. j - i \in 1 .. c.length - 1 /\ i <= j /\ i # j
      BY <1>2, <1>7, <2>4
    <3>2. ~(c.bank = c.dstBank /\ (c.dst - c.addr) % PAGE_SIZE \in 1 .. c.length - 1)
      BY <2>4 DEF Safe, Overlaps
    <3> QED
      BY <2>2, <2>3, <3>1, <3>2
  <2>5. CASE c.op = 2
    <3>1. i - j \in 1 .. c.length - 1 /\ j <= i /\ i # j
      BY <1>2, <1>7, <2>5
    <3>2. ~(c.bank = c.dstBank /\ (c.addr - c.dst) % PAGE_SIZE \in 1 .. c.length - 1)
      BY <2>5 DEF Safe, Overlaps
    <3> QED
      BY <2>2, <2>3, <3>1, <3>2
  <2> QED
    BY <2>4, <2>5
<1>8. InTime(c, order)
  <2> SUFFICES ASSUME NEW k \in 1 .. n, NEW l \in 1 .. n, l < k
               PROVE  /\ InBank(c.bank, c.addr, order[k]) # InBank(c.dstBank, c.dst, order[l])
                      /\ InBank(c.dstBank, c.dst, order[k]) # InBank(c.dstBank, c.dst, order[l])
    BY <1>6 DEF InTime
  <2>1. PICK i \in Nat, j \in Nat : i = order[l] /\ j = order[k] /\ i < n /\ j < n /\ (IF c.op = 1 THEN i < j ELSE j < i)
    BY <1>6
  <2> QED
    BY <1>7, <2>1
<1>9. /\ \A k \in 1 .. n : Copy(r, c, order)[InBank(c.dstBank, c.dst, order[k])]
                                         = r[InBank(c.bank, c.addr, order[k])]
      /\ \A a \in Memory : (\A k \in 1 .. n : a # InBank(c.dstBank, c.dst, order[k]))
                                => Copy(r, c, order)[a] = r[a]
  <2>1. MovedBy(r, c, order, Copy(r, c, order))
    BY <1>1, <1>6, <1>8, CopyMoves
  <2> QED
    BY <1>6, <2>1 DEF MovedBy
<1>10. /\ \A j \in 0 .. n - 1 : \E k \in 1 .. n : order[k] = j
       /\ \A k \in 1 .. n : order[k] \in 0 .. n - 1
  <2>1. ASSUME NEW j \in 0 .. n - 1 PROVE \E k \in 1 .. n : order[k] = j
    <3>1. CASE c.op = 1
      <4>1. j + 1 \in 1 .. n /\ order[j + 1] = j
        BY <1>6, <3>1
      <4> QED
        BY <4>1
    <3>2. CASE c.op # 1
      <4>1. n - j \in 1 .. n /\ order[n - j] = j
        BY <1>6, <3>2
      <4> QED
        BY <4>1
    <3> QED
      BY <3>1, <3>2
  <2>2. ASSUME NEW k \in 1 .. n PROVE order[k] \in 0 .. n - 1
    <3>1. order[k] = IF c.op = 1 THEN k - 1 ELSE n - k
      BY <1>6
    <3> QED
      BY <3>1
  <2> QED
    BY <2>1, <2>2
<1>11. ASSUME NEW j \in 0 .. n - 1 PROVE Copy(r, c, order)[InBank(c.dstBank, c.dst, j)] = r[InBank(c.bank, c.addr, j)]
  BY <1>9, <1>10
<1>12. ASSUME NEW a \in Memory, \A j \in 0 .. n - 1 : a # InBank(c.dstBank, c.dst, j)
       PROVE  Copy(r, c, order)[a] = r[a]
  BY <1>9, <1>10, <1>12
<1> QED
  BY <1>2, <1>5, <1>11, <1>12

-----------------------------------------------------------------------------
(* The devices.                                                            *)

\* A port is read.
LEMMA DeiTyped ==
  ASSUME NEW n \in Machine, NEW p \in Byte
  PROVE  Dei(n, p) \in Byte
BY Fields, StackFields DEF Dei

\* A port is written.
LEMMA DeoTyped ==
  ASSUME NEW n \in Machine, NEW p \in Byte, NEW v \in Byte
  PROVE  Deo(n, p, v) \in Machine /\ Deo(n, p, v).pc = n.pc
<1>1. PICK o \in Machine : o = [n EXCEPT !.dev[p] = v] /\ o.pc = n.pc
  <2>1. [n EXCEPT !.dev[p] = v] \in Machine /\ [n EXCEPT !.dev[p] = v].pc = n.pc
    BY SetPort
  <2> QED
    BY ONLY <2>1
<1>2. CASE p = Expansion
  <2>1. Peek2(o.dev, Expansion - 1) \in Short
    <3>1. 2 \in Byte /\ 3 \in Byte /\ Expansion - 1 = 2
      BY ByteAssumption DEF Byte, Expansion
    <3>2. o.dev[2] \in Byte /\ o.dev[3] \in Byte
      BY <3>1, Fields
    <3> QED
      BY <3>1, <3>2, Bytewise DEF Peek2
  <2>2. PICK e \in Short : e = Peek2(o.dev, Expansion - 1)
    BY <2>1
  <2>3. o.ram \in [Memory -> Byte]
    BY Fields
  <2>4. PICK r \in [Memory -> Byte] : r = Expanded(o.ram, e)
    BY <2>3, ExpandedTyped
  <2>5. Deo(n, p, v) = [o EXCEPT !.ram = r]
    BY <1>1, <1>2, <2>2, <2>4 DEF Deo, Expansion, Wst, Rst
  <2>6. [o EXCEPT !.ram = r] \in Machine /\ [o EXCEPT !.ram = r].pc = o.pc
    BY SetRam
  <2> QED
    BY ONLY <1>1, <2>5, <2>6
<1>3. CASE p = Wst
  <2>1. PICK st \in Stack : st = [o.wst EXCEPT !.ptr = v]
    BY Fields, SetPtr
  <2>2. Deo(n, p, v) = [o EXCEPT !.wst.ptr = v]
    BY <1>1, <1>3 DEF Deo, Expansion, Wst, Rst
  <2>3. [o EXCEPT !.wst.ptr = v] \in Machine /\ [o EXCEPT !.wst.ptr = v].pc = o.pc
    BY <2>1 DEF Machine
  <2> QED
    BY ONLY <1>1, <2>2, <2>3
<1>4. CASE p = Rst
  <2>1. PICK st \in Stack : st = [o.rst EXCEPT !.ptr = v]
    BY Fields, SetPtr
  <2>2. Deo(n, p, v) = [o EXCEPT !.rst.ptr = v]
    BY <1>1, <1>4 DEF Deo, Expansion, Wst, Rst
  <2>3. [o EXCEPT !.rst.ptr = v] \in Machine /\ [o EXCEPT !.rst.ptr = v].pc = o.pc
    BY <2>1 DEF Machine
  <2> QED
    BY ONLY <1>1, <2>2, <2>3
<1>5. CASE p \notin {Expansion, Wst, Rst}
  BY <1>1, <1>5 DEF Deo
<1> QED
  BY <1>2, <1>3, <1>4, <1>5

-----------------------------------------------------------------------------
(* Booting.                                                                *)

\* A memory into which a ROM is loaded.
LEMMA LoadTyped ==
  ASSUME NEW r \in [Memory -> Byte], NEW file \in Seq(Byte)
  PROVE  Load(r, file) \in [Memory -> Byte]
<1> SUFFICES ASSUME NEW a \in Memory
             PROVE  (IF a - PAGE_PROGRAM \in 0 .. Len(file) - 1 THEN file[a - PAGE_PROGRAM + 1] ELSE r[a]) \in Byte
  BY DEF Load
<1>1. r[a] \in Byte
  OBVIOUS
<1>2. ASSUME a - PAGE_PROGRAM \in 0 .. Len(file) - 1 PROVE file[a - PAGE_PROGRAM + 1] \in Byte
  <2>1. PICK k \in Nat : k = a - PAGE_PROGRAM /\ k + 1 \in 1 .. Len(file)
    BY <1>2, LenProperties
  <2> QED
    BY <2>1, ElementOfSeq
<1> QED
  BY <1>1, <1>2

\* A machine that is given a ROM.
LEMMA BootedTyped ==
  ASSUME NEW n \in Machine, NEW file \in Seq(Byte), NEW args \in BOOLEAN
  PROVE  /\ Booted(n, file, args) \in Machine
         /\ Booted(n, file, args).ram = Load(n.ram, file)
         /\ Booted(n, file, args).dev = [n.dev EXCEPT ![Type] = IF args THEN 1 ELSE 0]
         /\ Booted(n, file, args).pc = PAGE_PROGRAM
         /\ Booted(n, file, args).wst = n.wst /\ Booted(n, file, args).rst = n.rst
<1>1. Load(n.ram, file) \in [Memory -> Byte]
  BY Fields, LoadTyped
<1>2. Type \in Byte /\ 0 \in Byte /\ 1 \in Byte
  BY ByteAssumption DEF Type, Byte
<1>3. PICK v \in Byte : v = IF args THEN 1 ELSE 0
  BY <1>2
<1>4. [n.dev EXCEPT ![Type] = v] \in [Byte -> Byte]
  BY <1>2, Fields
<1>5. PAGE_PROGRAM \in Short
  BY Pages DEF Short
<1>6. Booted(n, file, args) =
        [n EXCEPT !.ram = Load(n.ram, file), !.pc = PAGE_PROGRAM, !.dev = [n.dev EXCEPT ![Type] = v]]
  BY <1>3 DEF Booted, Machine
<1>7. PICK r \in [Memory -> Byte], d \in [Byte -> Byte] : r = Load(n.ram, file) /\ d = [n.dev EXCEPT ![Type] = v]
  BY <1>1, <1>4
<1>8. PICK q \in Short : q = PAGE_PROGRAM
  BY <1>5
<1>9. PICK o : o = [n EXCEPT !.ram = r, !.pc = q, !.dev = d]
  OBVIOUS
<1>10. o \in Machine /\ o.ram = r /\ o.dev = d /\ o.pc = q /\ o.wst = n.wst /\ o.rst = n.rst
  BY <1>9 DEF Machine
<1>11. Booted(n, file, args) = o
  BY <1>6, <1>7, <1>8, <1>9
<1> QED
  BY ONLY <1>3, <1>7, <1>8, <1>10, <1>11

\* A machine whose memory is static.
LEMMA BlankTyped ==
  /\ Blank \in Machine /\ EmptyStack \in Stack /\ Blank.wst.ptr = 0 /\ Blank.rst.ptr = 0
  /\ \A a \in Memory : Blank.ram[a] = 0
  /\ \A p \in Byte : Blank.dev[p] = 0
<1>1. 0 \in Byte /\ 0 \in Short
  BY Pages, ByteAssumption DEF Byte, Short
<1>2. EmptyStack \in Stack /\ EmptyStack.ptr = 0
  BY <1>1 DEF EmptyStack, Stack
<1> QED
  BY <1>1, <1>2 DEF Blank, Machine

\* A machine that is restarted.
LEMMA RebootedTyped ==
  ASSUME NEW n \in Machine, NEW file \in Seq(Byte), NEW soft \in BOOLEAN
  PROVE  LET o == Rebooted(n, soft, file) IN
         /\ o \in Machine
         /\ o.pc = PAGE_PROGRAM /\ o.wst.ptr = 0 /\ o.rst.ptr = 0
         /\ \A p \in Byte : o.dev[p] = 0
         /\ o.ram = Load([a \in Memory |-> IF a < PAGE_SIZE /\ (soft => a >= PAGE_PROGRAM)
                                           THEN 0 ELSE n.ram[a]], file)
<1>1. 0 \in Byte /\ Type \in Byte
  BY ByteAssumption DEF Byte, Type
<1>2. PICK r \in [Memory -> Byte] :
        r = [a \in Memory |-> IF a < PAGE_SIZE /\ (soft => a >= PAGE_PROGRAM) THEN 0 ELSE n.ram[a]]
  BY <1>1, Fields
<1>3. PICK w \in Stack, t \in Stack :
        w = [n.wst EXCEPT !.ptr = 0] /\ t = [n.rst EXCEPT !.ptr = 0] /\ w.ptr = 0 /\ t.ptr = 0
  <2>1. [n.wst EXCEPT !.ptr = 0] \in Stack /\ [n.wst EXCEPT !.ptr = 0].ptr = 0
    BY <1>1, Fields, SetPtr
  <2>2. [n.rst EXCEPT !.ptr = 0] \in Stack /\ [n.rst EXCEPT !.ptr = 0].ptr = 0
    BY <1>1, Fields, SetPtr
  <2> QED
    BY ONLY <2>1, <2>2
<1>4. Blank.dev \in [Byte -> Byte] /\ \A p \in Byte : Blank.dev[p] = 0
  BY BlankTyped, Fields
<1>5. PICK o \in Machine : o = [n EXCEPT !.dev = Blank.dev, !.ram = r, !.wst = w, !.rst = t]
                           /\ o.dev = Blank.dev /\ o.ram = r /\ o.wst = w /\ o.rst = t
  <2>1. PICK d \in [Byte -> Byte] : d = Blank.dev
    BY <1>4
  <2>2. PICK o : o = [n EXCEPT !.dev = d, !.ram = r, !.wst = w, !.rst = t]
    OBVIOUS
  <2>3. o \in Machine /\ o.dev = d /\ o.ram = r /\ o.wst = w /\ o.rst = t
    BY <2>2 DEF Machine
  <2> QED
    BY ONLY <2>1, <2>2, <2>3
<1>6. Rebooted(n, soft, file) = Booted(o, file, FALSE)
  BY <1>2, <1>3, <1>5 DEF Rebooted, Machine
<1>7. /\ Booted(o, file, FALSE) \in Machine
      /\ Booted(o, file, FALSE).ram = Load(o.ram, file)
      /\ Booted(o, file, FALSE).dev = [o.dev EXCEPT ![Type] = 0]
      /\ Booted(o, file, FALSE).pc = PAGE_PROGRAM
      /\ Booted(o, file, FALSE).wst = o.wst /\ Booted(o, file, FALSE).rst = o.rst
  BY BootedTyped
<1>8. \A p \in Byte : [o.dev EXCEPT ![Type] = 0][p] = 0
  BY <1>1, <1>4, <1>5
<1>9. PICK q \in Machine : q = Booted(o, file, FALSE)
  BY <1>7
<1>10. q.pc = PAGE_PROGRAM /\ q.wst.ptr = 0 /\ q.rst.ptr = 0
  BY <1>3, <1>5, <1>7, <1>9
<1>11. \A p \in Byte : q.dev[p] = 0
  BY <1>7, <1>8, <1>9
<1>12. q.ram = Load(r, file)
  BY <1>5, <1>7, <1>9
<1> QED
  BY ONLY <1>2, <1>6, <1>9, <1>10, <1>11, <1>12

-----------------------------------------------------------------------------
(* The bits of a short.                                                    *)

\* What MapThenSumSet makes of the parts of a set, the numbers of f added one by one.
Sums_(f, S, g) ==
  g = [s \in SUBSET S |->
         IF s = {} THEN 0
         ELSE f[CHOOSE x \in s : TRUE] + g[s \ {CHOOSE x \in s : TRUE}]]

\* There is such a function.
LEMMA SumsExist ==
  ASSUME NEW S, IsFiniteSet(S), NEW f \in [S -> Int]
  PROVE  \E g : Sums_(f, S, g)
<1> DEFINE Summed(g, k) ==
             \A s \in SUBSET S : Cardinality(s) <= k =>
               g[s] = IF s = {} THEN 0
                      ELSE f[CHOOSE x \in s : TRUE] + g[s \ {CHOOSE x \in s : TRUE}]
           T == {k \in Nat : \E g \in [SUBSET S -> Int] : Summed(g, k)}
<1>1. \A s \in SUBSET S : IsFiniteSet(s) /\ Cardinality(s) \in Nat /\ Cardinality(s) <= Cardinality(S)
  BY FS_Subset, FS_CardinalityType
<1>2. ASSUME NEW s \in SUBSET S, s # {}
      PROVE  /\ (CHOOSE x \in s : TRUE) \in s
             /\ s \ {CHOOSE x \in s : TRUE} \in SUBSET S
             /\ Cardinality(s \ {CHOOSE x \in s : TRUE}) = Cardinality(s) - 1
             /\ Cardinality(s) # 0
  <2>1. PICK x : x = (CHOOSE y \in s : TRUE)
    OBVIOUS
  <2>2. x \in s
    <3>1. \E y \in s : TRUE
      BY <1>2
    <3> QED
      BY <2>1, <3>1
  <2>3. IsFiniteSet(s)
    BY <1>1
  <2>4. Cardinality(s \ {x}) = Cardinality(s) - 1
    BY <2>2, <2>3, FS_RemoveElement
  <2>5. Cardinality(s) # 0
    BY <1>2, <2>3, FS_EmptySet
  <2> QED
    BY <2>1, <2>2, <2>4, <2>5
<1>3. 0 \in T
  <2> DEFINE g == [s \in SUBSET S |-> 0]
  <2>1. g \in [SUBSET S -> Int]
    OBVIOUS
  <2>2. ASSUME NEW s \in SUBSET S, Cardinality(s) <= 0 PROVE s = {} /\ g[s] = 0
    <3>1. s = {}
      BY <1>1, <2>2, FS_EmptySet
    <3> QED
      BY <3>1
  <2>3. Summed(g, 0)
    <3> HIDE DEF g
    <3> QED
      BY <2>2
  <2> HIDE DEF Summed
  <2> QED
    BY <2>1, <2>3
<1>4. ASSUME NEW k \in Nat, k \in T PROVE k + 1 \in T
  <2>1. PICK g \in [SUBSET S -> Int] : Summed(g, k)
    BY <1>4
  <2> DEFINE new == [s \in SUBSET S |->
                       IF Cardinality(s) = k + 1
                       THEN f[CHOOSE x \in s : TRUE] + g[s \ {CHOOSE x \in s : TRUE}] ELSE g[s]]
  <2>2. new \in [SUBSET S -> Int]
    <3> SUFFICES ASSUME NEW s \in SUBSET S, Cardinality(s) = k + 1
                 PROVE  f[CHOOSE x \in s : TRUE] + g[s \ {CHOOSE x \in s : TRUE}] \in Int
      OBVIOUS
    <3>1. s # {}
      BY FS_EmptySet
    <3>2. PICK x \in S : x = (CHOOSE y \in s : TRUE) /\ s \ {x} \in SUBSET S
      BY <1>2, <3>1
    <3>3. f[x] \in Int /\ g[s \ {x}] \in Int
      BY <3>2
    <3> QED
      BY ONLY <3>2, <3>3
  <2>3. ASSUME NEW s \in SUBSET S, Cardinality(s) <= k + 1
        PROVE  new[s] = IF s = {} THEN 0
                        ELSE f[CHOOSE x \in s : TRUE] + new[s \ {CHOOSE x \in s : TRUE}]
    <3>1. CASE s = {}
      <4>1. Cardinality(s) = 0
        BY <3>1, FS_EmptySet
      <4>2. g[s] = 0
        BY <2>1, <3>1, <4>1
      <4>3. new[s] = g[s]
        BY <4>1
      <4> QED
        BY ONLY <3>1, <4>2, <4>3
    <3>2. CASE s # {}
      <4>1. PICK x \in s : x = (CHOOSE y \in s : TRUE)
        BY <1>2, <3>2
      <4>2. s \ {x} \in SUBSET S /\ Cardinality(s \ {x}) = Cardinality(s) - 1 /\ Cardinality(s) \in Nat
        BY <1>1, <1>2, <3>2, <4>1
      <4>3. new[s \ {x}] = g[s \ {x}]
        <5>1. Cardinality(s \ {x}) # k + 1
          BY <2>3, <4>2
        <5> QED
          BY <4>2, <5>1
      <4>4. new[s] = f[x] + g[s \ {x}]
        <5>1. CASE Cardinality(s) = k + 1
          BY <4>1, <5>1
        <5>2. CASE Cardinality(s) # k + 1
          <6>1. Cardinality(s) <= k
            BY <2>3, <4>2, <5>2
          <6>2. g[s] = f[x] + g[s \ {x}]
            BY <2>1, <3>2, <4>1, <6>1
          <6>3. new[s] = g[s]
            BY <5>2
          <6> QED
            BY ONLY <6>2, <6>3
        <5> QED
          BY <5>1, <5>2
      <4> QED
        BY ONLY <3>2, <4>1, <4>3, <4>4
    <3> QED
      BY <3>1, <3>2
  <2>4. Summed(new, k + 1)
    <3> HIDE DEF new
    <3> QED
      BY <2>3
  <2> HIDE DEF Summed, new
  <2> QED
    BY <2>2, <2>4
<1> HIDE DEF T
<1>5. Cardinality(S) \in T
  <2>1. Nat \subseteq T
    BY <1>3, <1>4, Induction
  <2> QED
    BY <1>1, <2>1
<1>6. PICK g \in [SUBSET S -> Int] : Summed(g, Cardinality(S))
  BY <1>5 DEF T
<1>7. \A s \in SUBSET S : g[s] = IF s = {} THEN 0
                                 ELSE f[CHOOSE x \in s : TRUE] + g[s \ {CHOOSE x \in s : TRUE}]
  BY <1>1, <1>6
<1>8. g = [s \in SUBSET S |-> g[s]]
  OBVIOUS
<1>9. Sums_(f, S, g)
  BY <1>7, <1>8 DEF Sums_
<1> QED
  BY <1>9

\* Its values are numbers.
LEMMA SumsTyped ==
  ASSUME NEW S, IsFiniteSet(S), NEW f \in [S -> Int], NEW g, Sums_(f, S, g)
  PROVE  g[S] \in Int
<1> DEFINE T == {k \in Nat : \A s \in SUBSET S : Cardinality(s) = k => g[s] \in Int}
<1>1. \A s \in SUBSET S : IsFiniteSet(s) /\ Cardinality(s) \in Nat
  BY FS_Subset, FS_CardinalityType
<1>2. 0 \in T
  <2>1. ASSUME NEW s \in SUBSET S, Cardinality(s) = 0 PROVE g[s] \in Int
    <3>1. s = {}
      BY <1>1, <2>1, FS_EmptySet
    <3>2. g[s] = 0
      BY <3>1 DEF Sums_
    <3> QED
      BY <3>2
  <2> QED
    BY <2>1
<1>3. ASSUME NEW k \in Nat, k \in T PROVE k + 1 \in T
  <2>1. ASSUME NEW s \in SUBSET S, Cardinality(s) = k + 1 PROVE g[s] \in Int
    <3>1. s # {}
      BY <2>1, FS_EmptySet
    <3>2. PICK x : x = (CHOOSE y \in s : TRUE)
      OBVIOUS
    <3>3. x \in s
      <4>1. \E y \in s : TRUE
        BY <3>1
      <4> QED
        BY <3>2, <4>1
    <3>4. Cardinality(s \ {x}) = Cardinality(s) - 1
      BY <1>1, <3>3, FS_RemoveElement
    <3>5. g[s] = f[x] + g[s \ {x}]
      BY <3>1, <3>2 DEF Sums_
    <3>6. g[s \ {x}] \in Int
      <4>1. s \ {x} \in SUBSET S /\ Cardinality(s \ {x}) = k
        BY <2>1, <3>4
      <4> QED
        BY <1>3, <4>1
    <3>7. f[x] \in Int
      BY <3>3
    <3> QED
      BY <3>5, <3>6, <3>7
  <2> QED
    BY <2>1
<1> HIDE DEF T
<1>4. Cardinality(S) \in T
  <2>1. Nat \subseteq T
    BY <1>2, <1>3, Induction
  <2> QED
    BY <1>1, <2>1
<1> QED
  BY <1>4 DEF T

\* The bits there are.
LEMMA Bits ==
  /\ IsFiniteSet({b \in 0 .. 15 : 2^b < PAGE_SIZE})
  /\ \A b \in 0 .. 15 : 2^b \in Int
<1>1. IsFiniteSet(0 .. 15)
  <2>1. 0 \in Int /\ 15 \in Int
    OBVIOUS
  <2> QED
    BY ONLY <2>1, FS_Interval
<1>2. {b \in 0 .. 15 : 2^b < PAGE_SIZE} \subseteq 0 .. 15
  OBVIOUS
<1>3. IsFiniteSet({b \in 0 .. 15 : 2^b < PAGE_SIZE})
  BY ONLY <1>1, <1>2, FS_Subset
<1> QED
  BY <1>3

\* The operations on bits give numbers.
LEMMA BitByBitTyped ==
  ASSUME NEW x \in Int, NEW y \in Int, NEW op \in {"AND", "ORA", "EOR"}
  PROVE  Result(op, y, x) \in Int
<1>1. PICK S : S = {b \in 0 .. 15 : 2^b < PAGE_SIZE}
  OBVIOUS
<1>2. IsFiniteSet(S) /\ \A b \in S : 2^b \in Int
  BY <1>1, Bits
<1>3. CASE op = "AND"
  <2> DEFINE f == [b \in S |-> IF (y \div 2^b) % 2 = 1 /\ (x \div 2^b) % 2 = 1 THEN 2^b ELSE 0]
             Is(g) == g = [s \in SUBSET S |->
                        IF s = {} THEN 0
                        ELSE LET b == CHOOSE b \in s : TRUE
                             IN (IF (y \div 2^b) % 2 = 1 /\ (x \div 2^b) % 2 = 1 THEN 2^b ELSE 0) + g[s \ {b}]]
  <2>1. f \in [S -> Int]
    BY <1>2
  <2>2. ASSUME NEW g PROVE Is(g) <=> Sums_(f, S, g)
    <3>1. ASSUME NEW s \in SUBSET S, s # {}, NEW b, b = (CHOOSE z \in s : TRUE)
          PROVE  f[b] = IF (y \div 2^b) % 2 = 1 /\ (x \div 2^b) % 2 = 1 THEN 2^b ELSE 0
      <4>1. \E a \in s : TRUE
        BY <3>1
      <4>2. b \in s
        BY <3>1, <4>1
      <4> QED
        BY <4>2
    <3> HIDE DEF f
    <3>2. ASSUME NEW s \in SUBSET S
          PROVE  (IF s = {} THEN 0
                  ELSE LET b == CHOOSE b \in s : TRUE
                       IN (IF (y \div 2^b) % 2 = 1 /\ (x \div 2^b) % 2 = 1 THEN 2^b ELSE 0) + g[s \ {b}])
                 = (IF s = {} THEN 0 ELSE f[CHOOSE b \in s : TRUE] + g[s \ {CHOOSE b \in s : TRUE}])
      <4>1. PICK b : b = (CHOOSE z \in s : TRUE)
        OBVIOUS
      <4> QED
        BY <3>1, <4>1
    <3>3. [s \in SUBSET S |->
                        IF s = {} THEN 0
                        ELSE LET b == CHOOSE b \in s : TRUE
                             IN (IF (y \div 2^b) % 2 = 1 /\ (x \div 2^b) % 2 = 1 THEN 2^b ELSE 0) + g[s \ {b}]]
          = [s \in SUBSET S |-> IF s = {} THEN 0
                                ELSE f[CHOOSE b \in s : TRUE] + g[s \ {CHOOSE b \in s : TRUE}]]
      BY <3>2
    <3> QED
      BY ONLY <3>3 DEF Sums_
  <2>3. Result(op, y, x) = (CHOOSE g : Is(g))[S]
    BY <1>1, <1>3 DEF Result, BitByBit, MapThenSumSet, MapThenFoldSet
  <2>4. PICK g : g = CHOOSE h : Is(h)
    OBVIOUS
  <2>5. Is(g)
    <3> HIDE DEF Is, f
    <3>1. \E h : Is(h)
      BY <1>2, <2>1, <2>2, SumsExist
    <3> QED
      BY <2>4, <3>1
  <2> HIDE DEF Is, f
  <2>6. Sums_(f, S, g)
    BY <2>2, <2>5
  <2>7. g[S] \in Int
    BY <1>2, <2>1, <2>6, SumsTyped
  <2> QED
    BY <2>3, <2>4, <2>7
<1>4. CASE op = "ORA"
  <2> DEFINE f == [b \in S |-> IF (y \div 2^b) % 2 = 1 \/ (x \div 2^b) % 2 = 1 THEN 2^b ELSE 0]
             Is(g) == g = [s \in SUBSET S |->
                        IF s = {} THEN 0
                        ELSE LET b == CHOOSE b \in s : TRUE
                             IN (IF (y \div 2^b) % 2 = 1 \/ (x \div 2^b) % 2 = 1 THEN 2^b ELSE 0) + g[s \ {b}]]
  <2>1. f \in [S -> Int]
    BY <1>2
  <2>2. ASSUME NEW g PROVE Is(g) <=> Sums_(f, S, g)
    <3>1. ASSUME NEW s \in SUBSET S, s # {}, NEW b, b = (CHOOSE z \in s : TRUE)
          PROVE  f[b] = IF (y \div 2^b) % 2 = 1 \/ (x \div 2^b) % 2 = 1 THEN 2^b ELSE 0
      <4>1. \E a \in s : TRUE
        BY <3>1
      <4>2. b \in s
        BY <3>1, <4>1
      <4> QED
        BY <4>2
    <3> HIDE DEF f
    <3>2. ASSUME NEW s \in SUBSET S
          PROVE  (IF s = {} THEN 0
                  ELSE LET b == CHOOSE b \in s : TRUE
                       IN (IF (y \div 2^b) % 2 = 1 \/ (x \div 2^b) % 2 = 1 THEN 2^b ELSE 0) + g[s \ {b}])
                 = (IF s = {} THEN 0 ELSE f[CHOOSE b \in s : TRUE] + g[s \ {CHOOSE b \in s : TRUE}])
      <4>1. PICK b : b = (CHOOSE z \in s : TRUE)
        OBVIOUS
      <4> QED
        BY <3>1, <4>1
    <3>3. [s \in SUBSET S |->
                        IF s = {} THEN 0
                        ELSE LET b == CHOOSE b \in s : TRUE
                             IN (IF (y \div 2^b) % 2 = 1 \/ (x \div 2^b) % 2 = 1 THEN 2^b ELSE 0) + g[s \ {b}]]
          = [s \in SUBSET S |-> IF s = {} THEN 0
                                ELSE f[CHOOSE b \in s : TRUE] + g[s \ {CHOOSE b \in s : TRUE}]]
      BY <3>2
    <3> QED
      BY ONLY <3>3 DEF Sums_
  <2>3. Result(op, y, x) = (CHOOSE g : Is(g))[S]
    BY <1>1, <1>4 DEF Result, BitByBit, MapThenSumSet, MapThenFoldSet
  <2>4. PICK g : g = CHOOSE h : Is(h)
    OBVIOUS
  <2>5. Is(g)
    <3> HIDE DEF Is, f
    <3>1. \E h : Is(h)
      BY <1>2, <2>1, <2>2, SumsExist
    <3> QED
      BY <2>4, <3>1
  <2> HIDE DEF Is, f
  <2>6. Sums_(f, S, g)
    BY <2>2, <2>5
  <2>7. g[S] \in Int
    BY <1>2, <2>1, <2>6, SumsTyped
  <2> QED
    BY <2>3, <2>4, <2>7
<1>5. CASE op = "EOR"
  <2> DEFINE f == [b \in S |-> IF ((y \div 2^b) % 2 = 1) # ((x \div 2^b) % 2 = 1) THEN 2^b ELSE 0]
             Is(g) == g = [s \in SUBSET S |->
                        IF s = {} THEN 0
                        ELSE LET b == CHOOSE b \in s : TRUE
                             IN (IF ((y \div 2^b) % 2 = 1) # ((x \div 2^b) % 2 = 1) THEN 2^b ELSE 0) + g[s \ {b}]]
  <2>1. f \in [S -> Int]
    BY <1>2
  <2>2. ASSUME NEW g PROVE Is(g) <=> Sums_(f, S, g)
    <3>1. ASSUME NEW s \in SUBSET S, s # {}, NEW b, b = (CHOOSE z \in s : TRUE)
          PROVE  f[b] = IF ((y \div 2^b) % 2 = 1) # ((x \div 2^b) % 2 = 1) THEN 2^b ELSE 0
      <4>1. \E a \in s : TRUE
        BY <3>1
      <4>2. b \in s
        BY <3>1, <4>1
      <4> QED
        BY <4>2
    <3> HIDE DEF f
    <3>2. ASSUME NEW s \in SUBSET S
          PROVE  (IF s = {} THEN 0
                  ELSE LET b == CHOOSE b \in s : TRUE
                       IN (IF ((y \div 2^b) % 2 = 1) # ((x \div 2^b) % 2 = 1) THEN 2^b ELSE 0) + g[s \ {b}])
                 = (IF s = {} THEN 0 ELSE f[CHOOSE b \in s : TRUE] + g[s \ {CHOOSE b \in s : TRUE}])
      <4>1. PICK b : b = (CHOOSE z \in s : TRUE)
        OBVIOUS
      <4> QED
        BY <3>1, <4>1
    <3>3. [s \in SUBSET S |->
                        IF s = {} THEN 0
                        ELSE LET b == CHOOSE b \in s : TRUE
                             IN (IF ((y \div 2^b) % 2 = 1) # ((x \div 2^b) % 2 = 1) THEN 2^b ELSE 0) + g[s \ {b}]]
          = [s \in SUBSET S |-> IF s = {} THEN 0
                                ELSE f[CHOOSE b \in s : TRUE] + g[s \ {CHOOSE b \in s : TRUE}]]
      BY <3>2
    <3> QED
      BY ONLY <3>3 DEF Sums_
  <2>3. Result(op, y, x) = (CHOOSE g : Is(g))[S]
    BY <1>1, <1>5 DEF Result, BitByBit, MapThenSumSet, MapThenFoldSet
  <2>4. PICK g : g = CHOOSE h : Is(h)
    OBVIOUS
  <2>5. Is(g)
    <3> HIDE DEF Is, f
    <3>1. \E h : Is(h)
      BY <1>2, <2>1, <2>2, SumsExist
    <3> QED
      BY <2>4, <3>1
  <2> HIDE DEF Is, f
  <2>6. Sums_(f, S, g)
    BY <2>2, <2>5
  <2>7. g[S] \in Int
    BY <1>2, <2>1, <2>6, SumsTyped
  <2> QED
    BY <2>3, <2>4, <2>7
<1> QED
  BY <1>3, <1>4, <1>5

-----------------------------------------------------------------------------
(* Instructions.                                                           *)

\* The opcodes that work on the stacks.
Plains == {Ops[n] : n \in 1 .. 31}
Instr  == [op : Immediate \cup Plains, s : BOOLEAN, r : BOOLEAN, k : BOOLEAN]

\* A byte stands for instructions.
LEMMA Decoded ==
  ASSUME NEW v \in Byte
  PROVE  Decode(v) \subseteq Instr
<1>1. PICK w \in Nat : w = B \div 8 /\ w >= 2
  BY ByteAssumption
<1>2. PICK top \in Int, low \in Int : top = v \div w /\ low = v % w /\ top >= 0
  BY <1>1, ByteAssumption, Z3 DEF Byte
<1>3. DOMAIN Ops = 1 .. 31
  BY DEF Ops
<1>4. ASSUME NEW op \in Immediate \cup Plains
      PROVE  [op |-> op, s |-> top % 2 = 1, r |-> (top \div 2) % 2 = 1, k |-> top >= 4] \in Instr
  <2>1. (top % 2 = 1) \in BOOLEAN /\ ((top \div 2) % 2 = 1) \in BOOLEAN /\ (top >= 4) \in BOOLEAN
    OBVIOUS
  <2> QED
    BY <2>1 DEF Instr
<1>5. CASE low # 0
  <2>1. Decode(v) = {[op |-> Ops[n], s |-> top % 2 = 1, r |-> (top \div 2) % 2 = 1, k |-> top >= 4] :
                        n \in {n \in DOMAIN Ops : (n - low) % (w - 1) = 0}}
    BY <1>1, <1>2, <1>5 DEF Decode
  <2>2. \A n \in {n \in DOMAIN Ops : (n - low) % (w - 1) = 0} : Ops[n] \in Immediate \cup Plains
    BY <1>3 DEF Plains
  <2> QED
    BY <1>4, <2>1, <2>2
<1>6. CASE low = 0
  <2>1. Decode(v) = {[op |-> IF top >= 4 THEN "LIT" ELSE <<"BRK", "JCI", "JMI", "JSI">>[top + 1],
                      s |-> top % 2 = 1, r |-> (top \div 2) % 2 = 1, k |-> top >= 4]}
    BY <1>1, <1>2, <1>6 DEF Decode
  <2>2. ~(top >= 4) => top + 1 \in 1 .. 4
    BY <1>2
  <2>3. (IF top >= 4 THEN "LIT" ELSE <<"BRK", "JCI", "JMI", "JSI">>[top + 1]) \in Immediate \cup Plains
    BY <2>2 DEF Immediate
  <2> QED
    BY <1>4, <2>1, <2>3
<1> QED
  BY <1>5, <1>6

\* The parts of an instruction.
LEMMA InstrParts ==
  ASSUME NEW i \in Instr
  PROVE  /\ Size(i) \in {1, 2} /\ (Size(i) = 2 <=> i.s)
         /\ Own(i) \in {"wst", "rst"} /\ Other(i) \in {"wst", "rst"} /\ Own(i) # Other(i)
         /\ i.op \in Immediate \cup Plains
BY DEF Instr, Size, Own, Other

\* A machine's stacks.
LEMMA Stacks ==
  ASSUME NEW n \in Machine, NEW f \in {"wst", "rst"}
  PROVE  n[f] \in Stack
<1>1. n.wst \in Stack /\ n.rst \in Stack
  BY Fields
<1> QED
  BY <1>1

\* A value as bytes.
LEMMA BytesTyped ==
  ASSUME NEW i \in Instr, NEW v \in Int
  PROVE  /\ Bytes(i, v) \in Seq(Byte)
         /\ Len(Bytes(i, v)) = Size(i)
         /\ \A j \in 1 .. Size(i) : Bytes(i, v)[j] \in Byte
<1>1. Hi(v) \in Byte /\ Lo(v) \in Byte
  BY Widths
<1>2. CASE i.s
  BY <1>1, <1>2 DEF Bytes, Size
<1>3. CASE ~i.s
  BY <1>1, <1>3 DEF Bytes, Size
<1> QED
  BY <1>2, <1>3

\* A byte with its sign.
LEMMA SignedTyped ==
  ASSUME NEW v \in Byte
  PROVE  Signed(v) \in Int /\ Signed(v) <= B - 1
BY Pages DEF Signed, Byte

\* Where an item of the memory may be, and the byte after it.
LEMMA Places ==
  /\ \A a \in Memory : (a + 1) % ALL \in Memory /\ (a + 1) % PAGE_SIZE \in Memory
  /\ \A d \in Byte, a \in Short : d < BANKS => a + d * PAGE_SIZE \in Memory
  /\ \A p \in Short, v \in Byte : p + Signed(v) >= 0 => p + Signed(v) \in Memory
  /\ Byte \subseteq Short /\ Byte \subseteq Int /\ Short \subseteq Int /\ Memory \subseteq Int
<1>1. B \in Nat /\ B >= 16 /\ BANKS \in Nat /\ BANKS >= 2 /\ PAGE_SIZE \in Nat /\ PAGE_SIZE >= B /\ PAGE_SIZE >= 256
      /\ ALL \in Nat \ {0} /\ ALL >= PAGE_SIZE + PAGE_SIZE
  BY ByteAssumption, BanksAssumption, Z3 DEF PAGE_SIZE, ALL
<1>2. Memory = 0 .. ALL - 1
  BY DEF Memory, ALL
<1>3. Byte \subseteq Short /\ Byte \subseteq Int /\ Short \subseteq Int /\ Memory \subseteq Int
  BY <1>1, <1>2 DEF Byte, Short
<1>4. ASSUME NEW a \in Memory PROVE (a + 1) % ALL \in Memory /\ (a + 1) % PAGE_SIZE \in Memory
  <2>1. a + 1 \in Int
    BY <1>3
  <2>2. (a + 1) % ALL \in 0 .. ALL - 1
    BY ONLY <1>1, <2>1, Remainder
  <2>3. (a + 1) % PAGE_SIZE \in Short
    BY <2>1, Widths
  <2> QED
    BY <1>2, <2>2, <2>3, FirstBank
<1>5. ASSUME NEW d \in Byte, NEW a \in Short, d < BANKS PROVE a + d * PAGE_SIZE \in Memory
  <2>1. d \in 0 .. BANKS - 1 /\ d \in Int /\ a \in Int
    BY <1>1, <1>3, <1>5 DEF Byte
  <2>2. d * PAGE_SIZE + a \in Memory
    BY <2>1, BankAndPlace
  <2>3. d * PAGE_SIZE \in Int
    BY <1>1, <2>1
  <2> QED
    BY <2>1, <2>2, <2>3
<1>6. ASSUME NEW p \in Short, NEW v \in Byte, p + Signed(v) >= 0 PROVE p + Signed(v) \in Memory
  <2>1. p \in Int /\ p <= PAGE_SIZE - 1 /\ Signed(v) \in Int /\ Signed(v) <= B - 1
    BY <1>1, SignedTyped DEF Short
  <2> QED
    BY <1>1, <1>2, <1>6, <2>1
<1> QED
  BY <1>3, <1>4, <1>5, <1>6

\* A load.
LEMMA PekTyped ==
  ASSUME NEW n \in Machine, NEW a \in Memory, NEW z \in {1, 2}, NEW w \in {ALL, PAGE_SIZE}
  PROVE  Pek(n, a, z, w) \in Seq(Byte)
<1>1. (a + 1) % w \in Memory
  BY Places
<1>2. n.ram[a] \in Byte /\ n.ram[(a + 1) % w] \in Byte
  BY <1>1, Fields
<1> QED
  BY <1>2 DEF Pek

\* A byte that is stored.
LEMMA SetByte ==
  ASSUME NEW n \in Machine, NEW a \in Memory, NEW v \in Byte
  PROVE  /\ [n EXCEPT !.ram[a] = v] \in Machine
         /\ [n EXCEPT !.ram[a] = v].ram = [n.ram EXCEPT ![a] = v]
         /\ [n EXCEPT !.ram[a] = v].dev = n.dev /\ [n EXCEPT !.ram[a] = v].pc = n.pc
         /\ [n EXCEPT !.ram[a] = v].wst = n.wst /\ [n EXCEPT !.ram[a] = v].rst = n.rst
<1>1. [n.ram EXCEPT ![a] = v] \in [Memory -> Byte]
  BY Fields
<1>2. [n EXCEPT !.ram[a] = v] = [n EXCEPT !.ram = [n.ram EXCEPT ![a] = v]]
  BY DEF Machine
<1> QED
  BY <1>1, <1>2 DEF Machine

\* A store writes an item's bytes and nothing else.
LEMMA PokTyped ==
  ASSUME NEW n \in Machine, NEW a \in Memory, NEW bytes \in Seq(Byte), Len(bytes) \in {1, 2},
         NEW w \in {ALL, PAGE_SIZE}
  PROVE  /\ Pok(n, a, bytes, w) \in Machine
         /\ \A x \in Memory : Pok(n, a, bytes, w).ram[x] # n.ram[x]
                                => x = a \/ (Len(bytes) = 2 /\ x = (a + 1) % w)
<1>1. bytes[1] \in Byte /\ (Len(bytes) = 2 => bytes[2] \in Byte)
  <2>1. 1 \in 1 .. Len(bytes) /\ (Len(bytes) = 2 => 2 \in 1 .. Len(bytes))
    OBVIOUS
  <2> QED
    BY <2>1, ElementOfSeq
<1>2. PICK o \in Machine : o = [n EXCEPT !.ram[a] = bytes[1]] /\ o.ram = [n.ram EXCEPT ![a] = bytes[1]]
  <2>1. PICK v \in Byte : v = bytes[1]
    BY <1>1
  <2>2. [n EXCEPT !.ram[a] = v] \in Machine /\ [n EXCEPT !.ram[a] = v].ram = [n.ram EXCEPT ![a] = v]
    BY SetByte
  <2> QED
    BY ONLY <2>1, <2>2
<1>3. \A x \in Memory : o.ram[x] # n.ram[x] => x = a
  BY <1>2, Fields
<1>4. CASE Len(bytes) = 2
  <2>1. PICK b \in Memory : b = (a + 1) % w
    BY Places
  <2>2. PICK v \in Byte : v = bytes[2]
    BY <1>1, <1>4
  <2>3. [o EXCEPT !.ram[b] = v] \in Machine /\ [o EXCEPT !.ram[b] = v].ram = [o.ram EXCEPT ![b] = v]
    BY SetByte
  <2>4. Pok(n, a, bytes, w) = [o EXCEPT !.ram[b] = v]
    BY <1>2, <1>4, <2>1, <2>2 DEF Pok
  <2>5. PICK q \in Machine : q = Pok(n, a, bytes, w) /\ q.ram = [o.ram EXCEPT ![b] = v]
    BY ONLY <2>3, <2>4
  <2>6. \A x \in Memory : q.ram[x] # o.ram[x] => x = b
    BY <2>5, Fields
  <2> QED
    BY ONLY <1>3, <1>4, <2>1, <2>5, <2>6
<1>5. CASE Len(bytes) # 2
  <2>1. Pok(n, a, bytes, w) = o
    BY <1>2, <1>5 DEF Pok
  <2> QED
    BY <1>3, <2>1
<1> QED
  BY <1>4, <1>5

-----------------------------------------------------------------------------
(* What an instruction does.                                               *)

\* The addresses of its access are in the memory: n is behind the opcode.
Reaches(n, i) ==
  /\ i.op \in {"LDR", "STR"} => n.pc + Signed(Below(n[Own(i)], 0)) >= 0
  /\ i.op \in {"LDZ", "STZ", "LDA", "STA"} => n.dev[Local] < BANKS

\* The results of the operations, by their names.
LEMMA Results ==
  ASSUME NEW x, NEW y
  PROVE  /\ Result("EQU", y, x) = Bool(y = x) /\ Result("NEQ", y, x) = Bool(y # x)
         /\ Result("GTH", y, x) = Bool(y > x) /\ Result("LTH", y, x) = Bool(y < x)
         /\ Result("ADD", y, x) = y + x /\ Result("SUB", y, x) = (y - x) % PAGE_SIZE
         /\ Result("MUL", y, x) = y * x
         /\ Result("DIV", y, x) = IF x = 0 THEN 0 ELSE y \div x
<1>1. Result("EQU", y, x) = Bool(y = x)
  BY Zenon DEF Result
<1>2. Result("NEQ", y, x) = Bool(y # x)
  BY Zenon DEF Result
<1>3. Result("GTH", y, x) = Bool(y > x)
  BY Zenon DEF Result
<1>4. Result("LTH", y, x) = Bool(y < x)
  BY Zenon DEF Result
<1>5. Result("ADD", y, x) = y + x
  BY Zenon DEF Result
<1>6. Result("SUB", y, x) = (y - x) % PAGE_SIZE
  BY Zenon DEF Result
<1>7. Result("MUL", y, x) = y * x
  BY Zenon DEF Result
<1>8. Result("DIV", y, x) = IF x = 0 THEN 0 ELSE y \div x
  BY Zenon DEF Result
<1> QED
  BY <1>1, <1>2, <1>3, <1>4, <1>5, <1>6, <1>7, <1>8

\* They are numbers, and those of a comparison are bytes.
LEMMA ResultTyped ==
  ASSUME NEW x \in Nat, NEW y \in Nat, NEW op \in Compares \cup Sums
  PROVE  Result(op, y, x) \in Int /\ (op \in Compares => Result(op, y, x) \in Byte)
<1>1. CASE op \in {"AND", "ORA", "EOR"}
  <2>1. x \in Int /\ y \in Int /\ op \notin Compares
    BY <1>1 DEF Compares
  <2> QED
    BY <1>1, <2>1, BitByBitTyped
<1>2. CASE op \in Compares
  <2>1. 0 \in Byte /\ 1 \in Byte /\ 0 \in Int /\ 1 \in Int
    BY ByteAssumption DEF Byte
  <2>2. \A p \in BOOLEAN : Bool(p) \in Byte /\ Bool(p) \in Int
    BY <2>1 DEF Bool
  <2>3. (y = x) \in BOOLEAN /\ (y # x) \in BOOLEAN /\ (y > x) \in BOOLEAN /\ (y < x) \in BOOLEAN
    OBVIOUS
  <2>4. Result(op, y, x) \in {Bool(y = x), Bool(y # x), Bool(y > x), Bool(y < x)}
    BY <1>2, Results DEF Compares
  <2> QED
    BY ONLY <2>2, <2>3, <2>4
<1>3. CASE op \in {"ADD", "SUB", "MUL"}
  <2>1. y + x \in Int /\ y * x \in Int /\ (y - x) % PAGE_SIZE \in Int
    BY Pages
  <2> QED
    BY <1>3, <2>1, Results DEF Compares
<1>4. CASE op = "DIV"
  <2>1. x # 0 => y \div x \in Int
    OBVIOUS
  <2> QED
    BY <1>4, <2>1, Results DEF Compares
<1> QED
  BY <1>1, <1>2, <1>3, <1>4 DEF Sums

\* The powers of two a shift may need.
LEMMA Powers == \A p \in 0 .. 15 : 2^p \in Nat \ {0}
<1> SUFFICES ASSUME NEW p \in 0 .. 15 PROVE 2^p \in Nat \ {0}
  OBVIOUS
<1>1. /\ 2^0 \in Nat \ {0} /\ 2^1 \in Nat \ {0} /\ 2^2 \in Nat \ {0} /\ 2^3 \in Nat \ {0}
      /\ 2^4 \in Nat \ {0} /\ 2^5 \in Nat \ {0} /\ 2^6 \in Nat \ {0} /\ 2^7 \in Nat \ {0}
      /\ 2^8 \in Nat \ {0} /\ 2^9 \in Nat \ {0} /\ 2^10 \in Nat \ {0} /\ 2^11 \in Nat \ {0}
      /\ 2^12 \in Nat \ {0} /\ 2^13 \in Nat \ {0} /\ 2^14 \in Nat \ {0} /\ 2^15 \in Nat \ {0}
  OBVIOUS
<1>2. \/ p = 0 \/ p = 1 \/ p = 2 \/ p = 3 \/ p = 4 \/ p = 5 \/ p = 6 \/ p = 7
      \/ p = 8 \/ p = 9 \/ p = 10 \/ p = 11 \/ p = 12 \/ p = 13 \/ p = 14 \/ p = 15
  OBVIOUS
<1> QED
  BY <1>1, <1>2, Zenon

\* A shift gives a number.
LEMMA ShiftedTyped ==
  ASSUME NEW b \in Int, NEW a \in Byte
  PROVE  Shifted(b, a) \in Int
<1>1. NIBBLE \in 1 .. 16 /\ a \in 0 .. NIBBLE * NIBBLE - 1
  BY NibbleAssumption, ByteAssumption DEF Byte
<1>2. PICK p \in 0 .. 15, q \in 0 .. 15 : p = a % NIBBLE /\ q = a \div NIBBLE
  <2>1. a % NIBBLE \in 0 .. 15
    BY <1>1, Z3
  <2>2. a \div NIBBLE \in 0 .. 15
    BY <1>1, Z3
  <2> QED
    BY <2>1, <2>2
<1>3. PICK u \in Nat \ {0}, v \in Nat \ {0} : u = 2^p /\ v = 2^q
  BY Powers
<1>4. b \div u \in Int
  OBVIOUS
<1>5. PICK c \in Int : c = b \div u
  BY <1>4
<1>6. Shifted(b, a) = c * v
  BY <1>2, <1>3, <1>5 DEF Shifted
<1> QED
  BY <1>5, <1>6

\* Two ports are read.
LEMMA DeiAllTyped ==
  ASSUME NEW n \in Machine, NEW i \in Instr, NEW p \in Byte
  PROVE  DeiAll(n, i, p) \in Seq(Byte)
<1>1. PICK q \in Byte : q = (p + 1) % B
  <2>1. p + 1 \in Int
    BY Places
  <2> QED
    BY <2>1, Widths
<1>2. Dei(n, p) \in Byte /\ Dei(n, q) \in Byte
  BY DeiTyped
<1>3. CASE i.s
  <2>1. Ports(i, p) = <<p, q>>
    BY <1>1, <1>3 DEF Ports
  <2>2. DeiAll(n, i, p) = [j \in 1 .. 2 |-> Dei(n, <<p, q>>[j])]
    BY <2>1 DEF DeiAll
  <2>3. \A j \in 1 .. 2 : Dei(n, <<p, q>>[j]) \in Byte
    BY <1>2
  <2> QED
    BY <2>2, <2>3
<1>4. CASE ~i.s
  <2>1. Ports(i, p) = <<p>>
    BY <1>4 DEF Ports
  <2>2. DeiAll(n, i, p) = [j \in 1 .. 1 |-> Dei(n, <<p>>[j])]
    BY <2>1 DEF DeiAll
  <2>3. \A j \in 1 .. 1 : Dei(n, <<p>>[j]) \in Byte
    BY <1>2
  <2> QED
    BY <2>2, <2>3
<1> QED
  BY <1>3, <1>4

\* One or two ports are written.
LEMMA DeoAllTyped ==
  ASSUME NEW n \in Machine, NEW i \in Instr, NEW p \in Byte, NEW v \in Int
  PROVE  DeoAll(n, i, p, Bytes(i, v)) \in Machine
<1>1. PICK q \in Byte : q = (p + 1) % B
  <2>1. p + 1 \in Int
    BY Places
  <2> QED
    BY <2>1, Widths
<1>2. CASE i.s
  <2>1. PICK x \in Byte, y \in Byte : x = Bytes(i, v)[1] /\ y = Bytes(i, v)[2]
    <3>1. Size(i) = 2 /\ 1 \in 1 .. 2 /\ 2 \in 1 .. 2
      BY <1>2 DEF Size
    <3> QED
      BY <3>1, BytesTyped
  <2>2. PICK o \in Machine : o = Deo(n, p, x)
    BY DeoTyped
  <2>3. Deo(o, q, y) \in Machine
    BY DeoTyped
  <2>4. DeoAll(n, i, p, Bytes(i, v)) = Deo(o, q, y)
    BY <1>1, <1>2, <2>1, <2>2 DEF DeoAll
  <2> QED
    BY <2>3, <2>4
<1>3. CASE ~i.s
  <2>1. PICK x \in Byte : x = Bytes(i, v)[1]
    <3>1. Size(i) = 1 /\ 1 \in 1 .. 1
      BY <1>3 DEF Size
    <3> QED
      BY <3>1, BytesTyped
  <2>2. Deo(n, p, x) \in Machine
    BY DeoTyped
  <2>3. DeoAll(n, i, p, Bytes(i, v)) = Deo(n, p, x)
    BY <1>3, <2>1 DEF DeoAll
  <2> QED
    BY <2>2, <2>3
<1> QED
  BY <1>2, <1>3

\* Bytes are put.
LEMMA PutsTyped ==
  ASSUME NEW n \in Machine, NEW i \in Instr, i.op \in Plains, Reaches(n, i), NEW taken \in Machine
  PROVE  Puts(i, n, taken) \in Seq(Byte)
<1>1. PICK st \in Stack : st = n[Own(i)]
  BY InstrParts, Stacks
<1>2. PICK z \in {1, 2} : z = Size(i)
  BY InstrParts
<1>3. \A d \in Int : Item(st, d, z) \in Nat /\ Item(st, d, z) \in Int
  <2>1. Byte \subseteq Nat /\ Short \subseteq Nat
    BY Pages DEF Byte, Short
  <2>2. ASSUME NEW d \in Int PROVE Item(st, d, z) \in Byte \cup Short
    <3>1. Item(st, d, 1) \in Byte
      BY ItemTyped
    <3>2. Item(st, d, 2) \in Short
      BY ItemTyped
    <3>3. z = 1 \/ z = 2
      OBVIOUS
    <3> QED
      BY ONLY <3>1, <3>2, <3>3
  <2>3. Nat \subseteq Int
    OBVIOUS
  <2> QED
    BY ONLY <2>1, <2>2, <2>3
<1>4. PICK a \in Byte : a = Below(st, 0)
  BY ItemTyped
<1> DEFINE V(j) == Bytes(i, Item(st, (j - 1) * z, z))
           x == Item(st, 0, z)
           y == Item(st, z, z)
<1>5. \A v \in Int : Bytes(i, v) \in Seq(Byte)
  BY BytesTyped
<1>6. V(1) \in Seq(Byte) /\ V(2) \in Seq(Byte) /\ V(3) \in Seq(Byte)
  <2>1. (1 - 1) * z \in Int /\ (2 - 1) * z \in Int /\ (3 - 1) * z \in Int
    OBVIOUS
  <2> QED
    BY <1>3, <1>5, <2>1
<1>7. x \in Nat /\ y \in Nat
  BY <1>3
<1> HIDE DEF V, x, y
<1>8. CASE i.op \in {"POP", "JMP", "JCN", "JSR", "STH", "STZ", "STR", "STA", "DEO"}
  BY <1>8 DEF Puts, Compares, Sums
<1>9. CASE i.op = "INC"
  <2>1. Puts(i, n, taken) = Bytes(i, x + 1)
    BY <1>1, <1>2, <1>9 DEF Puts, x, Compares, Sums
  <2>2. x + 1 \in Int
    BY <1>7
  <2> QED
    BY <1>5, <2>1, <2>2
<1>10. CASE i.op \in {"NIP", "SWP", "ROT", "DUP", "OVR"}
  <2>1. /\ i.op = "NIP" => Puts(i, n, taken) = V(1)
        /\ i.op = "SWP" => Puts(i, n, taken) = V(1) \o V(2)
        /\ i.op = "ROT" => Puts(i, n, taken) = V(2) \o V(1) \o V(3)
        /\ i.op = "DUP" => Puts(i, n, taken) = V(1) \o V(1)
        /\ i.op = "OVR" => Puts(i, n, taken) = V(2) \o V(1) \o V(2)
    BY <1>1, <1>2, Zenon DEF Puts, V, Compares, Sums
  <2>2. /\ V(1) \o V(2) \in Seq(Byte) /\ V(1) \o V(1) \in Seq(Byte)
        /\ V(2) \o V(1) \in Seq(Byte)
    BY <1>6, ConcatProperties
  <2>3. V(2) \o V(1) \o V(3) \in Seq(Byte) /\ V(2) \o V(1) \o V(2) \in Seq(Byte)
    BY <1>6, <2>2, ConcatProperties
  <2>4. V(1) \in Seq(Byte)
    BY <1>6
  <2> QED
    BY ONLY <1>10, <2>1, <2>2, <2>3, <2>4, Zenon
<1>11. CASE i.op \in Compares
  <2>1. Puts(i, n, taken) = <<Result(i.op, y, x)>>
    BY <1>1, <1>2, <1>11 DEF Puts, x, y, Compares, Sums
  <2>2. Result(i.op, y, x) \in Byte
    BY <1>7, <1>11, ResultTyped
  <2> QED
    BY <2>1, <2>2
<1>12. CASE i.op \in Sums
  <2>1. Puts(i, n, taken) = Bytes(i, Result(i.op, y, x))
    BY <1>1, <1>2, <1>12 DEF Puts, x, y, Compares, Sums
  <2>2. Result(i.op, y, x) \in Int
    BY <1>7, <1>12, ResultTyped
  <2> QED
    BY <1>5, <2>1, <2>2
<1>13. CASE i.op = "SFT"
  <2>1. Puts(i, n, taken) = Bytes(i, Shifted(Item(st, 1, z), a))
    BY <1>1, <1>2, <1>4, <1>13 DEF Puts, Compares, Sums
  <2>2. Shifted(Item(st, 1, z), a) \in Int
    BY <1>3, ShiftedTyped
  <2> QED
    BY <1>5, <2>1, <2>2
<1>14. CASE i.op = "LDZ"
  <2>1. Puts(i, n, taken) = Pek(n, InLocal(n, a), z, ALL)
    BY <1>1, <1>2, <1>4, <1>14 DEF Puts, Compares, Sums
  <2>2. InLocal(n, a) \in Memory
    <3>1. n.dev[Local] \in Byte
      BY ByteAssumption, Fields DEF Byte, Local
    <3> QED
      BY <1>14, <3>1, Places DEF Reaches, InLocal
  <2> QED
    BY <2>1, <2>2, PekTyped
<1>15. CASE i.op = "LDR"
  <2>1. Puts(i, n, taken) = Pek(n, n.pc + Signed(a), z, PAGE_SIZE)
    BY <1>1, <1>2, <1>4, <1>15 DEF Puts, Compares, Sums
  <2>2. n.pc + Signed(a) \in Memory
    BY <1>1, <1>4, <1>15, Fields, Places DEF Reaches
  <2> QED
    BY <2>1, <2>2, PekTyped
<1>16. CASE i.op = "LDA"
  <2>1. PICK t \in Short : t = Item(st, 0, 2)
    BY ItemTyped
  <2>2. Puts(i, n, taken) = Pek(n, InLocal(n, t), z, ALL)
    BY <1>1, <1>2, <1>4, <1>16, <2>1 DEF Puts, Compares, Sums
  <2>3. InLocal(n, t) \in Memory
    <3>1. n.dev[Local] \in Byte
      BY ByteAssumption, Fields DEF Byte, Local
    <3> QED
      BY <1>16, <3>1, Places DEF Reaches, InLocal
  <2> QED
    BY <2>2, <2>3, PekTyped
<1>17. CASE i.op = "DEI"
  <2>1. Puts(i, n, taken) = DeiAll(taken, i, a)
    BY <1>1, <1>2, <1>4, <1>17 DEF Puts, Compares, Sums
  <2> QED
    BY <2>1, DeiAllTyped
<1>18. i.op \in {"POP", "JMP", "JCN", "JSR", "STH", "STZ", "STR", "STA", "DEO", "INC", "NIP", "SWP", "ROT",
                 "DUP", "OVR", "SFT", "LDZ", "LDR", "LDA", "DEI"} \cup Compares \cup Sums
  <2>1. \A k \in 1 .. 31 : Ops[k] \in {"POP", "JMP", "JCN", "JSR", "STH", "STZ", "STR", "STA", "DEO", "INC", "NIP",
                 "SWP", "ROT", "DUP", "OVR", "SFT", "LDZ", "LDR", "LDA", "DEI"} \cup Compares \cup Sums
    BY DEF Ops, Compares, Sums
  <2> QED
    BY <2>1 DEF Plains
<1> QED
  BY <1>8, <1>9, <1>10, <1>11, <1>12, <1>13, <1>14, <1>15, <1>16, <1>17, <1>18

\* Bytes are put on the other stack.
LEMMA PutsOtherTyped ==
  ASSUME NEW n \in Machine, NEW i \in Instr
  PROVE  PutsOther(i, n) \in Seq(Byte)
<1>1. PICK st \in Stack : st = n[Own(i)]
  BY InstrParts, Stacks
<1>2. PICK z \in {1, 2} : z = Size(i)
  BY InstrParts
<1>3. Item(st, 0, z) \in Int
  <2>1. Item(st, 0, 1) \in Byte
    BY ItemTyped
  <2>2. Item(st, 0, 2) \in Short
    BY ItemTyped
  <2>3. z = 1 \/ z = 2
    OBVIOUS
  <2> QED
    BY <2>1, <2>2, <2>3, Places
<1>4. Bytes(i, Item(st, 0, z)) \in Seq(Byte)
  BY <1>3, BytesTyped
<1>5. <<Hi(n.pc), Lo(n.pc)>> \in Seq(Byte)
  <2>1. n.pc \in Int
    BY Fields, Places
  <2>2. Hi(n.pc) \in Byte /\ Lo(n.pc) \in Byte
    BY <2>1, Widths
  <2> QED
    BY <2>2
<1> QED
  BY <1>1, <1>2, <1>4, <1>5 DEF PutsOther

\* It goes on somewhere in the first bank.
LEMMA GoesTyped ==
  ASSUME NEW n \in Machine, NEW i \in Instr
  PROVE  Goes(i, n) \in Short
<1>1. PICK st \in Stack : st = n[Own(i)]
  BY InstrParts, Stacks
<1>2. n.pc \in Short /\ n.pc \in Int
  BY Fields, Places
<1>3. CASE i.s
  <2>1. PICK x \in Short : x = Item(st, 0, 2)
    BY ItemTyped
  <2>2. Size(i) = 2
    BY <1>3 DEF Size
  <2>3. Goes(i, n) = x \/ Goes(i, n) = n.pc
    BY <1>1, <1>3, <2>1, <2>2 DEF Goes, Jump
  <2> QED
    BY <1>2, <2>3
<1>4. CASE ~i.s
  <2>1. PICK x \in Byte : x = Item(st, 0, 1)
    BY ItemTyped
  <2>2. Size(i) = 1
    BY <1>4 DEF Size
  <2>3. Goes(i, n) = (n.pc + Signed(x)) % PAGE_SIZE \/ Goes(i, n) = n.pc
    BY <1>1, <1>4, <2>1, <2>2 DEF Goes, Jump
  <2>4. n.pc + Signed(x) \in Int
    BY <1>2, SignedTyped
  <2> QED
    BY <1>2, <2>3, <2>4, Widths
<1> QED
  BY <1>3, <1>4

\* The operands are taken.
LEMMA TakenTyped ==
  ASSUME NEW n \in Machine, NEW i \in Instr
  PROVE  /\ Taken(n, i) \in Machine
         /\ Taken(n, i).ram = n.ram /\ Taken(n, i).dev = n.dev /\ Taken(n, i).pc = n.pc
         /\ Taken(n, i)[Other(i)] = n[Other(i)]
         /\ Taken(n, i)[Own(i)].dat = n[Own(i)].dat
         /\ Taken(n, i)[Own(i)].ptr = IF i.k THEN n[Own(i)].ptr ELSE (n[Own(i)].ptr - Takes(i)) % B
<1>1. CASE i.k
  BY <1>1 DEF Taken
<1>2. CASE ~i.k
  <2>1. PICK f \in {"wst", "rst"}, g \in {"wst", "rst"} : f = Own(i) /\ g = Other(i) /\ f # g
    BY InstrParts
  <2>2. PICK st \in Stack : st = n[f]
    BY Stacks
  <2>3. Takes(i) \in Int
    BY DEF Takes, Size
  <2>4. PICK p \in Byte : p = (st.ptr - Takes(i)) % B
    <3>1. PICK x \in Int, y \in Int : x = st.ptr /\ y = Takes(i)
      BY <2>3, StackFields, Places
    <3>2. x - y \in Int
      OBVIOUS
    <3> QED
      BY <3>1, <3>2, Widths
  <2>5. PICK t \in Stack : t = [st EXCEPT !.ptr = p] /\ t.dat = st.dat /\ t.ptr = p
    <3>1. [st EXCEPT !.ptr = p] \in Stack /\ [st EXCEPT !.ptr = p].ptr = p
          /\ [st EXCEPT !.ptr = p].dat = st.dat
      BY SetPtr
    <3> QED
      BY ONLY <3>1
  <2>6. Taken(n, i) = [n EXCEPT ![f] = t]
    <3>1. Taken(n, i) = [n EXCEPT ![f].ptr = (@ - Takes(i)) % B]
      BY <1>2, <2>1 DEF Taken
    <3>2. CASE f = "wst"
      BY <2>2, <2>4, <2>5, <3>1, <3>2 DEF Machine
    <3>3. CASE f = "rst"
      BY <2>2, <2>4, <2>5, <3>1, <3>3 DEF Machine
    <3> QED
      BY <3>2, <3>3
  <2>7. /\ [n EXCEPT ![f] = t] \in Machine
        /\ [n EXCEPT ![f] = t][f] = t
        /\ [n EXCEPT ![f] = t].ram = n.ram /\ [n EXCEPT ![f] = t].dev = n.dev
        /\ [n EXCEPT ![f] = t].pc = n.pc
        /\ f = "wst" => [n EXCEPT ![f] = t].rst = n.rst
        /\ f = "rst" => [n EXCEPT ![f] = t].wst = n.wst
    BY SetStack
  <2>8. PICK o \in Machine : /\ o = Taken(n, i)
                             /\ o[f] = t /\ o.ram = n.ram /\ o.dev = n.dev /\ o.pc = n.pc
                             /\ (f = "wst" => o.rst = n.rst) /\ (f = "rst" => o.wst = n.wst)
    BY ONLY <2>6, <2>7
  <2>9. o[g] = n[g]
    <3>1. (f = "wst" /\ g = "rst") \/ (f = "rst" /\ g = "wst")
      BY <2>1
    <3> QED
      BY <2>8, <3>1
  <2> QED
    BY ONLY <1>2, <2>1, <2>2, <2>4, <2>5, <2>8, <2>9
<1> QED
  BY <1>1, <1>2

\* The memory and the ports after an instruction.
LEMMA StoresTyped ==
  ASSUME NEW n \in Machine, NEW i \in Instr, Reaches(n, i), NEW taken \in Machine
  PROVE  Stores(i, n, taken) \in Machine
<1>1. PICK st \in Stack : st = n[Own(i)]
  BY InstrParts, Stacks
<1>2. PICK z \in {1, 2} : z = Size(i)
  BY InstrParts
<1>3. ASSUME NEW d \in Int PROVE Item(st, d, z) \in Int
  <2>1. Item(st, d, 1) \in Byte
    BY ItemTyped
  <2>2. Item(st, d, 2) \in Short
    BY ItemTyped
  <2>3. z = 1 \/ z = 2
    OBVIOUS
  <2> QED
    BY <2>1, <2>2, <2>3, Places
<1>4. PICK a \in Byte : a = Below(st, 0)
  BY ItemTyped
<1>5. PICK v \in Int : v = Item(st, 1, z)
  BY <1>3
<1>6. ASSUME NEW u \in Int PROVE Bytes(i, u) \in Seq(Byte) /\ Len(Bytes(i, u)) \in {1, 2}
  BY <1>2, BytesTyped
<1>7. CASE i.op = "STZ"
  <2>1. Stores(i, n, taken) = Pok(taken, InLocal(n, a), Bytes(i, v), ALL)
    BY <1>1, <1>2, <1>4, <1>5, <1>7 DEF Stores
  <2>2. InLocal(n, a) \in Memory
    <3>1. n.dev[Local] \in Byte
      BY ByteAssumption, Fields DEF Byte, Local
    <3> QED
      BY <1>7, <3>1, Places DEF Reaches, InLocal
  <2> QED
    BY <1>6, <2>1, <2>2, PokTyped
<1>8. CASE i.op = "STR"
  <2>1. Stores(i, n, taken) = Pok(taken, n.pc + Signed(a), Bytes(i, v), PAGE_SIZE)
    BY <1>1, <1>2, <1>4, <1>5, <1>8 DEF Stores
  <2>2. n.pc + Signed(a) \in Memory
    BY <1>1, <1>4, <1>8, Fields, Places DEF Reaches
  <2> QED
    BY <1>6, <2>1, <2>2, PokTyped
<1>9. CASE i.op = "STA"
  <2>1. PICK t \in Short : t = Item(st, 0, 2)
    BY ItemTyped
  <2>2. PICK u \in Int : u = Item(st, 2, z)
    BY <1>3
  <2>3. Stores(i, n, taken) = Pok(taken, InLocal(n, t), Bytes(i, u), ALL)
    BY <1>1, <1>2, <1>9, <2>1, <2>2 DEF Stores
  <2>4. InLocal(n, t) \in Memory
    <3>1. n.dev[Local] \in Byte
      BY ByteAssumption, Fields DEF Byte, Local
    <3> QED
      BY <1>9, <3>1, Places DEF Reaches, InLocal
  <2> QED
    BY <1>6, <2>3, <2>4, PokTyped
<1>10. CASE i.op = "DEO"
  <2>1. Stores(i, n, taken) = DeoAll(taken, i, a, Bytes(i, v))
    BY <1>1, <1>2, <1>4, <1>5, <1>10 DEF Stores
  <2> QED
    BY <2>1, DeoAllTyped
<1>11. CASE i.op \notin {"STZ", "STR", "STA", "DEO"}
  BY <1>11 DEF Stores
<1> QED
  BY <1>7, <1>8, <1>9, <1>10, <1>11

\* The parts of what an instruction makes of a machine.
LEMMA OperateParts ==
  ASSUME NEW n \in Machine, NEW i \in Instr, i.op \in Plains, Reaches(n, i),
         NEW o, o = Stores(i, n, Taken(n, i))
  PROVE  /\ Operate(n, i) \in Machine
         /\ Operate(n, i).ram = o.ram /\ Operate(n, i).dev = o.dev /\ Operate(n, i).pc = Goes(i, n)
         /\ Operate(n, i)[Own(i)] = Put(o[Own(i)], Puts(i, n, Taken(n, i)))
         /\ Operate(n, i)[Other(i)] = Put(o[Other(i)], PutsOther(i, n))
<1>1. PICK t \in Machine : t = Taken(n, i)
  BY TakenTyped
<1>2. o \in Machine
  BY <1>1, StoresTyped
<1>3. PICK q \in Short : q = Goes(i, n)
  BY GoesTyped
<1>4. PICK puts \in Seq(Byte), others \in Seq(Byte) : puts = Puts(i, n, t) /\ others = PutsOther(i, n)
  BY PutsTyped, PutsOtherTyped
<1>5. PICK f \in {"wst", "rst"}, g \in {"wst", "rst"} : f = Own(i) /\ g = Other(i) /\ f # g
  BY InstrParts
<1>6. PICK a \in Stack, b \in Stack : a = Put(o[f], puts) /\ b = Put(o[g], others)
  BY <1>2, Stacks, PutTyped
<1>7. Operate(n, i) = [[[o EXCEPT !.pc = q] EXCEPT ![f] = Put(@, puts)] EXCEPT ![g] = Put(@, others)]
  BY <1>1, <1>3, <1>4, <1>5 DEF Operate
<1>8. PICK r : r = [[[o EXCEPT !.pc = q] EXCEPT ![f] = a] EXCEPT ![g] = b]
  OBVIOUS
<1>9. CASE f = "wst" /\ g = "rst"
  <2>1. Operate(n, i) = r
    BY <1>2, <1>6, <1>7, <1>8, <1>9 DEF Machine
  <2>2. r \in Machine /\ r.ram = o.ram /\ r.dev = o.dev /\ r.pc = q /\ r.wst = a /\ r.rst = b
    BY <1>2, <1>8, <1>9 DEF Machine
  <2> QED
    BY ONLY <1>1, <1>3, <1>4, <1>5, <1>6, <1>9, <2>1, <2>2
<1>10. CASE f = "rst" /\ g = "wst"
  <2>1. Operate(n, i) = r
    BY <1>2, <1>6, <1>7, <1>8, <1>10 DEF Machine
  <2>2. r \in Machine /\ r.ram = o.ram /\ r.dev = o.dev /\ r.pc = q /\ r.rst = a /\ r.wst = b
    BY <1>2, <1>8, <1>10 DEF Machine
  <2> QED
    BY ONLY <1>1, <1>3, <1>4, <1>5, <1>6, <1>10, <2>1, <2>2
<1> QED
  BY <1>5, <1>9, <1>10

-----------------------------------------------------------------------------
(* A turn of the loop.                                                     *)

\* Going on.
LEMMA SkipTyped ==
  ASSUME NEW n \in Machine, NEW k \in Int
  PROVE  /\ Skip(n, k) \in Machine
         /\ Skip(n, k).pc = (n.pc + k) % PAGE_SIZE
         /\ Skip(n, k).ram = n.ram /\ Skip(n, k).dev = n.dev
         /\ Skip(n, k).wst = n.wst /\ Skip(n, k).rst = n.rst
<1>1. PICK q \in Short : q = (n.pc + k) % PAGE_SIZE
  <2>1. PICK x \in Int : x = n.pc
    BY Fields, Places
  <2>2. x + k \in Int
    OBVIOUS
  <2> QED
    BY <2>1, <2>2, Widths
<1>2. Skip(n, k) = [n EXCEPT !.pc = q]
  BY <1>1 DEF Skip, Machine
<1>3. /\ [n EXCEPT !.pc = q] \in Machine
      /\ [n EXCEPT !.pc = q].pc = q
      /\ [n EXCEPT !.pc = q].ram = n.ram /\ [n EXCEPT !.pc = q].dev = n.dev
      /\ [n EXCEPT !.pc = q].wst = n.wst /\ [n EXCEPT !.pc = q].rst = n.rst
  BY SetPc
<1> QED
  BY ONLY <1>1, <1>2, <1>3

\* A jump by what follows the opcode.
LEMMA JumpTyped ==
  ASSUME NEW n \in Machine
  PROVE  /\ JumpImmediate(n) \in Machine
         /\ JumpImmediate(n).pc = (n.pc + Peek2(n.ram, n.pc) + 2) % PAGE_SIZE
         /\ JumpImmediate(n).ram = n.ram /\ JumpImmediate(n).dev = n.dev
         /\ JumpImmediate(n).wst = n.wst /\ JumpImmediate(n).rst = n.rst
<1>1. PICK k \in Int : k = Peek2(n.ram, n.pc) + 2
  <2>1. n.pc \in 0 .. PAGE_SIZE + 14
    BY Fields, Pages DEF Short
  <2>2. Peek2(n.ram, n.pc) \in Int
    BY <2>1, Fields, PeekTyped, Places
  <2> QED
    BY <2>2
<1>2. JumpImmediate(n) = Skip(n, k) /\ (n.pc + k) % PAGE_SIZE = (n.pc + Peek2(n.ram, n.pc) + 2) % PAGE_SIZE
  <2>1. PICK x \in Int, y \in Int : x = n.pc /\ y = Peek2(n.ram, n.pc)
    <3>1. n.pc \in 0 .. PAGE_SIZE + 14
      BY Fields, Pages DEF Short
    <3>2. Peek2(n.ram, n.pc) \in Int
      BY <3>1, Fields, PeekTyped, Places
    <3> QED
      BY <3>2, Fields, Places
  <2>2. x + k = x + y + 2
    BY <1>1, <2>1
  <2>3. Skip(n, k) = [n EXCEPT !.pc = (x + k) % PAGE_SIZE]
    BY <2>1 DEF Skip
  <2>4. JumpImmediate(n) = [n EXCEPT !.pc = (x + y + 2) % PAGE_SIZE]
    BY <2>1 DEF JumpImmediate
  <2> QED
    BY ONLY <2>1, <2>2, <2>3, <2>4
<1>3. /\ Skip(n, k) \in Machine
      /\ Skip(n, k).pc = (n.pc + k) % PAGE_SIZE
      /\ Skip(n, k).ram = n.ram /\ Skip(n, k).dev = n.dev
      /\ Skip(n, k).wst = n.wst /\ Skip(n, k).rst = n.rst
  BY SkipTyped
<1> QED
  BY ONLY <1>2, <1>3

\* A machine is a machine after every instruction that does not leave the memory.
LEMMA StepTyped ==
  ASSUME NEW n \in Machine, NEW i \in Instr, Reaches(Skip(n, 1), i)
  PROVE  Step(n, i) \in Machine
<1>1. PICK o \in Machine : o = Skip(n, 1)
  <2>1. 1 \in Int
    OBVIOUS
  <2> QED
    BY <2>1, SkipTyped
<1>2. CASE i.op = "BRK"
  BY <1>1, <1>2 DEF Step
<1>3. CASE i.op = "JMI"
  <2>1. Step(n, i) = JumpImmediate(o)
    BY <1>1, <1>3 DEF Step
  <2> QED
    BY <2>1, JumpTyped
<1>4. CASE i.op = "JCI"
  <2>1. PICK st \in Stack : st = o.wst
    BY Fields
  <2>2. PICK p \in Byte : p = (st.ptr - 1) % B
    <3>1. PICK x \in Int : x = st.ptr
      BY StackFields, Places
    <3>2. x - 1 \in Int
      OBVIOUS
    <3> QED
      BY <3>1, <3>2, Widths
  <2>3. PICK t \in Stack : t = [st EXCEPT !.ptr = p]
    BY SetPtr
  <2>4. PICK q \in Machine : q = [o EXCEPT !.wst.ptr = (@ - 1) % B]
    <3>1. [o EXCEPT !.wst.ptr = (@ - 1) % B] = [o EXCEPT !.wst = t]
      BY <2>1, <2>2, <2>3 DEF Machine
    <3>2. [o EXCEPT !.wst = t] \in Machine
      BY DEF Machine
    <3> QED
      BY <3>1, <3>2
  <2>5. Step(n, i) = JumpImmediate(q) \/ Step(n, i) = Skip(q, 2)
    BY <1>1, <1>4, <2>4 DEF Step
  <2>6. JumpImmediate(q) \in Machine
    BY JumpTyped
  <2>7. Skip(q, 2) \in Machine
    <3>1. 2 \in Int
      OBVIOUS
    <3> QED
      BY <3>1, SkipTyped
  <2> QED
    BY <2>5, <2>6, <2>7
<1>5. CASE i.op = "JSI"
  <2>1. PICK c \in Short : c = (o.pc + 2) % PAGE_SIZE
    <3>1. PICK x \in Int : x = o.pc
      BY Fields, Places
    <3>2. x + 2 \in Int
      OBVIOUS
    <3> QED
      BY <3>1, <3>2, Widths
  <2>2. PICK bytes \in Seq(Byte) : bytes = <<Hi(c), Lo(c)>>
    <3>1. PICK x \in Byte, y \in Byte : x = Hi(c) /\ y = Lo(c)
      BY Bytewise
    <3>2. <<x, y>> \in Seq(Byte)
      OBVIOUS
    <3> QED
      BY <3>1, <3>2
  <2>3. PICK t \in Stack : t = Put(o.rst, bytes)
    BY Fields, PutTyped
  <2>4. PICK q \in Machine : q = [o EXCEPT !.rst = t]
    BY DEF Machine
  <2>5. Step(n, i) = JumpImmediate(q)
    <3>1. Step(n, i) = JumpImmediate([o EXCEPT !.rst = Put(@, bytes)])
      BY <1>1, <1>5, <2>1, <2>2 DEF Step
    <3>2. [o EXCEPT !.rst = Put(@, bytes)] = q
      BY <2>3, <2>4 DEF Machine
    <3> QED
      BY ONLY <3>1, <3>2
  <2> QED
    BY <2>5, JumpTyped
<1>6. CASE i.op = "LIT"
  <2>1. PICK z \in {1, 2} : z = Size(i)
    BY InstrParts
  <2>2. PICK v : v = [j \in 1 .. z |-> o.ram[(o.pc + j - 1) % PAGE_SIZE]]
    OBVIOUS
  <2>3. v \in Seq(Byte)
    <3>1. ASSUME NEW j \in 1 .. z PROVE o.ram[(o.pc + j - 1) % PAGE_SIZE] \in Byte
      <4>1. PICK x \in Int : x = o.pc
        BY Fields, Places
      <4>2. x + j - 1 \in Int
        OBVIOUS
      <4>3. (x + j - 1) % PAGE_SIZE \in Memory
        BY <4>2, Widths, FirstBank
      <4> QED
        BY <4>1, <4>3, Fields
    <3>2. v \in [1 .. z -> Byte]
      BY <2>2, <3>1
    <3> QED
      BY <3>2
  <2>4. PICK q \in Machine : q = Skip(o, z)
    <3>1. z \in Int
      OBVIOUS
    <3> QED
      BY <3>1, SkipTyped
  <2>5. PICK f \in {"wst", "rst"} : f = Own(i)
    BY InstrParts
  <2>6. PICK t \in Stack : t = Put(q[f], v)
    BY <2>3, Stacks, PutTyped
  <2>7. Step(n, i) = [q EXCEPT ![f] = Put(@, v)]
    BY <1>1, <1>6, <2>1, <2>2, <2>4, <2>5 DEF Step
  <2>8. [q EXCEPT ![f] = Put(@, v)] = [q EXCEPT ![f] = t]
    <3>1. CASE f = "wst"
      BY <2>6, <3>1 DEF Machine
    <3>2. CASE f = "rst"
      BY <2>6, <3>2 DEF Machine
    <3> QED
      BY <3>1, <3>2
  <2>9. [q EXCEPT ![f] = t] \in Machine
    BY SetStack
  <2> QED
    BY <2>7, <2>8, <2>9
<1>7. CASE i.op \notin Immediate
  <2>1. i.op \in Plains
    BY <1>7, InstrParts
  <2>2. Step(n, i) = Operate(o, i)
    BY <1>1, <1>7 DEF Step, Immediate
  <2>3. Reaches(o, i)
    BY <1>1
  <2>4. Operate(o, i) \in Machine
    BY <2>1, <2>3, OperateParts
  <2> QED
    BY <2>2, <2>4
<1> QED
  BY <1>2, <1>3, <1>4, <1>5, <1>6, <1>7 DEF Immediate

-----------------------------------------------------------------------------
(* The chain.                                                              *)

\* Every step of the chain is one of the assembler's, or leaves its state alone.
LEMMA ChainAssembles == Spec => AsmSpec
<1>1. Init => AsmInit
  BY DEF Init
<1>2. [Next]_vars => [AsmNext]_asm
  <2> SUFFICES ASSUME [Next]_vars PROVE AsmNext \/ UNCHANGED asm
    OBVIOUS
  <2> QED
    BY DEF Next, vars, Assemble, Boot, Eval, Restart
<1> QED
  BY <1>1, <1>2, PTL DEF Spec, AsmSpec

\* A file that is written holds the image from the program's place on, but for zeros at
\* its end.
Written ==
  \A a \in Short : a >= PAGE_PROGRAM =>
    IF a - PAGE_PROGRAM \in 0 .. Len(rom) - 1 THEN rom[a - PAGE_PROGRAM + 1] = data[a] ELSE data[a] = 0

\* The machine has its widths, and is the one that was started with until a ROM is booted.
ChainInv ==
  /\ m \in Machine
  /\ mode \in {"off", "run", "stopped"}
  /\ mode = "off" => m = Blank
  /\ phase = "built" => Written

\* The file is the image's.
LEMMA BuildWrites == ImageSound /\ Build => Written'
<1> SUFFICES ASSUME ImageSound, Build PROVE Written'
  OBVIOUS
<1>1. data \in [Short -> Byte] /\ length \in 0 .. PAGE_SIZE /\ Kept
  BY DEF ImageSound, AsmTypeOK
<1>2. data' = data /\ PAGE_PROGRAM' = PAGE_PROGRAM
  BY DEF Build, out
<1>3. PICK p \in Nat, s \in Nat : p = PAGE_PROGRAM /\ s = PAGE_SIZE /\ p \in 1 .. s - 1
  BY Pages
<1>4. PICK file : file = [a \in 1 .. s |-> data[a - 1]]
  OBVIOUS
<1>5. rom' = SubSeq(file, p + 1, length)
  BY <1>3, <1>4 DEF Build
<1>6. PICK l \in 0 .. s : l = length
  BY <1>1, <1>3
<1>7. rom' = [j \in 1 .. (IF p + 1 <= l THEN l - p ELSE 0) |-> file[j + p]]
  BY <1>5, <1>6
<1>8. Len(rom') = IF p + 1 <= l THEN l - p ELSE 0
  BY <1>7
<1>9. ASSUME NEW a \in Short, a >= p
      PROVE  IF a - p \in 0 .. Len(rom') - 1 THEN rom'[a - p + 1] = data[a] ELSE data[a] = 0
  <2>1. a \in 0 .. s - 1
    BY <1>3 DEF Short
  <2>2. CASE a - p \in 0 .. Len(rom') - 1
    <3>1. p + 1 <= l /\ a - p + 1 \in 1 .. l - p /\ a - p + 1 + p = a + 1
      BY <1>8, <2>1, <2>2
    <3>2. rom'[a - p + 1] = file[a + 1]
      BY <1>7, <3>1
    <3>3. file[a + 1] = data[a]
      BY <1>4, <2>1
    <3> QED
      BY <2>2, <3>2, <3>3
  <2>3. CASE a - p \notin 0 .. Len(rom') - 1
    <3>1. a \notin p .. l - 1
      BY <1>8, <1>9, <2>1, <2>3
    <3>2. data[a] = 0
      BY <1>1, <1>3, <1>6, <3>1 DEF Kept
    <3> QED
      BY <2>3, <3>2
  <2> QED
    BY <2>2, <2>3
<1> QED
  BY <1>2, <1>3, <1>9 DEF Written

\* A file that is written stays.
LEMMA WrittenStays == ImageSound /\ (phase = "built" => Written) /\ [Next]_vars => (phase = "built" => Written)'
<1> SUFFICES ASSUME ImageSound, phase = "built" => Written, [Next]_vars, phase' = "built" PROVE Written'
  OBVIOUS
<1>1. PAGE_PROGRAM' = PAGE_PROGRAM
  OBVIOUS
<1>2. CASE Build
  BY <1>2, BuildWrites
<1>3. CASE UNCHANGED <<phase, rom, data>>
  BY <1>3 DEF Written
<1>4. ASSUME AsmNext PROVE Build \/ UNCHANGED <<phase, rom, data>>
  <2>1. phase # "parse" => ~(WriteHex \/ WritePad \/ MakeLabel \/ CloseLambda \/ MakeRef \/ MakeMacro \/ WalkMacro)
    BY DEF WriteHex, WritePad, MakeLabel, CloseLambda, MakeRef, MakeMacro, WalkMacro, Reading
  <2>2. phase = "parse" /\ (WriteHex \/ WritePad \/ MakeLabel \/ CloseLambda \/ MakeRef \/ MakeMacro \/ WalkMacro)
          => phase' = "parse"
    BY DEF WriteHex, WritePad, MakeLabel, CloseLambda, MakeRef, MakeMacro, WalkMacro
  <2>3. ~ErrorAsm /\ ~ErrorRef /\ ~ParseEnds
    BY DEF ErrorAsm, ErrorRef, ParseEnds, Fails
  <2>4. ~ResolveRef
    BY DEF ResolveRef, Resolving
  <2> QED
    BY <1>4, <2>1, <2>2, <2>3, <2>4 DEF AsmNext
<1> QED
  BY <1>2, <1>3, <1>4 DEF Next, vars, Assemble, Boot, Eval, Restart, asm, out

\* A memory into which the file is loaded holds the image, where it held zeros.
LEMMA LoadsImage ==
  ASSUME Written, NEW r \in [Memory -> Byte], \A a \in Short : a >= PAGE_PROGRAM => r[a] = 0
  PROVE  /\ \A a \in Short : a >= PAGE_PROGRAM => Load(r, rom)[a] = data[a]
         /\ \A a \in Short : a < PAGE_PROGRAM => Load(r, rom)[a] = r[a]
<1>1. PAGE_PROGRAM \in Int /\ Short \subseteq Memory /\ Short \subseteq Int
  BY Pages, FirstBank, Places
<1>2. ASSUME NEW a \in Short
      PROVE  Load(r, rom)[a] = IF a - PAGE_PROGRAM \in 0 .. Len(rom) - 1 THEN rom[a - PAGE_PROGRAM + 1] ELSE r[a]
  BY <1>1 DEF Load
<1>3. ASSUME NEW a \in Short, a >= PAGE_PROGRAM PROVE Load(r, rom)[a] = data[a]
  BY <1>2, <1>3 DEF Written
<1>4. ASSUME NEW a \in Short, a < PAGE_PROGRAM PROVE Load(r, rom)[a] = r[a]
  <2>1. a - PAGE_PROGRAM \notin 0 .. Len(rom) - 1
    BY <1>1, <1>4
  <2> QED
    BY <1>2, <2>1
<1> QED
  BY <1>3, <1>4

\* Booting gives a machine that starts fresh.
LEMMA BootFresh ==
  ASSUME Written, NEW args \in BOOLEAN, NEW file \in Seq(Byte), file = rom, NEW n, n = Booted(Blank, file, args)
  PROVE  /\ n \in Machine
         /\ n.pc = PAGE_PROGRAM /\ n.wst.ptr = 0 /\ n.rst.ptr = 0
         /\ \A a \in Short : a >= PAGE_PROGRAM => n.ram[a] = data[a]
         /\ \A a \in Short : a < PAGE_PROGRAM => n.ram[a] = 0
         /\ \A p \in Byte : n.dev[p] # 0 => p = Type
<1>1. PICK o \in Machine : /\ o = Blank /\ o.wst.ptr = 0 /\ o.rst.ptr = 0
                           /\ \A a \in Memory : o.ram[a] = 0
                           /\ \A p \in Byte : o.dev[p] = 0
  BY BlankTyped
<1>2. /\ Booted(o, file, args) \in Machine
      /\ Booted(o, file, args).ram = Load(o.ram, file)
      /\ Booted(o, file, args).dev = [o.dev EXCEPT ![Type] = IF args THEN 1 ELSE 0]
      /\ Booted(o, file, args).pc = PAGE_PROGRAM
      /\ Booted(o, file, args).wst = o.wst /\ Booted(o, file, args).rst = o.rst
  BY BootedTyped
<1>3. /\ n \in Machine /\ n.ram = Load(o.ram, file) /\ n.pc = PAGE_PROGRAM /\ n.wst = o.wst /\ n.rst = o.rst
      /\ n.dev = [o.dev EXCEPT ![Type] = IF args THEN 1 ELSE 0]
  BY ONLY <1>1, <1>2, n = Booted(Blank, file, args)
<1>4. PICK r \in [Memory -> Byte] : r = o.ram
  BY Fields
<1>5. \A a \in Memory : r[a] = 0
  BY <1>1, <1>4
<1>6. \A a \in Short : r[a] = 0
  BY <1>5, FirstBank
<1>7. /\ \A a \in Short : a >= PAGE_PROGRAM => Load(r, rom)[a] = data[a]
      /\ \A a \in Short : a < PAGE_PROGRAM => Load(r, rom)[a] = r[a]
  BY <1>6, LoadsImage
<1>8. n.ram = Load(r, rom)
  BY <1>3, <1>4
<1>9. \A p \in Byte : n.dev[p] # 0 => p = Type
  BY <1>1, <1>3, Fields
<1> QED
  BY ONLY <1>1, <1>3, <1>6, <1>7, <1>8, <1>9

\* So does a restart, but for the zero page if it is soft.
LEMMA RestartFresh ==
  ASSUME Written, NEW soft \in BOOLEAN, NEW file \in Seq(Byte), file = rom, NEW o \in Machine,
         NEW n, n = Rebooted(o, soft, file)
  PROVE  /\ n \in Machine
         /\ n.pc = PAGE_PROGRAM /\ n.wst.ptr = 0 /\ n.rst.ptr = 0
         /\ \A a \in Short : a >= PAGE_PROGRAM => n.ram[a] = data[a]
         /\ \/ \A a \in Short : a < PAGE_PROGRAM => n.ram[a] = 0
            \/ \A a \in Short : a < PAGE_PROGRAM => n.ram[a] = o.ram[a]
         /\ \A p \in Byte : n.dev[p] = 0
<1>1. LET q == Rebooted(o, soft, file) IN
      /\ q \in Machine
      /\ q.pc = PAGE_PROGRAM /\ q.wst.ptr = 0 /\ q.rst.ptr = 0
      /\ \A p \in Byte : q.dev[p] = 0
      /\ q.ram = Load([a \in Memory |-> IF a < PAGE_SIZE /\ (soft => a >= PAGE_PROGRAM)
                                        THEN 0 ELSE o.ram[a]], file)
  BY RebootedTyped
<1>2. PICK r : r = [a \in Memory |-> IF a < PAGE_SIZE /\ (soft => a >= PAGE_PROGRAM) THEN 0 ELSE o.ram[a]]
  OBVIOUS
<1>3. /\ n \in Machine
      /\ n.pc = PAGE_PROGRAM /\ n.wst.ptr = 0 /\ n.rst.ptr = 0
      /\ \A p \in Byte : n.dev[p] = 0
      /\ n.ram = Load(r, rom)
  BY ONLY <1>1, <1>2, file = rom, n = Rebooted(o, soft, file)
<1>4. r \in [Memory -> Byte]
  <2>1. 0 \in Byte
    BY ByteAssumption DEF Byte
  <2> QED
    BY <1>2, <2>1, Fields
<1>5. \A a \in Short : /\ a >= PAGE_PROGRAM => r[a] = 0
                       /\ ~soft => r[a] = 0
                       /\ soft /\ a < PAGE_PROGRAM => r[a] = o.ram[a]
  <2>1. PAGE_PROGRAM \in Int /\ PAGE_SIZE \in Int
    BY Pages
  <2>2. \A a \in Short : a \in Int /\ a \in Memory /\ a < PAGE_SIZE
    BY <2>1, FirstBank DEF Short
  <2> QED
    BY <1>2, <2>1, <2>2
<1>6. /\ \A a \in Short : a >= PAGE_PROGRAM => Load(r, rom)[a] = data[a]
      /\ \A a \in Short : a < PAGE_PROGRAM => Load(r, rom)[a] = r[a]
  BY <1>4, <1>5, LoadsImage
<1> QED
  BY ONLY <1>3, <1>5, <1>6

\* The instructions that are evaluated stay in the memory.
LEMMA Evaluated ==
  ASSUME m \in Machine, NEW i \in Instructions
  PROVE  i \in Instr /\ Reaches(Skip(m, 1), i)
<1>1. m.ram[m.pc] \in Byte
  BY Fields, FirstBank
<1>2. i \in Instr
  BY <1>1, Decoded DEF Instructions
<1>3. PICK o : o = Skip(m, 1) /\ o.wst = m.wst /\ o.rst = m.rst /\ o.dev = m.dev
  <2>1. 1 \in Int
    OBVIOUS
  <2> QED
    BY <2>1, SkipTyped
<1>4. o[Own(i)] = m[Own(i)]
  <2>1. Own(i) = "wst" \/ Own(i) = "rst"
    BY <1>2, InstrParts
  <2> QED
    BY <1>3, <2>1
<1>5. Defined(i)
  BY DEF Instructions
<1> QED
  BY <1>2, <1>3, <1>4, <1>5 DEF Defined, Reaches, Before

\* The chain's invariant is one of its initial states and of its steps.
LEMMA ChainStarts == Init => ChainInv
<1> SUFFICES ASSUME Init PROVE ChainInv
  OBVIOUS
<1>1. m \in Machine
  BY MachinesAssumption, BlankTyped DEF Init
<1> QED
  BY <1>1 DEF Init, AsmInit, ChainInv

\* Evaluating an instruction keeps it.
LEMMA ChainEval ==
  ASSUME ChainInv, Eval
  PROVE  m' \in Machine /\ mode = "run" /\ mode' \in {"run", "stopped"}
<1>1. PICK i \in Instructions : m' = Step(m, i) /\ mode' = IF i.op = "BRK" THEN "stopped" ELSE "run"
  BY DEF Eval
<1>2. m \in Machine
  BY DEF ChainInv
<1>3. i \in Instr /\ Reaches(Skip(m, 1), i)
  BY <1>2, Evaluated
<1>4. Step(m, i) \in Machine
  BY <1>2, <1>3, StepTyped
<1> QED
  BY <1>1, <1>4 DEF Eval

\* A boot starts fresh, and keeps it.
LEMMA ChainBoot ==
  ASSUME ImageSound, ChainInv, Boot
  PROVE  /\ m' \in Machine /\ mode = "off" /\ mode' = "run"
         /\ m'.pc = PAGE_PROGRAM /\ m'.wst.ptr = 0 /\ m'.rst.ptr = 0
         /\ \A a \in Short : a >= PAGE_PROGRAM => m'.ram[a] = data[a]
         /\ \A a \in Short : a < PAGE_PROGRAM => m'.ram[a] = 0
         /\ \A p \in Byte : m'.dev[p] # 0 => p = Type
<1>1. Written /\ m = Blank /\ mode = "off" /\ mode' = "run"
  BY DEF ChainInv, Boot
<1>2. PICK file \in Seq(Byte) : file = rom
  BY DEF ImageSound, AsmTypeOK
<1>3. PICK args \in BOOLEAN : m' = Booted(Blank, file, args)
  BY <1>1, <1>2 DEF Boot
<1>4. PICK n : n = Booted(Blank, file, args)
  OBVIOUS
<1>5. /\ n \in Machine
      /\ n.pc = PAGE_PROGRAM /\ n.wst.ptr = 0 /\ n.rst.ptr = 0
      /\ \A a \in Short : a >= PAGE_PROGRAM => n.ram[a] = data[a]
      /\ \A a \in Short : a < PAGE_PROGRAM => n.ram[a] = 0
      /\ \A p \in Byte : n.dev[p] # 0 => p = Type
  BY ONLY <1>1, <1>2, <1>4, args \in BOOLEAN, file \in Seq(Byte), BootFresh
<1>6. m' = n
  BY <1>3, <1>4
<1> QED
  BY ONLY <1>1, <1>5, <1>6

\* So does a restart.
LEMMA ChainRestart ==
  ASSUME ImageSound, ChainInv, NEW soft \in BOOLEAN, Restart(soft)
  PROVE  /\ m' \in Machine /\ mode = "stopped" /\ mode' = "run"
         /\ m'.pc = PAGE_PROGRAM /\ m'.wst.ptr = 0 /\ m'.rst.ptr = 0
         /\ \A a \in Short : a >= PAGE_PROGRAM => m'.ram[a] = data[a]
         /\ \/ \A a \in Short : a < PAGE_PROGRAM => m'.ram[a] = 0
            \/ \A a \in Short : a < PAGE_PROGRAM => m'.ram[a] = m.ram[a]
         /\ \A p \in Byte : m'.dev[p] = 0
<1>1. Written /\ mode = "stopped" /\ mode' = "run"
  BY DEF ChainInv, Restart
<1>2. PICK file \in Seq(Byte) : file = rom
  BY DEF ImageSound, AsmTypeOK
<1>3. PICK o \in Machine : o = m
  BY DEF ChainInv
<1>4. m' = Rebooted(o, soft, file)
  BY <1>2, <1>3 DEF Restart
<1>5. PICK n : n = Rebooted(o, soft, file)
  OBVIOUS
<1>6. /\ n \in Machine
      /\ n.pc = PAGE_PROGRAM /\ n.wst.ptr = 0 /\ n.rst.ptr = 0
      /\ \A a \in Short : a >= PAGE_PROGRAM => n.ram[a] = data[a]
      /\ \/ \A a \in Short : a < PAGE_PROGRAM => n.ram[a] = 0
         \/ \A a \in Short : a < PAGE_PROGRAM => n.ram[a] = o.ram[a]
      /\ \A p \in Byte : n.dev[p] = 0
  BY ONLY <1>1, <1>2, <1>3, <1>5, soft \in BOOLEAN, file \in Seq(Byte), o \in Machine, RestartFresh
<1>7. m' = n
  BY <1>4, <1>5
<1> QED
  BY ONLY <1>1, <1>3, <1>6, <1>7

\* The chain's invariant is kept.
LEMMA ChainStep == ImageSound /\ ChainInv /\ [Next]_vars => ChainInv'
<1> SUFFICES ASSUME ImageSound, ChainInv, [Next]_vars PROVE ChainInv'
  OBVIOUS
<1>1. (phase = "built" => Written)'
  BY WrittenStays DEF ChainInv
<1>2. CASE UNCHANGED machine
  BY <1>1, <1>2 DEF machine, ChainInv
<1>3. CASE Boot
  BY <1>1, <1>3, ChainBoot DEF ChainInv
<1>4. CASE Eval
  BY <1>1, <1>4, ChainEval DEF ChainInv
<1>5. CASE \E soft \in BOOLEAN : Restart(soft)
  BY <1>1, <1>5, ChainRestart DEF ChainInv
<1> QED
  BY <1>2, <1>3, <1>4, <1>5 DEF Next, Assemble, vars

\* The image is sound and the machine has its widths, throughout the chain.
LEMMA ChainKept == Spec => [](ImageSound /\ ChainInv)
<1>1. Init => ChainInv
  BY ChainStarts
<1>2. ImageSound /\ ChainInv /\ [Next]_vars => ChainInv'
  BY ChainStep
<1>3. Spec => []ImageSound
  BY ChainAssembles, ImageKept, PTL
<1> QED
  BY <1>1, <1>2, <1>3, PTL DEF Spec

\* Whether it boots or restarts, whatever ran before: the core starts with the image the
\* assembler laid out, at the place its labels were given, and with nothing else but what
\* a soft restart leaves.
THEOREM EveryStartIsFresh == Spec => StartsFresh
<1>1. ASSUME ImageSound, ChainInv, [Next]_vars
      PROVE  [mode # "run" /\ mode' = "run" =>
       /\ m'.pc = PAGE_PROGRAM /\ m'.wst.ptr = 0 /\ m'.rst.ptr = 0
       /\ \A a \in Short : a >= PAGE_PROGRAM => m'.ram[a] = data[a]
       /\ \/ \A a \in Short : a < PAGE_PROGRAM => m'.ram[a] = 0
          \/ mode = "stopped" /\ \A a \in Short : a < PAGE_PROGRAM => m'.ram[a] = m.ram[a]
       /\ \A p \in Byte : m'.dev[p] # 0 => p = Type /\ mode = "off"]_vars
  <2> SUFFICES ASSUME mode # "run", mode' = "run"
               PROVE  /\ m'.pc = PAGE_PROGRAM /\ m'.wst.ptr = 0 /\ m'.rst.ptr = 0
                      /\ \A a \in Short : a >= PAGE_PROGRAM => m'.ram[a] = data[a]
                      /\ \/ \A a \in Short : a < PAGE_PROGRAM => m'.ram[a] = 0
                         \/ mode = "stopped" /\ \A a \in Short : a < PAGE_PROGRAM => m'.ram[a] = m.ram[a]
                      /\ \A p \in Byte : m'.dev[p] # 0 => p = Type /\ mode = "off"
    OBVIOUS
  <2>1. CASE Boot
    BY <1>1, <2>1, ChainBoot
  <2>2. CASE \E soft \in BOOLEAN : Restart(soft)
    BY <1>1, <2>2, ChainRestart
  <2>3. ~Eval /\ ~UNCHANGED machine
    BY DEF Eval, machine
  <2> QED
    BY <1>1, <2>1, <2>2, <2>3 DEF Next, Assemble, vars
<1> QED
  BY <1>1, ChainKept, PTL DEF Spec, StartsFresh

-----------------------------------------------------------------------------
(* The expansion port.                                                     *)

\* Whatever a program has written there, and at every moment: a copy whose direction suits
\* the overlap would move what is there, all of it, to where it belongs and nothing else.
THEOREM CopiesMoveAll == Spec => []ExpansionMoves
<1>1. ASSUME m \in Machine PROVE ExpansionMoves
  <2>1. PICK e \in Short : e = Peek2(m.dev, Expansion - 1)
    <3>1. 2 \in Byte /\ 3 \in Byte /\ Expansion - 1 = 2
      BY ByteAssumption DEF Byte, Expansion
    <3>2. m.dev[2] \in Byte /\ m.dev[3] \in Byte
      BY <1>1, <3>1, Fields
    <3> QED
      BY <3>1, <3>2, Bytewise DEF Peek2
  <2>2. PICK r \in [Memory -> Byte] : r = m.ram
    BY <1>1, Fields
  <2>3. PICK c : c = At(r, e)
    OBVIOUS
  <2>4. PICK ram : ram = Expanded(r, e)
    OBVIOUS
  <2>5. ASSUME c.op \in {1, 2}, c.bank >= BANKS \/ c.dstBank >= BANKS PROVE ram = r
    <3>1. PICK up : up = [j \in 1 .. c.length |-> j - 1]
      OBVIOUS
    <3>2. Copy(r, c, up) = r /\ Copy(r, c, Reverse(up)) = r
      BY <2>5 DEF Copy
    <3>3. ram = CASE c.op = 0 -> Fill(r, c)
                  [] c.op = 1 -> Copy(r, c, up)
                  [] c.op = 2 -> Copy(r, c, Reverse(up))
                  [] OTHER    -> r
      BY <2>3, <2>4, <3>1 DEF Expanded
    <3> QED
      BY <2>5, <3>2, <3>3
  <2>6. ASSUME c.op \in {1, 2}, ~(c.bank >= BANKS), ~(c.dstBank >= BANKS), Safe(c)
        PROVE  /\ \A j \in 0 .. c.length - 1 : ram[InBank(c.dstBank, c.dst, j)] = r[InBank(c.bank, c.addr, j)]
               /\ \A a \in Memory : (\A j \in 0 .. c.length - 1 : a # InBank(c.dstBank, c.dst, j)) => ram[a] = r[a]
    <3>1. /\ \A j \in 0 .. c.length - 1 : Expanded(r, e)[InBank(c.dstBank, c.dst, j)] = r[InBank(c.bank, c.addr, j)]
          /\ \A a \in Memory : (\A j \in 0 .. c.length - 1 : a # InBank(c.dstBank, c.dst, j))
                                => Expanded(r, e)[a] = r[a]
      BY <2>3, <2>6, SafeMoves
    <3> QED
      BY ONLY <2>4, <3>1
  <2>7. PICK to : to = [j \in 0 .. c.length - 1 |-> InBank(c.dstBank, c.dst, j)]
    OBVIOUS
  <2>8. ASSUME c.op \in {1, 2}, ~(c.bank >= BANKS), ~(c.dstBank >= BANKS), Safe(c)
        PROVE  /\ \A j \in DOMAIN to : ram[to[j]] = r[InBank(c.bank, c.addr, j)]
               /\ \A a \in Memory \ {to[j] : j \in DOMAIN to} : ram[a] = r[a]
    <3>1. DOMAIN to = 0 .. c.length - 1 /\ \A j \in 0 .. c.length - 1 : to[j] = InBank(c.dstBank, c.dst, j)
      BY <2>7
    <3>2. \A a \in Memory \ {to[j] : j \in DOMAIN to} : \A j \in 0 .. c.length - 1 : a # InBank(c.dstBank, c.dst, j)
      BY <3>1
    <3> QED
      BY <2>6, <2>8, <3>1, <3>2
  <2>9. (c.op \in {1, 2}) =>
         IF c.bank >= BANKS \/ c.dstBank >= BANKS THEN ram = r
         ELSE Safe(c) =>
                /\ \A j \in DOMAIN to : ram[to[j]] = Source(c, j)
                /\ \A a \in Memory \ {to[j] : j \in DOMAIN to} : ram[a] = r[a]
    BY <2>2, <2>5, <2>8 DEF Source
  <2> QED
    BY ONLY <2>1, <2>2, <2>3, <2>4, <2>7, <2>9 DEF ExpansionMoves
<1> QED
  BY <1>1, ChainKept, PTL DEF ChainInv

-----------------------------------------------------------------------------
(* Stores.                                                                 *)

\* The bank of an address.
LEMMA BankOf ==
  ASSUME NEW b \in Nat, NEW r \in Short
  PROVE  (b * PAGE_SIZE + r) \div PAGE_SIZE = b
<1>1. PICK p \in Nat \ {0} : p = PAGE_SIZE
  BY Pages
<1>2. r \in 0 .. p - 1
  BY <1>1 DEF Short
<1>3. (b * p + r) \div p = b
  BY <1>2, Z3
<1> QED
  BY <1>1, <1>3

\* The places a store writes, and their banks: the one after a bank's last place is the next
\* bank's first one.
LEMMA StorePlaces ==
  ASSUME NEW d \in Byte, d < BANKS, NEW t \in Short
  PROVE  /\ (t + d * PAGE_SIZE) \div PAGE_SIZE = d
         /\ t < PAGE_SIZE - 1 => ((t + d * PAGE_SIZE + 1) % ALL) \div PAGE_SIZE = d
         /\ t = PAGE_SIZE - 1 => (t + d * PAGE_SIZE + 1) % ALL = ((d + 1) * PAGE_SIZE) % ALL
<1>1. PICK p \in Nat \ {0} : p = PAGE_SIZE
  BY Pages
<1>2. PICK q \in Nat : q = d * p
  BY Pages DEF Byte
<1>3. t \in 0 .. p - 1 /\ d \in Nat
  BY <1>1, Pages DEF Short, Byte
<1>4. (q + t) \div p = d
  BY <1>1, <1>2, <1>3, BankOf
<1>5. t < p - 1 => ((t + q + 1) % ALL) \div p = d
  <2> SUFFICES ASSUME t < p - 1 PROVE ((t + q + 1) % ALL) \div p = d
    OBVIOUS
  <2>1. t + 1 \in Short /\ t + 1 \in Nat
    BY <1>1, <1>3 DEF Short
  <2>2. d \in 0 .. BANKS - 1
    BY <1>3, BanksAssumption
  <2>3. q + (t + 1) \in Memory
    BY <1>1, <1>2, <2>1, <2>2, BankAndPlace
  <2>4. ALL \in Nat \ {0} /\ q + (t + 1) \in 0 .. ALL - 1
    <3>1. ALL \in Nat \ {0}
      BY BanksAssumption, Pages, Z3 DEF ALL
    <3> QED
      BY <2>3, <3>1 DEF Memory, ALL
  <2>5. (q + (t + 1)) % ALL = q + (t + 1)
    <3>1. q + (t + 1) \in Int
      BY <2>1
    <3> QED
      BY ONLY <2>4, <3>1, Remainder
  <2>6. (q + (t + 1)) \div p = d
    BY <1>1, <1>2, <1>3, <2>1, BankOf
  <2>7. t + q + 1 = q + (t + 1)
    BY <1>3
  <2> QED
    BY ONLY <2>5, <2>6, <2>7
<1>6. t = p - 1 => t + q + 1 = (d + 1) * p
  BY <1>2, <1>3
<1>7. t + q = q + t
  BY <1>3
<1> QED
  BY ONLY <1>1, <1>2, <1>4, <1>5, <1>6, <1>7

\* What a store changes is where it was sent.
LEMMA StoreStays ==
  ASSUME NEW n \in Machine, NEW i \in Instr, i.op \in {"STZ", "STA", "STR"}, NEW o, o = Skip(n, 1),
         Reaches(o, i), NEW x \in Memory, Step(n, i).ram[x] # n.ram[x]
  PROVE  LET bank == IF i.op = "STR" THEN 0 ELSE n.dev[Local] IN
         \/ x \div PAGE_SIZE = bank
         \/ i.op = "STA" /\ i.s /\ Item(n[Own(i)], 0, 2) = PAGE_SIZE - 1
              /\ x = ((bank + 1) * PAGE_SIZE) % ALL
         \/ i.op = "STR" /\ x >= PAGE_SIZE /\ x = o.pc + Signed(Below(n[Own(i)], 0))
<1>1. o \in Machine /\ o.ram = n.ram /\ o.dev = n.dev /\ o.wst = n.wst /\ o.rst = n.rst
  <2>1. 1 \in Int
    OBVIOUS
  <2> QED
    BY <2>1, SkipTyped
<1>2. PICK st \in Stack : st = n[Own(i)] /\ st = o[Own(i)]
  <2>1. Own(i) = "wst" \/ Own(i) = "rst"
    BY InstrParts
  <2> QED
    BY <1>1, <2>1, Fields
<1>3. PICK taken \in Machine : taken = Taken(o, i) /\ taken.ram = n.ram
  BY <1>1, TakenTyped
<1>4. i.op \in Plains /\ Step(n, i) = Operate(o, i)
  <2>1. i.op \notin Immediate
    BY DEF Immediate
  <2> QED
    BY <2>1, InstrParts DEF Step, Immediate
<1>5. PICK s : s = Stores(i, o, taken) /\ s.ram[x] # taken.ram[x]
  <2>1. PICK s : s = Stores(i, o, taken)
    OBVIOUS
  <2>2. Operate(o, i).ram = s.ram
    BY <1>1, <1>3, <1>4, <2>1, OperateParts
  <2> QED
    BY <1>3, <1>4, <2>1, <2>2
<1>6. PICK z \in {1, 2} : z = Size(i) /\ (z = 2 <=> i.s)
  BY InstrParts
<1>7. ASSUME NEW d \in Int PROVE Bytes(i, Item(st, d, z)) \in Seq(Byte) /\ Len(Bytes(i, Item(st, d, z))) = z
  <2>1. Item(st, d, 1) \in Byte
    BY ItemTyped
  <2>2. Item(st, d, 2) \in Short
    BY ItemTyped
  <2>3. z = 1 \/ z = 2
    OBVIOUS
  <2>4. Item(st, d, z) \in Int
    BY <2>1, <2>2, <2>3, Places
  <2> QED
    BY <1>6, <2>4, BytesTyped
<1>8. PICK a \in Byte : a = Below(st, 0)
  BY ItemTyped
<1>9. PICK d \in Byte : d = n.dev[Local]
  <2>1. Local \in Byte
    BY ByteAssumption DEF Byte, Local
  <2> QED
    BY <2>1, Fields
<1>10. CASE i.op = "STZ"
  <2>1. PICK y \in Seq(Byte) : y = Bytes(i, Item(st, 1, z)) /\ Len(y) = z
    <3>1. 1 \in Int
      OBVIOUS
    <3> QED
      BY <1>7, <3>1
  <2>2. PICK l \in Memory : l = a + d * PAGE_SIZE
    BY <1>1, <1>9, <1>10, Places DEF Reaches
  <2>3. s = Pok(taken, l, y, ALL)
    BY <1>1, <1>2, <1>5, <1>6, <1>8, <1>9, <1>10, <2>1, <2>2 DEF Stores, InLocal
  <2>4. x = l \/ x = (l + 1) % ALL
    <3>1. Len(y) \in {1, 2} /\ ALL \in {ALL, PAGE_SIZE}
      BY <2>1
    <3>2. \A u \in Memory : Pok(taken, l, y, ALL).ram[u] # taken.ram[u]
                             => u = l \/ (Len(y) = 2 /\ u = (l + 1) % ALL)
      BY <3>1, PokTyped
    <3> QED
      BY <1>5, <2>1, <2>3, <3>2
  <2>5. a \in Short /\ a < PAGE_SIZE - 1 /\ d < BANKS
    <3>1. B < PAGE_SIZE
      BY ByteAssumption, Z3 DEF PAGE_SIZE
    <3> QED
      BY <1>1, <1>9, <1>10, <3>1, Pages DEF Byte, Short, Reaches
  <2>6. x \div PAGE_SIZE = d
    BY <2>2, <2>4, <2>5, StorePlaces
  <2> QED
    BY <1>9, <1>10, <2>6
<1>11. CASE i.op = "STA"
  <2>1. PICK y \in Seq(Byte) : y = Bytes(i, Item(st, 2, z)) /\ Len(y) = z
    <3>1. 2 \in Int
      OBVIOUS
    <3> QED
      BY <1>7, <3>1
  <2>2. PICK t \in Short : t = Item(st, 0, 2)
    BY ItemTyped
  <2>3. PICK l \in Memory : l = t + d * PAGE_SIZE
    BY <1>1, <1>9, <1>11, Places DEF Reaches
  <2>4. s = Pok(taken, l, y, ALL)
    BY <1>1, <1>2, <1>5, <1>6, <1>9, <1>11, <2>1, <2>2, <2>3 DEF Stores, InLocal
  <2>5. x = l \/ (i.s /\ x = (l + 1) % ALL)
    <3>1. Len(y) \in {1, 2} /\ ALL \in {ALL, PAGE_SIZE}
      BY <2>1
    <3>2. \A u \in Memory : Pok(taken, l, y, ALL).ram[u] # taken.ram[u]
                             => u = l \/ (Len(y) = 2 /\ u = (l + 1) % ALL)
      BY <3>1, PokTyped
    <3> QED
      BY <1>5, <1>6, <2>1, <2>4, <3>2
  <2>6. d < BANKS /\ (t < PAGE_SIZE - 1 \/ t = PAGE_SIZE - 1)
    BY <1>1, <1>9, <1>11, Pages DEF Short, Reaches
  <2>7. x \div PAGE_SIZE = d \/ (i.s /\ t = PAGE_SIZE - 1 /\ x = ((d + 1) * PAGE_SIZE) % ALL)
    BY <2>3, <2>5, <2>6, StorePlaces
  <2> QED
    BY <1>2, <1>9, <1>11, <2>2, <2>7
<1>12. CASE i.op = "STR"
  <2>1. PICK y \in Seq(Byte) : y = Bytes(i, Item(st, 1, z)) /\ Len(y) = z
    <3>1. 1 \in Int
      OBVIOUS
    <3> QED
      BY <1>7, <3>1
  <2>2. PICK l \in Memory : l = o.pc + Signed(a) /\ l >= 0
    BY <1>1, <1>2, <1>8, <1>12, Fields, Places DEF Reaches
  <2>3. s = Pok(taken, l, y, PAGE_SIZE)
    BY <1>2, <1>5, <1>6, <1>8, <1>12, <2>1, <2>2 DEF Stores
  <2>4. x = l \/ x = (l + 1) % PAGE_SIZE
    <3>1. Len(y) \in {1, 2} /\ PAGE_SIZE \in {ALL, PAGE_SIZE}
      BY <2>1
    <3>2. \A u \in Memory : Pok(taken, l, y, PAGE_SIZE).ram[u] # taken.ram[u]
                             => u = l \/ (Len(y) = 2 /\ u = (l + 1) % PAGE_SIZE)
      BY <3>1, PokTyped
    <3> QED
      BY <1>5, <2>1, <2>3, <3>2
  <2>5. ASSUME NEW u \in Short PROVE u \div PAGE_SIZE = 0
    <3>1. u = 0 * PAGE_SIZE + u
      BY Pages, Places
    <3> QED
      BY <3>1, BankOf
  <2>6. l \in Int /\ (l + 1) % PAGE_SIZE \in Short
    <3>1. l \in Int
      BY Places
    <3>2. l + 1 \in Int
      BY <3>1
    <3> QED
      BY <3>1, <3>2, Widths
  <2>7. l >= PAGE_SIZE \/ l \in Short
    BY <2>2, <2>6, Pages DEF Short
  <2>8. x \div PAGE_SIZE = 0 \/ (x >= PAGE_SIZE /\ x = l)
    BY <2>4, <2>5, <2>6, <2>7
  <2> QED
    BY <1>2, <1>8, <1>12, <2>2, <2>8
<1> QED
  BY <1>10, <1>11, <1>12

\* The machine keeps its widths through every instruction whose addresses lie in the memory,
\* and a store stays in the bank it is meant for, but for one byte: the second of a short at a
\* bank's last address, or the first of a store relative to the code that runs over the end of
\* the first bank (uxn.c: STZ, STA, STR).
THEOREM StoresStayInTheirBank == Spec => []Confined
<1>1. ASSUME m \in Machine PROVE Confined
  <2>1. ASSUME NEW i \in Instructions, i.op \in {"STZ", "STA", "STR"},
               NEW x \in Memory, Step(m, i).ram[x] # m.ram[x]
        PROVE  LET bank == IF i.op = "STR" THEN 0 ELSE m.dev[Local] IN
               \/ x \div PAGE_SIZE = bank
               \/ i.op = "STA" /\ i.s /\ Item(m[Own(i)], 0, 2) = PAGE_SIZE - 1
                    /\ x = ((bank + 1) * PAGE_SIZE) % ALL
               \/ i.op = "STR" /\ x >= PAGE_SIZE /\ x = Before.pc + Signed(Below(m[Own(i)], 0))
    <3>1. i \in Instr /\ Reaches(Skip(m, 1), i)
      BY <1>1, Evaluated
    <3> QED
      BY <1>1, <2>1, <3>1, StoreStays DEF Before
  <2> QED
    BY <1>1, <2>1 DEF Confined
<1> QED
  BY <1>1, ChainKept, PTL DEF ChainInv

-----------------------------------------------------------------------------
(* References.                                                             *)

\* A reference whose bytes are in the image.
Done(r) ==
  /\ Known(r) /\ Fits(r)
  /\ \A k \in 0 .. Width(r.rune) - 1 : data[r.addr + k] = Value(r)[k + 1]

\* The references that were resolved are there, all of them before the file is written.
ResolveInv ==
  /\ phase = "parse" => resolved = 0
  /\ phase = "built" => resolved = Len(refs)
  /\ \A i \in 1 .. resolved : Done(refs[i])

\* Where a reference lies.
LEMMA RefPlaces ==
  ASSUME ImageSound, NEW i \in DOMAIN refs
  PROVE  LET r == refs[i] IN
         /\ r.addr \in Short /\ r.rune \in Runes /\ Width(r.rune) \in {1, 2}
         /\ \A k \in 0 .. Width(r.rune) - 1 :
              r.addr + k \in Place(r) /\ r.addr + k \in Short /\ r.addr + k >= PAGE_PROGRAM
         /\ r.addr + Width(r.rune) - 1 < PAGE_SIZE
<1>1. PICK r : r = refs[i] /\ r.addr \in Short /\ r.rune \in Runes
  <2>1. refs \in Seq([name : Name, rune : Runes, addr : Short])
    BY DEF ImageSound, AsmTypeOK
  <2>2. i \in 1 .. Len(refs)
    BY <2>1, LenProperties
  <2>3. refs[i] \in [name : Name, rune : Runes, addr : Short]
    BY <2>1, <2>2, ElementOfSeq
  <2> QED
    BY <2>3
<1>2. PICK w \in {1, 2} : w = Width(r.rune)
  BY <1>1, Placeholders
<1>3. PICK a \in Nat : a = r.addr
  BY <1>1, Pages DEF Short
<1>4. a .. a + w - 1 \subseteq PAGE_PROGRAM .. length - 1
  BY <1>1, <1>2, <1>3 DEF ImageSound, RefsApart, Place
<1>5. PICK l \in Nat, p \in Nat, s \in Nat : l = length /\ p = PAGE_PROGRAM /\ s = PAGE_SIZE /\ l <= s
  BY Pages DEF ImageSound, AsmTypeOK
<1>6. \A k \in 0 .. w - 1 : a + k \in a .. a + w - 1
  BY <1>3
<1>7. \A k \in 0 .. w - 1 : a + k \in p .. l - 1
  BY <1>4, <1>5, <1>6
<1>8. \A k \in 0 .. w - 1 : a + k \in 0 .. s - 1 /\ a + k >= p
  BY <1>5, <1>7
<1>9. a + w - 1 < s
  <2>1. w - 1 \in 0 .. w - 1 /\ a + (w - 1) = a + w - 1
    BY ONLY a \in Nat, w \in {1, 2}
  <2> QED
    BY <1>5, <1>7, <2>1
<1> QED
  BY <1>1, <1>2, <1>3, <1>5, <1>6, <1>8, <1>9 DEF Place, Short

\* What the names of a reference mean does not change when the labels do not.
LEMMA DoneStays ==
  ASSUME UNCHANGED <<labels, scope, data>>, NEW r
  PROVE  Done(r) => Done(r)'
<1>1. Named(labels, r.name)' = Named(labels, r.name)
  BY DEF Named, Full
<1>2. Known(r)' = Known(r) /\ Label(r)' = Label(r)
  BY <1>1 DEF Known, Label, Find
<1>3. Rel(r)' = Rel(r)
  BY <1>2 DEF Rel
<1>4. Fits(r)' = Fits(r) /\ Value(r)' = Value(r)
  BY <1>2, <1>3 DEF Fits, Value
<1> QED
  BY <1>2, <1>4 DEF Done

\* Resolving one reference writes its bytes and leaves those of the others.
LEMMA ResolvesOne ==
  ASSUME ImageSound, ResolveInv, ResolveRef
  PROVE  ResolveInv'
<1>1. phase = "resolve" /\ phase' = phase /\ refs' = refs /\ labels' = labels /\ scope' = scope
      /\ resolved' = resolved + 1 /\ Known(ref) /\ Fits(ref)
  BY DEF ResolveRef, Resolving, names
<1>2. resolved \in Nat /\ resolved + 1 \in DOMAIN refs /\ DOMAIN refs = 1 .. Len(refs)
  <2>1. refs \in Seq([name : Name, rune : Runes, addr : Short]) /\ resolved \in 0 .. Len(refs)
    BY DEF ImageSound, AsmTypeOK
  <2>2. resolved < Len(refs)
    BY DEF ResolveRef, Resolving
  <2> QED
    BY <2>1, <2>2, LenProperties
<1>3. PICK r : r = ref /\ r = refs[resolved + 1]
  BY DEF ref
<1>4. data' = [a \in Short |-> IF a - r.addr \in 0 .. Width(r.rune) - 1
                               THEN Value(r)[a - r.addr + 1] ELSE data[a]]
  BY <1>3 DEF ResolveRef
<1>5. r.addr \in Int /\ Width(r.rune) \in Int
      /\ \A k \in 0 .. Width(r.rune) - 1 : r.addr + k \in Short /\ r.addr + k \in Place(r)
  <2>1. /\ r.addr \in Short /\ Width(r.rune) \in {1, 2}
        /\ \A k \in 0 .. Width(r.rune) - 1 : r.addr + k \in Place(r) /\ r.addr + k \in Short
    BY <1>2, <1>3, RefPlaces
  <2>2. r.addr \in Int
    BY <2>1, Places
  <2>3. Width(r.rune) \in Int
    BY <2>1
  <2> QED
    BY ONLY <2>1, <2>2, <2>3
<1>6. \A q : Known(q)' = Known(q) /\ Fits(q)' = Fits(q) /\ Value(q)' = Value(q)
  BY <1>1 DEF Known, Fits, Rel, Label, Find, Named, Value, Full
<1>7. ASSUME NEW k \in 0 .. Width(r.rune) - 1 PROVE data'[r.addr + k] = Value(r)[k + 1]
  <2>1. r.addr + k - r.addr = k
    BY <1>5
  <2> QED
    BY <1>4, <1>5, <2>1
<1>8. Done(r)'
  BY <1>1, <1>3, <1>6, <1>7 DEF Done
<1>9. ASSUME NEW i \in 1 .. resolved PROVE Done(refs[i])'
  <2>1. i \in DOMAIN refs /\ i # resolved + 1
    BY <1>2
  <2>2. PICK q : q = refs[i] /\ Done(q)
    BY DEF ResolveInv
  <2>3. Place(q) \cap Place(r) = {}
    BY <1>2, <1>3, <2>1, <2>2 DEF ImageSound, RefsApart
  <2>4. \A k \in 0 .. Width(q.rune) - 1 : q.addr + k \in Short /\ q.addr + k \in Place(q) /\ q.addr + k \in Int
    BY <2>1, <2>2, RefPlaces, Places
  <2>5. ASSUME NEW k \in 0 .. Width(q.rune) - 1 PROVE data'[q.addr + k] = data[q.addr + k]
    <3>1. q.addr + k \notin Place(r)
      BY <2>3, <2>4
    <3>2. PICK a \in Short : a = q.addr + k /\ a \in Int
      BY <2>4
    <3>3. a - r.addr \notin 0 .. Width(r.rune) - 1
      <4>1. PICK x \in Int, w \in Int : x = r.addr /\ w = Width(r.rune)
        BY <1>5
      <4>2. a \notin x .. x + w - 1
        BY <3>1, <3>2, <4>1 DEF Place
      <4> QED
        BY <3>2, <4>1, <4>2
    <3> QED
      BY <1>4, <3>2, <3>3
  <2>6. Known(q)' /\ Fits(q)' /\ \A k \in 0 .. Width(q.rune) - 1 : data'[q.addr + k] = Value(q)'[k + 1]
    BY <1>6, <2>2, <2>5 DEF Done
  <2> QED
    BY <1>1, <2>2, <2>6 DEF Done
<1>10. \A i \in 1 .. resolved' : i \in 1 .. resolved \/ i = resolved + 1
  BY <1>1, <1>2
<1> QED
  BY <1>1, <1>3, <1>8, <1>9, <1>10 DEF ResolveInv

\* The assembler keeps it.
LEMMA ResolveKept == AsmSpec => []ResolveInv
<1>1. AsmInit => ResolveInv
  BY DEF AsmInit, ResolveInv
<1>2. ImageSound /\ ResolveInv /\ [AsmNext]_asm => ResolveInv'
  <2> SUFFICES ASSUME ImageSound, ResolveInv, [AsmNext]_asm PROVE ResolveInv'
    OBVIOUS
  <2>1. CASE ResolveRef
    BY <2>1, ResolvesOne
  <2>2. CASE /\ phase = "parse"
             /\ WriteHex \/ WritePad \/ MakeLabel \/ CloseLambda \/ MakeRef \/ MakeMacro \/ WalkMacro
    <3>1. phase' = "parse" /\ resolved' = 0
      BY <2>2 DEF ResolveInv, WriteHex, WritePad, MakeLabel, CloseLambda, MakeRef, MakeMacro, WalkMacro
    <3> QED
      BY <3>1 DEF ResolveInv
  <2>3. CASE ErrorAsm \/ ParseEnds \/ ErrorRef \/ Build \/ UNCHANGED asm
    <3>1. UNCHANGED <<labels, scope, data>> /\ refs' = refs /\ resolved' = resolved
      BY <2>3 DEF ErrorAsm, ErrorRef, Fails, ParseEnds, Build, out, names, asm
    <3>2. (phase' = "parse" => phase = "parse") /\ (phase' = "built" => phase = "built" \/ resolved = Len(refs))
      BY <2>3 DEF ErrorAsm, ErrorRef, Fails, ParseEnds, Build, asm
    <3>3. ASSUME NEW i \in 1 .. resolved PROVE Done(refs[i])'
      <4>1. PICK r : r = refs[i] /\ Done(r)
        BY DEF ResolveInv
      <4>2. Done(r)'
        BY <3>1, <4>1, DoneStays
      <4>3. (Known(r) <=> Known(refs[i]))' /\ (Fits(r) <=> Fits(refs[i]))'
            /\ (Width(r.rune) = Width(refs[i].rune))' /\ (Value(r) = Value(refs[i]))'
            /\ (r.addr = refs[i].addr)'
        BY <3>1, <4>1
      <4> QED
        BY <3>1, <4>1, <4>2
    <3> QED
      BY <3>1, <3>2, <3>3 DEF ResolveInv
  <2>4. phase # "parse" => ~(WriteHex \/ WritePad \/ MakeLabel \/ CloseLambda \/ MakeRef \/ MakeMacro \/ WalkMacro)
    BY DEF WriteHex, WritePad, MakeLabel, CloseLambda, MakeRef, MakeMacro, WalkMacro, Reading
  <2> QED
    BY <2>1, <2>2, <2>3, <2>4 DEF AsmNext
<1> QED
  BY <1>1, <1>2, ImageKept, PTL DEF AsmSpec

-----------------------------------------------------------------------------
(* What the core does with a reference.                                    *)

\* A number that is a multiple away from a short.
LEMMA Wraps ==
  ASSUME NEW x \in Short, NEW y \in Int, NEW q \in Int, y = q * PAGE_SIZE + x
  PROVE  y % PAGE_SIZE = x
<1>1. PICK p \in Nat \ {0} : p = PAGE_SIZE /\ x \in 0 .. p - 1
  BY Pages DEF Short
<1>2. (q * p + x) % p = x
  BY <1>1, DivisionOnce
<1> QED
  BY <1>1, <1>2

\* The bytes of a number are what is left of it in a short.
LEMMA TwoBytes ==
  ASSUME NEW v \in Int
  PROVE  /\ Hi(v) \in Byte /\ Lo(v) \in Byte
         /\ \E q \in Int : v = q * PAGE_SIZE + (Hi(v) * B + Lo(v))
<1>1. B \in Nat \ {0}
  BY Pages
<1>2. PICK q \in Int, h \in Int, c \in Int, l \in Int :
        c = v \div B /\ l = v % B /\ q = c \div B /\ h = c % B
  <2>1. PICK c \in Int : c = v \div B
    BY <1>1
  <2>2. c \div B \in Int /\ c % B \in Int /\ v % B \in Int
    BY <1>1
  <2> QED
    BY <2>1, <2>2
<1>3. v = c * B + l
  BY <1>1, <1>2
<1>4. c = q * B + h
  BY <1>1, <1>2
<1>5. v = q * (B * B) + (h * B + l)
  BY <1>1, <1>3, <1>4, Z3
<1>6. Hi(v) = h /\ Lo(v) = l
  BY <1>2 DEF Hi, Lo
<1>7. Hi(v) \in Byte /\ Lo(v) \in Byte
  BY Widths
<1>8. \E r \in Int : v = r * (B * B) + (h * B + l)
  BY <1>5
<1> QED
  BY <1>6, <1>7, <1>8 DEF PAGE_SIZE

\* A byte that is put on a stack is found again.
LEMMA PutBelow ==
  ASSUME NEW st \in Stack, NEW bytes \in Seq(Byte), Len(bytes) <= B, NEW d \in 0 .. Len(bytes) - 1
  PROVE  Below(Put(st, bytes), d) = bytes[Len(bytes) - d]
<1>1. PICK l \in Nat, p \in 0 .. B - 1 : l = Len(bytes) /\ p = st.ptr
  BY StackFields DEF Byte
<1>2. B \in Nat \ {0} /\ l <= B /\ d \in 0 .. l - 1
  BY <1>1, Pages
<1>3. PICK e \in 0 .. B - 1 : e = (p + l) % B
  BY <1>1, <1>2
<1>4. PICK x \in Int : p + l = x * B + e
  <2>1. p + l \in Int
    BY <1>1
  <2> QED
    BY <1>2, <1>3, <2>1, Division
<1>5. PICK a \in 0 .. B - 1 : a = (e - 1 - d) % B
  BY <1>2, <1>3
<1>6. PICK y \in Int : e - 1 - d = y * B + a
  <2>1. e - 1 - d \in Int
    BY <1>2, <1>3
  <2> QED
    BY <1>2, <1>5, <2>1, Division
<1>7. PICK q \in Int : q = 0 - (x + y)
  OBVIOUS
<1>14. PICK c \in Int : c = l - 1 - d
  BY <1>2
<1>8. (a - p) % B = c
  <2>1. a - p = q * B + c
    <3>1. PICK xb \in Int, yb \in Int : xb = x * B /\ yb = y * B
      BY <1>2
    <3>2. q * B = 0 - (xb + yb)
      BY <1>2, <1>7, <3>1, Z3
    <3>3. p + l = xb + e /\ e - 1 - d = yb + a
      BY <1>4, <1>6, <3>1
    <3>4. PICK qb \in Int : qb = q * B /\ qb = 0 - (xb + yb)
      BY <3>2
    <3>5. a - p = qb + c
      <4>1. a \in Int /\ p \in Int /\ l \in Int /\ e \in Int /\ d \in Int
        BY <1>2
      <4>2. xb \in Int /\ yb \in Int /\ qb \in Int /\ c \in Int
        OBVIOUS
      <4> QED
        BY ONLY <1>14, <3>3, <3>4, <4>1, <4>2
    <3> QED
      BY ONLY <3>4, <3>5
  <2>2. c \in 0 .. B - 1
    BY <1>1, <1>2, <1>14
  <2>3. (q * B + c) % B = c
    BY <1>2, <1>7, <2>2, DivisionOnce
  <2> QED
    BY ONLY <2>1, <2>3
<1>9. Put(st, bytes).ptr = e
  BY <1>1, <1>3 DEF Put
<1>10. a \in Byte
  BY <1>5 DEF Byte
<1>11. Put(st, bytes).dat[a] = LET j == (a - p) % B IN IF j < l THEN bytes[j + 1] ELSE st.dat[a]
  BY <1>1, <1>10 DEF Put
<1>12. Put(st, bytes).dat[a] = bytes[l - d]
  <2>1. c < l /\ c + 1 = l - d
    BY <1>1, <1>2, <1>14
  <2> QED
    BY <1>8, <1>11, <2>1
<1>13. Below(Put(st, bytes), d) = Put(st, bytes).dat[a]
  BY <1>5, <1>9 DEF Below
<1> QED
  BY <1>1, <1>12, <1>13

\* So are the last byte and the last two.
LEMMA PutItems ==
  ASSUME NEW st \in Stack, NEW x \in Byte, NEW y \in Byte
  PROVE  /\ Put(st, <<x>>) \in Stack /\ Below(Put(st, <<x>>), 0) = x /\ Item(Put(st, <<x>>), 0, 1) = x
         /\ Put(st, <<x, y>>) \in Stack /\ Item(Put(st, <<x, y>>), 0, 2) = x * B + y
<1>1. PICK s : s \in Seq(Byte) /\ s = <<x>> /\ Len(s) = 1 /\ s[1] = x
  <2>1. <<x>> \in Seq(Byte) /\ Len(<<x>>) = 1 /\ <<x>>[1] = x
    OBVIOUS
  <2> QED
    BY <2>1
<1>2. PICK t : t \in Seq(Byte) /\ t = <<x, y>> /\ Len(t) = 2 /\ t[1] = x /\ t[2] = y
  <2>1. <<x, y>> \in Seq(Byte) /\ Len(<<x, y>>) = 2 /\ <<x, y>>[1] = x /\ <<x, y>>[2] = y
    OBVIOUS
  <2> QED
    BY <2>1
<1>3. B >= 16 /\ B \in Nat
  BY ByteAssumption
<1>4. Below(Put(st, s), 0) = s[1 - 0]
  <2>1. 0 \in 0 .. Len(s) - 1 /\ Len(s) <= B
    BY <1>1, <1>3
  <2>2. Below(Put(st, s), 0) = s[Len(s) - 0]
    BY <1>1, <2>1, PutBelow
  <2> QED
    BY <1>1, <2>2
<1>5. Below(Put(st, t), 0) = t[2 - 0] /\ Below(Put(st, t), 1) = t[2 - 1]
  <2>1. 0 \in 0 .. Len(t) - 1 /\ 1 \in 0 .. Len(t) - 1 /\ Len(t) <= B
    BY <1>2, <1>3
  <2>2. Below(Put(st, t), 0) = t[Len(t) - 0]
    BY <1>2, <2>1, PutBelow
  <2>3. Below(Put(st, t), 1) = t[Len(t) - 1]
    BY <1>2, <2>1, PutBelow
  <2> QED
    BY <1>2, <2>2, <2>3
<1>6. Put(st, s) \in Stack /\ Put(st, t) \in Stack
  BY <1>1, <1>2, PutTyped
<1> QED
  BY <1>1, <1>2, <1>4, <1>5, <1>6 DEF Item

\* A machine at an opcode, and behind it.
LEMMA Opcode ==
  ASSUME NEW n \in Machine, NEW a \in 1 .. PAGE_SIZE - 1, n.pc = a - 1
  PROVE  /\ Skip(n, 1) \in Machine /\ Skip(n, 1).pc = a
         /\ Skip(n, 1).ram = n.ram /\ Skip(n, 1).wst = n.wst /\ Skip(n, 1).rst = n.rst
<1>1. /\ Skip(n, 1) \in Machine
      /\ Skip(n, 1).pc = (n.pc + 1) % PAGE_SIZE
      /\ Skip(n, 1).ram = n.ram /\ Skip(n, 1).dev = n.dev
      /\ Skip(n, 1).wst = n.wst /\ Skip(n, 1).rst = n.rst
  <2>1. 1 \in Int
    OBVIOUS
  <2> QED
    BY <2>1, SkipTyped
<1>2. a \in Short /\ a \in Int
  BY Pages DEF Short
<1>3. (n.pc + 1) % PAGE_SIZE = a
  <2>1. n.pc + 1 = a
    BY <1>2
  <2> QED
    BY <1>2, <2>1, Widths
<1> QED
  BY <1>1, <1>3

\* A relative jump by two bytes.
LEMMA JmiLands ==
  ASSUME NEW n \in Machine, NEW a \in 1 .. PAGE_SIZE - 1, n.pc = a - 1
  PROVE  Does("JMI", FALSE, n).pc = (a + Peek2(n.ram, a) + 2) % PAGE_SIZE
<1>1. PICK o \in Machine : o = Skip(n, 1) /\ o.pc = a /\ o.ram = n.ram
  BY Opcode
<1>2. Does("JMI", FALSE, n) = JumpImmediate(o)
  BY <1>1 DEF Does, Step
<1>3. JumpImmediate(o).pc = (o.pc + Peek2(o.ram, o.pc) + 2) % PAGE_SIZE
  BY JumpTyped
<1> QED
  BY ONLY <1>1, <1>2, <1>3

\* One that takes a condition.
LEMMA JciLands ==
  ASSUME NEW n \in Machine, NEW a \in 1 .. PAGE_SIZE - 1, n.pc = a - 1
  PROVE  Does("JCI", FALSE, n).pc = IF Below(n.wst, 0) # 0 THEN (a + Peek2(n.ram, a) + 2) % PAGE_SIZE
                                    ELSE (a + 2) % PAGE_SIZE
<1>1. PICK o \in Machine : o = Skip(n, 1) /\ o.pc = a /\ o.ram = n.ram /\ o.wst = n.wst
  BY Opcode
<1>2. PICK q \in Machine : q = [o EXCEPT !.wst.ptr = (@ - 1) % B] /\ q.pc = a /\ q.ram = n.ram
  <2>1. PICK st \in Stack : st = o.wst
    BY Fields
  <2>2. PICK p \in Byte : p = (st.ptr - 1) % B
    <3>1. PICK x \in Int : x = st.ptr
      BY StackFields, Places
    <3>2. x - 1 \in Int
      OBVIOUS
    <3> QED
      BY <3>1, <3>2, Widths
  <2>3. PICK t \in Stack : t = [st EXCEPT !.ptr = p]
    BY SetPtr
  <2>4. [o EXCEPT !.wst.ptr = (@ - 1) % B] = [o EXCEPT !.wst = t]
    BY <2>1, <2>2, <2>3 DEF Machine
  <2>5. [o EXCEPT !.wst = t] \in Machine /\ [o EXCEPT !.wst = t].pc = o.pc /\ [o EXCEPT !.wst = t].ram = o.ram
    BY DEF Machine
  <2> QED
    BY ONLY <1>1, <2>4, <2>5
<1>3. Does("JCI", FALSE, n) = IF Below(o.wst, 0) # 0 THEN JumpImmediate(q) ELSE Skip(q, 2)
  BY <1>1, <1>2 DEF Does, Step
<1>4. JumpImmediate(q).pc = (a + Peek2(n.ram, a) + 2) % PAGE_SIZE
  BY <1>2, JumpTyped
<1>5. Skip(q, 2).pc = (a + 2) % PAGE_SIZE
  <2>1. 2 \in Int
    OBVIOUS
  <2>2. Skip(q, 2).pc = (q.pc + 2) % PAGE_SIZE
    BY <2>1, SkipTyped
  <2> QED
    BY <1>2, <2>2
<1> QED
  BY <1>1, <1>3, <1>4, <1>5

\* One that notes where to return.
LEMMA JsiLands ==
  ASSUME NEW n \in Machine, NEW a \in 1 .. PAGE_SIZE - 1, n.pc = a - 1
  PROVE  /\ Does("JSI", FALSE, n).pc = (a + Peek2(n.ram, a) + 2) % PAGE_SIZE
         /\ Item(Does("JSI", FALSE, n).rst, 0, 2) = (a + 2) % PAGE_SIZE
<1>1. PICK o \in Machine : o = Skip(n, 1) /\ o.pc = a /\ o.ram = n.ram /\ o.rst = n.rst
  BY Opcode
<1>2. PICK c \in Short : c = (a + 2) % PAGE_SIZE
  <2>1. a + 2 \in Int
    OBVIOUS
  <2> QED
    BY <2>1, Widths
<1>3. PICK h \in Byte, l \in Byte : h = Hi(c) /\ l = Lo(c) /\ h * B + l = c
  BY Bytewise
<1>4. PICK st \in Stack : st = Put(o.rst, <<h, l>>) /\ Item(st, 0, 2) = h * B + l
  <2>1. PICK t \in Stack : t = o.rst
    BY Fields
  <2>2. Put(t, <<h, l>>) \in Stack /\ Item(Put(t, <<h, l>>), 0, 2) = h * B + l
    BY PutItems
  <2> QED
    BY <2>1, <2>2
<1>5. PICK q \in Machine : q = [o EXCEPT !.rst = st] /\ q.pc = a /\ q.ram = n.ram /\ q.rst = st
  <2>1. [o EXCEPT !.rst = st] \in Machine /\ [o EXCEPT !.rst = st].pc = o.pc
        /\ [o EXCEPT !.rst = st].ram = o.ram /\ [o EXCEPT !.rst = st].rst = st
    BY DEF Machine
  <2> QED
    BY ONLY <1>1, <2>1
<1>6. Does("JSI", FALSE, n) = JumpImmediate(q)
  <2>1. Does("JSI", FALSE, n) = JumpImmediate([o EXCEPT !.rst = Put(@, <<h, l>>)])
    BY <1>1, <1>2, <1>3 DEF Does, Step
  <2>2. [o EXCEPT !.rst = Put(@, <<h, l>>)] = q
    BY <1>4, <1>5 DEF Machine
  <2> QED
    BY ONLY <2>1, <2>2
<1>7. JumpImmediate(q).pc = (q.pc + Peek2(q.ram, q.pc) + 2) % PAGE_SIZE /\ JumpImmediate(q).rst = q.rst
  BY JumpTyped
<1> QED
  BY ONLY <1>2, <1>3, <1>4, <1>5, <1>6, <1>7

\* A literal of one byte, and of two.
LEMMA LitPuts ==
  ASSUME NEW n \in Machine, NEW a \in 1 .. PAGE_SIZE - 1, n.pc = a - 1, NEW s \in BOOLEAN,
         s => a + 1 \in Short
  PROVE  /\ Does("LIT", s, n) \in Machine
         /\ Does("LIT", s, n).wst = Put(n.wst, IF s THEN <<n.ram[a], n.ram[a + 1]>> ELSE <<n.ram[a]>>)
         /\ Does("LIT", s, n).pc = (a + IF s THEN 2 ELSE 1) % PAGE_SIZE
<1>1. PICK o \in Machine : o = Skip(n, 1) /\ o.pc = a /\ o.ram = n.ram /\ o.wst = n.wst
  BY Opcode
<1>2. PICK i \in Instr : i = [op |-> "LIT", s |-> s, r |-> FALSE, k |-> FALSE]
  BY DEF Instr, Immediate
<1>3. PICK z \in {1, 2} : z = Size(i) /\ z = (IF s THEN 2 ELSE 1)
  BY <1>2 DEF Size
<1>4. PICK q \in Machine : q = Skip(o, z) /\ q.pc = (a + z) % PAGE_SIZE /\ q.wst = n.wst
  <2>1. z \in Int
    OBVIOUS
  <2>2. Skip(o, z) \in Machine /\ Skip(o, z).pc = (o.pc + z) % PAGE_SIZE /\ Skip(o, z).wst = o.wst
    BY <2>1, SkipTyped
  <2> QED
    BY ONLY <1>1, <2>2
<1>5. PICK v : v = [j \in 1 .. z |-> o.ram[(a + j - 1) % PAGE_SIZE]]
  OBVIOUS
<1>6. a \in Short /\ (a + 1 - 1) % PAGE_SIZE = a /\ (s => (a + 2 - 1) % PAGE_SIZE = a + 1)
  <2>1. a \in Short /\ a \in Int
    BY Pages DEF Short
  <2>2. a + 1 - 1 = a /\ a + 2 - 1 = a + 1 /\ a + 1 \in Int
    BY <2>1
  <2>3. a % PAGE_SIZE = a
    BY <2>1, Widths
  <2>4. s => (a + 1) % PAGE_SIZE = a + 1
    BY <2>2, Widths
  <2> QED
    BY <2>1, <2>2, <2>3, <2>4
<1>7. v = IF s THEN <<n.ram[a], n.ram[a + 1]>> ELSE <<n.ram[a]>>
  <2>1. CASE s
    <3>1. v = [j \in 1 .. 2 |-> o.ram[(a + j - 1) % PAGE_SIZE]]
      BY <1>3, <1>5, <2>1
    <3>2. \A j \in 1 .. 2 : o.ram[(a + j - 1) % PAGE_SIZE] = <<n.ram[a], n.ram[a + 1]>>[j]
      BY <1>1, <1>6, <2>1
    <3>3. v = <<n.ram[a], n.ram[a + 1]>>
      BY <3>1, <3>2
    <3> QED
      BY <2>1, <3>3
  <2>2. CASE ~s
    <3>1. v = [j \in 1 .. 1 |-> o.ram[(a + j - 1) % PAGE_SIZE]]
      BY <1>3, <1>5, <2>2
    <3>2. \A j \in 1 .. 1 : o.ram[(a + j - 1) % PAGE_SIZE] = <<n.ram[a]>>[j]
      BY <1>1, <1>6, <2>2
    <3>3. v = <<n.ram[a]>>
      BY <3>1, <3>2
    <3> QED
      BY <2>2, <3>3
  <2> QED
    BY <2>1, <2>2
<1>8. v \in Seq(Byte)
  <2>1. n.ram[a] \in Byte /\ (s => n.ram[a + 1] \in Byte)
    BY <1>6, Fields, FirstBank
  <2> QED
    BY <1>7, <2>1
<1>9. PICK st \in Stack : st = Put(q.wst, v)
  BY <1>8, Fields, PutTyped
<1>10. Does("LIT", s, n) = [q EXCEPT !.wst = st]
  <2>1. Does("LIT", s, n) = [q EXCEPT !["wst"] = Put(@, v)]
    BY <1>1, <1>2, <1>3, <1>4, <1>5 DEF Does, Step, Own
  <2>2. [q EXCEPT !["wst"] = Put(@, v)] = [q EXCEPT !.wst = st]
    BY <1>9 DEF Machine
  <2> QED
    BY ONLY <2>1, <2>2
<1>11. [q EXCEPT !.wst = st] \in Machine /\ [q EXCEPT !.wst = st].wst = st /\ [q EXCEPT !.wst = st].pc = q.pc
  BY DEF Machine
<1> QED
  BY ONLY <1>3, <1>4, <1>7, <1>9, <1>10, <1>11

\* A jump to what is on the stack.
LEMMA JmpLands ==
  ASSUME NEW o \in Machine, NEW s \in BOOLEAN
  PROVE  Operate(o, [op |-> "JMP", s |-> s, r |-> FALSE, k |-> FALSE]).pc =
           IF s THEN Item(o.wst, 0, 2) ELSE (o.pc + Signed(Item(o.wst, 0, 1))) % PAGE_SIZE
<1>1. PICK i \in Instr : i = [op |-> "JMP", s |-> s, r |-> FALSE, k |-> FALSE] /\ i.op \in Plains
  <2>1. "JMP" \in Plains
    <3>1. Ops[12] = "JMP" /\ 12 \in 1 .. 31
      BY DEF Ops
    <3> QED
      BY <3>1 DEF Plains
  <2>2. [op |-> "JMP", s |-> s, r |-> FALSE, k |-> FALSE] \in Instr
    BY <2>1 DEF Instr
  <2> QED
    BY <2>1, <2>2
<1>2. Reaches(o, i)
  BY <1>1 DEF Reaches
<1>3. Operate(o, i).pc = Goes(i, o)
  BY <1>1, <1>2, OperateParts
<1>4. Goes(i, o) = IF s THEN Item(o.wst, 0, 2) ELSE (o.pc + Signed(Item(o.wst, 0, 1))) % PAGE_SIZE
  BY <1>1 DEF Goes, Jump, Own, Size
<1> QED
  BY <1>1, <1>3, <1>4

\* A short is in the memory as it was written.
LEMMA Peeked ==
  ASSUME NEW r, NEW a, NEW v, r[a] = Hi(v), r[a + 1] = Lo(v)
  PROVE  Peek2(r, a) = Hi(v) * B + Lo(v)
BY DEF Peek2

\* A distance that was written leads from behind it to the label.
LEMMA Distances ==
  ASSUME NEW a \in Short, NEW l \in Short
  PROVE  (a + (Hi(l - a - 2) * B + Lo(l - a - 2)) + 2) % PAGE_SIZE = l
<1>1. PICK v \in Int : v = l - a - 2
  <2>1. a \in Int /\ l \in Int
    BY Places
  <2> QED
    BY <2>1
<1>2. PICK h \in Int, o \in Int : h = Hi(v) * B /\ o = Lo(v)
  <2>1. Hi(v) \in Int /\ Lo(v) \in Int /\ B \in Int
    <3>1. Hi(v) \in Byte /\ Lo(v) \in Byte
      BY TwoBytes
    <3>2. Byte \subseteq Int
      BY Places
    <3>3. B \in Int
      BY ByteAssumption
    <3> QED
      BY ONLY <3>1, <3>2, <3>3
  <2>2. Hi(v) * B \in Int
    BY ONLY <2>1
  <2> QED
    BY <2>1, <2>2
<1>3. PICK q \in Int : v = q * PAGE_SIZE + (h + o)
  BY <1>2, TwoBytes
<1>4. PICK y \in Int : y = a + (h + o) + 2
  <2>1. a \in Int
    BY Places
  <2> QED
    BY <2>1
<1>5. PICK k \in Int : k = 0 - q
  OBVIOUS
<1>6. y = k * PAGE_SIZE + l
  <2>1. PICK s \in Int : s = PAGE_SIZE
    BY Pages
  <2>2. PICK x \in Int : x = q * s
    OBVIOUS
  <2>3. k * s = 0 - x
    BY <1>5, <2>2, Z3
  <2>4. a \in Int /\ l \in Int
    BY Places
  <2>5. y = (0 - x) + l
    BY <1>1, <1>3, <1>4, <2>1, <2>2, <2>4
  <2> QED
    BY <2>1, <2>3, <2>5
<1>7. y % PAGE_SIZE = l
  BY <1>6, Wraps
<1> QED
  BY <1>1, <1>2, <1>4, <1>7

\* So does a byte from two places behind it, where the program counter wraps on its way.
LEMMA NearBy ==
  ASSUME NEW a \in Short, NEW l \in Short, NEW u \in Short,
         u = (a + 2) % PAGE_SIZE \/ u = (((a + 1) % PAGE_SIZE) + 1) % PAGE_SIZE
  PROVE  (u + (l - a - 2)) % PAGE_SIZE = l
<1>1. PICK s \in Nat \ {0} : s = PAGE_SIZE
  BY Pages
<1>2. a \in Int /\ l \in Int /\ u \in Int
  BY Places
<1>3. PICK q \in Int : a + 2 = q * s + u
  <2>1. CASE u = (a + 2) % s
    <3>1. a + 2 \in Int
      BY <1>2
    <3> QED
      BY <2>1, <3>1, Division
  <2>2. CASE u = (((a + 1) % s) + 1) % s
    <3>1. PICK x \in Int, y \in Int : x = (a + 1) % s /\ a + 1 = y * s + x
      <4>1. a + 1 \in Int
        BY <1>2
      <4>2. (a + 1) % s \in Int
        BY <1>1, <4>1
      <4> QED
        BY <4>1, <4>2, Division
    <3>2. PICK z \in Int : x + 1 = z * s + u
      <4>1. x + 1 \in Int
        OBVIOUS
      <4> QED
        BY <2>2, <3>1, <4>1, Division
    <3>3. PICK p \in Int : p = y + z
      OBVIOUS
    <3>4. a + 2 = p * s + u
      <4>1. p * s = y * s + z * s
        BY <3>3, Z3
      <4>2. PICK ys \in Int, zs \in Int, ps \in Int : ys = y * s /\ zs = z * s /\ ps = p * s
        OBVIOUS
      <4>3. ps = ys + zs /\ a + 1 = ys + x /\ x + 1 = zs + u
        BY <3>1, <3>2, <4>1, <4>2
      <4>4. a + 2 = ps + u
        BY ONLY <1>2, <4>3, x \in Int, ps \in Int, ys \in Int, zs \in Int
      <4> QED
        BY ONLY <4>2, <4>4
    <3> QED
      BY <3>4
  <2> QED
    BY <1>1, <2>1, <2>2
<1>4. PICK y \in Int : y = u + (l - a - 2)
  BY <1>2
<1>5. PICK k \in Int : k = 0 - q
  OBVIOUS
<1>6. y = k * PAGE_SIZE + l
  <2>1. PICK x \in Int : x = q * s
    OBVIOUS
  <2>2. k * s = 0 - x
    BY <1>5, <2>1, Z3
  <2>3. y = (0 - x) + l
    BY <1>2, <1>3, <1>4, <2>1
  <2> QED
    BY <1>1, <2>2, <2>3
<1>7. y % PAGE_SIZE = l
  BY <1>6, Wraps
<1> QED
  BY <1>4, <1>7

\* A reference's bytes, when the core starts: r is the reference, at a, l its label.
Wrote(r, a, l) ==
  /\ r.rune \in Distance => m.ram[a] = Hi(l - a - 2) /\ m.ram[a + 1] = Lo(l - a - 2)
  /\ r.rune \in Absolute => m.ram[a] = Hi(l) /\ m.ram[a + 1] = Lo(l)
  /\ r.rune \in LowByte  => m.ram[a] = Lo(l)
  /\ r.rune \in Relative => Signed(m.ram[a]) = l - a - 2

\* They are there when the memory is the image and the reference is resolved.
LEMMA Wrotes ==
  ASSUME ImageSound, NEW i \in DOMAIN refs, Done(refs[i]),
         \A a \in Short : a >= PAGE_PROGRAM => m.ram[a] = data[a]
  PROVE  \E a \in 1 .. PAGE_SIZE - 1, l \in Short :
           /\ refs[i].addr = a /\ Label(refs[i]).addr = l /\ refs[i].rune \in Runes
           /\ refs[i].rune \in Absolute \cup Distance => a + 1 \in Short
           /\ Wrote(refs[i], a, l)
<1>1. PICK r : r = refs[i] /\ r.rune \in Runes
  BY RefPlaces
<1>2. Known(r) /\ Fits(r) /\ \A k \in 0 .. Width(r.rune) - 1 : data[r.addr + k] = Value(r)[k + 1]
  BY <1>1 DEF Done
<1>3. /\ Width(r.rune) \in {1, 2}
      /\ \A k \in 0 .. Width(r.rune) - 1 : r.addr + k \in Short /\ r.addr + k >= PAGE_PROGRAM
  BY <1>1, RefPlaces
<1>4. PICK a \in 1 .. PAGE_SIZE - 1 : a = r.addr
  <2>1. r.addr \in Short
    BY <1>1, RefPlaces
  <2>2. r.addr >= PAGE_PROGRAM
    <3>1. 0 \in 0 .. Width(r.rune) - 1
      BY <1>3
    <3>2. r.addr + 0 >= PAGE_PROGRAM
      BY <1>3, <3>1
    <3>3. r.addr \in Int
      BY <2>1, Places
    <3> QED
      BY <3>2, <3>3
  <2>3. PAGE_PROGRAM >= 1 /\ PAGE_PROGRAM \in Int /\ PAGE_SIZE \in Int
    BY ByteAssumption, Pages DEF PAGE_PROGRAM
  <2> QED
    BY <2>1, <2>2, <2>3 DEF Short
<1>5. PICK l \in Short : l = Label(r).addr
  <2>1. labels \in Seq([name : Name, addr : Short])
    BY DEF ImageSound, AsmTypeOK
  <2>2. Label(r) \in [name : Name, addr : Short]
    <3>1. PICK x \in Named(labels, r.name) : Find(labels, r.name) = labels[x]
      BY <1>2 DEF Known, Find
    <3>2. x \in 1 .. Len(labels)
      BY <2>1, LenProperties DEF Named
    <3>3. labels[x] \in [name : Name, addr : Short]
      BY <2>1, <3>2, ElementOfSeq
    <3> QED
      BY <3>1, <3>3 DEF Label
  <2> QED
    BY <2>2
<1>6. \A k \in 0 .. Width(r.rune) - 1 : m.ram[a + k] = Value(r)[k + 1]
  BY <1>2, <1>3, <1>4
<1>7. a \in Int /\ a + 0 = a
  OBVIOUS
<1>8. m.ram[a] = Value(r)[1]
  <2>1. 0 \in 0 .. Width(r.rune) - 1 /\ 0 + 1 = 1
    BY <1>3
  <2> QED
    BY <1>6, <1>7, <2>1
<1>9. Width(r.rune) = 2 => m.ram[a + 1] = Value(r)[2] /\ a + 1 \in Short
  <2>1. Width(r.rune) = 2 => 1 \in 0 .. Width(r.rune) - 1 /\ 1 + 1 = 2
    OBVIOUS
  <2> QED
    BY <1>3, <1>4, <1>6, <2>1
<1>10. CASE r.rune \in Distance
  <2>1. Value(r) = <<Hi(Rel(r)), Lo(Rel(r))>> /\ Width(r.rune) = 2
        /\ r.rune \notin Absolute \cup LowByte \cup Relative
    BY <1>10 DEF Value, Width, Relative, LowByte, Absolute, Distance
  <2>2. Rel(r) = l - a - 2
    BY <1>4, <1>5 DEF Rel
  <2>3. m.ram[a] = Hi(l - a - 2) /\ m.ram[a + 1] = Lo(l - a - 2)
    BY <1>8, <1>9, <2>1, <2>2
  <2> QED
    BY <1>1, <1>4, <1>5, <1>9, <2>1, <2>3 DEF Wrote
<1>11. CASE r.rune \in Absolute
  <2>1. Value(r) = <<Hi(l), Lo(l)>> /\ Width(r.rune) = 2
        /\ r.rune \notin Distance \cup LowByte \cup Relative
    BY <1>5, <1>11 DEF Value, Width, Relative, LowByte, Absolute, Distance
  <2>2. m.ram[a] = Hi(l) /\ m.ram[a + 1] = Lo(l)
    BY <1>8, <1>9, <2>1
  <2> QED
    BY <1>1, <1>4, <1>5, <1>9, <2>1, <2>2 DEF Wrote
<1>12. CASE r.rune \in LowByte
  <2>1. Value(r) = <<Lo(l)>> /\ r.rune \notin Distance \cup Absolute \cup Relative
    BY <1>5, <1>12 DEF Value, Relative, LowByte, Absolute, Distance
  <2>2. m.ram[a] = Lo(l)
    BY <1>8, <2>1
  <2> QED
    BY <1>1, <1>4, <1>5, <2>1, <2>2 DEF Wrote
<1>13. CASE r.rune \in Relative
  <2>1. Value(r) = <<Rel(r) % B>> /\ Signed(Rel(r) % B) = Rel(r)
        /\ r.rune \notin Distance \cup Absolute \cup LowByte
    BY <1>2, <1>13 DEF Value, Fits, Relative, LowByte, Absolute, Distance
  <2>2. Rel(r) = l - a - 2
    BY <1>4, <1>5 DEF Rel
  <2>3. Signed(m.ram[a]) = l - a - 2
    <3>1. m.ram[a] = Rel(r) % B
      BY <1>8, <2>1
    <3> QED
      BY <2>1, <2>2, <3>1
  <2> QED
    BY <1>1, <1>4, <1>5, <2>1, <2>3 DEF Wrote
<1> QED
  BY <1>1, <1>10, <1>11, <1>12, <1>13 DEF Runes

\* A machine at an address, with other stacks.
LEMMA AtAddress ==
  ASSUME m \in Machine, NEW v \in Short
  PROVE  /\ At_(v) \in Machine /\ At_(v).pc = v
         /\ At_(v).ram = m.ram /\ At_(v).wst = m.wst /\ At_(v).rst = m.rst
BY DEF At_, Machine

\* A machine with another working stack.
LEMMA SetWst ==
  ASSUME NEW n \in Machine, NEW st \in Stack
  PROVE  /\ [n EXCEPT !.wst = st] \in Machine /\ [n EXCEPT !.wst = st].wst = st
         /\ [n EXCEPT !.wst = st].pc = n.pc /\ [n EXCEPT !.wst = st].ram = n.ram
BY DEF Machine

\* A jump by the byte on the stack, which was written for the place two before.
LEMMA JumpsNearBy ==
  ASSUME NEW o \in Machine, NEW a \in Short, NEW l \in Short, NEW x \in Byte,
         Signed(x) = l - a - 2, NEW st \in Stack, o.wst = Put(st, <<x>>),
         o.pc = (a + 2) % PAGE_SIZE \/ o.pc = (((a + 1) % PAGE_SIZE) + 1) % PAGE_SIZE
  PROVE  Operate(o, [op |-> "JMP", s |-> FALSE, r |-> FALSE, k |-> FALSE]).pc = l
<1>1. Operate(o, [op |-> "JMP", s |-> FALSE, r |-> FALSE, k |-> FALSE]).pc =
        (o.pc + Signed(Item(o.wst, 0, 1))) % PAGE_SIZE
  BY JmpLands
<1>2. Item(o.wst, 0, 1) = x
  <2>1. Item(Put(st, <<x>>), 0, 1) = x
    BY PutItems
  <2> QED
    BY <2>1
<1>3. o.pc \in Short
  BY Fields
<1>4. (o.pc + (l - a - 2)) % PAGE_SIZE = l
  BY <1>3, NearBy
<1> QED
  BY ONLY <1>1, <1>2, <1>4, Signed(x) = l - a - 2

\* What was written for a reference leads the core to its label.
LEMMA Linking ==
  ASSUME m \in Machine, NEW r, NEW a \in 1 .. PAGE_SIZE - 1, NEW l \in Short,
         r.addr = a, Label(r).addr = l, r.rune \in Runes, Wrote(r, a, l),
         r.rune \in Absolute \cup Distance => a + 1 \in Short
  PROVE  Links(r)
<1>1. a \in Short /\ a - 1 \in Short /\ a \in Int /\ l \in Int
  BY Pages, Places DEF Short
<1>2. PICK n \in Machine : /\ n = At_(a - 1) /\ n.pc = a - 1
                           /\ n.ram = m.ram /\ n.wst = m.wst /\ n.rst = m.rst
  BY <1>1, AtAddress
<1>3. PICK st \in Stack : st = n.wst
  BY Fields
<1>4. PICK x \in Byte : x = m.ram[a] /\ x = n.ram[a]
  BY <1>1, <1>2, Fields, FirstBank
<1>5. ASSUME r.rune \in Distance PROVE (a + Peek2(n.ram, a) + 2) % PAGE_SIZE = l
  <2>1. Peek2(n.ram, a) = Hi(l - a - 2) * B + Lo(l - a - 2)
    BY <1>2, <1>5, Peeked DEF Wrote
  <2>2. (a + (Hi(l - a - 2) * B + Lo(l - a - 2)) + 2) % PAGE_SIZE = l
    BY <1>1, Distances
  <2> QED
    BY ONLY <2>1, <2>2
<1>6. ASSUME r.rune \in Absolute PROVE m.ram[a] * B + m.ram[a + 1] = l
  <2>1. m.ram[a] * B + m.ram[a + 1] = Hi(l) * B + Lo(l)
    BY <1>6 DEF Wrote
  <2> QED
    BY <2>1, Bytewise
<1>7. CASE r.rune = "!"
  <2>1. Does("JMI", FALSE, n).pc = (a + Peek2(n.ram, a) + 2) % PAGE_SIZE
    BY <1>2, JmiLands
  <2>2. Does("JMI", FALSE, n).pc = l
    BY <1>5, <1>7, <2>1 DEF Distance
  <2> QED
    BY <1>2, <1>7, <2>2 DEF Links
<1>8. CASE r.rune = "?"
  <2>1. ASSUME NEW c \in Byte
        PROVE  Does("JCI", FALSE, [n EXCEPT !.wst = Put(@, <<c>>)]).pc =
                 IF c # 0 THEN l ELSE (a + 2) % PAGE_SIZE
    <3>1. PICK t \in Stack : t = Put(st, <<c>>) /\ Below(t, 0) = c
      BY PutItems
    <3>2. PICK o \in Machine : o = [n EXCEPT !.wst = t] /\ o.wst = t /\ o.pc = n.pc /\ o.ram = n.ram
      BY SetWst
    <3>3. [n EXCEPT !.wst = Put(@, <<c>>)] = o
      BY <1>3, <3>1, <3>2 DEF Machine
    <3>4. Does("JCI", FALSE, o).pc = IF Below(o.wst, 0) # 0 THEN (a + Peek2(o.ram, a) + 2) % PAGE_SIZE
                                     ELSE (a + 2) % PAGE_SIZE
      <4>1. o.pc = a - 1
        BY <1>2, <3>2
      <4> QED
        BY <4>1, JciLands
    <3>5. (a + Peek2(o.ram, a) + 2) % PAGE_SIZE = l
      BY <1>5, <1>8, <3>2 DEF Distance
    <3> QED
      BY ONLY <3>1, <3>2, <3>3, <3>4, <3>5
  <2> QED
    BY <1>2, <1>8, <2>1 DEF Links
<1>9. CASE r.rune = " "
  <2>1. /\ Does("JSI", FALSE, n).pc = (a + Peek2(n.ram, a) + 2) % PAGE_SIZE
        /\ Item(Does("JSI", FALSE, n).rst, 0, 2) = (a + 2) % PAGE_SIZE
    BY <1>2, JsiLands
  <2>2. Does("JSI", FALSE, n).pc = l
    BY <1>5, <1>9, <2>1 DEF Distance
  <2> QED
    BY <1>2, <1>9, <2>1, <2>2 DEF Links
<1>10. PICK lit \in Machine : /\ lit = Does("LIT", FALSE, n) /\ lit.wst = Put(st, <<x>>)
                              /\ lit.pc = (a + 1) % PAGE_SIZE
  <2>1. /\ Does("LIT", FALSE, n) \in Machine
        /\ Does("LIT", FALSE, n).wst = Put(n.wst, <<n.ram[a]>>)
        /\ Does("LIT", FALSE, n).pc = (a + 1) % PAGE_SIZE
    BY <1>2, LitPuts
  <2> QED
    BY <1>3, <1>4, <2>1
<1>11. 1 \in Int
  OBVIOUS
<1>12. CASE r.rune = ","
  <2>1. PICK o \in Machine : o = Skip(lit, 1) /\ o.wst = lit.wst /\ o.pc = (lit.pc + 1) % PAGE_SIZE
    BY <1>11, SkipTyped
  <2>2. Signed(x) = l - a - 2
    BY <1>4, <1>12 DEF Wrote, Relative
  <2>3. o.wst = Put(st, <<x>>) /\ o.pc = (((a + 1) % PAGE_SIZE) + 1) % PAGE_SIZE
    BY <1>10, <2>1
  <2>4. Operate(o, [op |-> "JMP", s |-> FALSE, r |-> FALSE, k |-> FALSE]).pc = l
    BY <1>1, <2>2, <2>3, JumpsNearBy
  <2>5. Jumped(FALSE, lit) = l
    BY <2>1, <2>4 DEF Jumped
  <2> QED
    BY <1>2, <1>10, <1>12, <2>5 DEF Links
<1>13. CASE r.rune = "_"
  <2>1. PICK t \in Stack : t = Put(st, <<x>>)
    BY PutItems
  <2>2. PICK p : p = [n EXCEPT !.pc = a + Len(<<x>>), !.wst = Put(@, <<x>>)]
    OBVIOUS
  <2>3. p = [n EXCEPT !.pc = a + 1, !.wst = t]
    BY <1>3, <2>1, <2>2 DEF Machine
  <2>4. PICK v \in Short : v = (a + 2) % PAGE_SIZE
    <3>1. a + 2 \in Int
      BY <1>1
    <3> QED
      BY <3>1, Widths
  <2>5. PICK o \in Machine : o = [n EXCEPT !.pc = v, !.wst = t] /\ o.pc = v /\ o.wst = t
    <3>1. PICK k \in Machine : k = [n EXCEPT !.pc = v] /\ k.pc = v
      BY SetPc
    <3>2. PICK o \in Machine : o = [k EXCEPT !.wst = t] /\ o.wst = t /\ o.pc = k.pc
      BY SetWst
    <3>3. o = [n EXCEPT !.pc = v, !.wst = t]
      BY <3>1, <3>2 DEF Machine
    <3> QED
      BY <3>1, <3>2, <3>3
  <2>6. Skip(p, 1) = o
    <3>1. p.pc = a + 1 /\ a + 1 + 1 = a + 2
      BY <1>1, <2>3 DEF Machine
    <3>2. Skip(p, 1) = [p EXCEPT !.pc = v]
      BY <2>3, <2>4, <3>1 DEF Skip, Machine
    <3> QED
      BY <2>3, <2>5, <3>2 DEF Machine
  <2>7. Signed(x) = l - a - 2
    BY <1>4, <1>13 DEF Wrote, Relative
  <2>8. Operate(o, [op |-> "JMP", s |-> FALSE, r |-> FALSE, k |-> FALSE]).pc = l
    <3>1. o.wst = Put(st, <<x>>) /\ o.pc = (a + 2) % PAGE_SIZE
      BY <2>1, <2>4, <2>5
    <3> QED
      BY <1>1, <2>7, <3>1, JumpsNearBy
  <2>9. Jumped(FALSE, [n EXCEPT !.pc = a + Len(<<m.ram[a]>>), !.wst = Put(@, <<m.ram[a]>>)]) = l
    BY <1>4, <2>2, <2>6, <2>8 DEF Jumped
  <2> QED
    BY <1>2, <1>13, <2>9 DEF Links
<1>14. CASE r.rune = ";"
  <2>1. a + 1 \in Short
    BY <1>14 DEF Absolute
  <2>2. PICK z \in Byte : z = m.ram[a + 1] /\ z = n.ram[a + 1]
    BY <1>2, <2>1, Fields, FirstBank
  <2>3. /\ Does("LIT", TRUE, n) \in Machine
        /\ Does("LIT", TRUE, n).wst = Put(n.wst, <<n.ram[a], n.ram[a + 1]>>)
    BY <1>2, <2>1, LitPuts
  <2>4. PICK q \in Machine : q = Does("LIT", TRUE, n) /\ q.wst = Put(st, <<x, z>>)
    BY <1>3, <1>4, <2>2, <2>3
  <2>5. PICK o \in Machine : o = Skip(q, 1) /\ o.wst = q.wst
    BY <1>11, SkipTyped
  <2>6. Item(o.wst, 0, 2) = l
    <3>1. Item(Put(st, <<x, z>>), 0, 2) = x * B + z
      BY PutItems
    <3>2. x * B + z = l
      BY <1>4, <1>6, <1>14, <2>2 DEF Absolute
    <3> QED
      BY <2>4, <2>5, <3>1, <3>2
  <2>7. Operate(o, [op |-> "JMP", s |-> TRUE, r |-> FALSE, k |-> FALSE]).pc = Item(o.wst, 0, 2)
    BY JmpLands
  <2>8. Jumped(TRUE, Does("LIT", TRUE, n)) = l
    BY <2>4, <2>5, <2>6, <2>7 DEF Jumped
  <2> QED
    BY <1>2, <1>14, <2>8 DEF Links
<1>15. CASE r.rune = "="
  <2>1. Peek2(m.ram, a) = l
    BY <1>6, <1>15 DEF Absolute, Peek2
  <2> QED
    BY <1>15, <2>1 DEF Links
<1>16. CASE r.rune = "."
  <2>1. x = Lo(l)
    BY <1>4, <1>16 DEF Wrote, LowByte
  <2>2. Below(Does("LIT", FALSE, n).wst, 0) = x
    BY <1>10, PutItems
  <2> QED
    BY <1>2, <1>16, <2>1, <2>2 DEF Links
<1>17. CASE r.rune = "-"
  <2>1. m.ram[a] = Lo(l)
    BY <1>17 DEF Wrote, LowByte
  <2> QED
    BY <1>17, <2>1 DEF Links
<1> QED
  BY <1>7, <1>8, <1>9, <1>12, <1>13, <1>14, <1>15, <1>16, <1>17
     DEF Runes, Relative, LowByte, Absolute, Distance

\* Until the core's first step the memory is the one the ROM was booted into.
Loaded ==
  /\ steps \in Nat
  /\ mode = "run" /\ phase = "built" /\ steps = 0 /\ ~restarted =>
       \A a \in Short : a >= PAGE_PROGRAM => m.ram[a] = data[a]

\* Every step of the chain keeps it.
LEMMA LoadedStep == ImageSound /\ ChainInv /\ Loaded /\ [Next]_vars => Loaded'
<1> SUFFICES ASSUME ImageSound, ChainInv, Loaded, [Next]_vars PROVE Loaded'
  OBVIOUS
<1>1. CASE Assemble
  BY <1>1 DEF Assemble, machine, Loaded
<1>2. CASE Boot
  <2>1. \A a \in Short : a >= PAGE_PROGRAM => m'.ram[a] = data[a]
    BY <1>2, ChainBoot
  <2>2. data' = data /\ steps' = steps
    BY <1>2 DEF Boot, asm, out
  <2> QED
    BY <2>1, <2>2 DEF Loaded
<1>3. CASE Eval
  <2>1. steps \in Nat /\ steps' = steps + 1
    BY <1>3 DEF Eval, Loaded
  <2>2. steps' \in Nat /\ steps' # 0
    BY <2>1
  <2> QED
    BY <2>2 DEF Loaded
<1>4. CASE \E soft \in BOOLEAN : Restart(soft)
  BY <1>4 DEF Restart, Loaded
<1>5. CASE UNCHANGED vars
  BY <1>5 DEF vars, machine, asm, out, Loaded
<1> QED
  BY <1>1, <1>2, <1>3, <1>4, <1>5 DEF Next

\* What the assembler resolved, the machine was booted with and the core reads agree:
\* every reference of a ROM leads the core to its label, by whichever rune it was written.
THEOREM ReferencesLead == Spec => []Linked
<1>1. ASSUME ImageSound, ChainInv, ResolveInv, Loaded PROVE Linked
  <2> SUFFICES ASSUME mode = "run", phase = "built", steps = 0, ~restarted, NEW i \in DOMAIN refs
               PROVE  Links(refs[i])
    BY DEF Linked
  <2>1. i \in 1 .. resolved
    <3>1. refs \in Seq([name : Name, rune : Runes, addr : Short])
      BY <1>1 DEF ImageSound, AsmTypeOK
    <3> QED
      BY <1>1, <3>1, LenProperties DEF ResolveInv
  <2>2. Done(refs[i])
    BY <1>1, <2>1 DEF ResolveInv
  <2>3. \A a \in Short : a >= PAGE_PROGRAM => m.ram[a] = data[a]
    BY <1>1 DEF Loaded
  <2>4. PICK a \in 1 .. PAGE_SIZE - 1, l \in Short :
          /\ refs[i].addr = a /\ Label(refs[i]).addr = l /\ refs[i].rune \in Runes
          /\ refs[i].rune \in Absolute \cup Distance => a + 1 \in Short
          /\ Wrote(refs[i], a, l)
    BY <1>1, <2>2, <2>3, Wrotes
  <2>5. m \in Machine
    BY <1>1 DEF ChainInv
  <2> QED
    BY <2>4, <2>5, Linking
<1>2. Init => Loaded
  BY DEF Init, AsmInit, Loaded
<1>3. ImageSound /\ ChainInv /\ Loaded /\ [Next]_vars => Loaded'
  BY LoadedStep
<1>4. Spec => []ResolveInv
  BY ChainAssembles, ResolveKept, PTL
<1> QED
  BY <1>1, <1>2, <1>3, <1>4, ChainKept, PTL DEF Spec

-----------------------------------------------------------------------------
(* The other core keeps a stack's pointer at the top byte.                 *)

\* A number and one that is multiples away from it leave the same.
LEMMA ModSame ==
  ASSUME NEW p \in Nat \ {0}, NEW x \in Int, NEW y \in Int, NEW q \in Int, x = q * p + y
  PROVE  x % p = y % p
<1>1. PICK s \in 0 .. p - 1 : s = y % p
  OBVIOUS
<1>2. PICK r \in Int : y = r * p + s
  BY <1>1, Division
<1>3. PICK k \in Int : k = q + r
  OBVIOUS
<1>4. PICK qp \in Int, rp \in Int, kp \in Int : qp = q * p /\ rp = r * p /\ kp = k * p
  OBVIOUS
<1>5. kp = qp + rp
  <2>1. k * p = q * p + r * p
    BY <1>3, Z3
  <2> QED
    BY ONLY <1>4, <2>1
<1>6. x = kp + s
  <2>1. x = qp + y /\ y = rp + s
    BY <1>2, <1>4
  <2> QED
    BY ONLY <1>5, <2>1, x \in Int, y \in Int, qp \in Int, rp \in Int, kp \in Int, s \in 0 .. p - 1, p \in Nat \ {0}
<1>7. (k * p + s) % p = s
  BY DivisionOnce
<1> QED
  BY ONLY <1>1, <1>4, <1>6, <1>7

\* What is left may be taken before or after something is added.
LEMMA ModPlus ==
  ASSUME NEW p \in Nat \ {0}, NEW x \in Int, NEW k \in Int
  PROVE  ((x % p) + k) % p = (x + k) % p
<1>1. PICK q \in Int, r \in Int : r = x % p /\ x = q * p + r
  <2>1. x % p \in Int
    OBVIOUS
  <2> QED
    BY <2>1, Division
<1>2. PICK y \in Int, z \in Int : y = x + k /\ z = r + k
  OBVIOUS
<1>3. y = q * p + z
  <2>1. PICK qp \in Int : qp = q * p
    OBVIOUS
  <2>2. y = qp + z
    BY <1>1, <1>2, <2>1
  <2> QED
    BY <2>1, <2>2
<1>4. y % p = z % p
  BY <1>3, ModSame
<1> QED
  BY <1>1, <1>2, <1>4

\* One byte in two counts of l bytes: from the bottom (j, from 0) and from the top (d).
MirrorAt(p, b, l, a) ==
  LET j == (((a - 1) % p) - b) % p
      d == (((b + l) % p) - a) % p
  IN /\ j < l => d = l - 1 - j
     /\ d < l => j = l - 1 - d

\* The j-th byte above the bottom of what is put is the d-th below its top.
LEMMA Mirror ==
  ASSUME NEW p \in Nat \ {0}, NEW b \in Int, NEW a \in Int, NEW l \in 0 .. p
  PROVE  MirrorAt(p, b, l, a)
<1>1. PICK e \in Int : e = (a - 1) % p
  OBVIOUS
<1>2. PICK j \in 0 .. p - 1 : j = (e - b) % p
  OBVIOUS
<1>3. PICK t \in Int : t = (b + l) % p
  <2>1. b + l \in Int
    OBVIOUS
  <2> QED
    BY <2>1
<1>4. PICK d \in 0 .. p - 1 : d = (t - a) % p
  OBVIOUS
<1>5. l \in Int /\ j \in Int /\ d \in Int
  OBVIOUS
<1>6. PICK u \in Int : a - 1 = u * p + e
  <2>1. a - 1 \in Int
    OBVIOUS
  <2> QED
    BY <1>1, <2>1, Division
<1>7. PICK v \in Int : e - b = v * p + j
  <2>1. e - b \in Int
    OBVIOUS
  <2> QED
    BY <1>2, <2>1, Division
<1>8. PICK x \in Int : b + l = x * p + t
  <2>1. b + l \in Int
    BY <1>5
  <2> QED
    BY <1>3, <2>1, Division
<1>9. PICK y \in Int : t - a = y * p + d
  <2>1. t - a \in Int
    OBVIOUS
  <2> QED
    BY <1>4, <2>1, Division
<1>10. PICK U \in Int, V \in Int, X \in Int, Y \in Int : U = u * p /\ V = v * p /\ X = x * p /\ Y = y * p
  OBVIOUS
<1>11. a - 1 = U + e /\ e - b = V + j /\ b + l = X + t /\ t - a = Y + d
  BY ONLY <1>6, <1>7, <1>8, <1>9, <1>10
<1>12. PICK k \in Int : k = u + v + x + y
  OBVIOUS
<1>13. PICK K \in Int : K = k * p /\ K = U + V + X + Y
  <2>1. k * p = u * p + v * p + x * p + y * p
    BY <1>12, Z3
  <2> QED
    BY <1>10, <2>1
\* Together they are one less than what is put, but for multiples.
<1>14. l - 1 = K + (j + d)
  BY ONLY <1>5, <1>11, <1>13, a \in Int, b \in Int, e \in Int, t \in Int,
          U \in Int, V \in Int, X \in Int, Y \in Int, K \in Int
<1>15. ASSUME j < l PROVE d = l - 1 - j
  <2>1. PICK z \in 0 .. p - 1 : z = l - 1 - j
    BY <1>15
  <2>2. z = k * p + d
    BY ONLY <1>5, <1>13, <1>14, <2>1, z \in 0 .. p - 1, K \in Int, p \in Nat \ {0}
  <2>3. (k * p + d) % p = d
    BY DivisionOnce
  <2>4. z % p = z
    OBVIOUS
  <2> QED
    BY <2>1, <2>2, <2>3, <2>4
<1>16. ASSUME d < l PROVE j = l - 1 - d
  <2>1. PICK z \in 0 .. p - 1 : z = l - 1 - d
    BY <1>16
  <2>2. z = k * p + j
    BY ONLY <1>5, <1>13, <1>14, <2>1, z \in 0 .. p - 1, K \in Int, p \in Nat \ {0}
  <2>3. (k * p + j) % p = j
    BY DivisionOnce
  <2>4. z % p = z
    OBVIOUS
  <2> QED
    BY <2>1, <2>2, <2>3, <2>4
<1>17. /\ j < l => d = l - 1 - j
       /\ d < l => j = l - 1 - d
  BY <1>15, <1>16
<1> QED
  BY ONLY <1>1, <1>2, <1>3, <1>4, <1>17 DEF MirrorAt

\* Where the bytes of a stack are in the other core.
LEMMA UpTyped ==
  ASSUME NEW st \in Stack
  PROVE  /\ ShiftedUp(st) \in Stack /\ ShiftedUp(st).ptr = st.ptr
         /\ \A a \in Byte : (a - 1) % B \in Byte /\ ShiftedUp(st).dat[a] = st.dat[(a - 1) % B]
<1>1. B \in Nat \ {0}
  BY Pages
<1>2. ASSUME NEW a \in Byte PROVE (a - 1) % B \in Byte
  <2>1. a - 1 \in Int
    BY Places
  <2> QED
    BY <2>1, Widths
<1>3. ShiftedUp(st) = [dat |-> [a \in Byte |-> st.dat[(a - 1) % B]], ptr |-> st.ptr]
  BY StackFields DEF ShiftedUp, Stack
<1>4. [a \in Byte |-> st.dat[(a - 1) % B]] \in [Byte -> Byte]
  BY <1>2, StackFields
<1> QED
  BY <1>2, <1>3, <1>4, StackFields DEF Stack

\* Moving it there and back.
LEMMA UpAndDown ==
  ASSUME NEW st \in Stack
  PROVE  ShiftedDown(ShiftedUp(st)) = st
<1>1. PICK up \in Stack : /\ up = ShiftedUp(st) /\ up.ptr = st.ptr
                          /\ \A a \in Byte : up.dat[a] = st.dat[(a - 1) % B]
  BY UpTyped
<1>2. ASSUME NEW a \in Byte PROVE up.dat[(a + 1) % B] = st.dat[a]
  <2>1. B \in Nat \ {0} /\ a \in 0 .. B - 1 /\ a \in Int
    BY Pages DEF Byte
  <2>2. PICK c \in Byte : c = (a + 1) % B
    <3>1. a + 1 \in Int
      BY <2>1
    <3> QED
      BY <3>1, Widths
  <2>3. (c - 1) % B = a
    <3>1. PICK x \in Int, k \in Int : x = a + 1 /\ k = -1
      BY <2>1
    <3>2. ((x % B) + k) % B = (x + k) % B
      BY <2>1, ModPlus
    <3>3. x + k = a /\ (x % B) + k = c - 1
      BY <2>1, <2>2, <3>1, Places
    <3>4. a % B = a
      BY <2>1
    <3> QED
      BY ONLY <3>2, <3>3, <3>4
  <2> QED
    BY <1>1, <2>2, <2>3
<1>3. ShiftedDown(up) = [dat |-> [a \in Byte |-> up.dat[(a + 1) % B]], ptr |-> up.ptr]
  BY StackFields DEF ShiftedDown, Stack
<1>4. [a \in Byte |-> up.dat[(a + 1) % B]] = st.dat
  BY <1>2, StackFields
<1> QED
  BY <1>1, <1>3, <1>4 DEF Stack

\* What the other core reads at the top is what this one reads below the pointer.
LEMMA Tops ==
  ASSUME NEW st \in Stack, NEW d \in Int
  PROVE  Top(ShiftedUp(st), d) = Below(st, d) /\ Top2(ShiftedUp(st), d) = Item(st, d, 2)
<1>1. ASSUME NEW c \in Int PROVE Top(ShiftedUp(st), c) = Below(st, c)
  <2>1. PICK up \in Stack : /\ up = ShiftedUp(st) /\ up.ptr = st.ptr
                            /\ \A a \in Byte : up.dat[a] = st.dat[(a - 1) % B]
    BY UpTyped
  <2>2. PICK x \in Int, k \in Int : x = st.ptr - c /\ k = -1
    <3>1. st.ptr \in Int
      BY StackFields, Places
    <3> QED
      BY <3>1
  <2>3. PICK a \in Byte : a = x % B
    BY Widths
  <2>4. (a - 1) % B = (st.ptr - 1 - c) % B
    <3>1. ((x % B) + k) % B = (x + k) % B
      BY Pages, ModPlus
    <3>2. (x % B) + k = a - 1 /\ x + k = st.ptr - 1 - c
      <4>1. st.ptr \in Int /\ a \in Int
        BY StackFields, Places
      <4> QED
        BY <2>2, <2>3, <4>1
    <3> QED
      BY ONLY <3>1, <3>2
  <2> QED
    BY <2>1, <2>2, <2>3, <2>4 DEF Top, Below
<1>2. d + 1 \in Int
  OBVIOUS
<1> QED
  BY <1>1, <1>2 DEF Top2, Item

-----------------------------------------------------------------------------
(* Both cores write the same bytes over the same places.                   *)

\* The stack without the t bytes at its top.
Lowered(st, t) == [st EXCEPT !.ptr = (@ - t) % B]

\* The items of out, w bytes each and the first one at the very top, are these bytes, the
\* last one at the very top.
SameBytes(vals, w, bytes) ==
  /\ bytes \in Seq(Byte) /\ Len(bytes) = Len(vals) * w
  /\ \A d \in 0 .. Len(bytes) - 1 :
       bytes[Len(bytes) - d] = IF d % w = 1 THEN Hi(vals[d \div w + 1]) ELSE Lo(vals[d \div w + 1])

\* A stack without some bytes.
LEMMA LoweredTyped ==
  ASSUME NEW st \in Stack, NEW t \in Int
  PROVE  Lowered(st, t) \in Stack /\ Lowered(st, t).dat = st.dat /\ Lowered(st, t).ptr = (st.ptr - t) % B
<1>1. PICK x \in Int : x = st.ptr - t
  <2>1. st.ptr \in Int
    BY StackFields, Places
  <2> QED
    BY <2>1
<1>2. PICK p \in Byte : p = (st.ptr - t) % B
  BY <1>1, Widths
<1>3. Lowered(st, t) = [st EXCEPT !.ptr = p]
  BY <1>2 DEF Lowered, Stack
<1> QED
  BY <1>2, <1>3, SetPtr

\* Moving the pointer once by the difference and writing over the top is taking the
\* operands and putting the results.
LEMMA Overwritten ==
  ASSUME NEW st \in Stack, NEW t \in Int, NEW y \in Int, NEW vals, NEW w, NEW bytes,
         SameBytes(vals, w, bytes), Len(bytes) <= B, y = Len(bytes) - t
  PROVE  /\ Overwrite(Shift(ShiftedUp(st), y), vals, w) = ShiftedUp(Put(Lowered(st, t), bytes))
         /\ ShiftedUp(Put(Lowered(st, t), bytes)) \in Stack
<1>1. PICK up \in Stack : /\ up = ShiftedUp(st) /\ up.ptr = st.ptr
                          /\ \A a \in Byte : (a - 1) % B \in Byte /\ up.dat[a] = st.dat[(a - 1) % B]
  BY UpTyped
<1>2. PICK low \in Stack : low = Lowered(st, t) /\ low.dat = st.dat /\ low.ptr = (st.ptr - t) % B
  BY LoweredTyped
<1>3. bytes \in Seq(Byte) /\ Len(bytes) \in Nat
  BY DEF SameBytes
<1>4. PICK put \in Stack : put = Put(low, bytes)
  BY <1>3, PutTyped
<1>5. PICK l \in 0 .. B : l = Len(bytes)
  <2>1. B \in Nat /\ Len(bytes) <= B
    BY Pages
  <2> QED
    BY ONLY <1>3, <2>1
<1>6. PICK e \in Byte : e = (low.ptr + l) % B
  <2>1. low.ptr \in Int
    BY StackFields, Places
  <2>2. low.ptr + l \in Int
    BY <2>1
  <2> QED
    BY <2>2, Widths
<1>7. (st.ptr + y) % B = e
  <2>1. PICK x \in Int, k \in Int : x = st.ptr - t /\ k = l
    <3>1. st.ptr \in Int
      BY StackFields, Places
    <3> QED
      BY <3>1
  <2>2. ((x % B) + k) % B = (x + k) % B
    BY Pages, ModPlus
  <2>3. x + k = st.ptr + y
    <3>1. st.ptr \in Int
      BY StackFields, Places
    <3> QED
      BY <1>5, <2>1, <3>1
  <2> QED
    BY ONLY <1>2, <1>6, <2>1, <2>2, <2>3
<1>8. PICK sh \in Stack : sh = Shift(up, y) /\ sh.dat = up.dat /\ sh.ptr = e
  <2>1. Shift(up, y) = [up EXCEPT !.ptr = e]
    BY <1>1, <1>7 DEF Shift, Stack
  <2>2. [up EXCEPT !.ptr = e] \in Stack /\ [up EXCEPT !.ptr = e].dat = up.dat /\ [up EXCEPT !.ptr = e].ptr = e
    BY SetPtr
  <2> QED
    BY ONLY <2>1, <2>2
<1>9. PICK fin \in Stack : /\ fin = ShiftedUp(put) /\ fin.ptr = put.ptr
                           /\ \A a \in Byte : fin.dat[a] = put.dat[(a - 1) % B]
  BY UpTyped
<1>10. put.ptr = e
  BY <1>4, <1>5, <1>6 DEF Put
<1> DEFINE New(a) == LET d == (e - a) % B
                         v == vals[d \div w + 1]
                     IN IF d >= Len(vals) * w THEN up.dat[a] ELSE IF d % w = 1 THEN Hi(v) ELSE Lo(v)
<1>11. Overwrite(sh, vals, w) = [dat |-> [a \in Byte |-> New(a)], ptr |-> e]
  BY <1>8 DEF Overwrite, Stack
<1>12. ASSUME NEW a \in Byte PROVE New(a) = fin.dat[a]
  <2>1. PICK c \in Byte : c = (a - 1) % B
    BY <1>1
  <2>2. PICK j \in 0 .. B - 1 : j = (c - low.ptr) % B
    <3>1. c - low.ptr \in Int
      <4>1. c \in Int /\ low.ptr \in Int
        BY StackFields, Places
      <4> QED
        BY ONLY <4>1
    <3> QED
      BY <3>1, Widths DEF Byte
  <2>3. PICK d \in 0 .. B - 1 : d = (e - a) % B
    <3>1. e - a \in Int
      BY Places
    <3> QED
      BY <3>1, Widths DEF Byte
  <2>4. /\ j < l => d = l - 1 - j
        /\ d < l => j = l - 1 - d
    <3>1. PICK p \in Nat \ {0}, b \in Int : p = B /\ b = low.ptr
      BY Pages, StackFields, Places
    <3>2. a \in Int /\ c \in Int /\ e \in Int /\ l \in 0 .. p /\ j \in 0 .. p - 1 /\ d \in 0 .. p - 1
      BY <3>1, Places
    <3>3. c = (a - 1) % p /\ j = (c - b) % p /\ e = (b + l) % p /\ d = (e - a) % p
      BY <1>6, <2>1, <2>2, <2>3, <3>1
    <3>4. MirrorAt(p, b, l, a)
      BY ONLY <3>1, <3>2, Mirror, p \in Nat \ {0}, b \in Int
    <3> QED
      BY ONLY <3>3, <3>4 DEF MirrorAt
  <2>5. put.dat[c] = IF j < l THEN bytes[j + 1] ELSE low.dat[c]
    BY <1>4, <1>5, <2>2 DEF Put
  <2>6. fin.dat[a] = put.dat[c]
    BY <1>9, <2>1
  <2>7. up.dat[a] = st.dat[c]
    BY <1>1, <2>1
  <2>8. Len(vals) * w = l
    BY <1>5 DEF SameBytes
  <2>9. CASE d < l
    <3>1. j < l /\ j + 1 = l - d
      BY <1>5, <2>3, <2>4, <2>9
    <3>2. d \in 0 .. l - 1
      BY <2>9
    <3>3. bytes[l - d] = IF d % w = 1 THEN Hi(vals[d \div w + 1]) ELSE Lo(vals[d \div w + 1])
      BY <1>5, <3>2 DEF SameBytes
    <3>4. ~(d >= l)
      BY <2>9
    <3>5. New(a) = IF d % w = 1 THEN Hi(vals[d \div w + 1]) ELSE Lo(vals[d \div w + 1])
      BY <2>3, <2>8, <3>4
    <3> QED
      BY ONLY <2>5, <2>6, <3>1, <3>3, <3>5
  <2>10. CASE ~(d < l)
    <3>1. ~(j < l)
      BY <2>4, <2>10
    <3>2. d >= l
      BY <2>10
    <3>3. New(a) = up.dat[a]
      BY <2>3, <2>8, <3>2
    <3> QED
      BY ONLY <1>2, <2>5, <2>6, <2>7, <3>1, <3>3
  <2> QED
    BY <2>9, <2>10
<1> HIDE DEF New
<1>13. [a \in Byte |-> New(a)] = fin.dat
  BY <1>12, StackFields
<1>14. fin = [dat |-> fin.dat, ptr |-> fin.ptr]
  BY DEF Stack
<1>15. Overwrite(sh, vals, w) = fin
  BY ONLY <1>9, <1>10, <1>11, <1>13, <1>14
<1> QED
  BY ONLY <1>1, <1>2, <1>4, <1>8, <1>9, <1>15

\* Nothing is the same as nothing.
LEMMA SameNothing ==
  ASSUME NEW w \in Nat
  PROVE  SameBytes(<<>>, w, <<>>)
<1>1. <<>> \in Seq(Byte) /\ Len(<<>>) = 0
  OBVIOUS
<1>2. 0 * w = 0 /\ 0 .. 0 - 1 = {}
  OBVIOUS
<1> QED
  BY <1>1, <1>2 DEF SameBytes

\* One item.
LEMMA SameOne ==
  ASSUME NEW i \in Instr, NEW v \in Int
  PROVE  SameBytes(<<v>>, Size(i), Bytes(i, v))
<1>1. Bytes(i, v) \in Seq(Byte) /\ Len(Bytes(i, v)) = Size(i)
  BY BytesTyped
<1>2. CASE i.s
  <2>1. Size(i) = 2 /\ Bytes(i, v) = <<Hi(v), Lo(v)>>
    BY <1>2 DEF Size, Bytes
  <2>2. PICK h, k : h = Hi(v) /\ k = Lo(v)
    OBVIOUS
  <2>3. \A d \in 0 .. 1 : <<h, k>>[2 - d] = IF d % 2 = 1 THEN Hi(<<v>>[d \div 2 + 1]) ELSE Lo(<<v>>[d \div 2 + 1])
    <3>1. \A d \in 0 .. 1 : d = 0 \/ d = 1
      OBVIOUS
    <3>2. 0 % 2 = 0 /\ 1 % 2 = 1 /\ 0 \div 2 = 0 /\ 1 \div 2 = 0
      OBVIOUS
    <3>3. <<h, k>>[2 - 0] = k /\ <<h, k>>[2 - 1] = h /\ <<v>>[0 + 1] = v
      OBVIOUS
    <3> QED
      BY <2>2, <3>1, <3>2, <3>3
  <2> QED
    BY <1>1, <2>1, <2>2, <2>3 DEF SameBytes
<1>3. CASE ~i.s
  <2>1. Size(i) = 1 /\ Bytes(i, v) = <<Lo(v)>>
    BY <1>3 DEF Size, Bytes
  <2>2. PICK k : k = Lo(v)
    OBVIOUS
  <2>3. \A d \in 0 .. 0 : <<k>>[1 - d] = IF d % 1 = 1 THEN Hi(<<v>>[d \div 1 + 1]) ELSE Lo(<<v>>[d \div 1 + 1])
    <3>1. \A d \in 0 .. 0 : d = 0
      OBVIOUS
    <3>2. 0 % 1 = 0 /\ 0 \div 1 = 0
      OBVIOUS
    <3>3. <<k>>[1 - 0] = k /\ <<v>>[0 + 1] = v
      OBVIOUS
    <3> QED
      BY <2>2, <3>1, <3>2, <3>3
  <2> QED
    BY <1>1, <2>1, <2>2, <2>3 DEF SameBytes
<1> QED
  BY <1>2, <1>3

\* Items one after the other.
LEMMA SameJoin ==
  ASSUME NEW o1 \in Seq(Int), NEW o2 \in Seq(Int), NEW w \in {1, 2}, NEW b1, NEW b2,
         SameBytes(o1, w, b1), SameBytes(o2, w, b2)
  PROVE  SameBytes(o2 \o o1, w, b1 \o b2)
<1>1. b1 \in Seq(Byte) /\ b2 \in Seq(Byte)
  BY DEF SameBytes
<1>2. PICK k1 \in Nat, k2 \in Nat, l1 \in Nat, l2 \in Nat :
        k1 = Len(o1) /\ k2 = Len(o2) /\ l1 = Len(b1) /\ l2 = Len(b2)
  BY <1>1
<1>3. l1 = k1 * w /\ l2 = k2 * w
  BY <1>2 DEF SameBytes
<1>4. PICK o : /\ o = o2 \o o1 /\ o \in Seq(Int) /\ Len(o) = k2 + k1
               /\ \A x \in 1 .. k2 + k1 : o[x] = IF x <= k2 THEN o2[x] ELSE o1[x - k2]
  <2>1. /\ o2 \o o1 \in Seq(Int) /\ Len(o2 \o o1) = Len(o2) + Len(o1)
        /\ \A x \in 1 .. Len(o2) + Len(o1) : (o2 \o o1)[x] = IF x <= Len(o2) THEN o2[x] ELSE o1[x - Len(o2)]
    BY ConcatProperties
  <2> QED
    BY ONLY <1>2, <2>1
<1>5. PICK b : /\ b = b1 \o b2 /\ b \in Seq(Byte) /\ Len(b) = l1 + l2
               /\ \A x \in 1 .. l1 + l2 : b[x] = IF x <= l1 THEN b1[x] ELSE b2[x - l1]
  <2>1. /\ b1 \o b2 \in Seq(Byte) /\ Len(b1 \o b2) = Len(b1) + Len(b2)
        /\ \A x \in 1 .. Len(b1) + Len(b2) : (b1 \o b2)[x] = IF x <= Len(b1) THEN b1[x] ELSE b2[x - Len(b1)]
    BY <1>1, ConcatProperties
  <2> QED
    BY ONLY <1>2, <2>1
<1>6. Len(b) = Len(o) * w
  <2>1. CASE w = 1
    BY <1>3, <1>4, <1>5, <2>1
  <2>2. CASE w = 2
    BY <1>3, <1>4, <1>5, <2>2
  <2> QED
    BY <2>1, <2>2
<1> DEFINE Of(s, d) == IF d % w = 1 THEN Hi(s[d \div w + 1]) ELSE Lo(s[d \div w + 1])
<1>7. ASSUME NEW d \in 0 .. l1 + l2 - 1 PROVE b[l1 + l2 - d] = Of(o, d)
  <2>1. CASE d < l2
    <3>1. l1 + l2 - d \in 1 .. l1 + l2 /\ ~(l1 + l2 - d <= l1) /\ l1 + l2 - d - l1 = l2 - d /\ d \in 0 .. l2 - 1
      BY <2>1
    <3>2. b[l1 + l2 - d] = b2[l2 - d]
      <4>1. PICK x \in 1 .. l1 + l2 : x = l1 + l2 - d /\ ~(x <= l1) /\ x - l1 = l2 - d
        BY <3>1
      <4>2. b[x] = b2[x - l1]
        BY <1>4, <1>5, <4>1
      <4> QED
        BY <4>1, <4>2
    <3>3. b2[l2 - d] = Of(o2, d)
      BY <1>2, <3>1 DEF SameBytes
    <3>4. PICK x \in 1 .. k2 + k1 : x = d \div w + 1 /\ x <= k2
      <4>1. CASE w = 1
        BY <1>3, <2>1, <4>1
      <4>2. CASE w = 2
        BY <1>3, <2>1, <4>2
      <4> QED
        BY <4>1, <4>2
    <3>5. o[x] = o2[x]
      BY <1>4, <1>5, <3>4
    <3> QED
      BY <3>2, <3>3, <3>4, <3>5
  <2>2. CASE ~(d < l2)
    <3>1. PICK c \in 0 .. l1 - 1 : c = d - l2
      BY <2>2
    <3>2. l1 + l2 - d \in 1 .. l1 + l2 /\ l1 + l2 - d <= l1 /\ l1 + l2 - d = l1 - c
      BY <2>2, <3>1
    <3>3. b[l1 + l2 - d] = b1[l1 - c]
      BY <1>4, <1>5, <3>2
    <3>4. b1[l1 - c] = Of(o1, c)
      BY <1>2, <3>1 DEF SameBytes
    <3>5. PICK x \in 1 .. k2 + k1 : x = d \div w + 1 /\ ~(x <= k2) /\ x - k2 = c \div w + 1 /\ d % w = c % w
      <4>1. CASE w = 1
        BY <1>3, <2>2, <3>1, <4>1
      <4>2. CASE w = 2
        BY <1>3, <2>2, <3>1, <4>2
      <4> QED
        BY <4>1, <4>2
    <3>6. o[x] = o1[x - k2]
      BY <1>4, <1>5, <3>5
    <3> QED
      BY <3>3, <3>4, <3>5, <3>6
  <2> QED
    BY <2>1, <2>2
<1> HIDE DEF Of
<1> QED
  <2>1. Len(b) = l1 + l2 /\ b \in Seq(Byte)
    BY <1>4, <1>5
  <2>2. \A d \in 0 .. Len(b) - 1 : b[Len(b) - d] = Of(o, d)
    BY <1>7, <2>1
  <2>3. SameBytes(o, w, b)
    BY <1>6, <2>1, <2>2 DEF SameBytes, Of
  <2> QED
    BY <1>4, <1>5, <2>3

-----------------------------------------------------------------------------
(* The parts of what the other core makes of a machine.                    *)

\* The stacks are shifted, and the rest is the same.
LEMMA TnlTyped ==
  ASSUME NEW n \in Machine
  PROVE  /\ AsTnl(n) \in Machine
         /\ AsTnl(n).ram = n.ram /\ AsTnl(n).dev = n.dev /\ AsTnl(n).pc = n.pc
         /\ AsTnl(n).wst = ShiftedUp(n.wst) /\ AsTnl(n).rst = ShiftedUp(n.rst)
         /\ \A f \in {"wst", "rst"} : AsTnl(n)[f] = ShiftedUp(n[f])
<1>1. PICK a \in Stack, b \in Stack : a = ShiftedUp(n.wst) /\ b = ShiftedUp(n.rst)
  BY Fields, UpTyped
<1>2. AsTnl(n) = [n EXCEPT !.wst = a, !.rst = b]
  BY <1>1 DEF AsTnl, Machine
<1>3. PICK u : u = [n EXCEPT !.wst = a, !.rst = b]
  OBVIOUS
<1>4. /\ u \in Machine /\ u.ram = n.ram /\ u.dev = n.dev /\ u.pc = n.pc
      /\ u.wst = a /\ u.rst = b
  BY <1>3 DEF Machine
<1>5. \A f \in {"wst", "rst"} : u[f] = ShiftedUp(n[f])
  BY <1>1, <1>4
<1> QED
  BY ONLY <1>1, <1>2, <1>3, <1>4, <1>5

\* A machine is its parts.
LEMMA SameMachine ==
  ASSUME NEW x \in Machine, NEW y \in Machine, x.ram = y.ram, x.dev = y.dev, x.pc = y.pc,
         x.wst = y.wst, x.rst = y.rst
  PROVE  x = y
BY DEF Machine

\* There and back.
LEMMA RoundTrip ==
  ASSUME NEW n \in Machine
  PROVE  FromTnl(AsTnl(n)) = n
<1>1. PICK u \in Machine : /\ u = AsTnl(n) /\ u.ram = n.ram /\ u.dev = n.dev /\ u.pc = n.pc
                           /\ u.wst = ShiftedUp(n.wst) /\ u.rst = ShiftedUp(n.rst)
  BY TnlTyped
<1>2. ShiftedDown(u.wst) = n.wst /\ ShiftedDown(u.rst) = n.rst
  BY <1>1, Fields, UpAndDown
<1>3. FromTnl(u) = [u EXCEPT !.wst = n.wst, !.rst = n.rst]
  BY <1>2 DEF FromTnl, Machine
<1>4. PICK v : v = [u EXCEPT !.wst = n.wst, !.rst = n.rst]
  OBVIOUS
<1>5. /\ v \in Machine /\ v.ram = u.ram /\ v.dev = u.dev /\ v.pc = u.pc
      /\ v.wst = n.wst /\ v.rst = n.rst
  BY <1>4 DEF Machine
<1>6. v = n
  BY <1>1, <1>5, SameMachine
<1> QED
  BY ONLY <1>1, <1>3, <1>4, <1>6

\* Where the pointer has moved, how wide the results are, where it goes on, and what
\* becomes of the other stack.
TnlMoved(n, i) == [n EXCEPT ![Own(i)] = Shift(@, (IF i.k THEN SetX(i) ELSE 0) + SetY(i))]
TnlWidth(i) == IF i.op \in Compares THEN 1 ELSE Size(i)
TnlJumps(n, i) == i.op \in {"JMP", "JSR"} \/ (i.op = "JCN" /\ Top(n[Own(i)], Size(i)) # 0)
TnlGoes(n, i, pc) ==
  LET t == Reg(i, n[Own(i)], 0)
  IN IF ~TnlJumps(n, i) THEN pc ELSE IF i.s THEN t ELSE (pc + Signed(t)) % PAGE_SIZE
TnlOther(n, i, st) ==
  CASE i.op = "STH" -> Overwrite(Shift(st, Size(i)), <<Reg(i, n[Own(i)], 0)>>, Size(i))
    [] i.op = "JSR" -> Overwrite(Shift(st, 2), <<n.pc>>, 2)
    [] OTHER        -> st

\* The parts of what uxn-tnl.c makes of a machine.
LEMMA TnlParts ==
  ASSUME NEW n \in Machine, NEW i \in Instr,
         NEW after \in Machine, after = Effect(i, n, TnlMoved(n, i)),
         NEW a \in Stack, a = Overwrite(after[Own(i)], Out(i, n, TnlMoved(n, i)), TnlWidth(i)),
         NEW q \in Short, q = TnlGoes(n, i, after.pc),
         NEW b \in Stack, b = TnlOther(n, i, after[Other(i)])
  PROVE  LET u == TnlOperate(n, i) IN
         /\ u \in Machine
         /\ u.ram = after.ram /\ u.dev = after.dev /\ u.pc = q
         /\ u[Own(i)] = a /\ u[Other(i)] = b
<1>1. PICK f \in {"wst", "rst"}, g \in {"wst", "rst"} : f = Own(i) /\ g = Other(i) /\ f # g
  BY InstrParts
<1>2. (f = "wst" /\ g = "rst") \/ (f = "rst" /\ g = "wst")
  BY <1>1
<1> DEFINE own == [after EXCEPT ![f] = Overwrite(@, Out(i, n, TnlMoved(n, i)), TnlWidth(i)),
                                !.pc = TnlGoes(n, i, @)]
<1>3. TnlOperate(n, i) =
        CASE i.op = "STH" -> [own EXCEPT ![g] = Overwrite(Shift(@, Size(i)), <<Reg(i, n[f], 0)>>, Size(i))]
          [] i.op = "JSR" -> [own EXCEPT ![g] = Overwrite(Shift(@, 2), <<n.pc>>, 2)]
          [] OTHER        -> own
  BY <1>1 DEF TnlOperate, TnlMoved, TnlWidth, TnlGoes, TnlJumps
<1>4. PICK o : o = [after EXCEPT ![f] = a, !.pc = q]
  OBVIOUS
<1>5. own = o
  BY <1>1, <1>2, <1>4 DEF Machine
<1>6. /\ o \in Machine /\ o.ram = after.ram /\ o.dev = after.dev /\ o.pc = q
      /\ o[f] = a /\ o[g] = after[g]
  BY <1>2, <1>4 DEF Machine
<1> HIDE DEF own
<1>7. PICK v : v = [o EXCEPT ![g] = b]
  OBVIOUS
<1>8. /\ v \in Machine /\ v.ram = after.ram /\ v.dev = after.dev /\ v.pc = q
      /\ v[f] = a /\ v[g] = b
  BY <1>2, <1>6, <1>7 DEF Machine
<1>9. CASE i.op = "STH"
  <2>1. b = Overwrite(Shift(o[g], Size(i)), <<Reg(i, n[f], 0)>>, Size(i))
    BY <1>1, <1>6, <1>9 DEF TnlOther
  <2>2. TnlOperate(n, i) = [o EXCEPT ![g] = Overwrite(Shift(@, Size(i)), <<Reg(i, n[f], 0)>>, Size(i))]
    BY <1>3, <1>5, <1>9
  <2>3. TnlOperate(n, i) = v
    BY <1>2, <1>6, <1>7, <2>1, <2>2 DEF Machine
  <2> QED
    BY ONLY <1>1, <1>8, <2>3
<1>10. CASE i.op = "JSR"
  <2>1. b = Overwrite(Shift(o[g], 2), <<n.pc>>, 2)
    BY <1>1, <1>6, <1>10 DEF TnlOther
  <2>2. TnlOperate(n, i) = [o EXCEPT ![g] = Overwrite(Shift(@, 2), <<n.pc>>, 2)]
    BY <1>3, <1>5, <1>10
  <2>3. TnlOperate(n, i) = v
    BY <1>2, <1>6, <1>7, <2>1, <2>2 DEF Machine
  <2> QED
    BY ONLY <1>1, <1>8, <2>3
<1>11. CASE i.op \notin {"STH", "JSR"}
  <2>1. b = after[g] /\ TnlOperate(n, i) = o
    BY <1>1, <1>3, <1>5, <1>11 DEF TnlOther
  <2> QED
    BY ONLY <1>1, <1>6, <2>1
<1> QED
  BY <1>9, <1>10, <1>11

-----------------------------------------------------------------------------
(* Every instruction puts the same bytes on its stack.                     *)

\* Where the two cores part, for a machine behind the opcode.
PartsAt(n, i) ==
  LET st == n[Own(i)]
      a  == Below(st, 0)
      there == n.pc + Signed(a)
      own   == IF i.r THEN Rst ELSE Wst
  IN \/ i.op \in {"LDZ", "STZ", "LDA", "STA"} /\ n.dev[Local] # 0
     \/ i.op \in {"LDZ", "STZ"} /\ i.s /\ a = B - 1
     \/ i.op \in {"LDA", "STA"} /\ i.s /\ Item(st, 0, 2) = PAGE_SIZE - 1
     \/ i.op \in {"LDR", "STR"} /\ there \notin Short
     \/ i.op = "DEI" /\ (a = own \/ (i.s /\ (a + 1) % B = own))

\* The bytes are the same, and the pointer moves by what they are more than the operands.
Matching(i, vals, puts) ==
  /\ SameBytes(vals, TnlWidth(i), puts)
  /\ Len(puts) <= B
  /\ SetY(i) = Len(puts) - Takes(i)

\* Both take as many bytes.
LEMMA TakesSame ==
  ASSUME NEW i \in Instr
  PROVE  SetX(i) = Takes(i) /\ Takes(i) \in Int /\ SetY(i) \in Int
<1>1. PICK z \in {1, 2} : z = Size(i)
  BY InstrParts
<1>2. z \in Int /\ 2 * z \in Int /\ 3 * z \in Int /\ z + 1 \in Int /\ z + 2 \in Int
      /\ -z \in Int /\ 1 - 2 * z \in Int /\ -(z + 1) \in Int /\ z - 1 \in Int /\ z - 2 \in Int
      /\ -(z + 2) \in Int
  OBVIOUS
<1>3. SetX(i) = Takes(i)
  BY DEF SetX, Takes
<1>4. Takes(i) \in Int
  BY <1>1, <1>2 DEF Takes
<1>5. SetY(i) \in Int
  BY <1>1, <1>2 DEF SetY
<1> QED
  BY <1>3, <1>4, <1>5

\* The registers are the items of the stack.
LEMMA Regs ==
  ASSUME NEW st \in Stack, NEW i \in Instr
  PROVE  LET up == ShiftedUp(st)
             z  == Size(i)
         IN /\ Reg(i, up, 0) = Item(st, 0, z)
            /\ Reg(i, up, 1) = Item(st, z, z)
            /\ Reg(i, up, 2) = Item(st, 2 * z, z)
            /\ Item(st, 0, z) \in Nat /\ Item(st, z, z) \in Nat /\ Item(st, 2 * z, z) \in Nat
            /\ Item(st, 1, z) \in Nat /\ Item(st, 2, z) \in Nat
            /\ (IF i.s THEN Top2(up, 1) ELSE Top(up, 1)) = Item(st, 1, z)
            /\ (IF i.s THEN Top2(up, 2) ELSE Top(up, 2)) = Item(st, 2, z)
<1>1. Byte \subseteq Nat /\ Short \subseteq Nat
  BY Pages DEF Byte, Short
<1>2. ASSUME NEW d \in Int
      PROVE  /\ Top(ShiftedUp(st), d) = Item(st, d, 1) /\ Top2(ShiftedUp(st), d) = Item(st, d, 2)
             /\ Item(st, d, 1) \in Nat /\ Item(st, d, 2) \in Nat
  <2>1. Top(ShiftedUp(st), d) = Below(st, d) /\ Top2(ShiftedUp(st), d) = Item(st, d, 2)
    BY Tops
  <2>2. Item(st, d, 1) = Below(st, d) /\ Item(st, d, 1) \in Byte /\ Item(st, d, 2) \in Short
    BY ItemTyped
  <2> QED
    BY ONLY <1>1, <2>1, <2>2
<1>3. 0 \in Int /\ 1 \in Int /\ 2 \in Int /\ 4 \in Int /\ 2 * 0 = 0 /\ 2 * 1 = 2 /\ 2 * 2 = 4
  OBVIOUS
<1>4. CASE i.s
  <2>1. Size(i) = 2
    BY <1>4 DEF Size
  <2> QED
    BY <1>2, <1>3, <1>4, <2>1 DEF Reg
<1>5. CASE ~i.s
  <2>1. Size(i) = 1
    BY <1>5 DEF Size
  <2> QED
    BY <1>2, <1>3, <1>5, <2>1 DEF Reg
<1> QED
  BY <1>4, <1>5

\* One byte.
LEMMA SameByte ==
  ASSUME NEW v \in Byte
  PROVE  SameBytes(<<v>>, 1, <<v>>)
<1>1. Lo(v) = v
  BY Pages DEF Lo, Byte
<1>2. <<v>> \in Seq(Byte) /\ Len(<<v>>) = 1
  OBVIOUS
<1>3. \A d \in 0 .. 0 : <<v>>[1 - d] = IF d % 1 = 1 THEN Hi(<<v>>[d \div 1 + 1]) ELSE Lo(<<v>>[d \div 1 + 1])
  <2>1. \A d \in 0 .. 0 : d = 0
    OBVIOUS
  <2>2. 0 % 1 = 0 /\ 0 \div 1 = 0
    OBVIOUS
  <2>3. <<v>>[1 - 0] = v /\ <<v>>[0 + 1] = v
    OBVIOUS
  <2> QED
    BY <1>1, <2>1, <2>2, <2>3
<1> QED
  BY <1>2, <1>3 DEF SameBytes

\* The instructions that put nothing.
LEMMA NothingPut ==
  ASSUME NEW n \in Machine, NEW i \in Instr, NEW taken, NEW moved, NEW u,
         i.op \in {"POP", "JMP", "JCN", "JSR", "STH", "STZ", "STR", "STA", "DEO"}
  PROVE  /\ Matching(i, Out(i, u, moved), Puts(i, n, taken))
         /\ Out(i, u, moved) = <<>> /\ Puts(i, n, taken) = <<>>
<1>1. Out(i, u, moved) = <<>> /\ Puts(i, n, taken) = <<>>
  BY DEF Out, Puts, Compares, Sums
<1>2. PICK z \in {1, 2} : z = Size(i)
  BY InstrParts
<1>3. TnlWidth(i) \in Nat
  BY <1>2 DEF TnlWidth
<1>4. Len(<<>>) = 0 /\ 0 <= B
  BY Pages
<1>5. SetY(i) = 0 - Takes(i)
  BY <1>2 DEF SetY, Takes, Compares, Sums
<1> QED
  BY <1>1, <1>3, <1>4, <1>5, SameNothing DEF Matching

\* Items one before the other.
LEMMA TwoItems ==
  ASSUME NEW a \in Int, NEW b \in Int
  PROVE  <<a>> \in Seq(Int) /\ <<b>> \in Seq(Int) /\ <<b>> \o <<a>> = <<b, a>>
<1>1. PICK x : x \in Seq(Int) /\ x = <<b>> /\ Len(x) = 1 /\ x[1] = b
  <2>1. <<b>> \in Seq(Int) /\ Len(<<b>>) = 1 /\ <<b>>[1] = b
    OBVIOUS
  <2> QED
    BY <2>1
<1>2. PICK y : y \in Seq(Int) /\ y = <<a>> /\ Len(y) = 1 /\ y[1] = a
  <2>1. <<a>> \in Seq(Int) /\ Len(<<a>>) = 1 /\ <<a>>[1] = a
    OBVIOUS
  <2> QED
    BY <2>1
<1>3. PICK p : p \in Seq(Int) /\ p = <<b, a>> /\ Len(p) = 2 /\ p[1] = b /\ p[2] = a
  <2>1. <<b, a>> \in Seq(Int) /\ Len(<<b, a>>) = 2 /\ <<b, a>>[1] = b /\ <<b, a>>[2] = a
    OBVIOUS
  <2> QED
    BY <2>1
<1>0. PICK q : q = x \o y
  OBVIOUS
<1>4. /\ q \in Seq(Int) /\ Len(q) = 2
      /\ \A i \in 1 .. 2 : q[i] = IF i <= 1 THEN x[i] ELSE y[i - 1]
  <2>1. /\ x \o y \in Seq(Int) /\ Len(x \o y) = Len(x) + Len(y)
        /\ \A i \in 1 .. Len(x) + Len(y) : (x \o y)[i] = IF i <= Len(x) THEN x[i] ELSE y[i - Len(x)]
    BY <1>1, <1>2, ConcatProperties
  <2>2. Len(x) = 1 /\ Len(y) = 1 /\ 1 + 1 = 2
    BY <1>1, <1>2
  <2> QED
    BY ONLY <1>0, <2>1, <2>2
<1>5. \A i \in 1 .. 2 : q[i] = p[i]
  <2>1. \A i \in 1 .. 2 : i = 1 \/ i = 2
    OBVIOUS
  <2>2. q[1] = x[1] /\ q[2] = y[2 - 1]
    BY <1>4
  <2> QED
    BY <1>1, <1>2, <1>3, <2>1, <2>2
<1>6. q = p
  BY <1>3, <1>4, <1>5, SeqEqual
<1> QED
  BY <1>0, <1>1, <1>2, <1>3, <1>6

\* One item before two.
LEMMA ThreeItems ==
  ASSUME NEW a \in Int, NEW b \in Int, NEW c \in Int
  PROVE  <<b, a>> \in Seq(Int) /\ <<c>> \in Seq(Int) /\ <<c>> \o <<b, a>> = <<c, b, a>>
<1>1. PICK x : x \in Seq(Int) /\ x = <<c>> /\ Len(x) = 1 /\ x[1] = c
  <2>1. <<c>> \in Seq(Int) /\ Len(<<c>>) = 1 /\ <<c>>[1] = c
    OBVIOUS
  <2> QED
    BY <2>1
<1>2. PICK y : y \in Seq(Int) /\ y = <<b, a>> /\ Len(y) = 2 /\ y[1] = b /\ y[2] = a
  <2>1. <<b, a>> \in Seq(Int) /\ Len(<<b, a>>) = 2 /\ <<b, a>>[1] = b /\ <<b, a>>[2] = a
    OBVIOUS
  <2> QED
    BY <2>1
<1>3. PICK p : p \in Seq(Int) /\ p = <<c, b, a>> /\ Len(p) = 3 /\ p[1] = c /\ p[2] = b /\ p[3] = a
  <2>1. <<c, b, a>> \in Seq(Int) /\ Len(<<c, b, a>>) = 3 /\ <<c, b, a>>[1] = c /\ <<c, b, a>>[2] = b /\ <<c, b, a>>[3] = a
    OBVIOUS
  <2> QED
    BY <2>1
<1>0. PICK q : q = x \o y
  OBVIOUS
<1>4. /\ q \in Seq(Int) /\ Len(q) = 3
      /\ \A i \in 1 .. 3 : q[i] = IF i <= 1 THEN x[i] ELSE y[i - 1]
  <2>1. /\ x \o y \in Seq(Int) /\ Len(x \o y) = Len(x) + Len(y)
        /\ \A i \in 1 .. Len(x) + Len(y) : (x \o y)[i] = IF i <= Len(x) THEN x[i] ELSE y[i - Len(x)]
    BY <1>1, <1>2, ConcatProperties
  <2>2. Len(x) = 1 /\ Len(y) = 2 /\ 1 + 2 = 3
    BY <1>1, <1>2
  <2> QED
    BY ONLY <1>0, <2>1, <2>2
<1>5. \A i \in 1 .. 3 : q[i] = p[i]
  <2>1. \A i \in 1 .. 3 : i = 1 \/ i = 2 \/ i = 3
    OBVIOUS
  <2>2. q[1] = x[1] /\ q[2] = y[2 - 1] /\ q[3] = y[3 - 1]
    BY <1>4
  <2> QED
    BY <1>1, <1>2, <1>3, <2>1, <2>2
<1>6. q = p
  BY <1>3, <1>4, <1>5, SeqEqual
<1> QED
  BY <1>0, <1>1, <1>2, <1>3, <1>6

\* The instructions that move what is on the stack.
LEMMA MovesPut ==
  ASSUME NEW n \in Machine, NEW i \in Instr, NEW taken, NEW moved, NEW u,
         u[Own(i)] = ShiftedUp(n[Own(i)]),
         i.op \in {"NIP", "SWP", "ROT", "DUP", "OVR"}
  PROVE  Matching(i, Out(i, u, moved), Puts(i, n, taken))
<1>1. PICK st \in Stack : st = n[Own(i)]
  BY InstrParts, Stacks
<1>2. PICK z \in {1, 2} : z = Size(i) /\ TnlWidth(i) = z
  BY InstrParts DEF TnlWidth, Compares
<1>3. PICK x1 \in Int, x2 \in Int, x3 \in Int :
        /\ x1 = Item(st, 0, z) /\ x2 = Item(st, z, z) /\ x3 = Item(st, 2 * z, z)
        /\ x1 = Reg(i, ShiftedUp(st), 0) /\ x2 = Reg(i, ShiftedUp(st), 1) /\ x3 = Reg(i, ShiftedUp(st), 2)
  BY <1>2, Regs
<1>4. PICK v1, v2, v3 : v1 = Bytes(i, x1) /\ v2 = Bytes(i, x2) /\ v3 = Bytes(i, x3)
  OBVIOUS
<1>5. /\ v1 \in Seq(Byte) /\ v2 \in Seq(Byte) /\ v3 \in Seq(Byte)
      /\ Len(v1) = z /\ Len(v2) = z /\ Len(v3) = z
  BY <1>2, <1>4, BytesTyped
<1>6. /\ SameBytes(<<x1>>, z, v1) /\ SameBytes(<<x2>>, z, v2) /\ SameBytes(<<x3>>, z, v3)
  <2>1. SameBytes(<<x1>>, z, v1)
    BY <1>2, <1>4, SameOne
  <2>2. SameBytes(<<x2>>, z, v2)
    BY <1>2, <1>4, SameOne
  <2>3. SameBytes(<<x3>>, z, v3)
    BY <1>2, <1>4, SameOne
  <2> QED
    BY ONLY <2>1, <2>2, <2>3
<1>7. /\ i.op = "NIP" => Puts(i, n, taken) = v1
      /\ i.op = "SWP" => Puts(i, n, taken) = v1 \o v2
      /\ i.op = "ROT" => Puts(i, n, taken) = v2 \o v1 \o v3
      /\ i.op = "DUP" => Puts(i, n, taken) = v1 \o v1
      /\ i.op = "OVR" => Puts(i, n, taken) = v2 \o v1 \o v2
  <2>1. (1 - 1) * z = 0 /\ (2 - 1) * z = z /\ (3 - 1) * z = 2 * z
    <3>1. 1 - 1 = 0 /\ 2 - 1 = 1 /\ 3 - 1 = 2
      OBVIOUS
    <3>2. z \in Int
      OBVIOUS
    <3>3. 0 * z = 0 /\ 1 * z = z
      BY ONLY <3>2
    <3> QED
      BY ONLY <3>1, <3>3, Zenon
  <2> QED
    BY <1>1, <1>2, <1>3, <1>4, <2>1, Zenon DEF Puts, Compares, Sums
<1>8. /\ i.op = "NIP" => Out(i, u, moved) = <<x1>>
      /\ i.op = "SWP" => Out(i, u, moved) = <<x2, x1>>
      /\ i.op = "ROT" => Out(i, u, moved) = <<x3, x1, x2>>
      /\ i.op = "DUP" => Out(i, u, moved) = <<x1, x1>>
      /\ i.op = "OVR" => Out(i, u, moved) = <<x2, x1, x2>>
  BY <1>1, <1>3 DEF Out, Compares, Sums
<1>9. ASSUME NEW a \in Int, NEW b \in Int, NEW va, NEW vb, SameBytes(<<a>>, z, va), SameBytes(<<b>>, z, vb)
      PROVE  SameBytes(<<b, a>>, z, va \o vb)
  <2>1. <<a>> \in Seq(Int) /\ <<b>> \in Seq(Int) /\ <<b>> \o <<a>> = <<b, a>>
    BY TwoItems
  <2>2. SameBytes(<<b>> \o <<a>>, z, va \o vb)
    BY <1>9, <2>1, SameJoin
  <2> QED
    BY <2>1, <2>2
<1>10. ASSUME NEW a \in Int, NEW b \in Int, NEW c \in Int, NEW va, NEW vb, NEW vc,
              SameBytes(<<a>>, z, va), SameBytes(<<b>>, z, vb), SameBytes(<<c>>, z, vc)
       PROVE  SameBytes(<<c, b, a>>, z, va \o vb \o vc)
  <2>1. <<b, a>> \in Seq(Int) /\ <<c>> \in Seq(Int) /\ <<c>> \o <<b, a>> = <<c, b, a>>
    BY ThreeItems
  <2>2. SameBytes(<<b, a>>, z, va \o vb)
    BY <1>9, <1>10
  <2>3. SameBytes(<<c>> \o <<b, a>>, z, (va \o vb) \o vc)
    BY <1>10, <2>1, <2>2, SameJoin
  <2> QED
    BY <2>1, <2>3
<1>11. SameBytes(Out(i, u, moved), z, Puts(i, n, taken))
  <2>1. SameBytes(<<x2, x1>>, z, v1 \o v2) /\ SameBytes(<<x1, x1>>, z, v1 \o v1)
    BY <1>6, <1>9
  <2>2. SameBytes(<<x3, x1, x2>>, z, v2 \o v1 \o v3)
    BY <1>6, <1>10
  <2>3. SameBytes(<<x2, x1, x2>>, z, v2 \o v1 \o v2)
    BY <1>6, <1>10
  <2>4. i.op \in {"NIP", "SWP", "ROT", "DUP", "OVR"}
    OBVIOUS
  <2> QED
    BY ONLY <1>6, <1>7, <1>8, <2>1, <2>2, <2>3, <2>4
<1>12. /\ Len(Puts(i, n, taken)) = IF i.op = "NIP" THEN z ELSE IF i.op \in {"SWP", "DUP"} THEN 2 * z ELSE 3 * z
  <2>1. /\ Len(v1 \o v2) = z + z /\ Len(v1 \o v1) = z + z /\ Len(v2 \o v1) = z + z
        /\ v1 \o v2 \in Seq(Byte) /\ v2 \o v1 \in Seq(Byte)
    BY <1>5, ConcatProperties
  <2>2. Len(v2 \o v1 \o v3) = z + z + z /\ Len(v2 \o v1 \o v2) = z + z + z
    BY <1>5, <2>1, ConcatProperties
  <2>3. z + z = 2 * z /\ z + z + z = 3 * z
    OBVIOUS
  <2> QED
    BY ONLY <1>5, <1>7, <2>1, <2>2, <2>3,
            i.op \in {"NIP", "SWP", "ROT", "DUP", "OVR"}
<1>13. SetY(i) = Len(Puts(i, n, taken)) - Takes(i)
  BY <1>2, <1>12 DEF SetY, Takes, Compares, Sums
<1>14. Len(Puts(i, n, taken)) <= B
  BY <1>12, ByteAssumption
<1> QED
  BY <1>2, <1>11, <1>13, <1>14 DEF Matching

\* One item as wide as the instruction works is put.
LEMMA OnePut ==
  ASSUME NEW i \in Instr, i.op \notin Compares, NEW v \in Int, SetY(i) = Size(i) - Takes(i)
  PROVE  Matching(i, <<v>>, Bytes(i, v))
<1>1. PICK z \in {1, 2} : z = Size(i) /\ TnlWidth(i) = z
  BY InstrParts DEF TnlWidth
<1>2. SameBytes(<<v>>, z, Bytes(i, v)) /\ Len(Bytes(i, v)) = z
  BY <1>1, SameOne, BytesTyped
<1>3. z <= B
  BY ByteAssumption
<1> QED
  BY <1>1, <1>2, <1>3 DEF Matching

\* The instructions that put a number.
LEMMA NumbersPut ==
  ASSUME NEW n \in Machine, NEW i \in Instr, NEW taken, NEW moved, NEW u,
         u[Own(i)] = ShiftedUp(n[Own(i)]),
         i.op \in {"INC", "SFT"} \cup Compares \cup Sums
  PROVE  Matching(i, Out(i, u, moved), Puts(i, n, taken))
<1>1. PICK st \in Stack : st = n[Own(i)]
  BY InstrParts, Stacks
<1>2. PICK z \in {1, 2} : z = Size(i)
  BY InstrParts
<1>3. PICK x \in Nat, y \in Nat :
        /\ x = Item(st, 0, z) /\ y = Item(st, z, z)
        /\ x = Reg(i, ShiftedUp(st), 0) /\ y = Reg(i, ShiftedUp(st), 1)
  BY <1>2, Regs
<1>4. PICK a \in Byte : a = Below(st, 0) /\ a = Top(ShiftedUp(st), 0)
  BY ItemTyped, Tops
<1>5. PICK h \in Int : h = Item(st, 1, z) /\ h = (IF i.s THEN Top2(ShiftedUp(st), 1) ELSE Top(ShiftedUp(st), 1))
  BY <1>2, Regs
<1>6. CASE i.op = "INC"
  <2>1. Puts(i, n, taken) = Bytes(i, x + 1)
    BY <1>1, <1>2, <1>3, <1>6 DEF Puts, Compares, Sums
  <2>2. Out(i, u, moved) = <<x + 1>>
    BY <1>1, <1>3, <1>6 DEF Out, Compares, Sums
  <2>3. x + 1 \in Int /\ i.op \notin Compares
    BY <1>6 DEF Compares
  <2>4. SetY(i) = Size(i) - Takes(i)
    BY <1>2, <1>6 DEF SetY, Takes, Compares, Sums
  <2> QED
    BY <2>1, <2>2, <2>3, <2>4, OnePut
<1>7. CASE i.op = "SFT"
  <2>1. Puts(i, n, taken) = Bytes(i, Shifted(h, a))
    BY <1>1, <1>2, <1>4, <1>5, <1>7 DEF Puts, Compares, Sums
  <2>2. Out(i, u, moved) = <<Shifted(h, a)>>
    BY <1>1, <1>4, <1>5, <1>7 DEF Out, Compares, Sums
  <2>3. Shifted(h, a) \in Int /\ i.op \notin Compares
    BY <1>7, ShiftedTyped DEF Compares
  <2>4. SetY(i) = Size(i) - Takes(i)
    BY <1>2, <1>7 DEF SetY, Takes, Compares, Sums
  <2> QED
    BY <2>1, <2>2, <2>3, <2>4, OnePut
<1>8. CASE i.op \in Sums
  <2>1. Puts(i, n, taken) = Bytes(i, Result(i.op, y, x))
    BY <1>1, <1>2, <1>3, <1>8 DEF Puts, Compares, Sums
  <2>2. Out(i, u, moved) = <<Result(i.op, y, x)>>
    BY <1>1, <1>3, <1>8 DEF Out, Compares, Sums
  <2>3. Result(i.op, y, x) \in Int /\ i.op \notin Compares
    BY <1>8, ResultTyped DEF Compares, Sums
  <2>4. SetY(i) = Size(i) - Takes(i)
    BY <1>2, <1>8 DEF SetY, Takes, Compares, Sums
  <2> QED
    BY <2>1, <2>2, <2>3, <2>4, OnePut
<1>9. CASE i.op \in Compares
  <2>1. PICK v \in Byte : v = Result(i.op, y, x)
    BY <1>9, ResultTyped
  <2>2. Puts(i, n, taken) = <<v>>
    BY <1>1, <1>2, <1>3, <1>9, <2>1 DEF Puts, Compares, Sums
  <2>3. Out(i, u, moved) = <<v>>
    BY <1>1, <1>3, <1>9, <2>1 DEF Out, Compares, Sums
  <2>4. SetY(i) = 1 - Takes(i)
    BY <1>2, <1>9 DEF SetY, Takes, Compares, Sums
  <2>5. Len(<<v>>) = 1 /\ 1 <= B /\ TnlWidth(i) = 1
    BY <1>9, ByteAssumption DEF TnlWidth
  <2> QED
    BY <2>1, <2>2, <2>3, <2>4, <2>5, SameByte DEF Matching
<1> QED
  BY <1>6, <1>7, <1>8, <1>9

\* A byte and the next one, or two ports, as a short and as they are put.
LEMMA PairPut ==
  ASSUME NEW i \in Instr, NEW x \in Byte, NEW y \in Byte,
         NEW v, v = (IF i.s THEN x * B + y ELSE x)
  PROVE  v \in Int /\ Bytes(i, v) = IF i.s THEN <<x, y>> ELSE <<x>>
<1>1. CASE i.s
  <2>1. v = x * B + y /\ v \in Short /\ Hi(v) = x /\ Lo(v) = y
    BY <1>1, Bytewise
  <2> QED
    BY <1>1, <2>1, Places DEF Bytes
<1>2. CASE ~i.s
  <2>1. v = x /\ Lo(v) = x
    BY <1>2, Pages DEF Lo, Byte
  <2> QED
    BY <1>2, <2>1, Places DEF Bytes
<1> QED
  BY <1>1, <1>2

\* A load of the one core and of the other, where the byte after is the same.
LEMMA FetchSame ==
  ASSUME NEW n \in Machine, NEW i \in Instr, NEW a \in Memory, NEW w, NEW x,
         i.s => (a + 1) % w \in Memory /\ (a + 1) % x = (a + 1) % w
  PROVE  /\ Fetch(i, n.ram, a, w) \in Int
         /\ Pek(n, a, Size(i), x) = Bytes(i, Fetch(i, n.ram, a, w))
<1>1. PICK r \in [Memory -> Byte] : r = n.ram
  BY Fields
<1>2. PICK u \in Byte : u = r[a]
  OBVIOUS
<1>3. CASE i.s
  <2>1. PICK v \in Byte : v = r[(a + 1) % w]
    BY <1>3
  <2>2. Fetch(i, r, a, w) = u * B + v
    BY <1>2, <1>3, <2>1 DEF Fetch
  <2>3. Pek(n, a, Size(i), x) = <<u, v>>
    BY <1>1, <1>2, <1>3, <2>1 DEF Pek, Size
  <2>4. u * B + v \in Int /\ Bytes(i, u * B + v) = <<u, v>>
    BY <1>3, PairPut
  <2> QED
    BY <1>1, <2>2, <2>3, <2>4
<1>4. CASE ~i.s
  <2>1. Fetch(i, r, a, w) = u
    BY <1>2, <1>4 DEF Fetch
  <2>2. Pek(n, a, Size(i), x) = <<u>>
    BY <1>1, <1>2, <1>4 DEF Pek, Size
  <2>3. u \in Int /\ Bytes(i, u) = <<u>>
    BY <1>4, PairPut
  <2> QED
    BY <1>1, <2>1, <2>2, <2>3
<1> QED
  BY <1>3, <1>4

\* The byte after one that is not the last.
LEMMA NextPlace ==
  /\ \A a \in Byte : a # B - 1 => (a + 1) % ALL = (a + 1) % B /\ (a + 1) % B \in Memory
  /\ \A a \in Short : a # PAGE_SIZE - 1 => (a + 1) % ALL = (a + 1) % PAGE_SIZE
  /\ \A a \in Short : (a + 1) % PAGE_SIZE \in Memory
<1>1. PICK p \in Nat : p = PAGE_SIZE /\ p > B
  <2>1. B < PAGE_SIZE
    BY Pages DEF PAGE_PROGRAM
  <2> QED
    BY <2>1, Pages
<1>2. PICK q \in Nat : q = ALL /\ q > p /\ Memory = 0 .. q - 1
  <2>1. p * BANKS \in Nat /\ p * BANKS > p
    BY <1>1, Pages, BanksAssumption, Z3
  <2> QED
    BY <1>1, <2>1 DEF ALL, Memory
<1>3. ASSUME NEW a \in Byte, a # B - 1
      PROVE  (a + 1) % ALL = (a + 1) % B /\ (a + 1) % B \in Memory
  <2>1. PICK c \in Nat : c = a + 1 /\ c < B /\ c < q
    BY <1>1, <1>2, <1>3, Pages DEF Byte
  <2>2. c % q = c /\ c % B = c
    BY <1>1, <1>2, <2>1, Pages
  <2> QED
    BY <1>2, <2>1, <2>2
<1>4. ASSUME NEW a \in Short, a # PAGE_SIZE - 1
      PROVE  (a + 1) % ALL = (a + 1) % PAGE_SIZE
  <2>1. PICK c \in Nat : c = a + 1 /\ c < p /\ c < q
    BY <1>1, <1>2, <1>4 DEF Short
  <2>2. c % q = c /\ c % p = c
    BY <1>1, <1>2, <2>1
  <2> QED
    BY <1>1, <1>2, <2>1, <2>2
<1>5. ASSUME NEW a \in Short
      PROVE  (a + 1) % PAGE_SIZE \in Memory
  <2>1. a + 1 \in Int
    BY Places
  <2> QED
    BY <2>1, Widths, FirstBank
<1> QED
  BY <1>3, <1>4, <1>5

\* The instructions that load from the memory.
LEMMA LoadsPut ==
  ASSUME NEW n \in Machine, NEW i \in Instr, NEW taken, NEW moved, NEW u,
         u[Own(i)] = ShiftedUp(n[Own(i)]), u.ram = n.ram, u.pc = n.pc,
         i.op \in {"LDZ", "LDR", "LDA"}, ~PartsAt(n, i)
  PROVE  Matching(i, Out(i, u, moved), Puts(i, n, taken))
<1>1. PICK st \in Stack : st = n[Own(i)]
  BY InstrParts, Stacks
<1>2. PICK z \in {1, 2} : z = Size(i) /\ (z = 2 <=> i.s)
  BY InstrParts
<1>3. PICK b \in Byte : b = Below(st, 0) /\ b = Top(ShiftedUp(st), 0)
  BY ItemTyped, Tops
<1>4. PICK t \in Short : t = Item(st, 0, 2) /\ t = Top2(ShiftedUp(st), 0)
  BY ItemTyped, Tops
<1>5. i.op \notin Compares
  BY DEF Compares
<1>6. SetY(i) = Size(i) - Takes(i)
  BY <1>2 DEF SetY, Takes, Compares, Sums
<1>7. i.op \in {"LDZ", "LDA"} => \A a \in Short : InLocal(n, a) = a
  <2>1. i.op \in {"LDZ", "LDA"} => n.dev[Local] = 0
    BY DEF PartsAt
  <2>2. \A a \in Short : a + 0 * PAGE_SIZE = a
    <3>1. 0 * PAGE_SIZE = 0
      BY Pages
    <3>2. \A a \in Short : a + 0 = a
      BY Places
    <3> QED
      BY <3>1, <3>2
  <2> QED
    BY <2>1, <2>2 DEF InLocal
<1>8. CASE i.op = "LDZ"
  <2>1. Puts(i, n, taken) = Pek(n, b, z, ALL)
    BY <1>1, <1>2, <1>3, <1>7, <1>8, Places DEF Puts, Compares, Sums
  <2>2. Out(i, u, moved) = <<Fetch(i, n.ram, b, B)>>
    BY <1>1, <1>3, <1>8 DEF Out, Compares, Sums
  <2>3. i.s => b # B - 1
    BY <1>1, <1>3, <1>8 DEF PartsAt
  <2>4. b \in Memory
    BY FirstBank, Places
  <2>5. i.s => (b + 1) % B \in Memory /\ (b + 1) % ALL = (b + 1) % B
    BY <2>3, NextPlace
  <2>6. Fetch(i, n.ram, b, B) \in Int /\ Pek(n, b, Size(i), ALL) = Bytes(i, Fetch(i, n.ram, b, B))
    BY <2>4, <2>5, FetchSame
  <2> QED
    BY <1>2, <1>5, <1>6, <2>1, <2>2, <2>6, OnePut
<1>9. CASE i.op = "LDA"
  <2>1. Puts(i, n, taken) = Pek(n, t, z, ALL)
    BY <1>1, <1>2, <1>4, <1>7, <1>9 DEF Puts, Compares, Sums
  <2>2. Out(i, u, moved) = <<Fetch(i, n.ram, t, PAGE_SIZE)>>
    BY <1>1, <1>4, <1>9 DEF Out, Compares, Sums
  <2>3. i.s => t # PAGE_SIZE - 1
    BY <1>1, <1>4, <1>9 DEF PartsAt
  <2>4. t \in Memory
    BY FirstBank
  <2>5. i.s => (t + 1) % PAGE_SIZE \in Memory /\ (t + 1) % ALL = (t + 1) % PAGE_SIZE
    BY <2>3, NextPlace
  <2>6. /\ Fetch(i, n.ram, t, PAGE_SIZE) \in Int
        /\ Pek(n, t, Size(i), ALL) = Bytes(i, Fetch(i, n.ram, t, PAGE_SIZE))
    BY <2>4, <2>5, FetchSame
  <2> QED
    BY <1>2, <1>5, <1>6, <2>1, <2>2, <2>6, OnePut
<1>10. CASE i.op = "LDR"
  <2>1. PICK a \in Short : a = n.pc + Signed(b)
    BY <1>1, <1>3, <1>10 DEF PartsAt
  <2>2. a % PAGE_SIZE = a
    BY Places, Widths
  <2>3. Puts(i, n, taken) = Pek(n, a, z, PAGE_SIZE)
    BY <1>1, <1>2, <1>3, <1>10, <2>1 DEF Puts, Compares, Sums
  <2>4. Out(i, u, moved) = <<Fetch(i, n.ram, a, PAGE_SIZE)>>
    BY <1>1, <1>3, <1>10, <2>1, <2>2 DEF Out, Compares, Sums
  <2>5. a \in Memory
    BY FirstBank
  <2>6. i.s => (a + 1) % PAGE_SIZE \in Memory /\ (a + 1) % PAGE_SIZE = (a + 1) % PAGE_SIZE
    BY NextPlace
  <2>7. /\ Fetch(i, n.ram, a, PAGE_SIZE) \in Int
        /\ Pek(n, a, Size(i), PAGE_SIZE) = Bytes(i, Fetch(i, n.ram, a, PAGE_SIZE))
    BY <2>5, <2>6, FetchSame
  <2> QED
    BY <1>2, <1>5, <1>6, <2>3, <2>4, <2>7, OnePut
<1> QED
  BY <1>8, <1>9, <1>10

\* The instruction that reads ports: but for the pointer of its own stack, the two machines
\* it reads them from have the same.
LEMMA PortsPut ==
  ASSUME NEW n \in Machine, NEW i \in Instr, NEW taken \in Machine, NEW moved \in Machine, NEW u,
         u[Own(i)] = ShiftedUp(n[Own(i)]),
         taken.dev = moved.dev, taken[Other(i)].ptr = moved[Other(i)].ptr,
         i.op = "DEI", ~PartsAt(n, i)
  PROVE  Matching(i, Out(i, u, moved), Puts(i, n, taken))
<1>1. PICK st \in Stack : st = n[Own(i)]
  BY InstrParts, Stacks
<1>2. PICK b \in Byte : b = Below(st, 0) /\ b = Top(ShiftedUp(st), 0)
  BY ItemTyped, Tops
<1>3. PICK c \in Byte : c = (b + 1) % B
  <2>1. b + 1 \in Int
    BY Places
  <2> QED
    BY <2>1, Widths
<1> DEFINE own == IF i.r THEN Rst ELSE Wst
<1>4. ASSUME NEW p \in Byte, p # own PROVE Dei(moved, p) = Dei(taken, p) /\ Dei(taken, p) \in Byte
  <2>1. Dei(taken, p) \in Byte
    BY DeiTyped
  <2>2. CASE i.r
    BY <1>4, <2>1, <2>2 DEF Dei, Other, Wst, Rst
  <2>3. CASE ~i.r
    BY <1>4, <2>1, <2>3 DEF Dei, Other, Wst, Rst
  <2> QED
    BY <2>2, <2>3
<1>5. b # own /\ (i.s => c # own)
  BY <1>1, <1>2, <1>3 DEF PartsAt
<1> HIDE DEF own
<1>6. PICK x \in Byte : x = Dei(taken, b) /\ x = Dei(moved, b)
  BY <1>4, <1>5
<1>7. PICK y \in Byte : i.s => y = Dei(taken, c) /\ y = Dei(moved, c)
  BY <1>4, <1>5
<1>8. PICK v : v = (IF i.s THEN x * B + y ELSE x)
  OBVIOUS
<1>9. Out(i, u, moved) = <<v>>
  BY <1>1, <1>2, <1>3, <1>6, <1>7, <1>8 DEF Out, Compares, Sums
<1>10. Puts(i, n, taken) = DeiAll(taken, i, b)
  BY <1>1, <1>2 DEF Puts, Compares, Sums
<1>11. DeiAll(taken, i, b) = IF i.s THEN <<x, y>> ELSE <<x>>
  <2>1. CASE i.s
    <3>1. Ports(i, b) = <<b, c>>
      BY <1>3, <2>1 DEF Ports
    <3>2. DeiAll(taken, i, b) = [j \in 1 .. 2 |-> Dei(taken, <<b, c>>[j])]
      BY <3>1 DEF DeiAll
    <3>3. \A j \in 1 .. 2 : Dei(taken, <<b, c>>[j]) = <<x, y>>[j]
      <4>1. \A j \in 1 .. 2 : j = 1 \/ j = 2
        OBVIOUS
      <4>2. /\ <<b, c>>[1] = b /\ <<b, c>>[2] = c
            /\ <<x, y>>[1] = x /\ <<x, y>>[2] = y
        OBVIOUS
      <4>3. Dei(taken, <<b, c>>[1]) = <<x, y>>[1] /\ Dei(taken, <<b, c>>[2]) = <<x, y>>[2]
        BY <1>6, <1>7, <2>1, <4>2
      <4> QED
        BY <4>1, <4>3
    <3>4. [j \in 1 .. 2 |-> <<x, y>>[j]] = <<x, y>>
      OBVIOUS
    <3> QED
      BY <2>1, <3>2, <3>3, <3>4
  <2>2. CASE ~i.s
    <3>1. Ports(i, b) = <<b>>
      BY <2>2 DEF Ports
    <3>2. DeiAll(taken, i, b) = [j \in 1 .. 1 |-> Dei(taken, <<b>>[j])]
      BY <3>1 DEF DeiAll
    <3>3. \A j \in 1 .. 1 : Dei(taken, <<b>>[j]) = <<x>>[j]
      <4>1. \A j \in 1 .. 1 : j = 1
        OBVIOUS
      <4>2. <<b>>[1] = b /\ <<x>>[1] = x
        OBVIOUS
      <4>3. Dei(taken, <<b>>[1]) = <<x>>[1]
        BY <1>6, <4>2
      <4> QED
        BY <4>1, <4>3
    <3>4. [j \in 1 .. 1 |-> <<x>>[j]] = <<x>>
      OBVIOUS
    <3> QED
      BY <2>2, <3>2, <3>3, <3>4
  <2> QED
    BY <2>1, <2>2
<1>12. v \in Int /\ Bytes(i, v) = IF i.s THEN <<x, y>> ELSE <<x>>
  BY <1>8, PairPut
<1>13. i.op \notin Compares
  BY DEF Compares
<1>14. SetY(i) = Size(i) - Takes(i)
  <2>1. PICK z \in {1, 2} : z = Size(i)
    BY InstrParts
  <2> QED
    BY <2>1 DEF SetY, Takes, Compares, Sums
<1> QED
  BY <1>9, <1>10, <1>11, <1>12, <1>13, <1>14, OnePut

-----------------------------------------------------------------------------
(* Every instruction does the same to the memory and the ports.            *)

\* The pointer may be moved before or after the stack is shifted.
LEMMA UpPtr ==
  ASSUME NEW st \in Stack, NEW v \in Byte
  PROVE  ShiftedUp([st EXCEPT !.ptr = v]) = [ShiftedUp(st) EXCEPT !.ptr = v]
<1>1. PICK up \in Stack : up = ShiftedUp(st) /\ up.ptr = st.ptr
  BY UpTyped
<1>2. PICK s \in Stack : s = [st EXCEPT !.ptr = v] /\ s.ptr = v /\ s.dat = st.dat
  <2>1. [st EXCEPT !.ptr = v] \in Stack /\ [st EXCEPT !.ptr = v].ptr = v
        /\ [st EXCEPT !.ptr = v].dat = st.dat
    BY SetPtr
  <2> QED
    BY ONLY <2>1
<1>3. PICK d : d = [a \in Byte |-> st.dat[(a - 1) % B]]
  OBVIOUS
<1>4. ShiftedUp(s) = [dat |-> d, ptr |-> v]
  <2>1. ShiftedUp(s) = [dat |-> [a \in Byte |-> s.dat[(a - 1) % B]], ptr |-> s.ptr]
    BY DEF ShiftedUp, Stack
  <2> QED
    BY ONLY <1>2, <1>3, <2>1
<1>5. up = [dat |-> d, ptr |-> st.ptr]
  BY <1>1, <1>3 DEF ShiftedUp, Stack
<1>6. [up EXCEPT !.ptr = v] = [dat |-> d, ptr |-> v]
  BY <1>5
<1> QED
  BY ONLY <1>1, <1>2, <1>4, <1>6

\* The parts of what writing a port makes of a machine.
LEMMA DeoParts ==
  ASSUME NEW n \in Machine, NEW p \in Byte, NEW v \in Byte
  PROVE  LET o == Deo(n, p, v)
             d == [n.dev EXCEPT ![p] = v]
         IN /\ o \in Machine
            /\ o.pc = n.pc /\ o.dev = d
            /\ o.ram = IF p = Expansion THEN Expanded(n.ram, Peek2(d, Expansion - 1)) ELSE n.ram
            /\ o.wst = IF p = Wst THEN [n.wst EXCEPT !.ptr = v] ELSE n.wst
            /\ o.rst = IF p = Rst THEN [n.rst EXCEPT !.ptr = v] ELSE n.rst
<1>1. PICK d \in [Byte -> Byte] : d = [n.dev EXCEPT ![p] = v]
  BY Fields
<1>2. PICK o \in Machine : /\ o = [n EXCEPT !.dev[p] = v] /\ o.pc = n.pc /\ o.dev = d
                           /\ o.ram = n.ram /\ o.wst = n.wst /\ o.rst = n.rst
  <2>1. /\ [n EXCEPT !.dev[p] = v] \in Machine
        /\ [n EXCEPT !.dev[p] = v].dev = [n.dev EXCEPT ![p] = v]
        /\ [n EXCEPT !.dev[p] = v].ram = n.ram /\ [n EXCEPT !.dev[p] = v].pc = n.pc
        /\ [n EXCEPT !.dev[p] = v].wst = n.wst /\ [n EXCEPT !.dev[p] = v].rst = n.rst
    BY SetPort
  <2> QED
    BY ONLY <1>1, <2>1
<1>3. PICK q \in Machine : q = Deo(n, p, v)
  BY DeoTyped
<1>4. CASE p = Expansion
  <2>0. PICK e : e = Peek2(o.dev, Expansion - 1)
    OBVIOUS
  <2>1. PICK r : r = Expanded(o.ram, e) /\ r = Expanded(o.ram, Peek2(o.dev, Expansion - 1))
    BY <2>0
  <2>2. q = [o EXCEPT !.ram = r]
    <3>1. o = [n EXCEPT !.dev[p] = v] /\ r = Expanded(o.ram, e)
      BY <1>2, <2>1
    <3>2. Deo(n, p, v) = [o EXCEPT !.ram = Expanded(@, Peek2(o.dev, Expansion - 1))]
      BY <1>4, <3>1 DEF Deo, Expansion, Wst, Rst
    <3>3. [o EXCEPT !.ram = Expanded(@, e)] = [o EXCEPT !.ram = r]
      BY <3>1 DEF Machine
    <3> QED
      BY ONLY <1>3, <2>0, <3>2, <3>3
  <2>3. q.ram = r /\ q.pc = o.pc /\ q.dev = o.dev /\ q.wst = o.wst /\ q.rst = o.rst
    BY <2>2 DEF Machine
  <2>4. p # Wst /\ p # Rst
    BY <1>4 DEF Expansion, Wst, Rst
  <2> QED
    BY ONLY <1>1, <1>2, <1>3, <1>4, <2>1, <2>3, <2>4, q \in Machine
<1>5. CASE p = Wst
  <2>1. PICK s : s = [o.wst EXCEPT !.ptr = v]
    OBVIOUS
  <2>2. q = [o EXCEPT !.wst = s]
    <3>1. q = [o EXCEPT !.wst.ptr = v]
      BY <1>2, <1>3, <1>5 DEF Deo, Expansion, Wst, Rst
    <3> QED
      BY <2>1, <3>1 DEF Machine
  <2>3. q.wst = s /\ q.pc = o.pc /\ q.dev = o.dev /\ q.ram = o.ram /\ q.rst = o.rst
    BY <2>2 DEF Machine
  <2>4. p # Expansion /\ p # Rst
    BY <1>5 DEF Expansion, Wst, Rst
  <2> QED
    BY ONLY <1>1, <1>2, <1>3, <1>5, <2>1, <2>3, <2>4, q \in Machine
<1>6. CASE p = Rst
  <2>1. PICK s : s = [o.rst EXCEPT !.ptr = v]
    OBVIOUS
  <2>2. q = [o EXCEPT !.rst = s]
    <3>1. q = [o EXCEPT !.rst.ptr = v]
      BY <1>2, <1>3, <1>6 DEF Deo, Expansion, Wst, Rst
    <3> QED
      BY <2>1, <3>1 DEF Machine
  <2>3. q.rst = s /\ q.pc = o.pc /\ q.dev = o.dev /\ q.ram = o.ram /\ q.wst = o.wst
    BY <2>2 DEF Machine
  <2>4. p # Expansion /\ p # Wst
    BY <1>6 DEF Expansion, Wst, Rst
  <2> QED
    BY ONLY <1>1, <1>2, <1>3, <1>6, <2>1, <2>3, <2>4, q \in Machine
<1>7. CASE p \notin {Expansion, Wst, Rst}
  <2>1. q = o
    BY <1>2, <1>3, <1>7 DEF Deo
  <2> QED
    BY ONLY <1>1, <1>2, <1>3, <1>7, <2>1, q \in Machine
<1> QED
  BY <1>4, <1>5, <1>6, <1>7

\* A port is written in the same way.
LEMMA DeoSame ==
  ASSUME NEW n \in Machine, NEW p \in Byte, NEW v \in Byte
  PROVE  Deo(AsTnl(n), p, v) = AsTnl(Deo(n, p, v))
<1>1. PICK u \in Machine : /\ u = AsTnl(n) /\ u.ram = n.ram /\ u.dev = n.dev /\ u.pc = n.pc
                           /\ u.wst = ShiftedUp(n.wst) /\ u.rst = ShiftedUp(n.rst)
  BY TnlTyped
<1>2. PICK d : d = [n.dev EXCEPT ![p] = v]
  OBVIOUS
<1>3. PICK r : r = IF p = Expansion THEN Expanded(n.ram, Peek2(d, Expansion - 1)) ELSE n.ram
  OBVIOUS
<1>4. PICK o \in Machine : /\ o = Deo(n, p, v)
                           /\ o.pc = n.pc /\ o.dev = d /\ o.ram = r
                           /\ o.wst = IF p = Wst THEN [n.wst EXCEPT !.ptr = v] ELSE n.wst
                           /\ o.rst = IF p = Rst THEN [n.rst EXCEPT !.ptr = v] ELSE n.rst
  BY <1>2, <1>3, DeoParts
<1>5. PICK x \in Machine : /\ x = Deo(u, p, v)
                           /\ x.pc = n.pc /\ x.dev = d /\ x.ram = r
                           /\ x.wst = IF p = Wst THEN [u.wst EXCEPT !.ptr = v] ELSE u.wst
                           /\ x.rst = IF p = Rst THEN [u.rst EXCEPT !.ptr = v] ELSE u.rst
  BY <1>1, <1>2, <1>3, DeoParts
<1>6. PICK y \in Machine : /\ y = AsTnl(o) /\ y.ram = o.ram /\ y.dev = o.dev /\ y.pc = o.pc
                           /\ y.wst = ShiftedUp(o.wst) /\ y.rst = ShiftedUp(o.rst)
  BY TnlTyped
<1>7. /\ ShiftedUp([n.wst EXCEPT !.ptr = v]) = [ShiftedUp(n.wst) EXCEPT !.ptr = v]
      /\ ShiftedUp([n.rst EXCEPT !.ptr = v]) = [ShiftedUp(n.rst) EXCEPT !.ptr = v]
  BY Fields, UpPtr
<1>8. x.wst = y.wst /\ x.rst = y.rst
  BY ONLY <1>1, <1>4, <1>5, <1>6, <1>7
<1>9. x = y
  BY <1>4, <1>5, <1>6, <1>8, SameMachine
<1> QED
  BY ONLY <1>1, <1>4, <1>5, <1>6, <1>9

\* What the other core writes where this one pokes.
Poked(n, i, a, h, w) == [AsTnl(n) EXCEPT !.ram = Poke(i, @, a, h, w)]

\* So is the memory, where the byte after is the same.
LEMMA PokSame ==
  ASSUME NEW n \in Machine, NEW i \in Instr, NEW a \in Memory, NEW w, NEW x, NEW h \in Int,
         ~i.s => h \in Byte,
         i.s => (a + 1) % w \in Memory /\ (a + 1) % x = (a + 1) % w
  PROVE  /\ Pok(n, a, Bytes(i, h), x) \in Machine
         /\ Poked(n, i, a, h, w) = AsTnl(Pok(n, a, Bytes(i, h), x))
         /\ Pok(n, a, Bytes(i, h), x).pc = n.pc
<1>1. PICK u \in Machine : /\ u = AsTnl(n) /\ u.ram = n.ram /\ u.dev = n.dev /\ u.pc = n.pc
                           /\ u.wst = ShiftedUp(n.wst) /\ u.rst = ShiftedUp(n.rst)
  BY TnlTyped
<1>2. PICK v1 \in Byte, v2 \in Byte : v1 = Hi(h) /\ v2 = Lo(h)
  BY Widths
<1>3. PICK c \in Memory : i.s => c = (a + 1) % w /\ c = (a + 1) % x
  OBVIOUS
<1>4. PICK r \in [Memory -> Byte] :
        r = IF i.s THEN [[n.ram EXCEPT ![a] = v1] EXCEPT ![c] = v2] ELSE [n.ram EXCEPT ![a] = v2]
  <2>1. n.ram \in [Memory -> Byte]
    BY Fields
  <2>2. [[n.ram EXCEPT ![a] = v1] EXCEPT ![c] = v2] \in [Memory -> Byte]
    BY <2>1
  <2>3. [n.ram EXCEPT ![a] = v2] \in [Memory -> Byte]
    BY <2>1
  <2> QED
    BY <2>2, <2>3
<1>5. Poke(i, u.ram, a, h, w) = r
  <2>1. CASE i.s
    BY <1>1, <1>2, <1>3, <1>4, <2>1 DEF Poke
  <2>2. CASE ~i.s
    <3>1. v2 = h
      BY <1>2, <2>2, Pages DEF Lo, Byte
    <3> QED
      BY <1>1, <1>4, <2>2, <3>1 DEF Poke
  <2> QED
    BY <2>1, <2>2
<1>6. [u EXCEPT !.ram = Poke(i, @, a, h, w)] = [u EXCEPT !.ram = r]
  BY <1>5 DEF Machine
<1>7. PICK y \in Machine : /\ y = [u EXCEPT !.ram = r] /\ y.ram = r /\ y.pc = u.pc /\ y.dev = u.dev
                           /\ y.wst = u.wst /\ y.rst = u.rst
  <2>1. /\ [u EXCEPT !.ram = r] \in Machine
        /\ [u EXCEPT !.ram = r].ram = r
        /\ [u EXCEPT !.ram = r].pc = u.pc /\ [u EXCEPT !.ram = r].dev = u.dev
        /\ [u EXCEPT !.ram = r].wst = u.wst /\ [u EXCEPT !.ram = r].rst = u.rst
    BY SetRam
  <2> QED
    BY ONLY <2>1
<1>8. PICK o \in Machine : /\ o = Pok(n, a, Bytes(i, h), x) /\ o.ram = r /\ o.pc = n.pc /\ o.dev = n.dev
                           /\ o.wst = n.wst /\ o.rst = n.rst
  <2>1. CASE i.s
    <3>1. Bytes(i, h) = <<v1, v2>>
      BY <1>2, <2>1 DEF Bytes
    <3>2. Len(<<v1, v2>>) = 2 /\ <<v1, v2>>[1] = v1 /\ <<v1, v2>>[2] = v2
      OBVIOUS
    <3>3. PICK e \in Machine : /\ e = [n EXCEPT !.ram[a] = v1] /\ e.ram = [n.ram EXCEPT ![a] = v1]
                               /\ e.dev = n.dev /\ e.pc = n.pc /\ e.wst = n.wst /\ e.rst = n.rst
      <4>1. /\ [n EXCEPT !.ram[a] = v1] \in Machine
            /\ [n EXCEPT !.ram[a] = v1].ram = [n.ram EXCEPT ![a] = v1]
            /\ [n EXCEPT !.ram[a] = v1].dev = n.dev /\ [n EXCEPT !.ram[a] = v1].pc = n.pc
            /\ [n EXCEPT !.ram[a] = v1].wst = n.wst /\ [n EXCEPT !.ram[a] = v1].rst = n.rst
        BY SetByte
      <4> QED
        BY ONLY <4>1
    <3>4. PICK o \in Machine : /\ o = [e EXCEPT !.ram[c] = v2] /\ o.ram = [e.ram EXCEPT ![c] = v2]
                               /\ o.dev = e.dev /\ o.pc = e.pc /\ o.wst = e.wst /\ o.rst = e.rst
      <4>1. /\ [e EXCEPT !.ram[c] = v2] \in Machine
            /\ [e EXCEPT !.ram[c] = v2].ram = [e.ram EXCEPT ![c] = v2]
            /\ [e EXCEPT !.ram[c] = v2].dev = e.dev /\ [e EXCEPT !.ram[c] = v2].pc = e.pc
            /\ [e EXCEPT !.ram[c] = v2].wst = e.wst /\ [e EXCEPT !.ram[c] = v2].rst = e.rst
        BY SetByte
      <4> QED
        BY ONLY <4>1
    <3>5. Pok(n, a, <<v1, v2>>, x) = o
      BY <1>3, <2>1, <3>2, <3>3, <3>4 DEF Pok
    <3>6. o.ram = r
      BY ONLY <1>4, <2>1, <3>3, <3>4
    <3>7. o.pc = n.pc /\ o.dev = n.dev /\ o.wst = n.wst /\ o.rst = n.rst
      BY ONLY <3>3, <3>4
    <3> QED
      BY ONLY <3>1, <3>5, <3>6, <3>7, o \in Machine
  <2>2. CASE ~i.s
    <3>1. Bytes(i, h) = <<v2>>
      BY <1>2, <2>2 DEF Bytes
    <3>2. Len(<<v2>>) = 1 /\ <<v2>>[1] = v2
      OBVIOUS
    <3>3. PICK e \in Machine : /\ e = [n EXCEPT !.ram[a] = v2] /\ e.ram = [n.ram EXCEPT ![a] = v2]
                               /\ e.dev = n.dev /\ e.pc = n.pc /\ e.wst = n.wst /\ e.rst = n.rst
      <4>1. /\ [n EXCEPT !.ram[a] = v2] \in Machine
            /\ [n EXCEPT !.ram[a] = v2].ram = [n.ram EXCEPT ![a] = v2]
            /\ [n EXCEPT !.ram[a] = v2].dev = n.dev /\ [n EXCEPT !.ram[a] = v2].pc = n.pc
            /\ [n EXCEPT !.ram[a] = v2].wst = n.wst /\ [n EXCEPT !.ram[a] = v2].rst = n.rst
        BY SetByte
      <4> QED
        BY ONLY <4>1
    <3>4. Pok(n, a, <<v2>>, x) = e
      BY <3>2, <3>3 DEF Pok
    <3> QED
      BY <1>4, <2>2, <3>1, <3>3, <3>4
  <2> QED
    BY <2>1, <2>2
<1>9. PICK z \in Machine : /\ z = AsTnl(o) /\ z.ram = o.ram /\ z.dev = o.dev /\ z.pc = o.pc
                           /\ z.wst = ShiftedUp(o.wst) /\ z.rst = ShiftedUp(o.rst)
  BY TnlTyped
<1>10. y = z
  <2>1. /\ y.ram = z.ram /\ y.dev = z.dev /\ y.pc = z.pc
        /\ y.wst = z.wst /\ y.rst = z.rst
    BY ONLY <1>1, <1>7, <1>8, <1>9
  <2> QED
    BY <2>1, SameMachine
<1> QED
  BY ONLY <1>1, <1>6, <1>7, <1>8, <1>9, <1>10, o \in Machine DEF Poked

\* Where the other core is when its pointer has moved.
LEMMA MovedParts ==
  ASSUME NEW n \in Machine, NEW i \in Instr, NEW y \in Int, y = (IF i.k THEN SetX(i) ELSE 0) + SetY(i)
  PROVE  LET o == TnlMoved(AsTnl(n), i) IN
         /\ o \in Machine
         /\ o.ram = n.ram /\ o.dev = n.dev /\ o.pc = n.pc
         /\ o[Own(i)] = Shift(ShiftedUp(n[Own(i)]), y)
         /\ o[Other(i)] = ShiftedUp(n[Other(i)]) /\ o[Other(i)].ptr = n[Other(i)].ptr
<1>1. PICK u \in Machine : /\ u = AsTnl(n) /\ u.ram = n.ram /\ u.dev = n.dev /\ u.pc = n.pc
                           /\ u.wst = ShiftedUp(n.wst) /\ u.rst = ShiftedUp(n.rst)
                           /\ \A f \in {"wst", "rst"} : u[f] = ShiftedUp(n[f])
  BY TnlTyped
<1>2. PICK f \in {"wst", "rst"}, g \in {"wst", "rst"} : f = Own(i) /\ g = Other(i) /\ f # g
  BY InstrParts
<1>3. PICK up \in Stack : up = u[f]
  BY Stacks
<1>4. PICK s \in Stack : s = Shift(up, y)
  <2>1. PICK x \in Int : x = up.ptr
    BY StackFields, Places
  <2>2. x + y \in Int
    OBVIOUS
  <2>3. PICK v \in Byte : v = (up.ptr + y) % B
    BY <2>1, <2>2, Widths
  <2>4. Shift(up, y) = [up EXCEPT !.ptr = v]
    BY <2>3 DEF Shift, Stack
  <2> QED
    BY <2>4, SetPtr
<1>5. TnlMoved(u, i) = [u EXCEPT ![f] = Shift(@, y)]
  BY <1>2 DEF TnlMoved
<1>6. (f = "wst" /\ g = "rst") \/ (f = "rst" /\ g = "wst")
  BY <1>2
<1>7. [u EXCEPT ![f] = Shift(@, y)] = [u EXCEPT ![f] = s]
  BY <1>3, <1>4, <1>6 DEF Machine
<1>8. PICK o : o = [u EXCEPT ![f] = s]
  OBVIOUS
<1>9. o \in Machine /\ o.ram = u.ram /\ o.dev = u.dev /\ o.pc = u.pc /\ o[f] = s /\ o[g] = u[g]
  BY <1>6, <1>8 DEF Machine
<1>10. ShiftedUp(n[g]).ptr = n[g].ptr
  BY Stacks, UpTyped
<1> QED
  BY ONLY <1>1, <1>2, <1>3, <1>4, <1>5, <1>7, <1>8, <1>9, <1>10,
          f \in {"wst", "rst"}, g \in {"wst", "rst"}

\* The stack of an instruction without its operands.
LEMMA TakenLowered ==
  ASSUME NEW n \in Machine, NEW i \in Instr, NEW t \in Int, t = (IF i.k THEN 0 ELSE Takes(i))
  PROVE  Taken(n, i)[Own(i)] = Lowered(n[Own(i)], t)
<1>1. PICK st \in Stack : st = n[Own(i)]
  BY InstrParts, Stacks
<1>2. PICK s \in Stack : /\ s = Taken(n, i)[Own(i)] /\ s.dat = st.dat
                         /\ s.ptr = IF i.k THEN st.ptr ELSE (st.ptr - Takes(i)) % B
  <2>1. /\ Taken(n, i) \in Machine /\ Taken(n, i)[Own(i)].dat = n[Own(i)].dat
        /\ Taken(n, i)[Own(i)].ptr = IF i.k THEN n[Own(i)].ptr ELSE (n[Own(i)].ptr - Takes(i)) % B
    BY TakenTyped
  <2>2. Taken(n, i)[Own(i)] \in Stack
    BY <2>1, InstrParts, Stacks
  <2> QED
    BY ONLY <1>1, <2>1, <2>2
<1>3. s.ptr = (st.ptr - t) % B
  <2>1. CASE i.k
    <3>1. PICK x \in Byte : x = st.ptr
      BY StackFields
    <3>2. (x - 0) % B = x
      BY Pages DEF Byte
    <3> QED
      BY <1>2, <2>1, <3>1, <3>2
  <2>2. CASE ~i.k
    BY <1>2, <2>2
  <2> QED
    BY <2>1, <2>2
<1>4. PICK l \in Stack : l = Lowered(st, t) /\ l.dat = st.dat /\ l.ptr = (st.ptr - t) % B
  BY LoweredTyped
<1>5. s = l
  BY <1>2, <1>3, <1>4 DEF Stack
<1> QED
  BY ONLY <1>1, <1>2, <1>4, <1>5

\* An instruction that puts nothing only takes its operands.
LEMMA MovedTaken ==
  ASSUME NEW n \in Machine, NEW i \in Instr, SetY(i) = 0 - Takes(i)
  PROVE  TnlMoved(AsTnl(n), i) = AsTnl(Taken(n, i))
<1>1. PICK t \in Int : t = (IF i.k THEN 0 ELSE Takes(i))
  BY TakesSame
<1>2. PICK y \in Int : y = (IF i.k THEN SetX(i) ELSE 0) + SetY(i) /\ y = 0 - t
  <2>1. PICK x \in Int : x = Takes(i) /\ x = SetX(i) /\ SetY(i) = 0 - x
    BY TakesSame
  <2>2. 0 - t = (IF i.k THEN x ELSE 0) + (0 - x)
    BY <1>1, <2>1
  <2>3. 0 - t \in Int
    OBVIOUS
  <2> QED
    BY <2>1, <2>2, <2>3
<1>3. PICK o \in Machine : /\ o = TnlMoved(AsTnl(n), i)
                           /\ o.ram = n.ram /\ o.dev = n.dev /\ o.pc = n.pc
                           /\ o[Own(i)] = Shift(ShiftedUp(n[Own(i)]), y)
                           /\ o[Other(i)] = ShiftedUp(n[Other(i)])
  BY <1>2, MovedParts
<1>4. PICK k \in Machine : /\ k = Taken(n, i)
                           /\ k.ram = n.ram /\ k.dev = n.dev /\ k.pc = n.pc
                           /\ k[Other(i)] = n[Other(i)]
                           /\ k[Own(i)] = Lowered(n[Own(i)], t)
  BY <1>1, TakenTyped, TakenLowered
<1>5. PICK x \in Machine : /\ x = AsTnl(k) /\ x.ram = k.ram /\ x.dev = k.dev /\ x.pc = k.pc
                           /\ \A f \in {"wst", "rst"} : x[f] = ShiftedUp(k[f])
  BY TnlTyped
<1>6. PICK st \in Stack : st = n[Own(i)]
  BY InstrParts, Stacks
<1>7. Shift(ShiftedUp(st), y) = ShiftedUp(Lowered(st, t))
  <2>1. PICK up \in Stack : up = ShiftedUp(st) /\ up.ptr = st.ptr
    BY UpTyped
  <2>2. PICK p \in Int : p = st.ptr
    BY StackFields, Places
  <2>3. PICK v \in Byte : v = (p - t) % B
    <3>1. p - t \in Int
      OBVIOUS
    <3> QED
      BY <3>1, Widths
  <2>4. p + y = p - t
    BY <1>2
  <2>5. Shift(up, y) = [up EXCEPT !.ptr = v]
    BY <2>1, <2>2, <2>3, <2>4 DEF Shift, Stack
  <2>6. Lowered(st, t) = [st EXCEPT !.ptr = v]
    BY <2>2, <2>3 DEF Lowered, Stack
  <2>7. ShiftedUp([st EXCEPT !.ptr = v]) = [ShiftedUp(st) EXCEPT !.ptr = v]
    BY UpPtr
  <2> QED
    BY ONLY <2>1, <2>5, <2>6, <2>7
<1>8. PICK f \in {"wst", "rst"}, g \in {"wst", "rst"} : f = Own(i) /\ g = Other(i) /\ f # g
  BY InstrParts
<1>9. o[f] = x[f] /\ o[g] = x[g]
  BY <1>3, <1>4, <1>5, <1>6, <1>7, <1>8
<1>10. o.wst = x.wst /\ o.rst = x.rst
  BY <1>8, <1>9
<1>11. o = x
  BY <1>3, <1>4, <1>5, <1>10, SameMachine
<1> QED
  BY ONLY <1>3, <1>4, <1>5, <1>11

\* A store writes the same in both.
LEMMA EffectSame ==
  ASSUME NEW n \in Machine, NEW i \in Instr, ~PartsAt(n, i), NEW x \in Machine,
         NEW u, u[Own(i)] = ShiftedUp(n[Own(i)]), u.pc = n.pc,
         i.op \in {"STZ", "STR", "STA", "DEO"}
  PROVE  Effect(i, u, AsTnl(x)) = AsTnl(Stores(i, n, x)) /\ Stores(i, n, x).pc = x.pc
<1>1. PICK st \in Stack : st = n[Own(i)]
  BY InstrParts, Stacks
<1>2. PICK z \in {1, 2} : z = Size(i) /\ (z = 2 <=> i.s)
  BY InstrParts
<1>3. PICK b \in Byte : b = Below(st, 0) /\ b = Top(ShiftedUp(st), 0)
  BY ItemTyped, Tops
<1>4. PICK t \in Short : t = Item(st, 0, 2) /\ t = Top2(ShiftedUp(st), 0)
  BY ItemTyped, Tops
<1>5. PICK h \in Int : /\ h = Item(st, 1, z) /\ (~i.s => h \in Byte)
                       /\ h = (IF i.s THEN Top2(ShiftedUp(st), 1) ELSE Top(ShiftedUp(st), 1))
  <2>1. ~i.s => Item(st, 1, z) \in Byte
    BY <1>2, ItemTyped
  <2> QED
    BY <1>2, <2>1, Regs
<1>6. PICK l \in Int : /\ l = Item(st, 2, z) /\ (~i.s => l \in Byte)
                       /\ l = (IF i.s THEN Top2(ShiftedUp(st), 2) ELSE Top(ShiftedUp(st), 2))
  <2>1. ~i.s => Item(st, 2, z) \in Byte
    BY <1>2, ItemTyped
  <2> QED
    BY <1>2, <2>1, Regs
<1>7. i.op \in {"STZ", "STA"} => \A a \in Short : InLocal(n, a) = a
  <2>1. i.op \in {"STZ", "STA"} => n.dev[Local] = 0
    BY DEF PartsAt
  <2>2. \A a \in Short : a + 0 * PAGE_SIZE = a
    <3>1. 0 * PAGE_SIZE = 0
      BY Pages
    <3>2. \A a \in Short : a + 0 = a
      BY Places
    <3> QED
      BY <3>1, <3>2
  <2> QED
    BY <2>1, <2>2 DEF InLocal
<1>8. CASE i.op = "STZ"
  <2>1. Stores(i, n, x) = Pok(x, b, Bytes(i, h), ALL)
    BY <1>1, <1>2, <1>3, <1>5, <1>7, <1>8, Places DEF Stores
  <2>2. Effect(i, u, AsTnl(x)) = Poked(x, i, b, h, B)
    BY <1>1, <1>3, <1>5, <1>8 DEF Effect, Poked
  <2>3. i.s => b # B - 1
    BY <1>1, <1>3, <1>8 DEF PartsAt
  <2>4. b \in Memory
    BY FirstBank, Places
  <2>5. i.s => (b + 1) % B \in Memory /\ (b + 1) % ALL = (b + 1) % B
    BY <2>3, NextPlace
  <2> QED
    <3>1. Poked(x, i, b, h, B) = AsTnl(Pok(x, b, Bytes(i, h), ALL)) /\ Pok(x, b, Bytes(i, h), ALL).pc = x.pc
      BY <1>5, <2>4, <2>5, PokSame
    <3> QED
      BY ONLY <2>1, <2>2, <3>1
<1>9. CASE i.op = "STA"
  <2>1. Stores(i, n, x) = Pok(x, t, Bytes(i, l), ALL)
    BY <1>1, <1>2, <1>4, <1>6, <1>7, <1>9 DEF Stores
  <2>2. Effect(i, u, AsTnl(x)) = Poked(x, i, t, l, PAGE_SIZE)
    BY <1>1, <1>4, <1>6, <1>9 DEF Effect, Poked
  <2>3. i.s => t # PAGE_SIZE - 1
    BY <1>1, <1>4, <1>9 DEF PartsAt
  <2>4. t \in Memory
    BY FirstBank
  <2>5. i.s => (t + 1) % PAGE_SIZE \in Memory /\ (t + 1) % ALL = (t + 1) % PAGE_SIZE
    BY <2>3, NextPlace
  <2> QED
    <3>1. /\ Poked(x, i, t, l, PAGE_SIZE) = AsTnl(Pok(x, t, Bytes(i, l), ALL))
          /\ Pok(x, t, Bytes(i, l), ALL).pc = x.pc
      BY <1>6, <2>4, <2>5, PokSame
    <3> QED
      BY ONLY <2>1, <2>2, <3>1
<1>10. CASE i.op = "STR"
  <2>1. PICK a \in Short : a = n.pc + Signed(b)
    BY <1>1, <1>3, <1>10 DEF PartsAt
  <2>2. a % PAGE_SIZE = a
    BY Places, Widths
  <2>3. Stores(i, n, x) = Pok(x, a, Bytes(i, h), PAGE_SIZE)
    BY <1>1, <1>2, <1>3, <1>5, <1>10, <2>1 DEF Stores
  <2>4. Effect(i, u, AsTnl(x)) = Poked(x, i, a, h, PAGE_SIZE)
    BY <1>1, <1>3, <1>5, <1>10, <2>1, <2>2 DEF Effect, Poked
  <2>5. a \in Memory
    BY FirstBank
  <2>6. i.s => (a + 1) % PAGE_SIZE \in Memory /\ (a + 1) % PAGE_SIZE = (a + 1) % PAGE_SIZE
    BY NextPlace
  <2> QED
    <3>1. /\ Poked(x, i, a, h, PAGE_SIZE) = AsTnl(Pok(x, a, Bytes(i, h), PAGE_SIZE))
          /\ Pok(x, a, Bytes(i, h), PAGE_SIZE).pc = x.pc
      BY <1>5, <2>5, <2>6, PokSame
    <3> QED
      BY ONLY <2>3, <2>4, <3>1
<1>11. CASE i.op = "DEO"
  <2>1. Stores(i, n, x) = DeoAll(x, i, b, Bytes(i, h))
    BY <1>1, <1>2, <1>3, <1>5, <1>11 DEF Stores
  <2>2. PICK c \in Byte : c = (b + 1) % B
    <3>1. b + 1 \in Int
      BY Places
    <3> QED
      BY <3>1, Widths
  <2>3. PICK v1 \in Byte, v2 \in Byte : v1 = Hi(h) /\ v2 = Lo(h)
    BY Widths
  <2>4. CASE i.s
    <3>1. Bytes(i, h) = <<v1, v2>> /\ <<v1, v2>>[1] = v1 /\ <<v1, v2>>[2] = v2
      BY <2>3, <2>4 DEF Bytes
    <3>2. PICK y \in Machine : y = Deo(x, b, v1) /\ Deo(AsTnl(x), b, v1) = AsTnl(y) /\ y.pc = x.pc
      BY DeoTyped, DeoSame
    <3>3. Deo(AsTnl(y), c, v2) = AsTnl(Deo(y, c, v2)) /\ Deo(y, c, v2).pc = y.pc
      BY DeoTyped, DeoSame
    <3>4. DeoAll(x, i, b, <<v1, v2>>) = Deo(y, c, v2)
      BY <2>2, <2>4, <3>1, <3>2 DEF DeoAll
    <3>5. Effect(i, u, AsTnl(x)) = Deo(Deo(AsTnl(x), b, v1), c, v2)
      BY <1>1, <1>3, <1>5, <1>11, <2>2, <2>3, <2>4 DEF Effect
    <3> QED
      BY ONLY <2>1, <3>1, <3>2, <3>3, <3>4, <3>5
  <2>5. CASE ~i.s
    <3>1. h = v2 /\ Bytes(i, h) = <<v2>> /\ <<v2>>[1] = v2
      BY <1>5, <2>3, <2>5, Pages DEF Bytes, Lo, Byte
    <3>2. Deo(AsTnl(x), b, v2) = AsTnl(Deo(x, b, v2)) /\ Deo(x, b, v2).pc = x.pc
      BY DeoTyped, DeoSame
    <3>3. DeoAll(x, i, b, <<v2>>) = Deo(x, b, v2)
      BY <2>5, <3>1 DEF DeoAll
    <3>4. Effect(i, u, AsTnl(x)) = Deo(AsTnl(x), b, v2)
      BY <1>1, <1>3, <1>5, <1>11, <2>5, <3>1 DEF Effect
    <3> QED
      BY ONLY <2>1, <3>1, <3>2, <3>3, <3>4
  <2> QED
    BY <2>4, <2>5
<1> QED
  BY <1>8, <1>9, <1>10, <1>11

-----------------------------------------------------------------------------
(* Every instruction does the same.                                        *)

\* What every instruction puts on its stack.
LEMMA Matched ==
  ASSUME NEW n \in Machine, NEW i \in Instr, i.op \in Plains, ~PartsAt(n, i)
  PROVE  Matching(i, Out(i, AsTnl(n), TnlMoved(AsTnl(n), i)), Puts(i, n, Taken(n, i)))
<1>1. PICK u \in Machine : u = AsTnl(n) /\ u.ram = n.ram /\ u.pc = n.pc /\ u[Own(i)] = ShiftedUp(n[Own(i)])
  BY TnlTyped, InstrParts
<1>2. PICK y \in Int : y = (IF i.k THEN SetX(i) ELSE 0) + SetY(i)
  BY TakesSame
<1>3. PICK moved \in Machine : /\ moved = TnlMoved(AsTnl(n), i) /\ moved.dev = n.dev
                               /\ moved[Other(i)].ptr = n[Other(i)].ptr
  BY <1>2, MovedParts
<1>4. PICK taken \in Machine : taken = Taken(n, i) /\ taken.dev = n.dev /\ taken[Other(i)] = n[Other(i)]
  BY TakenTyped
<1>5. CASE i.op \in {"POP", "JMP", "JCN", "JSR", "STH", "STZ", "STR", "STA", "DEO"}
  BY <1>5, NothingPut
<1>6. CASE i.op \in {"NIP", "SWP", "ROT", "DUP", "OVR"}
  BY <1>1, <1>3, <1>4, <1>6, MovesPut
<1>7. CASE i.op \in {"INC", "SFT"} \cup Compares \cup Sums
  BY <1>1, <1>3, <1>4, <1>7, NumbersPut
<1>8. CASE i.op \in {"LDZ", "LDR", "LDA"}
  BY <1>1, <1>3, <1>4, <1>8, LoadsPut
<1>9. CASE i.op = "DEI"
  <2>1. Matching(i, Out(i, u, moved), Puts(i, n, taken))
    BY <1>1, <1>3, <1>4, <1>9, PortsPut
  <2> QED
    BY <1>1, <1>3, <1>4, <2>1
<1>10. i.op \in {"POP", "JMP", "JCN", "JSR", "STH", "STZ", "STR", "STA", "DEO", "INC", "NIP", "SWP", "ROT",
                 "DUP", "OVR", "SFT", "LDZ", "LDR", "LDA", "DEI"} \cup Compares \cup Sums
  <2>1. \A k \in 1 .. 31 : Ops[k] \in {"POP", "JMP", "JCN", "JSR", "STH", "STZ", "STR", "STA", "DEO", "INC", "NIP",
                 "SWP", "ROT", "DUP", "OVR", "SFT", "LDZ", "LDR", "LDA", "DEI"} \cup Compares \cup Sums
    BY DEF Ops, Compares, Sums
  <2> QED
    BY <2>1 DEF Plains
<1> QED
  BY <1>5, <1>6, <1>7, <1>8, <1>9, <1>10

\* Nothing is taken, put or written over.
LEMMA Nothing ==
  ASSUME NEW st \in Stack
  PROVE  /\ Lowered(st, 0) = st /\ Put(st, <<>>) = st
         /\ \A w \in {1, 2} : Overwrite(st, <<>>, w) = st
<1>1. PICK p \in Byte, f \in [Byte -> Byte] : st = [dat |-> f, ptr |-> p] /\ p = st.ptr /\ f = st.dat
  BY StackFields DEF Stack
<1>2. (p - 0) % B = p /\ (p + 0) % B = p
  BY Pages DEF Byte
<1>3. Lowered(st, 0) = st
  BY <1>1, <1>2 DEF Lowered
<1>4. Len(<<>>) = 0
  OBVIOUS
<1>5. \A a \in Byte : ~((a - p) % B < 0)
  <2>1. ASSUME NEW a \in Byte PROVE ~((a - p) % B < 0)
    <3>1. a - p \in Int
      BY Places
    <3>2. PICK j \in Byte : j = (a - p) % B
      BY <3>1, Widths
    <3> QED
      BY <3>2 DEF Byte
  <2> QED
    BY <2>1
<1>6. Put(st, <<>>) = st
  <2>1. Put(st, <<>>) = [dat |-> [a \in Byte |-> LET j == (a - p) % B
                                                IN IF j < 0 THEN <<>>[j + 1] ELSE f[a]],
                         ptr |-> (p + 0) % B]
    BY <1>1, <1>4 DEF Put
  <2>2. [a \in Byte |-> LET j == (a - p) % B IN IF j < 0 THEN <<>>[j + 1] ELSE f[a]] = f
    BY <1>5
  <2> QED
    BY <1>1, <1>2, <2>1, <2>2
<1>7. ASSUME NEW w \in {1, 2} PROVE Overwrite(st, <<>>, w) = st
  <2>1. 0 * w = 0
    OBVIOUS
  <2>2. ASSUME NEW a \in Byte PROVE (p - a) % B >= 0
    <3>1. p - a \in Int
      BY Places
    <3>2. PICK j \in Byte : j = (p - a) % B
      BY <3>1, Widths
    <3> QED
      BY <3>2 DEF Byte
  <2> DEFINE New(a) == LET d == (p - a) % B
                           v == <<>>[d \div w + 1]
                       IN IF d >= 0 THEN f[a] ELSE IF d % w = 1 THEN Hi(v) ELSE Lo(v)
  <2>3. Overwrite(st, <<>>, w) = [dat |-> [a \in Byte |-> New(a)], ptr |-> p]
    BY <1>1, <1>4, <2>1 DEF Overwrite
  <2>4. \A a \in Byte : New(a) = f[a]
    BY <2>2
  <2> HIDE DEF New
  <2>5. [a \in Byte |-> New(a)] = f
    BY <2>4
  <2> QED
    BY <1>1, <2>3, <2>5
<1> QED
  BY <1>3, <1>6, <1>7

\* A short.
LEMMA SameShort ==
  ASSUME NEW v \in Int
  PROVE  SameBytes(<<v>>, 2, <<Hi(v), Lo(v)>>)
<1>1. PICK i \in Instr : i.s
  <2>1. [op |-> "BRK", s |-> TRUE, r |-> FALSE, k |-> FALSE] \in Instr
    BY DEF Instr, Immediate
  <2> QED
    BY <2>1
<1>2. Size(i) = 2 /\ Bytes(i, v) = <<Hi(v), Lo(v)>>
  BY <1>1 DEF Size, Bytes
<1>3. SameBytes(<<v>>, Size(i), Bytes(i, v))
  BY SameOne
<1> QED
  BY ONLY <1>2, <1>3

\* What is put where nothing was taken.
LEMMA OverwrittenAbove ==
  ASSUME NEW st \in Stack, NEW vals, NEW w \in Int, NEW bytes, SameBytes(vals, w, bytes), Len(bytes) = w, w <= B
  PROVE  /\ Overwrite(Shift(ShiftedUp(st), w), vals, w) = ShiftedUp(Put(st, bytes))
         /\ ShiftedUp(Put(st, bytes)) \in Stack
<1>1. PICK t \in Int : t = 0
  OBVIOUS
<1>2. w = Len(bytes) - t
  BY <1>1
<1>3. /\ Overwrite(Shift(ShiftedUp(st), w), vals, w) = ShiftedUp(Put(Lowered(st, t), bytes))
      /\ ShiftedUp(Put(Lowered(st, t), bytes)) \in Stack
  BY <1>2, Overwritten
<1>4. Lowered(st, t) = st
  BY <1>1, Nothing
<1> QED
  BY ONLY <1>3, <1>4

\* What an instruction puts on the other stack.
LEMMA OtherSame ==
  ASSUME NEW n \in Machine, NEW i \in Instr, NEW st \in Stack
  PROVE  /\ TnlOther(AsTnl(n), i, ShiftedUp(st)) = ShiftedUp(Put(st, PutsOther(i, n)))
         /\ ShiftedUp(Put(st, PutsOther(i, n))) \in Stack
<1>1. PICK u \in Machine : u = AsTnl(n) /\ u.pc = n.pc /\ u[Own(i)] = ShiftedUp(n[Own(i)])
  BY TnlTyped, InstrParts
<1>2. PICK own \in Stack : own = n[Own(i)]
  BY InstrParts, Stacks
<1>3. PICK z \in Int : z = Size(i) /\ z \in {1, 2} /\ z <= B
  BY InstrParts, ByteAssumption
<1>4. CASE i.op = "STH"
  <2>1. PICK v \in Int : v = Item(own, 0, z) /\ v = Reg(i, ShiftedUp(own), 0)
    BY <1>3, Regs
  <2>2. SameBytes(<<v>>, z, Bytes(i, v)) /\ Len(Bytes(i, v)) = z
    BY <1>3, SameOne, BytesTyped
  <2>3. PutsOther(i, n) = Bytes(i, v)
    BY <1>2, <1>3, <1>4, <2>1 DEF PutsOther
  <2>4. TnlOther(u, i, ShiftedUp(st)) = Overwrite(Shift(ShiftedUp(st), z), <<v>>, z)
    BY <1>1, <1>2, <1>3, <1>4, <2>1 DEF TnlOther
  <2>5. /\ Overwrite(Shift(ShiftedUp(st), z), <<v>>, z) = ShiftedUp(Put(st, Bytes(i, v)))
        /\ ShiftedUp(Put(st, Bytes(i, v))) \in Stack
    BY <1>3, <2>2, OverwrittenAbove
  <2> QED
    BY ONLY <1>1, <2>3, <2>4, <2>5
<1>5. CASE i.op = "JSR"
  <2>1. PICK v \in Int : v = n.pc
    BY Fields, Places
  <2>2. PICK b : b = <<Hi(v), Lo(v)>> /\ SameBytes(<<v>>, 2, b) /\ Len(b) = 2
    <3>1. SameBytes(<<v>>, 2, <<Hi(v), Lo(v)>>)
      BY SameShort
    <3>2. Len(<<Hi(v), Lo(v)>>) = 2
      OBVIOUS
    <3> QED
      BY ONLY <3>1, <3>2
  <2>3. PutsOther(i, n) = b
    BY <1>5, <2>1, <2>2 DEF PutsOther
  <2>4. TnlOther(u, i, ShiftedUp(st)) = Overwrite(Shift(ShiftedUp(st), 2), <<v>>, 2)
    BY <1>1, <1>5, <2>1 DEF TnlOther
  <2>5. /\ Overwrite(Shift(ShiftedUp(st), 2), <<v>>, 2) = ShiftedUp(Put(st, b))
        /\ ShiftedUp(Put(st, b)) \in Stack
    <3>1. 2 \in Int /\ 2 <= B
      BY ByteAssumption
    <3> QED
      BY <2>2, <3>1, OverwrittenAbove
  <2> QED
    BY ONLY <1>1, <2>3, <2>4, <2>5
<1>6. CASE i.op \notin {"STH", "JSR"}
  <2>1. PutsOther(i, n) = <<>> /\ TnlOther(u, i, ShiftedUp(st)) = ShiftedUp(st)
    BY <1>6 DEF PutsOther, TnlOther
  <2>2. Put(st, <<>>) = st /\ ShiftedUp(st) \in Stack
    BY Nothing, UpTyped
  <2> QED
    BY ONLY <1>1, <2>1, <2>2
<1> QED
  BY <1>4, <1>5, <1>6

\* Both go on at the same place.
LEMMA GoesSame ==
  ASSUME NEW n \in Machine, NEW i \in Instr
  PROVE  TnlGoes(AsTnl(n), i, n.pc) = Goes(i, n)
<1>1. PICK u \in Machine : u = AsTnl(n) /\ u[Own(i)] = ShiftedUp(n[Own(i)])
  BY TnlTyped, InstrParts
<1>2. PICK own \in Stack : own = n[Own(i)]
  BY InstrParts, Stacks
<1>3. PICK z \in Int : z = Size(i)
  BY InstrParts
<1>4. PICK v : v = Item(own, 0, z) /\ v = Reg(i, ShiftedUp(own), 0)
  BY <1>3, Regs
<1>5. Top(ShiftedUp(own), z) = Below(own, z)
  BY Tops
<1>6. Goes(i, n) = IF i.op \in {"JMP", "JSR"} \/ (i.op = "JCN" /\ Below(own, z) # 0)
                   THEN (IF i.s THEN v ELSE (n.pc + Signed(v)) % PAGE_SIZE) ELSE n.pc
  BY <1>2, <1>3, <1>4 DEF Goes, Jump
<1>7. TnlGoes(u, i, n.pc) = IF i.op \in {"JMP", "JSR"} \/ (i.op = "JCN" /\ Below(own, z) # 0)
                            THEN (IF i.s THEN v ELSE (n.pc + Signed(v)) % PAGE_SIZE) ELSE n.pc
  BY <1>1, <1>2, <1>3, <1>4, <1>5 DEF TnlGoes, TnlJumps
<1> QED
  BY ONLY <1>1, <1>6, <1>7

\* An instruction that works on the stacks.
LEMMA OperateSame ==
  ASSUME NEW n \in Machine, NEW i \in Instr, i.op \in Plains, Reaches(n, i), ~PartsAt(n, i)
  PROVE  TnlOperate(AsTnl(n), i) = AsTnl(Operate(n, i))
<1>1. PICK u \in Machine : /\ u = AsTnl(n) /\ u.ram = n.ram /\ u.dev = n.dev /\ u.pc = n.pc
                           /\ \A f \in {"wst", "rst"} : u[f] = ShiftedUp(n[f])
  BY TnlTyped
<1>2. PICK f \in {"wst", "rst"}, g \in {"wst", "rst"} : f = Own(i) /\ g = Other(i) /\ f # g
  BY InstrParts
<1>3. PICK k \in Machine : /\ k = Taken(n, i)
                           /\ k.ram = n.ram /\ k.dev = n.dev /\ k.pc = n.pc /\ k[g] = n[g]
  BY <1>2, TakenTyped
<1>4. PICK o \in Machine : o = Stores(i, n, k)
  BY StoresTyped
<1>5. PICK puts, vals, w : puts = Puts(i, n, k) /\ vals = Out(i, u, TnlMoved(u, i)) /\ w = TnlWidth(i)
  OBVIOUS
<1>6. SameBytes(vals, w, puts) /\ Len(puts) <= B /\ SetY(i) = Len(puts) - Takes(i) /\ puts \in Seq(Byte)
  <2>1. Matching(i, vals, puts)
    BY <1>1, <1>3, <1>5, Matched
  <2> QED
    BY <1>5, <2>1 DEF Matching, SameBytes
<1>7. w \in {1, 2}
  BY <1>5, InstrParts DEF TnlWidth
<1> DEFINE after == Effect(i, u, TnlMoved(u, i))
           Same  == /\ after \in Machine
                    /\ after.ram = o.ram /\ after.dev = o.dev /\ after.pc = n.pc
                    /\ Overwrite(after[f], vals, w) = ShiftedUp(Put(o[f], puts))
                    /\ after[g] = ShiftedUp(o[g])
<1>8. ASSUME i.op \in {"STZ", "STR", "STA", "DEO"} PROVE Same
  <2>1. vals = <<>> /\ puts = <<>>
    BY <1>5, <1>8, NothingPut
  <2>2. TnlMoved(u, i) = AsTnl(k)
    <3>1. SetY(i) = 0 - Takes(i)
      BY <1>6, <2>1
    <3> QED
      BY <1>1, <1>3, <3>1, MovedTaken
  <2>3. after = AsTnl(o) /\ o.pc = k.pc
    <3>1. u[Own(i)] = ShiftedUp(n[Own(i)]) /\ u.pc = n.pc
      BY <1>1, <1>2
    <3>2. Effect(i, u, AsTnl(k)) = AsTnl(Stores(i, n, k)) /\ Stores(i, n, k).pc = k.pc
      BY <1>8, <3>1, EffectSame
    <3> QED
      BY <1>4, <2>2, <3>2
  <2> HIDE DEF after
  <2>4. PICK x \in Machine : /\ x = AsTnl(o) /\ x.ram = o.ram /\ x.dev = o.dev /\ x.pc = o.pc
                             /\ \A h \in {"wst", "rst"} : x[h] = ShiftedUp(o[h])
    BY TnlTyped
  <2>5. PICK st \in Stack : st = o[f]
    BY Stacks
  <2>6. Overwrite(ShiftedUp(st), <<>>, w) = ShiftedUp(Put(st, <<>>))
    <3>1. ShiftedUp(st) \in Stack
      BY UpTyped
    <3>2. Overwrite(ShiftedUp(st), <<>>, w) = ShiftedUp(st) /\ Put(st, <<>>) = st
      BY <1>7, <3>1, Nothing
    <3> QED
      BY ONLY <3>2
  <2>7. x[f] = ShiftedUp(o[f]) /\ x[g] = ShiftedUp(o[g])
    BY <2>4
  <2>8. Same
    BY ONLY <1>3, <2>1, <2>3, <2>4, <2>5, <2>6, <2>7, x \in Machine
  <2> QED
    BY <2>8
<1>9. ASSUME i.op \notin {"STZ", "STR", "STA", "DEO"} PROVE Same
  <2>1. o = k /\ after = TnlMoved(u, i)
    BY <1>4, <1>9 DEF Stores, Effect
  <2>2. PICK t \in Int : t = (IF i.k THEN 0 ELSE Takes(i))
    BY TakesSame
  <2>3. PICK y \in Int : y = (IF i.k THEN SetX(i) ELSE 0) + SetY(i) /\ y = Len(puts) - t
    <3>1. PICK x \in Int, l \in Int : /\ x = Takes(i) /\ x = SetX(i) /\ l = Len(puts) /\ SetY(i) = l - x
      <4>1. Len(puts) \in Int
        BY <1>6
      <4> QED
        BY <1>6, <4>1, TakesSame
    <3>2. l - t = (IF i.k THEN x ELSE 0) + (l - x)
      BY <2>2, <3>1
    <3>3. l - t \in Int
      OBVIOUS
    <3> QED
      BY <3>1, <3>2, <3>3
  <2>4. PICK x \in Machine : /\ x = TnlMoved(u, i) /\ x.ram = n.ram /\ x.dev = n.dev /\ x.pc = n.pc
                             /\ x[f] = Shift(ShiftedUp(n[f]), y) /\ x[g] = ShiftedUp(n[g])
    BY <1>1, <1>2, <2>3, MovedParts
  <2> HIDE DEF after
  <2>5. PICK st \in Stack : st = n[f]
    BY Stacks
  <2>6. k[f] = Lowered(st, t)
    BY <1>2, <1>3, <2>2, <2>5, TakenLowered
  <2>7. Overwrite(Shift(ShiftedUp(st), y), vals, w) = ShiftedUp(Put(Lowered(st, t), puts))
    BY <1>6, <2>3, Overwritten
  <2>8. Same
    BY ONLY <1>3, <2>1, <2>4, <2>5, <2>6, <2>7, x \in Machine
  <2> QED
    BY <2>8
<1>10. Same
  BY <1>8, <1>9
<1>11. PICK e \in Machine : /\ e = after /\ e.ram = o.ram /\ e.dev = o.dev /\ e.pc = n.pc
                            /\ Overwrite(e[f], vals, w) = ShiftedUp(Put(o[f], puts))
                            /\ e[g] = ShiftedUp(o[g])
  BY ONLY <1>10
<1>12. PICK a \in Stack : a = ShiftedUp(Put(o[f], puts))
  <2>1. o[f] \in Stack
    BY Stacks
  <2>2. Put(o[f], puts) \in Stack
    BY <1>6, <2>1, PutTyped
  <2> QED
    BY <2>2, UpTyped
<1>13. PICK b \in Stack : b = ShiftedUp(Put(o[g], PutsOther(i, n))) /\ b = TnlOther(u, i, ShiftedUp(o[g]))
  <2>1. o[g] \in Stack
    BY Stacks
  <2> QED
    BY <1>1, <2>1, OtherSame
<1>14. PICK q \in Short : q = Goes(i, n) /\ q = TnlGoes(u, i, n.pc)
  BY <1>1, GoesTyped, GoesSame
<1>15. e = Effect(i, u, TnlMoved(u, i))
  BY <1>11
<1> HIDE DEF after, Same
<1>16. LET x == TnlOperate(u, i) IN
       /\ x \in Machine
       /\ x.ram = e.ram /\ x.dev = e.dev /\ x.pc = q
       /\ x[Own(i)] = a /\ x[Other(i)] = b
  <2>1. a = Overwrite(e[Own(i)], Out(i, u, TnlMoved(u, i)), TnlWidth(i))
    BY <1>2, <1>5, <1>11, <1>12
  <2>2. q = TnlGoes(u, i, e.pc)
    BY <1>11, <1>14
  <2>3. b = TnlOther(u, i, e[Other(i)])
    BY <1>2, <1>11, <1>13
  <2> QED
    BY <1>15, <2>1, <2>2, <2>3, TnlParts
<1>17. PICK x \in Machine : /\ x = TnlOperate(u, i) /\ x.ram = o.ram /\ x.dev = o.dev /\ x.pc = q
                            /\ x[f] = a /\ x[g] = b
  BY ONLY <1>2, <1>11, <1>16
<1>18. PICK s \in Machine : /\ s = Operate(n, i) /\ s.ram = o.ram /\ s.dev = o.dev /\ s.pc = q
                            /\ s[f] = Put(o[f], puts) /\ s[g] = Put(o[g], PutsOther(i, n))
  <2>1. /\ Operate(n, i) \in Machine
        /\ Operate(n, i).ram = o.ram /\ Operate(n, i).dev = o.dev /\ Operate(n, i).pc = Goes(i, n)
        /\ Operate(n, i)[Own(i)] = Put(o[Own(i)], Puts(i, n, Taken(n, i)))
        /\ Operate(n, i)[Other(i)] = Put(o[Other(i)], PutsOther(i, n))
    BY <1>3, <1>4, OperateParts
  <2> QED
    BY ONLY <1>2, <1>3, <1>5, <1>14, <2>1
<1>19. PICK z \in Machine : /\ z = AsTnl(s) /\ z.ram = s.ram /\ z.dev = s.dev /\ z.pc = s.pc
                            /\ \A h \in {"wst", "rst"} : z[h] = ShiftedUp(s[h])
  BY TnlTyped
<1>20. x[f] = z[f] /\ x[g] = z[g]
  <2>1. z[f] = ShiftedUp(s[f]) /\ z[g] = ShiftedUp(s[g])
    BY <1>19
  <2> QED
    BY ONLY <1>12, <1>13, <1>17, <1>18, <2>1
<1>21. x.wst = z.wst /\ x.rst = z.rst
  BY <1>2, <1>20
<1>22. x.ram = z.ram /\ x.dev = z.dev /\ x.pc = z.pc
  BY ONLY <1>17, <1>18, <1>19
<1>23. x = z
  BY <1>21, <1>22, SameMachine
<1> QED
  BY ONLY <1>1, <1>17, <1>18, <1>19, <1>23

\* A machine with another stack.
WithStack(n, f, s) == [n EXCEPT ![f] = s]

\* Its parts.
LEMMA WithStackTyped ==
  ASSUME NEW n \in Machine, NEW f \in {"wst", "rst"}, NEW s \in Stack
  PROVE  /\ WithStack(n, f, s) \in Machine
         /\ WithStack(n, f, s).ram = n.ram /\ WithStack(n, f, s).dev = n.dev /\ WithStack(n, f, s).pc = n.pc
         /\ WithStack(n, f, s)[f] = s
         /\ f = "wst" => WithStack(n, f, s).rst = n.rst
         /\ f = "rst" => WithStack(n, f, s).wst = n.wst
<1>1. CASE f = "wst"
  BY <1>1 DEF WithStack, Machine
<1>2. CASE f = "rst"
  BY <1>2 DEF WithStack, Machine
<1> QED
  BY <1>1, <1>2

\* A stack may be changed before or after going on.
LEMMA SkipStack ==
  ASSUME NEW n \in Machine, NEW f \in {"wst", "rst"}, NEW s \in Stack, NEW k \in Int
  PROVE  Skip(WithStack(n, f, s), k) = WithStack(Skip(n, k), f, s)
<1>1. PICK a \in Machine : /\ a = WithStack(n, f, s)
                           /\ a.ram = n.ram /\ a.dev = n.dev /\ a.pc = n.pc /\ a[f] = s
                           /\ (f = "wst" => a.rst = n.rst) /\ (f = "rst" => a.wst = n.wst)
  BY WithStackTyped
<1>2. PICK b \in Machine : /\ b = Skip(n, k) /\ b.ram = n.ram /\ b.dev = n.dev /\ b.pc = (n.pc + k) % PAGE_SIZE
                           /\ b.wst = n.wst /\ b.rst = n.rst
  BY SkipTyped
<1>3. PICK x \in Machine : /\ x = Skip(a, k) /\ x.ram = a.ram /\ x.dev = a.dev /\ x.pc = (a.pc + k) % PAGE_SIZE
                           /\ x.wst = a.wst /\ x.rst = a.rst
  BY SkipTyped
<1>4. PICK y \in Machine : /\ y = WithStack(b, f, s)
                           /\ y.ram = b.ram /\ y.dev = b.dev /\ y.pc = b.pc /\ y[f] = s
                           /\ (f = "wst" => y.rst = b.rst) /\ (f = "rst" => y.wst = b.wst)
  BY WithStackTyped
<1>5. x.wst = y.wst /\ x.rst = y.rst
  <2>1. CASE f = "wst"
    BY <1>1, <1>2, <1>3, <1>4, <2>1
  <2>2. CASE f = "rst"
    BY <1>1, <1>2, <1>3, <1>4, <2>2
  <2> QED
    BY <2>1, <2>2
<1>6. x.ram = y.ram /\ x.dev = y.dev /\ x.pc = y.pc
  BY ONLY <1>1, <1>2, <1>3, <1>4
<1>7. x = y
  BY <1>5, <1>6, SameMachine
<1> QED
  BY ONLY <1>1, <1>2, <1>3, <1>4, <1>7

\* Both cores go on in the same way.
LEMMA SkipSame ==
  ASSUME NEW n \in Machine, NEW k \in Int
  PROVE  Skip(AsTnl(n), k) = AsTnl(Skip(n, k))
<1>1. PICK u \in Machine : /\ u = AsTnl(n) /\ u.ram = n.ram /\ u.dev = n.dev /\ u.pc = n.pc
                           /\ u.wst = ShiftedUp(n.wst) /\ u.rst = ShiftedUp(n.rst)
  BY TnlTyped
<1>2. PICK a \in Machine : /\ a = Skip(n, k) /\ a.ram = n.ram /\ a.dev = n.dev /\ a.pc = (n.pc + k) % PAGE_SIZE
                           /\ a.wst = n.wst /\ a.rst = n.rst
  BY SkipTyped
<1>3. PICK x \in Machine : /\ x = Skip(u, k) /\ x.ram = u.ram /\ x.dev = u.dev /\ x.pc = (u.pc + k) % PAGE_SIZE
                           /\ x.wst = u.wst /\ x.rst = u.rst
  BY SkipTyped
<1>4. PICK y \in Machine : /\ y = AsTnl(a) /\ y.ram = a.ram /\ y.dev = a.dev /\ y.pc = a.pc
                           /\ y.wst = ShiftedUp(a.wst) /\ y.rst = ShiftedUp(a.rst)
  BY TnlTyped
<1>5. x.ram = y.ram /\ x.dev = y.dev /\ x.pc = y.pc /\ x.wst = y.wst /\ x.rst = y.rst
  BY ONLY <1>1, <1>2, <1>3, <1>4
<1>6. x = y
  BY <1>5, SameMachine
<1> QED
  BY ONLY <1>1, <1>2, <1>3, <1>4, <1>6

\* And change a stack.
LEMMA StackSame ==
  ASSUME NEW n \in Machine, NEW f \in {"wst", "rst"}, NEW s \in Stack, NEW t \in Stack, t = ShiftedUp(s)
  PROVE  WithStack(AsTnl(n), f, t) = AsTnl(WithStack(n, f, s))
<1>1. PICK u \in Machine : /\ u = AsTnl(n) /\ u.ram = n.ram /\ u.dev = n.dev /\ u.pc = n.pc
                           /\ u.wst = ShiftedUp(n.wst) /\ u.rst = ShiftedUp(n.rst)
  BY TnlTyped
<1>2. PICK a \in Machine : /\ a = WithStack(n, f, s)
                           /\ a.ram = n.ram /\ a.dev = n.dev /\ a.pc = n.pc /\ a[f] = s
                           /\ (f = "wst" => a.rst = n.rst) /\ (f = "rst" => a.wst = n.wst)
  <2>1. /\ WithStack(n, f, s) \in Machine
        /\ WithStack(n, f, s).ram = n.ram /\ WithStack(n, f, s).dev = n.dev
        /\ WithStack(n, f, s).pc = n.pc /\ WithStack(n, f, s)[f] = s
        /\ f = "wst" => WithStack(n, f, s).rst = n.rst
        /\ f = "rst" => WithStack(n, f, s).wst = n.wst
    <3>1. CASE f = "wst"
      BY <3>1 DEF WithStack, Machine
    <3>2. CASE f = "rst"
      BY <3>2 DEF WithStack, Machine
    <3> QED
      BY <3>1, <3>2
  <2> QED
    BY ONLY <2>1
<1>3. PICK x \in Machine : /\ x = WithStack(u, f, t)
                           /\ x.ram = u.ram /\ x.dev = u.dev /\ x.pc = u.pc /\ x[f] = t
                           /\ (f = "wst" => x.rst = u.rst) /\ (f = "rst" => x.wst = u.wst)
  <2>1. /\ WithStack(u, f, t) \in Machine
        /\ WithStack(u, f, t).ram = u.ram /\ WithStack(u, f, t).dev = u.dev
        /\ WithStack(u, f, t).pc = u.pc /\ WithStack(u, f, t)[f] = t
        /\ f = "wst" => WithStack(u, f, t).rst = u.rst
        /\ f = "rst" => WithStack(u, f, t).wst = u.wst
    <3>1. CASE f = "wst"
      BY <3>1 DEF WithStack, Machine
    <3>2. CASE f = "rst"
      BY <3>2 DEF WithStack, Machine
    <3> QED
      BY <3>1, <3>2
  <2> QED
    BY ONLY <2>1
<1>4. PICK y \in Machine : /\ y = AsTnl(a) /\ y.ram = a.ram /\ y.dev = a.dev /\ y.pc = a.pc
                           /\ y.wst = ShiftedUp(a.wst) /\ y.rst = ShiftedUp(a.rst)
  BY TnlTyped
<1>5. x.wst = y.wst /\ x.rst = y.rst
  <2>1. CASE f = "wst"
    BY <1>1, <1>2, <1>3, <1>4, <2>1
  <2>2. CASE f = "rst"
    BY <1>1, <1>2, <1>3, <1>4, <2>2
  <2> QED
    BY <2>1, <2>2
<1>6. x.ram = y.ram /\ x.dev = y.dev /\ x.pc = y.pc
  BY ONLY <1>1, <1>2, <1>3, <1>4
<1>7. x = y
  BY <1>5, <1>6, SameMachine
<1> QED
  BY ONLY <1>1, <1>2, <1>3, <1>4, <1>7

\* A jump by an operand in the memory is going on.
LEMMA JumpIsSkip ==
  ASSUME NEW n \in Machine
  PROVE  /\ Peek2(n.ram, n.pc) + 2 \in Int
         /\ JumpImmediate(n) = Skip(n, Peek2(n.ram, n.pc) + 2)
<1>1. PICK x \in Int, p \in Int : x = n.pc /\ p = Peek2(n.ram, n.pc)
  <2>1. n.pc \in 0 .. PAGE_SIZE + 14
    BY Fields, Pages DEF Short
  <2>2. Peek2(n.ram, n.pc) \in Int
    BY <2>1, Fields, PeekTyped, Places
  <2> QED
    BY <2>2, Fields, Places
<1>2. p + 2 \in Int /\ x + p + 2 = x + (p + 2)
  OBVIOUS
<1>3. JumpImmediate(n) = [n EXCEPT !.pc = (x + p + 2) % PAGE_SIZE]
  BY <1>1 DEF JumpImmediate
<1>4. Skip(n, p + 2) = [n EXCEPT !.pc = (x + (p + 2)) % PAGE_SIZE]
  BY <1>1 DEF Skip
<1> QED
  BY ONLY <1>1, <1>2, <1>3, <1>4

\* Every instruction, where the two cores do not part.
LEMMA StepSame ==
  ASSUME NEW n \in Machine, NEW i \in Instr, NEW o, o = Skip(n, 1), Reaches(o, i), ~PartsAt(o, i)
  PROVE  TnlStep(AsTnl(n), i) = AsTnl(Step(n, i))
<1>1. o \in Machine /\ Skip(AsTnl(n), 1) = AsTnl(o)
  <2>1. 1 \in Int
    OBVIOUS
  <2> QED
    BY <2>1, SkipTyped, SkipSame
<1>2. PICK u \in Machine : /\ u = AsTnl(o) /\ u.ram = o.ram /\ u.dev = o.dev /\ u.pc = o.pc
                           /\ u.wst = ShiftedUp(o.wst) /\ u.rst = ShiftedUp(o.rst)
                           /\ \A f \in {"wst", "rst"} : u[f] = ShiftedUp(o[f])
  BY <1>1, TnlTyped
<1>3. Skip(AsTnl(n), 1) = u
  BY <1>1, <1>2
<1>4. PICK a \in Int : /\ a = Peek2(o.ram, o.pc) + 2 /\ a = Peek2(u.ram, u.pc) + 2
  BY <1>1, <1>2, JumpIsSkip
<1>5. 2 \in Int
  OBVIOUS
<1>6. CASE i.op = "BRK"
  <2>1. TnlStep(AsTnl(n), i) = u /\ Step(n, i) = o
    BY <1>3, <1>6 DEF TnlStep, Step
  <2> QED
    BY <1>2, <2>1
<1>7. CASE i.op = "JMI"
  <2>1. TnlStep(AsTnl(n), i) = Skip(u, a)
    BY <1>3, <1>4, <1>7 DEF TnlStep
  <2>2. Step(n, i) = JumpImmediate(o)
    BY <1>7 DEF Step
  <2>3. JumpImmediate(o) = Skip(o, a)
    BY <1>1, <1>4, JumpIsSkip
  <2>4. Skip(AsTnl(o), a) = AsTnl(Skip(o, a))
    BY <1>1, SkipSame
  <2> QED
    BY ONLY <1>2, <2>1, <2>2, <2>3, <2>4
<1>8. CASE i.op = "JCI"
  <2>1. PICK st \in Stack : st = o.wst
    BY <1>1, Fields
  <2>2. PICK c \in Byte : c = Below(st, 0) /\ c = Top(ShiftedUp(st), 0)
    BY ItemTyped, Tops
  <2>3. PICK p \in Byte : p = (st.ptr - 1) % B /\ p = (st.ptr + (-1)) % B
    <3>1. PICK x \in Int : x = st.ptr
      BY StackFields, Places
    <3>2. x - 1 \in Int /\ x - 1 = x + (-1)
      OBVIOUS
    <3> QED
      BY <3>1, <3>2, Widths
  <2>4. PICK s \in Stack : s = [st EXCEPT !.ptr = p]
    BY SetPtr
  <2>5. PICK t \in Stack : t = ShiftedUp(s) /\ t = Shift(ShiftedUp(st), -1)
    <3>1. ShiftedUp(s) = [ShiftedUp(st) EXCEPT !.ptr = p]
      BY <2>4, UpPtr
    <3>2. ShiftedUp(st).ptr = st.ptr /\ ShiftedUp(st) \in Stack
      BY UpTyped
    <3>3. Shift(ShiftedUp(st), -1) = [ShiftedUp(st) EXCEPT !.ptr = p]
      BY <2>3, <3>2 DEF Shift, Stack
    <3>4. ShiftedUp(s) \in Stack
      BY UpTyped
    <3> QED
      BY ONLY <3>1, <3>3, <3>4
  <2>6. PICK k \in Int : k = IF c = 0 THEN 2 ELSE a
    BY <1>5
  <2>7. PICK x \in Machine : /\ x = WithStack(o, "wst", s) /\ x.ram = o.ram /\ x.pc = o.pc
    <3>1. /\ WithStack(o, "wst", s) \in Machine
          /\ WithStack(o, "wst", s).ram = o.ram /\ WithStack(o, "wst", s).pc = o.pc
      BY <1>1 DEF WithStack, Machine
    <3> QED
      BY ONLY <3>1
  <2>8. [o EXCEPT !.wst.ptr = (@ - 1) % B] = x
    <3>1. [o EXCEPT !.wst.ptr = (@ - 1) % B] = [o EXCEPT !.wst = s]
      BY <1>1, <2>1, <2>3, <2>4 DEF Machine
    <3> QED
      BY <2>7, <3>1 DEF WithStack
  <2>9. Step(n, i) = Skip(x, k)
    <3>1. Step(n, i) = IF c # 0 THEN JumpImmediate(x) ELSE Skip(x, 2)
      BY <1>8, <2>1, <2>2, <2>8 DEF Step
    <3>2. JumpImmediate(x) = Skip(x, a)
      BY <1>4, <2>7, JumpIsSkip
    <3> QED
      BY ONLY <2>6, <3>1, <3>2
  <2>10. Skip(x, k) = WithStack(Skip(o, k), "wst", s)
    BY <1>1, <2>7, SkipStack
  <2>11. PICK v \in Machine : v = Skip(o, k) /\ Skip(u, k) = AsTnl(v)
    BY <1>1, <1>2, SkipTyped, SkipSame
  <2>12. TnlStep(AsTnl(n), i) = WithStack(AsTnl(v), "wst", t)
    <3>1. TnlStep(AsTnl(n), i) = [Skip(u, k) EXCEPT !.wst = Shift(@, -1)]
      BY <1>2, <1>3, <1>4, <1>8, <2>1, <2>2, <2>6 DEF TnlStep
    <3>2. AsTnl(v) \in Machine /\ AsTnl(v).wst = ShiftedUp(st)
      <4>1. v.wst = o.wst
        BY <1>1, <2>11, SkipTyped
      <4> QED
        BY <2>1, <4>1, TnlTyped
    <3>3. [AsTnl(v) EXCEPT !.wst = Shift(@, -1)] = [AsTnl(v) EXCEPT !.wst = t]
      BY <2>5, <3>2 DEF Machine
    <3> QED
      BY <2>11, <3>1, <3>3 DEF WithStack
  <2>13. WithStack(AsTnl(v), "wst", t) = AsTnl(WithStack(v, "wst", s))
    BY <2>5, StackSame
  <2> QED
    BY ONLY <2>9, <2>10, <2>11, <2>12, <2>13
<1>9. CASE i.op = "JSI"
  <2>1. PICK st \in Stack : st = o.rst
    BY <1>1, Fields
  <2>2. PICK c \in Short : c = (o.pc + 2) % PAGE_SIZE /\ c \in Int /\ c = Skip(u, 2).pc
    <3>1. PICK x \in Int : x = o.pc
      BY <1>1, Fields, Places
    <3>2. x + 2 \in Int
      OBVIOUS
    <3>3. (x + 2) % PAGE_SIZE \in Short
      BY <3>2, Widths
    <3>4. Skip(u, 2).pc = (x + 2) % PAGE_SIZE
      <4>1. Skip(u, 2).pc = (u.pc + 2) % PAGE_SIZE
        BY <1>5, SkipTyped
      <4> QED
        BY ONLY <1>2, <3>1, <4>1
    <3> QED
      BY <3>1, <3>3, <3>4, Places
  <2>3. PICK b : b = <<Hi(c), Lo(c)>> /\ SameBytes(<<c>>, 2, b) /\ Len(b) = 2
    <3>1. SameBytes(<<c>>, 2, <<Hi(c), Lo(c)>>)
      BY <2>2, SameShort
    <3>2. Len(<<Hi(c), Lo(c)>>) = 2
      OBVIOUS
    <3> QED
      BY ONLY <3>1, <3>2
  <2>4. PICK s \in Stack : s = Put(st, b)
    BY <2>3, PutTyped DEF SameBytes
  <2>5. PICK t \in Stack : t = ShiftedUp(s) /\ t = Overwrite(Shift(ShiftedUp(st), 2), <<c>>, 2)
    <3>1. 2 \in Int /\ 2 <= B
      BY ByteAssumption
    <3>2. /\ Overwrite(Shift(ShiftedUp(st), 2), <<c>>, 2) = ShiftedUp(Put(st, b))
          /\ ShiftedUp(Put(st, b)) \in Stack
      BY <2>3, <3>1, OverwrittenAbove
    <3> QED
      BY ONLY <2>4, <3>2
  <2>6. PICK x \in Machine : /\ x = WithStack(o, "rst", s) /\ x.ram = o.ram /\ x.pc = o.pc
    <3>1. /\ WithStack(o, "rst", s) \in Machine
          /\ WithStack(o, "rst", s).ram = o.ram /\ WithStack(o, "rst", s).pc = o.pc
      BY <1>1 DEF WithStack, Machine
    <3> QED
      BY ONLY <3>1
  <2>7. Step(n, i) = Skip(x, a)
    <3>1. Step(n, i) = JumpImmediate([o EXCEPT !.rst = Put(@, b)])
      BY <1>9, <2>2, <2>3 DEF Step
    <3>2. [o EXCEPT !.rst = Put(@, b)] = [o EXCEPT !.rst = s]
      BY <1>1, <2>1, <2>4 DEF Machine
    <3>3. [o EXCEPT !.rst = s] = x
      BY <2>6 DEF WithStack
    <3>4. JumpImmediate(x) = Skip(x, a)
      BY <1>4, <2>6, JumpIsSkip
    <3> QED
      BY ONLY <3>1, <3>2, <3>3, <3>4
  <2>8. Skip(x, a) = WithStack(Skip(o, a), "rst", s)
    BY <1>1, <2>6, SkipStack
  <2>9. PICK v \in Machine : v = Skip(o, a) /\ Skip(u, a) = AsTnl(v)
    BY <1>1, <1>2, SkipTyped, SkipSame
  <2>10. TnlStep(AsTnl(n), i) = WithStack(AsTnl(v), "rst", t)
    <3>1. TnlStep(AsTnl(n), i) = [Skip(u, a) EXCEPT !.rst = Overwrite(Shift(@, 2), <<c>>, 2)]
      BY <1>2, <1>3, <1>4, <1>9, <2>2 DEF TnlStep
    <3>2. AsTnl(v) \in Machine /\ AsTnl(v).rst = ShiftedUp(st)
      <4>1. v.rst = o.rst
        BY <1>1, <2>9, SkipTyped
      <4> QED
        BY <2>1, <4>1, TnlTyped
    <3>3. [AsTnl(v) EXCEPT !.rst = Overwrite(Shift(@, 2), <<c>>, 2)] = [AsTnl(v) EXCEPT !.rst = t]
      BY <2>5, <3>2 DEF Machine
    <3> QED
      BY <2>9, <3>1, <3>3 DEF WithStack
  <2>11. WithStack(AsTnl(v), "rst", t) = AsTnl(WithStack(v, "rst", s))
    BY <2>5, StackSame
  <2> QED
    BY ONLY <2>7, <2>8, <2>9, <2>10, <2>11
<1>10. CASE i.op = "LIT"
  <2>1. PICK z \in Int : z = Size(i) /\ z \in {1, 2} /\ (z = 2 <=> i.s) /\ z <= B
    BY InstrParts, ByteAssumption
  <2>2. PICK f \in {"wst", "rst"} : f = Own(i)
    BY InstrParts
  <2>3. PICK p \in Int : p = o.pc /\ p \in Short
    BY <1>1, Fields, Places
  <2>4. PICK q \in Short : q = (p + 1) % PAGE_SIZE
    <3>1. p + 1 \in Int
      OBVIOUS
    <3> QED
      BY <3>1, Widths
  <2>5. PICK r \in [Memory -> Byte] : r = o.ram
    BY <1>1, Fields
  <2>6. PICK b \in Byte, c \in Byte : b = r[p] /\ c = r[q]
    BY <2>3, <2>4, FirstBank
  <2>7. PICK h \in Int : h = (IF i.s THEN b * B + c ELSE b) /\ Bytes(i, h) = IF i.s THEN <<b, c>> ELSE <<b>>
    BY PairPut
  <2>8. [j \in 1 .. z |-> r[(p + j - 1) % PAGE_SIZE]] = Bytes(i, h)
    <3>1. p + 1 - 1 = p /\ p + 2 - 1 = p + 1 /\ p % PAGE_SIZE = p
      BY <2>3, Widths
    <3>2. CASE i.s
      <4>1. z = 2 /\ Bytes(i, h) = <<b, c>>
        BY <2>1, <2>7, <3>2
      <4>2. \A j \in 1 .. 2 : r[(p + j - 1) % PAGE_SIZE] = <<b, c>>[j]
        <5>1. \A j \in 1 .. 2 : j = 1 \/ j = 2
          OBVIOUS
        <5>2. <<b, c>>[1] = b /\ <<b, c>>[2] = c
          OBVIOUS
        <5>3. r[(p + 1 - 1) % PAGE_SIZE] = b /\ r[(p + 2 - 1) % PAGE_SIZE] = c
          BY <2>4, <2>6, <3>1
        <5> QED
          BY <5>1, <5>2, <5>3
      <4>3. [j \in 1 .. 2 |-> <<b, c>>[j]] = <<b, c>>
        OBVIOUS
      <4> QED
        BY <4>1, <4>2, <4>3
    <3>3. CASE ~i.s
      <4>1. z = 1 /\ Bytes(i, h) = <<b>>
        BY <2>1, <2>7, <3>3
      <4>2. \A j \in 1 .. 1 : r[(p + j - 1) % PAGE_SIZE] = <<b>>[j]
        <5>1. \A j \in 1 .. 1 : j = 1
          OBVIOUS
        <5>2. <<b>>[1] = b
          OBVIOUS
        <5>3. r[(p + 1 - 1) % PAGE_SIZE] = b
          BY <2>6, <3>1
        <5> QED
          BY <5>1, <5>2, <5>3
      <4>3. [j \in 1 .. 1 |-> <<b>>[j]] = <<b>>
        OBVIOUS
      <4> QED
        BY <4>1, <4>2, <4>3
    <3> QED
      BY <3>2, <3>3
  <2>9. PICK st \in Stack : st = o[f]
    BY <1>1, Stacks
  <2>10. SameBytes(<<h>>, z, Bytes(i, h)) /\ Len(Bytes(i, h)) = z /\ Bytes(i, h) \in Seq(Byte)
    BY <2>1, SameOne, BytesTyped
  <2>11. PICK s \in Stack : s = Put(st, Bytes(i, h))
    BY <2>10, PutTyped
  <2>12. PICK t \in Stack : t = ShiftedUp(s) /\ t = Overwrite(Shift(ShiftedUp(st), z), <<h>>, z)
    BY <2>1, <2>10, <2>11, OverwrittenAbove
  <2>13. PICK v \in Machine : v = Skip(o, z) /\ Skip(u, z) = AsTnl(v) /\ v[f] = st
    <3>1. Skip(o, z) \in Machine /\ Skip(o, z).wst = o.wst /\ Skip(o, z).rst = o.rst
      BY <1>1, SkipTyped
    <3>2. Skip(o, z)[f] = o[f]
      BY <3>1
    <3>3. Skip(AsTnl(o), z) = AsTnl(Skip(o, z))
      BY <1>1, SkipSame
    <3> QED
      BY <1>2, <2>9, <3>1, <3>2, <3>3
  <2>14. Step(n, i) = WithStack(v, f, s)
    <3>1. Step(n, i) = [v EXCEPT ![f] = Put(@, Bytes(i, h))]
      BY <1>10, <2>1, <2>2, <2>3, <2>5, <2>8, <2>13 DEF Step
    <3>2. [v EXCEPT ![f] = Put(@, Bytes(i, h))] = [v EXCEPT ![f] = s]
      <4>1. CASE f = "wst"
        BY <2>11, <2>13, <4>1 DEF Machine
      <4>2. CASE f = "rst"
        BY <2>11, <2>13, <4>2 DEF Machine
      <4> QED
        BY <4>1, <4>2
    <3> QED
      BY <3>1, <3>2 DEF WithStack
  <2>15. TnlStep(AsTnl(n), i) = WithStack(AsTnl(v), f, t)
    <3>1. Skip(u, 1).pc = q
      <4>1. 1 \in Int
        OBVIOUS
      <4>2. Skip(u, 1).pc = (u.pc + 1) % PAGE_SIZE
        BY <4>1, SkipTyped
      <4> QED
        BY ONLY <1>2, <2>3, <2>4, <4>2
    <3>2. TnlStep(AsTnl(n), i) = [Skip(u, z) EXCEPT ![f] = Overwrite(Shift(@, z), <<h>>, z)]
      BY <1>2, <1>3, <1>10, <2>1, <2>2, <2>3, <2>5, <2>6, <2>7, <3>1 DEF TnlStep
    <3>3. PICK x \in Machine : x = AsTnl(v) /\ x[f] = ShiftedUp(st)
      BY <2>13, TnlTyped
    <3>4. [x EXCEPT ![f] = Overwrite(Shift(@, z), <<h>>, z)] = [x EXCEPT ![f] = t]
      <4>1. CASE f = "wst"
        BY <2>12, <3>3, <4>1 DEF Machine
      <4>2. CASE f = "rst"
        BY <2>12, <3>3, <4>2 DEF Machine
      <4> QED
        BY <4>1, <4>2
    <3> QED
      BY <2>13, <3>2, <3>3, <3>4 DEF WithStack
  <2>16. WithStack(AsTnl(v), f, t) = AsTnl(WithStack(v, f, s))
    BY <2>12, StackSame
  <2> QED
    BY ONLY <2>14, <2>15, <2>16
<1>11. CASE i.op \notin Immediate
  <2>1. i.op \in Plains
    BY <1>11, InstrParts
  <2>2. Step(n, i) = Operate(o, i)
    BY <1>11 DEF Step, Immediate
  <2>3. TnlStep(AsTnl(n), i) = TnlOperate(u, i)
    BY <1>3, <1>11 DEF TnlStep, Immediate
  <2>4. TnlOperate(AsTnl(o), i) = AsTnl(Operate(o, i))
    BY <1>1, <2>1, OperateSame
  <2> QED
    BY ONLY <1>2, <2>2, <2>3, <2>4
<1> QED
  BY <1>6, <1>7, <1>8, <1>9, <1>10, <1>11 DEF Immediate

\* The two cores the repository keeps agree on every instruction they both define, in every
\* state of the machine and with the dead bytes of the stacks (uxn.c, uxn-tnl.c).
THEOREM CoresStayTogether == Spec => []CoresAgree
<1>1. ASSUME m \in Machine PROVE CoresAgree
  <2>1. ASSUME NEW i \in Instructions, ~Parts(i)
        PROVE  FromTnl(TnlStep(AsTnl(m), i)) = Step(m, i)
    <3>1. i \in Instr /\ Reaches(Skip(m, 1), i)
      BY <1>1, Evaluated
    <3>2. PICK o \in Machine : o = Skip(m, 1) /\ o.wst = m.wst /\ o.rst = m.rst /\ o.dev = m.dev
      <4>1. 1 \in Int
        OBVIOUS
      <4> QED
        BY <1>1, <4>1, SkipTyped
    <3>3. o[Own(i)] = m[Own(i)]
      <4>1. Own(i) = "wst" \/ Own(i) = "rst"
        BY <3>1, InstrParts
      <4> QED
        BY <3>2, <4>1
    <3>4. ~PartsAt(o, i)
      BY <2>1, <3>2, <3>3 DEF Parts, PartsAt, Before
    <3>5. TnlStep(AsTnl(m), i) = AsTnl(Step(m, i))
      BY <1>1, <3>1, <3>2, <3>4, StepSame
    <3>6. Step(m, i) \in Machine
      BY <1>1, <3>1, StepTyped
    <3> QED
      BY <3>5, <3>6, RoundTrip
  <2> QED
    BY <2>1 DEF CoresAgree
<1> QED
  BY <1>1, ChainKept, PTL DEF ChainInv
=============================================================================
