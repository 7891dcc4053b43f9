------------------------------- MODULE UxnTnl -------------------------------
(***************************************************************************)
(* The other core the repository keeps, etc/cores/uxn-tnl.c: it names the  *)
(* bytes at the top of a stack T, N, L, X, Y, Z, moves the stack's pointer *)
(* once by the difference an instruction makes, and then overwrites them.  *)
(* Its pointer is the place of the top, where uxn.c's is the place above.  *)
(***************************************************************************)
EXTENDS Uxn

\* The byte d below the top, and the shorts T2, N2, L2 (and H2 from 1).
Top(st, d)  == st.dat[(st.ptr - d) % B]
Top2(st, d) == Top(st, d + 1) * B + Top(st, d)

Shift(st, y) == [st EXCEPT !.ptr = (@ + y) % B]

\* Overwrites the top with the items of out, the first one at the very top.
Overwrite(st, out, n) ==
  [st EXCEPT !.dat = [a \in Byte |->
     LET d == (st.ptr - a) % B
         v == out[d \div n + 1]
     IN IF d >= Len(out) * n THEN @[a] ELSE IF d % n = 1 THEN Hi(v) ELSE Lo(v)]]

\* T, N, L or T2, N2, L2.
Reg(i, st, j) == IF i.s THEN Top2(st, 2 * j) ELSE Top(st, j)

\* SET: the bytes an instruction takes and the difference it makes.
SetX(i) ==
  LET n == Size(i) IN
  CASE i.op \in {"INC", "POP", "DUP", "JMP", "JSR", "STH"} -> n
    [] i.op \in {"NIP", "SWP", "OVR"} \cup Compares \cup Sums -> 2 * n
    [] i.op = "ROT" -> 3 * n
    [] i.op \in {"JCN", "STZ", "STR", "DEO", "SFT"} -> n + 1
    [] i.op \in {"LDZ", "LDR", "DEI"} -> 1
    [] i.op = "LDA" -> 2
    [] OTHER        -> n + 2     \* STA
SetY(i) ==
  LET n == Size(i) IN
  CASE i.op \in {"INC", "SWP", "ROT"} -> 0
    [] i.op \in {"POP", "NIP", "JMP", "JSR", "STH"} \cup Sums -> -n
    [] i.op \in {"DUP", "OVR"} -> n
    [] i.op \in Compares -> 1 - 2 * n
    [] i.op \in {"JCN", "STZ", "STR", "DEO"} -> -(n + 1)
    [] i.op \in {"LDZ", "LDR", "DEI"} -> n - 1
    [] i.op = "LDA" -> n - 2
    [] i.op = "SFT" -> -1
    [] OTHER        -> -(n + 2)  \* STA

\* A load of one or two bytes, the second one at (a + 1) % w.
Fetch(i, ram, a, w) == IF i.s THEN ram[a] * B + ram[(a + 1) % w] ELSE ram[a]
Poke(i, ram, a, v, w) ==
  IF i.s THEN [ram EXCEPT ![a] = Hi(v), ![(a + 1) % w] = Lo(v)] ELSE [ram EXCEPT ![a] = v]

\* What is written over the top, after the pointer has moved; moved is the machine then.
Out(i, m, moved) ==
  LET st == m[Own(i)]
      t == Reg(i, st, 0)
      n == Reg(i, st, 1)
      l == Reg(i, st, 2)
      b == Top(st, 0)
  IN CASE i.op = "INC" -> <<t + 1>>
       [] i.op = "NIP" -> <<t>>
       [] i.op = "SWP" -> <<n, t>>
       [] i.op = "ROT" -> <<l, t, n>>
       [] i.op = "DUP" -> <<t, t>>
       [] i.op = "OVR" -> <<n, t, n>>
       [] i.op \in Compares \cup Sums -> <<Result(i.op, n, t)>>
       [] i.op = "SFT" -> <<Shifted(IF i.s THEN Top2(st, 1) ELSE Top(st, 1), b)>>
       [] i.op = "LDZ" -> <<Fetch(i, m.ram, b, B)>>
       [] i.op = "LDR" -> <<Fetch(i, m.ram, (m.pc + Signed(b)) % PAGE_SIZE, PAGE_SIZE)>>
       [] i.op = "LDA" -> <<Fetch(i, m.ram, Top2(st, 0), PAGE_SIZE)>>
       [] i.op = "DEI" -> <<IF i.s THEN Dei(moved, b) * B + Dei(moved, (b + 1) % B)
                            ELSE Dei(moved, b)>>
       [] OTHER        -> <<>>

\* The memory and the ports.
Effect(i, m, moved) ==
  LET st == m[Own(i)]
      b  == Top(st, 0)
      h  == IF i.s THEN Top2(st, 1) ELSE Top(st, 1)
  IN CASE i.op = "STZ" -> [moved EXCEPT !.ram = Poke(i, @, b, h, B)]
       [] i.op = "STR" -> [moved EXCEPT !.ram = Poke(i, @, (m.pc + Signed(b)) % PAGE_SIZE, h, PAGE_SIZE)]
       [] i.op = "STA" -> [moved EXCEPT !.ram = Poke(i, @, Top2(st, 0),
                                                     IF i.s THEN Top2(st, 2) ELSE Top(st, 2), PAGE_SIZE)]
       [] i.op = "DEO" -> IF i.s THEN Deo(Deo(moved, b, Hi(h)), (b + 1) % B, Lo(h))
                          ELSE Deo(moved, b, h)
       [] OTHER        -> moved

TnlOperate(m, i) ==
  LET t     == Reg(i, m[Own(i)], 0)
      jumps == i.op \in {"JMP", "JSR"} \/ (i.op = "JCN" /\ Top(m[Own(i)], Size(i)) # 0)
      moved == [m EXCEPT ![Own(i)] = Shift(@, (IF i.k THEN SetX(i) ELSE 0) + SetY(i))]
      after == Effect(i, m, moved)
      width == IF i.op \in Compares THEN 1 ELSE Size(i)
      own   == [after EXCEPT ![Own(i)] = Overwrite(@, Out(i, m, moved), width),
                             !.pc = IF ~jumps THEN @ ELSE IF i.s THEN t ELSE (@ + Signed(t)) % PAGE_SIZE]
  IN CASE i.op = "STH" -> [own EXCEPT ![Other(i)] = Overwrite(Shift(@, Size(i)), <<t>>, Size(i))]
       [] i.op = "JSR" -> [own EXCEPT ![Other(i)] = Overwrite(Shift(@, 2), <<m.pc>>, 2)]
       [] OTHER        -> own

TnlStep(m, i) ==
  LET n == Skip(m, 1)
      a == Peek2(n.ram, n.pc)
  IN CASE i.op = "BRK" -> n
       [] i.op = "JMI" -> Skip(n, a + 2)
       [] i.op = "JCI" -> [Skip(n, IF Top(n.wst, 0) = 0 THEN 2 ELSE a + 2) EXCEPT !.wst = Shift(@, -1)]
       [] i.op = "JSI" -> [Skip(n, a + 2) EXCEPT !.rst = Overwrite(Shift(@, 2), <<Skip(n, 2).pc>>, 2)]
       [] i.op = "LIT" -> LET b == n.ram[n.pc]
                              c == n.ram[Skip(n, 1).pc]
                          IN [Skip(n, Size(i)) EXCEPT ![Own(i)] =
                                Overwrite(Shift(@, Size(i)), <<IF i.s THEN b * B + c ELSE b>>, Size(i))]
       [] OTHER        -> TnlOperate(n, i)
=============================================================================
