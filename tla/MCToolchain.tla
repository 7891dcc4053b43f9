----------------------------- MODULE MCToolchain -----------------------------
(* Toolchain with sources and machines for TLC.                             *)
EXTENDS Toolchain

W(w) == <<w, "", 0>>
Hex(b)        == [rune |-> "byte", hex |-> b]
Pad(rune, n)  == [rune |-> rune, hex |-> n]
Tok(rune, w)  == [rune |-> rune, name |-> w]
SubOf(w)      == <<"&", w, 0>>
Macro(w, g)   == [rune |-> "%", name |-> W(w), glued |-> g]
If            == Tok("?", Brace)
Close         == Tok("}", Brace)

UpTo(n, tokens) == UNION {[1 .. k -> tokens] : k \in 1 .. n}

\* Bytes, pads and rewinds; a label that is a pad's target.
Layouts == UpTo(4, {Hex(8), Hex(0), Pad("|", 18), Pad("|", 14), Pad("|", 255), Pad("$", 1),
                    Tok("@", W("a")), Tok("|", W("a")), Tok(";", W("a"))})

\* Fewer tokens, one more of them.
LongLayouts == UpTo(5, {Hex(8), Hex(0), Pad("|", 18), Tok("@", W("a")), Tok(";", W("a"))})

\* A literal and every opcode, in every mode.
Literals == {<<Hex(8), Hex(v), Hex(b), Hex(0)>> : v \in {3, 13, 15}, b \in {b \in Byte : b % 2 = 1}}

\* Every rune, its label n bytes ahead or behind, near the start and across the middle.
Spans == UNION {{<<Tok(r, W("a")), Pad("$", n), Tok("@", W("a")), Hex(0)>>,
                 <<Tok("@", W("a")), Pad("$", n), Hex(9), Tok(r, W("a")), Hex(0)>>,
                 <<Pad("|", 120), Tok(r, W("a")), Hex(0), Pad("$", n), Tok("@", W("a"))>>} :
                   r \in Runes, n \in {0, 4, 5, 6, 7, 8, 40, 130}}

\* Children of two scopes, in any order; names that are none; a label at 0x100 of the code.
Scopes == UpTo(4, {Tok("@", W("a")), Tok("@", W("b")), Tok("&", SubOf("a")), Tok(";", SubOf("a")),
                   Tok("!", W("b"))})
            \cup {<<Tok("@", W("ff")), Hex(0)>>, <<Tok("&", SubOf("ff")), Tok(",", SubOf("ff"))>>,
                  <<Tok("$", W("ff"))>>}

\* Lambdas, open, nested, unmatched, and with an end that lies before the inner one's.
Lambdas == UNION {[1 .. k -> {If, Close}] : k \in 1 .. 6}
             \cup {<<If, If, Pad("|", 60), Close, Pad("|", 40), Close>>}

\* Macros: used, glued to their brace, with a lambda, with two inside each other, nested,
\* named twice, never ended.
Macros ==
  LET Use == Tok(" ", W("a"))
      mac == Macro("a", FALSE)
  IN {<<mac, Hex(8), Hex(9), Close, Use, Use>>,
      <<Macro("a", TRUE), Hex(8), Hex(9), Close, Use, Hex(0)>>,
      <<mac, If, Hex(8), Close, Close, Use, Hex(0)>>,
      <<mac, If, If, Hex(8), Close, Close, Close, Use, Hex(0)>>,
      <<mac, If, Hex(8), Close, If, Hex(9), Close, Close, Use, Hex(0), Use>>,
      <<Use, mac, Hex(8), Close, Use>>,
      <<Tok("@", W("a")), mac, Hex(8), Close>>,
      <<mac, Hex(8), Close, mac, Hex(9), Close>>,
      <<mac, Hex(8), Close, Tok("@", W("a"))>>,
      <<mac, Macro("b", FALSE), Hex(8), Close, Close, Use>>,
      <<mac, Tok(";", SubOf("b")), Close, Tok("@", W("a")), Use>>,
      <<mac, Tok(";", SubOf("b")), Close, Hex(0), Tok("@", W("b")), Tok("&", SubOf("b")), Use>>,
      <<mac, Hex(8)>>, <<mac, Hex(8), Close, Macro("b", FALSE), Hex(9), Use, Close, Tok(" ", W("b")), Hex(0)>>,
      <<mac, Close, Macro("b", FALSE), Close, Macro("ab", FALSE), Close>>}

MCSources == {<<>>} \cup Layouts \cup LongLayouts \cup Literals \cup Spans \cup Scopes \cup Lambdas \cup Macros

-----------------------------------------------------------------------------
\* A memory whose bytes differ, and stacks of edges, ports and mixed bytes.
Ram == [a \in Memory |-> (3 * a + a \div B + 5) % B]
Dats == {[i \in Byte |-> (5 * i + 3) % B], [i \in Byte |-> B - 1],
         [i \in Byte |-> 3 + (i % 3)], [i \in Byte |-> IF i % 2 = 0 THEN 13 ELSE 0]}

Bare == [Blank EXCEPT !.ram = Ram, !.dev = [p \in Byte |-> IF p = Local THEN 0 ELSE p]]

Cores ==
  {[Bare EXCEPT !.pc = p, !.ram[p] = b, !.dev[Local] = l,
                 !.wst = [dat |-> d, ptr |-> t],
                 !.rst = [dat |-> [i \in Byte |-> (7 * i + 2) % B], ptr |-> (t + 9) % B]] :
     p \in {16, 200, 255}, b \in Byte, l \in 0 .. BANKS - 1, d \in Dats, t \in {0, 1, 8}}

\* A command at 32, its bank, its destination's bank and the distance to it.
Short2(v) == <<v \div B, v % B>>
Command(op, n, bank, a, dstBank, d) ==
  <<op>> \o Short2(n) \o Short2(bank) \o Short2(a) \o Short2(dstBank) \o Short2(d)
WithCommand(c, b) ==
  [Bare EXCEPT !.pc = 16, !.dev[2] = 2, !.dev[3] = 0,
                !.ram = [a \in Memory |-> IF a = 16 THEN b
                                          ELSE IF a \in 32 .. 31 + Len(c) THEN c[a - 31] ELSE Ram[a]],
                !.wst = [dat |-> [i \in Byte |-> IF i = 2 THEN 3 ELSE 0], ptr |-> 3]]
Expansions ==
  {WithCommand(Command(op, n, bank, a, to, (a + d) % PAGE_SIZE), 0) :
     op \in {1, 2}, n \in {0, 1, 5}, bank \in 0 .. BANKS, a \in {64, 253}, to \in 0 .. BANKS,
     d \in {-5, -4, -1, 0, 1, 4, 5, 130}}
    \cup {WithCommand(Command(op, 5, bank, 253, 1, 255), 1) : op \in 0 .. 3, bank \in 0 .. BANKS}

MCMachines == Cores \cup Expansions
=============================================================================
