--------------------------- MODULE Screen_proofs ----------------------------
(***************************************************************************)
(* Commands draw what they are meant to, and no drawing is lost: proofs    *)
(* for every size of tile, screen and word, any number of threads and any  *)
(* commands.                                                               *)
(***************************************************************************)
EXTENDS Screen, TLAPS

-----------------------------------------------------------------------------
(* Addresses.                                                              *)

\* A place in a row and the row: the address tells both.
LEMMA RowAndColumn ==
  ASSUME NEW W \in Nat, NEW p \in 0 .. W - 1, NEW q \in 0 .. W - 1,
         NEW r \in Int, NEW s \in Int, p + r * W = q + s * W
  PROVE  p = q /\ r = s
<1>1. ASSUME NEW a \in 0 .. W - 1, NEW b \in 0 .. W - 1, NEW m \in Int, NEW n \in Int, m < n
      PROVE  a + m * W # b + n * W
  <2>1. PICK k \in Nat : n = m + 1 + k
    <3>1. n - m - 1 \in Nat /\ n = m + 1 + (n - m - 1)
      BY <1>1, SMT
    <3> QED
      BY <3>1
  <2>2. n * W = m * W + W + k * W /\ k * W \in Nat /\ m * W \in Int
    BY <2>1, SMT
  <2> QED
    BY <1>1, <2>2, SMT
<1>2. ~(r < s) /\ ~(s < r)
  BY <1>1
<1>3. r = s
  BY <1>2, SMT
<1>4. r * W \in Int
  BY SMT
<1> QED
  BY <1>3, <1>4, SMT

\* A place in a row of a layer is in its memory.
LEMMA InRow ==
  ASSUME NEW W \in Nat, NEW H \in Nat, NEW p \in 0 .. W - 1, NEW r \in 0 .. H - 1
  PROVE  p + r * W \in 0 .. W * H - 1
<1>1. PICK k \in Nat : H = r + 1 + k
  <2> WITNESS H - r - 1 \in Nat
  <2> QED
    BY SMT
<1>2. W * H = r * W + W + k * W /\ k * W \in Nat /\ r * W \in Nat
  BY <1>1, SMT
<1> QED
  BY <1>2, SMT

\* The units: a tile, and the sizes of a screen.
LEMMA SizeFacts ==
  ASSUME NEW w, NEW h, <<w, h>> \in Sizes
  PROVE  /\ TILE \in Nat /\ TILE > 0 /\ w \in Nat /\ w > 0 /\ h \in Nat /\ h > 0
         /\ MAR2(w) \in Nat /\ MAR2(h) \in Nat /\ MAR2(w) < WORD /\ MAR2(h) < WORD
         /\ w < FAR /\ h < FAR /\ FAR \in Nat /\ WORD \in Nat
BY SizeAssumption, SMT DEF MAR2

\* A cell of the screen has its place in the layer's memory.
LEMMA CellInMemory ==
  ASSUME NEW w, NEW h, <<w, h>> \in Sizes, NEW c \in Cells(w, h)
  PROVE  /\ MAR(c[1]) \in 0 .. MAR2(w) - 1 /\ MAR(c[2]) \in 0 .. MAR2(h) - 1
         /\ Address(w, c) \in Memory(w, h)
<1>1. MAR(c[1]) \in 0 .. MAR2(w) - 1 /\ MAR(c[2]) \in 0 .. MAR2(h) - 1
  BY SizeFacts, SMT DEF Cells, MAR, MAR2
<1>2. MAR2(w) \in Nat /\ MAR2(h) \in Nat
  BY SizeFacts
<1> QED
  BY <1>1, <1>2, InRow DEF Address, Memory

\* A remainder of a number less than a word below or above zero.
LEMMA Wrap ==
  ASSUME NEW n \in Int, NEW W \in Nat, W > 0, n >= -W, n < W
  PROVE  n % W = IF n >= 0 THEN n ELSE n + W
<1>1. n % W \in Int /\ n % W >= 0 /\ n % W < W /\ n = W * (n \div W) + (n % W) /\ n \div W \in Int
  BY SMT
<1> DEFINE q == n \div W
           r == n % W
<1> HIDE DEF q, r
<1>2. /\ r \in Int /\ r >= 0 /\ r < W /\ n = W * q + r /\ q \in Int
  BY <1>1 DEF q, r
<1>3. q < 1
  <2> SUFFICES ASSUME q >= 1 PROVE FALSE
    BY <1>2, SMT
  <2>1. W * q >= W
    <3>1. PICK k \in Nat : q = 1 + k
      BY <1>2, SMT
    <3>2. W * q = W + W * k /\ W * k \in Nat
      BY <3>1, SMT
    <3> QED
      BY <3>2, SMT
  <2> QED
    BY <1>2, <2>1, SMT
<1>4. q > -2
  <2> SUFFICES ASSUME q <= -2 PROVE FALSE
    BY <1>2, SMT
  <2>1. PICK k \in Nat : q = -2 - k
    <3>1. -2 - q \in Nat /\ q = -2 - (-2 - q)
      BY <1>2, SMT
    <3> QED
      BY <3>1
  <2>2. W * q = -2 * W - W * k /\ W * k \in Nat
    BY <2>1, SMT
  <2> QED
    BY <1>2, <2>2, SMT
<1>5. q = 0 \/ q = -1
  BY <1>2, <1>3, <1>4, SMT
<1>6. r = IF n >= 0 THEN n ELSE n + W
  BY <1>2, <1>5, SMT
<1> QED
  BY <1>6 DEF r

-----------------------------------------------------------------------------
(* What a command draws.                                                   *)

\* What a size and a command are.
Geo(g) == g.w \in Nat /\ g.h \in Nat /\ <<g.w, g.h>> \in Sizes

\* The fields of a command.
LEMMA DrawFacts ==
  ASSUME NEW d \in Draws
  PROVE  /\ d.mode \in {"pixel", "fill", "sprite"} /\ d.layer \in Layer /\ d.color \in Color
         /\ d.x \in Int /\ d.y \in Int /\ d.fx \in BOOLEAN /\ d.fy \in BOOLEAN
         /\ d.mx \in {0, 1} /\ d.my \in {0, 1} /\ d.len \in Nat
BY DrawAssumption

\* A pixel colors its cell, or margin, or nothing.
LEMMA PixelDraws ==
  ASSUME NEW d \in Draws, NEW g, Geo(g), g.h = height
  PROVE  /\ PixelAddresses(d, g) \subseteq Memory(g.w, g.h)
         /\ \A c \in Cells(g.w, g.h) :
              /\ Address(g.w, c) \in PixelAddresses(d, g) <=> c = <<d.x, d.y>>
              /\ c = <<d.x, d.y>> => In(c, PixelRect(d))
<1> DEFINE W == MAR2(g.w)
           H == MAR2(g.h)
<1>1. /\ W \in Nat /\ H \in Nat /\ TILE \in Nat /\ TILE > 0 /\ g.w \in Nat /\ g.h \in Nat
      /\ W = g.w + 2 * TILE /\ H = g.h + 2 * TILE
  BY SizeFacts DEF Geo, MAR2
<1>2. d.x \in Int /\ d.y \in Int
  BY DrawFacts
<1>3. ASSUME d.x >= 0, d.y >= 0, d.x < W, d.y < g.h
      PROVE  Address(g.w, <<d.x, d.y>>) \in Memory(g.w, g.h)
  <2>1. MAR(d.y) \in 0 .. H - 1 /\ MAR(d.y) + 1 \in 0 .. H - 1
    BY <1>1, <1>2, <1>3, SMT DEF MAR
  <2>2. CASE MAR(d.x) < W
    <3>1. MAR(d.x) \in 0 .. W - 1
      BY <1>1, <1>2, <1>3, <2>2, SMT DEF MAR
    <3> QED
      BY <3>1, <2>1, <1>1, InRow DEF Address, Memory
  <2>3. CASE MAR(d.x) >= W
    <3>1. MAR(d.x) - W \in 0 .. W - 1
      BY <1>1, <1>2, <1>3, <2>3, SMT DEF MAR
    <3>2. MAR(d.x) - W + (MAR(d.y) + 1) * W \in 0 .. W * H - 1
      BY <3>1, <2>1, <1>1, InRow
    <3>3. MAR(d.x) \in Int /\ MAR(d.y) \in Int
      BY <1>1, <1>2 DEF MAR
    <3>4. MAR(d.x) - W + (MAR(d.y) + 1) * W = MAR(d.x) + MAR(d.y) * W
      BY <3>3, <1>1, SMT
    <3> QED
      BY <3>2, <3>4 DEF Address, Memory
  <2> QED
    BY <2>2, <2>3, <1>1, <1>2, SMT DEF MAR
<1>4. PixelAddresses(d, g) \subseteq Memory(g.w, g.h)
  BY <1>3 DEF PixelAddresses
<1>5. ASSUME NEW c \in Cells(g.w, g.h)
      PROVE  Address(g.w, c) \in PixelAddresses(d, g) <=> c = <<d.x, d.y>>
  <2>1. /\ c[1] \in 0 .. g.w - 1 /\ c[2] \in 0 .. g.h - 1 /\ c = <<c[1], c[2]>>
        /\ MAR(c[1]) \in 0 .. W - 1 /\ MAR(c[2]) \in Int
    BY <1>1, CellInMemory, SMT DEF Cells, Geo, MAR
  <2>2. CASE c = <<d.x, d.y>>
    <3>1. d.x >= 0 /\ d.y >= 0 /\ d.x < W /\ d.y < g.h
      BY <1>1, <2>1, <2>2, SMT
    <3> QED
      BY <3>1, <2>2 DEF PixelAddresses
  <2>3. CASE c # <<d.x, d.y>>
    <3> SUFFICES ASSUME d.x >= 0, d.y >= 0, d.x < W, d.y < g.h,
                        Address(g.w, c) = Address(g.w, <<d.x, d.y>>)
                 PROVE  FALSE
      BY <2>3 DEF PixelAddresses
    <3>1. MAR(c[1]) + MAR(c[2]) * W = MAR(d.x) + MAR(d.y) * W
      BY DEF Address
    <3>2. CASE MAR(d.x) < W
      <4>1. MAR(d.x) \in 0 .. W - 1 /\ MAR(d.y) \in Int
        BY <1>1, <1>2, <3>2, SMT DEF MAR
      <4>2. MAR(c[1]) = MAR(d.x) /\ MAR(c[2]) = MAR(d.y)
        BY <4>1, <3>1, <2>1, <1>1, RowAndColumn
      <4> QED
        BY <4>2, <1>1, <1>2, <2>1, <2>3, SMT DEF MAR
    <3>3. CASE MAR(d.x) >= W
      <4>1. MAR(d.x) - W \in 0 .. W - 1 /\ MAR(d.y) \in Int /\ MAR(d.x) \in Int /\ MAR(d.y) + 1 \in Int
        BY <1>1, <1>2, <3>3, SMT DEF MAR
      <4>2. MAR(d.x) - W + (MAR(d.y) + 1) * W = MAR(d.x) + MAR(d.y) * W
        BY <4>1, <1>1, SMT
      <4>3. MAR(c[1]) = MAR(d.x) - W
        BY <4>1, <4>2, <3>1, <2>1, <1>1, RowAndColumn
      <4> QED
        BY <4>3, <1>1, <1>2, <2>1, SMT DEF MAR
    <3> QED
      BY <3>2, <3>3, <1>1, <1>2, SMT DEF MAR
  <2> QED
    BY <2>2, <2>3
<1>6. ASSUME NEW c \in Cells(g.w, g.h), c = <<d.x, d.y>> PROVE In(c, PixelRect(d))
  BY <1>2, <1>6, SMT DEF In, PixelRect
<1> QED
  BY <1>4, <1>5, <1>6

\* A block of a layer w wide: columns P of rows R.
BlockOf(w, P, R) == {p + r * MAR2(w) : p \in P, r \in R}

\* The cells of a block, and its place in the layer.
LEMMA Block ==
  ASSUME NEW w, NEW h, <<w, h>> \in Sizes, NEW P \in SUBSET (0 .. MAR2(w) - 1), NEW R \in SUBSET Int
  PROVE  /\ \A c \in Cells(w, h) :
              Address(w, c) \in BlockOf(w, P, R) <=> MAR(c[1]) \in P /\ MAR(c[2]) \in R
         /\ R \subseteq 0 .. MAR2(h) - 1 => BlockOf(w, P, R) \subseteq Memory(w, h)
<1> DEFINE W == MAR2(w)
<1>1. W \in Nat /\ MAR2(h) \in Nat
  BY SizeFacts
<1>2. \A a : a \in BlockOf(w, P, R) <=> \E p \in P, r \in R : a = p + r * W
  BY DEF BlockOf
<1>3. ASSUME NEW c \in Cells(w, h)
      PROVE  Address(w, c) \in BlockOf(w, P, R) <=> MAR(c[1]) \in P /\ MAR(c[2]) \in R
  <2>1. MAR(c[1]) \in 0 .. W - 1 /\ MAR(c[2]) \in Int
    BY CellInMemory
  <2>2. Address(w, c) = MAR(c[1]) + MAR(c[2]) * W
    BY DEF Address
  <2> HIDE DEF W
  <2>3. ASSUME NEW p \in P, NEW r \in R, Address(w, c) = p + r * W
        PROVE  MAR(c[1]) = p /\ MAR(c[2]) = r
    BY <2>1, <2>2, <2>3, <1>1, RowAndColumn DEF W
  <2> QED
    BY <1>2, <2>2, <2>3
<1>4. ASSUME R \subseteq 0 .. MAR2(h) - 1 PROVE BlockOf(w, P, R) \subseteq Memory(w, h)
  <2> SUFFICES ASSUME NEW p \in P, NEW r \in R PROVE p + r * W \in Memory(w, h)
    BY <1>2
  <2>1. p \in 0 .. W - 1 /\ r \in 0 .. MAR2(h) - 1
    BY <1>4
  <2> QED
    BY <2>1, <1>1, InRow DEF Memory
<1> QED
  BY <1>3, <1>4

\* A fill colors its corner of the screen and reports it, unless it leaves the margins.
LEMMA FillDraws ==
  ASSUME NEW d \in Draws, NEW g, Geo(g), d.mode = "fill", ~Leaves(d, g)
  PROVE  /\ FillAddresses(d, g) \subseteq Memory(g.w, g.h)
         /\ \A c \in Cells(g.w, g.h) :
              Address(g.w, c) \in FillAddresses(d, g) <=> In(c, FillRect(d, g))
<1> DEFINE r == FillRect(d, g)
           P == MAR(r.x1) .. MAR(r.x2) - 1
           R == MAR(r.y1) .. MAR(r.y2) - 1
<1>1. /\ TILE \in Nat /\ TILE > 0 /\ g.w \in Nat /\ g.h \in Nat
  BY SizeFacts DEF Geo
<1>2. /\ r.x1 \in Int /\ r.x2 \in Int /\ r.y1 \in Int /\ r.y2 \in Int
  BY <1>1, DrawFacts DEF FillRect
<1>3. FillAddresses(d, g) = {Address(g.w, c) : c \in (r.x1 .. r.x2 - 1) \X (r.y1 .. r.y2 - 1)}
  BY DEF FillAddresses, r
<1>4. \/ r.x1 >= r.x2 \/ r.y1 >= r.y2
      \/ r.x1 >= -TILE /\ r.x2 <= MAR(g.w) /\ r.y1 >= -TILE /\ r.y2 <= MAR(g.h)
  <2>1. \/ ~(r.x1 < r.x2 /\ r.y1 < r.y2)
        \/ ~(r.x1 < -TILE \/ r.x2 > MAR(g.w) \/ r.y1 < -TILE \/ r.y2 > MAR(g.h))
    BY DEF Leaves, r
  <2> HIDE DEF r
  <2> QED
    BY <1>1, <1>2, <2>1, SMT DEF MAR
<1> HIDE DEF r
<1>5. CASE r.x1 >= r.x2 \/ r.y1 >= r.y2
  <2>1. (r.x1 .. r.x2 - 1) \X (r.y1 .. r.y2 - 1) = {}
    <3>1. r.x1 .. r.x2 - 1 = {} \/ r.y1 .. r.y2 - 1 = {}
      BY <1>2, <1>5, SMT
    <3> QED
      BY <3>1
  <2>2. FillAddresses(d, g) = {}
    BY <1>3, <2>1
  <2>3. ASSUME NEW c \in Cells(g.w, g.h) PROVE ~In(c, r)
    <3>1. c[1] \in Int /\ c[2] \in Int
      BY <1>1, SMT DEF Cells
    <3> QED
      BY <1>2, <1>5, <3>1, SMT DEF In
  <2> QED
    BY <2>2, <2>3 DEF r
<1>6. CASE r.x1 >= -TILE /\ r.x2 <= MAR(g.w) /\ r.y1 >= -TILE /\ r.y2 <= MAR(g.h)
  <2>1. P \in SUBSET (0 .. MAR2(g.w) - 1) /\ R \in SUBSET (0 .. MAR2(g.h) - 1) /\ R \in SUBSET Int
    BY <1>1, <1>2, <1>6, SMT DEF MAR, MAR2
  <2>2. FillAddresses(d, g) = BlockOf(g.w, P, R)
    <3>1. ASSUME NEW c \in (r.x1 .. r.x2 - 1) \X (r.y1 .. r.y2 - 1)
          PROVE  MAR(c[1]) \in P /\ MAR(c[2]) \in R
      BY <1>1, <1>2, SMT DEF MAR
    <3>2. ASSUME NEW p \in P, NEW q \in R
          PROVE  \E c \in (r.x1 .. r.x2 - 1) \X (r.y1 .. r.y2 - 1) :
                   MAR(c[1]) = p /\ MAR(c[2]) = q
      <4>1. /\ p - TILE \in r.x1 .. r.x2 - 1 /\ q - TILE \in r.y1 .. r.y2 - 1
            /\ MAR(p - TILE) = p /\ MAR(q - TILE) = q
        BY <1>1, <1>2, SMT DEF MAR
      <4>2. <<p - TILE, q - TILE>> \in (r.x1 .. r.x2 - 1) \X (r.y1 .. r.y2 - 1)
        BY <4>1
      <4> QED
        BY <4>1, <4>2
    <3> HIDE DEF P, R
    <3> QED
      BY <1>3, <3>1, <3>2 DEF Address, BlockOf
  <2>3. ASSUME NEW c \in Cells(g.w, g.h)
        PROVE  MAR(c[1]) \in P /\ MAR(c[2]) \in R <=> In(c, r)
    BY <1>1, <1>2, SMT DEF MAR, Cells, In
  <2> HIDE DEF P, R
  <2>4. <<g.w, g.h>> \in Sizes /\ R \subseteq 0 .. MAR2(g.h) - 1
    BY <2>1 DEF Geo
  <2>5. /\ \A c \in Cells(g.w, g.h) :
              Address(g.w, c) \in BlockOf(g.w, P, R) <=> MAR(c[1]) \in P /\ MAR(c[2]) \in R
        /\ BlockOf(g.w, P, R) \subseteq Memory(g.w, g.h)
    BY <2>1, <2>4, Block
  <2> QED
    BY <2>2, <2>3, <2>5 DEF r
<1> QED
  BY <1>4, <1>5, <1>6

\* How far a cursor may be from the screen so that 16 bits tell.
Near(x, w) == x \in Int /\ x + 3 * TILE < WORD /\ x + WORD >= w

\* One sprite colors the cells of its square that are on the screen.
LEMMA TileDraws ==
  ASSUME NEW g, Geo(g), NEW x, NEW y, Near(x, g.w), Near(y, g.h)
  PROVE  /\ TileAddresses(x, y, g) \subseteq Memory(g.w, g.h)
         /\ \A c \in Cells(g.w, g.h) :
              Address(g.w, c) \in TileAddresses(x, y, g)
                <=> In(c, [x1 |-> x, y1 |-> y, x2 |-> x + TILE, y2 |-> y + TILE])
<1> DEFINE xmar  == MAR(x) % WORD
           ymar  == MAR(y) % WORD
           ymar2 == MAR2(y) % WORD
           P == {xmar + i : i \in 0 .. TILE - 1}
           R == ymar .. ymar2 - 1
<1>1. /\ TILE \in Nat /\ TILE > 0 /\ g.w \in Nat /\ g.h \in Nat /\ WORD \in Nat
      /\ g.w > 0 /\ g.h > 0
      /\ g.w + 2 * TILE < WORD /\ g.h + 2 * TILE < WORD
      /\ MAR2(g.w) = g.w + 2 * TILE /\ MAR2(g.h) = g.h + 2 * TILE
      /\ MAR(g.w) = g.w + TILE
  BY SizeFacts DEF Geo, MAR2, MAR
<1>2. x \in Int /\ y \in Int /\ x + 3 * TILE < WORD /\ x + WORD >= g.w
      /\ y + 3 * TILE < WORD /\ y + WORD >= g.h
  BY <1>1, SMT DEF Near
<1>3. /\ xmar = IF x + TILE >= 0 THEN x + TILE ELSE x + TILE + WORD
      /\ ymar = IF y + TILE >= 0 THEN y + TILE ELSE y + TILE + WORD
      /\ ymar2 = IF y + 2 * TILE >= 0 THEN y + 2 * TILE ELSE y + 2 * TILE + WORD
  <2>1. /\ x + TILE \in Int /\ x + TILE >= -WORD /\ x + TILE < WORD
        /\ y + TILE \in Int /\ y + TILE >= -WORD /\ y + TILE < WORD
        /\ y + 2 * TILE \in Int /\ y + 2 * TILE >= -WORD /\ y + 2 * TILE < WORD
        /\ WORD > 0
    BY <1>1, <1>2, SMT
  <2> QED
    BY <2>1, <1>1, Wrap DEF MAR, MAR2
<1>4. TileAddresses(x, y, g) =
        IF xmar < MAR(g.w) /\ ymar2 < MAR2(g.h)
        THEN {xmar + i + row * MAR2(g.w) : i \in 0 .. TILE - 1, row \in R} ELSE {}
  BY DEF TileAddresses
<1> HIDE DEF xmar, ymar, ymar2
<1>5. xmar \in Int /\ ymar \in Int /\ ymar2 \in Int
  BY <1>1, <1>2, <1>3, SMT
<1>6. CASE xmar < MAR(g.w) /\ ymar2 < MAR2(g.h)
  <2>1. x + TILE >= 0 /\ x < g.w /\ xmar = x + TILE
    BY <1>1, <1>2, <1>3, <1>6, SMT
  <2>2. y + 2 * TILE >= 0 /\ y < g.h /\ ymar2 = y + 2 * TILE
    BY <1>1, <1>2, <1>3, <1>6, SMT
  <2>3. P \in SUBSET (0 .. MAR2(g.w) - 1)
    BY <1>1, <1>2, <2>1, SMT
  <2>4. R \in SUBSET Int /\ R \subseteq 0 .. MAR2(g.h) - 1
    BY <1>1, <1>2, <1>3, <1>5, <1>6, <2>2, SMT
  <2>5. TileAddresses(x, y, g) = BlockOf(g.w, P, R)
    <3>1. TileAddresses(x, y, g) = {xmar + i + row * MAR2(g.w) : i \in 0 .. TILE - 1, row \in R}
      BY <1>4, <1>6
    <3> HIDE DEF R
    <3> QED
      BY <3>1 DEF BlockOf
  <2>6. ASSUME NEW c \in Cells(g.w, g.h)
        PROVE  MAR(c[1]) \in P /\ MAR(c[2]) \in R
                 <=> In(c, [x1 |-> x, y1 |-> y, x2 |-> x + TILE, y2 |-> y + TILE])
    <3>1. c[1] \in 0 .. g.w - 1 /\ c[2] \in 0 .. g.h - 1
      BY DEF Cells
    <3>2. MAR(c[1]) \in P <=> c[1] >= x /\ c[1] < x + TILE
      <4>1. ASSUME c[1] >= x, c[1] < x + TILE PROVE MAR(c[1]) \in P
        <5>1. c[1] - x \in 0 .. TILE - 1 /\ MAR(c[1]) = xmar + (c[1] - x)
          BY <1>1, <1>2, <2>1, <3>1, <4>1, SMT DEF MAR
        <5> QED
          BY <5>1
      <4>2. ASSUME NEW i \in 0 .. TILE - 1, MAR(c[1]) = xmar + i
            PROVE  c[1] >= x /\ c[1] < x + TILE
        BY <1>1, <1>2, <2>1, <3>1, <4>2, SMT DEF MAR
      <4> QED
        BY <4>1, <4>2
    <3>3. MAR(c[2]) \in R <=> c[2] >= y /\ c[2] < y + TILE
      BY <1>1, <1>2, <1>3, <1>5, <2>2, <3>1, SMT DEF MAR
    <3> QED
      BY <3>2, <3>3 DEF In
  <2> HIDE DEF P, R
  <2>7. /\ \A c \in Cells(g.w, g.h) :
              Address(g.w, c) \in TileAddresses(x, y, g) <=> MAR(c[1]) \in P /\ MAR(c[2]) \in R
        /\ TileAddresses(x, y, g) \subseteq Memory(g.w, g.h)
    <3>1. <<g.w, g.h>> \in Sizes /\ R \in SUBSET Int
      BY <2>4 DEF Geo
    <3> QED
      BY <2>3, <2>4, <2>5, <3>1, Block
  <2> QED
    BY <2>6, <2>7
<1>7. CASE ~(xmar < MAR(g.w) /\ ymar2 < MAR2(g.h))
  <2>1. TileAddresses(x, y, g) = {}
    BY <1>4, <1>7
  <2>2. ASSUME NEW c \in Cells(g.w, g.h), c[1] >= x, c[1] < x + TILE, c[2] >= y, c[2] < y + TILE
        PROVE  FALSE
    <3>1. c[1] \in 0 .. g.w - 1 /\ c[2] \in 0 .. g.h - 1
      BY DEF Cells
    <3> QED
      BY <1>1, <1>2, <1>3, <1>5, <1>7, <2>2, <3>1, SMT
  <2> QED
    BY <2>1, <2>2 DEF In
<1> QED
  BY <1>6, <1>7

\* The i-th of n + 1 sprites along one axis is between the cursor and the end.
LEMMA Along ==
  ASSUME NEW f \in BOOLEAN, NEW a \in {0, 1}, NEW n \in Nat, NEW i \in 0 .. n,
         TILE \in Nat
  PROVE  /\ i * (Sign(f) * TILE * a) \in Int /\ (n + 1) * (Sign(f) * TILE * a) \in Int
         /\ i * (Sign(f) * TILE * a) <= n * TILE /\ i * (Sign(f) * TILE * a) >= -(n * TILE)
         /\ n * TILE \in Nat
         /\ f => /\ i * (Sign(f) * TILE * a) <= 0
                 /\ i * (Sign(f) * TILE * a) >= (n + 1) * (Sign(f) * TILE * a)
         /\ ~f => /\ i * (Sign(f) * TILE * a) >= 0
                  /\ i * (Sign(f) * TILE * a) <= (n + 1) * (Sign(f) * TILE * a)
<1>1. i * TILE \in Nat /\ n * TILE \in Nat /\ i * TILE <= n * TILE /\ (n + 1) * TILE = n * TILE + TILE
  <2>1. PICK k \in Nat : n = i + k
    <3>1. n - i \in Nat /\ n = i + (n - i)
      BY SMT
    <3> QED
      BY <3>1
  <2>2. n * TILE = i * TILE + k * TILE /\ k * TILE \in Nat /\ i * TILE \in Nat
    BY <2>1, SMT
  <2>3. (n + 1) * TILE = n * TILE + TILE
    BY SMT
  <2> QED
    BY <2>2, <2>3, SMT
<1>2. CASE a = 0
  <2>1. Sign(f) * TILE * a = 0
    BY <1>2, SMT DEF Sign
  <2> QED
    BY <1>1, <2>1, SMT
<1>3. CASE a = 1 /\ f
  <2>1. Sign(f) * TILE * a = -TILE
    BY <1>3, SMT DEF Sign
  <2>2. i * (-TILE) = -(i * TILE) /\ (n + 1) * (-TILE) = -(n * TILE) - TILE
    BY <1>1, SMT
  <2>3. /\ i * (Sign(f) * TILE * a) = -(i * TILE)
        /\ (n + 1) * (Sign(f) * TILE * a) = -(n * TILE) - TILE
    BY <2>1, <2>2
  <2> DEFINE u == i * (Sign(f) * TILE * a)
             v == (n + 1) * (Sign(f) * TILE * a)
  <2>4. u = -(i * TILE) /\ v = -(n * TILE) - TILE
    BY <2>3
  <2> HIDE DEF u, v
  <2>5. /\ u \in Int /\ v \in Int /\ u <= n * TILE /\ u >= -(n * TILE) /\ u <= 0 /\ u >= v
    BY <1>1, <2>4, SMT
  <2> QED
    BY <1>1, <1>3, <2>5 DEF u, v
<1>4. CASE a = 1 /\ ~f
  <2>1. Sign(f) * TILE * a = TILE
    BY <1>4, SMT DEF Sign
  <2> QED
    BY <1>1, <1>4, <2>1, SMT
<1> QED
  BY <1>2, <1>3, <1>4

\* A row of sprites colors the cells of its squares, and reports them.
LEMMA SpriteDraws ==
  ASSUME NEW d \in Draws, d.mode = "sprite", NEW g, Geo(g)
  PROVE  /\ SpriteAddresses(d, g) \subseteq Memory(g.w, g.h)
         /\ \A c \in Cells(g.w, g.h) :
              /\ Address(g.w, c) \in SpriteAddresses(d, g) <=> c \in Meant(d, g)
              /\ c \in Meant(d, g) => In(c, SpriteRect(d))
<1> DEFINE X(i) == d.x + i * StepX(d)
           Y(i) == d.y + i * StepY(d)
           Square(i) == [x1 |-> X(i), y1 |-> Y(i), x2 |-> X(i) + TILE, y2 |-> Y(i) + TILE]
<1>1. /\ TILE \in Nat /\ TILE > 0 /\ g.w \in Nat /\ g.h \in Nat /\ g.w > 0 /\ g.h > 0
      /\ WORD \in Nat
  BY SizeFacts DEF Geo
<1>2. /\ d.x \in Int /\ d.y \in Int /\ d.fx \in BOOLEAN /\ d.fy \in BOOLEAN
      /\ d.mx \in {0, 1} /\ d.my \in {0, 1} /\ d.len \in Nat
  BY DrawFacts
<1>3. /\ 2 * d.x >= -WORD /\ 2 * d.x < WORD /\ 2 * d.y >= -WORD /\ 2 * d.y < WORD
      /\ 2 * (g.w + (d.len + 3) * TILE) <= WORD /\ 2 * (g.h + (d.len + 3) * TILE) <= WORD
  <2>1. ASSUME NEW s \in Sizes
        PROVE  /\ 2 * d.x >= -WORD /\ 2 * d.x < WORD /\ 2 * d.y >= -WORD /\ 2 * d.y < WORD
               /\ 2 * (s[1] + (d.len + 3) * TILE) <= WORD
               /\ 2 * (s[2] + (d.len + 3) * TILE) <= WORD
    BY CursorAssumption
  <2>2. <<g.w, g.h>> \in Sizes
    BY DEF Geo
  <2> QED
    BY <2>1, <2>2
<1>4. d.len * TILE \in Nat /\ (d.len + 3) * TILE = d.len * TILE + 3 * TILE
  <2>1. ASSUME NEW n \in Nat PROVE n * TILE \in Nat /\ (n + 3) * TILE = n * TILE + 3 * TILE
    BY <1>1, SMT
  <2> QED
    BY <1>2, <2>1
<1>5. ASSUME NEW i \in 0 .. d.len
      PROVE  /\ Near(X(i), g.w) /\ Near(Y(i), g.h)
             /\ i * StepX(d) \in Int /\ i * StepY(d) \in Int
             /\ (d.len + 1) * StepX(d) \in Int /\ (d.len + 1) * StepY(d) \in Int
             /\ d.fx => i * StepX(d) <= 0 /\ i * StepX(d) >= (d.len + 1) * StepX(d)
             /\ ~d.fx => i * StepX(d) >= 0 /\ i * StepX(d) <= (d.len + 1) * StepX(d)
             /\ d.fy => i * StepY(d) <= 0 /\ i * StepY(d) >= (d.len + 1) * StepY(d)
             /\ ~d.fy => i * StepY(d) >= 0 /\ i * StepY(d) <= (d.len + 1) * StepY(d)
  <2>1. /\ i * StepX(d) \in Int /\ (d.len + 1) * StepX(d) \in Int
        /\ i * StepX(d) <= d.len * TILE /\ i * StepX(d) >= -(d.len * TILE)
        /\ d.fx => i * StepX(d) <= 0 /\ i * StepX(d) >= (d.len + 1) * StepX(d)
        /\ ~d.fx => i * StepX(d) >= 0 /\ i * StepX(d) <= (d.len + 1) * StepX(d)
    BY <1>1, <1>2, Along DEF StepX
  <2>2. /\ i * StepY(d) \in Int /\ (d.len + 1) * StepY(d) \in Int
        /\ i * StepY(d) <= d.len * TILE /\ i * StepY(d) >= -(d.len * TILE)
        /\ d.fy => i * StepY(d) <= 0 /\ i * StepY(d) >= (d.len + 1) * StepY(d)
        /\ ~d.fy => i * StepY(d) >= 0 /\ i * StepY(d) <= (d.len + 1) * StepY(d)
    BY <1>1, <1>2, Along DEF StepY
  <2>3. ASSUME NEW p \in Int, NEW q \in Int, NEW b \in Nat, NEW w \in Nat, w > 0,
               2 * p >= -WORD, 2 * p < WORD, 2 * (w + (b + 3 * TILE)) <= WORD, q <= b, q >= -b
        PROVE  Near(p + q, w)
    BY <1>1, <2>3, SMT DEF Near
  <2>4. Near(X(i), g.w)
    BY <1>1, <1>2, <1>3, <1>4, <2>1, <2>3
  <2>5. Near(Y(i), g.h)
    BY <1>1, <1>2, <1>3, <1>4, <2>2, <2>3
  <2> QED
    BY <2>1, <2>2, <2>4, <2>5
<1>6. SpriteAddresses(d, g) = UNION {TileAddresses(X(i), Y(i), g) : i \in 0 .. d.len}
  BY DEF SpriteAddresses
<1>7. Meant(d, g) = {c \in Cells(g.w, g.h) : \E i \in 0 .. d.len : In(c, Square(i))}
  BY DEF Meant
<1>8. ASSUME NEW i \in 0 .. d.len
      PROVE  /\ TileAddresses(X(i), Y(i), g) \subseteq Memory(g.w, g.h)
             /\ \A c \in Cells(g.w, g.h) :
                  Address(g.w, c) \in TileAddresses(X(i), Y(i), g) <=> In(c, Square(i))
  BY <1>5, TileDraws
<1>9. ASSUME NEW c \in Cells(g.w, g.h), NEW i \in 0 .. d.len, In(c, Square(i))
      PROVE  In(c, SpriteRect(d))
  <2>1. c[1] \in Int /\ c[2] \in Int
    BY <1>1, SMT DEF Cells
  <2>2. c[1] >= X(i) /\ c[1] < X(i) + TILE /\ c[2] >= Y(i) /\ c[2] < Y(i) + TILE
    BY <1>9 DEF In
  <2> DEFINE p == i * StepX(d)
             q == i * StepY(d)
             u == (d.len + 1) * StepX(d)
             v == (d.len + 1) * StepY(d)
  <2>3. /\ p \in Int /\ q \in Int /\ u \in Int /\ v \in Int
        /\ d.fx => p <= 0 /\ p >= u
        /\ ~d.fx => p >= 0 /\ p <= u
        /\ d.fy => q <= 0 /\ q >= v
        /\ ~d.fy => q >= 0 /\ q <= v
    BY <1>5
  <2>4. SpriteRect(d) =
          [x1 |-> (IF d.fx THEN d.x + u ELSE d.x) - TILE, x2 |-> (IF d.fx THEN d.x ELSE d.x + u) + TILE,
           y1 |-> (IF d.fy THEN d.y + v ELSE d.y) - TILE, y2 |-> (IF d.fy THEN d.y ELSE d.y + v) + TILE]
    BY DEF SpriteRect
  <2>5. c[1] >= d.x + p /\ c[1] < d.x + p + TILE /\ c[2] >= d.y + q /\ c[2] < d.y + q + TILE
    BY <2>2
  <2> HIDE DEF p, q, u, v
  <2> QED
    BY <1>1, <1>2, <2>1, <2>3, <2>4, <2>5, SMT DEF In
<1> HIDE DEF X, Y, Square
<1> QED
  BY <1>6, <1>7, <1>8, <1>9

\* A command that stays in the margins colors the cells it is meant to and reports them.
LEMMA Draw ==
  ASSUME NEW d \in Draws, NEW g, Geo(g), g.h = height, ~Leaves(d, g)
  PROVE  /\ Addresses(d, g) \subseteq Memory(g.w, g.h)
         /\ \A c \in Cells(g.w, g.h) :
              /\ Address(g.w, c) \in Addresses(d, g) <=> c \in Meant(d, g)
              /\ c \in Meant(d, g) => In(c, Rect(d, g))
<1>1. CASE d.mode = "pixel"
  <2>1. /\ Addresses(d, g) = PixelAddresses(d, g) /\ Rect(d, g) = PixelRect(d)
        /\ Meant(d, g) = {<<d.x, d.y>>}
    BY <1>1 DEF Addresses, Rect, Meant
  <2> QED
    BY <2>1, PixelDraws
<1>2. CASE d.mode = "fill"
  <2>1. Addresses(d, g) = FillAddresses(d, g) /\ Rect(d, g) = FillRect(d, g)
        /\ Meant(d, g) = {c \in Cells(g.w, g.h) : In(c, FillRect(d, g))}
    BY <1>2 DEF Addresses, Rect, Meant
  <2> QED
    BY <1>2, <2>1, FillDraws
<1>3. CASE d.mode = "sprite"
  <2>1. Addresses(d, g) = SpriteAddresses(d, g) /\ Rect(d, g) = SpriteRect(d)
    BY <1>3 DEF Addresses, Rect
  <2> QED
    BY <1>3, <2>1, SpriteDraws
<1> QED
  BY <1>1, <1>2, <1>3, DrawFacts
-----------------------------------------------------------------------------
(* Who is where.                                                           *)

\* TypeOK in parts: the size, what is shown, the rectangle, the threads.
SizeType == <<width, height>> \in Sizes /\ generation \in Nat /\ stray \in BOOLEAN
ShownType ==
  /\ layer \in [Layer -> [Memory(width, height) -> Color]] /\ palette \in Palette
  /\ pixels \in [Cells(width, height) -> Content]
DirtyType == dirty \in Place
LoadsType == loads \in Place
PcType ==
  pc \in [Thread -> {"rom", "rdlock", "write", "x1", "y1", "x2", "y2", "unlock", "recolored",
                     "resized", "retexture", "load_y1", "load_x2", "load_y2", "redraw",
                     "reset", "update"}]
HeldType ==
  /\ readers \subseteq Thread /\ writer \in Thread \cup {NoThread}
  /\ op \in [Thread -> Draws \cup {NoOp}]
  /\ geo \in [Thread -> [w : Nat, h : Nat, gen : Nat]]
  /\ issued \in 0 .. MaxIssued
Types == SizeType /\ ShownType /\ DirtyType /\ LoadsType /\ PcType /\ HeldType

\* The places of a command that draws, and those where it has the read lock.
Drawing == {"rdlock", "write", "x1", "y1", "x2", "y2", "unlock"}
Inside  == Drawing \ {"rdlock"}

\* The lock is held by the threads whose places say so, and the loop is main's.
Locks ==
  /\ \A t \in Thread : t \in readers <=> pc[t] \in Inside
  /\ \A t \in Thread : writer = t <=> pc[t] \in {"recolored", "resized", "reset"}
  /\ writer # NoThread => readers = {}
  /\ \A t \in Worker : pc[t] \in Drawing \cup {"rom", "recolored"}

\* A thread that draws has a command, and the size of the allocation it has read.
Commands ==
  \A t \in Thread : pc[t] \in Drawing =>
    /\ op[t] \in Draws
    /\ <<geo[t].w, geo[t].h>> \in Sizes /\ geo[t].gen <= generation
    /\ geo[t].gen = generation => geo[t].w = width /\ geo[t].h = height

\* What a thread has reported of its rectangle is in the dirty one: nobody resets
\* that while somebody has the read lock.
Reported ==
  \A t \in Thread : pc[t] \in Inside =>
    LET r   == Rect(op[t], geo[t])
        all == Fills(t) /\ pc[t] = "write"
    IN /\ all \/ pc[t] \in {"y1", "x2", "y2", "unlock"} => dirty.x1 <= r.x1
       /\ all \/ pc[t] \in {"x2", "y2", "unlock"} => dirty.y1 <= r.y1
       /\ all \/ pc[t] \in {"y2", "unlock"} => dirty.x2 >= r.x2
       /\ all \/ pc[t] = "unlock" => dirty.y2 >= r.y2

OutOfDate(c) == pixels[c] # Picture(c)

\* Somebody has drawn cell c and is still reporting it, or is about to report all.
Pending(c) ==
  \/ \E t \in Thread : pc[t] \in {"recolored", "resized"}
  \/ \E t \in Thread : /\ pc[t] \in {"x1", "y1", "x2", "y2"} /\ ~Fills(t)
                       /\ In(c, Rect(op[t], geo[t]))

\* Every cell that is out of date is in the dirty rectangle or will be, unless a command
\* has strayed.
Covered ==
  ~stray => \A c \in Cells(width, height) : OutOfDate(c) => In(c, dirty) \/ Pending(c)

\* Behind a redraw, before it resets the rectangle, none is.
Copied == pc[Main] = "reset" /\ ~stray => \A c \in Cells(width, height) : ~OutOfDate(c)

\* No thread draws on a layer the screen no longer has, if the ROM sees to it.
Current == ResizeAlone => \A t \in Thread : pc[t] \in Drawing => geo[t].gen = generation

DrawInv == Types /\ Locks /\ Commands /\ Reported /\ Covered /\ Copied /\ Current

\* The rectangle of a command is one.
LEMMA RectType ==
  ASSUME NEW d \in Draws, NEW g, Geo(g)
  PROVE  /\ Rect(d, g).x1 \in Int /\ Rect(d, g).y1 \in Int
         /\ Rect(d, g).x2 \in Int /\ Rect(d, g).y2 \in Int
<1>1. g.w \in Nat /\ g.h \in Nat /\ TILE \in Nat
  BY SizeFacts DEF Geo
<1>2. d.x \in Int /\ d.y \in Int /\ d.len \in Nat /\ d.fx \in BOOLEAN /\ d.fy \in BOOLEAN
      /\ d.mx \in {0, 1} /\ d.my \in {0, 1}
  BY DrawFacts
<1>3. (d.len + 1) * StepX(d) \in Int /\ (d.len + 1) * StepY(d) \in Int
  <2>1. 0 \in 0 .. d.len
    BY <1>2
  <2> QED
    BY <1>1, <1>2, <2>1, Along DEF StepX, StepY
<1>4. CASE d.mode = "pixel"
  BY <1>2, <1>4 DEF Rect, PixelRect
<1>5. CASE d.mode = "fill"
  BY <1>1, <1>2, <1>5 DEF Rect, FillRect
<1>6. CASE d.mode = "sprite"
  <2> DEFINE x == (d.len + 1) * StepX(d)
             y == (d.len + 1) * StepY(d)
  <2>1. x \in Int /\ y \in Int
    BY <1>3
  <2>2. Rect(d, g) =
          [x1 |-> (IF d.fx THEN d.x + x ELSE d.x) - TILE, x2 |-> (IF d.fx THEN d.x ELSE d.x + x) + TILE,
           y1 |-> (IF d.fy THEN d.y + y ELSE d.y) - TILE, y2 |-> (IF d.fy THEN d.y ELSE d.y + y) + TILE]
    BY <1>6 DEF Rect, SpriteRect
  <2> HIDE DEF x, y
  <2> QED
    BY <1>1, <1>2, <2>1, <2>2
<1> QED
  BY <1>4, <1>5, <1>6, DrawFacts

\* A step that changes none of what cells depend on, and nobody who draws or reports
\* all, leaves the cells covered.
LEMMA StillCovered ==
  ASSUME Covered, UNCHANGED <<width, height, layer, palette, pixels, dirty, stray>>,
         \A u \in Thread : pc[u] \in {"recolored", "resized", "x1", "y1", "x2", "y2"}
                             => pc'[u] = pc[u] /\ op'[u] = op[u] /\ geo'[u] = geo[u]
  PROVE  Covered'
<1>1. ASSUME NEW c, Pending(c) PROVE Pending(c)'
  BY <1>1 DEF Pending, Fills
<1>2. \A c : OutOfDate(c)' <=> OutOfDate(c)
  BY DEF OutOfDate, Picture
<1>3. \A c : In(c, dirty)' <=> In(c, dirty)
  BY DEF In
<1>4. Cells(width, height)' = Cells(width, height)
  OBVIOUS
<1> QED
  BY <1>1, <1>2, <1>3, <1>4 DEF Covered

\* Every step keeps it.
LEMMA NextDraw == DrawInv /\ [Next]_vars => DrawInv'
<1> SUFFICES ASSUME DrawInv, [Next]_vars PROVE DrawInv'
  OBVIOUS
<1> USE ThreadAssumption DEF DrawInv, Types, Thread, screen, shown, lock, locals, Goto
<1>1. ASSUME Frame PROVE DrawInv'
  <2> USE <1>1 DEF Frame
  <2>1. SizeType'
    BY DEF SizeType
  <2>2. ShownType'
    BY DEF SizeType, ShownType
  <2>3. DirtyType'
    BY DEF DirtyType, Place
  <2>4. LoadsType'
    BY DEF LoadsType, Place, DirtyType
  <2>5. PcType'
    BY DEF PcType
  <2>6. HeldType'
    BY RomAssumption DEF HeldType
  <2>7. Locks'
    BY DEF PcType, HeldType, Locks, Drawing, Inside
  <2>8. Commands'
    BY DEF PcType, HeldType, Commands, Drawing, Fills
  <2>9. Reported'
    BY DEF PcType, HeldType, Reported, Locks, Drawing, Inside, Fills
  <2>10. Covered'
    <3>1. \A u \in Thread :
            pc[u] \in {"recolored", "resized", "x1", "y1", "x2", "y2"}
              => pc'[u] = pc[u] /\ op'[u] = op[u] /\ geo'[u] = geo[u]
      BY DEF PcType, HeldType
    <3> QED
      BY <3>1, StillCovered
  <2>11. Copied'
    BY DEF PcType, HeldType, Copied, OutOfDate, Picture, Locks, Drawing, Inside
  <2>12. Current'
    BY DEF PcType, HeldType, Current, Locks, Drawing
  <2> QED
    BY <2>1, <2>2, <2>3, <2>4, <2>5, <2>6, <2>7, <2>8, <2>9, <2>10, <2>11, <2>12
<1>2. ASSUME Load PROVE DrawInv'
  <2> USE <1>2 DEF Load, NoLoads
  <2>1. SizeType'
    BY DEF SizeType
  <2>2. ShownType'
    BY DEF SizeType, ShownType
  <2>3. DirtyType'
    BY DEF DirtyType, Place
  <2>4. LoadsType'
    BY DEF LoadsType, DirtyType, PcType, Place
  <2>5. PcType'
    BY DEF PcType
  <2>6. HeldType'
    BY RomAssumption DEF HeldType
  <2>7. Locks'
    BY DEF PcType, HeldType, Locks, Drawing, Inside
  <2>8. Commands'
    BY DEF PcType, HeldType, Commands, Drawing, Fills
  <2>9. Reported'
    BY DEF PcType, HeldType, Reported, Locks, Drawing, Inside, Fills
  <2>10. Covered'
    <3>1. \A u \in Thread :
            pc[u] \in {"recolored", "resized", "x1", "y1", "x2", "y2"}
              => pc'[u] = pc[u] /\ op'[u] = op[u] /\ geo'[u] = geo[u]
      BY DEF PcType, HeldType
    <3> QED
      BY <3>1, StillCovered
  <2>11. Copied'
    BY DEF PcType, HeldType, Copied, OutOfDate, Picture, Locks, Drawing, Inside
  <2>12. Current'
    BY DEF PcType, HeldType, Current, Locks, Drawing
  <2> QED
    BY <2>1, <2>2, <2>3, <2>4, <2>5, <2>6, <2>7, <2>8, <2>9, <2>10, <2>11, <2>12
<1>3. ASSUME RedrawCopy PROVE DrawInv'
  <2> USE <1>3 DEF RedrawCopy, Exclusive
  <2>0. ~stray => \A c \in Cells(width, height) : pixels'[c] = Picture(c)
    <3>1. \A c \in Cells(width, height) : ~Pending(c)
      BY DEF Pending, Locks, Inside, Drawing
    <3>2. /\ width \in Nat /\ height \in Nat
          /\ dirty.x1 \in Int /\ dirty.y1 \in Int /\ dirty.x2 \in Int /\ dirty.y2 \in Int
      BY SizeFacts DEF SizeType, DirtyType, Place
    <3>3. ASSUME NEW c \in Cells(width, height), In(c, dirty)
          PROVE  c \in (Clamp(dirty.x1, 0, width) .. Clamp(dirty.x2, 0, width) - 1)
                       \X (Clamp(dirty.y1, 0, height) .. Clamp(dirty.y2, 0, height) - 1)
      <4>1. c[1] \in 0 .. width - 1 /\ c[2] \in 0 .. height - 1 /\ c = <<c[1], c[2]>>
        BY DEF Cells
      <4>2. /\ c[1] \in Clamp(dirty.x1, 0, width) .. Clamp(dirty.x2, 0, width) - 1
            /\ c[2] \in Clamp(dirty.y1, 0, height) .. Clamp(dirty.y2, 0, height) - 1
        BY <3>2, <3>3, <4>1, SMT DEF In, Clamp
      <4> QED
        BY <4>1, <4>2
    <3>4. ASSUME ~stray, NEW c \in Cells(width, height) PROVE pixels'[c] = Picture(c)
      <4>1. pixels[c] # Picture(c) => In(c, dirty)
        BY <3>1, <3>4 DEF Covered, OutOfDate
      <4> QED
        BY <3>3, <4>1 DEF ShownType
    <3> QED
      BY <3>4
  <2>1. SizeType'
    BY DEF SizeType
  <2>2. ShownType'
    <3>1. ASSUME NEW c \in Cells(width, height) PROVE Picture(c) \in Content
      <4>1. Address(width, c) \in Memory(width, height)
        BY CellInMemory DEF SizeType
      <4> QED
        BY <4>1 DEF ShownType, Picture, Content
    <3> DEFINE box == (Clamp(dirty.x1, 0, width) .. Clamp(dirty.x2, 0, width) - 1)
                      \X (Clamp(dirty.y1, 0, height) .. Clamp(dirty.y2, 0, height) - 1)
    <3>2. pixels' = [c \in Cells(width, height) |-> IF c \in box THEN Picture(c) ELSE pixels[c]]
      BY DEF ShownType
    <3>3. pixels \in [Cells(width, height) -> Content]
      BY DEF ShownType
    <3> HIDE DEF box
    <3>4. pixels' \in [Cells(width, height) -> Content]
      BY <3>1, <3>2, <3>3
    <3> QED
      BY <3>4 DEF ShownType
  <2>3. DirtyType'
    BY DEF DirtyType, Place
  <2>4. LoadsType'
    BY DEF LoadsType, Place, DirtyType
  <2>5. PcType'
    BY DEF PcType
  <2>6. HeldType'
    BY RomAssumption DEF HeldType
  <2>7. Locks'
    BY DEF PcType, HeldType, Locks, Drawing, Inside
  <2>8. Commands'
    BY DEF PcType, HeldType, Commands, Drawing, Fills
  <2>9. Reported'
    BY DEF PcType, HeldType, Reported, Locks, Drawing, Inside, Fills
  <2>10. Covered'
    BY <2>0 DEF Covered, OutOfDate, Picture
  <2>11. Copied'
    BY <2>0 DEF Copied, OutOfDate, Picture
  <2>12. Current'
    BY DEF PcType, HeldType, Current, Locks, Drawing
  <2> QED
    BY <2>1, <2>2, <2>3, <2>4, <2>5, <2>6, <2>7, <2>8, <2>9, <2>10, <2>11, <2>12
<1>4. ASSUME RedrawEnd PROVE DrawInv'
  <2> USE <1>4 DEF RedrawEnd, Nothing
  <2>1. SizeType'
    BY DEF SizeType
  <2>2. ShownType'
    BY DEF SizeType, ShownType
  <2>3. DirtyType'
    BY SizeAssumption DEF DirtyType, Place
  <2>4. LoadsType'
    BY DEF LoadsType, Place, DirtyType
  <2>5. PcType'
    BY DEF PcType
  <2>6. HeldType'
    BY RomAssumption DEF HeldType
  <2>7. Locks'
    BY DEF PcType, HeldType, Locks, Drawing, Inside
  <2>8. Commands'
    BY DEF PcType, HeldType, Commands, Drawing, Fills
  <2>9. Reported'
    BY DEF PcType, HeldType, Reported, Locks, Drawing, Inside, Fills
  <2>10. Covered'
    <3>1. ~stray => \A c \in Cells(width, height) : ~OutOfDate(c)
      BY DEF Copied
    <3> QED
      BY <3>1 DEF Covered, OutOfDate, Picture
  <2>11. Copied'
    BY DEF PcType, HeldType, Copied, OutOfDate, Picture, Locks, Drawing, Inside
  <2>12. Current'
    BY DEF PcType, HeldType, Current, Locks, Drawing
  <2> QED
    BY <2>1, <2>2, <2>3, <2>4, <2>5, <2>6, <2>7, <2>8, <2>9, <2>10, <2>11, <2>12
<1>5. ASSUME EmuRedraw PROVE DrawInv'
  <2> USE <1>5 DEF EmuRedraw
  <2>1. SizeType'
    BY DEF SizeType
  <2>2. ShownType'
    BY DEF SizeType, ShownType
  <2>3. DirtyType'
    BY DEF DirtyType, Place
  <2>4. LoadsType'
    BY DEF LoadsType, Place, DirtyType
  <2>5. PcType'
    BY DEF PcType
  <2>6. HeldType'
    BY RomAssumption DEF HeldType
  <2>7. Locks'
    BY DEF PcType, HeldType, Locks, Drawing, Inside
  <2>8. Commands'
    BY DEF PcType, HeldType, Commands, Drawing, Fills
  <2>9. Reported'
    BY DEF PcType, HeldType, Reported, Locks, Drawing, Inside, Fills
  <2>10. Covered'
    <3>1. \A u \in Thread :
            pc[u] \in {"recolored", "resized", "x1", "y1", "x2", "y2"}
              => pc'[u] = pc[u] /\ op'[u] = op[u] /\ geo'[u] = geo[u]
      BY DEF PcType, HeldType
    <3> QED
      BY <3>1, StillCovered
  <2>11. Copied'
    BY DEF PcType, HeldType, Copied, OutOfDate, Picture, Locks, Drawing, Inside
  <2>12. Current'
    BY DEF PcType, HeldType, Current, Locks, Drawing
  <2> QED
    BY <2>1, <2>2, <2>3, <2>4, <2>5, <2>6, <2>7, <2>8, <2>9, <2>10, <2>11, <2>12
<1>6. ASSUME Expose PROVE DrawInv'
  <2> USE <1>6 DEF Expose
  <2>1. SizeType'
    BY DEF SizeType
  <2>2. ShownType'
    BY DEF SizeType, ShownType
  <2>3. DirtyType'
    BY DEF DirtyType, Place
  <2>4. LoadsType'
    BY DEF LoadsType, Place, DirtyType
  <2>5. PcType'
    BY DEF PcType
  <2>6. HeldType'
    BY RomAssumption DEF HeldType
  <2>7. Locks'
    BY DEF PcType, HeldType, Locks, Drawing, Inside
  <2>8. Commands'
    BY DEF PcType, HeldType, Commands, Drawing, Fills
  <2>9. Reported'
    BY DEF PcType, HeldType, Reported, Locks, Drawing, Inside, Fills
  <2>10. Covered'
    <3>1. \A u \in Thread :
            pc[u] \in {"recolored", "resized", "x1", "y1", "x2", "y2"}
              => pc'[u] = pc[u] /\ op'[u] = op[u] /\ geo'[u] = geo[u]
      BY DEF PcType, HeldType
    <3> QED
      BY <3>1, StillCovered
  <2>11. Copied'
    BY DEF PcType, HeldType, Copied, OutOfDate, Picture, Locks, Drawing, Inside
  <2>12. Current'
    BY DEF PcType, HeldType, Current, Locks, Drawing
  <2> QED
    BY <2>1, <2>2, <2>3, <2>4, <2>5, <2>6, <2>7, <2>8, <2>9, <2>10, <2>11, <2>12
<1>7. ASSUME NEW s \in Sizes, ScreenResize(s[1], s[2]) PROVE DrawInv'
  <2> USE <1>7 DEF ScreenResize, Exclusive
  <2>1. SizeType'
    BY SizeAssumption DEF SizeType
  <2>2. ShownType'
    <3>1. \A w, h : Blank(w, h) \in [Layer -> [Memory(w, h) -> Color]]
      BY ColorAssumption DEF Blank
    <3>2. \A w, h : AllStale(w, h) \in [Cells(w, h) -> Content]
      BY DEF AllStale, Content
    <3> QED
      BY <3>1, <3>2 DEF ShownType
  <2>3. DirtyType'
    BY DEF DirtyType, Place
  <2>4. LoadsType'
    BY DEF LoadsType, Place, DirtyType
  <2>5. PcType'
    BY DEF PcType
  <2>6. HeldType'
    BY RomAssumption DEF HeldType
  <2>7. Locks'
    BY DEF PcType, HeldType, Locks, Drawing, Inside
  <2>8. Commands'
    <3>1. generation \in Nat /\ \A t \in Thread : pc[t] \in Drawing => geo[t].gen \in Nat
      BY DEF SizeType, HeldType
    <3>2. \A t \in Thread : pc'[t] \in Drawing => pc[t] \in Drawing
      BY DEF PcType, Drawing
    <3> QED
      BY <3>1, <3>2 DEF Commands, Fills
  <2>9. Reported'
    BY DEF PcType, HeldType, Reported, Locks, Drawing, Inside, Fills
  <2>10. Covered'
    BY DEF PcType, Covered, Pending
  <2>11. Copied'
    BY DEF PcType, HeldType, Copied, OutOfDate, Picture, Locks, Drawing, Inside
  <2>12. Current'
    BY DEF PcType, HeldType, Current, Locks, Drawing
  <2> QED
    BY <2>1, <2>2, <2>3, <2>4, <2>5, <2>6, <2>7, <2>8, <2>9, <2>10, <2>11, <2>12
<1>8. ASSUME NEW s \in Sizes, ResizeFail(s[1], s[2]) PROVE DrawInv'
  <2> USE <1>8 DEF ResizeFail
  <2>1. SizeType'
    BY DEF SizeType
  <2>2. ShownType'
    BY DEF SizeType, ShownType
  <2>3. DirtyType'
    BY DEF DirtyType, Place
  <2>4. LoadsType'
    BY DEF LoadsType, Place, DirtyType
  <2>5. PcType'
    BY DEF PcType
  <2>6. HeldType'
    BY RomAssumption DEF HeldType
  <2>7. Locks'
    BY DEF PcType, HeldType, Locks, Drawing, Inside
  <2>8. Commands'
    BY DEF PcType, HeldType, Commands, Drawing, Fills
  <2>9. Reported'
    BY DEF PcType, HeldType, Reported, Locks, Drawing, Inside, Fills
  <2>10. Covered'
    <3>1. \A u \in Thread :
            pc[u] \in {"recolored", "resized", "x1", "y1", "x2", "y2"}
              => pc'[u] = pc[u] /\ op'[u] = op[u] /\ geo'[u] = geo[u]
      BY DEF PcType, HeldType
    <3> QED
      BY <3>1, StillCovered
  <2>11. Copied'
    BY DEF PcType, HeldType, Copied, OutOfDate, Picture, Locks, Drawing, Inside
  <2>12. Current'
    BY DEF PcType, HeldType, Current, Locks, Drawing
  <2> QED
    BY <2>1, <2>2, <2>3, <2>4, <2>5, <2>6, <2>7, <2>8, <2>9, <2>10, <2>11, <2>12
<1>9. ASSUME NEW t \in Thread, NEW d \in Draws, Deo(t, d) PROVE DrawInv'
  <2> USE <1>9 DEF Deo, Resizing
  <2>1. SizeType'
    BY DEF SizeType
  <2>2. ShownType'
    BY DEF SizeType, ShownType
  <2>3. DirtyType'
    BY DEF DirtyType, Place
  <2>4. LoadsType'
    BY DEF LoadsType, Place, DirtyType
  <2>5. PcType'
    BY DEF PcType
  <2>6. HeldType'
    BY RomAssumption, SizeFacts DEF HeldType, SizeType
  <2>7. Locks'
    BY DEF PcType, HeldType, Locks, Drawing, Inside
  <2>8. Commands'
    <3>1. generation \in Nat /\ <<width, height>> \in Sizes
      BY DEF SizeType
    <3>2. \A u \in Thread \ {t} : pc'[u] = pc[u] /\ op'[u] = op[u] /\ geo'[u] = geo[u]
      BY DEF PcType, HeldType
    <3>3. op'[t] = d /\ geo'[t] = [w |-> width, h |-> height, gen |-> generation]
      BY DEF HeldType
    <3> QED
      BY <3>1, <3>2, <3>3 DEF Commands, Fills
  <2>9. Reported'
    BY DEF PcType, HeldType, Reported, Locks, Drawing, Inside, Fills
  <2>10. Covered'
    <3>1. \A u \in Thread :
            pc[u] \in {"recolored", "resized", "x1", "y1", "x2", "y2"}
              => pc'[u] = pc[u] /\ op'[u] = op[u] /\ geo'[u] = geo[u]
      BY DEF PcType, HeldType
    <3> QED
      BY <3>1, StillCovered
  <2>11. Copied'
    BY DEF PcType, HeldType, Copied, OutOfDate, Picture, Locks, Drawing, Inside
  <2>12. Current'
    BY DEF PcType, HeldType, Current, Locks, Drawing
  <2> QED
    BY <2>1, <2>2, <2>3, <2>4, <2>5, <2>6, <2>7, <2>8, <2>9, <2>10, <2>11, <2>12
<1>10. ASSUME NEW t \in Thread, NEW p \in Palette, ScreenPalette(t, p) PROVE DrawInv'
  <2> USE <1>10 DEF ScreenPalette, Exclusive
  <2>1. SizeType'
    BY DEF SizeType
  <2>2. ShownType'
    BY DEF SizeType, ShownType
  <2>3. DirtyType'
    BY DEF DirtyType, Place
  <2>4. LoadsType'
    BY DEF LoadsType, Place, DirtyType
  <2>5. PcType'
    BY DEF PcType
  <2>6. HeldType'
    BY RomAssumption DEF HeldType
  <2>7. Locks'
    BY DEF PcType, HeldType, Locks, Drawing, Inside
  <2>8. Commands'
    BY DEF PcType, HeldType, Commands, Drawing, Fills
  <2>9. Reported'
    BY DEF PcType, HeldType, Reported, Locks, Drawing, Inside, Fills
  <2>10. Covered'
    BY DEF PcType, Covered, Pending
  <2>11. Copied'
    BY DEF PcType, HeldType, Copied, OutOfDate, Picture, Locks, Drawing, Inside
  <2>12. Current'
    BY DEF PcType, HeldType, Current, Locks, Drawing
  <2> QED
    BY <2>1, <2>2, <2>3, <2>4, <2>5, <2>6, <2>7, <2>8, <2>9, <2>10, <2>11, <2>12
<1>11. ASSUME NEW t \in Thread, RdLock(t) PROVE DrawInv'
  <2> USE <1>11 DEF RdLock
  <2>1. SizeType'
    BY DEF SizeType
  <2>2. ShownType'
    BY DEF SizeType, ShownType
  <2>3. DirtyType'
    BY DEF DirtyType, Place
  <2>4. LoadsType'
    BY DEF LoadsType, Place, DirtyType
  <2>5. PcType'
    BY DEF PcType
  <2>6. HeldType'
    BY RomAssumption DEF HeldType
  <2>7. Locks'
    BY DEF PcType, HeldType, Locks, Drawing, Inside
  <2>8. Commands'
    BY DEF PcType, HeldType, Commands, Drawing, Fills
  <2>9. Reported'
    BY DEF PcType, HeldType, Reported, Locks, Drawing, Inside, Fills
  <2>10. Covered'
    <3>1. \A u \in Thread :
            pc[u] \in {"recolored", "resized", "x1", "y1", "x2", "y2"}
              => pc'[u] = pc[u] /\ op'[u] = op[u] /\ geo'[u] = geo[u]
      BY DEF PcType, HeldType
    <3> QED
      BY <3>1, StillCovered
  <2>11. Copied'
    BY DEF PcType, HeldType, Copied, OutOfDate, Picture, Locks, Drawing, Inside
  <2>12. Current'
    BY DEF PcType, HeldType, Current, Locks, Drawing
  <2> QED
    BY <2>1, <2>2, <2>3, <2>4, <2>5, <2>6, <2>7, <2>8, <2>9, <2>10, <2>11, <2>12
<1>12. ASSUME NEW t \in Thread, Write(t) PROVE DrawInv'
  <2> USE <1>12 DEF Write
  <2>1. SizeType'
    BY DEF SizeType
  <2>2. ShownType'
    <3>1. op[t].color \in Color
      BY DrawFacts DEF Commands, Drawing
    <3>2. layer' = layer \/ layer' = [layer EXCEPT ![op[t].layer] =
                                        [a \in DOMAIN layer[op[t].layer] |->
                                           IF a \in Addresses(op[t], geo[t]) THEN op[t].color
                                           ELSE layer[op[t].layer][a]]]
      OBVIOUS
    <3>3. op[t].layer \in Layer
      BY DrawFacts DEF Commands, Drawing
    <3>4. layer \in [Layer -> [Memory(width, height) -> Color]]
      BY DEF ShownType
    <3>5. layer' \in [Layer -> [Memory(width, height) -> Color]]
      BY <3>1, <3>2, <3>3, <3>4
    <3> QED
      BY <3>5 DEF ShownType
  <2>3. DirtyType'
    BY DEF DirtyType, Place
  <2>4. LoadsType'
    BY DEF LoadsType, Place, DirtyType
  <2>5. PcType'
    BY DEF PcType
  <2>6. HeldType'
    BY RomAssumption DEF HeldType
  <2>7. Locks'
    BY DEF PcType, HeldType, Locks, Drawing, Inside
  <2>8. Commands'
    BY DEF PcType, HeldType, Commands, Drawing, Fills
  <2>9. Reported'
    BY DEF PcType, HeldType, Reported, Locks, Drawing, Inside, Fills
  <2>10. Covered'
    <3>1. /\ op[t] \in Draws /\ op[t].layer \in Layer /\ Geo(geo[t]) /\ pc[t] = "write"
      BY DrawFacts DEF Commands, Drawing, Geo, HeldType
    <3> SUFFICES ASSUME ~stray' PROVE Covered'
      BY DEF Covered
    <3>2. ~stray /\ ~Leaves(op[t], geo[t])
      OBVIOUS
    <3>3. ASSUME NEW c \in Cells(width, height), ~OutOfDate(c), (OutOfDate(c))'
          PROVE  In(c, Rect(op[t], geo[t]))
      <4>1. geo[t].gen = generation /\ geo[t].w = width /\ geo[t].h = height
        BY <3>3 DEF OutOfDate, Picture, Commands, Drawing
      <4>2. Address(width, c) \in Addresses(op[t], geo[t])
        <5> SUFFICES ASSUME Address(width, c) \notin Addresses(op[t], geo[t]) PROVE FALSE
          OBVIOUS
        <5>1. Address(width, c) \in Memory(width, height)
          BY CellInMemory DEF SizeType
        <5>2. layer' = [layer EXCEPT ![op[t].layer] =
                          [a \in Memory(width, height) |->
                             IF a \in Addresses(op[t], geo[t]) THEN op[t].color
                             ELSE layer[op[t].layer][a]]]
          BY <3>1, <4>1 DEF ShownType
        <5>3. \A l \in Layer : layer'[l][Address(width, c)] = layer[l][Address(width, c)]
          BY <5>1, <5>2, <3>1 DEF ShownType
        <5>4. pixels' = pixels /\ palette' = palette /\ width' = width
          OBVIOUS
        <5> QED
          BY <3>3, <5>3, <5>4 DEF OutOfDate, Picture, Address
      <4> QED
        BY <3>1, <3>2, <4>1, <4>2, Draw
    <3>4. CASE Fills(t)
      <4>1. /\ dirty.x1 <= Rect(op[t], geo[t]).x1 /\ dirty.y1 <= Rect(op[t], geo[t]).y1
            /\ dirty.x2 >= Rect(op[t], geo[t]).x2 /\ dirty.y2 >= Rect(op[t], geo[t]).y2
        BY <3>1, <3>4 DEF Reported, Inside, Drawing
      <4>2. ASSUME NEW c \in Cells(width, height), In(c, Rect(op[t], geo[t])) PROVE In(c, dirty)
        <5>1. c[1] \in Int /\ c[2] \in Int
          BY SizeFacts, SMT DEF Cells, SizeType
        <5>2. /\ dirty.x1 \in Int /\ dirty.y1 \in Int /\ dirty.x2 \in Int /\ dirty.y2 \in Int
          BY DEF DirtyType, Place
        <5> DEFINE r == Rect(op[t], geo[t])
        <5>3. /\ r.x1 \in Int /\ r.y1 \in Int /\ r.x2 \in Int /\ r.y2 \in Int
          BY <3>1, RectType
        <5>4. c[1] >= r.x1 /\ c[1] < r.x2 /\ c[2] >= r.y1 /\ c[2] < r.y2
          BY <4>2 DEF In
        <5>5. dirty.x1 <= r.x1 /\ dirty.y1 <= r.y1 /\ dirty.x2 >= r.x2 /\ dirty.y2 >= r.y2
          BY <4>1
        <5> HIDE DEF r
        <5> QED
          BY <5>1, <5>2, <5>3, <5>4, <5>5, SMT DEF In
      <4>3. \A c : Pending(c) => Pending(c)'
        BY <3>1 DEF Pending, Fills, PcType
      <4>4. Cells(width, height)' = Cells(width, height) /\ dirty' = dirty
        BY DEF Cells
      <4> QED
        BY <3>3, <3>2, <4>2, <4>3, <4>4 DEF Covered, In
    <3>5. CASE ~Fills(t)
      <4>1. \A c : Pending(c) => Pending(c)'
        BY <3>1 DEF Pending, Fills, PcType
      <4>2. \A c : In(c, Rect(op[t], geo[t])) => Pending(c)'
        BY <3>1, <3>5 DEF Pending, Fills, PcType
      <4>3. Cells(width, height)' = Cells(width, height) /\ dirty' = dirty
        BY DEF Cells
      <4> QED
        BY <3>3, <3>2, <4>1, <4>2, <4>3 DEF Covered, In
    <3> QED
      BY <3>4, <3>5
  <2>11. Copied'
    BY DEF PcType, HeldType, Copied, OutOfDate, Picture, Locks, Drawing, Inside
  <2>12. Current'
    BY DEF PcType, HeldType, Current, Locks, Drawing
  <2> QED
    BY <2>1, <2>2, <2>3, <2>4, <2>5, <2>6, <2>7, <2>8, <2>9, <2>10, <2>11, <2>12
<1>13. ASSUME NEW t \in Thread, ScreenChange(t) PROVE DrawInv'
  <2> USE <1>13 DEF ScreenChange, Change
  <2> DEFINE r == Rect(op[t], geo[t])
  <2>a. /\ r.x1 \in Int /\ r.y1 \in Int /\ r.x2 \in Int /\ r.y2 \in Int
    BY RectType DEF Commands, Drawing, Geo, HeldType, PcType
  <2>b. /\ dirty \in Place
        /\ dirty.x1 \in Int /\ dirty.y1 \in Int /\ dirty.x2 \in Int /\ dirty.y2 \in Int
    BY DEF DirtyType, Place
  <2>c. /\ dirty'.x1 \in Int /\ dirty'.y1 \in Int /\ dirty'.x2 \in Int /\ dirty'.y2 \in Int
        /\ dirty'.x1 <= dirty.x1 /\ dirty'.y1 <= dirty.y1
        /\ dirty'.x2 >= dirty.x2 /\ dirty'.y2 >= dirty.y2
    <3> HIDE DEF r
    <3> QED
      BY <2>a, <2>b DEF Place, Less, More, r
  <2>1. SizeType'
    BY DEF SizeType
  <2>2. ShownType'
    BY DEF SizeType, ShownType
  <2>3. DirtyType'
    <3> HIDE DEF r
    <3> QED
      BY <2>a, <2>b DEF DirtyType, Place, Less, More, r
  <2>4. LoadsType'
    BY DEF LoadsType, Place, DirtyType
  <2>5. PcType'
    BY DEF PcType
  <2>6. HeldType'
    BY RomAssumption DEF HeldType
  <2>7. Locks'
    BY DEF PcType, HeldType, Locks, Drawing, Inside
  <2>8. Commands'
    BY DEF PcType, HeldType, Commands, Drawing, Fills
  <2>9. Reported'
    <3>4. /\ pc[t] = "x1" => dirty'.x1 <= r.x1 /\ pc'[t] = "y1"
          /\ pc[t] = "y1" => dirty'.y1 <= r.y1 /\ pc'[t] = "x2"
          /\ pc[t] = "x2" => dirty'.x2 >= r.x2 /\ pc'[t] = "y2"
          /\ pc[t] = "y2" => dirty'.y2 >= r.y2 /\ pc'[t] = IF Fills(t) THEN "write" ELSE "unlock"
          /\ pc[t] \in {"x1", "y1", "x2", "y2"}
      <4> HIDE DEF r
      <4> QED
        BY <2>a, <2>b DEF PcType, Place, Less, More, r
    <3>5. \A u \in Thread \ {t} : pc'[u] = pc[u]
      BY DEF PcType
    <3>6. ASSUME NEW u \in Thread, pc[u] \in Inside
          PROVE  /\ Rect(op[u], geo[u]).x1 \in Int /\ Rect(op[u], geo[u]).y1 \in Int
                 /\ Rect(op[u], geo[u]).x2 \in Int /\ Rect(op[u], geo[u]).y2 \in Int
      BY <3>6, RectType DEF Commands, Drawing, Inside, Geo, HeldType
    <3> SUFFICES ASSUME NEW u \in Thread, pc'[u] \in Inside
                 PROVE  LET q   == Rect(op[u], geo[u])
                            all == Fills(u) /\ pc'[u] = "write"
                        IN /\ all \/ pc'[u] \in {"y1", "x2", "y2", "unlock"} => dirty'.x1 <= q.x1
                           /\ all \/ pc'[u] \in {"x2", "y2", "unlock"} => dirty'.y1 <= q.y1
                           /\ all \/ pc'[u] \in {"y2", "unlock"} => dirty'.x2 >= q.x2
                           /\ all \/ pc'[u] = "unlock" => dirty'.y2 >= q.y2
      BY DEF Reported, Fills
    <3>7. pc[u] \in Inside
      BY <3>4, <3>5 DEF Inside, Drawing
    <3>8. CASE u = t
      <4> HIDE DEF r
      <4> QED
        BY <2>a, <2>b, <2>c, <3>4, <3>7, <3>8 DEF Reported, r
    <3>9. CASE u # t
      BY <2>b, <2>c, <3>5, <3>6, <3>7, <3>9 DEF Reported
    <3> QED
      BY <3>8, <3>9
  <2>10. Covered'
    <3> SUFFICES ASSUME ~stray, NEW c \in Cells(width, height), OutOfDate(c)
                 PROVE  In(c, dirty') \/ Pending(c)'
      BY DEF Covered, OutOfDate, Picture, In
    <3>4. c[1] \in Int /\ c[2] \in Int
      BY SizeFacts, SMT DEF Cells, SizeType
    <3>5. CASE In(c, dirty)
      BY <2>b, <2>c, <3>4, <3>5, SMT DEF In
    <3>6. CASE \E u \in Thread : pc[u] \in {"recolored", "resized"}
      BY <3>6 DEF Pending, PcType
    <3>7. ASSUME NEW u \in Thread, pc[u] \in {"x1", "y1", "x2", "y2"}, ~Fills(u),
                 In(c, Rect(op[u], geo[u]))
          PROVE  In(c, dirty') \/ Pending(c)'
      <4>1. CASE u = t /\ pc[t] = "y2"
        <5>1. dirty.x1 <= r.x1 /\ dirty.y1 <= r.y1 /\ dirty.x2 >= r.x2
          BY <4>1 DEF Reported, Inside, Drawing
        <5>2. c[1] >= r.x1 /\ c[1] < r.x2 /\ c[2] >= r.y1 /\ c[2] < r.y2
          BY <3>7, <4>1 DEF In
        <5>3. dirty' = [dirty EXCEPT !.y2 = More(dirty.y2, r.y2)]
          BY <4>1
        <5> HIDE DEF r
        <5>4. dirty'.y2 >= r.y2
          BY <2>a, <2>b, <5>3 DEF Place, More
        <5> QED
          BY <2>a, <2>b, <2>c, <3>4, <5>1, <5>2, <5>4, SMT DEF In
      <4>2. CASE ~(u = t /\ pc[t] = "y2")
        <5>1. pc'[u] \in {"x1", "y1", "x2", "y2"} /\ op'[u] = op[u] /\ geo'[u] = geo[u]
          BY <3>7, <4>2 DEF PcType
        <5> QED
          BY <3>7, <5>1 DEF Pending, Fills
      <4> QED
        BY <4>1, <4>2
    <3> QED
      BY <3>5, <3>6, <3>7 DEF Covered, Pending
  <2>11. Copied'
    BY DEF PcType, HeldType, Copied, OutOfDate, Picture, Locks, Drawing, Inside
  <2>12. Current'
    BY DEF PcType, HeldType, Current, Locks, Drawing
  <2> QED
    BY <2>1, <2>2, <2>3, <2>4, <2>5, <2>6, <2>7, <2>8, <2>9, <2>10, <2>11, <2>12
<1>14. ASSUME NEW t \in Thread, RdUnlock(t) PROVE DrawInv'
  <2> USE <1>14 DEF RdUnlock, NoOp, NoGeo
  <2>1. SizeType'
    BY DEF SizeType
  <2>2. ShownType'
    BY DEF SizeType, ShownType
  <2>3. DirtyType'
    BY DEF DirtyType, Place
  <2>4. LoadsType'
    BY DEF LoadsType, Place, DirtyType
  <2>5. PcType'
    BY DEF PcType
  <2>6. HeldType'
    BY RomAssumption DEF HeldType
  <2>7. Locks'
    BY DEF PcType, HeldType, Locks, Drawing, Inside
  <2>8. Commands'
    BY DEF PcType, HeldType, Commands, Drawing, Fills
  <2>9. Reported'
    BY DEF PcType, HeldType, Reported, Locks, Drawing, Inside, Fills
  <2>10. Covered'
    <3>1. \A u \in Thread :
            pc[u] \in {"recolored", "resized", "x1", "y1", "x2", "y2"}
              => pc'[u] = pc[u] /\ op'[u] = op[u] /\ geo'[u] = geo[u]
      BY DEF PcType, HeldType
    <3> QED
      BY <3>1, StillCovered
  <2>11. Copied'
    BY DEF PcType, HeldType, Copied, OutOfDate, Picture, Locks, Drawing, Inside
  <2>12. Current'
    BY DEF PcType, HeldType, Current, Locks, Drawing
  <2> QED
    BY <2>1, <2>2, <2>3, <2>4, <2>5, <2>6, <2>7, <2>8, <2>9, <2>10, <2>11, <2>12
<1>15. ASSUME NEW t \in Thread, PaletteEnd(t) PROVE DrawInv'
  <2> USE <1>15 DEF PaletteEnd
  <2>1. SizeType'
    BY DEF SizeType
  <2>2. ShownType'
    BY DEF SizeType, ShownType
  <2>3. DirtyType'
    <3>1. width \in Nat /\ height \in Nat
      BY SizeFacts DEF SizeType
    <3> QED
      BY <3>1 DEF DirtyType, Place, Widened, Everything, Less, More
  <2>4. LoadsType'
    BY DEF LoadsType, Place, DirtyType
  <2>5. PcType'
    BY DEF PcType
  <2>6. HeldType'
    BY RomAssumption DEF HeldType
  <2>7. Locks'
    BY DEF PcType, HeldType, Locks, Drawing, Inside
  <2>8. Commands'
    BY DEF PcType, HeldType, Commands, Drawing, Fills
  <2>9. Reported'
    BY DEF PcType, HeldType, Reported, Locks, Drawing, Inside, Fills
  <2>10. Covered'
    <3>1. width \in Nat /\ height \in Nat
      BY SizeFacts DEF SizeType
    <3>2. /\ dirty.x1 \in Int /\ dirty.y1 \in Int /\ dirty.x2 \in Int /\ dirty.y2 \in Int
      BY DEF DirtyType, Place
    <3>3. ASSUME NEW c \in Cells(width, height) PROVE In(c, dirty')
      <4>1. c[1] \in 0 .. width - 1 /\ c[2] \in 0 .. height - 1
        BY DEF Cells
      <4> QED
        BY <3>1, <3>2, <4>1, SMT DEF In, Widened, Everything, Less, More
    <3> QED
      BY <3>3 DEF Covered, In
  <2>11. Copied'
    BY DEF PcType, HeldType, Copied, OutOfDate, Picture, Locks, Drawing, Inside
  <2>12. Current'
    BY DEF PcType, HeldType, Current, Locks, Drawing
  <2> QED
    BY <2>1, <2>2, <2>3, <2>4, <2>5, <2>6, <2>7, <2>8, <2>9, <2>10, <2>11, <2>12
<1>16. ASSUME NEW t \in Thread, ResizeEnd(t) PROVE DrawInv'
  <2> USE <1>16 DEF ResizeEnd
  <2>1. SizeType'
    BY DEF SizeType
  <2>2. ShownType'
    BY DEF SizeType, ShownType
  <2>3. DirtyType'
    <3>1. width \in Nat /\ height \in Nat
      BY SizeFacts DEF SizeType
    <3> QED
      BY <3>1 DEF DirtyType, Place, Widened, Everything, Less, More
  <2>4. LoadsType'
    BY DEF LoadsType, Place, DirtyType
  <2>5. PcType'
    BY DEF PcType
  <2>6. HeldType'
    BY RomAssumption DEF HeldType
  <2>7. Locks'
    BY DEF PcType, HeldType, Locks, Drawing, Inside
  <2>8. Commands'
    BY DEF PcType, HeldType, Commands, Drawing, Fills
  <2>9. Reported'
    BY DEF PcType, HeldType, Reported, Locks, Drawing, Inside, Fills
  <2>10. Covered'
    <3>1. width \in Nat /\ height \in Nat
      BY SizeFacts DEF SizeType
    <3>2. /\ dirty.x1 \in Int /\ dirty.y1 \in Int /\ dirty.x2 \in Int /\ dirty.y2 \in Int
      BY DEF DirtyType, Place
    <3>3. ASSUME NEW c \in Cells(width, height) PROVE In(c, dirty')
      <4>1. c[1] \in 0 .. width - 1 /\ c[2] \in 0 .. height - 1
        BY DEF Cells
      <4> QED
        BY <3>1, <3>2, <4>1, SMT DEF In, Widened, Everything, Less, More
    <3> QED
      BY <3>3 DEF Covered, In
  <2>11. Copied'
    BY DEF PcType, HeldType, Copied, OutOfDate, Picture, Locks, Drawing, Inside
  <2>12. Current'
    BY DEF PcType, HeldType, Current, Locks, Drawing
  <2> QED
    BY <2>1, <2>2, <2>3, <2>4, <2>5, <2>6, <2>7, <2>8, <2>9, <2>10, <2>11, <2>12
<1>17. ASSUME NEW t \in Thread, EmuResize(t) PROVE DrawInv'
  <2> USE <1>17 DEF EmuResize
  <2>1. SizeType'
    BY DEF SizeType
  <2>2. ShownType'
    BY DEF SizeType, ShownType
  <2>3. DirtyType'
    BY DEF DirtyType, Place
  <2>4. LoadsType'
    BY DEF LoadsType, Place, DirtyType
  <2>5. PcType'
    BY DEF PcType
  <2>6. HeldType'
    BY RomAssumption DEF HeldType
  <2>7. Locks'
    BY DEF PcType, HeldType, Locks, Drawing, Inside
  <2>8. Commands'
    BY DEF PcType, HeldType, Commands, Drawing, Fills
  <2>9. Reported'
    BY DEF PcType, HeldType, Reported, Locks, Drawing, Inside, Fills
  <2>10. Covered'
    <3>1. \A u \in Thread :
            pc[u] \in {"recolored", "resized", "x1", "y1", "x2", "y2"}
              => pc'[u] = pc[u] /\ op'[u] = op[u] /\ geo'[u] = geo[u]
      BY DEF PcType, HeldType
    <3> QED
      BY <3>1, StillCovered
  <2>11. Copied'
    BY DEF PcType, HeldType, Copied, OutOfDate, Picture, Locks, Drawing, Inside
  <2>12. Current'
    BY DEF PcType, HeldType, Current, Locks, Drawing
  <2> QED
    BY <2>1, <2>2, <2>3, <2>4, <2>5, <2>6, <2>7, <2>8, <2>9, <2>10, <2>11, <2>12
<1>18. CASE UNCHANGED vars
  BY <1>18 DEF vars, SizeType, ShownType, DirtyType, LoadsType, PcType, HeldType,
     Locks, Commands, Reported, Covered, Copied, Current, Fills, OutOfDate, Picture, Pending
<1> QED
  BY <1>1, <1>2, <1>3, <1>4, <1>5, <1>6, <1>7, <1>8, <1>9, <1>10, <1>11,
      <1>12, <1>13, <1>14, <1>15, <1>16, <1>17, <1>18 DEF Next, Loop, Resize, Rom, Device

\* It holds initially: everything is out of date, and the rectangle is the screen.
LEMMA InitDraw == Init => DrawInv
<1> SUFFICES ASSUME Init PROVE DrawInv
  OBVIOUS
<1>1. PICK s \in Sizes, p \in Palette :
        /\ width = s[1] /\ height = s[2] /\ layer = Blank(s[1], s[2]) /\ palette = p
        /\ stray = FALSE
        /\ pixels = AllStale(s[1], s[2])
        /\ dirty = [x1 |-> 0, y1 |-> 0, x2 |-> s[1], y2 |-> s[2]]
  BY DEF Init
<1>2. SizeType
  <2>1. generation = 0
    BY DEF Init
  <2>2. s = <<s[1], s[2]>>
    BY SizeAssumption
  <2> QED
    BY <1>1, <2>1, <2>2 DEF SizeType
<1>3. width \in Nat /\ height \in Nat
  BY <1>2, SizeFacts DEF SizeType
<1>4. ShownType
  BY <1>1, ColorAssumption DEF ShownType, Blank, AllStale, Content
<1>5. DirtyType /\ LoadsType
  BY <1>1, <1>3 DEF Init, DirtyType, LoadsType, Place, NoLoads
<1>6. PcType /\ HeldType
  BY RomAssumption DEF Init, PcType, HeldType, NoOp, NoGeo
<1>7. Locks /\ Commands /\ Reported /\ Copied /\ Current
  BY ThreadAssumption DEF Init, Locks, Commands, Reported, Copied, Current, Inside, Drawing, Thread
<1>8. Covered
  BY <1>1, <1>3, SMT DEF Covered, In, Cells
<1> QED
  BY <1>2, <1>4, <1>5, <1>6, <1>7, <1>8 DEF DrawInv, Types

\* No drawing is lost: whenever nobody has the lock, every cell whose pixel is out of
\* date is in the dirty rectangle, for any number of threads that draw side by side,
\* any commands, and a redraw, a palette or a resize between any two of their steps, until
\* a fill leaves the margins or a command draws on a layer that a resize has freed; and
\* the buffers fit the size (screen.c:20-22, 147).
THEOREM NothingLost == Spec => []Sound
<1>1. DrawInv => Sound
  <2> SUFFICES ASSUME DrawInv PROVE Sound
    OBVIOUS
  <2> USE DEF DrawInv, Types
  <2>1. TypeOK
    BY DEF TypeOK, SizeType, ShownType, DirtyType, LoadsType, PcType, HeldType
  <2>2. DirtyCovers
    BY ThreadAssumption DEF DirtyCovers, Covered, OutOfDate, Pending, Locks, Inside, Drawing
  <2> QED
    BY <2>1, <2>2 DEF Sound
<1> QED
  BY InitDraw, NextDraw, <1>1, PTL DEF Spec

\* Only Write takes a thread from its place.
LEMMA OnlyWrite ==
  ASSUME DrawInv, Next, NEW u \in Thread, pc[u] = "write", pc'[u] # "write"
  PROVE  Write(u)
<1> USE DEF DrawInv, Types, PcType, Goto, Thread
<1>1. ASSUME Loop \/ Expose \/ Resize PROVE FALSE
  BY <1>1 DEF Loop, Frame, Load, RedrawCopy, RedrawEnd, EmuRedraw, Expose,
             Resize, ScreenResize, ResizeFail
<1>2. ASSUME NEW t \in Thread, Rom(t) PROVE FALSE
  BY <1>2 DEF Rom, Deo, ScreenPalette
<1>3. ASSUME NEW t \in Thread, RdLock(t) \/ ScreenChange(t) \/ RdUnlock(t) \/ PaletteEnd(t)
                               \/ ResizeEnd(t) \/ EmuResize(t)
      PROVE  FALSE
  BY <1>3 DEF RdLock, ScreenChange, Change, RdUnlock, PaletteEnd, ResizeEnd, EmuResize
<1>4. ASSUME NEW t \in Thread, Write(t) PROVE t = u
  BY <1>4 DEF Write
<1> QED
  BY <1>1, <1>2, <1>3, <1>4 DEF Next, Device

\* A command colors the cells it is meant to, no other cell of the screen, and stays in
\* the layer's memory, for every size and cursor in 16 bits, if the ROM does not resize
\* while others draw, and until a fill leaves the margins (screen.c:195-211, 217, 239-247).
THEOREM DrawsExactly == ASSUME ResizeAlone PROVE Spec => DrawsWhatIsMeant
<1> DEFINE A == \A t \in Thread : pc[t] = "write" /\ pc'[t] # "write" /\ ~stray' =>
                  /\ Addresses(op[t], geo[t]) \subseteq Memory(width, height)
                  /\ \A c \in Cells(width, height) :
                       layer'[op[t].layer][Address(width, c)] =
                         IF c \in Meant(op[t], geo[t]) THEN op[t].color
                         ELSE layer[op[t].layer][Address(width, c)]
<1>1. ASSUME DrawInv, Next PROVE A
  <2> SUFFICES ASSUME NEW t \in Thread, pc[t] = "write", pc'[t] # "write", ~stray'
               PROVE  /\ Addresses(op[t], geo[t]) \subseteq Memory(width, height)
                      /\ \A c \in Cells(width, height) :
                           layer'[op[t].layer][Address(width, c)] =
                             IF c \in Meant(op[t], geo[t]) THEN op[t].color
                             ELSE layer[op[t].layer][Address(width, c)]
    OBVIOUS
  <2> USE <1>1 DEF DrawInv, Types
  <2>1. Write(t)
    BY <1>1, OnlyWrite
  <2>2. /\ op[t] \in Draws /\ op[t].layer \in Layer /\ Geo(geo[t])
        /\ geo[t].gen = generation /\ geo[t].w = width /\ geo[t].h = height
        /\ ~Leaves(op[t], geo[t])
    BY <2>1, DrawFacts DEF Write, Commands, Current, Drawing, Geo, HeldType, Fills
  <2>3. /\ Addresses(op[t], geo[t]) \subseteq Memory(width, height)
        /\ \A c \in Cells(width, height) :
             Address(width, c) \in Addresses(op[t], geo[t]) <=> c \in Meant(op[t], geo[t])
    BY <2>2, Draw
  <2>4. layer' = [layer EXCEPT ![op[t].layer] =
                    [a \in Memory(width, height) |->
                       IF a \in Addresses(op[t], geo[t]) THEN op[t].color
                       ELSE layer[op[t].layer][a]]]
    BY <2>1, <2>2 DEF Write, ShownType
  <2>5. \A c \in Cells(width, height) : Address(width, c) \in Memory(width, height)
    BY CellInMemory DEF SizeType
  <2>6. \A a \in Memory(width, height) :
          layer'[op[t].layer][a] = IF a \in Addresses(op[t], geo[t]) THEN op[t].color
                                   ELSE layer[op[t].layer][a]
    BY <2>2, <2>4 DEF ShownType
  <2> QED
    BY <2>3, <2>5, <2>6
<1>2. DrawInv /\ [Next]_vars => [A]_vars
  BY <1>1
<1> QED
  BY InitDraw, NextDraw, <1>2, PTL DEF Spec, DrawsWhatIsMeant, A
=============================================================================
