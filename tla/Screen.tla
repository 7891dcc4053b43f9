------------------------------- MODULE Screen -------------------------------
(***************************************************************************)
(* The Screen device (devices/screen.c) with the part of uxnemu.c that     *)
(* shows it.  Every thread draws on the two shared layers under a read     *)
(* lock and widens the shared dirty rectangle with relaxed atomics; the    *)
(* event loop, which runs in main, tests the rectangle with no lock, copies*)
(* it to the pixels under the write lock, resets it, and hands the pixels  *)
(* to the window's texture with no lock.                                   *)
(*                                                                         *)
(* A layer is flat memory with a margin of a tile on each side, as in the  *)
(* code.  What a command draws is a set of addresses of it, all given the  *)
(* command's color; a transparent sprite would write fewer.  A step is one *)
(* atomic access to the rectangle or one use of the lock; what a thread    *)
(* does between two of these nobody else can tell apart.                   *)
(***************************************************************************)
EXTENDS Integers

CONSTANTS
  Main, Worker,     \* the thread of the event loop, and the others
  NoThread,
  Layer,            \* fg and bg
  Color,            \* what a command writes to a layer; 0 is blank
  Palette,          \* what a ROM may write to the palette ports
  Sizes,            \* the sizes it gives the screen, within the code's limits
  Draws,            \* the commands it writes to 0x2e and 0x2f
  TILE,             \* 8 in the code
  WORD,             \* 2^16 in the code
  FAR,              \* 9999 in the code: beyond every screen
  Stale,            \* the content of pixels nobody has drawn
  OutOfMemory,      \* which realloc of a resize may fail: "pixels"
  ResizeAlone,      \* the ROM resizes only while no other thread draws
  MaxIssued         \* bounds the commands of a behaviour

Thread == {Main} \cup Worker

ASSUME ThreadAssumption == Main \notin Worker /\ NoThread \notin Thread
ASSUME SizeAssumption ==
  /\ TILE \in Nat \ {0} /\ WORD \in Nat /\ FAR \in Nat
  /\ \A s \in Sizes : /\ s \in (Nat \ {0}) \X (Nat \ {0})
                      /\ s[1] + 2 * TILE < WORD /\ s[2] + 2 * TILE < WORD
                      /\ s[1] < FAR /\ s[2] < FAR
ASSUME ColorAssumption == 0 \in Color /\ Stale \notin Palette \X [Layer -> Color]
ASSUME RomAssumption == OutOfMemory \subseteq {"pixels"} /\ ResizeAlone \in BOOLEAN
                        /\ MaxIssued \in Nat

\* A command: its mode and control bits, and the thread's cursor and auto ports.
\* The bits 0x10 and 0x20 are a sprite's flips and the quadrant of a fill.
ASSUME DrawAssumption ==
  Draws \subseteq [mode : {"pixel", "fill", "sprite"}, layer : Layer, color : Color,
                   x : Int, y : Int, fx : BOOLEAN, fy : BOOLEAN,
                   mx : {0, 1}, my : {0, 1}, len : Nat]

\* The ROM has the cursor in 16 bits, and no row of sprites gets half a word away
\* from it: a row has at most 16 and a screen at most 2048 cells each way.
ASSUME CursorAssumption ==
  \A d \in Draws, s \in Sizes :
    /\ 2 * d.x >= -WORD /\ 2 * d.x < WORD /\ 2 * d.y >= -WORD /\ 2 * d.y < WORD
    /\ 2 * (s[1] + (d.len + 3) * TILE) <= WORD /\ 2 * (s[2] + (d.len + 3) * TILE) <= WORD

VARIABLES
  width, height,
  generation,       \* which allocation fg and bg are, counted by the resizes
  layer,            \* uxn_screen.fg, bg
  palette, pixels,
  dirty,            \* x1, y1, x2, y2
  texture,          \* what the window shows
  readers, writer,  \* screen_rwlock
  pc,
  stray,            \* history: a command wrote where it must not
  op,               \* the command a thread is in
  geo,              \* the width, height and layer it has read
  loads,            \* what screen_changed has loaded
  issued            \* how many commands the ROM has issued

screen == <<width, height, generation, layer, palette, stray>>
shown  == <<pixels, texture>>
lock   == <<readers, writer>>
locals == <<op, geo, loads>>
vars   == <<screen, shown, dirty, lock, pc, locals, issued>>

MAR(n)  == n + TILE
MAR2(n) == n + 2 * TILE

\* The addresses of a layer of w by h, and where its cell c is.
Memory(w, h) == 0 .. MAR2(w) * MAR2(h) - 1
Address(w, c) == MAR(c[1]) + MAR(c[2]) * MAR2(w)
Cells(w, h)  == (0 .. w - 1) \X (0 .. h - 1)

\* What the window should show at cell c.
Picture(c) == <<palette, [l \in Layer |-> layer[l][Address(width, c)]]>>

Blank(w, h) == [l \in Layer |-> [a \in Memory(w, h) |-> 0]]
AllStale(w, h) == [c \in Cells(w, h) |-> Stale]
Nothing == [x1 |-> FAR, y1 |-> FAR, x2 |-> 0, y2 |-> 0]
NoLoads == [x1 |-> 0, y1 |-> 0, x2 |-> 0, y2 |-> 0]
NoOp == [mode |-> "none"]
NoGeo == [w |-> 0, h |-> 0, gen |-> 0]

\* After emu_init and the first emu_resize.
Init ==
  \E s \in Sizes, p \in Palette :
    /\ width = s[1] /\ height = s[2]
    /\ generation = 0
    /\ layer = Blank(s[1], s[2])
    /\ palette = p
    /\ pixels = AllStale(s[1], s[2]) /\ texture = AllStale(s[1], s[2])
    /\ dirty = [x1 |-> 0, y1 |-> 0, x2 |-> s[1], y2 |-> s[2]]
    /\ readers = {} /\ writer = NoThread /\ stray = FALSE
    /\ pc = [t \in Thread |-> "rom"]
    /\ op = [t \in Thread |-> NoOp] /\ geo = [t \in Thread |-> NoGeo]
    /\ loads = NoLoads
    /\ issued = 0

Goto(t, l) == pc' = [pc EXCEPT ![t] = l]

Less(a, b) == IF a < b THEN a ELSE b
More(a, b) == IF a > b THEN a ELSE b

\* screen_change under the write lock, where its four updates are one.
Widened(r) == [x1 |-> Less(dirty.x1, r.x1), y1 |-> Less(dirty.y1, r.y1),
               x2 |-> More(dirty.x2, r.x2), y2 |-> More(dirty.y2, r.y2)]

-----------------------------------------------------------------------------
(* What a command draws: the addresses it writes and the rectangle it      *)
(* reports, computed from its operands d and the size g it has read.       *)

\* The corner of a fill: the cells left or right, above or below the cursor.
FillRect(d, g) ==
  [x1 |-> IF d.fx THEN 0 ELSE d.x, x2 |-> IF d.fx THEN d.x ELSE g.w,
   y1 |-> IF d.fy THEN 0 ELSE d.y, y2 |-> IF d.fy THEN d.y ELSE g.h]

FillAddresses(d, g) ==
  LET r == FillRect(d, g)
  IN {Address(g.w, c) : c \in (r.x1 .. r.x2 - 1) \X (r.y1 .. r.y2 - 1)}

\* A fill does not test its cursor.  It stays in the screen and the margins, or it colors
\* cells of other rows, which it does not report, or memory around the layer.
Leaves(d, g) ==
  LET r == FillRect(d, g)
  IN /\ d.mode = "fill" /\ r.x1 < r.x2 /\ r.y1 < r.y2
     /\ \/ r.x1 < -TILE \/ r.x2 > MAR(g.w)
        \/ r.y1 < -TILE \/ r.y2 > MAR(g.h)

\* The bound on x is the length of a row with its margins, not the width.
PixelAddresses(d, g) ==
  IF d.x >= 0 /\ d.y >= 0 /\ d.x < MAR2(g.w) /\ d.y < height
  THEN {Address(g.w, <<d.x, d.y>>)} ELSE {}

PixelRect(d) == [x1 |-> d.x, y1 |-> d.y, x2 |-> d.x + 1, y2 |-> d.y + 1]

Sign(flip) == IF flip THEN -1 ELSE 1

\* The steps between the sprites of a row: auto x moves y and auto y moves x.
StepX(d) == Sign(d.fx) * TILE * d.my
StepY(d) == Sign(d.fy) * TILE * d.mx

\* Mutant: the arithmetic is not unsigned.
TileAddresses_Signed(x, y, g) ==
  IF MAR(x) < MAR(g.w) /\ MAR2(y) < MAR2(g.h)
  THEN {MAR(x) + i + row * MAR2(g.w) : i \in 0 .. TILE - 1, row \in MAR(y) .. MAR2(y) - 1}
  ELSE {}

\* One sprite with its corner at x, y, in 16-bit arithmetic.
TileAddresses(x, y, g) ==
  LET xmar  == MAR(x) % WORD
      ymar  == MAR(y) % WORD
      ymar2 == MAR2(y) % WORD
  IN IF xmar < MAR(g.w) /\ ymar2 < MAR2(g.h)
     THEN {xmar + i + row * MAR2(g.w) : i \in 0 .. TILE - 1, row \in ymar .. ymar2 - 1}
     ELSE {}

SpriteAddresses(d, g) ==
  UNION {TileAddresses(d.x + i * StepX(d), d.y + i * StepY(d), g) : i \in 0 .. d.len}

SpriteRect(d) ==
  LET x == d.x + (d.len + 1) * StepX(d)
      y == d.y + (d.len + 1) * StepY(d)
  IN [x1 |-> (IF d.fx THEN x ELSE d.x) - TILE, x2 |-> (IF d.fx THEN d.x ELSE x) + TILE,
      y1 |-> (IF d.fy THEN y ELSE d.y) - TILE, y2 |-> (IF d.fy THEN d.y ELSE y) + TILE]

Addresses(d, g) == CASE d.mode = "pixel"  -> PixelAddresses(d, g)
                     [] d.mode = "fill"   -> FillAddresses(d, g)
                     [] d.mode = "sprite" -> SpriteAddresses(d, g)

Rect(d, g) == CASE d.mode = "pixel"  -> PixelRect(d)
                [] d.mode = "fill"   -> FillRect(d, g)
                [] d.mode = "sprite" -> SpriteRect(d)

-----------------------------------------------------------------------------
(* screen_deo: drawing.                                                    *)

Resizing == \E t \in Thread : pc[t] \in {"resized", "retexture"}

\* The ROM writes 0x2e or 0x2f.  The size and the layer are read with no lock.
Deo(t, d) ==
  /\ pc[t] = "rom" /\ issued < MaxIssued
  /\ ResizeAlone => ~Resizing
  /\ issued' = issued + 1
  /\ op' = [op EXCEPT ![t] = d]
  /\ geo' = [geo EXCEPT ![t] = [w |-> width, h |-> height, gen |-> generation]]
  /\ Goto(t, "rdlock")
  /\ UNCHANGED <<screen, shown, dirty, lock, loads>>

\* A fill reports before it draws, the others after.
Fills(t) == op[t].mode = "fill"

\* Mutant: a draw takes no lock.
RdLock_None(t) ==
  /\ pc[t] = "rdlock"
  /\ Goto(t, IF Fills(t) THEN "x1" ELSE "write")
  /\ UNCHANGED <<screen, shown, dirty, lock, locals, issued>>

RdLock(t) ==
  /\ pc[t] = "rdlock" /\ writer = NoThread
  /\ readers' = readers \cup {t}
  /\ Goto(t, IF Fills(t) THEN "x1" ELSE "write")
  /\ UNCHANGED <<screen, shown, dirty, writer, locals, issued>>

\* Of a fill that leaves the margins, what it does to the layer; a layer that is no longer
\* the screen's takes the color with it, unless realloc has left it in its place.  Both
\* are undefined in C, or draw what nobody meant: stray says so.
Write(t) ==
  /\ pc[t] = "write"
  /\ stray' = (stray \/ geo[t].gen # generation \/ Leaves(op[t], geo[t]))
  /\ layer' = IF geo[t].gen # generation THEN layer
              ELSE [layer EXCEPT ![op[t].layer] = [a \in DOMAIN @ |->
                      IF a \in Addresses(op[t], geo[t]) THEN op[t].color ELSE @[a]]]
  /\ Goto(t, IF Fills(t) THEN "unlock" ELSE "x1")
  /\ UNCHANGED <<width, height, generation, palette, shown, dirty, lock, locals, issued>>

\* One of the four atomic updates of screen_change.
Change(t) ==
  LET r == Rect(op[t], geo[t])
  IN \/ /\ pc[t] = "x1" /\ Goto(t, "y1")
        /\ dirty' = [dirty EXCEPT !.x1 = Less(@, r.x1)]
     \/ /\ pc[t] = "y1" /\ Goto(t, "x2")
        /\ dirty' = [dirty EXCEPT !.y1 = Less(@, r.y1)]
     \/ /\ pc[t] = "x2" /\ Goto(t, "y2")
        /\ dirty' = [dirty EXCEPT !.x2 = More(@, r.x2)]
     \/ /\ pc[t] = "y2" /\ Goto(t, IF Fills(t) THEN "write" ELSE "unlock")
        /\ dirty' = [dirty EXCEPT !.y2 = More(@, r.y2)]

ScreenChange(t) ==
  /\ Change(t)
  /\ UNCHANGED <<screen, shown, lock, locals, issued>>

RdUnlock(t) ==
  /\ pc[t] = "unlock"
  /\ readers' = readers \ {t}
  /\ op' = [op EXCEPT ![t] = NoOp] /\ geo' = [geo EXCEPT ![t] = NoGeo]
  /\ Goto(t, "rom")
  /\ UNCHANGED <<screen, shown, dirty, writer, loads, issued>>

-----------------------------------------------------------------------------
(* The users of the write lock: palette, resize and redraw.                *)

Exclusive(t) == readers = {} /\ writer = NoThread /\ writer' = t

Everything == [x1 |-> 0, y1 |-> 0, x2 |-> width, y2 |-> height]

\* The ROM writes a palette port; the colors come from the thread's own ports.
ScreenPalette(t, p) ==
  /\ pc[t] = "rom" /\ issued < MaxIssued /\ Exclusive(t)
  /\ palette' = p
  /\ issued' = issued + 1
  /\ Goto(t, "recolored")
  /\ UNCHANGED <<width, height, generation, layer, stray, shown, dirty, readers, locals>>

PaletteEnd(t) ==
  /\ pc[t] = "recolored"
  /\ dirty' = Widened(Everything)
  /\ writer' = NoThread
  /\ Goto(t, "rom")
  /\ UNCHANGED <<screen, shown, readers, locals, issued>>

\* Main sets the size, through a port or a key.  The same size keeps the layers.
ScreenResize(w, h) ==
  /\ pc[Main] = "rom" /\ issued < MaxIssued /\ Exclusive(Main)
  /\ ResizeAlone => \A t \in Worker : pc[t] = "rom"
  /\ issued' = issued + 1
  /\ IF w = width /\ h = height
     THEN UNCHANGED <<screen, pixels>>
     ELSE /\ width' = w /\ height' = h
          /\ generation' = generation + 1
          /\ layer' = Blank(w, h)
          /\ pixels' = AllStale(w, h)
          /\ UNCHANGED <<palette, stray>>
  /\ Goto(Main, "resized")
  /\ UNCHANGED <<texture, dirty, readers, locals>>

\* There is no memory for the pixels: nothing happens, not even to the window.
ResizeFail(w, h) ==
  /\ pc[Main] = "rom" /\ issued < MaxIssued
  /\ "pixels" \in OutOfMemory
  /\ readers = {} /\ writer = NoThread
  /\ issued' = issued + 1
  /\ UNCHANGED <<screen, shown, dirty, lock, pc, locals>>

ResizeEnd(t) ==
  /\ pc[t] = "resized"
  /\ dirty' = Widened(Everything)
  /\ writer' = NoThread
  /\ Goto(t, "retexture")
  /\ UNCHANGED <<screen, shown, readers, locals, issued>>

\* The new texture is filled with a row length of one pixel.
EmuResize(t) ==
  /\ pc[t] = "retexture"
  /\ texture' = AllStale(width, height)
  /\ Goto(t, "rom")
  /\ UNCHANGED <<screen, pixels, dirty, lock, locals, issued>>

\* The loop of main comes to a frame; screen_changed loads the four words.
Frame ==
  /\ pc[Main] = "rom"
  /\ loads' = [loads EXCEPT !.x1 = dirty.x1]
  /\ Goto(Main, "load_y1")
  /\ UNCHANGED <<screen, shown, dirty, lock, op, geo, issued>>

\* Mutant: one column is nothing.
Visible_OffByOne(l) == l.x2 - 1 > l.x1 /\ l.y2 > l.y1

Visible(l) == l.x2 > l.x1 /\ l.y2 > l.y1

Load ==
  /\ \/ /\ pc[Main] = "load_y1" /\ Goto(Main, "load_x2")
        /\ loads' = [loads EXCEPT !.y1 = dirty.y1]
     \/ /\ pc[Main] = "load_x2" /\ Goto(Main, "load_y2")
        /\ loads' = [loads EXCEPT !.x2 = dirty.x2]
     \/ /\ pc[Main] = "load_y2"
        /\ Goto(Main, IF Visible([loads EXCEPT !.y2 = dirty.y2]) THEN "redraw" ELSE "rom")
        /\ loads' = NoLoads
  /\ UNCHANGED <<screen, shown, dirty, lock, op, geo, issued>>

Clamp(n, low, high) == IF n < low THEN low ELSE IF n >= high THEN high ELSE n

\* screen_redraw: the part of the screen in the rectangle goes to the pixels.
RedrawCopy ==
  LET xs == Clamp(dirty.x1, 0, width) .. Clamp(dirty.x2, 0, width) - 1
      ys == Clamp(dirty.y1, 0, height) .. Clamp(dirty.y2, 0, height) - 1
  IN /\ pc[Main] = "redraw" /\ Exclusive(Main)
     /\ pixels' = [c \in DOMAIN pixels |-> IF c \in xs \X ys THEN Picture(c) ELSE pixels[c]]
     /\ Goto(Main, "reset")
     /\ UNCHANGED <<screen, texture, dirty, readers, locals, issued>>

\* And the rectangle is empty again.
RedrawEnd ==
  /\ pc[Main] = "reset"
  /\ dirty' = Nothing
  /\ writer' = NoThread
  /\ Goto(Main, "update")
  /\ UNCHANGED <<screen, shown, readers, locals, issued>>

EmuRedraw ==
  /\ pc[Main] = "update"
  /\ texture' = pixels
  /\ Goto(Main, "rom")
  /\ UNCHANGED <<screen, pixels, dirty, lock, locals, issued>>

\* The window was uncovered.
Expose ==
  /\ pc[Main] = "rom"
  /\ texture' = pixels
  /\ UNCHANGED <<screen, pixels, dirty, lock, pc, locals, issued>>

-----------------------------------------------------------------------------

Rom(t) ==
  \/ \E d \in Draws : Deo(t, d)
  \/ \E p \in Palette : ScreenPalette(t, p)

Resize == \E s \in Sizes : ScreenResize(s[1], s[2]) \/ ResizeFail(s[1], s[2])

Device(t) ==
  \/ RdLock(t) \/ Write(t) \/ ScreenChange(t) \/ RdUnlock(t)
  \/ PaletteEnd(t) \/ ResizeEnd(t) \/ EmuResize(t)

Loop == Frame \/ Load \/ RedrawCopy \/ RedrawEnd \/ EmuRedraw

Next == Loop \/ Expose \/ Resize \/ \E t \in Thread : Rom(t) \/ Device(t)

Spec == Init /\ [][Next]_vars

\* The operating system runs every thread, and the ROM's screen vector, which
\* main evaluates between two frames, returns.
FairSpec == Spec /\ WF_vars(Loop) /\ \A t \in Thread : WF_vars(Device(t))

-----------------------------------------------------------------------------
(* What the screen promises.                                               *)

Content == (Palette \X [Layer -> Color]) \cup {Stale}
Place == [x1 : Int, y1 : Int, x2 : Int, y2 : Int]

\* Every variable keeps its type; the layers, pixels and texture fit the size.
TypeOK ==
  /\ <<width, height>> \in Sizes /\ generation \in Nat /\ stray \in BOOLEAN
  /\ layer \in [Layer -> [Memory(width, height) -> Color]] /\ palette \in Palette
  /\ pixels \in [Cells(width, height) -> Content]
  /\ dirty \in Place /\ loads \in Place
  /\ readers \subseteq Thread /\ writer \in Thread \cup {NoThread}
  /\ pc \in [Thread -> {"rom", "rdlock", "write", "x1", "y1", "x2", "y2", "unlock", "recolored",
                        "resized", "retexture", "load_y1", "load_x2", "load_y2", "redraw",
                        "reset", "update"}]
  /\ op \in [Thread -> Draws \cup {NoOp}]
  /\ geo \in [Thread -> [w : Nat, h : Nat, gen : Nat]]
  /\ issued \in 0 .. MaxIssued

In(c, r) == c[1] >= r.x1 /\ c[1] < r.x2 /\ c[2] >= r.y1 /\ c[2] < r.y2

\* Unless a command has strayed: whenever nobody has the lock, every cell whose pixel is
\* out of date is in the dirty rectangle, whatever threads drew side by side and whenever
\* the rectangle was reset (screen.c:20-22, 147): no drawing is lost.
DirtyCovers ==
  ~stray /\ readers = {} /\ writer = NoThread =>
    \A c \in Cells(width, height) : pixels[c] # Picture(c) => In(c, dirty)

\* The types and sizes of the buffers, and no drawing lost.
Sound == TypeOK /\ DirtyCovers

\* The cells a command is meant to draw.
Meant(d, g) ==
  CASE d.mode = "pixel"  -> {<<d.x, d.y>>}
    [] d.mode = "fill"   -> LET r == FillRect(d, g) IN {c \in Cells(g.w, g.h) : In(c, r)}
    [] d.mode = "sprite" ->
         {c \in Cells(g.w, g.h) : \E i \in 0 .. d.len :
            LET x == d.x + i * StepX(d)
                y == d.y + i * StepY(d)
            IN In(c, [x1 |-> x, y1 |-> y, x2 |-> x + TILE, y2 |-> y + TILE])}

\* A command colors the cells it is meant to and no other cell of the screen, and
\* stays in the layer's memory, though the code clips it with 16-bit arithmetic and
\* lets it run into the margins (screen.c:217, 239-247): but for a fill whose cursor is
\* off the screen by more than a margin, on the side it is filled to (screen.c:195-211),
\* and for what comes after such a fill.
DrawsWhatIsMeant ==
  [][\A t \in Thread : pc[t] = "write" /\ pc'[t] # "write" /\ ~stray' =>
       /\ Addresses(op[t], geo[t]) \subseteq Memory(width, height)
       /\ \A c \in Cells(width, height) :
            layer'[op[t].layer][Address(width, c)] =
              IF c \in Meant(op[t], geo[t]) THEN op[t].color
              ELSE layer[op[t].layer][Address(width, c)]]_vars

\* Draws that have the read lock use the layers the screen has (screen.c:20,
\* "Protects fg[], bg[]").
DrawsOnTheScreen ==
  \A t \in Thread : pc[t] = "write" => geo[t].gen = generation

\* When the ROM stops drawing the window comes to show what it has drawn, unless a
\* command has strayed.
Shown == <>[](stray \/ texture = [c \in Cells(width, height) |-> Picture(c)])
=============================================================================
