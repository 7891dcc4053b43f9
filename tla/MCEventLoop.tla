---------------------------- MODULE MCEventLoop ----------------------------
(* Instances of EventLoop for TLC: two voices, a memory of 8 bytes.         *)
EXTENDS EventLoop

N(addr, len, advance, a, d, s, r, repeat) ==
  [addr |-> addr, len |-> len, advance |-> advance, adsr |-> <<a, d, s, r>>, repeat |-> repeat]

\* A note played once, one with an envelope, one cut at the end of the memory, and a
\* stop.
Once     == N(1, 2, 2, 0, 0, 0, 0, FALSE)
Envelope == N(0, 3, 1, 1, 2, 1, 1, TRUE)
Tail8    == N(6, 4, 3, 0, 0, 0, 1, FALSE)
Stop     == N(0, 2, 0, 0, 0, 0, 0, FALSE)
SomeNotes == {Once, Envelope, Tail8, Stop}

Rom0 == [vectors |-> {}, notes |-> {}, starts |-> 0, reads |-> FALSE, halts |-> FALSE,
         args |-> <<>>, bytes |-> <<>>, keys |-> {}, user |-> {}, inputs |-> 0]

\* Plays, with and without a screen vector, and reads the VU ports.
Player  == [Rom0 EXCEPT !.vectors = {"audio0", "audio1"}, !.notes = SomeNotes, !.starts = 2]
Meter   == [Rom0 EXCEPT !.vectors = {"audio0", "screen"}, !.notes = {Envelope}, !.starts = 1,
                        !.reads = TRUE, !.halts = TRUE]
\* Reads the console, with a byte 255 in an argument and in standard input.
Reader  == [Rom0 EXCEPT !.vectors = {"console"}, !.args = <<<<1, 255>>, <<200>>>>,
                        !.bytes = <<4, 255, 6>>, !.keys = {"ctrl"}, !.inputs = 2, !.halts = TRUE]
\* Are played with, on the keyboard, with the mouse, with a hat or two axes.
Game  == [Rom0 EXCEPT !.vectors = {"screen", "controller"}, !.halts = TRUE,
                      !.keys = {"left", "F3", "F4"}, !.inputs = 3]
Type  == [Rom0 EXCEPT !.vectors = {"controller"},
                      !.keys = {"ctrl", "letter", "enter"}, !.inputs = 3]
Paint == [Rom0 EXCEPT !.vectors = {"mouse", "controller"}, !.keys = {"mouse1"},
                      !.user = {"text", "wheel", "quit"}, !.inputs = 3]
Hats  == [Rom0 EXCEPT !.vectors = {"controller"}, !.user = {"hat"}, !.inputs = 3]
Sticks == [Rom0 EXCEPT !.vectors = {"controller"}, !.user = {"axis"}, !.inputs = 3]

AllPrograms == {Player, Meter, Reader, Game, Type, Paint, Hats, Sticks}
=============================================================================
