----------------------------- MODULE EventLoop -----------------------------
(***************************************************************************)
(* The emulator's event loop (uxnemu.c) with the devices it drives: the    *)
(* console, the controller and the mouse, and the voices of Audio.         *)
(*                                                                         *)
(* Threads meet in the library's event queue.  The thread of standard      *)
(* input pushes what it reads and tries again while the queue is full; the *)
(* audio callback pushes once when a voice ends; the user's events come as *)
(* they come; what finds the queue full is lost.  main takes the events and*)
(* evaluates the ROM's vectors; main does nothing else until a vector comes*)
(* to its BRK.                                                             *)
(*                                                                         *)
(* Window, zoom and drawing are left out (Screen has the redraw), and so is*)
(* the position of the mouse.  A text event has one character.             *)
(***************************************************************************)
EXTENDS Audio, Sequences, SequencesExt

CONSTANTS
  Programs,       \* the ROMs, each with its arguments and its user
  MaxQueue        \* what the event queue holds: 65535 in the library

Directions  == {"up", "down", "left", "right"}
AxisMask(x) == IF x = "x" THEN {"left", "right"} ELSE {"up", "down"}
Hat         == {m \in SUBSET Directions : \A x \in {"x", "y"} : ~(AxisMask(x) \subseteq m)}

\* Keys that are a button of the controller, keys of the emulator, keys that get_key
\* takes for a character: always, or a letter with ctrl; a mouse button.
Pad      == Directions \cup {"ctrl"}
Function == {"F3", "F4"}
Typed    == {"enter", "letter"}
Key      == Pad \cup Function \cup Typed
Button   == Pad \cup {"mouse1"}

\* A byte, as a char of the build has it, and what getchar's callers know as the end.
Byte    == 0 .. 255
Char(b) == IF b > 127 THEN b - 256 ELSE b
EOF     == -1

\* The vectors of the voices, in the ports of Audio0 to Audio3.
AudioVector(v) == <<"audio0", "audio1", "audio2", "audio3">>[v + 1]
Vector == {"screen", "console", "controller", "mouse"} \cup {AudioVector(v) : v \in Voice}

\* A ROM: its vectors, the notes it starts and how many, whether it reads the VU ports
\* and writes System/state; its arguments and standard input; the keys its user has
\* and what else the user does, and how many events that makes.
ASSUME ProgramsAssumption ==
  \A p \in Programs :
    /\ p.vectors \subseteq Vector
    /\ p.notes \subseteq Note /\ p.starts \in Nat
    /\ {p.reads, p.halts} \subseteq BOOLEAN
    /\ p.args \in Seq(Seq(Byte \ {0})) /\ p.bytes \in Seq(Byte)
    /\ p.keys \subseteq Key \cup {"mouse1"}
    /\ p.user \subseteq {"hat", "axis", "text", "wheel", "quit"} /\ p.inputs \in Nat
ASSUME MaxQueueAssumption == MaxQueue \in Nat \ {0}

VARIABLES
  rom,            \* the ROM and its user, one of Programs
  main,           \* where main is, and what it has to remember there
  state,          \* System/state is not zero
  buttons,        \* Controller/button and Mouse/state
  pulse,          \* "key", "wheel" or "none": Controller/key, Mouse/scrolly is not zero
  given,          \* history: what console_input put in the ports
  queue,          \* the events
  lost,           \* history: an event was lost because the queue was full
  stdin,          \* the thread of standard input, and how much it has read
  frame,          \* the next frame is due
  held,           \* what the user holds: keys, hat and axes
  inputs, starts, \* how many events and notes there have been
  open,           \* history: voices with a note whose end was not announced
  cut             \* history: voices the ROM stopped or replaced, or whose end a VU took

ports == <<state, buttons, pulse, given>>
events == <<queue, lost>>
world == <<stdin, frame, held, inputs>>
notes == <<starts, open, cut>>
vars  == <<rom, main, ports, events, world, notes, audio>>

\* What console_arguments calls console_input with: the characters of each argument and
\* a newline.
ArgumentInputs(args) ==
  FlattenSeq([j \in DOMAIN args |->
    [k \in DOMAIN args[j] |-> [c |-> Char(args[j][k]), type |-> "ARG"]]
      \o <<[c |-> 10, type |-> IF j = Len(args) THEN "END" ELSE "EOA"]>>])

\* What the thread of standard input pushes; its bytes have no sign.
StdinInputs(bytes) ==
  [j \in DOMAIN bytes |-> [c |-> bytes[j], type |-> "STD"]] \o <<[c |-> 0, type |-> "END"]>>

\* main is in the boot vector, and the thread of standard input already runs.
Init ==
  /\ AudioInit
  /\ rom \in Programs
  /\ main = [at |-> "vector", vector |-> "boot", then |-> "args",
             told |-> 0, due |-> FALSE, sym |-> "none"]
  /\ state = FALSE /\ buttons = {} /\ pulse = "none" /\ given = <<>>
  /\ queue = <<>> /\ lost = FALSE
  /\ stdin = [at |-> "read", count |-> 0]
  /\ frame = TRUE
  /\ held = [keys |-> {}, hat |-> {}, x |-> {}, y |-> {}]
  /\ inputs = 0 /\ starts = 0 /\ open = {} /\ cut = {}

Goto(l) == main' = [main EXCEPT !.at = l]

\* uxn_eval does nothing when the vector is 0 or System/state is set.
Evaluates(v) == v \in rom.vectors /\ ~state

\* m is main with vector v to evaluate, and then to be at l.
Eval(m, v, l) ==
  main' = IF Evaluates(v) THEN [m EXCEPT !.at = "vector", !.vector = v, !.then = l]
          ELSE [m EXCEPT !.at = l]

\* SDL_PushEvent by one who does not try again.
PushOrLose(e) ==
  IF Len(queue) < MaxQueue
  THEN queue' = Append(queue, e) /\ UNCHANGED lost
  ELSE lost' = TRUE /\ UNCHANGED queue

-----------------------------------------------------------------------------
(* The ROM in a vector.                                                    *)

Brk ==
  /\ main.at = "vector"
  /\ Goto(main.then)
  /\ UNCHANGED <<rom, ports, events, world, notes, audio>>

Halt ==
  /\ main.at = "vector" /\ rom.halts
  /\ state' = TRUE
  /\ UNCHANGED <<rom, main, buttons, pulse, given, events, world, notes, audio>>

\* DEO of a pitch: audio_start, under the lock of the device.
StartNote(v, n) ==
  /\ main.at = "vector" /\ starts < rom.starts
  /\ AudioStart(v, n)
  /\ Goto("unpause")
  /\ starts' = starts + 1
  /\ open' = IF voice'[v].advance # 0 THEN open \cup {v} ELSE open \ {v}
  /\ cut' = IF Playing(v) THEN cut \cup {v} ELSE cut
  /\ UNCHANGED <<rom, ports, events, world>>

Unpause ==
  /\ main.at = "unpause"
  /\ AudioUnpause
  /\ Goto("vector")
  /\ UNCHANGED <<rom, ports, events, world, notes>>

\* DEI of a VU port.
ReadVu(v) ==
  /\ main.at = "vector" /\ rom.reads
  /\ AudioGetVu(v)
  /\ cut' = IF Playing(v) /\ voice'[v].advance = 0 THEN cut \cup {v} ELSE cut
  /\ UNCHANGED <<rom, main, ports, events, world, starts, open>>

-----------------------------------------------------------------------------
(* What main does with an event; the ports first, then the vector.         *)

\* What console_input puts in the ports.  A char that is EOF ends the input: so does a
\* byte 255 of an argument.
Told(in) ==
  IF in.c = EOF THEN [c |-> 0, type |-> "END"] ELSE [in EXCEPT !.c = @ % 256]

ConsoleInput(m, in, l) ==
  /\ given' = Append(given, Told(in))
  /\ Eval(m, "console", l)
  /\ UNCHANGED <<state, buttons, pulse>>

\* controller_down and controller_up do nothing with an empty mask.
Down(m, mask, l) ==
  /\ buttons' = buttons \cup mask
  /\ IF mask = {} THEN main' = [m EXCEPT !.at = l] ELSE Eval(m, "controller", l)
  /\ UNCHANGED <<state, pulse, given>>

Up(m, mask, l) ==
  /\ buttons' = buttons \ mask
  /\ IF mask = {} THEN main' = [m EXCEPT !.at = l] ELSE Eval(m, "controller", l)
  /\ UNCHANGED <<state, pulse, given>>

Mouse(b) ==
  /\ buttons' = b
  /\ Eval(main, "mouse", "events")
  /\ UNCHANGED <<state, pulse, given>>

\* Where main is when it is done with an event; m.sym is the key of a SDL_KEYDOWN.
After(m) == IF m.sym = "none" THEN "events" ELSE "peep"

\* controller_key and mouse_scroll: the port p is set for the vector only.
Pulse(m, p, v) ==
  /\ pulse' = IF Evaluates(v) THEN p ELSE "none"
  /\ Eval(m, v, IF Evaluates(v) THEN "clear" ELSE After(m))
  /\ UNCHANGED <<state, buttons, given>>

\* system_reboot clears the ports, and evaluates the boot vector; the vectors in static
\* variables stay, and so do the voices.  The vectors of the audio devices are ports, and
\* are cleared too: rom.vectors are those that the boot vector sets, and it sets them
\* again before main takes another event.
Restart(m) ==
  /\ state' = FALSE /\ buttons' = {} /\ pulse' = "none"
  /\ main' = [m EXCEPT !.at = "vector", !.vector = "boot", !.then = "peep"]
  /\ UNCHANGED given

\* get_key has a character for sym; it asks for the keys that are down now, not when
\* the event came.
GetsKey(sym) == sym = "enter" \/ (sym = "letter" /\ "ctrl" \in held.keys)

\* The branches of SDL_KEYDOWN.
KeyDown(sym) ==
  LET m == [main EXCEPT !.sym = sym]
  IN CASE GetsKey(sym) -> Pulse(m, "key", "controller")
       [] sym = "F3" -> /\ state' = TRUE /\ main' = [m EXCEPT !.at = "peep"]
                        /\ UNCHANGED <<buttons, pulse, given>>
       [] sym = "F4" -> Restart(m)
       [] OTHER      -> Down(m, {sym} \cap Pad, "peep")

\* Mutant: an axis in its middle releases the directions of the other one.
Axis_Other(x, mask) ==
  IF mask = {} THEN Up(main, AxisMask(IF x = "x" THEN "y" ELSE "x"), "events")
               ELSE Down(main, mask, "events")

\* An axis in its middle releases both of its directions; one that goes on to the other
\* side presses that, and releases nothing.
Axis(x, mask) ==
  IF mask = {} THEN Up(main, AxisMask(x), "events") ELSE Down(main, mask, "events")

HatMotion(mask) ==
  IF mask = {} THEN Up(main, Directions, "events") ELSE Down(main, mask, "events")

\* handle_events takes the next event, or returns.
TakeEvent ==
  /\ main.at = "events" /\ queue # <<>>
  /\ queue' = Tail(queue)
  /\ LET e == Head(queue) IN
     CASE e.type = "quit"      -> Goto("ended") /\ UNCHANGED ports
       [] e.type = "finished"  -> Eval(main, AudioVector(e.voice), "events") /\ UNCHANGED ports
       [] e.type = "text"      -> Pulse(main, "key", "controller")
       [] e.type = "wheel"     -> Pulse(main, "wheel", "mouse")
       [] e.type = "mousedown" -> Mouse(buttons \cup {e.sym})
       [] e.type = "mouseup"   -> Mouse(buttons \ {e.sym})
       [] e.type = "keydown"   -> KeyDown(e.sym)
       [] e.type = "keyup"     -> Up(main, {e.sym} \cap Pad, "events")
       [] e.type = "axis"      -> Axis(e.axis, e.mask)
       [] e.type = "hat"       -> HatMotion(e.mask)
       [] e.type = "stdin"     -> ConsoleInput(main, e.in, "events")
  /\ UNCHANGED <<rom, lost, world, notes, audio>>

NoMoreEvents ==
  /\ main.at = "events" /\ queue = <<>>
  /\ Goto("frame")
  /\ UNCHANGED <<rom, ports, events, world, notes, audio>>

\* Mutant: the port keeps the key.
Clear_Not ==
  /\ main.at = "clear"
  /\ Goto(After(main))
  /\ UNCHANGED <<rom, ports, events, world, notes, audio>>

Clear ==
  /\ main.at = "clear"
  /\ pulse' = "none"
  /\ Goto(After(main))
  /\ UNCHANGED <<rom, state, buttons, given, events, world, notes, audio>>

\* After a key, handle_events returns at once if the first KEYUP that waits is the
\* same key's.
Peep ==
  LET ups == SelectSeq(queue, LAMBDA e : e.type = "keyup")
  IN /\ main.at = "peep"
     /\ main' = [main EXCEPT !.sym = "none",
                   !.at = IF ups # <<>> /\ Head(ups).sym = main.sym THEN "frame" ELSE "events"]
     /\ UNCHANGED <<rom, ports, events, world, notes, audio>>

-----------------------------------------------------------------------------
(* main's way around the loop.                                             *)

Argument ==
  /\ main.at = "args"
  /\ LET given_args == ArgumentInputs(rom.args) IN
     IF main.told < Len(given_args)
     THEN ConsoleInput([main EXCEPT !.told = @ + 1], given_args[main.told + 1], "args")
     ELSE Goto("loop") /\ UNCHANGED ports
  /\ UNCHANGED <<rom, events, world, notes, audio>>

\* Mutant: the state is not looked at.
Loop_Blind ==
  /\ main.at = "loop"
  /\ main' = [main EXCEPT !.at = "events", !.due = frame]
  /\ UNCHANGED <<rom, ports, events, world, notes, audio>>

\* A turn ends the emulator if the state says so, or looks at the clock.
Loop ==
  /\ main.at = "loop"
  /\ main' = IF state THEN [main EXCEPT !.at = "ended"]
             ELSE [main EXCEPT !.at = "events", !.due = frame]
  /\ UNCHANGED <<rom, ports, events, world, notes, audio>>

Frame ==
  /\ main.at = "frame"
  /\ IF main.due THEN Eval([main EXCEPT !.due = FALSE], "screen", "wait") ELSE Goto("wait")
  /\ frame' = (frame /\ ~main.due)
  /\ UNCHANGED <<rom, ports, events, stdin, held, inputs, notes, audio>>

\* Mutant: the event that ends the wait is taken, and nobody handles it.
Wait_Takes ==
  /\ main.at = "wait"
  /\ "screen" \in rom.vectors \/ queue # <<>>
  /\ queue' = IF "screen" \in rom.vectors THEN queue ELSE Tail(queue)
  /\ Goto("loop")
  /\ UNCHANGED <<rom, ports, lost, world, notes, audio>>

\* SDL_Delay, or SDL_WaitEvent if the ROM has no screen vector.
Wait ==
  /\ main.at = "wait"
  /\ "screen" \in rom.vectors \/ queue # <<>>
  /\ Goto("loop")
  /\ UNCHANGED <<rom, ports, events, world, notes, audio>>

-----------------------------------------------------------------------------
(* The other threads, the user and the clock.                              *)

StdinRead ==
  /\ stdin.at = "read"
  /\ stdin' = IF stdin.count < Len(rom.bytes)
              THEN [at |-> "push", count |-> stdin.count + 1] ELSE [stdin EXCEPT !.at = "end"]
  /\ UNCHANGED <<rom, main, ports, events, frame, held, inputs, notes, audio>>

\* Mutant: a byte that finds the queue full is not tried again.
StdinPush_Once ==
  /\ stdin.at \in {"push", "end"}
  /\ PushOrLose([type |-> "stdin", in |-> StdinInputs(rom.bytes)[
                   IF stdin.at = "push" THEN stdin.count ELSE stdin.count + 1]])
  /\ stdin' = [stdin EXCEPT !.at = IF stdin.at = "push" THEN "read" ELSE "done"]
  /\ UNCHANGED <<rom, main, ports, frame, held, inputs, notes, audio>>

\* A push that finds the queue full is tried again later.
StdinPush ==
  /\ stdin.at \in {"push", "end"} /\ Len(queue) < MaxQueue
  /\ queue' = Append(queue, [type |-> "stdin", in |-> StdinInputs(rom.bytes)[
                               IF stdin.at = "push" THEN stdin.count ELSE stdin.count + 1]])
  /\ stdin' = [stdin EXCEPT !.at = IF stdin.at = "push" THEN "read" ELSE "done"]
  /\ UNCHANGED <<rom, main, ports, lost, frame, held, inputs, notes, audio>>

\* Mutant: a voice is announced only when its sample ends, not when its envelope does.
FinishVoice_SampleOnly ==
  /\ RenderLeave
  /\ IF ~Playing(callback.instance) /\ ~Over(voice[callback.instance])
     THEN PushOrLose([type |-> "finished", voice |-> callback.instance]) ELSE UNCHANGED events
  /\ UNCHANGED <<rom, main, ports, world, notes>>

\* The end of audio_render: a voice that has ended is announced.
FinishVoice ==
  /\ RenderLeave
  /\ IF ~Playing(callback.instance)
     THEN /\ PushOrLose([type |-> "finished", voice |-> callback.instance])
          /\ open' = open \ {callback.instance}
     ELSE UNCHANGED <<events, open>>
  /\ UNCHANGED <<rom, main, ports, world, starts, cut>>

Render ==
  /\ CallbackBegin \/ RenderEnter \/ RenderSample
  /\ UNCHANGED <<rom, main, ports, events, world, notes>>

FrameDue ==
  /\ ~frame /\ main.at # "ended"
  /\ frame' = TRUE
  /\ UNCHANGED <<rom, main, ports, events, stdin, held, inputs, notes, audio>>

\* The user does something, which makes event e and leaves h held.
Input(e, h) ==
  /\ inputs < rom.inputs /\ main.at # "ended"
  /\ inputs' = inputs + 1
  /\ held' = h
  /\ PushOrLose(e)
  /\ UNCHANGED <<rom, main, ports, stdin, frame, notes, audio>>

Press(k) ==
  /\ k \in rom.keys
  /\ Input([type |-> IF k = "mouse1" THEN "mousedown" ELSE "keydown", sym |-> k],
           [held EXCEPT !.keys = @ \cup {k}])

Release(k) ==
  /\ k \in held.keys
  /\ Input([type |-> IF k = "mouse1" THEN "mouseup" ELSE "keyup", sym |-> k],
           [held EXCEPT !.keys = @ \ {k}])

MoveAxis(x, mask) ==
  /\ "axis" \in rom.user /\ mask # held[x]
  /\ Input([type |-> "axis", axis |-> x, mask |-> mask], [held EXCEPT ![x] = mask])

MoveHat(mask) ==
  /\ "hat" \in rom.user /\ mask # held.hat
  /\ Input([type |-> "hat", mask |-> mask], [held EXCEPT !.hat = mask])

Other(t) == t \in rom.user /\ Input([type |-> t], held)

User ==
  \/ \E k \in Key \cup {"mouse1"} : Press(k) \/ Release(k)
  \/ \E x \in {"x", "y"} : \E mask \in {{}} \cup {{d} : d \in AxisMask(x)} : MoveAxis(x, mask)
  \/ \E mask \in Hat : MoveHat(mask)
  \/ \E t \in {"text", "wheel", "quit"} : Other(t)

Main ==
  \/ Brk \/ Unpause
  \/ Argument \/ Loop \/ TakeEvent \/ NoMoreEvents \/ Clear \/ Peep \/ Frame \/ Wait

Rom ==
  \/ Halt
  \/ \E v \in Voice : ReadVu(v) \/ \E n \in rom.notes : StartNote(v, n)

Stdin    == StdinRead \/ StdinPush
Callback == Render \/ FinishVoice

Next == Main \/ Rom \/ Stdin \/ Callback \/ FrameDue \/ User

Spec == Init /\ [][Next]_vars

\* Every thread is scheduled, a vector comes to its BRK, and time passes; nobody
\* owes a byte of standard input, an event of the user, or what a ROM may do.
FairSpec == Spec /\ WF_vars(Main) /\ WF_vars(StdinPush) /\ WF_vars(Callback) /\ WF_vars(FrameDue)

-----------------------------------------------------------------------------
(* What the loop and the devices promise.                                  *)

Place == {"vector", "unpause", "args", "loop", "events", "clear", "peep", "frame", "wait", "ended"}

Where == [at : Place, vector : Vector \cup {"boot"}, then : Place \ {"unpause"},
          told : Nat, due : BOOLEAN, sym : Key \cup {"none"}]

Event == [type : {"quit", "text", "wheel"}]
           \cup [type : {"finished"}, voice : Voice]
           \cup [type : {"keydown", "keyup"}, sym : Key]
           \cup [type : {"mousedown", "mouseup"}, sym : {"mouse1"}]
           \cup [type : {"axis"}, axis : {"x", "y"}, mask : SUBSET Directions]
           \cup [type : {"hat"}, mask : SUBSET Directions]
           \cup [type : {"stdin"}, in : [c : Byte, type : {"STD", "END"}]]

\* Every variable keeps its type; of the history, given is ConsoleInOrder's.
TypeOK ==
  /\ rom \in Programs
  /\ main \in Where
  /\ state \in BOOLEAN /\ lost \in BOOLEAN /\ frame \in BOOLEAN
  /\ buttons \subseteq Button /\ pulse \in {"none", "key", "wheel"}
  /\ queue \in Seq(Event) /\ Len(queue) <= MaxQueue
  /\ stdin \in [at : {"read", "push", "end", "done"}, count : 0 .. Len(rom.bytes)]
  /\ held \in [keys : SUBSET (Key \cup {"mouse1"}), hat : Hat,
               x : SUBSET AxisMask("x"), y : SUBSET AxisMask("y")]
  /\ inputs \in Nat /\ starts \in Nat
  /\ open \subseteq Voice /\ cut \subseteq Voice
  /\ AudioTypeOK

\* The types, and a voice that stays in its sample and its envelope.
Sound == TypeOK /\ InSample /\ Decays

\* No voice plays into a device that stays paused: main is about to unpause it
\* (uxnemu.c:80-83, 136-139).
PlayingIsHeard == (\E v \in Voice : Playing(v)) /\ paused => main.at = "unpause"

\* The ROM is told the characters of the arguments, then the bytes of standard input,
\* then its end, each once and in order, though two threads give them and the queue may
\* be full; a byte 255 of an argument is told as an end (console.c:23, 33-36,
\* uxnemu.c:157-165).
ConsoleInOrder ==
  LET all == ArgumentInputs(rom.args) \o StdinInputs(rom.bytes)
  IN IsPrefix(given, [k \in DOMAIN all |-> Told(all[k])])

\* The user holds b, or a hat or an axis that has not been in its middle since it
\* pressed b: one that goes straight from up to left leaves up pressed.
Holds(b) ==
  \/ b \in held.keys
  \/ held.hat # {} /\ b \in Directions
  \/ \E x \in {"x", "y"} : held[x] # {} /\ b \in AxisMask(x)

\* When the loop has taken every event and none was lost, every button that is pressed
\* is held, or a direction of a hat or an axis that is off its middle
\* (controller.c:27, uxnemu.c:394, 412).
ButtonsAreHeld == ~lost /\ queue = <<>> => \A b \in buttons : Holds(b)

\* Only the vector that is called for a key or the wheel sees it in the ports
\* (controller.c:39-41, mouse.c:97-99).
PulseIsTransient ==
  main.at = "vector" /\ pulse # "none" =>
    main.vector = (IF pulse = "key" THEN "controller" ELSE "mouse") /\ main.then = "clear"

\* What the ROM reads from the input ports: no button that nothing holds any more, and
\* no key nor wheel that is over.
InputPorts == ButtonsAreHeld /\ PulseIsTransient

\* A note ends if it is not repeated or has an envelope, and its ROM is called: unless
\* another note took its place, or reading the VU port ended it (audio.c:115), the
\* queue was full, or the ROM has no vector for it or has halted.  i has 16 bits, so
\* that a sample which all but fills the memory may pass its end unnoticed.
Ends(c) == \/ c.r # 0
           \/ ~c.repeat /\ c.len + c.advance \div c.period < MEMORY
EndIsHeard ==
  \A v \in Voice :
    (AudioVector(v) \in rom.vectors /\ Playing(v) /\ Ends(voice[v])) ~>
      \/ main.at = "vector" /\ main.vector = AudioVector(v)
      \/ v \in cut \/ lost \/ state \/ main.at = "ended"

\* The end of a note is announced once: the callback does not announce a voice again
\* that it, a stop or a VU has ended before (audio.c:54, 70).
EndOnce ==
  [][callback.at = "leave" /\ callback' # callback /\ ~Playing(callback.instance)
       => callback.instance \in open]_vars

\* What standard input has read reaches the ROM, unless the emulator ends: no byte
\* waits for ever for room in the queue or for main to wake up.
InputIsHeard ==
  \A n \in 1 .. 3 : stdin.count >= n ~>
    main.at = "ended" \/ Len(given) >= Len(ArgumentInputs(rom.args)) + n

\* With a screen vector the loop notices that the ROM has set System/state, unless
\* F4 cancels it (uxnemu.c:448).
HaltEnds == "screen" \in rom.vectors /\ state ~> main.at = "ended" \/ ~state
=============================================================================
