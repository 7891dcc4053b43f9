------------------------------- MODULE Audio -------------------------------
(***************************************************************************)
(* The four voices of devices/audio.c, and the callback of uxnemu.c that   *)
(* plays them in a thread of the SDL library.                              *)
(*                                                                         *)
(* The library holds the lock of the audio device for the whole of the     *)
(* callback, so audio_start and SDL_PauseAudioDevice find it idle; the     *)
(* reads of a voice by DEI take no lock, so they fall between two samples. *)
(* EventLoop composes the operations here with the event queue.            *)
(*                                                                         *)
(* The samples themselves and the volumes are left out: a voice is where   *)
(* it is in its sample and in its envelope.                                *)
(***************************************************************************)
EXTENDS Integers

CONSTANTS
  POLYPHONY,      \* 4 in the code
  BUFFER,         \* the samples of one callback: 512
  MEMORY,         \* the bytes an address reaches, 0x10000
  CYCLE,          \* up to this length a sample is a single cycle: 0x100
  NOTE_PERIOD,    \* SAMPLE_FREQUENCY * 0x4000 / 11025
  CYCLE_PERIOD,   \* NOTE_PERIOD * 337 / 2
  ADSR_STEP,      \* the samples of a unit of the envelope
  FULL,           \* half of the envelope's top, 0x444
  Note            \* what a ROM may write to the ports of a voice

Voice == 0 .. POLYPHONY - 1

\* adsr are the four nibbles, advance the entry of the table of advances for the
\* pitch: 0 when the pitch is 108 or more.
ASSUME NoteAssumption ==
  Note \subseteq [addr : 0 .. MEMORY - 1, len : 0 .. MEMORY - 1, advance : Nat,
                  adsr : [1 .. 4 -> Nat], repeat : BOOLEAN]

ASSUME AudioAssumption ==
  /\ POLYPHONY \in Nat \ {0} /\ BUFFER \in Nat \ {0} /\ MEMORY \in Nat \ {0}
  /\ CYCLE \in Nat /\ NOTE_PERIOD \in Nat \ {0}
  /\ CYCLE_PERIOD \in Nat /\ CYCLE_PERIOD >= CYCLE
  /\ ADSR_STEP \in Nat /\ FULL \in Nat

VARIABLES
  voice,          \* uxn_audio
  paused,         \* the device is paused
  callback        \* where audio_callback is

audio == <<voice, paused, callback>>

Silent == [addr |-> 0, count |-> 0, advance |-> 0, period |-> 0, age |-> 0,
           a |-> 0, d |-> 0, s |-> 0, r |-> 0, i |-> 0, len |-> 0, repeat |-> FALSE]

\* at is "idle", "enter" (audio_render begins), "sample" or "leave"; running says
\* that a voice has rendered.
AudioInit ==
  /\ voice = [v \in Voice |-> Silent]
  /\ paused = TRUE
  /\ callback = [at |-> "idle", instance |-> 0, left |-> 0, running |-> FALSE]

\* Nobody has the lock of the audio device.
Unlocked == callback.at = "idle"

Playing(v) == voice[v].advance # 0

-----------------------------------------------------------------------------
(* audio_start and the envelope.                                           *)

\* Mutant: the length is not cut at the end of the memory.
Started_Uncut(c, n) ==
  IF n.advance = 0 \/ n.len = 0
  THEN [c EXCEPT !.addr = n.addr, !.len = n.len, !.repeat = n.repeat, !.advance = 0]
  ELSE [c EXCEPT !.addr = n.addr, !.len = n.len, !.repeat = n.repeat, !.advance = n.advance,
                 !.age = 0, !.i = 0,
                 !.a = ADSR_STEP * n.adsr[1],
                 !.d = ADSR_STEP * (n.adsr[1] + n.adsr[2]),
                 !.s = ADSR_STEP * (n.adsr[1] + n.adsr[2] + n.adsr[3]),
                 !.r = ADSR_STEP * (n.adsr[1] + n.adsr[2] + n.adsr[3] + n.adsr[4]),
                 !.period = IF n.len <= CYCLE THEN CYCLE_PERIOD \div n.len ELSE NOTE_PERIOD]

\* Voice c after audio_start with note n.  The count that is left of the last note
\* stays.
Started(c, n) ==
  LET len  == IF n.len > MEMORY - n.addr THEN MEMORY - n.addr ELSE n.len
      a    == ADSR_STEP * n.adsr[1]
      d    == ADSR_STEP * n.adsr[2] + a
      s    == ADSR_STEP * n.adsr[3] + d
      base == [c EXCEPT !.addr = n.addr, !.len = len, !.repeat = n.repeat]
  IN IF n.advance = 0 \/ len = 0
     THEN [base EXCEPT !.advance = 0]
     ELSE [base EXCEPT !.advance = n.advance, !.age = 0, !.i = 0,
                       !.a = a, !.d = d, !.s = s, !.r = ADSR_STEP * n.adsr[4] + s,
                       !.period = IF len <= CYCLE THEN CYCLE_PERIOD \div len ELSE NOTE_PERIOD]

\* envelope ends the voice when the release is over.
Over(c) == c.r # 0 /\ c.age >= c.r

\* What envelope returns: attack, decay, sustain, release.
Level(c, age) ==
  IF c.r = 0 THEN 2 * FULL
  ELSE IF age < c.a THEN (2 * FULL * age) \div c.a
  ELSE IF age < c.d THEN (FULL * (2 * c.d - c.a - age)) \div (c.d - c.a)
  ELSE IF age < c.s THEN FULL
  ELSE IF age < c.r THEN (FULL * (c.r - age)) \div (c.r - c.s)
  ELSE 0

\* Voice c after one turn of the loop of audio_render.  i has 16 bits.  The age is
\* not counted past r, where it makes no difference.
Sampled(c) ==
  LET count == c.count + c.advance
      i     == (c.i + count \div c.period) % MEMORY
      moved == [c EXCEPT !.count = count % c.period, !.i = IF i >= c.len THEN i % c.len ELSE i]
  IN IF i >= c.len /\ ~c.repeat
     THEN [moved EXCEPT !.i = i, !.advance = 0]
     ELSE [moved EXCEPT !.advance = IF Over(c) THEN 0 ELSE @,
                        !.age = IF c.age < c.r THEN @ + 1 ELSE @]

\* The turn was the one that passed the end: the loop breaks.
Breaks(c) == ~c.repeat /\ (c.i + (c.count + c.advance) \div c.period) % MEMORY >= c.len

-----------------------------------------------------------------------------
(* The thread of the library.                                              *)

CallbackBegin ==
  /\ callback.at = "idle" /\ ~paused
  /\ callback' = [at |-> "enter", instance |-> 0, left |-> BUFFER, running |-> FALSE]
  /\ UNCHANGED <<voice, paused>>

\* Mutant: the device is paused when the last voice was silent.
NextVoice_LastDecides(running) ==
  IF callback.instance + 1 < POLYPHONY
  THEN /\ callback' = [at |-> "enter", instance |-> callback.instance + 1, left |-> BUFFER,
                       running |-> FALSE]
       /\ UNCHANGED paused
  ELSE /\ callback' = [at |-> "idle", instance |-> 0, left |-> 0, running |-> FALSE]
       /\ paused' = ~running

\* The callback goes on to the next voice, or ends; if no voice has rendered it pauses
\* the device.
NextVoice(running) ==
  IF callback.instance + 1 < POLYPHONY
  THEN /\ callback' = [at |-> "enter", instance |-> callback.instance + 1, left |-> BUFFER,
                       running |-> running]
       /\ UNCHANGED paused
  ELSE /\ callback' = [at |-> "idle", instance |-> 0, left |-> 0, running |-> FALSE]
       /\ paused' = ~running

\* Mutant: a silent voice renders too.
RenderEnter_Silent ==
  LET c == voice[callback.instance]
  IN /\ callback.at = "enter"
     /\ IF c.period = 0
        THEN NextVoice(callback.running)
        ELSE callback' = [callback EXCEPT !.at = "sample", !.running = TRUE] /\ UNCHANGED paused
     /\ UNCHANGED voice

RenderEnter ==
  LET c == voice[callback.instance]
  IN /\ callback.at = "enter"
     /\ IF c.advance = 0 \/ c.period = 0
        THEN NextVoice(callback.running)
        ELSE callback' = [callback EXCEPT !.at = "sample", !.running = TRUE] /\ UNCHANGED paused
     /\ UNCHANGED voice

RenderSample ==
  LET v == callback.instance
  IN /\ callback.at = "sample"
     /\ voice' = [voice EXCEPT ![v] = Sampled(@)]
     /\ callback' = [callback EXCEPT !.left = @ - 1,
                                     !.at = IF Breaks(voice[v]) \/ callback.left = 1
                                            THEN "leave" ELSE "sample"]
     /\ UNCHANGED paused

\* What of audio_render's end concerns the voices; a voice that has ended is
\* announced (audio_finished_handler).
RenderLeave ==
  /\ callback.at = "leave"
  /\ NextVoice(callback.running)
  /\ UNCHANGED voice

-----------------------------------------------------------------------------
(* The calls of main.                                                      *)

AudioStart(v, n) ==
  /\ Unlocked
  /\ voice' = [voice EXCEPT ![v] = Started(@, n)]
  /\ UNCHANGED <<paused, callback>>

AudioUnpause ==
  /\ Unlocked
  /\ paused' = FALSE
  /\ UNCHANGED <<voice, callback>>

\* audio_get_vu computes the envelope, which may end the voice.
AudioGetVu(v) ==
  /\ voice' = IF Playing(v) /\ voice[v].period # 0 /\ Over(voice[v])
              THEN [voice EXCEPT ![v].advance = 0] ELSE voice
  /\ UNCHANGED <<paused, callback>>

-----------------------------------------------------------------------------

\* Every variable keeps its type, and the envelope its order.
Lasting == [addr : 0 .. MEMORY - 1, len : 0 .. MEMORY, i : 0 .. MEMORY - 1, repeat : BOOLEAN,
            count : Nat, advance : Nat, period : Nat, age : Nat, a : Nat, d : Nat, s : Nat, r : Nat]
AudioTypeOK ==
  /\ voice \in [Voice -> Lasting]
  /\ \A v \in Voice : voice[v].a <= voice[v].d /\ voice[v].d <= voice[v].s /\ voice[v].s <= voice[v].r
  /\ paused \in BOOLEAN
  /\ callback \in [at : {"idle", "enter", "sample", "leave"}, instance : Voice, left : 0 .. BUFFER,
                   running : BOOLEAN]

\* A voice that plays has a place within its sample, the sample lies within the
\* memory, and the period it is divided by is not zero (audio.c:56-66).
InSample ==
  \A v \in Voice : Playing(v) =>
    /\ voice[v].i < voice[v].len
    /\ voice[v].addr + voice[v].len <= MEMORY
    /\ voice[v].period > 0

\* The envelope rises during the attack, and after it only falls: without a decay it falls
\* from its top to the sustain at once (audio.c:40-46).
Decays ==
  \A v \in Voice : LET c == voice[v] IN
    Playing(v) =>
      /\ Level(c, c.age) \in 0 .. 2 * FULL
      /\ c.age + 1 < c.a => Level(c, c.age) <= Level(c, c.age + 1)
      /\ c.age >= c.a => Level(c, c.age + 1) <= Level(c, c.age)
=============================================================================
