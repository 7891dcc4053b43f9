-------------------------- MODULE EventLoop_proofs --------------------------
(***************************************************************************)
(* Proofs about EventLoop: whatever notes a ROM starts and whenever the    *)
(* callback runs, a voice stays in its sample and its envelope, none plays *)
(* into a paused device, and the end of a note is announced once; whatever *)
(* its arguments, its standard input and its user, it is given each input  *)
(* once and in order, and no button stays pressed that nobody holds.       *)
(***************************************************************************)
EXTENDS EventLoop, SequenceTheorems, WellFoundedInduction, TLAPS

-----------------------------------------------------------------------------
(* Numbers.                                                                *)

\* A product grows with its factor.
LEMMA Products ==
  ASSUME NEW c \in Nat, NEW x \in Int, NEW y \in Int, x <= y
  PROVE  c * x \in Int /\ c * y \in Int /\ c * x <= c * y
<1>1. y - x \in Nat
  OBVIOUS
<1>2. c * (y - x) >= 0
  BY <1>1, Z3
<1>3. c * (y - x) = c * y - c * x
  BY Z3
<1> QED
  BY <1>2, <1>3

\* Division with remainder.
LEMMA Quotients ==
  ASSUME NEW n \in Nat, n > 0, NEW x \in Nat
  PROVE  /\ x \div n \in Nat /\ x % n \in 0 .. n - 1
         /\ n * (x \div n) <= x /\ x < n * (x \div n) + n
<1>1. x \div n \in Nat /\ x % n \in Nat /\ x % n < n /\ x = n * (x \div n) + (x % n)
  BY SMT
<1> QED
  BY <1>1

\* A quotient grows with the number that is divided.
LEMMA QuotientsGrow ==
  ASSUME NEW n \in Nat \ {0}, NEW x \in Nat, NEW y \in Nat, x <= y
  PROVE  x \div n <= y \div n
<1> DEFINE q == x \div n
           p == y \div n
<1>1. q \in Nat /\ p \in Nat /\ n * q <= x /\ y < n * p + n
  BY Quotients
<1> HIDE DEF q, p
<1> SUFFICES ASSUME p + 1 <= q PROVE FALSE
  BY <1>1 DEF p, q
<1>2. n * (p + 1) <= n * q
  BY <1>1, Products
<1>3. n * (p + 1) = n * p + n
  BY <1>1, Z3
<1> QED
  BY <1>1, <1>2, <1>3

\* A quotient lies between the numbers whose products the divided one lies between.
LEMMA QuotientsBetween ==
  ASSUME NEW n \in Nat \ {0}, NEW x \in Nat, NEW k \in Nat
  PROVE  /\ n * k <= x => k <= x \div n
         /\ x <= n * k => x \div n <= k
<1> DEFINE q == x \div n
<1>1. q \in Nat /\ n * q <= x /\ x < n * q + n
  BY Quotients
<1> HIDE DEF q
<1>2. ASSUME n * k <= x, q + 1 <= k PROVE FALSE
  <2>1. n * (q + 1) <= n * k
    BY <1>1, <1>2, Products
  <2>2. n * (q + 1) = n * q + n
    BY <1>1, Z3
  <2> QED
    BY <1>1, <1>2, <2>1, <2>2
<1>3. ASSUME x <= n * k, k + 1 <= q PROVE FALSE
  <2>1. n * (k + 1) <= n * q
    BY <1>1, <1>3, Products
  <2>2. n * (k + 1) = n * k + n /\ n * k \in Nat
    BY <1>1, Z3
  <2> QED
    BY <1>1, <1>3, <2>1, <2>2
<1> QED
  BY <1>1, <1>2, <1>3 DEF q

-----------------------------------------------------------------------------
(* A voice.                                                                *)

\* The envelope's parts are in order.
Ordered(c) == c.a <= c.d /\ c.d <= c.s /\ c.s <= c.r

\* The voice has a place within its sample, and the sample within the memory.
Placed(c) == c.i < c.len /\ c.addr + c.len <= MEMORY /\ c.period > 0

\* The assumptions on the constants.
LEMMA Sizes ==
  /\ POLYPHONY \in Nat /\ POLYPHONY > 0 /\ BUFFER \in Nat /\ BUFFER > 0
  /\ MEMORY \in Nat /\ MEMORY > 0 /\ CYCLE \in Nat /\ CYCLE_PERIOD \in Nat /\ CYCLE <= CYCLE_PERIOD
  /\ NOTE_PERIOD \in Nat /\ NOTE_PERIOD > 0 /\ ADSR_STEP \in Nat /\ FULL \in Nat
BY AudioAssumption

\* A product of the envelope's numbers is one.
LEMMA ProductIsNat ==
  ASSUME NEW x \in Nat, NEW y \in Nat
  PROVE  x * y \in Nat
BY Z3

\* A note that is started lies in the memory, and its place is its beginning.
LEMMA StartedVoice ==
  ASSUME NEW c \in Lasting, Ordered(c), NEW n \in Note
  PROVE  /\ Started(c, n) \in Lasting /\ Ordered(Started(c, n))
         /\ Started(c, n).advance # 0 => Placed(Started(c, n))
<1> DEFINE len  == IF n.len > MEMORY - n.addr THEN MEMORY - n.addr ELSE n.len
           a    == ADSR_STEP * n.adsr[1]
           d    == ADSR_STEP * n.adsr[2] + a
           s    == ADSR_STEP * n.adsr[3] + d
           r    == ADSR_STEP * n.adsr[4] + s
           period == IF len <= CYCLE THEN CYCLE_PERIOD \div len ELSE NOTE_PERIOD
           base == [c EXCEPT !.addr = n.addr, !.len = len, !.repeat = n.repeat]
           full == [base EXCEPT !.advance = n.advance, !.age = 0, !.i = 0,
                                !.a = a, !.d = d, !.s = s, !.r = r, !.period = period]
<1>1. /\ n.addr \in 0 .. MEMORY - 1 /\ n.len \in 0 .. MEMORY - 1 /\ n.advance \in Nat
      /\ n.repeat \in BOOLEAN /\ \A j \in 1 .. 4 : n.adsr[j] \in Nat
  BY NoteAssumption
<1>2. len \in 0 .. MEMORY /\ n.addr + len <= MEMORY
  BY <1>1, Sizes
<1>3. a \in Nat /\ d \in Nat /\ s \in Nat /\ r \in Nat /\ a <= d /\ d <= s /\ s <= r
  <2>1. \A j \in 1 .. 4 : ADSR_STEP * n.adsr[j] \in Nat
    BY <1>1, Sizes, ProductIsNat
  <2> QED
    BY <2>1
<1>4. len # 0 => period \in Nat /\ period > 0
  <2> SUFFICES ASSUME len # 0 PROVE period \in Nat /\ period > 0
    OBVIOUS
  <2>1. CASE len <= CYCLE
    <3>1. len \in Nat /\ len > 0 /\ len * 1 <= CYCLE_PERIOD /\ CYCLE_PERIOD \in Nat
      BY <1>2, <2>1, Sizes
    <3> HIDE DEF len
    <3>2. CYCLE_PERIOD \div len \in Nat /\ 1 <= CYCLE_PERIOD \div len
      BY <3>1, Quotients, QuotientsBetween
    <3> QED
      BY <2>1, <3>2
  <2>2. CASE ~(len <= CYCLE)
    BY <2>2, Sizes
  <2> QED
    BY <2>1, <2>2
<1> HIDE DEF len, a, d, s, r, period
<1>5. base \in Lasting /\ Ordered(base)
  BY <1>1, <1>2 DEF Lasting, Ordered
<1>6. 0 \in 0 .. MEMORY - 1
  BY Sizes
<1>7. len # 0 => full \in Lasting /\ Ordered(full) /\ Placed(full)
  <2> SUFFICES ASSUME len # 0 PROVE full \in Lasting /\ Ordered(full) /\ Placed(full)
    OBVIOUS
  <2>1. base.addr = n.addr /\ base.len = len
    BY DEF Lasting
  <2> HIDE DEF base
  <2>2. full \in Lasting
    BY <1>1, <1>3, <1>4, <1>5, <1>6 DEF Lasting
  <2>3. /\ full.a = a /\ full.d = d /\ full.s = s /\ full.r = r
        /\ full.i = 0 /\ full.period = period /\ full.len = len /\ full.addr = n.addr
    BY <1>5, <2>1 DEF Lasting
  <2> HIDE DEF full
  <2> QED
    BY <1>2, <1>3, <1>4, <2>2, <2>3, Sizes DEF Ordered, Placed
<1>8. Started(c, n) = IF n.advance = 0 \/ len = 0 THEN [base EXCEPT !.advance = 0] ELSE full
  BY DEF Started, len, a, d, s, r, period
<1>9. [base EXCEPT !.advance = 0] \in Lasting /\ Ordered([base EXCEPT !.advance = 0])
      /\ [base EXCEPT !.advance = 0].advance = 0
  BY <1>5 DEF Lasting, Ordered
<1> QED
  BY <1>7, <1>8, <1>9

\* A turn of the loop keeps a voice in its sample.
LEMMA SampledVoice ==
  ASSUME NEW c \in Lasting, Ordered(c), c.period > 0, c.len > 0
  PROVE  /\ Sampled(c) \in Lasting /\ Ordered(Sampled(c))
         /\ Sampled(c).period = c.period /\ Sampled(c).len = c.len
         /\ Sampled(c).advance # 0 => c.advance # 0
         /\ c.addr + c.len <= MEMORY /\ Sampled(c).advance # 0 => Placed(Sampled(c))
<1> DEFINE count == c.count + c.advance
           i     == (c.i + count \div c.period) % MEMORY
           at    == IF i >= c.len THEN i % c.len ELSE i
           moved == [c EXCEPT !.count = count % c.period, !.i = at]
<1>1. /\ c.count \in Nat /\ c.advance \in Nat /\ c.period \in Nat /\ c.len \in 0 .. MEMORY
      /\ c.i \in 0 .. MEMORY - 1 /\ c.age \in Nat /\ c.addr \in 0 .. MEMORY - 1
  BY DEF Lasting
<1>2. count \in Nat /\ count \div c.period \in Nat /\ count % c.period \in Nat
  <2>1. count \in Nat /\ c.period \in Nat
    BY <1>1
  <2> HIDE DEF count
  <2>2. count \div c.period \in Nat /\ count % c.period \in 0 .. c.period - 1
    BY <2>1, Quotients
  <2> QED
    BY <2>1, <2>2
<1>3. i \in 0 .. MEMORY - 1
  <2>1. c.i + count \div c.period \in Nat
    BY <1>1, <1>2, Sizes
  <2> QED
    BY <2>1, Sizes, Quotients
<1>4. i % c.len \in 0 .. c.len - 1
  BY <1>1, <1>3, Sizes, Quotients
<1> HIDE DEF count, i
<1>5. at \in 0 .. MEMORY - 1 /\ at < c.len /\ c.len \in Nat
  BY <1>1, <1>3, <1>4, Sizes
<1> HIDE DEF at
<1>6. moved \in Lasting /\ [moved EXCEPT !.i = i, !.advance = 0] \in Lasting
  BY <1>2, <1>3, <1>5 DEF Lasting
<1> DEFINE on == [moved EXCEPT !.advance = IF Over(c) THEN 0 ELSE @,
                               !.age = IF c.age < c.r THEN @ + 1 ELSE @]
           broken == [moved EXCEPT !.i = i, !.advance = 0]
<1>7. on \in Lasting
  <2>1. (IF Over(c) THEN 0 ELSE moved.advance) \in Nat /\ (IF c.age < c.r THEN moved.age + 1 ELSE moved.age) \in Nat
    BY <1>6 DEF Lasting
  <2> HIDE DEF moved
  <2> QED
    BY <1>6, <2>1 DEF Lasting
<1>8. Sampled(c) = IF i >= c.len /\ ~c.repeat THEN broken ELSE on
  BY DEF Sampled, count, i, at
<1>9. CASE i >= c.len /\ ~c.repeat
  <2>1. broken.advance = 0 /\ broken.period = c.period /\ broken.len = c.len /\ Ordered(broken)
    BY DEF Lasting, Ordered
  <2> HIDE DEF broken, moved
  <2> QED
    BY <1>6, <1>8, <1>9, <2>1 DEF broken
<1>10. CASE ~(i >= c.len /\ ~c.repeat)
  <2>1. /\ on.period = c.period /\ on.len = c.len /\ on.addr = c.addr /\ on.i = at /\ Ordered(on)
        /\ on.advance # 0 => c.advance # 0
    BY DEF Lasting, Ordered
  <2> HIDE DEF on
  <2> QED
    BY <1>1, <1>5, <1>7, <1>8, <1>10, <2>1 DEF Placed
<1> QED
  BY <1>9, <1>10

\* The envelope rises during the attack and falls after it.
LEMMA EnvelopeDecays ==
  ASSUME NEW c \in Lasting, Ordered(c)
  PROVE  /\ Level(c, c.age) \in 0 .. 2 * FULL
         /\ c.age + 1 < c.a => Level(c, c.age) <= Level(c, c.age + 1)
         /\ c.age >= c.a => Level(c, c.age + 1) <= Level(c, c.age)
<1>1. /\ c.a \in Nat /\ c.d \in Nat /\ c.s \in Nat /\ c.r \in Nat
      /\ c.a <= c.d /\ c.d <= c.s /\ c.s <= c.r
  BY DEF Lasting, Ordered
<1>2. FULL \in Nat /\ 2 * FULL \in Nat /\ c.age \in Nat /\ c.age + 1 \in Nat
  BY Sizes DEF Lasting
<1> DEFINE Rise(t) == (2 * FULL * t) \div c.a
           Fall(t) == (FULL * (2 * c.d - c.a - t)) \div (c.d - c.a)
           Fade(t) == (FULL * (c.r - t)) \div (c.r - c.s)
\* Of the attack.
<1>3. \A t \in 0 .. c.a : c.a > 0 =>
        /\ Rise(t) \in 0 .. 2 * FULL
        /\ t + 1 <= c.a => Rise(t) <= Rise(t + 1)
  <2> SUFFICES ASSUME NEW t \in 0 .. c.a, c.a > 0
               PROVE  /\ Rise(t) \in 0 .. 2 * FULL
                      /\ t + 1 <= c.a => Rise(t) <= Rise(t + 1)
    OBVIOUS
  <2> DEFINE n == c.a
             top == 2 * FULL
  <2>1. t \in Nat /\ t <= n /\ t + 1 \in Nat /\ n \in Nat /\ n > 0 /\ top \in Nat
    BY <1>1, <1>2
  <2> HIDE DEF n, top
  <2>2. top * t \in Nat /\ top * (t + 1) \in Nat /\ top * t <= top * (t + 1) /\ top * t <= top * n
    BY <2>1, Products, ProductIsNat
  <2>3. top * n = n * top
    BY <2>1, Z3
  <2>4. (top * t) \div n \in Nat /\ (top * t) \div n <= top
    BY <2>1, <2>2, <2>3, Quotients, QuotientsBetween
  <2>5. (top * t) \div n <= (top * (t + 1)) \div n
    BY <2>1, <2>2, QuotientsGrow
  <2> QED
    BY <2>1, <2>4, <2>5 DEF n, top
\* Of the decay.
<1>4. \A t \in c.a .. c.d : c.a < c.d =>
        /\ Fall(t) \in FULL .. 2 * FULL
        /\ t + 1 <= c.d => Fall(t + 1) <= Fall(t)
  <2> SUFFICES ASSUME NEW t \in c.a .. c.d, c.a < c.d
               PROVE  /\ Fall(t) \in FULL .. 2 * FULL
                      /\ t + 1 <= c.d => Fall(t + 1) <= Fall(t)
    OBVIOUS
  <2> DEFINE n == c.d - c.a
             x == 2 * c.d - c.a - t
             y == 2 * c.d - c.a - (t + 1)
  <2>2. n \in Nat /\ n > 0 /\ x \in Nat /\ n <= x /\ x <= 2 * n /\ 2 * n \in Nat /\ (t + 1 <= c.d => y \in Nat /\ y <= x)
    BY <1>1
  <2> HIDE DEF n, x, y
  <2>3. /\ FULL * x \in Nat /\ FULL * n <= FULL * x /\ FULL * x <= FULL * (2 * n)
        /\ t + 1 <= c.d => FULL * y \in Nat /\ FULL * y <= FULL * x
    BY <1>2, <2>2, Products, ProductIsNat
  <2>4. FULL * n = n * FULL /\ FULL * (2 * n) = n * (2 * FULL)
    BY <1>2, <2>2, Z3
  <2>5. FULL <= (FULL * x) \div n /\ (FULL * x) \div n <= 2 * FULL /\ (FULL * x) \div n \in Nat
    BY <1>2, <2>2, <2>3, <2>4, Quotients, QuotientsBetween
  <2>6. t + 1 <= c.d => (FULL * y) \div n <= (FULL * x) \div n
    BY <2>2, <2>3, QuotientsGrow
  <2> QED
    BY <1>2, <2>5, <2>6 DEF n, x, y
\* Of the release.
<1>5. \A t \in c.s .. c.r : c.s < c.r =>
        /\ Fade(t) \in 0 .. FULL
        /\ t + 1 <= c.r => Fade(t + 1) <= Fade(t)
  <2> SUFFICES ASSUME NEW t \in c.s .. c.r, c.s < c.r
               PROVE  /\ Fade(t) \in 0 .. FULL
                      /\ t + 1 <= c.r => Fade(t + 1) <= Fade(t)
    OBVIOUS
  <2> DEFINE n == c.r - c.s
             x == c.r - t
             y == c.r - (t + 1)
  <2>1. n \in Nat /\ n > 0 /\ x \in Nat /\ x <= n /\ (t + 1 <= c.r => y \in Nat /\ y <= x)
    BY <1>1
  <2> HIDE DEF n, x, y
  <2>2. /\ FULL * x \in Nat /\ FULL * x <= FULL * n
        /\ t + 1 <= c.r => FULL * y \in Nat /\ FULL * y <= FULL * x
    BY <1>2, <2>1, Products, ProductIsNat
  <2>3. FULL * n = n * FULL
    BY <1>2, <2>1, Z3
  <2>4. (FULL * x) \div n \in Nat /\ (FULL * x) \div n <= FULL
    <3> DEFINE z == FULL * x
    <3>1. z \in Nat /\ z <= n * FULL
      BY <2>2, <2>3
    <3> HIDE DEF z
    <3>2. z \div n \in Nat /\ z \div n <= FULL
      BY <1>2, <2>1, <3>1, Quotients, QuotientsBetween
    <3> QED
      BY <3>2 DEF z
  <2>5. t + 1 <= c.r => (FULL * y) \div n <= (FULL * x) \div n
    BY <2>1, <2>2, QuotientsGrow
  <2> QED
    BY <1>2, <2>4, <2>5 DEF n, x, y
<1>6. ASSUME NEW t \in Nat
      PROVE  /\ c.r # 0 /\ t < c.a => Level(c, t) = Rise(t)
             /\ c.r # 0 /\ c.a <= t /\ t < c.d => Level(c, t) = Fall(t)
             /\ c.r # 0 /\ c.d <= t /\ t < c.s => Level(c, t) = FULL
             /\ c.r # 0 /\ c.s <= t /\ t < c.r => Level(c, t) = Fade(t)
             /\ c.r # 0 /\ c.r <= t => Level(c, t) = 0
             /\ c.r = 0 => Level(c, t) = 2 * FULL
  <2>1. Level(c, t) = IF c.r = 0 THEN 2 * FULL ELSE IF t < c.a THEN Rise(t)
                      ELSE IF t < c.d THEN Fall(t) ELSE IF t < c.s THEN FULL
                      ELSE IF t < c.r THEN Fade(t) ELSE 0
    BY DEF Level
  <2> HIDE DEF Rise, Fall, Fade
  <2> QED
    BY <1>1, <2>1
<1> HIDE DEF Rise, Fall, Fade
<1> DEFINE t == c.age
           u == c.age + 1
<1>7. t \in Nat /\ u \in Nat /\ u = t + 1
  BY <1>2
<1>8. CASE c.r = 0
  <2>1. Level(c, t) = 2 * FULL /\ Level(c, u) = 2 * FULL
    BY <1>6, <1>7, <1>8
  <2> QED
    BY <1>1, <1>2, <1>8, <2>1
<1>9. CASE c.r # 0 /\ t < c.a
  <2>1. Level(c, t) = Rise(t) /\ Rise(t) \in 0 .. 2 * FULL /\ Rise(t) <= Rise(u)
    BY <1>1, <1>3, <1>6, <1>7, <1>9
  <2>2. u < c.a => Level(c, u) = Rise(u)
    BY <1>6, <1>7, <1>9
  <2> QED
    BY <1>1, <1>7, <1>9, <2>1, <2>2
<1>10. CASE c.r # 0 /\ c.a <= t /\ t < c.d
  <2>1. Level(c, t) = Fall(t) /\ Fall(t) \in FULL .. 2 * FULL /\ Fall(u) <= Fall(t)
    BY <1>1, <1>4, <1>6, <1>7, <1>10
  <2>2. CASE u < c.d
    BY <1>1, <1>2, <1>6, <1>7, <1>10, <2>1, <2>2
  <2>3. CASE u >= c.d
    BY <1>1, <1>2, <1>5, <1>6, <1>7, <1>10, <2>1, <2>3
  <2> QED
    BY <1>1, <1>7, <2>2, <2>3
<1>11. CASE c.r # 0 /\ c.d <= t /\ t < c.s
  <2>1. Level(c, t) = FULL
    BY <1>6, <1>7, <1>11
  <2>2. Level(c, u) \in {0, FULL} \/ (c.s <= u /\ u < c.r /\ Level(c, u) = Fade(u))
    BY <1>1, <1>6, <1>7, <1>11
  <2>3. c.s <= u /\ u < c.r => Fade(u) \in 0 .. FULL
    BY <1>1, <1>5, <1>7
  <2> QED
    BY <1>1, <1>2, <1>7, <1>11, <2>1, <2>2, <2>3
<1>12. CASE c.r # 0 /\ c.s <= t /\ t < c.r
  <2>1. Level(c, t) = Fade(t) /\ Fade(t) \in 0 .. FULL /\ Fade(u) <= Fade(t)
    BY <1>1, <1>5, <1>6, <1>7, <1>12
  <2>2. Level(c, u) = Fade(u) \/ Level(c, u) = 0
    BY <1>1, <1>6, <1>7, <1>12
  <2> QED
    BY <1>1, <1>2, <1>7, <1>12, <2>1, <2>2
<1>13. CASE c.r # 0 /\ c.r <= t
  <2>1. Level(c, t) = 0 /\ Level(c, u) = 0
    BY <1>1, <1>6, <1>7, <1>13
  <2> QED
    BY <1>1, <1>2, <1>7, <1>13, <2>1
<1> QED
  BY <1>1, <1>7, <1>8, <1>9, <1>10, <1>11, <1>12, <1>13

-----------------------------------------------------------------------------
(* The inductive invariant.                                                *)

\* While the callback runs the device plays; it pauses the device only when every voice
\* was silent; the voice it renders has a period to divide by, and a note that was not
\* announced yet.
Rendering ==
  /\ callback.at # "idle" => ~paused
  /\ callback.at \in {"enter", "sample"} => callback.left > 0
  /\ callback.at = "enter" /\ ~callback.running => \A v \in 0 .. callback.instance - 1 : ~Playing(v)
  /\ callback.at \in {"sample", "leave"} => callback.running /\ callback.instance \in open
  /\ callback.at = "sample" => voice[callback.instance].period > 0 /\ voice[callback.instance].len > 0

\* A voice that plays has not been announced.
Opened == open \subseteq Voice /\ \A v \in Voice : Playing(v) => v \in open

VoicesInv == AudioTypeOK /\ InSample /\ Rendering /\ Opened /\ PlayingIsHeard

\* The part of the types that is not the voices', and that what is pushed was read.
LoopTypeOK ==
  /\ rom \in Programs
  /\ main \in Where
  /\ state \in BOOLEAN /\ lost \in BOOLEAN /\ frame \in BOOLEAN
  /\ buttons \subseteq Button /\ pulse \in {"none", "key", "wheel"}
  /\ queue \in Seq(Event) /\ Len(queue) <= MaxQueue
  /\ stdin \in [at : {"read", "push", "end", "done"}, count : 0 .. Len(rom.bytes)]
  /\ stdin.at = "push" => stdin.count > 0
  /\ held \in [keys : SUBSET (Key \cup {"mouse1"}), hat : Hat,
               x : SUBSET AxisMask("x"), y : SUBSET AxisMask("y")]
  /\ inputs \in Nat /\ starts \in Nat
  /\ cut \subseteq Voice

Inv == LoopTypeOK /\ VoicesInv

\* What the properties say of the envelope follows from the types.
LEMMA InvIsSound == Inv => Sound /\ PlayingIsHeard
<1> SUFFICES ASSUME Inv PROVE Sound /\ PlayingIsHeard
  OBVIOUS
<1>1. TypeOK
  BY DEF Inv, LoopTypeOK, VoicesInv, Opened, TypeOK
<1>2. Decays
  <2>1. \A v \in Voice : voice[v] \in Lasting /\ Ordered(voice[v])
    BY DEF Inv, VoicesInv, AudioTypeOK, Ordered
  <2> QED
    BY <2>1, EnvelopeDecays DEF Decays
<1> QED
  BY <1>1, <1>2 DEF Inv, VoicesInv, Sound

\* What a step that leaves the voices alone may do with main.
LEMMA VoicesStay ==
  ASSUME VoicesInv, UNCHANGED <<audio, open>>, main.at # "unpause" \/ main'.at = "unpause"
  PROVE  VoicesInv'
<1> USE DEF audio
<1>1. AudioTypeOK' /\ InSample' /\ Opened'
  BY DEF VoicesInv, AudioTypeOK, InSample, Opened, Playing
<1>2. Rendering'
  BY DEF VoicesInv, Rendering, Playing
<1>3. PlayingIsHeard'
  BY DEF VoicesInv, PlayingIsHeard, Playing
<1> QED
  BY <1>1, <1>2, <1>3 DEF VoicesInv

-----------------------------------------------------------------------------
(* The steps of the voices.                                                *)

\* What the invariant says of a voice.
LEMMA VoiceFacts ==
  ASSUME VoicesInv, NEW v \in Voice
  PROVE  /\ voice[v] \in Lasting /\ Ordered(voice[v])
         /\ voice[v].advance # 0 => Placed(voice[v]) /\ v \in open
BY DEF VoicesInv, AudioTypeOK, InSample, Opened, Ordered, Placed, Playing

\* The voices' part of the invariant, from that of each.
LEMMA VoicesFrom ==
  ASSUME NEW new, voice' = new, new = [v \in Voice |-> new[v]],
         \A v \in Voice : new[v] \in Lasting /\ Ordered(new[v]) /\ (new[v].advance # 0 => Placed(new[v])),
         paused' \in BOOLEAN,
         callback' \in [at : {"idle", "enter", "sample", "leave"}, instance : Voice,
                        left : 0 .. BUFFER, running : BOOLEAN]
  PROVE  AudioTypeOK' /\ InSample'
<1>1. voice' \in [Voice -> Lasting]
  OBVIOUS
<1>2. AudioTypeOK'
  BY <1>1 DEF AudioTypeOK, Ordered
<1>3. InSample'
  BY DEF InSample, Playing, Placed
<1> QED
  BY <1>2, <1>3

\* A note is started, and main is about to unpause the device.
LEMMA StartNoteKeeps ==
  ASSUME VoicesInv, main \in Where, rom \in Programs, NEW n \in rom.notes, NEW v \in Voice, StartNote(v, n)
  PROVE  VoicesInv'
<1> DEFINE new == [voice EXCEPT ![v] = Started(@, n)]
<1>1. n \in Note
  BY ProgramsAssumption
<1>2. /\ voice' = new /\ paused' = paused /\ callback' = callback /\ callback.at = "idle"
      /\ main'.at = "unpause"
      /\ open' = IF voice'[v].advance # 0 THEN open \cup {v} ELSE open \ {v}
  BY DEF StartNote, AudioStart, Unlocked, Goto, Where
<1>3. voice \in [Voice -> Lasting] /\ paused \in BOOLEAN /\ open \subseteq Voice
  BY DEF VoicesInv, AudioTypeOK, Opened
<1>4. \A w \in Voice : new[w] = IF w = v THEN Started(voice[v], n) ELSE voice[w]
  BY <1>3
<1>5. \A w \in Voice : new[w] \in Lasting /\ Ordered(new[w]) /\ (new[w].advance # 0 => Placed(new[w]))
  BY <1>1, <1>4, VoiceFacts, StartedVoice
<1>6. new = [w \in Voice |-> new[w]]
  BY <1>3
<1>7. AudioTypeOK' /\ InSample'
  <2> HIDE DEF new
  <2>1. callback' \in [at : {"idle", "enter", "sample", "leave"}, instance : Voice,
                        left : 0 .. BUFFER, running : BOOLEAN]
    BY <1>2 DEF VoicesInv, AudioTypeOK
  <2> QED
    BY <1>2, <1>3, <1>5, <1>6, <2>1, VoicesFrom
<1>8. Opened'
  <2>1. \A w \in Voice \ {v} : voice'[w].advance # 0 => w \in open
    BY <1>2, <1>4, VoiceFacts
  <2> QED
    BY <1>2, <1>3, <2>1 DEF Opened, Playing
<1>9. Rendering'
  BY <1>2 DEF Rendering
<1>10. PlayingIsHeard'
  BY <1>2 DEF PlayingIsHeard
<1> QED
  BY <1>7, <1>8, <1>9, <1>10 DEF VoicesInv

\* The device is unpaused.
LEMMA UnpauseKeeps ==
  ASSUME VoicesInv, Unpause
  PROVE  VoicesInv'
<1>1. voice' = voice /\ callback' = callback /\ paused' = FALSE /\ open' = open /\ callback.at = "idle"
  BY DEF Unpause, AudioUnpause, Unlocked, notes
<1>2. AudioTypeOK' /\ InSample' /\ Opened'
  BY <1>1 DEF VoicesInv, AudioTypeOK, InSample, Opened, Playing
<1>3. Rendering' /\ PlayingIsHeard'
  BY <1>1 DEF Rendering, PlayingIsHeard
<1> QED
  BY <1>2, <1>3 DEF VoicesInv

\* Reading the VU port may end a voice, though the callback renders it.
LEMMA ReadVuKeeps ==
  ASSUME VoicesInv, NEW v \in Voice, ReadVu(v)
  PROVE  VoicesInv'
<1> DEFINE new == voice'
<1>1. paused' = paused /\ callback' = callback /\ open' = open /\ main' = main
  BY DEF ReadVu, AudioGetVu
<1>2. voice \in [Voice -> Lasting] /\ paused \in BOOLEAN
  BY DEF VoicesInv, AudioTypeOK
<1>3. \/ voice' = voice
      \/ voice' = [voice EXCEPT ![v] = [voice[v] EXCEPT !.advance = 0]]
  BY DEF ReadVu, AudioGetVu
<1>4. \A w \in Voice :
        /\ voice'[w] \in Lasting /\ Ordered(voice'[w])
        /\ voice'[w].advance # 0 => voice'[w] = voice[w]
        /\ voice'[w].period = voice[w].period /\ voice'[w].len = voice[w].len
  <2> SUFFICES ASSUME NEW w \in Voice
               PROVE  /\ voice'[w] \in Lasting /\ Ordered(voice'[w])
                      /\ voice'[w].advance # 0 => voice'[w] = voice[w]
                      /\ voice'[w].period = voice[w].period /\ voice'[w].len = voice[w].len
    OBVIOUS
  <2>1. voice[w] \in Lasting /\ Ordered(voice[w])
    BY VoiceFacts
  <2>2. CASE voice'[w] = voice[w]
    BY <2>1, <2>2
  <2>3. CASE voice'[w] = [voice[w] EXCEPT !.advance = 0]
    BY <2>1, <2>3 DEF Lasting, Ordered
  <2> QED
    BY <1>2, <1>3, <2>2, <2>3
<1>5. voice' = [w \in Voice |-> voice'[w]]
  BY <1>2, <1>3
<1>6. AudioTypeOK' /\ InSample'
  <2>1. callback' \in [at : {"idle", "enter", "sample", "leave"}, instance : Voice,
                        left : 0 .. BUFFER, running : BOOLEAN]
    BY <1>1 DEF VoicesInv, AudioTypeOK
  <2> QED
    BY <1>1, <1>2, <1>4, <1>5, <2>1, VoiceFacts, VoicesFrom
<1>7. Opened'
  BY <1>1, <1>4 DEF VoicesInv, Opened, Playing
<1>8. callback.instance \in Voice /\ \A w \in 0 .. callback.instance - 1 : w \in Voice
  BY Sizes DEF VoicesInv, AudioTypeOK, Voice
<1>9. Rendering'
  BY <1>1, <1>4, <1>8 DEF VoicesInv, Rendering, Playing
<1>10. PlayingIsHeard'
  BY <1>1, <1>4 DEF VoicesInv, PlayingIsHeard, Playing
<1> QED
  BY <1>6, <1>7, <1>9, <1>10 DEF VoicesInv

\* What the callback's record may be.
CallbackState == [at : {"idle", "enter", "sample", "leave"}, instance : Voice, left : 0 .. BUFFER,
                  running : BOOLEAN]

\* The callback has its type, and the voices before the one it renders are voices.
LEMMA CallbackFacts ==
  ASSUME VoicesInv
  PROVE  /\ callback \in CallbackState /\ paused \in BOOLEAN /\ voice \in [Voice -> Lasting]
         /\ \A v \in 0 .. callback.instance - 1 : v \in Voice
         /\ callback.instance + 1 < POLYPHONY => callback.instance + 1 \in Voice
         /\ 0 \in Voice /\ BUFFER \in 0 .. BUFFER /\ 0 \in 0 .. BUFFER /\ BUFFER > 0
         /\ callback.instance \in Int
         /\ ~(callback.instance + 1 < POLYPHONY) => Voice = 0 .. callback.instance
BY Sizes DEF VoicesInv, AudioTypeOK, Voice, CallbackState

\* The voices are as they were, and the callback goes on.
LEMMA VoicesGoOn ==
  ASSUME VoicesInv, voice' = voice, callback' \in CallbackState, paused' \in BOOLEAN
  PROVE  AudioTypeOK' /\ InSample'
BY DEF VoicesInv, AudioTypeOK, InSample, Playing, CallbackState

\* The callback begins when the device is not paused.
LEMMA BeginKeeps ==
  ASSUME VoicesInv, CallbackBegin, main' = main, open' = open
  PROVE  VoicesInv'
<1>1. /\ voice' = voice /\ paused' = FALSE /\ paused = FALSE
      /\ callback' = [at |-> "enter", instance |-> 0, left |-> BUFFER, running |-> FALSE]
  BY CallbackFacts DEF CallbackBegin
<1>2. AudioTypeOK' /\ InSample'
  BY <1>1, CallbackFacts, VoicesGoOn DEF CallbackState
<1>3. Opened'
  BY <1>1 DEF VoicesInv, Opened, Playing
<1>4. Rendering'
  BY <1>1, CallbackFacts DEF Rendering
<1>5. PlayingIsHeard'
  BY <1>1 DEF PlayingIsHeard
<1> QED
  BY <1>2, <1>3, <1>4, <1>5 DEF VoicesInv

\* The callback goes on to the next voice, having rendered one or found all silent.
LEMMA NextVoiceKeeps ==
  ASSUME VoicesInv, callback.at # "idle", NEW running \in BOOLEAN, NextVoice(running),
         voice' = voice, main' = main, open' \subseteq open,
         ~running => \A v \in 0 .. callback.instance : ~Playing(v),
         \A v \in Voice : Playing(v) => v \in open'
  PROVE  VoicesInv'
<1>1. paused = FALSE
  BY CallbackFacts DEF VoicesInv, Rendering
<1>2. Opened'
  BY DEF VoicesInv, Opened, Playing
<1>3. CASE callback.instance + 1 < POLYPHONY
  <2>1. /\ callback' = [at |-> "enter", instance |-> callback.instance + 1, left |-> BUFFER,
                        running |-> running]
        /\ paused' = FALSE
    BY <1>1, <1>3 DEF NextVoice
  <2>2. AudioTypeOK' /\ InSample'
    BY <1>3, <2>1, CallbackFacts, VoicesGoOn DEF CallbackState
  <2>3. callback'.at = "enter" /\ callback'.running = running /\ callback'.left = BUFFER
        /\ callback'.instance - 1 = callback.instance
    BY <2>1, CallbackFacts
  <2>4. Rendering'
    BY <2>1, <2>3, CallbackFacts DEF Rendering, Playing
  <2>5. PlayingIsHeard'
    BY <2>1 DEF PlayingIsHeard
  <2> QED
    BY <1>2, <2>2, <2>4, <2>5 DEF VoicesInv
<1>4. CASE ~(callback.instance + 1 < POLYPHONY)
  <2>1. /\ callback' = [at |-> "idle", instance |-> 0, left |-> 0, running |-> FALSE]
        /\ paused' = ~running
    BY <1>4 DEF NextVoice
  <2>2. AudioTypeOK' /\ InSample'
    BY <2>1, CallbackFacts, VoicesGoOn DEF CallbackState
  <2>3. Rendering'
    BY <2>1 DEF Rendering
  <2>4. PlayingIsHeard'
    BY <1>4, <2>1, CallbackFacts DEF PlayingIsHeard, Playing
  <2> QED
    BY <1>2, <2>2, <2>3, <2>4 DEF VoicesInv
<1> QED
  BY <1>3, <1>4

\* audio_render finds a voice silent, or begins.
LEMMA EnterKeeps ==
  ASSUME VoicesInv, RenderEnter, main' = main, open' = open
  PROVE  VoicesInv'
<1> DEFINE v == callback.instance
           c == voice[v]
<1>1. callback.at = "enter" /\ voice' = voice /\ v \in Voice
  BY CallbackFacts DEF RenderEnter, CallbackState
<1>2. c \in Lasting /\ (c.advance # 0 => Placed(c) /\ v \in open)
  BY <1>1, VoiceFacts
<1>3. CASE c.advance = 0 \/ c.period = 0
  <2>1. ~Playing(v)
    BY <1>2, <1>3 DEF Playing, Placed
  <2>2. NextVoice(callback.running) /\ callback.running \in BOOLEAN
    BY <1>3, CallbackFacts DEF RenderEnter, CallbackState
  <2>3. ~callback.running => \A w \in 0 .. v : ~Playing(w)
    <3>1. ~callback.running => \A w \in 0 .. v - 1 : ~Playing(w)
      BY <1>1 DEF VoicesInv, Rendering
    <3> QED
      BY <2>1, <3>1, CallbackFacts
  <2> QED
    BY <1>1, <2>2, <2>3, NextVoiceKeeps DEF VoicesInv, Opened
<1>4. CASE ~(c.advance = 0 \/ c.period = 0)
  <2>1. callback' = [callback EXCEPT !.at = "sample", !.running = TRUE] /\ paused' = paused
    BY <1>4 DEF RenderEnter
  <2>2. callback' \in CallbackState /\ callback'.at = "sample" /\ callback'.running
        /\ callback'.instance = v /\ callback'.left = callback.left
    BY <2>1, CallbackFacts DEF CallbackState
  <2>3. AudioTypeOK' /\ InSample'
    BY <1>1, <2>1, <2>2, CallbackFacts, VoicesGoOn
  <2>4. Opened'
    BY <1>1 DEF VoicesInv, Opened, Playing
  <2>5. c.period > 0 /\ c.len > 0 /\ v \in open
    BY <1>2, <1>4 DEF Placed, Lasting
  <2>6. Rendering'
    BY <1>1, <2>1, <2>2, <2>5 DEF VoicesInv, Rendering
  <2>7. PlayingIsHeard'
    BY <1>1, <2>1 DEF VoicesInv, PlayingIsHeard, Playing
  <2> QED
    BY <2>3, <2>4, <2>6, <2>7 DEF VoicesInv
<1> QED
  BY <1>3, <1>4

\* A sample is rendered, from a voice that plays or that a VU ended meanwhile.
LEMMA SampleKeeps ==
  ASSUME VoicesInv, RenderSample, main' = main, open' = open
  PROVE  VoicesInv'
<1> DEFINE v == callback.instance
           c == voice[v]
           new == [voice EXCEPT ![v] = Sampled(@)]
<1>1. callback.at = "sample" /\ v \in Voice /\ voice' = new /\ paused' = paused
  BY CallbackFacts DEF RenderSample, CallbackState
<1>2. /\ c.period > 0 /\ c.len > 0 /\ callback.left > 0 /\ callback.running /\ v \in open
      /\ ~paused
  BY <1>1 DEF VoicesInv, Rendering
<1>3. /\ Sampled(c) \in Lasting /\ Ordered(Sampled(c))
      /\ Sampled(c).period = c.period /\ Sampled(c).len = c.len
      /\ Sampled(c).advance # 0 => Placed(Sampled(c))
  <2>1. c \in Lasting /\ Ordered(c) /\ (c.advance # 0 => Placed(c))
    BY <1>1, VoiceFacts
  <2> HIDE DEF c
  <2> QED
    BY <1>2, <2>1, SampledVoice DEF Placed
<1>4. \A w \in Voice : new[w] = IF w = v THEN Sampled(c) ELSE voice[w]
  BY CallbackFacts
<1>5. \A w \in Voice : new[w] \in Lasting /\ Ordered(new[w]) /\ (new[w].advance # 0 => Placed(new[w]) /\ w \in open)
  BY <1>2, <1>3, <1>4, VoiceFacts
<1>6. /\ callback' \in CallbackState /\ callback'.at \in {"sample", "leave"}
      /\ callback'.instance = v /\ callback'.running = callback.running
      /\ callback'.at = "sample" => callback'.left > 0
  <2>1. PICK l \in {"sample", "leave"} :
          /\ callback' = [callback EXCEPT !.left = @ - 1, !.at = l]
          /\ l = "sample" => callback.left # 1
    BY DEF RenderSample
  <2>2. callback.left \in 0 .. BUFFER /\ BUFFER \in Nat
    BY CallbackFacts, Sizes DEF CallbackState
  <2>3. callback.left - 1 \in 0 .. BUFFER /\ (l = "sample" => callback.left - 1 > 0)
    BY <1>2, <2>1, <2>2
  <2> QED
    BY <2>1, <2>3, CallbackFacts DEF CallbackState
<1>7. new = [w \in Voice |-> new[w]]
  BY CallbackFacts
<1>8. AudioTypeOK' /\ InSample'
  <2> HIDE DEF new
  <2> QED
    BY <1>1, <1>5, <1>6, <1>7, CallbackFacts, VoicesFrom DEF CallbackState
<1>9. Opened'
  BY <1>1, <1>5 DEF VoicesInv, Opened, Playing
<1>10. voice'[v].period > 0 /\ voice'[v].len > 0
  BY <1>1, <1>2, <1>3, <1>4
<1>11. Rendering'
  BY <1>1, <1>2, <1>6, <1>10 DEF Rendering
<1>12. PlayingIsHeard'
  BY <1>1, <1>2 DEF PlayingIsHeard
<1> QED
  BY <1>8, <1>9, <1>11, <1>12 DEF VoicesInv

\* audio_render is over, and a voice that has ended is announced.
LEMMA FinishKeeps ==
  ASSUME VoicesInv, FinishVoice
  PROVE  VoicesInv'
<1> DEFINE v == callback.instance
<1>1. /\ callback.at = "leave" /\ NextVoice(callback.running) /\ voice' = voice /\ main' = main
      /\ open' = IF ~Playing(v) THEN open \ {v} ELSE open
  BY DEF FinishVoice, RenderLeave
<1>2. callback.running = TRUE
  BY <1>1, CallbackFacts DEF VoicesInv, Rendering, CallbackState
<1>3. \A w \in Voice : Playing(w) => w \in open'
  BY <1>1 DEF VoicesInv, Opened
<1> QED
  BY <1>1, <1>2, <1>3, NextVoiceKeeps

-----------------------------------------------------------------------------
(* The steps of the loop.                                                  *)

\* main goes somewhere.
LEMMA GotoTyped ==
  ASSUME NEW m \in Where, NEW l \in Place
  PROVE  [m EXCEPT !.at = l] \in Where
BY DEF Where

\* main evaluates a vector, or goes on.
LEMMA EvalTyped ==
  ASSUME NEW m \in Where, NEW v \in Vector \cup {"boot"}, NEW l \in Place \ {"unpause"}, Eval(m, v, l)
  PROVE  main' \in Where
<1>1. "vector" \in Place /\ l \in Place
  BY DEF Place
<1>2. [m EXCEPT !.at = "vector", !.vector = v, !.then = l] \in Where
  BY <1>1 DEF Where
<1>3. [m EXCEPT !.at = l] \in Where
  BY <1>1, GotoTyped
<1> QED
  BY <1>2, <1>3 DEF Eval

\* The places, as members of their set.
LEMMA Places ==
  /\ {"vector", "args", "loop", "events", "clear", "peep", "frame", "wait", "ended"} \subseteq Place \ {"unpause"}
  /\ {"screen", "console", "controller", "mouse"} \subseteq Vector
  /\ \A v \in Voice : AudioVector(v) \in Vector
BY DEF Place, Vector

\* An event is pushed, or lost.
LEMMA PushTyped ==
  ASSUME LoopTypeOK, NEW e \in Event, PushOrLose(e)
  PROVE  queue' \in Seq(Event) /\ Len(queue') <= MaxQueue /\ lost' \in BOOLEAN
<1>1. queue \in Seq(Event) /\ Len(queue) <= MaxQueue /\ lost \in BOOLEAN /\ Len(queue) \in Nat
  BY LenProperties DEF LoopTypeOK
<1>2. CASE Len(queue) < MaxQueue
  <2>1. queue' = Append(queue, e) /\ lost' = lost
    BY <1>2 DEF PushOrLose
  <2>2. queue' \in Seq(Event) /\ Len(queue') = Len(queue) + 1
    BY <1>1, <2>1, AppendProperties
  <2> QED
    BY <1>1, <1>2, <2>1, <2>2, MaxQueueAssumption
<1>3. CASE ~(Len(queue) < MaxQueue)
  BY <1>1, <1>3 DEF PushOrLose
<1> QED
  BY <1>2, <1>3

\* A step that changes where main is, and the ports at most.
LEMMA MainTyped ==
  ASSUME LoopTypeOK, main' \in Where, state' \in BOOLEAN, buttons' \subseteq Button,
         pulse' \in {"none", "key", "wheel"}, frame' \in BOOLEAN,
         UNCHANGED <<rom, events, stdin, held, inputs, starts, cut>>
  PROVE  LoopTypeOK'
BY DEF LoopTypeOK, events

\* The ports are as they were.
LEMMA PortsTyped ==
  ASSUME LoopTypeOK, UNCHANGED ports
  PROVE  state' \in BOOLEAN /\ buttons' \subseteq Button /\ pulse' \in {"none", "key", "wheel"}
BY DEF LoopTypeOK, ports

\* A vector begins, goes on or ends; the loop goes around.
LEMMA LoopTyped ==
  ASSUME LoopTypeOK,
         Brk \/ Halt \/ Unpause \/ Argument \/ Loop \/ NoMoreEvents \/ Clear \/ Peep \/ Frame \/ Wait
  PROVE  LoopTypeOK'
<1>1. main \in Where /\ main.then \in Place /\ state \in BOOLEAN /\ frame \in BOOLEAN
      /\ buttons \subseteq Button /\ pulse \in {"none", "key", "wheel"}
  BY DEF LoopTypeOK, Where
<1> USE DEF notes, world, ports
<1>2. CASE Brk
  <2>1. main' \in Where
    BY <1>1, <1>2, GotoTyped DEF Brk, Goto
  <2> QED
    BY <1>1, <1>2, <2>1, MainTyped DEF Brk
<1>3. CASE Halt
  BY <1>1, <1>3, MainTyped DEF Halt
<1>4. CASE Unpause
  <2>1. main' \in Where
    BY <1>1, <1>4, Places, GotoTyped DEF Unpause, Goto
  <2> QED
    BY <1>1, <1>4, <2>1, MainTyped DEF Unpause
<1>5. CASE Argument
  <2> DEFINE in == ArgumentInputs(rom.args)
             m == [main EXCEPT !.told = @ + 1]
  <2>1. m \in Where
    BY <1>1 DEF Where
  <2>2. CASE main.told < Len(in)
    <3>1. ConsoleInput(m, in[main.told + 1], "args")
      BY <1>5, <2>2 DEF Argument
    <3>2. main' \in Where /\ state' = state /\ buttons' = buttons /\ pulse' = pulse
      BY <2>1, <3>1, Places, EvalTyped DEF ConsoleInput
    <3> QED
      BY <1>1, <1>5, <3>2, MainTyped DEF Argument
  <2>3. CASE ~(main.told < Len(in))
    <3>1. Goto("loop") /\ UNCHANGED ports
      BY <1>5, <2>3 DEF Argument
    <3>2. main' \in Where
      BY <1>1, <3>1, Places, GotoTyped DEF Goto
    <3> QED
      BY <1>1, <1>5, <3>1, <3>2, MainTyped DEF Argument
  <2> QED
    BY <2>2, <2>3
<1>6. CASE Loop
  <2>1. main' \in Where
    BY <1>1, <1>6, Places DEF Loop, Where
  <2> QED
    BY <1>1, <1>6, <2>1, MainTyped DEF Loop
<1>7. CASE NoMoreEvents
  <2>1. main' \in Where
    BY <1>1, <1>7, Places, GotoTyped DEF NoMoreEvents, Goto
  <2> QED
    BY <1>1, <1>7, <2>1, MainTyped DEF NoMoreEvents
<1>8. CASE Clear
  <2>1. main' \in Where
    BY <1>1, <1>8, Places, GotoTyped DEF Clear, Goto, After
  <2> QED
    BY <1>1, <1>8, <2>1, MainTyped DEF Clear
<1>9. CASE Peep
  <2>1. main' \in Where
    <3>1. PICK l \in {"frame", "events"} : main' = [main EXCEPT !.sym = "none", !.at = l]
      BY <1>9 DEF Peep
    <3>2. l \in Place
      BY DEF Place
    <3> QED
      BY <1>1, <3>1, <3>2 DEF Where
  <2> QED
    BY <1>1, <1>9, <2>1, MainTyped DEF Peep
<1>10. CASE Frame
  <2>1. main' \in Where
    <3>1. [main EXCEPT !.due = FALSE] \in Where
      BY <1>1 DEF Where
    <3>2. CASE main.due
      BY <1>10, <3>1, <3>2, Places, EvalTyped DEF Frame
    <3>3. CASE ~main.due
      BY <1>1, <1>10, <3>3, Places, GotoTyped DEF Frame, Goto
    <3> QED
      BY <3>2, <3>3
  <2>2. UNCHANGED ports /\ frame' \in BOOLEAN
    BY <1>10 DEF Frame
  <2> QED
    BY <1>1, <1>10, <2>1, <2>2, MainTyped DEF Frame
<1>11. CASE Wait
  <2>1. main' \in Where
    BY <1>1, <1>11, Places, GotoTyped DEF Wait, Goto
  <2> QED
    BY <1>1, <1>11, <2>1, MainTyped DEF Wait
<1> QED
  BY <1>2, <1>3, <1>4, <1>5, <1>6, <1>7, <1>8, <1>9, <1>10, <1>11

\* The parts of an event, by its type.
LEMMA EventParts ==
  ASSUME NEW e \in Event
  PROVE  /\ e.type \in {"quit", "text", "wheel", "finished", "keydown", "keyup", "mousedown", "mouseup",
                        "axis", "hat", "stdin"}
         /\ e.type = "finished" => e.voice \in Voice
         /\ e.type \in {"keydown", "keyup"} => e.sym \in Key
         /\ e.type \in {"mousedown", "mouseup"} => e.sym = "mouse1"
         /\ e.type = "axis" => e.axis \in {"x", "y"} /\ e.mask \subseteq Directions
         /\ e.type = "hat" => e.mask \subseteq Directions
<1> DEFINE E1 == [type : {"quit", "text", "wheel"}]
           E2 == [type : {"finished"}, voice : Voice]
           E3 == [type : {"keydown", "keyup"}, sym : Key]
           E4 == [type : {"mousedown", "mouseup"}, sym : {"mouse1"}]
           E5 == [type : {"axis"}, axis : {"x", "y"}, mask : SUBSET Directions]
           E6 == [type : {"hat"}, mask : SUBSET Directions]
           E7 == [type : {"stdin"}, in : [c : Byte, type : {"STD", "END"}]]
<1>1. CASE e \in E1
  BY <1>1
<1>2. CASE e \in E2
  BY <1>2
<1>3. CASE e \in E3
  BY <1>3
<1>4. CASE e \in E4
  BY <1>4
<1>5. CASE e \in E5
  BY <1>5
<1>6. CASE e \in E6
  BY <1>6
<1>7. CASE e \in E7
  BY <1>7
<1> QED
  BY <1>1, <1>2, <1>3, <1>4, <1>5, <1>6, <1>7 DEF Event

\* What the handlers of the keys and the wheel do to main and the ports.
PortsOK == main' \in Where /\ state' \in BOOLEAN /\ buttons' \subseteq Button
             /\ pulse' \in {"none", "key", "wheel"}

\* A button goes down or up.
LEMMA DownTyped ==
  ASSUME LoopTypeOK, NEW m \in Where, NEW mask \in SUBSET Button, NEW l \in Place \ {"unpause"},
         Down(m, mask, l) \/ Up(m, mask, l)
  PROVE  PortsOK
<1>1. state' = state /\ pulse' = pulse /\ buttons' \subseteq Button
  BY DEF Down, Up, LoopTypeOK
<1>2. main' \in Where
  <2>1. CASE mask = {}
    BY <2>1, GotoTyped DEF Down, Up
  <2>2. CASE mask # {}
    BY <2>2, Places, EvalTyped DEF Down, Up
  <2> QED
    BY <2>1, <2>2
<1> QED
  BY <1>1, <1>2 DEF PortsOK, LoopTypeOK

\* A port is set for a vector.
LEMMA PulseTyped ==
  ASSUME LoopTypeOK, NEW m \in Where, NEW p \in {"key", "wheel"}, NEW v \in {"controller", "mouse"},
         Pulse(m, p, v)
  PROVE  PortsOK
<1>1. /\ Eval(m, v, IF Evaluates(v) THEN "clear" ELSE After(m))
      /\ pulse' \in {p, "none"} /\ state' = state /\ buttons' = buttons
  BY DEF Pulse
<1>2. (IF Evaluates(v) THEN "clear" ELSE After(m)) \in Place \ {"unpause"}
  BY DEF After, Place
<1>3. main' \in Where
  BY <1>1, <1>2, Places, EvalTyped
<1> QED
  BY <1>1, <1>3 DEF PortsOK, LoopTypeOK

\* An event is handled.
LEMMA TakeEventTyped ==
  ASSUME LoopTypeOK, TakeEvent
  PROVE  LoopTypeOK'
<1> DEFINE e == Head(queue)
<1>1. /\ queue \in Seq(Event) /\ queue # <<>> /\ queue' = Tail(queue)
      /\ UNCHANGED <<rom, lost, world, notes, audio>>
  BY DEF TakeEvent, LoopTypeOK
<1>2. e \in Event /\ queue' \in Seq(Event) /\ Len(queue') <= MaxQueue
  <2>1. e \in Event /\ queue' \in Seq(Event) /\ Len(queue') = Len(queue) - 1 /\ Len(queue) \in Nat
    BY <1>1, HeadTailProperties, LenProperties
  <2> QED
    BY <2>1, MaxQueueAssumption DEF LoopTypeOK
<1>3. main \in Where /\ state \in BOOLEAN /\ buttons \subseteq Button /\ pulse \in {"none", "key", "wheel"}
  BY DEF LoopTypeOK
<1>4. Directions \subseteq Button /\ Pad \subseteq Button /\ "mouse1" \in Button
      /\ \A x \in {"x", "y"} : AxisMask(x) \subseteq Button
  BY DEF Directions, Pad, Button, AxisMask
<1>5. PortsOK
  <2> USE DEF ports
  <2>1. CASE e.type = "quit"
    <3>1. Goto("ended") /\ UNCHANGED ports
      BY <2>1 DEF TakeEvent
    <3> QED
      BY <1>3, <3>1, Places, GotoTyped DEF Goto, PortsOK
  <2>2. CASE e.type = "finished"
    <3>1. Eval(main, AudioVector(e.voice), "events") /\ UNCHANGED ports
      BY <2>2 DEF TakeEvent
    <3>2. main' \in Where
      BY <1>2, <1>3, <2>2, <3>1, EventParts, Places, EvalTyped
    <3> QED
      BY <1>3, <3>1, <3>2 DEF PortsOK
  <2>3. CASE e.type \in {"text", "wheel"}
    <3>1. PICK p \in {"key", "wheel"}, v \in {"controller", "mouse"} : Pulse(main, p, v)
      BY <2>3 DEF TakeEvent
    <3> QED
      BY <1>3, <3>1, PulseTyped
  <2>4. CASE e.type \in {"mousedown", "mouseup"}
    <3>1. PICK b \in {buttons \cup {e.sym}, buttons \ {e.sym}} : Mouse(b)
      BY <2>4 DEF TakeEvent
    <3>2. b \subseteq Button
      BY <1>2, <1>3, <1>4, <2>4, EventParts
    <3>3. main' \in Where
      BY <1>3, <3>1, Places, EvalTyped DEF Mouse
    <3> QED
      BY <1>3, <3>1, <3>2, <3>3 DEF Mouse, PortsOK
  <2>5. CASE e.type = "keydown"
    <3> DEFINE m == [main EXCEPT !.sym = e.sym]
    <3>1. KeyDown(e.sym) /\ e.sym \in Key
      BY <1>2, <2>5, EventParts DEF TakeEvent
    <3>2. m \in Where
      BY <1>3, <3>1 DEF Where
    <3>3. CASE e.sym = "F3"
      <4>1. state' = TRUE /\ main' = [m EXCEPT !.at = "peep"] /\ UNCHANGED <<buttons, pulse, given>>
        BY <3>1, <3>3 DEF KeyDown, GetsKey
      <4> QED
        BY <1>3, <3>2, <4>1, Places, GotoTyped DEF PortsOK
    <3>4. CASE e.sym = "F4"
      <4>1. Restart(m)
        BY <3>1, <3>4 DEF KeyDown, GetsKey
      <4>2. main' \in Where
        BY <3>2, <4>1, Places DEF Restart, Where
      <4> QED
        BY <4>1, <4>2 DEF Restart, PortsOK
    <3>5. CASE GetsKey(e.sym)
      <4>1. e.sym # "F3" /\ e.sym # "F4"
        BY <3>5 DEF GetsKey
      <4> HIDE DEF m
      <4>2. Pulse([main EXCEPT !.sym = e.sym], "key", "controller")
        BY <3>1, <3>5, <4>1 DEF KeyDown
      <4> USE DEF m
      <4>3. Pulse(m, "key", "controller")
        BY <4>2
      <4> QED
        BY <1>3, <3>2, <4>3, PulseTyped
    <3>6. CASE e.sym \notin Function /\ ~GetsKey(e.sym)
      <4>1. Down(m, {e.sym} \cap Pad, "peep") /\ {e.sym} \cap Pad \subseteq Button
        BY <1>4, <3>1, <3>6 DEF KeyDown, Function
      <4> QED
        BY <3>2, <4>1, Places, DownTyped
    <3> QED
      BY <3>3, <3>4, <3>5, <3>6 DEF Function
  <2>6. CASE e.type = "keyup"
    <3>1. Up(main, {e.sym} \cap Pad, "events")
      BY <2>6 DEF TakeEvent
    <3> QED
      BY <1>3, <1>4, <3>1, Places, DownTyped
  <2>7. CASE e.type = "axis"
    <3>1. Axis(e.axis, e.mask) /\ e.axis \in {"x", "y"} /\ e.mask \subseteq Directions
      BY <1>2, <2>7, EventParts DEF TakeEvent
    <3> QED
      BY <1>3, <1>4, <3>1, Places, DownTyped DEF Axis
  <2>8. CASE e.type = "hat"
    <3>1. HatMotion(e.mask) /\ e.mask \subseteq Directions
      BY <1>2, <2>8, EventParts DEF TakeEvent
    <3> QED
      BY <1>3, <1>4, <3>1, Places, DownTyped DEF HatMotion
  <2>9. CASE e.type = "stdin"
    <3>1. ConsoleInput(main, e.in, "events")
      BY <2>9 DEF TakeEvent
    <3>2. main' \in Where /\ UNCHANGED <<state, buttons, pulse>>
      BY <1>3, <3>1, Places, EvalTyped DEF ConsoleInput
    <3> QED
      BY <1>3, <3>2 DEF PortsOK
  <2> QED
    BY <1>2, <2>1, <2>2, <2>3, <2>4, <2>5, <2>6, <2>7, <2>8, <2>9, EventParts
<1> QED
  BY <1>1, <1>2, <1>5 DEF LoopTypeOK, PortsOK, world, notes

-----------------------------------------------------------------------------
(* The other threads, the user and the clock.                              *)

\* What standard input pushes has its type.
LEMMA StdinInputTyped ==
  ASSUME rom \in Programs, NEW k \in 1 .. Len(rom.bytes) + 1
  PROVE  StdinInputs(rom.bytes)[k] \in [c : Byte, type : {"STD", "END"}]
<1> DEFINE C == [c : Byte, type : {"STD", "END"}]
           body == [j \in DOMAIN rom.bytes |-> [c |-> rom.bytes[j], type |-> "STD"]]
           end  == <<[c |-> 0, type |-> "END"]>>
<1>1. Len(rom.bytes) \in Nat /\ DOMAIN rom.bytes = 1 .. Len(rom.bytes)
      /\ \A j \in DOMAIN rom.bytes : rom.bytes[j] \in Byte
  BY ProgramsAssumption, LenProperties, ElementOfSeq
<1>2. body \in Seq(C) /\ Len(body) = Len(rom.bytes) /\ end \in Seq(C) /\ Len(end) = 1
  BY <1>1 DEF Byte
<1>3. StdinInputs(rom.bytes) = body \o end
  BY DEF StdinInputs
<1> HIDE DEF body, end, C
<1>4. body \o end \in Seq(C) /\ Len(body \o end) = Len(body) + Len(end)
  BY ONLY <1>2, ConcatProperties
<1>5. StdinInputs(rom.bytes) \in Seq(C) /\ Len(StdinInputs(rom.bytes)) = Len(rom.bytes) + 1
  BY ONLY <1>2, <1>3, <1>4
<1> QED
  BY <1>5, ElementOfSeq DEF C

\* Standard input has one byte, or its end, to push.
LEMMA StdinTyped ==
  ASSUME LoopTypeOK, StdinRead \/ StdinPush
  PROVE  LoopTypeOK'
<1> DEFINE S == [at : {"read", "push", "end", "done"}, count : 0 .. Len(rom.bytes)]
<1>1. /\ rom \in Programs /\ stdin \in S /\ (stdin.at = "push" => stdin.count > 0)
      /\ rom.bytes \in Seq(Byte) /\ Len(rom.bytes) \in Nat /\ queue \in Seq(Event)
  BY ProgramsAssumption, LenProperties DEF LoopTypeOK
<1>2. CASE StdinRead
  <2>1. stdin' \in S /\ (stdin'.at = "push" => stdin'.count > 0)
    <3>1. CASE stdin.count < Len(rom.bytes)
      <4>1. stdin' = [at |-> "push", count |-> stdin.count + 1]
        BY <1>2, <3>1 DEF StdinRead
      <4>2. stdin.count + 1 \in 0 .. Len(rom.bytes) /\ stdin.count + 1 > 0
        BY <1>1, <3>1
      <4> QED
        BY <4>1, <4>2
    <3>2. CASE ~(stdin.count < Len(rom.bytes))
      BY <1>1, <1>2, <3>2 DEF StdinRead
    <3> QED
      BY <3>1, <3>2
  <2>2. UNCHANGED <<rom, main, ports, events, frame, held, inputs, notes>>
    BY <1>2 DEF StdinRead
  <2> QED
    BY <2>1, <2>2 DEF LoopTypeOK, ports, events, notes
<1>3. CASE StdinPush
  <2> DEFINE in == StdinInputs(rom.bytes)
             k  == IF stdin.at = "push" THEN stdin.count ELSE stdin.count + 1
             e  == [type |-> "stdin", in |-> in[k]]
  <2>1. /\ queue' = Append(queue, e) /\ Len(queue) < MaxQueue
        /\ stdin' = [stdin EXCEPT !.at = IF stdin.at = "push" THEN "read" ELSE "done"]
        /\ UNCHANGED <<rom, main, ports, lost, frame, held, inputs, notes>>
    BY <1>3 DEF StdinPush
  <2>2. stdin' \in S /\ stdin'.at # "push"
    BY <1>1, <2>1
  <2>3. e \in Event
    <3>1. k \in 1 .. Len(rom.bytes) + 1
      BY <1>1
    <3>2. in[k] \in [c : Byte, type : {"STD", "END"}]
      BY <1>1, <3>1, StdinInputTyped
    <3> QED
      BY <3>2 DEF Event
  <2>4. queue' \in Seq(Event) /\ Len(queue') <= MaxQueue
    <3> HIDE DEF e
    <3> QED
      BY <1>1, <2>1, <2>3, AppendProperties, LenProperties, MaxQueueAssumption
  <2> QED
    BY <2>1, <2>2, <2>4 DEF LoopTypeOK, ports, notes
<1> QED
  BY <1>2, <1>3

\* The callback announces a voice, or not.
LEMMA CallbackTyped ==
  ASSUME LoopTypeOK, VoicesInv, Render \/ FinishVoice
  PROVE  LoopTypeOK'
<1>1. CASE Render
  BY <1>1 DEF Render, LoopTypeOK, ports, events, world, notes
<1>2. CASE FinishVoice
  <2> DEFINE e == [type |-> "finished", voice |-> callback.instance]
  <2>1. e \in Event
    BY CallbackFacts DEF Event, CallbackState
  <2>2. \/ PushOrLose(e)
        \/ UNCHANGED events
    BY <1>2 DEF FinishVoice
  <2>3. queue' \in Seq(Event) /\ Len(queue') <= MaxQueue /\ lost' \in BOOLEAN
    <3> HIDE DEF e
    <3> QED
      BY <2>1, <2>2, PushTyped DEF LoopTypeOK, events
  <2> QED
    BY <1>2, <2>3 DEF FinishVoice, LoopTypeOK, ports, world
<1> QED
  BY <1>1, <1>2

\* The ROM halts, starts a note or reads a VU port.
LEMMA RomTyped ==
  ASSUME LoopTypeOK, Rom
  PROVE  LoopTypeOK'
<1>1. CASE Halt
  BY <1>1, LoopTyped
<1>2. ASSUME NEW v \in Voice, ReadVu(v) PROVE LoopTypeOK'
  BY <1>2 DEF ReadVu, LoopTypeOK, ports, events, world
<1>3. ASSUME NEW v \in Voice, NEW n \in rom.notes, StartNote(v, n) PROVE LoopTypeOK'
  <2>1. main' \in Where
    BY <1>3, GotoTyped DEF StartNote, Goto, LoopTypeOK, Place
  <2>2. cut' \subseteq Voice /\ starts' \in Nat
    BY <1>3 DEF StartNote, LoopTypeOK
  <2>3. UNCHANGED <<rom, ports, events, world>>
    BY <1>3 DEF StartNote
  <2> QED
    BY <2>1, <2>2, <2>3 DEF LoopTypeOK, ports, events, world
<1> QED
  BY <1>1, <1>2, <1>3 DEF Rom

\* The user makes an event, and holds something or not.
LEMMA InputTyped ==
  ASSUME LoopTypeOK, NEW e \in Event, NEW h, Input(e, h),
         h \in [keys : SUBSET (Key \cup {"mouse1"}), hat : Hat,
                x : SUBSET AxisMask("x"), y : SUBSET AxisMask("y")]
  PROVE  LoopTypeOK'
<1>1. queue' \in Seq(Event) /\ Len(queue') <= MaxQueue /\ lost' \in BOOLEAN
  BY PushTyped DEF Input
<1>2. held' = h /\ inputs' \in Nat /\ UNCHANGED <<rom, main, ports, stdin, frame, notes>>
  BY DEF Input, LoopTypeOK
<1> QED
  BY <1>1, <1>2 DEF LoopTypeOK, ports, notes

\* What the user may do.
LEMMA UserTyped ==
  ASSUME LoopTypeOK, User
  PROVE  LoopTypeOK'
<1> DEFINE H == [keys : SUBSET (Key \cup {"mouse1"}), hat : Hat,
                 x : SUBSET AxisMask("x"), y : SUBSET AxisMask("y")]
<1>1. held \in H
  BY DEF LoopTypeOK
<1>2. ASSUME NEW k \in Key \cup {"mouse1"}, Press(k) \/ Release(k) PROVE LoopTypeOK'
  <2>1. PICK t \in {"mousedown", "mouseup", "keydown", "keyup"}, h \in H :
          /\ Input([type |-> t, sym |-> k], h)
          /\ IF k = "mouse1" THEN t \in {"mousedown", "mouseup"} ELSE t \in {"keydown", "keyup"}
    <3>1. CASE Press(k)
      <4> DEFINE h == [held EXCEPT !.keys = @ \cup {k}]
      <4>1. h \in H
        BY <1>1
      <4> QED
        BY <3>1, <4>1 DEF Press
    <3>2. CASE Release(k)
      <4> DEFINE h == [held EXCEPT !.keys = @ \ {k}]
      <4>1. h \in H
        BY <1>1
      <4> QED
        BY <3>2, <4>1 DEF Release
    <3> QED
      BY <1>2, <3>1, <3>2
  <2>2. [type |-> t, sym |-> k] \in Event
    BY <2>1 DEF Event, Button
  <2> QED
    BY <2>1, <2>2, InputTyped
<1>3. ASSUME NEW x \in {"x", "y"}, NEW mask \in {{}} \cup {{d} : d \in AxisMask(x)}, MoveAxis(x, mask)
      PROVE  LoopTypeOK'
  <2> DEFINE h == [held EXCEPT ![x] = mask]
             e == [type |-> "axis", axis |-> x, mask |-> mask]
  <2>1. mask \subseteq AxisMask(x) /\ AxisMask(x) \subseteq Directions
    BY <1>3 DEF AxisMask, Directions
  <2>2. h \in H
    BY <1>1, <1>3, <2>1
  <2>3. e \in Event
    BY <1>3, <2>1 DEF Event
  <2>4. Input(e, h)
    BY <1>3 DEF MoveAxis
  <2> HIDE DEF h, e
  <2> QED
    BY <2>2, <2>3, <2>4, InputTyped
<1>4. ASSUME NEW mask \in Hat, MoveHat(mask) PROVE LoopTypeOK'
  <2> DEFINE h == [held EXCEPT !.hat = mask]
             e == [type |-> "hat", mask |-> mask]
  <2>1. h \in H /\ e \in Event
    BY <1>1 DEF Hat, Event
  <2>2. Input(e, h)
    BY <1>4 DEF MoveHat
  <2> HIDE DEF h, e
  <2> QED
    BY <2>1, <2>2, InputTyped
<1>5. ASSUME NEW t \in {"text", "wheel", "quit"}, Other(t) PROVE LoopTypeOK'
  BY <1>1, <1>5, InputTyped DEF Other, Event
<1> QED
  BY <1>2, <1>3, <1>4, <1>5 DEF User

-----------------------------------------------------------------------------
(* The theorems.                                                           *)

\* main starts in the boot vector, with nothing to play.
LEMMA InitInv == Init => Inv
<1> SUFFICES ASSUME Init PROVE Inv
  OBVIOUS
<1> USE DEF Init
<1>1. main \in Where
  BY DEF Where, Place, Vector
<1>2. stdin \in [at : {"read", "push", "end", "done"}, count : 0 .. Len(rom.bytes)]
  <2>1. Len(rom.bytes) \in Nat
    BY ProgramsAssumption, LenProperties
  <2> QED
    BY <2>1
<1>3. queue \in Seq(Event) /\ Len(queue) <= MaxQueue
  BY EmptySeq, MaxQueueAssumption
<1>4. held \in [keys : SUBSET (Key \cup {"mouse1"}), hat : Hat,
                x : SUBSET AxisMask("x"), y : SUBSET AxisMask("y")]
  <2>1. {} \in Hat
    BY DEF Hat, AxisMask
  <2> QED
    BY <2>1
<1>5. LoopTypeOK
  BY <1>1, <1>2, <1>3, <1>4 DEF LoopTypeOK
<1>6. \A v \in Voice : voice[v] = Silent
  BY DEF AudioInit
<1>7. Silent \in Lasting /\ Ordered(Silent) /\ Silent.advance = 0
  BY Sizes DEF Silent, Lasting, Ordered
<1>8. AudioTypeOK
  <2>1. voice \in [Voice -> Lasting]
    BY <1>7 DEF AudioInit
  <2>2. callback \in [at : {"idle", "enter", "sample", "leave"}, instance : Voice, left : 0 .. BUFFER,
                      running : BOOLEAN]
    BY Sizes DEF AudioInit, Voice
  <2> QED
    BY <1>6, <1>7, <2>1, <2>2 DEF AudioInit, AudioTypeOK, Ordered
<1>9. InSample /\ Opened /\ PlayingIsHeard
  BY <1>6, <1>7 DEF InSample, Opened, PlayingIsHeard, Playing
<1>10. Rendering
  BY DEF AudioInit, Rendering
<1> QED
  BY <1>5, <1>8, <1>9, <1>10 DEF Inv, VoicesInv

\* Every step keeps the invariant.
LEMMA StepInv == Inv /\ [Next]_vars => Inv'
<1> SUFFICES ASSUME LoopTypeOK, VoicesInv, [Next]_vars PROVE LoopTypeOK' /\ VoicesInv'
  BY DEF Inv
<1>1. CASE Brk \/ Halt \/ Argument \/ Loop \/ NoMoreEvents \/ Clear \/ Peep \/ Frame \/ Wait
  <2>1. UNCHANGED <<audio, open>> /\ (main.at # "unpause" \/ main' = main)
    BY <1>1 DEF Brk, Halt, Argument, Loop, NoMoreEvents, Clear, Peep, Frame, Wait, notes
  <2> QED
    BY <1>1, <2>1, LoopTyped, VoicesStay
<1>2. CASE Unpause
  BY <1>2, LoopTyped, UnpauseKeeps
<1>3. CASE TakeEvent
  <2>1. UNCHANGED <<audio, open>> /\ main.at # "unpause"
    BY <1>3 DEF TakeEvent, notes
  <2> QED
    BY <1>3, <2>1, TakeEventTyped, VoicesStay
<1>4. CASE Rom
  <2>1. LoopTypeOK'
    BY <1>4, RomTyped
  <2>2. ASSUME NEW v \in Voice, ReadVu(v) PROVE VoicesInv'
    BY <2>2, ReadVuKeeps
  <2>3. ASSUME NEW v \in Voice, NEW n \in rom.notes, StartNote(v, n) PROVE VoicesInv'
    BY <2>3, StartNoteKeeps DEF LoopTypeOK
  <2> QED
    BY <1>1, <1>4, <2>1, <2>2, <2>3 DEF Rom
<1>5. CASE Stdin
  <2>1. UNCHANGED <<audio, open, main>>
    BY <1>5 DEF Stdin, StdinRead, StdinPush, notes
  <2> QED
    BY <1>5, <2>1, StdinTyped, VoicesStay DEF Stdin
<1>6. CASE Callback
  <2>1. LoopTypeOK'
    BY <1>6, CallbackTyped DEF Callback
  <2>2. CASE Render
    <3>1. main' = main /\ open' = open
      BY <2>2 DEF Render, notes
    <3>2. CASE CallbackBegin
      BY <2>1, <3>1, <3>2, BeginKeeps
    <3>3. CASE RenderEnter
      BY <2>1, <3>1, <3>3, EnterKeeps
    <3>4. CASE RenderSample
      BY <2>1, <3>1, <3>4, SampleKeeps
    <3> QED
      BY <2>2, <3>2, <3>3, <3>4 DEF Render
  <2> QED
    BY <1>6, <2>1, <2>2, FinishKeeps DEF Callback
<1>7. CASE FrameDue
  <2>1. UNCHANGED <<audio, open, main>>
    BY <1>7 DEF FrameDue, notes
  <2>2. LoopTypeOK'
    BY <1>7 DEF FrameDue, LoopTypeOK, ports, events, notes
  <2> QED
    BY <2>1, <2>2, VoicesStay
<1>8. CASE User
  <2>1. UNCHANGED <<audio, open, main>>
    BY <1>8 DEF User, Press, Release, MoveAxis, MoveHat, Other, Input, notes
  <2> QED
    BY <1>8, <2>1, UserTyped, VoicesStay
<1>9. CASE UNCHANGED vars
  <2>1. UNCHANGED <<audio, open, main>>
    BY <1>9 DEF vars, notes
  <2>2. LoopTypeOK'
    BY <1>9 DEF vars, LoopTypeOK, ports, events, world, notes
  <2> QED
    BY <2>1, <2>2, VoicesStay
<1> QED
  BY <1>1, <1>2, <1>3, <1>4, <1>5, <1>6, <1>7, <1>8, <1>9 DEF Next, Main

\* The invariant always holds.
LEMMA Invariance == Spec => []Inv
  BY InitInv, StepInv, PTL DEF Spec

\* Whatever notes a ROM starts, a voice stays in its sample and its envelope rises and then
\* falls; every variable keeps its type.
THEOREM VoicesSound == Spec => []Sound
<1>1. Inv => Sound
  BY InvIsSound
<1> QED
  BY <1>1, Invariance, PTL

\* No voice plays into a device that stays paused, wherever main and the callback are.
THEOREM Heard == Spec => []PlayingIsHeard
<1>1. Inv => PlayingIsHeard
  BY InvIsSound
<1> QED
  BY <1>1, Invariance, PTL

\* The end of a note is announced once.
THEOREM AnnouncedOnce == Spec => EndOnce
<1>1. Inv /\ [Next]_vars =>
        [callback.at = "leave" /\ callback' # callback /\ ~Playing(callback.instance)
           => callback.instance \in open]_vars
  BY DEF Inv, VoicesInv, Rendering
<1> QED
  BY <1>1, Invariance, PTL DEF Spec, EndOnce

-----------------------------------------------------------------------------
(* Sequences of sequences.                                                 *)

\* A set of numbers has a least one.
LEMMA Least ==
  ASSUME NEW T \in SUBSET Nat, T # {}
  PROVE  \E x \in T : \A y \in T : x <= y
<1>1. PICK x \in T : \A y \in T : ~ (<<y, x>> \in OpToRel(<, Nat))
  BY NatLessThanWellFounded, WFMin
<1>2. \A y \in T : ~ (y < x)
  BY <1>1 DEF OpToRel
<1> QED
  BY <1>2

\* What holds of 0 and of the successor holds of all numbers.
LEMMA Induction ==
  ASSUME NEW T, 0 \in T, \A n \in T : n \in Nat => n + 1 \in T
  PROVE  Nat \subseteq T
<1> SUFFICES ASSUME Nat \ T # {} PROVE FALSE
  OBVIOUS
<1>1. PICK n \in Nat \ T : \A m \in Nat \ T : n <= m
  BY Least
<1>2. n # 0 /\ n - 1 \in Nat
  BY <1>1
<1>3. n - 1 \notin T
  BY <1>2
<1> QED
  BY <1>1, <1>2, <1>3

\* What FlattenSeq is of s, and what a function is that does it step by step.
Flatten(s, n, g) == g = [i \in 1 .. n |-> IF i = 1 THEN s[i] ELSE g[i - 1] \o s[i]]

\* There is such a function.
LEMMA FlattenExists ==
  ASSUME NEW s, NEW n \in Nat
  PROVE  \E g : Flatten(s, n, g)
<1> DEFINE T == {k \in Nat : \E g : Flatten(s, k, g)}
<1>1. 0 \in T
  <2> DEFINE g == [i \in {} |-> {}]
  <2>1. g = [i \in 1 .. 0 |-> IF i = 1 THEN s[i] ELSE g[i - 1] \o s[i]]
    OBVIOUS
  <2>2. Flatten(s, 0, g)
    BY <2>1 DEF Flatten
  <2> QED
    BY <2>2
<1>2. ASSUME NEW k \in Nat, k \in T PROVE k + 1 \in T
  <2>1. PICK g : Flatten(s, k, g)
    BY <1>2
  <2> DEFINE last == IF k = 0 THEN s[1] ELSE g[k] \o s[k + 1]
             new == [i \in 1 .. k + 1 |-> IF i = k + 1 THEN last ELSE g[i]]
  <2>2. ASSUME NEW i \in 1 .. k + 1
        PROVE  new[i] = IF i = 1 THEN s[i] ELSE new[i - 1] \o s[i]
    <3>1. CASE i \in 1 .. k
      <4>1. g[i] = IF i = 1 THEN s[i] ELSE g[i - 1] \o s[i]
        BY <2>1, <3>1 DEF Flatten
      <4>2. new[i] = g[i] /\ (i # 1 => new[i - 1] = g[i - 1])
        BY <3>1
      <4> QED
        BY <4>1, <4>2
    <3>2. CASE i = k + 1
      <4>1. new[i] = last /\ (i # 1 => new[i - 1] = g[i - 1] /\ k # 0 /\ i - 1 = k)
        BY <3>2
      <4> QED
        BY <3>2, <4>1
    <3> QED
      BY <3>1, <3>2
  <2>3. new = [i \in 1 .. k + 1 |-> IF i = 1 THEN s[i] ELSE new[i - 1] \o s[i]]
    <3>1. new = [i \in 1 .. k + 1 |-> new[i]]
      OBVIOUS
    <3> HIDE DEF new
    <3> QED
      BY <2>2, <3>1
  <2>4. Flatten(s, k + 1, new)
    BY <2>3 DEF Flatten
  <2> QED
    BY <2>4
<1> HIDE DEF T
<1>3. Nat \subseteq T
  BY <1>1, <1>2, Induction
<1> QED
  BY <1>3 DEF T

\* Sequences one after the other are a sequence.
LEMMA FlattenIsSeq ==
  ASSUME NEW S, NEW s \in Seq(Seq(S))
  PROVE  FlattenSeq(s) \in Seq(S)
<1>1. Len(s) \in Nat /\ \A i \in 1 .. Len(s) : s[i] \in Seq(S)
  BY LenProperties, ElementOfSeq
<1>2. CASE Len(s) = 0
  <2>1. s = <<>>
    BY <1>2, EmptySeq
  <2> QED
    BY <1>2, <2>1, EmptySeq DEF FlattenSeq
<1>3. CASE Len(s) # 0
  <2> DEFINE n == Len(s)
             g == CHOOSE f : Flatten(s, n, f)
  <2>1. Flatten(s, n, g)
    BY <1>1, FlattenExists
  <2>2. FlattenSeq(s) = g[n]
    BY <1>3 DEF FlattenSeq, Flatten
  <2> HIDE DEF g
  <2>3. \A i \in 1 .. n : g[i] = IF i = 1 THEN s[i] ELSE g[i - 1] \o s[i]
    BY <2>1 DEF Flatten
  <2> DEFINE T == {k \in Nat : k \in 1 .. n => g[k] \in Seq(S)}
  <2>4. 0 \in T
    OBVIOUS
  <2>5. ASSUME NEW k \in Nat, k \in T PROVE k + 1 \in T
    <3> SUFFICES ASSUME k + 1 \in 1 .. n PROVE g[k + 1] \in Seq(S)
      OBVIOUS
    <3>1. CASE k = 0
      BY <1>1, <2>3, <3>1
    <3>2. CASE k # 0
      <4>1. k \in 1 .. n /\ k + 1 # 1 /\ (k + 1) - 1 = k
        BY <1>1, <3>2
      <4>2. g[k + 1] = g[k] \o s[k + 1] /\ s[k + 1] \in Seq(S)
        BY <1>1, <2>3, <4>1
      <4>3. g[k] \in Seq(S)
        BY <2>5, <4>1
      <4> QED
        BY ONLY <4>2, <4>3, ConcatProperties
    <3> QED
      BY <3>1, <3>2
  <2> HIDE DEF T
  <2>6. n \in T
    BY <1>1, <2>4, <2>5, Induction
  <2> QED
    BY <1>1, <1>3, <2>2, <2>6 DEF T
<1> QED
  BY <1>2, <1>3

-----------------------------------------------------------------------------
(* What the ROM is told, and what it reads from the input ports.           *)

\* What console_input is called with, and what it puts in the ports.
Console == [c : Int, type : {"ARG", "EOA", "END", "STD"}]

Args  == ArgumentInputs(rom.args)
Bytes == StdinInputs(rom.bytes)

\* The ROM is in its boot vector or is told its arguments.
Telling(m) == m.at = "args" \/ (m.at \in {"vector", "unpause"} /\ m.then = "args")

\* A port that is set is seen by the vector that was called for it, and then cleared.
Pulsed(m, p) ==
  p # "none" => /\ m.at \in {"vector", "unpause", "clear"} /\ m.then = "clear"
                /\ m.vector = (IF p = "key" THEN "controller" ELSE "mouse")

\* How much of Bytes was pushed.
Pushed == CASE stdin.at \in {"read", "end"} -> stdin.count
            [] stdin.at = "push" -> stdin.count - 1
            [] stdin.at = "done" -> stdin.count + 1

\* How much of Bytes the ROM was given.
Taken == Len(given) - main.told

\* The inputs t + 1 to p of s wait in queue q, the k-th at place[k], in their order, and
\* no other does.
WaitAt(q, s, t, p, place) ==
  /\ place \in [t + 1 .. p -> 1 .. Len(q)]
  /\ \A k \in t + 1 .. p : q[place[k]].type = "stdin" /\ q[place[k]].in = s[k]
  /\ \A k, l \in t + 1 .. p : k < l => place[k] < place[l]
  /\ \A j \in 1 .. Len(q) : q[j].type = "stdin" => \E k \in t + 1 .. p : place[k] = j

Waits(q, s, t, p) == \E place : WaitAt(q, s, t, p, place)

\* What was given are the arguments that were told and the bytes that were taken; the
\* bytes that were pushed and not taken wait in the queue.
ConsoleInv ==
  /\ given \in Seq(Console) /\ main.told \in 0 .. Len(Args)
  /\ Taken \in 0 .. Pushed
  /\ \A k \in 1 .. Len(given) :
       given[k] = Told(IF k <= main.told THEN Args[k] ELSE Bytes[k - main.told])
  /\ Waits(queue, Bytes, Taken, Pushed)
  /\ Telling(main) => Taken = 0
  /\ ~Telling(main) => main.told = Len(Args)
  /\ stdin.at \in {"end", "done"} => stdin.count = Len(rom.bytes)

\* The buttons an event presses, and those it releases.
Sets(e) ==
  CASE e.type = "keydown"       -> {e.sym} \cap Pad
    [] e.type = "mousedown"     -> {e.sym}
    [] e.type \in {"axis", "hat"} -> e.mask
    [] OTHER                    -> {}
Clears(e) ==
  CASE e.type = "keyup"                -> {e.sym} \cap Pad
    [] e.type = "mouseup"              -> {e.sym}
    [] e.type = "axis" /\ e.mask = {}  -> AxisMask(e.axis)
    [] e.type = "hat" /\ e.mask = {}   -> Directions
    [] OTHER                           -> {}

\* Button b is pressed when the events of q are taken.
Remains(b, pressed, q) ==
  \/ b \in pressed /\ \A j \in 1 .. Len(q) : b \notin Clears(q[j])
  \/ \E j \in 1 .. Len(q) : /\ b \in Sets(q[j])
                            /\ \A k \in 1 .. Len(q) : k > j => b \notin Clears(q[k])

\* The user holds something that will release b.
Covered(b, h) ==
  \/ b \in h.keys
  \/ h.hat # {} /\ b \in Directions
  \/ h.x # {} /\ b \in AxisMask("x")
  \/ h.y # {} /\ b \in AxisMask("y")

\* A button that will be pressed is held, unless an event was lost.
HeldInv == ~lost => \A b \in Button : Remains(b, buttons, queue) => Covered(b, held)

\* The arguments and the bytes are inputs of the console.
LEMMA ConsoleSeqs ==
  ASSUME rom \in Programs
  PROVE  Args \in Seq(Console) /\ Bytes \in Seq(Console) /\ Len(Bytes) = Len(rom.bytes) + 1
<1>1. rom.args \in Seq(Seq(Byte \ {0})) /\ rom.bytes \in Seq(Byte)
  BY ProgramsAssumption
<1>2. Args \in Seq(Console)
  <2> DEFINE n == Len(rom.args)
             line(j) == [k \in DOMAIN rom.args[j] |-> [c |-> Char(rom.args[j][k]), type |-> "ARG"]]
             end(j) == <<[c |-> 10, type |-> IF j = n THEN "END" ELSE "EOA"]>>
             one(j) == line(j) \o end(j)
             all == [j \in DOMAIN rom.args |-> one(j)]
  <2>1. n \in Nat /\ DOMAIN rom.args = 1 .. n
    BY <1>1, LenProperties
  <2>2. ASSUME NEW j \in 1 .. n PROVE one(j) \in Seq(Console)
    <3>1. rom.args[j] \in Seq(Byte \ {0})
      BY <1>1, <2>1, ElementOfSeq
    <3>2. PICK a \in Seq(Byte \ {0}) : a = rom.args[j]
      BY <3>1
    <3>3. Len(a) \in Nat /\ DOMAIN a = 1 .. Len(a) /\ \A k \in 1 .. Len(a) : Char(a[k]) \in Int
      <4>1. Len(a) \in Nat /\ DOMAIN a = 1 .. Len(a) /\ \A k \in 1 .. Len(a) : a[k] \in Byte
        BY LenProperties, ElementOfSeq
      <4>2. \A b \in Byte : Char(b) \in Int
        BY DEF Byte, Char
      <4> QED
        BY ONLY <4>1, <4>2
    <3>4. line(j) \in [1 .. Len(a) -> Console]
      BY <3>2, <3>3 DEF Console
    <3>5. line(j) \in Seq(Console)
      <4>1. PICK l \in [1 .. Len(a) -> Console] : l = line(j)
        BY <3>4
      <4>2. l \in Seq(Console)
        BY ONLY <3>3, SeqDef, l \in [1 .. Len(a) -> Console]
      <4> QED
        BY ONLY <4>1, <4>2
    <3>6. end(j) \in Seq(Console)
      <4>1. [c |-> 10, type |-> IF j = n THEN "END" ELSE "EOA"] \in Console
        BY DEF Console
      <4> QED
        BY <4>1
    <3> HIDE DEF line, end
    <3> QED
      BY <3>5, <3>6, ConcatProperties
  <2> HIDE DEF n, one
  <2>3. all \in [1 .. n -> Seq(Console)]
    BY <2>1, <2>2
  <2>4. all \in Seq(Seq(Console))
    BY <2>1, <2>3, SeqDef
  <2>5. Args = FlattenSeq(all)
    BY DEF Args, ArgumentInputs, one, n
  <2> HIDE DEF all
  <2> QED
    BY <2>4, <2>5, FlattenIsSeq
<1>3. Bytes \in Seq(Console) /\ Len(Bytes) = Len(rom.bytes) + 1
  <2> DEFINE body == [j \in DOMAIN rom.bytes |-> [c |-> rom.bytes[j], type |-> "STD"]]
             end  == <<[c |-> 0, type |-> "END"]>>
  <2>1. Len(rom.bytes) \in Nat /\ DOMAIN rom.bytes = 1 .. Len(rom.bytes)
        /\ \A j \in DOMAIN rom.bytes : rom.bytes[j] \in Byte
    BY <1>1, LenProperties, ElementOfSeq
  <2>2. body \in Seq(Console) /\ Len(body) = Len(rom.bytes) /\ end \in Seq(Console) /\ Len(end) = 1
    <3>1. Byte \subseteq Int
      BY DEF Byte
    <3>2. \A j \in DOMAIN rom.bytes : [c |-> rom.bytes[j], type |-> "STD"] \in Console
      BY <2>1, <3>1 DEF Console
    <3>3. [c |-> 0, type |-> "END"] \in Console
      BY DEF Console
    <3> QED
      BY <2>1, <3>2, <3>3
  <2>3. Bytes = body \o end
    BY DEF Bytes, StdinInputs
  <2> HIDE DEF body, end
  <2>4. body \o end \in Seq(Console) /\ Len(body \o end) = Len(body) + Len(end)
    BY ONLY <2>2, ConcatProperties
  <2> QED
    BY ONLY <2>2, <2>3, <2>4
<1> QED
  BY <1>2, <1>3

\* One event more.
Longer(q, e, r) ==
  /\ Len(q) \in Nat /\ Len(r) = Len(q) + 1
  /\ \A j \in 1 .. Len(q) : r[j] = q[j]
  /\ r[Len(q) + 1] = e

\* The first event less.
Shorter(q, r) ==
  /\ Len(r) \in Nat /\ Len(q) = Len(r) + 1
  /\ \A j \in 1 .. Len(r) : r[j] = q[j + 1]

\* Append and Tail.
LEMMA QueueMoves ==
  ASSUME NEW q \in Seq(Event)
  PROVE  /\ \A e \in Event : Longer(q, e, Append(q, e))
         /\ q # <<>> => Shorter(q, Tail(q)) /\ Head(q) = q[1] /\ Head(q) \in Event
<1>1. Len(q) \in Nat
  BY LenProperties
<1>2. ASSUME NEW e \in Event PROVE Longer(q, e, Append(q, e))
  BY <1>1, AppendProperties DEF Longer
<1>3. ASSUME q # <<>> PROVE Shorter(q, Tail(q)) /\ Head(q) = q[1] /\ Head(q) \in Event
  BY <1>1, <1>3, HeadTailProperties, LenProperties DEF Shorter
<1> QED
  BY <1>2, <1>3

\* An event of another type is pushed.
LEMMA WaitsLonger ==
  ASSUME NEW q, NEW e, NEW r, Longer(q, e, r), e.type # "stdin", NEW s, NEW t \in Nat, NEW p \in Nat,
         Waits(q, s, t, p)
  PROVE  Waits(r, s, t, p)
<1>1. PICK place : WaitAt(q, s, t, p, place)
  BY DEF Waits
<1>2. PICK n \in Nat : n = Len(q) /\ Len(r) = n + 1 /\ r[n + 1] = e /\ \A j \in 1 .. n : r[j] = q[j]
  BY DEF Longer
<1>3. place \in [t + 1 .. p -> 1 .. n] /\ \A k \in t + 1 .. p : place[k] \in 1 .. n
  BY <1>1, <1>2 DEF WaitAt
<1>4. place \in [t + 1 .. p -> 1 .. Len(r)]
  <2>1. 1 .. n \subseteq 1 .. Len(r)
    BY <1>2
  <2> QED
    BY <1>3, <2>1
<1>5. \A k \in t + 1 .. p : r[place[k]].type = "stdin" /\ r[place[k]].in = s[k]
  BY <1>1, <1>2, <1>3 DEF WaitAt
<1>6. ASSUME NEW j \in 1 .. Len(r), r[j].type = "stdin" PROVE \E k \in t + 1 .. p : place[k] = j
  <2>1. j # n + 1
    BY <1>2, <1>6
  <2>2. j \in 1 .. Len(q) /\ q[j].type = "stdin"
    BY <1>2, <1>6, <2>1
  <2> QED
    BY <1>1, <2>2 DEF WaitAt
<1>7. \A k, l \in t + 1 .. p : k < l => place[k] < place[l]
  BY <1>1 DEF WaitAt
<1>8. WaitAt(r, s, t, p, place)
  BY <1>4, <1>5, <1>6, <1>7 DEF WaitAt
<1> QED
  BY <1>8 DEF Waits

\* The next input is pushed.
LEMMA WaitsPush ==
  ASSUME NEW q, NEW e, NEW r, Longer(q, e, r), NEW s, NEW t \in Nat, NEW p \in Nat, t <= p,
         e.type = "stdin", e.in = s[p + 1], Waits(q, s, t, p)
  PROVE  Waits(r, s, t, p + 1)
<1>1. PICK place : WaitAt(q, s, t, p, place)
  BY DEF Waits
<1>2. PICK n \in Nat : n = Len(q) + 1 /\ Len(r) = n /\ r[n] = e /\ \A j \in 1 .. n - 1 : r[j] = q[j]
  BY DEF Longer
<1> DEFINE new == [k \in t + 1 .. p + 1 |-> IF k = p + 1 THEN n ELSE place[k]]
<1>3. \A k : k \in t + 1 .. p + 1 <=> k \in t + 1 .. p \/ k = p + 1
  OBVIOUS
<1>4. \A k \in t + 1 .. p : /\ place[k] \in 1 .. n - 1 /\ q[place[k]].type = "stdin"
                            /\ q[place[k]].in = s[k]
  BY <1>1, <1>2 DEF WaitAt
<1>5. new[p + 1] = n /\ \A k \in t + 1 .. p : new[k] = place[k]
  BY <1>3
<1>6. new \in [t + 1 .. p + 1 -> 1 .. Len(r)]
  BY <1>2, <1>3, <1>4
<1> HIDE DEF new
<1>7. \A k \in t + 1 .. p + 1 : r[new[k]].type = "stdin" /\ r[new[k]].in = s[k]
  BY <1>2, <1>3, <1>4, <1>5
<1>8. ASSUME NEW k \in t + 1 .. p + 1, NEW l \in t + 1 .. p + 1, k < l PROVE new[k] < new[l]
  <2>1. k \in t + 1 .. p /\ new[k] = place[k] /\ place[k] \in 1 .. n - 1
    BY <1>3, <1>4, <1>5, <1>8
  <2>2. CASE l = p + 1
    BY <1>2, <1>5, <2>1, <2>2
  <2>3. CASE l \in t + 1 .. p
    <3>1. new[l] = place[l] /\ place[k] < place[l]
      BY <1>1, <1>5, <1>8, <2>1, <2>3 DEF WaitAt
    <3> QED
      BY <2>1, <3>1
  <2> QED
    BY <1>3, <2>2, <2>3
<1>9. ASSUME NEW j \in 1 .. Len(r), r[j].type = "stdin" PROVE \E k \in t + 1 .. p + 1 : new[k] = j
  <2>1. CASE j = n
    BY <1>3, <1>5, <2>1
  <2>2. CASE j # n
    <3>1. j \in 1 .. Len(q) /\ q[j].type = "stdin"
      BY <1>2, <1>9, <2>2
    <3>2. PICK k \in t + 1 .. p : place[k] = j
      BY <1>1, <3>1 DEF WaitAt
    <3> QED
      BY <1>3, <1>5, <3>2
  <2> QED
    BY <2>1, <2>2
<1>10. WaitAt(r, s, t, p + 1, new)
  BY <1>6, <1>7, <1>8, <1>9 DEF WaitAt
<1> QED
  BY <1>10 DEF Waits

\* An event of another type is taken.
LEMMA WaitsShorter ==
  ASSUME NEW q, NEW r, Shorter(q, r), q[1].type # "stdin", NEW s, NEW t \in Nat, NEW p \in Nat,
         Waits(q, s, t, p)
  PROVE  Waits(r, s, t, p)
<1>1. PICK place : WaitAt(q, s, t, p, place)
  BY DEF Waits
<1> DEFINE new == [k \in t + 1 .. p |-> place[k] - 1]
<1>2. PICK n \in Nat : n = Len(r) /\ Len(q) = n + 1 /\ \A j \in 1 .. n : r[j] = q[j + 1]
  BY DEF Shorter
<1>3. \A k \in t + 1 .. p : place[k] \in 2 .. n + 1
  BY <1>1, <1>2 DEF WaitAt
<1>4. \A k \in t + 1 .. p : new[k] \in 1 .. n /\ new[k] + 1 = place[k]
  BY <1>3
<1>5. new \in [t + 1 .. p -> 1 .. Len(r)]
  BY <1>2, <1>4
<1> HIDE DEF new
<1>6. \A k \in t + 1 .. p : r[new[k]].type = "stdin" /\ r[new[k]].in = s[k]
  BY <1>1, <1>2, <1>4 DEF WaitAt
<1>7. ASSUME NEW k \in t + 1 .. p, NEW l \in t + 1 .. p, k < l PROVE new[k] < new[l]
  <2>1. place[k] < place[l]
    BY <1>1, <1>7 DEF WaitAt
  <2> QED
    BY <1>4, <2>1
<1>8. ASSUME NEW j \in 1 .. Len(r), r[j].type = "stdin" PROVE \E k \in t + 1 .. p : new[k] = j
  <2>1. j + 1 \in 1 .. Len(q) /\ q[j + 1].type = "stdin"
    BY <1>2, <1>8
  <2>2. PICK k \in t + 1 .. p : place[k] = j + 1
    BY <1>1, <2>1 DEF WaitAt
  <2>3. new[k] \in 1 .. n /\ new[k] + 1 = j + 1
    BY <1>4, <2>2
  <2>4. new[k] = j
    BY ONLY <1>2, <1>8, <2>3
  <2> QED
    BY <2>4
<1>9. WaitAt(r, s, t, p, new)
  BY <1>5, <1>6, <1>7, <1>8 DEF WaitAt
<1> QED
  BY <1>9 DEF Waits

\* An input is taken: it is the next one.
LEMMA WaitsTake ==
  ASSUME NEW q, NEW r, Shorter(q, r), q[1].type = "stdin", NEW s, NEW t \in Nat, NEW p \in Nat,
         Waits(q, s, t, p)
  PROVE  t + 1 <= p /\ q[1].in = s[t + 1] /\ Waits(r, s, t + 1, p)
<1>1. PICK place : WaitAt(q, s, t, p, place)
  BY DEF Waits
<1>2. PICK n \in Nat : n = Len(r) /\ Len(q) = n + 1 /\ \A j \in 1 .. n : r[j] = q[j + 1]
  BY DEF Shorter
<1>3. PICK h \in t + 1 .. p : place[h] = 1
  BY <1>1, <1>2 DEF WaitAt
<1>4. h = t + 1 /\ t + 1 <= p
  BY <1>1, <1>2, <1>3 DEF WaitAt
<1>5. q[1].in = s[t + 1]
  BY <1>1, <1>3, <1>4 DEF WaitAt
<1> DEFINE new == [k \in (t + 1) + 1 .. p |-> place[k] - 1]
<1>6. \A k \in (t + 1) + 1 .. p : k \in t + 1 .. p /\ t + 1 < k
  OBVIOUS
<1>7. \A k \in (t + 1) + 1 .. p : place[k] \in 2 .. n + 1
  BY <1>1, <1>2, <1>3, <1>4, <1>6 DEF WaitAt
<1>8. \A k \in (t + 1) + 1 .. p : new[k] \in 1 .. n /\ new[k] + 1 = place[k]
  BY <1>7
<1>9. new \in [(t + 1) + 1 .. p -> 1 .. Len(r)]
  BY <1>2, <1>8
<1> HIDE DEF new
<1>10. \A k \in (t + 1) + 1 .. p : r[new[k]].type = "stdin" /\ r[new[k]].in = s[k]
  BY <1>1, <1>2, <1>6, <1>8 DEF WaitAt
<1>11. ASSUME NEW k \in (t + 1) + 1 .. p, NEW l \in (t + 1) + 1 .. p, k < l PROVE new[k] < new[l]
  <2>1. place[k] < place[l]
    BY <1>1, <1>6, <1>11 DEF WaitAt
  <2> QED
    BY <1>8, <2>1
<1>12. ASSUME NEW j \in 1 .. Len(r), r[j].type = "stdin"
       PROVE  \E k \in (t + 1) + 1 .. p : new[k] = j
  <2>1. j + 1 \in 1 .. Len(q) /\ q[j + 1].type = "stdin"
    BY <1>2, <1>12
  <2>2. PICK k \in t + 1 .. p : place[k] = j + 1
    BY <1>1, <2>1 DEF WaitAt
  <2>3. k \in (t + 1) + 1 .. p
    BY <1>2, <1>3, <1>4, <2>2
  <2>4. new[k] \in 1 .. n /\ new[k] + 1 = j + 1
    BY <1>8, <2>2, <2>3
  <2>5. new[k] = j
    BY ONLY <1>2, <1>12, <2>4
  <2> QED
    BY <2>3, <2>5
<1>13. WaitAt(r, s, t + 1, p, new)
  BY <1>9, <1>10, <1>11, <1>12 DEF WaitAt
<1> QED
  BY <1>4, <1>5, <1>13 DEF Waits

\* A button that remains pressed after another event did so before, or that event
\* presses it.
LEMMA RemainsLonger ==
  ASSUME NEW q, NEW e, NEW r, Longer(q, e, r), NEW b, NEW pressed, Remains(b, pressed, r)
  PROVE  b \in Sets(e) \/ (Remains(b, pressed, q) /\ b \notin Clears(e))
<1>1. PICK n \in Nat : n = Len(q) + 1 /\ Len(r) = n /\ r[n] = e /\ \A j \in 1 .. n - 1 : r[j] = q[j]
  BY DEF Longer
<1>2. CASE b \in pressed /\ \A j \in 1 .. Len(r) : b \notin Clears(r[j])
  BY <1>1, <1>2 DEF Remains
<1>3. CASE \E j \in 1 .. Len(r) : /\ b \in Sets(r[j])
                                  /\ \A k \in 1 .. Len(r) : k > j => b \notin Clears(r[k])
  <2>1. PICK j \in 1 .. n : /\ b \in Sets(r[j])
                            /\ \A k \in 1 .. n : k > j => b \notin Clears(r[k])
    BY <1>1, <1>3
  <2>2. CASE j = n
    BY <1>1, <2>1, <2>2
  <2>3. CASE j # n
    <3>1. j \in 1 .. Len(q) /\ b \in Sets(q[j]) /\ b \notin Clears(e)
      BY <1>1, <2>1, <2>3
    <3>2. \A k \in 1 .. Len(q) : k > j => b \notin Clears(q[k])
      BY <1>1, <2>1
    <3> QED
      BY <3>1, <3>2 DEF Remains
  <2> QED
    BY <2>2, <2>3
<1> QED
  BY <1>2, <1>3 DEF Remains

\* What an event that is taken presses and releases, was foreseen.
LEMMA RemainsShorter ==
  ASSUME NEW q, NEW r, Shorter(q, r), NEW b, NEW old, NEW pressed,
         pressed \subseteq (old \ Clears(q[1])) \cup Sets(q[1]), Remains(b, pressed, r)
  PROVE  Remains(b, old, q)
<1>1. PICK n \in Nat : n = Len(r) /\ Len(q) = n + 1 /\ \A j \in 1 .. n : r[j] = q[j + 1]
  BY DEF Shorter
<1>2. \A j \in 1 .. n + 1 : j = 1 \/ (j - 1 \in 1 .. n /\ r[j - 1] = q[j])
  BY <1>1
<1>3. CASE b \in pressed /\ \A j \in 1 .. Len(r) : b \notin Clears(r[j])
  <2>1. \A j \in 1 .. n + 1 : j # 1 => b \notin Clears(q[j])
    BY <1>1, <1>2, <1>3
  <2>2. CASE b \in Sets(q[1])
    BY <1>1, <2>1, <2>2 DEF Remains
  <2>3. CASE b \in old \ Clears(q[1])
    BY <1>1, <2>1, <2>3 DEF Remains
  <2> QED
    BY <1>3, <2>2, <2>3
<1>4. CASE \E j \in 1 .. Len(r) : /\ b \in Sets(r[j])
                                  /\ \A k \in 1 .. Len(r) : k > j => b \notin Clears(r[k])
  <2>1. PICK j \in 1 .. n : /\ b \in Sets(r[j])
                            /\ \A k \in 1 .. n : k > j => b \notin Clears(r[k])
    BY <1>1, <1>4
  <2>2. j + 1 \in 1 .. Len(q) /\ b \in Sets(q[j + 1])
    BY <1>1, <2>1
  <2>3. ASSUME NEW k \in 1 .. Len(q), k > j + 1 PROVE b \notin Clears(q[k])
    BY <1>1, <1>2, <2>1, <2>3
  <2> QED
    BY <2>2, <2>3 DEF Remains
<1> QED
  BY <1>3, <1>4 DEF Remains

-----------------------------------------------------------------------------
(* The steps, and what they do to the console.                             *)

\* main evaluates a vector, or is where it goes after it.
LEMMA EvalDoes ==
  ASSUME NEW m \in Where, NEW v, NEW l \in Place \ {"vector", "unpause"}, Eval(m, v, l)
  PROVE  /\ main'.told = m.told
         /\ IF Evaluates(v) THEN main'.at = "vector" /\ main'.then = l /\ main'.vector = v
            ELSE main'.at = l
         /\ Telling(main') <=> l = "args"
<1>1. CASE Evaluates(v)
  BY <1>1 DEF Eval, Where, Telling
<1>2. CASE ~Evaluates(v)
  BY <1>2 DEF Eval, Where, Telling
<1> QED
  BY <1>1, <1>2

\* The steps of main that give the ROM nothing, and that hold nothing.
LEMMA QuietSteps ==
  ASSUME main \in Where, Pulsed(main, pulse),
         Brk \/ Unpause \/ Loop \/ NoMoreEvents \/ Clear \/ Peep \/ Frame \/ Wait \/ Rom
  PROVE  /\ UNCHANGED <<rom, buttons, given, events, stdin, held>>
         /\ main'.told = main.told /\ Telling(main') = Telling(main) /\ Pulsed(main', pulse')
<1> USE DEF ports, events, world, notes
<1>1. ASSUME NEW l, Goto(l)
      PROVE  main'.told = main.told /\ main'.at = l /\ main'.then = main.then /\ main'.vector = main.vector
  BY <1>1 DEF Goto, Where
<1>2. CASE Brk
  BY <1>1, <1>2 DEF Brk, Telling, Pulsed
<1>3. CASE Unpause
  BY <1>1, <1>3 DEF Unpause, Telling, Pulsed
<1>4. CASE Loop
  BY <1>4 DEF Loop, Where, Telling, Pulsed
<1>5. CASE NoMoreEvents
  BY <1>1, <1>5 DEF NoMoreEvents, Telling, Pulsed
<1>6. CASE Clear
  <2>1. After(main) \in {"events", "peep"}
    BY DEF After
  <2> QED
    BY <1>1, <1>6, <2>1 DEF Clear, Telling, Pulsed
<1>7. CASE Peep
  <2>1. PICK l \in {"frame", "events"} : main' = [main EXCEPT !.sym = "none", !.at = l]
    BY <1>7 DEF Peep
  <2>2. main'.told = main.told /\ main'.at = l
    BY <2>1 DEF Where
  <2> QED
    BY <1>7, <2>2 DEF Peep, Telling, Pulsed
<1>8. CASE Frame
  <2>1. main'.told = main.told /\ ~Telling(main')
    <3>1. CASE main.due
      <4>1. PICK m \in Where : m = [main EXCEPT !.due = FALSE] /\ m.told = main.told
        <5>1. [main EXCEPT !.due = FALSE] \in Where /\ [main EXCEPT !.due = FALSE].told = main.told
          BY DEF Where
        <5> QED
          BY ONLY <5>1
      <4>2. Eval(m, "screen", "wait") /\ "wait" \in Place \ {"vector", "unpause"}
        BY <1>8, <3>1, <4>1 DEF Frame, Place
      <4>3. main'.told = m.told /\ (Telling(main') <=> "wait" = "args")
        BY <4>2, EvalDoes
      <4> QED
        BY <4>1, <4>3
    <3>2. CASE ~main.due
      BY <1>1, <1>8, <3>2 DEF Frame, Telling
    <3> QED
      BY <3>1, <3>2
  <2>2. main.at = "frame" /\ UNCHANGED <<rom, buttons, given, events, stdin, held, pulse>>
    BY <1>8 DEF Frame
  <2> QED
    BY <2>1, <2>2 DEF Telling, Pulsed
<1>9. CASE Wait
  BY <1>1, <1>9 DEF Wait, Telling, Pulsed
<1>10. CASE Halt
  BY <1>10 DEF Halt
<1>11. ASSUME NEW v \in Voice, ReadVu(v) PROVE UNCHANGED <<rom, main, ports, events, world>>
  BY <1>11 DEF ReadVu
<1>12. ASSUME NEW v \in Voice, NEW n \in rom.notes, StartNote(v, n)
       PROVE  main.at = "vector" /\ Goto("unpause") /\ UNCHANGED <<rom, ports, events, world>>
  BY <1>12 DEF StartNote
<1>13. CASE Rom
  BY <1>1, <1>10, <1>11, <1>12, <1>13 DEF Rom, Telling, Pulsed
<1> QED
  BY <1>2, <1>3, <1>4, <1>5, <1>6, <1>7, <1>8, <1>9, <1>13

\* What main does with event e to the console, the buttons and the pulse.
Handles(e) ==
  /\ main'.told = main.told /\ ~Telling(main') /\ Pulsed(main', pulse')
  /\ given' = IF e.type = "stdin" THEN Append(given, Told(e.in)) ELSE given
  /\ buttons' \subseteq (buttons \ Clears(e)) \cup Sets(e)

\* main, which was at its events, evaluates a vector that sees no pulse, or none.
LEMMA NoPulse ==
  ASSUME NEW m \in Where, m.told = main.told, NEW v, NEW l \in {"events", "peep"}, pulse = "none", pulse' = pulse,
         main' = [m EXCEPT !.at = l] \/ Eval(m, v, l)
  PROVE  main'.told = main.told /\ ~Telling(main') /\ Pulsed(main', pulse')
<1>1. CASE main' = [m EXCEPT !.at = l]
  BY <1>1 DEF Where, Telling, Pulsed
<1>2. CASE Eval(m, v, l)
  <2>1. l \in Place \ {"vector", "unpause"} /\ l # "args"
    BY DEF Place
  <2> QED
    BY <1>2, <2>1, EvalDoes DEF Pulsed
<1> QED
  BY <1>1, <1>2

\* A button goes down or up.
LEMMA DownDoes ==
  ASSUME NEW m \in Where, m.told = main.told, NEW mask, NEW l \in {"events", "peep"}, pulse = "none",
         Down(m, mask, l) \/ Up(m, mask, l)
  PROVE  /\ main'.told = main.told /\ ~Telling(main') /\ Pulsed(main', pulse') /\ given' = given
         /\ Down(m, mask, l) => buttons' = buttons \cup mask
         /\ Up(m, mask, l) => buttons' = buttons \ mask
<1>1. pulse' = pulse /\ given' = given /\ (main' = [m EXCEPT !.at = l] \/ Eval(m, "controller", l))
  BY DEF Down, Up
<1>2. main'.told = main.told /\ ~Telling(main') /\ Pulsed(main', pulse')
  BY <1>1, NoPulse
<1> QED
  BY <1>1, <1>2 DEF Down, Up

\* A port is set for a vector, if there is one to see it.
LEMMA PulseDoes ==
  ASSUME NEW m \in Where, m.told = main.told, pulse = "none",
         NEW p \in {"key", "wheel"}, NEW v \in {"controller", "mouse"},
         v = (IF p = "key" THEN "controller" ELSE "mouse"), Pulse(m, p, v)
  PROVE  /\ main'.told = main.told /\ ~Telling(main') /\ Pulsed(main', pulse')
         /\ given' = given /\ buttons' = buttons
<1>1. CASE Evaluates(v)
  <2>1. Eval(m, v, "clear") /\ pulse' = p
    BY <1>1 DEF Pulse
  <2>2. main'.told = main.told /\ ~Telling(main') /\ main'.at = "vector" /\ main'.then = "clear"
        /\ main'.vector = v
    BY <1>1, <2>1, Places, EvalDoes
  <2>3. Pulsed(main', pulse')
    BY <2>1, <2>2 DEF Pulsed
  <2> QED
    BY <2>2, <2>3 DEF Pulse
<1>2. CASE ~Evaluates(v)
  <2>1. PICK l \in {"events", "peep"} : Eval(m, v, l) /\ pulse' = "none"
    BY <1>2 DEF Pulse, After
  <2>2. main'.told = main.told /\ ~Telling(main') /\ Pulsed(main', pulse')
    BY <2>1, NoPulse
  <2> QED
    BY <2>2 DEF Pulse
<1> QED
  BY <1>1, <1>2

\* An event is handled.
LEMMA TakeEventDoes ==
  ASSUME LoopTypeOK, Pulsed(main, pulse), TakeEvent
  PROVE  ~Telling(main) /\ Handles(Head(queue))
<1> DEFINE e == Head(queue)
<1>1. main \in Where /\ main.at = "events" /\ queue \in Seq(Event) /\ queue # <<>>
  BY DEF LoopTypeOK, TakeEvent
<1>2. e \in Event
  BY <1>1, QueueMoves
<1>3. pulse = "none" /\ ~Telling(main)
  BY <1>1 DEF Pulsed, Telling
<1>4. Handles(e)
  <2>1. CASE e.type = "quit"
    <3>1. Goto("ended") /\ UNCHANGED ports
      BY <2>1 DEF TakeEvent
    <3>2. main'.told = main.told /\ ~Telling(main') /\ Pulsed(main', pulse')
      BY <1>1, <1>3, <3>1 DEF Goto, Where, ports, Telling, Pulsed
    <3> QED
      BY <2>1, <3>1, <3>2 DEF Handles, ports, Clears
  <2>2. CASE e.type = "finished"
    <3>1. Eval(main, AudioVector(e.voice), "events") /\ UNCHANGED ports
      BY <2>2 DEF TakeEvent
    <3>2. main'.told = main.told /\ ~Telling(main') /\ Pulsed(main', pulse')
      BY <1>1, <1>3, <3>1, NoPulse DEF ports
    <3> QED
      BY <2>2, <3>1, <3>2 DEF Handles, ports, Clears
  <2>3. CASE e.type \in {"text", "wheel"}
    <3>1. PICK p \in {"key", "wheel"}, v \in {"controller", "mouse"} :
            Pulse(main, p, v) /\ v = (IF p = "key" THEN "controller" ELSE "mouse")
      BY <2>3 DEF TakeEvent
    <3>2. main'.told = main.told /\ ~Telling(main') /\ Pulsed(main', pulse')
          /\ given' = given /\ buttons' = buttons
      BY <1>1, <1>3, <3>1, PulseDoes
    <3> QED
      BY <2>3, <3>2 DEF Handles, Clears
  <2>4. CASE e.type \in {"mousedown", "mouseup"}
    <3>1. Mouse(IF e.type = "mousedown" THEN buttons \cup {e.sym} ELSE buttons \ {e.sym})
      BY <2>4 DEF TakeEvent
    <3>2. main'.told = main.told /\ ~Telling(main') /\ Pulsed(main', pulse')
      BY <1>1, <1>3, <3>1, NoPulse DEF Mouse
    <3>3. given' = given
          /\ buttons' = (IF e.type = "mousedown" THEN buttons \cup {e.sym} ELSE buttons \ {e.sym})
      BY <3>1 DEF Mouse
    <3> QED
      BY <2>4, <3>2, <3>3 DEF Handles, Sets, Clears
  <2>5. CASE e.type = "keydown"
    <3> DEFINE m == [main EXCEPT !.sym = e.sym]
    <3>1. KeyDown(e.sym) /\ e.sym \in Key
      BY <1>2, <2>5, EventParts DEF TakeEvent
    <3>2. m \in Where /\ m.told = main.told
      BY <1>1, <3>1 DEF Where
    <3>3. CASE e.sym = "F3"
      <4>1. main' = [m EXCEPT !.at = "peep"] /\ UNCHANGED <<buttons, pulse, given>>
        BY <3>1, <3>3 DEF KeyDown, GetsKey
      <4>2. main'.told = main.told /\ ~Telling(main') /\ Pulsed(main', pulse')
        BY <1>3, <3>2, <4>1, NoPulse
      <4> QED
        BY <2>5, <4>1, <4>2 DEF Handles, Clears
    <3>4. CASE e.sym = "F4"
      <4>1. Restart(m)
        BY <3>1, <3>4 DEF KeyDown, GetsKey
      <4>2. main'.told = main.told /\ ~Telling(main') /\ Pulsed(main', pulse')
        BY <3>2, <4>1 DEF Restart, Where, Telling, Pulsed
      <4> QED
        BY <2>5, <4>1, <4>2 DEF Restart, Handles
    <3>5. CASE GetsKey(e.sym)
      <4>1. e.sym # "F3" /\ e.sym # "F4"
        BY <3>5 DEF GetsKey
      <4> HIDE DEF m
      <4>2. Pulse([main EXCEPT !.sym = e.sym], "key", "controller")
        BY <3>1, <3>5, <4>1 DEF KeyDown
      <4> USE DEF m
      <4>3. Pulse(m, "key", "controller")
        BY <4>2
      <4>4. main'.told = main.told /\ ~Telling(main') /\ Pulsed(main', pulse')
            /\ given' = given /\ buttons' = buttons
        BY <1>3, <3>2, <4>3, PulseDoes
      <4> QED
        BY <2>5, <4>4 DEF Handles, Clears
    <3>6. CASE e.sym \notin Function /\ ~GetsKey(e.sym)
      <4>1. Down(m, {e.sym} \cap Pad, "peep")
        BY <3>1, <3>6 DEF KeyDown, Function
      <4>2. main'.told = main.told /\ ~Telling(main') /\ Pulsed(main', pulse') /\ given' = given
            /\ buttons' = buttons \cup ({e.sym} \cap Pad)
        BY <1>3, <3>2, <4>1, DownDoes
      <4> QED
        BY <2>5, <4>2 DEF Handles, Sets, Clears
    <3> QED
      BY <3>3, <3>4, <3>5, <3>6 DEF Function
  <2>6. CASE e.type = "keyup"
    <3>1. Up(main, {e.sym} \cap Pad, "events")
      BY <2>6 DEF TakeEvent
    <3>2. main'.told = main.told /\ ~Telling(main') /\ Pulsed(main', pulse') /\ given' = given
          /\ buttons' = buttons \ ({e.sym} \cap Pad)
      BY <1>1, <1>3, <3>1, DownDoes
    <3> QED
      BY <2>6, <3>2 DEF Handles, Clears
  <2>7. CASE e.type \in {"axis", "hat"}
    <3> DEFINE off == IF e.type = "axis" THEN AxisMask(e.axis) ELSE Directions
    <3>1. IF e.mask = {} THEN Up(main, off, "events") ELSE Down(main, e.mask, "events")
      BY <2>7 DEF TakeEvent, Axis, HatMotion
    <3> HIDE DEF off
    <3>2. main'.told = main.told /\ ~Telling(main') /\ Pulsed(main', pulse') /\ given' = given
          /\ buttons' = IF e.mask = {} THEN buttons \ off ELSE buttons \cup e.mask
      BY <1>1, <1>3, <3>1, DownDoes
    <3>3. Sets(e) = e.mask /\ (e.mask = {} => Clears(e) = off) /\ (e.mask # {} => Clears(e) = {})
      BY <2>7 DEF Sets, Clears, off
    <3>4. buttons' \subseteq (buttons \ Clears(e)) \cup Sets(e)
      BY ONLY <3>2, <3>3
    <3> QED
      BY <2>7, <3>2, <3>4 DEF Handles
  <2>8. CASE e.type = "stdin"
    <3>1. ConsoleInput(main, e.in, "events")
      BY <2>8 DEF TakeEvent
    <3>2. main'.told = main.told /\ ~Telling(main') /\ Pulsed(main', pulse')
      BY <1>1, <1>3, <3>1, NoPulse DEF ConsoleInput
    <3> QED
      BY <2>8, <3>1, <3>2 DEF Handles, ConsoleInput, Clears
  <2> QED
    BY <1>2, <2>1, <2>2, <2>3, <2>4, <2>5, <2>6, <2>7, <2>8, EventParts
<1> QED
  BY <1>3, <1>4

-----------------------------------------------------------------------------
(* The invariant of the console.                                           *)

\* How much was told, taken and pushed.
LEMMA Counts ==
  ASSUME LoopTypeOK, ConsoleInv
  PROVE  /\ rom \in Programs /\ Args \in Seq(Console) /\ Bytes \in Seq(Console)
         /\ Len(Args) \in Nat /\ Len(Bytes) \in Nat /\ Len(Bytes) = Len(rom.bytes) + 1
         /\ Len(rom.bytes) \in Nat /\ stdin.count \in 0 .. Len(rom.bytes)
         /\ Pushed \in 0 .. Len(Bytes) /\ Taken \in 0 .. Pushed
         /\ main.told \in 0 .. Len(Args) /\ Len(given) \in Nat /\ Len(given) = main.told + Taken
<1>1. rom \in Programs /\ Len(rom.bytes) \in Nat /\ stdin.count \in 0 .. Len(rom.bytes)
      /\ stdin.at \in {"read", "push", "end", "done"} /\ (stdin.at = "push" => stdin.count > 0)
  BY ProgramsAssumption, LenProperties DEF LoopTypeOK
<1>2. Args \in Seq(Console) /\ Bytes \in Seq(Console) /\ Len(Bytes) = Len(rom.bytes) + 1
  BY <1>1, ConsoleSeqs
<1>3. Len(Args) \in Nat /\ Len(Bytes) \in Nat
  BY <1>2, LenProperties
<1>4. Pushed \in 0 .. Len(Bytes)
  BY <1>1, <1>2 DEF Pushed
<1>5. given \in Seq(Console) /\ main.told \in 0 .. Len(Args) /\ Taken \in 0 .. Pushed
  BY DEF ConsoleInv
<1>6. Len(given) \in Nat
  BY <1>5, LenProperties
<1>7. Len(given) = main.told + Taken
  BY <1>3, <1>5, <1>6 DEF Taken
<1> QED
  BY <1>1, <1>2, <1>3, <1>4, <1>5, <1>6, <1>7

\* The parts of ConsoleInv, from those of before.
LEMMA ConsoleStays ==
  ASSUME ConsoleInv, UNCHANGED <<rom, given, queue, stdin>>,
         main'.told = main.told, Telling(main') = Telling(main)
  PROVE  ConsoleInv'
<1>1. Args' = Args /\ Bytes' = Bytes /\ Taken' = Taken /\ Pushed' = Pushed
  BY DEF Args, Bytes, Taken, Pushed
<1>2. Waits(queue, Bytes, Taken, Pushed)'
  <2>1. Waits(queue, Bytes, Taken, Pushed)
    BY DEF ConsoleInv
  <2> QED
    BY <1>1, <2>1
<1> QED
  BY <1>1, <1>2 DEF ConsoleInv

\* A step that adds to the queue, or leaves it.
LEMMA ConsoleQueues ==
  ASSUME ConsoleInv, UNCHANGED <<rom, main, given>>, Pushed' \in Nat, Pushed' >= Pushed,
         Pushed \in Nat, Waits(queue', Bytes, Taken, Pushed'),
         stdin'.at \in {"end", "done"} => stdin'.count = Len(rom.bytes)
  PROVE  ConsoleInv'
<1>1. Args' = Args /\ Bytes' = Bytes /\ Taken' = Taken
  BY DEF Args, Bytes, Taken
<1>2. Waits(queue, Bytes, Taken, Pushed)'
  BY <1>1
<1>3. Taken' \in 0 .. Pushed'
  BY <1>1 DEF ConsoleInv
<1> QED
  BY <1>1, <1>2, <1>3 DEF ConsoleInv

\* An event that is not standard input's is pushed, or lost.
LEMMA ConsoleEvent ==
  ASSUME LoopTypeOK, ConsoleInv, NEW e \in Event, e.type # "stdin", PushOrLose(e),
         UNCHANGED <<rom, main, given, stdin>>
  PROVE  ConsoleInv'
<1>1. queue \in Seq(Event)
  BY DEF LoopTypeOK
<1>2. queue' = queue \/ queue' = Append(queue, e)
  BY DEF PushOrLose
<1>3. Pushed' = Pushed /\ Pushed \in Nat /\ Taken \in Nat
  <2>1. Pushed' = Pushed
    BY DEF Pushed
  <2>2. Pushed \in Nat /\ Taken \in Nat
    BY Counts
  <2> QED
    BY <2>1, <2>2
<1>4. Waits(queue, Bytes, Taken, Pushed)
  BY DEF ConsoleInv
<1>5. Waits(queue', Bytes, Taken, Pushed)
  <2>1. PICK r : r = queue' /\ (r = queue \/ Longer(queue, e, r))
    BY <1>1, <1>2, QueueMoves
  <2>2. PICK t \in Nat, p \in Nat : t = Taken /\ p = Pushed
    BY <1>3
  <2>3. CASE Longer(queue, e, r)
    <3>1. Waits(queue, Bytes, t, p)
      BY <1>4, <2>2
    <3>2. Waits(r, Bytes, t, p)
      BY <2>3, <3>1, WaitsLonger
    <3> QED
      BY <2>1, <2>2, <3>2
  <2> QED
    BY <1>4, <2>1, <2>3
<1>6. stdin'.at \in {"end", "done"} => stdin'.count = Len(rom.bytes)
  BY DEF ConsoleInv
<1> QED
  BY <1>3, <1>5, <1>6, ConsoleQueues

\* Standard input is read, or pushed: it is the next input.
LEMMA ConsoleStdin ==
  ASSUME LoopTypeOK, ConsoleInv, StdinRead \/ StdinPush
  PROVE  ConsoleInv'
<1>1. /\ UNCHANGED <<rom, main, given>> /\ queue \in Seq(Event) /\ rom \in Programs
      /\ stdin \in [at : {"read", "push", "end", "done"}, count : 0 .. Len(rom.bytes)]
  BY DEF StdinRead, StdinPush, LoopTypeOK, ports
<1>2. /\ Len(rom.bytes) \in Nat /\ stdin.count \in 0 .. Len(rom.bytes)
      /\ Pushed \in Nat /\ Taken \in Nat /\ Taken <= Pushed /\ Len(Bytes) = Len(rom.bytes) + 1
  BY Counts
<1>3. Waits(queue, Bytes, Taken, Pushed)
  BY DEF ConsoleInv
<1>4. CASE StdinRead
  <2>1. queue' = queue
    BY <1>4 DEF StdinRead, events
  <2>2. Pushed' = Pushed /\ (stdin'.at \in {"end", "done"} => stdin'.count = Len(rom.bytes))
    <3>1. CASE stdin.count < Len(rom.bytes)
      <4>1. stdin' = [at |-> "push", count |-> stdin.count + 1] /\ stdin.at = "read"
        BY <1>4, <3>1 DEF StdinRead
      <4>2. stdin'.at = "push" /\ stdin'.count - 1 = stdin.count
        BY <1>2, <4>1
      <4> QED
        BY <4>1, <4>2 DEF Pushed
    <3>2. CASE ~(stdin.count < Len(rom.bytes))
      <4>1. stdin' = [stdin EXCEPT !.at = "end"] /\ stdin.at = "read"
        BY <1>4, <3>2 DEF StdinRead
      <4>2. stdin'.at = "end" /\ stdin'.count = stdin.count /\ stdin.count = Len(rom.bytes)
        BY <1>1, <1>2, <3>2, <4>1
      <4> QED
        BY <4>1, <4>2 DEF Pushed
    <3> QED
      BY <3>1, <3>2
  <2> QED
    BY <1>1, <1>2, <1>3, <2>1, <2>2, ConsoleQueues
<1>5. CASE StdinPush
  <2>1. PICK k \in Nat : k = IF stdin.at = "push" THEN stdin.count ELSE stdin.count + 1
    BY <1>2
  <2>2. PICK e : e = [type |-> "stdin", in |-> Bytes[k]]
    OBVIOUS
  <2>3. stdin.at \in {"push", "end"} /\ queue' = Append(queue, e)
        /\ stdin' = [stdin EXCEPT !.at = IF stdin.at = "push" THEN "read" ELSE "done"]
    BY <1>5, <2>1, <2>2 DEF StdinPush, Bytes
  <2>4. k = Pushed + 1 /\ Pushed' = Pushed + 1
        /\ (stdin'.at \in {"end", "done"} => stdin'.count = Len(rom.bytes))
    <3>1. CASE stdin.at = "push"
      <4>1. stdin'.at = "read" /\ stdin'.count = stdin.count
        BY <1>1, <2>3, <3>1
      <4>2. Pushed' = stdin.count /\ Pushed = stdin.count - 1 /\ k = stdin.count
        BY <2>1, <3>1, <4>1 DEF Pushed
      <4> QED
        BY <1>2, <4>1, <4>2
    <3>2. CASE stdin.at = "end"
      <4>1. stdin'.at = "done" /\ stdin'.count = stdin.count /\ stdin.count = Len(rom.bytes)
        BY <1>1, <2>3, <3>2 DEF ConsoleInv
      <4>2. Pushed' = stdin.count + 1 /\ Pushed = stdin.count /\ k = stdin.count + 1
        BY <2>1, <3>2, <4>1 DEF Pushed
      <4> QED
        BY <1>2, <4>1, <4>2
    <3> QED
      BY <2>3, <3>1, <3>2
  <2>5. e \in Event
    <3>1. k \in 1 .. Len(rom.bytes) + 1
      BY <1>2, <2>1, <2>3, <2>4
    <3>2. Bytes[k] \in [c : Byte, type : {"STD", "END"}]
      BY <1>1, <3>1, StdinInputTyped DEF Bytes
    <3> QED
      BY <2>2, <3>2 DEF Event
  <2>6. PICK r : r = queue' /\ Longer(queue, e, r)
    BY <1>1, <2>3, <2>5, QueueMoves
  <2>7. PICK t \in Nat, p \in Nat : t = Taken /\ p = Pushed
    BY <1>2
  <2>8. Waits(r, Bytes, t, p + 1)
    <3>1. Waits(queue, Bytes, t, p) /\ e.type = "stdin" /\ e.in = Bytes[p + 1] /\ t <= p
      BY <1>2, <1>3, <2>2, <2>4, <2>7
    <3> QED
      BY <2>6, <3>1, WaitsPush
  <2>9. Waits(queue', Bytes, Taken, Pushed')
    BY <2>4, <2>6, <2>7, <2>8
  <2> QED
    BY <1>1, <1>2, <2>4, <2>9, ConsoleQueues
<1> QED
  BY <1>4, <1>5

\* The ROM is given one input more.
LEMMA ConsoleGiven ==
  ASSUME LoopTypeOK, ConsoleInv, NEW in \in Console, given' = Append(given, Told(in))
  PROVE  /\ given' \in Seq(Console) /\ Len(given') = Len(given) + 1
         /\ \A k \in 1 .. Len(given) : given'[k] = given[k]
         /\ given'[Len(given) + 1] = Told(in)
<1>1. given \in Seq(Console)
  BY DEF ConsoleInv
<1>2. Told(in) \in Console
  BY DEF Told, Console
<1> QED
  BY <1>1, <1>2, AppendProperties

\* The ROM is told an argument, or begins its loop.
LEMMA ConsoleArgument ==
  ASSUME LoopTypeOK, ConsoleInv, Pulsed(main, pulse), Argument
  PROVE  ConsoleInv' /\ Pulsed(main', pulse')
<1>1. /\ main \in Where /\ main.at = "args" /\ Telling(main) /\ pulse = "none"
      /\ UNCHANGED <<rom, queue, stdin>>
  BY DEF LoopTypeOK, Argument, Telling, Pulsed, events, world
<1>2. /\ Len(Args) \in Nat /\ main.told \in 0 .. Len(Args) /\ Taken = 0 /\ Len(given) = main.told
      /\ Args \in Seq(Console) /\ Pushed \in Nat /\ Len(given) \in Nat
  BY <1>1, Counts DEF ConsoleInv
<1>3. Args' = Args /\ Bytes' = Bytes /\ Pushed' = Pushed
  BY <1>1 DEF Args, Bytes, Pushed
<1>4. CASE main.told < Len(Args)
  <2>1. PICK m \in Where : m = [main EXCEPT !.told = @ + 1] /\ m.told = main.told + 1
    <3>1. main.told + 1 \in Nat
      BY <1>2
    <3>2. [main EXCEPT !.told = @ + 1] \in Where /\ [main EXCEPT !.told = @ + 1].told = main.told + 1
      BY <1>1, <3>1 DEF Where
    <3> QED
      BY ONLY <3>2
  <2>2. PICK in \in Console : in = Args[main.told + 1]
    BY <1>2, <1>4, ElementOfSeq
  <2>3. ConsoleInput(m, in, "args")
    BY <1>4, <2>1, <2>2 DEF Argument, Args
  <2>4. main'.told = main.told + 1 /\ Telling(main')
    <3>1. Eval(m, "console", "args") /\ "args" \in Place \ {"vector", "unpause"}
      BY <2>3 DEF ConsoleInput, Place
    <3>2. main'.told = m.told /\ (Telling(main') <=> "args" = "args")
      BY <3>1, EvalDoes
    <3> QED
      BY <2>1, <3>2
  <2>5. given' = Append(given, Told(in)) /\ pulse' = pulse
    BY <2>3 DEF ConsoleInput
  <2>6. /\ given' \in Seq(Console) /\ Len(given') = main.told + 1
        /\ \A k \in 1 .. main.told : given'[k] = given[k]
        /\ given'[main.told + 1] = Told(Args[main.told + 1])
    BY <1>2, <2>2, <2>5, ConsoleGiven
  <2>7. Taken' = Taken
    BY <1>2, <2>4, <2>6 DEF Taken
  <2>8. \A k \in 1 .. Len(given') : given'[k] = Told(IF k <= main'.told THEN Args'[k] ELSE Bytes'[k - main'.told])
    <3>1. \A k \in 1 .. main.told : given[k] = Told(Args[k])
      BY <1>2 DEF ConsoleInv
    <3>2. \A k \in 1 .. main.told + 1 : k \in 1 .. main.told \/ k = main.told + 1
      BY <1>2
    <3>3. \A k \in 1 .. main.told + 1 : given'[k] = Told(Args[k])
      BY <2>6, <3>1, <3>2
    <3> QED
      BY <1>2, <1>3, <2>4, <2>6, <3>3
  <2>9. Waits(queue, Bytes, Taken, Pushed)'
    BY <1>1, <1>3, <2>7 DEF ConsoleInv
  <2>10. main'.told \in 0 .. Len(Args)
    BY <1>2, <1>4, <2>4
  <2>11. ConsoleInv'
    BY <1>1, <1>2, <1>3, <2>4, <2>6, <2>7, <2>8, <2>9, <2>10 DEF ConsoleInv
  <2> QED
    BY <1>1, <2>5, <2>11 DEF Pulsed
<1>5. CASE ~(main.told < Len(Args))
  <2>1. Goto("loop") /\ given' = given /\ pulse' = pulse
    BY <1>5 DEF Argument, Args, ports
  <2>2. main'.told = main.told /\ ~Telling(main')
    BY <1>1, <2>1 DEF Goto, Where, Telling
  <2>3. main'.told = Len(Args)
    BY <1>2, <1>5, <2>2
  <2>4. Taken' = Taken
    BY <2>1, <2>2 DEF Taken
  <2>5. Waits(queue, Bytes, Taken, Pushed)'
    BY <1>1, <1>3, <2>4 DEF ConsoleInv
  <2>6. ConsoleInv'
    BY <1>1, <1>2, <1>3, <2>1, <2>2, <2>3, <2>4, <2>5 DEF ConsoleInv
  <2> QED
    BY <1>1, <2>1, <2>6 DEF Pulsed
<1> QED
  BY <1>4, <1>5

\* An event is taken; if it is standard input's, the ROM is given the next input.
LEMMA ConsoleTakes ==
  ASSUME LoopTypeOK, ConsoleInv, Pulsed(main, pulse), TakeEvent
  PROVE  ConsoleInv'
<1>1. queue \in Seq(Event) /\ queue # <<>> /\ queue' = Tail(queue) /\ UNCHANGED <<rom, stdin>>
  BY DEF LoopTypeOK, TakeEvent, world
<1>2. PICK r : r = queue' /\ Shorter(queue, r) /\ Head(queue) = queue[1]
  BY <1>1, QueueMoves
<1>3. PICK e : e = queue[1] /\ Handles(e) /\ ~Telling(main)
  BY <1>2, TakeEventDoes
<1>4. /\ Len(Args) \in Nat /\ main.told = Len(Args) /\ Pushed \in Nat /\ Taken \in Nat
      /\ Taken <= Pushed /\ Pushed <= Len(Bytes) /\ Len(Bytes) \in Nat
      /\ Bytes \in Seq(Console) /\ Len(given) = main.told + Taken
  BY <1>3, Counts DEF ConsoleInv
<1>5. Args' = Args /\ Bytes' = Bytes /\ Pushed' = Pushed
  BY <1>1 DEF Args, Bytes, Pushed
<1>6. main'.told = main.told /\ ~Telling(main')
      /\ given' = IF e.type = "stdin" THEN Append(given, Told(e.in)) ELSE given
  BY <1>3 DEF Handles
<1>7. PICK t \in Nat, p \in Nat : t = Taken /\ p = Pushed /\ t <= p
  BY <1>4
<1>8. Waits(queue, Bytes, t, p)
  BY <1>7 DEF ConsoleInv
<1>9. CASE e.type # "stdin"
  <2>1. Waits(r, Bytes, t, p)
    BY <1>2, <1>3, <1>8, <1>9, WaitsShorter
  <2>2. Taken' = Taken
    BY <1>6, <1>9 DEF Taken
  <2>3. Waits(queue, Bytes, Taken, Pushed)'
    BY <1>2, <1>5, <1>7, <2>1, <2>2
  <2> QED
    BY <1>1, <1>4, <1>5, <1>6, <1>9, <2>2, <2>3 DEF ConsoleInv
<1>10. CASE e.type = "stdin"
  <2>1. t + 1 <= p /\ e.in = Bytes[t + 1] /\ Waits(r, Bytes, t + 1, p)
    BY <1>2, <1>3, <1>8, <1>10, WaitsTake
  <2>2. PICK in \in Console : in = e.in
    BY <1>4, <1>7, <2>1, ElementOfSeq
  <2>3. given' = Append(given, Told(in))
    BY <1>6, <1>10, <2>2
  <2>4. /\ given' \in Seq(Console) /\ Len(given') = Len(given) + 1
        /\ \A k \in 1 .. Len(given) : given'[k] = given[k]
        /\ given'[Len(given) + 1] = Told(Bytes[t + 1])
    BY <2>1, <2>2, <2>3, ConsoleGiven
  <2>5. Taken' = t + 1
    BY <1>4, <1>6, <1>7, <2>4 DEF Taken
  <2>6. Waits(queue, Bytes, Taken, Pushed)'
    BY <1>2, <1>5, <1>7, <2>1, <2>5
  <2>7. \A k \in 1 .. Len(given') : given'[k] = Told(IF k <= main'.told THEN Args'[k] ELSE Bytes'[k - main'.told])
    <3>1. \A k \in 1 .. Len(given') : k \in 1 .. Len(given) \/ k = Len(given) + 1
      BY <1>4, <2>4
    <3>2. \A k \in 1 .. Len(given) : given'[k] = Told(IF k <= main.told THEN Args[k] ELSE Bytes[k - main.told])
      BY <2>4 DEF ConsoleInv
    <3>3. ~(Len(given) + 1 <= main.told) /\ (Len(given) + 1) - main.told = t + 1
      BY <1>4, <1>7
    <3>4. \A k \in 1 .. Len(given) :
            given'[k] = Told(IF k <= main'.told THEN Args'[k] ELSE Bytes'[k - main'.told])
      BY ONLY <1>5, <1>6, <3>2
    <3>5. PICK n : n = Len(given) + 1
      OBVIOUS
    <3>6. given'[n] = Told(Bytes[n - main.told]) /\ ~(n <= main.told)
      BY <2>4, <3>3, <3>5
    <3>7. given'[n] = Told(IF n <= main'.told THEN Args'[n] ELSE Bytes'[n - main'.told])
      BY ONLY <1>5, <1>6, <3>6
    <3> QED
      BY ONLY <3>1, <3>4, <3>5, <3>7
  <2>8. Taken' \in 0 .. Pushed' /\ main'.told \in 0 .. Len(Args)
    BY <1>4, <1>5, <1>6, <1>7, <2>1, <2>5
  <2> QED
    BY <1>1, <1>4, <1>5, <1>6, <2>4, <2>6, <2>7, <2>8 DEF ConsoleInv
<1> QED
  BY <1>9, <1>10

-----------------------------------------------------------------------------
(* The invariant of the buttons.                                           *)

\* No event comes, and no button moves.
LEMMA HeldStays ==
  ASSUME HeldInv, UNCHANGED <<lost, buttons, queue, held>>
  PROVE  HeldInv'
BY DEF HeldInv

\* An event is taken.
LEMMA HeldTakes ==
  ASSUME LoopTypeOK, HeldInv, Pulsed(main, pulse), TakeEvent
  PROVE  HeldInv'
<1>1. queue \in Seq(Event) /\ queue # <<>> /\ queue' = Tail(queue) /\ UNCHANGED <<lost, held>>
  BY DEF LoopTypeOK, TakeEvent, world
<1>2. PICK r : r = queue' /\ Shorter(queue, r) /\ Head(queue) = queue[1]
  BY <1>1, QueueMoves
<1>3. PICK pressed : pressed = buttons' /\ pressed \subseteq (buttons \ Clears(queue[1])) \cup Sets(queue[1])
  BY <1>2, TakeEventDoes DEF Handles
<1>4. \A b \in Button : Remains(b, buttons', queue') => Remains(b, buttons, queue)
  BY <1>2, <1>3, RemainsShorter
<1> QED
  BY <1>1, <1>4 DEF HeldInv

\* An event comes: what it presses is held, and what it does not release remains so.
LEMMA HeldPushes ==
  ASSUME LoopTypeOK, HeldInv, NEW e \in Event, buttons' = buttons,
         lost' = TRUE \/ (queue' = Append(queue, e) /\ lost' = lost),
         \A b \in Button : b \in Sets(e) => Covered(b, held'),
         \A b \in Button : Covered(b, held) /\ b \notin Clears(e) => Covered(b, held')
  PROVE  HeldInv'
<1> SUFFICES ASSUME ~lost' PROVE HeldInv'
  BY DEF HeldInv
<1>1. queue \in Seq(Event) /\ queue' = Append(queue, e) /\ ~lost
  BY DEF LoopTypeOK
<1>2. PICK r : r = queue' /\ Longer(queue, e, r)
  BY <1>1, QueueMoves
<1>3. \A b \in Button : Remains(b, buttons, r) => b \in Sets(e) \/ (Remains(b, buttons, queue) /\ b \notin Clears(e))
  BY <1>2, RemainsLonger
<1>4. \A b \in Button : Remains(b, buttons', queue') => Covered(b, held')
  BY <1>1, <1>2, <1>3 DEF HeldInv
<1> QED
  BY <1>4 DEF HeldInv

\* An event of another thread comes, or is lost.
LEMMA HeldOther ==
  ASSUME LoopTypeOK, HeldInv, NEW e \in Event, e.type \in {"stdin", "finished"}, UNCHANGED <<buttons, held>>,
         lost' = TRUE \/ (queue' = Append(queue, e) /\ lost' = lost)
  PROVE  HeldInv'
<1>1. Sets(e) = {} /\ Clears(e) = {}
  BY DEF Sets, Clears
<1> QED
  BY <1>1, HeldPushes

\* What the user holds covers what the user's event presses.
LEMMA HeldInput ==
  ASSUME LoopTypeOK, HeldInv, NEW e \in Event, NEW h, Input(e, h),
         \A b \in Button : b \in Sets(e) => Covered(b, h),
         \A b \in Button : Covered(b, held) /\ b \notin Clears(e) => Covered(b, h)
  PROVE  HeldInv'
<1>1. held' = h /\ buttons' = buttons
  BY DEF Input, ports
<1>2. lost' = TRUE \/ (queue' = Append(queue, e) /\ lost' = lost)
  BY DEF Input, PushOrLose
<1> QED
  BY <1>1, <1>2, HeldPushes

\* What the user may do.
LEMMA HeldUser ==
  ASSUME LoopTypeOK, HeldInv, User
  PROVE  HeldInv'
<1>1. held \in [keys : SUBSET (Key \cup {"mouse1"}), hat : Hat,
                x : SUBSET AxisMask("x"), y : SUBSET AxisMask("y")]
  BY DEF LoopTypeOK
<1>2. Button = {"up", "down", "left", "right", "ctrl", "mouse1"} /\ "mouse1" \notin Pad
      /\ Directions = {"up", "down", "left", "right"} /\ Pad = Directions \cup {"ctrl"}
  BY DEF Button, Pad, Directions
<1>3. ASSUME NEW k \in Key \cup {"mouse1"}, Press(k) PROVE HeldInv'
  <2>1. PICK e : e = [type |-> IF k = "mouse1" THEN "mousedown" ELSE "keydown", sym |-> k]
    OBVIOUS
  <2>2. PICK h : h = [held EXCEPT !.keys = @ \cup {k}]
    OBVIOUS
  <2>3. Input(e, h)
    BY <1>3, <2>1, <2>2 DEF Press
  <2>4. e \in Event /\ Sets(e) \subseteq {k}
    BY <2>1 DEF Event, Sets, Button
  <2>5. h.keys = held.keys \cup {k} /\ h.hat = held.hat /\ h.x = held.x /\ h.y = held.y
    BY <1>1, <2>2
  <2> QED
    BY <2>3, <2>4, <2>5, HeldInput DEF Covered
<1>4. ASSUME NEW k \in Key \cup {"mouse1"}, Release(k) PROVE HeldInv'
  <2>1. PICK e : e = [type |-> IF k = "mouse1" THEN "mouseup" ELSE "keyup", sym |-> k]
    OBVIOUS
  <2>2. PICK h : h = [held EXCEPT !.keys = @ \ {k}]
    OBVIOUS
  <2>3. Input(e, h)
    BY <1>4, <2>1, <2>2 DEF Release
  <2>4. e \in Event /\ Sets(e) = {} /\ (k \in Button => Clears(e) = {k})
    BY <1>2, <2>1 DEF Event, Sets, Clears, Button
  <2>5. h.keys = held.keys \ {k} /\ h.hat = held.hat /\ h.x = held.x /\ h.y = held.y
    BY <1>1, <2>2
  <2> QED
    BY <2>3, <2>4, <2>5, HeldInput DEF Covered
<1>5. ASSUME NEW x \in {"x", "y"}, NEW mask \in {{}} \cup {{d} : d \in AxisMask(x)}, MoveAxis(x, mask)
      PROVE  HeldInv'
  <2>1. PICK e : e = [type |-> "axis", axis |-> x, mask |-> mask]
    OBVIOUS
  <2>2. PICK h : h = [held EXCEPT ![x] = mask]
    OBVIOUS
  <2>3. Input(e, h)
    BY <1>5, <2>1, <2>2 DEF MoveAxis
  <2>4. mask \subseteq AxisMask(x) /\ AxisMask(x) \subseteq Directions
    BY <1>5 DEF AxisMask, Directions
  <2>5. e \in Event /\ Sets(e) = mask /\ (mask = {} => Clears(e) = AxisMask(x))
    BY <2>1, <2>4 DEF Event, Sets, Clears
  <2>6. h.keys = held.keys /\ h.hat = held.hat /\ h.x = (IF x = "x" THEN mask ELSE held.x)
        /\ h.y = (IF x = "y" THEN mask ELSE held.y)
    BY <1>1, <1>5, <2>2
  <2>7. ASSUME NEW b \in Button, b \in Sets(e) PROVE Covered(b, h)
    BY <1>5, <2>4, <2>5, <2>6, <2>7 DEF Covered
  <2>8. ASSUME NEW b \in Button, Covered(b, held), b \notin Clears(e) PROVE Covered(b, h)
    BY <1>5, <2>5, <2>6, <2>8 DEF Covered
  <2> QED
    BY <2>3, <2>5, <2>7, <2>8, HeldInput
<1>6. ASSUME NEW mask \in Hat, MoveHat(mask) PROVE HeldInv'
  <2>1. PICK e : e = [type |-> "hat", mask |-> mask]
    OBVIOUS
  <2>2. PICK h : h = [held EXCEPT !.hat = mask]
    OBVIOUS
  <2>3. Input(e, h)
    BY <1>6, <2>1, <2>2 DEF MoveHat
  <2>4. mask \subseteq Directions
    BY DEF Hat
  <2>5. e \in Event /\ Sets(e) = mask /\ (mask = {} => Clears(e) = Directions)
    BY <2>1, <2>4 DEF Event, Sets, Clears
  <2>6. h.keys = held.keys /\ h.hat = mask /\ h.x = held.x /\ h.y = held.y
    BY <1>1, <2>2
  <2>7. ASSUME NEW b \in Button, b \in Sets(e) PROVE Covered(b, h)
    BY <2>4, <2>5, <2>6, <2>7 DEF Covered
  <2>8. ASSUME NEW b \in Button, Covered(b, held), b \notin Clears(e) PROVE Covered(b, h)
    BY <2>5, <2>6, <2>8 DEF Covered
  <2> QED
    BY <2>3, <2>5, <2>7, <2>8, HeldInput
<1>7. ASSUME NEW t \in {"text", "wheel", "quit"}, Other(t) PROVE HeldInv'
  <2>1. PICK e : e = [type |-> t]
    OBVIOUS
  <2>2. e \in Event /\ Sets(e) = {}
    BY <2>1 DEF Event, Sets
  <2>3. Input(e, held)
    BY <1>7, <2>1 DEF Other
  <2>4. PICK h : h = held
    OBVIOUS
  <2> QED
    BY <2>2, <2>3, <2>4, HeldInput
<1> QED
  BY <1>3, <1>4, <1>5, <1>6, <1>7 DEF User

-----------------------------------------------------------------------------
(* The theorems of the console and the buttons.                            *)

InputsInv == Inv /\ ConsoleInv /\ HeldInv /\ Pulsed(main, pulse)

\* At first nothing was told, taken or pushed, and nothing is held.
LEMMA InitInputs == Init => InputsInv
<1> SUFFICES ASSUME Init PROVE InputsInv
  OBVIOUS
<1>1. Inv
  BY InitInv
<1>2. /\ rom \in Programs /\ main.told = 0 /\ main.at = "vector" /\ main.then = "args" /\ given = <<>>
      /\ queue = <<>> /\ stdin.at = "read" /\ stdin.count = 0 /\ buttons = {} /\ pulse = "none"
  BY DEF Init
<1>3. Len(given) = 0 /\ Len(queue) = 0 /\ given \in Seq(Console)
  BY <1>2, EmptySeq
<1>4. Args \in Seq(Console) /\ Len(Args) \in Nat
  BY <1>2, ConsoleSeqs, LenProperties
<1>5. Taken = 0 /\ Pushed = 0 /\ Telling(main)
  BY <1>2, <1>3 DEF Taken, Pushed, Telling
<1>6. Waits(queue, Bytes, 0, 0)
  <2>1. PICK place : place = [k \in {} |-> 1]
    OBVIOUS
  <2>2. WaitAt(queue, Bytes, 0, 0, place)
    BY <1>3, <2>1 DEF WaitAt
  <2> QED
    BY <2>2 DEF Waits
<1>7. ConsoleInv
  BY <1>2, <1>3, <1>4, <1>5, <1>6 DEF ConsoleInv
<1>8. HeldInv
  BY <1>2, <1>3 DEF HeldInv, Remains
<1> QED
  BY <1>1, <1>2, <1>7, <1>8 DEF InputsInv, Pulsed

\* Every step keeps what the ROM was told, and what is held.
LEMMA StepInputs == InputsInv /\ [Next]_vars => InputsInv'
<1> SUFFICES ASSUME Inv, LoopTypeOK, ConsoleInv, HeldInv, Pulsed(main, pulse), [Next]_vars PROVE InputsInv'
  BY DEF InputsInv, Inv
<1>1. Inv'
  BY StepInv
<1> SUFFICES ConsoleInv' /\ HeldInv' /\ Pulsed(main', pulse')
  BY <1>1 DEF InputsInv
<1>2. CASE Brk \/ Unpause \/ Loop \/ NoMoreEvents \/ Clear \/ Peep \/ Frame \/ Wait \/ Rom
  <2>1. main \in Where
    BY DEF LoopTypeOK
  <2>2. /\ UNCHANGED <<rom, buttons, given, events, stdin, held>>
        /\ main'.told = main.told /\ Telling(main') = Telling(main) /\ Pulsed(main', pulse')
    BY <1>2, <2>1, QuietSteps
  <2>3. UNCHANGED <<queue, lost>>
    BY <2>2 DEF events
  <2> QED
    BY <2>2, <2>3, ConsoleStays, HeldStays
<1>3. CASE Argument
  <2>1. UNCHANGED <<lost, buttons, queue, held>>
    BY <1>3 DEF Argument, ConsoleInput, events, world, ports
  <2> QED
    BY <1>3, <2>1, ConsoleArgument, HeldStays
<1>4. CASE TakeEvent
  BY <1>4, ConsoleTakes, HeldTakes, TakeEventDoes DEF Handles
<1>5. CASE Stdin
  <2>1. UNCHANGED <<main, pulse, buttons, held>>
    BY <1>5 DEF Stdin, StdinRead, StdinPush, ports
  <2>2. HeldInv'
    <3>1. CASE StdinRead
      BY <2>1, <3>1, HeldStays DEF StdinRead, events
    <3>2. CASE StdinPush
      <4>1. PICK k \in 1 .. Len(rom.bytes) + 1 : k = IF stdin.at = "push" THEN stdin.count ELSE stdin.count + 1
        <5>1. Len(rom.bytes) \in Nat /\ stdin.count \in 0 .. Len(rom.bytes)
          BY Counts
        <5>2. stdin.at = "push" => stdin.count > 0
          BY DEF LoopTypeOK
        <5> QED
          BY ONLY <5>1, <5>2
      <4>2. PICK e : e = [type |-> "stdin", in |-> Bytes[k]]
        OBVIOUS
      <4>3. queue' = Append(queue, e) /\ lost' = lost
        BY <3>2, <4>1, <4>2 DEF StdinPush, Bytes
      <4>4. e \in Event
        <5>1. Bytes[k] \in [c : Byte, type : {"STD", "END"}]
          BY StdinInputTyped DEF LoopTypeOK, Bytes
        <5> QED
          BY <4>2, <5>1 DEF Event
      <4>5. e.type \in {"stdin", "finished"}
        BY <4>2
      <4> QED
        BY <2>1, <4>3, <4>4, <4>5, HeldOther
    <3> QED
      BY <1>5, <3>1, <3>2 DEF Stdin
  <2>3. Pulsed(main', pulse')
    BY <2>1
  <2> QED
    BY <1>5, <2>2, <2>3, ConsoleStdin DEF Stdin
<1>6. CASE Callback
  <2>1. UNCHANGED <<rom, main, given, pulse, buttons, stdin, held>>
    BY <1>6 DEF Callback, Render, FinishVoice, ports, world
  <2>2. UNCHANGED events \/ PushOrLose([type |-> "finished", voice |-> callback.instance])
    BY <1>6 DEF Callback, Render, FinishVoice
  <2>3. CASE UNCHANGED events
    BY <2>1, <2>3, ConsoleStays, HeldStays DEF events
  <2>4. CASE PushOrLose([type |-> "finished", voice |-> callback.instance])
    <3>1. PICK e : e = [type |-> "finished", voice |-> callback.instance]
      OBVIOUS
    <3>2. e \in Event /\ e.type = "finished" /\ PushOrLose(e)
      BY <2>4, <3>1, CallbackFacts DEF Inv, Event, CallbackState
    <3>3. ConsoleInv'
      BY <2>1, <3>2, ConsoleEvent
    <3>4. lost' = TRUE \/ (queue' = Append(queue, e) /\ lost' = lost)
      BY <3>2 DEF PushOrLose
    <3>5. HeldInv'
      BY <2>1, <3>2, <3>4, HeldOther
    <3> QED
      BY <2>1, <3>3, <3>5
  <2> QED
    BY <2>2, <2>3, <2>4
<1>7. CASE FrameDue
  <2>1. UNCHANGED <<rom, main, given, pulse, buttons, queue, lost, stdin, held>>
    BY <1>7 DEF FrameDue, ports, events
  <2> QED
    BY <2>1, ConsoleStays, HeldStays
<1>8. CASE User
  <2>1. PICK e \in Event : e.type # "stdin" /\ \E h : Input(e, h)
    <3>1. ASSUME NEW k \in Key \cup {"mouse1"}, Press(k) \/ Release(k)
          PROVE  \E e \in Event : e.type # "stdin" /\ \E h : Input(e, h)
      <4>1. PICK t \in {"mousedown", "mouseup", "keydown", "keyup"} :
              /\ \E h : Input([type |-> t, sym |-> k], h)
              /\ IF k = "mouse1" THEN t \in {"mousedown", "mouseup"} ELSE t \in {"keydown", "keyup"}
        BY <3>1 DEF Press, Release
      <4>2. [type |-> t, sym |-> k] \in Event /\ [type |-> t, sym |-> k].type # "stdin"
        BY <4>1 DEF Event, Button
      <4> QED
        BY <4>1, <4>2
    <3>2. ASSUME NEW x \in {"x", "y"}, NEW mask \in {{}} \cup {{d} : d \in AxisMask(x)}, MoveAxis(x, mask)
          PROVE  \E e \in Event : e.type # "stdin" /\ \E h : Input(e, h)
      <4>1. PICK e : e = [type |-> "axis", axis |-> x, mask |-> mask]
        OBVIOUS
      <4>2. mask \subseteq Directions
        BY <3>2 DEF AxisMask, Directions
      <4>3. e \in Event /\ e.type # "stdin"
        BY <4>1, <4>2 DEF Event
      <4> QED
        BY <3>2, <4>1, <4>3 DEF MoveAxis
    <3>3. ASSUME NEW mask \in Hat, MoveHat(mask)
          PROVE  \E e \in Event : e.type # "stdin" /\ \E h : Input(e, h)
      <4>1. [type |-> "hat", mask |-> mask] \in Event /\ [type |-> "hat", mask |-> mask].type # "stdin"
        BY DEF Event, Hat
      <4> QED
        BY <3>3, <4>1 DEF MoveHat
    <3>4. ASSUME NEW t \in {"text", "wheel", "quit"}, Other(t)
          PROVE  \E e \in Event : e.type # "stdin" /\ \E h : Input(e, h)
      <4>1. [type |-> t] \in Event /\ [type |-> t].type # "stdin"
        BY DEF Event
      <4> QED
        BY <3>4, <4>1 DEF Other
    <3> QED
      BY <1>8, <3>1, <3>2, <3>3, <3>4 DEF User
  <2>2. UNCHANGED <<rom, main, given, pulse, stdin>> /\ PushOrLose(e)
    BY <2>1 DEF Input, ports
  <2>3. ConsoleInv'
    BY <2>1, <2>2, ConsoleEvent
  <2>4. Pulsed(main', pulse')
    BY <2>2
  <2> QED
    BY <1>8, <2>3, <2>4, HeldUser
<1>9. CASE UNCHANGED vars
  <2>1. UNCHANGED <<rom, main, given, pulse, buttons, queue, lost, stdin, held>>
    BY <1>9 DEF vars, ports, events, world
  <2> QED
    BY <2>1, ConsoleStays, HeldStays
<1> QED
  BY <1>2, <1>3, <1>4, <1>5, <1>6, <1>7, <1>8, <1>9 DEF Next, Main

\* Both invariants always hold.
LEMMA InputsHold == Spec => []InputsInv
  BY InitInputs, StepInputs, PTL DEF Spec

\* The ROM is told its arguments, then the bytes of standard input, then its end, each
\* once and in order, whenever the queue is full and whatever else is in it; what it is
\* told of a byte 255 of an argument is an end.
THEOREM EveryInputOnce == Spec => []ConsoleInOrder
<1>1. InputsInv => ConsoleInOrder
  <2> SUFFICES ASSUME Inv, ConsoleInv PROVE ConsoleInOrder
    BY DEF InputsInv
  <2>1. LoopTypeOK
    BY DEF Inv
  <2>2. /\ Args \in Seq(Console) /\ Bytes \in Seq(Console) /\ Len(Args) \in Nat /\ Len(Bytes) \in Nat
        /\ Taken \in 0 .. Len(Bytes) /\ main.told \in 0 .. Len(Args) /\ Len(given) = main.told + Taken
        /\ Len(given) \in Nat
    <3>1. Pushed \in 0 .. Len(Bytes) /\ Taken \in 0 .. Pushed
      BY <2>1, Counts
    <3> QED
      BY <2>1, <3>1, Counts
  <2>3. main.told < Len(Args) => Taken = 0
    <3>1. Telling(main) => Taken = 0
      BY DEF ConsoleInv
    <3>2. ~Telling(main) => main.told = Len(Args)
      BY DEF ConsoleInv
    <3> QED
      BY <2>2, <3>1, <3>2
  <2>4. PICK all : all = Args \o Bytes
    OBVIOUS
  <2>5. /\ Len(all) = Len(Args) + Len(Bytes) /\ Len(all) \in Nat /\ all \in Seq(Console)
        /\ \A k \in 1 .. Len(Args) : all[k] = Args[k]
        /\ \A k \in Len(Args) + 1 .. Len(all) : all[k] = Bytes[k - Len(Args)]
    <3>1. /\ Args \o Bytes \in Seq(Console) /\ Len(Args \o Bytes) = Len(Args) + Len(Bytes)
          /\ \A k \in 1 .. Len(Args) + Len(Bytes) :
               (Args \o Bytes)[k] = IF k <= Len(Args) THEN Args[k] ELSE Bytes[k - Len(Args)]
      BY ONLY <2>2, ConcatProperties
    <3> QED
      BY <2>2, <2>4, <3>1
  <2>6. Len(given) <= Len(all) /\ \A k \in 1 .. Len(given) : given[k] = Told(all[k])
    <3>1. Len(given) <= Len(all)
      BY <2>2, <2>5
    <3>2. ASSUME NEW k \in 1 .. Len(given) PROVE given[k] = Told(all[k])
      <4>1. given[k] = Told(IF k <= main.told THEN Args[k] ELSE Bytes[k - main.told])
        BY DEF ConsoleInv
      <4>2. CASE k <= main.told
        <5>1. k \in 1 .. Len(Args)
          BY <2>2, <4>2
        <5> QED
          BY <2>5, <4>1, <4>2, <5>1
      <4>3. CASE ~(k <= main.told)
        <5>1. main.told = Len(Args) /\ k \in Len(Args) + 1 .. Len(all)
          BY <2>2, <2>3, <2>5, <3>1, <4>3
        <5> QED
          BY <2>5, <4>1, <4>3, <5>1
      <4> QED
        BY <4>2, <4>3
    <3> QED
      BY <3>1, <3>2
  <2>7. PICK told : told = [k \in DOMAIN all |-> Told(all[k])]
    OBVIOUS
  <2>8. told \in Seq(Console) /\ Len(told) = Len(all) /\ \A k \in 1 .. Len(all) : told[k] = Told(all[k])
    <3>1. DOMAIN all = 1 .. Len(all) /\ \A k \in 1 .. Len(all) : all[k] \in Console
      BY <2>5, LenProperties, ElementOfSeq
    <3>2. \A in \in Console : Told(in) \in Console
      BY DEF Told, Console
    <3>3. \A k \in 1 .. Len(all) : Told(all[k]) \in Console
      BY ONLY <3>1, <3>2
    <3>4. told \in [1 .. Len(all) -> Console] /\ \A k \in 1 .. Len(all) : told[k] = Told(all[k])
      BY ONLY <2>7, <3>1, <3>3
    <3>5. told \in Seq(Console)
      BY <2>5, <3>4, SeqDef
    <3>6. Len(told) \in Nat /\ DOMAIN told = 1 .. Len(told) /\ DOMAIN told = 1 .. Len(all)
      BY <3>4, <3>5, LenProperties
    <3>7. Len(told) = Len(all)
      <4>1. PICK a \in Nat, b \in Nat : a = Len(told) /\ b = Len(all)
        BY <2>5, <3>6, Zenon
      <4>2. 1 .. a = 1 .. b
        BY <3>6, <4>1, Zenon
      <4>3. a = b
        BY ONLY a \in Nat, b \in Nat, <4>2
      <4> QED
        BY <4>1, <4>3
    <3> QED
      BY <3>4, <3>5, <3>7
  <2>9. IsPrefix(given, told)
    <3>1. given \in Seq(Console)
      BY DEF ConsoleInv
    <3>2. \A k \in 1 .. Len(given) : given[k] = told[k]
      BY <2>2, <2>5, <2>6, <2>8
    <3> QED
      BY <2>2, <2>5, <2>6, <2>8, <3>1, <3>2 DEF IsPrefix
  <2> QED
    BY <2>4, <2>7, <2>9 DEF ConsoleInOrder, Args, Bytes
<1> QED
  BY <1>1, InputsHold, PTL

\* Once the events are taken every button that is pressed is held, or a direction of a
\* hat or an axis that is off its middle; and a key or a wheel is seen by its own vector
\* only.
THEOREM PortsAreTrue == Spec => []InputPorts
<1>1. InputsInv => InputPorts
  <2> SUFFICES ASSUME Inv, HeldInv, Pulsed(main, pulse) PROVE ButtonsAreHeld /\ PulseIsTransient
    BY DEF InputsInv, InputPorts
  <2>1. PulseIsTransient
    BY DEF Pulsed, PulseIsTransient
  <2>2. ButtonsAreHeld
    <3> SUFFICES ASSUME ~lost, queue = <<>>, NEW b \in buttons PROVE Holds(b)
      BY DEF ButtonsAreHeld
    <3>1. b \in Button
      BY DEF Inv, LoopTypeOK
    <3>2. Len(queue) = 0
      BY EmptySeq
    <3>3. Remains(b, buttons, queue)
      BY <3>2 DEF Remains
    <3>4. Covered(b, held)
      BY <3>1, <3>3 DEF HeldInv
    <3> QED
      BY <3>4 DEF Covered, Holds
  <2> QED
    BY <2>1, <2>2
<1> QED
  BY <1>1, InputsHold, PTL
=============================================================================
