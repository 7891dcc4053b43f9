------------------------- MODULE FileDevice_proofs --------------------------
(***************************************************************************)
(* Proofs about FileDevice, for any number of devices, any files,          *)
(* directories, ROMs and size of the disk: a device has one handle, the    *)
(* sandbox checked once holds as far as the check goes, reading in pieces  *)
(* gives the file, listing in pieces the directory, and what a WRITE       *)
(* answered stays.                                                         *)
(*                                                                         *)
(* The invariant says of each device what its history and its handle make  *)
(* together: bytes read and bytes read ahead are the file up to where the  *)
(* stream is; entries shown and entries left are those there were; and     *)
(* what was answered is in the file that the stream means, named or not.   *)
(***************************************************************************)
EXTENDS FileDevice, SequenceTheorems, FiniteSetTheorems, WellFoundedInduction, TLAPS

-----------------------------------------------------------------------------
(* The inductive invariant.                                                *)

\* What there is of a device.
DevRec ==
  [name : Name, state : {"IDLE", "FILE_READ", "FILE_WRITE", "DIR_READ", "DIR_WRITE"},
   f : Stream \cup {NULL}, dir : (SUBSET Entry) \cup {NULL}, de : Entry \cup {NULL},
   outside : BOOLEAN, firm : BOOLEAN]

\* What there is of its history.
HistRec ==
  [got : Seq(Letter) \cup Seq(SUBSET Entry), ended : BOOLEAN, entries : SUBSET Entry,
   put : SUBSET ((1 .. MaxSize) \X Letter), safe : BOOLEAN]

\* Device d has the one handle its state says, and a stream that writes has read
\* nothing ahead.
Handles(d) ==
  /\ d.f # NULL <=> d.state \in {"FILE_READ", "FILE_WRITE"}
  /\ d.dir # NULL <=> d.state = "DIR_READ"
  /\ d.de # NULL => d.state = "DIR_READ"
  /\ d.f # NULL => Len(d.f.buf) <= d.f.pos
  /\ d.state = "FILE_WRITE" => d.f.buf = <<>> /\ Place(d.name) \in File

\* What was read and what was read ahead are the first pos bytes of file.
Joined(got, buf, file, pos) == got \o buf = SubSeq(file, 1, pos)

\* What the ROM has read from file and what the stream has read ahead are the file up
\* to where the system is in it.
ReadSoFar(d, h, file) ==
  /\ h.got \in Seq(Letter) /\ d.f.pos <= Len(file)
  /\ Joined(h.got, d.f.buf, file, d.f.pos)
  /\ d.f.eof => d.f.pos = Len(file)
  /\ h.ended => h.got = file

\* The entries a directory has still to show.
Left(d) == (d.dir \cup (IF d.de = NULL THEN {} ELSE {d.de})) \ Hidden(Place(d.name))

\* The entries in the lines shown.
InLines(got) == UNION {got[k] : k \in 1 .. Len(got)}

\* No entry is in two lines.
Apart(got) == \A j, k \in 1 .. Len(got) : j # k => got[j] \cap got[k] = {}

\* The lines shown are apart, and with those left they are the entries.
ListedSoFar(d, h) ==
  /\ h.got \in Seq(SUBSET Entry) /\ Apart(h.got) /\ IsFiniteSet(d.dir)
  /\ InLines(h.got) \cap Left(d) = {} /\ InLines(h.got) \cup Left(d) = h.entries
  /\ h.ended => Left(d) = {}

\* What was answered to be written is in file.
WrittenSoFar(h, file) ==
  \A e \in h.put : e[1] <= Len(file) /\ file[e[1]] = e[2]

\* All this of device d with history h and the data dt.
Kept(d, h, dt) ==
  /\ Handles(d)
  /\ d.state = "FILE_READ" /\ h.safe => ReadSoFar(d, h, dt[d.f.inode])
  /\ d.state = "DIR_READ" => ListedSoFar(d, h)
  /\ d.state = "FILE_WRITE" /\ h.safe => WrittenSoFar(h, dt[d.f.inode])

\* The names that mean a file.
Names == {x \in File : inode[x] # NULL}

\* The disk has its type, with finitely many names and directories.
DiskInv ==
  /\ inode \in [File -> Inode \cup {NULL}] /\ data \in [Inode -> Text]
  /\ made \subseteq Dir /\ rom \in Programs
  /\ IsFiniteSet(made) /\ IsFiniteSet(Names)

\* The inductive invariant: all this of every device.
FileInv ==
  /\ DiskInv
  /\ dev \in [Device -> DevRec] /\ hist \in [Device -> HistRec]
  /\ \A i \in Device : Kept(dev[i], hist[i], data)

-----------------------------------------------------------------------------
(* What is in a file.                                                      *)

\* Equal intervals are as long.
LEMMA SameLength == ASSUME NEW a \in Nat, NEW b \in Nat, 1 .. a = 1 .. b PROVE a = b
<1>1. a >= 1 => a \in 1 .. b
  OBVIOUS
<1>2. b >= 1 => b \in 1 .. a
  OBVIOUS
<1>3. (a >= 1 => a <= b) /\ (b >= 1 => b <= a)
  BY <1>1, <1>2
<1> QED
  BY ONLY <1>3, a \in Nat, b \in Nat

\* A function on the first n numbers is a sequence of length n.
LEMMA LenIs ==
  ASSUME NEW S, NEW n \in Nat, NEW s \in [1 .. n -> S]
  PROVE  s \in Seq(S) /\ Len(s) = n
<1>1. s \in Seq(S)
  BY SeqDef
<1>2. Len(s) \in Nat /\ DOMAIN s = 1 .. Len(s)
  BY <1>1, LenProperties
<1>3. 1 .. Len(s) = 1 .. n
  BY <1>2
<1>4. Len(s) = n
  BY ONLY <1>2, <1>3, n \in Nat, SameLength, Zenon
<1> QED
  BY <1>1, <1>4

\* The contents of a file are the sequences that fit on the disk.
LEMMA TextIsSeq == \A s : s \in Text <=> s \in Seq(Letter) /\ Len(s) <= MaxSize
<1>1. MaxSize \in Nat
  BY DiskAssumption
<1>2. ASSUME NEW s \in Text PROVE s \in Seq(Letter) /\ Len(s) <= MaxSize
  <2>1. PICK n \in 0 .. MaxSize : s \in [1 .. n -> Letter]
    BY DEF Text
  <2>2. n \in Nat /\ n <= MaxSize
    BY <1>1
  <2> QED
    BY <2>1, <2>2, LenIs
<1>3. ASSUME NEW s \in Seq(Letter), Len(s) <= MaxSize PROVE s \in Text
  <2>1. s \in [1 .. Len(s) -> Letter] /\ Len(s) \in 0 .. MaxSize
    BY <1>1, <1>3, LenProperties
  <2> QED
    BY <2>1 DEF Text
<1> QED
  BY <1>2, <1>3

\* An empty file fits.
LEMMA EmptyText == <<>> \in Text
<1>1. <<>> \in Seq(Letter) /\ Len(<<>>) = 0 /\ 0 <= MaxSize
  BY EmptySeq, DiskAssumption
<1> QED
  BY <1>1, TextIsSeq

\* A write changes its own positions and leaves the others.
LEMMA OverlayIs ==
  ASSUME NEW s \in Text, NEW p \in 0 .. MaxSize, NEW b \in Seq(Letter), p + Len(b) <= MaxSize
  PROVE  /\ Overlay(s, p, b) \in Text
         /\ Len(Overlay(s, p, b)) >= Len(s)
         /\ Len(Overlay(s, p, b)) >= p + Len(b)
         /\ \A k \in 1 .. Len(b) : Overlay(s, p, b)[p + k] = b[k]
         /\ \A k \in 1 .. Len(s) : k \notin p + 1 .. p + Len(b) => Overlay(s, p, b)[k] = s[k]
<1> DEFINE m == IF p + Len(b) > Len(s) THEN p + Len(b) ELSE Len(s)
           o == Overlay(s, p, b)
<1>1. /\ Len(s) \in Nat /\ Len(b) \in Nat /\ MaxSize \in Nat /\ p \in Nat
      /\ Len(s) <= MaxSize
  BY TextIsSeq, LenProperties, DiskAssumption
<1>2. /\ \A k \in 1 .. Len(b) : b[k] \in Letter
      /\ \A k \in 1 .. Len(s) : s[k] \in Letter
      /\ 0 \in Letter
  BY TextIsSeq, ElementOfSeq DEF Letter
<1>3. m \in 0 .. MaxSize /\ m >= Len(s) /\ m >= p + Len(b)
  BY ONLY <1>1, p + Len(b) <= MaxSize
<1>4. o = [k \in 1 .. m |-> IF k > p /\ k <= p + Len(b) THEN b[k - p]
                            ELSE IF k <= Len(s) THEN s[k] ELSE 0]
  BY DEF Overlay
<1> HIDE DEF o, m
<1>5. o \in [1 .. m -> Letter]
  <2> SUFFICES ASSUME NEW k \in 1 .. m
               PROVE  (IF k > p /\ k <= p + Len(b) THEN b[k - p]
                       ELSE IF k <= Len(s) THEN s[k] ELSE 0) \in Letter
    BY <1>4
  <2>1. CASE k > p /\ k <= p + Len(b)
    <3>1. k - p \in 1 .. Len(b)
      BY ONLY <1>1, <1>3, <2>1, k \in 1 .. m
    <3> QED
      BY <1>2, <2>1, <3>1
  <2>2. CASE ~(k > p /\ k <= p + Len(b)) /\ k <= Len(s)
    <3>1. k \in 1 .. Len(s)
      BY ONLY <1>1, <1>3, <2>2, k \in 1 .. m
    <3> QED
      BY <1>2, <2>2, <3>1
  <2>3. CASE ~(k > p /\ k <= p + Len(b)) /\ ~(k <= Len(s))
    BY <1>2, <2>3
  <2> QED
    BY <2>1, <2>2, <2>3
<1>6. o \in Text
  BY <1>3, <1>5 DEF Text
<1>7. Len(o) = m
  BY <1>3, <1>5, LenIs
<1>8. ASSUME NEW k \in 1 .. Len(b) PROVE o[p + k] = b[k]
  <2>1. /\ p + k \in 1 .. m /\ p + k > p /\ p + k <= p + Len(b) /\ (p + k) - p = k
    BY ONLY <1>1, <1>3, k \in 1 .. Len(b)
  <2> QED
    BY <1>4, <2>1
<1>9. ASSUME NEW k \in 1 .. Len(s), k \notin p + 1 .. p + Len(b) PROVE o[k] = s[k]
  <2>1. k \in 1 .. m /\ ~(k > p /\ k <= p + Len(b)) /\ k <= Len(s)
    BY ONLY <1>1, <1>3, <1>9, k \in 1 .. Len(s)
  <2> QED
    BY <1>4, <2>1
<1> QED
  BY <1>3, <1>6, <1>7, <1>8, <1>9 DEF o

\* The bytes of a fread, from what was read ahead and the rest of the file.
Fetched(file, pos, buf, again) ==
  IF again THEN buf \o SubSeq(file, pos + 1, Len(file)) ELSE buf

\* Where the system is in the file afterwards.
Moved(file, pos, again) == IF again /\ pos < Len(file) THEN Len(file) ELSE pos

\* What is read ahead is never longer than what the system has read.
LEMMA FetchedIs ==
  ASSUME NEW file \in Text, NEW buf \in Text, NEW pos \in 0 .. MaxSize, Len(buf) <= pos,
         NEW again \in BOOLEAN
  PROVE  /\ Fetched(file, pos, buf, again) \in Seq(Letter)
         /\ Moved(file, pos, again) \in 0 .. MaxSize
         /\ Len(Fetched(file, pos, buf, again)) <= Moved(file, pos, again)
<1> DEFINE rest == SubSeq(file, pos + 1, Len(file))
<1>1. /\ file \in Seq(Letter) /\ Len(file) \in Nat /\ Len(file) <= MaxSize
      /\ buf \in Seq(Letter) /\ Len(buf) \in Nat /\ MaxSize \in Nat /\ pos \in Nat
  BY TextIsSeq, LenProperties, DiskAssumption
<1>2. rest \in Seq(Letter) /\ Len(rest) = IF pos + 1 <= Len(file) THEN Len(file) - pos ELSE 0
  <2>1. pos + 1 \in Int /\ Len(file) \in Int /\ pos + 1 \in Nat \ {0}
    BY ONLY <1>1
  <2>2. \A k \in pos + 1 .. Len(file) : file[k] \in Letter
    <3>1. \A k \in pos + 1 .. Len(file) : k \in 1 .. Len(file)
      BY ONLY <1>1
    <3> QED
      BY <1>1, <3>1, ElementOfSeq
  <2>3. /\ rest \in Seq(Letter)
        /\ Len(rest) = IF pos + 1 <= Len(file) THEN Len(file) - (pos + 1) + 1 ELSE 0
    BY <2>1, <2>2, SubSeqProperties
  <2> HIDE DEF rest
  <2> QED
    BY ONLY <1>1, <2>3
<1> HIDE DEF rest
<1>3. buf \o rest \in Seq(Letter) /\ Len(buf \o rest) = Len(buf) + Len(rest)
  BY <1>1, <1>2, ConcatProperties
<1>4. Fetched(file, pos, buf, again) = IF again THEN buf \o rest ELSE buf
  BY DEF Fetched, rest
<1>5. CASE again
  BY <1>1, <1>2, <1>3, <1>4, <1>5, Len(buf) <= pos DEF Moved
<1>6. CASE ~again
  BY <1>1, <1>4, <1>6, Len(buf) <= pos DEF Moved
<1> QED
  BY <1>5, <1>6

\* A sequence and its first some elements.
LEMMA Halves ==
  ASSUME NEW S, NEW s \in Seq(S), NEW k \in 0 .. Len(s)
  PROVE  /\ SubSeq(s, 1, k) \in Seq(S) /\ Len(SubSeq(s, 1, k)) = k
         /\ SubSeq(s, k + 1, Len(s)) \in Seq(S) /\ Len(SubSeq(s, k + 1, Len(s))) = Len(s) - k
         /\ SubSeq(s, 1, k) \o SubSeq(s, k + 1, Len(s)) = s
         /\ \A j \in 1 .. k : SubSeq(s, 1, k)[j] = s[j]
<1>1. Len(s) \in Nat /\ k \in Nat /\ k <= Len(s)
  BY LenProperties
<1>2. \A j \in 1 .. Len(s) : s[j] \in S
  BY ElementOfSeq
<1>3. /\ SubSeq(s, 1, k) \in Seq(S) /\ Len(SubSeq(s, 1, k)) = IF 1 <= k THEN k - 1 + 1 ELSE 0
      /\ \A j \in 1 .. k - 1 + 1 : SubSeq(s, 1, k)[j] = s[1 + j - 1]
  <2>1. \A j \in 1 .. k : s[j] \in S
    BY <1>1, <1>2
  <2> QED
    BY <1>1, <2>1, SubSeqProperties
<1>4. /\ SubSeq(s, k + 1, Len(s)) \in Seq(S)
      /\ Len(SubSeq(s, k + 1, Len(s))) = IF k + 1 <= Len(s) THEN Len(s) - (k + 1) + 1 ELSE 0
  <2>1. \A j \in k + 1 .. Len(s) : s[j] \in S
    BY <1>1, <1>2
  <2>2. k + 1 \in Int /\ Len(s) \in Int
    BY <1>1
  <2> QED
    BY <2>1, <2>2, SubSeqProperties
<1>5. SubSeq(s, 1, k) \o SubSeq(s, k + 1, Len(s)) = s
  <2>1. 1 \in 1 .. Len(s) + 1 /\ k \in 1 - 1 .. Len(s) /\ Len(s) \in k .. Len(s)
    BY <1>1
  <2> QED
    BY <2>1, ConcatAdjacentSubSeq, SubSeqFull
<1>6. \A j \in 1 .. k : SubSeq(s, 1, k)[j] = s[j]
  <2>1. \A j \in 1 .. k : j \in 1 .. k - 1 + 1 /\ 1 + j - 1 = j
    BY <1>1
  <2> QED
    BY <1>3, <2>1
<1>7. Len(SubSeq(s, 1, k)) = k /\ Len(SubSeq(s, k + 1, Len(s))) = Len(s) - k
  BY ONLY <1>1, <1>3, <1>4
<1> QED
  BY <1>3, <1>4, <1>5, <1>6, <1>7

\* Concatenation is associative.
LEMMA Assoc ==
  ASSUME NEW s \in Seq(Letter), NEW t \in Seq(Letter), NEW u \in Seq(Letter)
  PROVE  s \o (t \o u) = (s \o t) \o u
BY ConcatAssociative, SMTT(20)

\* Bytes already read, those read ahead and those fetched are the file up to where the
\* system is now.
LEMMA FetchedOn ==
  ASSUME NEW file \in Text, NEW got \in Seq(Letter), NEW buf \in Text, NEW pos \in 0 .. MaxSize,
         Len(buf) <= pos, NEW again \in BOOLEAN, pos <= Len(file),
         Joined(got, buf, file, pos)
  PROVE  /\ Joined(got, Fetched(file, pos, buf, again), file, Moved(file, pos, again))
         /\ Moved(file, pos, again) <= Len(file)
         /\ again => Moved(file, pos, again) = Len(file)
<1>1. /\ file \in Seq(Letter) /\ Len(file) \in Nat /\ buf \in Seq(Letter) /\ pos \in Nat
      /\ got \o buf = SubSeq(file, 1, pos)
  BY TextIsSeq, LenProperties, DiskAssumption DEF Joined
<1>2. Moved(file, pos, again) = IF again THEN Len(file) ELSE pos
  BY <1>1, pos <= Len(file) DEF Moved
<1>3. CASE again
  <2>1. pos \in 0 .. Len(file)
    BY <1>1, pos <= Len(file)
  <2>2. PICK rest \in Seq(Letter) :
          /\ rest = SubSeq(file, pos + 1, Len(file))
          /\ SubSeq(file, 1, pos) \o rest = file
          /\ SubSeq(file, 1, Len(file)) = file
    BY <1>1, <2>1, Halves, SubSeqFull
  <2>3. got \o (buf \o rest) = (got \o buf) \o rest
    <3>1. buf \in Seq(Letter)
      BY <1>1
    <3> QED
      BY <3>1, Assoc
  <2>4. Fetched(file, pos, buf, again) = buf \o rest
    BY <1>3, <2>2 DEF Fetched
  <2>5. (got \o buf) \o rest = file
    BY ONLY <1>1, <2>2
  <2>6. got \o Fetched(file, pos, buf, again) = file
    BY ONLY <2>3, <2>4, <2>5
  <2>7. Moved(file, pos, again) = Len(file)
    BY <1>2, <1>3
  <2>8. got \o Fetched(file, pos, buf, again) = SubSeq(file, 1, Moved(file, pos, again))
    BY ONLY <2>2, <2>6, <2>7, Zenon
  <2>9. Moved(file, pos, again) <= Len(file)
    BY ONLY <1>1, <2>7
  <2> QED
    BY <2>7, <2>8, <2>9 DEF Joined
<1>4. CASE ~again
  BY <1>1, <1>2, <1>4 DEF Fetched, Joined
<1> QED
  BY <1>3, <1>4

\* What the ROM has read so far is a first part of the file, all of it after a short
\* answer.
LEMMA SoFarIsPrefix ==
  ASSUME NEW file \in Text, NEW d, NEW h, ReadSoFar(d, h, file),
         d.f.buf \in Text, d.f.pos \in 0 .. MaxSize
  PROVE  /\ Len(h.got) <= Len(file) /\ h.got = SubSeq(file, 1, Len(h.got))
         /\ h.ended => h.got = file
<1>1. PICK got \in Seq(Letter), buf \in Seq(Letter), pos \in Nat :
        got = h.got /\ buf = d.f.buf /\ pos = d.f.pos
  BY TextIsSeq, DiskAssumption DEF ReadSoFar
<1>2. got \o buf = SubSeq(file, 1, pos) /\ pos <= Len(file)
  BY <1>1 DEF ReadSoFar, Joined
<1>3. file \in Seq(Letter) /\ Len(file) \in Nat /\ Len(got) \in Nat /\ Len(buf) \in Nat
  BY TextIsSeq, LenProperties
<1>4. /\ Len(SubSeq(file, 1, pos)) = pos /\ \A j \in 1 .. pos : SubSeq(file, 1, pos)[j] = file[j]
  <2>1. pos \in 0 .. Len(file)
    BY <1>2, <1>3
  <2> QED
    BY <1>3, <2>1, Halves
<1>5. /\ Len(got \o buf) = Len(got) + Len(buf)
      /\ \A j \in 1 .. Len(got) : (got \o buf)[j] = got[j]
  <2>1. \A j \in 1 .. Len(got) : j \in 1 .. Len(got) + Len(buf) /\ j <= Len(got)
    BY <1>3
  <2> QED
    BY <2>1, ConcatProperties
<1>6. Len(got) \in 0 .. Len(file) /\ Len(got) <= pos
  BY ONLY <1>2, <1>3, <1>4, <1>5, pos \in Nat
<1>7. /\ SubSeq(file, 1, Len(got)) \in Seq(Letter) /\ Len(SubSeq(file, 1, Len(got))) = Len(got)
      /\ \A j \in 1 .. Len(got) : SubSeq(file, 1, Len(got))[j] = file[j]
  BY <1>3, <1>6, Halves
<1>8. \A j \in 1 .. Len(got) : got[j] = SubSeq(file, 1, Len(got))[j]
  <2>1. \A j \in 1 .. Len(got) : j \in 1 .. pos
    BY <1>3, <1>6
  <2> QED
    BY <1>2, <1>4, <1>5, <1>7, <2>1
<1>9. got = SubSeq(file, 1, Len(got))
  BY <1>7, <1>8, SeqEqual
<1> QED
  BY <1>1, <1>6, <1>9 DEF ReadSoFar

-----------------------------------------------------------------------------
(* Opening and closing.                                                    *)

\* No handle is none of the things a device may hold.
LEMMA NoHandle ==
  /\ \A f \in Stream : f # NULL
  /\ \A e \in Entry : e # NULL
  /\ \A e \in SUBSET Entry : e # NULL
BY NullAssumption

\* A device that was reset has its name and nothing else.
LEMMA ResetIs ==
  ASSUME NEW d \in DevRec
  PROVE  /\ Reset(d) \in DevRec
         /\ Reset(d).name = d.name /\ Reset(d).state = "IDLE" /\ Reset(d).outside = FALSE
         /\ Reset(d).firm = d.firm
         /\ Reset(d).f = NULL /\ Reset(d).dir = NULL /\ Reset(d).de = NULL
BY DEF Reset, DevRec

\* A name closes what was open, and is looked at.
LEMMA NamedKept ==
  ASSUME NEW d \in DevRec, NEW n \in Name, NEW dt
  PROVE  Named(d, n) \in DevRec /\ NothingYet \in HistRec /\ Kept(Named(d, n), NothingYet, dt)
<1>1. /\ Named(d, n) \in DevRec /\ Named(d, n).state = "IDLE"
      /\ Named(d, n).f = NULL /\ Named(d, n).dir = NULL /\ Named(d, n).de = NULL
  <2>1. PICK out \in BOOLEAN, firm \in BOOLEAN :
          Named(d, n) = [Reset(d) EXCEPT !.name = n, !.outside = out, !.firm = firm]
    <3>1. Outside(n) \in BOOLEAN
      BY Zenon DEF Outside
    <3>2. Firm(n) \in BOOLEAN
      BY Zenon DEF Firm
    <3> QED
      BY <3>1, <3>2, Zenon DEF Named
  <2> QED
    BY <2>1, ResetIs DEF DevRec
<1>2. NothingYet \in HistRec
  BY EmptySeq DEF NothingYet, HistRec
<1>3. Handles(Named(d, n))
  BY ONLY <1>1 DEF Handles
<1> QED
  BY ONLY <1>1, <1>2, <1>3 DEF Kept

\* A stream that was just opened.
LEMMA OpenIs ==
  ASSUME NEW n \in Inode, NEW append \in BOOLEAN
  PROVE  /\ Open(n, append) \in Stream
         /\ Open(n, append).inode = n /\ Open(n, append).pos = 0 /\ Open(n, append).buf = <<>>
         /\ Open(n, append).eof = FALSE /\ Open(n, append).append = append
<1>1. 0 \in 0 .. MaxSize
  BY DiskAssumption
<1> QED
  BY <1>1, EmptyText DEF Open, Stream

\* A directory has finitely many entries.
LEMMA EntriesFinite ==
  ASSUME DiskInv, NEW d
  PROVE  Entries(d) \in SUBSET Entry /\ IsFiniteSet(Entries(d))
<1>1. made \subseteq Dir /\ IsFiniteSet(made) /\ IsFiniteSet(Names)
  BY DEF DiskInv
<1>2. PICK there \in SUBSET (Names \cup made) : there = {x \in InDir(d) : Exists(x)}
  BY Zenon DEF Names, InDir, Node, Exists
<1>3. IsFiniteSet(there)
  BY <1>1, FS_Union, FS_Subset
<1>4. IsFiniteSet((there \cup {Dot}) \cup {DotDot})
  BY <1>3, FS_AddElement
<1>5. Entries(d) = (there \cup {Dot}) \cup {DotDot}
  BY <1>2 DEF Entries
<1> QED
  BY <1>1, <1>2, <1>4, <1>5 DEF Names, Entry

\* What READ finds open or opens: the device as it was, or nothing, a directory at its
\* beginning or a file at its beginning, of the same name.
LEMMA ReadOpens ==
  ASSUME DiskInv, NEW d \in DevRec, NEW e \in ReadOpen(d), ~d.outside, Handles(d)
  PROVE  /\ e \in DevRec /\ e.name = d.name /\ Handles(e)
         /\ Reading(d) => e = d
         /\ ~Reading(d) /\ e.state = "FILE_READ" =>
              e.f.pos = 0 /\ e.f.buf = <<>> /\ e.f.eof = FALSE
         /\ ~Reading(d) /\ e.state = "DIR_READ" => e.de = NULL /\ IsFiniteSet(e.dir)
         /\ ~Reading(e) => e.state = "IDLE"
<1>1. CASE Reading(d)
  BY <1>1 DEF ReadOpen
<1>2. CASE ~Reading(d)
  <2> DEFINE r == Reset(d)
  <2>1. /\ r \in DevRec /\ r.name = d.name /\ r.state = "IDLE" /\ r.outside = FALSE
        /\ r.f = NULL /\ r.dir = NULL /\ r.de = NULL
    BY ResetIs
  <2>3. \/ e = r
        \/ \E x \in made : e = [r EXCEPT !.state = "DIR_READ", !.dir = Entries(x)]
        \/ \E x \in File : /\ inode[x] # NULL
                           /\ e = [r EXCEPT !.state = "FILE_READ", !.f = Open(inode[x], FALSE)]
    BY <1>2 DEF ReadOpen
  <2> HIDE DEF r
  <2>4. CASE e = r
    BY <1>2, <2>1, <2>4 DEF Handles, Reading
  <2>5. CASE \E x \in made : e = [r EXCEPT !.state = "DIR_READ", !.dir = Entries(x)]
    <3>1. PICK s \in SUBSET Entry : /\ IsFiniteSet(s)
                                   /\ e = [r EXCEPT !.state = "DIR_READ", !.dir = s]
      BY <2>5, EntriesFinite
    <3>2. /\ e \in DevRec /\ e.name = d.name /\ e.state = "DIR_READ" /\ e.outside = FALSE
          /\ e.f = NULL /\ e.dir = s /\ e.de = NULL /\ s # NULL
      BY <2>1, <3>1, NoHandle DEF DevRec
    <3> QED
      BY ONLY <1>2, <3>1, <3>2 DEF Handles, Reading
  <2>6. CASE \E x \in File : /\ inode[x] # NULL
                             /\ e = [r EXCEPT !.state = "FILE_READ", !.f = Open(inode[x], FALSE)]
    <3>1. PICK x \in File : /\ inode[x] # NULL
                            /\ e = [r EXCEPT !.state = "FILE_READ", !.f = Open(inode[x], FALSE)]
      BY <2>6
    <3>2. inode[x] \in Inode
      BY <3>1 DEF DiskInv
    <3>3. PICK f \in Stream : /\ f = Open(inode[x], FALSE) /\ f # NULL
                              /\ f.pos = 0 /\ f.buf = <<>> /\ f.eof = FALSE
      BY <3>2, OpenIs, NoHandle
    <3>4. /\ e \in DevRec /\ e.name = d.name /\ e.state = "FILE_READ" /\ e.outside = FALSE
          /\ e.f = f /\ e.dir = NULL /\ e.de = NULL
      BY <2>1, <3>1, <3>3 DEF DevRec
    <3>5. Len(f.buf) <= f.pos
      <4>1. Len(<<>>) = 0
        BY EmptySeq
      <4>2. Len(f.buf) = 0 /\ f.pos = 0
        BY ONLY <3>3, <4>1, Zenon
      <4> QED
        BY ONLY <4>2
    <3> QED
      BY ONLY <1>2, <3>3, <3>4, <3>5 DEF Handles, Reading
  <2> QED
    BY <2>3, <2>4, <2>5, <2>6
<1> QED
  BY <1>1, <1>2

-----------------------------------------------------------------------------
(* Reading.                                                                *)

\* The device and the history after an fread of n bytes from file.
ReadDev(d, file, n) ==
  LET again == Len(d.f.buf) < n /\ ~d.f.eof
      bytes == Fetched(file, d.f.pos, d.f.buf, again)
      some  == IF Len(bytes) < n THEN Len(bytes) ELSE n
  IN [d EXCEPT !.f.buf = SubSeq(bytes, some + 1, Len(bytes)),
               !.f.pos = IF again /\ @ < Len(file) THEN Len(file) ELSE @,
               !.f.eof = @ \/ some < n]

ReadNote(d, h, file, n) ==
  LET again == Len(d.f.buf) < n /\ ~d.f.eof
      bytes == Fetched(file, d.f.pos, d.f.buf, again)
      some  == IF Len(bytes) < n THEN Len(bytes) ELSE n
  IN Note(h, [h EXCEPT !.got = @ \o SubSeq(bytes, 1, some), !.ended = some < n])

\* A READ of a file keeps the device sound, and gives the next bytes of the file.
LEMMA ReadFileKept ==
  ASSUME NEW d \in DevRec, Handles(d), d.state = "FILE_READ", NEW h \in HistRec,
         NEW file \in Text, h.safe => ReadSoFar(d, h, file), NEW n \in Nat
  PROVE  /\ ReadDev(d, file, n) \in DevRec /\ Handles(ReadDev(d, file, n))
         /\ ReadDev(d, file, n).state = "FILE_READ"
         /\ ReadDev(d, file, n).f.inode = d.f.inode
         /\ ReadNote(d, h, file, n).safe =>
              /\ ReadNote(d, h, file, n) \in HistRec
              /\ ReadSoFar(ReadDev(d, file, n), ReadNote(d, h, file, n), file)
         /\ ~ReadNote(d, h, file, n).safe => ReadNote(d, h, file, n) = h
<1>a. PICK again \in BOOLEAN : again = (Len(d.f.buf) < n /\ ~d.f.eof)
  <2>1. (Len(d.f.buf) < n /\ ~d.f.eof) \in BOOLEAN
    OBVIOUS
  <2> QED
    BY ONLY <2>1
<1>1. /\ d.f \in Stream /\ d.f.buf \in Text /\ d.f.pos \in 0 .. MaxSize /\ d.f.eof \in BOOLEAN
      /\ Len(d.f.buf) <= d.f.pos
  BY NoHandle DEF DevRec, Handles, Stream
<1>2. PICK bytes \in Seq(Letter) :
        /\ bytes = Fetched(file, d.f.pos, d.f.buf, again)
        /\ Moved(file, d.f.pos, again) \in 0 .. MaxSize
        /\ Len(bytes) <= Moved(file, d.f.pos, again)
  BY <1>1, FetchedIs
<1>3. PICK pos \in 0 .. MaxSize : pos = Moved(file, d.f.pos, again)
  BY <1>2
<1>4. Len(bytes) \in Nat /\ Len(d.f.buf) \in Nat /\ MaxSize \in Nat
  BY <1>1, TextIsSeq, LenProperties, DiskAssumption
<1>5. PICK some \in 0 .. Len(bytes) : some = IF Len(bytes) < n THEN Len(bytes) ELSE n
  BY <1>4
<1>6. PICK buf \in Seq(Letter), give \in Seq(Letter) :
        /\ buf = SubSeq(bytes, some + 1, Len(bytes)) /\ give = SubSeq(bytes, 1, some)
        /\ Len(buf) = Len(bytes) - some /\ give \o buf = bytes
  <2>1. /\ SubSeq(bytes, 1, some) \in Seq(Letter)
        /\ SubSeq(bytes, some + 1, Len(bytes)) \in Seq(Letter)
        /\ Len(SubSeq(bytes, some + 1, Len(bytes))) = Len(bytes) - some
        /\ SubSeq(bytes, 1, some) \o SubSeq(bytes, some + 1, Len(bytes)) = bytes
    BY Halves
  <2> QED
    BY ONLY <2>1
<1>7. PICK eof \in BOOLEAN : eof = (d.f.eof \/ some < n)
  OBVIOUS
<1>8. buf \in Text /\ Len(buf) <= pos
  <2>1. Len(buf) <= Len(bytes) /\ Len(bytes) <= pos /\ Len(buf) <= MaxSize /\ Len(buf) <= pos
    BY ONLY <1>2, <1>3, <1>4, <1>6, some \in 0 .. Len(bytes), pos \in 0 .. MaxSize
  <2> QED
    BY <2>1, TextIsSeq
<1>9. PICK f \in Stream : /\ f.inode = d.f.inode /\ f.buf = buf /\ f.pos = pos /\ f.eof = eof
                          /\ f.append = d.f.append
                          /\ f = [d.f EXCEPT !.buf = buf, !.pos = pos, !.eof = eof]
  <2>1. [d.f EXCEPT !.buf = buf, !.pos = pos, !.eof = eof] \in Stream
    BY <1>1, <1>8 DEF Stream
  <2> QED
    BY ONLY <1>1, <2>1, Zenon DEF Stream
<1>10. ReadDev(d, file, n) = [d EXCEPT !.f = f]
  <2>1. ReadDev(d, file, n) =
          [d EXCEPT !.f.buf = SubSeq(bytes, some + 1, Len(bytes)),
                    !.f.pos = IF again /\ @ < Len(file) THEN Len(file) ELSE @,
                    !.f.eof = @ \/ some < n]
    BY ONLY <1>a, <1>2, <1>5, Zenon DEF ReadDev
  <2>2. [d EXCEPT !.f.buf = SubSeq(bytes, some + 1, Len(bytes)),
                  !.f.pos = IF again /\ @ < Len(file) THEN Len(file) ELSE @,
                  !.f.eof = @ \/ some < n]
          = [d EXCEPT !.f = [d.f EXCEPT !.buf = SubSeq(bytes, some + 1, Len(bytes)),
                                        !.pos = IF again /\ @ < Len(file) THEN Len(file) ELSE @,
                                        !.eof = @ \/ some < n]]
    BY <1>1, Zenon DEF DevRec, Stream
  <2>3. /\ buf = SubSeq(bytes, some + 1, Len(bytes)) /\ eof = (d.f.eof \/ some < n)
        /\ pos = IF again /\ d.f.pos < Len(file) THEN Len(file) ELSE d.f.pos
    BY ONLY <1>3, <1>6, <1>7, Zenon DEF Moved
  <2> QED
    BY ONLY <1>9, <2>1, <2>2, <2>3, Zenon
<1>11. PICK e \in DevRec : /\ e = ReadDev(d, file, n) /\ e.f = f /\ e.name = d.name
                           /\ e.state = d.state /\ e.dir = d.dir /\ e.de = d.de
                           /\ e.outside = d.outside
  BY <1>10 DEF DevRec
<1>12. Handles(e)
  BY <1>8, <1>9, <1>11, NoHandle DEF Handles
<1>13. PICK g : g = ReadNote(d, h, file, n)
  OBVIOUS
<1>14. g = IF h.safe THEN [h EXCEPT !.got = @ \o give, !.ended = some < n] ELSE h
  BY ONLY <1>a, <1>2, <1>5, <1>6, <1>13, Zenon DEF ReadNote, Note
<1>15. ASSUME h.safe PROVE g \in HistRec /\ g.safe /\ ReadSoFar(e, g, file)
  <2>1. PICK got \in Seq(Letter) : got = h.got
    BY <1>15 DEF ReadSoFar
  <2>2. /\ Joined(got, d.f.buf, file, d.f.pos) /\ d.f.pos <= Len(file)
        /\ d.f.eof => d.f.pos = Len(file)
    BY <1>15, <2>1 DEF ReadSoFar
  <2>3. Joined(got, bytes, file, pos) /\ pos <= Len(file) /\ (again => pos = Len(file))
    BY <1>1, <1>2, <1>3, <2>2, FetchedOn
  <2>4. got \o give \in Seq(Letter)
    BY ConcatProperties
  <2>5. Joined(got \o give, buf, file, pos)
    <3>1. got \o (give \o buf) = (got \o give) \o buf
      BY Assoc
    <3> QED
      BY ONLY <1>6, <2>3, <3>1 DEF Joined
  <2>6. PICK ended \in BOOLEAN : ended = (some < n)
    <3>1. (some < n) \in BOOLEAN
      OBVIOUS
    <3> QED
      BY ONLY <3>1
  <2>7. /\ g \in HistRec /\ g.got = got \o give /\ g.ended = ended /\ g.safe
    BY <1>14, <1>15, <2>1, <2>4, <2>6 DEF HistRec
  <2>8. some < n => pos = Len(file) /\ some = Len(bytes)
    <3>1. CASE again
      BY <1>4, <1>5, <2>3, <3>1
    <3>2. CASE d.f.eof
      <4>1. ~again
        BY <1>a, <3>2
      <4>2. pos = d.f.pos
        BY <1>3, <4>1 DEF Moved
      <4> QED
        BY <1>4, <1>5, <2>2, <3>2, <4>2
    <3>3. CASE ~(Len(d.f.buf) < n)
      <4>1. ~again
        BY <1>a, <3>3
      <4>2. bytes = d.f.buf
        BY <1>2, <4>1 DEF Fetched
      <4> QED
        BY <1>4, <1>5, <3>3, <4>2
    <3> QED
      BY <1>a, <3>1, <3>2, <3>3
  <2>9. eof => pos = Len(file)
    <3>1. CASE some < n
      BY <2>8, <3>1
    <3>2. CASE d.f.eof
      <4>1. ~again
        BY <1>a, <3>2
      <4> QED
        BY <1>3, <2>2, <3>2, <4>1 DEF Moved
    <3> QED
      BY <1>7, <3>1, <3>2
  <2>10. ended => got \o give = file
    <3> SUFFICES ASSUME some < n PROVE got \o give = file
      BY <2>6
    <3>1. give = bytes
      BY <1>6, <2>8, SubSeqFull
    <3>2. SubSeq(file, 1, Len(file)) = file
      BY TextIsSeq, SubSeqFull
    <3> QED
      BY <2>3, <2>8, <3>1, <3>2 DEF Joined
  <2> QED
    BY <1>9, <1>11, <2>3, <2>4, <2>5, <2>7, <2>9, <2>10 DEF ReadSoFar
<1> QED
  BY <1>9, <1>11, <1>12, <1>13, <1>14, <1>15

\* A line more.
LEMMA LineMore ==
  ASSUME NEW got \in Seq(SUBSET Entry), Apart(got), NEW lines \in SUBSET Entry,
         InLines(got) \cap lines = {}
  PROVE  /\ Append(got, lines) \in Seq(SUBSET Entry)
         /\ InLines(Append(got, lines)) = InLines(got) \cup lines
         /\ Apart(Append(got, lines))
<1>1. PICK new \in Seq(SUBSET Entry) :
        /\ new = Append(got, lines) /\ Len(new) = Len(got) + 1
        /\ \A k \in 1 .. Len(got) : new[k] = got[k]
        /\ new[Len(got) + 1] = lines
  <2>1. /\ Append(got, lines) \in Seq(SUBSET Entry) /\ Len(Append(got, lines)) = Len(got) + 1
        /\ \A k \in 1 .. Len(got) : Append(got, lines)[k] = got[k]
        /\ Append(got, lines)[Len(got) + 1] = lines
    BY AppendProperties
  <2> QED
    BY <2>1
<1>2. Len(got) \in Nat
  BY LenProperties
<1>3. PICK last : last = Len(got) + 1
  OBVIOUS
<1>4. \A k : k \in 1 .. Len(new) <=> k \in 1 .. Len(got) \/ k = last
  BY <1>1, <1>2, <1>3
<1>5. new[last] = lines /\ last \notin 1 .. Len(got)
  BY <1>1, <1>2, <1>3
<1>6. InLines(new) = InLines(got) \cup lines
  <2>1. ASSUME NEW x \in InLines(new) PROVE x \in InLines(got) \cup lines
    BY ONLY <1>1, <1>4, <1>5, <2>1 DEF InLines
  <2>2. ASSUME NEW x \in InLines(got) PROVE x \in InLines(new)
    BY ONLY <1>1, <1>4, <2>2 DEF InLines
  <2>3. ASSUME NEW x \in lines PROVE x \in InLines(new)
    BY ONLY <1>4, <1>5, <2>3 DEF InLines
  <2> QED
    BY <2>1, <2>2, <2>3
<1>7. \A k \in 1 .. Len(got) : got[k] \cap lines = {}
  BY InLines(got) \cap lines = {} DEF InLines
<1>8. Apart(new)
  <2> SUFFICES ASSUME NEW j \in 1 .. Len(new), NEW k \in 1 .. Len(new), j # k
               PROVE  new[j] \cap new[k] = {}
    BY DEF Apart
  <2>1. CASE j \in 1 .. Len(got) /\ k \in 1 .. Len(got)
    BY <1>1, <2>1, Apart(got) DEF Apart
  <2>2. CASE j = last
    <3>1. k \in 1 .. Len(got)
      BY <1>4, <2>2
    <3> QED
      BY <1>1, <1>5, <1>7, <2>2, <3>1
  <2>3. CASE k = last
    <3>1. j \in 1 .. Len(got)
      BY <1>4, <2>3
    <3> QED
      BY <1>1, <1>5, <1>7, <2>3, <3>1
  <2> QED
    BY <1>4, <2>1, <2>2, <2>3
<1> QED
  BY <1>1, <1>6, <1>8

\* The history after a READ that shows lines.
ListNote(h, lines, n) ==
  [h EXCEPT !.got = IF lines = {} THEN @ ELSE Append(@, lines), !.ended = Cardinality(lines) < n]

\* A READ of a directory shows lines of those left, all when they fit, and leaves the
\* rest.
LEMMA ReadDirKept ==
  ASSUME NEW d \in DevRec, Handles(d), d.state = "DIR_READ", NEW h \in HistRec,
         ListedSoFar(d, h), NEW n \in Nat, NEW lines \in SUBSET Left(d),
         Cardinality(lines) = IF Cardinality(Left(d)) < n THEN Cardinality(Left(d)) ELSE n,
         NEW e \in Stopped(d, Left(d) \ lines),
         NEW g, g = ListNote(h, lines, n)
  PROVE  /\ e \in DevRec /\ Handles(e) /\ e.state = "DIR_READ"
         /\ g \in HistRec /\ ListedSoFar(e, g)
<1> DEFINE rest == Left(d) \ lines
<1>1. /\ d.dir \in SUBSET Entry /\ d.f = NULL /\ IsFiniteSet(d.dir) /\ d.de \in Entry \cup {NULL}
  BY DEF DevRec, Handles, ListedSoFar
<1>2. Left(d) \in SUBSET Entry /\ IsFiniteSet(Left(d)) /\ IsFiniteSet(lines)
  <2>1. IsFiniteSet(d.dir \cup {d.de})
    BY ONLY <1>1, FS_AddElement
  <2>2. Left(d) \in SUBSET (d.dir \cup {d.de}) /\ Left(d) \in SUBSET Entry
    BY <1>1 DEF Left
  <2>3. IsFiniteSet(Left(d))
    BY ONLY <2>1, <2>2, FS_Subset
  <2> QED
    BY <2>2, <2>3, FS_Subset
<1>3. PICK hidden : hidden = Hidden(Place(d.name)) /\ Left(d) \cap hidden = {}
  BY DEF Left
<1>4. PICK de \in Entry \cup {NULL} : /\ e = [d EXCEPT !.de = de, !.dir = rest \ {de}]
                                      /\ (rest = {} /\ de = NULL) \/ (de \in rest /\ de # NULL)
  <2>1. PICK de \in StopsAt(rest, d.de) : e = [d EXCEPT !.de = de, !.dir = rest \ {de}]
    BY DEF Stopped
  <2>2. (rest = {} /\ de = NULL) \/ de \in rest
    BY <2>1 DEF StopsAt
  <2>3. de \in rest => de \in Entry /\ de # NULL
    BY <1>2, NoHandle
  <2> QED
    BY <2>1, <2>2, <2>3
<1>5. /\ e \in DevRec /\ e.dir = rest \ {de} /\ e.de = de /\ e.f = d.f /\ e.state = d.state
      /\ e.name = d.name /\ e.outside = d.outside
  <2>1. rest \ {de} \in SUBSET Entry
    BY <1>2
  <2> HIDE DEF rest
  <2> QED
    BY <1>4, <2>1 DEF DevRec
<1>6. Handles(e)
  <2>1. e.dir # NULL
    <3>1. rest \ {de} \in SUBSET Entry
      BY <1>2
    <3> QED
      BY <1>5, <3>1, NoHandle
  <2> QED
    BY ONLY <1>1, <1>5, <2>1, Handles(d), d.state = "DIR_READ" DEF Handles
<1>7. Left(e) = rest
  BY <1>3, <1>4, <1>5 DEF Left
<1>8. IsFiniteSet(e.dir)
  <2>1. rest \ {de} \in SUBSET Left(d)
    OBVIOUS
  <2> QED
    BY <1>2, <1>5, <2>1, FS_Subset
<1>9. /\ h.got \in Seq(SUBSET Entry) /\ Apart(h.got)
      /\ InLines(h.got) \cap Left(d) = {} /\ InLines(h.got) \cup Left(d) = h.entries
  BY DEF ListedSoFar
<1>10. PICK got \in Seq(SUBSET Entry) :
         /\ got = IF lines = {} THEN h.got ELSE Append(h.got, lines)
         /\ InLines(got) = InLines(h.got) \cup lines /\ Apart(got)
  <2>1. CASE lines = {}
    BY <1>9, <2>1
  <2>2. CASE lines # {}
    <3>1. lines \in SUBSET Entry /\ InLines(h.got) \cap lines = {}
      BY <1>2, <1>9
    <3> QED
      BY <1>9, <2>2, <3>1, LineMore
  <2> QED
    BY <2>1, <2>2
<1>11. PICK ended \in BOOLEAN : ended = (Cardinality(lines) < n)
  <2>1. (Cardinality(lines) < n) \in BOOLEAN
    OBVIOUS
  <2> QED
    BY ONLY <2>1
<1>12. g \in HistRec /\ g.got = got /\ g.ended = ended /\ g.entries = h.entries
  <2>1. g = [h EXCEPT !.got = got, !.ended = ended]
    BY <1>10, <1>11 DEF HistRec, ListNote
  <2> QED
    BY <2>1 DEF HistRec
<1>13. ended => rest = {}
  <2> SUFFICES ASSUME Cardinality(lines) < n PROVE rest = {}
    BY <1>11
  <2>1. Cardinality(lines) = Cardinality(Left(d))
    BY <1>2, FS_CardinalityType
  <2>2. lines = Left(d)
    BY <1>2, <2>1, FS_Subset
  <2> QED
    BY <2>2
<1>14. InLines(got) \cap rest = {} /\ InLines(got) \cup rest = h.entries
  BY <1>9, <1>10
<1> QED
  BY <1>5, <1>6, <1>7, <1>8, <1>10, <1>12, <1>13, <1>14 DEF ListedSoFar

-----------------------------------------------------------------------------
(* Writing.                                                                *)

\* The blocks a ROM writes are made of letters.
LEMMA BlockIs == ASSUME rom \in Programs, NEW b \in rom.blocks PROVE b \in Seq(Letter)
<1>1. b \in Seq(Nat)
  BY DiskAssumption
<1>2. Len(b) \in Nat /\ DOMAIN b = 1 .. Len(b) /\ b \in [1 .. Len(b) -> Nat]
  BY <1>1, LenProperties
<1>3. \A k \in DOMAIN b : b[k] \in Letter
  BY DEF Letter
<1>4. b \in [1 .. Len(b) -> Letter]
  BY <1>2, <1>3
<1> QED
  BY <1>2, <1>4, LenIs

\* The file and the history after k bytes of b are written at p and r answered.
WrittenAt(file, p, b, k) == IF k = 0 THEN file ELSE Overlay(file, p, SubSeq(b, 1, k))

PutAt(h, p, b, k, r) ==
  {x \in h.put : x[1] \notin p + 1 .. p + k} \cup {<<p + x, b[x]>> : x \in 1 .. r}

\* A write puts what it answers into the file, and leaves what was put elsewhere.
LEMMA WriteIs ==
  ASSUME NEW file \in Text, NEW b \in Seq(Letter), NEW k \in 0 .. Len(b),
         NEW r \in Answers(k, Len(b)), NEW p \in 0 .. MaxSize, p + k <= MaxSize,
         NEW h \in HistRec
  PROVE  /\ WrittenAt(file, p, b, k) \in Text
         /\ PutAt(h, p, b, k, r) \in SUBSET ((1 .. MaxSize) \X Letter)
         /\ WrittenSoFar(h, file) =>
              \A x \in PutAt(h, p, b, k, r) :
                /\ x[1] <= Len(WrittenAt(file, p, b, k))
                /\ WrittenAt(file, p, b, k)[x[1]] = x[2]
         /\ WrittenSoFar(h, file) /\ p = Len(file) => WrittenSoFar(h, WrittenAt(file, p, b, k))
<1>1. /\ Len(b) \in Nat /\ k \in Nat /\ k <= Len(b) /\ MaxSize \in Nat /\ p \in Nat
      /\ r \in Nat /\ r <= k /\ Len(file) \in Nat
  BY TextIsSeq, LenProperties, DiskAssumption DEF Answers
<1>2. h.put \in SUBSET ((1 .. MaxSize) \X Letter)
  BY DEF HistRec
<1>3. \A x \in 1 .. r : p + x \in 1 .. MaxSize /\ b[x] \in Letter /\ x \in 1 .. k
  <2>1. \A x \in 1 .. r : p + x \in 1 .. MaxSize /\ x \in 1 .. Len(b) /\ x \in 1 .. k
    BY <1>1
  <2> QED
    BY <2>1, ElementOfSeq
<1>4. PICK some \in Seq(Letter) :
        /\ some = SubSeq(b, 1, k) /\ Len(some) = k /\ \A j \in 1 .. k : some[j] = b[j]
  <2>1. /\ SubSeq(b, 1, k) \in Seq(Letter) /\ Len(SubSeq(b, 1, k)) = k
        /\ \A j \in 1 .. k : SubSeq(b, 1, k)[j] = b[j]
    BY Halves
  <2> QED
    BY ONLY <2>1
<1>5. PICK new \in Text :
        /\ new = WrittenAt(file, p, b, k) /\ Len(new) \in Nat /\ Len(new) >= Len(file)
        /\ k # 0 => Len(new) >= p + k /\ \A j \in 1 .. k : new[p + j] = some[j]
        /\ \A j \in 1 .. Len(file) : j \notin p + 1 .. p + k => new[j] = file[j]
  <2>1. CASE k = 0
    BY <1>1, <2>1 DEF WrittenAt
  <2>2. CASE k # 0
    <3>1. WrittenAt(file, p, b, k) = Overlay(file, p, some)
      BY <1>4, <2>2 DEF WrittenAt
    <3>2. /\ Overlay(file, p, some) \in Text
          /\ Len(Overlay(file, p, some)) >= Len(file)
          /\ Len(Overlay(file, p, some)) >= p + Len(some)
          /\ \A j \in 1 .. Len(some) : Overlay(file, p, some)[p + j] = some[j]
          /\ \A j \in 1 .. Len(file) :
               j \notin p + 1 .. p + Len(some) => Overlay(file, p, some)[j] = file[j]
      BY <1>4, OverlayIs
    <3>3. Len(Overlay(file, p, some)) \in Nat
      BY <3>2, TextIsSeq, LenProperties
    <3> QED
      BY ONLY <1>4, <3>1, <3>2, <3>3
  <2> QED
    BY <2>1, <2>2
<1>6. PutAt(h, p, b, k, r) \in SUBSET ((1 .. MaxSize) \X Letter)
  BY <1>2, <1>3 DEF PutAt
<1>7. ASSUME WrittenSoFar(h, file), NEW x \in PutAt(h, p, b, k, r)
      PROVE  x[1] <= Len(new) /\ new[x[1]] = x[2]
  <2>1. CASE x \in h.put /\ x[1] \notin p + 1 .. p + k
    <3>1. x[1] \in 1 .. MaxSize /\ x[1] <= Len(file) /\ file[x[1]] = x[2]
      BY <1>2, <1>7, <2>1 DEF WrittenSoFar
    <3>2. x[1] \in 1 .. Len(file)
      BY <1>1, <3>1
    <3> QED
      BY ONLY <1>5, <2>1, <3>1, <3>2
  <2>2. CASE \E j \in 1 .. r : x = <<p + j, b[j]>>
    <3>1. PICK j \in 1 .. r : x = <<p + j, b[j]>>
      BY <2>2
    <3>2. j \in 1 .. k /\ k # 0 /\ p + j <= p + k
      BY <1>1, <1>3
    <3>3. new[p + j] = b[j] /\ Len(new) >= p + k
      BY <1>4, <1>5, <3>2
    <3>4. x[1] = p + j /\ x[2] = b[j]
      BY <3>1
    <3>5. p + j <= Len(new)
      BY ONLY <1>1, <1>5, <3>2, <3>3
    <3> QED
      BY ONLY <3>3, <3>4, <3>5
  <2> QED
    BY <2>1, <2>2 DEF PutAt
<1>8. ASSUME WrittenSoFar(h, file), p = Len(file), NEW x \in h.put
      PROVE  x[1] <= Len(new) /\ new[x[1]] = x[2]
  <2>1. x[1] \in 1 .. MaxSize /\ x[1] <= Len(file) /\ file[x[1]] = x[2]
    BY <1>2, <1>8 DEF WrittenSoFar
  <2>2. x[1] \in 1 .. Len(file) /\ x[1] \notin p + 1 .. p + k
    BY <1>1, <1>8, <2>1
  <2> QED
    BY <1>1, <1>5, <2>1, <2>2
<1> QED
  BY <1>5, <1>6, <1>7, <1>8 DEF WrittenSoFar

\* What WRITE finds open or opens: the device as it was, or one open for writing or
\* closed, of the same name.  Nothing but a file opened anew is changed, and that only
\* without the append port.
LEMMA WriteOpens ==
  ASSUME DiskInv, NEW d \in DevRec, NEW append \in BOOLEAN, NEW o \in WriteOpen(d, append),
         ~d.outside, Handles(d)
  PROVE  /\ o.dev \in DevRec /\ o.dev.name = d.name /\ Handles(o.dev)
         /\ o.inode \in [File -> Inode \cup {NULL}] /\ o.data \in [Inode -> Text]
         /\ IsFiniteSet({x \in File : o.inode[x] # NULL})
         /\ Writing(d) => o.dev = d /\ o.inode = inode /\ o.data = data
         /\ o.dev.state # "FILE_WRITE" =>
              /\ o.dev.state \in {"IDLE", "DIR_WRITE"} /\ o.dev.f = NULL
              /\ o.inode = inode /\ o.data = data
         /\ o.dev.state = "FILE_WRITE" =>
              /\ o.dev.f \in Stream
              /\ \A m \in Inode : m # o.dev.f.inode \/ o.dev.f.append => o.data[m] = data[m]
<1>1. /\ inode \in [File -> Inode \cup {NULL}] /\ data \in [Inode -> Text]
      /\ IsFiniteSet({x \in File : inode[x] # NULL})
  BY DEF DiskInv, Names
<1>2. CASE Writing(d)
  <2>1. o.dev = d /\ o.inode = inode /\ o.data = data
    BY <1>2 DEF WriteOpen, Opened
  <2>2. d.state = "FILE_WRITE" => d.f \in Stream
    BY NoHandle DEF DevRec, Handles
  <2>3. d.state # "FILE_WRITE" => d.state \in {"IDLE", "DIR_WRITE"} /\ d.f = NULL
    BY ONLY <1>2, d \in DevRec, Handles(d), Zenon DEF Writing, Handles
  <2> QED
    BY <1>1, <1>2, <2>1, <2>2, <2>3
<1>3. CASE ~Writing(d)
  <2>1. PICK s \in DevRec :
          /\ s = Reset(d) /\ s.name = d.name /\ s.state = "IDLE" /\ s.outside = FALSE
          /\ s.f = NULL /\ s.dir = NULL /\ s.de = NULL
    BY ResetIs
  <2>3. \/ o = Opened([s EXCEPT !.state = "DIR_WRITE"], inode, data)
        \/ o = Opened(s, inode, data)
        \/ \E n \in Target(d.name) :
             o = Opened([s EXCEPT !.state = "FILE_WRITE", !.f = Open(n, append)],
                        [inode EXCEPT ![Place(d.name)] = n],
                        IF append THEN data ELSE [data EXCEPT ![n] = <<>>])
    BY <1>3, <2>1 DEF WriteOpen
  <2>4. CASE o = Opened([s EXCEPT !.state = "DIR_WRITE"], inode, data) \/ o = Opened(s, inode, data)
    <3>1. /\ o.dev \in DevRec /\ o.dev.name = d.name /\ o.dev.state \in {"IDLE", "DIR_WRITE"}
          /\ o.dev.f = NULL /\ o.dev.dir = NULL /\ o.dev.de = NULL
          /\ o.inode = inode /\ o.data = data
      BY <2>1, <2>4 DEF Opened, DevRec
    <3>2. Handles(o.dev)
      BY ONLY <3>1 DEF Handles
    <3> QED
      BY ONLY <1>1, <1>3, <3>1, <3>2
  <2>5. CASE \E n \in Target(d.name) :
               o = Opened([s EXCEPT !.state = "FILE_WRITE", !.f = Open(n, append)],
                          [inode EXCEPT ![Place(d.name)] = n],
                          IF append THEN data ELSE [data EXCEPT ![n] = <<>>])
    <3>1. PICK n \in Target(d.name) :
            o = Opened([s EXCEPT !.state = "FILE_WRITE", !.f = Open(n, append)],
                       [inode EXCEPT ![Place(d.name)] = n],
                       IF append THEN data ELSE [data EXCEPT ![n] = <<>>])
      BY <2>5
    <3>2. n \in Inode /\ Place(d.name) \in File
      <4>1. PICK x \in File : LeadsTo(d.name, x, made')
        BY <3>1 DEF Target
      <4>2. Place(d.name) = x
        BY <4>1 DEF LeadsTo
      <4>3. (n = inode[x] /\ inode[x] # NULL) \/ n \in Inode
        BY <3>1, <4>2 DEF Target, New, Free
      <4> QED
        BY <1>1, <4>2, <4>3
    <3>3. PICK f \in Stream : /\ f = Open(n, append) /\ f # NULL /\ f.inode = n
                              /\ f.pos = 0 /\ f.buf = <<>> /\ f.append = append
      BY <3>2, OpenIs, NoHandle
    <3>4. /\ o.dev \in DevRec /\ o.dev.name = d.name /\ o.dev.state = "FILE_WRITE"
          /\ o.dev.f = f /\ o.dev.dir = NULL /\ o.dev.de = NULL
      BY <2>1, <3>1, <3>3 DEF Opened, DevRec
    <3>5. /\ o.inode = [inode EXCEPT ![Place(d.name)] = n]
          /\ o.data = IF append THEN data ELSE [data EXCEPT ![n] = <<>>]
      BY <3>1 DEF Opened
    <3>6. Len(f.buf) <= f.pos
      <4>1. Len(<<>>) = 0
        BY EmptySeq
      <4>2. Len(f.buf) = 0 /\ f.pos = 0
        BY ONLY <3>3, <4>1, Zenon
      <4> QED
        BY ONLY <4>2
    <3>7. Handles(o.dev)
      BY ONLY <3>2, <3>3, <3>4, <3>6 DEF Handles
    <3>8. o.inode \in [File -> Inode \cup {NULL}]
      BY <1>1, <3>2, <3>5
    <3>9. IsFiniteSet({x \in File : o.inode[x] # NULL})
      <4>1. {x \in File : o.inode[x] # NULL} \in SUBSET ({x \in File : inode[x] # NULL} \cup {Place(d.name)})
        BY <1>1, <3>2, <3>5
      <4>2. IsFiniteSet({x \in File : inode[x] # NULL} \cup {Place(d.name)})
        BY <1>1, FS_AddElement
      <4> QED
        BY ONLY <4>1, <4>2, FS_Subset
    <3>10. /\ o.data \in [Inode -> Text]
           /\ \A m \in Inode : m # n \/ append => o.data[m] = data[m]
      BY <1>1, <3>2, <3>5, EmptyText
    <3>11. \A m \in Inode : m # o.dev.f.inode \/ o.dev.f.append => o.data[m] = data[m]
      BY <3>3, <3>4, <3>10
    <3> QED
      BY <1>3, <3>3, <3>4, <3>7, <3>8, <3>9, <3>10, <3>11
  <2> QED
    BY <2>3, <2>4, <2>5
<1> QED
  BY <1>2, <1>3

-----------------------------------------------------------------------------
(* The steps.                                                              *)

\* What is kept of a device does not depend on the files it has not open.
LEMMA SameFile ==
  ASSUME NEW d, NEW h, NEW dt, NEW new, Kept(d, h, dt),
         d.f # NULL => new[d.f.inode] = dt[d.f.inode]
  PROVE  Kept(d, h, new)
BY DEF Kept, Handles

\* An open file keeps its bytes though it has lost its name.
LEMMA LinkedIs ==
  ASSUME NEW dt \in [Inode -> Text]
  PROVE  /\ Linked(dt) \in [Inode -> Text]
         /\ \A j \in Device : dev'[j].f # NULL /\ dev'[j].f.inode \in Inode
              => Linked(dt)[dev'[j].f.inode] = dt[dev'[j].f.inode]
BY EmptyText DEF Linked

\* A step of one device that writes to no file.
LEMMA OneDevice ==
  ASSUME FileInv, NEW i \in Device, NEW e \in DevRec, NEW g \in HistRec, Kept(e, g, data),
         dev' = [dev EXCEPT ![i] = e], hist' = [hist EXCEPT ![i] = g],
         inode' = inode, rom' = rom, data' = Linked(data),
         made' \subseteq Dir, IsFiniteSet(made')
  PROVE  FileInv'
<1>1. /\ dev \in [Device -> DevRec] /\ hist \in [Device -> HistRec] /\ data \in [Inode -> Text]
      /\ \A j \in Device : Kept(dev[j], hist[j], data)
  BY DEF FileInv, DiskInv
<1>2. dev' \in [Device -> DevRec] /\ hist' \in [Device -> HistRec]
  BY <1>1
<1>3. data' \in [Inode -> Text]
  BY <1>1, LinkedIs
<1>4. \A j \in Device : Kept(dev'[j], hist'[j], data)
  BY <1>1
<1>5. ASSUME NEW j \in Device PROVE Kept(dev'[j], hist'[j], data')
  <2>1. dev'[j].f # NULL => dev'[j].f.inode \in Inode
    BY <1>2 DEF DevRec, Stream
  <2>2. dev'[j].f # NULL => data'[dev'[j].f.inode] = data[dev'[j].f.inode]
    BY <1>1, <2>1, LinkedIs
  <2> QED
    BY <1>4, <2>2, SameFile
<1>6. DiskInv'
  BY <1>3 DEF FileInv, DiskInv, Names
<1> QED
  BY <1>2, <1>5, <1>6 DEF FileInv

\* A command that gives a name keeps the invariant.
LEMMA NextSetName ==
  ASSUME FileInv, NEW i \in Device, NEW n \in rom.names, SetName(i, n)
  PROVE  FileInv'
<1>1. dev[i] \in DevRec /\ rom \in Programs /\ made \subseteq Dir /\ IsFiniteSet(made)
  BY DEF FileInv, DiskInv
<1>2. n \in Name
  BY <1>1, DiskAssumption
<1>3. PICK e \in DevRec, g \in HistRec :
        e = Named(dev[i], n) /\ g = NothingYet /\ Kept(e, g, data)
  BY <1>1, <1>2, NamedKept
<1>4. /\ dev' = [dev EXCEPT ![i] = e] /\ hist' = [hist EXCEPT ![i] = g]
      /\ inode' = inode /\ rom' = rom /\ data' = Linked(data) /\ made' = made
  BY <1>3 DEF SetName
<1> QED
  BY <1>1, <1>3, <1>4, OneDevice

\* The history of a device that READ finds open or opens.
LEMMA ReadHistIs ==
  ASSUME FileInv, NEW i \in Device, NEW d \in ReadOpen(dev[i]), ~dev[i].outside
  PROVE  /\ ReadHist(i, d) \in HistRec
         /\ d.state = "FILE_READ" /\ ReadHist(i, d).safe
              => ReadSoFar(d, ReadHist(i, d), data[d.f.inode])
         /\ d.state = "DIR_READ" => ListedSoFar(d, ReadHist(i, d))
<1>1. /\ dev[i] \in DevRec /\ hist[i] \in HistRec /\ Kept(dev[i], hist[i], data) /\ DiskInv
      /\ Handles(dev[i]) /\ data \in [Inode -> Text]
  BY DEF FileInv, Kept, DiskInv
<1>2. /\ d \in DevRec /\ d.name = dev[i].name /\ Handles(d)
      /\ Reading(dev[i]) => d = dev[i]
      /\ ~Reading(dev[i]) /\ d.state = "FILE_READ" =>
           d.f.pos = 0 /\ d.f.buf = <<>> /\ d.f.eof = FALSE
      /\ ~Reading(dev[i]) /\ d.state = "DIR_READ" => d.de = NULL /\ IsFiniteSet(d.dir)
  BY <1>1, ReadOpens
<1>3. CASE Reading(dev[i])
  BY <1>1, <1>2, <1>3 DEF ReadHist, Kept
<1>4. CASE ~Reading(dev[i])
  <2>1. PICK entries \in SUBSET Entry :
          entries = IF d.dir = NULL THEN {} ELSE d.dir \ Hidden(Place(d.name))
    BY <1>2 DEF DevRec
  <2>2. PICK h \in HistRec : /\ h = ReadHist(i, d) /\ h.got = <<>> /\ h.ended = FALSE
                             /\ h.entries = entries
    <3>1. NothingYet \in HistRec /\ NothingYet.got = <<>> /\ NothingYet.ended = FALSE
      BY EmptySeq DEF NothingYet, HistRec
    <3>2. ReadHist(i, d) = [NothingYet EXCEPT !.entries = entries]
      BY <1>4, <2>1 DEF ReadHist
    <3> QED
      BY <3>1, <3>2 DEF HistRec
  <2>3. ASSUME d.state = "FILE_READ" PROVE ReadSoFar(d, h, data[d.f.inode])
    <3>1. PICK file \in Text : file = data[d.f.inode]
      BY <1>1, <1>2, <2>3, NoHandle DEF DevRec, Handles, Stream
    <3>2. h.got \in Seq(Letter) /\ <<>> \o <<>> = <<>>
      BY <2>2, EmptySeq, ConcatEmptySeq
    <3>3. Len(file) \in Nat
      BY TextIsSeq, LenProperties
    <3>4. SubSeq(file, 1, 0) = <<>>
      BY SubSeqEmpty
    <3>5. Joined(h.got, d.f.buf, file, d.f.pos)
      BY <1>2, <1>4, <2>2, <2>3, <3>2, <3>4 DEF Joined
    <3> QED
      BY <1>2, <1>4, <2>2, <2>3, <3>1, <3>2, <3>3, <3>5 DEF ReadSoFar
  <2>4. ASSUME d.state = "DIR_READ" PROVE ListedSoFar(d, h)
    <3>1. Len(h.got) = 0 /\ h.got \in Seq(SUBSET Entry)
      BY <2>2, EmptySeq
    <3>2. Apart(h.got) /\ InLines(h.got) = {}
      BY <3>1 DEF Apart, InLines
    <3>3. d.de = NULL /\ d.dir # NULL /\ IsFiniteSet(d.dir)
      BY <1>2, <1>4, <2>4 DEF Handles
    <3>4. Left(d) = h.entries
      BY <2>1, <2>2, <3>3 DEF Left
    <3> QED
      BY <2>2, <3>1, <3>2, <3>3, <3>4 DEF ListedSoFar
  <2> QED
    BY <2>2, <2>3, <2>4
<1> QED
  BY <1>3, <1>4

\* So does READ of a file.
LEMMA NextReadFile ==
  ASSUME FileInv, NEW i \in Device, NEW n \in Length, ~dev[i].outside, ReadFile(i, n)
  PROVE  FileInv'
<1>1. /\ dev[i] \in DevRec /\ Handles(dev[i]) /\ DiskInv /\ data \in [Inode -> Text]
      /\ made \subseteq Dir /\ IsFiniteSet(made) /\ n \in Nat
  BY DiskAssumption DEF FileInv, Kept, DiskInv
<1>2. PICK d \in ReadOpen(dev[i]) :
        /\ d.state = "FILE_READ"
        /\ dev' = [dev EXCEPT ![i] = ReadDev(d, data[d.f.inode], n)]
        /\ hist' = [hist EXCEPT ![i] = ReadNote(d, ReadHist(i, d), data[d.f.inode], n)]
        /\ UNCHANGED <<inode, made, rom>> /\ data' = Linked(data)
  BY Zenon DEF ReadFile, ReadDev, ReadNote, Fetched
<1>a. PICK file, h : file = data[d.f.inode] /\ h = ReadHist(i, d)
  OBVIOUS
<1>3. d \in DevRec /\ Handles(d)
  BY <1>1, ReadOpens
<1>4. h \in HistRec /\ (h.safe => ReadSoFar(d, h, file))
  BY <1>2, <1>a, ReadHistIs
<1>5. file \in Text
  BY <1>1, <1>2, <1>a, <1>3, NoHandle DEF DevRec, Handles, Stream
<1>6. PICK e, g : e = ReadDev(d, file, n) /\ g = ReadNote(d, h, file, n)
  OBVIOUS
<1>7. /\ e \in DevRec /\ Handles(e) /\ e.state = "FILE_READ" /\ e.f.inode = d.f.inode
      /\ g.safe => g \in HistRec /\ ReadSoFar(e, g, file)
      /\ ~g.safe => g = h
  BY <1>1, <1>2, <1>3, <1>4, <1>5, <1>6, ReadFileKept
<1>8. g \in HistRec /\ Kept(e, g, data)
  BY <1>2, <1>a, <1>4, <1>7 DEF Kept
<1> QED
  BY ONLY <1>1, <1>2, <1>a, <1>6, <1>7, <1>8, FileInv, i \in Device, OneDevice, Zenon

\* So does READ of a directory.
LEMMA NextReadDir ==
  ASSUME FileInv, NEW i \in Device, NEW n \in Length, ~dev[i].outside, ReadDir(i, n)
  PROVE  FileInv'
<1>1. /\ dev[i] \in DevRec /\ Handles(dev[i]) /\ DiskInv /\ data \in [Inode -> Text]
      /\ made \subseteq Dir /\ IsFiniteSet(made) /\ n \in Nat
  BY DiskAssumption DEF FileInv, Kept, DiskInv
<1>2. PICK d \in ReadOpen(dev[i]) :
        /\ d.state = "DIR_READ"
        /\ \E lines \in SUBSET Left(d) :
             /\ Cardinality(lines) = IF Cardinality(Left(d)) < n THEN Cardinality(Left(d)) ELSE n
             /\ \E e \in Stopped(d, Left(d) \ lines) : dev' = [dev EXCEPT ![i] = e]
             /\ hist' = [hist EXCEPT ![i] = ListNote(ReadHist(i, d), lines, n)]
        /\ UNCHANGED <<inode, made, rom>> /\ data' = Linked(data)
  BY DEF ReadDir, Left, ListNote
<1>a. PICK lines \in SUBSET Left(d) :
        /\ Cardinality(lines) = IF Cardinality(Left(d)) < n THEN Cardinality(Left(d)) ELSE n
        /\ \E e \in Stopped(d, Left(d) \ lines) : dev' = [dev EXCEPT ![i] = e]
        /\ hist' = [hist EXCEPT ![i] = ListNote(ReadHist(i, d), lines, n)]
  BY <1>2
<1>b. PICK e \in Stopped(d, Left(d) \ lines) : dev' = [dev EXCEPT ![i] = e]
  BY <1>a
<1>c. PICK h : h = ReadHist(i, d)
  OBVIOUS
<1>3. d \in DevRec /\ Handles(d)
  BY <1>1, ReadOpens
<1>4. h \in HistRec /\ ListedSoFar(d, h)
  BY <1>2, <1>c, ReadHistIs
<1>5. PICK g : g = ListNote(h, lines, n)
  OBVIOUS
<1>6. /\ e \in DevRec /\ Handles(e) /\ e.state = "DIR_READ"
      /\ g \in HistRec /\ ListedSoFar(e, g)
  BY <1>1, <1>2, <1>a, <1>3, <1>4, <1>5, ReadDirKept
<1>7. Kept(e, g, data)
  BY <1>6 DEF Kept
<1> QED
  BY <1>1, <1>2, <1>a, <1>b, <1>c, <1>5, <1>6, <1>7, OneDevice

\* So does a READ that finds nothing to open.
LEMMA NextReadNothing ==
  ASSUME FileInv, NEW i \in Device, ~dev[i].outside, ReadNothing(i)
  PROVE  FileInv'
<1>1. /\ dev[i] \in DevRec /\ Handles(dev[i]) /\ DiskInv /\ made \subseteq Dir /\ IsFiniteSet(made)
  BY DEF FileInv, Kept, DiskInv
<1>2. PICK d \in ReadOpen(dev[i]) :
        /\ ~Reading(d) /\ dev' = [dev EXCEPT ![i] = d] /\ hist' = [hist EXCEPT ![i] = NothingYet]
        /\ UNCHANGED <<inode, made, rom>> /\ data' = Linked(data)
  BY DEF ReadNothing
<1>3. d \in DevRec /\ Handles(d) /\ d.state = "IDLE"
  BY <1>1, <1>2, ReadOpens
<1>4. PICK g \in HistRec : g = NothingYet
  BY EmptySeq DEF NothingYet, HistRec
<1>5. Kept(d, g, data)
  BY <1>3 DEF Kept
<1> QED
  BY <1>1, <1>2, <1>3, <1>4, <1>5, OneDevice

\* What comes before a slash of a name is a directory.
LEMMA AboveIs ==
  ASSUME NEW n \in Name
  PROVE  Above(n) \in Seq(Dir) /\ \A k \in 1 .. Len(Above(n)) : Above(n)[k] = n.way[k + 1]
<1>1. CASE n = NoName \/ Head(n.way) = Root
  BY <1>1, EmptySeq DEF Above
<1>2. CASE ~(n = NoName \/ Head(n.way) = Root)
  <2>1. PICK len \in Nat : len = Len(n.way) /\ len > 1 /\ n.way \in Seq(Node)
    BY <1>2, LenProperties DEF Name
  <2>2. /\ \A k \in 2 .. len : n.way[k - 1] \in Dir
        /\ n.slash => n.way[len] \in Dir
    BY <1>2, <2>1 DEF Name
  <2>3. PICK last \in 1 .. len : last = IF n.slash THEN len ELSE len - 1
    <3>1. len \in 1 .. len /\ len - 1 \in 1 .. len
      BY <2>1
    <3> QED
      BY <3>1, Zenon
  <2>4. ASSUME NEW k \in 2 .. last PROVE n.way[k] \in Dir
    <3>1. CASE k = len
      BY <2>2, <2>3, <3>1
    <3>2. CASE k # len
      <4>1. k + 1 \in 2 .. len /\ (k + 1) - 1 = k
        BY <2>1, <2>3, <3>2
      <4> QED
        BY <2>2, <4>1
    <3> QED
      BY <3>1, <3>2
  <2>5. Above(n) = SubSeq(n.way, 2, last)
    BY <1>2, <2>1, <2>3 DEF Above
  <2>6. 2 \in Nat \ {0} /\ 2 \in Int /\ last \in Int
    BY <2>3
  <2>7. /\ SubSeq(n.way, 2, last) \in Seq(Dir)
        /\ Len(SubSeq(n.way, 2, last)) = IF 2 <= last THEN last - 2 + 1 ELSE 0
        /\ \A k \in 1 .. last - 2 + 1 : SubSeq(n.way, 2, last)[k] = n.way[2 + k - 1]
    BY <2>4, <2>6, SubSeqProperties
  <2>8. ASSUME NEW k \in 1 .. Len(Above(n)) PROVE Above(n)[k] = n.way[k + 1]
    <3>1. k \in 1 .. last - 2 + 1 /\ 2 + k - 1 = k + 1
      BY <2>3, <2>5, <2>7
    <3> QED
      BY <2>5, <2>7, <3>1
  <2> QED
    BY <2>5, <2>7, <2>8
<1> QED
  BY <1>1, <1>2

\* What a WRITE leaves of the directories.
LEMMA MadeIs ==
  ASSUME FileInv, NEW d \in DevRec, made' \in Ensured(d.name)
  PROVE  made \subseteq made' /\ made' \subseteq Dir /\ IsFiniteSet(made')
<1>1. made \subseteq Dir /\ IsFiniteSet(made) /\ d.name \in Name
  BY DEF FileInv, DiskInv, DevRec
<1>2. PICK above : above = Above(d.name) /\ above \in Seq(Dir)
  BY <1>1, AboveIs
<1>3. PICK j \in 0 .. Len(above) : made' = made \cup {above[k] : k \in 1 .. j}
  BY <1>2 DEF Ensured
<1>4. j \in Nat /\ \A k \in 1 .. j : k \in 1 .. Len(above)
  BY <1>2, LenProperties
<1>5. {above[k] : k \in 1 .. j} \subseteq Dir
  BY <1>2, <1>4, ElementOfSeq
<1>6. IsFiniteSet({above[k] : k \in 1 .. j})
  <2> DEFINE ks == 1 .. j
             f  == [k \in ks |-> above[k]]
             is == {above[k] : k \in ks}
  <2>1. IsFiniteSet(ks)
    BY <1>4, FS_Interval
  <2>2. f \in Surjection(ks, is)
    BY DEF Surjection
  <2> HIDE DEF ks, f
  <2>3. IsFiniteSet(is)
    BY <2>1, <2>2, FS_Surjection
  <2> QED
    BY <2>3 DEF ks
<1>7. IsFiniteSet(made')
  BY <1>1, <1>3, <1>6, FS_Union
<1> QED
  BY <1>1, <1>3, <1>5, <1>7

\* So does a WRITE to a file: the other devices that have it open are disturbed, or it
\* was appended to what they wrote.
LEMMA NextWriteFile ==
  ASSUME FileInv, NEW i \in Device, NEW b \in rom.blocks, NEW append \in BOOLEAN,
         ~dev[i].outside, made' \in Ensured(dev[i].name), rom' = rom,
         WriteFile(i, b, append)
  PROVE  FileInv'
<1>1. /\ dev \in [Device -> DevRec] /\ hist \in [Device -> HistRec] /\ DiskInv
      /\ Handles(dev[i]) /\ data \in [Inode -> Text] /\ rom \in Programs
      /\ \A j \in Device : Kept(dev[j], hist[j], data)
  BY DEF FileInv, Kept, DiskInv
<1>2. b \in Seq(Letter) /\ MaxSize \in Nat
  <2>1. rom \in Programs
    BY <1>1
  <2> QED
    BY ONLY <2>1, b \in rom.blocks, BlockIs, DiskAssumption
<1>3. PICK o \in WriteOpen(dev[i], append), k \in 0 .. Len(b), r \in 0 .. Len(b) :
        LET f    == o.dev.f
            file == o.data[f.inode]
            p    == IF f.append THEN Len(file) ELSE f.pos
            h    == IF Writing(dev[i]) THEN hist[i] ELSE NothingYet
        IN /\ o.dev.state = "FILE_WRITE"
           /\ p + k <= MaxSize /\ r \in Answers(k, Len(b))
           /\ dev' = [dev EXCEPT ![i] = [o.dev EXCEPT !.f.pos = p + k]]
           /\ inode' = o.inode
           /\ data' = Linked([o.data EXCEPT ![f.inode] = WrittenAt(file, p, b, k)])
           /\ hist' = Overwrites([hist EXCEPT ![i] = Note(h, [h EXCEPT !.put = PutAt(h, p, b, k, r)])],
                                 i, f.inode, f.append)
  BY Zenon DEF WriteFile, WrittenAt, PutAt
<1>4. /\ o.dev \in DevRec /\ o.dev.name = dev[i].name /\ Handles(o.dev)
      /\ o.inode \in [File -> Inode \cup {NULL}] /\ o.data \in [Inode -> Text]
      /\ IsFiniteSet({x \in File : o.inode[x] # NULL})
      /\ Writing(dev[i]) => o.dev = dev[i] /\ o.inode = inode /\ o.data = data
      /\ o.dev.state = "FILE_WRITE" =>
           /\ o.dev.f \in Stream
           /\ \A m \in Inode : m # o.dev.f.inode \/ o.dev.f.append => o.data[m] = data[m]
  <2>1. PICK d0 \in DevRec : d0 = dev[i]
    BY ONLY <1>1, i \in Device, Zenon
  <2>2. /\ o \in WriteOpen(d0, append) /\ ~d0.outside /\ Handles(d0)
    BY <1>1, <1>3, <2>1
  <2>3. /\ o.dev \in DevRec /\ o.dev.name = d0.name /\ Handles(o.dev)
        /\ o.inode \in [File -> Inode \cup {NULL}] /\ o.data \in [Inode -> Text]
        /\ IsFiniteSet({x \in File : o.inode[x] # NULL})
        /\ Writing(d0) => o.dev = d0 /\ o.inode = inode /\ o.data = data
        /\ o.dev.state # "FILE_WRITE" =>
             /\ o.dev.state \in {"IDLE", "DIR_WRITE"} /\ o.dev.f = NULL
             /\ o.inode = inode /\ o.data = data
        /\ o.dev.state = "FILE_WRITE" =>
             /\ o.dev.f \in Stream
             /\ \A m \in Inode : m # o.dev.f.inode \/ o.dev.f.append => o.data[m] = data[m]
    BY ONLY <1>1, <2>2, WriteOpens, Zenon
  <2> QED
    BY ONLY <2>1, <2>3
<1>5. PICK d \in DevRec, f \in Stream, n \in Inode :
        d = o.dev /\ f = o.dev.f /\ n = f.inode /\ d.state = "FILE_WRITE" /\ Handles(d)
  BY <1>3, <1>4 DEF Stream
<1>6. PICK file \in Text : file = o.data[n]
  BY <1>4
<1>7. PICK p \in 0 .. MaxSize : p = IF f.append THEN Len(file) ELSE f.pos
  <2>1. Len(file) \in 0 .. MaxSize
    BY <1>2, TextIsSeq, LenProperties
  <2>2. f.pos \in 0 .. MaxSize
    BY DEF Stream
  <2> QED
    BY ONLY <2>1, <2>2
<1>8. PICK h \in HistRec : h = IF Writing(dev[i]) THEN hist[i] ELSE NothingYet
  BY <1>1, EmptySeq DEF NothingYet, HistRec
<1>9. PICK put : put = PutAt(h, p, b, k, r)
  OBVIOUS
<1>10. PICK new : new = WrittenAt(file, p, b, k)
  OBVIOUS
<1>11. PICK dt : dt = [o.data EXCEPT ![n] = new]
  OBVIOUS
<1>12. PICK e, g : e = [o.dev EXCEPT !.f.pos = p + k] /\ g = Note(h, [h EXCEPT !.put = put])
  OBVIOUS
<1>13. /\ p + k <= MaxSize /\ r \in Answers(k, Len(b))
       /\ dev' = [dev EXCEPT ![i] = e] /\ inode' = o.inode /\ data' = Linked(dt)
       /\ hist' = Overwrites([hist EXCEPT ![i] = g], i, n, f.append)
  BY ONLY <1>3, <1>5, <1>6, <1>7, <1>8, <1>9, <1>10, <1>11, <1>12, Zenon
<1>14. /\ new \in Text /\ put \in SUBSET ((1 .. MaxSize) \X Letter)
       /\ WrittenSoFar(h, file) => \A x \in put : x[1] <= Len(new) /\ new[x[1]] = x[2]
  BY <1>2, <1>9, <1>10, <1>13, WriteIs
<1>15. /\ e \in DevRec /\ e.state = "FILE_WRITE" /\ Handles(e) /\ e.f.inode = n
  <2>1. p + k \in 0 .. MaxSize
    BY <1>2, <1>13
  <2>2. PICK fe \in Stream : /\ fe = [f EXCEPT !.pos = p + k] /\ fe.inode = n /\ fe.pos = p + k
                             /\ fe.buf = f.buf
    <3>1. PICK q \in 0 .. MaxSize : q = p + k
      BY <2>1
    <3>2. [f EXCEPT !.pos = q] \in Stream
      BY DEF Stream
    <3> QED
      BY <1>5, <3>1, <3>2 DEF Stream
  <2>3. e = [d EXCEPT !.f = fe]
    BY <1>5, <1>12, <2>2 DEF DevRec
  <2>4. /\ e \in DevRec /\ e.f = fe /\ e.name = d.name /\ e.state = d.state /\ e.dir = d.dir
        /\ e.de = d.de /\ e.outside = d.outside
    BY <2>3 DEF DevRec
  <2>5. f.buf = <<>>
    BY <1>5 DEF Handles
  <2>6. Len(fe.buf) <= fe.pos
    <3>1. Len(<<>>) = 0
      BY EmptySeq
    <3>2. Len(fe.buf) = 0
      BY ONLY <2>2, <2>5, <3>1, Zenon
    <3> QED
      BY ONLY <2>1, <2>2, <3>2
  <2> QED
    BY <1>5, <2>2, <2>4, <2>5, <2>6, NoHandle DEF Handles
<1>16. h.safe => WrittenSoFar(h, file)
  <2>1. CASE Writing(dev[i])
    <3>1. o.dev = dev[i] /\ o.data = data /\ h = hist[i] /\ Kept(dev[i], hist[i], data)
      BY <1>1, <1>4, <1>8, <2>1
    <3>2. dev[i].state = "FILE_WRITE" /\ data[dev[i].f.inode] = file
      BY <1>5, <1>6, <3>1
    <3> QED
      BY ONLY <3>1, <3>2 DEF Kept
  <2>2. CASE ~Writing(dev[i])
    <3>1. h.put = {}
      BY <1>8, <2>2 DEF NothingYet
    <3> QED
      BY <3>1 DEF WrittenSoFar
  <2> QED
    BY <2>1, <2>2
<1>17. g \in HistRec /\ (g.safe => WrittenSoFar(g, new))
  <2>1. CASE h.safe
    <3>1. g = [h EXCEPT !.put = put]
      BY <1>12, <2>1 DEF Note
    <3>2. g \in HistRec /\ g.put = put
      BY <1>14, <3>1 DEF HistRec
    <3> QED
      BY <1>14, <1>16, <2>1, <3>2 DEF WrittenSoFar
  <2>2. CASE ~h.safe
    BY <1>12, <2>2 DEF Note
  <2> QED
    BY <2>1, <2>2
<1>18. /\ dt \in [Inode -> Text] /\ dt[n] = new
       /\ \A m \in Inode : m # n => dt[m] = data[m]
  BY <1>4, <1>5, <1>11, <1>14
<1>19. Disturbed \in HistRec /\ Disturbed.safe = FALSE
  BY EmptySeq DEF Disturbed, NothingYet, HistRec
<1>20. /\ dev' \in [Device -> DevRec] /\ dev'[i] = e
       /\ \A j \in Device : j # i => dev'[j] = dev[j]
  BY <1>1, <1>13, <1>15
<1>21. /\ hist' \in [Device -> HistRec] /\ hist'[i] = g
       /\ \A j \in Device : j # i =>
            hist'[j] = IF dev[j].f # NULL /\ dev[j].f.inode = n /\ (Reading(dev[j]) \/ ~f.append)
                       THEN Disturbed ELSE hist[j]
  BY <1>1, <1>13, <1>17, <1>19 DEF Overwrites
<1>22. ASSUME NEW j \in Device PROVE Kept(dev'[j], hist'[j], dt)
  <2>1. CASE j = i
    BY <1>15, <1>17, <1>18, <1>20, <1>21, <2>1 DEF Kept
  <2>2. CASE j # i /\ dev[j].f # NULL /\ dev[j].f.inode = n /\ (Reading(dev[j]) \/ ~f.append)
    <3>1. dev'[j] = dev[j] /\ hist'[j] = Disturbed /\ Handles(dev[j])
      BY <1>1, <1>20, <1>21, <2>2 DEF Kept
    <3> QED
      BY <1>19, <2>2, <3>1 DEF Kept, Handles
  <2>3. CASE j # i /\ (dev[j].f # NULL => dev[j].f.inode # n)
    <3>1. dev'[j] = dev[j] /\ hist'[j] = hist[j] /\ Kept(dev[j], hist[j], data)
      BY <1>1, <1>20, <1>21, <2>3
    <3>2. dev[j].f # NULL => dev[j].f.inode \in Inode
      BY <1>1 DEF DevRec, Stream
    <3>3. dev[j].f # NULL => dt[dev[j].f.inode] = data[dev[j].f.inode]
      BY <1>18, <2>3, <3>2
    <3> QED
      BY ONLY <3>1, <3>3, SameFile
  <2>4. CASE j # i /\ dev[j].f # NULL /\ dev[j].f.inode = n /\ ~Reading(dev[j]) /\ f.append
    <3>1. dev'[j] = dev[j] /\ hist'[j] = hist[j] /\ Kept(dev[j], hist[j], data)
      BY <1>1, <1>20, <1>21, <2>4
    <3>2. Handles(dev[j]) /\ dev[j].state = "FILE_WRITE"
      BY <2>4, <3>1 DEF Kept, Handles, Reading
    <3>3. file = data[n]
      BY <1>4, <1>5, <1>6, <2>4
    <3>4. p = Len(file)
      BY <1>7, <2>4
    <3>5. hist[j] \in HistRec /\ (hist[j].safe => WrittenSoFar(hist[j], file))
      BY <1>1, <2>4, <3>1, <3>2, <3>3 DEF Kept
    <3>6. hist[j].safe => WrittenSoFar(hist[j], new)
      BY <1>2, <1>10, <1>13, <3>4, <3>5, WriteIs
    <3> QED
      BY <1>18, <2>4, <3>1, <3>2, <3>6 DEF Kept
  <2> QED
    BY <2>1, <2>2, <2>3, <2>4
<1>23. data' \in [Inode -> Text]
  BY <1>13, <1>18, LinkedIs
<1>24. ASSUME NEW j \in Device PROVE Kept(dev'[j], hist'[j], data')
  <2>1. dev'[j].f # NULL => dev'[j].f.inode \in Inode
    BY <1>20 DEF DevRec, Stream
  <2>2. dev'[j].f # NULL => data'[dev'[j].f.inode] = dt[dev'[j].f.inode]
    BY <1>13, <1>18, <2>1, LinkedIs
  <2> QED
    BY <1>22, <2>2, SameFile
<1>25. DiskInv'
  <2>1. made' \subseteq Dir /\ IsFiniteSet(made')
    BY <1>1, MadeIs
  <2> QED
    BY <1>1, <1>4, <1>13, <1>23, <2>1 DEF DiskInv, Names
<1> QED
  BY <1>20, <1>21, <1>24, <1>25 DEF FileInv

\* So does a WRITE that opens no file.
LEMMA NextWriteNothing ==
  ASSUME FileInv, NEW i \in Device, NEW append \in BOOLEAN, ~dev[i].outside,
         made' \in Ensured(dev[i].name), rom' = rom, WriteNothing(i, append)
  PROVE  FileInv'
<1>1. dev[i] \in DevRec /\ Handles(dev[i]) /\ DiskInv
  BY DEF FileInv, Kept
<1>2. PICK d \in DevRec : d = dev[i] /\ Handles(d) /\ ~d.outside
  BY <1>1
<1>3. PICK o \in WriteOpen(d, append) :
        /\ o.dev.state # "FILE_WRITE" /\ dev' = [dev EXCEPT ![i] = o.dev]
        /\ hist' = [hist EXCEPT ![i] = NothingYet] /\ inode' = inode /\ data' = Linked(data)
  BY <1>2 DEF WriteNothing
<1>4. o.dev \in DevRec /\ Handles(o.dev) /\ o.dev.state \in {"IDLE", "DIR_WRITE"}
  BY ONLY <1>1, <1>2, <1>3, WriteOpens
<1>5. PICK e \in DevRec, g \in HistRec : e = o.dev /\ g = NothingYet
  BY <1>4, EmptySeq DEF NothingYet, HistRec
<1>6. Kept(e, g, data)
  BY <1>4, <1>5 DEF Kept
<1>7. made' \subseteq Dir /\ IsFiniteSet(made')
  BY <1>1, MadeIs
<1> QED
  BY <1>3, <1>5, <1>6, <1>7, OneDevice

\* So does DELETE: the devices that have the file open keep its bytes.
LEMMA NextDelete ==
  ASSUME FileInv, NEW i \in Device, Delete(i)
  PROVE  FileInv'
<1>1. /\ dev \in [Device -> DevRec] /\ hist \in [Device -> HistRec] /\ data \in [Inode -> Text]
      /\ inode \in [File -> Inode \cup {NULL}] /\ IsFiniteSet(Names)
      /\ \A j \in Device : Kept(dev[j], hist[j], data)
  BY DEF FileInv, DiskInv
<1>2. PICK x \in File : inode' = [inode EXCEPT ![x] = NULL]
  BY DEF Delete
<1>3. dev' = dev /\ made' = made /\ rom' = rom /\ hist' = hist /\ data' = Linked(data)
  BY DEF Delete
<1>4. data' \in [Inode -> Text]
  BY <1>1, <1>3, LinkedIs
<1>5. DiskInv'
  <2>1. inode' \in [File -> Inode \cup {NULL}]
    BY <1>1, <1>2
  <2>2. Names' \in SUBSET Names
    BY <1>1, <1>2 DEF Names
  <2>3. IsFiniteSet(Names')
    BY ONLY <1>1, <2>2, FS_Subset
  <2> QED
    BY <1>3, <1>4, <2>1, <2>3 DEF FileInv, DiskInv
<1>6. ASSUME NEW j \in Device PROVE Kept(dev'[j], hist'[j], data')
  <2>1. dev'[j].f # NULL => dev'[j].f.inode \in Inode
    BY <1>1, <1>3 DEF DevRec, Stream
  <2>2. dev'[j].f # NULL => data'[dev'[j].f.inode] = data[dev'[j].f.inode]
    BY <1>1, <1>3, <2>1, LinkedIs
  <2> QED
    BY <1>1, <1>3, <2>2, SameFile
<1> QED
  BY <1>1, <1>3, <1>5, <1>6 DEF FileInv

\* The devices begin with it.
LEMMA InitFile == Init => FileInv
<1> SUFFICES ASSUME Init PROVE FileInv
  OBVIOUS
<1>1. PICK d \in DevRec : /\ d = [name |-> NoName, state |-> "IDLE", f |-> NULL, dir |-> NULL,
                                  de |-> NULL, outside |-> FALSE, firm |-> TRUE]
  BY EmptySeq DEF DevRec, Name, NoName
<1>2. PICK h \in HistRec : h = NothingYet
  BY EmptySeq DEF NothingYet, HistRec
<1>4. Kept(d, h, data)
  BY <1>1 DEF Kept, Handles
<1>5. dev = [i \in Device |-> d] /\ hist = [i \in Device |-> h]
  BY <1>1, <1>2 DEF Init
<1>6. DiskInv
  <2>1. Names \in SUBSET {}
    BY DEF Init, Names
  <2>3. IsFiniteSet(Names) /\ IsFiniteSet(made)
    BY <2>1, FS_EmptySet, FS_Subset, NamesAssumption DEF Init
  <2> QED
    BY <2>3, EmptyText, NamesAssumption DEF Init, DiskInv
<1> QED
  BY <1>4, <1>5, <1>6 DEF FileInv

\* Every command keeps it.
LEMMA NextFile == FileInv /\ [Next]_vars => FileInv'
<1> SUFFICES ASSUME FileInv, [Next]_vars PROVE FileInv'
  OBVIOUS
<1>1. CASE Next
  <2>1. PICK i \in Device : Command(i)
    BY <1>1 DEF Next
  <2>2. CASE \E n \in rom.names : SetName(i, n)
    BY <2>2, NextSetName
  <2>3. CASE \E n \in Length : Read(i, n)
    BY <2>3, NextReadFile, NextReadDir, NextReadNothing DEF Read
  <2>4. CASE \E b \in rom.blocks, append \in BOOLEAN : Write(i, b, append)
    BY <2>4, NextWriteFile, NextWriteNothing DEF Write
  <2>5. CASE Delete(i)
    BY <2>5, NextDelete
  <2> QED
    BY <2>1, <2>2, <2>3, <2>4, <2>5 DEF Command
<1>2. CASE UNCHANGED vars
  BY <1>2 DEF vars, disk, FileInv, DiskInv, Names, Kept
<1> QED
  BY <1>1, <1>2

-----------------------------------------------------------------------------
(* Where names lead.                                                       *)

\* Name n means a node inside, and what it leads through is inside or one of dirs.
Inside(n, dirs) == Place(n) \in Alike /\ \A k \in DOMAIN n.way : n.way[k] \in dirs \cup Alike

\* The check made once stays true, and a file that is written was led to.
PlaceInv ==
  /\ Standing \subseteq made
  /\ \A i \in Device :
       LET d == dev[i]
       IN /\ d.outside => d.state = "IDLE"
          /\ d.name # NoName /\ d.firm /\ ~d.outside => Inside(d.name, made)
          /\ d.state = "FILE_WRITE" => \E x \in File : LeadsTo(d.name, x, made)

\* A set of numbers has a least one.
LEMMA Least ==
  ASSUME NEW T \in SUBSET Nat, T # {}
  PROVE  \E x \in T : \A y \in T : x <= y
<1>1. PICK x \in T : \A y \in T : ~ (<<y, x>> \in OpToRel(<, Nat))
  BY NatLessThanWellFounded, WFMin
<1>2. \A y \in T : ~ (y < x)
  BY <1>1 DEF OpToRel
<1> QED
  BY <1>2

\* What lies in a directory inside is inside.
LEMMA DownStaysInside ==
  ASSUME NEW d \in Alike, NEW x \in InDir(d) \cup {d}
  PROVE  x \in Alike
BY PathAssumption DEF InDir

\* A name that passed the check, and has no ".." after a part that is not there, leads
\* inside: the last part that is there is inside, and the way from it leads down.
LEMMA CheckedIsInside ==
  ASSUME NEW n \in Name, n # NoName, Standing \subseteq made, Firm(n), ~Outside(n)
  PROVE  Inside(n, made)
<1>1. PICK len \in Nat : /\ len = Len(n.way) /\ len > 1 /\ n.way \in Seq(Node)
                         /\ DOMAIN n.way = 1 .. len /\ Place(n) = n.way[len]
  BY LenProperties DEF Name, Place
<1>2. /\ n.way[1] \in made /\ n.way[1] \in Dir
      /\ \A k \in 2 .. len : n.way[k - 1] \in Dir
      /\ \A k \in 1 .. len : n.way[k] \in Node
  BY <1>1, NamesAssumption, ElementOfSeq DEF Name
<1>3. /\ \A k \in Seen(n) : k \in 1 .. len /\ Exists(n.way[k])
      /\ \A k \in 1 .. len : k \in Seen(n) <=> \A j \in 1 .. k : Exists(n.way[j])
  BY <1>1 DEF Seen
<1>4. 1 \in Seen(n)
  <2>1. Exists(n.way[1])
    BY <1>2 DEF Exists
  <2>2. 1 \in 1 .. len /\ \A j \in 1 .. 1 : j = 1
    BY <1>1
  <2> QED
    BY <1>3, <2>1, <2>2
<1>5. \E last \in Seen(n) : \A j \in 1 .. len : j \in Seen(n) <=> j <= last
  <2> DEFINE B == {k \in 1 .. len : k \notin Seen(n)}
  <2>1. CASE B = {}
    <3>1. len \in 1 .. len
      BY <1>1
    <3> QED
      BY <1>3, <2>1, <3>1
  <2>2. CASE B # {}
    <3>1. PICK k \in 1 .. len : k \notin Seen(n) /\ \A j \in 1 .. len : j \notin Seen(n) => k <= j
      <4>1. B \in SUBSET Nat
        OBVIOUS
      <4> QED
        BY <2>2, <4>1, Least
    <3>2. k # 1 /\ k - 1 \in 1 .. len
      BY <1>4, <3>1
    <3>3. k - 1 \in Seen(n)
      BY <3>1, <3>2
    <3>4. ASSUME NEW j \in 1 .. len, j \in Seen(n) PROVE j <= k - 1
      <4>1. k \in 1 .. j => k \in Seen(n)
        <5>1. k \in 1 .. j => \A m \in 1 .. k : m \in 1 .. j
          OBVIOUS
        <5> QED
          BY <1>3, <3>4, <5>1
      <4> QED
        BY <3>1, <4>1
    <3>5. ASSUME NEW j \in 1 .. len, j <= k - 1 PROVE j \in Seen(n)
      BY <3>1, <3>5
    <3> QED
      BY <3>3, <3>4, <3>5
  <2> QED
    BY <2>1, <2>2
<1>6. PICK last \in 1 .. len : /\ last \in Seen(n)
                               /\ \A j \in 1 .. len : j \in Seen(n) <=> j <= last
  BY <1>3, <1>5
<1>7. n.way[last] \in Alike
  BY <1>3, <1>6 DEF Outside
<1>8. \A k \in last .. len : n.way[k] \in Alike
  <2> DEFINE B == {k \in last .. len : n.way[k] \notin Alike}
  <2> SUFFICES ASSUME B # {} PROVE FALSE
    OBVIOUS
  <2>1. PICK k \in last .. len : /\ n.way[k] \notin Alike
                                 /\ \A j \in last .. len : n.way[j] \notin Alike => k <= j
    <3>1. B \in SUBSET Nat
      OBVIOUS
    <3> QED
      BY <3>1, Least
  <2>2. k # last /\ k - 1 \in last .. len /\ k \in 1 .. len /\ k # 1 /\ ~(k <= last)
    BY <1>7, <2>1
  <2>3. n.way[k - 1] \in Alike
    BY <2>1, <2>2
  <2>4. n.way[k] \in InDir(n.way[k - 1]) \cup {n.way[k - 1]}
    BY <1>1, <1>6, <2>2 DEF Firm
  <2> QED
    BY <2>1, <2>3, <2>4, DownStaysInside
<1>9. Place(n) \in Alike
  BY <1>1, <1>8
<1>10. ASSUME NEW k \in 1 .. len PROVE n.way[k] \in made \cup Alike
  <2>1. CASE k = len
    BY <1>1, <1>9, <2>1
  <2>2. CASE k >= last
    BY <1>8, <2>2
  <2>3. CASE k # len /\ k < last
    <3>1. k + 1 \in 2 .. len /\ (k + 1) - 1 = k /\ k <= last
      BY <2>3
    <3>2. n.way[k] \in Dir /\ Exists(n.way[k])
      BY <1>2, <1>3, <1>6, <3>1
    <3> QED
      BY <3>2 DEF Exists
  <2> QED
    BY <2>1, <2>2, <2>3
<1> QED
  BY <1>1, <1>9, <1>10 DEF Inside

\* More directories take nothing away from where a name leads.
LEMMA MoreDirectories ==
  ASSUME NEW n, made \subseteq made'
  PROVE  /\ Inside(n, made) => Inside(n, made')
         /\ \A x : LeadsTo(n, x, made) => LeadsTo(n, x, made')
BY DEF Inside, LeadsTo

\* A step of device i after which it is e, of the same name.
LEMMA PlaceKept ==
  ASSUME PlaceInv, NEW i \in Device, NEW e, dev' = [dev EXCEPT ![i] = e],
         dev \in [Device -> DevRec], made \subseteq made',
         e.name = dev[i].name, e.firm = dev[i].firm, ~dev[i].outside, ~e.outside,
         e.state = "FILE_WRITE" =>
           dev[i].state = "FILE_WRITE" \/ \E x \in File : LeadsTo(e.name, x, made')
  PROVE  PlaceInv'
<1>1. Standing \subseteq made'
  BY DEF PlaceInv
<1>2. ASSUME NEW j \in Device
      PROVE  /\ dev'[j].outside => dev'[j].state = "IDLE"
             /\ dev'[j].name # NoName /\ dev'[j].firm /\ ~dev'[j].outside => Inside(dev'[j].name, made')
             /\ dev'[j].state = "FILE_WRITE" => \E x \in File : LeadsTo(dev'[j].name, x, made')
  <2>1. /\ dev[j].outside => dev[j].state = "IDLE"
        /\ dev[j].name # NoName /\ dev[j].firm /\ ~dev[j].outside => Inside(dev[j].name, made')
        /\ dev[j].state = "FILE_WRITE" => \E x \in File : LeadsTo(dev[j].name, x, made')
    BY MoreDirectories DEF PlaceInv
  <2>2. dev'[j] = IF j = i THEN e ELSE dev[j]
    OBVIOUS
  <2> QED
    BY ONLY <2>1, <2>2, e.name = dev[i].name, e.firm = dev[i].firm, ~dev[i].outside, ~e.outside,
            e.state = "FILE_WRITE" =>
              dev[i].state = "FILE_WRITE" \/ \E x \in File : LeadsTo(e.name, x, made')
<1>3. ASSUME NEW j \in Device
      PROVE  LET d == dev'[j]
             IN /\ d.outside => d.state = "IDLE"
                /\ d.name # NoName /\ d.firm /\ ~d.outside => Inside(d.name, made')
                /\ d.state = "FILE_WRITE" => \E x \in File : LeadsTo(d.name, x, made')
  BY <1>2
<1> QED
  BY <1>1, <1>3, Zenon DEF PlaceInv

\* The devices begin with it.
LEMMA InitPlace == Init => PlaceInv
BY DEF Init, PlaceInv

\* A name is looked at when it is given.
LEMMA PlaceSetName ==
  ASSUME FileInv, PlaceInv, NEW i \in Device, NEW n \in rom.names, SetName(i, n)
  PROVE  PlaceInv'
<1>1. /\ n \in Name /\ dev \in [Device -> DevRec] /\ dev[i] \in DevRec
      /\ Standing \subseteq made
  BY DiskAssumption DEF FileInv, DiskInv, PlaceInv
<1>2. PICK e : /\ e = Named(dev[i], n) /\ dev' = [dev EXCEPT ![i] = e] /\ made' = made
               /\ e.state = "IDLE" /\ e.name = n /\ e.outside = Outside(n) /\ e.firm = Firm(n)
  <2>1. PICK s \in DevRec : s = Reset(dev[i]) /\ s.state = "IDLE"
    BY <1>1, ResetIs
  <2>2. PICK out, firm : out = Outside(n) /\ firm = Firm(n)
    OBVIOUS
  <2>3. PICK e : e = [s EXCEPT !.name = n, !.outside = out, !.firm = firm]
    OBVIOUS
  <2>4. e.state = "IDLE" /\ e.name = n /\ e.outside = out /\ e.firm = firm
    BY <2>1, <2>3 DEF DevRec
  <2>5. dev' = [dev EXCEPT ![i] = e] /\ made' = made /\ e = Named(dev[i], n)
    BY <2>1, <2>2, <2>3 DEF SetName, Named
  <2> QED
    BY <2>2, <2>4, <2>5
<1>3. e.name # NoName /\ e.firm /\ ~e.outside => Inside(e.name, made)
  BY <1>1, <1>2, CheckedIsInside
<1>4. ASSUME NEW j \in Device
      PROVE  LET d == dev'[j]
             IN /\ d.outside => d.state = "IDLE"
                /\ d.name # NoName /\ d.firm /\ ~d.outside => Inside(d.name, made)
                /\ d.state = "FILE_WRITE" => \E x \in File : LeadsTo(d.name, x, made)
  <2>1. CASE j = i
    BY <1>1, <1>2, <1>3, <2>1
  <2>2. CASE j # i
    BY <1>1, <1>2, <2>2 DEF PlaceInv
  <2> QED
    BY <2>1, <2>2
<1> QED
  BY <1>1, <1>2, <1>4, Zenon DEF PlaceInv

\* What READ finds open or opens is as far inside as it was, and writes nothing.
LEMMA ReadPlace ==
  ASSUME NEW d \in DevRec, ~d.outside, NEW e \in ReadOpen(d)
  PROVE  e \in DevRec => /\ e.name = d.name /\ e.firm = d.firm /\ ~e.outside
                         /\ e.state # "FILE_WRITE"
<1>1. CASE Reading(d)
  BY <1>1 DEF ReadOpen, Reading
<1>2. CASE ~Reading(d)
  <2>1. PICK s \in DevRec : /\ s = Reset(d) /\ s.name = d.name /\ s.firm = d.firm
                            /\ s.outside = FALSE /\ s.state = "IDLE"
    BY ResetIs
  <2>2. \/ e = s
        \/ \E x : e = [s EXCEPT !.state = "DIR_READ", !.dir = Entries(x)]
        \/ \E x : e = [s EXCEPT !.state = "FILE_READ", !.f = Open(inode[x], FALSE)]
    BY <1>2, <2>1 DEF ReadOpen
  <2> QED
    BY <2>1, <2>2 DEF DevRec
<1> QED
  BY <1>1, <1>2

\* A READ keeps the way of every name.
LEMMA PlaceRead ==
  ASSUME FileInv, PlaceInv, NEW i \in Device, NEW n \in Length, Read(i, n)
  PROVE  PlaceInv'
<1>1. /\ dev \in [Device -> DevRec] /\ dev[i] \in DevRec /\ ~dev[i].outside /\ DiskInv
      /\ Handles(dev[i])
  BY DEF FileInv, Kept, Read
<1>2. \E d \in ReadOpen(dev[i]) : \E e :
        /\ dev' = [dev EXCEPT ![i] = e] /\ made' = made
        /\ d \in DevRec =>
             e.name = d.name /\ e.firm = d.firm /\ e.outside = d.outside /\ e.state = d.state
  <2>1. CASE ReadFile(i, n)
    <3>1. PICK d \in ReadOpen(dev[i]) :
            dev' = [dev EXCEPT ![i] = ReadDev(d, data[d.f.inode], n)] /\ made' = made
      BY <2>1, Zenon DEF ReadFile, ReadDev, Fetched
    <3>2. PICK e : e = ReadDev(d, data[d.f.inode], n)
      OBVIOUS
    <3>3. d \in DevRec =>
            e.name = d.name /\ e.firm = d.firm /\ e.outside = d.outside /\ e.state = d.state
      BY <3>2 DEF DevRec, ReadDev
    <3> QED
      BY <3>1, <3>2, <3>3
  <2>2. CASE ReadDir(i, n)
    <3>1. PICK d \in ReadOpen(dev[i]) :
            \E rest : \E e \in Stopped(d, rest) : dev' = [dev EXCEPT ![i] = e] /\ made' = made
      BY <2>2 DEF ReadDir
    <3>2. PICK rest : \E e \in Stopped(d, rest) : dev' = [dev EXCEPT ![i] = e] /\ made' = made
      BY <3>1
    <3>3. PICK e \in Stopped(d, rest) : dev' = [dev EXCEPT ![i] = e] /\ made' = made
      BY <3>2
    <3>4. PICK de : e = [d EXCEPT !.de = de, !.dir = rest \ {de}]
      BY <3>3 DEF Stopped
    <3>5. d \in DevRec =>
            e.name = d.name /\ e.firm = d.firm /\ e.outside = d.outside /\ e.state = d.state
      BY <3>4 DEF DevRec
    <3> QED
      BY <3>3, <3>5
  <2>3. CASE ReadNothing(i)
    BY <2>3 DEF ReadNothing
  <2> QED
    BY <2>1, <2>2, <2>3 DEF Read
<1>3. PICK d \in ReadOpen(dev[i]) : \E e :
        /\ dev' = [dev EXCEPT ![i] = e] /\ made' = made
        /\ d \in DevRec =>
             e.name = d.name /\ e.firm = d.firm /\ e.outside = d.outside /\ e.state = d.state
  BY <1>2
<1>4. d \in DevRec
  BY <1>1, ReadOpens
<1>6. PICK e : /\ dev' = [dev EXCEPT ![i] = e] /\ made' = made
               /\ e.name = d.name /\ e.firm = d.firm /\ e.outside = d.outside /\ e.state = d.state
  BY <1>3, <1>4
<1>5. /\ e.name = dev[i].name /\ e.firm = dev[i].firm /\ ~e.outside /\ e.state # "FILE_WRITE"
  BY <1>1, <1>4, <1>6, ReadPlace
<1> QED
  BY <1>1, <1>5, <1>6, PlaceKept

\* What WRITE finds open or opens is as far inside as it was, and a file it opens was led
\* to.
LEMMA WritePlace ==
  ASSUME NEW d \in DevRec, ~d.outside, NEW append, NEW o \in WriteOpen(d, append)
  PROVE  o.dev \in DevRec =>
           /\ o.dev.name = d.name /\ o.dev.firm = d.firm /\ ~o.dev.outside
           /\ o.dev.state = "FILE_WRITE" =>
                d.state = "FILE_WRITE" \/ \E x \in File : LeadsTo(d.name, x, made')
<1>1. CASE Writing(d)
  BY <1>1 DEF WriteOpen, Opened
<1>2. CASE ~Writing(d)
  <2>1. PICK s \in DevRec : /\ s = Reset(d) /\ s.name = d.name /\ s.firm = d.firm
                            /\ s.outside = FALSE /\ s.state = "IDLE"
    BY ResetIs
  <2>2. \/ o.dev = s \/ o.dev = [s EXCEPT !.state = "DIR_WRITE"]
        \/ \E n \in Target(d.name) :
             o.dev = [s EXCEPT !.state = "FILE_WRITE", !.f = Open(n, append)]
    <3>1. \A e, names, dt : Opened(e, names, dt).dev = e
      BY DEF Opened
    <3>2. \/ o = Opened(s, inode, data) \/ o = Opened([s EXCEPT !.state = "DIR_WRITE"], inode, data)
          \/ \E n \in Target(d.name) : \E names, dt :
               o = Opened([s EXCEPT !.state = "FILE_WRITE", !.f = Open(n, append)], names, dt)
      BY <1>2, <2>1, Zenon DEF WriteOpen
    <3>3. CASE \E n \in Target(d.name) : \E names, dt :
                 o = Opened([s EXCEPT !.state = "FILE_WRITE", !.f = Open(n, append)], names, dt)
      <4>1. PICK n \in Target(d.name) : \E names, dt :
                 o = Opened([s EXCEPT !.state = "FILE_WRITE", !.f = Open(n, append)], names, dt)
        BY <3>3
      <4>2. PICK names, dt :
              o = Opened([s EXCEPT !.state = "FILE_WRITE", !.f = Open(n, append)], names, dt)
        BY <4>1
      <4>3. o.dev = [s EXCEPT !.state = "FILE_WRITE", !.f = Open(n, append)]
        BY ONLY <3>1, <4>2, Zenon
      <4> QED
        BY <4>3
    <3>4. CASE o = Opened(s, inode, data) \/ o = Opened([s EXCEPT !.state = "DIR_WRITE"], inode, data)
      <4>1. Opened(s, inode, data).dev = s
        BY ONLY <3>1
      <4>2. Opened([s EXCEPT !.state = "DIR_WRITE"], inode, data).dev = [s EXCEPT !.state = "DIR_WRITE"]
        BY DEF Opened
      <4> QED
        BY ONLY <3>4, <4>1, <4>2
    <3> QED
      BY <3>2, <3>3, <3>4
  <2>3. (\E n \in Target(d.name) : TRUE) => \E x \in File : LeadsTo(d.name, x, made')
    BY DEF Target
  <2> QED
    BY <2>1, <2>2, <2>3 DEF DevRec
<1> QED
  BY <1>1, <1>2

\* A WRITE keeps the way of every name and makes more directories.
LEMMA PlaceWrite ==
  ASSUME FileInv, PlaceInv, NEW i \in Device, NEW b \in rom.blocks, NEW append \in BOOLEAN,
         Write(i, b, append)
  PROVE  PlaceInv'
<1>1. /\ dev \in [Device -> DevRec] /\ dev[i] \in DevRec /\ ~dev[i].outside /\ DiskInv
      /\ Handles(dev[i]) /\ made' \in Ensured(dev[i].name)
  BY DEF FileInv, Kept, Write
<1>2. made \subseteq made'
  BY <1>1, MadeIs
<1>3. \E o \in WriteOpen(dev[i], append) : \E e :
        /\ dev' = [dev EXCEPT ![i] = e]
        /\ o.dev \in DevRec =>
             /\ e.name = o.dev.name /\ e.firm = o.dev.firm
             /\ e.outside = o.dev.outside /\ e.state = o.dev.state
  <2>1. CASE WriteFile(i, b, append)
    <3>0. PICK o \in WriteOpen(dev[i], append) :
            \E pos : dev' = [dev EXCEPT ![i] = [o.dev EXCEPT !.f.pos = pos]]
      BY <2>1, Zenon DEF WriteFile
    <3>1. PICK pos : dev' = [dev EXCEPT ![i] = [o.dev EXCEPT !.f.pos = pos]]
      BY <3>0
    <3>2. PICK e : e = [o.dev EXCEPT !.f.pos = pos]
      OBVIOUS
    <3>3. o.dev \in DevRec =>
            /\ e.name = o.dev.name /\ e.firm = o.dev.firm
            /\ e.outside = o.dev.outside /\ e.state = o.dev.state
      BY <3>2 DEF DevRec
    <3> QED
      BY <3>1, <3>2, <3>3
  <2>2. CASE WriteNothing(i, append)
    BY <2>2 DEF WriteNothing
  <2> QED
    BY <2>1, <2>2 DEF Write
<1>4. PICK o \in WriteOpen(dev[i], append) : \E e :
        /\ dev' = [dev EXCEPT ![i] = e]
        /\ o.dev \in DevRec =>
             /\ e.name = o.dev.name /\ e.firm = o.dev.firm
             /\ e.outside = o.dev.outside /\ e.state = o.dev.state
  BY <1>3
<1>5. o.dev \in DevRec
  BY <1>1, WriteOpens
<1>7. PICK e : /\ dev' = [dev EXCEPT ![i] = e]
               /\ e.name = o.dev.name /\ e.firm = o.dev.firm
               /\ e.outside = o.dev.outside /\ e.state = o.dev.state
  BY <1>4, <1>5
<1>6. /\ e.name = dev[i].name /\ e.firm = dev[i].firm /\ ~e.outside
      /\ e.state = "FILE_WRITE" =>
           dev[i].state = "FILE_WRITE" \/ \E x \in File : LeadsTo(e.name, x, made')
  BY <1>1, <1>5, <1>7, WritePlace
<1> QED
  BY <1>1, <1>2, <1>6, <1>7, PlaceKept

\* Every command keeps it.
LEMMA NextPlace == FileInv /\ PlaceInv /\ [Next]_vars => PlaceInv'
<1> SUFFICES ASSUME FileInv, PlaceInv, [Next]_vars PROVE PlaceInv'
  OBVIOUS
<1>1. CASE UNCHANGED <<dev, made>>
  BY <1>1, Zenon DEF PlaceInv
<1>2. CASE Next
  <2>1. PICK i \in Device : Command(i)
    BY <1>2 DEF Next
  <2>2. CASE \E n \in rom.names : SetName(i, n)
    BY <2>2, PlaceSetName
  <2>3. CASE \E n \in Length : Read(i, n)
    BY <2>3, PlaceRead
  <2>4. CASE \E b \in rom.blocks, append \in BOOLEAN : Write(i, b, append)
    BY <2>4, PlaceWrite
  <2>5. CASE Delete(i)
    BY <1>1, <2>5 DEF Delete
  <2> QED
    BY <2>1, <2>2, <2>3, <2>4, <2>5 DEF Command
<1> QED
  BY <1>1, <1>2 DEF vars, disk

-----------------------------------------------------------------------------
(* The theorems.                                                           *)

\* The inductive invariant.
LEMMA AlwaysFile == Spec => []FileInv
BY InitFile, NextFile, PTL DEF Spec

\* And where names lead.
LEMMA AlwaysPlace == Spec => []PlaceInv
BY InitPlace, NextPlace, AlwaysFile, PTL DEF Spec

\* Whatever a ROM commands and however the disk fails, every variable keeps its type and
\* a device holds the one handle its state says and no other (file.c:63, reset).
THEOREM OneHandleAtATime == Spec => []Sound
<1>1. FileInv => Sound
  <2> SUFFICES ASSUME FileInv PROVE TypeOK /\ OneHandle
    BY DEF Sound
  <2>1. TypeOK
    BY DEF FileInv, DiskInv, DevRec, TypeOK
  <2>2. OneHandle
    BY DEF FileInv, Kept, Handles, OneHandle
  <2> QED
    BY <2>1, <2>2
<1> QED
  BY <1>1, AlwaysFile, PTL

\* The sandbox, checked once when a name is given, holds while directories are made and
\* files come and go: a device that failed the check opens nothing, and one that passed it
\* means a node of the sandbox or of a directory beside it whose path begins as its own,
\* where every directory lies that it may still make - unless ".." followed a part of the
\* name that was not there, of which nothing is claimed (file.c:169).
THEOREM NothingOutsideIsOpened == Spec => []Sandboxed
<1>1. PlaceInv => Sandboxed
  BY Zenon DEF PlaceInv, Inside, Sandboxed
<1> QED
  BY <1>1, AlwaysPlace, PTL

\* READs in pieces of any length give the bytes of the file in order and none twice, and
\* a short answer means its end, unless somebody writes to it meanwhile (file.c:196).
THEOREM PiecesMakeTheFile == Spec => []ReadsTheFile
<1>1. FileInv => ReadsTheFile
  <2> SUFFICES ASSUME FileInv, NEW i \in Device, dev[i].state = "FILE_READ", hist[i].safe
               PROVE  LET file == data[dev[i].f.inode]
                          got  == hist[i].got
                      IN /\ Len(got) <= Len(file) /\ got = SubSeq(file, 1, Len(got))
                         /\ hist[i].ended => got = file
    BY DEF ReadsTheFile
  <2>1. PICK d, h : /\ d \in DevRec /\ d = dev[i] /\ h = hist[i] /\ Handles(d)
                    /\ ReadSoFar(d, h, data[d.f.inode])
    BY DEF FileInv, Kept
  <2>2. d.f \in Stream
    BY <2>1, NoHandle DEF DevRec, Handles
  <2>3. data[d.f.inode] \in Text /\ d.f.buf \in Text /\ d.f.pos \in 0 .. MaxSize
    BY <2>2 DEF FileInv, DiskInv, Stream
  <2>4. PICK file \in Text : file = data[d.f.inode] /\ ReadSoFar(d, h, file)
    BY <2>1, <2>3
  <2>5. /\ Len(h.got) <= Len(file) /\ h.got = SubSeq(file, 1, Len(h.got))
        /\ h.ended => h.got = file
    BY ONLY <2>3, <2>4, SoFarIsPrefix
  <2> QED
    BY ONLY <2>1, <2>4, <2>5
<1> QED
  BY <1>1, AlwaysFile, PTL

\* READs of a directory give every entry once, whatever fits in each: the one that did
\* not fit is the first of the next (file.c:95).
THEOREM EveryEntryOnce == Spec => []ListsEachOnce
<1>1. FileInv => ListsEachOnce
  <2> SUFFICES ASSUME FileInv, NEW i \in Device, dev[i].state = "DIR_READ"
               PROVE  /\ Apart(hist[i].got) /\ InLines(hist[i].got) \subseteq hist[i].entries
                      /\ hist[i].ended => InLines(hist[i].got) = hist[i].entries
    BY DEF ListsEachOnce, Apart, InLines
  <2>1. ListedSoFar(dev[i], hist[i])
    BY DEF FileInv, Kept
  <2> QED
    BY <2>1 DEF ListedSoFar
<1> QED
  BY <1>1, AlwaysFile, PTL

\* What a WRITE answered to have written is in the file, after failed writes, with
\* another device appending to it and after it lost its name, and STAT counts it as long
\* as the file has that name (file.c:246).
THEOREM AnsweredIsKept == Spec => []KeepsWhatItAnswers
<1>1. FileInv /\ PlaceInv => KeepsWhatItAnswers
  <2> SUFFICES ASSUME FileInv, PlaceInv, NEW i \in Device, dev[i].state = "FILE_WRITE", hist[i].safe,
                      NEW e \in hist[i].put
               PROVE  /\ e[1] <= Len(data[dev[i].f.inode])
                      /\ data[dev[i].f.inode][e[1]] = e[2]
                      /\ inode[Place(dev[i].name)] = dev[i].f.inode => Shows(dev[i].name) >= e[1]
    BY DEF KeepsWhatItAnswers
  <2>1. WrittenSoFar(hist[i], data[dev[i].f.inode]) /\ Handles(dev[i]) /\ dev[i] \in DevRec
    BY DEF FileInv, Kept
  <2>2. e[1] <= Len(data[dev[i].f.inode]) /\ data[dev[i].f.inode][e[1]] = e[2]
    BY <2>1 DEF WrittenSoFar
  <2>3. PICK x \in File : /\ x = Place(dev[i].name) /\ LeadsTo(dev[i].name, x, made)
                          /\ x \in Node /\ x \notin Dir
    <3>1. PICK x \in File : LeadsTo(dev[i].name, x, made)
      BY <2>1, NoHandle DEF PlaceInv
    <3> QED
      BY <3>1, NamesAssumption DEF LeadsTo, Node
  <2>4. dev[i].f.inode # NULL
    BY <2>1, NoHandle, DiskAssumption DEF DevRec, Handles, Stream
  <2>5. inode[x] = dev[i].f.inode => Shows(dev[i].name) = Len(data[dev[i].f.inode])
    BY <2>3, <2>4 DEF Shows, Exists
  <2> QED
    BY <2>2, <2>3, <2>5
<1> QED
  BY <1>1, AlwaysFile, AlwaysPlace, PTL

=============================================================================
