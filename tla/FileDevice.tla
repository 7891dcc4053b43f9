----------------------------- MODULE FileDevice ------------------------------
(***************************************************************************)
(* The two file devices (src/devices/file.c) on one disk.                  *)
(*                                                                         *)
(* A device has a name and at most one handle, a stream or a directory,    *)
(* opened by the first READ or WRITE after the name was given and closed   *)
(* when the ROM gives a name or turns from reading to writing or back.     *)
(* The disk and the C library are external: a file lives as long as it has *)
(* a name or an open stream, a stream reads ahead, its end of file sticks, *)
(* a write may fail half-way.  A node of the disk is a file or a directory *)
(* for good, there are no links, and the name of a file is followed by no  *)
(* slash.  Both devices belong to one thread here.  The port SUCCESS is no *)
(* variable: hist has what the ROM learns from it.                         *)
(***************************************************************************)
EXTENDS Integers, Sequences, FiniteSets

CONSTANTS
  Device,             \* File 1 and File 2
  File, Dir,          \* the files and the directories there can be
  Root, Top,          \* the root of the disk and the working directory, the sandbox
  Parent,             \* the directory each of them lies in
  Standing,           \* the directories there are at first
  Alike,              \* those whose path begins with the characters of Top's
  Dot, DotDot,        \* the entries every directory has
  Inode, NULL,
  Programs,           \* the ROMs: the names a ROM gives and the blocks it writes
  Length,             \* how much a ROM reads at once
  MaxSize             \* how much of a file fits on the disk

Node   == File \cup Dir
InDir(d) == {x \in Node : Parent[x] = d /\ x # d}

\* A name is the way it leads: from Root or, if it is relative, from Top, and for each
\* part of it down, up by "..", or nowhere by ".".  It may end with a slash.  A name
\* without parts is the empty one.
NoName == [way |-> <<>>, slash |-> FALSE]
Name ==
  {n \in [way : Seq(Node), slash : BOOLEAN] :
     \/ n = NoName
     \/ /\ n.way[1] \in {Root, Top} /\ Len(n.way) > 1
        /\ \A k \in 2 .. Len(n.way) :
             /\ n.way[k - 1] \in Dir
             /\ n.way[k] \in InDir(n.way[k - 1]) \cup {n.way[k - 1], Parent[n.way[k - 1]]}
        /\ n.slash => n.way[Len(n.way)] \in Dir}

\* The node a name means.
Place(n) == n.way[Len(n.way)]

ASSUME NamesAssumption ==
  /\ File \cap Dir = {} /\ Parent \in [Node -> Dir] /\ Parent[Root] = Root
  /\ Standing \subseteq Dir /\ {Root, Top} \subseteq Standing /\ IsFiniteSet(Standing)
  /\ \A d \in Standing : Parent[d] \in Standing
  /\ Dot \notin File /\ DotDot \notin File /\ Dot # DotDot
\* The paths that begin as Top's are Top's, those of some directories beside it, and
\* those of what lies in them.
ASSUME PathAssumption ==
  /\ Top \in Alike /\ Root \notin Alike
  /\ Alike = {x \in Node : x \in Alike /\ Parent[x] = Parent[Top]}
             \cup {x \in Node : Parent[x] \in Alike}
ASSUME DiskAssumption == /\ NULL \notin Inode \cup File \cup {Dot, DotDot}
                         /\ Length \subseteq Nat /\ MaxSize \in Nat
                         /\ Programs \subseteq [names : SUBSET Name, blocks : SUBSET Seq(Nat)]

VARIABLES
  dev,                \* uxn_file[]; firm is history
  inode, data, made,  \* the file a name means, what is in a file, the directories
  rom,                \* the program that commands the devices
  hist                \* history: what it knows of the name it gave last

disk == <<inode, data, made>>
vars == <<dev, disk, rom, hist>>

\* A FILE: which file, where the system is in it, what was read ahead, whether the
\* end was met, whether it appends.
Open(n, append) == [inode |-> n, pos |-> 0, buf |-> <<>>, eof |-> FALSE, append |-> append]

\* What the ROM read since the device was opened, whether the last answer was short,
\* which entries there were; what it wrote and where; whether the other device left
\* the file alone.  Once it did not, nothing more is noted.
NothingYet == [got |-> <<>>, ended |-> FALSE, entries |-> {}, put |-> {}, safe |-> TRUE]
Disturbed  == [NothingYet EXCEPT !.safe = FALSE]
Note(h, new) == IF h.safe THEN new ELSE h

Init ==
  /\ dev = [i \in Device |-> [name |-> NoName, state |-> "IDLE", f |-> NULL, dir |-> NULL,
                              de |-> NULL, outside |-> FALSE, firm |-> TRUE]]
  /\ inode = [x \in File |-> NULL] /\ data = [n \in Inode |-> <<>>] /\ made = Standing
  /\ rom \in Programs /\ hist = [i \in Device |-> NothingYet]

-----------------------------------------------------------------------------
(* Naming.                                                                 *)

\* Mutant: the directory is not closed.
Reset_KeepsDir(d) == [d EXCEPT !.f = NULL, !.de = NULL, !.state = "IDLE", !.outside = FALSE]

\* A device without handles, inside the sandbox until its name is looked at.
Reset(d) ==
  [d EXCEPT !.f = NULL, !.dir = NULL, !.de = NULL, !.state = "IDLE", !.outside = FALSE]

\* The parts of a name that are there, up to the first that is not.
Exists(x) == IF x \in Dir THEN x \in made ELSE inode[x] # NULL
Seen(n)   == {k \in DOMAIN n.way : \A j \in 1 .. k : Exists(n.way[j])}

\* file_check_sandbox: the last part of the name that is there (retry_realpath) is
\* compared with the working directory, character by character over the length of that.
Outside(n) == \E k \in Seen(n) : (\A j \in Seen(n) : j <= k) /\ n.way[k] \notin Alike

\* History: no part of the name that is not there is followed by "..".
Firm(n) == \A k \in DOMAIN n.way \ (Seen(n) \cup {1}) :
             n.way[k] \in InDir(n.way[k - 1]) \cup {n.way[k - 1]}

\* Mutant: the name is looked at before the reset.
Named_CheckedFirst(d, n) ==
  Reset([d EXCEPT !.name = n, !.outside = Outside(n), !.firm = Firm(n)])

\* file_init: the device with name n.  NoName is also what is left of a name that does
\* not end before the memory does; it is not looked at.
Named(d, n) == [Reset(d) EXCEPT !.name = n, !.outside = Outside(n), !.firm = Firm(n)]

\* What is left of the disk's data: a file without name and stream is gone.
Linked(dt) ==
  [n \in Inode |-> IF \/ \E x \in File : inode'[x] = n
                      \/ \E i \in Device : dev'[i].f # NULL /\ dev'[i].f.inode = n
                   THEN dt[n] ELSE <<>>]

SetName(i, n) ==
  /\ dev' = [dev EXCEPT ![i] = Named(dev[i], n)]
  /\ hist' = [hist EXCEPT ![i] = NothingYet]
  /\ UNCHANGED <<inode, made, rom>>
  /\ data' = Linked(data)

-----------------------------------------------------------------------------
(* READ.                                                                   *)

\* The entries of directory d.
Entries(d) == {x \in InDir(d) : Exists(x)} \cup {Dot, DotDot}

\* Entries a listing leaves out: "." and, at the top of the sandbox, "..".
Hidden(d) == {Dot} \cup (IF d = Top THEN {DotDot} ELSE {})

Reading(d) == d.state \in {"FILE_READ", "DIR_READ"}

\* With these directories name n leads to node x.
LeadsTo(n, x, dirs) ==
  n # NoName /\ x = Place(n) /\ \A k \in 1 .. Len(n.way) - 1 : n.way[k] \in dirs

\* Mutant: every READ opens the file anew.
ReadOpen_Always(d) ==
  LET r == Reset(d)
  IN {r}
     \cup {[r EXCEPT !.state = "DIR_READ", !.dir = Entries(x)] :
             x \in {y \in made : LeadsTo(d.name, y, made)}}
     \cup {[r EXCEPT !.state = "FILE_READ", !.f = Open(inode[x], FALSE)] :
             x \in {y \in File : LeadsTo(d.name, y, made) /\ inode[y] # NULL}}

\* The device as READ finds it or opens it: a directory, or else a file, or nothing.
ReadOpen(d) ==
  IF Reading(d) THEN {d}
  ELSE LET r == Reset(d)
       IN {r}
          \cup {[r EXCEPT !.state = "DIR_READ", !.dir = Entries(x)] :
                  x \in {y \in made : LeadsTo(d.name, y, made)}}
          \cup {[r EXCEPT !.state = "FILE_READ", !.f = Open(inode[x], FALSE)] :
                  x \in {y \in File : LeadsTo(d.name, y, made) /\ inode[y] # NULL}}

\* History of device i, which is d once it is open.
ReadHist(i, d) ==
  IF Reading(dev[i]) THEN hist[i]
  ELSE [NothingYet EXCEPT !.entries = IF d.dir = NULL THEN {} ELSE d.dir \ Hidden(Place(d.name))]

\* fread of up to n bytes: those read ahead, then the rest of the file.
ReadFile(i, n) ==
  \E d \in ReadOpen(dev[i]) :
    LET file  == data[d.f.inode]
        again == Len(d.f.buf) < n /\ ~d.f.eof
        bytes == IF again THEN d.f.buf \o SubSeq(file, d.f.pos + 1, Len(file)) ELSE d.f.buf
        some  == IF Len(bytes) < n THEN Len(bytes) ELSE n
        h     == ReadHist(i, d)
    IN /\ d.state = "FILE_READ"
       /\ dev' = [dev EXCEPT ![i] = [d EXCEPT
                    !.f.buf = SubSeq(bytes, some + 1, Len(bytes)),
                    !.f.pos = IF again /\ @ < Len(file) THEN Len(file) ELSE @,
                    !.f.eof = @ \/ some < n]]
       /\ hist' = [hist EXCEPT ![i] = Note(h, [h EXCEPT !.got = @ \o SubSeq(bytes, 1, some),
                                                        !.ended = some < n])]
       /\ UNCHANGED <<inode, made, rom>>
       /\ data' = Linked(data)

\* The entry a listing stops at: the first of those left that does not fit.
StopsAt(rest, de) ==
  IF rest = {} THEN {NULL} ELSE IF de \in rest THEN {de} ELSE rest

\* Mutant: the entry that did not fit is forgotten.
Stopped_Forgets(d, rest) ==
  {[d EXCEPT !.de = NULL, !.dir = rest \ {de}] : de \in StopsAt(rest, d.de)}

\* The directory after a READ: that entry is kept for the next one.
Stopped(d, rest) ==
  {[d EXCEPT !.de = de, !.dir = rest \ {de}] : de \in StopsAt(rest, d.de)}

\* readdir until n lines are full, starting with the entry that was kept.
ReadDir(i, n) ==
  \E d \in ReadOpen(dev[i]) :
    /\ d.state = "DIR_READ"
    /\ LET hidden == Hidden(Place(d.name))
           left   == d.dir \cup (IF d.de = NULL THEN {} ELSE {d.de})
           shown  == left \ hidden
           h      == ReadHist(i, d)
       IN \E lines \in SUBSET shown :
            /\ Cardinality(lines) = IF Cardinality(shown) < n THEN Cardinality(shown) ELSE n
            /\ n > 0 /\ d.de # NULL => d.de \in lines
            /\ \E e \in Stopped(d, shown \ lines) : dev' = [dev EXCEPT ![i] = e]
            /\ hist' = [hist EXCEPT ![i] = [h EXCEPT
                          !.got = IF lines = {} THEN @ ELSE Append(@, lines),
                          !.ended = Cardinality(lines) < n]]
    /\ UNCHANGED <<inode, made, rom>>
    /\ data' = Linked(data)

\* Nothing of that name can be opened.
ReadNothing(i) ==
  \E d \in ReadOpen(dev[i]) :
    /\ ~Reading(d)
    /\ dev' = [dev EXCEPT ![i] = d]
    /\ hist' = [hist EXCEPT ![i] = NothingYet]
    /\ UNCHANGED <<inode, made, rom>>
    /\ data' = Linked(data)

Read(i, n) == ~dev[i].outside /\ (ReadFile(i, n) \/ ReadDir(i, n) \/ ReadNothing(i))

-----------------------------------------------------------------------------
(* WRITE, DELETE and STAT.                                                 *)

Writing(d) == d.state \in {"FILE_WRITE", "DIR_WRITE"}

\* The directories before a slash of the name.  An absolute name has none here: the
\* first is the empty path, which cannot be made, and that ends it.
Above(n) ==
  IF n = NoName \/ Head(n.way) = Root THEN <<>>
  ELSE SubSeq(n.way, 2, IF n.slash THEN Len(n.way) ELSE Len(n.way) - 1)

\* ensure_parent_dirs: the directories there are when it made those, from the first to
\* the one before a mkdir that failed.
Ensured(n) == {made \cup {Above(n)[k] : k \in 1 .. j} : j \in 0 .. Len(Above(n))}

\* The files fopen may give for writing: the one of that name, or a new one.
Free == {n \in Inode : /\ \A x \in File : inode[x] # n
                       /\ \A i \in Device : dev[i].f # NULL => dev[i].f.inode # n}
New  == IF Free = {} THEN {} ELSE {CHOOSE n \in Free : TRUE}
Target(n) == IF \A x \in File : ~LeadsTo(n, x, made') THEN {}
             ELSE IF inode[Place(n)] # NULL THEN {inode[Place(n)]} ELSE New

\* What there is once a device is open for writing: the device, the names, the data.
Opened(d, names, dt) == [dev |-> d, inode |-> names, data |-> dt]

\* Mutant: the append port is not looked at.
WriteOpen_Truncates(d, append) ==
  IF Writing(d) THEN {Opened(d, inode, data)}
  ELSE IF d.name.slash
       THEN {Opened([Reset(d) EXCEPT !.state = "DIR_WRITE"], inode, data)}
       ELSE {Opened(Reset(d), inode, data)}
            \cup {Opened([Reset(d) EXCEPT !.state = "FILE_WRITE", !.f = Open(n, append)],
                         [inode EXCEPT ![Place(d.name)] = n], [data EXCEPT ![n] = <<>>]) :
                    n \in Target(d.name)}

\* The device as WRITE finds it or opens it.  The append port matters only now.
WriteOpen(d, append) ==
  IF Writing(d) THEN {Opened(d, inode, data)}
  ELSE IF d.name.slash
       THEN {Opened([Reset(d) EXCEPT !.state = "DIR_WRITE"], inode, data)}
       ELSE {Opened(Reset(d), inode, data)}
            \cup {Opened([Reset(d) EXCEPT !.state = "FILE_WRITE", !.f = Open(n, append)],
                         [inode EXCEPT ![Place(d.name)] = n],
                         IF append THEN data ELSE [data EXCEPT ![n] = <<>>]) :
                    n \in Target(d.name)}

\* The file s with b at position p.
Overlay(s, p, b) ==
  [k \in 1 .. (IF p + Len(b) > Len(s) THEN p + Len(b) ELSE Len(s)) |->
     IF k > p /\ k <= p + Len(b) THEN b[k - p] ELSE IF k <= Len(s) THEN s[k] ELSE 0]

\* What WRITE may answer when k of n bytes are on the disk: fwrite or fflush fails.
Answers(k, n) == IF k = n THEN {n} ELSE {0, k}

\* The history when device i writes to file n: a reader of the file is disturbed, a
\* writer is unless i appends.
Overwrites(h, i, n, append) ==
  [j \in Device |->
     IF j = i \/ dev[j].f = NULL THEN h[j]
     ELSE IF dev[j].f.inode = n /\ (Reading(dev[j]) \/ ~append) THEN Disturbed ELSE h[j]]

\* fwrite and fflush: k bytes of b get to the disk.
WriteFile(i, b, append) ==
  \E o \in WriteOpen(dev[i], append), k \in 0 .. Len(b), r \in 0 .. Len(b) :
    LET f    == o.dev.f
        file == o.data[f.inode]
        p    == IF f.append THEN Len(file) ELSE f.pos
        some == SubSeq(b, 1, k)
        h    == IF Writing(dev[i]) THEN hist[i] ELSE NothingYet
    IN /\ o.dev.state = "FILE_WRITE"
       /\ p + k <= MaxSize /\ r \in Answers(k, Len(b))
       /\ dev' = [dev EXCEPT ![i] = [o.dev EXCEPT !.f.pos = p + k]]
       /\ inode' = o.inode
       /\ data' = Linked([o.data EXCEPT ![f.inode] = IF k = 0 THEN @ ELSE Overlay(@, p, some)])
       /\ hist' = Overwrites([hist EXCEPT ![i] = Note(h, [h EXCEPT
                                !.put = {e \in @ : e[1] \notin p + 1 .. p + k}
                                        \cup {<<p + e, b[e]>> : e \in 1 .. r}])],
                             i, f.inode, f.append)

\* A name that ends with a slash, or one that cannot be opened.
WriteNothing(i, append) ==
  \E o \in WriteOpen(dev[i], append) :
    /\ o.dev.state # "FILE_WRITE"
    /\ dev' = [dev EXCEPT ![i] = o.dev]
    /\ hist' = [hist EXCEPT ![i] = NothingYet]
    /\ UNCHANGED inode
    /\ data' = Linked(data)

Write(i, b, append) ==
  /\ ~dev[i].outside
  /\ made' \in Ensured(dev[i].name) /\ UNCHANGED rom
  /\ WriteFile(i, b, append) \/ WriteNothing(i, append)

\* unlink.  The open streams keep the file.
Delete(i) ==
  /\ ~dev[i].outside
  /\ \E x \in File :
       /\ LeadsTo(dev[i].name, x, made) /\ inode[x] # NULL
       /\ inode' = [inode EXCEPT ![x] = NULL]
  /\ UNCHANGED <<dev, made, rom, hist>>
  /\ data' = Linked(data)

\* What STAT tells of name n: "!" for nothing, "-" for a directory, or the size.  It
\* asks the disk and changes nothing but the ROM's memory.
Shows(n) ==
  IF \A x \in Node : ~(LeadsTo(n, x, made) /\ Exists(x)) THEN "!"
  ELSE IF Place(n) \in Dir THEN "-" ELSE Len(data[inode[Place(n)]])

-----------------------------------------------------------------------------

Command(i) ==
  \/ \E n \in rom.names : SetName(i, n)
  \/ \E n \in Length : Read(i, n)
  \/ \E b \in rom.blocks, append \in BOOLEAN : Write(i, b, append)
  \/ Delete(i)

Next == \E i \in Device : Command(i)

Spec == Init /\ [][Next]_vars

-----------------------------------------------------------------------------
(* What the devices promise.                                               *)

\* What a file is made of; a hole in it reads as 0.
Letter == {0} \cup UNION {UNION {{b[k] : k \in DOMAIN b} : b \in p.blocks} : p \in Programs}
Text   == UNION {[1 .. n -> Letter] : n \in 0 .. MaxSize}
Stream == [inode : Inode, pos : 0 .. MaxSize, buf : Text, eof : BOOLEAN, append : BOOLEAN]
Entry  == File \cup Dir \cup {Dot, DotDot}

\* No handle is no stream, no directory and no entry.
ASSUME NullAssumption == NULL \notin Stream \cup Entry /\ \A d \in SUBSET Entry : d # NULL

\* Every variable keeps its type.
TypeOK ==
  /\ dev \in [Device -> [name : Name, state : {"IDLE", "FILE_READ", "FILE_WRITE", "DIR_READ", "DIR_WRITE"},
                         f : Stream \cup {NULL}, dir : (SUBSET Entry) \cup {NULL},
                         de : Entry \cup {NULL}, outside : BOOLEAN, firm : BOOLEAN]]
  /\ inode \in [File -> Inode \cup {NULL}] /\ data \in [Inode -> Text]
  /\ made \subseteq Dir /\ rom \in Programs

\* A device holds the one handle its state says and no other, whatever failed
\* before: nothing is left open by a change of name or direction, and nothing is
\* used after it was closed (file.c:63, reset).
OneHandle ==
  \A i \in Device :
    /\ dev[i].f # NULL <=> dev[i].state \in {"FILE_READ", "FILE_WRITE"}
    /\ dev[i].dir # NULL <=> dev[i].state = "DIR_READ"
    /\ dev[i].de # NULL => dev[i].state = "DIR_READ"

\* The types, and one handle at most in each device.
Sound == TypeOK /\ OneHandle

\* The sandbox is checked once, on the disk as it is when the name is given.  From then
\* on a device that failed the check has nothing open, and one that passed it means a
\* node in the sandbox or in a directory beside it whose path begins as its own, and
\* every directory it may still make lies there too - unless ".." followed a part of the
\* name that was not there, which the check does not resolve (file.c:169).
Sandboxed ==
  \A i \in Device :
    LET n == dev[i].name
    IN /\ dev[i].outside => dev[i].state = "IDLE"
       /\ n # NoName /\ dev[i].firm /\ ~dev[i].outside =>
            Place(n) \in Alike /\ \A k \in DOMAIN n.way : n.way[k] \in made \cup Alike

\* READs in pieces of any length give the bytes of the file in order and none twice,
\* and a short answer means its end, unless somebody writes to it meanwhile.
ReadsTheFile ==
  \A i \in Device :
    dev[i].state = "FILE_READ" /\ hist[i].safe =>
      LET file == data[dev[i].f.inode]
          got  == hist[i].got
      IN /\ Len(got) <= Len(file) /\ got = SubSeq(file, 1, Len(got))
         /\ hist[i].ended => got = file

\* READs of a directory give every entry once, whatever fits in each.
ListsEachOnce ==
  \A i \in Device :
    dev[i].state = "DIR_READ" =>
      LET got == hist[i].got
          all == UNION {got[k] : k \in 1 .. Len(got)}
      IN /\ \A j, k \in 1 .. Len(got) : j # k => got[j] \cap got[k] = {}
         /\ all \subseteq hist[i].entries
         /\ hist[i].ended => all = hist[i].entries

\* What a WRITE answered to have written is in the file, after failed writes, with
\* another device appending to the same file, and after the file lost its name; and
\* while it has it STAT counts it.
KeepsWhatItAnswers ==
  \A i \in Device :
    dev[i].state = "FILE_WRITE" /\ hist[i].safe =>
      \A e \in hist[i].put :
        /\ e[1] <= Len(data[dev[i].f.inode])
        /\ data[dev[i].f.inode][e[1]] = e[2]
        /\ inode[Place(dev[i].name)] = dev[i].f.inode => Shows(dev[i].name) >= e[1]
=============================================================================
