-------------------------- MODULE Assembler_proofs --------------------------
(***************************************************************************)
(* Proofs about Assembler: whatever source is assembled, the image keeps   *)
(* what is laid out, its references keep apart, its names mean one thing,  *)
(* and its lambdas end in turn.                                            *)
(***************************************************************************)
EXTENDS Assembler, SequenceTheorems, TLAPS

-----------------------------------------------------------------------------
(* Numbers.                                                                *)

\* The numbers that are left when x is divided by n.
LEMMA Remainder ==
  ASSUME NEW n \in Nat \ {0}, NEW x \in Int
  PROVE  x % n \in 0 .. n - 1 /\ (x \in 0 .. n - 1 => x % n = x)
OBVIOUS

\* A place in a file is in the file when it is longer.
LEMMA Longer ==
  ASSUME NEW p \in Int, NEW l \in Int, NEW m \in Int, l <= m
  PROVE  p .. l - 1 \subseteq p .. m - 1
OBVIOUS

\* The page is not empty, and the program's place is in it.
LEMMA Pages == /\ B \in Nat \ {0}
               /\ PAGE_SIZE \in Nat \ {0}
               /\ PAGE_PROGRAM \in 1 .. PAGE_SIZE - 1
<1>1. B * B > B
  BY ByteAssumption, Z3
<1> QED
  BY <1>1, ByteAssumption DEF PAGE_SIZE, PAGE_PROGRAM

\* What is reduced to its width has it.
LEMMA Widths ==
  ASSUME NEW x \in Int
  PROVE  /\ x % B \in Byte /\ Lo(x) \in Byte /\ Hi(x) \in Byte
         /\ x % PAGE_SIZE \in Short
         /\ x \in Short => x % PAGE_SIZE = x
<1>1. x \div B \in Int
  BY Pages
<1> QED
  BY <1>1, Remainder, Pages DEF Byte, Short, Lo, Hi

\* What a reference puts before it is resolved: bytes, the last of which is not zero.
LEMMA Placeholders ==
  ASSUME NEW r \in Runes
  PROVE  /\ Placeholder(r) \in Seq(Byte)
         /\ Width(r) \in {1, 2}
         /\ Len(Placeholder(r)) = (IF r \in DOMAIN Opening THEN 1 ELSE 0) + Width(r)
         /\ Placeholder(r)[Len(Placeholder(r))] = B - 1
<1> DEFINE before == IF r \in DOMAIN Opening THEN <<Opening[r]>> ELSE <<>>
           after  == [j \in 1 .. Width(r) |-> B - 1]
<1>1. Width(r) \in {1, 2}
  BY DEF Width
<1>2. B - 1 \in Byte /\ LIT \in Byte /\ LIT2 \in Byte /\ JCI \in Byte /\ JMI \in Byte /\ JSI \in Byte
  BY ByteAssumption DEF Byte, LIT, LIT2, JCI, JMI, JSI
<1>3. r \in DOMAIN Opening => Opening[r] \in Byte
  BY <1>2 DEF Opening
<1>4. before \in Seq(Byte) /\ Len(before) = IF r \in DOMAIN Opening THEN 1 ELSE 0
  BY <1>3
<1>5. after \in Seq(Byte) /\ Len(after) = Width(r) /\ after[Width(r)] = B - 1
  BY <1>1, <1>2
<1>6. Placeholder(r) = before \o after
  BY DEF Placeholder
<1> HIDE DEF before, after
<1> QED
  BY <1>1, <1>4, <1>5, <1>6, ConcatProperties

-----------------------------------------------------------------------------
(* Tokens and names.                                                       *)

\* The parts of a token, by its rune.
LEMMA TokenParts ==
  ASSUME NEW t \in Token
  PROVE  /\ t.rune = "byte" => t.hex \in Byte
         /\ t.rune \in {"$", "|"} =>
              IF "hex" \in DOMAIN t THEN t.hex \in Short ELSE t.name \in Plain \cup Child
         /\ t.rune \in {"@", "&"} => t.name \in Plain \cup Child
         /\ t.rune \in Runes => t.name \in Plain \cup Child \cup {Brace}
         /\ t.rune = "%" => t.name \in Plain
<1> DEFINE T1 == [rune : {"byte"}, hex : Byte]
           T2 == [rune : {"$", "|"}, hex : Short]
           T3 == [rune : {"@", "&", "$", "|"}, name : Plain \cup Child]
           T4 == [rune : Runes \cup {"}"}, name : Plain \cup Child \cup {Brace}]
           T5 == [rune : {"%"}, name : Words \X {""} \X {0}, glued : BOOLEAN]
<1>1. Words \X {""} \X {0} \subseteq Plain
  BY DEF Plain
<1>2. Runes \cap {"byte", "$", "|", "@", "&", "}", "%"} = {}
  BY DEF Runes, Relative, LowByte, Absolute, Distance
<1>3. CASE t \in T1
  BY <1>2, <1>3
<1>4. CASE t \in T2
  BY <1>2, <1>4
<1>5. CASE t \in T3
  BY <1>2, <1>5
<1>6. CASE t \in T4
  BY <1>2, <1>6
<1>7. CASE t \in T5
  BY <1>1, <1>2, <1>7
<1> QED
  BY <1>3, <1>4, <1>5, <1>6, <1>7 DEF Token

\* A name with its scope, and that the scope is a word.
LEMMA FullNames ==
  ASSUME scope \in Words, NEW n \in Plain \cup Child
  PROVE  Full(n) \in Plain /\ Full(n)[1] \in Words /\ n[1] # "{"
<1>1. CASE n \in Plain
  <2>1. n[1] \in Words
    BY <1>1 DEF Plain
  <2>2. n[1] # "&" /\ n[1] # "{"
    BY <2>1, SourcesAssumption
  <2> QED
    BY <1>1, <2>1, <2>2 DEF Full
<1>2. CASE n \in Child
  <2>1. PICK w \in Words : n = <<"&", w, 0>>
    BY <1>2 DEF Child
  <2>2. n[1] = "&" /\ n[2] = w
    BY <2>1
  <2>3. Full(n) = <<scope, w, 0>>
    BY <2>2 DEF Full
  <2>4. <<scope, w, 0>> \in Plain
    BY DEF Plain
  <2>5. n[1] # "{"
    BY <2>2
  <2>6. Full(n)[1] = scope
    BY <2>3
  <2> QED
    BY <2>3, <2>4, <2>5, <2>6
<1> QED
  BY <1>1, <1>2

\* A name that is no child is its own scope's.
LEMMA FullIsPlain ==
  ASSUME NEW n \in Plain
  PROVE  Full(n) = n
<1>1. n[1] \in Words
  BY DEF Plain
<1> QED
  BY <1>1, SourcesAssumption DEF Full

\* The label of a lambda is a name, and has no scope.
LEMMA LambdaNames ==
  ASSUME NEW id \in Byte
  PROVE  Lambda(id) \in Name /\ Full(Lambda(id)) = Lambda(id)
BY DEF Lambda, Name, Full

\* A name that is found is one of the list's.
LEMMA Found ==
  ASSUME NEW list, NEW n, Named(list, n) # {}
  PROVE  \E i \in DOMAIN list : list[i].name = Full(n) /\ Find(list, n) = list[i]
BY DEF Find, Named

-----------------------------------------------------------------------------
(* Bytes.                                                                  *)

\* Bytes that are written where the code lets it keep to the image, none is left behind
\* its end, and what was laid out stays.
LEMMA WriteKeeps ==
  ASSUME data \in [Short -> Byte], ptr \in Nat, length \in 0 .. PAGE_SIZE, Kept,
         NEW bytes \in Seq(Byte), Len(bytes) \in Nat \ {0},
         Len(bytes) = 1 \/ bytes[Len(bytes)] # 0,
         CanWrite(Len(bytes)), Write(bytes)
  PROVE  /\ data' \in [Short -> Byte] /\ ptr' \in Nat /\ length' \in length .. PAGE_SIZE
         /\ Kept'
         /\ bytes[Len(bytes)] # 0 => length' = ptr + Len(bytes)
         /\ ptr \in PAGE_PROGRAM .. PAGE_SIZE /\ length <= ptr /\ ptr + Len(bytes) <= PAGE_SIZE
<1>1. ptr \in PAGE_PROGRAM .. PAGE_SIZE /\ length <= ptr /\ ptr + Len(bytes) <= PAGE_SIZE
  BY Pages DEF CanWrite
<1>2. \A j \in 1 .. Len(bytes) : bytes[j] \in Byte
  BY ElementOfSeq
<1>3. /\ data' = [a \in Short |-> IF a - ptr \in 0 .. Len(bytes) - 1 THEN bytes[a - ptr + 1] ELSE data[a]]
      /\ ptr' = ptr + Len(bytes)
      /\ length' = IF bytes[Len(bytes)] # 0 THEN ptr + Len(bytes) ELSE length
  BY DEF Write
<1>4. data' \in [Short -> Byte]
  <2> SUFFICES ASSUME NEW a \in Short PROVE data'[a] \in Byte
    BY <1>3
  <2>1. a \in Nat
    BY Pages DEF Short
  <2> QED
    BY <1>1, <1>2, <1>3, <2>1
<1>5. length' \in length .. PAGE_SIZE /\ ptr' \in Nat
  BY <1>1, <1>3, Pages
<1>6. Kept'
  <2> SUFFICES ASSUME NEW a \in Short, data'[a] # 0
               PROVE  a \in PAGE_PROGRAM .. length' - 1
    BY DEF Kept
  <2>1. a \in Nat
    BY Pages DEF Short
  <2>2. CASE a - ptr \in 0 .. Len(bytes) - 1
    <3>1. data'[a] = bytes[a - ptr + 1]
      BY <1>3, <2>2
    <3>2. bytes[Len(bytes)] # 0
      BY <1>1, <2>1, <2>2, <3>1
    <3> QED
      BY <1>1, <1>3, <2>1, <2>2, <3>2, Pages
  <2>3. CASE ~(a - ptr \in 0 .. Len(bytes) - 1)
    <3>1. data[a] # 0
      BY <1>3, <2>3
    <3>2. a \in PAGE_PROGRAM .. length - 1
      BY <3>1 DEF Kept
    <3>3. length \in Int /\ length' \in Int /\ length <= length'
      BY <1>5, Pages
    <3> QED
      <4>1. PAGE_PROGRAM \in Int
        BY Pages
      <4>2. PAGE_PROGRAM .. length - 1 \subseteq PAGE_PROGRAM .. length' - 1
        BY <3>3, <4>1, Longer
      <4> QED
        BY <3>2, <4>2
  <2> QED
    BY <2>2, <2>3
<1> QED
  BY <1>1, <1>3, <1>4, <1>5, <1>6

-----------------------------------------------------------------------------
(* What a step leaves alone.                                               *)

\* The references keep their places when the file only gets longer.
LEMMA RefsStay ==
  ASSUME RefsApart, length \in Int, length' \in Int, length <= length', UNCHANGED refs
  PROVE  RefsApart'
<1>0. PAGE_PROGRAM \in Int
  BY Pages
<1>1. PAGE_PROGRAM .. length - 1 \subseteq PAGE_PROGRAM .. length' - 1
  BY <1>0, Longer
<1>2. \A i \in DOMAIN refs : Place(refs[i]) \subseteq PAGE_PROGRAM .. length - 1
  BY DEF RefsApart
<1>3. \A i \in DOMAIN refs' : Place(refs'[i]) \subseteq PAGE_PROGRAM .. length' - 1
  BY <1>1, <1>2
<1>4. \A i, j \in DOMAIN refs' : i # j => Place(refs'[i]) \cap Place(refs'[j]) = {}
  BY DEF RefsApart
<1> QED
  BY <1>3, <1>4 DEF RefsApart

\* The image is as it was.
LEMMA ImageStays ==
  ASSUME Kept, RefsApart, length \in Int, UNCHANGED <<data, length, refs>>
  PROVE  Kept' /\ RefsApart'
<1>1. Kept'
  BY DEF Kept
<1>2. length' = length /\ length' \in Int /\ refs' = refs
  OBVIOUS
<1>3. RefsApart'
  BY <1>2, RefsStay
<1> QED
  BY <1>1, <1>3

\* The names mean what they did.
LEMMA NamesStay ==
  ASSUME OneMeaning, UNCHANGED <<labels, macros>>
  PROVE  OneMeaning'
BY DEF OneMeaning

-----------------------------------------------------------------------------
(* Names.                                                                  *)

\* A label is added when neither a label nor a macro has its name.
LEMMA LabelKeeps ==
  ASSUME AsmTypeOK, OneMeaning, NEW name, Full(name) \in Name, AddLabel(name), UNCHANGED macros
  PROVE  labels' \in Seq([name : Name, addr : Short]) /\ OneMeaning'
<1> DEFINE L == [name : Name, addr : Short]
           new == [name |-> Full(name), addr |-> ptr % PAGE_SIZE]
<1>1. new \in L
  BY Widths DEF AsmTypeOK
<1>2. labels \in Seq(L) /\ labels' = Append(labels, new)
  BY DEF AsmTypeOK, AddLabel
<1>3. /\ labels' \in Seq(L) /\ Len(labels') = Len(labels) + 1
      /\ \A i \in 1 .. Len(labels) : labels'[i] = labels[i]
      /\ labels'[Len(labels) + 1] = new
  BY <1>1, <1>2, AppendProperties
<1>4. /\ \A i \in DOMAIN macros : macros[i].name # new.name
      /\ \A i \in DOMAIN labels : labels[i].name # new.name
  BY DEF AddLabel, CanLabel, CanName, Named
<1>5. DOMAIN labels = 1 .. Len(labels) /\ DOMAIN labels' = 1 .. Len(labels) + 1
  BY <1>2, <1>3, LenProperties
<1> HIDE DEF L, new
<1>6. OneMeaning'
  BY <1>3, <1>4, <1>5 DEF OneMeaning
<1> QED
  BY <1>3, <1>6 DEF L

\* A macro is added when neither a label nor a macro has its name.
LEMMA MacroKeeps ==
  ASSUME AsmTypeOK, OneMeaning, NEW name \in Plain, NEW body \in Seq(Token), CanName(name),
         macros' = Append(macros, [name |-> name, body |-> body]), UNCHANGED labels
  PROVE  macros' \in Seq([name : Name, body : Seq(Token)]) /\ OneMeaning'
<1> DEFINE M == [name : Name, body : Seq(Token)]
           new == [name |-> name, body |-> body]
<1>1. new \in M /\ Full(name) = name
  BY FullIsPlain DEF Name
<1>2. macros \in Seq(M) /\ macros' = Append(macros, new)
  BY DEF AsmTypeOK
<1>3. /\ macros' \in Seq(M) /\ Len(macros') = Len(macros) + 1
      /\ \A i \in 1 .. Len(macros) : macros'[i] = macros[i]
      /\ macros'[Len(macros) + 1] = new
  BY <1>1, <1>2, AppendProperties
<1>4. /\ \A i \in DOMAIN macros : macros[i].name # new.name
      /\ \A i \in DOMAIN labels : labels[i].name # new.name
  BY <1>1 DEF CanName, Named
<1>5. DOMAIN macros = 1 .. Len(macros) /\ DOMAIN macros' = 1 .. Len(macros) + 1
  BY <1>2, <1>3, LenProperties
<1> HIDE DEF M, new
<1>6. OneMeaning'
  BY <1>3, <1>4, <1>5 DEF OneMeaning
<1> QED
  BY <1>3, <1>6 DEF M

-----------------------------------------------------------------------------
(* References.                                                             *)

\* A reference is put where the image is written next, and so after those that were put
\* before it.
LEMMA RefKeeps ==
  ASSUME AsmTypeOK, RefsApart, NEW name \in Name, NEW rune \in Runes, rune = token.rune,
         AddRef(name),
         CanWrite(Len(Placeholder(rune))),
         length' = ptr + Len(Placeholder(rune))
  PROVE  refs' \in Seq([name : Name, rune : Runes, addr : Short]) /\ RefsApart'
<1> DEFINE R == [name : Name, rune : Runes, addr : Short]
           new == [name |-> name, rune |-> rune, addr |-> RefAddr(rune) % PAGE_SIZE]
<1>1. ptr \in Nat /\ length \in 0 .. PAGE_SIZE
  BY DEF AsmTypeOK
<1>2. RefAddr(rune) = ptr + (IF rune \in DOMAIN Opening THEN 1 ELSE 0)
  BY <1>1 DEF RefAddr
<1>3. RefAddr(rune) + Width(rune) = length' /\ ptr <= RefAddr(rune) /\ Width(rune) \in {1, 2}
  BY <1>1, <1>2, Placeholders
<1>4. PAGE_PROGRAM <= ptr /\ length <= ptr /\ length' <= PAGE_SIZE
  BY DEF CanWrite
<1>5. RefAddr(rune) \in Short
  BY <1>1, <1>2, <1>3, <1>4, Pages DEF Short
<1>6. new \in R /\ new.addr = RefAddr(rune) /\ new.rune = rune
  BY <1>5, Widths DEF Short
<1>7. refs \in Seq(R) /\ refs' = Append(refs, new)
  BY DEF AsmTypeOK, AddRef
<1>8. /\ refs' \in Seq(R) /\ Len(refs') = Len(refs) + 1
      /\ \A i \in 1 .. Len(refs) : refs'[i] = refs[i]
      /\ refs'[Len(refs) + 1] = new
  BY <1>6, <1>7, AppendProperties
<1>9. DOMAIN refs = 1 .. Len(refs) /\ DOMAIN refs' = 1 .. Len(refs) + 1
  BY <1>7, <1>8, LenProperties
<1>10. length \in Int /\ length' \in Int /\ ptr \in Int /\ PAGE_PROGRAM \in Int /\ length <= length'
  BY <1>1, <1>3, <1>4, <1>5, Pages DEF Short
<1>11. Place(new) = RefAddr(rune) .. length' - 1
  BY <1>3, <1>5, <1>6, <1>10 DEF Place, Short
<1>12. Place(new) \subseteq PAGE_PROGRAM .. length' - 1
  BY <1>3, <1>4, <1>5, <1>10, <1>11 DEF Short
<1>13. \A i \in DOMAIN refs : /\ Place(refs[i]) \subseteq PAGE_PROGRAM .. length - 1
                              /\ Place(refs[i]) \cap Place(new) = {}
  <2> SUFFICES ASSUME NEW i \in DOMAIN refs
               PROVE  /\ Place(refs[i]) \subseteq PAGE_PROGRAM .. length - 1
                      /\ Place(refs[i]) \cap Place(new) = {}
    OBVIOUS
  <2>1. Place(refs[i]) \subseteq PAGE_PROGRAM .. length - 1
    BY DEF RefsApart
  <2>2. (PAGE_PROGRAM .. length - 1) \cap (RefAddr(rune) .. length' - 1) = {}
    BY <1>3, <1>4, <1>5, <1>10 DEF Short
  <2> QED
    BY <1>11, <2>1, <2>2
<1>14. PAGE_PROGRAM .. length - 1 \subseteq PAGE_PROGRAM .. length' - 1
  BY <1>10, Longer
<1>15. \A i \in DOMAIN refs' : Place(refs'[i]) \subseteq PAGE_PROGRAM .. length' - 1
  <2> SUFFICES ASSUME NEW i \in DOMAIN refs'
               PROVE  Place(refs'[i]) \subseteq PAGE_PROGRAM .. length' - 1
    OBVIOUS
  <2>1. CASE i \in DOMAIN refs
    BY <1>8, <1>9, <1>13, <1>14, <2>1
  <2>2. CASE i = Len(refs) + 1
    BY <1>8, <1>12, <2>2
  <2> QED
    BY <1>9, <2>1, <2>2, <1>7, LenProperties
<1>16. \A i, j \in DOMAIN refs' : i # j => Place(refs'[i]) \cap Place(refs'[j]) = {}
  <2> SUFFICES ASSUME NEW i \in DOMAIN refs', NEW j \in DOMAIN refs', i # j
               PROVE  Place(refs'[i]) \cap Place(refs'[j]) = {}
    OBVIOUS
  <2>1. CASE i \in DOMAIN refs /\ j \in DOMAIN refs
    <3>1. Place(refs[i]) \cap Place(refs[j]) = {}
      BY <2>1 DEF RefsApart
    <3> QED
      BY <1>8, <1>9, <2>1, <3>1
  <2>2. CASE i = Len(refs) + 1 /\ j \in DOMAIN refs
    BY <1>8, <1>9, <1>13, <2>2
  <2>3. CASE j = Len(refs) + 1 /\ i \in DOMAIN refs
    BY <1>8, <1>9, <1>13, <2>3
  <2>4. Len(refs) \in Nat /\ i \in 1 .. Len(refs) + 1 /\ j \in 1 .. Len(refs) + 1
    BY <1>7, <1>9, LenProperties
  <2>5. (i \in 1 .. Len(refs) \/ i = Len(refs) + 1) /\ (j \in 1 .. Len(refs) \/ j = Len(refs) + 1)
    BY <2>4
  <2> QED
    BY <1>9, <2>1, <2>2, <2>3, <2>5
<1>17. RefsApart'
  BY <1>15, <1>16 DEF RefsApart
<1> QED
  BY <1>8, <1>17

\* What resolve writes lies where a reference was put, in the file, and so every byte that
\* was laid out stays in it.
LEMMA ResolveKeeps ==
  ASSUME AsmTypeOK, Kept, RefsApart, ResolveRef
  PROVE  data' \in [Short -> Byte] /\ Kept'
<1> DEFINE place == Place(ref)
<1>1. resolved + 1 \in DOMAIN refs /\ ref \in [name : Name, rune : Runes, addr : Short]
  <2>1. refs \in Seq([name : Name, rune : Runes, addr : Short]) /\ resolved \in 0 .. Len(refs)
    BY DEF AsmTypeOK
  <2>2. resolved < Len(refs)
    BY DEF ResolveRef, Resolving
  <2>3. resolved + 1 \in 1 .. Len(refs) /\ DOMAIN refs = 1 .. Len(refs)
    BY <2>1, <2>2, LenProperties
  <2> QED
    BY <2>1, <2>3, ElementOfSeq DEF ref
<1>2. place \subseteq PAGE_PROGRAM .. length - 1
  BY <1>1 DEF RefsApart, ref
<1>3. Label(ref).addr \in Int
  <2>1. PICK i \in DOMAIN labels : Label(ref) = labels[i]
    BY Found DEF ResolveRef, Known, Label
  <2>2. labels \in Seq([name : Name, addr : Short])
    BY DEF AsmTypeOK
  <2>3. labels[i] \in [name : Name, addr : Short]
    BY <2>1, <2>2, ElementOfSeq, LenProperties
  <2> QED
    BY <2>1, <2>3, Pages DEF Short
<1>4. ref.addr \in Int /\ ref.rune \in Runes
  BY <1>1, Pages DEF Short
<1>5. Rel(ref) \in Int
  BY <1>3, <1>4 DEF Rel
<1>6. Width(ref.rune) \in {1, 2} /\ \A j \in 0 .. Width(ref.rune) - 1 : Value(ref)[j + 1] \in Byte
  <2>1. CASE ref.rune \in Relative
    <3>1. Value(ref) = <<Rel(ref) % B>> /\ Width(ref.rune) = 1
      BY <2>1 DEF Value, Width, Relative, LowByte, Absolute, Distance
    <3> QED
      BY <1>5, <3>1, Widths
  <2>2. CASE ref.rune \in LowByte
    <3>1. Value(ref) = <<Lo(Label(ref).addr)>> /\ Width(ref.rune) = 1
      BY <2>2 DEF Value, Width, Relative, LowByte, Absolute, Distance
    <3> QED
      BY <1>3, <3>1, Widths
  <2>3. CASE ref.rune \in Absolute
    <3>1. Value(ref) = <<Hi(Label(ref).addr), Lo(Label(ref).addr)>> /\ Width(ref.rune) = 2
      BY <2>3 DEF Value, Width, Relative, LowByte, Absolute, Distance
    <3> QED
      BY <1>3, <3>1, Widths
  <2>4. CASE ref.rune \in Distance
    <3>1. Value(ref) = <<Hi(Rel(ref)), Lo(Rel(ref))>> /\ Width(ref.rune) = 2
      BY <2>4 DEF Value, Width, Relative, LowByte, Absolute, Distance
    <3> QED
      BY <1>5, <3>1, Widths
  <2> QED
    BY <1>4, <2>1, <2>2, <2>3, <2>4 DEF Runes
<1>7. /\ data' = [a \in Short |-> IF a - ref.addr \in 0 .. Width(ref.rune) - 1
                                    THEN Value(ref)[a - ref.addr + 1] ELSE data[a]]
      /\ length' = length
  BY DEF ResolveRef
<1>8. data \in [Short -> Byte]
  BY DEF AsmTypeOK
<1>9. data' \in [Short -> Byte]
  BY <1>6, <1>7, <1>8
<1>10. ASSUME NEW a \in Short, data'[a] # 0 PROVE a \in PAGE_PROGRAM .. length' - 1
  <2>1. a \in Int
    BY Pages DEF Short
  <2>2. CASE a - ref.addr \in 0 .. Width(ref.rune) - 1
    <3>1. a \in ref.addr .. ref.addr + Width(ref.rune) - 1
      BY <1>4, <1>6, <2>1, <2>2
    <3>2. a \in place
      BY <3>1 DEF Place
    <3> QED
      BY <1>2, <1>7, <3>2
  <2>3. CASE ~(a - ref.addr \in 0 .. Width(ref.rune) - 1)
    <3>1. data[a] # 0
      BY <1>7, <1>10, <2>3
    <3> QED
      BY <1>7, <3>1 DEF Kept
  <2> QED
    BY <2>2, <2>3
<1> QED
  BY <1>9, <1>10 DEF Kept

-----------------------------------------------------------------------------
(* The steps.                                                              *)

\* The token that is read, and what is left when it is.
LEMMA Reads ==
  ASSUME AsmTypeOK, NEW runes, Reading(runes)
  PROVE  /\ token \in Token /\ token.rune \in runes
         /\ Tail(todo) \in Seq(Token) /\ Len(Tail(todo)) + 1 = Len(todo)
BY HeadTailProperties, LenProperties DEF AsmTypeOK, Reading, token

\* The image is sound when a source is given.
LEMMA Starts == AsmInit => ImageSound
<1> SUFFICES ASSUME AsmInit PROVE ImageSound
  OBVIOUS
<1>1. Sources \subseteq Seq(Token)
  BY SourcesAssumption
<1>2. 0 \in Byte /\ 0 \in Short /\ PAGE_PROGRAM \in Nat /\ 0 \in 0 .. PAGE_SIZE
  BY Pages DEF Byte, Short
<1>3. todo \in Seq(Token)
  BY <1>1 DEF AsmInit
<1>4. <<>> \in Seq([name : Name, addr : Short]) /\ Len(<<>>) = 0
      /\ <<>> \in Seq([name : Name, rune : Runes, addr : Short])
      /\ <<>> \in Seq([name : Name, body : Seq(Token)]) /\ <<>> \in Seq(Byte)
  BY EmptySeq
<1>5. AsmTypeOK
  <2>1. /\ data \in [Short -> Byte] /\ lambda_stack \in [Byte -> Byte]
        /\ scope \in Words /\ phase = "parse"
        /\ ptr \in Nat /\ length \in 0 .. PAGE_SIZE /\ lambda_ptr \in Byte /\ lambda_len \in Byte
    BY <1>2, SourcesAssumption DEF AsmInit
  <2>2. labels = <<>> /\ refs = <<>> /\ macros = <<>> /\ rom = <<>> /\ resolved = 0
    BY DEF AsmInit
  <2>3. resolved \in 0 .. Len(refs)
    BY <1>4, <2>2
  <2> QED
    BY <1>3, <1>4, <2>1, <2>2, <2>3 DEF AsmTypeOK
<1> QED
  BY <1>5 DEF AsmInit, ImageSound, Kept, RefsApart, OneMeaning

\* A byte is written.
LEMMA HexStep == ImageSound /\ WriteHex => ImageSound'
<1> SUFFICES ASSUME AsmTypeOK, Kept, RefsApart, OneMeaning, WriteHex PROVE ImageSound'
  BY DEF ImageSound
<1> USE DEF WriteHex
<1>1. token.hex \in Byte /\ Tail(todo) \in Seq(Token)
  BY Reads, TokenParts
<1>2. data \in [Short -> Byte] /\ ptr \in Nat /\ length \in 0 .. PAGE_SIZE
  BY DEF AsmTypeOK
<1>3. data' \in [Short -> Byte] /\ ptr' \in Nat /\ length' \in length .. PAGE_SIZE /\ Kept'
  <2> DEFINE bytes == <<token.hex>>
  <2>1. bytes \in Seq(Byte) /\ Len(bytes) = 1
    BY <1>1
  <2>2. CanWrite(1) /\ Write(bytes)
    OBVIOUS
  <2>3. CanWrite(Len(bytes)) /\ Len(bytes) \in Nat \ {0}
    BY <2>1, <2>2
  <2> HIDE DEF bytes
  <2> QED
    BY <1>2, <2>1, <2>2, <2>3, WriteKeeps
<1>4. AsmTypeOK'
  BY <1>1, <1>2, <1>3, Pages DEF AsmTypeOK, names, lambdas
<1>5. RefsApart'
  BY <1>2, <1>3, RefsStay, Pages
<1>6. OneMeaning'
  BY NamesStay DEF names
<1> QED
  BY <1>3, <1>4, <1>5, <1>6 DEF ImageSound

\* A pad moves where the image is written next.
LEMMA PadStep == ImageSound /\ WritePad => ImageSound'
<1> SUFFICES ASSUME AsmTypeOK, Kept, RefsApart, OneMeaning, WritePad PROVE ImageSound'
  BY DEF ImageSound
<1>1. /\ token \in Token /\ token.rune \in {"$", "|"} /\ CanPad
      /\ todo' = Tail(todo) /\ Tail(todo) \in Seq(Token)
  BY Reads DEF WritePad
<1>3. ptr' \in Nat
  <2> DEFINE distance == IF IsHex(token) THEN token.hex ELSE Find(labels, token.name).addr
  <2>1. distance \in Nat
    <3>1. CASE IsHex(token)
      BY <1>1, <3>1, TokenParts, Pages DEF IsHex, Short
    <3>2. CASE ~IsHex(token)
      <4>1. PICK i \in DOMAIN labels : Find(labels, token.name) = labels[i]
        BY <1>1, <3>2, Found DEF CanPad
      <4>2. labels[i] \in [name : Name, addr : Short]
        <5>1. labels \in Seq([name : Name, addr : Short])
          BY DEF AsmTypeOK
        <5> QED
          BY <4>1, <5>1, ElementOfSeq, LenProperties
      <4> QED
        BY <3>2, <4>1, <4>2, Pages DEF Short
    <3> QED
      BY <3>1, <3>2
  <2>2. ptr' = (IF token.rune = "$" THEN ptr ELSE 0) + distance
    BY DEF WritePad
  <2> QED
    BY <2>1, <2>2 DEF AsmTypeOK
<1>4. AsmTypeOK'
  BY <1>1, <1>3 DEF AsmTypeOK, WritePad, names, lambdas
<1>5. Kept' /\ RefsApart'
  BY ImageStays DEF WritePad, AsmTypeOK
<1>6. OneMeaning'
  BY NamesStay DEF WritePad, names
<1> QED
  BY <1>4, <1>5, <1>6 DEF ImageSound

\* A label is made.
LEMMA LabelStep == ImageSound /\ MakeLabel => ImageSound'
<1> SUFFICES ASSUME AsmTypeOK, Kept, RefsApart, OneMeaning, MakeLabel PROVE ImageSound'
  BY DEF ImageSound
<1>1. /\ token \in Token /\ token.rune \in {"@", "&"}
      /\ todo' = Tail(todo) /\ Tail(todo) \in Seq(Token)
  BY Reads DEF MakeLabel
<1>2. scope \in Words
  BY DEF AsmTypeOK
<1>3. Full(token.name) \in Plain /\ Full(token.name)[1] \in Words
  BY <1>1, <1>2, TokenParts, FullNames
<1>4. scope' \in Words
  BY <1>2, <1>3 DEF MakeLabel
<1>5. labels' \in Seq([name : Name, addr : Short]) /\ OneMeaning'
  BY <1>3, LabelKeeps DEF MakeLabel, Name
<1>6. AsmTypeOK'
  BY <1>1, <1>4, <1>5 DEF AsmTypeOK, MakeLabel, out, lambdas
<1>7. Kept' /\ RefsApart'
  BY ImageStays DEF MakeLabel, AsmTypeOK, out
<1> QED
  BY <1>5, <1>6, <1>7 DEF ImageSound

\* A lambda is closed, and gets its label.
LEMMA CloseStep == ImageSound /\ CloseLambda => ImageSound'
<1> SUFFICES ASSUME AsmTypeOK, Kept, RefsApart, OneMeaning, CloseLambda PROVE ImageSound'
  BY DEF ImageSound
<1>1. todo' = Tail(todo) /\ Tail(todo) \in Seq(Token)
  BY Reads DEF CloseLambda
<1>2. lambda_ptr' \in Byte
  <2>1. lambda_ptr - 1 \in Int
    BY Pages DEF AsmTypeOK, Byte
  <2> QED
    BY <2>1, Widths DEF CloseLambda
<1>3. Full(Lambda(lambda_stack[lambda_ptr'])) \in Name
  BY <1>2, LambdaNames DEF AsmTypeOK
<1>4. labels' \in Seq([name : Name, addr : Short]) /\ OneMeaning'
  BY <1>3, LabelKeeps DEF CloseLambda
<1>5. AsmTypeOK'
  BY <1>1, <1>2, <1>4 DEF AsmTypeOK, CloseLambda, out
<1>6. Kept' /\ RefsApart'
  <2>1. UNCHANGED <<data, length, refs>>
    BY DEF CloseLambda, out
  <2>2. length \in Int
    BY Pages DEF AsmTypeOK
  <2> QED
    BY <2>1, <2>2, ImageStays
<1> QED
  BY <1>4, <1>5, <1>6 DEF ImageSound

\* A reference is put into the image.
LEMMA RefStep == ImageSound /\ MakeRef => ImageSound'
<1> SUFFICES ASSUME AsmTypeOK, Kept, RefsApart, OneMeaning, MakeRef PROVE ImageSound'
  BY DEF ImageSound
<1> DEFINE rune == token.rune
           bytes == Placeholder(rune)
<1>1. /\ token \in Token /\ rune \in Runes
      /\ todo' = Tail(todo) /\ Tail(todo) \in Seq(Token)
  BY Reads DEF MakeRef
<1>2. scope \in Words /\ lambda_stack \in [Byte -> Byte] /\ lambda_ptr \in Byte /\ lambda_len \in Byte
  BY DEF AsmTypeOK
<1>3. data \in [Short -> Byte] /\ ptr \in Nat /\ length \in 0 .. PAGE_SIZE
  BY DEF AsmTypeOK
<1>4. bytes \in Seq(Byte) /\ Len(bytes) \in Nat \ {0} /\ bytes[Len(bytes)] # 0
  BY <1>1, Placeholders, ByteAssumption
<1>5. CanWrite(Len(bytes)) /\ Write(bytes)
  BY DEF MakeRef, CanRef
<1>6. /\ data' \in [Short -> Byte] /\ ptr' \in Nat /\ length' \in length .. PAGE_SIZE /\ Kept'
      /\ length' = ptr + Len(bytes)
  <2> HIDE DEF bytes
  <2> QED
    BY <1>3, <1>4, <1>5, WriteKeeps
<1>7. PICK name \in Name : AddRef(name)
  <2>1. CASE token.name[1] = "{"
    BY <1>2, <2>1, LambdaNames DEF MakeRef
  <2>2. CASE token.name[1] # "{"
    <3>1. token.name \in Plain \cup Child \cup {Brace}
      BY <1>1, TokenParts
    <3>2. token.name # Brace
      <4>1. Brace[1] = "{"
        BY DEF Brace, Lambda
      <4> QED
        BY <2>2, <4>1
    <3>3. Full(token.name) \in Name
      BY <1>2, <3>1, <3>2, FullNames DEF Name
    <3> QED
      BY <2>2, <3>3 DEF MakeRef
  <2> QED
    BY <2>1, <2>2
<1>8. refs' \in Seq([name : Name, rune : Runes, addr : Short]) /\ RefsApart'
  BY <1>1, <1>5, <1>6, <1>7, RefKeeps
<1>9. lambda_stack' \in [Byte -> Byte] /\ lambda_ptr' \in Byte /\ lambda_len' \in Byte
  <2>1. (lambda_ptr + 1) % B \in Byte /\ (lambda_len + 1) % B \in Byte
    <3>1. lambda_ptr + 1 \in Int /\ lambda_len + 1 \in Int
      BY <1>2, Pages DEF Byte
    <3> QED
      BY <3>1, Widths
  <2> QED
    BY <1>2, <2>1 DEF MakeRef, lambdas
<1>10. resolved' \in 0 .. Len(refs')
  <2>1. Len(refs') = Len(refs) + 1 /\ Len(refs) \in Nat
    <3> DEFINE R == [name : Name, rune : Runes, addr : Short]
    <3>1. refs \in Seq(R) /\ refs' \in Seq(R)
      BY <1>8 DEF AsmTypeOK
    <3> QED
      BY <1>7, <3>1, LenProperties DEF AddRef
  <2>2. resolved \in 0 .. Len(refs) /\ resolved' = resolved
    BY DEF MakeRef, AsmTypeOK
  <2> QED
    BY <2>1, <2>2
<1>11. AsmTypeOK'
  <2>1. length' \in 0 .. PAGE_SIZE
    BY <1>3, <1>6, Pages
  <2> QED
    BY <1>1, <1>6, <1>8, <1>9, <1>10, <2>1 DEF AsmTypeOK, MakeRef, names
<1>12. OneMeaning'
  BY NamesStay DEF MakeRef, names
<1> QED
  BY <1>6, <1>8, <1>11, <1>12 DEF ImageSound

\* A macro is made.
LEMMA MacroStep == ImageSound /\ MakeMacro => ImageSound'
<1> SUFFICES ASSUME AsmTypeOK, Kept, RefsApart, OneMeaning, MakeMacro PROVE ImageSound'
  BY DEF ImageSound
<1> DEFINE rest == Tail(todo)
<1>1. /\ token \in Token /\ token.rune = "%"
      /\ rest \in Seq(Token) /\ Len(rest) + 1 = Len(todo)
  BY Reads DEF MakeMacro
<1>2. PICK k \in 1 .. Len(todo) :
        /\ CanMacro(token.name, rest, k)
        /\ macros' = Append(macros, [name |-> token.name, body |-> Body(rest, k, token.glued)])
        /\ todo' = SubSeq(rest, k + 1, Len(rest))
  BY DEF MakeMacro
<1>3. k \in 1 .. Len(rest) + 1 /\ Len(rest) \in Nat
  BY <1>1, LenProperties
<1>4. \A i \in 1 .. Len(rest) : rest[i] \in Token
  BY <1>1, ElementOfSeq
<1> HIDE DEF rest
<1>5. \A m \in Int, n \in Int : 1 <= m /\ n <= Len(rest) => SubSeq(rest, m, n) \in Seq(Token)
  <2> SUFFICES ASSUME NEW m \in Int, NEW n \in Int, 1 <= m, n <= Len(rest)
               PROVE  SubSeq(rest, m, n) \in Seq(Token)
    OBVIOUS
  <2>1. \A i \in m .. n : i \in 1 .. Len(rest)
    BY <1>3
  <2>2. \A i \in m .. n : rest[i] \in Token
    BY <1>4, <2>1
  <2> QED
    BY <2>2, SubSeqProperties
<1>6. todo' \in Seq(Token)
  <2>1. k + 1 \in Int /\ 1 <= k + 1 /\ Len(rest) \in Int /\ Len(rest) <= Len(rest)
    BY <1>3
  <2>2. SubSeq(rest, k + 1, Len(rest)) \in Seq(Token)
    BY <1>5, <2>1
  <2> QED
    BY <1>2, <2>2
<1>7. Body(rest, k, token.glued) \in Seq(Token)
  <2>1. k - 1 \in Int /\ k - 1 <= Len(rest) /\ k - 2 \in Int /\ k - 2 <= Len(rest)
    BY <1>3
  <2> QED
    BY <1>5, <2>1 DEF Body
<1>8. token.name \in Plain
  BY <1>1, TokenParts
<1>9. macros' \in Seq([name : Name, body : Seq(Token)]) /\ OneMeaning'
  BY <1>2, <1>7, <1>8, MacroKeeps DEF CanMacro, MakeMacro
<1>10. AsmTypeOK'
  BY <1>6, <1>9 DEF AsmTypeOK, MakeMacro, out, lambdas
<1>11. Kept' /\ RefsApart'
  <2>1. UNCHANGED <<data, length, refs>>
    BY DEF MakeMacro, out
  <2>2. length \in Int
    BY Pages DEF AsmTypeOK
  <2> QED
    BY <2>1, <2>2, ImageStays
<1> QED
  BY <1>9, <1>10, <1>11 DEF ImageSound

\* A macro is put in place of its name.
LEMMA WalkStep == ImageSound /\ WalkMacro => ImageSound'
<1> SUFFICES ASSUME AsmTypeOK, Kept, RefsApart, OneMeaning, WalkMacro PROVE ImageSound'
  BY DEF ImageSound
<1>1. Tail(todo) \in Seq(Token)
  BY Reads DEF WalkMacro
<1>2. PICK i \in DOMAIN macros : Find(macros, token.name) = macros[i]
  BY Found DEF WalkMacro
<1>3. macros[i].body \in Seq(Token)
  <2>1. macros \in Seq([name : Name, body : Seq(Token)])
    BY DEF AsmTypeOK
  <2>2. macros[i] \in [name : Name, body : Seq(Token)]
    BY <2>1, ElementOfSeq, LenProperties
  <2> QED
    BY <2>2
<1>4. todo' \in Seq(Token)
  BY <1>1, <1>2, <1>3, ConcatProperties DEF WalkMacro
<1>5. UNCHANGED <<phase, out, names, refs, lambdas, resolved, rom>>
  BY DEF WalkMacro
<1>6. AsmTypeOK'
  BY <1>4, <1>5 DEF AsmTypeOK, out, names, lambdas
<1>7. Kept' /\ RefsApart'
  <2>1. UNCHANGED <<data, length, refs>>
    BY <1>5 DEF out
  <2>2. length \in Int
    BY Pages DEF AsmTypeOK
  <2> QED
    BY <2>1, <2>2, ImageStays
<1>8. OneMeaning'
  BY <1>5, NamesStay DEF names
<1> QED
  BY <1>6, <1>7, <1>8 DEF ImageSound

\* A step that changes neither the image nor what it is made from, and goes on or ends.
LEMMA OtherStep ==
  ASSUME ImageSound, UNCHANGED <<todo, out, names, refs, lambdas, resolved>>,
         phase' \in {"parse", "resolve", "built", "failed"}, rom' \in Seq(Byte)
  PROVE  ImageSound'
<1>1. AsmTypeOK'
  BY DEF AsmTypeOK, ImageSound, out, names, lambdas
<1>2. Kept' /\ RefsApart'
  <2>1. UNCHANGED <<data, length, refs>>
    BY DEF out
  <2>2. length \in Int /\ Kept /\ RefsApart
    BY Pages DEF AsmTypeOK, ImageSound
  <2> QED
    BY <2>1, <2>2, ImageStays
<1>3. OneMeaning'
  BY NamesStay DEF names, ImageSound
<1> QED
  BY <1>1, <1>2, <1>3 DEF ImageSound

\* A reference is resolved.
LEMMA ResolveStep == ImageSound /\ ResolveRef => ImageSound'
<1> SUFFICES ASSUME AsmTypeOK, Kept, RefsApart, OneMeaning, ResolveRef PROVE ImageSound'
  BY DEF ImageSound
<1>1. data' \in [Short -> Byte] /\ Kept'
  BY ResolveKeeps
<1>2. resolved' \in 0 .. Len(refs)
  <2>1. resolved \in 0 .. Len(refs) /\ resolved < Len(refs) /\ Len(refs) \in Nat
    BY LenProperties DEF AsmTypeOK, ResolveRef, Resolving
  <2> QED
    BY <2>1 DEF ResolveRef
<1>3. UNCHANGED <<phase, todo, ptr, length, names, refs, lambdas, rom>>
  BY DEF ResolveRef
<1>4. AsmTypeOK'
  BY <1>1, <1>2, <1>3 DEF AsmTypeOK, names, lambdas
<1>5. RefsApart'
  <2>1. length \in Int /\ length' = length /\ refs' = refs
    BY <1>3, Pages DEF AsmTypeOK
  <2> QED
    BY <2>1, RefsStay
<1>6. OneMeaning'
  BY <1>3, NamesStay DEF names
<1> QED
  BY <1>1, <1>4, <1>5, <1>6 DEF ImageSound

\* The file is bytes of the image.
LEMMA BuildStep == ImageSound /\ Build => ImageSound'
<1> SUFFICES ASSUME ImageSound, Build PROVE ImageSound'
  OBVIOUS
<1> DEFINE file == [a \in 1 .. PAGE_SIZE |-> data[a - 1]]
<1>1. data \in [Short -> Byte] /\ length \in 0 .. PAGE_SIZE
  BY DEF ImageSound, AsmTypeOK
<1>2. \A i \in PAGE_PROGRAM + 1 .. length : file[i] \in Byte
  <2> SUFFICES ASSUME NEW i \in PAGE_PROGRAM + 1 .. length PROVE file[i] \in Byte
    OBVIOUS
  <2>1. i \in 1 .. PAGE_SIZE /\ i - 1 \in Short
    BY <1>1, Pages DEF Short
  <2> QED
    BY <1>1, <2>1
<1> HIDE DEF file
<1>3. SubSeq(file, PAGE_PROGRAM + 1, length) \in Seq(Byte)
  <2>1. PAGE_PROGRAM + 1 \in Int /\ length \in Int
    BY <1>1, Pages
  <2> QED
    BY <1>2, <2>1, SubSeqProperties
<1>4. rom' \in Seq(Byte)
  BY <1>3 DEF Build, file
<1> QED
  BY <1>4, OtherStep DEF Build

-----------------------------------------------------------------------------

\* Whatever source is assembled, the image is sound: every byte that is not zero is in the
\* file, the places of references lie in it and do not overlap, and a name means one thing.
THEOREM ImageKept == AsmSpec => []ImageSound
<1>1. AsmInit => ImageSound
  BY Starts
<1>2. ImageSound /\ [AsmNext]_asm => ImageSound'
  <2> SUFFICES ASSUME ImageSound, [AsmNext]_asm PROVE ImageSound'
    OBVIOUS
  <2>1. phase \in {"parse", "resolve", "built", "failed"} /\ rom \in Seq(Byte)
    BY DEF ImageSound, AsmTypeOK
  <2>2. CASE WriteHex
    BY <2>2, HexStep
  <2>3. CASE WritePad
    BY <2>3, PadStep
  <2>4. CASE MakeLabel
    BY <2>4, LabelStep
  <2>5. CASE CloseLambda
    BY <2>5, CloseStep
  <2>6. CASE MakeRef
    BY <2>6, RefStep
  <2>7. CASE MakeMacro
    BY <2>7, MacroStep
  <2>8. CASE WalkMacro
    BY <2>8, WalkStep
  <2>9. CASE ErrorAsm
    BY <2>1, <2>9, OtherStep DEF ErrorAsm, Fails
  <2>10. CASE ParseEnds
    BY <2>1, <2>10, OtherStep DEF ParseEnds
  <2>11. CASE ResolveRef
    BY <2>11, ResolveStep
  <2>12. CASE ErrorRef
    BY <2>1, <2>12, OtherStep DEF ErrorRef, Fails
  <2>13. CASE Build
    BY <2>13, BuildStep
  <2>14. CASE UNCHANGED asm
    BY <2>1, <2>14, OtherStep DEF asm
  <2> QED
    BY <2>2, <2>3, <2>4, <2>5, <2>6, <2>7, <2>8, <2>9, <2>10, <2>11, <2>12, <2>13, <2>14 DEF AsmNext
<1> QED
  BY <1>1, <1>2, PTL DEF AsmSpec
-----------------------------------------------------------------------------
(* Lambdas.                                                                *)

\* The lambda with number id has its label.
Ended(id) == \E l \in DOMAIN labels : labels[l].name = Lambda(id)

\* The k-th place of the stack, which begins at 0, or at the last place if a brace closed
\* before any lambda was opened.
Slot(base, k) == IF base = 0 THEN k ELSE IF k = 0 THEN B - 1 ELSE k - 1

\* n lambdas were opened, and have the numbers up to n in their order.
Opened(n) ==
  /\ lambda_len = n % B
  /\ \A i \in DOMAIN refs : IsLambda(refs[i]) => \E id \in 0 .. n - 1 : refs[i].name = Lambda(id)
  /\ \A id \in 0 .. n - 1 : \E i \in DOMAIN refs : refs[i].name = Lambda(id)
  /\ \A i, j \in DOMAIN refs : \A a, b \in 0 .. n - 1 :
       refs[i].name = Lambda(a) /\ refs[j].name = Lambda(b) /\ i < j => a < b

\* d of them are on the stack, the last one on top.
OnStack(n, base, d) ==
  /\ lambda_ptr = IF d = B THEN base ELSE Slot(base, d)
  /\ \A k \in 0 .. d - 1 : lambda_stack[Slot(base, k)] \in 0 .. n - 1
  /\ \A k, l \in 0 .. d - 1 : k < l => lambda_stack[Slot(base, k)] < lambda_stack[Slot(base, l)]
  /\ \A x \in Byte : lambda_stack[x] = 0 \/ lambda_stack[x] \in 0 .. n - 1

\* Those that have not ended are among them.
Pending(n, base, d) ==
  /\ \A id \in 0 .. n - 1 : ~Ended(id) => \E k \in 0 .. d - 1 : lambda_stack[Slot(base, k)] = id
  /\ base # 0 => Ended(0)

Stacked ==
  \E n \in 0 .. B : \E base \in {0, B - 1} : \E d \in 0 .. n :
    Opened(n) /\ OnStack(n, base, d) /\ Pending(n, base, d)

LambdaInv == OneNumber => Stacked

\* The places of the stack are its own, and one after the other.
LEMMA Slots ==
  ASSUME NEW base \in {0, B - 1}
  PROVE  /\ \A k \in 0 .. B - 1 : Slot(base, k) \in Byte
         /\ \A k, l \in 0 .. B - 1 : Slot(base, k) = Slot(base, l) => k = l
         /\ \A k \in 0 .. B - 1 :
              (Slot(base, k) + 1) % B = IF k + 1 = B THEN base ELSE Slot(base, k + 1)
         /\ \A k \in 1 .. B : ((IF k = B THEN base ELSE Slot(base, k)) - 1) % B = Slot(base, k - 1)
         /\ (base - 1) % B = IF base = 0 THEN B - 1 ELSE B - 2
<1>1. B \in Nat /\ B >= 16
  BY ByteAssumption
<1>2. \A x \in 0 .. B - 1 : x % B = x
  BY <1>1, Remainder
<1>3. B % B = 0 /\ (0 - 1) % B = B - 1
  BY <1>1
<1>4. CASE base = 0
  BY <1>1, <1>2, <1>3, <1>4 DEF Slot, Byte
<1>5. CASE base = B - 1
  BY <1>1, <1>2, <1>3, <1>5 DEF Slot, Byte
<1> QED
  BY <1>4, <1>5

\* Names of lambdas are told apart by their numbers, and from other names.
LEMMA LambdasApart ==
  /\ \A a, b : Lambda(a) = Lambda(b) => a = b
  /\ \A id, n : n[1] \in Words => n # Lambda(id)
  /\ \A id : Lambda(id)[1] = "{" /\ Full(Lambda(id)) = Lambda(id)
<1>1. \A id : Lambda(id)[1] = "{" /\ Lambda(id)[3] = id
  BY DEF Lambda
<1>2. "{" \notin Words
  BY SourcesAssumption
<1>3. \A id : Full(Lambda(id)) = Lambda(id)
  BY <1>1 DEF Full
<1>4. ASSUME NEW a, NEW b, Lambda(a) = Lambda(b) PROVE a = b
  <2>1. Lambda(a)[3] = a
    BY ONLY <1>1
  <2>2. Lambda(b)[3] = b
    BY ONLY <1>1
  <2> QED
    BY ONLY <1>4, <2>1, <2>2
<1>5. ASSUME NEW id, NEW n, n[1] \in Words PROVE n # Lambda(id)
  BY <1>1, <1>2, <1>5
<1> QED
  BY <1>1, <1>3, <1>4, <1>5

\* What a reference that is added leaves.
LEMMA RefsGrow ==
  ASSUME AsmTypeOK, NEW r \in [name : Name, rune : Runes, addr : Short], refs' = Append(refs, r)
  PROVE  /\ Len(refs) \in Nat /\ DOMAIN refs = 1 .. Len(refs) /\ DOMAIN refs' = 1 .. Len(refs) + 1
         /\ \A i \in 1 .. Len(refs) : refs'[i] = refs[i]
         /\ refs'[Len(refs) + 1] = r
         /\ OneNumber' => OneNumber
<1> DEFINE R == [name : Name, rune : Runes, addr : Short]
<1>1. refs \in Seq(R)
  BY DEF AsmTypeOK
<1>2. /\ Len(refs) \in Nat /\ DOMAIN refs = 1 .. Len(refs) /\ Len(refs') = Len(refs) + 1
      /\ refs' \in Seq(R) /\ refs'[Len(refs) + 1] = r /\ \A i \in 1 .. Len(refs) : refs'[i] = refs[i]
  <2> HIDE DEF R
  <2>1. r \in R
    BY DEF R
  <2> QED
    BY <1>1, <2>1, AppendProperties, LenProperties
<1>3. DOMAIN refs' = 1 .. Len(refs) + 1
  BY <1>2, LenProperties
<1>4. \A i \in DOMAIN refs : i \in DOMAIN refs' /\ refs'[i] = refs[i]
  BY <1>2, <1>3
<1>5. OneNumber' => OneNumber
  <2> SUFFICES ASSUME OneNumber', NEW i \in DOMAIN refs, NEW j \in DOMAIN refs,
                      IsLambda(refs[i]), refs[i].name = refs[j].name
               PROVE  i = j
    BY DEF OneNumber
  <2>1. i \in DOMAIN refs' /\ j \in DOMAIN refs' /\ refs'[i] = refs[i] /\ refs'[j] = refs[j]
    BY <1>4
  <2>2. refs'[i].name[1] = "{" /\ refs'[i].name = refs'[j].name
    BY <2>1 DEF IsLambda
  <2> QED
    BY <2>1, <2>2 DEF OneNumber, IsLambda
<1> QED
  BY <1>2, <1>3, <1>5

\* What a label that is added ends.
LEMMA LabelsGrow ==
  ASSUME AsmTypeOK, NEW name, AddLabel(name)
  PROVE  /\ ~\E l \in DOMAIN labels : labels[l].name = Full(name)
         /\ \A n : (\E l \in DOMAIN labels' : labels'[l].name = n) <=>
                     n = Full(name) \/ \E l \in DOMAIN labels : labels[l].name = n
<1> DEFINE L == [name : Name, addr : Short]
<1>1. PICK new : new = [name |-> Full(name), addr |-> ptr % PAGE_SIZE]
  OBVIOUS
<1>2. labels \in Seq(L) /\ labels' = Append(labels, new) /\ new.name = Full(name)
  BY <1>1 DEF AsmTypeOK, AddLabel
<1>3. /\ Len(labels) \in Nat /\ DOMAIN labels = 1 .. Len(labels) /\ DOMAIN labels' = 1 .. Len(labels) + 1
      /\ \A i \in 1 .. Len(labels) : labels'[i] = labels[i]
      /\ labels'[Len(labels) + 1] = new
  BY <1>2
<1>4. \A l \in DOMAIN labels' : (l \in DOMAIN labels /\ labels'[l] = labels[l]) \/ labels'[l] = new
  BY <1>3
<1>5. /\ \A l \in DOMAIN labels : l \in DOMAIN labels' /\ labels'[l] = labels[l]
      /\ \E l \in DOMAIN labels' : labels'[l] = new
  BY <1>3
<1>6. ~\E l \in DOMAIN labels : labels[l].name = Full(name)
  BY DEF AddLabel, CanLabel, CanName, Named
<1> HIDE DEF L
<1> QED
  BY ONLY <1>2, <1>4, <1>5, <1>6

\* A step that opens no lambda and ends none.
LEMMA LambdasStay ==
  ASSUME LambdaInv, UNCHANGED <<refs, lambdas>>, \A id : Ended(id)' <=> Ended(id)
  PROVE  LambdaInv'
<1> SUFFICES ASSUME OneNumber PROVE Stacked'
  BY DEF LambdaInv, OneNumber, IsLambda
<1>1. PICK n \in 0 .. B, base \in {0, B - 1} :
       \E d \in 0 .. n : Opened(n) /\ OnStack(n, base, d) /\ Pending(n, base, d)
  BY DEF LambdaInv, Stacked
<1>2. PICK d \in 0 .. n : Opened(n) /\ OnStack(n, base, d) /\ Pending(n, base, d)
  BY <1>1
<1>3. Opened(n)'
  BY <1>2 DEF Opened, lambdas, IsLambda
<1>4. OnStack(n, base, d)'
  BY <1>2 DEF OnStack, lambdas
<1>5. Pending(n, base, d)'
  BY <1>2 DEF Pending, lambdas
<1> QED
  BY <1>3, <1>4, <1>5 DEF Stacked

\* A reference that is not to a lambda is put down.
LEMMA LambdasRef ==
  ASSUME AsmTypeOK, LambdaInv, UNCHANGED <<labels, lambdas>>,
         NEW r \in [name : Name, rune : Runes, addr : Short], refs' = Append(refs, r), r.name[1] \in Words
  PROVE  LambdaInv'
<1> SUFFICES ASSUME OneNumber' PROVE Stacked'
  BY DEF LambdaInv
<1>1. OneNumber
  BY RefsGrow
<1>2. PICK n \in 0 .. B, base \in {0, B - 1} :
       \E d \in 0 .. n : Opened(n) /\ OnStack(n, base, d) /\ Pending(n, base, d)
  BY <1>1 DEF LambdaInv, Stacked
<1>3. PICK d \in 0 .. n : Opened(n) /\ OnStack(n, base, d) /\ Pending(n, base, d)
  BY <1>2
<1>4. /\ Len(refs) \in Nat /\ DOMAIN refs = 1 .. Len(refs) /\ DOMAIN refs' = 1 .. Len(refs) + 1
      /\ \A i \in 1 .. Len(refs) : refs'[i] = refs[i]
      /\ refs'[Len(refs) + 1] = r
  BY RefsGrow
<1>5. r.name[1] # "{" /\ \A id : r.name # Lambda(id)
  BY LambdasApart, SourcesAssumption
<1>6. \A i \in DOMAIN refs' : (i \in DOMAIN refs /\ refs'[i] = refs[i]) \/ (i = Len(refs) + 1 /\ refs'[i] = r)
  BY <1>4
<1>7. \A i \in DOMAIN refs : i \in DOMAIN refs' /\ refs'[i] = refs[i]
  BY <1>4
<1>8. ASSUME NEW i \in DOMAIN refs', IsLambda(refs'[i])
      PROVE  \E id \in 0 .. n - 1 : refs'[i].name = Lambda(id)
  <2>1. i \in DOMAIN refs /\ refs'[i] = refs[i]
    BY <1>5, <1>6, <1>8 DEF IsLambda
  <2>2. IsLambda(refs[i])
    BY <1>8, <2>1
  <2> QED
    BY <1>3, <2>1, <2>2 DEF Opened
<1>9. \A id \in 0 .. n - 1 : \E i \in DOMAIN refs' : refs'[i].name = Lambda(id)
  BY <1>3, <1>7 DEF Opened
<1>10. ASSUME NEW i \in DOMAIN refs', NEW j \in DOMAIN refs', NEW a \in 0 .. n - 1, NEW b \in 0 .. n - 1,
              refs'[i].name = Lambda(a), refs'[j].name = Lambda(b), i < j
       PROVE  a < b
  <2>1. i \in DOMAIN refs /\ j \in DOMAIN refs /\ refs'[i] = refs[i] /\ refs'[j] = refs[j]
    BY <1>5, <1>6, <1>10
  <2>2. refs[i].name = Lambda(a) /\ refs[j].name = Lambda(b)
    BY <1>10, <2>1
  <2> QED
    BY <1>3, <1>10, <2>1, <2>2 DEF Opened
<1>11. Opened(n)'
  BY <1>3, <1>8, <1>9, <1>10 DEF Opened, lambdas, IsLambda
<1>12. OnStack(n, base, d)'
  BY <1>3 DEF OnStack, lambdas
<1>13. Pending(n, base, d)'
  <2>1. \A id : Ended(id)' <=> Ended(id)
    BY DEF Ended
  <2> QED
    BY <1>3, <2>1 DEF Pending, lambdas
<1> QED
  BY <1>11, <1>12, <1>13 DEF Stacked

\* A lambda is opened: it is the last one, and on top of the stack.
LEMMA LambdasOpen ==
  ASSUME AsmTypeOK, LambdaInv, UNCHANGED labels,
         NEW r \in [name : Name, rune : Runes, addr : Short], refs' = Append(refs, r),
         r.name = Lambda(lambda_len),
         lambda_stack' = [lambda_stack EXCEPT ![lambda_ptr] = lambda_len],
         lambda_ptr' = (lambda_ptr + 1) % B,
         lambda_len' = (lambda_len + 1) % B
  PROVE  LambdaInv'
<1> SUFFICES ASSUME OneNumber' PROVE Stacked'
  BY DEF LambdaInv
<1>1. OneNumber
  BY RefsGrow
<1>2. PICK n \in 0 .. B, base \in {0, B - 1} :
       \E d \in 0 .. n : Opened(n) /\ OnStack(n, base, d) /\ Pending(n, base, d)
  BY <1>1 DEF LambdaInv, Stacked
<1>3. PICK d \in 0 .. n : Opened(n) /\ OnStack(n, base, d) /\ Pending(n, base, d)
  BY <1>2
<1>4. /\ Len(refs) \in Nat /\ DOMAIN refs = 1 .. Len(refs) /\ DOMAIN refs' = 1 .. Len(refs) + 1
      /\ \A i \in 1 .. Len(refs) : refs'[i] = refs[i]
      /\ refs'[Len(refs) + 1] = r
  BY RefsGrow
<1>5. \A i \in DOMAIN refs' : (i \in DOMAIN refs /\ refs'[i] = refs[i]) \/ (i = Len(refs) + 1 /\ refs'[i] = r)
  BY <1>4
<1>6. \A i \in DOMAIN refs : i \in DOMAIN refs' /\ refs'[i] = refs[i] /\ i < Len(refs) + 1
  BY <1>4
<1>7. B \in Nat /\ B >= 16
  BY ByteAssumption
\* The numbers have not begun again.
<1>8. n < B
  <2> SUFFICES ASSUME n = B PROVE FALSE
    BY <1>7
  <2>1. lambda_len = 0
    BY <1>3, <1>7 DEF Opened
  <2>2. PICK i \in DOMAIN refs : refs[i].name = Lambda(0)
    BY <1>3, <1>7 DEF Opened
  <2>3. i \in DOMAIN refs' /\ Len(refs) + 1 \in DOMAIN refs' /\ i # Len(refs) + 1
        /\ refs'[i].name = Lambda(0) /\ refs'[Len(refs) + 1].name = Lambda(0)
    BY <1>4, <1>6, <2>1, <2>2
  <2>4. IsLambda(refs'[i])
    BY <2>3, LambdasApart DEF IsLambda
  <2> QED
    BY <2>3, <2>4 DEF OneNumber, IsLambda
<1>9. lambda_len = n
  BY <1>3, <1>7, <1>8, Remainder DEF Opened
<1>10. /\ n + 1 \in 0 .. B /\ d + 1 \in 0 .. n + 1 /\ d \in 0 .. B - 1
       /\ \A id \in 0 .. (n + 1) - 1 : (id \in 0 .. n - 1 \/ id = n)
       /\ \A id \in 0 .. n - 1 : id \in 0 .. (n + 1) - 1 /\ id < n
       /\ \A k \in 0 .. (d + 1) - 1 : (k \in 0 .. d - 1 \/ k = d)
       /\ \A k \in 0 .. d - 1 : k \in 0 .. B - 1 /\ k # d /\ k < d
       /\ \A k \in 0 .. d - 1 : k \in 0 .. (d + 1) - 1
       /\ d \in 0 .. (d + 1) - 1 /\ n \in 0 .. (n + 1) - 1
  BY <1>7, <1>8
<1>11. lambda_ptr = Slot(base, d) /\ lambda_ptr \in Byte
  BY <1>3, <1>10 DEF OnStack, AsmTypeOK
<1>12. /\ lambda_stack'[Slot(base, d)] = n
       /\ \A x \in Byte : x # Slot(base, d) => lambda_stack'[x] = lambda_stack[x]
  BY <1>9, <1>11 DEF AsmTypeOK
<1>13. \A k \in 0 .. d - 1 : lambda_stack'[Slot(base, k)] = lambda_stack[Slot(base, k)]
  <2>1. ASSUME NEW k \in 0 .. d - 1 PROVE Slot(base, k) \in Byte /\ Slot(base, k) # Slot(base, d)
    <3>1. k \in 0 .. B - 1 /\ k # d /\ d \in 0 .. B - 1
      <4>1. n \in Int /\ d \in 0 .. n
        OBVIOUS
      <4> QED
        BY ONLY <1>7, <1>8, <2>1, <4>1
    <3> QED
      BY ONLY <3>1, base \in {0, B - 1}, Slots
  <2> QED
    BY <1>12, <2>1
<1>14. lambda_len' = (n + 1) % B /\ lambda_ptr' = IF d + 1 = B THEN base ELSE Slot(base, d + 1)
  BY <1>9, <1>10, <1>11, Slots
<1>15. ASSUME NEW i \in DOMAIN refs', IsLambda(refs'[i])
       PROVE  \E id \in 0 .. (n + 1) - 1 : refs'[i].name = Lambda(id)
  <2>1. CASE i \in DOMAIN refs /\ refs'[i] = refs[i]
    <3>1. IsLambda(refs[i])
      BY <1>15, <2>1
    <3>2. PICK id \in 0 .. n - 1 : refs[i].name = Lambda(id)
      BY <1>3, <2>1, <3>1 DEF Opened
    <3> QED
      BY <1>10, <2>1, <3>2
  <2>2. CASE refs'[i] = r
    BY <1>9, <1>10, <2>2
  <2> QED
    BY <1>5, <2>1, <2>2
<1>16. \A id \in 0 .. (n + 1) - 1 : \E i \in DOMAIN refs' : refs'[i].name = Lambda(id)
  BY <1>3, <1>4, <1>6, <1>9, <1>10 DEF Opened
<1>17. ASSUME NEW i \in DOMAIN refs', NEW j \in DOMAIN refs', NEW a \in 0 .. (n + 1) - 1, NEW b \in 0 .. (n + 1) - 1,
              refs'[i].name = Lambda(a), refs'[j].name = Lambda(b), i < j
       PROVE  a < b
  <2>1. i \in DOMAIN refs /\ refs'[i] = refs[i]
    BY <1>4, <1>17
  <2>2. IsLambda(refs[i])
    BY <1>17, <2>1, LambdasApart DEF IsLambda
  <2>3. a \in 0 .. n - 1
    <3>1. PICK id \in 0 .. n - 1 : refs[i].name = Lambda(id)
      BY <1>3, <2>1, <2>2 DEF Opened
    <3> QED
      BY <1>17, <2>1, <3>1, LambdasApart
  <2>4. CASE j \in DOMAIN refs
    <3>1. refs'[j] = refs[j] /\ IsLambda(refs[j])
      <4>1. refs'[j] = refs[j] /\ refs[j].name = Lambda(b)
        BY <1>6, <1>17, <2>4
      <4> QED
        BY <4>1, LambdasApart DEF IsLambda
    <3>2. PICK id \in 0 .. n - 1 : refs[j].name = Lambda(id)
      BY <1>3, <2>4, <3>1 DEF Opened
    <3>3. b \in 0 .. n - 1
      BY <1>17, <3>1, <3>2, LambdasApart
    <3> QED
      BY <1>3, <1>17, <2>1, <2>3, <2>4, <3>1, <3>3 DEF Opened
  <2>5. CASE j \notin DOMAIN refs
    <3>1. b = n
      BY <1>5, <1>9, <1>17, <2>5, LambdasApart
    <3> QED
      BY <1>10, <2>3, <3>1
  <2> QED
    BY <2>4, <2>5
<1>18. \A k \in 0 .. (d + 1) - 1 : lambda_stack'[Slot(base, k)] \in 0 .. (n + 1) - 1
  BY <1>3, <1>10, <1>12, <1>13 DEF OnStack
<1>19. ASSUME NEW k \in 0 .. (d + 1) - 1, NEW l \in 0 .. (d + 1) - 1, k < l
       PROVE  lambda_stack'[Slot(base, k)] < lambda_stack'[Slot(base, l)]
  <2>1. k \in 0 .. d - 1 /\ (l \in 0 .. d - 1 \/ l = d)
    BY <1>19
  <2>2. lambda_stack[Slot(base, k)] \in 0 .. n - 1 /\ lambda_stack'[Slot(base, k)] = lambda_stack[Slot(base, k)]
    BY <1>3, <1>13, <2>1 DEF OnStack
  <2>3. CASE l \in 0 .. d - 1
    BY <1>3, <1>13, <1>19, <2>1, <2>3 DEF OnStack
  <2>4. CASE l = d
    BY <1>12, <2>2, <2>4
  <2> QED
    BY <2>1, <2>3, <2>4
<1>20. ASSUME NEW id \in 0 .. (n + 1) - 1, ~Ended(id)' PROVE \E k \in 0 .. (d + 1) - 1 : lambda_stack'[Slot(base, k)] = id
  <2>1. CASE id = n
    BY <1>10, <1>12, <2>1
  <2>2. CASE id \in 0 .. n - 1
    <3>1. ~Ended(id)
      BY <1>20 DEF Ended
    <3>2. PICK k \in 0 .. d - 1 : lambda_stack[Slot(base, k)] = id
      BY <1>3, <2>2, <3>1 DEF Pending
    <3> QED
      BY <1>10, <1>13, <3>2
  <2> QED
    BY <1>10, <2>1, <2>2
<1>21. base # 0 => Ended(0)'
  BY <1>3 DEF Pending, Ended
<1>22. \A x \in Byte : lambda_stack'[x] = 0 \/ lambda_stack'[x] \in 0 .. (n + 1) - 1
  BY <1>3, <1>10, <1>12 DEF OnStack
<1>23. PICK m \in 0 .. B, e \in 0 .. n + 1 : m = n + 1 /\ e = d + 1 /\ e \in 0 .. m
  BY <1>10
<1>24. Opened(m)'
  <2>1. lambda_len' = m % B
    BY <1>14, <1>23
  <2>2. \A i \in DOMAIN refs' : IsLambda(refs'[i]) => \E id \in 0 .. m - 1 : refs'[i].name = Lambda(id)
    BY ONLY <1>15, <1>23
  <2>3. \A id \in 0 .. m - 1 : \E i \in DOMAIN refs' : refs'[i].name = Lambda(id)
    BY ONLY <1>16, <1>23
  <2>4. \A i, j \in DOMAIN refs' : \A a, b \in 0 .. m - 1 :
          refs'[i].name = Lambda(a) /\ refs'[j].name = Lambda(b) /\ i < j => a < b
    BY ONLY <1>17, <1>23
  <2> QED
    BY <2>1, <2>2, <2>3, <2>4 DEF Opened, IsLambda
<1>25. OnStack(m, base, e)'
  BY <1>14, <1>18, <1>19, <1>22, <1>23 DEF OnStack
<1>26. Pending(m, base, e)'
  BY <1>20, <1>21, <1>23 DEF Pending
<1>27. \E e1 \in 0 .. m : (Opened(m) /\ OnStack(m, base, e1) /\ Pending(m, base, e1))'
  BY <1>23, <1>24, <1>25, <1>26
<1> QED
  BY <1>27 DEF Stacked

\* A lambda ends, and it is the last one of those that have not: none else has its label
\* yet, whatever braces close what was not opened.
LEMMA LambdasClose ==
  ASSUME AsmTypeOK, LambdaInv, OneNumber, CloseLambda
  PROVE  /\ LambdaInv'
         /\ \A i, j \in DOMAIN refs :
              IsLambda(refs[i]) /\ IsLambda(refs[j]) /\ i < j /\ ~Known(refs[i]) /\ Known(refs[i])'
                => Known(refs[j])
<1>1. PICK n \in 0 .. B, base \in {0, B - 1} :
       \E d \in 0 .. n : Opened(n) /\ OnStack(n, base, d) /\ Pending(n, base, d)
  BY DEF LambdaInv, Stacked
<1>2. PICK d \in 0 .. n : Opened(n) /\ OnStack(n, base, d) /\ Pending(n, base, d)
  BY <1>1
<1>3. B \in Nat /\ B >= 16
  BY ByteAssumption
<1>4. PICK t : t = lambda_stack[lambda_ptr']
  OBVIOUS
<1>5. AddLabel(Lambda(t)) /\ UNCHANGED <<refs, lambda_stack, lambda_len>> /\ lambda_ptr' = (lambda_ptr - 1) % B
  BY <1>4 DEF CloseLambda
\* One lambda ends, which had not.
<1>6. ~Ended(t) /\ \A id : Ended(id)' <=> (id = t \/ Ended(id))
  <2>1. /\ ~\E l \in DOMAIN labels : labels[l].name = Lambda(t)
        /\ \A x : (\E l \in DOMAIN labels' : labels'[l].name = x) <=>
                    x = Lambda(t) \/ \E l \in DOMAIN labels : labels[l].name = x
    BY ONLY <1>5, AsmTypeOK, LabelsGrow, LambdasApart
  <2>2. ASSUME NEW id PROVE Ended(id)' <=> (id = t \/ Ended(id))
    <3>1. Ended(id)' <=> Lambda(id) = Lambda(t) \/ Ended(id)
      BY <2>1 DEF Ended
    <3> QED
      BY <3>1, LambdasApart
  <2>3. ~Ended(t)
    BY <2>1 DEF Ended
  <2> QED
    BY <2>2, <2>3
<1>7. ASSUME NEW r, NEW id, r.name = Lambda(id)
      PROVE  (Known(r) <=> Ended(id)) /\ (Known(r)' <=> Ended(id)')
  <2>1. /\ Known(r) <=> \E l \in DOMAIN labels : labels[l].name = Full(r.name)
        /\ Known(r)' <=> \E l \in DOMAIN labels' : labels'[l].name = Full(r.name)'
    BY DEF Known, Named
  <2>2. Full(r.name) = Lambda(id) /\ Full(r.name)' = Lambda(id)
    BY <1>7, LambdasApart DEF Full
  <2> QED
    BY <2>1, <2>2 DEF Ended
<1>8. Opened(n)'
  BY <1>2, <1>5 DEF Opened, IsLambda
\* It is the one on top of the stack.
<1>9. CASE d > 0
  <2>1. PICK e \in 0 .. n : e = d - 1
    BY <1>9
  <2>2. /\ e \in 0 .. d - 1 /\ d \in 1 .. B /\ e < d /\ e # B
        /\ \A k \in 0 .. e - 1 : k \in 0 .. d - 1 /\ k < e
        /\ \A k \in 0 .. d - 1 : k \in 0 .. e - 1 \/ k = e
    BY <1>3, <1>9, <2>1
  <2>3. lambda_ptr' = Slot(base, e) /\ t = lambda_stack[Slot(base, e)]
    <3>1. lambda_ptr = IF d = B THEN base ELSE Slot(base, d)
      BY <1>2 DEF OnStack
    <3>2. ((IF d = B THEN base ELSE Slot(base, d)) - 1) % B = Slot(base, d - 1)
      BY ONLY <2>2, base \in {0, B - 1}, Slots
    <3> QED
      BY ONLY <1>4, <1>5, <2>1, <3>1, <3>2
  <2>4. t \in 0 .. n - 1 /\ \A k \in 0 .. e - 1 : lambda_stack[Slot(base, k)] < t
    BY <1>2, <2>2, <2>3 DEF OnStack
  <2>5. OnStack(n, base, e)'
    BY <1>2, <1>5, <2>2, <2>3 DEF OnStack
  <2>6. ASSUME NEW id \in 0 .. n - 1, ~Ended(id), id # t
        PROVE  \E k \in 0 .. e - 1 : lambda_stack[Slot(base, k)] = id
    <3>1. PICK k \in 0 .. d - 1 : lambda_stack[Slot(base, k)] = id
      BY <1>2, <2>6 DEF Pending
    <3> QED
      BY <2>2, <2>3, <2>6, <3>1
  <2>7. Pending(n, base, e)'
    <3>1. \A id \in 0 .. n - 1 : ~Ended(id)' => \E k \in 0 .. e - 1 : lambda_stack'[Slot(base, k)] = id
      BY <1>5, <1>6, <2>6
    <3>2. base # 0 => Ended(0)'
      BY <1>2, <1>6 DEF Pending
    <3> QED
      BY <3>1, <3>2 DEF Pending
  <2>8. LambdaInv'
    BY <1>8, <2>5, <2>7 DEF LambdaInv, Stacked
  <2>9. ASSUME NEW i \in DOMAIN refs, NEW j \in DOMAIN refs,
               IsLambda(refs[i]), IsLambda(refs[j]), i < j, ~Known(refs[i]), Known(refs[i])', ~Known(refs[j])
        PROVE  FALSE
    <3>1. PICK a \in 0 .. n - 1 : refs[i].name = Lambda(a)
      BY <1>2, <2>9 DEF Opened
    <3>2. PICK b \in 0 .. n - 1 : refs[j].name = Lambda(b)
      BY <1>2, <2>9 DEF Opened
    <3>3. ~Ended(a) /\ Ended(a)'
      <4>1. PICK r : r = refs[i]
        OBVIOUS
      <4>2. r.name = Lambda(a) /\ ~Known(r) /\ Known(r)'
        BY <1>5, <2>9, <3>1, <4>1 DEF Known, Named, Full
      <4> QED
        BY <1>7, <4>2
    <3>4. ~Ended(b)
      <4>1. PICK r : r = refs[j]
        OBVIOUS
      <4>2. r.name = Lambda(b) /\ ~Known(r)
        BY <2>9, <3>2, <4>1
      <4> QED
        BY <1>7, <4>2
    <3>5. a = t
      BY <1>6, <3>3
    <3>6. a < b
      BY <1>2, <2>9, <3>1, <3>2 DEF Opened
    <3>7. PICK k \in 0 .. e - 1 : lambda_stack[Slot(base, k)] = b
      BY <2>6, <3>4, <3>5, <3>6
    <3> QED
      BY <2>4, <3>5, <3>6, <3>7
  <2> QED
    BY <2>8, <2>9
\* No lambda that was opened is open: only before the first is there one to end.
<1>10. CASE d = 0
  <2>1. \A id \in 0 .. n - 1 : Ended(id)
    BY <1>2, <1>10 DEF Pending
  <2>2. lambda_ptr = base /\ base \in Byte /\ lambda_ptr' \in Byte
    <3>1. lambda_ptr = Slot(base, 0)
      BY <1>2, <1>3, <1>10 DEF OnStack
    <3>2. Slot(base, 0) = base /\ base \in Byte
      BY <1>3 DEF Slot, Byte
    <3>3. lambda_ptr' \in Byte
      <4>1. base - 1 \in Int /\ B \in Nat \ {0}
        BY ONLY <1>3, base \in {0, B - 1}
      <4>2. (base - 1) % B \in 0 .. B - 1
        BY ONLY <4>1, Remainder
      <4> QED
        BY ONLY <1>5, <3>1, <3>2, <4>2 DEF Byte
    <3> QED
      BY <3>1, <3>2, <3>3
  <2>3. t = 0 \/ t \in 0 .. n - 1
    BY <1>2, <1>4, <2>2 DEF OnStack
  <2>4. t = 0 /\ n = 0
    BY <1>6, <2>1, <2>3
  <2>5. base = 0
    BY <1>2, <1>6, <2>4 DEF Pending
  <2>6. lambda_ptr' = B - 1 /\ Slot(B - 1, 0) = B - 1
    BY <1>3, <1>5, <2>2, <2>5, Slots DEF Slot
  <2>7. OnStack(n, B - 1, d)'
    BY <1>2, <1>3, <1>5, <1>10, <2>4, <2>6 DEF OnStack
  <2>8. Pending(n, B - 1, d)'
    BY <1>6, <2>4 DEF Pending
  <2>9. LambdaInv'
    BY <1>8, <2>7, <2>8 DEF LambdaInv, Stacked
  <2>10. \A i \in DOMAIN refs : ~IsLambda(refs[i])
    BY <1>2, <2>4 DEF Opened
  <2> QED
    BY <2>9, <2>10
<1> QED
  BY <1>9, <1>10

\* A reference to a lambda is known when it was, if no lambda has ended.
LEMMA LambdasKnown ==
  ASSUME LambdaInv, OneNumber, \A id : Ended(id)' <=> Ended(id),
         NEW i \in DOMAIN refs, refs'[i] = refs[i], IsLambda(refs[i])
  PROVE  Known(refs[i])' <=> Known(refs[i])
<1>1. PICK n \in 0 .. B : Opened(n)
  BY DEF LambdaInv, Stacked
<1>2. PICK id \in 0 .. n - 1 : refs[i].name = Lambda(id)
  BY <1>1 DEF Opened
<1>3. Full(refs[i].name) = Lambda(id) /\ Full(refs[i].name)' = Lambda(id)
  BY <1>2, LambdasApart DEF Full
<1>4. /\ Known(refs[i]) <=> \E l \in DOMAIN labels : labels[l].name = Full(refs[i].name)
      /\ Known(refs[i])' <=> \E l \in DOMAIN labels' : labels'[l].name = Full(refs[i].name)'
  BY DEF Known, Named
<1> QED
  BY <1>3, <1>4 DEF Ended

\* No brace ends a lambda in this step, and what was not known is not.
NoneKnown ==
  OneNumber => \A i \in DOMAIN refs : IsLambda(refs[i]) /\ ~Known(refs[i]) => ~Known(refs[i])'

\* A step that adds neither a reference to a lambda nor its label.
LEMMA LambdasRest ==
  ASSUME LambdaInv, UNCHANGED <<refs, lambdas, labels>>
  PROVE  LambdaInv' /\ NoneKnown
<1>1. \A id : Ended(id)' <=> Ended(id)
  BY DEF Ended
<1>2. LambdaInv'
  BY <1>1, LambdasStay
<1>3. NoneKnown
  BY <1>1, LambdasKnown DEF NoneKnown
<1> QED
  BY <1>2, <1>3

\* A label that is no lambda's.
LEMMA LambdasLabel ==
  ASSUME AsmTypeOK, LambdaInv, MakeLabel
  PROVE  LambdaInv' /\ NoneKnown
<1>1. token \in Token /\ token.rune \in {"@", "&"}
  BY Reads DEF MakeLabel
<1>2. Full(token.name)[1] \in Words
  BY <1>1, TokenParts, FullNames DEF AsmTypeOK
<1>3. PICK name : name = token.name
  OBVIOUS
<1>4. AddLabel(name) /\ UNCHANGED <<refs, lambdas>>
  BY <1>3 DEF MakeLabel
<1>5. \A n : (\E l \in DOMAIN labels' : labels'[l].name = n) <=>
               n = Full(name) \/ \E l \in DOMAIN labels : labels[l].name = n
  BY <1>4, LabelsGrow
<1>6. \A id : Ended(id)' <=> Ended(id)
  <2> SUFFICES ASSUME NEW id PROVE Ended(id)' <=> Ended(id)
    OBVIOUS
  <2>1. Lambda(id) # Full(name)
    BY <1>2, <1>3, LambdasApart
  <2> QED
    BY <1>5, <2>1 DEF Ended
<1>7. LambdaInv'
  BY <1>4, <1>6, LambdasStay
<1>8. NoneKnown
  BY <1>4, <1>6, LambdasKnown DEF NoneKnown
<1> QED
  BY <1>7, <1>8

\* A reference, to a lambda that it opens or to a name.
LEMMA LambdasMake ==
  ASSUME AsmTypeOK, LambdaInv, MakeRef
  PROVE  LambdaInv' /\ NoneKnown
<1> DEFINE R == [name : Name, rune : Runes, addr : Short]
<1>1. token \in Token /\ token.rune \in Runes
  BY Reads DEF MakeRef
<1>2. scope \in Words /\ lambda_len \in Byte /\ ptr \in Nat
  BY DEF AsmTypeOK
<1>3. UNCHANGED <<labels, scope>>
  BY DEF MakeRef, names
<1>4. RefAddr(token.rune) % PAGE_SIZE \in Short
  <2>1. RefAddr(token.rune) \in Int
    BY <1>2 DEF RefAddr
  <2> QED
    BY <2>1, Widths
<1>5. CASE token.name[1] = "{"
  <2>1. PICK r : r = [name |-> Lambda(lambda_len), rune |-> token.rune, addr |-> RefAddr(token.rune) % PAGE_SIZE]
    OBVIOUS
  <2>2. r \in R /\ r.name = Lambda(lambda_len)
    BY <1>1, <1>2, <1>4, <2>1, LambdaNames
  <2>3. /\ refs' = Append(refs, r)
        /\ lambda_stack' = [lambda_stack EXCEPT ![lambda_ptr] = lambda_len]
        /\ lambda_ptr' = (lambda_ptr + 1) % B
        /\ lambda_len' = (lambda_len + 1) % B
    BY <1>5, <2>1 DEF MakeRef, AddRef
  <2>4. LambdaInv'
    BY <1>3, <2>2, <2>3, LambdasOpen
  <2> QED
    <3>1. \A i \in DOMAIN refs : refs'[i] = refs[i]
      BY <2>2, <2>3, RefsGrow
    <3>2. \A id : Ended(id)' <=> Ended(id)
      BY <1>3 DEF Ended
    <3> QED
      BY <2>4, <3>1, <3>2, LambdasKnown DEF NoneKnown
<1>6. CASE token.name[1] # "{"
  <2>1. Full(token.name) \in Plain /\ Full(token.name)[1] \in Words
    <3>1. token.name \in Plain \cup Child \cup {Brace}
      BY <1>1, TokenParts
    <3>2. Brace[1] = "{"
      BY DEF Brace, Lambda
    <3>3. token.name \in Plain \cup Child
      BY <1>6, <3>1, <3>2
    <3> QED
      BY <1>2, <3>3, FullNames
  <2>2. PICK r : r = [name |-> Full(token.name), rune |-> token.rune, addr |-> RefAddr(token.rune) % PAGE_SIZE]
    OBVIOUS
  <2>3. r \in R /\ r.name[1] \in Words
    BY <1>1, <1>4, <2>1, <2>2 DEF Name
  <2>4. refs' = Append(refs, r) /\ UNCHANGED lambdas
    BY <1>6, <2>2 DEF MakeRef, AddRef
  <2>5. LambdaInv'
    BY <1>3, <2>3, <2>4, LambdasRef
  <2> QED
    <3>1. \A i \in DOMAIN refs : refs'[i] = refs[i]
      BY <2>3, <2>4, RefsGrow
    <3>2. \A id : Ended(id)' <=> Ended(id)
      BY <1>3 DEF Ended
    <3> QED
      BY <2>5, <3>1, <3>2, LambdasKnown DEF NoneKnown
<1> QED
  BY <1>5, <1>6

\* No lambda is opened when a source begins.
LEMMA LambdasStart == AsmInit => LambdaInv
<1> SUFFICES ASSUME AsmInit PROVE Stacked
  BY DEF LambdaInv
<1>1. B \in Nat /\ B >= 16 /\ 0 % B = 0
  BY ByteAssumption
<1>2. DOMAIN refs = {} /\ lambda_ptr = 0 /\ lambda_len = 0 /\ \A x \in Byte : lambda_stack[x] = 0
  BY DEF AsmInit
<1>3. Opened(0)
  BY <1>1, <1>2 DEF Opened
<1>4. OnStack(0, 0, 0)
  BY <1>1, <1>2 DEF OnStack, Slot
<1>5. Pending(0, 0, 0)
  BY DEF Pending
<1>6. 0 \in 0 .. B /\ 0 \in {0, B - 1} /\ 0 \in 0 .. 0
  BY <1>1
<1> QED
  BY <1>3, <1>4, <1>5, <1>6 DEF Stacked

\* The lambda that a step ends is the last of those that have not ended.
LEMMA LambdasStep ==
  ASSUME AsmTypeOK, LambdaInv, [AsmNext]_asm
  PROVE  /\ LambdaInv'
         /\ OneNumber =>
              \A i, j \in DOMAIN refs :
                IsLambda(refs[i]) /\ IsLambda(refs[j]) /\ i < j /\ ~Known(refs[i]) /\ Known(refs[i])'
                  => Known(refs[j])
<1>1. CASE CloseLambda
  <2>1. CASE OneNumber
    BY <1>1, <2>1, LambdasClose
  <2>2. CASE ~OneNumber
    BY <1>1, <2>2 DEF CloseLambda, LambdaInv, OneNumber, IsLambda
  <2> QED
    BY <2>1, <2>2
<1>2. CASE ~CloseLambda
  <2>1. ASSUME MakeLabel PROVE LambdaInv' /\ NoneKnown
    BY <2>1, LambdasLabel
  <2>2. ASSUME MakeRef PROVE LambdaInv' /\ NoneKnown
    BY <2>2, LambdasMake
  <2>3. ASSUME ~MakeLabel, ~MakeRef PROVE LambdaInv' /\ NoneKnown
    <3>1. UNCHANGED <<refs, lambdas, labels>>
      BY <1>2, <2>3 DEF AsmNext, WriteHex, WritePad, MakeMacro, WalkMacro, ErrorAsm, Fails,
                        ParseEnds, ResolveRef, ErrorRef, Build, asm, names
    <3> QED
      BY <3>1, LambdasRest
  <2>4. LambdaInv' /\ NoneKnown
    BY <2>1, <2>2, <2>3
  <2> QED
    BY <2>4 DEF NoneKnown
<1> QED
  BY <1>1, <1>2

\* Lambdas end in turn: whatever pads put their labels where, and whatever braces close what
\* was not opened, the brace that closes ends the last lambda that has not ended, as long as
\* their numbers do not begin again.
THEOREM LambdasEndInTurn == AsmSpec => LambdasNest
<1>1. AsmInit => LambdaInv
  BY LambdasStart
<1>2. ImageSound /\ LambdaInv /\ [AsmNext]_asm => LambdaInv'
  BY LambdasStep DEF ImageSound
<1>3. ImageSound /\ LambdaInv /\ [AsmNext]_asm =>
        [OneNumber =>
           \A i, j \in DOMAIN refs :
             IsLambda(refs[i]) /\ IsLambda(refs[j]) /\ i < j /\ ~Known(refs[i]) /\ Known(refs[i])'
               => Known(refs[j])]_asm
  BY LambdasStep DEF ImageSound
<1> QED
  BY <1>1, <1>2, <1>3, ImageKept, PTL DEF AsmSpec, LambdasNest
=============================================================================
