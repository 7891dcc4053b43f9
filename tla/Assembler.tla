------------------------------ MODULE Assembler ------------------------------
(***************************************************************************)
(* The assembler (uxnasm.c): one pass over the tokens of a source, which   *)
(* lays bytes out in an image and notes labels and references; a pass over *)
(* the references; and the ROM that is written.                            *)
(*                                                                         *)
(* A token is what parse is given: its rune, and a byte, a distance or a   *)
(* name.  A string, a number of four digits and #12 are the bytes they     *)
(* stand for.  The text of a token, comments and included files are not    *)
(* modelled.  A name is its scope, its child and, for the label of a       *)
(* lambda, its number.                                                     *)
(***************************************************************************)
EXTENDS System, FiniteSets

CONSTANTS
  Words,            \* the words names are made of
  Invalid,          \* those that are numbers or opcodes, and no names
  MaxLabels,        \* 0x400 in the code
  MaxRefs,          \* 0x1000
  MaxMacros,        \* 0x100
  Sources           \* the sources a run assembles: sequences of tokens

ASSUME LimitsAssumption == {MaxLabels, MaxRefs, MaxMacros} \subseteq Nat

\* The runes of references, and what they put before the address.
LIT  == B \div 2
LIT2 == 5 * (B \div 8)
JCI  == B \div 8
JMI  == B \div 4
JSI  == 3 * (B \div 8)

Opening == [r \in {",", ".", ";", "?", "!", " "} |->
              CASE r \in {",", "."} -> LIT [] r = ";" -> LIT2
                [] r = "?" -> JCI [] r = "!" -> JMI [] r = " " -> JSI]
Relative == {"_", ","}         \* of one byte
LowByte  == {"-", "."}
Absolute == {"=", ";"}
Distance == {"?", "!", " "}    \* relative, of two bytes
Runes    == Relative \cup LowByte \cup Absolute \cup Distance

\* A name is a label's or a macro's; &x and /x are children of the scope; a brace is a
\* lambda, which gets its number.
Lambda(id) == <<"{", "", id>>
Plain == Words \X (Words \cup {""}) \X {0}
Child == {<<"&", w, 0>> : w \in Words}
Brace == Lambda(0)
Name  == Plain \cup {Lambda(id) : id \in Byte}
Token == [rune : {"byte"}, hex : Byte] \cup [rune : {"$", "|"}, hex : Short]
           \cup [rune : {"@", "&", "$", "|"}, name : Plain \cup Child]
           \cup [rune : Runes \cup {"}"}, name : Plain \cup Child \cup {Brace}]
           \cup [rune : {"%"}, name : Words \X {""} \X {0}, glued : BOOLEAN]

\* The brace and the ampersand are no words, and a scope is one from the start.
ASSUME SourcesAssumption ==
  /\ Sources \subseteq Seq(Token)
  /\ "on-reset" \in Words /\ {"&", "{"} \cap Words = {}

VARIABLES
  phase,            \* "parse", "resolve", "built", "failed"
  todo,             \* the tokens that are left of the source
  ptr, length, data,
  scope,
  labels, refs, macros,
  lambda_stack, lambda_ptr, lambda_len,
  resolved,         \* how many references resolve has done
  rom               \* the file

out  == <<ptr, length, data>>
lambdas == <<lambda_stack, lambda_ptr, lambda_len>>
names == <<scope, labels, macros>>
asm  == <<phase, todo, out, names, refs, lambdas, resolved, rom>>

AsmInit ==
  /\ phase = "parse"
  /\ todo \in Sources
  /\ ptr = PAGE_PROGRAM
  /\ length = 0
  /\ data = [a \in Short |-> 0]
  /\ scope = "on-reset"
  /\ labels = <<>> /\ refs = <<>> /\ macros = <<>>
  /\ lambda_stack = [i \in Byte |-> 0]
  /\ lambda_ptr = 0 /\ lambda_len = 0
  /\ resolved = 0
  /\ rom = <<>>

token == Head(todo)
Reading(runes) == phase = "parse" /\ todo # <<>> /\ token.rune \in runes

\* Every error prints a message and ends the program: nothing is read after it.
Fails == phase' = "failed" /\ UNCHANGED <<todo, out, names, refs, lambdas, resolved, rom>>

Full(name) == IF name[1] = "&" THEN <<scope, name[2], 0>> ELSE name
Named(list, name) == {i \in DOMAIN list : list[i].name = Full(name)}
\* There is one at most (OneMeaning).
Find(list, name)  == list[CHOOSE i \in Named(list, name) : TRUE]

-----------------------------------------------------------------------------
(* Bytes.                                                                  *)

\* Mutant: a rewind is not noticed.
CanWrite_Rewound(n) == ptr >= PAGE_PROGRAM /\ ptr + n <= PAGE_SIZE

\* writebyte takes n bytes.
CanWrite(n) == ptr >= PAGE_PROGRAM /\ ptr + n <= PAGE_SIZE /\ ptr >= length

\* Bytes that end in one that is not zero, or one byte: only such a byte makes the ROM longer.
Write(bytes) ==
  /\ data' = [a \in Short |-> IF a - ptr \in 0 .. Len(bytes) - 1 THEN bytes[a - ptr + 1] ELSE data[a]]
  /\ ptr' = ptr + Len(bytes)
  /\ length' = IF bytes[Len(bytes)] # 0 THEN ptr + Len(bytes) ELSE length

WriteHex ==
  /\ Reading({"byte"})
  /\ CanWrite(1)
  /\ Write(<<token.hex>>)
  /\ todo' = Tail(todo)
  /\ UNCHANGED <<phase, names, refs, lambdas, resolved, rom>>

\* $ and |: a distance, or a label.
IsHex(t) == "hex" \in DOMAIN t
CanPad   == IF IsHex(token) THEN TRUE ELSE Named(labels, token.name) # {}
WritePad ==
  /\ Reading({"$", "|"})
  /\ CanPad
  /\ ptr' = (IF token.rune = "$" THEN ptr ELSE 0)
              + (IF IsHex(token) THEN token.hex ELSE Find(labels, token.name).addr)
  /\ todo' = Tail(todo)
  /\ UNCHANGED <<phase, length, data, names, refs, lambdas, resolved, rom>>

-----------------------------------------------------------------------------
(* Labels.                                                                 *)

CanName(name) ==
  /\ Full(name) \notin {<<w, "", 0>> : w \in Invalid}
  /\ Named(macros, name) = {}
  /\ Named(labels, name) = {}

CanLabel(name) == Len(labels) < MaxLabels /\ CanName(name)

AddLabel(name) ==
  /\ CanLabel(name)
  /\ labels' = Append(labels, [name |-> Full(name), addr |-> ptr % PAGE_SIZE])

MakeLabel ==
  /\ Reading({"@", "&"})
  /\ AddLabel(token.name)
  /\ scope' = IF token.rune = "@" THEN Full(token.name)[1] ELSE scope
  /\ todo' = Tail(todo)
  /\ UNCHANGED <<phase, out, macros, refs, lambdas, resolved, rom>>

\* Mutant: the lambda that was opened first is closed first.
CloseLambda_First ==
  /\ Reading({"}"})
  /\ lambda_ptr' = (lambda_ptr - 1) % B
  /\ AddLabel(Lambda(lambda_len - lambda_ptr))
  /\ todo' = Tail(todo)
  /\ UNCHANGED <<phase, out, scope, macros, refs, lambda_stack, lambda_len, resolved, rom>>

\* }: the label of the lambda that was opened last.
CloseLambda ==
  /\ Reading({"}"})
  /\ lambda_ptr' = (lambda_ptr - 1) % B
  /\ AddLabel(Lambda(lambda_stack[lambda_ptr']))
  /\ todo' = Tail(todo)
  /\ UNCHANGED <<phase, out, scope, macros, refs, lambda_stack, lambda_len, resolved, rom>>

-----------------------------------------------------------------------------
(* References.                                                             *)

\* Where the address goes, and the bytes a reference is until it is resolved.
RefAddr(rune) == IF rune \in DOMAIN Opening THEN ptr + 1 ELSE ptr
Width(rune)   == IF rune \in Relative \cup LowByte THEN 1 ELSE 2
Placeholder(rune) ==
  (IF rune \in DOMAIN Opening THEN <<Opening[rune]>> ELSE <<>>)
    \o [j \in 1 .. Width(rune) |-> B - 1]

AddRef(name) ==
  refs' = Append(refs, [name |-> name, rune |-> token.rune, addr |-> RefAddr(token.rune) % PAGE_SIZE])

IsRef(t) == t.rune \in Runes /\ (t.rune = " " => Named(macros, t.name) = {})

CanRef(rune) == Len(refs) < MaxRefs /\ CanWrite(Len(Placeholder(rune)))

MakeRef ==
  /\ Reading(Runes) /\ IsRef(token)
  /\ CanRef(token.rune)
  /\ IF token.name[1] = "{"
     THEN /\ AddRef(Lambda(lambda_len))
          /\ lambda_stack' = [lambda_stack EXCEPT ![lambda_ptr] = lambda_len]
          /\ lambda_ptr' = (lambda_ptr + 1) % B
          /\ lambda_len' = (lambda_len + 1) % B
     ELSE AddRef(Full(token.name)) /\ UNCHANGED lambdas
  /\ Write(Placeholder(token.rune))
  /\ todo' = Tail(todo)
  /\ UNCHANGED <<phase, names, resolved, rom>>

-----------------------------------------------------------------------------
(* Macros.                                                                 *)

\* A lambda's brace is part of the body, and the count of the braces is what ends it:
\* the first brace that closes and leaves a count other than zero.
Opens(t)  == "name" \in DOMAIN t /\ t.name[1] = "{" /\ t.rune # "}"
Count(Is(_), tokens, k) == Cardinality({j \in 1 .. k : Is(tokens[j])})
Ends(tokens) ==
  {k \in DOMAIN tokens :
     /\ tokens[k].rune = "}"
     /\ Count(Opens, tokens, k) # Count(LAMBDA t : t.rune = "}", tokens, k)}
EndsAt(tokens, k) ==
  /\ k \in Ends(tokens) \cup {Len(tokens) + 1}
  /\ \A j \in Ends(tokens) : k <= j

\* The body is the text between the braces; walkmacro takes a token when a blank follows it,
\* and so never the one that is glued to the brace.
Body(tokens, k, glued) == SubSeq(tokens, 1, IF glued THEN k - 2 ELSE k - 1)

CanMacro(name, tokens, k) ==
  /\ Len(macros) < MaxMacros
  /\ CanName(name)
  /\ \A j \in 1 .. k - 1 : tokens[j].rune # "%"

MakeMacro ==
  LET rest == Tail(todo) IN
  /\ Reading({"%"})
  /\ \E k \in 1 .. Len(todo) :
       /\ EndsAt(rest, k)
       /\ CanMacro(token.name, rest, k)
       /\ macros' = Append(macros, [name |-> token.name, body |-> Body(rest, k, token.glued)])
       /\ todo' = SubSeq(rest, k + 1, Len(rest))
  /\ UNCHANGED <<phase, out, scope, labels, refs, lambdas, resolved, rom>>

WalkMacro ==
  /\ Reading({" "})
  /\ Named(macros, token.name) # {}
  /\ todo' = Find(macros, token.name).body \o Tail(todo)
  /\ UNCHANGED <<phase, out, names, refs, lambdas, resolved, rom>>

-----------------------------------------------------------------------------
(* What a token needs, and the error when it is not met.                   *)

Accepts ==
  CASE token.rune = "byte"        -> CanWrite(1)
    [] token.rune \in {"$", "|"} -> CanPad
    [] token.rune \in {"@", "&"} -> CanLabel(token.name)
    [] token.rune = "}"           -> CanLabel(Lambda(lambda_stack[(lambda_ptr - 1) % B]))
    [] token.rune = "%"           -> \E k \in 1 .. Len(todo) : EndsAt(Tail(todo), k)
                                      /\ CanMacro(token.name, Tail(todo), k)
    [] IsRef(token)               -> CanRef(token.rune)
    [] OTHER                      -> TRUE

ErrorAsm == phase = "parse" /\ todo # <<>> /\ ~Accepts /\ Fails

ParseEnds ==
  /\ phase = "parse" /\ todo = <<>>
  /\ phase' = IF length = 0 THEN "failed" ELSE "resolve"
  /\ UNCHANGED <<todo, out, names, refs, lambdas, resolved, rom>>

-----------------------------------------------------------------------------
(* The references, and the file.                                           *)

ref == refs[resolved + 1]
Known(r) == Named(labels, r.name) # {}
Label(r) == Find(labels, r.name)
Rel(r)   == Label(r).addr - r.addr - 2

\* Mutant: the range of a relative byte is not checked.
Fits_Any(r) == TRUE

\* A relative byte is refused when its sign does not carry it to the label.
Fits(r) == r.rune \in Relative => Signed(Rel(r) % B) = Rel(r)

Value(r) ==
  CASE r.rune \in Relative -> <<Rel(r) % B>>
    [] r.rune \in LowByte  -> <<Lo(Label(r).addr)>>
    [] r.rune \in Absolute -> <<Hi(Label(r).addr), Lo(Label(r).addr)>>
    [] OTHER               -> <<Hi(Rel(r)), Lo(Rel(r))>>     \* Distance

Resolving == phase = "resolve" /\ resolved < Len(refs)

ResolveRef ==
  /\ Resolving
  /\ Known(ref) /\ Fits(ref)
  /\ data' = [a \in Short |-> IF a - ref.addr \in 0 .. Width(ref.rune) - 1
                               THEN Value(ref)[a - ref.addr + 1] ELSE data[a]]
  /\ resolved' = resolved + 1
  /\ UNCHANGED <<phase, todo, ptr, length, names, refs, lambdas, rom>>

ErrorRef == Resolving /\ ~(Known(ref) /\ Fits(ref)) /\ Fails

Build ==
  /\ phase = "resolve" /\ resolved = Len(refs)
  /\ rom' = SubSeq([a \in 1 .. PAGE_SIZE |-> data[a - 1]], PAGE_PROGRAM + 1, length)
  /\ phase' = "built"
  /\ UNCHANGED <<todo, out, names, refs, lambdas, resolved>>

AsmNext ==
  \/ WriteHex \/ WritePad \/ MakeLabel \/ CloseLambda \/ MakeRef \/ MakeMacro \/ WalkMacro
  \/ ErrorAsm \/ ParseEnds \/ ResolveRef \/ ErrorRef \/ Build

AsmSpec == AsmInit /\ [][AsmNext]_asm

-----------------------------------------------------------------------------
(* Properties.                                                             *)

AsmTypeOK ==
  /\ phase \in {"parse", "resolve", "built", "failed"}
  /\ todo \in Seq(Token)
  /\ ptr \in Nat /\ length \in 0 .. PAGE_SIZE
  /\ data \in [Short -> Byte]
  /\ labels \in Seq([name : Name, addr : Short])
  /\ refs \in Seq([name : Name, rune : Runes, addr : Short])
  /\ macros \in Seq([name : Name, body : Seq(Token)])
  /\ scope \in Words
  /\ lambda_stack \in [Byte -> Byte] /\ lambda_ptr \in Byte /\ lambda_len \in Byte
  /\ resolved \in 0 .. Len(refs)
  /\ rom \in Seq(Byte)

\* What is laid out is in the file: whatever pads and rewinds the source makes, no byte but
\* zeros lies before the program's page or behind the length build writes
\* (writebyte, build).
Kept == \A a \in Short : data[a] # 0 => a \in PAGE_PROGRAM .. length - 1

\* The places of two references do not overlap, and both lie inside the file: resolve,
\* which trusts the addresses it noted, changes nothing else (makeref, resolve).
Place(r) == r.addr .. r.addr + Width(r.rune) - 1
RefsApart ==
  /\ \A i \in DOMAIN refs : Place(refs[i]) \subseteq PAGE_PROGRAM .. length - 1
  /\ \A i, j \in DOMAIN refs : i # j => Place(refs[i]) \cap Place(refs[j]) = {}

\* A name means one thing: no two labels or macros, and no label and macro, bear the same
\* (makelabel, makemacro).
OneMeaning ==
  /\ \A i, j \in DOMAIN labels : labels[i].name = labels[j].name => i = j
  /\ \A i, j \in DOMAIN macros : macros[i].name = macros[j].name => i = j
  /\ \A i \in DOMAIN labels, j \in DOMAIN macros : labels[i].name # macros[j].name

\* The image that resolve changes and build writes, and the names it is changed by.
ImageSound == AsmTypeOK /\ Kept /\ RefsApart /\ OneMeaning

\* A lambda that opens inside another one ends inside it: wherever pads have put its label,
\* the brace that closes ends the last of those that have not ended.  This is so as long
\* as their numbers, of one byte, do not begin again (makeref, parse).
IsLambda(r) == r.name[1] = "{"
OneNumber   == \A i, j \in DOMAIN refs : IsLambda(refs[i]) /\ refs[i].name = refs[j].name => i = j
LambdasNest ==
  [][OneNumber =>
       \A i, j \in DOMAIN refs :
         IsLambda(refs[i]) /\ IsLambda(refs[j]) /\ i < j /\ ~Known(refs[i]) /\ Known(refs[i])'
           => Known(refs[j])]_asm
=============================================================================
