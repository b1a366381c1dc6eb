------------------------------- MODULE Marshal -------------------------------
(***************************************************************************)
(* Values of JavaScript as arguments of messages (src/src/ajs_marshal.c)   *)
(* and arguments of messages as values (src/src/ajs_unmarshal.c): a script *)
(* sends a value for a signature, and another reads what arrives.  The     *)
(* format of messages, in the thin client library, is external: a message  *)
(* body is a tree here.                                                    *)
(*                                                                         *)
(* A signature is <<"y">>, <<"a", T>>, <<"(", <<T, T>>>>, <<"e", T>> for   *)
(* an entry of a dictionary whose keys are strings, or <<"v">>.  A value   *)
(* of JavaScript is <<"number", n>> (n counts halves), <<"boolean", b>>,   *)
(* <<"string", s>>, <<"array", elements>>, <<"buffer", elements>>, or      *)
(* <<"object", entries>> with the keys and values in their order.          *)
(***************************************************************************)
EXTENDS Integers, Sequences, SequencesExt

CONSTANTS
  Scalars,   \* signatures of scalars, of "y", "b", "i" and "d"
  Numbers    \* numbers, in halves; all are in the range of the scalars

VARIABLES
  sig,       \* the signature
  value,     \* what the script has passed
  body,      \* of the message: <<"none">>, <<"error">>, or what was marshalled
  got        \* what the other script reads

vars == <<sig, value, body, got>>

Undefined == <<"undefined">>
Error == <<"error">>
NaN == -99
Ok(w) == w # Error

-----------------------------------------------------------------------------
(* Marshalling                                                             *)

\* Everything is converted to a number: an array of one number is that number, and
\* what is no number is "not a number", which no scalar but a double can hold.
RECURSIVE ToNumber(_)
ToNumber(v) ==
  CASE v[1] = "number" -> v[2]
    [] v[1] = "boolean" -> IF v[2] THEN 2 ELSE 0
    [] v = <<"string", "one">> -> 2
    [] v[1] = "array" /\ v[2] = << >> -> 0
    [] v[1] = "array" /\ Len(v[2]) = 1 /\ v[2][1][1] # "boolean" -> ToNumber(v[2][1])
    [] OTHER -> NaN

\* Mutant: a boolean is whether the number is not 0.
MarshalTruth(typeId, n) ==
  CASE typeId = "b" -> <<"b", n # 0>>
    [] typeId = "d" \/ n = NaN -> <<typeId, n>>
    [] OTHER -> <<typeId, n \div 2>>

\* Fractions are cut off; a boolean is whether something is left.
MarshalScalarArg(typeId, n) ==
  CASE typeId = "b" -> <<"b", n \div 2 # 0>>
    [] typeId = "d" \/ n = NaN -> <<typeId, n>>
    [] OTHER -> <<typeId, n \div 2>>

\* The first element that is undefined ends an array.
Elements(v) == SelectInSubSeq(v, 1, Len(v), LAMBDA x : x = Undefined)
Defined(v) == IF Elements(v) = 0 THEN v ELSE SubSeq(v, 1, Elements(v) - 1)

Container(kind, parts) == IF Error \in Range(parts) THEN Error ELSE <<kind, parts>>

RECURSIVE MarshalJSArg(_, _)

\* An object with one property, whose name is the signature.
MarshalVariantArg(v) ==
  IF Len(v[2]) # 1 \/ v[2][1][1][1] # "signature" THEN Error
  ELSE LET inner == MarshalJSArg(v[2][1][1][2], v[2][1][2]) IN
       IF Ok(inner) THEN <<"v", v[2][1][1][2], inner>> ELSE Error

MarshalJSDict(T, v) ==
  Container("dict", [i \in 1..Len(v[2]) |->
    LET inner == MarshalJSArg(T, v[2][i][2]) IN
    IF Ok(inner) THEN <<v[2][i][1], inner>> ELSE Error])

\* The container takes as many as its signature has.
MarshalJSArray(T, v) ==
  LET elements == Defined(v[2]) IN
  IF T[1] = "a" THEN Container("array", [i \in 1..Len(elements) |-> MarshalJSArg(T[2], elements[i])])
  ELSE IF Len(elements) # Len(T[2]) THEN Error
  ELSE Container("struct", [i \in 1..Len(elements) |-> MarshalJSArg(T[2][i], elements[i])])

\* A buffer holds scalars as they are in memory.
MarshalJSBuffer(T, v) == <<"array", [i \in 1..Len(v[2]) |-> MarshalScalarArg(T[1], 2 * v[2][i])]>>

MarshalJSArg(T, v) ==
  CASE T[1] \in Scalars -> MarshalScalarArg(T[1], ToNumber(v))
    [] T[1] = "s" -> IF v[1] = "string" THEN v ELSE Error
    [] T[1] = "v" -> IF v[1] = "object" THEN MarshalVariantArg(v) ELSE Error
    [] T[1] = "(" -> IF v[1] = "array" THEN MarshalJSArray(T, v) ELSE Error
    [] T[1] = "a" /\ v[1] = "array" -> IF T[2][1] = "e" /\ Defined(v[2]) # << >> THEN Error
                                       ELSE IF T[2][1] = "e" THEN <<"dict", << >>>>
                                       ELSE MarshalJSArray(T, v)
    [] T[1] = "a" /\ v[1] = "buffer" /\ T[2][1] \in Scalars -> MarshalJSBuffer(T[2], v)
    [] T[1] = "a" /\ v[1] = "object" /\ T[2][1] = "e" -> MarshalJSDict(T[2][2], v)
    [] OTHER -> Error

-----------------------------------------------------------------------------
(* Unmarshalling                                                           *)

PushScalarArg(w) ==
  CASE w[1] = "b" -> <<"boolean", w[2]>>
    [] w[1] = "d" -> <<"number", w[2]>>
    [] OTHER -> <<"number", 2 * w[2]>>

RECURSIVE PushArg(_, _)

PushDictionaryArg(T, w) ==
  <<"object", [i \in 1..Len(w[2]) |-> <<w[2][i][1], PushArg(T, w[2][i][2])>>]>>

PushContainerArg(T, w) ==
  <<"array", [i \in 1..Len(w[2]) |-> PushArg(IF T[1] = "a" THEN T[2] ELSE T[2][i], w[2][i])]>>

\* Only bytes are read as a buffer.
PushScalarArrayArg(w) == <<"buffer", [i \in 1..Len(w[2]) |-> w[2][i][2]]>>

PushArg(T, w) ==
  CASE T[1] = "v" -> PushArg(w[2], w[3])
    [] T[1] \in Scalars -> PushScalarArg(w)
    [] T[1] = "s" -> w
    [] T[1] = "(" -> PushContainerArg(T, w)
    [] T[1] = "a" /\ T[2][1] = "e" -> PushDictionaryArg(T[2][2], w)
    [] T[1] = "a" /\ T[2][1] = "y" -> PushScalarArrayArg(w)
    [] OTHER -> PushContainerArg(T, w)

-----------------------------------------------------------------------------
(* The inputs: signatures of depth three at most and values for them       *)

Basic == {<<s>> : s \in Scalars} \union {<<"s">>}
Flat == Basic \union {<<"v">>}
Signatures ==
  Flat \union {<<"a", T>> : T \in Flat} \union {<<"a", <<"e", T>>>> : T \in Flat}
    \union {<<"(", <<T, U>>>> : T \in Flat, U \in {<<"s">>, <<"v">>}}
    \union {<<"a", <<"(", <<<<"y">>, T>>>>>> : T \in Flat}
    \union {<<"a", <<"a", T>>>> : T \in Basic}

Simple == {<<"number", n>> : n \in Numbers} \union {<<"boolean", TRUE>>, <<"string", "one">>, <<"string", "x">>}
Arrays(vs) == {<<"array", a>> : a \in UNION {[1..n -> vs] : n \in 0..2}}
Variants(Ts, vs) == {<<"object", <<<<<<"signature", T>>, v>>>>>> : T \in Ts, v \in vs}
Dicts(vs) == {<<"object", << >>>>} \union {<<"object", <<<<<<"string", "k">>, v>>>>>> : v \in vs}
Buffers == {<<"buffer", << >>>>, <<"buffer", <<1, 0>>>>}
Level1 == Simple \union Buffers \union Variants(Basic, Simple)
               \union {<<"array", <<v, Undefined>>>> : v \in Simple}
JSValues ==
  Level1 \union Arrays(Level1) \union Dicts(Level1) \union Variants({<<"a", T>> : T \in Basic}, Arrays(Simple))
         \union {<<"array", <<v>>>> : v \in Arrays(Simple)}

-----------------------------------------------------------------------------
Init ==
  /\ sig \in Signatures /\ value = Undefined /\ body = <<"none">> /\ got = Undefined

\* A script passes a value for the signature: an argument, a reply, a property.
Send ==
  /\ value = Undefined /\ \E v \in JSValues : value' = v
  /\ body' = MarshalJSArg(sig, value') /\ UNCHANGED <<sig, got>>

Receive ==
  /\ value # Undefined /\ Ok(body) /\ got = Undefined
  /\ got' = PushArg(sig, body) /\ UNCHANGED <<sig, value, body>>

\* The next message has the same signature.
Again ==
  /\ value # Undefined /\ (body = Error \/ got # Undefined)
  /\ value' = Undefined /\ body' = <<"none">> /\ got' = Undefined /\ UNCHANGED sig

Next == Send \/ Receive \/ Again

Spec == Init /\ [][Next]_vars

-----------------------------------------------------------------------------
(* Properties                                                              *)

RECURSIVE Same(_, _, _)

\* What the values of two scripts have in common for a signature: what is no number
\* is anything where a scalar is due, numbers may lose their fraction, variants
\* their name, and bytes may be in an array or a buffer.
Same(T, a, b) ==
  CASE T[1] \in Scalars /\ ToNumber(a) = NaN -> TRUE
    [] T[1] \in Scalars -> IF T[1] = "b" THEN b = <<"boolean", ToNumber(a) >= 2>>
                           ELSE b[1] = "number" /\ ToNumber(a) - b[2] \in (IF T[1] = "d" THEN {0} ELSE {0, 1})
    [] T[1] = "s" -> a = b
    [] T[1] = "v" -> Same(a[2][1][1][2], a[2][1][2], b)
    [] T[1] = "(" -> /\ b[1] = "array" /\ Len(b[2]) = Len(T[2])
                     /\ \A i \in 1..Len(b[2]) : Same(T[2][i], a[2][i], b[2][i])
    [] T[1] = "a" /\ T[2][1] = "e" ->
         IF a[1] = "object"
         THEN /\ b[1] = "object" /\ Len(b[2]) = Len(a[2])
              /\ \A i \in 1..Len(b[2]) : b[2][i][1] = a[2][i][1] /\ Same(T[2][2], a[2][i][2], b[2][i][2])
         ELSE b = <<"object", << >>>>
    [] OTHER ->
         /\ b[1] = (IF T[2][1] = "y" THEN "buffer" ELSE "array")
         /\ LET from == IF a[1] = "buffer" THEN a[2] ELSE Defined(a[2])
                In(i) == IF a[1] = "buffer" THEN <<"number", 2 * from[i]>> ELSE from[i]
                Out(i) == IF T[2][1] = "y" THEN <<"number", 2 * b[2][i]>> ELSE b[2][i] IN
            Len(b[2]) = Len(from) /\ \A i \in 1..Len(from) : Same(T[2], In(i), Out(i))

\* A value that could be marshalled is what the other script reads (MarshalJSArg,
\* PushArg), though a sparse array is only read as far as its first gap.
RoundTrip == got # Undefined => Same(sig, value, got)
=============================================================================
