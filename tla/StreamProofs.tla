---------------------------- MODULE StreamProofs ----------------------------
(***************************************************************************)
(* Proofs about DebugTarget for all calls, names, numbers, places and      *)
(* values that go through the streams (StreamAssumption), and for lists of *)
(* all lengths.                                                            *)
(*                                                                         *)
(* A request is understood because what the target encodes is what the     *)
(* interpreter decodes, and the pieces it reads add up to the request.  A  *)
(* message is found whole because the scanner goes smoothly over every     *)
(* value (Smooth: never at the end of a message, never stuck) to where its *)
(* end may follow, wherever it is cut.  It arrives as it was sent because  *)
(* each value is taken from the position where it was put (At), and leads  *)
(* to the position of the next.                                            *)
(***************************************************************************)
EXTENDS DebugTarget, DebuggerProofs, Loops, SequenceTheorems, TLAPS

-----------------------------------------------------------------------------
(* Bytes                                                                   *)

Octets == Seq(Byte)

\* The bytes s are in b from position i on.
At(b, i, s) == i + Len(s) - 1 <= Len(b) /\ \A k \in 1..Len(s) : b[i + k - 1] = s[k]

LEMMA JoinedBytes ==
  ASSUME NEW s \in Octets, NEW t \in Octets
  PROVE  /\ s \o t \in Octets /\ Len(s \o t) = Len(s) + Len(t) /\ Len(s) \in Nat /\ Len(t) \in Nat
         /\ \A i \in 1..Len(s) : (s \o t)[i] = s[i]
         /\ \A i \in 1..Len(t) : (s \o t)[Len(s) + i] = t[i]
BY ConcatProperties, LenProperties DEF Octets

LEMMA OneByte ==
  ASSUME NEW x \in Byte
  PROVE  <<x>> \in Octets /\ Len(<<x>>) = 1 /\ <<x>>[1] = x
BY DEF Octets

LEMMA Assoc ==
  ASSUME NEW s \in Octets, NEW t \in Octets, NEW u \in Octets
  PROVE  (s \o t) \o u = s \o (t \o u)
BY ConcatAssociative DEF Octets

LEMMA Cut ==
  ASSUME NEW s \in Octets, NEW n \in 1..Len(s)
  PROVE  /\ SubSeq(s, 1, n) \in Octets /\ SubSeq(s, n + 1, Len(s)) \in Octets
         /\ Len(SubSeq(s, 1, n)) = n /\ Len(SubSeq(s, n + 1, Len(s))) = Len(s) - n
         /\ SubSeq(s, 1, n) \o SubSeq(s, n + 1, Len(s)) = s
<1>1. Len(s) \in Nat /\ n \in Nat /\ n >= 1 /\ n <= Len(s) /\ \A k \in 1..Len(s) : s[k] \in Byte
  BY LenProperties DEF Octets
<1>2. SubSeq(s, 1, n) \in Octets /\ Len(SubSeq(s, 1, n)) = n
  BY <1>1, SubSeqProperties DEF Octets
<1>3. SubSeq(s, n + 1, Len(s)) \in Octets /\ Len(SubSeq(s, n + 1, Len(s))) = Len(s) - n
  <2> DEFINE m == n + 1
             l == Len(s)
  <2>1. m \in Int /\ l \in Int /\ \A k \in m..l : s[k] \in Byte
    BY <1>1
  <2>2. SubSeq(s, m, l) \in Octets /\ Len(SubSeq(s, m, l)) = IF m <= l THEN l - m + 1 ELSE 0
    BY <2>1, SubSeqProperties DEF Octets
  <2> QED BY <1>1, <2>2
<1>4. SubSeq(s, 1, n) \o SubSeq(s, n + 1, Len(s)) = SubSeq(s, 1, Len(s))
  <2>1. 1 \in 1..Len(s) + 1 /\ n \in (1 - 1)..Len(s) /\ Len(s) \in n..Len(s)
    BY <1>1
  <2> QED BY <2>1, ConcatAdjacentSubSeq DEF Octets
<1>5. SubSeq(s, 1, Len(s)) = s
  BY SubSeqFull DEF Octets
<1> QED BY <1>2, <1>3, <1>4, <1>5

LEMMA AtItself == ASSUME NEW b \in Octets PROVE At(b, 1, b)
BY LenProperties DEF At, Octets

LEMMA AtParts ==
  ASSUME NEW b \in Octets, NEW i \in Nat \ {0}, NEW s \in Octets, NEW t \in Octets, At(b, i, s \o t)
  PROVE  At(b, i, s) /\ At(b, i + Len(s), t)
<1>1. /\ Len(s \o t) = Len(s) + Len(t) /\ Len(s) \in Nat /\ Len(t) \in Nat /\ Len(b) \in Nat
      /\ \A k \in 1..Len(s) : (s \o t)[k] = s[k]
      /\ \A k \in 1..Len(t) : (s \o t)[Len(s) + k] = t[k]
  BY JoinedBytes, LenProperties DEF Octets
<1>2. \A k \in 1..Len(s) + Len(t) : b[i + k - 1] = (s \o t)[k]
  BY <1>1 DEF At
<1>3. At(b, i, s)
  BY <1>1, <1>2 DEF At
<1>4. ASSUME NEW k \in 1..Len(t) PROVE b[i + Len(s) + k - 1] = t[k]
  <2>1. Len(s) + k \in 1..Len(s) + Len(t) /\ i + (Len(s) + k) - 1 = i + Len(s) + k - 1
    BY <1>1
  <2> QED BY <1>1, <1>2, <2>1
<1>5. At(b, i + Len(s), t)
  BY <1>1, <1>4 DEF At
<1> QED BY <1>3, <1>5

LEMMA AtByte ==
  ASSUME NEW b \in Octets, NEW i \in Nat \ {0}, NEW x \in Byte, At(b, i, <<x>>)
  PROVE  b[i] = x /\ i <= Len(b)
BY OneByte, LenProperties DEF At, Octets

LEMMA AtBytes ==
  ASSUME NEW b \in Octets, NEW i \in Nat \ {0}, NEW s \in Octets, At(b, i, s)
  PROVE  Stream!Bytes(b, i, Len(s)) = s
<1>1. Len(s) \in Nat /\ Len(b) \in Nat /\ \A k \in 1..Len(b) : b[k] \in Byte
  BY LenProperties DEF Octets
<1> DEFINE m == i + Len(s) - 1
           u == SubSeq(b, i, m)
<1>2. \A k \in i..m : b[k] \in Byte
  BY <1>1 DEF At
<1>3. /\ u \in Octets /\ Len(u) = IF i <= m THEN m - i + 1 ELSE 0
      /\ \A k \in 1..m - i + 1 : u[k] = b[i + k - 1]
  BY <1>1, <1>2, SubSeqProperties DEF Octets
<1>4. Len(u) = Len(s) /\ m - i + 1 = Len(s)
  BY <1>1, <1>3
<1> HIDE DEF m, u
<1>5. \A k \in 1..Len(s) : u[k] = s[k]
  BY <1>3, <1>4 DEF At
<1>6. u = s
  BY <1>3, <1>4, <1>5, SeqEqual DEF Octets
<1> QED BY <1>6 DEF u, m, Stream!Bytes

-----------------------------------------------------------------------------
(* Integers and strings                                                    *)

LEMMA Halves ==
  ASSUME NEW n \in Nat, n > 63, n <= 16383
  PROVE  /\ n \div 256 \in Nat /\ n \div 256 <= 63 /\ n % 256 \in Nat /\ n % 256 <= 255 /\ ((n \div 256) * 256) + (n % 256) = n
         /\ 192 + (n \div 256) \in Byte /\ n % 256 \in Byte
<1>1. n \div 256 \in Nat /\ n \div 256 <= 63 /\ n % 256 \in Nat /\ n % 256 <= 255
  OBVIOUS
<1>2. ((n \div 256) * 256) + (n % 256) = n
  OBVIOUS
<1> QED BY <1>1, <1>2 DEF Byte

LEMMA TwoBytes ==
  ASSUME NEW x \in Byte, NEW y \in Byte
  PROVE  <<x, y>> \in Octets /\ Len(<<x, y>>) = 2 /\ <<x, y>>[1] = x /\ <<x, y>>[2] = y
BY DEF Octets

LEMMA NumberBytes ==
  ASSUME NEW n \in Nat, n <= 16383
  PROVE  Stream!IntEncode(n) \in Octets
<1>1. CASE n <= 63
  <2>1. 128 + n \in Byte
    BY <1>1 DEF Byte
  <2> QED BY <1>1, <2>1, OneByte DEF Stream!IntEncode
<1>2. CASE n > 63
  <2>1. 192 + (n \div 256) \in Byte /\ n % 256 \in Byte
    BY <1>2, Halves
  <2> QED BY <1>2, <2>1, TwoBytes DEF Stream!IntEncode
<1> QED BY <1>1, <1>2

LEMMA NumberDecoded ==
  ASSUME NEW b \in Octets, NEW i \in Nat \ {0}, NEW n \in Nat, n <= 16383,
         At(b, i, Stream!IntEncode(n))
  PROVE  Stream!IntDecode(b, i) = [val |-> n, adv |-> Len(Stream!IntEncode(n))]
<1>1. CASE n <= 63
  <2>1. Stream!IntEncode(n) = <<128 + n>> /\ 128 + n \in Byte /\ Len(<<128 + n>>) = 1
    BY <1>1 DEF Stream!IntEncode, Byte
  <2>2. b[i] = 128 + n
    BY <2>1, AtByte
  <2>3. b[i] \in Stream!SmallInt /\ b[i] \notin Stream!LargeInt /\ b[i] - 128 = n
    BY <1>1, <2>2 DEF Stream!SmallInt, Stream!LargeInt
  <2> QED BY <2>1, <2>3 DEF Stream!IntDecode
<1>2. CASE n > 63
  <2> DEFINE x == 192 + (n \div 256)
             y == n % 256
  <2>1. /\ x \in Nat /\ x >= 192 /\ x <= 255 /\ y \in Nat /\ (x - 192) * 256 + y = n
        /\ x \in Byte /\ y \in Byte
    BY <1>2, Halves
  <2>2. Stream!IntEncode(n) = <<x, y>>
    BY <1>2 DEF Stream!IntEncode
  <2> HIDE DEF x, y
  <2>3. b[i] = x /\ b[i + 1] = y /\ Len(<<x, y>>) = 2
    BY <2>1, <2>2, TwoBytes DEF At
  <2>4. b[i] \in Stream!LargeInt /\ b[i] \notin Stream!SmallInt
    BY <2>1, <2>3 DEF Stream!LargeInt, Stream!SmallInt
  <2>5. (b[i] - 192) * 256 + b[i + 1] = n
    BY <2>1, <2>3
  <2> QED BY <2>2, <2>3, <2>4, <2>5 DEF Stream!IntDecode
<1> QED BY <1>1, <1>2

LEMMA NameLength ==
  ASSUME NEW s, IsName(s)
  PROVE  /\ s \in Octets /\ Len(s) \in Nat /\ Len(s) <= 31 /\ 96 + Len(s) \in Byte
         /\ Len(s) % 32 = Len(s)
<1>1. s \in Octets /\ Len(s) <= 31
  BY DEF IsName, Octets
<1>2. Len(s) \in Nat
  BY <1>1, LenProperties DEF Octets
<1>3. \A l \in Nat : l <= 31 => 96 + l \in 0..255 /\ l % 32 = l
  OBVIOUS
<1> QED BY <1>1, <1>2, <1>3 DEF Byte

LEMMA StringBytes ==
  ASSUME NEW s, IsName(s)
  PROVE  /\ <<96 + Len(s)>> \in Octets /\ Len(<<96 + Len(s)>>) = 1
         /\ Stream!DukString(s) \in Octets /\ Len(Stream!DukString(s)) = 1 + Len(s)
         /\ Stream!NameEncode(s) = Stream!DukString(s)
<1>1. Stream!NameEncode(s) = Stream!DukString(s)
  BY NameLength, Zenon DEF Stream!NameEncode, Stream!DukString
<1>2. <<96 + Len(s)>> \in Octets /\ Len(<<96 + Len(s)>>) = 1
  BY NameLength, OneByte
<1>3. Stream!DukString(s) \in Octets /\ Len(Stream!DukString(s)) = 1 + Len(s)
  BY NameLength, <1>2, JoinedBytes, Zenon DEF Stream!DukString
<1> QED BY <1>1, <1>2, <1>3

LEMMA StringDecoded ==
  ASSUME NEW b \in Octets, NEW i \in Nat \ {0}, NEW s, IsName(s), At(b, i, Stream!DukString(s))
  PROVE  Stream!StringDecode(b, i) = [val |-> s, adv |-> Len(Stream!DukString(s))]
<1>1. s \in Octets /\ Len(s) \in Nat /\ Len(s) <= 31 /\ 96 + Len(s) \in Byte
  BY NameLength
<1>2. At(b, i, <<96 + Len(s)>>) /\ At(b, i + 1, s)
  <2>1. At(b, i, <<96 + Len(s)>>) /\ At(b, i + Len(<<96 + Len(s)>>), s)
    <3>1. At(b, i, <<96 + Len(s)>> \o s)
      BY Zenon DEF Stream!DukString
    <3>2. <<96 + Len(s)>> \in Octets
      BY StringBytes
    <3>3. s \in Octets
      BY <1>1
    <3> QED BY <3>1, <3>2, <3>3, AtParts
  <2> QED BY <2>1, StringBytes, Zenon
<1>3. b[i] = 96 + Len(s)
  BY <1>1, <1>2, AtByte
<1>4. /\ b[i] \in Stream!ShortString /\ b[i] # Stream!STRING2 /\ b[i] - 96 = Len(s)
      /\ 1 + b[i] - 96 = 1 + Len(s)
  <2>1. \A l \in Nat : l <= 31 => /\ 96 + l \in 96..127 /\ 96 + l # 18 /\ (96 + l) - 96 = l
                                  /\ 1 + (96 + l) - 96 = 1 + l
    OBVIOUS
  <2>2. /\ 96 + Len(s) \in 96..127 /\ 96 + Len(s) # 18 /\ (96 + Len(s)) - 96 = Len(s)
        /\ 1 + (96 + Len(s)) - 96 = 1 + Len(s)
    BY <1>1, <2>1
  <2> QED BY <1>3, <2>2, Zenon DEF Stream!ShortString, Stream!STRING2
<1>5. Stream!Bytes(b, i + 1, b[i] - 96) = s
  <2>1. i + 1 \in Nat \ {0}
    OBVIOUS
  <2> QED BY <1>1, <1>2, <1>4, <2>1, AtBytes
<1> QED BY <1>4, <1>5, StringBytes DEF Stream!StringDecode

-----------------------------------------------------------------------------
(* Requests                                                                *)

LEMMA RequestParts ==
  ASSUME NEW command \in Nat, command <= 63, NEW args \in Octets, NEW b, b = Stream!Request(command, args)
  PROVE  /\ b \in Octets /\ Len(b) = Len(args) + 3 /\ b # <<>>
         /\ b[2] - 128 = command /\ At(b, 3, args)
<1> DEFINE head == <<Stream!REQ, 128 + command>>
           end == <<Stream!EOM>>
<1>1. Stream!REQ \in Byte /\ 128 + command \in Byte /\ Stream!EOM \in Byte
  BY DEF Byte, Stream!REQ, Stream!EOM
<1>2. head \in Octets /\ Len(head) = 2 /\ head[2] = 128 + command /\ end \in Octets /\ Len(end) = 1
  BY <1>1, OneByte, TwoBytes
<1> HIDE DEF head, end
<1>3. /\ head \o args \in Octets /\ Len(head \o args) = 2 + Len(args) /\ Len(args) \in Nat
      /\ (head \o args)[2] = 128 + command
  <2>1. 2 \in 1..Len(head)
    BY <1>2
  <2>2. /\ head \o args \in Octets /\ Len(head \o args) = Len(head) + Len(args) /\ Len(args) \in Nat
        /\ (head \o args)[2] = head[2]
    BY <1>2, <2>1, JoinedBytes
  <2> QED BY <1>2, <2>2
<1>4. b = (head \o args) \o end
  BY DEF Stream!Request, head, end
<1>5. /\ b \in Octets /\ Len(b) = 2 + Len(args) + 1 /\ b[2] = 128 + command
  <2> DEFINE w == head \o args
             v == w \o end
  <2>1. /\ w \in Octets /\ end \in Octets /\ Len(w) = 2 + Len(args) /\ Len(args) \in Nat
        /\ w[2] = 128 + command /\ b = v /\ Len(end) = 1
    BY <1>2, <1>3, <1>4
  <2> HIDE DEF w
  <2>2. 2 \in 1..Len(w)
    BY <2>1
  <2>6. v \in Octets /\ Len(v) = Len(w) + Len(end) /\ \A i \in 1..Len(w) : v[i] = w[i]
    BY <2>1, JoinedBytes
  <2> HIDE DEF v
  <2>3. b = v /\ v \in Octets /\ v[2] = w[2] /\ w[2] = 128 + command
    BY <2>1, <2>2, <2>6
  <2>4. Len(v) = Len(w) + Len(end) /\ Len(w) = 2 + Len(args) /\ Len(end) = 1 /\ Len(args) \in Nat
    BY <2>1, <2>6
  <2>5. Len(v) = 2 + Len(args) + 1
    BY <2>4
  <2> QED BY <2>3, <2>5, Zenon
<1>6. At(b, 1, (head \o args) \o end)
  BY <1>4, <1>5, AtItself
<1>7. At(b, 1, head \o args)
  BY <1>2, <1>3, <1>5, <1>6, AtParts
<1>8. At(b, 1 + Len(head), args)
  <2>1. 1 \in Nat \ {0}
    OBVIOUS
  <2> QED BY <1>2, <1>5, <1>7, <2>1, AtParts, Zenon
<1>9. b # <<>> /\ b[2] - 128 = command /\ Len(b) = Len(args) + 3
  BY <1>3, <1>5
<1> QED BY <1>2, <1>5, <1>8, <1>9

LEMMA RequestLength ==
  ASSUME NEW command \in Nat, command <= 63, NEW args \in Octets
  PROVE  Len(Stream!Request(command, args)) = Len(args) + 3
BY RequestParts

\* A break point arrives with its file and line.
LEMMA BreakUnderstood ==
  ASSUME NEW s, IsName(s), NEW n \in Nat, Stream!LineFits(n),
         NEW b, b = Stream!DebugAddBreak(s, n)
  PROVE  /\ b \in Octets /\ b # <<>> /\ Stream!DukRequest(b) = [name |-> s, line |-> n]
<1> DEFINE str == Stream!DukString(s)
           num == Stream!IntEncode(n)
<1>1. str \in Octets /\ num \in Octets /\ Stream!NameEncode(s) = str /\ n <= 16383
  <2>1. n <= 16383
    BY DEF Stream!LineFits
  <2>2. str \in Octets /\ Stream!NameEncode(s) = str
    BY StringBytes
  <2>3. num \in Octets
    BY <2>1, NumberBytes
  <2> QED BY <2>1, <2>2, <2>3
<1>2. b = Stream!Request(Stream!ADD_BREAK_REQ, str \o num)
  BY <1>1 DEF Stream!DebugAddBreak
<1>3. str \o num \in Octets /\ Len(str) \in Nat
  BY <1>1, JoinedBytes
<1>4. b \in Octets /\ b # <<>> /\ b[2] - 128 = Stream!ADD_BREAK_REQ /\ At(b, 3, str \o num)
  <2>1. Stream!ADD_BREAK_REQ \in Nat /\ Stream!ADD_BREAK_REQ <= 63
    BY DEF Stream!ADD_BREAK_REQ
  <2> HIDE DEF str, num
  <2>2. /\ b \in Octets /\ b # <<>> /\ b[2] - 128 = Stream!ADD_BREAK_REQ /\ At(b, 3, str \o num)
    BY <1>2, <1>3, <2>1, RequestParts, Zenon
  <2> QED BY <2>2
<1>5. At(b, 3, str) /\ At(b, 3 + Len(str), num)
  BY <1>1, <1>4, AtParts
<1>6. Stream!StringDecode(b, 3) = [val |-> s, adv |-> Len(str)]
  BY <1>4, <1>5, StringDecoded
<1>7. 3 + Len(str) \in Nat \ {0}
  BY <1>3
<1>8. Stream!IntDecode(b, 3 + Len(str)).val = n
  BY <1>1, <1>4, <1>5, <1>7, NumberDecoded
<1> HIDE DEF str, num
<1> QED BY <1>4, <1>6, <1>8 DEF Stream!DukRequest, Stream!ADD_BREAK_REQ, Stream!DEL_BREAK_REQ,
                 Stream!GET_VAR_REQ, Stream!EVAL_REQ, Stream!PUT_VAR_REQ

\* The deletion of a break point arrives with its index.
LEMMA DeletionUnderstood ==
  ASSUME NEW n \in Nat, n <= 63, NEW b, b = Stream!DebugDelBreak(n)
  PROVE  /\ b \in Octets /\ b # <<>> /\ Stream!DukRequest(b) = [line |-> n]
<1> DEFINE num == Stream!IntEncode(n)
<1>1. num = <<128 + n>> /\ num \in Octets /\ n <= 16383
  <2>1. n <= 16383
    OBVIOUS
  <2>2. num \in Octets
    BY <2>1, NumberBytes
  <2> QED BY <2>1, <2>2 DEF Stream!IntEncode
<1>2. b = Stream!Request(Stream!DEL_BREAK_REQ, num)
  BY <1>1 DEF Stream!DebugDelBreak
<1>3. b \in Octets /\ b # <<>> /\ b[2] - 128 = Stream!DEL_BREAK_REQ /\ At(b, 3, num)
  <2>1. Stream!DEL_BREAK_REQ \in Nat /\ Stream!DEL_BREAK_REQ <= 63
    BY DEF Stream!DEL_BREAK_REQ
  <2> HIDE DEF num
  <2>2. num \in Octets
    BY <1>1
  <2> QED BY <1>2, <2>1, <2>2, RequestParts, Zenon
<1>4. Stream!IntDecode(b, 3).val = n
  BY <1>1, <1>3, NumberDecoded
<1> HIDE DEF num
<1> QED BY <1>3, <1>4 DEF Stream!DukRequest, Stream!ADD_BREAK_REQ, Stream!DEL_BREAK_REQ,
                 Stream!GET_VAR_REQ, Stream!EVAL_REQ, Stream!PUT_VAR_REQ

\* So does the name of a variable to look up and an expression to evaluate.
LEMMA NameUnderstood ==
  ASSUME NEW s, IsName(s), NEW command \in {Stream!GET_VAR_REQ, Stream!EVAL_REQ},
         NEW b, b = Stream!Request(command, Stream!NameEncode(s))
  PROVE  /\ b \in Octets /\ b # <<>> /\ Stream!DukRequest(b) = [name |-> s]
<1> DEFINE str == Stream!DukString(s)
<1>1. str \in Octets /\ Stream!NameEncode(s) = str
  BY StringBytes
<1>2. command \in Nat /\ command <= 63
  BY DEF Stream!GET_VAR_REQ, Stream!EVAL_REQ
<1>3. b \in Octets /\ b # <<>> /\ b[2] - 128 = command /\ At(b, 3, str)
  <2> HIDE DEF str
  <2> QED BY <1>1, <1>2, RequestParts, Zenon
<1>4. Stream!StringDecode(b, 3).val = s
  BY <1>3, StringDecoded
<1>5. command \in {26, 30}
  BY DEF Stream!GET_VAR_REQ, Stream!EVAL_REQ
<1> HIDE DEF str
<1>6. Stream!DukRequest(b) = [name |-> Stream!StringDecode(b, 3).val]
  <2>1. b[2] - 128 = 26 \/ b[2] - 128 = 30
    BY <1>3, <1>5
  <2> QED BY <2>1 DEF Stream!DukRequest, Stream!ADD_BREAK_REQ, Stream!DEL_BREAK_REQ,
       Stream!GET_VAR_REQ, Stream!EVAL_REQ, Stream!PUT_VAR_REQ
<1> QED BY <1>3, <1>4, <1>6

\* And a variable with its new value.
LEMMA ValueUnderstood ==
  ASSUME NEW s, IsName(s), NEW v \in Octets,
         NEW b, b = Stream!Request(Stream!PUT_VAR_REQ, Stream!NameEncode(s) \o v)
  PROVE  /\ b \in Octets /\ b # <<>> /\ Stream!DukRequest(b) = [name |-> s, val |-> v]
<1> DEFINE str == Stream!DukString(s)
<1>1. str \in Octets /\ Stream!NameEncode(s) = str
  BY StringBytes
<1>2. str \o v \in Octets /\ Len(str \o v) = Len(str) + Len(v) /\ Len(str) \in Nat /\ Len(v) \in Nat
  BY <1>1, JoinedBytes
<1>3. /\ b \in Octets /\ b # <<>> /\ b[2] - 128 = Stream!PUT_VAR_REQ /\ At(b, 3, str \o v)
      /\ Len(b) = Len(str) + Len(v) + 3
  <2>1. Stream!PUT_VAR_REQ \in Nat /\ Stream!PUT_VAR_REQ <= 63
    BY DEF Stream!PUT_VAR_REQ
  <2> HIDE DEF str
  <2>2. /\ b \in Octets /\ b # <<>> /\ b[2] - 128 = Stream!PUT_VAR_REQ /\ At(b, 3, str \o v)
        /\ Len(b) = Len(str \o v) + 3
    <3>1. b = Stream!Request(Stream!PUT_VAR_REQ, str \o v)
      BY <1>1
    <3>2. str \o v \in Octets
      BY <1>2
    <3> DEFINE args == str \o v
    <3> HIDE DEF args
    <3>3. args \in Octets /\ b = Stream!Request(Stream!PUT_VAR_REQ, args)
      BY <3>1, <3>2 DEF args
    <3>4. /\ b \in Octets /\ b # <<>> /\ b[2] - 128 = Stream!PUT_VAR_REQ /\ At(b, 3, args)
      BY <2>1, <3>3, RequestParts, Zenon
    <3>5. Len(b) = Len(args) + 3
      BY <2>1, <3>3, RequestLength
    <3> QED BY <3>4, <3>5 DEF args
  <2> QED BY <1>2, <2>2
<1>4. At(b, 3, str) /\ At(b, 3 + Len(str), v)
  BY <1>1, <1>3, AtParts
<1>5. Stream!StringDecode(b, 3) = [val |-> s, adv |-> Len(str)]
  BY <1>3, <1>4, StringDecoded
<1>6. SubSeq(b, 3 + Len(str), Len(b) - 1) = v
  <2>1. 3 + Len(str) \in Nat \ {0} /\ (3 + Len(str)) + Len(v) - 1 = Len(b) - 1
    BY <1>2, <1>3
  <2>2. Stream!Bytes(b, 3 + Len(str), Len(v)) = v
    BY <1>3, <1>4, <2>1, AtBytes
  <2> QED BY <2>1, <2>2 DEF Stream!Bytes
<1>7. Stream!StringDecode(b, 3).val = s /\ Stream!StringDecode(b, 3).adv = Len(str)
  BY <1>5
<1> HIDE DEF str
<1>8. Stream!DukRequest(b) = [name |-> Stream!StringDecode(b, 3).val,
                              val |-> SubSeq(b, 3 + Stream!StringDecode(b, 3).adv, Len(b) - 1)]
  BY <1>3 DEF Stream!DukRequest, Stream!ADD_BREAK_REQ, Stream!DEL_BREAK_REQ,
       Stream!GET_VAR_REQ, Stream!EVAL_REQ, Stream!PUT_VAR_REQ
<1> QED BY <1>3, <1>6, <1>7, <1>8

\* A request without arguments is its number.
LEMMA CommandUnderstood ==
  ASSUME NEW command \in Stream!SimpleCommands, NEW b, b = Stream!DebugSimpleCommand(command)
  PROVE  /\ b \in Octets /\ b # <<>> /\ Stream!DukRequest(b) = [command |-> command]
<1>1. command \in {18, 23, 28, 29, 16}
  BY DEF Stream!SimpleCommands, Stream!PAUSE_REQ, Stream!LIST_BREAK_REQ,
         Stream!GET_CALL_STACK_REQ, Stream!GET_LOCALS_REQ, Stream!BASIC_INFO_REQ
<1>2. <<>> \in Octets
  BY DEF Octets
<1>3. b \in Octets /\ b # <<>> /\ b[2] - 128 = command
  <2>1. command \in Nat /\ command <= 63
    BY <1>1
  <2> QED BY <1>2, <2>1, RequestParts, Zenon DEF Stream!DebugSimpleCommand
<1> QED BY <1>1, <1>3 DEF Stream!DukRequest, Stream!ADD_BREAK_REQ, Stream!DEL_BREAK_REQ,
                 Stream!GET_VAR_REQ, Stream!EVAL_REQ, Stream!PUT_VAR_REQ

LEMMA Reversed ==
  ASSUME NEW s \in Octets PROVE Stream!Reverse(s) \in Octets
<1>1. Len(s) \in Nat /\ \A i \in 1..Len(s) : s[i] \in Byte
  BY LenProperties DEF Octets
<1>2. \A i \in 1..Len(s) : (Len(s) - i) + 1 \in 1..Len(s)
  BY <1>1
<1>3. Stream!Reverse(s) = [i \in 1..Len(s) |-> s[(Len(s) - i) + 1]]
  BY DEF Stream!Reverse
<1> QED BY <1>1, <1>2, <1>3, IsASeq DEF Octets

\* The value that the console sets arrives as the interpreter writes it.
LEMMA PutUnderstood ==
  ASSUME NEW c, IsCall(c), c.kind = "putVar", NEW b, b = Stream!Command(c)
  PROVE  /\ b \in Octets /\ b # <<>> /\ Stream!DukRequest(b) = Stream!Asked(c)
<1>1. /\ IsName(c.name) /\ c.val \in [type : Byte, data : Octets]
      /\ \/ c.val.type = 26 /\ Len(c.val.data) = 8
         \/ c.val.type \in Stream!ShortString /\ Len(c.val.data) \in 1..31
  BY DEF IsCall, Octets, Stream!NUMBER
<1>2. ASSUME NEW v, v.type \in Byte, v.data \in Octets
      PROVE  /\ <<v.type>> \in Octets /\ <<v.type>> \o v.data \in Octets
             /\ Stream!NameEncode(c.name) \o (<<v.type>> \o v.data)
                  = (Stream!NameEncode(c.name) \o <<v.type>>) \o v.data
  <2>1. <<v.type>> \in Octets
    BY <1>2, OneByte
  <2>2. <<v.type>> \o v.data \in Octets
    BY <1>2, <2>1, JoinedBytes
  <2>3. Stream!NameEncode(c.name) \in Octets
    BY <1>1, StringBytes
  <2> QED BY <1>2, <2>1, <2>2, <2>3, Assoc
<1>3. ASSUME NEW v, v.type \in Byte, v.data \in Octets,
             b = Stream!Request(Stream!PUT_VAR_REQ, Stream!NameEncode(c.name) \o <<v.type>> \o v.data)
      PROVE  /\ b \in Octets /\ b # <<>>
             /\ Stream!DukRequest(b) = [name |-> c.name, val |-> <<v.type>> \o v.data]
  <2>1. <<v.type>> \o v.data \in Octets
    BY <1>2, <1>3
  <2>2. b = Stream!Request(Stream!PUT_VAR_REQ, Stream!NameEncode(c.name) \o (<<v.type>> \o v.data))
    BY <1>2, <1>3
  <2> QED BY <1>1, <2>1, <2>2, ValueUnderstood
<1> DEFINE w == [c.val EXCEPT !.type = Stream!PutType(c.val)]
           u == [c.val EXCEPT !.data = Stream!Reverse(@)]
<1>4. b = Stream!DebugPutVar(c.name, w)
  BY DEF Stream!Command
<1>5. /\ w.data = c.val.data /\ w.type = Stream!PutType(c.val)
      /\ u.data = Stream!Reverse(c.val.data) /\ u.type = c.val.type
  BY <1>1
<1>6. Stream!Asked(c) = [name |-> c.name, val |-> Stream!DukValue(IF c.val.type = 26 THEN u ELSE w)]
  BY DEF Stream!Asked, Stream!NUMBER
<1> HIDE DEF w, u
<1>7. CASE c.val.type = 26 /\ Len(c.val.data) = 8
  <2>1. w.type = 26
    BY <1>5, <1>7 DEF Stream!PutType, Stream!ShortString
  <2>2. u.type \in Byte /\ u.data \in Octets
    BY <1>1, <1>5, <1>7, Reversed DEF Byte
  <2>3. b = Stream!Request(Stream!PUT_VAR_REQ, Stream!NameEncode(c.name) \o <<u.type>> \o u.data)
    BY <1>4, <1>5, <1>7, <2>1 DEF Stream!DebugPutVar, Stream!NUMBER
  <2>4. Stream!DukValue(u) = <<u.type>> \o u.data
    BY <1>5, <1>7 DEF Stream!DukValue, Stream!NUMBER, Stream!Simple, Stream!UNUSED, Stream!FALSEVAL,
          Stream!ShortString, Stream!STRING2, Stream!BUFFER2, Stream!OBJECT, Stream!POINTER, Stream!HEAPPTR
  <2> QED BY <1>3, <1>6, <1>7, <2>2, <2>3, <2>4
<1>8. CASE c.val.type \in Stream!ShortString /\ Len(c.val.data) \in 1..31
  <2>1. w.type = 96 + Len(c.val.data)
    BY <1>5, <1>8 DEF Stream!PutType
  <2>2. w.type \in Stream!ShortString /\ w.type # 26 /\ c.val.type # 26
    <3>1. \A l \in 1..31 : 96 + l \in Stream!ShortString /\ 96 + l # 26
      BY DEF Stream!ShortString
    <3>2. Len(c.val.data) \in 1..31
      BY <1>8, Zenon
    <3>3. c.val.type # 26
      BY <1>8 DEF Stream!ShortString
    <3> QED BY <2>1, <3>1, <3>2, <3>3
  <2>3. w.type \in Byte /\ w.data \in Octets
    BY <1>1, <1>5, <2>2 DEF Byte, Stream!ShortString
  <2>4. b = Stream!Request(Stream!PUT_VAR_REQ, Stream!NameEncode(c.name) \o <<w.type>> \o w.data)
    BY <1>4, <2>2 DEF Stream!DebugPutVar, Stream!NUMBER
  <2>5. Stream!DukValue(w) = <<w.type>> \o w.data
    <3>1. w.type \notin Stream!Simple /\ w.type \notin {18, 20} /\ w.type # 27 /\ w.type \notin {28, 30}
      BY <2>2 DEF Stream!Simple, Stream!UNUSED, Stream!FALSEVAL, Stream!ShortString
    <3> QED BY <2>2, <3>1 DEF Stream!DukValue, Stream!NUMBER, Stream!STRING2, Stream!BUFFER2,
                Stream!OBJECT, Stream!POINTER, Stream!HEAPPTR
  <2> QED BY <1>3, <1>6, <2>1, <2>2, <2>3, <2>4, <2>5
<1> QED BY <1>1, <1>7, <1>8

\* Whatever the console calls for, the interpreter understands.
LEMMA CallUnderstood ==
  ASSUME NEW c, IsCall(c), Stream!Command(c) # <<>>
  PROVE  /\ Stream!Command(c) \in Octets
         /\ Stream!DukRequest(Stream!Command(c)) = Stream!Asked(c)
<1> DEFINE b == Stream!Command(c)
<1>1. IsName(c.name)
  BY DEF IsCall
<1>2. CASE c.kind = "addBreak"
  <2>1. c.line \in Nat /\ Stream!LineFits(c.line) /\ b = Stream!DebugAddBreak(c.name, c.line)
    BY <1>2 DEF IsCall, Stream!Command
  <2>2. Stream!Asked(c) = [name |-> c.name, line |-> c.line]
    BY <1>2 DEF Stream!Asked
  <2> HIDE DEF b
  <2>3. b \in Octets /\ Stream!DukRequest(b) = Stream!Asked(c)
    BY <1>1, <2>1, <2>2, BreakUnderstood
  <2> QED BY <2>3 DEF b
<1>3. CASE c.kind = "delBreak"
  <2>1. c.line \in Nat /\ c.line <= 63 /\ b = Stream!DebugDelBreak(c.line)
    <3>1. c.line \in 0..63
      BY <1>3 DEF IsCall
    <3>2. b = Stream!DebugDelBreak(c.line)
      BY <1>3 DEF Stream!Command
    <3>3. \A l \in 0..63 : l \in Nat /\ l <= 63
      OBVIOUS
    <3> QED BY <3>1, <3>2, <3>3, Zenon
  <2>2. Stream!Asked(c) = [line |-> c.line]
    BY <1>3 DEF Stream!Asked
  <2> HIDE DEF b
  <2>3. b \in Octets /\ Stream!DukRequest(b) = Stream!Asked(c)
    BY <2>1, <2>2, DeletionUnderstood
  <2> QED BY <2>3 DEF b
<1>4. CASE c.kind \in {"getVar", "eval"}
  <2>1. \E command \in {Stream!GET_VAR_REQ, Stream!EVAL_REQ} :
          b = Stream!Request(command, Stream!NameEncode(c.name))
    BY <1>4 DEF Stream!Command, Stream!DebugGetVar, Stream!DebugEval
  <2>2. Stream!Asked(c) = [name |-> c.name]
    BY <1>4 DEF Stream!Asked
  <2> HIDE DEF b
  <2>3. b \in Octets /\ Stream!DukRequest(b) = Stream!Asked(c)
    BY <1>1, <2>1, <2>2, NameUnderstood
  <2> QED BY <2>3 DEF b
<1>5. CASE c.kind = "putVar"
  BY <1>5, PutUnderstood
<1>6. CASE c.kind \in {"pause", "listBreak", "callStack", "locals", "info"}
  <2>1. \E command \in Stream!SimpleCommands :
          b = Stream!DebugSimpleCommand(command) /\ Stream!Asked(c) = [command |-> command]
    BY <1>6 DEF Stream!Command, Stream!Asked, Stream!SimpleCommands
  <2> HIDE DEF b
  <2>3. b \in Octets /\ Stream!DukRequest(b) = Stream!Asked(c)
    BY <2>1, CommandUnderstood
  <2> QED BY <2>3 DEF b
<1> QED BY <1>2, <1>3, <1>4, <1>5, <1>6 DEF IsCall

\* The invariant of the requests: what the interpreter has read and what is still in the
\* buffer are the command of the call; all of it read, it is understood.
Requested == Stream!Command(call)
RequestInv ==
  /\ call \in Calls \union {Stream!NoCall} /\ read \in Octets /\ taken \in Octets
  /\ call # Stream!NoCall =>
       /\ Requested # <<>> /\ taken \o read = Requested
       /\ read = <<>> => asked = Stream!DukRequest(Requested)

LEMMA RequestStep ==
  ASSUME StreamAssumption, RequestInv, Stream!Next
  PROVE  RequestInv'
<1> USE DEF Requested
<1>1. CASE Stream!DebugMsgUnmarshal
  <2>1. PICK c \in Calls : Stream!Command(c) # <<>> /\ call' = c /\ read' = Stream!Command(c)
    BY <1>1 DEF Stream!DebugMsgUnmarshal
  <2>2. taken' = <<>>
    BY <1>1 DEF Stream!DebugMsgUnmarshal
  <2>3. Stream!Command(c) \in Octets /\ <<>> \in Octets
    BY <2>1, CallUnderstood DEF StreamAssumption, Octets
  <2>4. <<>> \o read' = read'
    BY <2>1, <2>3, ConcatEmptySeq DEF Octets
  <2> QED BY <2>1, <2>2, <2>3, <2>4 DEF RequestInv
<1>2. CASE Stream!DebuggerRead
  <2>1. PICK n \in Stream!Pieces(read) :
          /\ taken' = taken \o SubSeq(read, 1, n)
          /\ read' = SubSeq(read, n + 1, Len(read))
          /\ asked' = IF n = Len(read) THEN Stream!DukRequest(taken') ELSE asked
    BY <1>2 DEF Stream!DebuggerRead
  <2>2. call' = call
    BY <1>2 DEF Stream!DebuggerRead
  <2>3. /\ call \in Calls \union {Stream!NoCall} /\ read \in Octets /\ taken \in Octets
        /\ call # Stream!NoCall => Requested # <<>> /\ taken \o read = Requested
    BY DEF RequestInv
  <2> DEFINE first == SubSeq(read, 1, n)
             last == SubSeq(read, n + 1, Len(read))
  <2>4. n \in 1..Len(read) /\ Len(read) \in Nat
    BY <2>3, LenProperties DEF Stream!Pieces, Octets
  <2>5. /\ first \in Octets /\ last \in Octets /\ first \o last = read
        /\ Len(last) = Len(read) - n
    BY <2>3, <2>4, Cut
  <2> HIDE DEF first, last
  <2>6. taken' = taken \o first /\ read' = last
    BY <2>1 DEF first, last
  <2>7. taken \o first \in Octets /\ (taken \o first) \o last = taken \o (first \o last)
    <3>1. taken \in Octets /\ first \in Octets /\ last \in Octets
      BY <2>3, <2>5
    <3>2. taken \o first \in Octets
      BY <3>1, JoinedBytes
    <3>3. (taken \o first) \o last = taken \o (first \o last)
      BY <3>1, Assoc
    <3> QED BY <3>2, <3>3
  <2>8. taken' \in Octets /\ read' \in Octets /\ taken' \o read' = taken \o read
    BY <2>3, <2>5, <2>6, <2>7
  <2>9. ASSUME call # Stream!NoCall, read' = <<>> PROVE asked' = Stream!DukRequest(Requested)
    <3>1. n = Len(read)
      BY <2>4, <2>5, <2>6, <2>9
    <3>2. taken' = Requested
      BY <2>3, <2>8, <2>9, ConcatEmptySeq DEF Octets
    <3> QED BY <2>1, <3>1, <3>2
  <2>10. Requested' = Requested
    BY <2>2
  <2> HIDE DEF Requested
  <2> QED BY <2>2, <2>3, <2>8, <2>9, <2>10 DEF RequestInv
<1>3. CASE Stream!DukSends
  BY <1>3 DEF RequestInv, Stream!DukSends
<1>4. ASSUME NEW chunk, Stream!Write(chunk) PROVE RequestInv'
  <2>1. read' = read /\ <<>> \in Octets
    BY <1>4, EmptySeq DEF Stream!Write, Octets
  <2>2. \/ call' = call /\ taken' = taken /\ asked' = asked
        \/ call' = Stream!NoCall /\ taken' = <<>>
    BY <1>4 DEF Stream!Write
  <2> QED BY <2>1, <2>2 DEF RequestInv
<1>5. CASE Stream!DebuggerWrite \/ Stream!WriteEnd
  BY <1>4, <1>5 DEF Stream!DebuggerWrite, Stream!WriteEnd
<1> QED BY <1>1, <1>2, <1>3, <1>5 DEF Stream!Next

-----------------------------------------------------------------------------
(* The scanner                                                             *)

Pos == -1..4
States == [nextChunk : Nat, lastType : Byte, curTypePos : Pos, internal : Nat,
           msgLength : Nat, stuck : {FALSE}]

\* The scanner goes from p over the byte b to q and does not end a message.
GoesOn(p, b, q) == q = Stream!ScanByte(p, b) /\ ~Stream!Ends(p, b)

\* It does so over the bytes s; g are the states it goes through.
Run(g, p, s, q) ==
  /\ g \in [0..Len(s) -> States]
  /\ g[0] = p /\ g[Len(s)] = q
  /\ \A k \in 1..Len(s) : GoesOn(g[k - 1], s[k], g[k])
Smooth(p, s, q) == \E g : Run(g, p, s, q)

LEMMA SmoothStates ==
  ASSUME NEW p, NEW s \in Octets, NEW q, Smooth(p, s, q)
  PROVE  p \in States /\ q \in States
<1>1. PICK g : Run(g, p, s, q)
  BY DEF Smooth
<1>2. Len(s) \in Nat
  BY LenProperties DEF Octets
<1> QED BY <1>1, <1>2 DEF Run

LEMMA SmoothNothing ==
  ASSUME NEW p \in States PROVE Smooth(p, <<>>, p)
<1> DEFINE g == [k \in 0..0 |-> p]
<1>1. Len(<<>>) = 0
  OBVIOUS
<1>2. Run(g, p, <<>>, p)
  BY <1>1 DEF Run
<1> HIDE DEF g
<1> QED BY <1>2 DEF Smooth

LEMMA SmoothByte ==
  ASSUME NEW p \in States, NEW q \in States, NEW b \in Byte, GoesOn(p, b, q)
  PROVE  Smooth(p, <<b>>, q)
<1> DEFINE g == [k \in 0..1 |-> IF k = 0 THEN p ELSE q]
<1>1. Len(<<b>>) = 1 /\ <<b>>[1] = b
  OBVIOUS
<1>2. g \in [0..1 -> States] /\ g[0] = p /\ g[1] = q
  OBVIOUS
<1> HIDE DEF g
<1>3. Run(g, p, <<b>>, q)
  <2>1. \A k \in 1..1 : k = 1 /\ k - 1 = 0
    OBVIOUS
  <2> QED BY <1>1, <1>2, <2>1 DEF Run
<1> QED BY <1>3 DEF Smooth

LEMMA SmoothJoin ==
  ASSUME NEW s \in Octets, NEW t \in Octets, NEW p, NEW q, NEW r, Smooth(p, s, q), Smooth(q, t, r)
  PROVE  Smooth(p, s \o t, r)
<1>1. PICK g : Run(g, p, s, q)
  BY DEF Smooth
<1>2. PICK h : Run(h, q, t, r)
  BY DEF Smooth
<1> DEFINE m == Len(s)
           n == Len(t)
           w == s \o t
           f == [k \in 0..(m + n) |-> IF k <= m THEN g[k] ELSE h[k - m]]
<1>3. /\ m \in Nat /\ n \in Nat /\ Len(w) = m + n
      /\ \A k \in 1..m : w[k] = s[k]
      /\ \A k \in 1..n : w[m + k] = t[k]
  BY JoinedBytes
<1>4. /\ g \in [0..m -> States] /\ g[0] = p /\ g[m] = q
      /\ \A k \in 1..m : GoesOn(g[k - 1], s[k], g[k])
  BY <1>1 DEF Run
<1>5. /\ h \in [0..n -> States] /\ h[0] = q /\ h[n] = r
      /\ \A k \in 1..n : GoesOn(h[k - 1], t[k], h[k])
  BY <1>2 DEF Run
<1> HIDE DEF m, n, w
<1>6. f \in [0..(m + n) -> States] /\ f[0] = p /\ f[m + n] = r
  BY <1>3, <1>4, <1>5
<1>7. \A k \in 0..m : f[k] = g[k]
  BY <1>3
<1>8. \A k \in 0..n : f[m + k] = h[k]
  <2> SUFFICES ASSUME NEW k \in 0..n PROVE f[m + k] = h[k]
    OBVIOUS
  <2>1. CASE k = 0
    BY <1>3, <1>4, <1>5, <2>1
  <2>2. CASE k > 0
    BY <1>3, <2>2
  <2> QED BY <2>1, <2>2
<1> HIDE DEF f
<1>9. ASSUME NEW k \in 1..(m + n) PROVE GoesOn(f[k - 1], w[k], f[k])
  <2>1. CASE k <= m
    <3>1. k \in 1..m /\ k \in 0..m /\ k - 1 \in 0..m
      BY <1>3, <2>1
    <3> QED BY <1>3, <1>4, <1>7, <3>1
  <2>2. CASE k > m
    <3> DEFINE j == k - m
    <3>1. j \in 1..n /\ j \in 0..n /\ j - 1 \in 0..n /\ m + j = k /\ m + (j - 1) = k - 1
      BY <1>3, <2>2
    <3> HIDE DEF j
    <3>2. GoesOn(h[j - 1], t[j], h[j])
      BY <1>5, <3>1
    <3>3. f[m + j] = h[j] /\ f[m + (j - 1)] = h[j - 1] /\ w[m + j] = t[j]
      BY <1>3, <1>8, <3>1
    <3> QED BY <3>1, <3>2, <3>3
  <2> QED BY <1>3, <2>1, <2>2
<1>10. Run(f, p, w, r)
  BY <1>3, <1>6, <1>9 DEF Run
<1> QED BY <1>10 DEF Smooth, w

LEMMA SmoothPart ==
  ASSUME NEW s \in Octets, NEW t \in Octets, NEW p, NEW r, Smooth(p, s \o t, r)
  PROVE  \E q : Smooth(p, s, q) /\ Smooth(q, t, r)
<1> DEFINE m == Len(s)
           n == Len(t)
           w == s \o t
<1>1. /\ m \in Nat /\ n \in Nat /\ Len(w) = m + n
      /\ \A k \in 1..m : w[k] = s[k]
      /\ \A k \in 1..n : w[m + k] = t[k]
  BY JoinedBytes
<1>2. PICK f : Run(f, p, w, r)
  BY DEF Smooth
<1> HIDE DEF w
<1>3. /\ f \in [0..(m + n) -> States] /\ f[0] = p /\ f[m + n] = r
      /\ \A k \in 1..(m + n) : GoesOn(f[k - 1], w[k], f[k])
  BY <1>1, <1>2 DEF Run
<1> DEFINE g == [k \in 0..m |-> f[k]]
           h == [k \in 0..n |-> f[m + k]]
<1>4. /\ g \in [0..m -> States] /\ g[0] = p /\ g[m] = f[m]
  <2>1. \A k \in 0..m : k \in 0..(m + n)
    BY <1>1
  <2> QED BY <1>1, <1>3, <2>1
<1>5. ASSUME NEW k \in 1..m PROVE GoesOn(g[k - 1], s[k], g[k])
  <2>1. k \in 0..m /\ k - 1 \in 0..m /\ k \in 1..(m + n)
    BY <1>1
  <2> QED BY <1>1, <1>3, <2>1
<1>6. /\ h \in [0..n -> States] /\ h[0] = f[m] /\ h[n] = r
  <2>1. \A k \in 0..n : m + k \in 0..(m + n)
    BY <1>1
  <2> QED BY <1>1, <1>3, <2>1
<1>7. ASSUME NEW k \in 1..n PROVE GoesOn(h[k - 1], t[k], h[k])
  <2>1. k \in 0..n /\ k - 1 \in 0..n /\ m + k \in 1..(m + n) /\ m + (k - 1) = (m + k) - 1
    BY <1>1
  <2> QED BY <1>1, <1>3, <2>1
<1>8. Run(g, p, s, f[m])
  <2> HIDE DEF g
  <2> QED BY <1>4, <1>5 DEF Run, m
<1>9. Run(h, f[m], t, r)
  <2> HIDE DEF h
  <2> QED BY <1>6, <1>7 DEF Run, n
<1> HIDE DEF g, h
<1> QED BY <1>8, <1>9 DEF Smooth

LEMMA Swapped ==
  ASSUME NEW b \in Byte PROVE Stream!Swap16(b * 256) = b
<1>1. \A n \in Nat : n <= 255 => (n * 256) \div 256 = n /\ (n * 256) % 256 = 0
  OBVIOUS
<1>2. b \in Nat /\ b <= 255
  BY DEF Byte
<1>3. (b * 256) \div 256 = b /\ (b * 256) % 256 = 0
  BY <1>1, <1>2
<1> QED BY <1>2, <1>3 DEF Stream!Swap16

LEMMA ScanKeeps ==
  ASSUME NEW p \in States, NEW b \in Byte
  PROVE  Stream!ScanByte(p, b).msgLength = p.msgLength
<1>1. Stream!Handle2ByteType(p, b).msgLength = p.msgLength
  BY DEF Stream!Handle2ByteType, States
<1>2. Stream!HandleObjectType(p, b).msgLength = p.msgLength
  BY DEF Stream!HandleObjectType, States
<1>3. Stream!HandlePointerType(p, b).msgLength = p.msgLength
  BY DEF Stream!HandlePointerType, States
<1>4. /\ [p EXCEPT !.nextChunk = @ - 1].msgLength = p.msgLength
      /\ [p EXCEPT !.nextChunk = b - 96, !.lastType = 0].msgLength = p.msgLength
      /\ [p EXCEPT !.nextChunk = 8].msgLength = p.msgLength
      /\ [p EXCEPT !.lastType = IF @ = 192 THEN 0 ELSE 192].msgLength = p.msgLength
      /\ [p EXCEPT !.stuck = TRUE].msgLength = p.msgLength
  BY DEF States
<1>5. p.nextChunk \in Nat
  BY DEF States
<1> QED BY <1>1, <1>2, <1>3, <1>4, <1>5 DEF Stream!ScanByte

LEMMA SmoothKept ==
  ASSUME NEW p, NEW s \in Octets, NEW q, Smooth(p, s, q)
  PROVE  q.msgLength = p.msgLength
<1>1. PICK g : Run(g, p, s, q)
  BY DEF Smooth
<1> DEFINE P == {k \in 0..Len(s) : g[k].msgLength = p.msgLength}
<1>2. Len(s) \in Nat /\ \A k \in 1..Len(s) : s[k] \in Byte
  BY LenProperties DEF Octets
<1>3. 0 \in P
  BY <1>1, <1>2 DEF Run
<1>4. ASSUME NEW k \in 1..Len(s), k - 1 \in P PROVE k \in P
  <2>1. k - 1 \in 0..Len(s) /\ k \in 0..Len(s)
    BY <1>2
  <2>2. g[k - 1] \in States /\ s[k] \in Byte /\ g[k] = Stream!ScanByte(g[k - 1], s[k])
    BY <1>1, <1>2, <2>1 DEF Run, GoesOn
  <2>3. g[k].msgLength = g[k - 1].msgLength
    BY <2>2, ScanKeeps
  <2> QED BY <1>4, <2>1, <2>3
<1>5. 0..Len(s) \subseteq P
  <2> HIDE DEF P
  <2> QED BY <1>2, <1>3, <1>4, UpTo
<1>6. Len(s) \in P
  <2> HIDE DEF P
  <2> QED BY <1>2, <1>5
<1> QED BY <1>1, <1>6 DEF Run

\* Over such bytes Scan gets to their end.
LEMMA SmoothScan ==
  ASSUME NEW p, NEW s \in Octets, NEW q, Smooth(p, s, q)
  PROVE  Stream!Scan(p, s) = [p |-> q, over |-> FALSE, n |-> Len(s)]
<1>1. PICK g : Run(g, p, s, q)
  BY DEF Smooth
<1> DEFINE n == Len(s)
           at(k) == [p |-> g[k], over |-> FALSE, n |-> k]
           h == [k \in 0..n |-> at(k)]
           F(f) == f = [k \in 0..n |-> IF k = 0 THEN [p |-> p, over |-> FALSE, n |-> 0]
                                       ELSE Stream!Scanned(f[k - 1], s[k])]
<1>2. n \in Nat
  BY LenProperties DEF Octets
<1>3. ASSUME NEW k \in 1..n PROVE Stream!Scanned(at(k - 1), s[k]) = at(k)
  <2>1. GoesOn(g[k - 1], s[k], g[k])
    BY <1>1 DEF Run
  <2>2. g[k - 1] \in States /\ g[k] \in States /\ (k - 1) + 1 = k
    BY <1>1, <1>2 DEF Run
  <2>3. g[k - 1].stuck = FALSE /\ g[k].stuck = FALSE
    BY <2>2 DEF States
  <2> DEFINE x == at(k - 1)
  <2>4. x.p = g[k - 1] /\ x.over = FALSE /\ x.n = k - 1
    OBVIOUS
  <2> HIDE DEF x
  <2>5. Stream!Scanned(x, s[k]) = [p |-> g[k], over |-> FALSE, n |-> k]
    BY <2>1, <2>2, <2>3, <2>4 DEF GoesOn, Stream!Scanned
  <2> QED BY <2>5 DEF x
<1>4. F(h)
  <2>1. ASSUME NEW k \in 1..n PROVE k - 1 \in 0..n /\ h[k - 1] = at(k - 1)
    BY <1>2
  <2> HIDE DEF n
  <2>2. \A k \in 0..n : at(k) = IF k = 0 THEN [p |-> p, over |-> FALSE, n |-> 0]
                                ELSE Stream!Scanned(h[k - 1], s[k])
    <3> SUFFICES ASSUME NEW k \in 0..n
                 PROVE  at(k) = IF k = 0 THEN [p |-> p, over |-> FALSE, n |-> 0]
                                ELSE Stream!Scanned(h[k - 1], s[k])
      OBVIOUS
    <3>1. CASE k = 0
      BY <1>1, <3>1 DEF Run
    <3>2. CASE k # 0
      <4>1. k \in 1..n
        BY <1>2, <3>2
      <4> HIDE DEF at, h
      <4> QED BY <1>3, <2>1, <3>2, <4>1
    <3> QED BY <3>1, <3>2
  <2> HIDE DEF at
  <2> QED BY <2>2
<1> DEFINE c == CHOOSE f : F(f)
<1>5. F(c)
  <2> HIDE DEF F
  <2> QED BY <1>4
<1>6. Stream!Scan(p, s) = c[n]
  BY DEF Stream!Scan
<1> HIDE DEF c
<1>7. c[0] = at(0) /\ \A k \in 1..n : c[k] = Stream!Scanned(c[k - 1], s[k])
  <2>1. c = [k \in 0..n |-> IF k = 0 THEN [p |-> p, over |-> FALSE, n |-> 0]
                            ELSE Stream!Scanned(c[k - 1], s[k])]
    BY <1>5
  <2> HIDE DEF n
  <2>2. c[0] = at(0)
    <3>1. 0 \in 0..n
      BY <1>2
    <3>2. c[0] = [p |-> p, over |-> FALSE, n |-> 0]
      BY <2>1, <3>1
    <3> QED BY <1>1, <3>2 DEF Run
  <2>3. ASSUME NEW k \in 1..n PROVE c[k] = Stream!Scanned(c[k - 1], s[k])
    <3>1. k \in 0..n /\ k # 0
      BY <1>2
    <3> QED BY <2>1, <3>1
  <2> QED BY <2>2, <2>3
<1> DEFINE P == {k \in 0..n : c[k] = at(k)}
<1>8. 0 \in P /\ \A k \in 1..n : k - 1 \in P => k \in P
  <2> HIDE DEF at, n
  <2> QED BY <1>2, <1>3, <1>7
<1>9. 0..n \subseteq P
  <2> HIDE DEF P
  <2> QED BY <1>2, <1>8, UpTo
<1>10. c[n] = at(n)
  <2> HIDE DEF at, n
  <2> QED BY <1>2, <1>9
<1> QED BY <1>1, <1>6, <1>10 DEF Run

\* Bytes of a chunk, whatever they are, are counted down.
LEMMA Chunk ==
  ASSUME NEW p \in States, NEW s \in Octets, p.nextChunk = Len(s)
  PROVE  \E q \in States : Smooth(p, s, q) /\ q.nextChunk = 0 /\ q.lastType = p.lastType
<1> DEFINE n == Len(s)
           at(k) == [p EXCEPT !.nextChunk = n - k]
           g == [k \in 0..n |-> at(k)]
<1>1. n \in Nat
  BY LenProperties DEF Octets
<1> HIDE DEF n
<1>2. ASSUME NEW k \in 0..n
      PROVE  at(k) \in States /\ at(k).nextChunk = n - k /\ at(k).lastType = p.lastType
  <2>1. n - k \in Nat
    BY <1>1
  <2> QED BY <2>1 DEF States
<1>3. at(0) = p
  <2>1. n - 0 = p.nextChunk
    BY <1>1 DEF n
  <2> QED BY <2>1 DEF States
<1>4. ASSUME NEW k \in 1..n PROVE GoesOn(at(k - 1), s[k], at(k))
  <2>1. k - 1 \in 0..n /\ n - (k - 1) > 0 /\ (n - (k - 1)) - 1 = n - k
    BY <1>1
  <2>2. at(k - 1).nextChunk > 0
    BY <1>2, <2>1
  <2>3. [at(k - 1) EXCEPT !.nextChunk = @ - 1] = at(k)
    BY <2>1 DEF States
  <2> HIDE DEF at
  <2>4. ~(at(k - 1).nextChunk = 0)
    BY <1>2, <2>1, <2>2
  <2> QED BY <2>2, <2>3, <2>4 DEF GoesOn, Stream!ScanByte, Stream!Ends
<1>5. Run(g, p, s, at(n))
  <2>1. \A k \in 1..n : k \in 0..n /\ k - 1 \in 0..n
    BY <1>1
  <2>2. 0 \in 0..n /\ n \in 0..n
    BY <1>1
  <2> HIDE DEF at
  <2> QED BY <1>2, <1>3, <1>4, <2>1, <2>2 DEF Run, n
<1>6. n \in 0..n /\ n - n = 0
  BY <1>1
<1> HIDE DEF g, at
<1> QED BY <1>2, <1>5, <1>6 DEF Smooth

-----------------------------------------------------------------------------
(* What the scanner does with a byte                                       *)

LEMMA SomeBytes ==
  0 \in Byte /\ 18 \in Byte /\ 20 \in Byte /\ 27 \in Byte /\ 28 \in Byte /\ 30 \in Byte /\ 192 \in Byte
  /\ -1 \in Pos /\ 0 \in Pos /\ 1 \in Pos
BY DEF Byte, Pos

LEMMA ByteIsNat == \A b \in Byte : b \in Nat
BY DEF Byte

LEMMA InsideObject ==
  ASSUME NEW b \in InObject
  PROVE  /\ b \in Byte /\ b \in Nat /\ b # 0 /\ b \notin {18, 20} /\ b # 26
         /\ b \notin 128..191 /\ b \notin 96..127 /\ b \notin 21..25 /\ b \notin 192..255
BY DEF InObject, Byte, Stream!STRING2, Stream!BUFFER2, Stream!NUMBER

\* The start of a message.
LEMMA StartByte ==
  ASSUME NEW p \in States, p.nextChunk = 0, p.lastType = 0, NEW b \in {2, 3, 4}
  PROVE  GoesOn(p, b, p)
BY DEF GoesOn, Stream!ScanByte, Stream!Ends, Stream!REP, Stream!NFY, Stream!ERR, Stream!EOM

LEMMA SmallIntByte ==
  ASSUME NEW p \in States, p.nextChunk = 0, p.lastType \in {0, 27}, NEW b \in Nat, b >= 128, b <= 191
  PROVE  GoesOn(p, b, p)
<1>1. b \in Stream!SmallInt /\ b \notin {18, 20} /\ b \notin {2, 3, 4} /\ b # 0
  BY DEF Stream!SmallInt
<1>2. p.lastType \notin {18, 20} /\ ~(p.nextChunk > 0)
  OBVIOUS
<1> QED BY <1>1, <1>2 DEF GoesOn, Stream!ScanByte, Stream!Ends, Stream!REP, Stream!NFY, Stream!ERR,
           Stream!EOM, Stream!BUFFER2, Stream!STRING2

LEMMA ShortStringByte ==
  ASSUME NEW p \in States, p.nextChunk = 0, p.lastType \in {0, 27}, NEW n \in Nat, n <= 31
  PROVE  \E q \in States : GoesOn(p, 96 + n, q) /\ q.nextChunk = n /\ q.lastType = 0
<1> DEFINE b == 96 + n
           q == [p EXCEPT !.nextChunk = b - 96, !.lastType = 0]
<1>1. /\ b \in Stream!ShortString /\ b \notin {18, 20} /\ b \notin {2, 3, 4} /\ b # 0
      /\ b \notin Stream!SmallInt /\ b - 96 = n
  BY DEF Stream!ShortString, Stream!SmallInt
<1>2. p.lastType \notin {18, 20} /\ ~(p.nextChunk > 0)
  OBVIOUS
<1>3. q \in States /\ q.nextChunk = n /\ q.lastType = 0
  <2>1. b - 96 \in Nat /\ 0 \in Byte /\ b - 96 = n
    BY <1>1 DEF Byte
  <2> HIDE DEF b
  <2>2. q \in States
    BY <2>1 DEF States
  <2>3. q.nextChunk = n /\ q.lastType = 0
    BY <2>1 DEF States
  <2> QED BY <2>2, <2>3
<1> HIDE DEF b
<1>4. GoesOn(p, b, q)
  BY <1>1, <1>2 DEF GoesOn, Stream!ScanByte, Stream!Ends, Stream!REP, Stream!NFY, Stream!ERR,
     Stream!EOM, Stream!BUFFER2, Stream!STRING2
<1> HIDE DEF q
<1> QED BY <1>3, <1>4 DEF b

LEMMA NumberByte ==
  ASSUME NEW p \in States, p.nextChunk = 0, p.lastType = 0
  PROVE  \E q \in States : GoesOn(p, 26, q) /\ q.nextChunk = 8 /\ q.lastType = 0
<1> DEFINE q == [p EXCEPT !.nextChunk = 8]
<1>1. q \in States /\ q.nextChunk = 8 /\ q.lastType = 0
  BY DEF States
<1>2. 26 \notin 128..191 /\ 26 \notin 96..127
  OBVIOUS
<1>3. GoesOn(p, 26, q)
  BY <1>2 DEF GoesOn, Stream!ScanByte, Stream!Ends, Stream!REP, Stream!NFY, Stream!ERR, Stream!NUMBER,
     Stream!EOM, Stream!BUFFER2, Stream!STRING2, Stream!SmallInt, Stream!ShortString
<1> HIDE DEF q
<1> QED BY <1>1, <1>3

LEMMA SimpleByte ==
  ASSUME NEW p \in States, p.nextChunk = 0, p.lastType = 0, NEW b \in Stream!Simple
  PROVE  GoesOn(p, b, p)
<1>1. b \in {21, 22, 23, 24, 25}
  BY DEF Stream!Simple, Stream!UNUSED, Stream!FALSEVAL
<1>2. b \notin 128..191 /\ b \notin 96..127
  BY <1>1
<1>3. b \notin {18, 20} /\ b \notin {2, 3, 4} /\ b # 0 /\ b # 26
  BY <1>1
<1> QED BY <1>2, <1>3 DEF GoesOn, Stream!ScanByte, Stream!Ends, Stream!REP, Stream!NFY, Stream!ERR,
     Stream!NUMBER, Stream!EOM, Stream!BUFFER2, Stream!STRING2, Stream!SmallInt, Stream!ShortString

\* A number of two bytes.
LEMMA LargeIntByte ==
  ASSUME NEW p \in States, p.nextChunk = 0, p.lastType = 0, NEW b \in Nat, b >= 192, b <= 255
  PROVE  \E q \in States : GoesOn(p, b, q) /\ q.nextChunk = 0 /\ q.lastType = 192
<1> DEFINE q == [p EXCEPT !.lastType = 192]
<1>1. /\ b \notin 128..191 /\ b \notin 96..127 /\ b \notin 21..25 /\ b \in 192..255
  OBVIOUS
<1>2. b \notin {18, 20} /\ b \notin {2, 3, 4} /\ b # 0 /\ b # 26
  OBVIOUS
<1>3. q \in States /\ q.nextChunk = 0 /\ q.lastType = 192
  <2>1. q \in States
    <3>1. 192 \in Byte
      BY SomeBytes
    <3> QED BY <3>1 DEF States
  <2>2. q.nextChunk = 0 /\ q.lastType = 192
    BY DEF States
  <2> QED BY <2>1, <2>2
<1>4. [p EXCEPT !.lastType = IF @ = 192 THEN 0 ELSE 192] = q
  OBVIOUS
<1>5. GoesOn(p, b, q)
  BY <1>1, <1>2, <1>4 DEF GoesOn, Stream!ScanByte, Stream!Ends, Stream!REP, Stream!NFY, Stream!ERR,
     Stream!NUMBER, Stream!EOM, Stream!BUFFER2, Stream!STRING2, Stream!SmallInt, Stream!ShortString,
     Stream!Simple, Stream!UNUSED, Stream!FALSEVAL, Stream!LargeInt
<1> HIDE DEF q
<1> QED BY <1>3, <1>5

LEMMA SecondByte ==
  ASSUME NEW p \in States, p.nextChunk = 0, p.lastType = 192, NEW b \in InNumber
  PROVE  \E q \in States : GoesOn(p, b, q) /\ q.nextChunk = 0 /\ q.lastType = 0
<1> DEFINE q == [p EXCEPT !.lastType = 0]
<1>1. /\ b \notin 128..191 /\ b \notin 96..127 /\ b \notin 21..25
      /\ b \notin {18, 20} /\ b # 0 /\ b # 26
  <2>1. CASE b \in InObject
    BY <2>1, InsideObject
  <2>2. CASE b \in 192..255
    BY <2>2
  <2> QED BY <2>1, <2>2 DEF InNumber, Stream!LargeInt
<1>2. q \in States /\ q.nextChunk = 0 /\ q.lastType = 0
  <2>1. q \in States
    BY SomeBytes, ByteIsNat, InsideObject DEF States
  <2>2. q.nextChunk = 0 /\ q.lastType = 0
    BY DEF States
  <2> QED BY <2>1, <2>2
<1>3. [p EXCEPT !.lastType = IF @ = 192 THEN 0 ELSE 192] = q
  OBVIOUS
<1>4. GoesOn(p, b, q)
  BY <1>1, <1>3 DEF GoesOn, Stream!ScanByte, Stream!Ends, Stream!REP, Stream!NFY, Stream!ERR,
     Stream!NUMBER, Stream!EOM, Stream!BUFFER2, Stream!STRING2, Stream!SmallInt, Stream!ShortString,
     Stream!Simple, Stream!UNUSED, Stream!FALSEVAL, Stream!LargeInt
<1> HIDE DEF q
<1> QED BY <1>2, <1>4

\* The type of an object, its class number and the length of its pointer.
LEMMA ObjectByte ==
  ASSUME NEW p \in States, p.nextChunk = 0, p.lastType = 0
  PROVE  \E q \in States : GoesOn(p, 27, q) /\ q.nextChunk = 0 /\ q.lastType = 27 /\ q.curTypePos = 0
<1> DEFINE q == [p EXCEPT !.lastType = 27, !.curTypePos = 0]
<1>1. 27 \notin 128..191 /\ 27 \notin 96..127 /\ 27 \notin 21..25 /\ 27 \notin 192..255
  OBVIOUS
<1>2. q \in States /\ q.nextChunk = 0 /\ q.lastType = 27 /\ q.curTypePos = 0
  <2>1. q \in States
    <3>1. 27 \in Byte /\ 0 \in Pos
      BY SomeBytes, ByteIsNat, InsideObject
    <3> QED BY <3>1 DEF States
  <2>2. q.nextChunk = 0 /\ q.lastType = 27 /\ q.curTypePos = 0
    BY DEF States
  <2> QED BY <2>1, <2>2
<1>3. Stream!HandleObjectType(p, 27) = q
  BY DEF Stream!HandleObjectType, Stream!OBJECT
<1>4. GoesOn(p, 27, q)
  BY <1>1, <1>3 DEF GoesOn, Stream!ScanByte, Stream!Ends, Stream!REP, Stream!NFY, Stream!ERR,
     Stream!NUMBER, Stream!EOM, Stream!BUFFER2, Stream!STRING2, Stream!SmallInt, Stream!ShortString,
     Stream!Simple, Stream!UNUSED, Stream!FALSEVAL, Stream!LargeInt, Stream!OBJECT
<1> HIDE DEF q
<1> QED BY <1>2, <1>4

LEMMA InObjectByte ==
  ASSUME NEW p \in States, p.nextChunk = 0, p.lastType = 27, NEW b \in InObject
  PROVE  GoesOn(p, b, Stream!HandleObjectType(p, b))
BY InsideObject DEF GoesOn, Stream!ScanByte, Stream!Ends, Stream!REP, Stream!NFY, Stream!ERR,
   Stream!NUMBER, Stream!EOM, Stream!BUFFER2, Stream!STRING2, Stream!SmallInt, Stream!ShortString,
   Stream!Simple, Stream!UNUSED, Stream!FALSEVAL, Stream!LargeInt, Stream!OBJECT

LEMMA ClassByte ==
  ASSUME NEW p \in States, p.nextChunk = 0, p.lastType = 27, p.curTypePos = 0, NEW b \in InObject
  PROVE  \E q \in States : GoesOn(p, b, q) /\ q.nextChunk = 0 /\ q.lastType = 27 /\ q.curTypePos = 1
<1> DEFINE q == [p EXCEPT !.curTypePos = 1]
<1>1. q \in States /\ q.nextChunk = 0 /\ q.lastType = 27 /\ q.curTypePos = 1
  <2>1. q \in States
    <3>1. 1 \in Pos
      BY SomeBytes, ByteIsNat, InsideObject
    <3> QED BY <3>1 DEF States
  <2>2. q.nextChunk = 0 /\ q.lastType = 27 /\ q.curTypePos = 1
    BY DEF States
  <2> QED BY <2>1, <2>2
<1>2. Stream!HandleObjectType(p, b) = q
  BY DEF Stream!HandleObjectType, Stream!OBJECT
<1>3. GoesOn(p, b, q)
  BY <1>2, InObjectByte
<1> HIDE DEF q
<1> QED BY <1>1, <1>3

LEMMA ObjectLengthByte ==
  ASSUME NEW p \in States, p.nextChunk = 0, p.lastType = 27, p.curTypePos = 1, NEW b \in InObject
  PROVE  \E q \in States : GoesOn(p, b, q) /\ q.nextChunk = b /\ q.lastType = 27
<1> DEFINE q == [p EXCEPT !.nextChunk = b, !.curTypePos = 0]
<1>1. q \in States /\ q.nextChunk = b /\ q.lastType = 27
  <2>1. q \in States
    <3>1. b \in Nat /\ 0 \in Pos
      BY SomeBytes, ByteIsNat, InsideObject
    <3> QED BY <3>1 DEF States
  <2>2. q.nextChunk = b /\ q.lastType = 27
    BY DEF States
  <2> QED BY <2>1, <2>2
<1>2. Stream!HandleObjectType(p, b) = q
  BY DEF Stream!HandleObjectType, Stream!OBJECT
<1>3. GoesOn(p, b, q)
  BY <1>2, InObjectByte
<1> HIDE DEF q
<1> QED BY <1>1, <1>3

\* The type of a pointer and its length.
LEMMA PointerByte ==
  ASSUME NEW p \in States, p.nextChunk = 0, p.lastType = 0, NEW b \in {28, 30}
  PROVE  \E q \in States : GoesOn(p, b, q) /\ q.nextChunk = 0 /\ q.lastType = b
<1> DEFINE q == [p EXCEPT !.lastType = b]
<1>1. b \notin 128..191 /\ b \notin 96..127 /\ b \notin 21..25 /\ b \notin 192..255
  OBVIOUS
<1>2. q \in States /\ q.nextChunk = 0 /\ q.lastType = b
  <2>1. q \in States
    <3>1. b \in Byte
      BY SomeBytes, ByteIsNat, InsideObject
    <3> QED BY <3>1 DEF States
  <2>2. q.nextChunk = 0 /\ q.lastType = b
    BY DEF States
  <2> QED BY <2>1, <2>2
<1>3. Stream!HandlePointerType(p, b) = q
  BY DEF Stream!HandlePointerType, Stream!POINTER, Stream!HEAPPTR
<1>4. GoesOn(p, b, q)
  BY <1>1, <1>3 DEF GoesOn, Stream!ScanByte, Stream!Ends, Stream!REP, Stream!NFY, Stream!ERR,
     Stream!NUMBER, Stream!EOM, Stream!BUFFER2, Stream!STRING2, Stream!SmallInt, Stream!ShortString,
     Stream!Simple, Stream!UNUSED, Stream!FALSEVAL, Stream!LargeInt, Stream!OBJECT, Stream!POINTER,
     Stream!HEAPPTR
<1> HIDE DEF q
<1> QED BY <1>2, <1>4

LEMMA PointerLengthByte ==
  ASSUME NEW p \in States, p.nextChunk = 0, p.lastType \in {28, 30}, NEW b \in InPointer
  PROVE  \E q \in States : GoesOn(p, b, q) /\ q.nextChunk = b /\ q.lastType = 0
<1> DEFINE q == [p EXCEPT !.lastType = 0, !.nextChunk = b]
<1>1. b \in InObject /\ b # 27
  BY DEF InPointer, Stream!OBJECT
<1>2. q \in States /\ q.nextChunk = b /\ q.lastType = 0
  <2>1. q \in States
    <3>1. 0 \in Byte /\ b \in Nat
      BY <1>1, SomeBytes, InsideObject
    <3> QED BY <3>1 DEF States
  <2>2. q.nextChunk = b /\ q.lastType = 0
    BY DEF States
  <2> QED BY <2>1, <2>2
<1>3. Stream!HandlePointerType(p, b) = q
  BY DEF Stream!HandlePointerType, Stream!POINTER, Stream!HEAPPTR
<1>4. GoesOn(p, b, q)
  BY <1>1, <1>3, InsideObject DEF GoesOn, Stream!ScanByte, Stream!Ends, Stream!REP, Stream!NFY, Stream!ERR,
     Stream!NUMBER, Stream!EOM, Stream!BUFFER2, Stream!STRING2, Stream!SmallInt, Stream!ShortString,
     Stream!Simple, Stream!UNUSED, Stream!FALSEVAL, Stream!LargeInt, Stream!OBJECT, Stream!POINTER,
     Stream!HEAPPTR
<1> HIDE DEF q
<1> QED BY <1>2, <1>4

\* The type of a long string or a buffer and the two bytes of its length.
LEMMA LongByte ==
  ASSUME NEW p \in States, p.nextChunk = 0, p.lastType = 0, NEW b \in {18, 20}
  PROVE  \E q \in States : GoesOn(p, b, q) /\ q.nextChunk = 0 /\ q.lastType = b /\ q.curTypePos = 0
<1> DEFINE q == [p EXCEPT !.lastType = b, !.curTypePos = 0]
<1>1. q \in States /\ q.nextChunk = 0 /\ q.lastType = b /\ q.curTypePos = 0
  <2>1. q \in States
    <3>1. b \in Byte /\ 0 \in Pos
      BY SomeBytes, ByteIsNat, InsideObject
    <3> QED BY <3>1 DEF States
  <2>2. q.nextChunk = 0 /\ q.lastType = b /\ q.curTypePos = 0
    BY DEF States
  <2> QED BY <2>1, <2>2
<1>2. Stream!Handle2ByteType(p, b) = q
  BY DEF Stream!Handle2ByteType, Stream!STRING2, Stream!BUFFER2
<1>3. GoesOn(p, b, q)
  BY <1>2 DEF GoesOn, Stream!ScanByte, Stream!Ends, Stream!REP, Stream!NFY, Stream!ERR,
     Stream!EOM, Stream!BUFFER2, Stream!STRING2
<1> HIDE DEF q
<1> QED BY <1>1, <1>3

LEMMA HighByte ==
  ASSUME NEW p \in States, p.nextChunk = 0, p.lastType \in {18, 20}, p.curTypePos = 0, NEW b \in Byte
  PROVE  \E q \in States : /\ GoesOn(p, b, q) /\ q.nextChunk = 0 /\ q.lastType = p.lastType
                           /\ q.curTypePos = 1
<1> DEFINE q == [p EXCEPT !.internal = b, !.curTypePos = 1]
<1>1. q \in States /\ q.nextChunk = 0 /\ q.lastType = p.lastType /\ q.curTypePos = 1
  <2>1. q \in States
    <3>1. b \in Nat /\ 1 \in Pos
      BY SomeBytes, ByteIsNat, InsideObject
    <3> QED BY <3>1 DEF States
  <2>2. q.nextChunk = 0 /\ q.lastType = p.lastType /\ q.curTypePos = 1
    BY DEF States
  <2> QED BY <2>1, <2>2
<1>2. Stream!Handle2ByteType(p, b) = q
  BY DEF Stream!Handle2ByteType, Stream!STRING2, Stream!BUFFER2
<1>3. GoesOn(p, b, q)
  BY <1>2 DEF GoesOn, Stream!ScanByte, Stream!Ends, Stream!BUFFER2, Stream!STRING2
<1> HIDE DEF q
<1> QED BY <1>1, <1>3

LEMMA LowByte ==
  ASSUME NEW p \in States, p.nextChunk = 0, p.lastType \in {18, 20}, p.curTypePos = 1, NEW b \in Byte
  PROVE  \E q \in States : GoesOn(p, b, q) /\ q.nextChunk = b /\ q.lastType = 0
<1> DEFINE q == [p EXCEPT !.curTypePos = -1, !.nextChunk = b, !.internal = 0, !.lastType = 0]
<1>1. q \in States /\ q.nextChunk = b /\ q.lastType = 0
  <2>1. q \in States
    <3>1. 0 \in Byte /\ -1 \in Pos /\ b \in Nat
      BY SomeBytes, ByteIsNat
    <3> QED BY <3>1 DEF States
  <2>2. q.nextChunk = b /\ q.lastType = 0
    BY DEF States
  <2> QED BY <2>1, <2>2
<1>2. Stream!Handle2ByteType(p, b) = q
  <2>1. Stream!Swap16(b * 256) = b
    BY Swapped
  <2>2. p.lastType \in {18, 20} /\ ~(p.curTypePos = 0)
    OBVIOUS
  <2> QED BY <2>1, <2>2 DEF Stream!Handle2ByteType, Stream!STRING2, Stream!BUFFER2
<1>3. GoesOn(p, b, q)
  BY <1>2 DEF GoesOn, Stream!ScanByte, Stream!Ends, Stream!BUFFER2, Stream!STRING2
<1> HIDE DEF q
<1> QED BY <1>1, <1>3

-----------------------------------------------------------------------------
(* What the scanner does with a string, a number and a value               *)

Ready(p) == p \in States /\ p.nextChunk = 0 /\ p.lastType \in {0, 27}
Rested(p) == p \in States /\ p.nextChunk = 0 /\ p.lastType = 0

\* From p the scanner goes over the bytes b to where a value or the end may follow.
Passes(p, b) == b \in Octets /\ \E q : Smooth(p, b, q) /\ Ready(q)
Rests(p, b) == b \in Octets /\ \E q : Smooth(p, b, q) /\ Rested(q)

LEMMA RestsThen ==
  ASSUME NEW p, NEW s, NEW t, Rests(p, s)
  PROVE  /\ (\A q : Rested(q) => Rests(q, t)) => Rests(p, s \o t)
         /\ (\A q : Rested(q) => Passes(q, t)) => Passes(p, s \o t)
<1>1. s \in Octets
  BY DEF Rests
<1>2. PICK q : Smooth(p, s, q) /\ Rested(q)
  BY DEF Rests
<1>3. ASSUME NEW r, Smooth(q, t, r), t \in Octets PROVE Smooth(p, s \o t, r) /\ s \o t \in Octets
  BY <1>1, <1>2, <1>3, SmoothJoin, JoinedBytes
<1> QED BY <1>2, <1>3 DEF Rests, Passes

LEMMA PassesThen ==
  ASSUME NEW p, NEW s, NEW t, Passes(p, s), \A q : Ready(q) => Passes(q, t)
  PROVE  Passes(p, s \o t)
<1>1. s \in Octets
  BY DEF Passes
<1>2. PICK q : Smooth(p, s, q) /\ Ready(q)
  BY DEF Passes
<1>3. ASSUME NEW r, Smooth(q, t, r), t \in Octets PROVE Smooth(p, s \o t, r) /\ s \o t \in Octets
  BY <1>1, <1>2, <1>3, SmoothJoin, JoinedBytes
<1> QED BY <1>2, <1>3 DEF Passes

LEMMA RestedIsReady ==
  ASSUME NEW p
  PROVE  /\ Rested(p) => Ready(p)
         /\ \A b : Rests(p, b) => Passes(p, b)
BY DEF Rested, Ready, Rests, Passes

LEMMA Tuples ==
  ASSUME NEW x \in Byte, NEW y \in Byte, NEW z \in Byte
  PROVE  /\ <<x, y>> = <<x>> \o <<y>> /\ <<x, y, z>> = <<x, y>> \o <<z>>
         /\ <<x>> \in Octets /\ <<y>> \in Octets /\ <<z>> \in Octets
         /\ <<x, y>> \in Octets /\ <<x, y, z>> \in Octets
<1>1. <<x>> \in Octets /\ <<y>> \in Octets /\ <<z>> \in Octets
  BY OneByte
<1>2. <<x, y>> \in Octets /\ Len(<<x, y>>) = 2 /\ <<x, y>>[1] = x /\ <<x, y>>[2] = y
  BY TwoBytes
<1>3. <<x, y, z>> \in Octets /\ Len(<<x, y, z>>) = 3
  BY DEF Octets
<1>4. <<x, y, z>>[1] = x /\ <<x, y, z>>[2] = y /\ <<x, y, z>>[3] = z
  OBVIOUS
<1>5. Len(<<x>>) = 1 /\ <<x>>[1] = x /\ Len(<<y>>) = 1 /\ <<y>>[1] = y /\ Len(<<z>>) = 1 /\ <<z>>[1] = z
  OBVIOUS
<1>6. <<x, y>> = <<x>> \o <<y>>
  <2> DEFINE u == <<x>> \o <<y>>
             w == <<x, y>>
  <2>1. u \in Octets /\ Len(u) = 2 /\ u[1] = x /\ u[2] = y
    BY <1>1, <1>5, JoinedBytes
  <2>2. w \in Octets /\ Len(w) = 2 /\ w[1] = x /\ w[2] = y
    BY <1>2
  <2> HIDE DEF u, w
  <2>3. \A i \in 1..2 : u[i] = w[i]
    BY <2>1, <2>2
  <2>4. u = w
    BY <2>1, <2>2, <2>3, SeqEqual DEF Octets
  <2> QED BY <2>4 DEF u, w
<1>7. <<x, y, z>> = <<x, y>> \o <<z>>
  <2> DEFINE a == <<x, y>>
             c == <<z>>
             u == a \o c
             w == <<x, y, z>>
  <2>1. a \in Octets /\ Len(a) = 2 /\ a[1] = x /\ a[2] = y /\ c \in Octets /\ Len(c) = 1 /\ c[1] = z
    BY <1>1, <1>2, <1>5
  <2> HIDE DEF a, c
  <2>2. u \in Octets /\ Len(u) = 3 /\ u[1] = x /\ u[2] = y /\ u[3] = z
    <3>1. u \in Octets /\ Len(u) = 3
      <4>1. a \o c \in Octets /\ Len(a \o c) = Len(a) + Len(c)
        BY <2>1, JoinedBytes
      <4> QED BY <2>1, <4>1
    <3>2. 1 \in 1..Len(a) /\ 2 \in 1..Len(a) /\ 1 \in 1..Len(c)
      BY <2>1
    <3>3. u[1] = a[1] /\ u[2] = a[2] /\ u[Len(a) + 1] = c[1]
      BY <2>1, <3>2, JoinedBytes
    <3>4. Len(a) + 1 = 3
      BY <2>1
    <3> QED BY <2>1, <3>1, <3>3, <3>4
  <2>3. w \in Octets /\ Len(w) = 3 /\ w[1] = x /\ w[2] = y /\ w[3] = z
    BY <1>3, <1>4
  <2> HIDE DEF u, w
  <2>4. \A i \in 1..3 : u[i] = w[i]
    BY <2>2, <2>3
  <2>5. u = w
    BY <2>2, <2>3, <2>4, SeqEqual DEF Octets
  <2> QED BY <2>5 DEF u, w, a, c
<1> QED BY <1>1, <1>2, <1>3, <1>6, <1>7

\* A byte that announces a chunk, and the chunk.
LEMMA ByteAndChunk ==
  ASSUME NEW p \in States, NEW b \in Byte, NEW q \in States, NEW s \in Octets,
         GoesOn(p, b, q), q.nextChunk = Len(s)
  PROVE  \E r \in States : Smooth(p, <<b>> \o s, r) /\ r.nextChunk = 0 /\ r.lastType = q.lastType
<1>1. Smooth(p, <<b>>, q) /\ <<b>> \in Octets
  BY SmoothByte, OneByte
<1>2. PICK r \in States : Smooth(q, s, r) /\ r.nextChunk = 0 /\ r.lastType = q.lastType
  BY Chunk
<1>3. Smooth(p, <<b>> \o s, r)
  BY <1>1, <1>2, SmoothJoin
<1> QED BY <1>2, <1>3

LEMMA StringOver ==
  ASSUME NEW p, Ready(p), NEW s, IsName(s)
  PROVE  Rests(p, Stream!DukString(s))
<1>1. s \in Octets /\ Len(s) \in Nat /\ Len(s) <= 31 /\ 96 + Len(s) \in Byte
  BY NameLength
<1>2. PICK q \in States : GoesOn(p, 96 + Len(s), q) /\ q.nextChunk = Len(s) /\ q.lastType = 0
  BY <1>1, ShortStringByte DEF Ready
<1>3. p \in States
  BY DEF Ready
<1>4. \E r \in States : /\ Smooth(p, <<96 + Len(s)>> \o s, r) /\ r.nextChunk = 0
                        /\ r.lastType = q.lastType
  BY <1>1, <1>2, <1>3, ByteAndChunk
<1>5. Stream!DukString(s) \in Octets
  BY StringBytes
<1> QED BY <1>2, <1>4, <1>5 DEF Stream!DukString, Rested, Rests

LEMMA NumberOver ==
  ASSUME NEW p, Rested(p), NEW n, IsNumber(n)
  PROVE  Rests(p, Stream!IntEncode(n))
<1>1. n \in Nat /\ n <= 16383 /\ (n <= 63 \/ n % 256 \in InNumber)
  BY DEF IsNumber
<1>2. Stream!IntEncode(n) \in Octets
  BY <1>1, NumberBytes
<1>3. CASE n <= 63
  <2>1. 128 + n \in Nat /\ 128 + n >= 128 /\ 128 + n <= 191 /\ 128 + n \in Byte
    BY <1>1, <1>3 DEF Byte
  <2>2. GoesOn(p, 128 + n, p)
    BY <2>1, SmallIntByte DEF Rested
  <2>3. Smooth(p, <<128 + n>>, p)
    BY <2>1, <2>2, SmoothByte DEF Rested
  <2> QED BY <1>2, <1>3, <2>3 DEF Stream!IntEncode, Rests
<1>4. CASE n > 63
  <2> DEFINE x == 192 + (n \div 256)
             y == n % 256
  <2>1. x \in Nat /\ x >= 192 /\ x <= 255 /\ x \in Byte /\ y \in Byte /\ y \in InNumber
    BY <1>1, <1>4, Halves
  <2>2. Stream!IntEncode(n) = <<x, y>>
    BY <1>1, <1>4 DEF Stream!IntEncode
  <2> HIDE DEF x, y
  <2>3. PICK q \in States : GoesOn(p, x, q) /\ q.nextChunk = 0 /\ q.lastType = 192
    BY <2>1, LargeIntByte DEF Rested
  <2>4. PICK r \in States : GoesOn(q, y, r) /\ r.nextChunk = 0 /\ r.lastType = 0
    BY <2>1, <2>3, SecondByte
  <2>5. Smooth(p, <<x>>, q) /\ Smooth(q, <<y>>, r)
    BY <2>1, <2>3, <2>4, SmoothByte DEF Rested
  <2>6. <<x>> \in Octets /\ <<y>> \in Octets /\ <<x, y>> = <<x>> \o <<y>>
    BY <2>1, Tuples
  <2>7. Smooth(p, <<x, y>>, r)
    BY <2>5, <2>6, SmoothJoin
  <2> QED BY <1>2, <2>2, <2>4, <2>7 DEF Rested, Rests
<1> QED BY <1>1, <1>3, <1>4

\* The bytes of a value, by its type.
LEMMA ValueBytes ==
  ASSUME NEW v, IsValue(v)
  PROVE  /\ v.type \in Byte /\ v.data \in Octets /\ v = [type |-> v.type, data |-> v.data]
         /\ \/ v.type \in Stream!Simple /\ v.data = <<>> /\ Stream!DukValue(v) = <<v.type>>
            \/ /\ v.type \in Stream!ShortString /\ Len(v.data) = v.type - 96
               /\ Stream!DukValue(v) = <<v.type>> \o v.data
            \/ /\ v.type = 26 /\ Len(v.data) = 8
               /\ Stream!DukValue(v) = <<v.type>> \o v.data
            \/ /\ v.type \in {18, 20} /\ Len(v.data) <= 255
               /\ Stream!DukValue(v) = <<v.type, Len(v.data) \div 256, Len(v.data) % 256>> \o v.data
            \/ /\ v.type = 27 /\ v.data[1] \in InObject /\ Len(v.data) - 1 \in InObject
               /\ Stream!DukValue(v) = <<v.type, v.data[1], Len(v.data) - 1>> \o Tail(v.data)
            \/ /\ v.type \in {28, 30} /\ Len(v.data) \in InPointer
               /\ Stream!DukValue(v) = <<v.type, Len(v.data)>> \o v.data
<1>1. v \in [type : Byte, data : Octets]
  BY DEF IsValue, Octets
<1>2. v.type \in Byte /\ v.data \in Octets /\ v = [type |-> v.type, data |-> v.data]
  BY <1>1
<1> DEFINE t == v.type
<1>3. \/ t \in Stream!Simple \/ t \in Stream!ShortString \/ t = 26 \/ t \in {18, 20} \/ t = 27
      \/ t \in {28, 30}
  BY DEF IsValue, Stream!NUMBER, Stream!STRING2, Stream!BUFFER2, Stream!OBJECT, Stream!POINTER, Stream!HEAPPTR
<1>4. CASE t \in Stream!Simple
  <2>1. t \in {21, 22, 23, 24, 25}
    BY <1>4 DEF Stream!Simple, Stream!UNUSED, Stream!FALSEVAL
  <2>2. t \notin Stream!ShortString
    BY <2>1 DEF Stream!ShortString
  <2>3. v.data = <<>>
    BY <2>1, <2>2 DEF IsValue, Stream!NUMBER, Stream!STRING2, Stream!BUFFER2, Stream!OBJECT, Stream!POINTER, Stream!HEAPPTR
  <2>4. Stream!DukValue(v) = <<v.type>>
    BY <1>4, <2>1, <2>2 DEF Stream!DukValue, Stream!NUMBER, Stream!STRING2, Stream!BUFFER2, Stream!OBJECT,
       Stream!POINTER, Stream!HEAPPTR
  <2> QED BY <1>2, <1>4, <2>3, <2>4
<1>5. CASE t \in Stream!ShortString
  <2>1. /\ t \notin {18, 20, 26, 27, 28, 30} /\ t \notin Stream!Simple
    BY <1>5 DEF Stream!ShortString, Stream!Simple, Stream!UNUSED, Stream!FALSEVAL
  <2>2. Len(v.data) = t - 96
    BY <1>5, <2>1 DEF IsValue, Stream!NUMBER, Stream!STRING2, Stream!BUFFER2, Stream!OBJECT, Stream!POINTER, Stream!HEAPPTR
  <2>3. Stream!DukValue(v) = <<v.type>> \o v.data
    BY <1>5, <2>1 DEF Stream!DukValue, Stream!NUMBER, Stream!STRING2, Stream!BUFFER2, Stream!OBJECT,
       Stream!POINTER, Stream!HEAPPTR
  <2> QED BY <1>2, <1>5, <2>2, <2>3
<1>6. CASE t \in {18, 20, 26, 27, 28, 30}
  <2>1. t \notin Stream!ShortString /\ t \notin Stream!Simple
    BY <1>6 DEF Stream!ShortString, Stream!Simple, Stream!UNUSED, Stream!FALSEVAL
  <2>2. CASE t = 26
    <3>1. Len(v.data) = 8
      BY <2>1, <2>2 DEF IsValue, Stream!NUMBER, Stream!STRING2, Stream!BUFFER2, Stream!OBJECT, Stream!POINTER, Stream!HEAPPTR
    <3>2. Stream!DukValue(v) = <<v.type>> \o v.data
      BY <2>1, <2>2 DEF Stream!DukValue, Stream!NUMBER, Stream!STRING2, Stream!BUFFER2, Stream!OBJECT,
         Stream!POINTER, Stream!HEAPPTR
    <3> QED BY <1>2, <2>2, <3>1, <3>2
  <2>3. CASE t \in {18, 20}
    <3>1. Len(v.data) <= 255
      BY <2>1, <2>3 DEF IsValue, Stream!NUMBER, Stream!STRING2, Stream!BUFFER2, Stream!OBJECT, Stream!POINTER, Stream!HEAPPTR
    <3>2. Stream!DukValue(v) = <<v.type, Len(v.data) \div 256, Len(v.data) % 256>> \o v.data
      <4>1. t # 26 /\ t # 27 /\ t \notin {28, 30}
        BY <2>3
      <4> QED BY <2>1, <2>3, <4>1, Zenon DEF Stream!DukValue, Stream!NUMBER, Stream!STRING2, Stream!BUFFER2, Stream!OBJECT,
         Stream!POINTER, Stream!HEAPPTR
    <3> QED BY <1>2, <2>3, <3>1, <3>2
  <2>4. CASE t = 27
    <3>1. v.data[1] \in InObject /\ Len(v.data) - 1 \in InObject
      BY <2>1, <2>4 DEF IsValue, Stream!NUMBER, Stream!STRING2, Stream!BUFFER2, Stream!OBJECT, Stream!POINTER, Stream!HEAPPTR
    <3>2. Stream!DukValue(v) = <<v.type, v.data[1], Len(v.data) - 1>> \o Tail(v.data)
      BY <2>1, <2>4 DEF Stream!DukValue, Stream!NUMBER, Stream!STRING2, Stream!BUFFER2, Stream!OBJECT,
         Stream!POINTER, Stream!HEAPPTR
    <3> QED BY <1>2, <2>4, <3>1, <3>2
  <2>5. CASE t \in {28, 30}
    <3>1. Len(v.data) \in InPointer
      BY <2>1, <2>5 DEF IsValue, Stream!NUMBER, Stream!STRING2, Stream!BUFFER2, Stream!OBJECT, Stream!POINTER, Stream!HEAPPTR
    <3>2. Stream!DukValue(v) = <<v.type, Len(v.data)>> \o v.data
      BY <2>1, <2>5 DEF Stream!DukValue, Stream!NUMBER, Stream!STRING2, Stream!BUFFER2, Stream!OBJECT,
         Stream!POINTER, Stream!HEAPPTR
    <3> QED BY <1>2, <2>5, <3>1, <3>2
  <2> QED BY <1>6, <2>2, <2>3, <2>4, <2>5
<1> QED BY <1>3, <1>4, <1>5, <1>6

\* Over every value the scanner gets where another value or the end of the message may follow.
LEMMA ValueOver ==
  ASSUME NEW p, Rested(p), NEW v, IsValue(v)
  PROVE  Passes(p, Stream!DukValue(v))
<1> DEFINE t == v.type
           d == v.data
<1>1. t \in Byte /\ d \in Octets /\ p \in States
  BY ValueBytes DEF Rested
<1>2. Len(d) \in Nat
  BY <1>1, LenProperties DEF Octets
<1>3. CASE t \in Stream!Simple /\ Stream!DukValue(v) = <<t>>
  <2>1. GoesOn(p, t, p)
    BY <1>3, SimpleByte DEF Rested
  <2>2. Smooth(p, <<t>>, p) /\ <<t>> \in Octets
    BY <1>1, <2>1, SmoothByte, OneByte
  <2> QED BY <1>3, <2>2 DEF Passes, Rested, Ready
<1>4. CASE t \in Stream!ShortString /\ Len(d) = t - 96 /\ Stream!DukValue(v) = <<t>> \o d
  <2>1. 96 + Len(d) = t /\ Len(d) <= 31
    <3>1. \A n \in Nat : \A u \in 96..127 : n = u - 96 => 96 + n = u /\ n <= 31
      OBVIOUS
    <3>2. t \in 96..127 /\ Len(d) = t - 96
      BY <1>4, Zenon DEF Stream!ShortString
    <3> HIDE DEF t, d
    <3> QED BY <1>2, <3>1, <3>2
  <2>2. PICK q \in States : GoesOn(p, t, q) /\ q.nextChunk = Len(d) /\ q.lastType = 0
    BY <1>2, <2>1, ShortStringByte DEF Rested
  <2>3. PICK r \in States : Smooth(p, <<t>> \o d, r) /\ r.nextChunk = 0 /\ r.lastType = q.lastType
    BY <1>1, <2>2, ByteAndChunk
  <2>4. <<t>> \o d \in Octets
    BY <1>1, OneByte, JoinedBytes
  <2> QED BY <1>4, <2>2, <2>3, <2>4 DEF Passes, Ready
<1>5. CASE t = 26 /\ Len(d) = 8 /\ Stream!DukValue(v) = <<t>> \o d
  <2>1. PICK q \in States : GoesOn(p, 26, q) /\ q.nextChunk = 8 /\ q.lastType = 0
    BY NumberByte DEF Rested
  <2>2. GoesOn(p, t, q) /\ q.nextChunk = Len(d)
    BY <1>5, <2>1
  <2>3. PICK r \in States : Smooth(p, <<t>> \o d, r) /\ r.nextChunk = 0 /\ r.lastType = q.lastType
    BY <1>1, <2>1, <2>2, ByteAndChunk
  <2>4. <<t>> \o d \in Octets
    BY <1>1, OneByte, JoinedBytes
  <2> QED BY <1>5, <2>1, <2>3, <2>4 DEF Passes, Ready
<1>6. CASE /\ t \in {18, 20} /\ Len(d) <= 255
           /\ Stream!DukValue(v) = <<t, Len(d) \div 256, Len(d) % 256>> \o d
  <2> DEFINE x == Len(d) \div 256
             y == Len(d) % 256
  <2>1. \A n \in Nat : n <= 255 => n \div 256 = 0 /\ n % 256 = n /\ n \in 0..255
    OBVIOUS
  <2>2. x = 0 /\ y = Len(d) /\ x \in Byte /\ y \in Byte
    <3> HIDE DEF t, d
    <3>1. Len(d) \div 256 = 0 /\ Len(d) % 256 = Len(d) /\ Len(d) \in 0..255
      BY <1>2, <1>6, <2>1
    <3>2. 0 \in Byte /\ Len(d) \in Byte
      BY <3>1, SomeBytes DEF Byte
    <3> QED BY <3>1, <3>2, Zenon
  <2> HIDE DEF x, y
  <2>3. PICK q1 \in States : GoesOn(p, t, q1) /\ q1.nextChunk = 0 /\ q1.lastType = t /\ q1.curTypePos = 0
    BY <1>6, LongByte DEF Rested
  <2>4. PICK q2 \in States : /\ GoesOn(q1, x, q2) /\ q2.nextChunk = 0 /\ q2.lastType = q1.lastType
                             /\ q2.curTypePos = 1
    BY <1>6, <2>2, <2>3, HighByte
  <2>5. PICK q3 \in States : GoesOn(q2, y, q3) /\ q3.nextChunk = y /\ q3.lastType = 0
    BY <1>6, <2>2, <2>3, <2>4, LowByte
  <2>6. PICK r \in States : Smooth(q3, d, r) /\ r.nextChunk = 0 /\ r.lastType = q3.lastType
    BY <1>1, <2>2, <2>5, Chunk
  <2>7. Smooth(p, <<t>>, q1) /\ Smooth(q1, <<x>>, q2) /\ Smooth(q2, <<y>>, q3)
    BY <1>1, <2>2, <2>3, <2>4, <2>5, SmoothByte
  <2>8. /\ <<t, x>> = <<t>> \o <<x>> /\ <<t, x, y>> = <<t, x>> \o <<y>>
        /\ <<t>> \in Octets /\ <<x>> \in Octets /\ <<y>> \in Octets
        /\ <<t, x>> \in Octets /\ <<t, x, y>> \in Octets
    BY <1>1, <2>2, Tuples
  <2>9. Smooth(p, <<t, x>>, q2)
    BY <2>7, <2>8, SmoothJoin
  <2>10. Smooth(p, <<t, x, y>>, q3)
    BY <2>7, <2>8, <2>9, SmoothJoin
  <2>11. Smooth(p, <<t, x, y>> \o d, r) /\ <<t, x, y>> \o d \in Octets
    BY <1>1, <2>6, <2>8, <2>10, SmoothJoin, JoinedBytes
  <2>12. Ready(r)
    BY <2>5, <2>6 DEF Ready
  <2> QED BY <1>6, <2>11, <2>12 DEF Passes, x, y
<1>7. CASE /\ t = 27 /\ d[1] \in InObject /\ Len(d) - 1 \in InObject
           /\ Stream!DukValue(v) = <<t, d[1], Len(d) - 1>> \o Tail(d)
  <2> DEFINE x == d[1]
             y == Len(d) - 1
             e == Tail(d)
  <2>1. x \in Byte /\ y \in Byte /\ y \in Nat /\ x \in InObject /\ y \in InObject
    BY <1>7, InsideObject
  <2>2. e \in Octets /\ Len(e) = y
    <3>1. d # <<>>
      BY <1>2, <2>1, EmptySeq DEF Octets
    <3> QED BY <1>1, <3>1, HeadTailProperties DEF Octets
  <2> HIDE DEF x, y, e
  <2>3. PICK q1 \in States : GoesOn(p, 27, q1) /\ q1.nextChunk = 0 /\ q1.lastType = 27 /\ q1.curTypePos = 0
    BY ObjectByte DEF Rested
  <2>4. PICK q2 \in States : GoesOn(q1, x, q2) /\ q2.nextChunk = 0 /\ q2.lastType = 27 /\ q2.curTypePos = 1
    BY <2>1, <2>3, ClassByte
  <2>5. PICK q3 \in States : GoesOn(q2, y, q3) /\ q3.nextChunk = y /\ q3.lastType = 27
    BY <2>1, <2>4, ObjectLengthByte
  <2>6. PICK r \in States : Smooth(q3, e, r) /\ r.nextChunk = 0 /\ r.lastType = q3.lastType
    BY <2>2, <2>5, Chunk
  <2>7. Smooth(p, <<t>>, q1) /\ Smooth(q1, <<x>>, q2) /\ Smooth(q2, <<y>>, q3)
    BY <1>1, <1>7, <2>1, <2>3, <2>4, <2>5, SmoothByte
  <2>8. /\ <<t, x>> = <<t>> \o <<x>> /\ <<t, x, y>> = <<t, x>> \o <<y>>
        /\ <<t>> \in Octets /\ <<x>> \in Octets /\ <<y>> \in Octets
        /\ <<t, x>> \in Octets /\ <<t, x, y>> \in Octets
    BY <1>1, <2>1, Tuples
  <2>9. Smooth(p, <<t, x>>, q2)
    BY <2>7, <2>8, SmoothJoin
  <2>10. Smooth(p, <<t, x, y>>, q3)
    BY <2>7, <2>8, <2>9, SmoothJoin
  <2>11. Smooth(p, <<t, x, y>> \o e, r) /\ <<t, x, y>> \o e \in Octets
    BY <2>2, <2>6, <2>8, <2>10, SmoothJoin, JoinedBytes
  <2>12. Ready(r)
    BY <2>5, <2>6 DEF Ready
  <2> QED BY <1>7, <2>11, <2>12 DEF Passes, x, y, e
<1>8. CASE t \in {28, 30} /\ Len(d) \in InPointer /\ Stream!DukValue(v) = <<t, Len(d)>> \o d
  <2> DEFINE y == Len(d)
  <2>1. y \in InPointer /\ y \in Byte
    BY <1>8, InsideObject DEF InPointer
  <2> HIDE DEF y
  <2>2. PICK q1 \in States : GoesOn(p, t, q1) /\ q1.nextChunk = 0 /\ q1.lastType = t
    BY <1>8, PointerByte DEF Rested
  <2>3. PICK q2 \in States : GoesOn(q1, y, q2) /\ q2.nextChunk = y /\ q2.lastType = 0
    BY <1>8, <2>1, <2>2, PointerLengthByte
  <2>4. PICK r \in States : Smooth(q2, d, r) /\ r.nextChunk = 0 /\ r.lastType = q2.lastType
    BY <1>1, <2>3, Chunk DEF y
  <2>5. Smooth(p, <<t>>, q1) /\ Smooth(q1, <<y>>, q2)
    BY <1>1, <2>1, <2>2, <2>3, SmoothByte
  <2>6. <<t, y>> = <<t>> \o <<y>> /\ <<t>> \in Octets /\ <<y>> \in Octets /\ <<t, y>> \in Octets
    BY <1>1, <2>1, Tuples
  <2>7. Smooth(p, <<t, y>>, q2)
    BY <2>5, <2>6, SmoothJoin
  <2>8. Smooth(p, <<t, y>> \o d, r) /\ <<t, y>> \o d \in Octets
    BY <1>1, <2>4, <2>6, <2>7, SmoothJoin, JoinedBytes
  <2>9. Ready(r)
    BY <2>3, <2>4 DEF Ready
  <2> QED BY <1>8, <2>8, <2>9 DEF Passes, y
<1>9. \/ t \in Stream!Simple /\ Stream!DukValue(v) = <<t>>
      \/ t \in Stream!ShortString /\ Len(d) = t - 96 /\ Stream!DukValue(v) = <<t>> \o d
      \/ t = 26 /\ Len(d) = 8 /\ Stream!DukValue(v) = <<t>> \o d
      \/ /\ t \in {18, 20} /\ Len(d) <= 255
         /\ Stream!DukValue(v) = <<t, Len(d) \div 256, Len(d) % 256>> \o d
      \/ /\ t = 27 /\ d[1] \in InObject /\ Len(d) - 1 \in InObject
         /\ Stream!DukValue(v) = <<t, d[1], Len(d) - 1>> \o Tail(d)
      \/ t \in {28, 30} /\ Len(d) \in InPointer /\ Stream!DukValue(v) = <<t, Len(d)>> \o d
  BY ValueBytes, Zenon
<1> QED
  <2>3. (t \in Stream!Simple /\ Stream!DukValue(v) = <<t>>) => Passes(p, Stream!DukValue(v))
    BY <1>3, Zenon
  <2>4. (t \in Stream!ShortString /\ Len(d) = t - 96 /\ Stream!DukValue(v) = <<t>> \o d)
        => Passes(p, Stream!DukValue(v))
    BY <1>4, Zenon
  <2>5. (t = 26 /\ Len(d) = 8 /\ Stream!DukValue(v) = <<t>> \o d)
        => Passes(p, Stream!DukValue(v))
    BY <1>5, Zenon
  <2>6. (/\ t \in {18, 20} /\ Len(d) <= 255
         /\ Stream!DukValue(v) = <<t, Len(d) \div 256, Len(d) % 256>> \o d)
        => Passes(p, Stream!DukValue(v))
    BY <1>6, Zenon
  <2>7. (/\ t = 27 /\ d[1] \in InObject /\ Len(d) - 1 \in InObject
         /\ Stream!DukValue(v) = <<t, d[1], Len(d) - 1>> \o Tail(d))
        => Passes(p, Stream!DukValue(v))
    BY <1>7, Zenon
  <2>8. (t \in {28, 30} /\ Len(d) \in InPointer /\ Stream!DukValue(v) = <<t, Len(d)>> \o d)
        => Passes(p, Stream!DukValue(v))
    BY <1>8, Zenon
  <2> QED BY <1>9, <2>3, <2>4, <2>5, <2>6, <2>7, <2>8, Zenon

LEMMA AtRestIsRested == Rested(Stream!AtRest)
<1>1. 0 \in Byte /\ -1 \in Pos
  BY SomeBytes
<1> QED BY <1>1 DEF Rested, States, Stream!AtRest

\* Bytes none of which moves the scanner.
LEMMA Still ==
  ASSUME NEW p, Rested(p), NEW s \in Octets, \A k \in 1..Len(s) : GoesOn(p, s[k], p)
  PROVE  Rests(p, s)
<1> DEFINE g == [k \in 0..Len(s) |-> p]
<1>1. Len(s) \in Nat
  BY LenProperties DEF Octets
<1>2. p \in States
  BY DEF Rested
<1>3. Run(g, p, s, p)
  BY <1>1, <1>2 DEF Run
<1> HIDE DEF g
<1> QED BY <1>3 DEF Rests, Smooth

LEMMA StillBytes ==
  ASSUME NEW p, Rested(p), NEW n \in {0, 1}
  PROVE  /\ Rests(p, <<Stream!REP>>) /\ Rests(p, <<Stream!REP, 128 + n>>)
         /\ Rests(p, <<Stream!ERR, 129>>) /\ Rests(p, <<129>>)
         /\ Rests(p, <<Stream!NFY, 129, 128 + n>>)
         /\ Rests(p, <<Stream!NFY, 129, 128 + n, Stream!UNDEFINED, Stream!UNDEFINED, 128, 128>>)
<1>1. \A b \in {2, 3, 4} : GoesOn(p, b, p)
  BY StartByte DEF Rested
<1>2. \A b \in {128, 129} : GoesOn(p, b, p)
  <2>1. \A b \in Nat : b >= 128 /\ b <= 191 => GoesOn(p, b, p)
    BY SmallIntByte DEF Rested
  <2> QED BY <2>1
<1>3. GoesOn(p, 22, p)
  BY SimpleByte DEF Rested, Stream!Simple, Stream!UNUSED, Stream!FALSEVAL
<1>4. 128 + n \in {128, 129}
  OBVIOUS
<1>5. {2, 3, 4, 22, 128, 129} \subseteq Byte
  BY DEF Byte
<1> DEFINE Quiet == {b \in Byte : GoesOn(p, b, p)}
<1>6. 2 \in Quiet /\ 3 \in Quiet /\ 4 \in Quiet /\ 22 \in Quiet /\ 128 \in Quiet /\ 129 \in Quiet
      /\ 128 + n \in Quiet
  BY <1>1, <1>2, <1>3, <1>4, <1>5
<1>7. \A s \in Seq(Quiet) : Rests(p, s)
  <2> SUFFICES ASSUME NEW s \in Seq(Quiet) PROVE Rests(p, s)
    OBVIOUS
  <2>1. s \in Octets
    BY SeqMonotonic DEF Octets
  <2>2. \A k \in 1..Len(s) : s[k] \in Quiet
    BY ElementOfSeq
  <2> QED BY <2>1, <2>2, Still
<1> HIDE DEF Quiet
<1>8. <<2>> \in Seq(Quiet) /\ <<2, 128 + n>> \in Seq(Quiet) /\ <<3, 129>> \in Seq(Quiet)
      /\ <<129>> \in Seq(Quiet) /\ <<4, 129, 128 + n>> \in Seq(Quiet)
      /\ <<4, 129, 128 + n, 22, 22, 128, 128>> \in Seq(Quiet)
  BY <1>6
<1> QED BY <1>7, <1>8 DEF Stream!REP, Stream!ERR, Stream!NFY, Stream!UNDEFINED

LEMMA FrameOver ==
  ASSUME NEW p, Ready(p), NEW f, IsFrame(f)
  PROVE  Rests(p, Stream!DukFrame(f))
<1> DEFINE a == Stream!DukString(f.file)
           b == Stream!DukString(f.func)
           c == Stream!IntEncode(f.line)
           d == Stream!IntEncode(f.pc)
<1>1. Rests(p, a)
  BY StringOver DEF IsFrame
<1>2. \A q : Rested(q) => Rests(q, b) /\ Rests(q, c) /\ Rests(q, d)
  BY StringOver, NumberOver, RestedIsReady DEF IsFrame
<1> HIDE DEF a, b, c, d
<1>3. Rests(p, a \o b)
  BY <1>1, <1>2, RestsThen
<1>4. Rests(p, (a \o b) \o c)
  BY <1>2, <1>3, RestsThen
<1>5. Rests(p, ((a \o b) \o c) \o d)
  BY <1>2, <1>4, RestsThen
<1> QED BY <1>5 DEF Stream!DukFrame, a, b, c, d

\* An entry of a list.
IsEntry(kind, e) ==
  \/ kind = "listBreak" /\ e = [file |-> e.file, line |-> e.line] /\ IsName(e.file) /\ IsNumber(e.line)
  \/ kind = "callStack" /\ IsFrame(e)
  \/ kind = "locals" /\ IsName(e.name) /\ IsValue(e.val)

LEMMA EntryOver ==
  ASSUME NEW p, Ready(p), NEW kind, NEW e, IsEntry(kind, e)
  PROVE  Passes(p, Stream!DukEntry(kind, e))
<1>1. CASE kind = "listBreak"
  <2>1. IsName(e.file) /\ IsNumber(e.line)
    BY <1>1 DEF IsEntry
  <2>2. Rests(p, Stream!DukString(e.file))
    BY <2>1, StringOver
  <2>3. \A q : Rested(q) => Rests(q, Stream!IntEncode(e.line))
    BY <2>1, NumberOver
  <2>4. Rests(p, Stream!DukString(e.file) \o Stream!IntEncode(e.line))
    BY <2>2, <2>3, RestsThen
  <2> QED BY <1>1, <2>4, RestedIsReady DEF Stream!DukEntry
<1>2. CASE kind = "callStack"
  <2>1. Rests(p, Stream!DukFrame(e))
    BY <1>2, FrameOver DEF IsEntry
  <2> QED BY <1>2, <2>1, RestedIsReady DEF Stream!DukEntry
<1>3. CASE kind = "locals"
  <2>1. IsName(e.name) /\ IsValue(e.val)
    BY <1>3 DEF IsEntry
  <2>2. Rests(p, Stream!DukString(e.name))
    BY <2>1, StringOver
  <2>3. \A q : Rested(q) => Passes(q, Stream!DukValue(e.val))
    BY <2>1, ValueOver
  <2>4. Passes(p, Stream!DukString(e.name) \o Stream!DukValue(e.val))
    BY <2>2, <2>3, RestsThen
  <2> QED BY <1>3, <2>4 DEF Stream!DukEntry
<1> QED BY <1>1, <1>2, <1>3 DEF IsEntry

LEMMA EntryBytes ==
  ASSUME NEW kind, NEW e, IsEntry(kind, e)
  PROVE  Stream!DukEntry(kind, e) \in Octets
BY AtRestIsRested, RestedIsReady, EntryOver DEF Passes

\* The entries of a list one after the other.
Listed(f, kind, list) ==
  /\ f \in [0..Len(list) -> Octets]
  /\ f[0] = <<>>
  /\ \A k \in 1..Len(list) : f[k] = f[k - 1] \o Stream!DukEntry(kind, list[k])
  /\ f[Len(list)] = Stream!DukList(kind, list)

LEMMA ListIs ==
  ASSUME NEW kind, NEW list, Len(list) \in Nat, \A k \in 1..Len(list) : IsEntry(kind, list[k])
  PROVE  \E f : Listed(f, kind, list)
<1> DEFINE n == Len(list)
           entry(k) == Stream!DukEntry(kind, list[k])
           step == [x \in (1..n) \X Octets |-> x[2] \o entry(x[1])]
           F(f) == f = [k \in 0..n |-> IF k = 0 THEN <<>> ELSE f[k - 1] \o Stream!DukEntry(kind, list[k])]
<1>1. \A k \in 1..n : entry(k) \in Octets
  BY EntryBytes
<1>2. <<>> \in Octets /\ n \in Nat
  BY EmptySeq DEF Octets
<1> HIDE DEF n, entry
<1>3. step \in Rounds(n, Octets)
  <2>1. \A x \in (1..n) \X Octets : x[2] \o entry(x[1]) \in Octets
    BY <1>1, JoinedBytes
  <2> QED BY <2>1 DEF Rounds
<1>4. PICK g : IsLoop(g, n, Octets, <<>>, step)
  <2> HIDE DEF step
  <2> QED BY <1>2, <1>3, Loop, Zenon
<1>5. /\ g \in [0..n -> Octets] /\ g[0] = <<>>
      /\ \A k \in 1..n : g[k] = g[k - 1] \o entry(k)
  <2>1. ASSUME NEW k \in 1..n PROVE <<k, g[k - 1]>> \in (1..n) \X Octets
    BY <1>2, <1>4 DEF IsLoop
  <2> QED BY <1>4, <2>1 DEF IsLoop
<1>6. F(g)
  <2>1. \A k \in 0..n : k # 0 => k \in 1..n
    BY <1>2
  <2>2. g = [k \in 0..n |-> g[k]]
    BY <1>5
  <2>3. \A k \in 0..n : g[k] = IF k = 0 THEN <<>> ELSE g[k - 1] \o entry(k)
    BY <1>5, <2>1
  <2> QED BY <2>2, <2>3 DEF entry
<1> DEFINE c == CHOOSE f : F(f)
<1>7. F(c)
  <2> HIDE DEF F
  <2> QED BY <1>6
<1>8. Stream!DukList(kind, list) = c[n]
  BY DEF Stream!DukList, n
<1> HIDE DEF c
<1>9. c[0] = <<>> /\ \A k \in 1..n : c[k] = c[k - 1] \o entry(k)
  <2>1. c = [k \in 0..n |-> IF k = 0 THEN <<>> ELSE c[k - 1] \o Stream!DukEntry(kind, list[k])]
    BY <1>7
  <2>2. 0 \in 0..n /\ \A k \in 1..n : k \in 0..n /\ k # 0
    BY <1>2
  <2> QED BY <2>1, <2>2 DEF entry
<1> DEFINE P == {k \in 0..n : c[k] = g[k]}
<1>10. 0 \in P /\ \A k \in 1..n : k - 1 \in P => k \in P
  <2>1. 0 \in 0..n /\ c[0] = g[0]
    BY <1>2, <1>5, <1>9
  <2>2. ASSUME NEW k \in 1..n, k - 1 \in P PROVE k \in P
    <3>1. c[k - 1] = g[k - 1] /\ k \in 0..n
      BY <1>2, <2>2
    <3>2. c[k] = g[k]
      BY <1>5, <1>9, <3>1
    <3> QED BY <3>1, <3>2
  <2>3. 0 \in P
    BY <2>1
  <2> HIDE DEF P
  <2> QED BY <2>2, <2>3
<1>11. 0..n \subseteq P
  <2> HIDE DEF P
  <2> QED BY <1>2, <1>10, UpTo
<1>12. c[n] = g[n]
  BY <1>2, <1>11
<1>13. Listed(g, kind, list)
  BY <1>5, <1>8, <1>12 DEF Listed, n, entry
<1> QED BY <1>13

LEMMA ListOver ==
  ASSUME NEW p, Ready(p), NEW kind, NEW list, Len(list) \in Nat,
         \A k \in 1..Len(list) : IsEntry(kind, list[k])
  PROVE  Passes(p, Stream!DukList(kind, list))
<1> DEFINE n == Len(list)
<1>1. PICK f : Listed(f, kind, list)
  BY ListIs
<1> DEFINE P == {k \in 0..n : Passes(p, f[k])}
<1>2. 0 \in P
  <2>1. Smooth(p, <<>>, p) /\ <<>> \in Octets
    BY SmoothNothing, EmptySeq DEF Ready, Octets
  <2>2. Passes(p, <<>>)
    BY <2>1 DEF Passes
  <2> QED BY <1>1, <2>2 DEF Listed
<1>3. ASSUME NEW k \in 1..n, k - 1 \in P PROVE k \in P
  <2>1. \A q : Ready(q) => Passes(q, Stream!DukEntry(kind, list[k]))
    BY EntryOver
  <2>2. Passes(p, f[k - 1] \o Stream!DukEntry(kind, list[k]))
    BY <1>3, <2>1, PassesThen
  <2>3. k \in 0..n
    OBVIOUS
  <2> QED BY <1>1, <2>2, <2>3 DEF Listed
<1>4. 0..n \subseteq P
  <2> HIDE DEF P
  <2> QED BY <1>2, <1>3, UpTo
<1>5. n \in P
  <2> HIDE DEF P
  <2> QED BY <1>4
<1> QED BY <1>1, <1>5 DEF Listed

-----------------------------------------------------------------------------
(* The messages of the interpreter                                         *)

\* The first k elements of a list.
Prefix(told, k) == [j \in 1..k |-> told[j]]

\* What it can say, by kind.
IsMessage(m) ==
  \/ m.kind \in {"getVar", "eval"} /\ m.good \in BOOLEAN /\ IsValue(m.val)
  \/ /\ m.kind \in {"listBreak", "callStack", "locals"}
     /\ Len(m.list) \in 0..MaxList /\ m.list = Prefix(m.list, Len(m.list))
     /\ \A k \in 1..Len(m.list) : IsEntry(m.kind, m.list[k])
     /\ m.kind = "listBreak" => m = [kind |-> m.kind, list |-> m.list]
  \/ m.kind = "info" /\ IsNumber(m.version) /\ IsName(m.name)
  \/ m.kind = "error" /\ IsName(m.name)
  \/ m.kind = "idle" /\ m.state \in {0, 1} /\ m = [kind |-> "idle", state |-> m.state]
  \/ m.kind = "status" /\ m.state \in {0, 1} /\ IsFrame(m.at)
  \/ m = [kind |-> "simple"]

LEMMA MessageOver ==
  ASSUME NEW p, Rested(p), NEW m, IsMessage(m)
  PROVE  Passes(p, Stream!DukMessage(m))
<1> DEFINE Goes == Passes(p, Stream!DukMessage(m))
<1>1. ASSUME m.kind \in {"getVar", "eval"}, m.good \in BOOLEAN, IsValue(m.val) PROVE Goes
  <2>1. Stream!Valid(m) \in {0, 1}
    BY DEF Stream!Valid
  <2>2. Rests(p, <<Stream!REP, 128 + Stream!Valid(m)>>)
    BY <2>1, StillBytes
  <2>3. \A q : Rested(q) => Passes(q, Stream!DukValue(m.val))
    BY <1>1, ValueOver
  <2>4. Passes(p, <<Stream!REP, 128 + Stream!Valid(m)>> \o Stream!DukValue(m.val))
    BY <2>2, <2>3, RestsThen
  <2>5. Stream!DukMessage(m) = <<Stream!REP, 128 + Stream!Valid(m)>> \o Stream!DukValue(m.val)
    BY <1>1 DEF Stream!DukMessage
  <2> QED BY <2>4, <2>5
<1>2. ASSUME m.kind \in {"listBreak", "callStack", "locals"},
             Len(m.list) \in Nat, \A k \in 1..Len(m.list) : IsEntry(m.kind, m.list[k])
      PROVE  Goes
  <2>1. Rests(p, <<Stream!REP>>)
    BY StillBytes
  <2>2. \A q : Rested(q) => Passes(q, Stream!DukList(m.kind, m.list))
    BY <1>2, ListOver, RestedIsReady
  <2>3. Passes(p, <<Stream!REP>> \o Stream!DukList(m.kind, m.list))
    BY <2>1, <2>2, RestsThen
  <2>4. Stream!DukMessage(m) = <<Stream!REP>> \o Stream!DukList(m.kind, m.list)
    BY <1>2 DEF Stream!DukMessage
  <2> QED BY <2>3, <2>4
<1>3. ASSUME m.kind = "info", IsNumber(m.version), IsName(m.name) PROVE Goes
  <2> DEFINE a == <<Stream!REP>>
             b == Stream!IntEncode(m.version)
             c == Stream!DukString(m.name)
             d == <<129>>
  <2>1. Rests(p, a)
    BY StillBytes
  <2>2. \A q : Rested(q) => Rests(q, b) /\ Rests(q, c) /\ Rests(q, d)
    BY <1>3, NumberOver, StringOver, StillBytes, RestedIsReady
  <2>3. Stream!DukMessage(m) = (((a \o b) \o c) \o c) \o d
    BY <1>3 DEF Stream!DukMessage
  <2> HIDE DEF a, b, c, d
  <2>4. Rests(p, a \o b)
    BY <2>1, <2>2, RestsThen
  <2>5. Rests(p, (a \o b) \o c)
    BY <2>2, <2>4, RestsThen
  <2>6. Rests(p, ((a \o b) \o c) \o c)
    BY <2>2, <2>5, RestsThen
  <2>7. Rests(p, (((a \o b) \o c) \o c) \o d)
    BY <2>2, <2>6, RestsThen
  <2> QED BY <2>3, <2>7, RestedIsReady
<1>4. ASSUME m.kind = "error", IsName(m.name) PROVE Goes
  <2>1. Rests(p, <<Stream!ERR, 129>>)
    BY StillBytes
  <2>2. \A q : Rested(q) => Rests(q, Stream!DukString(m.name))
    BY <1>4, StringOver, RestedIsReady
  <2>3. Rests(p, <<Stream!ERR, 129>> \o Stream!DukString(m.name))
    BY <2>1, <2>2, RestsThen
  <2>4. Stream!DukMessage(m) = <<Stream!ERR, 129>> \o Stream!DukString(m.name)
    BY <1>4 DEF Stream!DukMessage
  <2> QED BY <2>3, <2>4, RestedIsReady
<1>5. ASSUME m.kind = "idle", m.state \in {0, 1} PROVE Goes
  <2>1. Rests(p, <<Stream!NFY, 129, 128 + m.state, Stream!UNDEFINED, Stream!UNDEFINED, 128, 128>>)
    BY <1>5, StillBytes
  <2> QED BY <1>5, <2>1, RestedIsReady DEF Stream!DukMessage
<1>6. ASSUME m.kind = "status", m.state \in {0, 1}, IsFrame(m.at) PROVE Goes
  <2>1. Rests(p, <<Stream!NFY, 129, 128 + m.state>>)
    BY <1>6, StillBytes
  <2>2. \A q : Rested(q) => Rests(q, Stream!DukFrame(m.at))
    BY <1>6, FrameOver, RestedIsReady
  <2>3. Rests(p, <<Stream!NFY, 129, 128 + m.state>> \o Stream!DukFrame(m.at))
    BY <2>1, <2>2, RestsThen
  <2>4. Stream!DukMessage(m) = <<Stream!NFY, 129, 128 + m.state>> \o Stream!DukFrame(m.at)
    BY <1>6 DEF Stream!DukMessage
  <2> QED BY <2>3, <2>4, RestedIsReady
<1>7. ASSUME m.kind = "simple" PROVE Goes
  <2>1. Rests(p, <<Stream!REP>>)
    BY StillBytes
  <2> QED BY <1>7, <2>1, RestedIsReady DEF Stream!DukMessage
<1> HIDE DEF Goes
<1>8. Goes
  BY <1>1, <1>2, <1>3, <1>4, <1>5, <1>6, <1>7 DEF IsMessage
<1> QED BY <1>8 DEF Goes

\* Every reply to a call, every error and every notification is such a message.
LEMMA AnswerIsMessage ==
  ASSUME StreamAssumption, NEW c, NEW m \in Stream!Answers(c)
  PROVE  /\ IsMessage(m)
         /\ \/ m.kind = c.kind
            \/ /\ m.kind = "simple"
               /\ c.kind \notin {"getVar", "eval", "listBreak", "callStack", "locals", "info"}
<1>1. CASE c.kind \in {"getVar", "eval"}
  <2>1. m \in [kind : {c.kind}, good : BOOLEAN, val : Values]
    BY <1>1 DEF Stream!Answers
  <2> QED BY <1>1, <2>1 DEF IsMessage, StreamAssumption
<1> DEFINE Lists(E) == UNION {[1..n -> E] : n \in 0..MaxList}
<1>2. ASSUME NEW E, NEW l \in Lists(E)
      PROVE  /\ Len(l) \in 0..MaxList /\ l = Prefix(l, Len(l))
             /\ \A k \in 1..Len(l) : l[k] \in E
  <2>1. PICK n \in 0..MaxList : l \in [1..n -> E]
    BY <1>2
  <2>2. n \in Nat
    BY DEF StreamAssumption
  <2>3. l \in Seq(E) /\ Len(l) = n
    BY <2>1, <2>2, SeqDef
  <2>4. l = Prefix(l, n)
    BY <2>1 DEF Prefix
  <2> QED BY <2>1, <2>3, <2>4
<1> HIDE DEF Lists
<1>3. CASE c.kind = "listBreak"
  <2>1. m \in [kind : {c.kind}, list : Lists([file : Names, line : Numbers])]
    BY <1>3 DEF Stream!Answers, Stream!Listing, Lists
  <2> DEFINE l == m.list
  <2>2. l \in Lists([file : Names, line : Numbers]) /\ m.kind = c.kind /\ m = [kind |-> m.kind, list |-> m.list]
    BY <2>1
  <2>3. /\ Len(l) \in 0..MaxList /\ l = Prefix(l, Len(l))
        /\ \A k \in 1..Len(l) : l[k] \in [file : Names, line : Numbers]
    BY <1>2, <2>2
  <2>4. \A k \in 1..Len(m.list) : IsEntry("listBreak", m.list[k])
    BY <2>3 DEF IsEntry, StreamAssumption
  <2> HIDE DEF l
  <2>5. m.list = l
    BY DEF l
  <2> QED BY <1>3, <2>2, <2>3, <2>4, <2>5 DEF IsMessage
<1>4. CASE c.kind = "callStack"
  <2>1. m \in [kind : {c.kind}, list : Lists(Frames)]
    BY <1>4 DEF Stream!Answers, Stream!Listing, Lists
  <2> DEFINE l == m.list
  <2>2. l \in Lists(Frames) /\ m.kind = c.kind /\ m = [kind |-> m.kind, list |-> m.list]
    BY <2>1
  <2>3. /\ Len(l) \in 0..MaxList /\ l = Prefix(l, Len(l))
        /\ \A k \in 1..Len(l) : l[k] \in Frames
    BY <1>2, <2>2
  <2>4. \A k \in 1..Len(m.list) : IsEntry("callStack", m.list[k])
    BY <2>3 DEF IsEntry, StreamAssumption
  <2> HIDE DEF l
  <2>5. m.list = l
    BY DEF l
  <2> QED BY <1>4, <2>2, <2>3, <2>4, <2>5 DEF IsMessage
<1>5. CASE c.kind = "locals"
  <2>1. m \in [kind : {c.kind}, list : Lists([name : Names, val : Values])]
    BY <1>5 DEF Stream!Answers, Stream!Listing, Lists
  <2> DEFINE l == m.list
  <2>2. l \in Lists([name : Names, val : Values]) /\ m.kind = c.kind /\ m = [kind |-> m.kind, list |-> m.list]
    BY <2>1
  <2>3. /\ Len(l) \in 0..MaxList /\ l = Prefix(l, Len(l))
        /\ \A k \in 1..Len(l) : l[k] \in [name : Names, val : Values]
    BY <1>2, <2>2
  <2>4. \A k \in 1..Len(m.list) : IsEntry("locals", m.list[k])
    BY <2>3 DEF IsEntry, StreamAssumption
  <2> HIDE DEF l
  <2>5. m.list = l
    BY DEF l
  <2> QED BY <1>5, <2>2, <2>3, <2>4, <2>5 DEF IsMessage
<1>6. CASE c.kind = "info"
  <2>1. m \in [kind : {c.kind}, version : Numbers, name : Names]
    BY <1>6 DEF Stream!Answers
  <2> QED BY <1>6, <2>1 DEF IsMessage, StreamAssumption
<1>7. CASE c.kind \notin {"getVar", "eval", "listBreak", "callStack", "locals", "info"}
  <2>1. m \in [kind : {"simple"}]
    BY <1>7 DEF Stream!Answers
  <2>2. m = [kind |-> "simple"] /\ m.kind = "simple"
    BY <2>1
  <2> QED BY <1>7, <2>2 DEF IsMessage
<1> QED BY <1>1, <1>3, <1>4, <1>5, <1>6, <1>7

LEMMA NoticeIsMessage ==
  ASSUME StreamAssumption, NEW m \in Stream!Errors \union Stream!Notifications
  PROVE  IsMessage(m) /\ m.kind \in {"error", "idle", "status"}
BY DEF StreamAssumption, Stream!Errors, Stream!Notifications, IsMessage

-----------------------------------------------------------------------------
(* The state of DebuggerWrite                                              *)

\* The position in the buffer has no part in what the scanner does.
Moved(p, m) == [p EXCEPT !.msgLength = m]

LEMMA MovedState ==
  ASSUME NEW p \in States, NEW m \in Nat
  PROVE  /\ Moved(p, m) \in States /\ Moved(p, m).msgLength = m
         /\ Moved(p, m).nextChunk = p.nextChunk /\ Moved(p, m).lastType = p.lastType
BY DEF Moved, States

LEMMA MovedByte ==
  ASSUME NEW p \in States, NEW q \in States, NEW b \in Byte, NEW m \in Nat, GoesOn(p, b, q)
  PROVE  GoesOn(Moved(p, m), b, Moved(q, m))
<1>1. ~Stream!Ends(Moved(p, m), b)
  BY MovedState DEF GoesOn, Stream!Ends
<1>2. Stream!Handle2ByteType(Moved(p, m), b) = Moved(Stream!Handle2ByteType(p, b), m)
  <2> DEFINE w == Moved(p, m)
  <2>1. w.curTypePos = p.curTypePos /\ w.lastType = p.lastType
    BY DEF States, Moved
  <2>2. [w EXCEPT !.lastType = b, !.curTypePos = 0] = Moved([p EXCEPT !.lastType = b, !.curTypePos = 0], m)
    BY DEF States, Moved
  <2>3. [w EXCEPT !.internal = b, !.curTypePos = 1] = Moved([p EXCEPT !.internal = b, !.curTypePos = 1], m)
    BY DEF States, Moved
  <2> DEFINE n == Stream!Swap16(b * 256)
             far(r) == [r EXCEPT !.curTypePos = -1, !.nextChunk = n, !.internal = 0, !.lastType = 0]
  <2>4. far(w) = Moved(far(p), m)
    <3> HIDE DEF n
    <3> QED BY DEF States, Moved
  <2> HIDE DEF w
  <2>5. Stream!Handle2ByteType(w, b) = Moved(Stream!Handle2ByteType(p, b), m)
    <3>1. CASE p.lastType \notin {Stream!BUFFER2, Stream!STRING2}
      BY <2>1, <2>2, <3>1 DEF Stream!Handle2ByteType
    <3>2. CASE p.lastType \in {Stream!BUFFER2, Stream!STRING2} /\ p.curTypePos = 0
      BY <2>1, <2>3, <3>2 DEF Stream!Handle2ByteType
    <3>3. CASE p.lastType \in {Stream!BUFFER2, Stream!STRING2} /\ p.curTypePos # 0
      <4>1. Stream!Handle2ByteType(w, b) = far(w) /\ Stream!Handle2ByteType(p, b) = far(p)
        BY <2>1, <3>3 DEF Stream!Handle2ByteType
      <4> HIDE DEF far
      <4> QED BY <2>4, <4>1
    <3> QED BY <3>1, <3>2, <3>3
  <2> QED BY <2>5 DEF w
<1>3. Stream!HandleObjectType(Moved(p, m), b) = Moved(Stream!HandleObjectType(p, b), m)
  BY DEF Stream!HandleObjectType, States, Moved
<1>4. Stream!HandlePointerType(Moved(p, m), b) = Moved(Stream!HandlePointerType(p, b), m)
  BY DEF Stream!HandlePointerType, States, Moved
<1>5. /\ [Moved(p, m) EXCEPT !.nextChunk = @ - 1] = Moved([p EXCEPT !.nextChunk = @ - 1], m)
      /\ [Moved(p, m) EXCEPT !.nextChunk = b - 96, !.lastType = 0] =
           Moved([p EXCEPT !.nextChunk = b - 96, !.lastType = 0], m)
      /\ [Moved(p, m) EXCEPT !.nextChunk = 8] = Moved([p EXCEPT !.nextChunk = 8], m)
      /\ [Moved(p, m) EXCEPT !.lastType = IF @ = 192 THEN 0 ELSE 192] =
           Moved([p EXCEPT !.lastType = IF @ = 192 THEN 0 ELSE 192], m)
      /\ [Moved(p, m) EXCEPT !.stuck = TRUE] = Moved([p EXCEPT !.stuck = TRUE], m)
  <2>1. [Moved(p, m) EXCEPT !.nextChunk = @ - 1] = Moved([p EXCEPT !.nextChunk = @ - 1], m)
    BY DEF States, Moved
  <2>2. [Moved(p, m) EXCEPT !.nextChunk = b - 96, !.lastType = 0] =
           Moved([p EXCEPT !.nextChunk = b - 96, !.lastType = 0], m)
    BY DEF States, Moved
  <2>3. [Moved(p, m) EXCEPT !.nextChunk = 8] = Moved([p EXCEPT !.nextChunk = 8], m)
    BY DEF States, Moved
  <2>4. [Moved(p, m) EXCEPT !.lastType = IF @ = 192 THEN 0 ELSE 192] =
           Moved([p EXCEPT !.lastType = IF @ = 192 THEN 0 ELSE 192], m)
    BY DEF States, Moved
  <2>5. [Moved(p, m) EXCEPT !.stuck = TRUE] = Moved([p EXCEPT !.stuck = TRUE], m)
    BY DEF States, Moved
  <2> QED BY <2>1, <2>2, <2>3, <2>4, <2>5, Zenon
<1>6. Stream!ScanByte(Moved(p, m), b) = Moved(Stream!ScanByte(p, b), m)
  <2> DEFINE w == Moved(p, m)
  <2>1. w.nextChunk = p.nextChunk /\ w.lastType = p.lastType /\ p.nextChunk \in Nat
    BY MovedState DEF States
  <2> HIDE DEF w
  <2> QED BY <1>2, <1>3, <1>4, <1>5, <2>1 DEF Stream!ScanByte, w
<1> QED BY <1>1, <1>6 DEF GoesOn

LEMMA SmoothMoved ==
  ASSUME NEW p, NEW s \in Octets, NEW q, NEW m \in Nat, Smooth(p, s, q)
  PROVE  Smooth(Moved(p, m), s, Moved(q, m))
<1>1. PICK g : Run(g, p, s, q)
  BY DEF Smooth
<1>2. Len(s) \in Nat /\ \A k \in 1..Len(s) : s[k] \in Byte
  BY LenProperties DEF Octets
<1> DEFINE h == [k \in 0..Len(s) |-> Moved(g[k], m)]
<1>3. h \in [0..Len(s) -> States] /\ h[0] = Moved(p, m) /\ h[Len(s)] = Moved(q, m)
  <2>1. g \in [0..Len(s) -> States] /\ g[0] = p /\ g[Len(s)] = q
    BY <1>1 DEF Run
  <2>2. 0 \in 0..Len(s) /\ Len(s) \in 0..Len(s)
    BY <1>2
  <2>3. \A k \in 0..Len(s) : Moved(g[k], m) \in States
    BY <2>1, MovedState
  <2> QED BY <2>1, <2>2, <2>3
<1>4. ASSUME NEW k \in 1..Len(s) PROVE GoesOn(h[k - 1], s[k], h[k])
  <2>1. k \in 0..Len(s) /\ k - 1 \in 0..Len(s)
    BY <1>2
  <2>2. g[k - 1] \in States /\ g[k] \in States /\ GoesOn(g[k - 1], s[k], g[k]) /\ s[k] \in Byte
    BY <1>1, <1>2, <2>1 DEF Run
  <2>3. GoesOn(Moved(g[k - 1], m), s[k], Moved(g[k], m))
    BY <2>2, MovedByte
  <2> QED BY <2>1, <2>3
<1>5. Run(h, Moved(p, m), s, Moved(q, m))
  <2> HIDE DEF h
  <2> QED BY <1>3, <1>4 DEF Run
<1> HIDE DEF h
<1> QED BY <1>5 DEF Smooth

\* The bytes behind those of the buffer are the new ones.
LEMMA NewBytes ==
  ASSUME NEW s \in Octets, NEW t \in Octets
  PROVE  SubSeq(s \o t, Len(s) + 1, Len(s) + Len(t)) = t
<1> DEFINE w == s \o t
           u == SubSeq(w, Len(s) + 1, Len(s) + Len(t))
<1>1. /\ w \in Octets /\ Len(w) = Len(s) + Len(t) /\ Len(s) \in Nat /\ Len(t) \in Nat
      /\ \A k \in 1..Len(t) : w[Len(s) + k] = t[k]
  BY JoinedBytes
<1> HIDE DEF w
<1>2. \A k \in 1..Len(w) : w[k] \in Byte
  BY <1>1, ElementOfSeq DEF Octets
<1> DEFINE a == Len(s) + 1
           z == Len(s) + Len(t)
<1>3. a \in Int /\ z \in Int /\ \A k \in a..z : w[k] \in Byte
  BY <1>1, <1>2
<1>4. /\ u \in Octets /\ Len(u) = IF a <= z THEN z - a + 1 ELSE 0
      /\ \A k \in 1..z - a + 1 : u[k] = w[a + k - 1]
  <2> HIDE DEF a, z
  <2>1. SubSeq(w, a, z) \in Octets /\ Len(SubSeq(w, a, z)) = (IF a <= z THEN z - a + 1 ELSE 0)
        /\ \A k \in 1..z - a + 1 : SubSeq(w, a, z)[k] = w[a + k - 1]
    BY <1>3, SubSeqProperties DEF Octets
  <2> QED BY <2>1 DEF a, z
<1>5. Len(u) = Len(t) /\ \A k \in 1..Len(t) : u[k] = t[k]
  <2> HIDE DEF u
  <2>1. z - a + 1 = Len(t) /\ (~(a <= z) => Len(t) = 0) /\ \A k \in Nat : a + k - 1 = Len(s) + k
    BY <1>1
  <2> QED BY <1>1, <1>4, <2>1
<1> HIDE DEF u
<1>6. u = t
  BY <1>4, <1>5, SeqEqual DEF Octets
<1> QED BY <1>6 DEF u, w

\* The end of a message from where it may follow.
LEMMA ScanEnd ==
  ASSUME NEW p, Ready(p)
  PROVE  Stream!Scan(p, <<Stream!EOM>>) =
           [p |-> [p EXCEPT !.nextChunk = 0, !.lastType = 0], over |-> TRUE, n |-> 0]
<1> DEFINE z == [p |-> p, over |-> FALSE, n |-> 0]
           o == Stream!Scanned(z, 0)
           F(f) == f = [k \in 0..Len(<<Stream!EOM>>) |->
                          IF k = 0 THEN [p |-> p, over |-> FALSE, n |-> 0]
                          ELSE Stream!Scanned(f[k - 1], <<Stream!EOM>>[k])]
           h == [k \in 0..1 |-> IF k = 0 THEN z ELSE o]
<1>1. Len(<<Stream!EOM>>) = 1 /\ <<Stream!EOM>>[1] = 0
  BY DEF Stream!EOM
<1>2. p.stuck = FALSE /\ Stream!Ends(p, 0)
  <2>1. p.stuck = FALSE
    BY DEF Ready, States
  <2>2. p.nextChunk = 0 /\ p.lastType \in {0, 27}
    BY DEF Ready
  <2> QED BY <2>1, <2>2 DEF Stream!Ends, Stream!EOM, Stream!BUFFER2, Stream!STRING2
<1>3. o = [p |-> [p EXCEPT !.nextChunk = 0, !.lastType = 0], over |-> TRUE, n |-> 0]
  <2> DEFINE x == z
  <2>1. x.p = p /\ x.over = FALSE /\ x.n = 0
    OBVIOUS
  <2> HIDE DEF x
  <2>2. Stream!Scanned(x, 0) = [p |-> [p EXCEPT !.nextChunk = 0, !.lastType = 0], over |-> TRUE, n |-> 0]
    BY <1>2, <2>1 DEF Stream!Scanned
  <2> QED BY <2>2 DEF x
<1>4. F(h)
  <2>1. \A k \in 0..1 : k = 0 \/ k = 1
    OBVIOUS
  <2>2. h[0] = z /\ h[1] = o
    OBVIOUS
  <2>3. \A k \in 0..1 : (IF k = 0 THEN z ELSE o) =
          IF k = 0 THEN [p |-> p, over |-> FALSE, n |-> 0] ELSE Stream!Scanned(h[k - 1], <<Stream!EOM>>[k])
    <3> HIDE DEF h
    <3> QED BY <1>1, <2>1, <2>2
  <2> QED BY <1>1, <2>3
<1> DEFINE c == CHOOSE f : F(f)
<1>5. F(c)
  <2> HIDE DEF F
  <2> QED BY <1>4
<1>6. Stream!Scan(p, <<Stream!EOM>>) = c[1]
  BY <1>1 DEF Stream!Scan
<1>7. c[0] = z /\ c[1] = Stream!Scanned(c[0], 0)
  <2> HIDE DEF c
  <2>1. c = [k \in 0..1 |-> IF k = 0 THEN [p |-> p, over |-> FALSE, n |-> 0]
                            ELSE Stream!Scanned(c[k - 1], <<Stream!EOM>>[k])]
    BY <1>1, <1>5
  <2>2. 0 \in 0..1 /\ 1 \in 0..1 /\ 1 # 0 /\ 1 - 1 = 0
    OBVIOUS
  <2>3. c[0] = z
    BY <2>1, <2>2
  <2>4. c[1] = Stream!Scanned(c[0], <<Stream!EOM>>[1])
    BY <2>1, <2>2
  <2> QED BY <1>1, <2>3, <2>4
<1> QED BY <1>3, <1>6, <1>7

-----------------------------------------------------------------------------
(* The stream of replies                                                   *)

\* The invariant of the replies: what has been written and what is still to be written
\* make up the message; over the rest of it the scanner goes smoothly to where its end may
\* follow; between messages nothing is left of the last one.
Replying ==
  /\ \/ reply \in Stream!Errors \union Stream!Notifications
     \/ call # Stream!NoCall /\ reply \in Stream!Answers(call)
  /\ buf \o rest = Stream!DukMessage(reply)
  /\ \E q : Smooth(parse, rest, q) /\ Ready(q)
StreamInv ==
  /\ rest \in Octets /\ buf \in Octets
  /\ parse \in States /\ parse.msgLength = Len(buf)
  /\ IF reply = Stream!NoReply THEN rest = <<>> /\ buf = <<>> /\ Rested(parse) ELSE Replying

LEMMA StreamStart ==
  ASSUME Stream!Init PROVE StreamInv /\ RequestInv
BY AtRestIsRested, EmptySeq DEF Stream!Init, StreamInv, RequestInv, Rested, Octets, Stream!AtRest

LEMMA Speaks ==
  ASSUME StreamAssumption, StreamInv, Stream!DukSends
  PROVE  StreamInv' /\ reply' # Stream!NoReply
<1>1. /\ rest = <<>> /\ reply = Stream!NoReply /\ rest' = Stream!DukMessage(reply')
      /\ call' = call /\ buf' = buf /\ parse' = parse
  BY DEF Stream!DukSends
<1>2. buf = <<>> /\ Rested(parse)
  BY <1>1 DEF StreamInv
<1>3. \/ reply' \in Stream!Errors \union Stream!Notifications
      \/ call # Stream!NoCall /\ reply' \in Stream!Answers(call)
  BY DEF Stream!DukSends
<1>4. IsMessage(reply') /\ reply' # Stream!NoReply
  <2>1. IsMessage(reply')
    BY <1>3, AnswerIsMessage, NoticeIsMessage
  <2> QED BY <2>1 DEF IsMessage, Stream!NoReply
<1>5. rest' \in Octets /\ \E q : Smooth(parse, rest', q) /\ Ready(q)
  BY <1>1, <1>2, <1>4, MessageOver DEF Passes
<1>6. <<>> \o rest' = rest'
  BY <1>5, ConcatEmptySeq DEF Octets
<1> QED BY <1>1, <1>2, <1>3, <1>4, <1>5, <1>6 DEF StreamInv, Replying

LEMMA PieceWritten ==
  ASSUME StreamInv, Stream!DebuggerWrite
  PROVE  StreamInv' /\ heard' = heard
<1>1. PICK n \in Stream!Pieces(rest) :
        /\ rest' = SubSeq(rest, n + 1, Len(rest))
        /\ Stream!Write(SubSeq(rest, 1, n))
        /\ reply' = reply
  BY DEF Stream!DebuggerWrite
<1>2. rest \in Octets /\ buf \in Octets /\ parse \in States /\ parse.msgLength = Len(buf)
  BY DEF StreamInv
<1> DEFINE first == SubSeq(rest, 1, n)
           last == SubSeq(rest, n + 1, Len(rest))
<1>3. n \in 1..Len(rest)
  BY <1>2, LenProperties DEF Stream!Pieces, Octets
<1>4. first \in Octets /\ last \in Octets /\ Len(first) = n /\ first \o last = rest
  BY <1>2, <1>3, Cut
<1>5. reply # Stream!NoReply /\ Replying
  <2>1. rest # <<>>
    BY <1>3
  <2> QED BY <2>1 DEF StreamInv
<1> HIDE DEF first, last
<1>6. rest' = last /\ Stream!Write(first)
  BY <1>1 DEF first, last
<1>7. PICK q : Smooth(parse, rest, q) /\ Ready(q)
  BY <1>5 DEF Replying
<1>8. PICK r : Smooth(parse, first, r) /\ Smooth(r, last, q)
  BY <1>4, <1>7, SmoothPart
<1> DEFINE m == Len(buf) + n
<1>9. /\ buf \o first \in Octets /\ Len(buf \o first) = m /\ m \in Nat /\ Len(buf) \in Nat
      /\ SubSeq(buf \o first, parse.msgLength + 1, parse.msgLength + Len(first)) = first
  <2>1. buf \o first \in Octets /\ Len(buf \o first) = Len(buf) + Len(first) /\ Len(buf) \in Nat
        /\ Len(first) \in Nat
    BY <1>2, <1>4, JoinedBytes
  <2>2. SubSeq(buf \o first, Len(buf) + 1, Len(buf) + Len(first)) = first
    BY <1>2, <1>4, NewBytes
  <2>3. parse.msgLength = Len(buf) /\ Len(first) = n
    BY <1>2, <1>4
  <2>4. Len(buf) + n \in Nat
    BY <2>1, <2>3
  <2> QED BY <2>1, <2>2, <2>3, <2>4, Zenon
<1>10. Stream!Scan(parse, first) = [p |-> r, over |-> FALSE, n |-> n]
  BY <1>4, <1>8, SmoothScan
<1>11. parse' = Moved(r, m) /\ buf' = buf \o first /\ heard' = heard /\ call' = call
  <2> DEFINE s == Stream!Scan(parse, SubSeq(buf \o first, parse.msgLength + 1,
                                            parse.msgLength + Len(first)))
  <2>1. s = [p |-> r, over |-> FALSE, n |-> n]
    BY <1>9, <1>10
  <2>2. parse' = [s.p EXCEPT !.msgLength = Stream!MsgLength(s, s.p.msgLength)]
        /\ (~s.over => buf' = buf \o first /\ heard' = heard /\ call' = call)
    BY <1>6 DEF Stream!Write
  <2> HIDE DEF s
  <2>3. r.msgLength = Len(buf)
    BY <1>2, <1>4, <1>8, SmoothKept
  <2>4. s.p = r /\ s.over = FALSE /\ s.n = n
    BY <2>1
  <2>5. Stream!MsgLength(s, Len(buf)) = m
    BY <2>4 DEF Stream!MsgLength
  <2> QED BY <2>2, <2>3, <2>4, <2>5 DEF Moved
<1>12. Smooth(Moved(r, m), last, Moved(q, m)) /\ Moved(r, m) \in States /\ Moved(r, m).msgLength = m
  BY <1>4, <1>8, <1>9, SmoothMoved, SmoothStates, MovedState
<1>13. Ready(Moved(q, m))
  BY <1>7, <1>9, MovedState DEF Ready
<1>14. buf' \o rest' = buf \o rest
  BY <1>2, <1>4, <1>6, <1>11, Assoc
<1>15. Replying'
  <2>1. /\ \/ reply' \in Stream!Errors \union Stream!Notifications
           \/ call' # Stream!NoCall /\ reply' \in Stream!Answers(call')
    BY <1>1, <1>5, <1>11 DEF Replying
  <2>2. buf' \o rest' = Stream!DukMessage(reply')
    BY <1>1, <1>5, <1>14 DEF Replying
  <2>3. Smooth(parse', rest', Moved(q, m))
    BY <1>6, <1>11, <1>12
  <2> QED BY <1>13, <2>1, <2>2, <2>3 DEF Replying
<1> QED BY <1>1, <1>4, <1>5, <1>6, <1>9, <1>11, <1>12, <1>15 DEF StreamInv

\* The end of a message puts the scanner back to rest, and the message is handled.
LEMMA EndWritten ==
  ASSUME StreamInv, Stream!WriteEnd
  PROVE  /\ StreamInv' /\ Replying
         /\ heard' = [sent |-> reply,
                      shown |-> Stream!HandleMessage(Stream!DukMessage(reply) \o <<Stream!EOM>>,
                                  call.kind, Len(Stream!DukMessage(reply)))]
<1>1. reply # Stream!NoReply /\ rest = <<>> /\ rest' = rest /\ reply' = Stream!NoReply
      /\ Stream!Write(<<Stream!EOM>>)
  BY DEF Stream!WriteEnd
<1>2. rest \in Octets /\ buf \in Octets /\ parse \in States /\ parse.msgLength = Len(buf) /\ Replying
  BY <1>1 DEF StreamInv
<1>3. Ready(parse)
  <2>1. PICK q : Smooth(parse, <<>>, q) /\ Ready(q)
    BY <1>1, <1>2 DEF Replying
  <2>2. q = parse
    BY <2>1 DEF Smooth, Run
  <2> QED BY <2>1, <2>2
<1>4. buf = Stream!DukMessage(reply)
  BY <1>1, <1>2, ConcatEmptySeq DEF Replying, Octets
<1> DEFINE end == <<Stream!EOM>>
           all == buf \o end
           s == Stream!Scan(parse, SubSeq(all, parse.msgLength + 1, parse.msgLength + Len(end)))
<1>5. end \in Octets
  BY SomeBytes, OneByte DEF Stream!EOM
<1>6. s = [p |-> [parse EXCEPT !.nextChunk = 0, !.lastType = 0], over |-> TRUE, n |-> 0]
  BY <1>2, <1>3, <1>5, NewBytes, ScanEnd
<1>7. /\ parse' = [s.p EXCEPT !.msgLength = Stream!MsgLength(s, s.p.msgLength)]
      /\ s.over => /\ buf' = <<>>
                   /\ heard' = [sent |-> reply,
                                shown |-> Stream!HandleMessage(all, call.kind, parse.msgLength)]
  BY <1>1 DEF Stream!Write
<1> HIDE DEF s, all
<1>8. s.over = TRUE /\ s.n = 0 /\ s.p = [parse EXCEPT !.nextChunk = 0, !.lastType = 0]
  BY <1>6
<1>9. parse' = [s.p EXCEPT !.msgLength = 0]
  <2>1. Stream!MsgLength(s, s.p.msgLength) = 0
    <3>1. \A k : Stream!MsgLength(s, k) = 0 + s.n
      BY <1>8 DEF Stream!MsgLength
    <3>2. 0 + s.n = 0
      BY <1>8
    <3> QED BY <3>1, <3>2
  <2> QED BY <1>7, <2>1
<1>10. s.p \in States /\ s.p.nextChunk = 0 /\ s.p.lastType = 0
  <2>1. 0 \in Byte
    BY SomeBytes
  <2> DEFINE r == [parse EXCEPT !.nextChunk = 0, !.lastType = 0]
  <2>2. r \in States
    BY <1>2, <2>1 DEF States
  <2>3. r.nextChunk = 0 /\ r.lastType = 0
    BY <1>2 DEF States
  <2>4. s.p = r
    BY <1>8
  <2> HIDE DEF r
  <2> QED BY <2>2, <2>3, <2>4
<1>11. parse' \in States /\ parse'.msgLength = 0 /\ Rested(parse')
  <2>1. parse' = Moved(s.p, 0)
    BY <1>9 DEF Moved
  <2> QED BY <1>10, <2>1, MovedState DEF Rested
<1>12. buf' = <<>> /\ heard' = [sent |-> reply,
         shown |-> Stream!HandleMessage(buf \o end, call.kind, Len(buf))]
  BY <1>2, <1>7, <1>8 DEF all
<1>13. StreamInv'
  <2>1. <<>> \in Octets /\ Len(<<>>) = 0
    BY EmptySeq DEF Octets
  <2> QED BY <1>1, <1>2, <1>11, <1>12, <2>1 DEF StreamInv
<1> QED BY <1>2, <1>4, <1>12, <1>13

LEMMA StreamStep ==
  ASSUME StreamAssumption, StreamInv, Stream!Next
  PROVE  StreamInv'
<1>1. CASE Stream!DebugMsgUnmarshal
  <2>1. /\ call = Stream!NoCall /\ reply' = reply /\ rest' = rest /\ buf' = buf /\ parse' = parse
    BY <1>1 DEF Stream!DebugMsgUnmarshal
  <2> QED BY <2>1 DEF StreamInv, Replying
<1>2. CASE Stream!DebuggerRead
  BY <1>2 DEF Stream!DebuggerRead, StreamInv, Replying
<1> QED BY <1>1, <1>2, Speaks, PieceWritten, EndWritten DEF Stream!Next

-----------------------------------------------------------------------------
(* Messages taken apart                                                    *)

\* UnmarshalBuffer of two values and of four.
LEMMA TwoUnmarshalled ==
  ASSUME NEW b, NEW i, NEW s, NEW t
  PROVE  Stream!UnmarshalBuffer(b, i, <<s, t>>) =
           Stream!Unmarshalled(b, Stream!Unmarshalled(b, [vals |-> <<>>, pos |-> i], s), t)
<1> DEFINE sig == <<s, t>>
           z0 == [vals |-> <<>>, pos |-> i]
           z1 == Stream!Unmarshalled(b, z0, s)
           z2 == Stream!Unmarshalled(b, z1, t)
           F(f) == f = [k \in 0..Len(sig) |->
                          IF k = 0 THEN [vals |-> <<>>, pos |-> i]
                          ELSE Stream!Unmarshalled(b, f[k - 1], sig[k])]
           h == [k \in 0..2 |-> IF k = 0 THEN z0 ELSE IF k = 1 THEN z1 ELSE z2]
           c == CHOOSE f : F(f)
<1>1. Len(sig) = 2 /\ sig[1] = s /\ sig[2] = t
  OBVIOUS
<1> HIDE DEF sig
<1>2. \A k \in 0..2 : k = 0 \/ k = 1 \/ k = 2
  OBVIOUS
<1>3. F(h)
  <2>1. h[0] = z0 /\ h[1] = z1 /\ h[2] = z2
    <3> HIDE DEF z0, z1, z2
    <3> QED OBVIOUS
  <2>2. \A k \in 0..2 : (IF k = 0 THEN z0 ELSE IF k = 1 THEN z1 ELSE z2) =
          IF k = 0 THEN [vals |-> <<>>, pos |-> i] ELSE Stream!Unmarshalled(b, h[k - 1], sig[k])
    <3> HIDE DEF h
    <3> QED BY <1>1, <1>2, <2>1
  <2> QED BY <1>1, <2>2
<1>4. F(c)
  <2> HIDE DEF F
  <2> QED BY <1>3
<1>5. Stream!UnmarshalBuffer(b, i, sig) = c[2]
  BY <1>1 DEF Stream!UnmarshalBuffer
<1> HIDE DEF c
<1>6. c = [k \in 0..2 |-> IF k = 0 THEN [vals |-> <<>>, pos |-> i]
                          ELSE Stream!Unmarshalled(b, c[k - 1], sig[k])]
  BY <1>1, <1>4
<1>7. \A k \in 0..2 : c[k] = IF k = 0 THEN [vals |-> <<>>, pos |-> i]
                             ELSE Stream!Unmarshalled(b, c[k - 1], sig[k])
  BY <1>6
<1>8. c[0] = z0 /\ c[1] = Stream!Unmarshalled(b, c[0], s) /\ c[2] = Stream!Unmarshalled(b, c[1], t)
  BY <1>1, <1>7
<1> QED BY <1>5, <1>8 DEF sig

LEMMA FourUnmarshalled ==
  ASSUME NEW b, NEW i, NEW s, NEW t, NEW u, NEW v
  PROVE  Stream!UnmarshalBuffer(b, i, <<s, t, u, v>>) =
           Stream!Unmarshalled(b, Stream!Unmarshalled(b, Stream!Unmarshalled(b,
             Stream!Unmarshalled(b, [vals |-> <<>>, pos |-> i], s), t), u), v)
<1> DEFINE sig == <<s, t, u, v>>
           z0 == [vals |-> <<>>, pos |-> i]
           z1 == Stream!Unmarshalled(b, z0, s)
           z2 == Stream!Unmarshalled(b, z1, t)
           z3 == Stream!Unmarshalled(b, z2, u)
           z4 == Stream!Unmarshalled(b, z3, v)
           F(f) == f = [k \in 0..Len(sig) |->
                          IF k = 0 THEN [vals |-> <<>>, pos |-> i]
                          ELSE Stream!Unmarshalled(b, f[k - 1], sig[k])]
           h == [k \in 0..4 |-> IF k = 0 THEN z0 ELSE IF k = 1 THEN z1 ELSE IF k = 2 THEN z2
                                ELSE IF k = 3 THEN z3 ELSE z4]
           c == CHOOSE f : F(f)
<1>1. Len(sig) = 4 /\ sig[1] = s /\ sig[2] = t /\ sig[3] = u /\ sig[4] = v
  OBVIOUS
<1> HIDE DEF sig
<1>2. \A k \in 0..4 : k = 0 \/ k = 1 \/ k = 2 \/ k = 3 \/ k = 4
  OBVIOUS
<1>3. F(h)
  <2>1. h[0] = z0 /\ h[1] = z1 /\ h[2] = z2 /\ h[3] = z3 /\ h[4] = z4
    <3> HIDE DEF z0, z1, z2, z3, z4
    <3> QED OBVIOUS
  <2>2. \A k \in 0..4 : (IF k = 0 THEN z0 ELSE IF k = 1 THEN z1 ELSE IF k = 2 THEN z2
                         ELSE IF k = 3 THEN z3 ELSE z4) =
          IF k = 0 THEN [vals |-> <<>>, pos |-> i] ELSE Stream!Unmarshalled(b, h[k - 1], sig[k])
    <3> HIDE DEF h
    <3> QED BY <1>1, <1>2, <2>1
  <2> QED BY <1>1, <2>2
<1>4. F(c)
  <2> HIDE DEF F
  <2> QED BY <1>3
<1>5. Stream!UnmarshalBuffer(b, i, sig) = c[4]
  BY <1>1 DEF Stream!UnmarshalBuffer
<1> HIDE DEF c
<1>6. c = [k \in 0..4 |-> IF k = 0 THEN [vals |-> <<>>, pos |-> i]
                          ELSE Stream!Unmarshalled(b, c[k - 1], sig[k])]
  BY <1>1, <1>4
<1>7. \A k \in 0..4 : c[k] = IF k = 0 THEN [vals |-> <<>>, pos |-> i]
                             ELSE Stream!Unmarshalled(b, c[k - 1], sig[k])
  BY <1>6
<1>8. /\ c[0] = z0 /\ c[1] = Stream!Unmarshalled(b, c[0], s) /\ c[2] = Stream!Unmarshalled(b, c[1], t)
      /\ c[3] = Stream!Unmarshalled(b, c[2], u) /\ c[4] = Stream!Unmarshalled(b, c[3], v)
  BY <1>1, <1>7
<1> QED BY <1>5, <1>8 DEF sig

\* A sequence grown by an element.
LEMMA Appended ==
  ASSUME NEW S, NEW s \in Seq(S), NEW r \in Seq(S), NEW x \in S, Len(r) = Len(s) + 1, r[Len(r)] = x,
         \A k \in 1..Len(s) : r[k] = s[k]
  PROVE  Append(s, x) = r
<1>1. Append(s, x) \in Seq(S) /\ Len(Append(s, x)) = Len(s) + 1 /\ Append(s, x)[Len(s) + 1] = x
      /\ \A k \in 1..Len(s) : Append(s, x)[k] = s[k]
  BY AppendProperties
<1>2. Len(s) \in Nat
  BY LenProperties
<1> DEFINE a == Append(s, x)
<1> HIDE DEF a
<1>3. \A k \in 1..Len(r) : a[k] = r[k]
  BY <1>1, <1>2 DEF a
<1> QED BY <1>1, <1>3, SeqEqual DEF a

LEMMA Grown ==
  ASSUME NEW w, NEW x, NEW y, NEW z
  PROVE  /\ Append(<<>>, w) = <<w>> /\ Append(<<w>>, x) = <<w, x>>
         /\ Append(<<w, x>>, y) = <<w, x, y>> /\ Append(<<w, x, y>>, z) = <<w, x, y, z>>
<1> DEFINE S == {w, x, y, z}
<1>1. <<w>> \in Seq(S) /\ <<w, x>> \in Seq(S) /\ <<w, x, y>> \in Seq(S) /\ <<w, x, y, z>> \in Seq(S)
  OBVIOUS
<1>2. /\ Len(<<w>>) = 1 /\ Len(<<w, x>>) = 2 /\ Len(<<w, x, y>>) = 3 /\ Len(<<w, x, y, z>>) = 4
      /\ <<w>>[1] = w /\ <<w, x>>[1] = w /\ <<w, x>>[2] = x 
      /\ <<w, x, y>>[1] = w /\ <<w, x, y>>[2] = x /\ <<w, x, y>>[3] = y
      /\ <<w, x, y, z>>[1] = w /\ <<w, x, y, z>>[2] = x /\ <<w, x, y, z>>[3] = y /\ <<w, x, y, z>>[4] = z
  OBVIOUS
<1> DEFINE s1 == <<w>>
           s2 == <<w, x>>
           s3 == <<w, x, y>>
           s4 == <<w, x, y, z>>
<1>3. x \in S /\ y \in S /\ z \in S
  OBVIOUS
<1>6. s1 \in Seq(S) /\ s2 \in Seq(S) /\ s3 \in Seq(S) /\ s4 \in Seq(S)
  BY <1>1
<1>7. /\ Len(s1) = 1 /\ Len(s2) = 2 /\ Len(s3) = 3 /\ Len(s4) = 4
      /\ s1[1] = w /\ s2[1] = w /\ s2[2] = x
      /\ s3[1] = w /\ s3[2] = x /\ s3[3] = y
      /\ s4[1] = w /\ s4[2] = x /\ s4[3] = y /\ s4[4] = z
  BY <1>2
<1>4. Append(<<>>, w) = <<w>>
  OBVIOUS
<1> HIDE DEF S, s1, s2, s3, s4
<1>8. Append(s1, x) = s2
  <2>1. Len(s2) = Len(s1) + 1 /\ s2[Len(s2)] = x /\ \A k \in 1..Len(s1) : s2[k] = s1[k]
    BY <1>7
  <2> QED BY <1>3, <1>6, <2>1, Appended
<1>9. Append(s2, y) = s3
  <2>1. Len(s3) = Len(s2) + 1 /\ s3[Len(s3)] = y /\ \A k \in 1..Len(s2) : s3[k] = s2[k]
    BY <1>7
  <2> QED BY <1>3, <1>6, <2>1, Appended
<1>10. Append(s3, z) = s4
  <2>1. Len(s4) = Len(s3) + 1 /\ s4[Len(s4)] = z /\ \A k \in 1..Len(s3) : s4[k] = s3[k]
    BY <1>7
  <2> QED BY <1>3, <1>6, <2>1, Appended
<1> QED BY <1>4, <1>8, <1>9, <1>10 DEF s1, s2, s3, s4

\* At position p of b is the value v, of n bytes.
Decodes(b, p, t, v, n) == Stream!Decode(b, p, t) = [val |-> v, adv |-> n]

\* From position p to q it adds to the values vs, which become us.
Got(vs, p) == [vals |-> vs, pos |-> p]
Adds(b, vs, p, t, us, q) ==
  \E v, n : Decodes(b, p, t, v, n) /\ us = Append(vs, v) /\ q = p + n

LEMMA OneUnmarshalled ==
  ASSUME NEW b, NEW vs, NEW p, NEW t, NEW us, NEW q, Adds(b, vs, p, t, us, q)
  PROVE  Stream!Unmarshalled(b, Got(vs, p), t) = Got(us, q)
<1>1. PICK v, n : Decodes(b, p, t, v, n) /\ us = Append(vs, v) /\ q = p + n
  BY DEF Adds
<1> DEFINE a == Got(vs, p)
           d == Stream!Decode(b, p, t)
<1>2. a.vals = vs /\ a.pos = p
  BY DEF Got
<1>3. d.val = v /\ d.adv = n
  BY <1>1 DEF Decodes
<1> HIDE DEF a
<1>4. Stream!Unmarshalled(b, a, t) = [vals |-> Append(vs, d.val), pos |-> p + d.adv]
  BY <1>2, Zenon DEF Stream!Unmarshalled
<1>5. [vals |-> Append(vs, d.val), pos |-> p + d.adv] = [vals |-> us, pos |-> q]
  BY <1>1, <1>3, Zenon
<1> QED BY <1>4, <1>5 DEF a, Got

\* At position i of b the bytes s are the value v of the type that t says.
ReadsAs(b, i, t, s, v) ==
  At(b, i, s) => Decodes(b, i, t, v, Len(s))

LEMMA ReadsInt ==
  ASSUME NEW b \in Octets, NEW i \in Nat \ {0}, NEW n \in Nat, n <= 16383
  PROVE  ReadsAs(b, i, "i", Stream!IntEncode(n), n)
BY NumberDecoded DEF ReadsAs, Decodes, Stream!Decode

LEMMA ReadsString ==
  ASSUME NEW b \in Octets, NEW i \in Nat \ {0}, NEW s, IsName(s)
  PROVE  ReadsAs(b, i, "s", Stream!DukString(s), s)
BY StringDecoded DEF ReadsAs, Decodes, Stream!Decode

\* Two values one after the other.
Twofold(b, i, r, s, t, u, x, y, q) ==
  /\ b \in Octets /\ i \in Nat \ {0} /\ r \in Octets /\ s \in Octets /\ At(b, i, r \o s)
  /\ ReadsAs(b, i, t, r, x) /\ ReadsAs(b, i + Len(r), u, s, y)
  /\ q = i + Len(r \o s)

LEMMA ReadsTwo ==
  ASSUME NEW b, NEW i, NEW r, NEW s, NEW t, NEW u, NEW x, NEW y, NEW q,
         Twofold(b, i, r, s, t, u, x, y, q)
  PROVE  Stream!UnmarshalBuffer(b, i, <<t, u>>) = Got(<<x, y>>, q)
<1>0. /\ b \in Octets /\ i \in Nat \ {0} /\ r \in Octets /\ s \in Octets /\ At(b, i, r \o s)
      /\ ReadsAs(b, i, t, r, x) /\ ReadsAs(b, i + Len(r), u, s, y)
      /\ q = i + Len(r \o s)
  BY DEF Twofold
<1>1. At(b, i, r) /\ At(b, i + Len(r), s)
  BY <1>0, AtParts
<1>2. Len(r) \in Nat /\ Len(s) \in Nat /\ Len(r \o s) = Len(r) + Len(s)
  BY <1>0, JoinedBytes
<1> DEFINE p2 == i + Len(r)
<1>3. Decodes(b, i, t, x, Len(r)) /\ Decodes(b, p2, u, y, Len(s))
  BY <1>0, <1>1 DEF ReadsAs
<1>4. p2 + Len(s) = i + Len(r \o s)
  BY <1>0, <1>2
<1>5. <<x>> = Append(<<>>, x) /\ <<x, y>> = Append(<<x>>, y)
  BY Grown
<1> HIDE DEF p2
<1>6. p2 = i + Len(r) /\ i + Len(r \o s) = p2 + Len(s)
  BY <1>4 DEF p2
<1>7. Adds(b, <<>>, i, t, <<x>>, p2) /\ Adds(b, <<x>>, p2, u, <<x, y>>, i + Len(r \o s))
  BY <1>3, <1>5, <1>6, Zenon DEF Adds
<1>8. /\ Stream!Unmarshalled(b, Got(<<>>, i), t) = Got(<<x>>, p2)
      /\ Stream!Unmarshalled(b, Got(<<x>>, p2), u) = Got(<<x, y>>, i + Len(r \o s))
  BY <1>7, OneUnmarshalled
<1> QED BY <1>0, <1>8, TwoUnmarshalled DEF Got

\* Four of them one after the other.
Fourfold(b, i, r, s, t, u, k, l, m, n, w, x, y, z, q) ==
  /\ b \in Octets /\ i \in Nat \ {0} /\ r \in Octets /\ s \in Octets /\ t \in Octets /\ u \in Octets
  /\ At(b, i, ((r \o s) \o t) \o u)
  /\ ReadsAs(b, i, k, r, w) /\ ReadsAs(b, i + Len(r), l, s, x)
  /\ ReadsAs(b, i + Len(r \o s), m, t, y) /\ ReadsAs(b, i + Len((r \o s) \o t), n, u, z)
  /\ q = i + Len(((r \o s) \o t) \o u)

LEMMA ReadsFour ==
  ASSUME NEW b, NEW i, NEW r, NEW s, NEW t, NEW u, NEW k, NEW l, NEW m, NEW n,
         NEW w, NEW x, NEW y, NEW z, NEW q, Fourfold(b, i, r, s, t, u, k, l, m, n, w, x, y, z, q)
  PROVE  Stream!UnmarshalBuffer(b, i, <<k, l, m, n>>) = Got(<<w, x, y, z>>, q)
<1>0. /\ b \in Octets /\ i \in Nat \ {0} /\ r \in Octets /\ s \in Octets /\ t \in Octets
      /\ u \in Octets /\ At(b, i, ((r \o s) \o t) \o u)
      /\ ReadsAs(b, i, k, r, w) /\ ReadsAs(b, i + Len(r), l, s, x)
      /\ ReadsAs(b, i + Len(r \o s), m, t, y) /\ ReadsAs(b, i + Len((r \o s) \o t), n, u, z)
  BY DEF Fourfold
<1> DEFINE a2 == r \o s
           a3 == a2 \o t
           a4 == a3 \o u
<1>1. a2 \in Octets /\ Len(r) \in Nat /\ Len(s) \in Nat /\ Len(a2) = Len(r) + Len(s)
  BY <1>0, JoinedBytes
<1>2. a3 \in Octets /\ Len(t) \in Nat /\ Len(a3) = Len(a2) + Len(t)
  <2> HIDE DEF a2
  <2> QED BY <1>0, <1>1, JoinedBytes
<1>3. Len(u) \in Nat /\ Len(a4) = Len(a3) + Len(u)
  <2> HIDE DEF a3
  <2> QED BY <1>0, <1>2, JoinedBytes
<1>4. At(b, i, a3) /\ At(b, i + Len(a3), u)
  <2> HIDE DEF a3
  <2> QED BY <1>0, <1>2, AtParts DEF a4, a3
<1>5. At(b, i, a2) /\ At(b, i + Len(a2), t)
  <2> HIDE DEF a2
  <2> QED BY <1>0, <1>1, <1>4, AtParts
<1>6. At(b, i, r) /\ At(b, i + Len(r), s)
  BY <1>0, <1>5, AtParts
<1> DEFINE p2 == i + Len(r)
           p3 == i + Len(a2)
           p4 == i + Len(a3)
<1>7. p2 + Len(s) = p3 /\ p3 + Len(t) = p4 /\ p4 + Len(u) = i + Len(a4)
  <2> HIDE DEF a2, a3, a4
  <2> QED BY <1>0, <1>1, <1>2, <1>3
<1>8. /\ Decodes(b, i, k, w, Len(r))
      /\ Decodes(b, p2, l, x, Len(s))
      /\ Decodes(b, p3, m, y, Len(t))
      /\ Decodes(b, p4, n, z, Len(u))
  BY <1>0, <1>4, <1>5, <1>6 DEF ReadsAs
<1> HIDE DEF a2, a3, a4, p3, p4
<1> HIDE DEF p2
<1>9. p2 = i + Len(r)
  BY DEF p2
<1> HIDE DEF p2
<1>10. /\ <<w>> = Append(<<>>, w) /\ <<w, x>> = Append(<<w>>, x)
       /\ <<w, x, y>> = Append(<<w, x>>, y) /\ <<w, x, y, z>> = Append(<<w, x, y>>, z)
  BY Grown
<1>11. p3 = p2 + Len(s) /\ p4 = p3 + Len(t) /\ i + Len(a4) = p4 + Len(u)
  BY <1>7
<1>12. /\ Adds(b, <<>>, i, k, <<w>>, p2) /\ Adds(b, <<w>>, p2, l, <<w, x>>, p3)
       /\ Adds(b, <<w, x>>, p3, m, <<w, x, y>>, p4)
       /\ Adds(b, <<w, x, y>>, p4, n, <<w, x, y, z>>, i + Len(a4))
  BY <1>8, <1>9, <1>10, <1>11, Zenon DEF Adds
<1>13. /\ Stream!Unmarshalled(b, Got(<<>>, i), k) = Got(<<w>>, p2)
       /\ Stream!Unmarshalled(b, Got(<<w>>, p2), l) = Got(<<w, x>>, p3)
       /\ Stream!Unmarshalled(b, Got(<<w, x>>, p3), m) = Got(<<w, x, y>>, p4)
       /\ Stream!Unmarshalled(b, Got(<<w, x, y>>, p4), n) = Got(<<w, x, y, z>>, i + Len(a4))
  BY <1>12, OneUnmarshalled
<1>14. q = i + Len(a4)
  BY DEF Fourfold, a4, a3, a2
<1> QED BY <1>13, <1>14, FourUnmarshalled DEF Got

LEMMA FrameRead ==
  ASSUME NEW b \in Octets, NEW i \in Nat \ {0}, NEW f, IsFrame(f), At(b, i, Stream!DukFrame(f))
  PROVE  /\ Stream!UnmarshalBuffer(b, i, <<"s", "s", "i", "i">>) =
              [vals |-> <<f.file, f.func, f.line, f.pc>>, pos |-> i + Len(Stream!DukFrame(f))]
         /\ Stream!ShownFrame(<<f.file, f.func, f.line, f.pc>>) = Stream!ToldFrame(f)
         /\ b[i] = 96 + Len(f.file)
<1> DEFINE r == Stream!DukString(f.file)
           s == Stream!DukString(f.func)
           t == Stream!IntEncode(f.line)
           u == Stream!IntEncode(f.pc)
<1>1. /\ IsName(f.file) /\ IsName(f.func) /\ f.line \in Nat /\ f.line <= 16383
      /\ f.pc \in Nat /\ f.pc <= 16383
  BY DEF IsFrame, IsNumber
<1>2. r \in Octets /\ s \in Octets /\ t \in Octets /\ u \in Octets
  <2>1. IsName(f.file) /\ IsName(f.func)
    BY <1>1
  <2>2. r \in Octets /\ s \in Octets
    BY <2>1, StringBytes, Zenon
  <2>3. t \in Octets /\ u \in Octets
    BY <1>1, NumberBytes
  <2> QED BY <2>2, <2>3
<1>3. Stream!DukFrame(f) = ((r \o s) \o t) \o u
  BY DEF Stream!DukFrame
<1>4. \A j \in Nat \ {0} : /\ ReadsAs(b, j, "s", r, f.file) /\ ReadsAs(b, j, "s", s, f.func)
                            /\ ReadsAs(b, j, "i", t, f.line) /\ ReadsAs(b, j, "i", u, f.pc)
  BY <1>1, ReadsString, ReadsInt
<1> HIDE DEF r, s, t, u
<1> DEFINE a2 == r \o s
           a3 == a2 \o t
<1>5. a2 \in Octets /\ Len(r) \in Nat /\ Len(a2) \in Nat
  BY <1>2, JoinedBytes, LenProperties DEF Octets
<1>6. a3 \in Octets /\ Len(a3) \in Nat
  <2> HIDE DEF a2
  <2> QED BY <1>2, <1>5, JoinedBytes, LenProperties DEF Octets
<1>7. i + Len(r) \in Nat \ {0} /\ i + Len(a2) \in Nat \ {0} /\ i + Len(a3) \in Nat \ {0}
  <2> HIDE DEF a2, a3
  <2> QED BY <1>5, <1>6
<1>8. /\ ReadsAs(b, i, "s", r, f.file) /\ ReadsAs(b, i + Len(r), "s", s, f.func)
      /\ ReadsAs(b, i + Len(a2), "i", t, f.line) /\ ReadsAs(b, i + Len(a3), "i", u, f.pc)
  <2> HIDE DEF a2, a3
  <2> QED BY <1>4, <1>7, Zenon
<1>9. Stream!UnmarshalBuffer(b, i, <<"s", "s", "i", "i">>) =
        [vals |-> <<f.file, f.func, f.line, f.pc>>, pos |-> i + Len(((r \o s) \o t) \o u)]
  <2>1. At(b, i, ((r \o s) \o t) \o u)
    BY <1>3
  <2>2. Fourfold(b, i, r, s, t, u, "s", "s", "i", "i", f.file, f.func, f.line, f.pc,
                 i + Len(((r \o s) \o t) \o u))
    BY <1>2, <1>8, <2>1 DEF Fourfold
  <2> QED BY <2>2, ReadsFour DEF Got
<1>10. b[i] = 96 + Len(f.file)
  <2>1. At(b, i, a3)
    <3> HIDE DEF a3
    <3>1. At(b, i, a3 \o u)
      BY <1>3 DEF a3
    <3> QED BY <1>2, <1>6, <3>1, AtParts
  <2>2. At(b, i, a2)
    <3> HIDE DEF a2
    <3>1. At(b, i, a2 \o t)
      BY <2>1 DEF a2
    <3> QED BY <1>2, <1>5, <3>1, AtParts
  <2>3. At(b, i, r)
    BY <1>2, <2>2, AtParts
  <2>4. At(b, i, <<96 + Len(f.file)>> \o f.file)
    BY <2>3 DEF r, Stream!DukString
  <2>5. f.file \in Octets /\ <<96 + Len(f.file)>> \in Octets /\ 96 + Len(f.file) \in Byte
    BY <1>1, StringBytes, NameLength
  <2>6. At(b, i, <<96 + Len(f.file)>>)
    BY <2>4, <2>5, AtParts
  <2> QED BY <2>5, <2>6, AtByte
<1> QED BY <1>3, <1>9, <1>10 DEF Stream!ShownFrame, Stream!ToldFrame

\* Bytes behind others.

-----------------------------------------------------------------------------
(* Values taken apart                                                      *)

\* The types of a value.
LEMMA ValueKinds ==
  ASSUME NEW t
  PROVE  /\ t \in Stream!Simple =>
              /\ t \notin Stream!ShortString /\ t # Stream!NUMBER /\ t # Stream!STRING2
              /\ t # Stream!BUFFER2 /\ t # Stream!OBJECT /\ t # Stream!POINTER /\ t # Stream!HEAPPTR
         /\ t \in Stream!ShortString =>
              /\ t # Stream!NUMBER /\ t # Stream!STRING2
              /\ t # Stream!BUFFER2 /\ t # Stream!OBJECT /\ t # Stream!POINTER /\ t # Stream!HEAPPTR
<1> USE DEF Stream!Simple, Stream!UNUSED, Stream!FALSEVAL, Stream!ShortString, Stream!NUMBER,
         Stream!STRING2, Stream!BUFFER2, Stream!OBJECT, Stream!POINTER, Stream!HEAPPTR
<1>1. \A n \in 21..25 : n \notin 96..127 /\ n \notin {18, 20, 26, 27, 28, 30}
  OBVIOUS
<1>2. \A n \in 96..127 : n \notin {18, 20, 26, 27, 28, 30}
  OBVIOUS
<1> QED BY <1>1, <1>2

LEMMA KindsDiffer ==
  /\ Stream!NUMBER \notin {Stream!STRING2, Stream!BUFFER2, Stream!OBJECT, Stream!POINTER, Stream!HEAPPTR}
  /\ Stream!STRING2 \notin {Stream!BUFFER2, Stream!OBJECT, Stream!POINTER, Stream!HEAPPTR}
  /\ Stream!BUFFER2 \notin {Stream!OBJECT, Stream!POINTER, Stream!HEAPPTR}
  /\ Stream!OBJECT \notin {Stream!POINTER, Stream!HEAPPTR}
BY DEF Stream!NUMBER, Stream!STRING2, Stream!BUFFER2, Stream!OBJECT, Stream!POINTER, Stream!HEAPPTR

\* What MarshalTvalMsg, ParseDvalData and Shown do with each of them.
LEMMA OtherKinds ==
  /\ Stream!NUMBER \notin Stream!Simple /\ Stream!NUMBER \notin Stream!ShortString
  /\ Stream!STRING2 \notin Stream!Simple /\ Stream!STRING2 \notin Stream!ShortString
  /\ Stream!BUFFER2 \notin Stream!Simple /\ Stream!BUFFER2 \notin Stream!ShortString
  /\ Stream!OBJECT \notin Stream!Simple /\ Stream!OBJECT \notin Stream!ShortString
  /\ Stream!POINTER \notin Stream!Simple /\ Stream!POINTER \notin Stream!ShortString
  /\ Stream!HEAPPTR \notin Stream!Simple /\ Stream!HEAPPTR \notin Stream!ShortString
BY ValueKinds

\* The value whose data start at position j is marshalled by its type, n bytes long, and the
\* console parses it into what it should show.
Comes(b, j, t, v, n) ==
  LET m == Stream!MarshalTvalMsg(b, j, t) IN
  m.size = n /\ Stream!ParseDvalData(t, m.arg) = Stream!Shown(v)

LEMMA SimpleComes ==
  ASSUME NEW b, NEW j, NEW t, t \in Stream!Simple, NEW v, v.type = t
  PROVE  Comes(b, j, t, v, 0)
<1>1. /\ t \notin Stream!ShortString /\ t # Stream!NUMBER /\ t # Stream!STRING2
      /\ t # Stream!BUFFER2 /\ t # Stream!OBJECT /\ t # Stream!POINTER /\ t # Stream!HEAPPTR
  BY ValueKinds
<1>2. Stream!MarshalTvalMsg(b, j, t) = [size |-> 0, arg |-> [sig |-> "y", data |-> <<t>>]]
  BY <1>1 DEF Stream!MarshalTvalMsg
<1>3. \A a : Stream!ParseDvalData(t, a) = [type |-> a.data[1], data |-> a.data]
  BY <1>1 DEF Stream!ParseDvalData
<1>4. Stream!Shown(v) = [type |-> t, data |-> <<t>>]
  BY <1>1 DEF Stream!Shown
<1> QED BY <1>2, <1>3, <1>4 DEF Comes

LEMMA ShortStringComes ==
  ASSUME NEW b, NEW j, NEW t, t \in Stream!ShortString, NEW v, v.type = t,
         NEW d, v.data = d, NEW n, n = t - 96, Stream!Bytes(b, j, n) = d
  PROVE  Comes(b, j, t, v, n)
<1>1. /\ t \notin Stream!Simple /\ t # Stream!NUMBER /\ t # Stream!STRING2
      /\ t # Stream!BUFFER2 /\ t # Stream!OBJECT /\ t # Stream!POINTER /\ t # Stream!HEAPPTR
  BY ValueKinds
<1> DEFINE a == [sig |-> "s", data |-> d]
<1>2. Stream!MarshalTvalMsg(b, j, t) = [size |-> n, arg |-> a]
  BY <1>1 DEF Stream!MarshalTvalMsg
<1>3. \A x : Stream!ParseDvalData(t, x) = [type |-> 96, data |-> Append(x.data, 0)]
  BY <1>1 DEF Stream!ParseDvalData
<1>4. Stream!Shown(v) = [type |-> 96, data |-> Append(d, 0)]
  BY <1>1 DEF Stream!Shown
<1>5. a.data = d
  OBVIOUS
<1> HIDE DEF a
<1>6. Stream!ParseDvalData(t, a) = Stream!Shown(v)
  BY <1>3, <1>4, <1>5
<1> QED BY <1>2, <1>6 DEF Comes

LEMMA NumberComes ==
  ASSUME NEW b, NEW j, NEW t, t = Stream!NUMBER, NEW d, NEW v, v = [type |-> t, data |-> d],
         Stream!Bytes(b, j, 8) = d
  PROVE  Comes(b, j, t, v, 8)
<1>1. /\ t \notin Stream!Simple /\ t \notin Stream!ShortString /\ t # Stream!STRING2
      /\ t # Stream!BUFFER2 /\ t # Stream!OBJECT /\ t # Stream!POINTER /\ t # Stream!HEAPPTR
  BY OtherKinds, KindsDiffer
<1>2. Stream!MarshalTvalMsg(b, j, t) = [size |-> 8, arg |-> [sig |-> "t", data |-> d]]
  BY <1>1 DEF Stream!MarshalTvalMsg
<1>3. \A a : Stream!ParseDvalData(t, a) = [type |-> t, data |-> a.data]
  BY <1>1 DEF Stream!ParseDvalData
<1>4. Stream!Shown(v) = v
  <2>1. v.type = t
    OBVIOUS
  <2> QED BY <1>1, <2>1 DEF Stream!Shown
<1> QED BY <1>2, <1>3, <1>4 DEF Comes

LEMMA BufferComes ==
  ASSUME NEW b, NEW j, NEW t, t = Stream!BUFFER2, NEW d, NEW v, v = [type |-> t, data |-> d],
         NEW n, n = b[j] * 256 + b[j + 1], Stream!Bytes(b, j + 2, n) = d
  PROVE  Comes(b, j, t, v, 2 + n)
<1>1. /\ t \notin Stream!Simple /\ t \notin Stream!ShortString /\ t # Stream!STRING2
      /\ t # Stream!NUMBER /\ t # Stream!OBJECT /\ t # Stream!POINTER /\ t # Stream!HEAPPTR
  BY OtherKinds, KindsDiffer
<1>2. Stream!MarshalTvalMsg(b, j, t) = [size |-> 2 + n, arg |-> [sig |-> "(qay)", data |-> d]]
  BY <1>1 DEF Stream!MarshalTvalMsg
<1>3. \A a : Stream!ParseDvalData(t, a) = [type |-> t, data |-> a.data]
  BY <1>1 DEF Stream!ParseDvalData
<1>4. Stream!Shown(v) = v
  <2>1. v.type = t
    OBVIOUS
  <2> QED BY <1>1, <2>1 DEF Stream!Shown
<1> QED BY <1>2, <1>3, <1>4 DEF Comes

LEMMA LongStringComes ==
  ASSUME NEW b, NEW j, NEW t, t = Stream!STRING2, NEW d, NEW v, v.type = t, v.data = d,
         NEW n, n = b[j] * 256 + b[j + 1], Stream!Bytes(b, j + 2, n) = d
  PROVE  Comes(b, j, t, v, 2 + n)
<1>1. /\ t \notin Stream!Simple /\ t \notin Stream!ShortString /\ t # Stream!BUFFER2
      /\ t # Stream!NUMBER /\ t # Stream!OBJECT /\ t # Stream!POINTER /\ t # Stream!HEAPPTR
  BY OtherKinds, KindsDiffer
<1> DEFINE a == [sig |-> "s", data |-> d]
<1>2. Stream!MarshalTvalMsg(b, j, t) = [size |-> 2 + n, arg |-> a]
  BY <1>1 DEF Stream!MarshalTvalMsg
<1>3. \A x : Stream!ParseDvalData(t, x) = [type |-> t, data |-> Append(x.data, 0)]
  BY <1>1 DEF Stream!ParseDvalData
<1>4. Stream!Shown(v) = [type |-> t, data |-> Append(d, 0)]
  BY <1>1 DEF Stream!Shown
<1>5. a.data = d
  OBVIOUS
<1> HIDE DEF a
<1>6. Stream!ParseDvalData(t, a) = Stream!Shown(v)
  BY <1>3, <1>4, <1>5
<1> QED BY <1>2, <1>6 DEF Comes

LEMMA ObjectComes ==
  ASSUME NEW b, NEW j, NEW t, t = Stream!OBJECT, NEW d, NEW v, v = [type |-> t, data |-> d],
         NEW n, n = b[j + 1], NEW c, c = b[j], NEW p, Stream!Bytes(b, j + 2, n) = p, d = <<c>> \o p
  PROVE  Comes(b, j, t, v, 2 + n)
<1>1. /\ t \notin Stream!Simple /\ t \notin Stream!ShortString /\ t # Stream!BUFFER2
      /\ t # Stream!NUMBER /\ t # Stream!STRING2 /\ t # Stream!POINTER /\ t # Stream!HEAPPTR
  BY OtherKinds, KindsDiffer
<1>2. Stream!MarshalTvalMsg(b, j, t) = Stream!MarshalObject(b, j, t)
  BY <1>1 DEF Stream!MarshalTvalMsg
<1> DEFINE a == [sig |-> "(yyay)", type |-> t, extra |-> c, data |-> p]
<1>3. Stream!MarshalObject(b, j, t) = [size |-> 2 + n, arg |-> a]
  BY DEF Stream!MarshalObject
<1>4. \A x : Stream!ParseDvalData(t, x) = [type |-> x.type, data |-> <<x.extra>> \o x.data]
  BY <1>1 DEF Stream!ParseDvalData
<1>5. Stream!Shown(v) = v
  <2>1. v.type = t
    OBVIOUS
  <2> QED BY <1>1, <2>1 DEF Stream!Shown
<1>6. a.type = t /\ a.extra = c /\ a.data = p
  OBVIOUS
<1> HIDE DEF a
<1>7. Stream!ParseDvalData(t, a) = [type |-> t, data |-> d]
  BY <1>4, <1>6
<1> QED BY <1>2, <1>3, <1>5, <1>7 DEF Comes

LEMMA PointerComes ==
  ASSUME NEW b, NEW j, NEW t, t \in {Stream!POINTER, Stream!HEAPPTR}, NEW d,
         NEW v, v = [type |-> t, data |-> d], NEW n, n = b[j], Stream!Bytes(b, j + 1, n) = d
  PROVE  Comes(b, j, t, v, 1 + n)
<1>1. /\ t \notin Stream!Simple /\ t \notin Stream!ShortString /\ t # Stream!BUFFER2
      /\ t # Stream!NUMBER /\ t # Stream!STRING2 /\ t # Stream!OBJECT
  BY OtherKinds, KindsDiffer
<1>2. Stream!MarshalTvalMsg(b, j, t) = Stream!MarshalObject(b, j, t)
  BY <1>1 DEF Stream!MarshalTvalMsg
<1> DEFINE a == [sig |-> "(yyay)", type |-> t, extra |-> 0, data |-> d]
<1>3. Stream!MarshalObject(b, j, t) = [size |-> 1 + n, arg |-> a]
  BY <1>1 DEF Stream!MarshalObject
<1>4. \A x : Stream!ParseDvalData(t, x) = [type |-> x.type, data |-> x.data]
  BY <1>1 DEF Stream!ParseDvalData
<1>5. Stream!Shown(v) = v
  <2>1. v.type = t
    OBVIOUS
  <2> QED BY <1>1, <2>1 DEF Stream!Shown
<1>6. a.type = t /\ a.data = d
  OBVIOUS
<1> HIDE DEF a
<1>7. Stream!ParseDvalData(t, a) = [type |-> t, data |-> d]
  BY <1>4, <1>6
<1> QED BY <1>2, <1>3, <1>5, <1>7 DEF Comes

\* The value v is in b from position i on, its bytes are s.
Stands(b, i, t, v, s) ==
  b[i] = t /\ \E n \in Nat : Len(s) = 1 + n /\ Comes(b, i + 1, t, v, n)

LEMMA SimpleStands ==
  ASSUME NEW b \in Octets, NEW i \in Nat \ {0}, NEW t \in Byte, t \in Stream!Simple,
         NEW v, v.type = t, At(b, i, <<t>>)
  PROVE  Stands(b, i, t, v, <<t>>)
<1>1. b[i] = t /\ Len(<<t>>) = 1 + 0
  BY AtByte, OneByte
<1>2. Comes(b, i + 1, t, v, 0)
  BY SimpleComes
<1> QED BY <1>1, <1>2 DEF Stands

\* The bytes behind that of the type.
LEMMA ByteThenData ==
  ASSUME NEW b \in Octets, NEW i \in Nat \ {0}, NEW t \in Byte, NEW d \in Octets, At(b, i, <<t>> \o d)
  PROVE  /\ b[i] = t /\ Stream!Bytes(b, i + 1, Len(d)) = d /\ Len(<<t>> \o d) = 1 + Len(d)
         /\ Len(d) \in Nat
<1>1. <<t>> \in Octets /\ Len(<<t>>) = 1 /\ <<t>>[1] = t
  BY OneByte
<1>2. At(b, i, <<t>>) /\ At(b, i + 1, d) /\ Len(<<t>> \o d) = 1 + Len(d) /\ Len(d) \in Nat
  BY <1>1, AtParts, JoinedBytes
<1>3. i + 1 \in Nat \ {0}
  OBVIOUS
<1> QED BY <1>2, <1>3, AtByte, AtBytes

LEMMA ShortStringStands ==
  ASSUME NEW b \in Octets, NEW i \in Nat \ {0}, NEW t \in Byte, t \in Stream!ShortString,
         NEW d \in Octets, Len(d) = t - 96, NEW v, v.type = t, v.data = d, At(b, i, <<t>> \o d)
  PROVE  Stands(b, i, t, v, <<t>> \o d)
<1> DEFINE n == Len(d)
           j == i + 1
<1>1. b[i] = t /\ Stream!Bytes(b, j, n) = d /\ Len(<<t>> \o d) = 1 + n /\ n \in Nat
  BY ByteThenData
<1>2. n = t - 96
  OBVIOUS
<1> HIDE DEF n, j
<1>3. Comes(b, j, t, v, n)
  BY <1>1, <1>2, ShortStringComes
<1> QED BY <1>1, <1>3 DEF Stands, j

Eight(d) == Len(d) = 8
LEMMA NumberStands ==
  ASSUME NEW b \in Octets, NEW i \in Nat \ {0}, NEW t \in Byte, t = Stream!NUMBER,
         NEW d \in Octets, Eight(d), NEW v, v = [type |-> t, data |-> d],
         At(b, i, <<t>> \o d)
  PROVE  Stands(b, i, t, v, <<t>> \o d)
<1> DEFINE j == i + 1
<1>1. b[i] = t /\ Stream!Bytes(b, j, Len(d)) = d /\ Len(<<t>> \o d) = 1 + Len(d)
  BY ByteThenData
<1> HIDE DEF j
<1>2. Stream!Bytes(b, j, 8) = d /\ Len(<<t>> \o d) = 1 + 8
  BY <1>1 DEF Eight
<1>3. Comes(b, j, t, v, 8)
  BY <1>2, NumberComes
<1> QED BY <1>1, <1>2, <1>3 DEF Stands, j

\* Three bytes and the data behind them.
LEMMA ThreeThenData ==
  ASSUME NEW b \in Octets, NEW i \in Nat \ {0}, NEW t \in Byte, NEW x \in Byte, NEW y \in Byte,
         NEW d \in Octets, At(b, i, <<t, x, y>> \o d)
  PROVE  /\ b[i] = t /\ b[i + 1] = x /\ b[(i + 1) + 1] = y
         /\ Stream!Bytes(b, (i + 1) + 2, Len(d)) = d
         /\ Len(<<t, x, y>> \o d) = 3 + Len(d) /\ Len(d) \in Nat
<1> DEFINE s == <<t, x, y>>
<1>1. s \in Octets
  BY Tuples
<1>2. Len(s) = 3 /\ s[1] = t /\ s[2] = x /\ s[3] = y
  OBVIOUS
<1> HIDE DEF s
<1>3. At(b, i, s \o d)
  BY DEF s
<1>4. At(b, i, s) /\ At(b, i + Len(s), d)
  BY <1>1, <1>3, AtParts
<1>5. Len(s \o d) = Len(s) + Len(d) /\ Len(d) \in Nat
  BY <1>1, JoinedBytes
<1>6. b[i + 1 - 1] = s[1] /\ b[i + 2 - 1] = s[2] /\ b[i + 3 - 1] = s[3]
  BY <1>2, <1>4 DEF At
<1>7. i + 1 - 1 = i /\ i + 2 - 1 = i + 1 /\ i + 3 - 1 = (i + 1) + 1 /\ (i + 1) + 2 = i + 3
      /\ i + 3 \in Nat \ {0}
  OBVIOUS
<1>8. Stream!Bytes(b, i + 3, Len(d)) = d
  BY <1>2, <1>4, <1>7, AtBytes
<1> QED BY <1>2, <1>5, <1>6, <1>7, <1>8 DEF s

LEMMA OneByteLength ==
  ASSUME NEW n \in Nat, n <= 255
  PROVE  n \div 256 = 0 /\ n % 256 = n /\ 0 \in Byte /\ n \in Byte /\ n = 0 * 256 + n
<1>1. n \div 256 = 0 /\ n % 256 = n /\ n = 0 * 256 + n
  OBVIOUS
<1>2. 0 \in Byte /\ n \in Byte
  BY SomeBytes DEF Byte
<1> QED BY <1>1, <1>2

\* A string or a buffer with a length of two bytes.
LEMMA LongStands ==
  ASSUME NEW b \in Octets, NEW i \in Nat \ {0}, NEW t \in Byte, t \in {Stream!STRING2, Stream!BUFFER2},
         NEW d \in Octets, NEW n \in Nat, n = Len(d), n <= 255, NEW v, v = [type |-> t, data |-> d],
         At(b, i, <<t, n \div 256, n % 256>> \o d)
  PROVE  Stands(b, i, t, v, <<t, n \div 256, n % 256>> \o d)
<1> DEFINE j == i + 1
           s == <<t, 0, n>>
<1>1. n \div 256 = 0 /\ n % 256 = n /\ 0 \in Byte /\ n \in Byte
  BY OneByteLength
<1>2. <<t, n \div 256, n % 256>> = s
  BY <1>1
<1>3. At(b, i, s \o d)
  BY <1>2
<1>4. /\ b[i] = t /\ b[j] = 0 /\ b[j + 1] = n
      /\ Stream!Bytes(b, j + 2, Len(d)) = d /\ Len(s \o d) = 3 + Len(d)
  BY <1>1, <1>3, ThreeThenData
<1> HIDE DEF j, s
<1>5. Stream!Bytes(b, j + 2, n) = d /\ Len(s \o d) = 1 + (2 + n) /\ 2 + n \in Nat
  BY <1>4
<1>6. n = b[j] * 256 + b[j + 1]
  <2>1. n = 0 * 256 + n
    OBVIOUS
  <2> QED BY <1>4, <2>1
<1>7. CASE t = Stream!STRING2
  <2>1. v.type = t /\ v.data = d
    OBVIOUS
  <2>2. Comes(b, j, t, v, 2 + n)
    BY <1>5, <1>6, <1>7, <2>1, LongStringComes
  <2> QED BY <1>2, <1>4, <1>5, <2>2 DEF Stands, j
<1>8. CASE t = Stream!BUFFER2
  <2>1. Comes(b, j, t, v, 2 + n)
    BY <1>5, <1>6, <1>8, BufferComes
  <2> QED BY <1>2, <1>4, <1>5, <2>1 DEF Stands, j
<1> QED BY <1>7, <1>8

LEMMA ObjectStands ==
  ASSUME NEW b \in Octets, NEW i \in Nat \ {0}, NEW t \in Byte, t = Stream!OBJECT,
         NEW c \in Byte, NEW p \in Octets, NEW n \in Byte, n = Len(p), NEW d, d = <<c>> \o p,
         NEW v, v = [type |-> t, data |-> d], At(b, i, <<t, c, n>> \o p)
  PROVE  Stands(b, i, t, v, <<t, c, n>> \o p)
<1> DEFINE j == i + 1
           s == <<t, c, n>>
<1>1. /\ b[i] = t /\ b[j] = c /\ b[j + 1] = n
      /\ Stream!Bytes(b, j + 2, Len(p)) = p /\ Len(s \o p) = 3 + Len(p) /\ Len(p) \in Nat
  BY ThreeThenData
<1> HIDE DEF j, s
<1>2. Stream!Bytes(b, j + 2, n) = p /\ Len(s \o p) = 1 + (2 + n) /\ 2 + n \in Nat
  BY <1>1
<1>3. Comes(b, j, t, v, 2 + n)
  BY <1>1, <1>2, ObjectComes
<1> QED BY <1>1, <1>2, <1>3 DEF Stands, j, s

LEMMA PointerStands ==
  ASSUME NEW b \in Octets, NEW i \in Nat \ {0}, NEW t \in Byte, t \in {Stream!POINTER, Stream!HEAPPTR},
         NEW d \in Octets, NEW n \in Byte, n = Len(d), NEW v, v = [type |-> t, data |-> d],
         At(b, i, <<t, n>> \o d)
  PROVE  Stands(b, i, t, v, <<t, n>> \o d)
<1> DEFINE j == i + 1
           s == <<t, n>>
<1>1. s \in Octets /\ Len(s) = 2 /\ s[1] = t /\ s[2] = n
  BY TwoBytes
<1> HIDE DEF s
<1>2. At(b, i, s \o d)
  BY DEF s
<1>3. At(b, i, s) /\ At(b, i + Len(s), d) /\ Len(s \o d) = Len(s) + Len(d) /\ Len(d) \in Nat
  BY <1>1, <1>2, AtParts, JoinedBytes
<1>4. b[i + 1 - 1] = s[1] /\ b[i + 2 - 1] = s[2]
  BY <1>1, <1>3 DEF At
<1>5. i + 1 - 1 = i /\ i + 2 - 1 = i + 1 /\ (i + 1) + 1 = i + 2 /\ i + 2 \in Nat \ {0}
  OBVIOUS
<1>6. Stream!Bytes(b, i + 2, Len(d)) = d
  BY <1>1, <1>3, <1>5, AtBytes
<1>7. b[i] = t /\ b[j] = n /\ Stream!Bytes(b, j + 1, n) = d
  BY <1>1, <1>4, <1>5, <1>6
<1> HIDE DEF j
<1>8. Len(s \o d) = 1 + (1 + n) /\ 1 + n \in Nat
  BY <1>1, <1>3
<1>9. Comes(b, j, t, v, 1 + n)
  BY <1>7, PointerComes
<1> QED BY <1>7, <1>8, <1>9 DEF Stands, j, s

LEMMA HeadAndTail ==
  ASSUME NEW d \in Octets, d # <<>>
  PROVE  d[1] \in Byte /\ Tail(d) \in Octets /\ Len(Tail(d)) = Len(d) - 1 /\ d = <<d[1]>> \o Tail(d)
<1> DEFINE c == d[1]
           e == Tail(d)
           f == <<c>> \o e
<1>1. /\ Len(d) \in Nat /\ Len(d) >= 1 /\ c \in Byte /\ e \in Octets /\ Len(e) = Len(d) - 1
      /\ \A k \in 1..Len(e) : e[k] = d[k + 1]
  <2>1. Len(d) \in Nat /\ Len(d) # 0 /\ \A k \in 1..Len(d) : d[k] \in Byte
    BY LenProperties, EmptySeq DEF Octets
  <2> QED BY <2>1, HeadTailProperties DEF Octets
<1> HIDE DEF c, e
<1>2. /\ f \in Octets /\ Len(f) = 1 + Len(e) /\ f[1] = c
      /\ \A k \in 1..Len(e) : f[1 + k] = e[k]
  <2>1. <<c>> \in Octets /\ Len(<<c>>) = 1 /\ <<c>>[1] = c
    BY <1>1, OneByte
  <2> QED BY <1>1, <2>1, JoinedBytes
<1> HIDE DEF f
<1>3. Len(f) = Len(d) /\ \A k \in 1..Len(d) : f[k] = d[k]
  <2>1. Len(f) = Len(d)
    BY <1>1, <1>2
  <2>2. ASSUME NEW k \in 1..Len(d) PROVE f[k] = d[k]
    <3>1. CASE k = 1
      BY <1>2, <3>1 DEF c
    <3>2. CASE k # 1
      <4>1. k - 1 \in 1..Len(e) /\ 1 + (k - 1) = k /\ (k - 1) + 1 = k
        BY <1>1, <3>2
      <4>2. f[1 + (k - 1)] = e[k - 1] /\ e[k - 1] = d[(k - 1) + 1]
        BY <1>1, <1>2, <4>1
      <4> QED BY <4>1, <4>2
    <3> QED BY <3>1, <3>2
  <2> QED BY <2>1, <2>2
<1>4. f = d
  BY <1>2, <1>3, SeqEqual DEF Octets
<1> QED BY <1>1, <1>4 DEF f, c, e

\* Every value.
LEMMA ValueStands ==
  ASSUME NEW b \in Octets, NEW i \in Nat \ {0}, NEW v, IsValue(v), At(b, i, Stream!DukValue(v))
  PROVE  Stands(b, i, v.type, v, Stream!DukValue(v))
<1> DEFINE t == v.type
           d == v.data
           w == Stream!DukValue(v)
<1>1. t \in Byte /\ d \in Octets /\ v = [type |-> t, data |-> d] /\ At(b, i, w)
  BY ValueBytes
<1>2. Len(d) \in Nat
  BY <1>1, LenProperties DEF Octets
<1>3. \/ t \in Stream!Simple /\ w = <<t>>
      \/ t \in Stream!ShortString /\ Len(d) = t - 96 /\ w = <<t>> \o d
      \/ t = 26 /\ Len(d) = 8 /\ w = <<t>> \o d
      \/ /\ t \in {18, 20} /\ Len(d) <= 255
         /\ w = <<t, Len(d) \div 256, Len(d) % 256>> \o d
      \/ /\ t = 27 /\ d[1] \in InObject /\ Len(d) - 1 \in InObject
         /\ w = <<t, d[1], Len(d) - 1>> \o Tail(d)
      \/ t \in {28, 30} /\ Len(d) \in InPointer /\ w = <<t, Len(d)>> \o d
  BY ValueBytes, Zenon
<1>4. v.type = t /\ v.data = d
  OBVIOUS
<1> HIDE DEF t, d, w
<1>5. ASSUME t \in Stream!Simple, w = <<t>> PROVE Stands(b, i, t, v, w)
  BY <1>1, <1>4, <1>5, SimpleStands
<1>6. ASSUME t \in Stream!ShortString, Len(d) = t - 96, w = <<t>> \o d PROVE Stands(b, i, t, v, w)
  BY <1>1, <1>4, <1>6, ShortStringStands
<1>7. ASSUME t = 26, Eight(d), w = <<t>> \o d PROVE Stands(b, i, t, v, w)
  BY <1>1, <1>7, NumberStands DEF Stream!NUMBER
<1>8. ASSUME t \in {18, 20}, Len(d) <= 255, w = <<t, Len(d) \div 256, Len(d) % 256>> \o d
      PROVE  Stands(b, i, t, v, w)
  <2> DEFINE n == Len(d)
  <2>1. n \in Nat /\ n <= 255 /\ n = Len(d)
    BY <1>2, <1>8
  <2>2. w = <<t, n \div 256, n % 256>> \o d
    BY <1>8
  <2>3. t \in {Stream!STRING2, Stream!BUFFER2}
    BY <1>8 DEF Stream!STRING2, Stream!BUFFER2
  <2> HIDE DEF n
  <2> QED BY <1>1, <2>1, <2>2, <2>3, LongStands
<1>9. ASSUME t = 27, d[1] \in InObject, Len(d) - 1 \in InObject,
             w = <<t, d[1], Len(d) - 1>> \o Tail(d)
      PROVE  Stands(b, i, t, v, w)
  <2> DEFINE c == d[1]
             n == Len(d) - 1
             p == Tail(d)
  <2>1. c \in Byte /\ n \in Byte /\ n # 0
    BY <1>9, InsideObject
  <2>2. d # <<>>
    BY <1>2, <2>1, <1>9, EmptySeq, InsideObject
  <2>3. p \in Octets /\ n = Len(p) /\ d = <<c>> \o p
    BY <1>1, <2>2, HeadAndTail
  <2>4. w = <<t, c, n>> \o p
    BY <1>9
  <2>5. t = Stream!OBJECT
    BY <1>9 DEF Stream!OBJECT
  <2> HIDE DEF c, n, p
  <2> QED BY <1>1, <2>1, <2>3, <2>4, <2>5, ObjectStands
<1>10. ASSUME t \in {28, 30}, Len(d) \in InPointer, w = <<t, Len(d)>> \o d
       PROVE  Stands(b, i, t, v, w)
  <2> DEFINE n == Len(d)
  <2>1. n \in Byte /\ n = Len(d)
    BY <1>10, InsideObject DEF InPointer
  <2>2. w = <<t, n>> \o d
    BY <1>10
  <2>3. t \in {Stream!POINTER, Stream!HEAPPTR}
    BY <1>10 DEF Stream!POINTER, Stream!HEAPPTR
  <2> HIDE DEF n
  <2> QED BY <1>1, <2>1, <2>2, <2>3, PointerStands
<1>11. Stands(b, i, t, v, w)
  <2>1. (t \in Stream!Simple /\ w = <<t>>) => Stands(b, i, t, v, w)
    BY <1>5, Zenon
  <2>2. (t \in Stream!ShortString /\ Len(d) = t - 96 /\ w = <<t>> \o d) => Stands(b, i, t, v, w)
    BY <1>6, Zenon
  <2>3. (t = 26 /\ Len(d) = 8 /\ w = <<t>> \o d) => Stands(b, i, t, v, w)
    BY <1>7, Zenon DEF Eight
  <2>4. (/\ t \in {18, 20} /\ Len(d) <= 255
         /\ w = <<t, Len(d) \div 256, Len(d) % 256>> \o d) => Stands(b, i, t, v, w)
    BY <1>8, Zenon
  <2>5. (/\ t = 27 /\ d[1] \in InObject /\ Len(d) - 1 \in InObject
         /\ w = <<t, d[1], Len(d) - 1>> \o Tail(d)) => Stands(b, i, t, v, w)
    BY <1>9, Zenon
  <2>6. (t \in {28, 30} /\ Len(d) \in InPointer /\ w = <<t, Len(d)>> \o d) => Stands(b, i, t, v, w)
    BY <1>10, Zenon
  <2> QED BY <1>3, <2>1, <2>2, <2>3, <2>4, <2>5, <2>6, Zenon
<1> QED BY <1>11 DEF t, w

-----------------------------------------------------------------------------
(* Lists taken apart                                                       *)

\* A string as the interpreter writes it starts with a byte that is not the end of a message.
LEMMA NotTheEnd ==
  ASSUME NEW b \in Octets, NEW i \in Nat \ {0}, NEW s, IsName(s), At(b, i, Stream!DukString(s))
  PROVE  b[i] = 96 + Len(s) /\ b[i] # Stream!EOM /\ b[i] # Stream!UNDEFINED
<1>1. At(b, i, <<96 + Len(s)>> \o s)
  BY DEF Stream!DukString
<1>2. s \in Octets /\ 96 + Len(s) \in Byte /\ Len(s) \in Nat
  BY NameLength
<1>3. b[i] = 96 + Len(s)
  BY <1>1, <1>2, ByteThenData
<1> QED BY <1>2, <1>3 DEF Stream!EOM, Stream!UNDEFINED

\* A line is not changed by the two bytes that the console has for it.
LEMMA LineKept == ASSUME NEW n \in Nat, n <= 16383 PROVE n % 65536 = n
OBVIOUS

\* The bytes w of a breakpoint or of a local variable are in b from position i on.
BreakAt(b, i, f, n, w) ==
  /\ b \in Octets /\ i \in Nat \ {0} /\ IsName(f) /\ n \in Nat /\ n <= 16383
  /\ w = Stream!DukString(f) \o Stream!IntEncode(n) /\ At(b, i, w)
LocalAt(b, i, f, v, w) ==
  /\ b \in Octets /\ i \in Nat \ {0} /\ IsName(f) /\ IsValue(v)
  /\ w = Stream!DukString(f) \o Stream!DukValue(v) /\ At(b, i, w)

LEMMA BreakRead ==
  ASSUME NEW b, NEW i, NEW f, NEW n, NEW w, BreakAt(b, i, f, n, w)
  PROVE  Stream!BreakEntry(b, i) = [pos |-> i + Len(w), val |-> [file |-> f, line |-> n]]
<1> SUFFICES ASSUME b \in Octets, i \in Nat \ {0}, IsName(f), n \in Nat, n <= 16383,
                     w = Stream!DukString(f) \o Stream!IntEncode(n), At(b, i, w)
             PROVE  Stream!BreakEntry(b, i) = [pos |-> i + Len(w), val |-> [file |-> f, line |-> n]]
  BY DEF BreakAt
<1> DEFINE r == Stream!DukString(f)
           s == Stream!IntEncode(n)
           q == i + Len(w)
<1>1. r \in Octets /\ s \in Octets /\ Len(r) \in Nat
  BY StringBytes, NumberBytes, LenProperties DEF Octets
<1>2. i + Len(r) \in Nat \ {0}
  <2> HIDE DEF r
  <2> QED BY <1>1
<1>3. ReadsAs(b, i, "s", r, f) /\ ReadsAs(b, i + Len(r), "i", s, n)
  <2>1. ReadsAs(b, i, "s", r, f)
    BY ReadsString
  <2> DEFINE j == i + Len(r)
  <2>2. j \in Nat \ {0}
    BY <1>2
  <2> HIDE DEF j
  <2>3. ReadsAs(b, j, "i", s, n)
    BY <2>2, ReadsInt
  <2> QED BY <2>1, <2>3 DEF j
<1> HIDE DEF r, s
<1>4. At(b, i, r \o s) /\ q = i + Len(r \o s)
  BY DEF r, s
<1> HIDE DEF q
<1>5. Twofold(b, i, r, s, "s", "i", f, n, q)
  BY <1>1, <1>3, <1>4 DEF Twofold
<1>6. Stream!UnmarshalBuffer(b, i, <<"s", "i">>) = Got(<<f, n>>, q)
  BY <1>5, ReadsTwo
<1> DEFINE u == Stream!UnmarshalBuffer(b, i, <<"s", "i">>)
<1>7. u.pos = q /\ u.vals[1] = f /\ u.vals[2] = n
  <2> DEFINE vs == <<f, n>>
  <2>1. vs[1] = f /\ vs[2] = n
    OBVIOUS
  <2> HIDE DEF vs
  <2>2. u = [vals |-> vs, pos |-> q]
    BY <1>6 DEF vs, Got
  <2> HIDE DEF u
  <2> QED BY <2>1, <2>2
<1> HIDE DEF u
<1>8. Stream!BreakEntry(b, i) = [pos |-> u.pos, val |-> [file |-> u.vals[1], line |-> u.vals[2] % 65536]]
  BY DEF u, Stream!BreakEntry
<1>9. n % 65536 = n
  BY LineKept
<1> QED BY <1>7, <1>8, <1>9 DEF q

LEMMA AtTogether ==
  ASSUME NEW b \in Octets, NEW i \in Nat \ {0}, NEW s \in Octets, NEW t \in Octets,
         At(b, i, s), At(b, i + Len(s), t)
  PROVE  At(b, i, s \o t)
<1> DEFINE w == s \o t
           m == Len(s)
           n == Len(t)
<1>1. /\ Len(w) = m + n /\ m \in Nat /\ n \in Nat /\ Len(b) \in Nat
      /\ \A k \in 1..m : w[k] = s[k]
      /\ \A k \in 1..n : w[m + k] = t[k]
  BY JoinedBytes, LenProperties DEF Octets
<1>2. /\ \A k \in 1..m : b[i + k - 1] = s[k]
      /\ (i + m) + n - 1 <= Len(b) /\ \A k \in 1..n : b[(i + m) + k - 1] = t[k]
  BY DEF At
<1> HIDE DEF w, m, n
<1>3. ASSUME NEW k \in 1..m + n PROVE b[i + k - 1] = w[k]
  <2>1. CASE k <= m
    <3>1. k \in 1..m
      BY <1>1, <2>1
    <3> QED BY <1>1, <1>2, <3>1
  <2>2. CASE k > m
    <3>1. k - m \in 1..n /\ (i + m) + (k - m) - 1 = i + k - 1 /\ m + (k - m) = k
      <4>1. m \in Nat /\ n \in Nat /\ k \in Nat /\ k > m /\ k <= m + n
        BY <1>1, <2>2
      <4> QED BY <4>1
    <3>2. b[(i + m) + (k - m) - 1] = t[k - m] /\ w[m + (k - m)] = t[k - m]
      BY <1>1, <1>2, <3>1
    <3> QED BY <3>1, <3>2
  <2> QED BY <1>1, <2>1, <2>2
<1>4. i + Len(w) - 1 <= Len(b)
  <2>1. (i + m) + n - 1 <= Len(b) /\ Len(w) = m + n /\ m \in Nat /\ n \in Nat
    BY <1>1, <1>2
  <2>2. (i + m) + n - 1 = i + (m + n) - 1
    BY <2>1
  <2> QED BY <2>1, <2>2
<1>5. At(b, i, w)
  BY <1>1, <1>3, <1>4 DEF At
<1> QED BY <1>5 DEF w

LEMMA ReadsByte ==
  ASSUME NEW b \in Octets, NEW i \in Nat \ {0}, NEW t \in Byte
  PROVE  ReadsAs(b, i, "y", <<t>>, t)
<1>1. ASSUME At(b, i, <<t>>) PROVE Decodes(b, i, "y", t, Len(<<t>>))
  <2>1. b[i] = t /\ Len(<<t>>) = 1
    BY <1>1, AtByte, OneByte
  <2>2. Stream!Decode(b, i, "y") = [val |-> b[i], adv |-> 1]
    BY DEF Stream!Decode
  <2> QED BY <2>1, <2>2 DEF Decodes
<1> QED BY <1>1 DEF ReadsAs

LEMMA LocalRead ==
  ASSUME NEW b, NEW i, NEW f, NEW v, NEW w, LocalAt(b, i, f, v, w)
  PROVE  Stream!LocalEntry(b, i) =
           [pos |-> i + Len(w), val |-> [name |-> f, val |-> Stream!Shown(v)]]
<1> SUFFICES ASSUME b \in Octets, i \in Nat \ {0}, IsName(f), IsValue(v),
                     w = Stream!DukString(f) \o Stream!DukValue(v), At(b, i, w)
             PROVE  Stream!LocalEntry(b, i) =
           [pos |-> i + Len(w), val |-> [name |-> f, val |-> Stream!Shown(v)]]
  BY DEF LocalAt
<1> DEFINE r == Stream!DukString(f)
           s == Stream!DukValue(v)
           t == v.type
           j == i + Len(r)
<1>1. r \in Octets /\ s \in Octets /\ t \in Byte /\ Len(r) \in Nat
  <2>1. r \in Octets
    BY StringBytes
  <2>2. s \in Octets
    BY AtRestIsRested, ValueOver DEF Passes
  <2>3. t \in Byte
    BY ValueBytes
  <2> QED BY <2>1, <2>2, <2>3, LenProperties DEF Octets
<1>2. ReadsAs(b, i, "s", r, f)
  BY ReadsString
<1>3. At(b, i, r \o s) /\ w = r \o s
  OBVIOUS
<1>4. At(b, j, s) => Stands(b, j, t, v, s)
  <2>1. j \in Nat \ {0}
    <3> HIDE DEF r
    <3> QED BY <1>1
  <2> HIDE DEF j
  <2> QED BY <2>1, ValueStands
<1> HIDE DEF r, s, t
<1>5. At(b, i, r) /\ At(b, j, s) /\ j \in Nat \ {0} /\ Len(w) = Len(r) + Len(s) /\ Len(s) \in Nat
  <2>1. At(b, i, r) /\ At(b, j, s)
    BY <1>1, <1>3, AtParts
  <2>2. Len(r \o s) = Len(r) + Len(s) /\ Len(s) \in Nat
    BY <1>1, JoinedBytes
  <2>3. j \in Nat \ {0}
    BY <1>1
  <2> HIDE DEF j
  <2> QED BY <1>3, <2>1, <2>2, <2>3
<1>6. PICK n \in Nat : b[j] = t /\ Len(s) = 1 + n /\ Comes(b, j + 1, t, v, n)
  BY <1>4, <1>5 DEF Stands
<1>7. <<t>> \in Octets /\ Len(<<t>>) = 1 /\ <<t>>[1] = t
  BY <1>1, OneByte
<1>8. At(b, j, <<t>>)
  <2>1. j + 1 - 1 <= Len(b) /\ b[j + 1 - 1] = t
    <3>1. j + Len(s) - 1 <= Len(b) /\ Len(b) \in Nat
      BY <1>5, LenProperties DEF At, Octets
    <3>2. j + 1 - 1 = j
      BY <1>5
    <3> QED BY <1>5, <1>6, <3>1, <3>2
  <2>2. \A k \in 1..1 : k = 1
    OBVIOUS
  <2> QED BY <1>7, <2>1, <2>2 DEF At
<1>9. At(b, i, r \o <<t>>) /\ Len(r \o <<t>>) = Len(r) + 1
  BY <1>1, <1>5, <1>7, <1>8, AtTogether, JoinedBytes
<1>10. ReadsAs(b, j, "y", <<t>>, t)
  BY <1>1, <1>5, ReadsByte
<1>11. j + 1 = i + Len(r \o <<t>>)
  BY <1>1, <1>9
<1>12. Twofold(b, i, r, <<t>>, "s", "y", f, t, j + 1)
  BY <1>1, <1>2, <1>7, <1>9, <1>10, <1>11 DEF Twofold
<1>13. Stream!UnmarshalBuffer(b, i, <<"s", "y">>) = Got(<<f, t>>, j + 1)
  BY <1>12, ReadsTwo
<1> DEFINE u == Stream!UnmarshalBuffer(b, i, <<"s", "y">>)
<1>14. u.pos = j + 1 /\ u.vals[1] = f /\ u.vals[2] = t
  <2> DEFINE vs == <<f, t>>
             q == j + 1
  <2>1. vs[1] = f /\ vs[2] = t
    OBVIOUS
  <2> HIDE DEF vs, q
  <2>2. u = [vals |-> vs, pos |-> q]
    BY <1>13 DEF vs, q, Got
  <2> HIDE DEF u
  <2> QED BY <2>1, <2>2 DEF q
<1> HIDE DEF u
<1> DEFINE m == Stream!MarshalTvalMsg(b, j + 1, t)
<1>15. m.size = n /\ Stream!ParseDvalData(t, m.arg) = Stream!Shown(v)
  BY <1>6 DEF Comes
<1>16. Stream!LocalEntry(b, i) =
         [pos |-> (j + 1) + m.size, val |-> [name |-> f, val |-> Stream!ParseDvalData(t, m.arg)]]
  BY <1>14 DEF u, Stream!LocalEntry
<1> HIDE DEF m
<1>17. (j + 1) + m.size = i + Len(w)
  <2> HIDE DEF j
  <2>1. j = i + Len(r)
    BY DEF j
  <2> QED BY <1>1, <1>5, <1>6, <1>15, <2>1
<1> HIDE DEF j
<1> QED BY <1>15, <1>16, <1>17

LEMMA PrefixGrows ==
  ASSUME NEW told, NEW k \in Nat \ {0}
  PROVE  Append(Prefix(told, k - 1), told[k]) = Prefix(told, k)
<1> DEFINE S == {told[j] : j \in 1..k}
           s == Prefix(told, k - 1)
           x == told[k]
           w == Append(s, x)
           u == Prefix(told, k)
<1>1. k - 1 \in Nat /\ \A j \in 1..k - 1 : j \in 1..k
  OBVIOUS
<1>2. s \in Seq(S) /\ Len(s) = k - 1 /\ \A j \in 1..k - 1 : s[j] = told[j]
  <2>1. s \in [1..k - 1 -> S] /\ \A j \in 1..k - 1 : s[j] = told[j]
    BY <1>1 DEF Prefix
  <2> HIDE DEF s
  <2> QED BY <1>1, <2>1, SeqDef
<1>3. u \in Seq(S) /\ Len(u) = k /\ \A j \in 1..k : u[j] = told[j]
  <2>1. u \in [1..k -> S] /\ \A j \in 1..k : u[j] = told[j]
    BY DEF Prefix
  <2> HIDE DEF u
  <2> QED BY <2>1, SeqDef
<1>4. x \in S
  OBVIOUS
<1> HIDE DEF S, s, u
<1>5. /\ w \in Seq(S) /\ Len(w) = k
      /\ \A j \in 1..k - 1 : w[j] = s[j]
      /\ w[k] = x
  <2> HIDE DEF x
  <2>1. w \in Seq(S) /\ Len(w) = Len(s) + 1
    BY <1>2, <1>4, AppendProperties
  <2>2. \A j \in 1..Len(s) : w[j] = s[j]
    BY <1>2, <1>4, AppendProperties
  <2>3. w[Len(s) + 1] = x
    BY <1>2, <1>4, AppendProperties
  <2>4. Len(s) + 1 = k
    BY <1>2
  <2> QED BY <1>2, <2>1, <2>2, <2>3, <2>4
<1> HIDE DEF w
<1>6. ASSUME NEW j \in 1..k PROVE w[j] = u[j]
  <2>1. CASE j = k
    BY <1>3, <1>5, <2>1
  <2>2. CASE j # k
    <3>1. j \in 1..k - 1
      BY <2>2
    <3> QED BY <1>2, <1>3, <1>5, <3>1
  <2> QED BY <2>1, <2>2
<1>7. w = u
  BY <1>3, <1>5, <1>6, SeqEqual
<1> QED BY <1>7 DEF w, s, x, u

\* The state of the loop over a list after k entries.
Entered(told, pos, k) == [pos |-> pos[k], list |-> Prefix(told, k)]

\* The loop of the entries: at each position but the last there is one more.
Leads(b, kind, length, n, pos, told) ==
  /\ pos[0] = 2
  /\ \A k \in 1..n : /\ Stream!More(kind, b, pos[k - 1], length)
                     /\ Stream!Entry(kind, b, pos[k - 1]) = [pos |-> pos[k], val |-> told[k]]
  /\ ~Stream!More(kind, b, pos[n], length)

LEMMA EntryTaken ==
  ASSUME NEW b, NEW kind, NEW length, NEW n \in Nat, NEW pos, NEW told,
         Leads(b, kind, length, n, pos, told)
  PROVE  /\ \A k \in 1..n : Stream!TakeEntry(kind, b, length, Entered(told, pos, k - 1)) =
                              Entered(told, pos, k)
         /\ Stream!TakeEntry(kind, b, length, Entered(told, pos, n)) = Entered(told, pos, n)
<1>1. ASSUME NEW k \in 1..n
      PROVE  Stream!TakeEntry(kind, b, length, Entered(told, pos, k - 1)) = Entered(told, pos, k)
  <2> DEFINE a == Entered(told, pos, k - 1)
             e == Stream!Entry(kind, b, pos[k - 1])
  <2>1. a.pos = pos[k - 1] /\ a.list = Prefix(told, k - 1)
    BY DEF Entered
  <2>2. Stream!More(kind, b, pos[k - 1], length) /\ e = [pos |-> pos[k], val |-> told[k]]
    BY DEF Leads
  <2> HIDE DEF a
  <2>3. e.pos = pos[k] /\ e.val = told[k]
    BY <2>2
  <2>4. Stream!TakeEntry(kind, b, length, a) = [pos |-> e.pos, list |-> Append(a.list, e.val)]
    BY <2>1, <2>2, Zenon DEF Stream!TakeEntry
  <2>5. Append(a.list, e.val) = Prefix(told, k)
    BY <2>1, <2>3, PrefixGrows
  <2> QED BY <2>3, <2>4, <2>5, Zenon DEF Entered, a
<1>2. Stream!TakeEntry(kind, b, length, Entered(told, pos, n)) = Entered(told, pos, n)
  <2>1. Entered(told, pos, n).pos = pos[n]
    BY DEF Entered
  <2>2. ~Stream!More(kind, b, pos[n], length)
    BY DEF Leads
  <2> QED BY <2>1, <2>2, Zenon DEF Stream!TakeEntry
<1> QED BY <1>1, <1>2

LEMMA ListTaken ==
  ASSUME NEW b, NEW kind, NEW length, NEW n \in Nat, NEW pos, NEW told,
         Leads(b, kind, length, n, pos, told), MaxList \in Nat, n <= MaxList
  PROVE  Stream!ReplyList(b, kind, length) = [kind |-> kind, list |-> Prefix(told, n)]
<1> DEFINE m == MaxList + 1
           g == [k \in 0..m |-> IF k <= n THEN Entered(told, pos, k) ELSE Entered(told, pos, n)]
           F(f) == f = [k \in 0..m |-> IF k = 0 THEN [pos |-> 2, list |-> <<>>]
                                       ELSE Stream!TakeEntry(kind, b, length, f[k - 1])]
           c == CHOOSE f : F(f)
<1>1. m \in Nat /\ n < m /\ 0 \in 0..m /\ m \in 0..m
  OBVIOUS
<1> HIDE DEF m
<1>2. /\ \A k \in 0..n : g[k] = Entered(told, pos, k)
      /\ \A k \in n..m : g[k] = Entered(told, pos, n)
  <2>1. \A k \in 0..n : k \in 0..m /\ k <= n
    BY <1>1
  <2>2. \A k \in n..m : k \in 0..m /\ (k <= n => k = n)
    BY <1>1
  <2> QED BY <2>1, <2>2
<1>3. g[0] = [pos |-> 2, list |-> <<>>]
  <2>1. 0 \in 0..n
    OBVIOUS
  <2>2. Prefix(told, 0) = <<>>
    BY DEF Prefix
  <2>3. pos[0] = 2
    BY DEF Leads
  <2>4. g[0] = Entered(told, pos, 0)
    BY <1>2, <2>1
  <2> QED BY <2>2, <2>3, <2>4 DEF Entered
<1>4. ASSUME NEW k \in 1..m PROVE g[k] = Stream!TakeEntry(kind, b, length, g[k - 1])
  <2>1. CASE k <= n
    <3>1. k \in 1..n /\ k \in 0..n /\ k - 1 \in 0..n
      BY <2>1
    <3>2. g[k] = Entered(told, pos, k) /\ g[k - 1] = Entered(told, pos, k - 1)
      BY <1>2, <3>1
    <3> HIDE DEF g
    <3> QED BY <3>1, <3>2, EntryTaken
  <2>2. CASE k > n
    <3>1. k \in n..m /\ k - 1 \in n..m
      BY <1>1, <2>2
    <3>2. g[k] = Entered(told, pos, n) /\ g[k - 1] = Entered(told, pos, n)
      BY <1>2, <3>1
    <3> HIDE DEF g
    <3> QED BY <3>2, EntryTaken
  <2> QED BY <2>1, <2>2
<1>5. F(g)
  <2>1. \A k \in 0..m : k # 0 => k \in 1..m
    BY <1>1
  <2>2. g = [k \in 0..m |-> g[k]]
    OBVIOUS
  <2> HIDE DEF g
  <2>3. \A k \in 0..m : g[k] = IF k = 0 THEN [pos |-> 2, list |-> <<>>]
                               ELSE Stream!TakeEntry(kind, b, length, g[k - 1])
    BY <1>3, <1>4, <2>1
  <2> QED BY <2>2, <2>3
<1>6. F(c)
  <2> HIDE DEF F, g
  <2> QED BY <1>5
<1>7. Stream!ReplyList(b, kind, length) = [kind |-> kind, list |-> c[m].list]
  BY DEF Stream!ReplyList, m
<1> HIDE DEF c, g
<1>8. c[0] = [pos |-> 2, list |-> <<>>]
      /\ \A k \in 1..m : c[k] = Stream!TakeEntry(kind, b, length, c[k - 1])
  <2>1. \A k \in 1..m : k \in 0..m /\ k # 0
    BY <1>1
  <2> QED BY <1>1, <1>6, <2>1
<1> DEFINE P == {k \in 0..m : c[k] = g[k]}
<1>9. 0 \in P
  BY <1>1, <1>3, <1>8
<1>10. ASSUME NEW k \in 1..m, k - 1 \in P PROVE k \in P
  <2>1. c[k - 1] = g[k - 1] /\ k \in 0..m
    BY <1>1, <1>10
  <2> QED BY <1>4, <1>8, <2>1
<1>11. 0..m \subseteq P
  <2> HIDE DEF P
  <2> QED BY <1>1, <1>9, <1>10, UpTo
<1>12. c[m] = g[m]
  BY <1>1, <1>11
<1>13. g[m] = Entered(told, pos, n)
  BY <1>1, <1>2
<1>14. c[m].list = Prefix(told, n)
  BY <1>12, <1>13 DEF Entered
<1> QED BY <1>7, <1>14

\* What the console should be told of an entry.
EntryTold(kind, e) ==
  CASE kind = "listBreak" -> e
    [] kind = "callStack" -> Stream!ToldFrame(e)
    [] kind = "locals"    -> [name |-> e.name, val |-> Stream!Shown(e.val)]

EntryAt(kind, e, b, i) ==
  /\ b \in Octets /\ i \in Nat \ {0}
  /\ IsEntry(kind, e)
  /\ At(b, i, Stream!DukEntry(kind, e))

EntryIs(kind, e, b, i) ==
  /\ Stream!Entry(kind, b, i) =
       [pos |-> i + Len(Stream!DukEntry(kind, e)), val |-> EntryTold(kind, e)]
  /\ kind # "locals" => b[i] # Stream!EOM

LEMMA EntryRead ==
  ASSUME NEW kind, NEW e, NEW b, NEW i, EntryAt(kind, e, b, i)
  PROVE  EntryIs(kind, e, b, i)
<1> SUFFICES /\ Stream!Entry(kind, b, i) =
                 [pos |-> i + Len(Stream!DukEntry(kind, e)), val |-> EntryTold(kind, e)]
             /\ kind # "locals" => b[i] # Stream!EOM
  BY DEF EntryIs
<1> USE DEF EntryAt
<1> DEFINE w == Stream!DukEntry(kind, e)
<1>0. At(b, i, w)
  OBVIOUS
<1> HIDE DEF w
<1>1. CASE kind = "listBreak"
  <2>1. /\ e = [file |-> e.file, line |-> e.line] /\ IsName(e.file)
        /\ e.line \in Nat /\ e.line <= 16383
    BY <1>1 DEF IsEntry, IsNumber
  <2>0. PICK f, n : f = e.file /\ n = e.line
    OBVIOUS
  <2>2. w = Stream!DukString(f) \o Stream!IntEncode(n)
    BY <1>1, <2>0 DEF w, Stream!DukEntry
  <2>3. Stream!BreakEntry(b, i) = [pos |-> i + Len(w), val |-> [file |-> f, line |-> n]]
    <3>1. IsName(f)
      BY <2>0, <2>1
    <3>2. n \in Nat
      BY <2>0, <2>1
    <3>3. n <= 16383
      BY <2>0, <2>1
    <3>4. BreakAt(b, i, f, n, w)
      BY <1>0, <2>2, <3>1, <3>2, <3>3 DEF BreakAt
    <3> QED BY <3>4, BreakRead
  <2>4. b[i] # Stream!EOM
    <3>1. IsName(f)
      BY <2>0, <2>1
    <3>2. Stream!DukString(f) \in Octets /\ Stream!IntEncode(n) \in Octets
      <4>1. n \in Nat /\ n <= 16383
        BY <2>0, <2>1
      <4>2. Stream!DukString(f) \in Octets
        BY <3>1, StringBytes
      <4>3. Stream!IntEncode(n) \in Octets
        BY <4>1, NumberBytes
      <4> QED BY <4>2, <4>3
    <3>3. At(b, i, Stream!DukString(f))
      BY <1>0, <2>2, <3>2, AtParts
    <3> QED BY <3>1, <3>3, NotTheEnd
  <2>5. Stream!Entry(kind, b, i) = Stream!BreakEntry(b, i) /\ EntryTold(kind, e) = e
    BY <1>1 DEF Stream!Entry, EntryTold
  <2>6. [file |-> f, line |-> n] = e
    BY <2>0, <2>1
  <2> QED BY <2>3, <2>4, <2>5, <2>6 DEF w
<1>2. CASE kind = "callStack"
  <2>1. IsFrame(e)
    BY <1>2 DEF IsEntry
  <2>2. w = Stream!DukFrame(e)
    BY <1>2 DEF w, Stream!DukEntry
  <2> DEFINE vs == <<e.file, e.func, e.line, e.pc>>
             u == Stream!UnmarshalBuffer(b, i, <<"s", "s", "i", "i">>)
  <2>3. /\ u = [vals |-> vs, pos |-> i + Len(w)]
        /\ Stream!ShownFrame(vs) = Stream!ToldFrame(e) /\ b[i] = 96 + Len(e.file)
    BY <1>0, <2>1, <2>2, FrameRead
  <2> HIDE DEF vs
  <2>4. u.vals = vs /\ u.pos = i + Len(w)
    BY <2>3
  <2>5. Stream!FrameEntry(b, i) = [pos |-> u.pos, val |-> Stream!ShownFrame(u.vals)]
    BY DEF Stream!FrameEntry
  <2>6. b[i] # Stream!EOM
    <3>1. Len(e.file) \in Nat
      BY <2>1, NameLength DEF IsFrame
    <3> QED BY <2>3, <3>1 DEF Stream!EOM
  <2>7. Stream!Entry(kind, b, i) = Stream!FrameEntry(b, i) /\ EntryTold(kind, e) = Stream!ToldFrame(e)
    BY <1>2 DEF Stream!Entry, EntryTold
  <2> HIDE DEF u
  <2> QED BY <2>3, <2>4, <2>5, <2>6, <2>7 DEF w
<1>3. CASE kind = "locals"
  <2>1. IsName(e.name) /\ IsValue(e.val)
    BY <1>3 DEF IsEntry
  <2>0. PICK f, v : f = e.name /\ v = e.val
    OBVIOUS
  <2>2. w = Stream!DukString(f) \o Stream!DukValue(v)
    BY <1>3, <2>0 DEF w, Stream!DukEntry
  <2>3. Stream!LocalEntry(b, i) = [pos |-> i + Len(w), val |-> [name |-> f, val |-> Stream!Shown(v)]]
    <3>1. IsName(f)
      BY <2>0, <2>1
    <3>2. IsValue(v)
      BY <2>0, <2>1
    <3>3. LocalAt(b, i, f, v, w)
      BY <1>0, <2>2, <3>1, <3>2 DEF LocalAt
    <3> QED BY <3>3, LocalRead
  <2>4. /\ Stream!Entry(kind, b, i) = Stream!LocalEntry(b, i)
        /\ EntryTold(kind, e) = [name |-> e.name, val |-> Stream!Shown(e.val)]
    BY <1>3 DEF Stream!Entry, EntryTold
  <2> QED BY <1>3, <2>0, <2>3, <2>4 DEF w
<1> QED BY <1>1, <1>2, <1>3 DEF IsEntry, w

\* An entry has a name and something behind it.
LEMMA EntryLength ==
  ASSUME NEW kind, NEW e, IsEntry(kind, e), kind = "locals"
  PROVE  Len(Stream!DukEntry(kind, e)) >= 2
<1> DEFINE r == Stream!DukString(e.name)
           s == Stream!DukValue(e.val)
<1>1. IsName(e.name) /\ IsValue(e.val)
  BY DEF IsEntry
<1>2. r \in Octets /\ Len(r) = 1 + Len(e.name) /\ Len(e.name) \in Nat
  BY <1>1, StringBytes, NameLength
<1>3. s \in Octets
  BY <1>1, AtRestIsRested, ValueOver DEF Passes
<1>4. Len(s) \in Nat /\ Len(s) >= 1
  <2>1. Stands(s, 1, e.val.type, e.val, s)
    BY <1>1, <1>3, AtItself, ValueStands
  <2> HIDE DEF s
  <2>2. PICK n \in Nat : Len(s) = 1 + n
    BY <2>1 DEF Stands
  <2> QED BY <2>2
<1>5. Stream!DukEntry(kind, e) = r \o s
  BY DEF Stream!DukEntry
<1> HIDE DEF r, s
<1>6. Len(r \o s) = Len(r) + Len(s)
  BY <1>2, <1>3, JoinedBytes
<1>7. Len(r) + Len(s) >= 2
  BY <1>2, <1>4
<1> QED BY <1>5, <1>6, <1>7

\* The bytes of a reply: its start, what it says and its end.
LEMMA ReplyBytes ==
  ASSUME NEW d \in Octets, NEW b, b = (<<Stream!REP>> \o d) \o <<Stream!EOM>>
  PROVE  /\ b \in Octets /\ b[1] = Stream!REP /\ At(b, 2, d)
         /\ b[2 + Len(d)] = Stream!EOM /\ Len(b) = 2 + Len(d) /\ Len(d) \in Nat
         /\ Len(<<Stream!REP>> \o d) = 1 + Len(d)
<1> DEFINE r == <<Stream!REP>>
           s == <<Stream!EOM>>
           w == r \o d
<1>1. Stream!REP \in Byte /\ Stream!EOM \in Byte
  BY DEF Byte, Stream!REP, Stream!EOM
<1>2. r \in Octets /\ Len(r) = 1 /\ r[1] = Stream!REP /\ s \in Octets /\ Len(s) = 1 /\ s[1] = Stream!EOM
  BY <1>1, OneByte
<1> HIDE DEF r, s
<1>3. w \in Octets /\ Len(w) = 1 + Len(d) /\ Len(d) \in Nat
  <2>1. r \in Octets
    BY <1>2
  <2>2. w \in Octets /\ Len(w) = Len(r) + Len(d) /\ Len(d) \in Nat
    BY <2>1, JoinedBytes
  <2> HIDE DEF w
  <2> QED BY <1>2, <2>2
<1> HIDE DEF w
<1>4. b = w \o s
  BY DEF w, r, s
<1>5. b \in Octets /\ Len(b) = (1 + Len(d)) + 1
  <2>1. s \in Octets /\ w \in Octets
    BY <1>2, <1>3
  <2>2. w \o s \in Octets /\ Len(w \o s) = Len(w) + Len(s)
    BY <2>1, JoinedBytes
  <2> QED BY <1>2, <1>3, <1>4, <2>2
<1>6. At(b, 1, w \o s)
  BY <1>4, <1>5, AtItself
<1>7. At(b, 1, w) /\ At(b, 1 + Len(w), s)
  <2>1. 1 \in Nat \ {0}
    OBVIOUS
  <2> QED BY <1>2, <1>3, <1>5, <1>6, <2>1, AtParts, Zenon
<1>8. At(b, 1, r) /\ At(b, 1 + Len(r), d)
  <2>1. 1 \in Nat \ {0}
    OBVIOUS
  <2>2. At(b, 1, r \o d)
    BY <1>7 DEF w
  <2> QED BY <1>2, <1>5, <2>1, <2>2, AtParts, Zenon
<1>9. b[1] = Stream!REP
  BY <1>2, <1>8 DEF At
<1>10. b[2 + Len(d)] = Stream!EOM
  <2>1. b[1 + Len(w) + 1 - 1] = s[1]
    BY <1>2, <1>7 DEF At
  <2>2. 1 + Len(w) + 1 - 1 = 2 + Len(d)
    BY <1>3
  <2> QED BY <1>2, <2>1, <2>2
<1>11. 1 + Len(r) = 2 /\ Len(b) = 2 + Len(d)
  BY <1>2, <1>3, <1>5
<1> QED BY <1>3, <1>5, <1>8, <1>9, <1>10, <1>11 DEF w, r

\* The entries are where the ones before them end.
Laid(f, kind, list, n, b) ==
  /\ n \in Nat /\ n = Len(list) /\ Listed(f, kind, list)
  /\ \A k \in 1..n : IsEntry(kind, list[k])
  /\ b \in Octets /\ At(b, 2, Stream!DukList(kind, list))

Follow(f, kind, list, n, b) ==
  /\ \A k \in 0..n : Len(f[k]) \in Nat /\ At(b, 2, f[k])
  /\ \A k \in 1..n : /\ At(b, 2 + Len(f[k - 1]), Stream!DukEntry(kind, list[k]))
                     /\ Len(f[k]) = Len(f[k - 1]) + Len(Stream!DukEntry(kind, list[k]))
                     /\ Len(Stream!DukEntry(kind, list[k])) \in Nat
  /\ f[0] = <<>> /\ f[n] = Stream!DukList(kind, list)

LEMMA EntriesAt ==
  ASSUME NEW f, NEW kind, NEW list, NEW n, NEW b, Laid(f, kind, list, n, b)
  PROVE  Follow(f, kind, list, n, b)
<1> SUFFICES /\ \A k \in 0..n : Len(f[k]) \in Nat /\ At(b, 2, f[k])
             /\ \A k \in 1..n : /\ At(b, 2 + Len(f[k - 1]), Stream!DukEntry(kind, list[k]))
                                /\ Len(f[k]) = Len(f[k - 1]) + Len(Stream!DukEntry(kind, list[k]))
                                /\ Len(Stream!DukEntry(kind, list[k])) \in Nat
             /\ f[0] = <<>> /\ f[n] = Stream!DukList(kind, list)
  BY DEF Follow
<1> USE DEF Laid
<1>1. /\ \A k \in 0..n : f[k] \in Octets
      /\ f[0] = <<>> /\ f[n] = Stream!DukList(kind, list)
      /\ \A k \in 1..n : f[k] = f[k - 1] \o Stream!DukEntry(kind, list[k])
  BY DEF Listed
<1>2. ASSUME NEW k \in 1..n
      PROVE  /\ k - 1 \in 0..n /\ k \in 0..n /\ f[k - 1] \in Octets
             /\ Stream!DukEntry(kind, list[k]) \in Octets
             /\ f[k] = f[k - 1] \o Stream!DukEntry(kind, list[k])
  <2>1. k - 1 \in 0..n /\ k \in 0..n
    OBVIOUS
  <2> QED BY <1>1, <2>1, EntryBytes
<1>3. ASSUME NEW k \in 1..n, At(b, 2, f[k])
      PROVE  At(b, 2, f[k - 1]) /\ At(b, 2 + Len(f[k - 1]), Stream!DukEntry(kind, list[k]))
  <2> DEFINE s == f[k - 1]
             t == Stream!DukEntry(kind, list[k])
  <2>1. s \in Octets /\ t \in Octets /\ f[k] = s \o t
    BY <1>2
  <2> HIDE DEF s, t
  <2>2. At(b, 2, s \o t) /\ 2 \in Nat \ {0}
    BY <1>3, <2>1
  <2>3. At(b, 2, s) /\ At(b, 2 + Len(s), t)
    BY <2>1, <2>2, AtParts
  <2> QED BY <2>3 DEF s, t
<1> DEFINE P == {j \in 0..n : At(b, 2, f[n - j])}
<1>4. 0 \in P
  <2>1. n - 0 = n
    OBVIOUS
  <2> QED BY <1>1, <2>1
<1>5. ASSUME NEW j \in 1..n, j - 1 \in P PROVE j \in P
  <2>1. n - j + 1 \in 1..n /\ n - (j - 1) = n - j + 1 /\ (n - j + 1) - 1 = n - j /\ j \in 0..n
    OBVIOUS
  <2>2. At(b, 2, f[n - j + 1])
    BY <1>5, <2>1
  <2> HIDE DEF P
  <2>3. At(b, 2, f[(n - j + 1) - 1])
    BY <1>3, <2>1, <2>2
  <2> QED BY <2>1, <2>3 DEF P
<1>6. 0..n \subseteq P
  <2> HIDE DEF P
  <2> QED BY <1>4, <1>5, UpTo
<1>7. ASSUME NEW k \in 0..n PROVE At(b, 2, f[k])
  <2>1. n - k \in 0..n /\ n - (n - k) = k
    OBVIOUS
  <2>2. At(b, 2, f[n - (n - k)])
    BY <1>6, <2>1
  <2> QED BY <2>1, <2>2
<1>8. \A k \in 0..n : Len(f[k]) \in Nat
  BY <1>1, LenProperties DEF Octets
<1>9. ASSUME NEW k \in 1..n
      PROVE  /\ At(b, 2 + Len(f[k - 1]), Stream!DukEntry(kind, list[k]))
             /\ Len(f[k]) = Len(f[k - 1]) + Len(Stream!DukEntry(kind, list[k]))
             /\ Len(Stream!DukEntry(kind, list[k])) \in Nat
  <2>1. At(b, 2, f[k])
    BY <1>2, <1>7
  <2>2. At(b, 2 + Len(f[k - 1]), Stream!DukEntry(kind, list[k]))
    BY <1>3, <2>1
  <2>3. /\ Len(f[k]) = Len(f[k - 1]) + Len(Stream!DukEntry(kind, list[k]))
        /\ Len(Stream!DukEntry(kind, list[k])) \in Nat
    BY <1>2, JoinedBytes
  <2> QED BY <2>2, <2>3
<1> QED BY <1>1, <1>7, <1>8, <1>9

\* A list, and the message in the buffer that holds it.
IsList(kind, list) ==
  /\ kind \in {"listBreak", "callStack", "locals"}
  /\ MaxList \in Nat /\ Len(list) \in 0..MaxList
  /\ \A k \in 1..Len(list) : IsEntry(kind, list[k])
ListSent(kind, list, b, length) ==
  /\ b = (<<Stream!REP>> \o Stream!DukList(kind, list)) \o <<Stream!EOM>>
  /\ length = Len(<<Stream!REP>> \o Stream!DukList(kind, list))

LEMMA ListArrives ==
  ASSUME NEW kind, NEW list, IsList(kind, list), NEW b, NEW length, ListSent(kind, list, b, length)
  PROVE  Stream!ReplyList(b, kind, length) =
           [kind |-> kind, list |-> [k \in 1..Len(list) |-> EntryTold(kind, list[k])]]
<1> SUFFICES
      ASSUME kind \in {"listBreak", "callStack", "locals"}, MaxList \in Nat,
         Len(list) \in 0..MaxList, \A k \in 1..Len(list) : IsEntry(kind, list[k]),
         b = (<<Stream!REP>> \o Stream!DukList(kind, list)) \o <<Stream!EOM>>,
         length = Len(<<Stream!REP>> \o Stream!DukList(kind, list))
      PROVE  Stream!ReplyList(b, kind, length) =
           [kind |-> kind, list |-> [k \in 1..Len(list) |-> EntryTold(kind, list[k])]]
  BY DEF IsList, ListSent
<1> DEFINE n == Len(list)
           d == Stream!DukList(kind, list)
           told == [k \in 1..n |-> EntryTold(kind, list[k])]
<1>1. n \in Nat /\ n <= MaxList
  OBVIOUS
<1>2. PICK f : Listed(f, kind, list)
  <2>1. Len(list) \in Nat /\ \A k \in 1..Len(list) : IsEntry(kind, list[k])
    OBVIOUS
  <2> QED BY <2>1, ListIs
<1>3. d \in Octets
  <2>1. n \in 0..n
    BY <1>1
  <2> QED BY <1>2, <2>1 DEF Listed
<1>4. /\ b \in Octets /\ At(b, 2, d) /\ b[2 + Len(d)] = Stream!EOM /\ Len(b) = 2 + Len(d)
      /\ Len(d) \in Nat /\ length = 1 + Len(d)
  <2> HIDE DEF d
  <2>1. b = (<<Stream!REP>> \o d) \o <<Stream!EOM>> /\ length = Len(<<Stream!REP>> \o d)
    BY DEF d
  <2> QED BY <1>3, <2>1, ReplyBytes
<1>5. /\ \A k \in 0..n : Len(f[k]) \in Nat /\ At(b, 2, f[k])
      /\ \A k \in 1..n : /\ At(b, 2 + Len(f[k - 1]), Stream!DukEntry(kind, list[k]))
                         /\ Len(f[k]) = Len(f[k - 1]) + Len(Stream!DukEntry(kind, list[k]))
                         /\ Len(Stream!DukEntry(kind, list[k])) \in Nat
      /\ f[0] = <<>> /\ f[n] = d
  <2>1. n = Len(list)
    OBVIOUS
  <2>2. \A k \in 1..n : IsEntry(kind, list[k])
    OBVIOUS
  <2>3. n \in Nat
    BY <1>1
  <2>4. b \in Octets
    BY <1>4
  <2>5. At(b, 2, Stream!DukList(kind, list))
    BY <1>4
  <2> HIDE DEF n
  <2>6. Laid(f, kind, list, n, b)
    BY <1>2, <2>1, <2>2, <2>3, <2>4, <2>5 DEF Laid
  <2>7. Follow(f, kind, list, n, b)
    BY <2>6, EntriesAt
  <2> QED BY <2>7 DEF Follow, d
<1>6. \A k \in 1..n : IsEntry(kind, list[k])
  OBVIOUS
<1> HIDE DEF n, d
<1> DEFINE pos == [k \in 0..n |-> 2 + Len(f[k])]
<1>7. pos[0] = 2
  <2>1. 0 \in 0..n
    BY <1>1
  <2>2. Len(f[0]) = 0
    BY <1>5
  <2> QED BY <2>1, <2>2
<1>8. ASSUME NEW k \in 1..n
      PROVE  /\ Stream!More(kind, b, pos[k - 1], length)
             /\ Stream!Entry(kind, b, pos[k - 1]) = [pos |-> pos[k], val |-> told[k]]
  <2> DEFINE w == Stream!DukEntry(kind, list[k])
             e == list[k]
             i == 2 + Len(f[k - 1])
  <2>1. k \in 0..n /\ k - 1 \in 0..n
    BY <1>1
  <2>2. pos[k - 1] = i /\ pos[k] = 2 + Len(f[k]) /\ told[k] = EntryTold(kind, e)
    BY <2>1
  <2>3. At(b, i, w) /\ Len(f[k]) = Len(f[k - 1]) + Len(w) /\ Len(w) \in Nat
    BY <1>5
  <2>4. Len(f[k]) \in Nat /\ Len(f[k - 1]) \in Nat /\ At(b, 2, f[k])
    BY <1>5, <2>1
  <2>5. i \in Nat \ {0} /\ i + Len(w) = 2 + Len(f[k])
    <3> HIDE DEF w
    <3> QED BY <2>3, <2>4
  <2>6. IsEntry(kind, e)
    BY <1>6
  <2>7. /\ Stream!Entry(kind, b, i) = [pos |-> i + Len(w), val |-> EntryTold(kind, e)]
        /\ kind # "locals" => b[i] # Stream!EOM
    <3>1. w = Stream!DukEntry(kind, e)
      OBVIOUS
    <3> HIDE DEF i, e, w
    <3>2. At(b, i, Stream!DukEntry(kind, e))
      BY <2>3, <3>1
    <3>3. b \in Octets
      BY <1>4
    <3>4. i \in Nat \ {0}
      BY <2>5
    <3>5. /\ Stream!Entry(kind, b, i) =
               [pos |-> i + Len(Stream!DukEntry(kind, e)), val |-> EntryTold(kind, e)]
          /\ kind # "locals" => b[i] # Stream!EOM
      <4>1. EntryAt(kind, e, b, i)
        BY <2>6, <3>2, <3>3, <3>4 DEF EntryAt
      <4>2. EntryIs(kind, e, b, i)
        BY <4>1, EntryRead
      <4> QED BY <4>2 DEF EntryIs
    <3> QED BY <3>1, <3>5
  <2>8. Stream!More(kind, b, i, length)
    <3>1. CASE kind = "locals"
      <4>1. Len(w) >= 2
        BY <2>6, <3>1, EntryLength
      <4>2. 2 + Len(f[k]) - 1 <= Len(b)
        BY <2>4 DEF At
      <4>3. i <= length
        <5> HIDE DEF w
        <5>1. /\ Len(f[k]) = Len(f[k - 1]) + Len(w) /\ Len(w) \in Nat /\ Len(w) >= 2
              /\ Len(f[k]) \in Nat /\ Len(f[k - 1]) \in Nat /\ Len(d) \in Nat
              /\ 2 + Len(f[k]) - 1 <= 2 + Len(d) /\ length = 1 + Len(d)
          BY <1>4, <2>3, <2>4, <4>1, <4>2
        <5> QED BY <5>1
      <4> QED BY <3>1, <4>3 DEF Stream!More
    <3>2. CASE kind # "locals"
      BY <2>7, <3>2 DEF Stream!More
    <3> QED BY <3>1, <3>2
  <2> HIDE DEF w, e, i
  <2>9. Stream!Entry(kind, b, i) = [pos |-> pos[k], val |-> told[k]]
    BY <2>2, <2>5, <2>7
  <2> QED BY <2>2, <2>8, <2>9
<1>9. ~Stream!More(kind, b, pos[n], length)
  <2>1. pos[n] = 2 + Len(d)
    BY <1>1, <1>5
  <2>2. ~(2 + Len(d) <= length)
    BY <1>4
  <2> QED BY <1>4, <2>1, <2>2 DEF Stream!More
<1>10. Leads(b, kind, length, n, pos, told)
  <2> HIDE DEF pos, told
  <2> QED BY <1>7, <1>8, <1>9 DEF Leads
<1>11. Stream!ReplyList(b, kind, length) = [kind |-> kind, list |-> Prefix(told, n)]
  <2> HIDE DEF pos, told
  <2> QED BY <1>1, <1>10, ListTaken
<1>12. Prefix(told, n) = told
  BY DEF Prefix
<1> QED BY <1>11, <1>12 DEF n

-----------------------------------------------------------------------------
(* Messages handled                                                        *)

\* A message of two parts and its end.
LEMMA PartsAndEnd ==
  ASSUME NEW h \in Octets, NEW d \in Octets, NEW b, b = (h \o d) \o <<Stream!EOM>>
  PROVE  b \in Octets /\ At(b, 1, h) /\ At(b, 1 + Len(h), d) /\ Len(h) \in Nat
<1> DEFINE s == <<Stream!EOM>>
           w == h \o d
<1>1. s \in Octets
  BY OneByte DEF Byte, Stream!EOM
<1>2. w \in Octets /\ Len(h) \in Nat
  BY JoinedBytes
<1>3. b = w \o s
  OBVIOUS
<1> HIDE DEF s, w
<1>4. b \in Octets /\ At(b, 1, w \o s)
  BY <1>1, <1>2, <1>3, JoinedBytes, AtItself
<1>5. 1 \in Nat \ {0}
  OBVIOUS
<1>6. At(b, 1, w)
  BY <1>1, <1>2, <1>4, <1>5, AtParts, Zenon
<1>7. At(b, 1, h \o d)
  BY <1>6 DEF w
<1>8. At(b, 1, h) /\ At(b, 1 + Len(h), d)
  BY <1>4, <1>5, <1>7, AtParts, Zenon
<1> QED BY <1>2, <1>4, <1>8

LEMMA OneAt == ASSUME NEW b, NEW x, At(b, 1, <<x>>) PROVE b[1] = x
BY DEF At

LEMMA TwoAt == ASSUME NEW b, NEW x, NEW y, At(b, 1, <<x, y>>) PROVE b[1] = x /\ b[2] = y
BY DEF At

LEMMA ThreeAt ==
  ASSUME NEW b, NEW x, NEW y, NEW z, At(b, 1, <<x, y, z>>)
  PROVE  b[1] = x /\ b[2] = y /\ b[3] = z
<1>1. \A k \in 1..3 : b[1 + k - 1] = <<x, y, z>>[k]
  BY DEF At
<1>2. b[1 + 1 - 1] = x /\ b[1 + 2 - 1] = y /\ b[1 + 3 - 1] = z
  BY <1>1
<1> QED BY <1>2

\* The kinds of messages differ in their first byte.
LEMMA Openings ==
  /\ Stream!REP # Stream!NFY /\ Stream!REP # Stream!ERR /\ Stream!ERR # Stream!NFY
  /\ Stream!REP \in Byte /\ Stream!NFY \in Byte /\ Stream!ERR \in Byte /\ Stream!EOM \in Byte
  /\ Stream!UNDEFINED \in Byte
BY DEF Stream!REP, Stream!NFY, Stream!ERR, Byte, Stream!EOM, Stream!UNDEFINED

LEMMA ReplyHandled ==
  ASSUME NEW b, b[1] = Stream!REP, NEW kind, NEW length
  PROVE  Stream!HandleMessage(b, kind, length) = Stream!HandleReply(b, kind, length)
BY Openings DEF Stream!HandleMessage

\* The value of a variable or an expression.
ValueSent(m, b) ==
  /\ m.kind \in {"getVar", "eval"} /\ m.good \in BOOLEAN /\ IsValue(m.val)
  /\ b = Stream!DukMessage(m) \o <<Stream!EOM>>

LEMMA ValueArrives ==
  ASSUME NEW m, NEW b, ValueSent(m, b), NEW length
  PROVE  Stream!HandleMessage(b, m.kind, length) = Stream!Told(m)
<1> SUFFICES ASSUME m.kind \in {"getVar", "eval"}, m.good \in BOOLEAN, IsValue(m.val),
                    b = Stream!DukMessage(m) \o <<Stream!EOM>>
             PROVE  Stream!HandleMessage(b, m.kind, length) = Stream!Told(m)
  BY DEF ValueSent
<1> DEFINE x == 128 + Stream!Valid(m)
           h == <<Stream!REP, x>>
           d == Stream!DukValue(m.val)
           v == m.val
<1>1. Stream!Valid(m) \in {0, 1} /\ x \in Byte
  BY DEF Stream!Valid, Byte
<1>2. h \in Octets /\ Len(h) = 2
  BY <1>1, Openings, TwoBytes
<1>3. d \in Octets
  BY AtRestIsRested, ValueOver DEF Passes
<1>4. b = (h \o d) \o <<Stream!EOM>>
  BY DEF Stream!DukMessage
<1> HIDE DEF d
<1>5. b \in Octets /\ b[1] = Stream!REP /\ b[2] = x /\ At(b, 3, d)
  <2> DEFINE g == h
  <2>1. g \in Octets /\ b = (g \o d) \o <<Stream!EOM>> /\ Len(g) = 2
    BY <1>2, <1>4
  <2> HIDE DEF g
  <2>2. b \in Octets /\ At(b, 1, g) /\ At(b, 1 + Len(g), d)
    BY <1>3, <2>1, PartsAndEnd
  <2>3. At(b, 1, h)
    BY <2>2 DEF g
  <2>4. 1 + Len(g) = 3
    BY <2>1
  <2> HIDE DEF x
  <2>5. b[1] = Stream!REP /\ b[2] = x
    BY <2>3, TwoAt, Zenon
  <2> QED BY <2>2, <2>4, <2>5
<1>6. Stands(b, 3, v.type, v, d)
  <2>1. 3 \in Nat \ {0} /\ At(b, 3, Stream!DukValue(v)) /\ b \in Octets /\ IsValue(v)
    BY <1>5 DEF d
  <2> HIDE DEF v
  <2> QED BY <2>1, ValueStands DEF d, v
<1>7. PICK n \in Nat : b[3] = v.type /\ Comes(b, 3 + 1, v.type, v, n)
  BY <1>6 DEF Stands
<1>8. Stream!ParseDvalData(b[3], Stream!MarshalTvalMsg(b, 4, b[3]).arg) = Stream!Shown(v)
  <2>1. 3 + 1 = 4
    OBVIOUS
  <2> QED BY <1>7, <2>1 DEF Comes
<1>9. b[2] - 128 = Stream!Valid(m)
  <2> DEFINE y == Stream!Valid(m)
  <2>1. y \in {0, 1} /\ b[2] = x /\ x = 128 + y
    BY <1>1, <1>5
  <2> HIDE DEF x, y
  <2>2. b[2] - 128 = y
    <3>1. \A k \in {0, 1} : (128 + k) - 128 = k
      OBVIOUS
    <3>2. (128 + y) - 128 = y
      BY <2>1, <3>1
    <3>3. b[2] = 128 + y
      BY <2>1
    <3> QED BY <3>2, <3>3, Zenon
  <2> QED BY <2>2 DEF y
<1>10. Stream!HandleMessage(b, m.kind, length) = Stream!ReplyValue(b, m.kind)
  <2>1. Stream!HandleMessage(b, m.kind, length) = Stream!HandleReply(b, m.kind, length)
    BY <1>5, ReplyHandled
  <2>2. Stream!HandleReply(b, m.kind, length) = Stream!ReplyValue(b, m.kind)
    BY Zenon DEF Stream!HandleReply
  <2> QED BY <2>1, <2>2
<1>11. (IF m.kind = "getVar" THEN Stream!Valid(m) = 1 ELSE Stream!Valid(m) = 0) <=> m.good = TRUE
  BY DEF Stream!Valid
<1>12. Stream!ReplyValue(b, m.kind) =
         IF m.good THEN [kind |-> m.kind, good |-> TRUE, val |-> Stream!Shown(v)]
         ELSE [kind |-> m.kind, good |-> FALSE]
  BY <1>8, <1>9, <1>11 DEF Stream!ReplyValue
<1> QED BY <1>10, <1>12 DEF Stream!Told

\* A list.
MessageSent(m, b, length) ==
  /\ m.kind \in {"listBreak", "callStack", "locals"} /\ MaxList \in Nat
  /\ Len(m.list) \in 0..MaxList /\ m.list = Prefix(m.list, Len(m.list))
  /\ \A k \in 1..Len(m.list) : IsEntry(m.kind, m.list[k])
  /\ m.kind = "listBreak" => m = [kind |-> m.kind, list |-> m.list]
  /\ b = Stream!DukMessage(m) \o <<Stream!EOM>> /\ length = Len(Stream!DukMessage(m))

LEMMA ListArrivesAsTold ==
  ASSUME NEW m, NEW b, NEW length, MessageSent(m, b, length)
  PROVE  Stream!HandleMessage(b, m.kind, length) = Stream!Told(m)
<1> SUFFICES
      ASSUME m.kind \in {"listBreak", "callStack", "locals"}, MaxList \in Nat,
         Len(m.list) \in 0..MaxList, m.list = Prefix(m.list, Len(m.list)),
         \A k \in 1..Len(m.list) : IsEntry(m.kind, m.list[k]),
         m.kind = "listBreak" => m = [kind |-> m.kind, list |-> m.list],
         b = Stream!DukMessage(m) \o <<Stream!EOM>>, length = Len(Stream!DukMessage(m))
      PROVE  Stream!HandleMessage(b, m.kind, length) = Stream!Told(m)
  BY DEF MessageSent
<1>1. PICK kind, list : kind = m.kind /\ list = m.list
  OBVIOUS
<1>2. kind \in {"listBreak", "callStack", "locals"} /\ Len(list) \in 0..MaxList
  BY <1>1
<1>3. \A k \in 1..Len(list) : IsEntry(kind, list[k])
  BY <1>1
<1>4. Stream!DukMessage(m) = <<Stream!REP>> \o Stream!DukList(kind, list)
  BY <1>1, <1>2 DEF Stream!DukMessage
<1>5. /\ b = (<<Stream!REP>> \o Stream!DukList(kind, list)) \o <<Stream!EOM>>
      /\ length = Len(<<Stream!REP>> \o Stream!DukList(kind, list))
  BY <1>4
<1>6. Stream!ReplyList(b, kind, length) =
        [kind |-> kind, list |-> [k \in 1..Len(list) |-> EntryTold(kind, list[k])]]
  <2>1. IsList(kind, list)
    BY <1>2, <1>3 DEF IsList
  <2>2. ListSent(kind, list, b, length)
    BY <1>5 DEF ListSent
  <2> QED BY <2>1, <2>2, ListArrives
<1>7. b[1] = Stream!REP
  <2>1. PICK f : Listed(f, kind, list)
    <3>1. Len(list) \in Nat
      BY <1>2
    <3> QED BY <1>3, <3>1, ListIs
  <2>2. Stream!DukList(kind, list) \in Octets
    <3>1. Len(list) \in 0..Len(list)
      BY <1>2
    <3> QED BY <2>1, <3>1 DEF Listed
  <2>3. <<Stream!REP>> \in Octets
    BY Openings, OneByte
  <2>4. At(b, 1, <<Stream!REP>>)
    BY <1>5, <2>2, <2>3, PartsAndEnd
  <2> QED BY <2>4, OneAt, Zenon
<1>8. Stream!HandleMessage(b, kind, length) = Stream!ReplyList(b, kind, length)
  <2>1. Stream!HandleMessage(b, kind, length) = Stream!HandleReply(b, kind, length)
    BY <1>7, ReplyHandled
  <2>2. Stream!HandleReply(b, kind, length) = Stream!ReplyList(b, kind, length)
    BY <1>2 DEF Stream!HandleReply
  <2> QED BY <2>1, <2>2
<1>9. DOMAIN list = 1..Len(list) /\ list = [k \in 1..Len(list) |-> list[k]]
  BY <1>1 DEF Prefix
<1> DEFINE told == [kind |-> kind, list |-> [k \in 1..Len(list) |-> EntryTold(kind, list[k])]]
<1>10. told = Stream!Told(m)
  <2>1. CASE kind = "listBreak"
    <3>1. told = [kind |-> kind, list |-> list]
      BY <1>9, <2>1 DEF EntryTold
    <3> QED BY <1>1, <2>1, <3>1 DEF Stream!Told
  <2>2. CASE kind = "callStack"
    <3>1. Stream!Told(m) = [kind |-> kind, list |-> [k \in DOMAIN list |-> Stream!ToldFrame(list[k])]]
      BY <1>1, <2>2 DEF Stream!Told
    <3>2. \A k : EntryTold(kind, list[k]) = Stream!ToldFrame(list[k])
      BY <2>2 DEF EntryTold
    <3> QED BY <1>9, <3>1, <3>2
  <2>3. CASE kind = "locals"
    <3>1. Stream!Told(m) =
            [kind |-> kind, list |-> [k \in DOMAIN list |->
                                        [name |-> list[k].name, val |-> Stream!Shown(list[k].val)]]]
      BY <1>1, <2>3 DEF Stream!Told
    <3>2. \A k : EntryTold(kind, list[k]) = [name |-> list[k].name, val |-> Stream!Shown(list[k].val)]
      BY <2>3 DEF EntryTold
    <3> QED BY <1>9, <3>1, <3>2
  <2> QED BY <1>2, <2>1, <2>2, <2>3
<1> QED BY <1>1, <1>6, <1>8, <1>10

\* Version and name of the interpreter.
LEMMA InfoArrives ==
  ASSUME NEW m, m.kind = "info", IsNumber(m.version), IsName(m.name),
         NEW b, b = Stream!DukMessage(m) \o <<Stream!EOM>>, NEW length
  PROVE  Stream!HandleMessage(b, "info", length) = Stream!Told(m)
<1>1. PICK v, f : v = m.version /\ f = m.name
  OBVIOUS
<1> DEFINE h == <<Stream!REP>>
           r == Stream!IntEncode(v)
           s == Stream!DukString(f)
           u == <<129>>
           d == ((r \o s) \o s) \o u
<1>2. v \in Nat /\ v <= 16383
  BY <1>1 DEF IsNumber
<1>3. IsName(f)
  BY <1>1
<1>4. u = Stream!IntEncode(1)
  BY DEF Stream!IntEncode
<1>5. h \in Octets /\ Len(h) = 1
  BY Openings, OneByte
<1>6. r \in Octets
  BY <1>2, NumberBytes
<1>7. s \in Octets
  BY <1>3, StringBytes
<1>8. u \in Octets
  BY OneByte DEF Byte
<1>9. \A j \in Nat \ {0} : /\ ReadsAs(b, j, "i", r, v) /\ ReadsAs(b, j, "s", s, f)
                           /\ ReadsAs(b, j, "i", u, 1)
  <2>1. b \in Octets
    <3>1. Stream!DukMessage(m) \in Octets
      <4>1. IsMessage(m)
        BY DEF IsMessage
      <4> QED BY <4>1, AtRestIsRested, MessageOver DEF Passes
    <3>2. <<Stream!EOM>> \in Octets
      BY Openings, OneByte
    <3> QED BY <3>1, <3>2, JoinedBytes
  <2> SUFFICES ASSUME NEW j \in Nat \ {0}
               PROVE /\ ReadsAs(b, j, "i", r, v) /\ ReadsAs(b, j, "s", s, f)
                     /\ ReadsAs(b, j, "i", u, 1)
    OBVIOUS
  <2>2. ReadsAs(b, j, "i", r, v)
    BY <1>2, <2>1, ReadsInt
  <2>3. ReadsAs(b, j, "s", s, f)
    BY <1>3, <2>1, ReadsString
  <2>4. ReadsAs(b, j, "i", u, 1)
    <3>1. 1 \in Nat /\ 1 <= 16383
      OBVIOUS
    <3>2. ReadsAs(b, j, "i", Stream!IntEncode(1), 1)
      BY <2>1, <3>1, ReadsInt
    <3> QED BY <1>4, <3>2
  <2> QED BY <2>2, <2>3, <2>4
<1>10. Stream!DukMessage(m) = (((h \o r) \o s) \o s) \o u
  BY <1>1 DEF Stream!DukMessage
<1> HIDE DEF h, r, s, u
<1>11. r \o s \in Octets /\ (r \o s) \o s \in Octets /\ d \in Octets
  <2>1. r \o s \in Octets
    BY <1>6, <1>7, JoinedBytes
  <2>2. (r \o s) \o s \in Octets
    BY <2>1, <1>7, JoinedBytes
  <2>3. d \in Octets
    BY <2>2, <1>8, JoinedBytes
  <2> QED BY <2>1, <2>2, <2>3
<1>12. Stream!DukMessage(m) = h \o d
  <2>1. (h \o r) \o s = h \o (r \o s)
    BY <1>5, <1>6, <1>7, Assoc
  <2>2. (h \o (r \o s)) \o s = h \o ((r \o s) \o s)
    BY <1>5, <1>7, <1>11, Assoc
  <2>3. (h \o ((r \o s) \o s)) \o u = h \o d
    BY <1>5, <1>8, <1>11, Assoc
  <2> QED BY <1>10, <2>1, <2>2, <2>3
<1>13. b \in Octets /\ At(b, 1, h) /\ At(b, 2, d)
  <2> HIDE DEF d
  <2>1. b = (h \o d) \o <<Stream!EOM>>
    BY <1>12
  <2>2. b \in Octets /\ At(b, 1, h) /\ At(b, 1 + Len(h), d)
    BY <1>5, <1>11, <2>1, PartsAndEnd
  <2>3. 1 + Len(h) = 2
    BY <1>5
  <2> QED BY <2>2, <2>3
<1>14. b[1] = Stream!REP
  BY <1>13, OneAt, Zenon DEF h
<1>15. 2 \in Nat \ {0} /\ 2 + Len(r) \in Nat \ {0} /\ 2 + Len(r \o s) \in Nat \ {0}
       /\ 2 + Len((r \o s) \o s) \in Nat \ {0}
  <2>1. Len(r) \in Nat /\ Len(r \o s) \in Nat /\ Len((r \o s) \o s) \in Nat
    BY <1>6, <1>11, LenProperties DEF Octets
  <2> QED BY <2>1
<1>16. Stream!UnmarshalBuffer(b, 2, <<"i", "s", "s", "i">>) = Got(<<v, f, f, 1>>, 2 + Len(d))
  <2>1. /\ ReadsAs(b, 2, "i", r, v) /\ ReadsAs(b, 2 + Len(r), "s", s, f)
        /\ ReadsAs(b, 2 + Len(r \o s), "s", s, f) /\ ReadsAs(b, 2 + Len((r \o s) \o s), "i", u, 1)
    BY <1>9, <1>15, Zenon
  <2>2. Fourfold(b, 2, r, s, s, u, "i", "s", "s", "i", v, f, f, 1, 2 + Len(d))
    BY <1>6, <1>7, <1>8, <1>13, <1>15, <2>1, Zenon DEF Fourfold
  <2> QED BY <2>2, ReadsFour
<1>17. Stream!ReplyBasicInfo(b) = [kind |-> "info", version |-> v % 256, name |-> f]
  <2> DEFINE vs == <<v, f, f, 1>>
  <2>1. vs[1] = v /\ vs[2] = f
    OBVIOUS
  <2> HIDE DEF vs
  <2>2. Stream!UnmarshalBuffer(b, 2, <<"i", "s", "s", "i">>).vals = vs
    BY <1>16 DEF Got, vs
  <2> QED BY <2>1, <2>2, Zenon DEF Stream!ReplyBasicInfo
<1>18. Stream!HandleMessage(b, "info", length) = Stream!ReplyBasicInfo(b)
  <2>1. Stream!HandleMessage(b, "info", length) = Stream!HandleReply(b, "info", length)
    BY <1>14, ReplyHandled
  <2>2. Stream!HandleReply(b, "info", length) = Stream!ReplyBasicInfo(b)
    BY DEF Stream!HandleReply
  <2> QED BY <2>1, <2>2
<1>19. Stream!Told(m) = [kind |-> "info", version |-> v % 256, name |-> f]
  BY <1>1 DEF Stream!Told
<1> QED BY <1>17, <1>18, <1>19

LEMMA SmallBytes ==
  \A n \in {0, 1} : 128 \in Byte /\ 129 \in Byte /\ 128 + n \in Byte
BY DEF Byte

LEMMA TwoInARow ==
  ASSUME NEW x \in Byte, NEW y \in Byte
  PROVE  <<x>> \o <<y>> = <<x, y>> /\ <<x>> \in Octets /\ <<y>> \in Octets
BY Tuples

\* A notification starts with two integers, the second one its state.
NoticeAt(b, n) ==
  /\ b \in Octets /\ n \in {0, 1} /\ Len(b) >= 3
  /\ b[1] = Stream!NFY /\ b[2] = 129 /\ b[3] = 128 + n

LEMMA NoticeRead ==
  ASSUME NEW b, NEW n, NoticeAt(b, n)
  PROVE  Stream!UnmarshalBuffer(b, 2, <<"i", "i">>) = Got(<<1, n>>, 4)
<1>0. b \in Octets /\ n \in {0, 1} /\ b[2] = 129 /\ b[3] = 128 + n /\ Len(b) >= 3
  BY DEF NoticeAt
<1> DEFINE r == Stream!IntEncode(1)
           s == Stream!IntEncode(n)
<1>1. r = <<129>> /\ s = <<128 + n>>
  <2>1. n <= 63
    BY <1>0
  <2>2. s = <<128 + n>>
    BY <2>1 DEF Stream!IntEncode
  <2>3. r = <<129>>
    BY DEF Stream!IntEncode
  <2> QED BY <2>2, <2>3
<1>2. 129 \in Byte /\ 128 + n \in Byte
  BY <1>0, SmallBytes
<1>3. r \o s = <<129, 128 + n>> /\ r \in Octets /\ s \in Octets
  <2> DEFINE x == 129
             y == 128 + n
  <2>1. r = <<x>> /\ s = <<y>> /\ x \in Byte /\ y \in Byte
    BY <1>1, <1>2
  <2> HIDE DEF r, s, x, y
  <2>2. r \o s = <<x, y>> /\ r \in Octets /\ s \in Octets
    BY <2>1, TwoInARow, Zenon
  <2> QED BY <2>2 DEF x, y
<1>4. Len(r) = 1 /\ Len(r \o s) = 2 /\ (r \o s)[1] = 129 /\ (r \o s)[2] = 128 + n
  <2>1. Len(<<129, 128 + n>>) = 2 /\ <<129, 128 + n>>[1] = 129 /\ <<129, 128 + n>>[2] = 128 + n
    BY <1>2, TwoBytes
  <2>2. Len(r) = 1
    BY <1>1
  <2> HIDE DEF r, s
  <2> QED BY <1>3, <2>1, <2>2
<1>5. 2 \in Nat \ {0} /\ 3 \in Nat \ {0} /\ 1 \in Nat /\ n \in Nat /\ 1 <= 16383 /\ n <= 16383
  BY <1>0
<1>6. ReadsAs(b, 2, "i", r, 1)
  BY <1>0, <1>5, ReadsInt
<1>7. ReadsAs(b, 3, "i", s, n)
  BY <1>0, <1>5, ReadsInt
<1> HIDE DEF r, s
<1>8. At(b, 2, r \o s)
  <2> DEFINE w == r \o s
  <2>1. Len(w) = 2 /\ w[1] = 129 /\ w[2] = 128 + n
    BY <1>4
  <2> HIDE DEF w
  <2>2. At(b, 2, w)
    <3>1. 2 + Len(w) - 1 <= Len(b)
      <4>1. Len(b) \in Nat
        BY <1>0, LenProperties DEF Octets
      <4> QED BY <1>0, <2>1, <4>1
    <3>2. b[2 + 1 - 1] = w[1] /\ b[2 + 2 - 1] = w[2]
      BY <1>0, <2>1
    <3>3. \A k \in 1..Len(w) : k = 1 \/ k = 2
      BY <2>1
    <3> QED BY <3>1, <3>2, <3>3 DEF At
  <2> QED BY <2>2 DEF w
<1>9. 2 + Len(r) = 3 /\ 2 + Len(r \o s) = 4
  BY <1>4
<1>11. ReadsAs(b, 2 + Len(r), "i", s, n) /\ 4 = 2 + Len(r \o s)
  BY <1>7, <1>9
<1>10. Twofold(b, 2, r, s, "i", "i", 1, n, 4)
  BY <1>0, <1>3, <1>5, <1>6, <1>8, <1>11 DEF Twofold
<1> QED BY <1>10, ReadsTwo

LEMMA NoticeHandled ==
  ASSUME NEW b, NEW n, NoticeAt(b, n), NEW kind, NEW length
  PROVE  Stream!HandleMessage(b, kind, length) =
           IF b[4] = Stream!UNDEFINED THEN [kind |-> "idle", state |-> n]
           ELSE [kind |-> "status", state |-> n,
                 at |-> Stream!ShownFrame(
                          Stream!UnmarshalBuffer(b, 4, <<"s", "s", "i", "i">>).vals)]
<1> DEFINE st == Stream!UnmarshalBuffer(b, 2, <<"i", "i">>)
           vs == <<1, n>>
<1>1. vs[2] = n
  OBVIOUS
<1> HIDE DEF vs
<1>2. st.pos = 4 /\ st.vals = vs
  <2>1. st = Got(vs, 4)
    BY NoticeRead DEF vs
  <2> HIDE DEF st
  <2> QED BY <2>1 DEF Got
<1>3. Stream!HandleMessage(b, kind, length) = Stream!HandleNotification(b)
  <2>1. b[1] = Stream!NFY
    BY DEF NoticeAt
  <2> QED BY <2>1, Openings DEF Stream!HandleMessage
<1>4. Stream!HandleNotification(b) =
        IF b[st.pos] = Stream!UNDEFINED THEN [kind |-> "idle", state |-> st.vals[2]]
        ELSE [kind |-> "status", state |-> st.vals[2],
              at |-> Stream!ShownFrame(
                       Stream!UnmarshalBuffer(b, st.pos, <<"s", "s", "i", "i">>).vals)]
  BY DEF Stream!HandleNotification
<1> HIDE DEF st
<1> QED BY <1>1, <1>2, <1>3, <1>4, Zenon

\* Between two scripts.
LEMMA IdleArrives ==
  ASSUME NEW m, m.kind = "idle", m.state \in {0, 1}, m = [kind |-> "idle", state |-> m.state],
         NEW b, b = Stream!DukMessage(m) \o <<Stream!EOM>>, NEW kind, NEW length
  PROVE  Stream!HandleMessage(b, kind, length) = Stream!Told(m)
<1>1. PICK n \in {0, 1} : n = m.state
  OBVIOUS
<1> DEFINE h == <<Stream!NFY, 129, 128 + n, Stream!UNDEFINED, Stream!UNDEFINED, 128, 128>>
           s == <<Stream!EOM>>
<1>2. Stream!DukMessage(m) = h
  BY <1>1 DEF Stream!DukMessage
<1>3. /\ h \in Octets /\ Len(h) = 7 /\ h[1] = Stream!NFY /\ h[2] = 129 /\ h[3] = 128 + n
      /\ h[4] = Stream!UNDEFINED
  <2>1. Stream!NFY \in Byte /\ Stream!UNDEFINED \in Byte /\ 128 \in Byte /\ 129 \in Byte /\ 128 + n \in Byte
    BY Openings, SmallBytes
  <2>2. h \in Octets
    BY <2>1 DEF Octets
  <2> QED BY <2>2
<1>4. s \in Octets
  BY Openings, OneByte
<1> HIDE DEF h, s
<1>5. b = h \o s
  BY <1>2 DEF s
<1>6. b \in Octets /\ Len(b) = Len(h) + Len(s) /\ Len(s) \in Nat /\ \A i \in 1..Len(h) : b[i] = h[i]
  <2>1. /\ h \o s \in Octets /\ Len(h \o s) = Len(h) + Len(s) /\ Len(s) \in Nat
        /\ \A i \in 1..Len(h) : (h \o s)[i] = h[i]
    <3>1. h \in Octets /\ s \in Octets
      BY <1>3, <1>4
    <3> QED BY <3>1, JoinedBytes
  <2> QED BY <1>5, <2>1
<1>7. /\ b[1] = Stream!NFY /\ b[2] = 129 /\ b[3] = 128 + n /\ b[4] = Stream!UNDEFINED
      /\ Len(b) >= 3
  <2>1. 1 \in 1..Len(h) /\ 2 \in 1..Len(h) /\ 3 \in 1..Len(h) /\ 4 \in 1..Len(h)
    BY <1>3
  <2>2. b[1] = h[1] /\ b[2] = h[2] /\ b[3] = h[3] /\ b[4] = h[4]
    BY <1>6, <2>1
  <2> QED BY <1>3, <1>6, <2>2
<1>8. Stream!HandleMessage(b, kind, length) = [kind |-> "idle", state |-> n]
  <2>1. NoticeAt(b, n)
    BY <1>6, <1>7 DEF NoticeAt
  <2>2. Stream!HandleMessage(b, kind, length) =
           IF b[4] = Stream!UNDEFINED THEN [kind |-> "idle", state |-> n]
           ELSE [kind |-> "status", state |-> n,
                 at |-> Stream!ShownFrame(
                          Stream!UnmarshalBuffer(b, 4, <<"s", "s", "i", "i">>).vals)]
    BY <2>1, NoticeHandled
  <2> QED BY <1>7, <2>2
<1>9. Stream!Told(m) = m
  BY DEF Stream!Told
<1> QED BY <1>1, <1>8, <1>9

\* Where a script is.
LEMMA StatusArrives ==
  ASSUME NEW m, m.kind = "status", m.state \in {0, 1}, IsFrame(m.at),
         NEW b, b = Stream!DukMessage(m) \o <<Stream!EOM>>, NEW kind, NEW length
  PROVE  Stream!HandleMessage(b, kind, length) = Stream!Told(m)
<1>1. PICK n, f : n = m.state /\ f = m.at
  OBVIOUS
<1>2. n \in {0, 1} /\ IsFrame(f)
  BY <1>1
<1> DEFINE h == <<Stream!NFY, 129, 128 + n>>
           d == Stream!DukFrame(f)
<1>3. Stream!DukMessage(m) = h \o d
  BY <1>1 DEF Stream!DukMessage
<1>4. h \in Octets /\ Len(h) = 3
  <2>1. Stream!NFY \in Byte /\ 129 \in Byte /\ 128 + n \in Byte
    BY <1>2, Openings, SmallBytes
  <2> QED BY <2>1 DEF Octets
<1>5. d \in Octets
  BY <1>2, AtRestIsRested, RestedIsReady, FrameOver DEF Rests
<1>6. b \in Octets /\ At(b, 1, h) /\ At(b, 4, d)
  <2> HIDE DEF d, h
  <2>1. b = (h \o d) \o <<Stream!EOM>>
    BY <1>3
  <2>2. b \in Octets /\ At(b, 1, h) /\ At(b, 1 + Len(h), d)
    BY <1>4, <1>5, <2>1, PartsAndEnd
  <2>3. 1 + Len(h) = 4
    BY <1>4
  <2> QED BY <2>2, <2>3
<1>7. b[1] = Stream!NFY /\ b[2] = 129 /\ b[3] = 128 + n /\ Len(b) >= 3
  <2>1. b[1] = Stream!NFY /\ b[2] = 129 /\ b[3] = 128 + n
    <3> DEFINE x == 128 + n
               y == 129
    <3>1. At(b, 1, <<Stream!NFY, y, x>>)
      BY <1>6
    <3> HIDE DEF x, y
    <3>2. b[1] = Stream!NFY /\ b[2] = y /\ b[3] = x
      BY <3>1, ThreeAt, Zenon
    <3> QED BY <3>2 DEF x, y
  <2>2. Len(b) >= 3
    <3> HIDE DEF h
    <3>1. 1 + Len(h) - 1 <= Len(b) /\ Len(b) \in Nat
      BY <1>6, LenProperties DEF At, Octets
    <3> QED BY <1>4, <3>1
  <2> QED BY <2>1, <2>2
<1> HIDE DEF h
<1>8. 4 \in Nat \ {0} /\ At(b, 4, Stream!DukFrame(f))
  BY <1>6
<1>9. /\ Stream!UnmarshalBuffer(b, 4, <<"s", "s", "i", "i">>) =
           [vals |-> <<f.file, f.func, f.line, f.pc>>, pos |-> 4 + Len(Stream!DukFrame(f))]
      /\ Stream!ShownFrame(<<f.file, f.func, f.line, f.pc>>) = Stream!ToldFrame(f)
      /\ b[4] = 96 + Len(f.file)
  BY <1>2, <1>6, <1>8, FrameRead
<1>10. b[4] # Stream!UNDEFINED
  <2>1. Len(f.file) \in Nat
    BY <1>2, NameLength DEF IsFrame
  <2>2. \A l \in Nat : 96 + l # 22
    OBVIOUS
  <2>3. 96 + Len(f.file) # 22
    BY <2>1, <2>2
  <2> QED BY <1>9, <2>3, Zenon DEF Stream!UNDEFINED
<1>11. Stream!ShownFrame(Stream!UnmarshalBuffer(b, 4, <<"s", "s", "i", "i">>).vals) = Stream!ToldFrame(f)
  <2> DEFINE vs == <<f.file, f.func, f.line, f.pc>>
  <2>1. Stream!UnmarshalBuffer(b, 4, <<"s", "s", "i", "i">>).vals = vs
    <3> HIDE DEF vs
    <3>1. Stream!UnmarshalBuffer(b, 4, <<"s", "s", "i", "i">>) =
            [vals |-> vs, pos |-> 4 + Len(Stream!DukFrame(f))]
      BY <1>9 DEF vs
    <3> QED BY <3>1
  <2> QED BY <1>9, <2>1, Zenon
<1>12. Stream!HandleMessage(b, kind, length) =
         [kind |-> "status", state |-> n, at |-> Stream!ToldFrame(f)]
  <2>1. NoticeAt(b, n)
    BY <1>2, <1>6, <1>7 DEF NoticeAt
  <2>2. Stream!HandleMessage(b, kind, length) =
           IF b[4] = Stream!UNDEFINED THEN [kind |-> "idle", state |-> n]
           ELSE [kind |-> "status", state |-> n,
                 at |-> Stream!ShownFrame(
                          Stream!UnmarshalBuffer(b, 4, <<"s", "s", "i", "i">>).vals)]
    BY <2>1, NoticeHandled
  <2> QED BY <1>10, <1>11, <2>2, Zenon
<1>13. Stream!Told(m) = [kind |-> "status", state |-> n, at |-> Stream!ToldFrame(f)]
  BY <1>1 DEF Stream!Told
<1> QED BY <1>12, <1>13

\* An error, and a reply without values.
LEMMA ErrorArrives ==
  ASSUME NEW m, m.kind = "error", IsName(m.name),
         NEW b, b = Stream!DukMessage(m) \o <<Stream!EOM>>, NEW kind, NEW length
  PROVE  Stream!HandleMessage(b, kind, length) = Stream!Told(m)
<1> DEFINE h == <<Stream!ERR, 129>>
           d == Stream!DukString(m.name)
<1>1. h \in Octets
  <2>1. 129 \in Byte
    BY DEF Byte
  <2> QED BY <2>1, Openings, TwoBytes
<1>2. d \in Octets
  BY StringBytes
<1>3. b = (h \o d) \o <<Stream!EOM>>
  BY DEF Stream!DukMessage
<1> HIDE DEF d
<1>4. At(b, 1, h)
  <2> HIDE DEF h
  <2> QED BY <1>1, <1>2, <1>3, PartsAndEnd
<1>5. b[1] = Stream!ERR
  <2> DEFINE y == 129
  <2>1. At(b, 1, <<Stream!ERR, y>>)
    BY <1>4
  <2> HIDE DEF y
  <2> QED BY <2>1, TwoAt, Zenon
<1>6. Stream!HandleMessage(b, kind, length) = [kind |-> "error"]
  BY <1>5, Openings DEF Stream!HandleMessage
<1>7. Stream!Told(m) = [kind |-> "error"]
  BY DEF Stream!Told
<1> QED BY <1>6, <1>7

LEMMA SimpleArrives ==
  ASSUME NEW m, m = [kind |-> "simple"],
         NEW b, b = Stream!DukMessage(m) \o <<Stream!EOM>>, NEW length,
         NEW kind, kind \notin {"getVar", "eval", "listBreak", "callStack", "locals", "info"}
  PROVE  Stream!HandleMessage(b, kind, length) = Stream!Told(m)
<1>1. b = <<Stream!REP>> \o <<Stream!EOM>>
  BY DEF Stream!DukMessage
<1>2. b[1] = Stream!REP
  <2>1. <<Stream!REP>> \in Octets /\ <<Stream!EOM>> \in Octets /\ Len(<<Stream!REP>>) = 1
        /\ <<Stream!REP>>[1] = Stream!REP
    BY Openings, OneByte
  <2>2. 1 \in 1..Len(<<Stream!REP>>)
    BY <2>1
  <2> DEFINE h == <<Stream!REP>>
             s == <<Stream!EOM>>
  <2>4. h \in Octets /\ s \in Octets /\ b = h \o s /\ 1 \in 1..Len(h)
    BY <1>1, <2>1, <2>2
  <2> HIDE DEF h, s
  <2>5. \A i \in 1..Len(h) : (h \o s)[i] = h[i]
    BY <2>4, JoinedBytes
  <2>3. b[1] = h[1]
    BY <2>4, <2>5
  <2> USE DEF h
  <2> QED BY <2>1, <2>3
<1>3. Stream!HandleMessage(b, kind, length) = Stream!HandleReply(b, kind, length)
  BY <1>2, ReplyHandled
<1>4. Stream!HandleReply(b, kind, length) = [kind |-> "simple"]
  BY DEF Stream!HandleReply
<1>5. Stream!Told(m) = m
  BY DEF Stream!Told
<1> QED BY <1>3, <1>4, <1>5

\* Every message.
LEMMA MessageArrives ==
  ASSUME MaxList \in Nat, NEW m, IsMessage(m), NEW kind,
         \/ m.kind \in {"error", "idle", "status"}
         \/ m.kind = kind
         \/ /\ m.kind = "simple"
            /\ kind \notin {"getVar", "eval", "listBreak", "callStack", "locals", "info"}
  PROVE  Stream!HandleMessage(Stream!DukMessage(m) \o <<Stream!EOM>>, kind,
                              Len(Stream!DukMessage(m))) = Stream!Told(m)
<1>1. PICK b, length : /\ b = Stream!DukMessage(m) \o <<Stream!EOM>>
                       /\ length = Len(Stream!DukMessage(m))
  OBVIOUS
<1> SUFFICES Stream!HandleMessage(b, kind, length) = Stream!Told(m)
  BY <1>1
<1>2. CASE m.kind \in {"getVar", "eval"} /\ m.good \in BOOLEAN /\ IsValue(m.val)
  <2>1. Stream!HandleMessage(b, m.kind, length) = Stream!Told(m)
    <3>1. ValueSent(m, b)
      BY <1>1, <1>2 DEF ValueSent
    <3> QED BY <3>1, ValueArrives
  <2>2. m.kind = kind
    BY <1>2
  <2> QED BY <2>1, <2>2
<1>3. CASE /\ m.kind \in {"listBreak", "callStack", "locals"}
           /\ Len(m.list) \in 0..MaxList /\ m.list = Prefix(m.list, Len(m.list))
           /\ \A k \in 1..Len(m.list) : IsEntry(m.kind, m.list[k])
           /\ m.kind = "listBreak" => m = [kind |-> m.kind, list |-> m.list]
  <2>1. Stream!HandleMessage(b, m.kind, length) = Stream!Told(m)
    <3>1. MessageSent(m, b, length)
      BY <1>1, <1>3 DEF MessageSent
    <3> QED BY <3>1, ListArrivesAsTold
  <2>2. m.kind = kind
    BY <1>3
  <2> QED BY <2>1, <2>2
<1>4. CASE m.kind = "info" /\ IsNumber(m.version) /\ IsName(m.name)
  <2>1. Stream!HandleMessage(b, "info", length) = Stream!Told(m)
    BY <1>1, <1>4, InfoArrives
  <2>2. kind = "info"
    BY <1>4
  <2> QED BY <2>1, <2>2
<1>5. CASE m.kind = "error" /\ IsName(m.name)
  BY <1>1, <1>5, ErrorArrives
<1>6. CASE m.kind = "idle" /\ m.state \in {0, 1} /\ m = [kind |-> "idle", state |-> m.state]
  BY <1>1, <1>6, IdleArrives
<1>7. CASE m.kind = "status" /\ m.state \in {0, 1} /\ IsFrame(m.at)
  BY <1>1, <1>7, StatusArrives
<1>8. CASE m = [kind |-> "simple"]
  <2>1. m.kind = "simple"
    BY <1>8
  <2>2. kind \notin {"getVar", "eval", "listBreak", "callStack", "locals", "info"}
    BY <2>1
  <2> QED BY <1>1, <1>8, <2>2, SimpleArrives
<1> QED BY <1>2, <1>3, <1>4, <1>5, <1>6, <1>7, <1>8 DEF IsMessage

-----------------------------------------------------------------------------
(* The streams on the target                                               *)

LEMMA StreamTypes ==
  ASSUME RequestInv, StreamInv
  PROVE  Stream!TypeOK
<1>1. call \in Calls \union {Stream!NoCall} /\ read \in Seq(0..255) /\ taken \in Seq(0..255)
  BY DEF RequestInv, Octets, Byte
<1>2. rest \in Seq(0..255) /\ buf \in Seq(0..255)
  BY DEF StreamInv, Octets, Byte
<1>3. parse \in [nextChunk : Nat, lastType : 0..255, curTypePos : -1..4, internal : Nat,
                 msgLength : Nat, stuck : BOOLEAN]
  <2>1. parse \in States
    BY DEF StreamInv
  <2> QED BY <2>1 DEF States, Byte, Pos
<1> QED BY <1>1, <1>2, <1>3 DEF Stream!TypeOK

\* The invariant of the streams.
StreamsInv == RequestInv /\ StreamInv /\ Stream!RepliesArrive

LEMMA StreamsStart == TargetInit => StreamsInv
<1> SUFFICES ASSUME TargetInit PROVE StreamsInv
  OBVIOUS
<1>1. Stream!Init
  BY DEF TargetInit
<1>2. Stream!RepliesArrive
  BY <1>1 DEF Stream!Init, Stream!RepliesArrive, Stream!Nothing
<1> QED BY <1>1, <1>2, StreamStart DEF StreamsInv

LEMMA StreamsSame ==
  ASSUME StreamsInv, UNCHANGED streamVars
  PROVE  StreamsInv'
BY DEF StreamsInv, RequestInv, Requested, StreamInv, Replying, Stream!RepliesArrive, streamVars

\* The message that ends arrives as it was sent.
LEMMA EndArrives ==
  ASSUME StreamAssumption, StreamInv, Stream!WriteEnd
  PROVE  Stream!RepliesArrive'
<1>1. /\ Replying
      /\ heard' = [sent |-> reply,
                   shown |-> Stream!HandleMessage(Stream!DukMessage(reply) \o <<Stream!EOM>>,
                               call.kind, Len(Stream!DukMessage(reply)))]
  BY EndWritten
<1>2. PICK m, kind : m = reply /\ kind = call.kind
  OBVIOUS
<1>3. /\ IsMessage(m)
      /\ \/ m.kind \in {"error", "idle", "status"}
         \/ m.kind = kind
         \/ /\ m.kind = "simple"
            /\ kind \notin {"getVar", "eval", "listBreak", "callStack", "locals", "info"}
  <2>1. CASE m \in Stream!Errors \union Stream!Notifications
    BY <2>1, NoticeIsMessage
  <2>2. CASE m \in Stream!Answers(call)
    BY <1>2, <2>2, AnswerIsMessage
  <2> QED BY <1>1, <1>2, <2>1, <2>2 DEF Replying
<1>4. MaxList \in Nat
  BY DEF StreamAssumption
<1>5. Stream!HandleMessage(Stream!DukMessage(m) \o <<Stream!EOM>>, kind,
                           Len(Stream!DukMessage(m))) = Stream!Told(m)
  BY <1>3, <1>4, MessageArrives
<1>6. heard' = [sent |-> m, shown |-> Stream!Told(m)]
  BY <1>1, <1>2, <1>5
<1> QED BY <1>6 DEF Stream!RepliesArrive

LEMMA ArrivesStep ==
  ASSUME StreamAssumption, StreamInv, Stream!RepliesArrive, Stream!Next
  PROVE  Stream!RepliesArrive'
<1>1. heard' = heard => Stream!RepliesArrive'
  BY DEF Stream!RepliesArrive
<1>2. CASE Stream!DebugMsgUnmarshal
  BY <1>1, <1>2 DEF Stream!DebugMsgUnmarshal
<1>3. CASE Stream!DebuggerRead
  BY <1>1, <1>3 DEF Stream!DebuggerRead
<1>4. CASE Stream!DukSends
  BY <1>4 DEF Stream!DukSends, Stream!RepliesArrive, Stream!Nothing
<1>5. CASE Stream!DebuggerWrite
  BY <1>1, <1>5, PieceWritten
<1>6. CASE Stream!WriteEnd
  BY <1>6, EndArrives
<1> QED BY <1>2, <1>3, <1>4, <1>5, <1>6 DEF Stream!Next

LEMMA StreamsStep == StreamAssumption /\ StreamsInv /\ [TargetNext]_allVars => StreamsInv'
<1> SUFFICES ASSUME StreamAssumption, StreamsInv, [TargetNext]_allVars PROVE StreamsInv'
  OBVIOUS
<1>1. CASE Stream!Next
  <2>1. StreamInv /\ RequestInv /\ Stream!RepliesArrive
    BY DEF StreamsInv
  <2> QED BY <1>1, <2>1, RequestStep, StreamStep, ArrivesStep DEF StreamsInv
<1>2. CASE UNCHANGED streamVars
  BY <1>2, StreamsSame
<1>3. UNCHANGED allVars => UNCHANGED streamVars
  BY DEF allVars
<1> QED BY <1>1, <1>2, <1>3 DEF TargetNext

\* In whatever pieces the interpreter reads a request of the console, it understands
\* the file, line, variable and value that were given (DebuggerRead): the bytes that
\* the target encodes decode to them.
THEOREM RequestsAreUnderstood == TargetSpec => []RequestsArrive
<1>1. StreamsInv => RequestsArrive
  <2>1. ASSUME StreamsInv, call # Stream!NoCall, read = <<>> PROVE asked = Stream!Asked(call)
    <3>1. call \in Calls /\ Requested # <<>> /\ asked = Stream!DukRequest(Requested)
      BY <2>1 DEF StreamsInv, RequestInv
    <3>2. IsCall(call)
      BY <3>1, StreamAssumption DEF StreamAssumption
    <3> QED BY <3>1, <3>2, CallUnderstood DEF Requested
  <2> QED BY <2>1 DEF RequestsArrive, Stream!RequestsArrive
<1> QED BY <1>1, StreamsStart, StreamsStep, StreamAssumption, PTL DEF TargetSpec

\* The scanner of DebuggerWrite never meets a byte that it does not know, wherever the
\* interpreter cuts its messages, and is at rest with an empty buffer between them.
THEOREM StreamsStayInStep == TargetSpec => []StreamInStep
<1>1. StreamsInv => StreamInStep
  <2>1. ASSUME StreamsInv PROVE StreamInStep
    <3>1. parse \in States /\ parse.msgLength = Len(buf)
          /\ (reply = Stream!NoReply => buf = <<>> /\ Rested(parse))
      BY <2>1 DEF StreamsInv, StreamInv
    <3>2. Len(<<>>) = 0
      OBVIOUS
    <3> QED BY <3>1, <3>2 DEF States, Rested, StreamInStep, Stream!StreamInStep
  <2> QED BY <2>1
<1> QED BY <1>1, StreamsStart, StreamsStep, StreamAssumption, PTL DEF TargetSpec

\* What the console is told of a message that has ended is what the interpreter sent: every
\* value with its type and bytes, every entry of a list (AJS_DebuggerHandleMessage), for
\* values of every type and length that the scanner takes.
THEOREM RepliesAreTold == TargetSpec => []RepliesArrive
<1>1. StreamsInv => RepliesArrive
  BY DEF StreamsInv, RepliesArrive
<1> QED BY <1>1, StreamsStart, StreamsStep, StreamAssumption, PTL DEF TargetSpec

\* What the target does in its sessions is a behaviour of Debugger, and what goes through
\* its streams is one of DebugStream: all that is proved of the debugger (DebuggerProofs)
\* holds of the target.
THEOREM SessionsOnTarget == TargetSpec => Spec
<1>1. TargetInit => Init
  BY DEF TargetInit
<1>2. [TargetNext]_allVars => [Next]_vars
  BY DEF TargetNext, allVars
<1> QED BY <1>1, <1>2, PTL DEF TargetSpec, Spec

THEOREM StreamsOnTarget == TargetSpec => Stream!Spec
<1>1. TargetInit => Stream!Init
  BY DEF TargetInit
<1>2. [TargetNext]_allVars => [Stream!Next]_Stream!vars
  BY DEF TargetNext, allVars, streamVars, Stream!vars
<1> QED BY <1>1, <1>2, PTL DEF TargetSpec, Stream!Spec

\* Every variable of the sessions and of the streams keeps its type.
THEOREM TargetTypes == TargetSpec => []TypesOK
<1>1. StreamsInv => Stream!TypeOK
  BY StreamTypes DEF StreamsInv
<1>2. TargetSpec => []StreamsInv
  BY StreamsStart, StreamsStep, StreamAssumption, PTL DEF TargetSpec
<1>3. TypeOK /\ Stream!TypeOK => TypesOK
  BY DEF TypesOK
<1> QED BY <1>1, <1>2, <1>3, SessionsOnTarget, TypeCorrect, PTL
=============================================================================
