-------------------------- MODULE StreamCodecProofs -------------------------
(***************************************************************************)
(* Lemmas about the codec: the messages a connection has handled are those *)
(* the client sent, however the bytes are cut.                             *)
(***************************************************************************)
EXTENDS StreamCodec, SequenceProofs

(* The bytes after which decode finds a message to end. *)
Ends(sep) ==
  {s \in Seq(Byte) : IF sep = Empty THEN EndsMessage(s) ELSE s # <<>> /\ s[Len(s)] = sep}

(* decode takes the shortest beginning of the buffer that ends a message. *)
LEMMA MessageEndIs ==
  ASSUME NEW buf \in Seq(Byte), NEW sep
  PROVE  MessageEnd(buf, sep) = FirstEnd(buf, Ends(sep))
<1>. DEFINE found == {n \in 1 .. Len(buf) : IF sep = Empty THEN EndsMessage(SubSeq(buf, 1, n))
                                            ELSE buf[n] = sep}
<1>1. ASSUME NEW n \in 1 .. Len(buf)
      PROVE  /\ SubSeq(buf, 1, n) \in Seq(Byte) /\ Len(SubSeq(buf, 1, n)) = n
             /\ SubSeq(buf, 1, n)[n] = buf[n] /\ SubSeq(buf, 1, n) # <<>>
  OBVIOUS
<1>2. \A n \in 1 .. Len(buf) : SubSeq(buf, 1, n) \in Ends(sep)
        <=> IF sep = Empty THEN EndsMessage(SubSeq(buf, 1, n)) ELSE buf[n] = sep
  BY <1>1, Zenon DEF Ends
<1>3. EndsIn(buf, Ends(sep)) = found
  BY <1>2, Zenon DEF EndsIn
<1>4. MessageEnd(buf, sep) = LeastOf(found)
  BY Zenon DEF MessageEnd, LeastOf
<1>. HIDE DEF found
<1>. QED  BY <1>3, <1>4, Zenon DEF FirstEnd

(* A message and what follows it in a buffer. *)
Unframed(e, m, x, sep) ==
  /\ e \in Seq(Byte)
  /\ SubSeq(Cat(e, x), 1, IF sep = Empty THEN Len(e) ELSE Len(e) - 1) = m
  /\ SubSeq(Cat(e, x), Len(e) + 1, Len(Cat(e, x))) = x

LEMMA Unframe ==
  ASSUME NEW m \in Seq(Byte), NEW x \in Seq(Byte), NEW sep \in Byte \union {Empty},
         NEW e, e = encode(m, sep)
  PROVE  Unframed(e, m, x, sep)
<1>. USE DEF Unframed
<1>1. CASE sep = Empty
  <2>1. e = m
    BY <1>1, Zenon DEF encode
  <2>2. Splits(m, x)
    BY CatSplits, Zenon
  <2>. QED  BY <1>1, <2>1, <2>2, Zenon DEF Splits
<1>2. CASE sep # Empty
  <2>1. e = Append(m, sep) /\ sep \in Byte
    BY <1>2, Zenon DEF encode
  <2>2. e \in Seq(Byte) /\ Len(e) - 1 = Len(m) /\ Len(e) = Len(m) + 1 /\ Len(m) \in Nat
    BY <2>1, AppendProperties
  <2>3. /\ \A n \in 1 .. Len(e) : SubSeq(Cat(e, x), 1, n) = SubSeq(e, 1, n)
        /\ SubSeq(Cat(e, x), Len(e) + 1, Len(Cat(e, x))) = x
    <3>1. Splits(e, x)
      BY <2>2, CatSplits, Zenon
    <3>. QED  BY <3>1, Zenon DEF Splits
  <2>4. SubSeq(Cat(e, x), 1, Len(m)) = m
    <3>1. CASE Len(m) = 0
      BY <3>1
    <3>2. CASE Len(m) # 0
      <4>1. SubSeq(Cat(e, x), 1, Len(m)) = SubSeq(e, 1, Len(m))
        <5>1. Len(m) \in 1 .. Len(e)
          BY <2>2, <3>2
        <5>. QED  BY <2>3, <5>1, Zenon
      <4>2. SubSeq(e, 1, Len(m)) = m
        BY <2>1
      <4>. QED  BY <4>1, <4>2, Zenon
    <3>. QED  BY <3>1, <3>2, Zenon
  <2>5. SubSeq(Cat(e, x), 1, IF sep = Empty THEN Len(e) ELSE Len(e) - 1) = m
    BY <1>2, <2>2, <2>4
  <2>. QED  BY <2>2, <2>3, <2>5, Zenon
<1>. QED  BY <1>1, <1>2, Zenon

(* What decode returns, by what ends the buffer's first message. *)
DecodesTo(d, buf, sep, end) ==
  /\ end = 0 => d.message = Nothing /\ ~d.error /\ d.rest = buf
  /\ \A m \in Seq(Byte), x \in Seq(Byte) :
       end # 0 /\ end = Len(encode(m, sep)) /\ buf = Cat(encode(m, sep), x) =>
         /\ d.rest = x
         /\ Utf8(m) => d.message = m /\ ~d.error
         /\ ~Utf8(m) => d.message = Nothing /\ (d.error <=> sep # Empty)

LEMMA DecodeIs ==
  ASSUME NEW buf \in Seq(Byte), NEW sep \in Byte \union {Empty}
  PROVE  DecodesTo(decode(buf, sep), buf, sep, MessageEnd(buf, sep))
<1>. DEFINE d == decode(buf, sep)
            end == MessageEnd(buf, sep)
            line == SubSeq(buf, 1, IF sep = Empty THEN end ELSE end - 1)
            rest == SubSeq(buf, end + 1, Len(buf))
<1>1. end = 0 => d = [message |-> Nothing, rest |-> buf, error |-> FALSE]
  BY Zenon DEF decode, Decoded
<1>2. end # 0 => d = IF Utf8(line) THEN [message |-> line, rest |-> rest, error |-> FALSE]
                     ELSE [[message |-> Nothing, rest |-> rest, error |-> FALSE]
                             EXCEPT !.error = (sep # Empty)]
  BY Zenon DEF decode, Decoded, LeftAfter
<1>3. end = 0 => d.message = Nothing /\ ~d.error /\ d.rest = buf
  <2>. HIDE DEF d, end
  <2>. QED  BY <1>1
<1>4. ASSUME NEW m \in Seq(Byte), NEW x \in Seq(Byte), end # 0,
             end = Len(encode(m, sep)), buf = Cat(encode(m, sep), x)
      PROVE  /\ d.rest = x
             /\ Utf8(m) => d.message = m /\ ~d.error
             /\ ~Utf8(m) => d.message = Nothing /\ (d.error <=> sep # Empty)
  <2>. HIDE DEF d, end
  <2>0. PICK e : e = encode(m, sep)
    BY Zenon
  <2>1. line = m /\ rest = x
    <3>1. Unframed(e, m, x, sep)
      BY <2>0, Unframe, Zenon
    <3>2. buf = Cat(e, x) /\ end = Len(e)
      BY <1>4, <2>0, Zenon
    <3>. QED  BY <3>1, <3>2, Zenon DEF Unframed
  <2>2. d = IF Utf8(m) THEN [message |-> m, rest |-> x, error |-> FALSE]
            ELSE [[message |-> Nothing, rest |-> x, error |-> FALSE] EXCEPT !.error = (sep # Empty)]
    <3>. HIDE DEF line, rest
    <3>. QED  BY <1>2, <1>4, <2>1, Zenon
  <2>. QED  BY <2>2, Zenon
<1>. QED  BY <1>3, <1>4, Zenon DEF DecodesTo

LEMMA SameBeginning ==
  ASSUME NEW V, NEW s \in Seq(V), NEW t \in Seq(V), Len(s) <= Len(t),
         \A j \in 1 .. Len(s) : s[j] = t[j]
  PROVE  s = SubSeq(t, 1, Len(s))
OBVIOUS

(***************************************************************************)
(* What a connection has handled when buf has been read and not decoded    *)
(* and wire not been read: the texts among the first k of the messages,    *)
(* where buf and wire hold the others.                                     *)
(***************************************************************************)
TextAt(messages) == {i \in DOMAIN messages : Utf8(messages[i])}

Heard(messages) ==
  CHOOSE f \in [0 .. Len(messages) -> Seq(Seq(Byte))] :
    Picks(f, messages, TextAt(messages)) /\ f[Len(messages)] = Texts(messages)

Served(messages, sep, buf, wire, handled) ==
  \E k \in 0 .. Len(messages) :
    /\ Cat(buf, wire) = JoinLast(Encoded(messages, sep))[Len(messages) - k]
    /\ handled = Heard(messages)[k]

LEMMA HeardIs ==
  ASSUME NEW M \in Seq(Seq(Byte))
  PROVE  /\ Heard(M) \in [0 .. Len(M) -> Seq(Seq(Byte))] /\ Heard(M)[0] = <<>>
         /\ Heard(M)[Len(M)] = Texts(M)
         /\ \A k \in 0 .. Len(M) - 1 : Heard(M)[k + 1] = IF Utf8(M[k + 1]) THEN Append(Heard(M)[k], M[k + 1])
                                                         ELSE Heard(M)[k]
         /\ \A k \in 0 .. Len(M) : /\ Len(Heard(M)[k]) <= Len(Texts(M))
                                    /\ Heard(M)[k] = SubSeq(Texts(M), 1, Len(Heard(M)[k]))
<1>1. \E f \in [0 .. Len(M) -> Seq(Seq(Byte))] : Picks(f, M, TextAt(M)) /\ f[Len(M)] = Texts(M)
  BY SubsequenceSteps, Zenon DEF Texts, TextAt
<1>2. PICK f \in [0 .. Len(M) -> Seq(Seq(Byte))] :
        f = Heard(M) /\ Picks(f, M, TextAt(M)) /\ f[Len(M)] = Texts(M)
  BY <1>1, Zenon DEF Heard
<1>3. Len(M) \in Nat /\ DOMAIN M = 1 .. Len(M)
  BY LenProperties, Zenon
<1>4. ASSUME NEW k \in 0 .. Len(M) - 1
      PROVE  f[k + 1] = IF Utf8(M[k + 1]) THEN Append(f[k], M[k + 1]) ELSE f[k]
  <2>1. k + 1 \in 1 .. Len(M) /\ (k + 1) - 1 = k
    BY <1>3
  <2>2. k + 1 \in TextAt(M) <=> Utf8(M[k + 1])
    BY <1>3, <2>1, Zenon DEF TextAt
  <2>. QED  BY <1>2, <2>1, <2>2, Zenon DEF Picks
<1>5. ASSUME NEW k \in 0 .. Len(M)
      PROVE  Len(f[k]) <= Len(f[Len(M)]) /\ f[k] = SubSeq(f[Len(M)], 1, Len(f[k]))
  <2>1. PICK s \in Seq(Seq(Byte)), t \in Seq(Seq(Byte)) : s = f[k] /\ t = f[Len(M)]
    <3>1. Len(M) \in 0 .. Len(M)
      BY <1>3
    <3>. QED  BY <3>1, Zenon
  <2>2. Len(s) <= Len(t) /\ \A j \in 1 .. Len(s) : s[j] = t[j]
    BY <1>2, <2>1, PicksPrefix, ZenonT(60)
  <2>3. s = SubSeq(t, 1, Len(s))
    BY <2>2, SameBeginning, Zenon
  <2>. QED  BY <2>1, <2>2, <2>3, Zenon
<1>6. f[0] = <<>>
  BY <1>2, Zenon DEF Picks
<1>. QED  BY <1>2, <1>4, <1>5, <1>6, Zenon

(* A client's messages, as parts that end where their bytes do. *)
LEMMA PartsOf ==
  ASSUME NEW M \in Seq(Seq(Byte)), NEW sep \in Byte \union {Empty}, Framed(M, sep)
  PROVE  /\ Parts(Encoded(M, sep), JoinLast(Encoded(M, sep)), Ends(sep), Byte)
         /\ Len(Encoded(M, sep)) = Len(M)
<1>. DEFINE E == Encoded(M, sep)
<1>1. DOMAIN M = 1 .. Len(M) /\ Len(M) \in Nat
  BY LenProperties, Zenon
<1>2. ASSUME NEW i \in 1 .. Len(M) PROVE encode(M[i], sep) \in Seq(Byte)
  <2>1. M[i] \in Seq(Byte)
    BY ElementOfSeq, Zenon
  <2>2. <<>> \in Seq(Byte)
    BY EmptySeq, Zenon
  <2>3. Unframed(encode(M[i], sep), M[i], <<>>, sep)
    BY <2>1, <2>2, Unframe, Zenon
  <2>. QED  BY <2>3, Zenon DEF Unframed
<1>3. E = [i \in 1 .. Len(M) |-> encode(M[i], sep)]
  BY <1>1, Zenon DEF Encoded
<1>4. E \in Seq(Seq(Byte)) /\ Len(E) = Len(M)
  <2>1. E \in [1 .. Len(M) -> Seq(Byte)]
    BY <1>2, <1>3, Zenon
  <2>. HIDE DEF E
  <2>. QED  BY <1>1, <2>1, FunctionIsSeq, Zenon
<1>5. ASSUME NEW i \in 1 .. Len(E)
      PROVE  /\ E[i] # <<>>
             /\ FirstEnd(E[i], Ends(sep)) = Len(E[i]) \/ (i = Len(E) /\ FirstEnd(E[i], Ends(sep)) = 0)
  <2>1. i \in DOMAIN M
    BY <1>1, <1>4, Zenon
  <2>2. /\ E[i] # <<>>
        /\ MessageEnd(E[i], sep) = Len(E[i]) \/ (i = Len(M) /\ MessageEnd(E[i], sep) = 0)
    BY <2>1, Zenon DEF Framed
  <2>3. MessageEnd(E[i], sep) = FirstEnd(E[i], Ends(sep))
    <3>1. E[i] \in Seq(Byte)
      BY <1>4, ElementOfSeq, Zenon
    <3>. QED  BY <3>1, MessageEndIs, Zenon
  <2>. QED  BY <1>4, <2>2, <2>3, Zenon
<1>. HIDE DEF E
<1>6. /\ JoinLast(E) \in [0 .. Len(E) -> Seq(Byte)] /\ JoinLast(E)[0] = <<>>
      /\ \A i \in 1 .. Len(E) : JoinLast(E)[i] = Cat(E[Len(E) + 1 - i], JoinLast(E)[i - 1])
  BY <1>4, JoinLastSteps, Zenon
<1>7. Parts(E, JoinLast(E), Ends(sep), Byte)
  BY <1>4, <1>5, <1>6, Zenon DEF Parts
<1>. QED  BY <1>4, <1>7, Zenon DEF E

(* At first nothing is read and nothing handled. *)
LEMMA ServedFirst ==
  ASSUME NEW M \in Seq(Seq(Byte)), NEW sep \in Byte \union {Empty}, Framed(M, sep)
  PROVE  Sent(M, sep) \in Seq(Byte) /\ Served(M, sep, <<>>, Sent(M, sep), <<>>)
<1>1. PICK E, L, N : E = Encoded(M, sep) /\ L = JoinLast(E) /\ N = Len(M) /\ N \in Nat
  BY LenProperties, Zenon
<1>2. Parts(E, L, Ends(sep), Byte) /\ Len(E) = N
  BY <1>1, PartsOf, Zenon
<1>3. N \in 0 .. N /\ 0 \in 0 .. N /\ N - 0 = N
  BY <1>1
<1>4. L[N] \in Seq(Byte)
  BY <1>2, <1>3, Zenon DEF Parts
<1>5. Cat(<<>>, L[N]) = L[N]
  BY <1>4 DEF Cat
<1>6. Heard(M)[0] = <<>>
  BY HeardIs, Zenon
<1>7. Sent(M, sep) = L[N]
  BY <1>1, Zenon DEF Sent
<1>8. Cat(<<>>, Sent(M, sep)) = JoinLast(Encoded(M, sep))[Len(M) - 0]
  BY <1>1, <1>3, <1>5, <1>7, Zenon
<1>9. 0 \in 0 .. Len(M)
  BY <1>1, <1>3, Zenon
<1>. QED  BY <1>4, <1>6, <1>7, <1>8, <1>9, Zenon DEF Served

(* Reading more does not change what is to be handled. *)
LEMMA ServedRead ==
  ASSUME NEW M, NEW sep, NEW buf \in Seq(Byte), NEW wire \in Seq(Byte), NEW handled,
         Served(M, sep, buf, wire, handled), NEW n \in 1 .. Len(wire)
  PROVE  LET read == SubSeq(wire, 1, n)
             left == SubSeq(wire, n + 1, Len(wire))
         IN  /\ buf \o read \in Seq(Byte) /\ left \in Seq(Byte)
             /\ Served(M, sep, buf \o read, left, handled)
<1>1. PICK read, left : read = SubSeq(wire, 1, n) /\ left = SubSeq(wire, n + 1, Len(wire))
  BY Zenon
<1>2. n \in 0 .. Len(wire)
  BY LenProperties
<1>3. read \in Seq(Byte) /\ left \in Seq(Byte) /\ Cat(read, left) = wire
  BY <1>1, <1>2, CatSubSeqs, Zenon
<1>4. Cat(buf, read) \in Seq(Byte) /\ Cat(Cat(buf, read), left) = Cat(buf, wire)
  BY <1>3, CatFacts
<1>5. Served(M, sep, Cat(buf, read), left, handled)
  BY <1>4, Zenon DEF Served
<1>6. Cat(buf, read) = buf \o read
  BY Zenon DEF Cat
<1>. QED  BY <1>1, <1>3, <1>4, <1>5, <1>6, Zenon

(* What has been handled is a beginning of what can be, and all of it in the end. *)
WellServed(M, buf, wire, handled) ==
  /\ handled \in Seq(Seq(Byte))
  /\ Len(handled) <= Len(Texts(M)) /\ handled = SubSeq(Texts(M), 1, Len(handled))
  /\ buf = <<>> /\ wire = <<>> => handled = Texts(M)

LEMMA ServedIs ==
  ASSUME NEW M \in Seq(Seq(Byte)), NEW sep \in Byte \union {Empty}, Framed(M, sep),
         NEW buf \in Seq(Byte), NEW wire \in Seq(Byte), NEW handled,
         Served(M, sep, buf, wire, handled)
  PROVE  WellServed(M, buf, wire, handled)
<1>1. PICK k \in 0 .. Len(M) :
        Cat(buf, wire) = JoinLast(Encoded(M, sep))[Len(M) - k] /\ handled = Heard(M)[k]
  BY Zenon DEF Served
<1>2. /\ handled \in Seq(Seq(Byte))
      /\ Len(handled) <= Len(Texts(M)) /\ handled = SubSeq(Texts(M), 1, Len(handled))
  BY <1>1, HeardIs, Zenon
<1>3. ASSUME buf = <<>>, wire = <<>> PROVE handled = Texts(M)
  <2>1. PICK E, L : E = Encoded(M, sep) /\ L = JoinLast(E)
    BY Zenon
  <2>2. Parts(E, L, Ends(sep), Byte) /\ Len(E) = Len(M)
    BY <2>1, PartsOf, Zenon
  <2>3. Cat(buf, wire) = <<>>
    BY <1>3, CatFacts, Zenon
  <2>4. k \in 0 .. Len(E) /\ L[Len(E) - k] = <<>>
    BY <1>1, <2>1, <2>2, <2>3, Zenon
  <2>5. k = Len(E)
    BY <2>2, <2>4, AllParts, Zenon
  <2>. QED  BY <1>1, <2>2, <2>5, HeardIs, Zenon
<1>. QED  BY <1>2, <1>3, Zenon DEF WellServed

(***************************************************************************)
(* A step of decode: it takes the next message, or finds that there is not *)
(* all of it yet.                                                          *)
(***************************************************************************)
Advances(d, M, sep, wire, handled) ==
  /\ d.message = Nothing \/ d.message \in Seq(Byte)
  /\ d.message # Nothing => ~d.error /\ Served(M, sep, d.rest, wire, Append(handled, d.message))
  /\ d.message = Nothing /\ ~d.error => Served(M, sep, d.rest, wire, handled)
  /\ d.rest \in Seq(Byte)

LEMMA DecodeStep ==
  ASSUME NEW M \in Seq(Seq(Byte)), NEW sep \in Byte \union {Empty}, Framed(M, sep),
         NEW buf \in Seq(Byte), NEW wire \in Seq(Byte), NEW handled,
         Served(M, sep, buf, wire, handled)
  PROVE  Advances(decode(buf, sep), M, sep, wire, handled)
<1>1. PICK k \in 0 .. Len(M) :
        Cat(buf, wire) = JoinLast(Encoded(M, sep))[Len(M) - k] /\ handled = Heard(M)[k]
  BY Zenon DEF Served
<1>2. PICK E, L, d, end :
        /\ E = Encoded(M, sep) /\ L = JoinLast(E)
        /\ d = decode(buf, sep) /\ end = MessageEnd(buf, sep)
  BY Zenon
<1>3. Parts(E, L, Ends(sep), Byte) /\ Len(E) = Len(M)
  BY <1>2, PartsOf, Zenon
<1>4. DecodesTo(d, buf, sep, end)
  BY <1>2, DecodeIs, Zenon
<1>5. CASE end = 0
  BY <1>2, <1>4, <1>5, Zenon DEF Advances, DecodesTo
<1>6. CASE end # 0
  <2>1. end = FirstEnd(buf, Ends(sep)) /\ k \in 0 .. Len(E) /\ Cat(buf, wire) = L[Len(E) - k]
    BY <1>1, <1>2, <1>3, MessageEndIs, Zenon
  <2>2. NextIs(buf, wire, E, L, k, end, Byte)
    BY <1>3, <1>6, <2>1, NextPart, Zenon
  <2>3. PICK x \in Seq(Byte) : buf = Cat(E[k + 1], x) /\ Cat(x, wire) = L[Len(E) - (k + 1)]
    BY <2>2, Zenon DEF NextIs
  <2>4. k + 1 \in 1 .. Len(M) /\ k + 1 \in 0 .. Len(M) /\ k \in 0 .. Len(M) - 1
    BY <1>3, <2>2, LenProperties DEF NextIs
  <2>5. PICK m \in Seq(Byte) : m = M[k + 1]
    BY <2>4, ElementOfSeq, Zenon
  <2>6. E[k + 1] = encode(m, sep)
    <3>1. DOMAIN M = 1 .. Len(M)
      BY LenProperties, Zenon
    <3>. QED  BY <1>2, <2>4, <2>5, <3>1, Zenon DEF Encoded
  <2>7. /\ d.rest = x
        /\ Utf8(m) => d.message = m /\ ~d.error
        /\ ~Utf8(m) => d.message = Nothing /\ (d.error <=> sep # Empty)
    BY <1>4, <1>6, <2>2, <2>3, <2>6, Zenon DEF NextIs, DecodesTo
  <2>8. Heard(M)[k + 1] = IF Utf8(m) THEN Append(Heard(M)[k], m) ELSE Heard(M)[k]
    BY <2>4, <2>5, HeardIs, Zenon
  <2>9. Served(M, sep, x, wire, Heard(M)[k + 1])
    BY <1>2, <1>3, <2>3, <2>4, Zenon DEF Served
  <2>10. m # Nothing
    BY NothingAssumption, Zenon
  <2>. QED  BY <1>1, <1>2, <2>7, <2>8, <2>9, <2>10, Zenon DEF Advances
<1>. QED  BY <1>5, <1>6, Zenon

(***************************************************************************)
(* With a separator decode ends a message at the first one, so messages    *)
(* without it, of whatever other bytes and length, are what clients are    *)
(* assumed to send; all of them end.                                       *)
(***************************************************************************)
THEOREM SeparatedIsFramed ==
  ASSUME NEW M \in Seq(Seq(Byte)), NEW sep \in Byte,
         \A i \in DOMAIN M : \A j \in DOMAIN M[i] : M[i][j] # sep
  PROVE  /\ Framed(M, sep)
         /\ \A i \in DOMAIN M : MessageEnd(Encoded(M, sep)[i], sep) = Len(Encoded(M, sep)[i])
<1>1. sep # Empty
  BY DEF Byte, Empty
<1>2. ASSUME NEW i \in DOMAIN M
      PROVE  Encoded(M, sep)[i] # <<>> /\ MessageEnd(Encoded(M, sep)[i], sep) = Len(Encoded(M, sep)[i])
  <2>. DEFINE m == M[i]
              e == Append(m, sep)
              ends == {n \in 1 .. Len(e) : IF sep = Empty THEN EndsMessage(SubSeq(e, 1, n)) ELSE e[n] = sep}
  <2>1. m \in Seq(Byte) /\ \A j \in 1 .. Len(m) : m[j] # sep
    BY LenProperties, ElementOfSeq
  <2>2. Encoded(M, sep)[i] = e
    BY <1>1, Zenon DEF Encoded, encode
  <2>. HIDE DEF m
  <2>3. /\ Len(e) = Len(m) + 1 /\ Len(m) \in Nat /\ e # <<>>
        /\ \A j \in 1 .. Len(e) : e[j] = sep <=> j = Len(e)
    <3>1. Len(m) \in Nat
      BY <2>1, LenProperties, Zenon
    <3>2. Len(e) = Len(m) + 1 /\ \A j \in 1 .. Len(e) : e[j] = IF j <= Len(m) THEN m[j] ELSE sep
      BY <2>1, AppendProperties
    <3>3. e # <<>>
      BY <2>1, ZenonT(60), AppendProperties
    <3>. HIDE DEF e
    <3>4. ASSUME NEW j \in 1 .. Len(e) PROVE e[j] = sep <=> j = Len(e)
      <4>1. j \in 1 .. Len(m) \/ (j = Len(e) /\ ~(j <= Len(m)))
        BY <3>1, <3>2
      <4>2. j \in 1 .. Len(m) => j <= Len(m) /\ j # Len(e)
        BY <3>1, <3>2
      <4>3. e[j] = IF j <= Len(m) THEN m[j] ELSE sep
        BY <3>2, Zenon
      <4>4. j \in 1 .. Len(m) => m[j] # sep
        BY <2>1, Zenon
      <4>. QED  BY <4>1, <4>2, <4>3, <4>4, Zenon
    <3>. QED  BY <3>1, <3>2, <3>3, <3>4
  <2>. HIDE DEF e
  <2>4. ends = {Len(e)}
    BY <1>1, <2>3
  <2>5. MessageEnd(e, sep) = IF ends = {} THEN 0 ELSE CHOOSE n \in ends : \A k \in ends : n <= k
    BY Zenon DEF MessageEnd
  <2>. HIDE DEF ends
  <2>6. MessageEnd(e, sep) = Len(e)
    BY <2>3, <2>4, <2>5
  <2>. QED  BY <2>2, <2>3, <2>6, Zenon
<1>. QED  BY <1>2, Zenon DEF Framed
=============================================================================
