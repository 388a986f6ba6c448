------------------------ MODULE SocketIoClientProofs ------------------------
(***************************************************************************)
(* Theorems about the client for every set of calls, every capacity of its *)
(* channels and whatever the server and the network do.                    *)
(***************************************************************************)
EXTENDS SocketIoClient, FiniteSetTheorems, SequenceTheorems, TLAPS

-----------------------------------------------------------------------------
(* Texts are short: a few facts about tuples.                               *)

LEMMA Joined ==
  ASSUME NEW S, NEW s \in Seq(S), NEW t \in Seq(S), NEW u \in Seq(S),
         Len(u) = Len(s) + Len(t),
         \A i \in 1..Len(u) : u[i] = IF i <= Len(s) THEN s[i] ELSE t[i - Len(s)]
  PROVE  s \o t = u
<1>1. /\ s \o t \in Seq(S) /\ Len(s \o t) = Len(s) + Len(t)
      /\ \A i \in 1..Len(s) + Len(t) : (s \o t)[i] = IF i <= Len(s) THEN s[i] ELSE t[i - Len(s)]
  BY ONLY ConcatProperties
<1>2. Len(s \o t) = Len(u) /\ \A i \in 1..Len(s \o t) : (s \o t)[i] = u[i]
  BY <1>1
<1>3. QED
  BY ONLY <1>1, <1>2, SeqEqual

LEMMA Cut ==
  ASSUME NEW S, NEW s \in Seq(S), NEW u \in Seq(S), Len(s) >= 4, Len(u) = Len(s) - 3,
         \A i \in 1..Len(u) : u[i] = s[i + 3]
  PROVE  SubSeq(s, 4, Len(s)) = u
<1> DEFINE l == Len(s)
           r == SubSeq(s, 4, l)
<1>1. l \in Nat /\ l >= 4 /\ 4 \in Int /\ l \in Int /\ \A i \in 4..l : s[i] \in S
  BY LenProperties
<1> HIDE DEF l
<1>2. /\ SubSeq(s, 4, l) \in Seq(S)
      /\ Len(SubSeq(s, 4, l)) = IF 4 <= l THEN l - 4 + 1 ELSE 0
      /\ \A i \in 1..l - 4 + 1 : SubSeq(s, 4, l)[i] = s[4 + i - 1]
  BY ONLY <1>1, SubSeqProperties
<1> HIDE DEF r
<1>3. r \in Seq(S) /\ Len(r) = Len(u) /\ \A i \in 1..Len(r) : r[i] = u[i]
  BY <1>1, <1>2 DEF l, r
<1>4. r = u
  BY ONLY <1>3, SeqEqual
<1>5. QED
  BY <1>4 DEF r, l

LEMMA JoinedOne ==
  ASSUME NEW S, NEW a \in S, NEW b \in S, NEW c \in S
  PROVE  /\ <<a>> \o <<b>> = <<a, b>>
         /\ <<a>> \o <<b, c>> = <<a, b, c>>
<1> DEFINE s == <<a>>
           t == <<b>>
           u == <<a, b>>
           x == <<b, c>>
           y == <<a, b, c>>
<1>1. /\ s \in Seq(S) /\ t \in Seq(S) /\ u \in Seq(S) /\ Len(s) = 1 /\ Len(t) = 1 /\ Len(u) = 2
      /\ s[1] = a /\ t[1] = b /\ u[1] = a /\ u[2] = b
  OBVIOUS
<1>2. /\ x \in Seq(S) /\ y \in Seq(S) /\ Len(x) = 2 /\ Len(y) = 3
      /\ x[1] = b /\ x[2] = c /\ y[1] = a /\ y[2] = b /\ y[3] = c
  OBVIOUS
<1> HIDE DEF s, t, u, x, y
<1>3. s \o t = u
  <2>1. Len(u) = Len(s) + Len(t) /\ \A i \in 1..Len(u) : u[i] = IF i <= Len(s) THEN s[i] ELSE t[i - Len(s)]
    BY <1>1
  <2>2. QED
    BY ONLY <1>1, <2>1, Joined
<1>4. s \o x = y
  <2>1. Len(y) = Len(s) + Len(x) /\ \A i \in 1..Len(y) : y[i] = IF i <= Len(s) THEN s[i] ELSE x[i - Len(s)]
    BY <1>1, <1>2
  <2>2. QED
    BY ONLY <1>1, <1>2, <2>1, Joined
<1>5. QED
  BY <1>3, <1>4 DEF s, t, u, x, y

LEMMA JoinedTwo ==
  ASSUME NEW S, NEW a \in S, NEW b \in S, NEW c \in S
  PROVE  <<a, b>> \o <<c>> = <<a, b, c>>
<1> DEFINE s == <<a, b>>
           t == <<c>>
           u == <<a, b, c>>
<1>1. /\ s \in Seq(S) /\ Len(s) = 2 /\ s[1] = a /\ s[2] = b /\ t \in Seq(S) /\ Len(t) = 1 /\ t[1] = c
      /\ u \in Seq(S) /\ Len(u) = 3 /\ u[1] = a /\ u[2] = b /\ u[3] = c
  OBVIOUS
<1> HIDE DEF s, t, u
<1>2. Len(u) = Len(s) + Len(t) /\ \A i \in 1..Len(u) : u[i] = IF i <= Len(s) THEN s[i] ELSE t[i - Len(s)]
  BY <1>1
<1>3. s \o t = u
  BY ONLY <1>1, <1>2, Joined
<1>4. QED
  BY <1>3 DEF s, t, u

LEMMA JoinedThree ==
  ASSUME NEW S, NEW a \in S, NEW b \in S, NEW c \in S, NEW d \in S
  PROVE  <<a, b, c>> \o <<d>> = <<a, b, c, d>> /\ SubSeq(<<a, b, c, d>>, 4, 4) = <<d>>
<1> DEFINE s == <<a, b, c>>
           t == <<d>>
           u == <<a, b, c, d>>
<1>1. /\ s \in Seq(S) /\ Len(s) = 3 /\ s[1] = a /\ s[2] = b /\ s[3] = c /\ t \in Seq(S) /\ Len(t) = 1 /\ t[1] = d
      /\ u \in Seq(S) /\ Len(u) = 4 /\ u[1] = a /\ u[2] = b /\ u[3] = c /\ u[4] = d
  OBVIOUS
<1> HIDE DEF s, t, u
<1>2. /\ Len(u) = Len(s) + Len(t) /\ \A i \in 1..Len(u) : u[i] = IF i <= Len(s) THEN s[i] ELSE t[i - Len(s)]
      /\ Len(u) >= 4 /\ Len(t) = Len(u) - 3 /\ \A i \in 1..Len(t) : t[i] = u[i + 3]
  BY <1>1
<1>3. s \o t = u
  BY ONLY <1>1, <1>2, Joined
<1>4. SubSeq(u, 4, Len(u)) = t
  BY ONLY <1>1, <1>2, Cut
<1>5. QED
  BY <1>1, <1>3, <1>4 DEF s, t, u

LEMMA JoinedFour ==
  ASSUME NEW S, NEW a \in S, NEW b \in S, NEW c \in S, NEW d \in S, NEW e \in S
  PROVE  <<a, b, c, d>> \o <<e>> = <<a, b, c, d, e>> /\ SubSeq(<<a, b, c, d, e>>, 4, 5) = <<d, e>>
<1> DEFINE s == <<a, b, c, d>>
           t == <<e>>
           u == <<a, b, c, d, e>>
           r == <<d, e>>
<1>1. /\ s \in Seq(S) /\ Len(s) = 4 /\ s[1] = a /\ s[2] = b /\ s[3] = c /\ s[4] = d
      /\ t \in Seq(S) /\ Len(t) = 1 /\ t[1] = e /\ r \in Seq(S) /\ Len(r) = 2 /\ r[1] = d /\ r[2] = e
  OBVIOUS
<1>2. u \in Seq(S) /\ Len(u) = 5 /\ u[1] = a /\ u[2] = b /\ u[3] = c /\ u[4] = d /\ u[5] = e
  OBVIOUS
<1> HIDE DEF s, t, u, r
<1>3. /\ Len(u) = Len(s) + Len(t) /\ \A i \in 1..Len(u) : u[i] = IF i <= Len(s) THEN s[i] ELSE t[i - Len(s)]
      /\ Len(u) >= 4 /\ Len(r) = Len(u) - 3 /\ \A i \in 1..Len(r) : r[i] = u[i + 3]
  BY <1>1, <1>2
<1>4. s \o t = u
  BY ONLY <1>1, <1>2, <1>3, Joined
<1>5. SubSeq(u, 4, Len(u)) = r
  BY ONLY <1>1, <1>2, <1>3, Cut
<1>6. QED
  BY <1>2, <1>4, <1>5 DEF s, t, u, r

-----------------------------------------------------------------------------
(* The codec: what is read from the packets of a call and its answer.       *)

LEMMA Texts == Text({}) = <<>> /\ \A t : Text({t}) = <<t>>
<1>1. ASSUME NEW t
      PROVE  Text({t}) = <<t>>
  <2>1. (CHOOSE u \in {t} : TRUE) = t
    OBVIOUS
  <2>2. QED
    BY <2>1 DEF Text
<1>2. QED
  BY <1>1 DEF Text

LEMMA Encoded ==
  ASSUME NEW p
  PROVE  Encode(p) = (IF p.namespace = DefaultNamespace THEN <<Token("type", p.type)>>
                      ELSE <<Token("type", p.type), Token("path", p.namespace), Token("comma", ",")>>)
                       \o Text({Token("digits", n) : n \in p.id}) \o Text({Printed(v) : v \in p.data})
<1> DEFINE T == Token("type", p.type)
           P == Token("path", p.namespace)
           C == Token("comma", ",")
           I == Text({Token("digits", n) : n \in p.id})
           J == Text({Printed(v) : v \in p.data})
<1>1. <<T>> \o (IF p.namespace = DefaultNamespace THEN <<>> ELSE <<P, C>>)
        = IF p.namespace = DefaultNamespace THEN <<T>> ELSE <<T, P, C>>
  <2>1. <<T>> \o <<P, C>> = <<T, P, C>>
    <3> HIDE DEF T, P, C
    <3>1. T \in {T, P, C} /\ P \in {T, P, C} /\ C \in {T, P, C}
      OBVIOUS
    <3>2. QED
      BY ONLY <3>1, JoinedOne
  <2>2. <<T>> \o <<>> = <<T>>
    <3> HIDE DEF T
    <3>1. <<T>> \in Seq({T})
      OBVIOUS
    <3>2. QED
      BY ONLY <3>1, ConcatEmptySeq
  <2>3. QED
    BY <2>1, <2>2
<1>2. Encode(p) = (<<T>> \o (IF p.namespace = DefaultNamespace THEN <<>> ELSE <<P, C>>)) \o I \o J
  BY DEF Encode
<1> HIDE DEF T, P, C, I, J
<1>3. Encode(p) = (IF p.namespace = DefaultNamespace THEN <<T>> ELSE <<T, P, C>>) \o I \o J
  BY <1>1, <1>2
<1>4. QED
  BY <1>3 DEF T, P, C, I, J

\* A JSON array survives its printing.
LEMMA Reparsed ==
  ASSUME NEW items
  PROVE  /\ Printed(Array(items)).kind = "json"
         /\ Parsed(Printed(Array(items))) = Array(items)
BY DEF Printed, Parsed, Token, Array, Json

\* The namespace of a text, if it has one, and what comes behind it.
HasPath(text) == Len(text) > 1 /\ text[2].kind = "path"

Where(text) == IF HasPath(text) THEN text[2].value ELSE DefaultNamespace

Behind(text) == IF ~HasPath(text) THEN Tail(text)
                ELSE SubSeq(text, IF Len(text) > 2 /\ text[3].kind = "comma" THEN 4 ELSE 3, Len(text))

HasId(rest) == /\ rest # <<>> /\ rest[1].kind = "digits"
               /\ Len(rest) > 1 => Parsed(rest[2]).kind \in {"array", "object"}

LEMMA Decoded ==
  ASSUME NEW text
  PROVE  LET rest == Behind(text)
             json == IF HasId(rest) THEN Tail(rest) ELSE rest
         IN  Decode(text) = Sio(text[1].value, Where(text),
                                IF HasId(rest) THEN {rest[1].value} ELSE {},
                                IF json = <<>> THEN {} ELSE {Parsed(json[1])})
BY DEF Decode, Where, Behind, HasPath, HasId

LEMMA TextsRead ==
  ASSUME NEW T, NEW P, NEW C, NEW D, NEW J, D.kind = "digits", J.kind = "json", P.kind = "path", C.kind = "comma"
  PROVE  /\ ~HasPath(<<T, J>>) /\ Tail(<<T, J>>) = <<J>> /\ <<T, J>>[1] = T
         /\ ~HasPath(<<T, D, J>>) /\ Tail(<<T, D, J>>) = <<D, J>> /\ <<T, D, J>>[1] = T
         /\ Len(<<T, P, C, J>>) = 4 /\ <<T, P, C, J>>[1] = T /\ <<T, P, C, J>>[2] = P /\ <<T, P, C, J>>[3] = C
         /\ Len(<<T, P, C, D, J>>) = 5 /\ <<T, P, C, D, J>>[1] = T /\ <<T, P, C, D, J>>[2] = P
         /\ <<T, P, C, D, J>>[3] = C
BY DEF HasPath

\* An event or acknowledgement with an array as its data is read as it was
\* written, whatever its namespace and with or without an id.
LEMMA RoundTrip ==
  ASSUME NEW type, NEW namespace, NEW items, NEW id, \A m \in id : id = {m}
  PROVE  Decode(Encode(Sio(type, namespace, id, {Array(items)}))) = Sio(type, namespace, id, {Array(items)})
<1> DEFINE n == CHOOSE m \in id : TRUE
<1>id. id \in {{}, {n}}
  OBVIOUS
<1> HIDE DEF n
<1> DEFINE p == Sio(type, namespace, id, {Array(items)})
           T == Token("type", type)
           P == Token("path", namespace)
           C == Token("comma", ",")
           D == Token("digits", n)
           J == Printed(Array(items))
<1>1. /\ p.type = type /\ p.namespace = namespace /\ p.id = id /\ p.data = {Array(items)}
  BY DEF Sio
<1>2. /\ T.value = type /\ P.kind = "path" /\ P.value = namespace /\ C.kind = "comma"
      /\ D.kind = "digits" /\ D.value = n /\ J.kind = "json" /\ Parsed(J) = Array(items)
      /\ Array(items).kind = "array"
  BY Reparsed DEF Token, Array, Json
<1>3. Encode(p) = (IF namespace = DefaultNamespace THEN <<T>> ELSE <<T, P, C>>)
                    \o (IF id = {} THEN <<>> ELSE <<D>>) \o <<J>>
  <2> DEFINE I == Text({Token("digits", m) : m \in p.id})
             K == Text({Printed(v) : v \in p.data})
  <2>1. id = {} => {Token("digits", m) : m \in id} = {}
    OBVIOUS
  <2>2. id = {n} => {Token("digits", m) : m \in id} = {D}
    OBVIOUS
  <2>3. {Printed(v) : v \in {Array(items)}} = {J}
    OBVIOUS
  <2>4. I = (IF id = {} THEN <<>> ELSE <<D>>) /\ K = <<J>>
    BY <1>id, <1>1, <2>1, <2>2, <2>3, Texts
  <2>5. Encode(p) = (IF p.namespace = DefaultNamespace THEN <<Token("type", p.type)>>
                     ELSE <<Token("type", p.type), Token("path", p.namespace), Token("comma", ",")>>) \o I \o K
    <3> HIDE DEF p
    <3>1. QED
      BY ONLY Encoded
  <2> HIDE DEF p, I, K
  <2>6. QED
    BY <1>1, <2>4, <2>5
<1> DEFINE S == {T, P, C, D, J}
<1>4. T \in S /\ P \in S /\ C \in S /\ D \in S /\ J \in S
  OBVIOUS
<1> HIDE DEF T, P, C, D, J, S, p
<1>5. /\ <<T>> \o <<J>> = <<T, J>> /\ <<T>> \o <<D>> = <<T, D>>
  BY ONLY <1>4, JoinedOne
<1>6. /\ <<T, D>> \o <<J>> = <<T, D, J>>
  BY ONLY <1>4, JoinedTwo
<1>7. /\ <<T, P, C>> \o <<J>> = <<T, P, C, J>> /\ SubSeq(<<T, P, C, J>>, 4, 4) = <<J>>
  BY ONLY <1>4, JoinedThree
<1>8. /\ <<T, P, C>> \o <<D>> = <<T, P, C, D>> /\ <<T, P, C, D>> \o <<J>> = <<T, P, C, D, J>>
      /\ SubSeq(<<T, P, C, D, J>>, 4, 5) = <<D, J>>
  BY ONLY <1>4, JoinedThree, JoinedFour
<1>9. <<T>> \o <<>> = <<T>> /\ <<T, P, C>> \o <<>> = <<T, P, C>>
  <2>1. <<T>> \in Seq(S) /\ <<T, P, C>> \in Seq(S)
    BY <1>4
  <2>2. QED
    BY ONLY <2>1, ConcatEmptySeq
<1>10. ASSUME NEW text, text[1] = T, Behind(text) = <<J>>
       PROVE  Decode(text) = Sio(type, Where(text), {}, {Array(items)})
  <2> DEFINE rest == <<J>>
  <2>1. rest # <<>> /\ rest[1] = J
    OBVIOUS
  <2> HIDE DEF rest
  <2>2. ~HasId(rest)
    BY <1>2, <2>1 DEF HasId
  <2>3. Behind(text) = rest
    BY <1>10 DEF rest
  <2>4. QED
    BY <1>2, <1>10, <2>1, <2>2, <2>3, Decoded
<1>11. ASSUME NEW text, text[1] = T, Behind(text) = <<D, J>>
       PROVE  Decode(text) = Sio(type, Where(text), {n}, {Array(items)})
  <2> DEFINE rest == <<D, J>>
             json == <<J>>
  <2>1. rest # <<>> /\ rest[1] = D /\ rest[2] = J /\ Tail(rest) = json /\ json # <<>> /\ json[1] = J
    OBVIOUS
  <2> HIDE DEF rest, json
  <2>2. HasId(rest)
    BY <1>2, <2>1 DEF HasId
  <2>3. Behind(text) = rest
    BY <1>11 DEF rest
  <2>4. QED
    BY <1>2, <1>11, <2>1, <2>2, <2>3, Decoded
<1>12. CASE namespace = DefaultNamespace
  <2>1. /\ Behind(<<T, J>>) = <<J>> /\ Where(<<T, J>>) = DefaultNamespace /\ <<T, J>>[1] = T
        /\ Behind(<<T, D, J>>) = <<D, J>> /\ Where(<<T, D, J>>) = DefaultNamespace /\ <<T, D, J>>[1] = T
    BY <1>2, TextsRead DEF Behind, Where
  <2>2. Encode(p) = IF id = {} THEN <<T, J>> ELSE <<T, D, J>>
    BY <1>id, <1>3, <1>5, <1>6, <1>9, <1>12
  <2>3. Decode(<<T, J>>) = Sio(type, DefaultNamespace, {}, {Array(items)})
    BY ONLY <1>10, <2>1
  <2>4. Decode(<<T, D, J>>) = Sio(type, DefaultNamespace, {n}, {Array(items)})
    BY ONLY <1>11, <2>1
  <2>5. QED
    BY <1>id, <1>12, <2>2, <2>3, <2>4 DEF p
<1>13. CASE namespace # DefaultNamespace
  <2> DEFINE plain == <<T, P, C, J>>
             numbered == <<T, P, C, D, J>>
  <2>1. /\ Len(plain) = 4 /\ plain[1] = T /\ plain[2] = P /\ plain[3] = C
        /\ Len(numbered) = 5 /\ numbered[1] = T /\ numbered[2] = P /\ numbered[3] = C
    BY ONLY <1>2, TextsRead
  <2>2. Encode(p) = IF id = {} THEN plain ELSE numbered
    BY <1>id, <1>3, <1>7, <1>8, <1>9, <1>13
  <2>3. SubSeq(plain, 4, 4) = <<J>> /\ SubSeq(numbered, 4, 5) = <<D, J>>
    BY <1>7, <1>8
  <2> HIDE DEF plain, numbered
  <2>4. /\ Behind(plain) = <<J>> /\ Where(plain) = namespace
        /\ Behind(numbered) = <<D, J>> /\ Where(numbered) = namespace
    BY <1>2, <2>1, <2>3 DEF Behind, Where, HasPath
  <2>5. Decode(plain) = Sio(type, namespace, {}, {Array(items)})
    BY ONLY <1>10, <2>1, <2>4
  <2>6. Decode(numbered) = Sio(type, namespace, {n}, {Array(items)})
    BY ONLY <1>11, <2>1, <2>4
  <2>7. QED
    BY <1>id, <2>2, <2>5, <2>6 DEF p
<1>14. QED
  BY <1>12, <1>13 DEF p

\* The type is read as it was written, whatever else the packet holds.
LEMMA TypeKept ==
  ASSUME NEW p
  PROVE  Decode(Encode(p)).type = p.type
<1> DEFINE T == Token("type", p.type)
           P == Token("path", p.namespace)
           C == Token("comma", ",")
           I == {Token("digits", n) : n \in p.id}
           J == {Printed(v) : v \in p.data}
           x == CHOOSE t \in I : TRUE
           y == CHOOSE t \in J : TRUE
           S == {T, P, C, x, y}
           h == IF p.namespace = DefaultNamespace THEN <<T>> ELSE <<T, P, C>>
<1>1. Encode(p) = h \o Text(I) \o Text(J)
  BY Encoded
<1>2. Text(I) \in Seq(S) /\ Text(J) \in Seq(S)
  <2>1. Text(I) \in {<<>>, <<x>>} /\ Text(J) \in {<<>>, <<y>>}
    BY DEF Text
  <2>2. x \in S /\ y \in S
    OBVIOUS
  <2> HIDE DEF x, y, S, I, J
  <2>3. <<x>> \in Seq(S) /\ <<y>> \in Seq(S) /\ <<>> \in Seq(S)
    BY ONLY <2>2
  <2>4. QED
    BY ONLY <2>1, <2>3
<1>3. h \in Seq(S) /\ Len(h) >= 1 /\ Len(h) \in Nat /\ h[1] = T
  <2>1. T \in S /\ P \in S /\ C \in S
    OBVIOUS
  <2> HIDE DEF T, P, C, S
  <2>2. QED
    BY <2>1
<1> HIDE DEF T, I, J, S, h
<1>4. h \o Text(I) \in Seq(S) /\ Len(h \o Text(I)) >= 1 /\ Len(h \o Text(I)) \in Nat /\ (h \o Text(I))[1] = T
  <2> DEFINE t == Text(I)
  <2> HIDE DEF t
  <2>1. /\ h \o t \in Seq(S) /\ Len(h \o t) = Len(h) + Len(t)
        /\ \A i \in 1..Len(h) + Len(t) : (h \o t)[i] = IF i <= Len(h) THEN h[i] ELSE t[i - Len(h)]
    BY ONLY <1>2, <1>3, ConcatProperties DEF t
  <2>2. Len(t) \in Nat
    BY ONLY <1>2, LenProperties DEF t
  <2>3. h \o t \in Seq(S) /\ Len(h \o t) >= 1 /\ Len(h \o t) \in Nat /\ (h \o t)[1] = T
    BY ONLY <1>3, <2>1, <2>2
  <2>4. QED
    BY ONLY <2>3 DEF t
<1>5. Encode(p)[1] = T
  <2> DEFINE u == h \o Text(I)
             t == Text(J)
  <2> HIDE DEF u, t
  <2>1. u \in Seq(S) /\ t \in Seq(S) /\ Len(u) >= 1 /\ Len(u) \in Nat /\ u[1] = T
    BY ONLY <1>2, <1>4 DEF u, t
  <2>2. \A i \in 1..Len(u) + Len(t) : (u \o t)[i] = IF i <= Len(u) THEN u[i] ELSE t[i - Len(u)]
    BY ONLY <2>1, ConcatProperties
  <2>3. Len(t) \in Nat
    BY ONLY <2>1, LenProperties
  <2>4. (u \o t)[1] = T
    BY ONLY <2>1, <2>2, <2>3
  <2>5. QED
    BY ONLY <1>1, <2>4 DEF u, t
<1>6. Decode(Encode(p)).type = Encode(p)[1].value
  <2> DEFINE text == Encode(p)
             rest == Behind(text)
             json == IF HasId(rest) THEN Tail(rest) ELSE rest
  <2>1. Decode(text) = Sio(text[1].value, Where(text), IF HasId(rest) THEN {rest[1].value} ELSE {},
                           IF json = <<>> THEN {} ELSE {Parsed(json[1])})
    BY ONLY Decoded
  <2> HIDE DEF text, rest, json
  <2>2. Decode(text).type = text[1].value
    BY <2>1 DEF Sio
  <2>3. QED
    BY <2>2 DEF text
<1>7. QED
  BY <1>5, <1>6 DEF T, Token

Ids == 0..Cardinality(Acked)

\* The packet of a call arrives as it is.
LEMMA CallRead ==
  ASSUME NEW c \in Calls, NEW n \in Ids
  PROVE  LET p == CallPacket(c, n)
         IN  /\ p \in Packets /\ Read[p] = p
             /\ p.type = "EVENT" /\ p.namespace = Namespace
             /\ p.id = (IF c \in Acked THEN {n} ELSE {})
             /\ EventName(p) = {c}
<1> DEFINE p == CallPacket(c, n)
           items == <<Json("string", c)>> \o Items(Data(c))
           id == IF c \in Acked THEN {n} ELSE {}
<1>1. p = Sio("EVENT", Namespace, id, {Array(items)})
  BY DEF CallPacket, EventPacket
<1>2. p \in Packets
  BY DEF Packets, Ids
<1>3. Decode(Encode(p)) = p
  <2>1. \A m \in id : id = {m}
    OBVIOUS
  <2> HIDE DEF id, items, p
  <2>2. Decode(Encode(Sio("EVENT", Namespace, id, {Array(items)}))) = Sio("EVENT", Namespace, id, {Array(items)})
    BY ONLY <2>1, RoundTrip
  <2>3. QED
    BY ONLY <1>1, <2>2
<1>4. Read[p] = p
  BY <1>2, <1>3 DEF Read
<1>5. items # <<>> /\ items[1] = Json("string", c)
  <2> DEFINE v == Json("string", c)
             w == Json("number", 7)
  <2>1. Items(Data(c)) \in {<<>>, <<w>>}
    BY DEF Data, Items, Array, Json
  <2>2. <<v>> \o <<>> = <<v>> /\ <<v>> \o <<w>> = <<v, w>>
    <3>1. v \in {v, w} /\ w \in {v, w} /\ <<v>> \in Seq({v, w})
      OBVIOUS
    <3> HIDE DEF v, w
    <3>2. QED
      BY ONLY <3>1, JoinedOne, ConcatEmptySeq
  <2>3. items \in {<<v>>, <<v, w>>}
    BY <2>1, <2>2
  <2> HIDE DEF v, w, items
  <2>4. QED
    BY <2>3 DEF v
<1>6. EventName(p) = {c}
  <2> HIDE DEF items, id
  <2>1. p.data = {Array(items)}
    BY <1>1 DEF Sio
  <2>2. /\ Array(items).kind = "array" /\ Array(items).content = items
        /\ items[1].kind = "string" /\ items[1].content = c
    BY <1>5 DEF Array, Json
  <2>3. {d \in p.data : d.kind = "array" /\ d.content # <<>> /\ d.content[1].kind = "string"} = {Array(items)}
    BY <1>5, <2>1, <2>2
  <2>4. QED
    BY <2>2, <2>3 DEF EventName
<1>7. p.type = "EVENT" /\ p.namespace = Namespace /\ p.id = id
  BY <1>1 DEF Sio
<1>8. QED
  BY <1>2, <1>4, <1>6, <1>7

\* So does the answer.
LEMMA AckRead ==
  ASSUME NEW c \in Calls, NEW n \in Ids
  PROVE  LET p == AckPacket(Namespace, n, Answer(c))
         IN  /\ p \in Packets /\ Read[p] = p
             /\ p.type = "ACK" /\ p.id = {n} /\ p.data = {Array(<<Answer(c)>>)}
<1> DEFINE p == AckPacket(Namespace, n, Answer(c))
<1>1. Items(Answer(c)) = <<Answer(c)>>
  BY DEF Items, Answer, Json
<1>2. p = Sio("ACK", Namespace, {n}, {Array(<<Answer(c)>>)})
  BY <1>1 DEF AckPacket
<1>3. p \in Packets
  BY DEF Packets, Ids
<1>4. Decode(Encode(p)) = p
  <2> DEFINE id == {n}
             items == <<Answer(c)>>
  <2>1. \A m \in id : id = {m}
    OBVIOUS
  <2>2. p = Sio("ACK", Namespace, id, {Array(items)})
    BY <1>2
  <2> HIDE DEF p, id, items
  <2>3. Decode(Encode(Sio("ACK", Namespace, id, {Array(items)}))) = Sio("ACK", Namespace, id, {Array(items)})
    BY ONLY <2>1, RoundTrip
  <2>4. QED
    BY ONLY <2>2, <2>3
<1>5. QED
  BY <1>2, <1>3, <1>4 DEF Read, Sio

LEMMA OthersRead ==
  /\ {ConnectPacket(Namespace, Auth), DisconnectPacket(Namespace), ConnectOk(Namespace, "sid"), ConnectError(Namespace)}
       \subseteq Packets
  /\ Read[ConnectPacket(Namespace, Auth)].type = "CONNECT"
  /\ Read[DisconnectPacket(Namespace)].type = "DISCONNECT"
  /\ Read[ConnectOk(Namespace, "sid")].type = "CONNECT"
  /\ Read[ConnectError(Namespace)].type = "CONNECT_ERROR"
  /\ \A n \in 1..MaxEvents : News(n) \in Packets /\ Read[News(n)].type = "EVENT"
<1>1. \A p \in Packets : Read[p].type = p.type
  <2>1. \A p \in Packets : Read[p] = Decode(Encode(p))
    BY DEF Read
  <2>2. QED
    BY <2>1, TypeKept
<1>2. {ConnectPacket(Namespace, Auth), DisconnectPacket(Namespace), ConnectOk(Namespace, "sid"), ConnectError(Namespace)}
        \subseteq Packets
  BY DEF Packets
<1>3. \A n \in 1..MaxEvents : News(n) \in Packets
  BY DEF Packets
<1>4. /\ ConnectPacket(Namespace, Auth).type = "CONNECT" /\ DisconnectPacket(Namespace).type = "DISCONNECT"
      /\ ConnectOk(Namespace, "sid").type = "CONNECT" /\ ConnectError(Namespace).type = "CONNECT_ERROR"
      /\ \A n \in 1..MaxEvents : News(n).type = "EVENT"
  BY DEF ConnectPacket, DisconnectPacket, ConnectOk, ConnectError, News, EventPacket, Sio
<1>5. QED
  BY <1>1, <1>2, <1>3, <1>4

-----------------------------------------------------------------------------
(* The invariant.                                                           *)

Stages == {"idle", "sending", "waiting", "done", "answered", "refused", "failed", "timed_out"}

Servers ==
  [socket : {"no", "joining", "joined", "left", "closed"}, asked : SUBSET Packets, events : Nat, early : Nat,
   pings : Nat, pongs : Nat, faults : Nat]

Typed ==
  /\ call \in [Calls -> [at : Stages, id : Nat, got : SUBSET {Array(<<Answer(c)>>) : c \in Calls}]]
  /\ counter \in Nat

Begun == {c \in Acked : call[c].at \notin {"idle", "refused"}}

\* Each acknowledged call that was begun has an id of its own, below the counter,
\* which has counted them; what is pending under an id is the call that has it.
Numbered ==
  /\ \A c \in Calls \ Acked : call[c].id = 0
  /\ \A c \in Begun : call[c].id < counter
  /\ \A c, d \in Begun : call[c].id = call[d].id => c = d
  /\ counter = Cardinality(Begun)
  /\ \A i \in DOMAIN pending : pending[i] \in Begun /\ call[pending[i]].id = i

\* The packets of the calls that were begun, and their answers.
Asks == {CallPacket(c, call[c].id) : c \in Begun}

Answers == {AckPacket(Namespace, call[c].id, Answer(c)) : c \in Begun}

Outwards ==
  {Frame("PONG"), Message(ConnectPacket(Namespace, Auth)), Message(DisconnectPacket(Namespace))}
    \cup {Message(p) : p \in {CallPacket(c, 0) : c \in Calls \ Acked} \cup Asks}

Messages ==
  {Message(ConnectOk(Namespace, "sid")), Message(ConnectError(Namespace)), Message(DisconnectPacket(Namespace))}
    \cup {Message(p) : p \in {News(n) : n \in 1..MaxEvents} \cup Answers}

Inwards == {Frame("PING"), Frame("CLOSE")} \cup Messages

\* Every call and every acknowledgement under way, in either direction, is of a
\* call that was begun; what follows the first frame goes to the dispatcher.
Lines ==
  /\ server \in Servers /\ server.asked \subseteq Asks
  /\ outgoing \in Seq(Outwards)
  /\ incoming \in Seq(Messages)
  /\ down \in Seq({Frame("OPEN")} \cup Inwards)
  /\ \A i \in DOMAIN down : down[i] \in Inwards \/ (i = 1 /\ phase = "opening")
  /\ phase = "opening" => reader = "no"

Inv == Typed /\ Numbered /\ Lines /\ AcksMatch

LEMMA Appended ==
  ASSUME NEW S, NEW s \in Seq(S), NEW e \in S
  PROVE  /\ Append(s, e) \in Seq(S)
         /\ \A i \in DOMAIN Append(s, e) : (i \in DOMAIN s /\ Append(s, e)[i] = s[i]) \/ Append(s, e)[i] = e
OBVIOUS

LEMMA Tailed ==
  ASSUME NEW S, NEW s \in Seq(S), s # <<>>
  PROVE  /\ Tail(s) \in Seq(S) /\ Head(s) = s[1] /\ 1 \in DOMAIN s /\ s[1] \in S
         /\ \A i \in DOMAIN Tail(s) : i + 1 \in DOMAIN s /\ i + 1 # 1 /\ Tail(s)[i] = s[i + 1]
OBVIOUS

LEMMA Shortened ==
  ASSUME NEW S, NEW s \in Seq(S), NEW n \in 0..Len(s)
  PROVE  /\ SubSeq(s, 1, n) \in Seq(S)
         /\ \A i \in DOMAIN SubSeq(s, 1, n) : i \in DOMAIN s /\ SubSeq(s, 1, n)[i] = s[i]
<1>1. \A i \in 1..n : s[i] \in S
  BY LenProperties
<1>2. SubSeq(s, 1, n) \in Seq(S) /\ Len(SubSeq(s, 1, n)) = n /\ \A i \in 1..n : SubSeq(s, 1, n)[i] = s[i]
  BY <1>1, LenProperties, SubSeqProperties
<1>3. DOMAIN SubSeq(s, 1, n) = 1..n /\ DOMAIN s = 1..Len(s) /\ Len(s) \in Nat
  BY <1>2, LenProperties
<1>4. QED
  BY <1>2, <1>3

LEMMA Widened ==
  ASSUME NEW S, NEW T, S \subseteq T, NEW s \in Seq(S)
  PROVE  s \in Seq(T)
OBVIOUS

LEMMA FramesTold ==
  /\ \A t : Frame(t).type = t
  /\ \A p : Message(p).type = "MESSAGE" /\ Message(p).data = Read[p]
BY DEF Frame, Message

\* Acked calls fit the ids.
LEMMA IdsFit ==
  ASSUME Typed, Numbered
  PROVE  /\ \A c \in (Calls \ Acked) \cup Begun : call[c].id \in Ids
         /\ Cardinality(Acked) \in Nat
<1>1. IsFiniteSet(Acked) /\ Acked \subseteq Calls
  BY CallsAssumption
<1>2. Begun \subseteq Acked
  BY DEF Begun
<1>3. Cardinality(Acked) \in Nat /\ Cardinality(Begun) <= Cardinality(Acked)
  BY <1>1, <1>2, FS_Subset, FS_CardinalityType
<1>4. counter = Cardinality(Begun) /\ counter \in Nat
  BY DEF Numbered, Typed
<1>5. ASSUME NEW c \in Begun
      PROVE  call[c].id \in Ids
  <2> DEFINE m == Cardinality(Acked)
             k == Cardinality(Begun)
             i == call[c].id
  <2>1. m \in Nat /\ k <= m /\ counter = k /\ counter \in Nat /\ i \in Nat /\ i < counter
    BY <1>1, <1>2, <1>3, <1>4 DEF Numbered, Typed
  <2>2. i \in 0..m
    <3> HIDE DEF m, k, i
    <3>1. QED
      BY ONLY <2>1
  <2>3. QED
    BY ONLY <2>2 DEF Ids
<1>6. \A c \in Calls \ Acked : call[c].id \in Ids
  BY <1>3 DEF Numbered, Ids
<1>7. QED
  BY <1>3, <1>5, <1>6

\* The fields of the packet of a call, and of its answer.
LEMMA AskFields ==
  ASSUME Typed, Numbered, NEW c \in Begun
  PROVE  LET p == CallPacket(c, call[c].id)
         IN  /\ p \in Packets /\ Read[p] = p
             /\ p.type = "EVENT" /\ p.namespace = Namespace /\ p.id = {call[c].id} /\ EventName(p) = {c}
<1> DEFINE n == call[c].id
           p == CallPacket(c, n)
<1>1. c \in Calls /\ c \in Acked /\ n \in Ids
  BY IdsFit, CallsAssumption DEF Begun
<1> HIDE DEF n
<1>2. /\ p \in Packets /\ Read[p] = p
      /\ p.type = "EVENT" /\ p.namespace = Namespace
      /\ p.id = (IF c \in Acked THEN {n} ELSE {})
      /\ EventName(p) = {c}
  BY ONLY <1>1, CallRead
<1>3. p.id = {n}
  BY <1>1, <1>2
<1>4. QED
  BY <1>2, <1>3 DEF n

LEMMA AnswerFields ==
  ASSUME Typed, Numbered, NEW c \in Begun
  PROVE  LET p == AckPacket(Namespace, call[c].id, Answer(c))
         IN  /\ p \in Packets /\ Read[p] = p
             /\ p.type = "ACK" /\ p.id = {call[c].id} /\ p.data = {Array(<<Answer(c)>>)}
<1> DEFINE n == call[c].id
           p == AckPacket(Namespace, n, Answer(c))
<1>1. c \in Calls /\ n \in Ids
  BY IdsFit, CallsAssumption DEF Begun
<1> HIDE DEF n
<1>2. /\ p \in Packets /\ Read[p] = p
      /\ p.type = "ACK" /\ p.id = {n} /\ p.data = {Array(<<Answer(c)>>)}
  BY ONLY <1>1, AckRead
<1>3. QED
  BY <1>2 DEF n

\* A message to the client that is read as an acknowledgement is the answer to a
\* call that was begun.
LEMMA OnlyAnswers ==
  ASSUME Typed, Numbered, NEW m \in Messages, m.data.type = "ACK"
  PROVE  \E c \in Begun : m.data.id = {call[c].id} /\ m.data.data = {Array(<<Answer(c)>>)}
<1>1. PICK p : /\ m = Message(p)
              /\ \/ p \in {ConnectOk(Namespace, "sid"), ConnectError(Namespace), DisconnectPacket(Namespace)}
                 \/ \E n \in 1..MaxEvents : p = News(n)
                 \/ p \in Answers
  BY DEF Messages
<1>2. Read[p].type = "ACK" /\ m.data = Read[p]
  BY <1>1, FramesTold
<1>3. p \in Answers
  BY <1>1, <1>2, OthersRead
<1>4. PICK c \in Begun : p = AckPacket(Namespace, call[c].id, Answer(c))
  BY <1>3 DEF Answers
<1>5. QED
  BY <1>2, <1>4, AnswerFields

LEMMA InitInv == Init => Inv
<1> SUFFICES ASSUME Init PROVE Inv
  OBVIOUS
<1>1. \A c \in Calls : call[c].at = "idle" /\ call[c].id = 0 /\ call[c].got = {}
  BY DEF Init
<1>2. Typed
  BY DEF Init, Stages, Typed
<1>3. Numbered
  <2>1. Begun = {}
    BY <1>1, CallsAssumption DEF Begun
  <2>2. Cardinality(Begun) = 0
    BY <2>1, FS_EmptySet
  <2>3. QED
    BY <1>1, <2>1, <2>2 DEF Numbered, Init
<1>4. Lines
  <2>1. down \in Seq({Frame("OPEN")} \cup Inwards) /\ \A i \in DOMAIN down : i = 1
    BY DEF Init
  <2>2. server \in Servers /\ server.asked = {}
    BY DEF Init, ServerInit, Servers
  <2>3. QED
    BY <2>1, <2>2 DEF Lines, Init
<1>5. AcksMatch
  BY <1>1, CallsAssumption DEF AcksMatch
<1>6. QED
  BY <1>2, <1>3, <1>4, <1>5 DEF Inv

-----------------------------------------------------------------------------
(* Calls and their ids.                                                     *)

CallsSame == call' = call /\ counter' = counter /\ pending' = pending

\* The steps that touch a call.
LEMMA CallSteps ==
  ASSUME [Next]_vars
  PROVE  \/ CallsSame
         \/ \E c \in Calls : CallStarts(c) \/ CallSends(c) \/ CallTimesOut(c)
         \/ DispatchAck
<1>1. CASE UNCHANGED vars
  BY <1>1 DEF CallsSame, vars, client
<1>2. CASE ConnectNext
  BY <1>2 DEF ConnectNext, Open, SendConnect, WaitForConnect, ConnectFails, CallsSame
<1>3. CASE ReaderNext
  BY <1>3 DEF ReaderNext, ReaderForwards, ReaderPongs, ReaderEnds, CallsSame
<1>4. CASE WriterNext
  BY <1>4 DEF WriterNext, WriterWrites, WriterEnds, CallsSame
<1>5. CASE DispatchNext
  BY <1>5 DEF DispatchNext, DispatchEvent, DispatchUnheard, HandlerReturns, DispatchEnds, CallsSame
<1>6. CASE On \/ Leave \/ LeaveSends
  BY <1>6 DEF On, Leave, LeaveSends, CallsSame
<1>7. CASE Environment
  BY <1>7 DEF Environment, ServerJoins, ServerEmits, ServerPings, ServerDisconnects, ServerCloses, LinkLost,
              ServerAnswers, ServerAct, client, CallsSame
<1>8. QED
  BY <1>1, <1>2, <1>3, <1>4, <1>5, <1>6, <1>7 DEF Next

CallsHold == Typed /\ Numbered /\ AcksMatch

\* Once begun a call keeps its id.
Lasting == \A c \in Begun : c \in Begun' /\ call'[c].id = call[c].id

\* A step that leaves ids, pending calls and acknowledged calls as they are.
LEMMA SameStep ==
  ASSUME CallsHold, Typed', counter' = counter, pending' = pending,
         \A c \in Calls : call'[c].id = call[c].id,
         \A c \in Acked : /\ call'[c].at \in {"idle", "refused"} <=> call[c].at \in {"idle", "refused"}
                          /\ call'[c].at \in {"sending", "waiting"} => call[c].at \in {"sending", "waiting"},
         \A c \in Calls : call'[c].at = "answered" => call[c].at = "answered" /\ call'[c].got = call[c].got
  PROVE  CallsHold' /\ Lasting
<1>1. Begun' = Begun /\ Begun \subseteq Calls /\ Acked \subseteq Calls
  BY CallsAssumption DEF Begun
<1>2. Numbered'
  BY <1>1 DEF CallsHold, Numbered
<1>3. AcksMatch'
  BY <1>1 DEF CallsHold, AcksMatch
<1>4. QED
  BY <1>1, <1>2, <1>3 DEF CallsHold, Lasting

LEMMA StartStep ==
  ASSUME CallsHold, NEW c \in Calls, CallStarts(c)
  PROVE  CallsHold' /\ Lasting
<1>1. /\ call \in [Calls -> [at : Stages, id : Nat, got : SUBSET {Array(<<Answer(d)>>) : d \in Calls}]]
      /\ counter \in Nat /\ call[c].at = "idle" /\ Acked \subseteq Calls /\ IsFiniteSet(Acked)
  BY CallsAssumption DEF CallsHold, Typed, CallStarts, MayStart
<1>2. CASE ~connected
  <2>1. call' = [call EXCEPT ![c].at = "refused"] /\ counter' = counter /\ pending' = pending
    BY <1>2 DEF CallStarts
  <2>2. /\ \A d \in Calls : d # c => call'[d] = call[d]
        /\ call'[c].at = "refused" /\ call'[c].id = call[c].id
    BY <1>1, <2>1
  <2>3. Typed'
    BY <1>1, <2>1 DEF Typed, Stages
  <2>4. QED
    BY <1>1, <2>1, <2>2, <2>3, SameStep
<1>3. CASE connected /\ c \in Acked
  <2>1. /\ call' = [call EXCEPT ![c] = [at |-> "sending", id |-> counter, got |-> {}]]
        /\ pending' = [i \in DOMAIN pending \cup {counter} |-> IF i = counter THEN c ELSE pending[i]]
        /\ counter' = counter + 1
    BY <1>3 DEF CallStarts
  <2>2. /\ \A d \in Calls : d # c => call'[d] = call[d]
        /\ call'[c].at = "sending" /\ call'[c].id = counter
    BY <1>1, <2>1
  <2>3. Begun' = Begun \cup {c} /\ c \notin Begun /\ Begun \subseteq Acked
    BY <1>1, <1>3, <2>2 DEF Begun
  <2>4. Cardinality(Begun') = counter'
    <3>1. IsFiniteSet(Begun)
      BY <1>1, <2>3, FS_Subset
    <3>2. Cardinality(Begun \cup {c}) = Cardinality(Begun) + 1
      BY <2>3, <3>1, FS_AddElement
    <3>3. counter = Cardinality(Begun)
      BY DEF CallsHold, Numbered
    <3>4. QED
      BY <2>1, <2>3, <3>2, <3>3
  <2>5. Typed'
    BY <1>1, <2>1 DEF Typed, Stages
  <2>6. /\ \A d \in Calls \ Acked : call[d].id = 0
        /\ \A d \in Begun : call[d].id < counter /\ call[d].id \in Nat
        /\ \A d, e \in Begun : call[d].id = call[e].id => d = e
        /\ \A i \in DOMAIN pending : pending[i] \in Begun /\ call[pending[i]].id = i
    BY <1>1, <2>3 DEF CallsHold, Numbered
  <2>7. \A d \in Begun : call'[d] = call[d] /\ call[d].id # counter
    BY <1>1, <2>2, <2>3, <2>6
  <2>8. /\ \A d \in Calls \ Acked : call'[d].id = 0
        /\ \A d \in Begun' : call'[d].id < counter'
    BY <1>1, <1>3, <2>1, <2>2, <2>3, <2>6, <2>7
  <2>9. \A d, e \in Begun' : call'[d].id = call'[e].id => d = e
    BY <2>2, <2>3, <2>6, <2>7
  <2>10. ASSUME NEW i \in DOMAIN pending'
         PROVE  pending'[i] \in Begun' /\ call'[pending'[i]].id = i
    <3>1. CASE i = counter
      BY <2>1, <2>2, <2>3, <3>1
    <3>2. CASE i # counter
      <4>1. i \in DOMAIN pending /\ pending'[i] = pending[i]
        BY <2>1, <3>2
      <4>2. QED
        BY <2>3, <2>6, <2>7, <4>1
    <3>3. QED
      BY <3>1, <3>2
  <2>11. Numbered'
    BY <2>4, <2>8, <2>9, <2>10 DEF Numbered
  <2>12. AcksMatch'
    <3>1. \A d \in Calls : call'[d].at = "answered" => call'[d].got = {Array(<<Answer(d)>>)}
      BY <1>1, <2>2 DEF CallsHold, AcksMatch
    <3>2. ASSUME NEW d \in Acked, call'[d].at \in {"sending", "waiting"}
          PROVE  call'[d].id \in DOMAIN pending' /\ pending'[call'[d].id] = d
      <4>1. CASE d = c
        BY <2>1, <2>2, <4>1
      <4>2. CASE d # c
        <5>1. call'[d] = call[d]
          BY <1>1, <2>2, <4>2
        <5>2. call[d].id \in DOMAIN pending /\ pending[call[d].id] = d /\ d \in Begun
          BY <3>2, <5>1 DEF CallsHold, AcksMatch, Begun
        <5>3. call[d].id # counter
          BY <2>7, <5>2
        <5>4. QED
          BY <2>1, <5>1, <5>2, <5>3
      <4>3. QED
        BY <4>1, <4>2
    <3>3. QED
      BY <3>1, <3>2 DEF AcksMatch
  <2>13. QED
    BY <2>3, <2>5, <2>7, <2>11, <2>12 DEF CallsHold, Lasting
<1>4. CASE connected /\ c \notin Acked
  <2>1. call' = [call EXCEPT ![c].at = "sending"] /\ counter' = counter /\ pending' = pending
    BY <1>4 DEF CallStarts
  <2>2. /\ \A d \in Calls : d # c => call'[d] = call[d]
        /\ call'[c].at = "sending" /\ call'[c].id = call[c].id
    BY <1>1, <2>1
  <2>3. Typed'
    BY <1>1, <2>1 DEF Typed, Stages
  <2>4. QED
    BY <1>1, <1>4, <2>1, <2>2, <2>3, SameStep
<1>5. QED
  BY <1>2, <1>3, <1>4

LEMMA SendStep ==
  ASSUME CallsHold, NEW c \in Calls, CallSends(c) \/ CallTimesOut(c)
  PROVE  CallsHold' /\ Lasting
<1>1. call \in [Calls -> [at : Stages, id : Nat, got : SUBSET {Array(<<Answer(d)>>) : d \in Calls}]]
  BY DEF CallsHold, Typed
<1>2. PICK stage \in {"failed", "waiting", "done", "timed_out"} :
        /\ call' = [call EXCEPT ![c].at = stage] /\ counter' = counter /\ pending' = pending
        /\ call[c].at \in {"sending", "waiting"}
  BY DEF CallSends, CallTimesOut
<1>3. /\ \A d \in Calls : d # c => call'[d] = call[d]
      /\ call'[c].at = stage /\ call'[c].id = call[c].id
  BY <1>1, <1>2
<1>4. Typed'
  <2>1. stage \in Stages
    BY DEF Stages
  <2>2. QED
    BY <1>1, <1>2, <2>1 DEF CallsHold, Typed
<1>5. Acked \subseteq Calls
  BY CallsAssumption
<1>6. QED
  BY <1>2, <1>3, <1>4, <1>5, SameStep

\* The answer goes to the call of its id, which is the one that was asked for it.
LEMMA AckStep ==
  ASSUME Inv, DispatchAck
  PROVE  CallsHold' /\ Lasting
<1>1. /\ call \in [Calls -> [at : Stages, id : Nat, got : SUBSET {Array(<<Answer(d)>>) : d \in Calls}]]
      /\ counter \in Nat /\ Begun \subseteq Acked /\ Acked \subseteq Calls
  BY CallsAssumption DEF Inv, Typed, Begun
<1> DEFINE p == Head(incoming).data
           ids == p.id \cap DOMAIN pending
<1>2. PICK a \in Begun : p.id = {call[a].id} /\ p.data = {Array(<<Answer(a)>>)}
  <2> DEFINE m == Head(incoming)
  <2>1. m.data.type = "ACK" /\ incoming # <<>>
    BY DEF DispatchAck, Receive
  <2>2. incoming \in Seq(Messages)
    BY DEF Inv, Lines
  <2>3. m \in Messages
    BY <2>1, <2>2
  <2> HIDE DEF m
  <2>4. \E a \in Begun : m.data.id = {call[a].id} /\ m.data.data = {Array(<<Answer(a)>>)}
    BY <2>1, <2>3, OnlyAnswers DEF Inv
  <2>5. QED
    BY <2>4 DEF m
<1>3. /\ pending' = [i \in DOMAIN pending \ ids |-> pending[i]]
      /\ call' = [c \in Calls |->
                    IF c \in {pending[i] : i \in ids} /\ call[c].at \in {"sending", "waiting"}
                    THEN [call[c] EXCEPT !.at = "answered", !.got = p.data]
                    ELSE call[c]]
      /\ counter' = counter
  BY DEF DispatchAck
<1> HIDE DEF p
<1>4. /\ \A c \in Calls \ Acked : call[c].id = 0
      /\ \A c \in Begun : call[c].id < counter
      /\ \A c, d \in Begun : call[c].id = call[d].id => c = d
      /\ counter = Cardinality(Begun)
      /\ \A i \in DOMAIN pending : pending[i] \in Begun /\ call[pending[i]].id = i
  BY DEF Inv, Numbered
<1>5. ids \subseteq {call[a].id} /\ {pending[i] : i \in ids} \subseteq {a}
  BY <1>2, <1>4
<1>6. \A c \in Calls : call'[c] = call[c] \/ (c = a /\ call[c].at \in {"sending", "waiting"}
                       /\ call'[c].at = "answered" /\ call'[c].id = call[c].id /\ call'[c].got = p.data)
  BY <1>1, <1>3, <1>5
<1>7. \A c \in Calls : call'[c].id = call[c].id
  BY <1>6
<1>8. Begun' = Begun
  BY <1>1, <1>6 DEF Begun
<1>9. Typed'
  <2>1. p.data \in SUBSET {Array(<<Answer(d)>>) : d \in Calls} /\ "answered" \in Stages
    BY <1>1, <1>2 DEF Stages
  <2>2. QED
    BY <1>1, <1>3, <2>1 DEF Typed
<1>10. Numbered'
  <2>1. \A i \in DOMAIN pending' : i \in DOMAIN pending /\ pending'[i] = pending[i]
    BY <1>3
  <2>2. \A i \in DOMAIN pending' : pending'[i] \in Begun /\ call'[pending'[i]].id = i
    BY <1>1, <1>4, <1>7, <2>1
  <2>3. \A c, d \in Begun : call'[c].id = call'[d].id => c = d
    <3>1. \A c \in Begun : call'[c].id = call[c].id
      BY <1>1, <1>7
    <3>2. QED
      BY <1>4, <3>1
  <2>4. /\ \A c \in Calls \ Acked : call'[c].id = 0
        /\ \A c \in Begun : call'[c].id < counter'
        /\ counter' = Cardinality(Begun)
    BY <1>1, <1>3, <1>4, <1>7
  <2>5. QED
    BY <1>8, <2>2, <2>3, <2>4 DEF Numbered
<1>11. AcksMatch'
  <2>1. \A c \in Calls : call'[c].at = "answered" => call'[c].got = {Array(<<Answer(c)>>)}
    BY <1>2, <1>6 DEF Inv, AcksMatch
  <2>2. ASSUME NEW c \in Acked, call'[c].at \in {"sending", "waiting"}
        PROVE  call'[c].id \in DOMAIN pending' /\ pending'[call'[c].id] = c
    <3>1. call'[c] = call[c] /\ c \in Calls
      BY <1>1, <1>6, <2>2
    <3>2. call[c].id \in DOMAIN pending /\ pending[call[c].id] = c /\ c \in Begun
      BY <2>2, <3>1 DEF Inv, AcksMatch, Begun
    <3>3. call[c].id \notin ids
      <4>1. SUFFICES ASSUME call[c].id \in ids PROVE FALSE
        OBVIOUS
      <4>2. c \in {pending[i] : i \in ids}
        BY <3>2, <4>1
      <4>3. call'[c] = [call[c] EXCEPT !.at = "answered", !.got = p.data] /\ call[c].at \in {"sending", "waiting"}
        BY <1>3, <2>2, <3>1, <4>2
      <4>4. call'[c].at = "answered"
        BY <1>1, <3>1, <4>3
      <4>5. QED
        BY <2>2, <4>4
    <3> DEFINE n == call[c].id
    <3>4. call'[c].id = n /\ n \in DOMAIN pending \ ids
      BY <3>1, <3>2, <3>3
    <3>5. pending' = [i \in DOMAIN pending \ ids |-> pending[i]] /\ pending[n] = c
      BY <1>3, <3>2
    <3> HIDE DEF ids, n
    <3>6. n \in DOMAIN pending' /\ pending'[n] = c
      BY <3>4, <3>5
    <3>7. QED
      BY <3>4, <3>6
  <2>3. QED
    BY <2>1, <2>2 DEF AcksMatch
<1>12. QED
  BY <1>1, <1>7, <1>8, <1>9, <1>10, <1>11 DEF CallsHold, Lasting

LEMMA CallsStep ==
  ASSUME Inv, [Next]_vars
  PROVE  CallsHold' /\ Lasting
<1>1. CallsHold
  BY DEF Inv, CallsHold
<1>2. CASE CallsSame
  <2>1. /\ Typed' /\ counter' = counter /\ pending' = pending
        /\ \A c \in Calls : call'[c] = call[c]
    BY <1>1, <1>2 DEF CallsSame, CallsHold, Typed
  <2>2. Acked \subseteq Calls
    BY CallsAssumption
  <2>3. QED
    BY <1>1, <2>1, <2>2, SameStep
<1>3. QED
  BY <1>1, <1>2, CallSteps, StartStep, SendStep, AckStep

-----------------------------------------------------------------------------
(* What is under way.                                                       *)

\* What was of a call that was begun stays so.
LEMMA Grown ==
  ASSUME Lasting
  PROVE  /\ Asks \subseteq Asks' /\ Outwards \subseteq Outwards'
         /\ Messages \subseteq Messages' /\ Inwards \subseteq Inwards'
<1>1. Asks \subseteq Asks' /\ Answers \subseteq Answers'
  BY DEF Lasting, Asks, Answers
<1>2. Outwards \subseteq Outwards'
  BY <1>1 DEF Outwards
<1>3. Messages \subseteq Messages'
  BY <1>1 DEF Messages
<1>4. QED
  BY <1>1, <1>2, <1>3 DEF Inwards

\* How a message that is appended or taken leaves a channel of S.
LEMMA Channels ==
  ASSUME NEW S, NEW s \in Seq(S)
  PROVE  /\ \A e \in S : Append(s, e) \in Seq(S)
         /\ s # <<>> => Tail(s) \in Seq(S) /\ Head(s) \in S
OBVIOUS

LEMMA OutgoingStep ==
  ASSUME Inv, [Next]_vars, Lasting
  PROVE  outgoing' \in Seq(Outwards')
<1>1. outgoing \in Seq(Outwards')
  BY Grown, Widened DEF Inv, Lines
<1>2. /\ Message(ConnectPacket(Namespace, Auth)) \in Outwards' /\ Message(DisconnectPacket(Namespace)) \in Outwards'
      /\ Frame("PONG") \in Outwards'
  BY DEF Outwards
<1>3. CASE UNCHANGED outgoing \/ outgoing' = <<>>
  BY <1>1, <1>3, EmptySeq
<1>4. CASE SendConnect \/ LeaveSends
  BY <1>1, <1>2, <1>4, Channels DEF SendConnect, LeaveSends
<1>5. CASE ReaderPongs
  BY <1>1, <1>2, <1>5, Channels DEF ReaderPongs
<1>6. CASE WriterWrites
  BY <1>1, <1>6, Channels DEF WriterWrites
<1>7. ASSUME NEW c \in Calls, CallSends(c) PROVE outgoing' \in Seq(Outwards')
  <2> DEFINE m == Message(CallPacket(c, call[c].id))
  <2>1. outgoing' = outgoing \/ outgoing' = Append(outgoing, m)
    BY <1>7 DEF CallSends
  <2>2. m \in Outwards
    <3>1. CASE c \in Acked
      <4>1. c \in Begun
        BY <1>7, <3>1 DEF CallSends, Begun
      <4>2. CallPacket(c, call[c].id) \in Asks
        BY <4>1 DEF Asks
      <4>3. QED
        BY <4>2 DEF Outwards
    <3>2. CASE c \notin Acked
      <4>1. call[c].id = 0
        BY <3>2 DEF Inv, Numbered
      <4>2. QED
        BY <3>2, <4>1 DEF Outwards
    <3>3. QED
      BY <3>1, <3>2
  <2> HIDE DEF m
  <2>3. m \in Outwards'
    BY <2>2, Grown
  <2>4. QED
    BY <1>1, <2>1, <2>3, Channels
<1>8. \/ UNCHANGED outgoing \/ outgoing' = <<>> \/ SendConnect \/ LeaveSends \/ ReaderPongs \/ WriterWrites
      \/ \E c \in Calls : CallSends(c)
  <2>1. CASE UNCHANGED vars
    BY <2>1 DEF vars, client
  <2>2. CASE ConnectNext
    BY <2>2 DEF ConnectNext, Open, WaitForConnect, ConnectFails
  <2>3. CASE ReaderNext
    BY <2>3 DEF ReaderNext, ReaderForwards, ReaderEnds
  <2>4. CASE WriterNext
    BY <2>4 DEF WriterNext, WriterEnds
  <2>5. CASE DispatchNext
    BY <2>5 DEF DispatchNext, DispatchEvent, DispatchUnheard, HandlerReturns, DispatchAck, DispatchEnds
  <2>6. CASE On \/ Leave \/ LeaveSends
    BY <2>6 DEF On, Leave
  <2>7. CASE Environment
    BY <2>7 DEF Environment, ServerJoins, ServerEmits, ServerPings, ServerDisconnects, ServerCloses, LinkLost,
                ServerAnswers, ServerAct, client
  <2>8. CASE \E c \in Calls : CallStarts(c) \/ CallSends(c) \/ CallTimesOut(c)
    BY <2>8 DEF CallStarts, CallTimesOut
  <2>9. QED
    BY <2>1, <2>2, <2>3, <2>4, <2>5, <2>6, <2>7, <2>8 DEF Next
<1>9. QED
  BY <1>3, <1>4, <1>5, <1>6, <1>7, <1>8

LEMMA IncomingStep ==
  ASSUME Inv, [Next]_vars, Lasting
  PROVE  incoming' \in Seq(Messages')
<1>1. incoming \in Seq(Messages')
  BY Grown, Widened DEF Inv, Lines
<1>2. CASE UNCHANGED incoming
  BY <1>1, <1>2
<1>3. CASE incoming # <<>> /\ incoming' = Tail(incoming)
  BY <1>1, <1>3, Channels
<1>4. CASE ReaderForwards
  <2> DEFINE m == Head(down)
  <2>1. m \in Inwards /\ m.type \notin {"PING", "CLOSE"}
    <3>1. phase # "opening" /\ down # <<>> /\ m.type \notin {"PING", "CLOSE"}
      BY <1>4 DEF ReaderForwards, Inv, Lines
    <3>2. m = down[1] /\ 1 \in DOMAIN down
      BY <3>1 DEF Inv, Lines
    <3>3. QED
      BY <3>1, <3>2 DEF Inv, Lines
  <2>2. UNCHANGED incoming \/ incoming' = Append(incoming, m)
    BY <1>4 DEF ReaderForwards
  <2> HIDE DEF m
  <2>3. m \in Messages
    BY <2>1, FramesTold DEF Inwards
  <2>4. m \in Messages'
    BY <2>3, Grown
  <2>5. QED
    BY <1>1, <2>2, <2>4, Channels
<1>5. UNCHANGED incoming \/ (incoming # <<>> /\ incoming' = Tail(incoming)) \/ ReaderForwards
  <2>1. CASE UNCHANGED vars
    BY <2>1 DEF vars, client
  <2>2. CASE ConnectNext
    BY <2>2 DEF ConnectNext, Open, SendConnect, WaitForConnect, ConnectFails
  <2>3. CASE ReaderNext
    BY <2>3 DEF ReaderNext, ReaderPongs, ReaderEnds
  <2>4. CASE WriterNext
    BY <2>4 DEF WriterNext, WriterWrites, WriterEnds
  <2>5. CASE DispatchNext
    BY <2>5 DEF DispatchNext, DispatchEvent, DispatchUnheard, HandlerReturns, DispatchAck, DispatchEnds, Receive
  <2>6. CASE On \/ Leave \/ LeaveSends
    BY <2>6 DEF On, Leave, LeaveSends
  <2>7. CASE Environment
    BY <2>7 DEF Environment, ServerJoins, ServerEmits, ServerPings, ServerDisconnects, ServerCloses, LinkLost,
                ServerAnswers, ServerAct, client
  <2>8. CASE \E c \in Calls : CallStarts(c) \/ CallSends(c) \/ CallTimesOut(c)
    BY <2>8 DEF CallStarts, CallSends, CallTimesOut
  <2>9. QED
    BY <2>1, <2>2, <2>3, <2>4, <2>5, <2>6, <2>7, <2>8 DEF Next
<1>6. QED
  BY <1>2, <1>3, <1>4, <1>5

\* Who fails or moves on has still been asked the same.
LEMMA ServerMoves ==
  ASSUME NEW s \in Servers, NEW t \in {"joined", "left", "closed"}
  PROVE  LET u == [s EXCEPT !.socket = t]
         IN  /\ u \in Servers /\ u.asked = s.asked
             /\ Failed(u) \in Servers /\ Failed(u).asked = s.asked
             /\ Failed(s) \in Servers /\ Failed(s).asked = s.asked
<1>1. ASSUME NEW v \in Servers PROVE Failed(v) \in Servers /\ Failed(v).asked = v.asked
  <2>1. v.faults + 1 \in Nat
    BY DEF Servers
  <2>2. QED
    BY <2>1 DEF Servers, Failed
<1> DEFINE u == [s EXCEPT !.socket = t]
<1>2. u \in Servers /\ u.asked = s.asked
  BY DEF Servers
<1> HIDE DEF u
<1>3. Failed(u) \in Servers /\ Failed(u).asked = s.asked /\ Failed(s) \in Servers /\ Failed(s).asked = s.asked
  BY <1>1, <1>2
<1>4. QED
  BY <1>2, <1>3 DEF u

\* The server answers only what it was asked.
LEMMA ServerSends ==
  ASSUME Inv, Environment
  PROVE  /\ server' \in Servers /\ server'.asked \subseteq server.asked
         /\ LinkLost \/ \E f \in Inwards : ServerAct(f)
<1>1. server \in Servers /\ server.asked \subseteq Asks
  BY DEF Inv, Lines
<1>2. CASE LinkLost
  BY <1>1, <1>2, ServerMoves DEF LinkLost
<1>3. CASE ServerJoins
  <2>1. Message(ConnectOk(Namespace, "sid")) \in Inwards /\ Message(ConnectError(Namespace)) \in Inwards
    BY DEF Inwards, Messages
  <2>2. server' \in Servers /\ server'.asked = server.asked
    <3>1. CASE server' = [server EXCEPT !.socket = "joined", !.early = server.events]
      BY <1>1, <3>1 DEF Servers
    <3>2. CASE server' = Failed([server EXCEPT !.socket = "left"])
      BY <1>1, <3>2, ServerMoves
    <3>3. QED
      BY <1>3, <3>1, <3>2 DEF ServerJoins
  <2>3. QED
    BY <1>3, <2>1, <2>2 DEF ServerJoins
<1>4. CASE ServerEmits
  <2>1. server.events \in Nat /\ server.events < MaxEvents /\ MaxEvents \in Nat
    BY <1>1, <1>4, CapAssumption DEF ServerEmits, Servers
  <2> DEFINE n == server.events + 1
  <2>2. n \in 1..MaxEvents
    BY <2>1
  <2>3. server' \in Servers /\ server'.asked = server.asked
    BY <1>1, <1>4 DEF ServerEmits, Servers
  <2>4. ServerAct(Message(News(n)))
    BY <1>4 DEF ServerEmits
  <2> HIDE DEF n
  <2>5. Message(News(n)) \in Inwards
    BY <2>2 DEF Inwards, Messages
  <2>6. QED
    BY <2>3, <2>4, <2>5
<1>5. CASE ServerPings
  <2>1. Frame("PING") \in Inwards
    BY DEF Inwards
  <2>2. server' \in Servers /\ server'.asked = server.asked
    BY <1>1, <1>5 DEF ServerPings, Servers
  <2>3. QED
    BY <1>5, <2>1, <2>2 DEF ServerPings
<1>6. CASE ServerDisconnects
  <2>1. Message(DisconnectPacket(Namespace)) \in Inwards
    BY DEF Inwards, Messages
  <2>2. server' \in Servers /\ server'.asked = server.asked
    BY <1>1, <1>6, ServerMoves DEF ServerDisconnects
  <2>3. QED
    BY <1>6, <2>1, <2>2 DEF ServerDisconnects
<1>7. CASE ServerCloses
  <2>1. Frame("CLOSE") \in Inwards
    BY DEF Inwards
  <2>2. server' \in Servers /\ server'.asked = server.asked
    BY <1>1, <1>7, ServerMoves DEF ServerCloses
  <2>3. QED
    BY <1>7, <2>1, <2>2 DEF ServerCloses
<1>8. ASSUME NEW p \in server.asked, ServerAnswers(p)
      PROVE  server' \in Servers /\ server'.asked \subseteq server.asked /\ \E f \in Inwards : ServerAct(f)
  <2>1. PICK c \in Begun : p = CallPacket(c, call[c].id)
    BY <1>1 DEF Asks
  <2>2. p.namespace = Namespace /\ p.id = {call[c].id} /\ EventName(p) = {c}
    BY <2>1, AskFields DEF Inv
  <2>3. ServerAct(Message(AckPacket(Namespace, call[c].id, Answer(c))))
    BY <1>8, <2>2 DEF ServerAnswers
  <2>4. Message(AckPacket(Namespace, call[c].id, Answer(c))) \in Inwards
    <3>1. AckPacket(Namespace, call[c].id, Answer(c)) \in Answers
      BY DEF Answers
    <3>2. QED
      BY <3>1 DEF Inwards, Messages
  <2>5. server' \in Servers /\ server'.asked \subseteq server.asked
    BY <1>1, <1>8 DEF ServerAnswers, Servers
  <2>6. QED
    BY <2>3, <2>4, <2>5
<1>9. QED
  BY <1>2, <1>3, <1>4, <1>5, <1>6, <1>7, <1>8 DEF Environment

\* What the server is asked, it is asked by a call that was begun.
LEMMA ServerStep ==
  ASSUME Inv, [Next]_vars, Lasting
  PROVE  server' \in Servers /\ server'.asked \subseteq Asks'
<1>1. server \in Servers /\ server.asked \subseteq Asks /\ Asks \subseteq Asks'
  BY Grown DEF Inv, Lines
<1>2. CASE UNCHANGED server
  BY <1>1, <1>2
<1>3. CASE Environment
  BY <1>1, <1>3, ServerSends
<1>4. CASE WriterWrites
  <2> DEFINE f == Head(outgoing)
  <2>1. server' = server \/ server' = Receives(server, f)
    BY <1>4 DEF WriterWrites
  <2>2. f \in Outwards
    BY <1>4 DEF WriterWrites, Inv, Lines
  <2> HIDE DEF f
  <2>3. CASE f = Frame("PONG")
    BY <1>1, <2>1, <2>3, FramesTold DEF Receives, Servers
  <2>4. CASE f \in {Message(ConnectPacket(Namespace, Auth)), Message(DisconnectPacket(Namespace))}
    <3>1. f.type = "MESSAGE" /\ f.data.type \in {"CONNECT", "DISCONNECT"}
      BY <2>4, FramesTold, OthersRead
    <3>2. Receives(server, f) \in Servers /\ Receives(server, f).asked = server.asked
      BY <1>1, <3>1 DEF Receives, Servers
    <3>3. QED
      BY <1>1, <2>1, <3>2
  <2>5. ASSUME NEW c \in Calls \ Acked, f = Message(CallPacket(c, 0))
        PROVE  server' \in Servers /\ server'.asked \subseteq Asks'
    <3>1. 0 \in Ids
      BY IdsFit DEF Inv, Ids
    <3> DEFINE p == CallPacket(c, 0)
    <3>2. /\ p \in Packets /\ Read[p] = p /\ p.type = "EVENT"
          /\ p.id = (IF c \in Acked THEN {0} ELSE {})
      BY <3>1, CallRead
    <3> HIDE DEF p
    <3>3. f = Message(p) /\ p.id = {}
      BY <2>5, <3>2 DEF p
    <3>4. f.type = "MESSAGE" /\ f.data = p
      BY <3>2, <3>3, FramesTold
    <3>5. Receives(server, f) = server
      BY <3>2, <3>3, <3>4 DEF Receives
    <3>6. QED
      BY <1>1, <2>1, <3>5
  <2>6. ASSUME NEW c \in Begun, f = Message(CallPacket(c, call[c].id))
        PROVE  server' \in Servers /\ server'.asked \subseteq Asks'
    <3> DEFINE p == CallPacket(c, call[c].id)
    <3>1. p \in Packets /\ Read[p] = p /\ p.type = "EVENT" /\ p.id # {} /\ p \in Asks
      BY AskFields DEF Inv, Asks
    <3> HIDE DEF p
    <3>2. f.type = "MESSAGE" /\ f.data = p
      BY <2>6, <3>1, FramesTold DEF p
    <3>3. Receives(server, f) = [server EXCEPT !.asked = @ \cup {p}]
      BY <3>1, <3>2 DEF Receives
    <3>4. Receives(server, f) \in Servers /\ Receives(server, f).asked = server.asked \cup {p}
      BY <1>1, <3>1, <3>3 DEF Servers
    <3>5. QED
      BY <1>1, <2>1, <3>1, <3>4
  <2>7. QED
    BY <2>2, <2>3, <2>4, <2>5, <2>6 DEF Outwards, Asks
<1>5. UNCHANGED server \/ Environment \/ WriterWrites
  <2>1. CASE UNCHANGED vars
    BY <2>1 DEF vars
  <2>2. CASE ConnectNext
    BY <2>2 DEF ConnectNext, Open, SendConnect, WaitForConnect, ConnectFails
  <2>3. CASE ReaderNext
    BY <2>3 DEF ReaderNext, ReaderForwards, ReaderPongs, ReaderEnds
  <2>4. CASE WriterNext
    BY <2>4 DEF WriterNext, WriterEnds
  <2>5. CASE DispatchNext
    BY <2>5 DEF DispatchNext, DispatchEvent, DispatchUnheard, HandlerReturns, DispatchAck, DispatchEnds
  <2>6. CASE On \/ Leave \/ LeaveSends
    BY <2>6 DEF On, Leave, LeaveSends
  <2>7. CASE \E c \in Calls : CallStarts(c) \/ CallSends(c) \/ CallTimesOut(c)
    BY <2>7 DEF CallStarts, CallSends, CallTimesOut
  <2>8. QED
    BY <2>1, <2>2, <2>3, <2>4, <2>5, <2>6, <2>7 DEF Next
<1>6. QED
  BY <1>2, <1>3, <1>4, <1>5

LEMMA DownStep ==
  ASSUME Inv, [Next]_vars, Lasting
  PROVE  /\ down' \in Seq({Frame("OPEN")} \cup Inwards')
         /\ \A i \in DOMAIN down' : down'[i] \in Inwards' \/ (i = 1 /\ phase' = "opening")
         /\ phase' = "opening" => reader' = "no"
<1> DEFINE F == {Frame("OPEN")} \cup Inwards'
           Came == /\ down' \in Seq(F)
                   /\ \A i \in DOMAIN down' : down'[i] \in Inwards' \/ (i = 1 /\ phase' = "opening")
           Opens == phase' = "opening" => phase = "opening" /\ reader' = "no"
<1>1. /\ down \in Seq(F) /\ Inwards \subseteq Inwards'
      /\ \A i \in DOMAIN down : down[i] \in Inwards' \/ (i = 1 /\ phase = "opening")
      /\ phase = "opening" => reader = "no"
  <2>1. down \in Seq({Frame("OPEN")} \cup Inwards) /\ Inwards \subseteq Inwards'
    BY Grown DEF Inv, Lines
  <2>2. down \in Seq(F)
    BY <2>1, Widened
  <2>3. QED
    BY <2>1, <2>2 DEF Inv, Lines
<1> HIDE DEF F
<1>2. ASSUME down' = down, phase' = phase \/ down = <<>> \/ phase # "opening" PROVE Came
  BY <1>1, <1>2
<1>3. ASSUME down # <<>>, down' = Tail(down) PROVE Came
  BY <1>1, <1>3, Tailed
<1>4. ASSUME NEW f \in Inwards', down' = Append(down, f), phase' = phase PROVE Came
  <2>1. f \in F
    BY DEF F
  <2>2. QED
    BY <1>1, <1>4, <2>1, Appended
<1>5. ASSUME NEW n \in 0..Len(down), down' = SubSeq(down, 1, n), phase' = phase PROVE Came
  BY <1>1, <1>5, Shortened
<1>6. Came /\ Opens
  <2>1. CASE UNCHANGED vars
    BY <1>1, <1>2, <2>1 DEF vars, client, network
  <2>2. CASE Open
    BY <1>2, <1>3, <2>2 DEF Open
  <2>3. CASE SendConnect \/ WaitForConnect \/ ConnectFails
    BY <1>2, <2>3 DEF SendConnect, WaitForConnect, ConnectFails, network
  <2>4. CASE ReaderNext
    BY <1>1, <1>2, <1>3, <2>4 DEF ReaderNext, ReaderForwards, ReaderPongs, ReaderEnds
  <2>5. CASE WriterNext
    BY <1>1, <1>2, <2>5 DEF WriterNext, WriterWrites, WriterEnds, network
  <2>6. CASE DispatchNext
    BY <1>1, <1>2, <2>6 DEF DispatchNext, DispatchEvent, DispatchUnheard, HandlerReturns, DispatchAck, DispatchEnds,
                            network
  <2>7. CASE On \/ Leave \/ LeaveSends
    BY <1>1, <1>2, <2>7 DEF On, Leave, LeaveSends, network
  <2>8. CASE \E c \in Calls : CallStarts(c) \/ CallSends(c) \/ CallTimesOut(c)
    BY <1>1, <1>2, <2>8 DEF CallStarts, CallSends, CallTimesOut, network
  <2>9. CASE LinkLost
    BY <1>1, <1>5, <2>9 DEF LinkLost, client
  <2>10. ASSUME NEW f \in Inwards, ServerAct(f) PROVE Came /\ Opens
    BY <1>1, <1>4, <2>10 DEF ServerAct, client
  <2>11. CASE Environment
    BY <2>9, <2>10, <2>11, ServerSends
  <2>12. QED
    BY <2>1, <2>2, <2>3, <2>4, <2>5, <2>6, <2>7, <2>8, <2>11 DEF Next, ConnectNext
<1>7. QED
  BY <1>6 DEF F

LEMMA NextInv == Inv /\ [Next]_vars => Inv'
<1> SUFFICES ASSUME Inv, [Next]_vars PROVE Inv'
  OBVIOUS
<1>1. CallsHold' /\ Lasting
  BY CallsStep
<1>2. Lines'
  BY <1>1, OutgoingStep, IncomingStep, ServerStep, DownStep DEF Lines
<1>3. QED
  BY <1>1, <1>2 DEF Inv, CallsHold

\* A call gets the answer to its own event, whatever overlaps and whoever gave
\* up, and no id is used twice: for any calls, capacities and bounds
\* (client.rs:264-299).
THEOREM AcksMatched == Spec => []AcksMatch
<1>1. Inv => AcksMatch
  BY DEF Inv
<1>2. QED
  BY <1>1, InitInv, NextInv, PTL DEF Spec

-----------------------------------------------------------------------------
(* Types.                                                                   *)

Controls ==
  /\ phase \in {"opening", "connecting", "joining", "running", "failed"}
  /\ connected \in BOOLEAN /\ listening \in BOOLEAN
  /\ missed \in Nat
  /\ leaving \in {"no", "sending", "done"}
  /\ dispatch \in {"no", "run", "handler", "ended"}
  /\ reader \in {"no", "run", "ended"} /\ writer \in {"no", "run", "ended"}
  /\ link \in {"up", "lost"}

Bounded == Len(incoming) <= Cap /\ Len(outgoing) <= Cap

\* A channel stays as it is, gives up a packet or all, or takes one that it has room for.
Moves(chan, after) ==
  \/ after = chan
  \/ after = <<>>
  \/ chan # <<>> /\ after = Tail(chan)
  \/ Room(chan) /\ \E e : after = Append(chan, e)

LEMMA RoomKept ==
  ASSUME NEW S, NEW s \in Seq(S), NEW t, Len(s) <= Cap, Moves(s, t)
  PROVE  Len(t) <= Cap
<1>1. Cap \in Nat /\ Len(s) \in Nat
  BY CapAssumption
<1>2. CASE t = s
  BY <1>2
<1>3. CASE t = <<>>
  BY <1>1, <1>3
<1>4. CASE s # <<>> /\ t = Tail(s)
  <2>1. Len(t) = Len(s) - 1
    BY <1>4
  <2>2. QED
    BY <1>1, <2>1
<1>5. ASSUME NEW e, Room(s), t = Append(s, e)
      PROVE  Len(t) <= Cap
  <2>1. s \in Seq(S \cup {e}) /\ e \in S \cup {e}
    OBVIOUS
  <2>2. Len(t) = Len(s) + 1
    BY <1>5, <2>1, AppendProperties
  <2>3. QED
    BY <1>1, <1>5, <2>2 DEF Room
<1>6. QED
  BY <1>2, <1>3, <1>4, <1>5 DEF Moves

LEMMA DispatchTouches ==
  ASSUME DispatchNext
  PROVE  /\ UNCHANGED <<phase, leaving, reader, writer, listening, link, outgoing>>
         /\ missed' \in {missed, missed + 1} /\ connected' \in {connected, FALSE}
         /\ dispatch' \in {dispatch, "run", "handler", "ended"}
         /\ incoming' = incoming \/ (incoming # <<>> /\ incoming' = Tail(incoming))
<1>1. CASE DispatchEvent
  BY <1>1 DEF DispatchEvent, Receive, network
<1>2. CASE DispatchUnheard
  BY <1>2 DEF DispatchUnheard, Receive, network
<1>3. CASE HandlerReturns
  BY <1>3 DEF HandlerReturns, heard, network
<1>4. CASE DispatchAck
  BY <1>4 DEF DispatchAck, Receive, heard, network
<1>5. CASE DispatchEnds
  BY <1>5 DEF DispatchEnds, Receive, heard, network
<1>6. QED
  BY <1>1, <1>2, <1>3, <1>4, <1>5 DEF DispatchNext

\* How the steps move the two channels.
LEMMA ChannelsMove ==
  ASSUME [Next]_vars
  PROVE  Moves(incoming, incoming') /\ Moves(outgoing, outgoing')
<1>1. CASE UNCHANGED vars
  BY <1>1 DEF Moves, vars, client
<1>2. CASE ConnectNext
  BY <1>2 DEF Moves, ConnectNext, Open, SendConnect, WaitForConnect, ConnectFails
<1>3. CASE ReaderNext
  BY <1>3 DEF Moves, ReaderNext, ReaderForwards, ReaderPongs, ReaderEnds
<1>4. CASE WriterNext
  BY <1>4 DEF Moves, WriterNext, WriterWrites, WriterEnds
<1>5. CASE DispatchNext
  BY <1>5, DispatchTouches DEF Moves
<1>6. CASE On \/ Leave \/ LeaveSends
  BY <1>6 DEF Moves, On, Leave, LeaveSends
<1>7. CASE Environment
  BY <1>7 DEF Moves, Environment, ServerJoins, ServerEmits, ServerPings, ServerDisconnects, ServerCloses, LinkLost,
              ServerAnswers, ServerAct, client
<1>8. ASSUME NEW c \in Calls, CallStarts(c) \/ CallSends(c) \/ CallTimesOut(c)
      PROVE  Moves(incoming, incoming') /\ Moves(outgoing, outgoing')
  BY <1>8 DEF Moves, CallStarts, CallSends, CallTimesOut
<1>9. QED
  BY <1>1, <1>2, <1>3, <1>4, <1>5, <1>6, <1>7, <1>8 DEF Next

LEMMA ControlsStep ==
  ASSUME Controls, [Next]_vars
  PROVE  Controls'
<1>1. CASE UNCHANGED vars
  BY <1>1 DEF Controls, vars, client, heard, network
<1>2. CASE Open \/ SendConnect \/ ConnectFails
  BY <1>2 DEF Open, SendConnect, ConnectFails, Controls, heard, network
<1>3. CASE WaitForConnect
  <2>1. /\ phase' \in {"running", "failed", phase} /\ connected' \in BOOLEAN /\ dispatch' \in {"run", dispatch}
        /\ UNCHANGED <<leaving, reader, writer, heard, network>>
    BY <1>3 DEF WaitForConnect
  <2>2. QED
    BY <2>1 DEF Controls, heard, network
<1>4. CASE ReaderNext
  BY <1>4 DEF ReaderNext, ReaderForwards, ReaderPongs, ReaderEnds, Controls, heard
<1>5. CASE WriterNext
  BY <1>5 DEF WriterNext, WriterWrites, WriterEnds, Controls, heard, network
<1>6. CASE DispatchNext
  <2>1. connected' \in BOOLEAN /\ listening' \in BOOLEAN
    BY <1>6, DispatchTouches, Zenon DEF Controls
  <2>2. /\ phase' = phase /\ leaving' = leaving /\ reader' = reader /\ writer' = writer /\ link' = link
        /\ missed' \in {missed, missed + 1}
        /\ dispatch' \in {dispatch, "run", "handler", "ended"}
    BY <1>6, DispatchTouches
  <2>3. missed' \in Nat
    BY <2>2 DEF Controls
  <2>4. dispatch' \in {"no", "run", "handler", "ended"}
    BY <2>2 DEF Controls
  <2>5. QED
    BY <2>1, <2>2, <2>3, <2>4 DEF Controls
<1>7. CASE On \/ Leave \/ LeaveSends
  BY <1>7 DEF On, Leave, LeaveSends, Controls, heard, network
<1>8. ASSUME NEW c \in Calls, CallStarts(c) \/ CallSends(c) \/ CallTimesOut(c)
      PROVE  Controls'
  BY <1>8 DEF CallStarts, CallSends, CallTimesOut, Controls, heard, network
<1>9. CASE Environment
  <2>1. UNCHANGED client /\ link' \in {link, "lost"}
    BY <1>9 DEF Environment, ServerJoins, ServerEmits, ServerAnswers, ServerPings, ServerDisconnects, ServerCloses,
                LinkLost, ServerAct
  <2>2. QED
    BY <2>1 DEF Controls, client, heard
<1>10. QED
  BY <1>1, <1>2, <1>3, <1>4, <1>5, <1>6, <1>7, <1>8, <1>9 DEF Next, ConnectNext

\* Both channels are tokio's of a fixed capacity (transport.rs:85-86),
\* stages and positions are what the tasks know, and what is pending was begun.
THEOREM TypeInvariant == Spec => []TypeOK
<1>1. Init => Controls /\ Bounded
  <2>1. Init => Controls
    <3> SUFFICES ASSUME Init PROVE Controls
      OBVIOUS
    <3>1. connected = FALSE /\ listening = FALSE
      BY Zenon DEF Init
    <3>2. /\ phase = "opening" /\ missed = 0 /\ leaving = "no" /\ dispatch = "no" /\ reader = "no" /\ writer = "no"
          /\ link = "up"
      BY Zenon DEF Init
    <3>3. connected \in BOOLEAN /\ listening \in BOOLEAN
      BY <3>1, Zenon
    <3>4. QED
      BY <3>2, <3>3 DEF Controls
  <2>2. Init => incoming = <<>> /\ outgoing = <<>>
    BY DEF Init
  <2>3. Len(<<>>) <= Cap
    BY CapAssumption
  <2>4. QED
    BY <2>1, <2>2, <2>3 DEF Bounded
<1>2. Inv /\ Controls /\ Bounded /\ [Next]_vars => Controls' /\ Bounded'
  <2> SUFFICES ASSUME Inv, Controls, Bounded, [Next]_vars PROVE Controls' /\ Bounded'
    OBVIOUS
  <2>1. incoming \in Seq(Messages) /\ outgoing \in Seq(Outwards)
    BY DEF Inv, Lines
  <2>2. QED
    BY <2>1, ControlsStep, ChannelsMove, RoomKept DEF Bounded
<1>3. Inv /\ Controls /\ Bounded => TypeOK
  <2> SUFFICES ASSUME Inv, Controls, Bounded PROVE TypeOK
    OBVIOUS
  <2>1. \A c \in Calls : /\ call[c].at \in Stages /\ call[c].id \in Nat
                         /\ call[c].got \subseteq {Array(<<Answer(d)>>) : d \in Calls}
    BY DEF Inv, Typed
  <2>2. \A i \in DOMAIN pending : pending[i] \in Begun /\ call[pending[i]].id = i
    BY DEF Inv, Numbered
  <2>3. Begun \subseteq Acked /\ Acked \subseteq Calls
    BY CallsAssumption DEF Begun
  <2>4. DOMAIN pending \subseteq Nat /\ \A i \in DOMAIN pending : pending[i] \in Acked
    BY <2>1, <2>2, <2>3
  <2>5. counter \in Nat
    BY DEF Inv, Typed
  <2>6. QED
    BY <2>1, <2>4, <2>5 DEF TypeOK, Controls, Bounded, Stages
<1>4. QED
  BY <1>1, <1>2, <1>3, InitInv, NextInv, PTL DEF Spec

-----------------------------------------------------------------------------
(* The order of the events.                                                 *)

IsNews(m) == m.type = "MESSAGE" /\ m.data.type = "EVENT"

IsConnect(m) == m.type = "MESSAGE" /\ m.data.type = "CONNECT"

NoConnect(chan) == \A i \in DOMAIN chan : ~IsConnect(chan[i])

\* The events in s follow event a without a gap, up to event b; the answer to
\* CONNECT, if it is among them, comes behind event e.
Line(s, a, b, e) ==
  \E f \in [0..Len(s) -> 0..MaxEvents] :
    /\ f[0] = a /\ f[Len(s)] = b
    /\ \A i \in 1..Len(s) :
         /\ IF IsNews(s[i]) THEN f[i] = f[i - 1] + 1 /\ s[i] = Message(News(f[i])) ELSE f[i] = f[i - 1]
         /\ IsConnect(s[i]) => f[i] = e

LEMMA LineTyped ==
  ASSUME NEW S, NEW s \in Seq(S), NEW a, NEW b, NEW e, Line(s, a, b, e)
  PROVE  a \in 0..MaxEvents /\ b \in 0..MaxEvents
<1>1. Len(s) \in Nat
  OBVIOUS
<1>2. QED
  BY <1>1 DEF Line

LEMMA LineEmpty ==
  ASSUME NEW a \in 0..MaxEvents, NEW e
  PROVE  Line(<<>>, a, a, e)
<1> DEFINE f == [i \in 0..0 |-> a]
<1>1. f \in [0..0 -> 0..MaxEvents] /\ f[0] = a
  OBVIOUS
<1> HIDE DEF f
<1>2. ASSUME NEW s, Len(s) = 0
      PROVE  Line(s, a, a, e)
  BY <1>1, <1>2 DEF Line
<1>3. QED
  BY <1>2

\* A frame at the end: the next event, or none.
LEMMA LineAppend ==
  ASSUME NEW S, NEW s \in Seq(S), NEW m \in S, NEW a, NEW b, NEW c \in 0..MaxEvents, NEW e, Line(s, a, b, e),
         IF IsNews(m) THEN c = b + 1 /\ m = Message(News(c)) ELSE c = b,
         IsConnect(m) => c = e
  PROVE  Line(Append(s, m), a, c, e)
<1> DEFINE t == Append(s, m)
           l == Len(s)
<1>1. /\ l \in Nat /\ Len(t) = l + 1 /\ t[l + 1] = m
      /\ \A i \in 1..l : t[i] = s[i]
  OBVIOUS
<1>2. PICK f \in [0..l -> 0..MaxEvents] :
        /\ f[0] = a /\ f[l] = b
        /\ \A i \in 1..l :
             /\ IF IsNews(s[i]) THEN f[i] = f[i - 1] + 1 /\ s[i] = Message(News(f[i])) ELSE f[i] = f[i - 1]
             /\ IsConnect(s[i]) => f[i] = e
  BY DEF Line
<1> HIDE DEF t, l
<1> DEFINE g == [i \in 0..l + 1 |-> IF i = l + 1 THEN c ELSE f[i]]
<1>3. /\ g \in [0..l + 1 -> 0..MaxEvents] /\ g[l + 1] = c
      /\ \A i \in 0..l : g[i] = f[i]
  BY <1>1, <1>2
<1> HIDE DEF g
<1>4. ASSUME NEW i \in 1..l + 1
      PROVE  /\ IF IsNews(t[i]) THEN g[i] = g[i - 1] + 1 /\ t[i] = Message(News(g[i])) ELSE g[i] = g[i - 1]
             /\ IsConnect(t[i]) => g[i] = e
  <2>1. CASE i = l + 1
    <3>1. t[i] = m /\ g[i] = c /\ g[i - 1] = b
      BY <1>1, <1>2, <1>3, <2>1
    <3>2. QED
      BY <3>1
  <2>2. CASE i # l + 1
    <3>1. i \in 1..l /\ i \in 0..l /\ i - 1 \in 0..l
      BY <1>1, <2>2
    <3>2. t[i] = s[i] /\ g[i] = f[i] /\ g[i - 1] = f[i - 1]
      BY <1>1, <1>3, <3>1
    <3>3. QED
      BY <1>2, <3>1, <3>2
  <2>3. QED
    BY <2>1, <2>2
<1>5. 0 \in 0..l /\ l + 1 \in Nat
  BY <1>1
<1>6. Line(t, a, c, e)
  BY <1>1, <1>2, <1>3, <1>4, <1>5, ZenonT(30) DEF Line
<1>7. QED
  BY <1>6 DEF t

\* The first frame is taken: the next event, or none.
LEMMA LineTail ==
  ASSUME NEW S, NEW s \in Seq(S), s # <<>>, NEW a, NEW b, NEW e, Line(s, a, b, e)
  PROVE  /\ IsNews(Head(s)) => a + 1 \in 0..MaxEvents /\ Head(s) = Message(News(a + 1)) /\ Line(Tail(s), a + 1, b, e)
         /\ ~IsNews(Head(s)) => Line(Tail(s), a, b, e)
         /\ IsConnect(Head(s)) /\ ~IsNews(Head(s)) => a = e
<1> DEFINE t == Tail(s)
           l == Len(s)
           h == Head(s)
<1>1. /\ l \in Nat /\ l >= 1 /\ Len(t) = l - 1 /\ h = s[1]
      /\ \A i \in 1..l - 1 : t[i] = s[i + 1]
  OBVIOUS
<1>2. PICK f \in [0..l -> 0..MaxEvents] :
        /\ f[0] = a /\ f[l] = b
        /\ \A i \in 1..l :
             /\ IF IsNews(s[i]) THEN f[i] = f[i - 1] + 1 /\ s[i] = Message(News(f[i])) ELSE f[i] = f[i - 1]
             /\ IsConnect(s[i]) => f[i] = e
  BY DEF Line
<1> HIDE DEF t, l, h
<1> DEFINE g == [i \in 0..l - 1 |-> f[i + 1]]
<1>3. /\ g \in [0..l - 1 -> 0..MaxEvents]
      /\ \A i \in 0..l - 1 : g[i] = f[i + 1]
  BY <1>1, <1>2
<1> HIDE DEF g
<1>4. 1 \in 1..l /\ 1 - 1 = 0 /\ f[1] \in 0..MaxEvents
  BY <1>1, <1>2
<1>5. /\ IF IsNews(h) THEN f[1] = a + 1 /\ h = Message(News(f[1])) ELSE f[1] = a
      /\ IsConnect(h) => f[1] = e
  BY <1>1, <1>2, <1>4
<1>6. ASSUME NEW i \in 1..l - 1
      PROVE  /\ IF IsNews(t[i]) THEN g[i] = g[i - 1] + 1 /\ t[i] = Message(News(g[i])) ELSE g[i] = g[i - 1]
             /\ IsConnect(t[i]) => g[i] = e
  <2>1. /\ i + 1 \in 1..l /\ i \in 0..l - 1 /\ i - 1 \in 0..l - 1 /\ (i + 1) - 1 = i /\ (i - 1) + 1 = i
    BY <1>1
  <2>2. t[i] = s[i + 1] /\ g[i] = f[i + 1] /\ g[i - 1] = f[i]
    BY <1>1, <1>3, <2>1
  <2>3. QED
    BY <1>2, <2>1, <2>2
<1>7. Line(t, f[1], b, e)
  <2>1. g[0] = f[1] /\ g[l - 1] = b
    BY <1>1, <1>2, <1>3
  <2>2. QED
    BY <1>1, <1>3, <1>6, <2>1, ZenonT(30) DEF Line
<1>8. QED
  BY <1>4, <1>5, <1>7 DEF t, h

LEMMA LinePrefix ==
  ASSUME NEW S, NEW s \in Seq(S), NEW n \in 0..Len(s), NEW a, NEW b, NEW e, Line(s, a, b, e)
  PROVE  \E c : Line(SubSeq(s, 1, n), a, c, e)
<1> DEFINE t == SubSeq(s, 1, n)
           l == Len(s)
<1>1. /\ l \in Nat /\ n \in Nat /\ n <= l /\ Len(t) = n
      /\ \A i \in 1..n : t[i] = s[i]
  <2>1. \A i \in 1..n : s[i] \in S
    BY LenProperties
  <2>2. QED
    BY <2>1, LenProperties, SubSeqProperties
<1>2. PICK f \in [0..l -> 0..MaxEvents] :
        /\ f[0] = a /\ f[l] = b
        /\ \A i \in 1..l :
             /\ IF IsNews(s[i]) THEN f[i] = f[i - 1] + 1 /\ s[i] = Message(News(f[i])) ELSE f[i] = f[i - 1]
             /\ IsConnect(s[i]) => f[i] = e
  BY DEF Line
<1> HIDE DEF t, l
<1> DEFINE g == [i \in 0..n |-> f[i]]
<1>3. /\ g \in [0..n -> 0..MaxEvents]
      /\ \A i \in 0..n : g[i] = f[i]
  BY <1>1, <1>2
<1> HIDE DEF g
<1>4. ASSUME NEW i \in 1..n
      PROVE  /\ IF IsNews(t[i]) THEN g[i] = g[i - 1] + 1 /\ t[i] = Message(News(g[i])) ELSE g[i] = g[i - 1]
             /\ IsConnect(t[i]) => g[i] = e
  <2>1. i \in 1..l /\ i \in 0..n /\ i - 1 \in 0..n
    BY <1>1
  <2>2. QED
    BY <1>1, <1>2, <1>3, <2>1
<1>5. Line(t, a, f[n], e)
  <2>1. 0 \in 0..n /\ n \in 0..n
    BY <1>1
  <2>2. g[0] = a /\ g[n] = f[n]
    BY <1>2, <1>3, <2>1
  <2>3. QED
    BY <1>1, <1>3, <1>4, <2>2 DEF Line
<1>6. QED
  BY <1>5 DEF t

\* Without an answer to CONNECT it does not matter where that belongs.
LEMMA LineAnywhere ==
  ASSUME NEW S, NEW s \in Seq(S), NEW a, NEW b, NEW e, NEW d, Line(s, a, b, e), NoConnect(s)
  PROVE  Line(s, a, b, d)
<1>1. DOMAIN s = 1..Len(s)
  OBVIOUS
<1>2. QED
  BY <1>1 DEF Line, NoConnect

\* A frame goes from the head of one channel to the end of the other.
LEMMA LineMoves ==
  ASSUME NEW S, NEW s \in Seq(S), NEW T, NEW t \in Seq(T), t # <<>>, Head(t) \in S,
         NEW a, NEW b, NEW c, NEW e, Line(s, a, b, e), Line(t, b, c, e)
  PROVE  \E d : Line(Append(s, Head(t)), a, d, e) /\ Line(Tail(t), d, c, e)
<1> DEFINE m == Head(t)
<1>1. b \in 0..MaxEvents
  BY LineTyped
<1>2. /\ IsNews(m) => b + 1 \in 0..MaxEvents /\ m = Message(News(b + 1)) /\ Line(Tail(t), b + 1, c, e)
      /\ ~IsNews(m) => Line(Tail(t), b, c, e)
      /\ IsConnect(m) /\ ~IsNews(m) => b = e
  BY LineTail
<1> HIDE DEF m
<1>3. CASE IsNews(m)
  <2>1. ~IsConnect(m)
    BY <1>3 DEF IsNews, IsConnect
  <2>2. Line(Append(s, m), a, b + 1, e)
    BY <1>2, <1>3, <2>1, LineAppend DEF m
  <2>3. QED
    BY <1>2, <1>3, <2>2 DEF m
<1>4. CASE ~IsNews(m)
  <2>1. Line(Append(s, m), a, b, e)
    BY <1>1, <1>2, <1>4, LineAppend DEF m
  <2>2. QED
    BY <1>2, <1>4, <2>1 DEF m
<1>5. QED
  BY <1>3, <1>4

\* An event is read as it was sent.
LEMMA NewsRead ==
  ASSUME NEW n \in 1..MaxEvents
  PROVE  /\ Message(News(n)).type = "MESSAGE"
         /\ Message(News(n)).data.type = "EVENT"
         /\ EventArgs(Message(News(n)).data) = {<<Json("number", n)>>}
<1> DEFINE v == Json("string", "news")
           w == Json("number", n)
           items == <<v>> \o Items(w)
           pair == <<v, w>>
<1>1. Items(w) = <<w>>
  BY DEF Items, Json
<1>2. items = pair
  <2>1. v \in {v, w} /\ w \in {v, w}
    OBVIOUS
  <2> HIDE DEF v, w
  <2>2. <<v>> \o <<w>> = <<v, w>>
    BY ONLY <2>1, JoinedOne
  <2>3. QED
    BY <1>1, <2>2
<1>3. News(n) = Sio("EVENT", Namespace, {}, {Array(items)})
  BY DEF News, EventPacket
<1>4. News(n) \in Packets
  BY DEF Packets
<1>5. Decode(Encode(News(n))) = News(n)
  <2> DEFINE id == {}
             p == News(n)
  <2>1. \A m \in id : id = {m}
    OBVIOUS
  <2>2. p = Sio("EVENT", Namespace, id, {Array(items)})
    BY <1>3
  <2> HIDE DEF p, id, items
  <2>3. Decode(Encode(Sio("EVENT", Namespace, id, {Array(items)}))) = Sio("EVENT", Namespace, id, {Array(items)})
    BY ONLY <2>1, RoundTrip
  <2>4. p = Decode(Encode(p))
    BY ONLY <2>2, <2>3
  <2>5. QED
    BY <2>4 DEF p
<1>6. Message(News(n)).type = "MESSAGE" /\ Message(News(n)).data = News(n)
  BY <1>4, <1>5, FramesTold DEF Read
<1>7. News(n).type = "EVENT" /\ News(n).data = {Array(pair)}
  <2> HIDE DEF items, pair
  <2>1. News(n).type = "EVENT" /\ News(n).data = {Array(items)}
    BY <1>3 DEF Sio
  <2>2. QED
    BY <1>2, <2>1
<1>8. pair # <<>> /\ Tail(pair) = <<w>>
  OBVIOUS
<1>9. EventArgs(News(n)) = {<<w>>}
  <2> HIDE DEF pair, w
  <2>1. Array(pair).kind = "array" /\ Array(pair).content = pair
    BY DEF Array, Json
  <2>2. {d \in News(n).data : d.kind = "array" /\ d.content # <<>>} = {Array(pair)}
    BY <1>7, <1>8, <2>1
  <2>3. QED
    BY <1>8, <2>1, <2>2 DEF EventArgs
<1>10. QED
  BY <1>6, <1>7, <1>9

\* What is told apart in a channel.
LEMMA Kinds ==
  /\ \A n \in 1..MaxEvents : IsNews(Message(News(n))) /\ ~IsConnect(Message(News(n)))
  /\ IsConnect(Message(ConnectOk(Namespace, "sid"))) /\ ~IsNews(Message(ConnectOk(Namespace, "sid")))
  /\ \A m \in {Message(ConnectError(Namespace)), Message(DisconnectPacket(Namespace)), Frame("PONG"), Frame("PING"),
               Frame("CLOSE"), Frame("OPEN")} : ~IsNews(m) /\ ~IsConnect(m)
<1>1. \A n \in 1..MaxEvents : IsNews(Message(News(n))) /\ ~IsConnect(Message(News(n)))
  BY NewsRead DEF IsNews, IsConnect
<1>2. IsConnect(Message(ConnectOk(Namespace, "sid"))) /\ ~IsNews(Message(ConnectOk(Namespace, "sid")))
  BY FramesTold, OthersRead DEF IsNews, IsConnect
<1>3. \A m \in {Message(ConnectError(Namespace)), Message(DisconnectPacket(Namespace))} : ~IsNews(m) /\ ~IsConnect(m)
  BY FramesTold, OthersRead DEF IsNews, IsConnect
<1>4. \A m \in {Frame("PONG"), Frame("PING"), Frame("CLOSE"), Frame("OPEN")} : ~IsNews(m) /\ ~IsConnect(m)
  BY FramesTold DEF IsNews, IsConnect
<1>5. QED
  BY <1>1, <1>2, <1>3, <1>4

LEMMA Unconnected ==
  ASSUME NEW S, NEW s \in Seq(S)
  PROVE  /\ \A m \in S : NoConnect(Append(s, m)) <=> NoConnect(s) /\ ~IsConnect(m)
         /\ s # <<>> => (NoConnect(s) <=> NoConnect(Tail(s)) /\ ~IsConnect(Head(s)))
         /\ \A n \in 0..Len(s) : NoConnect(s) => NoConnect(SubSeq(s, 1, n))
<1>1. ASSUME NEW m \in S
      PROVE  NoConnect(Append(s, m)) <=> NoConnect(s) /\ ~IsConnect(m)
  <2> DEFINE t == Append(s, m)
             l == Len(s)
  <2>1. /\ l \in Nat /\ DOMAIN s = 1..l /\ DOMAIN t = 1..l + 1 /\ t[l + 1] = m
        /\ \A i \in 1..l : t[i] = s[i]
    OBVIOUS
  <2> HIDE DEF t, l
  <2>2. l + 1 \in 1..l + 1 /\ 1..l \subseteq 1..l + 1 /\ \A i \in 1..l + 1 : i \in 1..l \/ i = l + 1
    BY <2>1
  <2>3. NoConnect(t) <=> NoConnect(s) /\ ~IsConnect(m)
    BY <2>1, <2>2 DEF NoConnect
  <2>4. QED
    BY <2>3 DEF t
<1>2. ASSUME s # <<>>
      PROVE  NoConnect(s) <=> NoConnect(Tail(s)) /\ ~IsConnect(Head(s))
  <2> DEFINE t == Tail(s)
             l == Len(s)
  <2>1. /\ l \in Nat /\ l >= 1 /\ DOMAIN s = 1..l /\ DOMAIN t = 1..l - 1 /\ Head(s) = s[1]
        /\ \A i \in 1..l - 1 : t[i] = s[i + 1]
    BY <1>2
  <2> HIDE DEF t, l
  <2>2. /\ 1 \in 1..l /\ \A i \in 1..l - 1 : i + 1 \in 1..l
        /\ \A i \in 1..l : i = 1 \/ (i - 1 \in 1..l - 1 /\ (i - 1) + 1 = i)
    BY <2>1
  <2>3. NoConnect(s) => NoConnect(t) /\ ~IsConnect(Head(s))
    BY <2>1, <2>2 DEF NoConnect
  <2>4. ASSUME NoConnect(t), ~IsConnect(s[1]), NEW i \in 1..l
        PROVE  ~IsConnect(s[i])
    <3>1. CASE i = 1
      BY <2>4, <3>1
    <3>2. CASE i - 1 \in 1..l - 1 /\ (i - 1) + 1 = i
      BY <2>1, <2>4, <3>2 DEF NoConnect
    <3>3. QED
      BY <2>2, <3>1, <3>2
  <2>5. NoConnect(t) /\ ~IsConnect(Head(s)) => NoConnect(s)
    BY <2>1, <2>4 DEF NoConnect
  <2>6. QED
    BY <2>3, <2>5 DEF t
<1>3. \A n \in 0..Len(s) : NoConnect(s) => NoConnect(SubSeq(s, 1, n))
  BY Shortened DEF NoConnect
<1>4. QED
  BY <1>1, <1>2, <1>3

\* One CONNECT at most is under way.
OneConnect(chan) == \A i, j \in DOMAIN chan : IsConnect(chan[i]) /\ IsConnect(chan[j]) => i = j

LEMMA OneLeft ==
  ASSUME NEW S, NEW s \in Seq(S), OneConnect(s)
  PROVE  /\ \A m \in S : NoConnect(s) \/ ~IsConnect(m) => OneConnect(Append(s, m))
         /\ s # <<>> => OneConnect(Tail(s)) /\ (IsConnect(Head(s)) => NoConnect(Tail(s)))
<1>1. ASSUME NEW m \in S, NoConnect(s) \/ ~IsConnect(m)
      PROVE  OneConnect(Append(s, m))
  <2> DEFINE t == Append(s, m)
             l == Len(s)
  <2>1. /\ l \in Nat /\ DOMAIN s = 1..l /\ DOMAIN t = 1..l + 1 /\ t[l + 1] = m
        /\ \A i \in 1..l : t[i] = s[i]
    OBVIOUS
  <2> HIDE DEF t, l
  <2>2. \A i \in 1..l + 1 : i \in 1..l \/ i = l + 1
    BY <2>1
  <2>3. OneConnect(t)
    BY <1>1, <2>1, <2>2 DEF OneConnect, NoConnect
  <2>4. QED
    BY <2>3 DEF t
<1>2. ASSUME s # <<>>
      PROVE  OneConnect(Tail(s)) /\ (IsConnect(Head(s)) => NoConnect(Tail(s)))
  <2> DEFINE t == Tail(s)
             l == Len(s)
  <2>1. /\ l \in Nat /\ l >= 1 /\ DOMAIN s = 1..l /\ DOMAIN t = 1..l - 1 /\ Head(s) = s[1]
        /\ \A i \in 1..l - 1 : t[i] = s[i + 1]
    BY <1>2
  <2> HIDE DEF t, l
  <2>2. 1 \in 1..l /\ \A i \in 1..l - 1 : i \in Int /\ i + 1 \in 1..l /\ i + 1 # 1
    BY <2>1
  <2>3. ASSUME NEW i \in 1..l - 1, NEW j \in 1..l - 1, IsConnect(t[i]), IsConnect(t[j])
        PROVE  i = j
    <3>1. i + 1 = j + 1
      BY <2>1, <2>2, <2>3 DEF OneConnect
    <3>2. QED
      BY <2>2, <3>1
  <2>4. OneConnect(t)
    BY <2>1, <2>3 DEF OneConnect
  <2>5. IsConnect(Head(s)) => NoConnect(t)
    BY <2>1, <2>2 DEF OneConnect, NoConnect
  <2>6. QED
    BY <2>4, <2>5 DEF t
<1>3. QED
  BY <1>1, <1>2

\* What the server does to the client's side of the connection.
LEMMA EnvironmentSends ==
  ASSUME Inv, Environment
  PROVE  \/ LinkLost /\ server'.socket = server.socket /\ server'.early = server.early /\ server'.events = server.events
         \/ /\ ServerAct(Message(ConnectOk(Namespace, "sid")))
            /\ server.socket = "joining" /\ server'.socket = "joined"
            /\ server'.early = server.events /\ server'.events = server.events
         \/ /\ ServerAct(Message(News(server.events + 1)))
            /\ server'.socket = server.socket /\ server'.early = server.early
            /\ server'.events = server.events + 1 /\ server'.events \in 1..MaxEvents
         \/ /\ \E f \in Inwards : ServerAct(f) /\ ~IsNews(f) /\ ~IsConnect(f)
            /\ server'.socket \in {server.socket, "left", "closed"}
            /\ server'.early = server.early /\ server'.events = server.events
<1>1. server \in Servers /\ server.asked \subseteq Asks
  BY DEF Inv, Lines
<1> DEFINE Kept == server'.early = server.early /\ server'.events = server.events
<1>2. CASE LinkLost
  <2>1. server' = Failed(server)
    BY <1>2 DEF LinkLost
  <2>2. QED
    BY <1>1, <1>2, <2>1 DEF Failed, Servers
<1>3. CASE ServerJoins
  <2>1. CASE ServerAct(Message(ConnectOk(Namespace, "sid"))) /\ server' = [server EXCEPT !.socket = "joined", !.early = server.events]
    BY <1>1, <1>3, <2>1 DEF ServerJoins, Servers
  <2>2. CASE ServerAct(Message(ConnectError(Namespace))) /\ server' = Failed([server EXCEPT !.socket = "left"])
    <3>1. server'.socket = "left" /\ Kept
      BY <1>1, <2>2 DEF Failed, Servers
    <3>2. Message(ConnectError(Namespace)) \in Inwards
      BY DEF Inwards, Messages
    <3>3. QED
      BY <2>2, <3>1, <3>2, Kinds
  <2>3. QED
    BY <1>3, <2>1, <2>2 DEF ServerJoins
<1>4. CASE ServerEmits
  <2>1. server.events \in Nat /\ server.events < MaxEvents /\ MaxEvents \in Nat
    BY <1>1, <1>4, CapAssumption DEF ServerEmits, Servers
  <2>2. server.events + 1 \in 1..MaxEvents
    BY <2>1
  <2>3. /\ server'.socket = server.socket /\ server'.early = server.early /\ server'.events = server.events + 1
    BY <1>1, <1>4 DEF ServerEmits, Servers
  <2>4. ServerAct(Message(News(server.events + 1)))
    BY <1>4 DEF ServerEmits
  <2>5. QED
    BY <2>2, <2>3, <2>4
<1>5. CASE ServerPings
  <2>1. Frame("PING") \in Inwards /\ ServerAct(Frame("PING"))
    BY <1>5 DEF Inwards, ServerPings
  <2>2. server'.socket = server.socket /\ Kept
    BY <1>1, <1>5 DEF ServerPings, Servers
  <2>3. QED
    BY <2>1, <2>2, Kinds
<1>6. CASE ServerDisconnects
  <2>1. Message(DisconnectPacket(Namespace)) \in Inwards /\ ServerAct(Message(DisconnectPacket(Namespace)))
    BY <1>6 DEF Inwards, Messages, ServerDisconnects
  <2>2. server'.socket = "left" /\ Kept
    BY <1>1, <1>6 DEF ServerDisconnects, Failed, Servers
  <2>3. QED
    BY <2>1, <2>2, Kinds
<1>7. CASE ServerCloses
  <2>1. Frame("CLOSE") \in Inwards /\ ServerAct(Frame("CLOSE"))
    BY <1>7 DEF Inwards, ServerCloses
  <2>2. server'.socket = "closed" /\ Kept
    BY <1>1, <1>7 DEF ServerCloses, Failed, Servers
  <2>3. QED
    BY <2>1, <2>2, Kinds
<1>8. ASSUME NEW p \in server.asked, ServerAnswers(p)
      PROVE  /\ \E f \in Inwards : ServerAct(f) /\ ~IsNews(f) /\ ~IsConnect(f)
             /\ server'.socket = server.socket /\ Kept
  <2>1. PICK c \in Begun : p = CallPacket(c, call[c].id)
    BY <1>1 DEF Asks
  <2>2. p.namespace = Namespace /\ p.id = {call[c].id} /\ EventName(p) = {c}
    BY <2>1, AskFields DEF Inv
  <2> DEFINE q == AckPacket(Namespace, call[c].id, Answer(c))
  <2>3. ServerAct(Message(q))
    BY <1>8, <2>2 DEF ServerAnswers
  <2>4. Message(q) \in Inwards
    <3>1. q \in Answers
      BY DEF Answers
    <3>2. QED
      BY <3>1 DEF Inwards, Messages
  <2>5. Read[q].type = "ACK"
    BY AnswerFields DEF Inv
  <2> HIDE DEF q
  <2>6. ~IsNews(Message(q)) /\ ~IsConnect(Message(q))
    BY <2>5, FramesTold DEF IsNews, IsConnect
  <2>7. server'.socket = server.socket /\ Kept
    BY <1>1, <1>8 DEF ServerAnswers, Servers
  <2>8. QED
    BY <2>3, <2>4, <2>6, <2>7
<1>9. QED
  BY <1>2, <1>3, <1>4, <1>5, <1>6, <1>7, <1>8 DEF Environment

\* What is sent by a call is no CONNECT.
LEMMA CallsUnconnected ==
  ASSUME Inv, NEW c \in Calls, call[c].at # "idle"
  PROVE  ~IsConnect(Message(CallPacket(c, call[c].id))) \/ call[c].at = "refused"
<1> SUFFICES ASSUME call[c].at # "refused"
             PROVE  ~IsConnect(Message(CallPacket(c, call[c].id)))
  OBVIOUS
<1> DEFINE n == call[c].id
           p == CallPacket(c, n)
<1>1. n \in Ids
  BY IdsFit DEF Inv, Begun
<1>2. Read[p].type = "EVENT"
  <2> HIDE DEF n
  <2>1. QED
    BY <1>1, CallRead
<1> HIDE DEF p
<1>3. ~IsConnect(Message(p))
  BY <1>2, FramesTold DEF IsConnect
<1>4. QED
  BY <1>3 DEF p

Early == phase \in {"opening", "connecting"}

\* Nothing that the answer to CONNECT brings about is there before it.
Silent == dispatch = "no" /\ NoConnect(incoming) /\ NoConnect(down)

\* CONNECT is sent once, and from then to its answer the client is silent.
Entrance ==
  /\ Early => NoConnect(outgoing) /\ server.socket # "joining"
  /\ server.socket = "joining" => NoConnect(outgoing)
  /\ (Early \/ server.socket = "joining" \/ ~NoConnect(outgoing)) => Silent
  /\ OneConnect(outgoing)
  /\ phase = "running" <=> dispatch # "no"
  /\ phase = "opening" => incoming = <<>>

\* A step that asks for nothing and brings no answer.
LEMMA EntranceKept ==
  ASSUME Entrance,
         Early' => Early, server'.socket = "joining" => server.socket = "joining",
         NoConnect(outgoing) => NoConnect(outgoing)', OneConnect(outgoing)',
         Silent => Silent', phase' = "running" <=> dispatch' # "no", phase' = "opening" => incoming' = <<>>
  PROVE  Entrance'
BY DEF Entrance

LEMMA OutgoingKept ==
  ASSUME Inv, Entrance, NEW t,
         \/ t = outgoing \/ t = <<>>
         \/ \E m : ~IsConnect(m) /\ t = Append(outgoing, m)
  PROVE  (NoConnect(outgoing) => NoConnect(t)) /\ OneConnect(t)
<1>1. outgoing \in Seq(Outwards) /\ OneConnect(outgoing)
  BY DEF Inv, Lines, Entrance
<1>2. CASE t = outgoing
  BY <1>1, <1>2
<1>3. CASE t = <<>>
  BY <1>3 DEF NoConnect, OneConnect
<1>4. ASSUME NEW m, ~IsConnect(m), t = Append(outgoing, m)
      PROVE  (NoConnect(outgoing) => NoConnect(t)) /\ OneConnect(t)
  <2> DEFINE S == Outwards \cup {m}
  <2>1. outgoing \in Seq(S) /\ m \in S
    BY <1>1, Widened
  <2> HIDE DEF S
  <2>2. NoConnect(outgoing) => NoConnect(Append(outgoing, m))
    BY <1>4, <2>1, Unconnected
  <2>3. OneConnect(Append(outgoing, m))
    BY <1>1, <1>4, <2>1, OneLeft
  <2>4. QED
    BY <1>4, <2>2, <2>3
<1>5. QED
  BY <1>2, <1>3, <1>4

\* What is taken from a channel, or lost at its end, brings no answer.
LEMMA SilentKept ==
  ASSUME Inv
  PROVE  /\ NoConnect(incoming) /\ incoming # <<>> => NoConnect(Tail(incoming))
         /\ NoConnect(down) /\ down # <<>> => NoConnect(Tail(down)) /\ NoConnect(Append(incoming, Head(down))) = NoConnect(incoming)
         /\ \A n \in 0..Len(down) : NoConnect(down) => NoConnect(SubSeq(down, 1, n))
         /\ \A m : ~IsConnect(m) /\ NoConnect(down) => NoConnect(Append(down, m))
<1> DEFINE F == {Frame("OPEN")} \cup Inwards
<1>1. down \in Seq(F) /\ incoming \in Seq(F)
  <2>1. Messages \subseteq F /\ incoming \in Seq(Messages)
    BY DEF Inwards, Inv, Lines
  <2>2. incoming \in Seq(F)
    BY <2>1, Widened
  <2>3. QED
    BY <2>2 DEF Inv, Lines
<1> HIDE DEF F
<1>2. NoConnect(incoming) /\ incoming # <<>> => NoConnect(Tail(incoming))
  BY <1>1, Unconnected
<1>3. ASSUME NoConnect(down), down # <<>>
      PROVE  NoConnect(Tail(down)) /\ NoConnect(Append(incoming, Head(down))) = NoConnect(incoming)
  <2>1. Head(down) \in F
    BY <1>1, <1>3
  <2>2. NoConnect(Tail(down)) /\ ~IsConnect(Head(down))
    BY <1>1, <1>3, Unconnected
  <2>3. NoConnect(Append(incoming, Head(down))) <=> NoConnect(incoming) /\ ~IsConnect(Head(down))
    BY <1>1, <2>1, Unconnected
  <2>4. NoConnect(Append(incoming, Head(down))) <=> NoConnect(incoming)
    BY <2>2, <2>3
  <2>5. NoConnect(Append(incoming, Head(down))) = NoConnect(incoming)
    BY <2>4 DEF NoConnect
  <2>6. QED
    BY <2>2, <2>5
<1>4. \A n \in 0..Len(down) : NoConnect(down) => NoConnect(SubSeq(down, 1, n))
  BY <1>1, Unconnected
<1>5. ASSUME NEW m, ~IsConnect(m), NoConnect(down)
      PROVE  NoConnect(Append(down, m))
  <2> DEFINE S == F \cup {m}
  <2>1. down \in Seq(S) /\ m \in S
    BY <1>1, Widened
  <2> HIDE DEF S
  <2>2. QED
    BY <1>5, <2>1, Unconnected
<1>6. QED
  BY <1>2, <1>3, <1>4, <1>5

LEMMA EntranceStep ==
  ASSUME Inv, Entrance, [Next]_vars
  PROVE  Entrance'
<1> DEFINE Kept == /\ NoConnect(outgoing) => NoConnect(outgoing)'
                   /\ OneConnect(outgoing)'
<1>1. outgoing \in Seq(Outwards) /\ server \in Servers /\ (phase = "opening" => reader = "no")
  BY DEF Inv, Lines
<1>2. /\ phase = "running" <=> dispatch # "no"
      /\ phase = "opening" => incoming = <<>>
      /\ OneConnect(outgoing)
  BY DEF Entrance
<1>3. ASSUME UNCHANGED outgoing PROVE Kept
  BY <1>2, <1>3
<1>4. CASE UNCHANGED vars
  <2>1. UNCHANGED <<phase, outgoing, incoming, down, dispatch, server>>
    BY <1>4 DEF vars, client, network
  <2>2. QED
    BY <2>1 DEF Entrance, Early, Silent
<1>5. CASE Open
  <2>1. /\ phase = "opening" /\ phase' \in {"connecting", "failed"} /\ UNCHANGED <<dispatch, incoming, outgoing, server>>
        /\ down' = down \/ (down # <<>> /\ down' = Tail(down))
    BY <1>5 DEF Open
  <2>2. Silent => Silent'
    BY <2>1, SilentKept DEF Silent
  <2>3. QED
    BY <1>2, <1>3, <2>1, <2>2, EntranceKept DEF Early
<1>6. CASE SendConnect /\ phase' = "joining"
  <2> DEFINE m == Message(ConnectPacket(Namespace, Auth))
  <2>1. /\ phase = "connecting" /\ outgoing' = Append(outgoing, m) /\ UNCHANGED <<dispatch, incoming, down, server>>
    BY <1>6 DEF SendConnect, network
  <2>2. m \in Outwards
    BY DEF Outwards
  <2>3. NoConnect(outgoing) /\ server.socket # "joining" /\ Silent
    BY <2>1 DEF Entrance, Early
  <2> HIDE DEF m
  <2>4. OneConnect(outgoing')
    BY <1>1, <1>2, <2>1, <2>2, <2>3, OneLeft
  <2>5. Silent'
    BY <2>1, <2>3 DEF Silent
  <2>6. server'.socket # "joining" /\ ~Early' /\ phase' # "running" /\ dispatch' = "no"
    BY <1>6, <2>1, <2>3 DEF Early, Silent
  <2>7. QED
    BY <1>6, <2>4, <2>5, <2>6 DEF Entrance
<1>7. CASE (SendConnect /\ phase' # "joining") \/ ConnectFails
  <2>1. /\ phase \in {"connecting", "joining"} /\ phase' = "failed"
        /\ UNCHANGED <<dispatch, incoming, outgoing, down, server>>
    BY <1>7 DEF SendConnect, ConnectFails, network
  <2>2. Silent => Silent'
    BY <2>1 DEF Silent
  <2>3. QED
    BY <1>2, <1>3, <2>1, <2>2, EntranceKept DEF Early
<1>8. CASE WaitForConnect
  <2> DEFINE type == Head(incoming).data.type
  <2>1. /\ phase = "joining" /\ incoming # <<>> /\ incoming' = Tail(incoming) /\ UNCHANGED <<outgoing, down, server>>
        /\ type = "CONNECT" => phase' = "running" /\ dispatch' = "run"
        /\ type # "CONNECT" => phase' \in {"failed", "joining"} /\ dispatch' = dispatch
    BY <1>8 DEF WaitForConnect, network
  <2> HIDE DEF type
  <2>2. NoConnect(incoming) => NoConnect(incoming')
    BY <2>1, SilentKept
  <2>3. CASE type = "CONNECT"
    <3>1. ~NoConnect(incoming)
      <4>1. incoming \in Seq(Messages)
        BY DEF Inv, Lines
      <4>2. Head(incoming) \in Messages /\ \A m \in Messages : m.type = "MESSAGE"
        BY <2>1, <4>1, FramesTold DEF Messages
      <4>3. IsConnect(Head(incoming))
        BY <2>3, <4>2 DEF IsConnect, type
      <4>4. QED
        BY <2>1, <4>1, <4>3, Unconnected
    <3>2. ~Early /\ server.socket # "joining" /\ NoConnect(outgoing)
      BY <3>1 DEF Entrance, Silent
    <3>3. ~Early' /\ server'.socket # "joining" /\ NoConnect(outgoing')
      BY <2>1, <2>3, <3>2 DEF Early
    <3>4. phase' = "running" /\ dispatch' = "run" /\ OneConnect(outgoing')
      BY <1>2, <2>1, <2>3
    <3>5. QED
      BY <3>3, <3>4 DEF Entrance
  <2>4. CASE type # "CONNECT"
    <3>1. Silent => Silent'
      BY <2>1, <2>2, <2>4 DEF Silent
    <3>2. (phase' = "running" <=> dispatch' # "no") /\ phase' # "opening" /\ ~Early'
      BY <1>2, <2>1, <2>4 DEF Early
    <3>3. QED
      BY <1>3, <2>1, <3>1, <3>2, EntranceKept
  <2>5. QED
    BY <2>3, <2>4
<1>9. CASE ReaderForwards
  <2>1. /\ reader = "run" /\ down # <<>> /\ down' = Tail(down) /\ UNCHANGED <<phase, dispatch, outgoing, server>>
        /\ incoming' = incoming \/ incoming' = Append(incoming, Head(down))
    BY <1>9 DEF ReaderForwards
  <2>2. phase # "opening"
    BY <1>1, <2>1
  <2>3. Silent => Silent'
    BY <2>1, SilentKept DEF Silent
  <2>4. QED
    BY <1>2, <1>3, <2>1, <2>2, <2>3, EntranceKept DEF Early
<1>10. CASE ReaderPongs \/ ReaderEnds
  <2>1. /\ reader = "run" /\ UNCHANGED <<phase, dispatch, incoming, server>>
        /\ down' = down \/ (down # <<>> /\ down' = Tail(down))
        /\ outgoing' = outgoing \/ outgoing' = Append(outgoing, Frame("PONG"))
    BY <1>10 DEF ReaderPongs, ReaderEnds
  <2>2. Kept
    BY <2>1, OutgoingKept, Kinds
  <2>3. Silent => Silent'
    BY <2>1, SilentKept DEF Silent
  <2>4. QED
    BY <1>2, <2>1, <2>2, <2>3, EntranceKept DEF Early
<1>11. CASE WriterWrites
  <2> DEFINE f == Head(outgoing)
  <2>1. /\ outgoing # <<>> /\ outgoing' = Tail(outgoing) /\ UNCHANGED <<phase, dispatch, incoming, down>>
        /\ server' \in {server, Receives(server, f)}
    BY <1>11 DEF WriterWrites, network
  <2> HIDE DEF f
  <2>2. f \in Outwards
    BY <1>1, <2>1 DEF f
  <2>3. f.type \in {"PONG", "MESSAGE"}
    BY <2>2, FramesTold DEF Outwards
  <2>4. server'.socket = "joining" => server.socket = "joining" \/ IsConnect(f)
    <3>1. CASE f.type = "PONG"
      BY <1>1, <2>1, <3>1 DEF Receives, Servers
    <3>2. CASE f.type = "MESSAGE" /\ f.data.type # "CONNECT"
      <4>1. Receives(server, f).socket \in {server.socket, "left"}
        BY <1>1, <3>2 DEF Receives, Servers
      <4>2. QED
        BY <2>1, <4>1
    <3>3. QED
      BY <2>3, <3>1, <3>2 DEF IsConnect
  <2>5. /\ OneConnect(outgoing') /\ (NoConnect(outgoing) => NoConnect(outgoing'))
        /\ NoConnect(outgoing) => ~IsConnect(f)
        /\ IsConnect(f) => NoConnect(outgoing')
    BY <1>1, <1>2, <2>1, OneLeft, Unconnected DEF f
  <2>6. Silent => Silent'
    BY <2>1 DEF Silent
  <2>7. CASE IsConnect(f)
    <3>1. ~NoConnect(outgoing) /\ ~Early /\ Silent
      BY <2>5, <2>7 DEF Entrance
    <3>2. ~Early' /\ NoConnect(outgoing') /\ Silent'
      BY <2>1, <2>5, <2>6, <2>7, <3>1 DEF Early
    <3>3. (phase' = "running" <=> dispatch' # "no") /\ (phase' = "opening" => incoming' = <<>>)
      BY <1>2, <2>1
    <3>4. QED
      BY <2>5, <3>2, <3>3 DEF Entrance
  <2>8. CASE ~IsConnect(f)
    BY <1>2, <2>1, <2>4, <2>5, <2>6, <2>8, EntranceKept DEF Early
  <2>9. QED
    BY <2>7, <2>8
<1>12. CASE WriterEnds
  <2>1. outgoing' = <<>> /\ UNCHANGED <<phase, dispatch, incoming, down, server>>
    BY <1>12 DEF WriterEnds, network
  <2>2. Kept
    BY <2>1, OutgoingKept
  <2>3. QED
    BY <1>2, <2>1, <2>2, EntranceKept DEF Early, Silent
<1>13. CASE DispatchNext
  <2>1. UNCHANGED <<phase, outgoing, server>> /\ dispatch # "no" /\ dispatch' # "no"
    BY <1>13 DEF DispatchNext, DispatchEvent, DispatchUnheard, HandlerReturns, DispatchAck, DispatchEnds, Receive
  <2>2. phase = "running" /\ ~Silent
    BY <1>2, <2>1 DEF Silent
  <2>3. QED
    BY <1>3, <2>1, <2>2, EntranceKept DEF Early
<1>14. CASE On \/ Leave
  <2>1. UNCHANGED <<phase, outgoing, incoming, down, dispatch, server>>
    BY <1>14 DEF On, Leave, network
  <2>2. QED
    BY <2>1 DEF Entrance, Early, Silent
<1>15. CASE LeaveSends
  <2>1. /\ UNCHANGED <<phase, incoming, down, dispatch, server>>
        /\ outgoing' = outgoing \/ outgoing' = Append(outgoing, Message(DisconnectPacket(Namespace)))
    BY <1>15 DEF LeaveSends, network
  <2>2. Kept
    BY <2>1, OutgoingKept, Kinds
  <2>3. QED
    BY <1>2, <2>1, <2>2, EntranceKept DEF Early, Silent
<1>16. ASSUME NEW c \in Calls, CallStarts(c) \/ CallSends(c) \/ CallTimesOut(c)
       PROVE  Entrance'
  <2>1. UNCHANGED <<phase, incoming, down, dispatch, server>>
    BY <1>16 DEF CallStarts, CallSends, CallTimesOut, network
  <2>2. \/ outgoing' = outgoing
        \/ call[c].at = "sending" /\ outgoing' = Append(outgoing, Message(CallPacket(c, call[c].id)))
    BY <1>16 DEF CallStarts, CallSends, CallTimesOut
  <2>3. Kept
    BY <2>2, OutgoingKept, CallsUnconnected
  <2>4. QED
    BY <1>2, <2>1, <2>3, EntranceKept DEF Early, Silent
<1>17. CASE Environment
  <2>1. UNCHANGED <<phase, outgoing, incoming, dispatch>>
    BY <1>17 DEF Environment, ServerJoins, ServerEmits, ServerAnswers, ServerPings, ServerDisconnects, ServerCloses,
                LinkLost, ServerAct, client
  <2>2. ASSUME NEW f, ~IsConnect(f), ServerAct(f), server'.socket \in {server.socket, "left", "closed"}
        PROVE  Entrance'
    <3>1. down' = Append(down, f)
      BY <2>2 DEF ServerAct
    <3>2. Silent => Silent'
      BY <2>1, <2>2, <3>1, SilentKept DEF Silent
    <3>3. QED
      BY <1>2, <1>3, <2>1, <2>2, <3>2, EntranceKept DEF Early
  <2>3. CASE LinkLost /\ server'.socket = server.socket
    <3>1. PICK n \in 0..Len(down) : down' = SubSeq(down, 1, n)
      BY <2>3 DEF LinkLost
    <3>2. Silent => Silent'
      BY <2>1, <3>1, SilentKept DEF Silent
    <3>3. QED
      BY <1>2, <1>3, <2>1, <2>3, <3>2, EntranceKept DEF Early
  <2>4. CASE server.socket = "joining" /\ server'.socket = "joined"
    <3>1. ~Early /\ NoConnect(outgoing)
      BY <2>4 DEF Entrance
    <3>2. ~Early' /\ NoConnect(outgoing') /\ server'.socket # "joining" /\ OneConnect(outgoing')
      BY <1>2, <2>1, <2>4, <3>1 DEF Early
    <3>3. (phase' = "running" <=> dispatch' # "no") /\ (phase' = "opening" => incoming' = <<>>)
      BY <1>2, <2>1
    <3>4. QED
      BY <3>2, <3>3 DEF Entrance
  <2>5. QED
    BY <1>17, <2>2, <2>3, <2>4, EnvironmentSends, Kinds
<1>18. QED
  BY <1>4, <1>5, <1>6, <1>7, <1>8, <1>9, <1>10, <1>11, <1>12, <1>13, <1>14, <1>15, <1>16, <1>17
     DEF Next, ConnectNext, ReaderNext, WriterNext

Args == {<<Json("number", n)>> : n \in 1..MaxEvents}

\* Nothing is handled before the answer to CONNECT, or before on.
Arrived ==
  /\ handled \in Seq(Args) /\ missed \in Nat
  /\ dispatch = "no" => handled = <<>> /\ missed = 0
  /\ ~listening => handled = <<>>

\* The channel of the dispatcher and the connection are one line of events:
\* from those it has taken to those the server has sent.
Flow ==
  ~ReceiverGone =>
    \E a, b, c :
      /\ Line(incoming, a, b, server.early) /\ Line(down, b, c, server.early)
      /\ link = "up" => c = server.events
      /\ dispatch # "no" => a = server.early + missed + Len(handled)

Orderly == Entrance /\ Arrived /\ Flow /\ HandledInOrder

LEMMA InitOrderly == Init => Orderly
<1> SUFFICES ASSUME Init PROVE Orderly
  OBVIOUS
<1>1. /\ phase = "opening" /\ outgoing = <<>> /\ incoming = <<>> /\ dispatch = "no" /\ handled = <<>> /\ missed = 0
      /\ down = <<Frame("OPEN")>> /\ server = ServerInit /\ 0 \in 0..MaxEvents
  BY CapAssumption DEF Init
<1>2. server.socket = "no" /\ server.early = 0 /\ server.events = 0
  BY <1>1 DEF ServerInit
<1>3. ~IsNews(Frame("OPEN")) /\ ~IsConnect(Frame("OPEN"))
  BY Kinds
<1>4. NoConnect(down) /\ NoConnect(incoming) /\ NoConnect(outgoing) /\ OneConnect(outgoing)
  BY <1>1, <1>3 DEF NoConnect, OneConnect
<1>5. Entrance
  BY <1>1, <1>2, <1>4 DEF Entrance, Early, Silent
<1>6. Arrived
  BY <1>1 DEF Arrived
<1>7. Flow
  <2>1. Line(<<>>, 0, 0, 0)
    BY <1>1, LineEmpty
  <2> DEFINE m == Frame("OPEN")
             s == <<>>
  <2>2. s \in Seq({m}) /\ m \in {m} /\ Append(s, m) = <<m>>
    OBVIOUS
  <2> HIDE DEF m, s
  <2>3. Line(Append(s, m), 0, 0, 0)
    BY <1>1, <1>3, <2>1, <2>2, LineAppend DEF m, s
  <2>4. Line(down, 0, 0, 0)
    BY <1>1, <2>2, <2>3 DEF m
  <2>5. QED
    BY <1>1, <1>2, <2>1, <2>4 DEF Flow
<1>8. HandledInOrder
  <2>1. Len(<<>>) = 0 /\ <<>> = [i \in 1..0 |-> <<Json("number", server.early + missed + i)>>]
    OBVIOUS
  <2>2. QED
    BY <1>1, <2>1 DEF HandledInOrder
<1>9. QED
  BY <1>5, <1>6, <1>7, <1>8 DEF Orderly

\* The handler gets the next event.
LEMMA InOrderNext ==
  ASSUME Arrived, HandledInOrder, NEW n, n = server.early + missed + Len(handled), n + 1 \in 1..MaxEvents,
         handled' = Append(handled, <<Json("number", n + 1)>>), UNCHANGED <<server, missed>>, server.early \in Nat
  PROVE  HandledInOrder' /\ handled' \in Seq(Args)
<1> DEFINE m == <<Json("number", n + 1)>>
           k == Len(handled)
           h == Append(handled, m)
           e == server.early + missed
<1>1. m \in Args
  BY DEF Args
<1>2. /\ k \in Nat /\ h \in Seq(Args) /\ Len(h) = k + 1 /\ h[k + 1] = m /\ h = [i \in 1..k + 1 |-> h[i]]
      /\ \A i \in 1..k : h[i] = handled[i]
  <2>1. handled \in Seq(Args)
    BY DEF Arrived
  <2> HIDE DEF m
  <2>2. /\ k \in Nat /\ h \in Seq(Args) /\ Len(h) = k + 1 /\ h[k + 1] = m
        /\ \A i \in 1..k : h[i] = handled[i]
    BY <1>1, <2>1
  <2> HIDE DEF h, k
  <2>3. h \in [1..Len(h) -> Args]
    BY <2>2
  <2>4. QED
    BY <2>2, <2>3
<1>3. e \in Nat /\ n = e + k
  BY <1>2 DEF Arrived
<1>4. \A i \in 1..k : handled[i] = <<Json("number", e + i)>>
  BY DEF HandledInOrder
<1> HIDE DEF m, k, e, h
<1>5. ASSUME NEW i \in 1..k + 1
      PROVE  h[i] = <<Json("number", e + i)>>
  <2>1. CASE i = k + 1
    <3>1. n + 1 = e + i
      BY <1>2, <1>3, <2>1
    <3>2. h[i] = m
      BY <1>2, <2>1
    <3>3. QED
      BY <3>1, <3>2 DEF m
  <2>2. CASE i \in 1..k
    BY <1>2, <1>4, <2>2
  <2>3. QED
    BY <1>2, <2>1, <2>2
<1>6. h = [i \in 1..k + 1 |-> <<Json("number", e + i)>>]
  BY <1>2, <1>5
<1>7. h = [i \in 1..Len(h) |-> <<Json("number", e + i)>>]
  BY <1>2, <1>6
<1>8. handled' = h /\ server' = server /\ missed' = missed
  BY DEF h, m
<1>9. HandledInOrder'
  BY <1>7, <1>8 DEF HandledInOrder, e
<1>10. QED
  BY <1>2, <1>8, <1>9

\* Nobody receives ever after.
LEMMA GoneForGood ==
  ASSUME Entrance, [Next]_vars, ReceiverGone
  PROVE  ReceiverGone'
<1>1. /\ phase = "running" <=> dispatch # "no"
      /\ phase = "failed" \/ dispatch = "ended"
  BY DEF Entrance, ReceiverGone
<1>2. CASE UNCHANGED <<phase, dispatch>>
  BY <1>1, <1>2 DEF ReceiverGone
<1>3. CASE ConnectNext
  BY <1>1, <1>3 DEF ConnectNext, Open, SendConnect, WaitForConnect, ConnectFails, ReceiverGone
<1>4. CASE DispatchNext
  BY <1>1, <1>4 DEF DispatchNext, DispatchEvent, DispatchUnheard, HandlerReturns, DispatchAck, DispatchEnds, Receive,
                    ReceiverGone
<1>5. CASE ReaderNext \/ WriterNext
  BY <1>2, <1>5 DEF ReaderNext, WriterNext, ReaderForwards, ReaderPongs, ReaderEnds, WriterWrites, WriterEnds
<1>6. CASE On \/ Leave \/ LeaveSends
  BY <1>2, <1>6 DEF On, Leave, LeaveSends
<1>7. CASE Environment
  BY <1>2, <1>7 DEF Environment, ServerJoins, ServerEmits, ServerAnswers, ServerPings, ServerDisconnects, ServerCloses,
                LinkLost, ServerAct, client
<1>8. CASE \E c \in Calls : CallStarts(c) \/ CallSends(c) \/ CallTimesOut(c)
  BY <1>2, <1>8 DEF CallStarts, CallSends, CallTimesOut
<1>9. CASE UNCHANGED vars
  BY <1>2, <1>9 DEF vars, client
<1>10. QED
  BY <1>3, <1>4, <1>5, <1>6, <1>7, <1>8, <1>9 DEF Next

\* A step that hands no event to a handler.
LEMMA HeardKept ==
  ASSUME Arrived, HandledInOrder, handled' = handled, missed' = missed,
         server'.early = server.early \/ handled = <<>>, dispatch' = "no" => dispatch = "no", ~listening' => ~listening
  PROVE  Arrived' /\ HandledInOrder'
<1>1. Arrived'
  BY DEF Arrived
<1>2. CASE server'.early = server.early
  BY <1>1, <1>2 DEF HandledInOrder
<1>3. CASE handled = <<>>
  <2>1. <<>> = [i \in 1..Len(<<>>) |-> <<Json("number", server'.early + missed + i)>>]
    OBVIOUS
  <2>2. QED
    BY <1>1, <1>3, <2>1 DEF HandledInOrder
<1>4. QED
  BY <1>2, <1>3

\* What the steps of others leave to the dispatcher.
LEMMA WrittenKept ==
  ASSUME Inv, WriterNext
  PROVE  /\ UNCHANGED <<phase, dispatch, incoming, down, link, heard>>
         /\ server'.early = server.early /\ server'.events = server.events
<1>1. server \in Servers
  BY DEF Inv, Lines
<1>2. server' = server \/ \E f : server' = Receives(server, f)
  BY DEF WriterNext, WriterWrites, WriterEnds
<1>3. \A f : Receives(server, f).early = server.early /\ Receives(server, f).events = server.events
  BY <1>1 DEF Receives, Servers
<1>4. UNCHANGED <<phase, dispatch, incoming, down, link, heard>>
  BY DEF WriterNext, WriterWrites, WriterEnds, network
<1>5. QED
  BY <1>2, <1>3, <1>4

\* The line from the dispatcher to the server.
Lined(a, b, c) ==
  /\ Line(incoming, a, b, server.early) /\ Line(down, b, c, server.early)
  /\ link = "up" => c = server.events
  /\ dispatch # "no" => a = server.early + missed + Len(handled)

LEMMA FlowLined == Flow <=> (~ReceiverGone => \E a, b, c : Lined(a, b, c))
BY DEF Flow, Lined

\* The channel and the connection as sequences of the same frames.
LEMMA Frames ==
  ASSUME Inv
  PROVE  LET F == {Frame("OPEN")} \cup Inwards
         IN  /\ down \in Seq(F) /\ incoming \in Seq(F) /\ incoming \in Seq(Messages)
             /\ Inwards \subseteq F /\ \A m \in Messages : m.type = "MESSAGE"
<1> DEFINE F == {Frame("OPEN")} \cup Inwards
<1>1. Messages \subseteq F /\ Inwards \subseteq F /\ incoming \in Seq(Messages) /\ down \in Seq(F)
  BY DEF Inwards, Inv, Lines
<1>2. \A m \in Messages : m.type = "MESSAGE"
  BY FramesTold DEF Messages
<1> HIDE DEF F
<1>3. incoming \in Seq(F)
  BY <1>1, Widened
<1>4. QED
  BY <1>1, <1>2, <1>3 DEF F

\* The dispatcher takes the head of its channel.
LEMMA TakeStep ==
  ASSUME Inv, NEW a, NEW b, NEW c, Lined(a, b, c), incoming # <<>>
  PROVE  LET m == Head(incoming)
         IN  /\ m.type = "MESSAGE"
             /\ m.data.type = "EVENT" => /\ a + 1 \in 1..MaxEvents /\ m = Message(News(a + 1))
                                         /\ Line(Tail(incoming), a + 1, b, server.early)
             /\ m.data.type # "EVENT" => Line(Tail(incoming), a, b, server.early)
             /\ m.data.type = "CONNECT" => a = server.early
<1> DEFINE m == Head(incoming)
           e == server.early
<1>1. /\ incoming \in Seq(Messages) /\ m \in Messages /\ m.type = "MESSAGE"
  <2>1. incoming \in Seq(Messages) /\ \A f \in Messages : f.type = "MESSAGE"
    BY Frames
  <2>2. m \in Messages
    BY <2>1
  <2>3. QED
    BY <2>1, <2>2
<1>2. Line(incoming, a, b, e)
  BY DEF Lined
<1> HIDE DEF e
<1>3. /\ IsNews(m) => a + 1 \in 0..MaxEvents /\ m = Message(News(a + 1)) /\ Line(Tail(incoming), a + 1, b, e)
      /\ ~IsNews(m) => Line(Tail(incoming), a, b, e)
      /\ IsConnect(m) /\ ~IsNews(m) => a = e
  BY <1>1, <1>2, LineTail
<1>4. a \in 0..MaxEvents /\ MaxEvents \in Nat
  BY <1>1, <1>2, LineTyped, CapAssumption
<1> HIDE DEF m
<1>5. IsNews(m) <=> m.data.type = "EVENT"
  BY <1>1 DEF IsNews
<1>6. m.data.type = "CONNECT" => IsConnect(m) /\ ~IsNews(m)
  BY <1>1 DEF IsConnect, IsNews
<1>7. a + 1 \in 0..MaxEvents => a + 1 \in 1..MaxEvents
  BY <1>4
<1>8. QED
  BY <1>1, <1>3, <1>5, <1>6, <1>7 DEF m, e

\* connect waits for the answer, and begins to dispatch behind it.
LEMMA WaitFlow ==
  ASSUME Inv, Arrived, WaitForConnect, dispatch = "no", NEW a, NEW b, NEW c, Lined(a, b, c)
  PROVE  \E x : Lined(x, b, c)'
<1> DEFINE m == Head(incoming)
<1>1. /\ incoming # <<>> /\ incoming' = Tail(incoming) /\ UNCHANGED <<down, link, server, missed, handled>>
      /\ dispatch' = (IF m.data.type = "CONNECT" THEN "run" ELSE dispatch)
  BY DEF WaitForConnect, network, heard
<1>2. missed = 0 /\ Len(handled) = 0 /\ server.early \in Nat
  BY DEF Arrived, Inv, Lines, Servers
<1>3. /\ m.data.type = "EVENT" => Line(Tail(incoming), a + 1, b, server.early)
      /\ m.data.type # "EVENT" => Line(Tail(incoming), a, b, server.early)
      /\ m.data.type = "CONNECT" => a = server.early
  BY <1>1, TakeStep
<1> HIDE DEF m
<1>4. CASE m.data.type = "EVENT"
  <2>1. dispatch' = "no"
    BY <1>1, <1>4
  <2>2. Lined(a + 1, b, c)'
    BY <1>1, <1>3, <1>4, <2>1 DEF Lined
  <2>3. QED
    BY <2>2
<1>5. CASE m.data.type # "EVENT"
  <2>1. dispatch' # "no" => a = server'.early + missed' + Len(handled')
    BY <1>1, <1>2, <1>3
  <2>2. Lined(a, b, c)'
    BY <1>1, <1>3, <1>5, <2>1 DEF Lined
  <2>3. QED
    BY <2>2
<1>6. QED
  BY <1>4, <1>5

\* The reader passes on what has come.
LEMMA ForwardFlow ==
  ASSUME Inv, ReaderForwards, ~ReceiverGone, NEW a, NEW b, NEW c, Lined(a, b, c)
  PROVE  \E x : Lined(a, x, c)'
<1> DEFINE F == {Frame("OPEN")} \cup Inwards
           e == server.early
<1>1. /\ down # <<>> /\ down' = Tail(down) /\ incoming' = Append(incoming, Head(down))
      /\ UNCHANGED <<link, server, missed, handled, dispatch>>
  BY DEF ReaderForwards, heard
<1>2. down \in Seq(F) /\ incoming \in Seq(F)
  BY Frames
<1>3. Line(incoming, a, b, e) /\ Line(down, b, c, e)
  BY DEF Lined
<1> HIDE DEF F, e
<1>4. Head(down) \in F
  BY <1>1, <1>2
<1>5. PICK x : Line(Append(incoming, Head(down)), a, x, e) /\ Line(Tail(down), x, c, e)
  BY <1>1, <1>2, <1>3, <1>4, LineMoves
<1>6. Lined(a, x, c)'
  BY <1>1, <1>5 DEF Lined, e
<1>7. QED
  BY <1>6

\* A frame of the reader's own is no event.
LEMMA ReaderFlow ==
  ASSUME Inv, NEW a, NEW b, NEW c, Lined(a, b, c), UNCHANGED <<incoming, link, server, missed, handled, dispatch>>,
         down' = down \/ (down # <<>> /\ Head(down).type # "MESSAGE" /\ down' = Tail(down))
  PROVE  Lined(a, b, c)'
<1> DEFINE F == {Frame("OPEN")} \cup Inwards
<1>1. down \in Seq(F)
  BY Frames
<1> HIDE DEF F
<1>2. Line(down, b, c, server.early)
  BY DEF Lined
<1>3. CASE down' = down
  BY <1>3 DEF Lined
<1>4. CASE down # <<>> /\ Head(down).type # "MESSAGE" /\ down' = Tail(down)
  <2>1. ~IsNews(Head(down))
    BY <1>4 DEF IsNews
  <2>2. Line(Tail(down), b, c, server.early)
    BY <1>1, <1>2, <1>4, <2>1, LineTail
  <2>3. QED
    BY <1>4, <2>2 DEF Lined
<1>5. QED
  BY <1>3, <1>4

\* What the server does goes to the end of the line.
LEMMA EnvironmentFlow ==
  ASSUME Inv, Entrance, Environment, NEW a, NEW b, NEW c, Lined(a, b, c)
  PROVE  \E x : Lined(a, b, x)'
<1> DEFINE F == {Frame("OPEN")} \cup Inwards
           e == server.early
           n == server.events
<1>1. UNCHANGED <<incoming, missed, handled, dispatch>>
  BY DEF Environment, ServerJoins, ServerEmits, ServerAnswers, ServerPings, ServerDisconnects, ServerCloses,
         LinkLost, ServerAct, client, heard
<1>2. down \in Seq(F) /\ incoming \in Seq(F) /\ Inwards \subseteq F
  BY Frames
<1>3. /\ Line(incoming, a, b, e) /\ Line(down, b, c, e)
      /\ link = "up" => c = n
      /\ dispatch # "no" => a = e + missed + Len(handled)
  BY DEF Lined
<1> HIDE DEF F, e, n
<1>4. c \in 0..MaxEvents
  BY <1>2, <1>3, LineTyped
<1>5. ASSUME NEW f, ServerAct(f)
      PROVE  link = "up" /\ link' = "up" /\ down' = Append(down, f)
  BY <1>5 DEF ServerAct
<1>6. CASE LinkLost /\ server'.early = server.early
  <2>1. PICK l \in 0..Len(down) : down' = SubSeq(down, 1, l)
    BY <1>6 DEF LinkLost
  <2>2. link' = "lost"
    BY <1>6 DEF LinkLost
  <2>3. PICK x : Line(SubSeq(down, 1, l), b, x, e)
    BY <1>2, <1>3, LinePrefix
  <2>4. Lined(a, b, x)'
    BY <1>1, <1>3, <1>6, <2>1, <2>2, <2>3 DEF Lined, e
  <2>5. QED
    BY <2>4
<1>7. ASSUME NEW f \in Inwards, ServerAct(f), ~IsNews(f), ~IsConnect(f), server'.early = server.early, server'.events = server.events
      PROVE  \E x : Lined(a, b, x)'
  <2>1. Line(Append(down, f), b, c, e)
    BY <1>2, <1>3, <1>4, <1>7, LineAppend
  <2>2. Lined(a, b, c)'
    BY <1>1, <1>3, <1>5, <1>7, <2>1 DEF Lined, e, n
  <2>3. QED
    BY <2>2
<1>8. CASE /\ ServerAct(Message(News(server.events + 1)))
           /\ server'.early = server.early /\ server'.events = server.events + 1 /\ server'.events \in 1..MaxEvents
  <2> DEFINE f == Message(News(n + 1))
  <2>1. n + 1 \in 1..MaxEvents /\ ServerAct(f)
    BY <1>8 DEF n
  <2>2. f \in F /\ IsNews(f) /\ ~IsConnect(f)
    <3>1. f \in Inwards
      BY <2>1 DEF Inwards, Messages
    <3>2. QED
      BY <1>2, <2>1, <3>1, Kinds
  <2>3. c = n /\ link' = "up" /\ down' = Append(down, f) /\ n + 1 \in 0..MaxEvents
    <3>1. c = n /\ link' = "up" /\ down' = Append(down, f)
      BY <1>3, <1>5, <2>1
    <3>2. \A i \in 1..MaxEvents : i \in 0..MaxEvents
      OBVIOUS
    <3>3. QED
      BY <2>1, <3>1, <3>2
  <2>4. n + 1 = c + 1 /\ f = Message(News(n + 1))
    BY <2>3
  <2> HIDE DEF f
  <2>5. Line(Append(down, f), b, n + 1, e)
    BY <1>2, <1>3, <2>2, <2>3, <2>4, LineAppend
  <2>6. PICK x : x = n + 1
    OBVIOUS
  <2>7. Lined(a, b, x)'
    BY <1>1, <1>3, <1>8, <2>3, <2>5, <2>6 DEF Lined, e, n
  <2>8. QED
    BY <2>7
<1>9. CASE /\ ServerAct(Message(ConnectOk(Namespace, "sid"))) /\ server.socket = "joining"
           /\ server'.early = server.events /\ server'.events = server.events
  <2> DEFINE f == Message(ConnectOk(Namespace, "sid"))
  <2>1. Silent
    BY <1>9 DEF Entrance
  <2>2. f \in F /\ IsConnect(f) /\ ~IsNews(f)
    <3>1. f \in Inwards
      BY DEF Inwards, Messages
    <3>2. QED
      BY <1>2, <3>1, Kinds
  <2>3. c = n /\ link' = "up" /\ down' = Append(down, f)
    BY <1>3, <1>5, <1>9
  <2> HIDE DEF f
  <2>4. Line(incoming, a, b, n) /\ Line(down, b, n, n)
    BY <1>2, <1>3, <2>1, <2>3, LineAnywhere DEF Silent
  <2>5. Line(Append(down, f), b, n, n)
    BY <1>2, <1>4, <2>2, <2>3, <2>4, LineAppend
  <2>6. Lined(a, b, n)'
    BY <1>1, <1>9, <2>1, <2>3, <2>4, <2>5 DEF Lined, Silent, n
  <2>7. QED
    BY <2>6
<1>10. QED
  BY <1>6, <1>7, <1>8, <1>9, EnvironmentSends

\* The dispatcher's steps keep the line, and the events in order.
LEMMA DispatchFlow ==
  ASSUME Inv, Arrived, HandledInOrder, DispatchNext, NEW a, NEW b, NEW c, Lined(a, b, c)
  PROVE  /\ Arrived' /\ HandledInOrder'
         /\ dispatch' # "ended" => \E x : Lined(x, b, c)'
<1> DEFINE m == Head(incoming)
           e == server.early
<1>1. e \in Nat /\ missed \in Nat /\ handled \in Seq(Args) /\ Len(handled) \in Nat /\ (~listening => handled = <<>>)
  BY DEF Arrived, Inv, Lines, Servers
<1>2. UNCHANGED <<down, link, server, listening>> /\ dispatch # "no" /\ dispatch' # "no"
  BY DEF DispatchNext, DispatchEvent, DispatchUnheard, HandlerReturns, DispatchAck, DispatchEnds, Receive, network, heard
<1>3. a = e + missed + Len(handled)
  BY <1>2 DEF Lined
<1>4. ASSUME incoming # <<>>
      PROVE  /\ m.data.type = "EVENT" => /\ a + 1 \in 1..MaxEvents /\ m = Message(News(a + 1))
                                         /\ Line(Tail(incoming), a + 1, b, e)
             /\ m.data.type # "EVENT" => Line(Tail(incoming), a, b, e)
  BY <1>4, TakeStep
<1>5. Line(incoming, a, b, e) /\ Line(down, b, c, e) /\ (link = "up" => c = server.events)
  BY DEF Lined
<1>6. CASE DispatchEvent
  <2>1. /\ incoming # <<>> /\ incoming' = Tail(incoming) /\ m.data.type = "EVENT" /\ missed' = missed
        /\ handled' = Append(handled, CHOOSE args \in EventArgs(m.data) : TRUE)
    BY <1>6 DEF DispatchEvent, Receive
  <2>2. a + 1 \in 1..MaxEvents /\ m = Message(News(a + 1)) /\ Line(Tail(incoming), a + 1, b, e)
    BY <1>4, <2>1
  <2> DEFINE x == <<Json("number", a + 1)>>
  <2>3. EventArgs(m.data) = {x}
    BY <2>2, NewsRead
  <2>4. (CHOOSE args \in EventArgs(m.data) : TRUE) = x
    BY <2>3
  <2>5. handled' = Append(handled, x)
    BY <2>1, <2>4
  <2> HIDE DEF m
  <2>6. HandledInOrder' /\ handled' \in Seq(Args)
    BY <1>1, <1>2, <1>3, <2>1, <2>2, <2>5, InOrderNext
  <2>7. Len(handled') = Len(handled) + 1
    <3>1. x \in Args
      BY <2>2 DEF Args
    <3> HIDE DEF x
    <3>2. QED
      BY <1>1, <2>5, <3>1
  <2>8. a + 1 = e + missed + Len(handled')
    BY <1>1, <1>3, <2>7
  <2>9. Lined(a + 1, b, c)'
    BY <1>2, <1>5, <2>1, <2>2, <2>8 DEF Lined
  <2>10. listening
    BY <1>6 DEF DispatchEvent
  <2>11. Arrived'
    BY <1>1, <1>2, <2>1, <2>6, <2>10 DEF Arrived
  <2>12. QED
    BY <2>6, <2>9, <2>11
<1>7. CASE DispatchUnheard
  <2>1. /\ incoming # <<>> /\ incoming' = Tail(incoming) /\ m.data.type = "EVENT" /\ missed' = missed + 1
        /\ handled' = handled /\ ~listening
    BY <1>7 DEF DispatchUnheard, Receive
  <2>2. Line(Tail(incoming), a + 1, b, e)
    BY <1>4, <2>1
  <2>3. a + 1 = e + missed' + Len(handled')
    BY <1>1, <1>3, <2>1, SMTT(30)
  <2>4. Lined(a + 1, b, c)'
    BY <1>2, <1>5, <2>1, <2>2, <2>3 DEF Lined
  <2>5. HandledInOrder'
    <3>1. handled' = <<>>
      BY <1>1, <2>1
    <3>2. <<>> = [i \in 1..Len(<<>>) |-> <<Json("number", server'.early + missed' + i)>>]
      OBVIOUS
    <3>3. QED
      BY <3>1, <3>2 DEF HandledInOrder
  <2>6. Arrived'
    BY <1>1, <1>2, <2>1 DEF Arrived
  <2>7. QED
    BY <2>4, <2>5, <2>6
<1>8. CASE HandlerReturns \/ DispatchAck \/ DispatchEnds
  <2>1. missed' = missed /\ handled' = handled
    BY <1>8 DEF HandlerReturns, DispatchAck, DispatchEnds, heard
  <2>2. Arrived' /\ HandledInOrder'
    BY <1>2, <2>1, HeardKept
  <2>3. CASE dispatch' = "ended"
    BY <2>2, <2>3
  <2>4. CASE dispatch' # "ended"
    <3>1. \/ incoming' = incoming
          \/ incoming # <<>> /\ m.data.type # "EVENT" /\ incoming' = Tail(incoming)
      BY <1>8, <2>4 DEF HandlerReturns, DispatchAck, DispatchEnds, Receive
    <3>2. Line(incoming', a, b, e)
      BY <1>4, <1>5, <3>1
    <3>3. Lined(a, b, c)'
      BY <1>2, <1>3, <1>5, <2>1, <3>2 DEF Lined
    <3>4. QED
      BY <2>2, <3>3
  <2>5. QED
    BY <2>3, <2>4
<1>9. QED
  BY <1>6, <1>7, <1>8 DEF DispatchNext

LEMMA OrderlyNext == Inv /\ Orderly /\ [Next]_vars => Orderly'
<1> SUFFICES ASSUME Inv, Orderly, [Next]_vars PROVE Orderly'
  OBVIOUS
<1>1. Entrance /\ Arrived /\ HandledInOrder /\ Entrance'
  BY EntranceStep DEF Orderly
<1>2. /\ phase = "running" <=> dispatch # "no"
      /\ phase = "opening" => incoming = <<>>
  BY <1>1 DEF Entrance
<1>3. ReceiverGone => ReceiverGone'
  BY <1>1, GoneForGood
<1>4. SUFFICES ASSUME ~ReceiverGone => \E a, b, c : Lined(a, b, c)
               PROVE  Arrived' /\ HandledInOrder' /\ (~ReceiverGone' => (\E a, b, c : Lined(a, b, c))')
  <2>1. ~ReceiverGone => \E a, b, c : Lined(a, b, c)
    BY FlowLined DEF Orderly
  <2>2. (~ReceiverGone' => (\E a, b, c : Lined(a, b, c))') => Flow'
    BY DEF Flow, Lined
  <2>3. QED
    BY <1>1, <1>4, <2>1, <2>2 DEF Orderly
<1> DEFINE Goes == ~ReceiverGone' => (\E a, b, c : Lined(a, b, c))'
           Heard == Arrived' /\ HandledInOrder'
\* Nothing moves on the line.
<1>5. ASSUME UNCHANGED <<incoming, down, link, missed, handled, dispatch>>,
             server'.early = server.early, server'.events = server.events
      PROVE  Goes
  BY <1>3, <1>4, <1>5 DEF Lined
<1>6. ASSUME UNCHANGED <<heard, dispatch>>, server'.early = server.early PROVE Heard
  BY <1>1, <1>6, HeardKept DEF heard
<1>7. CASE UNCHANGED vars
  BY <1>5, <1>6, <1>7 DEF vars, client, network, heard
<1>8. CASE Open
  <2>1. /\ UNCHANGED <<heard, missed, handled, dispatch, incoming, link, server>> /\ dispatch = "no" /\ incoming = <<>>
        /\ phase' = "failed" \/ (down # <<>> /\ down' = Tail(down))
    BY <1>2, <1>8 DEF Open, heard
  <2>2. ASSUME NEW a, NEW b, NEW c, Lined(a, b, c), down # <<>>, down' = Tail(down)
        PROVE  \E x : Lined(x, x, c)'
    <3> DEFINE F == {Frame("OPEN")} \cup Inwards
               e == server.early
    <3>1. down \in Seq(F)
      BY Frames
    <3> HIDE DEF F, e
    <3>2. Line(down, b, c, e)
      BY <2>2 DEF Lined, e
    <3>3. b \in 0..MaxEvents
      BY <3>1, <3>2, LineTyped
    <3>4. PICK x \in 0..MaxEvents : Line(Tail(down), x, c, e)
      <4>1. /\ IsNews(Head(down)) => b + 1 \in 0..MaxEvents /\ Line(Tail(down), b + 1, c, e)
            /\ ~IsNews(Head(down)) => Line(Tail(down), b, c, e)
        BY <2>2, <3>1, <3>2, LineTail
      <4>2. QED
        BY <3>3, <4>1
    <3>5. Line(<<>>, x, x, e)
      BY LineEmpty
    <3>6. Lined(x, x, c)'
      BY <2>1, <2>2, <3>4, <3>5 DEF Lined, e
    <3>7. QED
      BY <3>6
  <2>3. phase' = "failed" => ReceiverGone'
    BY DEF ReceiverGone
  <2>4. QED
    BY <1>3, <1>4, <1>6, <2>1, <2>2, <2>3
<1>9. CASE SendConnect \/ ConnectFails
  BY <1>5, <1>6, <1>9 DEF SendConnect, ConnectFails, network, heard
<1>10. CASE WaitForConnect
  <2>1. dispatch = "no" /\ UNCHANGED <<heard, missed, handled, server>>
    BY <1>2, <1>10 DEF WaitForConnect, heard
  <2>2. Heard
    BY <1>1, <2>1, HeardKept DEF heard
  <2>3. Goes
    BY <1>1, <1>3, <1>4, <1>10, <2>1, WaitFlow
  <2>4. QED
    BY <2>2, <2>3
<1>11. CASE ReaderForwards
  <2>1. UNCHANGED <<heard, dispatch, server, phase>>
    BY <1>11 DEF ReaderForwards
  <2>2. QED
    BY <1>3, <1>4, <1>6, <1>11, <2>1, ForwardFlow
<1>12. CASE ReaderPongs \/ ReaderEnds
  <2>1. /\ UNCHANGED <<heard, missed, handled, dispatch, server, incoming, link>>
        /\ down' = down \/ (down # <<>> /\ Head(down).type # "MESSAGE" /\ down' = Tail(down))
    BY <1>12 DEF ReaderPongs, ReaderEnds, heard
  <2>2. Goes
    BY <1>3, <1>4, <2>1, ReaderFlow
  <2>3. QED
    BY <1>6, <2>1, <2>2
<1>13. CASE WriterNext
  BY <1>5, <1>6, <1>13, WrittenKept DEF heard
<1>14. CASE DispatchNext
  <2>1. dispatch # "no" /\ dispatch # "ended"
    BY <1>14 DEF DispatchNext, DispatchEvent, DispatchUnheard, HandlerReturns, DispatchAck, DispatchEnds, Receive
  <2>2. ~ReceiverGone
    BY <1>2, <2>1 DEF ReceiverGone
  <2>3. dispatch' = "ended" => ReceiverGone'
    BY DEF ReceiverGone
  <2>4. QED
    BY <1>1, <1>4, <1>14, <2>2, <2>3, DispatchFlow
<1>15. CASE On
  <2>1. /\ UNCHANGED <<missed, handled, dispatch, server, incoming, down, link>> /\ ~listening
    BY <1>15 DEF On, network
  <2>2. Heard
    BY <1>1, <2>1, HeardKept
  <2>3. QED
    BY <1>5, <2>1, <2>2
<1>16. CASE Leave \/ LeaveSends
  BY <1>5, <1>6, <1>16 DEF Leave, LeaveSends, network, heard
<1>17. ASSUME NEW c \in Calls, CallStarts(c) \/ CallSends(c) \/ CallTimesOut(c)
       PROVE  Heard /\ Goes
  BY <1>5, <1>6, <1>17 DEF CallStarts, CallSends, CallTimesOut, network, heard
<1>18. CASE Environment
  <2>1. UNCHANGED <<heard, dispatch>>
    BY <1>18 DEF Environment, ServerJoins, ServerEmits, ServerAnswers, ServerPings, ServerDisconnects, ServerCloses,
                LinkLost, ServerAct, client
  <2>2. server'.early = server.early \/ handled = <<>>
    <3>1. server.socket = "joining" => handled = <<>>
      BY <1>1 DEF Entrance, Silent, Arrived
    <3>2. QED
      BY <1>18, <3>1, EnvironmentSends
  <2>3. Heard
    BY <1>1, <2>1, <2>2, HeardKept DEF heard
  <2>4. Goes
    BY <1>1, <1>3, <1>4, <1>18, EnvironmentFlow
  <2>5. QED
    BY <2>3, <2>4
<1>19. QED
  BY <1>7, <1>8, <1>9, <1>10, <1>11, <1>12, <1>13, <1>14, <1>15, <1>16, <1>17, <1>18
     DEF Next, ConnectNext, ReaderNext

\* The handler gets every event from the answer to CONNECT and the call of on,
\* in the order the server sent them: for any calls, capacities and bounds, and
\* whatever is lost behind them (client.rs:164-189, 204-212, transport.rs:122-170).
THEOREM EventsInOrder == Spec => []HandledInOrder
<1>1. Orderly => HandledInOrder
  BY DEF Orderly
<1>2. QED
  BY <1>1, InitInv, NextInv, InitOrderly, OrderlyNext, PTL DEF Spec

=============================================================================
