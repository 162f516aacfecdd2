----------------------------- MODULE SecpProofs -----------------------------
(***************************************************************************)
(* Proofs about the SECP line, for all texts and all limits under which    *)
(* every proper line fits in a packet.                                     *)
(***************************************************************************)
EXTENDS SecpWire, WellFoundedInduction, SequenceTheorems, TLAPS

\* A nonempty set of naturals has a least element: what stands in for induction
\* over the bytes of a line.
LEMMA Least ==
  ASSUME NEW T, T \subseteq Nat, T # {}
  PROVE  \E x \in T : \A y \in T : x <= y
<1> DEFINE R == OpToRel(<, Nat)
<1>1. IsWellFoundedOn(R, Nat)
  BY NatLessThanWellFounded
<1>2. \A x, y \in Nat : y < x => <<y, x>> \in R
  BY DEF OpToRel
<1> HIDE DEF R
<1>3. PICK x \in T : \A y \in T : ~ (<<y, x>> \in R)
  BY <1>1, WFMin
<1>4. ASSUME NEW y \in T PROVE x <= y
  <2>1. x \in Nat /\ y \in Nat
    OBVIOUS
  <2>2. ~ (y < x)
    BY <1>2, <1>3, <2>1, Zenon
  <2> QED
    BY <2>1, <2>2
<1> QED
  BY <1>4

-----------------------------------------------------------------------------
(* What the parts of the parser find *)

\* Every field has an end ...
LEMMA FieldEndExists ==
  ASSUME NEW s \in Seq(Byte), NEW i \in 1 .. Len(s) + 1
  PROVE  FieldEnd(s, i) \in i .. Len(s) + 1 /\ EndsAt(s, i, FieldEnd(s, i))
<1> DEFINE T == {j \in i .. Len(s) + 1 : j = Len(s) + 1 \/ s[j] = Pipe}
<1>1. T \subseteq Nat /\ Len(s) + 1 \in T
  OBVIOUS
<1>2. PICK j \in T : \A k \in T : j <= k
  BY <1>1, Least
<1>3. EndsAt(s, i, j)
  BY <1>2 DEF EndsAt
<1>4. \E k \in i .. Len(s) + 1 : EndsAt(s, i, k)
  BY <1>3
<1> QED
  BY <1>4 DEF FieldEnd

\* ... and only one.
LEMMA FieldEndUnique ==
  ASSUME NEW s \in Seq(Byte), NEW i \in 1 .. Len(s) + 1,
         NEW j \in i .. Len(s) + 1, EndsAt(s, i, j)
  PROVE  FieldEnd(s, i) = j
<1>1. FieldEnd(s, i) \in i .. Len(s) + 1 /\ EndsAt(s, i, FieldEnd(s, i))
  BY FieldEndExists
<1> DEFINE e == FieldEnd(s, i)
<1> HIDE DEF e
<1>2. e \in i .. Len(s) + 1 /\ EndsAt(s, i, e)
  BY <1>1 DEF e
<1>3. ~ (e < j)
  BY <1>2 DEF EndsAt
<1>4. ~ (j < e)
  BY <1>2 DEF EndsAt
<1>5. e = j
  BY <1>2, <1>3, <1>4
<1> QED
  BY <1>5 DEF e

\* Every line has a body ...
LEMMA BodyExists ==
  ASSUME NEW bytes \in Seq(Byte)
  PROVE  \E n \in 0 .. Len(bytes) : IsBody(bytes, n)
<1> DEFINE T == {n \in 0 .. Len(bytes) : \A i \in n + 1 .. Len(bytes) : bytes[i] \in {LF, CR}}
<1>1. T \subseteq Nat /\ Len(bytes) \in T
  OBVIOUS
<1>2. PICK n \in T : \A k \in T : n <= k
  BY <1>1, Least
<1>3. ASSUME n > 0, bytes[n] \in {LF, CR} PROVE FALSE
  <2>1. n - 1 \in T
    BY <1>3
  <2>2. n \in 0 .. Len(bytes) /\ n <= n - 1
    BY <1>2, <2>1
  <2> QED
    BY <2>2
<1> QED
  BY <1>3 DEF IsBody

\* ... and only one.
LEMMA BodyUnique ==
  ASSUME NEW bytes \in Seq(Byte), NEW n \in 0 .. Len(bytes), IsBody(bytes, n)
  PROVE  Body(bytes) = SubSeq(bytes, 1, n)
<1>1. ASSUME NEW k \in 0 .. Len(bytes), IsBody(bytes, k) PROVE k = n
  <2>1. ~ (k < n)
    BY <1>1 DEF IsBody
  <2>2. ~ (n < k)
    BY <1>1 DEF IsBody
  <2> QED
    BY <2>1, <2>2
<1>2. (CHOOSE k \in 0 .. Len(bytes) : IsBody(bytes, k)) = n
  BY <1>1
<1> QED
  BY <1>2 DEF Body

LEMMA BodyType ==
  ASSUME NEW bytes \in Seq(Byte)
  PROVE  Body(bytes) \in Seq(Byte)
<1>1. PICK n \in 0 .. Len(bytes) : IsBody(bytes, n)
  BY BodyExists
<1>2. Body(bytes) = SubSeq(bytes, 1, n)
  BY <1>1, BodyUnique
<1> QED
  BY <1>2

-----------------------------------------------------------------------------
(* How a line is laid out *)

\* Two texts with a pipe between them.
LEMMA Joined ==
  ASSUME NEW a \in Seq(Byte), NEW b \in Seq(Byte)
  PROVE  /\ a \o <<Pipe>> \o b \in Seq(Byte)
         /\ Len(a \o <<Pipe>> \o b) = Len(a) + 1 + Len(b)
         /\ \A i \in 1 .. Len(a) : (a \o <<Pipe>> \o b)[i] = a[i]
         /\ (a \o <<Pipe>> \o b)[Len(a) + 1] = Pipe
         /\ \A i \in Len(a) + 2 .. Len(a) + 1 + Len(b) :
               (a \o <<Pipe>> \o b)[i] = b[i - Len(a) - 1]
<1>1. <<Pipe>> \in Seq(Byte) /\ Len(<<Pipe>>) = 1 /\ <<Pipe>>[1] = Pipe
  BY DEF Pipe, Byte
<1> DEFINE c == a \o <<Pipe>>
<1>2. /\ c \in Seq(Byte)
      /\ Len(c) = Len(a) + 1
      /\ \A i \in 1 .. Len(a) : c[i] = a[i]
      /\ c[Len(a) + 1] = Pipe
  BY <1>1
<1> HIDE DEF c
<1>3. /\ c \o b \in Seq(Byte)
      /\ Len(c \o b) = Len(a) + 1 + Len(b)
      /\ \A i \in 1 .. Len(a) + 1 : (c \o b)[i] = c[i]
      /\ \A i \in Len(a) + 2 .. Len(a) + 1 + Len(b) : (c \o b)[i] = b[i - Len(a) - 1]
  BY <1>2
<1> QED
  BY <1>2, <1>3 DEF c

\* Laid(s, t, r, u, p): s is made of these four fields, with pipes between them.
Laid(s, t, r, u, p) ==
    /\ s \in Seq(Byte)
    /\ Len(s) = Len(t) + Len(r) + Len(u) + Len(p) + 3
    /\ \A i \in 1 .. Len(t) : s[i] = t[i]
    /\ s[Len(t) + 1] = Pipe
    /\ \A i \in Len(t) + 2 .. Len(t) + Len(r) + 1 : s[i] = r[i - Len(t) - 1]
    /\ s[Len(t) + Len(r) + 2] = Pipe
    /\ \A i \in Len(t) + Len(r) + 3 .. Len(t) + Len(r) + Len(u) + 2 :
          s[i] = u[i - Len(t) - Len(r) - 2]
    /\ s[Len(t) + Len(r) + Len(u) + 3] = Pipe
    /\ \A i \in Len(t) + Len(r) + Len(u) + 4 .. Len(s) :
          s[i] = p[i - Len(t) - Len(r) - Len(u) - 3]

\* The line that is built is laid out in this way.
LEMMA FieldsLaid ==
  ASSUME NEW t \in Seq(Byte), NEW r \in Seq(Byte), NEW u \in Seq(Byte), NEW p \in Seq(Byte)
  PROVE  Laid(t \o <<Pipe>> \o r \o <<Pipe>> \o u \o <<Pipe>> \o p, t, r, u, p)
<1> DEFINE a == t \o <<Pipe>> \o r
           b == a \o <<Pipe>> \o u
           c == b \o <<Pipe>> \o p
<1>1. /\ a \in Seq(Byte) /\ Len(a) = Len(t) + 1 + Len(r)
      /\ \A i \in 1 .. Len(t) : a[i] = t[i]
      /\ a[Len(t) + 1] = Pipe
      /\ \A i \in Len(t) + 2 .. Len(t) + Len(r) + 1 : a[i] = r[i - Len(t) - 1]
  BY Joined
<1> HIDE DEF a
<1>2. /\ b \in Seq(Byte) /\ Len(b) = Len(a) + 1 + Len(u)
      /\ \A i \in 1 .. Len(a) : b[i] = a[i]
      /\ b[Len(a) + 1] = Pipe
      /\ \A i \in Len(a) + 2 .. Len(a) + 1 + Len(u) : b[i] = u[i - Len(a) - 1]
  BY <1>1, Joined
<1> HIDE DEF b
<1>3. /\ c \in Seq(Byte) /\ Len(c) = Len(b) + 1 + Len(p)
      /\ \A i \in 1 .. Len(b) : c[i] = b[i]
      /\ c[Len(b) + 1] = Pipe
      /\ \A i \in Len(b) + 2 .. Len(b) + 1 + Len(p) : c[i] = p[i - Len(b) - 1]
  BY <1>2, Joined
<1> HIDE DEF c
<1>4. Len(t) \in Nat /\ Len(r) \in Nat /\ Len(u) \in Nat /\ Len(p) \in Nat
  OBVIOUS
<1>5. \A i \in 1 .. Len(t) : c[i] = t[i]
  BY <1>1, <1>2, <1>3, <1>4
<1>6. c[Len(t) + 1] = Pipe
  BY <1>1, <1>2, <1>3, <1>4
<1>7. \A i \in Len(t) + 2 .. Len(t) + Len(r) + 1 : c[i] = r[i - Len(t) - 1]
  BY <1>1, <1>2, <1>3, <1>4
<1>8. c[Len(t) + Len(r) + 2] = Pipe
  BY <1>1, <1>2, <1>3, <1>4
<1>9. \A i \in Len(t) + Len(r) + 3 .. Len(t) + Len(r) + Len(u) + 2 :
          c[i] = u[i - Len(t) - Len(r) - 2]
  BY <1>1, <1>2, <1>3, <1>4
<1>10. c[Len(t) + Len(r) + Len(u) + 3] = Pipe
  BY <1>1, <1>2, <1>3, <1>4
<1>11. \A i \in Len(t) + Len(r) + Len(u) + 4 .. Len(c) :
          c[i] = p[i - Len(t) - Len(r) - Len(u) - 3]
  BY <1>1, <1>2, <1>3, <1>4
<1>12. Len(c) = Len(t) + Len(r) + Len(u) + Len(p) + 3
  BY <1>1, <1>2, <1>3, <1>4
<1>13. Laid(c, t, r, u, p)
  BY <1>3, <1>5, <1>6, <1>7, <1>8, <1>9, <1>10, <1>11, <1>12 DEF Laid
<1> QED
  BY <1>13 DEF a, b, c

\* Every place of such a line is a byte of a field or one of the pipes.
LEMMA Places ==
  ASSUME NEW a \in Nat, NEW b \in Nat, NEW d \in Nat, NEW n \in Nat, NEW i \in 1 .. n
  PROVE  \/ i \in 1 .. a \/ i = a + 1
         \/ i \in a + 2 .. a + b + 1 \/ i = a + b + 2
         \/ i \in a + b + 3 .. a + b + d + 2 \/ i = a + b + d + 3
         \/ i \in a + b + d + 4 .. n
  OBVIOUS

\* Only one line is.
LEMMA LaidUnique ==
  ASSUME NEW t \in Seq(Byte), NEW r \in Seq(Byte), NEW u \in Seq(Byte), NEW p \in Seq(Byte),
         NEW s, Laid(s, t, r, u, p)
  PROVE  s = t \o <<Pipe>> \o r \o <<Pipe>> \o u \o <<Pipe>> \o p
<1> DEFINE c == t \o <<Pipe>> \o r \o <<Pipe>> \o u \o <<Pipe>> \o p
<1>1. Laid(c, t, r, u, p)
  BY FieldsLaid
<1> HIDE DEF c
<1>2. s \in Seq(Byte) /\ c \in Seq(Byte) /\ Len(s) = Len(c)
  BY <1>1 DEF Laid
<1>3. ASSUME NEW i \in 1 .. Len(s) PROVE s[i] = c[i]
  <2>1. /\ Len(t) \in Nat /\ Len(r) \in Nat /\ Len(u) \in Nat /\ Len(p) \in Nat
        /\ Len(s) \in Nat /\ i \in Nat
    BY <1>2
  <2> DEFINE j == Len(t) + 1
             k == Len(t) + Len(r) + 2
             l == Len(t) + Len(r) + Len(u) + 3
  <2>2. \/ i \in 1 .. Len(t) \/ i = j
        \/ i \in Len(t) + 2 .. Len(t) + Len(r) + 1 \/ i = k
        \/ i \in Len(t) + Len(r) + 3 .. Len(t) + Len(r) + Len(u) + 2 \/ i = l
        \/ i \in Len(t) + Len(r) + Len(u) + 4 .. Len(s)
    BY <2>1, Places
  <2>3. s[j] = Pipe /\ s[k] = Pipe /\ s[l] = Pipe /\ c[j] = Pipe /\ c[k] = Pipe /\ c[l] = Pipe
    BY <1>1 DEF Laid
  <2> HIDE DEF j, k, l
  <2>4. CASE i \in 1 .. Len(t)
    BY <1>1, <2>4, Zenon DEF Laid
  <2>5. CASE i \in Len(t) + 2 .. Len(t) + Len(r) + 1
    BY <1>1, <2>5, Zenon DEF Laid
  <2>6. CASE i \in Len(t) + Len(r) + 3 .. Len(t) + Len(r) + Len(u) + 2
    BY <1>1, <2>6, Zenon DEF Laid
  <2>7. CASE i \in Len(t) + Len(r) + Len(u) + 4 .. Len(s)
    <3>1. i \in Len(t) + Len(r) + Len(u) + 4 .. Len(c)
      BY <1>2, <2>7
    <3> QED
      BY <1>1, <2>7, <3>1, Zenon DEF Laid
  <2> QED
    BY <2>2, <2>3, <2>4, <2>5, <2>6, <2>7, Zenon
<1>4. s = c
  BY <1>2, <1>3, SeqEqual
<1> QED
  BY <1>4 DEF c

-----------------------------------------------------------------------------
(* What a line says *)

\* The spelling of a type has neither separators nor more than 13 bytes.
LEMMA TypeNames ==
  ASSUME NEW t \in Type
  PROVE  /\ TypeName[t] \in Seq(Byte)
         /\ Len(TypeName[t]) \in 1..13
         /\ \A i \in 1 .. Len(TypeName[t]) : TypeName[t][i] \notin {Pipe, LF, CR}
<1>1. CASE t = "PRESENCE"
  BY <1>1 DEF TypeName, Byte, Pipe, LF, CR
<1>2. CASE t = "ROOM_ANNOUNCE"
  BY <1>2 DEF TypeName, Byte, Pipe, LF, CR
<1>3. CASE t = "INVITE"
  BY <1>3 DEF TypeName, Byte, Pipe, LF, CR
<1>4. CASE t = "CHAT"
  BY <1>4 DEF TypeName, Byte, Pipe, LF, CR
<1> QED
  BY <1>1, <1>2, <1>3, <1>4 DEF Type

\* No two types are spelt alike: their names differ in length.
LEMMA TypeKnown ==
  ASSUME NEW t \in Type
  PROVE  IsType(TypeName[t]) /\ TypeOf(TypeName[t]) = t
<1>1. ASSUME NEW u \in Type, TypeName[u] = TypeName[t] PROVE u = t
  <2>1. Len(TypeName[u]) = Len(TypeName[t])
    BY <1>1
  <2>2. /\ Len(TypeName["PRESENCE"]) = 8 /\ Len(TypeName["ROOM_ANNOUNCE"]) = 13
        /\ Len(TypeName["INVITE"]) = 6 /\ Len(TypeName["CHAT"]) = 4
    BY DEF TypeName
  <2> DEFINE L(x) == Len(TypeName[x])
  <2>3. L(u) = L(t) /\ L("PRESENCE") = 8 /\ L("ROOM_ANNOUNCE") = 13
        /\ L("INVITE") = 6 /\ L("CHAT") = 4
    BY <2>1, <2>2
  <2> HIDE DEF L
  <2>4. t \in {"PRESENCE", "ROOM_ANNOUNCE", "INVITE", "CHAT"}
        /\ u \in {"PRESENCE", "ROOM_ANNOUNCE", "INVITE", "CHAT"}
    BY DEF Type
  <2> QED
    BY <2>3, <2>4
<1>2. IsType(TypeName[t])
  BY DEF IsType
<1>3. TypeOf(TypeName[t]) = t
  BY <1>1 DEF TypeOf
<1> QED
  BY <1>2, <1>3

\* A token that is the name of a type is read as that type.
LEMMA TypeReads ==
  ASSUME NEW token, IsType(token)
  PROVE  TypeOf(token) \in Type /\ TypeName[TypeOf(token)] = token
  BY DEF IsType, TypeOf

NoPipe(s) == \A i \in 1 .. Len(s) : s[i] # Pipe

\* Fields without pipes are found where they were laid.
LEMMA LaidStarts ==
  ASSUME NEW t \in Seq(Byte), NEW r \in Seq(Byte), NEW u \in Seq(Byte), NEW p \in Seq(Byte),
         NoPipe(t), NoPipe(r), NoPipe(u), NoPipe(p),
         NEW s \in Seq(Byte), Laid(s, t, r, u, p)
  PROVE  /\ RoomStart(s) = Len(t) + 2
         /\ UsernameStart(s) = Len(t) + Len(r) + 3
         /\ PayloadStart(s) = Len(t) + Len(r) + Len(u) + 4
         /\ HasFourFields(s)
<1>1. /\ Len(t) \in Nat /\ Len(r) \in Nat /\ Len(u) \in Nat /\ Len(p) \in Nat
      /\ Len(s) = Len(t) + Len(r) + Len(u) + Len(p) + 3
  BY DEF Laid
<1>2. FieldEnd(s, 1) = Len(t) + 1
  <2>1. EndsAt(s, 1, Len(t) + 1)
    <3>1. ASSUME NEW i \in 1 .. Len(t) PROVE s[i] # Pipe
      BY Zenon DEF Laid, NoPipe
    <3>2. s[Len(t) + 1] = Pipe /\ (Len(t) + 1) - 1 = Len(t)
      BY <1>1 DEF Laid
    <3> QED
      BY <3>1, <3>2 DEF EndsAt
  <2>2. 1 \in 1 .. Len(s) + 1 /\ Len(t) + 1 \in 1 .. Len(s) + 1
    BY <1>1
  <2> QED
    BY <2>1, <2>2, FieldEndUnique
<1>3. FieldEnd(s, Len(t) + 2) = Len(t) + Len(r) + 2
  <2>1. ASSUME NEW i \in Len(t) + 2 .. Len(t) + Len(r) + 1 PROVE s[i] # Pipe
    <3>1. i - Len(t) - 1 \in 1 .. Len(r)
      BY <1>1
    <3>2. s[i] = r[i - Len(t) - 1]
      BY Zenon DEF Laid
    <3> QED
      BY <3>1, <3>2 DEF NoPipe
  <2>2. s[Len(t) + Len(r) + 2] = Pipe
    BY DEF Laid
  <2>3. (Len(t) + Len(r) + 2) - 1 = Len(t) + Len(r) + 1
    BY <1>1
  <2>4. EndsAt(s, Len(t) + 2, Len(t) + Len(r) + 2)
    BY <2>1, <2>2, <2>3 DEF EndsAt
  <2>5. /\ Len(t) + 2 \in 1 .. Len(s) + 1
        /\ Len(t) + Len(r) + 2 \in Len(t) + 2 .. Len(s) + 1
    BY <1>1
  <2> QED
    BY <2>4, <2>5, FieldEndUnique
<1>4. FieldEnd(s, Len(t) + Len(r) + 3) = Len(t) + Len(r) + Len(u) + 3
  <2>1. ASSUME NEW i \in Len(t) + Len(r) + 3 .. Len(t) + Len(r) + Len(u) + 2 PROVE s[i] # Pipe
    <3>1. i - Len(t) - Len(r) - 2 \in 1 .. Len(u)
      BY <1>1
    <3>2. s[i] = u[i - Len(t) - Len(r) - 2]
      BY Zenon DEF Laid
    <3> QED
      BY <3>1, <3>2 DEF NoPipe
  <2>2. s[Len(t) + Len(r) + Len(u) + 3] = Pipe
    BY DEF Laid
  <2>3. (Len(t) + Len(r) + Len(u) + 3) - 1 = Len(t) + Len(r) + Len(u) + 2
    BY <1>1
  <2>4. EndsAt(s, Len(t) + Len(r) + 3, Len(t) + Len(r) + Len(u) + 3)
    BY <2>1, <2>2, <2>3 DEF EndsAt
  <2>5. /\ Len(t) + Len(r) + 3 \in 1 .. Len(s) + 1
        /\ Len(t) + Len(r) + Len(u) + 3 \in Len(t) + Len(r) + 3 .. Len(s) + 1
    BY <1>1
  <2> QED
    BY <2>4, <2>5, FieldEndUnique
<1>5. FieldEnd(s, Len(t) + Len(r) + Len(u) + 4) = Len(s) + 1
  <2>1. ASSUME NEW i \in Len(t) + Len(r) + Len(u) + 4 .. Len(s) PROVE s[i] # Pipe
    <3>1. i - Len(t) - Len(r) - Len(u) - 3 \in 1 .. Len(p)
      BY <1>1
    <3>2. s[i] = p[i - Len(t) - Len(r) - Len(u) - 3]
      BY Zenon DEF Laid
    <3> QED
      BY <3>1, <3>2 DEF NoPipe
  <2>2. (Len(s) + 1) - 1 = Len(s)
    BY <1>1
  <2>3. EndsAt(s, Len(t) + Len(r) + Len(u) + 4, Len(s) + 1)
    BY <2>1, <2>2 DEF EndsAt
  <2>4. /\ Len(t) + Len(r) + Len(u) + 4 \in 1 .. Len(s) + 1
        /\ Len(s) + 1 \in Len(t) + Len(r) + Len(u) + 4 .. Len(s) + 1
    BY <1>1
  <2> QED
    BY <2>3, <2>4, FieldEndUnique
<1>6. RoomStart(s) = Len(t) + 2
  BY <1>1, <1>2 DEF RoomStart
<1>7. UsernameStart(s) = Len(t) + Len(r) + 3
  BY <1>1, <1>3, <1>6 DEF UsernameStart
<1>8. PayloadStart(s) = Len(t) + Len(r) + Len(u) + 4
  BY <1>1, <1>4, <1>7 DEF PayloadStart
<1>9. HasFourFields(s)
  BY <1>1, <1>5, <1>6, <1>7, <1>8 DEF HasFourFields
<1> QED
  BY <1>6, <1>7, <1>8, <1>9

\* A text that lies in a line from some place on is cut out of it whole.
LEMMA CutOut ==
  ASSUME NEW s \in Seq(Byte), NEW x \in Seq(Byte), NEW m \in 1 .. Len(s) + 1, NEW n \in Nat,
         n = m + Len(x) - 1, n <= Len(s),
         \A i \in m .. n : s[i] = x[i - m + 1]
  PROVE  SubSeq(s, m, n) = x
<1>1. m \in Nat /\ Len(x) \in Nat /\ Len(s) \in Nat
  OBVIOUS
<1>2. SubSeq(s, m, n) \in Seq(Byte) /\ Len(SubSeq(s, m, n)) = Len(x)
  BY <1>1
<1>3. ASSUME NEW i \in 1 .. Len(x) PROVE SubSeq(s, m, n)[i] = x[i]
  <2>1. SubSeq(s, m, n)[i] = s[m + i - 1]
    BY <1>1
  <2>2. m + i - 1 \in m .. n /\ (m + i - 1) - m + 1 = i
    BY <1>1
  <2>3. s[m + i - 1] = x[(m + i - 1) - m + 1]
    BY <2>2
  <2> QED
    BY <2>1, <2>2, <2>3
<1> QED
  BY <1>2, <1>3, SeqEqual

\* Fields without pipes are read as they were laid.
LEMMA LaidReads ==
  ASSUME NEW t \in Seq(Byte), NEW r \in Seq(Byte), NEW u \in Seq(Byte), NEW p \in Seq(Byte),
         NoPipe(t), NoPipe(r), NoPipe(u), NoPipe(p),
         NEW s \in Seq(Byte), Laid(s, t, r, u, p)
  PROVE  /\ HasFourFields(s)
         /\ TypeToken(s) = t
         /\ FieldsOf(s) = [type |-> TypeOf(t), room |-> r, username |-> u, payload |-> p]
<1>1. /\ Len(t) \in Nat /\ Len(r) \in Nat /\ Len(u) \in Nat /\ Len(p) \in Nat /\ Len(s) \in Nat
      /\ Len(s) = Len(t) + Len(r) + Len(u) + Len(p) + 3
  BY DEF Laid
<1>2. /\ RoomStart(s) = Len(t) + 2
      /\ UsernameStart(s) = Len(t) + Len(r) + 3
      /\ PayloadStart(s) = Len(t) + Len(r) + Len(u) + 4
      /\ HasFourFields(s)
  BY LaidStarts
<1>3. SubSeq(s, 1, Len(t)) = t
  <2>1. ASSUME NEW i \in 1 .. Len(t) PROVE s[i] = t[i] /\ i - 1 + 1 = i
    <3>1. s[i] = t[i]
      BY Zenon DEF Laid
    <3> QED
      BY <3>1
  <2>2. \A i \in 1 .. Len(t) : s[i] = t[i - 1 + 1]
    BY <2>1
  <2>3. 1 \in 1 .. Len(s) + 1 /\ Len(t) = 1 + Len(t) - 1 /\ Len(t) <= Len(s)
    BY <1>1
  <2> QED
    BY <1>1, <2>2, <2>3, CutOut
<1>4. SubSeq(s, Len(t) + 2, Len(t) + Len(r) + 1) = r
  <2>1. ASSUME NEW i \in Len(t) + 2 .. Len(t) + Len(r) + 1
        PROVE  s[i] = r[i - (Len(t) + 2) + 1]
    <3>1. s[i] = r[i - Len(t) - 1]
      BY Zenon DEF Laid
    <3>2. i - Len(t) - 1 = i - (Len(t) + 2) + 1
      BY <1>1
    <3> QED
      BY <3>1, <3>2
  <2>2. /\ Len(t) + 2 \in 1 .. Len(s) + 1
        /\ Len(t) + Len(r) + 1 \in Nat
        /\ Len(t) + Len(r) + 1 = (Len(t) + 2) + Len(r) - 1
        /\ Len(t) + Len(r) + 1 <= Len(s)
    BY <1>1
  <2> QED
    BY <2>1, <2>2, CutOut
<1>5. SubSeq(s, Len(t) + Len(r) + 3, Len(t) + Len(r) + Len(u) + 2) = u
  <2>1. ASSUME NEW i \in Len(t) + Len(r) + 3 .. Len(t) + Len(r) + Len(u) + 2
        PROVE  s[i] = u[i - (Len(t) + Len(r) + 3) + 1]
    <3>1. s[i] = u[i - Len(t) - Len(r) - 2]
      BY Zenon DEF Laid
    <3>2. i - Len(t) - Len(r) - 2 = i - (Len(t) + Len(r) + 3) + 1
      BY <1>1
    <3> QED
      BY <3>1, <3>2
  <2>2. /\ Len(t) + Len(r) + 3 \in 1 .. Len(s) + 1
        /\ Len(t) + Len(r) + Len(u) + 2 \in Nat
        /\ Len(t) + Len(r) + Len(u) + 2 = (Len(t) + Len(r) + 3) + Len(u) - 1
        /\ Len(t) + Len(r) + Len(u) + 2 <= Len(s)
    BY <1>1
  <2> QED
    BY <2>1, <2>2, CutOut
<1>6. SubSeq(s, Len(t) + Len(r) + Len(u) + 4, Len(s)) = p
  <2>1. ASSUME NEW i \in Len(t) + Len(r) + Len(u) + 4 .. Len(s)
        PROVE  s[i] = p[i - (Len(t) + Len(r) + Len(u) + 4) + 1]
    <3>1. s[i] = p[i - Len(t) - Len(r) - Len(u) - 3]
      BY Zenon DEF Laid
    <3>2. i - Len(t) - Len(r) - Len(u) - 3 = i - (Len(t) + Len(r) + Len(u) + 4) + 1
      BY <1>1
    <3> QED
      BY <3>1, <3>2
  <2>2. /\ Len(t) + Len(r) + Len(u) + 4 \in 1 .. Len(s) + 1
        /\ Len(s) = (Len(t) + Len(r) + Len(u) + 4) + Len(p) - 1
    BY <1>1
  <2> QED
    BY <1>1, <2>1, <2>2, CutOut
<1>7. /\ RoomStart(s) - 2 = Len(t)
      /\ UsernameStart(s) - 2 = Len(t) + Len(r) + 1
      /\ PayloadStart(s) - 2 = Len(t) + Len(r) + Len(u) + 2
  BY <1>1, <1>2
<1>8. TypeToken(s) = t
  BY <1>3, <1>7 DEF TypeToken
<1>9. FieldsOf(s) = [type |-> TypeOf(t), room |-> r, username |-> u, payload |-> p]
  BY <1>2, <1>4, <1>5, <1>6, <1>7, <1>8 DEF FieldsOf
<1> QED
  BY <1>2, <1>8, <1>9

-----------------------------------------------------------------------------
(* Build and parse undo each other *)

\* No field of a message that passes the checks holds a separator.
LEMMA ProperFields ==
  ASSUME NEW m, FieldsOk(m)
  PROVE  /\ NoPipe(m.room) /\ NoPipe(m.username) /\ NoPipe(m.payload)
         /\ \A i \in 1 .. Len(m.payload) : m.payload[i] \notin {LF, CR}
         /\ Len(m.room) <= MaxRoomNameBytes /\ Len(m.username) <= MaxUsernameBytes
         /\ Len(m.payload) <= MaxChatMessageBytes
  BY DEF FieldsOk, IsRoomOk, IsUsernameOk, IsPayloadOk, IsText, ContainsPipeOrNewline, NoPipe

LEMMA FieldsOfMessage ==
  ASSUME NEW m \in Message
  PROVE  /\ Fields(m) \in Seq(Byte)
         /\ Laid(Fields(m), TypeName[m.type], m.room, m.username, m.payload)
<1>1. /\ m.type \in Type /\ m.room \in Seq(Byte) /\ m.username \in Seq(Byte)
      /\ m.payload \in Seq(Byte)
  BY DEF Message
<1>2. TypeName[m.type] \in Seq(Byte)
  BY <1>1, TypeNames
<1>3. Laid(Fields(m), TypeName[m.type], m.room, m.username, m.payload)
  BY <1>1, <1>2, FieldsLaid DEF Fields
<1> QED
  BY <1>3 DEF Laid

\* A line is built with its line feed, and within the size of a packet.
LEMMA BuildType ==
  ASSUME NEW m \in Message
  PROVE  Build(m) \in Seq(Byte)
<1>1. Fields(m) \in Seq(Byte) /\ <<LF>> \in Seq(Byte)
  BY FieldsOfMessage DEF LF, Byte
<1> QED
  BY <1>1 DEF Build

\* Without a line end in the last field there is none at the end of the line.
LEMMA LastByte ==
  ASSUME NEW t \in Seq(Byte), NEW r \in Seq(Byte), NEW u \in Seq(Byte), NEW p \in Seq(Byte),
         NEW s \in Seq(Byte), Laid(s, t, r, u, p),
         \A i \in 1 .. Len(p) : p[i] \notin {LF, CR}
  PROVE  Len(s) > 0 /\ s[Len(s)] \notin {LF, CR}
<1>1. /\ Len(t) \in Nat /\ Len(r) \in Nat /\ Len(u) \in Nat /\ Len(p) \in Nat /\ Len(s) \in Nat
      /\ Len(s) = Len(t) + Len(r) + Len(u) + Len(p) + 3
  BY DEF Laid
<1>2. CASE Len(p) = 0
  <2>1. s[Len(t) + Len(r) + Len(u) + 3] = Pipe
    BY DEF Laid
  <2>2. Len(s) = Len(t) + Len(r) + Len(u) + 3
    BY <1>1, <1>2
  <2> QED
    BY <1>1, <2>1, <2>2 DEF Pipe, LF, CR
<1>3. CASE Len(p) > 0
  <2>1. Len(s) \in Len(t) + Len(r) + Len(u) + 4 .. Len(s)
    BY <1>1, <1>3
  <2>2. s[Len(s)] = p[Len(s) - Len(t) - Len(r) - Len(u) - 3]
    BY <2>1, Zenon DEF Laid
  <2>3. Len(s) - Len(t) - Len(r) - Len(u) - 3 \in 1 .. Len(p)
    BY <1>1, <1>3
  <2>4. s[Len(s)] \notin {LF, CR}
    BY <2>2, <2>3
  <2> QED
    BY <1>1, <2>4
<1> QED
  BY <1>1, <1>2, <1>3

\* What is built is read as it was.
LEMMA ReadsWhatIsBuilt ==
  ASSUME NEW m \in Message, Build(m) # <<>>
  PROVE  Parse(Build(m)) = m
<1> DEFINE f == Fields(m)
           b == f \o <<LF>>
<1>1. Build(m) = b /\ FieldsOk(m) /\ Len(f) + 1 <= MaxPacketBytes
  BY DEF Build
<1>2. f \in Seq(Byte) /\ Laid(f, TypeName[m.type], m.room, m.username, m.payload)
  BY FieldsOfMessage
<1>3. /\ m.type \in Type /\ m.room \in Seq(Byte) /\ m.username \in Seq(Byte)
      /\ m.payload \in Seq(Byte)
      /\ m = [type |-> m.type, room |-> m.room, username |-> m.username, payload |-> m.payload]
  BY DEF Message
<1>4. /\ TypeName[m.type] \in Seq(Byte) /\ NoPipe(TypeName[m.type])
      /\ TypeOf(TypeName[m.type]) = m.type /\ IsType(TypeName[m.type])
  BY <1>3, TypeNames, TypeKnown DEF NoPipe
<1>5. /\ NoPipe(m.room) /\ NoPipe(m.username) /\ NoPipe(m.payload)
      /\ \A i \in 1 .. Len(m.payload) : m.payload[i] \notin {LF, CR}
  BY <1>1, ProperFields
<1> HIDE DEF f
<1>6. /\ b \in Seq(Byte) /\ Len(b) = Len(f) + 1 /\ b[Len(f) + 1] = LF
      /\ \A i \in 1 .. Len(f) : b[i] = f[i]
  BY <1>2 DEF LF, Byte
<1> HIDE DEF b
<1>7. f[Len(f)] \notin {LF, CR} /\ Len(f) > 0
  BY <1>2, <1>3, <1>4, <1>5, LastByte
<1>8. IsBody(b, Len(f))
  BY <1>2, <1>6, <1>7 DEF IsBody
<1>9. Body(b) = f
  <2>1. Len(f) \in 0 .. Len(b) /\ Len(f) \in Nat
    BY <1>2, <1>6
  <2>2. Body(b) = SubSeq(b, 1, Len(f))
    BY <1>6, <1>8, <2>1, BodyUnique
  <2>3. \A i \in 1 .. Len(f) : b[i] = f[i - 1 + 1]
    <3>1. \A i \in 1 .. Len(f) : i - 1 + 1 = i
      BY <2>1
    <3> QED
      BY <1>6, <3>1
  <2>4. 1 \in 1 .. Len(b) + 1 /\ Len(f) = 1 + Len(f) - 1 /\ Len(f) <= Len(b)
    BY <2>1
  <2>5. SubSeq(b, 1, Len(f)) = f
    BY <1>2, <1>6, <2>1, <2>3, <2>4, CutOut
  <2> QED
    BY <2>2, <2>5
<1>10. /\ HasFourFields(f) /\ TypeToken(f) = TypeName[m.type]
       /\ FieldsOf(f) = [type |-> TypeOf(TypeName[m.type]), room |-> m.room,
                         username |-> m.username, payload |-> m.payload]
  BY <1>2, <1>3, <1>4, <1>5, LaidReads
<1>11. FieldsOf(f) = m
  BY <1>3, <1>4, <1>10
<1>12. Len(b) <= MaxPacketBytes
  BY <1>1, <1>6
<1>13. Accepts(b)
  BY <1>1, <1>4, <1>9, <1>10, <1>11, <1>12 DEF Accepts
<1>14. Parse(b) = m
  BY <1>9, <1>11, <1>13 DEF Parse
<1> QED
  BY <1>1, <1>14

\* What is read is what was built, up to the end of the line.
LEMMA BuildsWhatIsRead ==
  ASSUME NEW bytes \in Seq(Byte), Accepts(bytes)
  PROVE  /\ Parse(bytes) \in Message
         /\ Build(Parse(bytes)) = Body(bytes) \o <<LF>>
<1> DEFINE s == Body(bytes)
           e1 == FieldEnd(s, 1)
           e2 == FieldEnd(s, e1 + 1)
           e3 == FieldEnd(s, e2 + 1)
           t == SubSeq(s, 1, e1 - 1)
           r == SubSeq(s, e1 + 1, e2 - 1)
           u == SubSeq(s, e2 + 1, e3 - 1)
           p == SubSeq(s, e3 + 1, Len(s))
<1>1. s \in Seq(Byte)
  BY BodyType
<1>2. /\ RoomStart(s) = e1 + 1 /\ UsernameStart(s) = e2 + 1 /\ PayloadStart(s) = e3 + 1
  BY DEF RoomStart, UsernameStart, PayloadStart
<1>3. /\ HasFourFields(s) /\ IsType(TypeToken(s)) /\ FieldsOk(FieldsOf(s))
  BY DEF Accepts
<1> HIDE DEF s
<1>4. e1 \in 1 .. Len(s) /\ s[e1] = Pipe
  <2>1. 1 \in 1 .. Len(s) + 1
    BY <1>1
  <2>2. e1 \in 1 .. Len(s) + 1 /\ EndsAt(s, 1, e1)
    BY <1>1, <2>1, FieldEndExists
  <2>3. e1 + 1 <= Len(s) + 1
    BY <1>2, <1>3 DEF HasFourFields
  <2> HIDE DEF e1
  <2> QED
    BY <1>1, <2>2, <2>3 DEF EndsAt
<1> HIDE DEF e1
<1>5. e2 \in e1 + 1 .. Len(s) /\ s[e2] = Pipe
  <2>1. e1 + 1 \in 1 .. Len(s) + 1
    BY <1>1, <1>4
  <2>2. e2 \in e1 + 1 .. Len(s) + 1 /\ EndsAt(s, e1 + 1, e2)
    BY <1>1, <2>1, FieldEndExists
  <2>3. e2 + 1 <= Len(s) + 1
    BY <1>2, <1>3 DEF HasFourFields
  <2> HIDE DEF e2
  <2> QED
    BY <1>1, <1>4, <2>2, <2>3 DEF EndsAt
<1> HIDE DEF e2
<1>6. e3 \in e2 + 1 .. Len(s) /\ s[e3] = Pipe
  <2>1. e2 + 1 \in 1 .. Len(s) + 1
    BY <1>1, <1>4, <1>5
  <2>2. e3 \in e2 + 1 .. Len(s) + 1 /\ EndsAt(s, e2 + 1, e3)
    BY <1>1, <2>1, FieldEndExists
  <2>3. e3 + 1 <= Len(s) + 1
    BY <1>2, <1>3 DEF HasFourFields
  <2> HIDE DEF e3
  <2> QED
    BY <1>1, <1>4, <1>5, <2>2, <2>3 DEF EndsAt
<1> HIDE DEF e3
<1>7. Len(s) \in Nat /\ e1 \in Nat /\ e2 \in Nat /\ e3 \in Nat /\ 0 < e1 /\ e1 < e2 /\ e2 < e3
      /\ e3 <= Len(s)
  BY <1>1, <1>4, <1>5, <1>6
<1>8. /\ t \in Seq(Byte) /\ Len(t) = e1 - 1 /\ \A i \in 1 .. Len(t) : s[i] = t[i]
  BY <1>1, <1>7
<1>9. /\ r \in Seq(Byte) /\ Len(r) = e2 - e1 - 1
      /\ \A i \in e1 + 1 .. e2 - 1 : s[i] = r[i - e1]
  BY <1>1, <1>7
<1>10. /\ u \in Seq(Byte) /\ Len(u) = e3 - e2 - 1
       /\ \A i \in e2 + 1 .. e3 - 1 : s[i] = u[i - e2]
  BY <1>1, <1>7
<1>11. /\ p \in Seq(Byte) /\ Len(p) = Len(s) - e3
       /\ \A i \in e3 + 1 .. Len(s) : s[i] = p[i - e3]
  BY <1>1, <1>7
<1>12. /\ TypeToken(s) = t
       /\ FieldsOf(s) = [type |-> TypeOf(t), room |-> r, username |-> u, payload |-> p]
  <2>1. /\ RoomStart(s) - 2 = e1 - 1 /\ UsernameStart(s) - 2 = e2 - 1
        /\ PayloadStart(s) - 2 = e3 - 1
    BY <1>2, <1>7
  <2> QED
    BY <1>2, <2>1 DEF TypeToken, FieldsOf
<1> HIDE DEF t, r, u, p
<1>13. Laid(s, t, r, u, p)
  <2>1. /\ Len(t) + 1 = e1 /\ Len(t) + Len(r) + 2 = e2 /\ Len(t) + Len(r) + Len(u) + 3 = e3
        /\ Len(t) + Len(r) + Len(u) + Len(p) + 3 = Len(s)
    BY <1>7, <1>8, <1>9, <1>10, <1>11
  <2>2. \A i \in Len(t) + 2 .. Len(t) + Len(r) + 1 : s[i] = r[i - Len(t) - 1]
    BY <1>7, <1>8, <1>9, <2>1
  <2>3. \A i \in Len(t) + Len(r) + 3 .. Len(t) + Len(r) + Len(u) + 2 :
            s[i] = u[i - Len(t) - Len(r) - 2]
    BY <1>7, <1>8, <1>9, <1>10, <2>1
  <2>4. \A i \in Len(t) + Len(r) + Len(u) + 4 .. Len(s) :
            s[i] = p[i - Len(t) - Len(r) - Len(u) - 3]
    BY <1>7, <1>8, <1>9, <1>10, <1>11, <2>1
  <2>5. s[Len(t) + 1] = Pipe /\ s[Len(t) + Len(r) + 2] = Pipe
        /\ s[Len(t) + Len(r) + Len(u) + 3] = Pipe
    BY <1>4, <1>5, <1>6, <2>1
  <2> QED
    BY <1>1, <1>8, <2>1, <2>2, <2>3, <2>4, <2>5 DEF Laid
<1> DEFINE m == FieldsOf(s)
<1>14. TypeOf(t) \in Type /\ TypeName[TypeOf(t)] = t
  BY <1>3, <1>12, TypeReads
<1>15. /\ m \in Message /\ TypeName[m.type] = t
       /\ m.room = r /\ m.username = u /\ m.payload = p
  BY <1>9, <1>10, <1>11, <1>12, <1>14 DEF Message
<1>16. FieldsOk(m)
  BY <1>3
<1> HIDE DEF m
<1>17. Fields(m) = s
  <2>1. s = t \o <<Pipe>> \o r \o <<Pipe>> \o u \o <<Pipe>> \o p
    BY <1>8, <1>9, <1>10, <1>11, <1>13, LaidUnique
  <2> QED
    BY <1>15, <2>1 DEF Fields
<1>18. Len(s) + 1 <= MaxPacketBytes
  <2>1. Len(r) <= MaxRoomNameBytes /\ Len(u) <= MaxUsernameBytes /\ Len(p) <= MaxChatMessageBytes
    BY <1>15, <1>16, ProperFields
  <2>2. Len(s) = Len(t) + Len(r) + Len(u) + Len(p) + 3
    BY <1>13 DEF Laid
  <2>3. Len(t) \in Nat /\ Len(r) \in Nat /\ Len(u) \in Nat /\ Len(p) \in Nat
    BY <1>8, <1>9, <1>10, <1>11
  <2>4. Len(t) <= 13
    <3>1. Len(TypeName[TypeOf(t)]) \in 1 .. 13
      BY <1>14, TypeNames, Zenon
    <3>2. Len(t) \in 1 .. 13
      BY <1>14, <3>1, Zenon
    <3>3. ASSUME NEW n \in 1 .. 13 PROVE n <= 13
      OBVIOUS
    <3> QED
      BY <3>2, <3>3, Zenon
  <2>5. /\ MaxRoomNameBytes \in Nat /\ MaxUsernameBytes \in Nat
        /\ MaxChatMessageBytes \in Nat /\ MaxPacketBytes \in Nat
        /\ MaxRoomNameBytes + MaxUsernameBytes + MaxChatMessageBytes + 17 <= MaxPacketBytes
    BY LimitAssumption
  <2> DEFINE a == Len(t)
             b == Len(r)
             c == Len(u)
             d == Len(p)
  <2>6. /\ Len(s) = a + b + c + d + 3 /\ a \in Nat /\ b \in Nat /\ c \in Nat /\ d \in Nat
        /\ a <= 13 /\ b <= MaxRoomNameBytes /\ c <= MaxUsernameBytes /\ d <= MaxChatMessageBytes
    BY <2>1, <2>2, <2>3, <2>4
  <2> HIDE DEF a, b, c, d
  <2> QED
    BY <2>5, <2>6
<1>19. Build(m) = s \o <<LF>>
  BY <1>16, <1>17, <1>18 DEF Build
<1>20. Parse(bytes) = m
  BY DEF Parse, m, s
<1> QED
  BY <1>15, <1>19, <1>20 DEF s

-----------------------------------------------------------------------------
(* The table of valid_utf8 is the arithmetic of Unicode *)

\* Numbers below the surrogates are scalar values.
LEMMA LowScalar ==
  ASSUME NEW c \in Nat, c < 55296
  PROVE  IsScalar(c)
  BY SMT DEF IsScalar

\* Which groups of one, two, three and four bytes encode a scalar value.
LEMMA OneByte ==
  ASSUME NEW a \in Byte
  PROVE  IsCharacter(<<a>>) <=> a \in 0..127
<1>1. Decode(<<a>>) = a
  BY SMT DEF Decode
<1>2. Encode(a) = <<a>> <=> a < 128
  BY SMT DEF Encode, Byte
<1>3. IsScalar(a) /\ a \in 0..255
  BY SMT, LowScalar DEF Byte
<1>4. IsCharacter(<<a>>) <=> a < 128
  BY SMT, <1>1, <1>2, <1>3 DEF IsCharacter
<1> QED
  BY SMT, <1>3, <1>4

LEMMA TwoBytes ==
  ASSUME NEW a \in Byte, NEW b \in Byte
  PROVE  IsCharacter(<<a, b>>) <=> a \in 194..223 /\ b \in Continuation
<1> DEFINE n == (a - 192) * 64 + b - 128
<1>1. Decode(<<a, b>>) = n
  BY SMT DEF Decode
<1>2. n \in Int
  BY SMT DEF Byte
<1>3. 128 <= n /\ n <= 2047 /\ a = 192 + (n \div 64) /\ b = Trail(n) <=>
         a \in 194..223 /\ b \in Continuation
  BY SMT DEF Byte, Continuation, Trail
<1> HIDE DEF n
<1>4. n < 128 \/ n > 2047 => Encode(n) # <<a, b>>
  BY SMT, <1>2 DEF Encode
<1>5. 128 <= n /\ n <= 2047 => (Encode(n) = <<a, b>> <=> a = 192 + (n \div 64) /\ b = Trail(n))
  BY SMT, <1>2 DEF Encode
<1>6. 128 <= n /\ n <= 2047 => IsScalar(n)
  BY SMT, <1>2 DEF IsScalar
<1> QED
  BY SMT, <1>1, <1>2, <1>3, <1>4, <1>5, <1>6 DEF IsCharacter

\* The bytes that a character of three, and one of four, is made of.
Three(a, b, c) ==
    /\ \/ a = 224 /\ b \in 160..191
       \/ a \in 225..236 \cup {238, 239} /\ b \in Continuation
       \/ a = 237 /\ b \in 128..159
    /\ c \in Continuation
Four(a, b, c, d) ==
    /\ \/ a = 240 /\ b \in 144..191
       \/ a \in 241..243 /\ b \in Continuation
       \/ a = 244 /\ b \in 128..143
    /\ c \in Continuation /\ d \in Continuation

LEMMA ThreeBytes ==
  ASSUME NEW a \in Byte, NEW b \in Byte, NEW c \in Byte
  PROVE  IsCharacter(<<a, b, c>>) <=> Three(a, b, c)
<1> DEFINE n == (a - 224) * 4096 + (b - 128) * 64 + c - 128
<1>1. Decode(<<a, b, c>>) = n
  BY SMT DEF Decode
<1>2. n \in Int
  BY SMT DEF Byte
<1>3. (/\ 2048 <= n /\ n <= 65535
       /\ a = 224 + (n \div 4096) /\ b = Trail(n \div 64) /\ c = Trail(n)
       /\ (n < 55296 \/ n > 57343)) <=> Three(a, b, c)
  BY SMT DEF Byte, Continuation, Trail, Three
<1> HIDE DEF n
<1>4. n < 2048 \/ n > 65535 => Encode(n) # <<a, b, c>>
  BY SMT, <1>2 DEF Encode
<1>5. 2048 <= n /\ n <= 65535 =>
        (Encode(n) = <<a, b, c>> <=> a = 224 + (n \div 4096) /\ b = Trail(n \div 64) /\ c = Trail(n))
  BY SMT, <1>2 DEF Encode
<1>6. 2048 <= n /\ n <= 65535 => (IsScalar(n) <=> (n < 55296 \/ n > 57343))
  BY SMT, <1>2 DEF IsScalar
<1> QED
  BY SMT, <1>1, <1>2, <1>3, <1>4, <1>5, <1>6 DEF IsCharacter

LEMMA FourBytes ==
  ASSUME NEW a \in Byte, NEW b \in Byte, NEW c \in Byte, NEW d \in Byte
  PROVE  IsCharacter(<<a, b, c, d>>) <=> Four(a, b, c, d)
<1> DEFINE n == (a - 240) * 262144 + (b - 128) * 4096 + (c - 128) * 64 + d - 128
<1>1. Decode(<<a, b, c, d>>) = n
  BY SMT DEF Decode
<1>2. n \in Int
  BY SMT DEF Byte
<1> DEFINE Shape == Four(a, b, c, d)
           Coded == /\ a = 240 + (n \div 262144) /\ b = Trail(n \div 4096)
                    /\ c = Trail(n \div 64) /\ d = Trail(n)
<1>3. 65536 <= n /\ n <= 1114111 /\ Coded <=> Shape
  <2>1. ASSUME 65536 <= n, n <= 1114111, Coded PROVE Shape
    <3>1. b \in 128..191 /\ c \in 128..191 /\ d \in 128..191 /\ a >= 240
      <4> HIDE DEF n
      <4> QED
        BY SMT, <1>2, <2>1 DEF Trail
    <3> QED
      BY SMT, <2>1, <3>1 DEF Byte, Continuation, Four
  <2>2. ASSUME Shape PROVE 65536 <= n /\ n <= 1114111 /\ Coded
    <3>1. /\ a \in 240..244 /\ b \in 128..191 /\ c \in 128..191 /\ d \in 128..191
          /\ 65536 <= n /\ n <= 1114111
      BY SMT, <2>2 DEF Byte, Continuation, Four
    <3>2. n \div 64 = (a - 240) * 4096 + (b - 128) * 64 + c - 128 /\ n % 64 = d - 128
      BY SMT, <3>1
    <3>3. n \div 4096 = (a - 240) * 64 + b - 128
      BY SMT, <3>1
    <3>4. n \div 262144 = a - 240
      BY SMT, <3>1
    <3>5. (n \div 64) % 64 = c - 128
      BY SMT, <3>1, <3>2
    <3>6. (n \div 4096) % 64 = b - 128
      BY SMT, <3>1, <3>3
    <3>7. Trail(n) = d /\ Trail(n \div 64) = c /\ Trail(n \div 4096) = b
      BY SMT, <3>1, <3>2, <3>5, <3>6 DEF Trail
    <3> QED
      BY SMT, <3>1, <3>4, <3>7
  <2> HIDE DEF n, Shape, Coded
  <2> QED
    BY SMT, <2>1, <2>2
<1> HIDE DEF n
<1>4. n < 65536 => Encode(n) # <<a, b, c, d>>
  BY SMT, <1>2 DEF Encode
<1>5. n >= 65536 => (Encode(n) = <<a, b, c, d>> <=> Coded)
  BY SMT, <1>2 DEF Encode
<1>6. n >= 65536 => (IsScalar(n) <=> n <= 1114111)
  BY SMT, <1>2 DEF IsScalar
<1> QED
  BY SMT, <1>1, <1>2, <1>3, <1>4, <1>5, <1>6 DEF IsCharacter

-----------------------------------------------------------------------------
\* The bytes that a group of up to four is made of.
LEMMA Group ==
  ASSUME NEW s \in Seq(Byte), NEW i \in 1 .. Len(s)
  PROVE  /\ SubSeq(s, i, i) = <<s[i]>>
         /\ i + 1 <= Len(s) => SubSeq(s, i, i + 1) = <<s[i], s[i + 1]>>
         /\ i + 2 <= Len(s) => SubSeq(s, i, i + 2) = <<s[i], s[i + 1], s[i + 2]>>
         /\ i + 3 <= Len(s) => SubSeq(s, i, i + 3) = <<s[i], s[i + 1], s[i + 2], s[i + 3]>>
<1>0. Len(s) \in Nat /\ \A k \in 1 .. Len(s) : s[k] \in Byte
  OBVIOUS
<1>1. SubSeq(s, i, i) = <<s[i]>>
  <2> DEFINE x == <<s[i]>>
  <2>1. s[i] \in Byte /\ i \in 1 .. Len(s)
    BY <1>0
  <2>2. x \in Seq(Byte) /\ Len(x) = 1 /\ x[1] = s[i]
    BY <2>1
  <2> HIDE DEF x
  <2>3. \A n \in i .. i : s[n] = x[n - i + 1]
    <3> TAKE n \in i .. i
    <3>1. n = i /\ n - i + 1 = 1
      BY <1>0
    <3> QED
      BY <3>1, <2>2
  <2>4. SubSeq(s, i, i) = x
    BY <1>0, <2>1, <2>2, <2>3, CutOut
  <2> QED
    BY <2>4 DEF x
<1>2. ASSUME i + 1 <= Len(s)
      PROVE  SubSeq(s, i, i + 1) = <<s[i], s[i + 1]>>
  <2> DEFINE x == <<s[i], s[i + 1]>>
  <2>1. s[i] \in Byte /\ s[i + 1] \in Byte /\ i + 1 \in 1 .. Len(s)
    BY <1>0, <1>2
  <2>2. x \in Seq(Byte) /\ Len(x) = 2 /\ x[1] = s[i] /\ x[2] = s[i + 1]
    BY <2>1
  <2> HIDE DEF x
  <2>3. \A n \in i .. i + 1 : s[n] = x[n - i + 1]
    <3> TAKE n \in i .. i + 1
    <3>1. \/ n = i /\ n - i + 1 = 1
          \/ n = i + 1 /\ n - i + 1 = 2
      BY <1>0
    <3> QED
      BY <3>1, <2>2
  <2>4. SubSeq(s, i, i + 1) = x
    BY <1>0, <2>1, <2>2, <2>3, CutOut
  <2> QED
    BY <2>4 DEF x
<1>3. ASSUME i + 2 <= Len(s)
      PROVE  SubSeq(s, i, i + 2) = <<s[i], s[i + 1], s[i + 2]>>
  <2> DEFINE x == <<s[i], s[i + 1], s[i + 2]>>
  <2>1. s[i] \in Byte /\ s[i + 1] \in Byte /\ s[i + 2] \in Byte /\ i + 2 \in 1 .. Len(s)
    BY <1>0, <1>3
  <2>2. x \in Seq(Byte) /\ Len(x) = 3 /\ x[1] = s[i] /\ x[2] = s[i + 1] /\ x[3] = s[i + 2]
    BY <2>1
  <2> HIDE DEF x
  <2>3. \A n \in i .. i + 2 : s[n] = x[n - i + 1]
    <3> TAKE n \in i .. i + 2
    <3>1. \/ n = i /\ n - i + 1 = 1
          \/ n = i + 1 /\ n - i + 1 = 2
          \/ n = i + 2 /\ n - i + 1 = 3
      BY <1>0
    <3> QED
      BY <3>1, <2>2
  <2>4. SubSeq(s, i, i + 2) = x
    BY <1>0, <2>1, <2>2, <2>3, CutOut
  <2> QED
    BY <2>4 DEF x
<1>4. ASSUME i + 3 <= Len(s)
      PROVE  SubSeq(s, i, i + 3) = <<s[i], s[i + 1], s[i + 2], s[i + 3]>>
  <2> DEFINE x == <<s[i], s[i + 1], s[i + 2], s[i + 3]>>
  <2>1. s[i] \in Byte /\ s[i + 1] \in Byte /\ s[i + 2] \in Byte /\ s[i + 3] \in Byte
        /\ i + 3 \in 1 .. Len(s)
    BY <1>0, <1>4
  <2>2. x \in Seq(Byte) /\ Len(x) = 4
        /\ x[1] = s[i] /\ x[2] = s[i + 1] /\ x[3] = s[i + 2] /\ x[4] = s[i + 3]
    BY <2>1
  <2> HIDE DEF x
  <2>3. \A n \in i .. i + 3 : s[n] = x[n - i + 1]
    <3> TAKE n \in i .. i + 3
    <3>1. \/ n = i /\ n - i + 1 = 1
          \/ n = i + 1 /\ n - i + 1 = 2
          \/ n = i + 2 /\ n - i + 1 = 3
          \/ n = i + 3 /\ n - i + 1 = 4
      BY <1>0
    <3> QED
      BY <3>1, <2>2
  <2>4. SubSeq(s, i, i + 3) = x
    BY <1>0, <2>1, <2>2, <2>3, CutOut
  <2> QED
    BY <2>4 DEF x
<1> QED
  BY <1>1, <1>2, <1>3, <1>4

\* What it takes to fit a shape, by its size.
LEMMA FitsOne ==
  ASSUME NEW s \in Seq(Byte), NEW i \in 1 .. Len(s), NEW l, NEW b
  PROVE  FitsAt(s, i, [lead |-> l, second |-> b, size |-> 1]) <=>
             s[i] \in l
<1>1. Len(s) \in Nat
  OBVIOUS
<1> QED
  BY <1>1, SMT DEF FitsAt

LEMMA FitsTwo ==
  ASSUME NEW s \in Seq(Byte), NEW i \in 1 .. Len(s), NEW l, NEW b, i + 1 <= Len(s)
  PROVE  FitsAt(s, i, [lead |-> l, second |-> b, size |-> 2]) <=>
             s[i] \in l /\ s[i + 1] \in b
<1>1. Len(s) \in Nat
  OBVIOUS
<1> QED
  BY <1>1, SMT DEF FitsAt

LEMMA FitsThree ==
  ASSUME NEW s \in Seq(Byte), NEW i \in 1 .. Len(s), NEW l, NEW b, i + 2 <= Len(s)
  PROVE  FitsAt(s, i, [lead |-> l, second |-> b, size |-> 3]) <=>
             /\ s[i] \in l /\ s[i + 1] \in b
             /\ s[i + 2] \in Continuation
<1>1. Len(s) \in Nat
  OBVIOUS
<1>2. i + 2 .. i + 3 - 1 = {i + 2}
  BY <1>1
<1> QED
  BY <1>1, <1>2, SMT DEF FitsAt

LEMMA FitsFour ==
  ASSUME NEW s \in Seq(Byte), NEW i \in 1 .. Len(s), NEW l, NEW b, i + 3 <= Len(s)
  PROVE  FitsAt(s, i, [lead |-> l, second |-> b, size |-> 4]) <=>
             /\ s[i] \in l /\ s[i + 1] \in b
             /\ s[i + 2] \in Continuation /\ s[i + 3] \in Continuation
<1>1. Len(s) \in Nat
  OBVIOUS
<1>2. i + 2 .. i + 4 - 1 = {i + 2, i + 3}
  BY <1>1
<1> QED
  BY <1>1, <1>2, SMT DEF FitsAt

\* The shapes of each size.
LEMMA ShapesBySize ==
  /\ {c \in Shapes : c.size = 1} = {[lead |-> 0..127, second |-> {}, size |-> 1]}
  /\ {c \in Shapes : c.size = 2} = {[lead |-> 194..223, second |-> Continuation, size |-> 2]}
  /\ {c \in Shapes : c.size = 3} =
       { [lead |-> {224},       second |-> 160..191,     size |-> 3],
         [lead |-> 225..236,    second |-> Continuation, size |-> 3],
         [lead |-> {237},       second |-> 128..159,     size |-> 3],
         [lead |-> {238, 239},  second |-> Continuation, size |-> 3] }
  /\ {c \in Shapes : c.size = 4} =
       { [lead |-> {240},       second |-> 144..191,     size |-> 4],
         [lead |-> 241..243,    second |-> Continuation, size |-> 4],
         [lead |-> {244},       second |-> 128..143,     size |-> 4] }
  BY SMT DEF Shapes

\* What the shapes of each size accept.
LEMMA FitsBySize ==
  ASSUME NEW s \in Seq(Byte), NEW i \in 1 .. Len(s), NEW n
  PROVE  LET Fits == \E c \in Shapes : c.size = n /\ FitsAt(s, i, c) IN
    /\ n = 1 =>
         (Fits <=>
             s[i] \in 0..127)
    /\ n = 2 /\ i + 1 <= Len(s) =>
         (Fits <=>
             s[i] \in 194..223 /\ s[i + 1] \in Continuation)
    /\ n = 3 /\ i + 2 <= Len(s) =>
         (Fits <=>
             Three(s[i], s[i + 1], s[i + 2]))
    /\ n = 4 /\ i + 3 <= Len(s) =>
         (Fits <=>
             Four(s[i], s[i + 1], s[i + 2], s[i + 3]))
<1> DEFINE Fits == \E c \in Shapes : c.size = n /\ FitsAt(s, i, c)
           Of(k) == {c \in Shapes : c.size = k}
<1>1. ASSUME n = 1
      PROVE  Fits <=>
           s[i] \in 0..127
  <2> DEFINE r1 == [lead |-> 0..127, second |-> {}, size |-> 1]
  <2>1. Fits <=> \E c \in Of(1) : FitsAt(s, i, c)
    BY <1>1, Zenon
  <2>2. Of(1) = {r1}
    BY ShapesBySize, Zenon
  <2>3. FitsAt(s, i, r1) <=> s[i] \in 0..127
    BY <1>1, FitsOne
  <2> HIDE DEF Fits, Of, r1
  <2>4. Fits <=> FitsAt(s, i, r1)
    BY <2>1, <2>2, Zenon
  <2> QED
    BY <2>3, <2>4
<1>2. ASSUME n = 2 /\ i + 1 <= Len(s)
      PROVE  Fits <=>
           s[i] \in 194..223 /\ s[i + 1] \in Continuation
  <2> DEFINE r1 == [lead |-> 194..223, second |-> Continuation, size |-> 2]
  <2>1. Fits <=> \E c \in Of(2) : FitsAt(s, i, c)
    BY <1>2, Zenon
  <2>2. Of(2) = {r1}
    BY ShapesBySize, Zenon
  <2>3. FitsAt(s, i, r1) <=> /\ s[i] \in 194..223 /\ s[i + 1] \in Continuation
    BY <1>2, FitsTwo
  <2> HIDE DEF Fits, Of, r1
  <2>4. Fits <=> FitsAt(s, i, r1)
    BY <2>1, <2>2, Zenon
  <2> QED
    BY <2>3, <2>4
<1>3. ASSUME n = 3 /\ i + 2 <= Len(s)
      PROVE  Fits <=>
           Three(s[i], s[i + 1], s[i + 2])
  <2> DEFINE r1 == [lead |-> {224}, second |-> 160..191, size |-> 3]
             r2 == [lead |-> 225..236, second |-> Continuation, size |-> 3]
             r3 == [lead |-> {237}, second |-> 128..159, size |-> 3]
             r4 == [lead |-> {238, 239}, second |-> Continuation, size |-> 3]
  <2>1. Fits <=> \E c \in Of(3) : FitsAt(s, i, c)
    BY <1>3, Zenon
  <2>2. Of(3) = {r1, r2, r3, r4}
    BY ShapesBySize, Zenon
  <2>3. /\ FitsAt(s, i, r1) <=>
                /\ s[i] \in {224} /\ s[i + 1] \in 160..191
                /\ s[i + 2] \in Continuation
        /\ FitsAt(s, i, r2) <=>
                /\ s[i] \in 225..236 /\ s[i + 1] \in Continuation
                /\ s[i + 2] \in Continuation
        /\ FitsAt(s, i, r3) <=>
                /\ s[i] \in {237} /\ s[i + 1] \in 128..159
                /\ s[i + 2] \in Continuation
        /\ FitsAt(s, i, r4) <=>
                /\ s[i] \in {238, 239} /\ s[i + 1] \in Continuation
                /\ s[i + 2] \in Continuation
    <3>1. FitsAt(s, i, r1) <=>
                /\ s[i] \in {224} /\ s[i + 1] \in 160..191
                /\ s[i + 2] \in Continuation
      BY <1>3, FitsThree
    <3>2. FitsAt(s, i, r2) <=>
                /\ s[i] \in 225..236 /\ s[i + 1] \in Continuation
                /\ s[i + 2] \in Continuation
      BY <1>3, FitsThree
    <3>3. FitsAt(s, i, r3) <=>
                /\ s[i] \in {237} /\ s[i + 1] \in 128..159
                /\ s[i + 2] \in Continuation
      BY <1>3, FitsThree
    <3>4. FitsAt(s, i, r4) <=>
                /\ s[i] \in {238, 239} /\ s[i + 1] \in Continuation
                /\ s[i + 2] \in Continuation
      BY <1>3, FitsThree
    <3> HIDE DEF r1, r2, r3, r4
    <3> QED
      BY <3>1, <3>2, <3>3, <3>4
  <2> HIDE DEF Fits, Of, r1, r2, r3, r4
  <2>4. Fits <=> FitsAt(s, i, r1) \/ FitsAt(s, i, r2) \/ FitsAt(s, i, r3) \/ FitsAt(s, i, r4)
    BY <2>1, <2>2, Zenon
  <2> QED
    BY <2>3, <2>4 DEF Three
<1>4. ASSUME n = 4 /\ i + 3 <= Len(s)
      PROVE  Fits <=>
           Four(s[i], s[i + 1], s[i + 2], s[i + 3])
  <2> DEFINE r1 == [lead |-> {240}, second |-> 144..191, size |-> 4]
             r2 == [lead |-> 241..243, second |-> Continuation, size |-> 4]
             r3 == [lead |-> {244}, second |-> 128..143, size |-> 4]
  <2>1. Fits <=> \E c \in Of(4) : FitsAt(s, i, c)
    BY <1>4, Zenon
  <2>2. Of(4) = {r1, r2, r3}
    BY ShapesBySize, Zenon
  <2>3. /\ FitsAt(s, i, r1) <=>
                /\ s[i] \in {240} /\ s[i + 1] \in 144..191
                /\ s[i + 2] \in Continuation /\ s[i + 3] \in Continuation
        /\ FitsAt(s, i, r2) <=>
                /\ s[i] \in 241..243 /\ s[i + 1] \in Continuation
                /\ s[i + 2] \in Continuation /\ s[i + 3] \in Continuation
        /\ FitsAt(s, i, r3) <=>
                /\ s[i] \in {244} /\ s[i + 1] \in 128..143
                /\ s[i + 2] \in Continuation /\ s[i + 3] \in Continuation
    <3>1. FitsAt(s, i, r1) <=>
                /\ s[i] \in {240} /\ s[i + 1] \in 144..191
                /\ s[i + 2] \in Continuation /\ s[i + 3] \in Continuation
      BY <1>4, FitsFour
    <3>2. FitsAt(s, i, r2) <=>
                /\ s[i] \in 241..243 /\ s[i + 1] \in Continuation
                /\ s[i + 2] \in Continuation /\ s[i + 3] \in Continuation
      BY <1>4, FitsFour
    <3>3. FitsAt(s, i, r3) <=>
                /\ s[i] \in {244} /\ s[i + 1] \in 128..143
                /\ s[i + 2] \in Continuation /\ s[i + 3] \in Continuation
      BY <1>4, FitsFour
    <3> HIDE DEF r1, r2, r3
    <3> QED
      BY <3>1, <3>2, <3>3
  <2> HIDE DEF Fits, Of, r1, r2, r3
  <2>4. Fits <=> FitsAt(s, i, r1) \/ FitsAt(s, i, r2) \/ FitsAt(s, i, r3)
    BY <2>1, <2>2, Zenon
  <2> QED
    BY <2>3, <2>4 DEF Four
<1> QED
  BY <1>1, <1>2, <1>3, <1>4, Zenon

\* The shape of a group of bytes, and whether it is a character.
LEMMA CharacterFits ==
  ASSUME NEW s \in Seq(Byte), NEW i \in 1 .. Len(s), NEW j \in i .. Len(s), j < i + 4
  PROVE  IsCharacter(SubSeq(s, i, j)) <=> \E c \in Shapes : c.size = j + 1 - i /\ FitsAt(s, i, c)
<1> DEFINE n == j + 1 - i
           Fits == \E c \in Shapes : c.size = n /\ FitsAt(s, i, c)
<1>0. Len(s) \in Nat /\ \A k \in 1 .. Len(s) : s[k] \in Byte
  OBVIOUS
<1>1. CASE j = i
  <2>1. n = 1 /\ i <= Len(s) /\ SubSeq(s, i, j) = <<s[i]>>
    BY <1>0, <1>1, Group
  <2>2. s[i] \in Byte
    BY <1>0, <1>1
  <2> HIDE DEF n
  <2>3. IsCharacter(<<s[i]>>) <=>
           s[i] \in 0..127
    BY <2>2, OneByte
  <2>4. Fits <=>
           s[i] \in 0..127
    BY <2>1, FitsBySize
  <2>5. Fits <=> IsCharacter(SubSeq(s, i, j))
    <3> HIDE DEF Fits
    <3> QED
      BY <2>1, <2>3, <2>4, Zenon
  <2> QED
    BY <2>5 DEF n
<1>2. CASE j = i + 1
  <2>1. n = 2 /\ i + 1 <= Len(s) /\ SubSeq(s, i, j) = <<s[i], s[i + 1]>>
    BY <1>0, <1>2, Group
  <2>2. s[i] \in Byte /\ s[i + 1] \in Byte
    BY <1>0, <1>2
  <2> HIDE DEF n
  <2>3. IsCharacter(<<s[i], s[i + 1]>>) <=>
           s[i] \in 194..223 /\ s[i + 1] \in Continuation
    BY <2>2, TwoBytes
  <2>4. Fits <=>
           s[i] \in 194..223 /\ s[i + 1] \in Continuation
    BY <2>1, FitsBySize
  <2>5. Fits <=> IsCharacter(SubSeq(s, i, j))
    <3> HIDE DEF Fits
    <3> QED
      BY <2>1, <2>3, <2>4, Zenon
  <2> QED
    BY <2>5 DEF n
<1>3. CASE j = i + 2
  <2>1. n = 3 /\ i + 2 <= Len(s) /\ SubSeq(s, i, j) = <<s[i], s[i + 1], s[i + 2]>>
    BY <1>0, <1>3, Group
  <2>2. s[i] \in Byte /\ s[i + 1] \in Byte /\ s[i + 2] \in Byte
    BY <1>0, <1>3
  <2> HIDE DEF n
  <2>3. IsCharacter(<<s[i], s[i + 1], s[i + 2]>>) <=>
           Three(s[i], s[i + 1], s[i + 2])
    BY <2>2, ThreeBytes
  <2>4. Fits <=>
           Three(s[i], s[i + 1], s[i + 2])
    BY <2>1, FitsBySize
  <2>5. Fits <=> IsCharacter(SubSeq(s, i, j))
    <3> HIDE DEF Fits
    <3> QED
      BY <2>1, <2>3, <2>4, Zenon
  <2> QED
    BY <2>5 DEF n
<1>4. CASE j = i + 3
  <2>1. n = 4 /\ i + 3 <= Len(s) /\ SubSeq(s, i, j) = <<s[i], s[i + 1], s[i + 2], s[i + 3]>>
    BY <1>0, <1>4, Group
  <2>2. s[i] \in Byte /\ s[i + 1] \in Byte /\ s[i + 2] \in Byte /\ s[i + 3] \in Byte
    BY <1>0, <1>4
  <2> HIDE DEF n
  <2>3. IsCharacter(<<s[i], s[i + 1], s[i + 2], s[i + 3]>>) <=>
           Four(s[i], s[i + 1], s[i + 2], s[i + 3])
    BY <2>2, FourBytes
  <2>4. Fits <=>
           Four(s[i], s[i + 1], s[i + 2], s[i + 3])
    BY <2>1, FitsBySize
  <2>5. Fits <=> IsCharacter(SubSeq(s, i, j))
    <3> HIDE DEF Fits
    <3> QED
      BY <2>1, <2>3, <2>4, Zenon
  <2> QED
    BY <2>5 DEF n
<1> QED
  BY <1>0, <1>1, <1>2, <1>3, <1>4

\* Every shape has one to four bytes, and fits only within the text.
LEMMA ShapeSize ==
  ASSUME NEW s \in Seq(Byte), NEW i \in 1 .. Len(s), NEW c \in Shapes, FitsAt(s, i, c)
  PROVE  c.size \in 1..4 /\ i + c.size - 1 \in i .. Len(s)
<1>1. c.size \in 1..4
  BY DEF Shapes
<1> QED
  BY <1>1 DEF FitsAt

\* valid_utf8 accepts the encodings of sequences of Unicode scalar values, and no other
\* bytes: its table and the arithmetic go through a text in the same steps.
THEOREM Utf8IsUnicode ==
  ASSUME NEW s \in Seq(Byte)
  PROVE  ValidUtf8(s) <=> WellFormed(s)
<1> DEFINE Scan(f) == [i \in 1 .. Len(s) + 1 |->
                          \/ i = Len(s) + 1
                          \/ \E c \in Shapes : FitsAt(s, i, c) /\ f[i + c.size]]
           Read(f) == [i \in 1 .. Len(s) + 1 |->
                          \/ i = Len(s) + 1
                          \/ \E j \in i .. Len(s) :
                                j < i + 4 /\ IsCharacter(SubSeq(s, i, j)) /\ f[j + 1]]
<1>1. ASSUME NEW f, NEW i \in 1 .. Len(s)
      PROVE  (\E c \in Shapes : FitsAt(s, i, c) /\ f[i + c.size]) <=>
             (\E j \in i .. Len(s) : j < i + 4 /\ IsCharacter(SubSeq(s, i, j)) /\ f[j + 1])
  <2>1. ASSUME NEW c \in Shapes, FitsAt(s, i, c), f[i + c.size]
        PROVE  \E j \in i .. Len(s) : j < i + 4 /\ IsCharacter(SubSeq(s, i, j)) /\ f[j + 1]
    <3> DEFINE j == i + c.size - 1
    <3>1. j \in i .. Len(s) /\ j < i + 4 /\ c.size = j + 1 - i /\ j + 1 = i + c.size
      BY <2>1, ShapeSize
    <3> HIDE DEF j
    <3>2. IsCharacter(SubSeq(s, i, j))
      BY <2>1, <3>1, CharacterFits
    <3> QED
      BY <2>1, <3>1, <3>2
  <2>2. ASSUME NEW j \in i .. Len(s), j < i + 4, IsCharacter(SubSeq(s, i, j)), f[j + 1]
        PROVE  \E c \in Shapes : FitsAt(s, i, c) /\ f[i + c.size]
    <3>1. PICK c \in Shapes : c.size = j + 1 - i /\ FitsAt(s, i, c)
      BY <2>2, CharacterFits
    <3>2. i + c.size = j + 1
      BY <3>1
    <3> QED
      BY <2>2, <3>1, <3>2
  <2> QED
    BY <2>1, <2>2
<1>2. ASSUME NEW f PROVE Scan(f) = Read(f)
  <2>1. ASSUME NEW i \in 1 .. Len(s) + 1, i # Len(s) + 1 PROVE i \in 1 .. Len(s)
    BY <2>1
  <2> QED
    BY <1>1, <2>1
<1>3. ValidUtf8(s) = (CHOOSE f : f = Scan(f))[1]
  BY Zenon DEF ValidUtf8
<1>4. WellFormed(s) = (CHOOSE f : f = Read(f))[1]
  BY Zenon DEF WellFormed
<1> HIDE DEF Scan, Read
<1>5. (CHOOSE f : f = Scan(f)) = (CHOOSE f : f = Read(f))
  BY <1>2, Zenon
<1> QED
  BY <1>3, <1>4, <1>5

\* The checks of a field, by what they are to mean.
LEMMA TextIsProper ==
  ASSUME NEW s \in Seq(Byte), NEW most
  PROVE  Len(s) <= most /\ IsText(s) <=> IsProper(s, most)
  BY Utf8IsUnicode, Zenon DEF IsText, ContainsPipeOrNewline, IsProper

LEMMA FieldsAreProper ==
  ASSUME NEW m \in Message
  PROVE  FieldsOk(m) <=>
           /\ m.room # <<>> /\ IsProper(m.room, MaxRoomNameBytes)
           /\ m.username # <<>> /\ IsProper(m.username, MaxUsernameBytes)
           /\ IsProper(m.payload, MaxChatMessageBytes)
<1>1. m.room \in Seq(Byte) /\ m.username \in Seq(Byte) /\ m.payload \in Seq(Byte)
  BY DEF Message
<1> QED
  BY <1>1, TextIsProper, Zenon DEF FieldsOk, IsRoomOk, IsUsernameOk, IsPayloadOk

\* A message that passes the checks fits in a packet, so that build_secp_line fails
\* for no other reason.
LEMMA BuiltIfProper ==
  ASSUME NEW m \in Message
  PROVE  Build(m) # <<>> <=> FieldsOk(m)
<1>1. /\ m.type \in Type /\ m.room \in Seq(Byte) /\ m.username \in Seq(Byte)
      /\ m.payload \in Seq(Byte)
  BY DEF Message
<1>2. ASSUME FieldsOk(m) PROVE Len(Fields(m)) + 1 <= MaxPacketBytes
  <2>1. Len(Fields(m)) = Len(TypeName[m.type]) + Len(m.room) + Len(m.username)
                          + Len(m.payload) + 3
    BY FieldsOfMessage DEF Laid
  <2>2. /\ Len(m.room) <= MaxRoomNameBytes /\ Len(m.username) <= MaxUsernameBytes
        /\ Len(m.payload) <= MaxChatMessageBytes
    BY <1>2, ProperFields
  <2>3. Len(TypeName[m.type]) \in 1..13
    BY <1>1, TypeNames
  <2>4. Len(m.room) \in Nat /\ Len(m.username) \in Nat /\ Len(m.payload) \in Nat
    BY <1>1
  <2>5. /\ MaxRoomNameBytes \in Nat /\ MaxUsernameBytes \in Nat
        /\ MaxChatMessageBytes \in Nat /\ MaxPacketBytes \in Nat
        /\ MaxRoomNameBytes + MaxUsernameBytes + MaxChatMessageBytes + 17 <= MaxPacketBytes
    BY LimitAssumption
  <2> DEFINE t == Len(TypeName[m.type])
  <2>6. t \in 1..13 /\ Len(Fields(m)) = t + Len(m.room) + Len(m.username) + Len(m.payload) + 3
    BY <2>1, <2>3
  <2> HIDE DEF t
  <2>7. /\ t <= 13 /\ t \in Nat
    BY <2>6
  <2> DEFINE r == Len(m.room)
             u == Len(m.username)
             p == Len(m.payload)
  <2>8. /\ r \in Nat /\ u \in Nat /\ p \in Nat /\ Len(Fields(m)) = t + r + u + p + 3
        /\ r <= MaxRoomNameBytes /\ u <= MaxUsernameBytes /\ p <= MaxChatMessageBytes
    BY <2>2, <2>4, <2>6
  <2> HIDE DEF r, u, p
  <2> QED
    BY <2>5, <2>7, <2>8
<1>3. Fields(m) \o <<LF>> # <<>>
  <2>1. Fields(m) \in Seq(Byte) /\ <<LF>> \in Seq(Byte) /\ Len(<<LF>>) = 1
    BY FieldsOfMessage DEF LF, Byte
  <2>2. Len(Fields(m) \o <<LF>>) = Len(Fields(m)) + 1 /\ Len(Fields(m)) \in Nat
    BY <2>1
  <2> QED
    BY <2>2
<1> QED
  BY <1>2, <1>3 DEF Build

-----------------------------------------------------------------------------
(* The life of a line *)

\* What is received is bytes, and at most a buffer of them.
LEMMA ReceivedType ==
  ASSUME NEW d \in Seq(Byte)
  PROVE  Received(d) \in Seq(Byte)
<1>1. CASE Len(d) <= MaxPacketBytes
  BY <1>1 DEF Received
<1>2. CASE ~(Len(d) <= MaxPacketBytes)
  <2>1. MaxPacketBytes \in Nat /\ Len(d) \in Nat
    BY LimitAssumption
  <2>2. \A i \in 1..MaxPacketBytes : d[i] \in Byte
    BY <1>2, <2>1
  <2>3. SubSeq(d, 1, MaxPacketBytes) \in Seq(Byte)
    BY <2>1, <2>2
  <2> QED
    BY <1>2, <2>3 DEF Received
<1> QED
  BY <1>1, <1>2

\* A line that was built is received whole.
LEMMA BuiltIsReceived ==
  ASSUME NEW m \in Message, Build(m) # <<>>
  PROVE  Received(Build(m)) = Build(m)
<1>1. Build(m) = Fields(m) \o <<LF>> /\ Len(Fields(m)) + 1 <= MaxPacketBytes
  BY DEF Build
<1>2. Fields(m) \in Seq(Byte) /\ <<LF>> \in Seq(Byte) /\ Len(<<LF>>) = 1
  BY FieldsOfMessage DEF LF, Byte
<1>3. Len(Build(m)) <= MaxPacketBytes
  BY <1>1, <1>2
<1> QED
  BY <1>3 DEF Received

\* Every variable keeps its type.
THEOREM TypeCorrect == Spec => []TypeOK
<1>1. Init => TypeOK
  BY DEF Init, TypeOK
<1>2. TypeOK /\ [Next]_vars => TypeOK'
  <2> SUFFICES ASSUME TypeOK, [Next]_vars PROVE TypeOK'
    OBVIOUS
  <2>1. CASE Say
    <3>1. PICK m \in Messages : said' = m /\ line' = Build(m)
      BY <2>1 DEF Say
    <3>2. m \in Message /\ Build(m) \in Seq(Byte)
      BY SampleAssumption, BuildType
    <3>3. at' \in {"refused", "wire"} /\ heard' = heard
      BY <2>1 DEF Say
    <3> QED
      BY <3>1, <3>2, <3>3 DEF TypeOK
  <2>2. CASE SayAnything
    BY <2>2, SampleAssumption DEF SayAnything, TypeOK
  <2>3. CASE Hear
    <3> DEFINE d == Received(line)
    <3>1. d \in Seq(Byte)
      BY ReceivedType DEF TypeOK
    <3>2. Parse(d) \in Message \cup {NoMessage}
      <4> HIDE DEF d
      <4>1. CASE Accepts(d)
        BY <3>1, <4>1, BuildsWhatIsRead
      <4>2. CASE ~Accepts(d)
        BY <4>2 DEF Parse
      <4> QED
        BY <4>1, <4>2
    <3>3. at' = "heard" /\ heard' = Parse(d) /\ said' = said /\ line' = line
      BY <2>3 DEF Hear
    <3> QED
      BY <3>2, <3>3 DEF TypeOK
  <2>4. CASE UNCHANGED vars
    BY <2>4 DEF vars, TypeOK
  <2> QED
    BY <2>1, <2>2, <2>3, <2>4 DEF Next
<1> QED
  BY <1>1, <1>2, PTL DEF Spec

\* The strengthening: what is on its way, and what was heard, comes of what was said.
WireInv ==
    /\ at # "heard" => heard = NoMessage
    /\ at = "nowhere" => said = NoMessage
    /\ at = "refused" => Build(said) = <<>>
    /\ at \in {"wire", "heard"} /\ said # NoMessage => line = Build(said) /\ line # <<>>
    /\ at = "heard" => heard = Parse(Received(line))

LEMMA WireInvariant == Spec => [](TypeOK /\ WireInv)
<1>1. Init => WireInv
  BY DEF Init, WireInv
<1>2. TypeOK /\ WireInv /\ [Next]_vars => WireInv'
  <2> SUFFICES ASSUME TypeOK, WireInv, [Next]_vars PROVE WireInv'
    OBVIOUS
  <2>1. CASE Say
    <3>1. PICK m \in Messages : said' = m /\ line' = Build(m)
      BY <2>1 DEF Say
    <3>2. /\ at' = IF line' = <<>> THEN "refused" ELSE "wire"
          /\ heard' = heard /\ heard = NoMessage
      BY <2>1 DEF Say, WireInv
    <3> QED
      BY <3>1, <3>2 DEF WireInv
  <2>2. CASE SayAnything
    <3>1. at' = "wire" /\ said' = said /\ heard' = heard /\ at = "nowhere" /\ heard = NoMessage
      BY <2>2 DEF SayAnything, WireInv
    <3>2. said = NoMessage
      BY <3>1 DEF WireInv
    <3> QED
      BY <3>1, <3>2 DEF WireInv
  <2>3. CASE Hear
    BY <2>3 DEF Hear, WireInv
  <2>4. CASE UNCHANGED vars
    BY <2>4 DEF vars, WireInv
  <2> QED
    BY <2>1, <2>2, <2>3, <2>4 DEF Next
<1> QED
  BY <1>1, <1>2, TypeCorrect, PTL DEF Spec

\* RoundTrip, for every message the services may want to send.
THEOREM MessagesArriveAsSaid == Spec => []RoundTrip
<1>1. TypeOK /\ WireInv => RoundTrip
  <2> SUFFICES ASSUME TypeOK, WireInv, at = "heard", said # NoMessage PROVE heard = said
    BY DEF RoundTrip
  <2>1. said \in Message /\ line = Build(said) /\ line # <<>> /\ heard = Parse(Received(line))
    BY DEF TypeOK, WireInv
  <2>2. heard = Parse(Build(said))
    BY <2>1, BuiltIsReceived
  <2> QED
    BY <2>1, <2>2, ReadsWhatIsBuilt
<1> QED
  BY <1>1, WireInvariant, PTL

\* No line says two things: different messages are built into different lines.
THEOREM LinesAreUnambiguous ==
  ASSUME NEW m \in Message, NEW n \in Message, Build(m) # <<>>, Build(m) = Build(n)
  PROVE  m = n
<1>1. Parse(Build(m)) = m /\ Parse(Build(n)) = n
  BY ReadsWhatIsBuilt
<1> QED
  BY <1>1

\* ParsesOnlyBuilt, for every datagram that may arrive, also one that recvfrom cuts.
THEOREM NothingElseIsHeard == Spec => []ParsesOnlyBuilt
<1>1. TypeOK /\ WireInv => ParsesOnlyBuilt
  <2> SUFFICES ASSUME TypeOK, WireInv, heard # NoMessage
               PROVE  Build(heard) = Body(Received(line)) \o <<LF>>
    BY DEF ParsesOnlyBuilt
  <2>1. heard = Parse(Received(line)) /\ Received(line) \in Seq(Byte)
    BY ReceivedType DEF TypeOK, WireInv
  <2>2. Accepts(Received(line))
    BY <2>1 DEF Parse
  <2> QED
    BY <2>1, <2>2, BuildsWhatIsRead
<1> QED
  BY <1>1, WireInvariant, PTL

\* RefusesExactly, for every text whatever: the table of valid_utf8 accepts the
\* encodings of sequences of Unicode scalar values and no other bytes.
THEOREM RefusesJustTheImproper == Spec => []RefusesExactly
<1>1. TypeOK /\ WireInv => RefusesExactly
  <2> SUFFICES ASSUME TypeOK, WireInv, said # NoMessage
               PROVE  at # "refused" <=>
                        /\ said.room # <<>> /\ IsProper(said.room, MaxRoomNameBytes)
                        /\ said.username # <<>> /\ IsProper(said.username, MaxUsernameBytes)
                        /\ IsProper(said.payload, MaxChatMessageBytes)
    BY DEF RefusesExactly
  <2>1. said \in Message
    BY DEF TypeOK
  <2>2. at # "refused" <=> Build(said) # <<>>
    BY DEF TypeOK, WireInv
  <2> QED
    BY <2>1, <2>2, BuiltIfProper, FieldsAreProper, Zenon
<1> QED
  BY <1>1, WireInvariant, PTL
=============================================================================
