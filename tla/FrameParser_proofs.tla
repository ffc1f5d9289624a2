------------------------- MODULE FrameParser_proofs -------------------------
(***************************************************************************)
(* Theorems about FrameParser: for every stream of intact frames, every    *)
(* way to cut it into pieces and every size of byte, the frame callback    *)
(* gets the frames that were sent, each as soon as it is there.            *)
(***************************************************************************)
EXTENDS FrameParser, SequenceTheorems, WellFoundedInduction, TLAPS

(* Every set of naturals has a least element, and so induction over sets.  *)
LEMMA Least ==
  ASSUME NEW T \in SUBSET Nat, T # {}
  PROVE  \E x \in T : \A y \in T : x <= y
<1> DEFINE R == OpToRel(<, Nat)
<1>1. IsWellFoundedOn(R, Nat)
  BY NatLessThanWellFounded, Zenon
<1>2. \A a, b \in Nat : <<a, b>> \in R <=> a < b
  BY DEF OpToRel
<1> HIDE DEF R
<1>3. PICK x \in T : \A y \in T : ~ (<<y, x>> \in R)
  BY <1>1, WFMin
<1>4. \A y \in T : ~(y < x)
  BY <1>2, <1>3
<1>5. \A y \in T : x <= y
  BY <1>4
<1> QED
  BY <1>5

LEMMA Induction ==
  ASSUME NEW S \in SUBSET Nat, 0 \in S, \A n \in S : n + 1 \in S
  PROVE  \A n \in Nat : n \in S
<1> SUFFICES ASSUME Nat \ S # {} PROVE FALSE
  OBVIOUS
<1>1. PICK x \in Nat \ S : \A y \in Nat \ S : x <= y
  BY Least
<1>2. x - 1 \in Nat /\ x - 1 \notin S
  BY <1>1
<1> QED
  BY <1>1, <1>2

LEMMA ConcatShape ==
  ASSUME NEW S, NEW a \in Seq(S), NEW b \in Seq(S)
  PROVE  /\ a \o b \in Seq(S) /\ Len(a \o b) = Len(a) + Len(b)
         /\ Len(a) \in Nat /\ Len(b) \in Nat
         /\ \A i \in 1..Len(a) : (a \o b)[i] = a[i]
         /\ \A i \in 1..Len(b) : (a \o b)[Len(a) + i] = b[i]
  OBVIOUS

(* The partial results of FlattenSeq.                                      *)
LEMMA Flattened ==
  ASSUME NEW S, NEW seqs \in Seq(Seq(S))
  PROVE  \E g \in [0..Len(seqs) -> Seq(S)] :
            /\ g[0] = <<>>
            /\ \A i \in 1..Len(seqs) : g[i] = g[i - 1] \o seqs[i]
            /\ FlattenSeq(seqs) = g[Len(seqs)]
<1> DEFINE n == Len(seqs)
           Step(f, i) == IF i = 1 THEN seqs[i] ELSE f[i - 1] \o seqs[i]
           Partial(f, k) == f \in [1..k -> Seq(S)] /\ \A i \in 1..k : f[i] = Step(f, i)
           K == {k \in Nat : k <= n => \E f : Partial(f, k)}
<1>1. n \in Nat /\ \A i \in 1..n : seqs[i] \in Seq(S)
  OBVIOUS
<1> HIDE DEF n
<1>2. 0 \in K
  <2>1. Partial([i \in 1..0 |-> <<>>], 0)
    OBVIOUS
  <2> QED
    BY <2>1
<1>3. ASSUME NEW k \in K PROVE k + 1 \in K
  <2>0. k \in Nat
    BY <1>3
  <2>q. (k + 1 <= n => \E f : Partial(f, k + 1)) => k + 1 \in K
    <3> HIDE DEF Partial
    <3>1. k + 1 \in Nat
      BY <2>0
    <3> QED
      BY <3>1, Zenon
  <2> SUFFICES ASSUME k + 1 <= n PROVE \E f : Partial(f, k + 1)
    BY <2>q
  <2>1. PICK f : Partial(f, k)
    BY <1>1
  <2> DEFINE h == [i \in 1..(k + 1) |-> IF i <= k THEN f[i] ELSE Step(f, i)]
  <2>2. h \in [1..(k + 1) -> Seq(S)]
    <3> SUFFICES ASSUME NEW i \in 1..(k + 1), ~(i <= k) PROVE Step(f, i) \in Seq(S)
      BY <2>1
    <3>1. i = k + 1 /\ seqs[i] \in Seq(S)
      BY <1>1
    <3>2. CASE i = 1
      BY <3>1, <3>2
    <3>3. CASE i # 1
      <4>1. f[i - 1] \in Seq(S)
        BY <2>1, <3>1, <3>3
      <4> QED
        BY <3>1, <3>3, <4>1
    <3> QED
      BY <3>2, <3>3
  <2>3. ASSUME NEW i \in 1..(k + 1) PROVE h[i] = Step(h, i)
    <3>1. i = 1 \/ (i - 1 \in 1..k /\ h[i - 1] = f[i - 1])
      OBVIOUS
    <3>2. h[i] = Step(f, i)
      <4>1. CASE i <= k
        <5>1. i \in 1..k /\ h[i] = f[i]
          BY <2>0, <4>1
        <5>2. f[i] = Step(f, i)
          BY <2>1, <5>1
        <5> QED
          BY <5>1, <5>2
      <4>2. CASE ~(i <= k)
        BY <4>2
      <4> QED
        BY <4>1, <4>2
    <3> QED
      BY <3>1, <3>2
  <2> QED
    BY <2>2, <2>3
<1>4. PICK f : Partial(f, n)
  <2> HIDE DEF K
  <2>1. n \in K
    BY <1>1, <1>2, <1>3, Induction DEF K
  <2> QED
    BY <2>1, <1>1 DEF K
<1>5. CASE n = 0
  <2>1. seqs = <<>> /\ FlattenSeq(seqs) = <<>>
    BY <1>5 DEF n, FlattenSeq
  <2> DEFINE g == [i \in 0..0 |-> <<>>]
  <2>2. g \in [0..Len(seqs) -> Seq(S)] /\ g[0] = <<>> /\ \A i \in 1..Len(seqs) : FALSE
    BY <1>5 DEF n
  <2>3. FlattenSeq(seqs) = g[Len(seqs)]
    BY <1>5, <2>1, <2>2 DEF n
  <2> HIDE DEF g
  <2> QED
    BY <2>2, <2>3
<1>6. CASE n # 0
  <2> DEFINE F == CHOOSE g : g = [i \in 1..n |-> IF i = 1 THEN seqs[i] ELSE g[i - 1] \o seqs[i]]
             J == {k \in Nat : k \in 1..n => F[k] = f[k]}
             g == [i \in 0..n |-> IF i = 0 THEN <<>> ELSE f[i]]
  <2>1. FlattenSeq(seqs) = F[n]
    BY <1>6 DEF FlattenSeq, n
  <2>2. f = [i \in 1..n |-> IF i = 1 THEN seqs[i] ELSE f[i - 1] \o seqs[i]]
    BY <1>4, Zenon
  <2>3. F = [i \in 1..n |-> IF i = 1 THEN seqs[i] ELSE F[i - 1] \o seqs[i]]
    BY <2>2
  <2>a. \A i \in 1..n : F[i] = IF i = 1 THEN seqs[i] ELSE F[i - 1] \o seqs[i]
    BY <2>3
  <2>b. \A i \in 1..n : f[i] = IF i = 1 THEN seqs[i] ELSE f[i - 1] \o seqs[i]
    BY <1>4
  <2>c. \A i \in 1..n : f[i] \in Seq(S)
    BY <1>4
  <2> HIDE DEF F, Partial, Step
  <2>4. 0 \in J
    OBVIOUS
  <2>5. ASSUME NEW k \in J PROVE k + 1 \in J
    <3>1. k \in Nat /\ (k \in 1..n => F[k] = f[k])
      BY <2>5
    <3>2. ASSUME NEW j \in 1..n, j = k + 1 PROVE F[j] = f[j]
      <4>1. F[j] = IF j = 1 THEN seqs[j] ELSE F[j - 1] \o seqs[j]
        BY <2>a
      <4>2. f[j] = IF j = 1 THEN seqs[j] ELSE f[j - 1] \o seqs[j]
        BY <2>b
      <4>3. j - 1 = k /\ (j # 1 => k \in 1..n)
        BY <1>1, <3>1, <3>2
      <4> QED
        BY <3>1, <4>1, <4>2, <4>3
    <3> QED
      BY <3>1, <3>2
  <2>6. F[n] = f[n]
    <3> HIDE DEF J
    <3>1. n \in J
      BY <1>1, <2>4, <2>5, Induction DEF J
    <3> QED
      BY <1>1, <1>6, <3>1 DEF J
  <2>7. g \in [0..n -> Seq(S)] /\ g[0] = <<>>
    BY <1>1, <2>c
  <2>8. ASSUME NEW i \in 1..n PROVE g[i] = g[i - 1] \o seqs[i]
    <3>1. CASE i = 1
      <4>1. seqs[i] \in Seq(S) /\ f[i] = seqs[i] /\ g[i] = f[i] /\ g[i - 1] = <<>>
        BY <1>1, <2>b, <3>1
      <4> QED
        BY <4>1, EmptySeq, ConcatEmptySeq
    <3>2. CASE i # 1
      <4>1. i \in 0..n /\ i - 1 \in 0..n /\ i # 0 /\ i - 1 # 0
        BY <1>1, <3>2
      <4>2. g[i] = f[i] /\ g[i - 1] = f[i - 1]
        BY <4>1
      <4> QED
        BY <2>b, <3>2, <4>2
    <3> QED
      BY <3>1, <3>2
  <2>9. FlattenSeq(seqs) = g[n]
    BY <1>1, <1>6, <2>1, <2>6
  <2> QED
    BY <2>7, <2>8, <2>9 DEF n
<1> QED
  BY <1>5, <1>6
-----------------------------------------------------------------------------
(* Lengths and numbers in four bytes.                                      *)

LEMMA Division ==
  ASSUME NEW d \in Nat \ {0}, NEW q \in Nat, NEW r \in 0..(d - 1), NEW n, n = d * q + r
  PROVE  n \div d = q /\ n % d = r
  OBVIOUS

LEMMA DivideTwice ==
  ASSUME NEW d \in Nat \ {0}, NEW e \in Nat \ {0}, NEW n \in Nat
  PROVE  n \div (d * e) = (n \div d) \div e
<1> DEFINE q == n \div d  r == n % d  p == q \div e  s == q % e  de == d * e
<1>1. q \in Nat /\ r \in 0..(d - 1) /\ n = d * q + r
  OBVIOUS
<1>2. p \in Nat /\ s \in 0..(e - 1) /\ q = e * p + s
  BY <1>1
<1> HIDE DEF q, r, p, s
<1>3. n = de * p + (d * s + r)
  BY <1>1, <1>2
<1>4. d * s + r \in 0..(de - 1)
  <2>1. d * s + d <= d * e
    BY <1>2
  <2> QED
    BY <2>1, <1>1, <1>2
<1>5. de \in Nat \ {0}
  OBVIOUS
<1> HIDE DEF de
<1>6. n \div de = p
  BY <1>2, <1>3, <1>4, <1>5, Division
<1> QED
  BY <1>6 DEF de, p, q

(* Four bytes hold every number below 2^32.                                *)
LEMMA FourBytes ==
  ASSUME NEW n \in 0..(LengthRange - 1)
  PROVE  /\ \A i \in 1..4 : LengthBytes(n)[i] \in Byte
         /\ LengthBytes(n) \in Seq(Byte) /\ Len(LengthBytes(n)) = 4
         /\ BigEndian(LengthBytes(n)) = n
<1> DEFINE q1 == n \div Base  q2 == q1 \div Base  q3 == q2 \div Base
<1>0. Base \in Nat \ {0}
  BY BaseAssumption
<1>n. n \in Nat /\ n < LengthRange
  BY <1>0 DEF LengthRange
<1>1. q1 \in Nat /\ n % Base \in Byte /\ n = Base * q1 + (n % Base)
  BY <1>0, <1>n DEF Byte
<1>2. q2 \in Nat /\ q1 % Base \in Byte /\ q1 = Base * q2 + (q1 % Base)
  BY <1>0, <1>1 DEF Byte
<1>3. q3 \in Nat /\ q2 % Base \in Byte /\ q2 = Base * q3 + (q2 % Base)
  BY <1>0, <1>2 DEF Byte
<1>4. n \div (Base * Base) = q2 /\ n \div (Base * Base * Base) = q3
  <2>1. n \div (Base * Base) = q2
    BY <1>0, <1>n, DivideTwice
  <2>2. Base * Base \in Nat \ {0}
    BY <1>0
  <2>3. n \div ((Base * Base) * Base) = (n \div (Base * Base)) \div Base
    BY <1>0, <1>n, <2>2, DivideTwice
  <2> QED
    BY <2>1, <2>3
<1> HIDE DEF q1, q2, q3
<1>5. q3 < Base
  <2> SUFFICES ASSUME Base <= q3 PROVE FALSE
    BY <1>0, <1>3
  <2>1. Base * Base <= q2
    BY <1>0, <1>3 DEF Byte
  <2>2. Base * Base * Base <= q1
    BY <1>0, <1>2, <2>1 DEF Byte
  <2>3. Base * Base * Base * Base <= n
    BY <1>0, <1>1, <2>2 DEF Byte
  <2> QED
    BY <1>0, <1>n, <2>3 DEF LengthRange
<1>6. q3 % Base = q3 /\ q3 \in Byte
  BY <1>0, <1>3, <1>5 DEF Byte
<1>7. LengthBytes(n) = <<q3, q2 % Base, q1 % Base, n % Base>>
  BY <1>4, <1>6 DEF LengthBytes, q1
<1> QED
  BY <1>0, <1>1, <1>2, <1>3, <1>6, <1>7 DEF BigEndian, Byte
-----------------------------------------------------------------------------
(* Streams of intact frames: no stray byte is taken for a preamble, and a  *)
(* length fits into its four bytes with the header's.                      *)
IntactItem ==
    [stray : Seq(Byte \ {Preamble}), msgType : Byte,
     body : {b \in Seq(Byte) : HeaderSize + Len(b) + 1 < LengthRange}, damaged : {FALSE}]

IntactStreams == \A items \in Plans : items \in Seq(IntactItem)

(* What a stream is made of.                                               *)
Symbol == Byte \cup {CalcChecksum(s) : s \in Seq(Byte)}

Frame(it) == PackFrame(it.msgType, it.body)
Inside(it) == Content(it.msgType, it.body)

LEMMA FrameShape ==
  ASSUME NEW it \in IntactItem
  PROVE  /\ Inside(it) \in Seq(Byte) /\ Inside(it) # <<>>
         /\ Len(Inside(it)) = HeaderSize + Len(it.body)
         /\ Inside(it)[1] = Preamble
         /\ \A i \in 1..4 : Inside(it)[i + 3] = LengthBytes(Len(it.body))[i]
         /\ Frame(it) \in Seq(Symbol) /\ Len(Frame(it)) = HeaderSize + Len(it.body) + 1
         /\ \A i \in 1..Len(Inside(it)) : Frame(it)[i] = Inside(it)[i]
         /\ Frame(it)[Len(Frame(it))] = CalcChecksum(Inside(it))
<1> DEFINE three == <<Preamble, ProtocolType, it.msgType>>
           four == LengthBytes(Len(it.body))
           c == Inside(it)
<1>1. it.msgType \in Byte /\ it.body \in Seq(Byte) /\ HeaderSize + Len(it.body) + 1 < LengthRange
  BY DEF IntactItem
<1>2. three \in Seq(Byte) /\ Len(three) = 3 /\ three[1] = Preamble
  BY <1>1, BaseAssumption DEF Byte
<1>3. four \in Seq(Byte) /\ Len(four) = 4
  <2>1. Len(it.body) \in 0..(LengthRange - 1)
    BY <1>1, BaseAssumption DEF HeaderSize, LengthRange
  <2> QED
    BY <2>1, FourBytes
<1>4. c = (three \o four) \o it.body
  BY DEF Inside, Content
<1> HIDE DEF three, four, c
<1>5. three \o four \in Seq(Byte) /\ Len(three \o four) = 7 /\ (three \o four)[1] = Preamble
      /\ \A i \in 1..4 : (three \o four)[i + 3] = four[i]
  <2>1. three \o four \in Seq(Byte) /\ Len(three \o four) = 7
    <3>1. three \o four \in Seq(Byte) /\ Len(three \o four) = Len(three) + Len(four)
      BY <1>2, <1>3, ConcatProperties, Zenon
    <3> QED
      BY <1>2, <1>3, <3>1
  <2>2. \A i \in 1..(Len(three) + Len(four)) :
          (three \o four)[i] = IF i <= Len(three) THEN three[i] ELSE four[i - Len(three)]
    BY <1>2, <1>3, ConcatProperties, Zenon
  <2> QED
    BY <1>2, <1>3, <2>1, <2>2
<1>6. c \in Seq(Byte) /\ Len(c) = 7 + Len(it.body) /\ c[1] = Preamble
      /\ \A i \in 1..4 : c[i + 3] = four[i]
  <2> DEFINE seven == three \o four
  <2>1. seven \in Seq(Byte) /\ Len(seven) = 7 /\ seven[1] = Preamble
        /\ \A i \in 1..4 : seven[i + 3] = four[i]
    BY <1>5
  <2>2. c = seven \o it.body
    BY <1>4
  <2> HIDE DEF seven
  <2>3. c \in Seq(Byte) /\ Len(c) = 7 + Len(it.body)
    <3>1. c \in Seq(Byte) /\ Len(c) = Len(seven) + Len(it.body)
      BY <1>1, <2>1, <2>2, ConcatProperties, Zenon
    <3> QED
      BY <1>1, <2>1, <3>1
  <2>4. \A i \in 1..(Len(seven) + Len(it.body)) :
          c[i] = IF i <= Len(seven) THEN seven[i] ELSE it.body[i - Len(seven)]
    BY <1>1, <2>1, <2>2, ConcatProperties, Zenon
  <2> QED
    BY <1>1, <2>1, <2>3, <2>4, SMTT(40)
<1>7. Frame(it) = Append(c, CalcChecksum(c))
  BY DEF Frame, PackFrame, Inside, c
<1>8. c \in Seq(Symbol) /\ CalcChecksum(c) \in Symbol
  BY <1>6 DEF Symbol
<1>9. Frame(it) \in Seq(Symbol) /\ Len(Frame(it)) = Len(c) + 1
      /\ (\A i \in 1..Len(c) : Frame(it)[i] = c[i]) /\ Frame(it)[Len(c) + 1] = CalcChecksum(c)
  BY <1>7, <1>8, AppendProperties
<1>10. c # <<>>
  BY <1>1, <1>6, EmptySeq
<1> QED
  BY <1>1, <1>6, <1>9, <1>10 DEF c, four, HeaderSize

LEMMA BytesShape ==
  ASSUME NEW it \in IntactItem
  PROVE  /\ Bytes(it) \in Seq(Symbol)
         /\ Len(Bytes(it)) = Len(it.stray) + Len(Frame(it))
         /\ \A i \in 1..Len(it.stray) : Bytes(it)[i] = it.stray[i] /\ Bytes(it)[i] # Preamble
         /\ \A i \in 1..Len(Frame(it)) : Bytes(it)[Len(it.stray) + i] = Frame(it)[i]
<1>1. it.stray \in Seq(Byte \ {Preamble}) /\ ~it.damaged
  BY DEF IntactItem
<1>2. Bytes(it) = it.stray \o Frame(it)
  BY <1>1 DEF Bytes, Frame
<1>3. Frame(it) \in Seq(Symbol)
  BY FrameShape
<1>4. it.stray \in Seq(Symbol) /\ \A i \in 1..Len(it.stray) : it.stray[i] # Preamble
  BY <1>1 DEF Symbol
<1> QED
  BY <1>2, <1>3, <1>4, ConcatProperties

LEMMA ItemSizes ==
  ASSUME NEW it \in IntactItem
  PROVE  /\ it.stray \in Seq(Byte \ {Preamble}) /\ Len(it.stray) \in Nat
         /\ Len(Frame(it)) \in Nat \ {0}
         /\ Len(Bytes(it)) = Len(it.stray) + Len(Frame(it))
<1>1. it.stray \in Seq(Byte \ {Preamble}) /\ Len(it.body) \in Nat
  BY DEF IntactItem
<1>2. Len(Frame(it)) = HeaderSize + Len(it.body) + 1
  BY FrameShape
<1>3. Len(Frame(it)) \in Nat \ {0}
  BY <1>1, <1>2 DEF HeaderSize
<1> QED
  BY <1>1, <1>3, BytesShape

(* The length field of a frame says where it ends.                         *)
LEMMA LengthRead ==
  ASSUME NEW it \in IntactItem, NEW b \in Seq(Symbol), HeaderSize <= Len(b),
         \A i \in 1..HeaderSize : b[i] = Frame(it)[i]
  PROVE  TotalLen(b) = Len(Frame(it))
<1> DEFINE s == SubSeq(b, 4, 7)  n == Len(it.body)  four == LengthBytes(n)
<1>1. n \in Nat /\ HeaderSize + n + 1 < LengthRange /\ LengthRange \in Nat
  BY BaseAssumption DEF IntactItem, LengthRange
<1>2. n \in 0..(LengthRange - 1)
  BY <1>1 DEF HeaderSize
<1>3. \A i \in 1..4 : s[i] = four[i]
  <2> SUFFICES ASSUME NEW i \in 1..4 PROVE s[i] = four[i]
    OBVIOUS
  <2>1. s[i] = b[i + 3]
    BY DEF HeaderSize
  <2>2. i + 3 \in 1..Len(Inside(it)) /\ i + 3 \in 1..HeaderSize
    BY FrameShape, <1>1, SMTT(40) DEF HeaderSize
  <2> QED
    BY <2>1, <2>2, FrameShape
<1>4. BigEndian(s) = n
  <2>1. BigEndian(four) = n
    BY <1>2, FourBytes
  <2> HIDE DEF s, n, four
  <2> QED
    BY <1>3, <2>1 DEF BigEndian
<1>5. TotalLen(b) = (HeaderSize + n + 1) % LengthRange
  BY <1>4 DEF TotalLen, BodyLen
<1>6. \A m, r \in Nat : m < r => m % r = m
  OBVIOUS
<1>7. HeaderSize + n + 1 \in Nat
  BY <1>1 DEF HeaderSize
<1>8. Len(Frame(it)) = HeaderSize + n + 1
  BY FrameShape
<1> QED
  BY <1>1, <1>5, <1>6, <1>7, <1>8
-----------------------------------------------------------------------------
(* What parseFrame makes of a buffer that begins within the stray bytes    *)
(* before a frame, off bytes after the first of them, or right behind.     *)
Holds(buf, it, off) ==
    /\ buf \in Seq(Symbol) /\ off \in 0..Len(it.stray)
    /\ \A i \in 1..Len(buf) : off + i <= Len(Bytes(it)) => buf[i] = Bytes(it)[off + i]

(* Nothing but stray bytes: they are dropped.                              *)
LEMMA ParseStray ==
  ASSUME NEW it \in IntactItem, NEW buf, NEW off, Holds(buf, it, off),
         off + Len(buf) <= Len(it.stray)
  PROVE  ParseFrame(buf) = Wait(<<>>)
<1>1. it.stray \in Seq(Byte \ {Preamble}) /\ Len(it.stray) \in Nat /\ Len(buf) \in Nat
  BY DEF IntactItem, Holds
<1>2. Len(it.stray) <= Len(Bytes(it))
  BY <1>1, BytesShape, FrameShape, LenProperties
<1>3. ASSUME NEW i \in DOMAIN buf PROVE buf[i] # Preamble
  <2>1. i \in 1..Len(buf) /\ off + i \in 1..Len(it.stray) /\ off + i <= Len(Bytes(it))
    BY <1>1, <1>2, BytesShape DEF Holds
  <2> QED
    BY <2>1, BytesShape DEF Holds
<1>4. FromPreamble(buf) = <<>>
  BY <1>3 DEF FromPreamble
<1>5. Len(<<>>) < HeaderSize
  BY DEF HeaderSize
<1> QED
  BY <1>4, <1>5 DEF ParseFrame

(* With the preamble there, what is before it is dropped.                  *)
LEMMA DropStray ==
  ASSUME NEW it \in IntactItem, NEW buf, NEW off, Holds(buf, it, off),
         Len(it.stray) < off + Len(buf)
  PROVE  FromPreamble(buf) = SubSeq(buf, Len(it.stray) - off + 1, Len(buf))
<1> DEFINE q == Len(it.stray) - off + 1
           at == {i \in DOMAIN buf : buf[i] = Preamble}
<1>1. it.stray \in Seq(Byte \ {Preamble}) /\ Len(it.stray) \in Nat /\ Len(buf) \in Nat
      /\ off \in 0..Len(it.stray) /\ Len(Frame(it)) \in Nat \ {0}
      /\ Len(Bytes(it)) = Len(it.stray) + Len(Frame(it))
  <2>1. it.stray \in Seq(Byte \ {Preamble}) /\ Len(it.body) \in Nat
    BY DEF IntactItem
  <2>2. Len(Frame(it)) = HeaderSize + Len(it.body) + 1
    BY FrameShape
  <2>3. Len(Frame(it)) \in Nat \ {0}
    BY <2>1, <2>2 DEF HeaderSize
  <2>4. Len(it.stray) \in Nat /\ Len(buf) \in Nat /\ off \in 0..Len(it.stray)
    BY <2>1 DEF Holds
  <2> QED
    BY <2>1, <2>3, <2>4, BytesShape
<1>2. q \in 1..Len(buf) /\ off + q = Len(it.stray) + 1
  BY <1>1
<1>3. buf[q] = Preamble
  <2>1. off + q <= Len(Bytes(it))
    BY <1>1, <1>2
  <2>2. buf[q] = Bytes(it)[Len(it.stray) + 1]
    BY <1>2, <2>1 DEF Holds
  <2>3. Bytes(it)[Len(it.stray) + 1] = Frame(it)[1]
    BY <1>1, BytesShape
  <2>4. Frame(it)[1] = Preamble
    <3>1. 1 \in 1..Len(Inside(it))
      BY FrameShape, EmptySeq, LenProperties
    <3> QED
      BY <3>1, FrameShape
  <2> QED
    BY <2>2, <2>3, <2>4
<1>4. ASSUME NEW i \in 1..Len(buf), i < q PROVE buf[i] # Preamble
  <2>1. off + i \in 1..Len(it.stray) /\ off + i <= Len(Bytes(it))
    BY <1>1, <1>2, <1>4
  <2> QED
    BY <2>1, BytesShape DEF Holds
<1>5. DOMAIN buf = 1..Len(buf)
  BY DEF Holds
<1> HIDE DEF q
<1>6. q \in at /\ \A j \in at : q <= j
  BY <1>2, <1>3, <1>4, <1>5
<1>7. (CHOOSE i \in at : \A j \in at : i <= j) = q
  <2>1. \A i \in at : i \in Nat
    BY <1>1, <1>5
  <2>2. \A i \in at : (\A j \in at : i <= j) => i = q
    BY <1>6, <2>1
  <2> HIDE DEF at
  <2> QED
    BY <1>6, <2>2
<1>8. FromPreamble(buf) = SubSeq(buf, q, Len(buf))
  BY <1>6, <1>7, Zenon DEF FromPreamble
<1> QED
  BY <1>8 DEF q

(* The buffer from the preamble on.                                        *)
LEMMA FromFrame ==
  ASSUME NEW it \in IntactItem, NEW buf, NEW off, Holds(buf, it, off),
         Len(it.stray) < off + Len(buf)
  PROVE  /\ FromPreamble(buf) \in Seq(Symbol)
         /\ Len(FromPreamble(buf)) = Len(buf) - (Len(it.stray) - off)
         /\ \A i \in 1..Len(FromPreamble(buf)) :
              /\ FromPreamble(buf)[i] = buf[Len(it.stray) - off + i]
              /\ i <= Len(Frame(it)) => FromPreamble(buf)[i] = Frame(it)[i]
<1> DEFINE d == Len(it.stray) - off  b == FromPreamble(buf)
<1>1. it.stray \in Seq(Byte \ {Preamble}) /\ buf \in Seq(Symbol) /\ off \in 0..Len(it.stray)
  BY DEF IntactItem, Holds
<1>2. d \in Nat /\ Len(buf) \in Nat /\ d < Len(buf) /\ off + d = Len(it.stray)
      /\ off \in Nat /\ Len(it.stray) \in Nat
  BY <1>1
<1>3. b = SubSeq(buf, d + 1, Len(buf))
  BY DropStray
<1>4. Len(Frame(it)) \in Nat /\ Len(Bytes(it)) = Len(it.stray) + Len(Frame(it))
  <2>1. Frame(it) \in Seq(Symbol)
    BY FrameShape
  <2> QED
    BY <2>1, BytesShape
<1> HIDE DEF d, b
<1>5. b \in Seq(Symbol) /\ Len(b) = Len(buf) - d /\ \A i \in 1..Len(b) : b[i] = buf[d + i]
  BY <1>1, <1>2, <1>3
<1>6. ASSUME NEW i \in 1..Len(b), i <= Len(Frame(it)) PROVE b[i] = Frame(it)[i]
  <2>0. i \in 1..(Len(buf) - d)
    BY <1>5
  <2>1. d + i \in 1..Len(buf) /\ off + (d + i) = Len(it.stray) + i
    BY <1>2, <2>0
  <2>2. off + (d + i) <= Len(Bytes(it)) /\ i \in 1..Len(Frame(it))
    BY <1>1, <1>4, <1>6, <2>1
  <2>3. buf[d + i] = Bytes(it)[off + (d + i)]
    BY <2>1, <2>2 DEF Holds
  <2>4. Bytes(it)[Len(it.stray) + i] = Frame(it)[i]
    BY <2>2, BytesShape
  <2> QED
    BY <1>5, <2>1, <2>3, <2>4
<1> QED
  BY <1>5, <1>6 DEF b, d

(* Part of the frame: it waits, with the frame at the head of the buffer.  *)
LEMMA ParsePart ==
  ASSUME NEW it \in IntactItem, NEW buf, NEW off, Holds(buf, it, off),
         Len(it.stray) < off + Len(buf), off + Len(buf) < Len(Bytes(it))
  PROVE  ParseFrame(buf) = Wait(FromPreamble(buf))
<1> DEFINE b == FromPreamble(buf)
<1>1. b \in Seq(Symbol) /\ Len(b) \in Nat /\ Len(b) < Len(Frame(it)) /\ Len(Frame(it)) \in Nat
  <2>1. it.stray \in Seq(Byte \ {Preamble}) /\ buf \in Seq(Symbol) /\ off \in 0..Len(it.stray)
    BY DEF IntactItem, Holds
  <2>2. Frame(it) \in Seq(Symbol)
    BY FrameShape
  <2>3. Len(Bytes(it)) = Len(it.stray) + Len(Frame(it))
    BY BytesShape
  <2>4. b \in Seq(Symbol) /\ Len(b) = Len(buf) - (Len(it.stray) - off)
    BY FromFrame
  <2> HIDE DEF b
  <2>5. Len(it.stray) \in Nat /\ Len(buf) \in Nat /\ Len(Frame(it)) \in Nat /\ Len(b) \in Nat
        /\ off \in Nat
    BY <2>1, <2>2, <2>4
  <2> DEFINE s == Len(it.stray)  m == Len(buf)  t == Len(Frame(it))  k == Len(b)
  <2>6. s < off + m /\ off + m < s + t /\ k = m - (s - off)
    BY <2>3, <2>4
  <2>7. s \in Nat /\ m \in Nat /\ t \in Nat /\ k \in Nat /\ off \in Nat
    BY <2>5
  <2> HIDE DEF s, m, t, k
  <2>8. k < t
    BY <2>6, <2>7
  <2> QED
    BY <2>4, <2>7, <2>8 DEF t, k
<1>2. CASE Len(b) < HeaderSize
  BY <1>2 DEF ParseFrame
<1>3. CASE HeaderSize <= Len(b)
  <2>1. \A i \in 1..HeaderSize : b[i] = Frame(it)[i]
    BY <1>1, <1>3, FromFrame, SMTT(40) DEF HeaderSize
  <2>2. TotalLen(b) = Len(Frame(it))
    BY <1>1, <1>3, <2>1, LengthRead
  <2> QED
    BY <1>1, <2>2 DEF ParseFrame
<1> QED
  BY <1>1, <1>2, <1>3 DEF HeaderSize

(* The whole frame: it goes to the callback, what is behind it stays.      *)
LEMMA ParseWhole ==
  ASSUME NEW it \in IntactItem, NEW buf, NEW off, Holds(buf, it, off),
         Len(Bytes(it)) <= off + Len(buf)
  PROVE  /\ ParseFrame(buf).frame = Inside(it)
         /\ ParseFrame(buf).rest \in Seq(Symbol)
         /\ Len(ParseFrame(buf).rest) = Len(buf) - (Len(Bytes(it)) - off)
         /\ \A i \in 1..Len(ParseFrame(buf).rest) :
              ParseFrame(buf).rest[i] = buf[Len(Bytes(it)) - off + i]
<1> DEFINE b == FromPreamble(buf)  t == Len(Frame(it))  d == Len(it.stray) - off
           rest == SubSeq(b, t + 1, Len(b))
<1>1. it.stray \in Seq(Byte \ {Preamble}) /\ buf \in Seq(Symbol) /\ off \in 0..Len(it.stray)
  BY DEF IntactItem, Holds
<1>2. t \in Nat /\ HeaderSize < t /\ Len(Inside(it)) = t - 1 /\ Len(Bytes(it)) = Len(it.stray) + t
  <2>1. Len(it.body) \in Nat
    BY DEF IntactItem
  <2>2. t = HeaderSize + Len(it.body) + 1 /\ Len(Inside(it)) = HeaderSize + Len(it.body)
    BY FrameShape
  <2>3. Len(Bytes(it)) = Len(it.stray) + t
    BY BytesShape
  <2> HIDE DEF t
  <2> QED
    BY <2>1, <2>2, <2>3 DEF HeaderSize
<1>3. d \in Nat /\ Len(it.stray) \in Nat /\ Len(buf) \in Nat
      /\ Len(it.stray) < off + Len(buf) /\ d + t <= Len(buf)
  BY <1>1, <1>2 DEF HeaderSize
<1>4. b \in Seq(Symbol) /\ Len(b) = Len(buf) - d
      /\ \A i \in 1..Len(b) : b[i] = buf[d + i] /\ (i <= t => b[i] = Frame(it)[i])
  BY <1>3, FromFrame
<1> HIDE DEF b, t, d
<1>5. t <= Len(b) /\ HeaderSize <= Len(b) /\ ~(Len(b) < HeaderSize) /\ ~(Len(b) < t)
  BY <1>2, <1>3, <1>4 DEF HeaderSize
<1>6. TotalLen(b) = t
  <2>1. \A i \in 1..HeaderSize : b[i] = Frame(it)[i]
    BY <1>2, <1>4, <1>5 DEF HeaderSize
  <2> QED
    BY <1>4, <1>5, <2>1, LengthRead DEF t
<1>7. SubSeq(b, 1, t - 1) = Inside(it)
  <2>1. Inside(it) \in Seq(Byte) /\ \A i \in 1..(t - 1) : Frame(it)[i] = Inside(it)[i]
    BY <1>2, FrameShape
  <2>2. \A i \in 1..(t - 1) : b[i] = Inside(it)[i]
    BY <1>2, <1>4, <1>5, <2>1
  <2>3. SubSeq(b, 1, t - 1) \in Seq(Symbol) /\ Len(SubSeq(b, 1, t - 1)) = t - 1
        /\ \A i \in 1..(t - 1) : SubSeq(b, 1, t - 1)[i] = b[i]
    BY <1>2, <1>4, <1>5 DEF HeaderSize
  <2> HIDE DEF rest
  <2> QED
    BY <1>2, <2>1, <2>2, <2>3, SeqEqual
<1>8. ChecksumHolds(b, t)
  <2>1. b[t] = Frame(it)[t] /\ Frame(it)[t] = CalcChecksum(Inside(it))
    BY <1>2, <1>4, <1>5, FrameShape DEF t, HeaderSize
  <2> QED
    BY <1>7, <2>1 DEF ChecksumHolds
<1>9. ParseFrame(buf) = [frame |-> Inside(it), rest |-> rest]
  BY <1>5, <1>6, <1>7, <1>8 DEF ParseFrame, Cut, b
<1>10. rest \in Seq(Symbol) /\ Len(rest) = Len(b) - t /\ \A i \in 1..Len(rest) : rest[i] = b[t + i]
  BY <1>2, <1>4, <1>5
<1> HIDE DEF rest
<1>11. Len(rest) = Len(buf) - (Len(Bytes(it)) - off) /\ d + t = Len(Bytes(it)) - off
  BY <1>1, <1>2, <1>3, <1>4, <1>10 DEF d
<1>12. ASSUME NEW i \in 1..Len(rest) PROVE rest[i] = buf[Len(Bytes(it)) - off + i]
  <2>1. t + i \in 1..Len(b) /\ d + (t + i) = Len(Bytes(it)) - off + i
    BY <1>2, <1>3, <1>4, <1>10, <1>11
  <2> QED
    BY <1>4, <1>10, <2>1
<1> QED
  BY <1>9, <1>10, <1>11, <1>12
-----------------------------------------------------------------------------
(* Where the items end in their stream.                                    *)
IsOffsets(items, L) ==
    /\ L \in [0..Len(items) -> Nat]
    /\ L[0] = 0 /\ L[Len(items)] = Len(Stream(items))
    /\ \A i \in 1..Len(items) :
          /\ L[i] = L[i - 1] + Len(Bytes(items[i])) /\ L[i] <= Len(Stream(items))
          /\ \A j \in 1..Len(Bytes(items[i])) : Stream(items)[L[i - 1] + j] = Bytes(items[i])[j]
Offsets(items) == CHOOSE L : IsOffsets(items, L)

LEMMA StreamShape ==
  ASSUME NEW items \in Seq(IntactItem)
  PROVE  Stream(items) \in Seq(Symbol) /\ IsOffsets(items, Offsets(items))
<1> DEFINE n == Len(items)  seqs == [i \in DOMAIN items |-> Bytes(items[i])]
<1>1. n \in Nat /\ \A i \in 1..n : items[i] \in IntactItem
  OBVIOUS
<1>2. /\ seqs \in Seq(Seq(Symbol)) /\ Len(seqs) = n
      /\ \A i \in 1..n : seqs[i] = Bytes(items[i]) /\ seqs[i] \in Seq(Symbol)
  <2>1. \A i \in 1..n : Bytes(items[i]) \in Seq(Symbol)
    BY <1>1, BytesShape
  <2>2. DOMAIN items = 1..n
    OBVIOUS
  <2> HIDE DEF n
  <2>3. seqs \in [1..n -> Seq(Symbol)]
    BY <2>1, <2>2
  <2>4. seqs \in Seq(Seq(Symbol)) /\ Len(seqs) = n
    <3> HIDE DEF seqs
    <3> QED
      BY <1>1, <2>3
  <2> QED
    BY <2>1, <2>2, <2>4
<1>3. Stream(items) = FlattenSeq(seqs)
  BY DEF Stream
<1> HIDE DEF n, seqs
<1>4. PICK g \in [0..n -> Seq(Symbol)] :
         /\ g[0] = <<>>
         /\ \A i \in 1..n : g[i] = g[i - 1] \o seqs[i]
         /\ Stream(items) = g[n]
  BY <1>2, <1>3, Flattened, ZenonT(60)
<1> DEFINE L == [i \in 0..n |-> Len(g[i])]
           J == {m \in Nat : m <= n => \A i \in 0..m :
                    L[i] <= L[m] /\ \A p \in 1..L[i] : g[m][p] = g[i][p]}
<1>5. L \in [0..n -> Nat] /\ \A i \in 0..n : L[i] = Len(g[i]) /\ g[i] \in Seq(Symbol)
  BY <1>4
<1> HIDE DEF L
<1>6. L[0] = 0
  BY <1>1, <1>4, <1>5
<1>7. ASSUME NEW i \in 1..n
      PROVE  /\ i - 1 \in 0..n /\ i \in 0..n /\ L[i - 1] \in Nat /\ L[i] \in Nat
             /\ seqs[i] \in Seq(Symbol)
             /\ L[i] = L[i - 1] + Len(seqs[i])
             /\ \A p \in 1..L[i - 1] : g[i][p] = g[i - 1][p]
             /\ \A j \in 1..Len(seqs[i]) : g[i][L[i - 1] + j] = seqs[i][j]
  <2>1. i - 1 \in 0..n /\ i \in 0..n
    BY <1>1
  <2>2. seqs[i] \in Seq(Symbol) /\ g[i - 1] \in Seq(Symbol) /\ g[i] = g[i - 1] \o seqs[i]
    BY <1>2, <1>4, <1>5, <2>1
  <2>3. L[i] = Len(g[i]) /\ L[i - 1] = Len(g[i - 1]) /\ L[i - 1] \in Nat /\ L[i] \in Nat
    BY <1>5, <2>1
  <2> DEFINE a == g[i - 1]  b == seqs[i]  c == g[i]
  <2>4. a \in Seq(Symbol) /\ b \in Seq(Symbol) /\ c = a \o b
    BY <2>2
  <2>5. L[i] = Len(c) /\ L[i - 1] = Len(a)
    BY <2>3
  <2> HIDE DEF a, b, c
  <2>6. Len(c) = Len(a) + Len(b) /\ Len(a) \in Nat /\ Len(b) \in Nat
        /\ (\A p \in 1..Len(a) : c[p] = a[p]) /\ \A j \in 1..Len(b) : c[Len(a) + j] = b[j]
    BY <2>4
  <2> QED
    BY <2>1, <2>2, <2>3, <2>5, <2>6 DEF a, b, c
<1>8. 0 \in J
  BY <1>5, <1>6
<1>9. ASSUME NEW m \in J PROVE m + 1 \in J
  <2>1. m \in Nat /\ (m <= n => \A i \in 0..m :
                        L[i] <= L[m] /\ \A p \in 1..L[i] : g[m][p] = g[i][p])
    BY <1>9
  <2>2. ASSUME m + 1 <= n, NEW i \in 0..(m + 1)
        PROVE  L[i] <= L[m + 1] /\ \A p \in 1..L[i] : g[m + 1][p] = g[i][p]
    <3>1. m + 1 \in 1..n /\ m + 1 - 1 = m
      BY <1>1, <2>1, <2>2
    <3>2. L[m] \in Nat /\ L[m + 1] \in Nat /\ seqs[m + 1] \in Seq(Symbol)
          /\ L[m + 1] = L[m] + Len(seqs[m + 1])
          /\ \A p \in 1..L[m] : g[m + 1][p] = g[m][p]
      BY <1>7, <3>1
    <3>3. CASE i = m + 1
      BY <3>2, <3>3
    <3>4. CASE i # m + 1
      <4>1. i \in 0..m /\ i \in 0..n
        BY <1>1, <2>1, <2>2, <3>4
      <4>2. L[i] <= L[m] /\ \A p \in 1..L[i] : g[m][p] = g[i][p]
        BY <1>1, <2>1, <2>2, <4>1
      <4>3. L[i] \in Nat
        BY <1>5, <4>1
      <4>4. \A p \in 1..L[i] : p \in 1..L[m]
        BY <3>2, <4>2, <4>3
      <4>5. Len(seqs[m + 1]) \in Nat
        BY <3>2
      <4>6. L[i] <= L[m + 1]
        BY <3>2, <4>2, <4>3, <4>5
      <4> QED
        BY <3>2, <4>2, <4>4, <4>6
    <3> QED
      BY <3>3, <3>4
  <2>3. m + 1 \in Nat
    BY <2>1
  <2> QED
    BY <2>2, <2>3
<1>10. \A i \in 0..n : L[i] <= L[n] /\ \A p \in 1..L[i] : g[n][p] = g[i][p]
  <2> HIDE DEF J
  <2>1. n \in J
    BY <1>1, <1>8, <1>9, Induction DEF J
  <2> QED
    BY <1>1, <2>1 DEF J
<1>11. ASSUME NEW i \in 1..n
       PROVE  /\ L[i] = L[i - 1] + Len(Bytes(items[i])) /\ L[i] <= Len(Stream(items))
              /\ \A j \in 1..Len(Bytes(items[i])) :
                    Stream(items)[L[i - 1] + j] = Bytes(items[i])[j]
  <2>1. L[i] = L[i - 1] + Len(Bytes(items[i])) /\ seqs[i] = Bytes(items[i])
    BY <1>2, <1>7
  <2>2. L[n] = Len(Stream(items))
    BY <1>1, <1>4, <1>5
  <2>3. L[i] <= Len(Stream(items))
    BY <1>7, <1>10, <2>2
  <2>4. ASSUME NEW j \in 1..Len(seqs[i]) PROVE g[n][L[i - 1] + j] = seqs[i][j]
    <3>1. L[i - 1] + j \in 1..L[i]
      <4>1. L[i - 1] \in Nat /\ Len(seqs[i]) \in Nat /\ L[i] = L[i - 1] + Len(seqs[i])
        BY <1>7
      <4> QED
        BY <4>1
    <3>2. g[n][L[i - 1] + j] = g[i][L[i - 1] + j]
      BY <1>7, <1>10, <3>1
    <3> QED
      BY <1>7, <3>2
  <2> QED
    BY <1>4, <2>1, <2>3, <2>4
<1>12. L[n] = Len(Stream(items)) /\ Stream(items) \in Seq(Symbol)
  BY <1>1, <1>4, <1>5
<1>13. IsOffsets(items, L)
  BY <1>5, <1>6, <1>11, <1>12 DEF IsOffsets, n
<1> QED
  BY <1>12, <1>13 DEF Offsets
-----------------------------------------------------------------------------
(* How far the stream has been read: k items are done, what is in the      *)
(* buffer and on the wire is the rest of the stream, and the buffer begins *)
(* with stray bytes of the next item or its frame.  While the parser waits *)
(* (not p), the buffer ends before that frame does.                        *)
Position(items, buf, w) == Len(Stream(items)) - Len(w) - Len(buf)

Place(items, buf, w, p, k) ==
    LET pos == Position(items, buf, w)
        end == Offsets(items)
    IN  /\ buf \in Seq(Symbol) /\ w \in Seq(Symbol) /\ k \in 0..Len(items)
        /\ \A i \in 1..Len(buf) : buf[i] = Stream(items)[pos + i]
        /\ \A i \in 1..Len(w) : w[i] = Stream(items)[pos + Len(buf) + i]
        /\ end[k] <= pos
        /\ k < Len(items) =>
              /\ pos <= end[k] + Len(items[k + 1].stray)
              /\ ~p => pos + Len(buf) < end[k + 1]

(* The next item, and how much of it is gone.                              *)
LEMMA Window ==
  ASSUME NEW items \in Seq(IntactItem), NEW buf, NEW w, NEW p, NEW k,
         Place(items, buf, w, p, k), k < Len(items)
  PROVE  LET it == items[k + 1]
             off == Position(items, buf, w) - Offsets(items)[k]
         IN  /\ it \in IntactItem /\ Holds(buf, it, off) /\ k \in Nat /\ k + 1 \in 1..Len(items)
             /\ Position(items, buf, w) \in Nat /\ off \in Nat
             /\ Offsets(items)[k] \in Nat /\ Offsets(items)[k + 1] \in Nat
             /\ Offsets(items)[k + 1] = Offsets(items)[k] + Len(Bytes(it))
             /\ Len(it.stray) \in Nat /\ Len(Frame(it)) \in Nat \ {0}
             /\ Len(Bytes(it)) = Len(it.stray) + Len(Frame(it))
<1> DEFINE it == items[k + 1]
           all == Stream(items)
           end == Offsets(items)
           pos == Position(items, buf, w)
           off == pos - end[k]
<1>1. Len(items) \in Nat /\ k \in Nat /\ k + 1 \in 1..Len(items) /\ k \in 0..Len(items)
      /\ it \in IntactItem
  BY DEF Place
<1>2. all \in Seq(Symbol) /\ IsOffsets(items, end)
  BY StreamShape
<1>3. Len(it.stray) \in Nat
  BY <1>1, ItemSizes
<1>4. Len(Frame(it)) \in Nat \ {0} /\ Len(Bytes(it)) = Len(it.stray) + Len(Frame(it))
  BY <1>1, ItemSizes
<1>5. end[k] \in Nat /\ end[k + 1] \in Nat /\ end[k + 1] = end[k] + Len(Bytes(it))
  <2>1. end[k + 1] = end[k + 1 - 1] + Len(Bytes(it)) /\ end \in [0..Len(items) -> Nat]
    BY <1>1, <1>2 DEF IsOffsets
  <2> QED
    BY <1>1, <2>1
<1>6. buf \in Seq(Symbol) /\ w \in Seq(Symbol) /\ end[k] <= pos /\ pos <= end[k] + Len(it.stray)
      /\ \A i \in 1..Len(buf) : buf[i] = all[pos + i]
  BY DEF Place
<1>7. pos \in Int /\ Len(buf) \in Nat
  BY <1>2, <1>6 DEF Position
<1> HIDE DEF it, all, end, pos
<1>8. pos \in Nat /\ off \in 0..Len(it.stray) /\ off \in Nat
  BY <1>3, <1>5, <1>6, <1>7, SMTT(40)
<1>9. ASSUME NEW i \in 1..Len(buf), off + i <= Len(Bytes(it)) PROVE buf[i] = Bytes(it)[off + i]
  <2>1. off + i \in 1..Len(Bytes(it)) /\ end[k] + (off + i) = pos + i
    <3>1. i \in Nat /\ 1 <= i /\ off \in Nat /\ end[k] \in Nat /\ Len(Bytes(it)) \in Nat
      BY <1>3, <1>4, <1>5, <1>8
    <3> QED
      BY <1>8, <1>9, <3>1
  <2>2. all[end[k] + (off + i)] = Bytes(it)[off + i]
    <3>1. \A j \in 1..Len(Bytes(it)) : all[end[k + 1 - 1] + j] = Bytes(it)[j]
      BY <1>1, <1>2 DEF IsOffsets, all, it
    <3>2. k + 1 - 1 = k
      BY <1>1
    <3> QED
      BY <2>1, <3>1, <3>2
  <2> QED
    BY <1>6, <2>1, <2>2
<1>10. Holds(buf, it, off)
  BY <1>6, <1>8, <1>9 DEF Holds
<1> HIDE DEF off
<1> QED
  BY <1>1, <1>3, <1>4, <1>5, <1>8, <1>10, Zenon DEF it, end, pos, off

(* When all items are done, nothing is left.                               *)
LEMMA AllRead ==
  ASSUME NEW items \in Seq(IntactItem), NEW buf, NEW w, NEW p,
         Place(items, buf, w, p, Len(items))
  PROVE  buf = <<>> /\ w = <<>>
<1>1. Stream(items) \in Seq(Symbol) /\ Offsets(items)[Len(items)] = Len(Stream(items))
  BY StreamShape DEF IsOffsets
<1>2. buf \in Seq(Symbol) /\ w \in Seq(Symbol) /\ Len(Stream(items)) <= Position(items, buf, w)
  BY <1>1 DEF Place
<1>3. Len(buf) \in Nat /\ Len(w) \in Nat /\ Len(Stream(items)) \in Nat
  BY <1>1, <1>2
<1>4. Len(buf) = 0 /\ Len(w) = 0
  BY <1>2, <1>3 DEF Position
<1> QED
  BY <1>2, <1>4, EmptySeq

(* recv() only moves bytes.                                                *)
LEMMA PlaceReceived ==
  ASSUME NEW items \in Seq(IntactItem), NEW buf, NEW w, NEW k, Place(items, buf, w, FALSE, k),
         NEW n \in Nat \ {0}, n <= Len(w)
  PROVE  Place(items, buf \o SubSeq(w, 1, n), SubSeq(w, n + 1, Len(w)), TRUE, k)
<1> DEFINE part == SubSeq(w, 1, n)
           buf2 == buf \o part
           w2 == SubSeq(w, n + 1, Len(w))
           pos == Position(items, buf, w)
           all == Stream(items)
<1>1. buf \in Seq(Symbol) /\ w \in Seq(Symbol) /\ Len(buf) \in Nat /\ Len(w) \in Nat
      /\ all \in Seq(Symbol) /\ Len(all) \in Nat
  BY StreamShape DEF Place
<1>2. part \in Seq(Symbol) /\ Len(part) = n /\ \A i \in 1..n : part[i] = w[i]
  BY <1>1
<1>3. w2 \in Seq(Symbol) /\ Len(w2) = Len(w) - n /\ \A i \in 1..Len(w2) : w2[i] = w[n + i]
  BY <1>1
<1> HIDE DEF part, w2
<1>4. buf2 \in Seq(Symbol) /\ Len(buf2) = Len(buf) + n
      /\ (\A i \in 1..Len(buf) : buf2[i] = buf[i]) /\ \A i \in 1..n : buf2[Len(buf) + i] = part[i]
  <2> DEFINE x == buf  y == part  z == buf2
  <2>1. x \in Seq(Symbol) /\ y \in Seq(Symbol) /\ z = x \o y
    BY <1>1, <1>2
  <2>2. Len(buf) = Len(x) /\ Len(part) = Len(y) /\ z = buf2 /\ x = buf /\ y = part
    OBVIOUS
  <2> HIDE DEF x, y, z, buf2
  <2>3. z \in Seq(Symbol) /\ Len(z) = Len(x) + Len(y)
        /\ (\A i \in 1..Len(x) : z[i] = x[i])
        /\ \A i \in 1..Len(y) : z[Len(x) + i] = y[i]
    BY <2>1
  <2> QED
    BY <1>2, <2>2, <2>3
<1> HIDE DEF buf2, all
<1>5. Position(items, buf2, w2) = pos /\ pos \in Int
  BY <1>1, <1>3, <1>4 DEF Position, all
<1> HIDE DEF pos
<1>6. /\ \A i \in 1..Len(buf) : buf[i] = all[pos + i]
      /\ \A i \in 1..Len(w) : w[i] = all[pos + Len(buf) + i]
  BY DEF Place, pos, all
<1>7. ASSUME NEW i \in 1..Len(buf2) PROVE buf2[i] = all[pos + i]
  <2>1. CASE i <= Len(buf)
    BY <1>1, <1>4, <1>6, <2>1
  <2>2. CASE ~(i <= Len(buf))
    <3> DEFINE j == i - Len(buf)
    <3>1. j \in 1..n /\ j \in 1..Len(w) /\ i = Len(buf) + j
      BY <1>1, <1>4, <2>2
    <3>2. pos + Len(buf) + j = pos + i
      BY <1>1, <1>5, <3>1
    <3> HIDE DEF j
    <3>3. buf2[i] = part[j] /\ part[j] = w[j] /\ w[j] = all[pos + Len(buf) + j]
      BY <1>2, <1>4, <1>6, <3>1
    <3> QED
      BY <3>2, <3>3
  <2> QED
    BY <2>1, <2>2
<1>8. ASSUME NEW i \in 1..Len(w2) PROVE w2[i] = all[pos + Len(buf2) + i]
  <2> DEFINE m == Len(buf)  o == Len(w)  m2 == Len(buf2)  o2 == Len(w2)
  <2>0. m \in Nat /\ o \in Nat /\ o2 = o - n /\ m2 = m + n /\ i \in 1..o2
    BY <1>1, <1>3, <1>4
  <2> HIDE DEF m, o, m2, o2
  <2>1. n + i \in 1..o /\ pos + m + (n + i) = pos + m2 + i
    BY <1>5, <2>0
  <2> QED
    BY <1>3, <1>6, <2>1 DEF m, o, m2
<1>9. k \in 0..Len(items) /\ Offsets(items)[k] <= pos
      /\ (k < Len(items) => pos <= Offsets(items)[k] + Len(items[k + 1].stray))
  BY DEF Place, pos
<1> QED
  BY <1>3, <1>4, <1>5, <1>7, <1>8, <1>9 DEF Place, buf2, part, w2, all

(* One turn of the loop of receiveAndParse.                                *)
LEMMA PlaceParsed ==
  ASSUME NEW items \in Seq(IntactItem), NEW buf, NEW w, NEW k, Place(items, buf, w, TRUE, k),
         buf # <<>>
  PROVE  LET p == ParseFrame(buf) IN
         IF p.frame = <<>> THEN Place(items, p.rest, w, FALSE, k) /\ Len(p.rest) <= Len(buf)
         ELSE /\ k < Len(items) /\ p.frame = Inside(items[k + 1])
              /\ Place(items, p.rest, w, TRUE, k + 1) /\ Len(p.rest) < Len(buf)
<1> DEFINE it == items[k + 1]
           pos == Position(items, buf, w)
           e0 == Offsets(items)[k]
           off == pos - e0
           e1 == Offsets(items)[k + 1]
           s == Len(it.stray)
           t == Len(Frame(it))
           total == Len(Bytes(it))
           m == Len(buf)
           p == ParseFrame(buf)
           rest == p.rest
           q == Position(items, rest, w)
<1>1. k < Len(items)
  <2>1. k \in 0..Len(items) /\ (k = Len(items) => buf = <<>>)
    BY AllRead DEF Place
  <2> QED
    BY <2>1
<1>2. /\ it \in IntactItem /\ Holds(buf, it, off) /\ k \in Nat /\ k + 1 \in 1..Len(items)
      /\ pos \in Nat /\ off \in Nat /\ e0 \in Nat /\ e1 \in Nat
      /\ e1 = e0 + total /\ s \in Nat /\ t \in Nat \ {0} /\ total = s + t
  BY <1>1, Window, ZenonT(60)
<1>3. buf \in Seq(Symbol) /\ w \in Seq(Symbol) /\ off \in 0..s
  <2>1. buf \in Seq(Symbol) /\ w \in Seq(Symbol)
    BY DEF Place
  <2>2. off \in 0..s
    BY <1>2 DEF Holds
  <2> QED
    BY <2>1, <2>2
<1>4. m \in Nat
  BY <1>3
<1>5. pos = e0 + off
  <2> HIDE DEF pos, e0
  <2> QED
    BY <1>2
<1>i. it \in IntactItem /\ Holds(buf, it, off)
  BY <1>2, Zenon
<1>n. pos \in Nat /\ off \in Nat /\ e0 \in Nat /\ e1 \in Nat /\ s \in Nat /\ t \in Nat
      /\ total \in Nat /\ m \in Nat /\ t > 0 /\ off <= s /\ pos = e0 + off /\ e1 = e0 + total
      /\ total = s + t
  <2> HIDE DEF pos, off, e0, e1, s, t, total, m
  <2> QED
    BY <1>2, <1>3, <1>4, <1>5
<1>k. k \in Nat /\ k + 1 \in 1..Len(items) /\ Len(items) \in Nat /\ k \in 0..Len(items)
  BY <1>1, <1>2
<1>r. rest = p.rest /\ p = ParseFrame(buf)
  OBVIOUS
<1>a. ASSUME NEW d \in Nat, d <= m, rest \in Seq(Symbol), Len(rest) = m - d,
             \A i \in 1..Len(rest) : rest[i] = buf[d + i]
      PROVE  /\ q = pos + d /\ q + Len(rest) = pos + m
             /\ \A i \in 1..Len(rest) : rest[i] = Stream(items)[q + i]
             /\ \A i \in 1..Len(w) : w[i] = Stream(items)[q + Len(rest) + i]
  <2>1. ASSUME NEW z \in Seq(Symbol), Len(z) = Len(buf) - d,
               \A i \in 1..Len(z) : z[i] = buf[d + i]
        PROVE  /\ Position(items, z, w) = Position(items, buf, w) + d
               /\ Position(items, z, w) + Len(z) = Position(items, buf, w) + Len(buf)
               /\ \A i \in 1..Len(z) : z[i] = Stream(items)[Position(items, z, w) + i]
               /\ \A i \in 1..Len(w) : w[i] = Stream(items)[Position(items, z, w) + Len(z) + i]
    <3> DEFINE all == Stream(items)  o == Len(w)  a == Len(all)  r == Len(z)
               before == Position(items, buf, w)
               after == Position(items, z, w)
    <3>1. w \in Seq(Symbol) /\ all \in Seq(Symbol)
      BY StreamShape DEF Place
    <3>2. r \in Nat /\ o \in Nat /\ a \in Nat /\ m \in Nat /\ r = m - d /\ d <= m
      BY <1>3, <1>a, <2>1, <3>1
    <3>3. /\ \A i \in 1..m : buf[i] = all[before + i]
          /\ \A i \in 1..o : w[i] = all[before + m + i]
          /\ \A i \in 1..r : z[i] = buf[d + i]
      BY <2>1 DEF Place
    <3>4. before = a - o - m /\ after = a - o - r
      BY DEF Position
    <3> HIDE DEF all, o, a, r, m, before, after, rest, p, it, s, t, total, q
    <3>5. before \in Int /\ after = before + d /\ after + r = before + m
      BY <3>2, <3>4
    <3>6. ASSUME NEW i \in 1..r PROVE z[i] = all[after + i]
      <4>1. d + i \in 1..m /\ before + (d + i) = after + i
        BY <3>2, <3>5
      <4> QED
        BY <3>3, <4>1
    <3> QED
      BY <3>3, <3>5, <3>6 DEF all, o, r, m, before, after
  <2> HIDE DEF rest, p
  <2> QED
    BY <1>a, <2>1
<1> HIDE DEF it, pos, off, e0, e1, s, t, total, m, p, rest, q
<1>6. CASE off + m <= s
  <2>1. p = Wait(<<>>)
    BY <1>i, <1>6, <1>r, ParseStray DEF s, m
  <2>2. p.frame = <<>> /\ rest = <<>>
    BY <1>r, <2>1 DEF Wait
  <2>3. rest \in Seq(Symbol) /\ Len(rest) = 0
    BY <2>2
  <2>4. /\ q = pos + m /\ q + Len(rest) = pos + m
        /\ \A i \in 1..Len(rest) : rest[i] = Stream(items)[q + i]
        /\ \A i \in 1..Len(w) : w[i] = Stream(items)[q + Len(rest) + i]
    <3>1. m <= m /\ m - m = 0 /\ m \in Nat
      BY <1>n
    <3>2. \A i \in 1..Len(rest) : rest[i] = buf[m + i]
      BY <2>3
    <3> QED
      BY <1>a, <2>3, <3>1, <3>2
  <2>5. e0 <= q /\ q <= e0 + s /\ q + Len(rest) < e1
    <3>1. q = pos + m /\ q + Len(rest) = pos + m
      BY <2>4
    <3> QED
      BY <1>n, <1>6, <3>1
  <2>6. Place(items, rest, w, FALSE, k)
    BY <1>k, <1>3, <2>3, <2>4, <2>5 DEF Place, e0, e1, it, s, q
  <2>7. Len(rest) <= m
    BY <1>n, <2>3
  <2> QED
    BY <1>r, <2>2, <2>6, <2>7 DEF m
<1>7. CASE s < off + m /\ off + m < total
  <2> DEFINE d == s - off
  <2>1. p = Wait(FromPreamble(buf))
    BY <1>i, <1>7, <1>r, ParsePart DEF s, m, total
  <2>2. p.frame = <<>> /\ rest = FromPreamble(buf)
    BY <1>r, <2>1 DEF Wait
  <2>3. rest \in Seq(Symbol) /\ Len(rest) = m - d
        /\ \A i \in 1..Len(rest) : rest[i] = buf[d + i]
    BY <1>i, <1>7, <2>2, FromFrame DEF s, m
  <2>4. d \in Nat /\ d <= m /\ off + d = s
    BY <1>n, <1>7
  <2> HIDE DEF d
  <2>5. /\ q = pos + d /\ q + Len(rest) = pos + m
        /\ \A i \in 1..Len(rest) : rest[i] = Stream(items)[q + i]
        /\ \A i \in 1..Len(w) : w[i] = Stream(items)[q + Len(rest) + i]
    BY <1>a, <2>3, <2>4
  <2>6. e0 <= q /\ q <= e0 + s /\ q + Len(rest) < e1
    <3>1. q = pos + d /\ q + Len(rest) = pos + m
      BY <2>5
    <3> QED
      BY <1>n, <1>7, <2>4, <3>1
  <2>7. Place(items, rest, w, FALSE, k)
    BY <1>k, <1>3, <2>3, <2>5, <2>6 DEF Place, e0, e1, it, s, q
  <2>8. Len(rest) <= m
    BY <1>n, <2>3, <2>4
  <2> QED
    BY <1>r, <2>2, <2>7, <2>8 DEF m
<1>8. CASE total <= off + m
  <2> DEFINE d == total - off
  <2>1. p.frame = Inside(it) /\ p.frame # <<>>
    BY <1>i, <1>8, <1>r, ParseWhole, FrameShape DEF m, total
  <2>2. rest \in Seq(Symbol) /\ Len(rest) = m - d
        /\ \A i \in 1..Len(rest) : rest[i] = buf[d + i]
    BY <1>i, <1>8, <1>r, ParseWhole DEF m, total
  <2>3. d \in Nat /\ d <= m /\ off + d = total
    BY <1>n, <1>8
  <2> HIDE DEF d
  <2>4. /\ q = pos + d
        /\ \A i \in 1..Len(rest) : rest[i] = Stream(items)[q + i]
        /\ \A i \in 1..Len(w) : w[i] = Stream(items)[q + Len(rest) + i]
    BY <1>a, <2>2, <2>3
  <2>5. q = e1 /\ e1 \in Nat
    BY <1>n, <2>3, <2>4
  <2>6. ASSUME k + 1 < Len(items) PROVE e1 <= e1 + Len(items[k + 1 + 1].stray)
    <3>1. items[k + 1 + 1] \in IntactItem
      BY <1>k, <2>6
    <3>2. Len(items[k + 1 + 1].stray) \in Nat
      BY <3>1, ItemSizes
    <3> QED
      BY <2>5, <3>2
  <2>7. k + 1 \in 0..Len(items) /\ e1 <= q
    BY <1>k, <2>5
  <2>8. Place(items, rest, w, TRUE, k + 1)
    BY <1>3, <2>2, <2>4, <2>5, <2>6, <2>7 DEF Place, e1, q
  <2>9. Len(rest) < m
    <3>1. Len(rest) = m - d
      BY <2>2
    <3> QED
      BY <1>n, <2>3, <3>1
  <2> QED
    BY <1>1, <1>r, <2>1, <2>8, <2>9 DEF it, m
<1>9. off + m <= s \/ (s < off + m /\ off + m < total) \/ total <= off + m
  BY <1>n
<1> QED
  BY <1>6, <1>7, <1>8, <1>9

(* While it waits there is no whole frame in the buffer.                   *)
LEMMA NothingWhole ==
  ASSUME NEW items \in Seq(IntactItem), NEW buf, NEW w, NEW k, Place(items, buf, w, FALSE, k)
  PROVE  ParseFrame(buf).frame = <<>>
<1>1. k \in 0..Len(items)
  BY DEF Place
<1>2. CASE k = Len(items)
  <2>1. buf = <<>>
    BY <1>2, AllRead
  <2>2. FromPreamble(buf) = <<>> /\ Len(<<>>) < HeaderSize
    BY <2>1 DEF FromPreamble, HeaderSize
  <2> QED
    BY <2>2 DEF ParseFrame, Wait
<1>3. CASE k # Len(items)
  <2> DEFINE it == items[k + 1]
             pos == Position(items, buf, w)
             e0 == Offsets(items)[k]
             e1 == Offsets(items)[k + 1]
             off == pos - e0
             s == Len(it.stray)
             t == Len(Frame(it))
             total == Len(Bytes(it))
             m == Len(buf)
  <2>1. k < Len(items)
    BY <1>1, <1>3
  <2>2. /\ it \in IntactItem /\ Holds(buf, it, off) /\ pos \in Nat /\ off \in Nat
        /\ e0 \in Nat /\ e1 \in Nat /\ e1 = e0 + total
        /\ s \in Nat /\ t \in Nat \ {0} /\ total = s + t
    BY <2>1, Window, ZenonT(60)
  <2>3. buf \in Seq(Symbol) /\ pos + m < e1
    BY <2>1 DEF Place
  <2>4. m \in Nat
    BY <2>3
  <2>5. off + m < total
    <3> HIDE DEF it, pos, e0, e1, s, t, total, m
    <3> QED
      BY <2>2, <2>3, <2>4
  <2>i. it \in IntactItem /\ Holds(buf, it, off)
    BY <2>2, Zenon
  <2>n. off \in Nat /\ m \in Nat /\ s \in Nat
    BY <2>2, <2>4
  <2> HIDE DEF it, pos, e0, e1, s, t, total, m, off
  <2>6. CASE off + m <= s
    BY <2>i, <2>6, ParseStray DEF Wait, m, s
  <2>7. CASE s < off + m
    BY <2>i, <2>5, <2>7, ParsePart DEF Wait, m, s, total
  <2> QED
    BY <2>n, <2>6, <2>7
<1> QED
  BY <1>2, <1>3
-----------------------------------------------------------------------------
(* The callback has had the first frames of the stream, and the buffer and *)
(* the wire hold the rest.                                                 *)
ParserInv ==
    /\ plan \in Plans /\ parsing \in BOOLEAN
    /\ delivered \in Seq(Seq(Byte)) /\ Len(delivered) <= Len(plan)
    /\ \A i \in 1..Len(delivered) : delivered[i] = Inside(plan[i])
    /\ Place(plan, recvBuf, wire, parsing, Len(delivered))

LEMMA AtStart ==
  ASSUME IntactStreams, Init
  PROVE  ParserInv
<1> DEFINE all == Stream(plan)  end == Offsets(plan)  a == Len(all)
<1>1. plan \in Seq(IntactItem) /\ plan \in Plans /\ Len(plan) \in Nat
  BY DEF Init, IntactStreams
<1>2. all \in Seq(Symbol) /\ IsOffsets(plan, end) /\ a \in Nat
  BY <1>1, StreamShape
<1>3. wire = all /\ recvBuf = <<>> /\ parsing = FALSE /\ delivered = <<>>
  BY DEF Init
<1>4. recvBuf \in Seq(Symbol) /\ Len(recvBuf) = 0
  BY <1>3
<1>5. Position(plan, recvBuf, wire) = 0
  <2>1. Position(plan, recvBuf, wire) = a - a - Len(recvBuf)
    BY <1>3 DEF Position
  <2> HIDE DEF a
  <2> QED
    BY <1>2, <1>4, <2>1
<1>6. end[0] = 0
  BY <1>2 DEF IsOffsets
<1>7. ASSUME 0 < Len(plan)
      PROVE  0 <= Len(plan[0 + 1].stray) /\ 0 < end[0 + 1]
  <2> DEFINE it == plan[1]
  <2>1. it \in IntactItem /\ 1 \in 1..Len(plan)
    BY <1>1, <1>7
  <2>2. Len(it.stray) \in Nat /\ Len(Frame(it)) \in Nat \ {0}
        /\ Len(Bytes(it)) = Len(it.stray) + Len(Frame(it))
    BY <2>1, ItemSizes
  <2>3. end[1] = end[1 - 1] + Len(Bytes(it))
    BY <1>2, <2>1 DEF IsOffsets
  <2> HIDE DEF it
  <2>4. 0 < end[1]
    BY <1>6, <2>2, <2>3
  <2> QED
    BY <2>2, <2>4 DEF it
<1>8. delivered \in Seq(Seq(Byte)) /\ Len(delivered) = 0
  BY <1>3
<1>9. /\ \A i \in 1..Len(recvBuf) : FALSE
      /\ \A i \in 1..Len(wire) : wire[i] = all[0 + Len(recvBuf) + i]
  BY <1>2, <1>3, <1>4
<1>10. Place(plan, recvBuf, wire, parsing, Len(delivered))
  <2> HIDE DEF a, end
  <2> QED
    BY <1>1, <1>2, <1>3, <1>4, <1>5, <1>6, <1>7, <1>8, <1>9 DEF Place, end
<1>11. Len(delivered) <= Len(plan) /\ \A i \in 1..Len(delivered) : FALSE
  BY <1>1, <1>8
<1>12. parsing \in BOOLEAN
  BY <1>3
<1> QED
  BY <1>1, <1>8, <1>10, <1>11, <1>12 DEF ParserInv

(* What a turn of the loop that finds a frame does to the frames.          *)
LEMMA OneMore ==
  ASSUME NEW items \in Seq(IntactItem), NEW got \in Seq(Seq(Byte)), Len(got) < Len(items),
         \A i \in 1..Len(got) : got[i] = Inside(items[i]),
         NEW more, more = Append(got, Inside(items[Len(got) + 1]))
  PROVE  /\ more \in Seq(Seq(Byte)) /\ Len(more) = Len(got) + 1 /\ Len(more) <= Len(items)
         /\ \A i \in 1..Len(more) : more[i] = Inside(items[i])
<1> DEFINE f == Inside(items[Len(got) + 1])
<1>1. Len(got) \in Nat /\ Len(items) \in Nat /\ items[Len(got) + 1] \in IntactItem
  OBVIOUS
<1>2. f \in Seq(Byte)
  BY <1>1, FrameShape
<1> HIDE DEF f
<1>3. more \in Seq(Seq(Byte)) /\ Len(more) = Len(got) + 1
      /\ (\A i \in 1..Len(got) : more[i] = got[i]) /\ more[Len(got) + 1] = f
  BY <1>1, <1>2, AppendProperties DEF f
<1>4. ASSUME NEW i \in 1..Len(more) PROVE more[i] = Inside(items[i])
  <2>1. CASE i \in 1..Len(got)
    BY <1>3, <2>1
  <2>2. CASE i \notin 1..Len(got)
    <3>1. i = Len(got) + 1
      BY <1>1, <1>3, <2>2
    <3> QED
      BY <1>3, <3>1 DEF f
  <2> QED
    BY <2>1, <2>2
<1> QED
  BY <1>1, <1>3, <1>4

LEMMA ParserStep ==
  ASSUME IntactStreams, ParserInv, [Next]_vars
  PROVE  /\ ParserInv'
         /\ \/ UNCHANGED <<plan, delivered>>
            \/ /\ plan' = plan /\ Len(delivered) < Len(plan)
               /\ delivered' = Append(delivered, Inside(plan[Len(delivered) + 1]))
<1> DEFINE k == Len(delivered)
<1>1. plan \in Seq(IntactItem) /\ plan \in Plans /\ Len(plan) \in Nat /\ k \in Nat /\ k <= Len(plan)
      /\ delivered \in Seq(Seq(Byte)) /\ parsing \in BOOLEAN
      /\ \A i \in 1..k : delivered[i] = Inside(plan[i])
  BY DEF ParserInv, IntactStreams
<1>2. Place(plan, recvBuf, wire, parsing, k)
  BY DEF ParserInv
<1> HIDE DEF k
<1>3. CASE Receive
  <2>1. UNCHANGED <<plan, delivered>> /\ parsing = FALSE /\ parsing' = TRUE
    BY <1>1, <1>3 DEF Receive
  <2>2. PICK n \in 1..MaxRead :
          /\ n <= Len(wire) /\ recvBuf' = recvBuf \o SubSeq(wire, 1, n)
          /\ wire' = SubSeq(wire, n + 1, Len(wire))
    BY <1>3 DEF Receive
  <2>3. n \in Nat \ {0}
    BY <2>2
  <2>p. Place(plan, recvBuf, wire, FALSE, k)
    BY <1>2, <2>1, Zenon
  <2>4. Place(plan, recvBuf', wire', TRUE, k)
    BY <1>1, <2>2, <2>3, <2>p, PlaceReceived
  <2>5. ParserInv'
    BY <1>1, <2>1, <2>4 DEF ParserInv, k
  <2> QED
    BY <2>1, <2>5
<1>4. CASE ParseNext
  <2> DEFINE p == ParseFrame(recvBuf)
  <2>1. parsing = TRUE /\ recvBuf # <<>> /\ recvBuf' = p.rest /\ plan' = plan /\ wire' = wire
        /\ IF p.frame = <<>> THEN parsing' = FALSE /\ UNCHANGED delivered
                             ELSE delivered' = Append(delivered, p.frame) /\ UNCHANGED parsing
    BY <1>1, <1>4 DEF ParseNext
  <2>2. IF p.frame = <<>> THEN Place(plan, p.rest, wire, FALSE, k)
        ELSE /\ k < Len(plan) /\ p.frame = Inside(plan[k + 1])
             /\ Place(plan, p.rest, wire, TRUE, k + 1)
    <3>1. Place(plan, recvBuf, wire, TRUE, k)
      BY <1>2, <2>1
    <3> QED
      BY <1>1, <2>1, <3>1, PlaceParsed, ZenonT(60)
  <2> HIDE DEF p
  <2>3. CASE p.frame = <<>>
    <3>1. ParserInv'
      BY <1>1, <2>1, <2>2, <2>3 DEF ParserInv, k
    <3> QED
      BY <2>1, <2>3, <3>1
  <2>4. CASE p.frame # <<>>
    <3>1. k < Len(plan) /\ delivered' = Append(delivered, Inside(plan[k + 1]))
          /\ parsing' = TRUE /\ Place(plan', recvBuf', wire', parsing', k + 1)
      BY <2>1, <2>2, <2>4
    <3>2. /\ delivered' \in Seq(Seq(Byte))
          /\ Len(delivered') = k + 1 /\ Len(delivered') <= Len(plan)
          /\ \A i \in 1..Len(delivered') : delivered'[i] = Inside(plan[i])
      BY <1>1, <3>1, OneMore, ZenonT(60) DEF k
    <3>3. ParserInv'
      BY <1>1, <2>1, <3>1, <3>2 DEF ParserInv
    <3> QED
      BY <2>1, <3>1, <3>3 DEF k
  <2> QED
    BY <2>3, <2>4
<1>5. CASE ParseEnds
  <2>1. parsing = TRUE /\ recvBuf = <<>> /\ parsing' = FALSE
        /\ UNCHANGED <<plan, wire, recvBuf, delivered>>
    BY <1>1, <1>5 DEF ParseEnds
  <2>2. Place(plan, recvBuf, wire, FALSE, k)
    <3> DEFINE it == plan[k + 1]
               pos == Position(plan, recvBuf, wire)
               e0 == Offsets(plan)[k]
               e1 == Offsets(plan)[k + 1]
               s == Len(it.stray)
               t == Len(Frame(it))
               total == Len(Bytes(it))
    <3>1. Place(plan, recvBuf, wire, TRUE, k) /\ Len(recvBuf) = 0
      BY <1>2, <2>1
    <3>2. ASSUME k < Len(plan) PROVE pos + Len(recvBuf) < e1
      <4>1. /\ pos \in Nat /\ e0 \in Nat /\ e1 \in Nat /\ e1 = e0 + total
            /\ s \in Nat /\ t \in Nat \ {0} /\ total = s + t
        <5>1. plan \in Seq(IntactItem) /\ Place(plan, recvBuf, wire, TRUE, k)
          BY <1>1, <3>1
        <5> QED
          BY <3>2, <5>1, Window, ZenonT(60)
      <4>2. pos <= e0 + s
        BY <3>1, <3>2 DEF Place
      <4> HIDE DEF pos, e0, e1, s, t, total
      <4> QED
        BY <3>1, <4>1, <4>2
    <3> QED
      BY <3>1, <3>2 DEF Place
  <2>3. ParserInv'
    BY <1>1, <2>1, <2>2 DEF ParserInv, k
  <2> QED
    BY <2>1, <2>3
<1>6. CASE UNCHANGED vars
  BY <1>6 DEF vars, ParserInv
<1> QED
  BY <1>3, <1>4, <1>5, <1>6 DEF Next

LEMMA ParserInvariant ==
  ASSUME IntactStreams
  PROVE  Spec => []ParserInv
<1>1. Init => ParserInv
  BY AtStart
<1>2. ParserInv /\ [Next]_vars => ParserInv'
  BY ParserStep
<1> QED
  BY <1>1, <1>2, PTL DEF Spec

(* "Complete frames are notified": when the parser waits for more bytes,   *)
(* there is no complete frame in its buffer.                               *)
THEOREM NoneIsLeftBehind ==
  ASSUME IntactStreams
  PROVE  Spec => []NoFrameLeftBehind
<1>1. ASSUME ParserInv PROVE NoFrameLeftBehind
  <2> SUFFICES ASSUME ~parsing PROVE ParseFrame(recvBuf).frame = <<>>
    BY DEF NoFrameLeftBehind
  <2>1. plan \in Seq(IntactItem) /\ Place(plan, recvBuf, wire, FALSE, Len(delivered))
    BY <1>1 DEF ParserInv, IntactStreams
  <2> QED
    BY <2>1, NothingWhole
<1> QED
  BY <1>1, ParserInvariant, PTL

(* The frames not yet delivered.                                           *)
LEMMA RemainingShape ==
  ASSUME NEW items \in Seq(IntactItem), NEW k \in Nat, k < Len(items)
  PROVE  LET all == Sent(items)
             rem == SubSeq(all, k + 1, Len(all))
         IN  /\ rem # <<>> /\ Head(rem) = Inside(items[k + 1])
             /\ Tail(rem) = SubSeq(all, k + 1 + 1, Len(all))
<1> DEFINE n == Len(items)  all == Sent(items)  rem == SubSeq(all, k + 1, Len(all))
<1>1. n \in Nat /\ DOMAIN items = 1..n /\ \A i \in 1..n : items[i] \in IntactItem
  OBVIOUS
<1>2. \A i \in 1..n : Inside(items[i]) \in Seq(Byte)
  BY <1>1, FrameShape
<1>3. all = [i \in 1..n |-> Inside(items[i])]
  BY <1>1 DEF Sent, Inside
<1> HIDE DEF n, all
<1>4. all \in Seq(Seq(Byte)) /\ Len(all) = n /\ \A i \in 1..n : all[i] = Inside(items[i])
  BY <1>1, <1>2, <1>3
<1>5. k < n
  BY DEF n
<1>6. rem \in Seq(Seq(Byte)) /\ Len(rem) = n - k /\ rem # <<>>
      /\ \A i \in 1..(n - k) : rem[i] = all[k + i]
  <2>1. k + 1 \in 1..n /\ Len(all) = n /\ n - (k + 1) + 1 = n - k /\ n - k # 0
    BY <1>1, <1>4, <1>5
  <2>2. rem = SubSeq(all, k + 1, n)
    BY <2>1
  <2> HIDE DEF rem
  <2>3. rem \in Seq(Seq(Byte)) /\ Len(rem) = n - k
    BY <1>1, <1>4, <2>1, <2>2
  <2>4. \A i \in 1..(n - k) : rem[i] = all[k + i]
    BY <1>1, <1>4, <2>1, <2>2
  <2>5. rem # <<>>
    BY <2>1, <2>3
  <2> QED
    BY <2>3, <2>4, <2>5
<1>7. Head(rem) = Inside(items[k + 1])
  BY <1>1, <1>4, <1>5, <1>6
<1>8. Tail(rem) = SubSeq(all, k + 1 + 1, Len(all))
  BY <1>1, <1>4, <1>5
<1> QED
  BY <1>6, <1>7, <1>8 DEF all

(* However the stream is cut by recv(), the callback sees the frames that  *)
(* were sent, whole, once and in order.                                    *)
THEOREM ParserImplementsChannel ==
  ASSUME IntactStreams
  PROVE  Spec => ImplementsChannel
<1>1. Init => Channel!Init
  BY DEF Init, Channel!Init
<1>2. ASSUME ParserInv, [Next]_vars
      PROVE  [Channel!Deliver]_<<Remaining, delivered>>
  <2>1. CASE UNCHANGED <<plan, delivered>>
    BY <2>1 DEF Remaining
  <2>2. CASE /\ plan' = plan /\ Len(delivered) < Len(plan)
             /\ delivered' = Append(delivered, Inside(plan[Len(delivered) + 1]))
    <3>1. plan \in Seq(IntactItem) /\ delivered \in Seq(Seq(Byte)) /\ Len(delivered) \in Nat
      BY <1>2 DEF ParserInv, IntactStreams
    <3>2. Remaining # <<>> /\ Head(Remaining) = Inside(plan[Len(delivered) + 1])
          /\ Tail(Remaining) = SubSeq(Sent(plan), Len(delivered) + 1 + 1, Len(Sent(plan)))
      BY <2>2, <3>1, RemainingShape DEF Remaining
    <3>3. Len(delivered') = Len(delivered) + 1
      BY <2>2, <3>1
    <3>4. Remaining' = Tail(Remaining)
      BY <2>2, <3>2, <3>3 DEF Remaining
    <3> QED
      BY <2>2, <3>2, <3>4 DEF Channel!Deliver
  <2> QED
    BY <1>2, <2>1, <2>2, ParserStep
<1> QED
  BY <1>1, <1>2, ParserInvariant, PTL DEF Spec, ImplementsChannel, Channel!Spec

(* When all bytes are there and the loop has ended, all frames have gone   *)
(* to the callback: none waits for something after it.                     *)
THEOREM NoneIsMissing ==
  ASSUME IntactStreams
  PROVE  Spec => [](wire = <<>> /\ ~parsing => Remaining = <<>>)
<1>1. ASSUME ParserInv, wire = <<>>, ~parsing PROVE Remaining = <<>>
  <2> DEFINE n == Len(plan)  k == Len(delivered)  all == Stream(plan)  a == Len(all)
             end == Offsets(plan)  m == Len(recvBuf)  pos == Position(plan, recvBuf, wire)
  <2>1. plan \in Seq(IntactItem) /\ n \in Nat /\ k \in Nat /\ k <= n
        /\ Place(plan, recvBuf, wire, FALSE, k)
    <3>1. parsing = FALSE
      BY <1>1 DEF ParserInv
    <3>2. Place(plan, recvBuf, wire, FALSE, k)
      BY <1>1, <3>1 DEF ParserInv
    <3>3. plan \in Plans /\ delivered \in Seq(Seq(Byte)) /\ k <= n
      BY <1>1 DEF ParserInv
    <3>4. plan \in Seq(IntactItem)
      BY <3>3 DEF IntactStreams
    <3>5. n \in Nat /\ k \in Nat
      BY <3>3, <3>4
    <3> HIDE DEF n, k
    <3> QED
      BY <3>2, <3>3, <3>4, <3>5 DEF k
  <2>2. k = n
    <3> SUFFICES ASSUME k < n PROVE FALSE
      BY <2>1
    <3>1. pos + m < end[k + 1] /\ m \in Nat
      BY <2>1 DEF Place
    <3>2. end[k + 1] <= a /\ end[k + 1] \in Nat /\ a \in Nat
      <4>1. IsOffsets(plan, end) /\ all \in Seq(Symbol) /\ k + 1 \in 1..n
        BY <2>1, StreamShape
      <4> HIDE DEF end
      <4> QED
        BY <4>1 DEF IsOffsets
    <3>3. pos = a - 0 - m
      BY <1>1 DEF Position
    <3> HIDE DEF a, m, end, pos
    <3> QED
      BY <3>1, <3>2, <3>3
  <2>3. Len(Sent(plan)) = n
    BY <2>1 DEF Sent
  <2>4. Sent(plan) \in Seq(Seq(Byte))
    <3>1. \A i \in DOMAIN plan : Inside(plan[i]) \in Seq(Byte)
      BY <2>1, FrameShape
    <3> QED
      BY <2>1, <3>1 DEF Sent, Inside
  <2> QED
    BY <2>1, <2>2, <2>3, <2>4 DEF Remaining
<1> QED
  BY <1>1, ParserInvariant, PTL

(* Every step of the io thread brings the end of the stream nearer: it     *)
(* takes bytes off the wire, out of the buffer, or ends the loop.          *)
Left == 3 * Len(wire) + Len(recvBuf) + IF parsing THEN 1 ELSE 0

THEOREM EveryStepCounts ==
  ASSUME IntactStreams
  PROVE  Spec => [][Left' < Left /\ Left' \in Nat]_vars
<1>1. ASSUME ParserInv, ParserInv', Next PROVE Left' < Left /\ Left' \in Nat
  <2> DEFINE o == Len(wire)  m == Len(recvBuf)  o2 == Len(wire')  m2 == Len(recvBuf')
  <2>1. o \in Nat /\ m \in Nat /\ o2 \in Nat /\ m2 \in Nat
    <3>1. wire \in Seq(Symbol) /\ recvBuf \in Seq(Symbol)
      BY <1>1 DEF ParserInv, Place
    <3>2. wire' \in Seq(Symbol) /\ recvBuf' \in Seq(Symbol)
      BY <1>1 DEF ParserInv, Place
    <3> QED
      BY <3>1, <3>2
  <2>2. Left = 3 * o + m + (IF parsing THEN 1 ELSE 0)
        /\ Left' = 3 * o2 + m2 + (IF parsing' THEN 1 ELSE 0)
    BY DEF Left
  <2>3. CASE Receive
    <3>1. PICK n \in 1..MaxRead :
            /\ n <= Len(wire) /\ recvBuf' = recvBuf \o SubSeq(wire, 1, n)
            /\ wire' = SubSeq(wire, n + 1, Len(wire))
      BY <2>3 DEF Receive
    <3>2. ~parsing /\ parsing'
      BY <2>3 DEF Receive
    <3>3. n \in Nat \ {0} /\ wire \in Seq(Symbol) /\ recvBuf \in Seq(Symbol)
      BY <1>1 DEF ParserInv, Place
    <3>4. o2 = o - n
      BY <2>1, <3>1, <3>3
    <3>5. m2 = m + n
      <4>1. SubSeq(wire, 1, n) \in Seq(Symbol) /\ Len(SubSeq(wire, 1, n)) = n
        BY <3>1, <3>3
      <4> QED
        BY <3>1, <3>3, <4>1
    <3> HIDE DEF o, m, o2, m2
    <3> QED
      BY <2>1, <2>2, <3>2, <3>3, <3>4, <3>5
  <2>4. CASE ParseNext
    <3> DEFINE p == ParseFrame(recvBuf)
    <3>1. parsing /\ recvBuf # <<>> /\ recvBuf' = p.rest /\ wire' = wire
          /\ IF p.frame = <<>> THEN parsing' = FALSE ELSE parsing' = parsing
      BY <2>4 DEF ParseNext
    <3>2. IF p.frame = <<>> THEN Len(p.rest) <= m ELSE Len(p.rest) < m
      <4>1. plan \in Seq(IntactItem) /\ Place(plan, recvBuf, wire, TRUE, Len(delivered))
        <5>1. parsing = TRUE
          BY <1>1, <3>1 DEF ParserInv
        <5> QED
          BY <1>1, <5>1 DEF ParserInv, IntactStreams
      <4> QED
        BY <3>1, <4>1, PlaceParsed
    <3>3. o2 = o /\ m2 = Len(p.rest)
      BY <3>1
    <3> HIDE DEF p, o, m, o2, m2
    <3>4. CASE p.frame = <<>>
      <4>1. o2 = o /\ m2 <= m /\ parsing /\ ~parsing'
        BY <3>1, <3>2, <3>3, <3>4
      <4>2. Left = 3 * o + m + 1 /\ Left' = 3 * o2 + m2 + (IF parsing' THEN 1 ELSE 0)
        BY <2>2, <4>1
      <4> QED
        BY <2>1, <4>1, <4>2
    <3>5. CASE p.frame # <<>>
      <4>1. o2 = o /\ m2 < m /\ parsing /\ parsing'
        BY <3>1, <3>2, <3>3, <3>5
      <4>2. Left = 3 * o + m + 1 /\ Left' = 3 * o2 + m2 + (IF parsing' THEN 1 ELSE 0)
        BY <2>2, <4>1
      <4> QED
        BY <2>1, <4>1, <4>2
    <3> QED
      BY <3>4, <3>5
  <2>5. CASE ParseEnds
    <3>1. parsing /\ ~parsing' /\ o2 = o /\ m2 = m
      BY <2>5 DEF ParseEnds
    <3> HIDE DEF o, m, o2, m2
    <3> QED
      BY <2>1, <2>2, <3>1
  <2> QED
    BY <1>1, <2>3, <2>4, <2>5 DEF Next
<1> QED
  BY <1>1, ParserInvariant, PTL DEF Spec
-----------------------------------------------------------------------------
(* What the checksum notices.                                              *)

(* The largest of finitely many numbers.                                   *)
LEMMA Largest ==
  ASSUME NEW k \in Nat, NEW T \in SUBSET (1..k), T # {}
  PROVE  Max(T) \in T /\ \A y \in T : Max(T) >= y
<1> DEFINE U == {x \in Nat : \A y \in T : y <= x}
<1>1. k \in U
  OBVIOUS
<1>2. PICK x \in U : \A y \in U : x <= y
  BY <1>1, Least
<1>3. x \in T
  <2> SUFFICES ASSUME x \notin T PROVE FALSE
    OBVIOUS
  <2>1. \A y \in T : y <= x - 1
    OBVIOUS
  <2>2. x - 1 \in U
    <3>1. PICK y \in T : y \in 1..k /\ y <= x
      BY <1>2
    <3>2. x - 1 \in Nat
      BY <3>1
    <3> QED
      BY <2>1, <3>2
  <2> QED
    BY <1>2, <2>2
<1>4. \E z \in T : \A y \in T : z >= y
  BY <1>2, <1>3
<1> QED
  BY <1>4 DEF Max

(* The partial sums of a checksum.                                         *)
LEMMA Summed ==
  ASSUME NEW s \in Seq(Byte)
  PROVE  \E g \in [0..Len(s) -> Nat] :
            /\ g[0] = 0
            /\ \A i \in 1..Len(s) : g[i] = g[i - 1] + s[i]
            /\ CalcChecksum(s) = g[Len(s)] % Base
<1> DEFINE n == Len(s)
           Sum(f, T) == IF T = {} THEN 0 ELSE f[T \ {Max(T)}] + s[Max(T)]
           Sums(f, k) == f \in [SUBSET (1..k) -> Nat] /\ \A T \in SUBSET (1..k) : f[T] = Sum(f, T)
           K == {k \in Nat : k <= n => \E f : Sums(f, k)}
           F == CHOOSE f : f = [T \in SUBSET (1..n) |-> Sum(f, T)]
<1>1. n \in Nat /\ \A i \in 1..n : s[i] \in Nat
  BY BaseAssumption DEF Byte
<1>2. CalcChecksum(s) = F[1..n] % Base
  <2>1. DOMAIN s = 1..n
    OBVIOUS
  <2>2. CalcChecksum(s) = FoldLeft(+, 0, s) % Base
    BY DEF CalcChecksum
  <2>3. FoldLeft(+, 0, s) = F[1..n]
    BY <2>1 DEF FoldLeft, MapThenFoldSet
  <2> QED
    BY <2>2, <2>3
<1> HIDE DEF n
<1>3. 0 \in K
  <2>1. SUBSET (1..0) = {{}}
    OBVIOUS
  <2>2. Sums([T \in {{}} |-> 0], 0)
    BY <2>1
  <2> QED
    BY <2>2
<1>4. ASSUME NEW k \in K PROVE k + 1 \in K
  <2>0. k \in Nat /\ k + 1 \in Nat
    BY <1>4
  <2>q. (k + 1 <= n => \E f : Sums(f, k + 1)) => k + 1 \in K
    <3> HIDE DEF Sums
    <3> QED
      BY <2>0, Zenon
  <2> SUFFICES ASSUME k + 1 <= n PROVE \E f : Sums(f, k + 1)
    BY <2>q
  <2>1. PICK f : Sums(f, k)
    <3>1. k <= n
      BY <1>1, <2>0
    <3> HIDE DEF Sums
    <3> QED
      BY <1>4, <3>1, Zenon
  <2> DEFINE all == SUBSET (1..(k + 1))
             h == [T \in all |-> IF k + 1 \in T THEN f[T \ {k + 1}] + s[k + 1] ELSE f[T]]
  <2>2. \A T \in all : T \ {k + 1} \in SUBSET (1..k) /\ (k + 1 \notin T => T \in SUBSET (1..k))
    BY <2>0
  <2>3. \A T \in SUBSET (1..k) : T \in all /\ k + 1 \notin T
    BY <2>0
  <2>4. k + 1 \in 1..n
    BY <1>1, <2>0
  <2>5. h \in [all -> Nat]
    <3> SUFFICES ASSUME NEW T \in all
                 PROVE  (IF k + 1 \in T THEN f[T \ {k + 1}] + s[k + 1] ELSE f[T]) \in Nat
      OBVIOUS
    <3>1. CASE k + 1 \in T
      <4>1. f[T \ {k + 1}] \in Nat /\ s[k + 1] \in Nat
        BY <1>1, <2>1, <2>2, <2>4
      <4> QED
        BY <3>1, <4>1
    <3>2. CASE k + 1 \notin T
      <4>1. f[T] \in Nat
        BY <2>1, <2>2, <3>2
      <4> QED
        BY <3>2, <4>1
    <3> QED
      BY <3>1, <3>2
  <2>6. ASSUME NEW T \in all PROVE h[T] = Sum(h, T)
    <3>1. CASE T = {}
      <4>1. T \in SUBSET (1..k) /\ k + 1 \notin T
        BY <3>1
      <4>2. f[T] = 0
        BY <2>1, <3>1, <4>1
      <4> QED
        BY <3>1, <4>1, <4>2
    <3>2. CASE k + 1 \in T
      <4>1. Max(T) \in T /\ \A y \in T : Max(T) >= y
        BY <2>0, <3>2, Largest
      <4>2. Max(T) = k + 1
        <5>1. Max(T) \in 1..(k + 1) /\ Max(T) >= k + 1
          BY <3>2, <4>1
        <5> HIDE DEF all
        <5> QED
          BY <2>0, <5>1
      <4>3. T \ {k + 1} \in SUBSET (1..k) /\ k + 1 \notin T \ {k + 1} /\ T \ {k + 1} \in all
        BY <2>2, <2>3
      <4>4. h[T \ {k + 1}] = f[T \ {k + 1}]
        BY <4>3
      <4> QED
        BY <3>2, <4>2, <4>4
    <3>3. CASE T # {} /\ k + 1 \notin T
      <4>1. T \in SUBSET (1..k)
        BY <2>2, <3>3
      <4>2. f[T] = f[T \ {Max(T)}] + s[Max(T)]
        BY <2>1, <3>3, <4>1
      <4>3. T \ {Max(T)} \in SUBSET (1..k)
        BY <4>1
      <4>4. h[T] = f[T] /\ h[T \ {Max(T)}] = f[T \ {Max(T)}]
        BY <2>3, <3>3, <4>1, <4>3
      <4> QED
        BY <3>3, <4>2, <4>4
    <3> QED
      BY <3>1, <3>2, <3>3
  <2> QED
    BY <2>5, <2>6
<1>5. n \in K
  <2> HIDE DEF K
  <2>1. K \in SUBSET Nat
    BY DEF K
  <2> QED
    BY <1>1, <1>3, <1>4, <2>1, Induction
<1>6. PICK f : Sums(f, n)
  <2>1. n <= n
    BY <1>1
  <2> HIDE DEF Sums
  <2> QED
    BY <1>5, <2>1, Zenon
<1>7. f = [T \in SUBSET (1..n) |-> Sum(f, T)]
  BY <1>6
<1>8. F = [T \in SUBSET (1..n) |-> Sum(F, T)]
  BY <1>7
<1> HIDE DEF F
<1>9. F[{}] = 0
  BY <1>8
<1>10. ASSUME NEW i \in 1..n PROVE F[1..i] = F[1..(i - 1)] + s[i]
  <2>1. 1..i \in SUBSET (1..n) /\ i \in Nat /\ i \in 1..i
    BY <1>1
  <2>2. Max(1..i) \in 1..i /\ \A y \in 1..i : Max(1..i) >= y
    <3>1. 1..i \in SUBSET (1..i) /\ 1..i # {}
      BY <2>1
    <3> QED
      BY <2>1, <3>1, Largest
  <2>3. Max(1..i) = i
    BY <2>1, <2>2
  <2>4. (1..i) \ {i} = 1..(i - 1)
    BY <2>1
  <2> QED
    BY <1>8, <2>1, <2>3, <2>4
<1> DEFINE g == [i \in 0..n |-> F[1..i]]
           J == {i \in Nat : i <= n => F[1..i] \in Nat}
<1>11. 1..0 = {}
  OBVIOUS
<1>12. 0 \in J
  BY <1>9, <1>11
<1>13. ASSUME NEW j \in J PROVE j + 1 \in J
  <2>1. j \in Nat /\ j + 1 \in Nat /\ (j + 1) - 1 = j /\ (j <= n => F[1..j] \in Nat)
    BY <1>13
  <2> SUFFICES ASSUME j + 1 <= n PROVE F[1..(j + 1)] \in Nat
    BY <2>1
  <2>2. j + 1 \in 1..n /\ j <= n
    BY <1>1, <2>1
  <2>3. F[1..(j + 1)] = F[1..j] + s[j + 1]
    BY <1>10, <2>1, <2>2
  <2> QED
    BY <1>1, <2>1, <2>2, <2>3
<1>14. \A i \in Nat : i \in J
  <2> HIDE DEF J
  <2>1. J \in SUBSET Nat
    BY DEF J
  <2> QED
    BY <1>12, <1>13, <2>1, Induction
<1>15. g \in [0..n -> Nat]
  BY <1>1, <1>14
<1>16. g[0] = 0 /\ g[n] = F[1..n]
  BY <1>1, <1>9, <1>11
<1>17. ASSUME NEW i \in 1..n PROVE g[i] = g[i - 1] + s[i]
  <2>1. i \in 0..n /\ i - 1 \in 0..n
    BY <1>1
  <2> QED
    BY <1>10, <2>1
<1> HIDE DEF g
<1> QED
  BY <1>2, <1>15, <1>16, <1>17 DEF n

LEMMA ChecksumByte == ASSUME NEW s \in Seq(Byte) PROVE CalcChecksum(s) \in Byte
<1>1. PICK g \in [0..Len(s) -> Nat] : CalcChecksum(s) = g[Len(s)] % Base
  BY Summed
<1>2. g[Len(s)] \in Nat
  OBVIOUS
<1>3. ASSUME NEW a \in Nat, NEW b \in Nat \ {0} PROVE a % b \in 0..(b - 1)
  OBVIOUS
<1>4. Base \in Nat \ {0}
  BY BaseAssumption
<1> QED
  BY <1>1, <1>2, <1>3, <1>4 DEF Byte

(* Numbers with the same remainder are the same or a modulus apart.        *)
LEMMA FarApart ==
  ASSUME NEW b \in Nat \ {0}, NEW x \in Nat, NEW y \in Nat, x % b = y % b, x - y < b, y - x < b
  PROVE  x = y
<1> DEFINE p == x \div b  q == y \div b  r == x % b
<1>1. p \in Nat /\ q \in Nat /\ r \in Nat /\ x = b * p + r /\ y = b * q + r
  OBVIOUS
<1> HIDE DEF p, q, r
<1>2. x - y = b * (p - q) /\ y - x = b * (q - p)
  BY <1>1
<1>3. ASSUME NEW m \in Int, m >= 1 PROVE b * m >= b
  BY <1>3
<1>4. ~(p - q >= 1) /\ ~(q - p >= 1)
  <2>1. p - q \in Int /\ q - p \in Int
    BY <1>1
  <2>2. p - q >= 1 => x - y >= b
    BY <1>2, <1>3, <2>1
  <2>3. q - p >= 1 => y - x >= b
    BY <1>2, <1>3, <2>1
  <2> QED
    BY <2>2, <2>3
<1>5. p = q
  BY <1>1, <1>4
<1> QED
  BY <1>1, <1>5

(* The checksum notices any change of one byte.                            *)
LEMMA OneByteOff ==
  ASSUME NEW s \in Seq(Byte), NEW t \in Seq(Byte), Len(s) = Len(t), NEW k \in 1..Len(s),
         s[k] # t[k], \A i \in 1..Len(s) : i # k => s[i] = t[i]
  PROVE  CalcChecksum(s) # CalcChecksum(t)
<1> DEFINE n == Len(s)
<1>1. n \in Nat /\ k \in 1..n /\ k \in Nat
      /\ \A i \in 1..n : s[i] \in Nat /\ t[i] \in Nat /\ (i # k => s[i] = t[i])
  BY BaseAssumption DEF Byte
<1>2. PICK g \in [0..n -> Nat] :
         g[0] = 0 /\ (\A i \in 1..n : g[i] = g[i - 1] + s[i]) /\ CalcChecksum(s) = g[n] % Base
  BY Summed
<1>3. PICK h \in [0..n -> Nat] :
         h[0] = 0 /\ (\A i \in 1..n : h[i] = h[i - 1] + t[i]) /\ CalcChecksum(t) = h[n] % Base
  BY Summed
<1> HIDE DEF n
<1> DEFINE d == s[k] - t[k]
           J == {i \in Nat : i <= n => g[i] = h[i] + (IF i < k THEN 0 ELSE d)}
<1>4. d \in Int /\ d # 0 /\ d < Base /\ -d < Base
  <2>1. s[k] \in Byte /\ t[k] \in Byte
    OBVIOUS
  <2> QED
    BY <2>1, BaseAssumption, SMTT(40) DEF Byte
<1>5. 0 \in J
  BY <1>1, <1>2, <1>3
<1>6. ASSUME NEW j \in J PROVE j + 1 \in J
  <2>1. j \in Nat /\ (j <= n => g[j] = h[j] + (IF j < k THEN 0 ELSE d))
    BY <1>6
  <2> SUFFICES ASSUME j + 1 <= n PROVE g[j + 1] = h[j + 1] + (IF j + 1 < k THEN 0 ELSE d)
    BY <2>1
  <2>2. j + 1 \in 1..n /\ j <= n /\ (j + 1) - 1 = j /\ j \in 0..n
    BY <1>1, <2>1
  <2>3. g[j + 1] = g[j] + s[j + 1] /\ h[j + 1] = h[j] + t[j + 1]
    BY <1>2, <1>3, <2>2
  <2>4. g[j] \in Nat /\ h[j] \in Nat /\ s[j + 1] \in Nat /\ t[j + 1] \in Nat
    BY <1>1, <1>2, <1>3, <2>2
  <2>5. g[j] = h[j] + (IF j < k THEN 0 ELSE d)
    BY <2>1, <2>2
  <2>6. CASE j + 1 = k
    <3>1. s[j + 1] = t[j + 1] + d /\ j < k /\ ~(j + 1 < k)
      <4>1. s[k] \in Nat /\ t[k] \in Nat /\ s[j + 1] = s[k] /\ t[j + 1] = t[k]
        BY <2>4, <2>6
      <4>2. s[k] = t[k] + d
        BY <4>1
      <4> QED
        BY <1>1, <2>1, <2>6, <4>1, <4>2
    <3> HIDE DEF d
    <3> QED
      BY <1>4, <2>3, <2>4, <2>5, <3>1
  <2>7. CASE j + 1 # k
    <3>1. s[j + 1] = t[j + 1] /\ (j < k <=> j + 1 < k)
      BY <1>1, <2>1, <2>2, <2>7
    <3> HIDE DEF d
    <3> QED
      BY <1>4, <2>3, <2>4, <2>5, <3>1
  <2> QED
    BY <2>6, <2>7
<1>7. g[n] = h[n] + d
  <2> HIDE DEF J, d
  <2>1. J \in SUBSET Nat
    BY DEF J
  <2>2. n \in J
    BY <1>1, <1>5, <1>6, <2>1, Induction
  <2> QED
    BY <1>1, <2>2 DEF J
<1>8. g[n] \in Nat /\ h[n] \in Nat
  BY <1>1, <1>2, <1>3
<1> HIDE DEF d
<1>9. g[n] # h[n] /\ g[n] - h[n] < Base /\ h[n] - g[n] < Base
  BY <1>4, <1>7, <1>8
<1> QED
  BY <1>2, <1>3, <1>8, <1>9, FarApart, BaseAssumption

(* parseFrame takes no frame from a buffer that begins with one of which a *)
(* byte is wrong, if it is found at all: the preamble and the length have  *)
(* no protection of their own.                                             *)
THEOREM OneWrongByteIsRefused ==
  ASSUME NEW it \in IntactItem, NEW buf \in Seq(Byte), Len(Frame(it)) <= Len(buf),
         NEW k \in 1..Len(Frame(it)), k \notin {1} \cup 4..7, buf[k] # Frame(it)[k],
         \A i \in 1..Len(Frame(it)) : i # k => buf[i] = Frame(it)[i]
  PROVE  ParseFrame(buf).frame = <<>>
<1> DEFINE t == Len(Frame(it))  c == Inside(it)  seen == SubSeq(buf, 1, t - 1)
<1>1. /\ t \in Nat /\ HeaderSize < t /\ Len(c) = t - 1 /\ c \in Seq(Byte) /\ c[1] = Preamble
      /\ Frame(it) \in Seq(Symbol) /\ \A i \in 1..(t - 1) : Frame(it)[i] = c[i]
      /\ Frame(it)[t] = CalcChecksum(c)
  <2>1. Len(it.body) \in Nat
    BY DEF IntactItem
  <2>2. t = HeaderSize + Len(it.body) + 1 /\ Len(c) = HeaderSize + Len(it.body)
        /\ c \in Seq(Byte) /\ c[1] = Preamble /\ Frame(it) \in Seq(Symbol)
        /\ Frame(it)[t] = CalcChecksum(c)
    BY FrameShape
  <2>3. \A i \in 1..Len(c) : Frame(it)[i] = c[i]
    BY FrameShape
  <2> HIDE DEF t, c
  <2>4. t \in Nat /\ HeaderSize < t /\ Len(c) = t - 1
    BY <2>1, <2>2 DEF HeaderSize
  <2> QED
    BY <2>2, <2>3, <2>4
<1>2. Len(buf) \in Nat /\ t <= Len(buf) /\ k \in 1..t /\ seen \in Seq(Byte) /\ Len(seen) = t - 1 /\ \A i \in 1..(t - 1) : seen[i] = buf[i]
  <2> HIDE DEF c
  <2> QED
    BY <1>1 DEF HeaderSize
<1> HIDE DEF t, c, seen
<1>3. FromPreamble(buf) = buf
  <2> DEFINE at == {i \in DOMAIN buf : buf[i] = Preamble}
  <2>1. 1 \in 1..Len(buf) /\ 1 \in 1..(t - 1) /\ 1 \in 1..t /\ k # 1
    BY <1>1, <1>2 DEF HeaderSize
  <2>2. buf[1] = Preamble
    BY <1>1, <2>1 DEF t
  <2>3. 1 \in at /\ \A j \in at : 1 <= j
    BY <2>1, <2>2
  <2>4. \A i \in at : (\A j \in at : i <= j) => i = 1
    BY <2>1, <2>3
  <2> HIDE DEF at
  <2>5. (CHOOSE i \in at : \A j \in at : i <= j) = 1
    BY <2>3, <2>4
  <2>6. FromPreamble(buf) = SubSeq(buf, 1, Len(buf))
    BY <2>3, <2>5 DEF FromPreamble, at
  <2> QED
    BY <2>6
<1>4. TotalLen(buf) = t
  <2>1. TotalLen(Frame(it)) = t
    <3>1. HeaderSize <= Len(Frame(it))
      BY <1>1 DEF t, HeaderSize
    <3> QED
      BY <1>1, <3>1, LengthRead DEF t
  <2>2. ASSUME NEW i \in 4..7 PROVE buf[i] = Frame(it)[i]
    <3>1. i # k /\ i \in 1..t
      BY <1>1 DEF HeaderSize
    <3> QED
      BY <3>1 DEF t
  <2>3. BodyLen(buf) = BodyLen(Frame(it))
    <3>1. ASSUME NEW S, NEW b \in Seq(S)
          PROVE  /\ SubSeq(b, 4, 7)[1] = b[4] /\ SubSeq(b, 4, 7)[2] = b[5]
                 /\ SubSeq(b, 4, 7)[3] = b[6] /\ SubSeq(b, 4, 7)[4] = b[7]
      OBVIOUS
    <3>2. /\ buf[4] = Frame(it)[4] /\ buf[5] = Frame(it)[5]
          /\ buf[6] = Frame(it)[6] /\ buf[7] = Frame(it)[7]
      BY <2>2
    <3> QED
      BY <1>1, <3>1, <3>2 DEF BodyLen, BigEndian
  <2> QED
    BY <2>1, <2>3 DEF TotalLen
<1>5. ~ChecksumHolds(buf, t)
  <2> SUFFICES ASSUME buf[t] = CalcChecksum(seen) PROVE FALSE
    BY DEF ChecksumHolds, seen
  <2>1. CASE k = t
    <3>1. seen = c
      <4>1. \A i \in 1..(t - 1) : i # k /\ i \in 1..t
        BY <1>1, <1>2, <2>1
      <4>2. \A i \in 1..(t - 1) : seen[i] = c[i]
        BY <1>1, <1>2, <4>1 DEF t
      <4> QED
        BY <1>1, <1>2, <4>2, SeqEqual
    <3> QED
      BY <1>1, <2>1, <3>1
  <2>2. CASE k # t
    <3>1. k \in 1..(t - 1) /\ t \in 1..t
      BY <1>1, <1>2, <2>2 DEF HeaderSize
    <3>2. buf[t] = CalcChecksum(c)
      BY <1>1, <2>2, <3>1 DEF t
    <3>3. seen[k] # c[k]
      BY <1>1, <1>2, <3>1
    <3>4. \A i \in 1..(t - 1) : i # k => seen[i] = c[i]
      <4>1. \A i \in 1..(t - 1) : i \in 1..t
        BY <1>1, <1>2
      <4> QED
        BY <1>1, <1>2, <4>1 DEF t
    <3>5. CalcChecksum(seen) # CalcChecksum(c)
      <4>1. seen \in Seq(Byte) /\ c \in Seq(Byte) /\ Len(seen) = Len(c)
        BY <1>1, <1>2
      <4>2. k \in 1..Len(seen) /\ seen[k] # c[k]
        BY <1>2, <3>1, <3>3
      <4>3. \A i \in 1..Len(seen) : i # k => seen[i] = c[i]
        BY <1>2, <3>4
      <4> QED
        BY <4>1, <4>2, <4>3, OneByteOff
    <3> QED
      BY <3>2, <3>5
  <2> QED
    BY <2>1, <2>2
<1> QED
  <2>1. ~(Len(buf) < HeaderSize) /\ ~(Len(buf) < t)
    BY <1>1, <1>2 DEF HeaderSize
  <2> QED
    BY <1>3, <1>4, <1>5, <2>1 DEF ParseFrame, SkipPreamble
=============================================================================
