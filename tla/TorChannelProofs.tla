--------------------------- MODULE TorChannelProofs --------------------------
(***************************************************************************)
(* Framing over a byte stream, and the channel of the tor-daemon backend:  *)
(* types, Intact and the contract, for any messages, limits, byte alphabet *)
(* and buffer.                                                             *)
(*                                                                         *)
(* The invariant is about bytes no message variable shows: Stream(B) says  *)
(* that the bytes B that are on their way, those the receiver has in its   *)
(* buffers and those of the pipe, hold the frame of every message sent and *)
(* not delivered, each where the one before it ends, and then what is      *)
(* written of the frame of the current send.  A write adds to the end, a   *)
(* read into a buffer leaves B as it is, a delivery takes a frame off the  *)
(* front.  That the frame it takes is the one that was sent needs that the *)
(* header at the front gives back the length of the message, that is, that *)
(* Length undoes Prefix: the digits of a number, by induction.             *)
(*                                                                         *)
(* After a torn frame the stream says nothing of what comes behind it.     *)
(* Received may then grow beyond sent, but only once all of sent has been  *)
(* received: the messages before the tear are at the front.  A reset loses *)
(* what the stream holds and leaves Stream true of it: nothing reads it.   *)
(*                                                                         *)
(* For the handshake, the bytes in front of the frames are those of the    *)
(* reply, and the length of a reply that opens the tunnel is the one its   *)
(* own bytes announce, so the reads of the dialler end where it ends.      *)
(***************************************************************************)
EXTENDS TorChannel, SequenceTheorems, WellFoundedInduction, TLAPS

(***************************************************************************)
(* The prefix: from_be_bytes undoes to_be_bytes.                           *)
(***************************************************************************)
Less == {ss \in Nat \X Nat : ss[1] < ss[2]}

\* The library's fact about < on the naturals.
LEMMA LessIsWellFounded == IsWellFoundedOn(Less, Nat)
  BY NatLessThanWellFounded DEF OpToRel, Less

\* Induction over a set of numbers: the least one outside it cannot exist.
LEMMA Induction ==
  ASSUME NEW S, 0 \in S, \A n \in Nat : n \in S => n + 1 \in S
  PROVE  Nat \subseteq S
<1> DEFINE T == Nat \ S
<1>1. SUFFICES ASSUME T # {} PROVE FALSE
  OBVIOUS
<1>2. \E x \in T : \A y \in T : ~ (<<y, x>> \in Less)
  BY <1>1, LessIsWellFounded, WFMin
<1>3. PICK x \in T : \A y \in T : ~ (<<y, x>> \in Less)
  BY <1>2
<1>4. ASSUME NEW y \in T PROVE ~ (y < x)
  BY <1>3 DEF Less
<1>5. x - 1 \in Nat /\ x - 1 < x
  OBVIOUS
<1> QED
  BY <1>4, <1>5

\* Quotient and remainder of a division by Base.
LEMMA Division ==
  ASSUME NEW x \in Nat
  PROVE  \E q \in Nat, r \in Byte :
           q = x \div Base /\ r = x % Base /\ x = q * Base + r /\ r < Base /\ r \in Nat
<1>1. PICK b \in Nat : b = Base /\ b > 1 /\ b \in Int /\ b > 0
  BY FramingAssumption
<1>2. x = b * (x \div b) + (x % b)
  BY <1>1
<1>3. x \div b \in Nat /\ x % b \in 0 .. b - 1
  BY <1>1
<1>4. PICK q \in Nat, r \in Nat : q = x \div b /\ r = x % b
  BY <1>3
<1>5. x = b * q + r
  BY <1>2, <1>4
<1>6. x = q * b + r
  BY <1>5
<1>7. q = x \div Base /\ r = x % Base /\ r \in Byte /\ r < Base
  BY <1>1, <1>3, <1>4 DEF Byte
<1>8. x = q * Base + r
  BY <1>1, <1>6
<1> QED
  BY <1>7, <1>8

\* They are a number and a byte.
LEMMA Quotient ==
  ASSUME NEW x \in Nat
  PROVE  x \div Base \in Nat /\ x % Base \in Byte
  BY Division

\* The recursive function of Shifted is defined.
LEMMA ShiftedFacts ==
  ASSUME NEW len \in Nat
  PROVE  /\ Shifted(len) \in [0 .. HeaderLen -> Nat]
         /\ Shifted(len)[0] = len
         /\ \A k \in 1 .. HeaderLen : Shifted(len)[k] = Shifted(len)[k - 1] \div Base
<1> DEFINE Eqn(f, n) == f = [k \in 0 .. n |-> IF k = 0 THEN len ELSE f[k - 1] \div Base]
           S == {n \in Nat : \E f : Eqn(f, n)}
           q == Shifted(len)
<1>1. 0 \in S
  <2>1. Eqn([k \in 0 .. 0 |-> len], 0)
    OBVIOUS
  <2> QED
    BY <2>1
<1>2. ASSUME NEW n \in Nat, n \in S PROVE n + 1 \in S
  <2>1. PICK f : Eqn(f, n)
    BY <1>2
  <2> DEFINE g == [k \in 0 .. n + 1 |-> IF k = n + 1 THEN f[n] \div Base ELSE f[k]]
  <2>2. ASSUME NEW k \in 0 .. n + 1
        PROVE  g[k] = IF k = 0 THEN len ELSE g[k - 1] \div Base
    <3>1. CASE k = 0
      BY <2>1, <3>1
    <3>2. CASE k = n + 1
      BY <3>2
    <3>3. CASE k # 0 /\ k # n + 1
      <4>1. k \in 0 .. n /\ k - 1 \in 0 .. n + 1 /\ k - 1 # n + 1
        BY <3>3
      <4>2. f[k] = f[k - 1] \div Base
        BY <2>1, <3>3, <4>1
      <4>3. g[k] = f[k] /\ g[k - 1] = f[k - 1]
        BY <3>3, <4>1
      <4> QED
        BY <3>3, <4>2, <4>3
    <3> QED
      BY <3>1, <3>2, <3>3
  <2>3. Eqn(g, n + 1)
    BY <2>2
  <2>4. \E h : Eqn(h, n + 1)
    <3> HIDE DEF g
    <3> QED
      BY <2>3
  <2> QED
    BY <2>4
<1>3. Nat \subseteq S
  <2> HIDE DEF S
  <2> QED
    BY <1>1, <1>2, Induction
<1>4. Eqn(q, HeaderLen)
  BY <1>3, FramingAssumption DEF Shifted
<1>5. /\ q = [k \in 0 .. HeaderLen |-> q[k]] /\ q[0] = len
      /\ \A k \in 1 .. HeaderLen : q[k] = q[k - 1] \div Base
  <2> HIDE DEF q
  <2>1. HeaderLen \in Nat
    BY FramingAssumption
  <2>2. q = [k \in 0 .. HeaderLen |-> q[k]]
    BY <1>4
  <2>3. \A k \in 0 .. HeaderLen : q[k] = IF k = 0 THEN len ELSE q[k - 1] \div Base
    BY <1>4
  <2>4. 0 \in 0 .. HeaderLen
    BY <2>1
  <2>5. q[0] = len
    BY <2>3, <2>4
  <2>6. ASSUME NEW k \in 1 .. HeaderLen PROVE q[k] = q[k - 1] \div Base
    <3>1. k \in 0 .. HeaderLen /\ k # 0
      BY <2>1
    <3> QED
      BY <2>3, <3>1
  <2> QED
    BY <2>2, <2>5, <2>6
<1> HIDE DEF q
<1>6. Nat \subseteq {k \in Nat : k <= HeaderLen => q[k] \in Nat}
  <2> DEFINE N == {k \in Nat : k <= HeaderLen => q[k] \in Nat}
  <2>1. 0 \in N
    BY <1>5
  <2>2. ASSUME NEW n \in Nat, n \in N PROVE n + 1 \in N
    <3>1. CASE n + 1 <= HeaderLen
      <4>1. n + 1 \in 1 .. HeaderLen /\ (n + 1) - 1 = n /\ n <= HeaderLen
        BY <3>1, FramingAssumption
      <4>2. q[n] \in Nat /\ q[n + 1] = q[n] \div Base
        BY <1>5, <2>2, <4>1
      <4> QED
        BY <4>2, Quotient
    <3> QED
      BY <3>1, FramingAssumption
  <2> HIDE DEF N
  <2>3. Nat \subseteq N
    BY <2>1, <2>2, Induction
  <2> QED
    BY <2>3 DEF N
<1> QED
  BY <1>5, <1>6 DEF q

\* The recursive function of Length is defined.
LEMMA LengthFacts ==
  ASSUME NEW bytes \in Seq(Byte)
  PROVE  \E value \in [0 .. Len(bytes) -> Nat] :
           /\ value[0] = 0 /\ Length(bytes) = value[Len(bytes)]
           /\ \A i \in 1 .. Len(bytes) : value[i] = value[i - 1] * Base + bytes[i]
<1> DEFINE Eqn(f, n) ==
             f = [i \in 0 .. n |-> IF i = 0 THEN 0 ELSE f[i - 1] * Base + bytes[i]]
           S == {n \in Nat : \E f : Eqn(f, n)}
           v == CHOOSE f : Eqn(f, Len(bytes))
<1>1. 0 \in S
  <2>1. Eqn([k \in 0 .. 0 |-> 0], 0)
    OBVIOUS
  <2> QED
    BY <2>1
<1>2. ASSUME NEW n \in Nat, n \in S PROVE n + 1 \in S
  <2>1. PICK f : Eqn(f, n)
    BY <1>2
  <2> DEFINE g == [i \in 0 .. n + 1 |-> IF i = n + 1 THEN f[n] * Base + bytes[n + 1] ELSE f[i]]
  <2>2. ASSUME NEW i \in 0 .. n + 1
        PROVE  g[i] = IF i = 0 THEN 0 ELSE g[i - 1] * Base + bytes[i]
    <3>1. CASE i = 0
      BY <2>1, <3>1
    <3>2. CASE i = n + 1
      BY <3>2
    <3>3. CASE i # 0 /\ i # n + 1
      <4>1. i \in 0 .. n /\ i - 1 \in 0 .. n + 1 /\ i - 1 # n + 1
        BY <3>3
      <4>2. f[i] = f[i - 1] * Base + bytes[i]
        BY <2>1, <3>3, <4>1
      <4>3. g[i] = f[i] /\ g[i - 1] = f[i - 1]
        BY <3>3, <4>1
      <4> QED
        BY <3>3, <4>2, <4>3
    <3> QED
      BY <3>1, <3>2, <3>3
  <2>3. Eqn(g, n + 1)
    BY <2>2
  <2>4. \E h : Eqn(h, n + 1)
    <3> HIDE DEF g
    <3> QED
      BY <2>3
  <2> HIDE DEF Eqn
  <2> QED
    BY <2>4
<1>3. Nat \subseteq S
  <2> HIDE DEF S
  <2> QED
    BY <1>1, <1>2, Induction
<1>4. Eqn(v, Len(bytes)) /\ Length(bytes) = v[Len(bytes)]
  <2>1. \E f : Eqn(f, Len(bytes))
    <3> HIDE DEF Eqn
    <3> QED
      BY <1>3
  <2>2. Eqn(v, Len(bytes))
    <3> HIDE DEF Eqn
    <3> QED
      BY <2>1
  <2>3. Length(bytes) = v[Len(bytes)]
    BY DEF Length
  <2> QED
    BY <2>2, <2>3
<1> HIDE DEF v
<1>5. /\ v = [i \in 0 .. Len(bytes) |-> v[i]] /\ v[0] = 0
      /\ \A i \in 1 .. Len(bytes) : v[i] = v[i - 1] * Base + bytes[i]
  <2>1. v = [i \in 0 .. Len(bytes) |-> IF i = 0 THEN 0 ELSE v[i - 1] * Base + bytes[i]]
    BY <1>4
  <2>2. PICK n \in Nat : n = Len(bytes)
    BY LenProperties
  <2>3. \A i \in 0 .. n : v[i] = IF i = 0 THEN 0 ELSE v[i - 1] * Base + bytes[i]
    BY <2>1, <2>2
  <2>4. v = [i \in 0 .. n |-> v[i]]
    BY <2>1, <2>2
  <2> QED
    BY <2>2, <2>3, <2>4
<1>6. Nat \subseteq {i \in Nat : i <= Len(bytes) => v[i] \in Nat}
  <2> DEFINE N == {i \in Nat : i <= Len(bytes) => v[i] \in Nat}
  <2>1. 0 \in N
    BY <1>5
  <2>2. ASSUME NEW n \in Nat, n \in N PROVE n + 1 \in N
    <3>1. CASE n + 1 <= Len(bytes)
      <4>1. n + 1 \in 1 .. Len(bytes) /\ (n + 1) - 1 = n /\ n <= Len(bytes)
        BY <3>1
      <4>2. v[n] \in Nat /\ v[n + 1] = v[n] * Base + bytes[n + 1]
        BY <1>5, <2>2, <4>1
      <4>3. bytes[n + 1] \in Nat /\ Base \in Nat
        BY <4>1, FramingAssumption DEF Byte
      <4>4. v[n] * Base \in Nat
        BY <4>2, <4>3
      <4> QED
        BY <4>2, <4>3, <4>4
    <3> QED
      BY <3>1
  <2> HIDE DEF N
  <2>3. Nat \subseteq N
    BY <2>1, <2>2, Induction
  <2> QED
    BY <2>3 DEF N
<1>7. v \in [0 .. Len(bytes) -> Nat]
  BY <1>5, <1>6
<1> QED
  BY <1>4, <1>5, <1>7

\* A smaller length fits too.
LEMMA FitsBelow ==
  ASSUME NEW a \in Nat, NEW b, Fits(b), a <= b
  PROVE  Fits(a)
<1>1. b \in Nat /\ Shifted(b)[HeaderLen] = 0 /\ HeaderLen \in Nat \ {0}
  BY FramingAssumption DEF Fits
<1>2. PICK f \in [0 .. HeaderLen -> Nat] :
        /\ f = Shifted(a) /\ f[0] = a
        /\ \A k \in 1 .. HeaderLen : f[k] = f[k - 1] \div Base
  BY ShiftedFacts
<1>3. PICK g \in [0 .. HeaderLen -> Nat] :
        /\ g = Shifted(b) /\ g[0] = b
        /\ \A k \in 1 .. HeaderLen : g[k] = g[k - 1] \div Base
  <2>1. b \in Nat
    BY <1>1
  <2> QED
    BY <2>1, ShiftedFacts
<1> DEFINE N == {k \in Nat : k <= HeaderLen => f[k] <= g[k]}
<1>4. 0 \in N
  BY <1>2, <1>3
<1>5. ASSUME NEW n \in Nat, n \in N PROVE n + 1 \in N
  <2>1. CASE n + 1 <= HeaderLen
    <3>1. PICK k \in 1 .. HeaderLen : k = n + 1 /\ k - 1 = n /\ n \in 0 .. HeaderLen
      BY <1>1, <2>1
    <3>2. PICK x \in Nat, y \in Nat : x = f[n] /\ y = g[n] /\ x <= y
      BY <1>5, <3>1
    <3>3. f[k] = x \div Base /\ g[k] = y \div Base
      BY <1>2, <1>3, <3>1, <3>2
    <3>4. PICK base \in Nat : base = Base /\ base > 1
      BY FramingAssumption
    <3>5. PICK q \in Nat, r \in Byte :
            q = x \div Base /\ x = q * Base + r /\ r < Base /\ r \in Nat
      BY Division
    <3>6. PICK s \in Nat, t \in Byte :
            s = y \div Base /\ y = s * Base + t /\ t < Base /\ t \in Nat
      BY Division
    <3>7. CASE q > s
      <4>1. q * base >= (s + 1) * base
        BY <3>4, <3>7
      <4>2. (s + 1) * base = s * base + base
        BY <3>4
      <4>3. x = q * base + r /\ y = s * base + t /\ t < base
        BY <3>4, <3>5, <3>6
      <4>4. PICK m \in Nat, w \in Nat : m = q * base /\ w = s * base
        OBVIOUS
      <4>5. m >= w + base /\ x = m + r /\ y = w + t
        BY <4>1, <4>2, <4>3, <4>4
      <4> QED
        BY <3>2, <3>4, <3>5, <4>3, <4>5
    <3> QED
      BY <3>1, <3>3, <3>5, <3>6, <3>7
  <2> QED
    BY <2>1
<1>6. HeaderLen \in N
  <2> HIDE DEF N
  <2>1. Nat \subseteq N
    BY <1>4, <1>5, Induction
  <2> QED
    BY <1>1, <2>1
<1>7. f[HeaderLen] \in Nat /\ f[HeaderLen] <= 0
  BY <1>1, <1>3, <1>6
<1> QED
  BY <1>2, <1>7 DEF Fits

\* The receiver reads the length the sender wrote.
LEMMA PrefixFacts ==
  ASSUME NEW len, Fits(len)
  PROVE  /\ Prefix(len) \in Seq(Byte) /\ Len(Prefix(len)) = HeaderLen
         /\ Length(Prefix(len)) = len
<1>1. len \in Nat /\ Shifted(len)[HeaderLen] = 0 /\ HeaderLen \in Nat \ {0}
  BY FramingAssumption DEF Fits
<1> DEFINE q == Shifted(len)
           p == Prefix(len)
<1>2. /\ q \in [0 .. HeaderLen -> Nat] /\ q[0] = len /\ q[HeaderLen] = 0
      /\ \A k \in 1 .. HeaderLen : q[k] = q[k - 1] \div Base
  BY <1>1, ShiftedFacts
<1>3. p = [i \in 1 .. HeaderLen |-> q[HeaderLen - i] % Base]
  BY DEF Prefix
<1> HIDE DEF q, p
<1>4. ASSUME NEW i \in 1 .. HeaderLen
      PROVE  q[HeaderLen - i] \in Nat /\ p[i] = q[HeaderLen - i] % Base /\ p[i] \in Byte
  <2>1. HeaderLen - i \in 0 .. HeaderLen
    BY <1>1
  <2>2. q[HeaderLen - i] \in Nat /\ p[i] = q[HeaderLen - i] % Base
    BY <1>2, <1>3, <2>1
  <2> QED
    BY <2>2, Quotient
<1>5. p \in Seq(Byte) /\ Len(p) = HeaderLen
  BY <1>1, <1>3, <1>4
<1>6. PICK v \in [0 .. HeaderLen -> Nat] :
        /\ v[0] = 0 /\ Length(p) = v[HeaderLen]
        /\ \A i \in 1 .. HeaderLen : v[i] = v[i - 1] * Base + p[i]
  BY <1>5, LengthFacts
<1> DEFINE N == {i \in Nat : i <= HeaderLen => v[i] = q[HeaderLen - i]}
<1>7. 0 \in N
  BY <1>1, <1>2, <1>6
<1>8. ASSUME NEW n \in Nat, n \in N PROVE n + 1 \in N
  <2>1. CASE n + 1 <= HeaderLen
    <3>1. PICK i \in 1 .. HeaderLen : i = n + 1
      BY <2>1, <1>1
    <3>2. v[n] = q[HeaderLen - n] /\ v[i] = v[n] * Base + p[i]
      BY <1>1, <1>6, <1>8, <3>1
    <3>3. /\ HeaderLen - i \in Nat /\ HeaderLen - n \in 1 .. HeaderLen
          /\ (HeaderLen - n) - 1 = HeaderLen - i
      BY <1>1, <3>1
    <3>4. q[HeaderLen - n] = q[HeaderLen - i] \div Base
      BY <1>2, <3>3
    <3>5. PICK x \in Nat : x = q[HeaderLen - i] /\ p[i] = x % Base
      BY <1>4
    <3>6. v[i] = (x \div Base) * Base + (x % Base)
      BY <3>2, <3>4, <3>5
    <3>7. v[i] = q[HeaderLen - i]
      <4>1. PICK y \in Nat, r \in Byte : y = x \div Base /\ r = x % Base /\ x = y * Base + r
        BY Division
      <4> QED
        BY <3>5, <3>6, <4>1
    <3> QED
      BY <3>1, <3>7
  <2> QED
    BY <2>1
<1>9. HeaderLen \in N
  <2> HIDE DEF N
  <2>1. Nat \subseteq N
    BY <1>7, <1>8, Induction
  <2> QED
    BY <2>1, <1>1
<1> QED
  BY <1>1, <1>2, <1>5, <1>6, <1>9 DEF p

\* The receiver reads from a header the length that the sender put there, for every
\* length `new` lets through (to_be_bytes and from_be_bytes in framed.rs).
THEOREM LengthUndoesPrefix == \A len : Fits(len) => Length(Prefix(len)) = len
<1> SUFFICES ASSUME NEW len, Fits(len) PROVE Length(Prefix(len)) = len
  OBVIOUS
<1>1. len \in Nat
  BY DEF Fits
<1> QED
  BY <1>1, PrefixFacts

(***************************************************************************)
(* Sequences, index by index.                                              *)
(***************************************************************************)
\* Two sequences, one behind the other.
LEMMA ConcatFacts ==
  ASSUME NEW S, NEW s \in Seq(S), NEW t \in Seq(S)
  PROVE  /\ s \o t \in Seq(S) /\ Len(s \o t) = Len(s) + Len(t)
         /\ \A i \in 1 .. Len(s) : (s \o t)[i] = s[i]
         /\ \A i \in 1 .. Len(t) : (s \o t)[Len(s) + i] = t[i]
<1>1. Len(s) \in Nat /\ Len(t) \in Nat
  OBVIOUS
<1>2. ASSUME NEW i \in 1 .. Len(t)
      PROVE  Len(s) + i \in 1 .. Len(s) + Len(t) /\ ~(Len(s) + i <= Len(s))
  BY <1>1
<1> QED
  BY <1>1, <1>2, ConcatProperties

\* The first n elements.
LEMMA TakeFacts ==
  ASSUME NEW S, NEW s \in Seq(S), NEW n \in Nat, n <= Len(s)
  PROVE  /\ SubSeq(s, 1, n) \in Seq(S) /\ Len(SubSeq(s, 1, n)) = n
         /\ \A i \in 1 .. n : SubSeq(s, 1, n)[i] = s[i]
<1>1. \A i \in 1 .. n : s[i] \in S
  OBVIOUS
<1> QED
  BY <1>1, SubSeqProperties

\* All but the first n.
LEMMA DropFacts ==
  ASSUME NEW S, NEW s \in Seq(S), NEW n \in Nat, n <= Len(s)
  PROVE  /\ SubSeq(s, n + 1, Len(s)) \in Seq(S)
         /\ Len(SubSeq(s, n + 1, Len(s))) = Len(s) - n
         /\ \A i \in 1 .. Len(s) - n : SubSeq(s, n + 1, Len(s))[i] = s[n + i]
<1>1. PICK l \in Nat : l = Len(s) /\ n <= l
  OBVIOUS
<1>2. \A i \in n + 1 .. l : s[i] \in S
  BY <1>1
<1> DEFINE c == SubSeq(s, n + 1, l)
<1>3. /\ c \in Seq(S) /\ Len(c) = (IF n + 1 <= l THEN l - (n + 1) + 1 ELSE 0)
      /\ \A i \in 1 .. l - (n + 1) + 1 : c[i] = s[(n + 1) + i - 1]
  BY <1>1, <1>2, SubSeqProperties
<1> HIDE DEF c
<1>4. Len(c) = l - n /\ l - (n + 1) + 1 = l - n
  BY <1>1, <1>3
<1>5. \A i \in 1 .. l - n : c[i] = s[n + i]
  BY <1>1, <1>3, <1>4
<1> QED
  BY <1>1, <1>3, <1>4, <1>5 DEF c

\* A frame is the prefix, then the message.
LEMMA FrameFacts ==
  ASSUME NEW m \in Seq(Byte), Fits(Len(m))
  PROVE  /\ Frame(m) \in Seq(Byte) /\ Len(Frame(m)) = HeaderLen + Len(m)
         /\ \A j \in 1 .. HeaderLen : Frame(m)[j] = Prefix(Len(m))[j]
         /\ \A j \in 1 .. Len(m) : Frame(m)[HeaderLen + j] = m[j]
<1>1. PICK q \in Seq(Byte) : q = Prefix(Len(m)) /\ Len(q) = HeaderLen
  BY PrefixFacts
<1>2. Frame(m) = q \o m
  BY <1>1 DEF Frame
<1> QED
  BY <1>1, <1>2, ConcatFacts

\* A stream that begins with the prefix of m announces the length of m.
LEMMA Announced ==
  ASSUME NEW m \in Seq(Byte), Fits(Len(m)), NEW B \in Seq(Byte), HeaderLen <= Len(B),
         \A j \in 1 .. HeaderLen : B[j] = Frame(m)[j]
  PROVE  Length(SubSeq(B, 1, HeaderLen)) = Len(m)
<1>1. HeaderLen \in Nat
  BY FramingAssumption
<1>2. PICK q \in Seq(Byte) : q = Prefix(Len(m)) /\ Len(q) = HeaderLen /\ Length(q) = Len(m)
  BY PrefixFacts
<1>3. \A j \in 1 .. HeaderLen : B[j] = q[j]
  BY <1>2, FrameFacts
<1>4. SubSeq(B, 1, HeaderLen) = q
  <2>1. SubSeq(B, 1, HeaderLen) = [j \in 1 .. HeaderLen |-> B[j]]
    BY <1>1
  <2>2. q = [j \in 1 .. HeaderLen |-> q[j]]
    BY <1>2
  <2> QED
    BY <1>3, <2>1, <2>2
<1> QED
  BY <1>2, <1>4

(***************************************************************************)
(* The stream: what follows the messages delivered are the frames of those *)
(* still to come, then the written part of the current one.                *)
(***************************************************************************)
\* After d bytes of B comes s.
At(B, d, s) == d \in Nat /\ d + Len(s) <= Len(B) /\ \A j \in 1 .. Len(s) : B[d + j] = s[j]

\* The undelivered bytes B, where the frame of the k-th of the messages ms begins
\* after p[k] bytes and n are delivered; w bytes of the frame of m are written.
\* After a torn frame anything may follow.
StreamOf(B, p, ms, n, whole, m, w) ==
  /\ \A k \in 1 .. Len(ms) : p[k + 1] = p[k] + HeaderLen + Len(ms[k])
  /\ \A i, k \in 1 .. Len(ms) + 1 : i <= k => p[i] <= p[k]
  /\ \A k \in n + 1 .. Len(ms) : At(B, p[k] - p[n + 1], Frame(ms[k]))
  /\ whole =>
       /\ n <= Len(ms) /\ p[Len(ms) + 1] - p[n + 1] \in Nat
       /\ Len(B) = (p[Len(ms) + 1] - p[n + 1]) + w
       /\ \A j \in 1 .. w : B[(p[Len(ms) + 1] - p[n + 1]) + j] = Frame(m)[j]

\* Messages as the sender takes them.
Sendable(m) == m \in Seq(Byte) /\ Fits(Len(m))

\* What is in the stream stays there when bytes come behind it.
LEMMA AtExtends ==
  ASSUME NEW B \in Seq(Byte), NEW x \in Seq(Byte), NEW s \in Seq(Byte), NEW d, At(B, d, s)
  PROVE  At(B \o x, d, s)
<1> DEFINE C == B \o x
<1>1. /\ C \in Seq(Byte) /\ Len(C) = Len(B) + Len(x)
      /\ \A j \in 1 .. Len(B) : C[j] = B[j]
  BY ConcatFacts
<1> HIDE DEF C
<1>2. d \in Nat /\ d + Len(s) <= Len(B) /\ \A j \in 1 .. Len(s) : B[d + j] = s[j]
  BY DEF At
<1>3. ASSUME NEW j \in 1 .. Len(s) PROVE C[d + j] = s[j]
  <2>1. d + j \in 1 .. Len(B)
    BY <1>2
  <2> QED
    BY <1>1, <1>2, <2>1
<1> QED
  BY <1>1, <1>2, <1>3 DEF At, C

\* Writing the next bytes x of the current frame.
LEMMA StreamGrows ==
  ASSUME NEW B \in Seq(Byte), NEW p \in [Nat -> Nat], NEW ms \in Seq(Seq(Byte)),
         \A k \in 1 .. Len(ms) : Sendable(ms[k]),
         NEW n \in Nat, NEW whole \in BOOLEAN, NEW m, NEW w \in Nat,
         StreamOf(B, p, ms, n, whole, m, w),
         NEW x \in Seq(Byte), \A j \in 1 .. Len(x) : x[j] = Frame(m)[w + j]
  PROVE  StreamOf(B \o x, p, ms, n, whole, m, w + Len(x))
<1> DEFINE C == B \o x
<1>1. /\ C \in Seq(Byte) /\ Len(C) = Len(B) + Len(x)
      /\ \A j \in 1 .. Len(B) : C[j] = B[j]
      /\ \A j \in 1 .. Len(x) : C[Len(B) + j] = x[j]
  BY ConcatFacts
<1> HIDE DEF C
<1>2. ASSUME NEW k \in n + 1 .. Len(ms) PROVE At(C, p[k] - p[n + 1], Frame(ms[k]))
  <2>1. k \in 1 .. Len(ms)
    OBVIOUS
  <2>2. Frame(ms[k]) \in Seq(Byte)
    BY <2>1, FrameFacts DEF Sendable
  <2>3. At(B, p[k] - p[n + 1], Frame(ms[k]))
    BY DEF StreamOf
  <2> QED
    BY <1>1, <2>2, <2>3, AtExtends DEF C
<1>3. ASSUME whole
      PROVE  /\ n <= Len(ms) /\ p[Len(ms) + 1] - p[n + 1] \in Nat
             /\ Len(C) = (p[Len(ms) + 1] - p[n + 1]) + (w + Len(x))
             /\ \A j \in 1 .. w + Len(x) : C[(p[Len(ms) + 1] - p[n + 1]) + j] = Frame(m)[j]
  <2>1. PICK d \in Nat : d = p[Len(ms) + 1] - p[n + 1]
    BY <1>3 DEF StreamOf
  <2>2. n <= Len(ms) /\ Len(B) = d + w /\ \A j \in 1 .. w : B[d + j] = Frame(m)[j]
    BY <1>3, <2>1 DEF StreamOf
  <2>3. ASSUME NEW j \in 1 .. w + Len(x) PROVE C[d + j] = Frame(m)[j]
    <3>1. CASE j <= w
      BY <1>1, <2>2, <3>1
    <3>2. CASE j > w
      <4>1. PICK i \in 1 .. Len(x) : j = w + i
        BY <3>2
      <4>2. Len(B) + i = d + j
        BY <2>2, <4>1
      <4>3. C[Len(B) + i] = x[i] /\ x[i] = Frame(m)[w + i]
        BY <1>1
      <4> QED
        BY <4>1, <4>2, <4>3
    <3> QED
      BY <3>1, <3>2
  <2>4. Len(C) = d + (w + Len(x))
    BY <1>1, <2>2
  <2> QED
    BY <2>1, <2>2, <2>3, <2>4
<1> QED
  BY <1>1, <1>2, <1>3 DEF StreamOf, C

\* The current frame is whole: its message is one of those to come.
LEMMA StreamCompletes ==
  ASSUME NEW B, NEW p \in [Nat -> Nat], NEW ms, NEW n \in Nat, NEW m, NEW other
  PROVE  /\ B \in Seq(Byte) /\ ms \in Seq(Seq(Byte)) /\ Sendable(m)
         /\ StreamOf(B, p, ms, n, TRUE, m, HeaderLen + Len(m))
         => \E q \in [Nat -> Nat] : StreamOf(B, q, Append(ms, m), n, TRUE, other, 0)
<1>0. SUFFICES ASSUME B \in Seq(Byte), ms \in Seq(Seq(Byte)), Sendable(m),
                      StreamOf(B, p, ms, n, TRUE, m, HeaderLen + Len(m))
               PROVE  \E q \in [Nat -> Nat] : StreamOf(B, q, Append(ms, m), n, TRUE, other, 0)
  OBVIOUS
<1>1. PICK l \in Nat, b \in Nat : l = Len(ms) /\ b = Len(B)
  BY <1>0
<1>2. PICK w \in Nat : /\ w = HeaderLen + Len(m) /\ m \in Seq(Byte)
                      /\ Frame(m) \in Seq(Byte) /\ Len(Frame(m)) = w
  BY <1>0, FrameFacts, FramingAssumption DEF Sendable
<1>3. PICK d \in Nat : /\ d = p[l + 1] - p[n + 1] /\ n <= l /\ b = d + w
                      /\ \A j \in 1 .. w : B[d + j] = Frame(m)[j]
  BY <1>0, <1>1, <1>2 DEF StreamOf
<1> DEFINE t == Append(ms, m)
<1>4. /\ t \in Seq(Seq(Byte)) /\ Len(t) = l + 1 /\ t[l + 1] = m
      /\ \A k \in 1 .. l : t[k] = ms[k]
  BY <1>0, <1>1, <1>2, AppendProperties
<1> HIDE DEF t
<1>5. PICK e \in Nat : e = p[l + 1] + w
  OBVIOUS
<1> DEFINE q == [p EXCEPT ![l + 2] = e]
<1>6. q \in [Nat -> Nat] /\ q[l + 2] = e /\ \A k \in 1 .. l + 1 : q[k] = p[k]
  OBVIOUS
<1> HIDE DEF q
<1>7. ASSUME NEW k \in 1 .. l + 1 PROVE q[k + 1] = q[k] + HeaderLen + Len(t[k])
  <2>1. CASE k \in 1 .. l
    <3>1. p[k + 1] = p[k] + HeaderLen + Len(ms[k]) /\ k + 1 \in 1 .. l + 1
      BY <1>0, <1>1, <2>1 DEF StreamOf
    <3> QED
      BY <1>4, <1>6, <2>1, <3>1
  <2>2. CASE k = l + 1
    <3>1. q[k] = p[l + 1] /\ q[k + 1] = p[l + 1] + (HeaderLen + Len(t[k])) /\ t[k] = m
      BY <1>2, <1>4, <1>5, <1>6, <2>2
    <3>2. HeaderLen \in Nat
      BY FramingAssumption
    <3>3. Len(m) \in Nat
      BY <1>2
    <3>4. p[l + 1] \in Nat
      OBVIOUS
    <3> QED
      BY <3>1, <3>2, <3>3, <3>4
  <2> QED
    BY <2>1, <2>2
<1>8. ASSUME NEW i \in 1 .. l + 2, NEW k \in 1 .. l + 2, i <= k
      PROVE  q[i] <= q[k]
  <2>1. CASE k \in 1 .. l + 1
    <3>1. i \in 1 .. l + 1
      BY <1>8, <2>1
    <3>2. p[i] <= p[k]
      BY <1>0, <1>1, <1>8, <2>1, <3>1 DEF StreamOf
    <3> QED
      BY <1>6, <2>1, <3>1, <3>2
  <2>2. CASE k = l + 2 /\ i \in 1 .. l + 1
    <3>1. l + 1 \in 1 .. l + 1 /\ i <= l + 1
      BY <2>2
    <3>2. p[i] <= p[l + 1]
      BY <1>0, <1>1, <2>2, <3>1 DEF StreamOf
    <3>3. q[k] = e /\ q[i] = p[i]
      BY <1>6, <2>2
    <3>4. p[l + 1] \in Nat /\ p[i] \in Nat
      OBVIOUS
    <3> QED
      BY <1>5, <3>2, <3>3, <3>4
  <2>3. CASE k = l + 2 /\ i = l + 2
    BY <1>6, <2>3
  <2> QED
    BY <2>1, <2>2, <2>3
<1>9. ASSUME NEW k \in n + 1 .. l + 1 PROVE At(B, q[k] - q[n + 1], Frame(t[k]))
  <2>1. n + 1 \in 1 .. l + 1 /\ k \in 1 .. l + 1
    BY <1>3
  <2>2. q[n + 1] = p[n + 1] /\ q[k] = p[k]
    BY <1>6, <2>1
  <2>3. CASE k \in 1 .. l
    <3>1. At(B, p[k] - p[n + 1], Frame(ms[k]))
      BY <1>0, <1>1, <2>3 DEF StreamOf
    <3> QED
      BY <1>4, <2>2, <2>3, <3>1
  <2>4. CASE k = l + 1
    <3>1. d + Len(Frame(m)) <= Len(B)
      BY <1>1, <1>2, <1>3
    <3>2. At(B, d, Frame(m))
      BY <1>2, <1>3, <3>1 DEF At
    <3> QED
      BY <1>3, <1>4, <2>2, <2>4, <3>2
  <2> QED
    BY <2>1, <2>3, <2>4
<1>10. q[l + 2] - q[n + 1] = d + w /\ b = (d + w) + 0 /\ d + w \in Nat
  <2>1. n + 1 \in 1 .. l + 1
    BY <1>3
  <2>2. q[n + 1] = p[n + 1] /\ q[l + 2] = e
    BY <1>6, <2>1
  <2>3. p[l + 1] \in Nat /\ p[n + 1] \in Nat
    OBVIOUS
  <2> QED
    BY <1>3, <1>5, <2>2, <2>3
<1>11. StreamOf(B, q, t, n, TRUE, other, 0)
  <2>1. (l + 1) + 1 = l + 2 /\ n <= l + 1
    BY <1>3
  <2>2. \A j \in 1 .. 0 : B[(q[l + 2] - q[n + 1]) + j] = Frame(other)[j]
    OBVIOUS
  <2> QED
    BY <1>1, <1>4, <1>7, <1>8, <1>9, <1>10, <2>1, <2>2 DEF StreamOf
<1> QED
  BY <1>6, <1>11 DEF t

\* The first len bytes behind a prefix of B that announces as many are x.
Announces(B, ms, m, w, len, x) ==
  /\ B \in Seq(Byte) /\ ms \in Seq(Seq(Byte)) /\ x \in Seq(Byte)
  /\ \A k \in 1 .. Len(ms) : Sendable(ms[k])
  /\ w > 0 => Sendable(m) /\ w < HeaderLen + Len(m)
  /\ HeaderLen + len <= Len(B) /\ len = Length(SubSeq(B, 1, HeaderLen))
  /\ Len(x) = len /\ \A j \in 1 .. len : x[j] = B[HeaderLen + j]

\* Of B the next message x has been taken, and the rest is right.
Advances(B, p, ms, n, whole, m, w, len, x) ==
  /\ StreamOf(SubSeq(B, (HeaderLen + len) + 1, Len(B)), p, ms, n + 1, whole, m, w)
  /\ n < Len(ms) => x = ms[n + 1]
  /\ whole => n < Len(ms)

\* Taking a frame off the stream: of the first HeaderLen bytes and as many as they
\* announce.  On a stream that is not torn it is whole, and the next message.
LEMMA StreamDelivers ==
  ASSUME NEW B, NEW p \in [Nat -> Nat], NEW ms, NEW n \in Nat, NEW whole \in BOOLEAN,
         NEW m, NEW w \in Nat, NEW len \in Nat, NEW x
  PROVE  StreamOf(B, p, ms, n, whole, m, w) /\ Announces(B, ms, m, w, len, x)
         => Advances(B, p, ms, n, whole, m, w, len, x)
<1> DEFINE R == SubSeq(B, (HeaderLen + len) + 1, Len(B))
<1>0. SUFFICES ASSUME B \in Seq(Byte), ms \in Seq(Seq(Byte)), x \in Seq(Byte),
                      \A k \in 1 .. Len(ms) : Sendable(ms[k]),
                      StreamOf(B, p, ms, n, whole, m, w),
                      w > 0 => Sendable(m) /\ w < HeaderLen + Len(m),
                      HeaderLen + len <= Len(B), len = Length(SubSeq(B, 1, HeaderLen)),
                      Len(x) = len, \A j \in 1 .. len : x[j] = B[HeaderLen + j]
               PROVE  /\ StreamOf(R, p, ms, n + 1, whole, m, w)
                      /\ n < Len(ms) => x = ms[n + 1]
                      /\ whole => n < Len(ms)
  BY DEF Announces, Advances
<1>1. PICK l \in Nat, h \in Nat, b \in Nat :
        l = Len(ms) /\ h = HeaderLen /\ h > 0 /\ b = Len(B)
  <2>1. HeaderLen \in Nat /\ HeaderLen > 0
    BY FramingAssumption
  <2>2. ms \in Seq(Seq(Byte)) /\ B \in Seq(Byte)
    BY <1>0
  <2>3. Len(ms) \in Nat /\ Len(B) \in Nat
    BY <2>2, LenProperties
  <2> QED
    BY <2>1, <2>3
<1>2. PICK c \in Nat : c = h + len /\ c <= b /\ HeaderLen + len = c
  BY <1>0, <1>1
<1>3. R \in Seq(Byte) /\ Len(R) = b - c /\ \A i \in 1 .. b - c : R[i] = B[c + i]
  <2>1. B \in Seq(Byte) /\ c <= Len(B) /\ R = SubSeq(B, c + 1, Len(B))
    BY <1>0, <1>1, <1>2
  <2> HIDE DEF R
  <2> QED
    BY <1>1, <2>1, DropFacts
<1> HIDE DEF R
<1>4. ASSUME n < l
      PROVE  len = Len(ms[n + 1]) /\ x = ms[n + 1] /\ p[n + 2] = p[n + 1] + c
  <2>1. n + 1 \in 1 .. l /\ n + 1 \in n + 1 .. l
    BY <1>4
  <2>2. PICK s : s = ms[n + 1] /\ Sendable(s)
    BY <1>0, <1>1, <2>1
  <2>3. PICK ls \in Nat : ls = Len(s)
    BY <2>2 DEF Sendable
  <2>4. Len(Frame(s)) = h + ls /\ \A j \in 1 .. ls : Frame(s)[h + j] = s[j]
    BY <1>1, <2>2, <2>3, FrameFacts DEF Sendable
  <2>5. p[n + 1] - p[n + 1] = 0
    <3>1. p[n + 1] \in Nat
      OBVIOUS
    <3> QED
      BY <3>1
  <2>6. At(B, p[n + 1] - p[n + 1], Frame(s))
    BY <1>0, <1>1, <2>1, <2>2 DEF StreamOf
  <2>7. h + ls <= b /\ \A j \in 1 .. h + ls : B[j] = Frame(s)[j]
    <3>1. 0 + (h + ls) <= b /\ \A j \in 1 .. h + ls : B[0 + j] = Frame(s)[j]
      BY <1>1, <2>4, <2>5, <2>6 DEF At
    <3> QED
      BY <3>1
  <2>8. len = ls
    <3>1. \A j \in 1 .. HeaderLen : B[j] = Frame(s)[j]
      BY <1>1, <2>7
    <3>2. HeaderLen <= Len(B)
      BY <1>1, <2>7
    <3> QED
      BY <1>0, <2>2, <2>3, <3>1, <3>2, Announced DEF Sendable
  <2>9. ASSUME NEW j \in 1 .. len PROVE x[j] = s[j]
    <3>1. h + j \in 1 .. h + ls
      BY <2>8
    <3>2. x[j] = B[h + j]
      BY <1>0, <1>1
    <3> QED
      BY <2>4, <2>7, <2>8, <3>1, <3>2
  <2>10. x = s
    <3>1. s \in Seq(Byte)
      BY <2>2 DEF Sendable
    <3>2. x \in Seq(Byte) /\ Len(x) = len /\ Len(s) = len
      BY <1>0, <2>3, <2>8
    <3> QED
      BY <3>1, <3>2, <2>9, SeqEqual
  <2>11. p[n + 2] = p[n + 1] + c
    <3>1. p[(n + 1) + 1] = p[n + 1] + HeaderLen + Len(s)
      BY <1>0, <1>1, <2>1, <2>2 DEF StreamOf
    <3>2. PICK a \in Nat : a = p[n + 1] /\ (n + 1) + 1 = n + 2
      OBVIOUS
    <3>3. p[n + 2] = a + h + ls
      BY <1>1, <2>3, <3>1, <3>2
    <3> QED
      BY <1>2, <2>8, <3>2, <3>3
  <2> QED
    BY <2>2, <2>3, <2>8, <2>10, <2>11
<1>5. ASSUME whole PROVE n < l
  <2>1. CASE n = l
    <3>1. p[l + 1] - p[n + 1] = 0
      <4>1. p[l + 1] \in Nat
        OBVIOUS
      <4> QED
        BY <2>1, <4>1
    <3>2. b = 0 + w /\ \A j \in 1 .. w : B[0 + j] = Frame(m)[j]
      BY <1>0, <1>1, <1>5, <3>1 DEF StreamOf
    <3>3. b = w /\ \A j \in 1 .. w : B[j] = Frame(m)[j]
      BY <3>2
    <3>4. w >= h + len /\ w > 0
      BY <1>1, <1>2, <3>3
    <3>5. Sendable(m) /\ w < h + Len(m)
      BY <1>0, <1>1, <3>4
    <3>6. \A j \in 1 .. HeaderLen : B[j] = Frame(m)[j]
      <4>1. h <= w
        BY <3>4
      <4> QED
        BY <1>1, <3>3, <4>1
    <3>7. HeaderLen <= Len(B)
      <4>1. h <= w
        BY <3>4
      <4> QED
        BY <1>1, <3>3, <4>1
    <3>8. len = Len(m)
      BY <1>0, <3>5, <3>6, <3>7, Announced DEF Sendable
    <3> QED
      BY <3>4, <3>5, <3>8
  <2>2. n <= l
    BY <1>0, <1>1, <1>5 DEF StreamOf
  <2> QED
    BY <2>1, <2>2
<1>6. ASSUME NEW k \in n + 2 .. l PROVE At(R, p[k] - p[n + 2], Frame(ms[k]))
  <2>1. n < l /\ k \in n + 1 .. l /\ k \in 1 .. l /\ n + 2 \in 1 .. l + 1 /\ k \in 1 .. l + 1
    OBVIOUS
  <2>2. n + 2 <= k
    OBVIOUS
  <2>9. Frame(ms[k]) \in Seq(Byte)
    BY <1>0, <1>1, <2>1, FrameFacts DEF Sendable
  <2>3. PICK lf \in Nat : lf = Len(Frame(ms[k]))
    BY <2>9
  <2> DEFINE f == Frame(ms[k])
  <2> HIDE DEF f
  <2>4. PICK d \in Nat : /\ d = p[k] - p[n + 1] /\ d + lf <= b
                        /\ \A j \in 1 .. lf : B[d + j] = f[j]
    BY <1>0, <1>1, <2>1, <2>3 DEF StreamOf, At, f
  <2>5. p[n + 2] <= p[k]
    BY <1>0, <1>1, <2>1, <2>2 DEF StreamOf
  <2>6. PICK e \in Nat : e = p[k] - p[n + 2] /\ d = e + c
    <3>1. PICK u \in Nat, v \in Nat, z \in Nat : u = p[n + 1] /\ v = p[n + 2] /\ z = p[k]
      OBVIOUS
    <3>2. v = u + c /\ v <= z /\ d = z - u
      BY <1>4, <2>1, <2>4, <2>5, <3>1
    <3>3. z - v \in Nat /\ d = (z - v) + c
      BY <3>2
    <3> QED
      BY <3>1, <3>3
  <2>7. e + lf <= Len(R)
    <3>1. e + lf <= b - c
      BY <2>4, <2>6
    <3> QED
      BY <1>3, <3>1
  <2>8. ASSUME NEW j \in 1 .. lf PROVE R[e + j] = f[j]
    <3>1. e + j \in 1 .. b - c /\ c + (e + j) = d + j
      BY <2>4, <2>6
    <3> QED
      BY <1>3, <2>4, <3>1
  <2> QED
    BY <2>3, <2>6, <2>7, <2>8 DEF At, f
<1>7. ASSUME whole
      PROVE  /\ n + 1 <= l /\ p[l + 1] - p[n + 2] \in Nat
             /\ Len(R) = (p[l + 1] - p[n + 2]) + w
             /\ \A j \in 1 .. w : R[(p[l + 1] - p[n + 2]) + j] = Frame(m)[j]
  <2>1. n < l /\ n + 2 \in 1 .. l + 1 /\ l + 1 \in 1 .. l + 1 /\ n + 2 <= l + 1
    BY <1>5, <1>7
  <2>2. PICK d \in Nat : /\ d = p[l + 1] - p[n + 1] /\ b = d + w
                        /\ \A j \in 1 .. w : B[d + j] = Frame(m)[j]
    BY <1>0, <1>1, <1>7 DEF StreamOf
  <2>3. p[n + 2] <= p[l + 1]
    BY <1>0, <1>1, <2>1 DEF StreamOf
  <2>4. PICK e \in Nat : e = p[l + 1] - p[n + 2] /\ d = e + c
    <3>1. PICK u \in Nat, v \in Nat, z \in Nat : u = p[n + 1] /\ v = p[n + 2] /\ z = p[l + 1]
      OBVIOUS
    <3>2. v = u + c /\ v <= z /\ d = z - u
      BY <1>4, <2>1, <2>2, <2>3, <3>1
    <3>3. z - v \in Nat /\ d = (z - v) + c
      BY <3>2
    <3> QED
      BY <3>1, <3>3
  <2>5. Len(R) = e + w
    <3>1. b - c = e + w
      BY <2>2, <2>4
    <3> QED
      BY <1>3, <3>1
  <2>6. ASSUME NEW j \in 1 .. w PROVE R[e + j] = Frame(m)[j]
    <3>1. e + j \in 1 .. b - c /\ c + (e + j) = d + j
      BY <2>2, <2>4
    <3> QED
      BY <1>3, <2>2, <3>1
  <2> QED
    BY <2>1, <2>4, <2>5, <2>6
<1>8. StreamOf(R, p, ms, n + 1, whole, m, w)
  <2>1. (n + 1) + 1 = n + 2
    OBVIOUS
  <2>2. /\ \A k \in 1 .. Len(ms) : p[k + 1] = p[k] + HeaderLen + Len(ms[k])
        /\ \A i, k \in 1 .. Len(ms) + 1 : i <= k => p[i] <= p[k]
    BY <1>0 DEF StreamOf
  <2> QED
    BY <1>1, <1>6, <1>7, <2>1, <2>2 DEF StreamOf
<1> QED
  BY <1>1, <1>4, <1>5, <1>8

(***************************************************************************)
(* The invariant of a framed channel.                                      *)
(***************************************************************************)
\* A send has bytes of its frame left, and what it has written of it.
Unwritten == sending.busy /\ sending.rest # <<>>
WrittenOf(m, r) == HeaderLen + Len(m) - Len(r)
Written == IF Unwritten THEN WrittenOf(sending.msg, sending.rest) ELSE 0

\* The bytes r are the tail of the frame of m.
IsTail(r, m) ==
  /\ Len(r) <= HeaderLen + Len(m)
  /\ \A j \in 1 .. Len(r) : r[j] = Frame(m)[WrittenOf(m, r) + j]

\* What is left of the current frame is its tail.
CurrentFrame ==
  /\ sending.msg \in Payloads /\ Fits(Len(sending.msg)) /\ ~closed
  /\ IsTail(sending.rest, sending.msg)

\* The sender: every message counted in sent or late, or about to be, was a send;
\* frames are late only behind a torn one.
SenderInv ==
  /\ sends \in 0 .. MaxSends /\ closed \in BOOLEAN /\ torn \in BOOLEAN
  /\ sent \in Seq(Payloads) /\ \A k \in 1 .. Len(sent) : Fits(Len(sent[k]))
  /\ late \in Seq(Payloads) /\ (~torn => late = <<>>)
  /\ sending \in [msg : Seq(Byte), rest : Seq(Byte), busy : BOOLEAN]
  /\ sending.busy => CurrentFrame
  /\ (Len(sent) + Len(late)) + (IF Unwritten THEN 1 ELSE 0) <= sends

\* The undelivered bytes are B.
Stream(B) ==
  \E p \in [Nat -> Nat] :
    StreamOf(B, p, sent, Len(received), ~torn, sending.msg, Written)

\* A tear only weakens what the stream says.
LEMMA StreamTorn ==
  ASSUME NEW B, NEW p, NEW ms, NEW n, NEW m, NEW w, NEW o, NEW v, NEW whole \in BOOLEAN,
         StreamOf(B, p, ms, n, whole, m, w)
  PROVE  StreamOf(B, p, ms, n, FALSE, o, v)
  BY DEF StreamOf

\* With nothing written the current message does not matter.
LEMMA StreamRests ==
  ASSUME NEW B, NEW p, NEW ms, NEW n, NEW m, NEW o, NEW whole \in BOOLEAN,
         StreamOf(B, p, ms, n, whole, m, 0)
  PROVE  StreamOf(B, p, ms, n, whole, o, 0)
<1>1. \A d : \A j \in 1 .. 0 : B[d + j] = Frame(o)[j]
  OBVIOUS
<1> QED
  BY <1>1 DEF StreamOf

\* A send begins: nothing is written yet.
LEMMA SendStep ==
  ASSUME SenderInv, NEW m \in Payloads, Send(m)
  PROVE  SenderInv' /\ \A B : Stream(B) => Stream(B)'
<1>1. /\ sending' = [msg |-> m, rest |-> Frame(m), busy |-> TRUE] /\ sends' = sends + 1
      /\ ~sending.busy /\ ~closed /\ sends < MaxSends /\ Len(m) <= SendMax
      /\ UNCHANGED <<closed, sent, torn, late, pipe, received>>
  BY DEF Send, receiver
<1>2. m \in Seq(Byte) /\ Len(m) \in Nat /\ HeaderLen \in Nat /\ HeaderLen > 0
  BY FramingAssumption
<1>3. Fits(Len(m))
  BY <1>1, <1>2, FitsBelow, FramingAssumption
<1>4. PICK f \in Seq(Byte) : f = Frame(m) /\ Len(f) = HeaderLen + Len(m)
  BY <1>2, <1>3, FrameFacts
<1>5. /\ sending'.msg = m /\ sending'.rest = f /\ sending'.busy /\ f # <<>>
      /\ sending' \in [msg : Seq(Byte), rest : Seq(Byte), busy : BOOLEAN]
  BY <1>1, <1>2, <1>4
<1>6. WrittenOf(m, f) = 0 /\ Len(f) <= HeaderLen + Len(m)
  BY <1>2, <1>4 DEF WrittenOf
<1>7. IsTail(f, m)
  <2>1. ASSUME NEW j \in 1 .. Len(f) PROVE f[j] = Frame(m)[WrittenOf(m, f) + j]
    BY <1>4, <1>6
  <2> QED
    BY <1>6, <2>1 DEF IsTail
<1>8. CurrentFrame'
  BY <1>1, <1>3, <1>5, <1>7 DEF CurrentFrame
<1>9. Unwritten' /\ Written' = 0 /\ Written = 0
  <2>1. Unwritten' /\ ~Unwritten
    BY <1>1, <1>5 DEF Unwritten
  <2> QED
    BY <1>5, <1>6, <2>1 DEF Written
<1>10. SenderInv'
  <2>1. /\ sends \in 0 .. MaxSends /\ Len(sent) + Len(late) <= sends /\ MaxSends \in Nat
        /\ Len(sent) \in Nat /\ Len(late) \in Nat
    BY <1>1, FramingAssumption DEF SenderInv, Unwritten
  <2>2. sends' \in 0 .. MaxSends /\ (Len(sent') + Len(late')) + 1 <= sends'
    BY <1>1, <2>1
  <2> QED
    BY <1>1, <1>5, <1>8, <1>9, <2>2 DEF SenderInv
<1>11. ASSUME NEW B, Stream(B) PROVE Stream(B)'
  BY <1>1, <1>5, <1>9, <1>11, StreamRests DEF Stream, SenderInv
<1> QED
  BY <1>10, <1>11

\* The steps of the sender that write nothing.
LEMMA SilentStep ==
  ASSUME SenderInv, SendDone \/ SendAborts \/ Close
  PROVE  SenderInv' /\ \A B : Stream(B) => Stream(B)'
<1>1. Idle.busy = FALSE /\ Idle \in [msg : Seq(Byte), rest : Seq(Byte), busy : BOOLEAN]
  BY DEF Idle
<1>2. CASE SendDone \/ SendAborts
  <2>1. /\ sending' = Idle /\ UNCHANGED <<sends, closed, sent, late, pipe, received>>
        /\ torn' \in BOOLEAN /\ (torn => torn') /\ (torn' /\ ~torn => HalfWritten)
        /\ sending.busy /\ (~torn' /\ ~torn => sending.rest = <<>> \/ ~HalfWritten)
    BY <1>2 DEF SendDone, SendAborts, receiver, SenderInv, HalfWritten
  <2>2. ~Unwritten' /\ Written' = 0
    BY <1>1, <2>1 DEF Unwritten, Written
  <2>3. SenderInv'
    BY <1>1, <2>1, <2>2, FramingAssumption DEF SenderInv
  <2>4. ASSUME ~torn', ~torn PROVE Written = 0
    <3>1. CASE sending.rest = <<>>
      BY <3>1 DEF Written, Unwritten
    <3>2. CASE sending.rest # <<>>
      <4>1. Len(sending.rest) \in Nat /\ Len(sending.rest) > 0 /\ Len(sending.msg) \in Nat
        BY <3>2 DEF SenderInv
      <4>2. Len(sending.rest) <= HeaderLen + Len(sending.msg) /\ HeaderLen \in Nat
        BY <2>1, FramingAssumption DEF SenderInv, CurrentFrame, IsTail
      <4>3. Len(sending.rest) = HeaderLen + Len(sending.msg)
        BY <2>1, <2>4, <3>2, <4>1, <4>2 DEF HalfWritten
      <4> QED
        BY <4>1, <4>2, <4>3 DEF Written, WrittenOf
    <3> QED
      BY <3>1, <3>2
  <2>5. ASSUME NEW B, Stream(B) PROVE Stream(B)'
    <3>1. PICK p \in [Nat -> Nat] :
            StreamOf(B, p, sent, Len(received), ~torn, sending.msg, Written)
      BY <2>5 DEF Stream
    <3>2. CASE torn'
      <4>1. StreamOf(B, p, sent, Len(received), FALSE, (sending').msg, 0)
        BY <3>1, StreamTorn DEF SenderInv
      <4> QED
        BY <2>1, <2>2, <3>2, <4>1 DEF Stream
    <3>3. CASE ~torn'
      <4>1. StreamOf(B, p, sent, Len(received), ~torn, (sending').msg, 0)
        BY <2>1, <2>4, <3>1, <3>3, StreamRests DEF SenderInv
      <4> QED
        BY <2>1, <2>2, <3>3, <4>1 DEF Stream
    <3> QED
      BY <3>2, <3>3
  <2> QED
    BY <2>3, <2>5
<1>3. CASE Close
  <2>1. /\ ~sending.busy /\ closed' = TRUE
        /\ UNCHANGED <<sends, sending, sent, torn, late, pipe, received>>
    BY <1>3 DEF Close, receiver
  <2>2. Unwritten' = Unwritten /\ Written' = Written
    BY <2>1 DEF Unwritten, Written
  <2> QED
    BY <2>1, <2>2 DEF SenderInv, Stream
<1> QED
  BY <1>2, <1>3

\* A tail r is cut after n bytes: x is next in the frame of m, z is a tail.
Cut(m, r, n, x, z) ==
  /\ WrittenOf(m, r) \in Nat
  /\ x \in Seq(Byte) /\ Len(x) = n
  /\ \A j \in 1 .. n : x[j] = Frame(m)[WrittenOf(m, r) + j]
  /\ z \in Seq(Byte) /\ Len(z) = Len(r) - n
  /\ IsTail(z, m) /\ WrittenOf(m, z) = WrittenOf(m, r) + n
  /\ n = Len(r) => WrittenOf(m, r) + n = HeaderLen + Len(m)

\* Of a tail the first n bytes are the next to write, the others are a tail.
LEMMA TailFacts ==
  ASSUME NEW m, NEW r, NEW n \in Nat, NEW x, NEW z
  PROVE  /\ m \in Seq(Byte) /\ r \in Seq(Byte) /\ n <= Len(r) /\ IsTail(r, m)
         /\ x = SubSeq(r, 1, n) /\ z = SubSeq(r, n + 1, Len(r))
         => Cut(m, r, n, x, z)
<1>0. SUFFICES ASSUME m \in Seq(Byte), r \in Seq(Byte), n <= Len(r), IsTail(r, m),
                      x = SubSeq(r, 1, n), z = SubSeq(r, n + 1, Len(r))
               PROVE  Cut(m, r, n, x, z)
  OBVIOUS
<1>1. PICK h \in Nat, lm \in Nat, lr \in Nat : h = HeaderLen /\ lm = Len(m) /\ lr = Len(r)
  <2>1. m \in Seq(Byte) /\ r \in Seq(Byte)
    BY <1>0
  <2>2. Len(m) \in Nat /\ Len(r) \in Nat
    BY <2>1, LenProperties
  <2>3. HeaderLen \in Nat
    BY FramingAssumption
  <2> QED
    BY <2>2, <2>3
<1>2. lr <= h + lm /\ n <= lr
  BY <1>0, <1>1 DEF IsTail
<1>3. PICK w \in Nat : w = WrittenOf(m, r) /\ w = (h + lm) - lr
  BY <1>1, <1>2 DEF WrittenOf
<1>4. \A j \in 1 .. lr : r[j] = Frame(m)[w + j]
  BY <1>0, <1>1, <1>3 DEF IsTail
<1>5. x \in Seq(Byte) /\ Len(x) = n /\ \A i \in 1 .. n : x[i] = r[i]
  BY <1>0, TakeFacts
<1>6. z \in Seq(Byte) /\ Len(z) = Len(r) - n /\ \A i \in 1 .. Len(r) - n : z[i] = r[n + i]
  BY <1>0, DropFacts
<1>7. PICK lz \in Nat : lz = Len(z) /\ lz = lr - n
  <2>1. lr - n \in Nat
    BY <1>2
  <2>2. Len(z) = lr - n
    BY <1>1, <1>6
  <2> QED
    BY <2>1, <2>2
<1>8. WrittenOf(m, z) = w + n /\ Len(z) <= HeaderLen + Len(m)
  <2>1. (h + lm) - lz = w + n /\ lz <= h + lm
    BY <1>2, <1>3, <1>7
  <2> QED
    BY <1>1, <1>7, <2>1 DEF WrittenOf
<1>9. ASSUME NEW j \in 1 .. lz PROVE z[j] = Frame(m)[WrittenOf(m, z) + j]
  <2>1. n + j \in 1 .. lr /\ w + (n + j) = (w + n) + j
    BY <1>2, <1>7
  <2>2. z[j] = r[n + j]
    BY <1>1, <1>6, <1>7
  <2> QED
    BY <1>4, <1>8, <2>1, <2>2
<1>10. IsTail(z, m)
  BY <1>7, <1>8, <1>9 DEF IsTail
<1>11. ASSUME NEW j \in 1 .. n PROVE x[j] = Frame(m)[w + j]
  <2>1. j \in 1 .. lr
    BY <1>2
  <2> QED
    BY <1>4, <1>5, <2>1
<1>12. n = Len(r) => w + n = HeaderLen + Len(m)
  <2>1. n = lr => w + n = h + lm
    BY <1>2, <1>3
  <2> QED
    BY <1>1, <2>1
<1> QED
  BY <1>3, <1>5, <1>6, <1>8, <1>10, <1>11, <1>12 DEF Cut

\* A write moves bytes of the current frame to the stream.
LEMMA WriteStep ==
  ASSUME NEW n \in 1 .. PipeCap
  PROVE  SenderInv /\ pipe \in Seq(Byte) /\ Len(received) \in Nat /\ Write(n) =>
         /\ SenderInv' /\ sending.busy /\ Len(pipe') <= PipeCap
         /\ \E x \in Seq(Byte) :
              /\ pipe' = pipe \o x
              /\ \A B \in Seq(Byte) : Stream(B) => Stream(B \o x)'
<1>0. SUFFICES ASSUME SenderInv, pipe \in Seq(Byte), Len(received) \in Nat, Write(n)
               PROVE  /\ SenderInv' /\ sending.busy /\ Len(pipe') <= PipeCap
                      /\ \E x \in Seq(Byte) :
                           /\ pipe' = pipe \o x
                           /\ \A B \in Seq(Byte) : Stream(B) => Stream(B \o x)'
  OBVIOUS
<1>1. PICK m, r : m = sending.msg /\ r = sending.rest /\ m \in Seq(Byte) /\ r \in Seq(Byte)
  BY <1>0 DEF SenderInv
<1>2. /\ sending.busy /\ n <= Len(r) /\ n \in Nat /\ n > 0 /\ Len(pipe) + n <= PipeCap
      /\ pipe' = pipe \o SubSeq(r, 1, n)
      /\ sending' = [sending EXCEPT !.rest = SubSeq(r, n + 1, Len(r))]
      /\ sent' = (IF n = Len(r) /\ ~torn THEN Append(sent, m) ELSE sent)
      /\ late' = (IF n = Len(r) /\ torn THEN Append(late, m) ELSE late)
      /\ UNCHANGED <<sends, closed, torn, received>>
  BY <1>0, <1>1 DEF Write, receiver
<1>3. m \in Payloads /\ Fits(Len(m)) /\ ~closed /\ IsTail(r, m)
  BY <1>0, <1>1, <1>2 DEF SenderInv, CurrentFrame
<1>4. PICK x, z : x = SubSeq(r, 1, n) /\ z = SubSeq(r, n + 1, Len(r))
  OBVIOUS
<1>5. /\ WrittenOf(m, r) \in Nat /\ x \in Seq(Byte) /\ Len(x) = n
      /\ \A j \in 1 .. n : x[j] = Frame(m)[WrittenOf(m, r) + j]
      /\ z \in Seq(Byte) /\ Len(z) = Len(r) - n
      /\ IsTail(z, m) /\ WrittenOf(m, z) = WrittenOf(m, r) + n
      /\ n = Len(r) => WrittenOf(m, r) + n = HeaderLen + Len(m)
  <2>1. /\ n \in Nat /\ m \in Seq(Byte) /\ r \in Seq(Byte) /\ n <= Len(r) /\ IsTail(r, m)
        /\ x = SubSeq(r, 1, n) /\ z = SubSeq(r, n + 1, Len(r))
    BY <1>1, <1>2, <1>3, <1>4
  <2>2. n \in Nat
    BY <2>1
  <2>3. Cut(m, r, n, x, z)
    BY <2>1, <2>2, TailFacts
  <2> QED
    BY <2>3 DEF Cut
<1>6. PICK w \in Nat : w = WrittenOf(m, r)
  BY <1>5
<1>7. /\ (sending').msg = m /\ (sending').rest = z /\ (sending').busy
      /\ sending' \in [msg : Seq(Byte), rest : Seq(Byte), busy : BOOLEAN]
  <2>1. sending \in [msg : Seq(Byte), rest : Seq(Byte), busy : BOOLEAN]
    BY <1>0 DEF SenderInv
  <2>2. sending' = [sending EXCEPT !.rest = z] /\ z \in Seq(Byte) /\ sending.msg = m /\ sending.busy
    BY <1>1, <1>2, <1>4, <1>5
  <2> QED
    BY <2>1, <2>2
<1>8. Unwritten /\ Written = w
  <2>1. r # <<>>
    <3>1. r = <<>> => Len(r) = 0
      OBVIOUS
    <3> QED
      BY <1>2, <3>1
  <2> QED
    BY <1>1, <1>2, <1>6, <2>1 DEF Unwritten, Written
<1>9. CurrentFrame'
  BY <1>2, <1>3, <1>5, <1>7 DEF CurrentFrame
<1>10. (Unwritten' <=> n # Len(r)) /\ Written' = (IF n = Len(r) THEN 0 ELSE w + n)
  <2>1. PICK lr \in Nat : lr = Len(r) /\ Len(z) = lr - n
    BY <1>1, <1>5, LenProperties
  <2>2. Len(z) = 0 <=> n = lr
    BY <2>1
  <2>3. z = <<>> <=> Len(z) = 0
    BY <1>5, EmptySeq
  <2>4. Unwritten' <=> n # Len(r)
    BY <1>7, <2>1, <2>2, <2>3 DEF Unwritten
  <2> QED
    BY <1>5, <1>6, <1>7, <2>4 DEF Written
<1>11. /\ sent' \in Seq(Payloads) /\ \A k \in 1 .. Len(sent') : Fits(Len(sent'[k]))
       /\ late' \in Seq(Payloads) /\ (~torn' => late' = <<>>)
       /\ (Len(sent') + Len(late')) + (IF Unwritten' THEN 1 ELSE 0) <= sends
  <2>1. PICK l \in Nat, a \in Nat :
          l = Len(sent) /\ a = Len(late) /\ (l + a) + 1 <= sends /\ l + a <= sends
    <3>1. Len(sent) \in Nat /\ Len(late) \in Nat /\ sends \in Nat
      BY <1>0, LenProperties DEF SenderInv
    <3>2. (Len(sent) + Len(late)) + 1 <= sends
      BY <1>0, <1>8 DEF SenderInv
    <3> QED
      BY <3>1, <3>2
  <2>2. /\ sent \in Seq(Payloads) /\ \A k \in 1 .. l : Fits(Len(sent[k]))
        /\ late \in Seq(Payloads) /\ (~torn => late = <<>>) /\ torn' = torn
    BY <1>0, <1>2, <2>1 DEF SenderInv
  <2>3. CASE n = Len(r) /\ ~torn
    <3>1. /\ sent' \in Seq(Payloads) /\ Len(sent') = l + 1 /\ sent'[l + 1] = m
          /\ \A k \in 1 .. l : sent'[k] = sent[k]
      BY <1>2, <1>3, <2>1, <2>2, <2>3, AppendProperties
    <3>2. ASSUME NEW k \in 1 .. l + 1 PROVE Fits(Len(sent'[k]))
      <4>1. CASE k = l + 1
        BY <1>3, <3>1, <4>1
      <4>2. CASE k \in 1 .. l
        BY <2>2, <3>1, <4>2
      <4> QED
        BY <4>1, <4>2
    <3>3. late' = late /\ Len(late') = a
      BY <1>2, <2>1, <2>3
    <3>4. ~Unwritten' /\ ((l + 1) + a) + 0 <= sends
      BY <1>10, <2>1, <2>3
    <3> QED
      BY <2>2, <3>1, <3>2, <3>3, <3>4
  <2>4. CASE n = Len(r) /\ torn
    <3>1. late' \in Seq(Payloads) /\ Len(late') = a + 1
      BY <1>2, <1>3, <2>1, <2>2, <2>4, AppendProperties
    <3>2. sent' = sent /\ Len(sent') = l
      BY <1>2, <2>1, <2>4
    <3>3. ~Unwritten' /\ (l + (a + 1)) + 0 <= sends
      BY <1>10, <2>1, <2>4
    <3> QED
      BY <2>1, <2>2, <2>4, <3>1, <3>2, <3>3
  <2>5. CASE n # Len(r)
    <3>1. sent' = sent /\ late' = late
      BY <1>2, <2>5
    <3>2. (l + a) + (IF Unwritten' THEN 1 ELSE 0) <= sends
      BY <2>1
    <3> QED
      BY <2>1, <2>2, <3>1, <3>2
  <2> QED
    BY <2>3, <2>4, <2>5
<1>12. SenderInv'
  <2>1. sends \in 0 .. MaxSends /\ closed \in BOOLEAN /\ torn \in BOOLEAN
    BY <1>0 DEF SenderInv
  <2> QED
    BY <1>2, <1>7, <1>9, <1>11, <2>1 DEF SenderInv
<1>13. Len(pipe') <= PipeCap
  <2>1. pipe \in Seq(Byte) /\ pipe' = pipe \o x /\ x \in Seq(Byte)
    BY <1>0, <1>2, <1>4, <1>5
  <2>2. Len(pipe') = Len(pipe) + Len(x)
    BY <2>1, ConcatProperties
  <2> QED
    BY <1>2, <1>5, <2>2
<1>14. sent \in Seq(Seq(Byte)) /\ \A k \in 1 .. Len(sent) : Sendable(sent[k])
  <2>1. PICK l \in Nat : l = Len(sent)
    BY <1>0, LenProperties DEF SenderInv
  <2>2. sent \in Seq(Payloads) /\ \A k \in 1 .. l : Fits(Len(sent[k])) /\ sent[k] \in Payloads
    BY <1>0, <2>1 DEF SenderInv
  <2>3. \A k \in 1 .. l : Sendable(sent[k])
    BY <2>2, FramingAssumption DEF Sendable
  <2>4. sent \in Seq(Seq(Byte))
    BY <2>2, FramingAssumption
  <2> QED
    BY <2>1, <2>3, <2>4
<1>15. Sendable(m) /\ torn \in BOOLEAN /\ (~torn) \in BOOLEAN
  <2>1. Sendable(m)
    BY <1>1, <1>3 DEF Sendable
  <2>2. torn \in BOOLEAN
    BY <1>0 DEF SenderInv
  <2> QED
    BY <2>1, <2>2
<1>16. ASSUME NEW B \in Seq(Byte), Stream(B) PROVE Stream(B \o x)'
  <2>1. PICK p \in [Nat -> Nat], l \in Nat :
          l = Len(received) /\ StreamOf(B, p, sent, l, ~torn, m, w)
    BY <1>0, <1>1, <1>8, <1>16 DEF Stream
  <2>2. PICK C : C = B \o x /\ C \in Seq(Byte)
    BY <1>5, ConcatProperties
  <2>3. \A j \in 1 .. Len(x) : x[j] = Frame(m)[w + j]
    BY <1>5, <1>6
  <2>4. StreamOf(C, p, sent, l, ~torn, m, w + n)
    <3>1. StreamOf(B \o x, p, sent, l, ~torn, m, w + Len(x))
      BY <1>5, <1>14, <1>15, <2>1, <2>3, StreamGrows
    <3> QED
      BY <1>5, <2>2, <3>1
  <2>5. /\ Len(received') = l /\ (sending').msg = m /\ torn' = torn
        /\ Written' = (IF n = Len(r) THEN 0 ELSE w + n)
    BY <1>2, <1>7, <1>10, <2>1
  <2>6. CASE n # Len(r)
    <3>1. sent' = sent /\ Written' = w + n
      BY <1>2, <2>5, <2>6
    <3> QED
      BY <2>2, <2>4, <2>5, <3>1 DEF Stream
  <2>7. CASE n = Len(r) /\ torn
    <3>1. StreamOf(C, p, sent, l, FALSE, m, 0)
      BY <1>15, <2>4, StreamTorn
    <3>2. sent' = sent /\ Written' = 0 /\ (~torn') = FALSE
      BY <1>2, <2>5, <2>7
    <3> QED
      BY <2>2, <2>5, <3>1, <3>2 DEF Stream
  <2>8. CASE n = Len(r) /\ ~torn
    <3>1. StreamOf(C, p, sent, l, TRUE, m, HeaderLen + Len(m))
      BY <1>5, <1>6, <2>4, <2>8
    <3>2. \E q \in [Nat -> Nat] : StreamOf(C, q, Append(sent, m), l, TRUE, m, 0)
      BY <1>14, <1>15, <2>2, <3>1, StreamCompletes
    <3>3. sent' = Append(sent, m) /\ Written' = 0 /\ (~torn') = TRUE
      BY <1>2, <2>5, <2>8
    <3> QED
      BY <2>2, <2>5, <3>2, <3>3 DEF Stream
  <2> QED
    BY <2>6, <2>7, <2>8
<1> QED
  BY <1>2, <1>4, <1>5, <1>12, <1>13, <1>16

(***************************************************************************)
(* A step of the sender.                                                   *)
(***************************************************************************)
PipeOK == pipe \in Seq(Byte) /\ Len(pipe) <= PipeCap

\* A step of the sender appends some bytes x to the stream, and what they are is
\* known: the frames to come, or the current one in part.  An end that has closed
\* writes nothing more.
LEMMA SenderStep ==
  SenderInv /\ PipeOK /\ Len(received) \in Nat /\ SenderNext =>
    /\ SenderInv' /\ PipeOK' /\ UNCHANGED receiver
    /\ closed => closed' /\ pipe' = pipe
    /\ \E x \in Seq(Byte) :
         pipe' = pipe \o x /\ \A B \in Seq(Byte) : Stream(B) => Stream(B \o x)'
<1>0. SUFFICES ASSUME SenderInv, PipeOK, Len(received) \in Nat, SenderNext
               PROVE  /\ SenderInv' /\ PipeOK' /\ UNCHANGED receiver
                      /\ closed => closed' /\ pipe' = pipe
                      /\ \E x \in Seq(Byte) :
                           /\ pipe' = pipe \o x
                           /\ \A B \in Seq(Byte) : Stream(B) => Stream(B \o x)'
  OBVIOUS
<1>1. pipe \in Seq(Byte) /\ Len(pipe) <= PipeCap
  BY <1>0 DEF PipeOK
<1>2. ASSUME SenderInv', \A B : Stream(B) => Stream(B)',
             UNCHANGED <<pipe, receiver>>, closed => closed'
      PROVE  /\ SenderInv' /\ PipeOK' /\ UNCHANGED receiver
             /\ closed => closed' /\ pipe' = pipe
             /\ \E x \in Seq(Byte) :
                  /\ pipe' = pipe \o x
                  /\ \A B \in Seq(Byte) : Stream(B) => Stream(B \o x)'
  <2>1. PipeOK'
    BY <1>1, <1>2 DEF PipeOK
  <2>2. PICK x : x = <<>> /\ x \in Seq(Byte)
    BY EmptySeq
  <2>3. pipe' = pipe \o x
    BY <1>1, <1>2, <2>2, ConcatEmptySeq
  <2>4. ASSUME NEW B \in Seq(Byte), Stream(B) PROVE Stream(B \o x)'
    <3>1. B \o x = B
      BY <2>2, ConcatEmptySeq
    <3> QED
      BY <1>2, <2>4, <3>1
  <2> QED
    BY <1>2, <2>1, <2>2, <2>3, <2>4
<1>3. ASSUME NEW m \in Payloads, Send(m)
      PROVE  SenderInv' /\ (\A B : Stream(B) => Stream(B)') /\ UNCHANGED <<pipe, receiver, closed>>
  BY <1>0, <1>3, SendStep DEF Send
<1>4. ASSUME SendDone \/ SendAborts \/ Close
      PROVE  /\ SenderInv' /\ (\A B : Stream(B) => Stream(B)') /\ UNCHANGED <<pipe, receiver>>
             /\ closed => closed'
  <2>1. UNCHANGED <<pipe, receiver>> /\ (closed => closed')
    BY <1>4 DEF SendDone, SendAborts, Close
  <2> QED
    BY <1>0, <1>4, <2>1, SilentStep
<1>5. ASSUME NEW n \in 1 .. PipeCap, Write(n)
      PROVE  /\ SenderInv' /\ PipeOK' /\ UNCHANGED receiver
             /\ closed => closed' /\ pipe' = pipe
             /\ \E x \in Seq(Byte) :
                  /\ pipe' = pipe \o x
                  /\ \A B \in Seq(Byte) : Stream(B) => Stream(B \o x)'
  <2>1. /\ SenderInv' /\ sending.busy /\ Len(pipe') <= PipeCap
        /\ \E x \in Seq(Byte) :
             /\ pipe' = pipe \o x
             /\ \A B \in Seq(Byte) : Stream(B) => Stream(B \o x)'
    BY <1>0, <1>1, <1>5, WriteStep
  <2>2. ~closed /\ UNCHANGED <<closed, receiver>>
    BY <1>0, <1>5, <2>1 DEF Write, SenderInv, CurrentFrame
  <2>3. pipe' \in Seq(Byte)
    BY <1>1, <2>1, ConcatProperties
  <2> QED
    BY <2>1, <2>2, <2>3 DEF PipeOK
<1>6. CASE \E m \in Payloads : Send(m)
  BY <1>2, <1>3, <1>6
<1>7. CASE \E n \in 1 .. PipeCap : Write(n)
  BY <1>5, <1>7
<1>8. CASE SendDone \/ SendAborts \/ Close
  BY <1>2, <1>4, <1>8
<1> QED
  BY <1>0, <1>6, <1>7, <1>8 DEF SenderNext

(***************************************************************************)
(* A step of the receiver.                                                 *)
(***************************************************************************)
\* The receiver's frame.  A full header is that of a payload that is not, or of
\* a length that was refused; a message that is complete is never kept.
ReceiverInv ==
  /\ recving \in BOOLEAN /\ poisoned \in BOOLEAN /\ sawClosed \in BOOLEAN
  /\ reset \in BOOLEAN
  /\ header \in Seq(Byte) /\ Len(header) <= HeaderLen
  /\ payload \in Seq(Byte) /\ allocated \in 0 .. RecvMax
  /\ received \in Seq(Seq(Byte))
  /\ Len(header) < HeaderLen => allocated = 0 /\ payload = <<>>
  /\ Len(header) = HeaderLen =>
       \/ allocated > 0 /\ allocated = Length(header) /\ Len(payload) < allocated
       \/ poisoned /\ allocated = 0 /\ payload = <<>>
  /\ recving => ~poisoned

\* A Closed is the last answer: the channel is poisoned, or the stream is over.
Quiet == sawClosed => poisoned \/ reset \/ (closed /\ pipe = <<>> /\ header = <<>>)

\* The bytes the receiver holds and those it has yet to read.
Undelivered == (header \o payload) \o pipe

\* The parts of an invariant of both ends.
Sound == SenderInv /\ ReceiverInv /\ PipeOK /\ Intact /\ Quiet

\* The bytes do not mind how they are bracketed.
Associates(s, t, u) == (s \o t) \o u = s \o (t \o u)

LEMMA Associative ==
  ASSUME NEW s \in Seq(Byte), NEW t \in Seq(Byte), NEW u \in Seq(Byte)
  PROVE  Associates(s, t, u)
  BY ConcatAssociative DEF Associates

\* The bytes of two sequences, in a form the steps below can name.
Joins(s, t) ==
  /\ s \o t \in Seq(Byte) /\ Len(s \o t) = Len(s) + Len(t)
  /\ \A i \in 1 .. Len(s) : (s \o t)[i] = s[i]
  /\ \A i \in 1 .. Len(t) : (s \o t)[Len(s) + i] = t[i]

LEMMA JoinFacts ==
  ASSUME NEW s \in Seq(Byte), NEW t \in Seq(Byte)
  PROVE  Joins(s, t)
  BY ConcatFacts DEF Joins

\* A sequence in two pieces.
LEMMA PieceFacts ==
  ASSUME NEW S, NEW a \in Seq(S), NEW b \in Seq(S)
  PROVE  SubSeq(a \o b, 1, Len(a)) = a /\ SubSeq(a \o b, Len(a) + 1, Len(a \o b)) = b
<1> DEFINE c == a \o b
<1>1. PICK la \in Nat, lb \in Nat : la = Len(a) /\ lb = Len(b)
  BY LenProperties
<1>2. /\ c \in Seq(S) /\ Len(c) = la + lb
      /\ \A i \in 1 .. la : c[i] = a[i]
      /\ \A i \in 1 .. lb : c[la + i] = b[i]
  BY <1>1, ConcatFacts
<1> HIDE DEF c
<1>3. SubSeq(c, 1, la) = a
  <2>1. /\ SubSeq(c, 1, la) \in Seq(S) /\ Len(SubSeq(c, 1, la)) = la
        /\ \A i \in 1 .. la : SubSeq(c, 1, la)[i] = c[i]
    BY <1>2, TakeFacts
  <2> QED
    BY <1>1, <1>2, <2>1, SeqEqual
<1>4. SubSeq(c, la + 1, Len(c)) = b
  <2> DEFINE d == SubSeq(c, la + 1, Len(c))
  <2>1. /\ d \in Seq(S) /\ Len(d) = Len(c) - la
        /\ \A i \in 1 .. Len(c) - la : d[i] = c[la + i]
    BY <1>2, DropFacts
  <2>2. Len(c) - la = lb
    BY <1>2
  <2> HIDE DEF d
  <2>3. d = b
    BY <1>1, <1>2, <2>1, <2>2, SeqEqual
  <2> QED
    BY <2>3 DEF d
<1> QED
  BY <1>1, <1>3, <1>4 DEF c

\* And in three.
Pieces(x, y, z) ==
  /\ SubSeq((x \o y) \o z, 1, Len(x)) = x
  /\ SubSeq((x \o y) \o z, Len(x) + 1, Len((x \o y) \o z)) = y \o z

LEMMA PiecesFacts ==
  ASSUME NEW x \in Seq(Byte), NEW y \in Seq(Byte), NEW z \in Seq(Byte)
  PROVE  Pieces(x, y, z)
<1>1. Associates(x, y, z)
  BY Associative
<1>2. PICK d \in Seq(Byte) : d = y \o z
  BY ConcatProperties
<1>3. SubSeq(x \o d, 1, Len(x)) = x /\ SubSeq(x \o d, Len(x) + 1, Len(x \o d)) = d
  BY PieceFacts
<1> QED
  BY <1>1, <1>2, <1>3 DEF Pieces, Associates

\* The same for a cut after n elements.
Splits(s, n, S) ==
  \E x, y \in Seq(S) : /\ x = SubSeq(s, 1, n) /\ y = SubSeq(s, n + 1, Len(s))
                       /\ s = x \o y /\ Len(x) = n /\ Len(y) = Len(s) - n

\* A sequence is its first n elements and the others.
LEMMA SplitFacts ==
  ASSUME NEW S, NEW s \in Seq(S), NEW n \in Nat, n <= Len(s)
  PROVE  Splits(s, n, S)
<1>1. PICK l \in Nat : l = Len(s) /\ n <= l
  BY LenProperties
<1> DEFINE x == SubSeq(s, 1, n)
           y == SubSeq(s, n + 1, Len(s))
<1>2. x \in Seq(S) /\ Len(x) = n
  BY TakeFacts
<1>3. y \in Seq(S) /\ Len(y) = Len(s) - n
  BY DropFacts
<1>4. s = x \o y
  <2>1. 1 \in 1 .. Len(s) + 1 /\ n \in 1 - 1 .. Len(s) /\ Len(s) \in n .. Len(s)
    BY <1>1
  <2>2. x \o y = SubSeq(s, 1, Len(s))
    BY <2>1, ConcatAdjacentSubSeq
  <2> QED
    BY <2>2, SubSeqFull
<1> QED
  BY <1>2, <1>3, <1>4 DEF Splits

\* What is written of the current frame is not all of it.
LEMMA WrittenFacts ==
  SenderInv => /\ Written \in Nat
               /\ Written > 0 => Sendable(sending.msg) /\ Written < HeaderLen + Len(sending.msg)
<1>0. SUFFICES ASSUME SenderInv
               PROVE  /\ Written \in Nat
                      /\ Written > 0 => /\ Sendable(sending.msg)
                                        /\ Written < HeaderLen + Len(sending.msg)
  OBVIOUS
<1>1. CASE ~Unwritten
  BY <1>1 DEF Written
<1>2. CASE Unwritten
  <2>1. CurrentFrame /\ sending.msg \in Seq(Byte) /\ sending.rest \in Seq(Byte) /\ sending.rest # <<>>
    BY <1>0, <1>2 DEF SenderInv, Unwritten
  <2>2. PICK h \in Nat, lm \in Nat : h = HeaderLen /\ lm = Len(sending.msg)
    BY <2>1, FramingAssumption, LenProperties
  <2>3. PICK lr \in Nat : lr = Len(sending.rest) /\ lr > 0
    BY <2>1, EmptySeq
  <2>4. lr <= h + lm /\ Sendable(sending.msg)
    BY <2>1, <2>2, <2>3 DEF CurrentFrame, IsTail, Sendable
  <2>5. Written = (h + lm) - lr
    BY <1>2, <2>2, <2>3 DEF Written, WrittenOf
  <2>6. (h + lm) - lr \in Nat /\ (h + lm) - lr < h + lm
    <3>1. lr > 0
      BY <2>3
    <3>2. lr <= h + lm
      BY <2>4
    <3> QED
      BY <3>1, <3>2
  <2> QED
    BY <2>2, <2>4, <2>5, <2>6
<1> QED
  BY <1>1, <1>2

\* The stream is a header h, the payload f it announces, then y.
Arrives(h, f, y) ==
  /\ h \in Seq(Byte) /\ f \in Seq(Byte) /\ y \in Seq(Byte)
  /\ Len(h) = HeaderLen /\ Len(f) = Length(h)
  /\ Stream((h \o f) \o y)

\* Delivering f is right then.
LEMMA Delivers ==
  ASSUME NEW h, NEW f, NEW y
  PROVE  /\ Arrives(h, f, y)
         /\ SenderInv /\ received \in Seq(Seq(Byte)) /\ Intact
         /\ received' = Append(received, f) /\ UNCHANGED sender
         => /\ Stream(y)' /\ Intact' /\ received' \in Seq(Seq(Byte))
            /\ Len(received) < Len(sent) => f = sent[Len(received) + 1]
<1>0. SUFFICES ASSUME h \in Seq(Byte), f \in Seq(Byte), y \in Seq(Byte),
                      Len(h) = HeaderLen, Len(f) = Length(h),
                      SenderInv, received \in Seq(Seq(Byte)), Intact, Stream((h \o f) \o y),
                      received' = Append(received, f), UNCHANGED sender
               PROVE  /\ Stream(y)' /\ Intact' /\ received' \in Seq(Seq(Byte))
                      /\ Len(received) < Len(sent) => f = sent[Len(received) + 1]
  BY DEF Arrives
<1>1. PICK hl \in Nat, len \in Nat, n \in Nat :
        hl = HeaderLen /\ len = Len(f) /\ n = Len(received) /\ hl = Len(h)
  <2>1. HeaderLen \in Nat
    BY FramingAssumption
  <2>2. f \in Seq(Byte) /\ received \in Seq(Seq(Byte))
    BY <1>0
  <2>3. Len(f) \in Nat /\ Len(received) \in Nat
    BY <2>2, LenProperties
  <2> QED
    BY <1>0, <2>1, <2>3
<1>2. /\ received' \in Seq(Seq(Byte)) /\ Len(received') = n + 1 /\ received'[n + 1] = f
      /\ \A i \in 1 .. n : received'[i] = received[i]
  BY <1>0, <1>1, AppendProperties
<1>3. PICK a, B : a = h \o f /\ B = (h \o f) \o y
  OBVIOUS
<1>4. a \in Seq(Byte) /\ Len(a) = hl + len /\ \A i \in 1 .. len : a[hl + i] = f[i]
  <2>1. h \in Seq(Byte) /\ f \in Seq(Byte)
    BY <1>0
  <2>2. Joins(h, f)
    BY <2>1, JoinFacts
  <2> QED
    BY <1>1, <1>3, <2>2 DEF Joins
<1>5. /\ B \in Seq(Byte) /\ B = a \o y /\ Len(B) = Len(a) + Len(y)
      /\ \A i \in 1 .. Len(a) : B[i] = a[i]
  <2>1. y \in Seq(Byte) /\ B = a \o y
    BY <1>0, <1>3
  <2>2. Joins(a, y)
    BY <1>4, <2>1, JoinFacts
  <2> QED
    BY <2>1, <2>2 DEF Joins
<1>6. SubSeq(B, 1, HeaderLen) = h
  <2>1. h \in Seq(Byte) /\ f \in Seq(Byte) /\ y \in Seq(Byte)
    BY <1>0
  <2>2. PICK g \in Seq(Byte) : g = f \o y
    BY <2>1, ConcatProperties
  <2>3. B = h \o g
    <3>1. Associates(h, f, y)
      BY <2>1, Associative
    <3> QED
      BY <1>3, <2>2, <3>1 DEF Associates
  <2>4. SubSeq(h \o g, 1, Len(h)) = h
    BY <2>1, PieceFacts
  <2> QED
    BY <1>1, <2>3, <2>4
<1>7. SubSeq(B, (HeaderLen + len) + 1, Len(B)) = y
  <2>1. SubSeq(a \o y, Len(a) + 1, Len(a \o y)) = y
    BY <1>0, <1>4, PieceFacts
  <2> QED
    BY <1>1, <1>4, <1>5, <2>1
<1>8. HeaderLen + len <= Len(B)
  <2>1. Len(y) \in Nat
    BY <1>0, LenProperties
  <2> QED
    BY <1>1, <1>4, <1>5, <2>1
<1>9. ASSUME NEW j \in 1 .. len PROVE f[j] = B[HeaderLen + j]
  <2>1. hl + j \in 1 .. hl + len
    OBVIOUS
  <2> QED
    BY <1>1, <1>4, <1>5, <2>1
<1>10. PICK p \in [Nat -> Nat] :
         StreamOf(B, p, sent, n, ~torn, sending.msg, Written)
  BY <1>0, <1>1, <1>3 DEF Stream
<1>11. /\ Written \in Nat
       /\ Written > 0 => Sendable(sending.msg) /\ Written < HeaderLen + Len(sending.msg)
  BY <1>0, WrittenFacts
<1>12. sent \in Seq(Seq(Byte)) /\ \A k \in 1 .. Len(sent) : Sendable(sent[k])
  <2>1. PICK l \in Nat : l = Len(sent)
    BY <1>0, LenProperties DEF SenderInv
  <2>2. sent \in Seq(Payloads) /\ \A k \in 1 .. l : Fits(Len(sent[k])) /\ sent[k] \in Payloads
    BY <1>0, <2>1 DEF SenderInv
  <2>3. \A k \in 1 .. l : Sendable(sent[k])
    BY <2>2, FramingAssumption DEF Sendable
  <2>4. sent \in Seq(Seq(Byte))
    BY <2>2, FramingAssumption
  <2> QED
    BY <2>1, <2>3, <2>4
<1>13. (~torn) \in BOOLEAN
  BY <1>0 DEF SenderInv
<1>14. /\ StreamOf(y, p, sent, n + 1, ~torn, sending.msg, Written)
       /\ n < Len(sent) => f = sent[n + 1]
       /\ ~torn => n < Len(sent)
  <2>1. len = Length(SubSeq(B, 1, HeaderLen)) /\ Len(f) = len
    BY <1>0, <1>1, <1>6
  <2>3. f \in Seq(Byte) /\ \A j \in 1 .. len : f[j] = B[HeaderLen + j]
    BY <1>0, <1>9
  <2>4. Announces(B, sent, sending.msg, Written, len, f)
    <3>1. B \in Seq(Byte) /\ sent \in Seq(Seq(Byte)) /\ f \in Seq(Byte)
      BY <1>5, <1>12, <2>3
    <3> QED
      BY <1>8, <1>11, <1>12, <2>1, <2>3, <3>1 DEF Announces
  <2>5. Written \in Nat
    BY <1>11
  <2>6. Advances(B, p, sent, n, ~torn, sending.msg, Written, len, f)
    BY <1>10, <1>13, <2>4, <2>5, StreamDelivers
  <2> QED
    BY <1>7, <2>6 DEF Advances
<1>15. sent' = sent /\ torn' = torn /\ sending' = sending /\ Written' = Written
  <2>1. sent' = sent /\ torn' = torn /\ sending' = sending
    BY <1>0 DEF sender
  <2> QED
    BY <2>1 DEF Written, Unwritten
<1>16. Stream(y)'
  <2>1. StreamOf(y, p, sent', Len(received'), ~torn', (sending').msg, Written')
    BY <1>2, <1>14, <1>15
  <2> QED
    BY <2>1 DEF Stream
<1>17. Intact'
  <2>1. PICK l \in Nat : l = Len(sent)
    BY <1>12, LenProperties
  <2>2. ASSUME NEW i \in 1 .. n + 1, i <= l PROVE received'[i] = sent[i]
    <3>1. CASE i = n + 1
      BY <1>2, <1>14, <2>1, <2>2, <3>1
    <3>2. CASE i \in 1 .. n
      BY <1>0, <1>1, <1>2, <2>1, <2>2, <3>2 DEF Intact
    <3> QED
      BY <3>1, <3>2
  <2>3. ~torn => n + 1 <= l
    BY <1>14, <2>1
  <2> QED
    BY <1>2, <1>15, <2>1, <2>2, <2>3 DEF Intact
<1> QED
  BY <1>1, <1>2, <1>14, <1>16, <1>17

\* What a step of the receiver shows the application: nothing, a refusal of the
\* stream, a reset, a Closed with nothing left behind, or a message, the next one
\* if it has been sent whole.
Shows ==
  \/ UNCHANGED <<received, poisoned, sawClosed, reset>>
  \/ poisoned' /\ UNCHANGED <<received, sawClosed, reset>>
  \/ sawClosed' /\ reset' /\ UNCHANGED <<received, poisoned>>
  \/ /\ sawClosed' /\ UNCHANGED <<received, poisoned, reset>>
     /\ poisoned \/ reset \/ Len(sent) <= Len(received)
  \/ /\ ~poisoned /\ ~sawClosed /\ ~reset /\ UNCHANGED <<poisoned, sawClosed, reset>>
     /\ \E f \in Seq(Byte) : /\ received' = Append(received, f)
                             /\ Len(received) < Len(sent) => f = sent[Len(received) + 1]

\* Steps that are not the sender's.
LEMMA SenderRests ==
  SenderInv /\ UNCHANGED sender =>
    /\ SenderInv' /\ UNCHANGED <<sends, sending, closed, sent, torn, late>>
    /\ received' = received => (Intact => Intact') /\ \A B : Stream(B) => Stream(B)'
<1>0. SUFFICES ASSUME SenderInv, UNCHANGED sender
               PROVE  /\ SenderInv' /\ UNCHANGED <<sends, sending, closed, sent, torn, late>>
                      /\ received' = received =>
                           (Intact => Intact') /\ \A B : Stream(B) => Stream(B)'
  OBVIOUS
<1>1. UNCHANGED <<sends, sending, closed, sent, torn, late>>
  BY <1>0 DEF sender
<1>2. Unwritten' = Unwritten /\ Written' = Written /\ (CurrentFrame => CurrentFrame')
  BY <1>1 DEF Unwritten, Written, CurrentFrame
<1>3. SenderInv'
  BY <1>0, <1>1, <1>2 DEF SenderInv
<1>4. ASSUME received' = received PROVE (Intact => Intact') /\ \A B : Stream(B) => Stream(B)'
  <2>1. Intact => Intact'
    BY <1>1, <1>4 DEF Intact
  <2>2. \A B : Stream(B) => Stream(B)'
    BY <1>1, <1>2, <1>4 DEF Stream
  <2> QED
    BY <2>1, <2>2
<1> QED
  BY <1>1, <1>3, <1>4

\* A read takes n bytes x off the stream, before any end of it was reported.
LEMMA ReadFacts ==
  ASSUME NEW n \in 1 .. PipeCap
  PROVE  /\ Sound /\ recving /\ ~reset
         /\ n <= Len(pipe) /\ pipe' = SubSeq(pipe, n + 1, Len(pipe))
         =>
         /\ ~poisoned /\ ~sawClosed /\ PipeOK'
         /\ \E x, y \in Seq(Byte) :
              x = SubSeq(pipe, 1, n) /\ y = pipe' /\ pipe = x \o y /\ Len(x) = n
<1>0. SUFFICES ASSUME Sound, recving, ~reset, n <= Len(pipe), pipe' = SubSeq(pipe, n + 1, Len(pipe))
               PROVE  /\ ~poisoned /\ ~sawClosed /\ PipeOK'
                      /\ \E x, y \in Seq(Byte) :
                           x = SubSeq(pipe, 1, n) /\ y = pipe' /\ pipe = x \o y /\ Len(x) = n
  OBVIOUS
<1>1. pipe \in Seq(Byte) /\ Len(pipe) <= PipeCap /\ PipeCap \in Nat
  BY <1>0, FramingAssumption DEF Sound, PipeOK
<1>2. PICK l \in Nat, k \in Nat : l = Len(pipe) /\ k = n /\ k > 0 /\ k <= l /\ l <= PipeCap
  <2>1. Len(pipe) \in Nat
    BY <1>1, LenProperties
  <2> QED
    BY <1>0, <1>1, <2>1
<1>3. \E x, y \in Seq(Byte) : /\ x = SubSeq(pipe, 1, k) /\ y = SubSeq(pipe, k + 1, Len(pipe))
                              /\ pipe = x \o y /\ Len(x) = k /\ Len(y) = Len(pipe) - k
  <2>1. pipe \in Seq(Byte) /\ k <= Len(pipe)
    BY <1>1, <1>2
  <2>2. Splits(pipe, k, Byte)
    BY <2>1, SplitFacts
  <2> QED
    BY <2>2 DEF Splits
<1>4. PICK x \in Seq(Byte), y \in Seq(Byte) :
         x = SubSeq(pipe, 1, n) /\ y = pipe' /\ pipe = x \o y /\ Len(x) = n /\ Len(y) = l - k
  BY <1>0, <1>2, <1>3
<1>5. PipeOK'
  <2>1. pipe' \in Seq(Byte) /\ Len(pipe') = l - k
    BY <1>4
  <2>2. PICK c \in Nat : c = PipeCap
    BY <1>1
  <2>3. l - k <= c
    BY <1>2, <2>2
  <2> QED
    BY <2>1, <2>2, <2>3 DEF PipeOK
<1>6. ~poisoned /\ ~sawClosed
  <2>1. pipe # <<>>
    BY <1>2, EmptySeq
  <2> QED
    BY <1>0, <2>1 DEF Sound, ReceiverInv, Quiet
<1> QED
  BY <1>4, <1>5, <1>6

\* A read into the header.
LEMMA HeaderStep ==
  ASSUME NEW n \in 1 .. PipeCap
  PROVE  Sound /\ Stream(Undelivered) /\ ReadHeader(n) =>
         Sound' /\ Stream(Undelivered)' /\ Shows /\ UNCHANGED sender
<1>0. SUFFICES ASSUME Sound, Stream(Undelivered), ReadHeader(n)
               PROVE  Sound' /\ Stream(Undelivered)' /\ Shows /\ UNCHANGED sender
  OBVIOUS
<1>1. /\ Len(header) < HeaderLen /\ recving /\ ~reset /\ reset' = reset
      /\ n \in 1 .. HeaderLen - Len(header) /\ n <= Len(pipe)
      /\ pipe' = SubSeq(pipe, n + 1, Len(pipe))
      /\ UNCHANGED sender /\ sawClosed' = sawClosed
  BY <1>0 DEF ReadHeader, Reads
<1>2. ~poisoned /\ ~sawClosed /\ PipeOK'
  BY <1>0, <1>1, ReadFacts
<1>3. PICK x \in Seq(Byte), y \in Seq(Byte) :
        x = SubSeq(pipe, 1, n) /\ y = pipe' /\ pipe = x \o y /\ Len(x) = n
  BY <1>0, <1>1, ReadFacts
<1>4. /\ header \in Seq(Byte) /\ payload = <<>> /\ allocated = 0
      /\ received \in Seq(Seq(Byte)) /\ SenderInv /\ Intact
  BY <1>0, <1>1 DEF Sound, ReceiverInv
<1>5. PICK h \in Seq(Byte) : h = header \o SubSeq(pipe, 1, n) /\ Len(h) = Len(header) + n
  <2>1. header \o x \in Seq(Byte) /\ Len(header \o x) = Len(header) + Len(x)
    BY <1>3, <1>4, ConcatProperties
  <2> QED
    BY <1>3, <2>1
<1>6. Len(h) <= HeaderLen
  <2>1. Len(header) \in Nat /\ HeaderLen \in Nat
    BY <1>4, FramingAssumption, LenProperties
  <2> QED
    BY <1>1, <1>5, <2>1
<1>7. Undelivered = h \o y
  <2>1. (header \o <<>>) \o pipe = header \o (x \o y)
    BY <1>3, <1>4, ConcatEmptySeq
  <2>2. Associates(header, x, y)
    BY <1>3, <1>4, Associative
  <2> QED
    BY <1>3, <1>4, <1>5, <2>1, <2>2 DEF Undelivered, Associates
<1>8. /\ SenderInv' /\ UNCHANGED <<sends, sending, closed, sent, torn, late>>
      /\ received' = received => Intact' /\ Stream(h \o y)'
  BY <1>0, <1>1, <1>4, <1>7, SenderRests
<1>9. Length(h) \in Nat /\ RecvMax \in Nat /\ HeaderLen \in Nat /\ HeaderLen > 0
  <2>1. Length(h) \in Nat
    <3>1. PICK value \in [0 .. Len(h) -> Nat] : Length(h) = value[Len(h)]
      BY LengthFacts
    <3>2. Len(h) \in 0 .. Len(h)
      BY LenProperties
    <3> QED
      BY <3>1, <3>2
  <2> QED
    BY <2>1, FramingAssumption DEF Fits
<1>20. recving = TRUE /\ poisoned = FALSE /\ 0 \in 0 .. RecvMax
  BY <1>0, <1>1, <1>2, <1>9 DEF Sound, ReceiverInv
<1>10. CASE /\ header' = h /\ UNCHANGED <<payload, received>>
            /\ recving' \in BOOLEAN /\ (poisoned' => ~recving') /\ poisoned' \in BOOLEAN
            /\ allocated' \in 0 .. RecvMax
            /\ Len(h) < HeaderLen => allocated' = 0
            /\ Len(h) = HeaderLen => \/ allocated' > 0 /\ allocated' = Length(h)
                                     \/ poisoned' /\ allocated' = 0
  <2>1. Undelivered' = h \o y
    <3>1. h \o <<>> = h
      BY ConcatEmptySeq
    <3> QED
      BY <1>3, <1>4, <1>10, <3>1 DEF Undelivered
  <2>2. Stream(Undelivered)'
    BY <1>8, <1>10, <2>1 DEF Stream
  <2>3. ReceiverInv'
    <3>1. sawClosed' \in BOOLEAN /\ reset' \in BOOLEAN
          /\ payload' = <<>> /\ payload' \in Seq(Byte) /\ Len(payload') = 0
      BY <1>0, <1>1, <1>4, <1>10, EmptySeq DEF Sound, ReceiverInv
    <3>2. allocated' > 0 => Len(payload') < allocated'
      BY <3>1
    <3> QED
      BY <1>4, <1>6, <1>10, <3>1, <3>2 DEF ReceiverInv
  <2>4. Quiet'
    BY <1>1, <1>2 DEF Quiet
  <2>5. Shows
    <3>1. poisoned' \/ poisoned' = poisoned
      BY <1>10, <1>20
    <3> QED
      BY <1>1, <1>10, <3>1 DEF Shows
  <2> QED
    BY <1>1, <1>2, <1>8, <1>10, <2>2, <2>3, <2>4, <2>5 DEF Sound
<1>11. CASE Len(h) = HeaderLen /\ Length(h) = 0 /\ Deliver(<<>>) /\ UNCHANGED poisoned
  <2>1. /\ received' = Append(received, <<>>) /\ recving' = FALSE
        /\ header' = <<>> /\ payload' = <<>> /\ allocated' = 0
    BY <1>11 DEF Deliver
  <2>2. PICK f \in Seq(Byte) : f = <<>> /\ Len(f) = 0
    BY EmptySeq
  <2>3. h \o f = h /\ f \o f = f /\ f \o y = y
    BY <2>2, ConcatEmptySeq
  <2>4. Stream((h \o f) \o y)
    BY <1>0, <1>7, <2>3
  <2>5. /\ Stream(y)' /\ Intact' /\ received' \in Seq(Seq(Byte))
        /\ Len(received) < Len(sent) => f = sent[Len(received) + 1]
    <3>1. Arrives(h, f, y)
      BY <1>11, <2>2, <2>4 DEF Arrives
    <3>2. /\ SenderInv /\ received \in Seq(Seq(Byte)) /\ Intact
          /\ received' = Append(received, f) /\ UNCHANGED sender
      BY <1>1, <1>4, <2>1, <2>2
    <3> QED
      BY <3>1, <3>2, Delivers
  <2>6. Undelivered' = y
    BY <1>3, <2>1, <2>2, <2>3 DEF Undelivered
  <2>7. Stream(Undelivered)'
    BY <2>5, <2>6 DEF Stream
  <2>8. ReceiverInv'
    <3>1. sawClosed' \in BOOLEAN /\ poisoned' \in BOOLEAN /\ reset' \in BOOLEAN
      BY <1>0, <1>1, <1>11 DEF Sound, ReceiverInv
    <3>2. Len(header') < HeaderLen /\ Len(header') = 0
      BY <1>9, <2>1, <2>2
    <3> QED
      <4>1. /\ header' \in Seq(Byte) /\ Len(header') <= HeaderLen /\ payload' \in Seq(Byte)
            /\ ~(Len(header') = HeaderLen) /\ allocated' \in 0 .. RecvMax
        BY <1>9, <1>20, <2>1, <2>2, <3>2
      <4> QED
        BY <2>1, <2>5, <3>1, <4>1 DEF ReceiverInv
  <2>9. Quiet'
    BY <1>1, <1>2 DEF Quiet
  <2>10. Shows
    BY <1>1, <1>2, <1>11, <2>1, <2>2, <2>5 DEF Shows
  <2> QED
    BY <1>1, <1>2, <1>8, <2>5, <2>7, <2>8, <2>9, <2>10 DEF Sound
<1>12. \/ /\ Len(h) < HeaderLen /\ header' = h
          /\ UNCHANGED <<recving, allocated, payload, poisoned, received>>
       \/ /\ Len(h) = HeaderLen /\ header' = h /\ poisoned' = TRUE /\ recving' = FALSE
          /\ UNCHANGED <<allocated, payload, received>>
       \/ /\ Len(h) = HeaderLen /\ LengthAllowed(Length(h)) /\ Length(h) > 0
          /\ header' = h /\ allocated' = Length(h)
          /\ UNCHANGED <<recving, payload, poisoned, received>>
       \/ Len(h) = HeaderLen /\ Length(h) = 0 /\ Deliver(<<>>) /\ UNCHANGED poisoned
  BY <1>0, <1>5 DEF ReadHeader
<1>14. CASE /\ Len(h) < HeaderLen /\ header' = h
            /\ UNCHANGED <<recving, allocated, payload, poisoned, received>>
  <2>1. ~(Len(h) = HeaderLen)
    BY <1>9, <1>14
  <2> QED
    BY <1>4, <1>10, <1>20, <1>14, <2>1
<1>15. CASE /\ Len(h) = HeaderLen /\ header' = h /\ poisoned' = TRUE /\ recving' = FALSE
            /\ UNCHANGED <<allocated, payload, received>>
  BY <1>4, <1>10, <1>20, <1>15
<1>16. CASE /\ Len(h) = HeaderLen /\ LengthAllowed(Length(h)) /\ Length(h) > 0
            /\ header' = h /\ allocated' = Length(h)
            /\ UNCHANGED <<recving, payload, poisoned, received>>
  <2>1. allocated' \in 0 .. RecvMax /\ ~(Len(h) < HeaderLen)
    BY <1>9, <1>16 DEF LengthAllowed
  <2> QED
    BY <1>10, <1>20, <1>16, <2>1
<1> QED
  BY <1>11, <1>12, <1>14, <1>15, <1>16

\* A read into the payload.
LEMMA PayloadStep ==
  ASSUME NEW n \in 1 .. PipeCap
  PROVE  Sound /\ Stream(Undelivered) /\ ReadPayload(n) =>
         Sound' /\ Stream(Undelivered)' /\ Shows /\ UNCHANGED sender
<1>0. SUFFICES ASSUME Sound, Stream(Undelivered), ReadPayload(n)
               PROVE  Sound' /\ Stream(Undelivered)' /\ Shows /\ UNCHANGED sender
  OBVIOUS
<1>1. /\ Len(header) = HeaderLen /\ recving /\ ~reset
      /\ n \in 1 .. allocated - Len(payload) /\ n <= Len(pipe)
      /\ pipe' = SubSeq(pipe, n + 1, Len(pipe))
      /\ UNCHANGED <<sender, poisoned, sawClosed, reset>>
  BY <1>0 DEF ReadPayload, Reads
<1>2. ~poisoned /\ ~sawClosed /\ PipeOK'
  BY <1>0, <1>1, ReadFacts
<1>3. PICK x \in Seq(Byte), y \in Seq(Byte) :
        x = SubSeq(pipe, 1, n) /\ y = pipe' /\ pipe = x \o y /\ Len(x) = n
  BY <1>0, <1>1, ReadFacts
<1>4. /\ header \in Seq(Byte) /\ payload \in Seq(Byte)
      /\ received \in Seq(Seq(Byte)) /\ SenderInv /\ Intact
  BY <1>0 DEF Sound, ReceiverInv
<1>5. /\ allocated > 0 /\ allocated = Length(header) /\ Len(payload) < allocated
      /\ allocated \in 0 .. RecvMax /\ recving = TRUE /\ poisoned = FALSE /\ sawClosed = FALSE
  BY <1>0, <1>1, <1>2 DEF Sound, ReceiverInv
<1>6. PICK g \in Seq(Byte) : g = payload \o SubSeq(pipe, 1, n)
  <2>1. payload \o x \in Seq(Byte)
    BY <1>3, <1>4, ConcatProperties
  <2> QED
    BY <1>3, <2>1
<1>7. Undelivered = (header \o g) \o y
  <2>1. PICK a \in Seq(Byte) : a = header \o payload
    BY <1>4, ConcatProperties
  <2>2. a \o (x \o y) = (a \o x) \o y
    <3>1. Associates(a, x, y)
      BY Associative
    <3> QED
      BY <3>1 DEF Associates
  <2>3. a \o x = header \o g
    <3>1. PICK q \in Seq(Byte), r \in Seq(Byte) : q = header /\ r = payload
      BY <1>4
    <3>2. Associates(q, r, x)
      BY Associative
    <3> QED
      BY <1>3, <1>6, <2>1, <3>1, <3>2 DEF Associates
  <2> QED
    BY <1>3, <2>1, <2>2, <2>3 DEF Undelivered
<1>8. /\ SenderInv' /\ UNCHANGED <<sends, sending, closed, sent, torn, late>>
      /\ received' = received => Intact' /\ Stream(Undelivered)
  <2>1. UNCHANGED sender
    BY <1>1
  <2> QED
    BY <1>0, <1>4, <2>1, SenderRests
<1>9. HeaderLen \in Nat /\ HeaderLen > 0 /\ RecvMax \in Nat
  BY FramingAssumption DEF Fits
<1>10. \/ /\ Len(g) < allocated /\ payload' = g
          /\ UNCHANGED <<recving, header, allocated, received>>
       \/ Len(g) = allocated /\ Deliver(g)
  BY <1>0, <1>6 DEF ReadPayload
<1>11. CASE /\ Len(g) < allocated /\ payload' = g
            /\ UNCHANGED <<recving, header, allocated, received>>
  <2>1. Undelivered' = Undelivered
    BY <1>3, <1>7, <1>11 DEF Undelivered
  <2>2. Stream(Undelivered)'
    <3>1. UNCHANGED sender
      BY <1>1
    <3>2. \A B : Stream(B) => Stream(B)'
      BY <1>4, <1>11, <3>1, SenderRests
    <3> QED
      BY <1>0, <2>1, <3>2 DEF Stream
  <2>3. ReceiverInv'
    BY <1>0, <1>1, <1>4, <1>5, <1>9, <1>11 DEF Sound, ReceiverInv
  <2>4. Quiet' /\ Shows
    BY <1>1, <1>2, <1>11 DEF Quiet, Shows
  <2> QED
    BY <1>1, <1>2, <1>8, <1>11, <2>2, <2>3, <2>4 DEF Sound
<1>12. CASE Len(g) = allocated /\ Deliver(g)
  <2>1. /\ received' = Append(received, g) /\ recving' = FALSE
        /\ header' = <<>> /\ payload' = <<>> /\ allocated' = 0
    BY <1>12 DEF Deliver
  <2>2. PICK f \in Seq(Byte) : f = <<>> /\ Len(f) = 0
    BY EmptySeq
  <2>3. f \o f = f /\ f \o y = y
    BY <2>2, ConcatEmptySeq
  <2>4. /\ Stream(y)' /\ Intact' /\ received' \in Seq(Seq(Byte))
        /\ Len(received) < Len(sent) => g = sent[Len(received) + 1]
    <3>1. Arrives(header, g, y)
      BY <1>0, <1>1, <1>4, <1>5, <1>7, <1>12 DEF Arrives
    <3>2. /\ SenderInv /\ received \in Seq(Seq(Byte)) /\ Intact
          /\ received' = Append(received, g) /\ UNCHANGED sender
      BY <1>1, <1>4, <2>1
    <3> QED
      BY <3>1, <3>2, Delivers
  <2>5. Undelivered' = y
    BY <1>3, <2>1, <2>2, <2>3 DEF Undelivered
  <2>6. Stream(Undelivered)'
    BY <2>4, <2>5 DEF Stream
  <2>7. ReceiverInv'
    <3>1. sawClosed' \in BOOLEAN /\ poisoned' \in BOOLEAN /\ reset' \in BOOLEAN
      BY <1>0, <1>1, <1>5 DEF Sound, ReceiverInv
    <3>2. /\ header' \in Seq(Byte) /\ Len(header') <= HeaderLen /\ payload' \in Seq(Byte)
          /\ ~(Len(header') = HeaderLen) /\ allocated' \in 0 .. RecvMax
      BY <1>9, <2>1, <2>2
    <3> QED
      BY <2>1, <2>4, <3>1, <3>2 DEF ReceiverInv
  <2>8. Quiet'
    BY <1>1, <1>2 DEF Quiet
  <2>9. Shows
    BY <1>1, <1>2, <2>1, <2>4 DEF Shows
  <2> QED
    BY <1>1, <1>2, <1>8, <2>4, <2>6, <2>7, <2>8, <2>9 DEF Sound
<1> QED
  BY <1>10, <1>11, <1>12

\* Nothing is left to deliver on a stream that is empty between two frames.
LEMMA Drained ==
  SenderInv /\ Len(received) \in Nat /\ Stream(<<>>) => Len(sent) <= Len(received)
<1>0. SUFFICES ASSUME SenderInv, Len(received) \in Nat, Stream(<<>>), Len(received) < Len(sent)
               PROVE  FALSE
  <2>1. Len(sent) \in Nat
    BY LenProperties DEF SenderInv
  <2> QED
    BY <2>1
<1>1. PICK p \in [Nat -> Nat], l \in Nat, n \in Nat :
        /\ l = Len(sent) /\ n = Len(received) /\ n < l
        /\ StreamOf(<<>>, p, sent, n, ~torn, sending.msg, Written)
  BY <1>0, LenProperties DEF Stream, SenderInv
<1>2. At(<<>>, p[n + 1] - p[n + 1], Frame(sent[n + 1]))
  <2>1. n + 1 \in n + 1 .. l
    BY <1>1
  <2> QED
    BY <1>1, <2>1 DEF StreamOf
<1>3. PICK m : m = sent[n + 1] /\ m \in Seq(Byte) /\ Fits(Len(m))
  <2>0. n < l
    BY <1>1
  <2>1. n + 1 \in 1 .. l
    BY <2>0
  <2> QED
    <3>1. sent \in Seq(Payloads) /\ \A k \in 1 .. l : Fits(Len(sent[k]))
      BY <1>0, <1>1 DEF SenderInv
    <3>2. sent[n + 1] \in Payloads
      BY <1>1, <2>1, <3>1, ElementOfSeq
    <3> QED
      BY <2>1, <3>1, <3>2, FramingAssumption
<1>4. Len(Frame(m)) > 0
  <2>1. Len(m) \in Nat /\ HeaderLen \in Nat /\ HeaderLen > 0
    BY <1>3, FramingAssumption, LenProperties
  <2>2. Len(Frame(m)) = HeaderLen + Len(m)
    BY <1>3, FrameFacts
  <2> QED
    BY <2>1, <2>2
<1>5. p[n + 1] - p[n + 1] = 0
  <2>1. p[n + 1] \in Nat
    OBVIOUS
  <2> QED
    BY <2>1
<1>6. 0 + Len(Frame(m)) <= 0
  <2>1. Len(<<>>) = 0
    BY EmptySeq
  <2> QED
    BY <1>2, <1>3, <1>5, <2>1 DEF At
<1> QED
  <2>1. Len(Frame(m)) \in Nat
    BY <1>3, FrameFacts, LenProperties
  <2> QED
    BY <1>4, <1>6, <2>1

\* Every step of the receiver.
LEMMA ReceiverStep ==
  Sound /\ Stream(Undelivered) /\ ReceiverNext =>
    Sound' /\ Stream(Undelivered)' /\ Shows /\ UNCHANGED sender
<1>0. SUFFICES ASSUME Sound, Stream(Undelivered), ReceiverNext
               PROVE  Sound' /\ Stream(Undelivered)' /\ Shows /\ UNCHANGED sender
  OBVIOUS
<1>1. CASE Read
  BY <1>0, <1>1, HeaderStep, PayloadStep DEF Read
<1>2. ASSUME /\ UNCHANGED <<sender, pipe, header, allocated, payload, received>>
             /\ recving' \in BOOLEAN /\ poisoned' \in BOOLEAN /\ sawClosed' \in BOOLEAN
             /\ reset' \in BOOLEAN
             /\ (poisoned => poisoned') /\ (recving' => ~poisoned')
             /\ Quiet'
      PROVE  Sound' /\ Stream(Undelivered)'
  <2>1. SenderInv' /\ Intact' /\ \A B : Stream(B) => Stream(B)'
    BY <1>0, <1>2, SenderRests DEF Sound
  <2>2. Undelivered' = Undelivered
    BY <1>2 DEF Undelivered
  <2>3. Stream(Undelivered)'
    BY <1>0, <2>1, <2>2 DEF Stream
  <2>4. ReceiverInv'
    BY <1>0, <1>2 DEF Sound, ReceiverInv
  <2>5. PipeOK'
    BY <1>0, <1>2 DEF Sound, PipeOK
  <2> QED
    BY <1>2, <2>1, <2>3, <2>4, <2>5 DEF Sound
<1>3. /\ recving \in BOOLEAN /\ poisoned \in BOOLEAN /\ sawClosed \in BOOLEAN
      /\ reset \in BOOLEAN /\ (recving => ~poisoned) /\ Quiet
  BY <1>0 DEF Sound, ReceiverInv
<1>4. CASE Recv
  <2>1. /\ recving' = ~poisoned /\ sawClosed' = (sawClosed \/ poisoned)
        /\ UNCHANGED <<sender, pipe, header, allocated, payload, poisoned, received, reset>>
    BY <1>4 DEF Recv, frame
  <2>2. closed' = closed
    BY <2>1 DEF sender
  <2>3. Quiet'
    BY <1>3, <2>1, <2>2 DEF Quiet
  <2>4. Shows
    BY <1>3, <2>1 DEF Shows
  <2> QED
    BY <1>2, <1>3, <2>1, <2>3, <2>4
<1>5. CASE RecvAborts
  <2>1. /\ recving' = FALSE
        /\ UNCHANGED <<sender, pipe, header, allocated, payload, poisoned>>
        /\ UNCHANGED <<received, sawClosed, reset>>
    BY <1>5 DEF RecvAborts, frame
  <2>2. closed' = closed
    BY <2>1 DEF sender
  <2>3. Quiet' /\ Shows
    BY <1>3, <2>1, <2>2 DEF Quiet, Shows
  <2> QED
    BY <1>2, <1>3, <2>1, <2>3
<1>6. CASE ReadEnd
  <2>1. /\ recving /\ (reset \/ (closed /\ pipe = <<>>)) /\ recving' = FALSE
        /\ poisoned' = (poisoned \/ header # <<>>)
        /\ sawClosed' = (sawClosed \/ header = <<>>)
        /\ UNCHANGED <<sender, pipe, header, allocated, payload, received, reset>>
    BY <1>6 DEF ReadEnd, Truncated
  <2>2. closed' = closed
    BY <2>1 DEF sender
  <2>3. Quiet'
    BY <1>3, <2>1, <2>2 DEF Quiet
  <2>6. CASE header = <<>> /\ reset
    <3>1. Shows
      BY <1>3, <2>1, <2>6 DEF Shows
    <3> QED
      BY <1>2, <1>3, <2>1, <2>3, <3>1
  <2>4. CASE header = <<>> /\ ~reset
    <3>1. payload = <<>> /\ Len(received) \in Nat /\ SenderInv
      <4>1. HeaderLen > 0 /\ Len(<<>>) = 0 /\ HeaderLen \in Nat
        BY FramingAssumption, EmptySeq
      <4>2. Len(header) < HeaderLen
        BY <2>4, <4>1
      <4>3. received \in Seq(Seq(Byte)) /\ payload = <<>> /\ SenderInv
        BY <1>0, <4>2 DEF Sound, ReceiverInv
      <4> QED
        BY <4>3, LenProperties
    <3>2. <<>> \o <<>> = <<>>
      BY EmptySeq, ConcatEmptySeq
    <3>3. Undelivered = <<>>
      BY <2>1, <2>4, <3>1, <3>2 DEF Undelivered
    <3>4. Len(sent) <= Len(received)
      BY <1>0, <3>1, <3>3, Drained
    <3>5. Shows
      BY <1>3, <2>1, <2>4, <3>4 DEF Shows
    <3> QED
      BY <1>2, <1>3, <2>1, <2>3, <3>5
  <2>5. CASE header # <<>>
    <3>1. Shows
      BY <1>3, <2>1, <2>5 DEF Shows
    <3> QED
      BY <1>2, <1>3, <2>1, <2>3, <3>1
  <2> QED
    BY <2>4, <2>5, <2>6
<1>7. CASE ReadReset
  <2>1. /\ recving /\ reset' = TRUE /\ sawClosed' = TRUE /\ recving' = FALSE
        /\ UNCHANGED <<sender, pipe, header, allocated, payload, poisoned, received>>
    BY <1>7 DEF ReadReset, frame
  <2>2. Quiet' /\ Shows
    BY <2>1 DEF Quiet, Shows
  <2> QED
    BY <1>2, <1>3, <2>1, <2>2
<1> QED
  BY <1>0, <1>1, <1>4, <1>5, <1>6, <1>7 DEF ReceiverNext

(***************************************************************************)
(* The contract of channel.rs, step by step.                               *)
(***************************************************************************)
\* Its variables, of the messages ms with whole frames and those rs received.
Awaited(ms, n) == {<<i, ms[i]>> : i \in n + 1 .. Len(ms)}
Shown(rs) == [i \in 1 .. Len(rs) |-> <<i, rs[i]>>]

\* One more message is one more pair.
LEMMA NumberedGrows ==
  ASSUME NEW ms \in Seq(Payloads), NEW m \in Payloads, NEW before \in Nat
  PROVE  Numbered(Append(ms, m), before)
           = Numbered(ms, before) \cup {<<before + (Len(ms) + 1), m>>}
<1>1. PICK l \in Nat : l = Len(ms)
  BY LenProperties
<1>2. PICK ns : ns = Append(ms, m)
  OBVIOUS
<1>3. Len(ns) = l + 1 /\ ns[l + 1] = m /\ \A i \in 1 .. l : ns[i] = ms[i]
  BY <1>1, <1>2, AppendProperties
<1>4. \A i : i \in 1 .. l + 1 <=> i \in 1 .. l \/ i = l + 1
  BY <1>1
<1> QED
  BY <1>1, <1>2, <1>3, <1>4 DEF Numbered

\* A step of the sender leaves the receiver alone and completes one frame at most,
\* or tears one.
Sends(m) ==
  \/ ~torn /\ sent' = Append(sent, m) /\ late' = late
  \/ torn /\ sent' = sent /\ late' = Append(late, m)

LEMMA SenderSends ==
  SenderInv /\ SenderNext =>
    /\ UNCHANGED <<received, poisoned, sawClosed, reset>>
    /\ \/ UNCHANGED <<sent, torn, late>>
       \/ torn' = TRUE /\ UNCHANGED <<sent, late>>
       \/ /\ torn' = torn /\ (Len(sent) + Len(late)) + 1 <= MaxSends
          /\ \E m \in Payloads : Sends(m)
<1>0. SUFFICES ASSUME SenderInv, SenderNext
               PROVE  /\ UNCHANGED <<received, poisoned, sawClosed, reset>>
                      /\ \/ UNCHANGED <<sent, torn, late>>
                         \/ torn' = TRUE /\ UNCHANGED <<sent, late>>
                         \/ /\ torn' = torn /\ (Len(sent) + Len(late)) + 1 <= MaxSends
                            /\ \E m \in Payloads : Sends(m)
  OBVIOUS
<1>4. torn \in BOOLEAN
  BY <1>0 DEF SenderInv
<1>1. ASSUME NEW n \in 1 .. PipeCap, Write(n)
      PROVE  /\ UNCHANGED <<received, poisoned, sawClosed, reset>>
             /\ \/ UNCHANGED <<sent, torn, late>>
                \/ /\ torn' = torn /\ (Len(sent) + Len(late)) + 1 <= MaxSends
                   /\ \E m \in Payloads : Sends(m)
  <2>1. /\ sending.busy /\ n \in 1 .. Len(sending.rest) /\ torn' = torn
        /\ UNCHANGED <<received, poisoned, sawClosed, reset>>
        /\ sent' = IF n = Len(sending.rest) /\ ~torn THEN Append(sent, sending.msg) ELSE sent
        /\ late' = IF n = Len(sending.rest) /\ torn THEN Append(late, sending.msg) ELSE late
    BY <1>1 DEF Write, receiver, frame
  <2>2. Unwritten /\ sending.msg \in Payloads
    <3>1. sending.rest # <<>>
      BY <2>1, EmptySeq
    <3> QED
      BY <1>0, <2>1, <3>1 DEF Unwritten, SenderInv, CurrentFrame
  <2>3. (Len(sent) + Len(late)) + 1 <= MaxSends
    <3>1. (Len(sent) + Len(late)) + 1 <= sends
      BY <1>0, <2>2 DEF SenderInv
    <3>2. Len(sent) \in Nat /\ Len(late) \in Nat /\ MaxSends \in Nat /\ sends \in 0 .. MaxSends
      BY <1>0, LenProperties, FramingAssumption DEF SenderInv
    <3> QED
      BY <3>1, <3>2
  <2>4. UNCHANGED <<sent, late>> \/ Sends(sending.msg)
    BY <1>4, <2>1 DEF Sends
  <2> QED
    BY <2>1, <2>2, <2>3, <2>4
<1>2. CASE \E m \in Payloads : Send(m)
  BY <1>2 DEF Send, receiver, frame
<1>3. CASE SendDone \/ SendAborts \/ Close
  <2>1. /\ UNCHANGED <<received, poisoned, sawClosed, reset, sent, late>>
        /\ torn' = torn \/ torn' = (torn \/ HalfWritten)
    BY <1>3 DEF SendDone, SendAborts, Close, receiver, frame
  <2>2. torn' = torn \/ torn' = TRUE
    BY <1>4, <2>1
  <2> QED
    BY <2>1, <2>2
<1> QED
  BY <1>0, <1>1, <1>2, <1>3 DEF SenderNext

\* A frame completed is a message accepted, a torn one garbles the direction.
LEMMA SenderRefines ==
  SenderInv /\ Intact /\ received \in Seq(Seq(Byte)) /\ SenderNext
    => [Contract!Next]_Contract!vars
<1>0. SUFFICES ASSUME SenderInv, Intact, received \in Seq(Seq(Byte)), SenderNext
               PROVE  [Contract!Next]_Contract!vars
  OBVIOUS
<1>1. /\ UNCHANGED <<received, poisoned, sawClosed, reset>>
      /\ \/ UNCHANGED <<sent, torn, late>>
         \/ torn' = TRUE /\ UNCHANGED <<sent, late>>
         \/ /\ torn' = torn /\ (Len(sent) + Len(late)) + 1 <= MaxSends
            /\ \E m \in Payloads : Sends(m)
  BY <1>0, SenderSends
<1>2. CASE UNCHANGED <<sent, torn, late>>
  BY <1>1, <1>2 DEF Contract!vars
<1>3. CASE torn' = TRUE /\ UNCHANGED <<sent, late>>
  <2>1. Contract!Garble
    BY <1>1, <1>3 DEF Contract!Garble
  <2> QED
    BY <2>1 DEF Contract!Next
<1>4. CASE /\ torn' = torn /\ (Len(sent) + Len(late)) + 1 <= MaxSends
           /\ \E m \in Payloads : Sends(m)
  <2>1. PICK m \in Payloads : Sends(m)
    BY <1>4
  <2>2. PICK l \in Nat, a \in Nat, r \in Nat :
          /\ l = Len(sent) /\ a = Len(late) /\ r = Len(received)
          /\ (l + a) + 1 <= MaxSends /\ (~torn => r <= l /\ a = 0)
    <3>1. sent \in Seq(Payloads) /\ late \in Seq(Payloads) /\ (~torn => late = <<>>)
      BY <1>0 DEF SenderInv
    <3>2. Len(sent) \in Nat /\ Len(received) \in Nat /\ Len(late) \in Nat
      BY <1>0, <3>1, LenProperties
    <3>3. ~torn => Len(late) = 0
      BY <3>1, EmptySeq
    <3> QED
      BY <1>0, <1>4, <3>2, <3>3 DEF Intact
  <2>3. sent \in Seq(Payloads) /\ late \in Seq(Payloads) /\ MaxSends \in Nat
    BY <1>0, FramingAssumption DEF SenderInv
  <2> DEFINE e == <<(l + a) + 1, m>>
             T == Numbered(sent, 0) \cup Numbered(late, Len(sent))
             U == IF poisoned \/ reset THEN {} ELSE Awaited(sent, Len(received))
  <2>4. e \in (1 .. MaxSends) \X Payloads
    BY <2>2, <2>3
  <2>5. e \notin T
    BY <2>2 DEF Numbered
  <2>6. T' = T \cup {e} /\ (U' = U \/ (~(poisoned \/ reset) /\ U' = U \cup {e}))
    <3>1. CASE ~torn /\ sent' = Append(sent, m) /\ late' = late
      <4>1. l + 1 = (l + a) + 1 /\ 0 + (l + 1) = l + 1 /\ r <= l
        BY <2>2, <3>1
      <4>2. Numbered(sent', 0) = Numbered(sent, 0) \cup {e}
        <5>1. Numbered(Append(sent, m), 0) = Numbered(sent, 0) \cup {<<0 + (Len(sent) + 1), m>>}
          BY <2>3, NumberedGrows
        <5> QED
          BY <2>2, <3>1, <4>1, <5>1
      <4>3. Numbered(late, Len(sent)) = {} /\ Numbered(late', Len(sent')) = {}
        BY <2>2, <3>1 DEF Numbered
      <4>4. Len(sent') = l + 1 /\ sent'[l + 1] = m /\ \A i \in 1 .. l : sent'[i] = sent[i]
        BY <2>2, <2>3, <3>1, AppendProperties
      <4>5. Awaited(sent', r) = Awaited(sent, r) \cup {<<l + 1, m>>}
        <5>1. \A i : i \in r + 1 .. l + 1 <=> i \in r + 1 .. l \/ i = l + 1
          BY <4>1
        <5>2. \A i \in r + 1 .. l : sent'[i] = sent[i]
          BY <4>1, <4>4
        <5> QED
          BY <2>2, <4>4, <5>1, <5>2 DEF Awaited
      <4>6. Awaited(sent', Len(received')) = Awaited(sent, Len(received)) \cup {e}
        BY <1>1, <2>2, <4>1, <4>5
      <4>7. poisoned' = poisoned /\ reset' = reset
        BY <1>1
      <4> HIDE DEF e
      <4> QED
        BY <4>2, <4>3, <4>6, <4>7
    <3>2. CASE torn /\ sent' = sent /\ late' = Append(late, m)
      <4>1. l + (a + 1) = (l + a) + 1
        OBVIOUS
      <4>2. Numbered(late', Len(sent')) = Numbered(late, Len(sent)) \cup {e}
        <5>1. Numbered(Append(late, m), l)
                = Numbered(late, l) \cup {<<l + (Len(late) + 1), m>>}
          BY <2>3, NumberedGrows
        <5> QED
          BY <2>2, <3>2, <4>1, <5>1
      <4>3. U' = U
        BY <1>1, <3>2
      <4> HIDE DEF e, U
      <4> QED
        BY <3>2, <4>2, <4>3
    <3> QED
      BY <2>1, <3>1, <3>2 DEF Sends
  <2>7. Shown(received') = Shown(received) /\ torn' = torn /\ sawClosed' = sawClosed
        /\ (poisoned' \/ reset') = (poisoned \/ reset)
    BY <1>1, <1>4
  <2> HIDE DEF e
  <2>9. Contract!Accept(e)
    <3>1. e \notin T /\ T' = T \cup {e}
      BY <2>5, <2>6
    <3> QED
      BY <2>6, <2>7, <3>1 DEF Contract!Accept, Awaited, Shown
  <2> QED
    BY <2>4, <2>9 DEF Contract!Next
<1> QED
  BY <1>1, <1>2, <1>3, <1>4

\* What the receiver shows is a step of the contract.
LEMMA ReceiverRefines ==
  Sound /\ Sound' /\ Shows /\ UNCHANGED sender => [Contract!Next]_Contract!vars
<1>0. SUFFICES ASSUME Sound, Sound', Shows, UNCHANGED sender
               PROVE  [Contract!Next]_Contract!vars
  OBVIOUS
<1>1. /\ sent' = sent /\ torn' = torn /\ late' = late
      /\ sent \in Seq(Payloads) /\ received \in Seq(Seq(Byte))
      /\ poisoned \in BOOLEAN /\ sawClosed \in BOOLEAN /\ reset \in BOOLEAN /\ torn \in BOOLEAN
      /\ poisoned' \in BOOLEAN /\ sawClosed' \in BOOLEAN /\ reset' \in BOOLEAN
      /\ \A k \in 1 .. Len(sent) : sent[k] \in Payloads
  <2>1. sent \in Seq(Payloads)
    BY <1>0 DEF Sound, SenderInv
  <2>2. \A k \in 1 .. Len(sent) : sent[k] \in Payloads
    BY <2>1, ElementOfSeq
  <2> QED
    BY <1>0, <2>1, <2>2 DEF Sound, SenderInv, ReceiverInv, sender
<1>2. PICK l \in Nat, r \in Nat : l = Len(sent) /\ r = Len(received)
  BY <1>1, LenProperties
<1>3. CASE UNCHANGED <<received, poisoned, sawClosed, reset>>
  BY <1>1, <1>3 DEF Contract!vars
<1>4. CASE poisoned' /\ UNCHANGED <<received, sawClosed, reset>>
  <2>1. Contract!Break
    BY <1>1, <1>4 DEF Contract!Break
  <2> QED
    BY <2>1 DEF Contract!Next
<1>7. CASE sawClosed' /\ reset' /\ UNCHANGED <<received, poisoned>>
  <2>1. Contract!End
    BY <1>1, <1>7 DEF Contract!End
  <2> QED
    BY <2>1 DEF Contract!Next
<1>5. CASE /\ sawClosed' /\ UNCHANGED <<received, poisoned, reset>>
           /\ poisoned \/ reset \/ Len(sent) <= Len(received)
  <2>1. poisoned \/ reset \/ Awaited(sent, r) = {}
    BY <1>2, <1>5 DEF Awaited
  <2>2. Contract!End
    BY <1>1, <1>2, <1>5, <2>1 DEF Contract!End, Awaited
  <2> QED
    BY <2>2 DEF Contract!Next
<1>6. CASE /\ ~poisoned /\ ~sawClosed /\ ~reset /\ UNCHANGED <<poisoned, sawClosed, reset>>
           /\ \E f \in Seq(Byte) : /\ received' = Append(received, f)
                                   /\ Len(received) < Len(sent) => f = sent[Len(received) + 1]
  <2>1. PICK f \in Seq(Byte) : /\ received' = Append(received, f)
                               /\ r < l => f = sent[r + 1]
    BY <1>2, <1>6
  <2>2. /\ Len(received') = r + 1 /\ received'[r + 1] = f
        /\ \A i \in 1 .. r : received'[i] = received[i]
    BY <1>1, <1>2, <2>1, AppendProperties
  <2>5. Shown(received') = Append(Shown(received), <<r + 1, f>>)
    <3> DEFINE e == <<r + 1, f>>
               a == Shown(received)
               b == Shown(received')
               S == Nat \X Seq(Byte)
    <3>1. a = [i \in 1 .. r |-> <<i, received[i]>>]
      BY <1>2 DEF Shown
    <3>2. b = [i \in 1 .. r + 1 |-> <<i, received'[i]>>]
      BY <2>2 DEF Shown
    <3>3. ASSUME NEW i \in 1 .. r PROVE <<i, received[i]>> \in S
      BY <1>1, <1>2, ElementOfSeq
    <3>4. ASSUME NEW i \in 1 .. r + 1
          PROVE  <<i, received'[i]>> = IF i = r + 1 THEN e ELSE <<i, received[i]>>
      BY <2>2
    <3>5. e \in S
      OBVIOUS
    <3>6. a \in Seq(S) /\ Len(a) = r /\ \A i \in 1 .. r : a[i] = <<i, received[i]>>
      BY <3>1, <3>3
    <3>7. /\ b \in Seq(S) /\ Len(b) = r + 1
          /\ \A i \in 1 .. r + 1 : b[i] = IF i = r + 1 THEN e ELSE <<i, received[i]>>
      <4>1. \A i \in 1 .. r + 1 : <<i, received'[i]>> \in S
        <5> SUFFICES ASSUME NEW i \in 1 .. r + 1 PROVE <<i, received'[i]>> \in S
          OBVIOUS
        <5>1. CASE i = r + 1
          <6>1. <<i, received'[i]>> = e
            BY <3>4, <5>1
          <6> QED
            BY <3>5, <6>1
        <5>2. CASE i \in 1 .. r
          <6>1. <<i, received'[i]>> = <<i, received[i]>>
            BY <2>2, <5>2
          <6> QED
            BY <3>3, <5>2, <6>1
        <5> QED
          BY <5>1, <5>2
      <4> QED
        BY <3>2, <3>4, <4>1
    <3> HIDE DEF a, b, e, S
    <3>8. /\ Append(a, e) \in Seq(S) /\ Len(Append(a, e)) = r + 1
          /\ \A i \in 1 .. r : Append(a, e)[i] = a[i]
          /\ Append(a, e)[r + 1] = e
      BY <3>5, <3>6, AppendProperties
    <3>9. ASSUME NEW i \in 1 .. r + 1 PROVE b[i] = Append(a, e)[i]
      <4>1. CASE i = r + 1
        BY <3>7, <3>8, <4>1
      <4>2. CASE i \in 1 .. r
        <5>1. i # r + 1
          BY <4>2
        <5> QED
          BY <3>6, <3>7, <3>8, <4>2, <5>1
      <4>3. i = r + 1 \/ i \in 1 .. r
        OBVIOUS
      <4> QED
        BY <4>1, <4>2, <4>3
    <3>10. b = Append(a, e)
      BY <3>7, <3>8, <3>9, SeqEqual
    <3> QED
      BY <3>10 DEF a, b, e
  <2>6. /\ r = Len(received) /\ r + 1 = Len(received')
        /\ poisoned = FALSE /\ reset = FALSE /\ sawClosed = FALSE
        /\ UNCHANGED <<poisoned, reset, sawClosed, torn, sent, late>>
    BY <1>1, <1>2, <1>6, <2>2
  <2>3. CASE r >= l
    <3>1. torn
      <4>1. ~torn' => r + 1 <= l
        BY <1>0, <1>1, <1>2, <2>6 DEF Sound, Intact
      <4> QED
        BY <1>1, <2>3, <4>1
    <3>2. Awaited(sent, r) = {} /\ Awaited(sent, r + 1) = {}
      BY <1>2, <2>3 DEF Awaited
    <3>3. Awaited(sent, Len(received)) = {} /\ Awaited(sent', Len(received')) = {}
      BY <2>6, <3>2
    <3>4. /\ Len(Shown(received')) = Len(Shown(received)) + 1
          /\ SubSeq(Shown(received'), 1, Len(Shown(received))) = Shown(received)
      <4> DEFINE S == Nat \X Seq(Byte)
      <4>1. Shown(received) \in Seq(S)
        <5>1. \A i \in 1 .. r : <<i, received[i]>> \in S
          BY <1>1, <1>2, ElementOfSeq
        <5>2. Shown(received) = [i \in 1 .. r |-> <<i, received[i]>>]
          BY <1>2 DEF Shown
        <5> QED
          BY <5>1, <5>2
      <4>2. PICK e \in S : e = <<r + 1, f>>
        <5>1. <<r + 1, f>> \in S
          OBVIOUS
        <5> HIDE DEF S
        <5> QED
          BY <5>1
      <4>3. PICK a \in Seq(S) : a = Shown(received)
        BY <4>1
      <4>4. Len(Append(a, e)) = Len(a) + 1
        BY AppendProperties
      <4>5. SubSeq(Append(a, e), 1, Len(a)) = a
        BY AppendProperties, SubSeqProperties
      <4> QED
        BY <2>5, <4>2, <4>3, <4>4, <4>5
    <3>5. Contract!Garbage
      BY <2>6, <3>1, <3>3, <3>4 DEF Contract!Garbage, Awaited, Shown
    <3> QED
      BY <3>5 DEF Contract!Next
  <2>4. CASE r < l
    <3> DEFINE e == <<r + 1, f>>
    <3>1. f = sent[r + 1] /\ r + 1 \in 1 .. l
      BY <2>1, <2>4
    <3>2. e \in Awaited(sent, r) /\ Awaited(sent, r + 1) = Awaited(sent, r) \ {e}
      <4>1. \A i : i \in r + 1 .. l <=> i = r + 1 \/ i \in (r + 1) + 1 .. l
        BY <2>4
      <4>2. r + 1 \notin (r + 1) + 1 .. l
        OBVIOUS
      <4> QED
        BY <1>2, <3>1, <4>1, <4>2 DEF Awaited
    <3>3. e \in (1 .. MaxSends) \X Payloads
      <4>1. f \in Payloads
        BY <1>1, <1>2, <3>1
      <4>2. l <= MaxSends /\ MaxSends \in Nat
        <5>1. /\ (Len(sent) + Len(late)) + (IF Unwritten THEN 1 ELSE 0) <= sends
              /\ sends \in 0 .. MaxSends /\ Len(late) \in Nat
          BY <1>0, LenProperties DEF Sound, SenderInv
        <5> QED
          BY <1>2, <5>1, FramingAssumption
      <4> QED
        BY <3>1, <4>1, <4>2
    <3>4. Shown(received') = Append(Shown(received), e)
      BY <2>5
    <3> HIDE DEF e
    <3>5. Contract!Deliver(e)
      <4>1. /\ e \in Awaited(sent, Len(received))
            /\ Awaited(sent', Len(received')) = Awaited(sent, Len(received)) \ {e}
        BY <2>6, <3>2
      <4> QED
        BY <2>6, <3>4, <4>1 DEF Contract!Deliver, Awaited, Shown
    <3> QED
      BY <3>3, <3>5 DEF Contract!Next
  <2> QED
    BY <2>3, <2>4
<1> QED
  BY <1>0, <1>3, <1>4, <1>5, <1>6, <1>7 DEF Shows

(***************************************************************************)
(* The framed channel.                                                     *)
(***************************************************************************)
FramedInv == Sound /\ Stream(Undelivered)

\* Before the first send the stream is empty.
LEMMA FreshStream ==
  ASSUME sent = <<>>, received = <<>>, ~sending.busy
  PROVE  Stream(<<>>)
<1> DEFINE p == [k \in Nat |-> 0]
<1>1. Written = 0
  BY DEF Written, Unwritten
<1>2. Len(sent) = 0 /\ Len(received) = 0 /\ Len(<<>>) = 0
  BY EmptySeq
<1>3. p \in [Nat -> Nat] /\ p[1] = 0 /\ p[0 + 1] - p[0 + 1] = 0
  OBVIOUS
<1>4. StreamOf(<<>>, p, sent, 0, ~torn, sending.msg, 0)
  <2>1. \A i, k \in 1 .. 0 + 1 : p[i] <= p[k]
    OBVIOUS
  <2> HIDE DEF p
  <2> QED
    BY <1>2, <1>3, <2>1 DEF StreamOf
<1> QED
  <2> HIDE DEF p
  <2> QED
    BY <1>1, <1>2, <1>3, <1>4 DEF Stream

\* Initially there is nothing to deliver, and the stream is empty.
LEMMA InitSound == Init => FramedInv
<1>0. SUFFICES ASSUME Init PROVE FramedInv
  OBVIOUS
<1>1. PICK f \in Seq(Byte) : f = <<>> /\ Len(f) = 0
  BY EmptySeq
<1>2. /\ sends = 0 /\ sending = [msg |-> f, rest |-> f, busy |-> FALSE] /\ closed = FALSE
      /\ sent = <<>> /\ torn = FALSE /\ pipe = f /\ recving = FALSE /\ received = <<>>
      /\ sawClosed = FALSE /\ header = f /\ allocated = 0 /\ payload = f /\ poisoned = FALSE
      /\ late = <<>> /\ reset = FALSE
  BY <1>0, <1>1 DEF Init, Idle
<1>3. /\ HeaderLen \in Nat /\ HeaderLen > 0 /\ RecvMax \in Nat /\ MaxSends \in Nat
      /\ PipeCap \in Nat
  BY FramingAssumption DEF Fits
<1>4. SenderInv
  <2>1. ~sending.busy /\ ~Unwritten
    BY <1>2 DEF Unwritten
  <2>2. sent \in Seq(Payloads) /\ Len(sent) = 0 /\ late \in Seq(Payloads) /\ Len(late) = 0
    BY <1>2, EmptySeq
  <2>3. sends \in 0 .. MaxSends /\ sending \in [msg : Seq(Byte), rest : Seq(Byte), busy : BOOLEAN]
    BY <1>2, <1>3
  <2> QED
    <3>1. (\A k \in 1 .. Len(sent) : Fits(Len(sent[k]))) /\ (Len(sent) + Len(late)) + 0 <= sends
      BY <1>2, <2>2
    <3> QED
      <4>1. (Len(sent) + Len(late)) + (IF Unwritten THEN 1 ELSE 0) <= sends
        BY <2>1, <3>1
      <4>2. closed \in BOOLEAN /\ torn \in BOOLEAN /\ ~sending.busy /\ late = <<>>
        BY <1>2
      <4> QED
        BY <2>2, <2>3, <3>1, <4>1, <4>2 DEF SenderInv
<1>5. ReceiverInv
  <2>1. received \in Seq(Seq(Byte)) /\ allocated \in 0 .. RecvMax /\ Len(header) # HeaderLen
    BY <1>1, <1>2, <1>3, EmptySeq
  <2> QED
    <3>1. /\ header \in Seq(Byte) /\ Len(header) <= HeaderLen /\ payload \in Seq(Byte)
          /\ payload = <<>>
      BY <1>1, <1>2, <1>3
    <3> QED
      BY <1>2, <2>1, <3>1 DEF ReceiverInv
<1>6. PipeOK
  BY <1>1, <1>2, <1>3 DEF PipeOK
<1>7. Intact /\ Quiet
  BY <1>2, EmptySeq DEF Intact, Quiet
<1>8. Stream(Undelivered)
  <2>1. Undelivered = <<>>
    <3>1. f \o f = f
      BY ConcatEmptySeq, <1>1
    <3> QED
      BY <1>1, <1>2, <3>1 DEF Undelivered
  <2> QED
    BY <1>2, <2>1, FreshStream
<1> QED
  BY <1>4, <1>5, <1>6, <1>7, <1>8 DEF FramedInv, Sound

\* A sender's step keeps both ends sound.
LEMMA SenderSound ==
  Sound /\ SenderNext => Sound' /\ (Stream(Undelivered) => Stream(Undelivered)')
<1>0. SUFFICES ASSUME Sound, SenderNext
               PROVE  Sound' /\ (Stream(Undelivered) => Stream(Undelivered)')
  OBVIOUS
<1>1. /\ SenderInv /\ PipeOK /\ ReceiverInv /\ Intact /\ Quiet
      /\ Len(received) \in Nat /\ received \in Seq(Seq(Byte))
      /\ header \in Seq(Byte) /\ payload \in Seq(Byte) /\ pipe \in Seq(Byte)
  <2>1. received \in Seq(Seq(Byte))
    BY <1>0 DEF Sound, ReceiverInv
  <2> QED
    BY <1>0, <2>1, LenProperties DEF Sound, ReceiverInv, PipeOK
<1>2. /\ SenderInv' /\ PipeOK' /\ UNCHANGED receiver
      /\ closed => closed' /\ pipe' = pipe
  BY <1>0, <1>1, SenderStep
<1>3. PICK x \in Seq(Byte) :
        pipe' = pipe \o x /\ \A B \in Seq(Byte) : Stream(B) => Stream(B \o x)'
  BY <1>0, <1>1, SenderStep
<1>4. UNCHANGED <<recving, header, allocated, payload, poisoned, received, sawClosed, reset>>
  BY <1>2 DEF receiver, frame
<1>5. ReceiverInv'
  BY <1>1, <1>4 DEF ReceiverInv
<1>6. Quiet'
  BY <1>1, <1>2, <1>4 DEF Quiet
<1>7. Intact'
  <2>1. sent' = sent \/ (~torn /\ \E m \in Payloads : sent' = Append(sent, m))
    BY <1>0, <1>1, SenderSends DEF Sends
  <2>2. torn \/ ~torn' => Len(received) <= Len(sent) \/ torn
    BY <1>1 DEF Intact
  <2>3. torn => torn'
    BY <1>0 DEF SenderNext, Send, Write, SendDone, SendAborts, Close
  <2>4. PICK l \in Nat, r \in Nat : l = Len(sent) /\ r = Len(received)
    BY <1>1, LenProperties DEF SenderInv
  <2>5. CASE sent' = sent
    BY <1>1, <1>4, <2>3, <2>5 DEF Intact
  <2>6. CASE ~torn /\ \E m \in Payloads : sent' = Append(sent, m)
    <3>1. Len(sent') = l + 1 /\ \A i \in 1 .. l : sent'[i] = sent[i]
      BY <1>1, <2>4, <2>6, AppendProperties DEF SenderInv
    <3>2. r <= l /\ \A i \in 1 .. r : received[i] = sent[i]
      BY <1>1, <2>4, <2>6 DEF Intact
    <3>3. \A i \in 1 .. r : received'[i] = sent'[i]
      BY <1>4, <3>1, <3>2
    <3> QED
      BY <1>4, <2>4, <3>1, <3>2, <3>3 DEF Intact
  <2> QED
    BY <2>1, <2>5, <2>6
<1>8. ASSUME Stream(Undelivered) PROVE Stream(Undelivered)'
  <2>1. PICK a \in Seq(Byte), q \in Seq(Byte) : a = header \o payload /\ q = pipe
    BY <1>1, ConcatProperties
  <2>2. PICK B \in Seq(Byte) : B = a \o q /\ B = Undelivered
    BY <2>1, ConcatProperties DEF Undelivered
  <2>3. Associates(a, q, x)
    BY Associative
  <2>4. Undelivered' = B \o x
    BY <1>3, <1>4, <2>1, <2>2, <2>3 DEF Undelivered, Associates
  <2>5. Stream(B \o x)'
    BY <1>3, <1>8, <2>2
  <2> QED
    BY <2>4, <2>5 DEF Stream
<1> QED
  BY <1>2, <1>5, <1>6, <1>7, <1>8 DEF Sound

\* A step that changes the stream at most, while the receiver is not told of its end.
LEMMA PipeRests ==
  Sound /\ UNCHANGED <<sender, receiver>> /\ PipeOK' /\ (pipe' = pipe \/ ~sawClosed) =>
    Sound' /\ \A B : Stream(B) => Stream(B)'
<1> SUFFICES ASSUME Sound, UNCHANGED <<sender, receiver>>, PipeOK', pipe' = pipe \/ ~sawClosed
             PROVE  Sound' /\ \A B : Stream(B) => Stream(B)'
  OBVIOUS
<1>1. /\ UNCHANGED <<sends, sending, closed, sent, torn, late, recving, header, allocated>>
      /\ UNCHANGED <<payload, poisoned, received, sawClosed, reset>>
  BY DEF sender, receiver, frame
<1>2. SenderInv' /\ Intact' /\ \A B : Stream(B) => Stream(B)'
  BY <1>1, SenderRests DEF Sound
<1>3. ReceiverInv'
  BY <1>1 DEF Sound, ReceiverInv
<1>4. Quiet'
  BY <1>1 DEF Sound, Quiet
<1> QED
  BY <1>2, <1>3, <1>4 DEF Sound

\* A step that changes nothing.
LEMMA VarsRest ==
  Sound /\ UNCHANGED vars =>
    Sound' /\ Undelivered' = Undelivered /\ \A B : Stream(B) => Stream(B)'
<1> SUFFICES ASSUME Sound, UNCHANGED vars
             PROVE  Sound' /\ Undelivered' = Undelivered /\ \A B : Stream(B) => Stream(B)'
  OBVIOUS
<1>1. UNCHANGED <<sender, receiver>> /\ pipe' = pipe
  BY DEF vars
<1>2. PipeOK'
  BY <1>1 DEF Sound, PipeOK
<1>3. Undelivered' = Undelivered
  BY <1>1 DEF receiver, frame, Undelivered
<1> QED
  BY <1>1, <1>2, <1>3, PipeRests

\* The invariant of a framed channel is inductive.
THEOREM FramedInvariant == Spec => []FramedInv
<1>1. FramedInv /\ [Next]_vars => FramedInv'
  <2> SUFFICES ASSUME FramedInv, [Next]_vars PROVE FramedInv'
    OBVIOUS
  <2>1. CASE SenderNext
    BY <2>1, SenderSound DEF FramedInv
  <2>2. CASE ReceiverNext
    BY <2>2, ReceiverStep DEF FramedInv
  <2>3. CASE UNCHANGED vars
    <3>1. Sound' /\ Undelivered' = Undelivered /\ \A B : Stream(B) => Stream(B)'
      BY <2>3, VarsRest DEF FramedInv
    <3> QED
      BY <3>1 DEF FramedInv, Stream
  <2> QED
    BY <2>1, <2>2, <2>3 DEF Next
<1> QED
  BY InitSound, <1>1, PTL DEF Spec

\* The types, and the bound on what the receiver holds.
LEMMA SoundTyped == Sound => TypeOK
<1> SUFFICES ASSUME Sound PROVE TypeOK
  OBVIOUS
<1>1. /\ sending.busy \in BOOLEAN /\ sending.rest \in Seq(Byte)
      /\ closed \in BOOLEAN /\ torn \in BOOLEAN
  BY DEF Sound, SenderInv
<1>2. pipe \in Seq(Byte) /\ Len(pipe) <= PipeCap
  BY DEF Sound, PipeOK
<1>3. /\ recving \in BOOLEAN /\ poisoned \in BOOLEAN /\ sawClosed \in BOOLEAN
      /\ header \in Seq(Byte) /\ Len(header) <= HeaderLen
      /\ allocated \in 0 .. RecvMax /\ payload \in Seq(Byte)
      /\ received \in Seq(Seq(Byte))
  BY DEF Sound, ReceiverInv
<1>6. reset \in BOOLEAN
  BY DEF Sound, ReceiverInv
<1>4. \A i \in 1 .. Len(received) : received[i] \in Seq(Byte)
  BY <1>3, ElementOfSeq
<1>5. Len(payload) <= allocated
  <2>1. Len(header) \in Nat /\ HeaderLen \in Nat /\ Len(payload) \in Nat
    BY <1>3, LenProperties, FramingAssumption
  <2>2. Len(header) < HeaderLen \/ Len(header) = HeaderLen
    BY <1>3, <2>1
  <2>3. (payload = <<>> /\ allocated = 0) \/ Len(payload) < allocated
    BY <2>2 DEF Sound, ReceiverInv
  <2> QED
    BY <1>3, <2>1, <2>3, EmptySeq
<1> QED
  BY <1>1, <1>2, <1>3, <1>4, <1>5, <1>6 DEF TypeOK

\* A framed channel keeps its types, and the receiver never allocates more than
\* its limit whatever length the stream announces (framed.rs, recv).
THEOREM FramedTyped == Spec => []TypeOK
<1>1. FramedInv => TypeOK
  BY SoundTyped DEF FramedInv
<1> QED
  BY FramedInvariant, <1>1, PTL

\* recv returns the messages sent, in order and whole, however the stream cuts
\* them and wherever futures are dropped, up to the first torn frame.
THEOREM FramedIntact == Spec => []Intact
<1>1. FramedInv => Intact
  BY DEF FramedInv, Sound
<1> QED
  BY FramedInvariant, <1>1, PTL

\* Initially nothing is accepted.
LEMMA InitRefines == Init => Contract!Init
<1> SUFFICES ASSUME Init PROVE Contract!Init
  OBVIOUS
<1>1. /\ sent = <<>> /\ received = <<>> /\ poisoned = FALSE /\ sawClosed = FALSE
      /\ torn = FALSE /\ late = <<>> /\ reset = FALSE
  BY DEF Init
<1>2. Len(sent) = 0 /\ Len(received) = 0 /\ Len(late) = 0
  BY <1>1, EmptySeq
<1>3. [i \in 1 .. 0 |-> <<i, received[i]>>] = <<>>
  OBVIOUS
<1> QED
  BY <1>1, <1>2, <1>3 DEF Contract!Init, Numbered

\* A framed channel is a Channel in the sense of channel.rs.
THEOREM FramedImplementsContract == Spec => ImplementsContract
<1>1. FramedInv /\ [Next]_vars => [Contract!Next]_Contract!vars
  <2> SUFFICES ASSUME FramedInv, [Next]_vars PROVE [Contract!Next]_Contract!vars
    OBVIOUS
  <2>1. CASE SenderNext
    BY <2>1, SenderRefines DEF FramedInv, Sound, ReceiverInv
  <2>2. CASE ReceiverNext
    <3>1. Sound' /\ Shows /\ UNCHANGED sender
      BY <2>2, ReceiverStep DEF FramedInv
    <3> QED
      BY <3>1, ReceiverRefines DEF FramedInv
  <2>3. CASE UNCHANGED vars
    BY <2>3 DEF vars, sender, receiver, frame, Contract!vars
  <2> QED
    BY <2>1, <2>2, <2>3 DEF Next
<1> QED
  BY FramedInvariant, InitRefines, <1>1, PTL DEF Spec, ImplementsContract, Contract!Spec

(***************************************************************************)
(* The handshake: the dialler takes the bytes of the reply and no others.  *)
(***************************************************************************)
\* The peer has not begun to send; the application has not begun to receive.
Fresh == sends = 0 /\ ~sending.busy /\ sent = <<>> /\ ~torn
Unused ==
  /\ received = <<>> /\ header = <<>> /\ payload = <<>> /\ allocated = 0
  /\ ~recving /\ ~sawClosed /\ ~poisoned

\* A reply that opens the tunnel: its length is the one its address announces.
Granting(r) ==
  /\ Len(r) >= 5 /\ r[1] = 5 /\ r[2] = 0
  /\ \/ r[4] = 1 /\ Len(r) = 4 + (V4Len + 2)
     \/ r[4] = 4 /\ Len(r) = 4 + (V6Len + 2)
     \/ r[4] = 3 /\ Len(r) = 4 + (r[5] + 3)

\* One that the dialler refuses, by its first four bytes.
Refusing(r) == Len(r) >= 4 => ~(r[1] = 5 /\ r[2] = 0 /\ r[4] \in {1, 3, 4})

\* What the proxy has yet to give, from the first byte the dialler has not used.
Reply(r) ==
  \/ asked /\ r = <<>> /\ ~tunnel /\ dial \in {"chosen", "head"}
  \/ ~asked /\ dial = "chosen" /\ ~tunnel /\ Len(r) = 2
  \/ ~asked /\ dial = "head" /\ tunnel /\ Granting(r)
  \/ ~asked /\ dial = "head" /\ ~tunnel /\ Refusing(r)
  \/ ~asked /\ dial = "length" /\ tunnel /\ Len(r) >= 1 /\ Len(r) = 1 + (r[1] + 2)
  \/ ~asked /\ dial = "bound" /\ tunnel /\ Len(r) = want

\* The stream holds the bytes a of the reply, and those of the peer's frames, b,
\* only behind all of it; the bytes todo are not written, and never will be when
\* the proxy has gone.
Parts(a, b, todo) ==
  /\ pipe = a \o b /\ (~closed => todo = script)
  /\ ~tunnel \/ todo # <<>> => b = <<>> /\ Fresh
  /\ Reply((got \o a) \o todo)
  /\ tunnel => Stream(b)

\* The bytes of the reply that are left, and those that follow them.
Handshake == \E a, b, todo \in Seq(Byte) : Parts(a, b, todo)

\* The handshake around that: a dialler that waits has a buffer of the size its step
\* asks for; the peer sends nothing before the tunnel is open and the whole answer
\* written, and the application has nothing before connect returns.
SocksOK ==
  /\ got \in Seq(Byte) /\ script \in Seq(Byte) /\ want \in Nat
  /\ asked \in BOOLEAN /\ tunnel \in BOOLEAN
  /\ asked => ~tunnel
  /\ closed => script = <<>>
  /\ ~tunnel \/ script # <<>> => Fresh
  /\ dial = "calling" => ~tunnel /\ ~asked /\ ~closed /\ pipe = <<>> /\ script = <<>>
  /\ dial # "connected" => Unused
  /\ dial = "connected" => tunnel /\ ~asked /\ script = <<>>
  /\ (dial = "chosen" => want = 2) /\ (dial = "head" => want = 4) /\ (dial = "length" => want = 1)

\* What a dialled channel starts with is the peer's first frame.
TorInv ==
  /\ Sound /\ SocksOK
  /\ dial = "connected" => Stream(Undelivered)
  /\ dial \in Reading => Handshake

\* n zeros.
LEMMA FillFacts ==
  ASSUME NEW n \in Nat
  PROVE  Fill(n) \in Seq(Byte) /\ Len(Fill(n)) = n
<1>1. 0 \in Byte
  BY SocksAssumption
<1> QED
  BY <1>1 DEF Fill

\* A reply begins with its head.
LEMMA HeadFacts ==
  ASSUME NEW c \in Byte, NEW d \in Byte, NEW e \in Byte, NEW s \in Seq(Byte)
  PROVE  /\ <<c, d, e>> \o s \in Seq(Byte) /\ Len(<<c, d, e>> \o s) = 3 + Len(s)
         /\ (<<c, d, e>> \o s)[1] = c /\ (<<c, d, e>> \o s)[2] = d
         /\ \A i \in 1 .. Len(s) : (<<c, d, e>> \o s)[3 + i] = s[i]
<1> DEFINE h == <<c, d, e>>
<1>1. h \in Seq(Byte) /\ Len(h) = 3 /\ h[1] = c /\ h[2] = d
  OBVIOUS
<1> HIDE DEF h
<1>2. /\ h \o s \in Seq(Byte) /\ Len(h \o s) = Len(h) + Len(s)
      /\ \A i \in 1 .. Len(h) : (h \o s)[i] = h[i]
      /\ \A i \in 1 .. Len(s) : (h \o s)[Len(h) + i] = s[i]
  <2>1. h \in Seq(Byte)
    BY <1>1
  <2> QED
    BY <2>1, ConcatFacts
<1> QED
  BY <1>1, <1>2 DEF h

\* The replies that open the tunnel.
LEMMA GrantedFacts ==
  ASSUME NEW r \in Granted
  PROVE  r \in Seq(Byte) /\ Granting(r)
<1>0. {0, 1, 3, 4, 5} \subseteq Byte /\ V4Len \in Nat /\ V6Len \in Nat
  BY SocksAssumption
<1>1. PICK b \in Bound : r = <<5, 0, 0>> \o b
  BY DEF Granted
<1>2. ASSUME NEW t \in {1, 4}, NEW v \in Nat, b = <<t>> \o Fill(v + 2)
      PROVE  b \in Seq(Byte) /\ Len(b) = 1 + (v + 2) /\ b[1] = t
  <2> DEFINE h == <<t>>
  <2>1. h \in Seq(Byte) /\ Len(h) = 1 /\ h[1] = t
    BY <1>0
  <2> HIDE DEF h
  <2>2. PICK f \in Seq(Byte) : f = Fill(v + 2) /\ Len(f) = v + 2
    BY FillFacts
  <2>3. Joins(h, f)
    BY <2>1, JoinFacts
  <2> QED
    BY <1>2, <2>1, <2>2, <2>3 DEF h, Joins
<1>3. ASSUME NEW l \in NameLens, b = <<3, l>> \o Fill(l + 2)
      PROVE  b \in Seq(Byte) /\ Len(b) = 2 + (l + 2) /\ b[1] = 3 /\ b[2] = l /\ l \in Nat
  <2>0. l \in Byte /\ l \in Nat /\ 3 \in Byte
    BY <1>0, SocksAssumption DEF Byte
  <2> DEFINE h == <<3, l>>
  <2>1. h \in Seq(Byte) /\ Len(h) = 2 /\ h[1] = 3 /\ h[2] = l
    BY <2>0
  <2> HIDE DEF h
  <2>2. PICK f \in Seq(Byte) : f = Fill(l + 2) /\ Len(f) = l + 2
    BY <2>0, FillFacts
  <2>3. Joins(h, f)
    BY <2>1, JoinFacts
  <2> QED
    BY <1>3, <2>0, <2>1, <2>2, <2>3 DEF h, Joins
<1>4. ASSUME b \in Seq(Byte), Len(b) >= 1
      PROVE  /\ r \in Seq(Byte) /\ Len(r) = 3 + Len(b) /\ r[1] = 5 /\ r[2] = 0
             /\ r[4] = b[1] /\ (Len(b) >= 2 => r[5] = b[2])
  <2>1. /\ r \in Seq(Byte) /\ Len(r) = 3 + Len(b) /\ r[1] = 5 /\ r[2] = 0
        /\ \A i \in 1 .. Len(b) : r[3 + i] = b[i]
    BY <1>0, <1>1, <1>4, HeadFacts
  <2>2. Len(b) \in Nat
    BY <1>4, LenProperties
  <2>3. r[3 + 1] = b[1] /\ (Len(b) >= 2 => r[3 + 2] = b[2])
    BY <1>4, <2>1, <2>2
  <2> QED
    BY <2>1, <2>3
<1>5. CASE b = <<1>> \o Fill(V4Len + 2)
  <2>1. b \in Seq(Byte) /\ Len(b) = 1 + (V4Len + 2) /\ b[1] = 1
    BY <1>0, <1>2, <1>5
  <2> QED
    BY <1>0, <1>4, <2>1 DEF Granting
<1>6. CASE b = <<4>> \o Fill(V6Len + 2)
  <2>1. b \in Seq(Byte) /\ Len(b) = 1 + (V6Len + 2) /\ b[1] = 4
    BY <1>0, <1>2, <1>6
  <2> QED
    BY <1>0, <1>4, <2>1 DEF Granting
<1>7. CASE \E l \in NameLens : b = <<3, l>> \o Fill(l + 2)
  <2>1. PICK l \in NameLens : b = <<3, l>> \o Fill(l + 2)
    BY <1>7
  <2>2. b \in Seq(Byte) /\ Len(b) = 2 + (l + 2) /\ b[1] = 3 /\ b[2] = l /\ l \in Nat
    BY <1>3, <2>1
  <2>3. Len(b) >= 1 /\ Len(b) >= 2 /\ Len(b) \in Nat
    BY <2>2
  <2>4. r \in Seq(Byte) /\ Len(r) = 3 + Len(b) /\ r[1] = 5 /\ r[2] = 0 /\ r[4] = 3 /\ r[5] = l
    BY <1>4, <2>2, <2>3
  <2> QED
    BY <2>2, <2>4 DEF Granting
<1> QED
  BY <1>5, <1>6, <1>7 DEF Bound

\* The others.
LEMMA RepliesFacts ==
  ASSUME NEW r \in Replies, r \notin Granted
  PROVE  r \in Seq(Byte) /\ Refusing(r)
<1>0. /\ {0, 1, 3, 4, 5} \subseteq Byte /\ Codes \subseteq Byte
      /\ Others \subseteq Byte \ {0, 1, 3, 4, 5} /\ V4Len \in Nat
  BY SocksAssumption
<1>1. PICK f \in Seq(Byte) : f = Fill(V4Len + 3)
  BY <1>0, FillFacts
<1>2. CASE \E c \in Codes \ {0} : r = <<5, c, 0>> \o f
  <2>1. PICK c \in Codes \ {0} : r = <<5, c, 0>> \o f
    BY <1>2
  <2>2. r \in Seq(Byte) /\ r[2] = c /\ c # 0
    BY <1>0, <2>1, HeadFacts
  <2> QED
    BY <2>2 DEF Refusing
<1>3. CASE \E x \in Others : r = <<x, 0, 0>> \o f
  <2>1. PICK x \in Others : r = <<x, 0, 0>> \o f
    BY <1>3
  <2>2. r \in Seq(Byte) /\ r[1] = x /\ x # 5
    BY <1>0, <2>1, HeadFacts
  <2> QED
    BY <2>2 DEF Refusing
<1>4. CASE \E x \in Others : r = <<5, 0, 0, x>>
  <2>1. PICK x \in Others : r = <<5, 0, 0, x>>
    BY <1>4
  <2>2. r \in Seq(Byte) /\ r[4] = x /\ x \notin {1, 3, 4}
    BY <1>0, <2>1
  <2> QED
    BY <2>2 DEF Refusing
<1> QED
  BY <1>1, <1>2, <1>3, <1>4 DEF Replies

\* The answers to the greeting have two bytes.
LEMMA MethodFacts ==
  ASSUME NEW r \in MethodReplies
  PROVE  r \in Seq(Byte) /\ Len(r) = 2
<1>0. {0, 5} \subseteq Byte /\ Others \subseteq Byte
  BY SocksAssumption
<1>1. CASE r = <<5, 0>>
  BY <1>0, <1>1
<1>2. CASE \E x \in Others : r = <<5, x>> \/ r = <<x, 0>>
  <2>1. PICK x \in Others : r = <<5, x>> \/ r = <<x, 0>>
    BY <1>2
  <2>2. x \in Byte /\ 5 \in Byte /\ 0 \in Byte
    BY <1>0
  <2>3. <<5, x>> \in Seq(Byte) /\ Len(<<5, x>>) = 2
    BY <2>2
  <2>4. <<x, 0>> \in Seq(Byte) /\ Len(<<x, 0>>) = 2
    BY <2>2
  <2> QED
    BY <2>1, <2>3, <2>4
<1> QED
  BY <1>1, <1>2 DEF MethodReplies

\* Initially, and on an accepted socket, the stream is empty.
LEMMA InitTor == TorInit => TorInv
<1> SUFFICES ASSUME TorInit PROVE TorInv
  OBVIOUS
<1>1. Init /\ Sound /\ Stream(Undelivered)
  BY InitSound DEF TorInit, FramedInv
<1>2. /\ dial \in {"calling", "connected"} /\ got = <<>> /\ want = 0 /\ asked = FALSE
      /\ script = <<>> /\ tunnel = (dial = "connected")
  BY DEF TorInit
<1>3. Fresh /\ Unused /\ closed = FALSE /\ pipe = <<>>
  BY <1>1 DEF Init, Idle, Fresh, Unused
<1>4. got \in Seq(Byte) /\ script \in Seq(Byte)
  BY <1>2, EmptySeq
<1>5. SocksOK
  BY <1>2, <1>3, <1>4 DEF SocksOK
<1>6. dial \notin Reading
  BY <1>2 DEF Reading
<1> QED
  BY <1>1, <1>5, <1>6 DEF TorInv

\* The dialler's steps that read nothing.
LEMMA QuietDialStep == TorInv /\ (Greet \/ DialFails \/ ReplyEnds) => TorInv'
<1> SUFFICES ASSUME TorInv, Greet \/ DialFails \/ ReplyEnds PROVE TorInv'
  OBVIOUS
<1>1. SocksOK /\ Sound /\ dial # "connected" /\ Unused
  BY DEF TorInv, SocksOK, Greet, DialFails, ReplyEnds, Reading
<1>2. /\ UNCHANGED vars /\ UNCHANGED <<script, tunnel>> /\ got' = <<>>
      /\ dial' # "connected" /\ dial' # "calling"
  BY DEF Greet, DialFails, ReplyEnds, Await, Answer
<1>3. /\ UNCHANGED <<sends, sending, closed, sent, torn, late, pipe, recving, header, allocated>>
      /\ UNCHANGED <<payload, poisoned, received, sawClosed, reset>>
  BY <1>2 DEF vars, sender, receiver, frame
<1>4. Sound' /\ Unused' /\ (Fresh => Fresh')
  BY <1>1, <1>2, <1>3, VarsRest DEF Unused, Fresh
<1>5. got' \in Seq(Byte) /\ got' = <<>>
  BY <1>2, EmptySeq
<1>6. CASE DialFails \/ ReplyEnds
  <2>1. dial' = "failed" /\ want' = 0 /\ asked' = asked
    BY <1>6 DEF DialFails, ReplyEnds, Answer
  <2>2. SocksOK'
    BY <1>1, <1>2, <1>3, <1>4, <1>5, <2>1 DEF SocksOK
  <2> QED
    BY <1>4, <2>1, <2>2 DEF TorInv, Reading
<1>7. CASE Greet
  <2>1. dial = "calling" /\ dial' = "chosen" /\ want' = 2 /\ asked' = TRUE
    BY <1>7 DEF Greet, Await
  <2>2. ~tunnel /\ ~closed /\ pipe = <<>> /\ script = <<>> /\ Fresh
    BY <1>1, <2>1 DEF SocksOK
  <2>3. SocksOK'
    BY <1>1, <1>2, <1>3, <1>4, <1>5, <2>1, <2>2 DEF SocksOK
  <2>4. PICK e \in Seq(Byte) : e = <<>> /\ e \o e = e
    BY EmptySeq, ConcatEmptySeq
  <2>5. Reply((got \o e) \o e)'
    BY <1>2, <1>5, <2>1, <2>2, <2>4 DEF Reply
  <2>6. Parts(e, e, e)'
    BY <1>2, <1>3, <1>4, <2>2, <2>4, <2>5 DEF Parts
  <2> QED
    BY <1>4, <2>1, <2>3, <2>6 DEF TorInv, Handshake
<1> QED
  BY <1>6, <1>7

\* The proxy makes up its answer.
LEMMA AnswerStep == TorInv /\ ProxyAnswers => TorInv'
<1> SUFFICES ASSUME TorInv, ProxyAnswers PROVE TorInv'
  OBVIOUS
<1>1. SocksOK /\ Sound /\ dial # "connected" /\ dial # "calling" /\ Unused /\ asked /\ ~closed
  BY DEF TorInv, SocksOK, ProxyAnswers
<1>2. /\ UNCHANGED <<vars, dial, got, want>> /\ asked' = FALSE
      /\ script' \in (IF dial = "chosen" THEN MethodReplies ELSE Replies)
      /\ tunnel' = (script' \in Granted)
  BY DEF ProxyAnswers
<1>3. /\ UNCHANGED <<sends, sending, closed, sent, torn, late, pipe, recving, header, allocated>>
      /\ UNCHANGED <<payload, poisoned, received, sawClosed, reset>>
  BY <1>2 DEF vars, sender, receiver, frame
<1>4. Sound' /\ Unused' /\ (Fresh => Fresh') /\ \A B : Stream(B) => Stream(B)'
  BY <1>1, <1>2, <1>3, VarsRest DEF Unused, Fresh
<1>5. script' \in Seq(Byte)
  BY <1>2, MethodFacts, GrantedFacts, RepliesFacts
<1>6. ASSUME dial = "chosen" PROVE ~tunnel' /\ Len(script') = 2
  <2>1. Len(script') = 2
    BY <1>2, <1>6, MethodFacts
  <2>2. script' \notin Granted
    BY <2>1, GrantedFacts DEF Granting
  <2> QED
    BY <1>2, <2>1, <2>2
<1>7. ASSUME Fresh PROVE TorInv'
  <2>1. SocksOK'
    <3>1. tunnel' \in BOOLEAN /\ asked' = FALSE /\ closed' = closed /\ pipe' = pipe
      BY <1>2, <1>3
    <3> QED
      BY <1>1, <1>2, <1>4, <1>5, <1>7, <3>1 DEF SocksOK
  <2>2. CASE dial \notin Reading
    BY <1>1, <1>2, <1>4, <2>1, <2>2 DEF TorInv
  <2>3. CASE dial \in Reading
    <3>1. PICK a \in Seq(Byte), b \in Seq(Byte), todo \in Seq(Byte) : Parts(a, b, todo)
      BY <2>3 DEF TorInv, Handshake
    <3>2. (got \o a) \o todo = <<>> /\ b = <<>> /\ dial \in {"chosen", "head"} /\ ~tunnel
      BY <1>1, <3>1 DEF Parts, Reply
    <3>3. got = <<>> /\ a = <<>>
      <4>1. PICK g \in Seq(Byte) : g = got
        BY <1>1 DEF SocksOK
      <4>2. g \o a \in Seq(Byte)
        BY ConcatProperties
      <4>3. g \o a = <<>>
        BY <3>2, <4>1, <4>2, ConcatEqualIffEmpty
      <4> QED
        BY <4>1, <4>3, ConcatEqualIffEmpty
    <3>4. PICK e \in Seq(Byte), s \in Seq(Byte) : e = <<>> /\ e \o e = e /\ s = script' /\ e \o s = s
      BY <1>5, EmptySeq, ConcatEmptySeq
    <3>5. pipe' = e \o e
      BY <1>3, <3>1, <3>2, <3>3, <3>4 DEF Parts
    <3>6. Reply((got \o e) \o s)'
      <4>1. CASE dial = "chosen"
        BY <1>2, <1>6, <3>3, <3>4, <4>1 DEF Reply
      <4>2. CASE dial = "head" /\ s \in Granted
        <5>1. Granting(s)
          BY <4>2, GrantedFacts
        <5> QED
          BY <1>2, <3>3, <3>4, <4>2, <5>1 DEF Reply
      <4>3. CASE dial = "head" /\ s \notin Granted
        <5>1. Refusing(s)
          BY <1>2, <3>4, <4>3, RepliesFacts
        <5> QED
          BY <1>2, <3>3, <3>4, <4>3, <5>1 DEF Reply
      <4> QED
        BY <3>2, <4>1, <4>2, <4>3
    <3>7. Stream(e)'
      <4>1. Stream(<<>>)
        BY <1>1, <1>7, FreshStream DEF Unused, Fresh
      <4> QED
        BY <1>4, <3>4, <4>1
    <3>8. Parts(e, e, s)'
      BY <1>2, <1>3, <1>4, <1>7, <3>4, <3>5, <3>6, <3>7 DEF Parts
    <3> QED
      BY <1>1, <1>2, <1>4, <2>1, <3>8 DEF TorInv, Handshake
  <2> QED
    BY <2>2, <2>3
<1> QED
  BY <1>1, <1>7 DEF SocksOK

\* The proxy writes bytes of its answer: they move from todo to the stream.
LEMMA WritesStep ==
  ASSUME NEW n \in 1 .. PipeCap
  PROVE  TorInv /\ ProxyWrites(n) => TorInv'
<1>0. SUFFICES ASSUME TorInv, ProxyWrites(n) PROVE TorInv'
  OBVIOUS
<1>1. /\ n \in 1 .. Len(script) /\ Len(pipe) + n <= PipeCap /\ ~closed
      /\ pipe' = pipe \o SubSeq(script, 1, n)
      /\ script' = SubSeq(script, n + 1, Len(script))
      /\ UNCHANGED <<sender, receiver, dial, got, want, asked, tunnel>>
  BY <1>0 DEF ProxyWrites
<1>2. /\ UNCHANGED <<sends, sending, closed, sent, torn, late, recving, header, allocated>>
      /\ UNCHANGED <<payload, poisoned, received, sawClosed, reset>>
  BY <1>1 DEF sender, receiver, frame
<1>3. SocksOK /\ Sound /\ script \in Seq(Byte) /\ pipe \in Seq(Byte)
  BY <1>0 DEF TorInv, SocksOK, Sound, PipeOK
<1>4. PICK l \in Nat, k \in Nat : l = Len(script) /\ k = n /\ k > 0 /\ k <= l
  <2>1. Len(script) \in Nat /\ PipeCap \in Nat
    BY <1>3, LenProperties, FramingAssumption
  <2> QED
    BY <1>1, <2>1
<1>5. PICK x \in Seq(Byte), z \in Seq(Byte) :
        x = SubSeq(script, 1, n) /\ z = script' /\ script = x \o z /\ Len(x) = n
  <2>1. Splits(script, k, Byte)
    BY <1>3, <1>4, SplitFacts
  <2> QED
    BY <1>1, <1>4, <2>1 DEF Splits
<1>6. script # <<>>
  BY <1>4, EmptySeq
<1>7. dial # "connected" /\ dial # "calling" /\ Fresh /\ Unused
  BY <1>3, <1>6 DEF SocksOK
<1>8. PipeOK'
  <2>1. pipe' \in Seq(Byte) /\ Len(pipe') = Len(pipe) + n
    BY <1>1, <1>3, <1>5, ConcatProperties
  <2> QED
    BY <1>1, <2>1 DEF PipeOK
<1>9. Sound' /\ \A B : Stream(B) => Stream(B)'
  BY <1>1, <1>3, <1>7, <1>8, PipeRests DEF Unused
<1>10. Fresh' /\ Unused'
  BY <1>2, <1>7 DEF Fresh, Unused
<1>11. SocksOK'
  BY <1>1, <1>2, <1>3, <1>5, <1>7, <1>10 DEF SocksOK
<1>12. CASE dial \notin Reading
  BY <1>1, <1>7, <1>9, <1>11, <1>12 DEF TorInv
<1>13. CASE dial \in Reading
  <2>1. PICK a \in Seq(Byte), b \in Seq(Byte), todo \in Seq(Byte) : Parts(a, b, todo)
    BY <1>0, <1>13 DEF TorInv, Handshake
  <2>2. /\ pipe = a \o b /\ todo = script /\ b = <<>>
        /\ Reply((got \o a) \o todo) /\ (tunnel => Stream(b))
    BY <1>1, <1>6, <2>1 DEF Parts
  <2>3. PICK g \in Seq(Byte), c \in Seq(Byte) : g = got /\ c = a \o x
    BY <1>3, ConcatProperties DEF SocksOK
  <2>4. (got \o c) \o z = (got \o a) \o todo
    <3>1. g \o a \in Seq(Byte)
      BY ConcatProperties
    <3>2. Associates(g, a, x)
      BY Associative
    <3>3. Associates(g \o a, x, z)
      BY <3>1, Associative
    <3> QED
      BY <1>5, <2>2, <2>3, <3>2, <3>3 DEF Associates
  <2>5. pipe' = c \o b
    <3>1. a \o b = a /\ c \o b = c
      BY <2>2, ConcatEmptySeq
    <3> QED
      BY <1>1, <1>5, <2>2, <2>3, <3>1
  <2>6. Reply((got \o c) \o z)'
    BY <1>1, <2>2, <2>4 DEF Reply
  <2>7. Parts(c, b, z)'
    BY <1>1, <1>5, <1>9, <1>10, <2>2, <2>5, <2>6 DEF Parts
  <2> QED
    BY <1>1, <1>7, <1>9, <1>11, <2>7 DEF TorInv, Handshake
<1> QED
  BY <1>12, <1>13

\* The proxy goes away: what it has not written never comes.
LEMMA ClosesStep == TorInv /\ ProxyCloses => TorInv'
<1> SUFFICES ASSUME TorInv, ProxyCloses PROVE TorInv'
  OBVIOUS
<1>1. /\ ~closed /\ dial # "calling" /\ (~tunnel \/ script # <<>>)
      /\ closed' = TRUE /\ script' = <<>>
      /\ UNCHANGED <<sends, sending, sent, torn, late, pipe, receiver, dial, got, want, asked, tunnel>>
  BY DEF ProxyCloses
<1>2. UNCHANGED <<recving, header, allocated, payload, poisoned, received, sawClosed, reset>>
  BY <1>1 DEF receiver, frame
<1>3. SocksOK /\ Sound /\ Fresh /\ Unused /\ dial # "connected"
  BY <1>1 DEF TorInv, SocksOK
<1>4. Fresh' /\ Unused' /\ Unwritten' = Unwritten /\ Written' = Written /\ ~sending.busy
  BY <1>1, <1>2, <1>3 DEF Fresh, Unused, Unwritten, Written
<1>5. SenderInv'
  BY <1>1, <1>3, <1>4 DEF Sound, SenderInv
<1>6. Sound'
  BY <1>1, <1>2, <1>3, <1>5 DEF Sound, ReceiverInv, PipeOK, Intact, Quiet, Unused
<1>7. \A B : Stream(B) => Stream(B)'
  BY <1>1, <1>2, <1>4 DEF Stream
<1>8. SocksOK'
  <2>1. script' \in Seq(Byte)
    BY <1>1, EmptySeq
  <2> QED
    BY <1>1, <1>3, <1>4, <2>1 DEF SocksOK
<1>9. ASSUME dial \in Reading PROVE Handshake'
  <2>1. PICK a \in Seq(Byte), b \in Seq(Byte), todo \in Seq(Byte) : Parts(a, b, todo)
    BY <1>9 DEF TorInv, Handshake
  <2>2. Reply((got \o a) \o todo)'
    BY <1>1, <2>1 DEF Parts, Reply
  <2>3. Parts(a, b, todo)'
    BY <1>1, <1>4, <1>7, <2>1, <2>2 DEF Parts
  <2> QED
    BY <2>3 DEF Handshake
<1> QED
  BY <1>1, <1>3, <1>6, <1>8, <1>9 DEF TorInv

\* The peer sends through the tunnel, behind the whole reply.
LEMMA PeerStepInv == TorInv /\ PeerStep => TorInv'
<1> SUFFICES ASSUME TorInv, PeerStep PROVE TorInv'
  OBVIOUS
<1>1. tunnel /\ script = <<>> /\ SenderNext /\ UNCHANGED socks
  BY DEF PeerStep
<1>2. UNCHANGED <<dial, got, want, asked, script, tunnel>>
  BY <1>1 DEF socks
<1>3. SocksOK /\ Sound
  BY DEF TorInv
<1>4. Sound' /\ (Stream(Undelivered) => Stream(Undelivered)')
  BY <1>1, <1>3, SenderSound
<1>5. SenderInv /\ PipeOK /\ Len(received) \in Nat
  <2>1. received \in Seq(Seq(Byte))
    BY <1>3 DEF Sound, ReceiverInv
  <2> QED
    BY <1>3, <2>1, LenProperties DEF Sound
<1>6. UNCHANGED receiver /\ ~closed
  <2>1. UNCHANGED receiver
    BY <1>1, <1>5, SenderStep
  <2>2. ~closed
    BY <1>1, <1>5 DEF SenderNext, Send, Write, SendDone, SendAborts, Close, SenderInv, CurrentFrame
  <2> QED
    BY <2>1, <2>2
<1>7. PICK x \in Seq(Byte) :
        pipe' = pipe \o x /\ \A B \in Seq(Byte) : Stream(B) => Stream(B \o x)'
  BY <1>1, <1>5, SenderStep
<1>8. Unused => Unused'
  BY <1>6 DEF receiver, frame, Unused
<1>9. SocksOK'
  BY <1>1, <1>2, <1>3, <1>8 DEF SocksOK
<1>10. dial' = "connected" => Stream(Undelivered)'
  BY <1>2, <1>4 DEF TorInv
<1>11. ASSUME dial \in Reading PROVE Handshake'
  <2>1. PICK a \in Seq(Byte), b \in Seq(Byte), todo \in Seq(Byte) : Parts(a, b, todo)
    BY <1>11 DEF TorInv, Handshake
  <2>2. /\ pipe = a \o b /\ todo = <<>> /\ todo = script
        /\ Reply((got \o a) \o todo) /\ Stream(b)
    BY <1>1, <1>6, <2>1 DEF Parts
  <2>3. PICK c \in Seq(Byte) : c = b \o x
    BY ConcatProperties
  <2>4. pipe' = a \o c
    <3>1. Associates(a, b, x)
      BY Associative
    <3> QED
      BY <1>7, <2>2, <2>3, <3>1 DEF Associates
  <2>5. Stream(c)'
    <3>1. Stream(b \o x)'
      BY <1>7, <2>2
    <3> QED
      BY <2>3, <3>1
  <2>6. Reply((got \o a) \o todo)'
    BY <1>2, <2>2 DEF Reply
  <2>7. Parts(a, c, todo)'
    BY <1>1, <1>2, <2>2, <2>4, <2>5, <2>6 DEF Parts
  <2> QED
    BY <2>7 DEF Handshake
<1> QED
  BY <1>2, <1>4, <1>9, <1>10, <1>11 DEF TorInv

\* The application receives from the channel it was given.
LEMMA FramedStep == TorInv /\ Framed /\ ReceiverNext => TorInv' /\ Shows /\ UNCHANGED sender
<1> SUFFICES ASSUME TorInv, Framed, ReceiverNext PROVE TorInv' /\ Shows /\ UNCHANGED sender
  OBVIOUS
<1>1. dial = "connected" /\ UNCHANGED <<dial, got, want, asked, script, tunnel>>
  BY DEF Framed, socks
<1>2. Sound' /\ Stream(Undelivered)' /\ Shows /\ UNCHANGED sender
  BY <1>1, ReceiverStep DEF TorInv
<1>3. SocksOK'
  BY <1>1, <1>2 DEF TorInv, SocksOK, sender
<1>4. dial \notin Reading
  BY <1>1 DEF Reading
<1> QED
  BY <1>1, <1>2, <1>3, <1>4 DEF TorInv

\* A read of the dialler's takes its n bytes from those of the reply, and leaves
\* the others of the reply, c, in front of the frames, b.
Takes(n, x, c, b, todo) ==
  /\ Len(x) = n /\ x = SubSeq(pipe, 1, n) /\ SubSeq(pipe, n + 1, Len(pipe)) = c \o b
  /\ ~closed => todo = script
  /\ ~tunnel \/ todo # <<>> => b = <<>> /\ Fresh
  /\ Reply(((got \o x) \o c) \o todo)
  /\ tunnel => Stream(b)

\* The bytes of a read are never those of a frame: what a read asks for is no more
\* than what is left of the reply.
LEMMA TakesFacts ==
  ASSUME NEW n \in 1 .. PipeCap
  PROVE  TorInv /\ ReadReply(n) =>
           ~asked /\ \E x, c, b, todo \in Seq(Byte) : Takes(n, x, c, b, todo)
<1>0. SUFFICES ASSUME TorInv, ReadReply(n)
               PROVE  ~asked /\ \E x, c, b, todo \in Seq(Byte) : Takes(n, x, c, b, todo)
  OBVIOUS
<1>1. dial \in Reading /\ n \in 1 .. want - Len(got) /\ n <= Len(pipe)
  BY <1>0 DEF ReadReply
<1>2. SocksOK /\ pipe \in Seq(Byte)
  BY <1>0 DEF TorInv, Sound, PipeOK
<1>3. PICK a \in Seq(Byte), b \in Seq(Byte), todo \in Seq(Byte) : Parts(a, b, todo)
  BY <1>0, <1>1 DEF TorInv, Handshake
<1>4. /\ pipe = a \o b /\ (~closed => todo = script)
      /\ (~tunnel \/ todo # <<>> => b = <<>> /\ Fresh)
      /\ Reply((got \o a) \o todo) /\ (tunnel => Stream(b))
  BY <1>3 DEF Parts
<1>5. PICK g \in Seq(Byte), w \in Nat, k \in Nat : g = got /\ w = want /\ k = n
  <2>1. n \in Nat
    BY FramingAssumption
  <2> QED
    BY <1>2, <2>1 DEF SocksOK
<1>6. PICK lg \in Nat, la \in Nat, lb \in Nat, lt \in Nat :
        lg = Len(g) /\ la = Len(a) /\ lb = Len(b) /\ lt = Len(todo)
  BY LenProperties
<1>7. k > 0 /\ k <= w - lg /\ k <= la + lb
  <2>1. Len(pipe) = la + lb
    BY <1>4, <1>6, ConcatProperties
  <2> QED
    BY <1>1, <1>5, <1>6, <2>1
<1>8. g \o a \in Seq(Byte) /\ Len((g \o a) \o todo) = (lg + la) + lt
  <2>1. g \o a \in Seq(Byte) /\ Len(g \o a) = lg + la
    BY <1>6, ConcatProperties
  <2> QED
    BY <1>6, <2>1, ConcatProperties
<1>9. ~asked
  <2>1. ASSUME asked PROVE FALSE
    <3>1. (g \o a) \o todo = <<>> /\ b = <<>>
      BY <1>2, <1>4, <1>5, <2>1 DEF Reply, SocksOK
    <3>2. (lg + la) + lt = 0 /\ lb = 0
      BY <1>6, <1>8, <3>1
    <3> QED
      BY <1>7, <3>2
  <2> QED
    BY <2>1
<1>10. k <= la
  <2>1. CASE ~tunnel \/ todo # <<>>
    <3>1. lb = 0
      BY <1>4, <1>6, <2>1
    <3> QED
      BY <1>7, <3>1
  <2>2. CASE tunnel /\ todo = <<>>
    <3> DEFINE r == (g \o a) \o todo
    <3>1. w <= Len(r)
      <4>1. r \in Seq(Byte)
        BY <1>8, ConcatProperties
      <4>2. Len(r) \in Nat
        BY <1>8
      <4>3. Reply(r)
        BY <1>4, <1>5
      <4> HIDE DEF r
      <4>4. CASE dial = "head"
        <5>1. want = 4
          BY <1>2, <4>4 DEF SocksOK
        <5>2. Len(r) >= 5
          BY <1>9, <2>2, <4>3, <4>4 DEF Reply, Granting
        <5> QED
          BY <1>5, <4>2, <5>1, <5>2
      <4>5. CASE dial = "length"
        <5>1. want = 1
          BY <1>2, <4>5 DEF SocksOK
        <5>2. Len(r) >= 1
          BY <1>9, <2>2, <4>3, <4>5 DEF Reply
        <5> QED
          BY <1>5, <4>2, <5>1, <5>2
      <4>6. CASE dial = "bound"
        BY <1>5, <1>9, <2>2, <4>2, <4>3, <4>6 DEF Reply
      <4>7. CASE dial = "chosen"
        BY <1>9, <2>2, <4>3, <4>7 DEF Reply
      <4> QED
        BY <1>1, <4>4, <4>5, <4>6, <4>7 DEF Reading
    <3>2. lt = 0
      BY <1>6, <2>2
    <3>3. w <= lg + la
      BY <1>6, <1>8, <3>1, <3>2
    <3> QED
      BY <1>7, <3>3
  <2> QED
    BY <2>1, <2>2
<1>11. PICK x \in Seq(Byte), c \in Seq(Byte) : a = x \o c /\ Len(x) = n
  <2>1. Splits(a, k, Byte)
    BY <1>6, <1>10, SplitFacts
  <2> QED
    BY <1>5, <2>1 DEF Splits
<1>12. x = SubSeq(pipe, 1, n) /\ SubSeq(pipe, n + 1, Len(pipe)) = c \o b
  <2>1. Pieces(x, c, b)
    BY PiecesFacts
  <2>2. pipe = (x \o c) \o b
    BY <1>4, <1>11
  <2> QED
    BY <1>11, <2>1, <2>2 DEF Pieces
<1>13. (g \o x) \o c = g \o a
  <2>1. Associates(g, x, c)
    BY Associative
  <2> QED
    BY <1>11, <2>1 DEF Associates
<1>14. Takes(n, x, c, b, todo)
  BY <1>4, <1>5, <1>11, <1>12, <1>13 DEF Takes
<1> QED
  BY <1>9, <1>14

\* The buffer of read_exact is full of the bytes f, and s is the rest of the
\* reply: what the dialler waits for next is what the proxy still gives.
LEMMA FullFacts ==
  ASSUME NEW f \in Seq(Byte), NEW s \in Seq(Byte)
  PROVE  /\ SocksOK /\ ~asked /\ Len(f) = want /\ Reply(f \o s) /\ tunnel' = tunnel
         /\ \/ dial = "chosen" /\ Chosen(f)
            \/ dial = "head" /\ Head4(f)
            \/ dial = "length" /\ NameLength(f)
            \/ dial = "bound" /\ Answer("connected")
         => /\ got' = <<>> /\ want' \in Nat /\ asked' \in BOOLEAN /\ (asked' => ~tunnel)
            /\ dial' # "calling"
            /\ (dial' = "chosen" => want' = 2) /\ (dial' = "head" => want' = 4)
            /\ (dial' = "length" => want' = 1)
            /\ dial' \in Reading => Reply(s)'
            /\ dial' = "connected" => tunnel /\ ~asked' /\ s = <<>>
<1>0. SUFFICES ASSUME SocksOK, ~asked, Len(f) = want, Reply(f \o s), tunnel' = tunnel,
                      \/ dial = "chosen" /\ Chosen(f)
                      \/ dial = "head" /\ Head4(f)
                      \/ dial = "length" /\ NameLength(f)
                      \/ dial = "bound" /\ Answer("connected")
               PROVE  /\ got' = <<>> /\ want' \in Nat /\ asked' \in BOOLEAN
                      /\ (asked' => ~tunnel) /\ dial' # "calling"
                      /\ (dial' = "chosen" => want' = 2) /\ (dial' = "head" => want' = 4)
                      /\ (dial' = "length" => want' = 1)
                      /\ dial' \in Reading => Reply(s)'
                      /\ dial' = "connected" => tunnel /\ ~asked' /\ s = <<>>
  OBVIOUS
<1>1. PICK lf \in Nat, ls \in Nat : lf = Len(f) /\ ls = Len(s)
  BY LenProperties
<1> DEFINE r == f \o s
<1>2. /\ r \in Seq(Byte) /\ Len(r) = lf + ls
      /\ \A i \in 1 .. lf : r[i] = f[i]
      /\ \A i \in 1 .. ls : r[lf + i] = s[i]
  BY <1>1, ConcatFacts
<1>3. Reply(r)
  BY <1>0
<1> HIDE DEF r
<1>4. lf = want /\ asked \in BOOLEAN /\ want \in Nat
  BY <1>0, <1>1 DEF SocksOK
<1>5. ls = 0 => s = <<>>
  BY <1>1, EmptySeq
<1>6. CASE dial = "chosen" /\ Chosen(f)
  <2>1. lf = 2 /\ ~tunnel /\ lf + ls = 2
    BY <1>0, <1>2, <1>3, <1>4, <1>6 DEF SocksOK, Reply
  <2>2. s = <<>>
    BY <1>5, <2>1
  <2>3. CASE f = <<5, 0>>
    <3>1. dial' = "head" /\ want' = 4 /\ got' = <<>> /\ asked' = TRUE
      BY <1>6, <2>3 DEF Chosen, Await
    <3>2. Reply(s)'
      BY <1>0, <2>1, <2>2, <3>1 DEF Reply
    <3> QED
      BY <2>1, <3>1, <3>2
  <2>4. CASE f # <<5, 0>>
    <3>1. dial' = "failed" /\ got' = <<>> /\ want' = 0 /\ asked' = asked
      BY <1>6, <2>4 DEF Chosen, Answer
    <3> QED
      BY <1>0, <1>4, <3>1 DEF Reading
  <2> QED
    BY <2>3, <2>4
<1>7. CASE dial = "head" /\ Head4(f)
  <2>1. lf = 4
    BY <1>4, <1>7, <1>0 DEF SocksOK
  <2>2. r[1] = f[1] /\ r[2] = f[2] /\ r[4] = f[4]
    BY <1>2, <2>1
  <2>3. CASE got' = <<>> /\ dial' \in {"failed", "unreachable"} /\ want' = 0 /\ asked' = asked
    BY <1>0, <1>4, <2>3 DEF Reading
  <2>4. CASE f[1] = 5 /\ f[2] = 0 /\ BoundAddress(f[4]) /\ f[4] \in {1, 3, 4}
    <3>1. tunnel /\ Granting(r)
      <4>1. ~Refusing(r)
        BY <1>2, <2>1, <2>2, <2>4 DEF Refusing
      <4> QED
        BY <1>0, <1>3, <1>7, <4>1 DEF Reply
    <3>2. CASE f[4] = 1
      <4>1. dial' = "bound" /\ want' = V4Len + 2 /\ got' = <<>> /\ asked' = asked
        BY <2>4, <3>2 DEF BoundAddress, Await
      <4>2. ls = V4Len + 2 /\ want' \in Nat
        BY <1>2, <2>1, <2>2, <3>1, <3>2, <4>1, SocksAssumption DEF Granting
      <4>3. Reply(s)'
        BY <1>0, <1>1, <3>1, <4>1, <4>2 DEF Reply
      <4> QED
        BY <1>0, <1>4, <4>1, <4>2, <4>3
    <3>3. CASE f[4] = 4
      <4>1. dial' = "bound" /\ want' = V6Len + 2 /\ got' = <<>> /\ asked' = asked
        BY <2>4, <3>3 DEF BoundAddress, Await
      <4>2. ls = V6Len + 2 /\ want' \in Nat
        BY <1>2, <2>1, <2>2, <3>1, <3>3, <4>1, SocksAssumption DEF Granting
      <4>3. Reply(s)'
        BY <1>0, <1>1, <3>1, <4>1, <4>2 DEF Reply
      <4> QED
        BY <1>0, <1>4, <4>1, <4>2, <4>3
    <3>4. CASE f[4] = 3
      <4>1. dial' = "length" /\ want' = 1 /\ got' = <<>> /\ asked' = asked
        BY <2>4, <3>4 DEF BoundAddress, Await
      <4>2. Len(r) >= 5 /\ Len(r) = 4 + (r[5] + 3)
        BY <2>2, <3>1, <3>4 DEF Granting
      <4>3. ls >= 1
        BY <1>2, <2>1, <4>2
      <4>4. s[1] = r[5]
        BY <1>2, <2>1, <4>3
      <4>5. s[1] \in Nat
        <5>1. 1 \in 1 .. Len(s)
          BY <1>1, <4>3
        <5>2. s[1] \in Byte
          BY <5>1, ElementOfSeq
        <5> QED
          BY <5>2, FramingAssumption DEF Byte
      <4>6. ls = 1 + (s[1] + 2)
        BY <1>2, <2>1, <4>2, <4>4, <4>5
      <4>7. Reply(s)'
        BY <1>0, <1>1, <3>1, <4>1, <4>3, <4>6 DEF Reply
      <4> QED
        BY <1>0, <1>4, <4>1, <4>7
    <3> QED
      BY <2>4, <3>2, <3>3, <3>4
  <2>5. ASSUME NEW o, Answer(o), o \in {"failed", "unreachable"}
        PROVE  got' = <<>> /\ dial' \in {"failed", "unreachable"} /\ want' = 0 /\ asked' = asked
    BY <2>5 DEF Answer
  <2>6. CASE f[1] # 5
    BY <1>7, <2>3, <2>5, <2>6 DEF Head4
  <2>7. CASE f[1] = 5 /\ f[2] # 0
    <3>1. Answer("unreachable") \/ Answer("failed")
      BY <1>7, <2>7 DEF Head4
    <3> QED
      BY <2>3, <2>5, <3>1
  <2>8. CASE f[1] = 5 /\ f[2] = 0
    <3>1. BoundAddress(f[4])
      BY <1>7, <2>8 DEF Head4
    <3>2. CASE f[4] \in {1, 3, 4}
      BY <2>4, <2>8, <3>1, <3>2
    <3>3. CASE f[4] \notin {1, 3, 4}
      <4>1. Answer("failed")
        BY <3>1, <3>3 DEF BoundAddress
      <4> QED
        BY <2>3, <2>5, <4>1
    <3> QED
      BY <3>2, <3>3
  <2> QED
    BY <2>6, <2>7, <2>8
<1>8. CASE dial = "length" /\ NameLength(f)
  <2>1. lf = 1 /\ tunnel /\ Len(r) = 1 + (r[1] + 2)
    BY <1>0, <1>3, <1>4, <1>8 DEF SocksOK, Reply
  <2>2. r[1] = f[1] /\ f[1] \in Nat
    <3>1. 1 \in 1 .. Len(f) /\ 1 \in 1 .. lf
      BY <1>1, <2>1
    <3>2. f[1] \in Byte
      BY <3>1, ElementOfSeq
    <3> QED
      BY <1>2, <3>1, <3>2, FramingAssumption DEF Byte
  <2>3. dial' = "bound" /\ want' = f[1] + 2 /\ got' = <<>> /\ asked' = asked
    BY <1>8 DEF NameLength, Await
  <2>4. ls = want' /\ want' \in Nat
    BY <1>2, <2>1, <2>2, <2>3
  <2>5. Reply(s)'
    BY <1>0, <1>1, <2>1, <2>3, <2>4 DEF Reply
  <2> QED
    BY <1>0, <1>4, <2>3, <2>4, <2>5
<1>9. CASE dial = "bound" /\ Answer("connected")
  <2>1. dial' = "connected" /\ got' = <<>> /\ want' = 0 /\ asked' = asked
    BY <1>9 DEF Answer
  <2>2. tunnel /\ lf + ls = want
    BY <1>0, <1>2, <1>3, <1>9 DEF Reply
  <2>3. s = <<>>
    BY <1>4, <1>5, <2>2
  <2> QED
    BY <1>0, <1>4, <2>1, <2>2, <2>3 DEF Reading
<1> QED
  BY <1>0, <1>6, <1>7, <1>8, <1>9

\* The dialler reads.
LEMMA ReplyStep ==
  ASSUME NEW n \in 1 .. PipeCap
  PROVE  TorInv /\ ReadReply(n) => TorInv'
<1>0. SUFFICES ASSUME TorInv, ReadReply(n) PROVE TorInv'
  OBVIOUS
<1>1. SocksOK /\ Sound
  BY <1>0 DEF TorInv
<1>2. ~asked
  BY <1>0, TakesFacts
<1>3. PICK x \in Seq(Byte), c \in Seq(Byte), b \in Seq(Byte), todo \in Seq(Byte) :
        Takes(n, x, c, b, todo)
  BY <1>0, TakesFacts
<1>4. PICK g \in Seq(Byte), f \in Seq(Byte), s \in Seq(Byte) :
        g = got /\ f = g \o x /\ s = c \o todo
  BY <1>1, ConcatProperties DEF SocksOK
<1>5. /\ pipe' = c \o b /\ (~closed => todo = script)
      /\ (~tunnel \/ todo # <<>> => b = <<>> /\ Fresh)
      /\ Reply((f \o c) \o todo) /\ (tunnel => Stream(b))
  BY <1>0, <1>3, <1>4 DEF Takes, ReadReply
<1>6. dial # "connected" /\ dial # "calling" /\ Unused
  BY <1>0, <1>1 DEF ReadReply, Reading, SocksOK
<1>7. UNCHANGED <<sender, receiver, script, tunnel>>
  BY <1>0 DEF ReadReply
<1>8. /\ UNCHANGED <<sends, sending, closed, sent, torn, late, recving, header, allocated>>
      /\ UNCHANGED <<payload, poisoned, received, sawClosed, reset>>
  BY <1>7 DEF sender, receiver, frame
<1>9. PipeOK'
  <2>1. n <= Len(pipe) /\ pipe' = SubSeq(pipe, n + 1, Len(pipe)) /\ pipe \in Seq(Byte)
        /\ Len(pipe) <= PipeCap
    BY <1>0, <1>1 DEF ReadReply, Sound, PipeOK
  <2>2. n \in Nat /\ PipeCap \in Nat /\ Len(pipe) \in Nat
    BY <2>1, LenProperties, FramingAssumption
  <2>3. pipe' \in Seq(Byte) /\ Len(pipe') = Len(pipe) - n
    BY <2>1, <2>2, DropFacts
  <2> QED
    BY <2>1, <2>2, <2>3 DEF PipeOK
<1>10. Sound' /\ \A B : Stream(B) => Stream(B)'
  BY <1>1, <1>6, <1>7, <1>9, PipeRests DEF Unused
<1>11. Fresh => Fresh'
  BY <1>8 DEF Fresh
<1>12. Unused'
  BY <1>6, <1>8 DEF Unused
<1>13. CASE Len(f) < want /\ got' = f /\ UNCHANGED <<dial, want, asked>>
  <2>1. SocksOK'
    BY <1>1, <1>6, <1>7, <1>8, <1>11, <1>12, <1>13 DEF SocksOK
  <2>2. Reply((got \o c) \o todo)'
    BY <1>5, <1>7, <1>13 DEF Reply
  <2>3. Parts(c, b, todo)'
    BY <1>5, <1>7, <1>8, <1>10, <1>11, <2>2 DEF Parts
  <2> QED
    BY <1>6, <1>10, <1>13, <2>1, <2>3 DEF TorInv, Handshake
<1>14. CASE /\ Len(f) = want
            /\ \/ dial = "chosen" /\ Chosen(f)
               \/ dial = "head" /\ Head4(f)
               \/ dial = "length" /\ NameLength(f)
               \/ dial = "bound" /\ Answer("connected")
  <2>1. (f \o c) \o todo = f \o s
    <3>1. Associates(f, c, todo)
      BY Associative
    <3> QED
      BY <1>4, <3>1 DEF Associates
  <2>2. Reply(f \o s) /\ tunnel' = tunnel
    BY <1>5, <1>7, <2>1
  <2>3. /\ got' = <<>> /\ want' \in Nat /\ asked' \in BOOLEAN /\ (asked' => ~tunnel)
        /\ dial' # "calling"
        /\ (dial' = "chosen" => want' = 2) /\ (dial' = "head" => want' = 4)
        /\ (dial' = "length" => want' = 1)
        /\ (dial' \in Reading => Reply(s)')
        /\ (dial' = "connected" => tunnel /\ ~asked' /\ s = <<>>)
    BY <1>1, <1>2, <1>14, <2>2, FullFacts
  <2>4. s = <<>> => c = <<>> /\ todo = <<>> /\ pipe' = b
    <3>1. s = <<>> => c = <<>> /\ todo = <<>>
      <4>1. c \o todo = <<>> => c = <<>> /\ todo = <<>>
        BY ConcatEmptySeq, LenProperties, ConcatProperties, EmptySeq
      <4> QED
        BY <1>4, <4>1
    <3>2. c = <<>> => c \o b = b
      BY ConcatEmptySeq
    <3> QED
      BY <1>5, <3>1, <3>2
  <2>5. got' \in Seq(Byte)
    BY <2>3, EmptySeq
  <2>6. s = <<>> => script = <<>>
    BY <1>1, <1>5, <2>4 DEF SocksOK
  <2>7. SocksOK'
    BY <1>1, <1>6, <1>7, <1>8, <1>11, <1>12, <2>3, <2>5, <2>6 DEF SocksOK
  <2>8. ASSUME dial' \in Reading PROVE Handshake'
    <3>1. PICK e \in Seq(Byte) : e = <<>> /\ e \o c = c
      BY EmptySeq, ConcatEmptySeq
    <3>2. Reply((got \o c) \o todo)'
      BY <1>4, <2>3, <2>8, <3>1
    <3>3. Parts(c, b, todo)'
      BY <1>5, <1>7, <1>8, <1>10, <1>11, <3>2 DEF Parts
    <3> QED
      BY <3>3 DEF Handshake
  <2>9. ASSUME dial' = "connected" PROVE Stream(Undelivered)'
    <3>1. Stream(b)' /\ pipe' = b
      BY <1>5, <1>10, <2>3, <2>4, <2>9
    <3>2. Undelivered' = b
      <4>1. PICK e \in Seq(Byte) : e = <<>> /\ e \o e = e /\ e \o b = b
        BY EmptySeq, ConcatEmptySeq
      <4> QED
        BY <1>12, <3>1, <4>1 DEF Undelivered, Unused
    <3> QED
      BY <3>1, <3>2
  <2> QED
    BY <1>10, <2>7, <2>8, <2>9 DEF TorInv
<1> QED
  BY <1>0, <1>3, <1>4, <1>13, <1>14 DEF ReadReply, Takes

\* Nothing moves.
LEMMA TorStutters == TorInv /\ UNCHANGED torVars => TorInv'
<1> SUFFICES ASSUME TorInv, UNCHANGED torVars PROVE TorInv'
  OBVIOUS
<1>1. UNCHANGED vars /\ UNCHANGED <<dial, got, want, asked, script, tunnel>>
  BY DEF torVars, socks
<1>2. /\ UNCHANGED <<sends, sending, closed, sent, torn, late, pipe, recving, header, allocated>>
      /\ UNCHANGED <<payload, poisoned, received, sawClosed, reset>>
  BY <1>1 DEF vars, sender, receiver, frame
<1>3. SocksOK /\ Sound
  BY DEF TorInv
<1>4. Sound' /\ Undelivered' = Undelivered /\ \A B : Stream(B) => Stream(B)'
  BY <1>1, <1>3, VarsRest
<1>5. SocksOK'
  BY <1>1, <1>2, <1>3 DEF SocksOK, Fresh, Unused
<1>6. dial' = "connected" => Stream(Undelivered)'
  <2>1. PICK B : B = Undelivered
    OBVIOUS
  <2> QED
    BY <1>1, <1>4, <2>1 DEF TorInv
<1>7. ASSUME dial' \in Reading PROVE Handshake'
  <2>1. PICK a \in Seq(Byte), b \in Seq(Byte), todo \in Seq(Byte) : Parts(a, b, todo)
    BY <1>1, <1>7 DEF TorInv, Handshake
  <2>2. Reply((got \o a) \o todo)'
    BY <1>1, <2>1 DEF Parts, Reply
  <2>3. Parts(a, b, todo)'
    BY <1>1, <1>2, <1>4, <2>1, <2>2 DEF Parts, Fresh
  <2> QED
    BY <2>3 DEF Handshake
<1> QED
  BY <1>4, <1>5, <1>6, <1>7 DEF TorInv

\* The handshake takes exactly the bytes of the reply: whatever pieces the stream
\* comes in, what connect leaves on it, and what the channel it returns goes on
\* to receive, is the peer's frames from the first byte.
THEOREM TorInvariant == TorSpec => []TorInv
<1>1. TorInv /\ [TorNext]_torVars => TorInv'
  <2> SUFFICES ASSUME TorInv, [TorNext]_torVars PROVE TorInv'
    OBVIOUS
  <2>1. CASE Greet \/ DialFails \/ ReplyEnds
    BY <2>1, QuietDialStep
  <2>2. CASE ProxyAnswers
    BY <2>2, AnswerStep
  <2>3. CASE ProxyCloses
    BY <2>3, ClosesStep
  <2>4. CASE \E n \in 1 .. PipeCap : ReadReply(n)
    BY <2>4, ReplyStep
  <2>5. CASE \E n \in 1 .. PipeCap : ProxyWrites(n)
    BY <2>5, WritesStep
  <2>6. CASE PeerStep
    BY <2>6, PeerStepInv
  <2>7. CASE Framed /\ ReceiverNext
    BY <2>7, FramedStep
  <2>8. CASE UNCHANGED torVars
    BY <2>8, TorStutters
  <2> QED
    BY <2>1, <2>2, <2>3, <2>4, <2>5, <2>6, <2>7, <2>8 DEF TorNext
<1> QED
  BY <1>1, InitTor, PTL DEF TorSpec

\* The types, and the receiver's buffer is never beyond its limit, on a channel
\* of the tor backend too.
THEOREM TorTyped == TorSpec => []TypeOK
<1>1. TorInv => TypeOK
  BY SoundTyped DEF TorInv
<1> QED
  BY <1>1, TorInvariant, PTL

\* A dialled or accepted channel returns the messages sent, whole and in order.
THEOREM TorIntact == TorSpec => []Intact
<1>1. TorInv => Intact
  BY DEF TorInv, Sound
<1> QED
  BY <1>1, TorInvariant, PTL

\* The dialler and the proxy do nothing the contract speaks of.
LEMMA HandshakeRests ==
  \/ Greet \/ DialFails \/ ReplyEnds \/ ProxyAnswers \/ ProxyCloses
  \/ \E n \in 1 .. PipeCap : ReadReply(n) \/ ProxyWrites(n)
  => UNCHANGED <<sent, torn, late, received, poisoned, sawClosed, reset>>
<1>1. \/ Greet \/ DialFails \/ ReplyEnds \/ ProxyAnswers
      => UNCHANGED <<sent, torn, late, received, poisoned, sawClosed, reset>>
  BY DEF Greet, DialFails, ReplyEnds, ProxyAnswers, vars, sender, receiver, frame
<1>2. ProxyCloses => UNCHANGED <<sent, torn, late, received, poisoned, sawClosed, reset>>
  BY DEF ProxyCloses, receiver, frame
<1>3. ASSUME NEW n \in 1 .. PipeCap
      PROVE  ReadReply(n) \/ ProxyWrites(n)
             => UNCHANGED <<sent, torn, late, received, poisoned, sawClosed, reset>>
  BY DEF ReadReply, ProxyWrites, sender, receiver, frame
<1> QED
  BY <1>1, <1>2, <1>3

\* What the contract is about, and nothing else.
LEMMA HandshakeUnseen ==
  UNCHANGED <<sent, torn, late, received, poisoned, sawClosed, reset>>
  => UNCHANGED Contract!vars
  BY DEF Contract!vars

\* What a channel of the tor backend keeps of the contract is what a framed
\* channel keeps: the handshake is not seen.
THEOREM TorImplementsContract == TorSpec => ImplementsContract
<1>1. TorInit => Contract!Init
  BY InitRefines DEF TorInit
<1>2. TorInv /\ TorInv' /\ [TorNext]_torVars => [Contract!Next]_Contract!vars
  <2> SUFFICES ASSUME TorInv, TorInv', [TorNext]_torVars PROVE [Contract!Next]_Contract!vars
    OBVIOUS
  <2>1. CASE \/ Greet \/ DialFails \/ ReplyEnds \/ ProxyAnswers \/ ProxyCloses
             \/ \E n \in 1 .. PipeCap : ReadReply(n) \/ ProxyWrites(n)
    BY <2>1, HandshakeRests, HandshakeUnseen
  <2>2. CASE PeerStep
    BY <2>2, SenderRefines DEF PeerStep, TorInv, Sound, ReceiverInv
  <2>3. CASE Framed /\ ReceiverNext
    <3>1. Shows /\ UNCHANGED sender
      BY <2>3, FramedStep
    <3>2. Sound /\ Sound'
      BY DEF TorInv
    <3> QED
      BY <3>1, <3>2, ReceiverRefines
  <2>4. CASE UNCHANGED torVars
    BY <2>4 DEF torVars, vars, sender, receiver, frame, Contract!vars
  <2> QED
    BY <2>1, <2>2, <2>3, <2>4 DEF TorNext
<1> QED
  BY TorInvariant, <1>1, <1>2, PTL DEF TorSpec, ImplementsContract, Contract!Spec

\* Closed is the last answer of a channel, be it a clean end, a poisoned channel or
\* a reset, and even behind a torn frame: no message follows it.
THEOREM TorClosedIsFinal == TorSpec => [][sawClosed => sawClosed' /\ received' = received]_torVars
<1>1. TorInv /\ [TorNext]_torVars => [sawClosed => sawClosed' /\ received' = received]_torVars
  <2> SUFFICES ASSUME TorInv, TorNext, sawClosed PROVE sawClosed' /\ received' = received
    OBVIOUS
  <2>1. CASE \/ Greet \/ DialFails \/ ReplyEnds \/ ProxyAnswers \/ ProxyCloses
             \/ \E n \in 1 .. PipeCap : ReadReply(n) \/ ProxyWrites(n)
    BY <2>1, HandshakeRests
  <2>2. CASE PeerStep
    BY <2>2, SenderSends DEF PeerStep, TorInv, Sound
  <2>3. CASE Framed /\ ReceiverNext
    BY <2>3, FramedStep DEF Shows
  <2> QED
    BY <2>1, <2>2, <2>3 DEF TorNext
<1> QED
  BY <1>1, TorInvariant, PTL DEF TorSpec
==============================================================================
