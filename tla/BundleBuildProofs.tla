-------------------------- MODULE BundleBuildProofs --------------------------
(* Proofs about BundleBuild and about the formats of VendorFormats, for every *)
(* manifest, archive, download and command line, every word and page size.   *)
EXTENDS BundleBuild, FiniteSetTheorems, SequenceTheorems, WellFoundedInduction, TLAPS

-----------------------------------------------------------------------------
(* Numbers. *)

LEMMA LeastOf ==
  ASSUME NEW T \in SUBSET Nat, T # {} PROVE \E n \in T : \A t \in T : n <= t
<1> DEFINE R == OpToRel(<, Nat)
<1>1. IsWellFoundedOn(R, Nat)
  BY NatLessThanWellFounded
<1>2. PICK n \in T : \A t \in T : ~(<<t, n>> \in R)
  <2> HIDE DEF R
  <2> QED  BY <1>1, WFMin
<1>3. \A t \in T : t < n => <<t, n>> \in R
  BY DEF OpToRel
<1>4. \A t \in T : ~(t < n)
  BY <1>2, <1>3
<1> QED  BY <1>4

(* Upwards: a set that has 0 and, with a number, the next one. *)
LEMMA UpInduction ==
  ASSUME NEW n \in Nat, NEW S, 0 \in S, \A i \in 1 .. n : i - 1 \in S => i \in S
  PROVE  \A i \in 0 .. n : i \in S
<1> DEFINE T == {i \in 0 .. n : i \notin S}
<1> SUFFICES ASSUME T # {} PROVE FALSE
  OBVIOUS
<1>1. PICK m \in T : \A t \in T : m <= t
  <2>1. T \in SUBSET Nat
    OBVIOUS
  <2> HIDE DEF T
  <2> QED  BY <2>1, LeastOf
<1>2. m # 0 /\ m \in 1 .. n
  OBVIOUS
<1>3. m - 1 \notin T /\ m - 1 \in 0 .. n
  BY <1>1, <1>2
<1> QED  BY <1>1, <1>2, <1>3

(* What primitive recursion defines exists. *)
Follows(f, n, v, g) == f[0] = v /\ \A i \in 1 .. n : f[i] = g[i][f[i - 1]]

LEMMA Recursion ==
  ASSUME NEW n \in Nat, NEW V, NEW v \in V, NEW g \in [1 .. n -> [V -> V]]
  PROVE  \E f \in [0 .. n -> V] : Follows(f, n, v, g)
<1> DEFINE Upto(k, f) == /\ f \in [0 .. k -> V]
                         /\ f[0] = v
                         /\ \A i \in 1 .. k : f[i] = g[i][f[i - 1]]
           S == {k \in 0 .. n : \E f : Upto(k, f)}
<1>1. 0 \in S
  <2> DEFINE z == [i \in 0 .. 0 |-> v]
  <2>1. z \in [0 .. 0 -> V] /\ z[0] = v /\ \A i \in 1 .. 0 : z[i] = g[i][z[i - 1]]
    OBVIOUS
  <2>2. \E f : Upto(0, f)
    <3> HIDE DEF z
    <3> QED  BY <2>1
  <2> QED  BY <2>2
<1>2. ASSUME NEW k \in 1 .. n, k - 1 \in S PROVE k \in S
  <2>1. PICK f : Upto(k - 1, f)
    BY <1>2
  <2> DEFINE h == [i \in 0 .. k |-> IF i = k THEN g[k][f[k - 1]] ELSE f[i]]
  <2>2. f[k - 1] \in V /\ g[k][f[k - 1]] \in V
    BY <2>1
  <2>3. h \in [0 .. k -> V]
    BY <2>1, <2>2
  <2>4. h[0] = v
    BY <2>1
  <2>5. ASSUME NEW i \in 1 .. k PROVE h[i] = g[i][h[i - 1]]
    BY <2>1
  <2>6. \E e : Upto(k, e)
    <3> HIDE DEF h
    <3> QED  BY <2>3, <2>4, <2>5
  <2> HIDE DEF Upto
  <2> QED  BY <2>6
<1>3. n \in S
  <2> HIDE DEF S
  <2>1. \A i \in 1 .. n : i - 1 \in S => i \in S
    BY <1>2
  <2>2. \A i \in 0 .. n : i \in S
    BY <1>1, <2>1, UpInduction
  <2> QED  BY <2>2
<1>4. PICK f : Upto(n, f)
  BY <1>3
<1> QED  BY <1>4 DEF Follows

LEMMA Division ==
  ASSUME NEW b \in Int, b > 0, NEW a \in Int
  PROVE  a = b * (a \div b) + (a % b)
OBVIOUS

(* Quotient and remainder are the only ones. *)
LEMMA DivModIs ==
  ASSUME NEW b \in Nat \ {0}, NEW a \in Int
  PROVE  a \div b \in Int /\ a % b \in 0 .. b - 1 /\ a = b * (a \div b) + (a % b)
<1>1. a \div b \in Int
  OBVIOUS
<1>2. a % b \in 0 .. b - 1
  OBVIOUS
<1>3. a = b * (a \div b) + (a % b)
  <2>1. b \in Int /\ b > 0
    OBVIOUS
  <2> QED  BY <2>1, Division
<1> QED  BY <1>1, <1>2, <1>3

LEMMA DivModUnique ==
  ASSUME NEW b \in Nat \ {0}, NEW q \in Int, NEW r \in 0 .. b - 1,
         NEW q2 \in Int, NEW r2 \in 0 .. b - 1, b * q + r = b * q2 + r2
  PROVE  q = q2 /\ r = r2
<1>1. b * (q - q2) = r2 - r
  OBVIOUS
<1>2. ASSUME NEW d \in Int, d > 0 PROVE b * d >= b
  <2>1. PICK e \in Nat : d = e + 1
    <3>1. d - 1 \in Nat /\ d = (d - 1) + 1
      BY <1>2
    <3> QED  BY <3>1
  <2>2. b * d = b * e + b /\ b * e >= 0
    BY <2>1
  <2> QED  BY <2>2
<1>3. ~(q - q2 > 0)
  <2>1. SUFFICES ASSUME q - q2 > 0 PROVE FALSE
    OBVIOUS
  <2>2. b * (q - q2) >= b
    BY <1>2, <2>1
  <2> QED  BY <1>1, <2>2
<1>4. ~(q2 - q > 0)
  <2>1. SUFFICES ASSUME q2 - q > 0 PROVE FALSE
    OBVIOUS
  <2>2. b * (q2 - q) >= b
    BY <1>2, <2>1
  <2>3. b * (q2 - q) = r - r2
    OBVIOUS
  <2> QED  BY <2>2, <2>3
<1>5. q = q2
  BY <1>3, <1>4
<1> QED  BY <1>5

LEMMA DivModOf ==
  ASSUME NEW b \in Nat \ {0}, NEW q \in Int, NEW r \in 0 .. b - 1
  PROVE  (b * q + r) \div b = q /\ (b * q + r) % b = r
<1> DEFINE a == b * q + r
<1>1. a \in Int
  OBVIOUS
<1> HIDE DEF a
<1>2. a \div b \in Int /\ a % b \in 0 .. b - 1 /\ a = b * (a \div b) + (a % b)
  BY <1>1, DivModIs
<1>3. a = b * q + r
  BY DEF a
<1>4. a \div b = q /\ a % b = r
  BY <1>2, <1>3, DivModUnique
<1> QED  BY <1>4 DEF a

-----------------------------------------------------------------------------
(* The TAC coding. *)

Words == [1 .. WordLen -> Byte]

LEMMA WordLenIs == WordLen \in Nat \ {0}
BY KeyAssumption

LEMMA SameWord ==
  ASSUME NEW v \in Words, NEW w \in Words, \A i \in 1 .. WordLen : v[i] = w[i]
  PROVE  v = w
<1>1. v = [i \in 1 .. WordLen |-> v[i]] /\ w = [i \in 1 .. WordLen |-> w[i]]
  BY DEF Words
<1>2. [i \in 1 .. WordLen |-> v[i]] = [i \in 1 .. WordLen |-> w[i]]
  OBVIOUS
<1> QED  BY <1>1, <1>2

(* Byte i of word k, and back. *)
LEMMA PlaceOf ==
  ASSUME NEW n \in Nat, NEW k \in 1 .. n, NEW i \in 1 .. WordLen
  PROVE  /\ (k - 1) * WordLen + i \in 1 .. n * WordLen
         /\ ((k - 1) * WordLen + i - 1) \div WordLen = k - 1
         /\ ((k - 1) * WordLen + i - 1) % WordLen = i - 1
<1> DEFINE W == WordLen
           a == W * (k - 1) + (i - 1)
<1>1. W \in Nat \ {0} /\ k - 1 \in Nat /\ i - 1 \in 0 .. W - 1 /\ n - k \in Nat
  BY WordLenIs
<1>2. a \div W = k - 1 /\ a % W = i - 1
  <2> DEFINE q == k - 1
             r == i - 1
  <2>1. q \in Int /\ r \in 0 .. W - 1
    BY <1>1
  <2> HIDE DEF W, q, r
  <2>2. (W * q + r) \div W = q /\ (W * q + r) % W = r
    BY <1>1, <2>1, DivModOf
  <2> QED  BY <2>2 DEF q, r
<1>3. (k - 1) * W + i - 1 = a
  <2> HIDE DEF W
  <2> QED  BY <1>1
<1>4. (k - 1) * W + i \in 1 .. n * W
  <2>1. n * W = (k - 1) * W + W + (n - k) * W
    <3> HIDE DEF W
    <3> QED  BY <1>1
  <2>2. (n - k) * W \in Nat /\ (k - 1) * W \in Nat
    <3> HIDE DEF W
    <3> QED  BY <1>1
  <2> HIDE DEF W
  <2> QED  BY <1>1, <2>1, <2>2
<1> QED  BY <1>2, <1>3, <1>4

LEMMA WordOf ==
  ASSUME NEW n \in Nat, NEW j \in 1 .. n * WordLen
  PROVE  \E k \in 1 .. n, i \in 1 .. WordLen : j = (k - 1) * WordLen + i
<1> DEFINE W == WordLen
           q == (j - 1) \div W
           r == (j - 1) % W
<1>1. W \in Nat \ {0} /\ n * W \in Nat /\ j \in Nat \ {0}
  BY WordLenIs
<1>2. q \in Int /\ r \in 0 .. W - 1 /\ j - 1 = W * q + r
  <2> HIDE DEF W
  <2> QED  BY <1>1, DivModIs
<1> HIDE DEF W, q, r
<1>3. q >= 0
  <2>1. SUFFICES ASSUME q < 0 PROVE FALSE
    BY <1>2
  <2>2. -q - 1 \in Nat /\ W * (-q - 1) >= 0
    BY <1>1, <1>2, <2>1
  <2>3. W * (-q - 1) = -(W * q) - W
    BY <1>1, <1>2
  <2> QED  BY <1>1, <1>2, <2>2, <2>3
<1>4. q < n
  <2>1. SUFFICES ASSUME q >= n PROVE FALSE
    BY <1>2
  <2>2. q - n \in Nat /\ W * (q - n) >= 0
    BY <1>1, <1>2, <2>1
  <2>3. W * (q - n) = W * q - n * W
    BY <1>1, <1>2
  <2>4. j <= n * W
    BY DEF W
  <2> QED  BY <1>1, <1>2, <2>2, <2>3, <2>4
<1>5. q + 1 \in 1 .. n /\ r + 1 \in 1 .. W /\ j = ((q + 1) - 1) * W + (r + 1)
  <2>1. ((q + 1) - 1) * W = W * q
    BY <1>1, <1>2
  <2> QED  BY <1>1, <1>2, <1>3, <1>4, <2>1
<1> QED  BY <1>5 DEF W

LEMMA WordIs ==
  ASSUME NEW s \in Seq(Byte), NEW n \in Nat, Len(s) = n * WordLen, NEW k \in 1 .. n
  PROVE  /\ Word(s, k) \in Words
         /\ \A i \in 1 .. WordLen : Word(s, k)[i] = s[(k - 1) * WordLen + i]
<1> DEFINE W == WordLen
           m == (k - 1) * W + 1
           h == k * W
<1>1. W \in Nat \ {0} /\ k \in Nat /\ k - 1 \in Nat
  BY WordLenIs
<1>2. h = (m - 1) + W /\ m \in Nat /\ m >= 1 /\ h \in Int
  <2> HIDE DEF W
  <2>1. k * W = (k - 1) * W + W /\ (k - 1) * W \in Nat
    BY <1>1
  <2> QED  BY <1>1, <2>1
<1>3. h <= Len(s)
  <2>1. W \in 1 .. W
    BY <1>1
  <2>2. (k - 1) * W + W \in 1 .. n * W
    <3> HIDE DEF W
    <3> QED  BY <2>1, PlaceOf DEF W
  <2> HIDE DEF W
  <2> QED  BY <1>1, <1>2, <2>2 DEF W
<1>4. Word(s, k) = SubSeq(s, m, h)
  BY DEF Word
<1> HIDE DEF m, h
<1>5. /\ SubSeq(s, m, h) \in Seq(Byte)
      /\ Len(SubSeq(s, m, h)) = W
      /\ \A i \in 1 .. W : SubSeq(s, m, h)[i] = s[m + i - 1]
  <2>1. m \in 1 .. Len(s) + 1 /\ h \in m - 1 .. Len(s)
    <3> HIDE DEF W
    <3>1. Len(s) \in Nat
      OBVIOUS
    <3> QED  BY <1>1, <1>2, <1>3, <3>1
  <2>2. h - m + 1 = W
    <3> HIDE DEF W
    <3> QED  BY <1>1, <1>2
  <2> HIDE DEF W
  <2> QED  BY <1>1, <1>2, <2>1, <2>2, SubSeqProperties
<1>6. \A i \in 1 .. W : m + i - 1 = (k - 1) * W + i
  <2> TAKE i \in 1 .. W
  <2> HIDE DEF W
  <2> QED  BY <1>1 DEF m
<1>7. SubSeq(s, m, h) \in [1 .. W -> Byte]
  <2> DEFINE x == SubSeq(s, m, h)
  <2>1. x \in Seq(Byte) /\ Len(x) = W
    BY <1>5
  <2> HIDE DEF x, W
  <2>2. x \in [1 .. W -> Byte]
    BY <2>1
  <2> QED  BY <2>2 DEF x
<1> QED  BY <1>4, <1>5, <1>6, <1>7 DEF Words

(* Words, put after each other and read back. *)
LEMMA BytesAre ==
  ASSUME NEW n \in Nat, NEW w \in [1 .. n -> Words]
  PROVE  /\ Bytes(w) \in Seq(Byte) /\ Len(Bytes(w)) = n * WordLen
         /\ \A k \in 1 .. n, i \in 1 .. WordLen :
              Bytes(w)[(k - 1) * WordLen + i] = w[k][i]
         /\ \A k \in 1 .. n : Word(Bytes(w), k) = w[k]
<1> DEFINE W == WordLen
           N == n * W
<1>1. W \in Nat \ {0} /\ N \in Nat /\ Len(w) = n
  BY WordLenIs
<1>2. Bytes(w) = [j \in 1 .. N |-> w[(j - 1) \div W + 1][((j - 1) % W) + 1]]
  BY <1>1 DEF Bytes
<1> HIDE DEF N
<1>3. ASSUME NEW k \in 1 .. n, NEW i \in 1 .. W
      PROVE  Bytes(w)[(k - 1) * W + i] = w[k][i]
  <2> DEFINE j == (k - 1) * W + i
  <2>1. j \in 1 .. N /\ (j - 1) \div W = k - 1 /\ (j - 1) % W = i - 1
    <3>1. /\ (k - 1) * WordLen + i \in 1 .. n * WordLen
          /\ ((k - 1) * WordLen + i - 1) \div WordLen = k - 1
          /\ ((k - 1) * WordLen + i - 1) % WordLen = i - 1
      BY PlaceOf
    <3>2. ((k - 1) * WordLen + i) - 1 = (k - 1) * WordLen + (i - 1)
      <4> DEFINE m == (k - 1) * WordLen
      <4>1. m \in Int
        BY WordLenIs
      <4> HIDE DEF m
      <4>2. (m + i) - 1 = m + (i - 1)
        BY <4>1
      <4> QED  BY <4>2 DEF m
    <3> QED  BY <3>1, <3>2, Zenon DEF N
  <2> HIDE DEF j
  <2>2. Bytes(w)[j] = w[(j - 1) \div W + 1][((j - 1) % W) + 1]
    BY <1>2, <2>1
  <2>3. (k - 1) + 1 = k /\ (i - 1) + 1 = i
    OBVIOUS
  <2> QED  BY <2>1, <2>2, <2>3 DEF j
<1>4. ASSUME NEW j \in 1 .. N PROVE Bytes(w)[j] \in Byte
  <2>1. PICK k \in 1 .. n, i \in 1 .. W : j = (k - 1) * W + i
    BY WordOf DEF N
  <2>2. w[k][i] \in Byte
    BY DEF Words
  <2> QED  BY <1>3, <2>1, <2>2
<1>5. Bytes(w) \in [1 .. N -> Byte]
  <2>1. Bytes(w) = [j \in 1 .. N |-> Bytes(w)[j]]
    BY <1>2
  <2> QED  BY <1>4, <2>1
<1>6. Bytes(w) \in Seq(Byte) /\ Len(Bytes(w)) = N
  <2>1. Bytes(w) \in Seq(Byte)
    BY <1>1, <1>5, SeqDef
  <2> QED  BY <1>1, <1>5, <2>1
<1>7. ASSUME NEW k \in 1 .. n PROVE Word(Bytes(w), k) = w[k]
  <2>1. /\ Word(Bytes(w), k) \in Words
        /\ \A i \in 1 .. W : Word(Bytes(w), k)[i] = Bytes(w)[(k - 1) * W + i]
    <3> DEFINE b == Bytes(w)
    <3>1. b \in Seq(Byte) /\ Len(b) = n * W
      BY <1>6 DEF N
    <3> HIDE DEF b
    <3> QED  BY <3>1, WordIs DEF b
  <2>2. w[k] \in Words
    OBVIOUS
  <2>3. \A i \in 1 .. W : Word(Bytes(w), k)[i] = w[k][i]
    BY <1>3, <2>1
  <2> QED  BY <2>1, <2>2, <2>3, SameWord
<1> QED  BY <1>3, <1>6, <1>7 DEF N

LEMMA BytesOfWords ==
  ASSUME NEW s \in Seq(Byte), NEW n \in Nat, Len(s) = n * WordLen
  PROVE  Bytes([k \in 1 .. n |-> Word(s, k)]) = s
<1> DEFINE w == [k \in 1 .. n |-> Word(s, k)]
           W == WordLen
           N == n * W
<1>1. w \in [1 .. n -> Words] /\ \A k \in 1 .. n : w[k] = Word(s, k)
  BY WordIs
<1> HIDE DEF w
<1>2. /\ Bytes(w) \in Seq(Byte) /\ Len(Bytes(w)) = N
      /\ \A k \in 1 .. n, i \in 1 .. W : Bytes(w)[(k - 1) * W + i] = w[k][i]
  BY <1>1, BytesAre
<1>3. ASSUME NEW j \in 1 .. N PROVE Bytes(w)[j] = s[j]
  <2>1. PICK k \in 1 .. n, i \in 1 .. W : j = (k - 1) * W + i
    BY WordOf
  <2>2. Word(s, k)[i] = s[(k - 1) * W + i]
    BY WordIs
  <2> QED  BY <1>1, <1>2, <2>1, <2>2
<1>4. Bytes(w) = s
  <2> HIDE DEF N
  <2>1. Len(s) = N
    BY DEF N
  <2> QED  BY <1>2, <1>3, <2>1
<1> QED  BY <1>4 DEF w

LEMMA XorIs ==
  ASSUME NEW v \in Words, NEW w \in Words
  PROVE  /\ Xor(v, w) \in Words
         /\ \A i \in 1 .. WordLen : Xor(v, w)[i] = (v[i] \ w[i]) \cup (w[i] \ v[i])
<1>1. \A i \in 1 .. WordLen : (v[i] \ w[i]) \cup (w[i] \ v[i]) \in Byte
  BY DEF Words, Byte
<1> QED  BY <1>1 DEF Xor, Words

(* What was combined twice is gone. *)
LEMMA XorBack ==
  ASSUME NEW v \in Words, NEW w \in Words PROVE Xor(v, Xor(v, w)) = w
<1>1. Xor(v, w) \in Words
  BY XorIs
<1> DEFINE x == Xor(v, w)
<1>2. \A i \in 1 .. WordLen : x[i] = (v[i] \ w[i]) \cup (w[i] \ v[i])
  BY XorIs
<1> HIDE DEF x
<1>3. x \in Words
  BY <1>1 DEF x
<1>4. \A i \in 1 .. WordLen : Xor(v, x)[i] = (v[i] \ x[i]) \cup (x[i] \ v[i])
  BY <1>3, XorIs
<1>5. \A i \in 1 .. WordLen : Xor(v, x)[i] = w[i]
  <2> TAKE i \in 1 .. WordLen
  <2>1. (v[i] \ x[i]) \cup (x[i] \ v[i]) = w[i]
    BY <1>2
  <2> QED  BY <1>4, <2>1
<1>6. Xor(v, x) \in Words
  BY <1>3, XorIs
<1>7. Xor(v, x) = w
  BY <1>5, <1>6, SameWord
<1> QED  BY <1>7 DEF x

LEMMA KeyIs == \A k : Key(k) \in Words
<1>1. KeyStart \in Words /\ KeyFlip \in Words
  BY KeyAssumption DEF Words
<1>2. Xor(KeyStart, KeyFlip) \in Words
  BY <1>1, XorIs
<1> QED  BY <1>1, <1>2 DEF Key

LEMMA ZeroIs == Zero \in Words
BY DEF Zero, Words, Byte

LEMMA NibbleIs ==
  /\ \A b : Nibble(b) \in 0 .. 15
  /\ \A c \in 1 .. 15 : \E b \in SUBSET (0 .. 3) : Nibble(b) = c
<1>1. \A b : Nibble(b) \in 0 .. 15
  BY DEF Nibble
<1>2. ASSUME NEW p \in {0, 1}, NEW q \in {0, 1}, NEW r \in {0, 1}, NEW t \in {0, 1}
      PROVE  \E b \in SUBSET (0 .. 3) : Nibble(b) = p + 2 * q + 4 * r + 8 * t
  <2> DEFINE b == {i \in 0 .. 3 : \/ i = 0 /\ p = 1
                                  \/ i = 1 /\ q = 1
                                  \/ i = 2 /\ r = 1
                                  \/ i = 3 /\ t = 1}
  <2>1. /\ 0 \in b <=> p = 1
        /\ 1 \in b <=> q = 1
        /\ 2 \in b <=> r = 1
        /\ 3 \in b <=> t = 1
    OBVIOUS
  <2>2. b \in SUBSET (0 .. 3)
    OBVIOUS
  <2> HIDE DEF b
  <2>3. Nibble(b) = p + 2 * q + 4 * r + 8 * t
    BY <2>1 DEF Nibble
  <2> QED  BY <2>2, <2>3
<1>3. ASSUME NEW c \in 1 .. 15
      PROVE  \E p, q, r, t \in {0, 1} : c = p + 2 * q + 4 * r + 8 * t
  <2>1. PICK t \in {0, 1}, d \in 0 .. 7 : c = d + 8 * t
    <3>1. CASE c < 8
      <4>1. c \in 0 .. 7 /\ c = c + 8 * 0
        BY <3>1
      <4> QED  BY <4>1
    <3>2. CASE c >= 8
      <4>1. c - 8 \in 0 .. 7 /\ c = (c - 8) + 8 * 1
        BY <3>2
      <4> QED  BY <4>1
    <3> QED  BY <3>1, <3>2
  <2>2. PICK r \in {0, 1}, e \in 0 .. 3 : d = e + 4 * r
    <3>1. CASE d < 4
      <4>1. d \in 0 .. 3 /\ d = d + 4 * 0
        BY <3>1
      <4> QED  BY <4>1
    <3>2. CASE d >= 4
      <4>1. d - 4 \in 0 .. 3 /\ d = (d - 4) + 4 * 1
        BY <3>2
      <4> QED  BY <4>1
    <3> QED  BY <3>1, <3>2
  <2>3. PICK q \in {0, 1}, p \in {0, 1} : e = p + 2 * q
    <3>1. CASE e < 2
      <4>1. e \in {0, 1} /\ e = e + 2 * 0
        BY <3>1
      <4> QED  BY <4>1
    <3>2. CASE e >= 2
      <4>1. e - 2 \in {0, 1} /\ e = (e - 2) + 2 * 1
        BY <3>2
      <4> QED  BY <4>1
    <3> QED  BY <3>1, <3>2
  <2>4. c = p + 2 * q + 4 * r + 8 * t
    BY <2>1, <2>2, <2>3
  <2> QED  BY <2>4
<1>4. ASSUME NEW c \in 1 .. 15 PROVE \E b \in SUBSET (0 .. 3) : Nibble(b) = c
  <2>1. PICK p \in {0, 1}, q \in {0, 1}, r \in {0, 1}, t \in {0, 1} :
          c = p + 2 * q + 4 * r + 8 * t
    BY <1>3
  <2> QED  BY <1>2, <2>1
<1> QED  BY <1>1, <1>4

(* What decoding yields: bytes, as many as were read. *)
LEMMA StreamIs ==
  ASSUME NEW n \in Nat, NEW s \in Seq(Byte), Len(s) = n * WordLen
  PROVE  /\ decrypt_stream(s) \in Seq(Byte)
         /\ Len(decrypt_stream(s)) = n * WordLen
         /\ decrypt_stream(s) = Bytes([k \in 1 .. n |->
              Xor(Xor(IF k = 1 THEN Zero ELSE Word(s, k - 1), Key(k)), Word(s, k))])
<1> DEFINE w == [k \in 1 .. n |->
                   Xor(Xor(IF k = 1 THEN Zero ELSE Word(s, k - 1), Key(k)), Word(s, k))]
<1>1. Len(s) \div WordLen = n
  <2> DEFINE W == WordLen
             N == Len(s)
  <2>1. W \in Nat \ {0} /\ 0 \in 0 .. W - 1 /\ N = W * n + 0
    <3>1. W \in Nat \ {0} /\ N = n * W
      BY WordLenIs
    <3> HIDE DEF W, N
    <3> QED  BY <3>1
  <2> HIDE DEF W, N
  <2>2. (W * n + 0) \div W = n
    <3> DEFINE z == 0
    <3>1. z \in 0 .. W - 1
      BY <2>1
    <3> HIDE DEF z
    <3>2. (W * n + z) \div W = n
      BY <2>1, <3>1, DivModOf
    <3> QED  BY <3>2 DEF z
  <2> QED  BY <2>1, <2>2 DEF N, W
<1>2. decrypt_stream(s) = Bytes(w)
  BY <1>1 DEF decrypt_stream
<1>3. ASSUME NEW k \in 1 .. n
      PROVE  Xor(Xor(IF k = 1 THEN Zero ELSE Word(s, k - 1), Key(k)), Word(s, k)) \in Words
  <2>1. (IF k = 1 THEN Zero ELSE Word(s, k - 1)) \in Words
    <3>1. CASE k = 1
      BY <3>1, ZeroIs
    <3>2. CASE k # 1
      <4> DEFINE h == k - 1
      <4>1. h \in 1 .. n
        BY <3>2
      <4> HIDE DEF h
      <4>2. Word(s, h) \in Words
        BY <4>1, WordIs
      <4> QED  BY <3>2, <4>2 DEF h
    <3> QED  BY <3>1, <3>2
  <2>2. Word(s, k) \in Words
    BY WordIs
  <2> QED  BY <2>1, <2>2, KeyIs, XorIs
<1>4. w \in [1 .. n -> Words]
  BY <1>3
<1> HIDE DEF w
<1>5. Bytes(w) \in Seq(Byte) /\ Len(Bytes(w)) = n * WordLen
  BY <1>4, BytesAre
<1> QED  BY <1>2, <1>5 DEF w

(* A file that decodes does so to bytes. *)
LEMMA DecryptedIsBytes ==
  ASSUME NEW s \in Seq(Byte), decrypt_file(s) # Refused
  PROVE  decrypt_file(s) \in Seq(Byte)
<1> DEFINE output == decrypt_stream(s)
           padding == IF output = <<>> THEN 0 ELSE Nibble(Last(output))
           N == Len(s)
           W == WordLen
<1>1. Len(s) % WordLen = 0 /\ ~(padding > Len(output))
      /\ decrypt_file(s) = SubSeq(output, 1, Len(output) - padding)
  BY DEF decrypt_file
<1>2. W \in Nat \ {0} /\ N \in Nat /\ N % W = 0
  BY <1>1, WordLenIs
<1>3. \E n \in Nat : N = n * W
  <2> HIDE DEF W, N
  <2> DEFINE q == N \div W
  <2>1. q \in Int /\ N = W * q + (N % W)
    BY <1>2, DivModIs
  <2> HIDE DEF q
  <2>2. N = W * q
    BY <1>2, <2>1
  <2>3. q >= 0
    <3>1. SUFFICES ASSUME q < 0 PROVE FALSE
      BY <2>1
    <3>2. -q \in Nat \ {0} /\ W * (-q) >= 1
      BY <1>2, <2>1, <3>1
    <3> QED  BY <1>2, <2>1, <2>2, <3>2
  <2> QED  BY <1>2, <2>1, <2>2, <2>3
<1>4. PICK n \in Nat : N = n * W
  BY <1>3
<1>5. output \in Seq(Byte)
  <2> HIDE DEF output
  <2>1. Len(s) = n * WordLen
    BY <1>4
  <2> QED  BY <2>1, StreamIs DEF output
<1>6. padding \in Nat
  BY NibbleIs
<1> HIDE DEF output, padding, N, W
<1>7. Len(output) - padding \in 0 .. Len(output) /\ Len(output) \in Nat
  BY <1>1, <1>5, <1>6
<1>8. SubSeq(output, 1, Len(output) - padding) \in Seq(Byte)
  <2> DEFINE h == Len(output) - padding
  <2>1. h \in 0 .. Len(output)
    BY <1>7
  <2> HIDE DEF h
  <2>2. \A i \in 1 .. h : output[i] \in Byte
    BY <1>5, <1>7, <2>1
  <2>3. SubSeq(output, 1, h) = [i \in 1 .. h |-> output[i]]
    BY <1>5, <1>7, <2>1
  <2>4. [i \in 1 .. h |-> output[i]] \in Seq(Byte)
    BY <1>7, <2>1, <2>2, SeqDef
  <2> QED  BY <2>3, <2>4 DEF h
<1> QED  BY <1>1, <1>8

(* What the vendor encodes: the file and its padding. *)
Pad(c) == CHOOSE b \in SUBSET (0 .. 3) : Nibble(b) = c
Padded(plain) ==
  plain \o [i \in 1..WordLen - (Len(plain) % WordLen) |->
              Pad(WordLen - (Len(plain) % WordLen))]

LEMMA WholeWords ==
  ASSUME NEW W \in Nat \ {0}, NEW l \in Nat
  PROVE  /\ W - (l % W) \in 1 .. W
         /\ \E n \in Nat \ {0} : l + (W - (l % W)) = n * W
<1> DEFINE q == l \div W
           r == l % W
<1>1. q \in Int /\ r \in 0 .. W - 1 /\ l = W * q + r
  BY DivModIs
<1> HIDE DEF q, r
<1>2. W - r \in 1 .. W
  BY <1>1
<1>3. q >= 0
  <2>1. SUFFICES ASSUME q < 0 PROVE FALSE
    BY <1>1
  <2>2. -q - 1 \in Nat /\ W * (-q - 1) >= 0
    BY <1>1, <2>1
  <2>3. W * (-q - 1) = -(W * q) - W
    BY <1>1
  <2> QED  BY <1>1, <2>2, <2>3
<1>4. q + 1 \in Nat \ {0} /\ l + (W - r) = (q + 1) * W
  <2>1. (q + 1) * W = W * q + W /\ W * q \in Int
    BY <1>1
  <2> QED  BY <1>1, <1>3, <2>1
<1>5. \E n \in Nat \ {0} : l + (W - r) = n * W
  BY <1>4
<1> QED  BY <1>2, <1>5 DEF r

LEMMA PaddedIs ==
  ASSUME NEW plain \in Seq(Byte)
  PROVE  /\ Padded(plain) \in Seq(Byte)
         /\ Len(plain) < Len(Padded(plain))
         /\ \A i \in 1 .. Len(plain) : Padded(plain)[i] = plain[i]
         /\ Nibble(Padded(plain)[Len(Padded(plain))]) = Len(Padded(plain)) - Len(plain)
         /\ \E n \in Nat \ {0} : Len(Padded(plain)) = n * WordLen
<1> DEFINE W == WordLen
           l == Len(plain)
           c == W - (l % W)
           last == Pad(c)
           tail == [i \in 1 .. c |-> last]
<1>1. W \in 1 .. 15 /\ W \in Nat \ {0} /\ l \in Nat
  BY KeyAssumption
<1>2. c \in 1 .. W /\ \E n \in Nat \ {0} : l + c = n * W
  <2> HIDE DEF W, l
  <2> QED  BY <1>1, WholeWords
<1>3. Padded(plain) = plain \o tail
  BY DEF Padded
<1> HIDE DEF W, l, c
<1>4. c \in 1 .. 15 /\ c \in Nat
  BY <1>1, <1>2
<1>5. last \in SUBSET (0 .. 3) /\ Nibble(last) = c
  BY <1>4, NibbleIs DEF Pad
<1>6. last \in Byte
  BY <1>5 DEF Byte
<1> HIDE DEF last
<1>7. tail \in [1 .. c -> Byte] /\ \A i \in 1 .. c : tail[i] = last
  BY <1>6
<1>8. tail \in Seq(Byte) /\ Len(tail) = c
  <2> HIDE DEF tail
  <2>1. tail \in Seq(Byte)
    BY <1>4, <1>7, SeqDef
  <2> QED  BY <1>4, <1>7, <2>1
<1> HIDE DEF tail
<1>9. plain \o tail \in Seq(Byte) /\ Len(plain \o tail) = l + c
  BY <1>8 DEF l
<1>10. \A i \in 1 .. l : (plain \o tail)[i] = plain[i]
  BY <1>1, <1>8 DEF l
<1>11. (plain \o tail)[l + c] = last
  <2>1. (plain \o tail)[l + c] = tail[c]
    <3>1. l + c \in 1 .. l + c /\ ~(l + c <= l) /\ (l + c) - l = c
      BY <1>1, <1>4
    <3> QED  BY <1>1, <1>4, <1>8, <3>1 DEF l
  <2> QED  BY <1>4, <1>7, <2>1
<1>12. l < l + c /\ (l + c) - l = c
  BY <1>1, <1>4
<1> QED  BY <1>2, <1>3, <1>5, <1>9, <1>10, <1>11, <1>12 DEF l, W

(* Words as they are chained. *)
Coded(p) ==
  CHOOSE code : code =
    [k \in 0..Len(p) \div WordLen |->
       IF k = 0 THEN Zero ELSE Xor(Xor(code[k - 1], Key(k)), Word(p, k))]

LEMMA CodedIs ==
  ASSUME NEW n \in Nat, NEW p \in Seq(Byte), Len(p) = n * WordLen
  PROVE  /\ Len(p) \div WordLen = n
         /\ Coded(p) \in [0 .. n -> Words] /\ Coded(p)[0] = Zero
         /\ \A k \in 1 .. n : Coded(p)[k] = Xor(Xor(Coded(p)[k - 1], Key(k)), Word(p, k))
<1> DEFINE g == [k \in 1 .. n |-> [x \in Words |-> Xor(Xor(x, Key(k)), Word(p, k))]]
           Step(f) == [k \in 0 .. n |->
             IF k = 0 THEN Zero ELSE Xor(Xor(f[k - 1], Key(k)), Word(p, k))]
           C == Coded(p)
<1>1. Len(p) \div WordLen = n
  <2> DEFINE W == WordLen
             z == 0
  <2>1. W \in Nat \ {0} /\ z \in 0 .. W - 1 /\ Len(p) = n * W
    BY WordLenIs
  <2> HIDE DEF W, z
  <2>2. (W * n + z) \div W = n
    BY <2>1, DivModOf
  <2>3. Len(p) = W * n + z
    BY <2>1 DEF z
  <2> QED  BY <2>2, <2>3 DEF W
<1>2. ASSUME NEW k \in 1 .. n, NEW x \in Words
      PROVE  Xor(Xor(x, Key(k)), Word(p, k)) \in Words
  <2>1. Word(p, k) \in Words
    BY WordIs
  <2>2. Xor(x, Key(k)) \in Words
    BY KeyIs, XorIs
  <2> QED  BY <2>1, <2>2, XorIs
<1>3. g \in [1 .. n -> [Words -> Words]]
  BY <1>2
<1>4. PICK f \in [0 .. n -> Words] : Follows(f, n, Zero, g)
  <2> HIDE DEF g
  <2> QED  BY <1>3, ZeroIs, Recursion
<1>5. ASSUME NEW k \in 0 .. n PROVE f[k] = Step(f)[k]
  <2>1. CASE k = 0
    BY <1>4, <2>1 DEF Follows
  <2>2. CASE k # 0
    <3>1. k \in 1 .. n /\ k - 1 \in 0 .. n
      BY <2>2
    <3>2. f[k - 1] \in Words /\ f[k] = g[k][f[k - 1]]
      <4> HIDE DEF g
      <4> QED  BY <1>4, <3>1 DEF Follows
    <3>3. g[k][f[k - 1]] = Xor(Xor(f[k - 1], Key(k)), Word(p, k))
      BY <3>1, <3>2
    <3> QED  BY <2>2, <3>2, <3>3
  <2> QED  BY <2>1, <2>2
<1>6. C = Step(C)
  <2>1. f = Step(f)
    BY <1>5
  <2>2. C = CHOOSE h : h = Step(h)
    BY <1>1 DEF Coded
  <2> HIDE DEF Step, C
  <2> QED  BY <2>1, <2>2
<1> HIDE DEF C
<1>7. C[0] = Zero
  BY <1>6
<1>8. ASSUME NEW k \in 1 .. n PROVE C[k] = Xor(Xor(C[k - 1], Key(k)), Word(p, k))
  <2>1. k \in 0 .. n /\ k # 0
    OBVIOUS
  <2>2. C[k] = Step(C)[k]
    <3> HIDE DEF Step
    <3> QED  BY <1>6
  <2> QED  BY <2>1, <2>2
<1> DEFINE S == {k \in 0 .. n : C[k] \in Words}
<1>9. \A k \in 0 .. n : k \in S
  <2>1. 0 \in S
    BY <1>7, ZeroIs
  <2>2. \A k \in 1 .. n : k - 1 \in S => k \in S
    <3> TAKE k \in 1 .. n
    <3>1. C[k - 1] \in Words => C[k] \in Words
      BY <1>2, <1>8
    <3> QED  BY <3>1
  <2> HIDE DEF S
  <2> QED  BY <2>1, <2>2, UpInduction
<1>10. C \in [0 .. n -> Words]
  <2>1. C = [k \in 0 .. n |-> C[k]]
    <3>1. C = [k \in 0 .. n |-> Step(C)[k]]
      BY <1>6
    <3> HIDE DEF Step
    <3> QED  BY <1>6, <3>1
  <2> QED  BY <1>9, <2>1
<1> QED  BY <1>1, <1>7, <1>8, <1>10 DEF C

(* Decoding gives back what the vendor encoded, and what is encoded does not *)
(* begin with the byte it began with (decrypt_file).                         *)
THEOREM RoundTrip ==
  \A plain \in Seq(Byte) :
    /\ decrypt_file(Encrypt(plain)) = plain
    /\ Encrypt(plain) \in Seq(Byte)
    /\ plain # <<>> => Head(Encrypt(plain)) # Head(plain)
<1> TAKE plain \in Seq(Byte)
<1> DEFINE p == Padded(plain)
           C == Coded(p)
           l == Len(plain)
           m == Len(p)
           W == WordLen
<1>1. /\ p \in Seq(Byte) /\ l < m /\ \A i \in 1 .. l : p[i] = plain[i]
      /\ Nibble(p[m]) = m - l /\ l \in Nat /\ m \in Nat
  BY PaddedIs
<1>2. PICK n \in Nat \ {0} : m = n * W
  BY PaddedIs
<1>3. /\ m \div W = n /\ C \in [0 .. n -> Words] /\ C[0] = Zero
      /\ \A k \in 1 .. n : C[k] = Xor(Xor(C[k - 1], Key(k)), Word(p, k))
  <2>1. Len(p) = n * WordLen /\ n \in Nat
    BY <1>2
  <2> HIDE DEF p
  <2> QED  BY <1>1, <2>1, CodedIs
<1> DEFINE code == [k \in 1 .. n |-> C[k]]
           s == Encrypt(plain)
<1>4. s = Bytes(code)
  BY <1>3 DEF Encrypt, Padded, Pad, Coded
<1> HIDE DEF p, C, l, m
<1>5. code \in [1 .. n -> Words] /\ \A k \in 1 .. n : code[k] = C[k]
  BY <1>3
<1> HIDE DEF code, s
<1>6. /\ s \in Seq(Byte) /\ Len(s) = n * W
      /\ \A k \in 1 .. n, i \in 1 .. W : s[(k - 1) * W + i] = code[k][i]
      /\ \A k \in 1 .. n : Word(s, k) = code[k]
  BY <1>4, <1>5, BytesAre
<1>7. ASSUME NEW k \in 1 .. n
      PROVE  Xor(Xor(IF k = 1 THEN Zero ELSE Word(s, k - 1), Key(k)), Word(s, k))
               = Word(p, k)
  <2>1. (IF k = 1 THEN Zero ELSE Word(s, k - 1)) = C[k - 1]
    <3>1. CASE k = 1
      BY <1>3, <3>1
    <3>2. CASE k # 1
      <4>1. k - 1 \in 1 .. n
        BY <3>2
      <4> QED  BY <1>5, <1>6, <3>2, <4>1
    <3> QED  BY <3>1, <3>2
  <2>2. Word(s, k) = Xor(Xor(C[k - 1], Key(k)), Word(p, k))
    BY <1>3, <1>5, <1>6
  <2>3. Word(p, k) \in Words
    BY <1>1, <1>2, WordIs DEF m
  <2>4. Xor(C[k - 1], Key(k)) \in Words
    <3>1. C[k - 1] \in Words
      <4>1. k - 1 \in 0 .. n
        OBVIOUS
      <4> QED  BY <1>3, <4>1
    <3> QED  BY <3>1, KeyIs, XorIs
  <2> QED  BY <2>1, <2>2, <2>3, <2>4, XorBack
<1>8. decrypt_stream(s) = p
  <2>1. decrypt_stream(s)
          = Bytes([k \in 1 .. n |->
              Xor(Xor(IF k = 1 THEN Zero ELSE Word(s, k - 1), Key(k)), Word(s, k))])
    BY <1>6, StreamIs
  <2>2. [k \in 1 .. n |->
           Xor(Xor(IF k = 1 THEN Zero ELSE Word(s, k - 1), Key(k)), Word(s, k))]
          = [k \in 1 .. n |-> Word(p, k)]
    BY <1>7
  <2>3. Bytes([k \in 1 .. n |-> Word(p, k)]) = p
    BY <1>1, <1>2, BytesOfWords DEF m
  <2> QED  BY <2>1, <2>2, <2>3
<1>9. decrypt_file(s) = SubSeq(p, 1, l)
  <2>1. Len(s) % W = 0
    <3> DEFINE z == 0
               N == Len(s)
    <3>1. W \in Nat \ {0} /\ z \in 0 .. W - 1 /\ N = n * W
      BY <1>6, WordLenIs
    <3> HIDE DEF W, z, N
    <3>2. (W * n + z) % W = z
      BY <3>1, DivModOf
    <3>3. N = W * n + z
      BY <3>1 DEF z
    <3> QED  BY <3>2, <3>3 DEF z, N
  <2>2. p # <<>> /\ Nibble(Last(p)) = m - l /\ ~(m - l > m) /\ m - (m - l) = l
    BY <1>1 DEF Last, m
  <2> QED  BY <1>8, <2>1, <2>2 DEF decrypt_file, m
<1>10. SubSeq(p, 1, l) = plain
  <2>1. SubSeq(p, 1, l) = [i \in 1 .. l |-> p[i]]
    BY <1>1 DEF m
  <2>2. plain = [i \in 1 .. l |-> plain[i]]
    BY DEF l
  <2> QED  BY <1>1, <2>1, <2>2
<1>11. ASSUME plain # <<>> PROVE s[1] # plain[1]
  <2>1. 1 \in 1 .. l /\ 1 \in 1 .. n /\ 1 \in 1 .. W
    <3>1. l # 0
      BY <1>11 DEF l
    <3> QED  BY <1>1, <3>1, WordLenIs
  <2>2. s[1] = C[1][1] /\ p[1] = plain[1] /\ Word(p, 1)[1] = p[1]
    <3>1. (1 - 1) * W + 1 = 1
      BY WordLenIs
    <3>2. s[1] = code[1][1]
      BY <1>6, <2>1, <3>1
    <3>3. Word(p, 1)[1] = p[(1 - 1) * W + 1]
      BY <1>1, <1>2, <2>1, WordIs DEF m
    <3> QED  BY <1>1, <1>5, <2>1, <3>1, <3>2, <3>3
  <2>3. C[1] = Xor(Xor(Zero, Key(1)), Word(p, 1))
    <3>1. 1 - 1 = 0
      OBVIOUS
    <3> QED  BY <1>3, <2>1, <3>1
  <2>4. Key(1) = KeyStart
    <3>1. 1 % 2 = 1
      OBVIOUS
    <3> QED  BY <3>1 DEF Key
  <2>5. Xor(Zero, Key(1)) \in Words /\ Xor(Zero, Key(1))[1] = KeyStart[1]
    <3>1. Xor(Zero, Key(1))[1] = (Zero[1] \ KeyStart[1]) \cup (KeyStart[1] \ Zero[1])
      BY <2>1, <2>4, ZeroIs, KeyIs, XorIs
    <3>2. Zero[1] = {}
      BY <2>1 DEF Zero
    <3>3. Xor(Zero, Key(1)) \in Words
      BY ZeroIs, KeyIs, XorIs
    <3> QED  BY <3>1, <3>2, <3>3
  <2>6. Word(p, 1) \in Words
    BY <1>1, <1>2, <2>1, WordIs DEF m
  <2>7. C[1][1] = (KeyStart[1] \ p[1]) \cup (p[1] \ KeyStart[1])
    BY <2>1, <2>2, <2>3, <2>5, <2>6, XorIs
  <2>8. KeyStart[1] # {}
    BY KeyAssumption
  <2> QED  BY <2>2, <2>7, <2>8
<1>12. plain # <<>> => Head(s) # Head(plain)
  <2>1. s # <<>> /\ Head(s) = s[1]
    <3>1. Len(s) # 0
      <4> HIDE DEF W
      <4>1. W \in Nat \ {0}
        BY WordLenIs DEF W
      <4>2. n * W # 0
        BY <4>1
      <4> QED  BY <1>6, <4>2
    <3> QED  BY <1>6, <3>1
  <2> QED  BY <1>11, <2>1
<1> QED  BY <1>6, <1>9, <1>10, <1>12 DEF s

-----------------------------------------------------------------------------
(* BL7 images. *)

Heads == HeadWith(HeadWith({0}))

(* A sequence of bytes, cut and put together. *)
LEMMA CutIs ==
  ASSUME NEW s \in Seq(Nat), NEW a \in 1 .. Len(s) + 1, NEW b \in a - 1 .. Len(s)
  PROVE  /\ SubSeq(s, a, b) \in Seq(Nat) /\ Len(SubSeq(s, a, b)) = b - a + 1
         /\ \A i \in 1 .. b - a + 1 : SubSeq(s, a, b)[i] = s[a + i - 1]
<1>1. Len(s) \in Nat
  OBVIOUS
<1> QED  BY <1>1, SubSeqProperties

LEMMA SameBytes ==
  ASSUME NEW s \in Seq(Nat), NEW t \in Seq(Nat), Len(s) = Len(t),
         \A i \in 1 .. Len(s) : s[i] = t[i]
  PROVE  s = t
<1>1. s = [i \in 1 .. Len(s) |-> s[i]] /\ t = [i \in 1 .. Len(t) |-> t[i]]
  OBVIOUS
<1>2. [i \in 1 .. Len(s) |-> s[i]] = [i \in 1 .. Len(t) |-> t[i]]
  OBVIOUS
<1> QED  BY <1>1, <1>2

LEMMA JoinedIs ==
  ASSUME NEW s \in Seq(Nat), NEW t \in Seq(Nat)
  PROVE  /\ s \o t \in Seq(Nat) /\ Len(s \o t) = Len(s) + Len(t)
         /\ \A i \in 1 .. Len(s) : (s \o t)[i] = s[i]
         /\ \A i \in 1 .. Len(t) : (s \o t)[Len(s) + i] = t[i]
<1>1. s \o t \in Seq(Nat) /\ Len(s \o t) = Len(s) + Len(t)
  OBVIOUS
<1>2. \A i \in 1 .. Len(s) : (s \o t)[i] = s[i]
  OBVIOUS
<1>3. ASSUME NEW i \in 1 .. Len(t) PROVE (s \o t)[Len(s) + i] = t[i]
  <2> DEFINE l == Len(s)
             m == Len(t)
             k == l + i
  <2>1. l \in Nat /\ m \in Nat /\ k \in 1 .. l + m /\ ~(k <= l) /\ k - l = i
    <3>1. l \in Nat /\ m \in Nat /\ i \in 1 .. m
      OBVIOUS
    <3> HIDE DEF l, m
    <3> QED  BY <3>1
  <2>2. (s \o t)[k] = IF k <= Len(s) THEN s[k] ELSE t[k - Len(s)]
    <3> HIDE DEF k
    <3> QED  BY <2>1
  <2> HIDE DEF k
  <2>3. (s \o t)[k] = t[i]
    BY <2>1, <2>2
  <2> QED  BY <2>3 DEF k
<1> QED  BY <1>1, <1>2, <1>3

LEMMA CutsOfJoined ==
  ASSUME NEW s \in Seq(Nat), NEW t \in Seq(Nat)
  PROVE  /\ SubSeq(s \o t, 1, Len(s)) = s
         /\ SubSeq(s \o t, Len(s) + 1, Len(s) + Len(t)) = t
<1> DEFINE u == s \o t
           l == Len(s)
           m == Len(t)
<1>1. /\ u \in Seq(Nat) /\ Len(u) = l + m /\ l \in Nat /\ m \in Nat
      /\ \A i \in 1 .. l : u[i] = s[i]
      /\ \A i \in 1 .. m : u[l + i] = t[i]
  BY JoinedIs
<1> HIDE DEF u
<1>2. SubSeq(u, 1, l) = s
  <2> DEFINE c == SubSeq(u, 1, l)
             one == 1
  <2>1. one \in 1 .. Len(u) + 1 /\ l \in one - 1 .. Len(u) /\ l - one + 1 = l
        /\ \A i \in 1 .. l : one + i - 1 = i
    <3> HIDE DEF l, m
    <3> QED  BY <1>1
  <2>2. /\ SubSeq(u, one, l) \in Seq(Nat) /\ Len(SubSeq(u, one, l)) = l - one + 1
        /\ \A i \in 1 .. l - one + 1 : SubSeq(u, one, l)[i] = u[one + i - 1]
    <3> HIDE DEF one, l
    <3> QED  BY <1>1, <2>1, CutIs
  <2>3. c \in Seq(Nat) /\ Len(c) = l /\ \A i \in 1 .. l : c[i] = u[i]
    <3>1. c = SubSeq(u, one, l)
      OBVIOUS
    <3> HIDE DEF c, one, l
    <3> QED  BY <2>1, <2>2, <3>1
  <2> HIDE DEF c
  <2>4. c = s
    BY <1>1, <2>3, SameBytes
  <2> QED  BY <2>4 DEF c
<1>3. SubSeq(u, l + 1, l + m) = t
  <2> DEFINE a == l + 1
             b == l + m
             c == SubSeq(u, a, b)
  <2>1. a \in 1 .. Len(u) + 1 /\ b \in a - 1 .. Len(u) /\ b - a + 1 = m
        /\ \A i \in 1 .. m : a + i - 1 = l + i
    <3> HIDE DEF l, m
    <3> QED  BY <1>1
  <2> HIDE DEF a, b
  <2>2. c \in Seq(Nat) /\ Len(c) = m /\ \A i \in 1 .. m : c[i] = u[l + i]
    <3>1. /\ c \in Seq(Nat) /\ Len(c) = b - a + 1
          /\ \A i \in 1 .. b - a + 1 : c[i] = u[a + i - 1]
      BY <1>1, <2>1, CutIs
    <3> HIDE DEF c, l, m
    <3> QED  BY <2>1, <3>1
  <2> HIDE DEF c
  <2>3. c = t
    BY <1>1, <2>2, SameBytes
  <2> QED  BY <2>3 DEF a, b, c
<1> QED  BY <1>2, <1>3 DEF u

LEMMA PaddingIs ==
  ASSUME NEW n \in Nat
  PROVE  /\ Padding(n) \in Seq(Nat) /\ Len(Padding(n)) = n
         /\ \A i \in 1 .. n : Padding(n)[i] = FF
<1> DEFINE p == Padding(n)
<1>1. p \in [1 .. n -> Nat] /\ \A i \in 1 .. n : p[i] = FF
  BY DEF Padding, FF
<1> HIDE DEF p
<1>2. p \in Seq(Nat)
  BY <1>1, SeqDef
<1>3. Len(p) = n
  BY <1>1, <1>2
<1> QED  BY <1>1, <1>2, <1>3 DEF p

(* A kernel does not end in padding. *)
Bare(kernel) == kernel = <<>> \/ kernel[Len(kernel)] # FF

Kept(s, n) == /\ \A i \in n + 1..Len(s) : s[i] = FF
              /\ n = 0 \/ s[n] # FF

LEMMA KeptExists ==
  ASSUME NEW s \in Seq(Nat) PROVE \E n \in 0 .. Len(s) : Kept(s, n)
<1> DEFINE l == Len(s)
           T == {n \in 0 .. l : \A i \in n + 1 .. l : s[i] = FF}
<1>1. l \in Nat
  OBVIOUS
<1>2. l \in T
  <2> HIDE DEF l
  <2> QED  BY <1>1
<1>3. PICK n \in T : \A t \in T : n <= t
  <2>1. T \in SUBSET Nat /\ T # {}
    BY <1>2
  <2> HIDE DEF T
  <2> QED  BY <2>1, LeastOf
<1>4. n = 0 \/ s[n] # FF
  <2>1. SUFFICES ASSUME n # 0, s[n] = FF PROVE FALSE
    OBVIOUS
  <2>2. n - 1 \in 0 .. l /\ \A i \in (n - 1) + 1 .. l : i = n \/ i \in n + 1 .. l
    <3>1. n \in 0 .. l
      OBVIOUS
    <3> HIDE DEF l, T
    <3> QED  BY <1>1, <2>1, <3>1
  <2>3. n - 1 \in T
    BY <2>1, <2>2
  <2>4. n <= n - 1
    <3> HIDE DEF T
    <3> QED  BY <1>3, <2>3
  <2>5. n \in Nat
    OBVIOUS
  <2> QED  BY <2>4, <2>5
<1> QED  BY <1>4 DEF Kept

LEMMA StrippedIs ==
  ASSUME NEW s \in Seq(Nat)
  PROVE  /\ Stripped(s) \in Seq(Nat) /\ Len(Stripped(s)) \in 0 .. Len(s)
         /\ Bare(Stripped(s)) /\ Kept(s, Len(Stripped(s)))
         /\ Stripped(s) = SubSeq(s, 1, Len(Stripped(s)))
<1> DEFINE n == CHOOSE m \in 0 .. Len(s) : Kept(s, m)
           c == SubSeq(s, 1, n)
<1>1. n \in 0 .. Len(s) /\ Kept(s, n)
  BY KeptExists
<1>2. Stripped(s) = c
  BY DEF Stripped, Kept
<1> HIDE DEF n
<1>3. Len(s) \in Nat /\ n \in Nat
  BY <1>1
<1>4. c \in Seq(Nat) /\ Len(c) = n /\ \A i \in 1 .. n : c[i] = s[i]
  <2> DEFINE one == 1
  <2>1. one \in 1 .. Len(s) + 1 /\ n \in one - 1 .. Len(s) /\ n - one + 1 = n
        /\ \A i \in 1 .. n : one + i - 1 = i
    BY <1>1, <1>3
  <2>2. c = SubSeq(s, one, n)
    OBVIOUS
  <2> HIDE DEF c, one
  <2>3. /\ SubSeq(s, one, n) \in Seq(Nat) /\ Len(SubSeq(s, one, n)) = n - one + 1
        /\ \A i \in 1 .. n - one + 1 : SubSeq(s, one, n)[i] = s[one + i - 1]
    BY <2>1, CutIs
  <2> QED  BY <2>1, <2>2, <2>3
<1>5. Bare(c)
  <2> HIDE DEF c
  <2>1. CASE n = 0
    <3>1. c = <<>>
      BY <1>4, <2>1
    <3> QED  BY <3>1 DEF Bare
  <2>2. CASE n # 0
    <3>1. n \in 1 .. n /\ s[n] # FF
      BY <1>1, <1>3, <2>2 DEF Kept
    <3> QED  BY <1>4, <3>1 DEF Bare
  <2> QED  BY <2>1, <2>2
<1> QED  BY <1>1, <1>2, <1>4, <1>5

(* Padding goes, and nothing else. *)
LEMMA StripPadded ==
  ASSUME NEW kernel \in Seq(Nat), Bare(kernel), NEW n \in Nat
  PROVE  Stripped(kernel \o Padding(n)) = kernel
<1> DEFINE pad == Padding(n)
           s == kernel \o pad
           k == Len(kernel)
           c == Len(Stripped(s))
<1>1. pad \in Seq(Nat) /\ Len(pad) = n /\ \A i \in 1 .. n : pad[i] = FF
  BY PaddingIs
<1> HIDE DEF pad
<1>2. /\ s \in Seq(Nat) /\ Len(s) = k + n /\ k \in Nat
      /\ \A i \in 1 .. k : s[i] = kernel[i]
      /\ \A i \in 1 .. n : s[k + i] = FF
  BY <1>1, JoinedIs
<1>3. /\ c \in 0 .. k + n /\ Kept(s, c) /\ Stripped(s) = SubSeq(s, 1, c)
  <2> HIDE DEF s
  <2> QED  BY <1>2, StrippedIs
<1>4. SubSeq(s, 1, k) = kernel
  BY <1>1, CutsOfJoined
<1>5. k # 0 => kernel[k] # FF
  BY DEF Bare
<1> HIDE DEF s, c, k
<1>6. ~(c < k)
  <2>1. SUFFICES ASSUME c < k PROVE FALSE
    OBVIOUS
  <2>2. k \in c + 1 .. k + n /\ k \in 1 .. k /\ k # 0
    BY <1>2, <1>3, <2>1
  <2>3. s[k] = FF /\ s[k] = kernel[k]
    BY <1>2, <1>3, <2>2 DEF Kept
  <2> QED  BY <1>5, <2>2, <2>3
<1>7. ~(c > k)
  <2>1. SUFFICES ASSUME c > k PROVE FALSE
    OBVIOUS
  <2>2. c - k \in 1 .. n /\ k + (c - k) = c /\ c # 0
    BY <1>2, <1>3, <2>1
  <2>3. s[c] = FF
    BY <1>2, <2>2
  <2> QED  BY <1>3, <2>2, <2>3 DEF Kept
<1>8. c = k
  BY <1>2, <1>3, <1>6, <1>7
<1> QED  BY <1>3, <1>4, <1>8 DEF s, pad

(* The checksum is that of the header without it. *)
LEMMA ChecksumIs ==
  ASSUME NEW T, NEW h \in HeadWith(T)
  PROVE  /\ Checksum(h) \in HeadWith({0}) /\ WithSum(h) \in Heads
         /\ WithSum(h).sum = Checksum(WithSum(h))
         /\ WithSum(h).magic = h.magic /\ WithSum(h).hdr_len = h.hdr_len
         /\ WithSum(h).type = h.type /\ WithSum(h).next = h.next
         /\ WithSum(h).len = h.len /\ WithSum(h).md5 = h.md5
<1> DEFINE c == Checksum(h)
           w == WithSum(h)
<1>1. c \in HeadWith({0})
  BY DEF Checksum, HeadWith
<1>2. w = [h EXCEPT !.sum = c]
  BY DEF WithSum
<1> HIDE DEF c, w
<1>3. w \in Heads
  BY <1>1, <1>2 DEF Heads, HeadWith
<1>4. w.sum = c
  BY <1>2 DEF HeadWith
<1>5. [w EXCEPT !.sum = 0] = [h EXCEPT !.sum = 0]
  BY <1>2 DEF HeadWith
<1>6. /\ w.magic = h.magic /\ w.hdr_len = h.hdr_len /\ w.type = h.type
      /\ w.next = h.next /\ w.len = h.len /\ w.md5 = h.md5
  BY <1>2 DEF HeadWith
<1> QED  BY <1>1, <1>3, <1>4, <1>5, <1>6 DEF c, w, Checksum

(* What an accepted container is cut into. *)
Split(image) == image.head.next - HeaderSize

LEMMA ContainerIs ==
  ASSUME NEW image \in Image, NEW types, NEW room \in Nat,
         ValidContainer(image, types, room)
  PROVE  /\ image.head \in Heads /\ image.body \in Seq(Nat)
         /\ Split(image) \in 0 .. image.head.len
         /\ image.head.len \in 0 .. Len(image.body)
         /\ Payload(image) \in Seq(Nat) /\ Len(Payload(image)) = image.head.len
<1> DEFINE h == image.head
           b == image.body
           len == h.len
           next == h.next
<1>1. h \in Heads /\ b \in Seq(Nat)
  BY DEF Image, Heads
<1>2. len \in Nat /\ next \in Nat
  BY <1>1 DEF Heads, HeadWith
<1>3. HeaderSize <= next /\ next <= HeaderSize + len /\ len + room <= Len(b)
  BY DEF ValidContainer
<1>4. HeaderSize \in Nat /\ Len(b) \in Nat
  BY <1>1, SizeAssumption
<1> HIDE DEF h, b, len, next
<1>5. next - HeaderSize \in 0 .. len /\ len \in 0 .. Len(b)
  BY <1>2, <1>3, <1>4
<1>6. SubSeq(b, 1, len) \in Seq(Nat) /\ Len(SubSeq(b, 1, len)) = len
  <2> DEFINE one == 1
  <2>1. one \in 1 .. Len(b) + 1 /\ len \in one - 1 .. Len(b) /\ len - one + 1 = len
    BY <1>4, <1>5
  <2> HIDE DEF one
  <2>2. SubSeq(b, one, len) \in Seq(Nat) /\ Len(SubSeq(b, one, len)) = len
    BY <1>1, <2>1, CutIs
  <2> QED  BY <2>2 DEF one
<1> QED  BY <1>1, <1>5, <1>6 DEF h, b, len, next, Split, Payload

LEMMA UiFormIs ==
  ASSUME NEW image \in Image, UiForm(image) # Refused
  PROVE  UiForm(image) \in Image
<1>1. CASE image.head.type = 0
  BY <1>1 DEF UiForm
<1>2. CASE image.head.type # 0
  <2> DEFINE h == [image.head EXCEPT !.type = 0]
             b == Payload(image)
  <2>1. UiForm(image) = signed_to_ui(image)
    BY <1>2 DEF UiForm
  <2>2. ValidContainer(image, {1, 2}, 1)
    BY <2>1 DEF signed_to_ui
  <2>3. image.head \in Heads /\ b \in Seq(Nat)
    BY <2>2, ContainerIs
  <2>4. h \in Heads
    BY <2>3 DEF Heads, HeadWith
  <2>5. UiForm(image) = [head |-> WithSum(h), body |-> b]
    BY <2>1, <2>2 DEF signed_to_ui
  <2> HIDE DEF h, b
  <2>6. WithSum(h) \in Heads
    <3>1. h \in HeadWith(HeadWith({0}))
      BY <2>4 DEF Heads
    <3> QED  BY <3>1, ChecksumIs
  <2> QED  BY <2>3, <2>5, <2>6 DEF Image, Heads
<1> QED  BY <1>1, <1>2

(* The parts of an image that parse_bl7 accepts. *)
Fits(parsed) ==
  /\ parsed \in Parsed
  /\ parsed.head.magic = "RCKS" /\ parsed.head.hdr_len = HeaderSize
  /\ parsed.head.type = 0
  /\ Bare(parsed.kernel)
  /\ Len(parsed.kernel) <= parsed.head.next - HeaderSize

LEMMA ParseIs ==
  ASSUME NEW image \in Image
  PROVE  /\ parse_bl7(image) # Refused <=> ValidContainer(image, {0}, 0)
         /\ parse_bl7(image) # Refused =>
              /\ Fits(parse_bl7(image)) /\ parse_bl7(image).head = image.head
              /\ parse_bl7(image).kernel = Stripped(SubSeq(image.body, 1, Split(image)))
              /\ parse_bl7(image).rootfs =
                   SubSeq(Payload(image), Split(image) + 1, image.head.len)
<1> DEFINE p == parse_bl7(image)
           s == Split(image)
           len == image.head.len
           b == image.body
           cut == SubSeq(b, 1, s)
           rootfs == SubSeq(Payload(image), s + 1, len)
<1>1. ~ValidContainer(image, {0}, 0) => p = Refused
  BY DEF parse_bl7
<1>2. ASSUME ValidContainer(image, {0}, 0)
      PROVE  /\ p # Refused /\ Fits(p) /\ p.head = image.head
             /\ p.kernel = Stripped(cut) /\ p.rootfs = rootfs
  <2>1. /\ image.head \in Heads /\ b \in Seq(Nat)
        /\ s \in 0 .. len /\ len \in 0 .. Len(b)
        /\ Payload(image) \in Seq(Nat) /\ Len(Payload(image)) = len
    <3> DEFINE none == 0
    <3>1. ValidContainer(image, {0}, none) /\ none \in Nat
      BY <1>2
    <3> HIDE DEF none
    <3> QED  BY <3>1, ContainerIs
  <2>2. p = [head |-> image.head, kernel |-> Stripped(cut), rootfs |-> rootfs]
    BY <1>2 DEF parse_bl7, Split
  <2>3. cut \in Seq(Nat) /\ Len(cut) = s
    <3> DEFINE one == 1
    <3>1. one \in 1 .. Len(b) + 1 /\ s \in one - 1 .. Len(b) /\ s - one + 1 = s
      <4>1. Len(b) \in Nat
        BY <2>1
      <4> HIDE DEF b, s, len
      <4> QED  BY <2>1, <4>1
    <3> HIDE DEF one, b, s
    <3>2. SubSeq(b, one, s) \in Seq(Nat) /\ Len(SubSeq(b, one, s)) = s
      BY <2>1, <3>1, CutIs
    <3> QED  BY <3>2 DEF one
  <2>4. rootfs \in Seq(Nat)
    <3> DEFINE y == Payload(image)
               a == s + 1
    <3>1. y \in Seq(Nat) /\ Len(y) = len
      BY <2>1
    <3>2. a \in 1 .. Len(y) + 1 /\ len \in a - 1 .. Len(y)
      <4> HIDE DEF y, s, len
      <4> QED  BY <2>1, <3>1
    <3>3. rootfs = SubSeq(y, a, len)
      OBVIOUS
    <3> HIDE DEF y, a, rootfs, len
    <3>4. SubSeq(y, a, len) \in Seq(Nat)
      BY <3>1, <3>2, CutIs
    <3> QED  BY <3>3, <3>4
  <2> HIDE DEF cut, rootfs
  <2>5. Stripped(cut) \in Seq(Nat) /\ Len(Stripped(cut)) \in 0 .. s /\ Bare(Stripped(cut))
    BY <2>3, StrippedIs
  <2> HIDE DEF p
  <2>6. p \in Parsed /\ p.head = image.head /\ p.kernel = Stripped(cut) /\ p.rootfs = rootfs
    BY <2>1, <2>2, <2>4, <2>5 DEF Parsed, Heads
  <2>7. /\ p.head.magic = "RCKS" /\ p.head.hdr_len = HeaderSize
        /\ p.head.type = 0
    BY <1>2, <2>6 DEF ValidContainer
  <2>8. Len(p.kernel) <= p.head.next - HeaderSize
    <3>1. Len(p.kernel) \in 0 .. s /\ p.head.next - HeaderSize = s
      BY <2>5, <2>6 DEF Split
    <3> HIDE DEF s
    <3>2. Len(p.kernel) <= s
      BY <2>1, <3>1
    <3> QED  BY <3>1, <3>2
  <2> QED  BY <2>5, <2>6, <2>7, <2>8, RefusedAssumption DEF Fits
<1> QED  BY <1>1, <1>2

(* The root file system of a rebuilt image starts at a page. *)
LEMMA AlignedIs ==
  ASSUME NEW k \in Nat
  PROVE  /\ (-(HeaderSize + k)) % PageSize \in 0 .. PageSize - 1
         /\ (HeaderSize + k + ((-(HeaderSize + k)) % PageSize)) % PageSize = 0
         /\ \A next \in Nat :
              /\ next % PageSize = 0 /\ k <= next - HeaderSize
              /\ (next - HeaderSize) - k < PageSize
              => next = HeaderSize + k + ((-(HeaderSize + k)) % PageSize)
<1> DEFINE b == PageSize
           a == HeaderSize + k
           m == (-a) % b
           q == (-a) \div b
           nul == 0
<1>1. b \in Nat \ {0} /\ a \in Nat /\ -a \in Int
  BY SizeAssumption
<1>2. q \in Int /\ m \in 0 .. b - 1 /\ -a = b * q + m
  <2> DEFINE c == -a
  <2>1. c \in Int
    BY <1>1
  <2> HIDE DEF c, b
  <2>2. c \div b \in Int /\ c % b \in 0 .. b - 1 /\ c = b * (c \div b) + (c % b)
    BY <1>1, <2>1, DivModIs
  <2> QED  BY <2>2 DEF c
<1>3. nul \in 0 .. b - 1 /\ -q \in Int
  BY <1>1, <1>2
<1>4. a + m = b * (-q) + nul
  <2> DEFINE n == -q
  <2>1. b * q + b * n = 0
    <3> HIDE DEF b, q
    <3> QED  BY <1>1, <1>2
  <2>2. b * q \in Int /\ b * n \in Int
    <3> HIDE DEF b, q
    <3> QED  BY <1>1, <1>2
  <2> HIDE DEF b, a, m, q, n
  <2>3. b * n = a + m
    BY <1>1, <1>2, <2>1, <2>2
  <2> HIDE DEF nul
  <2>4. nul = 0
    BY DEF nul
  <2> USE DEF n
  <2> QED  BY <1>1, <1>2, <2>2, <2>3, <2>4
<1>5. (a + m) % b = 0
  <2> DEFINE n == -q
  <2>1. n \in Int /\ a + m = b * n + nul
    BY <1>3, <1>4
  <2> HIDE DEF b, a, m, q, nul, n
  <2>2. (b * n + nul) % b = nul
    BY <1>1, <1>3, <2>1, DivModOf
  <2>3. (a + m) % b = nul
    BY <2>1, <2>2
  <2> QED  BY <2>3 DEF nul
<1>6. ASSUME NEW next \in Nat, next % PageSize = 0, k <= next - HeaderSize,
             (next - HeaderSize) - k < PageSize
      PROVE  next = a + m
  <2> DEFINE d == next - a
             p == next \div b
             n == q + p
  <2>1. d \in 0 .. b - 1
    BY <1>1, <1>6, SizeAssumption
  <2>2. p \in Int /\ next = b * p
    <3>1. next \in Int
      OBVIOUS
    <3> HIDE DEF b
    <3>2. p \in Int /\ next % b \in 0 .. b - 1 /\ next = b * p + (next % b)
      BY <1>1, <3>1, DivModIs
    <3>3. next % b = 0
      BY <1>6 DEF b
    <3>4. b * p \in Int
      BY <1>1, <3>2
    <3> HIDE DEF p
    <3> QED  BY <3>2, <3>3, <3>4
  <2>3. n \in Int /\ b * n = b * q + b * p /\ b * q \in Int /\ b * p \in Int
    <3> HIDE DEF b, q, p
    <3> QED  BY <1>1, <1>2, <2>2
  <2>4. b * n + nul = b * n /\ b * n \in Int
    <3> DEFINE x == b * n
    <3>1. x \in Int
      <4> HIDE DEF b, n
      <4> QED  BY <1>1, <2>3
    <3> HIDE DEF x
    <3>2. x + nul = x
      BY <3>1
    <3> QED  BY <3>1, <3>2 DEF x
  <2>5. b * n + m = b * nul + d
    <3> DEFINE x == b * q
               y == b * p
               z == b * n
    <3>1. x \in Int /\ y \in Int /\ z = x + y /\ next = y /\ -a = x + m
      BY <1>2, <2>2, <2>3
    <3>2. b * nul = 0
      <4> HIDE DEF b
      <4> QED  BY <1>1
    <3> HIDE DEF x, y, z, a, m, b
    <3>3. z + m = d
      BY <1>1, <1>2, <3>1
    <3>4. d \in Int
      BY <1>1, <1>6
    <3> HIDE DEF d
    <3>5. b * nul + d = d
      BY <3>2, <3>4
    <3> QED  BY <3>3, <3>5 DEF z
  <2>6. m = d
    <3> HIDE DEF b, n, m, d, nul
    <3>1. nul \in Int
      BY DEF nul
    <3> QED  BY <1>1, <1>2, <2>1, <2>3, <2>5, <3>1, DivModUnique
  <2>7. next \in Nat /\ a \in Nat /\ m \in Int
    BY <1>1, <1>2
  <2> HIDE DEF a, m, d
  <2> QED  BY <2>6, <2>7 DEF d
<1>7. HeaderSize + k + ((-(HeaderSize + k)) % PageSize) = a + m
  OBVIOUS
<1> QED  BY <1>2, <1>5, <1>6, <1>7

(* The three parts of a payload. *)
LEMMA PayloadIs ==
  ASSUME NEW k \in Seq(Nat), NEW n \in Nat, NEW r \in Seq(Nat)
  PROVE  /\ k \o Padding(n) \o r \in Seq(Nat)
         /\ Len(k \o Padding(n) \o r) = Len(k) + n + Len(r)
         /\ SubSeq(k \o Padding(n) \o r, 1, Len(k) + n) = k \o Padding(n)
         /\ SubSeq(k \o Padding(n) \o r, Len(k) + n + 1, Len(k) + n + Len(r)) = r
         /\ SubSeq(k \o Padding(n) \o r, 1, Len(k) + n + Len(r))
              = k \o Padding(n) \o r
<1> DEFINE f == k \o Padding(n)
           y == f \o r
           c == Len(k) + n
           l == c + Len(r)
<1>1. f \in Seq(Nat) /\ Len(f) = c
  <2>1. Padding(n) \in Seq(Nat) /\ Len(Padding(n)) = n
    BY PaddingIs
  <2> QED  BY <2>1, JoinedIs
<1> HIDE DEF f, c
<1>2. y \in Seq(Nat) /\ Len(y) = c + Len(r)
  BY <1>1, JoinedIs
<1>3. SubSeq(y, 1, c) = f /\ SubSeq(y, c + 1, c + Len(r)) = r
  BY <1>1, CutsOfJoined
<1> HIDE DEF y
<1>4. SubSeq(y, 1, l) = y
  BY <1>2, SubSeqFull
<1>5. l = c + Len(r)
  OBVIOUS
<1> HIDE DEF l
<1> QED  BY <1>2, <1>3, <1>4, <1>5 DEF f, y, c

(* rebuild makes an image that parse_bl7 reads back: the kernel of the old   *)
(* one, the new root file system, and this at the start of a page.           *)
LEMMA RebuiltIs ==
  ASSUME NEW p, Fits(p), NEW r \in Seq(Nat)
  PROVE  /\ rebuild(p, r) \in Image
         /\ parse_bl7(rebuild(p, r)) # Refused
         /\ parse_bl7(rebuild(p, r)).head = rebuild(p, r).head
         /\ parse_bl7(rebuild(p, r)).kernel = p.kernel
         /\ parse_bl7(rebuild(p, r)).rootfs = r
         /\ rebuild(p, r).head.next % PageSize = 0
         /\ Len(rebuild(p, r).body) = rebuild(p, r).head.len
         /\ /\ p.head.next % PageSize = 0
            /\ p.head.next - HeaderSize - Len(p.kernel) < PageSize
            => rebuild(p, r).head.next = p.head.next
<1> DEFINE k == p.kernel
           c == Len(k)
           n == (-(HeaderSize + c)) % PageSize
           y == k \o Padding(n) \o r
           l == c + n + Len(r)
           next == HeaderSize + c + n
           h == [p.head EXCEPT !.next = HeaderSize + c + Len(Padding(n)),
                               !.len = Len(y), !.md5 = y]
           new == rebuild(p, r)
<1>1. /\ k \in Seq(Nat) /\ c \in Nat /\ p.head \in Heads /\ Bare(k)
      /\ p.head.next \in Nat /\ c <= p.head.next - HeaderSize
      /\ p.head.magic = "RCKS" /\ p.head.hdr_len = HeaderSize /\ p.head.type = 0
  <2>1. p \in Parsed
    BY DEF Fits
  <2>2. p.head \in Heads /\ k \in Seq(Nat)
    BY <2>1 DEF Parsed, Heads
  <2>3. p.head.next \in Nat
    BY <2>2 DEF Heads, HeadWith
  <2> QED  BY <2>2, <2>3 DEF Fits
<1>2. /\ n \in Nat /\ next % PageSize = 0
      /\ \A x \in Nat : x % PageSize = 0 /\ c <= x - HeaderSize
                        /\ (x - HeaderSize) - c < PageSize => x = next
  <2>1. /\ n \in 0 .. PageSize - 1 /\ next % PageSize = 0
        /\ \A x \in Nat : x % PageSize = 0 /\ c <= x - HeaderSize
                          /\ (x - HeaderSize) - c < PageSize => x = next
    <3> HIDE DEF c
    <3> QED  BY <1>1, AlignedIs
  <2> HIDE DEF n, next
  <2> QED  BY <2>1
<1> HIDE DEF k, n
<1>3. /\ y \in Seq(Nat) /\ Len(y) = l
      /\ SubSeq(y, 1, c + n) = k \o Padding(n)
      /\ SubSeq(y, c + n + 1, l) = r
      /\ SubSeq(y, 1, l) = y
  BY <1>1, <1>2, PayloadIs
<1>4. l \in Nat /\ next \in Nat /\ HeaderSize <= next /\ next <= HeaderSize + l
      /\ next - HeaderSize = c + n
  <2>1. Len(r) \in Nat /\ HeaderSize \in Nat
    BY SizeAssumption
  <2> HIDE DEF c
  <2> QED  BY <1>1, <1>2, <2>1
<1>5. Len(Padding(n)) = n
  BY <1>2, PaddingIs
<1>6. new = [head |-> WithSum(h), body |-> y]
  BY DEF rebuild, k, n
<1> HIDE DEF c, y, l, next, new
<1>7. h = [p.head EXCEPT !.next = next, !.len = l, !.md5 = y]
  BY <1>3, <1>5 DEF next
<1> HIDE DEF h
<1>8. /\ h \in Heads /\ h.next = next /\ h.len = l /\ h.md5 = y
      /\ h.magic = "RCKS" /\ h.hdr_len = HeaderSize /\ h.type = 0
  BY <1>1, <1>3, <1>4, <1>7 DEF Heads, HeadWith
<1>9. /\ WithSum(h) \in Heads /\ WithSum(h).sum = Checksum(WithSum(h))
      /\ WithSum(h).next = next /\ WithSum(h).len = l /\ WithSum(h).md5 = y
      /\ WithSum(h).magic = "RCKS" /\ WithSum(h).hdr_len = HeaderSize
      /\ WithSum(h).type = 0
  <2>1. h \in HeadWith(HeadWith({0}))
    BY <1>8 DEF Heads
  <2> QED  BY <1>8, <2>1, ChecksumIs
<1>10. new \in Image /\ new.head = WithSum(h) /\ new.body = y
  BY <1>3, <1>6, <1>9 DEF Image, Heads
<1>11. Payload(new) = y
  BY <1>3, <1>9, <1>10 DEF Payload
<1>12. ValidContainer(new, {0}, 0)
  <2>1. l + 0 <= Len(y)
    BY <1>3, <1>4
  <2> QED  BY <1>4, <1>9, <1>10, <1>11, <2>1 DEF ValidContainer
<1>13. Split(new) = c + n
  BY <1>4, <1>9, <1>10 DEF Split
<1>14. /\ parse_bl7(new) # Refused /\ parse_bl7(new).head = new.head
       /\ parse_bl7(new).kernel = Stripped(SubSeq(y, 1, c + n))
       /\ parse_bl7(new).rootfs = SubSeq(y, c + n + 1, l)
  BY <1>9, <1>10, <1>11, <1>12, <1>13, ParseIs
<1>15. parse_bl7(new).kernel = k
  <2>1. Stripped(k \o Padding(n)) = k
    BY <1>1, <1>2, StripPadded
  <2> QED  BY <1>3, <1>14, <2>1
<1>16. /\ p.head.next % PageSize = 0
       /\ (p.head.next - HeaderSize) - c < PageSize
       => p.head.next = next
  BY <1>1, <1>2
<1> QED
  BY <1>2, <1>3, <1>9, <1>10, <1>14, <1>15, <1>16 DEF new, k, c, next

LEMMA AppendedIs ==
  ASSUME NEW s \in Seq(Nat)
  PROVE  /\ Append(s, 0) \in Seq(Nat) /\ Len(Append(s, 0)) = Len(s) + 1
         /\ \A j \in 1 .. Len(s) : Append(s, 0)[j] = s[j]
         /\ Append(s, 0)[Len(s) + 1] = 0
OBVIOUS

(* The rules leave one module, and make it the patched one. *)
OneModule(rootfs) == \E i \in Modules(rootfs) : Modules(rootfs) = {i} /\ rootfs[i] # 3

LEMMA RepackedIs ==
  ASSUME NEW rootfs \in Seq(Nat), OneModule(rootfs), NEW r \in Repacked(rootfs)
  PROVE  r \in Seq(Nat) /\ {r[i] : i \in Modules(r)} = {2}
<1> DEFINE l == Len(rootfs)
           f == [i \in 1 .. l |-> IF i \in Modules(rootfs) THEN 2 ELSE rootfs[i]]
<1>1. l \in Nat
  OBVIOUS
<1>2. PICK i \in 1 .. l : Modules(rootfs) = {i}
  BY DEF OneModule, Modules
<1>3. f \in Seq(Nat) /\ Len(f) = l /\ f[i] = 2
  <2>1. f \in [1 .. l -> Nat] /\ f[i] = 2
    BY <1>2
  <2> HIDE DEF f, l
  <2>2. f \in Seq(Nat)
    BY <1>1, <2>1, SeqDef
  <2>3. Len(f) = l
    BY <1>1, <2>1, <2>2
  <2> QED  BY <2>1, <2>2, <2>3
<1>4. \A j \in 1 .. l : f[j] \in {1, 2, 3} => f[j] = 2
  <2> SUFFICES ASSUME NEW j \in 1 .. l, f[j] \in {1, 2, 3} PROVE f[j] = 2
    OBVIOUS
  <2>1. CASE j \in Modules(rootfs)
    BY <2>1
  <2>2. CASE j \notin Modules(rootfs)
    <3>1. f[j] = rootfs[j]
      BY <2>2
    <3>2. rootfs[j] \notin {1, 2, 3}
      BY <2>2 DEF Modules
    <3> QED  BY <3>1, <3>2
  <2> QED  BY <2>1, <2>2
<1>5. r = f \/ r = Append(f, 0)
  BY DEF Repacked
<1> HIDE DEF f, l
<1>6. CASE r = f
  <2>1. \A j \in Modules(f) : f[j] = 2
    BY <1>3, <1>4 DEF Modules
  <2>2. i \in Modules(f)
    BY <1>2, <1>3 DEF Modules
  <2>3. {f[j] : j \in Modules(f)} = {2}
    BY <1>3, <2>1, <2>2
  <2> QED  BY <1>3, <1>6, <2>3
<1>7. CASE r = Append(f, 0)
  <2>1. /\ r \in Seq(Nat) /\ Len(r) = l + 1
        /\ \A j \in 1 .. l : r[j] = f[j]
        /\ r[l + 1] = 0
    <3>1. r = Append(f, 0) /\ f \in Seq(Nat) /\ Len(f) = l
      BY <1>3, <1>7
    <3> QED  BY <3>1, AppendedIs
  <2>2. \A j \in 1 .. Len(r) : j \in 1 .. l \/ j = l + 1
    BY <1>1, <2>1
  <2>3. \A j \in Modules(r) : r[j] = 2
    <3> SUFFICES ASSUME NEW j \in Modules(r) PROVE r[j] = 2
      OBVIOUS
    <3>1. j \in 1 .. Len(r) /\ r[j] \in {1, 2, 3}
      BY DEF Modules
    <3>2. CASE j \in 1 .. l
      BY <1>4, <2>1, <3>1, <3>2
    <3>3. CASE j = l + 1
      BY <2>1, <3>1, <3>3
    <3> QED  BY <2>2, <3>1, <3>2, <3>3
  <2>4. i \in Modules(r) /\ r[i] = 2
    <3>1. r[i] = 2
      BY <1>2, <1>3, <2>1
    <3>2. i \in 1 .. Len(r)
      BY <1>1, <1>2, <2>1
    <3> QED  BY <3>1, <3>2 DEF Modules
  <2>5. {r[j] : j \in Modules(r)} = {2}
    BY <2>3, <2>4
  <2> QED  BY <2>1, <2>5
<1> QED  BY <1>5, <1>6, <1>7

(* What ImageSound says of one image and the vendor's. *)
SoundImage(image, vendors) ==
  LET new == parse_bl7(image)
      old == parse_bl7(UiForm(vendors))
  IN  /\ new # Refused /\ old # Refused
      /\ new.kernel = old.kernel
      /\ new.head.next % PageSize = 0
      /\ FileSize(image) = HeaderSize + new.head.len
      /\ {new.rootfs[i] : i \in Modules(new.rootfs)} = {2}
      /\ /\ old.head.next % PageSize = 0
         /\ old.head.next - HeaderSize - Len(old.kernel) < PageSize
         => new.head.next = old.head.next

LEMMA PatchedIs ==
  ASSUME NEW image \in Image, NEW new \in patch_image(image)
  PROVE  new \in Image /\ SoundImage(new, image)
<1> DEFINE ui == UiForm(image)
           p == parse_bl7(ui)
<1>1. ui # Refused /\ p # Refused /\ OneModule(p.rootfs)
      /\ \E r \in Repacked(p.rootfs) : new = rebuild(p, r)
  <2> DEFINE parsed == IF ui = Refused THEN Refused ELSE p
  <2>1. patch_image(image) =
          IF parsed = Refused THEN {}
          ELSE IF OneModule(parsed.rootfs)
               THEN {rebuild(parsed, r) : r \in Repacked(parsed.rootfs)}
               ELSE {}
    BY DEF patch_image, OneModule
  <2> HIDE DEF p, ui
  <2>2. ui # Refused /\ p # Refused /\ parsed = p
    BY <2>1
  <2> HIDE DEF parsed
  <2> QED  BY <2>1, <2>2
<1>2. ui \in Image
  BY <1>1, UiFormIs
<1>3. Fits(p)
  <2> HIDE DEF ui
  <2> QED  BY <1>1, <1>2, ParseIs
<1> HIDE DEF ui, p
<1>4. p.rootfs \in Seq(Nat)
  BY <1>3 DEF Fits, Parsed
<1>5. PICK r \in Repacked(p.rootfs) : new = rebuild(p, r)
  BY <1>1
<1>6. r \in Seq(Nat) /\ {r[i] : i \in Modules(r)} = {2}
  BY <1>1, <1>4, RepackedIs
<1>7. /\ new \in Image
      /\ parse_bl7(new) # Refused
      /\ parse_bl7(new).head = new.head
      /\ parse_bl7(new).kernel = p.kernel
      /\ parse_bl7(new).rootfs = r
      /\ new.head.next % PageSize = 0
      /\ Len(new.body) = new.head.len
      /\ /\ p.head.next % PageSize = 0
         /\ p.head.next - HeaderSize - Len(p.kernel) < PageSize
         => new.head.next = p.head.next
  BY <1>3, <1>5, <1>6, RebuiltIs
<1>8. FileSize(new) = HeaderSize + parse_bl7(new).head.len
  BY <1>7 DEF FileSize
<1> QED  BY <1>1, <1>6, <1>7, <1>8 DEF SoundImage, p, ui

LEMMA CutsJoin ==
  ASSUME NEW s \in Seq(Nat), NEW b \in 0 .. Len(s), NEW a \in 0 .. b
  PROVE  /\ SubSeq(s, 1, a) \in Seq(Nat) /\ Len(SubSeq(s, 1, a)) = a
         /\ SubSeq(s, a + 1, b) \in Seq(Nat) /\ Len(SubSeq(s, a + 1, b)) = b - a
         /\ SubSeq(s, 1, a) \o SubSeq(s, a + 1, b) = SubSeq(s, 1, b)
<1> DEFINE one == 1
           a1 == a + 1
           k == SubSeq(s, one, a)
           r == SubSeq(s, a1, b)
           f == SubSeq(s, one, b)
<1>1. /\ Len(s) \in Nat /\ a \in Nat /\ b \in Nat
      /\ one \in 1 .. Len(s) + 1 /\ a \in one - 1 .. Len(s) /\ b \in one - 1 .. Len(s)
      /\ a1 \in 1 .. Len(s) + 1 /\ b \in a1 - 1 .. Len(s)
      /\ a - one + 1 = a /\ b - one + 1 = b /\ b - a1 + 1 = b - a
      /\ \A i \in 1 .. b : one + i - 1 = i
      /\ \A i \in 1 .. b - a : a1 + i - 1 = a + i
  OBVIOUS
<1> HIDE DEF one, a1
<1>2. k \in Seq(Nat) /\ Len(k) = a /\ \A i \in 1 .. a : k[i] = s[i]
  <2>1. /\ k \in Seq(Nat) /\ Len(k) = a - one + 1
        /\ \A i \in 1 .. a - one + 1 : k[i] = s[one + i - 1]
    BY <1>1, CutIs
  <2> HIDE DEF k
  <2>2. \A i \in 1 .. a : i \in 1 .. b
    BY <1>1
  <2> QED  BY <1>1, <2>1, <2>2
<1>3. f \in Seq(Nat) /\ Len(f) = b /\ \A i \in 1 .. b : f[i] = s[i]
  <2>1. /\ f \in Seq(Nat) /\ Len(f) = b - one + 1
        /\ \A i \in 1 .. b - one + 1 : f[i] = s[one + i - 1]
    BY <1>1, CutIs
  <2> HIDE DEF f
  <2> QED  BY <1>1, <2>1
<1>4. r \in Seq(Nat) /\ Len(r) = b - a /\ \A i \in 1 .. b - a : r[i] = s[a + i]
  <2>1. /\ r \in Seq(Nat) /\ Len(r) = b - a1 + 1
        /\ \A i \in 1 .. b - a1 + 1 : r[i] = s[a1 + i - 1]
    BY <1>1, CutIs
  <2> HIDE DEF r
  <2> QED  BY <1>1, <2>1
<1> HIDE DEF k, f, r
<1>5. /\ k \o r \in Seq(Nat) /\ Len(k \o r) = a + (b - a)
      /\ \A i \in 1 .. a : (k \o r)[i] = k[i]
      /\ \A i \in 1 .. b - a : (k \o r)[a + i] = r[i]
  <2>1. k \in Seq(Nat) /\ r \in Seq(Nat) /\ Len(k) = a /\ Len(r) = b - a
    BY <1>2, <1>4
  <2>2. /\ k \o r \in Seq(Nat) /\ Len(k \o r) = Len(k) + Len(r)
        /\ \A i \in 1 .. Len(k) : (k \o r)[i] = k[i]
        /\ \A i \in 1 .. Len(r) : (k \o r)[Len(k) + i] = r[i]
    BY <2>1, JoinedIs
  <2> QED  BY <2>1, <2>2
<1>6. Len(k \o r) = Len(f)
  BY <1>1, <1>3, <1>5
<1>7. ASSUME NEW i \in 1 .. Len(k \o r) PROVE (k \o r)[i] = f[i]
  <2>1. i \in 1 .. b
    BY <1>3, <1>6
  <2>2. CASE i \in 1 .. a
    BY <1>2, <1>3, <1>5, <2>1, <2>2
  <2>3. CASE i \notin 1 .. a
    <3> DEFINE j == i - a
    <3>1. j \in 1 .. b - a /\ a + j = i
      BY <1>1, <2>1, <2>3
    <3> HIDE DEF j
    <3>2. (k \o r)[a + j] = s[a + j]
      BY <1>4, <1>5, <3>1
    <3> QED  BY <1>3, <2>1, <3>1, <3>2
  <2> QED  BY <2>2, <2>3
<1>8. k \o r = f
  BY <1>3, <1>5, <1>6, <1>7, SameBytes
<1> QED  BY <1>2, <1>4, <1>8 DEF k, r, f, one, a1

(* What the vendor's tool makes is accepted, signed or not, and its root     *)
(* file system is found where it was put.                                    *)
RootOf(image) == SubSeq(image.body, image.head.next - HeaderSize + 1, image.head.len)

LEMMA VendorMadeIs ==
  ASSUME NEW image \in Image, VendorMade(image)
  PROVE  /\ UiForm(image) # Refused /\ parse_bl7(UiForm(image)) # Refused
         /\ parse_bl7(UiForm(image)).rootfs = RootOf(image)
<1> DEFINE h == image.head
           b == image.body
           type == h.type
           len == h.len
           split == h.next - HeaderSize
           k == SubSeq(b, 1, split)
           r == SubSeq(b, split + 1, len)
           t == SubSeq(b, len + 1, Len(b))
           y == k \o r
           one == 1
           g == [magic |-> "RCKS", hdr_len |-> HeaderSize, type |-> type,
                 next |-> HeaderSize + Len(k), len |-> Len(y), md5 |-> y, sum |-> 0]
<1>1. /\ h \in Heads /\ b \in Seq(Nat) /\ type \in Nat /\ len \in Nat
      /\ h.next \in Nat /\ HeaderSize \in Nat
  BY SizeAssumption DEF Image, Heads, HeadWith
<1>2. /\ split \in 0 .. len /\ len \in 0 .. Len(b) /\ type \in 0 .. 2
      /\ type # 0 => len < Len(b)
      /\ image = [head |-> WithSum(g), body |-> y \o t]
  BY DEF VendorMade, Bl7
<1>3. /\ k \in Seq(Nat) /\ Len(k) = split
      /\ r \in Seq(Nat) /\ Len(r) = len - split
      /\ y = Payload(image)
  <2>1. SubSeq(b, 1, len) = Payload(image)
    BY DEF Payload
  <2> HIDE DEF b, len, split
  <2> QED  BY <1>1, <1>2, <2>1, CutsJoin
<1> HIDE DEF k, r, t
<1>4. y \in Seq(Nat) /\ Len(y) = len
  <2>1. y \in Seq(Nat) /\ Len(y) = split + (len - split)
    BY <1>3, JoinedIs
  <2> HIDE DEF y, split, len
  <2> QED  BY <1>1, <1>2, <2>1
<1>5. SubSeq(y, split + 1, len) = r
  <2>1. SubSeq(y, split + 1, split + (len - split)) = r
    BY <1>3, CutsOfJoined
  <2>2. split + (len - split) = len
    <3> HIDE DEF split, len
    <3> QED  BY <1>1, <1>2
  <2> QED  BY <2>1, <2>2
<1>6. h = WithSum(g)
  BY <1>2
<1> HIDE DEF y
<1>7. g \in HeadWith({0})
  <2>1. HeaderSize + Len(k) \in Nat /\ Len(y) \in Nat
    BY <1>1, <1>3, <1>4
  <2> DEFINE next == HeaderSize + Len(k)
             l == Len(y)
  <2> HIDE DEF next, l, len, type
  <2>2. /\ "RCKS" \in {"RCKS", "other"} /\ HeaderSize \in Nat /\ type \in Nat
        /\ next \in Nat /\ l \in Nat /\ y \in Seq(Nat) /\ 0 \in {0}
    BY <1>1, <1>4, <2>1 DEF next, l
  <2> QED  BY <2>2 DEF HeadWith, next, l
<1>8. /\ h.magic = "RCKS" /\ h.hdr_len = HeaderSize /\ h.md5 = y
      /\ h.sum = Checksum(h)
  <2> DEFINE z == WithSum(g)
  <2>1. z.magic = g.magic /\ z.hdr_len = g.hdr_len /\ z.md5 = g.md5 /\ z.sum = Checksum(z)
    <3> HIDE DEF g
    <3> QED  BY <1>7, ChecksumIs
  <2>2. g.magic = "RCKS" /\ g.hdr_len = HeaderSize /\ g.md5 = y
    OBVIOUS
  <2> HIDE DEF g
  <2> QED  BY <1>6, <2>1, <2>2
<1>9. HeaderSize <= h.next /\ h.next <= HeaderSize + len
  BY <1>1, <1>2
<1> HIDE DEF g
<1>10. CASE type = 0
  <2>1. UiForm(image) = image
    BY <1>10 DEF UiForm
  <2>2. len + 0 <= Len(b)
    <3> HIDE DEF len, b
    <3> QED  BY <1>1, <1>2
  <2>3. ValidContainer(image, {0}, 0)
    BY <1>3, <1>8, <1>9, <1>10, <2>2 DEF ValidContainer
  <2>4. /\ parse_bl7(image) # Refused
        /\ parse_bl7(image).rootfs = SubSeq(Payload(image), Split(image) + 1, len)
    BY <2>3, ParseIs
  <2> QED  BY <1>3, <1>5, <2>1, <2>4, RefusedAssumption DEF Split, RootOf, r
<1>11. CASE type # 0
  <2> DEFINE ui == UiForm(image)
             f == [h EXCEPT !.type = 0]
  <2>1. len + 1 <= Len(b) /\ type \in {1, 2}
    <3>1. Len(b) \in Nat
      BY <1>1
    <3> HIDE DEF len, b, type
    <3> QED  BY <1>1, <1>2, <1>11, <3>1
  <2>2. ValidContainer(image, {1, 2}, 1)
    BY <1>3, <1>8, <1>9, <2>1 DEF ValidContainer
  <2>3. ui = [head |-> WithSum(f), body |-> y]
    BY <1>3, <1>11, <2>2 DEF UiForm, signed_to_ui
  <2>4. /\ f \in Heads /\ f.magic = "RCKS" /\ f.hdr_len = HeaderSize /\ f.type = 0
        /\ f.next = h.next /\ f.len = len /\ f.md5 = y
    <3> HIDE DEF h
    <3> QED  BY <1>1, <1>8 DEF Heads, HeadWith
  <2> HIDE DEF f, ui
  <2>5. /\ WithSum(f) \in Heads /\ WithSum(f).sum = Checksum(WithSum(f))
        /\ WithSum(f).next = h.next /\ WithSum(f).len = len /\ WithSum(f).md5 = y
        /\ WithSum(f).magic = "RCKS" /\ WithSum(f).hdr_len = HeaderSize
        /\ WithSum(f).type = 0
    <3>1. f \in HeadWith(HeadWith({0}))
      BY <2>4 DEF Heads
    <3> QED  BY <2>4, <3>1, ChecksumIs
  <2>6. ui \in Image /\ ui.head = WithSum(f) /\ ui.body = y
    BY <1>4, <2>3, <2>5 DEF Image, Heads
  <2>7. Payload(ui) = y
    <3>1. SubSeq(y, 1, len) = y
      BY <1>4, SubSeqFull
    <3> QED  BY <2>5, <2>6, <3>1 DEF Payload
  <2>8. ValidContainer(ui, {0}, 0)
    <3>1. len + 0 <= Len(y)
      <4> HIDE DEF len
      <4> QED  BY <1>1, <1>4
    <3> QED  BY <1>9, <2>5, <2>6, <2>7, <3>1 DEF ValidContainer
  <2>9. /\ parse_bl7(ui) # Refused
        /\ parse_bl7(ui).rootfs = SubSeq(y, split + 1, len)
    <3>1. Split(ui) = split /\ ui.head.len = len
      BY <2>5, <2>6 DEF Split
    <3> QED  BY <2>6, <2>7, <2>8, <3>1, ParseIs
  <2>10. ui # Refused
    BY <2>6, RefusedAssumption
  <2> QED  BY <1>5, <2>9, <2>10 DEF ui, RootOf, r
<1> QED  BY <1>10, <1>11

(* So the rules that find their one module in it make an image of it.        *)
LEMMA Patchable ==
  ASSUME NEW image \in Image, VendorMade(image), OneModule(RootOf(image))
  PROVE  patch_image(image) # {}
<1> DEFINE ui == UiForm(image)
           p == parse_bl7(ui)
           parsed == IF ui = Refused THEN Refused ELSE p
<1>1. ui # Refused /\ p # Refused /\ OneModule(p.rootfs)
  BY VendorMadeIs
<1>2. patch_image(image) =
        IF parsed = Refused THEN {}
        ELSE IF OneModule(parsed.rootfs)
             THEN {rebuild(parsed, r) : r \in Repacked(parsed.rootfs)}
             ELSE {}
  BY DEF patch_image, OneModule
<1> HIDE DEF p, ui
<1>3. parsed = p
  BY <1>1
<1> HIDE DEF parsed
<1>4. patch_image(image) = {rebuild(p, r) : r \in Repacked(p.rootfs)}
  BY <1>1, <1>2, <1>3
<1>5. Repacked(p.rootfs) # {}
  BY DEF Repacked
<1> QED  BY <1>4, <1>5

-----------------------------------------------------------------------------
(* The inductive invariant of the builder. *)

(* The steps a run still has before it. *)
Packing   == {"zip", "replace"}
Patched   == {"report"} \cup Packing
Patching  == {"override", "patch", "controls"}
Extracted == {"kernel", "mesh"} \cup Patching \cup Patched
Verified  == {"extract"} \cup Extracted
Decoded   == {"verify"} \cup Verified
Chosen    == {"options", "input", "decrypt"} \cup Decoded
Loaded    == {"select"} \cup Chosen
Busy      == {"load"} \cup Loaded

WorldInv == \E w \in Worlds : manifest = w.manifest /\ vendor = w.vendor

(* What was loaded, and what the command line and the download select.       *)
RequestInv ==
  /\ pc \in Busy => input \in Inputs /\ opt \in Options
  /\ pc \in Loaded \/ out # None => load_release_manifest
  /\ pc \in Chosen => release \in Entries /\ (faults = 0 => release = Selected)

(* A digest is checked once: what follows holds while the download stays.    *)
ArchiveInv ==
  /\ pc \notin Decoded => decrypted = None
  /\ pc \in {"input", "decrypt"} => ~gzip
  /\ pc \in {"input", "decrypt"} \cup Decoded /\ faults = 0 =>
       gzip = (Head(input) = Gzip)
  /\ pc \in Decoded /\ faults = 0 /\ ~gzip => decrypted = decrypt_file(input)
  /\ pc \in Verified /\ (~gzip \/ faults = 0) => Archive = release.dec

(* The tree is that of the archive, which a download that was replaced and   *)
(* not put back does not hide.                                               *)
TreeInv ==
  /\ pc \notin Extracted => tree = None
  /\ pc \in Extracted =>
       /\ tree = [archive |-> tree.archive, file |-> tree.file, sizes |-> tree.sizes]
       /\ tree.archive \in DOMAIN vendor
       /\ tree.file = [t \in DOMAIN Layout.file |-> tree.file[t]]
       /\ tree.sizes = [c \in DOMAIN Layout.sizes |-> tree.sizes[c]]
       /\ ~gzip \/ faults = 0 \/ (input = release.dec /\ faults < 2) =>
            tree.archive = release.dec

(* How far the repair is. *)
RepairInv ==
  /\ pc \in Patching => PatchScorpion
  /\ pc \in Patching \cup Patched /\ PatchScorpion => Targets # {}
  /\ pc = "override" => todo = Targets /\ opt.bl7 # None
  /\ pc = "patch" => todo \subseteq Targets /\ todo # {} /\ opt.bl7 = None
  /\ pc \in {"controls"} \cup Patched => todo = {}

(* What it has made of an image, and what it leaves alone. *)
Repaired(t) ==
  IF t \in Targets \ todo
  THEN /\ parse_bl7(tree.file[t]) # Refused
       /\ opt.bl7 = None => SoundImage(tree.file[t], Layout.file[t])
  ELSE tree.file[t] = Layout.file[t]

FilesInv ==
  /\ pc \in {"kernel", "mesh"} \/ (pc \in Patched /\ ~PatchScorpion) =>
       tree.file = Layout.file /\ tree.sizes = Layout.sizes
  /\ pc \in Patching => tree.sizes = Layout.sizes
  /\ pc \in Patching \cup Patched /\ PatchScorpion =>
       \A t \in DOMAIN Layout.file : Repaired(t)
  /\ pc \in Patched /\ PatchScorpion =>
       \A c \in Controls : tree.sizes[c] = <<ImageSize, ImageSize>>

(* What BundleSound says of a report r and a tree tr, after n faults, when    *)
(* the tree is that of archive v and the report one of release e.            *)
SoundBundle(n, v, e, r, tr) ==
  LET Size(t) == FileSize(tr.file[t])
      sharing == Sharing(v)
      Own(t) == t \in v.image["r600"]
  IN  /\ ~r.gzip \/ (r.digest = e.dec /\ n < 2) => tr.archive = e.dec
      /\ ~r.patched => tr.file = v.file /\ tr.sizes = v.sizes
      /\ r.patched =>
           /\ r.models = sharing
           /\ r.validated \cup r.warned = sharing
           /\ \A t \in DOMAIN v.file :
                IF Own(t) THEN parse_bl7(tr.file[t]) # Refused
                ELSE tr.file[t] = v.file[t]
           /\ \A m \in sharing, c \in UNION {v.control[k] : k \in sharing \cap DOMAIN v.control} :
                \A t \in v.image[m] :
                  \/ tr.sizes[c] = <<Size(t), Size(t)>>
                  \/ \E u \in v.image["r600"] : u < t /\ Size(u) # Size(t)

ReportInv ==
  pc \in Packing =>
    report.id = release.id /\ SoundBundle(faults, Layout, release, report, tree)

Inv ==
  /\ TypeInv /\ WorldInv /\ RequestInv /\ ArchiveInv /\ TreeInv /\ RepairInv
  /\ FilesInv /\ ReportInv /\ BundleSound /\ GenuineAccepted

(* It holds at the start. *)
LEMMA InitHolds == Init => Inv
<1> SUFFICES ASSUME Init PROVE Inv
  OBVIOUS
<1>1. PICK w \in Worlds : manifest = w.manifest /\ vendor = w.vendor /\ runs = w.runs
  BY DEF Init
<1>2. /\ pc = "idle" /\ input = None /\ opt = None /\ release = None
      /\ decrypted = None /\ gzip = FALSE /\ tree = None /\ todo = {}
      /\ report = None /\ tmp = None /\ out = None /\ faults = 0
  BY DEF Init
<1>3. TypeInv
  <2>1. w.runs \in Nat /\ MaxFaults \in Nat
    BY WorldAssumption, FaultAssumption
  <2>2. runs \in Nat /\ faults \in 0 .. MaxFaults
    BY <1>1, <1>2, <2>1
  <2> QED  BY <1>2, <2>2 DEF TypeInv, Idle
<1>4. pc \notin Busy
  BY <1>2 DEF Busy, Loaded, Chosen, Decoded, Verified, Extracted, Patching, Patched, Packing
<1>5. WorldInv /\ RequestInv
  BY <1>1, <1>2, <1>4 DEF WorldInv, RequestInv, Busy, Loaded
<1>6. ArchiveInv /\ TreeInv /\ RepairInv
  BY <1>2 DEF ArchiveInv, TreeInv, RepairInv, Decoded, Verified, Extracted, Patching,
       Patched, Packing
<1>7. FilesInv /\ ReportInv
  BY <1>2 DEF FilesInv, ReportInv, Patching, Patched, Packing
<1>8. BundleSound /\ GenuineAccepted
  BY <1>2 DEF BundleSound, GenuineAccepted
<1> QED  BY <1>3, <1>5, <1>6, <1>7, <1>8 DEF Inv

(* The steps that end a run without a bundle. *)
Leaves == Refuse \/ Fail \/ Kill

Ends == {"refused", "failed", "killed"}

LEMMA LeavesIs ==
  ASSUME Leaves, TypeInv
  PROVE  /\ pc \notin Idle /\ pc' \in Ends
         /\ release' = None /\ decrypted' = None /\ gzip' = FALSE
         /\ tree' = None /\ todo' = {} /\ report' = None
         /\ manifest' = manifest /\ vendor' = vendor /\ input' = input /\ opt' = opt
         /\ out' = out /\ runs' = runs /\ tmp' \in {None, Partial}
         /\ faults' \in 0 .. MaxFaults /\ faults' \in {faults, faults + 1}
         /\ pc' = "refused" => ~Passes /\ faults' = faults
<1>1. tmp \in {None, Partial} /\ faults \in 0 .. MaxFaults /\ MaxFaults \in Nat
  BY FaultAssumption DEF TypeInv
<1>2. CASE Refuse
  BY <1>1, <1>2 DEF Refuse, Leave, world, request, zips, Ends
<1>3. CASE Fail
  BY <1>1, <1>3 DEF Fail, Fault, Leave, world, request, Ends
<1>4. CASE Kill
  BY <1>1, <1>4 DEF Kill, Fault, Leave, world, request, zips, Ends
<1> QED  BY <1>2, <1>3, <1>4 DEF Leaves

(* The steps that change nothing but how far the run is. *)
Quiet == LoadManifest \/ VerifyInput \/ VerifyArchive \/ PatchKernel \/ WriteZip

LEMMA QuietIs ==
  ASSUME Quiet, TypeInv
  PROVE  /\ Passes
         /\ <<pc, pc'>> \in {<<"load", "select">>, <<"input", "decrypt">>,
                            <<"verify", "extract">>, <<"kernel", "mesh">>,
                            <<"zip", "replace">>}
         /\ release' = release /\ decrypted' = decrypted /\ gzip' = gzip
         /\ tree' = tree /\ todo' = todo /\ report' = report
         /\ manifest' = manifest /\ vendor' = vendor /\ input' = input /\ opt' = opt
         /\ out' = out /\ runs' = runs /\ tmp' \in {None, Partial} /\ faults' = faults
<1>1. CASE LoadManifest
  BY <1>1 DEF TypeInv, LoadManifest, Goto, world, request, work, zips
<1>2. CASE VerifyInput
  BY <1>2 DEF TypeInv, VerifyInput, Goto, world, request, work, zips
<1>3. CASE VerifyArchive
  BY <1>3 DEF TypeInv, VerifyArchive, Goto, world, request, work, zips
<1>4. CASE PatchKernel
  BY <1>4 DEF TypeInv, PatchKernel, Goto, world, request, work, zips
<1>5. CASE WriteZip
  BY <1>5 DEF TypeInv, WriteZip, Goto, world, request, work, zips
<1> QED  BY <1>1, <1>2, <1>3, <1>4, <1>5 DEF Quiet

(* The steps that change the tree. *)
Extends == Extract \/ OverrideImages \/ PatchImage \/ UpdateControls

(* And the others. *)
LEMMA Steps ==
  ASSUME Next
  PROVE  \/ Quiet \/ Leaves \/ Extends \/ Start \/ SwapInput
         \/ SelectRelease \/ CheckOptions \/ Decrypt
         \/ ChooseRepair \/ WriteReport \/ ReplaceZip
BY DEF Next, Build, Quiet, Leaves, Extends

(* The installation stays, and with it what the manifest says. *)
LEMMA WorldStays ==
  ASSUME TypeInv, Next
  PROVE  /\ manifest' = manifest /\ vendor' = vendor
         /\ Entries' = Entries /\ load_release_manifest' = load_release_manifest
         /\ faults' \in {faults, faults + 1} /\ faults' \in 0 .. MaxFaults
<1>1. /\ manifest' = manifest /\ vendor' = vendor
      /\ faults' \in {faults, faults + 1} /\ faults' \in 0 .. MaxFaults
  <2>1. faults \in 0 .. MaxFaults /\ MaxFaults \in Nat
    BY FaultAssumption DEF TypeInv
  <2>2. CASE Quiet
    BY <2>1, <2>2, QuietIs
  <2>3. CASE Leaves
    BY <2>1, <2>3, LeavesIs
  <2>4. CASE Extends
    BY <2>1, <2>4 DEF Extends, Extract, OverrideImages, PatchImage, UpdateControls, world
  <2>5. CASE Start \/ SelectRelease \/ CheckOptions \/ Decrypt
    BY <2>1, <2>5 DEF Start, SelectRelease, CheckOptions, Decrypt, world
  <2>6. CASE ChooseRepair \/ WriteReport \/ ReplaceZip
    BY <2>1, <2>6 DEF ChooseRepair, WriteReport, ReplaceZip, world
  <2>7. CASE SwapInput
    BY <2>1, <2>7 DEF SwapInput, Fault, world
  <2> QED  BY <2>2, <2>3, <2>4, <2>5, <2>6, <2>7, Steps
<1> QED  BY <1>1 DEF Entries, load_release_manifest

(* The tree after a step that changes it. *)
Holds(tr, a, f, s) == tr = [archive |-> a, file |-> f, sizes |-> s]

LEMMA HoldsIs ==
  ASSUME NEW tr, NEW a, NEW f, NEW s, Holds(tr, a, f, s)
  PROVE  /\ tr.archive = a /\ tr.file = f /\ tr.sizes = s
         /\ Holds(tr, tr.archive, tr.file, tr.sizes)
         /\ \A g : Holds([tr EXCEPT !.file = g], a, g, s)
         /\ \A g : Holds([tr EXCEPT !.sizes = g], a, f, g)
BY DEF Holds

LEMMA ExtractIs ==
  ASSUME Extract
  PROVE  /\ pc = "extract" /\ pc' = "kernel" /\ Archive \in DOMAIN vendor
         /\ Holds(tree', Archive, vendor[Archive].file, vendor[Archive].sizes)
         /\ release' = release /\ decrypted' = decrypted /\ gzip' = gzip
         /\ todo' = todo /\ report' = report
         /\ input' = input /\ opt' = opt /\ out' = out /\ tmp' = tmp
         /\ runs' = runs /\ faults' = faults
<1>1. pc = "extract" /\ pc' = "kernel" /\ Passes
  BY DEF Extract, Goto
<1>2. Archive \in DOMAIN vendor
  BY <1>1 DEF Passes
<1> QED  BY <1>1, <1>2 DEF Extract, Holds, request, zips

LEMMA OverrideIs ==
  ASSUME OverrideImages, TypeInv, TreeInv
  PROVE  /\ pc = "override" /\ pc' = "controls" /\ parse_bl7(opt.bl7) # Refused
         /\ Holds(tree', tree.archive,
                  [t \in DOMAIN Layout.file |-> IF t \in todo THEN opt.bl7 ELSE tree.file[t]],
                  tree.sizes)
         /\ todo' = {}
         /\ release' = release /\ decrypted' = decrypted /\ gzip' = gzip
         /\ report' = report
         /\ input' = input /\ opt' = opt /\ out' = out /\ tmp' = tmp
         /\ runs' = runs /\ faults' = faults
<1> DEFINE D == DOMAIN Layout.file
           g == [t \in DOMAIN tree.file |-> IF t \in todo THEN opt.bl7 ELSE tree.file[t]]
           h == [t \in D |-> IF t \in todo THEN opt.bl7 ELSE tree.file[t]]
<1>1. pc = "override" /\ pc' = "controls" /\ Passes
  BY DEF OverrideImages, Goto
<1>2. parse_bl7(opt.bl7) # Refused
  BY <1>1 DEF Passes
<1>3. Holds(tree, tree.archive, tree.file, tree.sizes) /\ tree.file = [t \in D |-> tree.file[t]]
  BY <1>1 DEF TreeInv, Extracted, Patching, Holds
<1>4. DOMAIN tree.file = D
  BY <1>3
<1>5. tree' = [tree EXCEPT !.file = g]
  BY DEF OverrideImages
<1>6. g = h
  BY <1>4
<1> HIDE DEF g, h
<1>7. Holds(tree', tree.archive, h, tree.sizes)
  BY <1>3, <1>5, <1>6, HoldsIs
<1> QED  BY <1>1, <1>2, <1>7 DEF h, OverrideImages, request, zips

LEMMA PatchIs ==
  ASSUME PatchImage, TypeInv, TreeInv
  PROVE  /\ pc = "patch" /\ pc' = IF todo = {First(todo)} THEN "controls" ELSE "patch"
         /\ \E image \in patch_image(tree.file[First(todo)]) :
              Holds(tree', tree.archive,
                    [t \in DOMAIN Layout.file |->
                       IF t = First(todo) THEN image ELSE tree.file[t]],
                    tree.sizes)
         /\ todo' = todo \ {First(todo)}
         /\ release' = release /\ decrypted' = decrypted /\ gzip' = gzip
         /\ report' = report
         /\ input' = input /\ opt' = opt /\ out' = out /\ tmp' = tmp
         /\ runs' = runs /\ faults' = faults
<1> DEFINE D == DOMAIN Layout.file
           f == First(todo)
<1>1. pc = "patch" /\ pc' = (IF todo = {f} THEN "controls" ELSE "patch")
  BY DEF PatchImage, Goto
<1>2. Holds(tree, tree.archive, tree.file, tree.sizes) /\ tree.file = [t \in D |-> tree.file[t]]
  BY <1>1 DEF TreeInv, Extracted, Patching, Holds
<1>3. PICK image \in patch_image(tree.file[f]) : tree' = [tree EXCEPT !.file[f] = image]
  BY DEF PatchImage
<1> DEFINE g == [tree.file EXCEPT ![f] = image]
           h == [t \in D |-> IF t = f THEN image ELSE tree.file[t]]
<1> HIDE DEF f
<1>4. g = h
  BY <1>2
<1>5. tree' = [tree EXCEPT !.file = g]
  BY <1>3
<1> HIDE DEF g, h
<1>6. Holds(tree', tree.archive, h, tree.sizes)
  BY <1>2, <1>4, <1>5, HoldsIs
<1>7. \E i \in patch_image(tree.file[f]) :
        Holds(tree', tree.archive, [t \in D |-> IF t = f THEN i ELSE tree.file[t]],
              tree.sizes)
  BY <1>6 DEF h
<1>8. todo' = todo \ {f}
  BY DEF PatchImage, f
<1> QED  BY <1>1, <1>7, <1>8 DEF f, PatchImage, request, zips

LEMMA UpdateIs ==
  ASSUME UpdateControls, TypeInv, TreeInv
  PROVE  /\ pc = "controls" /\ pc' = "report"
         /\ Controls # {} /\ \A c \in Controls : Len(tree.sizes[c]) = 2
         /\ Holds(tree', tree.archive, tree.file,
                  [c \in DOMAIN Layout.sizes |->
                     IF c \in Controls THEN [i \in 1 .. Len(tree.sizes[c]) |-> ImageSize]
                     ELSE tree.sizes[c]])
         /\ todo' = todo
         /\ release' = release /\ decrypted' = decrypted /\ gzip' = gzip
         /\ report' = report
         /\ input' = input /\ opt' = opt /\ out' = out /\ tmp' = tmp
         /\ runs' = runs /\ faults' = faults
<1> DEFINE D == DOMAIN Layout.sizes
           z == ImageSize
           C == Controls
           g == [c \in DOMAIN tree.sizes |->
                   IF c \in C THEN [i \in 1 .. Len(tree.sizes[c]) |-> z]
                   ELSE tree.sizes[c]]
           h == [c \in D |-> IF c \in C THEN [i \in 1 .. Len(tree.sizes[c]) |-> z]
                             ELSE tree.sizes[c]]
<1>1. pc = "controls" /\ pc' = "report" /\ Passes
  BY DEF UpdateControls, Goto
<1>2. C # {} /\ \A c \in C : Len(tree.sizes[c]) = 2
  BY <1>1 DEF Passes
<1>3. Holds(tree, tree.archive, tree.file, tree.sizes) /\ tree.sizes = [c \in D |-> tree.sizes[c]]
  BY <1>1 DEF TreeInv, Extracted, Patching, Holds
<1>4. DOMAIN tree.sizes = D
  BY <1>3
<1>5. tree' = [tree EXCEPT !.sizes = g]
  BY DEF UpdateControls, update_scorpion_control_files
<1>6. g = h
  BY <1>4
<1> HIDE DEF g, h
<1>7. Holds(tree', tree.archive, tree.file, h)
  BY <1>3, <1>5, <1>6, HoldsIs
<1> QED  BY <1>1, <1>2, <1>7 DEF h, UpdateControls, request, zips

LEMMA ArchiveIs ==
  ASSUME WorldInv, NEW a \in DOMAIN vendor PROVE IsArchive(vendor[a])
BY WorldAssumption DEF WorldInv

LEMMA ManifestIs ==
  ASSUME WorldInv PROVE manifest \in Seq(Entries) /\ Refused \notin Entries
BY WorldAssumption DEF WorldInv, Entries

LEMMA SelectedIs ==
  ASSUME Selected # Refused PROVE Selected \in Entries
<1> DEFINE matches == {e \in Entries : input \in {e.enc, e.dec}}
<1>1. CASE opt.release # None
  BY <1>1 DEF Selected, release_by_id
<1>2. CASE opt.release = None
  <2>1. Cardinality(matches) = 1 /\ Selected = CHOOSE e \in matches : TRUE
    BY <1>2 DEF Selected, release_by_input_sha256
  <2>2. matches # {}
    BY <2>1, FS_EmptySet
  <2> QED  BY <2>1, <2>2
<1> QED  BY <1>1, <1>2

(* The images of the R600 are files of the archive. *)
LEMMA TargetsAre ==
  ASSUME WorldInv, tree.archive \in DOMAIN vendor
  PROVE  /\ Targets \subseteq DOMAIN Layout.file /\ DOMAIN Layout.file \subseteq Nat
         /\ Layout.file \in [DOMAIN Layout.file -> Image]
         /\ IsArchive(Layout)
<1>1. IsArchive(Layout)
  BY ArchiveIs DEF Layout
<1> QED  BY <1>1 DEF IsArchive, Targets

(* First takes one of the images. *)
LEMMA FirstIs ==
  ASSUME NEW files, files \subseteq Nat, files # {}
  PROVE  First(files) \in files /\ \A u \in files : First(files) <= u
<1>1. \E n \in files : \A t \in files : n <= t
  BY LeastOf
<1> QED  BY <1>1 DEF First

LEMMA TypeStep ==
  ASSUME Inv, Next PROVE TypeInv'
<1>1. /\ TypeInv /\ WorldInv /\ RequestInv /\ ArchiveInv /\ TreeInv /\ ReportInv
  BY DEF Inv
<1>2. /\ manifest' = manifest /\ vendor' = vendor /\ Entries' = Entries
      /\ faults' \in {faults, faults + 1} /\ faults' \in 0 .. MaxFaults
  BY <1>1, WorldStays
<1> DEFINE Places == Idle \cup {"load", "select", "options", "input", "decrypt",
       "verify", "extract", "kernel", "mesh", "override", "patch", "controls",
       "report", "zip", "replace"}
           Ids == {e.id : e \in Entries}
           Whole(tr) == tr # None => /\ tr.archive \in DOMAIN vendor
                                     /\ DOMAIN tr.file = DOMAIN vendor[tr.archive].file
                                     /\ DOMAIN tr.sizes = DOMAIN vendor[tr.archive].sizes
<1>3. /\ pc \in Places
      /\ input \in Inputs \cup {None} /\ opt \in Options \cup {None}
      /\ release \in Entries \cup {None}
      /\ decrypted # None => decrypted \in Seq(Byte)
      /\ gzip \in BOOLEAN /\ (gzip => decrypted = None)
      /\ todo \subseteq Nat /\ tmp \in {None, Partial}
      /\ Whole(tree)
      /\ (out # None => out.report.id \in Ids)
      /\ runs \in Nat
  BY <1>1 DEF TypeInv
<1>4. SUFFICES
      /\ pc' \in Places
      /\ input' \in Inputs \cup {None} /\ opt' \in Options \cup {None}
      /\ release' \in Entries \cup {None}
      /\ decrypted' # None => decrypted' \in Seq(Byte)
      /\ gzip' \in BOOLEAN /\ (gzip' => decrypted' = None)
      /\ todo' \subseteq Nat /\ tmp' \in {None, Partial}
      /\ Whole(tree')
      /\ (out' # None => out'.report.id \in Ids)
      /\ runs' \in Nat
  BY <1>2 DEF TypeInv
<1> HIDE DEF Ids, Whole
<1>5. CASE Quiet
  <2>1. /\ release' = release /\ decrypted' = decrypted /\ gzip' = gzip
        /\ tree' = tree /\ todo' = todo
        /\ input' = input /\ opt' = opt /\ out' = out /\ runs' = runs
        /\ tmp' \in {None, Partial}
    BY <1>1, <1>5, QuietIs
  <2>2. pc' \in Places
    BY <1>1, <1>5, QuietIs
  <2> QED  BY <1>3, <2>1, <2>2
<1>6. CASE Leaves
  <2>1. Whole(None)
    BY DEF Whole
  <2>2. pc' \in Places /\ todo' \subseteq Nat
    BY <1>1, <1>6, LeavesIs DEF Ends, Idle
  <2> QED  BY <1>1, <1>3, <1>6, <2>1, <2>2, LeavesIs
<1>7. CASE Extract
  <2>1. Whole(tree')
    BY <1>7, ExtractIs, HoldsIs DEF Whole
  <2>2. /\ release' = release /\ decrypted' = decrypted /\ gzip' = gzip /\ todo' = todo
        /\ input' = input /\ opt' = opt /\ out' = out /\ tmp' = tmp /\ runs' = runs
    BY <1>7, ExtractIs
  <2>3. pc' \in Places
    BY <1>7, ExtractIs
  <2> QED  BY <1>3, <2>1, <2>2, <2>3
<1>8. CASE OverrideImages
  <2>1. Holds(tree, tree.archive, tree.file, tree.sizes)
        /\ tree.archive \in DOMAIN vendor /\ DOMAIN tree.sizes = DOMAIN Layout.sizes
    BY <1>1, <1>8, OverrideIs DEF TreeInv, Extracted, Patching, Holds
  <2>2. /\ tree'.archive = tree.archive /\ tree'.sizes = tree.sizes
        /\ DOMAIN tree'.file = DOMAIN Layout.file
    BY <1>1, <1>8, OverrideIs, HoldsIs
  <2>3. Whole(tree')
    BY <2>1, <2>2 DEF Whole, Layout
  <2> QED  BY <1>1, <1>3, <1>8, <2>3, OverrideIs
<1>9. CASE PatchImage
  <2>1. Holds(tree, tree.archive, tree.file, tree.sizes)
        /\ tree.archive \in DOMAIN vendor /\ DOMAIN tree.sizes = DOMAIN Layout.sizes
    BY <1>1, <1>9, PatchIs DEF TreeInv, Extracted, Patching, Holds
  <2>2. /\ tree'.archive = tree.archive /\ tree'.sizes = tree.sizes
        /\ DOMAIN tree'.file = DOMAIN Layout.file
    <3>1. PICK image : Holds(tree', tree.archive,
                    [t \in DOMAIN Layout.file |->
                       IF t = First(todo) THEN image ELSE tree.file[t]],
                    tree.sizes)
      BY <1>1, <1>9, PatchIs
    <3> QED  BY <3>1, HoldsIs
  <2>3. Whole(tree')
    BY <2>1, <2>2 DEF Whole, Layout
  <2>4. todo' \subseteq Nat /\ pc' \in Places
    BY <1>1, <1>3, <1>9, PatchIs
  <2>5. /\ release' = release /\ decrypted' = decrypted /\ gzip' = gzip
        /\ input' = input /\ opt' = opt /\ out' = out /\ tmp' = tmp /\ runs' = runs
    BY <1>1, <1>9, PatchIs
  <2> QED  BY <1>3, <2>3, <2>4, <2>5
<1>10. CASE UpdateControls
  <2>1. Holds(tree, tree.archive, tree.file, tree.sizes)
        /\ tree.archive \in DOMAIN vendor /\ DOMAIN tree.file = DOMAIN Layout.file
    BY <1>1, <1>10, UpdateIs DEF TreeInv, Extracted, Patching, Holds
  <2>2. /\ tree'.archive = tree.archive /\ tree'.file = tree.file
        /\ DOMAIN tree'.sizes = DOMAIN Layout.sizes
    BY <1>1, <1>10, UpdateIs, HoldsIs
  <2>3. Whole(tree')
    BY <2>1, <2>2 DEF Whole, Layout
  <2>4. /\ release' = release /\ decrypted' = decrypted /\ gzip' = gzip /\ todo' = todo
        /\ input' = input /\ opt' = opt /\ out' = out /\ tmp' = tmp /\ runs' = runs
        /\ pc' \in Places
    BY <1>1, <1>10, UpdateIs
  <2> QED  BY <1>3, <2>3, <2>4
<1>11. CASE Start
  BY <1>3, <1>11 DEF Start, work, zips
<1>12. CASE SwapInput
  BY <1>3, <1>12 DEF SwapInput, Fault, work, zips
<1>13. CASE SelectRelease
  <2>1. Selected \in Entries
    BY <1>13, SelectedIs DEF SelectRelease, Goto, Passes
  <2> QED  BY <1>3, <1>13, <2>1 DEF SelectRelease, Goto, request, zips
<1>14. CASE CheckOptions
  <2>1. decrypted = None
    BY <1>1, <1>14 DEF CheckOptions, Goto, ArchiveInv, Decoded, Verified, Extracted,
         Patching, Patched, Packing
  <2>2. gzip' \in BOOLEAN /\ pc' \in Places
    BY <1>14 DEF CheckOptions, Goto
  <2> QED  BY <1>3, <1>14, <2>1, <2>2 DEF CheckOptions, request, zips
<1>15. CASE Decrypt
  <2>1. decrypt_file(input) # Refused /\ pc = "decrypt"
    BY <1>15 DEF Decrypt, Goto, Passes
  <2>2. input \in Seq(Byte) /\ ~gzip
    BY <1>1, <2>1, InputAssumption DEF RequestInv, ArchiveInv, Busy, Loaded, Chosen
  <2>3. decrypted' \in Seq(Byte)
    BY <1>15, <2>1, <2>2, DecryptedIsBytes DEF Decrypt
  <2> QED  BY <1>3, <1>15, <2>2, <2>3 DEF Decrypt, Goto, request, zips
<1>16. CASE ChooseRepair
  <2>1. pc = "mesh" /\ pc' \in Places
    BY <1>16 DEF ChooseRepair, Goto
  <2>2. Targets \subseteq Nat
    BY <1>1, <2>1, TargetsAre DEF TreeInv, Extracted
  <2>3. todo' \subseteq Nat
    BY <1>16, <2>2 DEF ChooseRepair
  <2> QED  BY <1>3, <1>16, <2>1, <2>3 DEF ChooseRepair, request, zips
<1>17. CASE WriteReport
  BY <1>3, <1>17 DEF WriteReport, Goto, request, zips
<1>18. CASE ReplaceZip
  <2>1. /\ pc = "replace" /\ out' = [report |-> report, tree |-> tree] /\ tmp' = None
        /\ Leave("done") /\ input' = input /\ opt' = opt /\ runs' = runs
    BY <1>18 DEF ReplaceZip, request
  <2>2. report.id \in Ids
    BY <1>1, <2>1 DEF ReportInv, RequestInv, Packing, Ids, Chosen, Decoded, Verified,
         Extracted, Patched
  <2>3. out'.report.id \in Ids
    BY <2>1, <2>2
  <2>4. Whole(None)
    BY DEF Whole
  <2> QED  BY <1>3, <2>1, <2>3, <2>4 DEF Leave, Idle
<1> QED
  BY <1>5, <1>6, <1>7, <1>8, <1>9, <1>10, <1>11, <1>12, <1>13, <1>14, <1>15, <1>16,
     <1>17, <1>18, Steps DEF Extends

(* The steps after the choice of the release, up to the report. *)
Works == Quiet \/ Extends \/ CheckOptions \/ Decrypt \/ ChooseRepair \/ WriteReport

LEMMA WorksIs ==
  ASSUME Works, TypeInv, TreeInv
  PROVE  /\ pc \in Busy /\ pc' \in Loaded
         /\ pc' \in Chosen => pc \in Chosen
         /\ pc = "load" => Passes
         /\ release' = release /\ input' = input /\ opt' = opt /\ out' = out
         /\ runs' = runs /\ faults' = faults
<1> USE DEF Busy, Loaded, Chosen, Decoded, Verified, Extracted, Patching, Patched, Packing
<1>1. CASE Quiet
  <2>1. <<pc, pc'>> \in {<<"load", "select">>, <<"input", "decrypt">>,
                         <<"verify", "extract">>, <<"kernel", "mesh">>,
                         <<"zip", "replace">>}
    BY <1>1, QuietIs
  <2>2. pc \in Busy /\ pc' \in Loaded /\ (pc' \in Chosen => pc \in Chosen)
    BY <2>1
  <2>3. /\ Passes /\ release' = release /\ input' = input /\ opt' = opt /\ out' = out
        /\ runs' = runs /\ faults' = faults
    BY <1>1, QuietIs
  <2> QED  BY <2>2, <2>3
<1>2. CASE Extract
  BY <1>2, ExtractIs
<1>3. CASE OverrideImages
  BY <1>3, OverrideIs
<1>4. CASE PatchImage
  <2>1. pc = "patch" /\ pc' \in {"patch", "controls"}
    BY <1>4, PatchIs
  <2>2. /\ release' = release /\ input' = input /\ opt' = opt /\ out' = out
        /\ runs' = runs /\ faults' = faults
    BY <1>4, PatchIs
  <2> QED  BY <2>1, <2>2
<1>5. CASE UpdateControls
  BY <1>5, UpdateIs
<1>6. CASE CheckOptions
  BY <1>6 DEF CheckOptions, Goto, request, zips
<1>7. CASE Decrypt
  BY <1>7 DEF Decrypt, Goto, request, zips
<1>8. CASE ChooseRepair
  <2>1. pc = "mesh" /\ pc' \in {"report", "override", "patch"}
    BY <1>8 DEF ChooseRepair, Goto
  <2>2. /\ release' = release /\ input' = input /\ opt' = opt /\ out' = out
        /\ runs' = runs /\ faults' = faults
    BY <1>8 DEF ChooseRepair, request, zips
  <2> QED  BY <2>1, <2>2
<1>9. CASE WriteReport
  <2>1. pc = "report" /\ pc' = "zip"
    BY <1>9 DEF WriteReport, Goto
  <2>2. /\ release' = release /\ input' = input /\ opt' = opt /\ out' = out
        /\ runs' = runs /\ faults' = faults
    BY <1>9 DEF WriteReport, request, zips
  <2> QED  BY <2>1, <2>2
<1> QED
  BY <1>1, <1>2, <1>3, <1>4, <1>5, <1>6, <1>7, <1>8, <1>9 DEF Works, Extends

LEMMA Kinds ==
  ASSUME Next
  PROVE  Works \/ Leaves \/ Start \/ SwapInput \/ SelectRelease \/ ReplaceZip
BY Steps DEF Works

LEMMA EndsAre ==
  /\ \A p \in Idle : p \notin Busy /\ p \notin Loaded /\ p \notin Chosen
                     /\ p \notin Decoded /\ p \notin Verified /\ p \notin Extracted
                     /\ p \notin Patching /\ p \notin Patched /\ p \notin Packing
                     /\ p \notin {"input", "decrypt", "kernel", "mesh", "override",
                                  "patch", "controls"}
  /\ Ends \subseteq Idle /\ "done" \in Idle
BY DEF Idle, Ends, Busy, Loaded, Chosen, Decoded, Verified, Extracted, Patching,
       Patched, Packing

LEMMA SwapIs ==
  ASSUME SwapInput, TypeInv
  PROVE  /\ pc' = pc /\ pc \notin Idle /\ input' \in Inputs /\ opt' = opt
         /\ release' = release /\ decrypted' = decrypted /\ gzip' = gzip
         /\ tree' = tree /\ todo' = todo /\ report' = report /\ out' = out
         /\ faults' = faults + 1 /\ faults' # 0 /\ (faults' < 2 => faults = 0)
<1>1. faults \in Nat
  BY FaultAssumption DEF TypeInv
<1> QED  BY <1>1 DEF SwapInput, Fault, work, zips

LEMMA ReplaceIs ==
  ASSUME ReplaceZip
  PROVE  /\ pc = "replace" /\ pc' = "done" /\ out' = [report |-> report, tree |-> tree]
         /\ release' = None /\ decrypted' = None /\ gzip' = FALSE
         /\ tree' = None /\ todo' = {} /\ report' = None
         /\ input' = input /\ opt' = opt /\ faults' = faults
BY DEF ReplaceZip, Leave, request

LEMMA RequestStep ==
  ASSUME Inv, Next PROVE RequestInv'
<1>1. TypeInv /\ TreeInv /\ RequestInv
  BY DEF Inv
<1>2. Entries' = Entries /\ load_release_manifest' = load_release_manifest
      /\ manifest' = manifest
  BY <1>1, WorldStays
<1>3. input' = input /\ opt' = opt => Selected' = Selected
  BY <1>2 DEF Selected, release_by_id, release_by_input_sha256, Entries
<1>4. SUFFICES /\ pc' \in Busy => input' \in Inputs /\ opt' \in Options
               /\ pc' \in Loaded \/ out' # None => load_release_manifest
               /\ pc' \in Chosen =>
                    release' \in Entries /\ (faults' = 0 => release' = Selected')
  BY <1>2 DEF RequestInv
<1>5. CASE Works
  <2>1. /\ pc \in Busy /\ (pc' \in Chosen => pc \in Chosen)
        /\ (pc \in Loaded \/ (pc = "load" /\ Passes))
        /\ release' = release /\ input' = input /\ opt' = opt /\ out' = out
        /\ faults' = faults
    BY <1>1, <1>5, WorksIs DEF Busy
  <2>2. load_release_manifest
    BY <1>1, <2>1 DEF RequestInv, Passes
  <2> QED  BY <1>1, <1>3, <2>1, <2>2 DEF RequestInv
<1>6. CASE Leaves
  <2>1. pc' \in Ends /\ out' = out
    BY <1>1, <1>6, LeavesIs
  <2> QED  BY <1>1, <2>1, EndsAre DEF RequestInv
<1>7. CASE Start
  <2>1. pc' = "load" /\ input' \in Inputs /\ opt' \in Options /\ out' = out
    BY <1>7 DEF Start, zips
  <2> QED  BY <1>1, <2>1 DEF RequestInv, Loaded, Chosen, Decoded, Verified, Extracted,
                             Patching, Patched, Packing
<1>8. CASE SwapInput
  BY <1>1, <1>8, SwapIs DEF RequestInv
<1>9. CASE SelectRelease
  <2>1. /\ pc = "select" /\ pc' = "options" /\ Selected # Refused
        /\ release' = Selected /\ input' = input /\ opt' = opt /\ out' = out
    BY <1>9 DEF SelectRelease, Goto, Passes, request, zips
  <2>2. Selected \in Entries
    BY <2>1, SelectedIs
  <2> QED  BY <1>1, <1>3, <2>1, <2>2 DEF RequestInv, Busy, Loaded
<1>10. CASE ReplaceZip
  <2>1. pc \in Loaded /\ pc' \in Idle
    BY <1>10, ReplaceIs, EndsAre DEF Loaded, Chosen, Decoded, Verified, Extracted,
       Patched, Packing
  <2> QED  BY <1>1, <2>1, EndsAre DEF RequestInv
<1> QED  BY <1>5, <1>6, <1>7, <1>8, <1>9, <1>10, Kinds

(* The steps after the archive was verified. *)
Later == Extends \/ ChooseRepair \/ WriteReport

LEMMA LaterIs ==
  ASSUME Later, TypeInv, TreeInv
  PROVE  /\ pc \in Verified /\ pc' \in Extracted
         /\ decrypted' = decrypted /\ gzip' = gzip
         /\ release' = release /\ input' = input /\ opt' = opt /\ out' = out
         /\ faults' = faults
<1> USE DEF Verified, Extracted, Patching, Patched, Packing
<1>1. CASE Extract
  BY <1>1, ExtractIs
<1>2. CASE OverrideImages
  BY <1>2, OverrideIs
<1>3. CASE PatchImage
  <2>1. pc = "patch" /\ pc' \in {"patch", "controls"}
    BY <1>3, PatchIs
  <2>2. /\ decrypted' = decrypted /\ gzip' = gzip
        /\ release' = release /\ input' = input /\ opt' = opt /\ out' = out
        /\ faults' = faults
    BY <1>3, PatchIs
  <2> QED  BY <2>1, <2>2
<1>4. CASE UpdateControls
  BY <1>4, UpdateIs
<1>5. CASE ChooseRepair
  <2>1. pc = "mesh" /\ pc' \in {"report", "override", "patch"}
    BY <1>5 DEF ChooseRepair, Goto
  <2>2. /\ decrypted' = decrypted /\ gzip' = gzip
        /\ release' = release /\ input' = input /\ opt' = opt /\ out' = out
        /\ faults' = faults
    BY <1>5 DEF ChooseRepair, request, zips
  <2> QED  BY <2>1, <2>2
<1>6. CASE WriteReport
  <2>1. pc = "report" /\ pc' = "zip"
    BY <1>6 DEF WriteReport, Goto
  <2>2. /\ decrypted' = decrypted /\ gzip' = gzip
        /\ release' = release /\ input' = input /\ opt' = opt /\ out' = out
        /\ faults' = faults
    BY <1>6 DEF WriteReport, request, zips
  <2> QED  BY <2>1, <2>2
<1> QED  BY <1>1, <1>2, <1>3, <1>4, <1>5, <1>6 DEF Later, Extends

LEMMA AllSteps ==
  ASSUME Next
  PROVE  \/ Quiet \/ Later \/ CheckOptions \/ Decrypt
         \/ Leaves \/ Start \/ SwapInput \/ SelectRelease \/ ReplaceZip
BY Steps DEF Later

LEMMA ArchiveStep ==
  ASSUME Inv, Next PROVE ArchiveInv'
<1>1. TypeInv /\ TreeInv /\ ArchiveInv
  BY DEF Inv
<1> DEFINE Mid == {"input", "decrypt"} \cup Decoded
<1>2. /\ pc \notin Decoded => decrypted = None
      /\ pc \in {"input", "decrypt"} => ~gzip
      /\ pc \in Mid /\ faults = 0 => gzip = (Head(input) = Gzip)
      /\ pc \in Decoded /\ faults = 0 /\ ~gzip => decrypted = decrypt_file(input)
      /\ pc \in Verified /\ (~gzip \/ faults = 0) => Archive = release.dec
  BY <1>1 DEF ArchiveInv
<1>3. SUFFICES
      /\ pc' \notin Decoded => decrypted' = None
      /\ pc' \in {"input", "decrypt"} => ~gzip'
      /\ pc' \in Mid /\ faults' = 0 => gzip' = (Head(input') = Gzip)
      /\ pc' \in Decoded /\ faults' = 0 /\ ~gzip' => decrypted' = decrypt_file(input')
      /\ pc' \in Verified /\ (~gzip' \/ faults' = 0) => Archive' = release'.dec
  BY DEF ArchiveInv
<1>4. input' = input /\ decrypted' = decrypted /\ gzip' = gzip => Archive' = Archive
  BY DEF Archive
<1>5. CASE Quiet
  <2>1. /\ Passes /\ decrypted' = decrypted /\ gzip' = gzip /\ input' = input
        /\ release' = release /\ faults' = faults
    BY <1>1, <1>5, QuietIs
  <2>2. <<pc, pc'>> \in {<<"load", "select">>, <<"input", "decrypt">>,
                         <<"verify", "extract">>, <<"kernel", "mesh">>,
                         <<"zip", "replace">>}
    BY <1>1, <1>5, QuietIs
  <2>3. /\ pc' \in Decoded <=> pc \in Decoded
        /\ pc' \in Mid <=> pc \in Mid
        /\ pc' \in {"input", "decrypt"} => pc \in {"input", "decrypt"}
        /\ pc' \in Verified => pc = "verify" \/ pc \in Verified
    BY <2>2 DEF Decoded, Verified, Extracted, Patching, Patched, Packing
  <2>4. pc = "verify" => Archive = release.dec
    BY <2>1 DEF Passes, verify_decrypted_archive
  <2> HIDE DEF Mid
  <2> QED  BY <1>2, <1>4, <2>1, <2>3, <2>4
<1>6. CASE Later
  <2>1. /\ pc \in Verified /\ pc' \in Verified /\ pc \in Decoded /\ pc' \in Decoded
        /\ pc \in Mid /\ pc' \in Mid /\ pc' \notin {"input", "decrypt"}
    BY <1>1, <1>6, LaterIs DEF Decoded, Verified, Extracted, Patching, Patched, Packing
  <2>2. /\ decrypted' = decrypted /\ gzip' = gzip /\ input' = input
        /\ release' = release /\ faults' = faults
    BY <1>1, <1>6, LaterIs
  <2> HIDE DEF Mid
  <2> QED  BY <1>2, <1>4, <2>1, <2>2
<1>7. CASE CheckOptions
  <2>1. /\ pc = "options" /\ pc' = (IF Head(input) = Gzip THEN "verify" ELSE "input")
        /\ gzip' = (Head(input) = Gzip) /\ decrypted' = decrypted /\ input' = input
    BY <1>7 DEF CheckOptions, Goto, request
  <2>2. decrypted = None /\ pc' \notin Verified
    BY <1>2, <2>1 DEF Decoded, Verified, Extracted, Patching, Patched, Packing
  <2>3. pc' \in {"input", "decrypt"} => ~gzip'
    BY <2>1
  <2>4. pc' \in Decoded => gzip'
    BY <2>1 DEF Decoded, Verified, Extracted, Patching, Patched, Packing
  <2> HIDE DEF Mid
  <2> QED  BY <2>1, <2>2, <2>3, <2>4
<1>8. CASE Decrypt
  <2>1. /\ pc = "decrypt" /\ pc' = "verify" /\ decrypted' = decrypt_file(input)
        /\ gzip' = gzip /\ input' = input /\ faults' = faults
    BY <1>8 DEF Decrypt, Goto, request
  <2>2. /\ pc' \in Decoded /\ pc' \notin {"input", "decrypt"} /\ pc' \notin Verified
        /\ pc \in Mid
    BY <2>1 DEF Decoded, Verified, Extracted, Patching, Patched, Packing
  <2> HIDE DEF Mid
  <2> QED  BY <1>2, <2>1, <2>2
<1>9. CASE Leaves \/ ReplaceZip \/ Start
  <2>1. CASE Leaves \/ ReplaceZip
    <3>1. pc' \in Idle /\ decrypted' = None
      BY <1>1, <2>1, LeavesIs, ReplaceIs, EndsAre
    <3> QED  BY <3>1, EndsAre
  <2>2. CASE Start
    <3>1. pc \in Idle /\ pc' = "load" /\ decrypted' = decrypted
      BY <2>2 DEF Start, work
    <3>2. /\ pc \notin Decoded /\ pc' \notin Decoded /\ pc' \notin Verified
          /\ pc' \notin {"input", "decrypt"}
      BY <3>1, EndsAre DEF Decoded, Verified, Extracted, Patching, Patched, Packing
    <3> QED  BY <1>2, <3>1, <3>2
  <2> QED  BY <1>9, <2>1, <2>2
<1>10. CASE SwapInput
  <2>1. /\ pc' = pc /\ faults' # 0
        /\ release' = release /\ decrypted' = decrypted /\ gzip' = gzip
    BY <1>1, <1>10, SwapIs
  <2>2. ~gzip => Archive' = Archive
    BY <2>1 DEF Archive
  <2> HIDE DEF Mid
  <2> QED  BY <1>2, <2>1, <2>2
<1>11. CASE SelectRelease
  <2>1. pc = "select" /\ pc' = "options" /\ decrypted' = decrypted
    BY <1>11 DEF SelectRelease, Goto
  <2>2. /\ pc \notin Decoded /\ pc' \notin Decoded /\ pc' \notin Verified
        /\ pc' \notin {"input", "decrypt"}
    BY <2>1 DEF Decoded, Verified, Extracted, Patching, Patched, Packing
  <2> QED  BY <1>2, <2>1, <2>2
<1> QED  BY <1>5, <1>6, <1>7, <1>8, <1>9, <1>10, <1>11, AllSteps

(* tree is read in one place of its record at a time. *)
Shape(tr) ==
  /\ Holds(tr, tr.archive, tr.file, tr.sizes)
  /\ tr.archive \in DOMAIN vendor
  /\ tr.file = [t \in DOMAIN vendor[tr.archive].file |-> tr.file[t]]
  /\ tr.sizes = [c \in DOMAIN vendor[tr.archive].sizes |-> tr.sizes[c]]

LEMMA ShapeIs ==
  ASSUME TreeInv, pc \in Extracted PROVE Shape(tree)
BY DEF TreeInv, Shape, Holds, Layout

LEMMA TreeStep ==
  ASSUME Inv, Next PROVE TreeInv'
<1>1. TypeInv /\ WorldInv /\ ArchiveInv /\ TreeInv
  BY DEF Inv
<1>2. vendor' = vendor
  BY <1>1, WorldStays
<1> DEFINE Ours(g, f, i, e, a) == ~g \/ f = 0 \/ (i = e.dec /\ f < 2) => a = e.dec
<1>3. SUFFICES /\ pc' \notin Extracted => tree' = None
               /\ pc' \in Extracted =>
                    Shape(tree') /\ Ours(gzip', faults', input', release', tree'.archive)
  BY <1>2 DEF TreeInv, Shape, Holds, Layout
<1>4. /\ pc \notin Extracted => tree = None
      /\ pc \in Extracted => Shape(tree) /\ Ours(gzip, faults, input, release, tree.archive)
  BY <1>1, ShapeIs DEF TreeInv
<1>5. CASE Quiet
  <2>1. /\ gzip' = gzip /\ input' = input /\ tree' = tree
        /\ release' = release /\ faults' = faults
    BY <1>1, <1>5, QuietIs
  <2>2. <<pc, pc'>> \in {<<"load", "select">>, <<"input", "decrypt">>,
                         <<"verify", "extract">>, <<"kernel", "mesh">>,
                         <<"zip", "replace">>}
    BY <1>1, <1>5, QuietIs
  <2>3. pc' \in Extracted <=> pc \in Extracted
    BY <2>2 DEF Extracted, Patching, Patched, Packing
  <2> HIDE DEF Ours
  <2> QED  BY <1>4, <2>1, <2>3
<1>6. CASE Later
  <2>1. /\ pc' \in Extracted /\ gzip' = gzip /\ input' = input
        /\ release' = release /\ faults' = faults
    BY <1>1, <1>6, LaterIs
  <2>2. CASE Extract
    <3>1. /\ pc = "extract" /\ Archive \in DOMAIN vendor
          /\ Holds(tree', Archive, vendor[Archive].file, vendor[Archive].sizes)
      BY <2>2, ExtractIs
    <3>2. IsArchive(vendor[Archive])
      BY <1>1, <3>1, ArchiveIs
    <3>3. Shape(tree')
      BY <3>1, <3>2, HoldsIs DEF Shape, IsArchive
    <3>4. tree'.archive = Archive
      BY <3>1, HoldsIs
    <3>5. pc \in Verified
      BY <3>1 DEF Verified
    <3>6. ~gzip \/ faults = 0 => Archive = release.dec
      BY <1>1, <3>5 DEF ArchiveInv
    <3>7. gzip => Archive = input
      BY DEF Archive
    <3>8. Ours(gzip, faults, input, release, tree'.archive)
      BY <3>4, <3>6, <3>7
    <3> HIDE DEF Ours
    <3> QED  BY <2>1, <3>3, <3>8
  <2>3. CASE ~Extract
    <3>1. pc \in Extracted
      <4>1. CASE OverrideImages
        BY <1>1, <4>1, OverrideIs DEF Extracted, Patching
      <4>2. CASE PatchImage
        BY <1>1, <4>2, PatchIs DEF Extracted, Patching
      <4>3. CASE UpdateControls
        BY <1>1, <4>3, UpdateIs DEF Extracted, Patching
      <4>4. CASE ChooseRepair
        BY <4>4 DEF ChooseRepair, Goto, Extracted
      <4>5. CASE WriteReport
        BY <4>5 DEF WriteReport, Goto, Extracted, Patched
      <4> QED  BY <1>6, <2>3, <4>1, <4>2, <4>3, <4>4, <4>5 DEF Later, Extends
    <3>2. Shape(tree) /\ Ours(gzip, faults, input, release, tree.archive)
      BY <1>4, <3>1
    <3>3. Shape(tree') /\ tree'.archive = tree.archive
      <4>1. CASE OverrideImages
        <5>1. /\ tree'.archive = tree.archive /\ tree'.sizes = tree.sizes
              /\ Holds(tree', tree'.archive, tree'.file, tree'.sizes)
              /\ tree'.file = [t \in DOMAIN Layout.file |->
                                 IF t \in todo THEN opt.bl7 ELSE tree.file[t]]
          BY <1>1, <4>1, OverrideIs, HoldsIs
        <5>2. tree'.file = [t \in DOMAIN Layout.file |-> tree'.file[t]]
          BY <5>1
        <5> QED  BY <3>2, <5>1, <5>2 DEF Shape, Layout
      <4>2. CASE PatchImage
        <5>1. PICK image : Holds(tree', tree.archive,
                    [t \in DOMAIN Layout.file |->
                       IF t = First(todo) THEN image ELSE tree.file[t]],
                    tree.sizes)
          BY <1>1, <4>2, PatchIs
        <5>2. /\ tree'.archive = tree.archive /\ tree'.sizes = tree.sizes
              /\ Holds(tree', tree'.archive, tree'.file, tree'.sizes)
              /\ tree'.file = [t \in DOMAIN Layout.file |->
                                 IF t = First(todo) THEN image ELSE tree.file[t]]
          BY <5>1, HoldsIs
        <5>3. tree'.file = [t \in DOMAIN Layout.file |-> tree'.file[t]]
          BY <5>2
        <5> QED  BY <3>2, <5>2, <5>3 DEF Shape, Layout
      <4>3. CASE UpdateControls
        <5> DEFINE g == [c \in DOMAIN Layout.sizes |->
                     IF c \in Controls THEN [i \in 1 .. Len(tree.sizes[c]) |-> ImageSize]
                     ELSE tree.sizes[c]]
        <5>1. Holds(tree', tree.archive, tree.file, g)
          BY <1>1, <4>3, UpdateIs
        <5>2. g = [c \in DOMAIN Layout.sizes |-> g[c]]
          OBVIOUS
        <5> HIDE DEF g
        <5>3. /\ tree'.archive = tree.archive /\ tree'.file = tree.file
              /\ Holds(tree', tree'.archive, tree'.file, tree'.sizes)
              /\ tree'.sizes = g
          BY <5>1, HoldsIs
        <5> QED  BY <3>2, <5>2, <5>3 DEF Shape, Layout
      <4>4. CASE ChooseRepair \/ WriteReport
        BY <3>2, <4>4 DEF ChooseRepair, WriteReport
      <4> QED  BY <1>6, <2>3, <4>1, <4>2, <4>3, <4>4 DEF Later, Extends
    <3> HIDE DEF Ours
    <3> QED  BY <2>1, <3>2, <3>3
  <2> QED  BY <2>2, <2>3
<1>7. CASE Leaves \/ ReplaceZip
  <2>1. pc' \in Idle /\ tree' = None
    BY <1>1, <1>7, LeavesIs, ReplaceIs, EndsAre
  <2> QED  BY <2>1, EndsAre
<1>8. CASE Start
  <2>1. pc \in Idle /\ pc' = "load" /\ tree' = tree
    BY <1>8 DEF Start, work
  <2>2. pc \notin Extracted /\ pc' \notin Extracted
    BY <2>1, EndsAre DEF Extracted, Patching, Patched, Packing
  <2> QED  BY <1>4, <2>1, <2>2
<1>9. CASE SwapInput
  <2>1. /\ pc' = pc /\ faults' # 0 /\ (faults' < 2 => faults = 0)
        /\ release' = release /\ gzip' = gzip /\ tree' = tree
    BY <1>1, <1>9, SwapIs
  <2> QED  BY <1>4, <2>1
<1>10. CASE SelectRelease \/ CheckOptions \/ Decrypt
  <2>1. /\ pc \notin Extracted /\ pc' \notin Extracted /\ tree' = tree
    BY <1>10 DEF SelectRelease, CheckOptions, Decrypt, Goto, Extracted, Patching,
       Patched, Packing
  <2> QED  BY <1>4, <2>1
<1> QED  BY <1>5, <1>6, <1>7, <1>8, <1>9, <1>10, AllSteps

(* The archive of the tree stays, and with it what is asked of its images.   *)
Edits == OverrideImages \/ PatchImage \/ UpdateControls \/ ChooseRepair \/ WriteReport

LEMMA SameArchive ==
  ASSUME vendor' = vendor, tree'.archive = tree.archive, opt' = opt, release' = release
  PROVE  /\ Layout' = Layout /\ Targets' = Targets /\ Aliases' = Aliases
         /\ Controls' = Controls /\ (PatchScorpion <=> PatchScorpion')
<1>1. Layout' = Layout
  BY DEF Layout
<1>2. Targets' = Targets
  BY <1>1 DEF Targets
<1>3. Aliases' = Aliases
  BY <1>1, <1>2 DEF Aliases
<1>4. Controls' = Controls
  BY <1>1, <1>3 DEF Controls
<1>5. Tools <=> Tools'
  BY DEF Tools
<1>6. PatchScorpion <=> PatchScorpion'
  BY <1>5 DEF PatchScorpion
<1> QED  BY <1>1, <1>2, <1>3, <1>4, <1>6

LEMMA EditsAre ==
  ASSUME Edits, Next, TypeInv, TreeInv
  PROVE  /\ tree'.archive = tree.archive
         /\ Layout' = Layout /\ Targets' = Targets /\ Aliases' = Aliases
         /\ Controls' = Controls /\ (PatchScorpion <=> PatchScorpion')
         /\ opt' = opt
<1>1. tree'.archive = tree.archive
  <2>1. CASE OverrideImages
    BY <2>1, OverrideIs, HoldsIs
  <2>2. CASE PatchImage
    <3>1. PICK image : Holds(tree', tree.archive,
                    [t \in DOMAIN Layout.file |->
                       IF t = First(todo) THEN image ELSE tree.file[t]],
                    tree.sizes)
      BY <2>2, PatchIs
    <3> QED  BY <3>1, HoldsIs
  <2>3. CASE UpdateControls
    BY <2>3, UpdateIs, HoldsIs
  <2>4. CASE ChooseRepair \/ WriteReport
    BY <2>4 DEF ChooseRepair, WriteReport
  <2> QED  BY <2>1, <2>2, <2>3, <2>4 DEF Edits
<1>2. opt' = opt /\ release' = release
  BY LaterIs DEF Edits, Later, Extends
<1>3. vendor' = vendor
  BY WorldStays
<1> QED  BY <1>1, <1>2, <1>3, SameArchive

LEMMA QuietSame ==
  ASSUME Quiet, TypeInv, Next
  PROVE  /\ Layout' = Layout /\ Targets' = Targets /\ Aliases' = Aliases
         /\ Controls' = Controls /\ (PatchScorpion <=> PatchScorpion')
BY QuietIs, WorldStays, SameArchive

LEMMA RepairPlaces ==
  /\ \A p \in {"idle", "load", "select", "options", "input", "decrypt", "verify",
               "extract", "kernel", "mesh"} :
       p \notin Patching /\ p \notin Patched /\ p \notin Packing /\ p # "override"
       /\ p # "patch" /\ p # "controls"
  /\ \A p \in {"override", "patch", "controls"} :
       p \in Patching /\ p \notin Patched /\ p \notin {"kernel", "mesh"}
       /\ p \in Extracted /\ p \notin Packing
  /\ \A p \in {"report", "zip", "replace"} :
       p \in Patched /\ p \notin Patching /\ p \notin {"kernel", "mesh"}
       /\ p \in Extracted /\ p \notin {"override", "patch", "controls"}
BY DEF Extracted, Patching, Patched, Packing

LEMMA RepairStep ==
  ASSUME Inv, Next PROVE RepairInv'
<1>1. TypeInv /\ WorldInv /\ TreeInv /\ RepairInv
  BY DEF Inv
<1>2. /\ pc \in Patching => PatchScorpion
      /\ pc \in Patching \cup Patched /\ PatchScorpion => Targets # {}
      /\ pc = "override" => todo = Targets /\ opt.bl7 # None
      /\ pc = "patch" => todo \subseteq Targets /\ todo # {} /\ opt.bl7 = None
      /\ pc \in {"controls"} \cup Patched => todo = {}
  BY <1>1 DEF RepairInv
<1>3. SUFFICES
      /\ pc' \in Patching => PatchScorpion'
      /\ pc' \in Patching \cup Patched /\ PatchScorpion' => Targets' # {}
      /\ pc' = "override" => todo' = Targets' /\ opt'.bl7 # None
      /\ pc' = "patch" => todo' \subseteq Targets' /\ todo' # {} /\ opt'.bl7 = None
      /\ pc' \in {"controls"} \cup Patched => todo' = {}
  BY DEF RepairInv
<1>4. CASE Quiet
  <2>1. <<pc, pc'>> \in {<<"load", "select">>, <<"input", "decrypt">>,
                         <<"verify", "extract">>, <<"kernel", "mesh">>,
                         <<"zip", "replace">>}
    BY <1>1, <1>4, QuietIs
  <2>2. todo' = todo /\ Targets' = Targets /\ (PatchScorpion <=> PatchScorpion')
    BY <1>1, <1>4, QuietIs, QuietSame
  <2>3. /\ pc' \notin Patching /\ pc' # "override" /\ pc' # "patch" /\ pc' # "controls"
        /\ (pc' \in Patched => pc \in Patched)
    BY <2>1, RepairPlaces DEF Patching, Patched, Packing
  <2> QED  BY <1>2, <2>2, <2>3
<1>5. CASE Leaves \/ ReplaceZip \/ Start \/ Extract
  <2>1. pc' \in Idle \/ pc' = "load" \/ pc' = "kernel"
    BY <1>1, <1>5, LeavesIs, ReplaceIs, ExtractIs, EndsAre DEF Start
  <2>2. /\ pc' \notin Patching /\ pc' # "override" /\ pc' # "patch" /\ pc' # "controls"
        /\ pc' \notin Patched
    BY <2>1, EndsAre, RepairPlaces
  <2> QED  BY <2>2
<1>6. CASE SelectRelease \/ CheckOptions \/ Decrypt
  <2>1. pc' \in {"options", "verify", "input"}
    BY <1>6 DEF SelectRelease, CheckOptions, Decrypt, Goto
  <2>2. /\ pc' \notin Patching /\ pc' # "override" /\ pc' # "patch" /\ pc' # "controls"
        /\ pc' \notin Patched
    BY <2>1, RepairPlaces
  <2> QED  BY <2>2
<1>7. CASE SwapInput
  <2>1. /\ pc' = pc /\ opt' = opt /\ release' = release /\ tree' = tree /\ todo' = todo
    BY <1>1, <1>7, SwapIs
  <2>2. vendor' = vendor
    BY <1>1, WorldStays
  <2>3. Targets' = Targets /\ (PatchScorpion <=> PatchScorpion')
    BY <2>1, <2>2, SameArchive
  <2> QED  BY <1>2, <2>1, <2>3
<1>8. CASE Edits
  <2>1. Targets' = Targets /\ (PatchScorpion <=> PatchScorpion') /\ opt' = opt
    BY <1>1, <1>8, EditsAre
  <2>2. CASE ChooseRepair
    <3>1. /\ pc = "mesh" /\ Passes
          /\ pc' = (IF ~PatchScorpion THEN "report"
                    ELSE IF opt.bl7 # None THEN "override" ELSE "patch")
          /\ todo' = IF PatchScorpion THEN Targets ELSE {}
      BY <2>2 DEF ChooseRepair, Goto
    <3>2. PatchScorpion => Targets # {}
      BY <3>1 DEF Passes
    <3>3. CASE PatchScorpion
      <4>1. todo' = Targets /\ Targets # {}
        BY <3>1, <3>2, <3>3
      <4>2. CASE opt.bl7 # None
        BY <2>1, <3>1, <3>3, <4>1, <4>2, RepairPlaces
      <4>3. CASE opt.bl7 = None
        BY <2>1, <3>1, <3>3, <4>1, <4>3, RepairPlaces
      <4> QED  BY <4>2, <4>3
    <3>4. CASE ~PatchScorpion
      <4>1. pc' = "report" /\ todo' = {}
        BY <3>1, <3>4
      <4> QED  BY <2>1, <3>4, <4>1, RepairPlaces
    <3> QED  BY <3>3, <3>4
  <2>3. CASE OverrideImages
    <3>1. pc = "override" /\ pc' = "controls" /\ todo' = {}
      BY <1>1, <2>3, OverrideIs
    <3> QED  BY <1>2, <2>1, <3>1, RepairPlaces
  <2>4. CASE PatchImage
    <3> DEFINE f == First(todo)
    <3>1. /\ pc = "patch" /\ pc' = (IF todo = {f} THEN "controls" ELSE "patch")
          /\ todo' = todo \ {f}
      BY <1>1, <2>4, PatchIs
    <3>2. todo \subseteq Targets /\ todo # {} /\ opt.bl7 = None
      BY <1>2, <3>1
    <3>3. todo \subseteq Nat
      BY <1>1 DEF TypeInv
    <3>4. f \in todo
      BY <3>2, <3>3, FirstIs
    <3> HIDE DEF f
    <3>5. CASE todo = {f}
      <4>1. pc' = "controls" /\ todo' = {}
        BY <3>1, <3>5
      <4> QED  BY <1>2, <2>1, <3>1, <4>1, RepairPlaces
    <3>6. CASE todo # {f}
      <4>1. pc' = "patch" /\ todo' # {} /\ todo' \subseteq Targets
        BY <3>1, <3>2, <3>4, <3>6
      <4> QED  BY <1>2, <2>1, <3>1, <3>2, <4>1, RepairPlaces
    <3> QED  BY <3>5, <3>6
  <2>5. CASE UpdateControls
    <3>1. pc = "controls" /\ pc' = "report" /\ todo' = todo
      BY <1>1, <2>5, UpdateIs
    <3> QED  BY <1>2, <2>1, <3>1, RepairPlaces
  <2>6. CASE WriteReport
    <3>1. pc = "report" /\ pc' = "zip" /\ todo' = todo
      BY <2>6 DEF WriteReport, Goto
    <3> QED  BY <1>2, <2>1, <3>1, RepairPlaces
  <2> QED  BY <1>8, <2>2, <2>3, <2>4, <2>5, <2>6 DEF Edits
<1> QED  BY <1>4, <1>5, <1>6, <1>7, <1>8, AllSteps DEF Later, Extends, Edits

(* Repaired(t)' for a step that keeps the archive and the command line. *)
LEMMA RepairedNext ==
  ASSUME NEW t, Layout' = Layout, Targets' = Targets, opt' = opt,
         IF t \in Targets \ todo'
         THEN /\ parse_bl7(tree'.file[t]) # Refused
              /\ opt.bl7 = None => SoundImage(tree'.file[t], Layout.file[t])
         ELSE tree'.file[t] = Layout.file[t]
  PROVE  Repaired(t)'
BY DEF Repaired

LEMMA FilesStep ==
  ASSUME Inv, Next PROVE FilesInv'
<1>1. TypeInv /\ WorldInv /\ TreeInv /\ RepairInv /\ FilesInv
  BY DEF Inv
<1> DEFINE Same == tree.file = Layout.file /\ tree.sizes = Layout.sizes
           Sized == \A c \in Controls : tree.sizes[c] = <<ImageSize, ImageSize>>
           Fixed == \A t \in DOMAIN Layout.file : Repaired(t)
<1>2. /\ pc \in {"kernel", "mesh"} \/ (pc \in Patched /\ ~PatchScorpion) => Same
      /\ pc \in Patching => tree.sizes = Layout.sizes
      /\ pc \in Patching \cup Patched /\ PatchScorpion => Fixed
      /\ pc \in Patched /\ PatchScorpion => Sized
  BY <1>1 DEF FilesInv
<1>3. SUFFICES
      /\ pc' \in {"kernel", "mesh"} \/ (pc' \in Patched /\ ~PatchScorpion') => Same'
      /\ pc' \in Patching => tree'.sizes = Layout'.sizes
      /\ pc' \in Patching \cup Patched /\ PatchScorpion' => Fixed'
      /\ pc' \in Patched /\ PatchScorpion' => Sized'
  BY DEF FilesInv
<1>4. vendor' = vendor
  BY <1>1, WorldStays
<1>5. ASSUME tree' = tree, todo' = todo, opt' = opt, release' = release
      PROVE  /\ (PatchScorpion <=> PatchScorpion') /\ (Same <=> Same')
             /\ (tree'.sizes = Layout'.sizes <=> tree.sizes = Layout.sizes)
             /\ (Fixed <=> Fixed') /\ (Sized <=> Sized')
  <2>1. /\ Layout' = Layout /\ Targets' = Targets /\ Controls' = Controls
        /\ (PatchScorpion <=> PatchScorpion')
    BY <1>4, <1>5, SameArchive
  <2>2. ImageSize' = ImageSize
    BY <1>5, <2>1 DEF ImageSize
  <2>3. \A t : Repaired(t) <=> Repaired(t)'
    BY <1>5, <2>1 DEF Repaired
  <2> QED  BY <1>5, <2>1, <2>2, <2>3
<1>6. CASE Quiet
  <2>1. <<pc, pc'>> \in {<<"load", "select">>, <<"input", "decrypt">>,
                         <<"verify", "extract">>, <<"kernel", "mesh">>,
                         <<"zip", "replace">>}
    BY <1>1, <1>6, QuietIs
  <2>2. tree' = tree /\ todo' = todo /\ opt' = opt /\ release' = release
    BY <1>1, <1>6, QuietIs
  <2>3. /\ pc' \notin Patching /\ (pc' \in Patched => pc \in Patched)
        /\ (pc' \in {"kernel", "mesh"} => pc \in {"kernel", "mesh"})
    BY <2>1 DEF Patching, Patched, Packing
  <2> HIDE DEF Same, Fixed, Sized
  <2> QED  BY <1>2, <1>5, <2>2, <2>3
<1>7. CASE Leaves \/ ReplaceZip \/ Start
  <2>1. pc' \in Idle \/ pc' = "load"
    BY <1>1, <1>7, LeavesIs, ReplaceIs, EndsAre DEF Start
  <2>2. pc' \notin Patching /\ pc' \notin Patched /\ pc' \notin {"kernel", "mesh"}
    BY <2>1, EndsAre, RepairPlaces
  <2> QED  BY <2>2
<1>8. CASE SelectRelease \/ CheckOptions \/ Decrypt
  <2>1. pc' \in {"options", "verify", "input"}
    BY <1>8 DEF SelectRelease, CheckOptions, Decrypt, Goto
  <2>2. pc' \notin Patching /\ pc' \notin Patched /\ pc' \notin {"kernel", "mesh"}
    BY <2>1, RepairPlaces
  <2> QED  BY <2>2
<1>9. CASE SwapInput
  <2>1. pc' = pc /\ opt' = opt /\ release' = release /\ tree' = tree /\ todo' = todo
    BY <1>1, <1>9, SwapIs
  <2> HIDE DEF Same, Fixed, Sized
  <2> QED  BY <1>2, <1>5, <2>1
<1>10. CASE Extract
  <2>1. /\ pc' = "kernel" /\ tree'.archive = Archive
        /\ tree'.file = vendor[Archive].file /\ tree'.sizes = vendor[Archive].sizes
    BY <1>10, ExtractIs, HoldsIs
  <2>2. Same'
    BY <1>4, <2>1 DEF Layout
  <2> QED  BY <2>1, <2>2, RepairPlaces
<1>11. CASE Edits
  <2>1. /\ tree'.archive = tree.archive
        /\ Layout' = Layout /\ Targets' = Targets
        /\ Controls' = Controls /\ (PatchScorpion <=> PatchScorpion')
        /\ opt' = opt
    BY <1>1, <1>11, EditsAre
  <2>2. CASE ChooseRepair
    <3>1. /\ pc = "mesh" /\ tree' = tree
          /\ pc' = (IF ~PatchScorpion THEN "report"
                    ELSE IF opt.bl7 # None THEN "override" ELSE "patch")
          /\ todo' = IF PatchScorpion THEN Targets ELSE {}
      BY <2>2 DEF ChooseRepair, Goto
    <3>2. Same
      BY <1>2, <3>1
    <3>3. Same' /\ tree'.sizes = Layout'.sizes
      BY <2>1, <3>1, <3>2
    <3>4. CASE PatchScorpion
      <4>1. todo' = Targets /\ pc' \in {"override", "patch"}
        BY <3>1, <3>4
      <4>2. ASSUME NEW t \in DOMAIN Layout.file PROVE Repaired(t)'
        BY <2>1, <3>1, <3>2, <4>1, RepairedNext
      <4>3. Fixed'
        BY <2>1, <4>2
      <4> HIDE DEF Same, Sized, Fixed
      <4> QED  BY <3>3, <4>1, <4>3, RepairPlaces
    <3>5. CASE ~PatchScorpion
      <4>1. pc' = "report"
        BY <3>1, <3>5
      <4> HIDE DEF Same, Sized, Fixed
      <4> QED  BY <2>1, <3>3, <3>5, <4>1, RepairPlaces
    <3> QED  BY <3>4, <3>5
  <2>3. CASE OverrideImages
    <3> DEFINE g == [t \in DOMAIN Layout.file |->
                       IF t \in todo THEN opt.bl7 ELSE tree.file[t]]
    <3>1. /\ pc = "override" /\ pc' = "controls" /\ parse_bl7(opt.bl7) # Refused
          /\ Holds(tree', tree.archive, g, tree.sizes) /\ todo' = {}
      BY <1>1, <2>3, OverrideIs
    <3>2. tree'.file = g /\ tree'.sizes = tree.sizes
      <4> HIDE DEF g
      <4> QED  BY <3>1, HoldsIs
    <3>3. /\ todo = Targets /\ opt.bl7 # None /\ PatchScorpion
          /\ pc \in Patching /\ tree.sizes = Layout.sizes /\ Fixed
      BY <1>1, <1>2, <3>1, RepairPlaces DEF RepairInv
    <3>4. ASSUME NEW t \in DOMAIN Layout.file PROVE Repaired(t)'
      <4>1. t \in Targets => tree'.file[t] = opt.bl7
        BY <3>2, <3>3
      <4>2. t \notin Targets => tree'.file[t] = Layout.file[t]
        BY <3>2, <3>3 DEF Repaired
      <4> QED  BY <2>1, <3>1, <3>3, <4>1, <4>2, RepairedNext
    <3>5. Fixed'
      BY <2>1, <3>4
    <3> HIDE DEF Same, Sized, Fixed
    <3> QED  BY <2>1, <3>1, <3>2, <3>3, <3>5, RepairPlaces
  <2>4. CASE PatchImage
    <3> DEFINE f == First(todo)
    <3>1. /\ pc = "patch" /\ pc' = (IF todo = {f} THEN "controls" ELSE "patch")
          /\ todo' = todo \ {f}
      BY <1>1, <2>4, PatchIs
    <3>2. PICK image \in patch_image(tree.file[f]) :
              Holds(tree', tree.archive,
                    [t \in DOMAIN Layout.file |-> IF t = f THEN image ELSE tree.file[t]],
                    tree.sizes)
      BY <1>1, <2>4, PatchIs
    <3> DEFINE g == [t \in DOMAIN Layout.file |-> IF t = f THEN image ELSE tree.file[t]]
    <3>3. tree'.file = g /\ tree'.sizes = tree.sizes
      <4>1. Holds(tree', tree.archive, g, tree.sizes)
        BY <3>2
      <4> HIDE DEF g
      <4> QED  BY <4>1, HoldsIs
    <3>4. /\ todo \subseteq Targets /\ todo # {} /\ opt.bl7 = None /\ PatchScorpion
          /\ tree.sizes = Layout.sizes /\ Fixed /\ todo \subseteq Nat
      BY <1>1, <1>2, <3>1, RepairPlaces DEF RepairInv, TypeInv
    <3>5. f \in todo
      BY <3>4, FirstIs
    <3> HIDE DEF f
    <3>6. tree.archive \in DOMAIN vendor
      BY <1>1, <3>1, RepairPlaces DEF TreeInv
    <3>7. f \in DOMAIN Layout.file /\ Layout.file[f] \in Image
      BY <1>1, <3>4, <3>5, <3>6, TargetsAre
    <3>8. tree.file[f] = Layout.file[f]
      BY <3>4, <3>5, <3>7 DEF Repaired
    <3>9. SoundImage(image, Layout.file[f])
      BY <3>2, <3>7, <3>8, PatchedIs
    <3>10. parse_bl7(image) # Refused
      BY <3>9 DEF SoundImage
    <3>11. ASSUME NEW t \in DOMAIN Layout.file PROVE Repaired(t)'
      <4>1. CASE t = f
        <5>1. tree'.file[t] = image
          BY <3>3, <4>1
        <5> QED  BY <2>1, <3>1, <3>4, <3>5, <3>9, <3>10, <4>1, <5>1, RepairedNext
      <4>2. CASE t # f
        <5>1. tree'.file[t] = tree.file[t]
          BY <3>3, <4>2
        <5>2. t \in Targets \ todo' <=> t \in Targets \ todo
          BY <3>1, <4>2
        <5>3. Repaired(t)
          BY <3>4
        <5> QED  BY <2>1, <5>1, <5>2, <5>3, RepairedNext DEF Repaired
      <4> QED  BY <4>1, <4>2
    <3>12. Fixed'
      BY <2>1, <3>11
    <3>13. pc' \in {"controls", "patch"}
      BY <3>1
    <3> HIDE DEF Same, Sized, Fixed
    <3> QED  BY <2>1, <3>3, <3>4, <3>12, <3>13, RepairPlaces
  <2>5. CASE UpdateControls
    <3> DEFINE z == ImageSize
               g == [c \in DOMAIN Layout.sizes |->
                     IF c \in Controls THEN [i \in 1 .. Len(tree.sizes[c]) |-> z]
                     ELSE tree.sizes[c]]
    <3>1. /\ pc = "controls" /\ pc' = "report" /\ todo' = todo
          /\ \A c \in Controls : Len(tree.sizes[c]) = 2
          /\ Holds(tree', tree.archive, tree.file, g)
      BY <1>1, <2>5, UpdateIs
    <3> HIDE DEF z
    <3>2. tree'.file = tree.file /\ tree'.sizes = g
      <4> HIDE DEF g
      <4> QED  BY <3>1, HoldsIs
    <3>3. PatchScorpion /\ Fixed /\ pc \in Extracted
      BY <1>1, <1>2, <3>1, RepairPlaces DEF RepairInv
    <3>4. ImageSize' = z
      BY <2>1, <3>2 DEF ImageSize, z
    <3>5. IsArchive(Layout)
      BY <1>1, <3>3, TargetsAre DEF TreeInv
    <3>6. Controls \subseteq DOMAIN Layout.sizes
      BY <3>5 DEF Controls, IsArchive
    <3>7. ASSUME NEW c \in Controls PROVE tree'.sizes[c] = <<z, z>>
      <4>1. tree'.sizes[c] = [i \in 1 .. Len(tree.sizes[c]) |-> z]
        BY <3>2, <3>6
      <4>2. tree'.sizes[c] = [i \in 1 .. 2 |-> z]
        BY <3>1, <4>1
      <4>3. [i \in 1 .. 2 |-> z] = <<z, z>>
        OBVIOUS
      <4> QED  BY <4>2, <4>3
    <3>8. Sized'
      BY <2>1, <3>4, <3>7
    <3>9. ASSUME NEW t \in DOMAIN Layout.file PROVE Repaired(t)'
      <4>1. Repaired(t)
        BY <3>3
      <4> QED  BY <2>1, <3>1, <3>2, <4>1, RepairedNext DEF Repaired
    <3>10. Fixed'
      BY <2>1, <3>9
    <3> HIDE DEF Same, Sized, Fixed
    <3> QED  BY <2>1, <3>1, <3>3, <3>8, <3>10, RepairPlaces
  <2>6. CASE WriteReport
    <3>1. pc = "report" /\ pc' = "zip" /\ todo' = todo /\ tree' = tree /\ release' = release
      BY <2>6 DEF WriteReport, Goto
    <3> HIDE DEF Same, Sized, Fixed
    <3> QED  BY <1>2, <1>5, <2>1, <3>1, RepairPlaces
  <2> QED  BY <1>11, <2>2, <2>3, <2>4, <2>5, <2>6 DEF Edits
<1> QED
  BY <1>6, <1>7, <1>8, <1>9, <1>10, <1>11, AllSteps DEF Later, Extends, Edits

(* One more fault takes nothing away. *)
LEMMA SoundLater ==
  ASSUME NEW n \in Nat, NEW v, NEW e, NEW r, NEW tr, SoundBundle(n, v, e, r, tr)
  PROVE  SoundBundle(n + 1, v, e, r, tr)
<1>1. n + 1 < 2 => n < 2
  OBVIOUS
<1> QED  BY <1>1 DEF SoundBundle

(* The release of a report is found by its id. *)
RecordedBy(r) == CHOOSE x \in Entries : x.id = r.id

LEMMA RecordedIs ==
  ASSUME WorldInv, load_release_manifest, NEW r, NEW e \in Entries, r.id = e.id
  PROVE  RecordedBy(r) = e
<1>1. manifest \in Seq(Entries)
  BY ManifestIs
<1>2. \A x \in Entries : \E i \in 1 .. Len(manifest) : x = manifest[i]
  BY <1>1 DEF Entries, ToSet
<1>3. \A x \in Entries : x.id = r.id => x = e
  BY <1>2 DEF load_release_manifest
<1>4. \E x \in Entries : x.id = r.id
  OBVIOUS
<1> QED  BY <1>3, <1>4 DEF RecordedBy

(* The models whose links lead to an image of the R600 are those that share  *)
(* one with it.                                                              *)
LEMMA AliasesAre ==
  ASSUME Targets # {} PROVE Aliases = Sharing(Layout) /\ Targets = Layout.image["r600"]
<1>1. "r600" \in DOMAIN Layout.image /\ Targets = Layout.image["r600"]
  BY DEF Targets
<1>2. ASSUME NEW m PROVE m \in Aliases <=> m \in Sharing(Layout)
  BY <1>1 DEF Aliases, Sharing
<1> QED  BY <1>1, <1>2

(* The report that is written says what the tree holds. *)
LEMMA ReportIs ==
  ASSUME Inv, pc = "report", NEW r,
         r = [id |-> release.id, gzip |-> gzip, digest |-> Archive,
              patched |-> PatchScorpion, local |-> opt.bl7 # None,
              models |-> IF PatchScorpion THEN Aliases ELSE {},
              validated |-> IF PatchScorpion THEN Aliases \cap Validated ELSE {},
              warned |-> IF PatchScorpion THEN Aliases \cap Experimental ELSE {}]
  PROVE  SoundBundle(faults, Layout, release, r, tree)
<1>1. TypeInv /\ WorldInv /\ TreeInv /\ RepairInv /\ FilesInv
  BY DEF Inv
<1>2. pc \in Patched /\ pc \in Extracted
  BY RepairPlaces
<1>3. /\ r.gzip = gzip /\ r.digest = Archive
      /\ r.models = (IF PatchScorpion THEN Aliases ELSE {})
      /\ r.validated = (IF PatchScorpion THEN Aliases \cap Validated ELSE {})
      /\ r.warned = (IF PatchScorpion THEN Aliases \cap Experimental ELSE {})
  OBVIOUS
<1>4. r.patched <=> PatchScorpion
  OBVIOUS
<1>5. ~r.gzip \/ (r.digest = release.dec /\ faults < 2) => tree.archive = release.dec
  <2>1. gzip => Archive = input
    BY DEF Archive
  <2> QED  BY <1>1, <1>2, <1>3, <2>1 DEF TreeInv
<1>6. ~r.patched => tree.file = Layout.file /\ tree.sizes = Layout.sizes
  BY <1>1, <1>2, <1>4 DEF FilesInv
<1>7. ASSUME PatchScorpion
      PROVE  /\ r.models = Sharing(Layout)
             /\ r.validated \cup r.warned = Sharing(Layout)
             /\ \A t \in DOMAIN Layout.file :
                  IF t \in Layout.image["r600"] THEN parse_bl7(tree.file[t]) # Refused
                  ELSE tree.file[t] = Layout.file[t]
             /\ \A m \in Sharing(Layout),
                   c \in UNION {Layout.control[k] :
                                  k \in Sharing(Layout) \cap DOMAIN Layout.control} :
                  \A t \in Layout.image[m] :
                    \/ tree.sizes[c] = <<FileSize(tree.file[t]), FileSize(tree.file[t])>>
                    \/ \E u \in Layout.image["r600"] :
                         u < t /\ FileSize(tree.file[u]) # FileSize(tree.file[t])
  <2>1. Targets # {} /\ todo = {}
    BY <1>1, <1>2, <1>7 DEF RepairInv
  <2>2. Aliases = Sharing(Layout) /\ Targets = Layout.image["r600"]
    BY <2>1, AliasesAre
  <2>3. IsArchive(Layout) /\ Targets \subseteq Nat
    BY <1>1, <1>2, TargetsAre DEF TreeInv
  <2>4. \A m \in Sharing(Layout) :
          Layout.image[m] \subseteq Targets /\ m \in Validated \cup Experimental
    <3>1. "r600" \in DOMAIN Layout.image
      BY <2>1 DEF Targets
    <3> QED  BY <2>2, <2>3, <3>1 DEF IsArchive
  <2>5. r.models = Sharing(Layout)
    BY <1>3, <1>7, <2>2
  <2>6. r.validated \cup r.warned = Sharing(Layout)
    BY <1>3, <1>7, <2>2, <2>4
  <2>7. \A t \in DOMAIN Layout.file :
          IF t \in Layout.image["r600"] THEN parse_bl7(tree.file[t]) # Refused
          ELSE tree.file[t] = Layout.file[t]
    <3>1. \A t \in DOMAIN Layout.file : Repaired(t)
      BY <1>1, <1>2, <1>7 DEF FilesInv
    <3> QED  BY <2>1, <2>2, <3>1 DEF Repaired
  <2>8. ASSUME NEW m \in Sharing(Layout), NEW c \in Controls, NEW t \in Layout.image[m]
        PROVE  \/ tree.sizes[c] = <<FileSize(tree.file[t]), FileSize(tree.file[t])>>
               \/ \E u \in Targets :
                    u < t /\ FileSize(tree.file[u]) # FileSize(tree.file[t])
    <3> DEFINE f == First(Targets)
    <3>1. t \in Targets
      BY <2>4
    <3>2. f \in Targets /\ f <= t
      BY <2>1, <2>3, <3>1, FirstIs
    <3>3. tree.sizes[c] = <<FileSize(tree.file[f]), FileSize(tree.file[f])>>
      BY <1>1, <1>2, <1>7 DEF FilesInv, ImageSize
    <3> HIDE DEF f
    <3>4. CASE FileSize(tree.file[f]) = FileSize(tree.file[t])
      BY <3>3, <3>4
    <3>5. CASE FileSize(tree.file[f]) # FileSize(tree.file[t])
      <4>1. f # t
        BY <3>5
      <4>2. f < t
        BY <2>3, <3>1, <3>2, <4>1
      <4> QED  BY <3>2, <3>5, <4>2
    <3> QED  BY <3>4, <3>5
  <2>9. Controls = UNION {Layout.control[k] :
                            k \in Sharing(Layout) \cap DOMAIN Layout.control}
    BY <2>2 DEF Controls
  <2> QED  BY <2>2, <2>5, <2>6, <2>7, <2>8, <2>9
<1> QED  BY <1>4, <1>5, <1>6, <1>7 DEF SoundBundle

LEMMA ReportStep ==
  ASSUME Inv, Next PROVE ReportInv'
<1>1. TypeInv /\ TreeInv /\ ReportInv
  BY DEF Inv
<1>2. /\ faults' \in {faults, faults + 1} /\ faults \in Nat /\ vendor' = vendor
  BY <1>1, WorldStays, FaultAssumption DEF TypeInv
<1>3. SUFFICES ASSUME pc' \in Packing
      PROVE  report'.id = release'.id
             /\ SoundBundle(faults', Layout', release', report', tree')
  BY DEF ReportInv
<1>4. CASE Quiet
  <2>1. <<pc, pc'>> \in {<<"load", "select">>, <<"input", "decrypt">>,
                         <<"verify", "extract">>, <<"kernel", "mesh">>,
                         <<"zip", "replace">>}
    BY <1>1, <1>4, QuietIs
  <2>2. pc \in Packing
    BY <1>3, <2>1 DEF Packing
  <2>3. /\ report' = report /\ release' = release /\ tree' = tree /\ Layout' = Layout
        /\ faults' = faults
    BY <1>1, <1>4, QuietIs, QuietSame
  <2> QED  BY <1>1, <2>2, <2>3 DEF ReportInv
<1>5. CASE WriteReport
  <2>1. /\ pc = "report" /\ tree' = tree /\ release' = release /\ faults' = faults
        /\ report' = [id |-> release.id, gzip |-> gzip, digest |-> Archive,
                patched |-> PatchScorpion,
                local |-> opt.bl7 # None,
                models |-> IF PatchScorpion THEN Aliases ELSE {},
                validated |-> IF PatchScorpion THEN Aliases \cap Validated ELSE {},
                warned |-> IF PatchScorpion THEN Aliases \cap Experimental ELSE {}]
    BY <1>5 DEF WriteReport, Goto
  <2>2. SoundBundle(faults, Layout, release, report', tree)
    BY <2>1, ReportIs
  <2>3. Layout' = Layout
    BY <1>2, <2>1 DEF Layout
  <2>4. report'.id = release.id
    BY <2>1
  <2> QED  BY <2>1, <2>2, <2>3, <2>4
<1>6. CASE SwapInput
  <2>1. /\ pc' = pc /\ release' = release /\ tree' = tree /\ report' = report
        /\ faults' = faults + 1
    BY <1>1, <1>6, SwapIs
  <2>2. Layout' = Layout
    BY <1>2, <2>1 DEF Layout
  <2>3. report.id = release.id /\ SoundBundle(faults, Layout, release, report, tree)
    BY <1>1, <1>3, <2>1 DEF ReportInv
  <2>4. SoundBundle(faults + 1, Layout, release, report, tree)
    BY <1>2, <2>3, SoundLater
  <2> QED  BY <2>1, <2>2, <2>3, <2>4
<1>7. CASE Leaves \/ ReplaceZip \/ Start
  <2>1. pc' \in Idle \/ pc' = "load"
    BY <1>1, <1>7, LeavesIs, ReplaceIs, EndsAre DEF Start
  <2> QED  BY <1>3, <2>1, EndsAre, RepairPlaces
<1>8. CASE Extract \/ OverrideImages \/ PatchImage \/ UpdateControls
  <2>1. pc' \in {"kernel", "controls", "patch", "report"}
    BY <1>1, <1>8, ExtractIs, OverrideIs, PatchIs, UpdateIs
  <2> QED  BY <1>3, <2>1 DEF Packing
<1>9. CASE SelectRelease \/ CheckOptions \/ Decrypt \/ ChooseRepair
  <2>1. pc' \in {"options", "verify", "input", "report", "override", "patch"}
    BY <1>9 DEF SelectRelease, CheckOptions, Decrypt, ChooseRepair, Goto
  <2> QED  BY <1>3, <2>1 DEF Packing
<1> QED  BY <1>4, <1>5, <1>6, <1>7, <1>8, <1>9, Steps DEF Extends

(* BundleSound, in these terms. *)
LEMMA BundleSoundIs ==
  BundleSound <=>
    (out # None => SoundBundle(faults, vendor[out.tree.archive], RecordedBy(out.report),
                               out.report, out.tree))
BY DEF BundleSound, SoundBundle, RecordedBy

LEMMA BundleStep ==
  ASSUME Inv, Next PROVE BundleSound'
<1>1. TypeInv /\ WorldInv /\ RequestInv /\ TreeInv /\ ReportInv /\ BundleSound
  BY DEF Inv
<1>2. /\ faults' \in {faults, faults + 1} /\ faults \in Nat
      /\ vendor' = vendor /\ Entries' = Entries
  BY <1>1, WorldStays, FaultAssumption DEF TypeInv
<1> DEFINE Right(n, o) == SoundBundle(n, vendor[o.tree.archive], RecordedBy(o.report),
                                      o.report, o.tree)
<1>3. out # None => Right(faults, out)
  BY <1>1, BundleSoundIs
<1>4. SUFFICES ASSUME out' # None PROVE Right(faults', out')
  <2>1. (out # None => SoundBundle(faults, vendor[out.tree.archive],
                                   RecordedBy(out.report), out.report, out.tree))'
        => BundleSound'
    BY DEF BundleSound, SoundBundle, RecordedBy
  <2> QED  BY <1>2, <2>1 DEF RecordedBy
<1>5. CASE ReplaceZip
  <2>1. /\ pc = "replace" /\ out' = [report |-> report, tree |-> tree]
        /\ faults' = faults
    BY <1>5, ReplaceIs
  <2>2. /\ report.id = release.id /\ SoundBundle(faults, Layout, release, report, tree)
    BY <1>1, <2>1 DEF ReportInv, Packing
  <2>3. release \in Entries /\ load_release_manifest
    BY <1>1, <2>1 DEF RequestInv, Loaded, Chosen, Decoded, Verified, Extracted, Patched,
         Packing
  <2>4. RecordedBy(report) = release
    BY <1>1, <2>2, <2>3, RecordedIs
  <2>5. out'.report = report /\ out'.tree = tree
    BY <2>1
  <2>6. vendor[out'.tree.archive] = Layout
    BY <2>5 DEF Layout
  <2>7. RecordedBy(out'.report) = release
    BY <2>4, <2>5
  <2> QED  BY <2>1, <2>2, <2>5, <2>6, <2>7
<1>6. CASE ~ReplaceZip
  <2>1. out' = out
    <3>1. CASE Works
      BY <1>1, <3>1, WorksIs
    <3>2. CASE Leaves
      BY <1>1, <3>2, LeavesIs
    <3>3. CASE SwapInput
      BY <1>1, <3>3, SwapIs
    <3>4. CASE Start \/ SelectRelease
      BY <3>4 DEF Start, SelectRelease, zips
    <3> QED  BY <1>6, <3>1, <3>2, <3>3, <3>4, Kinds
  <2>2. Right(faults, out)
    BY <1>3, <1>4, <2>1
  <2>3. Right(faults + 1, out)
    BY <1>2, <2>2, SoundLater
  <2> HIDE DEF Right
  <2>4. Right(faults', out)
    BY <1>2, <2>2, <2>3
  <2> USE DEF Right
  <2> QED  BY <2>1, <2>4
<1> QED  BY <1>5, <1>6

(* A genuine download of release e, of an installation as it should be. *)
GenuineOf(e) ==
  /\ input \in {e.enc, e.dec} /\ opt.release \in {None, e.id}
  /\ opt.unsquashfs = opt.mksquashfs
  /\ opt.bl7 = None \/ (opt.bl7 \in SoundImages /\ ~opt.unsquashfs /\ ~opt.auto)
  /\ opt.auto /\ e.repair => opt.unsquashfs

Genuine ==
  /\ opt # None
  /\ \E w \in SoundWorlds : manifest = w.manifest /\ vendor = w.vendor
  /\ faults = 0
  /\ \E e \in Entries : GenuineOf(e)

(* What the manifest and the archive of such a release are. *)
LEMMA EntryIs ==
  ASSUME WorldInv, Genuine, NEW e \in Entries
  PROVE  /\ e.wellformed /\ e.artifacts \subseteq Artifacts
         /\ e.dec \in Seq(Byte) /\ e.enc = Encrypt(e.dec)
         /\ e.dec # <<>> /\ Head(e.dec) = Gzip
         /\ e.dec \in DOMAIN vendor /\ SoundArchive(vendor[e.dec], e)
<1>1. PICK w \in SoundWorlds : manifest = w.manifest /\ vendor = w.vendor
  BY DEF Genuine
<1>2. SoundManifest(w.manifest) /\ e \in ToSet(w.manifest)
  BY <1>1, SoundAssumption DEF Entries
<1>3. e.dec \in DOMAIN vendor /\ SoundArchive(vendor[e.dec], e)
  BY <1>1, <1>2, SoundAssumption
<1> QED  BY <1>2, <1>3 DEF SoundManifest

LEMMA OneEntry ==
  ASSUME WorldInv, Genuine, NEW e \in Entries, NEW f \in Entries,
         e.id = f.id \/ {e.enc, e.dec} \cap {f.enc, f.dec} # {}
  PROVE  e = f
<1>1. manifest # <<>> /\ SoundManifest(manifest)
  BY SoundAssumption DEF Genuine, SoundManifest
<1>2. manifest \in Seq(Entries)
  BY ManifestIs
<1>3. PICK i \in 1 .. Len(manifest) : e = manifest[i]
  BY <1>2 DEF Entries, ToSet
<1>4. PICK j \in 1 .. Len(manifest) : f = manifest[j]
  BY <1>2 DEF Entries, ToSet
<1>5. i = j
  BY <1>1, <1>3, <1>4 DEF SoundManifest
<1> QED  BY <1>3, <1>4, <1>5

(* The download selects its own release. *)
LEMMA SelectsIt ==
  ASSUME WorldInv, Genuine, NEW e \in Entries, GenuineOf(e)
  PROVE  Selected = e /\ Selected # Refused
<1>1. Refused # e
  BY ManifestIs
<1>2. CASE opt.release # None
  <2>1. opt.release = e.id
    BY <1>2 DEF GenuineOf
  <2>2. release_by_id(e.id) = CHOOSE x \in Entries : x.id = e.id
    BY DEF release_by_id
  <2>3. \A x \in Entries : x.id = e.id => x = e
    BY OneEntry
  <2>4. (CHOOSE x \in Entries : x.id = e.id) = e
    BY <2>3
  <2> QED  BY <1>1, <1>2, <2>1, <2>2, <2>4 DEF Selected
<1>3. CASE opt.release = None
  <2> DEFINE matches == {x \in Entries : input \in {x.enc, x.dec}}
  <2>1. matches = {e}
    <3>1. \A x \in Entries : input \in {x.enc, x.dec} => x = e
      <4> SUFFICES ASSUME NEW x \in Entries, input \in {x.enc, x.dec} PROVE x = e
        OBVIOUS
      <4>1. input \in {e.enc, e.dec} \cap {x.enc, x.dec}
        BY DEF GenuineOf
      <4> QED  BY <4>1, OneEntry
    <3>2. e \in matches
      BY DEF GenuineOf
    <3> QED  BY <3>1, <3>2
  <2>2. Cardinality(matches) = 1
    BY <2>1, FS_Singleton
  <2>3. Selected = IF Cardinality(matches) = 1 THEN CHOOSE x \in matches : TRUE ELSE Refused
    BY <1>3 DEF Selected, release_by_input_sha256
  <2> HIDE DEF matches
  <2>4. Selected = e
    BY <2>1, <2>2, <2>3
  <2> QED  BY <1>1, <2>4
<1> QED  BY <1>2, <1>3

(* A gzip file that is a genuine download is the archive; another one is     *)
(* decoded to it.                                                            *)
LEMMA DownloadIs ==
  ASSUME WorldInv, Genuine, NEW e \in Entries, GenuineOf(e)
  PROVE  /\ Head(input) = Gzip => input = e.dec
         /\ Head(input) # Gzip => input = e.enc /\ decrypt_file(input) = e.dec
         /\ e.enc # None /\ e.dec # None /\ decrypt_file(e.enc) # Refused
<1>1. /\ e.dec \in Seq(Byte) /\ e.enc = Encrypt(e.dec) /\ e.dec # <<>> /\ Head(e.dec) = Gzip
  BY EntryIs
<1>2. /\ decrypt_file(e.enc) = e.dec /\ e.enc \in Seq(Byte) /\ Head(e.enc) # Head(e.dec)
  BY <1>1, RoundTrip
<1>3. input \in {e.enc, e.dec}
  BY DEF GenuineOf
<1> QED  BY <1>1, <1>2, <1>3, InputAssumption, RefusedAssumption

LEMMA GenuinePasses ==
  ASSUME Inv, Genuine, pc \notin Idle PROVE Passes
<1>1. /\ TypeInv /\ WorldInv /\ RequestInv /\ ArchiveInv /\ TreeInv /\ RepairInv
      /\ FilesInv
  BY DEF Inv
<1>2. faults = 0
  BY DEF Genuine
<1>3. PICK e \in Entries : GenuineOf(e)
  BY DEF Genuine
<1>4. /\ e.wellformed /\ e.artifacts \subseteq Artifacts
      /\ e.dec \in Seq(Byte) /\ e.enc = Encrypt(e.dec)
      /\ e.dec \in DOMAIN vendor /\ SoundArchive(vendor[e.dec], e)
  BY <1>1, <1>3, EntryIs
<1>5. Selected = e /\ Selected # Refused
  BY <1>1, <1>3, SelectsIt
<1>6. /\ Head(input) = Gzip => input = e.dec
      /\ Head(input) # Gzip => input = e.enc /\ decrypt_file(input) = e.dec
      /\ e.enc # None /\ e.dec # None /\ decrypt_file(e.enc) # Refused
  BY <1>1, <1>3, DownloadIs
<1>7. pc \in Chosen => release = e
  BY <1>1, <1>2, <1>5 DEF RequestInv
<1>8. pc \in {"input", "decrypt"} => Head(input) # Gzip
  BY <1>1, <1>2 DEF ArchiveInv
<1>9. pc \in Decoded => Archive = e.dec
  <2> SUFFICES ASSUME pc \in Decoded PROVE Archive = e.dec
    OBVIOUS
  <2>1. gzip = (Head(input) = Gzip) /\ (~gzip => decrypted = decrypt_file(input))
    BY <1>1, <1>2 DEF ArchiveInv
  <2>2. CASE gzip
    <3>1. Head(input) = Gzip
      BY <2>1, <2>2
    <3> QED  BY <1>6, <2>2, <3>1 DEF Archive
  <2>3. CASE ~gzip
    <3>1. Head(input) # Gzip
      BY <2>1, <2>3
    <3> QED  BY <1>6, <2>1, <2>3, <3>1 DEF Archive
  <2> QED  BY <2>2, <2>3
<1>10. pc \in Extracted => /\ tree.archive = e.dec /\ Layout = vendor[e.dec]
                           /\ SoundArchive(Layout, e)
  <2>1. pc \in Extracted => tree.archive = release.dec /\ pc \in Chosen
    BY <1>1, <1>2 DEF TreeInv, Chosen, Decoded, Verified
  <2> QED  BY <1>4, <1>7, <2>1 DEF Layout
<1>11. pc \in Extracted =>
         /\ Targets # {} /\ Targets = Layout.image["r600"] /\ Targets \subseteq DOMAIN Layout.file
         /\ Layout.file \in [DOMAIN Layout.file -> Image] /\ IsArchive(Layout)
  <2> SUFFICES ASSUME pc \in Extracted
               PROVE  /\ Targets # {} /\ Targets = Layout.image["r600"]
                      /\ Targets \subseteq DOMAIN Layout.file
                      /\ Layout.file \in [DOMAIN Layout.file -> Image] /\ IsArchive(Layout)
    OBVIOUS
  <2>1. Targets # {} /\ Targets = Layout.image["r600"]
    BY <1>10 DEF SoundArchive, Targets
  <2> QED  BY <1>1, <2>1, TargetsAre DEF TreeInv
<1>12. CASE pc = "load"
  <2>1. /\ manifest # <<>>
        /\ \A x \in Entries : x.wellformed /\ x.artifacts \subseteq Artifacts
    BY <1>1, EntryIs, SoundAssumption DEF Genuine, SoundManifest
  <2>2. \A i, j \in 1 .. Len(manifest) : manifest[i].id = manifest[j].id => i = j
    BY SoundAssumption DEF Genuine, SoundManifest
  <2> QED  BY <1>12, <2>1, <2>2 DEF Passes, load_release_manifest
<1>13. CASE pc = "select"
  BY <1>5, <1>13 DEF Passes
<1>14. CASE pc = "options"
  BY <1>3, <1>14 DEF Passes, GenuineOf
<1>15. CASE pc = "input"
  <2>1. release = e /\ input = e.enc
    BY <1>6, <1>7, <1>8, <1>15 DEF Chosen
  <2> QED  BY <1>6, <1>15, <2>1 DEF Passes, verify_encrypted_input
<1>16. CASE pc = "decrypt"
  BY <1>6, <1>8, <1>16 DEF Passes
<1>17. CASE pc = "verify"
  <2>1. release = e /\ Archive = e.dec
    BY <1>7, <1>9, <1>17 DEF Chosen, Decoded
  <2> QED  BY <1>4, <1>6, <1>17, <2>1 DEF Passes, verify_decrypted_archive, SoundArchive
<1>18. CASE pc = "extract"
  <2>1. Archive = e.dec
    BY <1>9, <1>18 DEF Decoded, Verified
  <2> QED  BY <1>4, <1>18, <2>1 DEF Passes
<1>19. CASE pc = "kernel"
  <2>1. SoundArchive(Layout, e)
    BY <1>10, <1>19 DEF Extracted
  <2> QED  BY <1>19, <2>1 DEF Passes, SoundArchive
<1>20. CASE pc = "mesh"
  <2>1. release = e /\ Targets # {}
    BY <1>7, <1>11, <1>20 DEF Chosen, Decoded, Verified, Extracted
  <2> QED  BY <1>3, <1>20, <2>1 DEF Passes, GenuineOf, Tools
<1>21. CASE pc = "override"
  <2>1. opt.bl7 # None
    BY <1>1, <1>21 DEF RepairInv
  <2>2. opt.bl7 \in Image /\ VendorMade(opt.bl7) /\ opt.bl7.head.type = 0
    BY <1>3, <2>1, SoundAssumption DEF GenuineOf
  <2>3. parse_bl7(UiForm(opt.bl7)) # Refused
    BY <2>2, VendorMadeIs
  <2>4. UiForm(opt.bl7) = opt.bl7
    BY <2>2 DEF UiForm
  <2> QED  BY <1>21, <2>3, <2>4 DEF Passes
<1>22. CASE pc = "patch"
  <2> DEFINE f == First(todo)
  <2>1. /\ todo \subseteq Targets /\ todo # {} /\ todo \subseteq Nat /\ PatchScorpion
        /\ pc \in Patching /\ pc \in Extracted
    BY <1>1, <1>22, RepairPlaces DEF RepairInv, TypeInv
  <2>2. f \in todo
    BY <2>1, FirstIs
  <2> HIDE DEF f
  <2>3. /\ f \in DOMAIN Layout.file /\ f \in Targets /\ Layout.file[f] \in Image
        /\ f \in Layout.image["r600"]
    BY <1>11, <2>1, <2>2
  <2>4. VendorMade(Layout.file[f]) /\ OneModule(RootOf(Layout.file[f]))
    BY <1>10, <2>1, <2>3 DEF SoundArchive, OneModule, RootOf
  <2>5. tree.file[f] = Layout.file[f]
    <3>1. Repaired(f)
      BY <1>1, <2>1, <2>3 DEF FilesInv
    <3> QED  BY <2>2, <3>1 DEF Repaired
  <2>6. patch_image(tree.file[f]) # {}
    BY <2>3, <2>4, <2>5, Patchable
  <2> QED  BY <1>22, <2>6 DEF Passes, f
<1>23. CASE pc = "controls"
  <2>1. pc \in Extracted /\ pc \in Patching
    BY <1>23, RepairPlaces
  <2>2. tree.sizes = Layout.sizes
    BY <1>1, <2>1 DEF FilesInv
  <2>3. Controls \subseteq DOMAIN Layout.sizes
    BY <1>11, <2>1 DEF IsArchive, Controls
  <2>4. \A c \in Controls : Len(tree.sizes[c]) = 2
    BY <1>10, <2>1, <2>2, <2>3 DEF SoundArchive
  <2>5. Controls # {}
    <3>1. /\ "r600" \in DOMAIN Layout.image /\ "r600" \in DOMAIN Layout.control
          /\ Layout.control["r600"] # {}
      BY <1>10, <2>1 DEF SoundArchive
    <3>2. "r600" \in Aliases \cap DOMAIN Layout.control
      BY <3>1 DEF Aliases
    <3> QED  BY <3>1, <3>2 DEF Controls
  <2> QED  BY <1>23, <2>4, <2>5 DEF Passes
<1>24. CASE pc \in {"report", "zip", "replace"}
  BY <1>24 DEF Passes
<1>25. pc \in {"load", "select", "options", "input", "decrypt",
       "verify", "extract", "kernel", "mesh", "override", "patch", "controls",
       "report", "zip", "replace"}
  BY <1>1 DEF TypeInv
<1> QED
  BY <1>12, <1>13, <1>14, <1>15, <1>16, <1>17, <1>18, <1>19, <1>20, <1>21, <1>22, <1>23,
     <1>24, <1>25

LEMMA GenuineStep ==
  ASSUME Inv, Next PROVE GenuineAccepted'
<1>1. TypeInv /\ TreeInv
  BY DEF Inv
<1>2. manifest' = manifest /\ vendor' = vendor
  BY <1>1, WorldStays
<1>3. SUFFICES ASSUME pc' = "refused", Genuine' PROVE FALSE
  BY DEF GenuineAccepted, Genuine, GenuineOf
<1>4. Leaves
  <2>1. CASE Works
    BY <1>1, <1>3, <2>1, WorksIs, EndsAre DEF Idle
  <2>2. CASE Start \/ SelectRelease
    BY <1>3, <2>2 DEF Start, SelectRelease, Goto
  <2>3. CASE SwapInput
    BY <1>1, <1>3, <2>3, SwapIs DEF Idle
  <2>4. CASE ReplaceZip
    BY <1>3, <2>4, ReplaceIs
  <2> QED  BY <2>1, <2>2, <2>3, <2>4, Kinds
<1>5. /\ ~Passes /\ faults' = faults /\ input' = input /\ opt' = opt /\ pc \notin Idle
  BY <1>1, <1>3, <1>4, LeavesIs
<1>6. Genuine
  BY <1>2, <1>3, <1>5 DEF Genuine, GenuineOf, Entries
<1> QED  BY <1>5, <1>6, GenuinePasses

(* And every step keeps it. *)
LEMMA StepHolds == Inv /\ [Next]_vars => Inv'
<1> SUFFICES ASSUME Inv, [Next]_vars PROVE Inv'
  OBVIOUS
<1>1. CASE Next
  <2>1. WorldInv'
    <3>1. manifest' = manifest /\ vendor' = vendor /\ WorldInv
      BY <1>1, WorldStays DEF Inv
    <3> QED  BY <3>1 DEF WorldInv
  <2> QED
    BY <1>1, <2>1, TypeStep, RequestStep, ArchiveStep, TreeStep, RepairStep, FilesStep,
       ReportStep, BundleStep, GenuineStep DEF Inv
<1>2. CASE UNCHANGED vars
  <2> USE <1>2 DEF vars, world, request, work, zips
  <2>1. Entries' = Entries /\ Layout' = Layout /\ Archive' = Archive /\ Selected' = Selected
    BY DEF Entries, Layout, Archive, Selected, release_by_id, release_by_input_sha256
  <2>2. /\ Targets' = Targets /\ Aliases' = Aliases /\ Controls' = Controls
        /\ (PatchScorpion <=> PatchScorpion')
    BY SameArchive
  <2>3. ImageSize' = ImageSize /\ load_release_manifest' = load_release_manifest
    BY <2>1, <2>2 DEF ImageSize, load_release_manifest
  <2>4. TypeInv' /\ WorldInv' /\ RequestInv' /\ ArchiveInv'
    BY <2>1, <2>3 DEF Inv, TypeInv, WorldInv, RequestInv, ArchiveInv
  <2>5. TreeInv' /\ RepairInv'
    BY <2>1, <2>2 DEF Inv, TreeInv, RepairInv
  <2>6. \A t : Repaired(t)' <=> Repaired(t)
    BY <2>1, <2>2 DEF Repaired
  <2>7. FilesInv'
    BY <2>1, <2>2, <2>3, <2>6 DEF Inv, FilesInv
  <2>8. ReportInv'
    BY <2>1 DEF Inv, ReportInv
  <2>9. BundleSound' /\ GenuineAccepted'
    BY <2>1 DEF Inv, BundleSound, GenuineAccepted
  <2> QED  BY <2>4, <2>5, <2>7, <2>8, <2>9 DEF Inv
<1> QED  BY <1>1, <1>2

-----------------------------------------------------------------------------

(* The inductive invariant of the builder. *)
THEOREM InvHolds == Spec => []Inv
BY InitHolds, StepHolds, PTL DEF Spec

(* Every variable has its type in every state the builder reaches. *)
THEOREM TypeCorrect == Spec => []TypeInv
<1>1. Inv => TypeInv
  BY DEF Inv
<1> QED  BY <1>1, InvHolds, PTL

(* Every repacked image reads back as an unsigned one with the vendor's      *)
(* kernel, the patched module and an aligned root file system                *)
(* (signed_to_ui, parse_bl7, Bl7Image.rebuild, patch_image).                 *)
THEOREM ImagesAreSound == Spec => []ImageSound
<1>1. Inv => ImageSound
  <2> SUFFICES ASSUME Inv, pc \in {"patch", "controls", "report", "zip", "replace"},
                      opt.bl7 = None, PatchScorpion, NEW t \in Targets \ todo
               PROVE  SoundImage(tree.file[t], Layout.file[t])
    BY DEF ImageSound, SoundImage, VendorImage
  <2>1. /\ WorldInv /\ TreeInv /\ FilesInv /\ pc \in Extracted
        /\ pc \in Patching \cup Patched
    BY RepairPlaces DEF Inv
  <2>2. t \in DOMAIN Layout.file
    BY <2>1, TargetsAre DEF TreeInv
  <2>3. Repaired(t)
    BY <2>1, <2>2 DEF FilesInv
  <2> QED  BY <2>3 DEF Repaired
<1> QED  BY <1>1, InvHolds, PTL

(* Whatever failed before: the output ZIP holds the archive its release      *)
(* records, and the report says what was changed in it                       *)
(* (verify_decrypted_archive, patch_scorpion_payload, write_bundle).         *)
THEOREM BundlesAreSound == Spec => []BundleSound
<1>1. Inv => BundleSound
  BY DEF Inv
<1> QED  BY <1>1, InvHolds, PTL

(* A genuine download of a known release is never refused                    *)
(* (release_by_input_sha256, decrypt_file, verify_decrypted_archive).        *)
THEOREM GenuineIsAccepted == Spec => []GenuineAccepted
<1>1. Inv => GenuineAccepted
  BY DEF Inv
<1> QED  BY <1>1, InvHolds, PTL
=============================================================================
