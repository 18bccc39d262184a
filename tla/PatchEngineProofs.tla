-------------------------- MODULE PatchEngineProofs --------------------------
(* Proofs about PatchEngine, for every catalog and every file, every size of *)
(* a byte and of a displacement.                                             *)
EXTENDS PatchEngine, FiniteSetTheorems, SequenceTheorems, WellFoundedInduction, TLAPS

-----------------------------------------------------------------------------
(* Induction and recursion over the numbers up to n. *)

LEMMA LeastOf ==
  ASSUME NEW T \in SUBSET Nat, T # {} PROVE \E n \in T : \A t \in T : n <= t
<1> DEFINE R == OpToRel(<, Nat)
<1>1. IsWellFoundedOn(R, Nat)
  BY NatLessThanWellFounded
<1>2. PICK n \in T : \A t \in T : ~(<<t, n>> \in R)
  <2> HIDE DEF R
  <2> QED  BY <1>1, WFMin
<1>3. \A t \in T : t < n => <<t, n>> \in R
  BY DEF OpToRel
<1>4. \A t \in T : ~(t < n)
  BY <1>2, <1>3
<1> QED  BY <1>4

(* Upwards: a set that has 0 and, with a number, the next one. *)
LEMMA UpInduction ==
  ASSUME NEW n \in Nat, NEW S, 0 \in S, \A i \in 1 .. n : i - 1 \in S => i \in S
  PROVE  \A i \in 0 .. n : i \in S
<1> DEFINE T == {i \in 0 .. n : i \notin S}
<1> SUFFICES ASSUME T # {} PROVE FALSE
  OBVIOUS
<1>1. PICK m \in T : \A t \in T : m <= t
  <2>1. T \in SUBSET Nat
    OBVIOUS
  <2> HIDE DEF T
  <2> QED  BY <2>1, LeastOf
<1>2. m # 0 /\ m \in 1 .. n
  OBVIOUS
<1>3. m - 1 \notin T /\ m - 1 \in 0 .. n
  BY <1>1, <1>2
<1> QED  BY <1>1, <1>2, <1>3

(* Downwards: a set that has a number when it has all greater ones. *)
LEMMA DownInduction ==
  ASSUME NEW n \in Nat, NEW S,
         \A i \in 0 .. n : (\A j \in 0 .. n : i < j => j \in S) => i \in S
  PROVE  \A i \in 0 .. n : i \in S
<1> DEFINE T == {n - i : i \in {k \in 0 .. n : k \notin S}}
<1> SUFFICES ASSUME NEW b \in 0 .. n, b \notin S PROVE FALSE
  OBVIOUS
<1>1. T \in SUBSET Nat /\ T # {}
  OBVIOUS
<1>2. PICK m \in T : \A t \in T : m <= t
  <2> HIDE DEF T
  <2> QED  BY <1>1, LeastOf
<1>3. PICK i \in 0 .. n : i \notin S /\ m = n - i
  BY <1>2
<1>4. ASSUME NEW j \in 0 .. n, i < j PROVE j \in S
  <2>1. SUFFICES ASSUME j \notin S PROVE FALSE
    OBVIOUS
  <2>2. n - j \in T
    BY <2>1
  <2>3. m <= n - j
    BY <1>2, <2>2
  <2> QED  BY <1>3, <1>4, <2>3
<1> QED  BY <1>3, <1>4

(* What primitive recursion defines exists. *)
Follows(f, n, v, g) == f[0] = v /\ \A i \in 1 .. n : f[i] = g[i][f[i - 1]]

LEMMA Recursion ==
  ASSUME NEW n \in Nat, NEW V, NEW v \in V, NEW g \in [1 .. n -> [V -> V]]
  PROVE  \E f \in [0 .. n -> V] : Follows(f, n, v, g)
<1> DEFINE Upto(k, f) == /\ f \in [0 .. k -> V]
                         /\ f[0] = v
                         /\ \A i \in 1 .. k : f[i] = g[i][f[i - 1]]
           S == {k \in 0 .. n : \E f : Upto(k, f)}
<1>1. 0 \in S
  <2> DEFINE z == [i \in 0 .. 0 |-> v]
  <2>1. z \in [0 .. 0 -> V] /\ z[0] = v /\ \A i \in 1 .. 0 : z[i] = g[i][z[i - 1]]
    OBVIOUS
  <2>2. \E f : Upto(0, f)
    <3> HIDE DEF z
    <3> QED  BY <2>1
  <2> QED  BY <2>2
<1>2. ASSUME NEW k \in 1 .. n, k - 1 \in S PROVE k \in S
  <2>1. PICK f : Upto(k - 1, f)
    BY <1>2
  <2> DEFINE h == [i \in 0 .. k |-> IF i = k THEN g[k][f[k - 1]] ELSE f[i]]
  <2>2. f[k - 1] \in V /\ g[k][f[k - 1]] \in V
    BY <2>1
  <2>3. h \in [0 .. k -> V]
    BY <2>1, <2>2
  <2>4. h[0] = v
    BY <2>1
  <2>5. ASSUME NEW i \in 1 .. k PROVE h[i] = g[i][h[i - 1]]
    BY <2>1
  <2>6. \E e : Upto(k, e)
    <3> HIDE DEF h
    <3> QED  BY <2>3, <2>4, <2>5
  <2> HIDE DEF Upto
  <2> QED  BY <2>6
<1>3. n \in S
  <2> HIDE DEF S
  <2>1. \A i \in 1 .. n : i - 1 \in S => i \in S
    BY <1>2
  <2>2. \A i \in 0 .. n : i \in S
    BY <1>1, <2>1, UpInduction
  <2> QED  BY <2>2
<1>4. PICK f : Upto(n, f)
  BY <1>3
<1> QED  BY <1>4 DEF Follows

-----------------------------------------------------------------------------
(* Searching. *)

Tokens == Seq(Byte \cup {Wild})

(* The runs of exact bytes in p, as longest_exact_anchor collects them. *)
Runs(p) == {r \in (0..Len(p)) \X (0..Len(p)) :
              /\ r[1] + r[2] <= Len(p)
              /\ \A i \in r[1] + 1..r[1] + r[2] : p[i] # Wild}

LEMMA RunWithin ==
  ASSUME NEW p \in Tokens, NEW r \in Runs(p)
  PROVE  r[1] \in 0 .. Len(p) /\ r[2] \in 0 .. Len(p) /\ r = <<r[1], r[2]>>
BY DEF Runs

(* There is a longest run, and a first one among these. *)
LEMMA AnchorExists ==
  ASSUME NEW p \in Tokens
  PROVE  \E r \in Runs(p) :
           \A q \in Runs(p) : r[2] > q[2] \/ (r[2] = q[2] /\ r[1] <= q[1])
<1>a. Len(p) \in Nat
  BY DEF Tokens
<1> DEFINE Short == {Len(p) - r[2] : r \in Runs(p)}
<1>1. Short \in SUBSET Nat
  BY <1>a, RunWithin
<1>2. <<0, 0>> \in Runs(p)
  BY <1>a DEF Runs
<1>3. PICK s \in Short : \A t \in Short : s <= t
  <2>1. Short # {}
    BY <1>2
  <2> HIDE DEF Short
  <2> QED  BY <1>1, <2>1, LeastOf
<1>4. PICK r \in Runs(p) : s = Len(p) - r[2]
  BY <1>3
<1>5. ASSUME NEW q \in Runs(p) PROVE q[2] <= r[2]
  <2>1. s <= Len(p) - q[2]
    BY <1>3
  <2> HIDE DEF Short
  <2> QED  BY <1>a, <1>4, <2>1, RunWithin
<1> DEFINE First == {q[1] : q \in {x \in Runs(p) : x[2] = r[2]}}
<1>6. First \in SUBSET Nat /\ First # {}
  BY RunWithin
<1>7. PICK f \in First : \A t \in First : f <= t
  <2> HIDE DEF First
  <2> QED  BY <1>6, LeastOf
<1>8. PICK z \in Runs(p) : z[2] = r[2] /\ z[1] = f
  BY <1>7
<1>9. ASSUME NEW q \in Runs(p) PROVE z[2] > q[2] \/ (z[2] = q[2] /\ z[1] <= q[1])
  <2>1. z[2] \in Nat /\ q[2] \in Nat /\ q[2] <= z[2]
    BY <1>5, <1>8, RunWithin
  <2>2. CASE q[2] = z[2]
    <3>1. f <= q[1]
      BY <1>7, <1>8, <2>2
    <3> QED  BY <1>8, <2>2, <3>1
  <2>3. CASE q[2] # z[2]
    BY <2>1, <2>3
  <2> QED  BY <2>2, <2>3
<1> QED  BY <1>9

(* It holds exact bytes, and is empty only if there are none. *)
LEMMA AnchorIs ==
  ASSUME NEW p \in Tokens, NEW a, a = longest_exact_anchor(p)
  PROVE  /\ a[1] \in 0 .. Len(p) /\ a[2] \in 0 .. Len(p) /\ a[1] + a[2] <= Len(p)
         /\ \A i \in a[1] + 1 .. a[1] + a[2] : p[i] # Wild
         /\ a[2] = 0 => \A i \in 1 .. Len(p) : p[i] = Wild
<1>1. a = CHOOSE r \in Runs(p) :
            \A q \in Runs(p) : r[2] > q[2] \/ (r[2] = q[2] /\ r[1] <= q[1])
  BY DEF longest_exact_anchor, Runs
<1>2. /\ a \in Runs(p)
      /\ \A q \in Runs(p) : a[2] > q[2] \/ (a[2] = q[2] /\ a[1] <= q[1])
  BY <1>1, AnchorExists
<1>3. ASSUME a[2] = 0, NEW i \in 1 .. Len(p), p[i] # Wild PROVE FALSE
  <2>1. Len(p) \in Nat
    BY DEF Tokens
  <2> DEFINE q == <<i - 1, 1>>
  <2>2. q[1] = i - 1 /\ q[2] = 1 /\ q \in (0..Len(p)) \X (0..Len(p))
    BY <2>1
  <2>3. \A j \in q[1] + 1 .. q[1] + q[2] : j = i
    BY <2>2
  <2>4. q \in Runs(p)
    BY <1>3, <2>1, <2>2, <2>3 DEF Runs
  <2>5. a[2] > q[2] \/ a[2] = q[2]
    BY <1>2, <2>4
  <2> QED  BY <1>3, <2>2, <2>5
<1>4. a[1] \in 0 .. Len(p) /\ a[2] \in 0 .. Len(p)
  BY <1>2, RunWithin
<1> QED  BY <1>2, <1>3, <1>4 DEF Runs

(* data.find: nothing matches before what it returns. *)
LEMMA FirstHitIs ==
  ASSUME NEW data \in Seq(Byte), NEW anchor, NEW from \in Nat, NEW hit,
         hit = FirstHit(data, anchor, from)
  PROVE  \/ /\ hit = -1
            /\ \A o \in from .. Len(data) : ~matches_at(data, o, anchor)
         \/ /\ hit \in from .. Len(data) /\ matches_at(data, hit, anchor)
            /\ \A o \in from .. Len(data) : matches_at(data, o, anchor) => hit <= o
<1> DEFINE hits == {o \in from .. Len(data) : matches_at(data, o, anchor)}
<1>1. hit = IF hits = {} THEN -1 ELSE CHOOSE o \in hits : \A h \in hits : o <= h
  BY DEF FirstHit
<1>2. CASE hits = {}
  BY <1>1, <1>2
<1>3. CASE hits # {}
  <2>1. hits \in SUBSET Nat
    OBVIOUS
  <2>2. \E o \in hits : \A h \in hits : o <= h
    <3> HIDE DEF hits
    <3> QED  BY <1>3, <2>1, LeastOf
  <2>3. hit \in hits /\ \A h \in hits : hit <= h
    <3> HIDE DEF hits
    <3> QED  BY <1>1, <1>3, <2>2
  <2> QED  BY <2>3
<1> QED  BY <1>2, <1>3

(* All the offsets at which p matches. *)
Matches(data, p) == {o \in 0 .. Len(data) : matches_at(data, o, p)}

(* Where a pattern matches, so does its anchor. *)
LEMMA AnchorMatches ==
  ASSUME NEW data \in Seq(Byte), NEW p \in Tokens, NEW m \in Nat,
         matches_at(data, m, p), NEW a, a = longest_exact_anchor(p)
  PROVE  /\ m + a[1] \in 0 .. Len(data)
         /\ matches_at(data, m + a[1], SubSeq(p, a[1] + 1, a[1] + a[2]))
<1> DEFINE anchor == SubSeq(p, a[1] + 1, a[1] + a[2])
<1>1. /\ a[1] \in 0 .. Len(p) /\ a[2] \in 0 .. Len(p) /\ a[1] + a[2] <= Len(p)
      /\ Len(p) \in Nat /\ Len(data) \in Nat
  BY AnchorIs DEF Tokens
<1>2. /\ m + Len(p) <= Len(data)
      /\ \A i \in 1 .. Len(p) : p[i] = Wild \/ data[m + i] = p[i]
  BY DEF matches_at
<1>3. Len(anchor) = a[2] /\ \A i \in 1 .. a[2] : anchor[i] = p[a[1] + i]
  <2>1. a[1] + 1 \in Int /\ a[1] + a[2] \in Int
    BY <1>1
  <2>2. \A i \in a[1] + 1 .. a[1] + a[2] : p[i] \in Byte \cup {Wild}
    BY <1>1 DEF Tokens
  <2> DEFINE lo == a[1] + 1
             hi == a[1] + a[2]
  <2>3. /\ Len(anchor) = IF lo <= hi THEN hi - lo + 1 ELSE 0
        /\ \A i \in 1 .. hi - lo + 1 : anchor[i] = p[lo + i - 1]
    <3>1. lo \in Int /\ hi \in Int /\ \A i \in lo .. hi : p[i] \in Byte \cup {Wild}
      BY <2>1, <2>2
    <3>2. anchor = SubSeq(p, lo, hi)
      OBVIOUS
    <3> HIDE DEF lo, hi, anchor
    <3> QED  BY <3>1, <3>2, SubSeqProperties
  <2>4. /\ hi - lo + 1 = a[2] /\ (lo <= hi <=> a[2] # 0)
        /\ \A i \in 1 .. a[2] : lo + i - 1 = a[1] + i
    BY <1>1
  <2> HIDE DEF anchor, lo, hi
  <2>5. Len(anchor) = a[2]
    BY <2>3, <2>4
  <2>6. \A i \in 1 .. a[2] : anchor[i] = p[a[1] + i]
    BY <2>3, <2>4
  <2> QED  BY <2>5, <2>6
<1>4. ASSUME NEW i \in 1 .. a[2]
      PROVE  anchor[i] = Wild \/ data[m + a[1] + i] = anchor[i]
  <2>1. a[1] + i \in 1 .. Len(p) /\ m + (a[1] + i) = m + a[1] + i
    BY <1>1
  <2> HIDE DEF anchor
  <2> QED  BY <1>2, <1>3, <2>1
<1> HIDE DEF anchor
<1>5. matches_at(data, m + a[1], anchor)
  BY <1>1, <1>2, <1>3, <1>4 DEF matches_at
<1> QED  BY <1>1, <1>2, <1>5 DEF anchor

(* The scan returns the matches whose anchor is not yet behind it. *)
Scan(data, p) ==
  LET a == longest_exact_anchor(p)
      anchor == SubSeq(p, a[1] + 1, a[1] + a[2])
  IN  CHOOSE scan : scan =
        [from \in 0..Len(data) + 1 |->
           LET hit == FirstHit(data, anchor, from)
           IN  IF hit < 0 THEN {}
               ELSE {m \in {hit - a[1]} : matches_at(data, m, p)}
                      \cup scan[hit + 1]]

LEMMA ScanIs ==
  ASSUME NEW data \in Seq(Byte), NEW p \in Tokens
  PROVE  Scan(data, p)[0] = Matches(data, p)
<1> DEFINE a == longest_exact_anchor(p)
           anchor == SubSeq(p, a[1] + 1, a[1] + a[2])
           scan == Scan(data, p)
<1> HIDE DEF scan, anchor, a
<1>a. Len(data) \in Nat /\ a[1] \in Nat
  BY AnchorIs DEF Tokens, a
<1> DEFINE Rest(from) == {m \in Matches(data, p) : m + a[1] >= from}
           Hit(from) == FirstHit(data, anchor, from)
           At(hit) == {m \in {hit - a[1]} : matches_at(data, m, p)}
<1>1. \A m \in Matches(data, p) :
        m \in Nat /\ m + a[1] \in 0 .. Len(data) /\ matches_at(data, m + a[1], anchor)
  BY <1>a, AnchorMatches DEF Matches, a, anchor
<1>2. ASSUME NEW from \in 0 .. Len(data) + 1
      PROVE  \/ Hit(from) = -1 /\ Rest(from) = {}
             \/ /\ Hit(from) \in from .. Len(data)
                /\ Rest(from) = At(Hit(from)) \cup Rest(Hit(from) + 1)
  <2> DEFINE hit == Hit(from)
  <2>1. \/ /\ hit = -1
           /\ \A o \in from .. Len(data) : ~matches_at(data, o, anchor)
        \/ /\ hit \in from .. Len(data) /\ matches_at(data, hit, anchor)
           /\ \A o \in from .. Len(data) : matches_at(data, o, anchor) => hit <= o
    BY <1>a, FirstHitIs
  <2> HIDE DEF hit
  <2>2. CASE hit = -1
    <3>1. \A m \in Rest(from) : m + a[1] \in from .. Len(data)
      BY <1>1
    <3>2. Rest(from) = {}
      BY <1>1, <2>1, <2>2, <3>1, <1>a
    <3> QED  BY <2>2, <3>2 DEF hit
  <2>3. CASE hit # -1
    <3>1. hit \in from .. Len(data) /\ hit \in Nat
      BY <1>a, <2>1, <2>3
    <3>2. ASSUME NEW m \in Rest(from) PROVE m \in At(hit) \cup Rest(hit + 1)
      <4>1. m \in Nat /\ m + a[1] \in from .. Len(data) /\ hit <= m + a[1]
        BY <1>1, <2>1, <2>3
      <4>2. CASE m + a[1] = hit
        <5>1. m = hit - a[1] /\ matches_at(data, m, p)
          BY <1>a, <3>1, <4>1, <4>2 DEF Matches
        <5> QED  BY <5>1
      <4>3. CASE m + a[1] # hit
        <5>1. m + a[1] >= hit + 1
          BY <1>a, <3>1, <4>1, <4>3
        <5> QED  BY <5>1
      <4> QED  BY <4>2, <4>3
    <3>3. ASSUME NEW m \in At(hit) PROVE m \in Rest(from)
      <4>1. m = hit - a[1] /\ matches_at(data, m, p)
        OBVIOUS
      <4>2. m \in Int /\ m >= 0 /\ m + Len(p) <= Len(data) /\ Len(p) \in Nat
        BY <1>a, <3>1, <4>1 DEF matches_at, Tokens
      <4>3. m \in 0 .. Len(data) /\ m + a[1] = hit
        BY <1>a, <3>1, <4>1, <4>2
      <4> QED  BY <3>1, <4>1, <4>3 DEF Matches
    <3>4. ASSUME NEW m \in Rest(hit + 1) PROVE m \in Rest(from)
      <4>1. m \in Nat /\ m + a[1] >= hit + 1
        BY <1>1
      <4>2. m + a[1] >= from
        BY <1>a, <3>1, <4>1
      <4> QED  BY <4>2
    <3>5. Rest(from) = At(hit) \cup Rest(hit + 1)
      <4> HIDE DEF Rest, At
      <4> QED  BY <3>2, <3>3, <3>4
    <3> QED  BY <3>1, <3>5 DEF hit
  <2> QED  BY <2>2, <2>3
<1> DEFINE Turn(f, from) == IF Hit(from) < 0 THEN {} ELSE At(Hit(from)) \cup f[Hit(from) + 1]
           rest == [from \in 0 .. Len(data) + 1 |-> Rest(from)]
<1> HIDE DEF Hit, At, Rest
<1>3. ASSUME NEW from \in 0 .. Len(data) + 1 PROVE Rest(from) = Turn(rest, from)
  <2>1. CASE Hit(from) = -1 /\ Rest(from) = {}
    BY <2>1
  <2>2. CASE /\ Hit(from) \in from .. Len(data)
             /\ Rest(from) = At(Hit(from)) \cup Rest(Hit(from) + 1)
    <3>1. Hit(from) + 1 \in 0 .. Len(data) + 1 /\ ~(Hit(from) < 0)
      BY <1>a, <2>2
    <3>2. rest[Hit(from) + 1] = Rest(Hit(from) + 1)
      BY <3>1
    <3> QED  BY <2>2, <3>1, <3>2
  <2> QED  BY <1>2, <2>1, <2>2
<1>4. rest = [from \in 0 .. Len(data) + 1 |-> Turn(rest, from)]
  <2> HIDE DEF Turn
  <2> QED  BY <1>3
<1>5. scan = CHOOSE f : f = [from \in 0 .. Len(data) + 1 |-> Turn(f, from)]
  BY DEF scan, Scan, a, anchor, Hit, At
<1>6. scan = [from \in 0 .. Len(data) + 1 |-> Turn(scan, from)]
  <2> HIDE DEF Turn, rest
  <2> QED  BY <1>4, <1>5
<1> DEFINE S == {from \in 0 .. Len(data) + 1 : scan[from] = Rest(from)}
<1>7. ASSUME NEW from \in 0 .. Len(data) + 1,
             \A j \in 0 .. Len(data) + 1 : from < j => j \in S
      PROVE  from \in S
  <2>1. scan[from] = Turn(scan, from)
    <3> HIDE DEF Turn
    <3> QED  BY <1>6
  <2>2. CASE Hit(from) = -1 /\ Rest(from) = {}
    <3>1. Turn(scan, from) = {}
      BY <2>2
    <3> QED  BY <2>1, <2>2, <3>1
  <2>3. CASE /\ Hit(from) \in from .. Len(data)
             /\ Rest(from) = At(Hit(from)) \cup Rest(Hit(from) + 1)
    <3>1. Hit(from) + 1 \in 0 .. Len(data) + 1 /\ ~(Hit(from) < 0) /\ from < Hit(from) + 1
      BY <1>a, <2>3
    <3>2. scan[Hit(from) + 1] = Rest(Hit(from) + 1)
      BY <1>7, <3>1
    <3> QED  BY <2>1, <2>3, <3>1, <3>2
  <2> QED  BY <1>2, <2>2, <2>3
<1>8. 0 \in S
  <2>1. Len(data) + 1 \in Nat /\ 0 \in 0 .. Len(data) + 1
    BY <1>a
  <2> HIDE DEF S
  <2>2. \A i \in 0 .. Len(data) + 1 : i \in S
    BY <1>7, <2>1, DownInduction
  <2> QED  BY <2>1, <2>2
<1>9. Rest(0) = Matches(data, p)
  BY <1>1 DEF Rest
<1> QED  BY <1>8, <1>9 DEF scan

(* The search returns every match and nothing else. *)
LEMMA FindIs ==
  ASSUME NEW data \in Seq(Byte), NEW p \in Tokens
  PROVE  find_masked(data, p) = Matches(data, p)
<1> DEFINE a == longest_exact_anchor(p)
           anchor == SubSeq(p, a[1] + 1, a[1] + a[2])
<1>1. CASE a[2] = 0
  <2>1. Len(p) \in Nat /\ Len(data) \in Nat /\ \A i \in 1 .. Len(p) : p[i] = Wild
    BY <1>1, AnchorIs DEF Tokens
  <2>2. find_masked(data, p) = 0 .. Len(data) - Len(p)
    BY <1>1 DEF find_masked
  <2>3. \A o \in 0 .. Len(data) : matches_at(data, o, p) <=> o + Len(p) <= Len(data)
    BY <2>1 DEF matches_at
  <2>4. \A o : o \in 0 .. Len(data) - Len(p)
                 <=> o \in 0 .. Len(data) /\ o + Len(p) <= Len(data)
    BY <2>1
  <2> QED  BY <2>2, <2>3, <2>4 DEF Matches
<1>2. CASE a[2] # 0
  <2>1. find_masked(data, p) = Scan(data, p)[0]
    BY <1>2 DEF find_masked, Scan
  <2> QED  BY <2>1, ScanIs
<1> QED  BY <1>1, <1>2

-----------------------------------------------------------------------------
(* Numbers in base Base. *)

LEMMA Division ==
  ASSUME NEW b \in Int, b > 0, NEW a \in Int
  PROVE  a = b * (a \div b) + (a % b)
OBVIOUS

(* Quotient and remainder are the only ones. *)
LEMMA DivModIs ==
  ASSUME NEW b \in Nat \ {0}, NEW a \in Int
  PROVE  a \div b \in Int /\ a % b \in 0 .. b - 1 /\ a = b * (a \div b) + (a % b)
<1>1. a \div b \in Int
  OBVIOUS
<1>2. a % b \in 0 .. b - 1
  OBVIOUS
<1>3. a = b * (a \div b) + (a % b)
  <2>1. b \in Int /\ b > 0
    OBVIOUS
  <2> QED  BY <2>1, Division
<1> QED  BY <1>1, <1>2, <1>3

LEMMA DivModUnique ==
  ASSUME NEW b \in Nat \ {0}, NEW q \in Int, NEW r \in 0 .. b - 1,
         NEW q2 \in Int, NEW r2 \in 0 .. b - 1, b * q + r = b * q2 + r2
  PROVE  q = q2 /\ r = r2
<1>1. b * (q - q2) = r2 - r
  OBVIOUS
<1>2. ASSUME NEW d \in Int, d > 0 PROVE b * d >= b
  <2>1. PICK e \in Nat : d = e + 1
    <3>1. d - 1 \in Nat /\ d = (d - 1) + 1
      BY <1>2
    <3> QED  BY <3>1
  <2>2. b * d = b * e + b /\ b * e >= 0
    BY <2>1
  <2> QED  BY <2>2
<1>3. ~(q - q2 > 0)
  <2>1. SUFFICES ASSUME q - q2 > 0 PROVE FALSE
    OBVIOUS
  <2>2. b * (q - q2) >= b
    BY <1>2, <2>1
  <2> QED  BY <1>1, <2>2
<1>4. ~(q2 - q > 0)
  <2>1. SUFFICES ASSUME q2 - q > 0 PROVE FALSE
    OBVIOUS
  <2>2. b * (q2 - q) >= b
    BY <1>2, <2>1
  <2>3. b * (q2 - q) = r - r2
    OBVIOUS
  <2> QED  BY <2>2, <2>3
<1>5. q = q2
  BY <1>3, <1>4
<1> QED  BY <1>5

LEMMA DivModOf ==
  ASSUME NEW b \in Nat \ {0}, NEW q \in Int, NEW r \in 0 .. b - 1
  PROVE  (b * q + r) \div b = q /\ (b * q + r) % b = r
<1> DEFINE a == b * q + r
<1>1. a \in Int
  OBVIOUS
<1> HIDE DEF a
<1>2. a \div b \in Int /\ a % b \in 0 .. b - 1 /\ a = b * (a \div b) + (a % b)
  BY <1>1, DivModIs
<1>3. a = b * q + r
  BY DEF a
<1>4. a \div b = q /\ a % b = r
  BY <1>2, <1>3, DivModUnique
<1> QED  BY <1>4 DEF a

LEMMA DivDiv ==
  ASSUME NEW b \in Nat \ {0}, NEW p \in Nat \ {0}, NEW a \in Int
  PROVE  (a \div p) \div b = a \div (b * p)
<1> DEFINE q == a \div p
           r == a % p
           s == q \div b
           t == q % b
<1>1. q \in Int /\ r \in 0 .. p - 1 /\ a = p * q + r
  BY DivModIs
<1>2. s \in Int /\ t \in 0 .. b - 1 /\ q = b * s + t
  BY <1>1, DivModIs
<1> HIDE DEF q, r, s, t
<1>3. b * p \in Nat \ {0}
  OBVIOUS
<1>4. p * t + r \in 0 .. b * p - 1
  <2>1. b - 1 - t \in Nat /\ p * (b - 1 - t) >= 0
    BY <1>2
  <2>2. p * (b - 1 - t) = b * p - p - p * t
    BY <1>2
  <2>3. p * t >= 0 /\ p * t \in Int
    BY <1>2
  <2> QED  BY <1>1, <1>3, <2>1, <2>2, <2>3
<1>5. a = (b * p) * s + (p * t + r)
  <2>1. p * (b * s + t) = (b * p) * s + p * t
    BY <1>2
  <2> QED  BY <1>1, <1>2, <2>1
<1> DEFINE bp == b * p
           u == p * t + r
<1>6. bp \in Nat \ {0} /\ u \in 0 .. bp - 1 /\ a = bp * s + u
  BY <1>3, <1>4, <1>5
<1> HIDE DEF bp, u
<1>7. a \div bp = s
  BY <1>2, <1>6, DivModOf
<1> QED  BY <1>7 DEF bp, s, q

LEMMA PowerIs ==
  /\ \A n \in 0 .. DispLen : Power[n] \in Nat \ {0}
  /\ Power[0] = 1
  /\ \A n \in 1 .. DispLen : Power[n] = Base * Power[n - 1]
<1> DEFINE V == Nat \ {0}
           g == [n \in 1 .. DispLen |-> [x \in V |-> Base * x]]
           Step(f) == [n \in 0 .. DispLen |-> IF n = 0 THEN 1 ELSE Base * f[n - 1]]
<1>a. DispLen \in Nat /\ Base \in V
  BY SizeAssumption
<1>1. \E f : f = Step(f)
  <2>1. g \in [1 .. DispLen -> [V -> V]]
    <3>1. \A x \in V : Base * x \in V
      BY <1>a
    <3> QED  BY <3>1
  <2>2. 1 \in V
    OBVIOUS
  <2>3. PICK f \in [0 .. DispLen -> V] :
          Follows(f, DispLen, 1, g)
    <3>1. DispLen \in Nat
      BY <1>a
    <3> HIDE DEF V, g
    <3> QED  BY <3>1, <2>1, <2>2, Recursion
  <2>4. ASSUME NEW i \in 0 .. DispLen PROVE f[i] = Step(f)[i]
    <3>1. CASE i = 0
      BY <1>a, <2>3, <3>1 DEF Follows
    <3>2. CASE i # 0
      <4>1. i \in 1 .. DispLen /\ i - 1 \in 0 .. DispLen
        BY <1>a, <3>2
      <4>2. f[i - 1] \in V /\ f[i] = g[i][f[i - 1]]
        BY <2>3, <4>1, <3>2 DEF Follows
      <4>3. g[i][f[i - 1]] = Base * f[i - 1]
        BY <4>1, <4>2
      <4> QED  BY <3>2, <4>2, <4>3
    <3> QED  BY <3>1, <3>2
  <2>5. f = Step(f)
    BY <2>3, <2>4
  <2> QED  BY <2>5
<1>2. Power = CHOOSE f : f = Step(f)
  BY DEF Power
<1>3. Power = Step(Power)
  <2> HIDE DEF Step
  <2> QED  BY <1>1, <1>2
<1>4. Power[0] = 1 /\ \A n \in 1 .. DispLen : Power[n] = Base * Power[n - 1]
  BY <1>3, <1>a
<1> DEFINE S == {n \in 0 .. DispLen : Power[n] \in V}
<1>5. 0 \in S
  BY <1>4, <1>a
<1>6. \A n \in 1 .. DispLen : n - 1 \in S => n \in S
  BY <1>4, <1>a
<1>7. \A n \in 0 .. DispLen : n \in S
  <2> HIDE DEF S
  <2> QED  BY <1>5, <1>6, <1>a, UpInduction
<1> QED  BY <1>4, <1>7

(* The digits of x: what is left of it behind each. *)
LEMMA LittleEndianIs ==
  ASSUME NEW x \in Int
  PROVE  /\ LittleEndian(x) \in [1 .. DispLen -> Byte]
         /\ \A j \in 1 .. DispLen :
              x \div Power[j - 1] = Base * (x \div Power[j]) + LittleEndian(x)[j]
<1>a. DispLen \in Nat \ {0} /\ Base \in Nat \ {0}
  BY SizeAssumption
<1>1. ASSUME NEW j \in 1 .. DispLen
      PROVE  /\ (x \div Power[j - 1]) % Base \in Byte
             /\ x \div Power[j - 1]
                  = Base * (x \div Power[j]) + ((x \div Power[j - 1]) % Base)
  <2> DEFINE q == x \div Power[j - 1]
  <2>1. Power[j - 1] \in Nat \ {0} /\ Power[j] = Base * Power[j - 1]
    BY <1>a, PowerIs
  <2>2. q \in Int
    BY <2>1, DivModIs
  <2>3. q \div Base = x \div Power[j]
    <3> DEFINE p == Power[j - 1]
    <3> HIDE DEF p
    <3>1. p \in Nat \ {0}
      BY <2>1 DEF p
    <3>2. (x \div p) \div Base = x \div (Base * p)
      BY <1>a, <3>1, DivDiv
    <3> QED  BY <2>1, <3>2 DEF p
  <2> HIDE DEF q
  <2>4. q % Base \in 0 .. Base - 1 /\ q = Base * (q \div Base) + (q % Base)
    BY <1>a, <2>2, DivModIs
  <2> QED  BY <2>3, <2>4 DEF q, Byte
<1>2. /\ LittleEndian(x) = [j \in 1 .. DispLen |-> (x \div Power[j - 1]) % Base]
      /\ \A j \in 1 .. DispLen : LittleEndian(x)[j] = (x \div Power[j - 1]) % Base
  BY DEF LittleEndian
<1>3. LittleEndian(x) \in [1 .. DispLen -> Byte]
  BY <1>1, <1>2
<1> QED  BY <1>1, <1>2, <1>3

LEMMA RangeIs == Range32 \in Nat \ {0} /\ DispLen \in Nat \ {0} /\ Base \in Nat \ {0}
<1>1. DispLen \in Nat \ {0} /\ Base \in Nat \ {0}
  BY SizeAssumption
<1>2. DispLen \in 0 .. DispLen
  BY <1>1
<1> QED  BY <1>1, <1>2, PowerIs DEF Range32

LEMMA SmallByRange == \A x \in 0 .. Range32 - 1 : x \div Range32 = 0
<1> TAKE x \in 0 .. Range32 - 1
<1>1. Range32 \in Nat \ {0} /\ x = Range32 * 0 + x /\ x \in Int
  BY RangeIs
<1>2. (Range32 * 0 + x) \div Range32 = 0
  BY <1>1, DivModOf
<1> QED  BY <1>1, <1>2

(* No two numbers have the same digits. *)
LEMMA DigitsDiffer ==
  ASSUME NEW x \in 0 .. Range32 - 1, NEW y \in 0 .. Range32 - 1,
         LittleEndian(x) = LittleEndian(y)
  PROVE  x = y
<1> DEFINE S == {j \in 0 .. DispLen : x \div Power[j] = y \div Power[j]}
<1>a. x \in Int /\ y \in Int /\ DispLen \in Nat
  BY RangeIs
<1>1. ASSUME NEW i \in 0 .. DispLen,
             \A j \in 0 .. DispLen : i < j => j \in S
      PROVE  i \in S
  <2>1. CASE i = DispLen
    <3>1. x \div Power[DispLen] = 0 /\ y \div Power[DispLen] = 0
      BY SmallByRange DEF Range32
    <3> QED  BY <2>1, <3>1
  <2>2. CASE i # DispLen
    <3> DEFINE k == i + 1
    <3>1. k \in 1 .. DispLen /\ k \in 0 .. DispLen /\ i < k /\ k - 1 = i
      BY <1>a, <2>2
    <3>2. x \div Power[k] = y \div Power[k]
      BY <1>1, <3>1
    <3> HIDE DEF k
    <3>3. /\ x \div Power[k - 1] = Base * (x \div Power[k]) + LittleEndian(x)[k]
          /\ y \div Power[k - 1] = Base * (y \div Power[k]) + LittleEndian(y)[k]
      BY <1>a, <3>1, LittleEndianIs
    <3> QED  BY <3>1, <3>2, <3>3
  <2> QED  BY <2>1, <2>2
<1>2. 0 \in S
  <2> HIDE DEF S
  <2>1. \A i \in 0 .. DispLen : i \in S
    BY <1>1, <1>a, DownInduction
  <2> QED  BY <2>1, <1>a
<1>3. x \div 1 = y \div 1
  BY <1>2, PowerIs
<1> QED  BY <1>3, <1>a

(* Every row of digits is that of a number. *)
LEMMA DigitsExist ==
  ASSUME NEW b \in [1 .. DispLen -> Byte]
  PROVE  \E x \in 0 .. Range32 - 1 : LittleEndian(x) = b
<1>a. DispLen \in Nat \ {0} /\ Base \in Nat \ {0}
  BY RangeIs
<1> DEFINE g == [k \in 1 .. DispLen |-> [h \in Nat |-> Base * h + b[DispLen - k + 1]]]
<1>1. g \in [1 .. DispLen -> [Nat -> Nat]]
  <2>1. ASSUME NEW k \in 1 .. DispLen, NEW h \in Nat
        PROVE  Base * h + b[DispLen - k + 1] \in Nat
    <3>1. DispLen - k + 1 \in 1 .. DispLen
      BY <1>a
    <3>2. b[DispLen - k + 1] \in Nat
      BY <3>1, <1>a DEF Byte
    <3>3. Base * h \in Nat
      BY <1>a
    <3> QED  BY <3>2, <3>3
  <2> QED  BY <2>1
<1>2. PICK H \in [0 .. DispLen -> Nat] : Follows(H, DispLen, 0, g)
  <2>1. DispLen \in Nat /\ 0 \in Nat
    BY <1>a
  <2> HIDE DEF g
  <2> QED  BY <1>1, <2>1, Recursion
<1>3. ASSUME NEW k \in 1 .. DispLen
      PROVE  H[k - 1] \in Nat /\ H[k] = Base * H[k - 1] + b[DispLen - k + 1]
  <2>1. k - 1 \in 0 .. DispLen
    BY <1>a
  <2>2. H[k - 1] \in Nat /\ H[k] = g[k][H[k - 1]]
    BY <1>2, <2>1 DEF Follows
  <2> QED  BY <2>2
<1> HIDE DEF g
<1> DEFINE x == H[DispLen]
           S == {j \in 0 .. DispLen : H[DispLen - j] = x \div Power[j]}
<1>4. x \in Nat
  BY <1>a
<1>5. 0 \in S
  <2>1. x \div Power[0] = x
    BY <1>4, PowerIs
  <2> QED  BY <2>1, <1>a
<1>6. ASSUME NEW j \in 1 .. DispLen, H[DispLen - (j - 1)] = x \div Power[j - 1]
      PROVE  /\ H[DispLen - j] = x \div Power[j]
             /\ (x \div Power[j - 1]) % Base = b[j]
  <2> DEFINE k == DispLen - (j - 1)
             h == H[DispLen - j]
             p == Power[j - 1]
  <2>1. k \in 1 .. DispLen /\ k - 1 = DispLen - j /\ DispLen - k + 1 = j
    BY <1>a
  <2>2. h \in Nat /\ H[k] = Base * h + b[j]
    <3> HIDE DEF k
    <3>1. H[k - 1] \in Nat /\ H[k] = Base * H[k - 1] + b[DispLen - k + 1]
      BY <1>3, <2>1
    <3> QED  BY <2>1, <3>1
  <2>3. b[j] \in 0 .. Base - 1
    BY DEF Byte
  <2>4. x \div p = Base * h + b[j]
    BY <1>6, <2>2
  <2>5. p \in Nat \ {0} /\ Power[j] = Base * p
    BY PowerIs, <1>a
  <2> HIDE DEF k, h, p, x
  <2>6. (x \div p) \div Base = h /\ (x \div p) % Base = b[j]
    <3> DEFINE d == b[j]
    <3>1. h \in Int /\ d \in 0 .. Base - 1 /\ x \div p = Base * h + d
      BY <2>2, <2>3, <2>4
    <3> HIDE DEF d
    <3>2. (Base * h + d) \div Base = h /\ (Base * h + d) % Base = d
      BY <1>a, <3>1, DivModOf
    <3> QED  BY <3>1, <3>2 DEF d
  <2>7. (x \div p) \div Base = x \div (Base * p)
    <3>1. x \in Int
      BY <1>4
    <3> QED  BY <1>a, <3>1, <2>5, DivDiv
  <2> QED  BY <2>5, <2>6, <2>7 DEF h, p
<1>7. \A j \in 0 .. DispLen : j \in S
  <2>1. DispLen \in Nat /\ \A j \in 1 .. DispLen : j - 1 \in S => j \in S
    BY <1>6, <1>a
  <2> HIDE DEF S
  <2> QED  BY <1>5, <2>1, UpInduction
<1> HIDE DEF x
<1>8. LittleEndian(x) = b
  <2>1. ASSUME NEW j \in 1 .. DispLen PROVE (x \div Power[j - 1]) % Base = b[j]
    <3>1. j - 1 \in S
      BY <1>7, <1>a
    <3> QED  BY <1>6, <3>1
  <2> QED  BY <2>1 DEF LittleEndian
<1>9. x \in 0 .. Range32 - 1
  <2>1. H[DispLen - DispLen] = x \div Range32
    BY <1>7, <1>a DEF Range32
  <2>2. x \div Range32 = 0
    BY <1>2, <1>a, <2>1 DEF Follows
  <2>3. x % Range32 \in 0 .. Range32 - 1 /\ x = Range32 * (x \div Range32) + (x % Range32)
    <3>1. x \in Int /\ Range32 \in Nat \ {0}
      BY <1>4, RangeIs
    <3> QED  BY <3>1, DivModIs
  <2>4. x = x % Range32
    BY <2>2, <2>3, RangeIs
  <2> QED  BY <2>3, <2>4
<1> QED  BY <1>8, <1>9

(* A displacement that is read is a number, and modulo the range it is the   *)
(* one that was written.                                                     *)
LEMMA DisplacementIs ==
  ASSUME NEW data \in Seq(Byte), NEW at \in Nat, at + JumpLen <= Len(data)
  PROVE  /\ Displacement(data, at) \in Int
         /\ \A w \in 0 .. Range32 - 1 :
              (\A j \in 1 .. DispLen : data[at + 1 + j] = LittleEndian(w)[j])
              => \E k \in {0, 1} : Displacement(data, at) = w - k * Range32
<1>a. DispLen \in Nat \ {0} /\ Range32 \in Nat \ {0} /\ JumpLen = 1 + DispLen
      /\ Len(data) \in Nat
  BY RangeIs DEF JumpLen
<1> DEFINE lo == at + 2
           hi == at + JumpLen
           bytes == SubSeq(data, lo, hi)
           v == CHOOSE x \in 0 .. Range32 - 1 : LittleEndian(x) = bytes
<1>1. bytes \in [1 .. DispLen -> Byte] /\ \A j \in 1 .. DispLen : bytes[j] = data[at + 1 + j]
  <2>1. lo \in Int /\ hi \in Int /\ hi - lo + 1 = DispLen /\ lo <= hi
        /\ \A i \in lo .. hi : i \in 1 .. Len(data)
    BY <1>a
  <2>2. \A i \in lo .. hi : data[i] \in Byte
    BY <2>1
  <2>3. \A j \in 1 .. DispLen : lo + j - 1 = at + 1 + j
    BY <1>a
  <2> HIDE DEF lo, hi
  <2>4. /\ bytes \in Seq(Byte)
        /\ Len(bytes) = IF lo <= hi THEN hi - lo + 1 ELSE 0
        /\ \A i \in 1 .. hi - lo + 1 : bytes[i] = data[lo + i - 1]
    BY <2>1, <2>2, SubSeqProperties
  <2> HIDE DEF bytes
  <2>5. bytes \in [1 .. DispLen -> Byte]
    BY <1>a, <2>1, <2>4
  <2>6. ASSUME NEW j \in 1 .. DispLen PROVE bytes[j] = data[at + 1 + j]
    BY <2>1, <2>3, <2>4
  <2> QED  BY <2>5, <2>6
<1>2. Displacement(data, at) = IF 2 * v >= Range32 THEN v - Range32 ELSE v
  BY DEF Displacement
<1>3. v \in 0 .. Range32 - 1 /\ LittleEndian(v) = bytes
  <2> HIDE DEF bytes
  <2> QED  BY <1>1, DigitsExist
<1> HIDE DEF v, bytes
<1>4. Displacement(data, at) = v \/ Displacement(data, at) = v - Range32
  BY <1>2
<1>5. ASSUME NEW w \in 0 .. Range32 - 1,
             \A j \in 1 .. DispLen : data[at + 1 + j] = LittleEndian(w)[j]
      PROVE  \E k \in {0, 1} : Displacement(data, at) = w - k * Range32
  <2>1. LittleEndian(w) \in [1 .. DispLen -> Byte]
    BY LittleEndianIs
  <2>2. bytes = LittleEndian(w)
    <3> DEFINE e == LittleEndian(w)
    <3>1. e \in [1 .. DispLen -> Byte]
      BY <2>1
    <3>2. \A j \in 1 .. DispLen : bytes[j] = e[j]
      BY <1>1, <1>5
    <3> HIDE DEF e
    <3>3. bytes = e
      <4>1. bytes \in [1 .. DispLen -> Byte]
        BY <1>1
      <4>2. bytes = [j \in 1 .. DispLen |-> bytes[j]] /\ e = [j \in 1 .. DispLen |-> e[j]]
        BY <3>1, <4>1
      <4> QED  BY <3>2, <4>2, Zenon
    <3> QED  BY <3>3 DEF e
  <2>3. v = w
    BY <1>3, <2>2, DigitsDiffer
  <2>4. 0 * Range32 = 0 /\ 1 * Range32 = Range32 /\ w \in Int
    BY <1>a
  <2>5. w - 0 = w
    BY <2>4
  <2>6. CASE Displacement(data, at) = v
    <3>1. Displacement(data, at) = w - 0 * Range32
      BY <2>3, <2>4, <2>5, <2>6
    <3> QED  BY <3>1
  <2>7. CASE Displacement(data, at) = v - Range32
    <3>1. Displacement(data, at) = w - 1 * Range32
      BY <2>3, <2>4, <2>7
    <3> QED  BY <3>1
  <2> QED  BY <1>4, <2>6, <2>7
<1>6. Displacement(data, at) \in Int
  BY <1>a, <1>3, <1>4
<1> QED  BY <1>5, <1>6

(* A jump that was moved leads where it led. *)
LEMMA JumpIsMoved ==
  ASSUME NEW before \in Seq(Byte), NEW exit \in Nat, exit + JumpLen <= Len(before),
         NEW after \in Seq(Byte), NEW site \in Nat, site + JumpLen <= Len(after),
         \A i \in 1 .. JumpLen : after[site + i] = RelativeJump(before, site, exit)[i]
  PROVE  (Target(after, site) - Target(before, exit)) % Range32 = 0
<1>a. DispLen \in Nat \ {0} /\ Range32 \in Nat \ {0} /\ JumpLen = 1 + DispLen
  BY RangeIs DEF JumpLen
<1> DEFINE T == Target(before, exit)
           far == T - (site + JumpLen)
           w == far % Range32
           q == far \div Range32
<1>1. T \in Int
  BY <1>a, DisplacementIs DEF Target
<1>2. far \in Int
  BY <1>1, <1>a
<1>3. q \in Int /\ w \in 0 .. Range32 - 1 /\ far = Range32 * q + w
  <2> HIDE DEF far
  <2> QED  BY <1>2, <1>a, DivModIs
<1>4. ASSUME NEW j \in 1 .. DispLen PROVE after[site + 1 + j] = LittleEndian(w)[j]
  <2> DEFINE e == LittleEndian(w)
  <2>1. e \in [1 .. DispLen -> Byte]
    BY <1>3, LittleEndianIs
  <2>2. RelativeJump(before, site, exit) = <<Jump>> \o e
    BY DEF RelativeJump
  <2> HIDE DEF e
  <2>3. e \in Seq(Byte) /\ Len(e) = DispLen
    BY <1>a, <2>1
  <2>4. (<<Jump>> \o e)[1 + j] = e[j]
    BY <1>a, <2>3
  <2>5. 1 + j \in 1 .. JumpLen /\ site + (1 + j) = site + 1 + j
    BY <1>a
  <2> QED  BY <2>2, <2>4, <2>5 DEF e
<1> HIDE DEF T, far, w, q
<1>5. PICK k \in {0, 1} : Displacement(after, site) = w - k * Range32
  BY <1>3, <1>4, DisplacementIs
<1>6. Target(after, site) - T = Range32 * (-q - k)
  <2>1. far = T - (site + JumpLen)
    BY DEF far
  <2>2. Target(after, site) = site + JumpLen + (w - k * Range32)
    BY <1>5 DEF Target
  <2>3. k \in Int /\ k * Range32 \in Int /\ Range32 * q \in Int /\ JumpLen \in Int /\ w \in Int
    BY <1>a, <1>3
  <2>4. Target(after, site) - T = - (Range32 * q) - k * Range32
    <3> DEFINE kr == k * Range32
               rq == Range32 * q
               t == Target(after, site)
    <3>1. /\ kr \in Int /\ rq \in Int /\ far = rq + w /\ far = T - (site + JumpLen)
          /\ t = site + JumpLen + (w - kr)
      BY <1>3, <2>1, <2>2, <2>3
    <3>2. T \in Int /\ w \in Int /\ site \in Int /\ JumpLen \in Int /\ far \in Int
      BY <1>1, <1>2, <2>3
    <3> HIDE DEF kr, rq, t
    <3>3. t - T = -rq - kr
      BY <3>1, <3>2
    <3> QED  BY <3>3 DEF kr, rq, t
  <2>5. Range32 * (-q - k) = - (Range32 * q) - k * Range32
    BY <1>a, <1>3, <2>3
  <2> QED  BY <2>4, <2>5
<1>7. (Range32 * (-q - k) + 0) % Range32 = 0
  <2> DEFINE m == -q - k
  <2>1. m \in Int /\ 0 \in 0 .. Range32 - 1
    BY <1>a, <1>3
  <2> HIDE DEF m
  <2>2. (Range32 * m + 0) % Range32 = 0
    BY <1>a, <2>1, DivModOf
  <2> QED  BY <2>2 DEF m
<1>8. Range32 * (-q - k) + 0 = Range32 * (-q - k)
  BY <1>a, <1>3
<1> QED  BY <1>6, <1>7, <1>8 DEF T

-----------------------------------------------------------------------------
(* Rules. *)

RuleOk(r) ==
  /\ r.off \in Nat /\ r.exit \in Nat
  /\ r.sig \in Tokens /\ r.exp \in Tokens
  /\ r.off + Len(r.exp) <= Len(r.sig)
  /\ r.rep # NoRep => r.rep \in Tokens /\ Len(r.rep) = Len(r.exp)

Entries(c) == {c.patches[i] : i \in DOMAIN c.patches}

LEMMA RulesAreEntries ==
  ASSUME NEW c \in Catalogs, NEW id
  PROVE  rules_for_artifact(c, id) \in Seq(Entries(c))
<1> DEFINE n == Len(c.patches)
           V == Seq(Entries(c))
           g == [i \in 1 .. n |-> [x \in V |->
                   IF c.patches[i].artifact = id THEN Append(x, c.patches[i]) ELSE x]]
           Step(f) == [i \in 0 .. n |->
             IF i = 0 THEN <<>>
             ELSE IF c.patches[i].artifact = id THEN Append(f[i - 1], c.patches[i])
             ELSE f[i - 1]]
           mine == CHOOSE f : f = Step(f)
<1>1. c.patches \in V
  BY CatalogAssumption DEF Entries
<1>2. n \in Nat /\ \A i \in 1 .. n : c.patches[i] \in Entries(c)
  BY <1>1
<1> HIDE DEF n
<1>3. ASSUME NEW i \in 1 .. n, NEW x \in V
      PROVE  /\ Append(x, c.patches[i]) \in V
             /\ (IF c.patches[i].artifact = id THEN Append(x, c.patches[i]) ELSE x) \in V
  BY <1>2
<1>4. g \in [1 .. n -> [V -> V]]
  BY <1>3
<1>5. PICK f \in [0 .. n -> V] : Follows(f, n, <<>>, g)
  <2>1. <<>> \in V
    OBVIOUS
  <2> HIDE DEF V, g
  <2> QED  BY <1>2, <1>4, <2>1, Recursion
<1>6. ASSUME NEW i \in 0 .. n PROVE f[i] = Step(f)[i]
  <2>1. CASE i = 0
    BY <1>2, <1>5, <2>1 DEF Follows
  <2>2. CASE i # 0
    <3>1. i \in 1 .. n /\ i - 1 \in 0 .. n
      BY <1>2, <2>2
    <3>2. f[i - 1] \in V /\ f[i] = g[i][f[i - 1]]
      BY <1>5, <3>1, <2>2 DEF Follows
    <3>3. g[i][f[i - 1]] = IF c.patches[i].artifact = id
                           THEN Append(f[i - 1], c.patches[i]) ELSE f[i - 1]
      <4> HIDE DEF V
      <4> QED  BY <3>1, <3>2
    <3> QED  BY <2>2, <3>2, <3>3
  <2> QED  BY <2>1, <2>2
<1>7. f = Step(f)
  <2> HIDE DEF V
  <2> QED  BY <1>6
<1>8. mine = Step(mine)
  <2> HIDE DEF Step
  <2> QED  BY <1>7
<1> DEFINE S == {i \in 0 .. n : mine[i] \in V}
<1>9. 0 \in S
  <2>1. mine[0] = <<>>
    <3> HIDE DEF mine
    <3> QED  BY <1>8, <1>2
  <2>2. <<>> \in V /\ 0 \in 0 .. n
    BY <1>2
  <2> HIDE DEF mine, V
  <2> QED  BY <2>1, <2>2
<1>10. ASSUME NEW i \in 1 .. n, i - 1 \in S PROVE i \in S
  <2>1. mine[i] = IF c.patches[i].artifact = id
                  THEN Append(mine[i - 1], c.patches[i]) ELSE mine[i - 1]
    <3>1. i \in 0 .. n /\ i # 0
      BY <1>2
    <3>2. mine[i] = Step(mine)[i]
      <4> HIDE DEF mine, Step
      <4> QED  BY <1>8
    <3> HIDE DEF mine
    <3> QED  BY <3>1, <3>2
  <2>2. mine[i - 1] \in V /\ i \in 0 .. n
    BY <1>2, <1>10
  <2> HIDE DEF mine
  <2>3. mine[i] \in V
    BY <1>3, <2>1, <2>2
  <2> QED  BY <2>2, <2>3
<1>11. \A i \in 0 .. n : i \in S
  <2> HIDE DEF S
  <2> QED  BY <1>2, <1>9, <1>10, UpInduction
<1>12. rules_for_artifact(c, id) = mine[n]
  BY DEF rules_for_artifact, n
<1> HIDE DEF mine
<1> QED  BY <1>2, <1>11, <1>12

LEMMA PatternIs ==
  ASSUME NEW p \in Seq(Byte \cup {Wild, Bad}), Pattern(p) PROVE p \in Tokens
<1>1. \A i \in 1 .. Len(p) : p[i] \in Byte \cup {Wild}
  BY DEF Pattern
<1>2. Len(p) \in Nat /\ p = [i \in 1 .. Len(p) |-> p[i]]
  OBVIOUS
<1> QED  BY <1>1, <1>2, SeqDef DEF Tokens

(* Every rule of a catalog that loads is sound, and there is nothing else *)
(* among the rules of an artifact.                                        *)
LEMMA RulesAreOk ==
  ASSUME NEW c \in Catalogs, load_catalog(c), NEW id
  PROVE  /\ rules_for_artifact(c, id) \in Seq(Entries(c))
         /\ \A r \in Entries(c) : RuleOk(r)
<1>1. ASSUME NEW i \in DOMAIN c.patches PROVE RuleOk(c.patches[i])
  <2> DEFINE r == c.patches[i]
  <2>1. ValidRule(r, Ids(c))
    BY DEF load_catalog
  <2>2. /\ r.off \in Int /\ r.exit \in Int
        /\ r.sig \in Seq(Byte \cup {Wild, Bad})
        /\ r.exp \in Seq(Byte \cup {Wild, Bad})
        /\ r.rep # NoRep => r.rep \in Seq(Byte \cup {Wild, Bad})
    BY CatalogAssumption
  <2> HIDE DEF r
  <2>3. r.sig \in Tokens /\ r.exp \in Tokens
    BY <2>1, <2>2, PatternIs DEF ValidRule
  <2>4. r.rep # NoRep => r.rep \in Tokens
    BY <2>1, <2>2, PatternIs DEF ValidRule
  <2>5. r.off \in Nat /\ r.exit \in Nat
    BY <2>1, <2>2 DEF ValidRule
  <2>6. r.off + Len(r.exp) <= Len(r.sig) /\ (r.rep # NoRep => Len(r.rep) = Len(r.exp))
    BY <2>1 DEF ValidRule
  <2> QED  BY <2>3, <2>4, <2>5, <2>6 DEF RuleOk, r
<1> QED  BY <1>1, RulesAreEntries DEF Entries

(* The patched form of a signature has its length. *)
LEMMA PatchedSignatureIs ==
  ASSUME NEW r, RuleOk(r), r.rep # NoRep
  PROVE  PatchedSignature(r) \in Tokens /\ Len(PatchedSignature(r)) = Len(r.sig)
<1> DEFINE q == PatchedSignature(r)
<1>1. /\ r.sig \in Seq(Byte \cup {Wild}) /\ r.rep \in Seq(Byte \cup {Wild})
      /\ r.off \in Nat /\ Len(r.sig) \in Nat
  BY DEF RuleOk, Tokens
<1>2. q = [i \in 1..Len(r.sig) |->
             IF i - r.off \notin 1..Len(r.rep) THEN r.sig[i]
             ELSE IF r.rep[i - r.off] # Wild THEN r.rep[i - r.off]
             ELSE IF r.exit = 0 THEN r.sig[i] ELSE Wild]
  BY DEF PatchedSignature, overlay_pattern
<1>3. \A i \in 1 .. Len(r.sig) : r.sig[i] \in Byte \cup {Wild}
  BY <1>1
<1>4. \A j \in 1 .. Len(r.rep) : r.rep[j] \in Byte \cup {Wild}
  BY <1>1
<1>5. q \in [1 .. Len(r.sig) -> Byte \cup {Wild}]
  BY <1>2, <1>3, <1>4
<1> HIDE DEF q
<1> QED  BY <1>1, <1>5 DEF Tokens, q

-----------------------------------------------------------------------------
(* Writing. *)

(* What a match says of the place it is at. *)
LEMMA MatchFits ==
  ASSUME NEW data \in Seq(Byte), NEW p \in Tokens, NEW m,
         find_masked(data, p) = {m}
  PROVE  /\ m \in Nat /\ m \in 0 .. Len(data) /\ m + Len(p) <= Len(data)
         /\ matches_at(data, m, p)
<1>1. m \in Matches(data, p)
  BY FindIs
<1> QED  BY <1>1 DEF Matches, matches_at

(* The bytes that are written where a rule matches, and that they fit. *)
LEMMA ReplacementIs ==
  ASSUME payload \in Seq(Byte), NEW r, RuleOk(r), NEW m, Patchable(r, m)
  PROVE  /\ m \in Nat /\ m + r.off \in Nat
         /\ Replacement(r, m) \in Tokens
         /\ m + r.off + Len(Replacement(r, m)) <= Len(payload)
         /\ r.exit # 0 => /\ m + r.exit \in Nat
                          /\ m + r.exit + JumpLen <= Len(payload)
                          /\ Len(Replacement(r, m)) = JumpLen
                          /\ \A i \in 1 .. JumpLen : Replacement(r, m)[i] \in Byte
<1>a. /\ r.off \in Nat /\ r.exit \in Nat /\ r.sig \in Tokens /\ r.rep \in Tokens
      /\ r.off + Len(r.rep) <= Len(r.sig)
      /\ Len(r.sig) \in Nat /\ Len(r.rep) \in Nat /\ Len(payload) \in Nat
  BY DEF RuleOk, Patchable, Tokens
<1>1. m \in Nat /\ m + Len(r.sig) <= Len(payload)
  BY <1>a, MatchFits DEF Patchable
<1>2. m + r.off \in Nat /\ m + r.off + Len(r.rep) <= Len(payload)
  BY <1>1, <1>a
<1>3. CASE r.exit = 0
  BY <1>a, <1>1, <1>2, <1>3 DEF Replacement
<1>4. CASE r.exit # 0
  <2>1. Len(r.rep) = JumpLen /\ r.exit + JumpLen <= Len(r.sig)
    BY <1>4 DEF Patchable, RelOk
  <2>2. DispLen \in Nat \ {0} /\ Range32 \in Nat \ {0} /\ JumpLen = 1 + DispLen
    BY RangeIs DEF JumpLen
  <2>3. m + r.exit \in Nat /\ m + r.exit + JumpLen <= Len(payload)
    BY <1>a, <1>1, <2>1, <2>2
  <2> DEFINE exit == m + r.exit
             far == Target(payload, exit) - (m + r.off + JumpLen)
             e == LittleEndian(far % Range32)
  <2>4. far \in Int
    <3>1. Target(payload, exit) \in Int
      BY <2>2, <2>3, DisplacementIs DEF Target
    <3> QED  BY <1>2, <2>2, <3>1
  <2> HIDE DEF far
  <2>5. e \in [1 .. DispLen -> Byte]
    <3>1. far % Range32 \in Int
      BY <2>2, <2>4, DivModIs
    <3> QED  BY <3>1, LittleEndianIs
  <2>6. Replacement(r, m) = <<Jump>> \o e
    BY <1>4 DEF Replacement, RelativeJump, far
  <2> HIDE DEF e
  <2>7. e \in Seq(Byte) /\ Len(e) = DispLen /\ <<Jump>> \in Seq(Byte)
    BY <2>2, <2>5, SizeAssumption
  <2>8. <<Jump>> \o e \in Seq(Byte) /\ Len(<<Jump>> \o e) = JumpLen
    BY <2>2, <2>7
  <2>9. Replacement(r, m) \in Seq(Byte) /\ Len(Replacement(r, m)) = JumpLen
    BY <2>6, <2>8
  <2>10. Seq(Byte) \subseteq Tokens
    BY DEF Tokens
  <2>11. \A i \in 1 .. JumpLen : Replacement(r, m)[i] \in Byte
    BY <2>9
  <2>12. m + r.off + Len(Replacement(r, m)) <= Len(payload)
    BY <1>2, <2>1, <2>9
  <2> QED  BY <1>1, <1>2, <2>3, <2>9, <2>10, <2>11, <2>12
<1> QED  BY <1>3, <1>4

LEMMA RenderIs ==
  ASSUME NEW n \in Nat, NEW data \in [1 .. n -> Byte], NEW s \in Nat, NEW rep \in Tokens
  PROVE  /\ render_replacement(data, s, rep) \in [1 .. n -> Byte]
         /\ \A o \in 1 .. n :
              render_replacement(data, s, rep)[o]
                = IF o \in s + 1 .. s + Len(rep) /\ rep[o - s] # Wild
                  THEN rep[o - s] ELSE data[o]
<1>1. Len(data) = n /\ Len(rep) \in Nat
  BY DEF Tokens
<1>2. render_replacement(data, s, rep)
        = [o \in 1 .. n |->
            IF o - s \notin 1 .. Len(rep) \/ rep[o - s] = Wild THEN data[o] ELSE rep[o - s]]
  BY <1>1 DEF render_replacement
<1>3. \A o \in 1 .. n : o - s \in 1 .. Len(rep) <=> o \in s + 1 .. s + Len(rep)
  BY <1>1
<1>4. \A j \in 1 .. Len(rep) : rep[j] # Wild => rep[j] \in Byte
  BY DEF Tokens
<1> QED  BY <1>2, <1>3, <1>4

(* A rule that is resolved. *)
Resolution == [state : {"validated", "patch", "already"}, site : Nat, bytes : Tokens]

Site(i) == resolved[i].site + 1 .. End(i)

(* The file that the loop has written after the first k rules. *)
WrittenFile ==
  CHOOSE written : written =
    [i \in 0..Len(resolved) |->
       IF i = 0 THEN payload
       ELSE IF i \notin Patches THEN written[i - 1]
       ELSE render_replacement(written[i - 1], resolved[i].site, resolved[i].bytes)]

LEMMA ResolutionIs ==
  ASSUME resolved \in Seq(Resolution), NEW i \in 1 .. Len(resolved)
  PROVE  /\ resolved[i] \in Resolution
         /\ resolved[i].state \in {"validated", "patch", "already"}
         /\ resolved[i].site \in Nat /\ resolved[i].bytes \in Tokens
         /\ Len(resolved[i].bytes) \in Nat /\ End(i) \in Nat
<1>1. resolved[i] \in Resolution
  OBVIOUS
<1>2. /\ resolved[i].state \in {"validated", "patch", "already"}
      /\ resolved[i].site \in Nat /\ resolved[i].bytes \in Tokens
  BY <1>1 DEF Resolution
<1>3. Len(resolved[i].bytes) \in Nat
  BY <1>2 DEF Tokens
<1> QED  BY <1>1, <1>2, <1>3 DEF End

(* Two ranges that do not overlap have no byte in common. *)
LEMMA SitesApart ==
  ASSUME resolved \in Seq(Resolution), ~Overlap,
         NEW i \in Patches, NEW j \in Patches, i # j, NEW o \in Site(i)
  PROVE  o \notin Site(j)
<1>1. i \in 1 .. Len(resolved) /\ j \in 1 .. Len(resolved) /\ Len(resolved) \in Nat
  BY DEF Patches
<1>3. /\ resolved[i].site \in Nat /\ resolved[j].site \in Nat
      /\ End(i) \in Nat /\ End(j) \in Nat
  BY <1>1, ResolutionIs
<1>4. ~(resolved[i].site < End(j) /\ resolved[j].site < End(i))
  <2>1. CASE i < j
    BY <2>1 DEF Overlap
  <2>2. CASE j < i
    BY <2>2 DEF Overlap
  <2> QED  BY <1>1, <2>1, <2>2
<1> QED  BY <1>3, <1>4 DEF Site

(* Every site holds its replacement, over the bytes that were there before   *)
(* anything was written, and no other byte has changed.                      *)
Written(w) ==
  /\ w \in [1 .. Len(payload) -> Byte]
  /\ \A i \in Patches : \A o \in Site(i) \cap 1 .. Len(payload) :
       w[o] = render_replacement(payload, resolved[i].site, resolved[i].bytes)[o]
  /\ \A o \in 1 .. Len(payload) :
       (\A i \in Patches : o \notin Site(i)) => w[o] = payload[o]

LEMMA WrittenIs ==
  ASSUME payload \in Seq(Byte), resolved \in Seq(Resolution), ~Overlap
  PROVE  Written(WrittenFile[Len(resolved)])
<1> DEFINE n == Len(resolved)
           l == Len(payload)
           V == [1 .. l -> Byte]
           Put(i, x) == render_replacement(x, resolved[i].site, resolved[i].bytes)
           g == [i \in 1 .. n |-> [x \in V |-> IF i \notin Patches THEN x ELSE Put(i, x)]]
           Step(f) == [i \in 0 .. n |->
             IF i = 0 THEN payload
             ELSE IF i \notin Patches THEN f[i - 1] ELSE Put(i, f[i - 1])]
           W == WrittenFile
<1>1. n \in Nat /\ l \in Nat /\ payload \in V
  OBVIOUS
<1> HIDE DEF n, l
<1>2. ASSUME NEW i \in 1 .. n
      PROVE  resolved[i] \in Resolution /\ resolved[i].site \in Nat /\ resolved[i].bytes \in Tokens
  BY ResolutionIs DEF n
<1>3. ASSUME NEW i \in 1 .. n, NEW x \in V
      PROVE  /\ Put(i, x) \in V
             /\ \A o \in 1 .. l : o \notin Site(i) => Put(i, x)[o] = x[o]
             /\ \A o \in Site(i) \cap 1 .. l : x[o] = payload[o] => Put(i, x)[o] = Put(i, payload)[o]
  <2> DEFINE s == resolved[i].site
             rep == resolved[i].bytes
  <2>1. s \in Nat /\ rep \in Tokens
    BY <1>2
  <2>2. Site(i) = s + 1 .. s + Len(rep)
    BY DEF Site, End
  <2> HIDE DEF s, rep
  <2>3. ASSUME NEW y \in V
        PROVE  /\ render_replacement(y, s, rep) \in V
               /\ \A o \in 1 .. l :
                    render_replacement(y, s, rep)[o]
                      = IF o \in s + 1 .. s + Len(rep) /\ rep[o - s] # Wild
                        THEN rep[o - s] ELSE y[o]
    BY <1>1, <2>1, RenderIs
  <2> QED  BY <1>1, <2>2, <2>3 DEF s, rep
<1> HIDE DEF V
<1>4. g \in [1 .. n -> [V -> V]]
  <2> HIDE DEF Put
  <2> QED  BY <1>3
<1>5. PICK f \in [0 .. n -> V] : Follows(f, n, payload, g)
  <2> HIDE DEF g
  <2> QED  BY <1>1, <1>4, Recursion
<1>6. ASSUME NEW i \in 0 .. n PROVE f[i] = Step(f)[i]
  <2> HIDE DEF Put
  <2>1. CASE i = 0
    BY <1>1, <1>5, <2>1 DEF Follows
  <2>2. CASE i # 0
    <3>1. i \in 1 .. n /\ i - 1 \in 0 .. n
      BY <1>1, <2>2
    <3>2. f[i - 1] \in V /\ f[i] = g[i][f[i - 1]]
      BY <1>5, <3>1, <2>2 DEF Follows
    <3>3. g[i][f[i - 1]] = IF i \notin Patches THEN f[i - 1] ELSE Put(i, f[i - 1])
      BY <3>1, <3>2
    <3> QED  BY <2>2, <3>2, <3>3
  <2> QED  BY <2>1, <2>2
<1>7. W = Step(W)
  <2>1. f = Step(f)
    BY <1>6
  <2>2. W = CHOOSE h : h = Step(h)
    BY DEF WrittenFile, n
  <2> HIDE DEF Step, W
  <2> QED  BY <2>1, <2>2
<1> HIDE DEF W
<1>8. W[0] = payload
  <2>1. 0 \in 0 .. n
    BY <1>1
  <2> HIDE DEF Put
  <2> QED  BY <1>7, <2>1
<1>9. ASSUME NEW i \in 1 .. n
      PROVE  W[i] = IF i \notin Patches THEN W[i - 1] ELSE Put(i, W[i - 1])
  <2>1. i \in 0 .. n /\ i # 0
    BY <1>1
  <2>2. W[i] = Step(W)[i]
    <3> HIDE DEF Step
    <3> QED  BY <1>7
  <2> HIDE DEF Put
  <2> QED  BY <2>1, <2>2
<1> DEFINE Good(k) ==
             /\ W[k] \in V
             /\ \A i \in Patches : i <= k =>
                  \A o \in Site(i) \cap 1 .. l : W[k][o] = Put(i, payload)[o]
             /\ \A o \in 1 .. l :
                  (\A i \in Patches : i <= k => o \notin Site(i)) => W[k][o] = payload[o]
           S == {k \in 0 .. n : Good(k)}
<1>10. Patches \subseteq 1 .. n
  BY DEF Patches, n
<1>11. 0 \in S
  <2>1. 0 \in 0 .. n /\ \A i \in Patches : ~(i <= 0)
    BY <1>1, <1>10
  <2> HIDE DEF Put
  <2> QED  BY <1>1, <1>8, <2>1
<1>12. ASSUME NEW k \in 1 .. n, k - 1 \in S PROVE k \in S
  <2>1. Good(k - 1) /\ k \in Nat /\ k \in 0 .. n
    BY <1>1, <1>12
  <2>2. CASE k \notin Patches
    <3>1. W[k] = W[k - 1]
      BY <1>9, <2>2
    <3>2. \A i \in Patches : i <= k <=> i <= k - 1
      BY <1>1, <1>10, <2>2
    <3> HIDE DEF Put
    <3> QED  BY <2>1, <3>1, <3>2
  <2>3. CASE k \in Patches
    <3>1. W[k] = Put(k, W[k - 1]) /\ W[k - 1] \in V
      BY <1>9, <2>1, <2>3
    <3>2. W[k] \in V
      <4> HIDE DEF Put
      <4> QED  BY <1>3, <3>1
    <3>3. ASSUME NEW i \in Patches, i <= k, NEW o \in Site(i) \cap 1 .. l
          PROVE  W[k][o] = Put(i, payload)[o]
      <4>1. CASE i = k
        <5>1. \A j \in Patches : j <= k - 1 => o \notin Site(j)
          <6>1. \A j \in Patches : j <= k - 1 => j # k
            BY <1>1, <1>10
          <6> QED  BY <3>3, <4>1, <6>1, SitesApart
        <5>2. W[k - 1][o] = payload[o]
          BY <2>1, <5>1
        <5> HIDE DEF Put
        <5> QED  BY <1>3, <3>1, <4>1, <5>2
      <4>2. CASE i # k
        <5>1. i <= k - 1
          BY <1>1, <1>10, <3>3, <4>2
        <5>2. o \notin Site(k)
          BY <2>3, <4>2, SitesApart
        <5>3. W[k - 1][o] = Put(i, payload)[o]
          BY <2>1, <5>1
        <5> HIDE DEF Put
        <5> QED  BY <1>3, <3>1, <5>2, <5>3
      <4> QED  BY <4>1, <4>2
    <3>4. ASSUME NEW o \in 1 .. l, \A i \in Patches : i <= k => o \notin Site(i)
          PROVE  W[k][o] = payload[o]
      <4>1. o \notin Site(k)
        BY <2>1, <2>3, <3>4
      <4>2. \A i \in Patches : i <= k - 1 => o \notin Site(i)
        BY <1>1, <1>10, <3>4
      <4>3. W[k - 1][o] = payload[o]
        BY <2>1, <4>2
      <4> HIDE DEF Put
      <4> QED  BY <1>3, <3>1, <4>1, <4>3
    <3> HIDE DEF Put
    <3> QED  BY <2>1, <3>2, <3>3, <3>4
  <2> QED  BY <2>2, <2>3
<1>13. n \in S
  <2> HIDE DEF S
  <2>1. \A k \in 0 .. n : k \in S
    BY <1>1, <1>11, <1>12, UpInduction
  <2> QED  BY <1>1, <2>1
<1>14. \A i \in Patches : i <= n
  BY <1>1, <1>10
<1>15. /\ W[n] \in V
       /\ \A i \in Patches : \A o \in Site(i) \cap 1 .. l : W[n][o] = Put(i, payload)[o]
       /\ \A o \in 1 .. l : (\A i \in Patches : o \notin Site(i)) => W[n][o] = payload[o]
  <2> HIDE DEF Put
  <2> QED  BY <1>13, <1>14
<1> QED  BY <1>15 DEF Written, W, V, l, n

-----------------------------------------------------------------------------
(* The inductive invariant. *)

ShapeInv ==
  /\ payload \in Seq(Byte) /\ result \in Seq(Byte) /\ resolved \in Seq(Resolution)
  /\ source \in File /\ out \subseteq File
  /\ \A i \in 1 .. Len(resolved) : End(i) <= Len(payload)

LoadInv == pc \notin {"load", "refused"} \/ pass = 2 => load_catalog(catalog)

(* The rules that are resolved, as Resolve has seen them. *)
Outcome(i) ==
  resolved[i].state = "patch" =>
    \E m \in Offsets : /\ Patchable(Rules[i], m)
                       /\ resolved[i].site = m + Rules[i].off
                       /\ resolved[i].bytes = Replacement(Rules[i], m)

Loaded == {"resolve", "verify", "assert", "rebuild", "done"}

ResolveInv ==
  pc \in Loaded =>
    /\ Extractable /\ payload = source.payload
    /\ Len(resolved) <= Len(Rules)
    /\ \A i \in 1 .. Len(resolved) : Outcome(i)

WriteInv ==
  pc \in Loaded \ {"resolve"} =>
    /\ Len(resolved) = Len(Rules) /\ ~Overlap
    /\ Written(result)
    /\ changed = (result # payload)

VerifiedIn(data) ==
  \A i \in DOMAIN Rules :
    LET r == Rules[i] IN
    IF r.rep = NoRep THEN Cardinality(find_masked(data, r.sig)) = 1
    ELSE /\ find_masked(data, r.sig) = {}
         /\ Cardinality(find_masked(data, PatchedSignature(r))) = 1

HasElf(f) ==
  \E i \in DOMAIN f.magics :
    f.magics[i] = "elf" /\ \A j \in 1..i - 1 : f.magics[j] # "elf"

(* A file that the program has written. *)
PatchedFile(f) ==
  /\ Rules # <<>> /\ VerifiedIn(f.payload)
  /\ Handler # "raw" => /\ HasElf(f)
                        /\ f.len = Compressed(f.payload)
                        /\ f.early = (f.payload \in Unlucky)

VerifyInv ==
  /\ pc \in {"rebuild", "done"} => VerifiedIn(result)
  /\ pc = "done" => out = {rebuild_artifact(source, result)} /\ Fits(source, result)

AgainInv == pass = 2 => PatchedFile(source)

(* It is not changed when it is read again. *)
SameInv ==
  pass = 2 /\ (\A i \in DOMAIN Rules : Implied(Rules[i])) =>
    /\ pc \in Loaded => \A i \in 1 .. Len(resolved) : resolved[i].state # "patch"
    /\ pc # "assert"
    /\ pc = "refused" =>
         Handler = "zd1200_bzimage_gzip_elf" /\ source.payload \in Unlucky
    /\ pc = "done" => ~changed /\ out = {source}

Inv == /\ TypeInv /\ ShapeInv /\ LoadInv /\ ResolveInv /\ WriteInv
       /\ VerifyInv /\ AgainInv /\ SameInv

-----------------------------------------------------------------------------
(* What the steps rely on. *)

LEMMA HandlerIs ==
  ASSUME load_catalog(catalog), artifact \in Ids(catalog)
  PROVE  Handler \in {"raw", "zd1200_bzimage_gzip_elf"}
<1>1. \E j \in DOMAIN catalog.artifacts : catalog.artifacts[j].id = artifact
  BY DEF Ids
<1>2. \A j \in DOMAIN catalog.artifacts :
        catalog.artifacts[j].handler \in {"raw", "zd1200_bzimage_gzip_elf"}
  BY DEF load_catalog
<1> DEFINE i == CHOOSE j \in DOMAIN catalog.artifacts : catalog.artifacts[j].id = artifact
<1>3. i \in DOMAIN catalog.artifacts
  BY <1>1
<1>4. Handler = catalog.artifacts[i].handler
  BY DEF Handler
<1> HIDE DEF i
<1> QED  BY <1>2, <1>3, <1>4

LEMMA RuleIs ==
  ASSUME catalog \in Catalogs, load_catalog(catalog)
  PROVE  /\ Len(Rules) \in Nat /\ DOMAIN Rules = 1 .. Len(Rules)
         /\ \A i \in 1 .. Len(Rules) : RuleOk(Rules[i])
<1>1. Rules \in Seq(Entries(catalog)) /\ \A r \in Entries(catalog) : RuleOk(r)
  BY RulesAreOk DEF Rules
<1>2. \A i \in 1 .. Len(Rules) : Rules[i] \in Entries(catalog)
  BY <1>1
<1> QED  BY <1>1, <1>2

LEMMA CompressedIs == ASSUME NEW data \in Seq(Byte) PROVE Compressed(data) \in Nat
<1> DEFINE edges == {i \in 2..Len(data) : data[i] # data[i - 1]}
<1>1. 2 \in Int /\ Len(data) \in Int
  OBVIOUS
<1>2. IsFiniteSet(2..Len(data))
  BY <1>1, FS_Interval
<1>3. IsFiniteSet(edges)
  <2>1. edges \subseteq 2..Len(data)
    OBVIOUS
  <2> HIDE DEF edges
  <2> QED  BY <1>2, <2>1, FS_Subset
<1>4. Cardinality(edges) \in Nat
  <2> HIDE DEF edges
  <2> QED  BY <1>3, FS_CardinalityType
<1> QED  BY <1>4 DEF Compressed

(* The container keeps its magics and its length. *)
LEMMA RebuiltIs ==
  ASSUME load_catalog(catalog), artifact \in Ids(catalog),
         NEW f \in File, NEW data \in Seq(Byte), Fits(f, data),
         NEW g, g = rebuild_artifact(f, data)
  PROVE  /\ g \in File /\ g.payload = data /\ g.magics = f.magics
         /\ g.len + g.gap = f.len + f.gap
         /\ Handler # "raw" => /\ g.len = Compressed(data)
                               /\ g.early = (data \in Unlucky)
         /\ Handler = "raw" => g.len = f.len /\ g.gap = f.gap /\ g.early = f.early
<1>1. /\ f.magics \in Seq({"broken", "other", "elf"}) /\ f.len \in Nat /\ f.gap \in Nat
      /\ f.early \in BOOLEAN /\ f.payload \in Seq(Byte)
      /\ f = [magics |-> f.magics, len |-> f.len, gap |-> f.gap, early |-> f.early,
              payload |-> f.payload]
  BY DEF File
<1>2. CASE Handler = "raw"
  <2>1. g = [f EXCEPT !.payload = data]
    BY <1>2 DEF rebuild_artifact
  <2>2. g = [magics |-> f.magics, len |-> f.len, gap |-> f.gap, early |-> f.early,
             payload |-> data]
    BY <1>1, <2>1
  <2> QED  BY <1>1, <1>2, <2>2 DEF File
<1>3. CASE Handler # "raw"
  <2> DEFINE e == data \in Unlucky
             c == Compressed(data)
  <2>1. c \in Nat /\ e \in BOOLEAN
    BY CompressedIs
  <2>2. c <= f.len
    BY <1>3, HandlerIs DEF Fits
  <2>3. g = [f EXCEPT !.payload = data, !.len = c, !.gap = f.gap + f.len - c, !.early = e]
    BY <1>3 DEF rebuild_artifact, File
  <2> HIDE DEF e, c
  <2>4. g = [magics |-> f.magics, len |-> c, gap |-> f.gap + f.len - c, early |-> e,
             payload |-> data]
    BY <1>1, <2>3
  <2>5. f.gap + f.len - c \in Nat /\ c + (f.gap + f.len - c) = f.len + f.gap
    BY <1>1, <2>1, <2>2
  <2>6. /\ g.magics = f.magics /\ g.len = c /\ g.gap = f.gap + f.len - c
        /\ g.early = e /\ g.payload = data
    BY <2>4
  <2>7. g \in File
    BY <1>1, <2>1, <2>4, <2>5 DEF File
  <2> QED  BY <1>3, <2>5, <2>6, <2>7 DEF e, c
<1> QED  BY <1>2, <1>3

(* Where no rule writes anything, the payload stays what it is. *)
LEMMA NothingWritten ==
  ASSUME payload \in Seq(Byte), NEW w, Written(w),
         \A i \in 1 .. Len(resolved) : resolved[i].state # "patch",
         resolved \in Seq(Resolution)
  PROVE  w = payload
<1>1. Patches = {}
  BY DEF Patches
<1>2. w \in [1 .. Len(payload) -> Byte] /\ \A o \in 1 .. Len(payload) : w[o] = payload[o]
  BY <1>1 DEF Written
<1>3. payload \in [1 .. Len(payload) -> Byte]
  OBVIOUS
<1> QED  BY <1>2, <1>3

(* A rule does not resolve to anything to write in a file that has it. *)
LEMMA FoundPatched ==
  ASSUME NEW i \in DOMAIN Rules, VerifiedIn(payload), NEW m
  PROVE  ~Patchable(Rules[i], m)
<1> SUFFICES ASSUME Patchable(Rules[i], m) PROVE FALSE
  OBVIOUS
<1>1. Rules[i].rep # NoRep /\ find_masked(payload, Rules[i].sig) = {m}
  BY DEF Patchable
<1>2. find_masked(payload, Rules[i].sig) = {}
  BY <1>1 DEF VerifiedIn
<1> QED  BY <1>1, <1>2

(* One that has one element is a set of that element. *)
LEMMA OnlyMatch ==
  ASSUME NEW data \in Seq(Byte), NEW p \in Tokens,
         Cardinality(find_masked(data, p)) = 1
  PROVE  \E m \in 0 .. Len(data) : find_masked(data, p) = {m}
<1> DEFINE found == find_masked(data, p)
<1>1. found \subseteq 0 .. Len(data)
  BY FindIs DEF Matches
<1>2. IsFiniteSet(0 .. Len(data))
  <2>1. 0 \in Int /\ Len(data) \in Int
    OBVIOUS
  <2> QED  BY <2>1, FS_Interval
<1> HIDE DEF found
<1>3. IsFiniteSet(found)
  BY <1>1, <1>2, FS_Subset
<1>4. \E m : found = {m}
  BY <1>3, FS_Singleton DEF found
<1> QED  BY <1>1, <1>4 DEF found

(* And then every rule resolves, if its expected bytes are in its signature. *)
LEMMA ResolvesAgain ==
  ASSUME payload \in Seq(Byte), NEW i \in DOMAIN Rules, RuleOk(Rules[i]),
         VerifiedIn(payload), Implied(Rules[i])
  PROVE  \E m \in Offsets : Validated(Rules[i], m) \/ AlreadyPatched(Rules[i], m)
<1> DEFINE r == Rules[i]
<1>a. /\ r.off \in Nat /\ r.sig \in Tokens /\ r.exp \in Tokens /\ Len(r.exp) \in Nat
      /\ Len(r.sig) \in Nat /\ r.off + Len(r.exp) <= Len(r.sig) /\ Len(payload) \in Nat
  BY DEF RuleOk, Tokens
<1>1. CASE r.rep = NoRep
  <2>1. Cardinality(find_masked(payload, r.sig)) = 1
    BY <1>1 DEF VerifiedIn
  <2>2. PICK m \in 0 .. Len(payload) : find_masked(payload, r.sig) = {m}
    BY <1>a, <2>1, OnlyMatch
  <2>3. m \in Nat /\ m + Len(r.sig) <= Len(payload) /\ matches_at(payload, m, r.sig)
    BY <1>a, <2>2, MatchFits
  <2>4. ASSUME NEW j \in 1 .. Len(r.exp)
        PROVE  r.exp[j] = Wild \/ payload[m + r.off + j] = r.exp[j]
    <3>1. r.off + j \in 1 .. Len(r.sig) /\ m + (r.off + j) = m + r.off + j
      BY <1>a, <2>3
    <3>2. r.sig[r.off + j] = Wild \/ payload[m + r.off + j] = r.sig[r.off + j]
      BY <2>3, <3>1 DEF matches_at
    <3>3. r.exp[j] = Wild \/ r.exp[j] = r.sig[r.off + j]
      BY DEF Implied
    <3> QED  BY <3>2, <3>3
  <2>5. matches_at(payload, m + r.off, r.exp)
    BY <1>a, <2>3, <2>4 DEF matches_at
  <2>6. Validated(r, m)
    BY <1>1, <2>2, <2>5 DEF Validated
  <2> QED  BY <2>2, <2>6 DEF Offsets
<1>2. CASE r.rep # NoRep
  <2>1. /\ find_masked(payload, r.sig) = {}
        /\ Cardinality(find_masked(payload, PatchedSignature(r))) = 1
    BY <1>2 DEF VerifiedIn
  <2>2. PatchedSignature(r) \in Tokens
    BY <1>2, PatchedSignatureIs
  <2>3. PICK m \in 0 .. Len(payload) : find_masked(payload, PatchedSignature(r)) = {m}
    BY <2>1, <2>2, OnlyMatch
  <2>4. AlreadyPatched(r, m)
    BY <1>2, <2>1, <2>3 DEF AlreadyPatched
  <2> QED  BY <2>3, <2>4 DEF Offsets
<1> QED  BY <1>1, <1>2

-----------------------------------------------------------------------------
(* The invariant holds at the beginning and is preserved by every action. *)

Control ==
  /\ catalog \in Catalogs /\ artifact \in Ids(catalog)
  /\ pc \in {"load", "extract", "resolve", "verify", "rebuild", "done",
             "refused", "assert"}
  /\ pass \in {1, 2}
  /\ changed \in BOOLEAN
  /\ Cardinality(out) \in {0, 1}

LEMMA TypeParts == ShapeInv => (TypeInv <=> Control)
<1> SUFFICES ASSUME ShapeInv PROVE TypeInv <=> Control
  OBVIOUS
<1>1. resolved \in Seq(Resolution) /\ DOMAIN resolved = 1 .. Len(resolved)
      /\ Len(payload) \in Nat
  BY DEF ShapeInv
<1>2. ASSUME NEW i \in DOMAIN resolved
      PROVE  /\ resolved[i].state \in {"validated", "patch", "already"}
             /\ resolved[i].site + Len(resolved[i].bytes) \in 0..Len(payload)
  <2>1. /\ resolved[i].state \in {"validated", "patch", "already"} /\ End(i) \in Nat
        /\ End(i) <= Len(payload)
    BY <1>1, <1>2, ResolutionIs DEF ShapeInv
  <2> QED  BY <1>1, <2>1 DEF End
<1>3. \A data \in {payload, result} : data \in Seq(Byte)
  BY DEF ShapeInv
<1> QED  BY <1>2, <1>3 DEF TypeInv, Control

(* The steps that change neither the rules' outcomes nor the file that is read *)
LEMMA SameWork ==
  ASSUME UNCHANGED <<Given, payload, resolved>>
  PROVE  /\ Rules' = Rules /\ Handler' = Handler /\ Patches' = Patches
         /\ Overlap' = Overlap /\ Extractable' = Extractable
         /\ (load_catalog(catalog) <=> load_catalog(catalog)')
         /\ \A i : End(i)' = End(i) /\ Site(i)' = Site(i) /\ (Outcome(i)' <=> Outcome(i))
         /\ \A w : (Written(w)' <=> Written(w))
         /\ \A d : (VerifiedIn(d)' <=> VerifiedIn(d)) /\ (PatchedFile(d)' <=> PatchedFile(d))
<1>1. catalog' = catalog /\ artifact' = artifact /\ source' = source /\ pass' = pass
      /\ payload' = payload /\ resolved' = resolved
  BY DEF Given
<1>2. Rules' = Rules /\ Handler' = Handler
  BY <1>1 DEF Rules, Handler
<1>3. Patches' = Patches /\ \A i : End(i)' = End(i) /\ Site(i)' = Site(i)
  BY <1>1 DEF Patches, End, Site
<1>4. Overlap' = Overlap
  BY <1>1, <1>3 DEF Overlap
<1>5. Extractable' = Extractable
  BY <1>1, <1>2 DEF Extractable
<1>6. \A i : Outcome(i)' <=> Outcome(i)
  BY <1>1, <1>2 DEF Outcome, Patchable, RelOk, Replacement, RelativeJump, Offsets
<1>7. \A w : Written(w)' <=> Written(w)
  BY <1>1, <1>3 DEF Written
<1>8. \A d : (VerifiedIn(d)' <=> VerifiedIn(d)) /\ (PatchedFile(d)' <=> PatchedFile(d))
  BY <1>2 DEF VerifiedIn, PatchedFile
<1> QED  BY <1>1, <1>2, <1>3, <1>4, <1>5, <1>6, <1>7, <1>8

LEMMA InitInv == Init => Inv
<1> SUFFICES ASSUME Init PROVE Inv
  OBVIOUS
<1>1. /\ pc = "load" /\ pass = 1 /\ payload = <<>> /\ result = <<>> /\ resolved = <<>>
      /\ changed = FALSE /\ out = {} /\ source \in File /\ catalog \in Catalogs
      /\ artifact \in Ids(catalog)
  BY SourceAssumption DEF Init
<1>2. ShapeInv
  BY <1>1 DEF ShapeInv
<1>3. Cardinality(out) = 0
  BY <1>1, FS_EmptySet
<1>4. Control
  <2>1. changed \in BOOLEAN
    BY <1>1
  <2> QED  BY <1>1, <1>3, <2>1 DEF Control
<1>5. TypeInv
  BY <1>2, <1>4, TypeParts
<1>6. LoadInv /\ ResolveInv /\ WriteInv /\ VerifyInv /\ AgainInv /\ SameInv
  BY <1>1 DEF LoadInv, ResolveInv, WriteInv, VerifyInv, AgainInv, SameInv, Loaded
<1> QED  BY <1>2, <1>5, <1>6 DEF Inv

(* A step that only moves on, or refuses: what remains to be shown. *)
LEMMA OnlyMoves ==
  ASSUME Inv, UNCHANGED <<Given, payload, resolved, result, changed, out>>,
         pc' \in {"extract", "refused", "assert", "rebuild"},
         pc' = "extract" => pc = "load" /\ load_catalog(catalog),
         pc' = "assert" => pc = "verify",
         pc' = "rebuild" => pc = "verify" /\ VerifiedIn(result),
         SameInv'
  PROVE  Inv'
<1>1. /\ source' = source /\ payload' = payload /\ resolved' = resolved /\ pass' = pass
      /\ result' = result /\ changed' = changed /\ out' = out
      /\ catalog' = catalog /\ artifact' = artifact
  BY DEF Given
<1>2. /\ Rules' = Rules /\ Handler' = Handler /\ Patches' = Patches
      /\ Overlap' = Overlap /\ Extractable' = Extractable
      /\ (load_catalog(catalog) <=> load_catalog(catalog)')
      /\ \A i : End(i)' = End(i) /\ (Outcome(i)' <=> Outcome(i))
      /\ \A w : (Written(w)' <=> Written(w))
      /\ \A d : (VerifiedIn(d)' <=> VerifiedIn(d)) /\ (PatchedFile(d)' <=> PatchedFile(d))
  BY SameWork
<1>3. ShapeInv'
  BY <1>1, <1>2 DEF Inv, ShapeInv
<1>4. Control'
  BY <1>1, TypeParts DEF Inv, Control
<1>5. TypeInv'
  <2>1. (ShapeInv => (TypeInv <=> Control))'
    BY TypeParts, PTL
  <2> QED  BY <1>3, <1>4, <2>1
<1>6. LoadInv'
  BY <1>1, <1>2 DEF Inv, LoadInv
<1>7. ResolveInv'
  BY <1>1, <1>2 DEF Inv, ResolveInv, Loaded
<1>8. WriteInv'
  <2>1. Written(result)' <=> Written(result)
    BY <1>1, <1>2 DEF Written
  <2> QED  BY <1>1, <1>2, <2>1 DEF Inv, WriteInv, Loaded
<1>9. VerifyInv'
  <2>1. VerifiedIn(result)' <=> VerifiedIn(result)
    BY <1>1, <1>2 DEF VerifiedIn
  <2> QED  BY <1>1, <1>2, <2>1 DEF Inv, VerifyInv
<1>10. AgainInv'
  <2>1. PatchedFile(source)' <=> PatchedFile(source)
    BY <1>1, <1>2 DEF PatchedFile, VerifiedIn
  <2> QED  BY <1>1, <1>2, <2>1 DEF Inv, AgainInv
<1> QED  BY <1>3, <1>5, <1>6, <1>7, <1>8, <1>9, <1>10 DEF Inv

LEMMA SameControl ==
  ASSUME Inv, ShapeInv', UNCHANGED <<catalog, artifact>>,
         pc' \in {"load", "extract", "resolve", "verify", "rebuild", "done",
                  "refused", "assert"},
         pass' \in {1, 2}, changed' \in BOOLEAN, Cardinality(out)' \in {0, 1}
  PROVE  TypeInv' /\ Rules' = Rules /\ Handler' = Handler
         /\ (load_catalog(catalog) <=> load_catalog(catalog)')
<1>1. Control'
  BY TypeParts DEF Inv, Control
<1>2. (ShapeInv => (TypeInv <=> Control))'
  BY TypeParts, PTL
<1>3. Rules' = Rules /\ Handler' = Handler
  BY DEF Rules, Handler
<1> QED  BY <1>1, <1>2, <1>3

(* What holds in every state. *)
LEMMA InvBasics ==
  ASSUME Inv
  PROVE  /\ catalog \in Catalogs /\ artifact \in Ids(catalog) /\ pass \in {1, 2}
         /\ changed \in BOOLEAN /\ Cardinality(out) \in {0, 1}
         /\ payload \in Seq(Byte) /\ result \in Seq(Byte) /\ resolved \in Seq(Resolution)
         /\ source \in File /\ source.payload \in Seq(Byte) /\ out \subseteq File
         /\ Len(payload) \in Nat /\ Len(resolved) \in Nat
         /\ DOMAIN resolved = 1 .. Len(resolved)
         /\ \A i \in 1 .. Len(resolved) : End(i) <= Len(payload)
<1>1. Control /\ ShapeInv
  BY TypeParts DEF Inv
<1>2. source.payload \in Seq(Byte)
  BY <1>1 DEF ShapeInv, File
<1> QED  BY <1>1, <1>2 DEF Control, ShapeInv

(* The rules of a loaded catalog, and the file of the second pass. *)
LEMMA InvLoaded ==
  ASSUME Inv, pc \notin {"load", "refused"}
  PROVE  /\ load_catalog(catalog)
         /\ Len(Rules) \in Nat /\ DOMAIN Rules = 1 .. Len(Rules)
         /\ \A i \in 1 .. Len(Rules) : RuleOk(Rules[i])
         /\ Handler \in {"raw", "zd1200_bzimage_gzip_elf"}
<1>1. load_catalog(catalog) /\ catalog \in Catalogs /\ artifact \in Ids(catalog)
  BY InvBasics DEF Inv, LoadInv
<1> QED  BY <1>1, RuleIs, HandlerIs

LEMMA ExtractStep == Inv /\ Extract => Inv'
<1> SUFFICES ASSUME Inv, Extract PROVE Inv'
  OBVIOUS
<1>1. /\ pc = "extract" /\ Extractable /\ pc' = "resolve" /\ payload' = source.payload
      /\ resolved' = <<>> /\ source' = source /\ catalog' = catalog /\ artifact' = artifact
      /\ pass' = pass /\ result' = result /\ changed' = changed /\ out' = out
  BY DEF Extract, Given
<1>2. ShapeInv'
  BY <1>1, InvBasics DEF ShapeInv
<1>3. TypeInv' /\ Rules' = Rules /\ Handler' = Handler
      /\ (load_catalog(catalog) <=> load_catalog(catalog)')
  BY <1>1, <1>2, InvBasics, SameControl
<1>4. LoadInv'
  BY <1>1, <1>3, InvLoaded DEF LoadInv
<1>5. ResolveInv'
  <2>1. Extractable'
    BY <1>1, <1>3 DEF Extractable
  <2>2. Len(resolved') = 0
    BY <1>1
  <2>3. Len(resolved') <= Len(Rules')
    BY <1>1, <1>3, <2>2, InvLoaded
  <2> QED  BY <1>1, <2>1, <2>2, <2>3 DEF ResolveInv
<1>6. WriteInv' /\ VerifyInv'
  BY <1>1 DEF WriteInv, VerifyInv, Loaded
<1>7. AgainInv'
  BY <1>1, <1>3 DEF Inv, AgainInv, PatchedFile, VerifiedIn
<1>8. SameInv'
  <2>1. Len(resolved') = 0
    BY <1>1
  <2> QED  BY <1>1, <2>1 DEF SameInv
<1> QED  BY <1>2, <1>3, <1>4, <1>5, <1>6, <1>7, <1>8 DEF Inv

LEMMA ResolveStep == Inv /\ Resolve => Inv'
<1> SUFFICES ASSUME Inv, Resolve PROVE Inv'
  OBVIOUS
<1> DEFINE k == Len(resolved) + 1
           r == Rules[k]
<1>1. /\ pc = "resolve" /\ pc' = "resolve" /\ Len(resolved) < Len(Rules)
      /\ UNCHANGED <<Given, payload, result, changed, out>>
      /\ source' = source /\ catalog' = catalog /\ artifact' = artifact /\ pass' = pass
      /\ payload' = payload /\ result' = result /\ changed' = changed /\ out' = out
  BY DEF Resolve, Given
<1>a. k \in 1 .. Len(Rules) /\ RuleOk(r) /\ k \in Nat /\ Len(payload) \in Nat
      /\ Len(Rules) \in Nat
  BY <1>1, InvBasics, InvLoaded
<1>b. PICK m \in Offsets : \E x :
        /\ resolved' = Append(resolved, x)
        /\ \/ Validated(r, m) /\ x = [state |-> "validated", site |-> m, bytes |-> <<>>]
           \/ Patchable(r, m) /\ x = [state |-> "patch", site |-> m + r.off,
                                      bytes |-> Replacement(r, m)]
           \/ AlreadyPatched(r, m) /\ x = [state |-> "already", site |-> m + r.off,
                                           bytes |-> <<>>]
  BY DEF Resolve, Rule
<1>2. PICK x :
        /\ resolved' = Append(resolved, x)
        /\ \/ Validated(r, m) /\ x = [state |-> "validated", site |-> m, bytes |-> <<>>]
           \/ Patchable(r, m) /\ x = [state |-> "patch", site |-> m + r.off,
                                      bytes |-> Replacement(r, m)]
           \/ AlreadyPatched(r, m) /\ x = [state |-> "already", site |-> m + r.off,
                                           bytes |-> <<>>]
  BY <1>b
<1> HIDE DEF r, k
<1>3. x \in Resolution /\ x.site + Len(x.bytes) <= Len(payload)
  <2>0. <<>> \in Tokens /\ Len(<<>>) = 0 /\ m \in Nat /\ m <= Len(payload)
    BY <1>a DEF Tokens, Offsets
  <2>1. CASE Validated(r, m) /\ x = [state |-> "validated", site |-> m, bytes |-> <<>>]
    BY <1>a, <2>0, <2>1 DEF Resolution
  <2>2. CASE Patchable(r, m) /\ x = [state |-> "patch", site |-> m + r.off,
                                     bytes |-> Replacement(r, m)]
    <3>1. /\ m + r.off \in Nat /\ Replacement(r, m) \in Tokens
          /\ m + r.off + Len(Replacement(r, m)) <= Len(payload)
      BY <1>a, <2>2, InvBasics, ReplacementIs
    <3>2. x.site = m + r.off /\ x.bytes = Replacement(r, m)
      BY <2>2
    <3>3. x \in Resolution
      BY <2>2, <3>1 DEF Resolution
    <3> QED  BY <3>1, <3>2, <3>3
  <2>3. CASE AlreadyPatched(r, m) /\ x = [state |-> "already", site |-> m + r.off,
                                          bytes |-> <<>>]
    <3>1. r.rep # NoRep /\ find_masked(payload, PatchedSignature(r)) = {m}
      BY <2>3 DEF AlreadyPatched
    <3>2. /\ PatchedSignature(r) \in Tokens
          /\ Len(PatchedSignature(r)) = Len(r.sig)
      BY <1>a, <3>1, PatchedSignatureIs
    <3>3. m + Len(r.sig) <= Len(payload)
      BY <3>1, <3>2, InvBasics, MatchFits
    <3>4. r.off \in Nat /\ r.off <= Len(r.sig) /\ Len(r.sig) \in Nat
      BY <1>a DEF RuleOk, Tokens
    <3>5. m + r.off \in Nat /\ m + r.off + 0 <= Len(payload)
      BY <1>a, <2>0, <3>3, <3>4
    <3>6. x.site = m + r.off /\ x.bytes = <<>>
      BY <2>3
    <3>7. x \in Resolution
      BY <2>0, <2>3, <3>5 DEF Resolution
    <3> QED  BY <2>0, <3>5, <3>6, <3>7
  <2> QED  BY <1>2, <2>1, <2>2, <2>3
<1>4. /\ resolved' \in Seq(Resolution) /\ Len(resolved') = k
      /\ \A i \in 1 .. Len(resolved) : resolved'[i] = resolved[i]
      /\ resolved'[k] = x
      /\ \A i \in 1 .. k : i \in 1 .. Len(resolved) \/ i = k
  BY <1>2, <1>3, InvBasics DEF k
<1>5. ShapeInv'
  <2>1. ASSUME NEW i \in 1 .. Len(resolved') PROVE End(i)' <= Len(payload')
    <3>1. CASE i \in 1 .. Len(resolved)
      BY <1>1, <1>4, <3>1, InvBasics DEF End
    <3>2. CASE i = k
      BY <1>1, <1>3, <1>4, <3>2 DEF End
    <3> QED  BY <1>4, <3>1, <3>2
  <2> QED  BY <1>1, <1>4, <2>1, InvBasics DEF ShapeInv
<1>6. TypeInv' /\ Rules' = Rules /\ Handler' = Handler
      /\ (load_catalog(catalog) <=> load_catalog(catalog)')
  BY <1>1, <1>5, InvBasics, SameControl
<1>7. LoadInv'
  BY <1>1, <1>6, InvLoaded DEF LoadInv
<1>8. ResolveInv'
  <2>1. Extractable' /\ payload' = source'.payload
    BY <1>1, <1>6 DEF Inv, ResolveInv, Loaded, Extractable
  <2>2. ASSUME NEW i \in 1 .. Len(resolved') PROVE Outcome(i)'
    <3>1. CASE i \in 1 .. Len(resolved)
      <4>1. Outcome(i)
        BY <1>1, <3>1 DEF Inv, ResolveInv, Loaded
      <4> QED  BY <1>1, <1>4, <1>6, <3>1, <4>1
               DEF Outcome, Patchable, RelOk, Replacement, RelativeJump, Offsets
    <3>2. CASE i = k
      <4>1. x.state = "patch" =>
              Patchable(r, m) /\ x.site = m + r.off /\ x.bytes = Replacement(r, m)
        BY <1>2
      <4> QED  BY <1>1, <1>4, <1>6, <3>2, <4>1
               DEF Outcome, Patchable, RelOk, Replacement, RelativeJump, Offsets, r
    <3> QED  BY <1>4, <3>1, <3>2
  <2>3. Len(resolved') <= Len(Rules')
    BY <1>a, <1>4, <1>6
  <2> QED  BY <2>1, <2>2, <2>3 DEF ResolveInv
<1>9. WriteInv' /\ VerifyInv'
  BY <1>1 DEF WriteInv, VerifyInv, Loaded
<1>10. AgainInv'
  BY <1>1, <1>6 DEF Inv, AgainInv, PatchedFile, VerifiedIn
<1>11. SameInv'
  <2>1. SUFFICES ASSUME pass = 2, \A i \in DOMAIN Rules : Implied(Rules[i])
                 PROVE  \A i \in 1 .. Len(resolved') : resolved'[i].state # "patch"
    BY <1>1, <1>6 DEF SameInv, Loaded
  <2>2. VerifiedIn(payload)
    BY <1>1, <2>1 DEF Inv, AgainInv, PatchedFile, ResolveInv, Loaded, VerifiedIn
  <2>3. x.state # "patch"
    <3>1. ~Patchable(r, m)
      BY <1>1, <1>a, <2>2, InvLoaded, FoundPatched DEF r
    <3> QED  BY <1>2, <3>1
  <2>4. \A i \in 1 .. Len(resolved) : resolved[i].state # "patch"
    BY <1>1, <2>1 DEF Inv, SameInv, Loaded
  <2> QED  BY <1>4, <2>3, <2>4
<1> QED  BY <1>5, <1>6, <1>7, <1>8, <1>9, <1>10, <1>11 DEF Inv

LEMMA LoadStep == Inv /\ Load => Inv'
<1> SUFFICES ASSUME Inv, Load PROVE Inv'
  OBVIOUS
<1>1. /\ pc = "load" /\ load_catalog(catalog) /\ pc' = "extract"
      /\ UNCHANGED <<Given, payload, resolved, result, changed, out>>
  BY DEF Load
<1>2. SameInv'
  BY <1>1 DEF SameInv, Loaded
<1> QED  BY <1>1, <1>2, OnlyMoves

(* In the second pass nothing has been found to write. *)
LEMMA SecondPass ==
  ASSUME Inv, pass = 2, pc \in Loaded, \A i \in DOMAIN Rules : Implied(Rules[i])
  PROVE  /\ VerifiedIn(payload) /\ PatchedFile(source) /\ payload = source.payload
         /\ Patches = {}
         /\ \A w : Written(w) => w = payload
<1>1. PatchedFile(source) /\ payload = source.payload
  BY DEF Inv, AgainInv, ResolveInv
<1>2. VerifiedIn(payload)
  BY <1>1 DEF PatchedFile, VerifiedIn
<1>3. \A i \in 1 .. Len(resolved) : resolved[i].state # "patch"
  BY DEF Inv, SameInv
<1>4. Patches = {}
  BY <1>3, InvBasics DEF Patches
<1>5. ASSUME NEW w, Written(w) PROVE w = payload
  BY <1>3, <1>5, InvBasics, NothingWritten
<1> QED  BY <1>1, <1>2, <1>4, <1>5

LEMMA WriteStep == Inv /\ Write => Inv'
<1> SUFFICES ASSUME Inv, Write PROVE Inv'
  OBVIOUS
<1>1. /\ pc = "resolve" /\ Len(resolved) = Len(Rules) /\ ~Overlap /\ pc' = "verify"
      /\ result' = WrittenFile[Len(resolved)] /\ changed' = (result' # payload)
      /\ UNCHANGED <<Given, payload, resolved>> /\ out' = out
      /\ source' = source /\ catalog' = catalog /\ artifact' = artifact /\ pass' = pass
      /\ payload' = payload /\ resolved' = resolved
  BY DEF Write, Resolved, WrittenFile, Given
<1>2. Written(result')
  BY <1>1, InvBasics, WrittenIs
<1>3. result' \in Seq(Byte)
  <2>1. Len(payload) \in Nat /\ result' \in [1 .. Len(payload) -> Byte]
    BY <1>2, InvBasics DEF Written
  <2> QED  BY <2>1
<1>4. ShapeInv'
  <2>1. \A i \in 1 .. Len(resolved') : End(i)' <= Len(payload')
    BY <1>1, InvBasics DEF End
  <2> QED  BY <1>1, <1>3, <2>1, InvBasics DEF ShapeInv
<1>5. changed' \in BOOLEAN
  BY <1>1
<1>6. TypeInv' /\ Rules' = Rules /\ Handler' = Handler
      /\ (load_catalog(catalog) <=> load_catalog(catalog)')
  BY <1>1, <1>4, <1>5, InvBasics, SameControl
<1>7. LoadInv'
  BY <1>1, <1>6, InvLoaded DEF LoadInv
<1>8. ResolveInv'
  <2>1. Extractable' = Extractable /\ \A i : Outcome(i)' <=> Outcome(i)
    BY <1>1, SameWork
  <2> QED  BY <1>1, <1>6, <2>1 DEF Inv, ResolveInv, Loaded
<1>9. WriteInv'
  <2>1. Overlap' = Overlap
    BY <1>1, SameWork
  <2>2. Written(result)'
    BY <1>1, <1>2 DEF Written, Patches, Site, End
  <2> QED  BY <1>1, <1>6, <2>1, <2>2 DEF WriteInv
<1>10. VerifyInv'
  BY <1>1 DEF VerifyInv
<1>11. AgainInv'
  BY <1>1, <1>6 DEF Inv, AgainInv, PatchedFile, VerifiedIn
<1>12. SameInv'
  BY <1>1, <1>6 DEF Inv, SameInv, Loaded
<1> QED  BY <1>4, <1>6, <1>7, <1>8, <1>9, <1>10, <1>11, <1>12 DEF Inv

LEMMA VerifyStep == Inv /\ Verify => Inv'
<1> SUFFICES ASSUME Inv, Verify PROVE Inv'
  OBVIOUS
<1>1. /\ pc = "verify" /\ Verified /\ pc' = "rebuild"
      /\ UNCHANGED <<Given, payload, resolved, result, changed, out>>
      /\ pass' = pass /\ resolved' = resolved
  BY DEF Verify, Given
<1>2. VerifiedIn(result)
  BY <1>1 DEF Verified, VerifiedIn
<1>3. SameInv'
  <2>1. Rules' = Rules
    BY <1>1, SameWork
  <2> QED  BY <1>1, <2>1 DEF Inv, SameInv, Loaded
<1> QED  BY <1>1, <1>2, <1>3, OnlyMoves

LEMMA VerifyFailsStep == Inv /\ VerifyFails => Inv'
<1> SUFFICES ASSUME Inv, VerifyFails PROVE Inv'
  OBVIOUS
<1>1. /\ pc = "verify" /\ ~Verified /\ pc' = "assert"
      /\ UNCHANGED <<Given, payload, resolved, result, changed, out>>
      /\ pass' = pass /\ resolved' = resolved
  BY DEF VerifyFails, Given
<1>2. SameInv'
  <2>1. Rules' = Rules
    BY <1>1, SameWork
  <2>2. SUFFICES ASSUME pass = 2, \A i \in DOMAIN Rules : Implied(Rules[i]) PROVE FALSE
    BY <1>1, <2>1 DEF SameInv
  <2>3. VerifiedIn(payload) /\ \A w : Written(w) => w = payload
    BY <1>1, <2>2, SecondPass DEF Loaded
  <2>4. result = payload
    BY <1>1, <2>3 DEF Inv, WriteInv, Loaded
  <2> QED  BY <1>1, <2>3, <2>4 DEF Verified, VerifiedIn
<1> QED  BY <1>1, <1>2, OnlyMoves

(* A refusal: in the second pass only the trailer is a reason. *)
LEMMA RefuseStep ==
  ASSUME Inv, NEW from, Refuse(from),
         pass = 2 /\ (\A i \in DOMAIN Rules : Implied(Rules[i])) =>
           Handler = "zd1200_bzimage_gzip_elf" /\ source.payload \in Unlucky
  PROVE  Inv'
<1>1. /\ pc' = "refused" /\ pass' = pass /\ source' = source
      /\ UNCHANGED <<Given, payload, resolved, result, changed, out>>
  BY DEF Refuse, Given
<1>2. Rules' = Rules /\ Handler' = Handler
  BY <1>1, SameWork
<1>3. SameInv'
  BY <1>1, <1>2 DEF SameInv, Loaded
<1> QED  BY <1>1, <1>3, OnlyMoves

LEMMA LoadFailsStep == Inv /\ LoadFails => Inv'
<1> SUFFICES ASSUME Inv, LoadFails PROVE Inv'
  OBVIOUS
<1>1. Refuse("load") /\ ~load_catalog(catalog)
  BY DEF LoadFails
<1>2. pass # 2
  BY <1>1 DEF Inv, LoadInv
<1> QED  BY <1>1, <1>2, RefuseStep

LEMMA ExtractFailsStep == Inv /\ ExtractFails => Inv'
<1> SUFFICES ASSUME Inv, ExtractFails PROVE Inv'
  OBVIOUS
<1>1. Refuse("extract") /\ ~Extractable /\ pc = "extract"
  BY DEF ExtractFails
<1>2. ASSUME pass = 2
      PROVE  Handler = "zd1200_bzimage_gzip_elf" /\ source.payload \in Unlucky
  <2>1. PatchedFile(source) /\ Handler \in {"raw", "zd1200_bzimage_gzip_elf"}
    BY <1>1, <1>2, InvLoaded DEF Inv, AgainInv
  <2>2. Handler # "raw" /\ find_elf_member(source) = {}
    BY <1>1, <2>1 DEF Extractable, PatchedFile
  <2>3. HasElf(source) /\ source.early = (source.payload \in Unlucky)
    BY <2>1, <2>2 DEF PatchedFile
  <2>4. source.early
    BY <2>2, <2>3 DEF HasElf, find_elf_member
  <2> QED  BY <2>1, <2>2, <2>3, <2>4
<1> QED  BY <1>1, <1>2, RefuseStep

LEMMA ResolveFailsStep == Inv /\ ResolveFails => Inv'
<1> SUFFICES ASSUME Inv, ResolveFails PROVE Inv'
  OBVIOUS
<1>1. /\ Refuse("resolve") /\ pc = "resolve" /\ Len(resolved) < Len(Rules)
      /\ \A m \in Offsets : ~Validated(Rule, m) /\ ~AlreadyPatched(Rule, m)
  BY DEF ResolveFails
<1> DEFINE k == Len(resolved) + 1
<1>2. k \in DOMAIN Rules /\ RuleOk(Rules[k]) /\ Rule = Rules[k]
  BY <1>1, InvBasics, InvLoaded DEF Rule
<1> HIDE DEF k
<1>3. ASSUME pass = 2, \A i \in DOMAIN Rules : Implied(Rules[i]) PROVE FALSE
  <2>1. VerifiedIn(payload)
    BY <1>1, <1>3, SecondPass DEF Loaded
  <2>2. \E m \in Offsets : Validated(Rules[k], m) \/ AlreadyPatched(Rules[k], m)
    BY <1>2, <1>3, <2>1, InvBasics, ResolvesAgain
  <2> QED  BY <1>1, <1>2, <2>2
<1> QED  BY <1>1, <1>3, RefuseStep

LEMMA OverlapsStep == Inv /\ Overlaps => Inv'
<1> SUFFICES ASSUME Inv, Overlaps PROVE Inv'
  OBVIOUS
<1>1. Refuse("resolve") /\ pc = "resolve" /\ Overlap
  BY DEF Overlaps, Resolved
<1>2. ASSUME pass = 2, \A i \in DOMAIN Rules : Implied(Rules[i]) PROVE FALSE
  <2>1. Patches = {}
    BY <1>1, <1>2, SecondPass DEF Loaded
  <2> QED  BY <1>1, <2>1 DEF Overlap
<1> QED  BY <1>1, <1>2, RefuseStep

LEMMA RebuildFailsStep == Inv /\ RebuildFails => Inv'
<1> SUFFICES ASSUME Inv, RebuildFails PROVE Inv'
  OBVIOUS
<1>1. Refuse("rebuild") /\ pc = "rebuild" /\ ~Fits(source, result)
  BY DEF RebuildFails
<1>2. ASSUME pass = 2, \A i \in DOMAIN Rules : Implied(Rules[i]) PROVE FALSE
  <2>1. PatchedFile(source) /\ payload = source.payload /\ \A w : Written(w) => w = payload
    BY <1>1, <1>2, SecondPass DEF Loaded
  <2>2. result = source.payload
    BY <1>1, <2>1 DEF Inv, WriteInv, Loaded
  <2>3. Handler # "raw" => source.len = Compressed(result)
    BY <2>1, <2>2 DEF PatchedFile
  <2>4. Compressed(result) \in Nat
    BY InvBasics, CompressedIs
  <2> QED  BY <1>1, <2>3, <2>4 DEF Fits
<1> QED  BY <1>1, <1>2, RefuseStep

LEMMA RebuildStep == Inv /\ Rebuild => Inv'
<1> SUFFICES ASSUME Inv, Rebuild PROVE Inv'
  OBVIOUS
<1> DEFINE g == rebuild_artifact(source, result)
<1>1. /\ pc = "rebuild" /\ Fits(source, result) /\ pc' = "done" /\ out' = {g}
      /\ UNCHANGED <<Given, payload, resolved>>
      /\ source' = source /\ catalog' = catalog /\ artifact' = artifact /\ pass' = pass
      /\ payload' = payload /\ resolved' = resolved /\ result' = result
      /\ changed' = changed
  BY DEF Rebuild, Given
<1>2. /\ g \in File /\ g.payload = result /\ g.magics = source.magics
      /\ Handler # "raw" => /\ g.len = Compressed(result)
                            /\ g.early = (result \in Unlucky)
      /\ Handler = "raw" => g.len = source.len /\ g.gap = source.gap /\ g.early = source.early
      /\ g.len + g.gap = source.len + source.gap
  BY <1>1, InvBasics, InvLoaded, RebuiltIs
<1>3. ShapeInv'
  <2>1. \A i \in 1 .. Len(resolved') : End(i)' <= Len(payload')
    BY <1>1, InvBasics DEF End
  <2> HIDE DEF g
  <2> QED  BY <1>1, <1>2, <2>1, InvBasics DEF ShapeInv
<1>4. Cardinality(out') = 1
  <2> HIDE DEF g
  <2> QED  BY <1>1, FS_Singleton
<1>5. TypeInv' /\ Rules' = Rules /\ Handler' = Handler
      /\ (load_catalog(catalog) <=> load_catalog(catalog)')
  BY <1>1, <1>3, <1>4, InvBasics, SameControl
<1>6. LoadInv'
  BY <1>1, <1>5, InvLoaded DEF LoadInv
<1>7. ResolveInv'
  <2>1. Extractable' = Extractable /\ \A i : Outcome(i)' <=> Outcome(i)
    BY <1>1, SameWork
  <2> QED  BY <1>1, <1>5, <2>1 DEF Inv, ResolveInv, Loaded
<1>8. WriteInv'
  <2>1. Overlap' = Overlap
    BY <1>1, SameWork
  <2>2. Written(result)' <=> Written(result)
    BY <1>1 DEF Written, Patches, Site, End
  <2> QED  BY <1>1, <1>5, <2>1, <2>2 DEF Inv, WriteInv, Loaded
<1>9. VerifyInv'
  <2>1. VerifiedIn(result)'
    BY <1>1, <1>5 DEF Inv, VerifyInv, VerifiedIn
  <2>2. Fits(source, result)'
    BY <1>1, <1>5 DEF Fits
  <2>3. (\A f \in out : f = rebuild_artifact(source, result))'
    BY <1>1, <1>5 DEF rebuild_artifact
  <2> QED  BY <1>1, <2>1, <2>2, <2>3 DEF VerifyInv
<1>10. AgainInv'
  BY <1>1, <1>5 DEF Inv, AgainInv, PatchedFile, VerifiedIn
<1>11. SameInv'
  <2>1. SUFFICES ASSUME pass = 2, \A i \in DOMAIN Rules : Implied(Rules[i])
                 PROVE  /\ \A i \in 1 .. Len(resolved) : resolved[i].state # "patch"
                        /\ ~changed /\ g = source
    BY <1>1, <1>5 DEF SameInv
  <2>2. \A i \in 1 .. Len(resolved) : resolved[i].state # "patch"
    BY <1>1, <2>1 DEF Inv, SameInv, Loaded
  <2>3. PatchedFile(source) /\ payload = source.payload /\ \A w : Written(w) => w = payload
    BY <1>1, <2>1, SecondPass DEF Loaded
  <2>4. result = payload /\ ~changed
    BY <1>1, <2>3 DEF Inv, WriteInv, Loaded
  <2>5. g.payload = source.payload /\ g.len = source.len /\ g.early = source.early
    BY <1>2, <2>3, <2>4 DEF PatchedFile
  <2> HIDE DEF g
  <2>6. /\ g.len \in Nat /\ g.gap \in Nat /\ source.len \in Nat /\ source.gap \in Nat
        /\ g = [magics |-> g.magics, len |-> g.len, gap |-> g.gap, early |-> g.early,
                payload |-> g.payload]
        /\ source = [magics |-> source.magics, len |-> source.len, gap |-> source.gap,
                     early |-> source.early, payload |-> source.payload]
    BY <1>2, InvBasics DEF File
  <2>7. g.gap = source.gap
    BY <1>2, <2>5, <2>6
  <2>8. g = source
    BY <1>2, <2>5, <2>6, <2>7
  <2> QED  BY <2>2, <2>4, <2>8
<1> QED  BY <1>3, <1>5, <1>6, <1>7, <1>8, <1>9, <1>10, <1>11 DEF Inv

LEMMA AgainStep == Inv /\ Again => Inv'
<1> SUFFICES ASSUME Inv, Again PROVE Inv'
  OBVIOUS
<1>1. /\ pc = "done" /\ pc' = "load" /\ pass' = 2 /\ source' \in out
      /\ catalog' = catalog /\ artifact' = artifact /\ out' = out
      /\ payload' = payload /\ resolved' = resolved /\ result' = result
      /\ changed' = changed
  BY DEF Again
<1>2. /\ source' = rebuild_artifact(source, result) /\ Fits(source, result)
      /\ VerifiedIn(result) /\ Extractable
  BY <1>1 DEF Inv, VerifyInv, ResolveInv, Loaded
<1>3. /\ source' \in File /\ source'.payload = result /\ source'.magics = source.magics
      /\ Handler # "raw" => /\ source'.len = Compressed(result)
                            /\ source'.early = (result \in Unlucky)
  BY <1>1, <1>2, InvBasics, InvLoaded, RebuiltIs
<1>4. ShapeInv'
  <2>1. \A i \in 1 .. Len(resolved') : End(i)' <= Len(payload')
    BY <1>1, InvBasics DEF End
  <2> QED  BY <1>1, <1>3, <2>1, InvBasics DEF ShapeInv
<1>5. TypeInv' /\ Rules' = Rules /\ Handler' = Handler
      /\ (load_catalog(catalog) <=> load_catalog(catalog)')
  BY <1>1, <1>4, InvBasics, SameControl
<1>6. LoadInv'
  BY <1>1, <1>5, InvLoaded DEF LoadInv
<1>7. ResolveInv' /\ WriteInv' /\ VerifyInv' /\ SameInv'
  BY <1>1 DEF ResolveInv, WriteInv, VerifyInv, SameInv, Loaded
<1>8. AgainInv'
  <2>1. Handler # "raw" => HasElf(source)
    BY <1>2 DEF Extractable, find_elf_member, HasElf
  <2>2. Handler # "raw" => HasElf(source')
    BY <1>3, <2>1 DEF HasElf
  <2>3. Rules # <<>>
    BY <1>2 DEF Extractable
  <2>4. VerifiedIn(source'.payload)
    BY <1>2, <1>3
  <2>5. PatchedFile(source')
    BY <1>3, <2>2, <2>3, <2>4 DEF PatchedFile
  <2>6. PatchedFile(source)'
    BY <1>5, <2>5 DEF PatchedFile, VerifiedIn, HasElf
  <2> QED  BY <2>6 DEF AgainInv
<1> QED  BY <1>4, <1>5, <1>6, <1>7, <1>8 DEF Inv

LEMMA QuietStep == Inv /\ UNCHANGED vars => Inv'
<1> SUFFICES ASSUME Inv, UNCHANGED vars PROVE Inv'
  OBVIOUS
<1>1. /\ UNCHANGED <<Given, payload, resolved>>
      /\ source' = source /\ catalog' = catalog /\ artifact' = artifact /\ pass' = pass
      /\ payload' = payload /\ resolved' = resolved /\ result' = result
      /\ changed' = changed /\ out' = out /\ pc' = pc
  BY DEF vars, Given
<1>2. /\ Rules' = Rules /\ Handler' = Handler /\ Overlap' = Overlap
      /\ Extractable' = Extractable /\ (load_catalog(catalog) <=> load_catalog(catalog)')
      /\ \A i : End(i)' = End(i) /\ (Outcome(i)' <=> Outcome(i))
  BY <1>1, SameWork
<1>3. /\ Written(result)' <=> Written(result)
      /\ VerifiedIn(result)' <=> VerifiedIn(result)
      /\ PatchedFile(source)' <=> PatchedFile(source)
  BY <1>1, <1>2 DEF Written, Patches, Site, End, VerifiedIn, PatchedFile
<1>4. ShapeInv'
  BY <1>1, <1>2 DEF Inv, ShapeInv
<1>5. TypeInv'
  BY <1>1, <1>4, InvBasics, SameControl, TypeParts DEF Inv, Control
<1>6. LoadInv' /\ ResolveInv' /\ AgainInv'
  BY <1>1, <1>2, <1>3 DEF Inv, LoadInv, ResolveInv, AgainInv, Loaded
<1>7. WriteInv' /\ VerifyInv'
  BY <1>1, <1>2, <1>3 DEF Inv, WriteInv, VerifyInv, Loaded, rebuild_artifact, Fits
<1>8. SameInv'
  BY <1>1, <1>2 DEF Inv, SameInv, Loaded
<1> QED  BY <1>4, <1>5, <1>6, <1>7, <1>8 DEF Inv

-----------------------------------------------------------------------------
(* What follows. *)

(* The steps of the patch engine preserve the invariant. *)
THEOREM InvHolds == Spec => []Inv
<1>1. Init => Inv
  BY InitInv
<1>2. Inv /\ [Next]_vars => Inv'
  BY LoadStep, LoadFailsStep, ExtractStep, ExtractFailsStep, ResolveStep,
     ResolveFailsStep, OverlapsStep, WriteStep, VerifyStep, VerifyFailsStep,
     RebuildStep, RebuildFailsStep, AgainStep, QuietStep DEF Next
<1> QED  BY <1>1, <1>2, PTL DEF Spec

(* Every variable has its type: nothing that is resolved lies outside of the *)
(* payload.                                                                  *)
THEOREM TypeCorrect == Spec => []TypeInv
<1>1. Inv => TypeInv
  BY DEF Inv
<1> QED  BY <1>1, InvHolds, PTL

(* find_masked misses no match, whatever the pattern and the payload. *)
THEOREM SearchIsComplete == Spec => []FindsEveryMatch
<1>1. Inv => FindsEveryMatch
  <2> SUFFICES ASSUME Inv, pc = "resolve", NEW i \in DOMAIN Rules,
                      NEW p \in {Rules[i].sig} \cup
                        IF Rules[i].rep = NoRep THEN {} ELSE {PatchedSignature(Rules[i])}
               PROVE  find_masked(payload, p) = {o \in Offsets : matches_at(payload, o, p)}
    BY DEF FindsEveryMatch
  <2>1. RuleOk(Rules[i])
    BY InvLoaded
  <2>2. p \in Tokens
    BY <2>1, PatchedSignatureIs DEF RuleOk
  <2> QED  BY <2>2, InvBasics, FindIs DEF Matches, Offsets
<1> QED  BY <1>1, InvHolds, PTL

LEMMA SiteIsWritten ==
  ASSUME Inv, pc = "done", NEW i \in Patches
  PROVE  /\ i \in 1 .. Len(Rules) /\ RuleOk(Rules[i])
         /\ Site(i) \subseteq 1 .. Len(payload)
         /\ \A o \in Site(i) :
              result[o] = render_replacement(payload, resolved[i].site, resolved[i].bytes)[o]
         /\ \E m \in Offsets : /\ Patchable(Rules[i], m)
                               /\ resolved[i].site = m + Rules[i].off
                               /\ resolved[i].bytes = Replacement(Rules[i], m)
<1>1. i \in 1 .. Len(resolved) /\ resolved[i].state = "patch"
  BY InvBasics DEF Patches
<1>2. i \in 1 .. Len(Rules) /\ RuleOk(Rules[i])
  BY <1>1, InvLoaded DEF Inv, WriteInv, Loaded
<1>3. Site(i) \subseteq 1 .. Len(payload)
  <2>1. resolved[i].site \in Nat /\ End(i) \in Nat /\ End(i) <= Len(payload)
    BY <1>1, InvBasics, ResolutionIs
  <2> QED  BY <2>1, InvBasics DEF Site
<1>4. Written(result) /\ Outcome(i)
  BY <1>1 DEF Inv, WriteInv, ResolveInv, Loaded
<1> QED  BY <1>1, <1>2, <1>3, <1>4 DEF Written, Outcome

(* The relocated jump of a rule leads where the exit of the original led. *)
LEMMA JumpsLeadOn ==
  ASSUME Inv, pc = "done", NEW i \in Patches, Rules[i].exit # 0
  PROVE  (Target(result, resolved[i].site)
            - Target(payload, resolved[i].site - Rules[i].off + Rules[i].exit)) % Range32 = 0
<1> DEFINE r == Rules[i]
           s == resolved[i].site
           rep == resolved[i].bytes
<1>1. PICK m \in Offsets : Patchable(r, m) /\ s = m + r.off /\ rep = Replacement(r, m)
  BY SiteIsWritten
<1>2. RuleOk(r) /\ r.off \in Nat /\ r.exit \in Nat
  BY SiteIsWritten DEF RuleOk
<1>3. /\ m \in Nat /\ s \in Nat /\ rep \in Tokens
      /\ s + Len(rep) <= Len(payload)
      /\ m + r.exit \in Nat /\ m + r.exit + JumpLen <= Len(payload)
      /\ Len(rep) = JumpLen /\ \A j \in 1 .. JumpLen : rep[j] \in Byte
  BY <1>1, <1>2, InvBasics, ReplacementIs
<1>4. s - r.off + r.exit = m + r.exit
  BY <1>1, <1>2, <1>3
<1>5. rep = RelativeJump(payload, s, m + r.exit)
  BY <1>1 DEF Replacement
<1>6. JumpLen \in Nat
  BY RangeIs DEF JumpLen
<1>7. Len(result) = Len(payload)
  <2>1. result \in [1 .. Len(payload) -> Byte]
    BY DEF Inv, WriteInv, Loaded, Written
  <2> QED  BY <2>1, InvBasics
<1>8. ASSUME NEW j \in 1 .. JumpLen PROVE result[s + j] = rep[j]
  <2> DEFINE o == s + j
             n == Len(payload)
  <2>1. Site(i) = s + 1 .. s + Len(rep)
    BY DEF Site, End
  <2>2. payload \in [1 .. n -> Byte] /\ n \in Nat /\ s + Len(rep) <= n
    BY <1>3, InvBasics
  <2>3. s \in Nat /\ rep \in Tokens /\ Len(rep) = JumpLen
        /\ \A k \in 1 .. JumpLen : rep[k] \in Byte
    BY <1>3
  <2>4. /\ \A q \in Site(i) : result[q] = render_replacement(payload, s, rep)[q]
    BY SiteIsWritten
  <2> HIDE DEF s, rep, n
  <2>5. o \in s + 1 .. s + Len(rep) /\ o - s = j /\ o \in 1 .. n
    <3> HIDE DEF JumpLen
    <3> QED  BY <1>6, <2>2, <2>3
  <2>6. result[o] = render_replacement(payload, s, rep)[o]
    BY <2>1, <2>4, <2>5
  <2>7. rep[j] # Wild
    BY <2>3, TokenAssumption
  <2> HIDE DEF o
  <2>8. render_replacement(payload, s, rep)[o]
          = IF o \in s + 1 .. s + Len(rep) /\ rep[o - s] # Wild
            THEN rep[o - s] ELSE payload[o]
    BY <2>2, <2>3, <2>5, RenderIs
  <2> QED  BY <2>5, <2>6, <2>7, <2>8 DEF o
<1> DEFINE exit == m + r.exit
<1>9. /\ exit \in Nat /\ exit + JumpLen <= Len(payload)
      /\ s + JumpLen <= Len(result)
      /\ \A j \in 1 .. JumpLen : result[s + j] = RelativeJump(payload, s, exit)[j]
  BY <1>3, <1>5, <1>7, <1>8
<1> HIDE DEF s, exit
<1>10. (Target(result, s) - Target(payload, exit)) % Range32 = 0
  BY <1>3, <1>9, InvBasics, JumpIsMoved
<1> QED  BY <1>4, <1>10 DEF s, exit

(* The file that is written differs from the one that was read exactly as    *)
(* the rules say, jumps included, and nothing behind the member moves.       *)
THEOREM PatchesAreAsAsked == Spec => []PatchedAsAsked
<1>1. Inv => PatchedAsAsked
  <2> SUFFICES ASSUME Inv, pc = "done" PROVE PatchedAsAsked
    BY DEF PatchedAsAsked
  <2>1. ASSUME NEW i \in Patches, NEW o \in resolved[i].site + 1..End(i)
        PROVE  result[o]
                 = render_replacement(payload, resolved[i].site, resolved[i].bytes)[o]
    BY SiteIsWritten DEF Site
  <2>2. ASSUME NEW o \in DOMAIN payload, result[o] # payload[o]
        PROVE  \E i \in Patches : o \in resolved[i].site + 1..End(i)
    <3>1. Written(result) /\ o \in 1 .. Len(payload)
      BY InvBasics DEF Inv, WriteInv, Loaded
    <3> QED  BY <2>2, <3>1 DEF Written, Site
  <2>3. ASSUME NEW f \in out
        PROVE  /\ f.payload = result /\ f.len + f.gap = source.len + source.gap
               /\ f.magics = source.magics
    <3>1. f = rebuild_artifact(source, result) /\ Fits(source, result)
      BY DEF Inv, VerifyInv
    <3> QED  BY <3>1, InvBasics, InvLoaded, RebuiltIs
  <2> QED  BY <2>1, <2>2, <2>3, JumpsLeadOn DEF PatchedAsAsked
<1> QED  BY <1>1, InvHolds, PTL

(* The kernel that the builder has patched is patched again at every start:  *)
(* that is not refused and changes nothing.                                  *)
THEOREM SecondPassChangesNothing == Spec => []AgainSame
<1>1. Inv => AgainSame
  BY DEF Inv, SameInv, AgainSame
<1> QED  BY <1>1, InvHolds, PTL
=============================================================================
