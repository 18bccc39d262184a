------------------------- MODULE SnapshotStoreProofs ------------------------
(***************************************************************************)
(* Proofs about SnapshotStore for every retention, every length of a day,  *)
(* every set of snapshots an earlier installation left, and every number   *)
(* of faults.                                                              *)
(***************************************************************************)
EXTENDS SnapshotStore, FiniteSetTheorems, TLAPS

(* No snapshot, line or indexed day is of the future, and only the loop's   *)
(* past days are bundled.                                                   *)
TimeInv ==
  /\ now <= clock
  /\ pc # "off" => now \in Times
  /\ \A t \in captures : t <= now
  /\ \A t \in Times : lines[t] > 0 => t <= now
  /\ \A d \in index : d <= Day(now)
  /\ \A d \in bundles : d < Day(now)

(* Where the lines come from and where they go: only an indexed day has     *)
(* lines, nothing is bundled before the migration is over, the snapshot an  *)
(* add appends is there, and a day whose files go has no line any more.     *)
LineInv ==
  /\ \A t \in Times : lines[t] > 0 => Day(t) \in index
  /\ pc \in {"rebuild", "publishAll"} => ~migrated
  /\ ~migrated => pc \in {"off", "rebuild", "publishAll"} /\ bundles = {}
  /\ pc = "append" => now \in captures
  /\ pc \in {"rmIndex", "rmBundle"} => day \notin index
  /\ pc = "rmBundle" => day \notin named

(* What is in a bundle stays there, and captures go only once they are.     *)
BundleInv ==
  /\ \A t \in inBundle : Day(t) \in bundles
  /\ pc = "remove" => day \in bundles \cap index
  /\ named \subseteq bundles
  /\ BodiesKept
  /\ BundleHoldsDay

(* A listed snapshot that has not expired is a line of its day's file.      *)
ListedInv ==
  /\ settled => pc \in {"sweep", "idle"}
  /\ \A t \in listed : Live(t) => lines[t] > 0

Inv == TypeInv /\ TimeInv /\ LineInv /\ BundleInv /\ ListedInv

(* Without power cuts inside a bundling, the index of a bundled day says so *)
(* whenever none is being bundled.                                          *)
NamedInv ==
  \A d \in bundles \cap index : d \in named \/ (pc = "remove" /\ d = day)

(* The published index of day d is not what its lines say. *)
Stale(d) ==
  /\ d \in index
  /\ d \notin jsons \/ \E t \in Of(d) : (t \in listed) # (lines[t] > 0)

(* The first instant of day d has expired, so its index is trimmed. *)
Trimmed(d) == d * Slots + Retention < clock

(* The days whose removal was cut are over, and are never indexed again.    *)
OrphanInv ==
  /\ orphans \cap index = {}
  /\ ~migrated => orphans = {}
  /\ \A d \in orphans : d < Day(clock)
  /\ pc = "append" => \A d \in orphans : d < Day(now)
  /\ pc \in {"rmIndex", "rmBundle"} => day < Day(clock)

(* Without cuts inside a bundling: no line is written twice but by a        *)
(* repeated migration, only days that are indexed or whose removal was cut  *)
(* have files, and a stale day is one that the round at hand will still     *)
(* publish.                                                                 *)
StaleInv ==
  /\ ~migrated => captures \subseteq Legacy
  /\ \A t \in Times : lines[t] <= 1 \/ t \in Legacy
  /\ \A d \in jsons : d \in index \cup orphans \/ (pc = "rmIndex" /\ d = day)
  /\ \A d \in bundles :
       d \in index \cup orphans \/ (pc \in {"rmIndex", "rmBundle"} /\ d = day)
  /\ \A d \in Days : Stale(d) =>
       d \notin bundles \/ Trimmed(d) \/ (pc = "remove" /\ d = day)
  /\ pc \in {"bundle", "remove"} => ~Stale(Day(now))
  /\ adding /\ pc \in {"prune", "rmIndex", "rmBundle", "reprint"} =>
       \A d \in Days : Stale(d) => Trimmed(d)
  /\ adding /\ pc = "list" => \A d \in Days : ~Stale(d)
  /\ pc \in {"append", "publish", "bundle", "remove"} => adding
  /\ pc = "publish" => Day(now) \in index
  /\ ManifestMatches

-----------------------------------------------------------------------------
(* Days and instants. *)

LEMMA DayNat == \A t \in Nat : Day(t) \in Nat
  BY BoundAssumption DEF Day

LEMMA DayBounds == \A t \in Nat : Day(t) * Slots <= t /\ t < (Day(t) + 1) * Slots
  BY BoundAssumption DEF Day

LEMMA DayMonotone == ASSUME NEW t \in Nat, NEW u \in Nat, t <= u
                     PROVE  Day(t) <= Day(u)
<1>1. Day(t) * Slots <= t /\ u < (Day(u) + 1) * Slots
  BY DayBounds
<1>2. Day(t) * Slots < (Day(u) + 1) * Slots
  <2>1. Day(t) * Slots \in Nat /\ (Day(u) + 1) * Slots \in Nat
    BY DayNat, BoundAssumption
  <2> QED  BY <1>1, <2>1
<1>3. \A i, j \in Nat : i * Slots < j * Slots => i < j
  BY BoundAssumption
<1>4. Day(t) < Day(u) + 1
  BY <1>2, <1>3, DayNat
<1> QED  BY <1>4, DayNat

(* The instants of a behaviour lie in its days. *)
LEMMA DayInDays == \A t \in 0 .. MaxTime : Day(t) \in Days
  BY DayMonotone, DayNat, BoundAssumption DEF Days

LEMMA TimesInNat == Times \subseteq 0 .. MaxTime /\ Times \subseteq Nat
  BY BoundAssumption DEF Times

(* A day is expired only once its last instant is, and its first instant is *)
(* the first to expire.                                                     *)
LEMMA ExpiredAll == ASSUME NEW t \in Nat, NEW n \in Nat, clock \in Nat, Day(t) = n,
                           Expired(n)
                    PROVE  ~Live(t)
<1>1. t < (n + 1) * Slots
  BY DayBounds
<1>2. (n + 1) * Slots + Retention <= clock
  BY DEF Expired
<1>3. (n + 1) * Slots \in Nat
  BY BoundAssumption
<1> QED  BY <1>1, <1>2, <1>3, BoundAssumption DEF Live

LEMMA TrimmedFirst == ASSUME NEW t \in Nat, clock \in Nat, t + Retention < clock
                      PROVE  Trimmed(Day(t))
<1>1. Day(t) * Slots <= t /\ Day(t) * Slots \in Nat
  BY DayBounds, DayNat, BoundAssumption
<1> QED  BY <1>1, BoundAssumption DEF Trimmed

(* The number of lines of a file of lines is a number, and the number of    *)
(* snapshots it names if none is named twice.                               *)
LEMMA OfFinite == \A d : IsFiniteSet(Of(d)) /\ Of(d) \subseteq Times
<1>1. IsFiniteSet(Times)
  BY BoundAssumption, FS_Interval DEF Times
<1>2. \A d : Of(d) \in SUBSET Times
  BY DEF Of
<1> QED  BY <1>1, <1>2, FS_Subset

LEMMA LineCountNat == ASSUME lines \in [Times -> Nat], NEW d
                      PROVE  LineCount(d) \in Nat
<1> DEFINE Rows(t) == {t} \X (1 .. lines[t])
<1>1. \A t \in Of(d) : IsFiniteSet(Rows(t))
  <2> SUFFICES ASSUME NEW t \in Of(d) PROVE IsFiniteSet(Rows(t))
    OBVIOUS
  <2>1. lines[t] \in Nat
    BY OfFinite
  <2>2. IsFiniteSet(1 .. lines[t])
    BY <2>1, FS_Interval
  <2>3. IsFiniteSet({t})
    BY FS_Singleton
  <2> QED  BY <2>2, <2>3, FS_Product
<1>2. IsFiniteSet({Rows(t) : t \in Of(d)})
  <2> DEFINE S == Of(d)
             T == {Rows(t) : t \in S}
             f == [t \in S |-> Rows(t)]
  <2>1. f \in Surjection(S, T)
    <3> HIDE DEF Rows
    <3> QED  BY DEF Surjection
  <2>2. IsFiniteSet(S)
    BY OfFinite
  <2> HIDE DEF S, T, f
  <2>3. IsFiniteSet(T)
    BY <2>1, <2>2, FS_Surjection
  <2> QED  BY <2>3 DEF T, S
<1>3. IsFiniteSet(UNION {Rows(t) : t \in Of(d)})
  BY <1>1, <1>2, FS_UNION
<1> QED  BY <1>3, FS_CardinalityType DEF LineCount

LEMMA LineCountIs == ASSUME lines \in [Times -> Nat], NEW d,
                            \A t \in Of(d) : lines[t] <= 1
                     PROVE  LineCount(d) = Cardinality(Lines(d))
<1> DEFINE T == UNION {{t} \X (1 .. lines[t]) : t \in Of(d)}
           f == [t \in Lines(d) |-> <<t, 1>>]
<1>1. \A t \in Of(d) : lines[t] \in Nat /\ lines[t] <= 1
  BY OfFinite
<1>2. T = {<<t, 1>> : t \in Lines(d)}
  <2>1. \A t \in Of(d) : \A k : k \in 1 .. lines[t] <=> lines[t] > 0 /\ k = 1
    <3> SUFFICES ASSUME NEW t \in Of(d), NEW k
                 PROVE  k \in 1 .. lines[t] <=> lines[t] > 0 /\ k = 1
      OBVIOUS
    <3>1. lines[t] \in Nat /\ lines[t] <= 1
      BY <1>1
    <3> QED  BY <3>1
  <2>2. ASSUME NEW x \in T PROVE x \in {<<t, 1>> : t \in Lines(d)}
    <3>1. PICK t \in Of(d) : x \in {t} \X (1 .. lines[t])
      OBVIOUS
    <3>2. x[2] \in 1 .. lines[t] /\ x = <<t, x[2]>>
      BY <3>1
    <3>3. lines[t] > 0 /\ x = <<t, 1>>
      BY <2>1, <3>2
    <3> QED  BY <3>3 DEF Lines
  <2>3. ASSUME NEW t \in Lines(d) PROVE <<t, 1>> \in T
    <3>1. t \in Of(d) /\ lines[t] > 0
      BY DEF Lines
    <3>2. <<t, 1>> \in {t} \X (1 .. lines[t])
      BY <2>1, <3>1
    <3> QED  BY <3>1, <3>2
  <2> QED  BY <2>2, <2>3
<1>3. f \in Bijection(Lines(d), T)
  <2> DEFINE L == Lines(d)
             U == {<<t, 1>> : t \in L}
             g == [t \in L |-> <<t, 1>>]
  <2>1. g \in Bijection(L, U)
    <3> HIDE DEF L
    <3> QED  BY DEF Bijection, Injection, Surjection, IsInjective
  <2> QED  BY <2>1, <1>2
<1>4. IsFiniteSet(Lines(d))
  <2>1. Lines(d) \in SUBSET Of(d)
    BY DEF Lines
  <2> QED  BY <2>1, OfFinite, FS_Subset
<1> HIDE DEF T, f
<1>5. Cardinality(T) = Cardinality(Lines(d))
  BY <1>3, <1>4, FS_Bijection DEF ExistsBijection
<1> QED  BY <1>5 DEF T, LineCount

-----------------------------------------------------------------------------
(* The beginning. *)

LEMMA InvInit == Init => Inv
<1> SUFFICES ASSUME Init PROVE Inv
  OBVIOUS
<1>1. clock \in Times /\ now = clock - 1 /\ captures \subseteq Legacy
      /\ \A c \in Legacy : c < clock
  BY DEF Init
<1>2. now \in Nat /\ clock \in Nat /\ now < clock /\ captures \subseteq Times
      /\ \A t \in captures : t <= now
  BY <1>1, LegacyAssumption, TimesInNat DEF Times
<1>3. 0 \in Days
  BY BoundAssumption, DayNat DEF Days
<1>4. lines \in [Times -> Nat] /\ \A t \in Times : lines[t] = 0
  BY DEF Init
<1>5. TypeInv
  BY <1>1, <1>2, <1>3, <1>4 DEF Init, TypeInv, Steps
<1>6. TimeInv
  BY <1>2, <1>4 DEF Init, TimeInv
<1>7. LineInv /\ BundleInv /\ ListedInv
  BY <1>4 DEF Init, LineInv, BundleInv, ListedInv, BodiesKept, BundleHoldsDay
<1> QED  BY <1>5, <1>6, <1>7 DEF Inv

-----------------------------------------------------------------------------
(* The steps.  The part of Inv each step could break comes one at a time.   *)

(* A publication keeps the types of what it writes. *)
LEMMA PublishTypes == ASSUME TypeInv, NEW D \in SUBSET Days, PublishDays(D)
                      PROVE  /\ jsons' \subseteq Days /\ named' \subseteq Days
                             /\ listed' \subseteq Times
  BY DEF TypeInv, PublishDays

(* A fault is counted. *)
LEMMA FaultCounts == ASSUME faults \in Nat, NEW kind, Fault(kind)
                     PROVE  faults' \in Nat /\ kind \in Faults
  BY DEF Fault

(* What a cut in the migration leaves keeps its types. *)
LEMMA CutTypes == ASSUME TypeInv, MigrationCut, \A t \in Times : Day(t) \in Days
                  PROVE  /\ lines' \in [Times -> Nat] /\ index' \subseteq Days
                         /\ jsons' \subseteq Days /\ named' \subseteq Days
                         /\ listed' \subseteq Times
<1> USE DEF TypeInv
<1>1. ASSUME NEW S \in SUBSET captures,
             lines' = [t \in Times |-> IF t \in S THEN lines[t] + 1 ELSE lines[t]],
             index' = index \cup {Day(t) : t \in S}, UNCHANGED published
      PROVE  /\ lines' \in [Times -> Nat] /\ index' \subseteq Days
             /\ jsons' \subseteq Days /\ named' \subseteq Days
             /\ listed' \subseteq Times
  BY <1>1 DEF published
<1>2. ASSUME NEW D \in SUBSET index, PublishDays(D), UNCHANGED lined
      PROVE  /\ lines' \in [Times -> Nat] /\ index' \subseteq Days
             /\ jsons' \subseteq Days /\ named' \subseteq Days
             /\ listed' \subseteq Times
  <2>1. D \in SUBSET Days
    OBVIOUS
  <2> QED  BY <1>2, <2>1, PublishTypes DEF lined
<1> QED  BY <1>1, <1>2 DEF MigrationCut

(* What such a cut may do: append lines of captures that are there, publish *)
(* what the lines say, before anything is bundled.                          *)
LEMMA CutEffect ==
  ASSUME Inv, MigrationCut
  PROVE  /\ pc' = "off" /\ settled' = FALSE /\ ~migrated
         /\ bundles = {} /\ named' \subseteq bundles
         /\ UNCHANGED <<clock, captures, bundles, inBundle, manifest, migrated,
                        now, day, adding, orphans>>
         /\ \A t \in Times : lines[t] > 0 => lines'[t] > 0
         /\ \A t \in Times : lines'[t] > 0 => lines[t] > 0 \/ t \in captures
         /\ \A t \in Times : lines'[t] = lines[t] \/ t \in captures
         /\ \A t \in Times : lines'[t] > 0 => Day(t) \in index'
         /\ index \subseteq index'
         /\ \A d \in index' : d \in index \/ \E t \in captures : d = Day(t)
         /\ \A d \in jsons' : d \in jsons \/ d \in index'
         /\ \A t \in listed' : t \in listed \/ lines'[t] > 0
<1>a. TypeInv /\ LineInv /\ BundleInv
  BY DEF Inv
<1>1. /\ pc' = "off" /\ settled' = FALSE /\ pc \in {"rebuild", "publishAll"}
      /\ UNCHANGED <<clock, captures, bundles, inBundle, manifest, migrated,
                     now, day, adding, orphans>>
  BY DEF MigrationCut, bundled
<1>2. ~migrated /\ bundles = {} /\ named = {}
  BY <1>1, <1>a DEF LineInv, BundleInv
<1>3. ASSUME NEW S \in SUBSET captures,
             lines' = [t \in Times |-> IF t \in S THEN lines[t] + 1 ELSE lines[t]],
             index' = index \cup {Day(t) : t \in S}, UNCHANGED published
      PROVE  /\ \A t \in Times : lines[t] > 0 => lines'[t] > 0
             /\ \A t \in Times : lines'[t] > 0 => lines[t] > 0 \/ t \in captures
             /\ \A t \in Times : lines'[t] = lines[t] \/ t \in captures
             /\ \A t \in Times : lines'[t] > 0 => Day(t) \in index'
             /\ index \subseteq index'
             /\ \A d \in index' : d \in index \/ \E t \in captures : d = Day(t)
             /\ \A d \in jsons' : d \in jsons \/ d \in index'
             /\ \A t \in listed' : t \in listed \/ lines'[t] > 0
             /\ named' \subseteq bundles
  <2>1. \A t \in Times : lines[t] \in Nat
    BY <1>a DEF TypeInv
  <2>2. \A t \in Times : lines'[t] = IF t \in S THEN lines[t] + 1 ELSE lines[t]
    BY <1>3
  <2>3. \A t \in Times : lines'[t] > 0 => lines[t] > 0 \/ t \in S
    BY <2>2
  <2>4. \A t \in Times : lines'[t] > 0 => Day(t) \in index'
    BY <1>3, <1>a, <2>3 DEF LineInv
  <2>5. \A t \in Times : lines[t] > 0 => lines'[t] > 0
    BY <2>1, <2>2
  <2>6. \A d \in index' : d \in index \/ \E t \in captures : d = Day(t)
    BY <1>3
  <2> QED  BY <1>2, <1>3, <2>2, <2>3, <2>4, <2>5, <2>6 DEF published
<1>4. ASSUME NEW D \in SUBSET index, PublishDays(D), UNCHANGED lined
      PROVE  /\ UNCHANGED <<lines, index>>
             /\ \A d \in jsons' : d \in jsons \/ d \in index
             /\ \A t \in listed' : t \in listed \/ lines[t] > 0
             /\ named' \subseteq bundles
  BY <1>2, <1>4 DEF PublishDays, lined
<1>5. \A t \in Times : lines[t] > 0 => Day(t) \in index
  BY <1>a DEF LineInv
<1> QED  BY <1>1, <1>2, <1>3, <1>4, <1>5 DEF MigrationCut

LEMMA TypeStep == Inv /\ [Next]_vars => TypeInv'
<1> USE DEF TypeInv, Steps, cuts
<1> SUFFICES ASSUME Inv, [Next]_vars PROVE TypeInv'
  OBVIOUS
<1>a. TypeInv
  BY DEF Inv
<1>b. clock \in Nat /\ now \in Nat /\ MaxTime \in Nat
  BY <1>a, BoundAssumption, TimesInNat
<1>c. pc # "off" => now \in Times /\ Day(now) \in Days
  BY DayInDays, TimesInNat DEF Inv, TimeInv
<1>d. \A t \in Times : Day(t) \in Days
  BY DayInDays, TimesInNat
<1>1. CASE Boot
  BY <1>1, <1>a, <1>b DEF Boot, disk, lined, bundled, published
<1>2. CASE RebuildAppend
  <2>1. lines' \in [Times -> Nat]
    BY <1>2, <1>a DEF RebuildAppend
  <2>2. index' \subseteq Days
    BY <1>2, <1>a, <1>d DEF RebuildAppend
  <2> QED  BY <1>2, <1>a, <2>1, <2>2 DEF RebuildAppend, lined, bundled, published
<1>3. CASE RebuildPublish
  <2>1. /\ jsons' \subseteq Days /\ named' \subseteq Days /\ listed' \subseteq Times
    BY <1>3, <1>a, PublishTypes DEF RebuildPublish
  <2> QED  BY <1>3, <1>a, <2>1 DEF RebuildPublish, lined, bundled
<1>4. CASE Sleep
  BY <1>4, <1>a DEF Sleep, vars
<1>5. CASE Collect
  BY <1>5, <1>a, <1>b DEF Collect, lined, bundled, published
<1>6. CASE Append
  <2>1. lines' \in [Times -> Nat]
    <3>1. [lines EXCEPT ![now] = @ + 1] \in [Times -> Nat]
      BY <1>6, <1>a, <1>c DEF Append
    <3>2. lines' = lines \/ lines' = [lines EXCEPT ![now] = @ + 1]
      BY <1>6 DEF Append
    <3> QED  BY <3>1, <3>2, <1>a
  <2>2. index' \subseteq Days
    BY <1>6, <1>a, <1>c DEF Append
  <2> QED  BY <1>6, <1>a, <2>1, <2>2 DEF Append, bundled, published
<1>7. CASE Publish
  <2>1. {Day(now)} \in SUBSET Days
    BY <1>7, <1>c DEF Publish
  <2>2. /\ jsons' \subseteq Days /\ named' \subseteq Days /\ listed' \subseteq Times
    BY <1>7, <1>a, <2>1, PublishTypes DEF Publish
  <2> QED  BY <1>7, <1>a, <2>2 DEF Publish, lined, bundled
<1>8. CASE Bundle
  BY <1>8, <1>a DEF Bundle, Bundleable, lined, published
<1>9. CASE Remove
  BY <1>9, <1>a DEF Remove, lined, bundled, published
<1>10. CASE Republish
  <2>1. {day} \in SUBSET Days
    BY <1>a
  <2>2. /\ jsons' \subseteq Days /\ named' \subseteq Days /\ listed' \subseteq Times
    BY <1>10, <1>a, <2>1, PublishTypes DEF Republish
  <2> QED  BY <1>10, <1>a, <2>2 DEF Republish, lined, bundled
<1>11. CASE BundlesDone
  BY <1>11, <1>a DEF BundlesDone, disk, lined, bundled, published
<1>12. CASE PruneDay
  <2>1. PICK d \in index : /\ index' = index \ {d} /\ day' = d
                           /\ lines' = [t \in Times |-> IF Day(t) = d THEN 0 ELSE lines[t]]
    BY <1>12 DEF PruneDay
  <2>2. lines' \in [Times -> Nat]
    BY <2>1, <1>a
  <2> QED  BY <1>12, <1>a, <2>1, <2>2 DEF PruneDay, bundled, published
<1>13. CASE UnlinkIndex
  BY <1>13, <1>a DEF UnlinkIndex, lined, bundled
<1>14. CASE UnlinkBundle
  BY <1>14, <1>a DEF UnlinkBundle, lined, published
<1>15. CASE PruneLines
  <2>1. lines' \in [Times -> Nat]
    BY <1>15, <1>a DEF PruneLines
  <2> QED  BY <1>15, <1>a, <2>1 DEF PruneLines, bundled, published
<1>16. CASE PublishPruned
  <2>1. {d \in index : d * Slots + Retention < clock} \in SUBSET Days
    BY <1>a
  <2>2. /\ jsons' \subseteq Days /\ named' \subseteq Days /\ listed' \subseteq Times
    BY <1>16, <1>a, <2>1, PublishTypes DEF PublishPruned
  <2> QED  BY <1>16, <1>a, <2>2 DEF PublishPruned, lined, bundled
<1>17. CASE List
  <2>1. \A d : LineCount(d) \in Nat
    BY <1>a, LineCountNat
  <2>2. manifest' \subseteq [day : Days, count : Nat]
    BY <1>17, <1>a, <2>1 DEF List
  <2> QED  BY <1>17, <1>a, <2>2 DEF List, lined, bundled, published
<1>18. CASE Sweep
  BY <1>18, <1>a DEF Sweep, lined, bundled, published
<1>19. CASE CollectFails
  <2>1. faults' \in Nat
    BY <1>19, <1>a, FaultCounts DEF CollectFails
  <2> QED  BY <1>19, <1>a, <1>b, <2>1 DEF CollectFails, disk, lined, bundled, published
<1>20. CASE PowerCut
  <2>1. faults' \in Nat
    BY <1>20, <1>a, FaultCounts DEF PowerCut
  <2>2. pc' = "off" /\ settled' = FALSE /\ UNCHANGED <<clock, disk, now, day, adding>>
    BY <1>20 DEF PowerCut
  <2>3. orphans' \subseteq Days
    BY <1>20, <1>a DEF PowerCut
  <2> QED  BY <2>2, <1>a, <2>1, <2>3 DEF disk, lined, bundled, published
<1>21. CASE Tick
  <2>1. clock' \in Times
    BY <1>21, <1>a, BoundAssumption DEF Tick, Times
  <2> QED  BY <1>21, <1>a, <2>1 DEF Tick, disk, lined, bundled, published
<1>22. CASE UNCHANGED vars
  BY <1>22, <1>a DEF vars, disk, lined, bundled, published
<1>23. CASE MigrationCut
  <2>1. /\ lines' \in [Times -> Nat] /\ index' \subseteq Days
        /\ jsons' \subseteq Days /\ named' \subseteq Days /\ listed' \subseteq Times
    BY <1>23, <1>a, <1>d, CutTypes
  <2>2. faults' \in Nat
    BY <1>23, <1>a, FaultCounts DEF MigrationCut
  <2> QED  BY <1>23, <1>a, <2>1, <2>2 DEF MigrationCut, bundled
<1> QED
  BY <1>1, <1>2, <1>3, <1>4, <1>5, <1>6, <1>7, <1>8, <1>9, <1>10, <1>11,
     <1>12, <1>13, <1>14, <1>15, <1>16, <1>17, <1>18, <1>19, <1>20, <1>21, <1>22,
     <1>23 DEF Next, Loop

(* A step that only forgets leaves the past behind the loop. *)
LEMMA TimeShrinks == ASSUME TimeInv, UNCHANGED <<now, clock>>, pc' # "off" => pc # "off",
                            captures' \subseteq captures, index' \subseteq index,
                            bundles' \subseteq bundles,
                            \A t \in Times : lines'[t] > 0 => lines[t] > 0
                     PROVE  TimeInv'
  BY DEF TimeInv

(* The loop reads the clock. *)
LEMMA NowReads == ASSUME Inv, now' = clock, clock' = clock
                  PROVE  /\ now' <= clock' /\ now' \in Times
                         /\ \A t \in captures : t <= now'
                         /\ \A t \in Times : lines[t] > 0 => t <= now'
                         /\ \A d \in index : d <= Day(now')
                         /\ \A d \in bundles : d < Day(now')
<1>1. now <= clock /\ now \in Nat /\ clock \in Times /\ clock \in Nat
      /\ captures \subseteq Times /\ index \subseteq Nat /\ bundles \subseteq Nat
  BY TimesInNat DEF Inv, TypeInv, TimeInv, Days
<1>2. Day(now) <= Day(clock) /\ Day(now) \in Nat /\ Day(clock) \in Nat
  BY <1>1, DayMonotone, DayNat
<1>3. /\ \A t \in captures : t <= clock
      /\ \A t \in Times : lines[t] > 0 => t <= clock
  BY <1>1, TimesInNat DEF Inv, TimeInv
<1>4. /\ \A d \in index : d <= Day(clock)
      /\ \A d \in bundles : d < Day(clock)
  BY <1>1, <1>2 DEF Inv, TimeInv
<1> QED  BY <1>1, <1>3, <1>4

LEMMA TimeStep == Inv /\ [Next]_vars => TimeInv'
<1> SUFFICES ASSUME Inv, [Next]_vars PROVE TimeInv'
  OBVIOUS
<1>a. TypeInv /\ TimeInv
  BY DEF Inv
<1>b. clock \in Nat /\ now \in Nat /\ now <= clock /\ index \subseteq Nat
      /\ bundles \subseteq Nat /\ captures \subseteq Nat /\ Times \subseteq Nat
  BY <1>a, TimesInNat DEF TypeInv, TimeInv, Days
<1>c. \A t \in Nat : t <= now => Day(t) <= Day(now)
  BY <1>b, DayMonotone
<1>d. \A t \in Times : lines[t] \in Nat
  BY <1>a DEF TypeInv
<1>1. CASE Boot
  BY <1>1, NowReads DEF Boot, TimeInv, disk, lined, bundled
<1>2. CASE RebuildAppend
  <2>1. \A t \in Times : lines'[t] > 0 => lines[t] > 0 \/ t \in captures
    BY <1>2, <1>d DEF RebuildAppend
  <2>2. \A t \in Times : lines'[t] > 0 => t <= now
    BY <1>a, <2>1 DEF TimeInv
  <2>3. \A d \in index' : d <= Day(now)
    BY <1>2, <1>a, <1>b, <1>c DEF RebuildAppend, TimeInv
  <2> QED  BY <1>2, <1>a, <2>2, <2>3 DEF RebuildAppend, TimeInv, bundled
<1>3. CASE RebuildPublish
  BY <1>3, <1>a, TimeShrinks DEF RebuildPublish, lined, bundled
<1>4. CASE Sleep
  BY <1>4, <1>a, TimeShrinks DEF Sleep, vars
<1>5. CASE Collect
  <2>1. captures' = captures \cup {clock} /\ now' = clock /\ clock' = clock
        /\ UNCHANGED <<lines, index, bundles>> /\ pc' = "append"
    BY <1>5 DEF Collect, lined, bundled
  <2>2. \A t \in captures' : t <= now'
    BY <2>1, <1>b, NowReads
  <2> QED  BY <2>1, <2>2, NowReads DEF TimeInv
<1>6. CASE Append
  <2>1. now \in Times
    BY <1>6, <1>a DEF Append, TimeInv
  <2>2. lines' = lines \/ lines' = [lines EXCEPT ![now] = @ + 1]
    BY <1>6 DEF Append
  <2>3. \A t \in Times : lines'[t] > 0 => lines[t] > 0 \/ t = now
    BY <2>2, <1>a DEF TypeInv
  <2>4. \A t \in Times : lines'[t] > 0 => t <= now
    BY <1>a, <1>b, <2>3 DEF TimeInv
  <2>5. \A d \in index' : d <= Day(now)
    BY <1>6, <1>a, <1>b, <1>c DEF Append, TimeInv
  <2> QED  BY <1>6, <1>a, <2>1, <2>4, <2>5 DEF Append, TimeInv, bundled
<1>7. CASE Publish
  BY <1>7, <1>a, TimeShrinks DEF Publish, lined, bundled
<1>8. CASE Bundle
  <2>1. PICK d \in Bundleable : bundles' = bundles \cup {d}
    BY <1>8 DEF Bundle
  <2>2. d < Day(now)
    BY <2>1 DEF Bundleable
  <2> QED  BY <1>8, <1>a, <2>1, <2>2 DEF Bundle, TimeInv, lined
<1>9. CASE Remove
  BY <1>9, <1>a, TimeShrinks DEF Remove, lined, bundled
<1>10. CASE Republish
  BY <1>10, <1>a, TimeShrinks DEF Republish, lined, bundled
<1>11. CASE BundlesDone
  BY <1>11, <1>a, TimeShrinks DEF BundlesDone, disk, lined, bundled
<1>12. CASE PruneDay
  <2>1. PICK d \in index : /\ index' = index \ {d}
                           /\ lines' = [t \in Times |-> IF Day(t) = d THEN 0 ELSE lines[t]]
    BY <1>12 DEF PruneDay
  <2>2. \A t \in Times : lines'[t] > 0 => lines[t] > 0
    BY <2>1
  <2> QED  BY <1>12, <1>a, <2>1, <2>2, TimeShrinks DEF PruneDay, bundled
<1>13. CASE UnlinkIndex
  BY <1>13, <1>a, TimeShrinks DEF UnlinkIndex, lined, bundled
<1>14. CASE UnlinkBundle
  BY <1>14, <1>a, TimeShrinks DEF UnlinkBundle, lined
<1>15. CASE PruneLines
  <2>1. \A t \in Times : lines'[t] > 0 => lines[t] > 0
    BY <1>15 DEF PruneLines
  <2> QED  BY <1>15, <1>a, <2>1, TimeShrinks DEF PruneLines, bundled
<1>16. CASE PublishPruned
  BY <1>16, <1>a, TimeShrinks DEF PublishPruned, lined, bundled
<1>17. CASE List
  BY <1>17, <1>a, TimeShrinks DEF List, lined, bundled
<1>18. CASE Sweep
  BY <1>18, <1>a, TimeShrinks DEF Sweep, lined, bundled
<1>19. CASE CollectFails
  BY <1>19, NowReads DEF CollectFails, TimeInv, disk, lined, bundled
<1>20. CASE PowerCut
  BY <1>20, <1>a, TimeShrinks DEF PowerCut, disk, lined, bundled
<1>21. CASE Tick
  <2>1. clock' = clock + 1 /\ UNCHANGED <<now, pc, captures, lines, index, bundles>>
    BY <1>21 DEF Tick, disk, lined, bundled
  <2>2. now' <= clock'
    BY <2>1, <1>b
  <2> QED  BY <1>a, <2>1, <2>2 DEF TimeInv
<1>22. CASE UNCHANGED vars
  BY <1>22, <1>a, TimeShrinks DEF vars, lined, bundled
<1>23. CASE MigrationCut
  <2>1. \A t \in Times : lines'[t] > 0 => t <= now
    BY <1>23, <1>a, CutEffect DEF TimeInv
  <2>2. \A d \in index' : d <= Day(now)
    BY <1>23, <1>a, <1>b, <1>c, CutEffect DEF TimeInv
  <2> QED  BY <1>23, <1>a, <2>1, <2>2, CutEffect DEF TimeInv
<1> QED
  BY <1>1, <1>2, <1>3, <1>4, <1>5, <1>6, <1>7, <1>8, <1>9, <1>10, <1>11,
     <1>12, <1>13, <1>14, <1>15, <1>16, <1>17, <1>18, <1>19, <1>20, <1>21, <1>22,
     <1>23 DEF Next, Loop

LEMMA LineStep == Inv /\ [Next]_vars => LineInv'
<1> SUFFICES ASSUME Inv, [Next]_vars PROVE LineInv'
  OBVIOUS
<1> USE DEF LineInv
<1>a. TypeInv /\ LineInv
  BY DEF Inv
<1>1. CASE Boot
  BY <1>1, <1>a DEF Boot, disk, lined, bundled, published
<1>2. CASE RebuildAppend
  <2>1. \A t \in Times : lines'[t] > 0 => lines[t] > 0 \/ t \in captures
    BY <1>2, <1>a DEF RebuildAppend, TypeInv
  <2>2. \A t \in Times : lines'[t] > 0 => Day(t) \in index'
    BY <1>2, <1>a, <2>1 DEF RebuildAppend
  <2> QED  BY <1>2, <1>a, <2>2 DEF RebuildAppend, bundled
<1>3. CASE RebuildPublish
  BY <1>3, <1>a DEF RebuildPublish, lined, bundled
<1>4. CASE Sleep
  BY <1>4, <1>a DEF Sleep, vars
<1>5. CASE Collect
  BY <1>5, <1>a DEF Collect, lined, bundled, published
<1>6. CASE Append
  <2>1. lines' = lines \/ lines' = [lines EXCEPT ![now] = @ + 1]
    BY <1>6 DEF Append
  <2>2. \A t \in Times : lines'[t] > 0 => lines[t] > 0 \/ t = now
    BY <2>1, <1>a DEF TypeInv
  <2>3. \A t \in Times : lines'[t] > 0 => Day(t) \in index'
    BY <1>6, <1>a, <2>2 DEF Append
  <2> QED  BY <1>6, <1>a, <2>3 DEF Append, bundled, published
<1>7. CASE Publish
  BY <1>7, <1>a DEF Publish, lined, bundled
<1>8. CASE Bundle
  BY <1>8, <1>a DEF Bundle, lined, published
<1>9. CASE Remove
  BY <1>9, <1>a DEF Remove, lined, bundled, published
<1>10. CASE Republish
  BY <1>10, <1>a DEF Republish, lined, bundled
<1>11. CASE BundlesDone
  BY <1>11, <1>a DEF BundlesDone, disk, lined, bundled, published
<1>12. CASE PruneDay
  <2>1. PICK d \in index : /\ index' = index \ {d} /\ day' = d
                           /\ lines' = [t \in Times |-> IF Day(t) = d THEN 0 ELSE lines[t]]
    BY <1>12 DEF PruneDay
  <2>2. \A t \in Times : lines'[t] > 0 => lines[t] > 0 /\ Day(t) # d
    BY <2>1
  <2>3. \A t \in Times : lines'[t] > 0 => Day(t) \in index'
    BY <2>1, <2>2, <1>a
  <2> QED  BY <1>12, <1>a, <2>1, <2>3 DEF PruneDay, bundled, published
<1>13. CASE UnlinkIndex
  BY <1>13, <1>a DEF UnlinkIndex, lined, bundled
<1>14. CASE UnlinkBundle
  BY <1>14, <1>a DEF UnlinkBundle, lined, published
<1>15. CASE PruneLines
  <2>1. \A t \in Times : lines'[t] > 0 => lines[t] > 0
    BY <1>15 DEF PruneLines
  <2> QED  BY <1>15, <1>a, <2>1 DEF PruneLines, bundled, published
<1>16. CASE PublishPruned
  BY <1>16, <1>a DEF PublishPruned, lined, bundled
<1>17. CASE List
  BY <1>17, <1>a DEF List, lined, bundled, published
<1>18. CASE Sweep
  BY <1>18, <1>a DEF Sweep, lined, bundled, published
<1>19. CASE CollectFails
  BY <1>19, <1>a DEF CollectFails, disk, lined, bundled, published
<1>20. CASE PowerCut
  BY <1>20, <1>a DEF PowerCut, disk, lined, bundled, published
<1>21. CASE Tick
  BY <1>21, <1>a DEF Tick, disk, lined, bundled, published
<1>22. CASE UNCHANGED vars
  BY <1>22, <1>a DEF vars, lined, bundled, published
<1>23. CASE MigrationCut
  BY <1>23, <1>a, CutEffect
<1> QED
  BY <1>1, <1>2, <1>3, <1>4, <1>5, <1>6, <1>7, <1>8, <1>9, <1>10, <1>11,
     <1>12, <1>13, <1>14, <1>15, <1>16, <1>17, <1>18, <1>19, <1>20, <1>21, <1>22,
     <1>23 DEF Next, Loop

(* What has expired stays expired. *)
LEMMA LiveShrinks == Inv /\ [Next]_vars => \A t \in Times : Live(t)' => Live(t)
<1> SUFFICES ASSUME Inv, [Next]_vars PROVE \A t \in Times : Live(t)' => Live(t)
  OBVIOUS
<1>1. clock' = clock \/ clock' = clock + 1
  BY DEF Next, Loop, Boot, RebuildAppend, RebuildPublish, Sleep, Collect, Append, Publish,
         Bundle, Remove, Republish, BundlesDone, PruneDay, UnlinkIndex, UnlinkBundle,
         PruneLines, PublishPruned, List, Sweep, CollectFails, MigrationCut,
         PowerCut, Tick, vars
<1>2. clock \in Nat /\ Times \subseteq Nat
  BY TimesInNat DEF Inv, TypeInv
<1> QED  BY <1>1, <1>2, BoundAssumption DEF Live

(* The bundles of a step that writes neither lines nor bundles and removes  *)
(* no capture. *)
LEMMA BundleKeeps == ASSUME Inv, UNCHANGED <<lines, index, bundles, inBundle, day>>,
                            captures \subseteq captures', named' \subseteq bundles,
                            pc' = "remove" => pc = "remove",
                            \A t \in Times : Live(t)' => Live(t)
                     PROVE  BundleInv'
<1>1. BundleInv
  BY DEF Inv
<1>2. \A d : Lines(d)' = Lines(d)
  BY DEF Lines, Of
<1>3. BundleHoldsDay'
  BY <1>1, <1>2 DEF BundleInv, BundleHoldsDay
<1>4. BodiesKept'
  BY <1>1 DEF BundleInv, BodiesKept
<1> QED  BY <1>1, <1>3, <1>4 DEF BundleInv

(* A publication names the bundles that are there. *)
LEMMA PublishNames == ASSUME Inv, NEW D, PublishDays(D)
                      PROVE  named' \subseteq bundles
  BY DEF Inv, BundleInv, PublishDays

LEMMA BundleStep == Inv /\ [Next]_vars => BundleInv'
<1> SUFFICES ASSUME Inv, [Next]_vars PROVE BundleInv'
  OBVIOUS
<1>a. TypeInv /\ TimeInv /\ LineInv /\ BundleInv
  BY DEF Inv
<1>n. named \subseteq bundles
  BY <1>a DEF BundleInv
<1>l. \A t \in Times : Live(t)' => Live(t)
  BY LiveShrinks
<1>1. CASE Boot
  BY <1>1, <1>n, <1>l, BundleKeeps DEF Boot, disk, lined, bundled, published
<1>2. CASE RebuildAppend
  <2>1. bundles = {} /\ bundles' = {} /\ inBundle' = inBundle /\ named' = named
        /\ captures' = captures /\ pc' # "remove"
    BY <1>2, <1>a DEF RebuildAppend, LineInv, bundled, published
  <2>2. \A t \in Times : lines'[t] > 0 => lines[t] > 0 \/ t \in captures
    BY <1>2, <1>a DEF RebuildAppend, TypeInv
  <2>3. BodiesKept'
    BY <1>a, <1>l, <2>1, <2>2 DEF BundleInv, BodiesKept
  <2>4. BundleHoldsDay'
    BY <2>1 DEF BundleHoldsDay
  <2> QED  BY <1>a, <2>1, <2>3, <2>4 DEF BundleInv
<1>3. CASE RebuildPublish
  BY <1>3, <1>l, PublishNames, BundleKeeps DEF RebuildPublish, lined, bundled
<1>4. CASE Sleep
  BY <1>4, <1>n, <1>l, BundleKeeps DEF Sleep, vars
<1>5. CASE Collect
  BY <1>5, <1>n, <1>l, BundleKeeps DEF Collect, lined, bundled, published
<1>6. CASE Append
  <2>1. /\ UNCHANGED <<captures, bundles, inBundle, named>> /\ pc' = "publish"
        /\ now \in captures /\ now \in Times /\ index' = index \cup {Day(now)}
        /\ lines' = lines \/ lines' = [lines EXCEPT ![now] = @ + 1]
    BY <1>6, <1>a DEF Append, LineInv, TypeInv, bundled, published
  <2>2. \A t \in Times : lines'[t] > 0 => lines[t] > 0 \/ t = now
    BY <2>1, <1>a DEF TypeInv
  <2>3. BodiesKept'
    BY <1>a, <1>l, <2>1, <2>2 DEF BundleInv, BodiesKept
  <2>4. Day(now) \notin bundles
    <3>1. Day(now) \in Nat /\ \A d \in bundles : d < Day(now)
      BY <1>a, <2>1, DayNat, TimesInNat DEF TimeInv
    <3> QED  BY <3>1
  <2>5. \A d \in bundles : Lines(d)' \subseteq Lines(d)
    BY <2>2, <2>4 DEF Lines, Of
  <2>6. BundleHoldsDay'
    BY <1>a, <2>1, <2>4, <2>5 DEF BundleInv, BundleHoldsDay
  <2> QED  BY <1>a, <2>1, <2>3, <2>6 DEF BundleInv
<1>7. CASE Publish
  BY <1>7, <1>l, PublishNames, BundleKeeps DEF Publish, lined, bundled
<1>8. CASE Bundle
  <2>1. PICK d \in Bundleable : /\ bundles' = bundles \cup {d} /\ day' = d
                                /\ inBundle' = inBundle \cup (Lines(d) \cap captures)
    BY <1>8 DEF Bundle
  <2>2. d \in index /\ Lines(d) \subseteq captures
    BY <2>1 DEF Bundleable, Complete
  <2>3. UNCHANGED <<captures, lines, index, named>> /\ pc' = "remove"
    BY <1>8 DEF Bundle, lined, published
  <2>4. \A t \in inBundle' : Day(t) \in bundles'
    BY <2>1, <1>a DEF BundleInv, Lines, Of
  <2>5. \A e : Lines(e)' = Lines(e)
    BY <2>3 DEF Lines, Of
  <2>6. BundleHoldsDay'
    BY <1>a, <2>1, <2>2, <2>3, <2>5 DEF BundleInv, BundleHoldsDay
  <2>7. BodiesKept'
    BY <1>a, <1>l, <2>1, <2>3 DEF BundleInv, BodiesKept
  <2> QED  BY <1>a, <2>1, <2>2, <2>3, <2>4, <2>6, <2>7 DEF BundleInv
<1>9. CASE Remove
  <2>1. PICK t \in Lines(day) \cap captures : captures' = captures \ {t}
    BY <1>9 DEF Remove
  <2>2. UNCHANGED <<lines, index, bundles, inBundle, named, day, pc>>
    BY <1>9 DEF Remove, lined, bundled, published
  <2>3. Lines(day) \subseteq inBundle
    BY <1>9, <1>a DEF Remove, BundleInv, BundleHoldsDay
  <2>4. BodiesKept'
    BY <1>a, <1>l, <2>1, <2>2, <2>3 DEF BundleInv, BodiesKept
  <2>5. \A e : Lines(e)' = Lines(e)
    BY <2>2 DEF Lines, Of
  <2>6. BundleHoldsDay'
    BY <1>a, <2>2, <2>5 DEF BundleInv, BundleHoldsDay
  <2> QED  BY <1>a, <2>2, <2>4, <2>6 DEF BundleInv
<1>10. CASE Republish
  BY <1>10, <1>l, PublishNames, BundleKeeps DEF Republish, lined, bundled
<1>11. CASE BundlesDone
  BY <1>11, <1>n, <1>l, BundleKeeps DEF BundlesDone, disk, lined, bundled, published
<1>12. CASE PruneDay
  <2>1. PICK d \in index : /\ index' = index \ {d}
                           /\ lines' = [t \in Times |-> IF Day(t) = d THEN 0 ELSE lines[t]]
    BY <1>12 DEF PruneDay
  <2>2. \A t \in Times : lines'[t] > 0 => lines[t] > 0
    BY <2>1
  <2>3. UNCHANGED <<captures, bundles, inBundle, named>> /\ pc' = "rmIndex"
    BY <1>12 DEF PruneDay, bundled, published
  <2>4. BodiesKept'
    BY <1>a, <1>l, <2>2, <2>3 DEF BundleInv, BodiesKept
  <2>5. \A e : Lines(e)' \subseteq Lines(e)
    BY <2>2 DEF Lines, Of
  <2>6. BundleHoldsDay'
    BY <1>a, <2>1, <2>3, <2>5 DEF BundleInv, BundleHoldsDay
  <2> QED  BY <1>a, <2>3, <2>4, <2>6 DEF BundleInv
<1>13. CASE UnlinkIndex
  BY <1>13, <1>n, <1>l, BundleKeeps DEF UnlinkIndex, lined, bundled
<1>14. CASE UnlinkBundle
  <2>1. /\ bundles' = bundles \ {day} /\ inBundle' = inBundle \ Of(day) /\ pc' = "prune"
        /\ UNCHANGED <<captures, lines, index, named>> /\ pc = "rmBundle"
    BY <1>14 DEF UnlinkBundle, lined, published
  <2>2. day \notin index /\ day \notin named
    BY <2>1, <1>a DEF LineInv
  <2>3. \A t \in Times : lines[t] > 0 => t \notin Of(day)
    BY <2>2, <1>a DEF LineInv, Of
  <2>4. BodiesKept'
    BY <1>a, <1>l, <2>1, <2>3 DEF BundleInv, BodiesKept
  <2>5. \A e \in index : Lines(e)' = Lines(e) /\ Lines(e) \cap Of(day) = {}
    BY <2>1, <2>2 DEF Lines, Of
  <2>6. BundleHoldsDay'
    BY <1>a, <2>1, <2>5 DEF BundleInv, BundleHoldsDay
  <2>7. \A t \in inBundle' : Day(t) \in bundles'
    BY <1>a, <2>1 DEF BundleInv, Of, TypeInv
  <2> QED  BY <1>a, <2>1, <2>2, <2>4, <2>6, <2>7 DEF BundleInv
<1>15. CASE PruneLines
  <2>1. \A t \in Times : lines'[t] > 0 => lines[t] > 0
    BY <1>15 DEF PruneLines
  <2>2. UNCHANGED <<captures, index, bundles, inBundle, named>> /\ pc' = "reprint"
    BY <1>15 DEF PruneLines, bundled, published
  <2>3. BodiesKept'
    BY <1>a, <1>l, <2>1, <2>2 DEF BundleInv, BodiesKept
  <2>4. \A e : Lines(e)' \subseteq Lines(e)
    BY <2>1 DEF Lines, Of
  <2>5. BundleHoldsDay'
    BY <1>a, <2>2, <2>4 DEF BundleInv, BundleHoldsDay
  <2> QED  BY <1>a, <2>2, <2>3, <2>5 DEF BundleInv
<1>16. CASE PublishPruned
  BY <1>16, <1>l, PublishNames, BundleKeeps DEF PublishPruned, lined, bundled
<1>17. CASE List
  BY <1>17, <1>n, <1>l, BundleKeeps DEF List, lined, bundled, published
<1>18. CASE Sweep
  <2>1. captures' = {t \in captures : Live(t)} /\ pc' = "idle"
        /\ UNCHANGED <<lines, index, bundles, inBundle, named>>
    BY <1>18 DEF Sweep, Live, lined, bundled, published
  <2>2. BodiesKept'
    BY <1>a, <1>l, <2>1 DEF BundleInv, BodiesKept
  <2>3. \A e : Lines(e)' = Lines(e)
    BY <2>1 DEF Lines, Of
  <2>4. BundleHoldsDay'
    BY <1>a, <2>1, <2>3 DEF BundleInv, BundleHoldsDay
  <2> QED  BY <1>a, <2>1, <2>2, <2>4 DEF BundleInv
<1>19. CASE CollectFails
  BY <1>19, <1>n, <1>l, BundleKeeps DEF CollectFails, disk, lined, bundled, published
<1>20. CASE PowerCut
  BY <1>20, <1>n, <1>l, BundleKeeps DEF PowerCut, disk, lined, bundled, published
<1>21. CASE Tick
  BY <1>21, <1>n, <1>l, BundleKeeps DEF Tick, disk, lined, bundled, published
<1>22. CASE UNCHANGED vars
  BY <1>22, <1>n, <1>l, BundleKeeps DEF vars, lined, bundled, published
<1>23. CASE MigrationCut
  <2>1. BodiesKept'
    BY <1>23, <1>a, <1>l, CutEffect DEF BundleInv, BodiesKept
  <2>2. BundleHoldsDay'
    BY <1>23, CutEffect DEF BundleHoldsDay
  <2> QED  BY <1>23, <1>a, <2>1, <2>2, CutEffect DEF BundleInv
<1> QED
  BY <1>1, <1>2, <1>3, <1>4, <1>5, <1>6, <1>7, <1>8, <1>9, <1>10, <1>11,
     <1>12, <1>13, <1>14, <1>15, <1>16, <1>17, <1>18, <1>19, <1>20, <1>21, <1>22,
     <1>23 DEF Next, Loop

(* A publication lists lines. *)
LEMMA PublishLists == ASSUME Inv, NEW D, PublishDays(D), UNCHANGED lines,
                             \A t \in Times : Live(t)' => Live(t)
                      PROVE  \A t \in listed' : Live(t)' => lines'[t] > 0
  BY DEF Inv, ListedInv, PublishDays

LEMMA ListedStep == Inv /\ [Next]_vars => ListedInv'
<1> SUFFICES ASSUME Inv, [Next]_vars PROVE ListedInv'
  OBVIOUS
<1>a. TypeInv /\ TimeInv /\ ListedInv
  BY DEF Inv
<1>l. \A t \in Times : Live(t)' => Live(t)
  BY LiveShrinks
<1>k. ASSUME listed' \subseteq listed, \A t \in Times : lines[t] > 0 => lines'[t] > 0
      PROVE  \A t \in listed' : Live(t)' => lines'[t] > 0
  BY <1>k, <1>a, <1>l DEF ListedInv, TypeInv
<1>1. CASE Boot
  BY <1>1, <1>a, <1>k DEF Boot, ListedInv, disk, lined, published
<1>2. CASE RebuildAppend
  <2>1. \A t \in Times : lines[t] > 0 => lines'[t] > 0
    BY <1>2, <1>a DEF RebuildAppend, TypeInv
  <2> QED  BY <1>2, <1>a, <1>k, <2>1 DEF RebuildAppend, ListedInv, published
<1>3. CASE RebuildPublish
  BY <1>3, <1>a, <1>l, PublishLists DEF RebuildPublish, ListedInv, lined
<1>4. CASE Sleep
  BY <1>4, <1>a, <1>k DEF Sleep, ListedInv, vars
<1>5. CASE Collect
  BY <1>5, <1>a, <1>k DEF Collect, ListedInv, lined, published
<1>6. CASE Append
  <2>1. lines' = lines \/ lines' = [lines EXCEPT ![now] = @ + 1]
    BY <1>6 DEF Append
  <2>2. \A t \in Times : lines[t] > 0 => lines'[t] > 0
    BY <2>1, <1>a DEF TypeInv
  <2> QED  BY <1>6, <1>a, <1>k, <2>2 DEF Append, ListedInv, published
<1>7. CASE Publish
  BY <1>7, <1>a, <1>l, PublishLists DEF Publish, ListedInv, lined
<1>8. CASE Bundle
  BY <1>8, <1>a, <1>k DEF Bundle, ListedInv, lined, published
<1>9. CASE Remove
  BY <1>9, <1>a, <1>k DEF Remove, ListedInv, lined, published
<1>10. CASE Republish
  BY <1>10, <1>a, <1>l, PublishLists DEF Republish, ListedInv, lined
<1>11. CASE BundlesDone
  BY <1>11, <1>a, <1>k DEF BundlesDone, ListedInv, disk, lined, published
<1>12. CASE PruneDay
  <2>1. PICK d \in index : /\ Expired(d)
                           /\ lines' = [t \in Times |-> IF Day(t) = d THEN 0 ELSE lines[t]]
    BY <1>12 DEF PruneDay
  <2>2. d \in Nat /\ clock \in Nat /\ Times \subseteq Nat
    BY <1>a, TimesInNat DEF TypeInv, Days
  <2>3. \A t \in Times : Day(t) = d => ~Live(t)
    BY <2>1, <2>2, ExpiredAll
  <2>4. UNCHANGED <<listed, clock, settled>> /\ pc = "prune"
    BY <1>12 DEF PruneDay, published
  <2>5. \A t \in listed' : Live(t)' => lines'[t] > 0
    BY <1>a, <1>l, <2>1, <2>3, <2>4 DEF ListedInv, TypeInv
  <2> QED  BY <1>a, <2>4, <2>5 DEF ListedInv
<1>13. CASE UnlinkIndex
  BY <1>13, <1>a, <1>k DEF UnlinkIndex, ListedInv, lined
<1>14. CASE UnlinkBundle
  BY <1>14, <1>a, <1>k DEF UnlinkBundle, ListedInv, lined, published
<1>15. CASE PruneLines
  <2>1. lines' = [t \in Times |-> IF t + Retention < clock THEN 0 ELSE lines[t]]
    BY <1>15 DEF PruneLines
  <2>2. \A t \in Times : Live(t) => ~(t + Retention < clock)
    BY <1>a, TimesInNat, BoundAssumption DEF Live, TypeInv
  <2>3. UNCHANGED <<listed, clock, settled>> /\ pc = "prune"
    BY <1>15 DEF PruneLines, published
  <2>4. \A t \in listed' : Live(t)' => lines'[t] > 0
    BY <1>a, <1>l, <2>1, <2>2, <2>3 DEF ListedInv, TypeInv
  <2> QED  BY <1>a, <2>3, <2>4 DEF ListedInv
<1>16. CASE PublishPruned
  BY <1>16, <1>a, <1>l, PublishLists DEF PublishPruned, ListedInv, lined
<1>17. CASE List
  BY <1>17, <1>a, <1>k DEF List, ListedInv, lined, published
<1>18. CASE Sweep
  BY <1>18, <1>a, <1>k DEF Sweep, ListedInv, lined, published
<1>19. CASE CollectFails
  BY <1>19, <1>a, <1>k DEF CollectFails, ListedInv, disk, lined, published
<1>20. CASE PowerCut
  BY <1>20, <1>a, <1>k DEF PowerCut, ListedInv, disk, lined, published
<1>21. CASE Tick
  BY <1>21, <1>a, <1>k DEF Tick, ListedInv, disk, lined, published
<1>22. CASE UNCHANGED vars
  BY <1>22, <1>a, <1>k DEF vars, ListedInv, lined, published
<1>23. CASE MigrationCut
  BY <1>23, <1>a, <1>l, CutEffect DEF ListedInv, TypeInv
<1> QED
  BY <1>1, <1>2, <1>3, <1>4, <1>5, <1>6, <1>7, <1>8, <1>9, <1>10, <1>11,
     <1>12, <1>13, <1>14, <1>15, <1>16, <1>17, <1>18, <1>19, <1>20, <1>21, <1>22,
     <1>23 DEF Next, Loop

(* The inductive invariant, whatever fails. *)
THEOREM InvHolds == Spec => []Inv
<1>1. Inv /\ [Next]_vars => Inv'
  BY TypeStep, TimeStep, LineStep, BundleStep, ListedStep DEF Inv
<1> QED  BY InvInit, <1>1, PTL DEF Spec

(* Every variable keeps its type. *)
THEOREM TypeCorrect == Spec => []TypeInv
<1>1. Inv => TypeInv
  BY DEF Inv
<1> QED  BY InvHolds, <1>1, PTL

(* bundle_completed_days and prune-snapshots never cost an indexed snapshot *)
(* its bodies before it expires, whatever fails and wherever the power is   *)
(* cut.                                                                     *)
THEOREM BodiesAreKept == Spec => []BodiesKept
<1>1. Inv => BodiesKept
  BY DEF Inv, BundleInv
<1> QED  BY InvHolds, <1>1, PTL

(* A bundle holds every snapshot the index of its day names or will name.   *)
THEOREM BundlesWhole == Spec => []BundleHoldsDay
<1>1. Inv => BundleHoldsDay
  BY DEF Inv, BundleInv
<1> QED  BY InvHolds, <1>1, PTL

-----------------------------------------------------------------------------
(* What a finished add has published. *)

(* A publication names the bundle of a day it publishes, and of no other    *)
(* day any less than before.                                                *)
LEMMA NamedStep == ASSUME "bundle" \notin Faults
                   PROVE  Inv /\ NamedInv /\ [Next]_vars => NamedInv'
<1> SUFFICES ASSUME Inv, NamedInv, [Next]_vars PROVE NamedInv'
  OBVIOUS
<1> USE DEF NamedInv
<1>a. TimeInv /\ LineInv /\ TypeInv
  BY DEF Inv
<1>1. CASE Boot
  BY <1>1 DEF Boot, disk, lined, bundled, published
<1>2. CASE RebuildAppend
  BY <1>2, <1>a DEF RebuildAppend, LineInv, bundled
<1>3. CASE RebuildPublish
  BY <1>3 DEF RebuildPublish, PublishDays, lined, bundled
<1>4. CASE Sleep
  BY <1>4 DEF Sleep, vars
<1>5. CASE Collect
  BY <1>5 DEF Collect, lined, bundled, published
<1>6. CASE Append
  <2>1. now \in Times /\ \A d \in bundles : d < Day(now)
    BY <1>6, <1>a DEF Append, TimeInv
  <2>2. Day(now) \in Nat
    BY <2>1, DayNat, TimesInNat
  <2>3. Day(now) \notin bundles
    BY <2>1, <2>2
  <2> QED  BY <1>6, <2>3 DEF Append, bundled, published
<1>7. CASE Publish
  BY <1>7 DEF Publish, PublishDays, lined, bundled
<1>8. CASE Bundle
  BY <1>8 DEF Bundle, lined, published
<1>9. CASE Remove
  BY <1>9 DEF Remove, lined, bundled, published
<1>10. CASE Republish
  BY <1>10 DEF Republish, PublishDays, lined, bundled
<1>11. CASE BundlesDone
  BY <1>11 DEF BundlesDone, disk, lined, bundled, published
<1>12. CASE PruneDay
  BY <1>12 DEF PruneDay, bundled, published
<1>13. CASE UnlinkIndex
  BY <1>13, <1>a DEF UnlinkIndex, LineInv, lined, bundled
<1>14. CASE UnlinkBundle
  BY <1>14 DEF UnlinkBundle, lined, published
<1>15. CASE PruneLines
  BY <1>15 DEF PruneLines, bundled, published
<1>16. CASE PublishPruned
  BY <1>16 DEF PublishPruned, PublishDays, lined, bundled
<1>17. CASE List
  BY <1>17 DEF List, lined, bundled, published
<1>18. CASE Sweep
  BY <1>18 DEF Sweep, lined, bundled, published
<1>19. CASE CollectFails
  BY <1>19 DEF CollectFails, disk, lined, bundled, published
<1>20. CASE PowerCut
  <2>1. pc # "remove"
    BY <1>20 DEF PowerCut, Fault
  <2> QED  BY <1>20, <2>1 DEF PowerCut, disk, lined, bundled, published
<1>21. CASE Tick
  BY <1>21 DEF Tick, disk, lined, bundled, published
<1>22. CASE UNCHANGED vars
  BY <1>22 DEF vars, lined, bundled, published
<1>23. CASE MigrationCut
  BY <1>23, CutEffect
<1> QED
  BY <1>1, <1>2, <1>3, <1>4, <1>5, <1>6, <1>7, <1>8, <1>9, <1>10, <1>11,
     <1>12, <1>13, <1>14, <1>15, <1>16, <1>17, <1>18, <1>19, <1>20, <1>21, <1>22,
     <1>23 DEF Next, Loop

(* After an add, the browser finds every listed snapshot where the index of *)
(* its day sends it, as long as no power cut falls into the bundling of a   *)
(* day (between the rename of the archive and the publication).             *)
THEOREM IndexIsServed ==
  ASSUME "bundle" \notin Faults
  PROVE  Spec => []IndexServes
<1>1. Init => NamedInv
  BY DEF Init, NamedInv
<1>2. Inv /\ NamedInv /\ [Next]_vars => NamedInv'
  BY NamedStep
<1>3. Inv /\ NamedInv => IndexServes
  <2> SUFFICES ASSUME Inv, NamedInv, settled, NEW t \in listed, Live(t)
               PROVE  IF Day(t) \in named THEN Day(t) \in bundles /\ t \in inBundle
                                          ELSE t \in captures
    BY DEF IndexServes
  <2>1. t \in Times /\ lines[t] > 0 /\ pc # "remove"
    BY DEF Inv, ListedInv, TypeInv
  <2>2. Day(t) \in index /\ t \in Lines(Day(t))
    BY <2>1 DEF Inv, LineInv, Lines, Of
  <2>3. CASE Day(t) \in named
    BY <2>2, <2>3 DEF Inv, BundleInv, BundleHoldsDay
  <2>4. CASE Day(t) \notin named
    <3>1. Day(t) \notin bundles
      BY <2>1, <2>2, <2>4 DEF NamedInv
    <3>2. t \notin inBundle
      BY <3>1 DEF Inv, BundleInv
    <3> QED  BY <2>1, <2>4, <3>2 DEF Inv, BundleInv, BodiesKept
  <2> QED  BY <2>3, <2>4
<1> QED  BY <1>1, <1>2, <1>3, InvHolds, PTL DEF Spec

(* A publication leaves none of its days stale, and makes no other day so.  *)
LEMMA PublishFresh == ASSUME TypeInv, NEW D, PublishDays(D), UNCHANGED <<index, lines>>
                      PROVE  \A d : Stale(d)' => Stale(d) /\ d \notin D
<1> SUFFICES ASSUME NEW d, Stale(d)' PROVE Stale(d) /\ d \notin D
  OBVIOUS
<1>1. \A t \in Of(d) : t \in Times /\ Day(t) = d
  BY DEF Of
<1>2. d \in index /\ (d \notin jsons' \/ \E t \in Of(d) : (t \in listed') # (lines[t] > 0))
  BY DEF Stale, Of
<1>3. d \notin D
  <2> SUFFICES ASSUME d \in D PROVE FALSE
    OBVIOUS
  <2>1. d \in jsons'
    BY DEF PublishDays
  <2>2. \A t \in Of(d) : t \in listed' <=> lines[t] > 0
    BY <1>1 DEF PublishDays
  <2> QED  BY <1>2, <2>1, <2>2
<1>4. d \notin jsons' => d \notin jsons
  BY DEF PublishDays
<1>5. \A t \in Of(d) : t \in listed' <=> t \in listed
  BY <1>1, <1>3 DEF PublishDays
<1> QED  BY <1>2, <1>3, <1>4, <1>5 DEF Stale

LEMMA StaleKeeps == ASSUME UNCHANGED <<index, lines, jsons, listed>>
                    PROVE  \A d : Stale(d)' => Stale(d)
  BY DEF Stale, Of

LEMMA TrimmedStays == ASSUME Inv, [Next]_vars
                      PROVE  \A d \in Days : Trimmed(d) => Trimmed(d)'
<1>1. clock' = clock \/ clock' = clock + 1
  BY DEF Next, Loop, Boot, RebuildAppend, RebuildPublish, Sleep, Collect, Append, Publish,
         Bundle, Remove, Republish, BundlesDone, PruneDay, UnlinkIndex, UnlinkBundle,
         PruneLines, PublishPruned, List, Sweep, CollectFails, MigrationCut,
         PowerCut, Tick, vars
<1>2. clock \in Nat
  BY TimesInNat DEF Inv, TypeInv
<1>3. \A d \in Days : d * Slots \in Nat
  BY BoundAssumption DEF Days
<1> QED  BY <1>1, <1>2, <1>3, BoundAssumption DEF Trimmed

(* A step that makes no day stale and does not touch what StaleInv relates  *)
(* otherwise. *)
LEMMA StaleQuiet == ASSUME StaleInv,
                           \A d : Stale(d)' => Stale(d),
                           \A d \in Days : Trimmed(d) => Trimmed(d)',
                           UNCHANGED <<index, lines, bundles, jsons, listed, migrated>>,
                           pc' = pc /\ UNCHANGED <<now, day, adding, orphans>>,
                           UNCHANGED <<manifest, settled>>, captures' \subseteq captures
                    PROVE  StaleInv'
<1>1. ManifestMatches'
  BY DEF StaleInv, ManifestMatches, Of
<1> QED  BY <1>1 DEF StaleInv

(* When nothing is left to bundle, every stale day has begun to expire. *)
LEMMA UnbundledExpire ==
  ASSUME Inv, StaleInv, pc = "bundle", Bundleable = {}, NEW d \in Days, Stale(d)
  PROVE  Trimmed(d)
<1>1. d \in index /\ d <= Day(now) /\ d # Day(now) /\ now \in Nat /\ d \in Nat
  BY DEF Inv, TimeInv, TypeInv, StaleInv, Stale, Days
<1>2. d < Day(now)
  BY <1>1, DayNat
<1>3. CASE d \in bundles
  BY <1>3 DEF StaleInv
<1>4. CASE d \notin bundles
  <2>1. PICK t \in Lines(d) : t \notin captures
    BY <1>1, <1>2, <1>4 DEF Bundleable, Complete
  <2>2. t \in Times /\ Day(t) = d /\ lines[t] > 0
    BY <2>1 DEF Lines, Of
  <2>3. t \notin inBundle
    BY <1>4, <2>2 DEF Inv, BundleInv
  <2>4. ~Live(t)
    BY <2>1, <2>2, <2>3 DEF Inv, BundleInv, BodiesKept
  <2>5. t \in Nat /\ clock \in Nat
    BY <2>2, TimesInNat DEF Inv, TypeInv
  <2>6. t + Retention < clock
    BY <2>4, <2>5, BoundAssumption DEF Live
  <2> QED  BY <2>2, <2>5, <2>6, TrimmedFirst
<1> QED  BY <1>3, <1>4

(* The manifest of a round without a stale day is what is published. *)
LEMMA ListMatches ==
  ASSUME Inv, OrphanInv, StaleInv, List
  PROVE  ManifestMatches'
<1> SUFFICES ASSUME adding
             PROVE  /\ {p.day : p \in manifest'} = jsons' \ orphans'
                    /\ bundles' \ index' \subseteq orphans'
                    /\ \A p \in manifest' :
                         \/ p.count = Cardinality(listed' \cap Of(p.day))
                         \/ \E t \in Legacy \cap Of(p.day) : lines'[t] > 1
  BY DEF List, ManifestMatches, Of
<1>1. /\ manifest' = {[day |-> d, count |-> LineCount(d)] : d \in index}
      /\ UNCHANGED <<jsons, listed, bundles, index, lines, orphans>> /\ pc = "list"
  BY DEF List, published, bundled, lined, cuts
<1>2. \A d \in index : ~Stale(d)
  BY <1>1 DEF StaleInv, Inv, TypeInv
<1>3. jsons \ orphans = index
  BY <1>1, <1>2 DEF StaleInv, OrphanInv, Stale
<1>b. bundles \ index \subseteq orphans
  BY <1>1 DEF StaleInv
<1>4. ASSUME NEW d \in index, ~\E t \in Legacy \cap Of(d) : lines[t] > 1
      PROVE  LineCount(d) = Cardinality(listed \cap Of(d))
  <2>1. \A t \in Of(d) : t \in listed <=> lines[t] > 0
    BY <1>2 DEF Stale
  <2>2. listed \cap Of(d) = Lines(d)
    BY <2>1 DEF Lines
  <2>3. \A t \in Of(d) : lines[t] <= 1
    <3> SUFFICES ASSUME NEW t \in Of(d) PROVE lines[t] <= 1
      OBVIOUS
    <3>1. t \in Times /\ lines[t] \in Nat
      BY OfFinite DEF Inv, TypeInv
    <3>2. t \in Legacy => ~(lines[t] > 1)
      BY <1>4
    <3> QED  BY <3>1, <3>2 DEF StaleInv
  <2> QED  BY <2>2, <2>3, LineCountIs DEF Inv, TypeInv
<1>5. {p.day : p \in manifest'} = index
  <2> DEFINE row(d) == [day |-> d, count |-> LineCount(d)]
  <2>1. \A p \in manifest' : \E d \in index : p = row(d)
    BY <1>1
  <2>2. \A d \in index : row(d) \in manifest'
    BY <1>1
  <2>3. \A d : row(d).day = d
    OBVIOUS
  <2> HIDE DEF row
  <2> QED  BY <2>1, <2>2, <2>3
<1>6. \A p \in manifest' :
        \/ p.count = Cardinality(listed \cap Of(p.day))
        \/ \E t \in Legacy \cap Of(p.day) : lines[t] > 1
  BY <1>1, <1>4
<1> QED  BY <1>1, <1>3, <1>b, <1>5, <1>6

(* The last instant of an expired day is over. *)
LEMMA ExpiredPast == ASSUME NEW d \in Nat, clock \in Nat, Expired(d)
                     PROVE  d < Day(clock)
<1>1. clock < (Day(clock) + 1) * Slots /\ Day(clock) \in Nat
  BY DayBounds, DayNat
<1>2. (d + 1) * Slots + Retention <= clock
  BY DEF Expired
<1>3. (d + 1) * Slots \in Nat /\ (Day(clock) + 1) * Slots \in Nat
  BY <1>1, BoundAssumption
<1>4. (d + 1) * Slots < (Day(clock) + 1) * Slots
  BY <1>1, <1>2, <1>3, BoundAssumption
<1>5. \A i, j \in Nat : i * Slots < j * Slots => i < j
  BY BoundAssumption
<1>6. d + 1 \in Nat /\ Day(clock) + 1 \in Nat
  BY <1>1
<1>7. d + 1 < Day(clock) + 1
  BY <1>4, <1>5, <1>6
<1> QED  BY <1>1, <1>7

(* A step that indexes nothing, cuts no removal and begins none. *)
LEMMA OrphanQuiet == ASSUME OrphanInv, UNCHANGED <<clock, orphans>>,
                            index' \subseteq index, migrated => migrated',
                            \/ pc' = pc /\ UNCHANGED <<now, day>>
                            \/ pc' \notin {"append", "rmIndex", "rmBundle"}
                     PROVE  OrphanInv'
  BY DEF OrphanInv

(* Every step keeps the days whose removal was cut apart from the others. *)
LEMMA OrphanStep == Inv /\ OrphanInv /\ [Next]_vars => OrphanInv'
<1> SUFFICES ASSUME Inv, OrphanInv, [Next]_vars PROVE OrphanInv'
  OBVIOUS
<1> USE DEF cuts
<1>a. TypeInv /\ TimeInv /\ LineInv
  BY DEF Inv
<1>b. clock \in Nat /\ orphans \subseteq Nat /\ Day(clock) \in Nat
  BY <1>a, TimesInNat, DayNat DEF TypeInv, Days
<1>1. CASE Boot \/ BundlesDone \/ CollectFails
  BY <1>1, OrphanQuiet DEF Boot, BundlesDone, CollectFails, disk, lined
<1>2. CASE RebuildAppend
  <2>1. orphans = {} /\ UNCHANGED <<clock, orphans>> /\ pc' = "publishAll"
    BY <1>2, <1>a DEF RebuildAppend, LineInv, OrphanInv
  <2> QED  BY <2>1 DEF OrphanInv
<1>3. CASE RebuildPublish \/ Publish \/ Republish \/ PublishPruned
  BY <1>3, OrphanQuiet DEF RebuildPublish, Publish, Republish, PublishPruned, lined
<1>4. CASE Sleep \/ UNCHANGED vars
  BY <1>4, OrphanQuiet DEF Sleep, vars
<1>5. CASE Collect
  BY <1>5, <1>a DEF Collect, OrphanInv, LineInv, lined
<1>6. CASE Append
  <2>1. /\ index' = index \cup {Day(now)} /\ pc' = "publish" /\ pc = "append"
        /\ UNCHANGED <<clock, orphans, migrated>>
    BY <1>6 DEF Append
  <2>2. Day(now) \in Nat
    BY <1>a, DayNat DEF TypeInv
  <2>3. Day(now) \notin orphans
    BY <2>1, <2>2, <1>b DEF OrphanInv
  <2> QED  BY <2>1, <2>3 DEF OrphanInv
<1>7. CASE Bundle \/ Remove \/ UnlinkIndex \/ UnlinkBundle \/ PruneLines
           \/ List \/ Sweep
  <2>1. /\ UNCHANGED <<clock, orphans, migrated, index>>
        /\ pc' \notin {"append", "rmIndex", "rmBundle"}
             \/ (UNCHANGED <<day, now>> /\ pc = "rmIndex" /\ pc' = "rmBundle")
    BY <1>7 DEF Bundle, Remove, UnlinkIndex, UnlinkBundle, PruneLines, List, Sweep,
                lined
  <2> QED  BY <2>1 DEF OrphanInv
<1>8. CASE PruneDay
  <2>1. PICK d \in index : Expired(d) /\ index' = index \ {d} /\ day' = d
    BY <1>8 DEF PruneDay
  <2>2. d < Day(clock)
    BY <2>1, <1>a, <1>b, ExpiredPast DEF TypeInv, Days
  <2>3. UNCHANGED <<clock, orphans, migrated>> /\ pc' = "rmIndex"
    BY <1>8 DEF PruneDay
  <2> QED  BY <2>1, <2>2, <2>3 DEF OrphanInv
<1>9. CASE MigrationCut
  <2>1. orphans = {} /\ UNCHANGED <<clock, orphans>> /\ pc' = "off"
    BY <1>9, CutEffect DEF OrphanInv
  <2> QED  BY <2>1 DEF OrphanInv
<1>10. CASE PowerCut
  <2>1. /\ UNCHANGED <<clock, index, migrated>> /\ pc' = "off"
        /\ orphans' = orphans \cup {d \in {day} : pc \in {"rmIndex", "rmBundle"}}
    BY <1>10 DEF PowerCut, disk, lined
  <2>2. pc \in {"rmIndex", "rmBundle"} => day \notin index /\ migrated
    BY <1>a DEF LineInv
  <2> QED  BY <2>1, <2>2 DEF OrphanInv
<1>11. CASE Tick
  <2>1. /\ clock' = clock + 1 /\ UNCHANGED <<orphans, index, migrated, pc, now>>
        /\ pc \notin {"rmIndex", "rmBundle"}
    BY <1>11 DEF Tick, disk, lined
  <2>2. Day(clock) <= Day(clock + 1) /\ Day(clock + 1) \in Nat
    BY <1>b, DayMonotone, DayNat
  <2>3. \A d \in orphans : d < Day(clock')
    BY <2>1, <2>2, <1>b DEF OrphanInv
  <2> QED  BY <2>1, <2>3 DEF OrphanInv
<1> QED
  BY <1>1, <1>2, <1>3, <1>4, <1>5, <1>6, <1>7, <1>8, <1>9, <1>10, <1>11
  DEF Next, Loop

(* What every step keeps of the captures before the migration, and of the   *)
(* days whose removal was cut. *)
LEMMA StepKeeps ==
  ASSUME Inv, StaleInv, [Next]_vars
  PROVE  /\ ~migrated' => captures' \subseteq Legacy
         /\ orphans' = orphans \/ PowerCut
<1> USE DEF disk, cuts
<1>1. orphans' = orphans \/ PowerCut
  BY DEF Next, Loop, Boot, RebuildAppend, RebuildPublish, Sleep, Collect, Append, Publish,
         Bundle, Remove, Republish, BundlesDone, PruneDay, UnlinkIndex, UnlinkBundle,
         PruneLines, PublishPruned, List, Sweep, CollectFails, MigrationCut, Tick, vars
<1>2. ~migrated' => captures' \subseteq captures /\ ~migrated
  <2>1. CASE Collect
    BY <2>1 DEF Collect, Inv, LineInv
  <2>2. CASE RebuildPublish
    BY <2>2 DEF RebuildPublish
  <2>3. CASE Boot \/ RebuildAppend \/ Sleep \/ Append \/ Publish \/ Bundle
    BY <2>3 DEF Boot, RebuildAppend, Sleep, Append, Publish, Bundle, vars
  <2>4. CASE Remove \/ Republish \/ BundlesDone \/ PruneDay \/ UnlinkIndex \/ UnlinkBundle
    BY <2>4 DEF Remove, Republish, BundlesDone, PruneDay, UnlinkIndex, UnlinkBundle
  <2>5. CASE PruneLines \/ PublishPruned \/ List \/ Sweep \/ CollectFails
    BY <2>5 DEF PruneLines, PublishPruned, List, Sweep, CollectFails
  <2>6. CASE MigrationCut \/ PowerCut \/ Tick \/ UNCHANGED vars
    BY <2>6 DEF MigrationCut, PowerCut, Tick, vars
  <2> QED  BY <2>1, <2>2, <2>3, <2>4, <2>5, <2>6 DEF Next, Loop
<1> QED  BY <1>1, <1>2 DEF StaleInv

(* Without cuts in a bundling, every step keeps a stale day one that will   *)
(* still be published. *)
LEMMA StaleStep ==
  ASSUME "bundle" \notin Faults
  PROVE  Inv /\ OrphanInv /\ StaleInv /\ [Next]_vars => StaleInv'
<1> SUFFICES ASSUME Inv, OrphanInv, StaleInv, [Next]_vars PROVE StaleInv'
  OBVIOUS
<1>c. ~migrated' => captures' \subseteq Legacy
  BY StepKeeps
<1>p. orphans' = orphans \/ PowerCut
  BY StepKeeps
<1>a. TypeInv /\ TimeInv /\ LineInv
  BY DEF Inv
<1>s. StaleInv
  OBVIOUS
<1>t. \A d \in Days : Trimmed(d) => Trimmed(d)'
  BY TrimmedStays
<1>u. \A d : Stale(d) => d \in Days
  BY <1>a DEF Stale, TypeInv
<1>m. (settled' => pc' \in {"sweep", "idle"})
  BY ListedStep DEF ListedInv
<1>n. pc' \notin {"sweep", "idle"} => ManifestMatches'
  BY <1>m DEF ManifestMatches
<1>o. UNCHANGED <<manifest, jsons, listed, bundles, index, lines, orphans>>
      /\ (settled' => settled) => ManifestMatches'
  BY <1>s DEF StaleInv, ManifestMatches, Of
<1>k. UNCHANGED <<index, lines, jsons, listed>> => \A d : Stale(d)' => Stale(d)
  BY StaleKeeps
<1>1. CASE Boot
  <2>1. /\ pc' = (IF migrated THEN "prune" ELSE "rebuild") /\ pc = "off" /\ adding' = FALSE
        /\ UNCHANGED <<index, lines, bundles, jsons, listed, migrated, orphans>>
    BY <1>1 DEF Boot, disk, lined, bundled, published, cuts
  <2> QED  BY <2>1, <1>s, <1>t, <1>k, <1>n, <1>c DEF StaleInv
<1>2. CASE RebuildAppend
  <2>1. bundles = {} /\ captures \subseteq Legacy /\ pc = "rebuild"
    BY <1>2, <1>a, <1>s DEF RebuildAppend, LineInv, StaleInv
  <2>2. \A t \in Times : t \notin captures => lines'[t] = lines[t]
    BY <1>2 DEF RebuildAppend
  <2>3. \A t \in Times : lines'[t] <= 1 \/ t \in Legacy
    BY <2>1, <2>2, <1>s DEF StaleInv
  <2>4. /\ bundles' = {} /\ jsons' = jsons /\ pc' = "publishAll" /\ orphans' = orphans
        /\ index \subseteq index'
    BY <1>2, <2>1 DEF RebuildAppend, bundled, published, cuts
  <2>5. \A d \in jsons' : d \in index' \cup orphans'
    BY <2>1, <2>4, <1>s DEF StaleInv
  <2> QED  BY <2>3, <2>4, <2>5, <1>n, <1>c DEF StaleInv
<1>3. CASE RebuildPublish
  <2>1. PublishDays(index) /\ UNCHANGED <<index, lines, bundles>> /\ migrated'
        /\ pc' = "prune" /\ pc = "publishAll"
    BY <1>3 DEF RebuildPublish, lined, bundled
  <2>2. \A d : ~Stale(d)'
    BY <2>1, <1>a, PublishFresh DEF Stale
  <2>3. \A d \in jsons' : d \in index' \cup orphans'
    BY <1>3, <2>1, <1>s DEF PublishDays, StaleInv, RebuildPublish, cuts
  <2>4. bundles' = {}
    BY <2>1, <1>a DEF LineInv
  <2> QED  BY <2>1, <2>2, <2>3, <2>4, <1>n, <1>s DEF StaleInv
<1>4. CASE Sleep
  BY <1>4, <1>s, <1>t, <1>k, StaleQuiet DEF Sleep, vars
<1>5. CASE Collect
  <2>1. /\ pc' = "append" /\ pc = "idle" /\ adding'
        /\ UNCHANGED <<index, lines, bundles, jsons, listed, migrated, orphans>>
    BY <1>5 DEF Collect, lined, bundled, published, cuts
  <2> QED  BY <2>1, <1>s, <1>t, <1>k, <1>n, <1>c DEF StaleInv
<1>6. CASE Append
  <2>1. /\ now \in Times /\ Day(now) \notin bundles
    <3>1. now \in Times /\ \A d \in bundles : d < Day(now)
      BY <1>6, <1>a DEF Append, TimeInv
    <3>2. Day(now) \in Nat
      BY <3>1, DayNat, TimesInNat
    <3> QED  BY <3>1, <3>2
  <2>2. lines' = lines \/ (lines[now] = 0 /\ lines' = [lines EXCEPT ![now] = @ + 1])
    <3>1. \A t \in Lines(Day(now)) : t <= now
      BY <1>a DEF TimeInv, Lines, Of
    <3>2. lines[now] \in Nat
      BY <2>1, <1>a DEF TypeInv
    <3> QED  BY <1>6, <3>1, <3>2 DEF Append
  <2>3. /\ index' = index \cup {Day(now)} /\ pc = "append" /\ pc' = "publish"
        /\ UNCHANGED <<bundles, jsons, listed, migrated, adding>>
    BY <1>6 DEF Append, bundled, published
  <2>4. \A t \in Times : lines'[t] <= 1 \/ t \in Legacy
    BY <2>1, <2>2, <1>a, <1>s DEF TypeInv, StaleInv
  <2>5. \A t \in Times : t # now => lines'[t] = lines[t]
    BY <2>2, <1>a DEF TypeInv
  <2>6. \A d : Stale(d)' => Stale(d) \/ d = Day(now)
    <3> SUFFICES ASSUME NEW d, d # Day(now), Stale(d)' PROVE Stale(d)
      OBVIOUS
    <3>1. \A t \in Of(d) : lines'[t] = lines[t]
      BY <2>5 DEF Of
    <3> QED  BY <2>3, <3>1 DEF Stale, Of
  <2>7. \A d \in Days : Stale(d)' => d \notin bundles' \/ Trimmed(d)'
    BY <2>1, <2>3, <2>6, <1>s, <1>t DEF StaleInv
  <2>8. migrated /\ adding /\ \A d \in jsons \cup bundles : d \in index \cup orphans
    BY <2>3, <1>a, <1>s DEF LineInv, StaleInv
  <2>9. Day(now)' \in index'
    BY <1>6, <2>3 DEF Append, Day
  <2>10. orphans' = orphans
    BY <1>6 DEF Append, cuts
  <2> QED  BY <2>3, <2>4, <2>7, <2>8, <2>9, <2>10, <1>n DEF StaleInv
<1>7. CASE Publish
  <2>1. /\ PublishDays({Day(now)}) /\ UNCHANGED <<index, lines, bundles, migrated, adding, now>>
        /\ pc = "publish" /\ pc' = "bundle"
    BY <1>7 DEF Publish, lined, bundled
  <2>2. \A d : Stale(d)' => Stale(d) /\ d # Day(now)
    BY <2>1, <1>a, PublishFresh
  <2>3. \A t \in Times : lines'[t] <= 1 \/ t \in Legacy
    BY <2>1, <1>s DEF StaleInv
  <2>4. ~Stale(Day(now))'
    BY <2>2, <2>1 DEF Stale, Of, Day
  <2>5. \A d \in Days : Stale(d)' => d \notin bundles' \/ Trimmed(d)'
    BY <2>1, <2>2, <1>s, <1>t DEF StaleInv
  <2>6. migrated /\ adding /\ \A d \in jsons' \cup bundles' : d \in index' \cup orphans'
    <3>1. Day(now) \in index
      BY <2>1, <1>s DEF StaleInv
    <3>2. jsons' = jsons \cup {Day(now)}
      BY <2>1 DEF PublishDays
    <3>3. orphans' = orphans
      BY <1>7 DEF Publish, cuts
    <3> QED  BY <2>1, <3>1, <3>2, <3>3, <1>s, <1>a DEF StaleInv, LineInv
  <2> QED  BY <2>1, <2>3, <2>4, <2>5, <2>6, <1>n DEF StaleInv
<1>8. CASE Bundle
  <2>1. PICK d \in Bundleable : bundles' = bundles \cup {d} /\ day' = d
    BY <1>8 DEF Bundle
  <2>2. d \in index
    BY <2>1 DEF Bundleable
  <2>3. /\ UNCHANGED <<index, lines, jsons, listed, migrated, adding, now, orphans>>
        /\ pc = "bundle" /\ pc' = "remove"
    BY <1>8 DEF Bundle, lined, published, cuts
  <2> QED  BY <2>1, <2>2, <2>3, <1>s, <1>t, <1>k, <1>n, <1>c DEF StaleInv
<1>9. CASE Remove
  BY <1>9, <1>s, <1>t, <1>k, StaleQuiet DEF Remove, lined, bundled, published, cuts
<1>10. CASE Republish
  <2>1. /\ PublishDays({day}) /\ pc = "remove" /\ pc' = "bundle"
        /\ UNCHANGED <<index, lines, bundles, migrated, adding, now>>
    BY <1>10 DEF Republish, lined, bundled
  <2>2. \A d : Stale(d)' => Stale(d) /\ d # day
    BY <2>1, <1>a, PublishFresh
  <2>3. ~Stale(Day(now))'
    BY <2>1, <2>2, <1>s DEF StaleInv, Stale, Of, Day
  <2>4. \A d \in Days : Stale(d)' => d \notin bundles' \/ Trimmed(d)'
    BY <2>1, <2>2, <1>s, <1>t DEF StaleInv
  <2>5. day \in index /\ jsons' = jsons \cup {day}
    BY <2>1 DEF PublishDays, Inv, BundleInv
  <2>8. orphans' = orphans
    BY <1>10 DEF Republish, cuts
  <2>6. migrated /\ adding /\ \A d \in jsons' \cup bundles' : d \in index' \cup orphans'
    BY <2>1, <2>5, <2>8, <1>s, <1>a DEF StaleInv, LineInv
  <2>7. \A t \in Times : lines'[t] <= 1 \/ t \in Legacy
    BY <2>1, <1>s DEF StaleInv
  <2> QED  BY <2>1, <2>3, <2>4, <2>6, <2>7, <1>n DEF StaleInv
<1>11. CASE BundlesDone
  <2>1. /\ pc = "bundle" /\ pc' = "prune" /\ Bundleable = {}
        /\ UNCHANGED <<index, lines, bundles, jsons, listed, migrated, adding, orphans>>
    BY <1>11 DEF BundlesDone, disk, lined, bundled, published, cuts
  <2>2. \A d \in Days : Stale(d) => Trimmed(d)
    BY <2>1, <1>s, UnbundledExpire
  <2>3. \A d \in Days : Stale(d)' => Trimmed(d)'
    BY <2>1, <2>2, <1>k, <1>t
  <2> QED  BY <2>1, <2>3, <1>s, <1>n, <1>c DEF StaleInv
<1>12. CASE PruneDay
  <2>1. PICK e \in index : /\ index' = index \ {e} /\ day' = e
                           /\ lines' = [t \in Times |-> IF Day(t) = e THEN 0 ELSE lines[t]]
    BY <1>12 DEF PruneDay
  <2>2. /\ pc = "prune" /\ pc' = "rmIndex"
        /\ UNCHANGED <<bundles, jsons, listed, migrated, adding, orphans>>
    BY <1>12 DEF PruneDay, bundled, published, cuts
  <2>3. \A d : Stale(d)' => Stale(d)
    <3> SUFFICES ASSUME NEW d, Stale(d)' PROVE Stale(d)
      OBVIOUS
    <3>1. d \in index /\ d # e
      BY <2>1 DEF Stale
    <3>2. \A t \in Of(d) : lines'[t] = lines[t]
      BY <2>1, <3>1 DEF Of
    <3> QED  BY <2>2, <3>1, <3>2 DEF Stale, Of
  <2>4. \A t \in Times : lines'[t] <= 1 \/ t \in Legacy
    BY <2>1, <1>s DEF StaleInv
  <2>5. \A d \in jsons \cup bundles : d \in index' \cup orphans' \/ d = e
    BY <2>1, <2>2, <1>s DEF StaleInv
  <2>6. \A d \in Days : Stale(d)' => d \notin bundles' \/ Trimmed(d)'
    BY <2>2, <2>3, <1>s, <1>t DEF StaleInv
  <2>7. adding => \A d \in Days : Stale(d)' => Trimmed(d)'
    BY <2>2, <2>3, <1>s, <1>t DEF StaleInv
  <2> QED  BY <2>1, <2>2, <2>4, <2>5, <2>6, <2>7, <1>n, <1>c DEF StaleInv
<1>13. CASE UnlinkIndex
  <2>1. /\ jsons' = jsons \ {day} /\ listed' = listed \ Of(day)
        /\ pc = "rmIndex" /\ pc' = "rmBundle"
        /\ UNCHANGED <<index, lines, bundles, migrated, adding, orphans, day>>
    BY <1>13 DEF UnlinkIndex, lined, bundled, cuts
  <2>2. \A d : Stale(d)' => Stale(d)
    <3> SUFFICES ASSUME NEW d, Stale(d)' PROVE Stale(d)
      OBVIOUS
    <3>1. d \in index /\ d # day
      BY <2>1, <1>a DEF Stale, LineInv
    <3>2. \A t \in Of(d) : t \in listed' <=> t \in listed
      BY <2>1, <3>1 DEF Of
    <3> QED  BY <2>1, <3>1, <3>2 DEF Stale, Of
  <2>3. \A d \in jsons' : d \in index' \cup orphans'
    BY <2>1, <1>s DEF StaleInv
  <2> QED  BY <2>1, <2>2, <2>3, <1>s, <1>t, <1>n, <1>c DEF StaleInv
<1>14. CASE UnlinkBundle
  <2>1. /\ bundles' = bundles \ {day} /\ pc = "rmBundle" /\ pc' = "prune"
        /\ UNCHANGED <<index, lines, jsons, listed, migrated, adding, orphans>>
    BY <1>14 DEF UnlinkBundle, lined, published, cuts
  <2> QED  BY <2>1, <1>s, <1>t, <1>k, <1>n, <1>c DEF StaleInv
<1>15. CASE PruneLines
  <2>1. lines' = [t \in Times |-> IF t + Retention < clock THEN 0 ELSE lines[t]]
    BY <1>15 DEF PruneLines
  <2>2. /\ pc = "prune" /\ pc' = "reprint"
        /\ UNCHANGED <<index, bundles, jsons, listed, migrated, adding, orphans>>
    BY <1>15 DEF PruneLines, bundled, published, cuts
  <2>3. \A d : Stale(d)' => Stale(d) \/ Trimmed(d)
    <3> SUFFICES ASSUME NEW d, Stale(d)', ~Stale(d) PROVE Trimmed(d)
      OBVIOUS
    <3>1. PICK t \in Of(d) : lines'[t] # lines[t]
      BY <2>2 DEF Stale, Of
    <3>2. t \in Times /\ Day(t) = d
      BY DEF Of
    <3>3. t + Retention < clock
      BY <2>1, <3>1, <3>2
    <3> QED  BY <3>2, <3>3, <1>a, TimesInNat, TrimmedFirst DEF TypeInv
  <2>4. \A t \in Times : lines'[t] <= 1 \/ t \in Legacy
    BY <2>1, <1>s DEF StaleInv
  <2>5. \A d \in Days : Stale(d)' => d \notin bundles' \/ Trimmed(d)'
    BY <2>2, <2>3, <1>s, <1>t DEF StaleInv
  <2>6. adding => \A d \in Days : Stale(d)' => Trimmed(d)'
    BY <2>2, <2>3, <1>s, <1>t DEF StaleInv
  <2> QED  BY <2>2, <2>4, <2>5, <2>6, <1>s, <1>n, <1>a DEF StaleInv, LineInv
<1>16. CASE PublishPruned
  <2> DEFINE D == {d \in index : d * Slots + Retention < clock}
  <2>1. /\ PublishDays(D) /\ pc = "reprint" /\ pc' = "list"
        /\ UNCHANGED <<index, lines, bundles, migrated, adding, orphans>>
    BY <1>16 DEF PublishPruned, lined, bundled, cuts
  <2>2. \A d : Stale(d)' => Stale(d) /\ ~Trimmed(d)
    <3>1. \A d : Stale(d)' => Stale(d) /\ d \notin D
      BY <2>1, <1>a, PublishFresh
    <3> QED  BY <3>1 DEF Trimmed, Stale
  <2>3. \A d \in jsons' : d \in index' \cup orphans'
    BY <2>1, <1>s DEF PublishDays, StaleInv
  <2>4. \A t \in Times : lines'[t] <= 1 \/ t \in Legacy
    BY <2>1, <1>s DEF StaleInv
  <2>5. \A d \in Days : Stale(d)' => d \notin bundles'
    BY <2>1, <2>2, <1>s DEF StaleInv
  <2>6. adding => \A d \in Days : ~Stale(d)'
    BY <2>1, <2>2, <1>s DEF StaleInv
  <2> HIDE DEF D
  <2> QED  BY <2>1, <2>3, <2>4, <2>5, <2>6, <1>n, <1>a DEF StaleInv, LineInv
<1>17. CASE List
  <2>1. /\ pc = "list" /\ pc' = (IF adding THEN "sweep" ELSE "idle")
        /\ UNCHANGED <<index, lines, bundles, jsons, listed, migrated, adding, orphans>>
    BY <1>17 DEF List, lined, bundled, published, cuts
  <2>2. ManifestMatches'
    BY <1>17, ListMatches
  <2> QED  BY <2>1, <2>2, <1>s, <1>t, <1>k, <1>c DEF StaleInv
<1>18. CASE Sweep
  BY <1>18, <1>s, <1>t, <1>k, <1>o, <1>c
  DEF Sweep, StaleInv, lined, bundled, published, cuts
<1>19. CASE CollectFails
  BY <1>19, <1>s, <1>t, <1>k, <1>o, <1>c
  DEF CollectFails, StaleInv, disk, lined, bundled, published
<1>20. CASE PowerCut
  <2>1. pc # "remove"
    BY <1>20 DEF PowerCut, Fault
  <2>2. /\ pc' = "off" /\ settled' = FALSE
        /\ UNCHANGED <<captures, index, lines, bundles, jsons, listed, migrated>>
        /\ orphans' = orphans \cup {d \in {day} : pc \in {"rmIndex", "rmBundle"}}
    BY <1>20 DEF PowerCut, disk, lined, bundled, published
  <2>3. \A d \in jsons' \cup bundles' : d \in index' \cup orphans'
    BY <2>2, <1>s DEF StaleInv
  <2>4. \A d \in Days : Stale(d)' => d \notin bundles' \/ Trimmed(d)'
    BY <2>1, <2>2, <1>s, <1>t, <1>k DEF StaleInv
  <2> QED  BY <2>2, <2>3, <2>4, <1>s, <1>n, <1>c DEF StaleInv
<1>21. CASE Tick
  BY <1>21, <1>s, <1>t, <1>k, StaleQuiet DEF Tick, disk, lined, bundled, published, cuts
<1>22. CASE UNCHANGED vars
  BY <1>22, <1>s, <1>t, <1>k, StaleQuiet DEF vars, lined, bundled, published
<1>23. CASE MigrationCut
  <2>1. /\ pc' = "off" /\ bundles' = {} /\ orphans' = orphans /\ ~migrated
        /\ captures' = captures /\ index \subseteq index'
        /\ \A t \in Times : lines'[t] = lines[t] \/ t \in captures
        /\ \A d \in jsons' : d \in jsons \/ d \in index'
    BY <1>23, CutEffect
  <2>2. \A t \in Times : lines'[t] <= 1 \/ t \in Legacy
    BY <2>1, <1>s DEF StaleInv
  <2>3. pc \in {"rebuild", "publishAll"}
    BY <1>23 DEF MigrationCut
  <2>4. \A d \in jsons' : d \in index' \cup orphans'
    BY <2>1, <2>3, <1>s DEF StaleInv
  <2> QED  BY <2>1, <2>2, <2>4, <1>n, <1>c DEF StaleInv
<1> QED
  BY <1>1, <1>2, <1>3, <1>4, <1>5, <1>6, <1>7, <1>8, <1>9, <1>10, <1>11,
     <1>12, <1>13, <1>14, <1>15, <1>16, <1>17, <1>18, <1>19, <1>20, <1>21, <1>22,
     <1>23 DEF Next, Loop

(* After an add, the manifest names exactly the published indexes with the  *)
(* number of snapshots each lists, wherever but in the bundling of a day    *)
(* power was cut before and whatever collection failed: a day that was      *)
(* never published again is found by the bundling of the next add or by its *)
(* trimming.  What cuts leave are the files of a day cut in its removal and *)
(* the lines that a migration, cut and run again, wrote twice.              *)
THEOREM ManifestCorrect ==
  ASSUME "bundle" \notin Faults
  PROVE  Spec => []ManifestMatches
<1>1. Init => OrphanInv /\ StaleInv
  BY DEF Init, OrphanInv, StaleInv, Stale, ManifestMatches
<1>2. Inv /\ OrphanInv /\ StaleInv /\ [Next]_vars => OrphanInv' /\ StaleInv'
  BY OrphanStep, StaleStep
<1>3. StaleInv => ManifestMatches
  BY DEF StaleInv
<1> QED  BY <1>1, <1>2, <1>3, InvHolds, PTL DEF Spec
=============================================================================
