-------------------------- MODULE EventIngestProofs --------------------------
(* Proofs about EventIngest for every page size, retention, clock and number *)
(* of failures, as long as a collection may ask for enough pages.            *)
EXTENDS EventIngest, FiniteSetTheorems, WellFoundedInduction, TLAPS

(* A collection may read the whole log: 100 pages of 300 events in the code. *)
EnoughPages == MaxEvents <= PageSize * MaxPages

-----------------------------------------------------------------------------
(* The newest and the oldest time of a set of events. *)

(* A set of numbers with a least one has it as its minimum. *)
LEMMA MinIs ==
  ASSUME NEW T \in SUBSET Nat, NEW n \in T, \A t \in T : n <= t
  PROVE  Min(T) = n
<1>1. \A x \in T : (\A y \in T : x <= y) => x = n
  OBVIOUS
<1> QED  BY <1>1 DEF Min

(* A set of numbers has a least one. *)
LEMMA LeastOf ==
  ASSUME NEW T \in SUBSET Nat, T # {} PROVE \E n \in T : \A t \in T : n <= t
<1> DEFINE R == OpToRel(<, Nat)
<1>1. IsWellFoundedOn(R, Nat)
  BY NatLessThanWellFounded
<1>2. PICK n \in T : \A t \in T : ~(<<t, n>> \in R)
  <2> HIDE DEF R
  <2> QED  BY <1>1, WFMin
<1>3. \A t \in T : t < n => <<t, n>> \in R
  BY DEF OpToRel
<1>4. \A t \in T : ~(t < n)
  BY <1>2, <1>3
<1> QED  BY <1>4

(* A bounded set of numbers has its maximum. *)
LEMMA MaxOf ==
  ASSUME NEW b \in Nat, NEW T \in SUBSET (0 .. b), T # {} PROVE Max(T) \in T
<1> DEFINE below == {b - t : t \in T}
<1>1. below \in SUBSET Nat /\ below # {}
  <2>1. \A t \in T : b - t \in Nat
    OBVIOUS
  <2>2. PICK t \in T : TRUE
    OBVIOUS
  <2>3. b - t \in below
    OBVIOUS
  <2> QED  BY <2>1, <2>3
<1>2. PICK n \in below : \A m \in below : n <= m
  BY <1>1, LeastOf
<1>3. PICK t \in T : n = b - t
  BY <1>2
<1>4. \A u \in T : t >= u
  BY <1>2, <1>3
<1> QED  BY <1>4 DEF Max

-----------------------------------------------------------------------------
(* The inductive invariant. *)

(* The log is in the order of time and ends now. *)
LogInv ==
  /\ clock \in Nat /\ log \in Seq(Nat) /\ Len(log) <= MaxEvents
  /\ \A i \in 1 .. Len(log) : log[i] <= clock
  /\ \A i, j \in 1 .. Len(log) : i <= j => log[i] <= log[j]

(* Where a collection stands: every page before this one was a whole one. *)
PageInv ==
  /\ pc \in {"idle", "page"} /\ ok \in BOOLEAN
  /\ began \in Nat /\ began <= clock /\ expected \in 0 .. Len(log)
  /\ start \in 0 .. Len(log) /\ pages \in 0 .. MaxPages
  /\ pc = "page" => ~ok /\ start = PageSize * pages /\ pages < MaxPages

(* Of the events a collection has passed, counted from the newest, those of  *)
(* its beginning that are still retained are in the database; events logged  *)
(* meanwhile only move the boundary to newer ones.                           *)
ReadInv ==
  pc = "page" =>
    \A i \in 1 .. expected :
      i + start > Len(log) /\ log[i] + Retention > clock => i \in db

Inv == TypeInv /\ LogInv /\ PageInv /\ ReadInv /\ NewEventsStored

(* Nothing was collected at the beginning. *)
LEMMA InvInit == Init => Inv
<1> SUFFICES ASSUME Init PROVE Inv
  OBVIOUS
<1>1. TypeInv
  <2>1. pc \in {"idle", "page"} /\ ok \in BOOLEAN
    BY DEF Init
  <2>2. /\ log \in Seq(1 .. MaxClock) /\ Len(log) <= MaxEvents
        /\ db \subseteq DOMAIN log
    BY BoundAssumption DEF Init
  <2>3. /\ clock \in 1 .. MaxClock /\ {watermark, began} \subseteq 0 .. MaxClock
        /\ start \in 0 .. MaxEvents /\ pages \in 0 .. MaxPages
        /\ expected \in 0 .. MaxEvents /\ faults \in Nat
    BY BoundAssumption DEF Init
  <2> QED  BY <2>1, <2>2, <2>3 DEF TypeInv
<1>2. LogInv
  BY BoundAssumption DEF Init, LogInv
<1>3. PageInv
  <2>1. pc \in {"idle", "page"} /\ pc # "page" /\ ok \in BOOLEAN
    BY DEF Init
  <2>2. /\ began \in Nat /\ began <= clock /\ expected \in 0 .. Len(log)
        /\ start \in 0 .. Len(log) /\ pages \in 0 .. MaxPages
    BY BoundAssumption DEF Init
  <2> QED  BY <2>1, <2>2 DEF PageInv
<1>4. ReadInv /\ NewEventsStored
  BY DEF Init, ReadInv, NewEventsStored
<1> QED  BY <1>1, <1>2, <1>3, <1>4 DEF Inv

-----------------------------------------------------------------------------
(* Pages. *)

(* How many numbers there are up to n. *)
LEMMA CountTo ==
  ASSUME NEW n \in Nat
  PROVE  IsFiniteSet(1 .. n) /\ Cardinality(1 .. n) = n
<1>1. /\ IsFiniteSet(1 .. n)
      /\ Cardinality(1 .. n) = IF 1 > n THEN 0 ELSE n - 1 + 1
  BY FS_Interval
<1> QED  BY <1>1

(* A page has the events of an interval of the log, PageSize at most; one    *)
(* that has fewer goes back to the oldest event.                             *)
LEMMA PageSizes ==
  ASSUME LogInv, start \in 0 .. Len(log)
  PROVE  /\ Cardinality(Page) \in Nat /\ Cardinality(Page) <= PageSize
         /\ start + Cardinality(Page) <= Len(log)
         /\ Cardinality(Page) < PageSize =>
              \A i \in 1 .. Len(log) : i + start <= Len(log) => i \in Page
<1> DEFINE top == Len(log) - start
           whole == top - PageSize + 1 .. top
<1>1. Len(log) \in Nat /\ PageSize \in Nat \ {0} /\ top \in Int
      /\ DOMAIN log = 1 .. Len(log)
  BY BoundAssumption DEF LogInv
<1>2. IsFiniteSet(whole) /\ Cardinality(whole) = PageSize
  <2>1. top - PageSize + 1 \in Int
    BY <1>1
  <2>2. /\ IsFiniteSet(whole)
        /\ Cardinality(whole) = IF top - PageSize + 1 > top THEN 0
                                ELSE top - (top - PageSize + 1) + 1
    BY <1>1, <2>1, FS_Interval
  <2> QED  BY <1>1, <2>2
<1>3. Page \subseteq whole
  BY <1>1 DEF Page
<1>4. /\ IsFiniteSet(Page) /\ Cardinality(Page) <= Cardinality(whole)
      /\ Cardinality(whole) = Cardinality(Page) => whole = Page
  BY <1>2, <1>3, FS_Subset
<1>5. Cardinality(Page) \in Nat
  BY <1>4, FS_CardinalityType
<1>6. ASSUME Cardinality(Page) < PageSize,
             NEW i \in 1 .. Len(log), i + start <= Len(log)
      PROVE  i \in Page
  <2>1. SUFFICES ASSUME ~(i + start + PageSize > Len(log)) PROVE FALSE
    BY <1>1, <1>6 DEF Page
  <2>2. whole \subseteq Page
    BY <1>1, <2>1 DEF Page
  <2>3. whole = Page
    BY <1>3, <2>2
  <2> QED  BY <1>1, <1>2, <1>5, <1>6, <2>3
<1>7. Cardinality(Page) <= Len(log) - start
  <2>1. top \in Nat
    BY <1>1
  <2>2. IsFiniteSet(1 .. top) /\ Cardinality(1 .. top) = top
    BY <2>1, CountTo
  <2>3. Page \subseteq 1 .. top
    BY <1>1 DEF Page
  <2>4. Cardinality(Page) <= Cardinality(1 .. top)
    BY <2>2, <2>3, FS_Subset
  <2> QED  BY <1>1, <1>5, <2>2, <2>4
<1> QED  BY <1>1, <1>2, <1>4, <1>5, <1>6, <1>7

(* No event before a page that has one is newer than its oldest one. *)
LEMMA OldestBounds ==
  ASSUME LogInv, start \in 0 .. Len(log), Page # {},
         NEW i \in 1 .. Len(log), i + start <= Len(log), i \notin Page
  PROVE  Oldest(Page) \in Nat /\ log[i] <= Oldest(Page)
<1> DEFINE m == Len(log) - start - PageSize + 1
<1>1. /\ Len(log) \in Nat /\ PageSize \in Nat \ {0} /\ m \in Int
      /\ DOMAIN log = 1 .. Len(log)
      /\ \A j \in 1 .. Len(log) : log[j] \in Nat
  <2>1. log \in Seq(Nat)
    BY DEF LogInv
  <2>2. /\ Len(log) \in Nat /\ DOMAIN log = 1 .. Len(log)
        /\ \A j \in 1 .. Len(log) : log[j] \in Nat
    BY <2>1
  <2>3. PageSize \in Nat \ {0}
    BY BoundAssumption
  <2> QED  BY <2>2, <2>3
<1>2. i < m
  BY <1>1 DEF Page
<1>3. m \in Page /\ \A j \in Page : m <= j
  BY <1>1, <1>2 DEF Page
<1>4. m \in 1 .. Len(log) /\ Page \subseteq 1 .. Len(log)
  BY <1>1, <1>3 DEF Page
<1>5. \A j \in Page : log[m] <= log[j]
  BY <1>3, <1>4 DEF LogInv
<1>6. Oldest(Page) = log[m]
  <2> DEFINE times == {log[j] : j \in Page}
  <2>1. times \in SUBSET Nat
    BY <1>1, <1>4
  <2>2. log[m] \in times /\ \A t \in times : log[m] <= t
    BY <1>3, <1>5
  <2>3. Min(times) = log[m]
    BY <2>1, <2>2, MinIs
  <2>4. Oldest(Page) = Min(times)
    BY <1>3, Zenon DEF Oldest
  <2> QED  BY <2>3, <2>4
<1>7. log[i] <= log[m]
  BY <1>1, <1>2, <1>4 DEF LogInv
<1> QED  BY <1>1, <1>4, <1>6, <1>7

-----------------------------------------------------------------------------
(* A new event leaves the others where they are. *)
LEMMA Appended ==
  ASSUME LogInv, LogEvent
  PROVE  /\ log' \in Seq(Nat) /\ Len(log') = Len(log) + 1
         /\ \A i \in 1 .. Len(log) : log'[i] = log[i]
         /\ log'[Len(log) + 1] = clock
<1>1. log \in Seq(Nat) /\ clock \in Nat /\ log' = Append(log, clock)
  BY DEF LogInv, LogEvent
<1> QED  BY <1>1

(* Every step keeps the log in order, and no event is from the future. *)
LEMMA LogStep == LogInv /\ [Next]_vars => LogInv'
<1> SUFFICES ASSUME LogInv, [Next]_vars PROVE LogInv'
  OBVIOUS
<1>1. CASE Tick  BY <1>1 DEF Tick, LogInv
<1>2. CASE LogEvent
  <2>1. /\ log \in Seq(Nat) /\ clock \in Nat /\ Len(log) < MaxEvents
        /\ clock' = clock
    BY <1>2 DEF LogEvent, LogInv
  <2>2. /\ log' \in Seq(Nat) /\ Len(log') = Len(log) + 1
        /\ \A i \in 1 .. Len(log) : log'[i] = log[i]
        /\ log'[Len(log) + 1] = clock
    BY <1>2, Appended
  <2>3. /\ Len(log) \in Nat /\ Len(log') <= MaxEvents /\ clock' \in Nat
        /\ \A i \in 1 .. Len(log') : i \in 1 .. Len(log) \/ i = Len(log) + 1
    BY <2>1, <2>2, BoundAssumption
  <2>4. \A i \in 1 .. Len(log') : log'[i] <= clock'
    BY <2>1, <2>2, <2>3 DEF LogInv
  <2>5. ASSUME NEW i \in 1 .. Len(log'), NEW j \in 1 .. Len(log'), i <= j
        PROVE  log'[i] <= log'[j]
    <3>1. CASE j = Len(log) + 1
      BY <2>1, <2>2, <2>4, <3>1
    <3>2. CASE j \in 1 .. Len(log)
      <4>1. i \in 1 .. Len(log)
        BY <2>3, <2>5, <3>2
      <4> QED  BY <2>2, <2>5, <3>2, <4>1 DEF LogInv
    <3> QED  BY <2>3, <3>1, <3>2
  <2> QED  BY <2>2, <2>3, <2>4, <2>5 DEF LogInv
<1>3. CASE Begin \/ Ingest \/ IngestFails \/ UNCHANGED vars
  BY <1>3 DEF Begin, Ingest, IngestFails, vars, LogInv
<1> QED  BY <1>1, <1>2, <1>3 DEF Next

(* A page that does not end the collection is a whole one. *)
LEMMA PageStep == LogInv /\ PageInv /\ [Next]_vars => PageInv'
<1> SUFFICES ASSUME LogInv, PageInv, [Next]_vars PROVE PageInv'
  OBVIOUS
<1>0. /\ Len(log) \in Nat /\ clock \in Nat /\ PageSize \in Nat \ {0}
      /\ MaxPages \in Nat \ {0}
  BY BoundAssumption DEF LogInv
<1>1. CASE Tick  BY <1>0, <1>1 DEF Tick, PageInv
<1>2. CASE LogEvent
  <2>1. Len(log') = Len(log) + 1
    BY <1>2, Appended
  <2> QED  BY <1>0, <1>2, <2>1 DEF LogEvent, PageInv
<1>3. CASE Begin
  <2>1. /\ began' = clock /\ clock' = clock /\ start' = 0 /\ pages' = 0
        /\ expected' = Len(log) /\ log' = log /\ pc' = "page"
    BY <1>3 DEF Begin
  <2>2. ok' = FALSE
    BY <1>3 DEF Begin
  <2>3. /\ began' \in Nat /\ began' <= clock' /\ expected' \in 0 .. Len(log')
        /\ start' \in 0 .. Len(log') /\ pages' \in 0 .. MaxPages
        /\ start' = PageSize * pages' /\ pages' < MaxPages
    BY <1>0, <2>1
  <2> QED  BY <2>1, <2>2, <2>3 DEF PageInv
<1>4. CASE Ingest
  <2>1. /\ Cardinality(Page) \in Nat /\ Cardinality(Page) <= PageSize
        /\ start + Cardinality(Page) <= Len(log)
        /\ start \in Nat /\ pages \in Nat
    BY <1>0, PageSizes DEF PageInv
  <2>2. /\ start = PageSize * pages /\ pages < MaxPages /\ ~ok /\ pc = "page"
        /\ start' = start + Cardinality(Page) /\ pages' = pages + 1
        /\ UNCHANGED <<log, clock, began, expected>>
    BY <1>4 DEF Ingest, PageInv
  <2>3. start' \in 0 .. Len(log') /\ pages' \in 0 .. MaxPages
    BY <1>0, <2>1, <2>2
  <2>4. CASE Stops
    <3>1. pc' = "idle" /\ ok' = TRUE
      BY <1>4, <2>4 DEF Ingest
    <3> QED  BY <2>2, <2>3, <3>1 DEF PageInv
  <2>5. CASE ~Stops
    <3>1. pc' = "page" /\ ok' = ok
      BY <1>4, <2>2, <2>5 DEF Ingest
    <3>2. Cardinality(Page) = PageSize /\ pages + 1 # MaxPages
      BY <1>0, <2>1, <2>5 DEF Stops
    <3>3. start' = PageSize * pages'
      BY <1>0, <2>1, <2>2, <3>2
    <3>4. pages' < MaxPages
      BY <1>0, <2>1, <2>2, <3>2
    <3> QED  BY <2>2, <2>3, <3>1, <3>3, <3>4 DEF PageInv
  <2> QED  BY <2>4, <2>5
<1>5. CASE IngestFails  BY <1>5 DEF IngestFails, PageInv
<1>6. CASE UNCHANGED vars  BY <1>6 DEF vars, PageInv
<1> QED  BY <1>1, <1>2, <1>3, <1>4, <1>5, <1>6 DEF Next

(* What is committed with a page: every retained event passed so far. *)
LEMMA IngestReads ==
  ASSUME LogInv, PageInv, ReadInv, Ingest,
         NEW i \in 1 .. expected, log[i] + Retention > clock,
         i + start > Len(log) \/ i \in Page
  PROVE  i \in db'
<1>1. Retention \in Nat /\ clock \in Nat /\ log \in Seq(Nat)
  BY BoundAssumption DEF LogInv
<1>2. i \in 1 .. Len(log)
  BY <1>1 DEF PageInv
<1>3. log[i] \in Nat
  BY <1>1, <1>2
<1>4. i \in db \cup Page
  BY DEF ReadInv, Ingest
<1>5. log[i] + Retention >= clock
  BY <1>1, <1>3
<1> QED  BY <1>4, <1>5 DEF Ingest

(* Every step keeps what was read. *)
LEMMA ReadStep == LogInv /\ PageInv /\ ReadInv /\ [Next]_vars => ReadInv'
<1> SUFFICES ASSUME LogInv, PageInv, ReadInv, [Next]_vars, pc' = "page",
                    NEW i \in 1 .. expected',
                    i + start' > Len(log'), log'[i] + Retention > clock'
             PROVE  i \in db'
  BY DEF ReadInv
<1>0. /\ Len(log) \in Nat /\ clock \in Nat /\ Retention \in Nat
      /\ start \in 0 .. Len(log) /\ expected \in 0 .. Len(log)
      /\ \A j \in 1 .. Len(log) : log[j] \in Nat
  BY BoundAssumption DEF LogInv, PageInv
<1>1. CASE Tick  BY <1>0, <1>1 DEF Tick, ReadInv
<1>2. CASE LogEvent
  <2>1. /\ Len(log') = Len(log) + 1 /\ \A j \in 1 .. Len(log) : log'[j] = log[j]
        /\ UNCHANGED <<pc, start, expected, db, clock>>
    BY <1>2, Appended DEF LogEvent
  <2> QED  BY <1>0, <2>1 DEF ReadInv
<1>3. CASE Begin
  <2>1. start' = 0 /\ expected' = Len(log) /\ log' = log
    BY <1>3 DEF Begin
  <2> QED  BY <1>0, <2>1
<1>4. CASE Ingest
  <2>1. /\ start' = start + Cardinality(Page)
        /\ UNCHANGED <<log, clock, expected>> /\ pc' = "page" /\ pc = "page"
    BY <1>4 DEF Ingest
  <2>2. ~Stops
    BY <1>4, <2>1 DEF Ingest
  <2>3. Cardinality(Page) = PageSize /\ PageSize \in Nat
    BY <1>0, <2>2, PageSizes, BoundAssumption DEF Stops
  <2>4. i + start > Len(log) \/ i \in Page
    BY <1>0, <2>1, <2>3 DEF Page, LogInv
  <2> QED  BY <1>4, <2>1, <2>4, IngestReads
<1>5. CASE IngestFails  BY <1>5 DEF IngestFails
<1>6. CASE UNCHANGED vars  BY <1>6 DEF vars, ReadInv
<1> QED  BY <1>1, <1>2, <1>3, <1>4, <1>5, <1>6 DEF Next

(* When a collection stops, what it has not passed is older than the         *)
(* watermark or no longer retained.                                          *)
LEMMA StopsRight ==
  ASSUME EnoughPages, LogInv, PageInv, pc = "page", Stops,
         watermark \in Nat,
         NEW i \in 1 .. expected,
         log[i] >= watermark, log[i] + Retention > clock,
         ~(i + start > Len(log))
  PROVE  i \in Page
<1>0. /\ Len(log) \in Nat /\ clock \in Nat /\ Retention \in Nat
      /\ start \in 0 .. Len(log) /\ i \in 1 .. Len(log) /\ i + start <= Len(log)
      /\ log[i] \in Nat /\ began \in Nat /\ began <= clock
      /\ PageSize \in Nat \ {0} /\ MaxPages \in Nat \ {0} /\ pages \in Nat
  <2>1. /\ PageSize \in Nat \ {0} /\ MaxPages \in Nat \ {0}
        /\ Retention \in Nat /\ clock \in Nat /\ log \in Seq(Nat)
    BY BoundAssumption DEF LogInv
  <2>2. /\ start \in 0 .. Len(log) /\ pages \in 0 .. MaxPages
        /\ began \in Nat /\ began <= clock /\ expected \in 0 .. Len(log)
    BY DEF PageInv
  <2>3. i \in 1 .. Len(log) /\ i + start <= Len(log)
    BY <2>1, <2>2
  <2> QED  BY <2>1, <2>2, <2>3
<1> SUFFICES ASSUME i \notin Page PROVE FALSE
  OBVIOUS
<1>1. Cardinality(Page) = PageSize
  BY <1>0, PageSizes
<1>2. Page # {}
  BY <1>0, <1>1, FS_EmptySet
<1>3. Oldest(Page) \in Nat /\ log[i] <= Oldest(Page)
  BY <1>0, <1>2, OldestBounds
<1>4. pages + 1 = MaxPages
  BY <1>0, <1>1, <1>3 DEF Stops
<1>5. start + PageSize = PageSize * MaxPages
  BY <1>0, <1>4 DEF PageInv
<1>6. Len(log) <= start + PageSize
  BY <1>0, <1>5, BoundAssumption DEF EnoughPages, LogInv
<1> QED  BY <1>0, <1>6 DEF Page, LogInv

(* Every step keeps a collection that ran to its end complete. *)
LEMMA StoredStep ==
  ASSUME EnoughPages
  PROVE  Inv /\ watermark \in Nat /\ [Next]_vars => NewEventsStored'
<1> SUFFICES ASSUME LogInv, PageInv, ReadInv, NewEventsStored,
                    watermark \in Nat, [Next]_vars, ok',
                    NEW i \in 1 .. expected',
                    log'[i] >= watermark', log'[i] + Retention > clock'
             PROVE  i \in db'
  BY DEF Inv, NewEventsStored
<1>0. /\ Len(log) \in Nat /\ clock \in Nat /\ Retention \in Nat
      /\ expected \in 0 .. Len(log)
      /\ \A j \in 1 .. Len(log) : log[j] \in Nat
  BY BoundAssumption DEF LogInv, PageInv
<1>1. CASE Tick  BY <1>0, <1>1 DEF Tick, NewEventsStored
<1>2. CASE LogEvent
  <2>1. /\ \A j \in 1 .. Len(log) : log'[j] = log[j]
        /\ UNCHANGED <<ok, watermark, expected, db, clock>>
    BY <1>2, Appended DEF LogEvent
  <2> QED  BY <1>0, <2>1 DEF NewEventsStored
<1>3. CASE Begin  BY <1>3 DEF Begin
<1>4. CASE Ingest
  <2>1. UNCHANGED <<log, clock, expected, watermark>> /\ pc = "page" /\ ~ok
    BY <1>4 DEF Ingest, PageInv
  <2>2. Stops
    BY <1>4, <2>1 DEF Ingest
  <2>3. i + start > Len(log) \/ i \in Page
    BY <2>1, <2>2, StopsRight
  <2> QED  BY <1>4, <2>1, <2>3, IngestReads
<1>5. CASE IngestFails  BY <1>5 DEF IngestFails, NewEventsStored
<1>6. CASE UNCHANGED vars  BY <1>6 DEF vars, NewEventsStored
<1> QED  BY <1>1, <1>2, <1>3, <1>4, <1>5, <1>6 DEF Next

-----------------------------------------------------------------------------
(* The newest time in the database is a time, or 0 for an empty one. *)
LEMMA NewestType ==
  ASSUME log \in Seq(1 .. MaxClock), db \subseteq DOMAIN log
  PROVE  Newest(db) \in 0 .. MaxClock
<1> DEFINE times == {log[i] : i \in db}
<1>1. times \in SUBSET (0 .. MaxClock)
  <2>1. \A i \in DOMAIN log : log[i] \in 1 .. MaxClock
    <3>1. ASSUME NEW S, NEW q \in Seq(S), NEW i \in DOMAIN q PROVE q[i] \in S
      OBVIOUS
    <3> QED  BY <3>1
  <2>2. 1 .. MaxClock \subseteq 0 .. MaxClock
    BY BoundAssumption
  <2> QED  BY <2>1, <2>2
<1>2. CASE db = {}
  BY <1>2, BoundAssumption DEF Newest
<1>3. CASE db # {}
  <2>1. times # {}
    BY <1>3
  <2>2. Max(times) \in times
    BY <1>1, <2>1, BoundAssumption, MaxOf
  <2>3. Newest(db) = Max(times)
    BY <1>3, Zenon DEF Newest
  <2> QED  BY <1>1, <2>2, <2>3
<1> QED  BY <1>2, <1>3

(* Every step leaves each variable in its type. *)
LEMMA TypeStep ==
  TypeInv /\ LogInv /\ PageInv /\ [Next]_vars => TypeInv'
<1> SUFFICES ASSUME TypeInv, LogInv, PageInv, [Next]_vars PROVE TypeInv'
  OBVIOUS
<1> USE DEF TypeInv
<1>0. LogInv' /\ PageInv'
  BY LogStep, PageStep
<1>1. /\ Len(log') \in Nat /\ Len(log') <= MaxEvents /\ MaxEvents \in Nat
      /\ start' \in 0 .. Len(log') /\ expected' \in 0 .. Len(log')
      /\ pages' \in 0 .. MaxPages /\ pc' \in {"idle", "page"}
      /\ ok' \in BOOLEAN
  BY <1>0, BoundAssumption DEF LogInv, PageInv
<1>2. start' \in 0 .. MaxEvents /\ expected' \in 0 .. MaxEvents
  BY <1>1
<1>3. CASE Tick
  <2>1. clock' \in 1 .. MaxClock
    BY <1>3, BoundAssumption DEF Tick
  <2> QED  BY <1>1, <1>2, <1>3, <2>1 DEF Tick
<1>4. CASE LogEvent
  <2>1. log' = Append(log, clock) /\ clock \in 1 .. MaxClock
        /\ log \in Seq(1 .. MaxClock)
    BY <1>4 DEF LogEvent
  <2>2. log' \in Seq(1 .. MaxClock) /\ DOMAIN log \subseteq DOMAIN log'
    BY <2>1
  <2> QED  BY <1>1, <1>2, <1>4, <2>2 DEF LogEvent
<1>5. CASE Begin
  <2>1. Newest(db) \in 0 .. MaxClock /\ clock \in 0 .. MaxClock
    BY NewestType, BoundAssumption
  <2> QED  BY <1>1, <1>2, <1>5, <2>1 DEF Begin
<1>6. CASE Ingest
  <2>1. Page \subseteq DOMAIN log
    BY DEF Page
  <2>2. db' \subseteq DOMAIN log'
    BY <1>6, <2>1 DEF Ingest
  <2> QED  BY <1>1, <1>2, <1>6, <2>2 DEF Ingest
<1>7. CASE IngestFails  BY <1>1, <1>2, <1>7 DEF IngestFails
<1>8. CASE UNCHANGED vars  BY <1>8 DEF vars
<1> QED  BY <1>3, <1>4, <1>5, <1>6, <1>7, <1>8 DEF Next

-----------------------------------------------------------------------------
(* Every variable keeps its type, whatever fails and however many events     *)
(* there are (the events command of network-snapshot-collect.sh).            *)
THEOREM TypeCorrect == Spec => []TypeInv
<1> DEFINE I == TypeInv /\ LogInv /\ PageInv
<1>1. Init => I
  BY InvInit DEF Inv
<1>2. I /\ [Next]_vars => I'
  BY TypeStep, LogStep, PageStep
<1> QED  BY <1>1, <1>2, PTL DEF Spec

(* The invariant holds in every state of every behaviour. *)
THEOREM InvHolds == ASSUME EnoughPages PROVE Spec => []Inv
<1>1. Inv /\ [Next]_vars => Inv'
  <2>1. TypeInv => watermark \in Nat
    BY BoundAssumption DEF TypeInv
  <2> QED  BY <2>1, TypeStep, LogStep, PageStep, ReadStep, StoredStep DEF Inv
<1> QED  BY InvInit, <1>1, PTL DEF Spec

(* A collection that ran to its end has every retained event of its          *)
(* beginning from the watermark on, although ZD went on logging while its    *)
(* pages were read and earlier collections may have failed                   *)
(* (network-snapshot-collect.sh, events; ingest_events).                     *)
THEOREM EventsStored == ASSUME EnoughPages PROVE Spec => []NewEventsStored
<1>1. Inv => NewEventsStored
  BY DEF Inv
<1> QED  BY InvHolds, <1>1, PTL
=============================================================================
