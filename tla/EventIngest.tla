----------------------------- MODULE EventIngest ----------------------------
(***************************************************************************)
(* The events command of network-snapshot-collect.sh: ZD's event log is    *)
(* fetched page by page, newest first, and every page is committed to      *)
(* SQLite (zd1200-ping-monitor ingest-events) before the next is fetched.  *)
(* Events go on being logged while a collection runs, which shifts the     *)
(* offsets of the pages.                                                   *)
(*                                                                         *)
(* An event is its position in the log; the hash that tells two events of  *)
(* the same second apart is assumed not to collide, and every event to     *)
(* carry a time: one without is skipped and not counted, so that a full    *)
(* page with such an event looks like the last one of the log.             *)
(***************************************************************************)
EXTENDS Naturals, Sequences, FiniteSets, FiniteSetsExt

CONSTANTS
  PageSize,   \* events asked for in a request, 300
  MaxPages,   \* requests in a collection, 100
  Retention,  \* how long an event is kept, 30 days
  MaxClock,   \* bound: the last instant of a behaviour
  MaxEvents,  \* bound: the length of ZD's log
  MaxFaults   \* bound: requests or commits that fail

ASSUME BoundAssumption ==
  /\ {PageSize, MaxPages, MaxClock} \subseteq Nat \ {0}
  /\ {Retention, MaxEvents, MaxFaults} \subseteq Nat

VARIABLES
  clock,      \* date +%s
  log,        \* ZD's events: their times, the oldest first
  db,         \* zd_event: the events it holds
  pc,         \* "idle" or "page"
  watermark,  \* the newest time in the database when the collection began
  began,      \* the time of the cutoff
  start,      \* the offset of the next page
  pages,      \* pages read so far
  expected,   \* history: the length of the log when the collection began
  ok,         \* the last collection ran to its end
  faults      \* failures so far

vars == <<clock, log, db, pc, watermark, began, start, pages, expected, ok,
          faults>>

Newest(rows) == IF rows = {} THEN 0 ELSE Max({log[i] : i \in rows})
Oldest(rows) == IF rows = {} THEN 0 ELSE Min({log[i] : i \in rows})

Init ==
  /\ clock = 1 /\ log = <<>> /\ db = {}
  /\ pc = "idle" /\ watermark = 0 /\ began = 0 /\ start = 0 /\ pages = 0
  /\ expected = 0 /\ ok = FALSE /\ faults = 0

Tick ==
  /\ clock < MaxClock
  /\ clock' = clock + 1
  /\ UNCHANGED <<log, db, pc, watermark, began, start, pages, expected, ok,
                 faults>>

(* ZD logs an event. *)
LogEvent ==
  /\ Len(log) < MaxEvents
  /\ log' = Append(log, clock)
  /\ UNCHANGED <<clock, db, pc, watermark, began, start, pages, expected, ok,
                 faults>>

(* event-watermark and the cutoff *)
Begin ==
  /\ pc = "idle"
  /\ watermark' = Newest(db)
  /\ began' = clock
  /\ start' = 0 /\ pages' = 0
  /\ expected' = Len(log) /\ ok' = FALSE
  /\ pc' = "page"
  /\ UNCHANGED <<clock, log, db, faults>>

(* The events of the page at the offset, counted from the newest. *)
Page == {i \in DOMAIN log : i + start <= Len(log) /\ i + start + PageSize > Len(log)}

(* Mutant: <= for <, so that a second shared with the watermark is over. *)
StopsEarly ==
  \/ Cardinality(Page) < PageSize
  \/ Oldest(Page) + Retention <= began
  \/ watermark > 0 /\ Oldest(Page) <= watermark
  \/ pages + 1 = MaxPages

(* The collection stops after this page. *)
Stops ==
  \/ Cardinality(Page) < PageSize
  \/ Oldest(Page) + Retention <= began
  \/ watermark > 0 /\ Oldest(Page) < watermark
  \/ pages + 1 = MaxPages

(* Mutant: the offset of the next page is advanced twice. *)
IngestSkips ==
  /\ pc = "page"
  /\ db' = {i \in db \cup Page : log[i] + Retention >= clock}
  /\ pages' = pages + 1
  /\ start' = start + Cardinality(Page) + PageSize
  /\ IF Stops THEN pc' = "idle" /\ ok' = TRUE ELSE UNCHANGED <<pc, ok>>
  /\ UNCHANGED <<clock, log, watermark, began, expected, faults>>

(* One page is fetched, committed, and the expired events are deleted. *)
Ingest ==
  /\ pc = "page"
  /\ db' = {i \in db \cup Page : log[i] + Retention >= clock}
  /\ pages' = pages + 1
  /\ start' = start + Cardinality(Page)
  /\ IF Stops THEN pc' = "idle" /\ ok' = TRUE ELSE UNCHANGED <<pc, ok>>
  /\ UNCHANGED <<clock, log, watermark, began, expected, faults>>

(* The request or the commit fails: the pages before it stay committed. *)
IngestFails ==
  /\ pc = "page"
  /\ faults < MaxFaults
  /\ faults' = faults + 1
  /\ pc' = "idle"
  /\ UNCHANGED <<clock, log, db, watermark, began, start, pages, expected, ok>>

Next == Tick \/ LogEvent \/ Begin \/ Ingest \/ IngestFails

Spec == Init /\ [][Next]_vars

-----------------------------------------------------------------------------
(* Every variable has its type. *)
TypeInv ==
  /\ clock \in 1 .. MaxClock
  /\ log \in Seq(1 .. MaxClock) /\ Len(log) <= MaxEvents
  /\ db \subseteq DOMAIN log
  /\ pc \in {"idle", "page"} /\ ok \in BOOLEAN
  /\ {watermark, began} \subseteq 0 .. MaxClock
  /\ start \in 0 .. MaxEvents /\ pages \in 0 .. MaxPages
  /\ expected \in 0 .. MaxEvents /\ faults \in Nat

(* A collection that ran to its end has every retained event from the        *)
(* watermark on, those of the watermark's own second and those that moved to *)
(* a later page while it ran included; earlier failures make no difference.  *)
NewEventsStored ==
  ok => \A i \in 1 .. expected :
          log[i] >= watermark /\ log[i] + Retention > clock => i \in db

(* "Once a page overlaps the previous high-water mark, all remaining pages   *)
(* are already present": a collection that ran to its end leaves no retained *)
(* event of its start out of the database.                                   *)
NoGap ==
  ok => \A i \in 1 .. expected : log[i] + Retention > clock => i \in db
=============================================================================
