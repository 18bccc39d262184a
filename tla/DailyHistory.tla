---------------------------- MODULE DailyHistory ----------------------------
(***************************************************************************)
(* The ping history of the Network Monitor and the daily files that the    *)
(* browser downloads (analytics/ping-daily-publish.sh), driven by the      *)
(* round loop of S99zd_ping_monitor (boot-initrd-handoff).                 *)
(*                                                                         *)
(* One round of the loop commits a ping round to SQLite (tick), runs the   *)
(* one-time backfill of completed UTC days, and then publishes: rename the *)
(* finished current file to its day, export the day of the round, replace  *)
(* the current file, replace the day marker, drop expired files, replace   *)
(* the manifest.  Every rename is a step of its own, so that a power cut   *)
(* can fall between any two of them.                                       *)
(*                                                                         *)
(* A UTC day is a number, an observation round a number within its day,    *)
(* and a daily file is the day its header names with the rounds it holds.  *)
(***************************************************************************)
EXTENDS Naturals

CONSTANTS
  MaxDay,     \* bound: the last UTC day of a behaviour
  MaxRounds,  \* bound: rounds recorded within one day
  Retention,  \* days kept besides the current one (30 in the code)
  MaxFaults,  \* bound: failures and power cuts in a behaviour
  Faults,     \* which kinds of fault this instance admits
  NoFile,     \* the file does not exist
  NoDay       \* the marker does not exist

FaultKind == {"power", "swap", "export", "backfill"}
Days   == 0 .. MaxDay
Rounds == 1 .. MaxRounds

(* What gunzip of a daily file shows: the header's day and the time axis. *)
File == [day : Days, rounds : SUBSET Rounds]

ASSUME BoundAssumption ==
  /\ MaxDay \in Nat /\ MaxRounds \in Nat /\ MaxFaults \in Nat
  /\ Retention \in Nat /\ Retention >= 2
ASSUME FaultAssumption == Faults \subseteq FaultKind
ASSUME AbsentAssumption == NoFile \notin File /\ NoDay \notin Days

VARIABLES
  clock,      \* the UTC day now
  enabled,    \* MONITORING_ENABLED as the loop last read it
  db,         \* ping_result: the rounds recorded for each day
  files,      \* daily/ping-<day>.bin.gz
  current,    \* daily/ping-current.bin.gz
  marker,     \* daily/current-day
  backfilled, \* daily/.backfill-v2 exists
  manifest,   \* daily-manifest.json: the periods it lists
  pc,         \* the next step of the loop
  now,        \* $now of the loop and $day of the publisher
  bfDay,      \* $historical of the backfill loop
  staged,     \* the compressed temporary file
  settled,    \* the last publication ran to its end and nothing ran since
  shown,      \* history: rounds of each day some manifest has led the browser to
  faults      \* faults so far

vars == <<clock, enabled, db, files, current, marker, backfilled, manifest,
          pc, now, bfDay, staged, settled, shown, faults>>
disk == <<files, current, marker, backfilled, manifest, shown>>

Steps == {"off", "idle", "tick", "backfill", "listBackfill", "roll", "export",
          "swap", "mark", "retain", "list"}
Busy == Steps \ {"off", "idle"}

Cutoff == IF now < Retention THEN 0 ELSE now - Retention

(* The periods the exporter's manifest command finds in the daily directory: *)
(* every dated file, and the current file under the day of the marker.       *)
Advertised ==
  [start : {d \in Days : files[d] # NoFile}, immutable : {TRUE}]
    \cup (IF current # NoFile /\ marker # NoDay
          THEN {[start |-> marker, immutable |-> FALSE]} ELSE {})

(* The rounds of day d a browser decodes from the dated and current files. *)
Readable(d) ==
  (IF files[d] # NoFile /\ files[d].day = d THEN files[d].rounds ELSE {})
    \cup (IF current # NoFile /\ current.day = d THEN current.rounds ELSE {})

Fault(kind) ==
  /\ kind \in Faults
  /\ faults < MaxFaults
  /\ faults' = faults + 1

-----------------------------------------------------------------------------
Init ==
  /\ clock = 0 /\ enabled = FALSE
  /\ db = [d \in Days |-> {}]
  /\ files = [d \in Days |-> NoFile]
  /\ current = NoFile /\ marker = NoDay
  /\ backfilled = FALSE /\ manifest = {}
  /\ pc = "idle" /\ now = 0 /\ bfDay = 0 /\ staged = NoFile
  /\ settled = FALSE
  /\ shown = [d \in Days |-> {}]
  /\ faults = 0

(* Midnight.  An enabled loop starts a round at least every hour, and a     *)
(* round is bounded by the ping deadlines and the request timeouts: between *)
(* two midnights it starts one, and a round sees at most one midnight.      *)
Midnight ==
  /\ clock < MaxDay
  /\ pc \in Busy \/ (pc = "idle" /\ enabled) => clock = now
  /\ clock' = clock + 1
  /\ UNCHANGED <<enabled, db, disk, pc, now, bfDay, staged, settled, faults>>

(* The administrator's switch, as settings-sync reports it to the loop. *)
Toggle ==
  /\ pc = "idle"
  /\ enabled' = ~enabled
  /\ UNCHANGED <<clock, db, disk, pc, now, bfDay, staged, settled, faults>>

(* now=$(date +%s) and the start of a round that is due. *)
BeginRound ==
  /\ pc = "idle" /\ enabled
  /\ now' = clock
  /\ settled' = FALSE
  /\ pc' = "tick"
  /\ UNCHANGED <<clock, enabled, db, disk, bfDay, staged, faults>>

(* The retention of tick: rounds older than Retention days go, and of the   *)
(* day exactly Retention days ago those before the time of day, k rounds.   *)
Pruned(rows, day, k) ==
  [d \in Days |-> IF d + Retention < day THEN {}
                  ELSE IF d + Retention = day THEN {r \in rows[d] : r > k}
                  ELSE rows[d]]

(* tick reads its own time after the loop read $now, so the round may be    *)
(* stamped with the next day.                                               *)
Tick ==
  /\ pc = "tick"
  /\ \E stamp \in now .. clock, r \in Rounds, k \in 0 .. MaxRounds :
       /\ \A q \in db[stamp] : q < r
       /\ r = 1 \/ r - 1 \in db[stamp]
       /\ db' = Pruned([db EXCEPT ![stamp] = @ \cup {r}], stamp, k)
  /\ bfDay' = Cutoff
  /\ pc' = "backfill"
  /\ UNCHANGED <<clock, enabled, disk, now, staged, settled, faults>>

(* The round is rolled back (no socket, busy or full database). *)
TickFails ==
  /\ pc = "tick"
  /\ bfDay' = Cutoff
  /\ pc' = "backfill"
  /\ UNCHANGED <<clock, enabled, db, disk, now, staged, settled, faults>>

(* Mutant: the backfill does not look for .backfill-v2. *)
BackfillDayAgain ==
  /\ pc = "backfill" /\ bfDay < now
  /\ files' = [files EXCEPT ![bfDay] =
                 IF db[bfDay] = {} THEN NoFile
                 ELSE [day |-> bfDay, rounds |-> db[bfDay]]]
  /\ bfDay' = bfDay + 1
  /\ UNCHANGED <<clock, enabled, db, current, marker, backfilled, manifest,
                 pc, now, staged, settled, shown, faults>>

(* One day of the backfill: a day without rounds gets no file. *)
BackfillDay ==
  /\ pc = "backfill" /\ ~backfilled /\ bfDay < now
  /\ files' = [files EXCEPT ![bfDay] =
                 IF db[bfDay] = {} THEN NoFile
                 ELSE [day |-> bfDay, rounds |-> db[bfDay]]]
  /\ bfDay' = bfDay + 1
  /\ UNCHANGED <<clock, enabled, db, current, marker, backfilled, manifest,
                 pc, now, staged, settled, shown, faults>>

BackfillDone ==
  /\ pc = "backfill" /\ (backfilled \/ bfDay >= now)
  /\ backfilled' = TRUE
  /\ pc' = "listBackfill"
  /\ UNCHANGED <<clock, enabled, db, files, current, marker, manifest, now,
                 bfDay, staged, settled, shown, faults>>

ListPeriods ==
  /\ manifest' = Advertised
  /\ shown' = [d \in Days |-> shown[d] \cup Readable(d)]

ListBackfill ==
  /\ pc = "listBackfill"
  /\ ListPeriods
  /\ pc' = "roll"
  /\ UNCHANGED <<clock, enabled, db, files, current, marker, backfilled, now,
                 bfDay, staged, settled, faults>>

(* The exporter or gzip fails; the loop ignores it and goes on to publish. *)
BackfillFails ==
  /\ pc \in {"backfill", "listBackfill"}
  /\ Fault("backfill")
  /\ pc' = "roll"
  /\ UNCHANGED <<clock, enabled, db, disk, now, bfDay, staged, settled>>

(* Mutant: cp for mv. *)
RollCopies ==
  /\ pc = "roll"
  /\ files' = IF marker # NoDay /\ marker # now /\ current # NoFile
              THEN [files EXCEPT ![marker] = current] ELSE files
  /\ pc' = "export"
  /\ UNCHANGED <<clock, enabled, db, current, marker, backfilled, manifest,
                 now, bfDay, staged, settled, shown, faults>>

(* The current file of another day becomes the file of the marker's day. *)
Roll ==
  /\ pc = "roll"
  /\ IF marker # NoDay /\ marker # now /\ current # NoFile
     THEN /\ files' = [files EXCEPT ![marker] = current]
          /\ current' = NoFile
     ELSE UNCHANGED <<files, current>>
  /\ pc' = "export"
  /\ UNCHANGED <<clock, enabled, db, marker, backfilled, manifest, now, bfDay,
                 staged, settled, shown, faults>>

Export ==
  /\ pc = "export"
  /\ staged' = [day |-> now, rounds |-> db[now]]
  /\ pc' = "swap"
  /\ UNCHANGED <<clock, enabled, db, disk, now, bfDay, settled, faults>>

(* set -e: the trap removes the temporary files and the round is over. *)
PublishFails ==
  /\ pc \in {"export", "list"}
  /\ Fault("export")
  /\ staged' = NoFile
  /\ pc' = "idle"
  /\ UNCHANGED <<clock, enabled, db, disk, now, bfDay, settled>>

(* Mutant: mv -n leaves the current file of the day alone. *)
SwapKeeps ==
  /\ pc = "swap"
  /\ current' = IF current = NoFile THEN staged ELSE current
  /\ staged' = NoFile
  /\ pc' = "mark"
  /\ UNCHANGED <<clock, enabled, db, files, marker, backfilled, manifest, now,
                 bfDay, settled, shown, faults>>

(* mv compressed current *)
Swap ==
  /\ pc = "swap"
  /\ current' = staged
  /\ staged' = NoFile
  /\ pc' = "mark"
  /\ UNCHANGED <<clock, enabled, db, files, marker, backfilled, manifest, now,
                 bfDay, settled, shown, faults>>

(* Mutant: the marker is the date now, not the date of the export. *)
MarkClock ==
  /\ pc = "mark"
  /\ marker' = clock
  /\ pc' = "retain"
  /\ UNCHANGED <<clock, enabled, db, files, current, backfilled, manifest, now,
                 bfDay, staged, settled, shown, faults>>

(* Mutant: the marker is the day at whose midnight the file is renamed. *)
MarkNext ==
  /\ pc = "mark"
  /\ marker' = now + 1
  /\ pc' = "retain"
  /\ UNCHANGED <<clock, enabled, db, files, current, backfilled, manifest, now,
                 bfDay, staged, settled, shown, faults>>

(* mv marker_tmp marker *)
Mark ==
  /\ pc = "mark"
  /\ marker' = now
  /\ pc' = "retain"
  /\ UNCHANGED <<clock, enabled, db, files, current, backfilled, manifest, now,
                 bfDay, staged, settled, shown, faults>>

(* Mutant: one day is kept too long. *)
RetainLonger ==
  /\ pc = "retain"
  /\ files' = [d \in Days |-> IF d + Retention + 1 < now THEN NoFile ELSE files[d]]
  /\ pc' = "list"
  /\ UNCHANGED <<clock, enabled, db, current, marker, backfilled, manifest,
                 now, bfDay, staged, settled, shown, faults>>

Retain ==
  /\ pc = "retain"
  /\ files' = [d \in Days |-> IF d + Retention < now THEN NoFile ELSE files[d]]
  /\ pc' = "list"
  /\ UNCHANGED <<clock, enabled, db, current, marker, backfilled, manifest,
                 now, bfDay, staged, settled, shown, faults>>

List ==
  /\ pc = "list"
  /\ ListPeriods
  /\ settled' = TRUE
  /\ pc' = "idle"
  /\ UNCHANGED <<clock, enabled, db, files, current, marker, backfilled, now,
                 bfDay, staged, faults>>

(* The current file and the marker disagree about the day. *)
BetweenRenames == pc = "mark" /\ marker # now

(* The controller loses power: the loop is gone and nothing will ever read  *)
(* its temporary files; the database and the renamed files stay.  A cut     *)
(* between the two renames is a kind of its own ("swap").                   *)
PowerCut ==
  /\ pc # "off"
  /\ IF BetweenRenames THEN Fault("swap") ELSE Fault("power")
  /\ pc' = "off"
  /\ staged' = NoFile
  /\ settled' = FALSE
  /\ UNCHANGED <<clock, enabled, db, disk, now, bfDay>>

(* S99zd_ping_monitor starts the loop again; the saved preference decides   *)
(* whether it collects.                                                     *)
Boot ==
  /\ pc = "off"
  /\ pc' = "idle"
  /\ UNCHANGED <<clock, enabled, db, disk, now, bfDay, staged, settled, faults>>

Publisher ==
  \/ Boot \/ BeginRound \/ Tick \/ TickFails
  \/ BackfillDay \/ BackfillDone \/ ListBackfill
  \/ Roll \/ Export \/ Swap \/ Mark \/ Retain \/ List

Next ==
  \/ Publisher \/ BackfillFails \/ PublishFails \/ PowerCut
  \/ Midnight \/ Toggle

Spec == Init /\ [][Next]_vars

(* The loop is a process of its own that nothing blocks, and the container  *)
(* restarts unless it is stopped.                                           *)
FairSpec == Spec /\ WF_vars(Publisher)

-----------------------------------------------------------------------------
(* Every variable has its type. *)
TypeInv ==
  /\ clock \in Days /\ enabled \in BOOLEAN
  /\ db \in [Days -> SUBSET Rounds]
  /\ files \in [Days -> File \cup {NoFile}]
  /\ current \in File \cup {NoFile}
  /\ marker \in Days \cup {NoDay}
  /\ backfilled \in BOOLEAN
  /\ manifest \subseteq [start : Days, immutable : BOOLEAN]
  /\ pc \in Steps
  /\ now \in Days /\ bfDay \in Nat
  /\ staged \in File \cup {NoFile}
  /\ settled \in BOOLEAN
  /\ shown \in [Days -> SUBSET Rounds]
  /\ faults \in Nat

(* A dated file holds the day in its name: the rename in ping-daily-publish *)
(* trusts the marker, never the header, so the marker must still describe   *)
(* the current file whenever a round starts.                                *)
FileHoldsItsDay == \A d \in Days : files[d] # NoFile => files[d].day = d

(* Rounds that a manifest has once led the browser to stay readable for the *)
(* whole retention period, through failed publications and power cuts.      *)
ShownStaysReadable ==
  \A d \in Days : d + Retention > clock => shown[d] \subseteq Readable(d)

(* Once the backfill is over and no leftover current file of a backfilled   *)
(* day waits to be renamed over it, the completed days are immutable.       *)
Closed == backfilled /\ (current # NoFile => files[current.day] = NoFile)

ImmutableDays ==
  [][Closed => \A d \in Days :
       files[d] # NoFile => files'[d] \in {files[d], NoFile}]_vars

(* The days are published through the archive that HistoryArchive promises. *)
Archive == INSTANCE HistoryArchive
             WITH sealed <- files, open <- current, closed <- Closed
ArchiveSpec == Archive!Spec

(* A completed publication leaves a manifest the worker can load: one period *)
(* per day, each the file it says, none older than the retention.            *)
ManifestSound ==
  settled =>
    /\ manifest = Advertised
    /\ \A p, q \in manifest : p.start = q.start => p = q
    /\ \A p \in manifest :
         /\ p.start + Retention >= now
         /\ IF p.immutable THEN files[p.start].day = p.start
                           ELSE current.day = p.start

(* A round in the database while its day lasts is shown to the browser, or  *)
(* the day ends first, or monitoring is switched off.                       *)
RoundGetsShown ==
  \A d \in Days : \A r \in Rounds :
    (r \in db[d] /\ clock = d) ~> (r \in shown[d] \/ clock # d \/ ~enabled)
=============================================================================
