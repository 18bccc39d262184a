--------------------------- MODULE SnapshotStore ----------------------------
(***************************************************************************)
(* The retained AP, client and mesh snapshots: the collector               *)
(* (network-snapshot-collect.sh), the day indexes and daily bundles        *)
(* (snapshot-index-publish.sh rebuild and add) and the retention           *)
(* (zd1200-ping-monitor prune-snapshots), in the order in which the round  *)
(* loop of S99zd_ping_monitor runs them.                                   *)
(*                                                                         *)
(* A snapshot is the time it was taken at; its three captures stand or     *)
(* fall together.  Time is a number, Slots of them make a UTC day.         *)
(***************************************************************************)
EXTENDS Naturals, FiniteSets

CONSTANTS
  MaxTime,    \* bound: the last instant of a behaviour
  Slots,      \* instants in a UTC day
  Retention,  \* instants a snapshot is kept (30 days in the code)
  Legacy,     \* snapshots an earlier installation may have left behind
  MaxFaults,  \* bound: failures and power cuts in a behaviour
  Faults      \* which kinds of fault this instance admits

FaultKind == {"power", "bundle", "migrate", "unlink", "collect"}
Times == 1 .. MaxTime
Day(t) == t \div Slots
Days == 0 .. Day(MaxTime)

ASSUME BoundAssumption ==
  /\ MaxTime \in Nat \ {0} /\ Slots \in Nat \ {0} /\ MaxFaults \in Nat
  /\ Retention \in Nat
ASSUME LegacyAssumption == Legacy \subseteq Times
ASSUME FaultAssumption == Faults \subseteq FaultKind

VARIABLES
  clock,     \* date +%s
  captures,  \* snapshots with all three .xml.gz captures on disk
  index,     \* days with a .timestamps file
  lines,     \* how many lines of its day's .timestamps file name a snapshot
  bundles,   \* days with a snapshot-<day>.bundle.gz
  inBundle,  \* snapshots held by the bundle of their day
  jsons,     \* days with a published index <day>.json
  listed,    \* snapshots the published index of their day lists
  named,     \* days whose published index names the bundle
  manifest,  \* snapshot-manifest.json: the days and their counts
  migrated,  \* snapshot-index/.version-1 exists
  pc, now,   \* the loop's next step and its $now
  day,       \* the day a loop over the index is working on
  adding,    \* the index command is add, not the rebuild of a boot
  settled,   \* the last add ran to its end and no step ran since
  faults,    \* faults so far
  orphans    \* history: the days whose removal was cut

vars == <<clock, captures, index, lines, bundles, inBundle, jsons, listed,
          named, manifest, migrated, pc, now, day, adding, settled, faults,
          orphans>>
published == <<jsons, listed, named>>
bundled == <<bundles, inBundle>>
lined == <<index, lines>>
cuts == <<faults, orphans>>
disk == <<captures, lined, bundled, published, manifest, migrated>>

Steps == {"off", "rebuild", "publishAll", "idle", "append", "publish",
          "bundle", "remove", "prune", "rmIndex", "rmBundle",
          "reprint", "list", "sweep"}

Of(d) == {t \in Times : Day(t) = d}
Lines(d) == {t \in Of(d) : lines[t] > 0}
LineCount(d) == Cardinality(UNION {{t} \X (1 .. lines[t]) : t \in Of(d)})
Complete(d) == Lines(d) \subseteq captures

(* publish_day for the days in D: rewrite the index of each from its lines, *)
(* naming the bundle if there is one.                                       *)
PublishDays(D) ==
  /\ jsons' = jsons \cup D
  /\ listed' = {t \in Times : IF Day(t) \in D THEN lines[t] > 0 ELSE t \in listed}
  /\ named' = (named \ D) \cup (D \cap bundles)

Fault(kind) ==
  /\ kind \in Faults
  /\ faults < MaxFaults
  /\ faults' = faults + 1

-----------------------------------------------------------------------------
Init ==
  /\ captures \in SUBSET Legacy
  /\ clock \in {t \in Times : \A c \in Legacy : c < t} /\ now = clock - 1
  /\ index = {} /\ lines = [t \in Times |-> 0]
  /\ bundles = {} /\ inBundle = {}
  /\ jsons = {} /\ listed = {} /\ named = {} /\ manifest = {}
  /\ migrated = FALSE /\ pc = "off" /\ day = 0
  /\ adding = FALSE /\ settled = FALSE /\ faults = 0 /\ orphans = {}

(* Time passes; a round is over before the next one is due, and prune_index *)
(* reads the clock once.                                                    *)
Tick ==
  /\ clock < MaxTime
  /\ pc \notin {"prune", "rmIndex", "rmBundle", "reprint"}
  /\ pc \notin {"off", "idle"} => clock <= now
  /\ clock' = clock + 1
  /\ UNCHANGED <<disk, pc, now, day, adding, settled, cuts>>

(* S99zd_ping_monitor starts with rebuild. *)
Boot ==
  /\ pc = "off"
  /\ pc' = IF migrated THEN "prune" ELSE "rebuild"
  /\ now' = clock
  /\ adding' = FALSE
  /\ UNCHANGED <<clock, disk, day, settled, cuts>>

(* snapshot-times | awk '>>': every complete snapshot is appended. *)
RebuildAppend ==
  /\ pc = "rebuild"
  /\ lines' = [t \in Times |-> IF t \in captures THEN lines[t] + 1 ELSE lines[t]]
  /\ index' = index \cup {Day(t) : t \in captures}
  /\ pc' = "publishAll"
  /\ UNCHANGED <<clock, captures, bundled, published, manifest, migrated, now,
                 day, adding, settled, cuts>>

RebuildPublish ==
  /\ pc = "publishAll"
  /\ PublishDays(index)
  /\ migrated' = TRUE
  /\ pc' = "prune"
  /\ UNCHANGED <<clock, captures, lined, bundled, manifest, now, day, adding, settled,
                 cuts>>

(* Power is lost in the migration: some of the lines are appended, or all of *)
(* them and some of the days published, and the next boot appends all again. *)
MigrationCut ==
  /\ Fault("migrate")
  /\ \/ /\ pc = "rebuild"
        /\ \E S \in SUBSET captures :
             /\ lines' = [t \in Times |-> IF t \in S THEN lines[t] + 1 ELSE lines[t]]
             /\ index' = index \cup {Day(t) : t \in S}
        /\ UNCHANGED published
     \/ /\ pc = "publishAll"
        /\ \E D \in SUBSET index : PublishDays(D)
        /\ UNCHANGED lined
  /\ pc' = "off"
  /\ settled' = FALSE
  /\ UNCHANGED <<clock, captures, bundled, manifest, migrated, now, day, adding,
                 orphans>>

(* No round is due: the loop sleeps on. *)
Sleep == pc = "idle" /\ clock <= now /\ UNCHANGED vars

(* Mutant: the collector rounds its own time up. *)
CollectAhead ==
  /\ pc = "idle" /\ clock > now
  /\ now' = clock
  /\ settled' = FALSE
  /\ captures' = captures \cup {clock + 1}
  /\ adding' = TRUE
  /\ pc' = "append"
  /\ UNCHANGED <<clock, lined, bundled, published, manifest, migrated, day,
                 cuts>>

(* A due round: collect ap, client and mesh at $now. *)
Collect ==
  /\ pc = "idle" /\ clock > now
  /\ now' = clock
  /\ settled' = FALSE
  /\ captures' = captures \cup {clock}
  /\ adding' = TRUE
  /\ pc' = "append"
  /\ UNCHANGED <<clock, lined, bundled, published, manifest, migrated, day,
                 cuts>>

(* One of the three requests fails: the loop skips the index. *)
CollectFails ==
  /\ pc = "idle" /\ clock > now
  /\ Fault("collect")
  /\ now' = clock
  /\ settled' = FALSE
  /\ pc' = "sweep"
  /\ UNCHANGED <<clock, disk, day, adding, orphans>>

(* add: append unless the last line already is this snapshot. *)
Append ==
  /\ pc = "append"
  /\ lines' = IF lines[now] > 0 /\ \A t \in Lines(Day(now)) : t <= now
              THEN lines ELSE [lines EXCEPT ![now] = @ + 1]
  /\ index' = index \cup {Day(now)}
  /\ pc' = "publish"
  /\ UNCHANGED <<clock, captures, bundled, published, manifest, migrated, now,
                 day, adding, settled, cuts>>

Publish ==
  /\ pc = "publish"
  /\ PublishDays({Day(now)})
  /\ pc' = "bundle"
  /\ UNCHANGED <<clock, captures, lined, bundled, manifest, migrated, now, day,
                 adding, settled, cuts>>

(* Mutant: the active day is bundled too. *)
BundleableActive ==
  {d \in index : d <= Day(now) /\ d \notin bundles /\ Complete(d)}

(* The completed days bundle_completed_days will still bundle. *)
Bundleable ==
  {d \in index : d < Day(now) /\ d \notin bundles /\ Complete(d)}

(* The archive is complete and tested: mv archive destination. *)
Bundle ==
  /\ pc = "bundle"
  /\ \E d \in Bundleable :
       /\ bundles' = bundles \cup {d}
       /\ inBundle' = inBundle \cup (Lines(d) \cap captures)
       /\ day' = d
  /\ pc' = "remove"
  /\ UNCHANGED <<clock, captures, lined, published, manifest, migrated, now,
                 adding, settled, cuts>>

(* rm of the captures of one snapshot after the other. *)
Remove ==
  /\ pc = "remove"
  /\ \E t \in Lines(day) \cap captures : captures' = captures \ {t}
  /\ UNCHANGED <<clock, lined, bundled, published, manifest, migrated, pc, now,
                 day, adding, settled, cuts>>

(* Mutant: the index is not published again after its day was bundled. *)
RepublishNothing ==
  /\ pc = "remove" /\ Lines(day) \cap captures = {}
  /\ pc' = "bundle"
  /\ UNCHANGED <<clock, disk, now, day, adding, settled, cuts>>

Republish ==
  /\ pc = "remove" /\ Lines(day) \cap captures = {}
  /\ PublishDays({day})
  /\ pc' = "bundle"
  /\ UNCHANGED <<clock, captures, lined, bundled, manifest, migrated, now, day,
                 adding, settled, cuts>>

BundlesDone ==
  /\ pc = "bundle" /\ Bundleable = {}
  /\ pc' = "prune"
  /\ UNCHANGED <<clock, disk, now, day, adding, settled, cuts>>

(* prune_index: cutoff = now - 30 days; a wholly expired day goes. *)
Expired(d) == (d + 1) * Slots + Retention <= clock

PruneDay ==
  /\ pc = "prune"
  /\ \E d \in index :
       /\ Expired(d)
       /\ index' = index \ {d}
       /\ lines' = [t \in Times |-> IF Day(t) = d THEN 0 ELSE lines[t]]
       /\ day' = d
  /\ pc' = "rmIndex"
  /\ UNCHANGED <<clock, captures, bundled, published, manifest, migrated, now,
                 adding, settled, cuts>>

UnlinkIndex ==
  /\ pc = "rmIndex"
  /\ jsons' = jsons \ {day}
  /\ listed' = listed \ Of(day)
  /\ named' = named \ {day}
  /\ pc' = "rmBundle"
  /\ UNCHANGED <<clock, captures, lined, bundled, manifest, migrated, now, day,
                 adding, settled, cuts>>

UnlinkBundle ==
  /\ pc = "rmBundle"
  /\ bundles' = bundles \ {day}
  /\ inBundle' = inBundle \ Of(day)
  /\ pc' = "prune"
  /\ UNCHANGED <<clock, captures, lined, published, manifest, migrated, now,
                 day, adding, settled, cuts>>

(* A partly expired day loses its expired lines and is published again. *)
PruneLines ==
  /\ pc = "prune" /\ \A d \in index : ~Expired(d)
  /\ lines' = [t \in Times |-> IF t + Retention < clock THEN 0 ELSE lines[t]]
  /\ pc' = "reprint"
  /\ UNCHANGED <<clock, captures, index, bundled, published, manifest, migrated,
                 now, day, adding, settled, cuts>>

(* Mutant: a trimmed index is not published again. *)
PublishPrunedNothing ==
  /\ pc = "reprint"
  /\ pc' = "list"
  /\ UNCHANGED <<clock, disk, now, day, adding, settled, cuts>>

PublishPruned ==
  /\ pc = "reprint"
  /\ PublishDays({d \in index : d * Slots + Retention < clock})
  /\ pc' = "list"
  /\ UNCHANGED <<clock, captures, lined, bundled, manifest, migrated, now, day,
                 adding, settled, cuts>>

(* publish_manifest; after an add the loop goes on to prune-snapshots. *)
List ==
  /\ pc = "list"
  /\ manifest' = {[day |-> d, count |-> LineCount(d)] : d \in index}
  /\ settled' = adding
  /\ pc' = IF adding THEN "sweep" ELSE "idle"
  /\ UNCHANGED <<clock, captures, lined, bundled, published, migrated, now, day,
                 adding, cuts>>

(* Mutant: <= for < at the cutoff. *)
SweepEarly ==
  /\ pc = "sweep"
  /\ captures' = {t \in captures : t + Retention > clock}
  /\ pc' = "idle"
  /\ UNCHANGED <<clock, lined, bundled, published, manifest, migrated, now,
                 day, adding, settled, cuts>>

(* prune-snapshots: captures before the cutoff; bundles have another name. *)
Sweep ==
  /\ pc = "sweep"
  /\ captures' = {t \in captures : t + Retention >= clock}
  /\ pc' = "idle"
  /\ UNCHANGED <<clock, lined, bundled, published, manifest, migrated, now,
                 day, adding, settled, cuts>>

(* Power is lost; what was renamed or removed stays so.  Cuts inside the    *)
(* bundling of a day and the removal of an expired day are kinds of their    *)
(* own; the second leaves files no later prune_index looks for.             *)
PowerCut ==
  /\ pc \notin {"off", "publishAll"}
  /\ Fault(CASE pc = "remove" -> "bundle"
             [] pc \in {"rmIndex", "rmBundle"} -> "unlink"
             [] OTHER -> "power")
  /\ orphans' = orphans \cup {d \in {day} : pc \in {"rmIndex", "rmBundle"}}
  /\ pc' = "off"
  /\ settled' = FALSE
  /\ UNCHANGED <<clock, disk, now, day, adding>>

Loop ==
  \/ Boot \/ RebuildAppend \/ RebuildPublish \/ Sleep
  \/ Collect \/ Append \/ Publish \/ Bundle \/ Remove \/ Republish
  \/ BundlesDone \/ PruneDay \/ UnlinkIndex \/ UnlinkBundle
  \/ PruneLines \/ PublishPruned \/ List \/ Sweep

Next == Loop \/ CollectFails \/ MigrationCut \/ PowerCut \/ Tick

Spec == Init /\ [][Next]_vars

-----------------------------------------------------------------------------
(* Every variable has its type. *)
TypeInv ==
  /\ clock \in Times /\ now \in Nat /\ day \in Days
  /\ captures \subseteq Times /\ inBundle \subseteq Times /\ listed \subseteq Times
  /\ lines \in [Times -> Nat]
  /\ index \subseteq Days /\ bundles \subseteq Days
  /\ jsons \subseteq Days /\ named \subseteq Days
  /\ manifest \subseteq [day : Days, count : Nat]
  /\ pc \in Steps
  /\ migrated \in BOOLEAN /\ adding \in BOOLEAN /\ settled \in BOOLEAN
  /\ faults \in Nat /\ orphans \subseteq Days

Live(t) == t + Retention >= clock

(* A snapshot once indexed keeps its bodies until it expires: captures are  *)
(* removed only after the bundle that holds them was renamed into place,    *)
(* whatever fails and wherever the power is cut.                            *)
BodiesKept ==
  \A t \in Times : lines[t] > 0 /\ Live(t) => t \in captures \cup inBundle

(* A bundle is immutable, so it must hold every snapshot of its day that    *)
(* the index will ever name: no line is added to a bundled day.             *)
BundleHoldsDay ==
  \A d \in bundles \cap index : Lines(d) \subseteq inBundle

(* After an add, the browser finds every listed snapshot where the index of *)
(* its day sends it: in the bundle if the index names one, otherwise in the *)
(* separate captures.                                                       *)
IndexServes ==
  settled => \A t \in listed : Live(t) =>
    IF Day(t) \in named THEN Day(t) \in bundles /\ t \in inBundle
                        ELSE t \in captures

(* After an add, the manifest names exactly the published indexes, each      *)
(* with the number of snapshots it lists, and no bundle is kept without its  *)
(* day, but for two traces of a power cut: the files of a day whose removal  *)
(* was cut stay for good, and a line that a repeated migration has written   *)
(* twice is counted twice until it expires.                                  *)
ManifestMatches ==
  settled =>
    /\ {p.day : p \in manifest} = jsons \ orphans
    /\ bundles \ index \subseteq orphans
    /\ \A p \in manifest :
         \/ p.count = Cardinality(listed \cap Of(p.day))
         \/ \E t \in Legacy \cap Of(p.day) : lines[t] > 1
=============================================================================
