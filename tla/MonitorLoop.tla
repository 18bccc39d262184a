----------------------------- MODULE MonitorLoop ----------------------------
(***************************************************************************)
(* The round loop of S99zd_ping_monitor (boot-initrd-handoff) and the      *)
(* preference it reads in every pass with ping-monitor-settings-sync.sh.   *)
(*                                                                         *)
(* The clock is not a variable: the loop only compares its $now with       *)
(* last_collection, so the state keeps how long ago that was (since), how  *)
(* long the present round has lasted (run) and how much of the present     *)
(* sleep is left (wait).  What happens inside a round is in DailyHistory   *)
(* and SnapshotStore.                                                      *)
(***************************************************************************)
EXTENDS Integers

CONSTANTS
  MinInterval, MaxInterval,  \* the accepted collection intervals, 30 .. 3600
  Poll,       \* the longest sleep, 30
  Intervals,  \* the intervals the administrator or an old file may ask for
  Initial,    \* the interval before any preference, 60 or intervals.conf
  MaxRun,     \* the longest round: the request timeouts and ping deadlines
  MaxSaves,   \* bound: preferences saved in a behaviour
  MaxFaults,  \* bound: faults in a behaviour
  Faults,     \* which kinds of fault this instance admits
  Absent      \* an attribute that is not there, a file that does not exist

FaultKind == {"power", "sync", "rotate"}

ASSUME IntervalAssumption ==
  /\ MinInterval \in Nat \ {0} /\ MaxInterval \in Nat
  /\ Initial \in MinInterval .. MaxInterval
  /\ Intervals \subseteq Nat
ASSUME BoundAssumption ==
  /\ Poll \in Nat \ {0} /\ MaxRun \in Nat
  /\ MaxSaves \in Nat /\ MaxFaults \in Nat
ASSUME FaultAssumption == Faults \subseteq FaultKind

(* From here on every interval is over. *)
Horizon == MaxInterval + MaxRun + Poll + 1

(* From here on a preference has waited too long, whatever failed. *)
Overdue == (MaxFaults + 1) * (Poll + MaxRun) + 1

(* The element of a setpref record: the present form has enabled and        *)
(* interval, the prototypes had two toggles and ping-interval.              *)
Attr == {0, 1, Absent}
Element ==
  [enabled : Attr, ping : Attr, snapshot : Attr,
   interval : Intervals \cup {Absent}, pingInterval : Intervals \cup {Absent},
   updated : 0 .. MaxSaves]

Setting == [enabled : BOOLEAN, interval : MinInterval .. MaxInterval,
            updated : 0 .. MaxSaves]

(* A settings file that exists is told apart from one that does not. *)
ASSUME AbsentAssumption == Absent \notin Setting

VARIABLES
  journal,  \* ajax_config.log: the last setpref record of the page, or Absent
  torn,     \* ZD is in the middle of writing the record
  cache,    \* settings-cache.conf
  pref,     \* monitoring_enabled, monitoring_interval, preference_updated_at
  status,   \* settings.json
  pc,       \* the next step of the loop
  since,    \* $now - last_collection, when the loop will next compute it
  run,      \* the time since $now of the present round
  wait,     \* what is left of the sleep
  saves,    \* preferences saved so far; also their updated-at
  faults,   \* faults so far
  gap,      \* history: the time since the last round started
  fresh,    \* history: no round since the boot or since monitoring was enabled
  steady,   \* history: no setting changed since the last round started
  lastRun,  \* history: how long the last round took
  age,      \* history: how long the saved preference has been waiting, and
  missed    \*   how many times settings-sync has failed meanwhile

history == <<gap, fresh, steady, lastRun, age, missed>>
vars == <<journal, torn, cache, pref, status, pc, since, run, wait, saves,
          faults, history>>

Steps == {"off", "start", "sync", "check", "round", "nap", "sleep"}
Awake == {"start", "sync", "check", "round", "nap", "sleep"}

Smaller(a, b) == IF a < b THEN a ELSE b
Larger(a, b)  == IF a < b THEN b ELSE a
Later(t) == Smaller(t + 1, Horizon)

Fault(kind) ==
  /\ kind \in Faults
  /\ faults < MaxFaults
  /\ faults' = faults + 1

Defaults == [enabled |-> FALSE, interval |-> Initial, updated |-> 0]

-----------------------------------------------------------------------------
(* emit_if_valid *)
Valid(enabled, interval) ==
  enabled \in {0, 1} /\ interval # Absent
    /\ interval >= MinInterval /\ interval <= MaxInterval

(* The two toggles of the first prototype stand for one switch. *)
EnabledOf(e) ==
  IF e.enabled # Absent THEN e.enabled
  ELSE IF e.ping = Absent \/ e.snapshot = Absent THEN Absent
  ELSE IF e.ping = 0 /\ e.snapshot = 0 THEN 0 ELSE 1

IntervalOf(e) ==
  IF Valid(EnabledOf(e), e.interval) THEN e.interval ELSE e.pingInterval

Accepted(e) == Valid(EnabledOf(e), IntervalOf(e))

Decoded(e) == [enabled |-> EnabledOf(e) = 1, interval |-> IntervalOf(e),
               updated |-> e.updated]

(* The record settings-sync finds at the end of the journal is acceptable. *)
Found == journal # Absent /\ ~torn /\ Accepted(journal)

(* Mutant: an unacceptable record switches monitoring off. *)
EmittedDefault == IF journal = Absent THEN cache
                  ELSE IF Found THEN Decoded(journal) ELSE Defaults

(* Mutant: the cache is preferred to the journal. *)
EmittedStale == IF cache = Absent /\ Found THEN Decoded(journal) ELSE cache

Emitted == IF Found THEN Decoded(journal) ELSE cache

-----------------------------------------------------------------------------
Init ==
  /\ journal \in {e \in Element : e.updated = 0} \cup {Absent}
  /\ torn = FALSE /\ cache = Absent
  /\ pref = Defaults /\ status = Absent
  /\ pc = "off" /\ since = Horizon /\ run = 0 /\ wait = 0
  /\ saves = 0 /\ faults = 0
  /\ gap = Horizon /\ fresh = TRUE /\ steady = FALSE /\ lastRun = 0
  /\ age = 0 /\ missed = 0

(* The page saves a preference; ZD appends it to its journal.  Half a        *)
(* record either does not yet match, which is as if it had not begun, or    *)
(* matches and hides the record before it: torn is the second case.        *)
BeginSave ==
  /\ saves < MaxSaves /\ ~torn
  /\ torn' = TRUE
  /\ UNCHANGED <<journal, cache, pref, status, pc, since, run, wait, saves,
                 faults, history>>

EndSave ==
  /\ torn
  /\ \E on \in {0, 1}, n \in Intervals :
       journal' = [enabled |-> on, ping |-> Absent, snapshot |-> Absent,
                   interval |-> n, pingInterval |-> Absent,
                   updated |-> saves + 1]
  /\ saves' = saves + 1
  /\ torn' = FALSE
  /\ age' = 0 /\ missed' = 0
  /\ UNCHANGED <<cache, pref, status, pc, since, run, wait, faults, gap, fresh,
                 steady, lastRun>>

(* ZD starts a new journal. *)
Rotate ==
  /\ Fault("rotate")
  /\ journal' = Absent /\ torn' = FALSE
  /\ age' = 0 /\ missed' = 0
  /\ UNCHANGED <<cache, pref, status, pc, since, run, wait, saves, gap, fresh,
                 steady, lastRun>>

(* The start of S99zd_ping_monitor. *)
Boot ==
  /\ pc = "off"
  /\ pref' = Defaults
  /\ since' = Horizon /\ run' = 0 /\ wait' = 0
  /\ pc' = "start"
  /\ fresh' = TRUE /\ steady' = FALSE
  /\ UNCHANGED <<journal, torn, cache, status, saves, faults, gap, lastRun, age,
                 missed>>

(* Mutant: last_collection is forgotten whenever monitoring is on. *)
ApplyForgets(setting) ==
  /\ pref' = setting
  /\ since' = IF setting.enabled THEN Horizon ELSE since
  /\ fresh' = (fresh \/ (~pref.enabled /\ setting.enabled))
  /\ steady' = (steady /\ setting.enabled = pref.enabled
                       /\ setting.interval = pref.interval)
  /\ status' = setting
  /\ pc' = IF pc = "start" THEN "sync" ELSE "check"

(* apply_native_settings and publish_settings *)
Apply(setting) ==
  /\ pref' = setting
  /\ since' = IF ~pref.enabled /\ setting.enabled THEN Horizon ELSE since
  /\ fresh' = (fresh \/ (~pref.enabled /\ setting.enabled))
  /\ steady' = (steady /\ setting.enabled = pref.enabled
                       /\ setting.interval = pref.interval)
  /\ status' = setting
  /\ pc' = IF pc = "start" THEN "sync" ELSE "check"

(* The acceptable preference of the journal has waited for this long, unless *)
(* it is the one that is in force.                                           *)
Waits(setting, time, failures) ==
  LET waiting == Found /\ Decoded(journal) # setting
  IN  /\ age' = IF waiting THEN time ELSE 0
      /\ missed' = IF waiting THEN failures ELSE 0

(* settings-sync: an acceptable record replaces the cache, and the cache is *)
(* what is reported.                                                        *)
Sync ==
  /\ pc \in {"start", "sync"}
  /\ cache' = Emitted
  /\ Apply(IF Emitted = Absent THEN pref ELSE Emitted)
  /\ Waits(pref', age, missed)
  /\ UNCHANGED <<journal, torn, run, wait, saves, faults, gap, lastRun>>

(* settings-sync fails or reports nothing: the loop keeps what it has, and a *)
(* preference goes on waiting.                                               *)
SyncFails ==
  /\ pc \in {"start", "sync"}
  /\ Fault("sync")
  /\ Apply(pref)
  /\ Waits(pref, age, missed + 1)
  /\ UNCHANGED <<journal, torn, cache, run, wait, saves, gap, lastRun>>

(* Mutant: = for >=. *)
DueExactly == pref.enabled /\ since = pref.interval

Due == pref.enabled /\ since >= pref.interval

StartRound ==
  /\ pc = "check" /\ Due
  /\ run' = 0
  /\ gap' = 0 /\ fresh' = FALSE /\ steady' = TRUE
  /\ pc' = "round"
  /\ UNCHANGED <<journal, torn, cache, pref, status, since, wait, saves, faults,
                 lastRun, age, missed>>

NotDue ==
  /\ pc = "check" /\ ~Due
  /\ pc' = "nap"
  /\ UNCHANGED <<journal, torn, cache, pref, status, since, run, wait, saves,
                 faults, history>>

(* Mutant: last_collection is the end of the round. *)
FinishDrifts ==
  /\ pc = "round"
  /\ since' = 0
  /\ lastRun' = run
  /\ pc' = "nap"
  /\ UNCHANGED <<journal, torn, cache, pref, status, run, wait, saves, faults,
                 gap, fresh, steady, age, missed>>

(* last_collection=$now *)
FinishRound ==
  /\ pc = "round"
  /\ since' = run
  /\ lastRun' = run
  /\ pc' = "nap"
  /\ UNCHANGED <<journal, torn, cache, pref, status, run, wait, saves, faults,
                 gap, fresh, steady, age, missed>>

(* Mutant: the sleep lasts until the next round, however long that is. *)
DelayUnbounded ==
  IF ~pref.enabled THEN Poll
  ELSE IF since < pref.interval THEN pref.interval - since ELSE 1

(* Mutant: an overdue round makes the remaining time negative. *)
DelayNegative ==
  IF ~pref.enabled THEN Poll ELSE Smaller(Poll, pref.interval - since)

(* The sleep that ends when the next round is due, or the poll. *)
Delay ==
  IF ~pref.enabled THEN Poll
  ELSE Smaller(Poll, IF since < pref.interval THEN pref.interval - since ELSE 1)

Nap ==
  /\ pc = "nap"
  /\ wait' = Delay
  /\ pc' = "sleep"
  /\ UNCHANGED <<journal, torn, cache, pref, status, since, run, saves, faults,
                 history>>

Wake ==
  /\ pc = "sleep" /\ wait = 0
  /\ pc' = "sync"
  /\ UNCHANGED <<journal, torn, cache, pref, status, since, run, wait, saves,
                 faults, history>>

(* A second passes, in a sleep or in a round. *)
Tick ==
  /\ \/ /\ pc = "sleep" /\ wait > 0
        /\ wait' = wait - 1
        /\ since' = Later(since)
        /\ run' = run
     \/ /\ pc = "round" /\ run < MaxRun
        /\ run' = run + 1
        /\ UNCHANGED <<wait, since>>
  /\ gap' = Later(gap)
  /\ Waits(pref, Smaller(age + 1, Overdue), missed)
  /\ UNCHANGED <<journal, torn, cache, pref, status, pc, saves, faults, fresh,
                 steady, lastRun>>

PowerCut ==
  /\ pc # "off"
  /\ Fault("power")
  /\ pc' = "off"
  /\ UNCHANGED <<journal, torn, cache, pref, status, since, run, wait, saves,
                 history>>

Loop ==
  \/ Boot \/ Sync \/ StartRound \/ NotDue \/ FinishRound \/ Nap \/ Wake

Next ==
  \/ Loop \/ Tick \/ BeginSave \/ EndSave
  \/ Rotate \/ SyncFails \/ PowerCut

Spec == Init /\ [][Next]_vars

(* Nothing blocks the loop: every request of a round has a timeout, and the *)
(* container restarts.  Time passes, and ZD completes the record it writes. *)
FairSpec == Spec /\ WF_vars(Loop) /\ WF_vars(Tick) /\ WF_vars(EndSave)

-----------------------------------------------------------------------------
(* Every variable has its type; in particular a sleep is never negative. *)
TypeInv ==
  /\ journal \in Element \cup {Absent} /\ torn \in BOOLEAN
  /\ cache \in Setting \cup {Absent} /\ status \in Setting \cup {Absent}
  /\ pref \in Setting
  /\ pc \in Steps
  /\ since \in 0 .. Horizon /\ run \in 0 .. MaxRun /\ wait \in 0 .. Poll
  /\ saves \in 0 .. MaxSaves /\ faults \in Nat
  /\ gap \in 0 .. Horizon /\ lastRun \in 0 .. MaxRun
  /\ age \in 0 .. Overdue /\ missed \in 0 .. MaxFaults
  /\ fresh \in BOOLEAN /\ steady \in BOOLEAN

(* Two rounds start at least the interval in force apart, unless the loop   *)
(* was restarted or monitoring was switched on between them.                *)
Spaced ==
  [][pc = "check" /\ pc' = "round" => fresh \/ gap >= pref.interval]_vars

(* "Sleep only until the next collection is due": with the settings left    *)
(* alone the next round is never later than the interval after the start of *)
(* the last one, or a second after its end if it took longer.               *)
Timely ==
  pc \in {"nap", "sleep", "sync", "check"} /\ steady /\ pref.enabled /\ ~fresh
    => gap <= Larger(pref.interval, lastRun + 1)

(* A preference in the journal is in force after one sleep and one round    *)
(* of the running loop; a settings-sync that fails costs another sleep and  *)
(* round, and a restart nothing.                                            *)
Prompt == age <= (missed + 1) * (Poll + MaxRun)

(* The loop never falls back to an older preference: not when the record is *)
(* half written or unacceptable, not when the journal is replaced, and not  *)
(* across a restart, where the cache stands in for its memory.              *)
NeverReverts ==
  [][/\ cache # Absent => cache' # Absent /\ cache'.updated >= cache.updated
     /\ pc \in Awake /\ pc' \in Awake => pref'.updated >= pref.updated
     /\ pc = "sync" /\ pc' = "check" /\ faults' = faults /\ cache' # Absent
          => pref' = cache']_vars

(* An acceptable preference is eventually in force, unless another one is   *)
(* saved first or the journal is replaced.                                  *)
PreferenceApplied ==
  \A n \in 1 .. MaxSaves :
    (Found /\ journal.updated = n) ~>
      (pref.updated >= n \/ journal = Absent \/ saves > n \/ torn)

(* While monitoring stays enabled there is always another round. *)
KeepsCollecting == <>[](pref.enabled) => []<>(pc = "round")
=============================================================================
