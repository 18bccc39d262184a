-------------------------- MODULE MonitorLoopProofs --------------------------
(* Proofs about MonitorLoop for every range of intervals, every poll and     *)
(* longest round, every number of saved preferences and every kind and       *)
(* number of faults.                                                         *)
EXTENDS MonitorLoop, TLAPS

-----------------------------------------------------------------------------
(* Settings and delays. *)

(* What a setting in force is (apply_native_settings). *)
LEMMA SettingType ==
  ASSUME NEW s \in Setting
  PROVE  /\ s.enabled \in BOOLEAN
         /\ s.interval \in Nat /\ s.interval <= MaxInterval
         /\ s.updated \in 0 .. MaxSaves
  BY IntervalAssumption DEF Setting

(* The settings before any preference are settings. *)
LEMMA DefaultsType == Defaults \in Setting
  BY IntervalAssumption, BoundAssumption DEF Defaults, Setting

(* An acceptable record decodes to a setting (emit_if_valid). *)
LEMMA DecodedType ==
  ASSUME NEW e \in Element, Accepted(e)
  PROVE  Decoded(e) \in Setting /\ Decoded(e).updated = e.updated
<1>1. IntervalOf(e) \in Intervals \cup {Absent} /\ e.updated \in 0 .. MaxSaves
  BY DEF Element, IntervalOf
<1>2. /\ IntervalOf(e) # Absent
      /\ IntervalOf(e) >= MinInterval /\ IntervalOf(e) <= MaxInterval
  BY DEF Accepted, Valid
<1>3. IntervalOf(e) \in Nat
  BY <1>1, <1>2, IntervalAssumption
<1>4. IntervalOf(e) \in MinInterval .. MaxInterval
  BY <1>2, <1>3, IntervalAssumption
<1> QED  BY <1>1, <1>4 DEF Decoded, Setting

(* What settings-sync reports is a setting or nothing. *)
LEMMA EmittedType ==
  ASSUME journal \in Element \cup {Absent}, cache \in Setting \cup {Absent}
  PROVE  Emitted \in Setting \cup {Absent}
  BY DecodedType DEF Emitted, Found

(* A sleep ends with the poll, and when the next round is due. *)
LEMMA DelayBounds ==
  ASSUME pref \in Setting, since \in Nat
  PROVE  /\ Delay \in 0 .. Poll
         /\ pref.enabled /\ since < pref.interval
              => Delay <= pref.interval - since
         /\ pref.enabled /\ ~(since < pref.interval) => Delay <= 1
<1>1. pref.enabled \in BOOLEAN /\ pref.interval \in Nat
  BY SettingType
<1> QED  BY <1>1, BoundAssumption DEF Delay, Smaller

-----------------------------------------------------------------------------
(* Waiting times. *)

(* The longest sleep and the longest round. *)
Cycle == Poll + MaxRun

(* One more failing settings-sync costs one more cycle. *)
LEMMA NextCycle ==
  ASSUME NEW m \in Nat, NEW w \in Nat
  PROVE  /\ m * w \in Nat /\ (m + 1) * w \in Nat
         /\ (m + 1) * w = m * w + w
<1>1. (m + 1) * w = m * w + w
  OBVIOUS
<1>2. m * w \in Nat
  OBVIOUS
<1> QED  BY <1>1, <1>2

(* The capped waiting time is a number. *)
LEMMA OverdueType == Cycle \in Nat /\ Overdue \in Nat
<1>1. MaxFaults \in Nat /\ Cycle \in Nat
  BY BoundAssumption DEF Cycle
<1>2. (MaxFaults + 1) * Cycle \in Nat
  BY <1>1, NextCycle
<1>3. Overdue = (MaxFaults + 1) * Cycle + 1
  BY DEF Overdue, Cycle
<1> QED  BY <1>1, <1>2, <1>3

-----------------------------------------------------------------------------
(* The inductive invariant. *)

(* A record is only begun while another one may be saved. *)
SaveInv == torn => saves < MaxSaves

(* Every failing settings-sync is one of the faults. *)
FaultInv == missed <= faults /\ faults <= MaxFaults

(* The time since the last round started is what the loop compares, unless   *)
(* last_collection was forgotten.                                            *)
GapInv ==
  /\ pc = "round" => gap = run
  /\ pc = "start" => fresh
  /\ pc \in {"nap", "sleep", "sync", "check"} /\ ~fresh => gap = since

(* The sleep ends in time for the next round. *)
DueInv ==
  steady /\ pref.enabled /\ ~fresh =>
    /\ pc = "nap" => gap < pref.interval \/ gap = lastRun
    /\ pc = "sleep" => gap + wait <= Larger(pref.interval, lastRun + 1)
    /\ pc \in {"sync", "check"} => gap <= Larger(pref.interval, lastRun + 1)

(* A preference has waited for a cycle for every settings-sync that failed   *)
(* to apply it, and for what has passed of the present cycle.                *)
AgeInv ==
  /\ pc = "check" => age <= missed * Cycle
  /\ pc = "round" => age <= missed * Cycle + run
  /\ pc = "nap" => age <= missed * Cycle + MaxRun
  /\ pc = "sleep" => age + wait <= missed * Cycle + Cycle
  /\ pc \in {"sync", "off", "start"} => age <= missed * Cycle + Cycle

(* The journal holds the newest preference, the cache one that is no newer,  *)
(* and the loop none that is newer than the cache.                           *)
VersionInv ==
  /\ journal # Absent => journal.updated = saves
  /\ cache # Absent => pref.updated <= cache.updated /\ cache.updated <= saves
  /\ cache = Absent => pref.updated = 0

Inv ==
  TypeInv /\ SaveInv /\ FaultInv /\ GapInv /\ DueInv /\ AgeInv /\ VersionInv

(* The loop starts in the invariant. *)
LEMMA InvInit == Init => Inv
<1> SUFFICES ASSUME Init PROVE Inv
  OBVIOUS
<1>1. Horizon \in Nat
  BY IntervalAssumption, BoundAssumption DEF Horizon
<1>2. TypeInv
  <2>1. journal \in Element \cup {Absent} /\ pref \in Setting /\ pc \in Steps
    BY DefaultsType DEF Init, Steps
  <2>2. /\ since \in 0 .. Horizon /\ run \in 0 .. MaxRun /\ wait \in 0 .. Poll
        /\ saves \in 0 .. MaxSaves /\ faults \in Nat
        /\ gap \in 0 .. Horizon /\ lastRun \in 0 .. MaxRun
        /\ age \in 0 .. Overdue /\ missed \in 0 .. MaxFaults
    BY <1>1, OverdueType, BoundAssumption DEF Init
  <2>3. torn \in BOOLEAN /\ fresh \in BOOLEAN /\ steady \in BOOLEAN
        /\ cache \in Setting \cup {Absent} /\ status \in Setting \cup {Absent}
    BY DEF Init
  <2> QED  BY <2>1, <2>2, <2>3 DEF TypeInv
<1>3. SaveInv /\ FaultInv /\ GapInv /\ DueInv
  BY BoundAssumption DEF Init, SaveInv, FaultInv, GapInv, DueInv
<1>5. AgeInv
  BY OverdueType, NextCycle DEF Init, AgeInv
<1>4. VersionInv
  BY DEF Init, VersionInv, Defaults
<1> QED  BY <1>2, <1>3, <1>4, <1>5 DEF Inv

-----------------------------------------------------------------------------
(* Whether settings-sync works or not, one setting is applied. *)
Synced ==
  \E s \in Setting :
    /\ Apply(s) /\ pc \in {"start", "sync"}
    /\ UNCHANGED <<journal, torn, run, wait, saves, gap, lastRun>>

(* settings-sync reports a setting, or the loop keeps the one it has. *)
LEMMA SyncApplies == ASSUME TypeInv, Sync \/ SyncFails PROVE Synced
<1> USE DEF TypeInv
<1>1. CASE Sync
  <2> DEFINE s == IF Emitted = Absent THEN pref ELSE Emitted
  <2>1. s \in Setting
    BY EmittedType
  <2>2. Apply(s) /\ pc \in {"start", "sync"}
        /\ UNCHANGED <<journal, torn, run, wait, saves, gap, lastRun>>
    BY <1>1 DEF Sync
  <2> QED  BY <2>1, <2>2 DEF Synced
<1>2. CASE SyncFails
  BY <1>2 DEF SyncFails, Synced
<1> QED  BY <1>1, <1>2

(* A settings-sync that works leaves no acceptable preference waiting. *)
LEMMA SyncEndsWait == ASSUME TypeInv, Sync PROVE age' = 0 /\ missed' = 0
<1>1. ASSUME Found PROVE Decoded(journal) = pref'
  <2>1. Emitted = Decoded(journal)
    BY <1>1 DEF Emitted
  <2>2. Decoded(journal) # Absent
    BY <1>1, DecodedType, AbsentAssumption DEF Found, TypeInv
  <2>3. pref' = Emitted
    BY <2>1, <2>2 DEF Sync, Apply
  <2> QED  BY <2>1, <2>3
<1>2. Waits(pref', age, missed)
  BY DEF Sync
<1> QED  BY <1>1, <1>2 DEF Waits

(* One that fails leaves it waiting for another cycle, if there is one. *)
LEMMA SyncFailsWaits ==
  ASSUME SyncFails
  PROVE  (age' = age /\ missed' = missed + 1) \/ (age' = 0 /\ missed' = 0)
  BY DEF SyncFails, Waits

(* Every step leaves each variable in its type. *)
LEMMA TypeStep ==
  TypeInv /\ SaveInv /\ FaultInv /\ [Next]_vars
    => TypeInv' /\ SaveInv' /\ FaultInv'
<1> SUFFICES ASSUME TypeInv, SaveInv, FaultInv, [Next]_vars
             PROVE  TypeInv' /\ SaveInv' /\ FaultInv'
  OBVIOUS
<1> USE DEF TypeInv, SaveInv, FaultInv, history
<1>0. /\ Horizon \in Nat /\ 0 \in 0 .. Horizon /\ MaxRun <= Horizon
      /\ \A t \in 0 .. Horizon : Later(t) \in 0 .. Horizon
  BY IntervalAssumption, BoundAssumption DEF Horizon, Later, Smaller
<1>a. MaxFaults \in Nat /\ Overdue \in Nat /\ 0 \in 0 .. Overdue
      /\ 0 \in 0 .. MaxFaults
  BY OverdueType, BoundAssumption
<1>1. CASE Boot
  <2>1. fresh' \in BOOLEAN /\ steady' \in BOOLEAN /\ pref' \in Setting
    BY <1>1, DefaultsType DEF Boot
  <2>2. pc' \in Steps
    BY <1>1 DEF Boot, Steps
  <2>3. since' \in 0 .. Horizon /\ run' \in 0 .. MaxRun /\ wait' \in 0 .. Poll
    BY <1>1, <1>0, BoundAssumption DEF Boot
  <2> QED  BY <1>1, <2>1, <2>2, <2>3 DEF Boot
<1>2. CASE Sync \/ SyncFails
  <2>1. PICK s \in Setting : Apply(s)
    BY <1>2, SyncApplies DEF Synced
  <2>2. since' \in 0 .. Horizon /\ fresh' \in BOOLEAN /\ steady' \in BOOLEAN
    BY <2>1, <1>0 DEF Apply
  <2>3. pref' \in Setting /\ status' \in Setting /\ pc' \in Steps
    BY <2>1 DEF Apply, Steps
  <2>4. cache' \in Setting \cup {Absent} /\ faults' \in Nat
    BY <1>2, EmittedType DEF Sync, SyncFails, Fault
  <2>5. UNCHANGED <<journal, torn, run, wait, saves, gap, lastRun>>
    BY <1>2 DEF Sync, SyncFails
  <2>6. age' \in 0 .. Overdue /\ missed' \in 0 .. MaxFaults /\ FaultInv'
    <3>1. CASE Sync
      <4>1. faults' = faults
        BY <3>1 DEF Sync
      <4> QED  BY <3>1, <4>1, <1>a, SyncEndsWait
    <3>2. CASE SyncFails
      <4>1. faults < MaxFaults /\ faults' = faults + 1
        BY <3>2 DEF SyncFails, Fault
      <4> QED  BY <3>2, <4>1, <1>a, SyncFailsWaits
    <3> QED  BY <1>2, <3>1, <3>2
  <2> QED  BY <2>2, <2>3, <2>4, <2>5, <2>6
<1>3. CASE StartRound
  <2>1. fresh' \in BOOLEAN /\ steady' \in BOOLEAN
    BY <1>3 DEF StartRound
  <2>2. run' \in 0 .. MaxRun /\ gap' \in 0 .. Horizon /\ pc' \in Steps
    BY <1>3, <1>0, BoundAssumption DEF StartRound, Steps
  <2> QED  BY <1>3, <2>1, <2>2 DEF StartRound
<1>4. CASE NotDue  BY <1>4 DEF NotDue, Steps
<1>5. CASE FinishRound
  BY <1>5, <1>0, BoundAssumption DEF FinishRound, Steps
<1>6. CASE Nap  BY <1>6, <1>0, DelayBounds DEF Nap, Steps
<1>7. CASE Wake  BY <1>7 DEF Wake, Steps
<1>8. CASE Tick
  <2>1. wait' \in 0 .. Poll /\ run' \in 0 .. MaxRun /\ since' \in 0 .. Horizon
    BY <1>8, <1>0, BoundAssumption DEF Tick
  <2>2. gap' \in 0 .. Horizon
    BY <1>8, <1>0 DEF Tick
  <2>3. age' \in 0 .. Overdue /\ missed' \in 0 .. MaxFaults /\ missed' <= faults
    BY <1>8, <1>a DEF Tick, Waits, Smaller
  <2> QED  BY <1>8, <2>1, <2>2, <2>3 DEF Tick
<1>9. CASE BeginSave  BY <1>9 DEF BeginSave
<1>10. CASE EndSave
  <2>1. saves' \in 0 .. MaxSaves /\ saves + 1 \in 0 .. MaxSaves
    BY <1>10, BoundAssumption DEF EndSave
  <2>2. journal' \in Element
    BY <1>10, <2>1 DEF EndSave, Element, Attr
  <2>3. /\ torn' = FALSE /\ age' = 0 /\ missed' = 0
        /\ UNCHANGED <<cache, pref, status, pc, since, run, wait, faults, gap,
                       fresh, steady, lastRun>>
    BY <1>10 DEF EndSave
  <2>4. SaveInv' /\ FaultInv'
    BY <1>a, <2>3
  <2>5. age' \in 0 .. Overdue /\ missed' \in 0 .. MaxFaults
    BY <1>a, <2>3
  <2> QED  BY <2>1, <2>2, <2>3, <2>4, <2>5
<1>11. CASE Rotate
  <2>1. torn' = FALSE /\ journal' = Absent
    BY <1>11 DEF Rotate
  <2>2. age' \in 0 .. Overdue /\ missed' \in 0 .. MaxFaults
        /\ faults' \in Nat /\ FaultInv'
    BY <1>11, <1>a DEF Rotate, Fault
  <2> QED  BY <1>11, <2>1, <2>2 DEF Rotate
<1>12. CASE PowerCut  BY <1>12, <1>a DEF PowerCut, Fault, Steps
<1>13. CASE UNCHANGED vars  BY <1>13 DEF vars
<1> QED
  BY <1>1, <1>2, <1>3, <1>4, <1>5, <1>6, <1>7, <1>8, <1>9, <1>10, <1>11,
     <1>12, <1>13 DEF Next, Loop

(* Every step keeps what relates the time since the last round to what the   *)
(* loop compares with the interval.                                          *)
LEMMA GapStep == TypeInv /\ GapInv /\ [Next]_vars => GapInv'
<1> SUFFICES ASSUME TypeInv, GapInv, [Next]_vars PROVE GapInv'
  OBVIOUS
<1> USE DEF GapInv, history
<1>1. CASE Boot  BY <1>1 DEF Boot
<1>2. CASE Sync \/ SyncFails
  <2>1. PICK s \in Setting :
          /\ Apply(s) /\ pc \in {"start", "sync"}
          /\ UNCHANGED <<run, gap>>
    BY <1>2, SyncApplies DEF Synced
  <2>2. pc' \in {"sync", "check"}
    BY <2>1 DEF Apply
  <2>3. ASSUME ~fresh' PROVE gap' = since'
    <3>1. ~fresh /\ since' = since
      BY <2>1, <2>3 DEF Apply
    <3> QED  BY <2>1, <3>1
  <2> QED  BY <2>2, <2>3
<1>3. CASE StartRound  BY <1>3 DEF StartRound
<1>4. CASE NotDue  BY <1>4 DEF NotDue
<1>5. CASE FinishRound  BY <1>5 DEF FinishRound
<1>6. CASE Nap  BY <1>6 DEF Nap
<1>7. CASE Wake  BY <1>7 DEF Wake
<1>8. CASE Tick
  <2>1. CASE pc = "sleep"
    BY <1>8, <2>1 DEF Tick
  <2>2. CASE pc = "round"
    <3>1. gap = run /\ run < MaxRun /\ run' = run + 1 /\ gap' = Later(gap)
      BY <1>8, <2>2 DEF Tick
    <3>2. run + 1 <= Horizon
      BY <3>1, IntervalAssumption, BoundAssumption DEF Horizon, TypeInv
    <3>3. run + 1 \in Int /\ Horizon \in Int
      BY IntervalAssumption, BoundAssumption DEF Horizon, TypeInv
    <3>4. Later(run) = run + 1
      BY <3>2, <3>3 DEF Later, Smaller
    <3> QED  BY <1>8, <2>2, <3>1, <3>4 DEF Tick
  <2> QED  BY <1>8, <2>1, <2>2 DEF Tick
<1>9. CASE BeginSave  BY <1>9 DEF BeginSave
<1>10. CASE EndSave  BY <1>10 DEF EndSave
<1>11. CASE Rotate  BY <1>11 DEF Rotate
<1>12. CASE PowerCut  BY <1>12 DEF PowerCut
<1>13. CASE UNCHANGED vars  BY <1>13 DEF vars
<1> QED
  BY <1>1, <1>2, <1>3, <1>4, <1>5, <1>6, <1>7, <1>8, <1>9, <1>10, <1>11,
     <1>12, <1>13 DEF Next, Loop

(* Every step keeps what is left of a sleep within the interval. *)
LEMMA DueStep == TypeInv /\ GapInv /\ DueInv /\ [Next]_vars => DueInv'
<1> SUFFICES ASSUME TypeInv, GapInv, DueInv, [Next]_vars,
                    steady', pref'.enabled, ~fresh'
             PROVE  /\ pc' = "nap" => gap' < pref'.interval \/ gap' = lastRun'
                    /\ pc' = "sleep" =>
                         gap' + wait' <= Larger(pref'.interval, lastRun' + 1)
                    /\ pc' \in {"sync", "check"} =>
                         gap' <= Larger(pref'.interval, lastRun' + 1)
  BY DEF DueInv
<1> USE DEF history
<1>0. /\ pref.interval \in Nat /\ lastRun \in Nat /\ gap \in Nat
      /\ wait \in Nat /\ since \in Nat /\ Poll \in Nat
  BY SettingType, BoundAssumption DEF TypeInv
<1>1. CASE Boot  BY <1>1 DEF Boot
<1>2. CASE Sync \/ SyncFails
  <2>1. PICK s \in Setting :
          /\ Apply(s) /\ pc \in {"start", "sync"}
          /\ UNCHANGED <<gap, lastRun>>
    BY <1>2, SyncApplies DEF Synced
  <2>2. ~fresh
    BY <2>1 DEF Apply
  <2>3. steady /\ pref'.enabled = pref.enabled /\ pref'.interval = pref.interval
    BY <2>1 DEF Apply
  <2>4. pc = "sync" /\ pc' = "check"
    BY <2>1, <2>2 DEF Apply, GapInv
  <2> QED  BY <2>1, <2>2, <2>3, <2>4 DEF DueInv
<1>3. CASE StartRound  BY <1>3 DEF StartRound
<1>4. CASE NotDue  BY <1>4, <1>0 DEF NotDue, Due, GapInv
<1>5. CASE FinishRound  BY <1>5 DEF FinishRound, GapInv
<1>6. CASE Nap
  <2>1. /\ pc = "nap" /\ pc' = "sleep" /\ wait' = Delay
        /\ UNCHANGED <<pref, since, gap, fresh, steady, lastRun>>
    BY <1>6 DEF Nap
  <2>2. gap = since /\ (gap < pref.interval \/ gap = lastRun)
    BY <2>1 DEF GapInv, DueInv
  <2>3. /\ Delay \in Nat
        /\ since < pref.interval => Delay <= pref.interval - since
        /\ ~(since < pref.interval) => Delay <= 1
    BY <1>0, <2>1, DelayBounds, BoundAssumption DEF TypeInv
  <2>4. gap + Delay <= Larger(pref.interval, lastRun + 1)
    BY <1>0, <2>2, <2>3 DEF Larger
  <2> QED  BY <2>1, <2>4
<1>7. CASE Wake
  <2>1. gap + wait <= Larger(pref.interval, lastRun + 1) /\ wait = 0
    BY <1>7 DEF Wake, DueInv
  <2> QED  BY <1>7, <1>0, <2>1 DEF Wake
<1>8. CASE Tick
  <2>1. CASE pc = "sleep"
    <3>1. /\ wait > 0 /\ wait' = wait - 1 /\ gap' = Later(gap)
          /\ UNCHANGED <<pc, pref, fresh, steady, lastRun>>
      BY <1>8, <2>1 DEF Tick
    <3>2. gap + wait <= Larger(pref.interval, lastRun + 1)
      BY <2>1, <3>1 DEF DueInv
    <3>3. Larger(pref.interval, lastRun + 1) \in Nat
      BY <1>0 DEF Larger
    <3>4. gap' \in Nat /\ gap' <= gap + 1
      BY <1>0, <3>1, IntervalAssumption, BoundAssumption
      DEF Later, Smaller, Horizon
    <3> QED  BY <1>0, <2>1, <3>1, <3>2, <3>3, <3>4
  <2>2. CASE pc = "round"
    BY <1>8, <2>2 DEF Tick
  <2> QED  BY <1>8, <2>1, <2>2 DEF Tick
<1>9. CASE BeginSave  BY <1>9 DEF BeginSave, DueInv
<1>10. CASE EndSave  BY <1>10 DEF EndSave, DueInv
<1>11. CASE Rotate  BY <1>11 DEF Rotate, DueInv
<1>12. CASE PowerCut  BY <1>12 DEF PowerCut
<1>13. CASE UNCHANGED vars  BY <1>13 DEF vars, DueInv
<1> QED
  BY <1>1, <1>2, <1>3, <1>4, <1>5, <1>6, <1>7, <1>8, <1>9, <1>10, <1>11,
     <1>12, <1>13 DEF Next, Loop

(* No wait at all is within the bounds of every step. *)
LEMMA NoWait ==
  ASSUME NEW a, NEW m, a = 0, m = 0, NEW w \in 0 .. Poll, NEW r \in 0 .. MaxRun
  PROVE  /\ a <= m * Cycle /\ a <= m * Cycle + r
         /\ a <= m * Cycle + MaxRun /\ a <= m * Cycle + Cycle
         /\ a + w <= m * Cycle + Cycle
<1>1. Cycle \in Nat /\ Poll \in Nat /\ MaxRun \in Nat /\ Poll <= Cycle
  BY BoundAssumption DEF Cycle
<1>2. m * Cycle = 0
  BY <1>1
<1> QED  BY <1>1, <1>2

(* A preference that is not waiting any more has waited for nothing. *)
LEMMA AgeReset ==
  ASSUME age' = 0, missed' = 0, wait' \in 0 .. Poll, run' \in 0 .. MaxRun
  PROVE  AgeInv'
  BY NoWait DEF AgeInv

(* A second of a sleep takes from the sleep what it adds to the wait. *)
LEMMA SecondPasses ==
  ASSUME NEW a \in Nat, NEW w \in Nat, NEW bound \in Nat, a + w <= bound,
         NEW b \in Nat, b <= a + 1, NEW v, v = w - 1
  PROVE  b + v <= bound
  OBVIOUS

(* Every step keeps how long a preference may have been waiting. *)
LEMMA AgeStep == TypeInv /\ AgeInv /\ [Next]_vars => AgeInv'
<1> SUFFICES ASSUME TypeInv, AgeInv, [Next]_vars PROVE AgeInv'
  OBVIOUS
<1> USE DEF AgeInv, history
<1>0. /\ age \in Nat /\ missed \in Nat /\ run \in 0 .. MaxRun /\ wait \in Nat
      /\ Poll \in Nat /\ MaxRun \in Nat /\ Cycle \in Nat /\ pc \in Steps
      /\ Cycle = Poll + MaxRun
  BY BoundAssumption DEF TypeInv, Cycle
<1>a. /\ missed * Cycle \in Nat
      /\ (missed + 1) * Cycle = missed * Cycle + Cycle
  BY <1>0, NextCycle
<1>c. wait \in 0 .. Poll
  BY DEF TypeInv
<1>1. CASE Boot
  <2>1. pc' = "start" /\ pc = "off" /\ UNCHANGED <<age, missed>>
    BY <1>1 DEF Boot
  <2> QED  BY <2>1
<1>2. CASE Sync
  <2>1. UNCHANGED <<run, wait>> /\ age' = 0 /\ missed' = 0
    BY <1>2, SyncEndsWait DEF Sync
  <2> QED  BY <1>0, <1>c, AgeReset, <2>1
<1>3. CASE SyncFails
  <2>1. CASE age' = 0 /\ missed' = 0
    BY <1>0, <1>c, AgeReset, <1>3, <2>1 DEF SyncFails
  <2>2. CASE age' = age /\ missed' = missed + 1
    <3>1. pc' \in {"sync", "check"} /\ pc \in {"start", "sync"}
      BY <1>3 DEF SyncFails, Apply
    <3>2. age' <= missed' * Cycle /\ missed' * Cycle \in Nat
      BY <1>0, <1>a, <2>2, <3>1
    <3> QED  BY <1>0, <2>2, <3>1, <3>2
  <2> QED  BY <1>3, <2>1, <2>2, SyncFailsWaits
<1>4. CASE StartRound
  <2>1. /\ pc = "check" /\ pc' = "round" /\ run' = 0
        /\ UNCHANGED <<age, missed>>
    BY <1>4 DEF StartRound
  <2> QED  BY <1>0, <1>a, <2>1
<1>5. CASE NotDue
  <2>1. pc = "check" /\ pc' = "nap" /\ UNCHANGED <<age, missed>>
    BY <1>5 DEF NotDue
  <2> QED  BY <1>0, <1>a, <2>1
<1>6. CASE FinishRound
  <2>1. pc = "round" /\ pc' = "nap" /\ UNCHANGED <<age, missed>>
    BY <1>6 DEF FinishRound
  <2> QED  BY <1>0, <1>a, <2>1
<1>7. CASE Nap
  <2>1. Delay \in 0 .. Poll
    BY DelayBounds DEF TypeInv
  <2>2. /\ pc = "nap" /\ pc' = "sleep" /\ wait' = Delay
        /\ UNCHANGED <<age, missed>>
    BY <1>7 DEF Nap
  <2> QED  BY <1>0, <1>a, <2>1, <2>2
<1>8. CASE Wake
  <2>1. /\ pc = "sleep" /\ wait = 0 /\ pc' = "sync"
        /\ UNCHANGED <<age, missed>>
    BY <1>8 DEF Wake
  <2> QED  BY <1>0, <1>a, <2>1
<1>9. CASE Tick
  <2>1. CASE age' = 0 /\ missed' = 0
    BY <1>0, <1>c, AgeReset, <1>9, <2>1 DEF Tick
  <2>2. CASE age' \in Nat /\ age' <= age + 1 /\ missed' = missed
    <3>1. CASE pc = "sleep"
      <4>1. wait > 0 /\ wait' = wait - 1 /\ pc' = pc
        BY <1>9, <3>1 DEF Tick
      <4>2. age + wait <= missed * Cycle + Cycle
        BY <3>1
      <4>3. age' + wait' <= missed * Cycle + Cycle
        <5>1. missed * Cycle + Cycle \in Nat
          BY <1>0, <1>a
        <5>2. age' \in Nat /\ age' <= age + 1 /\ wait' = wait - 1
          BY <2>2, <4>1
        <5> QED
          BY <1>0, <4>2, <5>1, <5>2, SecondPasses
      <4> QED  BY <2>2, <3>1, <4>1, <4>3
    <3>2. CASE pc = "round"
      <4>1. run' = run + 1 /\ pc' = pc
        BY <1>9, <3>2 DEF Tick
      <4> QED  BY <1>0, <1>a, <2>2, <3>2, <4>1
    <3> QED  BY <1>9, <3>1, <3>2 DEF Tick
  <2>3. Smaller(age + 1, Overdue) \in Nat
        /\ Smaller(age + 1, Overdue) <= age + 1
    BY <1>0, OverdueType DEF Smaller
  <2> QED  BY <1>9, <2>1, <2>2, <2>3 DEF Tick, Waits
<1>10. CASE EndSave \/ Rotate
  <2>1. UNCHANGED <<run, wait>> /\ age' = 0 /\ missed' = 0
    BY <1>10 DEF EndSave, Rotate
  <2> QED  BY <1>0, <1>c, AgeReset, <2>1
<1>11. CASE BeginSave  BY <1>11 DEF BeginSave
<1>12. CASE PowerCut
  <2>1. pc' = "off" /\ UNCHANGED <<age, missed>>
    BY <1>12 DEF PowerCut
  <2>2. age <= missed * Cycle + Cycle
    BY <1>0, <1>a, <1>c DEF Steps
  <2> QED  BY <2>1, <2>2
<1>13. CASE UNCHANGED vars  BY <1>13 DEF vars
<1> QED
  BY <1>1, <1>2, <1>3, <1>4, <1>5, <1>6, <1>7, <1>8, <1>9, <1>10, <1>11,
     <1>12, <1>13 DEF Next, Loop

(* What settings-sync leaves in the cache is no older than what was there. *)
LEMMA EmittedVersion ==
  ASSUME TypeInv, VersionInv, Emitted # Absent
  PROVE  /\ Emitted.updated <= saves /\ pref.updated <= Emitted.updated
         /\ cache # Absent => cache.updated <= Emitted.updated
<1>1. saves \in Nat /\ pref.updated \in Nat
  BY SettingType, BoundAssumption DEF TypeInv
<1>2. cache # Absent => cache.updated \in Nat
  BY SettingType DEF TypeInv
<1>3. CASE Found
  <2>1. Emitted.updated = saves
    BY <1>3, DecodedType DEF Found, Emitted, TypeInv, VersionInv
  <2>2. cache = Absent => pref.updated <= saves
    BY <1>1, BoundAssumption DEF VersionInv, TypeInv
  <2>3. cache # Absent => cache.updated <= saves /\ pref.updated <= saves
    BY <1>1, <1>2 DEF VersionInv
  <2> QED  BY <1>1, <2>1, <2>2, <2>3
<1>4. CASE ~Found
  <2>1. Emitted = cache /\ cache # Absent
    BY <1>4 DEF Emitted
  <2> QED  BY <1>1, <1>2, <2>1 DEF VersionInv
<1> QED  BY <1>3, <1>4

(* Nothing acceptable is reported only while there is no cache either. *)
LEMMA NothingEmitted ==
  ASSUME TypeInv, Emitted = Absent PROVE cache = Absent
  BY DecodedType, AbsentAssumption DEF Emitted, Found, TypeInv

(* Every step keeps the order of the preferences in journal, cache and loop. *)
LEMMA VersionStep == TypeInv /\ VersionInv /\ [Next]_vars => VersionInv'
<1> SUFFICES ASSUME TypeInv, VersionInv, [Next]_vars PROVE VersionInv'
  OBVIOUS
<1> USE DEF history
<1>1. CASE Boot
  <2>1. pref'.updated = 0 /\ UNCHANGED <<journal, cache, saves>>
    BY <1>1 DEF Boot, Defaults
  <2>2. cache # Absent => cache.updated \in Nat
    BY SettingType DEF TypeInv
  <2> QED  BY <2>1, <2>2 DEF VersionInv
<1>2. CASE Sync
  <2>1. /\ cache' = Emitted /\ UNCHANGED <<journal, saves>>
        /\ pref' = IF Emitted = Absent THEN pref ELSE Emitted
    BY <1>2 DEF Sync, Apply
  <2>2. CASE Emitted = Absent
    BY <2>1, <2>2, NothingEmitted DEF VersionInv
  <2>3. CASE Emitted # Absent
    <3>1. Emitted.updated \in Nat /\ Emitted.updated <= saves
      BY <2>3, EmittedType, EmittedVersion, SettingType DEF TypeInv
    <3> QED  BY <2>1, <2>3, <3>1 DEF VersionInv
  <2> QED  BY <2>2, <2>3
<1>3. CASE SyncFails
  <2>1. UNCHANGED <<journal, cache, pref, saves>>
    BY <1>3 DEF SyncFails, Apply
  <2> QED  BY <2>1 DEF VersionInv
<1>4. CASE EndSave
  <2>1. journal'.updated = saves + 1 /\ saves' = saves + 1
        /\ UNCHANGED <<cache, pref>>
    BY <1>4 DEF EndSave
  <2>2. saves \in Nat /\ (cache # Absent => cache.updated \in Nat)
    BY SettingType DEF TypeInv
  <2> QED  BY <2>1, <2>2 DEF VersionInv
<1>5. CASE Rotate
  <2>1. journal' = Absent /\ UNCHANGED <<cache, pref, saves>>
    BY <1>5 DEF Rotate
  <2> QED  BY <2>1 DEF VersionInv
<1>6. ASSUME UNCHANGED <<journal, cache, pref, saves>> PROVE VersionInv'
  BY <1>6 DEF VersionInv
<1>7. CASE StartRound \/ NotDue \/ FinishRound \/ Nap \/ Wake
  BY <1>6, <1>7 DEF StartRound, NotDue, FinishRound, Nap, Wake
<1>8. CASE Tick \/ BeginSave \/ PowerCut \/ UNCHANGED vars
  BY <1>6, <1>8 DEF Tick, BeginSave, PowerCut, vars
<1> QED
  BY <1>1, <1>2, <1>3, <1>4, <1>5, <1>7, <1>8 DEF Next, Loop

-----------------------------------------------------------------------------
(* The invariant holds in every state of every behaviour. *)
THEOREM InvHolds == Spec => []Inv
<1>1. Inv /\ [Next]_vars => Inv'
  BY TypeStep, GapStep, DueStep, AgeStep, VersionStep DEF Inv
<1> QED  BY InvInit, <1>1, PTL DEF Spec

(* Every variable keeps its type; a sleep is never negative or longer than   *)
(* the poll (boot-initrd-handoff, delay).                                    *)
THEOREM TypeCorrect == Spec => []TypeInv
<1>1. Inv => TypeInv
  BY DEF Inv
<1> QED  BY InvHolds, <1>1, PTL

(* With the settings left alone a round is never later than the interval, or *)
(* a second after the end of the last one ("Sleep only until the next        *)
(* collection is due").                                                      *)
THEOREM RoundsTimely == Spec => []Timely
<1>1. ASSUME Inv PROVE Timely
  <2> SUFFICES ASSUME pc \in {"nap", "sleep", "sync", "check"}, steady,
                      pref.enabled, ~fresh
               PROVE  gap <= Larger(pref.interval, lastRun + 1)
    BY DEF Timely
  <2>1. /\ pref.interval \in Nat /\ lastRun \in Nat /\ gap \in Nat
        /\ wait \in Nat
    BY <1>1, SettingType, BoundAssumption DEF Inv, TypeInv
  <2>2. /\ pc = "nap" => gap < pref.interval \/ gap = lastRun
        /\ pc = "sleep" => gap + wait <= Larger(pref.interval, lastRun + 1)
        /\ pc \in {"sync", "check"} => gap <= Larger(pref.interval, lastRun + 1)
    BY <1>1 DEF Inv, DueInv
  <2> QED  BY <2>1, <2>2 DEF Larger
<1> QED  BY InvHolds, <1>1, PTL

(* An acceptable preference waits for one sleep and one round, and for one   *)
(* more of each for every settings-sync that fails meanwhile (the pass of    *)
(* S99zd_ping_monitor, which goes on after a failing one).                   *)
THEOREM PreferencePrompt == Spec => []Prompt
<1>1. ASSUME Inv PROVE Prompt
  <2>1. /\ age \in Nat /\ missed \in Nat /\ run \in 0 .. MaxRun /\ wait \in Nat
        /\ Poll \in Nat /\ MaxRun \in Nat /\ pc \in Steps
    BY <1>1, BoundAssumption DEF Inv, TypeInv
  <2>2. Cycle \in Nat /\ Cycle = Poll + MaxRun
    BY <2>1 DEF Cycle
  <2>3. /\ missed * Cycle \in Nat
        /\ (missed + 1) * Cycle = missed * Cycle + Cycle
    BY <2>1, <2>2, NextCycle
  <2>4. age <= missed * Cycle + Cycle
    <3> HIDE DEF Cycle
    <3> QED  BY <1>1, <2>1, <2>2, <2>3 DEF Inv, AgeInv, Steps
  <2> QED  BY <2>2, <2>3, <2>4 DEF Prompt
<1> QED  BY InvHolds, <1>1, PTL

(* Two rounds start at least the interval in force apart, unless the loop    *)
(* was restarted or monitoring was switched on between them (the due test).  *)
THEOREM RoundsSpaced == Spec => Spaced
<1>1. ASSUME Inv, [Next]_vars, pc = "check", pc' = "round"
      PROVE  fresh \/ gap >= pref.interval
  <2>1. Due
    <3>1. CASE Tick  BY <1>1, <3>1 DEF Tick
    <3>2. CASE Sync \/ SyncFails
      BY <1>1, <3>2 DEF Sync, SyncFails
    <3>3. CASE BeginSave \/ EndSave \/ Rotate \/ PowerCut \/ UNCHANGED vars
      BY <1>1, <3>3 DEF BeginSave, EndSave, Rotate, PowerCut, vars
    <3>4. CASE Boot \/ NotDue \/ FinishRound \/ Nap \/ Wake
      BY <1>1, <3>4 DEF Boot, NotDue, FinishRound, Nap, Wake
    <3>5. CASE StartRound
      BY <3>5 DEF StartRound
    <3> QED  BY <1>1, <3>1, <3>2, <3>3, <3>4, <3>5 DEF Next, Loop
  <2> QED  BY <1>1, <2>1 DEF Due, Inv, GapInv
<1> QED  BY InvHolds, <1>1, PTL DEF Spec, Spaced

(* The loop never falls back to an older preference, whatever ZD is writing, *)
(* whatever becomes of its journal and across a restart                      *)
(* (ping-monitor-settings-sync.sh, apply_native_settings).                   *)
THEOREM PreferenceKept == Spec => NeverReverts
<1> DEFINE Kept ==
      /\ cache # Absent => cache' # Absent /\ cache'.updated >= cache.updated
      /\ pc \in Awake /\ pc' \in Awake => pref'.updated >= pref.updated
      /\ pc = "sync" /\ pc' = "check" /\ faults' = faults /\ cache' # Absent
           => pref' = cache'
<1>1. ASSUME Inv, [Next]_vars PROVE Kept
  <2> USE DEF history
  <2>0. /\ pref.updated \in Nat /\ faults \in Nat
        /\ cache # Absent => cache.updated \in Nat
    BY <1>1, SettingType DEF Inv, TypeInv
  <2>1. ASSUME UNCHANGED <<cache, pref>>,
               ~(pc = "sync" /\ pc' = "check" /\ faults' = faults)
        PROVE  Kept
    BY <2>0, <2>1
  <2>2. CASE Boot
    BY <2>0, <2>2 DEF Boot, Awake
  <2>3. CASE Sync
    <3>1. cache' = Emitted /\ pref' = IF Emitted = Absent THEN pref ELSE Emitted
      BY <2>3 DEF Sync, Apply
    <3>2. CASE Emitted = Absent
      BY <1>1, <2>0, <3>1, <3>2, NothingEmitted DEF Inv
    <3>3. CASE Emitted # Absent
      <4>1. Emitted.updated \in Nat
        BY <1>1, <3>3, EmittedType, SettingType DEF Inv, TypeInv
      <4> QED  BY <1>1, <2>0, <3>1, <3>3, <4>1, EmittedVersion DEF Inv
    <3> QED  BY <3>2, <3>3
  <2>4. CASE SyncFails
    <3>1. UNCHANGED <<cache, pref>> /\ faults' # faults
      BY <2>0, <2>4 DEF SyncFails, Apply, Fault
    <3> QED  BY <2>1, <3>1
  <2>5. CASE StartRound \/ NotDue \/ FinishRound \/ Nap \/ Wake
    BY <2>1, <2>5 DEF StartRound, NotDue, FinishRound, Nap, Wake
  <2>6. CASE Tick \/ BeginSave \/ EndSave \/ Rotate \/ PowerCut \/ UNCHANGED vars
    BY <2>1, <2>6 DEF Tick, BeginSave, EndSave, Rotate, PowerCut, vars
  <2> QED
    BY <1>1, <2>2, <2>3, <2>4, <2>5, <2>6 DEF Next, Loop
<1> QED  BY InvHolds, <1>1, PTL DEF Spec, NeverReverts
=============================================================================
