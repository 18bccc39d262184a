------------------------- MODULE DailyHistoryProofs -------------------------
(***************************************************************************)
(* Proofs about DailyHistory for every number of days, rounds and faults.  *)
(***************************************************************************)
EXTENDS DailyHistory, TLAPS

(* Every variable starts in its type. *)
LEMMA TypeInit == Init => TypeInv
<1> USE BoundAssumption DEF TypeInv, Steps
<1> SUFFICES ASSUME Init PROVE TypeInv
  OBVIOUS
<1>1. 0 \in Days /\ {} \in SUBSET Rounds
  BY DEF Days
<1>2. /\ db \in [Days -> SUBSET Rounds] /\ shown \in [Days -> SUBSET Rounds]
      /\ files \in [Days -> File \cup {NoFile}]
  BY <1>1 DEF Init
<1> QED  BY <1>1, <1>2 DEF Init

(* Every step of the loop, the clock, the administrator and the faults     *)
(* leaves each variable in its type.                                        *)
LEMMA TypeStep == TypeInv /\ [Next]_vars => TypeInv'
<1> USE BoundAssumption DEF TypeInv, Steps
<1> SUFFICES ASSUME TypeInv, [Next]_vars PROVE TypeInv'
  OBVIOUS
<1>1. CASE Midnight      BY <1>1 DEF Midnight, disk, Days
<1>2. CASE Toggle        BY <1>2 DEF Toggle, disk
<1>3. CASE BeginRound    BY <1>3 DEF BeginRound, disk
<1>4. CASE Tick
  <2>1. PICK stamp \in now .. clock, r \in Rounds, k \in 0 .. MaxRounds :
          db' = Pruned([db EXCEPT ![stamp] = @ \cup {r}], stamp, k)
    BY <1>4 DEF Tick
  <2>2. db' \in [Days -> SUBSET Rounds]
    BY <2>1 DEF Pruned, Days
  <2>3. Cutoff \in Nat
    BY DEF Cutoff, Days
  <2> QED  BY <1>4, <2>2, <2>3 DEF Tick, disk
<1>5. CASE TickFails     BY <1>5 DEF TickFails, disk, Cutoff, Days
<1>6. CASE BackfillDay   BY <1>6 DEF BackfillDay, File, Days
<1>7. CASE BackfillDone  BY <1>7 DEF BackfillDone
<1>8. ASSUME ListPeriods, UNCHANGED <<files, current, marker>>
      PROVE  /\ manifest' \subseteq [start : Days, immutable : BOOLEAN]
             /\ shown' \in [Days -> SUBSET Rounds]
  <2>1. manifest' \subseteq [start : Days, immutable : BOOLEAN]
    <3>1. [start : {d \in Days : files[d] # NoFile}, immutable : {TRUE}]
            \subseteq [start : Days, immutable : BOOLEAN]
      OBVIOUS
    <3>2. marker # NoDay => [start |-> marker, immutable |-> FALSE]
                              \in [start : Days, immutable : BOOLEAN]
      OBVIOUS
    <3>3. manifest' = Advertised
      BY <1>8 DEF ListPeriods
    <3> QED  BY <3>1, <3>2, <3>3 DEF Advertised
  <2>2. \A d \in Days : Readable(d) \subseteq Rounds
    <3> SUFFICES ASSUME NEW d \in Days PROVE Readable(d) \subseteq Rounds
      OBVIOUS
    <3>1. \A f \in File : f.rounds \subseteq Rounds
      BY DEF File
    <3>2. files[d] # NoFile => files[d] \in File
      OBVIOUS
    <3>3. current # NoFile => current \in File
      OBVIOUS
    <3> QED  BY <3>1, <3>2, <3>3 DEF Readable
  <2> QED  BY <1>8, <2>1, <2>2 DEF ListPeriods
<1>9. CASE ListBackfill  BY <1>8, <1>9 DEF ListBackfill
<1>10. CASE BackfillFails BY <1>10 DEF BackfillFails, Fault, disk
<1>11. CASE Roll         BY <1>11 DEF Roll
<1>12. CASE Export       BY <1>12 DEF Export, disk, File
<1>13. CASE PublishFails BY <1>13 DEF PublishFails, Fault, disk
<1>14. CASE Swap         BY <1>14 DEF Swap
<1>15. CASE Mark         BY <1>15 DEF Mark
<1>16. CASE Retain       BY <1>16 DEF Retain
<1>17. CASE List         BY <1>8, <1>17 DEF List
<1>18. CASE PowerCut
  <2>1. faults' = faults + 1
    BY <1>18 DEF PowerCut, Fault
  <2>2. /\ pc' = "off" /\ staged' = NoFile /\ settled' = FALSE
        /\ UNCHANGED <<clock, enabled, db, disk, now, bfDay>>
    BY <1>18 DEF PowerCut
  <2>3. faults' \in Nat
    BY <2>1
  <2>4. pc' \in Steps /\ staged' \in File \cup {NoFile} /\ settled' \in BOOLEAN
    BY <2>2
  <2> QED  BY <2>2, <2>3, <2>4 DEF disk
<1>19. CASE Boot         BY <1>19 DEF Boot, disk
<1>20. CASE UNCHANGED vars BY <1>20 DEF vars
<1> QED
  BY <1>1, <1>2, <1>3, <1>4, <1>5, <1>6, <1>7, <1>9, <1>10, <1>11, <1>12,
     <1>13, <1>14, <1>15, <1>16, <1>17, <1>18, <1>19, <1>20
  DEF Next, Publisher

(* The type invariant holds in every state of every behaviour. *)
THEOREM TypeCorrect == Spec => []TypeInv
<1> QED  BY TypeInit, TypeStep, PTL DEF Spec

-----------------------------------------------------------------------------
(* The strengthening that makes the safety invariants inductive as long as  *)
(* no power cut falls between the two renames.                              *)

(* The loop's day is the clock's, or the day before during a round. *)
TimeInv ==
  /\ now <= clock
  /\ pc \in Busy => clock <= now + 1

(* Dated files hold the day they are named after, a day before the loop's. *)
DatedInv == \A d \in Days : files[d] # NoFile => files[d].day = d /\ d < now

(* The marker names the current file's day except between the two renames. *)
MarkerInv ==
  /\ marker # NoDay => marker <= now
  /\ current # NoFile => IF pc = "mark" THEN current.day = now
                                        ELSE marker = current.day
  /\ pc = "mark" => current # NoFile
  /\ pc \in {"retain", "list"} => marker = now /\ current # NoFile
  /\ pc = "export" => (current # NoFile => marker = now)

(* The export holds every round of its day that the current file shows. *)
StageInv ==
  /\ current # NoFile /\ current.day + Retention > clock
       => current.rounds \subseteq db[current.day]
  /\ pc = "swap" =>
       /\ staged # NoFile /\ staged.day = now
       /\ staged.rounds \subseteq db[now]
       /\ current # NoFile => marker = now /\ current.rounds \subseteq staged.rounds

(* What the last completed publication left is what the manifest lists. *)
ListInv ==
  /\ pc = "list" \/ settled => \A d \in Days : files[d] # NoFile => d + Retention >= now
  /\ settled => /\ pc = "idle" /\ manifest = Advertised
                /\ marker = now /\ current # NoFile

Inv == TypeInv /\ TimeInv /\ DatedInv /\ MarkerInv /\ StageInv /\ ListInv

(* The fields of a daily file. *)
LEMMA FileFields == \A f \in File : f.day \in Days /\ f.rounds \subseteq Rounds
  BY DEF File

(* A step keeps the loop's day within one midnight of the clock. *)
LEMMA TimeStep == ASSUME Inv, [Next]_vars PROVE TimeInv'
<1> USE BoundAssumption DEF Inv, TypeInv, TimeInv, Days, Steps, Busy
<1>1. CASE Midnight  BY <1>1 DEF Midnight, disk
<1>2. CASE Toggle  BY <1>2 DEF Toggle, disk
<1>3. CASE BeginRound  BY <1>3 DEF BeginRound, disk
<1>4. CASE Tick  BY <1>4 DEF Tick, disk
<1>5. CASE TickFails  BY <1>5 DEF TickFails, disk
<1>6. CASE BackfillDay  BY <1>6 DEF BackfillDay
<1>7. CASE BackfillDone  BY <1>7 DEF BackfillDone
<1>8. CASE ListBackfill  BY <1>8 DEF ListBackfill
<1>9. CASE BackfillFails  BY <1>9 DEF BackfillFails, disk
<1>10. CASE Roll  BY <1>10 DEF Roll
<1>11. CASE Export  BY <1>11 DEF Export, disk
<1>12. CASE PublishFails  BY <1>12 DEF PublishFails, disk
<1>13. CASE Swap  BY <1>13 DEF Swap
<1>14. CASE Mark  BY <1>14 DEF Mark
<1>15. CASE Retain  BY <1>15 DEF Retain
<1>16. CASE List  BY <1>16 DEF List
<1>17. CASE PowerCut  BY <1>17 DEF PowerCut, disk
<1>18. CASE Boot  BY <1>18 DEF Boot, disk
<1>19. CASE UNCHANGED vars  BY <1>19 DEF vars
<1> QED
  BY <1>1, <1>2, <1>3, <1>4, <1>5, <1>6, <1>7, <1>8, <1>9, <1>10, <1>11,
     <1>12, <1>13, <1>14, <1>15, <1>16, <1>17, <1>18, <1>19
  DEF Next, Publisher

(* A step leaves in every dated file the day of its name: the rename takes *)
(* the name from the marker, which MarkerInv ties to the current file.      *)
LEMMA DatedStep == ASSUME Inv, [Next]_vars PROVE DatedInv'
<1> USE BoundAssumption DEF Inv, TypeInv, TimeInv, DatedInv, Days
<1>1. CASE Midnight  BY <1>1 DEF Midnight, disk
<1>2. CASE Toggle  BY <1>2 DEF Toggle, disk
<1>3. CASE BeginRound  BY <1>3 DEF BeginRound, disk
<1>4. CASE Tick  BY <1>4 DEF Tick, disk
<1>5. CASE TickFails  BY <1>5 DEF TickFails, disk
<1>6. CASE BackfillDay  BY <1>6 DEF BackfillDay
<1>7. CASE BackfillDone  BY <1>7 DEF BackfillDone
<1>8. CASE ListBackfill  BY <1>8 DEF ListBackfill
<1>9. CASE BackfillFails  BY <1>9 DEF BackfillFails, disk
<1>10. CASE Roll
  <2>1. marker # NoDay /\ marker # now /\ current # NoFile
          => current.day = marker /\ marker < now
    BY <1>10 DEF Roll, MarkerInv
  <2> QED  BY <1>10, <2>1 DEF Roll
<1>11. CASE Export  BY <1>11 DEF Export, disk
<1>12. CASE PublishFails  BY <1>12 DEF PublishFails, disk
<1>13. CASE Swap  BY <1>13 DEF Swap
<1>14. CASE Mark  BY <1>14 DEF Mark
<1>15. CASE Retain  BY <1>15 DEF Retain
<1>16. CASE List  BY <1>16 DEF List
<1>17. CASE PowerCut  BY <1>17 DEF PowerCut, disk
<1>18. CASE Boot  BY <1>18 DEF Boot, disk
<1>19. CASE UNCHANGED vars  BY <1>19 DEF vars
<1> QED
  BY <1>1, <1>2, <1>3, <1>4, <1>5, <1>6, <1>7, <1>8, <1>9, <1>10, <1>11,
     <1>12, <1>13, <1>14, <1>15, <1>16, <1>17, <1>18, <1>19
  DEF Next, Publisher

(* A step keeps the marker and the current file in agreement; a power cut  *)
(* between the two renames is the one step that would not.                  *)
LEMMA MarkerStep ==
  ASSUME Inv, [Next]_vars, "swap" \notin Faults PROVE MarkerInv'
<1> USE BoundAssumption, AbsentAssumption DEF Inv, TypeInv, TimeInv, MarkerInv, Days
<1>1. CASE Midnight  BY <1>1 DEF Midnight, disk
<1>2. CASE Toggle  BY <1>2 DEF Toggle, disk
<1>3. CASE BeginRound  BY <1>3 DEF BeginRound, disk
<1>4. CASE Tick  BY <1>4 DEF Tick, disk
<1>5. CASE TickFails  BY <1>5 DEF TickFails, disk
<1>6. CASE BackfillDay  BY <1>6 DEF BackfillDay
<1>7. CASE BackfillDone  BY <1>7 DEF BackfillDone
<1>8. CASE ListBackfill  BY <1>8 DEF ListBackfill
<1>9. CASE BackfillFails  BY <1>9 DEF BackfillFails, disk
<1>10. CASE Roll
  <2>1. current # NoFile => marker # NoDay
    BY <1>10, FileFields DEF Roll
  <2>2. current' # NoFile => marker = now
    BY <1>10, <2>1 DEF Roll
  <2>3. pc' = "export" /\ UNCHANGED <<now, marker>>
    BY <1>10 DEF Roll
  <2>4. current' # NoFile => current' = current
    BY <1>10 DEF Roll
  <2> QED  BY <1>10, <2>2, <2>3, <2>4 DEF Roll
<1>11. CASE Export  BY <1>11 DEF Export, disk
<1>12. CASE PublishFails  BY <1>12 DEF PublishFails, disk
<1>13. CASE Swap
  BY <1>13 DEF Swap, StageInv
<1>14. CASE Mark  BY <1>14 DEF Mark
<1>15. CASE Retain  BY <1>15 DEF Retain
<1>16. CASE List  BY <1>16 DEF List
<1>17. CASE PowerCut
  <2>1. ~BetweenRenames
    BY <1>17 DEF PowerCut, Fault
  <2>2. pc' = "off" /\ UNCHANGED <<now, marker, current>>
    BY <1>17 DEF PowerCut, disk
  <2> QED  BY <2>1, <2>2 DEF BetweenRenames
<1>18. CASE Boot  BY <1>18 DEF Boot, disk
<1>19. CASE UNCHANGED vars  BY <1>19 DEF vars
<1> QED
  BY <1>1, <1>2, <1>3, <1>4, <1>5, <1>6, <1>7, <1>8, <1>9, <1>10, <1>11,
     <1>12, <1>13, <1>14, <1>15, <1>16, <1>17, <1>18, <1>19
  DEF Next, Publisher

(* Rounds of a day that is not yet expiring stay in the database. *)
LEMMA RowsKept ==
  ASSUME Inv, Tick, NEW d \in Days, d + Retention > clock
  PROVE  db[d] \subseteq db'[d]
<1> USE BoundAssumption DEF Inv, TypeInv, Days
<1>1. PICK stamp \in now .. clock, r \in Rounds, k \in 0 .. MaxRounds :
        db' = Pruned([db EXCEPT ![stamp] = @ \cup {r}], stamp, k)
  BY DEF Tick
<1>2. db'[d] = [db EXCEPT ![stamp] = @ \cup {r}][d]
  BY <1>1 DEF Pruned
<1> QED  BY <1>1, <1>2

(* A step keeps the current file within the database, and the export ahead *)
(* of the file it is about to replace.                                      *)
LEMMA StageStep ==
  ASSUME Inv, [Next]_vars, "swap" \notin Faults PROVE StageInv'
<1> USE BoundAssumption, AbsentAssumption DEF Inv, TypeInv, TimeInv, StageInv
<1>1. CASE Midnight
  BY FileFields, <1>1 DEF Midnight, disk, Days
<1>2. CASE Toggle  BY <1>2 DEF Toggle, disk
<1>3. CASE BeginRound  BY <1>3 DEF BeginRound, disk
<1>4. CASE Tick
  <2>1. current # NoFile => current.day \in Days
    BY FileFields
  <2>2. pc' = "backfill" /\ UNCHANGED <<current, clock>>
    BY <1>4 DEF Tick, disk
  <2> QED  BY <1>4, <2>1, <2>2, RowsKept
<1>5. CASE TickFails  BY <1>5 DEF TickFails, disk
<1>6. CASE BackfillDay  BY <1>6 DEF BackfillDay
<1>7. CASE BackfillDone  BY <1>7 DEF BackfillDone
<1>8. CASE ListBackfill  BY <1>8 DEF ListBackfill
<1>9. CASE BackfillFails  BY <1>9 DEF BackfillFails, disk
<1>10. CASE Roll  BY <1>10 DEF Roll
<1>11. CASE Export
  <2>1. staged' = [day |-> now, rounds |-> db[now]] /\ staged' # NoFile
    BY <1>11 DEF Export, File
  <2>2. current # NoFile => current.day = now /\ current.rounds \subseteq db[now]
    <3>1. now + Retention > clock
      BY <1>11 DEF Export, Busy, Steps, Days
    <3>2. current # NoFile => current.day = now
      BY <1>11 DEF Export, MarkerInv
    <3> QED  BY <3>1, <3>2
  <2> QED  BY <1>11, <2>1, <2>2 DEF Export, disk, MarkerInv
<1>12. CASE PublishFails  BY <1>12 DEF PublishFails, disk
<1>13. CASE Swap  BY <1>13 DEF Swap
<1>14. CASE Mark  BY <1>14 DEF Mark
<1>15. CASE Retain  BY <1>15 DEF Retain
<1>16. CASE List  BY <1>16 DEF List
<1>17. CASE PowerCut  BY <1>17 DEF PowerCut, disk
<1>18. CASE Boot  BY <1>18 DEF Boot, disk
<1>19. CASE UNCHANGED vars  BY <1>19 DEF vars
<1> QED
  BY <1>1, <1>2, <1>3, <1>4, <1>5, <1>6, <1>7, <1>8, <1>9, <1>10, <1>11,
     <1>12, <1>13, <1>14, <1>15, <1>16, <1>17, <1>18, <1>19
  DEF Next, Publisher

(* What is listed stays what is on disk until the next round begins. *)
LEMMA ListStep == ASSUME Inv, [Next]_vars PROVE ListInv'
<1> USE BoundAssumption DEF Inv, TypeInv, ListInv, Advertised
<1>1. CASE Midnight  BY <1>1 DEF Midnight, disk
<1>2. CASE Toggle  BY <1>2 DEF Toggle, disk
<1>3. CASE BeginRound  BY <1>3 DEF BeginRound, disk
<1>4. CASE Tick  BY <1>4 DEF Tick, disk
<1>5. CASE TickFails  BY <1>5 DEF TickFails, disk
<1>6. CASE BackfillDay  BY <1>6 DEF BackfillDay
<1>7. CASE BackfillDone  BY <1>7 DEF BackfillDone
<1>8. CASE ListBackfill  BY <1>8 DEF ListBackfill
<1>9. CASE BackfillFails  BY <1>9 DEF BackfillFails, disk
<1>10. CASE Roll  BY <1>10 DEF Roll
<1>11. CASE Export  BY <1>11 DEF Export, disk
<1>12. CASE PublishFails  BY <1>12 DEF PublishFails, disk
<1>13. CASE Swap  BY <1>13 DEF Swap
<1>14. CASE Mark  BY <1>14 DEF Mark
<1>15. CASE Retain
  <2>1. \A d \in Days : files'[d] # NoFile => d + Retention >= now
    BY <1>15 DEF Retain, Days
  <2> QED  BY <1>15, <2>1 DEF Retain
<1>16. CASE List
  <2>1. manifest' = Advertised /\ UNCHANGED <<files, current, marker, now>>
    BY <1>16 DEF List, ListPeriods
  <2> QED  BY <1>16, <2>1 DEF List, MarkerInv
<1>17. CASE PowerCut  BY <1>17 DEF PowerCut, disk
<1>18. CASE Boot  BY <1>18 DEF Boot, disk
<1>19. CASE UNCHANGED vars  BY <1>19 DEF vars
<1> QED
  BY <1>1, <1>2, <1>3, <1>4, <1>5, <1>6, <1>7, <1>8, <1>9, <1>10, <1>11,
     <1>12, <1>13, <1>14, <1>15, <1>16, <1>17, <1>18, <1>19
  DEF Next, Publisher

(* The invariant is inductive when no power cut falls between the renames. *)
THEOREM InvHolds ==
  ASSUME "swap" \notin Faults PROVE Spec => []Inv
<1>1. Init => Inv
  <2> SUFFICES ASSUME Init PROVE Inv
    OBVIOUS
  <2>1. TypeInv
    BY TypeInit
  <2> QED  BY <2>1, BoundAssumption
    DEF Init, Inv, TimeInv, DatedInv, MarkerInv, StageInv, ListInv, Busy
<1>2. Inv /\ [Next]_vars => Inv'
  <2> SUFFICES ASSUME Inv, [Next]_vars PROVE Inv'
    OBVIOUS
  <2>1. TypeInv'
    BY TypeStep DEF Inv
  <2> QED  BY <2>1, TimeStep, DatedStep, MarkerStep, StageStep, ListStep DEF Inv
<1> QED  BY <1>1, <1>2, PTL DEF Spec




-----------------------------------------------------------------------------
(* The safety theorems. *)

(* A dated file holds the day in its name, whatever fails and wherever the *)
(* power is cut except between the renames of ping-daily-publish.sh:90-91.  *)
THEOREM DatedFilesCorrect ==
  ASSUME "swap" \notin Faults PROVE Spec => []FileHoldsItsDay
<1>1. Inv => FileHoldsItsDay
  BY DEF Inv, DatedInv, FileHoldsItsDay
<1> QED  BY <1>1, InvHolds, PTL

(* A completed publication leaves one period per day, each naming the file *)
(* of that day, none beyond the retention.                                  *)
THEOREM ManifestCorrect ==
  ASSUME "swap" \notin Faults PROVE Spec => []ManifestSound
<1>1. Inv => ManifestSound
  <2> SUFFICES ASSUME Inv, settled PROVE ManifestSound
    BY DEF ManifestSound
  <2> USE BoundAssumption DEF Inv, TypeInv, ListInv
  <2>1. manifest = Advertised /\ marker = now /\ current # NoFile /\ current.day = now
    BY DEF MarkerInv
  <2>2. \A p \in manifest :
          \/ /\ p.immutable = TRUE /\ p.start \in Days /\ files[p.start] # NoFile
             /\ p = [start |-> p.start, immutable |-> TRUE]
          \/ p = [start |-> now, immutable |-> FALSE]
    <3> DEFINE S == {d \in Days : files[d] # NoFile}
    <3>1. ASSUME NEW p \in [start : S, immutable : {TRUE}]
          PROVE  /\ p.immutable = TRUE /\ p.start \in S
                 /\ p = [start |-> p.start, immutable |-> TRUE]
      <4> HIDE DEF S
      <4>1. p.immutable = TRUE /\ p.start \in S
        OBVIOUS
      <4>2. p = [start |-> p.start, immutable |-> p.immutable]
        OBVIOUS
      <4> QED  BY <4>1, <4>2
    <3>2. manifest = [start : S, immutable : {TRUE}]
                       \cup {[start |-> now, immutable |-> FALSE]}
      BY <2>1, AbsentAssumption DEF Advertised
    <3> QED  BY <3>1, <3>2
  <2>3. \A d \in Days : files[d] # NoFile
          => files[d].day = d /\ d # now /\ d + Retention >= now
    BY DEF DatedInv, Days
  <2>4. \A p \in manifest :
          /\ p.start + Retention >= now
          /\ IF p.immutable THEN files[p.start].day = p.start
                            ELSE current.day = p.start
    BY <2>1, <2>2, <2>3 DEF Days
  <2>5. \A p, q \in manifest : p.start = q.start => p = q
    BY <2>2, <2>3
  <2> QED  BY <2>1, <2>4, <2>5 DEF ManifestSound
<1> QED  BY <1>1, InvHolds, PTL

(* The file of day d changes only in the backfill, by the rename of the    *)
(* current file of day d, or when it expires.                               *)
LEMMA DatedChange ==
  ASSUME Inv, [Next]_vars, NEW d \in Days, files[d] # NoFile,
         files'[d] \notin {files[d], NoFile}
  PROVE  \/ ~backfilled
         \/ current # NoFile /\ current.day = d
<1> USE DEF Inv, TypeInv
<1>1. CASE Midnight  BY <1>1 DEF Midnight, disk
<1>2. CASE Toggle  BY <1>2 DEF Toggle, disk
<1>3. CASE BeginRound  BY <1>3 DEF BeginRound, disk
<1>4. CASE Tick  BY <1>4 DEF Tick, disk
<1>5. CASE TickFails  BY <1>5 DEF TickFails, disk
<1>6. CASE BackfillDay  BY <1>6 DEF BackfillDay
<1>7. CASE BackfillDone  BY <1>7 DEF BackfillDone
<1>8. CASE ListBackfill  BY <1>8 DEF ListBackfill
<1>9. CASE BackfillFails  BY <1>9 DEF BackfillFails, disk
<1>10. CASE Roll
  BY <1>10 DEF Roll, MarkerInv
<1>11. CASE Export  BY <1>11 DEF Export, disk
<1>12. CASE PublishFails  BY <1>12 DEF PublishFails, disk
<1>13. CASE Swap  BY <1>13 DEF Swap
<1>14. CASE Mark  BY <1>14 DEF Mark
<1>15. CASE Retain  BY <1>15 DEF Retain
<1>16. CASE List  BY <1>16 DEF List
<1>17. CASE PowerCut  BY <1>17 DEF PowerCut, disk
<1>18. CASE Boot  BY <1>18 DEF Boot, disk
<1>19. CASE UNCHANGED vars  BY <1>19 DEF vars
<1> QED
  BY <1>1, <1>2, <1>3, <1>4, <1>5, <1>6, <1>7, <1>8, <1>9, <1>10, <1>11,
     <1>12, <1>13, <1>14, <1>15, <1>16, <1>17, <1>18, <1>19
  DEF Next, Publisher

(* Once the archive is closed the completed days are immutable. *)
THEOREM DaysImmutable ==
  ASSUME "swap" \notin Faults PROVE Spec => ImmutableDays
<1>1. Inv /\ [Next]_vars =>
        [Closed => \A d \in Days :
           files[d] # NoFile => files'[d] \in {files[d], NoFile}]_vars
  BY DatedChange DEF Closed
<1> QED  BY <1>1, InvHolds, PTL DEF Spec, ImmutableDays

(* A step of the publisher is a step of the archive or changes nothing in it. *)
LEMMA ArchiveStep ==
  ASSUME Inv, [Next]_vars PROVE [Archive!Next]_(Archive!avars)
<1> USE DEF Inv, TypeInv
<1>1. CASE Midnight  BY <1>1 DEF Midnight, disk, Closed, Archive!avars
<1>2. CASE Toggle  BY <1>2 DEF Toggle, disk, Closed, Archive!avars
<1>3. CASE BeginRound  BY <1>3 DEF BeginRound, disk, Closed, Archive!avars
<1>4. CASE Tick  BY <1>4 DEF Tick, disk, Closed, Archive!avars
<1>5. CASE TickFails  BY <1>5 DEF TickFails, disk, Closed, Archive!avars
<1>6. CASE BackfillDay
  <2>1. Closed = FALSE /\ Closed' = FALSE
    BY <1>6 DEF BackfillDay, Closed
  <2>2. /\ bfDay \in Days /\ UNCHANGED current
        /\ files' = [files EXCEPT ![bfDay] =
                      IF db[bfDay] = {} THEN NoFile
                      ELSE [day |-> bfDay, rounds |-> db[bfDay]]]
    BY <1>6, BoundAssumption DEF BackfillDay, Days
  <2> DEFINE f == IF db[bfDay] = {} THEN NoFile
                  ELSE [day |-> bfDay, rounds |-> db[bfDay]]
  <2>3. f \in File \cup {NoFile} /\ (f # NoFile => f.day = bfDay)
    BY <2>2 DEF File
  <2>4. files' = [files EXCEPT ![bfDay] = f]
    BY <2>2
  <2> HIDE DEF f
  <2>5. \E d \in Days, g \in File \cup {NoFile} :
          (g # NoFile => g.day = d) /\ files' = [files EXCEPT ![d] = g]
    BY <2>2, <2>3, <2>4
  <2>6. Archive!Import
    BY <2>1, <2>2, <2>5 DEF Archive!Import
  <2> QED  BY <2>6 DEF Archive!Next
<1>7. CASE BackfillDone
  <2>1. UNCHANGED <<files, current>> /\ backfilled'
    BY <1>7 DEF BackfillDone
  <2>2. CASE Closed'
    <3>1. Closed' = TRUE
      BY <2>2 DEF Closed
    <3> QED  BY <2>1, <3>1 DEF Archive!Close, Archive!Next
  <2>3. CASE ~Closed'
    <3>1. Closed' = Closed
      BY <2>1, <2>3 DEF Closed
    <3> QED  BY <2>1, <3>1 DEF Archive!avars
  <2> QED  BY <2>2, <2>3
<1>8. CASE ListBackfill  BY <1>8 DEF ListBackfill, Closed, Archive!avars
<1>9. CASE BackfillFails  BY <1>9 DEF BackfillFails, disk, Closed, Archive!avars
<1>10. CASE Roll
  <2>1. CASE marker # NoDay /\ marker # now /\ current # NoFile
    <3>1. /\ files' = [files EXCEPT ![current.day] = current]
          /\ current' = NoFile /\ backfilled' = backfilled
      BY <1>10, <2>1 DEF Roll, MarkerInv
    <3>2. Closed => files[current.day] = NoFile
      BY <2>1 DEF Closed
    <3>3. Closed' \in BOOLEAN /\ (Closed => Closed')
      BY <3>1 DEF Closed
    <3>4. Archive!Seal
      BY <2>1, <3>1, <3>2, <3>3 DEF Archive!Seal
    <3> QED  BY <3>4 DEF Archive!Next
  <2>2. CASE ~(marker # NoDay /\ marker # now /\ current # NoFile)
    BY <1>10, <2>2 DEF Roll, Closed, Archive!avars
  <2> QED  BY <2>1, <2>2
<1>11. CASE Export  BY <1>11 DEF Export, disk, Closed, Archive!avars
<1>12. CASE PublishFails  BY <1>12 DEF PublishFails, disk, Closed, Archive!avars
<1>13. CASE Swap
  <2>1. /\ staged \in File /\ staged.day = now
        /\ current # NoFile => current.day = now /\ current.rounds \subseteq staged.rounds
    BY <1>13 DEF Swap, StageInv, MarkerInv
  <2>2. files[now] = NoFile
    BY BoundAssumption DEF DatedInv, Days
  <2>3. current' = staged /\ UNCHANGED <<files, backfilled>>
    BY <1>13 DEF Swap
  <2>4. Closed' = Closed
    BY <2>1, <2>2, <2>3 DEF Closed
  <2>5. Archive!Refresh
    BY <2>1, <2>2, <2>3, <2>4 DEF Archive!Refresh
  <2> QED  BY <2>5 DEF Archive!Next
<1>14. CASE Mark  BY <1>14 DEF Mark, Closed, Archive!avars
<1>15. CASE Retain
  <2>1. current # NoFile /\ current.day = now
    BY <1>15 DEF Retain, MarkerInv
  <2>2. files[now] = NoFile
    BY BoundAssumption DEF DatedInv, Days
  <2> DEFINE old == {d \in Days : d + Retention < now}
  <2>3. /\ files' = [d \in Days |-> IF d \in old THEN NoFile ELSE files[d]]
        /\ UNCHANGED <<current, backfilled>>
    BY <1>15 DEF Retain
  <2>4. files'[now] = NoFile
    BY <2>2, <2>3
  <2>5. Closed' = Closed
    BY <2>1, <2>2, <2>3, <2>4 DEF Closed
  <2>6. old \in SUBSET Days
    OBVIOUS
  <2>7. Archive!Expire
    BY <2>3, <2>5, <2>6 DEF Archive!Expire
  <2> QED  BY <2>7 DEF Archive!Next
<1>16. CASE List  BY <1>16 DEF List, Closed, Archive!avars
<1>17. CASE PowerCut  BY <1>17 DEF PowerCut, disk, Closed, Archive!avars
<1>18. CASE Boot  BY <1>18 DEF Boot, disk, Closed, Archive!avars
<1>19. CASE UNCHANGED vars  BY <1>19 DEF vars, Closed, Archive!avars
<1> QED
  BY <1>1, <1>2, <1>3, <1>4, <1>5, <1>6, <1>7, <1>8, <1>9, <1>10, <1>11,
     <1>12, <1>13, <1>14, <1>15, <1>16, <1>17, <1>18, <1>19
  DEF Next, Publisher

(* The publisher implements the archive its readers rely on. *)
THEOREM RefinesArchive ==
  ASSUME "swap" \notin Faults PROVE Spec => ArchiveSpec
<1>1. Init => Archive!Init
  BY DEF Init, Archive!Init, Closed
<1>2. Inv /\ [Next]_vars => [Archive!Next]_(Archive!avars)
  BY ArchiveStep
<1> QED  BY <1>1, <1>2, InvHolds, PTL DEF Spec, ArchiveSpec, Archive!Spec

-----------------------------------------------------------------------------
(* Nothing shown is lost before it expires, as long as the backfill itself does *)
(* not fail.                                                                *)

(* Nothing is shown before the backfill is over, and from then on no dated  *)
(* file stands in the way of the current one.                               *)
ShownInv ==
  /\ ShownStaysReadable
  /\ ~backfilled => current = NoFile /\ \A d \in Days : shown[d] = {}
  /\ current # NoFile => files[current.day] = NoFile
  /\ pc \in {"listBackfill", "roll", "export", "swap", "mark", "retain", "list"}
       => backfilled

(* Listing the periods shows only what is readable. *)
LEMMA ListShows ==
  ASSUME ShownStaysReadable, ListPeriods,
         UNCHANGED <<files, current, clock>>, shown \in [Days -> SUBSET Rounds]
  PROVE  ShownStaysReadable'
  BY DEF ShownStaysReadable, ListPeriods, Readable

(* What is shown stays readable in a step that changes neither the files   *)
(* nor what is shown.                                                       *)
LEMMA SameShown ==
  ASSUME Inv, ShownStaysReadable, UNCHANGED <<files, current, shown>>,
         clock' \in Days, clock' >= clock
  PROVE  ShownStaysReadable'
  BY BoundAssumption DEF ShownStaysReadable, Readable, Inv, TypeInv, Days

(* A step preserves it: the rename keeps the rounds of the day, the export *)
(* only adds to them, and expired days are the only ones dropped.           *)
LEMMA ShownStep ==
  ASSUME Inv, ShownInv, [Next]_vars, Faults \cap {"swap", "backfill"} = {}
  PROVE  ShownInv'
<1> USE DEF ShownInv
<1>0. Inv'
  BY TypeStep, TimeStep, DatedStep, MarkerStep, StageStep, ListStep DEF Inv
<1>clk. clock' \in Days /\ clock' >= clock
  <2>1. clock' \in {clock, clock + 1}
    BY DEF Next, Publisher, vars, Midnight, Toggle, BeginRound, Tick, TickFails, BackfillDay, BackfillDone, ListBackfill, BackfillFails,
           Roll, Export, PublishFails, Swap, Mark, Retain, List, PowerCut, Boot
  <2> QED  BY <1>0, <2>1 DEF Inv, TypeInv, Days
<1>1. CASE Midnight
  <2>1. UNCHANGED <<files, current, shown, backfilled>>
    BY <1>1 DEF Midnight, disk
  <2> QED  BY <1>1, <2>1, <1>clk, SameShown DEF Midnight
<1>2. CASE Toggle
  <2>1. UNCHANGED <<files, current, shown, backfilled>>
    BY <1>2 DEF Toggle, disk
  <2> QED  BY <1>2, <2>1, <1>clk, SameShown DEF Toggle
<1>3. CASE BeginRound
  <2>1. UNCHANGED <<files, current, shown, backfilled>>
    BY <1>3 DEF BeginRound, disk
  <2> QED  BY <1>3, <2>1, <1>clk, SameShown DEF BeginRound
<1>4. CASE Tick
  <2>1. UNCHANGED <<files, current, shown, backfilled>>
    BY <1>4 DEF Tick, disk
  <2> QED  BY <1>4, <2>1, <1>clk, SameShown DEF Tick
<1>5. CASE TickFails
  <2>1. UNCHANGED <<files, current, shown, backfilled>>
    BY <1>5 DEF TickFails, disk
  <2> QED  BY <1>5, <2>1, <1>clk, SameShown DEF TickFails
<1>6. CASE BackfillDay
  <2>1. ~backfilled /\ UNCHANGED <<current, shown, backfilled, pc>>
    BY <1>6 DEF BackfillDay
  <2> QED  BY <1>6, <2>1 DEF BackfillDay, ShownStaysReadable
<1>7. CASE BackfillDone
  <2>1. backfilled' /\ UNCHANGED <<files, current, shown>>
    BY <1>7 DEF BackfillDone
  <2> QED  BY <1>7, <2>1, <1>clk, SameShown
<1>8. CASE ListBackfill
  <2>1. ShownStaysReadable'
    BY <1>8, ListShows DEF ListBackfill, Inv, TypeInv
  <2> QED  BY <1>8, <2>1 DEF ListBackfill
<1>9. CASE BackfillFails
  BY <1>9 DEF BackfillFails, Fault
<1>10. CASE Roll
  <2>1. CASE marker # NoDay /\ marker # now /\ current # NoFile
    <3>1. /\ files' = [files EXCEPT ![current.day] = current] /\ current' = NoFile
          /\ UNCHANGED <<shown, clock, backfilled>> /\ pc' = "export"
      BY <1>10, <2>1 DEF Roll, Inv, MarkerInv
    <3>2. files \in [Days -> File \cup {NoFile}] /\ current \in File
      BY <2>1 DEF Inv, TypeInv
    <3>3. \A d \in Days : Readable(d) \subseteq Readable(d)'
      BY <2>1, <3>1, <3>2 DEF Readable
    <3> QED  BY <1>10, <3>1, <3>3 DEF Roll, ShownStaysReadable
  <2>2. CASE ~(marker # NoDay /\ marker # now /\ current # NoFile)
    <3>1. UNCHANGED <<files, current, shown, backfilled>> /\ pc' = "export"
      BY <1>10, <2>2 DEF Roll
    <3> QED  BY <1>10, <3>1, <1>clk, SameShown DEF Roll
  <2> QED  BY <2>1, <2>2
<1>11. CASE Export
  <2>1. UNCHANGED <<files, current, shown, backfilled>>
    BY <1>11 DEF Export, disk
  <2> QED  BY <1>11, <2>1, <1>clk, SameShown DEF Export
<1>12. CASE PublishFails
  <2>1. UNCHANGED <<files, current, shown, backfilled>>
    BY <1>12 DEF PublishFails, disk
  <2> QED  BY <1>12, <2>1, <1>clk, SameShown DEF PublishFails
<1>13. CASE Swap
  <2>1. /\ staged \in File /\ staged.day = now
        /\ current # NoFile => current.day = now /\ current.rounds \subseteq staged.rounds
    BY <1>13 DEF Swap, Inv, TypeInv, StageInv, MarkerInv
  <2>2. files[now] = NoFile
    BY BoundAssumption DEF Inv, TypeInv, DatedInv, Days
  <2>3. current' = staged /\ pc' = "mark" /\ UNCHANGED <<files, shown, clock, backfilled>>
    BY <1>13 DEF Swap
  <2>4. \A d \in Days : Readable(d) \subseteq Readable(d)'
    BY <2>1, <2>3, AbsentAssumption DEF Readable
  <2>5. ShownStaysReadable'
    BY <2>3, <2>4 DEF ShownStaysReadable
  <2> QED  BY <1>13, <2>1, <2>2, <2>3, <2>5 DEF Swap
<1>14. CASE Mark
  <2>1. UNCHANGED <<files, current, shown, backfilled>>
    BY <1>14 DEF Mark
  <2> QED  BY <1>14, <2>1, <1>clk, SameShown DEF Mark
<1>15. CASE Retain
  <2>1. files' = [d \in Days |-> IF d + Retention < now THEN NoFile ELSE files[d]]
    BY <1>15 DEF Retain
  <2>2. pc' = "list" /\ UNCHANGED <<current, shown, clock, backfilled>>
    BY <1>15 DEF Retain
  <2>3. \A d \in Days : d + Retention > clock => files'[d] = files[d]
    BY <2>1, BoundAssumption DEF Inv, TypeInv, TimeInv, Days
  <2>4. ShownStaysReadable'
    BY <2>2, <2>3 DEF ShownStaysReadable, Readable
  <2>5. current # NoFile => files'[current.day] = NoFile
    BY <2>1, FileFields DEF Inv, TypeInv
  <2> QED  BY <1>15, <2>2, <2>4, <2>5 DEF Retain
<1>16. CASE List
  <2>1. ShownStaysReadable'
    BY <1>16, ListShows DEF List, Inv, TypeInv
  <2> QED  BY <1>16, <2>1 DEF List
<1>17. CASE PowerCut
  <2>1. UNCHANGED <<files, current, shown, backfilled>>
    BY <1>17 DEF PowerCut, disk
  <2> QED  BY <1>17, <2>1, <1>clk, SameShown DEF PowerCut
<1>18. CASE Boot
  <2>1. UNCHANGED <<files, current, shown, backfilled>>
    BY <1>18 DEF Boot, disk
  <2> QED  BY <1>18, <2>1, <1>clk, SameShown DEF Boot
<1>19. CASE UNCHANGED vars
  BY <1>19, <1>clk, SameShown DEF vars
<1> QED
  BY <1>1, <1>2, <1>3, <1>4, <1>5, <1>6, <1>7, <1>8, <1>9, <1>10, <1>11,
     <1>12, <1>13, <1>14, <1>15, <1>16, <1>17, <1>18, <1>19
  DEF Next, Publisher

(* Rounds the browser has been shown stay readable until they expire. *)
THEOREM ShownIsKept ==
  ASSUME Faults \cap {"swap", "backfill"} = {}
  PROVE  Spec => []ShownStaysReadable
<1>1. Init => ShownInv
  BY DEF Init, ShownInv, ShownStaysReadable
<1>2. Inv /\ ShownInv /\ [Next]_vars => ShownInv'
  BY ShownStep
<1>3. ShownInv => ShownStaysReadable
  BY DEF ShownInv
<1>4. Spec => []Inv
  BY InvHolds
<1> QED  BY <1>1, <1>2, <1>3, <1>4, PTL DEF Spec
=============================================================================
