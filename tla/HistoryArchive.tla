--------------------------- MODULE HistoryArchive ---------------------------
(***************************************************************************)
(* What the daily publisher promises its readers: an archive of sealed     *)
(* days plus one open day.  The open day only gains rounds until it is     *)
(* sealed; a sealed day never changes again and finally expires.  Until    *)
(* the archive is closed, an import may still (re)write past days.         *)
(***************************************************************************)
CONSTANTS Days, File, NoFile

VARIABLES
  sealed,  \* the sealed file of each day, or NoFile
  open,    \* the file of the open day, or NoFile
  closed   \* the import of earlier days is over

avars == <<sealed, open, closed>>

Init ==
  /\ sealed = [d \in Days |-> NoFile]
  /\ open = NoFile
  /\ closed = FALSE

(* Before the archive is closed, a past day is written from the database. *)
Import ==
  /\ ~closed
  /\ \E d \in Days, f \in File \cup {NoFile} :
       /\ f # NoFile => f.day = d
       /\ sealed' = [sealed EXCEPT ![d] = f]
  /\ UNCHANGED <<open, closed>>

Close ==
  /\ closed' = TRUE
  /\ UNCHANGED <<sealed, open>>

(* A new open day that was never sealed, or more rounds of the open day. *)
Refresh ==
  /\ \E f \in File :
       /\ sealed[f.day] = NoFile
       /\ open # NoFile => open.day = f.day /\ open.rounds \subseteq f.rounds
       /\ open' = f
  /\ UNCHANGED <<sealed, closed>>

(* The open day is sealed under its own name, unchanged. *)
Seal ==
  /\ open # NoFile
  /\ closed => sealed[open.day] = NoFile
  /\ sealed' = [sealed EXCEPT ![open.day] = open]
  /\ open' = NoFile
  /\ closed' \in BOOLEAN /\ (closed => closed')

Expire ==
  /\ \E old \in SUBSET Days :
       sealed' = [d \in Days |-> IF d \in old THEN NoFile ELSE sealed[d]]
  /\ UNCHANGED <<open, closed>>

Next == Import \/ Close \/ Refresh \/ Seal \/ Expire

Spec == Init /\ [][Next]_avars
=============================================================================
