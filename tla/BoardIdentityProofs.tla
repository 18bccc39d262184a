------------------------- MODULE BoardIdentityProofs -------------------------
(* Proofs about BoardIdentity for every serial, MAC, override and process    *)
(* id, every number of kills and every size of the root file system within   *)
(* RootfsAssumption.                                                         *)
EXTENDS BoardIdentity, FiniteSetTheorems, TLAPS

-----------------------------------------------------------------------------
(* MACs, records and the layout of the disk. *)

(* The MAC after a MAC is a MAC (write-boarddata.py, mac_plus_one). *)
LEMMA NextMac == ASSUME NEW m \in Macs PROVE mac_plus_one(m) \in Macs
  BY BoundAssumption DEF Macs, mac_plus_one

(* A record of an identity is one of the two contents (main). *)
LEMMA RecordType ==
  ASSUME NEW b \in Records, NEW id \in Identity PROVE Record(b, id) \in Content
<1>1. id.mac \in Macs /\ mac_plus_one(id.mac) \in Macs /\ id.serial \in Serials
  BY NextMac DEF Identity
<1> QED
  BY <1>1 DEF Record, build_rks_boarddata, build_ar531x_boarddata, Content

(* A generated identity is an identity (generate_identity). *)
LEMMA GeneratedType == Generated \subseteq Identity
<1>1. {2} \X (0..RestTop) \subseteq Macs
  BY BoundAssumption DEF Macs
<1> QED  BY <1>1 DEF Generated, Identity

(* p2 is the root file system rounded up to 16 MiB. *)
LEMMA Rounding ==
  ASSUME NEW r \in Nat
  PROVE  p2_sectors(r) \in Nat /\ r <= p2_sectors(r) /\ p2_sectors(r) < r + 32768
  BY SMT DEF p2_sectors, Align

(* Wherever the root file system leaves room, the disk is sound: p2 and p4   *)
(* hold whole copies and the records lie behind the one in p4.               *)
LEMMA RoomIsSound ==
  ASSUME NEW r \in RootfsSizes, p4_sectors(r) > 0 PROVE LayoutSound(r)
<1> DEFINE p == Partition(r)
<1>1. r \in Nat
  BY SMT, RootfsAssumption
<1>2. /\ p2_sectors(r) \in Nat
      /\ r <= p2_sectors(r) /\ p2_sectors(r) < r + 32768
  BY SMT, <1>1, Rounding
<1>3. r <= 1615353
  <2>1. p4_sectors(r) \in Int
    BY SMT, <1>2 DEF p4_sectors, p4_start, p3_start, p2_start, p1_start,
                     p1_sectors, DiskSectors
  <2> QED  BY SMT, <1>1, <2>1, RootfsAssumption DEF MaxRootfs
<1>4. /\ p[1] = <<2048, 327680>> /\ p[2] = <<329728, p2_sectors(r)>>
      /\ p[3] = <<329728 + p2_sectors(r), 327680>>
      /\ p[4] = <<657408 + p2_sectors(r), 3536896 - p2_sectors(r)>>
  BY SMT, <1>2 DEF Partition, p1_start, p1_sectors, p2_start, p3_start, p4_start,
                   p4_sectors, DiskSectors
<1>5. \A i \in 1..3 : p[i][1] + p[i][2] <= p[i + 1][1]
  <2>1. p[1][1] + p[1][2] <= p[2][1] /\ p[2][1] + p[2][2] <= p[3][1]
        /\ p[3][1] + p[3][2] <= p[4][1]
    BY SMT, <1>2, <1>4
  <2> QED  BY SMT, <2>1
<1>6. CopyWhole(r, 2)
  <2>1. r <= p[2][2] /\ p[3][1] >= p[2][1] + r /\ p[4][1] >= p[2][1] + r
    BY SMT, <1>1, <1>2, <1>4
  <2>2. \A j \in 2 + 1..4 : j = 3 \/ j = 4
    BY SMT
  <2> QED  BY SMT, <2>1, <2>2 DEF CopyWhole
<1>7. CopyWhole(r, 4)
  <2>1. r <= p[4][2]
    BY SMT, <1>1, <1>2, <1>3, <1>4
  <2>2. 4 + 1..4 = {}
    BY SMT
  <2> QED  BY SMT, <2>1, <2>2 DEF CopyWhole
<1>8. \A b \in Records : p[4][1] + r <= Sector[b] /\ Sector[b] < DiskSectors
  <2>1. Sector["ar531x"] = 3920881 /\ Sector["rks"] = 3920945
    BY SMT DEF Sector, BoardSector
  <2> QED  BY SMT, <1>1, <1>2, <1>3, <1>4, <2>1 DEF Records, DiskSectors
<1> QED  BY SMT, <1>5, <1>6, <1>7, <1>8 DEF LayoutSound

-----------------------------------------------------------------------------
(* The inductive invariant.  TypeInv is not inductive: the records are       *)
(* written from cur, which has an identity only from the third step on.      *)

(* The steps behind write-boarddata.py, and those before QEMU runs. *)
Written == {"overlay", "create", "qemu", "running"}
Stopped == {"overlay", "create", "qemu"}

(* What the launcher relies on, by the step it is at: an identity, records   *)
(* written so far that carry it, a disk that was begun.                      *)
LaunchInv ==
  /\ pc \in {"replace"} \cup Records \cup Written => cur \in Identity
  /\ pc \in {"rks"} \cup Written => rec["ar531x"] = Record("ar531x", cur)
  /\ pc \in Written => rec["rks"] = Record("rks", cur)
  /\ pc = "running" => nic = cur.mac
  /\ pc \notin {"down", "disk"} => disk > 0
  /\ disk > 0 => p4_sectors(rootfs) > 0

(* A generated identity is in use only after it is on the volume, and it is  *)
(* only generated when none is there.                                        *)
KeptInv ==
  /\ used # {} => ident # None /\ used = {ident.mac}
  /\ pc = "replace" => ident = None
  /\ pc \in Records \cup Stopped /\ override = Unset =>
       ident # None /\ cur = ident

Inv == TypeInv /\ LaunchInv /\ KeptInv

(* The controller starts in the invariant. *)
LEMMA InvInit == Init => Inv
<1> SUFFICES ASSUME Init PROVE Inv
  OBVIOUS
<1>1. TypeInv
  BY BoundAssumption DEF Init, TypeInv, Records, Whole
<1>2. LaunchInv
  BY SMT DEF Init, LaunchInv, Records, Written
<1>3. KeptInv
  BY SMT DEF Init, KeptInv, Records, Stopped
<1> QED  BY <1>1, <1>2, <1>3 DEF Inv

(* Every step of the launcher, the guest and the one who kills the container *)
(* leaves each variable in its type.                                         *)
LEMMA TypeStep == TypeInv /\ LaunchInv /\ [Next]_vars => TypeInv'
<1> USE BoundAssumption DEF TypeInv, Whole
<1> SUFFICES ASSUME TypeInv, LaunchInv, [Next]_vars PROVE TypeInv'
  OBVIOUS
<1>1. CASE Start  BY <1>1 DEF Start, Proceed, volume
<1>2. CASE DiskExists  BY <1>2 DEF DiskExists, Proceed, volume
<1>3. CASE NoRoom  BY <1>3 DEF NoRoom, Exit, volume
<1>4. CASE TruncateDisk  BY <1>4 DEF TruncateDisk, Proceed
<1>5. CASE WriteDisk  BY <1>5 DEF WriteDisk, Proceed
<1>6. CASE UseOverride
  <2>1. override \in Identity
    BY <1>6, IdentityAssumption DEF UseOverride, OverrideOk, Accepted, Identity
  <2> QED  BY <1>6, <2>1 DEF UseOverride, Proceed, volume, Records
<1>7. CASE OverrideRefused  BY <1>7 DEF OverrideRefused, Exit, volume
<1>8. CASE UseFile  BY <1>8 DEF UseFile, Proceed, volume, Records
<1>9. CASE FileRefused  BY <1>9 DEF FileRefused, Exit, volume
<1>10. CASE Generate  BY <1>10, GeneratedType DEF Generate, Proceed
<1>11. CASE TempExists  BY <1>11 DEF TempExists, Exit, volume
<1>12. CASE Replace  BY <1>12 DEF Replace, Proceed, Records
<1>13. ASSUME NEW b \in Records, WriteRecord(b) PROVE TypeInv'
  <2>1. cur \in Identity
    BY <1>13 DEF WriteRecord, Proceed, LaunchInv, Written
  <2>2. Record(b, cur) \in Content
    BY <2>1, RecordType
  <2>3. rec' \in [Records -> Content \cup {Junk}]
    BY <1>13, <2>2 DEF WriteRecord
  <2>4. pc' \in {"overlay"} \cup Records
    BY <1>13 DEF WriteRecord, Proceed, Records
  <2> QED  BY <1>13, <2>3, <2>4 DEF WriteRecord
<1>14. CASE StartQemu
  <2>1. cur.mac \in Macs
    BY <1>14 DEF StartQemu, Proceed, LaunchInv, Written, Identity
  <2>2. used' \subseteq Macs
    BY <1>14, <2>1 DEF StartQemu
  <2> QED  BY <1>14, <2>1, <2>2 DEF StartQemu, Proceed, volume
<1>15. ASSUME NEW b \in Records, GuestWrites(b) PROVE TypeInv'
  <2>1. Visible(b) \in Content \cup {Junk, Hole}
    BY DEF Visible
  <2>2. overlay' \in [Records -> Content \cup {Junk, Hole}]
    BY <1>15, <2>1 DEF GuestWrites
  <2> QED  BY <1>15, <2>2 DEF GuestWrites
<1>16. CASE Kill  BY <1>16 DEF Kill, volume
<1>17. CASE UNCHANGED vars  BY <1>17 DEF vars, volume
<1>18. CASE OverlayExists  BY <1>18 DEF OverlayExists, Proceed, volume
<1>19. CASE CreateOverlay  BY <1>19 DEF CreateOverlay, Proceed
<1>20. CASE FinishOverlay  BY <1>20 DEF FinishOverlay, Proceed
<1>21. CASE OverlayBroken  BY <1>21 DEF OverlayBroken, Exit, volume
<1> QED
  BY <1>1, <1>2, <1>3, <1>4, <1>5, <1>6, <1>7, <1>8, <1>9, <1>10, <1>11,
     <1>12, <1>13, <1>14, <1>15, <1>16, <1>17, <1>18, <1>19, <1>20, <1>21
  DEF Next, Launcher

(* Every step keeps what the launcher relies on. *)
LEMMA LaunchStep == TypeInv /\ LaunchInv /\ [Next]_vars => LaunchInv'
<1> USE DEF LaunchInv, Records, Written
<1> SUFFICES ASSUME TypeInv, LaunchInv, [Next]_vars PROVE LaunchInv'
  OBVIOUS
<1>1. CASE Start  BY <1>1 DEF Start, Proceed, volume
<1>2. CASE DiskExists  BY <1>2 DEF DiskExists, Proceed, volume
<1>3. CASE NoRoom  BY <1>3 DEF NoRoom, Exit, volume
<1>4. CASE TruncateDisk  BY <1>4 DEF TruncateDisk, Proceed
<1>5. CASE WriteDisk  BY <1>5 DEF WriteDisk, Proceed, TypeInv, Whole
<1>6. CASE UseOverride
  <2>1. override \in Identity
    BY <1>6, IdentityAssumption DEF UseOverride, OverrideOk, Accepted, Identity, TypeInv
  <2> QED  BY <1>6, <2>1 DEF UseOverride, Proceed, volume
<1>7. CASE OverrideRefused  BY <1>7 DEF OverrideRefused, Exit, volume
<1>8. CASE UseFile  BY <1>8 DEF UseFile, Proceed, volume, TypeInv
<1>9. CASE FileRefused  BY <1>9 DEF FileRefused, Exit, volume
<1>10. CASE Generate  BY <1>10, GeneratedType DEF Generate, Proceed
<1>11. CASE TempExists  BY <1>11 DEF TempExists, Exit, volume
<1>12. CASE Replace  BY <1>12 DEF Replace, Proceed
<1>13. CASE WriteRecord("ar531x")
  BY <1>13 DEF WriteRecord, Proceed, TypeInv
<1>14. CASE WriteRecord("rks")
  BY <1>14 DEF WriteRecord, Proceed, TypeInv
<1>15. CASE StartQemu  BY <1>15 DEF StartQemu, Proceed, volume
<1>16. ASSUME NEW b \in Records, GuestWrites(b) PROVE LaunchInv'
  BY <1>16 DEF GuestWrites
<1>17. CASE Kill  BY <1>17 DEF Kill, volume
<1>18. CASE UNCHANGED vars  BY <1>18 DEF vars, volume
<1>19. CASE OverlayExists  BY <1>19 DEF OverlayExists, Proceed, volume
<1>20. CASE CreateOverlay  BY <1>20 DEF CreateOverlay, Proceed
<1>21. CASE FinishOverlay  BY <1>21 DEF FinishOverlay, Proceed
<1>22. CASE OverlayBroken  BY <1>22 DEF OverlayBroken, Exit, volume
<1> QED
  BY <1>1, <1>2, <1>3, <1>4, <1>5, <1>6, <1>7, <1>8, <1>9, <1>10, <1>11,
     <1>12, <1>13, <1>14, <1>15, <1>16, <1>17, <1>18, <1>19, <1>20, <1>21,
     <1>22 DEF Next, Launcher

(* No step puts a second identity into use. *)
LEMMA KeptStep == Inv /\ [Next]_vars => KeptInv'
<1> USE DEF KeptInv, Records, Stopped
<1> SUFFICES ASSUME TypeInv, LaunchInv, KeptInv, [Next]_vars PROVE KeptInv'
  BY DEF Inv
<1>1. CASE Start  BY <1>1 DEF Start, Proceed, volume
<1>2. CASE DiskExists  BY <1>2 DEF DiskExists, Proceed, volume
<1>3. CASE NoRoom  BY <1>3 DEF NoRoom, Exit, volume
<1>4. CASE TruncateDisk  BY <1>4 DEF TruncateDisk, Proceed
<1>5. CASE WriteDisk  BY <1>5 DEF WriteDisk, Proceed
<1>6. CASE UseOverride  BY <1>6 DEF UseOverride, Proceed, volume
<1>7. CASE OverrideRefused  BY <1>7 DEF OverrideRefused, Exit, volume
<1>8. CASE UseFile  BY <1>8 DEF UseFile, Proceed, volume
<1>9. CASE FileRefused  BY <1>9 DEF FileRefused, Exit, volume
<1>10. CASE Generate  BY <1>10 DEF Generate, Proceed
<1>11. CASE TempExists  BY <1>11 DEF TempExists, Exit, volume
<1>12. CASE Replace
  <2>1. used = {}
    BY <1>12 DEF Replace, Proceed
  <2>2. cur # None
    BY <1>12, IdentityAssumption DEF Replace, Proceed, LaunchInv
  <2> QED  BY <1>12, <2>1, <2>2 DEF Replace, Proceed
<1>13. ASSUME NEW b \in Records, WriteRecord(b) PROVE KeptInv'
  BY <1>13 DEF WriteRecord, Proceed
<1>14. CASE StartQemu
  <2>1. CASE override = Unset
    <3>1. ident # None /\ cur = ident /\ used \subseteq {ident.mac}
      BY <1>14, <2>1 DEF StartQemu, Proceed
    <3>2. used' = {ident.mac}
      BY <1>14, <2>1, <3>1 DEF StartQemu
    <3> QED  BY <1>14, <3>1, <3>2 DEF StartQemu, Proceed, volume
  <2>2. CASE override # Unset
    <3>1. used' = used
      BY <1>14, <2>2 DEF StartQemu
    <3> QED  BY <1>14, <3>1 DEF StartQemu, Proceed, volume
  <2> QED  BY <2>1, <2>2
<1>15. ASSUME NEW b \in Records, GuestWrites(b) PROVE KeptInv'
  BY <1>15 DEF GuestWrites
<1>16. CASE Kill  BY <1>16 DEF Kill, volume
<1>17. CASE UNCHANGED vars  BY <1>17 DEF vars, volume
<1>18. CASE OverlayExists  BY <1>18 DEF OverlayExists, Proceed, volume
<1>19. CASE CreateOverlay  BY <1>19 DEF CreateOverlay, Proceed
<1>20. CASE FinishOverlay  BY <1>20 DEF FinishOverlay, Proceed
<1>21. CASE OverlayBroken  BY <1>21 DEF OverlayBroken, Exit, volume
<1> QED
  BY <1>1, <1>2, <1>3, <1>4, <1>5, <1>6, <1>7, <1>8, <1>9, <1>10, <1>11,
     <1>12, <1>13, <1>14, <1>15, <1>16, <1>17, <1>18, <1>19, <1>20, <1>21
  DEF Next, Launcher

-----------------------------------------------------------------------------
(* The invariant holds in every state of every behaviour. *)
THEOREM InvHolds == Spec => []Inv
<1>1. Inv /\ [Next]_vars => Inv'
  BY TypeStep, LaunchStep, KeptStep DEF Inv
<1> QED  BY InvInit, <1>1, PTL DEF Spec

(* Every variable keeps its type (zd_identity.py, write-boarddata.py and the *)
(* launcher around them).                                                    *)
THEOREM TypeCorrect == Spec => []TypeInv
<1>1. Inv => TypeInv
  BY DEF Inv
<1> QED  BY InvHolds, <1>1, PTL

(* While the guest runs, both records carry the MAC of its NIC and the one   *)
(* after it, on a disk whose records nothing else reaches                    *)
(* (write-boarddata.py, run-zd1200-web.sh).                                  *)
THEOREM MacsAgree == Spec => []SameMac
<1>1. ASSUME Inv PROVE SameMac
  <2> SUFFICES ASSUME pc = "running"
               PROVE  /\ nic = cur.mac
                      /\ \A b \in Records :
                           overlay[b] = Hole => Visible(b) = Record(b, cur)
                      /\ LayoutSound(rootfs)
    BY DEF SameMac
  <2>1. nic = cur.mac
    BY <1>1 DEF Inv, LaunchInv
  <2>2. \A b \in Records : rec[b] = Record(b, cur)
    BY <1>1 DEF Inv, LaunchInv, Written, Records
  <2>3. \A b \in Records : overlay[b] = Hole => Visible(b) = Record(b, cur)
    BY <2>2 DEF Visible
  <2>4. rootfs \in RootfsSizes /\ p4_sectors(rootfs) > 0
    BY <1>1 DEF Inv, TypeInv, LaunchInv
  <2>5. LayoutSound(rootfs)
    BY <2>4, RoomIsSound
  <2> QED  BY <2>1, <2>3, <2>5
<1> QED  BY InvHolds, <1>1, PTL

(* A controller whose identity is generated never runs with a second one,    *)
(* and what it runs with is on the volume (zd_identity.py, resolve_identity  *)
(* and write_identity).                                                      *)
THEOREM IdentityIsKept == Spec => []IdentityKept
<1>1. ASSUME Inv PROVE IdentityKept
  <2>1. used # {} => ident # None /\ used = {ident.mac}
    BY <1>1 DEF Inv, KeptInv
  <2>2. Cardinality({}) = 0 /\ Cardinality({ident.mac}) = 1
    BY FS_EmptySet, FS_Singleton
  <2>3. Cardinality(used) <= 1
    <3>1. CASE used = {}  BY <3>1, <2>2
    <3>2. CASE used = {ident.mac}  BY <3>2, <2>2
    <3> QED  BY <3>1, <3>2, <2>1
  <2> QED  BY <2>1, <2>3 DEF IdentityKept
<1> QED  BY InvHolds, <1>1, PTL
=============================================================================
