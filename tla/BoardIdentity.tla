---------------------------- MODULE BoardIdentity ----------------------------
(* How a container gives its controller an identity: make-synthetic-cf.py    *)
(* builds the disk once, zd_identity.py chooses serial and MAC,              *)
(* write-boarddata.py writes the two board records into the disk, qemu-img   *)
(* lays a copy-on-write overlay over it and QEMU starts with the same MAC    *)
(* (run-zd1200-web.sh, from the disk to QEMU).  The state volume outlives    *)
(* the container, which may be killed at any step and starts again.          *)
EXTENDS Integers, FiniteSets

CONSTANTS RestTop,     \* a MAC is its first octet and 0..RestTop
          Serials,     \* serials that validate_serial accepts
          Overrides,   \* ZD_SERIAL and ZD_MAC1 as the operator may set them
          RootfsSizes, \* sectors of the root file system of a release
          Pids,        \* process ids zd_identity.py may run under
          MaxKills,    \* how often the container is killed
          Unset, Hole, Junk, None

ASSUME BoundAssumption == RestTop \in Nat /\ MaxKills \in Nat

VARIABLES ident, temps,    \* board-identity.env and its temporary files
          disk, rec,       \* the disk: how far it is written; its records
          cow, overlay,    \* the overlay: how far it is written; what the
                           \*   guest wrote over the records' clusters
          rootfs,          \* sectors of the root file system
          override, pid,   \* of the running container
          pc, cur, nic,    \* the launcher; identity in use; MAC of the NIC
          used, kills      \* generated MACs it ran with; kills so far

volume == <<ident, temps, disk, rec, cow, overlay>>
vars == <<volume, rootfs, override, pid, pc, cur, nic, used, kills>>

-----------------------------------------------------------------------------
(* MAC addresses.  The first octet keeps the bits that matter: bit 0 is      *)
(* multicast, bit 1 locally administered.                                    *)

Macs == (0..255) \X (0..RestTop)
Identity == [serial : Serials, mac : Macs]

(* A serial or MAC that is refused is like one that is not set. *)
ASSUME IdentityAssumption ==
  /\ None \notin Identity
  /\ Overrides \subseteq
       {Unset} \cup [serial : Serials \cup {Unset}, mac : Macs \cup {Unset}]

LocalUnicast(m) == m[1] % 2 = 0 /\ (m[1] \div 2) % 2 = 1

NoCarry(m) == <<m[1], m[2] + 1>>   \* mutant: the last octets only

mac_plus_one(m) ==
  IF m[2] < RestTop THEN <<m[1], m[2] + 1>> ELSE <<(m[1] + 1) % 256, 0>>

parse_mac(m) == LocalUnicast(m) /\ LocalUnicast(mac_plus_one(m))

Accepted(id) == id.serial \in Serials /\ parse_mac(id.mac)

(* generate_identity: 02 and random octets, not passed through parse_mac. *)
Generated == [serial : Serials, mac : {2} \X (0..RestTop)]

-----------------------------------------------------------------------------
(* The disk of make-synthetic-cf.py, in sectors. *)

DiskSectors == 4194304                       \* 2 GiB
Align == 32768                               \* 16 MiB
BoardSector == 3920881                       \* 0x3BD3F1, region2_start
p1_start == 2048
p1_sectors == 327680
p2_sectors(r) == ((r + Align - 1) \div Align) * Align
p2_start == p1_start + p1_sectors
p3_start(r) == p2_start + p2_sectors(r)
p4_start(r) == p3_start(r) + 327680
p4_sectors(r) == DiskSectors - p4_start(r)

(* Up to 788 MiB the copy in p4 ends before the records; a root file system *)
(* that leaves no room at all is refused.  None is between the two.          *)
MaxRootfs == 1615353
ASSUME RootfsAssumption ==
  \A r \in RootfsSizes :
    r \in Nat \ {0} /\ (r <= MaxRootfs \/ p4_sectors(r) <= 0)

Partition(r) ==
  << <<p1_start, p1_sectors>>, <<p2_start, p2_sectors(r)>>,
     <<p3_start(r), 327680>>, <<p4_start(r), p4_sectors(r)>> >>

(* Sectors of the two records, one for each reader in the guest. *)
Records == {"ar531x", "rks"}
Sector == [ar531x |-> BoardSector, rks |-> BoardSector + 64]

(* The writes that make the disk: truncate, MBR, four copies of the root     *)
(* file system, the signatures.                                              *)
Whole == 7

(* Copy i of the root file system is still whole at the end: it fits its     *)
(* partition and no copy written after it reaches into it.                   *)
CopyWhole(r, i) ==
  LET p == Partition(r) IN
  /\ r <= p[i][2]
  /\ \A j \in i + 1..4 : p[j][1] >= p[i][1] + r \/ p[j][1] + r <= p[i][1]

(* A disk that boots: the partitions follow each other, the copies in p2     *)
(* (root) and p4 (data) are whole, and the records lie in p4 behind its      *)
(* copy.  The copies in p1 and p3 run into p2 and p4 when the root file      *)
(* system is larger than they are; only the order of the writes saves these. *)
LayoutSound(r) ==
  LET p == Partition(r) IN
  /\ \A i \in 1..3 : p[i][1] + p[i][2] <= p[i + 1][1]
  /\ CopyWhole(r, 2) /\ CopyWhole(r, 4)
  /\ \A b \in Records : p[4][1] + r <= Sector[b] /\ Sector[b] < DiskSectors

-----------------------------------------------------------------------------
(* The records of write-boarddata.py: offset and length of every field that  *)
(* is written, as the readers in the guest expect them.                      *)
RksLayout ==
  [magic |-> <<0, 4>>, cksum |-> <<4, 2>>, rev |-> <<6, 2>>,
   serialNumber |-> <<8, 15>>, customerID |-> <<24, 31>>, model |-> <<56, 15>>,
   enetxMac0 |-> <<88, 6>>, enetxMac1 |-> <<94, 6>>, boardType |-> <<112, 1>>,
   v54Config |-> <<120, 4>>, MACcnt |-> <<124, 2>>, MACbase |-> <<126, 6>>,
   bootrec |-> <<144, 4>>, eth_port |-> <<152, 1>>, serialNumber32 |-> <<156, 31>>]

Ar531xLayout ==
  [magic |-> <<0, 4>>, rev |-> <<6, 2>>, boardName |-> <<8, 63>>,
   wlan0Mac |-> <<96, 6>>, enet0Mac |-> <<102, 6>>, enet1Mac |-> <<108, 6>>,
   wlan1Mac |-> <<118, 6>>]

Disjoint(layout, size) ==
  \A f \in DOMAIN layout :
    /\ layout[f][1] + layout[f][2] <= size
    /\ \A g \in DOMAIN layout \ {f} :
         \/ layout[f][1] + layout[f][2] <= layout[g][1]
         \/ layout[g][1] + layout[g][2] <= layout[f][1]

ASSUME LayoutAssumption == Disjoint(RksLayout, 208) /\ Disjoint(Ar531xLayout, 128)

build_ar531x_boarddata(id) ==
  [mac1 |-> id.mac, mac2 |-> mac_plus_one(id.mac)]

(* The checksum field is the sum of the others. *)
build_rks_boarddata(id) ==
  [mac1 |-> id.mac, mac2 |-> mac_plus_one(id.mac), serial |-> id.serial]

Record(b, id) ==
  IF b = "rks" THEN build_rks_boarddata(id) ELSE build_ar531x_boarddata(id)

(* What the guest reads: its overlay hides the disk where it has written. *)
Visible(b) == IF overlay[b] = Hole THEN rec[b] ELSE overlay[b]

-----------------------------------------------------------------------------
Init ==
  /\ ident = None /\ temps = {}
  /\ disk = 0 /\ rec = [b \in Records |-> Junk]
  /\ cow = "none" /\ overlay = [b \in Records |-> Hole]
  /\ rootfs \in RootfsSizes
  /\ override = Unset /\ pid \in Pids
  /\ pc = "down" /\ cur = None /\ nic = None
  /\ used = {} /\ kills = 0

(* The launcher ends: set -e, or the container stops.  It will start again. *)
Exit ==
  /\ pc' = "down" /\ cur' = None /\ nic' = None
  /\ UNCHANGED <<volume, rootfs, override, pid, used, kills>>

Proceed(from, to) == pc = from /\ pc' = to

(* The container starts, with the environment the operator last gave it. *)
Start ==
  /\ Proceed("down", "disk")
  /\ override' \in Overrides
  /\ pid' \in Pids
  /\ UNCHANGED <<volume, rootfs, cur, nic, used, kills>>

(* A disk that exists is never looked into. *)
DiskExists ==
  /\ disk > 0 /\ Proceed("disk", "identity")
  /\ UNCHANGED <<volume, rootfs, override, pid, cur, nic, used, kills>>

NoRoom == pc = "disk" /\ disk = 0 /\ p4_sectors(rootfs) <= 0 /\ Exit

TruncateDisk ==
  /\ disk = 0 /\ p4_sectors(rootfs) > 0
  /\ Proceed("disk", "fill")
  /\ disk' = 1
  /\ UNCHANGED <<ident, temps, rec, cow, overlay, rootfs, override, pid, cur,
                 nic, used, kills>>

(* The MBR, the copies of the root file system and the signatures. *)
WriteDisk ==
  /\ disk < Whole
  /\ Proceed("fill", IF disk + 1 = Whole THEN "identity" ELSE "fill")
  /\ disk' = disk + 1
  /\ UNCHANGED <<ident, temps, rec, cow, overlay, rootfs, override, pid, cur,
                 nic, used, kills>>

OverrideOk ==
  override.serial # Unset /\ override.mac # Unset /\ Accepted(override)

UseOverride ==
  /\ override # Unset /\ OverrideOk
  /\ Proceed("identity", "ar531x")
  /\ cur' = override
  /\ UNCHANGED <<volume, rootfs, override, pid, nic, used, kills>>

(* Only one of the two is set, or parse_mac or validate_serial refuses. *)
OverrideRefused ==
  pc = "identity" /\ override # Unset /\ ~OverrideOk /\ Exit


UseFile ==
  /\ override = Unset /\ ident # None /\ Accepted(ident)
  /\ Proceed("identity", "ar531x")
  /\ cur' = ident
  /\ UNCHANGED <<volume, rootfs, override, pid, nic, used, kills>>

FileRefused ==
  /\ pc = "identity" /\ override = Unset
  /\ ident # None /\ ~Accepted(ident) /\ Exit

(* write_identity opens its temporary file with O_EXCL. *)
Generate ==
  /\ override = Unset /\ ident = None /\ pid \notin temps
  /\ Proceed("identity", "replace")
  /\ cur' \in Generated
  /\ temps' = temps \cup {pid}
  /\ UNCHANGED <<ident, disk, rec, cow, overlay, rootfs, override, pid, nic,
                 used, kills>>

TempExists ==
  /\ pc = "identity" /\ override = Unset /\ ident = None
  /\ pid \in temps /\ Exit

PrintOnly ==   \* mutant: prints the identity without keeping it
  /\ Proceed("replace", "ar531x")
  /\ temps' = temps \ {pid}
  /\ UNCHANGED <<ident, disk, rec, cow, overlay, rootfs, override, pid, cur,
                 nic, used, kills>>

(* The synced temporary file is renamed; the identity is printed after it. *)
Replace ==
  /\ Proceed("replace", "ar531x")
  /\ ident' = cur
  /\ temps' = temps \ {pid}
  /\ UNCHANGED <<disk, rec, cow, overlay, rootfs, override, pid, cur, nic,
                 used, kills>>

WriteOnce(b) ==   \* mutant: only a disk without an overlay gets its records
  /\ Proceed(b, IF b = "ar531x" THEN "rks" ELSE "overlay")
  /\ rec' = IF cow = "none" THEN [rec EXCEPT ![b] = Record(b, cur)]
            ELSE rec
  /\ UNCHANGED <<ident, temps, disk, cow, overlay, rootfs, override, pid, cur,
                 nic, used, kills>>

(* write-boarddata.py writes the records of the disk, one after the other. *)
WriteRecord(b) ==
  /\ Proceed(b, IF b = "ar531x" THEN "rks" ELSE "overlay")
  /\ rec' = [rec EXCEPT ![b] = Record(b, cur)]
  /\ UNCHANGED <<ident, temps, disk, cow, overlay, rootfs, override, pid, cur,
                 nic, used, kills>>

(* An overlay that exists is never looked into either. *)
OverlayExists ==
  /\ cow # "none" /\ Proceed("overlay", "qemu")
  /\ UNCHANGED <<volume, rootfs, override, pid, cur, nic, used, kills>>

(* qemu-img create makes the overlay in its place: it opens the file, then   *)
(* writes its header, its tables and the name of the disk behind it.         *)
CreateOverlay ==
  /\ cow = "none" /\ Proceed("overlay", "create")
  /\ cow' = "begun"
  /\ UNCHANGED <<ident, temps, disk, rec, overlay, rootfs, override, pid, cur,
                 nic, used, kills>>

FinishOverlay ==
  /\ Proceed("create", "qemu")
  /\ cow' = "whole"
  /\ UNCHANGED <<ident, temps, disk, rec, overlay, rootfs, override, pid, cur,
                 nic, used, kills>>

StartQemu ==
  /\ cow = "whole" /\ Proceed("qemu", "running")
  /\ nic' = cur.mac
  /\ used' = used \cup {m \in {cur.mac} : override = Unset}
  /\ UNCHANGED <<volume, rootfs, override, pid, cur, kills>>

(* QEMU refuses an overlay without a header, and finds no disk behind one    *)
(* that does not name it yet: no controller runs until the container ends.   *)
OverlayBroken == pc = "qemu" /\ cow = "begun" /\ Exit

(* The file system of p4 spans the partition and with it the sectors of the  *)
(* records, 64 sectors and a cluster apart: a write of the guest copies the  *)
(* cluster of one record into the overlay, or goes over the record itself.   *)
GuestWrites(b) ==
  /\ pc = "running"
  /\ overlay' \in {[overlay EXCEPT ![b] = v] : v \in {Visible(b), Junk}}
  /\ UNCHANGED <<ident, temps, disk, rec, cow, rootfs, override, pid, pc, cur,
                 nic, used, kills>>

(* The container is stopped or killed at any step, its temporary files stay. *)
Kill ==
  /\ pc # "down" /\ kills < MaxKills
  /\ kills' = kills + 1
  /\ pc' = "down" /\ cur' = None /\ nic' = None
  /\ UNCHANGED <<volume, rootfs, override, pid, used>>

Launcher ==
  \/ Start \/ DiskExists \/ NoRoom \/ TruncateDisk \/ WriteDisk
  \/ UseOverride \/ OverrideRefused \/ UseFile \/ FileRefused
  \/ Generate \/ TempExists \/ Replace
  \/ (\E b \in Records : WriteRecord(b))
  \/ OverlayExists \/ CreateOverlay \/ FinishOverlay
  \/ StartQemu \/ OverlayBroken

Next == Launcher \/ (\E b \in Records : GuestWrites(b)) \/ Kill

Spec == Init /\ [][Next]_vars

(* The launcher runs on its own and Docker restarts the container. *)
FairSpec == Spec /\ WF_vars(Launcher)

-----------------------------------------------------------------------------
Content == [mac1 : Macs, mac2 : Macs] \cup [mac1 : Macs, mac2 : Macs, serial : Serials]

(* Every variable has its type. *)
TypeInv ==
  /\ ident \in Identity \cup {None} /\ temps \subseteq Pids
  /\ disk \in 0..Whole /\ rootfs \in RootfsSizes
  /\ rec \in [Records -> Content \cup {Junk}]
  /\ cow \in {"none", "begun", "whole"}
  /\ overlay \in [Records -> Content \cup {Junk, Hole}]
  /\ override \in Overrides \cup {Unset} /\ pid \in Pids
  /\ pc \in {"down", "disk", "fill", "identity", "replace", "overlay",
             "create", "qemu", "running"} \cup Records
  /\ cur \in Identity \cup {None} /\ nic \in Macs \cup {None}
  /\ used \subseteq Macs /\ kills \in 0..MaxKills

(* While the guest runs, both records carry the MAC of its NIC and the one   *)
(* after it, whatever was killed half way and however often the identity     *)
(* was overridden: unless the guest itself has written over that cluster     *)
(* (zd_identity.py: the records and the NIC "must use the same base MAC").   *)
SameMac ==
  pc = "running" =>
    /\ nic = cur.mac
    /\ \A b \in Records : overlay[b] = Hole => Visible(b) = Record(b, cur)
    /\ LayoutSound(rootfs)

(* A controller whose identity is generated never runs with a second one,    *)
(* and what it runs with is on the volume ("a container recreation neither   *)
(* changes the controller identity nor collides").                           *)
IdentityKept ==
  /\ Cardinality(used) <= 1
  /\ used # {} => ident # None /\ used = {ident.mac}

(* What the launcher does not recover from between the disk and QEMU: a disk *)
(* or an overlay it was killed in the middle of, a temporary file of a       *)
(* killed run under the same process id, an identity whose MAC2 parse_mac    *)
(* refuses, an override it refuses and a root file system that leaves no     *)
(* room on the disk.                                                         *)
Stuck ==
  \/ disk \in 1..Whole - 1
  \/ cow = "begun"
  \/ ident = None /\ temps # {}
  \/ ident # None /\ ~Accepted(ident)
  \/ override # Unset /\ ~OverrideOk
  \/ p4_sectors(rootfs) <= 0

=============================================================================
