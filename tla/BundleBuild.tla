----------------------------- MODULE BundleBuild -----------------------------
(* build_zd1200_bundle.py: from a vendor download to a bundle for Docker.    *)
(* The manifest (release_manifest.py) names the exact archives it knows, the *)
(* download selects one of them, is decoded and verified, extracted, patched *)
(* and packed into one ZIP.  The operator may run it again, over a bundle    *)
(* that exists, and the download may be replaced while it is being read.     *)
EXTENDS VendorFormats

CONSTANTS Gzip,         \* the byte a gzip file begins with
          Worlds,       \* manifest and vendor archives of an installation, and
                        \* how often the builder is run there
          Inputs,       \* files the operator may point to
          Options,      \* command lines
          Validated,    \* SCORPION_VALIDATED_MODELS
          Experimental, \* SCORPION_EXPERIMENTAL_MODELS
          Artifacts,    \* artifacts of the patch catalog
          MaxFaults,    \* failures, kills and replaced downloads
          SoundWorlds,  \* the ones as a vendor and this repository make them
          SoundImages,  \* local images that are valid
          Partial, None

ASSUME FaultAssumption == MaxFaults \in Nat

ASSUME InputAssumption == Inputs \subseteq Seq(Byte) /\ None \notin Seq(Byte)

(* The models whose links lead to an image of the R600. *)
Sharing(v) == {m \in DOMAIN v.image : \E t \in v.image[m] : t \in v.image["r600"]}

(* An archive is a tree: its links lead to files.  A model that shares one   *)
(* of the R600's images has no other, and is in one of the builder's lists.  *)
IsArchive(v) ==
  /\ v.file \in [DOMAIN v.file -> Image] /\ DOMAIN v.file \subseteq Nat
  /\ v.sizes \in [DOMAIN v.sizes -> Seq(Nat)]
  /\ \A m \in DOMAIN v.image : v.image[m] \subseteq DOMAIN v.file
  /\ \A m \in DOMAIN v.control : v.control[m] \subseteq DOMAIN v.sizes
  /\ "r600" \in DOMAIN v.image =>
       \A m \in Sharing(v) : /\ v.image[m] \subseteq v.image["r600"]
                             /\ m \in Validated \cup Experimental

ASSUME WorldAssumption ==
  \A w \in Worlds :
    /\ w.runs \in Nat
    /\ w.manifest \in Seq(ToSet(w.manifest)) /\ Refused \notin ToSet(w.manifest)
    /\ \A a \in DOMAIN w.vendor : IsArchive(w.vendor[a])

(* The manifest of the repository: each release once, with its own digests,  *)
(* and what the vendor has made of it.                                       *)
SoundManifest(manifest) ==
  /\ manifest # <<>>
  /\ \A i, j \in 1..Len(manifest) :
       LET e == manifest[i]
           f == manifest[j]
       IN  i = j \/ (e.id # f.id /\ {e.enc, e.dec} \cap {f.enc, f.dec} = {})
  /\ \A e \in ToSet(manifest) :
       /\ e.wellformed /\ e.artifacts \subseteq Artifacts
       /\ e.id # None
       /\ e.dec \in Seq(Byte) /\ e.enc = Encrypt(e.dec)
       /\ e.dec # <<>> /\ Head(e.dec) = Gzip

(* An archive as the vendor makes it for release e: the R600 has images with *)
(* one module that the rules know, and control files with two size fields.   *)
SoundArchive(v, e) ==
  /\ SoundMembers(v.members, e.required) /\ v.metadata = e.metadata
  /\ v.kernel = "known"
  /\ "r600" \in DOMAIN v.image /\ v.image["r600"] # {}
  /\ \A t \in v.image["r600"] :
       LET f == v.file[t]
           rootfs == SubSeq(f.body, f.head.next - HeaderSize + 1, f.head.len)
       IN  /\ VendorMade(f)
           /\ \E i \in Modules(rootfs) : Modules(rootfs) = {i} /\ rootfs[i] # 3
  /\ "r600" \in DOMAIN v.control /\ v.control["r600"] # {}
  /\ \A c \in DOMAIN v.sizes : Len(v.sizes[c]) = 2

ASSUME SoundAssumption ==
  /\ SoundWorlds \subseteq Worlds
  /\ \A w \in SoundWorlds :
       /\ SoundManifest(w.manifest)
       /\ \A e \in ToSet(w.manifest) :
            e.dec \in DOMAIN w.vendor /\ SoundArchive(w.vendor[e.dec], e)
  /\ \A f \in SoundImages : f \in Image /\ VendorMade(f) /\ f.head.type = 0

VARIABLES manifest, vendor, \* what is installed; what the archives hold
          input, opt,       \* the download and the command line
          pc, release,
          decrypted, gzip,  \* the decoded file, and whether none was needed
          tree,             \* the staging directory
          todo,             \* images still to patch
          report, tmp, out, \* build report, temporary ZIP, output ZIP
          runs, faults      \* runs still to come; faults so far

world == <<manifest, vendor>>
request == <<input, opt>>
work == <<release, decrypted, gzip, tree, todo, report>>
zips == <<tmp, out>>
vars == <<world, request, pc, work, zips, runs, faults>>

-----------------------------------------------------------------------------
(* release_manifest.py *)

Entries == ToSet(manifest)

(* Fields, versions, digests and feature values are those the schema allows. *)
load_release_manifest ==
  /\ manifest # <<>>
  /\ \A e \in Entries : e.wellformed /\ e.artifacts \subseteq Artifacts
  /\ \A i, j \in 1..Len(manifest) : manifest[i].id = manifest[j].id => i = j

release_by_id(id) ==
  IF \E e \in Entries : e.id = id
  THEN CHOOSE e \in Entries : e.id = id ELSE Refused

release_by_input_sha256(digest) ==
  LET matches == {e \in Entries : digest \in {e.enc, e.dec}} IN
  IF Cardinality(matches) = 1 THEN CHOOSE e \in matches : TRUE ELSE Refused

Selected ==
  IF opt.release # None THEN release_by_id(opt.release)
  ELSE release_by_input_sha256(input)

-----------------------------------------------------------------------------
(* verify_release_archive.py *)

verify_encrypted_input == release.enc # None /\ input = release.enc

Archive == IF gzip THEN input ELSE decrypted

verify_decrypted_archive ==
  /\ release.dec # None /\ Archive = release.dec
  /\ Archive \in DOMAIN vendor
  /\ SoundMembers(vendor[Archive].members, release.required)
  /\ vendor[Archive].metadata = release.metadata

-----------------------------------------------------------------------------
(* The AP images in the staging directory.  image[model] is the set of files *)
(* the links rcks_fw.bl7 and rcks_fw.bl7.bkup of a model resolve to,         *)
(* control[model] that of its *_cntrl.rcks.                                  *)

Layout == vendor[tree.archive]
Targets == IF "r600" \in DOMAIN Layout.image THEN Layout.image["r600"] ELSE {}

Aliases ==
  {m \in DOMAIN Layout.image : m = "r600" \/ Layout.image[m] \cap Targets # {}}

(* Files are taken in the order of their paths. *)
First(files) == CHOOSE t \in files : \A u \in files : t <= u

Controls == UNION {Layout.control[m] : m \in Aliases \cap DOMAIN Layout.control}

UpdateOne(size) ==   \* mutant: stops after the first control file
  [tree EXCEPT !.sizes = [c \in DOMAIN @ |->
     IF c \in Controls /\ \A d \in Controls : c <= d
     THEN [i \in 1..Len(@[c]) |-> size] ELSE @[c]]]

(* The size goes to both fields of every control file of these models. *)
update_scorpion_control_files(size) ==
  [tree EXCEPT !.sizes = [c \in DOMAIN @ |->
     IF c \in Controls THEN [i \in 1..Len(@[c]) |-> size] ELSE @[c]]]

ImageSize == FileSize(tree.file[First(Targets)])

Tools == opt.unsquashfs /\ opt.mksquashfs

PatchScorpion == IF opt.auto THEN release.repair ELSE opt.bl7 # None \/ Tools

-----------------------------------------------------------------------------
(* What each step of the program asks before it goes on; it raises an error  *)
(* otherwise.                                                                *)
Passes ==
  CASE pc = "load"     -> load_release_manifest
    [] pc = "select"   -> Selected # Refused
    [] pc = "options"  -> /\ opt.bl7 # None => ~opt.unsquashfs /\ ~opt.mksquashfs
                          /\ opt.unsquashfs = opt.mksquashfs
    [] pc = "input"    -> verify_encrypted_input
    [] pc = "decrypt"  -> decrypt_file(input) # Refused
    [] pc = "verify"   -> verify_decrypted_archive
    [] pc = "extract"  -> Archive \in DOMAIN vendor
    [] pc = "kernel"   -> Layout.kernel = "known"
    [] pc = "mesh"     -> /\ opt.auto => opt.bl7 = None
                          /\ opt.auto /\ release.repair => Tools
                          /\ PatchScorpion => Targets # {}
    [] pc = "override" -> parse_bl7(opt.bl7) # Refused
    [] pc = "patch"    -> patch_image(tree.file[First(todo)]) # {}
    [] pc = "controls" -> /\ Controls # {}
                          /\ \A c \in Controls : Len(tree.sizes[c]) = 2
    [] OTHER -> TRUE

Goto(from, to) == pc = from /\ Passes /\ pc' = to

(* TemporaryDirectory and the handler around the ZIP clean up. *)
Leave(how) ==
  /\ pc' = how
  /\ release' = None /\ decrypted' = None /\ gzip' = FALSE
  /\ tree' = None /\ todo' = {} /\ report' = None

Idle == {"idle", "refused", "failed", "killed", "done"}

Init ==
  /\ \E w \in Worlds :
       manifest = w.manifest /\ vendor = w.vendor /\ runs = w.runs
  /\ input = None /\ opt = None
  /\ pc = "idle"
  /\ release = None /\ decrypted = None /\ gzip = FALSE
  /\ tree = None /\ todo = {} /\ report = None
  /\ tmp = None /\ out = None
  /\ faults = 0

Start ==
  /\ pc \in Idle /\ runs > 0
  /\ input' \in Inputs /\ opt' \in Options
  /\ pc' = "load" /\ runs' = runs - 1
  /\ UNCHANGED <<world, work, zips, faults>>

LoadManifest ==
  /\ Goto("load", "select")
  /\ UNCHANGED <<world, request, work, zips, runs, faults>>

SelectRelease ==
  /\ Goto("select", "options")
  /\ release' = Selected
  /\ UNCHANGED <<world, request, decrypted, gzip, tree, todo, report, zips,
                 runs, faults>>

(* A gzip file is taken as the decoded archive. *)
CheckOptions ==
  /\ Goto("options", IF Head(input) = Gzip THEN "verify" ELSE "input")
  /\ gzip' = (Head(input) = Gzip)
  /\ UNCHANGED <<world, request, release, decrypted, tree, todo, report, zips,
                 runs, faults>>

VerifyInput ==
  /\ Goto("input", "decrypt")
  /\ UNCHANGED <<world, request, work, zips, runs, faults>>

Decrypt ==
  /\ Goto("decrypt", "verify")
  /\ decrypted' = decrypt_file(input)
  /\ UNCHANGED <<world, request, release, gzip, tree, todo, report, zips, runs,
                 faults>>

VerifyArchive ==
  /\ Goto("verify", "extract")
  /\ UNCHANGED <<world, request, work, zips, runs, faults>>

(* The archive is opened once more. *)
Extract ==
  /\ Goto("extract", "kernel")
  /\ tree' = [archive |-> Archive, file |-> vendor[Archive].file,
              sizes |-> vendor[Archive].sizes]
  /\ UNCHANGED <<world, request, release, decrypted, gzip, todo, report, zips,
                 runs, faults>>

(* copy_tree_safe, the vendor's files, patch_kernel and make_boot_initrd. *)
PatchKernel ==
  /\ Goto("kernel", "mesh")
  /\ UNCHANGED <<world, request, work, zips, runs, faults>>

ChooseRepair ==
  /\ Goto("mesh", IF ~PatchScorpion THEN "report"
                  ELSE IF opt.bl7 # None THEN "override" ELSE "patch")
  /\ todo' = IF PatchScorpion THEN Targets ELSE {}
  /\ UNCHANGED <<world, request, release, decrypted, gzip, tree, report, zips,
                 runs, faults>>

(* --r600-bl7: one local image for all of them. *)
OverrideImages ==
  /\ Goto("override", "controls")
  /\ tree' = [tree EXCEPT !.file = [t \in DOMAIN @ |->
                IF t \in todo THEN opt.bl7 ELSE @[t]]]
  /\ todo' = {}
  /\ UNCHANGED <<world, request, release, decrypted, gzip, report, zips, runs,
                 faults>>

PatchImage ==
  /\ Goto("patch", IF todo = {First(todo)} THEN "controls" ELSE "patch")
  /\ \E image \in patch_image(tree.file[First(todo)]) :
       tree' = [tree EXCEPT !.file[First(todo)] = image]
  /\ todo' = todo \ {First(todo)}
  /\ UNCHANGED <<world, request, release, decrypted, gzip, report, zips, runs,
                 faults>>

UpdateControls ==
  /\ Goto("controls", "report")
  /\ tree' = update_scorpion_control_files(ImageSize)
  /\ UNCHANGED <<world, request, release, decrypted, gzip, todo, report, zips,
                 runs, faults>>

(* make_payload packs the tree; the report hashes the input once more. *)
WriteReport ==
  /\ Goto("report", "zip")
  /\ report' = [id |-> release.id, gzip |-> gzip, digest |-> Archive,
                patched |-> PatchScorpion,
                local |-> opt.bl7 # None,
                models |-> IF PatchScorpion THEN Aliases ELSE {},
                validated |-> IF PatchScorpion THEN Aliases \cap Validated ELSE {},
                warned |-> IF PatchScorpion THEN Aliases \cap Experimental ELSE {}]
  /\ UNCHANGED <<world, request, release, decrypted, gzip, tree, todo, zips,
                 runs, faults>>

WriteZip ==
  /\ Goto("zip", "replace")
  /\ tmp' = Partial
  /\ UNCHANGED <<world, request, work, out, runs, faults>>

CopyZip ==   \* mutant: copies the temporary ZIP instead of renaming it
  /\ pc = "replace"
  /\ out' = [report |-> report, tree |-> tree] /\ tmp' = out'
  /\ Leave("done")
  /\ UNCHANGED <<world, request, runs, faults>>

ReplaceZip ==
  /\ pc = "replace"
  /\ out' = [report |-> report, tree |-> tree] /\ tmp' = None
  /\ Leave("done")
  /\ UNCHANGED <<world, request, runs, faults>>

Refuse ==
  /\ pc \notin Idle /\ ~Passes
  /\ Leave("refused")
  /\ UNCHANGED <<world, request, zips, runs, faults>>

Fault == pc \notin Idle /\ faults < MaxFaults /\ faults' = faults + 1

(* A file is missing, a tool fails, the disk is full. *)
Fail ==
  /\ Fault /\ Leave("failed")
  /\ tmp' = IF pc = "replace" THEN None ELSE tmp
  /\ UNCHANGED <<world, request, out, runs>>

Kill ==
  /\ Fault /\ Leave("killed")
  /\ UNCHANGED <<world, request, zips, runs>>

(* The download is replaced by another file. *)
SwapInput ==
  /\ Fault /\ input' \in Inputs \ {input}
  /\ UNCHANGED <<world, opt, pc, work, zips, runs>>

Build ==
  \/ LoadManifest \/ SelectRelease \/ CheckOptions \/ VerifyInput \/ Decrypt
  \/ VerifyArchive \/ Extract \/ PatchKernel \/ ChooseRepair
  \/ OverrideImages \/ PatchImage \/ UpdateControls
  \/ WriteReport \/ WriteZip \/ ReplaceZip \/ Refuse

Next == Start \/ Build \/ Fail \/ Kill \/ SwapInput

Spec == Init /\ [][Next]_vars

-----------------------------------------------------------------------------
(* Every variable has its type. *)
TypeInv ==
  /\ pc \in Idle \cup {"load", "select", "options", "input", "decrypt",
       "verify", "extract", "kernel", "mesh", "override", "patch", "controls",
       "report", "zip", "replace"}
  /\ input \in Inputs \cup {None} /\ opt \in Options \cup {None}
  /\ release \in Entries \cup {None}
  /\ decrypted # None => decrypted \in Seq(Byte)
  /\ gzip \in BOOLEAN /\ (gzip => decrypted = None)
  /\ todo \subseteq Nat /\ tmp \in {None, Partial}
  /\ \A t \in {tree} \ {None} :
       t.archive \in DOMAIN vendor
       /\ DOMAIN t.file = DOMAIN vendor[t.archive].file
       /\ DOMAIN t.sizes = DOMAIN vendor[t.archive].sizes
  /\ out # None => out.report.id \in {e.id : e \in Entries}
  /\ runs \in Nat /\ faults \in 0..MaxFaults

(* What the vendor's image holds, once its signature is gone. *)
VendorImage(t) == parse_bl7(UiForm(Layout.file[t]))

(* A repacked image is one that parse_bl7 reads back: unsigned, with the     *)
(* vendor's kernel, the patched module and its root file system at the start *)
(* of a page; it starts where the vendor's did if that was padded by less    *)
(* than a page (Bl7Image.rebuild, signed_to_ui, patch_image).                *)
ImageSound ==
  pc \in {"patch", "controls", "report", "zip", "replace"} /\ opt.bl7 = None
    /\ PatchScorpion =>
    \A t \in Targets \ todo :
      LET new == parse_bl7(tree.file[t])
          old == VendorImage(t)
      IN  /\ new # Refused /\ old # Refused
          /\ new.kernel = old.kernel
          /\ new.head.next % PageSize = 0
          /\ FileSize(tree.file[t]) = HeaderSize + new.head.len
          /\ {new.rootfs[i] : i \in Modules(new.rootfs)} = {2}
          /\ /\ old.head.next % PageSize = 0
             /\ old.head.next - HeaderSize - Len(old.kernel) < PageSize
             => new.head.next = old.head.next

(* Whatever was refused, failed or killed before, the output is a bundle     *)
(* whose tree is that of the archive its release records (an unencoded input *)
(* that is replaced while it is read shows by the digest in the report,      *)
(* unless it is also put back before that is taken), and                     *)
(* what the report says of the AP images is what the tree holds: nothing     *)
(* changed, or every model that shares the image has the patched one and     *)
(* control files with its size (the first image's where two differ), and is  *)
(* validated or warned about.                                                *)
BundleSound ==
  out # None =>
    LET r == out.report
        v == vendor[out.tree.archive]
        e == CHOOSE x \in Entries : x.id = r.id
        Size(t) == FileSize(out.tree.file[t])
        sharing == Sharing(v)
        Own(t) == t \in v.image["r600"]
    IN  /\ ~r.gzip \/ (r.digest = e.dec /\ faults < 2) => out.tree.archive = e.dec
        /\ ~r.patched => out.tree.file = v.file /\ out.tree.sizes = v.sizes
        /\ r.patched =>
             /\ r.models = sharing
             /\ r.validated \cup r.warned = sharing
             /\ \A t \in DOMAIN v.file :
                  IF Own(t) THEN parse_bl7(out.tree.file[t]) # Refused
                  ELSE out.tree.file[t] = v.file[t]
             /\ \A m \in sharing, c \in UNION {v.control[n] : n \in sharing \cap DOMAIN v.control} :
                  \A t \in v.image[m] :
                    \/ out.tree.sizes[c] = <<Size(t), Size(t)>>
                    \/ \E u \in v.image["r600"] : u < t /\ Size(u) # Size(t)

(* An exact download, encoded or not, of a release that the manifest records *)
(* once, with options that agree, is never refused: decoding it gives back   *)
(* the recorded archive, its members and images are accepted                 *)
(* (decrypt_file, verify_decrypted_archive, patch_scorpion_payload).         *)
GenuineAccepted ==
  /\ opt # None
  /\ \E w \in SoundWorlds : manifest = w.manifest /\ vendor = w.vendor
  /\ faults = 0
  /\ \E e \in Entries :
       /\ input \in {e.enc, e.dec} /\ opt.release \in {None, e.id}
       /\ opt.unsquashfs = opt.mksquashfs
       /\ opt.bl7 = None \/ (opt.bl7 \in SoundImages /\ ~opt.unsquashfs /\ ~opt.auto)
       /\ opt.auto /\ e.repair => opt.unsquashfs
  => pc # "refused"
=============================================================================
