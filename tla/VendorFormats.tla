---------------------------- MODULE VendorFormats ----------------------------
(* The vendor's file formats as the builder reads and writes them: the TAC   *)
(* coding of a download (ruckus_tac_decrypt.py), the members of its archive  *)
(* (verify_release_archive.py) and the BL7 images of the access points       *)
(* (ruckus_bl7.py, patch_r600_bl7.py).  A digest is the content it is taken  *)
(* of: two files with the same SHA-256 or MD5 are the same file.             *)
EXTENDS Integers, Sequences, FiniteSets, SequencesExt

CONSTANTS WordLen,           \* bytes of a TAC word (8)
          KeyStart, KeyFlip, \* _INITIAL_XOR and _XOR_FLIP
          HeaderSize,        \* bytes of a BL7 header (160)
          PageSize,          \* alignment of the root file system (64 KiB)
          Refused            \* what an operator returns where Python raises

-----------------------------------------------------------------------------
(* TAC.  A byte is the set of its bits that are set. *)

Byte == SUBSET (0..7)

(* Its low nibble. *)
Nibble(b) == (IF 0 \in b THEN 1 ELSE 0) + (IF 1 \in b THEN 2 ELSE 0)
               + (IF 2 \in b THEN 4 ELSE 0) + (IF 3 \in b THEN 8 ELSE 0)

(* The padding of a word has to fit a nibble.  The key changes the first     *)
(* byte, so that what is encoded does not begin like what is not.            *)
ASSUME KeyAssumption ==
  /\ WordLen \in 1..15
  /\ KeyStart \in [1..WordLen -> Byte] /\ KeyFlip \in [1..WordLen -> Byte]
  /\ KeyStart[1] # {}

Xor(v, w) == [i \in 1..WordLen |-> (v[i] \ w[i]) \cup (w[i] \ v[i])]

Word(s, k) == SubSeq(s, (k - 1) * WordLen + 1, k * WordLen)

(* The bytes of a sequence of words. *)
Bytes(words) ==
  [j \in 1..Len(words) * WordLen |->
     words[(j - 1) \div WordLen + 1][((j - 1) % WordLen) + 1]]

Zero == [i \in 1..WordLen |-> {}]

(* The key alternates between two values. *)
Key(k) == IF k % 2 = 1 THEN KeyStart ELSE Xor(KeyStart, KeyFlip)

DecryptUnchained(source) ==   \* mutant: forgets the word before
  Bytes([k \in 1..Len(source) \div WordLen |-> Xor(Key(k), Word(source, k))])

(* Every word is decoded with the key and the encoded word before it. *)
decrypt_stream(source) ==
  Bytes([k \in 1..Len(source) \div WordLen |->
    Xor(Xor(IF k = 1 THEN Zero ELSE Word(source, k - 1), Key(k)),
        Word(source, k))])

(* The last decoded byte says how many bytes of padding to cut off. *)
decrypt_file(source) ==
  LET output  == decrypt_stream(source)
      padding == IF output = <<>> THEN 0 ELSE Nibble(Last(output))
  IN  IF Len(source) % WordLen # 0 \/ padding > Len(output) THEN Refused
      ELSE SubSeq(output, 1, Len(output) - padding)

(* The vendor's side: pads to whole words, always by at least one byte that  *)
(* ends in the length of the padding, and chains the words.                  *)
Encrypt(plain) ==
  LET count  == WordLen - (Len(plain) % WordLen)
      last   == CHOOSE b \in SUBSET (0..3) : Nibble(b) = count
      padded == plain \o [i \in 1..count |-> last]
      code[k \in 0..Len(padded) \div WordLen] ==
        IF k = 0 THEN Zero ELSE Xor(Xor(code[k - 1], Key(k)), Word(padded, k))
  IN  Bytes([k \in 1..Len(padded) \div WordLen |-> code[k]])

-----------------------------------------------------------------------------
(* Archive members.  A path is the sequence of its parts; the part "/" makes *)
(* it absolute.                                                              *)

normpath(path) ==
  LET Step(done, part) ==
        IF part = "." THEN done
        ELSE IF part = ".." /\ done # <<>> /\ Last(done) # ".." THEN Front(done)
        ELSE Append(done, part)
  IN  FoldLeft(Step, <<>>, path)

Absolute(path) == path # <<>> /\ Head(path) = "/"

safe_member_name(path) ==
  /\ ~Absolute(path) /\ ".." \notin ToSet(path)
  /\ normpath(path) # <<>>

safe_link_target(name, target) ==
  /\ target # <<>> /\ ~Absolute(target)
  /\ ~IsPrefix(<<"..">>, normpath(Front(name) \o target))

SafeMember(m) ==
  /\ safe_member_name(m.name)
  /\ m.kind \in {"file", "dir", "link"}
  /\ m.kind = "link" => safe_link_target(normpath(m.name), m.target)

(* The pass over the members, and what the release asks of them. *)
SoundMembers(members, required) ==
  /\ \A i \in 1..Len(members) : SafeMember(members[i])
  /\ \A i, j \in 1..Len(members) :
       normpath(members[i].name) = normpath(members[j].name) => i = j
  /\ \E m \in ToSet(members) :
       normpath(m.name) = <<"metadata">> /\ m.kind = "file"
  /\ required \subseteq {normpath(m.name) : m \in ToSet(members)}

-----------------------------------------------------------------------------
(* BL7 images: a header, with the offset of the root file system, the length *)
(* of the payload, its MD5, the type and a checksum, and the bytes behind    *)
(* the header: kernel, padding, root file system and, if signed, a trailer.  *)

FF == 255

ASSUME SizeAssumption == HeaderSize \in Nat /\ PageSize \in Nat \ {0}

HeadWith(Sum) ==
  [magic : {"RCKS", "other"}, hdr_len : Nat, type : Nat, next : Nat, len : Nat,
   md5 : Seq(Nat), sum : Sum]

(* The checksum is taken of the header with a zero in its place. *)
Image  == [head : HeadWith(HeadWith({0})), body : Seq(Nat)]
Parsed == [head : HeadWith(HeadWith({0})), kernel : Seq(Nat), rootfs : Seq(Nat)]

ASSUME RefusedAssumption == Refused \notin Image \cup Parsed \cup Seq(Byte)

Checksum(h) == [h EXCEPT !.sum = 0]

WithSum(h) == [h EXCEPT !.sum = Checksum(h)]

Padding(n) == [i \in 1..n |-> FF]

(* What the vendor's tool makes of a kernel with its padding, a root file    *)
(* system and, if the image is signed, a trailer.                            *)
Bl7(type, kernel, rootfs, trailer) ==
  [head |-> WithSum([magic |-> "RCKS", hdr_len |-> HeaderSize, type |-> type,
                     next |-> HeaderSize + Len(kernel),
                     len |-> Len(kernel \o rootfs), md5 |-> kernel \o rootfs,
                     sum |-> 0]),
   body |-> kernel \o rootfs \o trailer]

(* rstrip(b"\xff") *)
Stripped(s) ==
  SubSeq(s, 1, CHOOSE n \in 0..Len(s) :
                 /\ \A i \in n + 1..Len(s) : s[i] = FF
                 /\ n = 0 \/ s[n] # FF)

Payload(image) == SubSeq(image.body, 1, image.head.len)

(* image is what the tool makes of its own parts. *)
VendorMade(image) ==
  LET split == image.head.next - HeaderSize
      len   == image.head.len
      body  == image.body
  IN  /\ split \in 0..len /\ len \in 0..Len(body)
      /\ image.head.type \in 0..2
      /\ image.head.type # 0 => len < Len(body)
      /\ image = Bl7(image.head.type, SubSeq(body, 1, split),
                     SubSeq(body, split + 1, len), SubSeq(body, len + 1, Len(body)))

(* The checks parse_bl7 and signed_to_ui share; room is what a signature     *)
(* trailer needs at least.                                                   *)
ValidContainer(image, types, room) ==
  LET h == image.head IN
  /\ h.magic = "RCKS" /\ h.hdr_len = HeaderSize
  /\ h.type \in types
  /\ HeaderSize <= h.next /\ h.next <= HeaderSize + h.len
  /\ h.len + room <= Len(image.body)
  /\ h.md5 = Payload(image)
  /\ h.sum = Checksum(h)

parse_bl7(image) ==
  IF ~ValidContainer(image, {0}, 0) THEN Refused
  ELSE LET split == image.head.next - HeaderSize IN
       [head   |-> image.head,
        kernel |-> Stripped(SubSeq(image.body, 1, split)),
        rootfs |-> SubSeq(Payload(image), split + 1, image.head.len)]

RebuildUnaligned(parsed, rootfs) ==   \* mutant: pads as if there were no header
  LET padding == Padding((-Len(parsed.kernel)) % PageSize)
      payload == parsed.kernel \o padding \o rootfs
  IN  [head |-> WithSum([parsed.head EXCEPT
                           !.next = HeaderSize + Len(parsed.kernel) + Len(padding),
                           !.len = Len(payload), !.md5 = payload]),
       body |-> payload]

(* Bl7Image.rebuild with a new root file system. *)
rebuild(parsed, rootfs) ==
  LET padding == Padding((-(HeaderSize + Len(parsed.kernel))) % PageSize)
      payload == parsed.kernel \o padding \o rootfs
  IN  [head |-> WithSum([parsed.head EXCEPT
                           !.next = HeaderSize + Len(parsed.kernel) + Len(padding),
                           !.len = Len(payload), !.md5 = payload]),
       body |-> payload]

signed_to_ui(image) ==
  IF ~ValidContainer(image, {1, 2}, 1) THEN Refused
  ELSE [head |-> WithSum([image.head EXCEPT !.type = 0]),
        body |-> Payload(image)]

FileSize(image) == HeaderSize + Len(image.body)

(* unsquashfs, the rules of ap_11n_scorpion_wlan_ko and mksquashfs.  In a    *)
(* root file system 1 is the vendor's wlan.ko, 2 the patched one and 3 one   *)
(* the rules do not match; the new file system may be a byte longer.         *)
Modules(rootfs) == {i \in 1..Len(rootfs) : rootfs[i] \in {1, 2, 3}}

Repacked(rootfs) ==
  LET patched == [i \in 1..Len(rootfs) |-> IF i \in Modules(rootfs) THEN 2 ELSE rootfs[i]]
  IN  {patched, Append(patched, 0)}

UiForm(image) == IF image.head.type # 0 THEN signed_to_ui(image) ELSE image

(* patch_r600_bl7.patch_image: the images it may write; none if it refuses. *)
patch_image(image) ==
  LET ui     == UiForm(image)
      parsed == IF ui = Refused THEN Refused ELSE parse_bl7(ui)
  IN  IF parsed = Refused THEN {}
      ELSE IF \E i \in Modules(parsed.rootfs) :
                Modules(parsed.rootfs) = {i} /\ parsed.rootfs[i] # 3
           THEN {rebuild(parsed, r) : r \in Repacked(parsed.rootfs)}
           ELSE {}
=============================================================================
