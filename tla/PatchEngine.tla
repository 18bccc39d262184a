----------------------------- MODULE PatchEngine -----------------------------
(* patch_binary_artifact.py and the catalog it loads (binary_patch_catalog). *)
(* A file is read, its payload taken out of its container, every rule of the *)
(* catalog is resolved against that pristine payload, the replacements are   *)
(* written, the result is verified and put back into the container.  The     *)
(* builder patches the kernel of a bundle and the launcher patches the same  *)
(* file again at every start, so a second pass reads what the first wrote.   *)
(*                                                                           *)
(* A byte pattern is a sequence of bytes and Wild ("??"); Bad is any token   *)
(* that is neither.  Offsets count from 0 as in the code.                    *)
EXTENDS Integers, Sequences, FiniteSets

CONSTANTS Base,      \* how many values a byte has (256)
          DispLen,   \* bytes of the displacement of a near jump (4)
          Jump,      \* the opcode of that jump (e9)
          Wild, Bad, \* tokens of a pattern that are not bytes
          NoRep,     \* replacement_hex of a rule that only validates
          Catalogs,  \* catalogs the program may find
          Sources,   \* files it may be given
          Unlucky    \* payloads whose stream holds its own trailer too early

VARIABLES catalog, artifact, source, \* what the program was given
          pc, pass,
          payload, resolved, result, changed,
          out                        \* the file it has written last

vars == <<catalog, artifact, source, pc, pass, payload, resolved, result,
          changed, out>>

Byte == 0..Base - 1
JumpLen == 1 + DispLen

ASSUME SizeAssumption == Base \in Nat \ {0, 1} /\ DispLen \in Nat \ {0}
                         /\ Jump \in Byte

ASSUME TokenAssumption == Wild \notin Byte

(* The fields of a rule are what PatchRule declares; what their values may   *)
(* be is for load_catalog to say.                                            *)
ASSUME CatalogAssumption ==
  \A c \in Catalogs :
    /\ c.patches \in Seq({c.patches[i] : i \in DOMAIN c.patches})
    /\ \A i \in DOMAIN c.patches :
         LET r == c.patches[i] IN
         /\ r.off \in Int /\ r.exit \in Int
         /\ r.sig \in Seq(Byte \cup {Wild, Bad})
         /\ r.exp \in Seq(Byte \cup {Wild, Bad})
         /\ r.rep # NoRep => r.rep \in Seq(Byte \cup {Wild, Bad})

(* A file: see "containers" below. *)
File == [magics : Seq({"broken", "other", "elf"}), len : Nat, gap : Nat,
         early : BOOLEAN, payload : Seq(Byte)]

ASSUME SourceAssumption == Sources \subseteq File

-----------------------------------------------------------------------------
(* Patterns. *)

matches_at(data, offset, p) ==
  /\ offset >= 0 /\ offset + Len(p) <= Len(data)
  /\ \A i \in 1..Len(p) : p[i] = Wild \/ data[offset + i] = p[i]

(* The first of the longest runs of exact bytes: <<offset, length>>. *)
longest_exact_anchor(p) ==
  LET runs == {r \in (0..Len(p)) \X (0..Len(p)) :
                 /\ r[1] + r[2] <= Len(p)
                 /\ \A i \in r[1] + 1..r[1] + r[2] : p[i] # Wild}
  IN  CHOOSE r \in runs :
        \A q \in runs : r[2] > q[2] \/ (r[2] = q[2] /\ r[1] <= q[1])

(* data.find(anchor, from): the first hit at or after from, or -1. *)
FirstHit(data, anchor, from) ==
  LET hits == {o \in from..Len(data) : matches_at(data, o, anchor)}
  IN  IF hits = {} THEN -1 ELSE CHOOSE o \in hits : \A h \in hits : o <= h

FindSkipping(data, p) ==   \* mutant: resumes behind the anchor it found
  LET a == longest_exact_anchor(p)
      anchor == SubSeq(p, a[1] + 1, a[1] + a[2])
      scan[from \in 0..2 * Len(data) + 1] ==
        LET hit == FirstHit(data, anchor, from)
        IN  IF hit < 0 THEN {}
            ELSE {m \in {hit - a[1]} : matches_at(data, m, p)}
                   \cup scan[hit + a[2]]
  IN  IF a[2] = 0 THEN 0..Len(data) - Len(p) ELSE scan[0]

(* Every match: the anchor is looked for again one byte after each hit. *)
find_masked(data, p) ==
  LET a == longest_exact_anchor(p)
      anchor == SubSeq(p, a[1] + 1, a[1] + a[2])
      scan[from \in 0..Len(data) + 1] ==
        LET hit == FirstHit(data, anchor, from)
        IN  IF hit < 0 THEN {}
            ELSE {m \in {hit - a[1]} : matches_at(data, m, p)}
                   \cup scan[hit + 1]
  IN  IF a[2] = 0 THEN 0..Len(data) - Len(p) ELSE scan[0]

overlay_pattern(sig, offset, rep, preserve) ==
  [i \in 1..Len(sig) |->
     IF i - offset \notin 1..Len(rep) THEN sig[i]
     ELSE IF rep[i - offset] # Wild THEN rep[i - offset]
     ELSE IF preserve THEN sig[i] ELSE Wild]

(* The patched form of a rule's signature.  A jump is given its displacement *)
(* only when it is written, so the wildcards of one replace the signature's. *)
PatchedSignature(r) == overlay_pattern(r.sig, r.off, r.rep, r.exit = 0)

(* data with rep written at offset; Wild keeps the byte that was there. *)
render_replacement(data, offset, rep) ==
  [i \in 1..Len(data) |->
     IF i - offset \notin 1..Len(rep) \/ rep[i - offset] = Wild THEN data[i]
     ELSE rep[i - offset]]

-----------------------------------------------------------------------------
(* Near jumps: an opcode and a signed little-endian displacement. *)

Power[n \in 0..DispLen] == IF n = 0 THEN 1 ELSE Base * Power[n - 1]

Range32 == Power[DispLen]   \* 2^32: displacements are modulo this

LittleEndian(v) == [j \in 1..DispLen |-> (v \div Power[j - 1]) % Base]

Displacement(data, at) ==
  LET v == CHOOSE x \in 0..Range32 - 1 :
             LittleEndian(x) = SubSeq(data, at + 2, at + JumpLen)
  IN  IF 2 * v >= Range32 THEN v - Range32 ELSE v

Target(data, at) == at + JumpLen + Displacement(data, at)

(* The jump that leads from site to where the jump at exit leads. *)
RelativeJump(data, site, exit) ==
  <<Jump>> \o LittleEndian((Target(data, exit) - (site + JumpLen)) % Range32)

-----------------------------------------------------------------------------
(* The catalog. *)

AnyPattern(p) == Len(p) > 0   \* mutant: the tokens are not looked at

Pattern(p) == Len(p) > 0 /\ \A i \in 1..Len(p) : p[i] # Bad

(* One entry as load_catalog accepts it: the grammar of its patterns and     *)
(* their lengths.  Nothing is asked of rel32_exit but its sign.              *)
ValidRule(r, ids) ==
  /\ r.artifact \in ids
  /\ r.off >= 0 /\ r.exit >= 0
  /\ Pattern(r.sig) /\ Pattern(r.exp)
  /\ r.off + Len(r.exp) <= Len(r.sig)
  /\ r.rep # NoRep => Pattern(r.rep) /\ Len(r.rep) = Len(r.exp)

Ids(c) == {c.artifacts[i].id : i \in DOMAIN c.artifacts}

(* load_catalog: the JSON's form (fields, types, version), known handlers,   *)
(* unique names, nothing empty.                                              *)
load_catalog(c) ==
  /\ c.wellformed
  /\ c.artifacts # <<>> /\ c.patches # <<>>
  /\ \A i \in DOMAIN c.artifacts :
       /\ c.artifacts[i].handler \in {"raw", "zd1200_bzimage_gzip_elf"}
       /\ \A j \in 1..i - 1 : c.artifacts[j].id # c.artifacts[i].id
  /\ \A i \in DOMAIN c.patches :
       /\ ValidRule(c.patches[i], Ids(c))
       /\ \A j \in 1..i - 1 : c.patches[j].name # c.patches[i].name

(* In the order of the catalog. *)
rules_for_artifact(c, id) ==
  LET mine[i \in 0..Len(c.patches)] ==
        IF i = 0 THEN <<>>
        ELSE IF c.patches[i].artifact = id THEN Append(mine[i - 1], c.patches[i])
        ELSE mine[i - 1]
  IN  mine[Len(c.patches)]

Handler ==
  LET i == CHOOSE j \in DOMAIN catalog.artifacts :
             catalog.artifacts[j].id = artifact
  IN  catalog.artifacts[i].handler

Rules == rules_for_artifact(catalog, artifact)

-----------------------------------------------------------------------------
(* A container: what stands at each gzip magic in the file ("broken": does   *)
(* not inflate, "other": is no ELF32), the payload of the ELF member, the    *)
(* bytes of its stream, the zeros behind it, and whether its trailer bytes   *)
(* also occur earlier.  A raw file is its payload.                           *)
find_elf_member(f) ==
  {i \in DOMAIN f.magics :
     /\ f.magics[i] = "elf"
     /\ \A j \in 1..i - 1 : f.magics[j] # "elf"
     /\ ~f.early}

(* gzip.compress: the length depends on the content and nothing else.  Here  *)
(* it is that of a run-length code.                                          *)
Compressed(data) ==
  1 + Cardinality({i \in 2..Len(data) : data[i] # data[i - 1]})

Fits(f, data) ==
  Handler = "zd1200_bzimage_gzip_elf" => Compressed(data) <= f.len

(* The member is replaced in place: zeros fill what it no longer needs. *)
rebuild_artifact(f, data) ==
  IF Handler = "raw" THEN [f EXCEPT !.payload = data]
  ELSE [f EXCEPT !.payload = data, !.len = Compressed(data),
                 !.gap = @ + f.len - Compressed(data),
                 !.early = data \in Unlucky]

-----------------------------------------------------------------------------
Init ==
  /\ catalog \in Catalogs
  /\ artifact \in Ids(catalog)
  /\ source \in Sources
  /\ pc = "load" /\ pass = 1
  /\ payload = <<>> /\ resolved = <<>> /\ result = <<>>
  /\ changed = FALSE /\ out = {}

Given == <<catalog, artifact, source, pass>>

(* ValueError: main prints "refusing to patch" and writes nothing. *)
Refuse(from) ==
  /\ pc = from /\ pc' = "refused"
  /\ UNCHANGED <<Given, payload, resolved, result, changed, out>>

(* Importing binary_patch_catalog loads the catalog before anything is read. *)
Load ==
  /\ pc = "load" /\ load_catalog(catalog)
  /\ pc' = "extract"
  /\ UNCHANGED <<Given, payload, resolved, result, changed, out>>

LoadFails == ~load_catalog(catalog) /\ Refuse("load")

Extractable ==
  /\ Handler = "raw" \/ find_elf_member(source) # {}
  /\ Rules # <<>>

(* extract_artifact, then apply_artifact picks the rules of the artifact. *)
Extract ==
  /\ pc = "extract" /\ Extractable
  /\ pc' = "resolve"
  /\ payload' = source.payload
  /\ resolved' = <<>>
  /\ UNCHANGED <<Given, result, changed, out>>

ExtractFails == pc = "extract" /\ ~Extractable /\ Refuse("extract")

(* How a rule may resolve at offset m of the payload. *)
Validated(r, m) ==
  /\ r.rep = NoRep
  /\ find_masked(payload, r.sig) = {m}
  /\ matches_at(payload, m + r.off, r.exp)

RelOk(r, m) ==
  r.exit # 0 =>
    /\ Len(r.rep) = JumpLen /\ r.rep[1] = Jump
    /\ r.exit + JumpLen <= Len(r.sig)
    /\ payload[m + r.exit + 1] = Jump

Patchable(r, m) ==
  /\ r.rep # NoRep
  /\ find_masked(payload, r.sig) = {m}
  /\ find_masked(payload, PatchedSignature(r)) = {}
  /\ matches_at(payload, m + r.off, r.exp)
  /\ RelOk(r, m)

AlreadyPatched(r, m) ==
  /\ r.rep # NoRep
  /\ find_masked(payload, r.sig) = {}
  /\ find_masked(payload, PatchedSignature(r)) = {m}

(* The bytes a rule writes. *)
Replacement(r, m) ==
  IF r.exit = 0 THEN r.rep
  ELSE RelativeJump(payload, m + r.off, m + r.exit)

Rule == Rules[Len(resolved) + 1]
Offsets == 0..Len(payload)

(* One turn of the loop that resolves every rule before anything is written. *)
Resolve ==
  /\ pc = "resolve" /\ Len(resolved) < Len(Rules)
  /\ \E m \in Offsets :
       \/ /\ Validated(Rule, m)
          /\ resolved' = Append(resolved,
               [state |-> "validated", site |-> m, bytes |-> <<>>])
       \/ /\ Patchable(Rule, m)
          /\ resolved' = Append(resolved,
               [state |-> "patch", site |-> m + Rule.off,
                bytes |-> Replacement(Rule, m)])
       \/ /\ AlreadyPatched(Rule, m)
          /\ resolved' = Append(resolved,
               [state |-> "already", site |-> m + Rule.off, bytes |-> <<>>])
  /\ UNCHANGED <<Given, pc, payload, result, changed, out>>

(* Ambiguous or unknown input, bytes that are not the expected ones, or an   *)
(* exit that is not a jump inside the signature.                             *)
ResolveFails ==
  /\ pc = "resolve" /\ Len(resolved) < Len(Rules)
  /\ \A m \in Offsets :
       ~Validated(Rule, m) /\ ~Patchable(Rule, m) /\ ~AlreadyPatched(Rule, m)
  /\ Refuse("resolve")

Resolved == pc = "resolve" /\ Len(resolved) = Len(Rules)

Patches == {i \in DOMAIN resolved : resolved[i].state = "patch"}
End(i) == resolved[i].site + Len(resolved[i].bytes)

NoOverlap == FALSE   \* mutant: the ranges are not compared

Overlap ==
  \E i, j \in Patches :
    i < j /\ resolved[i].site < End(j) /\ resolved[j].site < End(i)

Overlaps == Resolved /\ Overlap /\ Refuse("resolve")

(* The loop that writes the replacements in the order of the rules. *)
Write ==
  LET written[i \in 0..Len(resolved)] ==
        IF i = 0 THEN payload
        ELSE IF i \notin Patches THEN written[i - 1]
        ELSE render_replacement(written[i - 1], resolved[i].site,
                                resolved[i].bytes)
  IN  /\ Resolved /\ ~Overlap
      /\ pc' = "verify"
      /\ result' = written[Len(resolved)]
      /\ changed' = (result' # payload)
      /\ UNCHANGED <<Given, payload, resolved, out>>

VerifyNothing == TRUE   \* mutant: the result is taken as it is

(* What the result is verified for: each write left exactly one patched      *)
(* signature and no original one, each validated signature is still unique.  *)
Verified ==
  \A i \in DOMAIN Rules :
    LET r == Rules[i] IN
    IF r.rep = NoRep THEN Cardinality(find_masked(result, r.sig)) = 1
    ELSE /\ find_masked(result, r.sig) = {}
         /\ Cardinality(find_masked(result, PatchedSignature(r))) = 1

Verify ==
  /\ pc = "verify" /\ Verified
  /\ pc' = "rebuild"
  /\ UNCHANGED <<Given, payload, resolved, result, changed, out>>

(* AssertionError: main does not catch it, the program ends with a trace. *)
VerifyFails ==
  /\ pc = "verify" /\ ~Verified
  /\ pc' = "assert"
  /\ UNCHANGED <<Given, payload, resolved, result, changed, out>>

(* rebuild_artifact, then main writes the output file. *)
Rebuild ==
  /\ pc = "rebuild" /\ Fits(source, result)
  /\ pc' = "done"
  /\ out' = {rebuild_artifact(source, result)}
  /\ UNCHANGED <<Given, payload, resolved, result, changed>>

RebuildFails ==
  pc = "rebuild" /\ ~Fits(source, result) /\ Refuse("rebuild")

(* The launcher patches the kernel that the builder has patched. *)
Again ==
  /\ pc = "done" /\ pass = 1
  /\ pc' = "load" /\ pass' = 2
  /\ source' \in out
  /\ UNCHANGED <<catalog, artifact, payload, resolved, result, changed, out>>

Next ==
  \/ Load \/ LoadFails \/ Extract \/ ExtractFails
  \/ Resolve \/ ResolveFails \/ Overlaps
  \/ Write \/ Verify \/ VerifyFails \/ Rebuild \/ RebuildFails \/ Again

Spec == Init /\ [][Next]_vars

-----------------------------------------------------------------------------
(* Every variable has its type. *)
TypeInv ==
  /\ catalog \in Catalogs /\ artifact \in Ids(catalog)
  /\ pc \in {"load", "extract", "resolve", "verify", "rebuild", "done",
             "refused", "assert"}
  /\ pass \in {1, 2}
  /\ \A data \in {payload, result} : data \in Seq(Byte)
  /\ \A i \in DOMAIN resolved :
       /\ resolved[i].state \in {"validated", "patch", "already"}
       /\ resolved[i].site + Len(resolved[i].bytes) \in 0..Len(payload)
  /\ changed \in BOOLEAN
  /\ Cardinality(out) \in {0, 1}

(* The search through the longest exact run finds every match, those that    *)
(* overlap another and those of a pattern without an exact byte included:    *)
(* one that were missed would make an ambiguous input look unique.           *)
FindsEveryMatch ==
  pc = "resolve" =>
    \A i \in DOMAIN Rules :
      \A p \in {Rules[i].sig} \cup
               IF Rules[i].rep = NoRep THEN {} ELSE {PatchedSignature(Rules[i])} :
        find_masked(payload, p) = {o \in Offsets : matches_at(payload, o, p)}

(* The file written differs from the one read exactly as the rules say: each *)
(* patched site holds its replacement over the bytes of the pristine         *)
(* payload, a relocated jump leads where the exit it stands for led, no      *)
(* other byte of the payload changes and nothing behind the member moves.    *)
PatchedAsAsked ==
  pc = "done" =>
    /\ \A i \in Patches :
         LET s == resolved[i].site
             before == render_replacement(payload, s, resolved[i].bytes)
         IN  /\ \A o \in s + 1..End(i) : result[o] = before[o]
             /\ Rules[i].exit # 0 =>
                  LET exit == s - Rules[i].off + Rules[i].exit
                  IN  (Target(result, s) - Target(payload, exit)) % Range32 = 0
    /\ \A o \in DOMAIN payload :
         result[o] # payload[o] =>
           \E i \in Patches : o \in resolved[i].site + 1..End(i)
    /\ \A f \in out : /\ f.payload = result
                      /\ f.len + f.gap = source.len + source.gap
                      /\ f.magics = source.magics

(* Expected bytes that the signature already fixes: so it is for every rule  *)
(* of the catalog in the repository.                                         *)
Implied(r) ==
  \A j \in 1..Len(r.exp) : r.exp[j] = Wild \/ r.exp[j] = r.sig[r.off + j]

(* Patching a patched file changes nothing and is never refused: a bundle    *)
(* that was built can be started.  Not so where the recompressed stream      *)
(* holds its trailer too early, or a rule validates bytes that its signature *)
(* leaves open and another rule has changed.  Both passes have one catalog   *)
(* and one zlib.                                                             *)
AgainSame ==
  pass = 2 /\ (\A i \in DOMAIN Rules : Implied(Rules[i])) =>
    /\ pc # "assert"
    /\ pc = "refused" =>
         Handler = "zd1200_bzimage_gzip_elf" /\ source.payload \in Unlucky
    /\ pc = "done" => ~changed /\ out = {source}
=============================================================================
