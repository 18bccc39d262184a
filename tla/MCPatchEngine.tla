---------------------------- MODULE MCPatchEngine ----------------------------
(* Catalogs of one or two rules that overlap, shadow or undo each other, the *)
(* malformed ones, and every payload of PayloadLen bytes.                    *)
EXTENDS PatchEngine

CONSTANTS PayloadLen

W == Wild

R(name, sig, off, exp, rep, exit) ==
  [artifact |-> "kernel", name |-> name, sig |-> sig, off |-> off,
   exp |-> exp, rep |-> rep, exit |-> exit]

(* A first byte, a byte in the middle, a kept wildcard and a rule that wants *)
(* the byte it keeps, a rule that can make the signature of another, one     *)
(* with nothing exact, a jump, validations.                                  *)
GoodRules ==
  { R("first", <<0, 1>>, 0, <<0>>, <<2>>, 0),
    R("middle", <<0, W, 1>>, 1, <<W>>, <<0>>, 0),
    R("kept", <<1, W, 0>>, 0, <<1, W>>, <<0, W>>, 0),
    R("inner", <<W, 1, 0>>, 1, <<1>>, <<2>>, 0),
    R("tail", <<1, W>>, 0, <<1, W>>, <<2, 1>>, 0),
    R("open", <<W, W, W, W>>, 1, <<W>>, <<0>>, 0),
    R("jump", <<1, W, 2, W>>, 0, <<1, W>>, <<2, W>>, 2),
    R("check", <<0, 0>>, 0, <<0>>, NoRep, 0),
    R("strict", <<W, 2>>, 0, <<1>>, NoRep, 0) }

BadRules ==
  { R("outside", <<0, 1>>, 1, <<1, 1>>, <<0, 0>>, 0),
    R("longer", <<0, 1>>, 0, <<0>>, <<0, 0>>, 0),
    R("token", <<0, 1>>, 0, <<0>>, <<Bad>>, 0),
    R("empty", <<>>, 0, <<>>, <<>>, 0),
    R("exit", <<1, W, 2, W>>, 0, <<1, W>>, <<2, W>>, 3) }

Entry(id, handler) == [id |-> id, handler |-> handler]

Catalog(handler, patches) ==
  [wellformed |-> TRUE, artifacts |-> <<Entry("kernel", handler)>>,
   patches |-> patches]

MCCatalogs ==
  {Catalog("raw", <<r, s>>) : r, s \in GoodRules}
    \cup {Catalog("zd1200_bzimage_gzip_elf", <<r>>) : r \in GoodRules}
    \cup {Catalog("raw", <<r>>) : r \in BadRules}
    \cup {Catalog("unknown", <<>>),
          [Catalog("raw", <<>>) EXCEPT
             !.artifacts = <<Entry("kernel", "raw"), Entry("ap", "raw")>>,
             !.patches = <<R("first", <<0, 1>>, 0, <<0>>, <<2>>, 0)>>]}

MCUnlucky == {p \in [1..PayloadLen -> 0..Base - 1] : p[1] = 2 /\ p[2] = 1}

MCSources ==
  [magics : {<<"broken", "other", "elf">>}, len : {4},
   gap : {0}, early : {FALSE}, payload : [1..PayloadLen -> 0..Base - 1]]
    \cup
  [magics : {<<"elf">>, <<"other">>}, len : {2},
   gap : {0}, early : {TRUE}, payload : [1..PayloadLen -> {0}]]
=============================================================================
