---------------------------- MODULE MCBundleBuild ----------------------------
(* Two releases, of which one needs the repair, and what may be wrong with a *)
(* manifest, an archive, an image or a command line.                         *)
EXTENDS BundleBuild

MCGzip == {0, 1, 4}
MCKeyStart == <<{0}, {4}>>
MCKeyFlip == <<{1}, {0, 4}>>

A == <<MCGzip, {}, {0}, {1, 4}, {4}>>   \* two words and a byte
B == <<MCGzip, {1}>>                    \* whole words
Short == <<{0}, {1}, {4}>>              \* no whole words
Zeros == MCKeyStart                     \* decodes to a word of zero bytes
Long == <<{0}, {0, 1, 4}>>              \* its padding exceeds it

-----------------------------------------------------------------------------
(* Images. *)
Made(type, kernel, pad, rootfs, trailer) ==
  Bl7(type, kernel \o Padding(pad), rootfs, trailer)

Plain    == Made(0, <<7>>, 1, <<0, 1>>, <<>>)
Signed   == Made(1, <<7, 8, FF>>, 2, <<1>>, <<9>>)
Endless  == Made(2, <<7, FF>>, 4, <<2, 0>>, <<9, 9>>)    \* over a page of padding
Exact    == Made(0, <<7, FF>>, 0, <<1>>, <<>>)           \* no padding at all
Odd      == Made(0, <<7, 7, 7>>, 1, <<1>>, <<>>)         \* starts within a page
Unsigned == Made(1, <<7>>, 1, <<1>>, <<>>)               \* signed, no trailer
Foreign  == Made(0, <<7>>, 1, <<3>>, <<>>)
Twice    == Made(0, <<7>>, 1, <<1, 1>>, <<>>)
Corrupt  == [Plain EXCEPT !.body[1] = 8]

-----------------------------------------------------------------------------
(* Archives. *)
File(name) == [name |-> name, kind |-> "file", target |-> <<>>]
Link(name, target) == [name |-> name, kind |-> "link", target |-> target]

GoodMembers ==
  <<File(<<".", "metadata">>), File(<<"bzImage">>),
    File(<<"firmwares", "r600", "fw">>),
    Link(<<"firmwares", "r500", "fw">>, <<"..", "r600", "fw">>)>>

Tree(images, controls, files, sizes) ==
  [members |-> GoodMembers, metadata |-> "v", kernel |-> "known",
   image |-> images, control |-> controls, file |-> files, sizes |-> sizes]

Two == <<5, 5>>

Shared(f, g) ==
  Tree([r600 |-> {1, 2}, r500 |-> {1, 2}, r310 |-> {3}],
       [r600 |-> {1}, r500 |-> {2}, r310 |-> {3}],
       <<f, g, Foreign>>, <<Two, Two, Two>>)

One(f) == Tree([r600 |-> {1}], [r600 |-> {1}], <<f>>, <<Two>>)

GoodTrees == {Shared(Plain, Signed), Shared(Signed, Plain),
              Shared(Endless, Exact), One(Exact), One(Odd)}

Base == Shared(Plain, Signed)

BadTrees ==
  {One(f) : f \in {Unsigned, Foreign, Twice, Corrupt}}
    \cup {Shared(Plain, Foreign)}
    \cup {[Base EXCEPT !.sizes[2] = <<5, 5, 5>>],
          [Base EXCEPT !.control = [r310 |-> {3}]],
          [Base EXCEPT !.kernel = "other"],
          [Base EXCEPT !.metadata = "w"],
          [Base EXCEPT !.image = [r310 |-> {3}]],
          [Base EXCEPT !.members = @ \o <<File(<<"metadata">>)>>],
          [Base EXCEPT !.members = Tail(@)],
          [Base EXCEPT !.members = @ \o <<Link(<<"x">>, <<"..", "x">>)>>]}

-----------------------------------------------------------------------------
(* Manifests. *)
Entry(id, enc, dec, repair) ==
  [id |-> id, enc |-> enc, dec |-> dec, repair |-> repair, wellformed |-> TRUE,
   artifacts |-> {"kernel"}, required |-> {<<"bzImage">>, <<"metadata">>},
   metadata |-> "v"]

EntryA == Entry("a", Encrypt(A), A, TRUE)
EntryB == Entry("b", Encrypt(B), B, FALSE)
Good == <<EntryA, EntryB>>

Manifests ==
  {<<>>, <<EntryA, EntryA>>, <<[EntryA EXCEPT !.wellformed = FALSE]>>,
   <<[EntryA EXCEPT !.artifacts = {"unknown"}]>>,
   <<EntryA, Entry("b", Encrypt(B), A, FALSE)>>,
   <<Entry("a", None, A, TRUE), Entry("b", Encrypt(B), None, FALSE)>>,
   <<Entry("a", Short, A, TRUE), EntryB>>,
   <<Entry("a", Encrypt(B), A, TRUE), Entry("b", Zeros, B, FALSE)>>,
   <<Entry("a", Long, A, TRUE)>>}

Archives(t) == (A :> t) @@ (B :> One(Plain))

World(m, t, n) == [manifest |-> m, vendor |-> Archives(t), runs |-> n]

MCSoundWorlds ==
  {World(Good, t, 2) : t \in {Base, Shared(Endless, Exact)}}
    \cup {World(Good, t, 1) : t \in GoodTrees}

MCWorlds ==
  MCSoundWorlds \cup {World(Good, t, 1) : t \in BadTrees}
    \cup {World(m, Base, 1) : m \in Manifests}

MCInputs == {A, B, Encrypt(A), Encrypt(B), Short, Zeros, Long}

-----------------------------------------------------------------------------
(* Command lines. *)
MCSoundImages == {Plain, Odd}

Opt(rel, u, m, bl7, auto) ==
  [release |-> rel, unsquashfs |-> u, mksquashfs |-> m, bl7 |-> bl7, auto |-> auto]

MCOptions ==
  {Opt(None, FALSE, FALSE, None, FALSE), Opt(None, TRUE, TRUE, None, FALSE),
   Opt("a", TRUE, TRUE, None, TRUE), Opt(None, FALSE, FALSE, None, TRUE),
   Opt(None, FALSE, FALSE, Odd, FALSE), Opt(None, FALSE, FALSE, Signed, FALSE),
   Opt("c", FALSE, FALSE, None, FALSE), Opt(None, TRUE, FALSE, None, FALSE),
   Opt("b", FALSE, FALSE, Odd, TRUE), Opt("b", TRUE, TRUE, Odd, FALSE)}
=============================================================================
