-------------------------- MODULE MCPackageVerifier --------------------------
(* Packages as a signing tool makes them, and packages with a wrong footer,  *)
(* a marker in the wrong place or a damaged signature block, against files   *)
(* with one and two keys.                                                    *)
EXTENDS PackageVerifier

Text(content) == content \o Marker \o <<0>>
Texts == {Text(c) : c \in {<<>>, <<1>>, <<1, 2, 1, 2>>, Marker \o <<1>>}}

(* Values 500.. are signatures: of the first text of a pair by Alice and by  *)
(* Bob, with either hash, and by a key that is in no file.                   *)
MCSigs ==
  500 :> [id |-> "alice", hash |-> "sha1", text |-> Text(<<1>>)]
  @@ 501 :> [id |-> "alice", hash |-> "sha256", text |-> Text(<<1, 2, 1, 2>>)]
  @@ 502 :> [id |-> "bob", hash |-> "sha256", text |-> Text(Marker \o <<1>>)]
  @@ 503 :> [id |-> "bob", hash |-> "sha256", text |-> Text(<<1>>)]
  @@ 504 :> [id |-> "eve", hash |-> "sha256", text |-> Text(<<1>>)]

Tlv(tag, value) == <<tag, Len(value)>> \o value
LongTlv(tag, value) == <<tag, 129, Len(value)>> \o value

(* A SignedData whose signer's value is octets, with the optional elements.  *)
Block(optional, octets) ==
  LET signer == Tlv(48, Tlv(2, <<1>>) \o Tlv(48, <<>>) \o Tlv(48, <<>>) \o Tlv(48, <<>>) \o octets)
      data == Tlv(2, <<1>>) \o Tlv(49, <<>>) \o Tlv(48, <<>>) \o optional \o Tlv(49, signer)
  IN Tlv(48, Tlv(6, <<7>>) \o LongTlv(160, Tlv(48, data)))

Optionals == {<<>>, Tlv(160, <<9>>), Tlv(160, <<9>>) \o Tlv(161, <<9, 9>>)}
GoodBlocks(s) == {Block(o, Tlv(4, <<s>>)) : o \in Optionals}
MCDers == [s \in DOMAIN MCSigs |-> GoodBlocks(s)]

(* No value, an empty one, a wrong tag, a length past the end, a block cut   *)
(* short, a length of too many cells, none at all.                           *)
Damaged(s) ==
  {Block(<<>>, <<>>), Block(<<>>, <<4, 0>>), Block(<<>>, <<5, 1, s>>), Block(<<>>, <<4, 2, s>>),
   SubSeq(Block(<<>>, Tlv(4, <<s>>)), 1, 9), <<48, 136, 0>>, <<48, 131, 0>>, <<7>>}

MCPads == {<<>>, <<7>>, <<7, 80>>}
MarkedPads == {Marker, <<80>> \o Marker \o <<7>>}

Signed == {SignedPackage(t, p, d) : t \in Texts, p \in MCPads \cup MarkedPads,
                                    d \in UNION {GoodBlocks(s) : s \in DOMAIN MCSigs}}
Broken == {SignedPackage(t, <<>>, d) : t \in Texts, d \in UNION {Damaged(s) : s \in {500, 503}}}
(* The three footer fields of one package, replaced.                         *)
Refooted ==
  LET f == SignedPackage(Text(<<1>>), <<7>>, Block(<<>>, Tlv(4, <<500>>)))
      c == f[Len(f)]
  IN {SubSeq(f, 1, Len(f) - 3) \o <<a, b, e>> : a \in {0, 3, 4, c - 2, c - 1, c, c + 1},
                                               b \in {0, FF}, e \in {c - 1, c, c + 1, c + 9}}
MCPackages == Signed \cup Broken \cup Refooted \cup {<<>>, <<1>>, <<4, FF, 4>>}

Entry(v, id, next) ==
  LET n == IF v = 5 THEN 1 ELSE 2
  IN  [version |-> v, id |-> id, len |-> n, lists |-> <<n, n>>, onCurve |-> TRUE, next |-> next]
MCKeyFiles ==
  {<<Entry(1, "alice", "end")>>, <<Entry(5, "bob", "end")>>, <<Entry(0, "alice", "end")>>, <<>>,
   <<Entry(3, "bob", "comma"), Entry(2, "alice", "end")>>,
   <<Entry(0, "bob", "comma"), Entry(4, "alice", "end")>>,
   <<Entry(2, "alice", "comma")>>, <<Entry(9, "alice", "end")>>, <<Entry(3, "bob", "other")>>,
   <<Entry(4, "bob", "comma"), [Entry(4, "alice", "end") EXCEPT !.lists = <<2, 1>>]>>,
   <<[Entry(4, "bob", "end") EXCEPT !.len = 3, !.lists = <<3, 3>>]>>,
   <<[Entry(5, "bob", "end") EXCEPT !.len = 2, !.lists = <<2, 2>>]>>,
   <<[Entry(5, "bob", "end") EXCEPT !.onCurve = FALSE]>>}
=============================================================================
