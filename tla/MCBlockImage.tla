---------------------------- MODULE MCBlockImage ----------------------------
(***************************************************************************)
(* Instances of BlockImage.  Contents are written as strings, a stash id   *)
(* is the sequence of the contents it names.                               *)
(***************************************************************************)
EXTENDS BlockImage

Cmd(op, id, src, want, use, tgt, out) ==
  [op |-> op, id |-> id, src |-> src, want |-> want, use |-> use, tgt |-> tgt, out |-> out]
Move(id, src, want, use, tgt, out) == Cmd("move", id, src, want, use, tgt, out)
Diff(id, src, want, use, tgt, out) == Cmd("diff", id, src, want, use, tgt, out)
Stash(id, src)                     == Cmd("stash", id, src, <<>>, {}, <<>>, <<>>)
Free(id)                           == Cmd("free", id, <<>>, <<>>, {}, <<>>, <<>>)
Zero(tgt, out)                     == Cmd("zero", NoId, <<>>, <<>>, {}, tgt, out)
New(tgt, out)                      == Cmd("new", NoId, <<>>, <<>>, {}, tgt, out)
Erase(tgt)                         == Cmd("erase", NoId, <<>>, <<>>, {}, tgt, <<>>)

MCData == {"a", "b", "c", "d", "e", "f", "A", "B", "N", "0", "?"}

Call(fn, p) == [fn |-> fn, part |-> p]

(* Two partitions, first both dry runs and then both updates, as the        *)
(* scripts of incremental packages do.  The list of system has an explicit  *)
(* stash, an overlapping move, a diff that uses the stash, and ends with    *)
(* zero, new, and the erasure of what the image does not need; the list of  *)
(* vendor stashes the same content twice, from two blocks.                  *)
TwoParts == {"system", "vendor"}
TwoBlocks == 1..10
TwoSource == [b \in TwoBlocks |-> <<"a", "b", "c", "d", "d", "c", "c", "e", "f", "e">>[b]]
TwoTarget == [b \in TwoBlocks \ {7} |-> <<"b", "c", "A", "0", "N", "B", "?", "A", "e", "f">>[b]]
TwoIds == {<<"a">>, <<"b", "c">>, <<"d", "a">>, <<"e">>, <<"f">>, <<"f", "e">>}
TwoContent == [id \in TwoIds |-> id]
TwoLists ==
  [p \in TwoParts |->
     IF p = "system"
     THEN << Stash(<<"a">>, <<1>>),
             Move(<<"b", "c">>, <<2, 3>>, <<"b", "c">>, {}, <<1, 2>>, <<"b", "c">>),
             Diff(<<"d", "a">>, <<4>>, <<"d">>, {<<"a">>}, <<3>>, <<"A">>),
             Free(<<"a">>),
             Zero(<<4>>, <<"0">>),
             New(<<5, 6>>, <<"N", "B">>),
             Erase(<<7>>) >>
     ELSE << Stash(<<"e">>, <<8>>),
             Diff(<<"f", "e">>, <<9>>, <<"f">>, {<<"e">>}, <<8>>, <<"A">>),
             Free(<<"e">>),
             Stash(<<"e">>, <<10>>),
             Move(<<"f">>, <<9>>, <<"f">>, {}, <<10>>, <<"f">>),
             Move(<<"e">>, <<>>, <<>>, {<<"e">>}, <<9>>, <<"e">>),
             Free(<<"e">>) >>]
TwoNew == [p \in TwoParts |-> IF p = "system" THEN <<"N", "B">> ELSE <<>>]
TwoScript ==
  << Call("verify", "system"), Call("verify", "vendor"),
     Call("update", "system"), Call("update", "vendor") >>

(* The theorems apply to this package.                                      *)
ASSUME TwoIsRight ==
  Lists = TwoLists => RightLists /\ RightImage /\ RightSources /\ RightStash

(* One partition whose list writes new data before an overlapping move.     *)
OnePart == {"system"}
OneScript == << Call("verify", "system"), Call("update", "system") >>
NewBlocks == 1..4
NewSource == [b \in NewBlocks |-> <<"a", "b", "c", "d">>[b]]
NewTarget == [b \in NewBlocks |-> <<"N", "c", "b", "B">>[b]]
NewIds == {<<"b", "c">>}
NewContent == [id \in NewIds |-> id]
NewLists ==
  [p \in OnePart |->
     << New(<<1>>, <<"N">>),
        Diff(<<"b", "c">>, <<2, 3>>, <<"b", "c">>, {}, <<2, 3>>, <<"c", "b">>),
        New(<<4>>, <<"B">>) >>]
NewNew == [p \in OnePart |-> <<"N", "B">>]
=============================================================================
