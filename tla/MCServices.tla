----------------------------- MODULE MCServices -----------------------------
(* Twenty frames, four of them the path's.  When others keep two, a file   *)
(* fits in but may have to be put around a hole; when they keep ten, any   *)
(* block and any page is refused before long.  Four blocks forgotten are a *)
(* file read: two look-ups, of a partition and a name each; or a ".." and  *)
(* an object looked up.  Two commands, so that what one has left behind    *)
(* is in the way of the next.                                              *)
(* Up to five names, any of them empty, from the root or from a directory. *)
(* Six elements are twice CountAllocate + 1.  Eight bytes: room for blocks *)
(* of each width, for units that overlap and for two blocks beside each    *)
(* other.                                                                  *)
EXTENDS Services, SequencesExt

MCElsewhere == {{8, 13}, 11 .. 20}

Component == {<<>>, <<".">>, <<".", ".">>, <<"a">>, <<"b", "c">>}
Join(names) == FoldLeft(LAMBDA s, n : s \o <<"/">> \o n, Head(names), Tail(names))

MCRawPaths == {Join(names) : names \in UNION {[1 .. n -> Component] : n \in 1 .. 5}}
MCCurrentPaths == {<<"/", "a">>, <<"/", "a", "/", "b">>}
=============================================================================
