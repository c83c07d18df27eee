------------------------------- MODULE MCLiteFS -------------------------------
(* Directories of up to five objects; chunks of three bytes, with one byte *)
(* for the next chunk's place: a file of size 2 gets a chunk too many, one *)
(* of size 3 a last chunk without data.                                    *)
EXTENDS LiteFS, TLC

A == "a"
B == "b"
C == "c"
D == "d"

(* a and d are the names of an odd length. *)
MCNameLength(name) == IF name \in {A, D} THEN 1 ELSE IF name = "base" THEN 4 ELSE 2

MCTrees ==
  {<<>>,
   (* as shipped: every directory with objects below its entries is last   *)
   (<<A>> :> Directory) @@ (<<A, A>> :> Directory) @@ (<<A, A, B>> :> File(4))
     @@ (<<A, B>> :> Directory) @@ (<<A, B, B>> :> File(2)),
   (* a name at every level, and files of every kind of length             *)
   (<<A>> :> Directory) @@ (<<A, A>> :> Directory) @@ (<<A, A, A>> :> File(3))
     @@ (<<B>> :> File(2)) @@ (<<A, B>> :> File(0)),
   (* two directories with the same name under different ones              *)
   (<<A>> :> Directory) @@ (<<A, C>> :> Directory) @@ (<<B>> :> Directory)
     @@ (<<B, C>> :> Directory) @@ (<<B, C, A>> :> File(1)),
   (* objects below the entries of a directory that need not come last     *)
   (<<A>> :> Directory) @@ (<<A, A>> :> Directory) @@ (<<A, A, B>> :> Directory)
     @@ (<<A, A, B, A>> :> File(3)) @@ (<<C>> :> Directory) @@ (<<C, C>> :> File(5)),
   (* two names the reader cannot tell apart                               *)
   (<<A>> :> Directory) @@ (<<D>> :> Directory) @@ (<<A, B>> :> File(1))
     @@ (<<D, C>> :> File(2))}

MCPaths ==
  {<<>>, <<"base">>, <<"other", A>>} \cup
  {<<"base">> \o names : names \in UNION {[1 .. n -> {A, B, C}] : n \in 1 .. 3}} \cup
  {<<"base", D>>, <<"base", D, C>>, <<"base", D, D, C>>, <<"base", A, D>>} \cup
  {<<"base", A, A, B, A>>, <<"base", A, C, B, A>>}
=============================================================================
