------------------------------ MODULE Typedefs ------------------------------
(***************************************************************************)
(* The 32-bit helpers of library/common/typedefs.cxx.  A size_t holds the  *)
(* values 0 .. Word-1 and every computation on it is taken modulo Word.    *)
(***************************************************************************)
EXTENDS Integers

CONSTANT Word     \* 2^32 in the kernel, a small number in the model runs

ASSUME WordAssumption == Word \in Nat \ {0}

SizeT == 0 .. Word - 1

(* A value that is aligned already still moves up by a whole unit. *)
AlignUp(value, alignment) == (value - (value % alignment) + alignment) % Word

(* A value that is aligned already still moves down by a whole unit. *)
AlignDown(value, alignment) ==
  LET base == value - (value % alignment)
  IN  IF base < alignment THEN 0 ELSE base - alignment
=============================================================================
