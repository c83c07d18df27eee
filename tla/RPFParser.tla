------------------------------ MODULE RPFParser ------------------------------
(***************************************************************************)
(* library/common/rpf-parse.cxx: the configuration file as keys and        *)
(* values.  A key and a value are the places of their characters in the    *)
(* text, counted from 1; the code's prevOffset is offset - 1.              *)
(***************************************************************************)
EXTENDS Integers, Sequences, FiniteSets

CONSTANT Texts   \* the texts read: sequences of "c" (a character of a key or
                 \* a value), "=", "_" (space or tab) and "/" (end of line)

TextsAssumption == Texts \subseteq Seq({"c", "=", "_", "/"})

VARIABLES
  text,       \* data
  at,         \* the part of the loop: "key", "value" or "done"
  offset,     \* prevOffset, counted from 1
  key,        \* tmp.Key, or Null
  elements,   \* elements
  lost,       \* history: keys allocated that nothing refers to
  emptied     \* history: a block of no bytes has been asked for

vars == <<text, at, offset, key, elements, lost, emptied>>

Null == <<>>
Size == Len(text)

(* The first place from n on that is none of the characters, or the one    *)
(* behind the text, whose last look is at the byte behind it.              *)
Past(characters, n) ==
  CHOOSE m \in n .. Size + 1 :
    /\ m = Size + 1 \/ text[m] \notin characters
    /\ \A k \in n .. m - 1 : text[k] \in characters

White == {"_", "/"}
Places(first, behind) == [first |-> first, behind |-> behind]

-----------------------------------------------------------------------------
KeyEnds == {"c", "="}

(* The key runs to the next white space, an equals sign is part of it. *)
ReadKey ==
  /\ at = "key"
  /\ LET first == Past(White, offset)
         behind == Past(KeyEnds, first)
     IN  IF offset > Size \/ first > Size
         THEN at' = "done" /\ UNCHANGED <<offset, key>>
         ELSE /\ key' = Places(first, behind)
              /\ offset' = behind + 1
              /\ at' = IF offset' > Size THEN "done" ELSE "value"
  /\ UNCHANGED <<text, elements, emptied>>
  /\ lost' = IF at' = "done" /\ key' # Null THEN lost \cup {key'} ELSE lost

HasValue == Past(White, offset) <= Size

(* White space, which may be the end of the line, one equals sign at most, *)
(* and white space again.                                                  *)
ValueStart ==
  LET first == Past(White, offset)
  IN  IF first <= Size /\ text[first] = "=" THEN Past(White, first + 1) ELSE first

(* The key is left behind. *)
MissValue ==
  /\ at = "value" /\ ~HasValue
  /\ at' = "done" /\ lost' = lost \cup {key}
  /\ UNCHANGED <<text, offset, key, elements, emptied>>

(* A value that ends at a blank. *)
ValueEnds_Mutant == {"c", "="}
ValueEnds == {"c", "=", "_"}

(* A value that would start behind the text is not refused: the test is    *)
(* > where the two before it are >=.                                       *)
ReadValue ==
  /\ at = "value" /\ HasValue
  /\ LET value == Places(ValueStart, Past(ValueEnds, ValueStart))
     IN  /\ elements' = Append(elements, [key |-> key, value |-> value])
         /\ emptied' = (emptied \/ value.first = value.behind)
         /\ offset' = value.behind + 1
  /\ key' = Null /\ at' = "key"
  /\ UNCHANGED <<text, lost>>

Init ==
  /\ text \in Texts
  /\ at = "key" /\ offset = 1 /\ key = Null
  /\ elements = <<>> /\ lost = {} /\ emptied = FALSE

Next == ReadKey \/ MissValue \/ ReadValue

Spec == Init /\ [][Next]_vars

-----------------------------------------------------------------------------
TypeOK ==
  /\ text \in Texts /\ at \in {"key", "value", "done"} /\ offset \in 1 .. Size + 2
  /\ emptied \in BOOLEAN /\ Cardinality(lost) <= 1
  /\ \A n \in DOMAIN elements :
       /\ elements[n].key.first < elements[n].key.behind
       /\ elements[n].value.first <= elements[n].value.behind
       /\ elements[n].value.behind <= Size + 1

(* The lines of the text, and how rpf-parser.hxx's templates read them:    *)
(* KEY = VALUE or KEY VALUE, in which a key has no equals sign and a value *)
(* does not begin with one.                                                *)
IsLine(first, behind) ==
  /\ \A n \in first .. behind - 1 : text[n] # "/"
  /\ first = 1 \/ text[first - 1] = "/"
  /\ behind = Size + 1 \/ text[behind] = "/"
Lines == {line \in [first : 1 .. Size, behind : 1 .. Size + 1] :
            line.first < line.behind /\ IsLine(line.first, line.behind)}

Reads(line, element) ==
  LET behind  == element.key.behind
      start   == element.value.first
      between == behind .. start - 1
  IN  /\ element.key.first = line.first /\ element.value.behind = line.behind
      /\ line.first < behind /\ behind < start /\ start < line.behind
      /\ \A n \in line.first .. behind - 1 : text[n] = "c"
      /\ text[behind] = "_" /\ text[start] = "c"
      /\ \A n \in between : text[n] \in {"_", "="}
      /\ Cardinality({n \in between : text[n] = "="}) <= 1

Follows(line) == \E behind, start \in line.first .. line.behind - 1 :
  Reads(line, [key   |-> Places(line.first, behind),
               value |-> Places(start, line.behind)])

(* A file of lines that follow the templates is read as those lines, in    *)
(* their order (two separate skips of white space and one of the equals    *)
(* sign between them).                                                     *)
TemplatesAreRead ==
  at = "done" /\ (\A line \in Lines : Follows(line)) =>
    /\ Cardinality(Lines) = Len(elements) /\ lost = {}
    /\ \A n \in DOMAIN elements :
         /\ \E line \in Lines : Reads(line, elements[n])
         /\ n > 1 => elements[n - 1].value.behind < elements[n].key.first

(* A value is taken from a later line only for a key with nothing but      *)
(* blanks and an equals sign behind it in its own: KEY=VALUE, which has no *)
(* blank, is a key like that, and its neighbour is lost.                   *)
SwallowsForBareKeys == \A n \in DOMAIN elements :
  LET between == elements[n].key.behind .. elements[n].value.first - 1
  IN  (\E m \in between : text[m] = "/") =>
        LET end == CHOOSE m \in between :
                     /\ text[m] = "/"
                     /\ \A k \in elements[n].key.behind .. m - 1 : text[k] # "/"
        IN  \A k \in elements[n].key.behind .. end - 1 : text[k] \in {"_", "="}

(* A block of no bytes, for which VMM::AllocateVirtualMemory marks a page  *)
(* of a table it never looked up, is asked for exactly when the text ends  *)
(* behind the equals sign of a key without a value.                        *)
EmptiedByEquals == at = "done" =>
  (emptied <=> \E n \in 3 .. Size :
     /\ text[n] = "="
     /\ \A m \in n + 1 .. Size : text[m] \in White
     /\ \E e \in DOMAIN elements :
          /\ elements[e].key.behind < n
          /\ \A m \in elements[e].key.behind .. n - 1 : text[m] \in White)

=============================================================================
