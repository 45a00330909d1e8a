---------------------------- MODULE TextEdits ----------------------------
(***************************************************************************)
(* How an operation of a Transaction reaches the text.  The editor names a *)
(* place by line and column, counted in characters; yrs is addressed by    *)
(* UTF-8 bytes.  A text is the sequence of its bytes, each one             *)
(* <<character, index>>; yrs, from its use, inserts and removes bytes.     *)
(*                                                                         *)
(* `shown` is what the operations mean: the sequence of characters.  The   *)
(* documented meaning of a position is ropey's line_to_char(line) + col,   *)
(* clamped to the end: a column beyond its line goes on into the next one. *)
(***************************************************************************)
EXTENDS Naturals, Sequences, FiniteSets, SequencesExt

CONSTANTS
  Characters,  \* the characters of the instance
  Newline,     \* the one that ends a line
  Width,       \* the UTF-8 bytes of each
  MaxBytes,    \* bound on the bytes of a text
  MaxRun       \* bound on the characters of an operation

ASSUME ConstantsAssumption ==
  /\ Newline \in Characters
  /\ Width \in [Characters -> 1..4]
  /\ {MaxBytes, MaxRun} \subseteq Nat

VARIABLES
  text,  \* the bytes of the buffer
  shown  \* history: the characters the editor means to be there

vars == <<text, shown>>

Bytes(character) == [i \in 1..Width[character] |-> <<character, i>>]
Encoded(characters) == FlattenSeq([i \in DOMAIN characters |-> Bytes(characters[i])])

\* The offsets at which a character begins, and the end.
Boundaries(bytes) == {b \in 0..Len(bytes) : b = Len(bytes) \/ bytes[b + 1][2] = 1}

line_start_byte(bytes, line) ==
  LET ends == {e \in 1..Len(bytes) : bytes[e] = <<Newline, 1>>}
  IN IF line = 0 THEN 0
     ELSE IF Cardinality(ends) < line THEN Len(bytes)
     ELSE CHOOSE e \in ends : Cardinality({f \in ends : f <= e}) = line

\* The offset `count` characters further on, or the end.
Advanced(bytes, start, count) ==
  CHOOSE b \in Boundaries(bytes) :
    LET passed == Cardinality({c \in Boundaries(bytes) : start < c /\ c <= b})
    IN start <= b /\ (passed = count \/ (passed < count /\ b = Len(bytes)))

\* Faulty: the column is taken for a number of bytes.
line_col_to_byte_unscaled(bytes, position) ==
  LET byte == line_start_byte(bytes, position.line) + position.col
  IN IF byte < Len(bytes) THEN byte ELSE Len(bytes)

line_col_to_byte(bytes, position) ==
  Advanced(bytes, line_start_byte(bytes, position.line), position.col)

byte_span(bytes, position, length) ==
  LET start == line_col_to_byte(bytes, position)
  IN [offset |-> start, length |-> Advanced(bytes, start, length) - start]

\* What yrs does with an offset in bytes: `length` bytes give way to the new ones.
Spliced(bytes, offset, length, new) ==
  SubSeq(bytes, 1, offset) \o new \o SubSeq(bytes, offset + length + 1, Len(bytes))

insert_char(bytes, position, character) ==
  Spliced(bytes, line_col_to_byte(bytes, position), 0, Bytes(character))

insert_text(bytes, position, characters) ==
  Spliced(bytes, line_col_to_byte(bytes, position), 0, Encoded(characters))

\* delete_range, and delete_char with a length of 1.
delete_range(bytes, position, length) ==
  LET span == byte_span(bytes, position, length)
  IN Spliced(bytes, span.offset, span.length, << >>)

delete_char(bytes, position) == delete_range(bytes, position, 1)

apply_insert(bytes, position, content) ==
  CASE Len(content) = 0 -> bytes
    [] Len(content) = 1 -> insert_char(bytes, position, content[1])
    [] OTHER            -> insert_text(bytes, position, content)

apply_delete(bytes, position, length) ==
  CASE length = 0 -> bytes
    [] length = 1 -> delete_char(bytes, position)
    [] OTHER      -> delete_range(bytes, position, length)

-----------------------------------------------------------------------------
(* What the operations mean, on characters. *)

\* The character at which a position is.
At(characters, position) ==
  LET ends  == {e \in DOMAIN characters : characters[e] = Newline}
      start == IF Cardinality(ends) < position.line THEN Len(characters)
               ELSE Cardinality({i \in DOMAIN characters :
                      Cardinality({e \in ends : e < i}) < position.line})
  IN IF start + position.col < Len(characters) THEN start + position.col
                                               ELSE Len(characters)

\* `length` characters, or those that are left, give way to the new ones.
Replaced(characters, position, length, new) ==
  LET at == At(characters, position)
  IN SubSeq(characters, 1, at) \o new \o SubSeq(characters, at + length + 1, Len(characters))

-----------------------------------------------------------------------------
(* One operation each.  A transaction is several of them, every one         *)
(* resolved against the text as the one before it left it.                 *)

Positions == [line : 0..MaxBytes, col : 0..MaxBytes]
Runs == UNION {[1..n -> Characters] : n \in 0..MaxRun}
Lengths == 0..(MaxRun + 1)

Meant(position, length, new) == shown' = Replaced(shown, position, length, new)

Insert ==
  \E position \in Positions, content \in Runs :
    /\ Len(text) + Len(Encoded(content)) <= MaxBytes
    /\ text' = apply_insert(text, position, content)
    /\ Meant(position, 0, content)

Delete ==
  \E position \in Positions, length \in Lengths :
    /\ text' = apply_delete(text, position, length)
    /\ Meant(position, length, << >>)

\* The run is deleted, then the position is resolved again for the insertion.
Swap ==
  \E position \in Positions, length \in Lengths, content \in Runs :
    /\ Len(text) + Len(Encoded(content)) <= MaxBytes
    /\ text' = apply_insert(apply_delete(text, position, length), position, content)
    /\ Meant(position, length, content)

Init == text = << >> /\ shown = << >>

Next == Insert \/ Delete \/ Swap

Spec == Init /\ [][Next]_vars

-----------------------------------------------------------------------------
(* Properties *)

\* However lines, columns and lengths lie to the text, past the end of a line
\* or of the text included, the bytes are those of the characters the
\* operations mean: no character is ever cut in two, a swap puts its run where
\* the old one was, and no position is off by the width of a character.
EditsByCharacter == text = Encoded(shown)
==========================================================================
