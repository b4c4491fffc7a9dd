-------------------------------- MODULE Texts --------------------------------
(***************************************************************************)
(* The functions of Go's package strings that the code uses, on sequences  *)
(* of characters or larger pieces of text.                                 *)
(***************************************************************************)
EXTENDS Integers, Sequences, SequencesExt

WhiteSpace == {" ", "\t"}

(* For the one letter that the model has in both cases. *)
ToLower(text) == [i \in DOMAIN text |-> IF text[i] = "B" THEN "b" ELSE text[i]]

TrimSpace(text) ==
    LET inked == {i \in DOMAIN text : text[i] \notin WhiteSpace}
    IN  IF inked = {} THEN <<>> ELSE SubSeq(text, Min(inked), Max(inked))

TrimSuffix(text, piece) == IF IsSuffix(<<piece>>, text) THEN Front(text) ELSE text
TrimPrefix(text, piece) == IF IsPrefix(<<piece>>, text) THEN Tail(text) ELSE text

(* The words between runs of white space. *)
Fields(text) ==
    LET Take(words, i) ==
            IF text[i] \in WhiteSpace THEN words
            ELSE IF i = 1 \/ text[i - 1] \in WhiteSpace THEN Append(words, <<text[i]>>)
            ELSE [words EXCEPT ![Len(words)] = Append(@, text[i])]
    IN  FoldLeft(Take, <<>>, [i \in DOMAIN text |-> i])
=============================================================================
