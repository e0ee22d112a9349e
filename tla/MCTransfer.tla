----------------------------- MODULE MCTransfer -----------------------------
(* An instance of TransferBytes for TLC: small files over two letters.     *)
EXTENDS TransferBytes

Text(s) == [len |-> Len(s),
            byte |-> [o \in Offsets |-> IF o < Len(s) THEN s[o + 1] ELSE Zero]]

\* Chunks of two bytes: no chunk, or two, of which the last is short and the first may be
\* what set_len fills in.  The beginning of one content and the rest of the other make
\* an image of their length that is neither.  At the target there is no file yet, or
\* one that has some of the chunks.
SourceContents == {Text(s) : s \in {<<>>, <<0, 0, 1>>, <<1, 0, 0>>}}
TargetContents == {Text(s) : s \in {<<>>, <<0, 0, 1>>}}

\* Each event once, and three of them in a behaviour.
AnyThreeEvents == [[e \in Events |-> 1] EXCEPT !["all"] = 3]
=============================================================================
