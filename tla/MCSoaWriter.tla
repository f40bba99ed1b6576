------------------------------ MODULE MCSoaWriter ------------------------------
(* Small schemas for SoaWriter, each with chunks that fit and that do not. *)
EXTENDS SoaWriter

\* A node without its column, and the columns it may have.
N(kind, nullable, up) ==
    [kind |-> kind, nullable |-> nullable, up |-> up,
     size |-> 0, supply |-> "plain", mask |-> <<>>, lens |-> <<>>]
Of(node, size) ==
    [node EXCEPT !.size = size,
                 !.lens = IF node.kind \in {"string", "large"} THEN [i \in 1 .. size |-> 4 - i]
                          ELSE <<>>]
Masked(node, size, mask) == [Of(node, size) EXCEPT !.supply = "mask", !.mask = mask]
Bits(node, size, mask) == [Of(node, size) EXCEPT !.supply = "bits", !.mask = mask]

Masks == {<<TRUE, FALSE>>, <<FALSE, TRUE>>, <<TRUE>>, <<>>, <<FALSE, TRUE, TRUE>>}

\* A required number and a nullable string.
Flat ==
    LET x == N("fixed", FALSE, 0)
        s == N("string", TRUE, 0)
    IN {<<Of(x, 2), Masked(s, n, m)>> : n \in {1, 2}, m \in Masks}
       \cup {<<Of(x, 2), Bits(s, 2, m)>> : m \in {<<>>, <<FALSE, TRUE>>}}
       \cup {<<Of(x, 0), Masked(s, 0, <<>>)>>}
\* A string in a nullable group in a required one, after a large one.  Eight bools fit
\* the byte that two rows take, the ninth does not.
Nested ==
    LET x == N("large", FALSE, 0)
        g == N("group", FALSE, 0)
        h == N("group", TRUE, 2)
        s == N("string", TRUE, 3)
        b == N("bool", FALSE, 2)
    IN {<<Of(x, 2), g, Masked(h, 0, m), Masked(s, 2, v), Of(b, 2)>> :
          m \in Masks, v \in {<<TRUE, TRUE>>, <<FALSE, TRUE>>}}
       \cup {<<Of(x, 2), g, Bits(h, 0, m), Masked(s, 2, <<TRUE, FALSE>>), Of(b, n)>> :
               m \in {<<>>, <<FALSE, TRUE>>}, n \in {1, 2, 3, 8, 9}}
\* The first leaf is inside a group.
Inner ==
    LET g == N("group", TRUE, 0)
        b == N("bool", TRUE, 1)
        s == N("string", FALSE, 0)
    IN {<<Masked(g, 0, m), Masked(b, 2, <<TRUE, FALSE>>), Of(s, n)>> :
          m \in Masks, n \in {2, 3}}

MCPrograms == {Flat, Nested, Inner}
==============================================================================
