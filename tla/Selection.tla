------------------------------ MODULE Selection ------------------------------
(* The elements of a sequence, and the sequence of those that are wanted: the *)
(* bus takes snapshots of its subscriptions, the textures retain callbacks.   *)
EXTENDS Naturals, Sequences

Elements(seq) == {seq[i] : i \in DOMAIN seq}

\* The elements of seq that are in S, in their order.
Only(seq, S) ==
    LET picked[i \in 0..Len(seq)] ==
            IF i = 0 THEN <<>>
            ELSE IF seq[i] \in S THEN Append(picked[i - 1], seq[i]) ELSE picked[i - 1]
    IN  picked[Len(seq)]
=============================================================================
