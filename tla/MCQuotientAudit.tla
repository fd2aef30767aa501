--------------------------- MODULE MCQuotientAudit ---------------------------
\* Two first states that a cell may alias, a third they lead to and that may
\* lead back; at y both ground actions carry one label.
EXTENDS QuotientAudit

CONSTANTS x, y, z, Done, Failed, left, right

Go(t) == [next |-> t, reward |-> 0, failure |-> FALSE, terminal |-> FALSE]
End(r) == [next |-> Done, reward |-> r, failure |-> FALSE, terminal |-> TRUE]
Fail(r) == [next |-> Failed, reward |-> r, failure |-> TRUE, terminal |-> FALSE]
Two(m, n) == (left :> m) @@ (right :> n)

AtX == {Two(<<Go(z), Go(z)>>, m) : m \in {<<Go(z), Fail(2)>>, <<End(1), End(1)>>}}
       \cup {Two(<<Go(z), Go(y)>>, <<End(1), Go(x)>>)}
AtY == {Two(<<Go(z), Go(z)>>, <<Go(z), Go(x)>>), Two(<<End(1), End(1)>>, <<Go(z), Fail(1)>>),
        (left :> <<Go(z), Go(z)>>)}
AtZ == {Two(<<End(1), End(1)>>, <<End(1), Fail(1)>>), Two(<<Go(x), End(1)>>, <<Fail(2), Fail(2)>>),
        (left :> <<Go(x), End(1)>>), <<>>}

MCKernels ==
    {[s \in {x, y, z} |-> IF s = x THEN kx ELSE IF s = y THEN ky ELSE kz] :
       kx \in AtX, ky \in AtY, kz \in AtZ}

MCInitials == {(x :> 2), (x :> 1) @@ (y :> 1)}

MCLabelOf == [s \in {x, y, z} |-> [a \in {left, right} |-> IF s = y THEN left ELSE a]]

Blocks(all) == [s \in GroundStates |-> CHOOSE b \in all : s \in b]
MCPartitions == {Blocks({{x, y}, {z, Done}, {Failed}}), Blocks({{x, y, z}, {Done}, {Failed}}),
                 Blocks({{x}, {y, z}, {Done}, {Failed}})}
=============================================================================
