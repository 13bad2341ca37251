----------------------------- MODULE MCAdaptive -----------------------------
EXTENDS Adaptive

Space(num_cont, num_bin, max) == [num_cont |-> num_cont, num_bin |-> num_bin, max |-> max]

\* Continuous dimensions alone, with one attribute and with two; one
\* attribute with a natural dimension; two natural dimensions.
MCSpaces ==
    {Space(2, 0, <<>>), Space(2, 1, <<>>), Space(1, 2, <<>>), Space(0, 1, <<2>>), Space(0, 0, <<1, 1>>)}
=============================================================================
