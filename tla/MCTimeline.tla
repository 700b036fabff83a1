----------------------------- MODULE MCTimeline -----------------------------
EXTENDS Timeline

\* States of two blocks, the last one late in its frame.
MCStates == {<< 0, 0 >>, << 0, 1 >>, << 1, 1 >>}
MCLate == {<< 1, 1 >>}

MCTwoStates == {<< 0, 0 >>, << 1, 1 >>}
MCTwoLate == {<< 1, 1 >>}

MCNone == {}

=============================================================================
