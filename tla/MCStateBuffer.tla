--------------------------- MODULE MCStateBuffer ---------------------------
EXTENDS HistoryRefinement

\* States of two blocks.
MCStates == {<< 0, 0 >>, << 0, 1 >>, << 1, 1 >>}

MCTwoStates == {<< 0, 0 >>, << 0, 1 >>}

=============================================================================
