------------------------------ MODULE MCDebug ------------------------------
(* Small programs for DebugHost. *)
EXTENDS DebugHost

\* A loop of two lines, 10 and 11, that calls a function of two lines, and an
\* interrupt handler of one line.
MCOp == << "plain", "call", "plain", "plain", "ret", "plain", "rte" >>

MCLine == << 10, 10, 11, 20, 21, 30, 30 >>

MCFollows == << {2}, {3}, {1}, {5}, {}, {7}, {} >>

MCCallee == << 1, 4, 1, 1, 1, 1, 1 >>

\* The same loop; the function may call itself, and has three lines more.
RecOp == << "plain", "call", "plain", "plain", "call", "plain", "plain", "ret" >>

RecLine == << 10, 10, 11, 20, 20, 21, 22, 23 >>

RecFollows == << {2}, {3}, {1}, {5, 6}, {6}, {7}, {8}, {} >>

RecCallee == << 1, 4, 1, 1, 4, 1, 1, 1 >>
=============================================================================
