---------------------------- MODULE MCSnapshots ----------------------------
EXTENDS Snapshots

MCStates == {<< 0, 0 >>, << 0, 1 >>}

=============================================================================
