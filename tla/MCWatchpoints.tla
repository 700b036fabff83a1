--------------------------- MODULE MCWatchpoints ---------------------------
EXTENDS Watchpoints

Reads(a, n) == [kind |-> "read", addr |-> a, size |-> n]
Writes(a, value) == [kind |-> "write", addr |-> a, value |-> value]

\* Bytes, a word through the second window, and a long.
MCAccesses ==
  {Writes(1, << 0 >>), Writes(1, << 1 >>), Writes(4, << 1, 1 >>),
   Writes(0, << 1, 0, 0, 0 >>), Reads(1, 1)}

\* The lower byte of a word, by its address in the second window and in the first;
\* the whole word.
MCProtectInputs ==
  {[addr |-> 5, mode |-> "block", value |-> << 0 >>],
   [addr |-> 1, mode |-> "set", value |-> << 1 >>],
   [addr |-> 0, mode |-> "set", value |-> << 0, 1 >>]}

\* Any access to the byte, and longs anywhere that find something there.
MCWatchInputs ==
  {[NoWatchpoint EXCEPT !.kinds = {"read", "write"}, !.addrs = {1}],
   [NoWatchpoint EXCEPT !.kinds = {"write"}, !.addrs = Address, !.size = 4,
                        !.diff = << 0, 0, 0, 0 >>]}

\* One becomes zero.
MCTrainInputs == {<< << 0, 0, 0, 1 >>, << 0, 0, 0, 0 >> >>}

=============================================================================
