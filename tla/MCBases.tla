------------------------------ MODULE MCBases ------------------------------
EXTENDS Bases

Hunk(section, base, size) == [section |-> section, base |-> base, size |-> size]

\* A hunk of text, one of data below it, and one of text whose size is not known.
MCHunkInputs ==
  {Hunk("text", 4, 3), Hunk("data", 1, 3), Hunk("text", 8, Unsized)}

=============================================================================
