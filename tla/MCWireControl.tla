---------------------------- MODULE MCWireControl ----------------------------
\* An instance of WireControl for TLC: 1 and 2 are speeds that can be commanded
\* and 3 is one that cannot; adapters that know both, one, or say nothing, and
\* a pseudo-terminal.
EXTENDS WireControl

MCCandidates == <<3, 1>>
MCAdapters ==
  {[offers |-> {1, 2}, identifies |-> TRUE, uart |-> TRUE],
   [offers |-> {1, 2}, identifies |-> FALSE, uart |-> TRUE],
   [offers |-> {1}, identifies |-> TRUE, uart |-> TRUE],
   [offers |-> {}, identifies |-> FALSE, uart |-> FALSE]}
=============================================================================
