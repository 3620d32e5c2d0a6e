----------------------------- MODULE MCSlcanLine -----------------------------
\* An instance of SlcanLine for TLC: a data frame and an extended remote
\* frame, followed by the time, and noise that looks
\* like lines, shorter and longer than a line may be.
EXTENDS SlcanLine

MCCharacters ==
  ToSet(HexDigits) \cup {"t", "T", "r", "R", "z", "CR", "BEL", "+"}
Extended == <<1, 8, 13, 10, 15, 1, 15, 10>>
MCFrames ==
  {[extended |-> FALSE, remote |-> FALSE, id |-> <<7, 14, 8>>, data |-> <<3, 14>>,
    remoteLength |-> 0],
   [extended |-> TRUE, remote |-> TRUE, id |-> Extended, data |-> <<>>, remoteLength |-> 2]}
MCTimes == {<<"0", "1", "F", "4">>}
MCNoise ==
  {<<"t", "+", "1">>, [k \in 1 .. MaxLine + 6 |-> IF k % 5 = 1 THEN "t" ELSE "0"]}
=============================================================================
