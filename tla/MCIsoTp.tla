------------------------------- MODULE MCIsoTp -------------------------------
\* An instance of IsoTpLink for TLC.
EXTENDS IsoTpLink

CONSTANT MCMessages
MCIds == 0 .. MCMessages
=============================================================================
