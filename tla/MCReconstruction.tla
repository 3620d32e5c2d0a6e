-------------------------- MODULE MCReconstruction --------------------------
\* An instance of Reconstruction for TLC.  On the CAN bus an ECU with a
\* legislated pair of identifiers, one with a normal-fixed pair and one with a
\* manufacturer's own pair; the first and the last hear the same broadcast.
\* What is asked and how far a capture goes comes in topics, the deepest about
\* one identifier.  Over DoIP two ECUs, messages of two cells cut into single
\* cells or threes, and answers whose sequence numbers may wrap.
EXTENDS Reconstruction

MCEcus ==
  {[request |-> 2016, response |-> 2024, broadcasts |-> {2015}],
   [request |-> 416944369, response |-> 417001744, broadcasts |-> {417018865}],
   [request |-> 1810, response |-> 1818, broadcasts |-> {2015}]}

MCTopics ==
  {[requests |-> {<<34, 1>>}, values |-> {4}, pdus |-> 5],
   [requests |-> {<<34, 1>>}, values |-> {4, 5}, pdus |-> 4],
   [requests |-> {<<16, 2>>, <<16, 3>>}, values |-> {4}, pdus |-> 4],
   [requests |-> {<<34, 1>>, <<39, 1>>}, values |-> {4, 5}, pdus |-> 3],
   [requests |-> {<<25, 2>>}, values |-> {4, 5}, pdus |-> 3]}

MCRequests == {<<34, 1>>}

MCFirstSequences ==
  {[request |-> 0, response |-> 0], [request |-> 0, response |-> 29]}
=============================================================================
