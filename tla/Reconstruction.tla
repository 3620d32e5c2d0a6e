--------------------------- MODULE Reconstruction ---------------------------
(***************************************************************************)
(* Reconstructing a vehicle: a capture is a log of a CAN bus or packets of *)
(* an Ethernet, by its first bytes, and goes to the reader of its kind.    *)
(***************************************************************************)
EXTENDS CanCapture, DoIpCapture

VARIABLE kind

IsEthernetCapture == kind = "ethernet"

\* What is chosen for the other kind of capture is of no matter.
CaptureInit ==
  /\ kind \in {"can", "ethernet"}
  /\ CanInit
  /\ EthInit
  /\ IF IsEthernetCapture THEN topic = CHOOSE t \in Topics : TRUE
                          ELSE first = CHOOSE f \in FirstSequences : TRUE

CanStep == ~IsEthernetCapture /\ CanNext /\ UNCHANGED <<kind, ethVars>>
EthStep == IsEthernetCapture /\ EthNext /\ UNCHANGED <<kind, canVars>>

CaptureNext == CanStep \/ EthStep

CaptureSpec == CaptureInit /\ [][CaptureNext]_<<kind, canVars, ethVars>>

=============================================================================
