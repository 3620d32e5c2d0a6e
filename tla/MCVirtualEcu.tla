---------------------------- MODULE MCVirtualEcu ----------------------------
(* One ECU with two security levels, two sessions it supports and one it
   does not, block counters that wrap after three, and an operator with one
   override of every kind that matters to a state change.                  *)
EXTENDS VirtualEcu, TLC

MCLevel == {1, 3}
MCSession == 1 .. 3
MCSupportedSession == {1, 3}

(* Every service is declared but the reads, the one nothing implements too.*)
MCDeclared == Service \ {"ReadData"}

(* The default session allows no transfers, the extended one no reads.     *)
MCSessionServices ==
    [s \in MCSupportedSession |->
        IF s = 1 THEN Service \ {"RequestTransfer", "TransferData"}
        ELSE Service \ {"ReadData", "RoutineControl"}]

(* The key of the first level is known, refused, or the level is gone.     *)
MCLevelTables ==
    {(1 :> "Compare" @@ 3 :> "AcceptAny"), (1 :> "RefuseWith" @@ 3 :> "Absent")}

Prompt == [late |-> FALSE, forced |-> FALSE, enhanced |-> TRUE, dropped |-> FALSE]

MCTimings ==
    {[Prompt EXCEPT !.late = TRUE], [Prompt EXCEPT !.dropped = TRUE],
     [Prompt EXCEPT !.forced = TRUE, !.enhanced = FALSE]}

(* For every other service an override is as good as none.                 *)
MCRules ==
    [service: {"SessionControl", "Reset", "SecurityAccess"},
     suppress: {FALSE}, says: {"0x22"}, evenIfSuppressed: {FALSE}]
    \cup [service: {"SessionControl"}, suppress: {TRUE},
          says: {"0x22"}, evenIfSuppressed: {TRUE}]
=============================================================================
