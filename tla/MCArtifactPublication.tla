------------------------- MODULE MCArtifactPublication -------------------------
(* Instances of ArtifactPublication for TLC.                               *)
EXTENDS ArtifactPublication

CONSTANTS scan1, scan2, report1, catalogue, tracked, analysis, bundle, trace1

TwoScans  == {scan1, scan2}
OneReport == {report1}

MCCalls  == Scans \cup Reports
MCPaths  == Traces \cup {catalogue, tracked, analysis, bundle}
MCPlans  == {}
OneTrace == {trace1}

AllFaults == {"rename", "abort", "crash"}

(* Of commands that overlap, two scans that nobody interrupts; of those    *)
(* one after the other, the renames do not fail.                            *)
FaultBound ==
  /\ ~serial => (\A c \in Reports : ~Started(c)) /\ (\A c \in Calls : ~aborted[c])
  /\ serial => \A c \in Calls : error[c] # "io"

ScanSymmetry == Permutations(Scans)
=============================================================================
