----------------------------- MODULE MCPackageLocks -----------------------------
(* The package's operations on the goroutines of LockOrder, for TLC.        *)
EXTENDS PackageLocks, LockOrder

AllOperations == DOMAIN PackageScript
AllScripts == PackageScript
AllMutexes == PackageMutexes
AllVariables == PackageVariables

PackageGuard ==
    [v \in PackageVariables |->
        IF v \in Unguarded THEN Nobody
        ELSE CHOOSE l \in PackageMutexes : v \in Protects[l]]

\* A visit to the page, next to operations of a running server.
PageOperations == {"handleAdmin", "PollLogs", "cloudForceCF", "queryUpstream"}
PageScripts == [o \in PageOperations |-> PackageScript[o]]
=============================================================================
