---------------------------- MODULE MCBuildService ----------------------------
(***************************************************************************)
(* BuildService for TLC.  The configurations give the sets as model        *)
(* values.                                                                 *)
(***************************************************************************)
EXTENDS BuildService, TLC

\* What may fail in BuildStreams: engine commands, the build directory, and the
\* process.  What the conditions of its properties name does not.
StreamFaults == {"engine", "disk", "shutdown", "crash"}
=============================================================================
