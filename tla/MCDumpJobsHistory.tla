------------------------- MODULE MCDumpJobsHistory -------------------------
(***************************************************************************)
(* Instances of DumpJobsHistory, with the constants of MCDumpJobs.         *)
(***************************************************************************)
EXTENDS DumpJobsHistory, MCDumpJobs
=============================================================================
