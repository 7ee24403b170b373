----------------------------- MODULE MCDiskLog -----------------------------
(***************************************************************************)
(* Instances of DiskLog: a root and a fork at index 2, each plain and with *)
(* segment headers.                                                        *)
(***************************************************************************)
EXTENDS DiskLog

AllKinds == [headered : BOOLEAN, forkBase : {0, 2}]
=============================================================================
