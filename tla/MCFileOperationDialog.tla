----------------------- MODULE MCFileOperationDialog -----------------------
(* The operation with its real client.                                     *)
EXTENDS FileOperationDialog
=============================================================================
