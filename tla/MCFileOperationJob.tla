------------------------- MODULE MCFileOperationJob -------------------------
(* FileOperationJob under a client that calls it in every legal order.      *)
EXTENDS FileOperationJob
=============================================================================
