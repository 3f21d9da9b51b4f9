--------------------------- MODULE MCFileTransfer ---------------------------
(* Three uploads, the first two of them within one minute; the last one is  *)
(* that of the retry of the first one's group.                              *)
EXTENDS FileTransfer

Names == <<"capture_1.zip", "capture_1.zip", "capture_2.zip">>
Sizes == <<2, 2, 1>>
Paths == <<"group1.zip", "group2.zip", "group1.zip">>
=============================================================================
