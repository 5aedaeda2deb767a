------------------------------- MODULE MCLog -------------------------------
(* Instance of LogDownload, and with it of LogStore, for TLC.              *)
EXTENDS LogDownload
=============================================================================
