--------------------------- MODULE MCRemoteDownload ---------------------------
(* Small instances of RemoteDownload. *)
EXTENDS RemoteDownload, TLC

CONSTANTS d1, d2
==============================================================================
