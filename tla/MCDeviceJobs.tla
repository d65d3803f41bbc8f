--------------------------- MODULE MCDeviceJobs ---------------------------
(* Two devices; a call is about the first of them or about both. *)
EXTENDS DeviceJobs

CONSTANTS d1, d2

MCLists == {<<d1>>, <<d1, d2>>}
=============================================================================
