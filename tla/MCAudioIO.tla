-------------------------------- MODULE MCAudioIO ------------------------------
(***************************************************************************)
(* A chunk is 2400 samples: two of them fit the caller's buffer of 4800,   *)
(* about six the device's buffer of four periods of 4096.                  *)
(***************************************************************************)
EXTENDS AudioIO
================================================================================
