------------------------------- MODULE MCTransmit ------------------------------
(***************************************************************************)
(* The sizes of the program at 48 kHz with the default preamble.  A short  *)
(* frame (20 bytes) takes a few periods, a long one (255 bytes) overflows  *)
(* the modulator's buffer, two long ones overflow the ring.                *)
(***************************************************************************)
EXTENDS Transmit

MCFrameBytes == {20, 255}
================================================================================
