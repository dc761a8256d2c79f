-------------------------------- MODULE MCModem --------------------------------
(***************************************************************************)
(* Two demodulators are enough for one to win and the other to be late or  *)
(* starved; the CRC 0 is the one the state starts with.  Three heard       *)
(* transmissions and a modulation over three seconds give chains of     *)
(* repetitions, windows that close, and a modulation between two decodes.  *)
(***************************************************************************)
EXTENDS Modem
================================================================================
