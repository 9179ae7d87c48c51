---------------------------- MODULE MCSerialPort ----------------------------
(* A small instance of SerialPort. *)
EXTENDS SerialPort
=============================================================================
