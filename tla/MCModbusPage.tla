---------------------------- MODULE MCModbusPage ----------------------------
(* Small instances of ModbusPage. *)
EXTENDS ModbusPage, TLC
=============================================================================
