---------------------------- MODULE SensorReading ----------------------------
(***************************************************************************)
(* What the sink makes of a sensor's message (src/app/app_process.c): the  *)
(* temperature and the humidity, in thousandths, that it reads from the    *)
(* first eight bytes and prints with three decimals.                       *)
(***************************************************************************)
EXTENDS ByteUtilities, Integers

FetchLowHighInt32u(contents) == FetchInt32u(TRUE, contents)
FourBytes(payload, offset) ==
  <<payload[offset + 1], payload[offset + 2], payload[offset + 3], payload[offset + 4]>>

INT32_MAX == 2147483647

(* The cast of a uint32_t to int32_t.                                      *)
Signed(value) == IF value <= INT32_MAX THEN value ELSE value - 4294967296

(* abs() and the division of C, which goes towards zero.  abs(INT32_MIN)   *)
(* is undefined.                                                           *)
Abs(value) == IF value < 0 THEN 0 - value ELSE value
Divide(a, b) == IF a < 0 THEN 0 - ((0 - a) \div b) ELSE a \div b

Temperature(payload) ==
  LET temperature == Signed(FetchLowHighInt32u(FourBytes(payload, 0)))
  IN  [negative |-> temperature < 0,
       decimal  |-> Abs(temperature) - (Abs(temperature) \div 1000) * 1000,
       whole    |-> Abs(Divide(temperature, 1000))]

Humidity(payload) ==
  LET humidity == FetchLowHighInt32u(FourBytes(payload, 4))
  IN  [decimal |-> humidity - (humidity \div 1000) * 1000,
       whole   |-> humidity \div 1000]

(* How a sensor puts an int32_t into the message.                          *)
Unsigned(value) == IF value < 0 THEN value + 4294967296 ELSE value
=============================================================================
