-------------------------------- MODULE MCPds -------------------------------
(* Instances of Pds for TLC.  The value 2 of "ramp" is a ramp rate that is *)
(* not the bit pattern 0 or 1, as every usual floating-point number.       *)
EXTENDS Pds

AllSettings == {<<"slot", 1>>, <<"ramp", 2>>, <<"therm", 0>>}
RampOnly    == {<<"ramp", 2>>}
NoSettings  == {}
=============================================================================
