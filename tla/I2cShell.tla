------------------------------ MODULE I2cShell ------------------------------
(***************************************************************************)
(* The I2C shell demo (app/demos/i2c_shell/src/main.c): the shell command  *)
(* read_temperature reads two bytes from a P3T1755 sensor and turns them   *)
(* into degrees. The register holds the temperature in sixteenths of a     *)
(* degree as a signed number of 12 bits, left-aligned; the rest is 0.      *)
(***************************************************************************)
EXTENDS Integers

CONSTANT TEMPERATURES    \* temperatures to try, in sixteenths of a degree

ASSUME SensorAssumption == TEMPERATURES \subseteq -2048..2047

VARIABLES
    measured,    \* what the sensor measured
    shown        \* the last temperature the command showed

i2cVars == <<measured, shown>>

I2cInit == measured = 0 /\ shown = 0

\* The sensor's register as the two bytes that are read, the first one higher.
Register12(t) ==
    LET r == ((t + 4096) % 4096) * 16 IN <<r \div 256, r % 256>>

\* mutant: the register is taken for an unsigned number
temperatureUnsigned(b) == (b[1] * 256 + b[2]) \div 16

\* (int16_t)(b0 << 8 | b1) >> 4: two's complement, then an arithmetic shift
temperature(b) ==
    LET u == b[1] * 256 + b[2]
        s == IF u >= 32768 THEN u - 65536 ELSE u
    IN s \div 16

Measure ==
    /\ measured' \in TEMPERATURES
    /\ UNCHANGED shown

\* An I2C error is reported and nothing is shown.
read_temperature ==
    /\ \/ shown' = temperature(Register12(measured))
       \/ UNCHANGED shown
    /\ UNCHANGED measured

I2cNext == Measure \/ read_temperature

I2cSpec == I2cInit /\ [][I2cNext]_i2cVars

----------------------------------------------------------------------------
(***************************************************************************)
(* The temperature shown is one that was measured, below zero too: the     *)
(* conversion of read_temperature_handler undoes the sensor's encoding.    *)
(***************************************************************************)
ShowsMeasured == [][shown' # shown => shown' = measured]_i2cVars

=============================================================================
