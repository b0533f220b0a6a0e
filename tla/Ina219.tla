------------------------------- MODULE Ina219 -------------------------------
(***************************************************************************)
(* The register-level driver of the INA219 monitors on the APCape board    *)
(* (class INA219 of server/devices/APCape.hpp): how a word read from the   *)
(* I2C bus becomes the value of a line.  Words are two bytes, high first.  *)
(***************************************************************************)
EXTENDS Integers, Sequences

\* The registers, by what they hold.
Registers == [CONFIG |-> 0, SHUNTVOLTAGE |-> 1, BUSVOLTAGE |-> 2,
              POWER |-> 3, CURRENT |-> 4, CALIBRATION |-> 5]

\* The fields of the configuration word that the driver sets: 32 V, 320 mV,
\* 12 bits for both converters, continuous.
ConfigBits == [BVOLTAGERANGE_32V |-> 8192, GAIN_8_320MV |-> 6144, BADCRES_12BIT |-> 1024,
               SADCRES_12BIT_1S_532US |-> 24, MODE_SANDBVOLT_CONTINUOUS |-> 7]

High(word) == (word \div 256) % 256
Low(word) == word % 256
Bytes(word) == <<High(word), Low(word)>>
Word(bytes) == bytes[1] * 256 + bytes[2]

\* unsigned short
Ushort(n) == n % 65536

\* What the constructor writes, register by register.
setCalibration_32V_4_5A ==
    LET config == ConfigBits.BVOLTAGERANGE_32V + ConfigBits.GAIN_8_320MV
                  + ConfigBits.BADCRES_12BIT + ConfigBits.SADCRES_12BIT_1S_532US
                  + ConfigBits.MODE_SANDBVOLT_CONTINUOUS
    IN  <<<<Registers.CALIBRATION, Bytes(5851)>>, <<Registers.CONFIG, Bytes(config)>>>>

twosToInt(val, len) ==
    IF (val \div 2 ^ (len - 1)) % 2 = 1 THEN val - 2 ^ len ELSE val

IsNegative(bytes) == bytes[1] \div 128 = 1

\* (A bug: the bytes are taken low first.)
CurrentLowFirst(ok, bytes) == IF ~ok THEN 0 ELSE bytes[2] * 256 + bytes[1]

\* The reads return 0 when the bus does not answer.  The sign that twosToInt
\* restores is lost again in an unsigned short.
getShuntVoltage_raw(ok, bytes) ==
    IF ~ok THEN 0
    ELSE IF IsNegative(bytes) THEN Ushort(twosToInt(Word(bytes), 16)) ELSE Word(bytes)
getCurrent_raw(ok, bytes) ==
    IF ~ok THEN 0
    ELSE IF IsNegative(bytes) THEN Ushort(twosToInt(Word(bytes), 16)) ELSE Word(bytes)
getPower_raw(ok, bytes) ==
    IF ~ok THEN 0
    ELSE IF IsNegative(bytes) THEN Ushort(twosToInt(Word(bytes), 16)) ELSE Word(bytes)

\* The three low bits are flags; a unit is 4 mV.  With the sign bit set the
\* shift is by 3 * 4 bits.
getBusVoltage_raw(ok, bytes) ==
    IF ~ok THEN 0
    ELSE IF IsNegative(bytes) THEN Ushort(twosToInt(Word(bytes), 16)) \div 2 ^ (3 * 4)
    ELSE Ushort((Word(bytes) \div 8) * 4)

\* The value of a line with this metric: the raw reading, and how many
\* millionths of it make a V, a mA or (for any other metric) a mW.
ReadLine(metric, ok, bytes) ==
    CASE metric = "voltage" -> [raw |-> getBusVoltage_raw(ok, bytes), per |-> 1000000000]
      [] metric = "current" -> [raw |-> getCurrent_raw(ok, bytes), per |-> 7142857]
      [] OTHER -> [raw |-> getPower_raw(ok, bytes), per |-> 357142]
=============================================================================
