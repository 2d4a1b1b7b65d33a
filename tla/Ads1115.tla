------------------------------- MODULE Ads1115 -------------------------------
(***************************************************************************)
(* ads1115.c: the driver of the ADC, against the chip at the other end of  *)
(* the I2C bus.  The chip is modelled from what the driver relies on: four *)
(* 16-bit registers, the high byte of a word first on the wire where the   *)
(* Raspberry Pi's SMBus calls take the low byte first, and conversions of  *)
(* its own accord in continuous mode.  Any transfer may fail, and the chip *)
(* may fall back to its power-on state; the driver looks at no result.     *)
(***************************************************************************)
EXTENDS Integers

CONSTANT Inputs  \* what the chip may convert to

\* The values of an unsigned and of a signed integer of 16 bits.
Word == {w \in Nat : w < 65536}
ShortInt == {v \in Int : -32768 <= v /\ v <= 32767}

ASSUME InputsAssumption == Inputs \subseteq ShortInt

VARIABLES
  reg,     \* the registers of the chip
  dpc,     \* where the driver is: "idle", or the transfer it is about to make
  val,     \* what next_value() returned, until main() is done with it
  missed   \* history: since the last reset_adc() began a write failed or the
           \* chip lost its settings

adcVars == <<reg, dpc, val, missed>>

Registers == {"CONV_REG", "CONF_REG", "LOTH_REG", "HITH_REG"}

\* The registers after power-on.
PowerOn == [CONV_REG |-> 0, CONF_REG |-> 34179, LOTH_REG |-> 32768, HITH_REG |-> 32767]

\* What i2cReadWordData() returns for a failed read: PI_I2C_READ_FAILED.
I2cReadFailed == -83

AdcTypeOK ==
  /\ reg \in [Registers -> Word]
  /\ dpc \in {"idle", "hith", "loth", "conf", "wait", "ready", "conv"}
  /\ val \in ShortInt
  /\ missed \in BOOLEAN

\* The chip may have been left in any state by an earlier run; its registers
\* are taken to be those after power-on.
AdcInit ==
  /\ reg = PowerOn
  /\ dpc = "idle"
  /\ val = 0
  /\ missed = TRUE

-----------------------------------------------------------------------------
(* Words and bit-fields.                                                    *)

\* SWAP_BITS: the two bytes of a word exchanged.
Swapped(w) == (w % 256) * 256 + w \div 256

\* An integer as a word, and a word as a `short`.
Unsigned(i) == i % 65536
Short(w) == IF w < 32768 THEN w ELSE w - 65536

\* What a signed bit-field of n values gives back after v is stored in it.
Field(v, n) == IF v % n < n \div 2 THEN v % n ELSE (v % n) - n

\* struct ads1115_settings, with the number of values of each field.
Sizes == [input_multiplexer |-> 8, gain_amplifier |-> 8, operating_mode |-> 2,
          data_rate |-> 8, comparator_mode |-> 2, comparator_polarity |-> 2,
          latching_comparator |-> 2, comparator_queue_disable |-> 4]
Fields == DOMAIN Sizes

\* What init_adc() means to set: differential input, smallest range,
\* continuous, 860 samples a second, latched, active high, after one.
Intended == [input_multiplexer |-> 0, gain_amplifier |-> 5, operating_mode |-> 0,
             data_rate |-> 7, comparator_mode |-> 0, comparator_polarity |-> 1,
             latching_comparator |-> 1, comparator_queue_disable |-> 0]

\* `config` after the settings s have been assigned to its fields.
Stored(s) == [f \in Fields |-> Field(s[f], Sizes[f])]
config == Stored(Intended)

\* The masks take the unsigned value back out of a signed field.
Masked(c, f) == c[f] % Sizes[f]
ConfigWord(c) ==
  Masked(c, "input_multiplexer") * 4096 + Masked(c, "gain_amplifier") * 512
    + Masked(c, "operating_mode") * 256 + Masked(c, "data_rate") * 32
    + Masked(c, "comparator_mode") * 16 + Masked(c, "comparator_polarity") * 8
    + Masked(c, "latching_comparator") * 4 + Masked(c, "comparator_queue_disable")

\* How the chip reads its configuration register.
Settings(w) ==
  [input_multiplexer |-> (w \div 4096) % 8, gain_amplifier |-> (w \div 512) % 8,
   operating_mode |-> (w \div 256) % 2, data_rate |-> (w \div 32) % 8,
   comparator_mode |-> (w \div 16) % 2, comparator_polarity |-> (w \div 8) % 2,
   latching_comparator |-> (w \div 4) % 2, comparator_queue_disable |-> w % 4]

\* MUTANT: the fields of the settings are unsigned.
ReadyUnsigned(res) == res \div 32768 # Intended.comparator_polarity

\* is_ready(), of the word i2cReadWordData() returned.  A one-bit signed
\* field that was set to 1 gives back -1, which no bit is equal to.
Ready(res) == res \div 32768 # config.comparator_polarity

-----------------------------------------------------------------------------
(* The bus.                                                                 *)

\* i2cWriteWordData(): the word arrives, or nothing does.
WriteWord(r, w) ==
  \/ reg' = [reg EXCEPT ![r] = Swapped(w)] /\ UNCHANGED missed
  \/ UNCHANGED reg /\ missed' = TRUE

\* What i2cReadWordData() may yield, as an unsigned word.
ReadWord(r) == {Swapped(reg[r]), Unsigned(I2cReadFailed)}

\* What a failed read of the conversion comes out as: -20993.
FailedValue == Short(Swapped(Unsigned(I2cReadFailed)))

-----------------------------------------------------------------------------
(* The driver: one action per transfer.                                     *)

\* The call of reset_adc(), from main() or at the end of init_adc().
BeginReset ==
  /\ dpc = "idle"
  /\ dpc' = "hith"
  /\ missed' = FALSE
  /\ UNCHANGED <<reg, val>>

set_hithresh ==
  /\ dpc = "hith" /\ dpc' = "loth"
  /\ WriteWord("HITH_REG", Swapped(1))
  /\ UNCHANGED val

set_lothresh ==
  /\ dpc = "loth" /\ dpc' = "conf"
  /\ WriteWord("LOTH_REG", Swapped(0))
  /\ UNCHANGED val

\* MUTANT: the bytes of the configuration are not swapped.
write_configUnswapped ==
  /\ dpc = "conf" /\ dpc' = "idle"
  /\ WriteWord("CONF_REG", ConfigWord(config))
  /\ UNCHANGED val

write_config ==
  /\ dpc = "conf" /\ dpc' = "idle"
  /\ WriteWord("CONF_REG", Swapped(ConfigWord(config)))
  /\ UNCHANGED val

\* The call of next_value().
BeginValue ==
  /\ dpc = "idle"
  /\ dpc' = "wait"
  /\ UNCHANGED <<reg, val, missed>>

\* The loop of next_value() around is_ready() and gpioDelay().
WaitReady ==
  /\ dpc = "wait"
  /\ \E res \in ReadWord("CONF_REG") : dpc' = IF Ready(res) THEN "ready" ELSE "wait"
  /\ UNCHANGED <<reg, val, missed>>

\* is_ready() is asked once more, for nothing but the time the transfer takes.
AskAgain ==
  /\ dpc = "ready" /\ dpc' = "conv"
  /\ UNCHANGED <<reg, val, missed>>

\* MUTANT: the conversion is returned in the byte order it came in.
read_conversionUnswapped ==
  /\ dpc = "conv" /\ dpc' = "idle"
  /\ val' = Short(Swapped(reg["CONV_REG"]))
  /\ UNCHANGED <<reg, missed>>

\* read_conversion(): the code of a failed read becomes a value like others.
read_conversion ==
  /\ dpc = "conv" /\ dpc' = "idle"
  /\ \E res \in ReadWord("CONV_REG") : val' = Short(Swapped(res))
  /\ UNCHANGED <<reg, missed>>

Driver ==
  \/ set_hithresh \/ set_lothresh \/ write_config
  \/ WaitReady \/ AskAgain \/ read_conversion

-----------------------------------------------------------------------------
(* The chip.                                                                *)

\* A conversion ends, in continuous mode, and the next one begins.
Convert ==
  /\ Settings(reg["CONF_REG"]).operating_mode = 0
  /\ \E v \in Inputs : reg' = [reg EXCEPT !["CONV_REG"] = Unsigned(v)]
  /\ UNCHANGED <<dpc, val, missed>>

\* Its supply breaks down for a moment.
BrownOut ==
  /\ reg' = PowerOn
  /\ missed' = TRUE
  /\ UNCHANGED <<dpc, val>>
=============================================================================
