------------------------------ MODULE IrCodes ------------------------------
(***************************************************************************)
(* The data of src/remote_control.cpp: the infrared code tables, the map   *)
(* from an Alexa brightness to a television channel, and the splitting of  *)
(* a channel into the keys that dial it.  Everything here is a constant of *)
(* the program; RemoteControl is the component that uses it.               *)
(***************************************************************************)
EXTENDS Integers, Sequences, FiniteSets, SequencesExt

Byte == 0 .. 255

(***************************************************************************)
(* The two key tables.  Both list the same keys, so a table is given by    *)
(* its vendor address and one command byte for each key of KeyNames.       *)
(***************************************************************************)
KeyNames == << "on/off", "ch0", "ch1", "ch2", "ch3", "ch4", "ch5", "ch6",
               "ch7", "ch8", "ch9", "vol+", "vol-", "ch+", "ch-", "mute" >>

Table(address, commands) ==
  [key \in ToSet(KeyNames) |->
     Append(address, commands[CHOOSE i \in DOMAIN KeyNames : KeyNames[i] = key])]

remote_control_LG ==
  Table(<< \h04, \hfb >>,
        << \h08, \h10, \h11, \h12, \h13, \h14, \h15, \h16,
           \h17, \h18, \h19, \h02, \h03, \h00, \h01, \h09 >>)

\* Mutant: the code of "ch8" copied to "ch9".
remote_control_DYON_copied ==
  Table(<< \h02, \hdf >>,
        << \h52, \h1b, \h00, \h10, \h11, \h13, \h14, \h15,
           \h17, \h18, \h18, \h03, \h41, \h02, \h09, \h53 >>)

remote_control_DYON ==
  Table(<< \h02, \hdf >>,
        << \h52, \h1b, \h00, \h10, \h11, \h13, \h14, \h15,
           \h17, \h18, \h19, \h03, \h41, \h02, \h09, \h53 >>)

(***************************************************************************)
(* remote_controls[name], each code prefixed with the default address of   *)
(* the YS-IRTM module and its transmit mode.                               *)
(***************************************************************************)
get_remote_control(name) ==
  LET table == [ LG |-> remote_control_LG, DYON |-> remote_control_DYON ][name]
  IN  [key \in DOMAIN table |-> << \ha1, \hf1 >> \o table[key]]

(***************************************************************************)
(* brightness_to_channel_mapping, by the lowest brightness of each channel *)
(* 0 .. 99.  The source lists all 256 pairs; the channel of a brightness   *)
(* is the last one that has begun at it.                                   *)
(***************************************************************************)
brightness_to_channel_mapping ==
  << 0, 3, 6, 9, 11, 14, 16, 19, 21, 24, 26, 29, 31, 34, 36, 39, 41, 44, 47,
     49, 52, 54, 57, 59, 62, 64, 67, 69, 72, 74, 77, 79, 82, 84, 87, 90, 92,
     95, 97, 100, 102, 105, 107, 110, 112, 115, 117, 120, 122, 125, 127, 130,
     133, 135, 138, 140, 143, 145, 148, 150, 153, 155, 158, 160, 163, 165,
     168, 171, 173, 176, 178, 181, 183, 186, 188, 191, 193, 196, 198, 201,
     203, 206, 208, 211, 214, 216, 219, 221, 224, 226, 229, 231, 234, 236,
     239, 241, 244, 246, 249, 251 >>

\* Mutant: every channel begins one brightness late.
convert_brightness_late(value) ==
  Cardinality({c \in DOMAIN brightness_to_channel_mapping :
                 brightness_to_channel_mapping[c] < value}) - 1

convert_brightness_to_channel(value) ==
  Cardinality({c \in DOMAIN brightness_to_channel_mapping :
                 brightness_to_channel_mapping[c] <= value}) - 1

(***************************************************************************)
(* The decimal digits of a byte, most significant first.                   *)
(***************************************************************************)
\* Mutant: 10 is taken for a digit.
get_digits_to_ten(num) ==
  LET digits[n \in Byte] ==
        IF n > 10 THEN Append(digits[n \div 10], n % 10) ELSE << n % 10 >>
  IN  digits[num]

get_digits(num) ==
  LET digits[n \in Byte] ==
        IF n > 9 THEN Append(digits[n \div 10], n % 10) ELSE << n % 10 >>
  IN  digits[num]

(***************************************************************************)
(* The key names actionPerformed builds for a brightness: "ch" followed by *)
(* one digit, for each digit of the channel.                               *)
(***************************************************************************)
DigitKey(digit) == KeyNames[digit + 2]

ChannelKeys(value) ==
  LET digits == get_digits(convert_brightness_to_channel(value))
  IN  [i \in DOMAIN digits |-> DigitKey(digits[i])]
=============================================================================
