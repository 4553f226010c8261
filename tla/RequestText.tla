---------------------------- MODULE RequestText ----------------------------
(***************************************************************************)
(* The texts the program takes apart itself: the request _onTCPData finds  *)
(* in what one recv returned, and the address IPAddress::fromString reads. *)
(* A text is a sequence of characters; " ", "CR", "LF" and "NUL" are those *)
(* _onTCPData looks for, any other stands for itself.                      *)
(***************************************************************************)
EXTENDS Naturals, Sequences, FiniteSets, SequencesExt

-----------------------------------------------------------------------------
(***************************************************************************)
(* _onTCPData.                                                             *)
(***************************************************************************)
Places(text, char, from) == {k \in from .. Len(text) : text[k] = char}

Least(places) == CHOOSE k \in places : \A other \in places : k <= other

\* A C string ends at the first NUL, or with the text, which p[len] = 0 ends.
CString(text, from) ==
  LET ends == Places(text, "NUL", from)
  IN  SubSeq(text, from, IF ends = {} THEN Len(text) ELSE Least(ends) - 1)

\* Mutant: a carriage return breaks the pair of line feeds.
CountLineFeedsStrictly(scan, char) ==
  IF scan.c = 2 \/ scan.stop THEN scan
  ELSE IF char = "NUL" THEN [scan EXCEPT !.stop = TRUE]
  ELSE [p |-> scan.p + 1, stop |-> FALSE,
        c |-> IF char = "LF" THEN scan.c + 1 ELSE 0]

\* A step of the search for a double line feed; carriage returns do not count.
CountLineFeeds(scan, char) ==
  IF scan.c = 2 \/ scan.stop THEN scan
  ELSE IF char = "NUL" THEN [scan EXCEPT !.stop = TRUE]
  ELSE [p |-> scan.p + 1, stop |-> FALSE,
        c |-> CASE char = "CR" -> scan.c
                [] char = "LF" -> scan.c + 1
                [] OTHER       -> 0]

BodyStart(text, from) ==
  FoldLeft(CountLineFeeds, [p |-> from, c |-> 0, stop |-> FALSE],
           SubSeq(text, from, Len(text))).p

\* Without two spaces the search for them runs on behind the text.
Overrun == [method |-> "overrun"]

Request(text) ==
  LET spaces == Places(text, " ", 1)
      first  == Least(spaces)
      second == Least(spaces \ {first})
  IN  IF Cardinality(spaces) < 2 THEN Overrun
      ELSE [method |-> CString(SubSeq(text, 1, first - 1), 1),
            url    |-> CString(SubSeq(text, 1, second - 1), first + 1),
            body   |-> CString(text, BodyStart(text, second + 1))]

-----------------------------------------------------------------------------
(***************************************************************************)
(* IPAddress.                                                              *)
(***************************************************************************)
Digits == << "0", "1", "2", "3", "4", "5", "6", "7", "8", "9" >>

ValueOf(digit) == IndexFirstSubSeq(<< digit >>, Digits) - 1

\* A decimal number, without leading zeros.
Decimal(n) ==
  LET digit(d) == Digits[d + 1]
  IN  CASE n >= 100 -> << digit(n \div 100), digit((n \div 10) % 10), digit(n % 10) >>
        [] n \in 10 .. 99 -> << digit(n \div 10), digit(n % 10) >>
        [] n < 10 -> << digit(n) >>

toString(bytes) ==
  Decimal(bytes[1]) \o << "." >> \o Decimal(bytes[2]) \o << "." >>
    \o Decimal(bytes[3]) \o << "." >> \o Decimal(bytes[4])

\* Mutant: an octet may be of any size.
ReadCharTooLarge(scan, char) ==
  IF ~scan.ok THEN scan
  ELSE IF char \in ToSet(Digits)
  THEN [scan EXCEPT !.acc = 10 * @ + ValueOf(char)]
  ELSE IF char = "." /\ scan.dots < 3
  THEN [scan EXCEPT !.bytes[scan.dots + 1] = scan.acc,
                    !.dots = scan.dots + 1, !.acc = 0]
  ELSE [scan EXCEPT !.ok = FALSE]

\* Mutant: the accumulator not reset at a dot.
ReadCharAccumulating(scan, char) ==
  IF ~scan.ok THEN scan
  ELSE IF char \in ToSet(Digits)
  THEN LET acc == 10 * scan.acc + ValueOf(char)
       IN  [scan EXCEPT !.acc = acc, !.ok = acc <= 255]
  ELSE IF char = "." /\ scan.dots < 3
  THEN [scan EXCEPT !.bytes[scan.dots + 1] = scan.acc, !.dots = scan.dots + 1]
  ELSE [scan EXCEPT !.ok = FALSE]

\* A round of the loop of fromString, which gives up at the first character it
\* does not like and leaves the octets read so far behind.
ReadChar(scan, char) ==
  IF ~scan.ok THEN scan
  ELSE IF char \in ToSet(Digits)
  THEN LET acc == 10 * scan.acc + ValueOf(char)
       IN  [scan EXCEPT !.acc = acc, !.ok = acc <= 255]
  ELSE IF char = "." /\ scan.dots < 3
  THEN [scan EXCEPT !.bytes[scan.dots + 1] = scan.acc,
                    !.dots = scan.dots + 1, !.acc = 0]
  ELSE [scan EXCEPT !.ok = FALSE]

fromString(text) ==
  LET scan == FoldLeft(ReadChar,
                       [acc |-> 0, dots |-> 0, bytes |-> << 0, 0, 0, 0 >>,
                        ok |-> TRUE],
                       text)
  IN  IF scan.ok /\ scan.dots = 3
      THEN [ok |-> TRUE, bytes |-> [scan.bytes EXCEPT ![4] = scan.acc]]
      ELSE [ok |-> FALSE, bytes |-> scan.bytes]
=============================================================================
