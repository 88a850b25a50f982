--------------------------- MODULE EventIdentifiers ---------------------------
(***************************************************************************)
(* The identifiers the firmware makes and accepts: event and command ids   *)
(* (UUIDs of random bytes) and Device UIDs.  An id that its own parser     *)
(* refuses would silence every command, a Device UID that is refused stops *)
(* app_main before the server is started.  A text is a sequence of         *)
(* characters; bytes are numbered from 0 as in the code.                   *)
(***************************************************************************)
EXTENDS Integers, Sequences, SequencesExt

CONSTANTS
  Byte,         \* bound: the values of the bytes that vary, the others are 0
  Letter,       \* bound: the characters of the texts parsed
  MaxLength,    \* bound: the length of the texts parsed
  HexLength     \* kDeviceUidHexLength, 12, or scaled down for those texts

VARIABLES
  input,    \* what an identifier is made from
  output    \* the identifier, "refused" by the parser, or "none" so far

vars == <<input, output>>

-----------------------------------------------------------------------------
LowerHex == <<"0", "1", "2", "3", "4", "5", "6", "7",
              "8", "9", "a", "b", "c", "d", "e", "f">>

UpperHex == <<"0", "1", "2", "3", "4", "5", "6", "7",
              "8", "9", "A", "B", "C", "D", "E", "F">>

IsHexadecimal(c) == c \in ToSet(LowerHex) \union ToSet(UpperHex)

\* Upper case letters (those that occur), digits and the underscore.
IsDeviceTypeCharacter(c) ==
  c \in ToSet(UpperHex) \union {"G", "L", "O", "R", "T", "_"}

TwoDigits(byte, hex) == <<hex[byte \div 16 + 1], hex[(byte % 16) + 1]>>

\* Where is_uuid() expects its dashes, counted from 1.
DashAt == {9, 14, 19, 24}

IsUuid(value) ==
  /\ Len(value) = 36
  /\ \A i \in 1 .. 36 :
       IF i \in DashAt THEN value[i] = "-" ELSE IsHexadecimal(value[i])

\* The digits of the bytes from first to last.
Digits(bytes, first, last, hex) ==
  [i \in 1 .. 2 * (last - first + 1) |->
     TwoDigits(bytes[first + ((i - 1) \div 2)], hex)[((i - 1) % 2) + 1]]

\* A dash follows the bytes 3, 5, 7 and 9.
FromBytes(bytes) ==
  Digits(bytes, 0, 3, LowerHex) \o <<"-">> \o Digits(bytes, 4, 5, LowerHex) \o <<"-">> \o
  Digits(bytes, 6, 7, LowerHex) \o <<"-">> \o Digits(bytes, 8, 9, LowerHex) \o <<"-">> \o
  Digits(bytes, 10, 15, LowerHex)

\* Mutant: the variant is put over six of the eight bits.
MarkedWide(random) ==
  [random EXCEPT ![6] = (@ % 16) + 64, ![8] = (@ % 4) + 128]

\* The version and the variant of a random UUID.
Marked(random) ==
  [random EXCEPT ![6] = (@ % 16) + 64, ![8] = (@ % 64) + 128]

\* Mutant: the first character may be the separator.
IsDeviceUidAnyType(value, hexLength) ==
  LET separator == SelectLastInSeq(value, LAMBDA c : c = "-")
  IN  /\ separator # 0
      /\ Len(value) = separator + hexLength
      /\ \A i \in 1 .. separator - 1 : IsDeviceTypeCharacter(value[i])
      /\ \A i \in separator + 1 .. Len(value) : IsHexadecimal(value[i])

IsDeviceUid(value, hexLength) ==
  LET separator == SelectLastInSeq(value, LAMBDA c : c = "-")
  IN  /\ separator > 1
      /\ Len(value) = separator + hexLength
      /\ \A i \in 1 .. separator - 1 : IsDeviceTypeCharacter(value[i])
      /\ \A i \in separator + 1 .. Len(value) : IsHexadecimal(value[i])

DeviceUidString(mac) ==
  <<"C", "O", "L", "L", "E", "C", "T", "O", "R", "-">> \o Digits(mac, 0, 5, UpperHex)

-----------------------------------------------------------------------------
\* Bytes of which all but two are 0.
Bytes(n) ==
  {[k \in 0 .. n - 1 |-> IF k = i THEN a ELSE IF k = j THEN b ELSE 0] :
     i, j \in 0 .. n - 1, a, b \in Byte}

Init ==
  /\ \/ input \in [kind: {"random"}, bytes: Bytes(16)]
     \/ input \in [kind: {"mac"}, bytes: Bytes(6)]
     \/ input \in [kind: {"text"}, text: BoundedSeq(Letter, MaxLength)]
  /\ output = <<"none">>

Parsed(text, valid) == IF valid THEN text ELSE <<"refused">>

\* The id of a command: generate(), then CommandId::from_string.
MakeCommandId ==
  /\ input.kind = "random" /\ output = <<"none">>
  /\ LET id == FromBytes(Marked(input.bytes))
     IN  output' = Parsed(id, IsUuid(id))
  /\ UNCHANGED input

\* The Device UID of app_main: from the MAC, then DeviceUid::from_string.
MakeDeviceUid ==
  /\ input.kind = "mac" /\ output = <<"none">>
  /\ LET uid == DeviceUidString(input.bytes)
     IN  output' = Parsed(uid, IsDeviceUid(uid, 12))
  /\ UNCHANGED input

\* DeviceUid::from_string of any text.
ParseDeviceUid ==
  /\ input.kind = "text" /\ output = <<"none">>
  /\ output' = Parsed(input.text, IsDeviceUid(input.text, HexLength))
  /\ UNCHANGED input

Next == MakeCommandId \/ MakeDeviceUid \/ ParseDeviceUid

Spec == Init /\ [][Next]_vars

-----------------------------------------------------------------------------
Made(kind) == input.kind = kind /\ output # <<"none">>

DigitValue(c) == CHOOSE d \in 0 .. 15 : c \in {LowerHex[d + 1], UpperHex[d + 1]}

\* The byte that a reader finds in the two digits of text from position i.
ReadByte(text, i) == 16 * DigitValue(text[i]) + DigitValue(text[i + 1])

\* The dashes before byte k in the 8-4-4-4-12 digits of a UUID.
DashesBefore(k) ==
  CASE k \in 0 .. 3   -> 0
    [] k \in 4 .. 5   -> 1
    [] k \in 6 .. 7   -> 2
    [] k \in 8 .. 9   -> 3
    [] k \in 10 .. 15 -> 4

\* CommandId::from_string accepts every id that the generator makes, so that no
\* command is lost for its id (CollectorService::dispatch_command).  And the id
\* is a UUID of version 4 with "122 random bits" (ADR-0021): besides the four
\* bits of the version and the two of the variant, in the places where a reader
\* of the text expects them, every random bit can be read back.
GeneratedIdsUsable ==
  Made("random") =>
    /\ output # <<"refused">>
    /\ output[15] = "4" /\ output[20] \in {"8", "9", "a", "b"}
    /\ \A k \in 0 .. 15 :
         LET random == CASE k = 6 -> 16 [] k = 8 -> 64 [] OTHER -> 256
         IN  ReadByte(output, 2 * k + 1 + DashesBefore(k)) % random = input.bytes[k] % random

\* app_main never stops for an invalid Device UID, and two boards have
\* different ones: the parser accepts it, and the MAC can be read back.
DeviceUidsUsable ==
  Made("mac") =>
    /\ output # <<"refused">>
    /\ \A k \in 0 .. 5 : ReadByte(output, 11 + 2 * k) = input.bytes[k]

\* The parser, which looks for the last dash, accepts exactly the texts that
\* consist of a type, a dash and the hexadecimal digits.
ParserIsExact ==
  Made("text") =>
    (output # <<"refused">> <=>
       \E n \in 1 .. Len(input.text) :
         LET type == SubSeq(input.text, 1, n - 1)
             hex  == SubSeq(input.text, n + 1, Len(input.text))
         IN  /\ input.text[n] = "-"
             /\ type # <<>> /\ \A i \in DOMAIN type : IsDeviceTypeCharacter(type[i])
             /\ Len(hex) = HexLength /\ \A i \in DOMAIN hex : IsHexadecimal(hex[i]))
=============================================================================
