------------------------------- MODULE Base58 -------------------------------
(***************************************************************************)
(* pkg/mapping and the length check of Handler.Redirect: short codes.      *)
(* Create turns the number of a link into a code, and a visitor's code is  *)
(* turned back into a number.  The alphabet, the limits on lengths and the *)
(* first number are parameters; the program has 58 characters, codes of at *)
(* most 8 of them, and redirects codes of 6 to 8.                          *)
(***************************************************************************)
EXTENDS Integers, Sequences, SequencesExt

CONSTANTS
  chars,      \* the alphabet, in the order of the digits
  Bytes,      \* what a visitor may type: the alphabet and other characters
  maxBytes,   \* the longest code Base58Decode accepts
  MinLen,     \* the shortest code Redirect accepts
  StartNum,   \* the first number of the sequence generator
  MaxNum      \* bound on the numbers given

carry == Len(chars)

\* The characters of the alphabet are bytes, at least two and all different.
ASSUME CharsAssumption ==
  /\ chars \in Seq(Bytes)
  /\ Len(chars) >= 2
  /\ \A i, j \in 1 .. Len(chars) : chars[i] = chars[j] => i = j

ASSUME LengthsAssumption == maxBytes \in Nat /\ MinLen \in 1 .. maxBytes
ASSUME NumsAssumption == StartNum \in Nat /\ MaxNum \in Nat /\ StartNum <= MaxNum

\* indices, filled by init: the digit a character stands for, or -1.
indices ==
  [c \in Bytes |->
     IF \E i \in 1 .. carry : chars[i] = c
       THEN (CHOOSE i \in 1 .. carry : chars[i] = c) - 1
       ELSE -1]

\* pow(x, n) is pow[n][x]: powers by squaring.
pow[n \in Nat] ==
  [x \in Nat |->
     IF n = 0 THEN 1
     ELSE IF n % 2 = 0 THEN pow[n \div 2][x * x]
     ELSE x * pow[n - 1][x]]

\* The table of powers that init fills.
pow58 == [i \in 0 .. maxBytes |-> pow[i][carry]]

\* The numbers that are given have codes of the lengths Redirect accepts: the
\* program's start_num is above 58^5, and 58^8 is never reached.
ASSUME NumbersHaveCodes == pow58[MinLen - 1] <= StartNum /\ MaxNum <= pow58[maxBytes]

\* The digits of num, least significant first, as the loop appends them.
digits[num \in Nat] ==
  IF num = 0 THEN <<>>
  ELSE <<chars[(num % carry) + 1]>> \o digits[num \div carry]

\* Mutant: the digits are left in the order they were found.
EncodeUnreversed(num) == digits[num]

Base58Encode(num) == Reverse(digits[num])

Decoded(num) == [ok |-> TRUE, num |-> num]
Refused == [ok |-> FALSE, num |-> 0]

\* num after each round of the loop in Base58Decode.
Sums(b) ==
  LET num[i \in 0 .. Len(b)] ==
        IF i = 0 THEN 0
        ELSE num[i - 1] + pow58[Len(b) - i] * indices[b[i]]
  IN num

Foreign(b) == \E i \in 1 .. Len(b) : indices[b[i]] = -1

\* Mutant: the longest codes are refused.
DecodeShort(b) ==
  IF Len(b) >= maxBytes \/ Foreign(b) THEN Refused ELSE Decoded(Sums(b)[Len(b)])

\* A code that is too long or has a foreign character is refused.
Base58Decode(b) ==
  IF Len(b) > maxBytes \/ Foreign(b) THEN Refused ELSE Decoded(Sums(b)[Len(b)])

-----------------------------------------------------------------------------
VARIABLES
  next,    \* the next number of the sequence generator
  asked,   \* the code the last visitor asked for
  answer   \* what Redirect answered

codeVars == <<next, asked, answer>>

Codes == UNION {[1 .. n -> Bytes] : n \in 0 .. (maxBytes + 1)}
Issued == StartNum .. (next - 1)

NoAnswer == [status |-> "none", num |-> 0]

CodeInit ==
  /\ next = StartNum
  /\ asked = <<>>
  /\ answer = NoAnswer

\* Create gives the next number's code to a client.
Create ==
  /\ next < MaxNum
  /\ next' = next + 1
  /\ asked' = <<>>
  /\ answer' = NoAnswer

\* Mutant: a code that can be decoded is taken for one that was given.
StatusTrusting(b) ==
  IF ~Base58Decode(b).ok THEN "badRequest" ELSE "found"

\* What Redirect answers for code b: lengths first, then the decoding, then the
\* lookup of the number.
Status(b) ==
  IF Len(b) \notin MinLen .. maxBytes \/ ~Base58Decode(b).ok THEN "badRequest"
  ELSE IF Base58Decode(b).num \in Issued THEN "found"
  ELSE "notFound"

Redirect(b) ==
  /\ answer = NoAnswer
  /\ asked' = b
  /\ answer' = [status |-> Status(b), num |-> Base58Decode(b).num]
  /\ UNCHANGED next

\* The visitor leaves; a visit changes nothing.
Leave ==
  /\ answer # NoAnswer
  /\ asked' = <<>>
  /\ answer' = NoAnswer
  /\ UNCHANGED next

CodeNext == Create \/ Leave \/ \E b \in Codes : Redirect(b)

CodeSpec == CodeInit /\ [][CodeNext]_codeVars

-----------------------------------------------------------------------------
(* Properties *)

CodeTypeOK ==
  /\ next \in StartNum .. MaxNum
  /\ asked \in Codes
  /\ answer \in [status : {"none", "found", "notFound", "badRequest"},
                 num : Nat]
  /\ answer.status = "found" => answer.num \in Issued

\* A visitor reaches a link only by the code that Create gave for it, or by that
\* code with digits of value zero in front: no other string resolves to it, and
\* no code resolves to two links.
FoundByItsCode ==
  answer.status = "found" =>
    \E z \in 0 .. maxBytes :
      asked = [i \in 1 .. z |-> chars[1]] \o Base58Encode(answer.num)

\* "a short link redirects to the original long URL" (README.md:131): the code
\* Create gave for a number leads back to that number.  It holds as long as the
\* numbers have codes of the lengths Redirect accepts.
CodesResolve ==
  \A n \in Issued :
    answer # NoAnswer /\ asked = Base58Encode(n) =>
      answer = [status |-> "found", num |-> n]

=============================================================================
