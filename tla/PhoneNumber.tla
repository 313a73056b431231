---------------------------- MODULE PhoneNumber ----------------------------
(***************************************************************************)
(* How a session reads the caller's number from the target of a request     *)
(* (isValidPhoneNumber, UrlDecode and PreparePhoneNumber).  A target is     *)
(* typed token by token; what becomes of it is a function of the target.    *)
(* "-" stands for a dash or a dot, which every class of the pattern treats  *)
(* alike, "x" for every character the pattern has no place for, and "SP"    *)
(* for a space, which only decoding writes.                                 *)
(***************************************************************************)
EXTENDS Integers, Sequences

CONSTANTS FirstDigit,  \* digits a number may begin with
          MaxDigits,   \* bound: digits in a target
          MaxMarks     \* bound: other tokens after the slash

Digit == {"0", "1", "2", "3", "4", "5", "6", "7", "8", "9"}
Mark == {"/", "%20", "+", "(", ")", "-", "x"}

ASSUME PhoneNumberAssumption ==
    FirstDigit \subseteq Digit /\ MaxDigits \in 0 .. 13 /\ MaxMarks \in Nat

Token == Digit \cup Mark

VARIABLE target

\* The digits among the first tokens of str, for each number of tokens.
DigitsIn(str) ==
    LET digits[i \in 0 .. Len(str)] ==
          IF i = 0 THEN <<>>
          ELSE IF str[i] \in Digit THEN Append(digits[i - 1], str[i])
          ELSE digits[i - 1]
    IN  digits
DigitsOf(str) == DigitsIn(str)[Len(str)]

-----------------------------------------------------------------------------
(* The algorithm *)

\* (fault) The target is not decoded.
NotDecoded(str) == str
UrlDecode(str) == [i \in 1 .. Len(str) |-> IF str[i] = "%20" THEN "SP" ELSE str[i]]

\* One item of the pattern: how many tokens of which class, and whether the item is
\* a capture group.
Item(class, lengths, captured) ==
    [class |-> class, lengths |-> lengths, captured |-> captured]
Star(class) == Item(class, Nat, FALSE)
\* (fault) A group takes one digit more if it can.
GroupOrLonger(n) == Item(Digit, {n, n + 1}, TRUE)
Group(n) == Item(Digit, {n}, TRUE)

\* The optional country code, present or (then matches[1] is empty) absent.
Code == { << Item({"+"}, {0, 1}, FALSE), Group(1) >>,
          << Item({}, {0}, FALSE), Item({}, {0}, TRUE) >> }

\* ^/\s*(?:\+?(\d{1}))?[-. (]*(\d{3})[-. )]*(\d{3})[-. ]*(\d{4})\s*$
Pattern(code) ==
    << Item({"/"}, {1}, FALSE), Star({"SP"}), code[1], code[2],
       Star({"-", "SP", "("}), Group(3), Star({"-", "SP", ")"}), Group(3),
       Star({"-", "SP"}), Group(4), Star({"SP"}) >>

\* A reading of the first tokens of str: how many, and the groups found in them.
Begun == [read |-> 0, groups |-> <<>>]

Extended(str, reading, item) ==
    LET taken(to) == SubSeq(str, reading.read + 1, to)
        ends == {to \in reading.read .. Len(str) :
                   /\ to - reading.read \in item.lengths
                   /\ \A i \in reading.read + 1 .. to : str[i] \in item.class}
    IN  {[read |-> to,
          groups |-> IF item.captured THEN Append(reading.groups, taken(to))
                                      ELSE reading.groups] : to \in ends}

\* The readings of each number of items of the pattern.
ReadingsAfter(str, code) ==
    LET after[i \in 0 .. 11] ==
          IF i = 0 THEN {Begun}
          ELSE UNION {Extended(str, r, Pattern(code)[i]) : r \in after[i - 1]}
    IN  after

\* std::regex_match: the groups of every way to match the whole of str.
RegexMatches(str) ==
    {r.groups : r \in {q \in UNION {ReadingsAfter(str, code)[11] : code \in Code} :
                         q.read = Len(str)}}

\* The groups of the number itself, one after the other.
TenDigits(matches) == matches[2] \o matches[3] \o matches[4]

\* (fault) The loop over the groups starts from 1 in every case.
PrepareFromOne(matches) ==
    (IF matches[1] \in {<<>>, <<"8">>} THEN <<"7">> ELSE <<>>)
        \o matches[1] \o TenDigits(matches)
\* (fault) 8 is taken for the country code it stands for.
PrepareEight(matches) ==
    IF matches[1] \in {<<>>, <<"8">>} THEN <<"8">> \o TenDigits(matches)
    ELSE matches[1] \o TenDigits(matches)
PreparePhoneNumber(matches) ==
    IF matches[1] \in {<<>>, <<"8">>} THEN <<"7">> \o TenDigits(matches)
    ELSE matches[1] \o TenDigits(matches)

Readings(str) == RegexMatches(UrlDecode(str))
IsValid(str) == Readings(str) # {}
Prepared(str) == PreparePhoneNumber(CHOOSE matches \in Readings(str) : TRUE)

-----------------------------------------------------------------------------
(* The caller *)

Init == target = << "/" >>

\* The digits after the first differ from each other, so that a digit out of its
\* place shows.
LaterDigit == <<"2", "3", "4", "5", "6", "7", "8", "9", "0", "1", "2", "3">>

TypeDigit ==
    LET typed == Len(DigitsOf(target)) IN
      /\ typed < MaxDigits
      /\ \E d \in IF typed = 0 THEN FirstDigit ELSE {LaterDigit[typed]} :
           target' = Append(target, d)

TypeMark ==
    /\ Len(target) - Len(DigitsOf(target)) <= MaxMarks
    /\ \E mark \in Mark : target' = Append(target, mark)

Next == TypeDigit \/ TypeMark

Spec == Init /\ [][Next]_target

-----------------------------------------------------------------------------
(* Properties *)

\* The pattern read as rules for a caller, place by place and without a matcher: ten
\* digits after an optional country code, and in each gap the marks that may stand
\* there.  k is the number of digits still to come.
MayStand(k) ==
    CASE k = 11 -> {"%20", "+"}
      [] k = 10 -> {"%20", "-", "("}
      [] k = 7 -> {"%20", "-", ")"}
      [] k = 4 -> {"%20", "-"}
      [] k = 0 -> {"%20"}
      [] OTHER -> {}

WellDialled(str) ==
    LET n == Len(DigitsOf(str))
        toCome(i) == n - Len(DigitsIn(str)[i])
    IN  /\ n \in {10, 11}
        /\ \A i \in 2 .. Len(str) :
             \/ str[i] \in Digit
             \/ str[i] \in MayStand(toCome(i)) /\ (str[i] = "+" => str[i + 1] \in Digit)

\* Every number dialled by the rules is accepted, and no other, also after the %20
\* have been decoded.
AcceptsWellDialled == IsValid(target) <=> WellDialled(target)

\* The pattern can match a target in several ways, but with one result: the number
\* does not depend on the order in which std::regex tries them.
OneReading == \A a, b \in Readings(target) : a = b

\* The queue refuses a caller who is waiting already by comparing strings.  However a
\* number is typed, with or without marks, +7, 8 or no code at all, it becomes
\* the country code (7 for 8 and for none) and the ten digits.
OneFormPerNumber ==
    IsValid(target) =>
        LET digits == DigitsOf(target)
            code == IF Len(digits) = 11 THEN Head(digits) ELSE "7"
            ten == SubSeq(digits, Len(digits) - 9, Len(digits))
        IN  Prepared(target) = <<IF code = "8" THEN "7" ELSE code>> \o ten

\* A prepared number, dialled as it stands, is accepted and stays what it is.
PreparedIsStable ==
    IsValid(target) =>
        LET again == <<"/">> \o Prepared(target)
        IN  IsValid(again) /\ Prepared(again) = Prepared(target)
=============================================================================
