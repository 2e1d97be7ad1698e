----------------------------- MODULE RespCodec -----------------------------
(***************************************************************************)
(* The RESP codec (src/network/RespCodec.cpp) as operators on sequences of *)
(* bytes.  A byte is a string: the ones the protocol gives a meaning are   *)
(* "*", "$", "+", "-", ":", "%", "_", "CR", "LF" and the digits; any other *)
(* string stands for other bytes.  Positions count from 1.                 *)
(***************************************************************************)
EXTENDS Integers, SequencesExt

CONSTANTS
    kMaxArguments,
    kMaxBulkLength,
    MaxLongLong      \* the largest value of a long long

ASSUME CodecAssumption ==
    /\ kMaxArguments \in Nat \ {0}
    /\ kMaxBulkLength \in Nat
    /\ MaxLongLong \in Nat
    /\ kMaxArguments <= MaxLongLong
    /\ kMaxBulkLength <= MaxLongLong

CRLF == <<"CR", "LF">>

Digit == <<"0", "1", "2", "3", "4", "5", "6", "7", "8", "9">>

IsDigit(b) == \E d \in 1..10 : Digit[d] = b

-----------------------------------------------------------------------------
(* Numbers. *)

\* std::to_string of a natural number.
Numeral[n \in Nat] ==
    IF n < 10 THEN <<Digit[n + 1]>> ELSE Append(Numeral[n \div 10], Digit[(n % 10) + 1])

\* The natural number that digits denote, of any size.
Decimal(digits) ==
    LET value[i \in 0..Len(digits)] ==
            IF i = 0 THEN 0
            ELSE 10 * value[i - 1] + (CHOOSE d \in 0..9 : Digit[d + 1] = digits[i])
    IN  value[Len(digits)]

IsNumeral(bytes) ==
    LET digits == IF bytes # <<>> /\ bytes[1] = "-" THEN Tail(bytes) ELSE bytes
    IN  digits # <<>> /\ \A i \in 1..Len(digits) : IsDigit(digits[i])

IntegerOf(numeral) ==
    IF numeral[1] = "-" THEN -Decimal(Tail(numeral)) ELSE Decimal(numeral)

Parsed(value, next) == [status |-> "Complete", value |-> value, next |-> next]
NumberIncomplete == [status |-> "Incomplete", value |-> 0, next |-> 0]
NumberError      == [status |-> "Error", value |-> 0, next |-> 0]

\* Faulty variant (mutation testing): a number out of range wraps around.
FromCharsWraps(numeral, next) ==
    IF ~IsNumeral(numeral) THEN NumberError
    ELSE LET modulus == 2 * (MaxLongLong + 1)
             wrapped == IntegerOf(numeral) % modulus
         IN  Parsed(IF wrapped > MaxLongLong THEN wrapped - modulus ELSE wrapped, next)

\* std::from_chars on the whole of numeral: an optional minus and digits, in
\* the range of long long.
FromChars(numeral, next) ==
    IF /\ IsNumeral(numeral)
       /\ IntegerOf(numeral) >= -MaxLongLong - 1
       /\ IntegerOf(numeral) <= MaxLongLong
    THEN Parsed(IntegerOf(numeral), next)
    ELSE NumberError

\* input.find("\r\n", offset), as the set of its results.
Terminators(input, from) ==
    {i \in from..Len(input) - 1 : input[i] = "CR" /\ input[i + 1] = "LF"}

\* Faulty variant (mutation testing): what does not end yet is refused.
ParseNumberImpatient(input, from) ==
    IF Terminators(input, from) = {} THEN NumberError
    ELSE LET end == CHOOSE i \in Terminators(input, from) :
                        \A j \in Terminators(input, from) : i <= j
         IN  FromChars(SubSeq(input, from, end - 1), end + 2)

ParseNumber(input, from) ==
    IF Terminators(input, from) = {} THEN NumberIncomplete
    ELSE LET end == CHOOSE i \in Terminators(input, from) :
                        \A j \in Terminators(input, from) : i <= j
         IN  IF end = from THEN NumberError
             ELSE FromChars(SubSeq(input, from, end - 1), end + 2)

-----------------------------------------------------------------------------
(* Requests. *)

RespParseResult(status, arguments, consumed) ==
    [status |-> status, arguments |-> arguments, consumed |-> consumed]

Incomplete == RespParseResult("Incomplete", <<>>, 0)
Malformed  == RespParseResult("Error", <<>>, 0)

\* Faulty variant (mutation testing): the terminator of a bulk string is
\* searched for, not where its length says.
ParseBulkSearches(input, sofar) ==
    LET at     == sofar.consumed + 1
        length == ParseNumber(input, at + 1)
    IN  IF at > Len(input) THEN Incomplete
        ELSE IF input[at] # "$" THEN Malformed
        ELSE IF length.status = "Incomplete" THEN Incomplete
        ELSE IF length.status = "Error" THEN Malformed
        ELSE IF Terminators(input, length.next) = {} THEN Incomplete
        ELSE LET end == CHOOSE i \in Terminators(input, length.next) :
                            \A j \in Terminators(input, length.next) : i <= j
             IN  RespParseResult("Complete",
                     Append(sofar.arguments, SubSeq(input, length.next, end - 1)), end + 1)

\* One iteration of the loop over the arguments.  The size of the data is
\* announced; data and terminator must be there before either is looked at.
ParseBulk(input, sofar) ==
    LET at     == sofar.consumed + 1
        length == ParseNumber(input, at + 1)
        end    == length.next + length.value
    IN  IF at > Len(input) THEN Incomplete
        ELSE IF input[at] # "$" THEN Malformed
        ELSE IF length.status = "Incomplete" THEN Incomplete
        ELSE IF \/ length.status = "Error"
                \/ length.value < 0
                \/ length.value > kMaxBulkLength THEN Malformed
        ELSE IF Len(input) < end + 1 THEN Incomplete
        ELSE IF SubSeq(input, end, end + 1) # CRLF THEN Malformed
        ELSE RespParseResult("Complete",
                 Append(sofar.arguments, SubSeq(input, length.next, end - 1)), end + 1)

ParseCommand(input) ==
    IF input = <<>> THEN Incomplete
    ELSE IF input[1] # "*" THEN Malformed
    ELSE LET count == ParseNumber(input, 2)
         IN  IF count.status = "Incomplete" THEN Incomplete
             ELSE IF \/ count.status = "Error"
                     \/ count.value <= 0
                     \/ count.value > kMaxArguments THEN Malformed
             ELSE LET after[i \in 0..count.value] ==
                          IF i = 0 THEN RespParseResult("Complete", <<>>, count.next - 1)
                          ELSE IF after[i - 1].status # "Complete" THEN after[i - 1]
                          ELSE ParseBulk(input, after[i - 1])
                  IN  after[count.value]

Bulk(data) == <<"$">> \o Numeral[Len(data)] \o CRLF \o data \o CRLF

Bulks(values) == FlattenSeq([i \in 1..Len(values) |-> Bulk(values[i])])

EncodeCommand(arguments) ==
    <<"*">> \o Numeral[Len(arguments)] \o CRLF \o Bulks(arguments)

-----------------------------------------------------------------------------
(* Replies. *)

\* Faulty variant (mutation testing): the text is used as it is.
SanitizeSimpleValueNot(value) == value

SanitizeSimpleValue(value) ==
    [i \in 1..Len(value) |-> IF value[i] \in {"CR", "LF"} THEN " " ELSE value[i]]

SimpleString(value) == <<"+">> \o SanitizeSimpleValue(value) \o CRLF

Error(message) == <<"-", "ERR">> \o SanitizeSimpleValue(message) \o CRLF

Integer(value) ==
    <<":">> \o (IF value < 0 THEN <<"-">> \o Numeral[-value] ELSE Numeral[value]) \o CRLF

Null(version) == IF version = "3" THEN <<"_">> \o CRLF ELSE <<"$", "-", "1">> \o CRLF

Array(values) == <<"*">> \o Numeral[Len(values)] \o CRLF \o Bulks(values)

\* Names and values in turn; "modules" comes last and has none.
HelloFields(version) ==
    <<<<"server">>, <<"radish">>, <<"version">>, <<"0.1">>, <<"proto">>, <<version>>,
      <<"mode">>, <<"standalone">>, <<"role">>, <<"master">>, <<"modules">>, <<>>>>

Hello(version) ==
    IF version = "2" THEN Array(HelloFields(version))
    ELSE <<"%", "6">> \o CRLF \o Bulks(SubSeq(HelloFields(version), 1, 10))
             \o Bulk(<<"modules">>) \o <<"*", "0">> \o CRLF
=============================================================================
