-------------------------- MODULE RespStreamProofs --------------------------
(***************************************************************************)
(* Proofs about RespCodec and RespStream: what the parser makes of a       *)
(* stream does not depend on where the reads cut it, it accepts nothing    *)
(* but what the bytes announce, and it undoes what the encoders do, for    *)
(* all bytes, limits, pipelines and replies.                               *)
(***************************************************************************)
EXTENDS RespStream, TLAPS, SequenceTheorems, WellFoundedInduction

-----------------------------------------------------------------------------
(* Loops. *)

\* A set of natural numbers has a least element.
LEMMA LeastNumber ==
    ASSUME NEW S, S \subseteq Nat, S # {}
    PROVE  \E x \in S : \A y \in S : y >= x
<1>1. PICK x \in S : \A y \in S : ~(<<y, x>> \in OpToRel(<, Nat))
  BY NatLessThanWellFounded, WFMin
<1>2. \A y \in S : ~(y < x)
  BY <1>1 DEF OpToRel
<1> QED
  BY <1>2

\* A loop of n iterations that starts with a and goes on with step.
Loop(h, a, n, step) ==
    /\ h[0] = a
    /\ \A i \in 1..n : h[i] = step[i][h[i - 1]]

LEMMA LoopExists ==
    ASSUME NEW S, NEW a \in S, NEW n \in Nat, NEW step \in [1..n -> [S -> S]]
    PROVE  \E h \in [0..n -> S] : Loop(h, a, n, step)
<1> DEFINE Reached == {m \in 0..n : \E h \in [0..m -> S] : Loop(h, a, m, step)}
           Bad == (0..n) \ Reached
<1> SUFFICES ASSUME Bad # {} PROVE FALSE
  OBVIOUS
<1>1. PICK m \in Bad : \A y \in Bad : y >= m
  <2>1. Bad \subseteq Nat
    OBVIOUS
  <2> HIDE DEF Bad
  <2> QED
    BY <2>1, LeastNumber
<1>2. m # 0
  <2> DEFINE z == [i \in 0..0 |-> a]
  <2>1. z \in [0..0 -> S] /\ Loop(z, a, 0, step)
    BY DEF Loop
  <2> QED
    BY <2>1
<1>3. m - 1 \in Reached
  BY <1>1, <1>2
<1>4. PICK h \in [0..(m - 1) -> S] : Loop(h, a, m - 1, step)
  BY <1>3
<1> DEFINE g == [i \in 0..m |-> IF i = m THEN step[m][h[m - 1]] ELSE h[i]]
<1>5. m \in 1..n
  BY <1>2
<1>6. step[m] \in [S -> S] /\ h[m - 1] \in S
  BY <1>5
<1>7. g \in [0..m -> S]
  BY <1>5, <1>6
<1>8. Loop(g, a, m, step)
  BY <1>4, <1>5 DEF Loop
<1>9. m \in Reached
  BY <1>5, <1>7, <1>8
<1> QED
  BY <1>9

\* A function that is defined along the natural numbers up to n from the value
\* before is the one that the loop goes through.
LEMMA LoopUnique ==
    ASSUME NEW a, NEW n \in Nat, NEW step, NEW h, Loop(h, a, n, step),
           NEW g, Loop(g, a, n, step)
    PROVE  \A i \in 0..n : g[i] = h[i]
<1> DEFINE Bad == {i \in 0..n : g[i] # h[i]}
<1> SUFFICES ASSUME Bad # {} PROVE FALSE
  OBVIOUS
<1>1. PICK m \in Bad : \A y \in Bad : y >= m
  <2>1. Bad \subseteq Nat
    OBVIOUS
  <2> HIDE DEF Bad
  <2> QED
    BY <2>1, LeastNumber
<1>2. m # 0
  BY DEF Loop
<1>3. m - 1 \in 0..n /\ m - 1 \notin Bad /\ m \in 1..n
  BY <1>1, <1>2
<1>4. g[m - 1] = h[m - 1]
  BY <1>3
<1> QED
  BY <1>3, <1>4 DEF Loop
-----------------------------------------------------------------------------
(* Bytes.  The set is STRING, but the provers do not know that literals are   *)
(* in it.                                                                     *)

Byte == STRING \cup {"*", "$", "+", "-", ":", "%", "_", "CR", "LF", " ", "ERR",
                     "0", "1", "2", "3", "4", "5", "6", "7", "8", "9",
                     "server", "radish", "version", "0.1", "proto", "mode", "standalone",
                     "role", "master", "modules"}

LEMMA ByteStrings ==
    /\ Seq(STRING) \subseteq Seq(Byte)
    /\ Seq(Seq(STRING)) \subseteq Seq(Seq(Byte))
    /\ Seq(Seq(Seq(STRING))) \subseteq Seq(Seq(Seq(Byte)))
<1>1. \A S, T : S \subseteq T => Seq(S) \subseteq Seq(T)
  OBVIOUS
<1>2. Seq(STRING) \subseteq Seq(Byte)
  <2> DEFINE S == STRING
  <2>1. S \subseteq Byte
    BY DEF Byte
  <2> HIDE DEF S
  <2>2. Seq(S) \subseteq Seq(Byte)
    BY <1>1, <2>1
  <2> QED
    BY <2>2, Zenon DEF S
<1> QED
  BY <1>1, <1>2, Zenon

-----------------------------------------------------------------------------
(* Numbers. *)

\* The number that a digit stands for.
DigitValue(b) == CHOOSE d \in 0..9 : Digit[d + 1] = b

LEMMA DigitFacts ==
    /\ \A b : IsDigit(b) => DigitValue(b) \in 0..9 /\ Digit[DigitValue(b) + 1] = b
    /\ \A d \in 0..9 : IsDigit(Digit[d + 1]) /\ DigitValue(Digit[d + 1]) = d
    /\ ~IsDigit("-") /\ ~IsDigit("CR") /\ ~IsDigit("LF")
    /\ \A d \in 1..10 : Digit[d] \in Byte
<1>1. \A b : IsDigit(b) => \E d \in 0..9 : Digit[d + 1] = b
  <2> SUFFICES ASSUME NEW b, IsDigit(b) PROVE \E d \in 0..9 : Digit[d + 1] = b
    OBVIOUS
  <2>1. PICK d \in 1..10 : Digit[d] = b
    BY DEF IsDigit
  <2>2. d - 1 \in 0..9 /\ (d - 1) + 1 = d
    OBVIOUS
  <2> QED
    BY <2>1, <2>2
<1>2. \A b : IsDigit(b) => DigitValue(b) \in 0..9 /\ Digit[DigitValue(b) + 1] = b
  BY <1>1 DEF DigitValue
<1>3. \A d, e \in 0..9 : Digit[d + 1] = Digit[e + 1] => d = e
  BY DEF Digit
<1>4. \A d \in 0..9 : IsDigit(Digit[d + 1])
  BY DEF IsDigit
<1>5. \A d \in 0..9 : DigitValue(Digit[d + 1]) = d
  BY <1>2, <1>3, <1>4
<1>6. ~IsDigit("-") /\ ~IsDigit("CR") /\ ~IsDigit("LF")
  BY DEF IsDigit, Digit
<1>7. \A d \in 1..10 : Digit[d] \in Byte
  <2>1. /\ "0" \in Byte /\ "1" \in Byte /\ "2" \in Byte /\ "3" \in Byte /\ "4" \in Byte
        /\ "5" \in Byte /\ "6" \in Byte /\ "7" \in Byte /\ "8" \in Byte /\ "9" \in Byte
    BY DEF Byte
  <2> QED
    BY <2>1 DEF Digit
<1> QED
  BY <1>2, <1>4, <1>5, <1>6, <1>7

\* The values of the beginnings of digits.
Values(h, digits) ==
    /\ h \in [0..Len(digits) -> Nat]
    /\ h[0] = 0
    /\ \A i \in 1..Len(digits) : h[i] = 10 * h[i - 1] + DigitValue(digits[i])

LEMMA DecimalValues ==
    ASSUME NEW digits \in Seq(Byte), \A i \in 1..Len(digits) : IsDigit(digits[i])
    PROVE  \E h : Values(h, digits) /\ Decimal(digits) = h[Len(digits)]
<1> DEFINE n == Len(digits)
           step == [i \in 1..n |-> [v \in Nat |-> 10 * v + DigitValue(digits[i])]]
           F(f) == [i \in 0..n |-> IF i = 0 THEN 0
                        ELSE 10 * f[i - 1] + DigitValue(digits[i])]
           rec == CHOOSE f : f = F(f)
<1>0. n \in Nat
  OBVIOUS
<1>1. \A i \in 1..n : DigitValue(digits[i]) \in Nat
  <2>1. \A b : IsDigit(b) => DigitValue(b) \in 0..9
    BY DigitFacts
  <2> QED
    BY <2>1
<1>2. step \in [1..n -> [Nat -> Nat]]
  <2>1. \A i \in 1..n, v \in Nat : 10 * v + DigitValue(digits[i]) \in Nat
    BY <1>1
  <2> QED
    BY <2>1
<1>3. \A i \in 1..n, v \in Nat : step[i][v] = 10 * v + DigitValue(digits[i])
  OBVIOUS
<1> HIDE DEF step
<1>4. PICK h \in [0..n -> Nat] : Loop(h, 0, n, step)
  BY <1>0, <1>2, LoopExists
<1>5. \A i \in 1..n : h[i - 1] \in Nat
  BY <1>0
<1>6. Values(h, digits)
  BY <1>3, <1>4, <1>5 DEF Values, Loop
<1>7. h = F(h)
  BY <1>6 DEF Values
<1>8. Decimal(digits) = rec[n]
  BY Zenon DEF Decimal, DigitValue
<1>9. rec = F(rec)
  BY <1>7, Zenon
<1> HIDE DEF rec
<1>10. rec[0] = 0 /\ \A i \in 1..n : rec[i] = 10 * rec[i - 1] + DigitValue(digits[i])
  BY <1>9, <1>0
<1> DEFINE Bad == {i \in 0..n : rec[i] # h[i]}
<1>11. Bad = {}
  <2> SUFFICES ASSUME Bad # {} PROVE FALSE
    OBVIOUS
  <2>1. PICK m \in Bad : \A y \in Bad : y >= m
    <3>1. Bad \subseteq Nat
      OBVIOUS
    <3> HIDE DEF Bad
    <3> QED
      BY <3>1, LeastNumber
  <2>2. m # 0
    BY <1>10, <1>6 DEF Values
  <2>3. m - 1 \in 0..n /\ m - 1 \notin Bad /\ m \in 1..n
    BY <2>1, <2>2
  <2>4. rec[m - 1] = h[m - 1]
    BY <2>3
  <2> QED
    BY <2>3, <2>4, <1>10, <1>6 DEF Values
<1>12. rec[n] = h[n]
  BY <1>11, <1>0
<1> QED
  BY <1>6, <1>8, <1>12
\* The number that a line says is an integer.
LEMMA IntegerOfType ==
    ASSUME NEW numeral \in Seq(Byte), IsNumeral(numeral)
    PROVE  /\ numeral # <<>> /\ Len(numeral) \in Nat \ {0}
           /\ IntegerOf(numeral) \in Int
           /\ \A i \in 1..Len(numeral) : numeral[i] # "CR"
<1>0. numeral # <<>> /\ Len(numeral) \in Nat \ {0}
  BY DEF IsNumeral
<1>1. CASE numeral[1] = "-"
  <2>1. /\ Tail(numeral) \in Seq(Byte) /\ Len(Tail(numeral)) = Len(numeral) - 1
        /\ \A i \in 1..Len(Tail(numeral)) : Tail(numeral)[i] = numeral[i + 1]
    BY <1>0
  <2>2. \A i \in 1..Len(Tail(numeral)) : IsDigit(Tail(numeral)[i])
    BY <1>0, <1>1 DEF IsNumeral
  <2>3. Decimal(Tail(numeral)) \in Nat
    <3>1. PICK h : Values(h, Tail(numeral)) /\ Decimal(Tail(numeral)) = h[Len(Tail(numeral))]
      BY <2>1, <2>2, DecimalValues
    <3>2. Len(Tail(numeral)) \in 0..Len(Tail(numeral))
      BY <2>1, <1>0
    <3> QED
      BY <3>1, <3>2 DEF Values
  <2>4. \A i \in 1..Len(numeral) : numeral[i] # "CR"
    <3> SUFFICES ASSUME NEW i \in 1..Len(numeral), i # 1 PROVE numeral[i] # "CR"
      BY <1>1
    <3>1. i - 1 \in 1..Len(Tail(numeral)) /\ Tail(numeral)[i - 1] = numeral[i]
      BY <2>1, <1>0
    <3>2. IsDigit(numeral[i])
      BY <3>1, <2>2
    <3> QED
      BY <3>2, DigitFacts
  <2> QED
    BY <1>0, <1>1, <2>3, <2>4 DEF IntegerOf
<1>2. CASE numeral[1] # "-"
  <2>2. \A i \in 1..Len(numeral) : IsDigit(numeral[i])
    BY <1>0, <1>2 DEF IsNumeral
  <2>3. Decimal(numeral) \in Nat
    <3>1. PICK h : Values(h, numeral) /\ Decimal(numeral) = h[Len(numeral)]
      BY <2>2, DecimalValues
    <3> QED
      BY <3>1, <1>0 DEF Values
  <2>4. \A i \in 1..Len(numeral) : numeral[i] # "CR"
    BY <2>2, DigitFacts
  <2> QED
    BY <1>0, <1>2, <2>3, <2>4 DEF IntegerOf
<1> QED
  BY <1>1, <1>2

\* The first terminator from position from on is at e.
FirstAt(input, from, e) ==
    /\ e \in from..(Len(input) - 1)
    /\ input[e] = "CR" /\ input[e + 1] = "LF"
    /\ \A j \in from..(e - 1) : ~(input[j] = "CR" /\ input[j + 1] = "LF")

LEMMA FirstTerminator ==
    ASSUME NEW input \in Seq(Byte), NEW from \in Nat \ {0}
    PROVE  /\ Terminators(input, from) # {} => \E e : FirstAt(input, from, e)
           /\ \A e : FirstAt(input, from, e) =>
                 /\ e \in Terminators(input, from)
                 /\ \A j \in Terminators(input, from) : e <= j
<1> DEFINE T == Terminators(input, from)
<1>1. ASSUME T # {} PROVE \E e : FirstAt(input, from, e)
  <2>1. T \subseteq Nat
    BY DEF Terminators
  <2>2. PICK e \in T : \A j \in T : j >= e
    BY <2>1, <1>1, LeastNumber
  <2>3. FirstAt(input, from, e)
    BY <2>2 DEF FirstAt, Terminators
  <2> QED
    BY <2>3
<1>2. ASSUME NEW e, FirstAt(input, from, e)
      PROVE  e \in T /\ \A j \in T : e <= j
  BY <1>2 DEF FirstAt, Terminators
<1> QED
  BY <1>1, <1>2

\* What ParseNumber does, by where the line ends.
LEMMA NumberCases ==
    ASSUME NEW input \in Seq(Byte), NEW from \in Nat \ {0}
    PROVE  /\ (\A e : ~FirstAt(input, from, e)) => ParseNumber(input, from) = NumberIncomplete
           /\ \A e : FirstAt(input, from, e) =>
                 ParseNumber(input, from) =
                     IF e = from THEN NumberError
                     ELSE FromChars(SubSeq(input, from, e - 1), e + 2)
<1> DEFINE T == Terminators(input, from)
           end == CHOOSE i \in T : \A j \in T : i <= j
<1>1. ASSUME \A e : ~FirstAt(input, from, e) PROVE ParseNumber(input, from) = NumberIncomplete
  BY <1>1, FirstTerminator DEF ParseNumber
<1>2. ASSUME NEW e, FirstAt(input, from, e)
      PROVE  ParseNumber(input, from) = IF e = from THEN NumberError
                                        ELSE FromChars(SubSeq(input, from, e - 1), e + 2)
  <2>1. e \in T /\ \A j \in T : e <= j
    BY <1>2, FirstTerminator
  <2>2. T \subseteq Int
    BY DEF Terminators
  <2>3. end \in T /\ \A j \in T : end <= j
    BY <2>1
  <2>4. end = e
    <3> HIDE DEF T, end
    <3> QED
      BY <2>1, <2>2, <2>3
  <2>5. ParseNumber(input, from) = IF end = from THEN NumberError
                                   ELSE FromChars(SubSeq(input, from, end - 1), end + 2)
    BY <2>1, Zenon DEF ParseNumber
  <2> QED
    BY <2>4, <2>5
<1> QED
  BY <1>1, <1>2
\* A number that was read ends with a terminator inside of the input.
LEMMA NumberComplete ==
    ASSUME NEW input \in Seq(Byte), NEW from \in Nat \ {0},
           ParseNumber(input, from).status = "Complete"
    PROVE  \E e \in (from + 1)..(Len(input) - 1) :
               /\ input[e] = "CR" /\ input[e + 1] = "LF"
               /\ SubSeq(input, from, e - 1) \in Seq(Byte)
               /\ IsNumeral(SubSeq(input, from, e - 1))
               /\ ParseNumber(input, from) = Parsed(IntegerOf(SubSeq(input, from, e - 1)), e + 2)
               /\ ParseNumber(input, from).value = IntegerOf(SubSeq(input, from, e - 1))
               /\ ParseNumber(input, from).value \in Int
               /\ ParseNumber(input, from).value <= MaxLongLong
               /\ ParseNumber(input, from).next = e + 2
<1>1. PICK e : FirstAt(input, from, e)
  BY NumberCases DEF NumberIncomplete
<1> DEFINE s == SubSeq(input, from, e - 1)
<1>2. e # from /\ ParseNumber(input, from) = FromChars(s, e + 2)
  BY <1>1, NumberCases DEF NumberError
<1>3. IsNumeral(s) /\ IntegerOf(s) <= MaxLongLong /\ FromChars(s, e + 2) = Parsed(IntegerOf(s), e + 2)
  <2> HIDE DEF s
  <2> QED
    BY <1>2 DEF FromChars, NumberError
<1>4. e \in (from + 1)..(Len(input) - 1) /\ input[e] = "CR" /\ input[e + 1] = "LF"
  BY <1>1, <1>2 DEF FirstAt
<1>5. s \in Seq(Byte)
  BY <1>4
<1>6. IntegerOf(s) \in Int
  BY <1>3, <1>5, IntegerOfType
<1> HIDE DEF s
<1>7. /\ ParseNumber(input, from).value = IntegerOf(s)
      /\ ParseNumber(input, from).next = e + 2
  BY <1>2, <1>3 DEF Parsed
<1> QED
  BY <1>2, <1>3, <1>4, <1>5, <1>6, <1>7 DEF s

\* The bytes more start with input.
Begins(more, input) ==
    /\ Len(input) <= Len(more)
    /\ \A i \in 1..Len(input) : more[i] = input[i]

\* Pieces of the input are the same pieces of whatever begins with it.
LEMMA BeginsPiece ==
    ASSUME NEW input \in Seq(Byte), NEW more \in Seq(Byte), Begins(more, input),
           NEW a \in Nat \ {0}, NEW b \in Int, b <= Len(input)
    PROVE  SubSeq(more, a, b) = SubSeq(input, a, b)
<1>1. /\ SubSeq(more, a, b) = [i \in 1..(b - a + 1) |-> more[a + i - 1]]
      /\ SubSeq(input, a, b) = [i \in 1..(b - a + 1) |-> input[a + i - 1]]
  OBVIOUS
<1>2. \A i \in 1..(b - a + 1) : more[a + i - 1] = input[a + i - 1]
  BY DEF Begins
<1> QED
  BY <1>1, <1>2

\* A number that is read, or refused, stays so when more bytes arrive.
LEMMA NumberStable ==
    ASSUME NEW input \in Seq(Byte), NEW more \in Seq(Byte), Begins(more, input),
           NEW from \in Nat \ {0}, ParseNumber(input, from).status # "Incomplete"
    PROVE  ParseNumber(more, from) = ParseNumber(input, from)
<1>1. PICK e : FirstAt(input, from, e)
  BY NumberCases DEF NumberIncomplete
<1>2. FirstAt(more, from, e)
  BY <1>1, SMTT(30) DEF FirstAt, Begins
<1>3. SubSeq(more, from, e - 1) = SubSeq(input, from, e - 1)
  <2>1. e - 1 \in Int /\ e - 1 <= Len(input)
    BY <1>1 DEF FirstAt
  <2> QED
    BY <2>1, BeginsPiece
<1>4. ParseNumber(input, from) = IF e = from THEN NumberError
                                 ELSE FromChars(SubSeq(input, from, e - 1), e + 2)
  BY <1>1, NumberCases
<1>5. ParseNumber(more, from) = IF e = from THEN NumberError
                                ELSE FromChars(SubSeq(more, from, e - 1), e + 2)
  BY <1>2, NumberCases
<1> QED
  <2>1. CASE e = from
    BY <1>4, <1>5, <2>1
  <2>2. CASE e # from
    <3>1. ParseNumber(input, from) = FromChars(SubSeq(input, from, e - 1), e + 2)
      BY <1>4, <2>2
    <3>2. ParseNumber(more, from) = FromChars(SubSeq(more, from, e - 1), e + 2)
      BY <1>5, <2>2
    <3> QED
      BY <1>3, <3>1, <3>2, Zenon
  <2> QED
    BY <2>1, <2>2

LEMMA NumberStatus ==
    ASSUME NEW input \in Seq(Byte), NEW from \in Nat \ {0}
    PROVE  ParseNumber(input, from).status \in {"Complete", "Incomplete", "Error"}
BY DEF ParseNumber, NumberIncomplete, NumberError, FromChars, Parsed

-----------------------------------------------------------------------------
(* Requests. *)

\* What parsing some of the input can give.
Results(input) ==
    [status : {"Complete", "Incomplete", "Error"}, arguments : Seq(Seq(Byte)),
     consumed : 0..Len(input)]

LEMMA TerminatorAt ==
    ASSUME NEW s \in Seq(Byte), NEW k \in 1..(Len(s) - 1)
    PROVE  SubSeq(s, k, k + 1) = CRLF <=> s[k] = "CR" /\ s[k + 1] = "LF"
<1> DEFINE p == SubSeq(s, k, k + 1)
<1>1. p = [i \in 1..(k + 1 - k + 1) |-> s[k + i - 1]]
  OBVIOUS
<1>2. k + 1 - k + 1 = 2
  OBVIOUS
<1>3. p \in Seq(Byte) /\ Len(p) = 2 /\ p[1] = s[k] /\ p[2] = s[k + 1]
  <2>1. k \in 1..Len(s) /\ k + 1 \in 1..Len(s)
    OBVIOUS
  <2>2. p \in Seq(Byte)
    BY <2>1
  <2>3. p = [i \in 1..2 |-> s[k + i - 1]]
    BY <1>1, <1>2
  <2> HIDE DEF p
  <2>4. DOMAIN p = 1..2 /\ p[1] = s[k] /\ p[2] = s[k + 1]
    BY <2>3
  <2>5. Len(p) = 2
    BY <2>2, <2>4
  <2> QED
    BY <2>2, <2>4, <2>5
<1> HIDE DEF p
<1>4. p = CRLF <=> p[1] = "CR" /\ p[2] = "LF"
  BY <1>3 DEF CRLF
<1> QED
  BY <1>3, <1>4 DEF p

\* An argument of n bytes is announced at position at, by a line that ends at e.
BulkAt(input, at, e, n) ==
    /\ e \in (at + 2)..(Len(input) - 1)
    /\ n \in 0..kMaxBulkLength
    /\ e + n + 3 <= Len(input)
    /\ input[at] = "$"
    /\ IsNumeral(SubSeq(input, at + 1, e - 1))
    /\ IntegerOf(SubSeq(input, at + 1, e - 1)) = n
    /\ input[e] = "CR" /\ input[e + 1] = "LF"
    /\ input[e + n + 2] = "CR" /\ input[e + n + 3] = "LF"

WithBulk(input, sofar, e, n) ==
    RespParseResult("Complete",
        Append(sofar.arguments, SubSeq(input, e + 2, e + n + 1)), e + n + 3)

\* An argument that was read was announced.
LEMMA BulkComplete ==
    ASSUME NEW input \in Seq(Byte), NEW sofar \in Results(input),
           ParseBulk(input, sofar).status = "Complete"
    PROVE  \E e, n : /\ BulkAt(input, sofar.consumed + 1, e, n)
                     /\ ParseBulk(input, sofar) = WithBulk(input, sofar, e, n)
<1> DEFINE at     == sofar.consumed + 1
           length == ParseNumber(input, at + 1)
           end    == length.next + length.value
<1>0. at \in Nat \ {0} /\ at + 1 \in Nat \ {0}
  BY DEF Results
<1>1. /\ at <= Len(input) /\ input[at] = "$"
      /\ length.status # "Incomplete" /\ length.status # "Error"
      /\ ~(length.value < 0) /\ ~(length.value > kMaxBulkLength)
      /\ ~(Len(input) < end + 1)
      /\ SubSeq(input, end, end + 1) = CRLF
      /\ ParseBulk(input, sofar) = RespParseResult("Complete",
             Append(sofar.arguments, SubSeq(input, length.next, end - 1)), end + 1)
  <2> HIDE DEF length
  <2>1. \A x, y : RespParseResult(x, y, 0).status = x
    BY DEF RespParseResult
  <2> QED
    BY <2>1, <1>0 DEF ParseBulk, Incomplete, Malformed, length
<1>2. length.status = "Complete"
  BY <1>0, <1>1, NumberStatus
<1>3. PICK e \in (at + 2)..(Len(input) - 1) :
          /\ input[e] = "CR" /\ input[e + 1] = "LF"
          /\ IsNumeral(SubSeq(input, at + 1, e - 1))
          /\ length.value = IntegerOf(SubSeq(input, at + 1, e - 1))
          /\ length.value \in Int
          /\ length.next = e + 2
  <2>1. (at + 1) + 1 = at + 2
    BY <1>0
  <2> QED
    BY <1>0, <1>2, <2>1, NumberComplete, SMTT(30)
<1> DEFINE n == length.value
<1>4. n \in 0..kMaxBulkLength
  <2> HIDE DEF length
  <2> QED
    BY <1>1, <1>3, CodecAssumption, SMTT(30)
<1> HIDE DEF length
<1>5. /\ end = e + n + 2 /\ end + 1 = e + n + 3 /\ end - 1 = e + n + 1
      /\ e + n + 3 <= Len(input)
      /\ end \in 1..Len(input) /\ end + 1 \in 1..Len(input)
  <2>1. /\ at \in Nat \ {0} /\ e \in Nat /\ n \in Nat /\ Len(input) \in Nat
        /\ length.next = e + 2 /\ e >= at + 2
        /\ ~(Len(input) < end + 1)
    BY <1>0, <1>1, <1>3, <1>4, CodecAssumption, SMTT(30)
  <2>2. end = (e + 2) + n
    BY <2>1
  <2> HIDE DEF at, end, n
  <2> QED
    BY <2>1, <2>2
<1>6. input[end] = "CR" /\ input[end + 1] = "LF"
  <2> HIDE DEF end
  <2>1. end \in 1..(Len(input) - 1)
    BY <1>5
  <2> QED
    BY <2>1, <1>1, TerminatorAt
<1>7. BulkAt(input, at, e, n)
  BY <1>1, <1>3, <1>4, <1>5, <1>6 DEF BulkAt
<1>8. ParseBulk(input, sofar) = WithBulk(input, sofar, e, n)
  BY <1>1, <1>3, <1>5 DEF WithBulk
<1> QED
  BY <1>7, <1>8
LEMMA BulkType ==
    ASSUME NEW input \in Seq(Byte), NEW sofar \in Results(input)
    PROVE  ParseBulk(input, sofar) \in Results(input)
<1>1. CASE ParseBulk(input, sofar).status = "Complete"
  <2>1. PICK e, n : /\ BulkAt(input, sofar.consumed + 1, e, n)
                    /\ ParseBulk(input, sofar) = WithBulk(input, sofar, e, n)
    BY <1>1, BulkComplete
  <2>2. /\ sofar.consumed \in Nat /\ sofar.arguments \in Seq(Seq(Byte))
        /\ e \in Nat /\ n \in Nat /\ e + n + 3 <= Len(input) /\ Len(input) \in Nat
    BY <2>1, CodecAssumption DEF BulkAt, Results
  <2>3. SubSeq(input, e + 2, e + n + 1) \in Seq(Byte)
    BY <2>2
  <2>4. Append(sofar.arguments, SubSeq(input, e + 2, e + n + 1)) \in Seq(Seq(Byte))
    BY <2>2, <2>3
  <2>5. e + n + 3 \in 0..Len(input)
    BY <2>2
  <2> QED
    BY <2>1, <2>4, <2>5 DEF WithBulk, RespParseResult, Results
<1>2. CASE ParseBulk(input, sofar).status # "Complete"
  <2>1. ParseBulk(input, sofar) \in {Incomplete, Malformed}
    BY <1>2, Zenon DEF ParseBulk, RespParseResult
  <2>2. Incomplete \in Results(input) /\ Malformed \in Results(input)
    BY DEF Incomplete, Malformed, RespParseResult, Results
  <2> QED
    BY <2>1, <2>2
<1> QED
  BY <1>1, <1>2

\* An argument that is read, or refused, stays so when more bytes arrive.
LEMMA BulkStable ==
    ASSUME NEW input \in Seq(Byte), NEW more \in Seq(Byte), Begins(more, input),
           NEW sofar \in Results(input), ParseBulk(input, sofar).status # "Incomplete"
    PROVE  ParseBulk(more, sofar) = ParseBulk(input, sofar)
<1> DEFINE at   == sofar.consumed + 1
           l    == ParseNumber(input, at + 1)
           end  == l.next + l.value
           m    == ParseNumber(more, at + 1)
           endm == m.next + m.value
<1>0. at \in Nat \ {0} /\ at + 1 \in Nat \ {0} /\ Len(input) \in Nat /\ Len(more) \in Nat
  BY DEF Results
<1>1. at <= Len(input) /\ at <= Len(more) /\ more[at] = input[at]
  <2>1. at <= Len(input)
    BY <1>0 DEF ParseBulk, Incomplete, RespParseResult
  <2> QED
    BY <1>0, <2>1 DEF Begins
<1>b. ~(at > Len(input)) /\ ~(at > Len(more))
  BY <1>0, <1>1
<1>2. CASE input[at] # "$"
  BY <1>0, <1>1, <1>2 DEF ParseBulk
<1>3. CASE input[at] = "$"
  <2>1. l.status # "Incomplete"
    <3> HIDE DEF l
    <3> QED
      BY <1>0, <1>1, <1>3 DEF ParseBulk, Incomplete, RespParseResult, l
  <2>2. m = l
    BY <1>0, <2>1, NumberStable
  <2>3. endm = end
    BY <2>2
  <2>4. CASE l.status = "Error" \/ l.value < 0 \/ l.value > kMaxBulkLength
    <3> HIDE DEF l, m
    <3>1. ParseBulk(input, sofar) = Malformed
      BY <1>0, <1>1, <1>3, <2>1, <2>4 DEF ParseBulk, l
    <3>2. ParseBulk(more, sofar) = Malformed
      BY <1>0, <1>1, <1>3, <2>1, <2>2, <2>4 DEF ParseBulk, m
    <3> QED
      BY <3>1, <3>2
  <2>5. CASE ~(l.status = "Error" \/ l.value < 0 \/ l.value > kMaxBulkLength)
    <3> DEFINE Rest(i) ==
            IF Len(i) < end + 1 THEN Incomplete
            ELSE IF SubSeq(i, end, end + 1) # CRLF THEN Malformed
            ELSE RespParseResult("Complete", Append(sofar.arguments, SubSeq(i, l.next, end - 1)), end + 1)
    <3>1. ParseBulk(input, sofar) = Rest(input)
      <4> HIDE DEF l
      <4> QED
        BY <1>b, <1>3, <2>1, <2>5, Zenon DEF ParseBulk, l
    <3>2. ParseBulk(more, sofar) = Rest(more)
      <4> HIDE DEF l, m
      <4> QED
        BY <1>b, <1>1, <1>3, <2>1, <2>2, <2>5, Zenon DEF ParseBulk, m
    <3>3. l.status = "Complete"
      BY <1>0, <2>1, <2>5, NumberStatus
    <3>4. l.next \in Nat \ {0} /\ l.value \in Nat /\ end \in Nat \ {0}
      <4>1. PICK e \in (at + 1 + 1)..(Len(input) - 1) : l.value \in Int /\ l.next = e + 2
        BY <1>0, <3>3, NumberComplete
      <4> QED
        BY <1>0, <2>5, <4>1, SMTT(30)
    <3>5. ~(Len(input) < end + 1) /\ ~(Len(more) < end + 1)
      <4>1. ~(Len(input) < end + 1)
        BY <3>1 DEF Incomplete, RespParseResult
      <4> HIDE DEF end
      <4> QED
        BY <1>0, <3>4, <4>1 DEF Begins
    <3>6. end - 1 \in Int /\ end + 1 \in Int /\ end - 1 <= Len(input) /\ end + 1 <= Len(input)
      <4> HIDE DEF end
      <4> QED
        BY <1>0, <3>4, <3>5
    <3>7. /\ SubSeq(more, end, end + 1) = SubSeq(input, end, end + 1)
          /\ SubSeq(more, l.next, end - 1) = SubSeq(input, l.next, end - 1)
      <4> HIDE DEF end, l
      <4> QED
        BY <3>4, <3>6, BeginsPiece
    <3> HIDE DEF end, l
    <3>8. Rest(more) = Rest(input)
      BY <3>5, <3>7, Zenon
    <3> QED
      BY <3>1, <3>2, <3>8
  <2> QED
    BY <2>4, <2>5
<1> QED
  BY <1>2, <1>3
\* The number of arguments is announced and within the limit.
Announced(input) ==
    /\ input # <<>> /\ input[1] = "*"
    /\ ParseNumber(input, 2).status = "Complete"
    /\ ParseNumber(input, 2).value \in 1..kMaxArguments

\* The results of the loop over n arguments from position start + 1 on.
ArgumentLoop(h, input, start, n) ==
    /\ h \in [0..n -> Results(input)]
    /\ h[0] = RespParseResult("Complete", <<>>, start)
    /\ \A i \in 1..n : h[i] = IF h[i - 1].status # "Complete" THEN h[i - 1]
                              ELSE ParseBulk(input, h[i - 1])

LEMMA ArgumentLoopExists ==
    ASSUME NEW input \in Seq(Byte), NEW start \in 0..Len(input), NEW n \in Nat
    PROVE  \E h : ArgumentLoop(h, input, start, n)
<1> DEFINE S == Results(input)
           a == RespParseResult("Complete", <<>>, start)
           step == [i \in 1..n |-> [r \in S |->
                        IF r.status # "Complete" THEN r ELSE ParseBulk(input, r)]]
<1>1. a \in S
  BY DEF RespParseResult, Results
<1>2. step \in [1..n -> [S -> S]]
  <2>1. \A r \in S : (IF r.status # "Complete" THEN r ELSE ParseBulk(input, r)) \in S
    BY BulkType
  <2> HIDE DEF S
  <2> QED
    BY <2>1
<1>3. \A i \in 1..n, r \in S :
          step[i][r] = IF r.status # "Complete" THEN r ELSE ParseBulk(input, r)
  OBVIOUS
<1> HIDE DEF step, a, S
<1>4. PICK h \in [0..n -> S] : Loop(h, a, n, step)
  BY <1>1, <1>2, LoopExists
<1>5. \A i \in 1..n : h[i] = IF h[i - 1].status # "Complete" THEN h[i - 1]
                             ELSE ParseBulk(input, h[i - 1])
  <2> TAKE i \in 1..n
  <2>1. i - 1 \in 0..n
    OBVIOUS
  <2>2. h[i - 1] \in S
    BY <2>1
  <2> QED
    BY <1>3, <1>4, <2>2 DEF Loop
<1>6. h[0] = a
  BY <1>4 DEF Loop
<1> QED
  BY <1>4, <1>5, <1>6 DEF ArgumentLoop, a, S

\* ParseCommand is that loop.
LEMMA CommandLoop ==
    ASSUME NEW input \in Seq(Byte), Announced(input),
           NEW h, ArgumentLoop(h, input, ParseNumber(input, 2).next - 1, ParseNumber(input, 2).value)
    PROVE  ParseCommand(input) = h[ParseNumber(input, 2).value]
<1> DEFINE count == ParseNumber(input, 2)
           n == count.value
           a == RespParseResult("Complete", <<>>, count.next - 1)
           F(f) == [i \in 0..count.value |->
                        IF i = 0 THEN RespParseResult("Complete", <<>>, count.next - 1)
                        ELSE IF f[i - 1].status # "Complete" THEN f[i - 1]
                        ELSE ParseBulk(input, f[i - 1])]
           rec == CHOOSE f : f = F(f)
<1>0. n \in Nat
  BY CodecAssumption DEF Announced
<1>1. h = F(h)
  <2> HIDE DEF count
  <2> QED
    BY <1>0 DEF ArgumentLoop, count
<1>2. ParseCommand(input) = rec[n]
  <2>1. ~(count.status = "Error" \/ count.value <= 0 \/ count.value > kMaxArguments)
    BY CodecAssumption DEF Announced
  <2>2. /\ ~(input = <<>>) /\ ~(input[1] # "*") /\ ~(count.status = "Incomplete")
    BY DEF Announced
  <2> QED
    BY <2>1, <2>2, Zenon DEF ParseCommand
<1>3. rec = F(rec)
  BY <1>1, Zenon
<1> HIDE DEF rec
<1>4. /\ rec[0] = RespParseResult("Complete", <<>>, count.next - 1)
      /\ \A i \in 1..n : rec[i] = IF rec[i - 1].status # "Complete" THEN rec[i - 1]
                                  ELSE ParseBulk(input, rec[i - 1])
  <2> HIDE DEF count
  <2> QED
    BY <1>0, <1>3
<1>h. /\ h[0] = RespParseResult("Complete", <<>>, count.next - 1)
      /\ \A i \in 1..n : h[i] = IF h[i - 1].status # "Complete" THEN h[i - 1]
                                  ELSE ParseBulk(input, h[i - 1])
  BY DEF ArgumentLoop
<1> HIDE DEF count, n
<1> DEFINE Bad == {i \in 0..n : rec[i] # h[i]}
<1>5. Bad = {}
  <2> SUFFICES ASSUME Bad # {} PROVE FALSE
    OBVIOUS
  <2>1. PICK m \in Bad : \A y \in Bad : y >= m
    <3>1. Bad \subseteq Nat
      BY <1>0
    <3> HIDE DEF Bad
    <3> QED
      BY <3>1, LeastNumber
  <2>2. m # 0
    BY <1>4, <1>h
  <2>3. m - 1 \in 0..n /\ m - 1 \notin Bad /\ m \in 1..n
    BY <1>0, <2>1, <2>2
  <2>4. rec[m - 1] = h[m - 1]
    BY <2>3
  <2>5. rec[m] = h[m]
    BY <2>3, <2>4, <1>4, <1>h
  <2> QED
    BY <2>1, <2>5
<1>6. n \in 0..n
  BY <1>0
<1> QED
  BY <1>2, <1>5, <1>6 DEF n, count

LEMMA CommandCases ==
    ASSUME NEW input \in Seq(Byte)
    PROVE  /\ Announced(input) =>
                 \E h : /\ ArgumentLoop(h, input, ParseNumber(input, 2).next - 1,
                                        ParseNumber(input, 2).value)
                        /\ ParseCommand(input) = h[ParseNumber(input, 2).value]
           /\ ~Announced(input) => ParseCommand(input) \in {Incomplete, Malformed}
           /\ ~Announced(input) =>
                 (ParseCommand(input) = Malformed <=>
                    /\ input # <<>>
                    /\ input[1] = "*" => ParseNumber(input, 2).status # "Incomplete")
<1> DEFINE count == ParseNumber(input, 2)
<1>1. ASSUME Announced(input)
      PROVE  \E h : /\ ArgumentLoop(h, input, count.next - 1, count.value)
                    /\ ParseCommand(input) = h[count.value]
  <2>1. count.next - 1 \in 0..Len(input) /\ count.value \in Nat
    <3>1. PICK e \in (2 + 1)..(Len(input) - 1) : count.next = e + 2
      BY <1>1, NumberComplete DEF Announced
    <3> QED
      BY <1>1, <3>1 DEF Announced
  <2>2. PICK h : ArgumentLoop(h, input, count.next - 1, count.value)
    BY <2>1, ArgumentLoopExists
  <2>3. ParseCommand(input) = h[count.value]
    BY <1>1, <2>2, CommandLoop
  <2> QED
    BY <2>2, <2>3
<1>2. ASSUME ~Announced(input)
      PROVE  /\ ParseCommand(input) \in {Incomplete, Malformed}
             /\ ParseCommand(input) = Malformed <=>
                   input # <<>> /\ (input[1] = "*" => count.status # "Incomplete")
  <2>0. Incomplete # Malformed
    BY DEF Incomplete, Malformed, RespParseResult
  <2>1. CASE input = <<>>
    BY <2>0, <2>1 DEF ParseCommand
  <2>2. CASE input # <<>> /\ input[1] # "*"
    BY <2>0, <2>2 DEF ParseCommand
  <2>3. CASE input # <<>> /\ input[1] = "*" /\ count.status = "Incomplete"
    BY <2>0, <2>3, Zenon DEF ParseCommand
  <2>4. CASE input # <<>> /\ input[1] = "*" /\ count.status # "Incomplete"
    <3>1. count.status = "Error" \/ count.value <= 0 \/ count.value > kMaxArguments
      <4> SUFFICES ASSUME count.status # "Error" PROVE count.value <= 0 \/ count.value > kMaxArguments
        OBVIOUS
      <4>1. count.status = "Complete"
        BY <2>4, NumberStatus
      <4>2. count.value \in Int
        BY <4>1, NumberComplete
      <4> QED
        BY <1>2, <2>4, <4>1, <4>2, CodecAssumption DEF Announced
    <3>2. ParseCommand(input) = Malformed
      BY <2>4, <3>1, Zenon DEF ParseCommand
    <3> QED
      BY <2>4, <3>2
  <2> QED
    BY <2>1, <2>2, <2>3, <2>4
<1> QED
  BY <1>1, <1>2
\* Along the loop a request is complete until it is not.
LEMMA LoopComplete ==
    ASSUME NEW input \in Seq(Byte), NEW start, NEW n \in Nat, NEW h, ArgumentLoop(h, input, start, n),
           h[n].status = "Complete"
    PROVE  \A i \in 0..n : h[i].status = "Complete"
<1> DEFINE Bad == {j \in 0..n : h[n - j].status # "Complete"}
<1> SUFFICES ASSUME Bad # {} PROVE FALSE
  <2>1. \A i \in 0..n : n - i \in 0..n /\ n - (n - i) = i
    OBVIOUS
  <2> QED
    BY <2>1
<1>1. PICK j \in Bad : \A y \in Bad : y >= j
  <2>1. Bad \subseteq Nat
    OBVIOUS
  <2> HIDE DEF Bad
  <2> QED
    BY <2>1, LeastNumber
<1>2. j # 0
  <2>1. n - 0 = n
    OBVIOUS
  <2> QED
    BY <2>1
<1>3. j - 1 \in 0..n /\ j - 1 \notin Bad /\ n - (j - 1) = (n - j) + 1 /\ n - (j - 1) \in 1..n
  <2>1. j \in 1..n
    BY <1>1, <1>2
  <2>2. j - 1 \in 0..n /\ ~(j - 1 >= j) /\ n - (j - 1) = (n - j) + 1 /\ n - (j - 1) \in 1..n
    BY <2>1
  <2> HIDE DEF Bad
  <2> QED
    BY <1>1, <2>2
<1>4. h[n - (j - 1)].status = "Complete" /\ h[n - j].status # "Complete"
  BY <1>1, <1>3
<1>5. (n - (j - 1)) - 1 = n - j
  OBVIOUS
<1>6. h[n - (j - 1)] = h[n - j]
  BY <1>3, <1>4, <1>5 DEF ArgumentLoop
<1> QED
  BY <1>4, <1>6

\* What the loop decides on a part of the bytes stays decided.
LEMMA LoopStable ==
    ASSUME NEW input \in Seq(Byte), NEW more \in Seq(Byte), Begins(more, input),
           NEW start, NEW n \in Nat,
           NEW h, ArgumentLoop(h, input, start, n), NEW g, ArgumentLoop(g, more, start, n)
    PROVE  \A i \in 0..n : h[i].status # "Incomplete" => g[i] = h[i]
<1> DEFINE Bad == {i \in 0..n : h[i].status # "Incomplete" /\ g[i] # h[i]}
<1> SUFFICES ASSUME Bad # {} PROVE FALSE
  OBVIOUS
<1>1. PICK m \in Bad : \A y \in Bad : y >= m
  <2>1. Bad \subseteq Nat
    OBVIOUS
  <2> HIDE DEF Bad
  <2> QED
    BY <2>1, LeastNumber
<1>2. m # 0
  BY DEF ArgumentLoop
<1>3. m - 1 \in 0..n /\ m - 1 \notin Bad /\ m \in 1..n
  BY <1>1, <1>2
<1>h. h[m] = IF h[m - 1].status # "Complete" THEN h[m - 1] ELSE ParseBulk(input, h[m - 1])
  BY <1>3 DEF ArgumentLoop
<1>g. g[m] = IF g[m - 1].status # "Complete" THEN g[m - 1] ELSE ParseBulk(more, g[m - 1])
  BY <1>3 DEF ArgumentLoop
<1>4. h[m - 1].status # "Incomplete"
  BY <1>1, <1>h
<1>5. g[m - 1] = h[m - 1]
  BY <1>3, <1>4
<1>6. h[m - 1].status = "Complete"
  BY <1>1, <1>h, <1>g, <1>5
<1>7. h[m - 1] \in Results(input)
  BY <1>3 DEF ArgumentLoop
<1>8. ParseBulk(more, h[m - 1]) = ParseBulk(input, h[m - 1])
  BY <1>1, <1>h, <1>6, <1>7, BulkStable
<1> QED
  BY <1>1, <1>h, <1>g, <1>5, <1>6, <1>8

\* What one read completes or refuses, no later one changes: ParseCommand, which
\* starts over on every read, commits to nothing too early.
LEMMA CommandStable ==
    ASSUME NEW input \in Seq(Byte), NEW more \in Seq(Byte), Begins(more, input),
           ParseCommand(input).status # "Incomplete"
    PROVE  ParseCommand(more) = ParseCommand(input)
<1> DEFINE count == ParseNumber(input, 2)
<1>0. Incomplete.status = "Incomplete" /\ Malformed.status = "Error"
  BY DEF Incomplete, Malformed, RespParseResult
<1>b. input # <<>> => more # <<>> /\ more[1] = input[1]
  BY DEF Begins
<1>1. CASE Announced(input)
  <2>1. ParseNumber(more, 2) = count
    BY <1>1, NumberStable DEF Announced
  <2>2. Announced(more)
    BY <1>1, <1>b, <2>1 DEF Announced
  <2>3. PICK h : ArgumentLoop(h, input, count.next - 1, count.value) /\ ParseCommand(input) = h[count.value]
    BY <1>1, CommandCases
  <2>4. PICK g : ArgumentLoop(g, more, count.next - 1, count.value) /\ ParseCommand(more) = g[count.value]
    BY <2>1, <2>2, CommandCases
  <2>5. count.value \in Nat /\ count.value \in 0..count.value
    BY <1>1, CodecAssumption DEF Announced
  <2> HIDE DEF count
  <2>6. g[count.value] = h[count.value]
    <3>1. h[count.value].status # "Incomplete"
      BY <2>3
    <3>2. \A i \in 0..count.value : h[i].status # "Incomplete" => g[i] = h[i]
      BY <2>3, <2>4, <2>5, LoopStable
    <3> QED
      BY <2>5, <3>1, <3>2
  <2> QED
    BY <2>3, <2>4, <2>6
<1>2. CASE ~Announced(input)
  <2>1. ParseCommand(input) = Malformed
    BY <1>0, <1>2, CommandCases
  <2>2. input # <<>> /\ (input[1] = "*" => count.status # "Incomplete")
    BY <1>2, <2>1, CommandCases
  <2>3. more # <<>> /\ more[1] = input[1]
    BY <1>b, <2>2
  <2>4. input[1] = "*" => ParseNumber(more, 2) = count
    BY <2>2, NumberStable
  <2>5. ~Announced(more)
    BY <1>2, <2>2, <2>3, <2>4 DEF Announced
  <2>6. ParseCommand(more) = Malformed
    BY <2>2, <2>3, <2>4, <2>5, CommandCases
  <2> QED
    BY <2>1, <2>6
<1> QED
  BY <1>1, <1>2

\* A request is a result of some of the input, and one that is complete has
\* consumed something.
LEMMA CommandType ==
    ASSUME NEW input \in Seq(Byte)
    PROVE  /\ ParseCommand(input) \in Results(input)
           /\ ParseCommand(input).status = "Complete" => ParseCommand(input).consumed \in 1..Len(input)
           /\ input = <<>> => ParseCommand(input).status = "Incomplete"
<1> DEFINE count == ParseNumber(input, 2)
           n == count.value
<1>0. /\ Incomplete \in Results(input) /\ Malformed \in Results(input)
      /\ Incomplete.status = "Incomplete" /\ Malformed.status = "Error"
  BY DEF Incomplete, Malformed, RespParseResult, Results
<1>e. input = <<>> => ParseCommand(input).status = "Incomplete"
  BY <1>0 DEF ParseCommand
<1>1. CASE Announced(input)
  <2>1. PICK h : ArgumentLoop(h, input, count.next - 1, n) /\ ParseCommand(input) = h[n]
    BY <1>1, CommandCases
  <2>2. n \in Nat \ {0} /\ n \in 0..n /\ n - 1 \in 0..n /\ n \in 1..n
    BY <1>1, CodecAssumption DEF Announced
  <2> HIDE DEF n, count
  <2>3. h[n] \in Results(input) /\ h[n - 1] \in Results(input)
    BY <2>1, <2>2 DEF ArgumentLoop
  <2>4. ASSUME h[n].status = "Complete" PROVE h[n].consumed \in 1..Len(input)
    <3>1. h[n - 1].status = "Complete"
      BY <2>1, <2>2, <2>4, LoopComplete
    <3>2. h[n] = ParseBulk(input, h[n - 1])
      BY <2>1, <2>2, <3>1 DEF ArgumentLoop
    <3>3. PICK e, k : BulkAt(input, h[n - 1].consumed + 1, e, k) /\ h[n] = WithBulk(input, h[n - 1], e, k)
      BY <2>3, <2>4, <3>2, BulkComplete
    <3>4. h[n].consumed = e + k + 3
      BY <3>3 DEF WithBulk, RespParseResult
    <3>5. h[n - 1].consumed \in Nat
      BY <2>3 DEF Results
    <3> QED
      BY <3>3, <3>4, <3>5, CodecAssumption DEF BulkAt
  <2> QED
    BY <1>e, <2>1, <2>3, <2>4
<1>2. CASE ~Announced(input)
  BY <1>0, <1>2, <1>e, CommandCases
<1> QED
  BY <1>1, <1>2
-----------------------------------------------------------------------------
(* Encoding numbers. *)

\* One more digit.
LEMMA DecimalAppend ==
    ASSUME NEW s \in Seq(Byte), \A i \in 1..Len(s) : IsDigit(s[i]), NEW b \in Byte, IsDigit(b)
    PROVE  Decimal(Append(s, b)) = 10 * Decimal(s) + DigitValue(b)
<1> DEFINE t == Append(s, b)
           n == Len(s)
<1>0. /\ t \in Seq(Byte) /\ n \in Nat /\ Len(t) = n + 1 /\ t[n + 1] = b
      /\ \A i \in 1..n : t[i] = s[i]
  OBVIOUS
<1>1. \A i \in 1..Len(t) : IsDigit(t[i])
  BY <1>0
<1>2. PICK h : Values(h, s) /\ Decimal(s) = h[n]
  BY DecimalValues
<1>3. PICK g : Values(g, t) /\ Decimal(t) = g[n + 1]
  <2> HIDE DEF t
  <2> QED
    BY <1>0, <1>1, DecimalValues
<1> HIDE DEF t, n
<1>h. /\ h[0] = 0 /\ \A i \in 1..n : h[i] = 10 * h[i - 1] + DigitValue(s[i])
  BY <1>2 DEF Values, n
<1>g. /\ g[0] = 0 /\ \A i \in 1..(n + 1) : g[i] = 10 * g[i - 1] + DigitValue(t[i])
  BY <1>0, <1>3 DEF Values
<1> DEFINE Bad == {i \in 0..n : g[i] # h[i]}
<1>5. Bad = {}
  <2> SUFFICES ASSUME Bad # {} PROVE FALSE
    OBVIOUS
  <2>1. PICK m \in Bad : \A y \in Bad : y >= m
    <3>1. Bad \subseteq Nat
      BY <1>0
    <3> HIDE DEF Bad
    <3> QED
      BY <3>1, LeastNumber
  <2>2. m # 0
    BY <1>g, <1>h
  <2>3. m - 1 \in 0..n /\ m - 1 \notin Bad /\ m \in 1..n /\ m \in 1..(n + 1)
    BY <1>0, <2>1, <2>2
  <2>4. g[m - 1] = h[m - 1]
    BY <2>3
  <2>5. g[m] = h[m]
    BY <1>0, <2>3, <2>4, <1>g, <1>h
  <2> QED
    BY <2>1, <2>5
<1>6. g[n] = h[n]
  BY <1>0, <1>5
<1>7. g[n + 1] = 10 * g[n] + DigitValue(t[n + 1])
  <2>1. n + 1 \in 1..(n + 1) /\ (n + 1) - 1 = n
    BY <1>0
  <2> QED
    BY <1>g, <2>1
<1> QED
  BY <1>0, <1>2, <1>3, <1>6, <1>7 DEF t

LEMMA SingleDigit ==
    ASSUME NEW b \in Byte, IsDigit(b)
    PROVE  Decimal(<<b>>) = DigitValue(b)
<1> DEFINE s == <<b>>
<1>0. s \in Seq(Byte) /\ Len(s) = 1 /\ s[1] = b
  OBVIOUS
<1> HIDE DEF s
<1>1. \A i \in 1..Len(s) : IsDigit(s[i])
  BY <1>0
<1>2. PICK h : Values(h, s) /\ Decimal(s) = h[Len(s)]
  BY <1>0, <1>1, DecimalValues
<1>3. h[0] = 0 /\ h[1] = 10 * h[1 - 1] + DigitValue(s[1])
  BY <1>0, <1>2 DEF Values
<1>4. DigitValue(b) \in 0..9 /\ 1 - 1 = 0
  BY DigitFacts
<1>5. h[1] = DigitValue(b)
  BY <1>0, <1>3, <1>4
<1> QED
  BY <1>0, <1>2, <1>5 DEF s

\* Dividing by ten.
LEMMA DivTen ==
    ASSUME NEW n \in Nat, n >= 10
    PROVE  /\ n \div 10 \in Nat /\ n \div 10 < n
           /\ n % 10 \in 0..9
           /\ n = 10 * (n \div 10) + (n % 10)
OBVIOUS

\* How Numeral goes on from what it is for smaller numbers.
NextNumeral(f, n) ==
    IF n < 10 THEN <<Digit[n + 1]>> ELSE Append(f[n \div 10], Digit[(n % 10) + 1])

\* f is Numeral up to m.
NumeralsTo(f, m) ==
    /\ f \in [0..m -> Seq(Byte)]
    /\ \A n \in 0..m : f[n] = NextNumeral(f, n)

LEMMA NextNumeralType ==
    ASSUME NEW m \in Nat, NEW f, \A i \in 0..(m - 1) : f[i] \in Seq(Byte)
    PROVE  NextNumeral(f, m) \in Seq(Byte)
<1>1. CASE m < 10
  <2>1. m + 1 \in 1..10
    BY <1>1
  <2>2. Digit[m + 1] \in Byte
    BY <2>1, DigitFacts
  <2> QED
    BY <1>1, <2>2 DEF NextNumeral
<1>2. CASE ~(m < 10)
  <2>1. m \div 10 \in 0..(m - 1) /\ (m % 10) + 1 \in 1..10
    BY <1>2, DivTen
  <2>2. f[m \div 10] \in Seq(Byte) /\ Digit[(m % 10) + 1] \in Byte
    BY <2>1, DigitFacts
  <2> QED
    BY <1>2, <2>2 DEF NextNumeral
<1> QED
  BY <1>1, <1>2

LEMMA NumeralsToExist ==
    ASSUME NEW k \in Nat
    PROVE  \E f : NumeralsTo(f, k)
<1> DEFINE Bad == {m \in Nat : ~\E f : NumeralsTo(f, m)}
<1> SUFFICES ASSUME Bad # {} PROVE FALSE
  OBVIOUS
<1>1. PICK m \in Bad : \A y \in Bad : y >= m
  <2>1. Bad \subseteq Nat
    OBVIOUS
  <2> HIDE DEF Bad
  <2> QED
    BY <2>1, LeastNumber
<1>2. \E f : /\ \A i \in 0..(m - 1) : f[i] \in Seq(Byte)
             /\ \A i \in 0..(m - 1) : f[i] = NextNumeral(f, i)
  <2>1. CASE m = 0
    <3>1. 0..(m - 1) = {}
      BY <2>1
    <3> QED
      BY <3>1
  <2>2. CASE m # 0
    <3>1. m - 1 \in Nat /\ m - 1 \notin Bad
      BY <1>1, <2>2
    <3>2. PICK f : NumeralsTo(f, m - 1)
      BY <3>1
    <3> QED
      BY <3>2 DEF NumeralsTo
  <2> QED
    BY <2>1, <2>2
<1>3. PICK f : /\ \A i \in 0..(m - 1) : f[i] \in Seq(Byte)
               /\ \A i \in 0..(m - 1) : f[i] = NextNumeral(f, i)
  BY <1>2
<1> DEFINE g == [i \in 0..m |-> IF i = m THEN NextNumeral(f, m) ELSE f[i]]
<1>4. NextNumeral(f, m) \in Seq(Byte)
  BY <1>3, NextNumeralType
<1>5. g \in [0..m -> Seq(Byte)]
  BY <1>3, <1>4
<1>6. \A i \in 0..m : NextNumeral(g, i) = NextNumeral(f, i)
  <2> TAKE i \in 0..m
  <2>1. CASE i < 10
    BY <2>1 DEF NextNumeral
  <2>2. CASE ~(i < 10)
    <3>1. i \div 10 \in 0..m /\ i \div 10 # m
      BY <2>2, DivTen
    <3>2. g[i \div 10] = f[i \div 10]
      BY <3>1
    <3> HIDE DEF g
    <3> QED
      BY <2>2, <3>2 DEF NextNumeral
  <2> QED
    BY <2>1, <2>2
<1>7. \A i \in 0..m : g[i] = NextNumeral(f, i)
  BY <1>3
<1> HIDE DEF g
<1>8. NumeralsTo(g, m)
  BY <1>5, <1>6, <1>7 DEF NumeralsTo
<1> QED
  BY <1>8

LEMMA NumeralsToAgree ==
    ASSUME NEW k \in Nat, NEW m \in Nat, k <= m, NEW f, NumeralsTo(f, k), NEW g, NumeralsTo(g, m)
    PROVE  \A i \in 0..k : g[i] = f[i]
<1> DEFINE Bad == {i \in 0..k : g[i] # f[i]}
<1> SUFFICES ASSUME Bad # {} PROVE FALSE
  OBVIOUS
<1>1. PICK i \in Bad : \A y \in Bad : y >= i
  <2>1. Bad \subseteq Nat
    OBVIOUS
  <2> HIDE DEF Bad
  <2> QED
    BY <2>1, LeastNumber
<1>2. f[i] = NextNumeral(f, i) /\ g[i] = NextNumeral(g, i)
  BY DEF NumeralsTo
<1>3. CASE i < 10
  BY <1>1, <1>2, <1>3 DEF NextNumeral
<1>4. CASE ~(i < 10)
  <2>1. i \div 10 \in 0..k /\ ~(i \div 10 >= i)
    BY <1>4, DivTen
  <2>2. g[i \div 10] = f[i \div 10]
    BY <1>1, <2>1
  <2>3. NextNumeral(g, i) = NextNumeral(f, i)
    BY <1>4, <2>2 DEF NextNumeral
  <2> QED
    BY <1>1, <1>2, <2>3
<1> QED
  BY <1>3, <1>4

\* The function that Numeral is defined as exists.
LEMMA NumeralUnfold ==
    \A n \in Nat : /\ Numeral[n] \in Seq(Byte)
                   /\ Numeral[n] = NextNumeral(Numeral, n)
<1> DEFINE To(n) == CHOOSE f : NumeralsTo(f, n)
           g == [n \in Nat |-> To(n)[n]]
           F(f) == [n \in Nat |-> IF n < 10 THEN <<Digit[n + 1]>>
                                  ELSE Append(f[n \div 10], Digit[(n % 10) + 1])]
<1>1. \A n \in Nat : NumeralsTo(To(n), n)
  BY NumeralsToExist
<1> HIDE DEF To
<1>2. \A n \in Nat : g[n] = NextNumeral(g, n) /\ g[n] \in Seq(Byte)
  <2> TAKE n \in Nat
  <2>1. To(n)[n] = NextNumeral(To(n), n) /\ To(n)[n] \in Seq(Byte)
    <3>1. n \in 0..n /\ NumeralsTo(To(n), n)
      BY <1>1
    <3> QED
      BY <3>1 DEF NumeralsTo
  <2>2. NextNumeral(To(n), n) = NextNumeral(g, n)
    <3>1. CASE n < 10
      BY <3>1 DEF NextNumeral
    <3>2. CASE ~(n < 10)
      <4>1. n \div 10 \in Nat /\ n \div 10 <= n
        BY <3>2, DivTen
      <4>2. To(n)[n \div 10] = To(n \div 10)[n \div 10]
        BY <1>1, <4>1, NumeralsToAgree
      <4>3. g[n \div 10] = To(n)[n \div 10]
        BY <4>1, <4>2
      <4> HIDE DEF g
      <4> QED
        BY <3>2, <4>3 DEF NextNumeral
    <3> QED
      BY <3>1, <3>2
  <2> QED
    BY <2>1, <2>2
<1>3. g = F(g)
  BY <1>2 DEF NextNumeral
<1>4. Numeral = F(Numeral)
  <2>1. Numeral = CHOOSE f : f = F(f)
    BY Zenon DEF Numeral
  <2> HIDE DEF g
  <2> QED
    BY <1>3, <2>1, Zenon
<1>5. \A n \in Nat : Numeral[n] = NextNumeral(Numeral, n)
  <2> TAKE n \in Nat
  <2>1. Numeral[n] = F(Numeral)[n]
    BY <1>4, Zenon
  <2> QED
    BY <2>1 DEF NextNumeral
<1> DEFINE Bad == {n \in Nat : Numeral[n] \notin Seq(Byte)}
<1>6. Bad = {}
  <2> SUFFICES ASSUME Bad # {} PROVE FALSE
    OBVIOUS
  <2>1. PICK m \in Bad : \A y \in Bad : y >= m
    <3>1. Bad \subseteq Nat
      OBVIOUS
    <3> HIDE DEF Bad
    <3> QED
      BY <3>1, LeastNumber
  <2>2. \A i \in 0..(m - 1) : Numeral[i] \in Seq(Byte)
    BY <2>1
  <2>3. NextNumeral(Numeral, m) \in Seq(Byte)
    BY <2>2, NextNumeralType
  <2> QED
    BY <1>5, <2>1, <2>3
<1> QED
  BY <1>5, <1>6
\* to_string and from_chars are inverse: the digits of n denote n.
LEMMA NumeralFacts ==
    ASSUME NEW k \in Nat
    PROVE  /\ Numeral[k] \in Seq(Byte) /\ Numeral[k] # <<>>
           /\ \A i \in 1..Len(Numeral[k]) : IsDigit(Numeral[k][i])
           /\ Decimal(Numeral[k]) = k
<1> DEFINE Good(n) == /\ Numeral[n] \in Seq(Byte) /\ Numeral[n] # <<>>
                      /\ \A i \in 1..Len(Numeral[n]) : IsDigit(Numeral[n][i])
                      /\ Decimal(Numeral[n]) = n
           Bad == {n \in Nat : ~Good(n)}
<1> SUFFICES ASSUME Bad # {} PROVE FALSE
  OBVIOUS
<1>1. PICK m \in Bad : \A y \in Bad : y >= m
  <2>1. Bad \subseteq Nat
    OBVIOUS
  <2> HIDE DEF Bad
  <2> QED
    BY <2>1, LeastNumber
<1>2. CASE m < 10
  <2>1. m \in 0..9 /\ m + 1 \in 1..10
    BY <1>2
  <2> DEFINE b == Digit[m + 1]
  <2>2. b \in Byte /\ IsDigit(b) /\ DigitValue(b) = m
    BY <2>1, DigitFacts
  <2>3. Numeral[m] = <<b>>
    BY <1>2, NumeralUnfold DEF NextNumeral
  <2> HIDE DEF b
  <2>4. Decimal(<<b>>) = m
    BY <2>2, SingleDigit
  <2>5. <<b>> \in Seq(Byte) /\ <<b>> # <<>> /\ \A i \in 1..Len(<<b>>) : IsDigit(<<b>>[i])
    BY <2>2
  <2>6. Good(m)
    BY <2>3, <2>4, <2>5
  <2> QED
    BY <1>1, <2>6
<1>3. CASE ~(m < 10)
  <2> DEFINE q == m \div 10
             b == Digit[(m % 10) + 1]
  <2>1. q \in Nat /\ q < m /\ m % 10 \in 0..9 /\ m = 10 * q + (m % 10)
    BY <1>3, DivTen
  <2>2. Numeral[m] = Append(Numeral[q], b)
    BY <1>3, NumeralUnfold DEF NextNumeral
  <2>3. Good(q)
    <3> HIDE DEF q
    <3>1. ~(q >= m) /\ q \in Nat
      BY <2>1
    <3>2. q \notin Bad
      <4> HIDE DEF Bad
      <4> QED
        BY <1>1, <3>1
    <3> HIDE DEF Good
    <3> QED
      BY <3>1, <3>2
  <2>4. b \in Byte /\ IsDigit(b) /\ DigitValue(b) = m % 10
    <3>1. (m % 10) + 1 \in 1..10
      BY <2>1
    <3> QED
      BY <2>1, <3>1, DigitFacts
  <2> DEFINE s == Numeral[q]
  <2>5. /\ s \in Seq(Byte) /\ s # <<>> /\ \A i \in 1..Len(s) : IsDigit(s[i])
        /\ Decimal(s) = q
    BY <2>3
  <2> HIDE DEF q, b, s
  <2>6. Decimal(Append(s, b)) = m
    BY <2>1, <2>4, <2>5, DecimalAppend
  <2>7. /\ Append(s, b) \in Seq(Byte) /\ Append(s, b) # <<>>
        /\ \A i \in 1..Len(Append(s, b)) : IsDigit(Append(s, b)[i])
    <3>1. Append(s, b) \in Seq(Byte) /\ Len(Append(s, b)) = Len(s) + 1
      BY <2>4, <2>5
    <3>2. Append(s, b) # <<>>
      BY <2>5, <3>1
    <3>3. ASSUME NEW i \in 1..Len(Append(s, b))
          PROVE  IsDigit(Append(s, b)[i])
      <4>1. i \in 1..Len(s) \/ i = Len(s) + 1
        BY <2>5, <3>1
      <4>2. CASE i \in 1..Len(s)
        <5>1. Append(s, b)[i] = s[i]
          BY <2>4, <2>5, <4>2
        <5> QED
          BY <2>5, <4>2, <5>1
      <4>3. CASE i = Len(s) + 1
        <5>1. Append(s, b)[i] = b
          BY <2>4, <2>5, <4>3
        <5> QED
          BY <2>4, <5>1
      <4> QED
        BY <4>1, <4>2, <4>3
    <3> QED
      BY <3>1, <3>2, <3>3
  <2>8. Good(m)
    BY <2>2, <2>6, <2>7 DEF s
  <2> QED
    BY <1>1, <2>8
<1> QED
  BY <1>2, <1>3

LEMMA NumeralReads ==
    ASSUME NEW k \in Nat
    PROVE  /\ Numeral[k] \in Seq(Byte) /\ Len(Numeral[k]) \in Nat \ {0}
           /\ IsNumeral(Numeral[k]) /\ IntegerOf(Numeral[k]) = k
           /\ \A i \in 1..Len(Numeral[k]) : Numeral[k][i] # "CR"
<1> DEFINE s == Numeral[k]
<1>1. /\ s \in Seq(Byte) /\ s # <<>> /\ \A i \in 1..Len(s) : IsDigit(s[i])
      /\ Decimal(s) = k
  BY NumeralFacts
<1> HIDE DEF s
<1>2. Len(s) \in Nat \ {0} /\ 1 \in 1..Len(s)
  BY <1>1
<1>3. s[1] # "-"
  BY <1>1, <1>2, DigitFacts
<1>4. \A i \in 1..Len(s) : s[i] # "CR"
  BY <1>1, DigitFacts
<1>5. IsNumeral(s) /\ IntegerOf(s) = k
  BY <1>1, <1>3 DEF IsNumeral, IntegerOf
<1> QED
  BY <1>1, <1>2, <1>4, <1>5 DEF s
-----------------------------------------------------------------------------
(* Encoding sequences. *)

\* h[i] is the first i elements of seqs, one after the other.
Joined(h, seqs) ==
    /\ h \in [0..Len(seqs) -> Seq(Byte)]
    /\ h[0] = <<>>
    /\ \A i \in 1..Len(seqs) : h[i] = h[i - 1] \o seqs[i]

LEMMA FlattenJoined ==
    ASSUME NEW seqs \in Seq(Seq(Byte))
    PROVE  \E h : Joined(h, seqs) /\ FlattenSeq(seqs) = h[Len(seqs)]
<1> DEFINE n == Len(seqs)
           S == Seq(Byte)
           step == [i \in 1..n |-> [s \in S |-> s \o seqs[i]]]
<1>0. n \in Nat /\ \A i \in 1..n : seqs[i] \in S
  OBVIOUS
<1>1. step \in [1..n -> [S -> S]]
  <2>1. \A i \in 1..n, s \in S : s \o seqs[i] \in S
    BY <1>0
  <2> HIDE DEF S
  <2> QED
    BY <2>1
<1>2. \A i \in 1..n, s \in S : step[i][s] = s \o seqs[i]
  OBVIOUS
<1>3. \E a \in S : a = <<>>
  <2>1. <<>> \in S
    OBVIOUS
  <2> HIDE DEF S
  <2> QED
    BY <2>1
<1> HIDE DEF step, S
<1>4. PICK h \in [0..n -> S] : Loop(h, <<>>, n, step)
  <2>1. PICK a \in S : a = <<>>
    BY <1>3
  <2>2. \E h \in [0..n -> S] : Loop(h, a, n, step)
    BY <1>0, <1>1, LoopExists
  <2> QED
    BY <2>1, <2>2
<1>5. \A i \in 1..n : h[i] = h[i - 1] \o seqs[i]
  <2> TAKE i \in 1..n
  <2>1. i - 1 \in 0..n
    BY <1>0
  <2>2. h[i - 1] \in S
    BY <2>1
  <2> QED
    BY <1>2, <1>4, <2>2 DEF Loop
<1>6. Joined(h, seqs)
  BY <1>4, <1>5 DEF Joined, Loop, S
<1>7. FlattenSeq(seqs) = h[n]
  <2>1. CASE n = 0
    <3>1. seqs = <<>>
      BY <2>1
    <3>2. FlattenSeq(seqs) = seqs
      BY <2>1, Zenon DEF FlattenSeq
    <3> QED
      BY <2>1, <3>1, <3>2, <1>6 DEF Joined
  <2>2. CASE n # 0
    <3> DEFINE F(f) == [i \in 1..Len(seqs) |-> IF i = 1 THEN seqs[i] ELSE f[i - 1] \o seqs[i]]
               rec == CHOOSE f : f = F(f)
               g == [i \in 1..n |-> h[i]]
    <3>1. FlattenSeq(seqs) = rec[n]
      BY <2>2, Zenon DEF FlattenSeq
    <3>2. h[1] = seqs[1]
      <4>1. 1 \in 1..n /\ 1 - 1 = 0
        BY <1>0, <2>2
      <4>2. h[1] = h[0] \o seqs[1] /\ h[0] = <<>>
        <5>1. h[1] = h[1 - 1] \o seqs[1]
          BY <4>1, <1>5
        <5> QED
          BY <4>1, <5>1, <1>6 DEF Joined
      <4>3. seqs[1] \in Seq(Byte)
        BY <4>1
      <4>4. <<>> \o seqs[1] = seqs[1]
        BY <4>3
      <4> QED
        BY <4>2, <4>4
    <3>3. g = F(g)
      <4>1. \A i \in 1..n : g[i] = IF i = 1 THEN seqs[i] ELSE g[i - 1] \o seqs[i]
        <5> TAKE i \in 1..n
        <5>1. CASE i = 1
          BY <3>2, <5>1
        <5>2. CASE i # 1
          <6>1. i - 1 \in 1..n
            BY <1>0, <5>2
          <6> QED
            BY <1>5, <5>2, <6>1
        <5> QED
          BY <5>1, <5>2
      <4> QED
        BY <4>1
    <3>4. rec = F(rec)
      <4> HIDE DEF g
      <4> QED
        BY <3>3, Zenon
    <3> HIDE DEF rec, n
    <3>5. \A i \in 1..n : rec[i] = IF i = 1 THEN seqs[i] ELSE rec[i - 1] \o seqs[i]
      <4>1. \A i \in 1..Len(seqs) : F(rec)[i] = IF i = 1 THEN seqs[i] ELSE rec[i - 1] \o seqs[i]
        OBVIOUS
      <4> HIDE DEF F
      <4> QED
        BY <3>4, <4>1 DEF n
    <3> HIDE DEF F, g
    <3> DEFINE Bad == {i \in 1..n : rec[i] # h[i]}
    <3>6. Bad = {}
      <4> SUFFICES ASSUME Bad # {} PROVE FALSE
        OBVIOUS
      <4>1. PICK m \in Bad : \A y \in Bad : y >= m
        <5>1. Bad \subseteq Nat
          BY <1>0
        <5> HIDE DEF Bad
        <5> QED
          BY <5>1, LeastNumber
      <4>2. m # 1
        BY <3>2, <3>5
      <4>3. m - 1 \in 1..n /\ m - 1 \notin Bad /\ m \in 1..n
        BY <1>0, <4>1, <4>2
      <4>4. rec[m - 1] = h[m - 1]
        BY <4>3
      <4>5. rec[m] = h[m]
        BY <1>5, <3>5, <4>2, <4>3, <4>4
      <4> QED
        BY <4>1, <4>5
    <3>7. n \in 1..n
      BY <1>0, <2>2
    <3> QED
      BY <3>1, <3>6, <3>7
  <2> QED
    BY <2>1, <2>2
<1> QED
  BY <1>6, <1>7

LEMMA FlattenType ==
    ASSUME NEW seqs \in Seq(Seq(Byte))
    PROVE  FlattenSeq(seqs) \in Seq(Byte)
<1>1. PICK h : Joined(h, seqs) /\ FlattenSeq(seqs) = h[Len(seqs)]
  BY FlattenJoined
<1>2. Len(seqs) \in 0..Len(seqs)
  OBVIOUS
<1> QED
  BY <1>1, <1>2 DEF Joined

\* part is what is in bytes from position at + 1 on.
Holds(bytes, at, part) ==
    /\ at + Len(part) <= Len(bytes)
    /\ \A i \in 1..Len(part) : bytes[at + i] = part[i]

LEMMA ConcatHolds ==
    ASSUME NEW s \in Seq(Byte), NEW t \in Seq(Byte)
    PROVE  /\ s \o t \in Seq(Byte) /\ Len(s \o t) = Len(s) + Len(t)
           /\ Holds(s \o t, 0, s) /\ Holds(s \o t, Len(s), t)
BY DEF Holds

LEMMA HoldsPart ==
    ASSUME NEW bytes \in Seq(Byte), NEW s \in Seq(Byte), NEW t \in Seq(Byte), NEW at \in Nat,
           NEW k \in Nat, Holds(bytes, at, s), Holds(s, k, t)
    PROVE  Holds(bytes, at + k, t)
<1>1. \A i \in 1..Len(t) : bytes[(at + k) + i] = t[i]
  <2> TAKE i \in 1..Len(t)
  <2>1. k + i \in 1..Len(s) /\ at + (k + i) = (at + k) + i
    BY DEF Holds
  <2> QED
    BY <2>1 DEF Holds
<1>2. (at + k) + Len(t) <= Len(bytes)
  BY DEF Holds
<1> QED
  BY <1>1, <1>2 DEF Holds

\* A concatenation is in the bytes where its halves are, one after the other.
LEMMA HoldsConcat ==
    ASSUME NEW bytes \in Seq(Byte), NEW s \in Seq(Byte), NEW t \in Seq(Byte), NEW at \in Nat
    PROVE  Holds(bytes, at, s \o t) <=> Holds(bytes, at, s) /\ Holds(bytes, at + Len(s), t)
<1>1. Len(s \o t) = Len(s) + Len(t) /\ s \o t \in Seq(Byte)
  OBVIOUS
<1>2. ASSUME Holds(bytes, at, s \o t) PROVE Holds(bytes, at, s) /\ Holds(bytes, at + Len(s), t)
  <2>1. Holds(bytes, at + 0, s)
    BY <1>1, <1>2, ConcatHolds, HoldsPart
  <2>2. Holds(bytes, at + Len(s), t)
    <3>1. Holds(s \o t, Len(s), t) /\ Len(s) \in Nat
      BY ConcatHolds
    <3> QED
      BY <1>1, <1>2, <3>1, HoldsPart
  <2>3. at + 0 = at
    OBVIOUS
  <2> QED
    BY <2>1, <2>2, <2>3
<1>3. ASSUME Holds(bytes, at, s), Holds(bytes, at + Len(s), t) PROVE Holds(bytes, at, s \o t)
  <2>1. \A i \in 1..(Len(s) + Len(t)) : bytes[at + i] = (s \o t)[i]
    <3> TAKE i \in 1..(Len(s) + Len(t))
    <3>1. CASE i <= Len(s)
      BY <1>3, <3>1 DEF Holds
    <3>2. CASE ~(i <= Len(s))
      <4>1. i - Len(s) \in 1..Len(t) /\ (at + Len(s)) + (i - Len(s)) = at + i
        BY <3>2
      <4>2. (s \o t)[i] = t[i - Len(s)]
        BY <3>2
      <4> QED
        BY <1>3, <4>1, <4>2 DEF Holds
    <3> QED
      BY <3>1, <3>2
  <2> QED
    BY <1>1, <1>3, <2>1 DEF Holds
<1> QED
  BY <1>2, <1>3

\* Where the elements of a flattened sequence are.
LEMMA JoinedHolds ==
    ASSUME NEW seqs \in Seq(Seq(Byte)), NEW h, Joined(h, seqs), NEW bytes \in Seq(Byte),
           NEW at \in Nat, Holds(bytes, at, h[Len(seqs)])
    PROVE  \A i \in 0..Len(seqs) :
               /\ Holds(bytes, at, h[i]) /\ Len(h[i]) \in Nat
               /\ i # 0 => /\ Holds(bytes, at + Len(h[i - 1]), seqs[i])
                           /\ Len(h[i]) = Len(h[i - 1]) + Len(seqs[i])
<1> DEFINE n == Len(seqs)
           Bad == {j \in 0..n : ~Holds(bytes, at, h[n - j])}
<1>0. /\ n \in Nat /\ \A i \in 0..n : h[i] \in Seq(Byte)
      /\ \A i \in 1..n : seqs[i] \in Seq(Byte) /\ i - 1 \in 0..n /\ h[i] = h[i - 1] \o seqs[i]
  BY SMTT(30) DEF Joined
<1>1. Bad = {}
  <2> SUFFICES ASSUME Bad # {} PROVE FALSE
    OBVIOUS
  <2>1. PICK j \in Bad : \A y \in Bad : y >= j
    <3>1. Bad \subseteq Nat
      BY <1>0
    <3> HIDE DEF Bad
    <3> QED
      BY <3>1, LeastNumber
  <2>2. j # 0
    <3>1. n - 0 = n
      BY <1>0
    <3> QED
      BY <3>1
  <2>3. j - 1 \in 0..n /\ j - 1 \notin Bad
    <3>1. j \in 1..n
      BY <2>1, <2>2
    <3>2. j - 1 \in 0..n /\ ~(j - 1 >= j)
      BY <1>0, <3>1
    <3> HIDE DEF Bad
    <3> QED
      BY <2>1, <3>2
  <2> DEFINE i == n - (j - 1)
  <2>4. i \in 1..n /\ i - 1 = n - j /\ Holds(bytes, at, h[i])
    <3>1. j \in 1..n
      BY <2>1, <2>2
    <3> QED
      BY <1>0, <2>3, <3>1
  <2> HIDE DEF i
  <2>5. Holds(bytes, at, h[i - 1] \o seqs[i]) /\ h[i - 1] \in Seq(Byte) /\ seqs[i] \in Seq(Byte)
    BY <1>0, <2>4
  <2>6. Holds(bytes, at, h[i - 1])
    BY <2>5, HoldsConcat
  <2> QED
    BY <2>1, <2>4, <2>6
<1>2. \A i \in 0..n : Holds(bytes, at, h[i])
  <2> TAKE i \in 0..n
  <2>1. n - i \in 0..n /\ n - (n - i) = i
    BY <1>0
  <2> QED
    BY <1>1, <2>1
<1> HIDE DEF Bad
<1> SUFFICES ASSUME NEW i \in 0..n
             PROVE  /\ Holds(bytes, at, h[i]) /\ Len(h[i]) \in Nat
                    /\ i # 0 => /\ Holds(bytes, at + Len(h[i - 1]), seqs[i])
                                /\ Len(h[i]) = Len(h[i - 1]) + Len(seqs[i])
  OBVIOUS
<1>3. Len(h[i]) \in Nat
  BY <1>0
<1>4. ASSUME i # 0 PROVE /\ Holds(bytes, at + Len(h[i - 1]), seqs[i])
                         /\ Len(h[i]) = Len(h[i - 1]) + Len(seqs[i])
  <2>1. i \in 1..n
    BY <1>4, <1>0
  <2>2. h[i] = h[i - 1] \o seqs[i] /\ h[i - 1] \in Seq(Byte) /\ seqs[i] \in Seq(Byte)
    BY <1>0, <2>1
  <2>3. Holds(bytes, at, h[i - 1] \o seqs[i])
    BY <1>2, <2>2
  <2>4. Len(h[i - 1] \o seqs[i]) = Len(h[i - 1]) + Len(seqs[i])
    BY <2>2
  <2>5. Holds(bytes, at + Len(h[i - 1]), seqs[i])
    BY <2>2, <2>3, HoldsConcat
  <2> QED
    BY <2>2, <2>4, <2>5
<1> QED
  BY <1>2, <1>3, <1>4
LEMMA ProtocolBytes ==
    /\ "*" \in Byte /\ "$" \in Byte /\ "+" \in Byte /\ "-" \in Byte /\ ":" \in Byte
    /\ "%" \in Byte /\ "_" \in Byte /\ "CR" \in Byte /\ "LF" \in Byte /\ " " \in Byte
    /\ "ERR" \in Byte /\ "0" \in Byte /\ "1" \in Byte /\ "6" \in Byte
BY DEF Byte

LEMMA TerminatorBytes ==
    CRLF \in Seq(Byte) /\ Len(CRLF) = 2 /\ CRLF[1] = "CR" /\ CRLF[2] = "LF"
<1>1. \A a, b \in Byte : <<a, b>> \in Seq(Byte)
  OBVIOUS
<1>2. CRLF \in Seq(Byte)
  BY <1>1, ProtocolBytes, Zenon DEF CRLF
<1>3. Len(CRLF) = 2 /\ CRLF[1] = "CR" /\ CRLF[2] = "LF"
  BY DEF CRLF
<1> QED
  BY <1>2, <1>3

\* A line: a mark, a text and the terminator.
LEMMA LineType ==
    ASSUME NEW b \in Byte, NEW text \in Seq(Byte)
    PROVE  /\ <<b>> \o text \o CRLF \in Seq(Byte)
           /\ Len(<<b>> \o text \o CRLF) = Len(text) + 3
<1>1. <<b>> \in Seq(Byte) /\ Len(<<b>>) = 1
  OBVIOUS
<1>2. <<b>> \o text \in Seq(Byte) /\ Len(<<b>> \o text) = 1 + Len(text)
  BY <1>1
<1>3. /\ (<<b>> \o text) \o CRLF \in Seq(Byte)
      /\ Len((<<b>> \o text) \o CRLF) = Len(<<b>> \o text) + Len(CRLF)
  BY <1>2, TerminatorBytes, ConcatHolds
<1>4. (1 + Len(text)) + 2 = Len(text) + 3
  OBVIOUS
<1> QED
  BY <1>2, <1>3, <1>4, TerminatorBytes

\* Where the parts of a line are.
LEMMA LineHolds ==
    ASSUME NEW bytes \in Seq(Byte), NEW at \in Nat, NEW b \in Byte, NEW text \in Seq(Byte),
           Holds(bytes, at, <<b>> \o text \o CRLF)
    PROVE  /\ bytes[at + 1] = b
           /\ Holds(bytes, at + 1, text)
           /\ at + Len(text) + 3 <= Len(bytes)
           /\ bytes[at + Len(text) + 2] = "CR" /\ bytes[at + Len(text) + 3] = "LF"
<1> DEFINE m == <<b>>
<1>1. m \in Seq(Byte) /\ Len(m) = 1 /\ m[1] = b
  OBVIOUS
<1> HIDE DEF m
<1>2. m \o text \in Seq(Byte) /\ Len(m \o text) = 1 + Len(text)
  BY <1>1, ConcatHolds
<1>3. Holds(bytes, at, (m \o text) \o CRLF)
  BY DEF m
<1>4. Holds(bytes, at, m \o text) /\ Holds(bytes, at + (1 + Len(text)), CRLF)
  BY <1>2, <1>3, HoldsConcat, TerminatorBytes
<1>5. Holds(bytes, at, m) /\ Holds(bytes, at + 1, text)
  BY <1>1, <1>4, HoldsConcat
<1>6. bytes[at + 1] = b
  BY <1>1, <1>5 DEF Holds
<1>7. /\ (at + (1 + Len(text))) + 2 <= Len(bytes)
      /\ bytes[(at + (1 + Len(text))) + 1] = "CR" /\ bytes[(at + (1 + Len(text))) + 2] = "LF"
  <2> DEFINE k == at + (1 + Len(text))
  <2>1. k + Len(CRLF) <= Len(bytes) /\ \A i \in 1..Len(CRLF) : bytes[k + i] = CRLF[i]
    BY <1>4 DEF Holds
  <2> HIDE DEF k
  <2>2. k + 2 <= Len(bytes) /\ bytes[k + 1] = "CR" /\ bytes[k + 2] = "LF"
    BY <2>1, TerminatorBytes
  <2> QED
    BY <2>2 DEF k
<1>8. /\ (at + (1 + Len(text))) + 1 = at + Len(text) + 2
      /\ (at + (1 + Len(text))) + 2 = at + Len(text) + 3
  OBVIOUS
<1> QED
  BY <1>5, <1>6, <1>7, <1>8

LEMMA BulkEncoding ==
    ASSUME NEW data \in Seq(Byte)
    PROVE  /\ Bulk(data) \in Seq(Byte)
           /\ Len(Bulk(data)) = Len(Numeral[Len(data)]) + Len(data) + 5
           /\ \A bytes \in Seq(Byte), at \in Nat : Holds(bytes, at, Bulk(data)) =>
                 /\ Holds(bytes, at, <<"$">> \o Numeral[Len(data)] \o CRLF)
                 /\ Holds(bytes, at + Len(Numeral[Len(data)]) + 3, data)
                 /\ Holds(bytes, at + Len(Numeral[Len(data)]) + 3 + Len(data), CRLF)
<1> DEFINE num == Numeral[Len(data)]
           line == <<"$">> \o num \o CRLF
<1>1. num \in Seq(Byte) /\ Len(num) \in Nat
  BY NumeralReads
<1>2. line \in Seq(Byte) /\ Len(line) = Len(num) + 3
  <2> HIDE DEF num
  <2> QED
    BY <1>1, LineType, ProtocolBytes
<1>3. Bulk(data) = (line \o data) \o CRLF
  <2>1. Bulk(data) = <<"$">> \o num \o CRLF \o data \o CRLF
    BY DEF Bulk
  <2> QED
    BY <2>1
<1> HIDE DEF line, num
<1>4. /\ line \o data \in Seq(Byte) /\ Len(line \o data) = Len(num) + 3 + Len(data)
      /\ (line \o data) \o CRLF \in Seq(Byte)
      /\ Len((line \o data) \o CRLF) = Len(num) + Len(data) + 5
  <2>1. line \o data \in Seq(Byte) /\ Len(line \o data) = Len(num) + 3 + Len(data)
    BY <1>1, <1>2, ConcatHolds
  <2>2. /\ (line \o data) \o CRLF \in Seq(Byte)
        /\ Len((line \o data) \o CRLF) = Len(line \o data) + Len(CRLF)
    BY <2>1, TerminatorBytes, ConcatHolds
  <2>3. Len((line \o data) \o CRLF) = (Len(num) + 3 + Len(data)) + 2
    BY <2>1, <2>2, TerminatorBytes
  <2> QED
    BY <1>1, <2>1, <2>2, <2>3
<1>5. ASSUME NEW bytes \in Seq(Byte), NEW at \in Nat, Holds(bytes, at, Bulk(data))
      PROVE  /\ Holds(bytes, at, line)
             /\ Holds(bytes, at + Len(num) + 3, data)
             /\ Holds(bytes, at + Len(num) + 3 + Len(data), CRLF)
  <2>1. Holds(bytes, at, line \o data) /\ Holds(bytes, at + (Len(num) + 3 + Len(data)), CRLF)
    <3>1. Holds(bytes, at, (line \o data) \o CRLF)
      BY <1>3, <1>5
    <3>2. Holds(bytes, at, line \o data) /\ Holds(bytes, at + Len(line \o data), CRLF)
      BY <1>4, <3>1, HoldsConcat, TerminatorBytes
    <3> QED
      BY <1>4, <3>2
  <2>2. Holds(bytes, at, line) /\ Holds(bytes, at + (Len(num) + 3), data)
    BY <1>2, <2>1, HoldsConcat
  <2>3. /\ at + (Len(num) + 3) = at + Len(num) + 3
        /\ at + (Len(num) + 3 + Len(data)) = at + Len(num) + 3 + Len(data)
    BY <1>1
  <2> QED
    BY <2>1, <2>2, <2>3
<1> QED
  BY <1>3, <1>4, <1>5 DEF line, num
-----------------------------------------------------------------------------
(* Reading what was encoded. *)

\* What Holds says as a piece of the bytes.
LEMMA HoldsPiece ==
    ASSUME NEW bytes \in Seq(Byte), NEW at \in Nat, NEW part \in Seq(Byte), Holds(bytes, at, part)
    PROVE  SubSeq(bytes, at + 1, at + Len(part)) = part
<1> DEFINE s == SubSeq(bytes, at + 1, at + Len(part))
<1>1. (at + Len(part)) - (at + 1) + 1 = Len(part)
  OBVIOUS
<1>2. /\ s = [i \in 1..((at + Len(part)) - (at + 1) + 1) |-> bytes[(at + 1) + i - 1]]
  BY DEF Holds
<1>3. \A i \in 1..Len(part) : bytes[(at + 1) + i - 1] = part[i]
  <2> TAKE i \in 1..Len(part)
  <2>1. (at + 1) + i - 1 = at + i
    OBVIOUS
  <2> QED
    BY <2>1 DEF Holds
<1> HIDE DEF s
<1>4. s = [i \in 1..Len(part) |-> part[i]]
  BY <1>1, <1>2, <1>3
<1>5. part = [i \in 1..Len(part) |-> part[i]]
  OBVIOUS
<1> QED
  BY <1>4, <1>5 DEF s

\* A line whose text has no terminator in it ends where it was ended.
LEMMA LineEnds ==
    ASSUME NEW bytes \in Seq(Byte), NEW at \in Nat, NEW b \in Byte, NEW text \in Seq(Byte),
           Holds(bytes, at, <<b>> \o text \o CRLF), \A i \in 1..Len(text) : text[i] # "CR"
    PROVE  /\ bytes[at + 1] = b
           /\ FirstAt(bytes, at + 2, at + Len(text) + 2)
           /\ SubSeq(bytes, at + 2, (at + Len(text) + 2) - 1) = text
<1>1. /\ bytes[at + 1] = b
      /\ Holds(bytes, at + 1, text)
      /\ at + Len(text) + 3 <= Len(bytes)
      /\ bytes[at + Len(text) + 2] = "CR" /\ bytes[at + Len(text) + 3] = "LF"
  BY LineHolds
<1>2. /\ at + 1 \in Nat /\ Len(text) \in Nat /\ Len(bytes) \in Nat
      /\ (at + Len(text) + 2) + 1 = at + Len(text) + 3
      /\ at + Len(text) + 2 \in (at + 2)..(Len(bytes) - 1)
  BY <1>1
<1>3. \A j \in (at + 2)..((at + Len(text) + 2) - 1) : ~(bytes[j] = "CR" /\ bytes[j + 1] = "LF")
  <2> TAKE j \in (at + 2)..((at + Len(text) + 2) - 1)
  <2>1. j - (at + 1) \in 1..Len(text) /\ (at + 1) + (j - (at + 1)) = j
    OBVIOUS
  <2>2. bytes[j] = text[j - (at + 1)]
    BY <1>1, <2>1 DEF Holds
  <2> QED
    BY <2>1, <2>2
<1>4. FirstAt(bytes, at + 2, at + Len(text) + 2)
  BY <1>1, <1>2, <1>3 DEF FirstAt
<1>5. SubSeq(bytes, (at + 1) + 1, (at + 1) + Len(text)) = text
  BY <1>1, <1>2, HoldsPiece
<1>6. (at + 1) + 1 = at + 2 /\ (at + 1) + Len(text) = (at + Len(text) + 2) - 1
  BY <1>2
<1> QED
  BY <1>1, <1>4, <1>5, <1>6

\* ParseNumber reads the number that was written.
LEMMA NumberReads ==
    ASSUME NEW bytes \in Seq(Byte), NEW at \in Nat, NEW b \in Byte, NEW k \in 0..MaxLongLong,
           Holds(bytes, at, <<b>> \o Numeral[k] \o CRLF)
    PROVE  /\ bytes[at + 1] = b
           /\ ParseNumber(bytes, at + 2) = Parsed(k, at + Len(Numeral[k]) + 4)
<1> DEFINE text == Numeral[k]
           e == at + Len(text) + 2
<1>0. k \in Nat
  BY CodecAssumption
<1>1. /\ text \in Seq(Byte) /\ Len(text) \in Nat \ {0}
      /\ IsNumeral(text) /\ IntegerOf(text) = k
      /\ \A i \in 1..Len(text) : text[i] # "CR"
  BY <1>0, NumeralReads
<1>h. Holds(bytes, at, <<b>> \o text \o CRLF)
  OBVIOUS
<1> HIDE DEF text
<1>2. /\ bytes[at + 1] = b
      /\ FirstAt(bytes, at + 2, e)
      /\ SubSeq(bytes, at + 2, e - 1) = text
  BY <1>1, <1>h, LineEnds
<1>3. at + 2 \in Nat \ {0} /\ e # at + 2 /\ e + 2 = at + Len(text) + 4
  BY <1>1
<1> HIDE DEF e
<1>4. ParseNumber(bytes, at + 2) = FromChars(text, e + 2)
  BY <1>2, <1>3, NumberCases
<1>5. IntegerOf(text) >= -MaxLongLong - 1 /\ IntegerOf(text) <= MaxLongLong
  BY <1>0, <1>1, CodecAssumption
<1>6. FromChars(text, e + 2) = Parsed(k, e + 2)
  BY <1>1, <1>5 DEF FromChars
<1> QED
  BY <1>2, <1>3, <1>4, <1>6 DEF text

\* ParseBulk reads the argument that was written.
LEMMA BulkReads ==
    ASSUME NEW input \in Seq(Byte), NEW sofar \in Results(input), NEW data \in Seq(Byte),
           Len(data) <= kMaxBulkLength, Holds(input, sofar.consumed, Bulk(data))
    PROVE  ParseBulk(input, sofar) =
               RespParseResult("Complete", Append(sofar.arguments, data),
                               sofar.consumed + Len(Bulk(data)))
<1> DEFINE c == sofar.consumed
           k == Len(data)
           num == Numeral[k]
           at == c + 1
           length == ParseNumber(input, at + 1)
           end == length.next + length.value
<1>0. c \in Nat /\ k \in 0..MaxLongLong /\ k \in Nat /\ Len(input) \in Nat
  BY CodecAssumption DEF Results
<1>1. num \in Seq(Byte) /\ Len(num) \in Nat \ {0}
  BY NumeralReads
<1>2. /\ Holds(input, c, <<"$">> \o num \o CRLF)
      /\ Holds(input, c + Len(num) + 3, data)
      /\ Holds(input, c + Len(num) + 3 + k, CRLF)
      /\ Len(Bulk(data)) = Len(num) + k + 5
  BY <1>0, BulkEncoding
<1>3. input[at] = "$" /\ length = Parsed(k, c + Len(num) + 4)
  <2>1. at + 1 = c + 2
    BY <1>0
  <2>2. input[c + 1] = "$" /\ ParseNumber(input, c + 2) = Parsed(k, c + Len(num) + 4)
    <3>1. \A b \in Byte : Holds(input, c, <<b>> \o Numeral[k] \o CRLF) =>
              input[c + 1] = b /\ ParseNumber(input, c + 2) = Parsed(k, c + Len(Numeral[k]) + 4)
      <4> HIDE DEF c, k
      <4> QED
        BY <1>0, NumberReads
    <3> QED
      BY <1>2, <3>1, ProtocolBytes, Zenon
  <2> QED
    BY <2>1, <2>2
<1>4. length.status = "Complete" /\ length.value = k /\ length.next = c + Len(num) + 4
  BY <1>3 DEF Parsed
<1>l. \E l \in Nat \ {0} : l = Len(num)
  BY <1>1
<1> HIDE DEF num, length, c, k, at
<1>at. at = c + 1
  BY DEF at
<1>5. /\ end = c + Len(num) + 4 + k /\ end + 1 = c + (Len(num) + k + 5)
      /\ end = (c + Len(num) + 3 + k) + 1
      /\ c + Len(num) + 3 + k \in Nat
      /\ end \in Nat
  <2>1. PICK l \in Nat : l = Len(num)
    BY <1>l
  <2>2. end = (c + l + 4) + k
    BY <1>4, <2>1
  <2> HIDE DEF end
  <2>3. /\ end = c + l + 4 + k /\ end + 1 = c + (l + k + 5)
        /\ end = (c + l + 3 + k) + 1
        /\ c + l + 3 + k \in Nat
        /\ end \in Nat
    BY <1>0, <2>2
  <2> QED
    BY <2>1, <2>3
<1> HIDE DEF end
<1>6. /\ end + 1 <= Len(input) /\ input[end] = "CR" /\ input[end + 1] = "LF"
  <2> DEFINE p == c + Len(num) + 3 + k
  <2>1. p + Len(CRLF) <= Len(input) /\ \A i \in 1..Len(CRLF) : input[p + i] = CRLF[i]
    BY <1>2 DEF Holds
  <2>2. end = p + 1 /\ end + 1 = p + 2
    BY <1>5
  <2> HIDE DEF p
  <2> QED
    BY <2>1, <2>2, TerminatorBytes
<1>7. SubSeq(input, end, end + 1) = CRLF
  <2>1. end \in 1..(Len(input) - 1)
    BY <1>0, <1>l, <1>5, <1>6
  <2> QED
    BY <1>6, <2>1, TerminatorAt
<1>8. SubSeq(input, length.next, end - 1) = data
  <2> DEFINE p == c + Len(num) + 3
  <2>1. p \in Nat /\ length.next = p + 1 /\ end - 1 = p + k
    BY <1>0, <1>l, <1>4, <1>5
  <2>2. Holds(input, p, data)
    BY <1>2
  <2> HIDE DEF p
  <2> QED
    BY <2>1, <2>2, HoldsPiece DEF k
<1>9. /\ ~(at > Len(input)) /\ ~(Len(input) < end + 1)
      /\ ~(length.status = "Error" \/ length.value < 0 \/ length.value > kMaxBulkLength)
  <2>1. ~(at > Len(input)) /\ ~(Len(input) < end + 1)
    BY <1>0, <1>l, <1>5, <1>6, <1>at
  <2>2. k <= kMaxBulkLength
    BY DEF k
  <2>3. ~(length.value < 0) /\ ~(length.value > kMaxBulkLength) /\ length.status # "Error"
    BY <1>0, <1>4, <2>2, CodecAssumption
  <2> QED
    BY <2>1, <2>3
<1>10. ParseBulk(input, sofar) = RespParseResult("Complete", Append(sofar.arguments, data), end + 1)
  <2>1. ~(input[at] # "$") /\ ~(length.status = "Incomplete") /\ ~(SubSeq(input, end, end + 1) # CRLF)
    BY <1>3, <1>4, <1>7
  <2>2. ParseBulk(input, sofar) = RespParseResult("Complete",
            Append(sofar.arguments, SubSeq(input, length.next, end - 1)), end + 1)
    BY <1>9, <2>1, Zenon DEF ParseBulk, length, end, at, c
  <2> QED
    BY <1>8, <2>2
<1>11. end + 1 = c + Len(Bulk(data))
  BY <1>2, <1>5
<1> QED
  BY <1>10, <1>11 DEF c
\* The encodings of values, in turn.
BulkSeq(values) == [i \in 1..Len(values) |-> Bulk(values[i])]

LEMMA BulksJoined ==
    ASSUME NEW values \in Seq(Seq(Byte))
    PROVE  /\ BulkSeq(values) \in Seq(Seq(Byte))
           /\ Len(BulkSeq(values)) = Len(values)
           /\ \A i \in 1..Len(values) : values[i] \in Seq(Byte) /\ BulkSeq(values)[i] = Bulk(values[i])
           /\ Bulks(values) \in Seq(Byte)
           /\ \E j : Joined(j, BulkSeq(values)) /\ Bulks(values) = j[Len(values)]
<1>1. \A i \in 1..Len(values) : values[i] \in Seq(Byte) /\ Bulk(values[i]) \in Seq(Byte)
  BY BulkEncoding
<1>2. BulkSeq(values) \in Seq(Seq(Byte)) /\ Len(BulkSeq(values)) = Len(values)
  BY <1>1 DEF BulkSeq
<1>3. \A i \in 1..Len(values) : values[i] \in Seq(Byte) /\ BulkSeq(values)[i] = Bulk(values[i])
  BY <1>1 DEF BulkSeq
<1>4. Bulks(values) = FlattenSeq(BulkSeq(values))
  BY Zenon DEF Bulks, BulkSeq
<1>5. \E j : Joined(j, BulkSeq(values)) /\ FlattenSeq(BulkSeq(values)) = j[Len(BulkSeq(values))]
  BY <1>2, FlattenJoined
<1>6. FlattenSeq(BulkSeq(values)) \in Seq(Byte)
  BY <1>2, FlattenType
<1> QED
  BY <1>2, <1>3, <1>4, <1>5, <1>6

\* A line with the number of values and then the values: requests and arrays.
LEMMA ListEncoding ==
    ASSUME NEW values \in Seq(Seq(Byte)), NEW b \in Byte, NEW k \in Nat
    PROVE  LET whole == <<b>> \o Numeral[k] \o CRLF \o Bulks(values)
           IN  /\ whole \in Seq(Byte)
               /\ Len(whole) = Len(Numeral[k]) + 3 + Len(Bulks(values))
               /\ \A bytes \in Seq(Byte), at \in Nat : Holds(bytes, at, whole) =>
                     /\ Holds(bytes, at, <<b>> \o Numeral[k] \o CRLF)
                     /\ Holds(bytes, at + (Len(Numeral[k]) + 3), Bulks(values))
<1> DEFINE line == <<b>> \o Numeral[k] \o CRLF
           rest == Bulks(values)
<1>1. Numeral[k] \in Seq(Byte) /\ Len(Numeral[k]) \in Nat
  BY NumeralReads
<1>2. line \in Seq(Byte) /\ Len(line) = Len(Numeral[k]) + 3
  BY <1>1, LineType
<1>3. rest \in Seq(Byte)
  BY BulksJoined
<1> HIDE DEF line, rest
<1>4. line \o rest \in Seq(Byte) /\ Len(line \o rest) = Len(line) + Len(rest)
  BY <1>2, <1>3, ConcatHolds
<1>5. \A bytes \in Seq(Byte), at \in Nat : Holds(bytes, at, line \o rest) =>
          Holds(bytes, at, line) /\ Holds(bytes, at + Len(line), rest)
  BY <1>2, <1>3, HoldsConcat
<1> QED
  BY <1>2, <1>4, <1>5 DEF line, rest

LEMMA CommandEncoding ==
    ASSUME NEW arguments \in Seq(Seq(Byte))
    PROVE  /\ EncodeCommand(arguments) \in Seq(Byte)
           /\ Len(EncodeCommand(arguments)) = Len(Numeral[Len(arguments)]) + 3 + Len(Bulks(arguments))
           /\ Len(EncodeCommand(arguments)) \in Nat \ {0}
           /\ \A bytes \in Seq(Byte), at \in Nat : Holds(bytes, at, EncodeCommand(arguments)) =>
                 /\ Holds(bytes, at, <<"*">> \o Numeral[Len(arguments)] \o CRLF)
                 /\ Holds(bytes, at + (Len(Numeral[Len(arguments)]) + 3), Bulks(arguments))
<1> DEFINE k == Len(arguments)
           Whole(b) == <<b>> \o Numeral[k] \o CRLF \o Bulks(arguments)
           OK(b) == /\ Whole(b) \in Seq(Byte)
                    /\ Len(Whole(b)) = Len(Numeral[k]) + 3 + Len(Bulks(arguments))
                    /\ \A bytes \in Seq(Byte), at \in Nat : Holds(bytes, at, Whole(b)) =>
                          /\ Holds(bytes, at, <<b>> \o Numeral[k] \o CRLF)
                          /\ Holds(bytes, at + (Len(Numeral[k]) + 3), Bulks(arguments))
<1>1. \A b \in Byte : OK(b)
  <2>1. k \in Nat
    OBVIOUS
  <2> HIDE DEF k
  <2> QED
    BY <2>1, ListEncoding
<1>2. OK("*")
  <2> HIDE DEF OK
  <2> QED
    BY <1>1, ProtocolBytes, Zenon
<1>3. EncodeCommand(arguments) = Whole("*")
  BY Zenon DEF EncodeCommand
<1>4. Len(Numeral[k]) \in Nat /\ Len(Bulks(arguments)) \in Nat
  BY NumeralReads, BulksJoined
<1>5. Len(Whole("*")) \in Nat \ {0}
  <2> HIDE DEF Whole, k
  <2> QED
    BY <1>2, <1>4
<1> QED
  <2> HIDE DEF Whole, k
  <2> QED
    BY <1>2, <1>3, <1>5, Zenon DEF k

\* ParseCommand reads the request that EncodeCommand wrote, whatever follows it.
LEMMA CommandReads ==
    ASSUME NEW input \in Seq(Byte), NEW arguments \in Seq(Seq(Byte)),
           Len(arguments) \in 1..kMaxArguments,
           \A i \in 1..Len(arguments) : Len(arguments[i]) <= kMaxBulkLength,
           Holds(input, 0, EncodeCommand(arguments))
    PROVE  ParseCommand(input) =
               RespParseResult("Complete", arguments, Len(EncodeCommand(arguments)))
<1> DEFINE n == Len(arguments)
           num == Numeral[n]
           start == Len(num) + 3
           count == ParseNumber(input, 2)
           seqs == BulkSeq(arguments)
<1>0. n \in Nat \ {0} /\ n \in 1..kMaxArguments /\ n \in 0..MaxLongLong
  BY CodecAssumption
<1>1. num \in Seq(Byte) /\ Len(num) \in Nat \ {0} /\ start \in Nat
  BY NumeralReads
<1>2. /\ Holds(input, 0, <<"*">> \o num \o CRLF)
      /\ Holds(input, start, Bulks(arguments))
      /\ Len(EncodeCommand(arguments)) = start + Len(Bulks(arguments))
  <2>1. 0 + start = start
    BY <1>1
  <2>2. /\ Holds(input, 0, <<"*">> \o num \o CRLF)
        /\ Holds(input, 0 + start, Bulks(arguments))
    BY CommandEncoding
  <2> QED
    BY <2>1, <2>2, CommandEncoding
<1>3. input[1] = "*" /\ count = Parsed(n, start + 1)
  <2>1. \A b \in Byte : Holds(input, 0, <<b>> \o Numeral[n] \o CRLF) =>
            input[0 + 1] = b /\ ParseNumber(input, 0 + 2) = Parsed(n, 0 + Len(Numeral[n]) + 4)
    <3> HIDE DEF n
    <3> QED
      BY <1>0, NumberReads
  <2>2. input[0 + 1] = "*" /\ ParseNumber(input, 0 + 2) = Parsed(n, 0 + Len(Numeral[n]) + 4)
    BY <1>2, <2>1, ProtocolBytes, Zenon
  <2>3. 0 + 1 = 1 /\ 0 + 2 = 2 /\ 0 + Len(Numeral[n]) + 4 = start + 1
    BY <1>1
  <2> QED
    BY <2>2, <2>3
<1>4. count.status = "Complete" /\ count.value = n /\ count.next = start + 1
  BY <1>3 DEF Parsed
<1>5. Announced(input)
  <2>1. Len(Bulks(arguments)) \in Nat /\ start + Len(Bulks(arguments)) <= Len(input)
    BY <1>2, BulksJoined DEF Holds
  <2>2. input # <<>>
    BY <1>1, <2>1
  <2> QED
    BY <1>0, <1>3, <1>4, <2>2 DEF Announced
<1>6. count.next - 1 = start
  BY <1>1, <1>4
<1>7. PICK h : ArgumentLoop(h, input, start, n) /\ ParseCommand(input) = h[n]
  BY <1>4, <1>5, <1>6, CommandCases
<1>8. PICK j : Joined(j, seqs) /\ Bulks(arguments) = j[n]
  BY BulksJoined
<1>9. /\ seqs \in Seq(Seq(Byte)) /\ Len(seqs) = n
      /\ \A i \in 1..n : arguments[i] \in Seq(Byte) /\ seqs[i] = Bulk(arguments[i])
  BY BulksJoined
<1>10. \A i \in 0..n : /\ Len(j[i]) \in Nat
                       /\ i # 0 => /\ Holds(input, start + Len(j[i - 1]), seqs[i])
                                   /\ Len(j[i]) = Len(j[i - 1]) + Len(seqs[i])
  <2>1. Holds(input, start, j[Len(seqs)])
    BY <1>2, <1>8, <1>9
  <2> HIDE DEF start, seqs, n
  <2>2. \A i \in 0..Len(seqs) :
            /\ Holds(input, start, j[i]) /\ Len(j[i]) \in Nat
            /\ i # 0 => /\ Holds(input, start + Len(j[i - 1]), seqs[i])
                        /\ Len(j[i]) = Len(j[i - 1]) + Len(seqs[i])
    <3>1. start \in Nat /\ seqs \in Seq(Seq(Byte)) /\ Joined(j, seqs)
      BY <1>1, <1>8, <1>9
    <3> QED
      BY <2>1, <3>1, JoinedHolds, Zenon
  <2> QED
    BY <1>9, <2>2
<1> DEFINE Good(i) == RespParseResult("Complete", SubSeq(arguments, 1, i), start + Len(j[i]))
           Bad == {i \in 0..n : h[i] # Good(i)}
<1>0j. Len(j[0]) = 0 /\ start + Len(j[0]) = start
  BY <1>1, <1>8 DEF Joined
<1> HIDE DEF start, seqs, num, count
<1>11. Bad = {}
  <2> SUFFICES ASSUME Bad # {} PROVE FALSE
    OBVIOUS
  <2>1. PICK m \in Bad : \A y \in Bad : y >= m
    <3>1. Bad \subseteq Nat
      BY <1>0
    <3> HIDE DEF Bad
    <3> QED
      BY <3>1, LeastNumber
  <2>2. m # 0
    <3>1. SubSeq(arguments, 1, 0) = <<>>
      OBVIOUS
    <3>2. Good(0) = RespParseResult("Complete", <<>>, start)
      BY <1>0j, <3>1
    <3> QED
      BY <1>7, <3>2 DEF ArgumentLoop
  <2>3. m - 1 \in 0..n /\ m - 1 \notin Bad /\ m \in 1..n
    BY <1>0, <2>1, <2>2
  <2> DEFINE r == h[m - 1]
  <2>4. r = Good(m - 1) /\ r \in Results(input)
    BY <1>7, <2>3 DEF ArgumentLoop
  <2>5. /\ r.status = "Complete" /\ r.arguments = SubSeq(arguments, 1, m - 1)
        /\ r.consumed = start + Len(j[m - 1])
    BY <2>4 DEF RespParseResult
  <2>6. h[m] = ParseBulk(input, r)
    BY <1>7, <2>3, <2>5 DEF ArgumentLoop
  <2> HIDE DEF r
  <2>7. /\ Holds(input, r.consumed, Bulk(arguments[m])) /\ arguments[m] \in Seq(Byte)
        /\ Len(arguments[m]) <= kMaxBulkLength
        /\ Len(j[m]) = Len(j[m - 1]) + Len(Bulk(arguments[m]))
        /\ Len(j[m - 1]) \in Nat
    <3>1. /\ arguments[m] \in Seq(Byte) /\ seqs[m] = Bulk(arguments[m])
          /\ Len(arguments[m]) <= kMaxBulkLength
      BY <1>9, <2>3
    <3>2. /\ Holds(input, start + Len(j[m - 1]), seqs[m])
          /\ Len(j[m]) = Len(j[m - 1]) + Len(seqs[m])
      <4>1. m \in 0..n
        BY <2>3
      <4> QED
        BY <1>10, <2>2, <4>1
    <3>3. Len(j[m - 1]) \in Nat
      BY <1>10, <2>3
    <3> QED
      BY <2>5, <3>1, <3>2, <3>3
  <2>8. h[m] = RespParseResult("Complete", Append(r.arguments, arguments[m]),
                               r.consumed + Len(Bulk(arguments[m])))
    BY <2>4, <2>6, <2>7, BulkReads
  <2>9. Append(SubSeq(arguments, 1, m - 1), arguments[m]) = SubSeq(arguments, 1, m)
    BY <2>3
  <2>10. r.consumed + Len(Bulk(arguments[m])) = start + Len(j[m])
    <3>1. Bulk(arguments[m]) \in Seq(Byte)
      BY <2>7, BulkEncoding
    <3> DEFINE a == Len(j[m - 1])
               b == Len(Bulk(arguments[m]))
    <3>2. a \in Nat /\ b \in Nat
      BY <2>7, <3>1
    <3>3. r.consumed = start + a /\ Len(j[m]) = a + b
      BY <2>5, <2>7
    <3> HIDE DEF a, b
    <3>4. (start + a) + b = start + (a + b)
      BY <1>1, <3>2
    <3>5. r.consumed + b = start + Len(j[m])
      BY <3>3, <3>4
    <3> QED
      BY <3>5 DEF b
  <2>11. h[m] = Good(m)
    BY <2>5, <2>8, <2>9, <2>10
  <2> QED
    BY <2>1, <2>11
<1>12. h[n] = Good(n)
  BY <1>0, <1>11
<1>13. SubSeq(arguments, 1, n) = arguments
  OBVIOUS
<1> QED
  BY <1>2, <1>7, <1>8, <1>12, <1>13
-----------------------------------------------------------------------------
(* A whole stream. *)

\* The bytes of a stream after the first c.
After(bytes, c) == SubSeq(bytes, c + 1, Len(bytes))

\* What finding requests one after the other can give.
Findings(bytes) ==
    [status : {"Complete", "Incomplete", "Error"}, arguments : Seq(Seq(Seq(Byte))),
     consumed : 0..Len(bytes)]

\* One more request is found, or why there is none.
Find(bytes, before) ==
    LET result == ParseCommand(After(bytes, before.consumed))
    IN  IF before.status # "Complete" THEN before
        ELSE IF result.status # "Complete"
        THEN RespParseResult(result.status, before.arguments, before.consumed)
        ELSE RespParseResult("Complete", Append(before.arguments, result.arguments),
                 before.consumed + result.consumed)

\* h[i] is what is found in i steps.
Search(h, bytes) ==
    /\ h \in [0..(Len(bytes) + 1) -> Findings(bytes)]
    /\ h[0] = RespParseResult("Complete", <<>>, 0)
    /\ \A i \in 1..(Len(bytes) + 1) : h[i] = Find(bytes, h[i - 1])

LEMMA AfterType ==
    ASSUME NEW bytes \in Seq(Byte), NEW c \in 0..Len(bytes)
    PROVE  /\ After(bytes, c) \in Seq(Byte)
           /\ Len(After(bytes, c)) = Len(bytes) - c
           /\ \A i \in 1..(Len(bytes) - c) : After(bytes, c)[i] = bytes[c + i]
<1> DEFINE s == After(bytes, c)
<1>1. s = [i \in 1..(Len(bytes) - (c + 1) + 1) |-> bytes[(c + 1) + i - 1]]
  BY DEF After
<1>2. Len(bytes) - (c + 1) + 1 = Len(bytes) - c
  OBVIOUS
<1>3. \A i \in 1..(Len(bytes) - c) : (c + 1) + i - 1 = c + i /\ c + i \in 1..Len(bytes)
  OBVIOUS
<1>4. s = [i \in 1..(Len(bytes) - c) |-> bytes[c + i]]
  BY <1>1, <1>2, <1>3
<1> HIDE DEF s
<1>5. s \in Seq(Byte) /\ Len(s) = Len(bytes) - c /\ \A i \in 1..(Len(bytes) - c) : s[i] = bytes[c + i]
  BY <1>3, <1>4
<1> QED
  BY <1>5 DEF s

LEMMA FindType ==
    ASSUME NEW bytes \in Seq(Byte), NEW before \in Findings(bytes)
    PROVE  Find(bytes, before) \in Findings(bytes)
<1> DEFINE c == before.consumed
           result == ParseCommand(After(bytes, c))
<1>1. c \in 0..Len(bytes) /\ before.arguments \in Seq(Seq(Seq(Byte)))
  BY DEF Findings
<1>2. After(bytes, c) \in Seq(Byte) /\ Len(After(bytes, c)) = Len(bytes) - c
  <2> HIDE DEF c
  <2> QED
    BY <1>1, AfterType
<1>3. /\ result \in Results(After(bytes, c))
  BY <1>2, CommandType
<1>4. /\ result.status \in {"Complete", "Incomplete", "Error"}
      /\ result.arguments \in Seq(Seq(Byte)) /\ result.consumed \in 0..(Len(bytes) - c)
  <2> HIDE DEF result, c
  <2> QED
    BY <1>2, <1>3 DEF Results
<1>5. Append(before.arguments, result.arguments) \in Seq(Seq(Seq(Byte)))
  <2> HIDE DEF result, c
  <2> QED
    BY <1>1, <1>4
<1>6. c + result.consumed \in 0..Len(bytes)
  <2> HIDE DEF result, c
  <2> QED
    BY <1>1, <1>4
<1>7. Find(bytes, before) = IF before.status # "Complete" THEN before
          ELSE IF result.status # "Complete"
          THEN RespParseResult(result.status, before.arguments, c)
          ELSE RespParseResult("Complete", Append(before.arguments, result.arguments),
                   c + result.consumed)
  BY Zenon DEF Find
<1> HIDE DEF result
<1>8. RespParseResult(result.status, before.arguments, c) \in Findings(bytes)
  BY <1>1, <1>4 DEF RespParseResult, Findings
<1>9. RespParseResult("Complete", Append(before.arguments, result.arguments), c + result.consumed)
          \in Findings(bytes)
  BY <1>5, <1>6 DEF RespParseResult, Findings
<1> QED
  BY <1>7, <1>8, <1>9, Zenon

LEMMA SearchExists ==
    ASSUME NEW bytes \in Seq(Byte)
    PROVE  \E h : Search(h, bytes)
<1> DEFINE S == Findings(bytes)
           n == Len(bytes) + 1
           a == RespParseResult("Complete", <<>>, 0)
           step == [i \in 1..n |-> [r \in S |-> Find(bytes, r)]]
<1>0. n \in Nat
  OBVIOUS
<1>1. a \in S
  <2>1. <<>> \in Seq(Seq(Seq(Byte))) /\ 0 \in 0..Len(bytes)
    OBVIOUS
  <2> QED
    BY <2>1 DEF RespParseResult, Findings
<1>2. step \in [1..n -> [S -> S]]
  <2>1. \A r \in S : Find(bytes, r) \in S
    BY FindType
  <2> HIDE DEF S
  <2> QED
    BY <2>1
<1>3. \A i \in 1..n, r \in S : step[i][r] = Find(bytes, r)
  OBVIOUS
<1> HIDE DEF step, a, S, n
<1>4. PICK h \in [0..n -> S] : Loop(h, a, n, step)
  BY <1>0, <1>1, <1>2, LoopExists
<1>5. \A i \in 1..n : h[i] = Find(bytes, h[i - 1])
  <2> TAKE i \in 1..n
  <2>1. i - 1 \in 0..n
    BY <1>0
  <2>2. h[i - 1] \in S
    BY <2>1
  <2> QED
    BY <1>3, <1>4, <2>2 DEF Loop
<1>6. h[0] = a
  BY <1>4 DEF Loop
<1> QED
  BY <1>4, <1>5, <1>6 DEF Search, a, S, n

\* Parse is that search.
LEMMA ParseSearch ==
    ASSUME NEW bytes \in Seq(Byte), NEW h, Search(h, bytes)
    PROVE  Parse(bytes) = [commands |-> h[Len(bytes) + 1].arguments,
                           failed   |-> h[Len(bytes) + 1].status = "Error"]
<1> DEFINE n == Len(bytes) + 1
           F(f) == [i \in 0..Len(bytes) + 1 |->
                        IF i = 0 THEN RespParseResult("Complete", <<>>, 0)
                        ELSE Find(bytes, f[i - 1])]
           rec == CHOOSE f : f = F(f)
<1>0. n \in Nat
  OBVIOUS
<1>1. h = F(h)
  BY DEF Search
<1>2. Parse(bytes) = [commands |-> rec[n].arguments, failed |-> rec[n].status = "Error"]
  BY Zenon DEF Parse, Find, After
<1>3. rec = F(rec)
  BY <1>1, Zenon
<1> HIDE DEF rec, n
<1>4. /\ rec[0] = RespParseResult("Complete", <<>>, 0)
      /\ \A i \in 1..n : rec[i] = Find(bytes, rec[i - 1])
  <2>1. \A i \in 0..n : F(rec)[i] = IF i = 0 THEN RespParseResult("Complete", <<>>, 0)
                                    ELSE Find(bytes, rec[i - 1])
    BY DEF n
  <2>2. \A i \in 0..n : rec[i] = IF i = 0 THEN RespParseResult("Complete", <<>>, 0)
                                    ELSE Find(bytes, rec[i - 1])
    <3> HIDE DEF F
    <3> QED
      BY <1>3, <2>1
  <2> QED
    BY <1>0, <2>2
<1>h. /\ h[0] = RespParseResult("Complete", <<>>, 0)
      /\ \A i \in 1..n : h[i] = Find(bytes, h[i - 1])
  BY DEF Search, n
<1> DEFINE Bad == {i \in 0..n : rec[i] # h[i]}
<1>5. Bad = {}
  <2> SUFFICES ASSUME Bad # {} PROVE FALSE
    OBVIOUS
  <2>1. PICK m \in Bad : \A y \in Bad : y >= m
    <3>1. Bad \subseteq Nat
      BY <1>0
    <3> HIDE DEF Bad
    <3> QED
      BY <3>1, LeastNumber
  <2>2. m # 0
    BY <1>4, <1>h
  <2>3. m - 1 \in 0..n /\ m - 1 \notin Bad /\ m \in 1..n
    BY <1>0, <2>1, <2>2
  <2>4. rec[m - 1] = h[m - 1]
    BY <2>3
  <2>5. rec[m] = h[m]
    BY <2>3, <2>4, <1>4, <1>h
  <2> QED
    BY <2>1, <2>5
<1>6. rec[n] = h[n]
  BY <1>0, <1>5
<1> QED
  BY <1>2, <1>6 DEF n
\* What was found stays found.
LEMMA SearchGrows ==
    ASSUME NEW bytes \in Seq(Byte), NEW h, Search(h, bytes), NEW k \in 0..(Len(bytes) + 1)
    PROVE  \A i \in k..(Len(bytes) + 1) :
               /\ Len(h[k].arguments) <= Len(h[i].arguments)
               /\ \A p \in 1..Len(h[k].arguments) : h[i].arguments[p] = h[k].arguments[p]
<1> DEFINE n == Len(bytes) + 1
           Args(i) == h[i].arguments
           OK(i) == /\ Len(Args(k)) <= Len(Args(i))
                    /\ \A p \in 1..Len(Args(k)) : Args(i)[p] = Args(k)[p]
           Bad == {i \in k..n : ~OK(i)}
<1>0. n \in Nat /\ \A i \in 0..n : h[i] \in Findings(bytes) /\ Args(i) \in Seq(Seq(Seq(Byte)))
  BY DEF Search, Findings
<1> SUFFICES ASSUME Bad # {} PROVE FALSE
  OBVIOUS
<1>1. PICK m \in Bad : \A y \in Bad : y >= m
  <2>1. Bad \subseteq Nat
    BY <1>0
  <2> HIDE DEF Bad
  <2> QED
    BY <2>1, LeastNumber
<1>2. m # k
  <2>1. OK(k)
    BY <1>0
  <2> QED
    BY <1>1, <2>1
<1>3. m - 1 \in k..n /\ m - 1 \in 0..n /\ m \in 1..n /\ m - 1 \notin Bad
  <2>1. m \in k..n /\ k \in Nat
    BY <1>1
  <2>2. m - 1 \in k..n /\ m - 1 \in 0..n /\ m \in 1..n /\ ~(m - 1 >= m)
    BY <1>0, <1>2, <2>1
  <2> HIDE DEF Bad
  <2> QED
    BY <1>1, <2>2
<1>4. OK(m - 1)
  BY <1>3
<1>5. h[m] = Find(bytes, h[m - 1])
  BY <1>3 DEF Search
<1> DEFINE r == ParseCommand(After(bytes, h[m - 1].consumed)).arguments
<1>6. Args(m) = Args(m - 1) \/ Args(m) = Append(Args(m - 1), r)
  <2> DEFINE q == ParseCommand(After(bytes, h[m - 1].consumed))
  <2>1. h[m] = IF h[m - 1].status # "Complete" THEN h[m - 1]
               ELSE IF q.status # "Complete"
               THEN RespParseResult(q.status, h[m - 1].arguments, h[m - 1].consumed)
               ELSE RespParseResult("Complete", Append(h[m - 1].arguments, q.arguments),
                        h[m - 1].consumed + q.consumed)
    BY <1>5, Zenon DEF Find
  <2> HIDE DEF q
  <2>2. Args(m) = Args(m - 1) \/ Args(m) = Append(Args(m - 1), q.arguments)
    BY <2>1 DEF RespParseResult
  <2> QED
    BY <2>2 DEF q
<1> HIDE DEF r
<1>7. Args(m - 1) \in Seq(Seq(Seq(Byte))) /\ Args(m) \in Seq(Seq(Seq(Byte)))
  BY <1>0, <1>3
<1>8. OK(m)
  <2>1. Args(k) \in Seq(Seq(Seq(Byte)))
    BY <1>0
  <2> DEFINE s == Args(m - 1)
             t == Args(m)
             u == Args(k)
  <2> HIDE DEF s, t, u
  <2>2. /\ s \in Seq(Seq(Seq(Byte))) /\ t \in Seq(Seq(Seq(Byte))) /\ u \in Seq(Seq(Seq(Byte)))
        /\ t = s \/ t = Append(s, r)
        /\ Len(u) <= Len(s) /\ \A p \in 1..Len(u) : s[p] = u[p]
    BY <1>4, <1>6, <1>7, <2>1 DEF s, t, u
  <2>3. Len(s) <= Len(t) /\ \A p \in 1..Len(s) : t[p] = s[p]
    <3>1. CASE t = s
      <4>1. Len(s) \in Nat
        BY <2>2
      <4> QED
        BY <3>1, <4>1
    <3>2. CASE t = Append(s, r)
      <4>1. Len(t) = Len(s) + 1 /\ Len(s) \in Nat
        BY <2>2, <3>2
      <4>2. ASSUME NEW p \in 1..Len(s)
            PROVE  t[p] = s[p]
        BY <2>2, <3>2
      <4> QED
        BY <4>1, <4>2
    <3> QED
      BY <2>2, <3>1, <3>2
  <2>4. Len(u) <= Len(t) /\ \A p \in 1..Len(u) : t[p] = u[p]
    BY <2>2, <2>3
  <2> QED
    BY <2>4 DEF t, u
<1> QED
  BY <1>1, <1>8

\* Where no complete request follows, the search is over.
LEMMA SearchStops ==
    ASSUME NEW bytes \in Seq(Byte), NEW h, Search(h, bytes), NEW k \in 0..Len(bytes),
           h[k].status = "Complete",
           ParseCommand(After(bytes, h[k].consumed)).status # "Complete"
    PROVE  /\ h[Len(bytes) + 1].arguments = h[k].arguments
           /\ h[Len(bytes) + 1].status = ParseCommand(After(bytes, h[k].consumed)).status
<1> DEFINE n == Len(bytes) + 1
           q == ParseCommand(After(bytes, h[k].consumed))
           last == RespParseResult(q.status, h[k].arguments, h[k].consumed)
           Bad == {i \in (k + 1)..n : h[i] # last}
<1>0. n \in Nat /\ k \in Nat /\ k + 1 \in 1..n /\ (k + 1) - 1 = k
  OBVIOUS
<1>1. h[k + 1] = last
  <2>1. h[k + 1] = Find(bytes, h[k])
    BY <1>0 DEF Search
  <2>2. Find(bytes, h[k]) = last
    BY Zenon DEF Find
  <2> QED
    BY <2>1, <2>2
<1>2. last.status # "Complete" /\ last.status = q.status /\ last.arguments = h[k].arguments
  <2> HIDE DEF q
  <2>1. q.status # "Complete"
    BY DEF q
  <2> QED
    BY <2>1 DEF RespParseResult
<1> HIDE DEF last, q
<1>3. Bad = {}
  <2> SUFFICES ASSUME Bad # {} PROVE FALSE
    OBVIOUS
  <2>1. PICK m \in Bad : \A y \in Bad : y >= m
    <3>1. Bad \subseteq Nat
      BY <1>0
    <3> HIDE DEF Bad
    <3> QED
      BY <3>1, LeastNumber
  <2>2. m # k + 1
    BY <1>1
  <2>3. m - 1 \in (k + 1)..n /\ m - 1 \notin Bad /\ m \in 1..n
    <3>1. m \in (k + 1)..n
      BY <2>1
    <3>2. m - 1 \in (k + 1)..n /\ ~(m - 1 >= m) /\ m \in 1..n
      BY <1>0, <2>2, <3>1
    <3> HIDE DEF Bad
    <3> QED
      BY <2>1, <3>2
  <2>4. h[m - 1] = last
    BY <2>3
  <2>5. h[m] = Find(bytes, last)
    BY <2>3, <2>4 DEF Search
  <2>6. Find(bytes, last) = last
    BY <1>2, Zenon DEF Find
  <2> QED
    BY <2>1, <2>5, <2>6
<1>4. h[n] = last
  <2>1. n \in (k + 1)..n
    BY <1>0
  <2> QED
    BY <1>3, <2>1
<1> QED
  BY <1>2, <1>4 DEF q
-----------------------------------------------------------------------------
(* The server's end of a connection. *)

\* How many bytes have been consumed.
Taken == arrived - Len(m_input)

Accepted == [arguments : Seq(Seq(Byte)), bytes : Seq(Byte)]

StreamTypes ==
    /\ wire \in Seq(Byte)
    /\ m_input \in Seq(Byte)
    /\ accepted \in Seq(Accepted)
    /\ parsing \in BOOLEAN
    /\ failed \in BOOLEAN
    /\ version # "requests" => ~parsing /\ accepted = <<>>

\* The buffer is a piece of the stream, ...
BufferInv ==
    /\ arrived \in 0..Len(wire)
    /\ Len(m_input) <= arrived
    /\ \A i \in 1..Len(m_input) : m_input[i] = wire[Taken + i]

\* ... what was accepted is what a search of the whole stream finds first, ...
SearchInv ==
    /\ Len(accepted) <= Taken
    /\ \E h : /\ Search(h, wire)
              /\ h[Len(accepted)] = RespParseResult("Complete", Commands, Taken)

\* ... and the loop of Process ends only where the buffer has no whole request.
LoopInv ==
    /\ parsing => ~failed
    /\ ~parsing => /\ ParseCommand(m_input).status # "Complete"
                   /\ failed <=> ParseCommand(m_input).status = "Error"

ServerInv == version = "requests" => BufferInv /\ SearchInv /\ LoopInv

StreamInv == StreamTypes /\ ServerInv

\* The buffer is the beginning of what has not been consumed.
LEMMA BufferBegins ==
    ASSUME StreamTypes, BufferInv
    PROVE  /\ Taken \in 0..Len(wire) /\ Taken <= arrived
           /\ After(wire, Taken) \in Seq(Byte)
           /\ Begins(After(wire, Taken), m_input)
           /\ arrived = Len(wire) => After(wire, Taken) = m_input
<1>1. /\ Len(wire) \in Nat /\ Len(m_input) \in Nat /\ arrived \in 0..Len(wire)
      /\ Len(m_input) <= arrived /\ Taken = arrived - Len(m_input)
  BY DEF StreamTypes, BufferInv, Taken
<1>2. Taken \in 0..Len(wire) /\ Taken <= arrived /\ Len(wire) - Taken >= Len(m_input)
  BY <1>1
<1>3. /\ After(wire, Taken) \in Seq(Byte) /\ Len(After(wire, Taken)) = Len(wire) - Taken
      /\ \A i \in 1..(Len(wire) - Taken) : After(wire, Taken)[i] = wire[Taken + i]
  BY <1>2, AfterType DEF StreamTypes
<1>4. \A i \in 1..Len(m_input) : After(wire, Taken)[i] = m_input[i]
  <2> TAKE i \in 1..Len(m_input)
  <2>1. i \in 1..(Len(wire) - Taken)
    BY <1>1, <1>2
  <2> QED
    BY <1>3, <2>1 DEF BufferInv
<1>5. Begins(After(wire, Taken), m_input)
  BY <1>2, <1>3, <1>4 DEF Begins
<1>6. ASSUME arrived = Len(wire) PROVE After(wire, Taken) = m_input
  <2>1. Len(After(wire, Taken)) = Len(m_input)
    BY <1>1, <1>3, <1>6
  <2> DEFINE s == After(wire, Taken)
  <2> HIDE DEF s
  <2>2. s \in Seq(Byte) /\ m_input \in Seq(Byte) /\ Len(s) = Len(m_input)
        /\ \A i \in 1..Len(m_input) : s[i] = m_input[i]
    BY <1>3, <1>4, <2>1 DEF s, StreamTypes
  <2>3. s = m_input
    BY <2>2
  <2> QED
    BY <2>3 DEF s
<1> QED
  BY <1>2, <1>3, <1>5, <1>6

\* What Process makes of the buffer is what the whole rest of the stream says,
\* unless it waits for more.
LEMMA BufferDecides ==
    ASSUME StreamTypes, BufferInv,
           ParseCommand(m_input).status # "Incomplete" \/ arrived = Len(wire)
    PROVE  ParseCommand(After(wire, Taken)) = ParseCommand(m_input)
<1>1. m_input \in Seq(Byte)
  BY DEF StreamTypes
<1>2. CASE arrived = Len(wire)
  BY <1>2, BufferBegins
<1>3. CASE ParseCommand(m_input).status # "Incomplete"
  BY <1>1, <1>3, BufferBegins, CommandStable
<1> QED
  BY <1>2, <1>3

LEMMA ReadStep ==
    ASSUME StreamInv, NEW n \in 1..ReadSize, Read(n)
    PROVE  StreamInv' /\ Taken' = Taken
<1>1. /\ StreamTypes /\ BufferInv /\ SearchInv /\ LoopInv /\ version = "requests"
      /\ ~parsing /\ ~failed /\ n \in Nat
      /\ Len(wire) \in Nat /\ Len(m_input) \in Nat /\ arrived \in Nat
  <2>1. ReadSize \in Nat
    BY StreamAssumption, Zenon
  <2>2. /\ StreamTypes /\ BufferInv /\ SearchInv /\ LoopInv /\ version = "requests"
        /\ ~parsing /\ ~failed
    BY DEF StreamInv, ServerInv, Read
  <2> QED
    BY <2>1, <2>2 DEF StreamTypes, BufferInv
<1> DEFINE piece == SubSeq(wire, arrived + 1, arrived + n)
<1>2. /\ arrived + n <= Len(wire) /\ m_input' = m_input \o piece /\ arrived' = arrived + n
      /\ parsing' = TRUE
      /\ wire' = wire /\ accepted' = accepted /\ failed' = failed /\ version' = version
  BY DEF Read
<1>3. piece \in Seq(Byte) /\ Len(piece) = n /\ \A i \in 1..n : piece[i] = wire[arrived + i]
  <2>1. wire \in Seq(Byte)
    BY <1>1 DEF StreamTypes
  <2>2. /\ piece = [i \in 1..((arrived + n) - (arrived + 1) + 1) |-> wire[(arrived + 1) + i - 1]]
        /\ (arrived + n) - (arrived + 1) + 1 = n
    BY <1>1, <1>2, <2>1
  <2>3. \A i \in 1..n : (arrived + 1) + i - 1 = arrived + i /\ arrived + i \in 1..Len(wire)
    BY <1>1, <1>2
  <2>4. piece = [i \in 1..n |-> wire[arrived + i]]
    BY <2>2, <2>3
  <2> HIDE DEF piece
  <2> QED
    BY <1>1, <2>1, <2>3, <2>4
<1> HIDE DEF piece
<1>4. /\ m_input' \in Seq(Byte) /\ Len(m_input') = Len(m_input) + n
      /\ \A i \in 1..Len(m_input) : m_input'[i] = m_input[i]
      /\ \A i \in (Len(m_input) + 1)..(Len(m_input) + n) : m_input'[i] = piece[i - Len(m_input)]
  <2>1. m_input \in Seq(Byte)
    BY <1>1 DEF StreamTypes
  <2> DEFINE s == m_input \o piece
  <2>2. s \in Seq(Byte) /\ Len(s) = Len(m_input) + n
    BY <1>3, <2>1, ConcatHolds
  <2>3. \A i \in 1..Len(m_input) : s[i] = m_input[i]
    BY <1>3, <2>1
  <2>4. \A i \in (Len(m_input) + 1)..(Len(m_input) + n) : s[i] = piece[i - Len(m_input)]
    <3> TAKE i \in (Len(m_input) + 1)..(Len(m_input) + n)
    <3>1. i - Len(m_input) \in 1..Len(piece) /\ Len(m_input) + (i - Len(m_input)) = i
      BY <1>1, <1>3
    <3> QED
      BY <1>3, <2>1, <3>1, ConcatHolds DEF Holds
  <2> QED
    BY <1>2, <2>2, <2>3, <2>4
<1>5. Taken' = Taken /\ Taken = arrived - Len(m_input)
  BY <1>1, <1>2, <1>4 DEF Taken
<1>6. BufferInv'
  <2>1. arrived' \in 0..Len(wire') /\ Len(m_input') <= arrived'
    BY <1>1, <1>2, <1>4 DEF BufferInv
  <2>2. ASSUME NEW i \in 1..Len(m_input') PROVE m_input'[i] = wire[Taken + i]
    <3>1. CASE i <= Len(m_input)
      BY <1>1, <1>4, <3>1 DEF BufferInv
    <3>2. CASE ~(i <= Len(m_input))
      <4>1. /\ i \in (Len(m_input) + 1)..(Len(m_input) + n)
            /\ i - Len(m_input) \in 1..n
            /\ arrived + (i - Len(m_input)) = Taken + i
        BY <1>1, <1>4, <1>5, <3>2
      <4> QED
        BY <1>3, <1>4, <4>1
    <3> QED
      BY <3>1, <3>2
  <2> QED
    BY <1>2, <1>5, <2>1, <2>2 DEF BufferInv
<1>7. SearchInv'
  <2>1. Commands' = Commands
    BY <1>2 DEF Commands
  <2> QED
    BY <1>1, <1>2, <1>5, <2>1 DEF SearchInv
<1>8. LoopInv'
  BY <1>1, <1>2 DEF LoopInv
<1>9. StreamTypes'
  BY <1>1, <1>2, <1>4 DEF StreamTypes
<1> QED
  BY <1>5, <1>6, <1>7, <1>8, <1>9 DEF StreamInv, ServerInv

LEMMA ProcessType ==
    ASSUME StreamInv, Process
    PROVE  version = "requests" /\ StreamTypes /\ BufferInv /\ SearchInv /\ LoopInv /\ parsing /\ ~failed
<1>1. parsing
  BY DEF Process
<1>2. version = "requests"
  BY <1>1 DEF StreamInv, StreamTypes
<1> QED
  BY <1>1, <1>2 DEF StreamInv, ServerInv, LoopInv

\* A request is accepted.
LEMMA AcceptStep ==
    ASSUME StreamInv, Process, ParseCommand(m_input).status = "Complete"
    PROVE  /\ StreamInv'
           /\ Taken' = Taken + ParseCommand(m_input).consumed
           /\ Commands' = Append(Commands, ParseCommand(m_input).arguments)
           /\ Len(accepted') = Len(accepted) + 1
<1> DEFINE r == ParseCommand(m_input)
           new == [arguments |-> r.arguments, bytes |-> SubSeq(m_input, 1, r.consumed)]
<1>1. /\ version = "requests" /\ StreamTypes /\ BufferInv /\ SearchInv /\ LoopInv
      /\ parsing /\ ~failed
  BY ProcessType
<1>2. /\ m_input \in Seq(Byte) /\ wire \in Seq(Byte) /\ accepted \in Seq(Accepted)
      /\ Len(wire) \in Nat /\ Len(m_input) \in Nat /\ arrived \in Nat
      /\ Taken \in Nat /\ Taken = arrived - Len(m_input)
  BY <1>1, BufferBegins DEF StreamTypes, BufferInv, Taken
<1>3. /\ accepted' = Append(accepted, new)
      /\ m_input' = After(m_input, r.consumed)
      /\ parsing' = parsing /\ failed' = failed
      /\ wire' = wire /\ arrived' = arrived /\ version' = version
  BY DEF Process, After
<1>4. r.consumed \in 1..Len(m_input) /\ r.arguments \in Seq(Seq(Byte))
  BY <1>2, CommandType DEF Results
<1>5. new \in Accepted /\ new.arguments = r.arguments
  <2>1. SubSeq(m_input, 1, r.consumed) \in Seq(Byte)
    BY <1>2, <1>4
  <2> QED
    BY <1>4, <2>1 DEF Accepted
<1>6. ParseCommand(After(wire, Taken)) = r
  BY <1>1, BufferDecides
<1> HIDE DEF r, new
<1>7. /\ m_input' \in Seq(Byte) /\ Len(m_input') = Len(m_input) - r.consumed
      /\ \A i \in 1..(Len(m_input) - r.consumed) : m_input'[i] = m_input[r.consumed + i]
  <2>1. r.consumed \in 0..Len(m_input)
    BY <1>2, <1>4
  <2> QED
    BY <1>2, <1>3, <2>1, AfterType
<1>8. Taken' = Taken + r.consumed
  <2>1. Taken' = arrived' - Len(m_input')
    BY DEF Taken
  <2>2. Taken' = arrived - (Len(m_input) - r.consumed)
    BY <1>3, <1>7, <2>1
  <2> QED
    BY <1>2, <1>4, <2>2
<1>9. accepted' \in Seq(Accepted) /\ Len(accepted') = Len(accepted) + 1 /\ Len(accepted) \in Nat
  BY <1>2, <1>3, <1>5
<1>10. Commands' = Append(Commands, r.arguments)
  <2>1. /\ Commands' = [i \in 1..Len(accepted') |-> accepted'[i].arguments]
        /\ Commands = [i \in 1..Len(accepted) |-> accepted[i].arguments]
    BY DEF Commands
  <2>2. \A i \in 1..Len(accepted) : accepted'[i] = accepted[i]
    BY <1>2, <1>3, <1>5
  <2>3. accepted'[Len(accepted) + 1] = new
    BY <1>2, <1>3, <1>5
  <2>4. Append(Commands, r.arguments) = [i \in 1..(Len(accepted) + 1) |->
            IF i = Len(accepted) + 1 THEN r.arguments ELSE Commands[i]]
    <3>1. \A i \in 1..Len(accepted) : accepted[i].arguments \in Seq(Seq(Byte))
      <4>1. \A i \in 1..Len(accepted) : accepted[i] \in Accepted
        BY <1>2
      <4>2. \A x \in Accepted : x.arguments \in Seq(Seq(Byte))
        BY DEF Accepted
      <4> QED
        BY <4>1, <4>2
    <3>2. Commands \in Seq(Seq(Seq(Byte))) /\ Len(Commands) = Len(accepted)
      BY <1>9, <2>1, <3>1
    <3> QED
      BY <1>4, <3>2
  <2>5. \A i \in 1..(Len(accepted) + 1) :
            accepted'[i].arguments = IF i = Len(accepted) + 1 THEN r.arguments ELSE Commands[i]
    <3> TAKE i \in 1..(Len(accepted) + 1)
    <3>1. CASE i = Len(accepted) + 1
      BY <1>5, <2>3, <3>1
    <3>2. CASE i # Len(accepted) + 1
      <4>1. i \in 1..Len(accepted)
        BY <1>9, <3>2
      <4> QED
        BY <2>1, <2>2, <3>2, <4>1
    <3> QED
      BY <3>1, <3>2
  <2> QED
    BY <1>9, <2>1, <2>4, <2>5
<1>11. BufferInv'
  <2>1. arrived' \in 0..Len(wire') /\ Len(m_input') <= arrived'
    BY <1>1, <1>2, <1>3, <1>4, <1>7 DEF BufferInv
  <2>2. ASSUME NEW i \in 1..Len(m_input') PROVE m_input'[i] = wire'[Taken' + i]
    <3>1. /\ i \in 1..(Len(m_input) - r.consumed) /\ r.consumed + i \in 1..Len(m_input)
          /\ Taken' + i = Taken + (r.consumed + i)
      BY <1>2, <1>4, <1>7, <1>8, SMTT(30)
    <3> QED
      BY <1>1, <1>3, <1>7, <3>1 DEF BufferInv
  <2> QED
    BY <2>1, <2>2 DEF BufferInv
<1>12. SearchInv'
  <2>1. PICK h : Search(h, wire) /\ h[Len(accepted)] = RespParseResult("Complete", Commands, Taken)
    BY <1>1 DEF SearchInv
  <2>2. Len(accepted) <= Taken /\ Taken + r.consumed <= Len(wire)
    BY <1>1, <1>2, <1>4 DEF SearchInv, BufferInv
  <2> DEFINE k == Len(accepted)
  <2>3. k + 1 \in 1..(Len(wire) + 1) /\ (k + 1) - 1 = k
    BY <1>2, <1>4, <1>9, <2>2
  <2>4. h[k + 1] = Find(wire, h[k])
    BY <2>1, <2>3 DEF Search
  <2>5. h[k].status = "Complete" /\ h[k].arguments = Commands /\ h[k].consumed = Taken
    BY <2>1 DEF RespParseResult
  <2>6. r.status = "Complete"
    BY DEF r
  <2>7. Find(wire, h[k]) = RespParseResult("Complete", Append(Commands, r.arguments),
                                           Taken + r.consumed)
    BY <1>6, <2>5, <2>6, Zenon DEF Find
  <2>8. Len(accepted') <= Taken'
    BY <1>2, <1>4, <1>8, <1>9, <2>2
  <2>9. h[Len(accepted')] = RespParseResult("Complete", Commands', Taken')
    BY <1>8, <1>9, <1>10, <2>4, <2>7
  <2> QED
    BY <1>3, <2>1, <2>8, <2>9 DEF SearchInv
<1>13. LoopInv'
  BY <1>1, <1>3 DEF LoopInv
<1>14. StreamTypes'
  BY <1>1, <1>3, <1>7, <1>9 DEF StreamTypes
<1> QED
  BY <1>8, <1>9, <1>10, <1>11, <1>12, <1>13, <1>14 DEF StreamInv, ServerInv, r

\* There is none, or a malformed one: the loop ends.
LEMMA StopStep ==
    ASSUME StreamInv, Process, ParseCommand(m_input).status # "Complete"
    PROVE  StreamInv' /\ UNCHANGED <<wire, arrived, m_input, accepted, version>>
<1> DEFINE r == ParseCommand(m_input)
<1>1. /\ version = "requests" /\ StreamTypes /\ BufferInv /\ SearchInv /\ LoopInv
      /\ parsing /\ ~failed
  BY ProcessType
<1>2. /\ parsing' = FALSE /\ failed' = (r.status = "Error")
      /\ m_input' = m_input /\ accepted' = accepted /\ wire' = wire /\ arrived' = arrived
      /\ version' = version
  BY DEF Process
<1>3. Taken' = Taken /\ Commands' = Commands
  BY <1>2 DEF Taken, Commands
<1>4. BufferInv'
  BY <1>1, <1>2, <1>3 DEF BufferInv
<1>5. SearchInv'
  BY <1>1, <1>2, <1>3 DEF SearchInv
<1>6. failed' \in BOOLEAN /\ (failed' <=> r.status = "Error")
  BY <1>2
<1>7. LoopInv'
  BY <1>2, <1>6 DEF LoopInv
<1>8. StreamTypes'
  BY <1>1, <1>2, <1>6 DEF StreamTypes
<1> QED
  BY <1>2, <1>4, <1>5, <1>7, <1>8 DEF StreamInv, ServerInv

LEMMA OtherStep ==
    ASSUME StreamInv, ClientReads \/ UNCHANGED vars
    PROVE  StreamInv'
<1>1. CASE ClientReads
  <2>1. /\ version # "requests" /\ version' = version
        /\ wire' = wire /\ m_input' = m_input /\ accepted' = accepted /\ parsing' = parsing
        /\ failed' = failed
    BY <1>1 DEF ClientReads
  <2>2. StreamTypes'
    BY <2>1 DEF StreamInv, StreamTypes
  <2> QED
    BY <2>1, <2>2 DEF StreamInv, ServerInv
<1>2. CASE UNCHANGED vars
  <2>1. /\ version' = version /\ arrived' = arrived
        /\ wire' = wire /\ m_input' = m_input /\ accepted' = accepted /\ parsing' = parsing
        /\ failed' = failed
    BY <1>2 DEF vars
  <2>2. Taken' = Taken /\ Commands' = Commands
    BY <2>1 DEF Taken, Commands
  <2>3. StreamTypes'
    BY <2>1 DEF StreamInv, StreamTypes
  <2>4. version = "requests" => BufferInv' /\ SearchInv' /\ LoopInv'
    BY <2>1, <2>2 DEF StreamInv, ServerInv, BufferInv, SearchInv, LoopInv
  <2> QED
    BY <2>1, <2>3, <2>4 DEF StreamInv, ServerInv
<1> QED
  BY <1>1, <1>2

LEMMA StreamStep ==
    ASSUME StreamInv, [Next]_vars
    PROVE  StreamInv'
<1>1. CASE Process
  BY <1>1, AcceptStep, StopStep
<1>2. CASE \E n \in 1..ReadSize : Read(n)
  BY <1>2, ReadStep
<1> QED
  BY <1>1, <1>2, OtherStep DEF Next
-----------------------------------------------------------------------------
(* Replies as bytes. *)

\* text can be in a line: nothing in it looks like the beginning of a terminator.
LineText(text) == text \in Seq(Byte) /\ \A i \in 1..Len(text) : text[i] # "CR"

\* A line that starts with b.
LineOf(b, text) == <<b>> \o text \o CRLF

LEMMA LineOfType ==
    ASSUME NEW b \in Byte, NEW text \in Seq(Byte)
    PROVE  LineOf(b, text) \in Seq(Byte) /\ Len(LineOf(b, text)) = Len(text) + 3
BY LineType DEF LineOf

LEMMA SanitizedText ==
    ASSUME NEW value \in Seq(Byte)
    PROVE  LineText(SanitizeSimpleValue(value))
<1> DEFINE s == SanitizeSimpleValue(value)
<1> DEFINE E(i) == IF value[i] \in {"CR", "LF"} THEN " " ELSE value[i]
<1>3. \A i \in 1..Len(value) : E(i) \in Byte /\ E(i) # "CR"
  <2> TAKE i \in 1..Len(value)
  <2>1. value[i] \in Byte
    OBVIOUS
  <2>2. CASE value[i] \in {"CR", "LF"}
    <3>1. E(i) = " "
      BY <2>2
    <3>2. " " # "CR"
      OBVIOUS
    <3> HIDE DEF E
    <3> QED
      BY <3>1, <3>2, ProtocolBytes, Zenon
  <2>3. CASE value[i] \notin {"CR", "LF"}
    BY <2>1, <2>3
  <2> QED
    BY <2>2, <2>3
<1>4. s = [i \in 1..Len(value) |-> E(i)] /\ Len(value) \in Nat
  <2>1. s = [i \in 1..Len(value) |-> E(i)]
    BY Zenon DEF SanitizeSimpleValue
  <2>2. Len(value) \in Nat
    OBVIOUS
  <2> QED
    BY <2>1, <2>2, Zenon
<1> HIDE DEF s, E
<1>5. s \in Seq(Byte) /\ Len(s) = Len(value) /\ \A i \in 1..Len(s) : s[i] = E(i)
  BY <1>3, <1>4
<1>6. \A i \in 1..Len(s) : s[i] # "CR"
  BY <1>3, <1>5
<1> QED
  BY <1>5, <1>6 DEF LineText, s

LEMMA PrefixedText ==
    ASSUME NEW b \in Byte, b # "CR", NEW text \in Seq(Byte), LineText(text)
    PROVE  /\ LineText(<<b>> \o text) /\ (<<b>> \o text)[1] = b /\ Tail(<<b>> \o text) = text
           /\ Len(<<b>> \o text) = Len(text) + 1
<1> DEFINE s == <<b>>
           t == s \o text
<1>0. text \in Seq(Byte) /\ Len(text) \in Nat /\ \A i \in 1..Len(text) : text[i] # "CR"
  BY DEF LineText
<1>1. s \in Seq(Byte) /\ Len(s) = 1 /\ s[1] = b
  OBVIOUS
<1> HIDE DEF s
<1>2. t \in Seq(Byte) /\ Len(t) = Len(s) + Len(text) /\ Holds(t, 0, s) /\ Holds(t, Len(s), text)
  BY <1>1, ConcatHolds
<1> HIDE DEF t
<1>3. Len(t) = Len(text) + 1 /\ Holds(t, 1, text) /\ t # <<>>
  BY <1>0, <1>1, <1>2
<1>4. t[1] = b /\ \A i \in 1..Len(text) : t[i + 1] = text[i]
  <2>1. t[0 + 1] = s[1]
    BY <1>1, <1>2 DEF Holds
  <2>2. \A i \in 1..Len(text) : t[1 + i] = text[i] /\ 1 + i = i + 1
    BY <1>0, <1>3 DEF Holds
  <2> QED
    BY <1>1, <2>1, <2>2
<1>5. \A i \in 1..Len(t) : t[i] # "CR"
  <2> TAKE i \in 1..Len(t)
  <2>1. CASE i = 1
    BY <1>4, <2>1
  <2>2. CASE i # 1
    <3>1. i - 1 \in 1..Len(text) /\ (i - 1) + 1 = i
      BY <1>0, <1>3, <2>2
    <3> QED
      BY <1>0, <1>4, <3>1
  <2> QED
    BY <2>1, <2>2
<1>6. Tail(t) = text
  <2>1. /\ Tail(t) \in Seq(Byte) /\ Len(Tail(t)) = Len(t) - 1
        /\ \A i \in 1..Len(Tail(t)) : Tail(t)[i] = t[i + 1]
    BY <1>2, <1>3, HeadTailProperties
  <2> DEFINE u == Tail(t)
  <2> HIDE DEF u
  <2>2. u \in Seq(Byte) /\ Len(u) = Len(text) /\ \A i \in 1..Len(u) : u[i] = text[i]
    BY <1>0, <1>3, <1>4, <2>1 DEF u
  <2>3. u = text
    BY <2>2, SeqEqual
  <2> QED
    BY <2>3 DEF u
<1> QED
  BY <1>2, <1>3, <1>4, <1>5, <1>6 DEF LineText, t, s

\* The numbers in a reply.
NumeralOf(k) == IF k < 0 THEN <<"-">> \o Numeral[-k] ELSE Numeral[k]

LEMMA NumeralText ==
    ASSUME NEW k \in Int
    PROVE  LineText(NumeralOf(k)) /\ IntegerOf(NumeralOf(k)) = k
<1>1. CASE k < 0
  <2> DEFINE d == Numeral[-k]
  <2>1. -k \in Nat
    BY <1>1
  <2>2. LineText(d) /\ Decimal(d) = -k
    BY <2>1, NumeralReads, NumeralFacts DEF LineText
  <2> HIDE DEF d
  <2>3. \A b \in Byte : b # "CR" => /\ LineText(<<b>> \o d) /\ (<<b>> \o d)[1] = b
                                    /\ Tail(<<b>> \o d) = d
    <3> TAKE b \in Byte
    <3>1. d \in Seq(Byte)
      BY <2>2 DEF LineText
    <3> QED
      BY <2>2, <3>1, PrefixedText
  <2> DEFINE m == "-"
             t == <<m>> \o d
  <2>4. m # "CR" /\ m \in Byte
    BY ProtocolBytes
  <2>5. LineText(t) /\ t[1] = m /\ Tail(t) = d
    <3> HIDE DEF m
    <3> QED
      BY <2>3, <2>4
  <2>6. NumeralOf(k) = t
    BY <1>1 DEF NumeralOf, d
  <2> HIDE DEF t
  <2>7. IntegerOf(t) = -Decimal(d)
    BY <2>5 DEF IntegerOf
  <2>8. -(-k) = k
    OBVIOUS
  <2> QED
    BY <2>2, <2>5, <2>6, <2>7, <2>8
<1>2. CASE ~(k < 0)
  <2>1. k \in Nat /\ NumeralOf(k) = Numeral[k]
    BY <1>2 DEF NumeralOf
  <2> QED
    BY <2>1, NumeralReads DEF LineText
<1> QED
  BY <1>1, <1>2
LEMMA SmallNumerals ==
    Numeral[0] = <<"0">> /\ Numeral[6] = <<"6">> /\ Numeral[1] = <<"1">>
<1>1. \A n \in 0..9 : Numeral[n] = <<Digit[n + 1]>>
  <2> TAKE n \in 0..9
  <2>1. n \in Nat /\ n < 10
    OBVIOUS
  <2>2. Numeral[n] = NextNumeral(Numeral, n)
    BY <2>1, NumeralUnfold
  <2> QED
    BY <2>1, <2>2, Zenon DEF NextNumeral
<1>2. Digit[1] = "0" /\ Digit[2] = "1" /\ Digit[7] = "6"
  BY DEF Digit
<1>3. /\ Numeral[0] = <<Digit[0 + 1]>> /\ 0 + 1 = 1
      /\ Numeral[6] = <<Digit[6 + 1]>> /\ 6 + 1 = 7
      /\ Numeral[1] = <<Digit[1 + 1]>> /\ 1 + 1 = 2
  BY <1>1
<1> QED
  BY <1>2, <1>3, Zenon

LEMMA SmallConcat ==
    /\ \A a, b \in Byte : <<a>> \in Seq(Byte) /\ <<a, b>> \in Seq(Byte) /\ <<a, b>> = <<a>> \o <<b>>
    /\ \A a, b, c \in Byte : <<a, b, c>> = <<a>> \o (<<b>> \o <<c>>)
<1>1. ASSUME NEW a \in Byte, NEW t \in Seq(Byte)
      PROVE  LET s == <<a>> \o t
             IN  s \in Seq(Byte) /\ Len(s) = 1 + Len(t) /\ s[1] = a /\ \A i \in 1..Len(t) : s[1 + i] = t[i]
  <2> DEFINE one == <<a>>
             s == one \o t
  <2>1. one \in Seq(Byte) /\ Len(one) = 1 /\ one[1] = a
    OBVIOUS
  <2> HIDE DEF one
  <2>2. s \in Seq(Byte) /\ Len(s) = Len(one) + Len(t) /\ Holds(s, 0, one) /\ Holds(s, Len(one), t)
    BY <2>1, ConcatHolds
  <2> HIDE DEF s
  <2>3. s[0 + 1] = one[1]
    BY <2>1, <2>2 DEF Holds
  <2>4. \A i \in 1..Len(t) : s[1 + i] = t[i]
    BY <2>1, <2>2 DEF Holds
  <2> QED
    BY <2>1, <2>2, <2>3, <2>4 DEF s, one
<1>2. ASSUME NEW a \in Byte, NEW b \in Byte
      PROVE  <<a>> \in Seq(Byte) /\ <<a, b>> \in Seq(Byte) /\ <<a, b>> = <<a>> \o <<b>>
  <2> DEFINE t == <<b>>
             s == <<a>> \o t
             u == <<a, b>>
  <2>1. t \in Seq(Byte) /\ Len(t) = 1 /\ t[1] = b
    OBVIOUS
  <2>2. u \in Seq(Byte) /\ Len(u) = 2 /\ u[1] = a /\ u[2] = b
    OBVIOUS
  <2> HIDE DEF t, u
  <2>3. s \in Seq(Byte) /\ Len(s) = 1 + Len(t) /\ s[1] = a /\ s[1 + 1] = t[1]
    BY <1>1, <2>1, SMTT(30)
  <2> HIDE DEF s
  <2>4. \A i \in 1..Len(u) : u[i] = s[i]
    BY <2>1, <2>2, <2>3
  <2>5. u = s
    BY <2>1, <2>2, <2>3, <2>4, SeqEqual
  <2> QED
    BY <2>2, <2>5 DEF s, t, u
<1>3. ASSUME NEW a \in Byte, NEW b \in Byte, NEW c \in Byte
      PROVE  <<a, b, c>> = <<a>> \o (<<b>> \o <<c>>)
  <2> DEFINE t == <<b, c>>
             s == <<a>> \o t
             u == <<a, b, c>>
  <2>1. t \in Seq(Byte) /\ Len(t) = 2 /\ t[1] = b /\ t[2] = c /\ t = <<b>> \o <<c>>
    BY <1>2
  <2>2. u \in Seq(Byte) /\ Len(u) = 3 /\ u[1] = a /\ u[2] = b /\ u[3] = c
    OBVIOUS
  <2> HIDE DEF t, u
  <2>3. s \in Seq(Byte) /\ Len(s) = 1 + Len(t) /\ s[1] = a /\ s[1 + 1] = t[1] /\ s[1 + 2] = t[2]
    BY <1>1, <2>1
  <2> HIDE DEF s
  <2>4. \A i \in 1..Len(u) : u[i] = s[i]
    BY <2>1, <2>2, <2>3
  <2>5. u = s
    BY <2>1, <2>2, <2>3, <2>4, SeqEqual
  <2> QED
    BY <2>1, <2>5 DEF s, u
<1> QED
  BY <1>2, <1>3

\* The replies that are one line.
LEMMA ReplyLines ==
    /\ \A value \in Seq(Byte) :
          /\ SimpleString(value) = LineOf("+", SanitizeSimpleValue(value))
          /\ Error(value) = LineOf("-", <<"ERR">> \o SanitizeSimpleValue(value))
    /\ \A k \in Int : Integer(k) = LineOf(":", NumeralOf(k))
    /\ \A v : Null(v) = IF v = "3" THEN LineOf("_", <<>>) ELSE LineOf("$", NumeralOf(-1))
<1>1. \A value : SimpleString(value) = LineOf("+", SanitizeSimpleValue(value))
  BY Zenon DEF SimpleString, LineOf
<1>2. ASSUME NEW value \in Seq(Byte)
      PROVE  Error(value) = LineOf("-", <<"ERR">> \o SanitizeSimpleValue(value))
  <2> DEFINE s == SanitizeSimpleValue(value)
  <2>1. s \in Seq(Byte)
    BY SanitizedText DEF LineText
  <2> HIDE DEF s
  <2>2. \A a, b \in Byte : <<a, b>> \o s = <<a>> \o (<<b>> \o s)
    <3> TAKE a, b \in Byte
    <3>1. <<a>> \in Seq(Byte) /\ <<b>> \in Seq(Byte) /\ <<a, b>> = <<a>> \o <<b>>
      BY SmallConcat
    <3> DEFINE x == <<a>>
               y == <<b>>
    <3>2. x \in Seq(Byte) /\ y \in Seq(Byte)
      BY <3>1
    <3> HIDE DEF x, y
    <3>3. (x \o y) \o s = x \o (y \o s)
      BY <2>1, <3>2, ConcatAssociative
    <3> QED
      BY <3>1, <3>3, Zenon DEF x, y
  <2>3. <<"-", "ERR">> \o s = <<"-">> \o (<<"ERR">> \o s)
    BY <2>2, ProtocolBytes, Zenon
  <2>4. Error(value) = (<<"-", "ERR">> \o s) \o CRLF
    BY Zenon DEF Error, s
  <2> QED
    BY <2>3, <2>4, Zenon DEF LineOf, s
<1>3. ASSUME NEW k \in Int PROVE Integer(k) = LineOf(":", NumeralOf(k))
  BY Zenon DEF Integer, LineOf, NumeralOf
<1>4. ASSUME NEW v PROVE Null(v) = IF v = "3" THEN LineOf("_", <<>>) ELSE LineOf("$", NumeralOf(-1))
  <2>1. <<"_">> \o <<>> = <<"_">>
    <3>1. \A b \in Byte : <<b>> \o <<>> = <<b>>
      OBVIOUS
    <3> QED
      BY <3>1, ProtocolBytes, Zenon
  <2>2. <<"$", "-", "1">> = <<"$">> \o NumeralOf(-1)
    <3>1. NumeralOf(-1) = <<"-">> \o Numeral[1]
      <4>1. \A k \in Nat \ {0} : -k < 0 /\ -(-k) = k
        OBVIOUS
      <4>2. 1 \in Nat \ {0}
        OBVIOUS
      <4>3. -1 < 0 /\ -(-1) = 1
        BY <4>1, <4>2, Zenon
      <4> QED
        BY <4>3, Zenon DEF NumeralOf
    <3>2. \A a, b, c \in Byte : <<a, b, c>> = <<a>> \o (<<b>> \o <<c>>)
      BY SmallConcat
    <3>3. <<"$", "-", "1">> = <<"$">> \o (<<"-">> \o <<"1">>)
      <4> DEFINE a == "$"
                 b == "-"
                 c == "1"
      <4>1. a \in Byte /\ b \in Byte /\ c \in Byte
        BY ProtocolBytes
      <4> HIDE DEF a, b, c
      <4>2. <<a, b, c>> = <<a>> \o (<<b>> \o <<c>>)
        BY <3>2, <4>1
      <4> QED
        BY <4>2 DEF a, b, c
    <3> QED
      BY <3>1, <3>3, SmallNumerals, Zenon
  <2>3. CASE v = "3"
    BY <2>1, <2>3, Zenon DEF Null, LineOf
  <2>4. CASE v # "3"
    BY <2>2, <2>4, Zenon DEF Null, LineOf
  <2> QED
    BY <2>3, <2>4
<1> QED
  BY <1>1, <1>2, <1>3, <1>4
\* A sequence is joined element by element.
LEMMA JoinedAppend ==
    ASSUME NEW seqs \in Seq(Seq(Byte)), NEW j, Joined(j, seqs), NEW part \in Seq(Byte)
    PROVE  /\ Append(seqs, part) \in Seq(Seq(Byte)) /\ Len(Append(seqs, part)) = Len(seqs) + 1
           /\ Append(seqs, part)[Len(seqs) + 1] = part
           /\ \A i \in 1..Len(seqs) : Append(seqs, part)[i] = seqs[i]
           /\ \E h : Joined(h, Append(seqs, part)) /\ h[Len(seqs) + 1] = j[Len(seqs)] \o part
<1> DEFINE n == Len(seqs)
           all == Append(seqs, part)
           h == [i \in 0..(n + 1) |-> IF i = n + 1 THEN j[n] \o part ELSE j[i]]
<1>1. /\ n \in Nat /\ all \in Seq(Seq(Byte)) /\ Len(all) = n + 1 /\ all[n + 1] = part
      /\ \A i \in 1..n : all[i] = seqs[i]
  OBVIOUS
<1>2. /\ \A i \in 0..n : j[i] \in Seq(Byte)
      /\ j[0] = <<>> /\ \A i \in 1..n : j[i] = j[i - 1] \o seqs[i]
  BY DEF Joined
<1>3. n \in 0..n /\ j[n] \o part \in Seq(Byte)
  BY <1>1, <1>2, ConcatHolds
<1> HIDE DEF all, n
<1>4. \A i \in 0..(n + 1) : h[i] \in Seq(Byte)
  <2> TAKE i \in 0..(n + 1)
  <2>1. CASE i = n + 1
    BY <1>3, <2>1
  <2>2. CASE i # n + 1
    <3>1. i \in 0..n
      BY <1>1, <2>2
    <3> QED
      BY <1>2, <2>2, <3>1
  <2> QED
    BY <2>1, <2>2
<1>5. h \in [0..(n + 1) -> Seq(Byte)]
  BY <1>4
<1>6. h[0] = <<>>
  <2>1. 0 \in 0..(n + 1) /\ 0 # n + 1
    BY <1>1
  <2> QED
    BY <1>2, <2>1
<1>7. h[n + 1] = j[n] \o part /\ h[n] = j[n]
  <2>1. n + 1 \in 0..(n + 1) /\ n \in 0..(n + 1) /\ n # n + 1
    BY <1>1
  <2> QED
    BY <2>1
<1>8. \A i \in 1..(n + 1) : h[i] = h[i - 1] \o all[i]
  <2> TAKE i \in 1..(n + 1)
  <2>1. CASE i = n + 1
    <3>1. i - 1 = n
      BY <1>1, <2>1
    <3> QED
      BY <1>1, <1>7, <2>1, <3>1
  <2>2. CASE i # n + 1
    <3>1. i \in 1..n /\ i \in 0..(n + 1) /\ i - 1 \in 0..(n + 1) /\ i - 1 # n + 1
      BY <1>1, <2>2
    <3>2. h[i] = j[i] /\ h[i - 1] = j[i - 1]
      BY <2>2, <3>1
    <3> HIDE DEF h
    <3> QED
      BY <1>1, <1>2, <3>1, <3>2
  <2> QED
    BY <2>1, <2>2
<1> HIDE DEF h
<1>9. Joined(h, all)
  BY <1>1, <1>5, <1>6, <1>8 DEF Joined
<1> QED
  BY <1>1, <1>7, <1>9 DEF all, n

LEMMA HelloFieldsType ==
    ASSUME NEW v \in {"2", "3"}
    PROVE  /\ HelloFields(v) \in Seq(Seq(Byte)) /\ Len(HelloFields(v)) = 12
           /\ HelloFields(v)[11] = <<"modules">> /\ <<"modules">> \in Seq(Byte)
           /\ SubSeq(HelloFields(v), 1, 10) \in Seq(Seq(Byte))
           /\ Len(SubSeq(HelloFields(v), 1, 10)) = 10
           /\ \A i \in 1..10 : SubSeq(HelloFields(v), 1, 10)[i] = HelloFields(v)[i]
<1>1. \A b \in Byte : <<b>> \in Seq(Byte)
  OBVIOUS
<1>2. /\ "server" \in Byte /\ "radish" \in Byte /\ "version" \in Byte /\ "0.1" \in Byte
      /\ "proto" \in Byte /\ v \in Byte /\ "mode" \in Byte /\ "standalone" \in Byte
      /\ "role" \in Byte /\ "master" \in Byte /\ "modules" \in Byte
  BY DEF Byte
<1>3. /\ <<"server">> \in Seq(Byte) /\ <<"radish">> \in Seq(Byte) /\ <<"version">> \in Seq(Byte)
      /\ <<"0.1">> \in Seq(Byte) /\ <<"proto">> \in Seq(Byte) /\ <<v>> \in Seq(Byte)
      /\ <<"mode">> \in Seq(Byte) /\ <<"standalone">> \in Seq(Byte) /\ <<"role">> \in Seq(Byte)
      /\ <<"master">> \in Seq(Byte) /\ <<"modules">> \in Seq(Byte)
  BY <1>1, <1>2, Zenon
<1>4. <<>> \in Seq(Byte)
  OBVIOUS
<1>5. \A a, b, c, d, e, f, g, h, i, j, k, l \in Seq(Byte) :
          LET s == <<a, b, c, d, e, f, g, h, i, j, k, l>>
          IN  s \in Seq(Seq(Byte)) /\ Len(s) = 12 /\ s[11] = k
  OBVIOUS
<1> DEFINE s == HelloFields(v)
<1>6. s \in Seq(Seq(Byte)) /\ Len(s) = 12 /\ s[11] = <<"modules">>
  <2> DEFINE a == <<"server">>
             b == <<"radish">>
             c == <<"version">>
             d == <<"0.1">>
             e == <<"proto">>
             f == <<v>>
             g == <<"mode">>
             h == <<"standalone">>
             i == <<"role">>
             j == <<"master">>
             k == <<"modules">>
             l == <<>>
  <2>1. s = <<a, b, c, d, e, f, g, h, i, j, k, l>>
    BY Zenon DEF HelloFields
  <2> HIDE DEF s, a, b, c, d, e, f, g, h, i, j, k, l
  <2>2. /\ a \in Seq(Byte) /\ b \in Seq(Byte) /\ c \in Seq(Byte) /\ d \in Seq(Byte)
        /\ e \in Seq(Byte) /\ f \in Seq(Byte) /\ g \in Seq(Byte) /\ h \in Seq(Byte)
        /\ i \in Seq(Byte) /\ j \in Seq(Byte) /\ k \in Seq(Byte) /\ l \in Seq(Byte)
    BY <1>3, <1>4, Zenon DEF a, b, c, d, e, f, g, h, i, j, k, l
  <2>3. s \in Seq(Seq(Byte)) /\ Len(s) = 12 /\ s[11] = k
    BY <2>1, <2>2
  <2> QED
    BY <2>3 DEF k
<1> HIDE DEF s
<1>7. /\ SubSeq(s, 1, 10) \in Seq(Seq(Byte)) /\ Len(SubSeq(s, 1, 10)) = 10
      /\ \A i \in 1..10 : SubSeq(s, 1, 10)[i] = s[i]
  <2> DEFINE t == SubSeq(s, 1, 10)
  <2>1. t = [i \in 1..(10 - 1 + 1) |-> s[1 + i - 1]]
    BY <1>6
  <2>2. 10 - 1 + 1 = 10 /\ \A i \in 1..10 : 1 + i - 1 = i /\ s[i] \in Seq(Byte)
    <3>1. 10 - 1 + 1 = 10 /\ \A i \in 1..10 : 1 + i - 1 = i /\ i \in 1..12
      OBVIOUS
    <3>2. \A i \in 1..12 : s[i] \in Seq(Byte)
      BY <1>6, ElementOfSeq
    <3> QED
      BY <3>1, <3>2, Zenon
  <2>3. t = [i \in 1..10 |-> s[i]]
    BY <2>1, <2>2
  <2> HIDE DEF t
  <2>4. t \in Seq(Seq(Byte)) /\ Len(t) = 10 /\ \A i \in 1..10 : t[i] = s[i]
    BY <2>2, <2>3
  <2> QED
    BY <2>4 DEF t
<1> QED
  BY <1>3, <1>6, <1>7 DEF s

\* The reply to HELLO 3: a line, eleven bulk strings and an empty array.
HelloParts(v) ==
    Append(Append(BulkSeq(SubSeq(HelloFields(v), 1, 10)), Bulk(<<"modules">>)), LineOf("*", Numeral[0]))

LEMMA HelloMap ==
    ASSUME NEW v \in {"2", "3"}
    PROVE  /\ HelloParts(v) \in Seq(Seq(Byte)) /\ Len(HelloParts(v)) = 12
           /\ \A i \in 1..11 : HelloParts(v)[i] = Bulk(HelloFields(v)[i])
           /\ HelloParts(v)[12] = LineOf("*", Numeral[0])
           /\ v # "2" => \E h : /\ Joined(h, HelloParts(v))
                                /\ Hello(v) = LineOf("%", Numeral[6]) \o h[12]
<1> DEFINE ten == SubSeq(HelloFields(v), 1, 10)
           one == Bulk(<<"modules">>)
           end == LineOf("*", Numeral[0])
           b10 == BulkSeq(ten)
           b11 == Append(b10, one)
<1>1. /\ ten \in Seq(Seq(Byte)) /\ Len(ten) = 10 /\ <<"modules">> \in Seq(Byte)
      /\ HelloFields(v)[11] = <<"modules">> /\ \A i \in 1..10 : ten[i] = HelloFields(v)[i]
  BY HelloFieldsType
<1>2. one \in Seq(Byte)
  BY <1>1, BulkEncoding
<1>3. end \in Seq(Byte)
  <2>1. Numeral[0] \in Seq(Byte)
    BY NumeralReads
  <2>2. \A b \in Byte : LineOf(b, Numeral[0]) \in Seq(Byte)
    BY <2>1, LineOfType
  <2> QED
    BY <2>2, ProtocolBytes, Zenon
<1>4. Hello(v) = <<"%", "6">> \o CRLF \o Bulks(ten) \o one \o <<"*", "0">> \o CRLF \/ v = "2"
  BY Zenon DEF Hello
<1>5. <<"%", "6">> \o CRLF = LineOf("%", Numeral[6]) /\ LineOf("%", Numeral[6]) \in Seq(Byte)
  <2>1. \A a, b \in Byte : <<a, b>> = <<a>> \o <<b>>
    BY SmallConcat
  <2>2. <<"%", "6">> = <<"%">> \o <<"6">>
    BY <2>1, ProtocolBytes, Zenon
  <2>3. Numeral[6] \in Seq(Byte)
    BY NumeralReads
  <2>4. \A b \in Byte : LineOf(b, Numeral[6]) \in Seq(Byte)
    BY <2>3, LineOfType
  <2> QED
    BY <2>2, <2>4, SmallNumerals, ProtocolBytes, Zenon DEF LineOf
<1>6. \A x \in Seq(Byte) : (x \o <<"*", "0">>) \o CRLF = x \o end
  <2>1. \A a, b \in Byte : <<a, b>> \in Seq(Byte) /\ <<a, b>> = <<a>> \o <<b>>
    BY SmallConcat
  <2>2. <<"*", "0">> \in Seq(Byte) /\ <<"*", "0">> = <<"*">> \o <<"0">>
    BY <2>1, ProtocolBytes, Zenon
  <2>3. end = <<"*", "0">> \o CRLF
    BY <2>2, SmallNumerals, Zenon DEF LineOf
  <2> DEFINE s == <<"*", "0">>
  <2>4. s \in Seq(Byte)
    BY <2>2
  <2> HIDE DEF s
  <2>5. \A x \in Seq(Byte) : (x \o s) \o CRLF = x \o (s \o CRLF)
    BY <2>4, TerminatorBytes, ConcatAssociative, SMTT(30)
  <2> QED
    BY <2>3, <2>5, Zenon DEF s
<1>7. /\ b10 \in Seq(Seq(Byte)) /\ Len(b10) = 10 /\ \A i \in 1..10 : b10[i] = Bulk(ten[i])
      /\ Bulks(ten) \in Seq(Byte) /\ \E j : Joined(j, b10) /\ Bulks(ten) = j[10]
  <2> HIDE DEF ten
  <2>1. /\ b10 \in Seq(Seq(Byte)) /\ Len(b10) = Len(ten)
        /\ \A i \in 1..Len(ten) : b10[i] = Bulk(ten[i])
        /\ Bulks(ten) \in Seq(Byte) /\ \E j : Joined(j, b10) /\ Bulks(ten) = j[Len(ten)]
    BY <1>1, BulksJoined
  <2>2. Len(ten) = 10
    BY <1>1
  <2> HIDE DEF b10
  <2> QED
    BY <2>1, <2>2
<1>8. PICK j : Joined(j, b10) /\ Bulks(ten) = j[10]
  BY <1>7
<1> DEFINE head == LineOf("%", Numeral[6])
           ten0 == Bulks(ten)
<1> HIDE DEF one, end, b10
<1>9. /\ b11 \in Seq(Seq(Byte)) /\ Len(b11) = 11 /\ b11[11] = one
      /\ \A i \in 1..10 : b11[i] = b10[i]
      /\ \E g : Joined(g, b11) /\ g[11] = j[10] \o one
  <2>1. /\ b11 \in Seq(Seq(Byte)) /\ Len(b11) = Len(b10) + 1 /\ b11[Len(b10) + 1] = one
        /\ \A i \in 1..Len(b10) : b11[i] = b10[i]
        /\ \E g : Joined(g, b11) /\ g[Len(b10) + 1] = j[Len(b10)] \o one
    <3>1. b10 \in Seq(Seq(Byte)) /\ Joined(j, b10)
      BY <1>7, <1>8
    <3> QED
      BY <1>2, <3>1, JoinedAppend, ZenonT(60)
  <2>2. Len(b10) = 10 /\ Len(b10) + 1 = 11
    BY <1>7
  <2> HIDE DEF b11
  <2> QED
    BY <2>1, <2>2
<1>10. PICK g : Joined(g, b11) /\ g[11] = j[10] \o one
  BY <1>9
<1> HIDE DEF b11
<1> DEFINE b12 == Append(b11, end)
<1>11. /\ b12 \in Seq(Seq(Byte)) /\ Len(b12) = 12 /\ b12[12] = end
       /\ \A i \in 1..11 : b12[i] = b11[i]
       /\ \E h : Joined(h, b12) /\ h[12] = g[11] \o end
  <2>1. /\ b12 \in Seq(Seq(Byte)) /\ Len(b12) = Len(b11) + 1 /\ b12[Len(b11) + 1] = end
        /\ \A i \in 1..Len(b11) : b12[i] = b11[i]
        /\ \E h : Joined(h, b12) /\ h[Len(b11) + 1] = g[Len(b11)] \o end
    <3>1. b11 \in Seq(Seq(Byte)) /\ Joined(g, b11)
      BY <1>9, <1>10
    <3> QED
      BY <1>3, <3>1, JoinedAppend, ZenonT(60)
  <2>2. Len(b11) = 11 /\ Len(b11) + 1 = 12
    BY <1>9
  <2> HIDE DEF b12
  <2> QED
    BY <2>1, <2>2
<1>12. HelloParts(v) = b12
  BY Zenon DEF HelloParts, b11, b10, one, end
<1>13. \A i \in 1..11 : HelloParts(v)[i] = Bulk(HelloFields(v)[i])
  <2> TAKE i \in 1..11
  <2>1. CASE i = 11
    BY <1>1, <1>9, <1>11, <1>12, <2>1 DEF one
  <2>2. CASE i # 11
    <3>1. i \in 1..10
      BY <2>2
    <3>2. HelloParts(v)[i] = Bulk(ten[i]) /\ ten[i] = HelloFields(v)[i]
      BY <1>1, <1>7, <1>9, <1>11, <1>12, <3>1, ZenonT(60)
    <3> QED
      BY <3>2, Zenon
  <2> QED
    BY <2>1, <2>2
<1>14. PICK h : Joined(h, b12) /\ h[12] = g[11] \o end
  BY <1>11
<1>15. ASSUME v # "2" PROVE Hello(v) = head \o h[12]
  <2>1. Hello(v) = ((head \o ten0) \o one) \o <<"*", "0">> \o CRLF
    BY <1>4, <1>5, <1>15, Zenon
  <2>2. head \in Seq(Byte) /\ ten0 \in Seq(Byte)
    BY <1>5, <1>7
  <2> HIDE DEF head, ten0
  <2>3. head \o ten0 \in Seq(Byte)
    BY <2>2, ConcatHolds
  <2>4. (head \o ten0) \o one \in Seq(Byte)
    BY <1>2, <2>3, ConcatHolds
  <2>5. Hello(v) = ((head \o ten0) \o one) \o end
    BY <1>6, <2>1, <2>4, Zenon
  <2>6. (head \o ten0) \o one = head \o (ten0 \o one) /\ ten0 \o one \in Seq(Byte)
    BY <1>2, <2>2, ConcatAssociative, ConcatHolds, SMTT(30)
  <2>7. (head \o (ten0 \o one)) \o end = head \o ((ten0 \o one) \o end)
    <3> DEFINE x == ten0 \o one
    <3>1. x \in Seq(Byte)
      BY <2>6
    <3> HIDE DEF x
    <3>2. (head \o x) \o end = head \o (x \o end)
      BY <1>3, <2>2, <3>1, ConcatAssociative, SMTT(30)
    <3> QED
      BY <3>2, Zenon DEF x
  <2>8. h[12] = (ten0 \o one) \o end
    BY <1>8, <1>10, <1>14, Zenon DEF ten0
  <2> QED
    BY <2>5, <2>6, <2>7, <2>8, Zenon
<1> QED
  BY <1>11, <1>12, <1>13, <1>14, <1>15, Zenon DEF end
\* What the replies of the server are.
IsReply(reply) ==
    /\ reply = <<reply[1], reply[2]>>
    /\ \/ reply[1] \in {"simple", "error", "bulk"} /\ reply[2] \in Seq(Byte)
       \/ reply[1] = "integer" /\ reply[2] \in Int
       \/ reply[1] \in {"null", "hello"} /\ reply[2] = <<>>
       \/ reply[1] = "array" /\ reply[2] \in Seq(Seq(Byte))

LEMMA RepliesKnown ==
    ASSUME NEW reply \in Replies
    PROVE  IsReply(reply)
<1> DEFINE S1 == Seq(STRING)
           S2 == Seq(Seq(STRING))
<1>1. S1 \subseteq Seq(Byte) /\ S2 \subseteq Seq(Seq(Byte))
  BY ByteStrings, Zenon
<1>2. reply \in ({"simple", "error", "bulk"} \X S1) \cup ({"integer"} \X Int)
                    \cup ({"null", "hello"} \X {<<>>}) \cup ({"array"} \X S2)
  BY ReplyAssumption, Zenon
<1> HIDE DEF S1, S2
<1>3. CASE reply \in {"simple", "error", "bulk"} \X S1
  BY <1>1, <1>3 DEF IsReply
<1>4. CASE reply \in {"integer"} \X Int
  BY <1>4 DEF IsReply
<1>5. CASE reply \in {"null", "hello"} \X {<<>>}
  BY <1>5 DEF IsReply
<1>6. CASE reply \in {"array"} \X S2
  BY <1>1, <1>6 DEF IsReply
<1> QED
  BY <1>2, <1>3, <1>4, <1>5, <1>6

LEMMA EncodeCases ==
    ASSUME NEW reply, NEW v
    PROVE  /\ reply[1] = "simple"  => Encode(reply, v) = SimpleString(reply[2])
           /\ reply[1] = "error"   => Encode(reply, v) = Error(reply[2])
           /\ reply[1] = "integer" => Encode(reply, v) = Integer(reply[2])
           /\ reply[1] = "bulk"    => Encode(reply, v) = Bulk(reply[2])
           /\ reply[1] = "null"    => Encode(reply, v) = Null(v)
           /\ reply[1] = "array"   => Encode(reply, v) = Array(reply[2])
           /\ reply[1] = "hello"   => Encode(reply, v) = Hello(v)
BY DEF Encode

\* A reply is some bytes.
LEMMA EncodeType ==
    ASSUME NEW reply, IsReply(reply), NEW v \in {"2", "3"}
    PROVE  Encode(reply, v) \in Seq(Byte) /\ Len(Encode(reply, v)) \in Nat \ {0}
<1> DEFINE Good(s) == s \in Seq(Byte) /\ Len(s) \in Nat \ {0}
<1>1. \A b \in Byte : \A text \in Seq(Byte) : Good(LineOf(b, text))
  <2> TAKE b \in Byte
  <2> TAKE text \in Seq(Byte)
  <2>1. LineOf(b, text) \in Seq(Byte) /\ Len(LineOf(b, text)) = Len(text) + 3 /\ Len(text) \in Nat
    BY LineOfType
  <2> QED
    BY <2>1
<1>2. \A text : LineText(text) => text \in Seq(Byte)
  BY DEF LineText
<1>3. \A values \in Seq(Seq(Byte)) : Good(Array(values))
  <2> TAKE values \in Seq(Seq(Byte))
  <2>1. Array(values) = EncodeCommand(values)
    BY Zenon DEF Array, EncodeCommand
  <2> QED
    BY <2>1, CommandEncoding
<1>4. reply[1] = "simple" => Good(Encode(reply, v))
  <2> SUFFICES ASSUME reply[1] = "simple" PROVE Good(SimpleString(reply[2]))
    BY EncodeCases
  <2>1. reply[2] \in Seq(Byte)
    BY DEF IsReply
  <2>2. SanitizeSimpleValue(reply[2]) \in Seq(Byte)
    BY <1>2, <2>1, SanitizedText
  <2> HIDE DEF Good
  <2>3. SimpleString(reply[2]) = LineOf("+", SanitizeSimpleValue(reply[2]))
    BY <2>1, ReplyLines, Zenon
  <2> QED
    BY <1>1, <2>2, <2>3, ProtocolBytes, Zenon
<1>5. reply[1] = "error" => Good(Encode(reply, v))
  <2> SUFFICES ASSUME reply[1] = "error" PROVE Good(Error(reply[2]))
    BY EncodeCases
  <2>1. reply[2] \in Seq(Byte)
    BY DEF IsReply
  <2>2. SanitizeSimpleValue(reply[2]) \in Seq(Byte)
    BY <1>2, <2>1, SanitizedText
  <2>3. \A b \in Byte : \A text \in Seq(Byte) : <<b>> \o text \in Seq(Byte)
    BY SmallConcat, ConcatHolds
  <2>4. <<"ERR">> \o SanitizeSimpleValue(reply[2]) \in Seq(Byte)
    BY <2>2, <2>3, ProtocolBytes, Zenon
  <2>5. Error(reply[2]) = LineOf("-", <<"ERR">> \o SanitizeSimpleValue(reply[2]))
    BY <2>1, ReplyLines, Zenon
  <2> HIDE DEF Good
  <2> QED
    BY <1>1, <2>4, <2>5, ProtocolBytes, Zenon
<1>6. reply[1] = "integer" => Good(Encode(reply, v))
  <2> SUFFICES ASSUME reply[1] = "integer" PROVE Good(Integer(reply[2]))
    BY EncodeCases
  <2>1. reply[2] \in Int
    BY DEF IsReply
  <2>2. NumeralOf(reply[2]) \in Seq(Byte)
    BY <1>2, <2>1, NumeralText
  <2>3. Integer(reply[2]) = LineOf(":", NumeralOf(reply[2]))
    BY <2>1, ReplyLines, Zenon
  <2> HIDE DEF Good
  <2> QED
    BY <1>1, <2>2, <2>3, ProtocolBytes, Zenon
<1>7. reply[1] = "bulk" => Good(Encode(reply, v))
  <2> SUFFICES ASSUME reply[1] = "bulk" PROVE Good(Bulk(reply[2]))
    BY EncodeCases
  <2> DEFINE d == reply[2]
  <2>1. d \in Seq(Byte)
    BY DEF IsReply
  <2> HIDE DEF d
  <2>2. Len(Numeral[Len(d)]) \in Nat /\ Len(d) \in Nat
    BY <2>1, NumeralReads
  <2>3. Bulk(d) \in Seq(Byte) /\ Len(Bulk(d)) = Len(Numeral[Len(d)]) + Len(d) + 5
    BY <2>1, BulkEncoding
  <2>4. Good(Bulk(d))
    BY <2>2, <2>3
  <2> QED
    BY <2>4 DEF d
<1>8. reply[1] = "null" => Good(Encode(reply, v))
  <2> SUFFICES ASSUME reply[1] = "null" PROVE Good(Null(v))
    BY EncodeCases
  <2>1. -1 \in Int /\ <<>> \in Seq(Byte)
    OBVIOUS
  <2>2. NumeralOf(-1) \in Seq(Byte)
    BY <1>2, <2>1, NumeralText, Zenon
  <2>3. Null(v) = LineOf("_", <<>>) \/ Null(v) = LineOf("$", NumeralOf(-1))
    BY ReplyLines, Zenon
  <2> HIDE DEF Good
  <2> QED
    BY <1>1, <2>1, <2>2, <2>3, ProtocolBytes, Zenon
<1>9. reply[1] = "array" => Good(Encode(reply, v))
  <2> SUFFICES ASSUME reply[1] = "array" PROVE Good(Array(reply[2]))
    BY EncodeCases
  <2>1. reply[2] \in Seq(Seq(Byte))
    BY DEF IsReply
  <2> HIDE DEF Good
  <2> QED
    BY <1>3, <2>1
<1>10. Good(Hello(v))
  <2>1. CASE v = "2"
    <3>1. Hello(v) = Array(HelloFields(v))
      BY <2>1, Zenon DEF Hello
    <3> HIDE DEF Good
    <3> QED
      BY <1>3, <3>1, HelloFieldsType, Zenon
  <2>2. CASE v # "2"
    <3>1. PICK h : Joined(h, HelloParts(v)) /\ Hello(v) = LineOf("%", Numeral[6]) \o h[12]
      BY <2>2, HelloMap, Zenon
    <3>2. Len(HelloParts(v)) = 12
      BY HelloMap, Zenon
    <3>3. h[12] \in Seq(Byte)
      BY <3>1, <3>2 DEF Joined
    <3>4. Numeral[6] \in Seq(Byte)
      BY NumeralReads
    <3> DEFINE head == LineOf("%", Numeral[6])
    <3>5. Good(head)
      <4> HIDE DEF Good
      <4> QED
        BY <1>1, <3>4, ProtocolBytes, Zenon
    <3> HIDE DEF head
    <3>6. Good(head \o h[12])
      BY <3>3, <3>5, ConcatHolds
    <3> HIDE DEF Good
    <3> QED
      BY <3>1, <3>6, Zenon DEF head
  <2> QED
    BY <2>1, <2>2
<1>11. reply[1] = "hello" => Good(Encode(reply, v))
  <2> HIDE DEF Good
  <2> QED
    BY <1>10, EncodeCases
<1>12. reply[1] \in {"simple", "error", "integer", "bulk", "null", "array", "hello"}
  BY DEF IsReply
<1> HIDE DEF Good
<1>13. Good(Encode(reply, v))
  BY <1>4, <1>5, <1>6, <1>7, <1>8, <1>9, <1>11, <1>12
<1> QED
  BY <1>13 DEF Good
-----------------------------------------------------------------------------
(* How a connection starts. *)

CommandSeq(commands) == [i \in 1..Len(commands) |-> EncodeCommand(commands[i])]

LEMMA EncodedJoined ==
    ASSUME NEW commands \in Seq(Seq(Seq(Byte)))
    PROVE  /\ CommandSeq(commands) \in Seq(Seq(Byte))
           /\ Len(CommandSeq(commands)) = Len(commands)
           /\ \A i \in 1..Len(commands) : /\ commands[i] \in Seq(Seq(Byte))
                                          /\ CommandSeq(commands)[i] = EncodeCommand(commands[i])
           /\ Encoded(commands) \in Seq(Byte)
           /\ \E e : Joined(e, CommandSeq(commands)) /\ Encoded(commands) = e[Len(commands)]
<1>1. \A i \in 1..Len(commands) : /\ commands[i] \in Seq(Seq(Byte))
                                  /\ EncodeCommand(commands[i]) \in Seq(Byte)
  BY CommandEncoding
<1>2. CommandSeq(commands) \in Seq(Seq(Byte)) /\ Len(CommandSeq(commands)) = Len(commands)
  BY <1>1 DEF CommandSeq
<1>3. \A i \in 1..Len(commands) : CommandSeq(commands)[i] = EncodeCommand(commands[i])
  BY <1>1 DEF CommandSeq
<1>4. Encoded(commands) = FlattenSeq(CommandSeq(commands))
  BY Zenon DEF Encoded, CommandSeq
<1>5. \E e : /\ Joined(e, CommandSeq(commands))
             /\ FlattenSeq(CommandSeq(commands)) = e[Len(CommandSeq(commands))]
  BY <1>2, FlattenJoined
<1>6. FlattenSeq(CommandSeq(commands)) \in Seq(Byte)
  BY <1>2, FlattenType
<1> QED
  BY <1>1, <1>2, <1>3, <1>4, <1>5, <1>6

LEMMA DamagesType ==
    ASSUME NEW bytes \in Seq(Byte), NEW damaged \in Damages(bytes)
    PROVE  damaged \in Seq(Byte)
<1>1. Bytes \subseteq Byte
  <2> DEFINE S == STRING
  <2>1. Bytes \subseteq S
    BY StreamAssumption, Zenon
  <2>2. S \subseteq Byte
    BY DEF Byte
  <2> HIDE DEF S
  <2> QED
    BY <2>1, <2>2
<1>2. PICK i \in 1..Len(bytes) :
          \/ damaged = RemoveAt(bytes, i)
          \/ \E b \in Bytes : damaged = ReplaceAt(bytes, i, b)
          \/ \E b \in Bytes : damaged = InsertAt(bytes, i, b)
  BY DEF Damages
<1>3. /\ SubSeq(bytes, 1, i - 1) \in Seq(Byte) /\ SubSeq(bytes, i + 1, Len(bytes)) \in Seq(Byte)
      /\ SubSeq(bytes, i, Len(bytes)) \in Seq(Byte)
  OBVIOUS
<1>4. CASE damaged = RemoveAt(bytes, i)
  BY <1>3, <1>4, ConcatHolds DEF RemoveAt
<1>5. CASE \E b \in Bytes : damaged = ReplaceAt(bytes, i, b)
  <2>1. PICK b \in Byte : damaged = [bytes EXCEPT ![i] = b]
    BY <1>1, <1>5 DEF ReplaceAt
  <2> QED
    BY <2>1
<1>6. CASE \E b \in Bytes : damaged = InsertAt(bytes, i, b)
  <2> DEFINE s == SubSeq(bytes, 1, i - 1)
             t == SubSeq(bytes, i, Len(bytes))
  <2>1. PICK b \in Byte : damaged = s \o <<b>> \o t
    BY <1>1, <1>6 DEF InsertAt
  <2>2. s \in Seq(Byte) /\ t \in Seq(Byte) /\ <<b>> \in Seq(Byte)
    BY <1>3
  <2> DEFINE o == <<b>>
  <2> HIDE DEF s, t, o
  <2>3. s \o o \in Seq(Byte)
    BY <2>2, ConcatHolds DEF o
  <2>4. (s \o o) \o t \in Seq(Byte)
    BY <2>2, <2>3, ConcatHolds
  <2> QED
    BY <2>1, <2>4 DEF o
<1> QED
  BY <1>2, <1>4, <1>5, <1>6

\* Streams and Damaged are sequences of commands, commands of arguments.
LEMMA StreamsKnown ==
    /\ Streams \subseteq Seq(Seq(Seq(Byte)))
    /\ Damaged \subseteq Seq(Seq(Seq(Byte)))
<1> DEFINE S == Seq(Seq(Seq(STRING)))
<1>1. Streams \subseteq S /\ Damaged \subseteq S
  BY StreamAssumption, Zenon
<1>2. S \subseteq Seq(Seq(Seq(Byte)))
  BY ByteStrings, Zenon
<1> HIDE DEF S
<1> QED
  BY <1>1, <1>2

LEMMA WireType ==
    ASSUME Init
    PROVE  wire \in Seq(Byte)
<1>1. CASE InitReplies
  <2>1. PICK first \in Replies, second \in Replies : sent = <<first, second>>
    BY <1>1 DEF InitReplies
  <2>2. sent[1] = first /\ sent[2] = second
    BY <2>1
  <2>3. IsReply(sent[1]) /\ IsReply(sent[2])
    BY <2>2, RepliesKnown
  <2>4. version \in {"2", "3"} /\ wire = Encode(sent[1], version) \o Encode(sent[2], version)
    BY <1>1 DEF InitReplies
  <2> QED
    BY <2>3, <2>4, EncodeType, ConcatHolds
<1>2. CASE InitRequests
  <2>1. CASE sent \in Streams /\ wire = Encoded(sent)
    BY <2>1, StreamsKnown, EncodedJoined
  <2>2. CASE sent \in Damaged /\ wire \in Damages(Encoded(sent))
    <3>1. Encoded(sent) \in Seq(Byte)
      BY <2>2, StreamsKnown, EncodedJoined
    <3> QED
      BY <2>2, <3>1, DamagesType
  <2> QED
    BY <1>2, <2>1, <2>2 DEF InitRequests
<1> QED
  BY <1>1, <1>2 DEF Init

LEMMA StreamInit ==
    ASSUME Init
    PROVE  StreamInv
<1>1. wire \in Seq(Byte)
  BY WireType
<1>2. m_input = <<>> /\ arrived = 0 /\ parsing = FALSE /\ accepted = <<>> /\ failed = FALSE
  BY DEF Init
<1>3. StreamTypes
  <2>1. \A S : <<>> \in Seq(S)
    OBVIOUS
  <2>2. m_input \in Seq(Byte) /\ accepted \in Seq(Accepted)
    BY <1>2, <2>1, Zenon
  <2>3. parsing \in BOOLEAN /\ failed \in BOOLEAN /\ ~parsing
    BY <1>2
  <2> QED
    BY <1>1, <1>2, <2>2, <2>3, Zenon DEF StreamTypes
<1>4. Taken = 0 /\ Len(accepted) = 0 /\ Commands = <<>>
  <2>1. Len(accepted) = 0 /\ Len(m_input) = 0
    BY <1>2
  <2>2. Commands = [i \in 1..0 |-> accepted[i].arguments]
    BY <2>1, Zenon DEF Commands
  <2>3. Commands = <<>>
    BY <2>2
  <2>4. arrived = 0
    BY <1>2
  <2>5. Taken = 0
    BY <2>1, <2>4 DEF Taken
  <2> QED
    BY <2>1, <2>3, <2>5, Zenon
<1>5. BufferInv
  BY <1>1, <1>2 DEF BufferInv
<1>6. SearchInv
  <2>1. PICK h : Search(h, wire)
    BY <1>1, SearchExists
  <2>2. h[0] = RespParseResult("Complete", <<>>, 0)
    BY <2>1 DEF Search
  <2>3. h[Len(accepted)] = RespParseResult("Complete", Commands, Taken)
    BY <1>4, <2>2
  <2>4. Len(accepted) <= Taken
    BY <1>4
  <2> QED
    BY <2>1, <2>3, <2>4 DEF SearchInv
<1>7. LoopInv
  <2>1. ParseCommand(m_input) = Incomplete
    BY <1>2, Zenon DEF ParseCommand
  <2>2. Incomplete.status = "Incomplete"
    BY DEF Incomplete, RespParseResult
  <2> QED
    BY <1>2, <2>1, <2>2 DEF LoopInv
<1> QED
  BY <1>3, <1>5, <1>6, <1>7 DEF StreamInv, ServerInv

LEMMA StreamInvariant == Spec => []StreamInv
<1>1. Init => StreamInv
  BY StreamInit
<1>2. StreamInv /\ [Next]_vars => StreamInv'
  BY StreamStep
<1> QED
  BY <1>1, <1>2, PTL DEF Spec

\* Prefixes.
LEMMA PrefixOf ==
    ASSUME NEW S, NEW s \in Seq(S), NEW t \in Seq(S), Len(s) <= Len(t),
           \A i \in 1..Len(s) : t[i] = s[i]
    PROVE  IsPrefix(s, t)
<1>1. SubSeq(s, 1, Len(s)) = [i \in 1..Len(s) |-> s[i]]
  OBVIOUS
<1>2. SubSeq(t, 1, Len(s)) = [i \in 1..Len(s) |-> t[i]]
  OBVIOUS
<1> QED
  BY <1>1, <1>2 DEF IsPrefix

LEMMA CommandsType ==
    ASSUME StreamTypes
    PROVE  /\ Commands \in Seq(Seq(Seq(Byte))) /\ Len(Commands) = Len(accepted)
           /\ Len(accepted) \in Nat
           /\ \A i \in 1..Len(accepted) : Commands[i] = accepted[i].arguments
<1>1. accepted \in Seq(Accepted) /\ Len(accepted) \in Nat
  BY DEF StreamTypes
<1>2. \A i \in 1..Len(accepted) : accepted[i] \in Accepted
  BY <1>1
<1>3. \A x \in Accepted : x.arguments \in Seq(Seq(Byte))
  BY DEF Accepted
<1>4. \A i \in 1..Len(accepted) : accepted[i].arguments \in Seq(Seq(Byte))
  BY <1>2, <1>3
<1>5. Commands = [i \in 1..Len(accepted) |-> accepted[i].arguments]
  BY DEF Commands
<1> QED
  BY <1>1, <1>4, <1>5

LEMMA FragmentsFollows ==
    ASSUME StreamInv
    PROVE  FragmentsIrrelevant
<1> SUFFICES ASSUME version = "requests"
             PROVE  /\ IsPrefix(Commands, Parse(wire).commands)
                    /\ Settled => Parse(wire) = [commands |-> Commands, failed |-> failed]
  BY DEF FragmentsIrrelevant
<1>1. StreamTypes /\ BufferInv /\ SearchInv /\ LoopInv /\ wire \in Seq(Byte)
  BY DEF StreamInv, ServerInv, StreamTypes
<1>2. PICK h : Search(h, wire) /\ h[Len(accepted)] = RespParseResult("Complete", Commands, Taken)
  BY <1>1 DEF SearchInv
<1> DEFINE k == Len(accepted)
           n == Len(wire) + 1
<1>3. Taken \in 0..Len(wire) /\ k \in 0..Len(wire) /\ k \in 0..n /\ n \in k..n /\ n \in 0..n
  <2>1. Taken \in 0..Len(wire) /\ Len(wire) \in Nat
    BY <1>1, BufferBegins
  <2>2. k <= Taken /\ k \in Nat
    BY <1>1, CommandsType DEF SearchInv
  <2> QED
    BY <2>1, <2>2
<1>4. h[k].status = "Complete" /\ h[k].arguments = Commands /\ h[k].consumed = Taken
  BY <1>2 DEF RespParseResult
<1>5. Parse(wire) = [commands |-> h[n].arguments, failed |-> h[n].status = "Error"]
  BY <1>1, <1>2, ParseSearch
<1> HIDE DEF k, n
<1>6. IsPrefix(Commands, Parse(wire).commands)
  <2>1. h[n].arguments \in Seq(Seq(Seq(Byte)))
    <3>1. h[n] \in Findings(wire)
      BY <1>2, <1>3 DEF Search, n
    <3> QED
      BY <3>1 DEF Findings
  <2>2. /\ Len(h[k].arguments) <= Len(h[n].arguments)
        /\ \A p \in 1..Len(h[k].arguments) : h[n].arguments[p] = h[k].arguments[p]
    BY <1>1, <1>2, <1>3, SearchGrows DEF n
  <2>3. Parse(wire).commands = h[n].arguments
    BY <1>5
  <2>4. Commands \in Seq(Seq(Seq(Byte)))
    BY <1>1, CommandsType
  <2> QED
    BY <1>4, <2>1, <2>2, <2>3, <2>4, PrefixOf
<1>7. ASSUME Settled PROVE Parse(wire) = [commands |-> Commands, failed |-> failed]
  <2> DEFINE r == ParseCommand(m_input)
  <2>1. r.status # "Complete" /\ (failed <=> r.status = "Error") /\ failed \in BOOLEAN
    BY <1>1, <1>7 DEF Settled, LoopInv, StreamTypes
  <2>2. r.status # "Incomplete" \/ arrived = Len(wire)
    BY <1>7, <2>1 DEF Settled
  <2>3. ParseCommand(After(wire, Taken)) = r
    BY <1>1, <2>2, BufferDecides
  <2> HIDE DEF r
  <2>4. ParseCommand(After(wire, h[k].consumed)).status # "Complete"
    BY <1>4, <2>1, <2>3
  <2>5. /\ h[n].arguments = h[k].arguments
        /\ h[n].status = ParseCommand(After(wire, h[k].consumed)).status
    BY <1>1, <1>2, <1>3, <1>4, <2>4, SearchStops DEF n
  <2>6. h[n].arguments = Commands /\ h[n].status = r.status
    BY <1>4, <2>3, <2>5
  <2>7. (h[n].status = "Error") = failed
    BY <2>1, <2>6
  <2> QED
    BY <1>5, <2>6, <2>7
<1> QED
  BY <1>6, <1>7

\* In whatever pieces the bytes of a connection arrive, and whatever they are,
\* Session::Process executes the commands that one look at all of them finds, and
\* ends with a protocol error exactly if that one does.
THEOREM PiecesDoNotMatter == Spec => []FragmentsIrrelevant
<1>1. StreamInv => FragmentsIrrelevant
  BY FragmentsFollows
<1> QED
  BY <1>1, StreamInvariant, PTL
-----------------------------------------------------------------------------
(* Requests that nobody damages. *)

WithinLimits(commands) ==
    /\ commands \in Seq(Seq(Seq(Byte)))
    /\ \A i \in 1..Len(commands) :
           /\ Len(commands[i]) \in 1..kMaxArguments
           /\ \A j \in 1..Len(commands[i]) : Len(commands[i][j]) <= kMaxBulkLength

\* The commands accepted so far are the first ones that were sent, and what was
\* consumed are exactly their encodings.
ArrivalInv ==
    /\ WithinLimits(sent)
    /\ Len(accepted) <= Len(sent)
    /\ \A i \in 1..Len(accepted) : Commands[i] = sent[i]
    /\ \E e : /\ Joined(e, CommandSeq(sent))
              /\ wire = e[Len(sent)]
              /\ Taken = Len(e[Len(accepted)])

RequestsInv == version = "requests" /\ intact => ArrivalInv

\* The rest of the stream begins with the next request, or there is none.
LEMMA RestIsNext ==
    ASSUME StreamTypes, BufferInv, ArrivalInv
    PROVE  LET k == Len(accepted)
               rest == After(wire, Taken)
           IN  /\ k < Len(sent) => ParseCommand(rest) =
                      RespParseResult("Complete", sent[k + 1], Len(EncodeCommand(sent[k + 1])))
               /\ ~(k < Len(sent)) => rest = <<>>
<1> DEFINE k == Len(accepted)
           rest == After(wire, Taken)
           seqs == CommandSeq(sent)
<1>1. /\ sent \in Seq(Seq(Seq(Byte))) /\ Len(sent) \in Nat /\ k \in Nat /\ k <= Len(sent)
      /\ wire \in Seq(Byte) /\ Len(wire) \in Nat
  BY CommandsType DEF ArrivalInv, WithinLimits, StreamTypes
<1>2. PICK e : Joined(e, seqs) /\ wire = e[Len(sent)] /\ Taken = Len(e[k])
  BY DEF ArrivalInv
<1>3. /\ seqs \in Seq(Seq(Byte)) /\ Len(seqs) = Len(sent)
      /\ \A i \in 1..Len(sent) : sent[i] \in Seq(Seq(Byte)) /\ seqs[i] = EncodeCommand(sent[i])
  BY <1>1, EncodedJoined
<1> HIDE DEF seqs
<1>4. Holds(wire, 0, e[Len(seqs)])
  BY <1>1, <1>2, <1>3 DEF Holds
<1>5. \A i \in 0..Len(seqs) :
          /\ Holds(wire, 0, e[i]) /\ Len(e[i]) \in Nat
          /\ i # 0 => /\ Holds(wire, 0 + Len(e[i - 1]), seqs[i])
                      /\ Len(e[i]) = Len(e[i - 1]) + Len(seqs[i])
  BY <1>1, <1>2, <1>3, <1>4, JoinedHolds, ZenonT(60)
<1>6. /\ Taken \in 0..Len(wire) /\ rest \in Seq(Byte) /\ Len(rest) = Len(wire) - Taken
      /\ \A i \in 1..(Len(wire) - Taken) : rest[i] = wire[Taken + i]
  BY <1>1, BufferBegins, AfterType
<1> HIDE DEF rest, k
<1>7. ASSUME k < Len(sent)
      PROVE  ParseCommand(rest) =
                 RespParseResult("Complete", sent[k + 1], Len(EncodeCommand(sent[k + 1])))
  <2>1. k + 1 \in 0..Len(seqs) /\ k + 1 \in 1..Len(sent) /\ k + 1 # 0 /\ (k + 1) - 1 = k
    BY <1>1, <1>3, <1>7
  <2> DEFINE c == EncodeCommand(sent[k + 1])
  <2>2. Holds(wire, 0 + Len(e[k]), seqs[k + 1]) /\ seqs[k + 1] = c /\ sent[k + 1] \in Seq(Seq(Byte))
    BY <1>3, <1>5, <2>1
  <2>3. c \in Seq(Byte) /\ Len(c) \in Nat
    BY <2>2, CommandEncoding
  <2> HIDE DEF c
  <2>4. 0 + Len(e[k]) = Taken
    BY <1>2, <1>6
  <2>5. Taken + Len(c) <= Len(wire) /\ \A i \in 1..Len(c) : wire[Taken + i] = c[i]
    BY <2>2, <2>4 DEF Holds
  <2>6. Holds(rest, 0, c)
    <3>1. 0 + Len(c) <= Len(rest)
      BY <1>1, <1>6, <2>3, <2>5
    <3>2. \A i \in 1..Len(c) : i \in 1..(Len(wire) - Taken) /\ 0 + i = i
      BY <1>1, <1>6, <2>3, <2>5
    <3> QED
      BY <1>6, <2>5, <3>1, <3>2 DEF Holds
  <2>7. /\ Len(sent[k + 1]) \in 1..kMaxArguments
        /\ \A j \in 1..Len(sent[k + 1]) : Len(sent[k + 1][j]) <= kMaxBulkLength
    BY <2>1 DEF ArrivalInv, WithinLimits
  <2> QED
    BY <1>6, <2>2, <2>6, <2>7, CommandReads DEF c
<1>8. ASSUME ~(k < Len(sent)) PROVE rest = <<>>
  <2>1. k = Len(sent)
    BY <1>1, <1>8
  <2>2. Len(rest) = 0
    BY <1>1, <1>2, <1>6, <2>1
  <2> QED
    BY <1>6, <2>2
<1> QED
  BY <1>7, <1>8 DEF rest, k

LEMMA EmptyIncomplete == ParseCommand(<<>>).status = "Incomplete"
<1>1. ParseCommand(<<>>) = Incomplete
  BY Zenon DEF ParseCommand
<1> QED
  BY <1>1 DEF Incomplete, RespParseResult

LEMMA RequestsInit ==
    ASSUME Init
    PROVE  RequestsInv
<1> SUFFICES ASSUME version = "requests", intact PROVE ArrivalInv
  BY DEF RequestsInv
<1>1. InitRequests
  BY DEF Init, InitReplies
<1>2. sent \in Streams /\ wire = Encoded(sent)
  BY <1>1 DEF InitRequests
<1>3. WithinLimits(sent)
  <2>1. sent \in Seq(Seq(Seq(Byte)))
    BY <1>2, StreamsKnown
  <2>2. \A i \in 1..Len(sent) :
           /\ Len(sent[i]) \in 1..kMaxArguments
           /\ \A j \in 1..Len(sent[i]) : Len(sent[i][j]) <= kMaxBulkLength
    BY <1>2, StreamAssumption, Zenon
  <2> QED
    BY <2>1, <2>2, Zenon DEF WithinLimits
<1>4. sent \in Seq(Seq(Seq(Byte))) /\ Len(sent) \in Nat
  BY <1>3 DEF WithinLimits
<1>5. PICK e : Joined(e, CommandSeq(sent)) /\ Encoded(sent) = e[Len(sent)]
  BY <1>4, EncodedJoined
<1>6. Len(accepted) = 0 /\ Taken = 0
  <2>1. m_input = <<>> /\ arrived = 0 /\ accepted = <<>>
    BY DEF Init
  <2>2. Len(accepted) = 0 /\ Len(m_input) = 0
    BY <2>1
  <2>3. arrived = 0
    BY <2>1
  <2>4. Taken = 0
    BY <2>2, <2>3 DEF Taken
  <2> QED
    BY <2>2, <2>4, Zenon
<1>7. e[0] = <<>> /\ Len(<<>>) = 0
  BY <1>5 DEF Joined
<1>8. /\ Len(accepted) <= Len(sent) /\ \A i \in 1..Len(accepted) : Commands[i] = sent[i]
  BY <1>4, <1>6
<1>9. Taken = Len(e[Len(accepted)]) /\ wire = e[Len(sent)]
  BY <1>2, <1>5, <1>6, <1>7, Zenon
<1> QED
  BY <1>3, <1>5, <1>8, <1>9, Zenon DEF ArrivalInv

LEMMA RequestsAccept ==
    ASSUME StreamInv, ArrivalInv, Process, ParseCommand(m_input).status = "Complete"
    PROVE  ArrivalInv'
<1> DEFINE r == ParseCommand(m_input)
           k == Len(accepted)
<1>1. version = "requests" /\ StreamTypes /\ BufferInv
  BY ProcessType
<1>2. /\ Taken' = Taken + r.consumed /\ Commands' = Append(Commands, r.arguments)
      /\ Len(accepted') = k + 1
  BY AcceptStep
<1>3. sent' = sent /\ wire' = wire
  BY DEF Process
<1>4. ParseCommand(After(wire, Taken)) = r /\ r.status = "Complete"
  BY <1>1, BufferDecides
<1> HIDE DEF r
<1>5. k < Len(sent)
  BY <1>1, <1>4, RestIsNext, EmptyIncomplete
<1>6. r = RespParseResult("Complete", sent[k + 1], Len(EncodeCommand(sent[k + 1])))
  BY <1>1, <1>4, <1>5, RestIsNext
<1>7. r.arguments = sent[k + 1] /\ r.consumed = Len(EncodeCommand(sent[k + 1]))
  BY <1>6 DEF RespParseResult
<1>8. PICK e : Joined(e, CommandSeq(sent)) /\ wire = e[Len(sent)] /\ Taken = Len(e[k])
  BY DEF ArrivalInv
<1>9. sent \in Seq(Seq(Seq(Byte))) /\ Len(sent) \in Nat /\ k \in Nat /\ k + 1 \in 1..Len(sent)
  BY <1>1, <1>5, CommandsType DEF ArrivalInv, WithinLimits
<1> DEFINE seqs == CommandSeq(sent)
<1>10. /\ seqs \in Seq(Seq(Byte)) /\ Len(seqs) = Len(sent) /\ seqs[k + 1] = EncodeCommand(sent[k + 1])
       /\ sent[k + 1] \in Seq(Seq(Byte))
  BY <1>9, EncodedJoined
<1>11. Len(e[k + 1]) = Len(e[k]) + Len(seqs[k + 1])
  <2>1. e[k + 1] = e[k] \o seqs[k + 1] /\ e[k] \in Seq(Byte)
    <3>1. (k + 1) - 1 = k /\ k \in 0..Len(sent)
      BY <1>9
    <3> HIDE DEF seqs, k
    <3> QED
      BY <1>8, <1>9, <1>10, <3>1 DEF Joined, seqs
  <2>2. seqs[k + 1] \in Seq(Byte)
    BY <1>9, <1>10
  <2> QED
    BY <2>1, <2>2, ConcatHolds
<1>12. Taken' = Len(e[Len(accepted')])
  BY <1>2, <1>7, <1>8, <1>10, <1>11
<1>13. \A i \in 1..Len(accepted') : Commands'[i] = sent[i]
  <2>1. Commands \in Seq(Seq(Seq(Byte))) /\ Len(Commands) = k /\ sent[k + 1] \in Seq(Seq(Byte))
    BY <1>1, <1>10, CommandsType
  <2>2. Commands' = Append(Commands, sent[k + 1])
    BY <1>2, <1>7
  <2>3. \A i \in 1..k : Commands[i] = sent[i]
    BY DEF ArrivalInv
  <2>4. \A i \in 1..(k + 1) : Append(Commands, sent[k + 1])[i] = IF i = k + 1 THEN sent[k + 1] ELSE Commands[i]
    BY <2>1
  <2>5. \A i \in 1..(k + 1) : i # k + 1 => i \in 1..k
    <3>1. k \in Nat
      BY <1>9
    <3> HIDE DEF k
    <3> QED
      BY <3>1
  <2> HIDE DEF k
  <2> QED
    BY <1>2, <2>2, <2>3, <2>4, <2>5
<1>14. WithinLimits(sent') /\ Len(accepted') <= Len(sent')
  <2>1. WithinLimits(sent) /\ k + 1 <= Len(sent)
    BY <1>9 DEF ArrivalInv
  <2> QED
    BY <1>2, <1>3, <2>1
<1> QED
  BY <1>3, <1>8, <1>12, <1>13, <1>14 DEF ArrivalInv

LEMMA RequestsStep ==
    ASSUME StreamInv, RequestsInv, [Next]_vars
    PROVE  RequestsInv'
<1> SUFFICES ASSUME version' = "requests", intact' PROVE ArrivalInv'
  BY DEF RequestsInv
<1>0. version' = version /\ intact' = intact /\ sent' = sent /\ wire' = wire
  BY DEF Next, Read, Process, ClientReads, vars
<1>1. ArrivalInv /\ version = "requests"
  BY <1>0 DEF RequestsInv
<1>2. ASSUME Taken' = Taken, accepted' = accepted PROVE ArrivalInv'
  <2>1. Commands' = Commands
    BY <1>2 DEF Commands
  <2> QED
    BY <1>0, <1>1, <1>2, <2>1 DEF ArrivalInv
<1>3. CASE Process
  <2>1. CASE ParseCommand(m_input).status = "Complete"
    BY <1>1, <1>3, <2>1, RequestsAccept
  <2>2. CASE ParseCommand(m_input).status # "Complete"
    <3>1. arrived' = arrived /\ m_input' = m_input /\ accepted' = accepted
      BY <1>3, <2>2, StopStep
    <3> QED
      BY <1>2, <3>1 DEF Taken
  <2> QED
    BY <2>1, <2>2
<1>4. CASE \E n \in 1..ReadSize : Read(n)
  <2>1. PICK n \in 1..ReadSize : Read(n)
    BY <1>4
  <2>2. Taken' = Taken /\ accepted' = accepted
    BY <2>1, ReadStep DEF Read
  <2> QED
    BY <1>2, <2>2
<1>5. CASE UNCHANGED vars
  <2>1. Taken' = Taken /\ accepted' = accepted
    BY <1>5 DEF vars, Taken
  <2> QED
    BY <1>2, <2>1
<1>6. ~ClientReads
  BY <1>1 DEF ClientReads
<1> QED
  BY <1>3, <1>4, <1>5, <1>6 DEF Next

LEMMA RequestsFollow ==
    ASSUME StreamInv, RequestsInv
    PROVE  RequestsArrive
<1> SUFFICES ASSUME version = "requests", intact
             PROVE  IsPrefix(Commands, sent) /\ (Settled => Commands = sent /\ m_input = <<>>)
  BY DEF RequestsArrive
<1>1. StreamTypes /\ BufferInv /\ LoopInv /\ ArrivalInv
  BY DEF StreamInv, ServerInv, RequestsInv
<1>2. /\ Commands \in Seq(Seq(Seq(Byte))) /\ Len(Commands) = Len(accepted) /\ Len(accepted) \in Nat
      /\ sent \in Seq(Seq(Seq(Byte))) /\ Len(sent) \in Nat /\ Len(accepted) <= Len(sent)
      /\ \A i \in 1..Len(Commands) : sent[i] = Commands[i]
  BY <1>1, CommandsType DEF ArrivalInv, WithinLimits
<1>3. IsPrefix(Commands, sent)
  BY <1>2, PrefixOf
<1>4. ASSUME Settled PROVE Commands = sent /\ m_input = <<>>
  <2> DEFINE r == ParseCommand(m_input)
  <2>1. r.status # "Complete" /\ (r.status # "Incomplete" \/ arrived = Len(wire))
    BY <1>1, <1>4 DEF Settled, LoopInv
  <2>2. ParseCommand(After(wire, Taken)) = r
    BY <1>1, <2>1, BufferDecides
  <2> HIDE DEF r
  <2>3. ~(Len(accepted) < Len(sent))
    <3> SUFFICES ASSUME Len(accepted) < Len(sent) PROVE FALSE
      OBVIOUS
    <3>1. r = RespParseResult("Complete", sent[Len(accepted) + 1],
                              Len(EncodeCommand(sent[Len(accepted) + 1])))
      BY <1>1, <2>2, RestIsNext
    <3>2. r.status = "Complete"
      BY <3>1 DEF RespParseResult
    <3> QED
      BY <2>1, <3>2
  <2>4. After(wire, Taken) = <<>>
    BY <1>1, <2>3, RestIsNext
  <2>5. Len(Commands) = Len(sent)
    BY <1>2, <2>3
  <2>6. Commands = sent
    BY <1>2, <2>5, SeqEqual
  <2>7. m_input \in Seq(Byte) /\ Len(m_input) <= Len(After(wire, Taken))
    BY <1>1, BufferBegins DEF Begins, StreamTypes
  <2>8. m_input = <<>>
    BY <2>4, <2>7
  <2> QED
    BY <2>6, <2>8
<1> QED
  BY <1>3, <1>4

\* What EncodeCommand writes, within the limits and with any bytes in the
\* arguments, is what the server executes: command by command, in order, and
\* when all has arrived nothing is missing and no byte is left over.
THEOREM RequestsArriveAsSent == Spec => []RequestsArrive
<1>1. Init => RequestsInv
  BY RequestsInit
<1>2. StreamInv /\ RequestsInv /\ [Next]_vars => RequestsInv'
  BY RequestsStep
<1>3. StreamInv /\ RequestsInv => RequestsArrive
  BY RequestsFollow
<1> QED
  BY <1>1, <1>2, <1>3, StreamInvariant, PTL DEF Spec
-----------------------------------------------------------------------------
(* What an accepted request looks like. *)

\* A piece is where it was taken from.
LEMMA PieceHolds ==
    ASSUME NEW bytes \in Seq(Byte), NEW at \in Nat, NEW k \in Nat, at + k <= Len(bytes)
    PROVE  LET s == SubSeq(bytes, at + 1, at + k)
           IN  s \in Seq(Byte) /\ Len(s) = k /\ Holds(bytes, at, s)
<1> DEFINE s == SubSeq(bytes, at + 1, at + k)
<1>1. /\ s = [i \in 1..((at + k) - (at + 1) + 1) |-> bytes[(at + 1) + i - 1]]
      /\ (at + k) - (at + 1) + 1 = k
  OBVIOUS
<1>2. \A i \in 1..k : (at + 1) + i - 1 = at + i /\ at + i \in 1..Len(bytes)
  OBVIOUS
<1>3. s = [i \in 1..k |-> bytes[at + i]]
  BY <1>1, <1>2
<1> HIDE DEF s
<1>4. s \in Seq(Byte) /\ Len(s) = k /\ \A i \in 1..k : bytes[at + i] = s[i]
  BY <1>2, <1>3
<1>5. Holds(bytes, at, s)
  BY <1>4 DEF Holds
<1> QED
  BY <1>4, <1>5 DEF s

LEMMA TerminatorHolds ==
    ASSUME NEW bytes \in Seq(Byte), NEW at \in Nat, at + 2 <= Len(bytes),
           bytes[at + 1] = "CR", bytes[at + 2] = "LF"
    PROVE  Holds(bytes, at, CRLF)
<1> DEFINE c == CRLF
<1>1. Len(c) = 2 /\ c[1] = "CR" /\ c[2] = "LF"
  BY TerminatorBytes
<1> HIDE DEF c
<1>2. \A i \in 1..2 : bytes[at + i] = c[i]
  <2> TAKE i \in 1..2
  <2>1. i = 1 \/ i = 2
    OBVIOUS
  <2> QED
    BY <1>1, <2>1
<1>3. at + Len(c) <= Len(bytes) /\ \A i \in 1..Len(c) : bytes[at + i] = c[i]
  BY <1>1, <1>2
<1> QED
  BY <1>3, Zenon DEF Holds, c

\* A line that was found is a line.
LEMMA LineFound ==
    ASSUME NEW bytes \in Seq(Byte), NEW at \in Nat, NEW e \in (at + 2)..(Len(bytes) - 1),
           bytes[e] = "CR", bytes[e + 1] = "LF"
    PROVE  LET text == SubSeq(bytes, at + 2, e - 1)
           IN  /\ text \in Seq(Byte)
               /\ Holds(bytes, at, LineOf(bytes[at + 1], text))
               /\ LineOf(bytes[at + 1], text) \in Seq(Byte)
               /\ at + Len(LineOf(bytes[at + 1], text)) = e + 1
<1> DEFINE text == SubSeq(bytes, at + 2, e - 1)
           k == e - (at + 2)
           b == bytes[at + 1]
           m == <<b>>
<1>0. Len(bytes) \in Nat /\ e \in Nat /\ k \in Nat /\ at + 1 \in Nat /\ (at + 1) + k <= Len(bytes)
  OBVIOUS
<1>1. b \in Byte /\ m \in Seq(Byte) /\ Len(m) = 1 /\ m[1] = b
  OBVIOUS
<1>2. (at + 1) + 1 = at + 2 /\ (at + 1) + k = e - 1
  BY <1>0
<1> HIDE DEF k
<1>3. text \in Seq(Byte) /\ Len(text) = k /\ Holds(bytes, at + 1, text)
  <2>1. LET s == SubSeq(bytes, (at + 1) + 1, (at + 1) + k)
        IN  s \in Seq(Byte) /\ Len(s) = k /\ Holds(bytes, at + 1, s)
    BY <1>0, PieceHolds, Zenon
  <2> QED
    BY <1>2, <2>1, Zenon
<1> HIDE DEF text, m
<1>4. Holds(bytes, at, m)
  BY <1>0, <1>1 DEF Holds
<1>5. m \o text \in Seq(Byte) /\ Len(m \o text) = 1 + k /\ Holds(bytes, at, m \o text)
  BY <1>1, <1>3, <1>4, HoldsConcat, ConcatHolds
<1>6. Holds(bytes, at + (1 + k), CRLF)
  <2> DEFINE p == at + (1 + k)
  <2>1. p \in Nat /\ p + 1 = e /\ p + 2 = e + 1 /\ p + 2 <= Len(bytes)
    BY <1>0, <1>2
  <2> HIDE DEF p
  <2>2. Holds(bytes, p, CRLF)
    BY <2>1, TerminatorHolds
  <2> QED
    BY <2>2 DEF p
<1>7. Holds(bytes, at, (m \o text) \o CRLF)
  BY <1>5, <1>6, HoldsConcat, TerminatorBytes
<1>8. LineOf(b, text) = (m \o text) \o CRLF
  BY Zenon DEF LineOf, m
<1>9. LineOf(b, text) \in Seq(Byte) /\ Len(LineOf(b, text)) = k + 3
  BY <1>1, <1>3, LineOfType
<1>10. at + (k + 3) = e + 1
  BY <1>0, <1>2
<1> QED
  BY <1>3, <1>7, <1>8, <1>9, <1>10 DEF text

\* An argument as it is announced.
BulkSpelled(num, data) == <<"$">> \o num \o CRLF \o data \o CRLF

\* In the bytes after position at, up to next, an argument of n bytes is announced.
IsBulk(bytes, at, num, data, n, next) ==
    /\ num \in Seq(Byte) /\ IsNumeral(num) /\ IntegerOf(num) = n
    /\ data \in Seq(Byte) /\ Len(data) = n
    /\ BulkSpelled(num, data) \in Seq(Byte)
    /\ Holds(bytes, at, BulkSpelled(num, data))
    /\ at + Len(BulkSpelled(num, data)) = next

LEMMA BulkFound ==
    ASSUME NEW bytes \in Seq(Byte), NEW at \in Nat, NEW e, NEW n, BulkAt(bytes, at + 1, e, n)
    PROVE  IsBulk(bytes, at, SubSeq(bytes, at + 2, e - 1), SubSeq(bytes, e + 2, e + n + 1), n,
                  e + n + 3)
<1> DEFINE num == SubSeq(bytes, at + 2, e - 1)
           data == SubSeq(bytes, e + 2, e + n + 1)
           b == bytes[at + 1]
           line == LineOf(b, num)
<1>1. /\ e \in (at + 2)..(Len(bytes) - 1) /\ n \in 0..kMaxBulkLength /\ e + n + 3 <= Len(bytes)
      /\ b = "$" /\ IsNumeral(num) /\ IntegerOf(num) = n
      /\ bytes[e] = "CR" /\ bytes[e + 1] = "LF"
      /\ bytes[e + n + 2] = "CR" /\ bytes[e + n + 3] = "LF"
  <2>1. (at + 1) + 1 = at + 2
    OBVIOUS
  <2>2. e \in ((at + 1) + 2)..(Len(bytes) - 1) => e \in (at + 2)..(Len(bytes) - 1)
    OBVIOUS
  <2> QED
    BY <2>1, <2>2 DEF BulkAt
<1>2. e \in Nat /\ n \in Nat /\ Len(bytes) \in Nat
  BY <1>1, CodecAssumption
<1>3. num \in Seq(Byte) /\ Holds(bytes, at, line) /\ line \in Seq(Byte) /\ at + Len(line) = e + 1
  BY <1>1, LineFound
<1>4. data \in Seq(Byte) /\ Len(data) = n /\ Holds(bytes, e + 1, data)
  <2>1. e + 1 \in Nat /\ (e + 1) + n <= Len(bytes) /\ (e + 1) + 1 = e + 2 /\ (e + 1) + n = e + n + 1
    BY <1>1, <1>2
  <2>2. LET s == SubSeq(bytes, (e + 1) + 1, (e + 1) + n)
        IN  s \in Seq(Byte) /\ Len(s) = n /\ Holds(bytes, e + 1, s)
    BY <1>2, <2>1, PieceHolds, Zenon
  <2> QED
    BY <2>1, <2>2, Zenon
<1>5. Holds(bytes, e + n + 1, CRLF)
  <2> DEFINE p == e + n + 1
  <2>1. p \in Nat /\ p + 1 = e + n + 2 /\ p + 2 = e + n + 3 /\ p + 2 <= Len(bytes)
    BY <1>1, <1>2
  <2> HIDE DEF p
  <2>2. Holds(bytes, p, CRLF)
    BY <1>1, <2>1, TerminatorHolds
  <2> QED
    BY <2>2 DEF p
<1>6. BulkSpelled(num, data) = (line \o data) \o CRLF
  BY <1>1, Zenon DEF BulkSpelled, LineOf
<1> HIDE DEF num, data, line
<1>7. /\ line \o data \in Seq(Byte) /\ Holds(bytes, at, line \o data)
      /\ Len(line \o data) = Len(line) + Len(data)
  BY <1>3, <1>4, HoldsConcat, ConcatHolds
<1>8. at + Len(line \o data) = e + n + 1 /\ Len(line \o data) \in Nat
  <2>1. Len(line) \in Nat /\ Len(data) \in Nat
    BY <1>3, <1>4
  <2> DEFINE x == Len(line)
  <2> HIDE DEF x
  <2>2. Len(line \o data) = x + n /\ x \in Nat /\ at + x = e + 1
    BY <1>3, <1>4, <1>7, <2>1 DEF x
  <2> QED
    BY <1>2, <2>2
<1> DEFINE s == line \o data
<1> HIDE DEF s
<1>9. s \in Seq(Byte) /\ Holds(bytes, at, s) /\ Holds(bytes, at + Len(s), CRLF)
      /\ at + Len(s) = e + n + 1 /\ Len(s) \in Nat
  BY <1>5, <1>7, <1>8 DEF s
<1>10. s \o CRLF \in Seq(Byte) /\ Holds(bytes, at, s \o CRLF) /\ Len(s \o CRLF) = Len(s) + 2
  BY <1>9, HoldsConcat, ConcatHolds, TerminatorBytes
<1>11. at + Len(s \o CRLF) = e + n + 3
  <2> DEFINE x == Len(s)
  <2> HIDE DEF x
  <2>1. Len(s \o CRLF) = x + 2 /\ x \in Nat /\ at + x = e + n + 1
    BY <1>9, <1>10 DEF x
  <2> QED
    BY <1>2, <2>1
<1> QED
  BY <1>1, <1>3, <1>4, <1>6, <1>10, <1>11, Zenon DEF s, num, data, IsBulk

\* Elements that lie one after the other, joined.
LEMMA JoinedFits ==
    ASSUME NEW seqs \in Seq(Seq(Byte)), NEW h, Joined(h, seqs), NEW bytes \in Seq(Byte),
           NEW c \in [0..Len(seqs) -> Nat], c[0] <= Len(bytes),
           \A i \in 1..Len(seqs) : Holds(bytes, c[i - 1], seqs[i]) /\ c[i] = c[i - 1] + Len(seqs[i])
    PROVE  \A i \in 0..Len(seqs) :
               h[i] \in Seq(Byte) /\ Holds(bytes, c[0], h[i]) /\ c[i] = c[0] + Len(h[i])
<1> DEFINE n == Len(seqs)
           OK(i) == Holds(bytes, c[0], h[i]) /\ c[i] = c[0] + Len(h[i])
           Bad == {i \in 0..n : ~OK(i)}
<1>0. /\ n \in Nat /\ \A i \in 0..n : h[i] \in Seq(Byte) /\ c[i] \in Nat
      /\ \A i \in 1..n : seqs[i] \in Seq(Byte) /\ i - 1 \in 0..n /\ h[i] = h[i - 1] \o seqs[i]
      /\ h[0] = <<>>
  <2>1. n \in Nat /\ \A i \in 1..n : seqs[i] \in Seq(Byte) /\ i - 1 \in 0..n
    OBVIOUS
  <2>2. h[0] = <<>> /\ \A i \in 0..n : h[i] \in Seq(Byte)
    BY DEF Joined
  <2>3. \A i \in 1..n : h[i] = h[i - 1] \o seqs[i]
    BY Zenon DEF Joined
  <2>4. \A i \in 0..n : c[i] \in Nat
    OBVIOUS
  <2> QED
    BY <2>1, <2>2, <2>3, <2>4, Zenon
<1>1. OK(0)
  <2>1. Len(h[0]) = 0 /\ 0 \in 0..n
    BY <1>0
  <2>2. c[0] + Len(h[0]) <= Len(bytes) /\ c[0] = c[0] + Len(h[0])
    BY <1>0, <2>1
  <2>3. \A i \in 1..Len(h[0]) : bytes[c[0] + i] = h[0][i]
    BY <2>1
  <2> QED
    BY <2>2, <2>3 DEF Holds
<1>2. Bad = {}
  <2> SUFFICES ASSUME Bad # {} PROVE FALSE
    OBVIOUS
  <2>1. PICK m \in Bad : \A y \in Bad : y >= m
    <3>1. Bad \subseteq Nat
      OBVIOUS
    <3> HIDE DEF Bad
    <3> QED
      BY <3>1, LeastNumber
  <2>2. m # 0
    BY <1>1, <2>1
  <2>3. m - 1 \in 0..n /\ m \in 1..n /\ OK(m - 1)
    <3>1. m \in 0..n
      BY <2>1
    <3>2. m - 1 \in 0..n /\ ~(m - 1 >= m) /\ m \in 1..n
      BY <1>0, <2>2, <3>1
    <3>3. m - 1 \notin Bad
      <4> HIDE DEF Bad
      <4> QED
        BY <2>1, <3>2
    <3> HIDE DEF OK
    <3> QED
      BY <3>2, <3>3
  <2> DEFINE s == h[m - 1]
             t == seqs[m]
  <2>4. /\ s \in Seq(Byte) /\ t \in Seq(Byte) /\ h[m] = s \o t /\ c[0] \in Nat
        /\ Holds(bytes, c[0], s) /\ c[m - 1] = c[0] + Len(s)
        /\ Holds(bytes, c[m - 1], t) /\ c[m] = c[m - 1] + Len(t)
    <3>1. s \in Seq(Byte) /\ t \in Seq(Byte) /\ h[m] = s \o t
      BY <1>0, <2>3, Zenon
    <3>2. c[0] \in Nat
      OBVIOUS
    <3>3. Holds(bytes, c[m - 1], t) /\ c[m] = c[m - 1] + Len(t)
      BY <2>3, Zenon
    <3> QED
      BY <2>3, <3>1, <3>2, <3>3, Zenon
  <2> HIDE DEF s, t, OK
  <2>5. Holds(bytes, c[0], s \o t) /\ Len(s \o t) = Len(s) + Len(t)
    BY <2>4, HoldsConcat, ConcatHolds
  <2>6. c[m] = c[0] + Len(s \o t)
    <3> DEFINE x == Len(s)
               y == Len(t)
    <3>1. x \in Nat /\ y \in Nat
      BY <2>4
    <3>2. Len(s \o t) = x + y /\ c[m] = (c[0] + x) + y
      BY <2>4, <2>5
    <3> HIDE DEF x, y
    <3> QED
      BY <2>4, <3>1, <3>2
  <2>7. OK(m)
    BY <2>4, <2>5, <2>6 DEF OK
  <2> QED
    BY <2>1, <2>7
<1> HIDE DEF OK
<1>3. \A i \in 0..n : OK(i)
  BY <1>2
<1> QED
  BY <1>0, <1>3 DEF OK

\* A sequence and the next element are the longer sequence.
LEMMA AppendNext ==
    ASSUME NEW S, NEW n \in Nat, NEW d \in [1..n -> S], NEW i \in 1..n
    PROVE  Append([p \in 1..(i - 1) |-> d[p]], d[i]) = [p \in 1..i |-> d[p]]
<1> DEFINE s == [p \in 1..(i - 1) |-> d[p]]
<1>1. i - 1 \in Nat /\ \A p \in 1..(i - 1) : d[p] \in S
  OBVIOUS
<1>2. s \in Seq(S) /\ Len(s) = i - 1
  BY <1>1
<1>3. d[i] \in S
  OBVIOUS
<1>4. \A p \in 1..(i - 1) : s[p] = d[p]
  OBVIOUS
<1> HIDE DEF s
<1>5. Append(s, d[i]) = [p \in 1..((i - 1) + 1) |-> IF p = (i - 1) + 1 THEN d[i] ELSE s[p]]
  BY <1>2, <1>3
<1>6. (i - 1) + 1 = i
  OBVIOUS
<1>7. \A p \in 1..i : (IF p = (i - 1) + 1 THEN d[i] ELSE s[p]) = d[p]
  <2> TAKE p \in 1..i
  <2>1. CASE p = i
    BY <1>6, <2>1
  <2>2. CASE p # i
    <3>1. p \in 1..(i - 1)
      BY <2>2
    <3> QED
      BY <1>4, <1>6, <2>2, <3>1
  <2> QED
    BY <2>1, <2>2
<1>8. Append(s, d[i]) = [p \in 1..i |-> d[p]]
  BY <1>5, <1>6, <1>7
<1> QED
  BY <1>8 DEF s

\* Appending the elements of a sequence one by one.
LEMMA AppendLoop ==
    ASSUME NEW n \in Nat, NEW d \in [1..n -> Seq(Byte)], NEW f, f[0] = <<>>,
           \A i \in 1..n : f[i] = Append(f[i - 1], d[i])
    PROVE  f[n] = d
<1> DEFINE OK(i) == f[i] = [p \in 1..i |-> d[p]]
           Bad == {i \in 0..n : ~OK(i)}
<1>1. OK(0)
  <2>1. [p \in 1..0 |-> d[p]] = <<>>
    OBVIOUS
  <2> QED
    BY <2>1
<1>2. ASSUME NEW i \in 1..n, OK(i - 1) PROVE OK(i)
  <2>1. Append([p \in 1..(i - 1) |-> d[p]], d[i]) = [p \in 1..i |-> d[p]]
    BY AppendNext
  <2>2. f[i] = Append(f[i - 1], d[i])
    OBVIOUS
  <2> QED
    BY <1>2, <2>1, <2>2, Zenon
<1> HIDE DEF OK
<1>3. Bad = {}
  <2> SUFFICES ASSUME Bad # {} PROVE FALSE
    OBVIOUS
  <2>1. PICK m \in Bad : \A y \in Bad : y >= m
    <3>1. Bad \subseteq Nat
      OBVIOUS
    <3> HIDE DEF Bad
    <3> QED
      BY <3>1, LeastNumber
  <2>2. m # 0
    BY <1>1, <2>1
  <2>3. m - 1 \in 0..n /\ m \in 1..n /\ m - 1 \notin Bad
    <3>1. m \in 0..n
      BY <2>1
    <3>2. m - 1 \in 0..n /\ ~(m - 1 >= m) /\ m \in 1..n
      BY <2>2, <3>1
    <3> HIDE DEF Bad
    <3> QED
      BY <2>1, <3>2
  <2>4. OK(m)
    BY <1>2, <2>3
  <2> QED
    BY <2>1, <2>4
<1>4. OK(n)
  <2>1. n \in 0..n
    OBVIOUS
  <2> QED
    BY <1>3, <2>1
<1>5. d = [p \in 1..n |-> d[p]]
  OBVIOUS
<1> QED
  BY <1>4, <1>5 DEF OK

\* The arguments data with the numbers nums announce themselves in the input,
\* the i-th of them up to position c[i].
Spelled(input, n, nums, data, c) ==
    /\ nums \in [1..n -> Seq(Byte)]
    /\ data \in [1..n -> Seq(Byte)]
    /\ c \in [0..n -> Nat]
    /\ \A i \in 1..n :
           /\ IsNumeral(nums[i]) /\ IntegerOf(nums[i]) = Len(data[i])
           /\ BulkSpelled(nums[i], data[i]) \in Seq(Byte)
           /\ Holds(input, c[i - 1], BulkSpelled(nums[i], data[i]))
           /\ c[i] = c[i - 1] + Len(BulkSpelled(nums[i], data[i]))
           /\ \E a, b \in 1..c[i] : nums[i] = SubSeq(input, a, b)

LEMMA LoopSpelled ==
    ASSUME NEW input \in Seq(Byte), NEW start \in Nat, NEW n \in Nat,
           NEW h, ArgumentLoop(h, input, start, n), h[n].status = "Complete"
    PROVE  \E nums, data, c : /\ Spelled(input, n, nums, data, c)
                              /\ c[0] = start /\ c[n] = h[n].consumed
                              /\ h[n].arguments = data
<1> DEFINE c == [i \in 0..n |-> h[i].consumed]
           Ok(i, e, l) == BulkAt(input, c[i - 1] + 1, e, l) /\ h[i] = WithBulk(input, h[i - 1], e, l)
           E(i) == CHOOSE e : \E l : Ok(i, e, l)
           L(i) == CHOOSE l : Ok(i, E(i), l)
           Num(i) == SubSeq(input, c[i - 1] + 2, E(i) - 1)
           Data(i) == SubSeq(input, E(i) + 2, E(i) + L(i) + 1)
           nums == [i \in 1..n |-> Num(i)]
           data == [i \in 1..n |-> Data(i)]
           f == [i \in 0..n |-> h[i].arguments]
<1>1. \A i \in 0..n : h[i] \in Results(input) /\ h[i].status = "Complete"
  <2>1. \A i \in 0..n : h[i] \in Results(input)
    BY DEF ArgumentLoop
  <2>2. \A i \in 0..n : h[i].status = "Complete"
    BY LoopComplete
  <2> QED
    BY <2>1, <2>2
<1>2. \A i \in 0..n : c[i] \in Nat /\ c[i] = h[i].consumed /\ f[i] = h[i].arguments
  <2>1. \A x \in Results(input) : x.consumed \in Nat
    BY DEF Results
  <2> QED
    BY <1>1, <2>1
<1>3. c \in [0..n -> Nat]
  BY <1>2
<1>4. \A i \in 1..n : i - 1 \in 0..n /\ i \in 0..n
  OBVIOUS
<1> HIDE DEF c, f
<1>5. \A i \in 1..n : Ok(i, E(i), L(i))
  <2> TAKE i \in 1..n
  <2>1. h[i - 1] \in Results(input) /\ h[i - 1].status = "Complete" /\ h[i].status = "Complete"
    BY <1>1, <1>4
  <2>2. h[i] = ParseBulk(input, h[i - 1])
    BY <2>1 DEF ArgumentLoop
  <2>3. \E e, l : /\ BulkAt(input, h[i - 1].consumed + 1, e, l)
                  /\ ParseBulk(input, h[i - 1]) = WithBulk(input, h[i - 1], e, l)
    BY <2>1, <2>2, BulkComplete
  <2>4. \E e, l : Ok(i, e, l)
    BY <1>2, <1>4, <2>2, <2>3
  <2> HIDE DEF Ok
  <2> QED
    BY <2>4
<1> HIDE DEF E, L
<1>6. \A i \in 1..n :
          /\ Num(i) \in Seq(Byte) /\ IsNumeral(Num(i)) /\ IntegerOf(Num(i)) = L(i)
          /\ Data(i) \in Seq(Byte) /\ Len(Data(i)) = L(i)
          /\ BulkSpelled(Num(i), Data(i)) \in Seq(Byte)
          /\ Holds(input, c[i - 1], BulkSpelled(Num(i), Data(i)))
          /\ c[i - 1] + Len(BulkSpelled(Num(i), Data(i))) = E(i) + L(i) + 3
  <2> TAKE i \in 1..n
  <2>1. BulkAt(input, c[i - 1] + 1, E(i), L(i)) /\ c[i - 1] \in Nat
    BY <1>2, <1>4, <1>5
  <2> DEFINE at == c[i - 1]
             e == E(i)
             l == L(i)
  <2>2. BulkAt(input, at + 1, e, l) /\ at \in Nat
    BY <2>1
  <2> HIDE DEF at, e, l
  <2>3. IsBulk(input, at, SubSeq(input, at + 2, e - 1), SubSeq(input, e + 2, e + l + 1), l, e + l + 3)
    BY <2>2, BulkFound, Zenon
  <2> QED
    BY <2>3, Zenon DEF at, e, l, IsBulk
<1>7. \A i \in 1..n : c[i] = E(i) + L(i) + 3 /\ f[i] = Append(f[i - 1], Data(i))
  <2> TAKE i \in 1..n
  <2>1. h[i] = WithBulk(input, h[i - 1], E(i), L(i))
    BY <1>5
  <2>2. h[i].consumed = E(i) + L(i) + 3 /\ h[i].arguments = Append(h[i - 1].arguments, Data(i))
    <3> DEFINE y == Append(h[i - 1].arguments, Data(i))
               z == E(i) + L(i) + 3
    <3>1. h[i] = [status |-> "Complete", arguments |-> y, consumed |-> z]
      BY <2>1, Zenon DEF WithBulk, RespParseResult
    <3> HIDE DEF y, z
    <3>2. h[i].arguments = y /\ h[i].consumed = z
      BY <3>1
    <3> QED
      BY <3>2 DEF y, z
  <2> HIDE DEF Data
  <2> QED
    BY <1>2, <1>4, <2>2
<1>8. \A i \in 1..n : \E a, b \in 1..c[i] : Num(i) = SubSeq(input, a, b)
  <2> TAKE i \in 1..n
  <2>1. BulkAt(input, c[i - 1] + 1, E(i), L(i)) /\ c[i - 1] \in Nat
    BY <1>2, <1>4, <1>5
  <2>2. /\ E(i) \in ((c[i - 1] + 1) + 2)..(Len(input) - 1) /\ L(i) \in Nat
    BY <2>1, CodecAssumption DEF BulkAt
  <2>3. c[i] = E(i) + L(i) + 3
    BY <1>7
  <2> DEFINE a == c[i - 1] + 2
             b == E(i) - 1
  <2>4. a \in 1..c[i] /\ b \in 1..c[i]
    <3> DEFINE x == c[i - 1]
               y == c[i]
               e == E(i)
               l == L(i)
    <3>1. x \in Nat /\ l \in Nat /\ e \in ((x + 1) + 2)..(Len(input) - 1) /\ y = e + l + 3
      BY <2>1, <2>2, <2>3
    <3>2. Len(input) \in Nat
      OBVIOUS
    <3> HIDE DEF x, y, e, l
    <3>3. x + 2 \in 1..y /\ e - 1 \in 1..y
      BY <3>1, <3>2
    <3> QED
      BY <3>3 DEF x, y, e
  <2>5. Num(i) = SubSeq(input, a, b)
    OBVIOUS
  <2> HIDE DEF a, b, Num
  <2> QED
    BY <2>4, <2>5
<1> HIDE DEF Num, Data
<1>9. /\ nums \in [1..n -> Seq(Byte)] /\ data \in [1..n -> Seq(Byte)]
      /\ \A i \in 1..n : nums[i] = Num(i) /\ data[i] = Data(i)
  BY <1>6
<1> HIDE DEF nums, data
<1>10. \A i \in 1..n :
           /\ IsNumeral(nums[i]) /\ IntegerOf(nums[i]) = Len(data[i])
           /\ BulkSpelled(nums[i], data[i]) \in Seq(Byte)
           /\ Holds(input, c[i - 1], BulkSpelled(nums[i], data[i]))
           /\ c[i] = c[i - 1] + Len(BulkSpelled(nums[i], data[i]))
           /\ \E a, b \in 1..c[i] : nums[i] = SubSeq(input, a, b)
  <2> TAKE i \in 1..n
  <2>1. nums[i] = Num(i) /\ data[i] = Data(i)
    BY <1>9
  <2>2. /\ IsNumeral(Num(i)) /\ IntegerOf(Num(i)) = Len(Data(i))
        /\ BulkSpelled(Num(i), Data(i)) \in Seq(Byte)
        /\ Holds(input, c[i - 1], BulkSpelled(Num(i), Data(i)))
        /\ c[i] = c[i - 1] + Len(BulkSpelled(Num(i), Data(i)))
    BY <1>6, <1>7, Zenon
  <2>3. \E a, b \in 1..c[i] : Num(i) = SubSeq(input, a, b)
    BY <1>8
  <2> QED
    BY <2>1, <2>2, <2>3, Zenon
<1>11. Spelled(input, n, nums, data, c)
  BY <1>3, <1>9, <1>10, Zenon DEF Spelled
<1>12. h[0].arguments = <<>> /\ h[0].consumed = start
  BY DEF ArgumentLoop, RespParseResult
<1>13. 0 \in 0..n /\ n \in 0..n
  OBVIOUS
<1>14. f[0] = <<>> /\ c[0] = start /\ c[n] = h[n].consumed /\ f[n] = h[n].arguments
  BY <1>2, <1>12, <1>13, Zenon
<1>15. f[n] = data
  <2>1. \A i \in 1..n : f[i] = Append(f[i - 1], data[i])
    BY <1>7, <1>9, Zenon
  <2> QED
    BY <1>9, <1>14, <2>1, AppendLoop, Zenon
<1> QED
  BY <1>11, <1>14, <1>15, Zenon
\* From the parts of a request to the request.
LEMMA PartsAnnounce ==
    ASSUME NEW input \in Seq(Byte), NEW n \in 1..kMaxArguments,
           NEW first \in Seq(Byte), IsNumeral(first), IntegerOf(first) = n,
           NEW e0 \in 3..(Len(input) - 1), first = SubSeq(input, 2, e0 - 1),
           input[1] = "*", input[e0] = "CR", input[e0 + 1] = "LF",
           NEW nums, NEW data, NEW c, Spelled(input, n, nums, data, c), c[0] = e0 + 1
    PROVE  c[n] <= Len(input) /\ AnnouncedAs(data, SubSeq(input, 1, c[n]))
<1> DEFINE P(i) == BulkSpelled(nums[i], data[i])
           parts == [i \in 1..n |-> P(i)]
           line == LineOf("*", first)
           ns == [i \in 1..(n + 1) |-> IF i = 1 THEN first ELSE nums[i - 1]]
           bytes == SubSeq(input, 1, c[n])
<1>0. n \in Nat \ {0} /\ Len(input) \in Nat /\ e0 \in Nat
  BY CodecAssumption
<1>1. /\ nums \in [1..n -> Seq(Byte)] /\ data \in [1..n -> Seq(Byte)] /\ c \in [0..n -> Nat]
      /\ \A i \in 1..n :
           /\ IsNumeral(nums[i]) /\ IntegerOf(nums[i]) = Len(data[i])
           /\ P(i) \in Seq(Byte)
           /\ Holds(input, c[i - 1], P(i))
           /\ c[i] = c[i - 1] + Len(P(i))
           /\ \E a, b \in 1..c[i] : nums[i] = SubSeq(input, a, b)
  BY Zenon DEF Spelled
<1>2. data \in Seq(Seq(Byte)) /\ Len(data) = n
  BY <1>0, <1>1, SMTT(30)
<1>3. line \in Seq(Byte) /\ Holds(input, 0, line) /\ Len(line) = e0 + 1
  <2>1. 0 \in Nat /\ e0 \in (0 + 2)..(Len(input) - 1) /\ 0 + 2 = 2 /\ 0 + 1 = 1
    BY <1>0
  <2>2. LET text == SubSeq(input, 0 + 2, e0 - 1)
        IN  /\ Holds(input, 0, LineOf(input[0 + 1], text))
            /\ LineOf(input[0 + 1], text) \in Seq(Byte)
            /\ 0 + Len(LineOf(input[0 + 1], text)) = e0 + 1
    BY <2>1, LineFound, Zenon
  <2>3. line = LineOf(input[0 + 1], SubSeq(input, 0 + 2, e0 - 1))
    BY <2>1, Zenon
  <2>4. Holds(input, 0, line) /\ line \in Seq(Byte) /\ 0 + Len(line) = e0 + 1
    BY <2>2, <2>3, Zenon
  <2> HIDE DEF line
  <2> QED
    BY <2>4
<1> HIDE DEF P, line
<1>4. parts \in Seq(Seq(Byte)) /\ Len(parts) = n /\ \A i \in 1..n : parts[i] = P(i)
  BY <1>0, <1>1
<1> HIDE DEF parts
<1>5. PICK g : Joined(g, parts) /\ FlattenSeq(parts) = g[n]
  BY <1>4, FlattenJoined
<1>6. \A i \in 0..n : g[i] \in Seq(Byte) /\ Holds(input, c[0], g[i]) /\ c[i] = c[0] + Len(g[i])
  <2>1. \A i \in 1..Len(parts) : Holds(input, c[i - 1], parts[i]) /\ c[i] = c[i - 1] + Len(parts[i])
    BY <1>1, <1>4, Zenon
  <2>2. c[0] <= Len(input)
    BY <1>0
  <2>3. c \in [0..Len(parts) -> Nat]
    BY <1>1, <1>4
  <2>4. \A i \in 0..Len(parts) : g[i] \in Seq(Byte) /\ Holds(input, c[0], g[i]) /\ c[i] = c[0] + Len(g[i])
    BY <1>4, <1>5, <2>1, <2>2, <2>3, JoinedFits, Zenon
  <2> QED
    BY <1>4, <2>4
<1> DEFINE rest == g[n]
           whole == line \o rest
<1>7. n \in 0..n
  BY <1>0
<1>8. rest \in Seq(Byte) /\ Holds(input, e0 + 1, rest) /\ c[n] = (e0 + 1) + Len(rest)
  BY <1>6, <1>7, Zenon
<1> HIDE DEF rest
<1>9. whole \in Seq(Byte) /\ Len(whole) = c[n] /\ Holds(input, 0, whole)
  <2>1. 0 + Len(line) = e0 + 1
    BY <1>0, <1>3
  <2>2. whole \in Seq(Byte) /\ Len(whole) = Len(line) + Len(rest)
    BY <1>3, <1>8, ConcatHolds
  <2>3. Holds(input, 0 + Len(line), rest)
    BY <1>8, <2>1, Zenon
  <2>4. Holds(input, 0, whole)
    BY <1>3, <1>8, <2>3, HoldsConcat
  <2> HIDE DEF whole
  <2> QED
    BY <1>3, <1>8, <2>2, <2>4, Zenon
<1> HIDE DEF whole
<1>10. c[n] \in Nat /\ c[n] <= Len(input)
  <2>1. c[n] \in Nat
    BY <1>1, <1>7
  <2>2. 0 + Len(whole) <= Len(input)
    BY <1>9 DEF Holds
  <2> QED
    BY <1>9, <2>1, <2>2
<1>11. bytes = whole
  <2>1. SubSeq(input, 0 + 1, 0 + Len(whole)) = whole
    BY <1>9, HoldsPiece
  <2>2. 0 + 1 = 1 /\ 0 + Len(whole) = c[n]
    BY <1>9, <1>10
  <2> QED
    BY <2>1, <2>2, Zenon
<1>12. bytes \in Seq(Byte) /\ Len(bytes) = c[n] /\ Begins(input, bytes)
  <2>1. \A i \in 1..Len(whole) : input[i] = whole[i]
    <3>1. \A i \in 1..Len(whole) : input[0 + i] = whole[i] /\ 0 + i = i
      BY <1>9 DEF Holds
    <3> QED
      BY <3>1
  <2>2. Begins(input, whole)
    BY <1>9, <1>10, <2>1 DEF Begins
  <2> HIDE DEF bytes
  <2> QED
    BY <1>9, <1>11, <2>2
<1> HIDE DEF bytes
<1> DEFINE numerals == Numerals(bytes)
<1>13. \A x : IsNumeral(x) => \A a, b \in 1..c[n] : x = SubSeq(input, a, b) => x \in numerals
  <2> SUFFICES ASSUME NEW x, IsNumeral(x), NEW a \in 1..c[n], NEW b \in 1..c[n], x = SubSeq(input, a, b)
               PROVE  x \in numerals
    BY Zenon
  <2>1. a \in Nat \ {0} /\ b \in Int /\ b <= Len(bytes)
    BY <1>10, <1>12
  <2>2. SubSeq(input, a, b) = SubSeq(bytes, a, b)
    BY <1>12, <2>1, BeginsPiece, ZenonT(60)
  <2>3. a \in 1..Len(bytes) /\ b \in 1..Len(bytes)
    BY <1>12
  <2> QED
    BY <2>2, <2>3 DEF Numerals
<1> HIDE DEF numerals
<1>14. \A i \in 1..n : c[i] \in Nat /\ c[i] <= c[n]
  <2> TAKE i \in 1..n
  <2>1. i \in 0..n
    BY <1>0
  <2>2. g[n] \in Seq(Byte) /\ Holds(g[n], 0, g[n])
    <3>1. g[n] \in Seq(Byte)
      BY <1>6, <1>7
    <3> DEFINE s == g[n]
    <3> HIDE DEF s
    <3>2. s \in Seq(Byte)
      BY <3>1 DEF s
    <3>3. Holds(s, 0, s)
      BY <3>2 DEF Holds
    <3> QED
      BY <3>1, <3>3 DEF s
  <2>3. g[Len(parts)] = g[n]
    BY <1>4
  <2>4. \A p \in 0..Len(parts) : Holds(g[n], 0, g[p]) /\ Len(g[p]) \in Nat
    BY <1>4, <1>5, <2>2, <2>3, JoinedHolds
  <2>5. 0 + Len(g[i]) <= Len(g[n]) /\ Len(g[i]) \in Nat
    BY <1>4, <2>1, <2>4 DEF Holds
  <2>6. c[i] = c[0] + Len(g[i]) /\ c[n] = c[0] + Len(g[n]) /\ c[0] \in Nat
    <3>1. c[0] \in Nat
      BY <1>0
    <3> QED
      BY <1>6, <1>7, <2>1, <3>1, Zenon
  <2> DEFINE x == Len(g[i])
             y == Len(g[n])
  <2>7. x \in Nat /\ y \in Nat /\ 0 + x <= y
    BY <2>2, <2>5
  <2> HIDE DEF x, y
  <2> DEFINE k == c[0]
  <2> HIDE DEF k
  <2>8. c[i] = k + x /\ c[n] = k + y /\ k \in Nat
    BY <2>6 DEF x, y, k
  <2> QED
    BY <2>7, <2>8
<1>15. first \in numerals
  <2>1. 2 \in 1..c[n] /\ e0 - 1 \in 1..c[n]
    <3>1. Len(rest) \in Nat
      BY <1>8
    <3> QED
      BY <1>0, <1>8, <3>1
  <2> QED
    BY <1>13, <2>1, Zenon
<1>16. \A i \in 1..n : nums[i] \in numerals
  <2> TAKE i \in 1..n
  <2>1. PICK a \in 1..c[i], b \in 1..c[i] : nums[i] = SubSeq(input, a, b)
    BY <1>1, Zenon
  <2>2. a \in 1..c[n] /\ b \in 1..c[n]
    BY <1>10, <1>14, SMTT(30)
  <2> QED
    BY <1>1, <1>13, <2>1, <2>2, Zenon
<1>17. ns \in [1..n + 1 -> numerals] /\ ns[1] = first /\ \A i \in 1..n : ns[i + 1] = nums[i]
  <2>1. \A i \in 1..(n + 1) : i # 1 => i - 1 \in 1..n
    BY <1>0
  <2>2. \A i \in 1..(n + 1) : (IF i = 1 THEN first ELSE nums[i - 1]) \in numerals
    BY <1>15, <1>16, <2>1, Zenon
  <2>3. 1 \in 1..(n + 1)
    BY <1>0
  <2>4. \A i \in 1..n : i + 1 \in 1..(n + 1) /\ i + 1 # 1 /\ (i + 1) - 1 = i
    BY <1>0
  <2> QED
    BY <2>2, <2>3, <2>4
<1> HIDE DEF ns
<1>18. Request(data, ns) = whole
  <2>1. \A i \in 1..n : BulkSpelled(ns[i + 1], data[i]) = P(i)
    BY <1>17, Zenon DEF P
  <2>2. [i \in 1..Len(data) |-> <<"$">> \o ns[i + 1] \o CRLF \o data[i] \o CRLF]
            = [i \in 1..n |-> BulkSpelled(ns[i + 1], data[i])]
    BY <1>2, Zenon DEF BulkSpelled
  <2>3. parts = [i \in 1..n |-> BulkSpelled(ns[i + 1], data[i])]
    BY <2>1, Zenon DEF parts
  <2>4. Request(data, ns) = <<"*">> \o ns[1] \o CRLF \o FlattenSeq(parts)
    BY <2>2, <2>3, Zenon DEF Request
  <2> QED
    BY <1>5, <1>17, <2>4, Zenon DEF whole, line, rest, LineOf
<1>19. AnnouncedAs(data, bytes)
  <2>1. \A j \in 1..n : IntegerOf(ns[j + 1]) = Len(data[j])
    BY <1>1, <1>17, Zenon
  <2>2. bytes = Request(data, ns) /\ IntegerOf(ns[1]) = n
    BY <1>11, <1>17, <1>18, Zenon
  <2> QED
    BY <1>2, <1>17, <2>1, <2>2, Zenon DEF AnnouncedAs, numerals
<1> QED
  BY <1>10, <1>19 DEF bytes

\* ParseCommand accepts what is a request, and nothing else.
LEMMA CommandFound ==
    ASSUME NEW input \in Seq(Byte), ParseCommand(input).status = "Complete"
    PROVE  AnnouncedAs(ParseCommand(input).arguments, SubSeq(input, 1, ParseCommand(input).consumed))
<1> DEFINE count == ParseNumber(input, 2)
           n == count.value
<1>1. Announced(input)
  <2>1. Incomplete.status # "Complete" /\ Malformed.status # "Complete"
    BY DEF Incomplete, Malformed, RespParseResult
  <2> QED
    BY <2>1, CommandCases
<1>2. n \in 1..kMaxArguments /\ n \in Nat /\ count.status = "Complete" /\ input[1] = "*"
  BY <1>1, CodecAssumption DEF Announced
<1>3. PICK e0 \in (2 + 1)..(Len(input) - 1) :
          /\ input[e0] = "CR" /\ input[e0 + 1] = "LF"
          /\ SubSeq(input, 2, e0 - 1) \in Seq(Byte)
          /\ IsNumeral(SubSeq(input, 2, e0 - 1))
          /\ n = IntegerOf(SubSeq(input, 2, e0 - 1))
          /\ count.next = e0 + 2
  BY <1>2, NumberComplete
<1>4. PICK h : ArgumentLoop(h, input, count.next - 1, n) /\ ParseCommand(input) = h[n]
  BY <1>1, CommandCases
<1> HIDE DEF n, count
<1>5. e0 \in 3..(Len(input) - 1) /\ count.next - 1 = e0 + 1 /\ count.next - 1 \in Nat
  BY <1>3
<1>6. h[n].status = "Complete"
  BY <1>4
<1>7. PICK nums, data, c : /\ Spelled(input, n, nums, data, c)
                           /\ c[0] = count.next - 1 /\ c[n] = h[n].consumed
                           /\ h[n].arguments = data
  BY <1>2, <1>4, <1>5, <1>6, LoopSpelled
<1>8. c[0] = e0 + 1
  BY <1>5, <1>7
<1> DEFINE first == SubSeq(input, 2, e0 - 1)
<1>9. first \in Seq(Byte) /\ IsNumeral(first) /\ IntegerOf(first) = n
  BY <1>3
<1>10. AnnouncedAs(data, SubSeq(input, 1, c[n]))
  BY <1>2, <1>3, <1>5, <1>7, <1>8, <1>9, PartsAnnounce, Zenon
<1> QED
  BY <1>4, <1>7, <1>10, Zenon

LEMMA AcceptedStep ==
    ASSUME StreamInv, AcceptedAsAnnounced, [Next]_vars
    PROVE  AcceptedAsAnnounced'
<1>1. ASSUME accepted' = accepted PROVE AcceptedAsAnnounced'
  BY <1>1 DEF AcceptedAsAnnounced
<1>2. CASE Process /\ ParseCommand(m_input).status = "Complete"
  <2> DEFINE r == ParseCommand(m_input)
             new == [arguments |-> r.arguments, bytes |-> SubSeq(m_input, 1, r.consumed)]
  <2>1. accepted' = Append(accepted, new)
    BY <1>2 DEF Process
  <2>2. m_input \in Seq(Byte) /\ accepted \in Seq(Accepted) /\ Len(accepted) \in Nat
    BY DEF StreamInv, StreamTypes
  <2>3. AnnouncedAs(r.arguments, SubSeq(m_input, 1, r.consumed))
    BY <1>2, <2>2, CommandFound
  <2>4. r.consumed \in 1..Len(m_input) /\ r.arguments \in Seq(Seq(Byte))
    BY <1>2, <2>2, CommandType DEF Results
  <2> HIDE DEF r
  <2>5. SubSeq(m_input, 1, r.consumed) \in Seq(Byte)
    BY <2>2, <2>4
  <2>6. /\ new \in Accepted /\ new.arguments = r.arguments
        /\ new.bytes = SubSeq(m_input, 1, r.consumed)
    BY <2>4, <2>5 DEF Accepted
  <2> HIDE DEF new
  <2>7. /\ Len(accepted') = Len(accepted) + 1 /\ accepted'[Len(accepted) + 1] = new
        /\ \A i \in 1..Len(accepted) : accepted'[i] = accepted[i]
    BY <2>1, <2>2, <2>6
  <2>8. \A i \in 1..Len(accepted') : AnnouncedAs(accepted'[i].arguments, accepted'[i].bytes)
    <3> TAKE i \in 1..Len(accepted')
    <3>1. CASE i = Len(accepted) + 1
      BY <2>3, <2>6, <2>7, <3>1
    <3>2. CASE i # Len(accepted) + 1
      <4>1. i \in 1..Len(accepted)
        BY <2>2, <2>7, <3>2
      <4>2. accepted'[i] = accepted[i]
        BY <2>7, <4>1
      <4> QED
        BY <4>1, <4>2 DEF AcceptedAsAnnounced
    <3> QED
      BY <3>1, <3>2
  <2> QED
    BY <2>8 DEF AcceptedAsAnnounced
<1>3. CASE Process /\ ParseCommand(m_input).status # "Complete"
  BY <1>1, <1>3 DEF Process
<1>4. CASE \E n \in 1..ReadSize : Read(n)
  BY <1>1, <1>4 DEF Read
<1>5. CASE ClientReads
  BY <1>1, <1>5 DEF ClientReads
<1>6. CASE UNCHANGED vars
  BY <1>1, <1>6 DEF vars
<1> QED
  BY <1>2, <1>3, <1>4, <1>5, <1>6 DEF Next

\* Whatever bytes arrive, what Session::Process executes was announced: its bytes
\* are a request whose numbers, read as integers of any size, are the number and
\* the lengths of the arguments that are executed.
THEOREM ExecutedAsAnnounced == Spec => []AcceptedAsAnnounced
<1>1. Init => AcceptedAsAnnounced
  <2> SUFFICES ASSUME Init PROVE AcceptedAsAnnounced
    OBVIOUS
  <2>1. accepted = <<>>
    BY DEF Init
  <2>2. Len(accepted) = 0
    BY <2>1
  <2> QED
    BY <2>2 DEF AcceptedAsAnnounced
<1>2. StreamInv /\ AcceptedAsAnnounced /\ [Next]_vars => AcceptedAsAnnounced'
  BY AcceptedStep
<1> QED
  BY <1>1, <1>2, StreamInvariant, PTL DEF Spec
-----------------------------------------------------------------------------
(* What a client reads. *)

\* What a client finds in a line with this text.
LineIs(at, p, b, text) ==
    /\ wire[p] = b
    /\ Line(p + 1) \in Nat
    /\ SubSeq(wire, p + 1, Line(p + 1) - 1) = text
    /\ Line(p + 1) + 2 = p + Len(LineOf(b, text))
    /\ Line(p + 1) + 1 = at + Len(LineOf(b, text))

\* A client finds the end of a line where it was put.
LEMMA LineAt ==
    ASSUME wire \in Seq(Byte), NEW at \in Nat, NEW b \in Byte, NEW text \in Seq(Byte), LineText(text),
           Holds(wire, at, LineOf(b, text)), NEW p, p = at + 1
    PROVE  LineIs(at, p, b, text)
<1> DEFINE e == at + Len(text) + 2
           T == Terminators(wire, at + 2)
<1>0. Len(text) \in Nat /\ Len(wire) \in Nat
  OBVIOUS
<1>1. Holds(wire, at, <<b>> \o text \o CRLF) /\ \A i \in 1..Len(text) : text[i] # "CR"
  BY DEF LineOf, LineText
<1>2. /\ wire[at + 1] = b /\ FirstAt(wire, at + 2, e) /\ SubSeq(wire, at + 2, e - 1) = text
  BY <1>1, LineEnds
<1>3. at + 2 \in Nat \ {0} /\ p + 1 = at + 2
  OBVIOUS
<1>4. e \in T /\ \A j \in T : e <= j
  BY <1>2, <1>3, FirstTerminator
<1>5. T \subseteq Int /\ e \in (at + 2)..Len(wire)
  BY <1>2 DEF FirstAt, Terminators
<1>6. Line(at + 2) = CHOOSE i \in (at + 2)..Len(wire) : i \in T /\ \A j \in T : i <= j
  BY DEF Line
<1> DEFINE x == CHOOSE i \in (at + 2)..Len(wire) : i \in T /\ \A j \in T : i <= j
<1>7. x \in T /\ \A j \in T : x <= j
  BY <1>4, <1>5
<1>8. e \in Nat
  BY <1>0
<1> HIDE DEF T, x
<1>9. x = e
  <2> HIDE DEF e
  <2>1. x <= e /\ e <= x /\ x \in Int /\ e \in Int
    BY <1>4, <1>5, <1>7
  <2> QED
    BY <2>1
<1>10. Line(p + 1) = e
  BY <1>3, <1>6, <1>9, Zenon DEF x
<1>11. Len(LineOf(b, text)) = Len(text) + 3
  BY LineOfType
<1>12. e + 2 = p + (Len(text) + 3) /\ e + 1 = at + (Len(text) + 3)
  BY <1>0
<1> HIDE DEF e
<1> QED
  BY <1>2, <1>3, <1>8, <1>10, <1>11, <1>12, Zenon DEF LineIs

\* What PlainAt makes of the kinds of lines.
LEMMA PlainCases ==
    ASSUME NEW p, NEW end, NEW text, end = Line(p + 1), text = SubSeq(wire, p + 1, end - 1)
    PROVE  /\ wire[p] = "+" => PlainAt(p) = [value |-> <<"simple", text>>, next |-> end + 2]
           /\ wire[p] = "-" => PlainAt(p) = [value |-> <<"error", Tail(text)>>, next |-> end + 2]
           /\ wire[p] = ":" => PlainAt(p) = [value |-> <<"integer", IntegerOf(text)>>, next |-> end + 2]
           /\ wire[p] = "_" => PlainAt(p) = [value |-> <<"null", <<>>>>, next |-> end + 2]
           /\ wire[p] = "$" /\ IntegerOf(text) = -1 =>
                 PlainAt(p) = [value |-> <<"null", <<>>>>, next |-> end + 2]
           /\ wire[p] = "$" /\ IntegerOf(text) # -1 =>
                 PlainAt(p) = [value |-> <<"bulk", SubSeq(wire, end + 2, end + 1 + IntegerOf(text))>>,
                               next  |-> end + 4 + IntegerOf(text)]
           /\ wire[p] = "*" /\ IntegerOf(text) = 0 =>
                 PlainAt(p) = [value |-> <<"array", <<>>>>, next |-> end + 2]
<1> DEFINE b == wire[p]
           num == IntegerOf(text)
           minus == -1
           simple == [value |-> <<"simple", text>>, next |-> end + 2]
           error == [value |-> <<"error", Tail(text)>>, next |-> end + 2]
           integer == [value |-> <<"integer", num>>, next |-> end + 2]
           null == [value |-> <<"null", <<>>>>, next |-> end + 2]
           bulk == [value |-> <<"bulk", SubSeq(wire, end + 2, end + 1 + num)>>, next |-> end + 4 + num]
           array == [value |-> <<"array", <<>>>>, next |-> end + 2]
<1>1. PlainAt(p) = CASE b = "+" -> simple
                     [] b = "-" -> error
                     [] b = ":" -> integer
                     [] b = "_" \/ (b = "$" /\ num = minus) -> null
                     [] b = "$" /\ num # minus -> bulk
                     [] b = "*" /\ num = 0 -> array
  BY Zenon DEF PlainAt
<1> HIDE DEF b, num, minus, simple, error, integer, null, bulk, array
<1>2. /\ b = "+" => PlainAt(p) = simple
      /\ b = "-" => PlainAt(p) = error
      /\ b = ":" => PlainAt(p) = integer
      /\ b = "_" => PlainAt(p) = null
      /\ b = "$" /\ num = minus => PlainAt(p) = null
      /\ b = "$" /\ num # minus => PlainAt(p) = bulk
      /\ b = "*" /\ num = 0 => PlainAt(p) = array
  BY <1>1
<1> QED
  BY <1>2, Zenon DEF b, num, minus, simple, error, integer, null, bulk, array

\* A reply without elements reads as value wherever it is.
PlainReads(part, value) ==
    \A at \in Nat : \A p : p = at + 1 /\ Holds(wire, at, part) =>
        PlainAt(p) = [value |-> value, next |-> p + Len(part)]

LEMMA LineReads ==
    ASSUME wire \in Seq(Byte), NEW b \in Byte, NEW text \in Seq(Byte), LineText(text)
    PROVE  /\ b = "+" => PlainReads(LineOf(b, text), <<"simple", text>>)
           /\ b = "-" => PlainReads(LineOf(b, text), <<"error", Tail(text)>>)
           /\ b = ":" => PlainReads(LineOf(b, text), <<"integer", IntegerOf(text)>>)
           /\ b = "_" => PlainReads(LineOf(b, text), <<"null", <<>>>>)
           /\ b = "$" /\ IntegerOf(text) = -1 => PlainReads(LineOf(b, text), <<"null", <<>>>>)
           /\ b = "*" /\ IntegerOf(text) = 0 => PlainReads(LineOf(b, text), <<"array", <<>>>>)
<1> DEFINE part == LineOf(b, text)
           minus == -1
           num == IntegerOf(text)
           simple == <<"simple", text>>
           error == <<"error", Tail(text)>>
           integer == <<"integer", num>>
           null == <<"null", <<>>>>
           array == <<"array", <<>>>>
           Is(p, v) == PlainAt(p) = [value |-> v, next |-> p + Len(part)]
<1>1. ASSUME NEW at \in Nat, NEW p, p = at + 1, Holds(wire, at, part)
      PROVE  /\ b = "+" => Is(p, simple)
             /\ b = "-" => Is(p, error)
             /\ b = ":" => Is(p, integer)
             /\ b = "_" => Is(p, null)
             /\ b = "$" /\ num = minus => Is(p, null)
             /\ b = "*" /\ num = 0 => Is(p, array)
  <2> DEFINE end == Line(p + 1)
  <2>0. at \in Nat /\ p = at + 1 /\ Holds(wire, at, LineOf(b, text))
    BY <1>1
  <2>1. /\ wire[p] = b
        /\ SubSeq(wire, p + 1, Line(p + 1) - 1) = text
        /\ Line(p + 1) + 2 = p + Len(LineOf(b, text))
    <3>1. LineIs(at, p, b, text)
      BY <2>0, LineAt, Zenon
    <3> QED
      BY <3>1, Zenon DEF LineIs
  <2>2. /\ wire[p] = "+" => PlainAt(p) = [value |-> simple, next |-> end + 2]
        /\ wire[p] = "-" => PlainAt(p) = [value |-> error, next |-> end + 2]
        /\ wire[p] = ":" => PlainAt(p) = [value |-> integer, next |-> end + 2]
        /\ wire[p] = "_" => PlainAt(p) = [value |-> null, next |-> end + 2]
        /\ wire[p] = "$" /\ num = minus => PlainAt(p) = [value |-> null, next |-> end + 2]
        /\ wire[p] = "*" /\ num = 0 => PlainAt(p) = [value |-> array, next |-> end + 2]
    BY <2>1, PlainCases, Zenon
  <2>3. wire[p] = b /\ end + 2 = p + Len(part)
    BY <2>1
  <2> HIDE DEF end, simple, error, integer, null, array, num, minus, part
  <2> QED
    BY <2>2, <2>3, Zenon
<1> HIDE DEF part, simple, error, integer, null, array, num, minus
<1>2. /\ b = "+" => PlainReads(part, simple)
      /\ b = "-" => PlainReads(part, error)
      /\ b = ":" => PlainReads(part, integer)
      /\ b = "_" => PlainReads(part, null)
      /\ b = "$" /\ num = minus => PlainReads(part, null)
      /\ b = "*" /\ num = 0 => PlainReads(part, array)
  BY <1>1, Zenon DEF PlainReads
<1> QED
  BY <1>2, Zenon DEF part, simple, error, integer, null, array, num, minus

LEMMA BulkReadBack ==
    ASSUME wire \in Seq(Byte), NEW data \in Seq(Byte)
    PROVE  PlainReads(Bulk(data), <<"bulk", data>>)
<1> DEFINE k == Len(data)
           num == Numeral[k]
           d == "$"
           line == LineOf(d, num)
<1>1. k \in Nat /\ num \in Seq(Byte) /\ Len(num) \in Nat /\ LineText(num) /\ IntegerOf(num) = k
  BY NumeralReads DEF LineText
<1>2. d \in Byte /\ d = "$"
  BY ProtocolBytes
<1> SUFFICES ASSUME NEW at \in Nat, NEW p, p = at + 1, Holds(wire, at, Bulk(data))
             PROVE  PlainAt(p) = [value |-> <<"bulk", data>>, next |-> p + Len(Bulk(data))]
  BY Zenon DEF PlainReads
<1>3. /\ Holds(wire, at, line) /\ Holds(wire, at + Len(num) + 3, data)
      /\ Len(Bulk(data)) = Len(num) + k + 5
  BY BulkEncoding DEF LineOf
<1>4. Len(line) = Len(num) + 3
  <2> HIDE DEF d, num
  <2> QED
    BY <1>1, <1>2, LineOfType
<1> HIDE DEF num
<1> DEFINE end == Line(p + 1)
<1>5. wire[p] = d /\ end \in Nat /\ SubSeq(wire, p + 1, end - 1) = num /\ end + 1 = at + Len(line)
  <2>1. Holds(wire, at, LineOf(d, num))
    BY <1>3
  <2> HIDE DEF d
  <2>2. /\ wire[p] = d
        /\ Line(p + 1) \in Nat
        /\ SubSeq(wire, p + 1, Line(p + 1) - 1) = num
        /\ Line(p + 1) + 1 = at + Len(LineOf(d, num))
    <3>1. LineIs(at, p, d, num)
      BY <1>1, <1>2, <2>1, LineAt, Zenon
    <3> QED
      BY <3>1, Zenon DEF LineIs
  <2> QED
    BY <2>2
<1>6. IntegerOf(num) # -1
  <2>1. \A x \in Nat : x # -1
    OBVIOUS
  <2> QED
    BY <1>1, <2>1, Zenon
<1>7. PlainAt(p) = [value |-> <<"bulk", SubSeq(wire, end + 2, end + 1 + IntegerOf(num))>>,
                    next  |-> end + 4 + IntegerOf(num)]
  <2>1. wire[p] = "$" /\ num = SubSeq(wire, p + 1, end - 1)
    BY <1>2, <1>5
  <2> QED
    BY <1>6, <2>1, PlainCases, ZenonT(60)
<1> HIDE DEF end, line, d
<1>8. end + 1 = at + Len(num) + 3
  BY <1>1, <1>4, <1>5
<1>9. SubSeq(wire, (end + 1) + 1, (end + 1) + k) = data
  <2>1. end + 1 \in Nat /\ Holds(wire, end + 1, data)
    BY <1>3, <1>5, <1>8
  <2> QED
    BY <2>1, HoldsPiece
<1>10. (end + 1) + 1 = end + 2 /\ (end + 1) + k = end + 1 + IntegerOf(num)
  BY <1>1, <1>5
<1>11. end + 4 + IntegerOf(num) = p + Len(Bulk(data))
  <2> DEFINE x == Len(num)
             y == IntegerOf(num)
  <2>1. x \in Nat /\ y = k /\ k \in Nat /\ end + 1 = at + x + 3 /\ Len(Bulk(data)) = x + k + 5 /\ end \in Nat
    BY <1>1, <1>3, <1>5, <1>8
  <2> HIDE DEF x, y, k
  <2>2. end + 4 + y = p + (x + k + 5)
    BY <2>1
  <2> QED
    BY <2>1, <2>2 DEF y
<1> HIDE DEF k
<1> QED
  BY <1>7, <1>9, <1>10, <1>11, Zenon

\* The elements that a client finds behind the line of an array.
ItemsAre(start, n, values, h) ==
    ItemsAt(start, n) = [value |-> values, next |-> start + Len(h[n])]

\* A client finds the elements of an array one after the other.
LEMMA ItemsRead ==
    ASSUME wire \in Seq(Byte), NEW n \in Nat, NEW parts \in Seq(Seq(Byte)), Len(parts) = n,
           NEW h, Joined(h, parts), NEW S, NEW values \in [1..n -> S],
           \A i \in 1..n : PlainReads(parts[i], values[i]),
           NEW at \in Nat, Holds(wire, at, h[n]), NEW start, start = at + 1
    PROVE  ItemsAre(start, n, values, h)
<1> DEFINE Before(i) == [p \in 1..i |-> values[p]]
           Val(i) == [value |-> Before(i), next |-> start + Len(h[i])]
           With(b) == [value |-> Append(b.value, PlainAt(b.next).value), next |-> PlainAt(b.next).next]
           first == [value |-> <<>>, next |-> start]
           F(f) == [i \in 0..n |-> IF i = 0 THEN first ELSE With(f[i - 1])]
           rec == CHOOSE f : f = F(f)
           g == [i \in 0..n |-> Val(i)]
<1>1. ItemsAt(start, n) = rec[n]
  BY Zenon DEF ItemsAt
<1>2. \A i \in 0..n : /\ Len(h[i]) \in Nat
                      /\ i # 0 => /\ Holds(wire, at + Len(h[i - 1]), parts[i])
                                  /\ Len(h[i]) = Len(h[i - 1]) + Len(parts[i])
  BY JoinedHolds
<1>3. \A i \in 1..n : PlainAt(start + Len(h[i - 1])) = [value |-> values[i], next |-> start + Len(h[i])]
  <2> TAKE i \in 1..n
  <2> DEFINE q == at + Len(h[i - 1])
             x == start + Len(h[i - 1])
  <2>1. i \in 0..n /\ i # 0 /\ i - 1 \in 0..n /\ parts[i] \in Seq(Byte)
    OBVIOUS
  <2>2. /\ Len(h[i - 1]) \in Nat /\ Holds(wire, q, parts[i])
        /\ Len(h[i]) = Len(h[i - 1]) + Len(parts[i])
    BY <1>2, <2>1, Zenon
  <2> DEFINE low == Len(h[i - 1])
             k == Len(parts[i])
  <2>3. q \in Nat /\ x = q + 1
    <3>1. low \in Nat
      BY <2>2
    <3> HIDE DEF low
    <3>2. at + low \in Nat /\ start + low = (at + low) + 1
      BY <3>1
    <3> QED
      BY <3>2, Zenon DEF low
  <2>4. x + Len(parts[i]) = start + Len(h[i])
    <3>1. low \in Nat /\ k \in Nat /\ Len(h[i]) = low + k
      BY <2>1, <2>2
    <3> HIDE DEF low, k
    <3>2. (start + low) + k = start + (low + k)
      BY <3>1
    <3> QED
      BY <3>1, <3>2, Zenon DEF low, k
  <2>5. PlainReads(parts[i], values[i])
    OBVIOUS
  <2> HIDE DEF q, x
  <2>6. PlainAt(x) = [value |-> values[i], next |-> x + Len(parts[i])]
    BY <2>2, <2>3, <2>5, Zenon DEF PlainReads
  <2>7. PlainAt(x) = [value |-> values[i], next |-> start + Len(h[i])]
    BY <2>4, <2>6, Zenon
  <2> QED
    BY <2>7 DEF x
<1>4. Val(0) = first
  <2>1. Before(0) = <<>> /\ h[0] = <<>>
    BY DEF Joined
  <2>2. start + Len(h[0]) = start
    BY <2>1
  <2> QED
    BY <2>1, <2>2, Zenon
<1>5. \A i \in 1..n : Val(i) = With(Val(i - 1))
  <2> TAKE i \in 1..n
  <2>1. Append(Before(i - 1), values[i]) = Before(i)
    BY AppendNext
  <2> DEFINE a == Before(i - 1)
             x == start + Len(h[i - 1])
             y == start + Len(h[i])
             item == PlainAt(x)
             v == values[i]
  <2>2. item = [value |-> v, next |-> y]
    BY <1>3
  <2>3. Append(a, v) = Before(i)
    BY <2>1
  <2> HIDE DEF item, y, v, Before, a, x
  <2>4. item.value = v /\ item.next = y
    BY <2>2
  <2>5. [value |-> Before(i), next |-> y] = [value |-> Append(a, item.value), next |-> item.next]
    BY <2>3, <2>4
  <2>6. [value |-> a, next |-> x].value = a /\ [value |-> a, next |-> x].next = x
    OBVIOUS
  <2>7. With([value |-> a, next |-> x]) = [value |-> Append(a, item.value), next |-> item.next]
    BY <2>6, Zenon DEF item
  <2> QED
    BY <2>5, <2>7, Zenon DEF a, x, y
<1> HIDE DEF Val, With, first
<1>6. g = F(g)
  <2>1. \A i \in 0..n : g[i] = IF i = 0 THEN first ELSE With(g[i - 1])
    <3> TAKE i \in 0..n
    <3>1. CASE i = 0
      BY <1>4, <3>1
    <3>2. CASE i # 0
      <4>1. i \in 1..n /\ i - 1 \in 0..n
        BY <3>2
      <4>2. g[i - 1] = Val(i - 1) /\ g[i] = Val(i)
        BY <4>1
      <4> QED
        BY <1>5, <3>2, <4>1, <4>2
    <3> QED
      BY <3>1, <3>2
  <2>2. g = [i \in 0..n |-> g[i]]
    OBVIOUS
  <2> HIDE DEF g
  <2> QED
    BY <2>1, <2>2
<1>7. rec = F(rec)
  BY <1>6, Zenon
<1> HIDE DEF rec
<1>8. rec[0] = first /\ \A i \in 1..n : rec[i] = With(rec[i - 1])
  <2>1. \A i \in 0..n : F(rec)[i] = IF i = 0 THEN first ELSE With(rec[i - 1])
    OBVIOUS
  <2>2. \A i \in 0..n : rec[i] = IF i = 0 THEN first ELSE With(rec[i - 1])
    <3> HIDE DEF F
    <3> QED
      BY <1>7, <2>1
  <2> QED
    BY <2>2
<1> DEFINE Bad == {i \in 0..n : rec[i] # Val(i)}
<1>9. Bad = {}
  <2> SUFFICES ASSUME Bad # {} PROVE FALSE
    OBVIOUS
  <2>1. PICK m \in Bad : \A y \in Bad : y >= m
    <3>1. Bad \subseteq Nat
      OBVIOUS
    <3> HIDE DEF Bad
    <3> QED
      BY <3>1, LeastNumber
  <2>2. m # 0
    BY <1>4, <1>8
  <2>3. m - 1 \in 0..n /\ m \in 1..n /\ m - 1 \notin Bad
    <3>1. m \in 0..n
      BY <2>1
    <3>2. m - 1 \in 0..n /\ ~(m - 1 >= m) /\ m \in 1..n
      BY <2>2, <3>1
    <3> HIDE DEF Bad
    <3> QED
      BY <2>1, <3>2
  <2>4. rec[m - 1] = Val(m - 1)
    BY <2>3
  <2>5. rec[m] = Val(m)
    BY <1>5, <1>8, <2>3, <2>4
  <2> QED
    BY <2>1, <2>5
<1>10. rec[n] = Val(n)
  <2>1. n \in 0..n
    OBVIOUS
  <2> QED
    BY <1>9, <2>1
<1>11. Before(n) = values
  OBVIOUS
<1> QED
  BY <1>1, <1>10, <1>11, Zenon DEF Val, ItemsAre

\* What ReplyAt makes of the kinds of replies.
LEMMA ReplyCases ==
    ASSUME NEW p, NEW start, start = Line(p + 1) + 2,
           NEW number, number = IntegerOf(SubSeq(wire, p + 1, Line(p + 1) - 1))
    PROVE  /\ wire[p] = "*" => ReplyAt(p) = [value |-> <<"array", ItemsAt(start, number).value>>,
                                             next  |-> ItemsAt(start, number).next]
           /\ wire[p] = "%" => ReplyAt(p) = [value |-> <<"map", ItemsAt(start, 2 * number).value>>,
                                             next  |-> ItemsAt(start, 2 * number).next]
           /\ wire[p] # "*" /\ wire[p] # "%" => ReplyAt(p) = PlainAt(p)
<1> DEFINE b == wire[p]
           array == [value |-> <<"array", ItemsAt(start, number).value>>,
                     next  |-> ItemsAt(start, number).next]
           map == [value |-> <<"map", ItemsAt(start, 2 * number).value>>,
                   next  |-> ItemsAt(start, 2 * number).next]
<1>1. ReplyAt(p) = CASE b = "*" -> array [] b = "%" -> map [] OTHER -> PlainAt(p)
  BY Zenon DEF ReplyAt
<1> HIDE DEF b, array, map
<1>2. /\ b = "*" => ReplyAt(p) = array
      /\ b = "%" => ReplyAt(p) = map
      /\ b # "*" /\ b # "%" => ReplyAt(p) = PlainAt(p)
  BY <1>1
<1> QED
  BY <1>2, Zenon DEF b, array, map

\* A reply, wherever it is, reads as value.
ReplyReads(part, value) ==
    \A at \in Nat : \A p : p = at + 1 /\ Holds(wire, at, part) =>
        ReplyAt(p) = [value |-> value, next |-> p + Len(part)]

LEMMA PlainReplies ==
    ASSUME NEW part \in Seq(Byte), Len(part) \in Nat \ {0}, part[1] # "*", part[1] # "%", NEW value,
           PlainReads(part, value)
    PROVE  ReplyReads(part, value)
<1> SUFFICES ASSUME NEW at \in Nat, NEW p, p = at + 1, Holds(wire, at, part)
             PROVE  ReplyAt(p) = [value |-> value, next |-> p + Len(part)]
  BY Zenon DEF ReplyReads
<1>1. wire[p] = part[1]
  <2>1. 1 \in 1..Len(part)
    OBVIOUS
  <2> QED
    BY <2>1 DEF Holds
<1>2. wire[p] # "*" /\ wire[p] # "%"
  BY <1>1, Zenon
<1>3. ReplyAt(p) = PlainAt(p)
  BY <1>2, ReplyCases, Zenon
<1> QED
  BY <1>3, Zenon DEF PlainReads

\* A line with a number and so many elements.
LEMMA ListRead ==
    ASSUME wire \in Seq(Byte), NEW b \in Byte, NEW k \in Nat, NEW n \in Nat,
           NEW parts \in Seq(Seq(Byte)), Len(parts) = n, NEW h, Joined(h, parts),
           NEW S, NEW values \in [1..n -> S], \A i \in 1..n : PlainReads(parts[i], values[i])
    PROVE  /\ b = "*" /\ n = k => ReplyReads(LineOf(b, Numeral[k]) \o h[n], <<"array", values>>)
           /\ b = "%" /\ n = 2 * k => ReplyReads(LineOf(b, Numeral[k]) \o h[n], <<"map", values>>)
<1> DEFINE num == Numeral[k]
           line == LineOf(b, num)
           part == line \o h[n]
<1>1. num \in Seq(Byte) /\ LineText(num) /\ IntegerOf(num) = k
  BY NumeralReads DEF LineText
<1>2. n \in 0..n /\ h[n] \in Seq(Byte)
  BY DEF Joined
<1>3. line \in Seq(Byte) /\ Len(line) \in Nat /\ Len(h[n]) \in Nat /\ Len(part) = Len(line) + Len(h[n])
  <2>1. line \in Seq(Byte)
    BY <1>1, LineOfType
  <2> HIDE DEF line
  <2> QED
    BY <1>2, <2>1
<1> HIDE DEF num
<1>4. ASSUME NEW at \in Nat, NEW p, p = at + 1, Holds(wire, at, part)
      PROVE  /\ b = "*" /\ n = k => ReplyAt(p) = [value |-> <<"array", values>>, next |-> p + Len(part)]
             /\ b = "%" /\ n = 2 * k => ReplyAt(p) = [value |-> <<"map", values>>, next |-> p + Len(part)]
  <2>1. Holds(wire, at, line) /\ Holds(wire, at + Len(line), h[n])
    <3> HIDE DEF line
    <3> QED
      BY <1>2, <1>3, <1>4, HoldsConcat
  <2>2. LineIs(at, p, b, num)
    <3>1. Holds(wire, at, LineOf(b, num)) /\ at \in Nat /\ p = at + 1
      BY <1>4, <2>1
    <3> QED
      BY <1>1, <3>1, LineAt, Zenon
  <2> DEFINE end == Line(p + 1)
             start == end + 2
             items == ItemsAt(start, n)
  <2>3. wire[p] = b /\ end \in Nat /\ end + 1 = at + Len(line) /\ end + 2 = p + Len(line)
    BY <2>2, Zenon DEF LineIs
  <2>4. k = IntegerOf(SubSeq(wire, p + 1, Line(p + 1) - 1))
    BY <1>1, <2>2, Zenon DEF LineIs
  <2>5. /\ b = "*" => ReplyAt(p) = [value |-> <<"array", ItemsAt(start, k).value>>,
                                    next  |-> ItemsAt(start, k).next]
        /\ b = "%" => ReplyAt(p) = [value |-> <<"map", ItemsAt(start, 2 * k).value>>,
                                    next  |-> ItemsAt(start, 2 * k).next]
    BY <2>3, <2>4, ReplyCases, Zenon
  <2>6. ItemsAt(start, n) = [value |-> values, next |-> start + Len(h[n])]
    <3> DEFINE q == end + 1
    <3>1. q \in Nat /\ start = q + 1 /\ Holds(wire, q, h[n])
      <4> HIDE DEF end
      <4>1. end + 1 \in Nat /\ end + 2 = (end + 1) + 1
        BY <2>3
      <4> QED
        BY <2>1, <2>3, <4>1, Zenon
    <3> HIDE DEF q, start
    <3>2. ItemsAre(start, n, values, h)
      BY <3>1, ItemsRead, Zenon
    <3> QED
      BY <3>2, Zenon DEF ItemsAre
  <2>7. start + Len(h[n]) = p + Len(part)
    <3> DEFINE x == Len(line)
               y == Len(h[n])
    <3>1. x \in Nat /\ y \in Nat /\ start = p + x /\ Len(part) = x + y /\ p \in Nat
      <4>1. p \in Nat
        BY <1>4
      <4> QED
        BY <1>3, <2>3, <4>1, Zenon
    <3> HIDE DEF x, y, start, part
    <3>2. (p + x) + y = p + (x + y)
      BY <3>1
    <3> QED
      BY <3>1, <3>2, Zenon DEF y
  <2> HIDE DEF start, part
  <2>8. items = [value |-> values, next |-> p + Len(part)]
    BY <2>6, <2>7, Zenon
  <2> DEFINE next == p + Len(part)
  <2> HIDE DEF items, next
  <2>9. items.value = values /\ items.next = next
    BY <2>8 DEF next
  <2> QED
    BY <2>5, <2>9, Zenon DEF items, next
<1> HIDE DEF part
<1>5. /\ b = "*" /\ n = k => ReplyReads(part, <<"array", values>>)
      /\ b = "%" /\ n = 2 * k => ReplyReads(part, <<"map", values>>)
  BY <1>4, Zenon DEF ReplyReads
<1> QED
  BY <1>5, Zenon DEF part, line, num

\* A line and a bulk string begin with their mark.
LEMMA FirstBytes ==
    /\ \A b \in Byte : \A text \in Seq(Byte) :
          /\ LineOf(b, text) \in Seq(Byte) /\ Len(LineOf(b, text)) \in Nat \ {0}
          /\ LineOf(b, text)[1] = b
    /\ \A data \in Seq(Byte) :
          Bulk(data) \in Seq(Byte) /\ Len(Bulk(data)) \in Nat \ {0} /\ Bulk(data)[1] = "$"
<1>1. ASSUME NEW b \in Byte, NEW text \in Seq(Byte)
      PROVE  /\ LineOf(b, text) \in Seq(Byte) /\ Len(LineOf(b, text)) \in Nat \ {0}
             /\ LineOf(b, text)[1] = b
  <2>1. LineOf(b, text) \in Seq(Byte) /\ Len(LineOf(b, text)) = Len(text) + 3 /\ Len(text) \in Nat
    BY LineOfType
  <2> DEFINE mark == <<b>> \o text
  <2>2. mark \in Seq(Byte) /\ Len(mark) \in Nat \ {0} /\ mark[1] = b
    OBVIOUS
  <2> HIDE DEF mark
  <2>3. (mark \o CRLF)[1] = b
    BY <2>2, TerminatorBytes
  <2>4. LineOf(b, text)[1] = b
    BY <2>3, Zenon DEF LineOf, mark
  <2> HIDE DEF mark
  <2> QED
    BY <2>1, <2>4
<1>2. ASSUME NEW data \in Seq(Byte)
      PROVE  Bulk(data) \in Seq(Byte) /\ Len(Bulk(data)) \in Nat \ {0} /\ Bulk(data)[1] = "$"
  <2> DEFINE s == Bulk(data)
             line == LineOf("$", Numeral[Len(data)])
  <2>1. Len(Numeral[Len(data)]) \in Nat /\ Len(data) \in Nat /\ Numeral[Len(data)] \in Seq(Byte)
    BY NumeralReads
  <2>2. s \in Seq(Byte) /\ Len(s) = Len(Numeral[Len(data)]) + Len(data) + 5
    BY BulkEncoding
  <2>3. Len(line) \in Nat \ {0} /\ line[1] = "$"
    BY <1>1, <2>1, ProtocolBytes, Zenon
  <2>4. Holds(s, 0, line)
    <3>1. 0 \in Nat /\ Holds(s, 0, s)
      <4> HIDE DEF s
      <4> QED
        BY <2>2 DEF Holds
    <3> QED
      BY <2>2, <3>1, BulkEncoding DEF LineOf
  <2>5. s[1] = "$"
    <3> HIDE DEF s, line
    <3>1. 1 \in 1..Len(line) /\ 0 + 1 = 1
      BY <2>3
    <3> QED
      BY <2>3, <2>4, <3>1 DEF Holds
  <2> HIDE DEF s
  <2>6. Len(s) \in Nat \ {0}
    BY <2>1, <2>2
  <2> QED
    BY <2>2, <2>5, <2>6 DEF s
<1> QED
  BY <1>1, <1>2

\* What a client should make of the kinds of replies.
LEMMA MeaningCases ==
    ASSUME NEW reply, NEW v
    PROVE  /\ reply[1] = "simple" => Meaning(reply, v) = <<"simple", SanitizeSimpleValue(reply[2])>>
           /\ reply[1] = "error" => Meaning(reply, v) = <<"error", SanitizeSimpleValue(reply[2])>>
           /\ reply[1] \in {"integer", "bulk", "null"} => Meaning(reply, v) = reply
           /\ reply[1] = "array" => Meaning(reply, v) = <<"array", Items(reply[2])>>
           /\ reply[1] = "hello" /\ v = "2" => Meaning(reply, v) = <<"array", Items(HelloFields(v))>>
           /\ reply[1] = "hello" /\ v = "3" =>
                 Meaning(reply, v) =
                     <<"map", Append(Items(SubSeq(HelloFields(v), 1, 11)), <<"array", <<>>>>)>>
<1> DEFINE kind == reply[1]
           sanitized == SanitizeSimpleValue(reply[2])
           array == <<"array", Items(reply[2])>>
           two == <<"array", Items(HelloFields(v))>>
           three == <<"map", Append(Items(SubSeq(HelloFields(v), 1, 11)), <<"array", <<>>>>)>>
<1>1. Meaning(reply, v) = CASE kind \in {"simple", "error"} -> <<kind, sanitized>>
                            [] kind = "array" -> array
                            [] kind = "hello" /\ v = "2" -> two
                            [] kind = "hello" /\ v = "3" -> three
                            [] OTHER -> reply
  BY Zenon DEF Meaning
<1> HIDE DEF kind, sanitized, array, two, three
<1>2. /\ kind = "simple" => Meaning(reply, v) = <<kind, sanitized>>
      /\ kind = "error" => Meaning(reply, v) = <<kind, sanitized>>
      /\ kind \in {"integer", "bulk", "null"} => Meaning(reply, v) = reply
      /\ kind = "array" => Meaning(reply, v) = array
      /\ kind = "hello" /\ v = "2" => Meaning(reply, v) = two
      /\ kind = "hello" /\ v = "3" => Meaning(reply, v) = three
  BY <1>1
<1> QED
  BY <1>2, Zenon DEF kind, sanitized, array, two, three

\* A reply of bulk strings reads back.
LEMMA ArrayReads ==
    ASSUME wire \in Seq(Byte), NEW values \in Seq(Seq(Byte))
    PROVE  ReplyReads(Array(values), <<"array", Items(values)>>)
<1> DEFINE n == Len(values)
           parts == BulkSeq(values)
           items == Items(values)
           S == {items[i] : i \in 1..n}
           d == "*"
<1>1. n \in Nat /\ parts \in Seq(Seq(Byte)) /\ Len(parts) = n
  BY BulksJoined
<1>2. PICK h : Joined(h, parts) /\ Bulks(values) = h[n]
  BY BulksJoined
<1>3. \A i \in 1..n : values[i] \in Seq(Byte) /\ parts[i] = Bulk(values[i]) /\ items[i] = <<"bulk", values[i]>>
  BY BulksJoined DEF Items
<1>4. items \in [1..n -> S]
  BY DEF Items
<1>5. \A i \in 1..n : PlainReads(parts[i], items[i])
  <2> HIDE DEF n, items, parts
  <2> QED
    BY <1>3, BulkReadBack, Zenon
<1>6. d \in Byte /\ d = "*" /\ n = n
  BY ProtocolBytes
<1>7. Array(values) = LineOf(d, Numeral[n]) \o h[n]
  BY <1>2, Zenon DEF Array, LineOf
<1> HIDE DEF n, parts, items, S, d
<1>8. ReplyReads(LineOf(d, Numeral[n]) \o h[n], <<"array", items>>)
  BY <1>1, <1>2, <1>4, <1>5, <1>6, ListRead, Zenon
<1> QED
  BY <1>7, <1>8, Zenon DEF items

\* The beginning of a sequence, and a sequence with one element more.
IsFirst(t, f, n, S) ==
    t \in Seq(S) /\ Len(t) = n /\ \A i \in 1..n : f[i] \in S /\ t[i] = f[i]

IsLonger(t, s, e, n, S) ==
    t \in [1..(n + 1) -> S] /\ t[n + 1] = e /\ \A i \in 1..n : t[i] = s[i]

LEMMA FirstElements ==
    ASSUME NEW S, NEW f \in Seq(S), NEW n \in Nat, n <= Len(f)
    PROVE  IsFirst(SubSeq(f, 1, n), f, n, S)
BY DEF IsFirst

LEMMA OneMore ==
    ASSUME NEW S, NEW s \in Seq(S), NEW e \in S, NEW n \in Nat, Len(s) = n
    PROVE  IsLonger(Append(s, e), s, e, n, S)
<1> DEFINE t == Append(s, e)
<1>1. /\ t \in Seq(S) /\ Len(t) = n + 1 /\ t[n + 1] = e
      /\ \A i \in 1..n : t[i] = s[i]
  BY AppendProperties
<1> HIDE DEF t
<1>2. t \in [1..(n + 1) -> S]
  BY <1>1
<1> QED
  BY <1>1, <1>2 DEF IsLonger, t

\* The map of HELLO 3 reads back.
LEMMA HelloReads ==
    ASSUME wire \in Seq(Byte), NEW v \in {"2", "3"}, v = "3"
    PROVE  ReplyReads(Hello(v),
                      <<"map", Append(Items(SubSeq(HelloFields(v), 1, 11)), <<"array", <<>>>>)>>)
<1> DEFINE fields == HelloFields(v)
           parts == HelloParts(v)
           eleven == Items(SubSeq(fields, 1, 11))
           empty == <<"array", <<>>>>
           S == {<<"bulk", x>> : x \in Seq(Byte)} \cup {empty}
           values == Append(eleven, empty)
           d == "%"
           star == "*"
           n == 12
           k == 6
           zero == Numeral[0]
<1>1. fields \in Seq(Seq(Byte)) /\ Len(fields) = 12
  BY HelloFieldsType, Zenon
<1>2. /\ parts \in Seq(Seq(Byte)) /\ Len(parts) = n
      /\ \A i \in 1..11 : parts[i] = Bulk(fields[i])
      /\ parts[12] = LineOf(star, zero)
  BY HelloMap, Zenon
<1>3. PICK h : Joined(h, parts) /\ Hello(v) = LineOf(d, Numeral[k]) \o h[n]
  <2>1. v # "2"
    OBVIOUS
  <2> QED
    BY <2>1, HelloMap, Zenon
<1> HIDE DEF fields, parts
<1> DEFINE some == SubSeq(fields, 1, 11)
<1>4. IsFirst(some, fields, 11, Seq(Byte))
  <2>1. 11 \in Nat /\ 11 <= Len(fields)
    BY <1>1
  <2> QED
    BY <1>1, <2>1, FirstElements, Zenon
<1>5. /\ some \in Seq(Seq(Byte)) /\ Len(some) = 11
      /\ \A i \in 1..11 : fields[i] \in Seq(Byte) /\ some[i] = fields[i]
  BY <1>4, Zenon DEF IsFirst
<1> HIDE DEF some
<1>6. Items(some) \in Seq(S) /\ Len(Items(some)) = 11 /\ \A i \in 1..11 : Items(some)[i] = <<"bulk", fields[i]>>
  <2>1. \A i \in 1..11 : <<"bulk", some[i]>> \in S
    BY <1>5
  <2>2. Items(some) = [i \in 1..11 |-> <<"bulk", some[i]>>]
    BY <1>5, Zenon DEF Items
  <2> HIDE DEF S
  <2> DEFINE B(i) == <<"bulk", some[i]>>
  <2>3. \A i \in 1..11 : B(i) = <<"bulk", fields[i]>>
    BY <1>5, Zenon
  <2>4. Items(some) = [i \in 1..11 |-> B(i)] /\ \A i \in 1..11 : B(i) \in S
    BY <2>1, <2>2
  <2> HIDE DEF B
  <2>5. Items(some) \in Seq(S) /\ Len(Items(some)) = 11 /\ \A i \in 1..11 : Items(some)[i] = B(i)
    BY <2>4
  <2> QED
    BY <2>3, <2>5, Zenon
<1>7. empty \in S
  OBVIOUS
<1> DEFINE s == Items(some)
<1> HIDE DEF empty, S
<1>8. s \in Seq(S) /\ Len(s) = 11 /\ \A i \in 1..11 : s[i] = <<"bulk", fields[i]>>
  BY <1>6
<1>9. values = Append(s, empty)
  BY DEF some
<1> HIDE DEF s, values
<1>10. /\ values \in [1..12 -> S] /\ values[12] = empty
       /\ \A i \in 1..11 : values[i] = s[i]
  <2>1. 11 \in Nat /\ 11 + 1 = 12
    OBVIOUS
  <2>2. /\ values \in [1..(11 + 1) -> S] /\ values[11 + 1] = empty
        /\ \A i \in 1..11 : values[i] = s[i]
    <3>1. IsLonger(Append(s, empty), s, empty, 11, S)
      BY <1>7, <1>8, <2>1, OneMore, Zenon
    <3> QED
      BY <1>9, <3>1, Zenon DEF IsLonger
  <2> QED
    BY <2>1, <2>2, Zenon
<1>11. \A i \in 1..11 : PlainReads(parts[i], values[i])
  <2> TAKE i \in 1..11
  <2>1. PlainReads(Bulk(fields[i]), <<"bulk", fields[i]>>)
    BY <1>5, BulkReadBack, Zenon
  <2> QED
    BY <1>2, <1>8, <1>10, <2>1, Zenon
<1>12. PlainReads(parts[12], values[12])
  <2>1. 0 \in Nat
    OBVIOUS
  <2>2. zero \in Seq(Byte) /\ LineText(zero) /\ IntegerOf(zero) = 0
    BY <2>1, NumeralReads DEF LineText
  <2>3. star \in Byte /\ star = "*"
    BY ProtocolBytes
  <2> HIDE DEF zero, star
  <2>4. PlainReads(LineOf(star, zero), <<"array", <<>>>>)
    BY <2>2, <2>3, LineReads, Zenon
  <2> QED
    BY <1>2, <1>10, <2>4, Zenon DEF empty
<1>13. \A i \in 1..n : PlainReads(parts[i], values[i])
  <2> TAKE i \in 1..n
  <2>1. i = 12 \/ i \in 1..11
    OBVIOUS
  <2> QED
    BY <1>11, <1>12, <2>1, Zenon
<1>14. d \in Byte /\ d = "%"
  BY ProtocolBytes
<1>15. n \in Nat /\ k \in Nat /\ n = 2 * k /\ values \in [1..n -> S]
  BY <1>10
<1> HIDE DEF n, k, d, zero, star
<1>16. ReplyReads(LineOf(d, Numeral[k]) \o h[n], <<"map", values>>)
  BY <1>2, <1>3, <1>13, <1>14, <1>15, ListRead, Zenon
<1>17. ReplyReads(Hello(v), <<"map", values>>)
  BY <1>3, <1>16, Zenon
<1> QED
  BY <1>17, Zenon DEF values, fields, empty

\* Every reply reads back, wherever it is.
LEMMA EncodeReads ==
    ASSUME wire \in Seq(Byte), NEW reply, IsReply(reply), NEW v \in {"2", "3"}
    PROVE  ReplyReads(Encode(reply, v), Meaning(reply, v))
<1> DEFINE kind == reply[1]
           x == reply[2]
           OK == ReplyReads(Encode(reply, v), Meaning(reply, v))
<1>1. reply = <<kind, x>>
  BY Zenon DEF IsReply
<1>2. \A b \in Byte : \A text \in Seq(Byte) : \A value :
          /\ b # "*" /\ b # "%" /\ LineText(text) /\ PlainReads(LineOf(b, text), value)
          => ReplyReads(LineOf(b, text), value)
  BY FirstBytes, PlainReplies, Zenon
<1>3. /\ "+" # "*" /\ "+" # "%" /\ "-" # "*" /\ "-" # "%" /\ ":" # "*" /\ ":" # "%"
      /\ "_" # "*" /\ "_" # "%" /\ "$" # "*" /\ "$" # "%"
  OBVIOUS
<1>t. \A text : LineText(text) => text \in Seq(Byte)
  BY DEF LineText
<1>4. kind = "simple" => OK
  <2> SUFFICES ASSUME kind = "simple" PROVE OK
    OBVIOUS
  <2> DEFINE text == SanitizeSimpleValue(x)
  <2>1. x \in Seq(Byte)
    BY DEF IsReply
  <2>2. LineText(text) /\ text \in Seq(Byte)
    BY <1>t, <2>1, SanitizedText, Zenon
  <2>3. Encode(reply, v) = LineOf("+", text)
    BY <2>1, EncodeCases, ReplyLines, Zenon
  <2>4. Meaning(reply, v) = <<"simple", text>>
    BY MeaningCases, Zenon
  <2> HIDE DEF text
  <2>5. PlainReads(LineOf("+", text), <<"simple", text>>)
    BY <2>2, LineReads, ProtocolBytes, Zenon
  <2>6. ReplyReads(LineOf("+", text), <<"simple", text>>)
    BY <1>2, <1>3, <2>2, <2>5, ProtocolBytes, Zenon
  <2> QED
    BY <2>3, <2>4, <2>6, Zenon
<1>5. kind = "error" => OK
  <2> SUFFICES ASSUME kind = "error" PROVE OK
    OBVIOUS
  <2> DEFINE s == SanitizeSimpleValue(x)
             text == <<"ERR">> \o s
  <2>1. x \in Seq(Byte)
    BY DEF IsReply
  <2>2. LineText(s) /\ s \in Seq(Byte)
    BY <1>t, <2>1, SanitizedText, Zenon
  <2>3. Encode(reply, v) = LineOf("-", text)
    BY <2>1, EncodeCases, ReplyLines, Zenon
  <2>4. Meaning(reply, v) = <<"error", s>>
    BY MeaningCases, Zenon
  <2>5. LineText(text) /\ Tail(text) = s
    <3>1. "ERR" # "CR"
      OBVIOUS
    <3> HIDE DEF s
    <3> QED
      BY <2>2, <3>1, PrefixedText, ProtocolBytes, Zenon
  <2>6. text \in Seq(Byte)
    BY <1>t, <2>5, Zenon
  <2> HIDE DEF text, s
  <2>7. PlainReads(LineOf("-", text), <<"error", Tail(text)>>)
    BY <2>5, <2>6, LineReads, ProtocolBytes, Zenon
  <2>8. ReplyReads(LineOf("-", text), <<"error", Tail(text)>>)
    BY <1>2, <1>3, <2>5, <2>6, <2>7, ProtocolBytes, Zenon
  <2> QED
    BY <2>3, <2>4, <2>5, <2>8, Zenon
<1>6. kind = "integer" => OK
  <2> SUFFICES ASSUME kind = "integer" PROVE OK
    OBVIOUS
  <2> DEFINE text == NumeralOf(x)
  <2>1. x \in Int
    BY DEF IsReply
  <2>2. LineText(text) /\ IntegerOf(text) = x
    BY <2>1, NumeralText, Zenon
  <2>3. text \in Seq(Byte)
    BY <1>t, <2>2, Zenon
  <2>4. Encode(reply, v) = LineOf(":", text)
    BY <2>1, EncodeCases, ReplyLines, Zenon
  <2>5. Meaning(reply, v) = <<"integer", x>>
    <3>1. kind \in {"integer", "bulk", "null"}
      OBVIOUS
    <3>2. Meaning(reply, v) = reply
      BY <3>1, MeaningCases, Zenon
    <3>3. reply = <<"integer", x>>
      BY <1>1, Zenon
    <3> QED
      BY <3>2, <3>3, Zenon
  <2> HIDE DEF text, x
  <2>6. PlainReads(LineOf(":", text), <<"integer", IntegerOf(text)>>)
    BY <2>2, <2>3, LineReads, ProtocolBytes, Zenon
  <2>7. ReplyReads(LineOf(":", text), <<"integer", IntegerOf(text)>>)
    BY <1>2, <1>3, <2>2, <2>3, <2>6, ProtocolBytes, Zenon
  <2> QED
    BY <2>2, <2>4, <2>5, <2>7, Zenon
<1>7. kind = "bulk" => OK
  <2> SUFFICES ASSUME kind = "bulk" PROVE OK
    OBVIOUS
  <2>1. x \in Seq(Byte)
    BY DEF IsReply
  <2>2. Encode(reply, v) = Bulk(x)
    BY EncodeCases, Zenon
  <2>3. Meaning(reply, v) = <<"bulk", x>>
    <3>1. kind \in {"integer", "bulk", "null"}
      OBVIOUS
    <3>2. Meaning(reply, v) = reply
      BY <3>1, MeaningCases, Zenon
    <3>3. reply = <<"bulk", x>>
      BY <1>1, Zenon
    <3> QED
      BY <3>2, <3>3, Zenon
  <2> HIDE DEF x
  <2>4. PlainReads(Bulk(x), <<"bulk", x>>)
    BY <2>1, BulkReadBack, Zenon
  <2>5. Bulk(x) \in Seq(Byte) /\ Len(Bulk(x)) \in Nat \ {0} /\ Bulk(x)[1] # "*" /\ Bulk(x)[1] # "%"
    BY <1>3, <2>1, FirstBytes, Zenon
  <2>6. ReplyReads(Bulk(x), <<"bulk", x>>)
    BY <2>4, <2>5, PlainReplies, Zenon
  <2> QED
    BY <2>2, <2>3, <2>6, Zenon
<1>8. kind = "null" => OK
  <2> SUFFICES ASSUME kind = "null" PROVE OK
    OBVIOUS
  <2>1. x = <<>>
    BY DEF IsReply
  <2>2. Encode(reply, v) = Null(v)
    BY EncodeCases, Zenon
  <2>3. Meaning(reply, v) = <<"null", <<>>>>
    <3>1. kind \in {"integer", "bulk", "null"}
      OBVIOUS
    <3>2. Meaning(reply, v) = reply
      BY <3>1, MeaningCases, Zenon
    <3>3. reply = <<"null", <<>>>>
      BY <1>1, <2>1, Zenon
    <3> QED
      BY <3>2, <3>3, Zenon
  <2>4. CASE v = "3"
    <3> DEFINE text == <<>>
    <3>1. text \in Seq(Byte) /\ LineText(text)
      BY DEF LineText
    <3>2. Encode(reply, v) = LineOf("_", text)
      BY <2>2, <2>4, ReplyLines, Zenon
    <3> HIDE DEF text
    <3>3. PlainReads(LineOf("_", text), <<"null", <<>>>>)
      BY <3>1, LineReads, ProtocolBytes, Zenon
    <3>4. ReplyReads(LineOf("_", text), <<"null", <<>>>>)
      BY <1>2, <1>3, <3>1, <3>3, ProtocolBytes, Zenon
    <3> QED
      BY <2>3, <3>2, <3>4, Zenon
  <2>5. CASE v # "3"
    <3> DEFINE minus == -1
               text == NumeralOf(minus)
    <3>1. minus \in Int
      OBVIOUS
    <3>2. Encode(reply, v) = LineOf("$", text)
      BY <2>2, <2>5, ReplyLines, Zenon
    <3>3. LineText(text) /\ IntegerOf(text) = minus
      <4> HIDE DEF minus
      <4> QED
        BY <3>1, NumeralText, Zenon
    <3>4. text \in Seq(Byte)
      BY <1>t, <3>3, Zenon
    <3> HIDE DEF text
    <3>5. PlainReads(LineOf("$", text), <<"null", <<>>>>)
      BY <3>3, <3>4, LineReads, ProtocolBytes, Zenon
    <3>6. ReplyReads(LineOf("$", text), <<"null", <<>>>>)
      BY <1>2, <1>3, <3>3, <3>4, <3>5, ProtocolBytes, Zenon
    <3> QED
      BY <2>3, <3>2, <3>6, Zenon
  <2> QED
    BY <2>4, <2>5
<1>9. kind = "array" => OK
  <2> SUFFICES ASSUME kind = "array" PROVE OK
    OBVIOUS
  <2>1. x \in Seq(Seq(Byte))
    BY DEF IsReply
  <2>2. Encode(reply, v) = Array(x)
    BY EncodeCases, Zenon
  <2>3. Meaning(reply, v) = <<"array", Items(x)>>
    BY MeaningCases, Zenon
  <2> HIDE DEF x
  <2>4. ReplyReads(Array(x), <<"array", Items(x)>>)
    BY <2>1, ArrayReads, Zenon
  <2> QED
    BY <2>2, <2>3, <2>4, Zenon
<1>10. kind = "hello" => OK
  <2> SUFFICES ASSUME kind = "hello" PROVE OK
    OBVIOUS
  <2>1. Encode(reply, v) = Hello(v)
    BY EncodeCases, Zenon
  <2>2. CASE v = "2"
    <3>1. Hello(v) = Array(HelloFields(v))
      BY <2>2, Zenon DEF Hello
    <3>2. Meaning(reply, v) = <<"array", Items(HelloFields(v))>>
      BY <2>2, MeaningCases, Zenon
    <3>3. HelloFields(v) \in Seq(Seq(Byte))
      BY HelloFieldsType, Zenon
    <3>4. ReplyReads(Array(HelloFields(v)), <<"array", Items(HelloFields(v))>>)
      BY <3>3, ArrayReads, Zenon
    <3> QED
      BY <2>1, <3>1, <3>2, <3>4, Zenon
  <2>3. CASE v = "3"
    BY <2>1, <2>3, MeaningCases, HelloReads, Zenon
  <2> QED
    BY <2>2, <2>3
<1>11. kind \in {"simple", "error", "integer", "bulk", "null", "array", "hello"}
  BY DEF IsReply
<1> HIDE DEF OK, kind
<1>12. OK
  BY <1>4, <1>5, <1>6, <1>7, <1>8, <1>9, <1>10, <1>11
<1> QED
  BY <1>12 DEF OK

\* The replies on the wire, and what the client should make of them.
Bytes1 == Encode(sent[1], version)
Bytes2 == Encode(sent[2], version)
Meaning1 == Meaning(sent[1], version)
Meaning2 == Meaning(sent[2], version)

\* The client is before, between or behind the two replies, and has read those
\* that it passed.
ClientInv ==
    /\ version \in {"2", "3"}
    /\ Len(sent) = 2
    /\ IsReply(sent[1]) /\ IsReply(sent[2])
    /\ wire = Bytes1 \o Bytes2
    /\ \/ decoded = <<>> /\ arrived = 0
       \/ decoded = <<Meaning1>> /\ arrived = Len(Bytes1)
       \/ decoded = <<Meaning1, Meaning2>> /\ arrived = Len(wire)

RepliesInv == version # "requests" => ClientInv

\* Where the two replies are.
LEMMA RepliesThere ==
    ASSUME ClientInv
    PROVE  /\ wire \in Seq(Byte)
           /\ Len(Bytes1) \in Nat \ {0} /\ Len(Bytes2) \in Nat \ {0}
           /\ Len(wire) = Len(Bytes1) + Len(Bytes2)
           /\ Holds(wire, 0, Bytes1) /\ Holds(wire, Len(Bytes1), Bytes2)
<1>1. /\ Bytes1 \in Seq(Byte) /\ Len(Bytes1) \in Nat \ {0}
      /\ Bytes2 \in Seq(Byte) /\ Len(Bytes2) \in Nat \ {0}
  BY EncodeType, Zenon DEF ClientInv, Bytes1, Bytes2
<1>2. wire = Bytes1 \o Bytes2
  BY DEF ClientInv
<1> QED
  BY <1>1, <1>2, ConcatHolds

LEMMA RepliesInit == Init => RepliesInv
<1> SUFFICES ASSUME Init, version # "requests" PROVE ClientInv
  BY DEF RepliesInv
<1>1. InitReplies /\ arrived = 0 /\ decoded = <<>>
  BY DEF Init, InitRequests
<1>2. PICK first \in Replies, second \in Replies : sent = <<first, second>>
  BY <1>1 DEF InitReplies
<1>3. sent[1] = first /\ sent[2] = second /\ Len(sent) = 2
  BY <1>2
<1>4. IsReply(sent[1]) /\ IsReply(sent[2])
  BY <1>3, RepliesKnown, Zenon
<1> QED
  BY <1>1, <1>3, <1>4, Zenon DEF ClientInv, InitReplies, Bytes1, Bytes2

\* The client reads the first reply, and then the second one.
LEMMA ClientStep ==
    ASSUME ClientInv, ClientReads
    PROVE  \/ decoded' = <<Meaning1>> /\ arrived' = Len(Bytes1)
           \/ decoded' = <<Meaning1, Meaning2>> /\ arrived' = Len(wire)
<1> DEFINE n1 == Len(Bytes1)
           n2 == Len(Bytes2)
           p == arrived + 1
           reply == ReplyAt(p)
<1>1. /\ wire \in Seq(Byte) /\ n1 \in Nat \ {0} /\ n2 \in Nat \ {0} /\ Len(wire) = n1 + n2
      /\ Holds(wire, 0, Bytes1) /\ Holds(wire, n1, Bytes2)
  BY RepliesThere
<1>2. arrived < Len(wire) /\ decoded' = Append(decoded, reply.value) /\ arrived' = reply.next - 1
  BY DEF ClientReads
<1>3. ReplyReads(Bytes1, Meaning1) /\ ReplyReads(Bytes2, Meaning2)
  BY <1>1, EncodeReads, Zenon DEF ClientInv, Bytes1, Bytes2, Meaning1, Meaning2
<1>4. CASE decoded = <<>> /\ arrived = 0
  <2>1. arrived \in Nat /\ p = arrived + 1 /\ Holds(wire, arrived, Bytes1)
    BY <1>1, <1>4
  <2>2. reply = [value |-> Meaning1, next |-> p + n1]
    <3> HIDE DEF p
    <3> QED
      BY <1>3, <2>1, Zenon DEF ReplyReads
  <2> HIDE DEF reply, n1, n2
  <2>3. reply.value = Meaning1 /\ reply.next = p + n1
    BY <2>2
  <2>4. arrived' = n1
    <3>1. (p + n1) - 1 = n1
      BY <1>1, <1>4
    <3> HIDE DEF p
    <3> QED
      BY <1>2, <2>3, <3>1, Zenon
  <2>5. decoded' = <<Meaning1>>
    BY <1>2, <1>4, <2>3
  <2> QED
    BY <2>4, <2>5 DEF n1
<1>5. CASE decoded = <<Meaning1>> /\ arrived = n1
  <2>1. arrived \in Nat /\ p = arrived + 1 /\ Holds(wire, arrived, Bytes2)
    BY <1>1, <1>5
  <2>2. reply = [value |-> Meaning2, next |-> p + n2]
    <3> HIDE DEF p
    <3> QED
      BY <1>3, <2>1, Zenon DEF ReplyReads
  <2> HIDE DEF reply, n1, n2
  <2>3. reply.value = Meaning2 /\ reply.next = p + n2
    BY <2>2
  <2>4. arrived' = Len(wire)
    <3>1. (p + n2) - 1 = Len(wire)
      BY <1>1, <1>5
    <3> HIDE DEF p
    <3> QED
      BY <1>2, <2>3, <3>1, Zenon
  <2>5. decoded' = <<Meaning1, Meaning2>>
    <3>1. \A a, b : Append(<<a>>, b) = <<a, b>>
      <4> TAKE a, b
      <4>1. <<a>> \in Seq({a, b}) /\ b \in {a, b}
        OBVIOUS
      <4> DEFINE t == Append(<<a>>, b)
      <4>2. t \in Seq({a, b}) /\ Len(t) = 2 /\ t[1] = a /\ t[2] = b
        BY <4>1, AppendProperties
      <4> HIDE DEF t
      <4>3. t = <<a, b>>
        BY <4>2
      <4> QED
        BY <4>3 DEF t
    <3> QED
      BY <1>2, <1>5, <2>3, <3>1, Zenon
  <2> QED
    BY <2>4, <2>5
<1>6. CASE arrived = Len(wire)
  <2> HIDE DEF n1, n2
  <2> QED
    BY <1>1, <1>2, <1>6
<1> QED
  BY <1>4, <1>5, <1>6, Zenon DEF ClientInv

LEMMA RepliesStep ==
    ASSUME RepliesInv, [Next]_vars
    PROVE  RepliesInv'
<1>1. CASE ClientReads
  <2>1. version # "requests" /\ UNCHANGED <<sent, wire, version>>
    BY <1>1 DEF ClientReads
  <2>2. ClientInv
    BY <2>1, Zenon DEF RepliesInv
  <2>3. /\ Bytes1' = Bytes1 /\ Bytes2' = Bytes2
        /\ Meaning1' = Meaning1 /\ Meaning2' = Meaning2
    BY <2>1 DEF Bytes1, Bytes2, Meaning1, Meaning2
  <2>4. \/ decoded' = <<Meaning1>> /\ arrived' = Len(Bytes1)
        \/ decoded' = <<Meaning1, Meaning2>> /\ arrived' = Len(wire)
    BY <1>1, <2>2, ClientStep
  <2>5. IsReply(sent[1])' /\ IsReply(sent[2])'
    BY <2>1, <2>2 DEF ClientInv
  <2>6. ClientInv'
    BY <2>1, <2>2, <2>3, <2>4, <2>5 DEF ClientInv
  <2> QED
    BY <2>6 DEF RepliesInv
<1>2. CASE Process \/ UNCHANGED vars
  <2>1. UNCHANGED <<sent, wire, version, decoded, arrived>>
    BY <1>2 DEF Process, vars
  <2> QED
    BY <2>1 DEF RepliesInv, ClientInv, Bytes1, Bytes2, Meaning1, Meaning2
<1>3. CASE \E n \in 1..ReadSize : Read(n)
  <2>1. version' = "requests"
    BY <1>3 DEF Read
  <2> QED
    BY <2>1 DEF RepliesInv
<1> QED
  BY <1>1, <1>2, <1>3 DEF Next

LEMMA RepliesFollow == RepliesInv => RepliesReadBack
<1> SUFFICES ASSUME version # "requests", ClientInv
             PROVE  /\ \A i \in 1..Len(decoded) : decoded[i] = Meaning(sent[i], version)
                    /\ arrived = Len(wire) => Len(decoded) = Len(sent)
  BY DEF RepliesInv, RepliesReadBack
<1> DEFINE n1 == Len(Bytes1)
           n2 == Len(Bytes2)
<1>1. n1 \in Nat \ {0} /\ n2 \in Nat \ {0} /\ Len(wire) = n1 + n2
  BY RepliesThere
<1> HIDE DEF n1, n2
<1>2. n1 # Len(wire) /\ 0 # Len(wire)
  BY <1>1
<1>3. CASE decoded = <<>> /\ arrived = 0
  BY <1>2, <1>3
<1>4. CASE decoded = <<Meaning1>> /\ arrived = n1
  <2>1. Len(decoded) = 1 /\ decoded[1] = Meaning1
    BY <1>4
  <2>2. \A i \in 1..Len(decoded) : i = 1
    BY <2>1
  <2> QED
    BY <1>2, <1>4, <2>1, <2>2, Zenon DEF Meaning1
<1>5. CASE decoded = <<Meaning1, Meaning2>>
  <2>1. Len(decoded) = 2 /\ decoded[1] = Meaning1 /\ decoded[2] = Meaning2
    BY <1>5
  <2>2. \A i \in 1..Len(decoded) : i = 1 \/ i = 2
    BY <2>1
  <2>3. Len(sent) = 2
    BY DEF ClientInv
  <2> QED
    BY <2>1, <2>2, <2>3, Zenon DEF Meaning1, Meaning2
<1> QED
  BY <1>3, <1>4, <1>5, Zenon DEF ClientInv, n1

\* A client finds every reply where it begins and reads what was meant by it, in
\* both protocol versions and for every content of the replies (RespCodec's
\* SimpleString, Error, Integer, BulkString, Null, Array and Hello): no byte of
\* a value can be taken for the end of a line or for another reply.
THEOREM RepliesAreReadBack == Spec => []RepliesReadBack
<1>1. RepliesInv /\ [Next]_vars => RepliesInv'
  BY RepliesStep
<1> QED
  BY <1>1, RepliesInit, RepliesFollow, PTL DEF Spec
=============================================================================
