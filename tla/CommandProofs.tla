--------------------------- MODULE CommandProofs ----------------------------
(***************************************************************************)
(* Theorems about the command line: for any characters and any largest     *)
(* integer, whatever lines are typed and whatever the files say.  What a   *)
(* numeral spells is unique (SpellsValue); a file is read line by line in  *)
(* a loop whose batch is characterised by induction (BatchMeans); and a    *)
(* printed query is cut at its commas, atom by atom (AfterAtom).           *)
(***************************************************************************)
EXTENDS CommandProperties, SequenceTheorems, FiniteSetTheorems, TLAPS

L == INSTANCE TableLemmas WITH Empty <- <<>>, NoValue <- <<>>

Text   == Seq(Char)
Digits == Seq(Digit)

-----------------------------------------------------------------------------
(* Numbers and their numerals. *)

LEMMA NumeralIs ==
    /\ DOMAIN Numeral = 1 .. 10 /\ Numeral[1] = "0"
    /\ \A i \in 1 .. 10, j \in 1 .. 10 : Numeral[i] = Numeral[j] => i = j
    /\ \A i \in 1 .. 10 : Numeral[i] \notin {Space, Tab, CR, "(", ")", ",", "_"}
<1>1. /\ DOMAIN Numeral = 1 .. 10
      /\ Numeral[1] = "0" /\ Numeral[2] = "1" /\ Numeral[3] = "2" /\ Numeral[4] = "3"
      /\ Numeral[5] = "4" /\ Numeral[6] = "5" /\ Numeral[7] = "6" /\ Numeral[8] = "7"
      /\ Numeral[9] = "8" /\ Numeral[10] = "9"
  BY DEF Numeral
<1>2. \A i \in 1 .. 10 : i = 1 \/ i = 2 \/ i = 3 \/ i = 4 \/ i = 5 \/ i = 6 \/ i = 7 \/ i = 8 \/ i = 9 \/ i = 10
  OBVIOUS
<1>4. ASSUME NEW i \in 1 .. 10, NEW j \in 1 .. 10, Numeral[i] = Numeral[j] PROVE i = j
  BY <1>1, <1>2, <1>4
<1>5. \A i \in 1 .. 10 : Numeral[i] \notin {Space, Tab, CR, "(", ")", ",", "_"}
  BY <1>1, <1>2 DEF Space, Tab, CR
<1> QED BY <1>1, <1>4, <1>5

LEMMA DigitIs ==
    /\ Digit \subseteq Char
    /\ \A d \in 0 .. 9 : Numeral[d + 1] \in Digit /\ DigitValue(Numeral[d + 1]) = d
    /\ \A c \in Digit : DigitValue(c) \in 0 .. 9 /\ c = Numeral[DigitValue(c) + 1]
    /\ "0" \in Digit /\ DigitValue("0") = 0
<1>1. Digit = {Numeral[i] : i \in 1 .. 10}
  BY NumeralIs DEF Digit
<1>2. ASSUME NEW d \in 0 .. 9 PROVE Numeral[d + 1] \in Digit /\ DigitValue(Numeral[d + 1]) = d
  <2>1. d + 1 \in 1 .. 10
    OBVIOUS
  <2> DEFINE e == CHOOSE i \in DOMAIN Numeral : Numeral[i] = Numeral[d + 1]
  <2>2. e \in 1 .. 10 /\ Numeral[e] = Numeral[d + 1]
    BY <2>1, NumeralIs
  <2>3. e = d + 1
    BY <2>1, <2>2, NumeralIs
  <2>4. DigitValue(Numeral[d + 1]) = e - 1
    BY DEF DigitValue
  <2> HIDE DEF e
  <2> QED BY <1>1, <2>1, <2>3, <2>4
<1>3. ASSUME NEW c \in Digit PROVE DigitValue(c) \in 0 .. 9 /\ c = Numeral[DigitValue(c) + 1]
  <2>1. PICK i \in 1 .. 10 : c = Numeral[i]
    BY <1>1
  <2>2. i - 1 \in 0 .. 9 /\ (i - 1) + 1 = i
    OBVIOUS
  <2> QED BY <1>2, <2>1, <2>2
<1>4. Digit \subseteq Char
  BY ParserAssumption
<1>5. 0 \in 0 .. 9 /\ Numeral[0 + 1] = "0"
  <2>1. 0 \in 0 .. 9 /\ 0 + 1 = 1
    OBVIOUS
  <2>2. Numeral[1] = "0"
    BY NumeralIs
  <2> QED BY <2>1, <2>2
<1> QED BY <1>2, <1>3, <1>4, <1>5

\* f[i] is the number that the first i digits of text spell.
Counts(f, text) ==
    /\ f \in [0 .. Len(text) -> Nat]
    /\ f[0] = 0
    /\ \A i \in 1 .. Len(text) : f[i] = 10 * f[i - 1] + DigitValue(text[i])

LEMMA ValueCounts ==
    ASSUME NEW text \in Digits
    PROVE  \E f : Counts(f, text) /\ Value(text) = f[Len(text)]
<1> DEFINE n    == Len(text)
           body == [i \in 1 .. n |-> [v \in Nat |-> 10 * v + DigitValue(text[i])]]
<1>1. n \in Nat /\ \A i \in 1 .. n : DigitValue(text[i]) \in Nat
  <2>1. n \in Nat /\ \A i \in 1 .. n : text[i] \in Digit
    BY DEF Digits
  <2>2. \A c \in Digit : DigitValue(c) \in Nat
    BY DigitIs
  <2> QED BY <2>1, <2>2
<1>2. L!IsBody(body, 1 .. n, Nat)
  <2>1. \A i \in 1 .. n, v \in Nat : 10 * v + DigitValue(text[i]) \in Nat
    BY <1>1
  <2> QED BY <2>1 DEF L!IsBody
<1>3. PICK f \in [0 .. n -> Nat] : L!IsRun(f, 0, body, 1 .. n)
  <2> HIDE DEF body
  <2>1. L!Runs(0, body, n, Nat)
    BY <1>1, <1>2, L!LoopRuns
  <2> QED BY <2>1 DEF L!Runs
<1>4. f[0] = 0 /\ \A i \in 1 .. n : f[i] = 10 * f[i - 1] + DigitValue(text[i])
  <2>1. ASSUME NEW i \in 1 .. n PROVE body[i][f[i - 1]] = 10 * f[i - 1] + DigitValue(text[i])
    <3>1. i - 1 \in 0 .. n
      <4> HIDE DEF n, body
      <4> QED BY <1>1
    <3>2. f[i - 1] \in Nat
      <4> HIDE DEF n, body
      <4> QED BY <3>1
    <3> QED BY <3>2
  <2> HIDE DEF body
  <2> QED BY <1>3, <2>1 DEF L!IsRun
<1> DEFINE Solves(g) ==
        g = [i \in 0 .. Len(text) |-> IF i = 0 THEN 0 ELSE 10 * g[i - 1] + DigitValue(text[i])]
           value == CHOOSE g : Solves(g)
<1>5. Solves(f)
  BY <1>4
<1>6. Solves(value)
  <2> HIDE DEF Solves
  <2> QED BY <1>5
<1>7. Value(text) = value[n]
  BY DEF Value
<1> HIDE DEF value
<1>8. \A i \in 0 .. n : value[i] = f[i]
  <2> DEFINE T == {i \in 0 .. n : value[i] = f[i]}
  <2>1. 0 \in T /\ \A i \in 0 .. n - 1 : i \in T => i + 1 \in T
    <3>1. 0 \in T
      BY <1>1, <1>4, <1>6
    <3>2. ASSUME NEW i \in 0 .. n - 1, i \in T PROVE i + 1 \in T
      <4>1. i + 1 \in 1 .. n /\ (i + 1) - 1 = i /\ i + 1 # 0
        BY <1>1
      <4>2. value[i + 1] = 10 * value[i] + DigitValue(text[i + 1])
        BY <1>6, <4>1
      <4> QED BY <1>4, <3>2, <4>1, <4>2
    <3> QED BY <3>1, <3>2
  <2>2. 0 .. n \subseteq T
    <3> HIDE DEF T
    <3> QED BY <1>1, <2>1, L!InductionUpTo
  <2> QED BY <2>2
<1>9. Counts(f, text) /\ Value(text) = f[n]
  BY <1>1, <1>4, <1>7, <1>8 DEF Counts
<1> QED BY <1>9

\* The value of one more digit.
LEMMA ValueIs ==
    /\ Value(<<>>) = 0
    /\ \A text \in Digits : Value(text) \in Nat
    /\ \A text \in Digits, c \in Digit : Value(Append(text, c)) = 10 * Value(text) + DigitValue(c)
<1>1. Value(<<>>) = 0
  <2>1. <<>> \in Digits /\ Len(<<>>) = 0
    BY DEF Digits
  <2>2. PICK f : Counts(f, <<>>) /\ Value(<<>>) = f[0]
    BY <2>1, ValueCounts
  <2> QED BY <2>2 DEF Counts
<1>2. ASSUME NEW text \in Digits PROVE Value(text) \in Nat
  <2>1. PICK f : Counts(f, text) /\ Value(text) = f[Len(text)]
    BY ValueCounts
  <2>2. Len(text) \in 0 .. Len(text)
    BY DEF Digits
  <2> QED BY <2>1, <2>2 DEF Counts
<1>3. ASSUME NEW text \in Digits, NEW c \in Digit
      PROVE  Value(Append(text, c)) = 10 * Value(text) + DigitValue(c)
  <2>1. PICK more : more = Append(text, c)
    OBVIOUS
  <2>2. PICK n \in Nat : n = Len(text)
    BY DEF Digits
  <2>3. /\ more \in Digits /\ Len(more) = n + 1 /\ more[n + 1] = c
        /\ \A i \in 1 .. n : more[i] = text[i]
    BY <2>1, <2>2, AppendProperties DEF Digits
  <2>4. PICK f : Counts(f, text) /\ Value(text) = f[n]
    BY <2>2, ValueCounts
  <2>5. PICK g : Counts(g, more) /\ Value(more) = g[n + 1]
    BY <2>3, ValueCounts
  <2>6. f[0] = 0 /\ \A i \in 1 .. n : f[i] = 10 * f[i - 1] + DigitValue(text[i])
    BY <2>2, <2>4 DEF Counts
  <2>7. g[0] = 0 /\ \A i \in 1 .. n + 1 : g[i] = 10 * g[i - 1] + DigitValue(more[i])
    BY <2>3, <2>5 DEF Counts
  <2> DEFINE T == {i \in 0 .. n : f[i] = g[i]}
  <2>8. 0 \in T /\ \A i \in 0 .. n - 1 : i \in T => i + 1 \in T
    <3>1. ASSUME NEW i \in 0 .. n - 1, i \in T PROVE i + 1 \in T
      <4>1. i + 1 \in 1 .. n /\ i + 1 \in 1 .. n + 1 /\ (i + 1) - 1 = i
        OBVIOUS
      <4> QED BY <2>3, <2>6, <2>7, <3>1, <4>1
    <3> QED BY <2>6, <2>7, <3>1
  <2>9. n \in T
    <3> HIDE DEF T
    <3>1. 0 .. n \subseteq T
      BY <2>8, L!InductionUpTo
    <3> QED BY <3>1
  <2>10. n + 1 \in 1 .. n + 1 /\ (n + 1) - 1 = n
    OBVIOUS
  <2>11. g[n + 1] = 10 * g[n] + DigitValue(more[n + 1])
    BY <2>7, <2>10
  <2> QED BY <2>1, <2>3, <2>4, <2>5, <2>9, <2>11
<1> QED BY <1>1, <1>2, <1>3

LEMMA DivTen ==
    ASSUME NEW v \in Nat
    PROVE  /\ v \div 10 \in Nat /\ v % 10 \in 0 .. 9 /\ v = 10 * (v \div 10) + (v % 10)
           /\ v >= 10 => v \div 10 \in 1 .. v - 1
           /\ v < 10 => v \div 10 = 0 /\ v % 10 = v
OBVIOUS

\* The equations Decimal is defined by have a solution: the run of a loop that
\* enters one number after another into a table.
Digitise(v, table) ==
    IF v < 10 THEN <<Numeral[v + 1]>> ELSE table[v \div 10] \o <<Numeral[(v % 10) + 1]>>

LEMMA DigitiseType ==
    ASSUME NEW v \in Nat, NEW table \in [Nat -> Digits]
    PROVE  Digitise(v, table) \in Digits
<1>1. CASE v < 10
  <2>1. v \in 0 .. 9
    BY <1>1
  <2>2. Numeral[v + 1] \in Digit
    BY <2>1, DigitIs
  <2> QED BY <1>1, <2>2 DEF Digitise, Digits
<1>2. CASE ~(v < 10)
  <2>1. v \div 10 \in Nat /\ v % 10 \in 0 .. 9
    BY DivTen
  <2>2. Numeral[(v % 10) + 1] \in Digit /\ table[v \div 10] \in Digits
    BY <2>1, DigitIs
  <2> QED BY <1>2, <2>2 DEF Digitise, Digits
<1> QED BY <1>1, <1>2

LEMMA DecimalSolved ==
    \E d \in [Nat -> Digits] : d = [v \in Nat |-> Digitise(v, d)]
<1> DEFINE S    == [Nat -> Digits]
           body == [i \in Nat |-> [table \in S |-> [table EXCEPT ![i] = Digitise(i, table)]]]
           base == [v \in Nat |-> <<"0">>]
<1>1. base \in S
  BY DigitIs DEF Digits
<1>2. L!IsBody(body, Nat, S)
  <2>1. ASSUME NEW i \in Nat, NEW table \in S PROVE [table EXCEPT ![i] = Digitise(i, table)] \in S
    BY DigitiseType
  <2> HIDE DEF S
  <2> QED BY <2>1 DEF L!IsBody
<1>3. PICK g \in [Nat -> S] : L!IsRun(g, base, body, Nat \ {0})
  <2> HIDE DEF S, base, body
  <2>1. L!RunsForever(base, body, S)
    BY <1>1, <1>2, L!LoopRunsForever
  <2> QED BY <2>1 DEF L!RunsForever
<1>4. /\ g[0] = base
      /\ \A i \in Nat : g[i + 1] = [g[i] EXCEPT ![i + 1] = Digitise(i + 1, g[i])]
  <2>1. ASSUME NEW i \in Nat PROVE g[i + 1] = [g[i] EXCEPT ![i + 1] = Digitise(i + 1, g[i])]
    <3>1. g[i] \in S /\ i + 1 \in Nat \ {0} /\ (i + 1) - 1 = i
      OBVIOUS
    <3>2. body[i + 1][g[i]] = [g[i] EXCEPT ![i + 1] = Digitise(i + 1, g[i])]
      <4> HIDE DEF S
      <4> QED BY <3>1
    <3> HIDE DEF S, body
    <3> QED BY <1>3, <3>1, <3>2 DEF L!IsRun
  <2> HIDE DEF S, base, body
  <2> QED BY <1>3, <2>1 DEF L!IsRun
<1>5. \A i \in Nat : g[i] \in S
  BY <1>3
\* What has been entered stays.
<1>6. ASSUME NEW v \in Nat, NEW k \in Nat PROVE g[v + k][v] = g[v][v]
  <2> DEFINE T == {j \in Nat : g[v + j][v] = g[v][v]}
  <2>1. 0 \in T
    OBVIOUS
  <2>2. ASSUME NEW j \in T PROVE j + 1 \in T
    <3>1. PICK w \in Nat : w = v + j
      OBVIOUS
    <3>2. v + (j + 1) = w + 1 /\ v # w + 1
      BY <3>1
    <3>3. g[w] \in [Nat -> Digits] /\ g[w + 1] = [g[w] EXCEPT ![w + 1] = Digitise(w + 1, g[w])]
      BY <1>4, <1>5
    <3>4. g[w + 1][v] = g[w][v]
      BY <3>2, <3>3
    <3> QED BY <2>2, <3>1, <3>2, <3>4
  <2>3. T = Nat
    <3>1. T \in SUBSET Nat
      OBVIOUS
    <3> HIDE DEF T
    <3> QED BY <2>1, <2>2, <3>1, L!Induction
  <2> QED BY <2>3
<1> DEFINE d == [v \in Nat |-> g[v][v]]
<1>7. d \in [Nat -> Digits]
  BY <1>5
<1>8. ASSUME NEW v \in Nat PROVE d[v] = Digitise(v, d)
  <2>1. CASE v = 0
    <3>1. Digitise(0, d) = <<Numeral[0 + 1]>>
      BY DEF Digitise
    <3>2. Numeral[0 + 1] = "0"
      <4>1. 0 + 1 = 1
        OBVIOUS
      <4>2. Numeral[1] = "0"
        BY NumeralIs
      <4> QED BY <4>1, <4>2
    <3>3. g[0][0] = <<"0">>
      BY <1>4
    <3> QED BY <2>1, <3>1, <3>2, <3>3
  <2>2. CASE v # 0
    <3>1. PICK i \in Nat : v = i + 1
      <4>1. v - 1 \in Nat /\ v = (v - 1) + 1
        BY <2>2
      <4> QED BY <4>1
    <3>2. d[v] = Digitise(v, g[i])
      BY <1>4, <1>5, <3>1
    <3>3. CASE v < 10
      BY <3>2, <3>3 DEF Digitise
    <3>4. CASE ~(v < 10)
      <4>1. v \div 10 \in 1 .. v - 1
        BY <3>4, DivTen
      <4>2. PICK u \in 1 .. i : u = v \div 10
        BY <3>1, <4>1
      <4>3. i - u \in Nat /\ u + (i - u) = i /\ u \in Nat
        BY <4>2
      <4>4. g[i][u] = g[u][u]
        BY <1>6, <4>3
      <4>5. g[i][u] = d[u]
        BY <4>3, <4>4
      <4> HIDE DEF d
      <4> QED BY <3>2, <3>4, <4>2, <4>5 DEF Digitise
    <3> QED BY <3>3, <3>4
  <2> QED BY <2>1, <2>2
<1>9. d = [v \in Nat |-> Digitise(v, d)]
  <2> DEFINE e == [v \in Nat |-> Digitise(v, d)]
  <2>1. \A v \in Nat : d[v] = e[v]
    BY <1>8
  <2> QED BY <1>7, <2>1
<1> HIDE DEF d
<1> QED BY <1>7, <1>9

LEMMA DecimalIs ==
    /\ \A v \in Nat : Decimal[v] \in Digits /\ Decimal[v] # <<>>
    /\ \A v \in 0 .. 9 : Decimal[v] = <<Numeral[v + 1]>>
    /\ \A v \in Nat : v >= 10 => Decimal[v] = Append(Decimal[v \div 10], Numeral[(v % 10) + 1])
<1> DEFINE Solves(h) ==
        h = [v \in Nat |-> IF v < 10 THEN <<Numeral[v + 1]>>
                           ELSE h[v \div 10] \o <<Numeral[(v % 10) + 1]>>]
<1>1. PICK d \in [Nat -> Digits] : d = [v \in Nat |-> Digitise(v, d)]
  BY DecimalSolved
<1>2. Solves(d)
  BY <1>1 DEF Digitise
<1>3. Decimal = CHOOSE h : Solves(h)
  BY DEF Decimal
<1>4. Solves(Decimal)
  <2> HIDE DEF Solves
  <2> QED BY <1>2, <1>3
<1> DEFINE e == Decimal
<1>5. e = [v \in Nat |-> IF v < 10 THEN <<Numeral[v + 1]>>
                         ELSE e[v \div 10] \o <<Numeral[(v % 10) + 1]>>]
  BY <1>4
<1> HIDE DEF e
\* One solution only: all of e is as d, number by number.
<1>6. \A v \in Nat : e[v] = d[v]
  <2> DEFINE T == {n \in Nat : \A v \in 0 .. n : e[v] = d[v]}
  <2>1. ASSUME NEW v \in Nat, \A u \in Nat : u < v => e[u] = d[u] PROVE e[v] = d[v]
    <3>1. CASE v < 10
      BY <1>1, <1>5, <3>1 DEF Digitise
    <3>2. CASE ~(v < 10)
      <4>1. PICK u \in Nat : u = v \div 10 /\ u < v
        BY <3>2, DivTen
      <4>2. e[u] = d[u]
        BY <2>1, <4>1
      <4> QED BY <1>1, <1>5, <3>2, <4>1, <4>2 DEF Digitise
    <3> QED BY <3>1, <3>2
  <2>2. 0 \in T
    <3>1. e[0] = d[0]
      BY <2>1
    <3> QED BY <3>1
  <2>3. ASSUME NEW n \in T PROVE n + 1 \in T
    <3>1. e[n + 1] = d[n + 1]
      BY <2>1, <2>3
    <3> QED BY <2>3, <3>1
  <2>4. T = Nat
    <3>1. T \in SUBSET Nat
      OBVIOUS
    <3> HIDE DEF T
    <3> QED BY <2>2, <2>3, <3>1, L!Induction
  <2> QED BY <2>4
<1>7. \A v \in Nat : e[v] \in Digits
  BY <1>1, <1>6
<1>8. \A v \in 0 .. 9 : e[v] = <<Numeral[v + 1]>>
  BY <1>5
<1>9. ASSUME NEW v \in Nat, v >= 10
      PROVE  e[v] = Append(e[v \div 10], Numeral[(v % 10) + 1])
  <2>1. v \div 10 \in Nat /\ v % 10 \in 0 .. 9
    BY DivTen
  <2>2. PICK u \in Nat : u = v \div 10
    BY <2>1
  <2>3. PICK c \in Digit : c = Numeral[(v % 10) + 1]
    BY <2>1, DigitIs
  <2>4. e[v] = e[u] \o <<c>>
    <3>1. e[v] = e[v \div 10] \o <<Numeral[(v % 10) + 1]>>
      <4>1. e[v] = IF v < 10 THEN <<Numeral[v + 1]>> ELSE e[v \div 10] \o <<Numeral[(v % 10) + 1]>>
        BY <1>5, Zenon
      <4>2. ~(v < 10)
        BY <1>9
      <4> QED BY ONLY <4>1, <4>2, Zenon
    <3> QED BY <2>2, <2>3, <3>1
  <2>5. Append(e[u], c) = e[u] \o <<c>>
    BY <1>7, AppendIsConcat DEF Digits
  <2> QED BY <2>2, <2>3, <2>4, <2>5
<1>10. ASSUME NEW v \in Nat PROVE e[v] # <<>>
  <2>1. CASE v < 10
    <3>1. v \in 0 .. 9
      BY <2>1
    <3>2. PICK c : e[v] = <<c>>
      BY <1>8, <3>1
    <3> QED BY <3>2
  <2>2. CASE ~(v < 10)
    <3>1. v \div 10 \in Nat /\ v % 10 \in 0 .. 9
      BY DivTen
    <3>2. Numeral[(v % 10) + 1] \in Digit /\ e[v \div 10] \in Seq(Digit)
      BY <1>7, <3>1, DigitIs DEF Digits
    <3> QED BY <1>9, <2>2, <3>2, AppendProperties
  <2> QED BY <2>1, <2>2
<1> QED BY <1>7, <1>8, <1>9, <1>10 DEF e

-----------------------------------------------------------------------------
(* Which numbers a text spells. *)

LEMMA SpellsDigits ==
    ASSUME NEW text \in Text, NEW v \in Nat, Spells(text, v)
    PROVE  text \in Digits /\ text # <<>>
<1>1. PICK z \in 0 .. Len(text) :
          (\A i \in 1 .. z : text[i] = "0") /\ SubSeq(text, z + 1, Len(text)) = Decimal[v]
  BY DEF Spells
<1>2. Len(text) \in Nat /\ DOMAIN text = 1 .. Len(text) /\ text = [i \in 1 .. Len(text) |-> text[i]]
  BY DEF Text
<1>3. PICK d \in Digits : d = Decimal[v] /\ d # <<>>
  BY DecimalIs
<1>4. /\ Len(d) = Len(text) - z
      /\ \A i \in 1 .. Len(text) - z : d[i] = text[z + i]
  <2>1. PICK n \in Nat : n = Len(text)
    BY <1>2
  <2>2. z + 1 \in Int /\ n \in Int /\ \A i \in z + 1 .. n : text[i] \in Char
    BY <2>1 DEF Text
  <2>3. d = SubSeq(text, z + 1, n)
    BY <1>1, <1>3, <2>1
  <2>4. /\ Len(d) = IF z + 1 <= n THEN n - (z + 1) + 1 ELSE 0
        /\ \A i \in 1 .. n - (z + 1) + 1 : d[i] = text[(z + 1) + i - 1]
    BY ONLY <2>2, <2>3, SubSeqProperties
  <2>5. z \in 0 .. n
    BY <2>1
  <2>6. \A i \in 1 .. n - z : i \in 1 .. n - (z + 1) + 1 /\ (z + 1) + i - 1 = z + i
    BY <2>5
  <2>7. Len(d) = n - z
    BY <2>4, <2>5
  <2> QED BY ONLY <2>1, <2>4, <2>6, <2>7
<1>5. Len(d) # 0
  BY <1>3 DEF Digits
<1>6. ASSUME NEW i \in 1 .. Len(text) PROVE text[i] \in Digit
  <2>1. CASE i <= z
    BY <1>1, <2>1, DigitIs
  <2>2. CASE ~(i <= z)
    <3>1. i - z \in 1 .. Len(text) - z /\ z + (i - z) = i
      BY <1>2, <2>2
    <3>2. d[i - z] \in Digit
      BY <1>4, <3>1 DEF Digits
    <3> QED BY <1>4, <3>1, <3>2
  <2> QED BY <2>1, <2>2
<1>7. text \in Seq(Digit)
  BY <1>2, <1>6
<1> QED BY <1>4, <1>5, <1>7 DEF Digits

Zeros(text) == \A i \in DOMAIN text : text[i] = "0"

\* What is left of a text and one more digit without its first z characters.
LEMMA RestOfMore ==
    ASSUME NEW text \in Digits, NEW c \in Digit, NEW z \in 0 .. Len(text)
    PROVE  /\ SubSeq(text, z + 1, Len(text)) \in Digits
           /\ SubSeq(Append(text, c), z + 1, Len(text) + 1) = Append(SubSeq(text, z + 1, Len(text)), c)
           /\ SubSeq(text, z + 1, Len(text)) = <<>> <=> z = Len(text)
<1>1. PICK n \in Nat : n = Len(text)
  BY DEF Digits
<1>2. PICK more : more = Append(text, c)
  OBVIOUS
<1>3. /\ more \in Seq(Digit) /\ Len(more) = n + 1 /\ more[n + 1] = c
      /\ \A i \in 1 .. n : more[i] = text[i]
  BY <1>1, <1>2, AppendProperties DEF Digits
<1>4. z + 1 \in Int /\ n \in Int /\ n + 1 \in Int /\ \A i \in z + 1 .. n : text[i] \in Digit
  BY <1>1 DEF Digits
<1>5. \A i \in z + 1 .. n + 1 : more[i] \in Digit
  BY <1>1, <1>3
<1>6. PICK r : r = SubSeq(text, z + 1, n)
  OBVIOUS
<1>7. /\ r \in Seq(Digit) /\ Len(r) = n - z
      /\ \A i \in 1 .. n - z : r[i] = text[z + i]
  <2>1. /\ r \in Seq(Digit) /\ Len(r) = IF z + 1 <= n THEN n - (z + 1) + 1 ELSE 0
        /\ \A i \in 1 .. n - (z + 1) + 1 : r[i] = text[(z + 1) + i - 1]
    BY <1>4, <1>6, SubSeqProperties
  <2> QED BY <1>1, <2>1
<1>8. PICK s : s = SubSeq(more, z + 1, n + 1)
  OBVIOUS
<1>9. /\ s \in Seq(Digit) /\ Len(s) = n + 1 - z
      /\ \A i \in 1 .. n + 1 - z : s[i] = more[z + i]
  <2>1. /\ s \in Seq(Digit) /\ Len(s) = IF z + 1 <= n + 1 THEN n + 1 - (z + 1) + 1 ELSE 0
        /\ \A i \in 1 .. n + 1 - (z + 1) + 1 : s[i] = more[(z + 1) + i - 1]
    BY <1>4, <1>5, <1>8, SubSeqProperties
  <2> QED BY <1>1, <2>1
<1>10. PICK q : q = Append(r, c)
  OBVIOUS
<1>11. /\ q \in Seq(Digit) /\ Len(q) = n + 1 - z /\ q[n + 1 - z] = c
       /\ \A i \in 1 .. n - z : q[i] = r[i]
  <2>1. /\ q \in Seq(Digit) /\ Len(q) = Len(r) + 1 /\ q[Len(r) + 1] = c
        /\ \A i \in 1 .. Len(r) : q[i] = r[i]
    <3>1. r \in Seq(Digit) /\ c \in Digit
      BY <1>7
    <3>2. /\ Append(r, c) \in Seq(Digit) /\ Len(Append(r, c)) = Len(r) + 1 /\ Append(r, c)[Len(r) + 1] = c
          /\ \A i \in 1 .. Len(r) : Append(r, c)[i] = r[i]
      BY ONLY <3>1, AppendProperties
    <3> QED BY ONLY <1>10, <3>2
  <2> QED BY <1>1, <1>7, <2>1
<1>12. ASSUME NEW i \in 1 .. Len(s) PROVE s[i] = q[i]
  <2>1. i \in 1 .. n + 1 - z /\ s[i] = more[z + i]
    BY <1>9
  <2>2. CASE i <= n - z
    <3>1. i \in 1 .. n - z /\ z + i \in 1 .. n
      BY <1>1, <2>1, <2>2
    <3> QED BY <1>3, <1>7, <1>11, <2>1, <3>1
  <2>3. CASE i = n + 1 - z
    <3>1. z + i = n + 1
      BY <1>1, <2>3
    <3> QED BY <1>3, <1>11, <2>1, <2>3, <3>1
  <2> QED BY <1>1, <2>1, <2>2, <2>3
<1>13. s = q
  BY <1>9, <1>11, <1>12, SeqEqual
<1>14. r = <<>> <=> n = z
  BY <1>1, <1>7
<1> QED BY <1>1, <1>2, <1>6, <1>7, <1>8, <1>10, <1>13, <1>14 DEF Digits

\* One more digit, of a number with one digit and of one with more.
LEMMA SpellsMore ==
    ASSUME NEW text \in Digits, NEW c \in Digit, NEW v \in Nat
    PROVE  /\ Zeros(Append(text, c)) <=> Zeros(text) /\ c = "0"
           /\ v < 10 => (Spells(Append(text, c), v) <=> Zeros(text) /\ c = Numeral[v + 1])
           /\ v >= 10 => (Spells(Append(text, c), v)
                            <=> Spells(text, v \div 10) /\ c = Numeral[(v % 10) + 1])
<1>1. PICK n \in Nat : n = Len(text) /\ DOMAIN text = 1 .. n
  BY DEF Digits
<1>2. PICK more : more = Append(text, c)
  OBVIOUS
<1>3. /\ more \in Seq(Digit) /\ Len(more) = n + 1 /\ more[n + 1] = c
      /\ \A i \in 1 .. n : more[i] = text[i]
  <2>1. text \in Seq(Digit) /\ c \in Digit
    BY DEF Digits
  <2>2. /\ Append(text, c) \in Seq(Digit) /\ Len(Append(text, c)) = Len(text) + 1
        /\ Append(text, c)[Len(text) + 1] = c
        /\ \A i \in 1 .. Len(text) : Append(text, c)[i] = text[i]
    BY ONLY <2>1, AppendProperties
  <2> QED BY <1>1, <1>2, <2>2
<1>4. DOMAIN more = 1 .. n + 1
  BY <1>1, <1>3
<1>5. Zeros(more) <=> Zeros(text) /\ c = "0"
  BY <1>1, <1>3, <1>4 DEF Zeros
<1> DEFINE Rest(z)  == SubSeq(text, z + 1, n)
           Rest1(z) == SubSeq(more, z + 1, n + 1)
           Front0(z) == \A i \in 1 .. z : text[i] = "0"
<1>6. \A z \in 0 .. n : Rest(z) \in Digits /\ Rest1(z) = Append(Rest(z), c) /\ (Rest(z) = <<>> <=> z = n)
  BY <1>1, <1>2, RestOfMore
<1>7. Rest1(n + 1) = <<>>
  BY SubSeqEmpty, <1>1
<1>8. Spells(more, v) <=> \E z \in 0 .. n : Front0(z) /\ Append(Rest(z), c) = Decimal[v]
  <2>1. Spells(more, v) <=>
            \E z \in 0 .. n + 1 : (\A i \in 1 .. z : more[i] = "0") /\ Rest1(z) = Decimal[v]
    BY <1>3 DEF Spells
  <2>2. ~(Rest1(n + 1) = Decimal[v])
    BY <1>7, DecimalIs
  <2>3. \A z \in 0 .. n + 1 : z = n + 1 \/ z \in 0 .. n
    BY <1>1
  <2>4. ASSUME NEW z \in 0 .. n
        PROVE  /\ z \in 0 .. n + 1
               /\ (\A i \in 1 .. z : more[i] = "0") <=> Front0(z)
               /\ Rest1(z) = Append(Rest(z), c)
    <3>1. z \in 0 .. n + 1
      BY <1>1
    <3>2. (\A i \in 1 .. z : more[i] = "0") <=> Front0(z)
      <4>1. \A i \in 1 .. z : i \in 1 .. n
        BY <1>1
      <4> QED BY <1>3, <4>1
    <3> HIDE DEF Rest, Rest1
    <3> QED BY <1>6, <3>1, <3>2
  <2> HIDE DEF Rest, Rest1, Front0
  <2> QED BY <2>1, <2>2, <2>3, <2>4
<1>9. Spells(text, v \div 10) <=> \E z \in 0 .. n : Front0(z) /\ Rest(z) = Decimal[v \div 10]
  BY <1>1 DEF Spells
<1>10. Zeros(text) <=> Front0(n)
  BY <1>1 DEF Zeros
<1> HIDE DEF Rest, Rest1, Front0
<1>11. ASSUME v < 10
       PROVE  Spells(more, v) <=> Zeros(text) /\ c = Numeral[v + 1]
  <2>1. PICK d \in Digit : d = Numeral[v + 1] /\ Decimal[v] = <<d>>
    <3>1. v \in 0 .. 9
      BY <1>11
    <3> QED BY <3>1, DecimalIs, DigitIs
  <2>2. \A z \in 0 .. n : Append(Rest(z), c) = <<d>> <=> z = n /\ c = d
    <3>1. \A r \in Seq(Digit) : Append(r, c) = <<d>> <=> r = <<>> /\ c = d
      <4> TAKE r \in Seq(Digit)
      <4>1. PICK x \in Seq(Digit) : x = <<>>
        <5>1. <<>> \in Seq(Digit)
          BY EmptySeq
        <5> QED BY ONLY <5>1, Zenon
      <4>2. <<d>> = Append(x, d)
        BY <4>1
      <4>3. Append(r, c) = Append(x, d) <=> r = x /\ c = d
        BY ONLY AppendInjective, x \in Seq(Digit), c \in Digit, d \in Digit, r \in Seq(Digit)
      <4> QED BY <4>1, <4>2, <4>3
    <3> QED BY <1>6, <3>1 DEF Digits
  <2>3. n \in 0 .. n
    BY <1>1
  <2> QED BY <1>8, <1>10, <2>1, <2>2, <2>3
<1>12. ASSUME v >= 10
       PROVE  Spells(more, v) <=> Spells(text, v \div 10) /\ c = Numeral[(v % 10) + 1]
  <2>1. v \div 10 \in Nat /\ v % 10 \in 0 .. 9
    BY DivTen
  <2>2. PICK d \in Digit : d = Numeral[(v % 10) + 1]
    BY <2>1, DigitIs
  <2>3. PICK s \in Seq(Digit) : s = Decimal[v \div 10]
    BY <2>1, DecimalIs DEF Digits
  <2>4. Decimal[v] = Append(s, d)
    BY <1>12, <2>2, <2>3, DecimalIs
  <2>5. \A z \in 0 .. n : Append(Rest(z), c) = Append(s, d) <=> Rest(z) = s /\ c = d
    BY <1>6, AppendInjective DEF Digits
  <2> QED BY <1>8, <1>9, <2>2, <2>3, <2>4, <2>5
<1> QED BY <1>2, <1>5, <1>11, <1>12

\* A text of digits spells exactly the number that is its value, if any text
\* does; the zeros that it may begin with make no difference.
LEMMA SpellsValue ==
    \A text \in Digits :
        /\ Zeros(text) <=> Value(text) = 0
        /\ \A v \in Nat \ {0} : Spells(text, v) <=> Value(text) = v
        /\ text # <<>> => (Spells(text, 0) <=> Value(text) = 0)
<1> DEFINE Good(text) ==
               /\ Zeros(text) <=> Value(text) = 0
               /\ \A v \in Nat \ {0} : Spells(text, v) <=> Value(text) = v
               /\ text # <<>> => (Spells(text, 0) <=> Value(text) = 0)
           T == {n \in Nat : \A text \in Digits : Len(text) = n => Good(text)}
<1>1. 0 \in T
  <2>1. ASSUME NEW text \in Digits, Len(text) = 0 PROVE Good(text)
    <3>1. text = <<>> /\ DOMAIN text = {} /\ text \in Text
      BY <2>1 DEF Digits, Text
    <3>2. \A v \in Nat : ~Spells(text, v)
      BY <3>1, SpellsDigits
    <3> QED BY <3>1, <3>2, ValueIs DEF Zeros
  <2> QED BY <2>1
<1>2. ASSUME NEW n \in T PROVE n + 1 \in T
  <2>1. ASSUME NEW more \in Digits, Len(more) = n + 1 PROVE Good(more)
    <3>1. PICK text \in Seq(Digit), c \in Digit : more = Append(text, c)
      <4>1. more # <<>>
        BY <1>2, <2>1
      <4> QED BY <4>1, SequenceEmptyOrAppend DEF Digits
    <3>2. text \in Digits /\ Len(text) = n
      BY <1>2, <2>1, <3>1, AppendProperties DEF Digits
    <3>3. PICK w \in Nat : w = Value(text)
      BY <3>2, ValueIs
    <3>4. PICK e \in 0 .. 9 : e = DigitValue(c) /\ \A d \in 0 .. 9 : c = Numeral[d + 1] <=> e = d
      BY DigitIs
    <3>5. Value(more) = 10 * w + e
      BY <3>1, <3>2, <3>3, <3>4, ValueIs
    <3>6. /\ Zeros(text) <=> w = 0
          /\ \A v \in Nat \ {0} : Spells(text, v) <=> w = v
      BY <1>2, <3>2, <3>3
    <3>7. c = "0" <=> e = 0
      <4>1. 0 \in 0 .. 9 /\ 0 + 1 = 1
        OBVIOUS
      <4>2. Numeral[0 + 1] = "0"
        BY <4>1, NumeralIs
      <4> QED BY <3>4, <4>1, <4>2
    <3>8. Zeros(more) <=> 10 * w + e = 0
      BY <3>1, <3>2, <3>6, <3>7, SpellsMore
    <3>9. ASSUME NEW v \in Nat PROVE Spells(more, v) <=> 10 * w + e = v
      <4>1. CASE v < 10
        <5>1. v \in 0 .. 9
          BY <4>1
        <5>2. Spells(more, v) <=> w = 0 /\ e = v
          BY <3>1, <3>2, <3>4, <3>6, <4>1, <5>1, SpellsMore
        <5> QED BY <4>1, <5>2
      <4>2. CASE ~(v < 10)
        <5>1. PICK p \in Nat \ {0}, q \in 0 .. 9 : p = v \div 10 /\ q = v % 10 /\ v = 10 * p + q
          BY <4>2, DivTen
        <5>2. Spells(more, v) <=> Spells(text, p) /\ c = Numeral[q + 1]
          BY <3>1, <3>2, <4>2, <5>1, SpellsMore
        <5>3. Spells(more, v) <=> w = p /\ e = q
          BY <3>4, <3>6, <5>1, <5>2
        <5> QED BY <5>1, <5>3
      <4> QED BY <4>1, <4>2
    <3> QED BY <3>5, <3>8, <3>9
  <2> QED BY <1>2, <2>1
<1>3. T = Nat
  <2>1. T \in SUBSET Nat
    OBVIOUS
  <2> HIDE DEF T
  <2> QED BY <1>1, <1>2, <2>1, L!Induction
<1>4. ASSUME NEW text \in Digits PROVE Good(text)
  <2>1. Len(text) \in Nat
    BY DEF Digits
  <2> QED BY <1>3, <2>1
<1> QED BY <1>4

\* std::from_chars gives the number a text spells, if it has 32 bits.
LEMMA FromCharsIs ==
    ASSUME NEW text \in Text
    PROVE  FromChars(text) = {v \in 0 .. MaxUint : Spells(text, v)}
<1>1. MaxUint \in Nat
  BY ParserAssumption
<1>2. CASE text \in Digits /\ text # <<>>
  <2>1. Value(text) \in Nat /\ \A v \in Nat : Spells(text, v) <=> Value(text) = v
    BY <1>2, SpellsValue, ValueIs
  <2>2. AllOf(text, LAMBDA c : c \in Digit)
    BY <1>2 DEF AllOf, Digits
  <2>3. FromChars(text) = IF Value(text) <= MaxUint THEN {Value(text)} ELSE {}
    BY <1>2, <2>2 DEF FromChars, AllOf
  <2> QED BY <1>1, <2>1, <2>3
<1>3. CASE ~(text \in Digits /\ text # <<>>)
  <2>1. \A v \in 0 .. MaxUint : ~Spells(text, v)
    BY <1>1, <1>3, SpellsDigits
  <2>2. ASSUME text # <<>>, \A i \in DOMAIN text : text[i] \in Digit PROVE FALSE
    <3>1. text \in Seq(Digit)
      BY <2>2 DEF Text
    <3> QED BY <1>3, <2>2, <3>1 DEF Digits
  <2>3. FromChars(text) = {}
    BY <2>2 DEF FromChars, AllOf
  <2> QED BY <2>1, <2>3
<1> QED BY <1>2, <1>3

-----------------------------------------------------------------------------
(* The lines of a file. *)

LEMMA LeastIs ==
    ASSUME NEW S \in SUBSET Nat, S # {}
    PROVE  Min(S) \in S /\ \A x \in S : Min(S) <= x
<1>1. \E x \in S : \A y \in S : x <= y
  BY L!LeastNumber
<1> QED BY <1>1 DEF Min

\* Of a text, a part.
LEMMA PartIs ==
    ASSUME NEW C, NEW text \in Seq(C), NEW m \in Nat \ {0}, NEW n \in Nat, n <= Len(text), m <= n + 1
    PROVE  /\ SubSeq(text, m, n) \in Seq(C) /\ Len(SubSeq(text, m, n)) = n + 1 - m
           /\ \A i \in 1 .. n + 1 - m : SubSeq(text, m, n)[i] = text[m - 1 + i]
<1>1. m \in Int /\ n \in Int /\ \A i \in m .. n : text[i] \in C
  OBVIOUS
<1>2. PICK s : s = SubSeq(text, m, n)
  OBVIOUS
<1>3. /\ s \in Seq(C) /\ Len(s) = IF m <= n THEN n - m + 1 ELSE 0
      /\ \A i \in 1 .. n - m + 1 : s[i] = text[m + i - 1]
  BY ONLY <1>1, <1>2, SubSeqProperties
<1>4. \A i \in 1 .. n + 1 - m : i \in 1 .. n - m + 1 /\ m + i - 1 = m - 1 + i
  OBVIOUS
<1>5. Len(s) = n + 1 - m
  BY <1>3
<1> QED BY ONLY <1>2, <1>3, <1>4, <1>5

\* The part before a position and the part after it.
LEMMA PartsAt ==
    ASSUME NEW C, NEW text \in Seq(C), NEW i \in 1 .. Len(text)
    PROVE  /\ SubSeq(text, 1, i - 1) \in Seq(C) /\ Len(SubSeq(text, 1, i - 1)) = i - 1
           /\ \A j \in 1 .. i - 1 : SubSeq(text, 1, i - 1)[j] = text[j]
           /\ SubSeq(text, i + 1, Len(text)) \in Seq(C) /\ Len(SubSeq(text, i + 1, Len(text))) = Len(text) - i
           /\ \A j \in 1 .. Len(text) - i : SubSeq(text, i + 1, Len(text))[j] = text[i + j]
<1>1. PICK n \in Nat : n = Len(text)
  OBVIOUS
<1>2. /\ SubSeq(text, 1, i - 1) \in Seq(C) /\ Len(SubSeq(text, 1, i - 1)) = (i - 1) + 1 - 1
      /\ \A j \in 1 .. (i - 1) + 1 - 1 : SubSeq(text, 1, i - 1)[j] = text[1 - 1 + j]
  <2>1. 1 \in Nat \ {0} /\ i - 1 \in Nat /\ i - 1 <= Len(text) /\ 1 <= (i - 1) + 1
    BY <1>1
  <2> QED BY ONLY <2>1, PartIs, text \in Seq(C)
<1>3. /\ SubSeq(text, i + 1, n) \in Seq(C) /\ Len(SubSeq(text, i + 1, n)) = n + 1 - (i + 1)
      /\ \A j \in 1 .. n + 1 - (i + 1) : SubSeq(text, i + 1, n)[j] = text[(i + 1) - 1 + j]
  <2>1. i + 1 \in Nat \ {0} /\ n \in Nat /\ n <= Len(text) /\ i + 1 <= n + 1
    BY <1>1
  <2> QED BY ONLY <2>1, PartIs, text \in Seq(C)
<1>4. /\ (i - 1) + 1 - 1 = i - 1 /\ n + 1 - (i + 1) = n - i
      /\ \A j \in Nat : 1 - 1 + j = j /\ (i + 1) - 1 + j = i + j
  BY <1>1
<1>5. \A j \in 1 .. n - i : (i + 1) - 1 + j = i + j
  BY <1>1
<1>6. \A j \in 1 .. i - 1 : 1 - 1 + j = j
  OBVIOUS
<1> QED BY ONLY <1>1, <1>2, <1>3, <1>4, <1>5, <1>6

\* A line parses as what it means.
LEMMA CsvLineIs ==
    ASSUME NEW text \in Text
    PROVE  LineMeaning(text) = ParseCsvLine(text)
<1> DEFINE sv    == IF text # <<>> /\ text[Len(text)] = CR THEN Front(text) ELSE text
           Left(i)  == SubSeq(sv, 1, i - 1)
           Right(i) == SubSeq(sv, i + 1, Len(sv))
           comma == Positions(sv, ",")
           Ints  == 0 .. MaxUint
<1>1. sv \in Text
  <2>1. CASE text # <<>>
    <3>1. Len(text) \in 1 .. Len(text)
      BY <2>1 DEF Text
    <3>2. SubSeq(text, 1, Len(text) - 1) \in Text
      BY <3>1, PartsAt DEF Text
    <3> QED BY <3>2 DEF Front
  <2>2. CASE text = <<>>
    BY <2>2
  <2> QED BY <2>1, <2>2
<1>2. LineMeaning(text) =
          {p \in Ints \X Ints :
              \E i \in DOMAIN sv : sv[i] = "," /\ Spells(Left(i), p[1]) /\ Spells(Right(i), p[2])}
  BY DEF LineMeaning, Last
<1>3. ParseCsvLine(text) =
          IF Cardinality(comma) # 1 THEN {}
          ELSE FromChars(Left(Min(comma))) \X FromChars(Right(Min(comma)))
  BY DEF ParseCsvLine
<1> HIDE DEF sv
<1>4. PICK n \in Nat : n = Len(sv) /\ DOMAIN sv = 1 .. n
  BY <1>1 DEF Text
<1>5. ASSUME NEW i \in 1 .. n
      PROVE  /\ Left(i) \in Text /\ Len(Left(i)) = i - 1 /\ \A j \in 1 .. i - 1 : Left(i)[j] = sv[j]
             /\ Right(i) \in Text /\ Len(Right(i)) = n - i
             /\ \A j \in 1 .. n - i : Right(i)[j] = sv[i + j]
  BY <1>1, <1>4, PartsAt DEF Text
<1> HIDE DEF Left, Right
<1> DEFINE IsComma(c) == c = ","
<1>6. \A c \in Digit : ~IsComma(c)
  BY NumeralIs DEF Digit
<1>7. comma = {i \in 1 .. n : IsComma(sv[i])}
  BY <1>4 DEF Positions
<1>8. LineMeaning(text) =
          {p \in Ints \X Ints :
              \E i \in 1 .. n : IsComma(sv[i]) /\ Spells(Left(i), p[1]) /\ Spells(Right(i), p[2])}
  BY <1>2, <1>4
<1> HIDE DEF comma, IsComma
<1>9. \A v \in Ints : v \in Nat
  <2>1. MaxUint \in Nat
    BY ParserAssumption
  <2> QED BY <2>1
<1> HIDE DEF Ints
<1>10. ASSUME NEW i \in 1 .. n, IsComma(sv[i]), NEW u \in Nat, NEW v \in Nat,
              Spells(Left(i), u), Spells(Right(i), v)
       PROVE  comma = {i}
  <2>1. Left(i) \in Digits /\ Right(i) \in Digits
    BY <1>5, <1>10, SpellsDigits
  <2>2. ASSUME NEW j \in 1 .. n, j # i PROVE ~IsComma(sv[j])
    <3>1. CASE j < i
      <4>1. j \in 1 .. i - 1
        BY <3>1
      <4>2. Left(i)[j] = sv[j] /\ j \in 1 .. Len(Left(i))
        BY <1>5, <4>1
      <4>3. Left(i)[j] \in Digit
        BY <2>1, <4>2 DEF Digits
      <4> QED BY <1>6, <4>2, <4>3
    <3>2. CASE j > i
      <4>1. PICK m \in 1 .. n - i : i + m = j
        <5>1. j - i \in 1 .. n - i /\ i + (j - i) = j
          BY <3>2
        <5> QED BY <5>1
      <4>2. Right(i)[m] = sv[j] /\ m \in 1 .. Len(Right(i))
        BY <1>5, <4>1
      <4>3. Right(i)[m] \in Digit
        BY <2>1, <4>2 DEF Digits
      <4> QED BY <1>6, <4>2, <4>3
    <3> QED BY <2>2, <3>1, <3>2
  <2> QED BY <1>7, <1>10, <2>2
<1>11. CASE Cardinality(comma) # 1
  <2>1. \A i : comma # {i}
    BY <1>11, FS_Singleton
  <2>2. LineMeaning(text) = {}
    <3>1. ASSUME NEW p \in LineMeaning(text) PROVE FALSE
      <4>1. PICK i \in 1 .. n : IsComma(sv[i]) /\ Spells(Left(i), p[1]) /\ Spells(Right(i), p[2])
        BY <1>8, <3>1
      <4>2. p[1] \in Nat /\ p[2] \in Nat
        BY <1>8, <1>9, <3>1
      <4> QED BY <1>10, <2>1, <4>1, <4>2
    <3> QED BY <3>1
  <2> QED BY <1>3, <1>11, <2>2
<1>12. CASE Cardinality(comma) = 1
  <2>1. PICK i : comma = {i}
    <3>1. IsFiniteSet(comma)
      <4>1. IsFiniteSet(1 .. n)
        BY FS_Interval
      <4>2. comma \subseteq 1 .. n
        BY <1>7
      <4> QED BY <4>1, <4>2, FS_Subset
    <3> QED BY <1>12, <3>1, FS_Singleton
  <2>2. i \in 1 .. n /\ IsComma(sv[i]) /\ \A j \in 1 .. n : IsComma(sv[j]) => j = i
    BY <1>7, <2>1
  <2>3. Min(comma) = i
    <3>1. comma \in SUBSET Nat /\ comma # {}
      BY <2>1, <2>2
    <3> QED BY <2>1, <3>1, LeastIs
  <2>4. Left(i) \in Text /\ Right(i) \in Text
    BY <1>5, <2>2
  <2>5. /\ FromChars(Left(i)) = {v \in Ints : Spells(Left(i), v)}
        /\ FromChars(Right(i)) = {v \in Ints : Spells(Right(i), v)}
    BY <2>4, FromCharsIs DEF Ints
  <2>6. ParseCsvLine(text) = {v \in Ints : Spells(Left(i), v)} \X {v \in Ints : Spells(Right(i), v)}
    BY <1>3, <1>12, <2>3, <2>5
  <2>7. LineMeaning(text) = {p \in Ints \X Ints : Spells(Left(i), p[1]) /\ Spells(Right(i), p[2])}
    BY <1>8, <2>2
  <2> QED BY <2>6, <2>7
<1> QED BY <1>11, <1>12

\* A line means one pair at most.
LEMMA OneMeaning ==
    ASSUME NEW text \in Text, ParseCsvLine(text) # {}
    PROVE  ParseCsvLine(text) = {CHOOSE p \in ParseCsvLine(text) : TRUE}
<1>1. PICK a, b : ParseCsvLine(text) = FromChars(a) \X FromChars(b)
  BY DEF ParseCsvLine
<1>2. \A c : FromChars(c) = {} \/ \E v : FromChars(c) = {v}
  BY DEF FromChars
<1>3. PICK u, v : FromChars(a) = {u} /\ FromChars(b) = {v}
  BY <1>1, <1>2
<1>4. ParseCsvLine(text) = {<<u, v>>}
  BY <1>1, <1>3
<1> QED BY <1>4

\* The batch after the first k lines, as the loop fills it.
Meant(lines, k) == CHOOSE p \in ParseCsvLine(lines[k]) : TRUE
Fills(f, lines) ==
    /\ f[0] = <<>>
    /\ \A k \in 1 .. Len(lines) :
        f[k] = IF ParseCsvLine(lines[k]) = {} THEN f[k - 1] ELSE Append(f[k - 1], Meant(lines, k))

FileLines(fs, name) == IF name \in DOMAIN fs THEN fs[name] ELSE <<>>

LEMMA BatchFills ==
    ASSUME NEW fs, NEW name, NEW lines \in Seq(Text),
           lines = FileLines(fs, name)
    PROVE  \E f, S : /\ f \in [0 .. Len(lines) -> Seq(S)] /\ \A k \in 1 .. Len(lines) : Meant(lines, k) \in S
                     /\ Fills(f, lines) /\ ParseCsvFile(fs, name) = f[Len(lines)]
<1> DEFINE n    == Len(lines)
           S    == {Meant(lines, k) : k \in 1 .. n}
           Step(k, batch) == IF ParseCsvLine(lines[k]) = {} THEN batch ELSE Append(batch, Meant(lines, k))
           body == [k \in 1 .. n |-> [batch \in Seq(S) |-> Step(k, batch)]]
<1>1. n \in Nat
  OBVIOUS
<1>2. \A k \in 1 .. n : Meant(lines, k) \in S
  OBVIOUS
<1>3. L!IsBody(body, 1 .. n, Seq(S))
  <2>1. ASSUME NEW k \in 1 .. n, NEW batch \in Seq(S) PROVE Step(k, batch) \in Seq(S)
    <3>1. PICK x \in S : x = Meant(lines, k)
      BY <1>2
    <3> HIDE DEF S
    <3>2. Append(batch, x) \in Seq(S)
      OBVIOUS
    <3> QED BY <3>1, <3>2
  <2> HIDE DEF S, Step
  <2> QED BY <2>1 DEF L!IsBody
<1>4. PICK f \in [0 .. n -> Seq(S)] : L!IsRun(f, <<>>, body, 1 .. n)
  <2>1. <<>> \in Seq(S)
    BY EmptySeq
  <2> HIDE DEF body, S
  <2>2. L!Runs(<<>>, body, n, Seq(S))
    BY <1>1, <1>3, <2>1, L!LoopRuns
  <2> QED BY <2>2 DEF L!Runs
<1>5. f[0] = <<>> /\ \A k \in 1 .. n : f[k] = Step(k, f[k - 1])
  <2>1. ASSUME NEW k \in 1 .. n PROVE body[k][f[k - 1]] = Step(k, f[k - 1])
    <3>1. k - 1 \in 0 .. n
      BY <1>1
    <3> HIDE DEF S, Step
    <3>2. f[k - 1] \in Seq(S)
      BY <3>1
    <3> QED BY <3>2
  <2> HIDE DEF body, S, Step
  <2> QED BY <1>4, <2>1 DEF L!IsRun
<1> DEFINE Solves(g) ==
        g = [k \in 0 .. Len(lines) |->
                IF k = 0 THEN <<>>
                ELSE IF ParseCsvLine(lines[k]) = {} THEN g[k - 1]
                ELSE Append(g[k - 1], CHOOSE p \in ParseCsvLine(lines[k]) : TRUE)]
           batch == CHOOSE g : Solves(g)
<1>6. Solves(f)
  <2>1. \A k \in 0 .. n : f[k] = IF k = 0 THEN <<>> ELSE Step(k, f[k - 1])
    <3>1. \A k \in 0 .. n : k = 0 \/ k \in 1 .. n
      BY <1>1
    <3> HIDE DEF S, Step
    <3>2. ASSUME NEW k \in 0 .. n PROVE f[k] = IF k = 0 THEN <<>> ELSE Step(k, f[k - 1])
      BY ONLY <1>5, <3>1, k \in 0 .. n
    <3> QED BY <3>2
  <2>2. f = [k \in 0 .. n |-> IF k = 0 THEN <<>> ELSE Step(k, f[k - 1])]
    <3> HIDE DEF S, Step
    <3> QED BY <2>1
  <2> HIDE DEF S
  <2> QED BY <2>2 DEF Meant
<1>7. Solves(batch)
  <2> HIDE DEF Solves
  <2> QED BY <1>6
<1>8. ParseCsvFile(fs, name) = batch[n]
  BY DEF ParseCsvFile, FileLines
<1> HIDE DEF batch
<1>9. \A k \in 0 .. n : batch[k] = IF k = 0 THEN <<>> ELSE Step(k, batch[k - 1])
  BY <1>7 DEF Meant
<1>10. \A k \in 0 .. n : batch[k] = f[k]
  <2> DEFINE T == {k \in 0 .. n : batch[k] = f[k]}
  <2>1. 0 \in T
    BY <1>1, <1>5, <1>9
  <2>2. ASSUME NEW k \in 0 .. n - 1, k \in T PROVE k + 1 \in T
    <3>1. k + 1 \in 1 .. n /\ k + 1 \in 0 .. n /\ k + 1 # 0 /\ (k + 1) - 1 = k
      BY <1>1
    <3> HIDE DEF Step
    <3>2. batch[k + 1] = Step(k + 1, batch[k]) /\ f[k + 1] = Step(k + 1, f[k])
      BY <1>5, <1>9, <3>1
    <3> QED BY <2>2, <3>1, <3>2
  <2>3. 0 .. n \subseteq T
    <3> HIDE DEF T
    <3> QED BY <1>1, <2>1, <2>2, L!InductionUpTo
  <2> QED BY <2>3
<1>11. n \in 0 .. n
  BY <1>1
<1> HIDE DEF S
<1>12. ParseCsvFile(fs, name) = f[n]
  BY <1>8, <1>10, <1>11
<1> QED BY <1>2, <1>5, <1>12 DEF Fills

\* The lines that mean a pair, of the first k.
Meaningful(lines, k) == {j \in 1 .. k : LineMeaning(lines[j]) # {}}

LEMMA BatchMeans ==
    ASSUME NEW lines \in Seq(Text), NEW n \in Nat, n = Len(lines), NEW S,
           NEW f \in [0 .. n -> Seq(S)], \A k \in 1 .. n : Meant(lines, k) \in S, Fills(f, lines)
    PROVE  /\ Len(f[n]) = Cardinality(Meaningful(lines, n))
           /\ \A k \in Meaningful(lines, n) :
                  LineMeaning(lines[k]) = {f[n][Cardinality(Meaningful(lines, k))]}
<1> DEFINE Good(k) == Meaningful(lines, k)
<1>1. \A k \in 1 .. n : lines[k] \in Text
  OBVIOUS
<1>2. ASSUME NEW k \in 1 .. n
      PROVE  /\ LineMeaning(lines[k]) = ParseCsvLine(lines[k])
             /\ LineMeaning(lines[k]) # {} => LineMeaning(lines[k]) = {Meant(lines, k)}
  <2>1. LineMeaning(lines[k]) = ParseCsvLine(lines[k])
    BY <1>1, CsvLineIs
  <2>2. ParseCsvLine(lines[k]) # {} => ParseCsvLine(lines[k]) = {Meant(lines, k)}
    BY <1>1, OneMeaning DEF Meant
  <2> QED BY ONLY <2>1, <2>2
<1> DEFINE Has(k) == LineMeaning(lines[k]) # {}
<1>3. /\ f[0] = <<>>
      /\ \A k \in 1 .. n : f[k] = IF ~Has(k) THEN f[k - 1] ELSE Append(f[k - 1], Meant(lines, k))
  <2>1. f[0] = <<>> /\ \A k \in 1 .. n : f[k] = IF ParseCsvLine(lines[k]) = {} THEN f[k - 1]
                                               ELSE Append(f[k - 1], Meant(lines, k))
    BY DEF Fills
  <2>2. ASSUME NEW k \in 1 .. n PROVE ParseCsvLine(lines[k]) = {} <=> ~Has(k)
    <3>1. LineMeaning(lines[k]) = ParseCsvLine(lines[k])
      BY <1>2
    <3> QED BY ONLY <3>1
  <2> HIDE DEF Has
  <2> QED BY <2>1, <2>2
<1>4. \A k \in 0 .. n : Good(k) = {j \in 1 .. k : Has(j)}
  BY DEF Meaningful
<1> HIDE DEF Has, Good
<1>5. ASSUME NEW k \in 0 .. n PROVE IsFiniteSet(Good(k)) /\ Cardinality(Good(k)) \in Nat
  <2>1. IsFiniteSet(1 .. k) /\ Good(k) \subseteq 1 .. k
    BY <1>4, FS_Interval
  <2> QED BY <2>1, FS_Subset, FS_CardinalityType
\* One line more.
<1>6. ASSUME NEW k \in 1 .. n
      PROVE  /\ ~Has(k) => Good(k) = Good(k - 1)
             /\ Has(k) => /\ k \in Good(k) /\ Good(k) = Good(k - 1) \cup {k}
                          /\ Cardinality(Good(k)) = Cardinality(Good(k - 1)) + 1
  <2>1. k \in 0 .. n /\ k - 1 \in 0 .. n /\ \A j \in 1 .. k : j = k \/ j \in 1 .. k - 1
    OBVIOUS
  <2>2. ~Has(k) => Good(k) = Good(k - 1)
    <3>1. Good(k) = {j \in 1 .. k : Has(j)} /\ Good(k - 1) = {j \in 1 .. k - 1 : Has(j)}
      BY <1>4, <2>1
    <3>2. \A j \in 1 .. k - 1 : j \in 1 .. k
      OBVIOUS
    <3> QED BY <2>1, <3>1, <3>2
  <2>3. Has(k) => k \in Good(k) /\ Good(k) = Good(k - 1) \cup {k} /\ k \notin Good(k - 1)
    BY <1>4, <2>1
  <2> QED BY <1>5, <2>1, <2>2, <2>3, FS_AddElement
<1> DEFINE Count(k) == Cardinality(Good(k))
           Means(k) == /\ Len(f[k]) = Count(k)
                       /\ \A j \in Good(k) : /\ Count(j) \in 1 .. Count(k)
                                              /\ f[k][Count(j)] = Meant(lines, j)
           T == {k \in 0 .. n : Means(k)}
<1>7. \A k \in 0 .. n : Count(k) \in Nat
  BY <1>5
<1>8. 0 \in T
  <2>1. 0 \in 0 .. n /\ Good(0) = {}
    BY <1>4
  <2>2. Count(0) = 0
    BY <2>1, FS_EmptySet
  <2> QED BY <1>3, <2>1, <2>2
<1>9. ASSUME NEW i \in 0 .. n - 1, i \in T PROVE i + 1 \in T
  <2>1. PICK k \in 1 .. n : k = i + 1 /\ k - 1 = i /\ k \in 0 .. n
    <3>1. i + 1 \in 1 .. n /\ (i + 1) - 1 = i /\ i + 1 \in 0 .. n
      OBVIOUS
    <3> QED BY <3>1
  <2>2. Means(i) /\ i \in 0 .. n
    BY <1>9
  <2> HIDE DEF Count
  <2>3. CASE ~Has(k)
    <3>1. f[k] = f[i] /\ Good(k) = Good(i)
      BY <1>3, <1>6, <2>1, <2>3
    <3>2. Count(k) = Count(i)
      BY <3>1 DEF Count
    <3>3. Means(k)
      BY <2>2, <3>1, <3>2
    <3> QED BY <2>1, <3>3
  <2>4. CASE Has(k)
    <3>1. /\ k \in Good(k) /\ Good(k) = Good(i) \cup {k} /\ Count(k) = Count(i) + 1
      BY <1>6, <2>1, <2>4 DEF Count
    <3>2. PICK s \in Seq(S), x \in S : s = f[i] /\ x = Meant(lines, k) /\ f[k] = Append(s, x)
      BY <1>3, <2>1, <2>2, <2>4
    <3>3. /\ Len(Append(s, x)) = Len(s) + 1 /\ Append(s, x)[Len(s) + 1] = x
          /\ \A j \in 1 .. Len(s) : Append(s, x)[j] = s[j]
      BY ONLY AppendProperties, s \in Seq(S), x \in S
    <3>4. Len(s) = Count(i) /\ Count(i) \in Nat
      BY <1>7, <2>2, <3>2
    <3>5. Len(f[k]) = Count(k) /\ f[k][Count(k)] = Meant(lines, k)
      BY <3>1, <3>2, <3>3, <3>4
    <3>6. ASSUME NEW j \in Good(i)
          PROVE  Count(j) \in 1 .. Count(k) /\ f[k][Count(j)] = Meant(lines, j)
      <4>1. Count(j) \in 1 .. Count(i) /\ f[i][Count(j)] = Meant(lines, j)
        BY <2>2
      <4> QED BY <3>1, <3>2, <3>3, <3>4, <4>1
    <3>7. Count(k) \in 1 .. Count(k)
      BY <3>1, <3>4
    <3>8. Means(k)
      BY <3>1, <3>5, <3>6, <3>7
    <3> QED BY <2>1, <3>8
  <2> QED BY <2>3, <2>4
<1>10. Means(n)
  <2>1. 0 .. n \subseteq T
    <3> HIDE DEF T
    <3> QED BY <1>8, <1>9, L!InductionUpTo
  <2>2. n \in 0 .. n
    OBVIOUS
  <2> QED BY <2>1, <2>2
<1>11. \A k \in Good(n) : k \in 1 .. n /\ Has(k)
  BY <1>4
<1>12. ASSUME NEW k \in Good(n) PROVE LineMeaning(lines[k]) = {f[n][Cardinality(Good(k))]}
  <2>1. LineMeaning(lines[k]) = {Meant(lines, k)}
    <3>1. k \in 1 .. n /\ LineMeaning(lines[k]) # {}
      BY <1>11 DEF Has
    <3>2. LineMeaning(lines[k]) # {} => LineMeaning(lines[k]) = {Meant(lines, k)}
      BY <1>2, <3>1
    <3> QED BY ONLY <3>1, <3>2
  <2> QED BY <1>10, <2>1
<1> QED BY <1>10, <1>12 DEF Good

-----------------------------------------------------------------------------
(* Texts, put together and taken apart. *)

Comma == ","
Open  == "("
Close == ")"

\* The characters that structure a query, and the texts that have none of them.
Special == {Space, Tab, CR, "(", ")", ","}
Plain   == {text \in Text : text # <<>> /\ \A i \in 1 .. Len(text) : text[i] \notin Special}

\* What the parser makes names, terms and atoms of.
Names == {text \in Text : text # <<>> /\ \A i \in 1 .. Len(text) : IsAlnum(text[i])}
Idents ==
    {text \in Text :
        /\ text # <<>> /\ \A i \in 1 .. Len(text) : IsAlnum(text[i]) \/ text[i] = "_"
        /\ FromChars(text) = {}}
Terms == {Constant(v) : v \in 0 .. MaxUint} \cup {Variable(x) : x \in Idents}
Atoms == {Atom(name, l, r) : name \in Names, l \in Terms, r \in Terms}

LEMMA SpecialIs ==
    /\ Special \subseteq Char
    /\ \A c \in Special : ~IsAlnum(c) /\ c # "_"
    /\ \A c \in Digit : c \notin Special
    /\ Space \in Special /\ Tab \in Special /\ Open \in Special /\ Close \in Special /\ Comma \in Special
    /\ Open # Close /\ Open # Comma /\ Close # Comma /\ Space \notin {Open, Close, Comma}
<1>1. Special \subseteq White \cup {"(", ")", ",", "_"} /\ "_" \notin Special
  BY DEF Special, White, Space, Tab, CR
<1>2. Special \subseteq Char /\ \A c \in Special : c \notin Letter
  BY <1>1, ParserAssumption
<1>3. \A c \in Special : c \notin Digit
  BY NumeralIs DEF Special, Digit
<1>4. \A c \in Special : ~IsAlnum(c) /\ c # "_"
  BY <1>1, <1>2, <1>3 DEF IsAlnum
<1> QED BY <1>2, <1>3, <1>4 DEF Special, Space, Open, Close, Comma

LEMMA GreatestIs ==
    ASSUME NEW n \in Nat, NEW S \in SUBSET (0 .. n), S # {}
    PROVE  Max(S) \in S /\ \A x \in S : x <= Max(S)
<1> DEFINE T == {n - x : x \in S}
<1>1. T \in SUBSET Nat /\ T # {}
  <2>1. \A x \in S : n - x \in Nat
    OBVIOUS
  <2>2. PICK x : x \in S
    OBVIOUS
  <2> QED BY <2>1, <2>2
<1>2. PICK t \in T : \A u \in T : t <= u
  <2> HIDE DEF T
  <2> QED BY <1>1, L!LeastNumber
<1>3. PICK x \in S : t = n - x
  BY <1>2
<1>4. \A y \in S : x >= y
  <2> TAKE y \in S
  <2>1. n - y \in T
    OBVIOUS
  <2>2. n - x <= n - y /\ x \in 0 .. n /\ y \in 0 .. n
    BY <1>2, <1>3, <2>1
  <2> QED BY <2>2
<1>5. Max(S) \in S /\ \A y \in S : Max(S) >= y
  BY <1>4 DEF Max
<1>6. \A y \in S : y \in 0 .. n
  OBVIOUS
<1> QED BY <1>5, <1>6

\* Two texts in a row.
IsJoin(u, s, t, m, n) ==
    /\ u \in Text /\ Len(u) = m + n
    /\ \A i \in 1 .. m : u[i] = s[i]
    /\ \A i \in 1 .. n : u[m + i] = t[i]

LEMMA JoinIs ==
    ASSUME NEW s \in Text, NEW t \in Text, NEW u, u = s \o t,
           NEW m \in Nat, NEW n \in Nat, m = Len(s), n = Len(t)
    PROVE  IsJoin(u, s, t, m, n)
<1>1. s \in Seq(Char) /\ t \in Seq(Char)
  BY DEF Text
<1>2. /\ u \in Seq(Char) /\ Len(u) = m + n
      /\ \A i \in 1 .. m + n : u[i] = IF i <= m THEN s[i] ELSE t[i - m]
  BY ONLY <1>1, ConcatProperties, u = s \o t, m = Len(s), n = Len(t)
<1>3. \A i \in 1 .. m : u[i] = s[i]
  BY ONLY <1>2, m \in Nat, n \in Nat
<1>4. ASSUME NEW i \in 1 .. n PROVE u[m + i] = t[i]
  <2>1. m + i \in 1 .. m + n /\ ~(m + i <= m) /\ (m + i) - m = i
    BY ONLY m \in Nat, n \in Nat, i \in 1 .. n
  <2> QED BY ONLY <1>2, <2>1
<1> QED BY <1>2, <1>3, <1>4 DEF IsJoin, Text

\* A part is a text; it is t if it has the characters of t.
LEMMA PartType ==
    ASSUME NEW C, NEW text \in Seq(C), NEW m \in Nat \ {0}, NEW n \in Int, n <= Len(text)
    PROVE  SubSeq(text, m, n) \in Seq(C)
<1>1. m \in Int /\ n \in Int /\ \A i \in m .. n : text[i] \in C
  OBVIOUS
<1> QED BY ONLY <1>1, SubSeqProperties

LEMMA PartEquals ==
    ASSUME NEW C, NEW text \in Seq(C), NEW t \in Seq(C), NEW k \in Nat, NEW m \in Nat, NEW n \in Nat,
           n = Len(t), k = m + n, k <= Len(text), \A i \in 1 .. n : text[m + i] = t[i]
    PROVE  SubSeq(text, m + 1, k) = t
<1>1. PICK r : r = SubSeq(text, m + 1, k)
  OBVIOUS
<1>2. m + 1 \in Nat \ {0} /\ k \in Nat /\ k <= Len(text) /\ m + 1 <= k + 1
  OBVIOUS
<1>3. /\ r \in Seq(C) /\ Len(r) = k + 1 - (m + 1)
      /\ \A i \in 1 .. k + 1 - (m + 1) : r[i] = text[(m + 1) - 1 + i]
  BY ONLY <1>1, <1>2, PartIs, text \in Seq(C)
<1>4. k + 1 - (m + 1) = n /\ \A i \in 1 .. n : (m + 1) - 1 + i = m + i
  OBVIOUS
<1>5. Len(r) = n
  BY <1>3, <1>4
<1>6. ASSUME NEW i \in 1 .. n PROVE r[i] = t[i]
  <2>1. r[i] = text[(m + 1) - 1 + i] /\ (m + 1) - 1 + i = m + i
    BY ONLY <1>3, <1>4, i \in 1 .. n
  <2> QED BY ONLY <2>1, i \in 1 .. n, \A j \in 1 .. n : text[m + j] = t[j]
<1>7. Len(r) = Len(t) /\ \A i \in 1 .. Len(r) : r[i] = t[i]
  BY ONLY <1>5, <1>6, n = Len(t)
<1> QED BY ONLY <1>1, <1>3, <1>7, SeqEqual, t \in Seq(C)

\* What is left of a text: from the first character outside S to the last.
LEMMA TrimTo ==
    ASSUME NEW text \in Text, NEW S, NEW a \in 1 .. Len(text), NEW b \in a .. Len(text),
           text[a] \notin S, text[b] \notin S,
           \A i \in 1 .. Len(text) : text[i] \notin S => i \in a .. b
    PROVE  Trim(text, S) = SubSeq(text, a, b)
<1>1. PICK n \in Nat : n = Len(text) /\ DOMAIN text = 1 .. n
  BY DEF Text
<1> DEFINE kept == {i \in DOMAIN text : text[i] \notin S}
<1>2. a \in kept /\ b \in kept /\ \A i \in kept : a <= i /\ i <= b
  BY <1>1
<1>3. kept \in SUBSET (0 .. n) /\ kept \in SUBSET Nat /\ kept # {}
  BY <1>1, <1>2
<1>4. Trim(text, S) = SubSeq(text, Min(kept), Max(kept))
  BY <1>2 DEF Trim
<1> HIDE DEF kept
<1>5. /\ Min(kept) \in kept /\ \A x \in kept : Min(kept) <= x
      /\ Max(kept) \in kept /\ \A x \in kept : x <= Max(kept)
  BY <1>3, LeastIs, GreatestIs
<1>6. Min(kept) = a /\ Max(kept) = b
  <2>1. PICK c \in Nat, d \in Nat : c = Min(kept) /\ d = Max(kept)
    BY <1>3, <1>5
  <2>2. PICK x \in Nat, y \in Nat : x = a /\ y = b
    BY <1>2, <1>3
  <2>3. c <= x /\ x <= c /\ d <= y /\ y <= d
    BY ONLY <1>2, <1>5, <2>1, <2>2
  <2>4. c = x /\ d = y
    BY ONLY <2>3, c \in Nat, d \in Nat, x \in Nat, y \in Nat
  <2> QED BY ONLY <2>1, <2>2, <2>4
<1> QED BY <1>4, <1>6

LEMMA TrimType ==
    ASSUME NEW text \in Text, NEW S
    PROVE  Trim(text, S) \in Text
<1>1. PICK n \in Nat : n = Len(text) /\ DOMAIN text = 1 .. n
  BY DEF Text
<1> DEFINE kept == {i \in DOMAIN text : text[i] \notin S}
<1>2. CASE kept = {}
  <2>1. Trim(text, S) = <<>>
    BY <1>2 DEF Trim
  <2> QED BY <2>1, EmptySeq DEF Text
<1>3. CASE kept # {}
  <2>1. Trim(text, S) = SubSeq(text, Min(kept), Max(kept))
    BY <1>3 DEF Trim
  <2>2. kept \in SUBSET (0 .. n) /\ kept \in SUBSET Nat /\ kept \in SUBSET (1 .. n)
    BY <1>1
  <2> HIDE DEF kept
  <2>3. Min(kept) \in 1 .. n /\ Max(kept) \in 1 .. n
    BY <1>3, <2>2, LeastIs, GreatestIs
  <2>4. PICK a \in 1 .. n, b \in 1 .. n : a = Min(kept) /\ b = Max(kept)
    BY <2>3
  <2>5. a \in Nat \ {0} /\ b \in Int /\ b <= Len(text) /\ text \in Seq(Char)
    BY <1>1, <2>4 DEF Text
  <2>6. SubSeq(text, a, b) \in Seq(Char)
    BY ONLY <2>5, PartType
  <2> QED BY <2>1, <2>4, <2>6 DEF Text
<1> QED BY <1>2, <1>3

\* Nothing is trimmed off a text with neither a blank first nor one last, and
\* one blank off one with one before it.
LEMMA TrimPlain ==
    ASSUME NEW text \in Text, text # <<>>, NEW S, text[1] \notin S, text[Len(text)] \notin S
    PROVE  Trim(text, S) = text
<1>1. PICK n \in Nat \ {0} : n = Len(text)
  BY DEF Text
<1>2. 1 \in 1 .. n /\ n \in 1 .. n /\ \A i \in 1 .. n : i \in 1 .. n
  BY <1>1
<1>3. Trim(text, S) = SubSeq(text, 1, n)
  BY <1>1, <1>2, TrimTo
<1> QED BY <1>1, <1>3, SubSeqFull DEF Text

LEMMA TrimBlank ==
    ASSUME NEW text \in Plain, NEW more \in Text, NEW n \in Nat, n = Len(text),
           Len(more) = n + 1, more[1] = Space, \A i \in 1 .. n : more[1 + i] = text[i]
    PROVE  Trim(more, {Space}) = text
<1>1. n # 0
  BY DEF Plain, Text
<1>2. \A i \in 1 .. n : text[i] # Space
  BY SpecialIs DEF Plain
<1>3. 1 + n = n + 1 /\ 1 \in 1 .. n /\ n \in 1 .. n
  BY <1>1
<1>4. 1 + 1 \in 1 .. Len(more) /\ n + 1 \in 1 + 1 .. Len(more)
  BY <1>1
<1>5. more[1 + 1] \notin {Space} /\ more[n + 1] \notin {Space}
  BY <1>2, <1>3
<1>6. \A i \in 1 .. Len(more) : more[i] \notin {Space} => i \in 1 + 1 .. n + 1
  OBVIOUS
<1>7. Trim(more, {Space}) = SubSeq(more, 1 + 1, n + 1)
  BY ONLY <1>4, <1>5, <1>6, TrimTo, more \in Text
<1>8. SubSeq(more, 1 + 1, n + 1) = text
  <2>1. more \in Seq(Char) /\ text \in Seq(Char) /\ n + 1 <= Len(more) /\ n + 1 = 1 + n /\ n + 1 \in Nat /\ 1 \in Nat
    BY DEF Plain, Text
  <2> QED BY ONLY <2>1, PartEquals, n \in Nat, n = Len(text), \A i \in 1 .. n : more[1 + i] = text[i]
<1> QED BY ONLY <1>7, <1>8

-----------------------------------------------------------------------------
(* Terms. *)

LEMMA DecimalReads ==
    ASSUME NEW v \in 0 .. MaxUint
    PROVE  /\ Decimal[v] \in Plain /\ FromChars(Decimal[v]) = {v}
<1>1. MaxUint \in Nat
  BY ParserAssumption
<1>2. v \in Nat
  BY <1>1
<1>3. PICK d \in Digits : d = Decimal[v] /\ d # <<>>
  BY <1>2, DecimalIs
<1>4. d \in Text
  BY <1>3, DigitIs DEF Digits, Text
<1>5. d \in Plain
  <2>1. \A i \in 1 .. Len(d) : d[i] \in Digit
    BY <1>3 DEF Digits
  <2> QED BY <1>3, <1>4, <2>1, SpecialIs DEF Plain
<1>6. Spells(d, v)
  <2>1. 0 \in 0 .. Len(d)
    BY <1>3 DEF Digits
  <2>2. SubSeq(d, 0 + 1, Len(d)) = d
    <3>1. SubSeq(d, 1, Len(d)) = d /\ 0 + 1 = 1
      BY <1>4, SubSeqFull DEF Text
    <3> QED BY <3>1
  <2>3. \A i \in 1 .. 0 : FALSE
    OBVIOUS
  <2> QED BY <1>3, <2>1, <2>2, <2>3 DEF Spells
<1>7. \A u \in Nat : Spells(d, u) <=> Value(d) = u
  BY <1>3, SpellsValue
<1>8. Value(d) = v
  BY <1>2, <1>6, <1>7
<1>9. \A u \in 0 .. MaxUint : u \in Nat
  BY <1>1
<1>10. FromChars(d) = {u \in 0 .. MaxUint : Spells(d, u)}
  BY <1>4, FromCharsIs
<1> QED BY <1>3, <1>5, <1>7, <1>8, <1>9, <1>10

\* What the parser makes of a text is a term.
LEMMA ParsesToTerms ==
    ASSUME NEW text \in Text
    PROVE  ParseTerm(text) \subseteq Terms
<1>1. PICK sv \in Text : sv = Trim(text, {Space})
  BY TrimType
<1>2. FromChars(sv) \subseteq 0 .. MaxUint
  BY FromCharsIs
<1>3. ASSUME sv # <<>>, FromChars(sv) = {}, \A i \in DOMAIN sv : IsAlnum(sv[i]) \/ sv[i] = "_"
      PROVE  sv \in Idents
  <2>1. DOMAIN sv = 1 .. Len(sv)
    BY DEF Text
  <2> QED BY <1>3, <2>1 DEF Idents
<1>4. ASSUME NEW t \in ParseTerm(text)
      PROVE  (\E v \in FromChars(sv) : t = Constant(v)) \/ (t = Variable(sv) /\ sv \in Idents)
  BY <1>1, <1>3, <1>4 DEF ParseTerm, AllOf
<1> QED BY <1>2, <1>4 DEF Terms

\* A term is printed plainly, and what is printed is read as the term.
LEMMA TermReads ==
    ASSUME NEW t \in Terms
    PROVE  /\ TermString(t) \in Plain
           /\ \A text \in Text : Trim(text, {Space}) = TermString(t) => ParseTerm(text) = {t}
<1>1. CASE \E v \in 0 .. MaxUint : t = Constant(v)
  <2>1. PICK v \in 0 .. MaxUint : t = Constant(v)
    BY <1>1
  <2>2. TermString(t) = Decimal[v]
    BY <2>1 DEF Constant, TermString
  <2>3. PICK d \in Plain : d = Decimal[v] /\ FromChars(d) = {v} /\ d # <<>>
    BY DecimalReads DEF Plain
  <2>4. ASSUME NEW text \in Text, Trim(text, {Space}) = d PROVE ParseTerm(text) = {t}
    <3>1. ParseTerm(text) = {Constant(u) : u \in FromChars(d)}
      BY <2>3, <2>4 DEF ParseTerm
    <3> QED BY <2>1, <2>3, <3>1
  <2> QED BY <2>2, <2>3, <2>4
<1>2. CASE \E x \in Idents : t = Variable(x)
  <2>1. PICK x \in Idents : t = Variable(x)
    BY <1>2
  <2>2. TermString(t) = x
    BY <2>1 DEF Variable, TermString
  <2>3. /\ x \in Text /\ x # <<>> /\ FromChars(x) = {}
        /\ \A i \in 1 .. Len(x) : IsAlnum(x[i]) \/ x[i] = "_"
    BY DEF Idents
  <2>4. x \in Plain
    BY <2>3, SpecialIs DEF Plain
  <2>5. ASSUME NEW text \in Text, Trim(text, {Space}) = x PROVE ParseTerm(text) = {t}
    <3>1. AllOf(x, LAMBDA c : IsAlnum(c) \/ c = "_")
      <4>1. x \in Seq(Char)
        BY <2>3 DEF Text
      <4>2. DOMAIN x = 1 .. Len(x)
        BY ONLY <4>1
      <4> QED BY <2>3, <4>2 DEF AllOf
    <3>2. ParseTerm(text) = {Variable(x)}
      BY <2>3, <2>5, <3>1 DEF ParseTerm
    <3> QED BY <2>1, <3>2
  <2> QED BY <2>2, <2>4, <2>5
<1> QED BY <1>1, <1>2 DEF Terms

-----------------------------------------------------------------------------
(* Atoms. *)

\* The name and the arguments of an atom.
NameIn(sv) == Trim(SubSeq(sv, 1, Min(Positions(sv, Open)) - 1), {Space})
ArgsIn(sv) == SubSeq(sv, Min(Positions(sv, Open)) + 1, Len(sv) - 1)

ParsedAs(text, sv) ==
    ParseAtom(text) =
        IF Positions(sv, Open) = {} \/ sv[Len(sv)] # Close \/ ~IsRelationName(NameIn(sv)) THEN {}
        ELSE {Atom(NameIn(sv), args[1], args[2]) : args \in ParseArgs(ArgsIn(sv))}

LEMMA ParseAtomIs ==
    ASSUME NEW text
    PROVE  ParsedAs(text, Trim(text, {Space}))
BY DEF ParsedAs, ParseAtom, NameIn, ArgsIn, Open, Close

LEMMA ParseArgsIs ==
    ASSUME NEW args
    PROVE  ParseArgs(args) =
               IF Positions(args, Comma) = {} THEN {}
               ELSE ParseTerm(SubSeq(args, 1, Min(Positions(args, Comma)) - 1))
                        \X ParseTerm(SubSeq(args, Min(Positions(args, Comma)) + 1, Len(args)))
BY DEF ParseArgs, Comma

\* The first place of a character.
LEMMA PlaceIs ==
    ASSUME NEW s \in Text, NEW c, Positions(s, c) # {}
    PROVE  Min(Positions(s, c)) \in 1 .. Len(s)
<1>1. Positions(s, c) \in SUBSET Nat /\ Positions(s, c) \in SUBSET (1 .. Len(s))
  BY DEF Positions, Text
<1> QED BY <1>1, LeastIs

LEMMA PartsType ==
    ASSUME NEW s \in Text, NEW i \in 1 .. Len(s), NEW n \in Int, n <= Len(s)
    PROVE  SubSeq(s, 1, i - 1) \in Text /\ SubSeq(s, i + 1, n) \in Text
<1>1. /\ s \in Seq(Char) /\ 1 \in Nat \ {0} /\ i - 1 \in Int /\ i - 1 <= Len(s)
      /\ i + 1 \in Nat \ {0} /\ n \in Int /\ n <= Len(s)
  BY DEF Text
<1>2. SubSeq(s, 1, i - 1) \in Seq(Char)
  BY ONLY <1>1, PartType
<1>3. SubSeq(s, i + 1, n) \in Seq(Char)
  BY ONLY <1>1, PartType
<1> QED BY <1>2, <1>3 DEF Text

\* What the parser makes of a text is an atom.
LEMMA ParsesToAtoms ==
    ASSUME NEW text \in Text
    PROVE  ParseAtom(text) \subseteq Atoms
<1>1. SUFFICES ASSUME NEW a \in ParseAtom(text) PROVE a \in Atoms
  OBVIOUS
<1>2. PICK sv \in Text : sv = Trim(text, {Space})
  BY TrimType
<1>3. /\ Positions(sv, Open) # {} /\ IsRelationName(NameIn(sv))
      /\ a \in {Atom(NameIn(sv), args[1], args[2]) : args \in ParseArgs(ArgsIn(sv))}
  <2>1. ParseAtom(text) =
            IF Positions(sv, Open) = {} \/ sv[Len(sv)] # Close \/ ~IsRelationName(NameIn(sv)) THEN {}
            ELSE {Atom(NameIn(sv), args[1], args[2]) : args \in ParseArgs(ArgsIn(sv))}
    <3>1. ParsedAs(text, sv)
      BY ONLY <1>2, ParseAtomIs
    <3> QED BY <3>1 DEF ParsedAs
  <2> QED BY <1>1, <2>1
<1>4. PICK args \in ParseArgs(ArgsIn(sv)) : a = Atom(NameIn(sv), args[1], args[2])
  BY <1>3
<1>5. NameIn(sv) \in Text /\ ArgsIn(sv) \in Text
  <2>1. PICK i \in 1 .. Len(sv) : i = Min(Positions(sv, Open))
    BY <1>3, PlaceIs
  <2>2. Len(sv) - 1 \in Int /\ Len(sv) - 1 <= Len(sv)
    BY DEF Text
  <2>3. SubSeq(sv, 1, i - 1) \in Text /\ SubSeq(sv, i + 1, Len(sv) - 1) \in Text
    BY ONLY <2>2, PartsType, i \in 1 .. Len(sv), sv \in Text
  <2> QED BY <2>1, <2>3, TrimType DEF NameIn, ArgsIn
<1>6. NameIn(sv) \in Names
  <2>1. PICK name \in Text : name = NameIn(sv)
    BY <1>5
  <2>2. name # <<>> /\ \A i \in DOMAIN name : IsAlnum(name[i])
    BY <1>3, <2>1 DEF IsRelationName, AllOf
  <2>3. DOMAIN name = 1 .. Len(name)
    BY DEF Text
  <2> QED BY <2>1, <2>2, <2>3 DEF Names
<1>7. args[1] \in Terms /\ args[2] \in Terms
  <2>1. PICK t \in Text : t = ArgsIn(sv)
    BY <1>5
  <2>2. /\ Positions(t, Comma) # {}
        /\ args \in ParseTerm(SubSeq(t, 1, Min(Positions(t, Comma)) - 1))
                       \X ParseTerm(SubSeq(t, Min(Positions(t, Comma)) + 1, Len(t)))
    BY <1>4, <2>1, ParseArgsIs
  <2>3. PICK i \in 1 .. Len(t) : i = Min(Positions(t, Comma))
    BY <2>2, PlaceIs
  <2>4. Len(t) \in Int /\ Len(t) <= Len(t)
    BY DEF Text
  <2>5. SubSeq(t, 1, i - 1) \in Text /\ SubSeq(t, i + 1, Len(t)) \in Text
    BY ONLY <2>4, PartsType, i \in 1 .. Len(t), t \in Text
  <2> QED BY <2>2, <2>3, <2>5, ParsesToTerms
<1> QED BY <1>4, <1>6, <1>7 DEF Atoms

\* An atom's text, character by character: p of its name, q and r of its terms.
Shape(s, name, l, r, p, q, m) ==
    /\ s \in Text /\ Len(s) = p + q + m + 4
    /\ \A i \in 1 .. p : s[i] = name[i]
    /\ s[p + 1] = Open
    /\ \A i \in 1 .. q : s[p + 1 + i] = l[i]
    /\ s[p + q + 2] = Comma /\ s[p + q + 3] = Space
    /\ \A i \in 1 .. m : s[p + q + 3 + i] = r[i]
    /\ s[p + q + m + 4] = Close

LEMMA AtomShape ==
    ASSUME NEW a \in Atoms, NEW name, NEW l, NEW r, NEW p \in Nat, NEW q \in Nat, NEW m \in Nat,
           name = a.relation, l = TermString(a.left), r = TermString(a.right),
           p = Len(name), q = Len(l), m = Len(r)
    PROVE  /\ name \in Names /\ a.left \in Terms /\ a.right \in Terms /\ l \in Plain /\ r \in Plain
           /\ a = Atom(name, a.left, a.right)
           /\ Shape(AtomString(a), name, l, r, p, q, m)
<1>1. name \in Names /\ a.left \in Terms /\ a.right \in Terms /\ a = Atom(name, a.left, a.right)
  BY DEF Atoms, Atom
<1>2. l \in Plain /\ r \in Plain
  BY <1>1, TermReads
<1>3. name \in Text /\ l \in Text /\ r \in Text
  BY <1>1, <1>2 DEF Names, Plain
<1>4. Open \in Char /\ Comma \in Char /\ Space \in Char /\ Close \in Char
  BY SpecialIs
<1>5. PICK o, c, d : o = <<Open>> /\ c = <<Comma, Space>> /\ d = <<Close>>
  OBVIOUS
<1>6. /\ o \in Text /\ 1 = Len(o) /\ o[1] = Open
      /\ c \in Text /\ 2 = Len(c) /\ c[1] = Comma /\ c[2] = Space
      /\ d \in Text /\ 1 = Len(d) /\ d[1] = Close
  BY <1>4, <1>5 DEF Text
<1>7. PICK s1, s2, s3, s4, s5 :
          s1 = name \o o /\ s2 = s1 \o l /\ s3 = s2 \o c /\ s4 = s3 \o r /\ s5 = s4 \o d
  OBVIOUS
<1>8. AtomString(a) = s5
  BY <1>5, <1>7 DEF AtomString, Open, Comma, Close
<1> DEFINE e == p + 1
           f == e + q
           g == f + 2
           h == g + m
<1>9. e \in Nat /\ f \in Nat /\ g \in Nat /\ h \in Nat /\ 1 \in Nat /\ 2 \in Nat
  BY ONLY p \in Nat, q \in Nat, m \in Nat
<1> HIDE DEF e, f, g, h
<1>10. IsJoin(s1, name, o, p, 1) /\ s1 \in Text /\ e = Len(s1)
  <2>1. IsJoin(s1, name, o, p, 1)
    BY ONLY <1>3, <1>6, <1>7, <1>9, JoinIs, p \in Nat, p = Len(name)
  <2> QED BY <2>1 DEF IsJoin, e
<1>11. IsJoin(s2, s1, l, e, q) /\ s2 \in Text /\ f = Len(s2)
  <2>1. IsJoin(s2, s1, l, e, q)
    BY ONLY <1>3, <1>7, <1>10, <1>9, JoinIs, q \in Nat, q = Len(l)
  <2> QED BY <2>1 DEF IsJoin, f
<1>12. IsJoin(s3, s2, c, f, 2) /\ s3 \in Text /\ g = Len(s3)
  <2>1. IsJoin(s3, s2, c, f, 2)
    BY ONLY <1>6, <1>7, <1>11, <1>9, JoinIs
  <2> QED BY <2>1 DEF IsJoin, g
<1>13. IsJoin(s4, s3, r, g, m) /\ s4 \in Text /\ h = Len(s4)
  <2>1. IsJoin(s4, s3, r, g, m)
    BY ONLY <1>3, <1>7, <1>12, <1>9, JoinIs, m \in Nat, m = Len(r)
  <2> QED BY <2>1 DEF IsJoin, h
<1>14. IsJoin(s5, s4, d, h, 1)
  BY ONLY <1>6, <1>7, <1>13, <1>9, JoinIs
<1>15. e = p + 1 /\ f = p + q + 1 /\ g = p + q + 3 /\ h = p + q + m + 3
  BY ONLY p \in Nat, q \in Nat, m \in Nat DEF e, f, g, h
<1>16. ASSUME NEW i \in 1 .. p PROVE s5[i] = name[i]
  <2>1. i \in 1 .. p /\ i \in 1 .. e /\ i \in 1 .. f /\ i \in 1 .. g /\ i \in 1 .. h
    BY ONLY <1>15, p \in Nat, q \in Nat, m \in Nat, i \in 1 .. p
  <2> QED BY ONLY <1>10, <1>11, <1>12, <1>13, <1>14, <2>1 DEF IsJoin
<1>17. s5[p + 1] = Open
  <2>1. /\ p + 1 \in 1 .. e /\ p + 1 \in 1 .. f /\ p + 1 \in 1 .. g /\ p + 1 \in 1 .. h
        /\ 1 \in 1 .. 1
    BY ONLY <1>15, p \in Nat, q \in Nat, m \in Nat
  <2> QED BY ONLY <1>6, <1>10, <1>11, <1>12, <1>13, <1>14, <2>1 DEF IsJoin
<1>18. ASSUME NEW i \in 1 .. q PROVE s5[p + 1 + i] = l[i]
  <2>1. /\ e + i \in 1 .. f /\ e + i \in 1 .. g /\ e + i \in 1 .. h /\ e + i = p + 1 + i
    BY ONLY <1>15, p \in Nat, q \in Nat, m \in Nat, i \in 1 .. q
  <2> QED BY ONLY <1>11, <1>12, <1>13, <1>14, <2>1, i \in 1 .. q DEF IsJoin
<1>19. s5[p + q + 2] = Comma /\ s5[p + q + 3] = Space
  <2>1. /\ f + 1 = p + q + 2 /\ f + 2 = p + q + 3 /\ 1 \in 1 .. 2 /\ 2 \in 1 .. 2
        /\ f + 1 \in 1 .. g /\ f + 2 \in 1 .. g /\ f + 1 \in 1 .. h /\ f + 2 \in 1 .. h
    BY ONLY <1>15, p \in Nat, q \in Nat, m \in Nat
  <2> QED BY ONLY <1>6, <1>12, <1>13, <1>14, <2>1 DEF IsJoin
<1>20. ASSUME NEW i \in 1 .. m PROVE s5[p + q + 3 + i] = r[i]
  <2>1. g + i \in 1 .. h /\ g + i = p + q + 3 + i
    BY ONLY <1>15, p \in Nat, q \in Nat, m \in Nat, i \in 1 .. m
  <2> QED BY ONLY <1>13, <1>14, <2>1, i \in 1 .. m DEF IsJoin
<1>21. s5 \in Text /\ s5[p + q + m + 4] = Close /\ Len(s5) = p + q + m + 4
  <2>1. h + 1 = p + q + m + 4 /\ 1 \in 1 .. 1
    BY ONLY <1>15, p \in Nat, q \in Nat, m \in Nat
  <2> QED BY ONLY <1>6, <1>14, <2>1 DEF IsJoin
<1> QED BY <1>1, <1>2, <1>8, <1>17, <1>18, <1>19, <1>20, <1>21, <1>16 DEF Shape


LEMMA PlainIs ==
    ASSUME NEW text \in Plain
    PROVE  /\ text \in Text /\ Len(text) \in Nat \ {0} /\ Trim(text, {Space}) = text
           /\ \A i \in 1 .. Len(text) : text[i] \notin Special
<1>1. text \in Text /\ text # <<>> /\ \A i \in 1 .. Len(text) : text[i] \notin Special
  BY DEF Plain
<1>2. Len(text) \in Nat \ {0}
  BY <1>1 DEF Text
<1>3. text[1] \notin Special /\ text[Len(text)] \notin Special
  BY <1>1, <1>2
<1>4. text[1] \notin {Space} /\ text[Len(text)] \notin {Space}
  BY <1>3, SpecialIs
<1> QED BY <1>1, <1>2, <1>4, TrimPlain

LEMMA NamesArePlain == Names \subseteq Plain
<1>1. ASSUME NEW x \in Names PROVE x \in Plain
  <2>1. x \in Text /\ x # <<>> /\ \A i \in 1 .. Len(x) : IsAlnum(x[i])
    BY DEF Names
  <2> QED BY <2>1, SpecialIs DEF Plain
<1> QED BY <1>1

\* The only place of a character is the first.
LEMMA OnePlace ==
    ASSUME NEW s \in Text, NEW c, NEW i \in 1 .. Len(s), \A j \in 1 .. Len(s) : s[j] = c <=> j = i
    PROVE  Positions(s, c) # {} /\ Min(Positions(s, c)) = i
<1>1. Positions(s, c) = {i} /\ i \in Nat
  BY DEF Positions, Text
<1>2. {i} \in SUBSET Nat /\ {i} # {}
  BY <1>1
<1>3. Min({i}) \in {i}
  BY ONLY <1>2, LeastIs
<1> QED BY <1>1, <1>3

\* The arguments of an atom are read as its terms.
ArgText(args, a, b, q, m) ==
    /\ args \in Text /\ Len(args) = q + m + 2
    /\ q = Len(TermString(a)) /\ m = Len(TermString(b))
    /\ \A i \in 1 .. q : args[i] = TermString(a)[i]
    /\ args[q + 1] = Comma /\ args[q + 2] = Space
    /\ \A i \in 1 .. m : args[q + 2 + i] = TermString(b)[i]

LEMMA ArgsRead ==
    ASSUME NEW a \in Terms, NEW b \in Terms, NEW q \in Nat, NEW m \in Nat, NEW args,
           ArgText(args, a, b, q, m)
    PROVE  ParseArgs(args) = {<<a, b>>}
<1> USE DEF ArgText
<1>1. PICK l \in Plain, r \in Plain : l = TermString(a) /\ r = TermString(b)
  BY TermReads
<1>2. /\ \A i \in 1 .. q : l[i] \notin Special
      /\ \A i \in 1 .. m : r[i] \notin Special
      /\ l \in Seq(Char) /\ r \in Seq(Char) /\ Trim(l, {Space}) = l
  BY <1>1, PlainIs DEF Text
<1>3. \A j \in 1 .. q + m + 2 : args[j] = Comma <=> j = q + 1
  <2> TAKE j \in 1 .. q + m + 2
  <2>1. CASE j \in 1 .. q
    <3>1. args[j] \notin Special /\ j # q + 1
      BY <1>1, <1>2, <2>1
    <3> QED BY <3>1, SpecialIs
  <2>2. CASE j = q + 1
    BY <2>2
  <2>3. CASE j = q + 2
    BY <2>3, SpecialIs
  <2>4. CASE j - (q + 2) \in 1 .. m
    <3>1. PICK i \in 1 .. m : j = q + 2 + i /\ j # q + 1
      <4>1. j = q + 2 + (j - (q + 2)) /\ j # q + 1
        BY ONLY <2>4, q \in Nat, m \in Nat, j \in 1 .. q + m + 2
      <4> QED BY <2>4, <4>1
    <3>2. args[j] \notin Special
      BY <1>1, <1>2, <3>1
    <3> QED BY <3>1, <3>2, SpecialIs
  <2>5. j \in 1 .. q \/ j = q + 1 \/ j = q + 2 \/ j - (q + 2) \in 1 .. m
    BY ONLY q \in Nat, m \in Nat, j \in 1 .. q + m + 2
  <2> QED BY <2>1, <2>2, <2>3, <2>4, <2>5
<1>4. Positions(args, Comma) # {} /\ Min(Positions(args, Comma)) = q + 1
  <2>1. q + 1 \in 1 .. Len(args)
    BY ONLY q \in Nat, m \in Nat, ArgText(args, a, b, q, m)
  <2>2. \A j \in 1 .. Len(args) : args[j] = Comma <=> j = q + 1
    BY ONLY <1>3, ArgText(args, a, b, q, m)
  <2>3. args \in Text
    OBVIOUS
  <2> QED BY ONLY <2>1, <2>2, <2>3, OnePlace
<1>5. SubSeq(args, 1, (q + 1) - 1) = l
  <2>1. /\ args \in Seq(Char) /\ 0 \in Nat /\ q = Len(l) /\ q <= Len(args) /\ q = 0 + q
        /\ \A i \in 1 .. q : args[0 + i] = l[i]
    BY <1>1 DEF Text
  <2>2. SubSeq(args, 0 + 1, q) = l
    BY ONLY <1>2, <2>1, PartEquals, q \in Nat
  <2>3. 0 + 1 = 1 /\ (q + 1) - 1 = q
    OBVIOUS
  <2> QED BY <2>2, <2>3
<1>6. PICK more : more = SubSeq(args, (q + 1) + 1, Len(args))
  OBVIOUS
<1>7. /\ more \in Text /\ Len(more) = m + 1 /\ more[1] = Space
      /\ \A i \in 1 .. m : more[1 + i] = r[i]
  <2>1. /\ args \in Seq(Char) /\ (q + 1) + 1 \in Nat \ {0} /\ Len(args) \in Nat
        /\ Len(args) <= Len(args) /\ (q + 1) + 1 <= Len(args) + 1
    BY DEF Text
  <2>2. /\ more \in Seq(Char) /\ Len(more) = Len(args) + 1 - ((q + 1) + 1)
        /\ \A i \in 1 .. Len(args) + 1 - ((q + 1) + 1) : more[i] = args[((q + 1) + 1) - 1 + i]
    BY ONLY <1>6, <2>1, PartIs
  <2>3. Len(args) + 1 - ((q + 1) + 1) = m + 1 /\ \A i \in 1 .. m + 1 : ((q + 1) + 1) - 1 + i = q + 1 + i
    BY ONLY q \in Nat, m \in Nat, ArgText(args, a, b, q, m)
  <2>4. \A i \in 1 .. m + 1 : more[i] = args[q + 1 + i]
    BY ONLY <2>2, <2>3
  <2>5. more[1] = args[q + 2]
    <3>1. 1 \in 1 .. m + 1 /\ q + 1 + 1 = q + 2
      BY ONLY q \in Nat, m \in Nat
    <3> QED BY ONLY <2>4, <3>1
  <2>6. ASSUME NEW i \in 1 .. m PROVE more[1 + i] = r[i]
    <3>1. 1 + i \in 1 .. m + 1 /\ q + 1 + (1 + i) = q + 2 + i
      BY ONLY q \in Nat, m \in Nat, i \in 1 .. m
    <3>2. more[1 + i] = args[q + 2 + i]
      BY ONLY <2>4, <3>1
    <3> QED BY <1>1, <3>2
  <2> QED BY <2>2, <2>3, <2>5, <2>6 DEF Text
<1>8. Trim(more, {Space}) = r
  <2>1. m = Len(r)
    BY <1>1
  <2> QED BY ONLY <1>1, <1>7, <2>1, TrimBlank, m \in Nat
<1>9. ParseTerm(l) = {a} /\ ParseTerm(more) = {b}
  <2>1. l \in Text
    BY PlainIs
  <2> QED BY <1>1, <1>2, <1>7, <1>8, <2>1, TermReads
<1>10. ParseArgs(args) = ParseTerm(l) \X ParseTerm(more)
  BY <1>4, <1>5, <1>6, ParseArgsIs
<1> QED BY <1>9, <1>10

\* How an atom's text s looks, and what it is read as: the parenthesis is at o, the
\* comma at c, and the other parenthesis is the last of its n characters.
AtomText(s, a, n, o, c) ==
    /\ s = AtomString(a) /\ s \in Text /\ n = Len(s) /\ 1 < o /\ o < c /\ c < n
    /\ s[1] \notin Special
    /\ \A i \in 1 .. n : /\ s[i] = Open <=> i = o
                         /\ s[i] = Close <=> i = n
                         /\ s[i] = Comma <=> i = c
    /\ ParseAtom(s) = {a}

LEMMA AtomReads ==
    ASSUME NEW a \in Atoms
    PROVE  \E s \in Text, n \in Nat, o \in Nat, c \in Nat : AtomText(s, a, n, o, c)
<1>1. PICK s, name, l, r :
          s = AtomString(a) /\ name = a.relation /\ l = TermString(a.left) /\ r = TermString(a.right)
  OBVIOUS
<1>2. name \in Plain /\ l \in Plain /\ r \in Plain
  <2>1. a.relation \in Names /\ a.left \in Terms /\ a.right \in Terms
    BY DEF Atoms, Atom
  <2> QED BY <1>1, <2>1, NamesArePlain, TermReads
<1>3. PICK p \in Nat \ {0}, q \in Nat \ {0}, m \in Nat \ {0} : p = Len(name) /\ q = Len(l) /\ m = Len(r)
  BY <1>2, PlainIs
<1>4. /\ name \in Names /\ a.left \in Terms /\ a.right \in Terms /\ a = Atom(name, a.left, a.right)
      /\ Shape(s, name, l, r, p, q, m)
  BY <1>1, <1>3, AtomShape
<1> DEFINE n == p + q + m + 4
           o == p + 1
           c == p + q + 2
<1>5. n \in Nat /\ o \in Nat /\ c \in Nat /\ 1 < o /\ o < c /\ c < n
  BY <1>3
<1>6. s \in Text /\ Len(s) = n /\ s[o] = Open /\ s[c] = Comma /\ s[n] = Close
  BY <1>4 DEF Shape
<1>7. /\ \A i \in 1 .. p : s[i] \notin Special
      /\ \A i \in 1 .. q : s[p + 1 + i] \notin Special
      /\ \A i \in 1 .. m : s[p + q + 3 + i] \notin Special
      /\ s[p + q + 3] = Space
  BY <1>2, <1>3, <1>4, PlainIs DEF Shape
<1>8. ASSUME NEW i \in 1 .. n
      PROVE  i = o \/ i = c \/ i = n \/ s[i] = Space \/ s[i] \notin Special
  <2>1. \/ i \in 1 .. p \/ i = o \/ i - (p + 1) \in 1 .. q \/ i = c \/ i = p + q + 3
        \/ i - (p + q + 3) \in 1 .. m \/ i = n
    BY ONLY p \in Nat, q \in Nat, m \in Nat, i \in 1 .. n
  <2>2. (p + 1) + (i - (p + 1)) = i /\ (p + q + 3) + (i - (p + q + 3)) = i
    BY ONLY p \in Nat, q \in Nat, m \in Nat, i \in 1 .. n
  <2>3. CASE i - (p + 1) \in 1 .. q
    BY <1>7, <2>2, <2>3
  <2>4. CASE i - (p + q + 3) \in 1 .. m
    BY <1>7, <2>2, <2>4
  <2> QED BY <1>7, <2>1, <2>3, <2>4
<1>9. \A i \in 1 .. n : /\ s[i] = Open <=> i = o
                        /\ s[i] = Close <=> i = n
                        /\ s[i] = Comma <=> i = c
  BY <1>5, <1>6, <1>8, SpecialIs
<1>10. s[1] \notin Special /\ s[1] \notin {Space} /\ s[Len(s)] \notin {Space}
  <2>1. 1 \in 1 .. p
    BY ONLY p \in Nat \ {0}
  <2>2. s[1] \notin Special /\ s[Len(s)] = Close
    BY ONLY <1>6, <1>7, <2>1
  <2> QED BY <2>2, SpecialIs
<1>11. Trim(s, {Space}) = s
  <2>1. s # <<>>
    BY <1>5, <1>6
  <2> QED BY <1>6, <1>10, <2>1, TrimPlain
<1>12. Positions(s, Open) # {} /\ Min(Positions(s, Open)) = p + 1
  <2>1. o \in 1 .. Len(s)
    BY <1>5, <1>6
  <2> HIDE DEF o, n
  <2>2. Positions(s, Open) # {} /\ Min(Positions(s, Open)) = o
    BY <1>6, <1>9, <2>1, OnePlace
  <2> QED BY <2>2 DEF o
<1>13. NameIn(s) = name
  <2>1. /\ s \in Seq(Char) /\ name \in Seq(Char) /\ 0 \in Nat /\ p \in Nat /\ p <= Len(s) /\ p = 0 + p
    BY <1>2, <1>3, <1>6, PlainIs DEF Text
  <2>2. \A i \in 1 .. p : s[0 + i] = name[i]
    BY <1>4 DEF Shape
  <2>3. SubSeq(s, 0 + 1, p) = name
    BY ONLY <1>3, <2>1, <2>2, PartEquals
  <2>4. 0 + 1 = 1 /\ (p + 1) - 1 = p
    OBVIOUS
  <2>5. SubSeq(s, 1, Min(Positions(s, Open)) - 1) = name
    BY ONLY <1>12, <2>3, <2>4
  <2>6. Trim(name, {Space}) = name
    BY <1>2, PlainIs
  <2> QED BY <2>5, <2>6 DEF NameIn
<1>14. PICK args : args = ArgsIn(s)
  OBVIOUS
<1>15. ParseArgs(args) = {<<a.left, a.right>>}
  <2>1. /\ s \in Seq(Char) /\ (p + 1) + 1 \in Nat \ {0} /\ n - 1 \in Nat
        /\ n - 1 <= Len(s) /\ (p + 1) + 1 <= (n - 1) + 1
    BY <1>3, <1>6 DEF Text
  <2>2. args = SubSeq(s, (p + 1) + 1, n - 1)
    BY <1>6, <1>12, <1>14 DEF ArgsIn
  <2>3. /\ args \in Seq(Char) /\ Len(args) = (n - 1) + 1 - ((p + 1) + 1)
        /\ \A i \in 1 .. (n - 1) + 1 - ((p + 1) + 1) : args[i] = s[((p + 1) + 1) - 1 + i]
    BY ONLY <2>1, <2>2, PartIs
  <2>4. /\ (n - 1) + 1 - ((p + 1) + 1) = q + m + 2
        /\ \A i \in 1 .. q + m + 2 : ((p + 1) + 1) - 1 + i = p + 1 + i
    BY ONLY p \in Nat, q \in Nat, m \in Nat DEF n
  <2>5. Len(args) = q + m + 2 /\ \A i \in 1 .. q + m + 2 : args[i] = s[p + 1 + i]
    BY ONLY <2>3, <2>4
  <2>6. \A i \in 1 .. q : args[i] = l[i]
    <3> TAKE i \in 1 .. q
    <3>1. i \in 1 .. q + m + 2
      BY ONLY q \in Nat, m \in Nat, i \in 1 .. q
    <3>2. args[i] = s[p + 1 + i]
      BY ONLY <2>5, <3>1
    <3> QED BY <1>4, <3>2 DEF Shape
  <2>7. args[q + 1] = Comma /\ args[q + 2] = Space
    <3>1. /\ q + 1 \in 1 .. q + m + 2 /\ q + 2 \in 1 .. q + m + 2
          /\ p + 1 + (q + 1) = p + q + 2 /\ p + 1 + (q + 2) = p + q + 3
      BY ONLY p \in Nat, q \in Nat, m \in Nat
    <3>2. args[q + 1] = s[p + q + 2] /\ args[q + 2] = s[p + q + 3]
      BY ONLY <2>5, <3>1
    <3> QED BY <1>4, <3>2 DEF Shape
  <2>8. \A i \in 1 .. m : args[q + 2 + i] = r[i]
    <3> TAKE i \in 1 .. m
    <3>1. q + 2 + i \in 1 .. q + m + 2 /\ p + 1 + (q + 2 + i) = p + q + 3 + i
      BY ONLY p \in Nat, q \in Nat, m \in Nat, i \in 1 .. m
    <3>2. args[q + 2 + i] = s[p + q + 3 + i]
      BY ONLY <2>5, <3>1
    <3> QED BY <1>4, <3>2 DEF Shape
  <2>9. PICK x \in Terms, y \in Terms : x = a.left /\ y = a.right
    BY <1>4
  <2>10. /\ args \in Text /\ q \in Nat /\ m \in Nat /\ q = Len(TermString(x)) /\ m = Len(TermString(y))
         /\ \A i \in 1 .. q : args[i] = TermString(x)[i]
         /\ \A i \in 1 .. m : args[q + 2 + i] = TermString(y)[i]
    BY <1>1, <1>3, <2>3, <2>6, <2>8, <2>9 DEF Text
  <2>11. ParseArgs(args) = {<<x, y>>}
    <3>1. ArgText(args, x, y, q, m)
      BY ONLY <2>5, <2>7, <2>10 DEF ArgText
    <3> QED BY ONLY <2>10, <3>1, ArgsRead, x \in Terms, y \in Terms
  <2> QED BY <2>9, <2>11
<1>16. ParseAtom(s) = {a}
  <2>1. ParsedAs(s, s)
    BY <1>11, ParseAtomIs
  <2>2. IsRelationName(name)
    <3>1. name \in Text /\ name # <<>> /\ \A i \in 1 .. Len(name) : IsAlnum(name[i])
      BY <1>4 DEF Names
    <3>2. DOMAIN name = 1 .. Len(name)
      BY <3>1 DEF Text
    <3> QED BY <3>1, <3>2 DEF IsRelationName, AllOf
  <2>3. ParseAtom(s) = {Atom(name, x[1], x[2]) : x \in {<<a.left, a.right>>}}
    BY <1>6, <1>12, <1>13, <1>14, <1>15, <2>1, <2>2 DEF ParsedAs
  <2> QED BY <1>4, <2>3
<1>17. AtomText(s, a, n, o, c)
  <2> HIDE DEF n, o, c
  <2> QED BY <1>1, <1>5, <1>6, <1>9, <1>10, <1>16 DEF AtomText
<1> HIDE DEF n, o, c
<1> QED BY <1>5, <1>6, <1>17

-----------------------------------------------------------------------------
(* Queries. *)

\* What the parser does at position i.
Add(body, i, S) ==
    IF ~Cut(body, i) \/ IsBlank(Token(body, i)) THEN S
    ELSE WithAtom(S, Token(body, i))

\* The atoms found, position by position.
IsParse(f, body) ==
    /\ f[0] = {<<>>}
    /\ \A i \in 1 .. Len(body) + 1 : f[i] = Add(body, i, f[i - 1])

LEMMA TokenType ==
    ASSUME NEW body \in Text, NEW i \in 1 .. Len(body) + 1
    PROVE  Token(body, i) \in Text
<1> DEFINE cuts == {0} \cup {j \in 1 .. i - 1 : Cut(body, j)}
<1>1. cuts \in SUBSET (0 .. i - 1) /\ cuts # {} /\ i - 1 \in Nat
  OBVIOUS
<1>2. Token(body, i) = SubSeq(body, Max(cuts) + 1, i - 1)
  BY DEF Token
<1> HIDE DEF cuts
<1>3. PICK k \in 0 .. i - 1 : k = Max(cuts)
  BY <1>1, GreatestIs
<1>4. body \in Seq(Char) /\ k + 1 \in Nat \ {0} /\ i - 1 \in Int /\ i - 1 <= Len(body)
  BY DEF Text
<1>5. SubSeq(body, k + 1, i - 1) \in Seq(Char)
  BY ONLY <1>4, PartType
<1> QED BY <1>2, <1>3, <1>5 DEF Text

LEMMA QueryRuns ==
    ASSUME NEW body \in Text
    PROVE  \E f \in [0 .. Len(body) + 1 -> SUBSET Seq(Atoms)] :
               /\ IsParse(f, body)
               /\ ParseQuery(body) = IF \E i \in 1 .. Len(body) : Depth(body, i) \notin {0, 1} THEN {}
                                     ELSE f[Len(body) + 1] \ {<<>>}
<1> DEFINE n    == Len(body) + 1
           S    == SUBSET Seq(Atoms)
           move == [i \in 1 .. n |-> [seqs \in S |-> Add(body, i, seqs)]]
<1>1. n \in Nat /\ n \in 0 .. n /\ DOMAIN body = 1 .. Len(body)
  BY DEF Text
<1>2. ASSUME NEW i \in 1 .. n, NEW seqs \in S PROVE Add(body, i, seqs) \in S
  <2>1. Token(body, i) \in Text
    BY TokenType
  <2>2. ParseAtom(Token(body, i)) \subseteq Atoms
    BY <2>1, ParsesToAtoms
  <2>3. ASSUME NEW seq \in seqs, NEW atom \in ParseAtom(Token(body, i)) PROVE Append(seq, atom) \in Seq(Atoms)
    <3>1. seq \in Seq(Atoms) /\ atom \in Atoms
      BY <2>2
    <3> QED BY ONLY <3>1, AppendProperties
  <2>4. WithAtom(seqs, Token(body, i)) \subseteq Seq(Atoms)
    BY <2>3 DEF WithAtom
  <2> QED BY <2>4 DEF Add
<1>3. L!IsBody(move, 1 .. n, S)
  <2> HIDE DEF S
  <2> QED BY <1>2 DEF L!IsBody
<1>4. PICK f \in [0 .. n -> S] : L!IsRun(f, {<<>>}, move, 1 .. n)
  <2>1. {<<>>} \in S
    BY EmptySeq
  <2> HIDE DEF move, S
  <2>2. L!Runs({<<>>}, move, n, S)
    BY <1>1, <1>3, <2>1, L!LoopRuns
  <2> QED BY <2>2 DEF L!Runs
<1>5. f[0] = {<<>>} /\ \A i \in 1 .. n : f[i] = Add(body, i, f[i - 1])
  <2>1. ASSUME NEW i \in 1 .. n PROVE move[i][f[i - 1]] = Add(body, i, f[i - 1])
    <3>1. i - 1 \in 0 .. n
      BY <1>1
    <3> HIDE DEF S
    <3>2. f[i - 1] \in S
      BY <3>1
    <3> QED BY <3>2
  <2> HIDE DEF move, S
  <2> QED BY <1>4, <2>1 DEF L!IsRun
<1> DEFINE Solves(g) ==
        g = [i \in 0 .. Len(body) + 1 |->
                IF i = 0 THEN {<<>>}
                ELSE IF ~Cut(body, i) \/ IsBlank(Token(body, i)) THEN g[i - 1]
                ELSE WithAtom(g[i - 1], Token(body, i))]
           atoms == CHOOSE g : Solves(g)
<1>6. Solves(f)
  <2>1. ASSUME NEW i \in 0 .. n
        PROVE  f[i] = IF i = 0 THEN {<<>>} ELSE Add(body, i, f[i - 1])
    <3>1. i = 0 \/ i \in 1 .. n
      BY <1>1
    <3> HIDE DEF S
    <3> QED BY ONLY <1>5, <3>1
  <2>2. f = [i \in 0 .. n |-> IF i = 0 THEN {<<>>} ELSE Add(body, i, f[i - 1])]
    <3> HIDE DEF S
    <3> QED BY <2>1
  <2> HIDE DEF S
  <2> QED BY <2>2 DEF Add
<1>7. Solves(atoms)
  <2> HIDE DEF Solves
  <2> QED BY <1>6
<1>8. ParseQuery(body) = IF \E i \in DOMAIN body : Depth(body, i) \notin {0, 1} THEN {}
                         ELSE atoms[n] \ {<<>>}
  BY DEF ParseQuery
<1> HIDE DEF atoms
<1>9. \A i \in 0 .. n : atoms[i] = IF i = 0 THEN {<<>>} ELSE Add(body, i, atoms[i - 1])
  BY <1>7 DEF Add
<1>10. \A i \in 0 .. n : atoms[i] = f[i]
  <2> DEFINE T == {i \in 0 .. n : atoms[i] = f[i]}
  <2>1. 0 \in T
    <3>1. 0 \in 0 .. n
      BY <1>1
    <3>2. atoms[0] = {<<>>}
      BY <1>9, <3>1
    <3> QED BY <1>5, <3>1, <3>2
  <2>2. ASSUME NEW i \in 0 .. n - 1, i \in T PROVE i + 1 \in T
    <3>1. i + 1 \in 1 .. n /\ i + 1 \in 0 .. n /\ i + 1 # 0 /\ (i + 1) - 1 = i
      BY <1>1
    <3>2. atoms[i + 1] = Add(body, i + 1, atoms[i]) /\ f[i + 1] = Add(body, i + 1, f[i])
      BY <1>5, <1>9, <3>1
    <3> QED BY <2>2, <3>1, <3>2
  <2>3. 0 .. n \subseteq T
    <3> HIDE DEF T
    <3> QED BY <1>1, <2>1, <2>2, L!InductionUpTo
  <2> QED BY <2>3
<1> HIDE DEF S
<1>11. ParseQuery(body) = IF \E i \in 1 .. Len(body) : Depth(body, i) \notin {0, 1} THEN {}
                          ELSE f[n] \ {<<>>}
  BY <1>1, <1>8, <1>10
<1> USE DEF S
<1> QED BY <1>5, <1>11 DEF IsParse

\* What the parser makes of a text is a query: some atoms.
LEMMA ParsesToQueries ==
    ASSUME NEW body \in Text
    PROVE  ParseQuery(body) \subseteq Seq(Atoms) \ {<<>>}
<1>1. Len(body) + 1 \in 0 .. Len(body) + 1
  BY DEF Text
<1> QED BY <1>1, QueryRuns

\* The parentheses open, from one position to the next.
LEMMA DepthIs ==
    ASSUME NEW body
    PROVE  /\ Depth(body, 0) = 0
           /\ \A i \in Nat : /\ Depth(body, i) \in Int
                             /\ body[i + 1] = Open => Depth(body, i + 1) = Depth(body, i) + 1
                             /\ body[i + 1] = Close => Depth(body, i + 1) = Depth(body, i) - 1
                             /\ body[i + 1] \notin {Open, Close} => Depth(body, i + 1) = Depth(body, i)
<1> DEFINE Some(c, i) == {j \in 1 .. i : body[j] = c}
<1>1. \A i \in Nat : Depth(body, i) = Cardinality(Some(Open, i)) - Cardinality(Some(Close, i))
  BY DEF Depth, Open, Close
<1>2. ASSUME NEW c, NEW i \in Nat
      PROVE  /\ IsFiniteSet(Some(c, i)) /\ Cardinality(Some(c, i)) \in Nat
             /\ body[i + 1] = c => Cardinality(Some(c, i + 1)) = Cardinality(Some(c, i)) + 1
             /\ body[i + 1] # c => Some(c, i + 1) = Some(c, i)
  <2>1. IsFiniteSet(1 .. i) /\ Some(c, i) \subseteq 1 .. i
    BY FS_Interval
  <2>2. IsFiniteSet(Some(c, i))
    <3> HIDE DEF Some
    <3> QED BY <2>1, FS_Subset
  <2>3. Cardinality(Some(c, i)) \in Nat
    BY <2>2, FS_CardinalityType
  <2>4. \A j : j \in 1 .. i + 1 <=> j \in 1 .. i \/ j = i + 1
    OBVIOUS
  <2>5. body[i + 1] # c => Some(c, i + 1) = Some(c, i)
    BY <2>4
  <2>6. body[i + 1] = c => Some(c, i + 1) = Some(c, i) \cup {i + 1} /\ i + 1 \notin Some(c, i)
    BY <2>4
  <2>7. i + 1 \notin Some(c, i) => Cardinality(Some(c, i) \cup {i + 1}) = Cardinality(Some(c, i)) + 1
    BY <2>2, FS_AddElement
  <2> HIDE DEF Some
  <2> QED BY <2>2, <2>3, <2>5, <2>6, <2>7
<1>3. Depth(body, 0) = 0
  <2>1. \A c : Some(c, 0) = {}
    OBVIOUS
  <2>2. Cardinality({}) = 0
    BY FS_EmptySet
  <2> QED BY <1>1, <2>1, <2>2
<1>4. Open # Close
  BY SpecialIs
<1> HIDE DEF Some
<1>5. ASSUME NEW i \in Nat
      PROVE  /\ Depth(body, i) \in Int
             /\ body[i + 1] = Open => Depth(body, i + 1) = Depth(body, i) + 1
             /\ body[i + 1] = Close => Depth(body, i + 1) = Depth(body, i) - 1
             /\ body[i + 1] \notin {Open, Close} => Depth(body, i + 1) = Depth(body, i)
  <2>1. PICK x \in Nat, y \in Nat : x = Cardinality(Some(Open, i)) /\ y = Cardinality(Some(Close, i))
    BY <1>2
  <2>2. PICK u \in Nat, v \in Nat : u = Cardinality(Some(Open, i + 1)) /\ v = Cardinality(Some(Close, i + 1))
    BY <1>2
  <2>3. Depth(body, i) = x - y /\ Depth(body, i + 1) = u - v
    BY <1>1, <2>1, <2>2
  <2>4. /\ body[i + 1] = Open => u = x + 1
        /\ body[i + 1] # Open => u = x
        /\ body[i + 1] = Close => v = y + 1
        /\ body[i + 1] # Close => v = y
    BY <1>2, <2>1, <2>2
  <2> QED BY <1>4, <2>3, <2>4
<1> QED BY <1>3, <1>5

-----------------------------------------------------------------------------
(* What is printed is read. *)

\* The text of an atom and a comma, in a query, from the cut at x on.
Printed(body, x, s, n) ==
    /\ x + n + 1 <= Len(body)
    /\ \A i \in 1 .. n : body[x + i] = s[i]
    /\ body[x + n + 1] = Comma

LEMMA CutIs ==
    ASSUME NEW body \in Text, NEW i \in 1 .. Len(body)
    PROVE  Cut(body, i) <=> body[i] = Comma /\ Depth(body, i) = 0
<1>1. i # Len(body) + 1
  BY DEF Text
<1> QED BY <1>1 DEF Cut, Comma

\* Within an atom there is no cut, and what has been found stays.
LEMMA WithinAtom ==
    ASSUME NEW body \in Text, NEW f, IsParse(f, body), NEW a, NEW s, NEW x \in Nat,
           NEW n \in Nat, NEW o \in Nat, NEW c \in Nat,
           AtomText(s, a, n, o, c), Printed(body, x, s, n), Depth(body, x) = 0
    PROVE  \A i \in 0 .. n : /\ Depth(body, x + i) = IF o <= i /\ i < n THEN 1 ELSE 0
                             /\ f[x + i] = f[x]
                             /\ i # 0 => ~Cut(body, x + i)
<1>1. PICK m \in Nat : m = Len(body) /\ x + n + 1 <= m
  BY DEF Text, Printed
<1>2. /\ 1 < o /\ o < c /\ c < n
      /\ \A i \in 1 .. n : /\ body[x + i] = Open <=> i = o
                           /\ body[x + i] = Close <=> i = n
                           /\ body[x + i] = Comma <=> i = c
  BY DEF AtomText, Printed
<1> DEFINE D(i) == IF o <= i /\ i < n THEN 1 ELSE 0
           T == {i \in 0 .. n : /\ Depth(body, x + i) = D(i)
                                /\ f[x + i] = f[x]
                                /\ i # 0 => ~Cut(body, x + i)}
<1>3. 0 \in T
  <2>1. x + 0 = x /\ D(0) = 0 /\ 0 \in 0 .. n
    BY <1>2
  <2> QED BY <2>1
<1>4. ASSUME NEW i \in 0 .. n - 1, i \in T PROVE i + 1 \in T
  <2>1. PICK y \in Nat : y = x + i /\ y + 1 = x + (i + 1) /\ y + 1 \in 1 .. m /\ y + 1 \in 1 .. m + 1
    <3>1. x + i \in Nat /\ x + i + 1 = x + (i + 1) /\ x + i + 1 \in 1 .. m /\ x + i + 1 \in 1 .. m + 1
      BY ONLY <1>1, i \in 0 .. n - 1, x \in Nat, n \in Nat, m \in Nat
    <3> QED BY <3>1
  <2>2. Depth(body, y) = D(i) /\ f[y] = f[x]
    BY <1>4, <2>1
  <2>3. /\ body[y + 1] = Open => Depth(body, y + 1) = D(i) + 1
        /\ body[y + 1] = Close => Depth(body, y + 1) = D(i) - 1
        /\ body[y + 1] \notin {Open, Close} => Depth(body, y + 1) = D(i)
    BY ONLY <2>2, DepthIs, y \in Nat
  <2>4. i + 1 \in 1 .. n /\ i + 1 \in 0 .. n
    BY ONLY i \in 0 .. n - 1, n \in Nat
  <2>5. /\ body[y + 1] = Open <=> i + 1 = o
        /\ body[y + 1] = Close <=> i + 1 = n
        /\ body[y + 1] = Comma <=> i + 1 = c
    BY <1>2, <2>1, <2>4
  <2>6. Depth(body, y + 1) = D(i + 1)
    <3>1. i + 1 = o => D(i + 1) = D(i) + 1
      BY ONLY <1>2, i \in 0 .. n - 1, n \in Nat, o \in Nat, c \in Nat
    <3>2. i + 1 = n => D(i + 1) = D(i) - 1
      BY ONLY <1>2, i \in 0 .. n - 1, n \in Nat, o \in Nat, c \in Nat
    <3>3. i + 1 # o /\ i + 1 # n => D(i + 1) = D(i)
      BY ONLY <1>2, i \in 0 .. n - 1, n \in Nat, o \in Nat, c \in Nat
    <3> HIDE DEF D
    <3> QED BY ONLY <2>3, <2>5, <3>1, <3>2, <3>3
  <2>7. ~Cut(body, y + 1)
    <3>1. i + 1 = c => D(i + 1) = 1
      BY ONLY <1>2, i \in 0 .. n - 1, n \in Nat, o \in Nat, c \in Nat
    <3>2. Cut(body, y + 1) <=> body[y + 1] = Comma /\ Depth(body, y + 1) = 0
      BY <1>1, <2>1, CutIs
    <3> HIDE DEF D
    <3> QED BY ONLY <2>5, <2>6, <3>1, <3>2
  <2>8. f[y + 1] = f[x]
    <3>1. f[y + 1] = Add(body, y + 1, f[(y + 1) - 1])
      BY <1>1, <2>1 DEF IsParse
    <3>2. (y + 1) - 1 = y
      BY ONLY y \in Nat
    <3> QED BY <2>2, <2>7, <3>1, <3>2 DEF Add
  <2> HIDE DEF D
  <2> QED BY ONLY <2>1, <2>4, <2>6, <2>7, <2>8
<1>5. 0 .. n \subseteq T
  <2> HIDE DEF T
  <2> QED BY <1>3, <1>4, L!InductionUpTo
<1> QED BY <1>5

\* The comma after an atom cuts it out of the query.
CutOut(body, f, x, s, n) ==
    /\ Depth(body, x + n + 1) = 0 /\ Cut(body, x + n + 1)
    /\ \A i \in 1 .. n + 1 : Depth(body, x + i) \in {0, 1}
    /\ f[x + n + 1] = WithAtom(f[x], s)

LEMMA AfterAtom ==
    ASSUME NEW body \in Text, NEW f, IsParse(f, body), NEW a, NEW s, NEW x \in Nat,
           NEW n \in Nat, NEW o \in Nat, NEW c \in Nat,
           AtomText(s, a, n, o, c), Printed(body, x, s, n), Depth(body, x) = 0,
           x = 0 \/ Cut(body, x)
    PROVE  CutOut(body, f, x, s, n)
<1>1. PICK m \in Nat : m = Len(body) /\ x + n + 1 <= m
  BY DEF Text, Printed
<1>2. 1 < o /\ o < c /\ c < n /\ s \in Text /\ n = Len(s) /\ s[1] \notin Special
  BY DEF AtomText
<1>3. \A i \in 0 .. n : /\ Depth(body, x + i) = IF o <= i /\ i < n THEN 1 ELSE 0
                        /\ f[x + i] = f[x]
                        /\ i # 0 => ~Cut(body, x + i)
  BY WithinAtom
<1>4. PICK y \in Nat : y = x + n /\ y + 1 = x + n + 1 /\ y + 1 \in 1 .. m /\ y + 1 \in 1 .. m + 1
  BY <1>1
<1>5. Depth(body, y) = 0 /\ f[y] = f[x]
  <2>1. n \in 0 .. n
    OBVIOUS
  <2> QED BY <1>3, <1>4, <2>1
<1>6. Depth(body, y + 1) = 0 /\ Cut(body, y + 1)
  <2>1. body[y + 1] = Comma
    BY <1>4 DEF Printed
  <2>2. Depth(body, y + 1) = Depth(body, y)
    BY <1>4, <2>1, DepthIs, SpecialIs
  <2> QED BY <1>1, <1>4, <1>5, <2>1, <2>2, CutIs
<1>7. ASSUME NEW i \in 1 .. n + 1 PROVE Depth(body, x + i) \in {0, 1}
  <2>1. i \in 0 .. n \/ (i = n + 1 /\ x + i = y + 1)
    BY <1>4
  <2> QED BY <1>3, <1>6, <2>1
<1>8. Token(body, y + 1) = s
  <2> DEFINE cuts == {0} \cup {j \in 1 .. (y + 1) - 1 : Cut(body, j)}
  <2>1. Token(body, y + 1) = SubSeq(body, Max(cuts) + 1, (y + 1) - 1)
    BY DEF Token
  <2>2. cuts \in SUBSET (0 .. y) /\ cuts # {} /\ (y + 1) - 1 = y
    OBVIOUS
  <2>3. x \in cuts
    <3>1. x = 0 \/ x \in 1 .. (y + 1) - 1
      BY <1>4
    <3> QED BY <3>1
  <2>4. \A j \in cuts : j <= x
    <3>1. SUFFICES ASSUME NEW j \in 1 .. (y + 1) - 1, Cut(body, j), x < j PROVE FALSE
      OBVIOUS
    <3>2. PICK i \in 0 .. n : i # 0 /\ j = x + i
      <4>1. j - x \in 0 .. n /\ j - x # 0 /\ j = x + (j - x)
        BY <1>4, <3>1
      <4> QED BY <4>1
    <3> QED BY <1>3, <3>1, <3>2
  <2> HIDE DEF cuts
  <2>5. Max(cuts) \in cuts /\ \A j \in cuts : j <= Max(cuts)
    BY ONLY <2>2, GreatestIs, y \in Nat
  <2>6. Max(cuts) = x
    <3>1. \A j \in cuts : j \in Nat
      BY ONLY <2>2, y \in Nat
    <3>2. PICK k \in Nat : k = Max(cuts)
      BY ONLY <2>5, <3>1
    <3>3. k <= x /\ x <= k
      BY ONLY <2>3, <2>4, <2>5, <3>2
    <3>4. k = x
      BY ONLY <3>3, k \in Nat, x \in Nat
    <3> QED BY ONLY <3>2, <3>4
  <2>7. /\ body \in Seq(Char) /\ s \in Seq(Char) /\ y = x + n /\ y <= Len(body)
        /\ \A i \in 1 .. n : body[x + i] = s[i]
    BY <1>1, <1>2, <1>4 DEF Text, Printed
  <2>8. SubSeq(body, x + 1, y) = s
    BY ONLY <1>2, <2>7, PartEquals, x \in Nat, y \in Nat, n \in Nat
  <2> QED BY <2>1, <2>2, <2>6, <2>8
<1>9. ~IsBlank(s)
  <2>1. 1 \in DOMAIN s
    BY <1>2 DEF Text
  <2>2. s[1] \notin {Space, Tab}
    BY <1>2, SpecialIs
  <2> QED BY <2>1, <2>2 DEF IsBlank, AllOf
<1>10. f[y + 1] = WithAtom(f[x], s)
  <2>1. f[y + 1] = Add(body, y + 1, f[(y + 1) - 1])
    BY <1>1, <1>4 DEF IsParse
  <2>2. (y + 1) - 1 = y
    OBVIOUS
  <2> QED BY <1>5, <1>6, <1>8, <1>9, <2>1, <2>2 DEF Add
<1> QED BY <1>4, <1>6, <1>7, <1>10 DEF CutOut


\* Texts that are put together one by one.
LEMMA FlattenIs ==
    ASSUME NEW seqs \in Seq(Text), NEW n \in Nat \ {0}, n = Len(seqs)
    PROVE  \E f \in [0 .. n -> Text] : /\ f[0] = <<>> /\ FlattenSeq(seqs) = f[n]
                                       /\ \A k \in 1 .. n : f[k] = f[k - 1] \o seqs[k]
<1> DEFINE move == [k \in 1 .. n |-> [text \in Text |-> text \o seqs[k]]]
<1>1. ASSUME NEW k \in 1 .. n, NEW text \in Text PROVE text \o seqs[k] \in Text
  <2>1. text \in Seq(Char) /\ seqs[k] \in Seq(Char)
    BY DEF Text
  <2> QED BY ONLY <2>1, ConcatProperties DEF Text
<1>2. L!IsBody(move, 1 .. n, Text)
  BY <1>1 DEF L!IsBody
<1>3. PICK f \in [0 .. n -> Text] : L!IsRun(f, <<>>, move, 1 .. n)
  <2>1. <<>> \in Text
    BY EmptySeq DEF Text
  <2> HIDE DEF move
  <2>2. L!Runs(<<>>, move, n, Text)
    BY <1>2, <2>1, L!LoopRuns
  <2> QED BY <2>2 DEF L!Runs
<1>4. f[0] = <<>> /\ \A k \in 1 .. n : f[k] = f[k - 1] \o seqs[k]
  <2>1. ASSUME NEW k \in 1 .. n PROVE move[k][f[k - 1]] = f[k - 1] \o seqs[k]
    <3>1. k - 1 \in 0 .. n
      OBVIOUS
    <3>2. f[k - 1] \in Text
      BY <3>1
    <3> QED BY <3>2
  <2> HIDE DEF move
  <2> QED BY <1>3, <2>1 DEF L!IsRun
<1> DEFINE Solves(g) == g = [i \in 1 .. Len(seqs) |-> IF i = 1 THEN seqs[i] ELSE g[i - 1] \o seqs[i]]
           flatten == CHOOSE g : Solves(g)
           h == [i \in 1 .. n |-> f[i]]
<1>5. f[1] = seqs[1]
  <2>1. 1 \in 1 .. n /\ 1 - 1 = 0 /\ seqs[1] \in Text
    OBVIOUS
  <2>2. f[1] = <<>> \o seqs[1]
    BY <1>4, <2>1
  <2>3. seqs[1] \in Seq(Char)
    BY <2>1 DEF Text
  <2>4. <<>> \o seqs[1] = seqs[1]
    BY ONLY <2>3, ConcatEmptySeq
  <2> QED BY <2>2, <2>4
<1>6. Solves(h)
  <2>1. ASSUME NEW i \in 1 .. n PROVE h[i] = IF i = 1 THEN seqs[i] ELSE h[i - 1] \o seqs[i]
    <3>1. i # 1 => i - 1 \in 1 .. n
      OBVIOUS
    <3> QED BY <1>4, <1>5, <3>1
  <2>2. h = [i \in 1 .. n |-> h[i]]
    OBVIOUS
  <2> HIDE DEF h
  <2> QED BY <2>1, <2>2
<1>7. Solves(flatten)
  <2> HIDE DEF Solves
  <2> QED BY <1>6
<1>8. FlattenSeq(seqs) = flatten[n]
  BY DEF FlattenSeq
<1> HIDE DEF flatten
<1>9. \A i \in 1 .. n : flatten[i] = IF i = 1 THEN seqs[i] ELSE flatten[i - 1] \o seqs[i]
  BY <1>7
<1>10. \A i \in 1 .. n : flatten[i] = f[i]
  <2> DEFINE T == {i \in 0 .. n : i # 0 => flatten[i] = f[i]}
  <2>1. 0 \in T
    OBVIOUS
  <2>2. ASSUME NEW i \in 0 .. n - 1, i \in T PROVE i + 1 \in T
    <3>1. i + 1 \in 1 .. n /\ i + 1 \in 0 .. n /\ (i + 1) - 1 = i
      OBVIOUS
    <3>2. CASE i = 0
      BY <1>5, <1>9, <3>1, <3>2
    <3>3. CASE i # 0
      <4>1. flatten[i + 1] = flatten[(i + 1) - 1] \o seqs[i + 1] /\ f[i + 1] = f[(i + 1) - 1] \o seqs[i + 1]
        <5>1. i + 1 # 1
          BY <3>3
        <5> QED BY ONLY <1>4, <1>9, <3>1, <5>1
      <4> QED BY <2>2, <3>1, <3>3, <4>1
    <3> QED BY <3>2, <3>3
  <2>3. 0 .. n \subseteq T
    <3> HIDE DEF T
    <3> QED BY <2>1, <2>2, L!InductionUpTo
  <2> QED BY <2>3
<1> QED BY <1>4, <1>8, <1>10

\* The text of a query and where its atoms end in it: e[k] is the comma of the k-th.
AtomsPrinted(atoms) == [k \in DOMAIN atoms |-> AtomString(atoms[k]) \o <<Comma>>]

Laid(body, atoms, n, e) ==
    /\ e[0] = 0 /\ e[n] = Len(body)
    /\ \A k \in 1 .. n : LET s == AtomString(atoms[k])
                         IN  e[k] = e[k - 1] + Len(s) + 1 /\ Printed(body, e[k - 1], s, Len(s))

LEMMA QueryIsLaid ==
    ASSUME NEW atoms \in Seq(Atoms), NEW n \in Nat \ {0}, n = Len(atoms),
           NEW body, body = FlattenSeq(AtomsPrinted(atoms))
    PROVE  /\ body \in Text
           /\ \E e \in [0 .. n -> Nat] : Laid(body, atoms, n, e)
<1>1. PICK seqs : seqs = AtomsPrinted(atoms)
  OBVIOUS
<1>2. <<Comma>> \in Text /\ 1 = Len(<<Comma>>) /\ <<Comma>>[1] = Comma
  <2>1. Comma \in Char
    BY SpecialIs
  <2> HIDE DEF Comma
  <2> QED BY <2>1 DEF Text
<1>3. ASSUME NEW k \in 1 .. n
      PROVE  /\ AtomString(atoms[k]) \in Text /\ Len(AtomString(atoms[k])) \in Nat
             /\ seqs[k] \in Text /\ Len(seqs[k]) = Len(AtomString(atoms[k])) + 1
             /\ \A i \in 1 .. Len(AtomString(atoms[k])) : seqs[k][i] = AtomString(atoms[k])[i]
             /\ seqs[k][Len(AtomString(atoms[k])) + 1] = Comma
  <2>1. atoms[k] \in Atoms
    OBVIOUS
  <2>2. PICK s \in Text, m \in Nat : s = AtomString(atoms[k]) /\ m = Len(s)
    BY <2>1, AtomReads DEF AtomText
  <2>3. seqs[k] = s \o <<Comma>>
    BY <1>1, <2>2 DEF AtomsPrinted
  <2>4. IsJoin(seqs[k], s, <<Comma>>, m, 1)
    BY ONLY <1>2, <2>2, <2>3, JoinIs, 1 \in Nat
  <2>5. 1 \in 1 .. 1
    OBVIOUS
  <2>6. seqs[k] \in Text /\ Len(seqs[k]) = m + 1 /\ seqs[k][m + 1] = Comma /\ \A i \in 1 .. m : seqs[k][i] = s[i]
    BY ONLY <1>2, <2>4, <2>5 DEF IsJoin
  <2> QED BY ONLY <2>2, <2>6
<1>4. seqs \in Seq(Text) /\ n = Len(seqs)
  <2>1. seqs = [k \in 1 .. n |-> AtomString(atoms[k]) \o <<Comma>>]
    BY <1>1 DEF AtomsPrinted
  <2>2. \A k \in 1 .. n : seqs[k] \in Text
    BY <1>3
  <2>3. seqs \in [1 .. n -> Text]
    BY ONLY <2>1, <2>2
  <2> QED BY ONLY <2>3, n \in Nat \ {0}
<1>5. PICK f \in [0 .. n -> Text] : /\ f[0] = <<>> /\ body = f[n]
                                    /\ \A k \in 1 .. n : f[k] = f[k - 1] \o seqs[k]
  <2>1. \E f \in [0 .. n -> Text] : /\ f[0] = <<>> /\ FlattenSeq(seqs) = f[n]
                                    /\ \A k \in 1 .. n : f[k] = f[k - 1] \o seqs[k]
    BY ONLY <1>4, FlattenIs, n \in Nat \ {0}
  <2>2. body = FlattenSeq(seqs)
    BY <1>1
  <2> QED BY ONLY <2>1, <2>2
<1> DEFINE e == [k \in 0 .. n |-> Len(f[k])]
<1>6. e \in [0 .. n -> Nat]
  BY DEF Text
<1>7. \A k \in 0 .. n : e[k] = Len(f[k])
  OBVIOUS
<1> HIDE DEF e
<1>8. ASSUME NEW k \in 1 .. n
      PROVE  IsJoin(f[k], f[k - 1], seqs[k], e[k - 1], Len(seqs[k]))
  <2>1. k - 1 \in 0 .. n /\ k \in 0 .. n
    OBVIOUS
  <2>2. PICK g \in Text, t \in Text, u \in Text, x \in Nat, y \in Nat :
            g = f[k - 1] /\ t = seqs[k] /\ u = f[k] /\ x = e[k - 1] /\ y = Len(t)
    <3>1. f[k - 1] \in Text /\ f[k] \in Text /\ seqs[k] \in Text /\ e[k - 1] \in Nat
      BY <1>3, <1>6, <2>1
    <3>2. Len(seqs[k]) \in Nat
      BY <3>1 DEF Text
    <3> QED BY <3>1, <3>2
  <2>3. u = g \o t /\ x = Len(g)
    BY <1>5, <1>7, <2>1, <2>2
  <2>4. IsJoin(u, g, t, x, y)
    BY ONLY <2>2, <2>3, JoinIs
  <2> QED BY <2>2, <2>4
<1>9. \A k \in 1 .. n : e[k] = e[k - 1] + Len(seqs[k])
  BY <1>7, <1>8 DEF IsJoin
\* What has been put together stays at the beginning.
<1>10. \A k \in 0 .. n, j \in 0 .. n : j <= k => e[j] <= e[k] /\ \A i \in 1 .. e[j] : f[k][i] = f[j][i]
  <2> DEFINE T == {k \in 0 .. n : \A j \in 0 .. n : j <= k => e[j] <= e[k] /\ \A i \in 1 .. e[j] : f[k][i] = f[j][i]}
  <2>1. 0 \in T
    <3>1. \A j \in 0 .. n : j <= 0 => j = 0
      OBVIOUS
    <3>2. 0 \in 0 .. n /\ e[0] \in Nat
      BY <1>6
    <3> QED BY <3>1, <3>2
  <2>2. ASSUME NEW k \in 0 .. n - 1, k \in T PROVE k + 1 \in T
    <3>1. k + 1 \in 1 .. n /\ (k + 1) - 1 = k /\ k \in 0 .. n /\ k + 1 \in 0 .. n
      OBVIOUS
    <3>2. IsJoin(f[k + 1], f[k], seqs[k + 1], e[k], Len(seqs[k + 1])) /\ e[k + 1] = e[k] + Len(seqs[k + 1])
      BY <1>8, <1>9, <3>1
    <3>3. Len(seqs[k + 1]) \in Nat /\ e[k] \in Nat /\ e[k + 1] \in Nat
      <4>1. seqs[k + 1] \in Text
        BY <1>3, <3>1
      <4> QED BY <1>6, <3>1, <4>1 DEF Text
    <3>4. e[k] <= e[k + 1] /\ \A i \in 1 .. e[k] : f[k + 1][i] = f[k][i]
      BY <3>2, <3>3 DEF IsJoin
    <3>5. ASSUME NEW j \in 0 .. n, j <= k + 1
          PROVE  e[j] <= e[k + 1] /\ \A i \in 1 .. e[j] : f[k + 1][i] = f[j][i]
      <4>1. CASE j = k + 1
        BY <3>3, <4>1
      <4>2. CASE j # k + 1
        <5>1. j <= k
          BY <3>5, <4>2
        <5>2. e[j] <= e[k] /\ \A i \in 1 .. e[j] : f[k][i] = f[j][i]
          BY <2>2, <5>1
        <5>3. e[j] \in Nat
          BY <1>6
        <5>4. e[j] <= e[k + 1] /\ \A i \in 1 .. e[j] : i \in 1 .. e[k]
          BY ONLY <3>3, <3>4, <5>2, <5>3
        <5> QED BY ONLY <3>4, <5>2, <5>4
      <4> QED BY <4>1, <4>2
    <3> QED BY <3>1, <3>5
  <2>3. 0 .. n \subseteq T
    <3> HIDE DEF T
    <3> QED BY <2>1, <2>2, L!InductionUpTo
  <2> QED BY <2>3
<1>11. e[0] = 0 /\ e[n] = Len(body)
  <2>1. 0 \in 0 .. n /\ n \in 0 .. n
    OBVIOUS
  <2>2. Len(<<>>) = 0
    OBVIOUS
  <2> QED BY <1>5, <1>7, <2>1, <2>2
<1>12. ASSUME NEW k \in 1 .. n, NEW s, s = AtomString(atoms[k])
       PROVE  e[k] = e[k - 1] + Len(s) + 1 /\ Printed(body, e[k - 1], s, Len(s))
  <2>1. PICK m \in Nat : m = Len(s) /\ Len(seqs[k]) = m + 1
    BY <1>3, <1>12
  <2>2. PICK x \in Nat, y \in Nat : x = e[k - 1] /\ y = e[k] /\ y <= e[n] /\ e[n] \in Nat
    <3>1. k - 1 \in 0 .. n /\ k \in 0 .. n /\ n \in 0 .. n /\ k <= n
      OBVIOUS
    <3> QED BY <1>6, <1>10, <3>1
  <2>3. y = x + m + 1
    <3>1. e[k] = e[k - 1] + Len(seqs[k])
      BY <1>9
    <3>2. y = x + (m + 1)
      BY ONLY <2>1, <2>2, <3>1
    <3> QED BY ONLY <3>2, x \in Nat, m \in Nat
  <2>4. \A i \in 1 .. y : body[i] = f[k][i]
    <3>1. k \in 0 .. n /\ n \in 0 .. n /\ k <= n
      OBVIOUS
    <3> QED BY <1>5, <1>10, <2>2, <3>1
  <2>5. \A i \in 1 .. m + 1 : f[k][x + i] = seqs[k][i]
    BY <1>8, <2>1, <2>2 DEF IsJoin
  <2>6. ASSUME NEW i \in 1 .. m + 1 PROVE body[x + i] = seqs[k][i]
    <3>1. x + i \in 1 .. y
      BY ONLY <2>3, x \in Nat, m \in Nat, i \in 1 .. m + 1
    <3> QED BY ONLY <2>4, <2>5, <3>1, i \in 1 .. m + 1
  <2>7. (\A i \in 1 .. m : seqs[k][i] = s[i]) /\ seqs[k][m + 1] = Comma
    BY <1>3, <1>12, <2>1
  <2>8. x + m + 1 <= Len(body)
    BY <1>11, <2>2, <2>3
  <2>9. (\A i \in 1 .. m : body[x + i] = s[i]) /\ body[x + m + 1] = Comma
    <3>1. m + 1 \in 1 .. m + 1 /\ (\A i \in 1 .. m : i \in 1 .. m + 1) /\ x + (m + 1) = x + m + 1
      BY ONLY x \in Nat, m \in Nat
    <3> QED BY ONLY <2>6, <2>7, <3>1
  <2> QED BY ONLY <2>1, <2>2, <2>3, <2>8, <2>9 DEF Printed
<1>13. Laid(body, atoms, n, e)
  BY <1>11, <1>12 DEF Laid
<1>14. body \in Text
  <2>1. n \in 0 .. n
    OBVIOUS
  <2> QED BY <1>5, <2>1
<1> QED BY <1>6, <1>13, <1>14

\* A query that is printed is read as the same query.
LEMMA PrintedReads ==
    ASSUME NEW atoms \in Seq(Atoms), atoms # <<>>
    PROVE  ParseQuery(FlattenSeq(AtomsPrinted(atoms))) = {atoms}
<1>1. PICK n \in Nat \ {0}, body \in Text : n = Len(atoms) /\ body = FlattenSeq(AtomsPrinted(atoms))
  <2>1. Len(atoms) \in Nat \ {0}
    OBVIOUS
  <2> QED BY <2>1, QueryIsLaid
<1>2. PICK e \in [0 .. n -> Nat] : Laid(body, atoms, n, e)
  BY <1>1, QueryIsLaid
<1>3. PICK f \in [0 .. Len(body) + 1 -> SUBSET Seq(Atoms)] :
          /\ IsParse(f, body)
          /\ ParseQuery(body) = IF \E i \in 1 .. Len(body) : Depth(body, i) \notin {0, 1} THEN {}
                                ELSE f[Len(body) + 1] \ {<<>>}
  BY QueryRuns
<1> DEFINE At(k) == /\ Depth(body, e[k]) = 0
                    /\ k # 0 => Cut(body, e[k]) /\ e[k] > 0
                    /\ f[e[k]] = {SubSeq(atoms, 1, k)}
                    /\ \A i \in 1 .. e[k] : Depth(body, i) \in {0, 1}
           T == {k \in 0 .. n : At(k)}
<1>4. 0 \in T
  <2>1. e[0] = 0 /\ f[0] = {<<>>}
    BY <1>2, <1>3 DEF Laid, IsParse
  <2>2. SubSeq(atoms, 1, 0) = <<>>
    OBVIOUS
  <2>3. Depth(body, 0) = 0 /\ 0 \in 0 .. n
    BY DepthIs
  <2>4. At(0)
    <3>1. \A i \in 1 .. 0 : Depth(body, i) \in {0, 1}
      OBVIOUS
    <3> QED BY ONLY <2>1, <2>2, <2>3, <3>1
  <2> HIDE DEF At
  <2> QED BY <2>3, <2>4
<1>5. ASSUME NEW k \in 0 .. n - 1, k \in T PROVE k + 1 \in T
  <2>1. k + 1 \in 1 .. n /\ k + 1 \in 0 .. n /\ k \in 0 .. n /\ (k + 1) - 1 = k /\ k + 1 # 0
    OBVIOUS
  <2>2. At(k)
    BY <1>5
  <2> HIDE DEF T
  <2>3. PICK a \in Atoms : a = atoms[k + 1]
    BY <1>1, <2>1
  <2>4. PICK s \in Text, m \in Nat, o \in Nat, c \in Nat : AtomText(s, a, m, o, c)
    BY AtomReads
  <2>5. s = AtomString(atoms[k + 1]) /\ m = Len(s) /\ ParseAtom(s) = {a}
    BY <2>3, <2>4 DEF AtomText
  <2>6. PICK x \in Nat : x = e[k]
    BY <2>1
  <2>7. e[k + 1] = x + m + 1 /\ Printed(body, x, s, m)
    <3>1. e[k + 1] = e[(k + 1) - 1] + Len(s) + 1 /\ Printed(body, e[(k + 1) - 1], s, Len(s))
      BY <1>2, <2>1, <2>5 DEF Laid
    <3> QED BY <2>1, <2>5, <2>6, <3>1
  <2>8. x = 0 \/ Cut(body, x)
    <3>1. e[0] = 0
      BY <1>2 DEF Laid
    <3> QED BY <2>2, <2>6, <3>1
  <2>9. Depth(body, x) = 0 /\ f[x] = {SubSeq(atoms, 1, k)} /\ \A i \in 1 .. x : Depth(body, i) \in {0, 1}
    BY <2>2, <2>6
  <2>10. /\ Depth(body, x + m + 1) = 0 /\ Cut(body, x + m + 1)
         /\ \A i \in 1 .. m + 1 : Depth(body, x + i) \in {0, 1}
         /\ f[x + m + 1] = WithAtom(f[x], s)
    <3>1. IsParse(f, body) /\ Printed(body, x, s, m) /\ Depth(body, x) = 0
      BY ONLY <1>3, <2>7, <2>9
    <3>2. CutOut(body, f, x, s, m)
      BY ONLY <2>4, <2>8, <3>1, AfterAtom, body \in Text, x \in Nat, m \in Nat, o \in Nat, c \in Nat
    <3> QED BY ONLY <3>2 DEF CutOut
  <2>11. f[x + m + 1] = {SubSeq(atoms, 1, k + 1)}
    <3>1. PICK q : q = SubSeq(atoms, 1, k)
      OBVIOUS
    <3>2. WithAtom({q}, s) = {Append(q, a)}
      BY <2>5 DEF WithAtom
    <3>3. Append(q, a) = SubSeq(atoms, 1, k + 1)
      <4>1. 1 \in 1 .. Len(atoms) /\ k + 1 \in 1 .. Len(atoms)
        BY <1>1, <2>1
      <4>2. SubSeq(atoms, 1, k + 1) = SubSeq(atoms, 1, (k + 1) - 1) \o <<atoms[k + 1]>>
        BY ONLY <4>1, SubSeqRecursiveSecond, atoms \in Seq(Atoms)
      <4>3. q \in Seq(Atoms)
        <5>1. 1 \in Nat \ {0} /\ k \in Int /\ k <= Len(atoms)
          BY <1>1, <2>1
        <5> QED BY ONLY <3>1, <5>1, PartType, atoms \in Seq(Atoms)
      <4>4. Append(q, a) = q \o <<a>>
        BY ONLY <4>3, AppendIsConcat, a \in Atoms
      <4> QED BY ONLY <2>1, <2>3, <3>1, <4>2, <4>4
    <3> QED BY <2>9, <2>10, <3>1, <3>2, <3>3
  <2>12. ASSUME NEW i \in 1 .. x + m + 1 PROVE Depth(body, i) \in {0, 1}
    <3>1. CASE i <= x
      BY <2>9, <3>1
    <3>2. CASE i > x
      <4>1. PICK j \in 1 .. m + 1 : i = x + j
        <5>1. i - x \in 1 .. m + 1 /\ i = x + (i - x)
          BY ONLY <3>2, x \in Nat, m \in Nat, i \in 1 .. x + m + 1
        <5> QED BY <5>1
      <4> QED BY <2>10, <4>1
    <3> QED BY <3>1, <3>2
  <2>13. x + m + 1 > 0
    OBVIOUS
  <2>14. At(k + 1)
    BY ONLY <2>1, <2>7, <2>10, <2>11, <2>12, <2>13
  <2> QED BY ONLY <2>1, <2>14 DEF T
<1>6. At(n)
  <2>1. 0 .. n \subseteq T
    <3> HIDE DEF T
    <3> QED BY <1>4, <1>5, L!InductionUpTo
  <2>2. n \in 0 .. n
    OBVIOUS
  <2> QED BY ONLY <2>1, <2>2
<1>7. PICK m \in Nat \ {0} : m = Len(body) /\ m = e[n]
  <2>1. e[n] \in Nat /\ e[n] = Len(body) /\ e[n] > 0
    BY <1>2, <1>6 DEF Laid
  <2> QED BY <2>1
<1>8. f[m] = {atoms}
  <2>1. SubSeq(atoms, 1, n) = atoms
    BY <1>1, SubSeqFull
  <2> QED BY <1>6, <1>7, <2>1
<1>9. Cut(body, m) /\ \A i \in 1 .. m : Depth(body, i) \in {0, 1}
  BY <1>6, <1>7
\* What follows the last comma is empty.
<1>10. Token(body, m + 1) = <<>>
  <2> DEFINE cuts == {0} \cup {j \in 1 .. (m + 1) - 1 : Cut(body, j)}
  <2>1. Token(body, m + 1) = SubSeq(body, Max(cuts) + 1, (m + 1) - 1)
    BY DEF Token
  <2>2. cuts \in SUBSET (0 .. m) /\ cuts # {} /\ m \in cuts /\ (m + 1) - 1 = m
    BY <1>9
  <2> HIDE DEF cuts
  <2>3. Max(cuts) = m
    <3>1. Max(cuts) \in cuts /\ \A j \in cuts : j <= Max(cuts)
      BY ONLY <2>2, GreatestIs, m \in Nat \ {0}
    <3>2. \A j \in cuts : j \in Nat /\ j <= m
      BY ONLY <2>2, m \in Nat \ {0}
    <3>3. PICK k \in Nat : k = Max(cuts)
      BY ONLY <3>1, <3>2
    <3>4. k <= m /\ m <= k
      BY ONLY <2>2, <3>1, <3>2, <3>3
    <3>5. k = m
      BY ONLY <3>4, k \in Nat, m \in Nat \ {0}
    <3> QED BY ONLY <3>3, <3>5
  <2>4. SubSeq(body, m + 1, m) = <<>>
    <3>1. m + 1 \in Int /\ m \in Int /\ \A i \in m + 1 .. m : body[i] \in Char
      OBVIOUS
    <3>2. Len(SubSeq(body, m + 1, m)) = IF m + 1 <= m THEN m - (m + 1) + 1 ELSE 0
      BY ONLY <3>1, SubSeqProperties
    <3>3. SubSeq(body, m + 1, m) \in Seq(Char)
      BY ONLY <3>1, SubSeqProperties
    <3> QED BY <3>2, <3>3
  <2> QED BY <2>1, <2>2, <2>3, <2>4
<1>11. f[m + 1] = {atoms}
  <2>1. IsBlank(<<>>)
    BY DEF IsBlank, AllOf
  <2>2. f[m + 1] = Add(body, m + 1, f[(m + 1) - 1])
    <3>1. m + 1 \in 1 .. Len(body) + 1
      BY <1>7
    <3> QED BY <1>3, <3>1 DEF IsParse
  <2>3. (m + 1) - 1 = m
    OBVIOUS
  <2> QED BY <1>8, <1>10, <2>1, <2>2, <2>3 DEF Add
<1>12. ParseQuery(body) = {atoms}
  <2>1. {atoms} \ {<<>>} = {atoms}
    OBVIOUS
  <2> QED BY <1>3, <1>7, <1>9, <1>11, <2>1
<1> QED BY <1>1, <1>12

-----------------------------------------------------------------------------
(* The commands. *)

\* A command takes its line and leaves the files alone.
LEMMA ReadLineTakes ==
    ASSUME ReadLine
    PROVE  line' = <<>> /\ files' = files
BY DEF ReadLine, SkipLine, NameCommand, EditCommand, QueryCommand, Usage, UnknownCommand, Quit, NextLine

LEMMA TextsStay ==
    ASSUME TextsOK, [ReadLine \/ Typing]_lineVars
    PROVE  TextsOK'
<1>1. CASE ReadLine
  <2>1. <<>> \in Seq(Char)
    BY EmptySeq
  <2> QED BY <1>1, <2>1, ReadLineTakes DEF TextsOK
<1>2. CASE Typing
  BY <1>2 DEF Typing
<1>3. CASE UNCHANGED lineVars
  BY <1>3 DEF lineVars, TextsOK
<1> QED BY <1>1, <1>2, <1>3

\* Only a command to edit calls ADD or DELETE.
LEMMA EditsCall ==
    ASSUME ReadLine, call'.op \in {"ADD", "DELETE"}
    PROVE  call'.batch = ParseCsvFile(files, Toks[4])
<1>1. NoCall.op = "none"
  BY DEF NoCall, Call
<1>2. \A text : ~Prints(text)
  BY <1>1 DEF Prints
<1>3. ~SkipLine /\ ~UnknownCommand /\ \A op, n : ~Usage(op, n)
  BY <1>2 DEF SkipLine, UnknownCommand, Usage
<1>4. ~Quit
  BY <1>1 DEF Quit
<1>5. ~QueryCommand
  <2>1. ASSUME QueryCommand PROVE FALSE
    <3>1. PICK atoms : Calls(Call("QUERY", Toks[2], NoName, <<>>, atoms))
      BY <1>2, <2>1 DEF QueryCommand
    <3>2. call'.op = "QUERY"
      BY <3>1 DEF Calls, Call
    <3> QED BY <3>2
  <2> QED BY <2>1
<1>6. \A op \in {"BEGIN", "COMMIT", "ROLLBACK", "RESUME"} : ~NameCommand(op)
  BY DEF NameCommand, Calls, Call
<1>7. PICK op \in {"ADD", "DELETE"} : EditCommand(op)
  BY <1>3, <1>4, <1>5, <1>6 DEF ReadLine
<1> QED BY <1>7 DEF EditCommand, Calls, Call

LEMMA EditStep ==
    ASSUME TextsOK, [ReadLine \/ Typing]_lineVars
    PROVE  EditReadsFile
<1> DEFINE name  == Toks[4]
           lines == FileLines(files, name)
<1>1. SUFFICES ASSUME call' # call, call'.op \in {"ADD", "DELETE"}
      PROVE  /\ Len(call'.batch) = Cardinality(Meaningful(lines, Len(lines)))
             /\ \A k \in Meaningful(lines, Len(lines)) :
                    LineMeaning(lines[k]) = {call'.batch[Cardinality(Meaningful(lines, k))]}
  BY DEF EditReadsFile, Meaningful, FileLines
<1>2. ReadLine
  BY <1>1 DEF Typing, lineVars
<1>3. call'.batch = ParseCsvFile(files, name)
  BY <1>1, <1>2, EditsCall
<1>4. lines \in Seq(Text)
  BY DEF TextsOK, Text, FileLines
<1>5. lines = FileLines(files, name)
  OBVIOUS
<1> HIDE DEF name, lines
<1>6. PICK n \in Nat : n = Len(lines)
  BY <1>4
<1>7. \E f, S : /\ f \in [0 .. Len(lines) -> Seq(S)] /\ \A k \in 1 .. Len(lines) : Meant(lines, k) \in S
                /\ Fills(f, lines) /\ ParseCsvFile(files, name) = f[Len(lines)]
  BY ONLY <1>4, <1>5, BatchFills
<1>8. PICK f, S : /\ f \in [0 .. n -> Seq(S)] /\ \A k \in 1 .. n : Meant(lines, k) \in S
                  /\ Fills(f, lines) /\ ParseCsvFile(files, name) = f[n]
  BY ONLY <1>6, <1>7
<1>9. /\ Len(f[n]) = Cardinality(Meaningful(lines, n))
      /\ \A k \in Meaningful(lines, n) :
             LineMeaning(lines[k]) = {f[n][Cardinality(Meaningful(lines, k))]}
  BY ONLY <1>4, <1>6, <1>8, BatchMeans
<1> QED BY <1>3, <1>6, <1>8, <1>9

\* BatchIsTheFile, for all lines, files and bounds: ADD and DELETE are called
\* with the pairs of their file, each of them exactly, in their order, and
\* with nothing the file does not say.
THEOREM BatchesAreTheirFiles == LineSpec => BatchIsTheFile
<1>1. TextsOK /\ [ReadLine \/ Typing]_lineVars => TextsOK'
  BY TextsStay
<1>2. TextsOK /\ [ReadLine \/ Typing]_lineVars => EditReadsFile
  BY EditStep
<1> QED BY <1>1, <1>2, PTL DEF LineSpec, BatchIsTheFile

\* What a command to query hands to the database is some atoms.
CallOK == call.op = "QUERY" => call.atoms \in Seq(Atoms) \ {<<>>}

LEMMA BodyType ==
    ASSUME NEW text \in Text, NEW tid
    PROVE  Body(text, tid) \in Text
<1> DEFINE rest == {i \in DOMAIN text : i >= BodyStart(text, tid) /\ text[i] # Space}
<1>1. PICK n \in Nat : n = Len(text) /\ DOMAIN text = 1 .. n
  BY DEF Text
<1>2. Body(text, tid) = IF rest = {} THEN <<>> ELSE SubSeq(text, Min(rest), Len(text))
  BY DEF Body
<1>3. rest \in SUBSET Nat /\ rest \in SUBSET (1 .. n)
  BY <1>1
<1> HIDE DEF rest
<1>4. CASE rest = {}
  BY <1>2, <1>4, EmptySeq DEF Text
<1>5. CASE rest # {}
  <2>1. PICK i \in 1 .. n : i = Min(rest)
    BY <1>3, <1>5, LeastIs
  <2>2. text \in Seq(Char) /\ i \in Nat \ {0} /\ n \in Int /\ n <= Len(text)
    BY <1>1 DEF Text
  <2>3. SubSeq(text, i, n) \in Seq(Char)
    BY ONLY <2>2, PartType
  <2> QED BY <1>1, <1>2, <1>5, <2>1, <2>3 DEF Text
<1> QED BY <1>4, <1>5

LEMMA CallStep ==
    ASSUME TextsOK, CallOK, [ReadLine \/ Typing]_lineVars
    PROVE  CallOK'
<1>1. CASE ReadLine
  <2>1. SUFFICES ASSUME call'.op = "QUERY" PROVE call'.atoms \in Seq(Atoms) \ {<<>>}
    BY DEF CallOK
  <2>2. NoCall.op = "none"
    BY DEF NoCall, Call
  <2>3. \A text : ~Prints(text)
    BY <2>1, <2>2 DEF Prints
  <2>4. ~SkipLine /\ ~UnknownCommand /\ \A op, n : ~Usage(op, n)
    BY <2>3 DEF SkipLine, UnknownCommand, Usage
  <2>5. ~Quit
    BY <2>1, <2>2 DEF Quit
  <2>6. /\ \A op \in {"BEGIN", "COMMIT", "ROLLBACK", "RESUME"} : ~NameCommand(op)
        /\ \A op \in {"ADD", "DELETE"} : ~EditCommand(op)
    BY <2>1 DEF NameCommand, EditCommand, Calls, Call
  <2>7. QueryCommand
    BY <1>1, <2>4, <2>5, <2>6 DEF ReadLine
  <2>8. PICK atoms \in ParseQuery(Body(Strip(line), Toks[2])) : Calls(Call("QUERY", Toks[2], NoName, <<>>, atoms))
    BY <2>3, <2>7 DEF QueryCommand
  <2>9. line \in Text
    BY DEF TextsOK, Text
  <2>10. Body(Strip(line), Toks[2]) \in Text
    BY <2>9, TrimType, BodyType DEF Strip
  <2>11. atoms \in Seq(Atoms) \ {<<>>}
    BY <2>10, ParsesToQueries
  <2> QED BY <2>8, <2>11 DEF Calls, Call
<1>2. CASE Typing
  BY <1>2 DEF Typing, CallOK
<1>3. CASE UNCHANGED lineVars
  BY <1>3 DEF lineVars, CallOK
<1> QED BY <1>1, <1>2, <1>3

\* PrintingIsReadable, for all lines and bounds: whatever query main has asked
\* the database, if it is printed atom by atom it is read as the same query.
THEOREM QueriesPrintReadably == LineSpec => []PrintingIsReadable
<1>1. LineInit => CallOK
  BY DEF LineInit, NoCall, Call, CallOK
<1>2. TextsOK /\ [ReadLine \/ Typing]_lineVars => TextsOK'
  BY TextsStay
<1>3. TextsOK /\ CallOK /\ [ReadLine \/ Typing]_lineVars => CallOK'
  BY CallStep
<1>4. CallOK => PrintingIsReadable
  <2>1. SUFFICES ASSUME call.op = "QUERY", call.atoms \in Seq(Atoms) \ {<<>>} PROVE PrintingIsReadable
    BY DEF CallOK, PrintingIsReadable
  <2>2. ParseQuery(FlattenSeq(AtomsPrinted(call.atoms))) = {call.atoms}
    BY <2>1, PrintedReads
  <2> QED BY <2>2 DEF PrintingIsReadable, AtomsPrinted, Comma
<1> QED BY <1>1, <1>2, <1>3, <1>4, PTL DEF LineSpec
=============================================================================
