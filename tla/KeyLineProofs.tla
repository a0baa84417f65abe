---------------------------- MODULE KeyLineProofs ----------------------------
(***************************************************************************)
(* What KeyLine.tla's run checks of short lines and two sources, for lines *)
(* of any length and any number of sources.                                *)
(*                                                                         *)
(* First the tokenizer, the parser and the writer as operators on lines,   *)
(* by induction over the length of a line; then the machine that applies   *)
(* them.                                                                   *)
(***************************************************************************)
EXTENDS KeyLine, FiniteSetTheorems, SequenceTheorems, TLAPS

-----------------------------------------------------------------------------
(* Induction and the least and greatest of a set                           *)

LEMMA Least ==
  ASSUME NEW S, S \subseteq Nat, S # {}
  PROVE  Min(S) \in S /\ \A n \in S : Min(S) =< n
<1> DEFINE R == {ss \in Nat \X Nat : ss[1] < ss[2]}
<1>1. IsWellFoundedOn(R, Nat)
  BY NatLessThanWellFounded DEF OpToRel
<1>2. PICK m \in S : \A n \in S : ~ (<<n, m>> \in R)
  <2> HIDE DEF R
  <2> QED BY <1>1, WFMin
<1>3. ASSUME NEW n \in S, n < m PROVE FALSE
  <2>1. <<n, m>> \in Nat \X Nat /\ <<n, m>>[1] = n /\ <<n, m>>[2] = m
    OBVIOUS
  <2>2. <<n, m>> \in R
    BY <2>1, <1>3
  <2>3. QED
    BY <2>2, <1>2
<1>4. \A n \in S : m =< n
  BY <1>3
<1>5. QED
  BY <1>4 DEF Min

LEMMA Greatest ==
  ASSUME NEW S, S \subseteq Nat, S # {}, NEW bound \in Nat, \A n \in S : n =< bound
  PROVE  Max(S) \in S /\ \A n \in S : n =< Max(S)
<1> DEFINE T == {k \in Nat : \E n \in S : k = bound - n}
<1>1. T \subseteq Nat /\ T # {}
  <2>1. PICK n \in S : TRUE
    OBVIOUS
  <2>2. bound - n \in T
    OBVIOUS
  <2> QED BY <2>2
<1>2. Min(T) \in T /\ \A n \in T : Min(T) =< n
  BY <1>1, Least
<1>3. PICK m \in S : Min(T) = bound - m
  BY <1>2
<1>4. ASSUME NEW n \in S PROVE n =< m
  <2>1. bound - n \in T
    OBVIOUS
  <2> QED BY <2>1, <1>2, <1>3
<1>5. QED
  BY <1>4 DEF Max

\* Induction, with the set of the numbers for which it holds in the place of the
\* formula.
LEMMA SetInduction ==
  ASSUME NEW S, 0 \in S, \A n \in Nat : n \in S => n + 1 \in S
  PROVE  Nat \subseteq S
<1> DEFINE Out == Nat \ S
<1> SUFFICES ASSUME Out # {} PROVE FALSE
  OBVIOUS
<1>1. Min(Out) \in Out /\ \A n \in Out : Min(Out) =< n
  BY Least, Out \subseteq Nat
<1>2. Min(Out) # 0 /\ Min(Out) - 1 \in Nat /\ Min(Out) - 1 \notin Out
  BY <1>1
<1>3. QED
  BY <1>1, <1>2, (Min(Out) - 1) + 1 = Min(Out)

-----------------------------------------------------------------------------
(* The tokenizer                                                           *)

State == [quoted : BOOLEAN, escaped : BOOLEAN]
Start == [quoted |-> FALSE, escaped |-> FALSE]

\* What a scan is: the state before the first character, then after each.
IsScan(f, line, n) ==
  /\ f \in [0 .. n -> State]
  /\ f[0] = Start
  /\ \A i \in 1 .. n : f[i] = After(f[i - 1], line[i])

LEMMA AfterType == ASSUME NEW was \in State, NEW char PROVE After(was, char) \in State
BY DEF State, After

LEMMA AScan ==
  ASSUME NEW line
  PROVE  \A n \in Nat : \E f : IsScan(f, line, n)
<1> DEFINE S == {n \in Nat : \E f : IsScan(f, line, n)}
<1>1. 0 \in S
  <2>1. IsScan([i \in 0 .. 0 |-> Start], line, 0)
    BY DEF IsScan, State, Start
  <2> QED BY <2>1
<1>2. ASSUME NEW n \in Nat, n \in S PROVE n + 1 \in S
  <2>1. PICK f : IsScan(f, line, n)
    BY <1>2
  <2> DEFINE g == [i \in 0 .. n + 1 |-> IF i = n + 1 THEN After(f[n], line[n + 1]) ELSE f[i]]
  <2>2. f[n] \in State
    BY <2>1 DEF IsScan
  <2>3. After(f[n], line[n + 1]) \in State
    BY <2>2, AfterType
  <2>4. g \in [0 .. n + 1 -> State]
    BY <2>1, <2>3 DEF IsScan
  <2>5. g[0] = Start
    BY <2>1 DEF IsScan
  <2>6. ASSUME NEW i \in 1 .. n + 1 PROVE g[i] = After(g[i - 1], line[i])
    BY <2>1 DEF IsScan
  <2>7. IsScan(g, line, n + 1)
    BY <2>4, <2>5, <2>6 DEF IsScan
  <2> QED BY <2>7
<1> HIDE DEF S
<1>3. Nat \subseteq S
  BY <1>1, <1>2, SetInduction
<1> QED
  BY <1>3 DEF S

LEMMA ScanIs ==
  ASSUME NEW line \in Line
  PROVE  IsScan(Scan(line), line, Len(line))
<1> DEFINE n == Len(line)
           Recurses(g) == g = [i \in 0 .. n |-> IF i = 0 THEN Start ELSE After(g[i - 1], line[i])]
<1>1. n \in Nat
  BY DEF Line
<1>2. PICK f : IsScan(f, line, n)
  BY AScan, <1>1
<1>3. Recurses(f)
  BY <1>1, <1>2 DEF IsScan
<1>4. Scan(line) = CHOOSE g : Recurses(g)
  BY DEF Scan, Start
<1>5. Recurses(Scan(line))
  BY <1>3, <1>4
<1> DEFINE S == {i \in Nat : i =< n => Scan(line)[i] \in State}
<1> HIDE DEF n
<1>6. 0 \in S
  BY <1>1, <1>5 DEF State, Start
<1>7. ASSUME NEW i \in Nat, i \in S PROVE i + 1 \in S
  <2> SUFFICES ASSUME i + 1 =< n PROVE Scan(line)[i + 1] \in State
    OBVIOUS
  <2>1. Scan(line)[i + 1] = After(Scan(line)[i], line[i + 1])
    BY <1>1, <1>5
  <2> QED BY <1>1, <1>7, <2>1, AfterType
<1>8. Nat \subseteq S
  <2> HIDE DEF S
  <2> QED BY <1>6, <1>7, SetInduction
<1>9. \A i \in 0 .. n : Scan(line)[i] \in State
  BY <1>1, <1>8
<1> QED
  BY <1>1, <1>5, <1>9 DEF IsScan, n

\* The two bits after one more character.
LEMMA AfterBits ==
  ASSUME NEW was \in State, NEW char
  PROVE  /\ ~ was.escaped /\ char = "quote" => (After(was, char).quoted <=> ~ was.quoted)
         /\ was.escaped \/ char # "quote" => (After(was, char).quoted <=> was.quoted)
         /\ After(was, char).escaped <=>
              ~ was.escaped /\ was.quoted /\ char = "backslash"
BY DEF State, After

LEMMA ScanStart ==
  ASSUME NEW line \in Line
  PROVE  /\ Len(line) \in Nat
         /\ \A i \in 0 .. Len(line) : Scan(line)[i] \in State
         /\ ~ Scan(line)[0].quoted /\ ~ Scan(line)[0].escaped
BY ScanIs DEF IsScan, Start, Line

LEMMA ScanStep ==
  ASSUME NEW line \in Line, NEW i \in Nat, i + 1 =< Len(line)
  PROVE  /\ Scan(line)[i + 1] = After(Scan(line)[i], line[i + 1])
         /\ ~ Scan(line)[i].escaped /\ line[i + 1] = "quote" =>
              (Scan(line)[i + 1].quoted <=> ~ Scan(line)[i].quoted)
         /\ Scan(line)[i].escaped \/ line[i + 1] # "quote" =>
              (Scan(line)[i + 1].quoted <=> Scan(line)[i].quoted)
         /\ Scan(line)[i + 1].escaped <=>
              /\ ~ Scan(line)[i].escaped /\ Scan(line)[i].quoted
              /\ line[i + 1] = "backslash"
<1>1. Len(line) \in Nat /\ i \in 0 .. Len(line) /\ i + 1 \in 1 .. Len(line)
  BY DEF Line
<1>2. Scan(line)[i] \in State /\ Scan(line)[i + 1] = After(Scan(line)[i], line[i + 1])
  BY <1>1, ScanIs, (i + 1) - 1 = i DEF IsScan
<1> QED
  BY <1>2, AfterBits

\* Two lines that begin alike are scanned alike so far.
LEMMA SameBeginning ==
  ASSUME NEW a \in Line, NEW b \in Line, NEW n \in Nat, n =< Len(a), n =< Len(b),
         \A i \in 1 .. n : a[i] = b[i]
  PROVE  \A i \in 0 .. n : Scan(a)[i] = Scan(b)[i]
<1> DEFINE S == {i \in Nat : i =< n => Scan(a)[i] = Scan(b)[i]}
<1>1. 0 \in S
  BY ScanIs DEF IsScan
<1>2. ASSUME NEW i \in Nat, i \in S PROVE i + 1 \in S
  BY <1>2, ScanStart, ScanStep
<1>3. Nat \subseteq S
  <2> HIDE DEF S
  <2> QED BY <1>1, <1>2, SetInduction
<1> QED
  BY <1>3

\* Only inside quotes does a backslash escape.
LEMMA EscapedInside ==
  ASSUME NEW line \in Line
  PROVE  \A i \in 0 .. Len(line) : Scan(line)[i].escaped => Scan(line)[i].quoted
<1> DEFINE S == {i \in Nat : i =< Len(line) =>
                   (Scan(line)[i].escaped => Scan(line)[i].quoted)}
<1>1. 0 \in S
  BY ScanStart
<1>2. ASSUME NEW i \in Nat, i \in S PROVE i + 1 \in S
  <2> SUFFICES ASSUME i + 1 =< Len(line), Scan(line)[i + 1].escaped
               PROVE  Scan(line)[i + 1].quoted
    OBVIOUS
  <2>1. Scan(line)[i].quoted /\ line[i + 1] = "backslash"
    BY ScanStart, ScanStep
  <2> QED BY <2>1, ScanStart, ScanStep
<1>3. Nat \subseteq S
  <2> HIDE DEF S
  <2> QED BY <1>1, <1>2, SetInduction
<1> QED
  BY <1>3

\* Inside quotes, there was one.
LEMMA QuoteBefore ==
  ASSUME NEW line \in Line
  PROVE  \A i \in 0 .. Len(line) :
           Scan(line)[i].quoted => \E j \in 1 .. i : line[j] = "quote"
<1> DEFINE S == {i \in Nat : i =< Len(line) =>
                   (Scan(line)[i].quoted => \E j \in 1 .. i : line[j] = "quote")}
<1>1. 0 \in S
  BY ScanStart
<1>2. ASSUME NEW i \in Nat, i \in S PROVE i + 1 \in S
  <2> SUFFICES ASSUME i + 1 =< Len(line), Scan(line)[i + 1].quoted
               PROVE  \E j \in 1 .. i + 1 : line[j] = "quote"
    OBVIOUS
  <2>1. CASE line[i + 1] = "quote"
    BY <2>1
  <2>2. CASE line[i + 1] # "quote"
    BY <1>2, <2>2, ScanStart, ScanStep
  <2> QED BY <2>1, <2>2
<1>3. Nat \subseteq S
  <2> HIDE DEF S
  <2> QED BY <1>1, <1>2, SetInduction
<1> QED
  BY <1>3

\* Without another quote it stays inside.
LEMMA StaysQuoted ==
  ASSUME NEW line \in Line, NEW n \in 0 .. Len(line), Scan(line)[n].quoted,
         \A j \in n + 1 .. Len(line) : line[j] # "quote"
  PROVE  \A i \in n .. Len(line) : Scan(line)[i].quoted
<1> DEFINE S == {i \in Nat : n =< i /\ i =< Len(line) => Scan(line)[i].quoted}
<1>1. 0 \in S
  OBVIOUS
<1>2. ASSUME NEW i \in Nat, i \in S PROVE i + 1 \in S
  <2> SUFFICES ASSUME n =< i + 1, i + 1 =< Len(line) PROVE Scan(line)[i + 1].quoted
    OBVIOUS
  <2>1. CASE i + 1 = n
    BY <2>1
  <2>2. CASE n =< i
    BY <1>2, <2>2, ScanStart, ScanStep
  <2> QED BY <2>1, <2>2
<1>3. Nat \subseteq S
  <2> HIDE DEF S
  <2> QED BY <1>1, <1>2, SetInduction
<1> QED
  BY <1>3, ScanStart, ScanStep

(* Counting quotes and backslashes *)

LEMMA CountUp ==
  ASSUME NEW T, IsFiniteSet(T), T \subseteq Nat, NEW n \in Nat
  PROVE  /\ Before(T, n) \in Nat
         /\ Before(T, n + 1) = IF n \in T THEN Before(T, n) + 1 ELSE Before(T, n)
<1> DEFINE Low == {j \in T : j < n}
           Lower == {j \in T : j < n + 1}
<1>1. IsFiniteSet(Low)
  BY FS_Subset
<1>2. Cardinality(Low) \in Nat
  BY <1>1, FS_CardinalityType
<1>0. \A j \in T : j < n + 1 <=> j < n \/ j = n
  OBVIOUS
<1>3. CASE n \in T
  <2>1. Lower = Low \cup {n}
    BY <1>0, <1>3
  <2>0. n \notin Low
    OBVIOUS
  <2>2. Cardinality(Lower) = Cardinality(Low) + 1
    <3> HIDE DEF Low, Lower
    <3> QED BY <1>1, <2>0, <2>1, FS_AddElement
  <2> QED BY <1>2, <1>3, <2>2 DEF Before
<1>4. CASE n \notin T
  <2>1. Lower = Low
    BY <1>0, <1>4
  <2> QED BY <1>2, <1>4, <2>1 DEF Before
<1> QED
  BY <1>3, <1>4

LEMMA CountNone ==
  ASSUME NEW T, T \subseteq Nat \ {0}
  PROVE  Before(T, 1) = 0
<1>1. {j \in T : j < 1} = {}
  <2>1. \A j \in T : ~ (j < 1)
    OBVIOUS
  <2> QED BY <2>1
<1> QED
  BY <1>1, FS_EmptySet DEF Before

LEMMA BackslashRun ==
  ASSUME NEW line \in Line
  PROVE  /\ Backslashes(line, 1) = 0
         /\ \A i \in 1 .. Len(line) :
              /\ Backslashes(line, i) \in Nat
              /\ Backslashes(line, i + 1) =
                   IF line[i] = "backslash" THEN Backslashes(line, i) + 1 ELSE 0
<1> DEFINE R(i) == {j \in 1 .. i - 1 : \A k \in j .. i - 1 : line[k] = "backslash"}
<1>1. R(1) = {}
  OBVIOUS
<1>2. ASSUME NEW i \in 1 .. Len(line)
      PROVE  /\ IsFiniteSet(R(i))
             /\ Cardinality(R(i)) \in Nat
             /\ Cardinality(R(i + 1)) =
                  IF line[i] = "backslash" THEN Cardinality(R(i)) + 1 ELSE 0
  <2>0. i \in Nat
    BY DEF Line
  <2>1. IsFiniteSet(1 .. i - 1)
    BY <2>0, FS_Interval
  <2>2. IsFiniteSet(R(i))
    <3>1. R(i) \in SUBSET (1 .. i - 1)
      OBVIOUS
    <3> HIDE DEF R
    <3> QED BY <2>1, <3>1, FS_Subset
  <2>3. Cardinality(R(i)) \in Nat
    <3> HIDE DEF R
    <3> QED BY <2>2, FS_CardinalityType
  <2>4. CASE line[i] = "backslash"
    <3>1. R(i + 1) \subseteq R(i) \cup {i}
      BY <2>0
    <3>2. R(i) \cup {i} \subseteq R(i + 1)
      BY <2>0, <2>4
    <3>3. i \notin R(i)
      BY <2>0
    <3> HIDE DEF R
    <3> QED BY <2>2, <2>3, <2>4, <3>1, <3>2, <3>3, FS_AddElement
  <2>5. CASE line[i] # "backslash"
    <3>1. R(i + 1) = {}
      BY <2>0, <2>5
    <3> HIDE DEF R
    <3> QED BY <2>2, <2>3, <2>5, <3>1, FS_EmptySet
  <2> QED BY <2>2, <2>3, <2>4, <2>5
<1>3. Backslashes(line, 1) = 0
  BY <1>1, FS_EmptySet DEF Backslashes
<1> QED
  BY <1>2, <1>3 DEF Backslashes

\* The quotes that open or close.
Quotes(line) == {j \in DOMAIN line : line[j] = "quote" /\ ~ Scan(line)[j - 1].escaped}

LEMMA QuotesFinite ==
  ASSUME NEW line \in Line
  PROVE  /\ IsFiniteSet(Quotes(line)) /\ Quotes(line) \subseteq Nat \ {0}
         /\ Quotes(line) \subseteq {j \in DOMAIN line : line[j] = "quote"}
<1>1. DOMAIN line = 1 .. Len(line) /\ Len(line) \in Nat
  BY LenProperties DEF Line
<1>2. Quotes(line) \in SUBSET (1 .. Len(line))
  BY <1>1 DEF Quotes
<1>3. IsFiniteSet(1 .. Len(line))
  BY <1>1, FS_Interval
<1>4. IsFiniteSet(Quotes(line))
  BY <1>2, <1>3, FS_Subset
<1> QED
  BY <1>1, <1>2, <1>4 DEF Quotes

\* Inside is after an odd number of them.
LEMMA InsideIsOdd ==
  ASSUME NEW line \in Line
  PROVE  \A i \in 0 .. Len(line) :
           Scan(line)[i].quoted <=> Before(Quotes(line), i + 1) % 2 = 1
<1> DEFINE T == Quotes(line)
           S == {i \in Nat : i =< Len(line) =>
                   (Scan(line)[i].quoted <=> Before(T, i + 1) % 2 = 1)}
<1>0. IsFiniteSet(T) /\ T \subseteq Nat \ {0}
  BY QuotesFinite
<1>1. 0 \in S
  <2>1. Before(T, 1) = 0
    <3> HIDE DEF T
    <3> QED BY <1>0, CountNone
  <2> QED BY <2>1, ScanStart, ScanStep
<1>2. ASSUME NEW i \in Nat, i \in S PROVE i + 1 \in S
  <2> SUFFICES ASSUME i + 1 =< Len(line)
               PROVE  Scan(line)[i + 1].quoted <=> Before(T, i + 2) % 2 = 1
    OBVIOUS
  <2>1. /\ Before(T, i + 1) \in Nat
        /\ Before(T, i + 2) = IF i + 1 \in T THEN Before(T, i + 1) + 1
                              ELSE Before(T, i + 1)
    <3> HIDE DEF T
    <3>1. /\ Before(T, i + 1) \in Nat
          /\ Before(T, (i + 1) + 1) = IF i + 1 \in T THEN Before(T, i + 1) + 1
                                      ELSE Before(T, i + 1)
      BY <1>0, CountUp, i + 1 \in Nat
    <3> QED BY <3>1, (i + 1) + 1 = i + 2
  <2>2. i + 1 \in T <=> line[i + 1] = "quote" /\ ~ Scan(line)[i].escaped
    <3>1. i + 1 \in DOMAIN line
      BY LenProperties DEF Line
    <3> QED BY <3>1, (i + 1) - 1 = i DEF Quotes
  <2>3. Scan(line)[i].quoted <=> Before(T, i + 1) % 2 = 1
    BY <1>2
  <2>4. Scan(line)[i + 1].quoted <=>
          IF i + 1 \in T THEN ~ Scan(line)[i].quoted ELSE Scan(line)[i].quoted
    BY <2>2, ScanStart, ScanStep DEF State
  <2> QED
    <3> HIDE DEF T
    <3> QED BY <2>1, <2>3, <2>4
<1>3. Nat \subseteq S
  <2> HIDE DEF S
  <2> QED BY <1>1, <1>2, SetInduction
<1> QED
  BY <1>3

\* Escaped is after an odd number of backslashes, inside.
LEMMA EscapedIsOdd ==
  ASSUME NEW line \in Line
  PROVE  \A i \in 0 .. Len(line) :
           Scan(line)[i].escaped <=>
             Scan(line)[i].quoted /\ Backslashes(line, i + 1) % 2 = 1
<1> DEFINE S == {i \in Nat : i =< Len(line) =>
                   (Scan(line)[i].escaped <=>
                      Scan(line)[i].quoted /\ Backslashes(line, i + 1) % 2 = 1)}
<1>1. 0 \in S
  BY ScanStart, ScanStep, BackslashRun
<1>2. ASSUME NEW i \in Nat, i \in S PROVE i + 1 \in S
  <2> SUFFICES ASSUME i + 1 =< Len(line)
               PROVE  Scan(line)[i + 1].escaped <=>
                        /\ Scan(line)[i + 1].quoted
                        /\ Backslashes(line, i + 2) % 2 = 1
    OBVIOUS
  <2>1. /\ Backslashes(line, i + 1) \in Nat
        /\ Backslashes(line, i + 2) =
             IF line[i + 1] = "backslash" THEN Backslashes(line, i + 1) + 1 ELSE 0
    BY BackslashRun, i + 1 \in 1 .. Len(line), (i + 1) + 1 = i + 2
  <2>2. Scan(line)[i].escaped <=> Scan(line)[i].quoted /\ Backslashes(line, i + 1) % 2 = 1
    BY <1>2
  <2>3. CASE line[i + 1] = "backslash"
    <3>1. Scan(line)[i + 1].quoted <=> Scan(line)[i].quoted
      BY <2>3, ScanStart, ScanStep
    <3>2. Scan(line)[i + 1].escaped <=> ~ Scan(line)[i].escaped /\ Scan(line)[i].quoted
      BY <2>3, ScanStart, ScanStep
    <3> QED BY <2>1, <2>2, <2>3, <3>1, <3>2
  <2>4. CASE line[i + 1] # "backslash"
    <3>1. ~ Scan(line)[i + 1].escaped
      BY <2>4, ScanStart, ScanStep
    <3> QED BY <2>1, <2>4, <3>1
  <2> QED BY <2>3, <2>4
<1>3. Nat \subseteq S
  <2> HIDE DEF S
  <2> QED BY <1>1, <1>2, SetInduction
<1> QED
  BY <1>3

\* So they are the quotes that open or close as OptionsWhole tells them.
LEMMA QuotesToggle ==
  ASSUME NEW line \in Line
  PROVE  Toggles(line, Quotes(line))
<1> DEFINE T == Quotes(line)
<1> SUFFICES ASSUME NEW i \in DOMAIN line
             PROVE  i \in T <=> /\ line[i] = "quote"
                                /\ Before(T, i) % 2 = 0 \/ Backslashes(line, i) % 2 = 0
  BY DEF Toggles
<1>1. i \in 1 .. Len(line) /\ i - 1 \in 0 .. Len(line) /\ (i - 1) + 1 = i
  BY LenProperties DEF Line
<1>2. Before(T, i) \in Nat
  <2> HIDE DEF T
  <2> QED BY <1>1, QuotesFinite, CountUp DEF T
<1>3. Backslashes(line, i) \in Nat
  BY <1>1, BackslashRun
<1>4. Scan(line)[i - 1].quoted <=> Before(T, i) % 2 = 1
  BY <1>1, InsideIsOdd
<1>5. Scan(line)[i - 1].escaped <=>
        Scan(line)[i - 1].quoted /\ Backslashes(line, i) % 2 = 1
  BY <1>1, EscapedIsOdd
<1>6. i \in T <=> line[i] = "quote" /\ ~ Scan(line)[i - 1].escaped
  BY DEF Quotes
<1> HIDE DEF T
<1> QED
  BY <1>2, <1>3, <1>4, <1>5, <1>6

-----------------------------------------------------------------------------
(* Pieces of a line                                                        *)

LEMMA LineIs ==
  ASSUME NEW line \in Line
  PROVE  /\ Len(line) \in Nat /\ DOMAIN line = 1 .. Len(line)
         /\ \A i \in 1 .. Len(line) : line[i] \in Chars
         /\ line = <<>> <=> Len(line) = 0
BY LenProperties, ElementOfSeq, EmptySeq DEF Line

LEMMA Piece ==
  ASSUME NEW line \in Line, NEW m \in Nat \ {0}, NEW n \in Nat,
         m =< n + 1, n =< Len(line)
  PROVE  /\ SubSeq(line, m, n) \in Line
         /\ Len(SubSeq(line, m, n)) = n - m + 1
         /\ \A i \in 1 .. n - m + 1 : SubSeq(line, m, n)[i] = line[m + i - 1]
<1>1. \A i \in m .. n : line[i] \in Chars
  BY LineIs
<1> QED
  BY <1>1, SubSeqProperties, m \in Int, n \in Int DEF Line

LEMMA Behind ==
  ASSUME NEW line \in Line, NEW c \in Nat, NEW n \in Nat, c =< n, n =< Len(line)
  PROVE  /\ SubSeq(line, c + 1, n) \in Line
         /\ Len(SubSeq(line, c + 1, n)) = n - c
         /\ \A i \in 1 .. n - c : SubSeq(line, c + 1, n)[i] = line[c + i]
<1>1. /\ c + 1 \in Nat \ {0} /\ c + 1 =< n + 1 /\ n - (c + 1) + 1 = n - c
      /\ \A i \in 1 .. n - c : (c + 1) + i - 1 = c + i
  OBVIOUS
<1>2. /\ SubSeq(line, c + 1, n) \in Line
      /\ Len(SubSeq(line, c + 1, n)) = n - (c + 1) + 1
      /\ \A i \in 1 .. n - (c + 1) + 1 : SubSeq(line, c + 1, n)[i] = line[(c + 1) + i - 1]
  BY <1>1, Piece
<1> QED
  BY <1>1, <1>2

LEMMA Joined ==
  ASSUME NEW a \in Line, NEW b \in Line
  PROVE  /\ a \o b \in Line
         /\ Len(a \o b) = Len(a) + Len(b)
         /\ \A i \in 1 .. Len(a) + Len(b) :
              (a \o b)[i] = IF i =< Len(a) THEN a[i] ELSE b[i - Len(a)]
BY ConcatProperties DEF Line

LEMMA Short ==
  /\ <<>> \in Line /\ <<" ">> \in Line /\ Comment \in Line
  /\ Len(<<" ">>) = 1 /\ <<" ">>[1] = " "
  /\ Len(Comment) = 3 /\ Comment[1] = "x" /\ Comment[2] = "=" /\ Comment[3] = "x"
BY DEF Line, Chars, Comment

\* A line without spaces around it.
Trim(line) == line # <<>> => line[1] # " " /\ line[Len(line)] # " "

\* The first and the last of some places in a line.
LEMMA Places ==
  ASSUME NEW line \in Line, NEW T, T \subseteq DOMAIN line
  PROVE  /\ \A i \in T : i \in 1 .. Len(line)
         /\ T # {} => /\ Min(T) \in T /\ Min(T) \in 1 .. Len(line)
                      /\ Max(T) \in T /\ Max(T) \in 1 .. Len(line)
                      /\ \A i \in T : Min(T) =< i /\ i =< Max(T)
<1>1. Len(line) \in Nat /\ T \subseteq 1 .. Len(line)
  BY LineIs
<1>2. T \subseteq Nat /\ \A i \in T : i =< Len(line)
  BY <1>1
<1> QED
  BY <1>1, <1>2, Least, Greatest

LEMMA StripTrims ==
  ASSUME NEW line \in Line
  PROVE  Strip(line) \in Line /\ Trim(Strip(line))
<1> DEFINE ink == {i \in DOMAIN line : line[i] # " "}
           m == Min(ink)
           n == Max(ink)
<1>1. CASE ink = {}
  BY <1>1, Short DEF Strip, Trim
<1>2. CASE ink # {}
  <2>1. /\ m \in ink /\ m \in 1 .. Len(line)
        /\ n \in ink /\ n \in 1 .. Len(line)
        /\ m =< n
    <3>1. ink \subseteq DOMAIN line
      OBVIOUS
    <3> HIDE DEF ink
    <3> QED BY <1>2, <3>1, Places
  <2>2. line[m] # " " /\ line[n] # " "
    <3> HIDE DEF m, n
    <3> QED BY <2>1
  <2>3. Strip(line) = SubSeq(line, m, n)
    BY <1>2 DEF Strip
  <2> HIDE DEF m, n, ink
  <2>4. m \in Nat \ {0} /\ n \in Nat /\ m =< n + 1 /\ n =< Len(line)
    BY <2>1, LineIs
  <2>5. /\ Strip(line) \in Line /\ Len(Strip(line)) = n - m + 1
        /\ \A i \in 1 .. n - m + 1 : Strip(line)[i] = line[m + i - 1]
    BY <2>3, <2>4, Piece
  <2>6. Strip(line)[1] = line[m] /\ Strip(line)[n - m + 1] = line[n]
    BY <2>1, <2>4, <2>5
  <2> QED BY <2>2, <2>5, <2>6 DEF Trim
<1> QED
  BY <1>1, <1>2

LEMMA StripKeeps ==
  ASSUME NEW line \in Line, line # <<>>, Trim(line)
  PROVE  Strip(line) = line
<1> DEFINE ink == {i \in DOMAIN line : line[i] # " "}
<1>1. Len(line) \in Nat \ {0} /\ DOMAIN line = 1 .. Len(line)
  BY LineIs
<1>2. 1 \in ink /\ Len(line) \in ink
  <2>1. 1 \in DOMAIN line /\ Len(line) \in DOMAIN line
    BY <1>1
  <2> QED BY <2>1 DEF Trim
<1>3. Strip(line) = SubSeq(line, Min(ink), Max(ink))
  BY <1>2 DEF Strip
<1>4. ink \subseteq DOMAIN line
  OBVIOUS
<1> HIDE DEF ink
<1>5. Min(ink) = 1 /\ Max(ink) = Len(line)
  <2>1. /\ Min(ink) \in 1 .. Len(line) /\ Max(ink) \in 1 .. Len(line)
        /\ Min(ink) =< 1 /\ Len(line) =< Max(ink)
    BY <1>2, <1>4, Places
  <2> QED BY <1>1, <2>1
<1> QED
  BY <1>3, <1>5, SubSeqFull DEF Line

-----------------------------------------------------------------------------
(* The first token                                                         *)

\* Where it ends, and that it ends there first.
EndsAt(line, c) ==
  /\ c \in 1 .. Len(line) + 1
  /\ c =< Len(line) => line[c] = " " /\ ~ Scan(line)[c - 1].quoted
  /\ \A j \in 1 .. c - 1 : line[j] = " " => Scan(line)[j - 1].quoted

LEMMA CutIs ==
  ASSUME NEW line \in Line
  PROVE  EndsAt(line, Cut(line))
<1> DEFINE N == Len(line)
           ends == {i \in DOMAIN line : line[i] = " " /\ ~ Scan(line)[i - 1].quoted
                                                      /\ ~ Scan(line)[i - 1].escaped}
<1>1. N \in Nat /\ DOMAIN line = 1 .. N
  BY LineIs
<1>2. ends \subseteq DOMAIN line /\ Cut(line) = IF ends = {} THEN N + 1 ELSE Min(ends)
  BY DEF Cut
<1>3. \A i \in ends : line[i] = " " /\ ~ Scan(line)[i - 1].quoted
  OBVIOUS
<1>4. ASSUME NEW j \in 1 .. N, j \notin ends, line[j] = " "
      PROVE  Scan(line)[j - 1].quoted
  <2>1. Scan(line)[j - 1].quoted \/ Scan(line)[j - 1].escaped
    BY <1>1, <1>4
  <2> HIDE DEF ends, N
  <2>2. j - 1 \in 0 .. N
    BY <1>1
  <2> QED BY <2>1, <2>2, EscapedInside DEF N
<1> HIDE DEF ends
<1>5. ends # {} => /\ Min(ends) \in ends /\ Min(ends) \in 1 .. N
                   /\ \A i \in ends : Min(ends) =< i
  BY <1>2, Places
<1> HIDE DEF N
<1>6. Cut(line) \in 1 .. N + 1 /\ \A j \in 1 .. Cut(line) - 1 : j \in 1 .. N /\ j \notin ends
  BY <1>1, <1>2, <1>5
<1>7. Cut(line) =< N => Cut(line) \in ends
  BY <1>1, <1>2, <1>5
<1> QED
  BY <1>3, <1>4, <1>6, <1>7 DEF EndsAt, N

LEMMA CutOnlyThere ==
  ASSUME NEW line \in Line, NEW c \in Nat, EndsAt(line, c)
  PROVE  Cut(line) = c
<1> DEFINE N == Len(line)
           d == Cut(line)
<1>1. N \in Nat /\ c \in 1 .. N + 1 /\ EndsAt(line, d)
  BY CutIs, LineIs DEF EndsAt
<1>2. d \in 1 .. N + 1
  BY <1>1 DEF EndsAt
<1>3. /\ c =< N => line[c] = " " /\ ~ Scan(line)[c - 1].quoted
      /\ d =< N => line[d] = " " /\ ~ Scan(line)[d - 1].quoted
  BY <1>1 DEF EndsAt
<1>4. /\ \A j \in 1 .. c - 1 : line[j] = " " => Scan(line)[j - 1].quoted
      /\ \A j \in 1 .. d - 1 : line[j] = " " => Scan(line)[j - 1].quoted
  BY <1>1 DEF EndsAt
<1> HIDE DEF N, d
<1>5. ASSUME d < c PROVE FALSE
  <2>1. d =< N /\ d \in 1 .. c - 1
    BY <1>1, <1>2, <1>5
  <2> QED BY <1>3, <1>4, <2>1
<1>6. ASSUME c < d PROVE FALSE
  <2>1. c =< N /\ c \in 1 .. d - 1
    BY <1>1, <1>2, <1>6
  <2> QED BY <1>3, <1>4, <2>1
<1>7. c = d
  BY <1>1, <1>2, <1>5, <1>6
<1> QED
  BY <1>7 DEF d

-----------------------------------------------------------------------------
(* The fields                                                              *)

FirstSpace(line, p) ==
  p \in 1 .. Len(line) /\ line[p] = " " /\ \A j \in 1 .. p - 1 : line[j] # " "
NextSpace(line, p, q) ==
  q \in p + 1 .. Len(line) /\ line[q] = " " /\ \A j \in p + 1 .. q - 1 : line[j] # " "
LastSpace(line, p) == \A j \in p + 1 .. Len(line) : line[j] # " "

TwoFields(line, p) == <<SubSeq(line, 1, p - 1), SubSeq(line, p + 1, Len(line))>>
ThreeFields(line, p, q) ==
  <<SubSeq(line, 1, p - 1), SubSeq(line, p + 1, q - 1), SubSeq(line, q + 1, Len(line))>>

LEMMA SpacesIs ==
  ASSUME NEW line \in Line
  PROVE  /\ Spaces(line) \subseteq DOMAIN line /\ DOMAIN line = 1 .. Len(line)
         /\ \A i \in 1 .. Len(line) : i \in Spaces(line) <=> line[i] = " "
BY LineIs DEF Spaces

LEMMA FieldsCases ==
  ASSUME NEW line \in Line
  PROVE  \/ Fields(line) = <<line>>
         \/ \E p \in Nat : /\ FirstSpace(line, p) /\ LastSpace(line, p)
                           /\ Fields(line) = TwoFields(line, p)
         \/ \E p, q \in Nat : /\ FirstSpace(line, p) /\ NextSpace(line, p, q)
                              /\ Fields(line) = ThreeFields(line, p, q)
<1> DEFINE N == Len(line)
           one == Spaces(line)
           two == one \ {Min(one)}
           p == Min(one)
           q == Min(two)
<1>1. N \in Nat /\ one \subseteq DOMAIN line /\ two \subseteq DOMAIN line
  BY LineIs, SpacesIs
<1>2. \A i \in 1 .. N : i \in one <=> line[i] = " "
  BY SpacesIs
<1>3. one = {} => Fields(line) = <<line>>
  BY DEF Fields
<1>4. one # {} /\ two = {} => Fields(line) = TwoFields(line, p)
  BY DEF Fields, TwoFields
<1>5. one # {} /\ two # {} => Fields(line) = ThreeFields(line, p, q)
  BY DEF Fields, ThreeFields
<1>6. \A i : i \in two <=> i \in one /\ i # p
  OBVIOUS
<1> HIDE DEF one, two
<1>7. one # {} => p \in one /\ p \in 1 .. N /\ \A i \in one : p =< i
  BY <1>1, Places
<1>8. two # {} => q \in two /\ q \in 1 .. N /\ \A i \in two : q =< i
  BY <1>1, Places
<1> HIDE DEF p, q
<1>9. ASSUME one # {} PROVE p \in Nat /\ FirstSpace(line, p)
  <2>1. \A j \in 1 .. p - 1 : j \in 1 .. N /\ j \notin one
    BY <1>1, <1>7, <1>9
  <2>2. \A j \in 1 .. p - 1 : line[j] # " "
    BY <1>2, <2>1
  <2>3. p \in 1 .. N /\ p \in Nat
    BY <1>1, <1>7, <1>9
  <2>4. line[p] = " "
    BY <1>2, <1>7, <1>9
  <2> QED BY <2>2, <2>3, <2>4 DEF FirstSpace
<1>10. CASE one # {} /\ two = {}
  <2>1. \A j \in p + 1 .. N : j \in 1 .. N /\ j # p
    BY <1>1, <1>7, <1>10
  <2>2. LastSpace(line, p)
    BY <1>2, <1>6, <1>10, <2>1 DEF LastSpace
  <2> QED BY <1>4, <1>9, <1>10, <2>2
<1>11. CASE one # {} /\ two # {}
  <2>1. \A j \in p + 1 .. q - 1 : j \in 1 .. N /\ j # p /\ j \notin two
    BY <1>1, <1>7, <1>8, <1>11
  <2>2. \A j \in p + 1 .. q - 1 : line[j] # " "
    BY <1>2, <1>6, <2>1
  <2>3. q \in one /\ q # p
    BY <1>6, <1>8, <1>11
  <2>4. q \in p + 1 .. N /\ q \in Nat
    BY <1>1, <1>7, <1>8, <1>11, <2>3
  <2>5. line[q] = " "
    BY <1>2, <1>8, <1>11, <2>3
  <2>6. NextSpace(line, p, q)
    BY <2>2, <2>4, <2>5 DEF NextSpace
  <2> QED BY <1>5, <1>9, <1>11, <2>4, <2>6
<1> QED
  BY <1>3, <1>10, <1>11

LEMMA FieldsAre ==
  ASSUME NEW line \in Line, NEW p \in Nat, NEW q \in Nat,
         FirstSpace(line, p), NextSpace(line, p, q)
  PROVE  Fields(line) = ThreeFields(line, p, q)
<1> DEFINE N == Len(line)
           one == Spaces(line)
           two == one \ {Min(one)}
<1>1. N \in Nat /\ one \subseteq DOMAIN line /\ two \subseteq DOMAIN line
  BY LineIs, SpacesIs
<1>2. \A i \in 1 .. N : i \in one <=> line[i] = " "
  BY SpacesIs
<1>3. two # {} => Fields(line) = ThreeFields(line, Min(one), Min(two))
  BY DEF Fields, ThreeFields
<1>4. \A i : i \in two <=> i \in one /\ i # Min(one)
  OBVIOUS
<1>5. p \in 1 .. N /\ q \in p + 1 .. N
  BY DEF FirstSpace, NextSpace
<1>6. line[p] = " " /\ line[q] = " "
  BY DEF FirstSpace, NextSpace
<1>7. /\ \A j \in 1 .. p - 1 : line[j] # " "
      /\ \A j \in p + 1 .. q - 1 : line[j] # " "
  BY DEF FirstSpace, NextSpace
<1> HIDE DEF N, one, two
<1>8. q \in 1 .. N /\ p < q
  BY <1>1, <1>5
<1>9. p \in one /\ q \in one
  BY <1>2, <1>5, <1>6, <1>8
<1>10. \A j \in one : j \notin 1 .. p - 1 /\ j \notin p + 1 .. q - 1 /\ j \in 1 .. N
  <2>1. \A j \in one : j \in 1 .. N
    BY <1>1, Places DEF N
  <2> QED BY <1>2, <1>7, <2>1
<1>11. Min(one) = p
  <2>1. Min(one) \in one /\ Min(one) \in 1 .. N /\ Min(one) =< p
    BY <1>1, <1>9, Places DEF N
  <2>2. Min(one) \notin 1 .. p - 1
    BY <1>10, <2>1
  <2> QED BY <1>1, <1>5, <2>1, <2>2
<1>12. q \in two
  BY <1>4, <1>8, <1>9, <1>11
<1>13. Min(two) = q
  <2>1. Min(two) \in two /\ Min(two) \in 1 .. N /\ Min(two) =< q
    BY <1>1, <1>12, Places DEF N
  <2>2. Min(two) # p /\ Min(two) \notin 1 .. p - 1 /\ Min(two) \notin p + 1 .. q - 1
    BY <1>4, <1>10, <1>11, <2>1
  <2> QED BY <1>1, <1>5, <1>8, <2>1, <2>2
<1> QED
  BY <1>3, <1>11, <1>12, <1>13

-----------------------------------------------------------------------------
(* Joining the pieces                                                      *)

\* What stands between two pieces puts them together again.
LEMMA Rejoined ==
  ASSUME NEW line \in Line, NEW m \in Nat \ {0}, NEW n \in Nat, NEW p \in Nat,
         m =< p, p =< n, n =< Len(line)
  PROVE  (SubSeq(line, m, p - 1) \o <<line[p]>>) \o SubSeq(line, p + 1, n) = SubSeq(line, m, n)
<1> DEFINE a == SubSeq(line, m, p - 1)
           s == <<line[p]>>
           b == SubSeq(line, p + 1, n)
           c == SubSeq(line, m, n)
<1>0. Len(line) \in Nat
  BY LineIs
<1>1. /\ a \in Line /\ Len(a) = p - m
      /\ \A i \in 1 .. p - m : a[i] = line[m + i - 1]
  <2>1. p - 1 \in Nat /\ m =< (p - 1) + 1 /\ p - 1 =< Len(line) /\ (p - 1) - m + 1 = p - m
    BY <1>0
  <2> HIDE DEF a
  <2> QED BY <2>1, Piece DEF a
<1>2. /\ b \in Line /\ Len(b) = n - p
      /\ \A i \in 1 .. n - p : b[i] = line[p + i]
  BY Behind
<1>3. /\ c \in Line /\ Len(c) = n - m + 1
      /\ \A i \in 1 .. n - m + 1 : c[i] = line[m + i - 1]
  <2>1. m =< n + 1
    OBVIOUS
  <2> QED BY <2>1, Piece
<1>4. s \in Line /\ Len(s) = 1 /\ s[1] = line[p]
  <2>1. line[p] \in Chars
    BY <1>0, LineIs
  <2> QED BY <2>1 DEF Line
<1> HIDE DEF a, b, c, s
<1>5. /\ a \o s \in Line /\ Len(a \o s) = p - m + 1
      /\ \A i \in 1 .. p - m + 1 : (a \o s)[i] = line[m + i - 1]
  <2>1. /\ a \o s \in Line /\ Len(a \o s) = p - m + 1
        /\ \A i \in 1 .. p - m + 1 :
             (a \o s)[i] = IF i =< p - m THEN a[i] ELSE s[i - (p - m)]
    <3>1. /\ a \o s \in Line /\ Len(a \o s) = Len(a) + Len(s)
          /\ \A i \in 1 .. Len(a) + Len(s) :
               (a \o s)[i] = IF i =< Len(a) THEN a[i] ELSE s[i - Len(a)]
      BY <1>1, <1>4, Joined, Zenon
    <3> QED BY <1>1, <1>4, <3>1
  <2>2. ASSUME NEW i \in 1 .. p - m + 1 PROVE (a \o s)[i] = line[m + i - 1]
    <3>1. CASE i =< p - m
      BY <1>1, <2>1, <3>1
    <3>2. CASE i = p - m + 1
      <4>1. i - (p - m) = 1 /\ m + i - 1 = p /\ ~ (i =< p - m)
        BY <3>2
      <4> QED BY <1>4, <2>1, <4>1
    <3>3. i =< p - m \/ i = p - m + 1
      OBVIOUS
    <3> QED BY <3>1, <3>2, <3>3
  <2> QED BY <2>1, <2>2
<1>6. /\ (a \o s) \o b \in Line /\ Len((a \o s) \o b) = n - m + 1
      /\ \A i \in 1 .. n - m + 1 : ((a \o s) \o b)[i] = line[m + i - 1]
  <2>1. /\ (a \o s) \o b \in Line /\ Len((a \o s) \o b) = n - m + 1
        /\ \A i \in 1 .. n - m + 1 :
             ((a \o s) \o b)[i] = IF i =< p - m + 1 THEN (a \o s)[i]
                                  ELSE b[i - (p - m + 1)]
    <3>1. (p - m + 1) + (n - p) = n - m + 1
      OBVIOUS
    <3>2. /\ (a \o s) \o b \in Line /\ Len((a \o s) \o b) = Len(a \o s) + Len(b)
          /\ \A i \in 1 .. Len(a \o s) + Len(b) :
               ((a \o s) \o b)[i] = IF i =< Len(a \o s) THEN (a \o s)[i]
                                    ELSE b[i - Len(a \o s)]
      BY <1>2, <1>5, Joined, Zenon
    <3> QED BY <1>2, <1>5, <3>1, <3>2
  <2>2. ASSUME NEW i \in 1 .. n - m + 1 PROVE ((a \o s) \o b)[i] = line[m + i - 1]
    <3>1. CASE i =< p - m + 1
      BY <1>5, <2>1, <3>1
    <3>2. CASE ~ (i =< p - m + 1)
      <4>1. i - (p - m + 1) \in 1 .. n - p /\ p + (i - (p - m + 1)) = m + i - 1
        BY <3>2
      <4> QED BY <1>2, <2>1, <3>2, <4>1
    <3> QED BY <3>1, <3>2
  <2> QED BY <2>1, <2>2
<1>7. (a \o s) \o b = c
  BY <1>3, <1>6, SeqEqual DEF Line
<1> QED
  BY <1>7 DEF a, b, c, s

LEMMA Regrouped ==
  ASSUME NEW a \in Line, NEW c \in Line, NEW k \in Key
  PROVE  /\ ((a \o k.type) \o c) \o k.key = a \o ((k.type \o c) \o k.key)
         /\ (((a \o k.type) \o c) \o k.key) \o (c \o k.comment)
              = a \o ((k.type \o c) \o ((k.key \o c) \o k.comment))
<1> DEFINE b == k.type
           d == k.key
           e == k.comment
           bc == b \o c
           bcd == bc \o d
           ce == c \o e
<1>0. b \in Line /\ d \in Line /\ e \in Line
  BY DEF Key
<1> HIDE DEF b, d, e
<1>1. bc \in Line /\ bcd \in Line /\ ce \in Line
  BY <1>0, Joined
<1>2. (a \o b) \o c = a \o bc
  BY <1>0 DEF Line
<1>3. d \o ce = (d \o c) \o e
  BY <1>0 DEF Line
<1> HIDE DEF bc, ce
<1>4. (a \o bc) \o d = a \o bcd
  BY <1>0, <1>1 DEF Line
<1>5. bcd \o ce = bc \o (d \o ce)
  BY <1>0, <1>1 DEF Line
<1> HIDE DEF bcd
<1>6. (a \o bcd) \o ce = a \o (bcd \o ce)
  BY <1>1 DEF Line
<1> QED
  BY <1>2, <1>3, <1>4, <1>5, <1>6 DEF bc, bcd, ce, b, d, e

-----------------------------------------------------------------------------
(* A parsed line                                                           *)

\* The options of a line and what is behind them; parse calls neither by a name.
Options(line) ==
  IF FirstToken(line) # <<>> /\ IsOptionsPrefix(FirstToken(line))
  THEN FirstToken(line) ELSE <<>>
Rest(line) == IF Options(line) = <<>> THEN line ELSE Remainder(line)

\* How the options are written before the key.
Front(options) == IF options = <<>> THEN <<>> ELSE options \o <<" ">>

LEMMA FrontIs ==
  ASSUME NEW options \in Line
  PROVE  /\ Front(options) \in Line
         /\ Front(options) = IF options = <<>> THEN <<>> ELSE Append(options, " ")
<1>1. Append(options, " ") = options \o <<" ">>
  BY AppendIsConcat DEF Line, Chars
<1>2. options \o <<" ">> \in Line
  BY Short, Joined
<1> QED
  BY <1>1, <1>2, Short DEF Front

LEMMA TokenIs ==
  ASSUME NEW line \in Line
  PROVE  /\ Cut(line) \in 1 .. Len(line) + 1 /\ Len(line) \in Nat
         /\ FirstToken(line) \in Line /\ Len(FirstToken(line)) = Cut(line) - 1
         /\ Cut(line) =< Len(line) =>
              /\ line[Cut(line)] = " "
              /\ Remainder(line) \in Line
              /\ Len(Remainder(line)) = Len(line) - Cut(line)
              /\ \A i \in 1 .. Len(line) - Cut(line) : Remainder(line)[i] = line[Cut(line) + i]
         /\ ~ (Cut(line) =< Len(line)) => Remainder(line) = <<>> /\ FirstToken(line) = line
<1> DEFINE c == Cut(line)
           N == Len(line)
<1>1. N \in Nat /\ c \in 1 .. N + 1
  BY CutIs, LineIs DEF EndsAt
<1>2. c =< N => line[c] = " "
  BY CutIs DEF EndsAt
<1> HIDE DEF c
<1>3. SubSeq(line, 1, c - 1) \in Line /\ Len(SubSeq(line, 1, c - 1)) = c - 1
  <2>1. c - 1 \in Nat /\ 1 =< (c - 1) + 1 /\ c - 1 =< N /\ (c - 1) - 1 + 1 = c - 1
    BY <1>1
  <2> QED BY <2>1, Piece
<1>4. ASSUME c =< N
      PROVE  /\ SubSeq(line, c + 1, N) \in Line
             /\ Len(SubSeq(line, c + 1, N)) = N - c
             /\ \A i \in 1 .. N - c : SubSeq(line, c + 1, N)[i] = line[c + i]
  <2>1. c \in Nat /\ N =< N
    BY <1>1
  <2> QED BY <1>1, <1>4, <2>1, Behind, Zenon DEF N
<1>5. ASSUME ~ (c =< N)
      PROVE  SubSeq(line, c + 1, N) = <<>> /\ SubSeq(line, 1, c - 1) = line
  <2>1. c + 1 \in Int /\ N \in Int /\ N < c + 1 /\ c - 1 = N
    BY <1>1, <1>5
  <2>2. SubSeq(line, c + 1, N) = <<>>
    BY <2>1, SubSeqEmpty
  <2>3. SubSeq(line, 1, N) = line
    BY SubSeqFull DEF Line
  <2> QED BY <2>1, <2>2, <2>3
<1> QED
  BY <1>1, <1>2, <1>3, <1>4, <1>5 DEF FirstToken, Remainder, c

LEMMA RestIs ==
  ASSUME NEW line \in Line
  PROVE  /\ Options(line) \in Line /\ Rest(line) \in Line
         /\ Rest(line) # <<>> => /\ line = Front(Options(line)) \o Rest(line)
                                 /\ Rest(line)[Len(Rest(line))] = line[Len(line)]
         /\ Options(line) # <<>> => Options(line) = FirstToken(line)
         /\ Options(line) # <<>> /\ Rest(line) # <<>> => Cut(line) =< Len(line)
<1> DEFINE c == Cut(line)
           N == Len(line)
<1>1. CASE Options(line) = <<>>
  <2>1. Rest(line) = line /\ Front(Options(line)) = <<>>
    BY <1>1 DEF Rest, Front
  <2>2. line = <<>> \o line
    BY DEF Line
  <2> QED BY <1>1, <2>1, <2>2, Short
<1>2. CASE Options(line) # <<>>
  <2>1. Options(line) = FirstToken(line) /\ Rest(line) = Remainder(line)
    BY <1>2 DEF Options, Rest
  <2>2. CASE ~ (c =< N)
    BY <2>1, <2>2, TokenIs, Short
  <2>3. CASE c =< N
    <3>0. c \in 1 .. N + 1 /\ N \in Nat
      BY TokenIs
    <3>1. /\ Rest(line) \in Line /\ Len(Rest(line)) = N - c
          /\ \A i \in 1 .. N - c : Rest(line)[i] = line[c + i]
      BY <2>1, <2>3, TokenIs
    <3>2. (SubSeq(line, 1, c - 1) \o <<line[c]>>) \o SubSeq(line, c + 1, N)
            = SubSeq(line, 1, N)
      <4>1. c \in Nat /\ N \in Nat /\ 1 =< c /\ 1 \in Nat \ {0} /\ N =< Len(line)
        BY <3>0
      <4> HIDE DEF c, N
      <4> QED BY <2>3, <4>1, Rejoined, Zenon
    <3>3. SubSeq(line, 1, N) = line
      BY SubSeqFull DEF Line
    <3>4. line = Front(Options(line)) \o Rest(line)
      <4>1. line[c] = " "
        BY <2>3, TokenIs
      <4> QED BY <1>2, <2>1, <3>2, <3>3, <4>1 DEF Front, FirstToken, Remainder
    <3>5. Rest(line) # <<>> => Rest(line)[Len(Rest(line))] = line[N]
      <4> SUFFICES ASSUME Rest(line) # <<>> PROVE Rest(line)[Len(Rest(line))] = line[N]
        OBVIOUS
      <4>1. Len(Rest(line)) # 0
        BY <3>1, LineIs
      <4> HIDE DEF c, N
      <4>2. N - c \in 1 .. N - c /\ c + (N - c) = N
        BY <2>3, <3>0, <3>1, <4>1
      <4> QED BY <3>1, <4>2
    <3> QED BY <1>2, <2>1, <2>3, <3>1, <3>4, <3>5, TokenIs
  <2> QED BY <2>2, <2>3
<1> QED
  BY <1>1, <1>2

\* The parts of a key are where the spaces are.
Divided(k, rest, p) ==
  /\ FirstSpace(rest, p) /\ LastSpace(rest, p)
  /\ k.type = SubSeq(rest, 1, p - 1)
  /\ k.key = SubSeq(rest, p + 1, Len(rest))
  /\ k.comment = <<>>
DividedTwice(k, rest, p, q) ==
  /\ FirstSpace(rest, p) /\ NextSpace(rest, p, q)
  /\ k.type = SubSeq(rest, 1, p - 1)
  /\ k.key = SubSeq(rest, p + 1, q - 1)
  /\ k.comment = SubSeq(rest, q + 1, Len(rest))

LEMMA ParseIs ==
  ASSUME NEW line
  PROVE  Parse(line) =
           IF Len(Fields(Rest(line))) < 2 \/ ~ IsKeyType(Fields(Rest(line))[1]) THEN None
           ELSE [type |-> Fields(Rest(line))[1], key |-> Fields(Rest(line))[2],
                 options |-> Options(line),
                 comment |-> IF Len(Fields(Rest(line))) = 3
                             THEN Fields(Rest(line))[3] ELSE <<>>]
BY DEF Parse, Options, Rest

LEMMA Ranges ==
  ASSUME NEW line \in Line, NEW p \in Nat, FirstSpace(line, p)
  PROVE  /\ Len(line) \in Nat /\ 1 =< p /\ p =< Len(line)
         /\ \A q \in Nat : NextSpace(line, p, q) => p < q /\ q =< Len(line)
<1>1. Len(line) \in Nat
  BY LineIs
<1>2. p \in 1 .. Len(line)
  BY DEF FirstSpace
<1>3. \A q \in Nat : NextSpace(line, p, q) => q \in p + 1 .. Len(line)
  BY DEF NextSpace
<1> QED
  BY <1>1, <1>2, <1>3

LEMMA PartsTyped ==
  ASSUME NEW line \in Line, NEW p \in Nat, FirstSpace(line, p)
  PROVE  /\ SubSeq(line, 1, p - 1) \in Line
         /\ SubSeq(line, p + 1, Len(line)) \in Line
         /\ \A q \in Nat : NextSpace(line, p, q) =>
              /\ SubSeq(line, p + 1, q - 1) \in Line
              /\ SubSeq(line, q + 1, Len(line)) \in Line
              /\ Len(SubSeq(line, q + 1, Len(line))) = Len(line) - q
<1> DEFINE N == Len(line)
<1>1. N \in Nat /\ N =< Len(line) /\ 1 =< p /\ p =< N
  BY Ranges
<1>2. SubSeq(line, 1, p - 1) \in Line
  <2> HIDE DEF N
  <2>1. p - 1 \in Nat /\ 1 =< (p - 1) + 1 /\ p - 1 =< Len(line) /\ 1 \in Nat \ {0}
    BY <1>1 DEF N
  <2> QED BY <2>1, Piece
<1>3. SubSeq(line, p + 1, N) \in Line
  <2> HIDE DEF N
  <2> QED BY <1>1, Behind
<1>4. ASSUME NEW q \in Nat, NextSpace(line, p, q)
      PROVE  /\ SubSeq(line, p + 1, q - 1) \in Line
             /\ SubSeq(line, q + 1, N) \in Line
             /\ Len(SubSeq(line, q + 1, N)) = N - q
  <2>1. p < q /\ q =< N
    BY <1>4, Ranges
  <2> HIDE DEF N
  <2>2. q - 1 \in Nat /\ p =< q - 1 /\ q - 1 =< Len(line)
    BY <1>1, <2>1
  <2>3. SubSeq(line, p + 1, q - 1) \in Line
    BY <2>2, Behind
  <2> QED BY <1>1, <2>1, <2>3, Behind
<1> QED
  BY <1>2, <1>3, <1>4

LEMMA ParsedKey ==
  ASSUME NEW line \in Line, Parse(line) # None
  PROVE  /\ Parse(line) \in Key /\ Parse(line).options = Options(line)
         /\ IsKeyType(Parse(line).type)
         /\ \E p \in Nat : \/ Divided(Parse(line), Rest(line), p)
                           \/ \E q \in Nat : DividedTwice(Parse(line), Rest(line), p, q)
<1> DEFINE rest == Rest(line)
           f == Fields(rest)
           k == [type |-> f[1], key |-> f[2], options |-> Options(line),
                 comment |-> IF Len(f) = 3 THEN f[3] ELSE <<>>]
<1>1. Parse(line) = k /\ ~ (Len(f) < 2) /\ IsKeyType(f[1])
  BY ParseIs
<1>2. rest \in Line /\ Options(line) \in Line
  BY RestIs
<1> HIDE DEF rest
<1>3. f # <<rest>>
  BY <1>1
<1>4. ASSUME NEW p \in Nat, FirstSpace(rest, p), LastSpace(rest, p), f = TwoFields(rest, p)
      PROVE  k \in Key /\ Divided(k, rest, p)
  <2>1. /\ f[1] = SubSeq(rest, 1, p - 1) /\ f[2] = SubSeq(rest, p + 1, Len(rest))
        /\ Len(f) = 2
    BY <1>4 DEF TwoFields
  <2>2. f[1] \in Line /\ f[2] \in Line
    BY <1>2, <1>4, <2>1, PartsTyped
  <2> HIDE DEF f
  <2>3. k \in Key
    BY <1>2, <2>1, <2>2, Short DEF Key
  <2> QED BY <1>4, <2>1, <2>3 DEF Divided
<1>5. ASSUME NEW p \in Nat, NEW q \in Nat, FirstSpace(rest, p), NextSpace(rest, p, q),
             f = ThreeFields(rest, p, q)
      PROVE  k \in Key /\ DividedTwice(k, rest, p, q)
  <2>1. /\ f[1] = SubSeq(rest, 1, p - 1) /\ f[2] = SubSeq(rest, p + 1, q - 1)
        /\ f[3] = SubSeq(rest, q + 1, Len(rest)) /\ Len(f) = 3
    BY <1>5 DEF ThreeFields
  <2>2. f[1] \in Line /\ f[2] \in Line /\ f[3] \in Line
    BY <1>2, <1>5, <2>1, PartsTyped
  <2> HIDE DEF f
  <2>3. k \in Key
    BY <1>2, <2>1, <2>2 DEF Key
  <2> QED BY <1>5, <2>1, <2>3 DEF DividedTwice
<1>6. /\ k \in Key
      /\ \E p \in Nat : \/ Divided(k, rest, p)
                        \/ \E q \in Nat : DividedTwice(k, rest, p, q)
  <2> HIDE DEF k, f
  <2> QED BY <1>2, <1>3, <1>4, <1>5, FieldsCases DEF f
<1>7. k.options = Options(line) /\ k.type = f[1]
  <2> HIDE DEF f
  <2> QED OBVIOUS
<1> QED
  BY <1>1, <1>6, <1>7 DEF rest

LEMMA StrIs ==
  ASSUME NEW k \in Key
  PROVE  /\ Str(k) \in Line
         /\ k.comment = <<>> =>
              Str(k) = ((Front(k.options) \o k.type) \o <<" ">>) \o k.key
         /\ k.comment # <<>> =>
              Str(k) = (((Front(k.options) \o k.type) \o <<" ">>) \o k.key)
                         \o (<<" ">> \o k.comment)
<1>1. k.type \in Line /\ k.key \in Line /\ k.comment \in Line /\ k.options \in Line
  BY DEF Key
<1> DEFINE front == Front(k.options)
           body == ((front \o k.type) \o <<" ">>) \o k.key
           tail == <<" ">> \o k.comment
<1>2. front \in Line /\ Str(k) = body \o (IF k.comment = <<>> THEN <<>> ELSE tail)
  BY <1>1, FrontIs DEF Str
<1>3. body \in Line /\ tail \in Line
  <2> HIDE DEF front
  <2>1. front \o k.type \in Line
    BY <1>1, <1>2, Joined
  <2>2. (front \o k.type) \o <<" ">> \in Line
    BY <2>1, Short, Joined
  <2> QED BY <1>1, <2>2, Short, Joined
<1> HIDE DEF front, body, tail
<1>4. body \o <<>> = body /\ body \o tail \in Line
  BY <1>3, ConcatEmptySeq, Joined DEF Line
<1> QED
  BY <1>2, <1>3, <1>4 DEF front, body, tail

LEMMA SomeLength ==
  ASSUME NEW a \in Line, NEW b \in Line, b # <<>>
  PROVE  a \o b # <<>>
BY DEF Line

\* A key is written as the line it was parsed from.
LEMMA KeyText ==
  ASSUME NEW line \in Line, Trim(line), Parse(line) # None
  PROVE  /\ Str(Parse(line)) = line
         /\ Parse(line).comment = <<>> =>
              \E p \in Nat : Divided(Parse(line), Rest(line), p)
<1> DEFINE k == Parse(line)
           rest == Rest(line)
           N == Len(rest)
           s == <<" ">>
           front == Front(k.options)
<1>1. /\ k \in Key /\ k.options = Options(line)
      /\ \E p \in Nat : \/ Divided(k, rest, p)
                        \/ \E q \in Nat : DividedTwice(k, rest, p, q)
  BY ParsedKey
<1>2. /\ rest \in Line
      /\ rest # <<>> => line = front \o rest /\ rest[N] = line[Len(line)]
  BY <1>1, RestIs
<1>3. /\ k.type \in Line /\ k.key \in Line /\ k.comment \in Line
      /\ front \in Line /\ s \in Line /\ N \in Nat
  BY <1>1, <1>2, FrontIs, Short, LineIs DEF Key
<1>4. /\ k.comment = <<>> => Str(k) = ((front \o k.type) \o s) \o k.key
      /\ k.comment # <<>> => Str(k) = (((front \o k.type) \o s) \o k.key) \o (s \o k.comment)
  BY <1>1, StrIs
<1>5. Trim(line)
  OBVIOUS
<1>6. rest \in Line /\ N \in Nat /\ SubSeq(rest, 1, N) = rest
  BY <1>2, <1>3, SubSeqFull DEF Line
<1> HIDE DEF k, rest, front, s
<1>7. ASSUME NEW p \in Nat, FirstSpace(rest, p)
      PROVE  /\ rest # <<>> /\ rest[p] = " " /\ 1 =< p /\ p =< N
             /\ (SubSeq(rest, 1, p - 1) \o s) \o SubSeq(rest, p + 1, N) = rest
  <2>1. 1 =< p /\ p =< N /\ N =< Len(rest) /\ 1 \in Nat \ {0}
    BY <1>2, <1>7, Ranges
  <2>2. (SubSeq(rest, 1, p - 1) \o <<rest[p]>>) \o SubSeq(rest, p + 1, N)
          = SubSeq(rest, 1, N)
    BY <1>6, <2>1, Rejoined, Zenon
  <2>3. rest[p] = " "
    BY <1>7 DEF FirstSpace
  <2>4. rest # <<>>
    BY <1>2, <1>3, <2>1, LineIs
  <2>5. (SubSeq(rest, 1, p - 1) \o s) \o SubSeq(rest, p + 1, N) = rest
    BY <1>6, <2>2, <2>3, Zenon DEF s
  <2> QED BY <2>1, <2>3, <2>4, <2>5
<1>8. ASSUME NEW p \in Nat, Divided(k, rest, p) PROVE Str(k) = line
  <2>1. /\ FirstSpace(rest, p) /\ k.comment = <<>>
        /\ k.type = SubSeq(rest, 1, p - 1) /\ k.key = SubSeq(rest, p + 1, N)
    BY <1>8 DEF Divided
  <2>2. (k.type \o s) \o k.key = rest /\ line = front \o rest
    BY <1>2, <1>7, <2>1
  <2>3. ((front \o k.type) \o s) \o k.key = front \o ((k.type \o s) \o k.key)
    BY <1>1, <1>3, Regrouped, Zenon
  <2> QED BY <1>4, <2>1, <2>2, <2>3
<1>9. ASSUME NEW p \in Nat, NEW q \in Nat, DividedTwice(k, rest, p, q)
      PROVE  k.comment # <<>> /\ Str(k) = line
  <2>1. /\ FirstSpace(rest, p) /\ NextSpace(rest, p, q)
        /\ k.type = SubSeq(rest, 1, p - 1) /\ k.key = SubSeq(rest, p + 1, q - 1)
        /\ k.comment = SubSeq(rest, q + 1, N)
    BY <1>9 DEF DividedTwice
  <2>2. rest[q] = " "
    BY <2>1 DEF NextSpace
  <2>3. p < q /\ q =< N
    BY <1>2, <2>1, Ranges
  <2>4. (SubSeq(rest, p + 1, q - 1) \o s) \o SubSeq(rest, q + 1, N) = SubSeq(rest, p + 1, N)
    <3>1. p + 1 \in Nat \ {0} /\ p + 1 =< q /\ N =< Len(rest)
      BY <2>3
    <3>2. (SubSeq(rest, p + 1, q - 1) \o <<rest[q]>>) \o SubSeq(rest, q + 1, N)
            = SubSeq(rest, p + 1, N)
      BY <1>6, <2>3, <3>1, Rejoined, Zenon
    <3> QED BY <2>2, <3>2, Zenon DEF s
  <2>5. (k.type \o s) \o ((k.key \o s) \o k.comment) = rest /\ line = front \o rest
    BY <1>2, <1>7, <2>1, <2>4, Zenon
  <2>6. (((front \o k.type) \o s) \o k.key) \o (s \o k.comment)
          = front \o ((k.type \o s) \o ((k.key \o s) \o k.comment))
    BY <1>1, <1>3, Regrouped, Zenon
  <2>7. k.comment # <<>>
    <3>1. line # <<>>
      BY <1>2, <1>3, <1>7, <2>1, SomeLength
    <3>2. rest[N] # " "
      BY <1>2, <1>5, <1>7, <2>1, <3>1 DEF Trim
    <3>3. q # N
      BY <2>2, <3>2
    <3>4. Len(k.comment) = N - q
      BY <1>2, <2>1, PartsTyped
    <3>5. Len(k.comment) # 0
      BY <1>3, <2>3, <3>3, <3>4
    <3> QED BY <1>3, <3>5, LineIs
  <2> QED BY <1>4, <2>5, <2>6, <2>7
<1> QED
  BY <1>1, <1>8, <1>9 DEF k, rest

\* Sanitised, it may have the comment of a key without one behind it.
LEMMA SanitizedText ==
  ASSUME NEW k \in Key
  PROVE  /\ Sanitize(k) \in Key
         /\ Sanitize(k) = IF k.comment = <<>> THEN [k EXCEPT !.comment = Comment] ELSE k
         /\ k.comment = <<>> => Str(Sanitize(k)) = (Str(k) \o <<" ">>) \o Comment
         /\ Identity(Sanitize(k)) = Identity(k)
<1>1. Sanitize(k) \in Key /\ Identity(Sanitize(k)) = Identity(k)
  BY Short DEF Sanitize, Key, Identity
<1>2. ASSUME k.comment = <<>> PROVE Str(Sanitize(k)) = (Str(k) \o <<" ">>) \o Comment
  <2> DEFINE n == Sanitize(k)
  <2>1. /\ n.comment = Comment /\ n.options = k.options
        /\ n.type = k.type /\ n.key = k.key
    BY <1>2 DEF Sanitize, Key
  <2>2. n \in Key /\ Comment # <<>>
    <3>1. n \in Key
      BY <1>1
    <3>2. Comment # <<>>
      BY DEF Comment
    <3> QED BY <3>1, <3>2
  <2> HIDE DEF n
  <2>3. Str(n) = (((Front(k.options) \o k.type) \o <<" ">>) \o k.key) \o (<<" ">> \o Comment)
    BY <2>1, <2>2, StrIs
  <2>4. Str(n) = Str(k) \o (<<" ">> \o Comment) /\ Str(k) \in Line
    BY <1>2, <2>3, StrIs
  <2>5. Str(k) \o (<<" ">> \o Comment) = (Str(k) \o <<" ">>) \o Comment
    <3> DEFINE a == Str(k)
               b == <<" ">>
               c == Comment
    <3>1. a \in Line /\ b \in Line /\ c \in Line
      BY <2>4, Short
    <3> HIDE DEF a, b, c
    <3>2. a \o (b \o c) = (a \o b) \o c
      BY <3>1 DEF Line
    <3> QED BY <3>2 DEF a, b, c
  <2> QED BY <2>4, <2>5 DEF n
<1> QED
  BY <1>1, <1>2 DEF Sanitize

-----------------------------------------------------------------------------
(* The text of a key, parsed again                                         *)

LEMMA SamePiece ==
  ASSUME NEW a \in Line, NEW b \in Line, NEW m \in Nat \ {0}, NEW n \in Nat,
         m =< n + 1, n =< Len(a), n =< Len(b), \A i \in 1 .. n : a[i] = b[i]
  PROVE  SubSeq(a, m, n) = SubSeq(b, m, n)
<1> DEFINE x == SubSeq(a, m, n)
           y == SubSeq(b, m, n)
<1>1. x \in Line /\ Len(x) = n - m + 1 /\ \A i \in 1 .. n - m + 1 : x[i] = a[m + i - 1]
  BY Piece
<1>2. y \in Line /\ Len(y) = n - m + 1 /\ \A i \in 1 .. n - m + 1 : y[i] = b[m + i - 1]
  BY Piece
<1> HIDE DEF x, y
<1>3. \A i \in 1 .. n - m + 1 : m + i - 1 \in 1 .. n
  OBVIOUS
<1>4. x = y
  BY <1>1, <1>2, <1>3, SeqEqual DEF Line
<1> QED
  BY <1>4 DEF x, y

LEMMA BlankIs ==
  ASSUME NEW line \in Line, Trim(line)
  PROVE  Blank(line) <=> line = <<>> \/ line[1] = "#"
<1>1. CASE line = <<>>
  <2>1. Strip(line) = <<>>
    BY <1>1 DEF Strip
  <2> QED BY <1>1, <2>1 DEF Blank
<1>2. CASE line # <<>>
  BY <1>2, StripKeeps DEF Blank
<1> QED
  BY <1>1, <1>2

\* A line and the comment behind it.
Long(line) == (line \o <<" ">>) \o Comment

LEMMA LongIs ==
  ASSUME NEW line \in Line
  PROVE  /\ Long(line) \in Line /\ Len(Long(line)) = Len(line) + 4 /\ Len(line) \in Nat
         /\ \A i \in 1 .. Len(line) : Long(line)[i] = line[i]
         /\ Long(line)[Len(line) + 1] = " " /\ Long(line)[Len(line) + 2] = "x"
         /\ Long(line)[Len(line) + 3] = "=" /\ Long(line)[Len(line) + 4] = "x"
<1> DEFINE N == Len(line)
           s == <<" ">>
           a == line \o s
           c == Comment
<1>1. N \in Nat
  BY LineIs
<1>2. s \in Line /\ Len(s) = 1 /\ c \in Line /\ Len(c) = 3
  BY Short
<1> HIDE DEF s, c
<1>3. /\ a \in Line /\ Len(a) = N + 1
      /\ \A i \in 1 .. N + 1 : a[i] = IF i =< N THEN line[i] ELSE s[i - N]
  <2>1. /\ a \in Line /\ Len(a) = N + Len(s)
        /\ \A i \in 1 .. N + Len(s) : a[i] = IF i =< N THEN line[i] ELSE s[i - N]
    BY <1>2, Joined, Zenon
  <2> QED BY <1>2, <2>1
<1> HIDE DEF a
<1>4. /\ a \o c \in Line /\ Len(a \o c) = N + 4
      /\ \A i \in 1 .. N + 4 : (a \o c)[i] = IF i =< N + 1 THEN a[i] ELSE c[i - (N + 1)]
  <2>1. /\ a \o c \in Line /\ Len(a \o c) = Len(a) + Len(c)
        /\ \A i \in 1 .. Len(a) + Len(c) :
             (a \o c)[i] = IF i =< Len(a) THEN a[i] ELSE c[i - Len(a)]
    BY <1>2, <1>3, Joined, Zenon
  <2>2. (N + 1) + 3 = N + 4
    BY <1>1
  <2> QED BY <1>2, <1>3, <2>1, <2>2
<1>5. \A i \in 1 .. N : (a \o c)[i] = line[i]
  BY <1>1, <1>3, <1>4
<1>6. /\ (a \o c)[N + 1] = s[1] /\ (a \o c)[N + 2] = c[1]
      /\ (a \o c)[N + 3] = c[2] /\ (a \o c)[N + 4] = c[3]
  <2> HIDE DEF N
  <2>1. /\ (a \o c)[N + 1] = a[N + 1] /\ (a \o c)[N + 2] = c[(N + 2) - (N + 1)]
        /\ (a \o c)[N + 3] = c[(N + 3) - (N + 1)] /\ (a \o c)[N + 4] = c[(N + 4) - (N + 1)]
    BY <1>1, <1>4
  <2>2. a[N + 1] = s[(N + 1) - N]
    BY <1>1, <1>3
  <2>3. /\ (N + 2) - (N + 1) = 1 /\ (N + 3) - (N + 1) = 2 /\ (N + 4) - (N + 1) = 3
        /\ (N + 1) - N = 1
    BY <1>1
  <2> QED BY <2>1, <2>2, <2>3
<1>7. s[1] = " " /\ c[1] = "x" /\ c[2] = "=" /\ c[3] = "x"
  BY Short DEF s, c
<1> QED
  BY <1>1, <1>4, <1>5, <1>6, <1>7 DEF Long, a, s, c

LEMMA LongScan ==
  ASSUME NEW line \in Line
  PROVE  \A i \in 0 .. Len(line) : Scan(Long(line))[i] = Scan(line)[i]
<1> DEFINE N == Len(line)
           long == Long(line)
<1>1. /\ long \in Line /\ N \in Nat /\ N =< Len(long) /\ N =< Len(line)
      /\ \A i \in 1 .. N : long[i] = line[i]
  <2>1. /\ long \in Line /\ Len(long) = N + 4 /\ N \in Nat
        /\ \A i \in 1 .. N : long[i] = line[i]
    BY LongIs
  <2> HIDE DEF long
  <2> QED BY <2>1
<1> HIDE DEF long
<1>2. \A i \in 0 .. N : Scan(long)[i] = Scan(line)[i]
  BY <1>1, SameBeginning
<1> QED
  BY <1>2 DEF long

\* A line that ends inside quotes is one token, with the comment as without it.
LEMMA LongQuoted ==
  ASSUME NEW line \in Line, Trim(line), line # <<>>, Parse(line) # None,
         Scan(line)[Len(line)].quoted, Cut(line) = Len(line) + 1
  PROVE  /\ Parse(Long(line)) = None
         /\ \E j \in DOMAIN Parse(line).type : Parse(line).type[j] = "quote"
<1> DEFINE N == Len(line)
           long == Long(line)
<1>1. N \in Nat /\ long \in Line /\ Len(long) = N + 4
  BY LongIs
<1>2. \A i \in 0 .. N : Scan(long)[i] = Scan(line)[i]
  BY LongScan
<1>3. \A i \in 1 .. N : long[i] = line[i]
  BY LongIs
<1>4. long[N + 1] = " " /\ long[N + 2] = "x" /\ long[N + 3] = "=" /\ long[N + 4] = "x"
  BY LongIs
<1>5. \A j \in 1 .. N : line[j] = " " => Scan(line)[j - 1].quoted
  <2>1. EndsAt(line, N + 1)
    BY CutIs
  <2>2. (N + 1) - 1 = N
    BY <1>1
  <2> QED BY <2>1, <2>2 DEF EndsAt
<1>6. Scan(line)[N].quoted
  OBVIOUS
<1>7. ASSUME NEW j \in 1 .. N + 4
      PROVE  j \in 1 .. N \/ j = N + 1 \/ j = N + 2 \/ j = N + 3 \/ j = N + 4
  <2> HIDE DEF N
  <2> QED BY <1>1
<1> HIDE DEF N, long
<1>8. \A i \in N .. N + 4 : Scan(long)[i].quoted
  <2>1. Scan(long)[N].quoted
    BY <1>1, <1>2, <1>6
  <2>2. \A j \in N + 1 .. N + 4 : j \in 1 .. N + 4 /\ j \notin 1 .. N
    BY <1>1
  <2>3. \A j \in N + 1 .. N + 4 : long[j] # "quote"
    BY <1>4, <1>7, <2>2
  <2>4. N \in 0 .. Len(long)
    BY <1>1
  <2> QED BY <1>1, <2>1, <2>3, <2>4, StaysQuoted
<1>9. EndsAt(long, N + 5)
  <2>1. N + 5 \in 1 .. Len(long) + 1 /\ ~ (N + 5 =< Len(long)) /\ (N + 5) - 1 = N + 4
    BY <1>1
  <2>2. ASSUME NEW j \in 1 .. N + 4, long[j] = " " PROVE Scan(long)[j - 1].quoted
    <3>1. CASE j \in 1 .. N
      <4>1. line[j] = " "
        BY <1>3, <2>2, <3>1
      <4>2. Scan(line)[j - 1].quoted
        BY <1>5, <3>1, <4>1
      <4>3. j - 1 \in 0 .. N
        BY <1>1, <3>1
      <4> QED BY <1>2, <4>2, <4>3
    <3>2. CASE j \notin 1 .. N
      <4>1. j - 1 \in N .. N + 4
        BY <1>1, <3>2
      <4> QED BY <1>8, <4>1
    <3> QED BY <3>1, <3>2
  <2> QED BY <2>1, <2>2 DEF EndsAt
<1>10. Cut(long) = N + 5
  BY <1>1, <1>9, CutOnlyThere
<1>11. Remainder(long) = <<>> /\ FirstToken(long) = long
  <2>1. ~ (Cut(long) =< Len(long))
    BY <1>1, <1>10
  <2> QED BY <1>1, <2>1, TokenIs
<1>12. long # <<>> /\ IsOptionsPrefix(long)
  <2>1. Len(long) # 0 /\ N + 3 \in 1 .. Len(long)
    BY <1>1
  <2>2. N + 3 \in DOMAIN long /\ long # <<>>
    BY <1>1, <2>1, LineIs
  <2> QED BY <1>4, <2>2 DEF IsOptionsPrefix
<1>13. Rest(long) = <<>>
  BY <1>11, <1>12 DEF Rest, Options
<1>14. Len(Fields(<<>>)) = 1
  BY DEF Fields, Spaces
<1>15. Parse(long) = None
  BY <1>13, <1>14, ParseIs
<1>16. \E j \in DOMAIN Parse(line).type : Parse(line).type[j] = "quote"
  <2>1. PICK p \in Nat : /\ FirstSpace(Rest(line), p)
                         /\ Parse(line).type = SubSeq(Rest(line), 1, p - 1)
    BY ParsedKey DEF Divided, DividedTwice
  <2>2. Rest(line) \in Line /\ Rest(line) # <<>>
    <3>1. Rest(line) \in Line
      BY RestIs
    <3>2. Len(Rest(line)) # 0
      BY <2>1, <3>1, Ranges
    <3> QED BY <3>1, <3>2, LineIs
  <2>3. Options(line) = <<>>
    <3>1. ~ (Cut(line) =< Len(line))
      BY <1>1 DEF N
    <3> QED BY <2>2, <3>1, RestIs
  <2>4. FirstSpace(line, p) /\ Parse(line).type = SubSeq(line, 1, p - 1)
    BY <2>1, <2>3 DEF Rest
  <2>5. 1 =< p /\ p =< N
    BY <2>4, Ranges DEF N
  <2>6. line[p] = " "
    BY <2>4 DEF FirstSpace
  <2>7. Scan(line)[p - 1].quoted
    <3>1. p \in 1 .. N
      BY <1>1, <2>5
    <3> QED BY <1>5, <2>6, <3>1
  <2>8. PICK j \in 1 .. p - 1 : line[j] = "quote"
    <3>1. p - 1 \in 0 .. Len(line)
      BY <1>1, <2>5 DEF N
    <3> QED BY <2>7, <3>1, QuoteBefore
  <2>9. /\ SubSeq(line, 1, p - 1) \in Line /\ Len(SubSeq(line, 1, p - 1)) = p - 1
        /\ \A i \in 1 .. p - 1 : SubSeq(line, 1, p - 1)[i] = line[i]
    <3>1. /\ 1 \in Nat \ {0} /\ p - 1 \in Nat /\ 1 =< (p - 1) + 1 /\ p - 1 =< Len(line)
          /\ (p - 1) - 1 + 1 = p - 1 /\ \A i \in 1 .. p - 1 : 1 + i - 1 = i
      BY <1>1, <2>5 DEF N
    <3>2. /\ SubSeq(line, 1, p - 1) \in Line
          /\ Len(SubSeq(line, 1, p - 1)) = (p - 1) - 1 + 1
          /\ \A i \in 1 .. (p - 1) - 1 + 1 : SubSeq(line, 1, p - 1)[i] = line[1 + i - 1]
      BY <3>1, Piece
    <3> QED BY <3>1, <3>2
  <2> QED BY <2>4, <2>8, <2>9, LineIs
<1> QED
  BY <1>15, <1>16 DEF long

\* Any other is cut where it was, and the comment is the third field.
LEMMA LongCut ==
  ASSUME NEW line \in Line, Cut(line) =< Len(line) \/ ~ Scan(line)[Len(line)].quoted
  PROVE  /\ Cut(Long(line)) = Cut(line)
         /\ FirstToken(Long(line)) = FirstToken(line)
         /\ Options(Long(line)) = Options(line)
<1> DEFINE N == Len(line)
           c == Cut(line)
           long == Long(line)
<1>1. N \in Nat /\ long \in Line /\ Len(long) = N + 4
  BY LongIs
<1>2. \A i \in 0 .. N : Scan(long)[i] = Scan(line)[i]
  BY LongScan
<1>3. \A i \in 1 .. N : long[i] = line[i]
  BY LongIs
<1>4. long[N + 1] = " "
  BY LongIs
<1>0. c \in 1 .. N + 1
  BY TokenIs
<1>5. /\ c =< N => line[c] = " " /\ ~ Scan(line)[c - 1].quoted
      /\ \A j \in 1 .. c - 1 : line[j] = " " => Scan(line)[j - 1].quoted
  BY CutIs DEF EndsAt
<1>6. c =< N \/ ~ Scan(line)[N].quoted
  OBVIOUS
<1> HIDE DEF N, long, c
<1>7. long[c] = " " /\ ~ Scan(long)[c - 1].quoted
  <2>1. CASE c =< N
    <3>1. c \in 1 .. N /\ c - 1 \in 0 .. N
      BY <1>0, <1>1, <2>1
    <3> QED BY <1>2, <1>3, <1>5, <2>1, <3>1
  <2>2. CASE ~ (c =< N)
    <3>1. c = N + 1 /\ c - 1 = N /\ N \in 0 .. N
      BY <1>0, <1>1, <2>2
    <3> QED BY <1>2, <1>4, <1>6, <2>2, <3>1
  <2> QED BY <2>1, <2>2
<1>8. \A j \in 1 .. c - 1 : j \in 1 .. N /\ j - 1 \in 0 .. N
  BY <1>0, <1>1
<1>9. \A j \in 1 .. c - 1 : long[j] = " " => Scan(long)[j - 1].quoted
  BY <1>2, <1>3, <1>5, <1>8
<1>10. c \in Nat /\ c \in 1 .. Len(long) + 1
  BY <1>0, <1>1
<1>11. EndsAt(long, c)
  BY <1>7, <1>9, <1>10 DEF EndsAt
<1>12. Cut(long) = c
  BY <1>1, <1>10, <1>11, CutOnlyThere
<1>13. SubSeq(long, 1, c - 1) = SubSeq(line, 1, c - 1)
  <2>1. /\ c - 1 \in Nat /\ 1 =< (c - 1) + 1 /\ c - 1 =< Len(long) /\ c - 1 =< Len(line)
        /\ 1 \in Nat \ {0}
    BY <1>0, <1>1 DEF N
  <2>2. \A i \in 1 .. c - 1 : long[i] = line[i]
    BY <1>3, <1>8
  <2> QED BY <1>1, <2>1, <2>2, SamePiece
<1>14. FirstToken(long) = FirstToken(line)
  BY <1>12, <1>13 DEF FirstToken, c
<1> QED
  BY <1>12, <1>14 DEF Options, c, long

LEMMA LongRest ==
  ASSUME NEW line \in Line, Cut(line) =< Len(line) \/ ~ Scan(line)[Len(line)].quoted,
         Rest(line) # <<>>
  PROVE  /\ Rest(line) \in Line /\ Rest(Long(line)) \in Line
         /\ Len(Rest(Long(line))) = Len(Rest(line)) + 4
         /\ \A i \in 1 .. Len(Rest(line)) : Rest(Long(line))[i] = Rest(line)[i]
         /\ \E d \in Nat : /\ Len(Rest(line)) + d = Len(line)
                           /\ \A i \in 1 .. Len(Rest(line)) + 4 :
                                Rest(Long(line))[i] = Long(line)[i + d]
<1> DEFINE N == Len(line)
           long == Long(line)
           rest == Rest(line)
           c == Cut(line)
<1>1. N \in Nat /\ long \in Line /\ Len(long) = N + 4
  BY LongIs
<1>2. \A i \in 1 .. N : long[i] = line[i]
  BY LongIs
<1>3. Options(long) = Options(line) /\ Cut(long) = c
  BY LongCut
<1>4. CASE Options(line) = <<>>
  <2>1. rest = line /\ Rest(long) = long
    BY <1>3, <1>4 DEF Rest
  <2>2. N + 0 = N /\ \A i \in 1 .. N + 4 : i + 0 = i
    BY <1>1
  <2> HIDE DEF long
  <2> QED BY <1>1, <1>2, <2>1, <2>2 DEF long
<1>5. CASE Options(line) # <<>>
  <2>1. rest = Remainder(line) /\ Rest(long) = Remainder(long) /\ c =< N
    BY <1>3, <1>5, RestIs DEF Rest
  <2>2. c \in 1 .. N + 1
    BY TokenIs
  <2>3. Cut(long) =< Len(long)
    BY <1>1, <1>3, <2>1, <2>2
  <2>4. /\ Remainder(line) \in Line /\ Len(Remainder(line)) = N - c
        /\ \A i \in 1 .. N - c : Remainder(line)[i] = line[c + i]
    BY <2>1, TokenIs
  <2>5. /\ Remainder(long) \in Line /\ Len(Remainder(long)) = (N + 4) - c
        /\ \A i \in 1 .. (N + 4) - c : Remainder(long)[i] = long[c + i]
    <3> HIDE DEF long, N, c
    <3>1. /\ Remainder(long) \in Line /\ Len(Remainder(long)) = Len(long) - Cut(long)
          /\ \A i \in 1 .. Len(long) - Cut(long) : Remainder(long)[i] = long[Cut(long) + i]
      BY <1>1, <2>3, TokenIs, Zenon
    <3> QED BY <1>1, <1>3, <3>1
  <2> HIDE DEF rest, long, N, c
  <2>6. (N + 4) - c = (N - c) + 4 /\ (N - c) + c = N /\ c \in Nat
    BY <1>1, <2>1, <2>2
  <2>7. \A i \in 1 .. N - c : c + i \in 1 .. N /\ i \in 1 .. (N + 4) - c
    BY <1>1, <2>1, <2>2
  <2>8. \A i \in 1 .. (N - c) + 4 : c + i = i + c
    BY <1>1, <2>1, <2>2
  <2>9. \A i \in 1 .. N - c : Rest(long)[i] = rest[i]
    BY <1>2, <2>1, <2>4, <2>5, <2>7
  <2>10. \A i \in 1 .. (N - c) + 4 : Rest(long)[i] = long[i + c]
    BY <2>1, <2>5, <2>6, <2>8
  <2>11. rest \in Line /\ Rest(long) \in Line /\ Len(rest) = N - c /\ Len(Rest(long)) = (N - c) + 4
    BY <2>1, <2>4, <2>5, <2>6
  <2> QED BY <2>6, <2>9, <2>10, <2>11 DEF rest, long, N
<1> QED
  BY <1>4, <1>5

LEMMA LongPlain ==
  ASSUME NEW line \in Line, Trim(line), line # <<>>, Parse(line) # None,
         Parse(line).comment = <<>>,
         Cut(line) =< Len(line) \/ ~ Scan(line)[Len(line)].quoted
  PROVE  Parse(Long(line)) = [Parse(line) EXCEPT !.comment = Comment]
<1> DEFINE k == Parse(line)
           rest == Rest(line)
           more == Rest(Long(line))
           M == Len(rest)
<1>1. PICK p \in Nat : Divided(k, rest, p)
  BY KeyText
<1>2. /\ FirstSpace(rest, p) /\ LastSpace(rest, p)
      /\ k.type = SubSeq(rest, 1, p - 1) /\ k.key = SubSeq(rest, p + 1, M)
  BY <1>1 DEF Divided
<1>3. rest \in Line /\ rest # <<>> /\ M \in Nat /\ 1 =< p /\ p =< M
  <2>1. rest \in Line
    BY RestIs
  <2>2. M \in Nat /\ 1 =< p /\ p =< M
    BY <1>2, <2>1, Ranges
  <2> HIDE DEF rest
  <2>3. M # 0
    BY <2>2
  <2> QED BY <2>1, <2>2, <2>3, LineIs
<1>4. /\ more \in Line /\ Len(more) = M + 4
      /\ \A i \in 1 .. M : more[i] = rest[i]
  BY <1>3, LongRest
<1>5. PICK d \in Nat : /\ M + d = Len(line)
                       /\ \A i \in 1 .. M + 4 : more[i] = Long(line)[i + d]
  BY <1>3, LongRest
<1>6. k \in Key /\ k.options = Options(line) /\ IsKeyType(k.type)
  BY ParsedKey
<1>7. Options(Long(line)) = Options(line)
  BY LongCut
<1> HIDE DEF k, rest, more, M
<1>8. /\ more[M + 1] = " " /\ more[M + 2] = "x"
      /\ more[M + 3] = "=" /\ more[M + 4] = "x"
  <2> DEFINE long == Long(line)
             N == Len(line)
  <2>1. long[N + 1] = " " /\ long[N + 2] = "x" /\ long[N + 3] = "=" /\ long[N + 4] = "x"
    BY LongIs
  <2>2. \A i \in 1 .. M + 4 : more[i] = long[i + d]
    BY <1>5
  <2> HIDE DEF long
  <2>3. /\ (M + 1) + d = N + 1 /\ (M + 2) + d = N + 2
        /\ (M + 3) + d = N + 3 /\ (M + 4) + d = N + 4
    <3>1. M + d = N
      BY <1>5
    <3> HIDE DEF N
    <3> QED BY <1>3, <3>1
  <2>4. /\ M + 1 \in 1 .. M + 4 /\ M + 2 \in 1 .. M + 4
        /\ M + 3 \in 1 .. M + 4 /\ M + 4 \in 1 .. M + 4
    BY <1>3
  <2>5. /\ more[M + 1] = long[N + 1] /\ more[M + 2] = long[N + 2]
        /\ more[M + 3] = long[N + 3] /\ more[M + 4] = long[N + 4]
    <3> HIDE DEF N
    <3> QED BY <2>2, <2>3, <2>4
  <2> QED BY <2>1, <2>5
<1>9. FirstSpace(more, p)
  <2>1. p \in 1 .. M /\ p \in 1 .. Len(more) /\ \A j \in 1 .. p - 1 : j \in 1 .. M
    BY <1>3, <1>4
  <2>2. rest[p] = " " /\ \A j \in 1 .. p - 1 : rest[j] # " "
    BY <1>2 DEF FirstSpace
  <2> QED BY <1>4, <2>1, <2>2 DEF FirstSpace
<1>10. NextSpace(more, p, M + 1)
  <2>1. M + 1 \in p + 1 .. Len(more) /\ (M + 1) - 1 = M
    BY <1>3, <1>4
  <2>2. \A j \in p + 1 .. M : j \in 1 .. M
    BY <1>3
  <2>3. \A j \in p + 1 .. M : rest[j] # " "
    BY <1>2 DEF LastSpace, M
  <2>4. \A j \in p + 1 .. M : more[j] # " "
    BY <1>4, <2>2, <2>3
  <2> QED BY <1>8, <2>1, <2>4 DEF NextSpace
<1>11. Fields(more) = ThreeFields(more, p, M + 1)
  <2>1. M + 1 \in Nat
    BY <1>3
  <2> QED BY <1>4, <1>9, <1>10, <2>1, FieldsAre, Zenon
<1>12. SubSeq(more, 1, p - 1) = k.type
  <2>1. /\ p - 1 \in Nat /\ 1 =< (p - 1) + 1 /\ p - 1 =< Len(more) /\ p - 1 =< Len(rest)
        /\ 1 \in Nat \ {0} /\ \A i \in 1 .. p - 1 : i \in 1 .. M
    BY <1>3, <1>4 DEF M
  <2>2. \A i \in 1 .. p - 1 : more[i] = rest[i]
    BY <1>4, <2>1
  <2>3. SubSeq(more, 1, p - 1) = SubSeq(rest, 1, p - 1)
    BY <1>3, <1>4, <2>1, <2>2, SamePiece
  <2> QED BY <1>2, <2>3
<1>13. SubSeq(more, p + 1, (M + 1) - 1) = k.key
  <2>1. /\ p + 1 \in Nat \ {0} /\ p + 1 =< M + 1 /\ M =< Len(more) /\ M =< Len(rest)
        /\ (M + 1) - 1 = M
    BY <1>3, <1>4 DEF M
  <2>2. SubSeq(more, p + 1, M) = SubSeq(rest, p + 1, M)
    BY <1>3, <1>4, <2>1, SamePiece
  <2> QED BY <1>2, <2>1, <2>2
<1>14. SubSeq(more, (M + 1) + 1, Len(more)) = Comment
  <2> DEFINE end == SubSeq(more, (M + 1) + 1, Len(more))
  <2>1. /\ end \in Line /\ Len(end) = 3
        /\ \A i \in 1 .. 3 : end[i] = more[(M + 1) + i]
    <3>1. /\ M + 1 \in Nat /\ M + 4 \in Nat /\ M + 1 =< M + 4 /\ M + 4 =< Len(more)
          /\ (M + 4) - (M + 1) = 3
      BY <1>3, <1>4
    <3>2. /\ SubSeq(more, (M + 1) + 1, M + 4) \in Line
          /\ Len(SubSeq(more, (M + 1) + 1, M + 4)) = (M + 4) - (M + 1)
          /\ \A i \in 1 .. (M + 4) - (M + 1) :
               SubSeq(more, (M + 1) + 1, M + 4)[i] = more[(M + 1) + i]
      BY <1>4, <3>1, Behind, Zenon
    <3> QED BY <1>4, <3>1, <3>2
  <2> HIDE DEF end
  <2>2. (M + 1) + 1 = M + 2 /\ (M + 1) + 2 = M + 3 /\ (M + 1) + 3 = M + 4
    BY <1>3
  <2>3. end[1] = more[M + 2] /\ end[2] = more[M + 3] /\ end[3] = more[M + 4]
    BY <2>1, <2>2
  <2>4. \A i \in 1 .. 3 : i = 1 \/ i = 2 \/ i = 3
    OBVIOUS
  <2>5. \A i \in 1 .. 3 : end[i] = Comment[i]
    BY <1>8, <2>3, <2>4, Short
  <2>6. end = Comment
    <3>1. Comment \in Line /\ Len(Comment) = 3
      BY Short
    <3> QED BY <2>1, <2>5, <3>1, SeqEqual DEF Line
  <2> QED BY <2>6 DEF end
<1>15. /\ Fields(more)[1] = k.type /\ Fields(more)[2] = k.key
       /\ Fields(more)[3] = Comment /\ Len(Fields(more)) = 3
  BY <1>11, <1>12, <1>13, <1>14 DEF ThreeFields
<1>16. Parse(Long(line)) = [type |-> k.type, key |-> k.key, options |-> k.options,
                            comment |-> Comment]
  <2> DEFINE f == Fields(Rest(Long(line)))
  <2>1. f[1] = k.type /\ f[2] = k.key /\ f[3] = Comment /\ Len(f) = 3
    BY <1>15 DEF more
  <2>2. Parse(Long(line)) =
          IF Len(f) < 2 \/ ~ IsKeyType(f[1]) THEN None
          ELSE [type |-> f[1], key |-> f[2], options |-> Options(Long(line)),
                comment |-> IF Len(f) = 3 THEN f[3] ELSE <<>>]
    BY ParseIs
  <2> HIDE DEF f
  <2> QED BY <1>6, <1>7, <2>1, <2>2
<1>17. [type |-> k.type, key |-> k.key, options |-> k.options, comment |-> Comment]
         = [k EXCEPT !.comment = Comment]
  BY <1>6 DEF Key
<1> QED
  BY <1>16, <1>17 DEF k

\* So a line that parses is written as it is, or with the comment, and what is
\* written is the line of a list, not blank, and parses as the key that was written.
LEMMA Reparsed ==
  ASSUME NEW line \in Line, Trim(line), ~ Blank(line), Parse(line) # None
  PROVE  LET k == Sanitize(Parse(line))
         IN  /\ k \in Key
             /\ Str(k) \in Line
             /\ Str(k) \in {line, Long(line)}
             /\ Strip(Str(k)) = Str(k) /\ ~ Blank(Str(k))
             /\ \/ Parse(Str(k)) = k
                \/ /\ Parse(Str(k)) = None
                   /\ \E j \in DOMAIN k.type : k.type[j] = "quote"
<1> DEFINE old == Parse(line)
           k == Sanitize(old)
           str == Str(k)
<1>1. line # <<>> /\ line[1] # "#" /\ line[1] # " "
  BY BlankIs DEF Trim
<1>2. old \in Key /\ Str(old) = line
  BY ParsedKey, KeyText
<1>3. /\ k \in Key
      /\ k = IF old.comment = <<>> THEN [old EXCEPT !.comment = Comment] ELSE old
      /\ old.comment = <<>> => str = Long(line)
  BY <1>2, SanitizedText DEF Long
<1>4. CASE old.comment # <<>>
  <2>1. k = old /\ str = line /\ Parse(str) = k
    BY <1>2, <1>3, <1>4
  <2>2. Strip(str) = str /\ ~ Blank(str)
    BY <1>1, <2>1, StripKeeps
  <2> QED BY <1>3, <2>1, <2>2
<1>5. CASE old.comment = <<>>
  <2>1. str = Long(line) /\ k = [old EXCEPT !.comment = Comment]
    BY <1>3, <1>5
  <2>2. str \in Line /\ str # <<>> /\ str[1] = line[1] /\ str[Len(str)] = "x"
    <3> DEFINE N == Len(line)
               long == Long(line)
    <3>1. long \in Line /\ Len(long) = N + 4 /\ N \in Nat
      BY LongIs
    <3>2. (\A i \in 1 .. N : long[i] = line[i]) /\ long[N + 4] = "x"
      BY LongIs
    <3>3. N # 0
      BY <1>1, LineIs
    <3> HIDE DEF N, long
    <3>4. 1 \in 1 .. N /\ Len(long) # 0
      BY <3>1, <3>3
    <3>5. long # <<>>
      BY <3>1, <3>4, LineIs
    <3>6. long[1] = line[1] /\ long[Len(long)] = "x"
      BY <3>1, <3>2, <3>4
    <3> QED BY <2>1, <3>1, <3>5, <3>6 DEF long
  <2>3. Trim(str)
    BY <1>1, <2>2 DEF Trim
  <2>4. Strip(str) = str /\ ~ Blank(str)
    <3> HIDE DEF str
    <3> QED BY <1>1, <2>2, <2>3, StripKeeps, BlankIs
  <2>5. CASE Cut(line) =< Len(line) \/ ~ Scan(line)[Len(line)].quoted
    <3>1. Parse(Long(line)) = [old EXCEPT !.comment = Comment]
      BY <1>1, <1>5, <2>5, LongPlain
    <3> QED BY <1>3, <2>1, <2>2, <2>4, <3>1
  <2>6. CASE ~ (Cut(line) =< Len(line) \/ ~ Scan(line)[Len(line)].quoted)
    <3>1. Cut(line) = Len(line) + 1
      <4>1. Cut(line) \in 1 .. Len(line) + 1 /\ Len(line) \in Nat
        BY TokenIs
      <4> QED BY <2>6, <4>1
    <3>2. /\ Parse(Long(line)) = None
          /\ \E j \in DOMAIN old.type : old.type[j] = "quote"
      BY <1>1, <2>6, <3>1, LongQuoted
    <3>3. k.type = old.type
      BY <1>2, <2>1 DEF Key
    <3> QED BY <1>3, <2>1, <2>2, <2>4, <3>2, <3>3
  <2> QED BY <2>5, <2>6
<1> QED
  BY <1>4, <1>5

\* The options of a line end where its first space outside quotes is.
LEMMA OptionsEnd ==
  ASSUME NEW line \in Line, Parse(line) # None, Parse(line).options # <<>>
  PROVE  LET end == Len(Parse(line).options)
         IN  /\ end < Len(line)
             /\ SubSeq(line, 1, end) = Parse(line).options
             /\ \E T \in SUBSET {j \in DOMAIN line : line[j] = "quote"} :
                  /\ Toggles(line, T)
                  /\ line[end + 1] = " " /\ Before(T, end + 1) % 2 = 0
                  /\ \A j \in 1 .. end : line[j] = " " => Before(T, j) % 2 = 1
<1> DEFINE options == Parse(line).options
           end == Len(options)
           T == Quotes(line)
           c == Cut(line)
<1>1. options = Options(line) /\ Rest(line) # <<>>
  <2>1. PICK p \in Nat : FirstSpace(Rest(line), p)
    BY ParsedKey DEF Divided, DividedTwice
  <2>2. Rest(line) \in Line
    BY RestIs
  <2>3. Len(Rest(line)) # 0
    BY <2>1, <2>2, Ranges
  <2> QED BY <2>2, <2>3, LineIs, ParsedKey
<1>2. options = FirstToken(line) /\ c =< Len(line)
  BY <1>1, RestIs
<1>3. /\ Len(line) \in Nat /\ c \in 1 .. Len(line) + 1 /\ end = c - 1
  BY <1>2, TokenIs
<1>4. options = SubSeq(line, 1, c - 1)
  BY <1>2 DEF FirstToken
<1>5. EndsAt(line, c)
  BY CutIs
<1> HIDE DEF options, end, c
<1>6. /\ c = end + 1 /\ end < Len(line) /\ end \in 0 .. Len(line) /\ c - 1 = end
      /\ \A j \in 1 .. end : j - 1 \in 0 .. Len(line) /\ (j - 1) + 1 = j
  BY <1>2, <1>3
<1>7. line[end + 1] = " " /\ ~ Scan(line)[end].quoted
  BY <1>2, <1>5, <1>6 DEF EndsAt
<1>8. \A j \in 1 .. end : line[j] = " " => Scan(line)[j - 1].quoted
  BY <1>5, <1>6 DEF EndsAt
<1>9. Toggles(line, T) /\ T \subseteq {j \in DOMAIN line : line[j] = "quote"}
  BY QuotesToggle, QuotesFinite
<1>10. \A i \in 0 .. Len(line) : Scan(line)[i].quoted <=> Before(T, i + 1) % 2 = 1
  BY InsideIsOdd
<1>11. Before(T, end + 1) \in Nat
  <2>1. IsFiniteSet(T) /\ T \subseteq Nat
    BY QuotesFinite
  <2>2. end + 1 \in Nat
    BY <1>6
  <2> HIDE DEF T
  <2> QED BY <2>1, <2>2, CountUp
<1> HIDE DEF T
<1>12. Before(T, end + 1) % 2 = 0
  <2>1. ~ (Before(T, end + 1) % 2 = 1)
    BY <1>6, <1>7, <1>10
  <2> QED BY <1>11, <2>1
<1>13. \A j \in 1 .. end : line[j] = " " => Before(T, j) % 2 = 1
  <2> SUFFICES ASSUME NEW j \in 1 .. end, line[j] = " " PROVE Before(T, j) % 2 = 1
    OBVIOUS
  <2>1. Scan(line)[j - 1].quoted
    BY <1>8
  <2>2. Before(T, (j - 1) + 1) % 2 = 1
    BY <1>6, <1>10, <2>1
  <2> QED BY <1>6, <2>2
<1> QED
  BY <1>4, <1>6, <1>7, <1>9, <1>12, <1>13 DEF end, options

-----------------------------------------------------------------------------
(* The machine                                                             *)

SourceIds == 1 .. Sources
LineAt(s, n) == Strip(lists[s][n])
Parses(line) == ~ Blank(line) /\ Parse(line) # None
QuoteIn(key) == \E j \in DOMAIN key.type : key.type[j] = "quote"

Typed ==
  /\ lists \in [SourceIds -> Seq(Line)]
  /\ step \in {"parse", "read", "print", "done"}
  /\ src \in SourceIds
  /\ pos \in Nat \ {0}
  /\ keys \in [SourceIds -> Seq(Key)]
  /\ text \in [SourceIds -> Seq(Line)]
  /\ back \in [SourceIds -> Seq(Key) \cup {None}]
  /\ fromCache \subseteq SourceIds
  /\ printed \in Seq(Key)

\* The sources whose keys are parsed and stored, and those whose entry was read.
Stored(s) == step \in {"print", "done"} \/ s < src \/ (s = src /\ step = "read")
ReadBack(s) == step \in {"print", "done"} \/ s < src

\* A key is what a line of its source parses as ...
KeyOf(s, i) ==
  \E n \in 1 .. Len(lists[s]) : /\ Parses(LineAt(s, n))
                                /\ keys[s][i] = Sanitize(Parse(LineAt(s, n)))
KeysAreLines == \A s \in SourceIds : \A i \in 1 .. Len(keys[s]) : KeyOf(s, i)

\* ... and every line that was looked at and parses has its key.
LinesHaveKeys ==
  \A s \in SourceIds : \A n \in 1 .. Len(lists[s]) :
    /\ Stored(s) \/ (s = src /\ n < pos)
    /\ Parses(LineAt(s, n))
    => \E i \in 1 .. Len(keys[s]) : keys[s][i] = Sanitize(Parse(LineAt(s, n)))

\* An entry holds the text of the keys, and what is read of it are the keys so far,
\* or nothing, for a key type that holds a quote.
EntryIsText ==
  \A s \in SourceIds : Stored(s) =>
    /\ Len(text[s]) = Len(keys[s])
    /\ \A i \in 1 .. Len(keys[s]) : text[s][i] = Str(keys[s][i])

Unreadable(s) == back[s] = None /\ \E i \in 1 .. Len(keys[s]) : QuoteIn(keys[s][i])
KeysReadBack ==
  \A s \in SourceIds :
    /\ ReadBack(s) => back[s] = keys[s] \/ Unreadable(s)
    /\ s = src /\ step = "read" =>
         \/ /\ back[s] # None
            /\ Len(back[s]) = pos - 1 /\ pos =< Len(keys[s]) + 1
            /\ \A i \in 1 .. pos - 1 : back[s][i] = keys[s][i]
         \/ Unreadable(s) /\ pos > Len(text[s])
    /\ ~ Stored(s) => back[s] = <<>>

\* What was printed are keys of the sources, each once, and all so far.
PrintedIds == {Identity(printed[i]) : i \in DOMAIN printed}
NothingPrinted == step \in {"parse", "read"} => printed = <<>>
PrintedAreKeys ==
  \A i \in 1 .. Len(printed) : \E s \in SourceIds : \E j \in 1 .. Len(keys[s]) :
    printed[i] = keys[s][j]
PrintedOnce ==
  \A i, j \in 1 .. Len(printed) : Identity(printed[i]) = Identity(printed[j]) => i = j
PrintedSoFar ==
  \A s \in SourceIds : \A i \in 1 .. Len(keys[s]) :
    step = "done" \/ (step = "print" /\ (s < src \/ (s = src /\ i < pos))) =>
      Identity(keys[s][i]) \in seen

Invariant ==
  /\ Typed
  /\ KeysAreLines /\ LinesHaveKeys
  /\ EntryIsText /\ KeysReadBack
  /\ seen = PrintedIds /\ NothingPrinted
  /\ PrintedAreKeys /\ PrintedOnce /\ PrintedSoFar

LEMMA LinesTrim ==
  ASSUME Typed, NEW s \in SourceIds, NEW n \in 1 .. Len(lists[s])
  PROVE  LineAt(s, n) \in Line /\ Trim(LineAt(s, n))
<1>1. lists[s] \in Seq(Line)
  BY DEF Typed
<1>2. lists[s][n] \in Line
  BY <1>1, ElementOfSeq
<1> QED
  BY <1>2, StripTrims DEF LineAt

LEMMA InitInvariant == ASSUME Init PROVE Invariant
<1>1. Typed
  <2>1. 1 \in SourceIds
    BY KeyLineAssumption DEF SourceIds
  <2>2. \A s \in SourceIds : lists[s] \in Seq(Line)
    BY KeyLineAssumption DEF Init, SourceIds
  <2>3. lists \in [SourceIds -> Seq(Line)]
    BY <2>2 DEF Init, SourceIds
  <2>4. [s \in SourceIds |-> <<>>] \in [SourceIds -> Seq(Key)]
    OBVIOUS
  <2>5. [s \in SourceIds |-> <<>>] \in [SourceIds -> Seq(Line)]
    OBVIOUS
  <2>6. [s \in SourceIds |-> <<>>] \in [SourceIds -> Seq(Key) \cup {None}]
    BY <2>4
  <2>7. <<>> \in Seq(Key)
    OBVIOUS
  <2> QED BY <2>1, <2>3, <2>4, <2>5, <2>6, <2>7 DEF Init, Typed, SourceIds
<1>2. \A s \in SourceIds : keys[s] = <<>> /\ text[s] = <<>> /\ back[s] = <<>>
  BY DEF Init, SourceIds
<1>3. step = "parse" /\ src = 1 /\ pos = 1 /\ printed = <<>> /\ seen = {}
  BY DEF Init
<1>4. \A s \in SourceIds : ~ Stored(s) /\ ~ ReadBack(s)
  <2>1. \A s \in SourceIds : ~ (s < src)
    BY <1>3 DEF SourceIds
  <2> QED BY <1>3, <2>1 DEF Stored, ReadBack
<1>5. KeysAreLines /\ PrintedAreKeys /\ PrintedOnce /\ PrintedSoFar
  <2>1. Len(<<>>) = 0 /\ 1 .. 0 = {}
    OBVIOUS
  <2>2. \A s \in SourceIds : 1 .. Len(keys[s]) = {}
    BY <1>2, <2>1
  <2>3. 1 .. Len(printed) = {}
    BY <1>3, <2>1
  <2> QED BY <2>2, <2>3 DEF KeysAreLines, PrintedAreKeys, PrintedOnce, PrintedSoFar
<1>6. LinesHaveKeys
  <2>1. \A s \in SourceIds : \A n \in 1 .. Len(lists[s]) : ~ (n < pos)
    BY <1>3
  <2> QED BY <1>4, <2>1 DEF LinesHaveKeys
<1>7. EntryIsText /\ KeysReadBack
  BY <1>2, <1>3, <1>4 DEF EntryIsText, KeysReadBack
<1>8. seen = PrintedIds
  BY <1>3 DEF PrintedIds
<1> QED
  BY <1>1, <1>3, <1>5, <1>6, <1>7, <1>8 DEF Invariant, NothingPrinted

\* Of the keys of the source it works on, one more line gives one more or none.
LEMMA OneMoreKey ==
  ASSUME Invariant, ParseLine
  PROVE  LET line == LineAt(src, pos)
         IN  /\ pos \in 1 .. Len(lists[src])
             /\ keys' \in [SourceIds -> Seq(Key)]
             /\ \A s \in SourceIds : s # src => keys'[s] = keys[s]
             /\ \A i \in 1 .. Len(keys[src]) :
                  i \in 1 .. Len(keys'[src]) /\ keys'[src][i] = keys[src][i]
             /\ \A i \in 1 .. Len(keys'[src]) :
                  \/ i \in 1 .. Len(keys[src]) /\ keys'[src][i] = keys[src][i]
                  \/ Parses(line) /\ keys'[src][i] = Sanitize(Parse(line))
             /\ Parses(line) =>
                  \E i \in 1 .. Len(keys'[src]) : keys'[src][i] = Sanitize(Parse(line))
<1> DEFINE line == LineAt(src, pos)
           key == Sanitize(Parse(line))
           old == keys[src]
<1>1. /\ src \in SourceIds /\ keys \in [SourceIds -> Seq(Key)] /\ old \in Seq(Key)
      /\ pos \in Nat \ {0} /\ lists[src] \in Seq(Line)
  BY DEF Invariant, Typed
<1>2. pos \in 1 .. Len(lists[src])
  BY <1>1 DEF ParseLine
<1>3. line \in Line /\ Trim(line)
  BY <1>1, <1>2, LinesTrim DEF Invariant
<1>4. keys' = IF Parses(line) THEN [keys EXCEPT ![src] = Append(old, key)] ELSE keys
  BY DEF ParseLine, Parses, LineAt
<1>5. Parses(line) => key \in Key
  BY <1>3, Reparsed DEF Parses
<1> HIDE DEF line, key, old
<1>6. CASE Parses(line)
  <2>1. /\ Append(old, key) \in Seq(Key) /\ Len(Append(old, key)) = Len(old) + 1
        /\ Len(old) \in Nat
        /\ \A i \in 1 .. Len(old) : Append(old, key)[i] = old[i]
        /\ Append(old, key)[Len(old) + 1] = key
    BY <1>1, <1>5, <1>6, AppendProperties
  <2>2. /\ keys' \in [SourceIds -> Seq(Key)]
        /\ \A s \in SourceIds : s # src => keys'[s] = keys[s]
        /\ keys'[src] = Append(old, key)
    BY <1>1, <1>4, <1>6, <2>1
  <2> HIDE DEF ParseLine
  <2>3. \A i \in 1 .. Len(old) : i \in 1 .. Len(keys'[src]) /\ keys'[src][i] = old[i]
    BY <2>1, <2>2
  <2>4. \A i \in 1 .. Len(keys'[src]) : \/ i \in 1 .. Len(old) /\ keys'[src][i] = old[i]
                                        \/ keys'[src][i] = key
    BY <2>1, <2>2
  <2>5. \E i \in 1 .. Len(keys'[src]) : keys'[src][i] = key
    BY <2>1, <2>2
  <2> QED BY <1>2, <1>6, <2>2, <2>3, <2>4, <2>5 DEF old, line, key
<1>7. CASE ~ Parses(line)
  BY <1>1, <1>2, <1>4, <1>7 DEF old, line
<1> QED
  BY <1>6, <1>7

LEMMA ParseLineKeeps == ASSUME Invariant, ParseLine PROVE Invariant'
<1> DEFINE line == LineAt(src, pos)
<1>1. /\ lists' = lists /\ step' = step /\ src' = src /\ text' = text /\ back' = back
      /\ fromCache' = fromCache /\ printed' = printed /\ seen' = seen /\ pos' = pos + 1
      /\ step = "parse"
  BY DEF ParseLine
<1>2. /\ pos \in 1 .. Len(lists[src]) /\ keys' \in [SourceIds -> Seq(Key)]
      /\ \A s \in SourceIds : s # src => keys'[s] = keys[s]
      /\ \A i \in 1 .. Len(keys[src]) :
           i \in 1 .. Len(keys'[src]) /\ keys'[src][i] = keys[src][i]
      /\ \A i \in 1 .. Len(keys'[src]) :
           \/ i \in 1 .. Len(keys[src]) /\ keys'[src][i] = keys[src][i]
           \/ Parses(line) /\ keys'[src][i] = Sanitize(Parse(line))
      /\ Parses(line) => \E i \in 1 .. Len(keys'[src]) : keys'[src][i] = Sanitize(Parse(line))
  BY OneMoreKey
<1>3. src \in SourceIds /\ pos \in Nat /\ Typed
  BY DEF Invariant, Typed
<1>4. Typed'
  BY <1>1, <1>2, <1>3 DEF Typed
<1>5. \A s \in SourceIds : /\ Stored(s)' <=> s < src
                           /\ Stored(s) <=> s < src
                           /\ ReadBack(s)' <=> s < src
                           /\ ReadBack(s) <=> s < src
  BY <1>1 DEF Stored, ReadBack
<1>6. \A s \in SourceIds : s < src => keys'[s] = keys[s]
  BY <1>2, <1>3 DEF SourceIds
<1>7. \A s, n : LineAt(s, n)' = LineAt(s, n)
  BY <1>1 DEF LineAt
<1> HIDE DEF line
<1>8. KeysAreLines'
  <2> SUFFICES ASSUME NEW s \in SourceIds, NEW i \in 1 .. Len(keys'[s]) PROVE KeyOf(s, i)'
    BY DEF KeysAreLines
  <2>1. CASE i \in 1 .. Len(keys[s]) /\ keys'[s][i] = keys[s][i]
    BY <1>1, <1>7, <2>1 DEF Invariant, KeysAreLines, KeyOf
  <2>2. CASE s = src /\ Parses(line) /\ keys'[s][i] = Sanitize(Parse(line))
    BY <1>1, <1>2, <1>7, <2>2 DEF KeyOf, line
  <2> QED BY <1>2, <2>1, <2>2
<1>9. LinesHaveKeys'
  <2> SUFFICES ASSUME NEW s \in SourceIds, NEW n \in 1 .. Len(lists[s]),
                      s < src \/ (s = src /\ n < pos + 1), Parses(LineAt(s, n))
               PROVE  \E i \in 1 .. Len(keys'[s]) : keys'[s][i] = Sanitize(Parse(LineAt(s, n)))
    BY <1>1, <1>5, <1>7 DEF LinesHaveKeys
  <2>1. s < src \/ (s = src /\ n < pos) \/ (s = src /\ n = pos)
    BY <1>3 DEF SourceIds
  <2>2. CASE s < src \/ (s = src /\ n < pos)
    <3>1. PICK i \in 1 .. Len(keys[s]) : keys[s][i] = Sanitize(Parse(LineAt(s, n)))
      BY <1>5, <2>2 DEF Invariant, LinesHaveKeys
    <3>2. i \in 1 .. Len(keys'[s]) /\ keys'[s][i] = keys[s][i]
      BY <1>2
    <3> QED BY <3>1, <3>2
  <2>3. CASE s = src /\ n = pos
    BY <1>2, <2>3 DEF line
  <2> QED BY <2>1, <2>2, <2>3
<1>10. EntryIsText'
  BY <1>1, <1>5, <1>6 DEF Invariant, EntryIsText
<1>11. KeysReadBack'
  <2>1. \A s \in SourceIds : s < src => keys'[s] = keys[s] /\ back'[s] = back[s]
    BY <1>1, <1>6
  <2> QED BY <1>1, <1>5, <2>1 DEF Invariant, KeysReadBack, Unreadable
<1>12. printed = <<>> /\ 1 .. Len(printed') = {}
  BY <1>1 DEF Invariant, NothingPrinted
<1>13. PrintedAreKeys' /\ PrintedOnce' /\ PrintedSoFar'
  BY <1>1, <1>12 DEF PrintedAreKeys, PrintedOnce, PrintedSoFar
<1>14. seen' = PrintedIds' /\ NothingPrinted'
  BY <1>1 DEF Invariant, PrintedIds, NothingPrinted
<1> QED
  BY <1>4, <1>8, <1>9, <1>10, <1>11, <1>13, <1>14 DEF Invariant

LEMMA StoreKeeps == ASSUME Invariant, Store PROVE Invariant'
<1> DEFINE old == keys[src]
           entry == [i \in DOMAIN old |-> Str(old[i])]
<1>1. /\ lists' = lists /\ keys' = keys /\ src' = src /\ back' = back
      /\ fromCache' = fromCache /\ printed' = printed /\ seen' = seen /\ pos' = 1
      /\ step = "parse" /\ step' = "read" /\ text' = [text EXCEPT ![src] = entry]
  BY DEF Store
<1>2. pos > Len(lists[src])
  BY DEF Store
<1>3. src \in SourceIds /\ pos \in Nat /\ Typed /\ old \in Seq(Key) /\ lists[src] \in Seq(Line)
  BY DEF Invariant, Typed
<1>4. /\ DOMAIN old = 1 .. Len(old) /\ Len(old) \in Nat
      /\ \A i \in 1 .. Len(old) : old[i] \in Key
  BY <1>3, LenProperties, ElementOfSeq
<1> HIDE DEF old
<1>5. entry \in Seq(Line) /\ Len(entry) = Len(old) /\ \A i \in 1 .. Len(old) : entry[i] = Str(old[i])
  <2>1. \A i \in 1 .. Len(old) : Str(old[i]) \in Line
    BY <1>4, StrIs
  <2> QED BY <1>4, <2>1
<1> HIDE DEF entry
<1>6. /\ text' \in [SourceIds -> Seq(Line)] /\ text'[src] = entry
      /\ \A s \in SourceIds : s # src => text'[s] = text[s]
  BY <1>1, <1>3, <1>5 DEF Typed
<1>7. Typed'
  BY <1>1, <1>3, <1>6 DEF Typed
<1>8. \A s \in SourceIds : /\ Stored(s)' <=> s < src \/ s = src
                           /\ Stored(s) <=> s < src
                           /\ ReadBack(s)' <=> s < src
                           /\ ReadBack(s) <=> s < src
  BY <1>1 DEF Stored, ReadBack
<1>9. \A s \in SourceIds : s < src => s # src
  BY DEF SourceIds
<1>10. \A s, n : LineAt(s, n)' = LineAt(s, n)
  BY <1>1 DEF LineAt
<1>11. KeysAreLines'
  BY <1>1, <1>10 DEF Invariant, KeysAreLines, KeyOf
<1>12. LinesHaveKeys'
  <2>1. \A n \in 1 .. Len(lists[src]) : n < pos
    BY <1>2, <1>3
  <2> QED BY <1>1, <1>8, <1>10, <2>1 DEF Invariant, LinesHaveKeys
<1>13. EntryIsText'
  <2>1. \A s \in SourceIds : s < src => text'[s] = text[s]
    BY <1>6, <1>9
  <2> QED BY <1>1, <1>5, <1>6, <1>8, <2>1 DEF Invariant, EntryIsText, old
<1>14. KeysReadBack'
  <2>1. ~ Stored(src) /\ back[src] = <<>>
    <3>1. ~ Stored(src)
      BY <1>3, <1>8, <1>9
    <3> QED BY <1>3, <3>1 DEF Invariant, KeysReadBack
  <2>2. back[src] # None
    <3>1. <<>> \in Seq(Key)
      OBVIOUS
    <3> QED BY <2>1, <3>1, KeyLineAssumption
  <2>3. /\ Len(back[src]) = pos' - 1 /\ pos' =< Len(keys[src]) + 1
        /\ \A i \in 1 .. pos' - 1 : FALSE
    <3>1. Len(<<>>) = 1 - 1 /\ 1 =< Len(old) + 1 /\ \A i \in 1 .. 1 - 1 : FALSE
      BY <1>4
    <3> QED BY <1>1, <2>1, <3>1 DEF old
  <2> QED BY <1>1, <1>8, <2>2, <2>3 DEF Invariant, KeysReadBack, Unreadable
<1>15. /\ seen' = PrintedIds' /\ NothingPrinted'
       /\ PrintedAreKeys' /\ PrintedOnce' /\ PrintedSoFar'
  BY <1>1 DEF Invariant, PrintedIds, NothingPrinted, PrintedAreKeys, PrintedOnce, PrintedSoFar
<1> QED
  BY <1>7, <1>11, <1>12, <1>13, <1>14, <1>15 DEF Invariant

\* The line that is read is the text of the key at its place.
LEMMA EntryLine ==
  ASSUME Invariant, step = "read", pos =< Len(text[src])
  PROVE  LET line == Strip(text[src][pos])
             key == keys[src][pos]
         IN  /\ pos \in 1 .. Len(keys[src]) /\ key \in Key /\ key # None
             /\ ~ Blank(line)
             /\ Parse(line) = key \/ (Parse(line) = None /\ QuoteIn(key))
<1>1. src \in SourceIds /\ pos \in Nat \ {0} /\ keys[src] \in Seq(Key) /\ Typed
  BY DEF Invariant, Typed
<1>2. Stored(src)
  BY DEF Stored
<1>3. /\ Len(text[src]) = Len(keys[src])
      /\ \A i \in 1 .. Len(keys[src]) : text[src][i] = Str(keys[src][i])
  BY <1>1, <1>2 DEF Invariant, EntryIsText
<1>4. pos \in 1 .. Len(keys[src])
  BY <1>1, <1>3
<1>5. PICK n \in 1 .. Len(lists[src]) :
        /\ Parses(LineAt(src, n)) /\ keys[src][pos] = Sanitize(Parse(LineAt(src, n)))
  BY <1>1, <1>4 DEF Invariant, KeysAreLines, KeyOf
<1> DEFINE key == keys[src][pos]
           line == LineAt(src, n)
<1>6. line \in Line /\ Trim(line) /\ ~ Blank(line) /\ Parse(line) # None /\ key = Sanitize(Parse(line))
  BY <1>1, <1>5, LinesTrim DEF Parses
<1> HIDE DEF key, line
<1>7. /\ key \in Key /\ Strip(Str(key)) = Str(key) /\ ~ Blank(Str(key))
      /\ Parse(Str(key)) = key
           \/ (Parse(Str(key)) = None /\ \E j \in DOMAIN key.type : key.type[j] = "quote")
  BY <1>6, Reparsed
<1>8. text[src][pos] = Str(key)
  BY <1>3, <1>4 DEF key
<1>9. key # None
  BY <1>7, KeyLineAssumption
<1> QED
  BY <1>4, <1>7, <1>8, <1>9 DEF key, QuoteIn

LEMMA ReadLineKeeps == ASSUME Invariant, ReadLine PROVE Invariant'
<1> DEFINE line == Strip(text[src][pos])
           key == keys[src][pos]
           old == back[src]
<1>1. /\ lists' = lists /\ keys' = keys /\ src' = src /\ text' = text
      /\ fromCache' = fromCache /\ printed' = printed /\ seen' = seen
      /\ step = "read" /\ step' = step /\ pos =< Len(text[src])
  BY DEF ReadLine
<1>2. /\ pos \in 1 .. Len(keys[src]) /\ key \in Key /\ key # None /\ ~ Blank(line)
      /\ Parse(line) = key \/ (Parse(line) = None /\ QuoteIn(key))
  BY <1>1, EntryLine
<1>3. /\ back' = IF Parse(line) = None THEN [back EXCEPT ![src] = None]
                 ELSE [back EXCEPT ![src] = Append(old, Parse(line))]
      /\ pos' = IF Parse(line) = None THEN Len(text[src]) + 1 ELSE pos + 1
  BY <1>2 DEF ReadLine
<1> HIDE DEF line, key
<1>4. /\ src \in SourceIds /\ pos \in Nat \ {0} /\ Typed /\ back \in [SourceIds -> Seq(Key) \cup {None}]
      /\ Len(text[src]) \in Nat /\ Len(keys[src]) \in Nat
  <2>1. src \in SourceIds /\ text[src] \in Seq(Line) /\ keys[src] \in Seq(Key)
    BY DEF Invariant, Typed
  <2> QED BY <2>1, LenProperties DEF Invariant, Typed
<1>5. Stored(src) /\ Len(text[src]) = Len(keys[src])
  <2>1. Stored(src)
    BY <1>1 DEF Stored
  <2> QED BY <1>4, <2>1 DEF Invariant, EntryIsText
<1>6. /\ old # None /\ old \in Seq(Key) /\ Len(old) = pos - 1
      /\ \A i \in 1 .. pos - 1 : old[i] = keys[src][i]
  <2>1. ~ (pos > Len(text[src]))
    BY <1>1, <1>4
  <2>2. /\ old # None /\ Len(old) = pos - 1
        /\ \A i \in 1 .. pos - 1 : old[i] = keys[src][i]
    BY <1>1, <1>4, <2>1 DEF Invariant, KeysReadBack
  <2> QED BY <1>4, <2>2
<1> HIDE DEF old
<1>7. \A s \in SourceIds : s # src => back'[s] = back[s]
  BY <1>3, <1>4
<1>8. /\ back' \in [SourceIds -> Seq(Key) \cup {None}] /\ pos' \in Nat \ {0}
      /\ \/ /\ back'[src] # None
            /\ Len(back'[src]) = pos' - 1 /\ pos' =< Len(keys[src]) + 1
            /\ \A i \in 1 .. pos' - 1 : back'[src][i] = keys[src][i]
         \/ back'[src] = None /\ QuoteIn(key) /\ pos' > Len(text[src])
  <2>1. CASE Parse(line) = key
    <3>1. /\ Append(old, key) \in Seq(Key) /\ Len(Append(old, key)) = Len(old) + 1
          /\ \A i \in 1 .. Len(old) : Append(old, key)[i] = old[i]
          /\ Append(old, key)[Len(old) + 1] = key
      BY <1>2, <1>6, AppendProperties
    <3>2. back' = [back EXCEPT ![src] = Append(old, key)] /\ pos' = pos + 1
      BY <1>2, <1>3, <2>1
    <3>3. /\ back' \in [SourceIds -> Seq(Key) \cup {None}] /\ back'[src] = Append(old, key)
      BY <1>4, <3>1, <3>2
    <3>4. Append(old, key) # None
      BY <3>1, KeyLineAssumption
    <3>5. \A i \in 1 .. pos : Append(old, key)[i] = keys[src][i]
      <4>1. \A i \in 1 .. pos : i \in 1 .. pos - 1 \/ i = pos
        BY <1>4
      <4>2. (pos - 1) + 1 = pos
        BY <1>4
      <4> QED BY <1>6, <3>1, <4>1, <4>2 DEF key
    <3>6. pos' \in Nat \ {0} /\ pos' - 1 = pos /\ pos' =< Len(keys[src]) + 1 /\ Len(old) + 1 = pos
      BY <1>2, <1>4, <1>6, <3>2
    <3> QED BY <3>1, <3>3, <3>4, <3>5, <3>6
  <2>2. CASE Parse(line) = None /\ QuoteIn(key)
    <3>1. back'[src] = None /\ pos' = Len(text[src]) + 1
      BY <1>3, <1>4, <2>2
    <3>2. back' \in [SourceIds -> Seq(Key) \cup {None}]
      BY <1>3, <1>4, <2>2
    <3> QED BY <1>4, <2>2, <3>1, <3>2
  <2> QED BY <1>2, <2>1, <2>2
<1>9. Typed'
  BY <1>1, <1>4, <1>8 DEF Typed
<1>10. \A s \in SourceIds : /\ Stored(s)' <=> Stored(s)
                            /\ ReadBack(s)' <=> ReadBack(s)
                            /\ ReadBack(s) => s # src
  <2>1. \A s \in SourceIds : s < src => s # src
    BY DEF SourceIds
  <2> QED BY <1>1, <2>1 DEF Stored, ReadBack
<1>11. \A s, n : LineAt(s, n)' = LineAt(s, n)
  BY <1>1 DEF LineAt
<1>12. KeysAreLines'
  BY <1>1, <1>11 DEF Invariant, KeysAreLines, KeyOf
<1>13. LinesHaveKeys'
  BY <1>1, <1>5, <1>10, <1>11 DEF Invariant, LinesHaveKeys
<1>14. EntryIsText'
  BY <1>1, <1>10 DEF Invariant, EntryIsText
<1>15. KeysReadBack'
  <2> SUFFICES ASSUME NEW s \in SourceIds
               PROVE  /\ ReadBack(s) => back'[s] = keys[s] \/ Unreadable(s)'
                      /\ s = src =>
                           \/ /\ back'[s] # None
                              /\ Len(back'[s]) = pos' - 1 /\ pos' =< Len(keys[s]) + 1
                              /\ \A i \in 1 .. pos' - 1 : back'[s][i] = keys[s][i]
                           \/ Unreadable(s)' /\ pos' > Len(text[s])
                      /\ ~ Stored(s) => back'[s] = <<>>
    BY <1>1, <1>10 DEF KeysReadBack
  <2>1. CASE s # src
    BY <1>1, <1>7, <2>1 DEF Invariant, KeysReadBack, Unreadable
  <2>2. CASE s = src
    BY <1>1, <1>2, <1>5, <1>8, <1>10, <2>2 DEF Unreadable, key
  <2> QED BY <2>1, <2>2
<1>16. /\ seen' = PrintedIds' /\ NothingPrinted'
       /\ PrintedAreKeys' /\ PrintedOnce' /\ PrintedSoFar'
  BY <1>1 DEF Invariant, PrintedIds, NothingPrinted, PrintedAreKeys, PrintedOnce, PrintedSoFar
<1> QED
  BY <1>9, <1>12, <1>13, <1>14, <1>15, <1>16 DEF Invariant

\* At its end the entry has given back the keys, or nothing.
LEMMA EntryRead ==
  ASSUME Invariant, step = "read", pos > Len(text[src])
  PROVE  back[src] = keys[src] \/ Unreadable(src)
<1>1. /\ src \in SourceIds /\ pos \in Nat \ {0} /\ keys[src] \in Seq(Key) /\ Len(keys[src]) \in Nat
      /\ back[src] # None => back[src] \in Seq(Key)
  BY DEF Invariant, Typed
<1>2. Len(text[src]) = Len(keys[src])
  <2>1. Stored(src)
    BY DEF Stored
  <2> QED BY <1>1, <2>1 DEF Invariant, EntryIsText
<1>3. \/ /\ back[src] # None
         /\ Len(back[src]) = pos - 1 /\ pos =< Len(keys[src]) + 1
         /\ \A i \in 1 .. pos - 1 : back[src][i] = keys[src][i]
      \/ Unreadable(src)
  BY <1>1 DEF Invariant, KeysReadBack
<1>4. CASE /\ back[src] # None
           /\ Len(back[src]) = pos - 1 /\ pos =< Len(keys[src]) + 1
           /\ \A i \in 1 .. pos - 1 : back[src][i] = keys[src][i]
  <2>1. pos - 1 = Len(keys[src])
    BY <1>1, <1>2, <1>4
  <2> QED BY <1>1, <1>4, <2>1, SeqEqual
<1> QED
  BY <1>3, <1>4

LEMMA EndOfEntryKeeps == ASSUME Invariant, EndOfEntry PROVE Invariant'
<1>1. /\ lists' = lists /\ keys' = keys /\ text' = text /\ back' = back
      /\ printed' = printed /\ seen' = seen /\ pos' = 1 /\ step = "read"
      /\ pos > Len(text[src])
      /\ \/ src < Sources /\ src' = src + 1 /\ step' = "parse" /\ fromCache' = fromCache
         \/ ~ (src < Sources) /\ src' = 1 /\ step' = "print" /\ fromCache' \subseteq SourceIds
  BY DEF EndOfEntry, SourceIds
<1>2. /\ src \in SourceIds /\ Sources \in Nat \ {0} /\ pos \in Nat \ {0} /\ Typed
      /\ keys[src] \in Seq(Key) /\ Len(keys[src]) \in Nat
      /\ back[src] # None => back[src] \in Seq(Key)
  BY KeyLineAssumption DEF Invariant, Typed
<1>3. Typed'
  <2>1. src' \in SourceIds
    BY <1>1, <1>2 DEF SourceIds
  <2> QED BY <1>1, <1>2, <2>1 DEF Typed
<1>4. back[src] = keys[src] \/ Unreadable(src)
  BY <1>1, EntryRead
<1>5. \A s \in SourceIds : /\ Stored(s) <=> s < src \/ s = src
                           /\ Stored(s)' <=> Stored(s)
                           /\ ReadBack(s)' <=> Stored(s)
                           /\ ReadBack(s) <=> s < src
  <2>1. \A s \in SourceIds : /\ Stored(s) <=> s < src \/ s = src
                             /\ ReadBack(s) <=> s < src
    BY <1>1 DEF Stored, ReadBack
  <2>2. CASE src < Sources /\ src' = src + 1 /\ step' = "parse"
    <3>1. \A s \in SourceIds : s < src + 1 <=> s < src \/ s = src
      BY <1>2 DEF SourceIds
    <3> QED BY <2>1, <2>2, <3>1 DEF Stored, ReadBack
  <2>3. CASE ~ (src < Sources) /\ step' = "print"
    <3>1. \A s \in SourceIds : s < src \/ s = src
      BY <1>2, <2>3 DEF SourceIds
    <3> QED BY <2>1, <2>3, <3>1 DEF Stored, ReadBack
  <2> QED BY <1>1, <2>1, <2>2, <2>3
<1>6. \A s, n : LineAt(s, n)' = LineAt(s, n)
  BY <1>1 DEF LineAt
<1>7. KeysAreLines'
  BY <1>1, <1>6 DEF Invariant, KeysAreLines, KeyOf
<1>8. LinesHaveKeys'
  <2>1. \A s \in SourceIds : \A n \in 1 .. Len(lists[s]) : ~ (n < 1)
    OBVIOUS
  <2> QED BY <1>1, <1>5, <1>6, <2>1 DEF Invariant, LinesHaveKeys
<1>9. EntryIsText'
  BY <1>1, <1>5 DEF Invariant, EntryIsText
<1>10. KeysReadBack'
  <2>1. step' # "read"
    BY <1>1
  <2> QED BY <1>1, <1>4, <1>5, <2>1 DEF Invariant, KeysReadBack, Unreadable
<1>11. seen' = PrintedIds' /\ NothingPrinted' /\ PrintedAreKeys' /\ PrintedOnce'
  BY <1>1 DEF Invariant, PrintedIds, NothingPrinted, PrintedAreKeys, PrintedOnce
<1>12. PrintedSoFar'
  <2>1. \A s \in SourceIds : \A i \in 1 .. Len(keys[s]) : ~ (s < 1) /\ ~ (i < 1)
    BY DEF SourceIds
  <2> QED BY <1>1, <2>1 DEF PrintedSoFar
<1> QED
  BY <1>3, <1>7, <1>8, <1>9, <1>10, <1>11, <1>12 DEF Invariant

\* Fresh and readable or not, the entry makes no difference to the keys.
LEMMA ServedIs ==
  ASSUME Invariant, step \in {"print", "done"}, NEW s \in SourceIds
  PROVE  Served(s) = keys[s]
<1>1. back[s] = keys[s] \/ back[s] = None
  BY DEF Invariant, KeysReadBack, ReadBack, Unreadable
<1> QED
  BY <1>1 DEF Served

LEMMA PrintKeyKeeps == ASSUME Invariant, PrintKey PROVE Invariant'
<1> DEFINE key == keys[src][pos]
           N == Len(printed)
<1>1. /\ lists' = lists /\ keys' = keys /\ text' = text /\ back' = back /\ src' = src
      /\ fromCache' = fromCache /\ step = "print" /\ step' = step /\ pos' = pos + 1
  BY DEF PrintKey
<1>2. /\ src \in SourceIds /\ pos \in Nat \ {0} /\ Typed /\ keys[src] \in Seq(Key)
      /\ printed \in Seq(Key) /\ N \in Nat /\ DOMAIN printed = 1 .. N
      /\ seen = PrintedIds
  BY LenProperties DEF Invariant, Typed
<1>3. Served(src) = keys[src]
  BY <1>1, <1>2, ServedIs
<1>4. /\ pos \in 1 .. Len(keys[src])
      /\ seen' = seen \cup {Identity(key)}
      /\ printed' = IF Identity(key) \in seen THEN printed ELSE Append(printed, key)
  BY <1>2, <1>3 DEF PrintKey
<1>5. key \in Key
  BY <1>2, <1>4, ElementOfSeq
<1> HIDE DEF key
<1>6. \A i \in 1 .. N : Identity(printed[i]) \in seen
  BY <1>2 DEF PrintedIds
<1>7. ASSUME Identity(key) \notin seen
      PROVE  /\ printed' \in Seq(Key) /\ Len(printed') = N + 1 /\ DOMAIN printed' = 1 .. N + 1
             /\ \A i \in 1 .. N : printed'[i] = printed[i]
             /\ printed'[N + 1] = key
             /\ \A i \in 1 .. N + 1 : i \in 1 .. N \/ i = N + 1
             /\ N + 1 \in 1 .. N + 1 /\ \A i \in 1 .. N : i \in 1 .. N + 1
  <2>1. /\ printed' \in Seq(Key) /\ Len(printed') = N + 1
        /\ \A i \in 1 .. N : printed'[i] = printed[i]
        /\ printed'[N + 1] = key
    BY <1>2, <1>4, <1>5, <1>7, AppendProperties
  <2>2. DOMAIN printed' = 1 .. N + 1
    BY <2>1, LenProperties
  <2>3. /\ \A i \in 1 .. N + 1 : i \in 1 .. N \/ i = N + 1
        /\ N + 1 \in 1 .. N + 1 /\ \A i \in 1 .. N : i \in 1 .. N + 1
    BY <1>2
  <2> QED BY <2>1, <2>2, <2>3
<1>8. printed' \in Seq(Key)
  BY <1>2, <1>4, <1>7
<1>9. Typed'
  BY <1>1, <1>2, <1>8 DEF Typed
<1>10. \A s \in SourceIds : Stored(s) /\ Stored(s)' /\ ReadBack(s) /\ ReadBack(s)'
  BY <1>1 DEF Stored, ReadBack
<1>11. \A s, n : LineAt(s, n)' = LineAt(s, n)
  BY <1>1 DEF LineAt
<1>12. KeysAreLines'
  BY <1>1, <1>11 DEF Invariant, KeysAreLines, KeyOf
<1>13. LinesHaveKeys'
  BY <1>1, <1>10, <1>11 DEF Invariant, LinesHaveKeys
<1>14. EntryIsText'
  BY <1>1, <1>10 DEF Invariant, EntryIsText
<1>15. KeysReadBack'
  BY <1>1, <1>10 DEF Invariant, KeysReadBack, Unreadable
<1>16. seen' = PrintedIds'
  <2>1. CASE Identity(key) \in seen
    BY <1>2, <1>4, <2>1 DEF PrintedIds
  <2>2. CASE Identity(key) \notin seen
    <3>1. \A x : x \in PrintedIds' <=> x \in PrintedIds \/ x = Identity(key)
      BY <1>2, <1>7, <2>2 DEF PrintedIds
    <3> QED BY <1>2, <1>4, <3>1
  <2> QED BY <2>1, <2>2
<1>17. PrintedAreKeys'
  <2>1. CASE Identity(key) \in seen
    BY <1>1, <1>4, <2>1 DEF Invariant, PrintedAreKeys
  <2>2. CASE Identity(key) \notin seen
    BY <1>1, <1>2, <1>4, <1>7, <2>2 DEF Invariant, PrintedAreKeys, key
  <2> QED BY <2>1, <2>2
<1>18. PrintedOnce'
  <2>1. CASE Identity(key) \in seen
    BY <1>1, <1>4, <2>1 DEF Invariant, PrintedOnce
  <2>2. CASE Identity(key) \notin seen
    BY <1>6, <1>7, <2>2 DEF Invariant, PrintedOnce
  <2> QED BY <2>1, <2>2
<1>19. PrintedSoFar'
  <2> SUFFICES ASSUME NEW s \in SourceIds, NEW i \in 1 .. Len(keys[s]),
                      s < src \/ (s = src /\ i < pos + 1)
               PROVE  Identity(keys[s][i]) \in seen'
    BY <1>1 DEF PrintedSoFar
  <2>1. s < src \/ (s = src /\ i < pos) \/ (s = src /\ i = pos)
    BY <1>2
  <2>2. CASE s < src \/ (s = src /\ i < pos)
    BY <1>1, <1>4, <2>2 DEF Invariant, PrintedSoFar
  <2>3. CASE s = src /\ i = pos
    BY <1>4, <2>3 DEF key
  <2> QED BY <2>1, <2>2, <2>3
<1>20. NothingPrinted'
  BY <1>1 DEF NothingPrinted
<1> QED
  BY <1>9, <1>12, <1>13, <1>14, <1>15, <1>16, <1>17, <1>18, <1>19, <1>20 DEF Invariant

LEMMA EndOfKeysKeeps == ASSUME Invariant, EndOfKeys PROVE Invariant'
<1>1. /\ lists' = lists /\ keys' = keys /\ text' = text /\ back' = back
      /\ fromCache' = fromCache /\ printed' = printed /\ seen' = seen
      /\ step = "print" /\ pos' = 1
      /\ \/ src < Sources /\ src' = src + 1 /\ step' = step
         \/ ~ (src < Sources) /\ src' = src /\ step' = "done"
  BY DEF EndOfKeys
<1>2. src \in SourceIds /\ pos \in Nat \ {0} /\ Sources \in Nat /\ Typed /\ Len(keys[src]) \in Nat
  <2>1. keys[src] \in Seq(Key)
    BY DEF Invariant, Typed
  <2> QED BY <2>1, KeyLineAssumption DEF Invariant, Typed
<1>3. pos > Len(keys[src])
  <2>1. Served(src) = keys[src]
    BY <1>1, <1>2, ServedIs
  <2> QED BY <2>1 DEF EndOfKeys
<1>4. Typed'
  <2>1. src' \in SourceIds
    BY <1>1, <1>2 DEF SourceIds
  <2> QED BY <1>1, <1>2, <2>1 DEF Typed
<1>5. \A s \in SourceIds : Stored(s) /\ Stored(s)' /\ ReadBack(s) /\ ReadBack(s)'
  BY <1>1 DEF Stored, ReadBack
<1>6. \A s, n : LineAt(s, n)' = LineAt(s, n)
  BY <1>1 DEF LineAt
<1>7. KeysAreLines'
  BY <1>1, <1>6 DEF Invariant, KeysAreLines, KeyOf
<1>8. LinesHaveKeys'
  BY <1>1, <1>5, <1>6 DEF Invariant, LinesHaveKeys
<1>9. EntryIsText'
  BY <1>1, <1>5 DEF Invariant, EntryIsText
<1>10. KeysReadBack'
  BY <1>1, <1>5 DEF Invariant, KeysReadBack, Unreadable
<1>11. seen' = PrintedIds' /\ NothingPrinted' /\ PrintedAreKeys' /\ PrintedOnce'
  BY <1>1 DEF Invariant, PrintedIds, NothingPrinted, PrintedAreKeys, PrintedOnce
<1>12. PrintedSoFar'
  <2>1. \A s \in SourceIds : \A i \in 1 .. Len(keys[s]) :
          s < src \/ s = src => s < src \/ (s = src /\ i < pos)
    BY <1>2, <1>3
  <2>2. \A s \in SourceIds : \A i \in 1 .. Len(keys[s]) :
          s < src \/ s = src => Identity(keys[s][i]) \in seen
    BY <1>1, <2>1 DEF Invariant, PrintedSoFar
  <2>3. CASE src < Sources /\ src' = src + 1 /\ step' = step
    <3>1. \A s \in SourceIds : \A i \in 1 .. Len(keys[s]) :
            s < src + 1 \/ (s = src + 1 /\ i < 1) => s < src \/ s = src
      BY <1>2 DEF SourceIds
    <3> QED BY <1>1, <2>2, <2>3, <3>1 DEF PrintedSoFar
  <2>4. CASE ~ (src < Sources) /\ src' = src /\ step' = "done"
    <3>1. \A s \in SourceIds : s < src \/ s = src
      BY <1>2, <2>4 DEF SourceIds
    <3> QED BY <1>1, <2>2, <3>1 DEF PrintedSoFar
  <2> QED BY <1>1, <2>3, <2>4
<1> QED
  BY <1>4, <1>7, <1>8, <1>9, <1>10, <1>11, <1>12 DEF Invariant

LEMMA StutterKeeps == ASSUME Invariant, UNCHANGED vars PROVE Invariant'
<1>1. /\ lists' = lists /\ step' = step /\ src' = src /\ pos' = pos /\ keys' = keys
      /\ text' = text /\ back' = back /\ fromCache' = fromCache /\ seen' = seen
      /\ printed' = printed
  BY DEF vars
<1>2. /\ Typed' /\ seen' = PrintedIds' /\ NothingPrinted'
      /\ PrintedAreKeys' /\ PrintedOnce' /\ PrintedSoFar'
  BY <1>1 DEF Invariant, Typed, PrintedIds, NothingPrinted, PrintedAreKeys, PrintedOnce,
              PrintedSoFar
<1>3. \A s \in SourceIds : (Stored(s)' <=> Stored(s)) /\ (ReadBack(s)' <=> ReadBack(s))
  BY <1>1 DEF Stored, ReadBack
<1>4. \A s, n : LineAt(s, n)' = LineAt(s, n)
  BY <1>1 DEF LineAt
<1>5. KeysAreLines' /\ LinesHaveKeys'
  BY <1>1, <1>3, <1>4 DEF Invariant, KeysAreLines, KeyOf, LinesHaveKeys
<1>6. EntryIsText' /\ KeysReadBack'
  BY <1>1, <1>3 DEF Invariant, EntryIsText, KeysReadBack, Unreadable
<1> QED
  BY <1>2, <1>5, <1>6 DEF Invariant

LEMMA StepKeeps == ASSUME Invariant, [Next]_vars PROVE Invariant'
BY ParseLineKeeps, StoreKeeps, ReadLineKeeps, EndOfEntryKeeps, PrintKeyKeeps, EndOfKeysKeeps,
   StutterKeeps DEF Next

LEMMA Always == Spec => []Invariant
<1>1. Init => Invariant
  BY InitInvariant
<1>2. Invariant /\ [Next]_vars => Invariant'
  BY StepKeeps
<1> QED
  BY <1>1, <1>2, PTL DEF Spec

-----------------------------------------------------------------------------
(* What holds of every run                                                 *)

\* Every list the program keeps is one of lines or of keys, and the identities it
\* remembers are those of the keys it printed.
THEOREM TypeCorrect == Spec => []TypeOK
<1>1. Invariant => TypeOK
  BY DEF Invariant, Typed, TypeOK, SourceIds, PrintedIds
<1> QED
  BY <1>1, Always, PTL

\* The options of a key are the first token of its line as the docstring of
\* _split_first_token defines it, whatever the line: the tokenizer's two flags count
\* the quotes and the backslashes before a place.
THEOREM OptionsStayWhole == Spec => []OptionsWhole
<1>1. ASSUME Invariant PROVE OptionsWhole
  <2> SUFFICES ASSUME NEW s \in SourceIds, NEW i \in DOMAIN keys[s], keys[s][i].options # <<>>
               PROVE  \E n \in DOMAIN lists[s] :
                        LET line == Strip(lists[s][n])
                            end == Len(keys[s][i].options)
                        IN  /\ end < Len(line)
                            /\ SubSeq(line, 1, end) = keys[s][i].options
                            /\ \E T \in SUBSET {j \in DOMAIN line : line[j] = "quote"} :
                                 /\ Toggles(line, T)
                                 /\ line[end + 1] = " " /\ Before(T, end + 1) % 2 = 0
                                 /\ \A j \in 1 .. end : line[j] = " " => Before(T, j) % 2 = 1
    BY DEF OptionsWhole, SourceIds
  <2>1. i \in 1 .. Len(keys[s]) /\ DOMAIN lists[s] = 1 .. Len(lists[s])
    <3>1. keys[s] \in Seq(Key) /\ lists[s] \in Seq(Line)
      BY <1>1 DEF Invariant, Typed
    <3> QED BY <3>1, LenProperties
  <2>2. PICK n \in 1 .. Len(lists[s]) :
          Parses(LineAt(s, n)) /\ keys[s][i] = Sanitize(Parse(LineAt(s, n)))
    BY <1>1, <2>1 DEF Invariant, KeysAreLines, KeyOf
  <2> DEFINE line == LineAt(s, n)
  <2>3. line \in Line /\ Parse(line) # None
    BY <1>1, <2>2, LinesTrim DEF Invariant, Parses
  <2> HIDE DEF line
  <2>4. keys[s][i].options = Parse(line).options
    <3>1. Parse(line) \in Key
      BY <2>3, ParsedKey
    <3> QED BY <2>2, <3>1 DEF Sanitize, Key, line
  <2>5. Parse(line).options # <<>>
    BY <2>4
  <2> DEFINE end == Len(keys[s][i].options)
  <2>6. /\ end < Len(line)
        /\ SubSeq(line, 1, end) = keys[s][i].options
        /\ \E T \in SUBSET {j \in DOMAIN line : line[j] = "quote"} :
             /\ Toggles(line, T)
             /\ line[end + 1] = " " /\ Before(T, end + 1) % 2 = 0
             /\ \A j \in 1 .. end : line[j] = " " => Before(T, j) % 2 = 1
    BY <2>3, <2>4, <2>5, OptionsEnd
  <2> QED BY <2>1, <2>6 DEF line, LineAt
<1> QED
  BY <1>1, Always, PTL

\* What authorized_keys prints is a line of a source as it stands there, or with
\* default_sanitize's comment behind it.
THEOREM PrintedVerbatim == Spec => []Verbatim
<1>1. ASSUME Invariant PROVE Verbatim
  <2> SUFFICES ASSUME NEW i \in DOMAIN printed
               PROVE  \E s \in SourceIds : \E n \in DOMAIN lists[s] :
                        Str(printed[i]) \in {Strip(lists[s][n]),
                                             Strip(lists[s][n]) \o <<" ">> \o Comment}
    BY DEF Verbatim, SourceIds
  <2>1. i \in 1 .. Len(printed)
    BY <1>1, LenProperties DEF Invariant, Typed
  <2>2. PICK s \in SourceIds : \E j \in 1 .. Len(keys[s]) : printed[i] = keys[s][j]
    BY <1>1, <2>1 DEF Invariant, PrintedAreKeys
  <2>3. PICK n \in 1 .. Len(lists[s]) :
          Parses(LineAt(s, n)) /\ printed[i] = Sanitize(Parse(LineAt(s, n)))
    BY <1>1, <2>2 DEF Invariant, KeysAreLines, KeyOf
  <2>4. n \in DOMAIN lists[s]
    BY <1>1, <2>3, LenProperties DEF Invariant, Typed
  <2> DEFINE line == LineAt(s, n)
  <2>5. line \in Line /\ Trim(line)
    BY <1>1, LinesTrim DEF Invariant
  <2> HIDE DEF line
  <2>6. Str(printed[i]) \in {line, Long(line)}
    BY <2>3, <2>5, Reparsed DEF Parses, line
  <2> QED BY <2>4, <2>6 DEF line, LineAt, Long
<1> QED
  BY <1>1, Always, PTL

\* An entry that was read to its end gives back the keys that were stored, or
\* nothing, and nothing only for a key type with a quote in it: parse undoes
\* __repr__ on every key that parse made.
THEOREM CacheRoundTrip == Spec => []RoundTrip
<1>1. ASSUME Invariant PROVE RoundTrip
  <2> SUFFICES ASSUME step = "read", pos > Len(text[src])
               PROVE  \/ back[src] = keys[src]
                      \/ /\ back[src] = None
                         /\ \E i \in DOMAIN keys[src] :
                              "quote" \in {keys[src][i].type[j] : j \in DOMAIN keys[src][i].type}
    BY DEF RoundTrip
  <2>1. back[src] = keys[src] \/ Unreadable(src)
    BY <1>1, EntryRead
  <2>2. DOMAIN keys[src] = 1 .. Len(keys[src])
    <3>1. keys[src] \in Seq(Key)
      BY <1>1 DEF Invariant, Typed
    <3> QED BY <3>1, LenProperties
  <2> QED BY <2>1, <2>2 DEF Unreadable, QuoteIn
<1> QED
  BY <1>1, Always, PTL

-----------------------------------------------------------------------------
(* Every key is printed, and nothing else than two spaces hides one        *)

\* The places m to n of a line have no space.
Ink(line, m, n) == \A i \in m .. n : line[i] # " "
NoSpace(line) == Ink(line, 1, Len(line))

\* The field the code takes for the key has no space in it.
LEMMA KeyHasNoSpace ==
  ASSUME NEW line \in Line, Parse(line) # None
  PROVE  NoSpace(Parse(line).key)
<1> DEFINE k == Parse(line)
           rest == Rest(line)
<1>1. rest \in Line
  BY RestIs
<1>2. \E p \in Nat : \/ Divided(k, rest, p)
                     \/ \E q \in Nat : DividedTwice(k, rest, p, q)
  BY ParsedKey
<1> HIDE DEF k, rest
<1>3. ASSUME NEW p \in Nat, NEW n \in Nat, p =< n, n =< Len(rest), Ink(rest, p + 1, n)
      PROVE  NoSpace(SubSeq(rest, p + 1, n))
  <2> DEFINE piece == SubSeq(rest, p + 1, n)
  <2>1. Len(piece) = n - p /\ \A i \in 1 .. n - p : piece[i] = rest[p + i]
    BY <1>1, <1>3, Behind, Zenon
  <2>2. \A i \in 1 .. n - p : p + i \in p + 1 .. n
    BY <1>3
  <2> HIDE DEF piece
  <2>3. \A i \in 1 .. n - p : piece[i] # " "
    BY <1>3, <2>1, <2>2, Zenon DEF Ink
  <2>4. NoSpace(piece)
    BY <2>1, <2>3, Zenon DEF NoSpace, Ink
  <2> QED BY <2>4 DEF piece
<1>4. ASSUME NEW p \in Nat, Divided(k, rest, p) PROVE NoSpace(k.key)
  <2>1. FirstSpace(rest, p) /\ LastSpace(rest, p) /\ k.key = SubSeq(rest, p + 1, Len(rest))
    BY <1>4 DEF Divided
  <2>2. Len(rest) \in Nat /\ p =< Len(rest) /\ Len(rest) =< Len(rest)
    BY <1>1, <2>1, Ranges
  <2>3. Ink(rest, p + 1, Len(rest))
    BY <2>1 DEF LastSpace, Ink
  <2> QED BY <1>3, <2>1, <2>2, <2>3
<1>5. ASSUME NEW p \in Nat, NEW q \in Nat, DividedTwice(k, rest, p, q) PROVE NoSpace(k.key)
  <2>1. FirstSpace(rest, p) /\ NextSpace(rest, p, q) /\ k.key = SubSeq(rest, p + 1, q - 1)
    BY <1>5 DEF DividedTwice
  <2>2. p < q /\ q =< Len(rest) /\ Len(rest) \in Nat
    BY <1>1, <2>1, Ranges
  <2>3. q - 1 \in Nat /\ p =< q - 1 /\ q - 1 =< Len(rest)
    BY <2>2
  <2>4. Ink(rest, p + 1, q - 1)
    BY <2>1 DEF NextSpace, Ink
  <2> QED BY <1>3, <2>1, <2>3, <2>4
<1> QED
  BY <1>2, <1>4, <1>5 DEF k

\* Stripping leaves a line that begins with a word no shorter than the word.
LEMMA StripEnds ==
  ASSUME NEW line \in Line, NEW m \in Nat \ {0}, m =< Len(line), Ink(line, 1, m)
  PROVE  \E n \in Nat : m =< n /\ n =< Len(line) /\ Strip(line) = SubSeq(line, 1, n)
<1> DEFINE ink == {i \in DOMAIN line : line[i] # " "}
<1>1. Len(line) \in Nat /\ DOMAIN line = 1 .. Len(line)
  BY LineIs
<1>2. 1 \in 1 .. m /\ m \in 1 .. m /\ 1 \in DOMAIN line /\ m \in DOMAIN line
  <2> HIDE DEF ink
  <2> QED BY <1>1
<1>3. 1 \in ink /\ m \in ink
  BY <1>2 DEF Ink
<1>4. Strip(line) = SubSeq(line, Min(ink), Max(ink))
  BY <1>3 DEF Strip
<1>5. ink \subseteq DOMAIN line
  OBVIOUS
<1> HIDE DEF ink
<1>6. /\ Min(ink) \in 1 .. Len(line) /\ Max(ink) \in 1 .. Len(line)
      /\ Min(ink) =< 1 /\ m =< Max(ink)
  BY <1>3, <1>5, Places
<1>7. Min(ink) = 1 /\ Max(ink) \in Nat /\ Max(ink) =< Len(line)
  BY <1>1, <1>6
<1> QED
  BY <1>4, <1>6, <1>7

\* The first field of a line is what stands before its first space.
LEMMA FirstField ==
  ASSUME NEW line \in Line, NEW m \in Nat, m =< Len(line), Ink(line, 1, m),
         m < Len(line) => m + 1 \in Spaces(line)
  PROVE  Fields(line)[1] = SubSeq(line, 1, m)
<1>1. Len(line) \in Nat
  BY LineIs
<1>2. ASSUME NEW p \in Nat, FirstSpace(line, p) PROVE p - 1 = m
  <2>1. p \in 1 .. Len(line)
    BY <1>2 DEF FirstSpace
  <2>2. p \notin 1 .. m
    BY <1>2 DEF FirstSpace, Ink
  <2>3. m < p /\ m < Len(line)
    BY <1>1, <2>1, <2>2
  <2>4. m + 1 \notin 1 .. p - 1
    BY <1>2, <2>3 DEF FirstSpace, Spaces
  <2> QED BY <1>1, <2>1, <2>3, <2>4
<1>3. CASE Fields(line) = <<line>>
  <2>1. Spaces(line) = {}
    <3>1. Spaces(line) # {} => Len(Fields(line)) \in {2, 3}
      BY DEF Fields
    <3>2. Len(Fields(line)) = 1
      BY <1>3
    <3> QED BY <3>1, <3>2
  <2>2. m = Len(line)
    BY <1>1, <2>1
  <2>3. SubSeq(line, 1, Len(line)) = line
    BY SubSeqFull DEF Line
  <2>4. Fields(line)[1] = line
    BY <1>3
  <2> QED BY <2>2, <2>3, <2>4
<1>4. ASSUME NEW p \in Nat, FirstSpace(line, p),
             \/ Fields(line) = TwoFields(line, p)
             \/ \E q \in Nat : Fields(line) = ThreeFields(line, p, q)
      PROVE  Fields(line)[1] = SubSeq(line, 1, m)
  <2>1. p - 1 = m
    BY <1>2, <1>4
  <2>2. TwoFields(line, p)[1] = SubSeq(line, 1, p - 1)
    BY DEF TwoFields
  <2>3. \A q \in Nat : ThreeFields(line, p, q)[1] = SubSeq(line, 1, p - 1)
    BY DEF ThreeFields
  <2> QED BY <1>4, <2>1, <2>2, <2>3
<1> QED
  BY <1>3, <1>4, FieldsCases

\* Where the code's key is not empty, it is the key material.
LEMMA MaterialIsKey ==
  ASSUME NEW k \in Key, k.key # <<>>, NoSpace(k.key)
  PROVE  Material(k) = k.key
<1> DEFINE y == k.key
           c == k.comment
           s == <<" ">>
           m == Len(y)
           t == (y \o s) \o c
<1>1. y \in Line /\ c \in Line /\ y # <<>> /\ s \in Line /\ Len(s) = 1 /\ s[1] = " "
  BY Short DEF Key
<1>2. Ink(y, 1, m)
  BY DEF NoSpace
<1>3. Fields(Strip(t))[1] = Material(k)
  BY DEF Material
<1> HIDE DEF y, c, s
<1>4. m \in Nat \ {0} /\ Len(c) \in Nat
  BY <1>1, LineIs
<1>5. t \in Line /\ m < Len(t) /\ Len(t) \in Nat
      /\ (\A i \in 1 .. m : t[i] = y[i]) /\ t[m + 1] = s[1]
  <2> DEFINE u == y \o s
  <2>1. u \in Line /\ Len(u) = m + Len(s)
        /\ \A i \in 1 .. m + Len(s) : u[i] = IF i =< m THEN y[i] ELSE s[i - m]
    BY <1>1, Joined, Zenon DEF m
  <2>2. t \in Line /\ Len(t) = Len(u) + Len(c)
        /\ \A i \in 1 .. Len(u) + Len(c) : t[i] = IF i =< Len(u) THEN u[i] ELSE c[i - Len(u)]
    BY <1>1, <2>1, Joined, Zenon
  <2>3. Len(s) = 1
    BY <1>1
  <2> HIDE DEF u, m, t
  <2>4. Len(t) \in Nat /\ m < Len(t)
    BY <1>4, <2>1, <2>2, <2>3
  <2>5. ASSUME NEW i \in 1 .. m + 1 PROVE t[i] = IF i =< m THEN y[i] ELSE s[i - m]
    BY <1>4, <2>1, <2>2, <2>3, <2>5
  <2>6. \A i \in 1 .. m : t[i] = y[i]
    BY <1>4, <2>5
  <2>7. t[m + 1] = s[1]
    BY <1>4, <2>5
  <2> QED BY <2>2, <2>4, <2>6, <2>7
<1> HIDE DEF m, t
<1>6. Ink(t, 1, m)
  BY <1>2, <1>5 DEF Ink
<1>7. PICK n \in Nat : m =< n /\ n =< Len(t) /\ Strip(t) = SubSeq(t, 1, n)
  BY <1>4, <1>5, <1>6, StripEnds
<1> DEFINE w == SubSeq(t, 1, n)
<1>8. w \in Line /\ Len(w) = n /\ \A i \in 1 .. n : w[i] = t[i]
  <2>1. /\ 1 \in Nat \ {0} /\ 1 =< n + 1 /\ n - 1 + 1 = n
        /\ \A i \in 1 .. n : 1 + i - 1 = i
    BY <1>7
  <2>2. /\ w \in Line /\ Len(w) = n - 1 + 1
        /\ \A i \in 1 .. n - 1 + 1 : w[i] = t[1 + i - 1]
    BY <1>5, <1>7, <2>1, Piece, Zenon
  <2> HIDE DEF w
  <2> QED BY <2>1, <2>2
<1> HIDE DEF w
<1>9. /\ \A i \in 1 .. m : i \in 1 .. n
      /\ m < n => m + 1 \in 1 .. n
  BY <1>4, <1>7
<1>10. /\ \A i \in 1 .. m : w[i] = y[i]
       /\ m < n => w[m + 1] = s[1]
  BY <1>5, <1>8, <1>9
<1>11. Ink(w, 1, m)
  BY <1>2, <1>10 DEF Ink
<1>12. m < n => m + 1 \in Spaces(w)
  <2>1. m < n => w[m + 1] = " "
    BY <1>1, <1>10, Zenon
  <2> QED BY <1>8, <1>9, <2>1, SpacesIs
<1>13. Fields(w)[1] = SubSeq(w, 1, m)
  <2>1. m \in Nat /\ m =< Len(w) /\ (m < Len(w) => m + 1 \in Spaces(w))
    BY <1>4, <1>7, <1>8, <1>12
  <2> QED BY <1>8, <1>11, <2>1, FirstField
<1>14. SubSeq(w, 1, m) = SubSeq(y, 1, m)
  <2>1. 1 \in Nat \ {0} /\ m \in Nat /\ 1 =< m + 1 /\ m =< Len(w) /\ m =< Len(y)
    BY <1>4, <1>7, <1>8 DEF m
  <2> QED BY <1>1, <1>8, <1>10, <2>1, SamePiece
<1>15. SubSeq(y, 1, m) = y
  BY <1>1, SubSeqFull DEF Line, m
<1>16. Material(k) = Fields(w)[1]
  BY <1>3, <1>7 DEF w
<1> QED
  BY <1>13, <1>14, <1>15, <1>16 DEF y

\* The fields the code compares are the material, unless the key field is empty.
LEMMA SameIdentity ==
  ASSUME NEW a \in Key, NEW b \in Key, NoSpace(a.key), NoSpace(b.key),
         a.key # <<>>, b.key # <<>>
  PROVE  SameKey(a, b) <=> Identity(a) = Identity(b)
<1>1. Material(a) = a.key /\ Material(b) = b.key
  BY MaterialIsKey
<1> QED
  BY <1>1 DEF SameKey, Identity

\* What is printed has a key field without a space in it, as every key has that was
\* parsed from a line.
LEMMA PrintedKeyIs ==
  ASSUME Invariant, NEW i \in DOMAIN printed
  PROVE  printed[i] \in Key /\ NoSpace(printed[i].key)
<1>1. printed \in Seq(Key) /\ i \in 1 .. Len(printed)
  BY LenProperties DEF Invariant, Typed
<1>2. printed[i] \in Key
  BY <1>1, ElementOfSeq
<1>3. PICK s \in SourceIds : \E j \in 1 .. Len(keys[s]) : printed[i] = keys[s][j]
  BY <1>1 DEF Invariant, PrintedAreKeys
<1>4. PICK j \in 1 .. Len(keys[s]) : printed[i] = keys[s][j]
  BY <1>3
<1>5. PICK n \in 1 .. Len(lists[s]) :
        Parses(LineAt(s, n)) /\ keys[s][j] = Sanitize(Parse(LineAt(s, n)))
  BY <1>4 DEF Invariant, KeysAreLines, KeyOf
<1> DEFINE k == Parse(LineAt(s, n))
<1>6. LineAt(s, n) \in Line /\ k # None
  BY <1>5, LinesTrim DEF Invariant, Parses
<1>7. k \in Key /\ NoSpace(k.key)
  BY <1>6, ParsedKey, KeyHasNoSpace
<1>8. printed[i] = Sanitize(k)
  BY <1>4, <1>5
<1> HIDE DEF k
<1>9. Identity(printed[i]) = Identity(k)
  BY <1>7, <1>8, SanitizedText
<1>10. printed[i].key = k.key
  BY <1>9 DEF Identity
<1> QED
  BY <1>2, <1>7, <1>10

\* The key of every line that parses is printed, and none twice, for any number of
\* sources and whichever of them come from the cache, but for lines with two spaces
\* behind the type.
THEOREM EachPrintedOnce == Spec => []EachOnce
<1>1. ASSUME Invariant PROVE EachOnce
  <2> SUFFICES ASSUME step = "done" PROVE EachOnce
    BY DEF EachOnce
  <2>1. DOMAIN printed = 1 .. Len(printed)
    BY <1>1, LenProperties DEF Invariant, Typed
  <2>2. ASSUME NEW i \in DOMAIN printed, NEW j \in DOMAIN printed,
               printed[i].key # <<>>, printed[j].key # <<>>,
               SameKey(printed[i], printed[j])
        PROVE  i = j
    <3>1. Identity(printed[i]) = Identity(printed[j])
      BY <1>1, <2>2, PrintedKeyIs, SameIdentity
    <3> QED BY <1>1, <2>1, <2>2, <3>1 DEF Invariant, PrintedOnce
  <2>3. ASSUME NEW s \in SourceIds, NEW n \in DOMAIN lists[s],
               Parses(LineAt(s, n)), Parse(LineAt(s, n)).key # <<>>
        PROVE  \E i \in DOMAIN printed : SameKey(printed[i], Parse(LineAt(s, n)))
    <3>1. n \in 1 .. Len(lists[s])
      <4>1. lists[s] \in Seq(Line)
        BY <1>1 DEF Invariant, Typed
      <4> QED BY <4>1, LenProperties
    <3> DEFINE line == LineAt(s, n)
    <3>2. PICK j \in 1 .. Len(keys[s]) : keys[s][j] = Sanitize(Parse(line))
      BY <1>1, <2>3, <3>1 DEF Invariant, LinesHaveKeys, Stored
    <3>3. line \in Line /\ Parse(line) # None /\ Parse(line).key # <<>>
      BY <1>1, <2>3, <3>1, LinesTrim DEF Invariant, Parses
    <3> HIDE DEF line
    <3>4. Parse(line) \in Key /\ Identity(keys[s][j]) = Identity(Parse(line))
      BY <3>2, <3>3, ParsedKey, SanitizedText
    <3>5. Identity(keys[s][j]) \in PrintedIds
      BY <1>1 DEF Invariant, PrintedSoFar
    <3>6. PICK i \in DOMAIN printed : Identity(printed[i]) = Identity(Parse(line))
      BY <3>4, <3>5 DEF PrintedIds
    <3>7. printed[i].key = Parse(line).key
      BY <3>6 DEF Identity
    <3>8. SameKey(printed[i], Parse(line))
      BY <1>1, <3>3, <3>4, <3>6, <3>7, PrintedKeyIs, KeyHasNoSpace, SameIdentity
    <3> QED BY <3>8 DEF line
  <2> QED BY <2>2, <2>3 DEF EachOnce, SourceIds, Parses, LineAt
<1> QED
  BY <1>1, Always, PTL
=============================================================================
