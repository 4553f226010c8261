-------------------------- MODULE AlgorithmsProofs --------------------------
(***************************************************************************)
(* Theorems about the tables and digits of IrCodes, for every brightness:  *)
(* they are what MCAlgorithms takes them for, and what RemoteControl       *)
(* assumes of its tables.  Then about the texts of RequestText: every      *)
(* address survives being printed and read, nothing else is read, and of a *)
(* request that is cut _onTCPData reads the beginning.                     *)
(***************************************************************************)
EXTENDS MCAlgorithms, SequenceTheorems, FiniteSetTheorems, WellFoundedInduction,
        TLAPS

Line(v) == (49 * v - 23) \div 124

Clamped(n) == IF n < 0 THEN 0 ELSE IF n > 99 THEN 99 ELSE n

LEMMA ChannelsBegin ==
  /\ DOMAIN brightness_to_channel_mapping = 1 .. 100
  /\ brightness_to_channel_mapping[1] = 0
  /\ \A c \in 2 .. 100 : brightness_to_channel_mapping[c] = (124 * c - 53) \div 49
<1>1. DOMAIN brightness_to_channel_mapping = 1 .. 100
  BY DEF brightness_to_channel_mapping
<1>2. brightness_to_channel_mapping[1] = 0
  BY DEF brightness_to_channel_mapping
<1>3. \A c \in 2 .. 100 : brightness_to_channel_mapping[c] = (124 * c - 53) \div 49
  BY DEF brightness_to_channel_mapping
<1>4. QED
  BY <1>1, <1>2, <1>3

LEMMA CountedFromOne == \A n \in Nat \ {0} : Cardinality(1 .. n) = n
<1>1. ASSUME NEW n \in Nat \ {0}
      PROVE  Cardinality(1 .. n) = n
  <2>1. 1 \in Int /\ n \in Int
    OBVIOUS
  <2>2. Cardinality(1 .. n) = IF 1 > n THEN 0 ELSE n - 1 + 1
    BY Zenon, <2>1, FS_Interval
  <2>3. QED
    BY <2>2
<1>2. QED
  BY <1>1

LEMMA ChannelIsLine ==
  ASSUME NEW v \in Byte
  PROVE  /\ convert_brightness_to_channel(v) = Clamped(Line(v))
         /\ Clamped(Line(v)) \in 0 .. 99
<1> DEFINE channel == Clamped(Line(v))
           begun == {c \in DOMAIN brightness_to_channel_mapping :
                       brightness_to_channel_mapping[c] <= v}
<1>1. channel \in 0 .. 99
  BY DEF Byte, Line, Clamped
<1>2. ASSUME NEW c \in 2 .. 100
      PROVE  (124 * c - 53) \div 49 <= v <=> c <= channel + 1
  BY DEF Byte, Line, Clamped
<1>3. begun = 1 .. channel + 1
  BY <1>1, <1>2, ChannelsBegin DEF Byte
<1>4. convert_brightness_to_channel(v) = Cardinality(begun) - 1
  BY Zenon DEF convert_brightness_to_channel
<1> HIDE DEF channel, begun
<1>5. Cardinality(1 .. channel + 1) = channel + 1
  BY <1>1, CountedFromOne
<1>6. convert_brightness_to_channel(v) = channel
  BY <1>1, <1>3, <1>4, <1>5
<1>7. QED
  BY <1>1, <1>6 DEF channel

LEMMA SampleTyped == Spec => [](sample.kind = "brightness" => sample.value \in Byte)
<1>1. ASSUME NEW s \in Samples
      PROVE  s.kind = "brightness" => s.value \in Byte
  BY DEF Samples
<1>2. Init => (sample.kind = "brightness" => sample.value \in Byte)
  BY DEF Init
<1>3. (sample.kind = "brightness" => sample.value \in Byte) /\ [Next]_sample
        => (sample.kind = "brightness" => sample.value \in Byte)'
  BY <1>1 DEF Next
<1>4. QED
  BY <1>2, <1>3, PTL DEF Spec

(***************************************************************************)
(* All 256 entries of brightness_to_channel_mapping lie on the line.       *)
(***************************************************************************)
THEOREM TableRight == Spec => []TableIsLinear
<1>1. (sample.kind = "brightness" => sample.value \in Byte) => TableIsLinear
  BY ChannelIsLine DEF TableIsLinear, Line, Clamped
<1>2. QED
  BY <1>1, SampleTyped, PTL

-----------------------------------------------------------------------------
(***************************************************************************)
(* FoldLeft reads a sequence from the left: of a longer one it gives what  *)
(* a step makes of that of the shorter.  Both follow from there being a    *)
(* fold at all, which is shown by induction over the length.               *)
(***************************************************************************)
LEMMA Induction ==
  ASSUME NEW n \in Nat, NEW S, 0 \in S, \A k \in 0 .. n - 1 : k \in S => k + 1 \in S
  PROVE  \A k \in 0 .. n : k \in S
<1> DEFINE Left == {k \in Nat : k <= n /\ k \notin S}
<1>1. SUFFICES ASSUME Left # {} PROVE FALSE
  OBVIOUS
<1>2. PICK k \in Left : \A j \in Left : << j, k >> \notin OpToRel(<, Nat)
  BY <1>1, NatLessThanWellFounded, WFMin, Left \subseteq Nat, Zenon
<1>3. \A j \in Left : ~ (j < k)
  BY <1>2 DEF OpToRel
<1>4. k # 0
  OBVIOUS
<1>5. k - 1 \in 0 .. n - 1 /\ k - 1 < k
  BY <1>4
<1>6. k - 1 \in S
  BY <1>3, <1>5
<1>7. QED
  BY <1>5, <1>6

LEMMA MaxOfPlaces ==
  ASSUME NEW n \in Nat, NEW s \in SUBSET (1 .. n), s # {}
  PROVE  Max(s) \in s /\ \A x \in s : x <= Max(s)
<1> DEFINE Bounded(k) == \A t \in SUBSET (1 .. k) : t # {} => \E x \in t : \A y \in t : x >= y
           S == {k \in 0 .. n : Bounded(k)}
<1>1. Bounded(0)
  <2>1. 1 .. 0 = {}
    OBVIOUS
  <2>2. QED
    BY Zenon, <2>1
<1>2. ASSUME NEW k \in 0 .. n - 1, Bounded(k)
      PROVE  Bounded(k + 1)
  <2>1. SUFFICES ASSUME NEW t \in SUBSET (1 .. k + 1), t # {}
                 PROVE  \E x \in t : \A y \in t : x >= y
    BY Zenon DEF Bounded
  <2>2. CASE k + 1 \in t
    <3>1. \A y \in t : k + 1 >= y
      OBVIOUS
    <3>2. QED
      BY Zenon, <2>2, <3>1
  <2>3. CASE k + 1 \notin t
    <3>1. t \in SUBSET (1 .. k)
      BY <2>3
    <3>2. QED
      BY Zenon, <1>2, <2>1, <3>1
  <2>4. QED
    BY <2>2, <2>3
<1> HIDE DEF Bounded
<1>3. n \in S
  <2>1. 0 \in S
    BY <1>1
  <2>2. \A k \in 0 .. n - 1 : k \in S => k + 1 \in S
    BY <1>2
  <2> HIDE DEF S
  <2>3. \A k \in 0 .. n : k \in S
    BY <2>1, <2>2, Induction
  <2>4. QED
    BY <2>3
<1>4. \E x \in s : \A y \in s : x >= y
  BY <1>3 DEF Bounded
<1>5. Max(s) \in s /\ \A y \in s : Max(s) >= y
  BY Zenon, <1>4 DEF Max
<1>6. QED
  BY <1>5

LEMMA MaxOfInterval ==
  ASSUME NEW k \in Nat \ {0}
  PROVE  Max(1 .. k) = k /\ (1 .. k) \ {k} = 1 .. k - 1
<1>1. 1 .. k \in SUBSET (1 .. k) /\ 1 .. k # {} /\ k \in 1 .. k
  OBVIOUS
<1>2. Max(1 .. k) \in 1 .. k /\ \A x \in 1 .. k : x <= Max(1 .. k)
  BY Zenon, <1>1, MaxOfPlaces, k \in Nat
<1>3. QED
  BY <1>1, <1>2

\* A step of one of the folds of the program's algorithms.
Fold(algorithm, x, c) ==
  CASE algorithm = "number" -> 10 * x + c
    [] algorithm = "address" -> ReadChar(x, c)
    [] algorithm = "runs" -> Split(x, c)
    [] algorithm = "body" -> CountLineFeeds(x, c)
    [] algorithm = "lines" -> Join(x, c)

Folds(algorithm, fold, base, text) ==
  fold = [s \in SUBSET DOMAIN text |->
            IF s = {} THEN base
            ELSE Fold(algorithm, fold[s \ {Max(s)}], text[Max(s)])]

LEMMA FoldExists ==
  ASSUME NEW algorithm, NEW base, NEW n \in Nat, NEW text, DOMAIN text = 1 .. n
  PROVE  \E fold : Folds(algorithm, fold, base, text)
<1> DEFINE Upto(k, f) ==
             f = [s \in SUBSET (1 .. k) |->
                    IF s = {} THEN base
                    ELSE Fold(algorithm, f[s \ {Max(s)}], text[Max(s)])]
           S == {k \in 0 .. n : \E f : Upto(k, f)}
<1>1. \E f : Upto(0, f)
  <2> DEFINE f == [s \in SUBSET (1 .. 0) |-> base]
  <2>1. \A s \in SUBSET (1 .. 0) : s = {}
    OBVIOUS
  <2>2. f = [s \in SUBSET (1 .. 0) |->
                    IF s = {} THEN base
                    ELSE Fold(algorithm, f[s \ {Max(s)}], text[Max(s)])]
    BY Zenon, <2>1
  <2>3. QED
    BY Zenon, <2>2
<1>2. ASSUME NEW k \in 0 .. n - 1, NEW f, Upto(k, f)
      PROVE  \E g : Upto(k + 1, g)
  <2> DEFINE g == [s \in SUBSET (1 .. k + 1) |->
                     IF k + 1 \in s THEN Fold(algorithm, f[s \ {k + 1}], text[k + 1])
                     ELSE f[s]]
  <2>1. ASSUME NEW s \in SUBSET (1 .. k + 1)
        PROVE  g[s] = IF s = {} THEN base
                      ELSE Fold(algorithm, g[s \ {Max(s)}], text[Max(s)])
    <3>1. CASE k + 1 \in s
      <4>1. Max(s) \in s /\ \A x \in s : x <= Max(s)
        BY <3>1, MaxOfPlaces, k + 1 \in Nat
      <4>2. Max(s) = k + 1
        <5>1. Max(s) \in 1 .. k + 1
          BY Zenon, <4>1
        <5>2. QED
          BY <3>1, <4>1, <5>1
      <4>3. s \ {k + 1} \in SUBSET (1 .. k + 1) /\ k + 1 \notin s \ {k + 1}
        OBVIOUS
      <4>4. g[s \ {Max(s)}] = f[s \ {k + 1}]
        BY Zenon, <4>2, <4>3
      <4>5. QED
        BY Zenon, <3>1, <4>2, <4>4
    <3>2. CASE k + 1 \notin s
      <4>1. s \in SUBSET (1 .. k)
        BY <3>2
      <4>2. g[s] = f[s]
        BY Zenon, <3>2
      <4>3. f[s] = IF s = {} THEN base
                   ELSE Fold(algorithm, f[s \ {Max(s)}], text[Max(s)])
        BY Zenon, <1>2, <4>1
      <4>4. /\ s \ {Max(s)} \in SUBSET (1 .. k + 1) /\ k + 1 \notin s \ {Max(s)}
        BY <3>2
      <4>5. g[s \ {Max(s)}] = f[s \ {Max(s)}]
        BY Zenon, <4>4
      <4>6. QED
        BY Zenon, <4>2, <4>3, <4>5
    <3>3. QED
      BY <3>1, <3>2
  <2>2. g = [s \in SUBSET (1 .. k + 1) |-> g[s]]
    OBVIOUS
  <2> HIDE DEF g
  <2>3. g = [s \in SUBSET (1 .. k + 1) |->
                    IF s = {} THEN base
                    ELSE Fold(algorithm, g[s \ {Max(s)}], text[Max(s)])]
    BY Zenon, <2>1, <2>2
  <2>4. QED
    BY Zenon, <2>3
<1> HIDE DEF Upto
<1>3. n \in S
  <2>1. 0 \in S
    BY <1>1
  <2>2. \A k \in 0 .. n - 1 : k \in S => k + 1 \in S
    BY <1>2
  <2> HIDE DEF S
  <2>3. \A k \in 0 .. n : k \in S
    BY <2>1, <2>2, Induction
  <2>4. QED
    BY <2>3
<1>4. QED
  BY Zenon, <1>3 DEF Folds, Upto

LEMMA SeqHasFold ==
  ASSUME NEW S, NEW text \in Seq(S)
  PROVE  \A algorithm, base : \E fold : Folds(algorithm, fold, base, text)
<1>1. Len(text) \in Nat /\ DOMAIN text = 1 .. Len(text)
  OBVIOUS
<1>2. QED
  BY Zenon, <1>1, FoldExists

Stepwise(algorithm, fold, base, text, n) ==
  /\ fold[1 .. 0] = base
  /\ \A k \in 0 .. n - 1 :
       fold[1 .. k + 1] = Fold(algorithm, fold[1 .. k], text[k + 1])

LEMMA FoldSteps ==
  ASSUME NEW n \in Nat, NEW text, DOMAIN text = 1 .. n
  PROVE  \A algorithm, fold, base :
           Folds(algorithm, fold, base, text) => Stepwise(algorithm, fold, base, text, n)
<1> TAKE algorithm, fold, base
<1> HAVE Folds(algorithm, fold, base, text)
<1>1. fold[1 .. 0] = base
  <2>1. 1 .. 0 = {} /\ 1 .. 0 \in SUBSET DOMAIN text
    OBVIOUS
  <2>2. QED
    BY Zenon, <2>1 DEF Folds
<1>2. ASSUME NEW k \in 0 .. n - 1
      PROVE  fold[1 .. k + 1] = Fold(algorithm, fold[1 .. k], text[k + 1])
  <2>1. k + 1 \in Nat \ {0} /\ k + 1 - 1 = k /\ k + 1 \in 1 .. k + 1
    OBVIOUS
  <2>2. Max(1 .. k + 1) = k + 1 /\ (1 .. k + 1) \ {k + 1} = 1 .. k + 1 - 1
    BY <2>1, MaxOfInterval
  <2>3. 1 .. k + 1 \in SUBSET DOMAIN text /\ 1 .. k + 1 # {}
    <3>1. 1 .. k + 1 \in SUBSET (1 .. n)
      OBVIOUS
    <3>2. QED
      BY Zenon, <2>1, <3>1
  <2>4. QED
    BY Zenon, <2>1, <2>2, <2>3 DEF Folds
<1>3. QED
  BY Zenon, <1>1, <1>2 DEF Stepwise

Extends(longer, text, n, c) ==
  /\ n \in Nat /\ DOMAIN text = 1 .. n /\ DOMAIN longer = 1 .. n + 1
  /\ longer[n + 1] = c
  /\ \A k \in 0 .. n - 1 : longer[k + 1] = text[k + 1]

LEMMA FoldAppend ==
  ASSUME NEW n, NEW text, NEW longer, NEW c, Extends(longer, text, n, c)
  PROVE  \A algorithm, base, f, g :
           /\ Folds(algorithm, f, base, text)
           /\ Folds(algorithm, g, base, longer)
           => g[1 .. n + 1] = Fold(algorithm, f[1 .. n], c)
<1> TAKE algorithm, base, f, g
<1> HAVE Folds(algorithm, f, base, text) /\ Folds(algorithm, g, base, longer)
<1> DEFINE S == {k \in 0 .. n : f[1 .. k] = g[1 .. k]}
<1>1. /\ n \in Nat /\ n + 1 \in Nat /\ n + 1 - 1 = n
      /\ n \in 0 .. n /\ 0 \in 0 .. n
      /\ \A k \in 0 .. n - 1 :
           k \in 0 .. n /\ k + 1 \in 0 .. n /\ k \in 0 .. n + 1 - 1
      /\ n \in 0 .. n + 1 - 1
  BY DEF Extends
<1>2. Stepwise(algorithm, f, base, text, n)
  BY Zenon, <1>1, FoldSteps DEF Extends
<1>3. Stepwise(algorithm, g, base, longer, n + 1)
  BY Zenon, <1>1, FoldSteps DEF Extends
<1>4. f[1 .. n] = g[1 .. n]
  <2>1. 0 \in S
    BY Zenon, <1>1, <1>2, <1>3 DEF Stepwise
  <2>2. ASSUME NEW k \in 0 .. n - 1, k \in S
        PROVE  k + 1 \in S
    <3>1. f[1 .. k + 1] = Fold(algorithm, f[1 .. k], text[k + 1])
      BY Zenon, <1>2 DEF Stepwise
    <3>2. g[1 .. k + 1] = Fold(algorithm, g[1 .. k], longer[k + 1])
      BY <1>1, <1>3 DEF Stepwise
    <3>3. longer[k + 1] = text[k + 1]
      BY Zenon DEF Extends
    <3>4. f[1 .. k] = g[1 .. k] /\ k + 1 \in 0 .. n
      BY Zenon, <1>1, <2>2
    <3>5. QED
      BY Zenon, <3>1, <3>2, <3>3, <3>4
  <2> HIDE DEF S
  <2>3. \A k \in 0 .. n : k \in S
    BY <1>1, <2>1, <2>2, Induction
  <2>4. QED
    BY <1>1, <2>3 DEF S
<1>5. g[1 .. n + 1] = Fold(algorithm, g[1 .. n], longer[n + 1])
  BY <1>1, <1>3 DEF Stepwise
<1>6. longer[n + 1] = c
  BY Zenon DEF Extends
<1>7. QED
  BY Zenon, <1>4, <1>5, <1>6

LEMMA AppendExtends ==
  ASSUME NEW S, NEW text \in Seq(S), NEW c \in S
  PROVE  Extends(Append(text, c), text, Len(text), c)
BY DEF Extends

\* What a fold gives.
IsFold(value, algorithm, base, text) ==
  \E fold : Folds(algorithm, fold, base, text) /\ value = fold[DOMAIN text]

LEMMA FoldOfNothing ==
  ASSUME NEW value, NEW algorithm, NEW base, IsFold(value, algorithm, base, << >>)
  PROVE  value = base
<1>1. DOMAIN << >> = 1 .. 0 /\ 0 \in Nat
  OBVIOUS
<1>2. PICK fold : Folds(algorithm, fold, base, << >>) /\ value = fold[1 .. 0]
  BY Zenon, <1>1 DEF IsFold
<1>3. Stepwise(algorithm, fold, base, << >>, 0)
  BY Zenon, <1>1, <1>2, FoldSteps
<1>4. QED
  BY Zenon, <1>2, <1>3 DEF Stepwise

LEMMA FoldOfOneMore ==
  ASSUME NEW S, NEW text \in Seq(S), NEW c \in S, NEW algorithm, NEW base,
         NEW value, IsFold(value, algorithm, base, text),
         NEW longer, IsFold(longer, algorithm, base, Append(text, c))
  PROVE  longer = Fold(algorithm, value, c)
<1> DEFINE n == Len(text)
           more == Append(text, c)
<1>1. Extends(more, text, n, c)
  BY AppendExtends
<1> HIDE DEF n, more
<1>2. DOMAIN text = 1 .. n /\ DOMAIN more = 1 .. n + 1
  BY <1>1 DEF Extends
<1>3. PICK f : Folds(algorithm, f, base, text) /\ value = f[1 .. n]
  BY Zenon, <1>2 DEF IsFold
<1>4. PICK g : Folds(algorithm, g, base, more) /\ longer = g[1 .. n + 1]
  BY Zenon, <1>2 DEF IsFold, more
<1>5. g[1 .. n + 1] = Fold(algorithm, f[1 .. n], c)
  BY <1>1, <1>3, <1>4, FoldAppend
<1>6. QED
  BY Zenon, <1>3, <1>4, <1>5

NumberFolds(fold, digits) ==
  fold = [s \in SUBSET DOMAIN digits |->
            IF s = {} THEN 0 ELSE 10 * fold[s \ {Max(s)}] + digits[Max(s)]]

LEMMA NumberIsFold ==
  ASSUME NEW S, NEW digits \in Seq(S)
  PROVE  IsFold(Number(digits), "number", 0, digits)
<1>1. Number(digits) = (CHOOSE fold : NumberFolds(fold, digits))[DOMAIN digits]
  BY DEF Number, FoldLeft, MapThenFoldSet, NumberFolds
<1>2. \A x, c : Fold("number", x, c) = 10 * x + c
  BY DEF Fold
<1>3. \A fold : Folds("number", fold, 0, digits) <=> NumberFolds(fold, digits)
  BY Zenon, <1>2 DEF Folds, NumberFolds
<1>4. \E fold : NumberFolds(fold, digits)
  BY Zenon, <1>3, SeqHasFold
<1>5. QED
  BY Zenon, <1>1, <1>3, <1>4 DEF IsFold

LEMMA NumberOfNothing == Number(<< >>) = 0
<1>1. IsFold(Number(<< >>), "number", 0, << >>)
  BY NumberIsFold, << >> \in Seq(Nat)
<1>2. QED
  BY <1>1, FoldOfNothing

LEMMA NumberOneMore ==
  ASSUME NEW digits \in Seq(Nat), NEW d \in Nat
  PROVE  Number(Append(digits, d)) = 10 * Number(digits) + d
<1>1. Append(digits, d) \in Seq(Nat)
  OBVIOUS
<1>2. /\ IsFold(Number(digits), "number", 0, digits)
      /\ IsFold(Number(Append(digits, d)), "number", 0, Append(digits, d))
  BY Zenon, <1>1, NumberIsFold
<1>3. Number(Append(digits, d)) = Fold("number", Number(digits), d)
  BY Zenon, <1>2, FoldOfOneMore
<1>4. QED
  BY <1>3 DEF Fold

-----------------------------------------------------------------------------
\* The digits of a byte, written out.
Spelled(n) ==
  IF n <= 9 THEN << n >>
  ELSE IF n <= 99 THEN << n \div 10, n % 10 >>
  ELSE << n \div 100, (n \div 10) % 10, n % 10 >>

Splits(f) ==
  f = [n \in Byte |-> IF n > 9 THEN Append(f[n \div 10], n % 10) ELSE << n % 10 >>]

LEMMA Appended ==
  ASSUME NEW a \in Nat, NEW b \in Nat, NEW c \in Nat
  PROVE  /\ Append(<< a >>, b) = << a, b >>
         /\ Append(<< a, b >>, c) = << a, b, c >>
<1>1. Append(<< a >>, b) = << a, b >>
  <2>1. /\ Append(<< a >>, b) \in Seq(Nat) /\ << a, b >> \in Seq(Nat)
        /\ Len(Append(<< a >>, b)) = 2 /\ Len(<< a, b >>) = 2
        /\ \A i \in 1 .. 2 : Append(<< a >>, b)[i] = << a, b >>[i]
    OBVIOUS
  <2>2. QED
    BY <2>1, SeqEqual
<1>2. Append(<< a, b >>, c) = << a, b, c >>
  <2>1. /\ Append(<< a, b >>, c) \in Seq(Nat) /\ << a, b, c >> \in Seq(Nat)
        /\ Len(Append(<< a, b >>, c)) = 3 /\ Len(<< a, b, c >>) = 3
        /\ \A i \in 1 .. 3 : Append(<< a, b >>, c)[i] = << a, b, c >>[i]
    OBVIOUS
  <2>2. QED
    BY <2>1, SeqEqual
<1>3. QED
  BY <1>1, <1>2

LEMMA SpelledSplits ==
  ASSUME NEW n \in Byte
  PROVE  /\ n <= 9 => Spelled(n) = << n % 10 >>
         /\ ~ (n <= 9) => /\ n > 9 /\ n \div 10 \in Byte
                          /\ Spelled(n) = Append(Spelled(n \div 10), n % 10)
<1>1. CASE n <= 9
  <2>1. n % 10 = n
    BY <1>1 DEF Byte
  <2>2. QED
    BY Zenon, <1>1, <2>1 DEF Spelled
<1>2. CASE ~ (n <= 9) /\ n <= 99
  <2>1. n \div 10 <= 9 /\ n > 9 /\ n \div 10 \in Byte
    BY <1>2 DEF Byte
  <2>2. n \div 10 \in Nat /\ n % 10 \in Nat
    BY DEF Byte
  <2>3. Append(<< n \div 10 >>, n % 10) = << n \div 10, n % 10 >>
    BY <2>2, Appended
  <2>4. QED
    BY Zenon, <1>2, <2>1, <2>3 DEF Spelled
<1>3. CASE ~ (n <= 9) /\ ~ (n <= 99)
  <2>1. /\ ~ (n \div 10 <= 9) /\ n \div 10 <= 99 /\ (n \div 10) \div 10 = n \div 100
        /\ n > 9 /\ n \div 10 \in Byte
    BY <1>3 DEF Byte
  <2>2. n \div 100 \in Nat /\ (n \div 10) % 10 \in Nat /\ n % 10 \in Nat
    BY DEF Byte
  <2>3. Append(<< n \div 100, (n \div 10) % 10 >>, n % 10)
          = << n \div 100, (n \div 10) % 10, n % 10 >>
    BY <2>2, Appended
  <2>4. QED
    BY Zenon, <1>3, <2>1, <2>3 DEF Spelled
<1>4. QED
  BY <1>1, <1>2, <1>3

LEMMA DigitsSpelled == \A n \in Byte : get_digits(n) = Spelled(n)
<1> DEFINE digits == CHOOSE f : Splits(f)
           spelled == [n \in Byte |-> Spelled(n)]
<1>1. ASSUME NEW n \in Byte
      PROVE  Spelled(n) = IF n > 9 THEN Append(spelled[n \div 10], n % 10)
                          ELSE << n % 10 >>
  <2>1. n <= 9 => ~ (n > 9)
    BY DEF Byte
  <2>2. QED
    BY Zenon, <2>1, SpelledSplits
<1>2. Splits(spelled)
  BY Zenon, <1>1 DEF Splits
<1>3. Splits(digits)
  BY Zenon, <1>2
<1>h. HIDE DEF digits, spelled
<1>4. ASSUME NEW n \in Byte
      PROVE  /\ n <= 9 => digits[n] = << n % 10 >>
             /\ ~ (n <= 9) => digits[n] = Append(digits[n \div 10], n % 10)
  <2>1. (n <= 9 => ~ (n > 9)) /\ (~ (n <= 9) => n > 9)
    BY DEF Byte
  <2>2. digits[n] = IF n > 9 THEN Append(digits[n \div 10], n % 10) ELSE << n % 10 >>
    BY Zenon, <1>3 DEF Splits
  <2>3. QED
    BY Zenon, <2>1, <2>2
<1>5. \A n \in Byte : n <= 9 => digits[n] = Spelled(n)
  BY Zenon, <1>4, SpelledSplits
<1>6. ASSUME NEW n \in Byte, digits[n \div 10] = Spelled(n \div 10)
      PROVE  digits[n] = Spelled(n)
  BY Zenon, <1>4, <1>6, SpelledSplits
<1>7. ASSUME NEW n \in Byte
      PROVE  digits[n] = Spelled(n)
  <2>1. /\ n \div 10 \in Byte /\ (n \div 10) \div 10 \in Byte
        /\ (n \div 10) \div 10 <= 9
    BY DEF Byte
  <2>2. QED
    BY <2>1, <1>5, <1>6
<1>8. \A n \in Byte : get_digits(n) = digits[n]
  BY Zenon DEF get_digits, digits, Splits
<1>9. QED
  BY Zenon, <1>7, <1>8

\* The digits a, b and c of a number.
Three(digits, a, b, c) ==
  /\ a \in Nat /\ b \in Nat /\ c \in Nat
  /\ digits = << a, b, c >>

LEMMA NumberOfTwo ==
  ASSUME NEW a \in Nat, NEW b \in Nat
  PROVE  Number(<< a >>) = a /\ Number(<< a, b >>) = 10 * a + b
<1>1. << >> \in Seq(Nat) /\ << a >> \in Seq(Nat) /\ Append(<< >>, a) = << a >>
  OBVIOUS
<1>2. Number(<< a >>) = 10 * Number(<< >>) + a
  BY Zenon, <1>1, NumberOneMore
<1>3. Number(<< a, b >>) = 10 * Number(<< a >>) + b
  BY Zenon, <1>1, Appended, NumberOneMore
<1>4. 10 * 0 + a = a
  OBVIOUS
<1>5. QED
  BY Zenon, <1>2, <1>3, <1>4, NumberOfNothing

LEMMA NumberOfThree ==
  ASSUME NEW digits, NEW a, NEW b, NEW c, Three(digits, a, b, c)
  PROVE  Number(digits) = 100 * a + 10 * b + c
<1>1. /\ a \in Nat /\ b \in Nat /\ c \in Nat /\ << a, b >> \in Seq(Nat)
      /\ digits = << a, b, c >>
  BY DEF Three
<1>2. digits = Append(<< a, b >>, c)
  BY <1>1, Appended
<1>3. Number(digits) = 10 * Number(<< a, b >>) + c
  BY Zenon, <1>1, <1>2, NumberOneMore
<1>4. Number(<< a, b >>) = 10 * a + b
  BY Zenon, <1>1, NumberOfTwo
<1>5. Number(digits) = 10 * (10 * a + b) + c
  BY Zenon, <1>3, <1>4
<1>6. 10 * (10 * a + b) + c = 100 * a + 10 * b + c
  BY <1>1
<1>7. QED
  BY Zenon, <1>5, <1>6

LEMMA SpelledDigits ==
  ASSUME NEW n \in Byte
  PROVE  LET length == IF n <= 9 THEN 1 ELSE IF n <= 99 THEN 2 ELSE 3
         IN  /\ DOMAIN Spelled(n) = 1 .. length
             /\ Spelled(n) \in [1 .. length -> Nat]
             /\ \A i \in 1 .. length : Spelled(n)[i] \in 0 .. 9
             /\ Spelled(n)[1] = 0 => n = 0
             /\ Number(Spelled(n)) = n
<1>1. CASE n <= 9
  <2>1. Spelled(n) = << n >>
    BY Zenon, <1>1 DEF Spelled
  <2>2. /\ << n >> \in [1 .. 1 -> Nat] /\ << n >>[1] = n /\ n \in 0 .. 9 /\ n \in Nat
    BY <1>1 DEF Byte
  <2>3. Number(<< n >>) = n
    BY <2>2, NumberOfTwo
  <2>4. QED
    BY <1>1, <2>1, <2>2, <2>3
<1>2. CASE ~ (n <= 9) /\ n <= 99
  <2>1. PICK t \in 1 .. 9, u \in 0 .. 9 : t = n \div 10 /\ u = n % 10 /\ n = 10 * t + u
    BY <1>2 DEF Byte
  <2> DEFINE two == << t, u >>
  <2>2. Spelled(n) = two
    BY <1>2, <2>1 DEF Spelled
  <2>3. Number(two) = 10 * t + u
    <3>1. t \in Nat /\ u \in Nat
      OBVIOUS
    <3>2. QED
      BY Zenon, <3>1, NumberOfTwo
  <2>4. two \in [1 .. 2 -> Nat] /\ two[1] = t /\ two[2] = u
    BY <2>1
  <2> HIDE DEF two
  <2>5. QED
    BY <1>2, <2>1, <2>2, <2>3, <2>4
<1>3. CASE ~ (n <= 9) /\ ~ (n <= 99)
  <2>1. PICK h \in 1 .. 9, t \in 0 .. 9, u \in 0 .. 9 :
          /\ h = n \div 100 /\ t = (n \div 10) % 10 /\ u = n % 10
          /\ n = 100 * h + 10 * t + u
    BY <1>3 DEF Byte
  <2> DEFINE three == << h, t, u >>
  <2>2. Spelled(n) = three
    BY <1>3, <2>1 DEF Spelled
  <2>3. /\ three \in [1 .. 3 -> Nat] /\ three[1] = h /\ three[2] = t /\ three[3] = u
        /\ Three(three, h, t, u) /\ h \in Nat /\ t \in Nat /\ u \in Nat
    BY DEF Three
  <2> HIDE DEF three
  <2>4. Number(three) = 100 * h + 10 * t + u
    <3>1. Three(three, h, t, u)
      BY <2>3
    <3>2. QED
      BY <3>1, NumberOfThree
  <2>5. QED
    BY <1>3, <2>1, <2>2, <2>3, <2>4
<1>4. QED
  BY <1>1, <1>2, <1>3

(***************************************************************************)
(* get_digits spells every byte: read as a decimal number the digits give  *)
(* it back, each is one, and none but that of zero begins with a zero      *)
(* (remote_control.cpp, get_digits).                                       *)
(***************************************************************************)
THEOREM DigitsRight == Spec => []DigitsSpellNumber
<1>1. ASSUME NEW n \in Byte
      PROVE  /\ Number(get_digits(n)) = n
             /\ \A i \in DOMAIN get_digits(n) : get_digits(n)[i] \in 0 .. 9
             /\ get_digits(n)[1] = 0 => n = 0
  <2>1. get_digits(n) = Spelled(n)
    BY DigitsSpelled
  <2>2. QED
    BY <2>1, SpelledDigits
<1>2. (sample.kind = "brightness" => sample.value \in Byte) => DigitsSpellNumber
  BY Zenon, <1>1 DEF DigitsSpellNumber
<1>3. QED
  BY <1>2, SampleTyped, PTL

-----------------------------------------------------------------------------
LEMMA KeysTold ==
  /\ DOMAIN KeyNames = 1 .. 16
  /\ \A i, j \in 1 .. 16 : KeyNames[i] = KeyNames[j] => i = j
<1>1. DOMAIN KeyNames = 1 .. 16
  BY DEF KeyNames
<1>2. \A i, j \in 1 .. 16 : KeyNames[i] = KeyNames[j] => i = j
  BY DEF KeyNames
<1>3. QED
  BY <1>1, <1>2

LEMMA DigitPlace ==
  ASSUME NEW d \in 0 .. 9
  PROVE  /\ (CHOOSE i \in DOMAIN KeyNames : KeyNames[i] = DigitKey(d)) = d + 2
         /\ DigitKey(d) \in ToSet(KeyNames)
BY KeysTold DEF DigitKey, ToSet

LEMMA TableOfDigit ==
  ASSUME NEW address, NEW commands, NEW d \in 0 .. 9
  PROVE  /\ DigitKey(d) \in DOMAIN Table(address, commands)
         /\ Table(address, commands)[DigitKey(d)] = Append(address, commands[d + 2])
BY Zenon, DigitPlace DEF Table

LEMMA Prefixed ==
  ASSUME NEW a \in Nat, NEW b \in Nat, NEW c \in Nat
  PROVE  << 161, 241 >> \o << a, b, c >> = << 161, 241, a, b, c >>
<1> DEFINE both == << 161, 241 >> \o << a, b, c >>
           code == << 161, 241, a, b, c >>
<1>1. /\ both \in Seq(Nat) /\ code \in Seq(Nat)
      /\ Len(both) = Len(code) /\ Len(code) = 5
  OBVIOUS
<1>2. \A i \in 1 .. 5 : both[i] = code[i]
  OBVIOUS
<1> HIDE DEF both, code
<1>3. \A i \in 1 .. Len(both) : both[i] = code[i]
  BY <1>1, <1>2
<1>4. QED
  BY Zenon, <1>1, <1>3, SeqEqual DEF both, code

\* The two bytes of a vendor's address, the command byte of a digit, and the
\* code the digit is sent as.
Low(remote)  == IF remote = "LG" THEN 4 ELSE 2
High(remote) == IF remote = "LG" THEN 251 ELSE 223

Command(remote, d) ==
  IF remote = "LG" THEN 16 + d
  ELSE << 27, 0, 16, 17, 19, 20, 21, 23, 24, 25 >>[d + 1]

Code(remote, d) ==
  << 161, 241, Low(remote), High(remote), Command(remote, d) >>

LEMMA CodeBytes ==
  ASSUME NEW r \in {"LG", "DYON"}, NEW d \in 0 .. 9
  PROVE  /\ Low(r) \in Byte /\ High(r) \in Byte /\ Command(r, d) \in Byte
         /\ Low(r) \in Nat /\ High(r) \in Nat /\ Command(r, d) \in Nat
BY DEF Low, High, Command, Byte

LEMMA CodeWhole ==
  ASSUME NEW r \in {"LG", "DYON"}, NEW d \in 0 .. 9
  PROVE  /\ Append(<< Low(r), High(r) >>, Command(r, d))
              = << Low(r), High(r), Command(r, d) >>
         /\ << 161, 241 >> \o << Low(r), High(r), Command(r, d) >> = Code(r, d)
<1>1. Low(r) \in Nat /\ High(r) \in Nat /\ Command(r, d) \in Nat
  BY CodeBytes
<1>2. Append(<< Low(r), High(r) >>, Command(r, d))
        = << Low(r), High(r), Command(r, d) >>
  BY <1>1, Appended
<1>3. << 161, 241 >> \o << Low(r), High(r), Command(r, d) >>
        = << 161, 241, Low(r), High(r), Command(r, d) >>
  BY <1>1, Prefixed
<1>4. QED
  BY Zenon, <1>2, <1>3 DEF Code

LEMMA LGCode ==
  ASSUME NEW d \in 0 .. 9
  PROVE  get_remote_control("LG")[DigitKey(d)] = Code("LG", d)
<1> DEFINE commands == << \h08, \h10, \h11, \h12, \h13, \h14, \h15, \h16,
                          \h17, \h18, \h19, \h02, \h03, \h00, \h01, \h09 >>
           address  == << Low("LG"), High("LG") >>
<1>1. commands[d + 2] = Command("LG", d)
  BY DEF Command
<1>2. remote_control_LG = Table(address, commands)
  BY DEF remote_control_LG, Low, High
<1>3. /\ Append(address, Command("LG", d))
           = << Low("LG"), High("LG"), Command("LG", d) >>
      /\ << 161, 241 >> \o << Low("LG"), High("LG"), Command("LG", d) >>
           = Code("LG", d)
  BY Zenon, CodeWhole
<1>4. [LG |-> remote_control_LG, DYON |-> remote_control_DYON]["LG"]
        = remote_control_LG
  OBVIOUS
<1>5. << \ha1, \hf1 >> = << 161, 241 >>
  OBVIOUS
<1> HIDE DEF commands, address
<1>6. /\ DigitKey(d) \in DOMAIN remote_control_LG
      /\ remote_control_LG[DigitKey(d)] = Append(address, Command("LG", d))
  BY Zenon, <1>1, <1>2, TableOfDigit
<1>7. QED
  BY Zenon, <1>3, <1>4, <1>5, <1>6 DEF get_remote_control

LEMMA DYONCode ==
  ASSUME NEW d \in 0 .. 9
  PROVE  get_remote_control("DYON")[DigitKey(d)] = Code("DYON", d)
<1> DEFINE commands == << \h52, \h1b, \h00, \h10, \h11, \h13, \h14, \h15,
                          \h17, \h18, \h19, \h03, \h41, \h02, \h09, \h53 >>
           address  == << Low("DYON"), High("DYON") >>
<1>1. commands[d + 2] = Command("DYON", d)
  BY DEF Command
<1>2. remote_control_DYON = Table(address, commands)
  BY DEF remote_control_DYON, Low, High
<1>3. /\ Append(address, Command("DYON", d))
           = << Low("DYON"), High("DYON"), Command("DYON", d) >>
      /\ << 161, 241 >> \o << Low("DYON"), High("DYON"), Command("DYON", d) >>
           = Code("DYON", d)
  BY Zenon, CodeWhole
<1>4. [LG |-> remote_control_LG, DYON |-> remote_control_DYON]["DYON"]
        = remote_control_DYON
  OBVIOUS
<1>5. << \ha1, \hf1 >> = << 161, 241 >>
  OBVIOUS
<1> HIDE DEF commands, address
<1>6. /\ DigitKey(d) \in DOMAIN remote_control_DYON
      /\ remote_control_DYON[DigitKey(d)] = Append(address, Command("DYON", d))
  BY Zenon, <1>1, <1>2, TableOfDigit
<1>7. QED
  BY Zenon, <1>3, <1>4, <1>5, <1>6 DEF get_remote_control

LEMMA CodesDiffer ==
  ASSUME NEW r \in {"LG", "DYON"}, NEW q \in {"LG", "DYON"},
         NEW d \in 0 .. 9, NEW e \in 0 .. 9
  PROVE  /\ Code(r, d) \in [1 .. 5 -> Byte]
         /\ Code(r, d) = Code(q, e) => r = q /\ d = e
<1>1. \A a, b, c \in Byte : << 161, 241, a, b, c >> \in [1 .. 5 -> Byte]
  BY DEF Byte
<1>2. Code(r, d) \in [1 .. 5 -> Byte]
  <2>1. Low(r) \in Byte /\ High(r) \in Byte /\ Command(r, d) \in Byte
    BY CodeBytes
  <2>2. QED
    BY <1>1, <2>1 DEF Code
<1>3. Command(r, d) = Command(r, e) => d = e
  BY DEF Command
<1>4. Code(r, d) = Code(q, e) => r = q /\ Command(r, d) = Command(q, e)
  BY DEF Code, Low
<1>5. QED
  BY <1>2, <1>3, <1>4

(***************************************************************************)
(* A channel is dialled by one or two digits that tell it.                 *)
(***************************************************************************)
Channel(v) == convert_brightness_to_channel(v)

LEMMA ChannelSpelled ==
  ASSUME NEW v \in Byte
  PROVE  /\ Channel(v) \in 0 .. 99 /\ Channel(v) \in Byte
         /\ get_digits(Channel(v)) = Spelled(Channel(v))
         /\ 1 \in DOMAIN Spelled(Channel(v))
         /\ \A i \in DOMAIN Spelled(Channel(v)) : Spelled(Channel(v))[i] \in 0 .. 9
<1>1. Channel(v) \in 0 .. 99
  BY ChannelIsLine DEF Channel
<1>2. Channel(v) \in Byte
  BY <1>1 DEF Byte
<1>3. QED
  BY <1>1, <1>2, DigitsSpelled, SpelledDigits

LEMMA FramesOfChannel ==
  ASSUME NEW r \in {"LG", "DYON"}, NEW v \in Byte
  PROVE  Frames(r, v) =
           [i \in DOMAIN Spelled(Channel(v)) |-> Code(r, Spelled(Channel(v))[i])]
<1> DEFINE digits == Spelled(Channel(v))
<1>1. ChannelKeys(v) = [i \in DOMAIN digits |-> DigitKey(digits[i])]
  BY Zenon, ChannelSpelled DEF ChannelKeys, Channel
<1>2. \A d \in 0 .. 9 : get_remote_control(r)[DigitKey(d)] = Code(r, d)
  BY LGCode, DYONCode
<1>3. \A i \in DOMAIN digits : digits[i] \in 0 .. 9
  BY ChannelSpelled
<1> HIDE DEF digits
<1>4. Frames(r, v) = [i \in DOMAIN digits |->
                        get_remote_control(r)[DigitKey(digits[i])]]
  BY Zenon, <1>1 DEF Frames
<1>5. QED
  BY <1>2, <1>3, <1>4 DEF digits

LEMMA SameFrames ==
  ASSUME NEW r \in {"LG", "DYON"}, NEW q \in {"LG", "DYON"},
         NEW v \in Byte, NEW w \in Byte,
         Frames(r, v) = Frames(q, w)
  PROVE  r = q /\ Channel(v) = Channel(w)
<1> DEFINE first == Spelled(Channel(v))
           second == Spelled(Channel(w))
<1>1. DOMAIN first = DOMAIN second
  BY FramesOfChannel
<1>2. \A i \in DOMAIN first : Code(r, first[i]) = Code(q, second[i])
  BY FramesOfChannel, <1>1
<1>3. /\ 1 \in DOMAIN first
      /\ \A i \in DOMAIN first : first[i] \in 0 .. 9 /\ second[i] \in 0 .. 9
  BY ChannelSpelled, <1>1
<1>4. r = q /\ \A i \in DOMAIN first : first[i] = second[i]
  BY <1>2, <1>3, CodesDiffer
<1>5. first = second
  BY <1>1, <1>4, ChannelSpelled, SpelledDigits
<1>6. QED
  BY Zenon, <1>4, <1>5, ChannelSpelled, SpelledDigits

(***************************************************************************)
(* Whatever brightness is dialled, its frames tell remote control and      *)
(* channel: no two channels, and no two remote controls, share them.       *)
(***************************************************************************)
THEOREM FramesTell == Spec => []FramesIdentifyChannel
<1>1. ASSUME NEW v \in Byte, NEW r \in {"LG", "DYON"}
      PROVE  /\ \A i \in DOMAIN Frames(r, v) : Frames(r, v)[i] \in [1 .. 5 -> Byte]
             /\ \A q \in {"LG", "DYON"}, w \in Byte :
                  Frames(r, v) = Frames(q, w) <=> r = q /\ Channel(v) = Channel(w)
  <2>1. \A i \in DOMAIN Frames(r, v) : Frames(r, v)[i] \in [1 .. 5 -> Byte]
    <3> DEFINE digits == Spelled(Channel(v))
    <3>1. \A i \in DOMAIN digits : digits[i] \in 0 .. 9
      BY ChannelSpelled
    <3>2. \A d \in 0 .. 9 : Code(r, d) \in [1 .. 5 -> Byte]
      BY CodesDiffer
    <3> HIDE DEF digits
    <3>3. Frames(r, v) = [i \in DOMAIN digits |-> Code(r, digits[i])]
      BY FramesOfChannel DEF digits
    <3>4. QED
      BY Zenon, <3>1, <3>2, <3>3
  <2>2. ASSUME NEW q \in {"LG", "DYON"}, NEW w \in Byte
        PROVE  Frames(r, v) = Frames(q, w) <=> r = q /\ Channel(v) = Channel(w)
    <3>1. Frames(r, v) = Frames(q, w) => r = q /\ Channel(v) = Channel(w)
      BY SameFrames
    <3>2. r = q /\ Channel(v) = Channel(w) => Frames(r, v) = Frames(q, w)
      BY Zenon DEF Frames, ChannelKeys, Channel
    <3>3. QED
      BY <3>1, <3>2
  <2>3. QED
    BY <2>1, <2>2
<1>2. (sample.kind = "brightness" => sample.value \in Byte) => FramesIdentifyChannel
  BY Zenon, <1>1 DEF FramesIdentifyChannel, Channel
<1>3. QED
  BY <1>2, SampleTyped, PTL

(***************************************************************************)
(* What RemoteControl assumes of KeysOf and Keys (KeysAssumption) holds of *)
(* the tables of either remote control and all brightnesses: the keys of   *)
(* every channel and of on/off are in both, so no digit is left out        *)
(* because count finds no code for it.                                     *)
(***************************************************************************)
THEOREM TablesFit ==
  ASSUME NEW r \in {"LG", "DYON"}
  PROVE  LET keys == DOMAIN get_remote_control(r)
         IN  /\ "on/off" \in keys
             /\ [v \in Byte \ {0} |-> ChannelKeys(v)] \in [Byte \ {0} -> Seq(keys)]
<1> DEFINE keys == DOMAIN get_remote_control(r)
<1>1. keys = ToSet(KeyNames)
  <2>1. /\ DOMAIN remote_control_LG = ToSet(KeyNames)
        /\ DOMAIN remote_control_DYON = ToSet(KeyNames)
    BY Zenon DEF remote_control_LG, remote_control_DYON, Table
  <2>2. r = "LG" \/ r = "DYON"
    OBVIOUS
  <2>3. LET tables == [LG |-> remote_control_LG, DYON |-> remote_control_DYON]
        IN  tables["LG"] = remote_control_LG /\ tables["DYON"] = remote_control_DYON
    OBVIOUS
  <2>4. QED
    BY Zenon, <2>1, <2>2, <2>3 DEF get_remote_control
<1>2. "on/off" \in ToSet(KeyNames)
  BY DEF ToSet, KeyNames
<1>3. ASSUME NEW v \in Byte \ {0}
      PROVE  ChannelKeys(v) \in Seq(ToSet(KeyNames))
  <2> DEFINE digits == Spelled(Channel(v))
  <2>1. ChannelKeys(v) = [i \in DOMAIN digits |-> DigitKey(digits[i])]
    BY Zenon, ChannelSpelled DEF ChannelKeys, Channel
  <2>2. /\ \A i \in DOMAIN digits : digits[i] \in 0 .. 9
        /\ \E n \in 1 .. 3 : DOMAIN digits = 1 .. n
    <3>1. Channel(v) \in Byte /\ \A i \in DOMAIN digits : digits[i] \in 0 .. 9
      BY ChannelSpelled
    <3>2. DOMAIN digits \in {1 .. 1, 1 .. 2, 1 .. 3}
      BY <3>1, SpelledDigits
    <3>3. QED
      BY <3>1, <3>2
  <2> HIDE DEF digits
  <2>3. \A i \in DOMAIN digits : DigitKey(digits[i]) \in ToSet(KeyNames)
    BY <2>2, DigitPlace
  <2>4. PICK n \in 1 .. 3 : DOMAIN digits = 1 .. n
    BY <2>2
  <2>5. ChannelKeys(v) \in [1 .. n -> ToSet(KeyNames)]
    BY <2>1, <2>3, <2>4
  <2>6. QED
    BY <2>5
<1>4. QED
  BY Zenon, <1>1, <1>2, <1>3

-----------------------------------------------------------------------------
(***************************************************************************)
(* What fromString has read of a text, character by character.             *)
(***************************************************************************)
AddressFolds(fold, base, text) ==
  fold = [s \in SUBSET DOMAIN text |->
            IF s = {} THEN base ELSE ReadChar(fold[s \ {Max(s)}], text[Max(s)])]

\* What fromString has read after a text.
Start == [acc |-> 0, dots |-> 0, bytes |-> << 0, 0, 0, 0 >>, ok |-> TRUE]

Read(text) == FoldLeft(ReadChar, Start, text)

LEMMA ReadIsFold ==
  ASSUME NEW S, NEW text \in Seq(S)
  PROVE  IsFold(Read(text), "address", Start, text)
<1>1. Read(text) = (CHOOSE fold : AddressFolds(fold, Start, text))[DOMAIN text]
  BY DEF Read, FoldLeft, MapThenFoldSet, AddressFolds
<1>2. \A x, c : Fold("address", x, c) = ReadChar(x, c)
  BY DEF Fold
<1>3. \A fold : Folds("address", fold, Start, text) <=> AddressFolds(fold, Start, text)
  BY Zenon, <1>2 DEF Folds, AddressFolds
<1>4. \E fold : AddressFolds(fold, Start, text)
  BY Zenon, <1>3, SeqHasFold
<1>5. QED
  BY Zenon, <1>1, <1>3, <1>4 DEF IsFold

LEMMA ReadNothing == Read(<< >>) = Start
<1>1. IsFold(Read(<< >>), "address", Start, << >>)
  BY ReadIsFold, << >> \in Seq(Nat)
<1>2. QED
  BY <1>1, FoldOfNothing

LEMMA ReadOneMore ==
  ASSUME NEW S, NEW text \in Seq(S), NEW c \in S
  PROVE  Read(Append(text, c)) = ReadChar(Read(text), c)
<1>1. Append(text, c) \in Seq(S)
  OBVIOUS
<1>2. /\ IsFold(Read(text), "address", Start, text)
      /\ IsFold(Read(Append(text, c)), "address", Start, Append(text, c))
  BY Zenon, <1>1, ReadIsFold
<1>3. Read(Append(text, c)) = Fold("address", Read(text), c)
  BY Zenon, <1>2, FoldOfOneMore
<1>4. QED
  BY <1>3 DEF Fold

LEMMA DigitsTold ==
  /\ DOMAIN Digits = 1 .. 10 /\ Len(Digits) = 10
  /\ Digits \in Seq(ToSet(Digits))
  /\ \A i, j \in 1 .. 10 : Digits[i] = Digits[j] => i = j
  /\ \A i \in 1 .. 10 : Digits[i] # "."
<1>1. DOMAIN Digits = 1 .. 10 /\ Len(Digits) = 10
  BY DEF Digits
<1>2. Digits \in Seq(ToSet(Digits))
  BY DEF Digits, ToSet
<1>3. \A i, j \in 1 .. 10 : Digits[i] = Digits[j] => i = j
  BY DEF Digits
<1>4. \A i \in 1 .. 10 : Digits[i] # "."
  BY DEF Digits
<1>5. QED
  BY <1>1, <1>2, <1>3, <1>4

LEMMA OneOfSubSeqs ==
  ASSUME NEW S, NEW s \in Seq(S), NEW c
  PROVE  << c >> \in SubSeqs(s) <=> \E k \in 1 .. Len(s) : s[k] = c
<1>1. ASSUME << c >> \in SubSeqs(s)
      PROVE  \E k \in 1 .. Len(s) : s[k] = c
  <2>1. PICK i \in 0 .. Len(s), j \in 0 .. Len(s) : << c >> = SubSeq(s, i + 1, j)
    BY <1>1 DEF SubSeqs
  <2>2. Len(<< c >>) = 1 /\ << c >>[1] = c
    OBVIOUS
  <2>3. j = i + 1 /\ SubSeq(s, i + 1, j)[1] = s[i + 1]
    BY <2>1, <2>2
  <2>4. QED
    BY <2>1, <2>2, <2>3
<1>2. ASSUME NEW k \in 1 .. Len(s), s[k] = c
      PROVE  << c >> \in SubSeqs(s)
  <2>1. k - 1 \in 0 .. Len(s) /\ k \in 0 .. Len(s) /\ k - 1 + 1 = k
    OBVIOUS
  <2>2. SubSeq(s, k, k) = << c >>
    <3> DEFINE part == SubSeq(s, k, k)
               one == << c >>
    <3>1. /\ part \in Seq(S) /\ one \in Seq(S)
          /\ Len(part) = 1 /\ Len(one) = 1 /\ part[1] = one[1]
      BY <1>2
    <3> HIDE DEF part, one
    <3>2. \A i \in 1 .. Len(part) : part[i] = one[i]
      BY <3>1
    <3>3. part = one
      BY <3>1, <3>2, SeqEqual
    <3>4. QED
      BY <3>3 DEF part, one
  <2>3. << c >> = SubSeq(s, (k - 1) + 1, k)
    BY <2>1, <2>2
  <2>4. \E i, j \in 0 .. Len(s) : << c >> = SubSeq(s, i + 1, j)
    BY Zenon, <2>1, <2>3
  <2>5. QED
    BY <2>4 DEF SubSeqs
<1>3. QED
  BY <1>1, <1>2

LEMMA ValueOfDigit ==
  ASSUME NEW d \in 0 .. 9
  PROVE  /\ ValueOf(Digits[d + 1]) = d
         /\ Digits[d + 1] \in ToSet(Digits)
         /\ Digits[d + 1] # "."
<1> DEFINE c == Digits[d + 1]
           Within(i) == << c >> \in SubSeqs(SubSeq(Digits, 1, i))
           last == CHOOSE i \in 0 .. Len(Digits) :
                     Within(i) /\ \A j \in 0 .. i - 1 : ~ Within(j)
<1>1. d + 1 \in 1 .. 10 /\ 0 .. Len(Digits) = 0 .. 10
  BY DigitsTold
<1>2. ASSUME NEW i \in 0 .. 10
      PROVE  Within(i) <=> d + 1 <= i
  <2> DEFINE part == SubSeq(Digits, 1, i)
  <2>1. /\ part \in Seq(ToSet(Digits)) /\ Len(part) = i
        /\ \A k \in 1 .. i : part[k] = Digits[k]
    <3>1. 1 \in Int /\ i \in Int /\ \A j \in 1 .. i : Digits[j] \in ToSet(Digits)
      BY DigitsTold DEF ToSet
    <3>2. /\ part \in Seq(ToSet(Digits))
          /\ Len(part) = IF 1 <= i THEN i - 1 + 1 ELSE 0
          /\ \A j \in 1 .. i - 1 + 1 : part[j] = Digits[1 + j - 1]
      BY <3>1, SubSeqProperties
    <3> HIDE DEF part
    <3>3. QED
      BY <3>2
  <2> HIDE DEF part, c
  <2>2. << c >> \in SubSeqs(part) <=> \E k \in 1 .. Len(part) : part[k] = c
    BY <2>1, OneOfSubSeqs
  <2>3. Within(i) <=> \E k \in 1 .. i : Digits[k] = c
    BY <2>1, <2>2 DEF part
  <2>4. \A k \in 1 .. i : Digits[k] = c <=> k = d + 1
    BY <1>1, DigitsTold DEF c
  <2>5. QED
    BY <1>1, <2>3, <2>4
<1> HIDE DEF Within
<1>3. last = d + 1
  BY <1>1, <1>2
<1>4. IndexFirstSubSeq(<< c >>, Digits) = last - (Len(<< c >>) - 1)
  BY Zenon DEF IndexFirstSubSeq, Within
<1> HIDE DEF last
<1>5. Len(<< c >>) = 1
  OBVIOUS
<1>6. ValueOf(c) = d
  BY <1>3, <1>4, <1>5 DEF ValueOf
<1>7. QED
  BY <1>1, <1>6, DigitsTold DEF ToSet

-----------------------------------------------------------------------------
\* Having read the octets up to a dot, and a number behind it.
Taken(dots, bytes) == [i \in 1 .. 4 |-> IF i <= dots THEN bytes[i] ELSE 0]

At(dots, acc, bytes) ==
  [acc |-> acc, dots |-> dots, bytes |-> Taken(dots, bytes), ok |-> TRUE]

LEMMA ReadDigit ==
  ASSUME NEW dots \in 0 .. 3, NEW acc \in Nat, NEW bytes \in [1 .. 4 -> Nat],
         NEW d \in 0 .. 9, NEW next, next = 10 * acc + d, next <= 255
  PROVE  ReadChar(At(dots, acc, bytes), Digits[d + 1]) = At(dots, next, bytes)
<1> DEFINE scan == At(dots, acc, bytes)
<1>1. scan.ok /\ scan.acc = acc
  BY DEF At
<1>2. 10 * scan.acc + ValueOf(Digits[d + 1]) = next /\ next \in Nat /\ (next <= 255) = TRUE
  BY <1>1, ValueOfDigit
<1>3. ReadChar(scan, Digits[d + 1])
        = [scan EXCEPT !.acc = next, !.ok = next <= 255]
  BY Zenon, <1>1, <1>2, ValueOfDigit DEF ReadChar
<1>4. QED
  BY <1>2, <1>3 DEF At

LEMMA ReadDot ==
  ASSUME NEW dots \in 0 .. 2, NEW bytes \in [1 .. 4 -> Nat]
  PROVE  ReadChar(At(dots, bytes[dots + 1], bytes), ".") = At(dots + 1, 0, bytes)
<1> DEFINE scan == At(dots, bytes[dots + 1], bytes)
<1>1. "." \notin ToSet(Digits)
  BY DigitsTold DEF ToSet
<1>2. /\ scan.ok /\ scan.dots = dots /\ scan.acc = bytes[dots + 1]
      /\ scan.bytes = Taken(dots, bytes)
  BY DEF At
<1>3. dots < 3
  OBVIOUS
<1>4. ReadChar(scan, ".") = [scan EXCEPT !.bytes[dots + 1] = bytes[dots + 1],
                                         !.dots = dots + 1, !.acc = 0]
  BY Zenon, <1>1, <1>2, <1>3 DEF ReadChar
<1>5. [scan.bytes EXCEPT ![dots + 1] = bytes[dots + 1]] = Taken(dots + 1, bytes)
  BY <1>2 DEF Taken
<1>6. QED
  BY <1>4, <1>5 DEF At

LEMMA StartIsAt ==
  ASSUME NEW bytes \in [1 .. 4 -> Nat]
  PROVE  Start = At(0, 0, bytes)
<1>1. << 0, 0, 0, 0 >> = Taken(0, bytes)
  BY DEF Taken
<1>2. QED
  BY <1>1 DEF Start, At

AddressChar == ToSet(Digits) \cup {"."}

LEMMA CharsAppended ==
  ASSUME NEW text \in Seq(AddressChar)
  PROVE  /\ \A a \in AddressChar : text \o << a >> = Append(text, a)
         /\ \A a, b \in AddressChar :
              text \o << a, b >> = Append(Append(text, a), b)
         /\ \A a, b, c \in AddressChar :
              text \o << a, b, c >> = Append(Append(Append(text, a), b), c)
<1>1. ASSUME NEW a \in AddressChar
      PROVE  text \o << a >> = Append(text, a)
  <2> DEFINE both == text \o << a >>
             longer == Append(text, a)
  <2>1. /\ both \in Seq(AddressChar) /\ longer \in Seq(AddressChar)
        /\ Len(both) = Len(longer) /\ \A i \in 1 .. Len(both) : both[i] = longer[i]
    OBVIOUS
  <2> HIDE DEF both, longer
  <2>2. QED
    BY Zenon, <2>1, SeqEqual DEF both, longer
<1>2. ASSUME NEW a \in AddressChar, NEW b \in AddressChar
      PROVE  text \o << a, b >> = Append(Append(text, a), b)
  <2> DEFINE both == text \o << a, b >>
             longer == Append(Append(text, a), b)
  <2>1. /\ both \in Seq(AddressChar) /\ longer \in Seq(AddressChar)
        /\ Len(both) = Len(longer) /\ \A i \in 1 .. Len(both) : both[i] = longer[i]
    OBVIOUS
  <2> HIDE DEF both, longer
  <2>2. QED
    BY Zenon, <2>1, SeqEqual DEF both, longer
<1>3. ASSUME NEW a \in AddressChar, NEW b \in AddressChar, NEW c \in AddressChar
      PROVE  text \o << a, b, c >> = Append(Append(Append(text, a), b), c)
  <2> DEFINE both == text \o << a, b, c >>
             longer == Append(Append(Append(text, a), b), c)
  <2>1. /\ both \in Seq(AddressChar) /\ longer \in Seq(AddressChar)
        /\ Len(both) = Len(longer) /\ \A i \in 1 .. Len(both) : both[i] = longer[i]
    OBVIOUS
  <2> HIDE DEF both, longer
  <2>2. QED
    BY Zenon, <2>1, SeqEqual DEF both, longer
<1>4. QED
  BY <1>1, <1>2, <1>3

LEMMA ThreeAppended ==
  ASSUME NEW a \in AddressChar, NEW b \in AddressChar, NEW c \in AddressChar
  PROVE  \A three : three = << a, b, c >> =>
           /\ three \in Seq(AddressChar)
           /\ \A text \in Seq(AddressChar) :
                text \o three = Append(Append(Append(text, a), b), c)
<1>1. << a, b, c >> \in Seq(AddressChar)
  OBVIOUS
<1>2. ASSUME NEW text \in Seq(AddressChar)
      PROVE  text \o << a, b, c >> = Append(Append(Append(text, a), b), c)
  <2> DEFINE both == text \o << a, b, c >>
             longer == Append(Append(Append(text, a), b), c)
  <2>1. /\ both \in Seq(AddressChar) /\ longer \in Seq(AddressChar)
        /\ Len(both) = Len(longer) /\ \A i \in 1 .. Len(both) : both[i] = longer[i]
    OBVIOUS
  <2> HIDE DEF both, longer
  <2>2. QED
    BY Zenon, <2>1, SeqEqual DEF both, longer
<1> DEFINE abc == << a, b, c >>
<1>3. abc \in Seq(AddressChar) /\ \A text \in Seq(AddressChar) :
                text \o abc = Append(Append(Append(text, a), b), c)
  BY Zenon, <1>1, <1>2
<1> HIDE DEF abc
<1>4. \A three : three = abc => /\ three \in Seq(AddressChar)
           /\ \A text \in Seq(AddressChar) :
                text \o three = Append(Append(Append(text, a), b), c)
  BY Zenon, <1>3
<1>5. QED
  BY Zenon, <1>4 DEF abc

\* text is an address as far as its dots and a number acc behind them.
ReadAs(text, dots, acc, bytes) ==
  /\ text \in Seq(AddressChar) /\ dots \in 0 .. 3 /\ acc \in Nat
  /\ bytes \in [1 .. 4 -> Nat]
  /\ Read(text) = At(dots, acc, bytes)

Continues(next, acc, d) == next = 10 * acc + d /\ next <= 255

LEMMA ReadNextDigit ==
  ASSUME NEW text, NEW dots, NEW acc, NEW bytes, ReadAs(text, dots, acc, bytes),
         NEW d \in 0 .. 9, NEW next, Continues(next, acc, d)
  PROVE  ReadAs(Append(text, Digits[d + 1]), dots, next, bytes)
<1>1. Digits[d + 1] \in AddressChar
  BY ValueOfDigit DEF AddressChar
<1>2. Append(text, Digits[d + 1]) \in Seq(AddressChar) /\ next \in Nat
  BY <1>1 DEF ReadAs, Continues
<1>3. ReadChar(At(dots, acc, bytes), Digits[d + 1]) = At(dots, next, bytes)
  BY ReadDigit DEF ReadAs, Continues
<1>4. Read(Append(text, Digits[d + 1])) = ReadChar(Read(text), Digits[d + 1])
  BY <1>1, ReadOneMore DEF ReadAs
<1>5. QED
  BY <1>2, <1>3, <1>4 DEF ReadAs

LEMMA DecimalTyped ==
  ASSUME NEW n \in Byte
  PROVE  Decimal(n) \in Seq(AddressChar)
<1> DEFINE digit(d) == Digits[d + 1]
<1>1. /\ n >= 100 => n \div 100 \in 0 .. 9 /\ (n \div 10) % 10 \in 0 .. 9
      /\ n \in 10 .. 99 => n \div 10 \in 0 .. 9
      /\ n < 10 => n \in 0 .. 9
      /\ n % 10 \in 0 .. 9
      /\ n < 10 \/ n \in 10 .. 99 \/ n >= 100
      /\ n < 10 => n \notin 10 .. 99 /\ ~ (n >= 100)
      /\ n \in 10 .. 99 => ~ (n >= 100)
  BY DEF Byte
<1>2. \A d \in 0 .. 9 : digit(d) \in AddressChar
  BY ValueOfDigit DEF AddressChar
<1>3. /\ n >= 100 => Decimal(n) = << digit(n \div 100), digit((n \div 10) % 10), digit(n % 10) >>
      /\ n \in 10 .. 99 => Decimal(n) = << digit(n \div 10), digit(n % 10) >>
      /\ n < 10 => Decimal(n) = << digit(n) >>
  BY Zenon, <1>1 DEF Decimal
<1>4. \A a, b, c \in AddressChar :
        /\ << a >> \in Seq(AddressChar) /\ << a, b >> \in Seq(AddressChar)
        /\ << a, b, c >> \in Seq(AddressChar)
  OBVIOUS
<1> HIDE DEF digit
<1>5. CASE n < 10
  BY Zenon, <1>1, <1>2, <1>3, <1>4, <1>5
<1>6. CASE n \in 10 .. 99
  <2>1. digit(n \div 10) \in AddressChar /\ digit(n % 10) \in AddressChar
    BY Zenon, <1>1, <1>2, <1>6
  <2>2. QED
    BY Zenon, <1>3, <1>4, <1>6, <2>1
<1>7. CASE n >= 100
  <2>1. /\ digit(n \div 100) \in AddressChar /\ digit(n % 10) \in AddressChar
        /\ digit((n \div 10) % 10) \in AddressChar
    BY Zenon, <1>1, <1>2, <1>7
  <2>2. Decimal(n) = << digit(n \div 100), digit((n \div 10) % 10), digit(n % 10) >>
    BY Zenon, <1>3, <1>7
  <2>3. QED
    BY Zenon, <2>1, <2>2, ThreeAppended
<1>8. QED
  BY Zenon, <1>1, <1>5, <1>6, <1>7

LEMMA ReadDecimal ==
  ASSUME NEW text, NEW dots, NEW bytes, ReadAs(text, dots, 0, bytes), NEW n \in Byte
  PROVE  ReadAs(text \o Decimal(n), dots, n, bytes)
<1> DEFINE digit(d) == Digits[d + 1]
<1>1. ASSUME NEW d \in 0 .. 9
      PROVE  /\ digit(d) \in AddressChar
             /\ \A s, acc, next : ReadAs(s, dots, acc, bytes) /\ Continues(next, acc, d)
                                    => ReadAs(Append(s, digit(d)), dots, next, bytes)
  BY Zenon, ReadNextDigit, ValueOfDigit DEF AddressChar
<1> HIDE DEF digit
<1>2. text \in Seq(AddressChar)
  BY Zenon DEF ReadAs
<1>3. CASE n < 10
  <2>1. n \in 0 .. 9 /\ ~ (n >= 100) /\ n \notin 10 .. 99 /\ Continues(n, 0, n)
    BY <1>3 DEF Byte, Continues
  <2>2. Decimal(n) = << digit(n) >>
    BY Zenon, <1>3, <2>1 DEF Decimal, digit
  <2>3. text \o Decimal(n) = Append(text, digit(n))
    <3>1. text \o << digit(n) >> = Append(text, digit(n))
      BY Zenon, <1>1, <1>2, <2>1, CharsAppended
    <3>2. QED
      BY Zenon, <2>2, <3>1
  <2>4. ReadAs(Append(text, digit(n)), dots, n, bytes)
    BY Zenon, <1>1, <2>1
  <2>5. QED
    BY Zenon, <2>3, <2>4
<1>4. CASE n \in 10 .. 99
  <2>1. /\ n \div 10 \in 0 .. 9 /\ n % 10 \in 0 .. 9
        /\ Continues(n \div 10, 0, n \div 10) /\ Continues(n, n \div 10, n % 10)
        /\ ~ (n >= 100) /\ ~ (n < 10)
    BY <1>4 DEF Byte, Continues
  <2>2. Decimal(n) = << digit(n \div 10), digit(n % 10) >>
    BY Zenon, <1>4, <2>1 DEF Decimal, digit
  <2>3. text \o Decimal(n) = Append(Append(text, digit(n \div 10)), digit(n % 10))
    <3>1. digit(n \div 10) \in AddressChar /\ digit(n % 10) \in AddressChar
      BY Zenon, <1>1, <2>1
    <3>2. text \o << digit(n \div 10), digit(n % 10) >>
            = Append(Append(text, digit(n \div 10)), digit(n % 10))
      BY Zenon, <1>2, <3>1, CharsAppended
    <3>3. QED
      BY Zenon, <2>2, <3>2
  <2>4. ReadAs(Append(text, digit(n \div 10)), dots, n \div 10, bytes)
    BY Zenon, <1>1, <2>1
  <2>5. ReadAs(Append(Append(text, digit(n \div 10)), digit(n % 10)), dots, n, bytes)
    BY Zenon, <1>1, <2>1, <2>4
  <2>6. QED
    BY Zenon, <2>3, <2>5
<1>5. CASE n >= 100
  <2>1. PICK a \in 0 .. 9, b \in 0 .. 9, c \in 0 .. 9, e \in Nat :
          /\ n \div 100 = a /\ (n \div 10) % 10 = b /\ n % 10 = c
          /\ Continues(a, 0, a) /\ Continues(e, a, b) /\ Continues(n, e, c)
    <3>1. n \div 10 = 10 * (n \div 100) + ((n \div 10) % 10) /\ n \div 10 <= 255
      BY DEF Byte
    <3>2. n = 10 * (n \div 10) + (n % 10) /\ n <= 255
      BY DEF Byte
    <3>3. n \div 100 \in 0 .. 9 /\ (n \div 10) % 10 \in 0 .. 9 /\ n % 10 \in 0 .. 9
          /\ n \div 10 \in Nat /\ n \in Nat
      BY DEF Byte
    <3>4. /\ Continues(n \div 100, 0, n \div 100)
          /\ Continues(n \div 10, n \div 100, (n \div 10) % 10)
          /\ Continues(n, n \div 10, n % 10)
      BY <3>1, <3>2, <3>3 DEF Continues
    <3>5. QED
      BY Zenon, <3>3, <3>4
  <2>2. ~ (n < 10) /\ n \notin 10 .. 99
    BY <1>5 DEF Byte
  <2>3. PICK x \in AddressChar, y \in AddressChar, z \in AddressChar :
          x = digit(a) /\ y = digit(b) /\ z = digit(c)
    BY Zenon, <1>1
  <2>4. Decimal(n) = << x, y, z >>
    <3>1. Decimal(n) = << digit(a), digit(b), digit(c) >>
      BY Zenon, <1>5, <2>1, <2>2 DEF Decimal, digit
    <3>2. QED
      BY SMT, <2>3, <3>1
  <2>5. text \o Decimal(n) = Append(Append(Append(text, x), y), z)
    BY <1>2, <2>4, ThreeAppended
  <2>6. ReadAs(Append(text, x), dots, a, bytes)
    BY Zenon, <1>1, <2>1, <2>3
  <2>7. ReadAs(Append(Append(text, x), y), dots, e, bytes)
    BY Zenon, <1>1, <2>1, <2>3, <2>6
  <2>8. ReadAs(Append(Append(Append(text, x), y), z), dots, n, bytes)
    BY Zenon, <1>1, <2>1, <2>3, <2>7
  <2>9. QED
    BY Zenon, <2>5, <2>8
<1>6. n < 10 \/ n \in 10 .. 99 \/ n >= 100
  BY DEF Byte
<1>7. QED
  BY Zenon, <1>3, <1>4, <1>5, <1>6

LEMMA ReadNextDot ==
  ASSUME NEW text, NEW dots \in 0 .. 2, NEW bytes,
         ReadAs(text, dots, bytes[dots + 1], bytes)
  PROVE  ReadAs(text \o << "." >>, dots + 1, 0, bytes)
<1>1. "." \in AddressChar
  BY DEF AddressChar
<1>2. text \o << "." >> = Append(text, ".") /\ Append(text, ".") \in Seq(AddressChar)
  <2>1. text \in Seq(AddressChar)
    BY Zenon DEF ReadAs
  <2>2. QED
    BY <1>1, <2>1, CharsAppended
<1>3. Read(Append(text, ".")) = ReadChar(Read(text), ".")
  BY <1>1, ReadOneMore DEF ReadAs
<1>4. ReadChar(At(dots, bytes[dots + 1], bytes), ".") = At(dots + 1, 0, bytes)
  BY ReadDot DEF ReadAs
<1>5. dots + 1 \in 0 .. 3 /\ 0 \in Nat /\ bytes \in [1 .. 4 -> Nat]
  BY DEF ReadAs
<1>6. Read(text \o << "." >>) = At(dots + 1, 0, bytes)
  BY <1>2, <1>3, <1>4 DEF ReadAs
<1>7. QED
  BY Zenon, <1>2, <1>5, <1>6 DEF ReadAs

LEMMA AddressRead ==
  ASSUME NEW bytes \in [1 .. 4 -> Byte]
  PROVE  fromString(toString(bytes)) = [ok |-> TRUE, bytes |-> bytes]
<1> DEFINE t1 == Decimal(bytes[1])
           t2 == (t1 \o << "." >>) \o Decimal(bytes[2])
           t3 == (t2 \o << "." >>) \o Decimal(bytes[3])
           t4 == (t3 \o << "." >>) \o Decimal(bytes[4])
<1>1. toString(bytes) = t4
  BY Zenon DEF toString
<1>2. /\ bytes \in [1 .. 4 -> Nat]
      /\ bytes[1] \in Byte /\ bytes[2] \in Byte /\ bytes[3] \in Byte /\ bytes[4] \in Byte
      /\ 0 \in 0 .. 2 /\ 1 \in 0 .. 2 /\ 2 \in 0 .. 2
      /\ 0 + 1 = 1 /\ 1 + 1 = 2 /\ 2 + 1 = 3
  BY DEF Byte
<1>3. ReadAs(t1, 0, bytes[1], bytes)
  <2>1. ReadAs(<< >>, 0, 0, bytes)
    BY <1>2, ReadNothing, StartIsAt DEF ReadAs
  <2>2. ReadAs(<< >> \o Decimal(bytes[1]), 0, bytes[1], bytes)
    BY <1>2, <2>1, ReadDecimal
  <2>3. << >> \o Decimal(bytes[1]) = Decimal(bytes[1])
    BY <1>2, DecimalTyped, ConcatEmptySeq
  <2>4. QED
    BY <2>2, <2>3
<1> HIDE DEF t1
<1>4. ReadAs(t2, 1, bytes[2], bytes)
  <2>1. ReadAs(t1 \o << "." >>, 1, 0, bytes)
    BY <1>2, <1>3, ReadNextDot
  <2>2. QED
    BY Zenon, <1>2, <2>1, ReadDecimal
<1> HIDE DEF t2
<1>5. ReadAs(t3, 2, bytes[3], bytes)
  <2>1. ReadAs(t2 \o << "." >>, 2, 0, bytes)
    BY <1>2, <1>4, ReadNextDot
  <2>2. QED
    BY Zenon, <1>2, <2>1, ReadDecimal
<1> HIDE DEF t3
<1>6. ReadAs(t4, 3, bytes[4], bytes)
  <2>1. ReadAs(t3 \o << "." >>, 3, 0, bytes)
    BY <1>2, <1>5, ReadNextDot
  <2>2. QED
    BY Zenon, <1>2, <2>1, ReadDecimal
<1> HIDE DEF t4
<1>7. fromString(t4) = [ok |-> TRUE,
                        bytes |-> [Taken(3, bytes) EXCEPT ![4] = bytes[4]]]
  <2> DEFINE scan == Read(t4)
  <2>1. /\ scan.ok /\ scan.dots = 3 /\ scan.acc = bytes[4]
        /\ scan.bytes = Taken(3, bytes)
    BY <1>6 DEF ReadAs, At
  <2>2. fromString(t4) = IF scan.ok /\ scan.dots = 3
                         THEN [ok |-> TRUE,
                               bytes |-> [scan.bytes EXCEPT ![4] = scan.acc]]
                         ELSE [ok |-> FALSE, bytes |-> scan.bytes]
    BY Zenon DEF fromString, Read, Start
  <2> HIDE DEF scan
  <2>3. QED
    BY <2>1, <2>2
<1>8. [Taken(3, bytes) EXCEPT ![4] = bytes[4]] = bytes
  BY <1>2 DEF Taken
<1>9. QED
  BY <1>1, <1>7, <1>8

LEMMA AddressTyped == Spec => [](sample.kind = "address" => sample.bytes \in [1 .. 4 -> Byte])
<1>1. ASSUME NEW s \in Samples
      PROVE  s.kind = "address" => s.bytes \in [1 .. 4 -> Byte]
  BY DEF Samples, Byte
<1>2. Init => (sample.kind = "address" => sample.bytes \in [1 .. 4 -> Byte])
  BY DEF Init
<1>3. (sample.kind = "address" => sample.bytes \in [1 .. 4 -> Byte]) /\ [Next]_sample
        => (sample.kind = "address" => sample.bytes \in [1 .. 4 -> Byte])'
  BY <1>1 DEF Next
<1>4. QED
  BY <1>2, <1>3, PTL DEF Spec

(***************************************************************************)
(* Printed and read, every address is itself: four bytes of any value,     *)
(* with one, two or three digits each (fauxmoLINUX.h:99-143, toString and  *)
(* fromString).  So are those of the run.                                  *)
(***************************************************************************)
THEOREM AddressesKept ==
  /\ \A bytes \in [1 .. 4 -> Byte] :
       fromString(toString(bytes)) = [ok |-> TRUE, bytes |-> bytes]
  /\ Spec => []AddressesSurvive
<1>1. \A bytes \in [1 .. 4 -> Byte] :
        fromString(toString(bytes)) = [ok |-> TRUE, bytes |-> bytes]
  BY AddressRead
<1>2. Spec => []AddressesSurvive
  <2>1. (sample.kind = "address" => sample.bytes \in [1 .. 4 -> Byte]) => AddressesSurvive
    BY <1>1 DEF AddressesSurvive
  <2>2. QED
    BY <2>1, AddressTyped, PTL
<1>3. QED
  BY <1>1, <1>2

-----------------------------------------------------------------------------
(***************************************************************************)
(* The runs between the dots of a text, and fromString reading them.       *)
(***************************************************************************)
RunsFolds(fold, base, text) ==
  fold = [s \in SUBSET DOMAIN text |->
            IF s = {} THEN base ELSE Split(fold[s \ {Max(s)}], text[Max(s)])]

LEMMA RunsIsFold ==
  ASSUME NEW S, NEW text \in Seq(S)
  PROVE  IsFold(Runs(text), "runs", << << >> >>, text)
<1> DEFINE base == << << >> >>
<1>1. Runs(text) = (CHOOSE fold : RunsFolds(fold, base, text))[DOMAIN text]
  BY DEF Runs, FoldLeft, MapThenFoldSet, RunsFolds
<1> HIDE DEF base
<1>2. \A x, c : Fold("runs", x, c) = Split(x, c)
  BY DEF Fold
<1>3. \A fold : Folds("runs", fold, base, text) <=> RunsFolds(fold, base, text)
  BY Zenon, <1>2 DEF Folds, RunsFolds
<1>4. \E fold : RunsFolds(fold, base, text)
  BY Zenon, <1>3, SeqHasFold
<1>5. IsFold(Runs(text), "runs", base, text)
  BY Zenon, <1>1, <1>3, <1>4 DEF IsFold
<1>6. QED
  BY Zenon, <1>5 DEF base

LEMMA RunsOfNothing == Runs(<< >>) = << << >> >>
<1>1. IsFold(Runs(<< >>), "runs", << << >> >>, << >>)
  BY RunsIsFold, << >> \in Seq(Nat)
<1>2. QED
  BY <1>1, FoldOfNothing

LEMMA RunsOneMore ==
  ASSUME NEW S, NEW text \in Seq(S), NEW c \in S
  PROVE  Runs(Append(text, c)) = Split(Runs(text), c)
<1>1. Append(text, c) \in Seq(S)
  OBVIOUS
<1>2. /\ IsFold(Runs(text), "runs", << << >> >>, text)
      /\ IsFold(Runs(Append(text, c)), "runs", << << >> >>, Append(text, c))
  BY Zenon, <1>1, RunsIsFold
<1>3. Runs(Append(text, c)) = Fold("runs", Runs(text), c)
  BY Zenon, <1>2, FoldOfOneMore
<1>4. QED
  BY <1>3 DEF Fold

\* All characters of a run are digits.
Numeric(run) == ToSet(run) \subseteq ToSet(Digits)

LEMMA DigitValue ==
  ASSUME NEW c \in ToSet(Digits)
  PROVE  ValueOf(c) \in 0 .. 9 /\ c # "."
<1>1. PICK i \in 1 .. 10 : c = Digits[i]
  BY DigitsTold DEF ToSet
<1>2. i - 1 \in 0 .. 9 /\ i - 1 + 1 = i
  OBVIOUS
<1>3. QED
  BY Zenon, <1>1, <1>2, ValueOfDigit

LEMMA OctetOfNothing == Octet(<< >>) = 0 /\ Numeric(<< >>)
<1>1. [k \in DOMAIN << >> |-> ValueOf(<< >>[k])] = << >>
  OBVIOUS
<1>2. Octet(<< >>) = 0
  BY <1>1, NumberOfNothing DEF Octet
<1>3. QED
  BY <1>2 DEF Numeric, ToSet

LEMMA OctetOneMore ==
  ASSUME NEW S, NEW run \in Seq(S), NEW c \in S
  PROVE  /\ Numeric(Append(run, c)) <=> Numeric(run) /\ c \in ToSet(Digits)
         /\ Numeric(Append(run, c)) =>
              /\ Octet(Append(run, c)) = 10 * Octet(run) + ValueOf(c)
<1>1. Numeric(Append(run, c)) <=> Numeric(run) /\ c \in ToSet(Digits)
  <2> DEFINE more == Append(run, c)
             n == Len(run)
  <2>1. /\ DOMAIN run = 1 .. n /\ DOMAIN more = 1 .. n + 1 /\ n \in Nat
        /\ more[n + 1] = c /\ \A k \in 1 .. n : more[k] = run[k]
    OBVIOUS
  <2> HIDE DEF more, n
  <2>2. \A k \in 1 .. n + 1 : k \in 1 .. n \/ k = n + 1
    BY <2>1
  <2>3. \A k \in 1 .. n : k \in 1 .. n + 1
    BY <2>1
  <2>4. n + 1 \in 1 .. n + 1
    BY <2>1
  <2>5. Numeric(more) <=> \A k \in 1 .. n + 1 : more[k] \in ToSet(Digits)
    BY Zenon, <2>1 DEF Numeric, ToSet
  <2>6. Numeric(run) <=> \A k \in 1 .. n : run[k] \in ToSet(Digits)
    BY Zenon, <2>1 DEF Numeric, ToSet
  <2>7. Numeric(more) <=> Numeric(run) /\ c \in ToSet(Digits)
    BY Zenon, <2>1, <2>2, <2>3, <2>4, <2>5, <2>6
  <2>8. QED
    BY Zenon, <2>7 DEF more
<1>2. ASSUME Numeric(run), c \in ToSet(Digits)
      PROVE  Octet(Append(run, c)) = 10 * Octet(run) + ValueOf(c)
  <2> DEFINE values == [k \in DOMAIN run |-> ValueOf(run[k])]
             more == [k \in DOMAIN Append(run, c) |-> ValueOf(Append(run, c)[k])]
             v == ValueOf(c)
  <2>1. \A k \in DOMAIN run : ValueOf(run[k]) \in Nat
    <3>1. \A k \in DOMAIN run : run[k] \in ToSet(Digits)
      BY <1>2 DEF Numeric, ToSet
    <3>2. \A k \in DOMAIN run : ValueOf(run[k]) \in 0 .. 9
      BY Zenon, <3>1, DigitValue
    <3>3. QED
      BY <3>2
  <2>2. values \in Seq(Nat) /\ v \in Nat
    <3>1. v \in Nat
      BY <1>2, DigitValue
    <3>2. QED
      BY <2>1, <3>1
  <2>3. more = Append(values, v)
    OBVIOUS
  <2> HIDE DEF values, more, v
  <2>4. Number(more) = 10 * Number(values) + v
    BY Zenon, <2>2, <2>3, NumberOneMore
  <2>5. QED
    BY Zenon, <2>4 DEF Octet, values, more, v
<1>3. QED
  BY Zenon, <1>1, <1>2
\* Four runs at most, of digits only, each at most 255.
Good(runs) ==
  /\ Len(runs) <= 4
  /\ \A r \in 1 .. Len(runs) : Numeric(runs[r]) /\ Octet(runs[r]) <= 255

Counted(runs) ==
  \A r \in 1 .. Len(runs) : Numeric(runs[r]) => Octet(runs[r]) \in Nat

\* The octets of the runs but the last.
Octets(runs) == [i \in 1 .. 4 |-> IF i < Len(runs) THEN Octet(runs[i]) ELSE 0]

ReadRuns(scan, runs, S) ==
  /\ runs \in Seq(Seq(S)) /\ Len(runs) > 0 /\ Counted(runs)
  /\ scan \in [acc : Nat, dots : 0 .. 3, bytes : [1 .. 4 -> Nat], ok : BOOLEAN]
  /\ scan.ok <=> Good(runs)
  /\ scan.ok => /\ scan.dots + 1 = Len(runs)
                /\ scan.acc = Octet(runs[Len(runs)])
                /\ scan.bytes = Octets(runs)

\* new is runs with an empty run behind.
Opened(new, runs, n) ==
  /\ n \in Nat /\ Len(runs) = n /\ Len(new) = n + 1
  /\ new[n + 1] = << >>
  /\ \A r \in 1 .. n : new[r] = runs[r]

LEMMA GoodWithDot ==
  ASSUME NEW runs, NEW new, NEW n, Opened(new, runs, n)
  PROVE  /\ Good(new) <=> Good(runs) /\ n < 4
         /\ Counted(runs) => Counted(new)
         /\ \A i \in 1 .. 4 :
              Octets(new)[i] = IF i < n + 1 THEN Octet(runs[i]) ELSE 0
<1> DEFINE P(run) == Numeric(run) /\ Octet(run) <= 255
           Q(run) == Numeric(run) => Octet(run) \in Nat
<1>1. P(<< >>) /\ Q(<< >>)
  BY OctetOfNothing
<1>2. /\ \A r \in 1 .. n + 1 : r \in 1 .. n \/ r = n + 1
      /\ \A r \in 1 .. n : r \in 1 .. n + 1
      /\ n + 1 \in 1 .. n + 1
      /\ n + 1 <= 4 <=> n <= 4 /\ n < 4
      /\ \A i \in 1 .. 4 : i < n + 1 => i \in 1 .. n
  BY DEF Opened
<1>3. /\ Len(runs) = n /\ Len(new) = n + 1 /\ new[n + 1] = << >>
      /\ \A r \in 1 .. n : new[r] = runs[r]
  BY Zenon DEF Opened
<1>4. /\ Good(new) <=> n + 1 <= 4 /\ \A r \in 1 .. n + 1 : P(new[r])
      /\ Good(runs) <=> n <= 4 /\ \A r \in 1 .. n : P(runs[r])
      /\ Counted(new) <=> \A r \in 1 .. n + 1 : Q(new[r])
      /\ Counted(runs) <=> \A r \in 1 .. n : Q(runs[r])
  BY Zenon, <1>3 DEF Good, Counted
<1> HIDE DEF P, Q
<1>5. /\ (\A r \in 1 .. n + 1 : P(new[r])) <=> (\A r \in 1 .. n : P(runs[r]))
      /\ (\A r \in 1 .. n + 1 : Q(new[r])) <=> (\A r \in 1 .. n : Q(runs[r]))
  BY Zenon, <1>1, <1>2, <1>3
<1>6. ASSUME NEW i \in 1 .. 4
      PROVE  Octets(new)[i] = IF i < n + 1 THEN Octet(runs[i]) ELSE 0
  BY Zenon, <1>2, <1>3 DEF Octets
<1>7. QED
  BY Zenon, <1>2, <1>4, <1>5, <1>6

LEMMA ReadRunsDot ==
  ASSUME NEW S, "." \in S, NEW scan, NEW runs, ReadRuns(scan, runs, S)
  PROVE  ReadRuns(ReadChar(scan, "."), Split(runs, "."), S)
<1> DEFINE new == Append(runs, << >>)
           next == ReadChar(scan, ".")
           n == Len(runs)
<1>1. Split(runs, ".") = new
  BY DEF Split
<1>2. /\ new \in Seq(Seq(S)) /\ Len(new) = n + 1 /\ n \in Nat /\ n # 0 /\ n + 1 > 0
      /\ new[n + 1] = << >> /\ \A r \in 1 .. n : new[r] = runs[r]
  BY DEF ReadRuns
<1> HIDE DEF new, n
<1>3. /\ Good(new) <=> Good(runs) /\ n < 4
      /\ Counted(new)
      /\ \A i \in 1 .. 4 : Octets(new)[i] = IF i < n + 1 THEN Octet(runs[i]) ELSE 0
  <2>1. Counted(runs) /\ Opened(new, runs, n)
    BY Zenon, <1>2 DEF ReadRuns, Opened, n
  <2>2. QED
    BY Zenon, <2>1, GoodWithDot
<1>4. "." \notin ToSet(Digits)
  BY DigitsTold DEF ToSet
<1>9. /\ scan \in [acc : Nat, dots : 0 .. 3, bytes : [1 .. 4 -> Nat], ok : BOOLEAN]
      /\ scan.ok <=> Good(runs)
      /\ scan.ok => /\ scan.dots + 1 = n /\ scan.acc = Octet(runs[n])
                    /\ scan.bytes = Octets(runs)
  BY Zenon DEF ReadRuns, n
<1>10. /\ scan.acc \in Nat /\ scan.dots \in 0 .. 3 /\ scan.bytes \in [1 .. 4 -> Nat]
       /\ scan.ok \in BOOLEAN
  BY ONLY <1>9
<1>5. CASE ~ scan.ok
  <2>1. next = scan
    BY Zenon, <1>5 DEF ReadChar
  <2>2. QED
    BY Zenon, <1>1, <1>2, <1>3, <1>5, <2>1 DEF ReadRuns
<1>6. CASE scan.ok /\ scan.dots < 3
  <2>1. /\ scan.dots + 1 = n /\ scan.acc = Octet(runs[n]) /\ scan.bytes = Octets(runs)
        /\ Good(runs)
    BY Zenon, <1>6, <1>9
  <2>7. n \in 1 .. 3 /\ n < 4
    BY ONLY <1>6, <1>10, <2>1
  <2>2. next = [scan EXCEPT !.bytes[scan.dots + 1] = scan.acc,
                            !.dots = scan.dots + 1, !.acc = 0]
    BY Zenon, <1>4, <1>6 DEF ReadChar
  <2> HIDE DEF next
  <2>3. /\ next.ok = TRUE /\ next.acc = 0 /\ next.dots = n
        /\ next.bytes = [scan.bytes EXCEPT ![n] = scan.acc]
        /\ next \in [acc : Nat, dots : 0 .. 3, bytes : [1 .. 4 -> Nat], ok : BOOLEAN]
    <3> DEFINE bytes == [scan.bytes EXCEPT ![n] = scan.acc]
    <3>1. bytes \in [1 .. 4 -> Nat]
      BY ONLY <1>10
    <3>2. next = [acc |-> 0, dots |-> n, bytes |-> bytes, ok |-> TRUE]
      BY ONLY <1>6, <1>9, <2>1, <2>2
    <3> HIDE DEF bytes
    <3>3. /\ next.ok = TRUE /\ next.acc = 0 /\ next.dots = n /\ next.bytes = bytes
          /\ next \in [acc : Nat, dots : 0 .. 3, bytes : [1 .. 4 -> Nat], ok : BOOLEAN]
      BY ONLY <2>7, <3>1, <3>2
    <3>4. QED
      BY <3>3 DEF bytes
  <2>4. next.bytes = Octets(new)
    <3>1. ASSUME NEW i \in 1 .. 4
          PROVE  next.bytes[i] = Octets(new)[i]
      <4>1. scan.bytes[i] = IF i < n THEN Octet(runs[i]) ELSE 0
        BY Zenon, <2>1 DEF Octets, n
      <4>2. next.bytes[i] = IF i = n THEN scan.acc ELSE scan.bytes[i]
        BY ONLY <1>10, <2>3
      <4>3. Octets(new)[i] = IF i < n + 1 THEN Octet(runs[i]) ELSE 0
        BY Zenon, <1>3
      <4>4. (i < n + 1 <=> i < n \/ i = n) /\ (i = n => ~ (i < n))
        BY ONLY <1>2, i \in 1 .. 4
      <4>5. CASE i = n
        BY Zenon, <2>1, <4>2, <4>3, <4>4, <4>5
      <4>6. CASE i # n
        BY Zenon, <4>1, <4>2, <4>3, <4>4, <4>6
      <4>7. QED
        BY Zenon, <4>5, <4>6
    <3>2. Octets(new) = [i \in 1 .. 4 |-> Octets(new)[i]]
      BY Zenon DEF Octets
    <3>3. next.bytes = [i \in 1 .. 4 |-> next.bytes[i]]
      BY ONLY <2>3, <1>10
    <3>4. QED
      BY Zenon, <3>1, <3>2, <3>3
  <2>5. Octet(new[Len(new)]) = 0
    BY Zenon, <1>2, OctetOfNothing
  <2>6. QED
    BY Zenon, <1>1, <1>2, <1>3, <2>1, <2>3, <2>4, <2>5, <2>7 DEF ReadRuns, next
<1>7. CASE scan.ok /\ ~ (scan.dots < 3)
  <2>1. next = [scan EXCEPT !.ok = FALSE]
    BY Zenon, <1>4, <1>7 DEF ReadChar
  <2>2. /\ next \in [acc : Nat, dots : 0 .. 3, bytes : [1 .. 4 -> Nat], ok : BOOLEAN]
        /\ ~ next.ok
    BY ONLY <1>9, <1>10, <2>1
  <2>3. ~ (n < 4)
    BY ONLY <1>7, <1>9, <1>10
  <2>4. QED
    BY Zenon, <1>1, <1>2, <1>3, <2>2, <2>3 DEF ReadRuns
<1>8. QED
  BY Zenon, <1>5, <1>6, <1>7

\* new is runs with one character more in the last.
Lengthened(new, runs, n, c, S) ==
  /\ n \in Nat \ {0} /\ Len(runs) = n /\ Len(new) = n
  /\ runs[n] \in Seq(S) /\ c \in S
  /\ new[n] = Append(runs[n], c)
  /\ \A r \in 1 .. n - 1 : new[r] = runs[r]

LEMMA GoodWithChar ==
  ASSUME NEW runs, NEW new, NEW n, NEW c, NEW S, Lengthened(new, runs, n, c, S),
         Counted(runs)
  PROVE  LET sum == 10 * Octet(runs[n]) + ValueOf(c)
         IN  /\ c \notin ToSet(Digits) => ~ Good(new)
             /\ c \in ToSet(Digits) => (Good(new) <=> Good(runs) /\ sum <= 255)
             /\ c \in ToSet(Digits) /\ Good(runs) => Octet(new[n]) = sum /\ sum \in Nat
             /\ Counted(new)
             /\ Octets(new) = Octets(runs)
<1> DEFINE sum == 10 * Octet(runs[n]) + ValueOf(c)
           last == runs[n]
           longer == new[n]
           P(run) == Numeric(run) /\ Octet(run) <= 255
           Q(run) == Numeric(run) => Octet(run) \in Nat
           Before(seq) == \A r \in 1 .. n - 1 : P(seq[r])
           CountedBefore(seq) == \A r \in 1 .. n - 1 : Q(seq[r])
<1>1. /\ \A r \in 1 .. n : r \in 1 .. n - 1 \/ r = n
      /\ \A r \in 1 .. n - 1 : r \in 1 .. n
      /\ n \in 1 .. n
      /\ \A i \in 1 .. 4 : i < n => i \in 1 .. n - 1
  BY DEF Lengthened
<1>2. /\ Len(runs) = n /\ Len(new) = n
      /\ \A r \in 1 .. n - 1 : new[r] = runs[r]
  BY Zenon DEF Lengthened
<1>3. /\ Numeric(longer) <=> Numeric(last) /\ c \in ToSet(Digits)
      /\ Numeric(longer) => Octet(longer) = sum
  BY OctetOneMore DEF Lengthened
<1>4. /\ Good(new) <=> n <= 4 /\ \A r \in 1 .. n : P(new[r])
      /\ Good(runs) <=> n <= 4 /\ \A r \in 1 .. n : P(runs[r])
      /\ Counted(new) <=> \A r \in 1 .. n : Q(new[r])
      /\ Counted(runs) <=> \A r \in 1 .. n : Q(runs[r])
  BY Zenon, <1>2 DEF Good, Counted
<1>5. Octets(new) = Octets(runs)
  <2>1. ASSUME NEW i \in 1 .. 4
        PROVE  (IF i < Len(new) THEN Octet(new[i]) ELSE 0)
                 = IF i < Len(runs) THEN Octet(runs[i]) ELSE 0
    BY Zenon, <1>1, <1>2
  <2>2. QED
    BY Zenon, <2>1 DEF Octets
<1>6. /\ Numeric(last) => Octet(last) \in Nat
      /\ c \in ToSet(Digits) => ValueOf(c) \in Nat
      /\ CountedBefore(runs)
  <2>1. c \in ToSet(Digits) => ValueOf(c) \in Nat
    BY DigitValue
  <2>2. QED
    BY Zenon, <1>1, <1>4, <2>1
<1> DEFINE value == Octet(last)
           d == ValueOf(c)
<1>7. Numeric(last) /\ c \in ToSet(Digits) => sum \in Nat /\ (sum <= 255 => value <= 255)
  <2>1. value \in Nat /\ d \in Nat => 10 * value + d \in Nat /\ (10 * value + d <= 255 => value <= 255)
    OBVIOUS
  <2>2. QED
    BY Zenon, <1>6, <2>1
<1> HIDE DEF sum, last, longer
<1>8. P(longer) <=> c \in ToSet(Digits) /\ Numeric(last) /\ sum <= 255
  <2>1. CASE Numeric(longer)
    <3>1. Octet(longer) = sum
      BY Zenon, <1>3, <2>1
    <3>2. QED
      BY Zenon, <1>3, <2>1, <3>1
  <2>2. CASE ~ Numeric(longer)
    BY Zenon, <1>3, <2>2
  <2>3. QED
    BY Zenon, <2>1, <2>2
<1>9. Q(longer)
  <2>1. CASE Numeric(longer)
    <3>1. Octet(longer) = sum /\ sum \in Nat
      BY Zenon, <1>3, <1>7, <2>1
    <3>2. QED
      BY Zenon, <3>1
  <2>2. QED
    BY Zenon, <2>1
<1>16. P(longer) => P(last)
  BY Zenon, <1>7, <1>8
<1>17. P(last) => Numeric(last)
  BY Zenon
<1> HIDE DEF P, Q, value, d
<1>10. /\ (\A r \in 1 .. n : P(new[r])) <=> Before(runs) /\ P(longer)
       /\ (\A r \in 1 .. n : P(runs[r])) <=> Before(runs) /\ P(last)
       /\ (\A r \in 1 .. n : Q(new[r])) <=> CountedBefore(runs) /\ Q(longer)
  BY Zenon, <1>1, <1>2 DEF longer, last
<1> HIDE DEF Before, CountedBefore
<1>11. Counted(new)
  BY Zenon, <1>4, <1>6, <1>9, <1>10
<1>12. c \in ToSet(Digits) => (Good(new) <=> Good(runs) /\ sum <= 255)
  BY Zenon, <1>4, <1>8, <1>10, <1>16, <1>17
<1>13. c \notin ToSet(Digits) => ~ Good(new)
  BY Zenon, <1>4, <1>8, <1>10
<1>14. c \in ToSet(Digits) /\ Good(runs) => Octet(longer) = sum /\ sum \in Nat
  <2>1. Good(runs) => Numeric(last)
    BY Zenon, <1>4, <1>10, <1>17
  <2>2. ASSUME c \in ToSet(Digits), Numeric(last)
        PROVE  Octet(longer) = sum /\ sum \in Nat
    <3>1. Numeric(longer)
      BY Zenon, <1>3, <2>2
    <3>2. Octet(longer) = sum
      BY Zenon, <1>3, <3>1
    <3>3. QED
      BY Zenon, <1>7, <2>2, <3>2
  <2>3. QED
    BY Zenon, <2>1, <2>2
<1>15. QED
  BY Zenon, <1>5, <1>11, <1>12, <1>13, <1>14 DEF sum, longer

LEMMA ReadRunsChar ==
  ASSUME NEW S, NEW c \in S, c # ".", NEW scan, NEW runs, ReadRuns(scan, runs, S)
  PROVE  ReadRuns(ReadChar(scan, c), Split(runs, c), S)
<1> DEFINE n == Len(runs)
           new == [runs EXCEPT ![n] = Append(runs[n], c)]
           next == ReadChar(scan, c)
           sum == 10 * Octet(runs[n]) + ValueOf(c)
           Scans == [acc : Nat, dots : 0 .. 3, bytes : [1 .. 4 -> Nat], ok : BOOLEAN]
<1>1. Split(runs, c) = new
  BY Zenon DEF Split
<1>2. runs \in Seq(Seq(S)) /\ n > 0 /\ Counted(runs)
  BY Zenon DEF ReadRuns
<1>3. new \in Seq(Seq(S)) /\ Lengthened(new, runs, n, c, S)
  BY <1>2 DEF Lengthened
<1> HIDE DEF new, n
<1>4. /\ c \notin ToSet(Digits) => ~ Good(new)
      /\ c \in ToSet(Digits) => (Good(new) <=> Good(runs) /\ sum <= 255)
      /\ c \in ToSet(Digits) /\ Good(runs) => Octet(new[n]) = sum /\ sum \in Nat
      /\ Counted(new)
      /\ Octets(new) = Octets(runs)
  BY Zenon, <1>2, <1>3, GoodWithChar
<1>5. /\ scan \in Scans
      /\ scan.ok <=> Good(runs)
      /\ scan.ok => /\ scan.dots + 1 = n /\ scan.acc = Octet(runs[n])
                    /\ scan.bytes = Octets(runs)
  BY Zenon DEF ReadRuns, n
<1>6. Len(new) = n
  BY Zenon, <1>3 DEF Lengthened
<1>7. CASE ~ scan.ok
  <2>1. next = scan
    BY Zenon, <1>7 DEF ReadChar
  <2>2. ~ Good(new)
    BY Zenon, <1>4, <1>5, <1>7
  <2>3. QED
    BY Zenon, <1>1, <1>2, <1>3, <1>4, <1>5, <1>6, <1>7, <2>1, <2>2 DEF ReadRuns
<1>8. CASE scan.ok /\ c \in ToSet(Digits)
  <2>1. next = [scan EXCEPT !.acc = sum, !.ok = sum <= 255]
    BY Zenon, <1>5, <1>8 DEF ReadChar
  <2>2. sum \in Nat
    BY Zenon, <1>4, <1>5, <1>8
  <2> HIDE DEF sum, next
  <2>3. next \in Scans /\ next.acc = sum /\ next.dots = scan.dots /\ next.bytes = scan.bytes
    <3>1. next = [acc |-> sum, dots |-> scan.dots, bytes |-> scan.bytes, ok |-> sum <= 255]
      BY ONLY <1>5, <2>1
    <3>2. scan.dots \in 0 .. 3 /\ scan.bytes \in [1 .. 4 -> Nat] /\ (sum <= 255) \in BOOLEAN
      BY ONLY <1>5
    <3>3. QED
      BY ONLY <2>2, <3>1, <3>2
  <2>4. next.ok <=> sum <= 255
    BY ONLY <1>5, <2>1, <2>2
  <2> HIDE DEF Scans
  <2>5. QED
    BY Zenon, <1>1, <1>2, <1>3, <1>4, <1>5, <1>6, <1>8, <2>3, <2>4
    DEF ReadRuns, Scans, next, sum, n
<1>9. CASE scan.ok /\ c \notin ToSet(Digits)
  <2>1. next = [scan EXCEPT !.ok = FALSE]
    BY Zenon, <1>9 DEF ReadChar
  <2> HIDE DEF next
  <2>2. next \in Scans /\ ~ next.ok
    BY ONLY <1>5, <2>1
  <2>3. QED
    BY Zenon, <1>1, <1>2, <1>3, <1>4, <1>6, <1>9, <2>2 DEF ReadRuns, next, n
<1>10. QED
  BY Zenon, <1>7, <1>8, <1>9

LEMMA TextRead ==
  ASSUME NEW S, NEW text \in Seq(S)
  PROVE  ReadRuns(Read(text), Runs(text), S)
<1> DEFINE n == Len(text)
           part(k) == [i \in 1 .. k |-> text[i]]
           Holds(k) == ReadRuns(Read(part(k)), Runs(part(k)), S)
           Held == {k \in 0 .. n : Holds(k)}
<1>1. Holds(0)
  <2>1. part(0) = << >>
    OBVIOUS
  <2>2. Read(part(0)) = Start /\ Runs(part(0)) = << << >> >>
    BY <2>1, ReadNothing, RunsOfNothing
  <2>3. ReadRuns(Start, << << >> >>, S)
    <3> DEFINE one == << << >> >>
    <3>1. one \in Seq(Seq(S)) /\ Len(one) = 1 /\ one[1] = << >>
      OBVIOUS
    <3> HIDE DEF one
    <3>2. \A r \in 1 .. Len(one) : one[r] = << >>
      BY <3>1
    <3>3. Counted(one) /\ Good(one)
      BY <3>1, <3>2, OctetOfNothing DEF Counted, Good
    <3>4. Octets(one) = [i \in 1 .. 4 |-> 0]
      BY <3>1 DEF Octets
    <3>5. /\ Start \in [acc : Nat, dots : 0 .. 3, bytes : [1 .. 4 -> Nat], ok : BOOLEAN]
          /\ Start.ok = TRUE /\ Start.acc = 0 /\ Start.dots = 0
          /\ Start.bytes = [i \in 1 .. 4 |-> 0]
      BY DEF Start
    <3>6. 1 > 0 /\ 0 + 1 = 1
      OBVIOUS
    <3>7. Octet(one[Len(one)]) = 0
      BY Zenon, <3>1, OctetOfNothing
    <3>8. ReadRuns(Start, one, S)
      BY Zenon, <3>1, <3>3, <3>4, <3>5, <3>6, <3>7 DEF ReadRuns
    <3>9. QED
      BY Zenon, <3>8 DEF one
  <2>4. QED
    BY Zenon, <2>2, <2>3
<1>2. ASSUME NEW k \in 0 .. n - 1, Holds(k)
      PROVE  Holds(k + 1)
  <2> DEFINE c == text[k + 1]
  <2>1. /\ part(k) \in Seq(S) /\ c \in S
        /\ part(k + 1) = Append(part(k), c)
    OBVIOUS
  <2> HIDE DEF c, part
  <2>2. /\ Read(part(k + 1)) = ReadChar(Read(part(k)), c)
        /\ Runs(part(k + 1)) = Split(Runs(part(k)), c)
    <3>1. Read(Append(part(k), c)) = ReadChar(Read(part(k)), c)
      BY <2>1, ReadOneMore
    <3>2. Runs(Append(part(k), c)) = Split(Runs(part(k)), c)
      BY <2>1, RunsOneMore
    <3>3. QED
      BY Zenon, <2>1, <3>1, <3>2
  <2>3. ReadRuns(ReadChar(Read(part(k)), c), Split(Runs(part(k)), c), S)
    <3>1. CASE c = "."
      BY Zenon, <1>2, <2>1, <3>1, ReadRunsDot
    <3>2. CASE c # "."
      BY Zenon, <1>2, <2>1, <3>2, ReadRunsChar
    <3>3. QED
      BY Zenon, <3>1, <3>2
  <2>4. QED
    BY Zenon, <2>2, <2>3
<1> HIDE DEF Holds
<1>3. Holds(n)
  <2>1. 0 \in Held
    BY <1>1
  <2>2. \A k \in 0 .. n - 1 : k \in Held => k + 1 \in Held
    BY <1>2
  <2> HIDE DEF Held
  <2>3. \A k \in 0 .. n : k \in Held
    BY <2>1, <2>2, Induction
  <2>4. QED
    BY <2>3 DEF Held
<1>4. part(n) = text
  OBVIOUS
<1>5. QED
  BY Zenon, <1>3, <1>4 DEF Holds

LEMMA TextAccepted ==
  ASSUME NEW S, NEW text \in Seq(S)
  PROVE  LET runs == Runs(text)
             read == fromString(text)
         IN  /\ read.ok <=> /\ Len(runs) = 4
                            /\ \A r \in DOMAIN runs : Numeric(runs[r])
                            /\ \A r \in DOMAIN runs : Octet(runs[r]) <= 255
             /\ read.ok => read.bytes = [r \in DOMAIN runs |-> Octet(runs[r])]
<1> DEFINE runs == Runs(text)
           read == fromString(text)
           scan == Read(text)
           n == Len(runs)
<1>1. ReadRuns(scan, runs, S)
  BY Zenon, TextRead
<1>2. read = IF scan.ok /\ scan.dots = 3
             THEN [ok |-> TRUE, bytes |-> [scan.bytes EXCEPT ![4] = scan.acc]]
             ELSE [ok |-> FALSE, bytes |-> scan.bytes]
  BY Zenon DEF fromString, Read, Start
<1> HIDE DEF runs, read, scan
<1>3. /\ runs \in Seq(Seq(S))
      /\ scan \in [acc : Nat, dots : 0 .. 3, bytes : [1 .. 4 -> Nat], ok : BOOLEAN]
      /\ scan.ok <=> Good(runs)
      /\ scan.ok => /\ scan.dots + 1 = n /\ scan.acc = Octet(runs[n])
                    /\ scan.bytes = Octets(runs)
  BY Zenon, <1>1 DEF ReadRuns
<1>4. DOMAIN runs = 1 .. n /\ n \in Nat
  BY ONLY <1>3
<1>5. Good(runs) /\ n = 4 <=> /\ n = 4
                              /\ \A r \in DOMAIN runs : Numeric(runs[r])
                              /\ \A r \in DOMAIN runs : Octet(runs[r]) <= 255
  <2>1. n = 4 => n <= 4
    OBVIOUS
  <2>2. QED
    BY Zenon, <1>4, <2>1 DEF Good, n
<1>6. read.ok <=> scan.ok /\ scan.dots = 3
  BY Zenon, <1>2
<1>7. scan.ok => (scan.dots = 3 <=> n = 4)
  <2>1. scan.dots \in 0 .. 3
    BY ONLY <1>3
  <2>2. SUFFICES ASSUME scan.ok PROVE scan.dots = 3 <=> n = 4
    BY Zenon
  <2>3. scan.dots + 1 = n
    BY Zenon, <1>3, <2>2
  <2> DEFINE dots == scan.dots
  <2> HIDE DEF dots, n
  <2>4. dots = 3 <=> n = 4
    BY <1>4, <2>1, <2>3 DEF dots
  <2>5. QED
    BY Zenon, <2>4 DEF dots
<1>8. read.ok <=> Good(runs) /\ n = 4
  BY Zenon, <1>3, <1>6, <1>7
<1>9. ASSUME read.ok
      PROVE  read.bytes = [r \in DOMAIN runs |-> Octet(runs[r])]
  <2>1. n = 4 /\ scan.ok /\ scan.dots = 3
    BY Zenon, <1>6, <1>7, <1>9
  <2>2. read.bytes = [scan.bytes EXCEPT ![4] = scan.acc]
    BY Zenon, <1>2, <2>1
  <2>3. [Octets(runs) EXCEPT ![4] = Octet(runs[4])] = [r \in 1 .. 4 |-> Octet(runs[r])]
    <3>1. Octets(runs) = [i \in 1 .. 4 |-> IF i < 4 THEN Octet(runs[i]) ELSE 0]
      BY Zenon, <2>1 DEF Octets, n
    <3>2. QED
      BY ONLY <3>1
  <2>4. QED
    BY Zenon, <1>3, <1>4, <2>1, <2>2, <2>3
<1>10. QED
  BY Zenon, <1>5, <1>8, <1>9 DEF runs, read

LEMMA TextTyped == Spec => [](sample.kind = "text" => sample.text \in Seq({"2", "6", ".", "x"}))
<1>1. ASSUME NEW s \in Samples
      PROVE  s.kind = "text" => s.text \in Seq({"2", "6", ".", "x"})
  <2>1. s.kind = "text" => \E n \in 0 .. 6 : s.text \in [1 .. n -> {"2", "6", ".", "x"}]
    BY DEF Samples
  <2>2. \A Chars : \A n \in 0 .. 6 : [1 .. n -> Chars] \subseteq Seq(Chars)
    OBVIOUS
  <2>3. QED
    BY Zenon, <2>1, <2>2
<1>2. Init => (sample.kind = "text" => sample.text \in Seq({"2", "6", ".", "x"}))
  BY DEF Init
<1>3. (sample.kind = "text" => sample.text \in Seq({"2", "6", ".", "x"})) /\ [Next]_sample
        => (sample.kind = "text" => sample.text \in Seq({"2", "6", ".", "x"}))'
  BY <1>1 DEF Next
<1>4. QED
  BY <1>2, <1>3, PTL DEF Spec

(***************************************************************************)
(* A text is read as an address exactly if it is four runs of digits       *)
(* between three dots, each at most 255, and the address is their values:  *)
(* nothing else is accepted, of whatever characters and length the text is *)
(* (fauxmoLINUX.h:105-143, fromString).  So it is for those of the run.    *)
(***************************************************************************)
THEOREM OnlyAddressesRead ==
  /\ \A S : \A text \in Seq(S) :
       LET runs == Runs(text)
           read == fromString(text)
       IN  /\ read.ok <=> /\ Len(runs) = 4
                          /\ \A r \in DOMAIN runs : Numeric(runs[r])
                          /\ \A r \in DOMAIN runs : Octet(runs[r]) <= 255
           /\ read.ok => read.bytes = [r \in DOMAIN runs |-> Octet(runs[r])]
  /\ Spec => []ReadsAddressesOnly
<1>1. (sample.kind = "text" => sample.text \in Seq({"2", "6", ".", "x"})) => ReadsAddressesOnly
  BY Zenon, TextAccepted DEF ReadsAddressesOnly, Numeric
<1>2. Spec => []ReadsAddressesOnly
  BY <1>1, TextTyped, PTL
<1>3. QED
  BY Zenon, <1>2, TextAccepted

-----------------------------------------------------------------------------
(***************************************************************************)
(* Requests.  The search for the body reads a text character by character, *)
(* ScanAt says how far it is; HeadScanned follows it through the lines of  *)
(* a head, WholeScanned through the request, wherever that is cut.         *)
(***************************************************************************)
ScanFolds(fold, base, text) ==
  fold = [s \in SUBSET DOMAIN text |->
            IF s = {} THEN base ELSE CountLineFeeds(fold[s \ {Max(s)}], text[Max(s)])]

\* The search for the body of a text whose first line it enters at place 6.
Searching(p, c) == [p |-> p, c |-> c, stop |-> FALSE]

Scanned(rest) == FoldLeft(CountLineFeeds, Searching(6, 0), rest)

Scan(text) == Scanned(SubSeq(text, 6, Len(text)))

LEMMA ScanIsFold ==
  ASSUME NEW S, NEW text \in Seq(S)
  PROVE  IsFold(Scanned(text), "body", Searching(6, 0), text)
<1> DEFINE base == Searching(6, 0)
<1>1. Scanned(text) = (CHOOSE fold : ScanFolds(fold, base, text))[DOMAIN text]
  BY DEF Scanned, FoldLeft, MapThenFoldSet, ScanFolds
<1> HIDE DEF base
<1>2. \A x, c : Fold("body", x, c) = CountLineFeeds(x, c)
  BY DEF Fold
<1>3. \A fold : Folds("body", fold, base, text) <=> ScanFolds(fold, base, text)
  BY Zenon, <1>2 DEF Folds, ScanFolds
<1>4. \E fold : ScanFolds(fold, base, text)
  BY Zenon, <1>3, SeqHasFold
<1>5. IsFold(Scanned(text), "body", base, text)
  BY Zenon, <1>1, <1>3, <1>4 DEF IsFold
<1>6. QED
  BY Zenon, <1>5 DEF base

LEMMA ScanNothing ==
  ASSUME NEW S, NEW text \in Seq(S), Len(text) = 5
  PROVE  Scan(text) = Searching(6, 0)
<1>1. SubSeq(text, 6, Len(text)) = << >>
  OBVIOUS
<1>2. IsFold(Scanned(<< >>), "body", Searching(6, 0), << >>)
  BY ScanIsFold, << >> \in Seq(Nat)
<1>3. QED
  BY <1>1, <1>2, FoldOfNothing DEF Scan

LEMMA ScanOneMore ==
  ASSUME NEW S, NEW text \in Seq(S), Len(text) >= 5, NEW c \in S
  PROVE  Scan(Append(text, c)) = CountLineFeeds(Scan(text), c)
<1> DEFINE rest == SubSeq(text, 6, Len(text))
           more == SubSeq(Append(text, c), 6, Len(Append(text, c)))
<1>1. rest \in Seq(S) /\ Append(rest, c) \in Seq(S)
  OBVIOUS
<1>2. more = Append(rest, c)
  <2> DEFINE longer == Append(rest, c)
  <2>1. /\ more \in Seq(S) /\ longer \in Seq(S) /\ Len(more) = Len(longer)
        /\ \A i \in 1 .. Len(more) : more[i] = longer[i]
    OBVIOUS
  <2> HIDE DEF more, longer
  <2>2. more = longer
    BY Zenon, <2>1, SeqEqual
  <2>3. QED
    BY Zenon, <2>2 DEF longer
<1> HIDE DEF rest, more
<1>3. /\ IsFold(Scanned(rest), "body", Searching(6, 0), rest)
      /\ IsFold(Scanned(Append(rest, c)), "body", Searching(6, 0), Append(rest, c))
  BY Zenon, <1>1, ScanIsFold
<1>4. Scanned(Append(rest, c)) = Fold("body", Scanned(rest), c)
  BY Zenon, <1>1, <1>3, FoldOfOneMore
<1>5. Fold("body", Scanned(rest), c) = CountLineFeeds(Scanned(rest), c)
  BY DEF Fold
<1>6. QED
  BY Zenon, <1>2, <1>4, <1>5 DEF Scan, rest, more

JoinFolds(fold, base, lines) ==
  fold = [s \in SUBSET DOMAIN lines |->
            IF s = {} THEN base ELSE Join(fold[s \ {Max(s)}], lines[Max(s)])]

Joined(base, lines) == FoldLeft(Join, base, lines)

LEMMA JoinIsFold ==
  ASSUME NEW S, NEW lines \in Seq(S), NEW base
  PROVE  IsFold(Joined(base, lines), "lines", base, lines)
<1>1. Joined(base, lines) = (CHOOSE fold : JoinFolds(fold, base, lines))[DOMAIN lines]
  BY DEF Joined, FoldLeft, MapThenFoldSet, JoinFolds
<1>2. \A x, c : Fold("lines", x, c) = Join(x, c)
  BY DEF Fold
<1>3. \A fold : Folds("lines", fold, base, lines) <=> JoinFolds(fold, base, lines)
  BY Zenon, <1>2 DEF Folds, JoinFolds
<1>4. \E fold : JoinFolds(fold, base, lines)
  BY Zenon, <1>3, SeqHasFold
<1>5. QED
  BY Zenon, <1>1, <1>3, <1>4 DEF IsFold

LEMMA JoinNothing ==
  ASSUME NEW base
  PROVE  Joined(base, << >>) = base
<1>1. IsFold(Joined(base, << >>), "lines", base, << >>)
  BY JoinIsFold, << >> \in Seq(Nat)
<1>2. QED
  BY <1>1, FoldOfNothing

LEMMA JoinOneMore ==
  ASSUME NEW S, NEW lines \in Seq(S), NEW line \in S, NEW base
  PROVE  Joined(base, Append(lines, line)) = Joined(base, lines) \o line
<1>1. Append(lines, line) \in Seq(S)
  OBVIOUS
<1>2. /\ IsFold(Joined(base, lines), "lines", base, lines)
      /\ IsFold(Joined(base, Append(lines, line)), "lines", base, Append(lines, line))
  BY Zenon, <1>1, JoinIsFold
<1>3. Joined(base, Append(lines, line)) = Fold("lines", Joined(base, lines), line)
  BY Zenon, <1>2, FoldOfOneMore
<1>4. QED
  BY <1>3 DEF Fold, Join

\* Characters of requests; those of a line are neither CR nor LF.
Writable(Chars) ==
  "NUL" \notin Chars /\ {"m", " ", "u", "/", "v", "CR", "LF"} \subseteq Chars

Plain(Chars) == Chars \ {"CR", "LF"}

Starts(text) ==
  /\ text[1] = "m" /\ text[2] = " " /\ text[3] = "u" /\ text[4] = "/"
  /\ text[5] = " "

\* The search has read all of the text, and c line feeds in a row.
ScanAt(text, c, Chars) ==
  /\ text \in Seq(Chars) /\ Len(text) >= 5 /\ Starts(text)
  /\ Scan(text) = Searching(Len(text) + 1, c)
  /\ \A k \in 5 .. Len(text) : Scan(SubSeq(text, 1, k)).p = k + 1

\* What a character makes of the number of line feeds in a row.
Count(c, x) == CASE x = "CR" -> c [] x = "LF" -> c + 1 [] OTHER -> 0

LEMMA ScanChar ==
  ASSUME NEW Chars, Writable(Chars), NEW text, NEW c, c \in 0 .. 1,
         ScanAt(text, c, Chars), NEW x \in Chars
  PROVE  ScanAt(Append(text, x), Count(c, x), Chars)
<1> DEFINE n == Len(text)
           more == Append(text, x)
<1>1. text \in Seq(Chars) /\ n >= 5 /\ n \in Nat
  BY DEF ScanAt
<1>2. /\ more \in Seq(Chars) /\ Len(more) = n + 1 /\ Len(more) >= 5
      /\ \A k \in 1 .. n : more[k] = text[k]
  BY <1>1
<1>3. Starts(more)
  <2>1. 1 \in 1 .. n /\ 2 \in 1 .. n /\ 3 \in 1 .. n /\ 4 \in 1 .. n /\ 5 \in 1 .. n
    BY <1>1
  <2>2. QED
    BY Zenon, <1>2, <2>1 DEF Starts, ScanAt
<1>4. Scan(more) = Searching(n + 2, Count(c, x))
  <2>1. Scan(more) = CountLineFeeds(Scan(text), x)
    BY <1>1, ScanOneMore
  <2>2. Scan(text) = Searching(n + 1, c)
    BY Zenon DEF ScanAt
  <2>3. x # "NUL" /\ c # 2 /\ n + 1 + 1 = n + 2
    <3>1. x # "NUL"
      BY Zenon DEF Writable
    <3>2. c # 2 /\ n + 1 + 1 = n + 2
      BY <1>1
    <3>3. QED
      BY Zenon, <3>1, <3>2
  <2>4. CountLineFeeds(Searching(n + 1, c), x)
          = [p |-> n + 1 + 1, c |-> Count(c, x), stop |-> FALSE]
    BY <2>3 DEF CountLineFeeds, Searching, Count
  <2>5. QED
    BY Zenon, <2>1, <2>2, <2>3, <2>4 DEF Searching
<1>5. ASSUME NEW k \in 5 .. n + 1
      PROVE  Scan(SubSeq(more, 1, k)).p = k + 1
  <2>1. CASE k = n + 1
    <3>1. SubSeq(more, 1, k) = more
      BY <1>1, <1>2, <2>1
    <3>2. Scan(more).p = n + 2 /\ n + 2 = k + 1
      BY <1>1, <1>4, <2>1 DEF Searching
    <3>3. QED
      BY Zenon, <3>1, <3>2
  <2>2. CASE k # n + 1
    <3>1. k \in 5 .. n
      BY <1>1, <2>2
    <3>2. SubSeq(more, 1, k) = SubSeq(text, 1, k)
      <4> DEFINE a == SubSeq(more, 1, k)
                 b == SubSeq(text, 1, k)
      <4>1. /\ a \in Seq(Chars) /\ b \in Seq(Chars) /\ Len(a) = Len(b)
            /\ \A i \in 1 .. Len(a) : a[i] = b[i]
        BY <1>1, <1>2, <3>1
      <4> HIDE DEF a, b
      <4>2. a = b
        BY Zenon, <4>1, SeqEqual
      <4>3. QED
        BY Zenon, <4>2 DEF a, b
    <3>3. QED
      BY Zenon, <3>1, <3>2 DEF ScanAt
  <2>3. QED
    BY <2>1, <2>2
<1>6. n + 2 = n + 1 + 1
  BY <1>1
<1>7. QED
  BY Zenon, <1>2, <1>3, <1>4, <1>5, <1>6 DEF ScanAt

LEMMA ScanLine ==
  ASSUME NEW Chars, Writable(Chars), NEW text, NEW c, c \in 0 .. 1,
         ScanAt(text, c, Chars), NEW line \in Seq(Plain(Chars)), line # << >>
  PROVE  ScanAt(text \o line, 0, Chars)
<1> DEFINE n == Len(line)
           part(k) == text \o SubSeq(line, 1, k)
           Holds(k) == \E d \in 0 .. 1 : ScanAt(part(k), d, Chars) /\ (k > 0 => d = 0)
           Held == {k \in 0 .. n : Holds(k)}
<1>1. text \in Seq(Chars) /\ line \in Seq(Chars) /\ n \in Nat /\ n > 0
  BY DEF ScanAt, Plain
<1>2. Holds(0)
  <2>1. SubSeq(line, 1, 0) = << >> /\ text \o << >> = text
    BY <1>1
  <2>2. part(0) = text
    BY Zenon, <2>1
  <2>3. ~ (0 > 0)
    OBVIOUS
  <2>4. QED
    BY Zenon, <2>2, <2>3
<1>3. ASSUME NEW k \in 0 .. n - 1, Holds(k)
      PROVE  Holds(k + 1)
  <2> DEFINE x == line[k + 1]
  <2>1. x \in Chars /\ x # "CR" /\ x # "LF"
    BY DEF Plain
  <2>2. part(k + 1) = Append(part(k), x)
    <3> DEFINE a == part(k + 1)
               b == Append(part(k), x)
    <3>1. SubSeq(line, 1, k) \in Seq(Chars) /\ SubSeq(line, 1, k + 1) \in Seq(Chars)
      BY <1>1
    <3>2. /\ Len(SubSeq(line, 1, k)) = k /\ Len(SubSeq(line, 1, k + 1)) = k + 1
          /\ \A i \in 1 .. k : SubSeq(line, 1, k)[i] = SubSeq(line, 1, k + 1)[i]
          /\ SubSeq(line, 1, k + 1)[k + 1] = x
      BY <1>1
    <3>3. /\ a \in Seq(Chars) /\ b \in Seq(Chars) /\ Len(a) = Len(b)
          /\ \A i \in 1 .. Len(a) : a[i] = b[i]
      BY <1>1, <2>1, <3>1, <3>2
    <3> HIDE DEF a, b
    <3>4. a = b
      BY Zenon, <3>3, SeqEqual
    <3>5. QED
      BY Zenon, <3>4 DEF a, b
  <2>3. PICK d \in 0 .. 1 : ScanAt(part(k), d, Chars)
    BY Zenon, <1>3
  <2> HIDE DEF part, x
  <2>4. ScanAt(Append(part(k), x), Count(d, x), Chars)
    BY Zenon, <2>1, <2>3, ScanChar
  <2>5. Count(d, x) = 0
    BY Zenon, <2>1 DEF Count
  <2>6. 0 \in 0 .. 1
    OBVIOUS
  <2>7. QED
    BY Zenon, <2>2, <2>4, <2>5, <2>6
<1> HIDE DEF Holds, part
<1>4. Holds(n)
  <2>1. 0 \in Held
    BY <1>1, <1>2
  <2>2. \A k \in 0 .. n - 1 : k \in Held => k + 1 \in Held
    BY <1>3
  <2> HIDE DEF Held
  <2>3. \A k \in 0 .. n : k \in Held
    BY <1>1, <2>1, <2>2, Induction
  <2>4. QED
    BY <1>1, <2>3 DEF Held
<1>5. part(n) = text \o line
  <2>1. SubSeq(line, 1, n) = line
    BY <1>1
  <2>2. QED
    BY Zenon, <2>1 DEF part
<1>6. QED
  BY Zenon, <1>1, <1>4, <1>5 DEF Holds

LEMMA ScanEnd ==
  ASSUME NEW Chars, Writable(Chars), NEW text, NEW c, c \in 0 .. 1,
         ScanAt(text, c, Chars), NEW end \in LineEnds
  PROVE  ScanAt(text \o end, c + 1, Chars)
<1>1. "CR" \in Chars /\ "LF" \in Chars /\ text \in Seq(Chars)
  BY DEF Writable, ScanAt
<1>2. Count(c, "CR") = c /\ Count(c, "LF") = c + 1
  BY DEF Count
<1>3. CASE end = << "LF" >>
  <2>1. text \o << "LF" >> = Append(text, "LF")
    <3> DEFINE a == text \o << "LF" >>
               b == Append(text, "LF")
    <3>1. /\ a \in Seq(Chars) /\ b \in Seq(Chars) /\ Len(a) = Len(b)
          /\ \A i \in 1 .. Len(a) : a[i] = b[i]
      BY <1>1
    <3> HIDE DEF a, b
    <3>2. a = b
      BY Zenon, <3>1, SeqEqual
    <3>3. QED
      BY Zenon, <3>2 DEF a, b
  <2>2. ScanAt(Append(text, "LF"), Count(c, "LF"), Chars)
    BY Zenon, <1>1, ScanChar
  <2>3. QED
    BY Zenon, <1>2, <1>3, <2>1, <2>2
<1>4. CASE end = << "CR", "LF" >>
  <2>1. text \o << "CR", "LF" >> = Append(Append(text, "CR"), "LF")
    <3> DEFINE a == text \o << "CR", "LF" >>
               b == Append(Append(text, "CR"), "LF")
    <3>1. /\ a \in Seq(Chars) /\ b \in Seq(Chars) /\ Len(a) = Len(b)
          /\ \A i \in 1 .. Len(a) : a[i] = b[i]
      BY <1>1
    <3> HIDE DEF a, b
    <3>2. a = b
      BY Zenon, <3>1, SeqEqual
    <3>3. QED
      BY Zenon, <3>2 DEF a, b
  <2>2. ScanAt(Append(text, "CR"), c, Chars)
    BY Zenon, <1>1, <1>2, ScanChar
  <2>3. ScanAt(Append(Append(text, "CR"), "LF"), Count(c, "LF"), Chars)
    BY Zenon, <1>1, <2>2, ScanChar
  <2>4. QED
    BY Zenon, <1>2, <1>4, <2>1, <2>3
<1>5. QED
  BY Zenon, <1>3, <1>4 DEF LineEnds

\* Lines of a header, with their ends.
Terminated(lines, end, Chars) ==
  /\ lines \in Seq(Seq(Chars))
  /\ \A i \in 1 .. Len(lines) :
       \E line \in Seq(Plain(Chars)) : line # << >> /\ lines[i] = line \o end

LEMMA EndWritable ==
  ASSUME NEW Chars, Writable(Chars), NEW end \in LineEnds
  PROVE  end \in Seq(Chars)
<1>1. "CR" \in Chars /\ "LF" \in Chars
  BY Zenon DEF Writable
<1>2. \A a, b \in Chars : << a >> \in Seq(Chars) /\ << a, b >> \in Seq(Chars)
  OBVIOUS
<1>3. QED
  BY Zenon, <1>1, <1>2 DEF LineEnds

LEMMA FirstLine ==
  ASSUME NEW Chars, Writable(Chars)
  PROVE  ScanAt(<< "m", " ", "u", "/", " ", "v" >>, 0, Chars)
<1>1. "m" \in Chars /\ " " \in Chars /\ "u" \in Chars /\ "/" \in Chars /\ "v" \in Chars
  BY Zenon DEF Writable
<1>a. PICK a \in Chars : a = "m"
  BY Zenon, <1>1
<1>b. PICK b \in Chars : b = " "
  BY Zenon, <1>1
<1>c. PICK c \in Chars : c = "u"
  BY Zenon, <1>1
<1>d. PICK d \in Chars : d = "/"
  BY Zenon, <1>1
<1>f. PICK f \in Chars : f = "v"
  BY Zenon, <1>1
<1> DEFINE five == << a, b, c, d, b >>
           six == << a, b, c, d, b, f >>
           more == Append(five, f)
<1>2. five \in Seq(Chars) /\ Len(five) = 5
  OBVIOUS
<1>3. six \in Seq(Chars) /\ Len(six) = 6
  OBVIOUS
<1>4. /\ five[1] = a /\ five[2] = b /\ five[3] = c /\ five[4] = d /\ five[5] = b
      /\ six[1] = a /\ six[2] = b /\ six[3] = c /\ six[4] = d /\ six[5] = b
      /\ six[6] = f
  OBVIOUS
<1> HIDE DEF five, six
<1>5. SubSeq(five, 1, 5) = five
  BY Zenon, <1>2, SubSeqFull
<1>6. /\ more \in Seq(Chars) /\ Len(more) = 6 /\ more[6] = f
      /\ \A k \in 0 .. 4 : more[k + 1] = five[k + 1]
  <2>1. Extends(more, five, Len(five), f)
    BY Zenon, <1>2, AppendExtends
  <2>2. more \in Seq(Chars)
    BY <1>2
  <2> HIDE DEF more
  <2>3. DOMAIN more = 1 .. 6 /\ more[6] = f
    BY <1>2, <2>1 DEF Extends
  <2>4. Len(more) = 6
    BY ONLY <2>2, <2>3
  <2>5. Len(five) - 1 = 4
    BY <1>2
  <2>6. QED
    BY Zenon, <2>1, <2>2, <2>3, <2>4, <2>5 DEF Extends
<1> HIDE DEF more
<1>7. more = six
  <2>1. /\ 0 \in 0 .. 4 /\ 1 \in 0 .. 4 /\ 2 \in 0 .. 4 /\ 3 \in 0 .. 4 /\ 4 \in 0 .. 4
        /\ 0 + 1 = 1 /\ 1 + 1 = 2 /\ 2 + 1 = 3 /\ 3 + 1 = 4 /\ 4 + 1 = 5
        /\ \A i \in 1 .. 6 : i = 1 \/ i = 2 \/ i = 3 \/ i = 4 \/ i = 5 \/ i = 6
    OBVIOUS
  <2>2. more[1] = five[1] /\ more[2] = five[2] /\ more[3] = five[3]
    BY Zenon, <1>6, <2>1
  <2>3. more[4] = five[4] /\ more[5] = five[5]
    BY Zenon, <1>6, <2>1
  <2>4. /\ more[1] = six[1] /\ more[2] = six[2] /\ more[3] = six[3]
        /\ more[4] = six[4] /\ more[5] = six[5] /\ more[6] = six[6]
    BY Zenon, <1>4, <1>6, <2>2, <2>3
  <2>5. Len(more) = Len(six) /\ \A i \in 1 .. Len(more) : more[i] = six[i]
    BY Zenon, <1>3, <1>6, <2>1, <2>4
  <2>6. QED
    BY Zenon, <1>3, <1>6, <2>5, SeqEqual
<1>8. Scan(five) = Searching(6, 0)
  BY Zenon, <1>2, ScanNothing
<1>9. ScanAt(five, 0, Chars)
  <2>1. 5 + 1 = 6 /\ 5 >= 5 /\ \A k \in 5 .. 5 : k = 5
    OBVIOUS
  <2>2. Searching(6, 0).p = 6
    BY DEF Searching
  <2>3. Starts(five)
    BY Zenon, <1>a, <1>b, <1>c, <1>d, <1>4 DEF Starts
  <2>4. QED
    BY Zenon, <1>2, <1>5, <1>8, <2>1, <2>2, <2>3 DEF ScanAt
<1>10. Count(0, f) = 0 /\ 0 \in 0 .. 1
  BY <1>f DEF Count
<1>11. ScanAt(six, 0, Chars)
  BY Zenon, <1>7, <1>9, <1>10, ScanChar DEF more
<1>12. six = << "m", " ", "u", "/", " ", "v" >>
  BY <1>a, <1>b, <1>c, <1>d, <1>f DEF six
<1>13. QED
  BY Zenon, <1>11, <1>12

LEMMA ScanLines ==
  ASSUME NEW Chars, Writable(Chars), NEW base, ScanAt(base, 1, Chars),
         NEW end \in LineEnds, NEW lines, Terminated(lines, end, Chars)
  PROVE  ScanAt(Joined(base, lines), 1, Chars)
<1> DEFINE n == Len(lines)
           part(k) == SubSeq(lines, 1, k)
           Holds(k) == ScanAt(Joined(base, part(k)), 1, Chars)
           Held == {k \in 0 .. n : Holds(k)}
<1>1. lines \in Seq(Seq(Chars)) /\ n \in Nat
  BY DEF Terminated
<1>2. Holds(0)
  <2>1. part(0) = << >>
    BY <1>1
  <2>2. QED
    BY Zenon, <2>1, JoinNothing
<1>3. ASSUME NEW k \in 0 .. n - 1, Holds(k)
      PROVE  Holds(k + 1)
  <2> DEFINE line == lines[k + 1]
             text == Joined(base, part(k))
  <2>1. /\ part(k) \in Seq(Seq(Chars)) /\ line \in Seq(Chars)
        /\ part(k + 1) = Append(part(k), line)
    <3>1. part(k) \in Seq(Seq(Chars)) /\ line \in Seq(Chars)
      BY <1>1
    <3> DEFINE a == part(k + 1)
               b == Append(part(k), line)
    <3>2. /\ a \in Seq(Seq(Chars)) /\ b \in Seq(Seq(Chars)) /\ Len(a) = Len(b)
          /\ \A i \in 1 .. Len(a) : a[i] = b[i]
      BY <1>1
    <3> HIDE DEF a, b
    <3>3. a = b
      BY Zenon, <3>2, SeqEqual
    <3>4. QED
      BY Zenon, <3>1, <3>3 DEF a, b
  <2>2. PICK first \in Seq(Plain(Chars)) : first # << >> /\ line = first \o end
    <3>1. k + 1 \in 1 .. n
      BY <1>1
    <3>2. QED
      BY Zenon, <3>1 DEF Terminated
  <2> HIDE DEF part, line
  <2>3. Joined(base, part(k + 1)) = text \o line
    BY <2>1, JoinOneMore
  <2>4. ScanAt(text, 1, Chars)
    BY Zenon, <1>3
  <2> HIDE DEF text
  <2>5. 1 \in 0 .. 1 /\ 0 \in 0 .. 1 /\ 0 + 1 = 1
    OBVIOUS
  <2>6. ScanAt(text \o first, 0, Chars)
    BY Zenon, <2>2, <2>4, <2>5, ScanLine
  <2>7. ScanAt((text \o first) \o end, 1, Chars)
    BY Zenon, <2>5, <2>6, ScanEnd
  <2>8. (text \o first) \o end = text \o line
    <3>1. text \in Seq(Chars) /\ first \in Seq(Chars) /\ end \in Seq(Chars)
      <4>1. text \in Seq(Chars) /\ end \in Seq(Chars)
        BY Zenon, <2>4, EndWritable DEF ScanAt
      <4>2. first \in Seq(Chars)
        BY DEF Plain
      <4>3. QED
        BY Zenon, <4>1, <4>2
    <3>2. QED
      BY <2>2, <3>1, ConcatAssociative
  <2>9. QED
    BY Zenon, <2>3, <2>7, <2>8
<1> HIDE DEF Holds
<1>4. Holds(n)
  <2>1. 0 \in Held
    BY <1>1, <1>2
  <2>2. \A k \in 0 .. n - 1 : k \in Held => k + 1 \in Held
    BY <1>3
  <2> HIDE DEF Held
  <2>3. \A k \in 0 .. n : k \in Held
    BY <1>1, <2>1, <2>2, Induction
  <2>4. QED
    BY <1>1, <2>3 DEF Held
<1>5. part(n) = lines
  BY <1>1
<1>6. QED
  BY Zenon, <1>4, <1>5 DEF Holds

IsRequest(request, Chars) ==
  /\ request.lineEnd \in LineEnds
  /\ request.headers \in Seq(Seq(Plain(Chars)) \ {<< >>})
  /\ request.body \in Seq(Chars)

LEMMA HeadScanned ==
  ASSUME NEW Chars, Writable(Chars), NEW request, IsRequest(request, Chars)
  PROVE  ScanAt(HeadOf(request), 2, Chars)
<1> DEFINE end == request.lineEnd
           lines == [i \in DOMAIN request.headers |-> request.headers[i] \o end]
           six == << "m", " ", "u", "/", " ", "v" >>
           base == six \o end
<1>1. HeadOf(request) = Joined(base, lines) \o end
  BY Zenon DEF HeadOf, Joined
<1>2. /\ end \in LineEnds /\ request.headers \in Seq(Seq(Plain(Chars)) \ {<< >>})
  BY Zenon DEF IsRequest
<1>3. end \in Seq(Chars)
  BY Zenon, <1>2, EndWritable
<1>4. Terminated(lines, end, Chars)
  <2> DEFINE headers == request.headers
  <2>1. /\ DOMAIN headers = 1 .. Len(headers) /\ Len(headers) \in Nat
        /\ \A i \in 1 .. Len(headers) : headers[i] \in Seq(Plain(Chars)) \ {<< >>}
    BY <1>2
  <2> HIDE DEF headers
  <2>2. lines = [i \in 1 .. Len(headers) |-> headers[i] \o end]
    BY Zenon, <2>1 DEF headers
  <2> HIDE DEF lines, end
  <2>3. \A i \in 1 .. Len(headers) : headers[i] \in Seq(Chars)
    BY <2>1 DEF Plain
  <2>4. lines \in Seq(Seq(Chars)) /\ Len(lines) = Len(headers)
    <3>1. \A i \in 1 .. Len(headers) : headers[i] \o end \in Seq(Chars)
      BY <1>3, <2>3
    <3> DEFINE both(i) == headers[i] \o end
    <3> HIDE DEF both
    <3>2. lines = [i \in 1 .. Len(headers) |-> both(i)]
      BY Zenon, <2>2 DEF both
    <3>3. \A i \in 1 .. Len(headers) : both(i) \in Seq(Chars)
      BY Zenon, <3>1 DEF both
    <3>4. QED
      BY <2>1, <3>2, <3>3
  <2>5. \A i \in 1 .. Len(lines) :
          headers[i] \in Seq(Plain(Chars)) /\ headers[i] # << >> /\ lines[i] = headers[i] \o end
    BY <2>1, <2>2, <2>4
  <2>6. QED
    BY Zenon, <2>4, <2>5 DEF Terminated
<1> HIDE DEF lines, end
<1>7. ScanAt(six, 0, Chars)
  BY Zenon, FirstLine
<1>8. 0 \in 0 .. 1 /\ 1 \in 0 .. 1 /\ 0 + 1 = 1 /\ 1 + 1 = 2
  OBVIOUS
<1>9. ScanAt(base, 1, Chars)
  BY Zenon, <1>2, <1>7, <1>8, ScanEnd
<1> HIDE DEF base
<1>10. ScanAt(Joined(base, lines), 1, Chars)
  BY Zenon, <1>2, <1>4, <1>9, ScanLines
<1>11. ScanAt(Joined(base, lines) \o end, 2, Chars)
  BY Zenon, <1>2, <1>8, <1>10, ScanEnd
<1>12. QED
  BY Zenon, <1>1, <1>11

\* Where the search for the body ends in the first k characters of a request
\* whose head is that long.
EndOfSearch(k, head) == IF k < head THEN k + 1 ELSE head + 1

LEMMA Beginnings ==
  ASSUME NEW S, NEW text \in Seq(S), NEW k \in 0 .. Len(text) - 1
  PROVE  /\ SubSeq(text, 1, k) \in Seq(S) /\ Len(SubSeq(text, 1, k)) = k
         /\ text[k + 1] \in S
         /\ SubSeq(text, 1, k + 1) = Append(SubSeq(text, 1, k), text[k + 1])
<1> DEFINE a == SubSeq(text, 1, k + 1)
           b == Append(SubSeq(text, 1, k), text[k + 1])
<1>1. /\ SubSeq(text, 1, k) \in Seq(S) /\ Len(SubSeq(text, 1, k)) = k
      /\ text[k + 1] \in S
  OBVIOUS
<1>2. \A i \in 1 .. k : SubSeq(text, 1, k)[i] = text[i]
  OBVIOUS
<1>3. /\ a \in Seq(S) /\ b \in Seq(S) /\ Len(a) = Len(b)
      /\ \A i \in 1 .. Len(a) : a[i] = b[i]
  BY <1>1, <1>2
<1> HIDE DEF a, b
<1>4. a = b
  BY Zenon, <1>3, SeqEqual
<1>5. QED
  BY Zenon, <1>1, <1>4 DEF a, b

LEMMA AppendBehind ==
  ASSUME NEW S, NEW head \in Seq(S), NEW body \in Seq(S), NEW x \in S
  PROVE  head \o Append(body, x) = Append(head \o body, x)
<1>1. << x >> \in Seq(S) /\ head \o body \in Seq(S)
  OBVIOUS
<1>2. /\ Append(body, x) = body \o << x >>
      /\ Append(head \o body, x) = (head \o body) \o << x >>
  BY <1>1, AppendIsConcat
<1>3. (head \o body) \o << x >> = head \o (body \o << x >>)
  BY <1>1, ConcatAssociative
<1>4. QED
  BY Zenon, <1>2, <1>3

LEMMA BodyScanned ==
  ASSUME NEW Chars, NEW head, ScanAt(head, 2, Chars), NEW body \in Seq(Chars)
  PROVE  \A k \in 0 .. Len(body) :
           Scan(head \o SubSeq(body, 1, k)) = Searching(Len(head) + 1, 2)
<1> DEFINE n == Len(body)
           part(k) == head \o SubSeq(body, 1, k)
           Holds(k) == Scan(part(k)) = Searching(Len(head) + 1, 2)
           Held == {k \in 0 .. n : Holds(k)}
<1>1. head \in Seq(Chars) /\ Len(head) >= 5 /\ Len(head) \in Nat /\ n \in Nat
  BY DEF ScanAt
<1>2. Holds(0)
  <2>1. SubSeq(body, 1, 0) = << >> /\ head \o << >> = head
    BY <1>1
  <2>2. part(0) = head
    BY Zenon, <2>1
  <2>3. QED
    BY Zenon, <2>2 DEF ScanAt
<1>3. ASSUME NEW k \in 0 .. n - 1, Holds(k)
      PROVE  Holds(k + 1)
  <2> DEFINE x == body[k + 1]
  <2>1. /\ SubSeq(body, 1, k) \in Seq(Chars) /\ x \in Chars
        /\ SubSeq(body, 1, k + 1) = Append(SubSeq(body, 1, k), x)
    BY Zenon, Beginnings
  <2> HIDE DEF x
  <2>2. part(k + 1) = Append(part(k), x)
    <3> DEFINE b == SubSeq(body, 1, k)
    <3>1. b \in Seq(Chars) /\ part(k + 1) = head \o Append(b, x)
      BY Zenon, <2>1
    <3> HIDE DEF b
    <3>2. head \in Seq(Chars) /\ x \in Chars
      BY Zenon, <1>1, <2>1
    <3>3. head \o Append(b, x) = Append(head \o b, x)
      BY ONLY <3>1, <3>2, AppendBehind
    <3>4. QED
      BY Zenon, <3>1, <3>3 DEF b
  <2>3. part(k) \in Seq(Chars) /\ Len(part(k)) >= 5
    BY <1>1, <2>1
  <2> HIDE DEF part
  <2>4. Scan(Append(part(k), x)) = CountLineFeeds(Scan(part(k)), x)
    BY <2>1, <2>3, ScanOneMore
  <2>5. CountLineFeeds(Searching(Len(head) + 1, 2), x) = Searching(Len(head) + 1, 2)
    BY DEF CountLineFeeds, Searching
  <2>6. QED
    BY Zenon, <1>3, <2>2, <2>4, <2>5
<1> HIDE DEF Holds
<1>4. \A k \in 0 .. n : Holds(k)
  <2>1. 0 \in Held
    BY <1>1, <1>2
  <2>2. \A k \in 0 .. n - 1 : k \in Held => k + 1 \in Held
    BY <1>3
  <2> HIDE DEF Held
  <2>3. \A k \in 0 .. n : k \in Held
    BY <1>1, <2>1, <2>2, Induction
  <2>4. QED
    BY <2>3 DEF Held
<1>5. QED
  BY Zenon, <1>4 DEF Holds

LEMMA WholeScanned ==
  ASSUME NEW Chars, NEW head, ScanAt(head, 2, Chars), NEW body \in Seq(Chars),
         NEW k \in 5 .. Len(head \o body)
  PROVE  Scan(SubSeq(head \o body, 1, k)).p = EndOfSearch(k, Len(head))
<1> DEFINE whole == head \o body
           n == Len(head)
           text == SubSeq(whole, 1, k)
<1>1. head \in Seq(Chars) /\ n >= 5 /\ n \in Nat
  BY DEF ScanAt
<1>2. Len(whole) = n + Len(body) /\ whole \in Seq(Chars)
  BY <1>1
<1>3. /\ text \in Seq(Chars) /\ Len(text) = k
      /\ \A i \in 1 .. k : text[i] = IF i <= n THEN head[i] ELSE body[i - n]
  BY <1>1, <1>2
<1> HIDE DEF text
<1>4. CASE k <= n
  <2> DEFINE begun == SubSeq(head, 1, k)
  <2>1. begun \in Seq(Chars) /\ Len(begun) = k /\ \A i \in 1 .. k : begun[i] = head[i]
    BY <1>1, <1>4
  <2> HIDE DEF begun
  <2>2. \A i \in 1 .. Len(text) : text[i] = begun[i]
    BY <1>1, <1>3, <1>4, <2>1
  <2>3. text = begun
    BY Zenon, <1>3, <2>1, <2>2, SeqEqual
  <2>4. k \in 5 .. n
    BY <1>1, <1>4
  <2>5. Scan(begun).p = k + 1
    BY Zenon, <2>4 DEF ScanAt, begun
  <2>6. k + 1 = EndOfSearch(k, n)
    BY <1>1, <1>4 DEF EndOfSearch
  <2>7. QED
    BY Zenon, <2>3, <2>5, <2>6 DEF text
<1>5. CASE k > n
  <2> DEFINE begun == SubSeq(body, 1, k - n)
             both == head \o begun
  <2>1. k - n \in 0 .. Len(body)
    BY <1>1, <1>2, <1>5
  <2>2. /\ begun \in Seq(Chars) /\ Len(begun) = k - n
        /\ \A i \in 1 .. k - n : begun[i] = body[i]
    BY <2>1
  <2> HIDE DEF begun
  <2>3. /\ both \in Seq(Chars) /\ Len(both) = k
        /\ \A i \in 1 .. k : both[i] = IF i <= n THEN head[i] ELSE begun[i - n]
    BY <1>1, <2>1, <2>2
  <2> HIDE DEF both
  <2>4. \A i \in 1 .. k : i <= n \/ i - n \in 1 .. k - n
    BY <1>1
  <2>5. \A i \in 1 .. k : text[i] = both[i]
    BY <1>3, <2>2, <2>3, <2>4
  <2>6. text = both
    BY Zenon, <1>3, <2>3, <2>5, SeqEqual
  <2>7. Scan(both) = Searching(n + 1, 2)
    BY Zenon, <2>1, BodyScanned DEF begun, both
  <2>8. Searching(n + 1, 2).p = EndOfSearch(k, n)
    BY <1>1, <1>5 DEF Searching, EndOfSearch
  <2>9. QED
    BY Zenon, <2>6, <2>7, <2>8 DEF text
<1>6. QED
  BY <1>1, <1>4, <1>5

LEMMA WholeOfText ==
  ASSUME NEW Chars, "NUL" \notin Chars, NEW text \in Seq(Chars), NEW from \in Nat \ {0}
  PROVE  CString(text, from) = SubSeq(text, from, Len(text))
<1>1. \A k \in from .. Len(text) : text[k] \in Chars
  OBVIOUS
<1>2. Places(text, "NUL", from) = {}
  BY Zenon, <1>1 DEF Places
<1>3. QED
  BY Zenon, <1>2 DEF CString

LEMMA LeastIs ==
  ASSUME NEW places \in SUBSET Nat, NEW k \in places, \A other \in places : k <= other
  PROVE  Least(places) = k
<1>1. \E j \in places : \A other \in places : j <= other
  OBVIOUS
<1>2. Least(places) \in places /\ \A other \in places : Least(places) <= other
  BY Zenon, <1>1 DEF Least
<1>3. Least(places) <= k /\ k <= Least(places)
  BY Zenon, <1>2
<1>4. \A i, j \in Nat : i <= j /\ j <= i => i = j
  OBVIOUS
<1>5. k \in Nat /\ Least(places) \in Nat
  BY Zenon, <1>2
<1>6. QED
  BY Zenon, <1>3, <1>4, <1>5

LEMMA ShortSubSeqs ==
  ASSUME NEW S, NEW text \in Seq(S)
  PROVE  /\ Len(text) = 1 => SubSeq(text, 1, 1) = << text[1] >>
         /\ Len(text) = 4 => SubSeq(text, 3, 4) = << text[3], text[4] >>
<1>1. ASSUME Len(text) = 1
      PROVE  SubSeq(text, 1, 1) = << text[1] >>
  <2>1. text[1] \in S
    BY <1>1
  <2> DEFINE a == SubSeq(text, 1, 1)
             b == << text[1] >>
  <2>2. /\ a \in Seq(S) /\ b \in Seq(S) /\ Len(a) = 1 /\ Len(b) = 1
        /\ a[1] = text[1] /\ b[1] = text[1]
    BY <1>1, <2>1
  <2>3. \A i \in 1 .. 1 : i = 1
    OBVIOUS
  <2> HIDE DEF a, b
  <2>4. \A i \in 1 .. Len(a) : a[i] = b[i]
    BY Zenon, <2>2, <2>3
  <2>5. a = b
    BY Zenon, <2>2, <2>4, SeqEqual
  <2>6. QED
    BY Zenon, <2>5 DEF a, b
<1>2. ASSUME Len(text) = 4
      PROVE  SubSeq(text, 3, 4) = << text[3], text[4] >>
  <2>1. text[3] \in S /\ text[4] \in S
    BY <1>2
  <2> DEFINE a == SubSeq(text, 3, 4)
             b == << text[3], text[4] >>
  <2>2. /\ a \in Seq(S) /\ b \in Seq(S) /\ Len(a) = 2 /\ Len(b) = 2
        /\ a[1] = text[3] /\ b[1] = text[3] /\ a[2] = text[4] /\ b[2] = text[4]
    BY <1>2, <2>1
  <2>3. \A i \in 1 .. 2 : i = 1 \/ i = 2
    OBVIOUS
  <2> HIDE DEF a, b
  <2>4. \A i \in 1 .. Len(a) : a[i] = b[i]
    BY Zenon, <2>2, <2>3
  <2>5. a = b
    BY Zenon, <2>2, <2>4, SeqEqual
  <2>6. QED
    BY Zenon, <2>5 DEF a, b
<1>3. QED
  BY <1>1, <1>2

LEMMA RequestFound ==
  ASSUME NEW Chars, "NUL" \notin Chars, NEW text \in Seq(Chars), Len(text) >= 5,
         Starts(text), Scan(text).p \in Nat \ {0}
  PROVE  Request(text) = [method |-> << "m" >>, url |-> << "u", "/" >>,
                          body |-> SubSeq(text, Scan(text).p, Len(text))]
<1> DEFINE spaces == Places(text, " ", 1)
           n == Len(text)
           start == SubSeq(text, 1, 1)
           line == SubSeq(text, 1, 4)
<1>1. n \in Nat
  OBVIOUS
<1>2. /\ spaces \in SUBSET (1 .. n) /\ spaces \in SUBSET Nat
      /\ 2 \in spaces /\ 5 \in spaces /\ 1 \notin spaces /\ 3 \notin spaces /\ 4 \notin spaces
  <2>1. 1 \in 1 .. n /\ 2 \in 1 .. n /\ 3 \in 1 .. n /\ 4 \in 1 .. n /\ 5 \in 1 .. n
    BY <1>1
  <2>2. text[1] # " " /\ text[2] = " " /\ text[3] # " " /\ text[4] # " " /\ text[5] = " "
    BY Zenon DEF Starts
  <2>3. 1 .. n \subseteq Nat
    OBVIOUS
  <2>4. QED
    BY Zenon, <2>1, <2>2, <2>3 DEF Places
<1> HIDE DEF spaces
<1>3. Least(spaces) = 2
  <2>1. \A other \in spaces : 2 <= other
    BY <1>1, <1>2
  <2>2. QED
    BY Zenon, <1>2, <2>1, LeastIs
<1>4. Least(spaces \ {2}) = 5
  <2>1. \A other \in spaces \ {2} : 5 <= other
    BY <1>1, <1>2
  <2>2. 5 \in spaces \ {2} /\ spaces \ {2} \in SUBSET Nat
    BY <1>2
  <2>3. QED
    BY Zenon, <2>1, <2>2, LeastIs
<1>5. ~ Cardinality(spaces) < 2
  <2>1. IsFiniteSet(spaces)
    <3>1. IsFiniteSet(1 .. n)
      BY <1>1, FS_Interval
    <3>2. QED
      BY Zenon, <1>2, <3>1, FS_Subset
  <2>2. Cardinality({2}) = 1 /\ IsFiniteSet({2})
    BY FS_Singleton
  <2>3. Cardinality({2} \cup {5}) = 2 /\ {2} \cup {5} \in SUBSET spaces
    <3>1. 5 \notin {2} /\ {2} \cup {5} \in SUBSET spaces
      BY <1>2
    <3>2. Cardinality({2} \cup {5}) = 1 + 1
      BY Zenon, <2>2, <3>1, FS_AddElement
    <3>3. 1 + 1 = 2
      OBVIOUS
    <3>4. QED
      BY Zenon, <3>1, <3>2, <3>3
  <2>4. 2 <= Cardinality(spaces)
    BY <2>1, <2>3, FS_Subset
  <2>5. Cardinality(spaces) \in Nat
    BY <2>1, FS_CardinalityType
  <2> DEFINE size == Cardinality(spaces)
  <2> HIDE DEF size
  <2>6. 2 <= size /\ size \in Nat
    BY Zenon, <2>4, <2>5 DEF size
  <2>7. ~ size < 2
    BY <2>6
  <2>8. QED
    BY Zenon, <2>7 DEF size
<1>6. CString(start, 1) = << "m" >>
  <2>1. start \in Seq(Chars) /\ Len(start) = 1 /\ start[1] = text[1]
    OBVIOUS
  <2> HIDE DEF start
  <2>2. 1 \in Nat \ {0}
    OBVIOUS
  <2>3. CString(start, 1) = SubSeq(start, 1, 1)
    BY Zenon, <2>1, <2>2, WholeOfText
  <2>4. SubSeq(start, 1, 1) = << text[1] >>
    <3>1. \A S : \A one \in Seq(S) : Len(one) = 1 => SubSeq(one, 1, 1) = << one[1] >>
      BY ShortSubSeqs
    <3>2. QED
      BY Zenon, <2>1, <3>1
  <2>5. QED
    BY Zenon, <2>3, <2>4 DEF Starts
<1>7. CString(line, 3) = << "u", "/" >>
  <2>1. line \in Seq(Chars) /\ Len(line) = 4 /\ line[3] = text[3] /\ line[4] = text[4]
    OBVIOUS
  <2> HIDE DEF line
  <2>2. 3 \in Nat \ {0}
    OBVIOUS
  <2>3. CString(line, 3) = SubSeq(line, 3, 4)
    BY Zenon, <2>1, <2>2, WholeOfText
  <2>4. SubSeq(line, 3, 4) = << text[3], text[4] >>
    <3>1. \A S : \A four \in Seq(S) : Len(four) = 4 => SubSeq(four, 3, 4) = << four[3], four[4] >>
      BY ShortSubSeqs
    <3>2. QED
      BY Zenon, <2>1, <3>1
  <2>5. QED
    BY Zenon, <2>3, <2>4 DEF Starts
<1>8. CString(text, BodyStart(text, 6)) = SubSeq(text, Scan(text).p, n)
  <2>1. BodyStart(text, 6) = Scan(text).p
    BY Zenon DEF BodyStart, Scan, Scanned, Searching
  <2>2. QED
    BY Zenon, <2>1, WholeOfText
<1>9. 2 - 1 = 1 /\ 5 - 1 = 4 /\ 2 + 1 = 3 /\ 5 + 1 = 6
  OBVIOUS
<1> HIDE DEF n, start, line
<1>10. Request(text) = [method |-> CString(SubSeq(text, 1, 1), 1),
                        url    |-> CString(SubSeq(text, 1, 4), 3),
                        body   |-> CString(text, BodyStart(text, 6))]
  BY Zenon, <1>3, <1>4, <1>5, <1>9 DEF Request, spaces
<1>11. QED
  BY Zenon, <1>6, <1>7, <1>8, <1>10 DEF n, start, line

LEMMA NothingFound ==
  ASSUME NEW Chars, NEW text \in Seq(Chars), Len(text) < 5,
         \A k \in 1 .. Len(text) : text[k] = " " => k = 2
  PROVE  Request(text) = Overrun
<1> DEFINE spaces == Places(text, " ", 1)
<1>1. spaces \in SUBSET {2}
  BY Zenon DEF Places
<1> HIDE DEF spaces
<1>2. Cardinality({2}) = 1 /\ IsFiniteSet({2})
  BY FS_Singleton
<1>3. Cardinality(spaces) <= 1 /\ Cardinality(spaces) \in Nat
  BY <1>1, <1>2, FS_Subset, FS_CardinalityType
<1> DEFINE size == Cardinality(spaces)
<1> HIDE DEF size
<1>4. size <= 1 /\ size \in Nat
  BY Zenon, <1>3 DEF size
<1>5. size < 2
  BY ONLY <1>4
<1>6. QED
  BY Zenon, <1>5 DEF Request, spaces, size

(***************************************************************************)
(* Whatever the characters, lines and body of a request are and wherever   *)
(* it is cut, _onTCPData finds in the beginning what it finds in the whole.*)
(***************************************************************************)
LEMMA BeginningFound ==
  ASSUME NEW Chars, Writable(Chars), NEW request, IsRequest(request, Chars),
         NEW cut \in Nat, cut <= Len(HeadOf(request) \o request.body)
  PROVE  Request(SubSeq(HeadOf(request) \o request.body, 1, cut)) =
           IF cut < 5 THEN Overrun
           ELSE [method |-> << "m" >>, url |-> << "u", "/" >>,
                 body |-> SubSeq(HeadOf(request) \o request.body,
                                 Len(HeadOf(request)) + 1, cut)]
<1> DEFINE head == HeadOf(request)
           body == request.body
           whole == head \o body
           n == Len(head)
           text == SubSeq(whole, 1, cut)
<1>1. ScanAt(head, 2, Chars)
  BY Zenon, HeadScanned
<1>2. body \in Seq(Chars) /\ "NUL" \notin Chars
  BY Zenon DEF IsRequest, Writable
<1> HIDE DEF head, body
<1>3. head \in Seq(Chars) /\ n >= 5 /\ n \in Nat /\ Starts(head)
  BY <1>1 DEF ScanAt
<1>4. /\ whole \in Seq(Chars) /\ Len(whole) >= n /\ Len(whole) \in Nat
      /\ \A i \in 1 .. n : whole[i] = head[i]
  BY <1>2, <1>3
<1>5. cut <= Len(whole)
  BY Zenon DEF head, body
<1> HIDE DEF whole
<1>6. /\ text \in Seq(Chars) /\ Len(text) = cut
      /\ \A i \in 1 .. cut : text[i] = whole[i]
  BY <1>4, <1>5
<1> HIDE DEF n
<1>7. CASE cut < 5
  <2>1. \A i \in 1 .. cut : (i = 1 \/ i = 2 \/ i = 3 \/ i = 4) /\ i \in 1 .. n
    BY <1>3, <1>7
  <2>2. head[1] # " " /\ head[3] # " " /\ head[4] # " "
    BY Zenon, <1>3 DEF Starts
  <2>3. \A i \in 1 .. cut : text[i] = " " => i = 2
    BY Zenon, <1>4, <1>6, <2>1, <2>2
  <2> HIDE DEF text
  <2>4. Request(text) = Overrun
    BY Zenon, <1>6, <1>7, <2>3, NothingFound
  <2>5. QED
    BY Zenon, <1>7, <2>4 DEF text, whole, head, body, n
<1>8. CASE ~ cut < 5
  <2> DEFINE p == EndOfSearch(cut, n)
  <2>1. cut \in 5 .. Len(whole)
    BY <1>4, <1>5, <1>8
  <2>2. Scan(text).p = p
    BY Zenon, <1>1, <1>2, <2>1, WholeScanned DEF whole, n
  <2>3. p \in Nat \ {0}
    BY <1>3 DEF EndOfSearch
  <2>4. Starts(text)
    <3>1. /\ 1 \in 1 .. n /\ 2 \in 1 .. n /\ 3 \in 1 .. n /\ 4 \in 1 .. n /\ 5 \in 1 .. n
          /\ 1 \in 1 .. cut /\ 2 \in 1 .. cut /\ 3 \in 1 .. cut /\ 4 \in 1 .. cut
          /\ 5 \in 1 .. cut
      BY <1>3, <2>1
    <3> HIDE DEF text
    <3>2. \A i \in 1 .. n : i \in 1 .. cut => text[i] = head[i]
      BY Zenon, <1>4, <1>6
    <3>3. /\ text[1] = head[1] /\ text[2] = head[2] /\ text[3] = head[3]
          /\ text[4] = head[4] /\ text[5] = head[5]
      BY Zenon, <3>1, <3>2
    <3>4. QED
      BY Zenon, <1>3, <3>3 DEF Starts
  <2>5. SubSeq(text, p, cut) = SubSeq(whole, n + 1, cut)
    <3>1. CASE cut <= n
      <4>1. p = cut + 1 /\ cut < n + 1 /\ p \in Nat /\ n + 1 \in Nat
        BY <1>3, <1>6, <3>1 DEF EndOfSearch
      <4> HIDE DEF p, text
      <4>2. SubSeq(text, p, cut) = << >>
        BY <1>6, <4>1
      <4>3. SubSeq(whole, n + 1, cut) = << >>
        BY <1>4, <1>5, <4>1
      <4>4. QED
        BY Zenon, <4>2, <4>3
    <3>2. CASE cut > n
      <4>1. p = n + 1
        BY <1>3, <3>2 DEF EndOfSearch
      <4> DEFINE a == SubSeq(text, n + 1, cut)
                 b == SubSeq(whole, n + 1, cut)
      <4> HIDE DEF text, p
      <4>2. a \in Seq(Chars) /\ Len(a) = cut - n /\ \A i \in 1 .. cut - n : a[i] = text[n + i]
        BY <1>3, <1>6, <3>2
      <4>3. b \in Seq(Chars) /\ Len(b) = cut - n /\ \A i \in 1 .. cut - n : b[i] = whole[n + i]
        BY <1>3, <1>4, <1>5, <3>2
      <4> HIDE DEF a, b
      <4>4. \A i \in 1 .. cut - n : n + i \in 1 .. cut
        BY <1>3
      <4>5. \A i \in 1 .. Len(a) : a[i] = b[i]
        BY Zenon, <1>6, <4>2, <4>3, <4>4
      <4>6. a = b
        BY Zenon, <4>2, <4>3, <4>5, SeqEqual
      <4>7. QED
        BY Zenon, <4>1, <4>6 DEF a, b
    <3>3. cut <= n \/ cut > n
      BY <1>3
    <3>4. QED
      BY Zenon, <3>1, <3>2, <3>3
  <2> HIDE DEF text, p
  <2>6. Len(text) >= 5
    BY <1>6, <2>1
  <2>7. Request(text) = [method |-> << "m" >>, url |-> << "u", "/" >>,
                         body |-> SubSeq(text, p, cut)]
    BY Zenon, <1>2, <1>6, <2>2, <2>3, <2>4, <2>6, RequestFound
  <2>8. QED
    BY Zenon, <1>8, <2>5, <2>7 DEF text, whole, head, body, n
<1>9. QED
  BY Zenon, <1>7, <1>8

RequestChars == {"m", " ", "u", "/", "v", "h", "b", "CR", "LF"}

LEMMA ShortLists ==
  ASSUME NEW S, NEW T, S \subseteq T
  PROVE  {<< >>} \cup {<< l >> : l \in S} \cup {<< l, m >> : l, m \in S} \subseteq Seq(T)
<1> DEFINE Ones == {<< l >> : l \in S}
           Twos == {<< l, m >> : l, m \in S}
<1>1. \A list \in Ones : \E l \in S : list = << l >>
  OBVIOUS
<1>2. \A list \in Twos : \E l \in S : \E m \in S : list = << l, m >>
  OBVIOUS
<1>3. << >> \in Seq(T) /\ \A l \in T : << l >> \in Seq(T)
  OBVIOUS
<1>4. \A l, m \in T : << l, m >> \in Seq(T)
  OBVIOUS
<1> HIDE DEF Ones, Twos
<1>5. Ones \subseteq Seq(T)
  BY Zenon, <1>1, <1>3
<1>6. Twos \subseteq Seq(T)
  BY Zenon, <1>2, <1>4
<1>7. {<< >>} \cup Ones \cup Twos \subseteq Seq(T)
  BY Zenon, <1>3, <1>5, <1>6
<1>8. QED
  BY <1>7 DEF Ones, Twos

LEMMA RequestTyped ==
  Spec => [](sample.kind = "request" => IsRequest(sample, RequestChars) /\ sample.cut \in Nat)
<1> DEFINE Typed == sample.kind = "request" => IsRequest(sample, RequestChars) /\ sample.cut \in Nat
<1>1. ASSUME NEW s \in Samples, s.kind = "request"
      PROVE  IsRequest(s, RequestChars) /\ s.cut \in Nat
  <2>1. /\ s.lineEnd \in LineEnds /\ s.headers \in HeaderLists /\ s.body \in Bodies
        /\ s.cut \in 0 .. 26
    BY <1>1 DEF Samples
  <2>2. s.headers \in Seq(Seq(Plain(RequestChars)) \ {<< >>})
    <3> DEFINE Words == Seq(Plain(RequestChars)) \ {<< >>}
    <3>1. "h" \in Plain(RequestChars) /\ " " \in Plain(RequestChars) /\ "v" \in Plain(RequestChars)
      BY Zenon DEF Plain, RequestChars
    <3>2. Lines \subseteq Words
      <4>1. PICK h \in Plain(RequestChars) : h = "h"
        BY Zenon, <3>1
      <4>2. PICK space \in Plain(RequestChars) : space = " "
        BY Zenon, <3>1
      <4>3. PICK v \in Plain(RequestChars) : v = "v"
        BY Zenon, <3>1
      <4>4. << h >> \in Words /\ << h, space, v >> \in Words
        OBVIOUS
      <4>5. << "h" >> \in Words /\ << "h", " ", "v" >> \in Words
        BY Zenon, <4>1, <4>2, <4>3, <4>4
      <4> HIDE DEF Words
      <4>6. QED
        BY Zenon, <4>5 DEF Lines
    <3> HIDE DEF Words
    <3>3. HeaderLists \subseteq Seq(Words)
      BY ONLY <3>2, ShortLists DEF HeaderLists
    <3>4. QED
      BY Zenon, <2>1, <3>3 DEF Words
  <2>3. s.body \in Seq(RequestChars)
    <3>1. BodyChars \subseteq RequestChars
      BY Zenon DEF BodyChars, RequestChars
    <3>2. \A S : \A n \in 1 .. 2 : [1 .. n -> S] \subseteq Seq(S)
      OBVIOUS
    <3>3. Bodies \subseteq Seq(BodyChars)
      <4>1. 1 \in 1 .. 2 /\ 2 \in 1 .. 2 /\ << >> \in Seq(BodyChars)
        OBVIOUS
      <4>2. QED
        BY Zenon, <3>2, <4>1 DEF Bodies
    <3>4. Seq(BodyChars) \subseteq Seq(RequestChars)
      BY <3>1
    <3>5. QED
      BY Zenon, <2>1, <3>3, <3>4
  <2>4. s.cut \in Nat
    BY <2>1
  <2>5. QED
    BY Zenon, <2>1, <2>2, <2>3, <2>4 DEF IsRequest
<1>2. Init => Typed
  BY DEF Init
<1>3. Typed /\ [Next]_sample => Typed'
  <2> SUFFICES ASSUME Typed, [Next]_sample PROVE Typed'
    OBVIOUS
  <2>1. CASE sample' \in Samples
    BY Zenon, <1>1, <2>1
  <2>2. CASE sample' = [kind |-> "none"]
    BY <2>2
  <2>3. CASE UNCHANGED sample
    BY Zenon, <2>3
  <2>4. QED
    BY Zenon, <2>1, <2>2, <2>3 DEF Next
<1>4. QED
  BY <1>2, <1>3, PTL DEF Spec

(***************************************************************************)
(* _onTCPData finds method, url and body of a request whatever its lines,  *)
(* its line ends and its body are, and of one that recv returned only the  *)
(* beginning of, the same method and url and what is there of the body; it *)
(* runs on behind the text exactly if the cut is not behind the url        *)
(* (fauxmoLINUX.cpp:420-447).  This is so for any characters but NUL, any  *)
(* header lines that are not empty and any body, the run's among them.     *)
(***************************************************************************)
THEOREM BeginningsRead ==
  /\ \A Chars, request : Writable(Chars) /\ IsRequest(request, Chars) =>
       \A cut \in 0 .. Len(HeadOf(request) \o request.body) :
         Request(SubSeq(HeadOf(request) \o request.body, 1, cut)) =
           IF cut < 5 THEN Overrun
           ELSE [method |-> << "m" >>, url |-> << "u", "/" >>,
                 body |-> SubSeq(HeadOf(request) \o request.body,
                                 Len(HeadOf(request)) + 1, cut)]
  /\ Spec => []CutRequestsAreBeginnings
<1>1. (sample.kind = "request" => IsRequest(sample, RequestChars) /\ sample.cut \in Nat)
        => CutRequestsAreBeginnings
  <2>1. Writable(RequestChars)
    BY Zenon DEF Writable, RequestChars
  <2>2. QED
    BY Zenon, <2>1, BeginningFound DEF CutRequestsAreBeginnings
<1>2. Spec => []CutRequestsAreBeginnings
  BY <1>1, RequestTyped, PTL
<1>3. ASSUME NEW Chars, NEW request, Writable(Chars), IsRequest(request, Chars),
             NEW cut \in 0 .. Len(HeadOf(request) \o request.body)
      PROVE  Request(SubSeq(HeadOf(request) \o request.body, 1, cut)) =
               IF cut < 5 THEN Overrun
               ELSE [method |-> << "m" >>, url |-> << "u", "/" >>,
                     body |-> SubSeq(HeadOf(request) \o request.body,
                                     Len(HeadOf(request)) + 1, cut)]
  <2>1. cut \in Nat /\ cut <= Len(HeadOf(request) \o request.body)
    BY <1>3
  <2>2. QED
    BY Zenon, <1>3, <2>1, BeginningFound
<1>4. QED
  BY Zenon, <1>2, <1>3
=============================================================================
