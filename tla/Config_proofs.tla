--------------------------- MODULE Config_proofs ---------------------------
(* Theorems about Config, and their proofs.                                *)
EXTENDS Config, FiniteSetTheorems, SequenceTheorems, WellFoundedInduction,
        TLAPS

-----------------------------------------------------------------------------
(***************************************************************************)
(* Smallest and greatest indices.  Induction over the length of a line or  *)
(* of a file takes the form of a least counterexample.                     *)
(***************************************************************************)
(* A set of natural numbers has a least element. *)
LEMMA Least ==
  ASSUME NEW S \in SUBSET Nat, S # {}
  PROVE  \E n \in S : \A m \in S : n <= m
  <1> DEFINE R == OpToRel(<, Nat)
  <1>1. IsWellFoundedOn(R, Nat)
    BY NatLessThanWellFounded
  <1>2. \A x, y \in Nat : <<y, x>> \in R <=> y < x
    BY DEF OpToRel
  <1> HIDE DEF R
  <1>3. PICK x \in S : \A y \in S : ~(<<y, x>> \in R)
    BY <1>1, WFMin
  <1>4. \A m \in S : x <= m
    <2> TAKE m \in S
    <2>1. x \in Nat /\ m \in Nat
      OBVIOUS
    <2>2. ~(m < x)
      BY <1>2, <1>3, <2>1
    <2> QED  BY <2>1, <2>2
  <1> QED  BY <1>4

(* A bounded set of natural numbers has a greatest one. *)
LEMMA Greatest ==
  ASSUME NEW n \in Nat, NEW S \in SUBSET (0 .. n), S # {}
  PROVE  \E k \in S : \A m \in S : m <= k
  <1> DEFINE T == {m \in 0 .. n : n - m \in S}
  <1>1. T \in SUBSET Nat
    OBVIOUS
  <1>2. T # {}
    <2>1. PICK k \in S : TRUE
      OBVIOUS
    <2>2. k \in 0 .. n /\ n - k \in 0 .. n /\ n - (n - k) = k
      OBVIOUS
    <2> QED  BY <2>2
  <1>3. PICK t \in T : \A u \in T : t <= u
    <2> HIDE DEF T
    <2> QED  BY <1>1, <1>2, Least
  <1>4. \A m \in S : m <= n - t
    <2> TAKE m \in S
    <2>1. m \in 0 .. n /\ n - m \in 0 .. n /\ n - (n - m) = m
      OBVIOUS
    <2>2. t <= n - m
      BY <1>3, <2>1
    <2> QED  BY <2>1, <2>2
  <1> QED  BY <1>4

(* Min and Max of the library are these elements. *)
LEMMA MinIsLeast ==
  ASSUME NEW S \in SUBSET Nat, S # {}
  PROVE  Min(S) \in S /\ \A m \in S : Min(S) <= m
  BY Least DEF Min

LEMMA MaxIsGreatest ==
  ASSUME NEW n \in Nat, NEW S \in SUBSET (0 .. n), S # {}
  PROVE  Max(S) \in S /\ \A m \in S : m <= Max(S)
  <1>1. PICK k \in S : \A m \in S : m <= k
    BY Greatest
  <1>2. S \subseteq Nat
    OBVIOUS
  <1>3. \A m \in S : k >= m
    BY <1>1, <1>2
  <1>4. Max(S) \in S /\ \A m \in S : Max(S) >= m
    BY <1>3 DEF Max
  <1> QED  BY <1>2, <1>4

-----------------------------------------------------------------------------
(***************************************************************************)
(* The helpers of utils.c.                                                 *)
(***************************************************************************)
(* trim() keeps what lies between the first and the last solid symbol. *)
LEMMA TrimMeans ==
  ASSUME NEW s \in Seq(Symbols)
  PROVE  /\ trim(s) \in Seq(Symbols)
         /\ Solid(s) = {} => trim(s) = << >>
         /\ Solid(s) # {} =>
              \E a, b \in Solid(s) :
                /\ \A i \in Solid(s) : a <= i /\ i <= b
                /\ trim(s) = SubSeq(s, a, b)
                /\ Len(trim(s)) = b - a + 1
                /\ \A i \in 1 .. b - a + 1 : trim(s)[i] = s[a + i - 1]
  <1> DEFINE I == {i \in 1 .. Len(s) : s[i] # " "}
  <1>1. Len(s) \in Nat /\ DOMAIN s = 1 .. Len(s)
    BY LenProperties
  <1>2. Solid(s) = I
    BY <1>1 DEF Solid
  <1>3. SelectInSeq(s, NoBlank) = IF I # {} THEN Min(I) ELSE 0
    BY DEF SelectInSeq, NoBlank, Blank
  <1>4. SelectLastInSeq(s, NoBlank) = IF I # {} THEN Max(I) ELSE 0
    BY DEF SelectLastInSeq, NoBlank, Blank
  <1>5. I \in SUBSET (1 .. Len(s)) /\ I \in SUBSET Nat /\ I \in SUBSET (0 .. Len(s))
    <2>1. I \subseteq 1 .. Len(s)
      OBVIOUS
    <2> HIDE DEF I
    <2> QED  BY <1>1, <2>1
  <1> HIDE DEF I
  <1>6. CASE I = {}
    <2>1. trim(s) = << >>
      BY <1>3, <1>6 DEF trim
    <2> QED  BY <1>2, <1>6, <2>1
  <1>7. CASE I # {}
    <2> DEFINE a == Min(I)
               b == Max(I)
    <2>1. a \in I /\ \A m \in I : a <= m
      BY <1>5, <1>7, MinIsLeast
    <2>2. b \in I /\ \A m \in I : m <= b
      BY <1>1, <1>5, <1>7, MaxIsGreatest
    <2> HIDE DEF a, b
    <2>3. a \in 1 .. Len(s) /\ b \in 1 .. Len(s) /\ a <= b
      BY <1>5, <2>1, <2>2
    <2>4. trim(s) = SubSeq(s, a, b)
      BY <1>3, <1>4, <1>7, <2>3 DEF trim, a, b
    <2>5. \A i \in a .. b : s[i] \in Symbols
      BY <1>1, <2>3
    <2>6. /\ SubSeq(s, a, b) \in Seq(Symbols) /\ Len(SubSeq(s, a, b)) = b - a + 1
          /\ \A i \in 1 .. b - a + 1 : SubSeq(s, a, b)[i] = s[a + i - 1]
      BY <2>3, <2>5, SubSeqProperties
    <2> QED  BY <1>2, <1>7, <2>1, <2>2, <2>4, <2>6
  <1> QED  BY <1>6, <1>7

(* strtok() skips "=" and takes what is before the next one. *)
LEMMA SplitMeans ==
  ASSUME NEW s \in Seq(Symbols)
  PROVE  LET N == {i \in 1 .. Len(s) : s[i] # "="} IN
         /\ N = {} => Split(s) = [token |-> << >>, rest |-> << >>]
         /\ N # {} =>
              \E a \in N : \E b \in a .. Len(s) :
                /\ \A i \in N : a <= i
                /\ \A i \in a .. b : s[i] # "="
                /\ b < Len(s) => s[b + 1] = "="
                /\ Split(s) = [token |-> SubSeq(s, a, b),
                               rest  |-> SubSeq(s, b + 2, Len(s))]
  <1> DEFINE N == {i \in 1 .. Len(s) : s[i] # "="}
             E(a) == {i \in a .. Len(s) : s[i] = "="}
  <1>1. Len(s) \in Nat
    BY LenProperties
  <1>2. SelectInSeq(s, NoSeparator) = IF N # {} THEN Min(N) ELSE 0
    BY DEF SelectInSeq, NoSeparator, Separator
  <1>3. \A a : SelectInSubSeq(s, a, Len(s), Separator) =
                 IF E(a) # {} THEN Min(E(a)) ELSE 0
    BY DEF SelectInSubSeq, Separator
  <1>4. N \in SUBSET (1 .. Len(s)) /\ N \in SUBSET Nat
    OBVIOUS
  <1>5. CASE N = {}
    <2>1. Split(s) = [token |-> << >>, rest |-> << >>]
      BY <1>2, <1>5 DEF Split
    <2> QED  BY <1>5, <2>1
  <1>6. CASE N # {}
    <2> DEFINE a == Min(N)
    <2>1. a \in N /\ \A i \in N : a <= i
      <3> HIDE DEF N
      <3> QED  BY <1>4, <1>6, MinIsLeast
    <2>2. a \in 1 .. Len(s) /\ s[a] # "="
      BY <2>1
    <2>3. a = SelectInSeq(s, NoSeparator)
      BY <1>2, <1>6
    <2> HIDE DEF a
    <2>4. CASE E(a) = {}
      <3>0. SelectInSubSeq(s, a, Len(s), Separator) = 0
        BY <1>3, <2>4
      <3>1. Split(s) = [token |-> SubSeq(s, a, Len(s)), rest |-> << >>]
        BY <2>2, <2>3, <3>0 DEF Split
      <3>2. SubSeq(s, Len(s) + 2, Len(s)) = << >>
        BY <1>1, SubSeqEmpty
      <3>3. \A i \in a .. Len(s) : s[i] # "="
        BY <2>4
      <3>4. Len(s) \in a .. Len(s) /\ ~(Len(s) < Len(s))
        BY <1>1, <2>2
      <3> QED  BY <1>6, <2>1, <3>1, <3>2, <3>3, <3>4
    <2>5. CASE E(a) # {}
      <3> DEFINE e == Min(E(a))
      <3>1. E(a) \in SUBSET Nat
        BY <1>1, <2>2
      <3>2. e \in E(a) /\ \A i \in E(a) : e <= i
        <4> HIDE DEF E
        <4> QED  BY <2>5, <3>1, MinIsLeast
      <3>3. e = SelectInSubSeq(s, a, Len(s), Separator)
        BY <1>3, <2>5
      <3> HIDE DEF e
      <3>4. e \in a .. Len(s) /\ s[e] = "=" /\ e # 0 /\ e \in Int
        BY <1>1, <2>2, <3>2
      <3>5. Split(s) = [token |-> SubSeq(s, a, e - 1),
                        rest  |-> SubSeq(s, e + 1, Len(s))]
        BY <2>2, <2>3, <3>3, <3>4 DEF Split
      <3>6. a # e /\ e - 1 \in a .. Len(s)
        BY <1>1, <2>2, <3>4
      <3>7. \A i \in a .. e - 1 : s[i] # "="
        <4> TAKE i \in a .. e - 1
        <4>1. i \in a .. Len(s) /\ ~(e <= i)
          BY <1>1, <2>2, <3>4
        <4> QED  BY <3>2, <4>1
      <3>8. (e - 1) + 1 = e /\ (e - 1) + 2 = e + 1
        BY <3>4
      <3> QED  BY <1>6, <2>1, <3>4, <3>5, <3>6, <3>7, <3>8
    <2> QED  BY <2>4, <2>5
  <1> QED  BY <1>5, <1>6

(* There is a function whose values each follow from the one before. *)
Iterates(n, S, e, F) ==
  \E g \in [0 .. n -> S] : g[0] = e /\ \A i \in 1 .. n : g[i] = F[i][g[i - 1]]

LEMMA Recursion ==
  ASSUME NEW n \in Nat, NEW S, NEW e \in S, NEW F \in [1 .. n -> [S -> S]]
  PROVE  Iterates(n, S, e, F)
  <1> DEFINE Defines(g, k) ==
               g[0] = e /\ \A i \in 1 .. k : g[i] = F[i][g[i - 1]]
             Bad == {k \in 0 .. n : \A g \in [0 .. k -> S] : ~Defines(g, k)}
  <1>1. Bad = {}
    <2> SUFFICES ASSUME Bad # {} PROVE FALSE
      OBVIOUS
    <2>1. Bad \in SUBSET Nat
      OBVIOUS
    <2>2. PICK k \in Bad : \A m \in Bad : k <= m
      <3> HIDE DEF Bad
      <3> QED  BY <2>1, Least
    <2>3. k # 0
      <3>1. [i \in 0 .. 0 |-> e] \in [0 .. 0 -> S]
        OBVIOUS
      <3>2. Defines([i \in 0 .. 0 |-> e], 0)
        OBVIOUS
      <3> QED  BY <3>1, <3>2
    <2>4. k \in 1 .. n /\ k - 1 \in 0 .. n /\ k - 1 \notin Bad
      <3>1. k \in 0 .. n
        OBVIOUS
      <3> HIDE DEF Bad
      <3>2. ~(k <= k - 1)
        BY <3>1
      <3> QED  BY <2>2, <2>3, <3>1, <3>2
    <2>5. PICK g \in [0 .. k - 1 -> S] : Defines(g, k - 1)
      BY <2>4
    <2> DEFINE h == [i \in 0 .. k |-> IF i = k THEN F[k][g[k - 1]] ELSE g[i]]
    <2>6. F[k][g[k - 1]] \in S
      BY <2>4, <2>5
    <2>7. h \in [0 .. k -> S]
      BY <2>4, <2>5, <2>6
    <2>8. Defines(h, k)
      <3>1. h[0] = e
        BY <2>4, <2>5
      <3>2. ASSUME NEW i \in 1 .. k  PROVE h[i] = F[i][h[i - 1]]
        <4>1. CASE i = k
          BY <2>4, <4>1
        <4>2. CASE i # k
          <5>1. i \in 1 .. k - 1 /\ i \in 0 .. k /\ i - 1 \in 0 .. k /\ i - 1 # k
            BY <2>4, <4>2
          <5>2. h[i] = g[i] /\ h[i - 1] = g[i - 1]
            BY <4>2, <5>1
          <5> QED  BY <2>5, <5>1, <5>2
        <4> QED  BY <4>1, <4>2
      <3> QED  BY <3>1, <3>2
    <2> QED  BY <2>2, <2>7, <2>8
  <1>2. PICK g \in [0 .. n -> S] : Defines(g, n)
    <2>1. n \in 0 .. n
      OBVIOUS
    <2>2. n \notin Bad
      BY <1>1
    <2> QED  BY <2>1, <2>2
  <1> QED  BY <1>2 DEF Iterates

(* Digit() returns the value of a digit. *)
LEMMA DigitInRange ==
  ASSUME NEW c \in ToSet(Digits)
  PROVE  Digit(c) \in 0 .. 9
  <1>1. DOMAIN Digits = 1 .. 10
    BY DEF Digits
  <1>2. \E i \in DOMAIN Digits : Digits[i] = c
    BY DEF ToSet
  <1> QED  BY <1>1, <1>2 DEF Digit

(* What wraps around is an int. *)
LEMMA WrapInRange ==
  ASSUME NEW n \in Int
  PROVE  Wrap(n) \in Integer
  <1>1. IntMax \in Nat
    BY ConfigAssumption
  <1> DEFINE w == 2 * (IntMax + 1)
             r == (n + IntMax + 1) % w
  <1>2. w \in Nat /\ w > 0 /\ n + IntMax + 1 \in Int
    BY <1>1
  <1>3. r \in 0 .. w - 1
    <2> HIDE DEF w
    <2> QED  BY <1>2
  <1>4. Wrap(n) = r - IntMax - 1
    BY DEF Wrap
  <1> HIDE DEF r
  <1> QED  BY <1>1, <1>3, <1>4 DEF Integer

(* An int is stored as a size_t, and as itself when it is not negative.    *)
LEMMA SizeInRange ==
  ASSUME NEW n \in Int
  PROVE  SizeT(n) \in 0 .. SizeMax /\ (n \in 0 .. SizeMax => SizeT(n) = n)
  <1>1. SizeMax \in Nat
    BY ConfigAssumption
  <1> DEFINE w == SizeMax + 1
             r == n % w
  <1>2. w \in Nat /\ w > 0 /\ w - 1 = SizeMax
    BY <1>1
  <1>3. r \in 0 .. w - 1 /\ (n \in 0 .. w - 1 => r = n)
    <2> HIDE DEF w
    <2> QED  BY <1>2
  <1>4. SizeT(n) = r
    BY DEF SizeT
  <1> HIDE DEF r, w
  <1> QED  BY <1>2, <1>3, <1>4

(* atoi() adds digit after digit to an int. *)
LEMMA AtoiMeans ==
  ASSUME NEW s \in Seq(Symbols), is_numeric(s)
  PROVE  \E num \in [0 .. Len(s) -> Integer] :
           /\ num[0] = 0 /\ atoi(s) = num[Len(s)]
           /\ \A i \in 1 .. Len(s) : num[i] = Wrap(num[i - 1] * 10 + Digit(s[i]))
  <1> DEFINE F == [i \in 1 .. Len(s) |->
                     [x \in Integer |-> Wrap(x * 10 + Digit(s[i]))]]
             Def(g) == [i \in 0 .. Len(s) |->
                          IF i = 0 THEN 0 ELSE Wrap(g[i - 1] * 10 + Digit(s[i]))]
  <1>1. Len(s) \in Nat /\ DOMAIN s = 1 .. Len(s)
    BY LenProperties
  <1>2. 0 \in Integer /\ Integer \subseteq Int
    <2>1. IntMax \in Nat
      BY ConfigAssumption
    <2> QED  BY <2>1 DEF Integer
  <1>3. \A i \in 1 .. Len(s) : Digit(s[i]) \in 0 .. 9
    <2> TAKE i \in 1 .. Len(s)
    <2>1. s[i] \in ToSet(Digits)
      BY <1>1 DEF is_numeric, ToSet
    <2> QED  BY <2>1, DigitInRange
  <1>4. F \in [1 .. Len(s) -> [Integer -> Integer]]
    <2>1. ASSUME NEW i \in 1 .. Len(s), NEW x \in Integer
          PROVE  Wrap(x * 10 + Digit(s[i])) \in Integer
      <3>1. x * 10 + Digit(s[i]) \in Int
        BY <1>2, <1>3
      <3> QED  BY <3>1, WrapInRange
    <2> QED  BY <2>1
  <1>5. PICK g \in [0 .. Len(s) -> Integer] :
          g[0] = 0 /\ \A i \in 1 .. Len(s) : g[i] = F[i][g[i - 1]]
    <2> HIDE DEF F
    <2>1. Iterates(Len(s), Integer, 0, F)
      BY <1>1, <1>2, <1>4, Recursion
    <2> QED  BY <2>1 DEF Iterates
  <1>6. ASSUME NEW i \in 1 .. Len(s)
        PROVE  g[i] = Wrap(g[i - 1] * 10 + Digit(s[i]))
    <2>1. i - 1 \in 0 .. Len(s)
      BY <1>1
    <2> QED  BY <1>5, <2>1
  <1>7. g = Def(g)
    <2> HIDE DEF F
    <2>1. ASSUME NEW i \in 0 .. Len(s), i # 0  PROVE i \in 1 .. Len(s)
      BY <1>1, <2>1
    <2> QED  BY <1>5, <1>6, <2>1
  <1> HIDE DEF F
  <1> DEFINE num == CHOOSE f : f = Def(f)
  <1>8. atoi(s) = num[Len(s)]
    BY DEF atoi
  <1>9. num = Def(num)
    <2> HIDE DEF Def
    <2> QED  BY <1>7
  <1> HIDE DEF num
  <1>10. \A i \in 0 .. Len(s) : num[i] \in Integer
    <2> DEFINE Bad == {i \in 0 .. Len(s) : num[i] \notin Integer}
    <2> SUFFICES ASSUME Bad # {}  PROVE FALSE
      OBVIOUS
    <2>1. Bad \in SUBSET Nat
      OBVIOUS
    <2>2. PICK i \in Bad : \A k \in Bad : i <= k
      <3> HIDE DEF Bad
      <3> QED  BY <2>1, Least
    <2>3. num[0] = 0
      BY <1>1, <1>9
    <2>4. i \in 0 .. Len(s) /\ i # 0 /\ num[i] \notin Integer
      BY <1>2, <2>2, <2>3
    <2>5. i \in 1 .. Len(s) /\ i - 1 \in 0 .. Len(s) /\ ~(i <= i - 1)
      BY <2>4
    <2>6. num[i - 1] \in Integer
      BY <2>2, <2>5
    <2>7. num[i - 1] * 10 + Digit(s[i]) \in Int
      <3>1. num[i - 1] \in Int
        BY <1>2, <2>6
      <3>2. Digit(s[i]) \in Int
        BY <1>3, <2>5
      <3> QED  BY <3>1, <3>2
    <2>8. num[i] = Wrap(num[i - 1] * 10 + Digit(s[i]))
      BY <1>9, <2>4
    <2> QED  BY <2>4, <2>7, <2>8, WrapInRange
  <1>11. num \in [0 .. Len(s) -> Integer]
    BY <1>9, <1>10
  <1>12. num[0] = 0 /\ \A i \in 1 .. Len(s) :
                         num[i] = Wrap(num[i - 1] * 10 + Digit(s[i]))
    BY <1>1, <1>9
  <1> QED  BY <1>8, <1>11, <1>12

(* Two symbols make a sequence. *)
LEMMA Pair ==
  ASSUME NEW S, NEW s \in Seq(S), NEW a, NEW b, Len(s) = 2, s[1] = a, s[2] = b
  PROVE  s = <<a, b>>
  OBVIOUS

(* A file name has the extension of a configuration exactly if it is       *)
(* proper.                                                                 *)
Proper(p) ==
  LET n == Len(p) - 2 IN
  /\ n >= 1 /\ p[n] \notin {"/", "\\"}
  /\ p[n + 1] = "." /\ p[n + 2] = "config"

LEMMA ExtensionMeans ==
  ASSUME NEW p \in Seq(Symbols)
  PROVE  get_file_extension(p) = <<".", "config">> <=> Proper(p)
  <1> DEFINE I == {i \in 1 .. Len(p) : p[i] \in {".", "/", "\\"}}
             last == IF I # {} THEN Max(I) ELSE 0
  <1>1. Len(p) \in Nat
    BY LenProperties
  <1>2. SelectLastInSeq(p, LAMBDA c : c \in {".", "/", "\\"}) = last
    BY DEF SelectLastInSeq
  <1>3. get_file_extension(p) =
          IF last > 1 /\ p[last] = "." /\ p[last - 1] \notin {"/", "\\"}
          THEN SubSeq(p, last, Len(p)) ELSE << >>
    BY <1>2 DEF get_file_extension
  <1>4. I \subseteq 1 .. Len(p)
    OBVIOUS
  <1>5. I # {} => last \in I /\ \A i \in I : i <= last
    <2>1. I \in SUBSET (0 .. Len(p))
      <3> HIDE DEF I
      <3> QED  BY <1>1, <1>4
    <2> HIDE DEF I
    <2> QED  BY <1>1, <2>1, MaxIsGreatest
  <1>6. last \in 0 .. Len(p)
    BY <1>1, <1>4, <1>5
  <1> HIDE DEF last
  <1>7. last > 0 => /\ Len(SubSeq(p, last, Len(p))) = Len(p) - last + 1
                    /\ SubSeq(p, last, Len(p)) \in Seq(Symbols)
                    /\ \A i \in 1 .. Len(p) - last + 1 :
                         SubSeq(p, last, Len(p))[i] = p[last + i - 1]
    <2>1. last > 0 => \A i \in last .. Len(p) : p[i] \in Symbols
      BY <1>1, <1>6, ElementOfSeq
    <2> QED  BY <1>1, <1>6, <2>1, SubSeqProperties
  <1>8. ASSUME get_file_extension(p) = <<".", "config">>  PROVE Proper(p)
    <2>1. last > 1 /\ p[last] = "." /\ p[last - 1] \notin {"/", "\\"}
          /\ SubSeq(p, last, Len(p)) = <<".", "config">>
      <3>1. \A a, b : << >> # <<a, b>>
        OBVIOUS
      <3> QED  BY <1>3, <1>8, <3>1
    <2>2. Len(p) = last + 1
      BY <1>1, <1>6, <1>7, <2>1
    <2>3. p[last + 1] = "config"
      BY <1>1, <1>6, <1>7, <2>1, <2>2
    <2> QED  BY <1>6, <2>1, <2>2, <2>3 DEF Proper
  <1>9. ASSUME Proper(p)  PROVE get_file_extension(p) = <<".", "config">>
    <2> DEFINE n == Len(p) - 2
    <2>1. /\ n \in Nat /\ n >= 1 /\ p[n] \notin {"/", "\\"}
          /\ p[n + 1] = "." /\ p[n + 2] = "config" /\ Len(p) = n + 2
      BY <1>1, <1>9 DEF Proper
    <2> HIDE DEF n
    <2>2. n + 1 \in I /\ n + 2 \notin I
      BY <2>1
    <2>3. last = n + 1
      <3> HIDE DEF I
      <3>1. last \in I /\ n + 1 <= last /\ last # n + 2
        BY <1>5, <2>2
      <3> QED  BY <1>6, <2>1, <3>1
    <2>4. get_file_extension(p) = SubSeq(p, n + 1, n + 2)
      BY <1>3, <2>1, <2>3
    <2>5. /\ Len(SubSeq(p, n + 1, n + 2)) = 2
          /\ SubSeq(p, n + 1, n + 2) \in Seq(Symbols)
          /\ SubSeq(p, n + 1, n + 2)[1] = "."
          /\ SubSeq(p, n + 1, n + 2)[2] = "config"
      BY <1>7, <2>1, <2>3
    <2> DEFINE q == SubSeq(p, n + 1, n + 2)
    <2>6. Len(q) = 2 /\ q \in Seq(Symbols) /\ q[1] = "." /\ q[2] = "config"
      BY <2>5
    <2> HIDE DEF q
    <2>7. q = <<".", "config">>
      BY <2>6, Pair
    <2> QED  BY <2>4, <2>7 DEF q
  <1> QED  BY <1>8, <1>9

-----------------------------------------------------------------------------
(***************************************************************************)
(* The names that are given to objects and pipes.                          *)
(***************************************************************************)
LEMMA FirstTwo ==
  ASSUME NEW S, NEW s, NEW a \in S, NEW b \in S, s[1] = a, s[2] = b
  PROVE  SubSeq(s, 1, 2) = <<a, b>>
  <1> DEFINE q == SubSeq(s, 1, 2)
  <1>1. \A i \in 1 .. 2 : s[i] \in S
    OBVIOUS
  <1>2. q \in Seq(S) /\ Len(q) = 2 /\ q[1] = a /\ q[2] = b
    BY <1>1, SubSeqProperties
  <1> HIDE DEF q
  <1>3. q = <<a, b>>
    BY <1>2, Pair
  <1> QED  BY <1>3 DEF q

(* A sequence ends in its last two symbols. *)
LEMMA SuffixOfTwo ==
  ASSUME NEW S, NEW t \in Seq(S), NEW a \in S, NEW b \in S,
         Len(t) >= 2, t[Len(t) - 1] = a, t[Len(t)] = b
  PROVE  IsSuffix(<<a, b>>, t)
  <1> DEFINE s == <<a, b>>
             r == Reverse(s)
             u == Reverse(t)
  <1>1. Len(t) \in Nat /\ \A i \in 1 .. Len(t) : t[i] \in S
    BY LenProperties, ElementOfSeq
  <1>2. s \in Seq(S) /\ Len(s) = 2 /\ s[1] = a /\ s[2] = b
    OBVIOUS
  <1> HIDE DEF s
  <1>3. r = [i \in 1 .. 2 |-> s[(2 - i) + 1]]
    BY <1>2 DEF Reverse
  <1>4. u = [i \in 1 .. Len(t) |-> t[(Len(t) - i) + 1]]
    BY DEF Reverse
  <1> HIDE DEF r, u
  <1>5. r \in Seq(S) /\ Len(r) = 2 /\ r[1] = b /\ r[2] = a
    BY <1>2, <1>3
  <1>6. u \in Seq(S) /\ Len(u) = Len(t)
    <2>1. \A i \in 1 .. Len(t) : t[(Len(t) - i) + 1] \in S
      BY <1>1
    <2> QED  BY <1>1, <1>4, <2>1, IsASeq
  <1>7. u[1] = b /\ u[2] = a
    BY <1>1, <1>4
  <1>8. SubSeq(r, 1, 2) = <<b, a>> /\ SubSeq(u, 1, 2) = <<b, a>>
    BY <1>5, <1>7, FirstTwo
  <1>9. IsPrefix(r, u)
    BY <1>5, <1>6, <1>8 DEF IsPrefix
  <1> QED  BY <1>9 DEF IsSuffix, r, u, s

(* One symbol in front of a sequence, ... *)
LEMMA Prepend ==
  ASSUME NEW S, NEW v \in Seq(S), NEW a \in S
  PROVE  LET f == <<a>> \o v IN
         /\ f \in Seq(S) /\ Len(f) = Len(v) + 1
         /\ f[1] = a /\ \A i \in 1 .. Len(v) : f[i + 1] = v[i]
  OBVIOUS

(* ... and three symbols behind it. *)
LEMMA AppendThree ==
  ASSUME NEW S, NEW v \in Seq(S), NEW a \in S, NEW b \in S, NEW c \in S
  PROVE  LET f == v \o <<a, b, c>> IN
         /\ f \in Seq(S) /\ Len(f) = Len(v) + 3
         /\ \A i \in 1 .. Len(v) : f[i] = v[i]
         /\ f[Len(v) + 1] = a /\ f[Len(v) + 2] = b /\ f[Len(v) + 3] = c
  OBVIOUS

(* filename_format() for an object: one symbol goes in front. *)
LEMMA NameMeans ==
  ASSUME NEW S, NEW v \in Seq(S), NEW a \in S,
         \A i \in 1 .. Len(v) : v[i] # a
  PROVE  LET f == <<a>> \o v IN
         f \in Seq(S) /\ f[1] = a /\ {i \in DOMAIN f : f[i] = a} = {1}
  <1> DEFINE f == <<a>> \o v
             n == Len(v)
  <1>1. /\ f \in Seq(S) /\ Len(f) = n + 1
        /\ f[1] = a /\ \A i \in 1 .. n : f[i + 1] = v[i]
    BY Prepend
  <1> HIDE DEF f
  <1>2. n \in Nat /\ DOMAIN f = 1 .. n + 1
    BY <1>1, LenProperties
  <1>3. ASSUME NEW i \in DOMAIN f, i # 1  PROVE f[i] # a
    <2>1. i - 1 \in 1 .. n /\ (i - 1) + 1 = i
      BY <1>2, <1>3
    <2> QED  BY <1>1, <2>1
  <1>4. {i \in DOMAIN f : f[i] = a} = {1}
    BY <1>1, <1>2, <1>3
  <1> QED  BY <1>1, <1>4 DEF f

(* filename_format() for a pipe: one symbol goes in front, three go behind. *)
LEMMA PipeMeans ==
  ASSUME NEW S, NEW v \in Seq(S), NEW p \in S, NEW u \in S, NEW c \in S,
         NEW d \in S, NEW x,
         x \notin {p, u, c, d}, c \notin {p, u, d},
         \A i \in 1 .. Len(v) : v[i] # x /\ v[i] # c
  PROVE  LET f == (<<p>> \o v) \o <<u, c, d>> IN
         /\ f \in Seq(S) /\ f[1] = p
         /\ {i \in DOMAIN f : f[i] = x} = {}
         /\ {i \in DOMAIN f : f[i] = c} = {Len(v) + 3}
         /\ IsSuffix(<<c, d>>, f)
  <1> DEFINE w == <<p>> \o v
             f == w \o <<u, c, d>>
             n == Len(v)
  <1>1. /\ w \in Seq(S) /\ Len(w) = n + 1
        /\ w[1] = p /\ \A i \in 1 .. n : w[i + 1] = v[i]
    BY Prepend
  <1>2. n \in Nat
    BY LenProperties
  <1>3. f = (<<p>> \o v) \o <<u, c, d>>
    OBVIOUS
  <1> HIDE DEF w
  <1>4. /\ f \in Seq(S) /\ Len(f) = Len(w) + 3
        /\ \A i \in 1 .. Len(w) : f[i] = w[i]
        /\ f[Len(w) + 1] = u /\ f[Len(w) + 2] = c /\ f[Len(w) + 3] = d
    BY <1>1, AppendThree
  <1> HIDE DEF f, n
  <1>5. /\ Len(f) = n + 4 /\ f[n + 2] = u /\ f[n + 3] = c /\ f[n + 4] = d
        /\ \A i \in 1 .. n + 1 : f[i] = w[i]
    BY <1>1, <1>2, <1>4
  <1>6. DOMAIN f = 1 .. n + 4
    BY <1>4, <1>5, LenProperties
  <1>7. f[1] = p
    BY <1>1, <1>2, <1>5
  <1>8. ASSUME NEW i \in DOMAIN f
        PROVE  f[i] # x /\ (f[i] = c <=> i = n + 3)
    <2>1. CASE i \in 2 .. n + 1
      <3>1. i - 1 \in 1 .. n /\ (i - 1) + 1 = i /\ i \in 1 .. n + 1 /\ i # n + 3
        BY <1>2, <2>1
      <3>2. f[i] = v[i - 1]
        BY <1>1, <1>5, <3>1
      <3> QED  BY <3>1, <3>2 DEF n
    <2>2. CASE i \in {1, n + 2, n + 3, n + 4}
      BY <1>2, <1>5, <1>7, <2>2
    <2>3. i \in 2 .. n + 1 \/ i \in {1, n + 2, n + 3, n + 4}
      BY <1>2, <1>6
    <2> QED  BY <2>1, <2>2, <2>3
  <1>9. {i \in DOMAIN f : f[i] = x} = {}
    BY <1>8
  <1>10. {i \in DOMAIN f : f[i] = c} = {n + 3}
    <2>1. n + 3 \in DOMAIN f
      BY <1>2, <1>6
    <2> QED  BY <1>8, <2>1
  <1>11. IsSuffix(<<c, d>>, f)
    <2>1. Len(f) >= 2 /\ Len(f) - 1 = n + 3
      BY <1>2, <1>5
    <2> QED  BY <1>4, <1>5, <2>1, SuffixOfTwo
  <1> QED  BY <1>3, <1>4, <1>7, <1>9, <1>10, <1>11 DEF n

(* What is wrong with no symbol of a value is wrong with no symbol of the  *)
(* name that is made of it, but for what filename_format() adds.           *)
Formed(key, f) ==
  LET count(c) == Cardinality({i \in DOMAIN f : f[i] = c})
  IN  IF key \in Names
      THEN count("/") = 1 /\ f[1] = "/"
      ELSE /\ count("/") = 0 /\ f[1] = "/tmp/" /\ count("%") = 1
           /\ IsSuffix(<<"%", "d">>, f)

(* A value that SetText() accepts gives a name of the right form. *)
LEMMA FormatFormed ==
  ASSUME NEW key \in Texts, NEW v \in Seq(Symbols),
         ToSet(v) \cap Forbidden(key) = {}
  PROVE  /\ filename_format(key, v) \in Seq(Symbols)
         /\ Formed(key, filename_format(key, v))
  <1> DEFINE f == filename_format(key, v)
             slash == "/"
             tmp == "/tmp/"
             line == "_"
             percent == "%"
             d == "d"
             At(c) == {i \in DOMAIN f : f[i] = c}
  <1>1. /\ slash \in Symbols /\ tmp \in Symbols /\ line \in Symbols
        /\ percent \in Symbols /\ d \in Symbols
    BY ConfigAssumption
  <1>2. slash \notin {tmp, line, percent, d} /\ percent \notin {tmp, line, d}
    OBVIOUS
  <1>3. \A i \in 1 .. Len(v) : v[i] \in ToSet(v)
    BY LenProperties DEF ToSet
  <1>4. Forbidden(key) = IF key \in Pipes THEN {slash, percent} ELSE {slash}
    BY DEF Forbidden
  <1>5. filename_format(key, v) =
          IF key \in Pipes THEN (<<tmp>> \o v) \o <<line, percent, d>>
          ELSE <<slash>> \o v
    BY DEF filename_format
  <1>6. /\ Formed(key, f) <=>
             IF key \in Names
             THEN Cardinality(At(slash)) = 1 /\ f[1] = slash
             ELSE /\ Cardinality(At(slash)) = 0 /\ f[1] = tmp
                  /\ Cardinality(At(percent)) = 1
                  /\ IsSuffix(<<percent, d>>, f)
    BY DEF Formed
  <1>7. key \in Names <=> key \notin Pipes
    BY DEF Texts, Names, Pipes
  <1> HIDE DEF slash, tmp, line, percent, d
  <1>8. CASE key \in Names
    <2>1. f = <<slash>> \o v /\ \A i \in 1 .. Len(v) : v[i] # slash
      BY <1>3, <1>4, <1>5, <1>7, <1>8
    <2>2. /\ f \in Seq(Symbols) /\ f[1] = slash
          /\ {i \in DOMAIN f : f[i] = slash} = {1}
      BY <1>1, <2>1, NameMeans
    <2>3. Cardinality(At(slash)) = 1
      <3>1. At(slash) = {1}
        BY <2>1, <2>2
      <3> HIDE DEF At
      <3> QED  BY <3>1, FS_Singleton
    <2> QED  BY <1>6, <1>8, <2>2, <2>3
  <1>9. CASE key \notin Names
    <2>1. /\ f = (<<tmp>> \o v) \o <<line, percent, d>>
          /\ \A i \in 1 .. Len(v) : v[i] # slash /\ v[i] # percent
      BY <1>3, <1>4, <1>5, <1>7, <1>9
    <2> DEFINE g == (<<tmp>> \o v) \o <<line, percent, d>>
    <2>2. /\ g \in Seq(Symbols) /\ g[1] = tmp
          /\ {i \in DOMAIN g : g[i] = slash} = {}
          /\ {i \in DOMAIN g : g[i] = percent} = {Len(v) + 3}
          /\ IsSuffix(<<percent, d>>, g)
      BY <1>1, <1>2, <2>1, PipeMeans
    <2> HIDE DEF f, g
    <2>5. f = g
      BY <2>1 DEF g
    <2>3. Cardinality(At(slash)) = 0
      <3>1. At(slash) = {}
        BY <2>2, <2>5
      <3> QED  BY <3>1, FS_EmptySet
    <2>4. Cardinality(At(percent)) = 1
      <3>1. At(percent) = {Len(v) + 3}
        BY <2>2, <2>5
      <3> HIDE DEF At
      <3> QED  BY <3>1, FS_Singleton
    <2> QED  BY <1>6, <1>9, <2>2, <2>3, <2>4, <2>5 DEF f
  <1> QED  BY <1>8, <1>9

-----------------------------------------------------------------------------
(***************************************************************************)
(* Types and names.                                                        *)
(***************************************************************************)
(* What a line may do to a configuration. *)
TextSet(c, r) ==
  \E key \in Texts, v \in Seq(Symbols) :
    /\ ToSet(v) \cap Forbidden(key) = {}
    /\ r = [c EXCEPT ![key] = filename_format(key, v)]

NumberSet(c, r) ==
  \E key \in Numbers, n \in Integer :
    Accepted(key, n) /\ r = [c EXCEPT ![key] = SizeT(n)]

(* atoi() returns an int. *)
LEMMA AtoiInRange ==
  ASSUME NEW s \in Seq(Symbols), is_numeric(s)
  PROVE  atoi(s) \in Integer
  <1>1. PICK num \in [0 .. Len(s) -> Integer] : atoi(s) = num[Len(s)]
    BY AtoiMeans
  <1>2. Len(s) \in 0 .. Len(s)
    BY LenProperties
  <1> QED  BY <1>1, <1>2

(* strtok() returns parts of the line. *)
LEMMA SplitTypes ==
  ASSUME NEW s \in Seq(Symbols)
  PROVE  Split(s).token \in Seq(Symbols) /\ Split(s).rest \in Seq(Symbols)
  <1> DEFINE N == {i \in 1 .. Len(s) : s[i] # "="}
  <1>1. Len(s) \in Nat /\ \A i \in 1 .. Len(s) : s[i] \in Symbols
    BY LenProperties, ElementOfSeq
  <1>2. << >> \in Seq(Symbols)
    OBVIOUS
  <1>3. CASE N = {}
    <2>1. Split(s) = [token |-> << >>, rest |-> << >>]
      BY <1>3, SplitMeans
    <2> QED  BY <1>2, <2>1
  <1>4. CASE N # {}
    <2>1. PICK a \in N : \E b \in a .. Len(s) :
            Split(s) = [token |-> SubSeq(s, a, b),
                        rest  |-> SubSeq(s, b + 2, Len(s))]
      BY <1>4, SplitMeans
    <2>2. PICK b \in a .. Len(s) :
            Split(s) = [token |-> SubSeq(s, a, b),
                        rest  |-> SubSeq(s, b + 2, Len(s))]
      BY <2>1
    <2>3. /\ a \in 1 .. Len(s) /\ b \in 1 .. Len(s)
          /\ \A i \in a .. b : s[i] \in Symbols
          /\ \A i \in b + 2 .. Len(s) : s[i] \in Symbols
      BY <1>1
    <2>4. SubSeq(s, a, b) \in Seq(Symbols)
      BY <2>3, SubSeqProperties
    <2>5. SubSeq(s, b + 2, Len(s)) \in Seq(Symbols)
      <3>1. b + 2 \in Int /\ Len(s) \in Int
        BY <1>1, <2>3
      <3> QED  BY <2>3, <3>1, SubSeqProperties
    <2> QED  BY <2>2, <2>4, <2>5
  <1> QED  BY <1>3, <1>4

(* parse_configfile() refuses, does nothing, or sets one variable. *)
LEMMA ParseEffect ==
  ASSUME NEW line \in Seq(Symbols), NEW c
  PROVE  LET r == parse_configfile(line, c) IN
         r = Refused \/ r = c \/ TextSet(c, r) \/ NumberSet(c, r)
  <1> DEFINE r == parse_configfile(line, c)
             first == Split(line)
             second == Split(first.rest)
             varname == trim(first.token)
             value == trim(second.token)
             key == Head(varname)
  <1>1. value \in Seq(Symbols)
    BY SplitTypes, TrimMeans
  <1>2. \/ r = Refused \/ r = c
        \/ key \in Texts /\ r = SetText(c, key, value)
        \/ key \in Numbers /\ r = SetNumber(c, key, value)
    BY DEF parse_configfile
  <1> HIDE DEF r, value, key
  <1>3. ASSUME key \in Texts, r = SetText(c, key, value)
        PROVE  r = Refused \/ TextSet(c, r)
    BY <1>1, <1>3 DEF SetText, TextSet
  <1>4. ASSUME key \in Numbers, r = SetNumber(c, key, value)
        PROVE  r = Refused \/ NumberSet(c, r)
    BY <1>1, <1>4, AtoiInRange DEF SetNumber, NumberSet
  <1> QED  BY <1>2, <1>3, <1>4 DEF r

(* Every text that is set has the form that its users rely on. *)
TextsFormed == \A key \in Texts : conf[key] # Unset => Formed(key, conf[key])

(* The part of TypeOK and TextsFormed that is about one configuration. *)
ConfTyped(c) ==
  /\ DOMAIN c = Texts \cup Numbers
  /\ \A key \in Numbers :
       c[key] = Unset \/ /\ c[key] \in 0 .. SizeMax
                         /\ key \in Timeouts => c[key] \in MinTimeout .. MaxTimeout
                         /\ key = "MAX_BUFFER_SHM" => c[key] \in 0 .. MaxBuffer
  /\ \A key \in Texts : c[key] = Unset \/ c[key] \in Seq(Symbols)
  /\ \A key \in Texts : c[key] # Unset => Formed(key, c[key])

(* No variable is a text and a number. *)
LEMMA KeysDiffer == Texts \cap Numbers = {} /\ "MAX_BUFFER_SHM" \notin Timeouts
  BY DEF Texts, Names, Pipes, Numbers, Timeouts

(* Setting a variable keeps all fields typed and all names formed. *)
LEMMA SetKeepsTypes ==
  ASSUME NEW c, ConfTyped(c), NEW r, TextSet(c, r) \/ NumberSet(c, r)
  PROVE  ConfTyped(r)
  <1>1. CASE TextSet(c, r)
    <2>1. PICK key \in Texts, v \in Seq(Symbols) :
            /\ ToSet(v) \cap Forbidden(key) = {}
            /\ r = [c EXCEPT ![key] = filename_format(key, v)]
      BY <1>1 DEF TextSet
    <2>2. /\ filename_format(key, v) \in Seq(Symbols)
          /\ Formed(key, filename_format(key, v))
      BY <2>1, FormatFormed
    <2>3. /\ DOMAIN r = Texts \cup Numbers /\ r[key] = filename_format(key, v)
          /\ \A k \in Texts \cup Numbers : k # key => r[k] = c[k]
      BY <2>1 DEF ConfTyped
    <2>4. \A k \in Numbers : r[k] = c[k]
      BY <2>3, KeysDiffer
    <2>5. \A k \in Texts : r[k] = Unset \/ r[k] \in Seq(Symbols)
      BY <2>2, <2>3 DEF ConfTyped
    <2>6. \A k \in Texts : r[k] # Unset => Formed(k, r[k])
      BY <2>2, <2>3 DEF ConfTyped
    <2> QED  BY <2>3, <2>4, <2>5, <2>6 DEF ConfTyped
  <1>2. CASE NumberSet(c, r)
    <2>1. PICK key \in Numbers, n \in Integer :
            Accepted(key, n) /\ r = [c EXCEPT ![key] = SizeT(n)]
      BY <1>2 DEF NumberSet
    <2>2. /\ key \in Timeouts => n \in MinTimeout .. MaxTimeout
          /\ key = "MAX_BUFFER_SHM" => n \in 0 .. MaxBuffer
      BY <2>1, KeysDiffer DEF Accepted
    <2>3. /\ DOMAIN r = Texts \cup Numbers /\ r[key] = SizeT(n)
          /\ \A k \in Texts \cup Numbers : k # key => r[k] = c[k]
      BY <2>1 DEF ConfTyped
    <2>6. /\ SizeT(n) \in 0 .. SizeMax
          /\ key \in Timeouts => SizeT(n) = n
          /\ key = "MAX_BUFFER_SHM" => SizeT(n) = n
      <3>1. /\ IntMax \in Nat /\ SizeMax \in Nat /\ IntMax < SizeMax
            /\ MinTimeout \in Nat
        BY ConfigAssumption
      <3>2. n \in Int /\ n <= IntMax
        BY <3>1 DEF Integer
      <3>3. n >= 0 => n \in 0 .. SizeMax
        BY <3>1, <3>2
      <3>4. (key \in Timeouts \/ key = "MAX_BUFFER_SHM") => n >= 0
        BY <2>2, <3>1, <3>2
      <3> QED  BY <3>2, <3>3, <3>4, SizeInRange
    <2>4. \A k \in Texts : r[k] = c[k]
      BY <2>3, KeysDiffer
    <2>5. \A k \in Numbers :
            r[k] = Unset \/ /\ r[k] \in 0 .. SizeMax
                            /\ k \in Timeouts => r[k] \in MinTimeout .. MaxTimeout
                            /\ k = "MAX_BUFFER_SHM" => r[k] \in 0 .. MaxBuffer
      BY <2>2, <2>3, <2>6 DEF ConfTyped
    <2> QED  BY <2>3, <2>4, <2>5 DEF ConfTyped
  <1> QED  BY <1>1, <1>2

(* A daemon that reads has a file of the right name. *)
NameInv ==
  /\ pc = "start" => file = << >>
  /\ pc = "bad_name" => who = "daemon" /\ ~Proper(path)
  /\ who = "daemon" /\ (pc \in {"reading", "up"} \/ file # << >>) => Proper(path)

ConfigInv == TypeOK /\ TextsFormed /\ NameInv

LEMMA TypedConf == TypeOK /\ TextsFormed => ConfTyped(conf)
  BY DEF TypeOK, TextsFormed, ConfTyped

(* The invariant holds initially, ... *)
LEMMA InitConfig == Init => ConfigInv
  <1> SUFFICES ASSUME Init PROVE ConfigInv
    OBVIOUS
  <1> USE DEF Init
  <1>1. TypeOK
    <2>1. MaxLines \in Nat
      BY ConfigAssumption
    <2>2. file \in Seq(Lines) /\ Len(file) <= MaxLines
      BY <2>1
    <2> QED  BY <2>2 DEF TypeOK
  <1>2. TextsFormed
    BY DEF TextsFormed
  <1>3. NameInv
    BY DEF NameInv
  <1> QED  BY <1>1, <1>2, <1>3 DEF ConfigInv

(* ... every line keeps it, ... *)
LEMMA ReadKeeps ==
  ASSUME ConfigInv, NEW l \in Lines, ReadLine(l)
  PROVE  ConfigInv'
  <1> USE DEF ConfigInv
  <1> DEFINE line == trim(l)
             result == IF Comment(line) THEN conf ELSE parse_configfile(line, conf)
  <1>1. /\ pc = "reading" /\ Len(file) < MaxLines /\ file' = Append(file, l)
        /\ IF result = Refused THEN pc' = "refused" /\ UNCHANGED conf
           ELSE conf' = result /\ UNCHANGED pc
        /\ UNCHANGED <<who, path>>
    BY DEF ReadLine
  <1>2. line \in Seq(Symbols)
    <2>1. l \in Seq(Symbols)
      BY ConfigAssumption
    <2> QED  BY <2>1, TrimMeans
  <1>3. result = Refused \/ result = conf \/ TextSet(conf, result)
        \/ NumberSet(conf, result)
    BY <1>2, ParseEffect
  <1> HIDE DEF result
  <1>4. ConfTyped(conf')
    <2>1. ConfTyped(conf)
      BY TypedConf
    <2> QED  BY <1>1, <1>3, <2>1, SetKeepsTypes
  <1>5. TypeOK'
    <2>1. file' \in Seq(Lines) /\ Len(file') <= MaxLines
      <3>1. file \in Seq(Lines) /\ MaxLines \in Nat
        BY ConfigAssumption DEF TypeOK
      <3> QED  BY <1>1, <3>1
    <2>2. pc' \in {"reading", "refused"}
      BY <1>1
    <2> QED  BY <1>1, <1>4, <2>1, <2>2 DEF TypeOK, ConfTyped
  <1>6. TextsFormed'
    BY <1>4 DEF TextsFormed, ConfTyped
  <1>7. NameInv'
    BY <1>1 DEF NameInv
  <1> QED  BY <1>5, <1>6, <1>7

(* ... and so does every other step. *)
LEMMA NextConfig == ConfigInv /\ [Next]_vars => ConfigInv'
  <1> SUFFICES ASSUME ConfigInv, [Next]_vars PROVE ConfigInv'
    OBVIOUS
  <1> USE DEF ConfigInv
  <1>1. CASE Start
    <2>1. TypeOK'
      BY <1>1 DEF Start, TypeOK
    <2>2. TextsFormed'
      BY <1>1 DEF Start, TextsFormed
    <2>3. NameInv'
      <3>1. path \in Seq(Symbols)
        BY ConfigAssumption DEF TypeOK
      <3>2. get_file_extension(path) = <<".", "config">> <=> Proper(path)
        BY <3>1, ExtensionMeans
      <3>3. ~Proper(<< >>)
        BY DEF Proper
      <3> QED  BY <1>1, <3>2, <3>3 DEF Start, NameInv
    <2> QED  BY <2>1, <2>2, <2>3
  <1>2. ASSUME NEW l \in Lines, ReadLine(l) PROVE ConfigInv'
    BY <1>2, ReadKeeps
  <1>3. CASE EndOfFile
    <2>1. TypeOK'
      BY <1>3 DEF EndOfFile, TypeOK
    <2>2. TextsFormed'
      BY <1>3 DEF EndOfFile, TextsFormed
    <2>3. NameInv'
      BY <1>3 DEF EndOfFile, NameInv
    <2> QED  BY <2>1, <2>2, <2>3
  <1>4. CASE UNCHANGED vars
    BY <1>4 DEF vars, TypeOK, TextsFormed, NameInv
  <1> QED  BY <1>1, <1>2, <1>3, <1>4 DEF Next

(* ConfigInv: types, the form of the names and the test of the file name   *)
(* are one inductive invariant.                                            *)
THEOREM InvHolds == Spec => []ConfigInv
  <1> QED  BY InitConfig, NextConfig, PTL DEF Spec

(* TypeOK: a number that is stored is a size_t, and within the limits that *)
(* parse_configfile() sets for it; ANTIFLOOD_CLIENT has none.              *)
THEOREM TypeCorrect == Spec => []TypeOK
  <1>1. ConfigInv => TypeOK
    BY DEF ConfigInv
  <1> QED  BY <1>1, InvHolds, PTL

(* NamesFormed: the names of objects and the prefixes of pipes, which      *)
(* filename_format() makes, have the form that their users rely on.        *)
THEOREM NamesAreFormed == Spec => []NamesFormed
  <1>1. ConfigInv => NamesFormed
    BY DEF ConfigInv, TextsFormed, Formed, NamesFormed
  <1> QED  BY <1>1, InvHolds, PTL

(* NameChecked: the test in main() of the name of the file.                *)
THEOREM NameIsChecked == Spec => []NameChecked
  <1>1. ConfigInv => NameChecked
    BY DEF ConfigInv, NameInv, NameChecked, Proper
  <1> QED  BY <1>1, InvHolds, PTL

-----------------------------------------------------------------------------
(*****************************************************************************)
(* atoi() in the arithmetic of an int, and the number that a value stands  *)
(* for.                                                                    *)
(*****************************************************************************)
(* Wrapping around changes an int by multiples of the number of its values. *)
IntValues == 2 * (IntMax + 1)

LEMMA WrapMeans ==
  ASSUME NEW n \in Int
  PROVE  Wrap(n) \in Integer /\ \E k \in Int : n = Wrap(n) + IntValues * k
  <1>1. IntMax \in Nat
    BY ConfigAssumption
  <1> DEFINE w == IntValues
             m == n + IntMax + 1
  <1>2. w \in Nat /\ w > 0 /\ m \in Int
    BY <1>1 DEF IntValues
  <1>3. Wrap(n) = (m % w) - IntMax - 1
    BY DEF Wrap, IntValues
  <1>4. m \div w \in Int /\ m % w \in Int /\ m = w * (m \div w) + (m % w)
    <2> HIDE DEF w, m
    <2> QED  BY <1>2
  <1> DEFINE k == m \div w
             r == m % w
  <1>5. k \in Int /\ r \in Int /\ m = w * k + r
    BY <1>4
  <1>6. n = m - IntMax - 1
    BY <1>1
  <1> HIDE DEF w, m, k, r
  <1>7. w * k \in Int
    BY <1>2, <1>5
  <1> DEFINE q == w * k
  <1>8. n = (r - IntMax - 1) + q
    <2>1. q \in Int /\ m = q + r
       BY <1>5, <1>7
    <2> HIDE DEF q
    <2> QED  BY <1>1, <1>5, <1>6, <2>1
  <1> QED  BY <1>3, <1>5, <1>8, WrapInRange DEF r, w

(* Two ints that differ by such a multiple are equal. *)
LEMMA WrapUnique ==
  ASSUME NEW a \in Integer, NEW b \in Integer, NEW k \in Int, a = b + IntValues * k
  PROVE  a = b
  <1>1. IntMax \in Nat
    BY ConfigAssumption
  <1> DEFINE w == IntValues
  <1>2. w = 2 * IntMax + 2 /\ w \in Nat /\ a \in Int /\ b \in Int
        /\ a - b < w /\ b - a < w
    BY <1>1 DEF IntValues, Integer
  <1> HIDE DEF w
  <1>3. a = b + w * k
    BY DEF w
  <1>4. k >= 1 => w * k >= w
    BY <1>1, <1>2
  <1>5. k <= -1 => w * k <= -w
    BY <1>1, <1>2
  <1>6. k = 0 => w * k = 0
    BY <1>2
  <1>7. w * k \in Int
    BY <1>2
  <1>8. k = 0
    BY <1>2, <1>3, <1>4, <1>5, <1>7
  <1> QED  BY <1>2, <1>3, <1>6, <1>8

(* Wrapping around before a digit is added makes no difference. *)
LEMMA WrapStep ==
  ASSUME NEW x \in Int, NEW d \in Int
  PROVE  Wrap(Wrap(x) * 10 + d) = Wrap(10 * x + d)
  <1>1. IntMax \in Nat
    BY ConfigAssumption
  <1> DEFINE w == IntValues
             u == Wrap(x)
             y == u * 10 + d
             z == 10 * x + d
  <1>2. w \in Int /\ Integer \subseteq Int
    BY <1>1 DEF IntValues, Integer
  <1>3. u \in Int
    BY <1>2, WrapMeans
  <1>4. PICK i \in Int : x = u + w * i
    BY WrapMeans
  <1>5. y \in Int /\ z \in Int
    BY <1>3
  <1>6. Wrap(y) \in Integer /\ \E j \in Int : y = Wrap(y) + w * j
    BY <1>5, WrapMeans
  <1>7. Wrap(z) \in Integer /\ \E k \in Int : z = Wrap(z) + w * k
    BY <1>5, WrapMeans
  <1>8. PICK j \in Int : y = Wrap(y) + w * j
    BY <1>6
  <1>9. PICK k \in Int : z = Wrap(z) + w * k
    BY <1>7
  <1> DEFINE a == Wrap(z)
             b == Wrap(y)
  <1>10. a \in Integer /\ b \in Integer /\ a \in Int /\ b \in Int
    BY <1>2, <1>6, <1>7
  <1>11. y = b + w * j /\ z = a + w * k
    BY <1>8, <1>9
  <1>12. z = 10 * x + d /\ y = u * 10 + d
    OBVIOUS
  <1> HIDE DEF w, u, y, z, a, b
  <1>13. /\ w * i \in Int /\ w * j \in Int /\ w * k \in Int
         /\ w * (10 * i + j - k) = 10 * (w * i) + w * j - w * k
    BY <1>2
  <1> DEFINE wi == w * i
             wj == w * j
             wk == w * k
  <1>14. a = b + (10 * wi + wj - wk)
    <2>1. /\ wi \in Int /\ wj \in Int /\ wk \in Int
          /\ x = u + wi /\ y = b + wj /\ z = a + wk
      BY <1>4, <1>11, <1>13
    <2> HIDE DEF wi, wj, wk
    <2> QED  BY <1>3, <1>10, <1>12, <2>1
  <1>15. a = b + w * (10 * i + j - k)
    BY <1>13, <1>14
  <1>16. 10 * i + j - k \in Int
    OBVIOUS
  <1>17. a = b
    <2> DEFINE h == 10 * i + j - k
    <2> HIDE DEF h
    <2>1. h \in Int /\ a = b + IntValues * h
      BY <1>15, <1>16 DEF h, w
    <2> QED  BY <1>10, <2>1, WrapUnique
  <1> QED  BY <1>17 DEF a, b, y, z, u

(* Decimal() adds digit after digit to a number without limit. *)
LEMMA DecimalMeans ==
  ASSUME NEW v \in Seq(Symbols), is_numeric(v)
  PROVE  \E value \in [0 .. Len(v) -> Nat] :
           /\ value[0] = 0 /\ Decimal(v) = value[Len(v)]
           /\ \A n \in 1 .. Len(v) : value[n] = 10 * value[n - 1] + Digit(v[n])
  <1> DEFINE F == [n \in 1 .. Len(v) |-> [x \in Nat |-> 10 * x + Digit(v[n])]]
             Def(g) == [n \in 0 .. Len(v) |->
                          IF n = 0 THEN 0 ELSE 10 * g[n - 1] + Digit(v[n])]
  <1>1. Len(v) \in Nat /\ DOMAIN v = 1 .. Len(v)
    BY LenProperties
  <1>2. \A n \in 1 .. Len(v) : Digit(v[n]) \in Nat
    <2> TAKE n \in 1 .. Len(v)
    <2>1. v[n] \in ToSet(Digits)
      BY <1>1 DEF is_numeric, ToSet
    <2>2. Digit(v[n]) \in 0 .. 9
      BY <2>1, DigitInRange
    <2> QED  BY <2>2
  <1>3. F \in [1 .. Len(v) -> [Nat -> Nat]]
    BY <1>2
  <1>4. PICK g \in [0 .. Len(v) -> Nat] :
          g[0] = 0 /\ \A n \in 1 .. Len(v) : g[n] = F[n][g[n - 1]]
    <2> HIDE DEF F
    <2> DEFINE T == Nat
    <2>1. 0 \in T /\ F \in [1 .. Len(v) -> [T -> T]]
      BY <1>3
    <2> HIDE DEF T
    <2>2. Iterates(Len(v), T, 0, F)
      BY <1>1, <2>1, Recursion
    <2> QED  BY <2>2 DEF Iterates, T
  <1>5. ASSUME NEW n \in 1 .. Len(v)  PROVE g[n] = 10 * g[n - 1] + Digit(v[n])
    <2>1. n - 1 \in 0 .. Len(v)
      BY <1>1
    <2> QED  BY <1>4, <2>1
  <1>6. g = Def(g)
    <2> HIDE DEF F
    <2>1. ASSUME NEW n \in 0 .. Len(v), n # 0  PROVE n \in 1 .. Len(v)
      BY <1>1, <2>1
    <2> QED  BY <1>4, <1>5, <2>1
  <1> HIDE DEF F
  <1> DEFINE value == CHOOSE f : f = Def(f)
  <1>7. Decimal(v) = value[Len(v)]
    BY DEF Decimal
  <1>8. value = Def(value)
    <2> HIDE DEF Def
    <2> QED  BY <1>6
  <1> HIDE DEF value
  <1>9. \A n \in 0 .. Len(v) : value[n] \in Nat
    <2> DEFINE Bad == {n \in 0 .. Len(v) : value[n] \notin Nat}
    <2> SUFFICES ASSUME Bad # {}  PROVE FALSE
      OBVIOUS
    <2>1. Bad \in SUBSET Nat
      OBVIOUS
    <2>2. PICK n \in Bad : \A k \in Bad : n <= k
      <3> HIDE DEF Bad
      <3> QED  BY <2>1, Least
    <2>3. value[0] = 0
      BY <1>1, <1>8
    <2>4. n \in 0 .. Len(v) /\ n # 0 /\ value[n] \notin Nat
      BY <2>2, <2>3
    <2>5. n \in 1 .. Len(v) /\ n - 1 \in 0 .. Len(v) /\ ~(n <= n - 1)
      BY <2>4
    <2>6. value[n - 1] \in Nat
      BY <2>2, <2>5
    <2>7. value[n] = 10 * value[n - 1] + Digit(v[n])
      BY <1>8, <2>4
    <2> QED  BY <1>2, <2>4, <2>5, <2>6, <2>7
  <1>10. value \in [0 .. Len(v) -> Nat]
    BY <1>8, <1>9
  <1>11. value[0] = 0 /\ \A n \in 1 .. Len(v) :
                           value[n] = 10 * value[n - 1] + Digit(v[n])
    BY <1>1, <1>8
  <1> QED  BY <1>7, <1>10, <1>11

(* What atoi() returns is the number, wrapped around. *)
LEMMA AtoiWraps ==
  ASSUME NEW s \in Seq(Symbols), is_numeric(s)
  PROVE  atoi(s) = Wrap(Decimal(s))
  <1>1. PICK num \in [0 .. Len(s) -> Integer] :
           /\ num[0] = 0 /\ atoi(s) = num[Len(s)]
           /\ \A i \in 1 .. Len(s) : num[i] = Wrap(num[i - 1] * 10 + Digit(s[i]))
    BY AtoiMeans
  <1>2. PICK value \in [0 .. Len(s) -> Nat] :
           /\ value[0] = 0 /\ Decimal(s) = value[Len(s)]
           /\ \A n \in 1 .. Len(s) : value[n] = 10 * value[n - 1] + Digit(s[n])
    BY DecimalMeans
  <1>3. Len(s) \in Nat /\ DOMAIN s = 1 .. Len(s)
    BY LenProperties
  <1> DEFINE Bad == {n \in 0 .. Len(s) : num[n] # Wrap(value[n])}
  <1>4. Bad = {}
    <2> SUFFICES ASSUME Bad # {}  PROVE FALSE
      OBVIOUS
    <2>1. Bad \in SUBSET Nat
      OBVIOUS
    <2>2. PICK n \in Bad : \A k \in Bad : n <= k
      <3> HIDE DEF Bad
      <3> QED  BY <2>1, Least
    <2>3. num[0] = Wrap(value[0])
      <3>1. IntMax \in Nat
        BY ConfigAssumption
      <3>2. 0 \in Integer /\ Wrap(0) \in Integer /\ 0 \in Int
        BY <3>1, WrapInRange DEF Integer
      <3>3. PICK k \in Int : 0 = Wrap(0) + IntValues * k
        BY <3>2, WrapMeans
      <3>4. 0 = Wrap(0)
        BY <3>2, <3>3, WrapUnique
      <3> QED  BY <1>1, <1>2, <3>4
    <2>4. n \in 0 .. Len(s) /\ n # 0 /\ num[n] # Wrap(value[n])
      BY <2>2, <2>3
    <2>5. n \in 1 .. Len(s) /\ n - 1 \in 0 .. Len(s) /\ ~(n <= n - 1)
      BY <2>4
    <2>6. num[n - 1] = Wrap(value[n - 1])
      BY <2>2, <2>5
    <2>7. s[n] \in ToSet(Digits)
      BY <1>3, <2>5 DEF is_numeric, ToSet
    <2>8. Digit(s[n]) \in 0 .. 9
      BY <2>7, DigitInRange
    <2>9. Digit(s[n]) \in Int /\ value[n - 1] \in Int
      BY <2>5, <2>8
    <2>10. Wrap(Wrap(value[n - 1]) * 10 + Digit(s[n]))
           = Wrap(10 * value[n - 1] + Digit(s[n]))
      BY <2>9, WrapStep
    <2>11. num[n] = Wrap(num[n - 1] * 10 + Digit(s[n]))
      BY <1>1, <2>5
    <2>12. value[n] = 10 * value[n - 1] + Digit(s[n])
      BY <1>2, <2>5
    <2> HIDE DEF Bad
    <2> QED  BY <2>4, <2>6, <2>10, <2>11, <2>12
  <1>5. Len(s) \in 0 .. Len(s)
    BY <1>3
  <1> QED  BY <1>1, <1>2, <1>4, <1>5

(* A number that an int can hold is read, and stored, as it is written.    *)
LEMMA AtoiExact ==
  ASSUME NEW s \in Seq(Symbols), is_numeric(s), ~(Decimal(s) > IntMax)
  PROVE  atoi(s) = Decimal(s) /\ SizeT(atoi(s)) = Decimal(s)
  <1> DEFINE n == Decimal(s)
  <1>1. IntMax \in Nat /\ SizeMax \in Nat /\ IntMax < SizeMax
    BY ConfigAssumption
  <1>2. n \in Nat
    <2>1. PICK value \in [0 .. Len(s) -> Nat] : Decimal(s) = value[Len(s)]
      BY DecimalMeans
    <2>2. Len(s) \in 0 .. Len(s)
      BY LenProperties
    <2> QED  BY <2>1, <2>2
  <1>3. atoi(s) = Wrap(n) /\ ~(n > IntMax)
    BY AtoiWraps
  <1> HIDE DEF n
  <1>4. n \in Integer /\ n \in Int /\ n \in 0 .. SizeMax
    BY <1>1, <1>2, <1>3 DEF Integer
  <1>5. PICK k \in Int : Wrap(n) \in Integer /\ n = Wrap(n) + IntValues * k
    BY <1>4, WrapMeans
  <1>6. n = Wrap(n)
    BY <1>4, <1>5, WrapUnique
  <1>7. SizeT(n) = n
    BY <1>4, SizeInRange
  <1> QED  BY <1>3, <1>6, <1>7 DEF n

-----------------------------------------------------------------------------
(*****************************************************************************)
(* The stretches of a line without "=", and what trim() and strtok() make of*)
(* them.                                                                   *)
(*****************************************************************************)
(* trim() of a part of a line is what Text() says of it. *)
LEMMA TrimIsText ==
  ASSUME NEW l \in Seq(Symbols), NEW a \in 1 .. Len(l), NEW b \in a .. Len(l),
         NEW s \in Seq(Symbols), Len(s) = b - a + 1,
         \A i \in 1 .. Len(s) : s[i] = l[a + i - 1]
  PROVE  trim(s) = Text(l, <<a, b>>)
  <1> DEFINE in == Solid(l) \cap (a .. b)
             c == CHOOSE i \in in : \A m \in in : i <= m
             K(i) == {k \in a .. b : k >= i /\ \E j \in in : k <= j}
  <1>1. /\ Len(l) \in Nat /\ DOMAIN l = 1 .. Len(l)
        /\ Len(s) \in Nat /\ DOMAIN s = 1 .. Len(s)
    BY LenProperties
  <1>2. \A i \in 1 .. Len(s) : i \in Solid(s) <=> a + i - 1 \in in
    <2> TAKE i \in 1 .. Len(s)
    <2>1. a + i - 1 \in a .. b /\ a + i - 1 \in 1 .. Len(l)
      BY <1>1
    <2> QED  BY <1>1, <2>1 DEF Solid
  <1>3. Solid(s) \subseteq 1 .. Len(s) /\ in \subseteq a .. b
    BY <1>1 DEF Solid
  <1>4. \A k \in a .. b : k - a + 1 \in 1 .. Len(s) /\ a + (k - a + 1) - 1 = k
    BY <1>1
  <1>5. <<a, b>>[1] = a /\ <<a, b>>[2] = b
    OBVIOUS
  <1>6. Text(l, <<a, b>>) =
          IF in = {} THEN << >>
          ELSE [n \in 1 .. Cardinality(K(c)) |-> l[c + n - 1]]
    BY <1>5 DEF Text
  <1> HIDE DEF in
  <1>7. CASE in = {}
    <2>1. Solid(s) = {}
      BY <1>2, <1>3, <1>7
    <2> QED  BY <1>6, <1>7, <2>1, TrimMeans
  <1>8. CASE in # {}
    <2>1. Solid(s) # {}
      <3>1. PICK k \in in : TRUE
        BY <1>8
      <3>2. k - a + 1 \in Solid(s)
        BY <1>2, <1>3, <1>4, <3>1
      <3> QED  BY <3>2
    <2>2. PICK x, y \in Solid(s) :
            /\ \A i \in Solid(s) : x <= i /\ i <= y
            /\ trim(s) = SubSeq(s, x, y)
            /\ Len(trim(s)) = y - x + 1
            /\ \A i \in 1 .. y - x + 1 : trim(s)[i] = s[x + i - 1]
      BY <2>1, TrimMeans
    <2> DEFINE u == a + x - 1
               w == a + y - 1
    <2>3. x \in 1 .. Len(s) /\ y \in 1 .. Len(s) /\ x <= y
      BY <1>3, <2>2
    <2>4. u \in in /\ w \in in
      BY <1>2, <2>3
    <2>5. \A k \in in : u <= k /\ k <= w
      <3> TAKE k \in in
      <3>1. k - a + 1 \in Solid(s) /\ k \in a .. b
        BY <1>2, <1>3, <1>4
      <3>2. x <= k - a + 1 /\ k - a + 1 <= y
        BY <2>2, <3>1
      <3> QED  BY <2>3, <3>1, <3>2
    <2>6. u \in a .. b /\ w \in a .. b /\ u <= w
      BY <1>3, <2>3, <2>4
    <2> HIDE DEF u, w
    <2>7. c = u
      <3>1. c \in in /\ \A m \in in : c <= m
        BY <2>4, <2>5
      <3> HIDE DEF c
      <3>2. c <= u /\ u <= c /\ c \in Int /\ u \in Int
        BY <1>3, <2>4, <2>5, <3>1
      <3> QED  BY <3>2
    <2>8. K(u) = u .. w
      <3>1. ASSUME NEW k \in a .. b, k >= u, NEW j \in in, k <= j
            PROVE  k \in u .. w
        <4>1. j <= w /\ j \in Int
          BY <1>3, <2>5
        <4> QED  BY <2>6, <3>1, <4>1
      <3>2. ASSUME NEW k \in u .. w
            PROVE  k \in a .. b /\ k >= u /\ k <= w
        BY <2>6
      <3> QED  BY <2>4, <3>1, <3>2
    <2>9. Cardinality(u .. w) = w - u + 1
      BY <2>6, FS_Interval
    <2>10. w - u + 1 = y - x + 1
      BY <2>3 DEF u, w
    <2> HIDE DEF c, K
    <2>11. Text(l, <<a, b>>) = [n \in 1 .. y - x + 1 |-> l[u + n - 1]]
      BY <1>6, <1>8, <2>7, <2>8, <2>9, <2>10
    <2>12. ASSUME NEW n \in 1 .. y - x + 1
           PROVE  trim(s)[n] = l[u + n - 1]
      <3>1. x + n - 1 \in 1 .. Len(s) /\ a + (x + n - 1) - 1 = u + n - 1
        BY <2>3 DEF u
      <3> QED  BY <2>2, <3>1
    <2>13. trim(s) = [n \in 1 .. y - x + 1 |-> trim(s)[n]]
      BY <2>2, TrimMeans, LenProperties
    <2> QED  BY <2>11, <2>12, <2>13
  <1> QED  BY <1>7, <1>8

(* A stretch of the part of a line from A to B. *)
Stretch(l, A, B, a, b) ==
  /\ a \in A .. B /\ b \in a .. B
  /\ \A k \in a .. b : l[k] # "="
  /\ a - 1 \in A .. B => l[a - 1] = "="
  /\ b + 1 \in A .. B => l[b + 1] = "="

(* Stretches are what Stretches() collects between the solid symbols. *)
LEMMA StretchesMean ==
  ASSUME NEW l \in Seq(Symbols), NEW A \in Solid(l), NEW B \in Solid(l),
         \A i \in Solid(l) : A <= i /\ i <= B
  PROVE  /\ \A a, b : Stretch(l, A, B, a, b) => <<a, b>> \in Stretches(l)
         /\ \A p \in Stretches(l) :
              p = <<p[1], p[2]>> /\ Stretch(l, A, B, p[1], p[2])
  <1> DEFINE core == {i \in DOMAIN l : \E a, b \in Solid(l) : a <= i /\ i <= b}
  <1>1. Len(l) \in Nat /\ DOMAIN l = 1 .. Len(l) /\ Solid(l) \subseteq 1 .. Len(l)
    BY LenProperties DEF Solid
  <1>2. core = A .. B
    <2>1. ASSUME NEW i \in A .. B  PROVE i \in core
      BY <1>1
    <2>2. ASSUME NEW i \in core  PROVE i \in A .. B
      <3>1. PICK a, b \in Solid(l) : a <= i /\ i <= b
        OBVIOUS
      <3>2. A <= a /\ b <= B
        OBVIOUS
      <3> QED  BY <1>1, <3>1, <3>2
    <2> QED  BY <2>1, <2>2
  <1>3. Stretches(l) =
          {p \in core \X core :
             /\ p[1] <= p[2] /\ \A k \in p[1] .. p[2] : l[k] # "="
             /\ \A k \in {p[1] - 1, p[2] + 1} \cap core : l[k] = "="}
    BY DEF Stretches
  <1> HIDE DEF core
  <1>4. ASSUME NEW a, NEW b, Stretch(l, A, B, a, b)
        PROVE  <<a, b>> \in Stretches(l)
    <2>1. a \in A .. B /\ b \in A .. B /\ a <= b
      BY <1>1, <1>4 DEF Stretch
    <2>2. \A k \in {a - 1, b + 1} \cap (A .. B) : l[k] = "="
      BY <1>4 DEF Stretch
    <2>3. \A k \in a .. b : l[k] # "="
      BY <1>4 DEF Stretch
    <2> QED  BY <1>2, <1>3, <2>1, <2>2, <2>3
  <1>5. ASSUME NEW p \in Stretches(l)
        PROVE  p = <<p[1], p[2]>> /\ Stretch(l, A, B, p[1], p[2])
    <2>1. /\ p \in (A .. B) \X (A .. B)
          /\ p[1] <= p[2] /\ \A k \in p[1] .. p[2] : l[k] # "="
          /\ \A k \in {p[1] - 1, p[2] + 1} \cap (A .. B) : l[k] = "="
      BY <1>2, <1>3
    <2>2. p = <<p[1], p[2]>> /\ p[1] \in A .. B /\ p[2] \in A .. B
      BY <2>1
    <2> QED  BY <1>1, <2>1, <2>2 DEF Stretch
  <1> QED  BY <1>4, <1>5

(* Stretches do not overlap. *)
LEMMA StretchesApart ==
  ASSUME NEW l, NEW A \in Int, NEW B \in Int, NEW a, NEW b, NEW c, NEW d,
         Stretch(l, A, B, a, b), Stretch(l, A, B, c, d)
  PROVE  (a = c /\ b = d) \/ d < a \/ b < c
  <1>1. /\ a \in A .. B /\ b \in a .. B /\ c \in A .. B /\ d \in c .. B
        /\ a \in Int /\ b \in Int /\ c \in Int /\ d \in Int
    BY DEF Stretch
  <1>2. /\ \A k \in a .. b : l[k] # "="
        /\ a - 1 \in A .. B => l[a - 1] = "="
        /\ b + 1 \in A .. B => l[b + 1] = "="
        /\ \A k \in c .. d : l[k] # "="
        /\ c - 1 \in A .. B => l[c - 1] = "="
        /\ d + 1 \in A .. B => l[d + 1] = "="
    BY DEF Stretch
  <1>3. ASSUME a <= d, c <= b PROVE a = c /\ b = d
    <2>1. ~(c < a)
      <3>1. c < a => a - 1 \in c .. d /\ a - 1 \in A .. B
        BY <1>1, <1>3
      <3> QED  BY <1>2, <3>1
    <2>2. ~(a < c)
      <3>1. a < c => c - 1 \in a .. b /\ c - 1 \in A .. B
        BY <1>1, <1>3
      <3> QED  BY <1>2, <3>1
    <2>3. ~(b < d)
      <3>1. b < d => b + 1 \in c .. d /\ b + 1 \in A .. B
        BY <1>1, <1>3
      <3> QED  BY <1>2, <3>1
    <2>4. ~(d < b)
      <3>1. d < b => d + 1 \in a .. b /\ d + 1 \in A .. B
        BY <1>1, <1>3
      <3> QED  BY <1>2, <3>1
    <2> QED  BY <1>1, <2>1, <2>2, <2>3, <2>4
  <1> QED  BY <1>1, <1>3

(* s is what is left of the line from A to B behind the place o. *)
Left(l, A, B, o, s) ==
  /\ s \in Seq(Symbols) /\ o \in A - 1 .. B + 1
  /\ o \in A .. B => l[o] = "="
  /\ Len(s) = IF o <= B THEN B - o ELSE 0
  /\ \A i \in 1 .. Len(s) : s[i] = l[o + i]

(* strtok() returns the next stretch, and leaves what is behind it. *)
LEMMA SplitIsStretch ==
  ASSUME NEW l \in Seq(Symbols), NEW A \in 1 .. Len(l), NEW B \in A .. Len(l),
         NEW o, NEW s, Left(l, A, B, o, s)
  PROVE  LET t == Split(s).token
             r == Split(s).rest IN
         \/ t = << >> /\ \A k \in o + 1 .. B : l[k] = "="
         \/ /\ t # << >> /\ t \in Seq(Symbols)
            /\ \E a, b \in A .. B :
                 /\ o < a /\ \A k \in o + 1 .. a - 1 : l[k] = "="
                 /\ Stretch(l, A, B, a, b)
                 /\ Len(t) = b - a + 1
                 /\ \A i \in 1 .. Len(t) : t[i] = l[a + i - 1]
                 /\ Left(l, A, B, b + 1, r)
  <1> DEFINE t == Split(s).token
             r == Split(s).rest
             N == {i \in 1 .. Len(s) : s[i] # "="}
  <1>1. /\ s \in Seq(Symbols) /\ o \in A - 1 .. B + 1
        /\ o \in A .. B => l[o] = "="
        /\ Len(s) = IF o <= B THEN B - o ELSE 0
        /\ \A i \in 1 .. Len(s) : s[i] = l[o + i]
    BY DEF Left
  <1>2. /\ Len(l) \in Nat /\ A \in Int /\ B \in Int /\ o \in Int /\ Len(s) \in Nat
        /\ \A i \in 1 .. Len(s) : s[i] \in Symbols
    BY <1>1, LenProperties, ElementOfSeq
  <1>3. \A k \in o + 1 .. B : k - o \in 1 .. Len(s) /\ l[k] = s[k - o]
    <2> TAKE k \in o + 1 .. B
    <2>1. k - o \in 1 .. Len(s) /\ o + (k - o) = k
      BY <1>1, <1>2
    <2> QED  BY <1>1, <2>1
  <1>4. CASE N = {}
    <2>1. t = << >>
      BY <1>1, <1>4, SplitMeans
    <2>2. \A k \in o + 1 .. B : l[k] = "="
      BY <1>3, <1>4
    <2> QED  BY <2>1, <2>2
  <1>5. CASE N # {}
    <2>1. PICK x \in N : \E y \in x .. Len(s) :
            /\ \A i \in N : x <= i
            /\ \A i \in x .. y : s[i] # "="
            /\ y < Len(s) => s[y + 1] = "="
            /\ Split(s) = [token |-> SubSeq(s, x, y),
                           rest  |-> SubSeq(s, y + 2, Len(s))]
      BY <1>1, <1>5, SplitMeans
    <2>2. PICK y \in x .. Len(s) :
            /\ \A i \in N : x <= i
            /\ \A i \in x .. y : s[i] # "="
            /\ y < Len(s) => s[y + 1] = "="
            /\ Split(s) = [token |-> SubSeq(s, x, y),
                           rest  |-> SubSeq(s, y + 2, Len(s))]
      BY <2>1
    <2>3. x \in 1 .. Len(s) /\ y \in 1 .. Len(s) /\ x <= y
      BY <1>2
    <2>4. Len(s) = B - o /\ o <= B
      BY <1>1, <1>2, <2>3
    <2>5. t = SubSeq(s, x, y) /\ r = SubSeq(s, y + 2, Len(s))
      BY <2>2
    <2> HIDE DEF t, r
    <2>6. /\ t \in Seq(Symbols) /\ Len(t) = y - x + 1
          /\ \A i \in 1 .. y - x + 1 : t[i] = s[x + i - 1]
      <3>1. \A i \in x .. y : s[i] \in Symbols
        BY <1>2, <2>3
      <3> QED  BY <2>3, <2>5, <3>1, SubSeqProperties
    <2>7. /\ r \in Seq(Symbols)
          /\ Len(r) = IF y + 2 <= Len(s) THEN Len(s) - (y + 2) + 1 ELSE 0
          /\ \A i \in 1 .. Len(s) - (y + 2) + 1 : r[i] = s[y + 2 + i - 1]
      <3>1. \A i \in y + 2 .. Len(s) : s[i] \in Symbols
        BY <1>2, <2>3
      <3>2. y + 2 \in Int /\ Len(s) \in Int
        BY <1>2, <2>3
      <3> QED  BY <2>5, <3>1, <3>2, SubSeqProperties
    <2> DEFINE a == o + x
               b == o + y
    <2>8. a \in A .. B /\ b \in A .. B /\ a <= b /\ o < a
      BY <1>1, <1>2, <2>3, <2>4
    <2>9. ASSUME NEW k \in o + 1 .. a - 1  PROVE l[k] = "="
      <3>1. k \in o + 1 .. B /\ ~(x <= k - o)
        BY <1>2, <2>3, <2>8
      <3> QED  BY <1>3, <2>2, <3>1
    <2>10. ASSUME NEW k \in a .. b  PROVE l[k] # "="
      <3>1. k \in o + 1 .. B /\ k - o \in x .. y
        BY <1>2, <2>3, <2>8
      <3> QED  BY <1>3, <2>2, <3>1
    <2>11. b + 1 \in A .. B => l[b + 1] = "="
      <3>1. b + 1 \in A .. B => y < Len(s) /\ b + 1 \in o + 1 .. B
                                /\ (b + 1) - o = y + 1
        BY <1>2, <2>3, <2>4
      <3> QED  BY <1>3, <2>2, <3>1
    <2>12. a - 1 \in A .. B => l[a - 1] = "="
      <3>1. a - 1 = o \/ a - 1 \in o + 1 .. a - 1
        BY <1>2, <2>3
      <3> QED  BY <1>1, <2>9, <3>1
    <2>13. Stretch(l, A, B, a, b)
      <3>1. b \in a .. B
        BY <1>2, <2>8
      <3> QED  BY <2>8, <2>10, <2>11, <2>12, <3>1 DEF Stretch
    <2>14. /\ Len(t) = b - a + 1
           /\ \A i \in 1 .. Len(t) : t[i] = l[a + i - 1]
      <3>1. Len(t) = b - a + 1
        BY <1>2, <2>3, <2>6
      <3>2. ASSUME NEW i \in 1 .. Len(t)  PROVE t[i] = l[a + i - 1]
        <4>1. /\ i \in 1 .. y - x + 1 /\ x + i - 1 \in 1 .. Len(s)
              /\ o + (x + i - 1) = a + i - 1
          BY <1>2, <2>3, <2>6
        <4> QED  BY <1>1, <2>6, <4>1
      <3> QED  BY <3>1, <3>2
    <2>15. Left(l, A, B, b + 1, r)
      <3>1. b + 1 \in A - 1 .. B + 1
        BY <1>2, <2>8
      <3>2. Len(r) = IF b + 1 <= B THEN B - (b + 1) ELSE 0
        BY <1>2, <2>3, <2>4, <2>7
      <3>3. ASSUME NEW i \in 1 .. Len(r)  PROVE r[i] = l[(b + 1) + i]
        <4>1. /\ i \in 1 .. Len(s) - (y + 2) + 1 /\ y + 2 + i - 1 \in 1 .. Len(s)
              /\ o + (y + 2 + i - 1) = (b + 1) + i
          BY <1>2, <2>3, <2>7
        <4> QED  BY <1>1, <2>7, <4>1
      <3> QED  BY <2>7, <2>11, <3>1, <3>2, <3>3 DEF Left
    <2>16. t # << >>
      BY <2>3, <2>6
    <2> HIDE DEF a, b
    <2> QED  BY <2>6, <2>8, <2>9, <2>13, <2>14, <2>15, <2>16 DEF t, r
  <1> QED  BY <1>4, <1>5

(* The first symbol of a sequence. *)
LEMMA FirstOne ==
  ASSUME NEW s
  PROVE  SubSeq(s, 1, 1) = <<s[1]>>
  <1> DEFINE q == SubSeq(s, 1, 1)
             S == {s[1]}
  <1>1. \A i \in 1 .. 1 : s[i] \in S
    OBVIOUS
  <1> HIDE DEF S
  <1>2. q \in Seq(S) /\ Len(q) = 1 /\ q[1] = s[1]
    BY <1>1, SubSeqProperties
  <1> HIDE DEF q
  <1>3. q = <<s[1]>>
    BY <1>2
  <1> QED  BY <1>3 DEF q

(* How a sequence begins. *)
LEMMA PrefixMeans ==
  ASSUME NEW S, NEW t \in Seq(S), NEW a
  PROVE  /\ IsPrefix(<<a>>, t) <=> Len(t) >= 1 /\ t[1] = a
         /\ IsPrefix(<<a, a>>, t) <=> Len(t) >= 2 /\ t[1] = a /\ t[2] = a
  <1>1. Len(t) \in Nat
    BY LenProperties
  <1>2. IsPrefix(<<a>>, t) <=> 1 <= Len(t) /\ <<a>> = <<t[1]>>
    <2> DEFINE s == <<a>>
    <2>1. Len(s) = 1 /\ s[1] = a
      OBVIOUS
    <2> HIDE DEF s
    <2>2. SubSeq(s, 1, 1) = <<a>> /\ SubSeq(t, 1, 1) = <<t[1]>>
      BY <2>1, FirstOne
    <2>3. IsPrefix(s, t) <=> 1 <= Len(t) /\ <<a>> = <<t[1]>>
      BY <2>1, <2>2 DEF IsPrefix
    <2> QED  BY <2>3 DEF s
  <1>3. IsPrefix(<<a, a>>, t) <=> 2 <= Len(t) /\ <<a, a>> = <<t[1], t[2]>>
    <2> DEFINE s == <<a, a>>
               T == {a, t[1], t[2]}
    <2>1. Len(s) = 2 /\ s[1] = a /\ s[2] = a
      OBVIOUS
    <2>2. a \in T /\ t[1] \in T /\ t[2] \in T
      OBVIOUS
    <2> HIDE DEF s, T
    <2>3. SubSeq(s, 1, 2) = <<a, a>>
      BY <2>1, <2>2, FirstTwo
    <2>4. SubSeq(t, 1, 2) = <<t[1], t[2]>>
      BY <2>2, FirstTwo
    <2>5. IsPrefix(s, t) <=> 2 <= Len(t) /\ <<a, a>> = <<t[1], t[2]>>
      BY <2>1, <2>3, <2>4 DEF IsPrefix
    <2> QED  BY <2>5 DEF s
  <1> QED  BY <1>1, <1>2, <1>3

(* The test for a comment in start_config() sees what IsComment() says. *)
LEMMA CommentMeans ==
  ASSUME NEW l \in Seq(Symbols)
  PROVE  Comment(trim(l)) <=> IsComment(l)
  <1> DEFINE t == trim(l)
             hash == "#"
             slash == "/"
  <1>1. Len(l) \in Nat /\ DOMAIN l = 1 .. Len(l) /\ Solid(l) \subseteq 1 .. Len(l)
    BY LenProperties DEF Solid
  <1>2. t \in Seq(Symbols) /\ Len(t) \in Nat
    BY TrimMeans, LenProperties
  <1>3. Comment(t) <=> \/ Len(t) >= 1 /\ t[1] = hash
                       \/ Len(t) >= 2 /\ t[1] = slash /\ t[2] = slash
    <2>1. IsPrefix(<<hash>>, t) <=> Len(t) >= 1 /\ t[1] = hash
      <3> HIDE DEF t, hash
      <3> QED  BY <1>2, PrefixMeans
    <2>2. IsPrefix(<<slash, slash>>, t) <=>
            Len(t) >= 2 /\ t[1] = slash /\ t[2] = slash
      <3> HIDE DEF t, slash
      <3> QED  BY <1>2, PrefixMeans
    <2> QED  BY <2>1, <2>2 DEF Comment
  <1>4. IsComment(l) <=>
          \E i \in Solid(l) :
            /\ \A k \in Solid(l) : i <= k
            /\ l[i] = hash \/ (l[i] = slash /\ i + 1 \in DOMAIN l /\ l[i + 1] = slash)
    BY DEF IsComment
  <1>5. slash # " "
    OBVIOUS
  <1>6. CASE Solid(l) = {}
    <2>1. Len(t) = 0
      BY <1>6, TrimMeans
    <2> QED  BY <1>3, <1>4, <1>6, <2>1
  <1>7. CASE Solid(l) # {}
    <2>1. PICK A, B \in Solid(l) :
            /\ \A i \in Solid(l) : A <= i /\ i <= B
            /\ Len(t) = B - A + 1
            /\ \A i \in 1 .. B - A + 1 : t[i] = l[A + i - 1]
      BY <1>7, TrimMeans
    <2> HIDE DEF t, hash, slash
    <2>2. A \in 1 .. Len(l) /\ B \in 1 .. Len(l) /\ A <= B
      BY <1>1, <2>1
    <2>3. Len(t) >= 1 /\ t[1] = l[A]
      <3>1. 1 \in 1 .. B - A + 1 /\ A + 1 - 1 = A
        BY <2>2
      <3> QED  BY <2>1, <2>2, <3>1
    <2>4. Len(t) >= 2 <=> A + 1 <= B
      BY <2>1, <2>2
    <2>5. A + 1 <= B => t[2] = l[A + 1]
      <3>1. A + 1 <= B => 2 \in 1 .. B - A + 1 /\ A + 2 - 1 = A + 1
        BY <2>2
      <3> QED  BY <2>1, <3>1
    <2>6. \A i \in Solid(l) : (\A k \in Solid(l) : i <= k) => i = A
      BY <1>1, <2>1, <2>2
    <2>7. A + 1 \in DOMAIN l /\ l[A + 1] = slash => A + 1 <= B
      <3>1. A + 1 \in DOMAIN l /\ l[A + 1] = slash => A + 1 \in Solid(l)
        BY <1>5 DEF Solid
      <3> QED  BY <2>1, <3>1
    <2>8. A + 1 <= B => A + 1 \in DOMAIN l
      BY <1>1, <2>2
    <2>9. IsComment(l) <=>
            \/ l[A] = hash
            \/ l[A] = slash /\ A + 1 \in DOMAIN l /\ l[A + 1] = slash
      BY <1>4, <2>1, <2>6
    <2>10. Comment(t) <=> IsComment(l)
      BY <1>3, <2>3, <2>4, <2>5, <2>7, <2>8, <2>9
    <2> QED  BY <2>10 DEF t
  <1> QED  BY <1>6, <1>7

(* Earliest() is the stretch that begins before all others. *)
LEMMA EarliestMeans ==
  ASSUME NEW S, NEW p \in S,
         \A q \in S : q[1] \in Int /\ (q = p \/ p[1] < q[1])
  PROVE  Earliest(S) = p
  <1> DEFINE c == CHOOSE x \in S : \A q \in S : x[1] <= q[1]
  <1>1. \A q \in S : p[1] <= q[1]
    OBVIOUS
  <1>2. c \in S /\ \A q \in S : c[1] <= q[1]
    BY <1>1
  <1>3. Earliest(S) = c
    BY DEF Earliest
  <1> HIDE DEF c
  <1>4. c[1] <= p[1] /\ c[1] \in Int /\ p[1] \in Int
    BY <1>2
  <1>5. c = p
    BY <1>2, <1>4
  <1> QED  BY <1>3, <1>5

(* A set with two elements. *)
LEMMA TwoElements ==
  ASSUME NEW S, IsFiniteSet(S), NEW p \in S, NEW q \in S, p # q
  PROVE  ~(Cardinality(S) < 2)
  <1> DEFINE T == S \ {p}
  <1>1. IsFiniteSet(T) /\ Cardinality(T) = Cardinality(S) - 1
    BY FS_RemoveElement
  <1>2. T # {}
    OBVIOUS
  <1> HIDE DEF T
  <1>3. Cardinality(T) \in Nat /\ Cardinality(T) # 0 /\ Cardinality(S) \in Nat
    BY <1>1, <1>2, FS_EmptySet, FS_CardinalityType
  <1> QED  BY <1>1, <1>3

(* strtok() finds the first two stretches of a line. *)
LEMMA PartsMean ==
  ASSUME NEW l \in Seq(Symbols)
  PROVE  LET f == Split(trim(l))
             g == Split(f.rest)
             S == Stretches(l)
             first == Earliest(S) IN
         /\ f.token = << >> \/ g.token = << >> <=> Cardinality(S) < 2
         /\ ~(f.token = << >> \/ g.token = << >>) =>
              /\ trim(f.token) = Text(l, first)
              /\ trim(g.token) = Text(l, Earliest(S \ {first}))
  <1> DEFINE t == trim(l)
             f == Split(t)
             g == Split(f.rest)
             S == Stretches(l)
             first == Earliest(S)
  <1>1. Len(l) \in Nat /\ DOMAIN l = 1 .. Len(l) /\ Solid(l) \subseteq 1 .. Len(l)
    BY LenProperties DEF Solid
  <1>2. Cardinality({}) = 0
    BY FS_EmptySet
  <1>3. CASE Solid(l) = {}
    <2>1. t = << >>
      BY <1>3, TrimMeans
    <2>2. f.token = << >>
      <3> DEFINE e == << >>
      <3>1. e \in Seq(Symbols) /\ Len(e) = 0
        OBVIOUS
      <3> HIDE DEF e
      <3>2. {i \in 1 .. Len(e) : e[i] # "="} = {}
        BY <3>1
      <3>3. Split(e) = [token |-> << >>, rest |-> << >>]
        BY <3>1, <3>2, SplitMeans
      <3> QED  BY <2>1, <3>3 DEF e
    <2>3. S = {}
      BY <1>3 DEF Stretches
    <2> QED  BY <1>2, <2>2, <2>3
  <1>4. CASE Solid(l) # {}
    <2>1. PICK A, B \in Solid(l) :
            /\ \A i \in Solid(l) : A <= i /\ i <= B
            /\ Len(t) = B - A + 1
            /\ \A i \in 1 .. B - A + 1 : t[i] = l[A + i - 1]
      BY <1>4, TrimMeans
    <2>2. A \in 1 .. Len(l) /\ B \in A .. Len(l) /\ A \in Int /\ B \in Int
      BY <1>1, <2>1
    <2>3. Left(l, A, B, A - 1, t)
      <3>1. t \in Seq(Symbols)
        BY TrimMeans
      <3> HIDE DEF t
      <3>2. A - 1 \in A - 1 .. B + 1 /\ A - 1 \notin A .. B
        BY <2>2
      <3>3. Len(t) = IF A - 1 <= B THEN B - (A - 1) ELSE 0
        BY <2>1, <2>2
      <3>4. ASSUME NEW i \in 1 .. Len(t)  PROVE t[i] = l[(A - 1) + i]
        <4>1. i \in 1 .. B - A + 1 /\ (A - 1) + i = A + i - 1
          BY <2>1, <2>2
        <4> QED  BY <2>1, <4>1
      <3> QED  BY <3>1, <3>2, <3>3, <3>4 DEF Left
    <2>4. /\ \A a, b : Stretch(l, A, B, a, b) => <<a, b>> \in S
          /\ \A p \in S : p = <<p[1], p[2]>> /\ Stretch(l, A, B, p[1], p[2])
      BY <2>1, StretchesMean
    <2> HIDE DEF S, t
    <2>5. \A p \in S : /\ p[1] \in A .. B /\ p[2] \in A .. B /\ p[1] <= p[2]
                       /\ l[p[1]] # "="
      <3> TAKE p \in S
      <3>1. /\ p[1] \in A .. B /\ p[2] \in p[1] .. B
            /\ \A k \in p[1] .. p[2] : l[k] # "="
        BY <2>4 DEF Stretch
      <3> QED  BY <2>2, <3>1
    <2>6. IsFiniteSet(S)
      <3>1. S \subseteq (A .. B) \X (A .. B)
        BY <2>4, <2>5
      <3>2. IsFiniteSet(A .. B)
        BY <2>2, FS_Interval
      <3>3. IsFiniteSet((A .. B) \X (A .. B))
        BY <3>2, FS_Product
      <3> QED  BY <3>1, <3>3, FS_Subset
    <2> DEFINE First(a, b) ==
                 /\ A - 1 < a /\ \A k \in (A - 1) + 1 .. a - 1 : l[k] = "="
                 /\ Stretch(l, A, B, a, b)
                 /\ Len(f.token) = b - a + 1
                 /\ \A i \in 1 .. Len(f.token) : f.token[i] = l[a + i - 1]
                 /\ Left(l, A, B, b + 1, f.rest)
               Done ==
                 /\ f.token = << >> \/ g.token = << >> <=> Cardinality(S) < 2
                 /\ ~(f.token = << >> \/ g.token = << >>) =>
                      /\ trim(f.token) = Text(l, first)
                      /\ trim(g.token) = Text(l, Earliest(S \ {first}))
    <2>7. ASSUME f.token = << >>, \A k \in (A - 1) + 1 .. B : l[k] = "="
          PROVE  Done
      <3>1. S = {}
        BY <2>2, <2>5, <2>7
      <3> QED  BY <1>2, <2>7, <3>1 DEF S, t
    <2>8. ASSUME f.token # << >>, f.token \in Seq(Symbols),
                 NEW a1 \in A .. B, NEW b1 \in A .. B, First(a1, b1)
          PROVE  Done
      <3> DEFINE p1 == <<a1, b1>>
      <3>1. p1 \in S /\ p1[1] = a1 /\ p1[2] = b1
        BY <2>4, <2>8
      <3>2. \A q \in S : q = p1 \/ (a1 < q[1] /\ b1 < q[1])
        <4> TAKE q \in S
        <4>1. q = <<q[1], q[2]>> /\ Stretch(l, A, B, q[1], q[2])
          BY <2>4
        <4>2. ~(q[1] < a1)
          <5>1. q[1] \in A .. B /\ l[q[1]] # "="
            BY <2>5
          <5>2. q[1] < a1 => q[1] \in (A - 1) + 1 .. a1 - 1
            BY <2>2, <5>1
          <5> QED  BY <2>8, <5>1, <5>2
        <4>3. (q[1] = a1 /\ q[2] = b1) \/ q[2] < a1 \/ b1 < q[1]
          BY <2>2, <2>8, <4>1, StretchesApart
        <4>4. a1 <= b1
          BY <2>8 DEF Stretch
        <4> QED  BY <2>2, <2>5, <4>1, <4>2, <4>3, <4>4
      <3>3. first = p1
        <4>1. \A q \in S : q[1] \in Int /\ (q = p1 \/ p1[1] < q[1])
          BY <2>2, <2>5, <3>1, <3>2
        <4> HIDE DEF p1
        <4> QED  BY <3>1, <4>1, EarliestMeans
      <3>4. trim(f.token) = Text(l, p1)
        <4> DEFINE s == f.token
        <4>1. /\ s \in Seq(Symbols) /\ Len(s) = b1 - a1 + 1
              /\ \A i \in 1 .. Len(s) : s[i] = l[a1 + i - 1]
              /\ a1 \in 1 .. Len(l) /\ b1 \in a1 .. Len(l)
          BY <2>2, <2>8 DEF Stretch
        <4> HIDE DEF s
        <4>2. trim(s) = Text(l, <<a1, b1>>)
          BY <4>1, TrimIsText
        <4> QED  BY <4>2 DEF s
      <3>5. CASE g.token = << >> /\ \A k \in (b1 + 1) + 1 .. B : l[k] = "="
        <4>1. \A q \in S : q = p1
          <5> TAKE q \in S
          <5>1. ~(b1 < q[1])
            <6>1. q[1] \in A .. B /\ l[q[1]] # "="
              BY <2>5
            <6>2. b1 < q[1] => q[1] = b1 + 1 \/ q[1] \in (b1 + 1) + 1 .. B
              BY <2>2, <6>1
            <6>3. b1 + 1 \in A .. B => l[b1 + 1] = "="
              BY <2>8 DEF Stretch
            <6> QED  BY <3>5, <6>1, <6>2, <6>3
          <5> QED  BY <3>2, <5>1
        <4>2. S = {p1}
          BY <3>1, <4>1
        <4>3. Cardinality(S) = 1
          BY <4>2, FS_Singleton
        <4> QED  BY <3>5, <4>3
      <3>6. ASSUME g.token # << >>, g.token \in Seq(Symbols),
                   NEW a2 \in A .. B, NEW b2 \in A .. B, b1 + 1 < a2,
                   \A k \in (b1 + 1) + 1 .. a2 - 1 : l[k] = "=",
                   Stretch(l, A, B, a2, b2), Len(g.token) = b2 - a2 + 1,
                   \A i \in 1 .. Len(g.token) : g.token[i] = l[a2 + i - 1]
            PROVE  /\ ~(Cardinality(S) < 2)
                   /\ trim(g.token) = Text(l, Earliest(S \ {first}))
        <4> DEFINE p2 == <<a2, b2>>
                   R == S \ {p1}
        <4>1. p2 \in S /\ p2[1] = a2 /\ p2[2] = b2
          BY <2>4, <3>6
        <4>2. p2 # p1 /\ p2 \in R
          <5>1. a1 # a2
            <6>1. a1 <= b1
              BY <2>8 DEF Stretch
            <6> QED  BY <2>2, <3>6, <6>1
          <5> QED  BY <4>1, <5>1
        <4>3. ~(Cardinality(S) < 2)
          <5> HIDE DEF p1, p2
          <5> QED  BY <2>6, <3>1, <4>1, <4>2, TwoElements
        <4>4. \A q \in R : q = p2 \/ a2 < q[1]
          <5> TAKE q \in R
          <5>1. q = <<q[1], q[2]>> /\ Stretch(l, A, B, q[1], q[2])
            BY <2>4
          <5>2. q[1] \in A .. B /\ l[q[1]] # "=" /\ q[2] \in A .. B /\ q[1] <= q[2]
            BY <2>5
          <5>3. b1 < q[1]
            BY <3>2
          <5>4. ~(q[1] < a2)
            <6>1. b1 + 1 \in A .. B => l[b1 + 1] = "="
              BY <2>8 DEF Stretch
            <6>2. q[1] < a2 => q[1] = b1 + 1 \/ q[1] \in (b1 + 1) + 1 .. a2 - 1
              BY <2>2, <5>2, <5>3
            <6> QED  BY <3>6, <5>2, <6>1, <6>2
          <5>5. (q[1] = a2 /\ q[2] = b2) \/ q[2] < a2 \/ b2 < q[1]
            BY <2>2, <3>6, <5>1, StretchesApart
          <5>6. a2 <= b2
            BY <3>6 DEF Stretch
          <5> QED  BY <2>2, <5>1, <5>2, <5>4, <5>5, <5>6
        <4>5. Earliest(R) = p2
          <5>1. \A q \in R : q[1] \in Int /\ (q = p2 \/ p2[1] < q[1])
            BY <2>2, <2>5, <4>1, <4>4
          <5> HIDE DEF p2, R
          <5> QED  BY <4>2, <5>1, EarliestMeans
        <4>6. trim(g.token) = Text(l, p2)
          <5> DEFINE s == g.token
          <5>1. /\ s \in Seq(Symbols) /\ Len(s) = b2 - a2 + 1
                /\ \A i \in 1 .. Len(s) : s[i] = l[a2 + i - 1]
                /\ a2 \in 1 .. Len(l) /\ b2 \in a2 .. Len(l)
            BY <2>2, <3>6 DEF Stretch
          <5> HIDE DEF s
          <5>2. trim(s) = Text(l, <<a2, b2>>)
            BY <5>1, TrimIsText
          <5> QED  BY <5>2 DEF s
        <4> HIDE DEF first, p1, p2, g
        <4> QED  BY <3>3, <4>3, <4>5, <4>6
      <3>7. \/ g.token = << >> /\ \A k \in (b1 + 1) + 1 .. B : l[k] = "="
            \/ /\ g.token # << >> /\ g.token \in Seq(Symbols)
               /\ \E a, b \in A .. B :
                    /\ b1 + 1 < a /\ \A k \in (b1 + 1) + 1 .. a - 1 : l[k] = "="
                    /\ Stretch(l, A, B, a, b)
                    /\ Len(g.token) = b - a + 1
                    /\ \A i \in 1 .. Len(g.token) : g.token[i] = l[a + i - 1]
        <4> DEFINE s == f.rest
                   u == Split(s).token
        <4>1. Left(l, A, B, b1 + 1, s)
          BY <2>8
        <4> HIDE DEF s
        <4>2. \/ u = << >> /\ \A k \in (b1 + 1) + 1 .. B : l[k] = "="
              \/ /\ u # << >> /\ u \in Seq(Symbols)
                 /\ \E a, b \in A .. B :
                      /\ b1 + 1 < a /\ \A k \in (b1 + 1) + 1 .. a - 1 : l[k] = "="
                      /\ Stretch(l, A, B, a, b)
                      /\ Len(u) = b - a + 1
                      /\ \A i \in 1 .. Len(u) : u[i] = l[a + i - 1]
                      /\ Left(l, A, B, b + 1, Split(s).rest)
          BY <2>2, <4>1, SplitIsStretch
        <4>3. u = g.token
          BY DEF s
        <4> HIDE DEF u, g
        <4> QED  BY <4>2, <4>3
      <3> HIDE DEF f, g, first
      <3> QED  BY <2>8, <3>3, <3>4, <3>5, <3>6, <3>7
    <2>9. \/ f.token = << >> /\ \A k \in (A - 1) + 1 .. B : l[k] = "="
          \/ /\ f.token # << >> /\ f.token \in Seq(Symbols)
             /\ \E a, b \in A .. B : First(a, b)
      BY <2>2, <2>3, SplitIsStretch
    <2>10. Done
      <3> HIDE DEF First, Done
      <3> QED  BY <2>7, <2>8, <2>9
    <2> QED  BY <2>10 DEF S, t
  <1> QED  BY <1>3, <1>4

-----------------------------------------------------------------------------
(*****************************************************************************)
(* What a line does, and what a file does.                                 *)
(*****************************************************************************)
(* What ReadLine(l) makes of a configuration ... *)
Outcome(l, c) ==
  IF Comment(trim(l)) THEN c ELSE parse_configfile(trim(l), c)

(* ... is what the line means. *)
Means(l, c) ==
  LET M == Meaning[l] IN
  \/ M.kind \notin {"bad", "sets", "unclear"} /\ Outcome(l, c) = c
  \/ M.kind = "bad" /\ Outcome(l, c) = Refused
  \/ M.kind = "sets" /\ M.key \in Texts \cup Numbers
     /\ Outcome(l, c) = [c EXCEPT ![M.key] = M.value]
  \/ M.kind = "unclear" /\ M.key \in Texts \cup Numbers
     /\ \/ Outcome(l, c) = Refused
        \/ \E x : Outcome(l, c) = [c EXCEPT ![M.key] = x]

(* What a line does is what it means. *)
LEMMA LineMeans ==
  ASSUME NEW l \in Lines, NEW c
  PROVE  Means(l, c)
  <1> DEFINE line == trim(l)
             f == Split(line)
             g == Split(f.rest)
             S == Stretches(l)
             first == Earliest(S)
             name == Text(l, first)
             value == Text(l, Earliest(S \ {first}))
             key == name[1]
             bad == \E i \in DOMAIN value : value[i] \in Forbidden(key)
             odd == \E i \in DOMAIN value : value[i] \notin ToSet(Digits)
             num == Decimal(value)
             unclear == value = << >> \/ num > IntMax
  <1>1. l \in Seq(Symbols)
    BY ConfigAssumption
  <1>2. Comment(line) <=> IsComment(l)
    BY <1>1, CommentMeans
  <1>3. /\ f.token = << >> \/ g.token = << >> <=> Cardinality(S) < 2
        /\ ~(f.token = << >> \/ g.token = << >>) =>
             trim(f.token) = name /\ trim(g.token) = value
    BY <1>1, PartsMean
  <1>4. trim(f.token) \in Seq(Symbols) /\ trim(g.token) \in Seq(Symbols)
    BY <1>1, TrimMeans, SplitTypes
  <1>5. Meaning[l] =
          IF IsComment(l) THEN [kind |-> "comment"]
          ELSE IF Cardinality(S) < 2 THEN [kind |-> "bad"]
          ELSE IF name = << >> \/ key \notin Texts \cup Numbers
               THEN [kind |-> "other"]
          ELSE IF key \in Texts
               THEN [kind |-> IF bad THEN "bad" ELSE "sets", key |-> key,
                     value |-> filename_format(key, value)]
          ELSE IF odd THEN [kind |-> "bad"]
          ELSE IF unclear THEN [kind |-> "unclear", key |-> key, value |-> num]
          ELSE [kind |-> IF Accepted(key, num) THEN "sets" ELSE "bad",
                key |-> key, value |-> num]
    BY DEF Meaning
  <1>6. Outcome(l, c) =
          IF Comment(line) THEN c
          ELSE IF f.token = << >> \/ g.token = << >> THEN Refused
          ELSE IF trim(f.token) = << >> THEN c
          ELSE IF Head(trim(f.token)) \in Texts
               THEN SetText(c, Head(trim(f.token)), trim(g.token))
          ELSE IF Head(trim(f.token)) \in Numbers
               THEN SetNumber(c, Head(trim(f.token)), trim(g.token))
          ELSE c
    BY KeysDiffer DEF Outcome, parse_configfile
  <1> HIDE DEF line, f, g, S, first, name, value, num, unclear, bad, odd, key
  <1>7. CASE IsComment(l)
    BY <1>2, <1>5, <1>6, <1>7 DEF Means
  <1>8. CASE ~IsComment(l) /\ Cardinality(S) < 2
    BY <1>2, <1>3, <1>5, <1>6, <1>8 DEF Means
  <1>9. CASE ~IsComment(l) /\ ~(Cardinality(S) < 2)
    <2>1. /\ trim(f.token) = name /\ trim(g.token) = value
          /\ name \in Seq(Symbols) /\ value \in Seq(Symbols)
      BY <1>3, <1>4, <1>9
    <2>2. name # << >> => Head(name) = key
      BY <2>1 DEF key
    <2>3. CASE name = << >> \/ key \notin Texts \cup Numbers
      <3>1. Meaning[l] = [kind |-> "other"]
        BY <1>5, <1>9, <2>3
      <3>2. Outcome(l, c) = c
        BY <1>2, <1>3, <1>6, <1>9, <2>1, <2>2, <2>3
      <3> QED  BY <3>1, <3>2 DEF Means
    <2>4. CASE name # << >> /\ key \in Texts
      <3>1. Meaning[l] = [kind |-> IF bad THEN "bad" ELSE "sets", key |-> key,
                          value |-> filename_format(key, value)]
        BY <1>5, <1>9, <2>4
      <3>2. Outcome(l, c) = SetText(c, key, value)
        BY <1>2, <1>3, <1>6, <1>9, <2>1, <2>2, <2>4
      <3>3. bad <=> ToSet(value) \cap Forbidden(key) # {}
        BY DEF bad, ToSet
      <3>4. CASE bad
        <4>1. Outcome(l, c) = Refused
          BY <3>2, <3>3, <3>4 DEF SetText
        <4> QED  BY <3>1, <3>4, <4>1 DEF Means
      <3>5. CASE ~bad
        <4>1. Outcome(l, c) = [c EXCEPT ![key] = filename_format(key, value)]
          BY <3>2, <3>3, <3>5 DEF SetText
        <4> QED  BY <2>4, <3>1, <3>5, <4>1 DEF Means
      <3> QED  BY <3>4, <3>5
    <2>5. CASE name # << >> /\ key \in Numbers
      <3>1. key \notin Texts
        BY <2>5, KeysDiffer
      <3>2. Outcome(l, c) = SetNumber(c, key, value)
        BY <1>2, <1>3, <1>6, <1>9, <2>1, <2>2, <2>5, <3>1
      <3>3. odd <=> ~is_numeric(value)
        BY DEF odd, ToSet, is_numeric
      <3>4. CASE odd
        <4>1. Meaning[l] = [kind |-> "bad"]
          BY <1>5, <1>9, <2>5, <3>1, <3>4
        <4>2. Outcome(l, c) = Refused
          BY <3>2, <3>3, <3>4 DEF SetNumber
        <4> QED  BY <4>1, <4>2 DEF Means
      <3>5. CASE ~odd /\ unclear
        <4>1. Meaning[l] = [kind |-> "unclear", key |-> key, value |-> num]
          BY <1>5, <1>9, <2>5, <3>1, <3>5
        <4>2. \/ Outcome(l, c) = Refused
              \/ Outcome(l, c) = [c EXCEPT ![key] = SizeT(atoi(value))]
          BY <3>2 DEF SetNumber
        <4> QED  BY <2>5, <4>1, <4>2 DEF Means
      <3>6. CASE ~odd /\ ~unclear
        <4>1. Meaning[l] = [kind |-> IF Accepted(key,
        num) THEN "sets" ELSE "bad",
                            key |-> key, value |-> num]
          BY <1>5, <1>9, <2>5, <3>1, <3>6
        <4>2. atoi(value) = num /\ SizeT(atoi(value)) = num
          BY <2>1, <3>3, <3>6, AtoiExact DEF num, unclear
        <4>3. CASE Accepted(key, num)
          <5>1. Outcome(l, c) = [c EXCEPT ![key] = num]
            BY <3>2, <3>3, <3>6, <4>2, <4>3 DEF SetNumber
          <5> QED  BY <2>5, <4>1, <4>3, <5>1 DEF Means
        <4>4. CASE ~Accepted(key, num)
          <5>1. Outcome(l, c) = Refused
            BY <3>2, <3>3, <3>6, <4>2, <4>4 DEF SetNumber
          <5> QED  BY <4>1, <4>4, <5>1 DEF Means
        <4> QED  BY <4>3, <4>4
      <3> QED  BY <3>4, <3>5, <3>6
    <2> QED  BY <2>3, <2>4, <2>5
  <1> QED  BY <1>7, <1>8, <1>9

(* MeansFile for the lines f, the configuration c and the place p. *)
Setting(f, key) ==
  {n \in DOMAIN f : /\ Meaning[f[n]].kind \in {"sets", "unclear"}
                    /\ Meaning[f[n]].key = key}

MeansOf(f, c, p) ==
  /\ \A n \in DOMAIN f : Meaning[f[n]].kind = "bad" => n = Len(f) /\ p = "refused"
  /\ p = "refused" /\ f # << >> => Meaning[f[Len(f)]].kind \in {"bad", "unclear"}
  /\ \A key \in Texts \cup Numbers :
       IF Setting(f, key) = {} THEN c[key] = Unset
       ELSE Meaning[f[Max(Setting(f, key))]].kind = "sets" =>
              c[key] = Meaning[f[Max(Setting(f, key))]].value

(* One more line. *)
LEMMA AddLine ==
  ASSUME NEW f \in Seq(Lines), NEW c, NEW p, NEW d, NEW q, NEW l \in Lines,
         MeansOf(f, c, p), p # "refused", DOMAIN c = Texts \cup Numbers,
         IF Outcome(l, c) = Refused THEN q = "refused" /\ d = c
         ELSE d = Outcome(l, c) /\ q = p
  PROVE  MeansOf(Append(f, l), d, q)
  <1> DEFINE h == Append(f, l)
             n == Len(f)
             M == Meaning[l]
  <1>1. /\ n \in Nat /\ DOMAIN f = 1 .. n /\ Len(h) = n + 1
        /\ DOMAIN h = 1 .. n + 1 /\ h[n + 1] = l
        /\ \A i \in 1 .. n : h[i] = f[i]
    <2>1. h \in Seq(Lines) /\ Len(h) = n + 1 /\ h[n + 1] = l
          /\ \A i \in 1 .. n : h[i] = f[i]
      OBVIOUS
    <2> HIDE DEF h
    <2> QED  BY <2>1, LenProperties
  <1> HIDE DEF h, n
  <1>2. Means(l, c)
    BY LineMeans
  <1>3. c # Refused /\ \A x : [c EXCEPT ![M.key] = x] # Refused
    <2>1. DOMAIN Refused = {} /\ Texts \cup Numbers # {}
      BY DEF Refused, Numbers
    <2>2. \A x : DOMAIN [c EXCEPT ![M.key] = x] = Texts \cup Numbers
      OBVIOUS
    <2> QED  BY <2>1, <2>2
  <1>4. \/ M.kind \notin {"bad", "sets", "unclear"} /\ q = p /\ d = c
        \/ M.kind = "bad" /\ q = "refused" /\ d = c
        \/ M.kind = "sets" /\ M.key \in Texts \cup Numbers /\ q = p
           /\ d = [c EXCEPT ![M.key] = M.value]
        \/ M.kind = "unclear" /\ M.key \in Texts \cup Numbers
           /\ (d = c \/ \E x : d = [c EXCEPT ![M.key] = x])
    <2>1. CASE M.kind \notin {"bad", "sets", "unclear"} /\ Outcome(l, c) = c
      BY <1>3, <2>1
    <2>2. CASE M.kind = "bad" /\ Outcome(l, c) = Refused
      BY <2>2
    <2>3. CASE M.kind = "sets" /\ M.key \in Texts \cup Numbers
               /\ Outcome(l, c) = [c EXCEPT ![M.key] = M.value]
      <3> HIDE DEF M
      <3>1. Outcome(l, c) # Refused
        BY <1>3, <2>3
      <3> QED  BY <2>3, <3>1
    <2>4. CASE /\ M.kind = "unclear" /\ M.key \in Texts \cup Numbers
               /\ \/ Outcome(l, c) = Refused
                  \/ \E x : Outcome(l, c) = [c EXCEPT ![M.key] = x]
      <3> HIDE DEF M
      <3> QED  BY <2>4
    <2> QED  BY <1>2, <2>1, <2>2, <2>3, <2>4 DEF Means
  <1>5. \A i \in 1 .. n : Meaning[f[i]].kind # "bad"
    BY <1>1 DEF MeansOf
  <1>6. /\ M.kind = "bad" => q = "refused"
        /\ q = "refused" => M.kind \in {"bad", "unclear"}
    BY <1>4
  <1>7. ASSUME NEW i \in DOMAIN h, Meaning[h[i]].kind = "bad"
        PROVE  i = Len(h) /\ q = "refused"
    <2>1. CASE i = n + 1
      BY <1>1, <1>6, <1>7, <2>1
    <2>2. CASE i # n + 1
      <3>1. i \in 1 .. n
        BY <1>1, <2>2
      <3> QED  BY <1>1, <1>5, <1>7, <3>1
    <2> QED  BY <2>1, <2>2
  <1>9. q = "refused" => Meaning[h[Len(h)]].kind \in {"bad", "unclear"}
    BY <1>1, <1>6
  <1>8. ASSUME NEW key \in Texts \cup Numbers
        PROVE  IF Setting(h, key) = {} THEN d[key] = Unset
               ELSE Meaning[h[Max(Setting(h, key))]].kind = "sets" =>
                      d[key] = Meaning[h[Max(Setting(h, key))]].value
    <2> DEFINE L == Setting(f, key)
               K == Setting(h, key)
    <2>1. L \subseteq 1 .. n /\ K \subseteq 1 .. n + 1
      BY <1>1 DEF Setting
    <2>2. \A i \in 1 .. n : i \in K <=> i \in L
      <3> TAKE i \in 1 .. n
      <3>1. i \in 1 .. n + 1 /\ h[i] = f[i]
        BY <1>1
      <3> QED  BY <1>1, <3>1 DEF Setting
    <2>3. n + 1 \in K <=> M.kind \in {"sets", "unclear"} /\ M.key = key
      <3>1. n + 1 \in DOMAIN h /\ h[n + 1] = l
        BY <1>1
      <3> QED  BY <3>1 DEF Setting
    <2>4. IF L = {} THEN c[key] = Unset
          ELSE Meaning[f[Max(L)]].kind = "sets" => c[key] = Meaning[f[Max(L)]].value
      BY DEF MeansOf
    <2> HIDE DEF L, K
    <2>5. CASE n + 1 \in K
      <3>1. M.kind = "sets" => d[key] = M.value
        BY <1>4, <2>3, <2>5
      <3>2. K \in SUBSET (0 .. n + 1) /\ n + 1 \in Nat
        BY <1>1, <2>1
      <3>3. Max(K) \in K /\ \A i \in K : i <= Max(K)
        BY <2>5, <3>2, MaxIsGreatest
      <3>4. n + 1 <= Max(K) /\ Max(K) \in 1 .. n + 1
        BY <2>1, <2>5, <3>3
      <3>5. Max(K) = n + 1
        BY <1>1, <3>4
      <3> QED  BY <1>1, <2>5, <3>1, <3>5 DEF K
    <2>6. CASE n + 1 \notin K
      <3>1. K = L
        <4>1. \A i \in 1 .. n + 1 : i \in 1 .. n \/ i = n + 1
          BY <1>1
        <4>2. 1 .. n \subseteq 1 .. n + 1
          BY <1>1
        <4> QED  BY <2>1, <2>2, <2>6, <4>1, <4>2
      <3>2. d[key] = c[key]
        <4>1. CASE d = c
          BY <4>1
        <4>2. CASE M.kind = "sets" /\ M.key \in Texts \cup Numbers
                   /\ d = [c EXCEPT ![M.key] = M.value]
          <5>1. M.key # key
            BY <2>3, <2>6, <4>2
          <5> QED  BY <4>2, <5>1
        <4>3. CASE M.kind = "unclear" /\ M.key \in Texts \cup Numbers
                   /\ \E x : d = [c EXCEPT ![M.key] = x]
          <5>1. M.key # key
            BY <2>3, <2>6, <4>3
          <5> QED  BY <4>3, <5>1
        <4> QED  BY <1>4, <4>1, <4>2, <4>3
      <3>3. L # {} => h[Max(L)] = f[Max(L)]
        <4>1. L \in SUBSET (0 .. n)
          BY <1>1, <2>1
        <4>2. L # {} => Max(L) \in L
          BY <1>1, <4>1, MaxIsGreatest
        <4> QED  BY <1>1, <2>1, <4>2
      <3> QED  BY <2>4, <3>1, <3>2, <3>3 DEF K
    <2> QED  BY <2>5, <2>6
  <1> QED  BY <1>7, <1>8, <1>9 DEF MeansOf, h

(* This is MeansFile, ... *)
LEMMA MeansFileIs == MeansFile <=> MeansOf(file, conf, pc)
  BY DEF MeansFile, MeansOf, Setting

(* ... which holds initially, ... *)
LEMMA InitMeans == Init => MeansFile
  <1> SUFFICES ASSUME Init PROVE MeansOf(file, conf, pc)
    BY MeansFileIs
  <1>1. DOMAIN file = {} /\ \A key \in Texts \cup Numbers : conf[key] = Unset
    BY DEF Init
  <1>2. \A key : Setting(file, key) = {}
    BY <1>1 DEF Setting
  <1> QED  BY <1>1, <1>2 DEF MeansOf

(* ... and which every step keeps. *)
LEMMA NextMeans ==
  ASSUME ConfigInv, MeansFile, [Next]_vars
  PROVE  MeansFile'
  <1> SUFFICES MeansOf(file', conf', pc')
    BY DEF MeansFile, MeansOf, Setting
  <1>1. MeansOf(file, conf, pc) /\ TypeOK /\ NameInv
    BY MeansFileIs DEF ConfigInv
  <1>2. CASE Start
    <2>1. file = << >> /\ file' = file /\ conf' = conf
      BY <1>1, <1>2 DEF Start, NameInv
    <2>2. DOMAIN file = {}
      BY <2>1
    <2> QED  BY <1>1, <2>1, <2>2 DEF MeansOf
  <1>3. ASSUME NEW l \in Lines, ReadLine(l)  PROVE MeansOf(file', conf', pc')
    <2>1. /\ pc = "reading" /\ file' = Append(file, l)
          /\ IF Outcome(l, conf) = Refused THEN pc' = "refused" /\ conf' = conf
             ELSE conf' = Outcome(l, conf) /\ pc' = pc
      BY <1>3 DEF ReadLine, Outcome
    <2>2. file \in Seq(Lines) /\ DOMAIN conf = Texts \cup Numbers
      BY <1>1 DEF TypeOK
    <2>3. MeansOf(Append(file, l), conf', pc')
      BY <1>1, <2>1, <2>2, AddLine
    <2> QED  BY <2>1, <2>3
  <1>4. CASE EndOfFile
    <2>1. pc # "refused" /\ pc' # "refused" /\ file' = file /\ conf' = conf
      BY <1>4 DEF EndOfFile
    <2> QED  BY <1>1, <2>1 DEF MeansOf
  <1>5. CASE UNCHANGED vars
    BY <1>1, <1>5 DEF vars
  <1> QED  BY <1>2, <1>3, <1>4, <1>5 DEF Next

(* MeansFile: what start_config() and parse_configfile() make of a file of *)
(* any number of lines is what its lines mean, but for the fields whose    *)
(* last line leaves the number out or gives one that no int can hold.      *)
THEOREM FileMeans == Spec => []MeansFile
  <1> QED  BY InvHolds, InitMeans, NextMeans, PTL DEF Spec
=============================================================================
