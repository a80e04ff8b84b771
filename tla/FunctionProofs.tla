--------------------------- MODULE FunctionProofs ---------------------------
(***************************************************************************)
(* What the standard functions of the C library answer, for every width of *)
(* the integers and bit strings, every limit of STRINGs, and all the       *)
(* STRINGs and instants that are given.                                    *)
(*                                                                         *)
(* One lemma for each function compares what the code computes with what   *)
(* the standard says; a function keeps no state, so that these are all     *)
(* there is to an invariant of the calls.                                  *)
(***************************************************************************)
EXTENDS MCLib, SequenceTheorems, FiniteSetTheorems, WellFoundedInduction, TLAPS

-----------------------------------------------------------------------------
(* STRINGs.  Letters are the characters of any number.                     *)
Letters == Seq(Nat)

LEMMA TextTypes ==
    /\ STR_MAX_LEN \in Nat \ {0} /\ StrlenRange \in Nat /\ 2 * STR_MAX_LEN < StrlenRange
    /\ \A s \in Texts : s \in Letters /\ Len(s) \in Nat /\ Len(s) <= STR_MAX_LEN
    /\ \A s \in Texts : \A m \in 1 .. Len(s) + 1, n \in 0 .. Len(s) : SubSeq(s, m, n) \in Texts
BY FunctionAssumption DEF Letters, STRING_type

LEMMA PartOfText ==
    ASSUME NEW s \in Letters, NEW m \in 1 .. Len(s) + 1, NEW n \in m - 1 .. Len(s)
    PROVE  /\ SubSeq(s, m, n) \in Letters
           /\ Len(SubSeq(s, m, n)) = n - m + 1
           /\ \A i \in 1 .. n - m + 1 : SubSeq(s, m, n)[i] = s[m + i - 1]
<1>1. \A i \in m .. n : s[i] \in Nat
  BY DEF Letters
<1>2. m \in Int /\ n \in Int
  BY DEF Letters
<1>3. /\ SubSeq(s, m, n) \in Seq(Nat)
      /\ Len(SubSeq(s, m, n)) = IF m <= n THEN n - m + 1 ELSE 0
      /\ \A i \in 1 .. n - m + 1 : SubSeq(s, m, n)[i] = s[m + i - 1]
  BY <1>1, <1>2, SubSeqProperties
<1>4. QED  BY <1>2, <1>3 DEF Letters

LEMMA CopiedText ==
    ASSUME NEW s \in Letters, NEW n \in 0 .. Len(s)
    PROVE  /\ Copied(s, n) \in Letters /\ Len(Copied(s, n)) = n
           /\ \A i \in 1 .. n : Copied(s, n)[i] = s[i]
<1>1. Len(s) \in Nat /\ 1 \in 1 .. Len(s) + 1 /\ n \in 1 - 1 .. Len(s)
  BY DEF Letters
<1>2. /\ SubSeq(s, 1, n) \in Letters /\ Len(SubSeq(s, 1, n)) = n - 1 + 1
      /\ \A i \in 1 .. n - 1 + 1 : SubSeq(s, 1, n)[i] = s[1 + i - 1]
  BY <1>1, PartOfText
<1>3. QED  BY <1>1, <1>2 DEF Copied

LEMMA PastText ==
    ASSUME NEW s \in Letters, NEW n \in 0 .. Len(s)
    PROVE  /\ Past(s, n) \in Letters /\ Len(Past(s, n)) = Len(s) - n
           /\ \A i \in 1 .. Len(s) - n : Past(s, n)[i] = s[n + i]
<1> DEFINE m == n + 1
           l == Len(s)
<1>1. l \in Nat /\ m \in 1 .. Len(s) + 1 /\ l \in m - 1 .. Len(s) /\ m = n + 1
  BY DEF Letters
<1>2. Past(s, n) = SubSeq(s, m, l)
  BY DEF Past
<1> HIDE DEF m, l
<1>3. /\ SubSeq(s, m, l) \in Letters /\ Len(SubSeq(s, m, l)) = l - m + 1
      /\ \A i \in 1 .. l - m + 1 : SubSeq(s, m, l)[i] = s[m + i - 1]
  BY <1>1, PartOfText
<1>4. l - m + 1 = l - n /\ \A i \in 1 .. l - n : m + i - 1 = n + i
  BY <1>1
<1>5. QED  BY <1>2, <1>3, <1>4 DEF l

LEMMA NothingPast ==
    ASSUME NEW s \in Letters, NEW n \in Int, n >= Len(s)
    PROVE  Past(s, n) = <<>>
<1>1. Len(s) \in Int /\ n + 1 \in Int /\ Len(s) < n + 1
  BY DEF Letters
<1>2. QED  BY <1>1, SubSeqEmpty DEF Past

LEMMA WholeText ==
    ASSUME NEW s \in Letters
    PROVE  Copied(s, Len(s)) = s
BY SubSeqFull DEF Copied, Letters

LEMMA JoinedText ==
    ASSUME NEW s \in Letters, NEW t \in Letters
    PROVE  /\ s \o t \in Letters /\ Len(s \o t) = Len(s) + Len(t)
           /\ Len(s) \in Nat /\ Len(t) \in Nat
           /\ \A i \in 1 .. Len(s) + Len(t) : (s \o t)[i] = IF i <= Len(s) THEN s[i] ELSE t[i - Len(s)]
BY ConcatProperties DEF Letters

LEMMA JoinsAssociate ==
    ASSUME NEW s \in Letters, NEW t \in Letters, NEW u \in Letters
    PROVE  (s \o t) \o u = s \o (t \o u)
BY ConcatAssociative, SMTT(30) DEF Letters

LEMMA SameText ==
    ASSUME NEW s \in Letters, NEW t \in Letters, Len(s) = Len(t),
           \A i \in 1 .. Len(s) : s[i] = t[i]
    PROVE  s = t
BY SeqEqual DEF Letters

LEMMA NoText ==
    /\ <<>> \in Letters /\ Len(<<>>) = 0
    /\ \A s \in Letters : s \o <<>> = s /\ <<>> \o s = s
    /\ \A s \in Letters : Len(s) = 0 => s = <<>>
<1>1. ASSUME NEW s \in Letters PROVE s \o <<>> = s /\ <<>> \o s = s
  BY <1>1, ConcatEmptySeq DEF Letters
<1>2. QED  BY <1>1 DEF Letters

(* A text is what is copied of it and what follows.                        *)
LEMMA TextSplits ==
    ASSUME NEW s \in Letters, NEW n \in 0 .. Len(s)
    PROVE  Copied(s, n) \o Past(s, n) = s
<1> DEFINE a == Copied(s, n)
           b == Past(s, n)
<1>1. a \in Letters /\ Len(a) = n /\ \A i \in 1 .. n : a[i] = s[i]
  BY CopiedText
<1>2. b \in Letters /\ Len(b) = Len(s) - n /\ \A i \in 1 .. Len(s) - n : b[i] = s[n + i]
  BY PastText
<1> HIDE DEF a, b
<1>3. /\ a \o b \in Letters /\ Len(a \o b) = Len(a) + Len(b)
      /\ \A i \in 1 .. Len(a) + Len(b) : (a \o b)[i] = IF i <= Len(a) THEN a[i] ELSE b[i - Len(a)]
  BY <1>1, <1>2, JoinedText
<1>4. Len(s) \in Nat /\ n \in Nat /\ n <= Len(s)
  BY DEF Letters
<1>5. ASSUME NEW i \in 1 .. Len(a \o b) PROVE (a \o b)[i] = s[i]
  <2>1. CASE i <= n
    BY <1>1, <1>2, <1>3, <1>4, <2>1
  <2>2. CASE i > n
    <3>1. i - n \in 1 .. Len(s) - n /\ i = n + (i - n)
      BY <1>1, <1>2, <1>3, <1>4, <2>2
    <3>2. b[i - n] = s[i]
      BY <1>2, <3>1
    <3>3. QED  BY <1>1, <1>2, <1>3, <1>4, <2>2, <3>2
  <2>3. QED  BY <1>4, <2>1, <2>2
<1>6. Len(a \o b) = Len(s)
  BY <1>1, <1>2, <1>3, <1>4
<1>7. a \o b = s
  BY <1>3, <1>5, <1>6, SameText
<1>8. QED  BY <1>7 DEF a, b

(* Fitting cuts to what a STRING holds.                                    *)
LEMMA FittingText ==
    ASSUME NEW s \in Letters
    PROVE  /\ Fitting(s) \in Letters /\ Len(Fitting(s)) = Lesser(Len(s), STR_MAX_LEN)
           /\ \A i \in 1 .. Lesser(Len(s), STR_MAX_LEN) : Fitting(s)[i] = s[i]
           /\ Len(s) <= STR_MAX_LEN => Fitting(s) = s
           /\ Len(s) \in Nat
<1>1. Len(s) \in Nat /\ STR_MAX_LEN \in Nat
  BY TextTypes DEF Letters
<1>2. Lesser(Len(s), STR_MAX_LEN) \in 0 .. Len(s)
  BY <1>1 DEF Lesser
<1>3. Len(s) <= STR_MAX_LEN => Lesser(Len(s), STR_MAX_LEN) = Len(s)
  BY <1>1 DEF Lesser
<1>4. QED  BY <1>1, <1>2, <1>3, CopiedText, WholeText DEF Fitting

LEMMA FittingAlike ==
    ASSUME NEW s \in Letters, NEW t \in Letters,
           Lesser(Len(s), STR_MAX_LEN) = Lesser(Len(t), STR_MAX_LEN),
           \A i \in 1 .. Lesser(Len(s), STR_MAX_LEN) : s[i] = t[i]
    PROVE  Fitting(s) = Fitting(t)
<1> DEFINE u == Fitting(s)
           v == Fitting(t)
           n == Lesser(Len(s), STR_MAX_LEN)
<1>1. u \in Letters /\ Len(u) = n /\ \A i \in 1 .. n : u[i] = s[i]
  BY FittingText
<1>2. v \in Letters /\ Len(v) = n /\ \A i \in 1 .. n : v[i] = t[i]
  BY FittingText
<1>3. \A i \in 1 .. n : s[i] = t[i]
  OBVIOUS
<1> HIDE DEF u, v, n
<1>4. u = v
  BY <1>1, <1>2, <1>3, SameText
<1>5. QED  BY <1>4 DEF u, v

(* What is appended as far as there is room makes the join that fits.      *)
LEMMA AppendedInRoom ==
    ASSUME NEW s \in Letters, Len(s) <= STR_MAX_LEN, NEW t \in Letters
    PROVE  s \o Copied(t, Lesser(Len(t), Room(s))) = Fitting(s \o t)
<1> DEFINE n == Lesser(Len(t), Room(s))
           u == Copied(t, n)
           whole == s \o t
           M == STR_MAX_LEN
<1>1. Len(s) \in Nat /\ Len(t) \in Nat /\ M \in Nat
  BY TextTypes DEF Letters
<1>2. n \in 0 .. Len(t) /\ n = IF Len(t) < M - Len(s) THEN Len(t) ELSE M - Len(s)
  BY <1>1 DEF Lesser, Room
<1>3. u \in Letters /\ Len(u) = n /\ \A i \in 1 .. n : u[i] = t[i]
  BY <1>2, CopiedText
<1>4. /\ whole \in Letters /\ Len(whole) = Len(s) + Len(t)
      /\ \A i \in 1 .. Len(s) + Len(t) : whole[i] = IF i <= Len(s) THEN s[i] ELSE t[i - Len(s)]
  BY JoinedText
<1>5. /\ Fitting(whole) \in Letters /\ Len(Fitting(whole)) = Lesser(Len(whole), M)
      /\ \A i \in 1 .. Lesser(Len(whole), M) : Fitting(whole)[i] = whole[i]
  BY <1>4, FittingText
<1> HIDE DEF u, whole, n
<1>6. /\ s \o u \in Letters /\ Len(s \o u) = Len(s) + Len(u)
      /\ \A i \in 1 .. Len(s) + Len(u) : (s \o u)[i] = IF i <= Len(s) THEN s[i] ELSE u[i - Len(s)]
  BY <1>3, JoinedText
<1>7. Lesser(Len(whole), M) = Len(s) + n /\ n \in Nat /\ n <= Len(t)
  BY <1>1, <1>2, <1>4 DEF Lesser
<1>8. Len(s \o u) = Len(Fitting(whole))
  BY <1>3, <1>5, <1>6, <1>7
<1>9. ASSUME NEW i \in 1 .. Len(s \o u) PROVE (s \o u)[i] = Fitting(whole)[i]
  <2>1. i \in 1 .. Len(s) + n /\ i \in 1 .. Len(s) + Len(t)
    BY <1>1, <1>3, <1>6, <1>7
  <2>2. Fitting(whole)[i] = whole[i]
    BY <1>5, <1>7, <2>1
  <2>3. CASE i <= Len(s)
    BY <1>3, <1>4, <1>6, <2>1, <2>2, <2>3
  <2>4. CASE i > Len(s)
    <3>1. i - Len(s) \in 1 .. n /\ ~(i <= Len(s))
      BY <1>1, <1>7, <2>1, <2>4
    <3>2. u[i - Len(s)] = t[i - Len(s)]
      BY <1>3, <3>1
    <3>3. QED  BY <1>3, <1>4, <1>6, <2>1, <2>2, <3>1, <3>2
  <2>5. QED  BY <1>1, <2>1, <2>3, <2>4
<1>10. s \o u = Fitting(whole)
  BY <1>5, <1>6, <1>8, <1>9, SameText
<1>11. QED  BY <1>10 DEF u, n, whole

(* It does not matter whether a join is cut once or after each part.       *)
LEMMA FittingTwice ==
    ASSUME NEW s \in Letters, NEW t \in Letters
    PROVE  Fitting(Fitting(s) \o t) = Fitting(s \o t)
<1> DEFINE f == Fitting(s)
           M == STR_MAX_LEN
           a == f \o t
           b == s \o t
           n == Lesser(Len(s), M)
<1>1. Len(s) \in Nat /\ Len(t) \in Nat /\ M \in Nat
  BY TextTypes DEF Letters
<1>2. f \in Letters /\ Len(f) = n /\ (\A i \in 1 .. n : f[i] = s[i]) /\ (Len(s) <= M => f = s)
  BY FittingText
<1>3. CASE Len(s) <= M
  BY <1>2, <1>3
<1>4. CASE Len(s) > M
  <2>1. n = M
    BY <1>1, <1>4 DEF Lesser
  <2> HIDE DEF f, n
  <2>2. /\ a \in Letters /\ Len(a) = Len(f) + Len(t)
        /\ \A i \in 1 .. Len(f) + Len(t) : a[i] = IF i <= Len(f) THEN f[i] ELSE t[i - Len(f)]
    BY <1>2, JoinedText
  <2>3. /\ b \in Letters /\ Len(b) = Len(s) + Len(t)
        /\ \A i \in 1 .. Len(s) + Len(t) : b[i] = IF i <= Len(s) THEN s[i] ELSE t[i - Len(s)]
    BY JoinedText
  <2> HIDE DEF a, b
  <2>4. Lesser(Len(a), M) = M /\ Lesser(Len(b), M) = M
    BY <1>1, <1>2, <1>4, <2>1, <2>2, <2>3 DEF Lesser
  <2>5. ASSUME NEW i \in 1 .. M PROVE a[i] = b[i]
    <3>1. i <= Len(f) /\ i \in 1 .. Len(f) + Len(t) /\ i <= Len(s) /\ i \in 1 .. Len(s) + Len(t)
      BY <1>1, <1>2, <1>4, <2>1
    <3>2. a[i] = f[i] /\ b[i] = s[i] /\ f[i] = s[i]
      BY <1>2, <2>1, <2>2, <2>3, <3>1
    <3>3. QED  BY <3>2
  <2>6. Fitting(a) = Fitting(b)
    BY <2>2, <2>3, <2>4, <2>5, FittingAlike
  <2>7. QED  BY <2>6 DEF a, b, f
<1>5. QED  BY <1>1, <1>3, <1>4

(* The functions on texts answer what the standard says, one by one.       *)
LEMMA LenAnswers ==
    ASSUME NEW s \in Texts
    PROVE  StringsAnswer("LEN", <<s>>, LEN(s))
BY DEF StringsAnswer, LEN

LEMMA LeftAnswers ==
    ASSUME NEW s \in Texts, NEW l \in Nat
    PROVE  StringsAnswer("LEFT", <<s, l>>, LEFT(s, l))
<1> DEFINE n == Lesser(l, Len(s))
           y == Copied(s, n)
           x == <<s, l>>
<1>1. s \in Letters /\ Len(s) \in Nat
  BY TextTypes
<1>2. n \in 0 .. Len(s)
  BY <1>1 DEF Lesser
<1>3. Len(y) = n
  BY <1>1, <1>2, CopiedText
<1>4. IsPrefix(y, s)
  BY <1>1, <1>2, <1>3 DEF IsPrefix
<1>5. y = LEFT(s, l) /\ x[1] = s /\ x[2] = l
  BY DEF LEFT
<1> HIDE DEF y, x
<1>6. QED  BY <1>3, <1>4, <1>5 DEF StringsAnswer, x

LEMMA RightAnswers ==
    ASSUME NEW s \in Texts, NEW l \in Nat
    PROVE  StringsAnswer("RIGHT", <<s, l>>, RIGHT(s, l))
<1> DEFINE n == Len(s) - Lesser(l, Len(s))
           head == Copied(s, n)
           y == Past(s, n)
           x == <<s, l>>
<1>1. s \in Letters /\ Len(s) \in Nat
  BY TextTypes
<1>2. n \in 0 .. Len(s) /\ Len(s) - n = Lesser(l, Len(s))
  BY <1>1 DEF Lesser
<1>3. Len(y) = Lesser(l, Len(s)) /\ head \o y = s
  BY <1>1, <1>2, PastText, TextSplits
<1>4. head \in Texts
  BY <1>1, <1>2, TextTypes DEF Copied
<1>5. y = RIGHT(s, l) /\ x[1] = s /\ x[2] = l
  BY DEF RIGHT
<1> HIDE DEF y, x, head
<1>6. QED  BY <1>3, <1>4, <1>5 DEF StringsAnswer, x

LEMMA MidAnswers ==
    ASSUME NEW s \in Texts, NEW l \in Nat, NEW p \in Nat \ {0}
    PROVE  StringsAnswer("MID", <<s, l, p>>, MID(s, l, p))
<1> DEFINE k == Lesser(l, Len(s) - (p - 1))
           y == MID(s, l, p)
           x == <<s, l, p>>
           in == {i \in DOMAIN s : p <= i /\ i < p + l}
<1>1. s \in Letters /\ Len(s) \in Nat /\ DOMAIN s = 1 .. Len(s)
  BY TextTypes DEF Letters
<1>2. y = [i \in 1 .. Len(y) |-> s[p - 1 + i]] /\ Len(y) = Cardinality(in)
  <2>1. CASE p > Len(s)
    <3>1. y = <<>> /\ Len(y) = 0
      BY <2>1 DEF MID
    <3>2. in = {}
      BY <1>1, <2>1
    <3> HIDE DEF in, y
    <3>3. Cardinality(in) = 0
      BY <3>2, FS_EmptySet
    <3>4. [i \in 1 .. 0 |-> s[p - 1 + i]] = <<>>
      OBVIOUS
    <3>5. QED  BY <3>1, <3>3, <3>4
  <2>2. CASE p <= Len(s)
    <3> DEFINE n == p - 1 + k
    <3>1. k \in Nat /\ n \in p - 1 .. Len(s) /\ p \in 1 .. Len(s) + 1 /\ n - p + 1 = k
      BY <1>1, <2>2 DEF Lesser
    <3>2. y = SubSeq(s, p, n)
      <4>1. ~(p > Len(s))
        BY <1>1, <2>2
      <4>2. QED  BY <4>1, Zenon DEF MID
    <3>3. in = p .. n
      BY <1>1, <2>2 DEF Lesser
    <3> HIDE DEF n, k, y, in
    <3>4. y \in Letters /\ Len(y) = n - p + 1 /\ \A i \in 1 .. n - p + 1 : y[i] = s[p + i - 1]
      BY <1>1, <3>1, <3>2, PartOfText
    <3>5. Cardinality(in) = k
      <4>1. p \in Int /\ n \in Int
        BY <1>1, <3>1
      <4>2. Cardinality(p .. n) = IF p > n THEN 0 ELSE n - p + 1
        BY <4>1, FS_Interval
      <4>3. QED  BY <3>1, <3>3, <4>1, <4>2
    <3>6. y = [i \in 1 .. Len(y) |-> s[p - 1 + i]]
      <4>1. y \in Seq(Nat)
        BY <3>4 DEF Letters
      <4>2. \A i \in 1 .. Len(y) : y[i] = s[p - 1 + i]
        BY <3>1, <3>4
      <4>3. y = [i \in 1 .. Len(y) |-> y[i]]
        BY <4>1
      <4>4. QED  BY <4>2, <4>3
    <3>7. QED  BY <3>1, <3>4, <3>5, <3>6
  <2>3. QED  BY <1>1, <2>1, <2>2
<1>3. x[1] = s /\ x[2] = l /\ x[3] = p
  OBVIOUS
<1>4. in = {i \in DOMAIN x[1] : x[3] <= i /\ i < x[3] + x[2]}
  BY <1>3
<1>5. [i \in 1 .. Len(y) |-> s[p - 1 + i]] = [i \in 1 .. Len(y) |-> x[1][x[3] - 1 + i]]
  BY <1>3
<1> HIDE DEF y, x, in
<1>6. y = [i \in 1 .. Len(y) |-> x[1][x[3] - 1 + i]]
  BY <1>2, <1>5
<1>7. Len(y) = Cardinality({i \in DOMAIN x[1] : x[3] <= i /\ i < x[3] + x[2]})
  BY <1>2, <1>4
<1>8. StringsAnswer("MID", x, y)
  BY <1>6, <1>7 DEF StringsAnswer
<1>9. QED  BY <1>8 DEF x, y

LEMMA InsertAnswers ==
    ASSUME NEW s \in Texts, NEW t \in Texts, NEW p \in Nat
    PROVE  StringsAnswer("INSERT", <<s, t, p>>, INSERT(s, t, p))
<1> DEFINE x == <<s, t, p>>
           n == Lesser(p, Len(s))
           head == Copied(s, n)
           mid == head \o Copied(t, Lesser(Len(t), Room(head)))
           rest == Past(s, n)
           y == mid \o Copied(rest, Lesser(Len(rest), Room(mid)))
<1>1. /\ s \in Letters /\ t \in Letters /\ Len(s) \in Nat /\ Len(s) <= STR_MAX_LEN
      /\ STR_MAX_LEN \in Nat /\ StrlenRange \in Nat
  BY TextTypes
<1>2. n \in 0 .. Len(s) /\ n \in Nat
  BY <1>1 DEF Lesser
<1>3. head \in Letters /\ Len(head) = n /\ rest \in Letters
  BY <1>1, <1>2, CopiedText, PastText
<1>4. Len(head) <= STR_MAX_LEN
  BY <1>1, <1>2, <1>3
<1>5. mid = Fitting(head \o t)
  BY <1>1, <1>3, <1>4, AppendedInRoom
<1>6. mid \in Letters /\ Len(mid) <= STR_MAX_LEN
  <2>1. head \o t \in Letters
    BY <1>1, <1>3, JoinedText
  <2>2. Fitting(head \o t) \in Letters /\ Len(Fitting(head \o t)) = Lesser(Len(head \o t), STR_MAX_LEN)
        /\ Len(head \o t) \in Nat
    BY <2>1, FittingText
  <2> HIDE DEF mid, head
  <2>3. mid \in Letters /\ Len(mid) = Lesser(Len(head \o t), STR_MAX_LEN)
    BY <1>5, <2>2
  <2>4. QED  BY <1>1, <2>2, <2>3 DEF Lesser
<1>7. rest = Past(s, p)
  <2>1. CASE p <= Len(s)
    <3>1. n = p
      BY <1>1, <2>1 DEF Lesser
    <3>2. QED  BY <3>1
  <2>2. CASE p > Len(s)
    <3>1. n = Len(s) /\ n \in Int
      BY <1>1, <2>2 DEF Lesser
    <3>2. rest = <<>> /\ Past(s, p) = <<>>
      BY <1>1, <2>2, <3>1, NothingPast
    <3>3. QED  BY <3>2
  <2>3. QED  BY <1>1, <2>1, <2>2
<1>8. p < StrlenRange => y = INSERT(s, t, p)
  <2>1. p < StrlenRange => strlen(p) = p
    BY <1>1 DEF strlen
  <2>2. p < StrlenRange => Lesser(strlen(p), Len(s)) = n
    BY <2>1
  <2>3. QED  BY <1>3, <2>2 DEF INSERT
<1> HIDE DEF head, mid, rest, n
<1>9. y = Fitting(mid \o rest)
  BY <1>3, <1>6, AppendedInRoom
<1>10. y = Fitting((head \o t) \o rest)
  <2>1. head \o t \in Letters
    BY <1>1, <1>3, JoinedText
  <2>2. QED  BY <1>3, <1>5, <1>9, <2>1, FittingTwice
<1>11. x[1] = s /\ x[2] = t /\ x[3] = p
  OBVIOUS
<1> HIDE DEF x, y
<1>12. p < StrlenRange => INSERT(s, t, p) = Fitting(Copied(s, Lesser(p, Len(s))) \o t \o Past(s, p))
  BY <1>7, <1>8, <1>10 DEF head, n
<1>13. StringsAnswer("INSERT", x, INSERT(s, t, p))
  BY <1>11, <1>12 DEF StringsAnswer
<1>14. QED  BY <1>13 DEF x

LEMMA BeforePlace ==
    ASSUME NEW s \in Texts, NEW p \in 1 .. STR_MAX_LEN + 1
    PROVE  Before(s, strlen(p)) = Copied(s, Lesser(p - 1, Len(s)))
<1>1. /\ Len(s) \in Nat /\ STR_MAX_LEN \in Nat \ {0} /\ StrlenRange \in Nat
      /\ 2 * STR_MAX_LEN < StrlenRange
  BY TextTypes
<1>2. strlen(p) = p
  BY <1>1 DEF strlen
<1>3. Lesser(p - 1, Len(s)) = IF p > Len(s) THEN Len(s) ELSE p - 1
  BY <1>1 DEF Lesser
<1>4. QED  BY <1>2, <1>3 DEF Before

LEMMA DeleteAnswers ==
    ASSUME NEW s \in Texts, NEW l \in Nat, NEW p \in 1 .. STR_MAX_LEN + 1
    PROVE  StringsAnswer("DELETE", <<s, l, p>>, DELETE(s, l, p))
<1> DEFINE x == <<s, l, p>>
           n == Lesser(p - 1, Len(s))
           k == Lesser(l, Len(s) - n)
           a == Copied(s, n)
           rest == Past(s, n)
           b == Copied(rest, k)
           c == Past(rest, k)
           y == DELETE(s, l, p)
<1>1. s \in Letters /\ Len(s) \in Nat /\ Len(s) <= STR_MAX_LEN /\ STR_MAX_LEN \in Nat /\ StrlenRange \in Nat
  BY TextTypes
<1>2. n \in 0 .. Len(s) /\ n \in Nat
  BY <1>1 DEF Lesser
<1>3. /\ a \in Letters /\ Len(a) = n
      /\ rest \in Letters /\ Len(rest) = Len(s) - n
      /\ \A i \in 1 .. Len(s) - n : rest[i] = s[n + i]
  BY <1>1, <1>2, CopiedText, PastText
<1>4. a \o rest = s
  BY <1>1, <1>2, TextSplits
<1>5. k \in 0 .. Len(rest) /\ k \in Nat /\ k <= l /\ (k < l => k = Len(rest))
  <2> HIDE DEF n, rest
  <2>1. Len(s) - n \in Nat
    BY <1>1, <1>2
  <2>2. QED  BY <1>3, <2>1 DEF Lesser
<1>6. a \in Texts /\ rest \in Texts
  <2>1. 1 \in 1 .. Len(s) + 1 /\ n + 1 \in 1 .. Len(s) + 1 /\ Len(s) \in 0 .. Len(s)
    BY <1>1, <1>2
  <2>2. QED  BY <1>2, <2>1, TextTypes DEF Copied, Past
<1>7. b \in Texts /\ c \in Texts
  <2> HIDE DEF rest, k
  <2>1. Len(rest) \in Nat
    BY <1>6, TextTypes
  <2>2. 1 \in 1 .. Len(rest) + 1 /\ k + 1 \in 1 .. Len(rest) + 1 /\ Len(rest) \in 0 .. Len(rest)
    BY <1>5, <2>1
  <2>3. QED  BY <1>5, <1>6, <2>2, TextTypes DEF Copied, Past
<1>8. l < StrlenRange => y = a \o Past(s, n + l)
  <2>1. Before(s, strlen(p)) = a
    BY BeforePlace
  <2>2. l < StrlenRange => strlen(l) = l
    BY <1>1 DEF strlen
  <2>3. y = a \o Past(s, Len(a) + strlen(l))
    <3> HIDE DEF a
    <3> QED  BY <2>1, Zenon DEF DELETE
  <2> HIDE DEF a, y
  <2>4. QED  BY <1>3, <2>2, <2>3
<1>9. Past(s, n + l) = c
  <2> HIDE DEF rest, k, n
  <2>1. /\ c \in Letters /\ Len(c) = Len(rest) - k
        /\ \A i \in 1 .. Len(rest) - k : c[i] = rest[k + i]
    BY <1>3, <1>5, PastText
  <2>2. CASE n + l <= Len(s)
    <3>1. n + l \in 0 .. Len(s) /\ k = l
      BY <1>1, <1>2, <1>3, <1>5, <2>2
    <3> DEFINE d == Past(s, n + l)
    <3>2. d \in Letters /\ Len(d) = Len(s) - (n + l) /\ \A i \in 1 .. Len(s) - (n + l) : d[i] = s[(n + l) + i]
      BY <1>1, <3>1, PastText
    <3> HIDE DEF d
    <3>3. Len(d) = Len(c)
      BY <1>1, <1>2, <1>3, <2>1, <3>1, <3>2
    <3> HIDE DEF c
    <3>4. ASSUME NEW i \in 1 .. Len(d) PROVE d[i] = c[i]
      <4>1. i \in 1 .. Len(s) - (n + l) /\ i \in 1 .. Len(rest) - k
            /\ k + i \in 1 .. Len(s) - n /\ n + (k + i) = (n + l) + i
        BY <1>1, <1>2, <1>3, <2>2, <3>1, <3>2
      <4>2. d[i] = s[(n + l) + i] /\ c[i] = rest[k + i] /\ rest[k + i] = s[n + (k + i)]
        BY <1>3, <2>1, <3>2, <4>1
      <4>3. QED  BY <4>1, <4>2
    <3>5. d = c
      BY <2>1, <3>2, <3>3, <3>4, SameText
    <3>6. QED  BY <3>5 DEF d
  <2>3. CASE n + l > Len(s)
    <3>1. k = Len(rest) /\ Len(c) = 0
      BY <1>1, <1>2, <1>3, <1>5, <2>1, <2>3
    <3>2. c = <<>>
      BY <2>1, <3>1, NoText
    <3>3. Past(s, n + l) = <<>>
      BY <1>1, <1>2, <2>3, NothingPast
    <3>4. QED  BY <3>2, <3>3
  <2>4. QED  BY <1>1, <1>2, <2>2, <2>3
<1>10. b \in Letters /\ c \in Letters /\ Len(b) = k /\ Len(c) = Len(rest) - k /\ b \o c = rest
  BY <1>3, <1>5, CopiedText, PastText, TextSplits
<1>11. x[1] = s /\ x[2] = l /\ x[3] = p
  OBVIOUS
<1> HIDE DEF a, b, c, rest, y, x, k
<1>12. a \o b \o c = s
  <2>1. (a \o b) \o c = a \o (b \o c)
    BY <1>3, <1>10, JoinsAssociate
  <2>2. QED  BY <1>4, <1>10, <2>1
<1>13. Len(b) < l => c = <<>>
  BY <1>3, <1>5, <1>10, NoText
<1>14. x[2] < StrlenRange =>
          /\ a \o b \o c = x[1] /\ a \o c = y
          /\ Len(a) = Lesser(x[3] - 1, Len(x[1])) /\ Len(b) <= x[2]
          /\ Len(b) < x[2] => c = <<>>
  BY <1>3, <1>5, <1>8, <1>9, <1>10, <1>11, <1>12, <1>13
<1>15. StringsAnswer("DELETE", x, y)
  BY <1>6, <1>7, <1>14 DEF StringsAnswer
<1>16. QED  BY <1>15 DEF x, y

LEMMA ReplaceAnswers ==
    ASSUME NEW s \in Texts, NEW t \in Texts, NEW l \in 0 .. STR_MAX_LEN, NEW p \in 1 .. STR_MAX_LEN + 1
    PROVE  StringsAnswer("REPLACE", <<s, t, l, p>>, REPLACE(s, t, l, p))
<1> DEFINE x == <<s, t, l, p>>
           M == STR_MAX_LEN
           n == Lesser(p - 1, Len(s))
           k == Lesser(Len(t), l)
           head == Copied(s, n)
           u == Copied(t, k)
           mid == head \o Copied(u, Lesser(Len(u), Room(head)))
           after == n + l
           v == Past(s, p - 1 + l)
           y == REPLACE(s, t, l, p)
<1>1. /\ s \in Letters /\ Len(s) \in Nat /\ Len(s) <= M /\ M \in Nat /\ StrlenRange \in Nat
      /\ 2 * M < StrlenRange /\ l \in Nat /\ l <= M /\ p \in Nat \ {0}
      /\ t \in Letters /\ Len(t) \in Nat
  BY TextTypes
<1>2. n \in 0 .. Len(s) /\ n \in Nat /\ k \in 0 .. Len(t) /\ k \in Nat /\ k <= l
  BY <1>1 DEF Lesser
<1>3. /\ head \in Letters /\ Len(head) = n /\ Len(head) <= M
      /\ u \in Letters /\ Len(u) = k
  BY <1>1, <1>2, CopiedText
<1>4. mid = Fitting(head \o u)
  BY <1>3, AppendedInRoom
<1>5. head \o u \in Letters /\ Len(head \o u) = n + k
  BY <1>3, JoinedText
<1>6. mid = head \o Copied(t, Lesser(k, Room(head)))
  <2> DEFINE r == Room(head)
             m == Lesser(k, r)
  <2>1. m \in 0 .. k /\ m \in 0 .. Len(t)
    BY <1>1, <1>2, <1>3 DEF Lesser, Room
  <2>2. Lesser(Len(u), Room(head)) = m
    BY <1>3
  <2>3. /\ Copied(u, m) \in Letters /\ Len(Copied(u, m)) = m
        /\ \A i \in 1 .. m : Copied(u, m)[i] = u[i]
    BY <1>3, <2>1, CopiedText
  <2>4. /\ Copied(t, m) \in Letters /\ Len(Copied(t, m)) = m
        /\ \A i \in 1 .. m : Copied(t, m)[i] = t[i]
    BY <1>1, <2>1, CopiedText
  <2>5. \A i \in 1 .. k : u[i] = t[i]
    BY <1>1, <1>2, CopiedText
  <2> HIDE DEF u, k, m
  <2>6. Copied(u, m) = Copied(t, m)
    <3> DEFINE d == Copied(u, m)
               e == Copied(t, m)
    <3>1. \A i \in 1 .. m : d[i] = e[i]
      BY <1>2, <2>1, <2>3, <2>4, <2>5
    <3>2. d \in Letters /\ e \in Letters /\ Len(d) = m /\ Len(e) = m
      BY <2>3, <2>4
    <3> HIDE DEF d, e
    <3>3. d = e
      BY <3>1, <3>2, SameText
    <3>4. QED  BY <3>3 DEF d, e
  <2>7. QED  BY <2>2, <2>6 DEF m
<1>7. y = IF Len(mid) < M /\ after < Len(s) THEN mid \o Past(s, after) ELSE mid
  <2>1. Before(s, strlen(p)) = head
    BY BeforePlace
  <2>2. strlen(l) = l /\ strlen(n + l) = after
    BY <1>1, <1>2, SMTT(30) DEF strlen
  <2> HIDE DEF head, mid, n
  <2>3. strlen(Len(head) + strlen(l)) = after
    BY <1>3, <2>2
  <2>4. Before(s, strlen(p)) \o Copied(t, Lesser(Lesser(Len(t), strlen(l)), Room(Before(s, strlen(p))))) = mid
    BY <1>6, <2>1, <2>2
  <2>5. strlen(Len(Before(s, strlen(p))) + strlen(l)) = after
    BY <2>1, <2>3
  <2> HIDE DEF after
  <2>6. QED  BY <2>4, <2>5, Zenon DEF REPLACE
<1>8. p - 1 > Len(s) => after >= Len(s) /\ p - 1 + l >= Len(s)
  BY <1>1 DEF Lesser
<1>9. p - 1 <= Len(s) => after = p - 1 + l
  BY <1>1 DEF Lesser
<1> HIDE DEF head, mid, u, n, k
<1>10. /\ v \in Letters /\ (after >= Len(s) => v = <<>>)
       /\ (after < Len(s) => v = Past(s, after) /\ Len(v) = Len(s) - after)
  <2>1. after \in Nat /\ p - 1 + l \in Nat
    BY <1>1, <1>2
  <2>2. CASE after >= Len(s)
    <3>1. p - 1 + l >= Len(s)
      BY <1>1, <1>8, <1>9, <2>1, <2>2
    <3>2. v = <<>>
      BY <1>1, <2>1, <3>1, NothingPast
    <3>3. QED  BY <1>1, <2>1, <2>2, <3>2, NoText
  <2>3. CASE after < Len(s)
    <3>1. after = p - 1 + l /\ after \in 0 .. Len(s)
      BY <1>1, <1>8, <1>9, <2>1, <2>3
    <3>2. Past(s, after) \in Letters /\ Len(Past(s, after)) = Len(s) - after
      BY <1>1, <3>1, PastText
    <3>3. QED  BY <1>1, <2>1, <2>3, <3>1, <3>2
  <2>4. QED  BY <1>1, <2>1, <2>2, <2>3
<1> HIDE DEF v, after, y
<1>11. /\ mid \in Letters /\ Len(mid) = Lesser(n + k, M) /\ (n + k <= M => mid = head \o u)
  BY <1>4, <1>5, FittingText
<1>12. y = Fitting(head \o u \o v)
  <2> DEFINE w == head \o u
  <2>1. w \in Letters /\ Len(w) = n + k
    BY <1>5
  <2>2. Fitting(mid \o v) = Fitting(w \o v)
    BY <1>4, <1>10, <2>1, FittingTwice
  <2> HIDE DEF w
  <2>3. mid \o v \in Letters /\ Len(mid \o v) = Len(mid) + Len(v) /\ Len(mid) \in Nat /\ Len(v) \in Nat
        /\ \A i \in 1 .. Len(mid) + Len(v) : (mid \o v)[i] = IF i <= Len(mid) THEN mid[i] ELSE v[i - Len(mid)]
    BY <1>10, <1>11, JoinedText
  <2>4. Len(mid) <= M
    BY <1>1, <1>2, <1>11 DEF Lesser
  <2>5. CASE after >= Len(s)
    <3>1. v = <<>> /\ y = mid
      BY <1>1, <1>2, <1>7, <1>10, <2>5 DEF after
    <3>2. mid \o v = mid
      BY <1>11, <3>1, NoText
    <3>3. Fitting(mid) = mid
      BY <1>11, <2>4, FittingText
    <3>4. QED  BY <2>2, <3>1, <3>2, <3>3 DEF w
  <2>6. CASE after < Len(s) /\ Len(mid) < M
    <3>1. y = mid \o v
      BY <1>7, <1>10, <2>6
    <3>2. Len(mid \o v) <= M
      BY <1>1, <1>2, <1>10, <1>11, <2>3, <2>6 DEF after, Lesser
    <3>3. Fitting(mid \o v) = mid \o v
      BY <2>3, <3>2, FittingText
    <3>4. QED  BY <2>2, <3>1, <3>3 DEF w
  <2>7. CASE ~(Len(mid) < M)
    <3>1. y = mid /\ Len(mid) = M
      BY <1>1, <1>7, <2>3, <2>4, <2>7
    <3>2. Lesser(Len(mid \o v), M) = M /\ Lesser(Len(mid), M) = M
      BY <1>1, <2>3, <3>1 DEF Lesser
    <3>3. \A i \in 1 .. M : (mid \o v)[i] = mid[i]
      BY <1>1, <2>3, <3>1
    <3>4. Fitting(mid \o v) = Fitting(mid)
      BY <1>11, <2>3, <3>2, <3>3, FittingAlike
    <3>5. Fitting(mid) = mid
      BY <1>11, <2>4, FittingText
    <3>6. QED  BY <2>2, <3>1, <3>4, <3>5 DEF w
  <2>8. after \in Nat
    BY <1>1, <1>2 DEF after
  <2>9. QED  BY <1>1, <2>5, <2>6, <2>7, <2>8
<1>13. x[1] = s /\ x[2] = t /\ x[3] = l /\ x[4] = p
  OBVIOUS
<1> HIDE DEF x
<1>14. y = Fitting(Copied(x[1], Lesser(x[4] - 1, Len(x[1])))
                     \o Copied(x[2], Lesser(Len(x[2]), x[3])) \o Past(x[1], x[4] - 1 + x[3]))
  BY <1>12, <1>13 DEF head, u, v, n, k
<1>15. StringsAnswer("REPLACE", x, y)
  BY <1>14 DEF StringsAnswer
<1>16. QED  BY <1>15 DEF x, y

(* A function of any number of operands is called with one to three.       *)
LEMMA Operands ==
    ASSUME NEW S, NEW ops \in OneToThree(S)
    PROVE  /\ Len(ops) \in {1, 2, 3} /\ DOMAIN ops = 1 .. Len(ops)
           /\ \A i \in 1 .. Len(ops) : ops[i] \in S
<1>1. PICK n \in 1 .. 3 : ops \in [1 .. n -> S]
  BY DEF OneToThree
<1>2. ops \in Seq(S) /\ Len(ops) = n
  BY <1>1
<1>3. QED  BY <1>1, <1>2

LEMMA JoinOfOperands ==
    ASSUME NEW ops \in OneToThree(Texts)
    PROVE  LET join(a, b) == a \o b
           IN  arith_expand(join, ops) = IF Len(ops) = 1 THEN ops[1]
                                         ELSE IF Len(ops) = 2 THEN ops[1] \o ops[2]
                                         ELSE (ops[1] \o ops[2]) \o ops[3]
<1> DEFINE op(a, b) == a \o b
           Is(r) == r = [i \in DOMAIN ops |-> IF i = 1 THEN ops[1] ELSE op(r[i - 1], ops[i])]
           r0 == CHOOSE r : Is(r)
           f == [i \in DOMAIN ops |-> IF i = 1 THEN ops[1] ELSE IF i = 2 THEN op(ops[1], ops[2])
                                      ELSE op(op(ops[1], ops[2]), ops[3])]
<1>1. Len(ops) \in {1, 2, 3} /\ DOMAIN ops = 1 .. Len(ops)
  BY Operands
<1>2. (LET join(a, b) == a \o b IN arith_expand(join, ops)) = r0[Len(ops)]
  BY DEF arith_expand
<1> HIDE DEF op
<1>3. Is(f)
  BY <1>1
<1>4. Is(r0)
  <2> HIDE DEF Is, f
  <2> QED  BY <1>3
<1>5. r0[Len(ops)] = IF Len(ops) = 1 THEN ops[1] ELSE IF Len(ops) = 2 THEN op(ops[1], ops[2])
                     ELSE op(op(ops[1], ops[2]), ops[3])
  <2> HIDE DEF r0
  <2> QED  BY <1>1, <1>4
<1>6. QED
  <2> HIDE DEF r0
  <2> QED  BY <1>2, <1>5 DEF op

LEMMA ConcatSteps ==
    ASSUME NEW ins \in OneToThree(Texts)
    PROVE  \E r : /\ CONCAT(ins) = r[Len(ins)] /\ r[0] = <<>>
                  /\ \A i \in 1 .. Len(ins) :
                        r[i] = r[i - 1] \o Copied(ins[i], Lesser(Len(ins[i]), Room(r[i - 1])))
<1> DEFINE More(s, t) == s \o Copied(t, Lesser(Len(t), Room(s)))
           Is(r) == r = [i \in 0 .. Len(ins) |-> IF i = 0 THEN <<>> ELSE More(r[i - 1], ins[i])]
           r0 == CHOOSE r : Is(r)
           one == More(<<>>, ins[1])
           two == More(one, ins[2])
           f == [i \in 0 .. Len(ins) |-> IF i = 0 THEN <<>> ELSE IF i = 1 THEN one
                                         ELSE IF i = 2 THEN two ELSE More(two, ins[3])]
<1>1. Len(ins) \in {1, 2, 3}
  BY Operands
<1>2. CONCAT(ins) = r0[Len(ins)]
  BY DEF CONCAT
<1> HIDE DEF More
<1>3. Is(f)
  BY <1>1
<1>4. Is(r0)
  <2> HIDE DEF Is, f
  <2> QED  BY <1>3
<1>5. r0[0] = <<>> /\ \A i \in 1 .. Len(ins) : r0[i] = More(r0[i - 1], ins[i])
  <2> HIDE DEF r0
  <2> QED  BY <1>1, <1>4
<1>6. QED
  <2> HIDE DEF r0
  <2> QED  BY <1>2, <1>5 DEF More

LEMMA ConcatAnswers ==
    ASSUME NEW ins \in OneToThree(Texts)
    PROVE  StringsAnswer("CONCAT", ins, CONCAT(ins))
<1>1. /\ Len(ins) \in {1, 2, 3} /\ DOMAIN ins = 1 .. Len(ins)
      /\ \A i \in 1 .. Len(ins) : ins[i] \in Letters
  BY Operands, TextTypes
<1>2. PICK r : /\ CONCAT(ins) = r[Len(ins)] /\ r[0] = <<>>
               /\ \A i \in 1 .. Len(ins) : r[i] = r[i - 1] \o Copied(ins[i], Lesser(Len(ins[i]), Room(r[i - 1])))
  BY ConcatSteps
<1>3. ASSUME NEW s \in Letters, NEW t \in Letters, NEW i \in 1 .. Len(ins), r[i - 1] = Fitting(s), ins[i] = t
      PROVE  r[i] = Fitting(s \o t) /\ s \o t \in Letters
  <2>1. Fitting(s) \in Letters /\ Len(Fitting(s)) <= STR_MAX_LEN
    BY FittingText, TextTypes DEF Lesser
  <2>2. r[i] = Fitting(s) \o Copied(t, Lesser(Len(t), Room(Fitting(s))))
    BY <1>2, <1>3
  <2>3. r[i] = Fitting(Fitting(s) \o t)
    BY <2>1, <2>2, AppendedInRoom
  <2>4. QED  BY <2>3, FittingTwice, JoinedText
<1>4. r[1] = Fitting(ins[1])
  <2>1. <<>> \in Letters /\ Fitting(<<>>) = <<>>
    BY NoText, FittingText, TextTypes
  <2>2. 1 \in 1 .. Len(ins) /\ ins[1] \in Letters /\ r[1 - 1] = Fitting(<<>>)
    BY <1>1, <1>2, <2>1
  <2>3. r[1] = Fitting(<<>> \o ins[1])
    BY <1>3, <2>1, <2>2
  <2>4. QED  BY <2>2, <2>3, NoText
<1>5. Len(ins) # 1 => r[2] = Fitting(ins[1] \o ins[2]) /\ ins[1] \o ins[2] \in Letters
  <2>1. SUFFICES ASSUME Len(ins) # 1 PROVE r[2] = Fitting(ins[1] \o ins[2]) /\ ins[1] \o ins[2] \in Letters
    OBVIOUS
  <2>2. 2 \in 1 .. Len(ins) /\ ins[1] \in Letters /\ ins[2] \in Letters /\ r[2 - 1] = Fitting(ins[1])
    BY <1>1, <1>4, <2>1
  <2>3. QED  BY <1>3, <2>2
<1>6. Len(ins) = 3 => r[3] = Fitting((ins[1] \o ins[2]) \o ins[3])
  <2>1. SUFFICES ASSUME Len(ins) = 3 PROVE r[3] = Fitting((ins[1] \o ins[2]) \o ins[3])
    OBVIOUS
  <2>2. 3 \in 1 .. Len(ins) /\ ins[1] \o ins[2] \in Letters /\ ins[3] \in Letters
        /\ r[3 - 1] = Fitting(ins[1] \o ins[2])
    BY <1>1, <1>5, <2>1
  <2>3. QED  BY <1>3, <2>2
<1>7. CONCAT(ins) = Fitting(IF Len(ins) = 1 THEN ins[1] ELSE IF Len(ins) = 2 THEN ins[1] \o ins[2]
                            ELSE (ins[1] \o ins[2]) \o ins[3])
  BY <1>1, <1>2, <1>4, <1>5, <1>6
<1>8. CONCAT(ins) = Fitting(LET join(a, b) == a \o b IN arith_expand(join, ins))
  BY <1>7, JoinOfOperands
<1>9. QED  BY <1>8 DEF StringsAnswer

-----------------------------------------------------------------------------
(* Bit strings.                                                            *)
LEMMA Rest ==
    ASSUME NEW d \in Nat \ {0}, NEW r \in 0 .. d - 1, NEW q \in Int, NEW n \in Int, n = q * d + r
    PROVE  n % d = r /\ n \div d = q
<1>1. d * q \in Int /\ q * d = d * q
  OBVIOUS
<1>2. n = d * (n \div d) + (n % d) /\ n % d \in 0 .. d - 1 /\ n \div d \in Int
  OBVIOUS
<1> DEFINE e == q - (n \div d)
<1>3. e \in Int /\ d * e = d * q - d * (n \div d)
  BY <1>2
<1>4. d * e = (n % d) - r
  BY <1>1, <1>2, <1>3
<1>5. e >= 1 => d * e >= d
  <2> HIDE DEF e
  <2> QED  BY <1>3
<1>6. e <= -1 => d * e <= -d
  <2> HIDE DEF e
  <2> QED  BY <1>3
<1> HIDE DEF e
<1>7. e = 0
  BY <1>2, <1>3, <1>4, <1>5, <1>6
<1>8. QED  BY <1>2, <1>3, <1>4, <1>7 DEF e

LEMMA Turned ==
    ASSUME NEW k \in Positions, NEW n \in 0 .. 2 * Width
    PROVE  /\ n % Width \in 0 .. Width - 1
           /\ (k + n) % Width = IF k + (n % Width) < Width THEN k + (n % Width) ELSE k + (n % Width) - Width
<1> DEFINE q == IF n < Width THEN 0 ELSE IF n < 2 * Width THEN 1 ELSE 2
           m == n - q * Width
<1>1. Width \in Nat \ {0} /\ k \in 0 .. Width - 1
  BY FunctionAssumption DEF Positions
<1>2. q \in {0, 1, 2} /\ m \in 0 .. Width - 1 /\ n = q * Width + m
  BY <1>1
<1> HIDE DEF q, m
<1>3. n % Width = m
  BY <1>1, <1>2, Rest
<1>4. CASE k + m < Width
  <2> DEFINE r == k + m
             s == k + n
  <2>1. r \in 0 .. Width - 1 /\ s \in Int /\ s = q * Width + r /\ q \in Int
    BY <1>1, <1>2, <1>4
  <2> HIDE DEF r, s
  <2>2. s % Width = r
    BY <1>1, <2>1, Rest
  <2>3. QED  BY <1>2, <1>3, <1>4, <2>2 DEF r, s
<1>5. CASE k + m >= Width
  <2> DEFINE r == k + m - Width
             s == k + n
             p == q + 1
  <2>1. r \in 0 .. Width - 1 /\ s \in Int /\ s = p * Width + r /\ p \in Int
    BY <1>1, <1>2, <1>5
  <2> HIDE DEF r, s, p
  <2>2. s % Width = r
    BY <1>1, <2>1, Rest
  <2>3. QED  BY <1>1, <1>2, <1>3, <1>5, <2>2 DEF r, s
<1>6. QED  BY <1>1, <1>2, <1>4, <1>5

LEMMA RolAnswers ==
    ASSUME NEW in \in SUBSET Positions, NEW n \in 0 .. 2 * Width
    PROVE  BitsAnswer("ROL", <<in, n>>, ROL(in, n))
<1> DEFINE m == n % Width
           y == ROL(in, n)
           x == <<in, n>>
<1>1. Width \in Nat \ {0} /\ Positions = 0 .. Width - 1
  BY FunctionAssumption DEF Positions
<1>2. y = ({i + m : i \in in} \cap Positions) \cup ({i - (Width - m) : i \in in} \cap Positions)
  BY DEF ROL, SHL, SHR
<1>3. ASSUME NEW k \in Positions PROVE (k + n) % Width \in y <=> k \in in
  <2> DEFINE j == (k + n) % Width
  <2>1. m \in 0 .. Width - 1 /\ j = IF k + m < Width THEN k + m ELSE k + m - Width
    BY Turned
  <2> HIDE DEF m, j, y
  <2>2. \A i \in in : i \in 0 .. Width - 1
    BY <1>1
  <2>3. k \in 0 .. Width - 1
    BY <1>1
  <2>4. j \in Positions
    BY <1>1, <2>1, <2>3
  <2>5. j \in y <=> \E i \in in : j = i + m \/ j = i - (Width - m)
    BY <1>2, <2>4
  <2>6. \A i \in in : (j = i + m \/ j = i - (Width - m)) <=> i = k
    BY <1>1, <2>1, <2>2, <2>3
  <2>7. QED  BY <2>5, <2>6 DEF j
<1>4. x[1] = in /\ x[2] = n
  OBVIOUS
<1> HIDE DEF x, y
<1>5. BitsAnswer("ROL", x, y)
  BY <1>3, <1>4 DEF BitsAnswer
<1>6. QED  BY <1>5 DEF x, y

LEMMA RorAnswers ==
    ASSUME NEW in \in SUBSET Positions, NEW n \in 0 .. 2 * Width
    PROVE  BitsAnswer("ROR", <<in, n>>, ROR(in, n))
<1> DEFINE m == n % Width
           y == ROR(in, n)
           x == <<in, n>>
<1>1. Width \in Nat \ {0} /\ Positions = 0 .. Width - 1
  BY FunctionAssumption DEF Positions
<1>2. y = ({i - m : i \in in} \cap Positions) \cup ({i + (Width - m) : i \in in} \cap Positions)
  BY DEF ROR, SHL, SHR
<1>3. ASSUME NEW k \in Positions PROVE k \in y <=> (k + n) % Width \in in
  <2> DEFINE j == (k + n) % Width
  <2>1. m \in 0 .. Width - 1 /\ j = IF k + m < Width THEN k + m ELSE k + m - Width
    BY Turned
  <2> HIDE DEF m, j, y
  <2>2. \A i \in in : i \in 0 .. Width - 1
    BY <1>1
  <2>3. k \in 0 .. Width - 1
    BY <1>1
  <2>4. k \in y <=> \E i \in in : k = i - m \/ k = i + (Width - m)
    BY <1>2
  <2>5. \A i \in in : (k = i - m \/ k = i + (Width - m)) <=> i = j
    BY <1>1, <2>1, <2>2, <2>3
  <2>6. QED  BY <2>4, <2>5 DEF j
<1>4. x[1] = in /\ x[2] = n
  OBVIOUS
<1> HIDE DEF x, y
<1>5. BitsAnswer("ROR", x, y)
  BY <1>3, <1>4 DEF BitsAnswer
<1>6. QED  BY <1>5 DEF x, y

LEMMA ShiftedBoolAnswers ==
    ASSUME NEW b \in BOOLEAN, NEW n \in 0 .. 2
    PROVE  /\ BitsAnswer("SHL_BOOL", <<b, n>>, SHL_BOOL(b, n))
           /\ BitsAnswer("SHR_BOOL", <<b, n>>, SHR_BOOL(b, n))
<1> DEFINE x == <<b, n>>
           y == IF n = 0 THEN b ELSE FALSE
<1>1. y <=> x[1] /\ x[2] = 0
  OBVIOUS
<1>2. SHL_BOOL(b, n) = y /\ SHR_BOOL(b, n) = y
  BY DEF SHL_BOOL, SHR_BOOL
<1> HIDE DEF x, y
<1>3. BitsAnswer("SHL_BOOL", x, y) /\ BitsAnswer("SHR_BOOL", x, y)
  BY <1>1 DEF BitsAnswer
<1>4. QED  BY <1>2, <1>3 DEF x

LEMMA AndOfOperands ==
    ASSUME NEW ops \in OneToThree(SUBSET Positions)
    PROVE  /\ Len(ops) = 1 => AND(ops) = ops[1]
           /\ Len(ops) = 2 => AND(ops) = (ops[1] \cap ops[2])
           /\ Len(ops) = 3 => AND(ops) = ((ops[1] \cap ops[2]) \cap ops[3])
<1> DEFINE op(a, b) == a \cap b
           Is(r) == r = [i \in DOMAIN ops |-> IF i = 1 THEN ops[1] ELSE op(r[i - 1], ops[i])]
           r0 == CHOOSE r : Is(r)
           f == [i \in DOMAIN ops |-> IF i = 1 THEN ops[1] ELSE IF i = 2 THEN op(ops[1], ops[2])
                                      ELSE op(op(ops[1], ops[2]), ops[3])]
<1>1. Len(ops) \in {1, 2, 3} /\ DOMAIN ops = 1 .. Len(ops)
  BY Operands
<1>2. AND(ops) = r0[Len(ops)]
  BY DEF AND, arith_expand
<1> HIDE DEF op
<1>3. Is(f)
  BY <1>1
<1>4. Is(r0)
  <2> HIDE DEF Is, f
  <2> QED  BY <1>3
<1>5. /\ Len(ops) = 1 => r0[Len(ops)] = ops[1]
      /\ Len(ops) = 2 => r0[Len(ops)] = op(ops[1], ops[2])
      /\ Len(ops) = 3 => r0[Len(ops)] = op(op(ops[1], ops[2]), ops[3])
  <2> HIDE DEF r0
  <2> QED  BY <1>1, <1>4
<1>6. QED
  <2> HIDE DEF r0
  <2> QED  BY <1>2, <1>5 DEF op

LEMMA OrOfOperands ==
    ASSUME NEW ops \in OneToThree(SUBSET Positions)
    PROVE  /\ Len(ops) = 1 => OR(ops) = ops[1]
           /\ Len(ops) = 2 => OR(ops) = (ops[1] \cup ops[2])
           /\ Len(ops) = 3 => OR(ops) = ((ops[1] \cup ops[2]) \cup ops[3])
<1> DEFINE op(a, b) == a \cup b
           Is(r) == r = [i \in DOMAIN ops |-> IF i = 1 THEN ops[1] ELSE op(r[i - 1], ops[i])]
           r0 == CHOOSE r : Is(r)
           f == [i \in DOMAIN ops |-> IF i = 1 THEN ops[1] ELSE IF i = 2 THEN op(ops[1], ops[2])
                                      ELSE op(op(ops[1], ops[2]), ops[3])]
<1>1. Len(ops) \in {1, 2, 3} /\ DOMAIN ops = 1 .. Len(ops)
  BY Operands
<1>2. OR(ops) = r0[Len(ops)]
  BY DEF OR, arith_expand
<1> HIDE DEF op
<1>3. Is(f)
  BY <1>1
<1>4. Is(r0)
  <2> HIDE DEF Is, f
  <2> QED  BY <1>3
<1>5. /\ Len(ops) = 1 => r0[Len(ops)] = ops[1]
      /\ Len(ops) = 2 => r0[Len(ops)] = op(ops[1], ops[2])
      /\ Len(ops) = 3 => r0[Len(ops)] = op(op(ops[1], ops[2]), ops[3])
  <2> HIDE DEF r0
  <2> QED  BY <1>1, <1>4
<1>6. QED
  <2> HIDE DEF r0
  <2> QED  BY <1>2, <1>5 DEF op

LEMMA XorOfOperands ==
    ASSUME NEW ops \in OneToThree(SUBSET Positions)
    PROVE  /\ Len(ops) = 1 => XOR(ops) = ops[1]
           /\ Len(ops) = 2 => XOR(ops) = ((ops[1] \ ops[2]) \cup (ops[2] \ ops[1]))
           /\ Len(ops) = 3 => XOR(ops) = ((((ops[1] \ ops[2]) \cup (ops[2] \ ops[1])) \ ops[3])
                                            \cup (ops[3] \ ((ops[1] \ ops[2]) \cup (ops[2] \ ops[1]))))
<1> DEFINE op(a, b) == (a \ b) \cup (b \ a)
           Is(r) == r = [i \in DOMAIN ops |-> IF i = 1 THEN ops[1] ELSE op(r[i - 1], ops[i])]
           r0 == CHOOSE r : Is(r)
           f == [i \in DOMAIN ops |-> IF i = 1 THEN ops[1] ELSE IF i = 2 THEN op(ops[1], ops[2])
                                      ELSE op(op(ops[1], ops[2]), ops[3])]
<1>1. Len(ops) \in {1, 2, 3} /\ DOMAIN ops = 1 .. Len(ops)
  BY Operands
<1>2. XOR(ops) = r0[Len(ops)]
  BY DEF XOR, arith_expand
<1> HIDE DEF op
<1>3. Is(f)
  BY <1>1
<1>4. Is(r0)
  <2> HIDE DEF Is, f
  <2> QED  BY <1>3
<1>5. /\ Len(ops) = 1 => r0[Len(ops)] = ops[1]
      /\ Len(ops) = 2 => r0[Len(ops)] = op(ops[1], ops[2])
      /\ Len(ops) = 3 => r0[Len(ops)] = op(op(ops[1], ops[2]), ops[3])
  <2> HIDE DEF r0
  <2> QED  BY <1>1, <1>4
<1>6. QED
  <2> HIDE DEF r0
  <2> QED  BY <1>2, <1>5 DEF op

LEMMA XorOfBools ==
    ASSUME NEW ops \in OneToThree(BOOLEAN)
    PROVE  /\ Len(ops) = 1 => XOR_BOOL(ops) = ops[1]
           /\ Len(ops) = 2 => XOR_BOOL(ops) = ((ops[1] /\ ~ops[2]) \/ (~ops[1] /\ ops[2]))
           /\ Len(ops) = 3 => XOR_BOOL(ops) = ((((ops[1] /\ ~ops[2]) \/ (~ops[1] /\ ops[2])) /\ ~ops[3])
                                                \/ (~((ops[1] /\ ~ops[2]) \/ (~ops[1] /\ ops[2])) /\ ops[3]))
<1> DEFINE op(a, b) == (a /\ ~b) \/ (~a /\ b)
           Is(r) == r = [i \in DOMAIN ops |-> IF i = 1 THEN ops[1] ELSE op(r[i - 1], ops[i])]
           r0 == CHOOSE r : Is(r)
           f == [i \in DOMAIN ops |-> IF i = 1 THEN ops[1] ELSE IF i = 2 THEN op(ops[1], ops[2])
                                      ELSE op(op(ops[1], ops[2]), ops[3])]
<1>1. Len(ops) \in {1, 2, 3} /\ DOMAIN ops = 1 .. Len(ops)
  BY Operands
<1>2. XOR_BOOL(ops) = r0[Len(ops)]
  BY DEF XOR_BOOL, arith_expand
<1> HIDE DEF op
<1>3. Is(f)
  BY <1>1
<1>4. Is(r0)
  <2> HIDE DEF Is, f
  <2> QED  BY <1>3
<1>5. /\ Len(ops) = 1 => r0[Len(ops)] = ops[1]
      /\ Len(ops) = 2 => r0[Len(ops)] = op(ops[1], ops[2])
      /\ Len(ops) = 3 => r0[Len(ops)] = op(op(ops[1], ops[2]), ops[3])
  <2> HIDE DEF r0
  <2> QED  BY <1>1, <1>4
<1>6. QED
  <2> HIDE DEF r0
  <2> QED  BY <1>2, <1>5 DEF op

LEMMA BitwiseAnswers ==
    ASSUME NEW ops \in OneToThree(SUBSET Positions)
    PROVE  /\ BitsAnswer("AND", ops, AND(ops))
           /\ BitsAnswer("OR", ops, OR(ops))
           /\ BitsAnswer("XOR", ops, XOR(ops))
<1> DEFINE ones(k) == {i \in DOMAIN ops : k \in ops[i]}
           y1 == AND(ops)
           y2 == OR(ops)
           y3 == XOR(ops)
<1>1. Len(ops) \in {1, 2, 3} /\ DOMAIN ops = 1 .. Len(ops)
  BY Operands
<1>2. DOMAIN ops \in {{1}, {1, 2}, {1, 2, 3}}
      /\ (DOMAIN ops = {1} <=> Len(ops) = 1) /\ (DOMAIN ops = {1, 2} <=> Len(ops) = 2)
  BY <1>1
<1>3. ASSUME NEW k \in Positions
      PROVE  /\ k \in y1 <=> ones(k) = DOMAIN ops
             /\ k \in y2 <=> ones(k) # {}
             /\ k \in y3 <=> ones(k) \in {{1}, {2}, {3}, {1, 2, 3}}
  <2>1. CASE Len(ops) = 1
    <3>1. y1 = ops[1] /\ y2 = ops[1] /\ y3 = ops[1]
      BY <2>1, AndOfOperands, OrOfOperands, XorOfOperands
    <3> HIDE DEF y1, y2, y3
    <3>2. ones(k) = IF k \in ops[1] THEN {1} ELSE {}
      BY <1>2, <2>1
    <3>3. QED  BY <1>2, <2>1, <3>1, <3>2
  <2>2. CASE Len(ops) = 2
    <3>1. y1 = ops[1] \cap ops[2] /\ y2 = ops[1] \cup ops[2] /\ y3 = (ops[1] \ ops[2]) \cup (ops[2] \ ops[1])
      <4>1. y1 = ops[1] \cap ops[2]
        BY <2>2, AndOfOperands
      <4>2. y2 = ops[1] \cup ops[2]
        BY <2>2, OrOfOperands
      <4>3. y3 = (ops[1] \ ops[2]) \cup (ops[2] \ ops[1])
        BY <2>2, XorOfOperands
      <4> HIDE DEF y1, y2, y3
      <4>4. QED  BY <4>1, <4>2, <4>3
    <3> HIDE DEF y1, y2, y3
    <3>2. ones(k) = (IF k \in ops[1] THEN {1} ELSE {}) \cup (IF k \in ops[2] THEN {2} ELSE {})
      BY <1>2, <2>2
    <3>3. QED  BY <1>2, <2>2, <3>1, <3>2
  <2>3. CASE Len(ops) = 3
    <3>1. /\ y1 = (ops[1] \cap ops[2]) \cap ops[3] /\ y2 = (ops[1] \cup ops[2]) \cup ops[3]
          /\ y3 = (((ops[1] \ ops[2]) \cup (ops[2] \ ops[1])) \ ops[3])
                    \cup (ops[3] \ ((ops[1] \ ops[2]) \cup (ops[2] \ ops[1])))
      <4>1. y1 = (ops[1] \cap ops[2]) \cap ops[3]
        BY <2>3, AndOfOperands
      <4>2. y2 = (ops[1] \cup ops[2]) \cup ops[3]
        BY <2>3, OrOfOperands
      <4>3. y3 = (((ops[1] \ ops[2]) \cup (ops[2] \ ops[1])) \ ops[3])
                    \cup (ops[3] \ ((ops[1] \ ops[2]) \cup (ops[2] \ ops[1])))
        BY <2>3, XorOfOperands
      <4> HIDE DEF y1, y2, y3
      <4>4. QED  BY <4>1, <4>2, <4>3
    <3> HIDE DEF y1, y2, y3
    <3>2. ones(k) = (IF k \in ops[1] THEN {1} ELSE {}) \cup (IF k \in ops[2] THEN {2} ELSE {})
                       \cup (IF k \in ops[3] THEN {3} ELSE {})
      BY <1>2, <2>3
    <3>3. QED  BY <1>2, <2>3, <3>1, <3>2
  <2>4. QED  BY <1>1, <2>1, <2>2, <2>3
<1> HIDE DEF y1, y2, y3
<1>4. BitsAnswer("AND", ops, y1) /\ BitsAnswer("OR", ops, y2) /\ BitsAnswer("XOR", ops, y3)
  BY <1>3 DEF BitsAnswer
<1>5. QED  BY <1>4 DEF y1, y2, y3

LEMMA XorBoolAnswers ==
    ASSUME NEW ops \in OneToThree(BOOLEAN)
    PROVE  BitsAnswer("XOR_BOOL", ops, XOR_BOOL(ops))
<1> DEFINE ones == {i \in DOMAIN ops : ops[i]}
           y == XOR_BOOL(ops)
<1>1. Len(ops) \in {1, 2, 3} /\ DOMAIN ops = 1 .. Len(ops) /\ \A i \in 1 .. Len(ops) : ops[i] \in BOOLEAN
  BY Operands
<1>2. DOMAIN ops \in {{1}, {1, 2}, {1, 2, 3}}
      /\ (DOMAIN ops = {1} <=> Len(ops) = 1) /\ (DOMAIN ops = {1, 2} <=> Len(ops) = 2)
  BY <1>1
<1>3. y <=> ones \in {{1}, {2}, {3}, {1, 2, 3}}
  <2>1. CASE Len(ops) = 1
    <3>1. y = ops[1]
      BY <2>1, XorOfBools
    <3> HIDE DEF y
    <3>2. ones = IF ops[1] THEN {1} ELSE {}
      BY <1>1, <1>2, <2>1
    <3>3. QED  BY <1>1, <2>1, <3>1, <3>2
  <2>2. CASE Len(ops) = 2
    <3>1. y = ((ops[1] /\ ~ops[2]) \/ (~ops[1] /\ ops[2]))
      BY <2>2, XorOfBools
    <3> HIDE DEF y
    <3>2. ones = {i \in {1, 2} : ops[i]}
      BY <1>2, <2>2
    <3> HIDE DEF ones
    <3>3. CASE ops[1] /\ ops[2]
      <4>1. 1 \in ones /\ 2 \in ones /\ 3 \notin ones
        BY <3>2, <3>3
      <4>2. ~y
        BY <3>1, <3>3, Zenon
      <4>3. QED  BY <4>1, <4>2
    <3>4. CASE ops[1] /\ ~ops[2]
      BY <3>1, <3>2, <3>4
    <3>5. CASE ~ops[1] /\ ops[2]
      BY <3>1, <3>2, <3>5
    <3>6. CASE ~ops[1] /\ ~ops[2]
      BY <3>1, <3>2, <3>6
    <3>7. QED  BY <3>3, <3>4, <3>5, <3>6
  <2>3. CASE Len(ops) = 3
    <3> DEFINE b == (ops[1] /\ ~ops[2]) \/ (~ops[1] /\ ops[2])
    <3>1. y = ((b /\ ~ops[3]) \/ (~b /\ ops[3]))
      BY <2>3, XorOfBools
    <3> HIDE DEF y
    <3>2. ones = (IF ops[1] THEN {1} ELSE {}) \cup (IF ops[2] THEN {2} ELSE {})
                       \cup (IF ops[3] THEN {3} ELSE {})
      BY <1>1, <1>2, <2>3
    <3>3. QED  BY <1>1, <2>3, <3>1, <3>2
  <2>4. QED  BY <1>1, <2>1, <2>2, <2>3
<1> HIDE DEF y
<1>4. BitsAnswer("XOR_BOOL", ops, y)
  BY <1>3 DEF BitsAnswer
<1>5. QED  BY <1>4 DEF y

-----------------------------------------------------------------------------
(* The orders of numbers, TIMEs and STRINGs.                               *)
LEMMA LeastExists ==
    ASSUME NEW T \in SUBSET Nat, T # {}
    PROVE  \E i \in T : \A j \in T : i <= j
<1> DEFINE R == OpToRel(<, Nat)
<1>1. IsWellFoundedOn(R, Nat)
  BY NatLessThanWellFounded
<1>2. \A x, y \in Nat : x < y => <<x, y>> \in R
  BY DEF OpToRel
<1> HIDE DEF R
<1>3. PICK i \in T : \A j \in T : ~(<<j, i>> \in R)
  BY <1>1, WFMin
<1>4. \A j \in T : ~(j < i)
  BY <1>2, <1>3
<1>5. QED  BY <1>4

(* a is before b from position i on, or is where b begins.                 *)
LessAt(a, b, i) == /\ i \in 1 .. Len(a) /\ i \in 1 .. Len(b) /\ a[i] < b[i]
                   /\ \A j \in 1 .. i - 1 : a[j] = b[j]
Begins(a, b) == Len(a) <= Len(b) /\ \A j \in 1 .. Len(a) : a[j] = b[j]

LEMMA LettersTyped ==
    ASSUME NEW s \in Letters
    PROVE  Len(s) \in Nat /\ DOMAIN s = 1 .. Len(s) /\ \A i \in 1 .. Len(s) : s[i] \in Nat
BY DEF Letters

LEMMA StringsCompared ==
    ASSUME NEW a \in Letters, NEW b \in Letters
    PROVE  \/ \E i \in Nat : /\ LessAt(a, b, i) \/ LessAt(b, a, i)
                             /\ str_cmp(a, b) = a[i] - b[i]
           \/ (Begins(a, b) \/ Begins(b, a)) /\ str_cmp(a, b) = Len(a) - Len(b)
<1> DEFINE differ == {i \in 1 .. Lesser(Len(a), Len(b)) : a[i] # b[i]}
           first == CHOOSE i \in differ : \A j \in differ : i <= j
<1>1. /\ Len(a) \in Nat /\ \A i \in 1 .. Len(a) : a[i] \in Nat
      /\ Len(b) \in Nat /\ \A i \in 1 .. Len(b) : b[i] \in Nat
  BY LettersTyped
<1>2. /\ Lesser(Len(a), Len(b)) \in Nat
      /\ Lesser(Len(a), Len(b)) = IF Len(a) < Len(b) THEN Len(a) ELSE Len(b)
  BY <1>1 DEF Lesser
<1>3. str_cmp(a, b) = IF differ = {} THEN Len(a) - Len(b) ELSE a[first] - b[first]
  BY DEF str_cmp
<1>4. CASE differ = {}
  <2>1. \A i \in 1 .. Lesser(Len(a), Len(b)) : a[i] = b[i]
    BY <1>4
  <2>2. Begins(a, b) \/ Begins(b, a)
    BY <1>1, <1>2, <2>1 DEF Begins
  <2> HIDE DEF differ, first
  <2>3. QED  BY <1>3, <1>4, <2>2
<1>5. CASE differ # {}
  <2>1. differ \in SUBSET Nat
    BY <1>2
  <2> HIDE DEF differ
  <2>2. first \in differ /\ \A j \in differ : first <= j
    BY <1>5, <2>1, LeastExists
  <2> HIDE DEF first
  <2>3. first \in 1 .. Lesser(Len(a), Len(b)) /\ a[first] # b[first]
    BY <2>2 DEF differ
  <2>4. first \in 1 .. Len(a) /\ first \in 1 .. Len(b) /\ first \in Nat
    BY <1>1, <1>2, <2>3
  <2>5. ASSUME NEW j \in 1 .. first - 1 PROVE a[j] = b[j]
    <3>1. j \in 1 .. Lesser(Len(a), Len(b)) /\ j < first
      BY <1>2, <2>3
    <3>2. j \notin differ
      BY <2>2, <2>4, <3>1
    <3>3. QED  BY <3>1, <3>2 DEF differ
  <2>6. a[first] < b[first] \/ b[first] < a[first]
    BY <1>1, <2>3, <2>4
  <2>7. LessAt(a, b, first) \/ LessAt(b, a, first)
    BY <2>4, <2>5, <2>6 DEF LessAt
  <2>8. str_cmp(a, b) = a[first] - b[first]
    BY <1>3, <1>5
  <2>9. QED  BY <2>4, <2>7, <2>8
<1>6. QED  BY <1>4, <1>5

(* str_cmp is of one sign with the alphabet: a comes before b.             *)
Foremost(a, b) == (\E i \in Nat : LessAt(a, b, i)) \/ (Begins(a, b) /\ Len(a) < Len(b))

LEMMA OnlyOneForemost ==
    ASSUME NEW a \in Letters, NEW b \in Letters, Foremost(a, b)
    PROVE  ~Foremost(b, a) /\ a # b /\ ~Begins(b, a)
<1>1. /\ Len(a) \in Nat /\ \A i \in 1 .. Len(a) : a[i] \in Nat
      /\ Len(b) \in Nat /\ \A i \in 1 .. Len(b) : b[i] \in Nat
  BY LettersTyped
<1>2. ASSUME NEW i \in Nat, LessAt(a, b, i) PROVE ~Foremost(b, a) /\ a # b /\ ~Begins(b, a)
  <2>1. /\ i \in 1 .. Len(a) /\ i \in 1 .. Len(b) /\ a[i] < b[i] /\ a[i] \in Nat /\ b[i] \in Nat
        /\ \A j \in 1 .. i - 1 : a[j] = b[j]
    BY <1>1, <1>2 DEF LessAt
  <2>2. ~Begins(b, a)
    BY <2>1 DEF Begins
  <2>3. ASSUME NEW k \in Nat, LessAt(b, a, k) PROVE FALSE
    <3>1. /\ k \in 1 .. Len(a) /\ b[k] < a[k] /\ a[k] \in Nat /\ b[k] \in Nat
          /\ \A j \in 1 .. k - 1 : b[j] = a[j]
      BY <1>1, <2>3 DEF LessAt
    <3>2. CASE k < i
      BY <2>1, <3>1, <3>2
    <3>3. CASE k > i
      BY <2>1, <3>1, <3>3
    <3>4. CASE k = i
      BY <2>1, <3>1, <3>4
    <3>5. QED  BY <2>1, <3>2, <3>3, <3>4
  <2>4. QED  BY <2>1, <2>2, <2>3 DEF Foremost
<1>3. ASSUME Begins(a, b), Len(a) < Len(b) PROVE ~Foremost(b, a) /\ a # b /\ ~Begins(b, a)
  <2>1. ASSUME NEW k \in Nat, LessAt(b, a, k) PROVE FALSE
    BY <1>1, <1>3, <2>1 DEF LessAt, Begins
  <2>2. QED  BY <1>1, <1>3, <2>1 DEF Foremost, Begins
<1>4. QED  BY <1>2, <1>3 DEF Foremost

LEMMA ComparedAsForemost ==
    ASSUME NEW a \in Letters, NEW b \in Letters
    PROVE  /\ str_cmp(a, b) \in Int
           /\ str_cmp(a, b) < 0 <=> Foremost(a, b)
           /\ str_cmp(a, b) > 0 <=> Foremost(b, a)
<1>1. /\ Len(a) \in Nat /\ \A i \in 1 .. Len(a) : a[i] \in Nat
      /\ Len(b) \in Nat /\ \A i \in 1 .. Len(b) : b[i] \in Nat
  BY LettersTyped
<1>2. CASE \E i \in Nat : (LessAt(a, b, i) \/ LessAt(b, a, i)) /\ str_cmp(a, b) = a[i] - b[i]
  <2>1. PICK i \in Nat : (LessAt(a, b, i) \/ LessAt(b, a, i)) /\ str_cmp(a, b) = a[i] - b[i]
    BY <1>2
  <2>2. CASE LessAt(a, b, i)
    <3>1. Foremost(a, b)
      BY <2>2 DEF Foremost
    <3>2. ~Foremost(b, a)
      BY <3>1, OnlyOneForemost
    <3>3. str_cmp(a, b) \in Int /\ str_cmp(a, b) < 0
      BY <1>1, <2>1, <2>2 DEF LessAt
    <3>4. QED  BY <3>1, <3>2, <3>3
  <2>3. CASE LessAt(b, a, i)
    <3>1. Foremost(b, a)
      BY <2>3 DEF Foremost
    <3>2. ~Foremost(a, b)
      BY <3>1, OnlyOneForemost
    <3>3. str_cmp(a, b) \in Int /\ str_cmp(a, b) > 0
      BY <1>1, <2>1, <2>3 DEF LessAt
    <3>4. QED  BY <3>1, <3>2, <3>3
  <2>4. QED  BY <2>1, <2>2, <2>3
<1>3. CASE (Begins(a, b) \/ Begins(b, a)) /\ str_cmp(a, b) = Len(a) - Len(b)
  <2>1. str_cmp(a, b) \in Int
    BY <1>1, <1>3
  <2>2. CASE Len(a) < Len(b)
    <3>1. Foremost(a, b)
      BY <1>1, <1>3, <2>2 DEF Foremost, Begins
    <3>2. QED  BY <1>1, <1>3, <2>1, <2>2, <3>1, OnlyOneForemost
  <2>3. CASE Len(b) < Len(a)
    <3>1. Foremost(b, a)
      BY <1>1, <1>3, <2>3 DEF Foremost, Begins
    <3>2. QED  BY <1>1, <1>3, <2>1, <2>3, <3>1, OnlyOneForemost
  <2>4. CASE Len(a) = Len(b)
    <3>1. \A i \in 1 .. Len(a) : a[i] = b[i]
      BY <1>1, <1>3, <2>4 DEF Begins
    <3>2. a = b
      BY <2>4, <3>1, SameText
    <3>3. ~Foremost(a, b) /\ ~Foremost(b, a)
      BY <3>2, OnlyOneForemost
    <3>4. QED  BY <1>1, <1>3, <2>4, <3>3
  <2>5. QED  BY <1>1, <2>2, <2>3, <2>4
<1>4. QED  BY <1>2, <1>3, StringsCompared

LEMMA ForemostIsLess ==
    ASSUME NEW a \in Letters, NEW b \in Letters
    PROVE  Less("string", a, b) <=> Foremost(a, b)
<1>1. /\ Len(a) \in Nat /\ DOMAIN a = 1 .. Len(a) /\ \A i \in 1 .. Len(a) : a[i] \in Nat
      /\ Len(b) \in Nat /\ DOMAIN b = 1 .. Len(b) /\ \A i \in 1 .. Len(b) : b[i] \in Nat
  BY LettersTyped
<1>2. Less("string", a, b) <=> \/ IsPrefix(a, b) /\ a # b
                               \/ \E i \in DOMAIN a \cap DOMAIN b :
                                     a[i] < b[i] /\ Copied(a, i - 1) = Copied(b, i - 1)
  BY Zenon DEF Less
<1>3. IsPrefix(a, b) <=> Begins(a, b)
  <2>1. SUFFICES ASSUME Len(a) <= Len(b)
                 PROVE  Copied(b, Len(a)) = a <=> \A j \in 1 .. Len(a) : a[j] = b[j]
    BY DEF IsPrefix, Begins
  <2> DEFINE c == Copied(b, Len(a))
  <2>2. Len(a) \in 0 .. Len(b)
    BY <1>1, <2>1
  <2>3. c \in Letters /\ Len(c) = Len(a) /\ \A j \in 1 .. Len(a) : c[j] = b[j]
    BY <2>2, CopiedText
  <2> HIDE DEF c
  <2>4. (\A j \in 1 .. Len(a) : a[j] = b[j]) => c = a
    BY <2>3, SameText
  <2>5. QED  BY <2>3, <2>4 DEF c
<1>4. ASSUME NEW i \in DOMAIN a \cap DOMAIN b
      PROVE  Copied(a, i - 1) = Copied(b, i - 1) <=> \A j \in 1 .. i - 1 : a[j] = b[j]
  <2> DEFINE c == Copied(a, i - 1)
             d == Copied(b, i - 1)
  <2>1. i - 1 \in 0 .. Len(a) /\ i - 1 \in 0 .. Len(b)
    BY <1>1
  <2>2. /\ c \in Letters /\ Len(c) = i - 1 /\ \A j \in 1 .. i - 1 : c[j] = a[j]
        /\ d \in Letters /\ Len(d) = i - 1 /\ \A j \in 1 .. i - 1 : d[j] = b[j]
    BY <2>1, CopiedText
  <2> HIDE DEF c, d
  <2>3. (\A j \in 1 .. i - 1 : a[j] = b[j]) => c = d
    <3>1. SUFFICES ASSUME \A j \in 1 .. i - 1 : a[j] = b[j] PROVE c = d
      OBVIOUS
    <3>2. \A j \in 1 .. Len(c) : c[j] = d[j]
      BY <2>2, <3>1
    <3>3. QED  BY <2>2, <3>2, SameText
  <2>4. c = d => \A j \in 1 .. i - 1 : a[j] = b[j]
    BY <2>2
  <2>5. QED  BY <2>3, <2>4 DEF c, d
<1>5. (\E i \in DOMAIN a \cap DOMAIN b : a[i] < b[i] /\ Copied(a, i - 1) = Copied(b, i - 1))
         <=> \E i \in Nat : LessAt(a, b, i)
  BY <1>1, <1>4, SMTT(30) DEF LessAt
<1>6. Begins(a, b) /\ a # b <=> Begins(a, b) /\ Len(a) < Len(b)
  <2>1. Begins(a, b) /\ Len(a) = Len(b) => a = b
    BY SameText DEF Begins
  <2>2. Begins(a, b) => Len(a) <= Len(b)
    BY DEF Begins
  <2>3. a = b => Len(a) = Len(b)
    OBVIOUS
  <2>4. \A m, n \in Nat : (m <= n => m = n \/ m < n) /\ (m < n => m # n)
    OBVIOUS
  <2>5. QED  BY <1>1, <2>1, <2>2, <2>3, <2>4, Zenon
<1>7. QED  BY <1>2, <1>3, <1>5, <1>6 DEF Foremost

LEMMA ForemostIsTotal ==
    ASSUME NEW a \in Letters, NEW b \in Letters
    PROVE  Foremost(a, b) \/ Foremost(b, a) \/ a = b
<1>1. Len(a) \in Nat /\ Len(b) \in Nat
  BY LettersTyped
<1>2. Begins(a, b) /\ Len(a) = Len(b) => a = b
  BY SameText DEF Begins
<1>3. Begins(b, a) /\ Len(a) = Len(b) => a = b
  BY SameText DEF Begins
<1>4. CASE \E i \in Nat : LessAt(a, b, i) \/ LessAt(b, a, i)
  BY <1>4 DEF Foremost
<1>5. CASE Begins(a, b) \/ Begins(b, a)
  <2>1. Begins(a, b) => Foremost(a, b) \/ a = b
    BY <1>1, <1>2 DEF Foremost, Begins
  <2>2. Begins(b, a) => Foremost(b, a) \/ a = b
    BY <1>1, <1>3 DEF Foremost, Begins
  <2>3. QED  BY <1>5, <2>1, <2>2
<1>6. QED  BY <1>4, <1>5, StringsCompared

LEMMA ForemostIsTransitive ==
    ASSUME NEW a \in Letters, NEW b \in Letters, NEW c \in Letters, Foremost(a, b), Foremost(b, c)
    PROVE  Foremost(a, c)
<1>1. /\ Len(a) \in Nat /\ \A i \in 1 .. Len(a) : a[i] \in Nat
      /\ Len(b) \in Nat /\ \A i \in 1 .. Len(b) : b[i] \in Nat
      /\ Len(c) \in Nat /\ \A i \in 1 .. Len(c) : c[i] \in Nat
  BY LettersTyped
<1>2. ASSUME NEW i \in Nat, LessAt(a, b, i), NEW j \in Nat, LessAt(b, c, j)
      PROVE  \E k \in Nat : LessAt(a, c, k)
  <2>1. /\ i \in 1 .. Len(a) /\ i \in 1 .. Len(b) /\ a[i] < b[i] /\ \A k \in 1 .. i - 1 : a[k] = b[k]
        /\ j \in 1 .. Len(b) /\ j \in 1 .. Len(c) /\ b[j] < c[j] /\ \A k \in 1 .. j - 1 : b[k] = c[k]
    BY <1>2 DEF LessAt
  <2>2. CASE i < j
    <3>1. LessAt(a, c, i)
      BY <1>1, <2>1, <2>2 DEF LessAt
    <3>2. QED  BY <3>1
  <2>3. CASE i = j
    <3>1. a[i] < c[i]
      BY <1>1, <2>1, <2>3
    <3>2. LessAt(a, c, i)
      BY <1>1, <2>1, <2>3, <3>1 DEF LessAt
    <3>3. QED  BY <3>2
  <2>4. CASE i > j
    <3>1. LessAt(a, c, j)
      BY <1>1, <2>1, <2>4 DEF LessAt
    <3>2. QED  BY <3>1
  <2>5. QED  BY <2>2, <2>3, <2>4
<1>3. ASSUME NEW i \in Nat, LessAt(a, b, i), Begins(b, c) PROVE LessAt(a, c, i)
  <2>1. /\ i \in 1 .. Len(a) /\ i \in 1 .. Len(b) /\ a[i] < b[i] /\ \A k \in 1 .. i - 1 : a[k] = b[k]
        /\ Len(b) <= Len(c) /\ \A k \in 1 .. Len(b) : b[k] = c[k]
    BY <1>3 DEF LessAt, Begins
  <2>2. c[i] = b[i] /\ i \in 1 .. Len(c)
    BY <1>1, <2>1
  <2>3. \A k \in 1 .. i - 1 : k \in 1 .. Len(b)
    BY <1>1, <2>1
  <2>4. QED  BY <1>1, <2>1, <2>2, <2>3 DEF LessAt
<1>4. ASSUME Begins(a, b), Len(a) < Len(b), NEW j \in Nat, LessAt(b, c, j) PROVE Foremost(a, c)
  <2>1. /\ Len(a) <= Len(b) /\ \A k \in 1 .. Len(a) : a[k] = b[k]
        /\ j \in 1 .. Len(b) /\ j \in 1 .. Len(c) /\ b[j] < c[j] /\ \A k \in 1 .. j - 1 : b[k] = c[k]
    BY <1>4 DEF LessAt, Begins
  <2>2. CASE j <= Len(a)
    <3>1. LessAt(a, c, j)
      BY <1>1, <2>1, <2>2 DEF LessAt
    <3>2. QED  BY <3>1 DEF Foremost
  <2>3. CASE j > Len(a)
    <3>1. Begins(a, c) /\ Len(a) < Len(c)
      BY <1>1, <2>1, <2>3 DEF Begins
    <3>2. QED  BY <3>1 DEF Foremost
  <2>4. QED  BY <1>1, <2>1, <2>2, <2>3
<1>5. Begins(a, b) /\ Begins(b, c) /\ Len(a) < Len(b) => Begins(a, c) /\ Len(a) < Len(c)
  BY <1>1 DEF Begins
<1>6. QED  BY <1>2, <1>3, <1>4, <1>5 DEF Foremost

LEMMA HalfSecondsTyped ==
    ASSUME NEW t \in Moments
    PROVE  /\ t.sec \in Int /\ t.nsec \in {-Half, 0, Half}
           /\ t.sec > 0 => t.nsec >= 0
           /\ t.sec < 0 => t.nsec <= 0
           /\ t = Time(t.sec, t.nsec)
<1>1. t \in HalfSeconds
  BY FunctionAssumption
<1>2. t \in [sec : Int, nsec : {-Half, 0, Half}]
  BY <1>1 DEF HalfSeconds
<1>3. t = [sec |-> t.sec, nsec |-> t.nsec]
  BY <1>2
<1>4. QED  BY <1>1, <1>2, <1>3 DEF HalfSeconds, Time

(* An instant in eighths of a second.                                      *)
LEMMA InEighths ==
    ASSUME NEW t \in Moments
    PROVE  /\ Nanos8(t) \in Int
           /\ t.nsec = Half => Nanos8(t) = 8 * t.sec + 4
           /\ t.nsec = 0 => Nanos8(t) = 8 * t.sec
           /\ t.nsec = -Half => Nanos8(t) = 8 * t.sec - 4
<1>1. t.sec \in Int /\ t.nsec \in {-Half, 0, Half}
  BY HalfSecondsTyped
<1>2. Half \div (Second \div 8) = 4 /\ 0 \div (Second \div 8) = 0 /\ (-Half) \div (Second \div 8) = -4
  BY SMT DEF Half, Second
<1>3. QED  BY <1>1, <1>2 DEF Nanos8, In

(* The order of a kind is one, and its comparison decides it.              *)
Ordered(kind) ==
    /\ \A a, b \in OfKind(kind) :
          /\ Cmp(kind, a, b) \in Int
          /\ Cmp(kind, a, b) < 0 <=> Less(kind, a, b)
          /\ Cmp(kind, a, b) > 0 <=> Less(kind, b, a)
          /\ Less(kind, a, b) \/ Less(kind, b, a) \/ a = b
          /\ ~(Less(kind, a, b) /\ Less(kind, b, a))
    /\ \A a, b, c \in OfKind(kind) : Less(kind, a, b) /\ Less(kind, b, c) => Less(kind, a, c)

LEMMA NumbersOrdered == Ordered("number")
<1>1. \A a, b : Cmp("number", a, b) = a - b
  BY DEF Cmp
<1>2. \A a, b : Less("number", a, b) <=> a < b
  BY DEF Less
<1>3. \A a \in OfKind("number") : a \in Int
  BY FunctionAssumption DEF OfKind, IntValues
<1>4. QED  BY <1>1, <1>2, <1>3 DEF Ordered

LEMMA StringsOrdered == Ordered("string")
<1>1. \A a, b : Cmp("string", a, b) = str_cmp(a, b)
  BY DEF Cmp
<1>2. \A a \in OfKind("string") : a \in Letters
  BY TextTypes DEF OfKind
<1>3. \A a, b \in OfKind("string") : Less("string", a, b) <=> Foremost(a, b)
  BY <1>2, ForemostIsLess
<1>4. ASSUME NEW a \in OfKind("string"), NEW b \in OfKind("string")
      PROVE  /\ Cmp("string", a, b) \in Int
             /\ Cmp("string", a, b) < 0 <=> Less("string", a, b)
             /\ Cmp("string", a, b) > 0 <=> Less("string", b, a)
             /\ Less("string", a, b) \/ Less("string", b, a) \/ a = b
             /\ ~(Less("string", a, b) /\ Less("string", b, a))
  BY <1>1, <1>2, <1>3, ComparedAsForemost, ForemostIsTotal, OnlyOneForemost
<1>5. ASSUME NEW a \in OfKind("string"), NEW b \in OfKind("string"), NEW c \in OfKind("string"),
             Less("string", a, b), Less("string", b, c)
      PROVE  Less("string", a, c)
  BY <1>2, <1>3, <1>5, ForemostIsTransitive
<1>6. QED  BY <1>4, <1>5 DEF Ordered

LEMMA TimesOrdered == Ordered("time")
<1>1. \A a, b : Cmp("time", a, b) = time_cmp(a, b)
  BY DEF Cmp
<1>2. \A a, b : Less("time", a, b) <=> Nanos8(a) < Nanos8(b)
  BY DEF Less
<1>3. OfKind("time") = Moments
  BY DEF OfKind
<1>4. ASSUME NEW a \in Moments, NEW b \in Moments
      PROVE  /\ Nanos8(a) \in Int /\ Nanos8(b) \in Int
             /\ time_cmp(a, b) \in Int
             /\ time_cmp(a, b) < 0 <=> Nanos8(a) < Nanos8(b)
             /\ time_cmp(a, b) > 0 <=> Nanos8(b) < Nanos8(a)
             /\ Nanos8(a) = Nanos8(b) => a = b
  <2>1. /\ a.sec \in Int /\ a.nsec \in {-Half, 0, Half}
        /\ a.sec > 0 => a.nsec >= 0
        /\ a.sec < 0 => a.nsec <= 0
        /\ a = Time(a.sec, a.nsec)
    BY HalfSecondsTyped
  <2>2. /\ b.sec \in Int /\ b.nsec \in {-Half, 0, Half}
        /\ b.sec > 0 => b.nsec >= 0
        /\ b.sec < 0 => b.nsec <= 0
        /\ b = Time(b.sec, b.nsec)
    BY HalfSecondsTyped
  <2>3. Half \in Nat \ {0}
    BY SMT DEF Half, Second
  <2>4. /\ Nanos8(a) \in Int
        /\ a.nsec = Half => Nanos8(a) = 8 * a.sec + 4
        /\ a.nsec = 0 => Nanos8(a) = 8 * a.sec
        /\ a.nsec = -Half => Nanos8(a) = 8 * a.sec - 4
    BY InEighths
  <2>5. /\ Nanos8(b) \in Int
        /\ b.nsec = Half => Nanos8(b) = 8 * b.sec + 4
        /\ b.nsec = 0 => Nanos8(b) = 8 * b.sec
        /\ b.nsec = -Half => Nanos8(b) = 8 * b.sec - 4
    BY InEighths
  <2>6. Nanos8(a) = Nanos8(b) => a.sec = b.sec /\ a.nsec = b.nsec
    BY <2>1, <2>2, <2>3, <2>4, <2>5
  <2>7. CASE a.sec = b.sec
    <3>1. time_cmp(a, b) = a.nsec - b.nsec
      BY <2>7 DEF time_cmp
    <3>2. QED  BY <2>1, <2>2, <2>3, <2>4, <2>5, <2>6, <2>7, <3>1
  <2>8. CASE a.sec # b.sec
    <3>1. time_cmp(a, b) = a.sec - b.sec
      BY <2>8 DEF time_cmp
    <3>2. QED  BY <2>1, <2>2, <2>3, <2>4, <2>5, <2>6, <2>8, <3>1
  <2>9. QED  BY <2>7, <2>8
<1>5. ASSUME NEW a \in Moments, NEW b \in Moments
      PROVE  /\ Cmp("time", a, b) \in Int
             /\ Cmp("time", a, b) < 0 <=> Less("time", a, b)
             /\ Cmp("time", a, b) > 0 <=> Less("time", b, a)
             /\ Less("time", a, b) \/ Less("time", b, a) \/ a = b
             /\ ~(Less("time", a, b) /\ Less("time", b, a))
  BY <1>1, <1>2, <1>4
<1>6. ASSUME NEW a \in Moments, NEW b \in Moments, NEW c \in Moments, Less("time", a, b), Less("time", b, c)
      PROVE  Less("time", a, c)
  BY <1>2, <1>4, <1>6
<1>7. QED  BY <1>3, <1>5, <1>6 DEF Ordered

LEMMA EveryKindOrdered ==
    ASSUME NEW kind \in Kinds
    PROVE  Ordered(kind)
BY NumbersOrdered, TimesOrdered, StringsOrdered DEF Kinds

(* The higher and the lower of two.                                        *)
Higher(kind, a, b) == IF Cmp(kind, a, b) < 0 THEN b ELSE a
Lower(kind, a, b) == IF Cmp(kind, a, b) > 0 THEN b ELSE a

LEMMA MaxOfOperands ==
    ASSUME NEW kind \in Kinds, NEW ops \in OneToThree(OfKind(kind))
    PROVE  /\ Len(ops) = 1 => MAX(kind, ops) = ops[1]
           /\ Len(ops) = 2 => MAX(kind, ops) = (Higher(kind, ops[1], ops[2]))
           /\ Len(ops) = 3 => MAX(kind, ops) = (Higher(kind, (Higher(kind, ops[1], ops[2])), ops[3]))
<1> DEFINE op(a, b) == Higher(kind, a, b)
           Is(r) == r = [i \in DOMAIN ops |-> IF i = 1 THEN ops[1] ELSE op(r[i - 1], ops[i])]
           r0 == CHOOSE r : Is(r)
           f == [i \in DOMAIN ops |-> IF i = 1 THEN ops[1] ELSE IF i = 2 THEN op(ops[1], ops[2])
                                      ELSE op(op(ops[1], ops[2]), ops[3])]
<1>1. Len(ops) \in {1, 2, 3} /\ DOMAIN ops = 1 .. Len(ops)
  BY Operands
<1>2. MAX(kind, ops) = r0[Len(ops)]
  BY DEF MAX, Higher, arith_expand
<1> HIDE DEF op
<1>3. Is(f)
  BY <1>1
<1>4. Is(r0)
  <2> HIDE DEF Is, f
  <2> QED  BY <1>3
<1>5. /\ Len(ops) = 1 => r0[Len(ops)] = ops[1]
      /\ Len(ops) = 2 => r0[Len(ops)] = op(ops[1], ops[2])
      /\ Len(ops) = 3 => r0[Len(ops)] = op(op(ops[1], ops[2]), ops[3])
  <2> HIDE DEF r0
  <2> QED  BY <1>1, <1>4
<1>6. QED
  <2> HIDE DEF r0
  <2> QED  BY <1>2, <1>5 DEF op

LEMMA MinOfOperands ==
    ASSUME NEW kind \in Kinds, NEW ops \in OneToThree(OfKind(kind))
    PROVE  /\ Len(ops) = 1 => MIN(kind, ops) = ops[1]
           /\ Len(ops) = 2 => MIN(kind, ops) = (Lower(kind, ops[1], ops[2]))
           /\ Len(ops) = 3 => MIN(kind, ops) = (Lower(kind, (Lower(kind, ops[1], ops[2])), ops[3]))
<1> DEFINE op(a, b) == Lower(kind, a, b)
           Is(r) == r = [i \in DOMAIN ops |-> IF i = 1 THEN ops[1] ELSE op(r[i - 1], ops[i])]
           r0 == CHOOSE r : Is(r)
           f == [i \in DOMAIN ops |-> IF i = 1 THEN ops[1] ELSE IF i = 2 THEN op(ops[1], ops[2])
                                      ELSE op(op(ops[1], ops[2]), ops[3])]
<1>1. Len(ops) \in {1, 2, 3} /\ DOMAIN ops = 1 .. Len(ops)
  BY Operands
<1>2. MIN(kind, ops) = r0[Len(ops)]
  BY DEF MIN, Lower, arith_expand
<1> HIDE DEF op
<1>3. Is(f)
  BY <1>1
<1>4. Is(r0)
  <2> HIDE DEF Is, f
  <2> QED  BY <1>3
<1>5. /\ Len(ops) = 1 => r0[Len(ops)] = ops[1]
      /\ Len(ops) = 2 => r0[Len(ops)] = op(ops[1], ops[2])
      /\ Len(ops) = 3 => r0[Len(ops)] = op(op(ops[1], ops[2]), ops[3])
  <2> HIDE DEF r0
  <2> QED  BY <1>1, <1>4
<1>6. QED
  <2> HIDE DEF r0
  <2> QED  BY <1>2, <1>5 DEF op

LEMMA MaxAnswers ==
    ASSUME NEW kind \in Kinds, NEW ops \in OneToThree(OfKind(kind))
    PROVE  ChoiceAnswer("MAX", <<kind, ops>>, MAX(kind, ops))
<1> DEFINE O == OfKind(kind)
           Over(a, b) == Less(kind, b, a)
           y == MAX(kind, ops)
           x == <<kind, ops>>
<1>1. Len(ops) \in {1, 2, 3} /\ DOMAIN ops = 1 .. Len(ops) /\ \A i \in 1 .. Len(ops) : ops[i] \in O
  BY Operands
<1>2. /\ \A a, b \in O : Over(a, b) \/ Over(b, a) \/ a = b
      /\ \A a, b \in O : ~(Over(a, b) /\ Over(b, a))
      /\ \A a, b, c \in O : Over(a, b) /\ Over(b, c) => Over(a, c)
      /\ \A a, b \in O : Higher(kind, a, b) = IF Over(b, a) THEN b ELSE a
  BY EveryKindOrdered DEF Ordered, Higher
<1>3. /\ Len(ops) = 1 => y = ops[1]
      /\ Len(ops) = 2 => y = Higher(kind, ops[1], ops[2])
      /\ Len(ops) = 3 => y = Higher(kind, Higher(kind, ops[1], ops[2]), ops[3])
  BY MaxOfOperands
<1> HIDE DEF O, Over, y
<1>4. \E i \in 1 .. Len(ops) : y = ops[i] /\ \A j \in 1 .. Len(ops) : ~Over(ops[j], ops[i])
  <2>1. CASE Len(ops) = 1
    <3>1. y = ops[1] /\ ops[1] \in O /\ \A j \in 1 .. Len(ops) : j = 1
      BY <1>1, <1>3, <2>1
    <3>2. QED  BY <1>2, <2>1, <3>1
  <2>2. CASE Len(ops) = 2
    <3>1. ops[1] \in O /\ ops[2] \in O /\ 1 \in 1 .. Len(ops) /\ 2 \in 1 .. Len(ops)
          /\ \A j \in 1 .. Len(ops) : j = 1 \/ j = 2
      BY <1>1, <2>2
    <3>2. y = IF Over(ops[2], ops[1]) THEN ops[2] ELSE ops[1]
      BY <1>2, <1>3, <2>2, <3>1
    <3>3. QED  BY <1>2, <3>1, <3>2
  <2>3. CASE Len(ops) = 3
    <3>1. /\ ops[1] \in O /\ ops[2] \in O /\ ops[3] \in O
          /\ 1 \in 1 .. Len(ops) /\ 2 \in 1 .. Len(ops) /\ 3 \in 1 .. Len(ops)
          /\ \A j \in 1 .. Len(ops) : j = 1 \/ j = 2 \/ j = 3
      BY <1>1, <2>3
    <3> DEFINE z == IF Over(ops[2], ops[1]) THEN ops[2] ELSE ops[1]
    <3>2. z \in O /\ z = Higher(kind, ops[1], ops[2])
      BY <1>2, <3>1
    <3>3. y = IF Over(ops[3], z) THEN ops[3] ELSE z
      BY <1>2, <1>3, <2>3, <3>1, <3>2
    <3>4. CASE Over(ops[2], ops[1])
      BY <1>2, <3>1, <3>3, <3>4
    <3>5. CASE ~Over(ops[2], ops[1])
      BY <1>2, <3>1, <3>3, <3>5
    <3>6. QED  BY <3>4, <3>5
  <2>4. QED  BY <1>1, <2>1, <2>2, <2>3
<1>5. x[1] = kind /\ x[2] = ops
  OBVIOUS
<1> HIDE DEF x
<1>6. y \in All(x[2]) /\ \A v \in All(x[2]) : ~Less(x[1], y, v)
  BY <1>1, <1>4, <1>5 DEF All, Over
<1>7. ChoiceAnswer("MAX", x, y)
  BY <1>6 DEF ChoiceAnswer
<1>8. QED  BY <1>7 DEF x, y

LEMMA MinAnswers ==
    ASSUME NEW kind \in Kinds, NEW ops \in OneToThree(OfKind(kind))
    PROVE  ChoiceAnswer("MIN", <<kind, ops>>, MIN(kind, ops))
<1> DEFINE O == OfKind(kind)
           Over(a, b) == Less(kind, a, b)
           y == MIN(kind, ops)
           x == <<kind, ops>>
<1>1. Len(ops) \in {1, 2, 3} /\ DOMAIN ops = 1 .. Len(ops) /\ \A i \in 1 .. Len(ops) : ops[i] \in O
  BY Operands
<1>2. /\ \A a, b \in O : Over(a, b) \/ Over(b, a) \/ a = b
      /\ \A a, b \in O : ~(Over(a, b) /\ Over(b, a))
      /\ \A a, b, c \in O : Over(a, b) /\ Over(b, c) => Over(a, c)
      /\ \A a, b \in O : Lower(kind, a, b) = IF Over(b, a) THEN b ELSE a
  BY EveryKindOrdered DEF Ordered, Lower
<1>3. /\ Len(ops) = 1 => y = ops[1]
      /\ Len(ops) = 2 => y = Lower(kind, ops[1], ops[2])
      /\ Len(ops) = 3 => y = Lower(kind, Lower(kind, ops[1], ops[2]), ops[3])
  BY MinOfOperands
<1> HIDE DEF O, Over, y
<1>4. \E i \in 1 .. Len(ops) : y = ops[i] /\ \A j \in 1 .. Len(ops) : ~Over(ops[j], ops[i])
  <2>1. CASE Len(ops) = 1
    <3>1. y = ops[1] /\ ops[1] \in O /\ \A j \in 1 .. Len(ops) : j = 1
      BY <1>1, <1>3, <2>1
    <3>2. QED  BY <1>2, <2>1, <3>1
  <2>2. CASE Len(ops) = 2
    <3>1. ops[1] \in O /\ ops[2] \in O /\ 1 \in 1 .. Len(ops) /\ 2 \in 1 .. Len(ops)
          /\ \A j \in 1 .. Len(ops) : j = 1 \/ j = 2
      BY <1>1, <2>2
    <3>2. y = IF Over(ops[2], ops[1]) THEN ops[2] ELSE ops[1]
      BY <1>2, <1>3, <2>2, <3>1
    <3>3. QED  BY <1>2, <3>1, <3>2
  <2>3. CASE Len(ops) = 3
    <3>1. /\ ops[1] \in O /\ ops[2] \in O /\ ops[3] \in O
          /\ 1 \in 1 .. Len(ops) /\ 2 \in 1 .. Len(ops) /\ 3 \in 1 .. Len(ops)
          /\ \A j \in 1 .. Len(ops) : j = 1 \/ j = 2 \/ j = 3
      BY <1>1, <2>3
    <3> DEFINE z == IF Over(ops[2], ops[1]) THEN ops[2] ELSE ops[1]
    <3>2. z \in O /\ z = Lower(kind, ops[1], ops[2])
      BY <1>2, <3>1
    <3>3. y = IF Over(ops[3], z) THEN ops[3] ELSE z
      BY <1>2, <1>3, <2>3, <3>1, <3>2
    <3>4. CASE Over(ops[2], ops[1])
      BY <1>2, <3>1, <3>3, <3>4
    <3>5. CASE ~Over(ops[2], ops[1])
      BY <1>2, <3>1, <3>3, <3>5
    <3>6. QED  BY <3>4, <3>5
  <2>4. QED  BY <1>1, <2>1, <2>2, <2>3
<1>5. x[1] = kind /\ x[2] = ops
  OBVIOUS
<1> HIDE DEF x
<1>6. y \in All(x[2]) /\ \A v \in All(x[2]) : ~Less(x[1], v, y)
  BY <1>1, <1>4, <1>5 DEF All, Over
<1>7. ChoiceAnswer("MIN", x, y)
  BY <1>6 DEF ChoiceAnswer
<1>8. QED  BY <1>7 DEF x, y

LEMMA LimitAnswers ==
    ASSUME NEW kind \in Kinds, NEW ops \in OneToThree(OfKind(kind)), Len(ops) = 3
    PROVE  ChoiceAnswer("LIMIT", <<kind, ops>>, LIMIT(kind, ops[1], ops[2], ops[3]))
<1> DEFINE O == OfKind(kind)
           L(a, b) == Less(kind, a, b)
           x == <<kind, ops>>
           mn == ops[1]
           in == ops[2]
           mx == ops[3]
           y == LIMIT(kind, mn, in, mx)
<1>1. mn \in O /\ in \in O /\ mx \in O
  BY Operands
<1>2. /\ \A a, b \in O : L(a, b) \/ L(b, a) \/ a = b
      /\ \A a, b \in O : ~(L(a, b) /\ L(b, a))
      /\ \A a, b, c \in O : L(a, b) /\ L(b, c) => L(a, c)
      /\ \A a, b \in O : (Cmp(kind, a, b) > 0 <=> L(b, a)) /\ (Cmp(kind, a, b) < 0 <=> L(a, b))
  BY EveryKindOrdered DEF Ordered
<1>3. y = IF Cmp(kind, in, mn) > 0 THEN IF Cmp(kind, in, mx) < 0 THEN in ELSE mx ELSE mn
  BY DEF LIMIT
<1> HIDE DEF O, L, mn, in, mx, y
<1>4. y = IF L(mn, in) THEN IF L(in, mx) THEN in ELSE mx ELSE mn
  BY <1>1, <1>2, <1>3
<1>5. IF L(mx, mn) THEN y \in {mn, mx}
      ELSE IF L(in, mn) THEN y = mn ELSE IF L(mx, in) THEN y = mx ELSE y = in
  <2>1. CASE L(mx, mn)
    <3>1. ~(L(mn, in) /\ L(in, mx))
      BY <1>1, <1>2, <2>1
    <3>2. QED  BY <1>4, <2>1, <3>1
  <2>2. CASE ~L(mx, mn) /\ L(in, mn)
    <3>1. ~L(mn, in)
      BY <1>1, <1>2, <2>2
    <3>2. QED  BY <1>4, <2>2, <3>1
  <2>3. CASE ~L(mx, mn) /\ ~L(in, mn) /\ L(mx, in)
    <3>1. ~L(in, mx) /\ (L(mn, in) \/ mn = mx)
      BY <1>1, <1>2, <2>3
    <3>2. QED  BY <1>1, <1>2, <1>4, <2>3, <3>1
  <2>4. CASE ~L(mx, mn) /\ ~L(in, mn) /\ ~L(mx, in)
    <3>1. (L(mn, in) \/ mn = in) /\ (L(in, mx) \/ in = mx)
      BY <1>1, <1>2, <2>4
    <3>2. QED  BY <1>4, <2>4, <3>1
  <2>5. QED  BY <2>1, <2>2, <2>3, <2>4
<1>6. x[1] = kind /\ x[2][1] = mn /\ x[2][2] = in /\ x[2][3] = mx
  BY DEF mn, in, mx
<1> HIDE DEF x
<1>7. ChoiceAnswer("LIMIT", x, y)
  BY <1>5, <1>6 DEF ChoiceAnswer, L
<1>8. QED  BY <1>7 DEF x, y, mn, in, mx

LEMMA MuxAnswers ==
    ASSUME NEW S, NEW ops \in OneToThree(S), NEW init, NEW k \in -1 .. 3
    PROVE  ChoiceAnswer("MUX", <<k, ops, init>>, MUX(k, init, ops))
<1> DEFINE x == <<k, ops, init>>
           y == MUX(k, init, ops)
<1>1. Len(ops) \in {1, 2, 3} /\ DOMAIN ops = 1 .. Len(ops)
  BY Operands
<1>2. k \in 0 .. Len(ops) - 1 <=> k + 1 \in DOMAIN ops
  BY <1>1
<1>3. y = IF k + 1 \in DOMAIN ops THEN ops[k + 1] ELSE init
  BY <1>2 DEF MUX
<1>4. x[1] = k /\ x[2] = ops /\ x[3] = init
  OBVIOUS
<1> HIDE DEF x, y
<1>5. ChoiceAnswer("MUX", x, y)
  BY <1>3, <1>4 DEF ChoiceAnswer
<1>6. QED  BY <1>5 DEF x, y

LEMMA SelAnswers ==
    ASSUME NEW ops, NEW g \in BOOLEAN
    PROVE  ChoiceAnswer("SEL", <<g, ops>>, SEL(g, ops[1], ops[2]))
<1> DEFINE x == <<g, ops>>
           y == SEL(g, ops[1], ops[2])
<1>1. y = IF g THEN ops[2] ELSE ops[1]
  BY DEF SEL
<1>2. x[1] = g /\ x[2] = ops
  OBVIOUS
<1> HIDE DEF x, y
<1>3. ChoiceAnswer("SEL", x, y)
  BY <1>1, <1>2 DEF ChoiceAnswer
<1>4. QED  BY <1>3 DEF x, y

(* An order that holds from each operand to the next holds of all pairs.   *)
LEMMA Chained ==
    ASSUME NEW S, NEW ops \in OneToThree(S), NEW R,
           \A a, b, c \in S : <<a, b>> \in R /\ <<b, c>> \in R => <<a, c>> \in R
    PROVE  (\A i \in 1 .. Len(ops) - 1 : <<ops[i], ops[i + 1]>> \in R)
              <=> \A i, j \in DOMAIN ops : i < j => <<ops[i], ops[j]>> \in R
<1>1. Len(ops) \in {1, 2, 3} /\ DOMAIN ops = 1 .. Len(ops) /\ \A i \in 1 .. Len(ops) : ops[i] \in S
  BY Operands
<1>2. CASE Len(ops) = 1
  BY <1>1, <1>2
<1>3. CASE Len(ops) = 2
  <2>1. /\ \A i \in 1 .. Len(ops) - 1 : i = 1
        /\ \A i, j \in DOMAIN ops : i < j <=> i = 1 /\ j = 2
        /\ 1 \in 1 .. Len(ops) - 1 /\ 1 \in DOMAIN ops /\ 2 \in DOMAIN ops /\ 1 + 1 = 2
    BY <1>1, <1>3
  <2>2. QED  BY <2>1, Zenon
<1>4. CASE Len(ops) = 3
  <2>1. /\ \A i \in 1 .. Len(ops) - 1 : i = 1 \/ i = 2
        /\ \A i, j \in DOMAIN ops : i < j <=> (i = 1 /\ j = 2) \/ (i = 1 /\ j = 3) \/ (i = 2 /\ j = 3)
        /\ 1 \in 1 .. Len(ops) - 1 /\ 2 \in 1 .. Len(ops) - 1
        /\ 1 \in DOMAIN ops /\ 2 \in DOMAIN ops /\ 3 \in DOMAIN ops /\ 1 + 1 = 2 /\ 2 + 1 = 3
        /\ ops[1] \in S /\ ops[2] \in S /\ ops[3] \in S
    BY <1>1, <1>4
  <2>2. (\A i \in 1 .. Len(ops) - 1 : <<ops[i], ops[i + 1]>> \in R)
           <=> <<ops[1], ops[2]>> \in R /\ <<ops[2], ops[3]>> \in R
    BY <2>1, Zenon
  <2>3. (\A i, j \in DOMAIN ops : i < j => <<ops[i], ops[j]>> \in R)
           <=> <<ops[1], ops[2]>> \in R /\ <<ops[1], ops[3]>> \in R /\ <<ops[2], ops[3]>> \in R
    BY <2>1, Zenon
  <2>4. QED  BY <2>1, <2>2, <2>3, ZenonT(40)
<1>5. QED  BY <1>1, <1>2, <1>3, <1>4

(* A comparison answers what its order says of all pairs.                  *)
LEMMA ComparisonsAnswer ==
    ASSUME NEW kind \in Kinds, NEW ops \in OneToThree(OfKind(kind))
    PROVE  /\ ChoiceAnswer("GT", <<kind, ops>>, GT(kind, ops))
           /\ ChoiceAnswer("GE", <<kind, ops>>, GE(kind, ops))
           /\ ChoiceAnswer("EQ", <<kind, ops>>, EQ(kind, ops))
           /\ ChoiceAnswer("LT", <<kind, ops>>, LT(kind, ops))
           /\ ChoiceAnswer("LE", <<kind, ops>>, LE(kind, ops))
<1> DEFINE O == OfKind(kind)
           L(a, b) == Less(kind, a, b)
           x == <<kind, ops>>
           gt == {p \in O \X O : L(p[2], p[1])}
           ge == {p \in O \X O : ~L(p[1], p[2])}
           eq == {p \in O \X O : p[1] = p[2]}
           lt == {p \in O \X O : L(p[1], p[2])}
           le == {p \in O \X O : ~L(p[2], p[1])}
           chain(R) == \A i \in 1 .. Len(ops) - 1 : <<ops[i], ops[i + 1]>> \in R
           all(R) == \A i, j \in DOMAIN ops : i < j => <<ops[i], ops[j]>> \in R
<1>1. Len(ops) \in {1, 2, 3} /\ DOMAIN ops = 1 .. Len(ops) /\ \A i \in 1 .. Len(ops) : ops[i] \in O
  BY Operands
<1>2. /\ \A a, b \in O : L(a, b) \/ L(b, a) \/ a = b
      /\ \A a, b \in O : ~(L(a, b) /\ L(b, a))
      /\ \A a, b, c \in O : L(a, b) /\ L(b, c) => L(a, c)
      /\ \A a, b \in O : /\ Cmp(kind, a, b) \in Int
                         /\ Cmp(kind, a, b) > 0 <=> L(b, a)
                         /\ Cmp(kind, a, b) < 0 <=> L(a, b)
  BY EveryKindOrdered DEF Ordered
<1>3. x[1] = kind /\ x[2] = ops
  OBVIOUS
<1> HIDE DEF O, L, x
<1>4. ASSUME NEW a \in O, NEW b \in O
      PROVE  /\ <<a, b>> \in gt <=> L(b, a)
             /\ <<a, b>> \in ge <=> ~L(a, b)
             /\ <<a, b>> \in eq <=> a = b
             /\ <<a, b>> \in lt <=> L(a, b)
             /\ <<a, b>> \in le <=> ~L(b, a)
  OBVIOUS
<1>5. ASSUME NEW a \in O, NEW b \in O
      PROVE  /\ Cmp(kind, a, b) > 0 <=> <<a, b>> \in gt
             /\ Cmp(kind, a, b) >= 0 <=> <<a, b>> \in ge
             /\ Cmp(kind, a, b) = 0 <=> <<a, b>> \in eq
             /\ Cmp(kind, a, b) < 0 <=> <<a, b>> \in lt
             /\ Cmp(kind, a, b) <= 0 <=> <<a, b>> \in le
  <2> HIDE DEF gt, ge, eq, lt, le
  <2>1. /\ Cmp(kind, a, b) \in Int
        /\ Cmp(kind, a, b) > 0 <=> L(b, a)
        /\ Cmp(kind, a, b) < 0 <=> L(a, b)
        /\ L(a, b) \/ L(b, a) \/ a = b
        /\ ~L(a, a)
    BY <1>2
  <2>2. QED  BY <1>4, <2>1
<1> HIDE DEF gt, ge, eq, lt, le
<1>6. /\ GT(kind, ops) <=> chain(gt)
      /\ GE(kind, ops) <=> chain(ge)
      /\ EQ(kind, ops) <=> chain(eq)
      /\ LT(kind, ops) <=> chain(lt)
      /\ LE(kind, ops) <=> chain(le)
  <2>1. \A i \in 1 .. Len(ops) - 1 : ops[i] \in O /\ ops[i + 1] \in O
    BY <1>1
  <2>2. QED  BY <1>5, <2>1 DEF GT, GE, EQ, LT, LE
<1>7. ASSUME NEW a \in O, NEW b \in O, NEW c \in O
      PROVE  /\ <<a, b>> \in gt /\ <<b, c>> \in gt => <<a, c>> \in gt
             /\ <<a, b>> \in ge /\ <<b, c>> \in ge => <<a, c>> \in ge
             /\ <<a, b>> \in eq /\ <<b, c>> \in eq => <<a, c>> \in eq
             /\ <<a, b>> \in lt /\ <<b, c>> \in lt => <<a, c>> \in lt
             /\ <<a, b>> \in le /\ <<b, c>> \in le => <<a, c>> \in le
  BY <1>2, <1>4
<1>8. chain(gt) <=> all(gt)
  BY <1>7, Chained DEF O
<1>9. chain(ge) <=> all(ge)
  BY <1>7, Chained DEF O
<1>10. chain(eq) <=> all(eq)
  BY <1>7, Chained DEF O
<1>11. chain(lt) <=> all(lt)
  BY <1>7, Chained DEF O
<1>12. chain(le) <=> all(le)
  BY <1>7, Chained DEF O
<1> HIDE DEF chain
<1>13. \A i, j \in DOMAIN ops : ops[i] \in O /\ ops[j] \in O
  BY <1>1
<1>14. all(gt) <=> Pairs(ops, LAMBDA a, b : L(b, a))
  BY <1>4, <1>13 DEF Pairs
<1>15. all(ge) <=> Pairs(ops, LAMBDA a, b : ~L(a, b))
  BY <1>4, <1>13 DEF Pairs
<1>16. all(eq) <=> Pairs(ops, LAMBDA a, b : Same(kind, a, b))
  BY <1>2, <1>4, <1>13 DEF Pairs, Same, L
<1>17. all(lt) <=> Pairs(ops, LAMBDA a, b : L(a, b))
  BY <1>4, <1>13 DEF Pairs
<1>18. all(le) <=> Pairs(ops, LAMBDA a, b : ~L(b, a))
  BY <1>4, <1>13 DEF Pairs
<1> HIDE DEF all
<1>19. ChoiceAnswer("GT", x, GT(kind, ops))
  BY <1>3, <1>6, <1>8, <1>14 DEF ChoiceAnswer, Pairs, L
<1>20. ChoiceAnswer("GE", x, GE(kind, ops))
  BY <1>3, <1>6, <1>9, <1>15 DEF ChoiceAnswer, Pairs, L
<1>21. ChoiceAnswer("EQ", x, EQ(kind, ops))
  BY <1>3, <1>6, <1>10, <1>16 DEF ChoiceAnswer, Pairs, L
<1>22. ChoiceAnswer("LT", x, LT(kind, ops))
  BY <1>3, <1>6, <1>11, <1>17 DEF ChoiceAnswer, Pairs, L
<1>23. ChoiceAnswer("LE", x, LE(kind, ops))
  BY <1>3, <1>6, <1>12, <1>18 DEF ChoiceAnswer, Pairs, L
<1>24. QED  BY <1>19, <1>20, <1>21, <1>22, <1>23 DEF x

LEMMA NeAnswers ==
    ASSUME NEW kind \in Kinds, NEW ops \in OneToThree(OfKind(kind)), Len(ops) = 2
    PROVE  ChoiceAnswer("NE", <<kind, ops>>, NE(kind, ops[1], ops[2]))
<1> DEFINE x == <<kind, ops>>
           y == NE(kind, ops[1], ops[2])
<1>1. DOMAIN ops = {1, 2} /\ ops[1] \in OfKind(kind) /\ ops[2] \in OfKind(kind)
  <2>1. DOMAIN ops = 1 .. Len(ops) /\ \A i \in 1 .. Len(ops) : ops[i] \in OfKind(kind)
    BY Operands
  <2>2. QED  BY <2>1
<1>2. y <=> ~Same(kind, ops[1], ops[2])
  BY <1>1, EveryKindOrdered DEF NE, Same, Ordered
<1>3. x[1] = kind /\ x[2] = ops
  OBVIOUS
<1> HIDE DEF x, y
<1>4. Pairs(ops, LAMBDA a, b : ~Same(kind, a, b)) <=> ~Same(kind, ops[1], ops[2])
  <2>1. \A i, j \in DOMAIN ops : i < j <=> i = 1 /\ j = 2
    BY <1>1
  <2>2. 1 \in DOMAIN ops /\ 2 \in DOMAIN ops
    BY <1>1
  <2>3. QED  BY <2>1, <2>2, Zenon DEF Pairs
<1>5. ChoiceAnswer("NE", x, y)
  BY <1>2, <1>3, <1>4 DEF ChoiceAnswer, Pairs
<1>6. QED  BY <1>5 DEF x, y

-----------------------------------------------------------------------------
(* Numbers.                                                                *)
Modulus == 2 ^ Width
Greatest == 2 ^ (Width - 1)         \* the least INT is its negative
LeastOf(t) == IF t = "INT" THEN -Greatest ELSE 0

LEMMA NumberTypes ==
    /\ Modulus \in Nat \ {0} /\ Greatest \in Nat \ {0} /\ Modulus = 2 * Greatest
    /\ \A t \in Types : /\ LeastOf(t) \in Int
                        /\ IntValues(t) = LeastOf(t) .. LeastOf(t) + Modulus - 1
<1>1. Greatest \in Nat \ {0} /\ Modulus = 2 * Greatest
  <2>1. Width \in Width .. Width + 1 /\ \A w \in Width .. Width + 1 : 2 ^ w = 2 * 2 ^ (w - 1)
    BY FunctionAssumption
  <2>2. QED  BY <2>1, FunctionAssumption DEF Modulus, Greatest
<1>2. ASSUME NEW t \in Types
      PROVE  LeastOf(t) \in Int /\ IntValues(t) = LeastOf(t) .. LeastOf(t) + Modulus - 1
  <2>1. IntValues(t) = IF t = "INT" THEN -Greatest .. Greatest - 1 ELSE 0 .. Modulus - 1
    BY DEF IntValues, Greatest, Modulus
  <2>2. QED  BY <1>1, <2>1 DEF LeastOf
<1>3. QED  BY <1>1, <1>2

LEMMA WholeTurns ==
    ASSUME NEW d \in Nat \ {0}, NEW k \in Int
    PROVE  (k * d) % d = 0 /\ (d * k) % d = 0
<1> DEFINE n == k * d
<1>1. 0 \in 0 .. d - 1 /\ n \in Int /\ n = k * d + 0 /\ d * k = n
  OBVIOUS
<1> HIDE DEF n
<1>2. n % d = 0
  BY <1>1, Rest
<1>3. QED  BY <1>1, <1>2 DEF n

LEMMA TurnsOf ==
    ASSUME NEW d \in Nat \ {0}, NEW n \in Int, n % d = 0
    PROVE  \E k \in Int : n = k * d
<1>1. n = d * (n \div d) + (n % d) /\ n \div d \in Int
  OBVIOUS
<1>2. n = (n \div d) * d
  BY <1>1
<1>3. QED  BY <1>1, <1>2

LEMMA OneInEachTurn ==
    ASSUME NEW d \in Nat \ {0}, NEW lo \in Int, NEW m \in lo .. lo + d - 1, NEW n \in lo .. lo + d - 1,
           (m - n) % d = 0
    PROVE  m = n
<1> DEFINE w == m - n
<1>1. w \in Int /\ w > -d /\ w < d /\ w % d = 0
  OBVIOUS
<1> HIDE DEF w
<1>2. PICK k \in Int : w = k * d
  BY <1>1, TurnsOf
<1>3. k >= 1 => k * d >= d
  OBVIOUS
<1>4. k <= -1 => k * d <= -d
  OBVIOUS
<1>5. k = 0 /\ k * d = 0
  BY <1>1, <1>2, <1>3, <1>4
<1>6. QED  BY <1>2, <1>5 DEF w

LEMMA Moved ==
    ASSUME NEW t \in Types, NEW n \in Int
    PROVE  /\ move(t, n) \in IntValues(t) /\ move(t, n) \in Int
           /\ (move(t, n) - n) % Modulus = 0
           /\ \A m \in IntValues(t) : (m - n) % Modulus = 0 => move(t, n) = m
           /\ n \in IntValues(t) => move(t, n) = n
           /\ \E k \in Int : move(t, n) = n + k * Modulus
<1> DEFINE lo == LeastOf(t)
           M == Modulus
           S == IntValues(t)
           r == (n - lo) % M
           q == (n - lo) \div M
           v == move(t, n)
<1>1. lo \in Int /\ M \in Nat \ {0} /\ S = lo .. lo + M - 1
  BY NumberTypes
<1>2. v = CHOOSE m \in S : (m - n) % M = 0
  BY DEF move, Modulus
<1>3. r \in 0 .. M - 1 /\ q \in Int /\ n - lo = M * q + r
  <2> HIDE DEF lo, M
  <2>1. n - lo \in Int
    BY <1>1
  <2>2. QED  BY <1>1, <2>1
<1> HIDE DEF lo, M, S, r, q, v
<1>4. lo + r \in S
  BY <1>1, <1>3
<1>5. (lo + r) - n = (-q) * M
  BY <1>1, <1>3
<1>6. ((lo + r) - n) % M = 0
  <2>1. -q \in Int
    BY <1>3
  <2>2. QED  BY <1>1, <1>5, <2>1, WholeTurns
<1>7. v \in S /\ (v - n) % M = 0
  BY <1>2, <1>4, <1>6
<1>8. v \in Int
  BY <1>1, <1>7
<1>9. PICK k \in Int : v - n = k * M
  <2>1. v - n \in Int
    BY <1>8
  <2>2. QED  BY <1>1, <1>7, <2>1, TurnsOf
<1>10. ASSUME NEW m \in S, (m - n) % M = 0 PROVE v = m
  <2>1. m \in Int
    BY <1>1
  <2>2. PICK j \in Int : m - n = j * M
    <3>1. m - n \in Int
      BY <2>1
    <3>2. QED  BY <1>1, <1>10, <3>1, TurnsOf
  <2>3. v - m = (k - j) * M /\ k - j \in Int
    BY <1>1, <1>8, <1>9, <2>1, <2>2
  <2>4. (v - m) % M = 0
    BY <1>1, <2>3, WholeTurns
  <2>5. v \in lo .. lo + M - 1 /\ m \in lo .. lo + M - 1
    BY <1>1, <1>7
  <2>6. QED  BY <1>1, <2>4, <2>5, OneInEachTurn
<1>11. (n - n) % M = 0
  <2>1. n - n = 0 * M /\ 0 \in Int
    BY <1>1
  <2>2. QED  BY <1>1, <2>1, WholeTurns
<1>12. v = n + k * M
  BY <1>1, <1>8, <1>9
<1>13. QED  BY <1>7, <1>8, <1>10, <1>11, <1>12 DEF v, M, S

LEMMA AnyTurns ==
    ASSUME NEW n \in Int, NEW y \in Int, NEW k \in Int, y = n + k * Modulus
    PROVE  (y - n) % Modulus = 0
<1>1. Modulus \in Nat \ {0}
  BY NumberTypes
<1>2. y - n = k * Modulus
  BY <1>1
<1>3. QED  BY <1>1, <1>2, WholeTurns

LEMMA AbsAnswers ==
    ASSUME NEW t \in Types, NEW a \in IntValues(t)
    PROVE  NumbersAnswer("ABS", <<a>>, ABS(t, a))
<1> DEFINE y == ABS(t, a)
           x == <<a>>
<1>1. /\ Modulus \in Nat \ {0} /\ Greatest \in Nat \ {0} /\ Modulus = 2 * Greatest
      /\ IntValues(t) = IF t = "INT" THEN -Greatest .. Greatest - 1 ELSE 0 .. Modulus - 1
  BY NumberTypes DEF LeastOf
<1>2. a \in Int
  BY <1>1
<1>3. y \in {Magnitude(a), -Greatest} /\ (y - Magnitude(a)) % Modulus = 0
  <2>1. CASE t = "INT" /\ a < 0
    <3>1. y = move(t, -a) /\ Magnitude(a) = -a /\ -a \in Int
      BY <1>2, <2>1 DEF ABS, Magnitude
    <3>2. (y - Magnitude(a)) % Modulus = 0
      BY <3>1, Moved
    <3>3. CASE a = -Greatest
      <4>1. -Greatest \in IntValues(t) /\ (-Greatest) - (-a) = (-1) * Modulus /\ -1 \in Int
        BY <1>1, <2>1, <3>3
      <4>2. ((-Greatest) - (-a)) % Modulus = 0
        BY <1>1, <4>1, WholeTurns
      <4>3. y = -Greatest
        BY <3>1, <4>1, <4>2, Moved
      <4>4. QED  BY <3>2, <4>3
    <3>4. CASE a # -Greatest
      <4>1. -a \in IntValues(t)
        BY <1>1, <2>1, <3>4
      <4>2. y = -a
        BY <3>1, <4>1, Moved
      <4>3. QED  BY <3>1, <3>2, <4>2
    <3>5. QED  BY <3>3, <3>4
  <2>2. CASE ~(t = "INT" /\ a < 0)
    <3>1. y = a /\ Magnitude(a) = a
      BY <1>1, <2>2 DEF ABS, Magnitude
    <3>2. (a - a) % Modulus = 0
      <4>1. a - a = 0 * Modulus /\ 0 \in Int
        BY <1>1, <1>2
      <4>2. QED  BY <1>1, <4>1, WholeTurns
    <3>3. QED  BY <3>1, <3>2
  <2>3. QED  BY <2>1, <2>2
<1>4. x[1] = a
  OBVIOUS
<1> HIDE DEF x, y
<1>5. NumbersAnswer("ABS", x, y)
  BY <1>3, <1>4 DEF NumbersAnswer, Greatest, Modulus
<1>6. QED  BY <1>5 DEF x, y

LEMMA SubAnswers ==
    ASSUME NEW t \in Types, NEW a \in IntValues(t), NEW b \in IntValues(t)
    PROVE  NumbersAnswer("SUB", <<a, b>>, SUB(t, a, b))
<1> DEFINE y == SUB(t, a, b)
           x == <<a, b>>
<1>1. a \in Int /\ b \in Int
  BY NumberTypes
<1>2. a - b \in Int
  BY <1>1
<1>3. (y - (a - b)) % Modulus = 0
  BY <1>2, Moved DEF SUB
<1>4. x[1] = a /\ x[2] = b
  OBVIOUS
<1> HIDE DEF x, y
<1>5. NumbersAnswer("SUB", x, y)
  BY <1>3, <1>4 DEF NumbersAnswer, Modulus
<1>6. QED  BY <1>5 DEF x, y

Plus(ops) == LET t(a, b) == a + b IN arith_expand(t, ops)
Times(ops) == LET t(a, b) == a * b IN arith_expand(t, ops)

LEMMA AddOfOperands ==
    ASSUME NEW t \in Types, NEW ops \in OneToThree(IntValues(t))
    PROVE  /\ Len(ops) = 1 => ADD(t, ops) = ops[1]
           /\ Len(ops) = 2 => ADD(t, ops) = (move(t, ops[1] + ops[2]))
           /\ Len(ops) = 3 => ADD(t, ops) = (move(t, (move(t, ops[1] + ops[2])) + ops[3]))
<1> DEFINE op(a, b) == move(t, a + b)
           Is(r) == r = [i \in DOMAIN ops |-> IF i = 1 THEN ops[1] ELSE op(r[i - 1], ops[i])]
           r0 == CHOOSE r : Is(r)
           f == [i \in DOMAIN ops |-> IF i = 1 THEN ops[1] ELSE IF i = 2 THEN op(ops[1], ops[2])
                                      ELSE op(op(ops[1], ops[2]), ops[3])]
<1>1. Len(ops) \in {1, 2, 3} /\ DOMAIN ops = 1 .. Len(ops)
  BY Operands
<1>2. ADD(t, ops) = r0[Len(ops)]
  BY DEF ADD, arith_expand
<1> HIDE DEF op
<1>3. Is(f)
  BY <1>1
<1>4. Is(r0)
  <2> HIDE DEF Is, f
  <2> QED  BY <1>3
<1>5. /\ Len(ops) = 1 => r0[Len(ops)] = ops[1]
      /\ Len(ops) = 2 => r0[Len(ops)] = op(ops[1], ops[2])
      /\ Len(ops) = 3 => r0[Len(ops)] = op(op(ops[1], ops[2]), ops[3])
  <2> HIDE DEF r0
  <2> QED  BY <1>1, <1>4
<1>6. QED
  <2> HIDE DEF r0
  <2> QED  BY <1>2, <1>5 DEF op

LEMMA PlusOfOperands ==
    ASSUME NEW S, NEW ops \in OneToThree(S)
    PROVE  /\ Len(ops) = 1 => Plus(ops) = ops[1]
           /\ Len(ops) = 2 => Plus(ops) = (ops[1] + ops[2])
           /\ Len(ops) = 3 => Plus(ops) = ((ops[1] + ops[2]) + ops[3])
<1> DEFINE op(a, b) == a + b
           Is(r) == r = [i \in DOMAIN ops |-> IF i = 1 THEN ops[1] ELSE op(r[i - 1], ops[i])]
           r0 == CHOOSE r : Is(r)
           f == [i \in DOMAIN ops |-> IF i = 1 THEN ops[1] ELSE IF i = 2 THEN op(ops[1], ops[2])
                                      ELSE op(op(ops[1], ops[2]), ops[3])]
<1>1. Len(ops) \in {1, 2, 3} /\ DOMAIN ops = 1 .. Len(ops)
  BY Operands
<1>2. Plus(ops) = r0[Len(ops)]
  BY DEF Plus, arith_expand
<1> HIDE DEF op
<1>3. Is(f)
  BY <1>1
<1>4. Is(r0)
  <2> HIDE DEF Is, f
  <2> QED  BY <1>3
<1>5. /\ Len(ops) = 1 => r0[Len(ops)] = ops[1]
      /\ Len(ops) = 2 => r0[Len(ops)] = op(ops[1], ops[2])
      /\ Len(ops) = 3 => r0[Len(ops)] = op(op(ops[1], ops[2]), ops[3])
  <2> HIDE DEF r0
  <2> QED  BY <1>1, <1>4
<1>6. QED
  <2> HIDE DEF r0
  <2> QED  BY <1>2, <1>5 DEF op

LEMMA MulOfOperands ==
    ASSUME NEW t \in Types, NEW ops \in OneToThree(IntValues(t))
    PROVE  /\ Len(ops) = 1 => MUL(t, ops) = ops[1]
           /\ Len(ops) = 2 => MUL(t, ops) = (move(t, ops[1] * ops[2]))
           /\ Len(ops) = 3 => MUL(t, ops) = (move(t, (move(t, ops[1] * ops[2])) * ops[3]))
<1> DEFINE op(a, b) == move(t, a * b)
           Is(r) == r = [i \in DOMAIN ops |-> IF i = 1 THEN ops[1] ELSE op(r[i - 1], ops[i])]
           r0 == CHOOSE r : Is(r)
           f == [i \in DOMAIN ops |-> IF i = 1 THEN ops[1] ELSE IF i = 2 THEN op(ops[1], ops[2])
                                      ELSE op(op(ops[1], ops[2]), ops[3])]
<1>1. Len(ops) \in {1, 2, 3} /\ DOMAIN ops = 1 .. Len(ops)
  BY Operands
<1>2. MUL(t, ops) = r0[Len(ops)]
  BY DEF MUL, arith_expand
<1> HIDE DEF op
<1>3. Is(f)
  BY <1>1
<1>4. Is(r0)
  <2> HIDE DEF Is, f
  <2> QED  BY <1>3
<1>5. /\ Len(ops) = 1 => r0[Len(ops)] = ops[1]
      /\ Len(ops) = 2 => r0[Len(ops)] = op(ops[1], ops[2])
      /\ Len(ops) = 3 => r0[Len(ops)] = op(op(ops[1], ops[2]), ops[3])
  <2> HIDE DEF r0
  <2> QED  BY <1>1, <1>4
<1>6. QED
  <2> HIDE DEF r0
  <2> QED  BY <1>2, <1>5 DEF op

LEMMA TimesOfOperands ==
    ASSUME NEW S, NEW ops \in OneToThree(S)
    PROVE  /\ Len(ops) = 1 => Times(ops) = ops[1]
           /\ Len(ops) = 2 => Times(ops) = (ops[1] * ops[2])
           /\ Len(ops) = 3 => Times(ops) = ((ops[1] * ops[2]) * ops[3])
<1> DEFINE op(a, b) == a * b
           Is(r) == r = [i \in DOMAIN ops |-> IF i = 1 THEN ops[1] ELSE op(r[i - 1], ops[i])]
           r0 == CHOOSE r : Is(r)
           f == [i \in DOMAIN ops |-> IF i = 1 THEN ops[1] ELSE IF i = 2 THEN op(ops[1], ops[2])
                                      ELSE op(op(ops[1], ops[2]), ops[3])]
<1>1. Len(ops) \in {1, 2, 3} /\ DOMAIN ops = 1 .. Len(ops)
  BY Operands
<1>2. Times(ops) = r0[Len(ops)]
  BY DEF Times, arith_expand
<1> HIDE DEF op
<1>3. Is(f)
  BY <1>1
<1>4. Is(r0)
  <2> HIDE DEF Is, f
  <2> QED  BY <1>3
<1>5. /\ Len(ops) = 1 => r0[Len(ops)] = ops[1]
      /\ Len(ops) = 2 => r0[Len(ops)] = op(ops[1], ops[2])
      /\ Len(ops) = 3 => r0[Len(ops)] = op(op(ops[1], ops[2]), ops[3])
  <2> HIDE DEF r0
  <2> QED  BY <1>1, <1>4
<1>6. QED
  <2> HIDE DEF r0
  <2> QED  BY <1>2, <1>5 DEF op

LEMMA AddAnswers ==
    ASSUME NEW t \in Types, NEW ops \in OneToThree(IntValues(t))
    PROVE  NumbersAnswer("ADD", ops, ADD(t, ops))
<1> DEFINE y == ADD(t, ops)
           a == ops[1]
           b == ops[2]
           c == ops[3]
           w == move(t, a + b)
<1>1. Len(ops) \in {1, 2, 3} /\ DOMAIN ops = 1 .. Len(ops) /\ \A i \in 1 .. Len(ops) : ops[i] \in IntValues(t)
  BY Operands
<1>2. Modulus \in Nat \ {0} /\ \A v \in IntValues(t) : v \in Int
  BY NumberTypes
<1>3. a \in Int /\ (Len(ops) >= 2 => b \in Int) /\ (Len(ops) = 3 => c \in Int)
  BY <1>1, <1>2
<1>4. (y - Plus(ops)) % Modulus = 0
  <2>1. CASE Len(ops) = 1
    <3>1. y = a /\ Plus(ops) = a
      BY <2>1, AddOfOperands, PlusOfOperands
    <3>2. y = a + 0 * Modulus
      BY <1>2, <1>3, <3>1
    <3>3. QED  BY <1>3, <3>1, <3>2, AnyTurns
  <2>2. CASE Len(ops) = 2
    <3>1. y = w /\ Plus(ops) = a + b
      BY <2>2, AddOfOperands, PlusOfOperands
    <3>2. a + b \in Int
      BY <1>3, <2>2
    <3>3. QED  BY <3>1, <3>2, Moved
  <2>3. CASE Len(ops) = 3
    <3>1. y = move(t, w + c) /\ Plus(ops) = (a + b) + c
      BY <2>3, AddOfOperands, PlusOfOperands
    <3>2. a + b \in Int /\ c \in Int
      BY <1>3, <2>3
    <3>3. w \in Int /\ \E k \in Int : w = (a + b) + k * Modulus
      <4> HIDE DEF a, b, w
      <4> QED  BY <3>2, Moved DEF w
    <3>4. PICK k \in Int : w = (a + b) + k * Modulus
      BY <3>3
    <3>5. w + c \in Int
      BY <3>2, <3>3
    <3>6. y \in Int /\ \E j \in Int : y = (w + c) + j * Modulus
      <4> HIDE DEF a, b, c, w, y
      <4> QED  BY <3>1, <3>5, Moved
    <3>7. PICK j \in Int : y = (w + c) + j * Modulus
      BY <3>6
    <3>8. y = ((a + b) + c) + (k + j) * Modulus
      <4> HIDE DEF a, b, c, w, y
      <4> QED  BY <1>2, <1>3, <2>3, <3>2, <3>4, <3>7
    <3>9. k + j \in Int /\ (a + b) + c \in Int
      BY <3>2
    <3> HIDE DEF a, b, c, w, y
    <3>10. QED  BY <3>1, <3>6, <3>8, <3>9, AnyTurns
  <2>4. QED  BY <1>1, <2>1, <2>2, <2>3
<1> HIDE DEF y
<1>5. NumbersAnswer("ADD", ops, y)
  BY <1>4 DEF NumbersAnswer, Modulus, Plus
<1>6. QED  BY <1>5 DEF y

LEMMA MulAnswers ==
    ASSUME NEW t \in Types, NEW ops \in OneToThree(IntValues(t))
    PROVE  NumbersAnswer("MUL", ops, MUL(t, ops))
<1> DEFINE y == MUL(t, ops)
           a == ops[1]
           b == ops[2]
           c == ops[3]
           w == move(t, a * b)
<1>1. Len(ops) \in {1, 2, 3} /\ DOMAIN ops = 1 .. Len(ops) /\ \A i \in 1 .. Len(ops) : ops[i] \in IntValues(t)
  BY Operands
<1>2. Modulus \in Nat \ {0} /\ \A v \in IntValues(t) : v \in Int
  BY NumberTypes
<1>3. a \in Int /\ (Len(ops) >= 2 => b \in Int) /\ (Len(ops) = 3 => c \in Int)
  BY <1>1, <1>2
<1>4. (y - Times(ops)) % Modulus = 0
  <2>1. CASE Len(ops) = 1
    <3>1. y = a /\ Times(ops) = a
      BY <2>1, MulOfOperands, TimesOfOperands
    <3>2. y = a + 0 * Modulus
      BY <1>2, <1>3, <3>1
    <3>3. QED  BY <1>3, <3>1, <3>2, AnyTurns
  <2>2. CASE Len(ops) = 2
    <3>1. y = w /\ Times(ops) = a * b
      BY <2>2, MulOfOperands, TimesOfOperands
    <3>2. a * b \in Int
      BY <1>3, <2>2
    <3>3. QED  BY <3>1, <3>2, Moved
  <2>3. CASE Len(ops) = 3
    <3>1. y = move(t, w * c) /\ Times(ops) = (a * b) * c
      BY <2>3, MulOfOperands, TimesOfOperands
    <3>2. a * b \in Int /\ c \in Int
      BY <1>3, <2>3
    <3>3. w \in Int /\ \E k \in Int : w = (a * b) + k * Modulus
      <4> HIDE DEF a, b, w
      <4> QED  BY <3>2, Moved DEF w
    <3>4. PICK k \in Int : w = (a * b) + k * Modulus
      BY <3>3
    <3>5. w * c \in Int
      BY <3>2, <3>3
    <3>6. y \in Int /\ \E j \in Int : y = (w * c) + j * Modulus
      <4> HIDE DEF a, b, c, w, y
      <4> QED  BY <3>1, <3>5, Moved
    <3>7. PICK j \in Int : y = (w * c) + j * Modulus
      BY <3>6
    <3>8. y = ((a * b) * c) + (k * c + j) * Modulus
      <4> DEFINE p == a * b
                 M == Modulus
      <4>1. p \in Int /\ M \in Int /\ w = p + k * M /\ y = w * c + j * M
        BY <1>2, <3>2, <3>4, <3>7
      <4> HIDE DEF a, b, c, w, y, p, M
      <4>2. w * c = p * c + (k * M) * c
        BY <3>2, <4>1
      <4>3. (k * M) * c = (k * c) * M
        BY <3>2, <4>1
      <4>4. (k * c + j) * M = (k * c) * M + j * M
        BY <3>2, <4>1
      <4>5. y = p * c + (k * c + j) * M
        BY <3>2, <4>1, <4>2, <4>3, <4>4
      <4>6. QED  BY <4>5 DEF p, M
    <3>9. k * c + j \in Int /\ (a * b) * c \in Int
      BY <3>2
    <3> HIDE DEF a, b, c, w, y
    <3>10. QED  BY <3>1, <3>6, <3>8, <3>9, AnyTurns
  <2>4. QED  BY <1>1, <2>1, <2>2, <2>3
<1> HIDE DEF y
<1>5. NumbersAnswer("MUL", ops, y)
  BY <1>4 DEF NumbersAnswer, Modulus, Times
<1>6. QED  BY <1>5 DEF y

(* Division rounds towards zero.                                           *)
LEMMA Divided ==
    ASSUME NEW a \in Int, NEW b \in Int \ {0}
    PROVE  /\ Magnitude(a) \in Nat /\ Magnitude(b) \in Nat \ {0} /\ Quotient(a, b) \in Int
           /\ a - b * Quotient(a, b)
                = IF a < 0 THEN -(Magnitude(a) % Magnitude(b)) ELSE Magnitude(a) % Magnitude(b)
           /\ Magnitude(a) % Magnitude(b) \in 0 .. Magnitude(b) - 1
           /\ Magnitude(Quotient(a, b) * b) <= Magnitude(a)
           /\ Magnitude(Quotient(a, b)) = Magnitude(a) \div Magnitude(b)
           /\ Magnitude(a) \div Magnitude(b) <= Magnitude(a)
           /\ Magnitude(b) >= 2 => 2 * (Magnitude(a) \div Magnitude(b)) <= Magnitude(a)
<1> DEFINE m == Magnitude(a)
           d == Magnitude(b)
           q == m \div d
           r == m % d
           s == Quotient(a, b)
<1>1. m \in Nat /\ d \in Nat \ {0} /\ m = (IF a < 0 THEN -a ELSE a) /\ d = (IF b < 0 THEN -b ELSE b)
  BY DEF Magnitude
<1>2. s = IF (a < 0) = (b < 0) THEN q ELSE -q
  BY DEF Quotient
<1>3. q \in Int /\ r \in 0 .. d - 1 /\ m = d * q + r
  <2> HIDE DEF m, d
  <2>1. m \in Nat /\ d \in Nat \ {0}
    BY <1>1
  <2>2. QED  BY <2>1
<1> HIDE DEF m, d, q, r, s
<1>4. q >= 0
  <2>1. q <= -1 => d * q <= -d
    BY <1>1, <1>3
  <2>2. QED  BY <1>1, <1>3, <2>1
<1>5. d * q >= 0 /\ d * q \in Int /\ d * q >= q
  BY <1>1, <1>3, <1>4
<1>6. s \in Int /\ b * s = IF a < 0 THEN -(d * q) ELSE d * q
  BY <1>1, <1>2, <1>3
<1>7. a - b * s = IF a < 0 THEN -r ELSE r
  BY <1>1, <1>3, <1>5, <1>6
<1>8. Magnitude(s * b) <= m
  <2>1. s * b = b * s
    BY <1>6
  <2>2. QED  BY <1>1, <1>3, <1>5, <1>6, <2>1 DEF Magnitude
<1>9. Magnitude(s) = q
  BY <1>2, <1>3, <1>4 DEF Magnitude
<1>10. d >= 2 => 2 * q <= m
  <2>1. d >= 2 => d * q >= 2 * q
    BY <1>1, <1>3, <1>4
  <2>2. QED  BY <1>1, <1>3, <1>5, <2>1
<1>11. q <= m
  BY <1>1, <1>3, <1>5
<1>12. QED  BY <1>1, <1>3, <1>6, <1>7, <1>8, <1>9, <1>10, <1>11 DEF m, d, q, r, s

LEMMA DivAnswers ==
    ASSUME NEW t \in Types, NEW a \in IntValues(t), NEW b \in IntValues(t), b # 0
    PROVE  NumbersAnswer("DIV", <<a, b>>, DIV(t, a, b))
<1> DEFINE q == Quotient(a, b)
           y == DIV(t, a, b)
           x == <<a, b>>
<1>1. /\ Modulus \in Nat \ {0} /\ Greatest \in Nat \ {0} /\ Modulus = 2 * Greatest
      /\ IntValues(t) = IF t = "INT" THEN -Greatest .. Greatest - 1 ELSE 0 .. Modulus - 1
  BY NumberTypes DEF LeastOf
<1>2. a \in Int /\ b \in Int \ {0}
  BY <1>1
<1>3. /\ Magnitude(a) \in Nat /\ Magnitude(b) \in Nat \ {0} /\ q \in Int
      /\ a - b * q = IF a < 0 THEN -(Magnitude(a) % Magnitude(b)) ELSE Magnitude(a) % Magnitude(b)
      /\ Magnitude(a) % Magnitude(b) \in 0 .. Magnitude(b) - 1
      /\ Magnitude(q * b) <= Magnitude(a)
      /\ Magnitude(q) = Magnitude(a) \div Magnitude(b)
      /\ Magnitude(a) \div Magnitude(b) <= Magnitude(a)
      /\ Magnitude(b) >= 2 => 2 * (Magnitude(a) \div Magnitude(b)) <= Magnitude(a)
  BY <1>2, Divided
<1>4. y = move(t, q)
  BY DEF DIV
<1>5. q = IF (a < 0) = (b < 0) THEN Magnitude(a) \div Magnitude(b) ELSE -(Magnitude(a) \div Magnitude(b))
  BY DEF Quotient
<1> HIDE DEF q
<1>6. CASE a = -Greatest /\ b = -1 /\ t = "INT"
  <2>1. q = Greatest
    <3>1. Magnitude(a) = Greatest /\ Magnitude(b) = 1
      <4>1. Greatest \in Nat \ {0} /\ a = -Greatest /\ b = -1
        BY <1>1, <1>6
      <4>2. a < 0 /\ -a = Greatest
        BY <4>1
      <4>3. Magnitude(a) = -a
        BY <4>2 DEF Magnitude
      <4>4. b < 0 /\ b + 1 = 0 /\ b \in Int
        BY <1>2, <1>6
      <4>5. Magnitude(b) = -b
        BY <4>4 DEF Magnitude
      <4>6. -b = 1
        <5> HIDE <1>6
        <5> QED  BY <4>4
      <4>7. QED  BY <4>2, <4>3, <4>5, <4>6
    <3>2. Greatest \div 1 = Greatest
      BY <1>1
    <3>3. QED  BY <1>1, <1>5, <1>6, <3>1, <3>2
  <2>2. a \in IntValues(t) /\ a - q = (-1) * Modulus /\ -1 \in Int
    BY <1>1, <1>6, <2>1
  <2>3. (a - q) % Modulus = 0
    BY <1>1, <2>2, WholeTurns
  <2>4. y = a
    BY <1>3, <1>4, <2>2, <2>3, Moved
  <2>5. x[1] = a /\ x[2] = b
    OBVIOUS
  <2> HIDE DEF x, y
  <2>6. NumbersAnswer("DIV", x, y)
    BY <1>6, <2>4, <2>5 DEF NumbersAnswer
  <2>7. QED  BY <2>6 DEF x, y
<1>7. CASE ~(a = -Greatest /\ b = -1 /\ t = "INT")
  <2>1. q \in IntValues(t)
    <3>1. CASE t = "INT"
      <4>1. Magnitude(q) <= Magnitude(a) /\ (Magnitude(b) >= 2 => 2 * Magnitude(q) <= Magnitude(a))
        BY <1>3
      <4>2. Magnitude(a) <= Greatest
        BY <1>1, <3>1 DEF Magnitude
      <4>3. CASE Magnitude(b) >= 2
        <5> DEFINE G == Greatest
                   p == Magnitude(q)
        <5>1. G \in Nat \ {0} /\ p \in Nat /\ (p = q \/ p = -q)
          BY <1>1, <1>3 DEF Magnitude
        <5>2. 2 * p <= G
          <6>1. Magnitude(a) \in Nat /\ 2 * p <= Magnitude(a) /\ Magnitude(a) <= G
            BY <1>3, <4>1, <4>2, <4>3
          <6> HIDE DEF p, G
          <6>2. QED  BY <5>1, <6>1
        <5> HIDE DEF p, G
        <5>3. q \in -G .. G - 1
          BY <1>3, <5>1, <5>2
        <5>4. QED  BY <1>1, <3>1, <5>3 DEF G
      <4>4. CASE b = 1
        <5>1. a - q = 0
          BY <1>2, <1>3, <4>4 DEF Magnitude
        <5>2. QED  BY <1>2, <1>3, <5>1
      <4>5. CASE b = -1
        <5>1. a + q = 0
          BY <1>2, <1>3, <4>5 DEF Magnitude
        <5>2. QED  BY <1>1, <1>2, <1>3, <1>7, <3>1, <4>5, <5>1
      <4>6. QED  BY <1>2, <1>3, <4>3, <4>4, <4>5 DEF Magnitude
    <3>2. CASE t # "INT"
      <4>1. a >= 0 /\ b > 0 /\ a < Modulus
        BY <1>1, <1>2, <3>2
      <4>2. q = Magnitude(a) \div Magnitude(b) /\ Magnitude(a) = a
        BY <1>2, <1>5, <4>1 DEF Magnitude
      <4>3. q = Magnitude(q) /\ q <= a
        BY <1>3, <4>2
      <4>4. q >= 0
        BY <1>3, <4>3 DEF Magnitude
      <4>5. QED  BY <1>1, <1>2, <1>3, <3>2, <4>1, <4>3, <4>4
    <3>3. QED  BY <3>1, <3>2
  <2>2. y = q
    BY <1>3, <1>4, <2>1, Moved
  <2>3. Magnitude(a - y * b) < Magnitude(b) /\ Magnitude(y * b) <= Magnitude(a)
    <3>1. a - y * b = a - b * q
      BY <1>2, <1>3, <2>2
    <3>2. a - y * b < Magnitude(b) /\ -(a - y * b) < Magnitude(b)
      BY <1>3, <3>1
    <3>3. QED  BY <1>3, <2>2, <3>2 DEF Magnitude
  <2>4. x[1] = a /\ x[2] = b
    OBVIOUS
  <2> HIDE DEF x, y
  <2>5. NumbersAnswer("DIV", x, y)
    BY <2>3, <2>4 DEF NumbersAnswer
  <2>6. QED  BY <2>5 DEF x, y
<1>8. QED  BY <1>6, <1>7

LEMMA ModAnswers ==
    ASSUME NEW a \in Int, NEW b \in Int
    PROVE  NumbersAnswer("MOD", <<a, b>>, MOD(a, b))
<1> DEFINE y == MOD(a, b)
           x == <<a, b>>
           q == Quotient(a, b)
<1>1. b = 0 => y = 0
  BY DEF MOD
<1>2. ASSUME b # 0
      PROVE  (a - y) % Magnitude(b) = 0 /\ Magnitude(y) < Magnitude(b) /\ y * a >= 0
  <2>1. /\ Magnitude(a) \in Nat /\ Magnitude(b) \in Nat \ {0} /\ q \in Int
        /\ a - b * q = IF a < 0 THEN -(Magnitude(a) % Magnitude(b)) ELSE Magnitude(a) % Magnitude(b)
        /\ Magnitude(a) % Magnitude(b) \in 0 .. Magnitude(b) - 1
    BY <1>2, Divided
  <2>2. y = a - b * q
    BY <1>2 DEF MOD
  <2> HIDE DEF y, q
  <2>3. a - y = b * q /\ y \in Int
    BY <2>1, <2>2
  <2>4. (a - y) % Magnitude(b) = 0
    <3>1. CASE b > 0
      <4>1. Magnitude(b) = b
        BY <3>1 DEF Magnitude
      <4>2. (b * q) % b = 0
        BY <2>1, <3>1, WholeTurns
      <4>3. QED  BY <2>3, <4>1, <4>2
    <3>2. CASE b < 0
      <4> DEFINE d == Magnitude(b)
                 p == -q
      <4>1. d \in Nat \ {0} /\ d = -b /\ p \in Int /\ p = -q
        BY <2>1, <3>2 DEF Magnitude
      <4> HIDE DEF d, p
      <4>2. b * q = p * d
        BY <2>1, <4>1
      <4>3. (p * d) % d = 0
        BY <4>1, WholeTurns
      <4>4. QED  BY <2>3, <4>2, <4>3 DEF d
    <3>3. QED  BY <1>2, <3>1, <3>2
  <2>5. Magnitude(y) < Magnitude(b)
    <3>1. y < Magnitude(b) /\ -y < Magnitude(b)
      BY <2>1, <2>2
    <3>2. QED  BY <2>3, <3>1 DEF Magnitude
  <2>6. y * a >= 0
    <3>1. a < 0 => y <= 0
      BY <2>1, <2>2
    <3>2. a >= 0 => y >= 0
      BY <2>1, <2>2
    <3>3. QED  BY <2>3, <3>1, <3>2
  <2>7. QED  BY <2>4, <2>5, <2>6
<1>3. x[1] = a /\ x[2] = b
  OBVIOUS
<1> HIDE DEF x, y
<1>4. NumbersAnswer("MOD", x, y)
  BY <1>1, <1>2, <1>3 DEF NumbersAnswer
<1>5. QED  BY <1>4 DEF x, y

-----------------------------------------------------------------------------
(* TIMEs and dates.                                                        *)
LEMMA CountedIn ==
    ASSUME NEW n \in Nat, NEW u \in Nat \ {0}, Second \div n = u, NEW s \in Int, NEW k \in Int
    PROVE  In(n, Time(s, k * u)) = n * s + k
<1> DEFINE m == k * u
<1>1. In(n, Time(s, m)) = n * s + (m \div u)
  BY DEF In, Time
<1>2. m \in Int /\ m = k * u + 0 /\ 0 \in 0 .. u - 1
  OBVIOUS
<1> HIDE DEF m
<1>3. m \div u = k
  BY <1>2, Rest
<1>4. QED  BY <1>1, <1>3 DEF m

LEMMA Normalizes ==
    ASSUME NEW n \in Nat, NEW u \in Nat \ {0}, Second \div n = u, n * u = Second,
           NEW s \in Int, NEW k \in Int
    PROVE  In(n, normalize_timespec(Time(s, k * u))) = n * s + k
<1> DEFINE Is(t, v, j) == v \in Int /\ j \in Int /\ t = Time(v, j * u) /\ n * v + j = n * s + k
           t1 == Borrow(Time(s, k * u))
           t2 == Carry(t1)
<1>1. u \in Nat \ {0} /\ n * u = Second /\ n \in Nat
  OBVIOUS
<1>2. \A v, m : Time(v, m).sec = v /\ Time(v, m).nsec = m
  BY DEF Time
<1>3. Is(t1, s, k) \/ Is(t1, s - 1, k + n)
  <2>1. t1 = Time(s, k * u) \/ t1 = Time(s - 1, k * u + Second)
    BY <1>2 DEF Borrow
  <2>2. k * u + Second = (k + n) * u
    BY <1>1
  <2>3. n * (s - 1) + (k + n) = n * s + k
    BY <1>1
  <2> HIDE DEF t1
  <2>4. QED  BY <1>1, <2>1, <2>2, <2>3
<1>4. PICK v \in Int, j \in Int : Is(t1, v, j)
  BY <1>1, <1>3
<1> HIDE DEF t1
<1>5. Is(t2, v, j) \/ Is(t2, v + 1, j - n)
  <2>1. t2 = Time(v, j * u) \/ t2 = Time(v + 1, j * u - Second)
    BY <1>2, <1>4 DEF Carry
  <2>2. j * u - Second = (j - n) * u
    BY <1>1
  <2>3. n * (v + 1) + (j - n) = n * v + j
    BY <1>1
  <2> HIDE DEF t2
  <2>4. QED  BY <1>1, <1>4, <2>1, <2>2, <2>3
<1> HIDE DEF t2
<1>6. PICK w \in Int, i \in Int : Is(t2, w, i)
  <2>1. v + 1 \in Int /\ j - n \in Int
    BY <1>1
  <2> HIDE DEF Is
  <2>2. QED  BY <1>5, <2>1
<1>7. In(n, Time(w, i * u)) = n * w + i
  <2> HIDE DEF Is
  <2> QED  BY CountedIn
<1>8. In(n, t2) = n * s + k
  BY <1>6, <1>7
<1>9. QED  BY <1>8 DEF t2, t1, normalize_timespec

Eighth == Second \div 8
LEMMA InEights ==
    ASSUME NEW s \in Int, NEW k \in Int
    PROVE  /\ Nanos8(Time(s, k * Eighth)) = 8 * s + k
           /\ Nanos8(normalize_timespec(Time(s, k * Eighth))) = 8 * s + k
<1>1. 8 \in Nat /\ Eighth \in Nat \ {0} /\ 8 * Eighth = Second
  BY DEF Eighth, Second
<1>2. Second \div 8 = Eighth
  BY DEF Eighth
<1> HIDE DEF Eighth
<1>3. QED  BY <1>1, <1>2, CountedIn, Normalizes DEF Nanos8

LEMMA EighthFacts == Eighth = 125000000 /\ Half = 4 * Eighth /\ Second = 8 * Eighth
BY DEF Eighth, Half, Second

(* A TIME that is given, in eighths of a second.                           *)
LEMMA MomentsCounted ==
    ASSUME NEW t \in Moments
    PROVE  \E k \in {-4, 0, 4} : /\ t.sec \in Int /\ t.nsec = k * Eighth /\ t = Time(t.sec, k * Eighth)
                                 /\ Nanos8(t) = 8 * t.sec + k
                                 /\ (t.sec > 0 => k >= 0) /\ (t.sec < 0 => k <= 0)
<1>1. /\ t.sec \in Int /\ t.nsec \in {-Half, 0, Half}
      /\ t.sec > 0 => t.nsec >= 0
      /\ t.sec < 0 => t.nsec <= 0
  BY HalfSecondsTyped
<1>2. t = Time(t.sec, t.nsec)
  BY FunctionAssumption DEF HalfSeconds, Time
<1>3. PICK k \in {-4, 0, 4} : t.nsec = k * Eighth
  BY <1>1, EighthFacts
<1>4. (t.sec > 0 => k >= 0) /\ (t.sec < 0 => k <= 0)
  BY <1>1, <1>3, EighthFacts
<1>5. Nanos8(Time(t.sec, k * Eighth)) = 8 * t.sec + k
  <2>1. t.sec \in Int /\ k \in Int
    BY <1>1
  <2>2. QED  BY <2>1, InEights
<1>6. QED  BY <1>1, <1>2, <1>3, <1>4, <1>5

LEMMA SumsOfTimes ==
    ASSUME NEW a \in Moments, NEW b \in Moments
    PROVE  /\ TimesAnswer("ADD_TIME", <<a, b>>, time_add(a, b))
           /\ TimesAnswer("SUB_TIME", <<a, b>>, time_sub(a, b))
<1>1. PICK j \in {-4, 0, 4} : a.sec \in Int /\ a.nsec = j * Eighth /\ Nanos8(a) = 8 * a.sec + j
  BY MomentsCounted
<1>2. PICK k \in {-4, 0, 4} : b.sec \in Int /\ b.nsec = k * Eighth /\ Nanos8(b) = 8 * b.sec + k
  BY MomentsCounted
<1> DEFINE x == <<a, b>>
           y == time_add(a, b)
           z == time_sub(a, b)
<1>3. j * Eighth + k * Eighth = (j + k) * Eighth /\ j * Eighth - k * Eighth = (j - k) * Eighth
  BY EighthFacts
<1>4. Nanos8(y) = Nanos8(a) + Nanos8(b)
  <2>1. y = normalize_timespec(Time(a.sec + b.sec, (j + k) * Eighth))
    BY <1>1, <1>2, <1>3 DEF time_add
  <2>2. a.sec + b.sec \in Int /\ j + k \in Int
    BY <1>1, <1>2
  <2> DEFINE v == a.sec + b.sec
             i == j + k
  <2>3. Nanos8(y) = 8 * v + i
    <3> HIDE DEF v, i, y
    <3>1. v \in Int /\ i \in Int /\ y = normalize_timespec(Time(v, i * Eighth))
      BY <2>1, <2>2 DEF v, i
    <3>2. QED  BY <3>1, InEights
  <2> HIDE DEF y
  <2>4. QED  BY <1>1, <1>2, <2>3
<1>5. Nanos8(z) = Nanos8(a) - Nanos8(b)
  <2>1. z = normalize_timespec(Time(a.sec - b.sec, (j - k) * Eighth))
    BY <1>1, <1>2, <1>3 DEF time_sub
  <2>2. a.sec - b.sec \in Int /\ j - k \in Int
    BY <1>1, <1>2
  <2> DEFINE v == a.sec - b.sec
             i == j - k
  <2>3. Nanos8(z) = 8 * v + i
    <3> HIDE DEF v, i, z
    <3>1. v \in Int /\ i \in Int /\ z = normalize_timespec(Time(v, i * Eighth))
      BY <2>1, <2>2 DEF v, i
    <3>2. QED  BY <3>1, InEights
  <2> HIDE DEF z
  <2>4. QED  BY <1>1, <1>2, <2>3
<1>6. x[1] = a /\ x[2] = b
  OBVIOUS
<1> HIDE DEF x, y, z
<1>7. TimesAnswer("ADD_TIME", x, y) /\ TimesAnswer("SUB_TIME", x, z)
  BY <1>4, <1>5, <1>6 DEF TimesAnswer
<1>8. QED  BY <1>7 DEF x, y, z

LEMMA DatesAnswer ==
    ASSUME NEW a \in Moments, NEW b \in Moments
    PROVE  LET d == Time(a.sec - (a.sec % Day), 0)
               tod == Time(b.sec % Day, 0)
           IN  TimesAnswer("CONCAT_DATE_TOD", <<d, tod>>, time_add(d, tod))
<1> DEFINE m == a.sec - (a.sec % Day)
           n == b.sec % Day
           d == Time(m, 0)
           tod == Time(n, 0)
           x == <<d, tod>>
           y == time_add(d, tod)
<1>1. m \in Int /\ n \in Int
  BY MomentsCounted DEF Day
<1> HIDE DEF m, n
<1>2. 0 * Eighth = 0
  BY EighthFacts
<1>3. Nanos8(d) = 8 * m /\ Nanos8(tod) = 8 * n
  <2>1. Nanos8(Time(m, 0 * Eighth)) = 8 * m + 0 /\ Nanos8(Time(n, 0 * Eighth)) = 8 * n + 0
    BY <1>1, InEights
  <2>2. QED  BY <1>1, <1>2, <2>1
<1>4. y = normalize_timespec(Time(m + n, 0 * Eighth))
  BY <1>1, <1>2 DEF time_add, Time
<1>5. Nanos8(y) = 8 * (m + n) + 0
  BY <1>1, <1>4, InEights
<1>6. Nanos8(y) = Nanos8(d) + Nanos8(tod)
  BY <1>1, <1>3, <1>5
<1>7. x[1] = d /\ x[2] = tod
  OBVIOUS
<1> HIDE DEF d, tod, x, y
<1>8. TimesAnswer("CONCAT_DATE_TOD", x, y)
  BY <1>6, <1>7 DEF TimesAnswer
<1>9. QED  BY <1>8 DEF d, tod, x, y, m, n

LEMMA DaysAnswer ==
    ASSUME NEW a \in Moments
    PROVE  /\ TimesAnswer("DT_TO_TOD", <<a>>, date_and_time_to_time_of_day(a))
           /\ TimesAnswer("DT_TO_DATE", <<a>>, date_and_time_to_date(a))
<1> DEFINE s == a.sec
           x == <<a>>
           y == date_and_time_to_time_of_day(a)
           z == date_and_time_to_date(a)
           r == Remainder(s, Day)
<1>1. s \in Int
  BY MomentsCounted
<1>2. \A v, m : Time(v, m).sec = v /\ Time(v, m).nsec = m
  BY DEF Time
<1>3. y.sec = r + (IF s < 0 THEN Day ELSE 0) /\ y.nsec = a.nsec
  BY <1>2 DEF date_and_time_to_time_of_day
<1>4. z.sec = s - r - (IF s < 0 THEN Day ELSE 0) /\ z.nsec = 0
  BY <1>2 DEF date_and_time_to_date
<1>5. r = IF s < 0 THEN -((-s) % Day) ELSE s % Day
  <2>1. Day = 86400
    BY DEF Day
  <2>2. r = s - Day * Quotient(s, Day)
    BY DEF Remainder
  <2>3. s - Day * Quotient(s, Day)
          = IF s < 0 THEN -(Magnitude(s) % Magnitude(Day)) ELSE Magnitude(s) % Magnitude(Day)
    <3> HIDE DEF s, r, y, z
    <3>1. Day \in Int \ {0}
      BY <2>1
    <3>2. s \in Int
      BY <1>1
    <3>3. QED  BY <3>1, <3>2, Divided
  <2>4. Magnitude(Day) = Day /\ Magnitude(s) = IF s < 0 THEN -s ELSE s
    BY <2>1 DEF Magnitude
  <2>5. QED  BY <2>2, <2>3, <2>4
<1> HIDE DEF y, z, r, s
<1> DEFINE q == s \div Day
           m == s % Day
           w == IF s < 0 THEN Day ELSE 0
<1>6. Day \in Nat \ {0}
  BY DEF Day
<1>7. q \in Int /\ m \in 0 .. Day - 1 /\ s = Day * q + m
  BY <1>1, <1>6
<1>12. s < 0 => (-s) % Day = IF m = 0 THEN 0 ELSE Day - m
  <2>1. CASE m = 0
    <3>1. -s = (-q) * Day /\ -q \in Int
      BY <1>6, <1>7, <2>1
    <3>2. QED  BY <1>6, <2>1, <3>1, WholeTurns
  <2>2. CASE m # 0
    <3> DEFINE n == -s
               p == -q - 1
               i == Day - m
    <3>1. n \in Int /\ p \in Int /\ i \in 0 .. Day - 1 /\ n = p * Day + i
      BY <1>1, <1>6, <1>7, <2>2
    <3> HIDE DEF n, p, i
    <3>2. n % Day = i
      BY <1>6, <3>1, Rest
    <3>3. QED  BY <2>2, <3>2 DEF n, i
  <2>3. QED  BY <2>1, <2>2
<1>13. ASSUME s >= 0 \/ m # 0
       PROVE  y.sec = m /\ z.sec % Day = 0 /\ s - z.sec \in 0 .. Day - 1
  <2>1. r + w = m /\ r \in Int /\ w \in Int
    <3> HIDE DEF m
    <3> QED  BY <1>1, <1>5, <1>6, <1>7, <1>12, <1>13 DEF m
  <2>2. y.sec = r + w /\ z.sec = s - r - w
    BY <1>3, <1>4
  <2> HIDE DEF m, q, w
  <2>3. z.sec = q * Day
    BY <1>1, <1>6, <1>7, <2>1, <2>2
  <2>4. (q * Day) % Day = 0
    BY <1>6, <1>7, WholeTurns
  <2>5. s - z.sec = m
    BY <1>6, <1>7, <2>3
  <2>6. QED  BY <1>7, <2>1, <2>2, <2>3, <2>4, <2>5
<1>8. x[1] = a /\ a.sec = s
  BY DEF s
<1> HIDE DEF x
<1>9. TimesAnswer("DT_TO_TOD", x, y)
  BY <1>3, <1>8, <1>13 DEF TimesAnswer
<1>10. TimesAnswer("DT_TO_DATE", x, z)
  BY <1>4, <1>8, <1>13 DEF TimesAnswer
<1>11. QED  BY <1>9, <1>10 DEF x, y, z

LEMMA TimeConversions ==
    ASSUME NEW a \in Moments
    PROVE  /\ TimesAnswer("TIME_TO_BOOL", <<a>>, time_to_bool(a))
           /\ TimesAnswer("TIME_TO_INT", <<a>>, time_to_int(a))
<1> DEFINE x == <<a>>
           y == time_to_bool(a)
           z == time_to_int(a)
<1>1. PICK k \in {-4, 0, 4} : /\ a.sec \in Int /\ a.nsec = k * Eighth /\ Nanos8(a) = 8 * a.sec + k
                              /\ (a.sec > 0 => k >= 0) /\ (a.sec < 0 => k <= 0)
  BY MomentsCounted
<1>2. y <=> ~(a.sec = 0 /\ a.nsec = 0)
  BY DEF time_to_bool
<1>3. a.nsec = 0 <=> k = 0
  BY <1>1, EighthFacts
<1>4. y <=> Nanos8(a) # 0
  <2> HIDE DEF y
  <2> QED  BY <1>1, <1>2, <1>3
<1>5. Magnitude(Nanos8(a) - 8 * z) < 8
  <2>1. Nanos8(a) - 8 * z = k
    BY <1>1 DEF time_to_int
  <2>2. QED  BY <2>1 DEF Magnitude
<1>6. x[1] = a
  OBVIOUS
<1> HIDE DEF x, y, z
<1>7. TimesAnswer("TIME_TO_BOOL", x, y)
  BY <1>4, <1>6 DEF TimesAnswer
<1>8. TimesAnswer("TIME_TO_INT", x, z)
  BY <1>5, <1>6 DEF TimesAnswer
<1>9. QED  BY <1>7, <1>8 DEF x, y, z

LEMMA NotBelowZero ==
    ASSUME NEW t \in Moments, GE_TIME(t, Zero)
    PROVE  \E k \in {0, 4} : /\ t.sec \in Int /\ t.nsec = k * Eighth /\ Nanos8(t) = 8 * t.sec + k
                             /\ t.sec >= 0
<1>1. PICK k \in {-4, 0, 4} : /\ t.sec \in Int /\ t.nsec = k * Eighth /\ Nanos8(t) = 8 * t.sec + k
                              /\ (t.sec > 0 => k >= 0) /\ (t.sec < 0 => k <= 0)
  BY MomentsCounted
<1>2. Zero.sec = 0 /\ Zero.nsec = 0
  BY DEF Zero, Time
<1>3. IF t.sec = 0 THEN t.nsec >= 0 ELSE t.sec >= 0
  <2>1. time_cmp(t, Zero) = IF 0 = t.sec THEN t.nsec - 0 ELSE t.sec - 0
    BY <1>2 DEF time_cmp
  <2>2. t.nsec \in Int
    BY <1>1, EighthFacts
  <2>3. QED  BY <1>1, <2>1, <2>2 DEF GE_TIME
<1>4. k # -4
  BY <1>1, <1>3, EighthFacts
<1>5. QED  BY <1>1, <1>3, <1>4

LEMMA MultimeAnswers ==
    ASSUME NEW a \in Moments, NEW q \in {1, 2, 4, 5, 8}, GE_TIME(a, Zero)
    PROVE  TimesAnswer("MULTIME", <<a, q>>, time_mul(a, q))
<1> DEFINE x == <<a, q>>
           y == time_mul(a, q)
           p == a.sec * q
           h == a.nsec \div Half
           e == h * q
           ns == Int32(e)
           turn == Quotient(ns, Second)
<1>1. PICK k \in {0, 4} : a.sec \in Int /\ a.nsec = k * Eighth /\ Nanos8(a) = 8 * a.sec + k
  BY NotBelowZero
<1>2. h \in {0, 1} /\ k = 4 * h
  BY <1>1, EighthFacts
<1>3. p \in Int /\ e \in 0 .. 8
  <2> HIDE DEF h
  <2>1. QED  BY <1>1, <1>2
<1>4. ns = e * Eighth
  <2> HIDE DEF e
  <2>1. Second \div 8 = Eighth
    BY DEF Eighth
  <2>2. QED  BY <1>3, <2>1 DEF Int32
<1>5. turn \in {0, 1} /\ ns - turn * Second = (e - 8 * turn) * Eighth
  <2> HIDE DEF e, ns
  <2>1. turn = ns \div Second
    <3>1. ns >= 0 /\ Second > 0 /\ ns \in Int
      BY <1>3, <1>4, EighthFacts
    <3>2. Magnitude(ns) = ns /\ Magnitude(Second) = Second
      BY <3>1, EighthFacts DEF Magnitude
    <3>3. ~(ns < 0) /\ ~(Second < 0)
      BY <3>1, EighthFacts
    <3>4. QED  BY <3>2, <3>3 DEF Quotient
  <2>2. turn = IF e = 8 THEN 1 ELSE 0
    <3> HIDE DEF turn
    <3> QED  BY <1>3, <1>4, <2>1, EighthFacts
  <2> HIDE DEF turn
  <2>3. QED  BY <1>3, <1>4, <2>2, EighthFacts
<1> DEFINE sec == (p \div 4) + turn
           i == (e - 8 * turn) + 2 * (p % 4)
<1>6. y = normalize_timespec(Time(sec, i * Eighth))
  <2>1. Second \div 4 = 2 * Eighth
    BY EighthFacts
  <2>2. y = normalize_timespec(Time((p \div 4) + turn, (ns - turn * Second) + (p % 4) * (2 * Eighth)))
    <3>1. y = normalize_timespec(Time((p \div 4) + turn, ns - turn * Second + (p % 4) * (Second \div 4)))
      BY DEF time_mul
    <3> HIDE DEF y, p, turn, ns
    <3>2. QED  BY <2>1, <3>1
  <2> HIDE DEF y, p, turn, ns, e
  <2>3. p % 4 \in Int
    BY <1>3
  <2>4. (e - 8 * turn) * Eighth + (p % 4) * (2 * Eighth) = i * Eighth
    BY <1>3, <1>5, <2>3, EighthFacts
  <2>5. QED  BY <1>5, <2>2, <2>4
<1> HIDE DEF y, h, p, ns, turn
<1>7. sec \in Int /\ i \in Int
  BY <1>3, <1>5
<1>8. 4 * Nanos8(y) = Nanos8(a) * q
  <2>1. Nanos8(y) = 8 * sec + i
    <3> HIDE DEF sec, i
    <3> QED  BY <1>6, <1>7, InEights
  <2>2. 8 * sec + i = 2 * p + e
    <3>1. p = 4 * (p \div 4) + (p % 4) /\ p \div 4 \in Int /\ p % 4 \in Int
      BY <1>3
    <3> HIDE DEF e
    <3>2. QED  BY <1>3, <1>5, <3>1
  <2>3. Nanos8(a) * q = 8 * p + 4 * e
    BY <1>1, <1>2 DEF p
  <2> HIDE DEF e
  <2>4. QED  BY <1>3, <2>1, <2>2, <2>3
<1>9. x[1] = a /\ x[2] = q
  OBVIOUS
<1> HIDE DEF x
<1>10. TimesAnswer("MULTIME", x, y)
  BY <1>8, <1>9 DEF TimesAnswer
<1>11. QED  BY <1>10 DEF x, y

LEMMA DivtimeAnswers ==
    ASSUME NEW a \in Moments, NEW q \in {1, 2, 4, 5, 8}, GE_TIME(a, Zero)
    PROVE  TimesAnswer("DIVTIME", <<a, q>>, time_div(a, q))
<1> DEFINE x == <<a, q>>
           y == time_div(a, q)
           u == Second \div 200
           s == 4 * a.sec
           v == s \div q
           r == s % q
<1>1. PICK k \in {0, 4} : a.sec \in Int /\ a.nsec = k * Eighth /\ Nanos8(a) = 8 * a.sec + k
  BY NotBelowZero
<1>2. u \in Nat \ {0} /\ Eighth = 25 * u /\ 200 * u = Second /\ 200 \in Nat
  BY DEF Second, Eighth
<1>3. s \in Int /\ v \in Int /\ r \in Int /\ s = q * v + r
  <2>1. s \in Int /\ q \in Nat \ {0}
    BY <1>1
  <2> HIDE DEF s
  <2>2. QED  BY <2>1
<1>4. PICK i \in Int, j \in Int : /\ (4 * a.nsec) \div q = i * u /\ Second \div q = j * u
                                  /\ q * i = 100 * k /\ q * j = 200
  <2> DEFINE i == (100 * k) \div q
             j == 200 \div q
  <2>1. i \in Int /\ j \in Int /\ q * i = 100 * k /\ q * j = 200
    OBVIOUS
  <2> HIDE DEF u
  <2>2. Second \div q = j * u
    BY <1>2
  <2>3. (4 * a.nsec) \div q = i * u
    <3>1. k = 0 => 4 * a.nsec = 0
      BY <1>1, <1>2
    <3>2. k = 4 => 4 * a.nsec = 400 * u
      BY <1>1, <1>2
    <3>3. QED  BY <1>2, <3>1, <3>2
  <2>4. QED  BY <2>1, <2>2, <2>3
<1> DEFINE m == i + r * j
<1>5. y = normalize_timespec(Time(v, m * u))
  <2>1. y = normalize_timespec(Time(v, (4 * a.nsec) \div q + r * (Second \div q)))
    BY DEF time_div
  <2> HIDE DEF v, r, s, u, y
  <2>2. i * u + r * (j * u) = m * u
    <3>1. u \in Int
      BY <1>2
    <3>2. r * (j * u) = (r * j) * u
      BY <1>3, <3>1
    <3>3. QED  BY <1>3, <3>1, <3>2
  <2>3. QED  BY <1>4, <2>1, <2>2
<1>6. In(200, y) = 200 * v + m
  <2>1. v \in Int /\ m \in Int
    <3> HIDE DEF v, r
    <3> QED  BY <1>3
  <2>2. u \in Nat \ {0} /\ Second \div 200 = u
    BY <1>2
  <2> HIDE DEF v, r, s, u, y, m
  <2> DEFINE n == 200
  <2>3. n \in Nat /\ Second \div n = u /\ n * u = Second
    BY <1>2, <2>2
  <2> HIDE DEF n
  <2>5. In(n, normalize_timespec(Time(v, m * u))) = n * v + m
    BY <2>1, <2>2, <2>3, Normalizes
  <2>6. QED  BY <1>5, <2>5 DEF n
<1>7. In(200, a) = 200 * a.sec + 25 * k
  <2>1. a.nsec = (25 * k) * u
    BY <1>1, <1>2
  <2>2. a.nsec \div u = 25 * k
    BY <1>2, <2>1
  <2>3. QED  BY <2>2 DEF In
<1> HIDE DEF v, r, y, m, u
<1>8. In(200, y) * q = In(200, a) * 4
  <2>1. q * (r * j) = 200 * r
    <3>1. q * (r * j) = r * (q * j)
      BY <1>3
    <3>2. QED  BY <1>3, <1>4, <3>1
  <2>2. q * (200 * v) = 200 * (q * v)
    BY <1>3
  <2>3. q * m = q * i + q * (r * j)
    BY <1>3 DEF m
  <2>4. In(200, y) * q = q * (200 * v) + q * m
    <3>1. m \in Int
      BY <1>3 DEF m
    <3>2. QED  BY <1>3, <1>6, <3>1
  <2>5. In(200, y) * q = 200 * (q * v + r) + 100 * k
    BY <1>3, <1>4, <2>1, <2>2, <2>3, <2>4
  <2>6. In(200, y) * q = 200 * s + 100 * k
    <3> HIDE DEF s
    <3> QED  BY <1>3, <2>5
  <2>7. 200 * s + 100 * k = In(200, a) * 4
    BY <1>1, <1>7
  <2> HIDE DEF s
  <2>8. QED  BY <2>6, <2>7
<1>9. x[1] = a /\ x[2] = q
  OBVIOUS
<1> HIDE DEF x
<1>10. TimesAnswer("DIVTIME", x, y)
  BY <1>8, <1>9 DEF TimesAnswer
<1>11. QED  BY <1>10 DEF x, y

-----------------------------------------------------------------------------
(* Conversions.                                                            *)
LEMMA NumberConversions ==
    ASSUME NEW t \in Types, NEW to \in Types, NEW n \in IntValues(t)
    PROVE  /\ ConversionsAnswer("TO_BOOL", <<n>>, num_to_bool(n))
           /\ ConversionsAnswer("TO_INT", <<n, to>>, move(to, n))
           /\ ConversionsAnswer("INT_TO_TIME", <<n>>, int_to_time(n))
<1> DEFINE x == <<n>>
           w == <<n, to>>
           b == num_to_bool(n)
           m == move(to, n)
           d == int_to_time(n)
<1>1. n \in Int
  BY NumberTypes
<1>2. b <=> n # 0
  BY DEF num_to_bool
<1>3. (m - n) % Modulus = 0
  BY <1>1, Moved
<1>4. Nanos8(d) = 8 * n
  <2>1. d = Time(n, 0 * Eighth)
    BY EighthFacts DEF int_to_time
  <2>2. Nanos8(d) = 8 * n + 0
    BY <1>1, <2>1, InEights
  <2>3. QED  BY <1>1, <2>2
<1>5. x[1] = n /\ w[1] = n
  OBVIOUS
<1> HIDE DEF x, w, b, m, d
<1>6. ConversionsAnswer("TO_BOOL", x, b)
  BY <1>2, <1>5 DEF ConversionsAnswer
<1>7. ConversionsAnswer("TO_INT", w, m)
  BY <1>3, <1>5 DEF ConversionsAnswer, Modulus
<1>8. ConversionsAnswer("INT_TO_TIME", x, d)
  BY <1>4, <1>5 DEF ConversionsAnswer
<1>9. QED  BY <1>6, <1>7, <1>8 DEF x, w, b, m, d

LEMMA QuotientOf ==
    ASSUME NEW a \in Int, NEW d \in Nat \ {0}
    PROVE  Quotient(a, d) = IF a < 0 THEN -((-a) \div d) ELSE a \div d
<1>1. Magnitude(d) = d /\ ~(d < 0)
  BY DEF Magnitude
<1>2. Magnitude(a) = IF a < 0 THEN -a ELSE a
  BY DEF Magnitude
<1>3. QED  BY <1>1, <1>2 DEF Quotient

LEMMA QuarterTypes ==
    ASSUME NEW x \in Quarters
    PROVE  x \in Int /\ x >= -4 * Greatest /\ x <= 4 * Greatest - 3
<1>1. Width + 1 \in Width .. Width + 1 /\ \A w \in Width .. Width + 1 : 2 ^ w = 2 * 2 ^ (w - 1)
  BY FunctionAssumption
<1>2. 2 ^ (Width + 1) = 2 * 2 ^ ((Width + 1) - 1)
  BY <1>1
<1>3. (Width + 1) - 1 = Width
  BY FunctionAssumption
<1>4. 2 ^ (Width + 1) = 2 * Modulus
  BY <1>2, <1>3 DEF Modulus
<1>5. x \in -(2 * Modulus) .. 2 * Modulus - 3
  BY <1>4 DEF Quarters
<1>6. QED  BY <1>5, NumberTypes

LEMMA TruncAnswers ==
    ASSUME NEW x \in Quarters
    PROVE  ConversionsAnswer("TRUNC", <<x>>, TRUNC(x))
<1> DEFINE w == <<x>>
           y == TRUNC(x)
<1>1. x \in Int
  BY QuarterTypes
<1>2. y = IF x < 0 THEN -((-x) \div 4) ELSE x \div 4
  BY <1>1, QuotientOf DEF TRUNC
<1> HIDE DEF y
<1>3. Magnitude(x - 4 * y) < 4 /\ Magnitude(4 * y) <= Magnitude(x)
  BY <1>1, <1>2 DEF Magnitude
<1>4. w[1] = x
  OBVIOUS
<1> HIDE DEF w
<1>5. ConversionsAnswer("TRUNC", w, y)
  BY <1>3, <1>4 DEF ConversionsAnswer
<1>6. QED  BY <1>5 DEF w, y

LEMMA RealToTimeAnswers ==
    ASSUME NEW x \in Quarters
    PROVE  ConversionsAnswer("REAL_TO_TIME", <<x>>, real_to_time(x))
<1> DEFINE w == <<x>>
           y == real_to_time(x)
           q == Quotient(x, 4)
           r == x - 4 * q
<1>1. x \in Int
  BY QuarterTypes
<1>2. q \in Int
  BY <1>1, QuotientOf
<1> HIDE DEF q
<1>3. r \in Int /\ 2 * r \in Int
  BY <1>1, <1>2
<1>4. y = Time(q, (2 * r) * Eighth)
  <2>1. Second \div 4 = 2 * Eighth
    BY EighthFacts
  <2>2. y = Time(q, r * (Second \div 4))
    BY DEF real_to_time, Remainder, q
  <2> HIDE DEF r, y
  <2>3. r * (2 * Eighth) = (2 * r) * Eighth
    BY <1>3, EighthFacts
  <2>4. QED  BY <2>1, <2>2, <2>3
<1>5. Nanos8(y) = 2 * x
  <2>1. Nanos8(y) = 8 * q + 2 * r
    <3> DEFINE i == 2 * r
    <3> HIDE DEF y
    <3>1. y = Time(q, i * Eighth) /\ i \in Int
      BY <1>3, <1>4
    <3> HIDE DEF i
    <3>2. Nanos8(y) = 8 * q + i
      BY <1>2, <3>1, InEights
    <3>3. QED  BY <3>2 DEF i
  <2> HIDE DEF y
  <2>2. QED  BY <1>1, <1>2, <2>1
<1>6. w[1] = x
  OBVIOUS
<1> HIDE DEF w, y
<1>7. ConversionsAnswer("REAL_TO_TIME", w, y)
  BY <1>5, <1>6 DEF ConversionsAnswer
<1>8. QED  BY <1>7 DEF w, y

(* A REAL that fits into an INT, rounded.                                  *)
Rounded(y, x) == \/ Magnitude(4 * y - x) < 2
                 \/ Magnitude(4 * y - x) = 2 /\ y % 2 = 0

LEMMA RoundsToNearest ==
    ASSUME NEW x \in Quarters
    PROVE  LET y == real_round(IF x >= 0 THEN x + 2 ELSE x - 2)
           IN  y \in Int /\ Rounded(y, x) /\ y >= -Greatest /\ y <= Greatest - 1 /\ (x >= 0 => y >= 0)
<1> DEFINE n == IF x >= 0 THEN x + 2 ELSE x - 2
           y == real_round(n)
           h == n \div 4
<1>1. x \in Int /\ x >= -4 * Greatest /\ x <= 4 * Greatest - 3
  BY QuarterTypes
<1>2. Greatest \in Nat \ {0}
  BY NumberTypes
<1>3. n \in Int /\ h \in Int /\ n = 4 * h + (n % 4) /\ n % 4 \in 0 .. 3
  BY <1>1
<1>4. y = IF n % 4 = 0 THEN 2 * Quotient(h, 2) ELSE Quotient(n, 4)
  BY DEF real_round
<1>5. Quotient(h, 2) = IF h < 0 THEN -((-h) \div 2) ELSE h \div 2
  <2> HIDE DEF h
  <2>1. h \in Int /\ 2 \in Nat \ {0}
    BY <1>3
  <2>2. QED  BY <2>1, QuotientOf
<1>6. Quotient(n, 4) = IF n < 0 THEN -((-n) \div 4) ELSE n \div 4
  BY <1>3, QuotientOf
<1>7. n = IF x >= 0 THEN x + 2 ELSE x - 2
  OBVIOUS
<1> HIDE DEF y, n, h
<1>8. ASSUME n % 4 = 0
      PROVE  y \in Int /\ Rounded(y, x) /\ y >= -Greatest /\ y <= Greatest - 1 /\ (x >= 0 => y >= 0)
  <2> DEFINE g == IF h < 0 THEN (-h) \div 2 ELSE h \div 2
  <2>1. /\ g \in Int /\ g >= 0
        /\ h < 0 => -h = 2 * g \/ -h = 2 * g + 1
        /\ h >= 0 => h = 2 * g \/ h = 2 * g + 1
    BY <1>3
  <2>2. y = IF h < 0 THEN 2 * (-g) ELSE 2 * g
    BY <1>4, <1>5, <1>8
  <2>3. y \in Int /\ y % 2 = 0
    <3> HIDE DEF g
    <3>1. (2 * (-g)) % 2 = 0 /\ (2 * g) % 2 = 0
      BY <2>1
    <3>2. QED  BY <2>1, <2>2, <3>1
  <2> HIDE DEF g
  <2>4. n = 4 * h
    BY <1>3, <1>8
  <2>5. Magnitude(4 * y - x) = 2
    <3>1. 4 * y - x = 2 \/ 4 * y - x = -2
      BY <1>1, <1>3, <1>7, <2>1, <2>2, <2>4
    <3>2. CASE 4 * y - x = 2
      BY <3>2 DEF Magnitude
    <3>3. CASE 4 * y - x + 2 = 0
      <4>1. 4 * y - x < 0 /\ -(4 * y - x) = 2
        BY <1>1, <2>3, <3>3
      <4>2. QED  BY <4>1 DEF Magnitude
    <3>4. 4 * y - x \in Int
      BY <1>1, <2>3
    <3>5. QED  BY <3>1, <3>2, <3>3, <3>4
  <2>6. y >= -Greatest /\ y <= Greatest - 1 /\ (x >= 0 => y >= 0)
    BY <1>1, <1>2, <1>3, <1>7, <2>1, <2>2, <2>4
  <2>7. QED  BY <2>3, <2>5, <2>6 DEF Rounded
<1>9. ASSUME n % 4 # 0
      PROVE  y \in Int /\ Rounded(y, x) /\ y >= -Greatest /\ y <= Greatest - 1 /\ (x >= 0 => y >= 0)
  <2>1. y = IF n < 0 THEN -((-n) \div 4) ELSE n \div 4
    BY <1>4, <1>6, <1>9
  <2>2. y \in Int /\ Magnitude(4 * y - x) < 2
    BY <1>1, <1>3, <1>7, <1>9, <2>1 DEF Magnitude
  <2>3. y >= -Greatest /\ y <= Greatest - 1 /\ (x >= 0 => y >= 0)
    BY <1>1, <1>2, <1>3, <1>7, <1>9, <2>1
  <2>4. Rounded(y, x)
    BY <2>2 DEF Rounded
  <2>5. QED  BY <2>2, <2>3, <2>4
<1>10. QED  BY <1>8, <1>9 DEF y, n

LEMMA RealsToNumbers ==
    ASSUME NEW x \in Quarters
    PROVE  /\ ConversionsAnswer("REAL_TO_INT", <<x>>, move("INT", real_to_sint(x)))
           /\ ConversionsAnswer("REAL_TO_UINT", <<x>>, move("UINT", real_to_uint(x)))
<1> DEFINE w == <<x>>
           r == real_round(IF x >= 0 THEN x + 2 ELSE x - 2)
           n == IF x >= 0 THEN r ELSE 0
           y == move("INT", real_to_sint(x))
           z == move("UINT", real_to_uint(x))
           near == IF x < 0 THEN 0 ELSE x
<1>1. r \in Int /\ Rounded(r, x) /\ r >= -Greatest /\ r <= Greatest - 1 /\ (x >= 0 => r >= 0)
  BY RoundsToNearest
<1>2. x \in Int
  BY QuarterTypes
<1>3. real_to_sint(x) = r /\ real_to_uint(x) = n
  BY DEF real_to_sint, real_to_uint
<1> HIDE DEF r
<1>4. /\ Modulus \in Nat \ {0} /\ Greatest \in Nat \ {0} /\ Modulus = 2 * Greatest
      /\ IntValues("INT") = -Greatest .. Greatest - 1 /\ IntValues("UINT") = 0 .. Modulus - 1
      /\ "INT" \in Types /\ "UINT" \in Types
  BY NumberTypes DEF LeastOf, Types
<1>5. y = r
  <2>1. r \in IntValues("INT")
    BY <1>1, <1>4
  <2>2. QED  BY <1>1, <1>3, <1>4, <2>1, Moved
<1>6. z = n
  <2>1. n \in Int /\ n \in IntValues("UINT")
    BY <1>1, <1>2, <1>4
  <2> HIDE DEF n
  <2>2. QED  BY <1>3, <1>4, <2>1, Moved
<1>7. Rounded(n, near)
  <2>1. CASE x >= 0
    BY <1>1, <1>2, <2>1
  <2>2. CASE x < 0
    <3>1. n = 0 /\ near = 0
      BY <1>2, <2>2
    <3>2. Magnitude(4 * 0 - 0) < 2
      BY DEF Magnitude
    <3>3. QED  BY <3>1, <3>2 DEF Rounded
  <2>3. QED  BY <1>2, <2>1, <2>2
<1>8. w[1] = x
  OBVIOUS
<1>9. Rounded(y, x) /\ Rounded(z, near)
  BY <1>1, <1>5, <1>6, <1>7
<1> HIDE DEF w, y, z, n
<1>10. ConversionsAnswer("REAL_TO_INT", w, y)
  BY <1>8, <1>9 DEF ConversionsAnswer, Rounded
<1>11. ConversionsAnswer("REAL_TO_UINT", w, z)
  BY <1>8, <1>9 DEF ConversionsAnswer, Rounded
<1>12. QED  BY <1>10, <1>11 DEF w, y, z

-----------------------------------------------------------------------------
(* A call.  What a function answers is promised by one family of them.     *)
NumberFunctions == {"ABS", "SUB", "DIV", "MOD", "ADD", "MUL"}
BitFunctions == {"SHL", "SHR", "ROL", "ROR", "NOT", "AND", "OR", "XOR", "XOR_BOOL", "SHL_BOOL", "SHR_BOOL"}
ChoiceFunctions == {"MAX", "MIN", "LIMIT", "MUX", "SEL", "GT", "GE", "EQ", "LT", "LE", "NE"}
TimeFunctions == {"ADD_TIME", "SUB_TIME", "CONCAT_DATE_TOD", "DT_TO_TOD", "DT_TO_DATE", "MULTIME", "DIVTIME",
                  "TIME_TO_BOOL", "TIME_TO_INT"}
Conversions == {"TO_BOOL", "TO_INT", "TO_BIT", "BIT_TO", "INT_TO_TIME", "REAL_TO_TIME", "REAL_TO_INT",
                "REAL_TO_UINT", "TRUNC", "TO_BCD", "BCD_TO",
                "STRING_TO_INT", "STRING_TO_REAL", "STRING_TO_TIME", "STRING_TO_BOOL"}
StringFunctions == {"LEN", "LEFT", "RIGHT", "MID", "CONCAT", "INSERT", "DELETE", "REPLACE", "FIND"}
Refusing == {"DIV", "MUX", "BCD_TO", "LEFT", "RIGHT", "MID", "DELETE", "INSERT", "REPLACE"}

AnswersAll(fn, x, y) ==
    /\ NumbersAnswer(fn, x, y) /\ BitsAnswer(fn, x, y) /\ ChoiceAnswer(fn, x, y)
    /\ TimesAnswer(fn, x, y) /\ ConversionsAnswer(fn, x, y) /\ StringsAnswer(fn, x, y)

LEMMA NoNumber == \A fn, x, y : fn \notin NumberFunctions => NumbersAnswer(fn, x, y)
BY Zenon DEF NumbersAnswer, NumberFunctions
LEMMA NoBits == \A fn, x, y : fn \notin BitFunctions => BitsAnswer(fn, x, y)
<1> SUFFICES ASSUME NEW fn, NEW x, NEW y, fn \notin BitFunctions
             PROVE  BitsAnswer(fn, x, y)
  OBVIOUS
<1>1. /\ fn # "SHL" /\ fn # "SHR" /\ fn # "ROL" /\ fn # "ROR" /\ fn # "NOT"
      /\ fn # "AND" /\ fn # "OR" /\ fn # "XOR" /\ fn # "XOR_BOOL" /\ fn # "SHL_BOOL"
      /\ fn # "SHR_BOOL"
  BY DEF BitFunctions
<1>2. QED  BY <1>1, Zenon DEF BitsAnswer
LEMMA NoChoice == \A fn, x, y : fn \notin ChoiceFunctions => ChoiceAnswer(fn, x, y)
<1> SUFFICES ASSUME NEW fn, NEW x, NEW y, fn \notin ChoiceFunctions
             PROVE  ChoiceAnswer(fn, x, y)
  OBVIOUS
<1>1. /\ fn # "MAX" /\ fn # "MIN" /\ fn # "LIMIT" /\ fn # "MUX" /\ fn # "SEL"
      /\ fn # "GT" /\ fn # "GE" /\ fn # "EQ" /\ fn # "LT" /\ fn # "LE"
      /\ fn # "NE"
  BY DEF ChoiceFunctions
<1>2. QED  BY <1>1, Zenon DEF ChoiceAnswer
LEMMA NoTime == \A fn, x, y : fn \notin TimeFunctions => TimesAnswer(fn, x, y)
<1> SUFFICES ASSUME NEW fn, NEW x, NEW y, fn \notin TimeFunctions
             PROVE  TimesAnswer(fn, x, y)
  OBVIOUS
<1>1. /\ fn # "ADD_TIME" /\ fn # "SUB_TIME" /\ fn # "CONCAT_DATE_TOD" /\ fn # "DT_TO_TOD" /\ fn # "DT_TO_DATE"
      /\ fn # "MULTIME" /\ fn # "DIVTIME" /\ fn # "TIME_TO_BOOL" /\ fn # "TIME_TO_INT"
  BY DEF TimeFunctions
<1>2. QED  BY <1>1, Zenon DEF TimesAnswer
LEMMA NoConversion == \A fn, x, y : fn \notin Conversions => ConversionsAnswer(fn, x, y)
<1> SUFFICES ASSUME NEW fn, NEW x, NEW y, fn \notin Conversions
             PROVE  ConversionsAnswer(fn, x, y)
  OBVIOUS
<1>1. /\ fn # "TO_BOOL" /\ fn # "TO_INT" /\ fn # "TO_BIT" /\ fn # "BIT_TO" /\ fn # "INT_TO_TIME"
      /\ fn # "REAL_TO_TIME" /\ fn # "REAL_TO_INT" /\ fn # "REAL_TO_UINT" /\ fn # "TRUNC" /\ fn # "TO_BCD"
      /\ fn # "BCD_TO" /\ fn # "STRING_TO_INT" /\ fn # "STRING_TO_REAL" /\ fn # "STRING_TO_TIME"
      /\ fn # "STRING_TO_BOOL"
  BY DEF Conversions
<1>2. QED  BY <1>1, Zenon DEF ConversionsAnswer
LEMMA NoString == \A fn, x, y : fn \notin StringFunctions => StringsAnswer(fn, x, y)
<1> SUFFICES ASSUME NEW fn, NEW x, NEW y, fn \notin StringFunctions
             PROVE  StringsAnswer(fn, x, y)
  OBVIOUS
<1>1. /\ fn # "LEN" /\ fn # "LEFT" /\ fn # "RIGHT" /\ fn # "MID" /\ fn # "CONCAT"
      /\ fn # "INSERT" /\ fn # "DELETE" /\ fn # "REPLACE" /\ fn # "FIND"
  BY DEF StringFunctions
<1>2. QED  BY <1>1, Zenon DEF StringsAnswer

LEMMA NumbersDo ==
    ASSUME NEW fn \in NumberFunctions, NEW x, NEW y, NumbersAnswer(fn, x, y)
    PROVE  AnswersAll(fn, x, y)
<1>1. /\ fn \notin BitFunctions /\ fn \notin ChoiceFunctions /\ fn \notin TimeFunctions
      /\ fn \notin Conversions /\ fn \notin StringFunctions
  BY DEF NumberFunctions, BitFunctions, ChoiceFunctions, TimeFunctions, Conversions, StringFunctions
<1>2. QED  BY <1>1, NoBits, NoChoice, NoTime, NoConversion, NoString, Zenon DEF AnswersAll

LEMMA BitsDo ==
    ASSUME NEW fn \in BitFunctions, NEW x, NEW y, BitsAnswer(fn, x, y)
    PROVE  AnswersAll(fn, x, y)
<1>1. /\ fn \notin NumberFunctions /\ fn \notin ChoiceFunctions /\ fn \notin TimeFunctions
      /\ fn \notin Conversions /\ fn \notin StringFunctions
  BY DEF NumberFunctions, BitFunctions, ChoiceFunctions, TimeFunctions, Conversions, StringFunctions
<1>2. QED  BY <1>1, NoNumber, NoChoice, NoTime, NoConversion, NoString, Zenon DEF AnswersAll

LEMMA ChoicesDo ==
    ASSUME NEW fn \in ChoiceFunctions, NEW x, NEW y, ChoiceAnswer(fn, x, y)
    PROVE  AnswersAll(fn, x, y)
<1>1. /\ fn \notin NumberFunctions /\ fn \notin BitFunctions /\ fn \notin TimeFunctions
      /\ fn \notin Conversions /\ fn \notin StringFunctions
  BY DEF NumberFunctions, BitFunctions, ChoiceFunctions, TimeFunctions, Conversions, StringFunctions
<1>2. QED  BY <1>1, NoNumber, NoBits, NoTime, NoConversion, NoString, Zenon DEF AnswersAll

LEMMA TimesDo ==
    ASSUME NEW fn \in TimeFunctions, NEW x, NEW y, TimesAnswer(fn, x, y)
    PROVE  AnswersAll(fn, x, y)
<1>1. /\ fn \notin NumberFunctions /\ fn \notin BitFunctions /\ fn \notin ChoiceFunctions
      /\ fn \notin Conversions /\ fn \notin StringFunctions
  BY DEF NumberFunctions, BitFunctions, ChoiceFunctions, TimeFunctions, Conversions, StringFunctions
<1>2. QED  BY <1>1, NoNumber, NoBits, NoChoice, NoConversion, NoString, Zenon DEF AnswersAll

LEMMA ConversionsDo ==
    ASSUME NEW fn \in Conversions, NEW x, NEW y, ConversionsAnswer(fn, x, y)
    PROVE  AnswersAll(fn, x, y)
<1>1. /\ fn \notin NumberFunctions /\ fn \notin BitFunctions /\ fn \notin ChoiceFunctions
      /\ fn \notin TimeFunctions /\ fn \notin StringFunctions
  BY DEF NumberFunctions, BitFunctions, ChoiceFunctions, TimeFunctions, Conversions, StringFunctions
<1>2. QED  BY <1>1, NoNumber, NoBits, NoChoice, NoTime, NoString, Zenon DEF AnswersAll

LEMMA StringsDo ==
    ASSUME NEW fn \in StringFunctions, NEW x, NEW y, StringsAnswer(fn, x, y)
    PROVE  AnswersAll(fn, x, y)
<1>1. /\ fn \notin NumberFunctions /\ fn \notin BitFunctions /\ fn \notin ChoiceFunctions
      /\ fn \notin TimeFunctions /\ fn \notin Conversions
  BY DEF NumberFunctions, BitFunctions, ChoiceFunctions, TimeFunctions, Conversions, StringFunctions
<1>2. QED  BY <1>1, NoNumber, NoBits, NoChoice, NoTime, NoConversion, Zenon DEF AnswersAll

LEMMA NeverRefused == \A fn, x : fn \notin Refusing => ~NoAnswer(fn, x)
<1> SUFFICES ASSUME NEW fn, NEW x, fn \notin Refusing
             PROVE  ~NoAnswer(fn, x)
  OBVIOUS
<1>1. /\ fn # "DIV" /\ fn # "MUX" /\ fn # "BCD_TO" /\ fn # "LEFT" /\ fn # "RIGHT"
      /\ fn # "MID" /\ fn # "DELETE" /\ fn # "INSERT" /\ fn # "REPLACE"
  BY DEF Refusing
<1>2. QED  BY <1>1 DEF NoAnswer

(* What the recursive functions compute is beyond the provers: these are   *)
(* compared with the standard on the instances of the runs alone.          *)
OnlyChecked == {"FIND", "SHL", "SHR", "NOT", "TO_BIT", "BIT_TO", "TO_BCD", "BCD_TO",
                "STRING_TO_INT", "STRING_TO_REAL", "STRING_TO_TIME", "STRING_TO_BOOL"}
FunctionInv == called # <<>> /\ called.fn \notin OnlyChecked => FunctionsMeetStandard

LEMMA AnsweredWell ==
    ASSUME NEW fn, NEW en \in Enables, NEW x, NEW refused, NEW init, NEW out,
           refused <=> NoAnswer(fn, x),
           (en_eno /\ refused) \/ AnswersAll(fn, x, out),
           Answer(fn, en, x, Test_EN(en, refused, init, out))
    PROVE  FunctionInv'
<1> DEFINE r == Test_EN(en, refused, init, out)
<1>1. /\ called' = [fn |-> fn, en |-> en, ops |-> x, eno |-> r.eno, out |-> r.out]
      /\ en_eno' = en_eno
  BY DEF Answer
<1> HIDE DEF r
<1>2. called'.fn = fn /\ called'.en = en /\ called'.ops = x /\ called'.eno = r.eno /\ called'.out = r.out
  BY <1>1
<1>3. IF en_eno /\ (~en \/ refused) THEN r.eno = FALSE ELSE r.eno = TRUE /\ r.out = out
  BY DEF r, Test_EN, Result
<1>4. en_eno \/ en = TRUE
  BY DEF Enables
<1>5. CASE en_eno /\ (~en \/ refused)
  <2>1. r.eno = FALSE
    BY <1>3, <1>5
  <2>2. ~(en /\ ~(en_eno /\ NoAnswer(fn, x)))
    BY <1>5
  <2>3. QED  BY <1>1, <1>2, <2>1, <2>2, Zenon DEF FunctionInv, FunctionsMeetStandard
<1>6. CASE ~(en_eno /\ (~en \/ refused))
  <2>1. r.eno = TRUE /\ r.out = out
    BY <1>3, <1>6
  <2>2. en /\ ~(en_eno /\ NoAnswer(fn, x))
    BY <1>4, <1>6
  <2>3. AnswersAll(fn, x, out)
    BY <1>6, <2>2
  <2>4. QED  BY <1>1, <1>2, <2>1, <2>2, <2>3, Zenon DEF FunctionInv, FunctionsMeetStandard, AnswersAll
<1>7. QED  BY <1>5, <1>6

(* The calls no operands are refused to.                                   *)
LEMMA AnsweredAlways ==
    ASSUME NEW fn, NEW en \in Enables, NEW x, NEW init, NEW out,
           fn \notin Refusing, AnswersAll(fn, x, out),
           Answer(fn, en, x, Test_EN(en, FALSE, init, out))
    PROVE  FunctionInv'
<1>1. FALSE <=> NoAnswer(fn, x)
  BY NeverRefused
<1>2. QED  BY <1>1, AnsweredWell

LEMMA NotInQuestion ==
    ASSUME NEW fn \in OnlyChecked, NEW en, NEW x, NEW r, Answer(fn, en, x, r)
    PROVE  FunctionInv'
<1>1. called' = [fn |-> fn, en |-> en, ops |-> x, eno |-> r.eno, out |-> r.out]
  BY DEF Answer
<1>2. called'.fn = fn
  BY <1>1
<1>3. QED  BY <1>2 DEF FunctionInv

LEMMA RefusalOf ==
    ASSUME NEW a, NEW b, NEW l \in Int, NEW p \in Int
    PROVE  /\ NoAnswer("LEFT", <<a, l>>) <=> l < 0
           /\ NoAnswer("RIGHT", <<a, l>>) <=> l < 0
           /\ NoAnswer("MID", <<a, l, p>>) <=> l < 0 \/ p < 0
           /\ NoAnswer("DELETE", <<a, l, p>>) <=> l < 0 \/ p < 0
           /\ NoAnswer("INSERT", <<a, b, p>>) <=> p < 0
           /\ NoAnswer("REPLACE", <<a, b, l, p>>) <=> l < 0 \/ p < 0
           /\ NoAnswer("DIV", <<a, b>>) <=> b = 0
<1> DEFINE x == <<a, l>>
           y == <<a, l, p>>
           z == <<a, b, p>>
           w == <<a, b, l, p>>
           v == <<a, b>>
<1>1. Len(x) = 2 /\ x[2] = l
  OBVIOUS
<1>2. Len(y) = 3 /\ y[2] = l /\ y[3] = p
  OBVIOUS
<1>3. Len(z) = 3 /\ z[3] = p
  OBVIOUS
<1>4. Len(w) = 4 /\ w[3] = l /\ w[4] = p
  OBVIOUS
<1>5. v[2] = b
  OBVIOUS
<1> HIDE DEF x, y, z, w, v
<1>6. (\E i \in 2 .. Len(x) : x[i] < 0) <=> l < 0
  BY <1>1
<1>7. (\E i \in 2 .. Len(y) : y[i] < 0) <=> l < 0 \/ p < 0
  BY <1>2
<1>8. (\E i \in 3 .. Len(z) : z[i] < 0) <=> p < 0
  BY <1>3
<1>9. (\E i \in 3 .. Len(w) : w[i] < 0) <=> l < 0 \/ p < 0
  BY <1>4
<1>10. (NoAnswer("LEFT", x) <=> l < 0) /\ (NoAnswer("RIGHT", x) <=> l < 0)
  BY <1>6 DEF NoAnswer
<1>11. (NoAnswer("MID", y) <=> l < 0 \/ p < 0) /\ (NoAnswer("DELETE", y) <=> l < 0 \/ p < 0)
  BY <1>7 DEF NoAnswer
<1>12. (NoAnswer("INSERT", z) <=> p < 0) /\ (NoAnswer("REPLACE", w) <=> l < 0 \/ p < 0)
  BY <1>8, <1>9 DEF NoAnswer
<1>13. NoAnswer("DIV", v) <=> b = 0
  BY <1>5 DEF NoAnswer
<1>14. QED  BY <1>10, <1>11, <1>12, <1>13 DEF x, y, z, w, v

LEMMA NumericCalls == CallNumeric => FunctionInv'
<1> SUFFICES ASSUME NEW en \in Enables, NEW t \in Types, NEW a \in IntValues(t), NEW b \in IntValues(t),
                    \/ Answer("ABS", en, <<a>>, Test_EN(en, FALSE, 0, ABS(t, a)))
                    \/ Answer("SUB", en, <<a, b>>, Test_EN(en, FALSE, 0, SUB(t, a, b)))
                    \/ Answer("MOD", en, <<a, b>>, Test_EN(en, FALSE, 0, MOD(a, b)))
                    \/ /\ en_eno \/ b # 0
                       /\ Answer("DIV", en, <<a, b>>, Test_EN(en, b = 0, 0, DIV(t, a, b)))
             PROVE  FunctionInv'
  BY ZenonT(60) DEF CallNumeric
<1>1. a \in Int /\ b \in Int
  BY NumberTypes
<1>2. CASE Answer("ABS", en, <<a>>, Test_EN(en, FALSE, 0, ABS(t, a)))
  <2>1. "ABS" \in NumberFunctions /\ "ABS" \notin Refusing
    BY DEF NumberFunctions, Refusing
  <2>2. AnswersAll("ABS", <<a>>, ABS(t, a))
    BY <2>1, AbsAnswers, NumbersDo
  <2>3. QED  BY <1>2, <2>1, <2>2, AnsweredAlways
<1>3. CASE Answer("SUB", en, <<a, b>>, Test_EN(en, FALSE, 0, SUB(t, a, b)))
  <2>1. "SUB" \in NumberFunctions /\ "SUB" \notin Refusing
    BY DEF NumberFunctions, Refusing
  <2>2. AnswersAll("SUB", <<a, b>>, SUB(t, a, b))
    BY <2>1, SubAnswers, NumbersDo
  <2>3. QED  BY <1>3, <2>1, <2>2, AnsweredAlways
<1>4. CASE Answer("MOD", en, <<a, b>>, Test_EN(en, FALSE, 0, MOD(a, b)))
  <2>1. "MOD" \in NumberFunctions /\ "MOD" \notin Refusing
    BY DEF NumberFunctions, Refusing
  <2>2. AnswersAll("MOD", <<a, b>>, MOD(a, b))
    BY <2>1, <1>1, ModAnswers, NumbersDo
  <2>3. QED  BY <1>4, <2>1, <2>2, AnsweredAlways
<1>5. CASE /\ en_eno \/ b # 0
         /\ Answer("DIV", en, <<a, b>>, Test_EN(en, b = 0, 0, DIV(t, a, b)))
  <2>1. "DIV" \in NumberFunctions
    BY DEF NumberFunctions
  <2>2. b = 0 <=> NoAnswer("DIV", <<a, b>>)
    BY <1>1, RefusalOf
  <2>3. CASE en_eno /\ b = 0
    BY <1>5, <2>2, <2>3, AnsweredWell
  <2>4. CASE ~(en_eno /\ b = 0)
    <3>1. b # 0
      BY <1>5, <2>4
    <3>2. AnswersAll("DIV", <<a, b>>, DIV(t, a, b))
      BY <2>1, <3>1, DivAnswers, NumbersDo
    <3>3. QED  BY <1>5, <2>2, <3>2, AnsweredWell
  <2>5. QED  BY <2>3, <2>4
<1>6. QED  BY <1>2, <1>3, <1>4, <1>5

LEMMA SumCalls == CallSums => FunctionInv'
<1> SUFFICES ASSUME NEW en \in Enables, NEW t \in Types, NEW ops \in OneToThree(IntValues(t)),
                    \/ Answer("ADD", en, ops, Test_EN(en, FALSE, 0, ADD(t, ops)))
                    \/ Answer("MUL", en, ops, Test_EN(en, FALSE, 0, MUL(t, ops)))
             PROVE  FunctionInv'
  BY DEF CallSums
<1>1. CASE Answer("ADD", en, ops, Test_EN(en, FALSE, 0, ADD(t, ops)))
  <2>1. "ADD" \in NumberFunctions /\ "ADD" \notin Refusing
    BY DEF NumberFunctions, Refusing
  <2>2. AnswersAll("ADD", ops, ADD(t, ops))
    BY <2>1, AddAnswers, NumbersDo
  <2>3. QED  BY <1>1, <2>1, <2>2, AnsweredAlways
<1>2. CASE Answer("MUL", en, ops, Test_EN(en, FALSE, 0, MUL(t, ops)))
  <2>1. "MUL" \in NumberFunctions /\ "MUL" \notin Refusing
    BY DEF NumberFunctions, Refusing
  <2>2. AnswersAll("MUL", ops, MUL(t, ops))
    BY <2>1, MulAnswers, NumbersDo
  <2>3. QED  BY <1>2, <2>1, <2>2, AnsweredAlways
<1>3. QED  BY <1>1, <1>2

LEMMA ShiftCalls == CallShift => FunctionInv'
<1> SUFFICES ASSUME NEW en \in Enables, NEW in \in SUBSET Positions, NEW n \in 0 .. 2 * Width,
                    \/ Answer("SHL", en, <<in, n>>, Test_EN(en, FALSE, {}, SHL(in, n)))
                    \/ Answer("SHR", en, <<in, n>>, Test_EN(en, FALSE, {}, SHR(in, n)))
                    \/ Answer("ROL", en, <<in, n>>, Test_EN(en, FALSE, {}, ROL(in, n)))
                    \/ Answer("ROR", en, <<in, n>>, Test_EN(en, FALSE, {}, ROR(in, n)))
                    \/ Answer("NOT", en, <<in>>, Test_EN(en, FALSE, {}, NOT(in)))
             PROVE  FunctionInv'
  BY DEF CallShift
<1>1. CASE Answer("SHL", en, <<in, n>>, Test_EN(en, FALSE, {}, SHL(in, n)))
  <2>1. "SHL" \in OnlyChecked
    BY DEF OnlyChecked
  <2>2. QED  BY <1>1, <2>1, NotInQuestion
<1>2. CASE Answer("SHR", en, <<in, n>>, Test_EN(en, FALSE, {}, SHR(in, n)))
  <2>1. "SHR" \in OnlyChecked
    BY DEF OnlyChecked
  <2>2. QED  BY <1>2, <2>1, NotInQuestion
<1>3. CASE Answer("ROL", en, <<in, n>>, Test_EN(en, FALSE, {}, ROL(in, n)))
  <2>1. "ROL" \in BitFunctions /\ "ROL" \notin Refusing
    BY DEF BitFunctions, Refusing
  <2>2. AnswersAll("ROL", <<in, n>>, ROL(in, n))
    BY <2>1, RolAnswers, BitsDo
  <2>3. QED  BY <1>3, <2>1, <2>2, AnsweredAlways
<1>4. CASE Answer("ROR", en, <<in, n>>, Test_EN(en, FALSE, {}, ROR(in, n)))
  <2>1. "ROR" \in BitFunctions /\ "ROR" \notin Refusing
    BY DEF BitFunctions, Refusing
  <2>2. AnswersAll("ROR", <<in, n>>, ROR(in, n))
    BY <2>1, RorAnswers, BitsDo
  <2>3. QED  BY <1>4, <2>1, <2>2, AnsweredAlways
<1>5. CASE Answer("NOT", en, <<in>>, Test_EN(en, FALSE, {}, NOT(in)))
  <2>1. "NOT" \in OnlyChecked
    BY DEF OnlyChecked
  <2>2. QED  BY <1>5, <2>1, NotInQuestion
<1>6. QED  BY <1>1, <1>2, <1>3, <1>4, <1>5

LEMMA BitCalls == CallBits => FunctionInv'
<1> SUFFICES ASSUME NEW en \in Enables, NEW ops \in OneToThree(SUBSET Positions),
                    \/ Answer("AND", en, ops, Test_EN(en, FALSE, {}, AND(ops)))
                    \/ Answer("OR", en, ops, Test_EN(en, FALSE, {}, OR(ops)))
                    \/ Answer("XOR", en, ops, Test_EN(en, FALSE, {}, XOR(ops)))
             PROVE  FunctionInv'
  BY DEF CallBits
<1>1. CASE Answer("AND", en, ops, Test_EN(en, FALSE, {}, AND(ops)))
  <2>1. "AND" \in BitFunctions /\ "AND" \notin Refusing
    BY DEF BitFunctions, Refusing
  <2>2. AnswersAll("AND", ops, AND(ops))
    BY <2>1, BitwiseAnswers, BitsDo
  <2>3. QED  BY <1>1, <2>1, <2>2, AnsweredAlways
<1>2. CASE Answer("OR", en, ops, Test_EN(en, FALSE, {}, OR(ops)))
  <2>1. "OR" \in BitFunctions /\ "OR" \notin Refusing
    BY DEF BitFunctions, Refusing
  <2>2. AnswersAll("OR", ops, OR(ops))
    BY <2>1, BitwiseAnswers, BitsDo
  <2>3. QED  BY <1>2, <2>1, <2>2, AnsweredAlways
<1>3. CASE Answer("XOR", en, ops, Test_EN(en, FALSE, {}, XOR(ops)))
  <2>1. "XOR" \in BitFunctions /\ "XOR" \notin Refusing
    BY DEF BitFunctions, Refusing
  <2>2. AnswersAll("XOR", ops, XOR(ops))
    BY <2>1, BitwiseAnswers, BitsDo
  <2>3. QED  BY <1>3, <2>1, <2>2, AnsweredAlways
<1>4. QED  BY <1>1, <1>2, <1>3

LEMMA BoolCalls == CallBool => FunctionInv'
<1> SUFFICES ASSUME NEW en \in Enables, NEW ops \in OneToThree(BOOLEAN), NEW n \in 0 .. 2,
                    \/ Answer("XOR_BOOL", en, ops, Test_EN(en, FALSE, FALSE, XOR_BOOL(ops)))
                    \/ Answer("SHL_BOOL", en, <<ops[1], n>>,
                              Test_EN(en, FALSE, FALSE, SHL_BOOL(ops[1], n)))
                    \/ Answer("SHR_BOOL", en, <<ops[1], n>>,
                              Test_EN(en, FALSE, FALSE, SHR_BOOL(ops[1], n)))
             PROVE  FunctionInv'
  <2>1. 0 \in 0 .. 2
    OBVIOUS
  <2>2. QED  BY <2>1 DEF CallBool
<1>1. ops[1] \in BOOLEAN
  BY Operands
<1>2. CASE Answer("XOR_BOOL", en, ops, Test_EN(en, FALSE, FALSE, XOR_BOOL(ops)))
  <2>1. "XOR_BOOL" \in BitFunctions /\ "XOR_BOOL" \notin Refusing
    BY DEF BitFunctions, Refusing
  <2>2. AnswersAll("XOR_BOOL", ops, XOR_BOOL(ops))
    BY <2>1, XorBoolAnswers, BitsDo
  <2>3. QED  BY <1>2, <2>1, <2>2, AnsweredAlways
<1>3. CASE Answer("SHL_BOOL", en, <<ops[1], n>>, Test_EN(en, FALSE, FALSE, SHL_BOOL(ops[1], n)))
  <2>1. "SHL_BOOL" \in BitFunctions /\ "SHL_BOOL" \notin Refusing
    BY DEF BitFunctions, Refusing
  <2>2. AnswersAll("SHL_BOOL", <<ops[1], n>>, SHL_BOOL(ops[1], n))
    BY <2>1, <1>1, ShiftedBoolAnswers, BitsDo
  <2>3. QED  BY <1>3, <2>1, <2>2, AnsweredAlways
<1>4. CASE Answer("SHR_BOOL", en, <<ops[1], n>>, Test_EN(en, FALSE, FALSE, SHR_BOOL(ops[1], n)))
  <2>1. "SHR_BOOL" \in BitFunctions /\ "SHR_BOOL" \notin Refusing
    BY DEF BitFunctions, Refusing
  <2>2. AnswersAll("SHR_BOOL", <<ops[1], n>>, SHR_BOOL(ops[1], n))
    BY <2>1, <1>1, ShiftedBoolAnswers, BitsDo
  <2>3. QED  BY <1>4, <2>1, <2>2, AnsweredAlways
<1>5. QED  BY <1>2, <1>3, <1>4

LEMMA SelectionCalls == CallSelection => FunctionInv'
<1> SUFFICES ASSUME CallSelection
             PROVE  FunctionInv'
  OBVIOUS
<1>7. PICK en \in Enables, kind \in Kinds : \E ops \in OneToThree(OfKind(kind)) :
                    \/ Answer("MAX", en, <<kind, ops>>, Test_EN(en, FALSE, INIT(kind), MAX(kind, ops)))
                    \/ Answer("MIN", en, <<kind, ops>>, Test_EN(en, FALSE, INIT(kind), MIN(kind, ops)))
                    \/ Len(ops) = 3 /\ Answer("LIMIT", en, <<kind, ops>>,
                                              Test_EN(en, FALSE, INIT(kind), LIMIT(kind, ops[1], ops[2], ops[3])))
                    \/ \E k \in -1 .. 3 :
                          Answer("MUX", en, <<k, ops, INIT(kind)>>,
                                 Test_EN(en, k >= Len(ops), INIT(kind), MUX(k, INIT(kind), ops)))
                    \/ Len(ops) = 2 /\ \E g \in BOOLEAN : Answer("SEL", en, <<g, ops>>,
                                                                 Test_EN(en, FALSE, INIT(kind), SEL(g, ops[1], ops[2])))
  BY Zenon DEF CallSelection
<1>8. PICK ops \in OneToThree(OfKind(kind)) :
                    \/ Answer("MAX", en, <<kind, ops>>, Test_EN(en, FALSE, INIT(kind), MAX(kind, ops)))
                    \/ Answer("MIN", en, <<kind, ops>>, Test_EN(en, FALSE, INIT(kind), MIN(kind, ops)))
                    \/ Len(ops) = 3 /\ Answer("LIMIT", en, <<kind, ops>>,
                                              Test_EN(en, FALSE, INIT(kind), LIMIT(kind, ops[1], ops[2], ops[3])))
                    \/ \E k \in -1 .. 3 :
                          Answer("MUX", en, <<k, ops, INIT(kind)>>,
                                 Test_EN(en, k >= Len(ops), INIT(kind), MUX(k, INIT(kind), ops)))
                    \/ Len(ops) = 2 /\ \E g \in BOOLEAN : Answer("SEL", en, <<g, ops>>,
                                                                 Test_EN(en, FALSE, INIT(kind), SEL(g, ops[1], ops[2])))
  BY <1>7, Zenon
<1>1. CASE Answer("MAX", en, <<kind, ops>>, Test_EN(en, FALSE, INIT(kind), MAX(kind, ops)))
  <2>1. "MAX" \in ChoiceFunctions /\ "MAX" \notin Refusing
    BY DEF ChoiceFunctions, Refusing
  <2>2. AnswersAll("MAX", <<kind, ops>>, MAX(kind, ops))
    BY <2>1, MaxAnswers, ChoicesDo
  <2>3. QED  BY <1>1, <2>1, <2>2, AnsweredAlways
<1>2. CASE Answer("MIN", en, <<kind, ops>>, Test_EN(en, FALSE, INIT(kind), MIN(kind, ops)))
  <2>1. "MIN" \in ChoiceFunctions /\ "MIN" \notin Refusing
    BY DEF ChoiceFunctions, Refusing
  <2>2. AnswersAll("MIN", <<kind, ops>>, MIN(kind, ops))
    BY <2>1, MinAnswers, ChoicesDo
  <2>3. QED  BY <1>2, <2>1, <2>2, AnsweredAlways
<1>3. CASE Len(ops) = 3 /\ Answer("LIMIT", en, <<kind, ops>>,
                                  Test_EN(en, FALSE, INIT(kind), LIMIT(kind, ops[1], ops[2], ops[3])))
  <2>1. "LIMIT" \in ChoiceFunctions /\ "LIMIT" \notin Refusing
    BY DEF ChoiceFunctions, Refusing
  <2>2. AnswersAll("LIMIT", <<kind, ops>>, LIMIT(kind, ops[1], ops[2], ops[3]))
    BY <2>1, <1>3, LimitAnswers, ChoicesDo
  <2>3. QED  BY <1>3, <2>1, <2>2, AnsweredAlways
<1>4. ASSUME NEW k \in -1 .. 3,
             Answer("MUX", en, <<k, ops, INIT(kind)>>,
                    Test_EN(en, k >= Len(ops), INIT(kind), MUX(k, INIT(kind), ops)))
      PROVE  FunctionInv'
  <2>1. "MUX" \in ChoiceFunctions
    BY DEF ChoiceFunctions
  <2>2. k >= Len(ops) <=> NoAnswer("MUX", <<k, ops, INIT(kind)>>)
    <3> DEFINE x == <<k, ops, INIT(kind)>>
    <3>1. x[1] = k /\ x[2] = ops
      OBVIOUS
    <3> HIDE DEF x
    <3>2. k >= Len(ops) <=> NoAnswer("MUX", x)
      BY <3>1 DEF NoAnswer
    <3>3. QED  BY <3>2 DEF x
  <2>3. AnswersAll("MUX", <<k, ops, INIT(kind)>>, MUX(k, INIT(kind), ops))
    BY <2>1, MuxAnswers, ChoicesDo
  <2> DEFINE past == k >= Len(ops)
             x == <<k, ops, INIT(kind)>>
             y == MUX(k, INIT(kind), ops)
  <2>4. /\ past <=> NoAnswer("MUX", x)
        /\ AnswersAll("MUX", x, y)
        /\ Answer("MUX", en, x, Test_EN(en, past, INIT(kind), y))
    BY <1>4, <2>2, <2>3
  <2> HIDE DEF past, x, y
  <2>5. QED  BY <2>4, AnsweredWell
<1>5. ASSUME NEW g \in BOOLEAN,
             Answer("SEL", en, <<g, ops>>, Test_EN(en, FALSE, INIT(kind), SEL(g, ops[1], ops[2])))
      PROVE  FunctionInv'
  <2>1. "SEL" \in ChoiceFunctions /\ "SEL" \notin Refusing
    BY DEF ChoiceFunctions, Refusing
  <2>2. AnswersAll("SEL", <<g, ops>>, SEL(g, ops[1], ops[2]))
    BY <2>1, SelAnswers, ChoicesDo
  <2>3. QED  BY <1>5, <2>1, <2>2, AnsweredAlways
<1>6. QED  BY <1>1, <1>2, <1>3, <1>4, <1>5, <1>8, Zenon

LEMMA ComparisonCalls == CallComparison => FunctionInv'
<1> SUFFICES ASSUME NEW en \in Enables, NEW kind \in Kinds, NEW ops \in OneToThree(OfKind(kind)),
                    \/ Answer("GT", en, <<kind, ops>>, Test_EN(en, FALSE, FALSE, GT(kind, ops)))
                    \/ Answer("GE", en, <<kind, ops>>, Test_EN(en, FALSE, FALSE, GE(kind, ops)))
                    \/ Answer("EQ", en, <<kind, ops>>, Test_EN(en, FALSE, FALSE, EQ(kind, ops)))
                    \/ Answer("LT", en, <<kind, ops>>, Test_EN(en, FALSE, FALSE, LT(kind, ops)))
                    \/ Answer("LE", en, <<kind, ops>>, Test_EN(en, FALSE, FALSE, LE(kind, ops)))
                    \/ Len(ops) = 2 /\ Answer("NE", en, <<kind, ops>>,
                                              Test_EN(en, FALSE, FALSE, NE(kind, ops[1], ops[2])))
             PROVE  FunctionInv'
  BY DEF CallComparison
<1>1. CASE Answer("GT", en, <<kind, ops>>, Test_EN(en, FALSE, FALSE, GT(kind, ops)))
  <2>1. "GT" \in ChoiceFunctions /\ "GT" \notin Refusing
    BY DEF ChoiceFunctions, Refusing
  <2>2. AnswersAll("GT", <<kind, ops>>, GT(kind, ops))
    BY <2>1, ComparisonsAnswer, ChoicesDo
  <2>3. QED  BY <1>1, <2>1, <2>2, AnsweredAlways
<1>2. CASE Answer("GE", en, <<kind, ops>>, Test_EN(en, FALSE, FALSE, GE(kind, ops)))
  <2>1. "GE" \in ChoiceFunctions /\ "GE" \notin Refusing
    BY DEF ChoiceFunctions, Refusing
  <2>2. AnswersAll("GE", <<kind, ops>>, GE(kind, ops))
    BY <2>1, ComparisonsAnswer, ChoicesDo
  <2>3. QED  BY <1>2, <2>1, <2>2, AnsweredAlways
<1>3. CASE Answer("EQ", en, <<kind, ops>>, Test_EN(en, FALSE, FALSE, EQ(kind, ops)))
  <2>1. "EQ" \in ChoiceFunctions /\ "EQ" \notin Refusing
    BY DEF ChoiceFunctions, Refusing
  <2>2. AnswersAll("EQ", <<kind, ops>>, EQ(kind, ops))
    BY <2>1, ComparisonsAnswer, ChoicesDo
  <2>3. QED  BY <1>3, <2>1, <2>2, AnsweredAlways
<1>4. CASE Answer("LT", en, <<kind, ops>>, Test_EN(en, FALSE, FALSE, LT(kind, ops)))
  <2>1. "LT" \in ChoiceFunctions /\ "LT" \notin Refusing
    BY DEF ChoiceFunctions, Refusing
  <2>2. AnswersAll("LT", <<kind, ops>>, LT(kind, ops))
    BY <2>1, ComparisonsAnswer, ChoicesDo
  <2>3. QED  BY <1>4, <2>1, <2>2, AnsweredAlways
<1>5. CASE Answer("LE", en, <<kind, ops>>, Test_EN(en, FALSE, FALSE, LE(kind, ops)))
  <2>1. "LE" \in ChoiceFunctions /\ "LE" \notin Refusing
    BY DEF ChoiceFunctions, Refusing
  <2>2. AnswersAll("LE", <<kind, ops>>, LE(kind, ops))
    BY <2>1, ComparisonsAnswer, ChoicesDo
  <2>3. QED  BY <1>5, <2>1, <2>2, AnsweredAlways
<1>6. CASE Len(ops) = 2 /\ Answer("NE", en, <<kind, ops>>,
                                  Test_EN(en, FALSE, FALSE, NE(kind, ops[1], ops[2])))
  <2>1. "NE" \in ChoiceFunctions /\ "NE" \notin Refusing
    BY DEF ChoiceFunctions, Refusing
  <2>2. AnswersAll("NE", <<kind, ops>>, NE(kind, ops[1], ops[2]))
    BY <2>1, <1>6, NeAnswers, ChoicesDo
  <2>3. QED  BY <1>6, <2>1, <2>2, AnsweredAlways
<1>7. QED  BY <1>1, <1>2, <1>3, <1>4, <1>5, <1>6

LEMMA TimeCalls == CallTime => FunctionInv'
<1> SUFFICES ASSUME NEW en \in Enables, NEW a \in Moments, NEW b \in Moments,
                    \/ Answer("ADD_TIME", en, <<a, b>>, Test_EN(en, FALSE, Zero, time_add(a, b)))
                    \/ Answer("SUB_TIME", en, <<a, b>>, Test_EN(en, FALSE, Zero, time_sub(a, b)))
                    \/ Answer("CONCAT_DATE_TOD", en, <<Time(a.sec - (a.sec % Day), 0), Time(b.sec % Day, 0)>>,
                              Test_EN(en, FALSE, Zero,
                                      time_add(Time(a.sec - (a.sec % Day), 0), Time(b.sec % Day, 0))))
                    \/ Answer("DT_TO_TOD", en, <<a>>,
                              Test_EN(en, FALSE, Zero, date_and_time_to_time_of_day(a)))
                    \/ Answer("DT_TO_DATE", en, <<a>>,
                              Test_EN(en, FALSE, Zero, date_and_time_to_date(a)))
             PROVE  FunctionInv'
  BY DEF CallTime
<1>1. CASE Answer("ADD_TIME", en, <<a, b>>, Test_EN(en, FALSE, Zero, time_add(a, b)))
  <2>1. "ADD_TIME" \in TimeFunctions /\ "ADD_TIME" \notin Refusing
    BY DEF TimeFunctions, Refusing
  <2>2. AnswersAll("ADD_TIME", <<a, b>>, time_add(a, b))
    BY <2>1, SumsOfTimes, TimesDo
  <2>3. QED  BY <1>1, <2>1, <2>2, AnsweredAlways
<1>2. CASE Answer("SUB_TIME", en, <<a, b>>, Test_EN(en, FALSE, Zero, time_sub(a, b)))
  <2>1. "SUB_TIME" \in TimeFunctions /\ "SUB_TIME" \notin Refusing
    BY DEF TimeFunctions, Refusing
  <2>2. AnswersAll("SUB_TIME", <<a, b>>, time_sub(a, b))
    BY <2>1, SumsOfTimes, TimesDo
  <2>3. QED  BY <1>2, <2>1, <2>2, AnsweredAlways
<1>3. CASE Answer("CONCAT_DATE_TOD", en, <<Time(a.sec - (a.sec % Day), 0), Time(b.sec % Day, 0)>>,
                  Test_EN(en, FALSE, Zero,
                          time_add(Time(a.sec - (a.sec % Day), 0), Time(b.sec % Day, 0))))
  <2>1. "CONCAT_DATE_TOD" \in TimeFunctions /\ "CONCAT_DATE_TOD" \notin Refusing
    BY DEF TimeFunctions, Refusing
  <2>2. AnswersAll("CONCAT_DATE_TOD", <<Time(a.sec - (a.sec % Day), 0), Time(b.sec % Day, 0)>>,
                   time_add(Time(a.sec - (a.sec % Day), 0), Time(b.sec % Day, 0)))
    BY <2>1, DatesAnswer, TimesDo
  <2>3. QED  BY <1>3, <2>1, <2>2, AnsweredAlways
<1>4. CASE Answer("DT_TO_TOD", en, <<a>>, Test_EN(en, FALSE, Zero, date_and_time_to_time_of_day(a)))
  <2>1. "DT_TO_TOD" \in TimeFunctions /\ "DT_TO_TOD" \notin Refusing
    BY DEF TimeFunctions, Refusing
  <2>2. AnswersAll("DT_TO_TOD", <<a>>, date_and_time_to_time_of_day(a))
    BY <2>1, DaysAnswer, TimesDo
  <2>3. QED  BY <1>4, <2>1, <2>2, AnsweredAlways
<1>5. CASE Answer("DT_TO_DATE", en, <<a>>, Test_EN(en, FALSE, Zero, date_and_time_to_date(a)))
  <2>1. "DT_TO_DATE" \in TimeFunctions /\ "DT_TO_DATE" \notin Refusing
    BY DEF TimeFunctions, Refusing
  <2>2. AnswersAll("DT_TO_DATE", <<a>>, date_and_time_to_date(a))
    BY <2>1, DaysAnswer, TimesDo
  <2>3. QED  BY <1>5, <2>1, <2>2, AnsweredAlways
<1>6. QED  BY <1>1, <1>2, <1>3, <1>4, <1>5

LEMMA TimeRealCalls == CallTimeReal => FunctionInv'
<1> SUFFICES ASSUME NEW en \in Enables, NEW a \in Moments, NEW q \in {1, 2, 4, 5, 8}, GE_TIME(a, Zero),
                    \/ Answer("MULTIME", en, <<a, q>>, Test_EN(en, FALSE, Zero, time_mul(a, q)))
                    \/ Answer("DIVTIME", en, <<a, q>>, Test_EN(en, FALSE, Zero, time_div(a, q)))
             PROVE  FunctionInv'
  BY DEF CallTimeReal
<1>1. CASE Answer("MULTIME", en, <<a, q>>, Test_EN(en, FALSE, Zero, time_mul(a, q)))
  <2>1. "MULTIME" \in TimeFunctions /\ "MULTIME" \notin Refusing
    BY DEF TimeFunctions, Refusing
  <2>2. AnswersAll("MULTIME", <<a, q>>, time_mul(a, q))
    BY <2>1, MultimeAnswers, TimesDo
  <2>3. QED  BY <1>1, <2>1, <2>2, AnsweredAlways
<1>2. CASE Answer("DIVTIME", en, <<a, q>>, Test_EN(en, FALSE, Zero, time_div(a, q)))
  <2>1. "DIVTIME" \in TimeFunctions /\ "DIVTIME" \notin Refusing
    BY DEF TimeFunctions, Refusing
  <2>2. AnswersAll("DIVTIME", <<a, q>>, time_div(a, q))
    BY <2>1, DivtimeAnswers, TimesDo
  <2>3. QED  BY <1>2, <2>1, <2>2, AnsweredAlways
<1>3. QED  BY <1>1, <1>2

LEMMA ConversionCalls == CallConversion => FunctionInv'
<1> SUFFICES ASSUME NEW en \in Enables, NEW t \in Types, NEW to \in Types, NEW n \in IntValues(t),
                    \/ Answer("TO_BOOL", en, <<n>>, Test_EN(en, FALSE, FALSE, num_to_bool(n)))
                    \/ Answer("TO_INT", en, <<n, to>>, Test_EN(en, FALSE, 0, move(to, n)))
                    \/ Answer("TO_BIT", en, <<n>>, Test_EN(en, FALSE, {}, BitsOf(n)))
                    \/ Answer("BIT_TO", en, <<BitsOf(n), to>>,
                              Test_EN(en, FALSE, 0, move(to, ValueOf(BitsOf(n)))))
                    \/ Answer("INT_TO_TIME", en, <<n>>, Test_EN(en, FALSE, Zero, int_to_time(n)))
             PROVE  FunctionInv'
  BY DEF CallConversion
<1>1. CASE Answer("TO_BOOL", en, <<n>>, Test_EN(en, FALSE, FALSE, num_to_bool(n)))
  <2>1. "TO_BOOL" \in Conversions /\ "TO_BOOL" \notin Refusing
    BY DEF Conversions, Refusing
  <2>2. AnswersAll("TO_BOOL", <<n>>, num_to_bool(n))
    BY <2>1, NumberConversions, ConversionsDo
  <2>3. QED  BY <1>1, <2>1, <2>2, AnsweredAlways
<1>2. CASE Answer("TO_INT", en, <<n, to>>, Test_EN(en, FALSE, 0, move(to, n)))
  <2>1. "TO_INT" \in Conversions /\ "TO_INT" \notin Refusing
    BY DEF Conversions, Refusing
  <2>2. AnswersAll("TO_INT", <<n, to>>, move(to, n))
    BY <2>1, NumberConversions, ConversionsDo
  <2>3. QED  BY <1>2, <2>1, <2>2, AnsweredAlways
<1>3. CASE Answer("TO_BIT", en, <<n>>, Test_EN(en, FALSE, {}, BitsOf(n)))
  <2>1. "TO_BIT" \in OnlyChecked
    BY DEF OnlyChecked
  <2>2. QED  BY <1>3, <2>1, NotInQuestion
<1>4. CASE Answer("BIT_TO", en, <<BitsOf(n), to>>, Test_EN(en, FALSE, 0, move(to, ValueOf(BitsOf(n)))))
  <2>1. "BIT_TO" \in OnlyChecked
    BY DEF OnlyChecked
  <2>2. QED  BY <1>4, <2>1, NotInQuestion
<1>5. CASE Answer("INT_TO_TIME", en, <<n>>, Test_EN(en, FALSE, Zero, int_to_time(n)))
  <2>1. "INT_TO_TIME" \in Conversions /\ "INT_TO_TIME" \notin Refusing
    BY DEF Conversions, Refusing
  <2>2. AnswersAll("INT_TO_TIME", <<n>>, int_to_time(n))
    BY <2>1, NumberConversions, ConversionsDo
  <2>3. QED  BY <1>5, <2>1, <2>2, AnsweredAlways
<1>6. QED  BY <1>1, <1>2, <1>3, <1>4, <1>5

LEMMA RealCalls == CallReal => FunctionInv'
<1> SUFFICES ASSUME NEW en \in Enables, NEW x \in Quarters,
                    \/ Answer("REAL_TO_INT", en, <<x>>,
                              Test_EN(en, FALSE, 0, move("INT", real_to_sint(x))))
                    \/ Answer("REAL_TO_UINT", en, <<x>>,
                              Test_EN(en, FALSE, 0, move("UINT", real_to_uint(x))))
                    \/ Answer("TRUNC", en, <<x>>, Test_EN(en, FALSE, 0, TRUNC(x)))
                    \/ Answer("REAL_TO_TIME", en, <<x>>, Test_EN(en, FALSE, Zero, real_to_time(x)))
             PROVE  FunctionInv'
  BY DEF CallReal
<1>1. CASE Answer("REAL_TO_INT", en, <<x>>, Test_EN(en, FALSE, 0, move("INT", real_to_sint(x))))
  <2>1. "REAL_TO_INT" \in Conversions /\ "REAL_TO_INT" \notin Refusing
    BY DEF Conversions, Refusing
  <2>2. AnswersAll("REAL_TO_INT", <<x>>, move("INT", real_to_sint(x)))
    BY <2>1, RealsToNumbers, ConversionsDo
  <2>3. QED  BY <1>1, <2>1, <2>2, AnsweredAlways
<1>2. CASE Answer("REAL_TO_UINT", en, <<x>>, Test_EN(en, FALSE, 0, move("UINT", real_to_uint(x))))
  <2>1. "REAL_TO_UINT" \in Conversions /\ "REAL_TO_UINT" \notin Refusing
    BY DEF Conversions, Refusing
  <2>2. AnswersAll("REAL_TO_UINT", <<x>>, move("UINT", real_to_uint(x)))
    BY <2>1, RealsToNumbers, ConversionsDo
  <2>3. QED  BY <1>2, <2>1, <2>2, AnsweredAlways
<1>3. CASE Answer("TRUNC", en, <<x>>, Test_EN(en, FALSE, 0, TRUNC(x)))
  <2>1. "TRUNC" \in Conversions /\ "TRUNC" \notin Refusing
    BY DEF Conversions, Refusing
  <2>2. AnswersAll("TRUNC", <<x>>, TRUNC(x))
    BY <2>1, TruncAnswers, ConversionsDo
  <2>3. QED  BY <1>3, <2>1, <2>2, AnsweredAlways
<1>4. CASE Answer("REAL_TO_TIME", en, <<x>>, Test_EN(en, FALSE, Zero, real_to_time(x)))
  <2>1. "REAL_TO_TIME" \in Conversions /\ "REAL_TO_TIME" \notin Refusing
    BY DEF Conversions, Refusing
  <2>2. AnswersAll("REAL_TO_TIME", <<x>>, real_to_time(x))
    BY <2>1, RealToTimeAnswers, ConversionsDo
  <2>3. QED  BY <1>4, <2>1, <2>2, AnsweredAlways
<1>5. QED  BY <1>1, <1>2, <1>3, <1>4

LEMMA TimeConversionCalls == CallTimeConversion => FunctionInv'
<1> SUFFICES ASSUME NEW en \in Enables, NEW a \in Moments,
                    \/ Answer("TIME_TO_BOOL", en, <<a>>, Test_EN(en, FALSE, FALSE, time_to_bool(a)))
                    \/ Answer("TIME_TO_INT", en, <<a>>, Test_EN(en, FALSE, 0, time_to_int(a)))
             PROVE  FunctionInv'
  BY DEF CallTimeConversion
<1>1. CASE Answer("TIME_TO_BOOL", en, <<a>>, Test_EN(en, FALSE, FALSE, time_to_bool(a)))
  <2>1. "TIME_TO_BOOL" \in TimeFunctions /\ "TIME_TO_BOOL" \notin Refusing
    BY DEF TimeFunctions, Refusing
  <2>2. AnswersAll("TIME_TO_BOOL", <<a>>, time_to_bool(a))
    BY <2>1, TimeConversions, TimesDo
  <2>3. QED  BY <1>1, <2>1, <2>2, AnsweredAlways
<1>2. CASE Answer("TIME_TO_INT", en, <<a>>, Test_EN(en, FALSE, 0, time_to_int(a)))
  <2>1. "TIME_TO_INT" \in TimeFunctions /\ "TIME_TO_INT" \notin Refusing
    BY DEF TimeFunctions, Refusing
  <2>2. AnswersAll("TIME_TO_INT", <<a>>, time_to_int(a))
    BY <2>1, TimeConversions, TimesDo
  <2>3. QED  BY <1>2, <2>1, <2>2, AnsweredAlways
<1>3. QED  BY <1>1, <1>2

LEMMA BcdCalls == CallBcd => FunctionInv'
<1> SUFFICES ASSUME NEW en \in Enables, NEW n \in 0 .. 255,
                    \/ Answer("TO_BCD", en, <<n>>, Test_EN(en, FALSE, 0, uint_to_bcd(n) % 256))
                    \/ Answer("BCD_TO", en, <<n>>, Test_EN(en, test_bcd(n), 0, bcd_to_uint(n)))
             PROVE  FunctionInv'
  BY DEF CallBcd
<1>1. CASE Answer("TO_BCD", en, <<n>>, Test_EN(en, FALSE, 0, uint_to_bcd(n) % 256))
  <2>1. "TO_BCD" \in OnlyChecked
    BY DEF OnlyChecked
  <2>2. QED  BY <1>1, <2>1, NotInQuestion
<1>2. CASE Answer("BCD_TO", en, <<n>>, Test_EN(en, test_bcd(n), 0, bcd_to_uint(n)))
  <2>1. "BCD_TO" \in OnlyChecked
    BY DEF OnlyChecked
  <2>2. QED  BY <1>2, <2>1, NotInQuestion
<1>3. QED  BY <1>1, <1>2

LEMMA StringCalls == CallString => FunctionInv'
<1> SUFFICES ASSUME NEW en \in Enables, NEW in \in Texts, NEW l \in Lengths, Defined(l),
                    \/ Answer("LEN", en, <<in>>, Test_EN(en, FALSE, 0, LEN(in)))
                    \/ Answer("LEFT", en, <<in, l>>, Test_EN(en, Refused(l), <<>>, LEFT(in, l)))
                    \/ Answer("RIGHT", en, <<in, l>>, Test_EN(en, Refused(l), <<>>, RIGHT(in, l)))
                    \/ \E p \in Places :
                          /\ Defined(p)
                          /\ \/ Answer("MID", en, <<in, l, p>>,
                                       Test_EN(en, Refused(l) \/ Refused(p), <<>>, MID(in, l, p)))
                             \/ Answer("DELETE", en, <<in, l, p>>,
                                       Test_EN(en, Refused(l) \/ Refused(p), <<>>, DELETE(in, l, p)))
             PROVE  FunctionInv'
  BY Zenon DEF CallString
<1>1. l \in Int /\ Places \subseteq Int /\ 0 \in Int
  BY TextTypes DEF Lengths, Places
<1>2. ASSUME Answer("LEFT", en, <<in, l>>, Test_EN(en, Refused(l), <<>>, LEFT(in, l)))
      PROVE  FunctionInv'
  <2> DEFINE past == Refused(l)
             x == <<in, l>>
             y == LEFT(in, l)
  <2>1. past <=> NoAnswer("LEFT", x)
    BY <1>1, <1>2, RefusalOf DEF Refused
  <2>2. ASSUME ~(en_eno /\ past)
        PROVE  AnswersAll("LEFT", x, y)
    <3>1. l \in Nat
      BY <1>1, <1>2, <2>2 DEF Refused, Defined
    <3>2. StringsAnswer("LEFT", x, y)
      BY <3>1, LeftAnswers
    <3> HIDE DEF x, y
    <3>3. QED  BY <3>2, StringsDo DEF StringFunctions
  <2>3. Answer("LEFT", en, x, Test_EN(en, past, <<>>, y))
    BY <1>2
  <2> HIDE DEF past, x, y
  <2>4. QED  BY <2>1, <2>2, <2>3, AnsweredWell
<1>3. ASSUME Answer("RIGHT", en, <<in, l>>, Test_EN(en, Refused(l), <<>>, RIGHT(in, l)))
      PROVE  FunctionInv'
  <2> DEFINE past == Refused(l)
             x == <<in, l>>
             y == RIGHT(in, l)
  <2>1. past <=> NoAnswer("RIGHT", x)
    BY <1>1, <1>3, RefusalOf DEF Refused
  <2>2. ASSUME ~(en_eno /\ past)
        PROVE  AnswersAll("RIGHT", x, y)
    <3>1. l \in Nat
      BY <1>1, <1>3, <2>2 DEF Refused, Defined
    <3>2. StringsAnswer("RIGHT", x, y)
      BY <3>1, RightAnswers
    <3> HIDE DEF x, y
    <3>3. QED  BY <3>2, StringsDo DEF StringFunctions
  <2>3. Answer("RIGHT", en, x, Test_EN(en, past, <<>>, y))
    BY <1>3
  <2> HIDE DEF past, x, y
  <2>4. QED  BY <2>1, <2>2, <2>3, AnsweredWell
<1>4. ASSUME NEW p \in Places, Defined(p),
             Answer("MID", en, <<in, l, p>>, Test_EN(en, Refused(l) \/ Refused(p), <<>>, MID(in, l, p)))
      PROVE  FunctionInv'
  <2> DEFINE past == Refused(l) \/ Refused(p)
             x == <<in, l, p>>
             y == MID(in, l, p)
  <2>1. past <=> NoAnswer("MID", x)
    BY <1>1, <1>4, RefusalOf DEF Refused
  <2>2. ASSUME ~(en_eno /\ past)
        PROVE  AnswersAll("MID", x, y)
    <3>1. l \in Nat /\ p \in Nat \ {0}
      BY <1>1, <1>4, <2>2, TextTypes DEF Refused, Defined, Places
    <3>2. StringsAnswer("MID", x, y)
      BY <3>1, MidAnswers
    <3> HIDE DEF x, y
    <3>3. QED  BY <3>2, StringsDo DEF StringFunctions
  <2>3. Answer("MID", en, x, Test_EN(en, past, <<>>, y))
    BY <1>4
  <2> HIDE DEF past, x, y
  <2>4. QED  BY <2>1, <2>2, <2>3, AnsweredWell
<1>5. ASSUME NEW p \in Places, Defined(p),
             Answer("DELETE", en, <<in, l, p>>,
                    Test_EN(en, Refused(l) \/ Refused(p), <<>>, DELETE(in, l, p)))
      PROVE  FunctionInv'
  <2> DEFINE past == Refused(l) \/ Refused(p)
             x == <<in, l, p>>
             y == DELETE(in, l, p)
  <2>1. past <=> NoAnswer("DELETE", x)
    BY <1>1, <1>5, RefusalOf DEF Refused
  <2>2. ASSUME ~(en_eno /\ past)
        PROVE  AnswersAll("DELETE", x, y)
    <3>1. l \in Nat /\ p \in 1 .. STR_MAX_LEN + 1
      BY <1>1, <1>5, <2>2, TextTypes DEF Refused, Defined, Places
    <3>2. StringsAnswer("DELETE", x, y)
      BY <3>1, DeleteAnswers
    <3> HIDE DEF x, y
    <3>3. QED  BY <3>2, StringsDo DEF StringFunctions
  <2>3. Answer("DELETE", en, x, Test_EN(en, past, <<>>, y))
    BY <1>5
  <2> HIDE DEF past, x, y
  <2>4. QED  BY <2>1, <2>2, <2>3, AnsweredWell
<1>6. CASE Answer("LEN", en, <<in>>, Test_EN(en, FALSE, 0, LEN(in)))
  <2>1. "LEN" \in StringFunctions /\ "LEN" \notin Refusing
    BY DEF StringFunctions, Refusing
  <2>2. AnswersAll("LEN", <<in>>, LEN(in))
    BY <2>1, LenAnswers, StringsDo
  <2>3. QED  BY <1>6, <2>1, <2>2, AnsweredAlways
<1>7. QED  BY <1>2, <1>3, <1>4, <1>5, <1>6

LEMMA StringsCalls == CallStrings => FunctionInv'
<1> SUFFICES ASSUME NEW en \in Enables, NEW in1 \in Texts, NEW in2 \in Texts,
                    \/ Answer("FIND", en, <<in1, in2>>, Test_EN(en, FALSE, 0, FIND(in1, in2)))
                    \/ \E p \in Lengths : /\ Defined(p)
                                          /\ Answer("INSERT", en, <<in1, in2, p>>,
                                                    Test_EN(en, Refused(p), <<>>, INSERT(in1, in2, p)))
                    \/ \E l \in -1 .. STR_MAX_LEN, p \in Places :
                          /\ Defined(l) /\ Defined(p)
                          /\ Answer("REPLACE", en, <<in1, in2, l, p>>,
                                    Test_EN(en, Refused(l) \/ Refused(p), <<>>, REPLACE(in1, in2, l, p)))
             PROVE  FunctionInv'
  BY Zenon DEF CallStrings
<1>1. /\ Lengths \subseteq Int /\ Places \subseteq Int /\ 0 \in Int
      /\ \A l \in -1 .. STR_MAX_LEN : l \in Int
  BY TextTypes DEF Lengths, Places
<1>2. CASE Answer("FIND", en, <<in1, in2>>, Test_EN(en, FALSE, 0, FIND(in1, in2)))
  <2>1. "FIND" \in OnlyChecked
    BY DEF OnlyChecked
  <2>2. QED  BY <1>2, <2>1, NotInQuestion
<1>3. ASSUME NEW p \in Lengths, Defined(p),
             Answer("INSERT", en, <<in1, in2, p>>, Test_EN(en, Refused(p), <<>>, INSERT(in1, in2, p)))
      PROVE  FunctionInv'
  <2> DEFINE past == Refused(p)
             x == <<in1, in2, p>>
             y == INSERT(in1, in2, p)
  <2>1. past <=> NoAnswer("INSERT", x)
    BY <1>1, <1>3, RefusalOf, ZenonT(60) DEF Refused
  <2>2. ASSUME ~(en_eno /\ past)
        PROVE  AnswersAll("INSERT", x, y)
    <3>1. p \in Nat
      BY <1>1, <1>3, <2>2 DEF Refused, Defined
    <3>2. StringsAnswer("INSERT", x, y)
      BY <3>1, InsertAnswers
    <3> HIDE DEF x, y
    <3>3. QED  BY <3>2, StringsDo DEF StringFunctions
  <2>3. Answer("INSERT", en, x, Test_EN(en, past, <<>>, y))
    BY <1>3
  <2> HIDE DEF past, x, y
  <2>4. QED  BY <2>1, <2>2, <2>3, AnsweredWell
<1>4. ASSUME NEW l \in -1 .. STR_MAX_LEN, NEW p \in Places, Defined(l), Defined(p),
             Answer("REPLACE", en, <<in1, in2, l, p>>,
                    Test_EN(en, Refused(l) \/ Refused(p), <<>>, REPLACE(in1, in2, l, p)))
      PROVE  FunctionInv'
  <2> DEFINE past == Refused(l) \/ Refused(p)
             x == <<in1, in2, l, p>>
             y == REPLACE(in1, in2, l, p)
  <2>1. past <=> NoAnswer("REPLACE", x)
    BY <1>1, <1>4, RefusalOf, ZenonT(60) DEF Refused
  <2>2. ASSUME ~(en_eno /\ past)
        PROVE  AnswersAll("REPLACE", x, y)
    <3>1. l \in 0 .. STR_MAX_LEN /\ p \in 1 .. STR_MAX_LEN + 1
      BY <1>1, <1>4, <2>2, TextTypes DEF Refused, Defined, Places
    <3>2. StringsAnswer("REPLACE", x, y)
      BY <3>1, ReplaceAnswers
    <3> HIDE DEF x, y
    <3>3. QED  BY <3>2, StringsDo DEF StringFunctions
  <2>3. Answer("REPLACE", en, x, Test_EN(en, past, <<>>, y))
    BY <1>4
  <2> HIDE DEF past, x, y
  <2>4. QED  BY <2>1, <2>2, <2>3, AnsweredWell
<1>5. QED  BY <1>2, <1>3, <1>4

LEMMA ConcatCalls == CallConcat => FunctionInv'
<1> SUFFICES ASSUME NEW en \in Enables, NEW ins \in OneToThree(Texts),
                    Answer("CONCAT", en, ins, Test_EN(en, FALSE, <<>>, CONCAT(ins)))
             PROVE  FunctionInv'
  BY DEF CallConcat
<1>1. "CONCAT" \in StringFunctions /\ "CONCAT" \notin Refusing
  BY DEF StringFunctions, Refusing
<1>2. AnswersAll("CONCAT", ins, CONCAT(ins))
  BY <1>1, ConcatAnswers, StringsDo
<1>3. QED  BY <1>1, <1>2, AnsweredAlways

LEMMA FromStringCalls == CallFromString => FunctionInv'
<1>1. CallFromString => \E fn \in OnlyChecked : \E en, x, r : Answer(fn, en, x, r)
  <2>1. {"STRING_TO_INT", "STRING_TO_REAL", "STRING_TO_TIME", "STRING_TO_BOOL"} \subseteq OnlyChecked
    BY DEF OnlyChecked
  <2> DEFINE Asks(fn) == \E en, x, r : Answer(fn, en, x, r)
  <2>2. CallFromString => \/ Asks("STRING_TO_INT") \/ Asks("STRING_TO_REAL")
                          \/ Asks("STRING_TO_TIME") \/ Asks("STRING_TO_BOOL")
    BY Zenon DEF CallFromString
  <2> HIDE DEF Asks
  <2>3. CallFromString => \E fn \in OnlyChecked : Asks(fn)
    BY <2>1, <2>2
  <2>4. QED  BY <2>3 DEF Asks
<1>2. QED  BY <1>1, NotInQuestion

LEMMA FunctionsStep == FunctionInv /\ [Next]_vars => FunctionInv'
<1> SUFFICES ASSUME FunctionInv, [Next]_vars
             PROVE  FunctionInv'
  OBVIOUS
<1>1. CASE UNCHANGED functions
  BY <1>1 DEF functions, FunctionInv, FunctionsMeetStandard
<1>2. CASE FunctionNext
  BY <1>2, NumericCalls, SumCalls, ShiftCalls, BitCalls, BoolCalls, SelectionCalls, ComparisonCalls, TimeCalls,
     TimeRealCalls, ConversionCalls, RealCalls, TimeConversionCalls, BcdCalls, StringCalls, StringsCalls,
     ConcatCalls, FromStringCalls, Zenon DEF FunctionNext
<1>3. FunctionNext \/ UNCHANGED functions
  <2>1. CASE Next
    BY <2>1, Zenon DEF Next, BlockCall, FunctionCall, TaskStep
  <2>2. CASE UNCHANGED vars
    BY <2>2, Zenon DEF vars
  <2>3. QED  BY <2>1, <2>2
<1>4. QED  BY <1>1, <1>2, <1>3

(* Of the 61 functions of the C library that are modelled, 49 answer what  *)
(* the standard says, for every width of the integers and bit strings,     *)
(* every limit of STRINGs and all STRINGs and instants, and ENO is off for *)
(* the calls with EN off and those without an answer alone.                *)
THEOREM FunctionsAlwaysMeetStandard ==
    Spec => [](called # <<>> /\ called.fn \notin OnlyChecked => FunctionsMeetStandard)
<1>1. Init => FunctionInv
  BY DEF Init, FunctionInit, FunctionInv
<1>2. FunctionInv => (called # <<>> /\ called.fn \notin OnlyChecked => FunctionsMeetStandard)
  BY DEF FunctionInv
<1>3. QED  BY <1>1, <1>2, FunctionsStep, PTL DEF Spec
=============================================================================
