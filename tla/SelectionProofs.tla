--------------------------- MODULE SelectionProofs ---------------------------
(***************************************************************************)
(* Facts about the operators of the models: induction over the natural     *)
(* numbers in terms of sets, recursive functions, and selections from      *)
(* sequences.                                                              *)
(***************************************************************************)
EXTENDS Selection, FiniteSetTheorems, WellFoundedInduction, NaturalsInduction, TLAPS

\* A set of natural numbers that is not empty has a least element.
LEMMA LeastNatural ==
    ASSUME NEW S \in SUBSET Nat, S # {}
    PROVE  \E a \in S : \A b \in S : a <= b
<1>. DEFINE R == OpToRel(<, Nat)
<1>1. IsWellFoundedOn(R, Nat)
  BY NatLessThanWellFounded
<1>2. \A a, b \in Nat : <<a, b>> \in R <=> a < b
  BY DEF OpToRel
<1>. HIDE DEF R
<1>3. PICK a \in S : \A b \in S : ~(<<b, a>> \in R)
  BY <1>1, WFMin
<1>4. ASSUME NEW b \in S PROVE a <= b
  <2>1. a \in Nat /\ b \in Nat
    OBVIOUS
  <2>2. ~(b < a)
    BY <1>2, <1>3, <2>1
  <2>. QED
    BY <2>1, <2>2
<1>. QED
  BY <1>4

\* Induction: a set of natural numbers with 0 and the successor of each of its elements
\* up to n has all numbers up to n.
LEMMA Induction ==
    ASSUME NEW n \in Nat, NEW S, 0 \in S, \A k \in 0..n : k \in S /\ k < n => k + 1 \in S
    PROVE  \A k \in 0..n : k \in S
<1>. DEFINE Bad == {k \in 0..n : k \notin S}
<1>. SUFFICES ASSUME Bad # {} PROVE FALSE
  OBVIOUS
<1>1. Bad \in SUBSET Nat
  OBVIOUS
<1>2. PICK a \in Bad : \A b \in Bad : a <= b
  <2>. HIDE DEF Bad
  <2>. QED
    BY <1>1, LeastNatural
<1>3. a # 0 /\ a - 1 \in 0..n /\ a - 1 < n
  BY <1>2
<1>4. a - 1 \in S
  BY <1>2, <1>3
<1>. QED
  BY <1>2, <1>3, <1>4

\* f starts with x, and each further value comes from the one before it by h.
Recurses(f, n, x, h) == f[0] = x /\ \A i \in 1..n : f[i] = h[<<f[i - 1], i>>]

\* A function is defined by its first value and by what follows each value.
LEMMA Recursion ==
    ASSUME NEW X, NEW n \in Nat, NEW x \in X, NEW h \in [X \X (1..n) -> X]
    PROVE  \E f \in [0..n -> X] : Recurses(f, n, x, h)
<1>. DEFINE S == {k \in 0..n : \E f \in [0..k -> X] : Recurses(f, k, x, h)}
<1>1. 0 \in S
  <2>. DEFINE f == [i \in 0..0 |-> x]
  <2>1. f \in [0..0 -> X] /\ Recurses(f, 0, x, h)
    BY DEF Recurses
  <2>. QED
    BY <2>1
<1>2. ASSUME NEW k \in 0..n, k \in S, k < n PROVE k + 1 \in S
  <2>1. PICK f \in [0..k -> X] : Recurses(f, k, x, h)
    BY <1>2
  <2>. DEFINE g == [i \in 0..k + 1 |-> IF i = k + 1 THEN h[<<f[k], k + 1>>] ELSE f[i]]
  <2>2. k + 1 \in 1..n /\ k \in 0..k
    BY <1>2
  <2>3. h[<<f[k], k + 1>>] \in X
    BY <2>2
  <2>4. g \in [0..k + 1 -> X]
    BY <2>3
  <2>5. g[0] = x
    BY <2>1, <2>2 DEF Recurses
  <2>6. ASSUME NEW i \in 1..k + 1 PROVE g[i] = h[<<g[i - 1], i>>]
    <3>1. i - 1 \in 0..k /\ g[i - 1] = f[i - 1]
      BY <2>2
    <3>2. CASE i = k + 1
      <4>1. i - 1 = k /\ i \in 0..k + 1
        BY <3>2
      <4>2. g[i] = h[<<f[k], k + 1>>]
        BY <3>2, <4>1
      <4>3. g[i - 1] = f[k]
        BY <3>1, <4>1
      <4>. QED
        BY <3>2, <4>2, <4>3, Zenon
    <3>3. CASE i # k + 1
      BY <2>1, <3>1, <3>3 DEF Recurses
    <3>. QED
      BY <3>2, <3>3
  <2>7. Recurses(g, k + 1, x, h)
    <3>. HIDE DEF g
    <3>. QED
      BY <2>4, <2>5, <2>6 DEF Recurses
  <2>8. k + 1 \in 0..n
    BY <2>2
  <2>. HIDE DEF g
  <2>. QED
    BY <2>4, <2>7, <2>8
<1>3. n \in 0..n
  OBVIOUS
<1>4. n \in S
  <2>. HIDE DEF S
  <2>. QED
    BY <1>1, <1>2, <1>3, Induction
<1>. QED
  BY <1>4

------------------------------------------------------------------------------
(* Filtered. *)

\* o is what T selects from the first k elements of s.
Selected(o, s, T, k) ==
    /\ Len(o) <= k
    /\ \A i \in 1..Len(o) : o[i] \in T /\ \E j \in 1..k : o[i] = s[j]
    /\ \A j \in 1..k : s[j] \in T => \E i \in 1..Len(o) : o[i] = s[j]
    /\ (\A i, j \in 1..Len(s) : s[i] = s[j] => i = j) => \A i, j \in 1..Len(o) : o[i] = o[j] => i = j

\* f[k] is the selection after the k-th step.
Selects(f, s, T) ==
    /\ f[0] = <<>>
    /\ \A i \in 1..Len(s) : f[i] = IF s[i] \in T THEN Append(f[i - 1], s[i]) ELSE f[i - 1]

\* The recursion of Filtered is well defined.
LEMMA FilteredSteps ==
    ASSUME NEW A, NEW s \in Seq(A), NEW T
    PROVE  \E f \in [0..Len(s) -> Seq(A)] : Filtered(s, T) = f[Len(s)] /\ Selects(f, s, T)
<1>. DEFINE h == [p \in Seq(A) \X (1..Len(s)) |-> IF s[p[2]] \in T THEN Append(p[1], s[p[2]]) ELSE p[1]]
            Step(g) == [i \in 0..Len(s) |-> IF i = 0 THEN <<>> ELSE IF s[i] \in T THEN Append(g[i - 1], s[i]) ELSE g[i - 1]]
            F == CHOOSE g : g = Step(g)
<1>1. h \in [Seq(A) \X (1..Len(s)) -> Seq(A)]
  OBVIOUS
<1>2. PICK f \in [0..Len(s) -> Seq(A)] : Recurses(f, Len(s), <<>>, h)
  <2>1. Len(s) \in Nat /\ <<>> \in Seq(A)
    OBVIOUS
  <2>. HIDE DEF h
  <2>. QED
    BY <1>1, <2>1, Recursion
<1>3. Selects(f, s, T)
  <2>1. ASSUME NEW i \in 1..Len(s)
        PROVE  f[i] = IF s[i] \in T THEN Append(f[i - 1], s[i]) ELSE f[i - 1]
    <3>1. f[i] = h[<<f[i - 1], i>>]
      <4>. HIDE DEF h
      <4>. QED
        BY <1>2 DEF Recurses
    <3>2. f[i - 1] \in Seq(A)
      BY <1>2
    <3>. QED
      BY <3>1, <3>2
  <2>. QED
    BY <1>2, <2>1 DEF Selects, Recurses
<1>4. f = Step(f)
  <2>1. ASSUME NEW i \in 0..Len(s) PROVE f[i] = Step(f)[i]
    <3>1. CASE i = 0
      BY <1>3, <3>1 DEF Selects
    <3>2. CASE i # 0
      <4>1. i \in 1..Len(s)
        BY <3>2
      <4>. QED
        BY <1>3, <3>2, <4>1 DEF Selects
    <3>. QED
      BY <3>1, <3>2
  <2>2. f = [i \in 0..Len(s) |-> f[i]] /\ Step(f) = [i \in 0..Len(s) |-> Step(f)[i]]
    BY Zenon
  <2>. HIDE DEF Step
  <2>. QED
    BY <2>1, <2>2, Zenon
<1>5. F = Step(F)
  <2>. HIDE DEF Step
  <2>. QED
    BY <1>4
<1>. DEFINE Same == {i \in 0..Len(s) : F[i] = f[i]}
<1>6. \A i \in 0..Len(s) : F[i] = IF i = 0 THEN <<>> ELSE IF s[i] \in T THEN Append(F[i - 1], s[i]) ELSE F[i - 1]
  <2>. HIDE DEF F
  <2>. QED
    BY <1>5
<1>7. 0 \in Same
  <2>. HIDE DEF F
  <2>. QED
    BY <1>3, <1>6 DEF Selects
<1>8. \A k \in 0..Len(s) : k \in Same /\ k < Len(s) => k + 1 \in Same
  <2>. HIDE DEF F
  <2>. SUFFICES ASSUME NEW k \in 0..Len(s), k \in Same, k < Len(s) PROVE k + 1 \in Same
    BY Zenon
  <2>1. k + 1 \in 1..Len(s) /\ k + 1 \in 0..Len(s) /\ (k + 1) - 1 = k /\ k + 1 # 0
    OBVIOUS
  <2>2. F[k + 1] = f[k + 1]
    BY <1>3, <1>6, <2>1 DEF Selects
  <2>. QED
    BY <2>1, <2>2
<1>9. F[Len(s)] = f[Len(s)]
  <2>1. Len(s) \in Nat /\ Len(s) \in 0..Len(s)
    OBVIOUS
  <2>2. Len(s) \in Same
    <3>. HIDE DEF Same
    <3>. QED
      BY <1>7, <1>8, <2>1, Induction
  <2>. QED
    BY <2>2
<1>10. Filtered(s, T) = F[Len(s)]
  BY DEF Filtered
<1>. QED
  <2>. HIDE DEF F
  <2>. QED
    BY <1>3, <1>9, <1>10

\* One more element is taken or left.
LEMMA SelectedNext ==
    ASSUME NEW A, NEW s \in Seq(A), NEW T, NEW k \in 0..Len(s) - 1, NEW o \in Seq(A), Selected(o, s, T, k)
    PROVE  Selected(IF s[k + 1] \in T THEN Append(o, s[k + 1]) ELSE o, s, T, k + 1)
<1>1. k + 1 \in 1..Len(s) /\ k \in Nat /\ s[k + 1] \in A
  OBVIOUS
<1>2. CASE s[k + 1] \notin T
  <2>1. Selected(o, s, T, k + 1)
    BY <1>1, <1>2 DEF Selected
  <2>. QED
    BY <1>2, <2>1
<1>3. CASE s[k + 1] \in T
  <2>. DEFINE g == Append(o, s[k + 1])
              m == Len(o)
              Distinct == \A i, j \in 1..Len(s) : s[i] = s[j] => i = j
  <2>1. /\ Len(g) = m + 1 /\ m \in Nat
        /\ \A i \in 1..m : g[i] = o[i]
        /\ g[m + 1] = s[k + 1]
    BY <1>1
  <2>2. ASSUME NEW i \in 1..m + 1 PROVE g[i] \in T /\ \E j \in 1..k + 1 : g[i] = s[j]
    <3>1. CASE i = m + 1
      BY <1>1, <1>3, <2>1, <3>1
    <3>2. CASE i # m + 1
      <4>1. i \in 1..m /\ g[i] = o[i]
        BY <2>1, <3>2
      <4>2. o[i] \in T /\ \E j \in 1..k : o[i] = s[j]
        BY <4>1 DEF Selected
      <4>. QED
        BY <1>1, <4>1, <4>2
    <3>. QED
      BY <3>1, <3>2
  <2>3. ASSUME NEW j \in 1..k + 1, s[j] \in T PROVE \E i \in 1..m + 1 : g[i] = s[j]
    <3>1. CASE j = k + 1
      BY <2>1, <3>1
    <3>2. CASE j # k + 1
      <4>1. j \in 1..k
        BY <1>1, <3>2
      <4>2. PICK i \in 1..m : o[i] = s[j]
        BY <2>3, <4>1 DEF Selected
      <4>. QED
        BY <2>1, <4>2
    <3>. QED
      BY <3>1, <3>2
  <2>4. ASSUME Distinct, NEW i \in 1..m + 1, NEW j \in 1..m + 1, g[i] = g[j] PROVE i = j
    <3>1. ASSUME NEW a \in 1..m PROVE g[a] # g[m + 1]
      <4>1. PICK c \in 1..k : o[a] = s[c]
        BY DEF Selected
      <4>2. c \in 1..Len(s) /\ c # k + 1
        BY <1>1
      <4>. QED
        BY <1>1, <2>1, <2>4, <4>1, <4>2
    <3>2. i \in 1..m \/ i = m + 1
      BY <2>1
    <3>3. j \in 1..m \/ j = m + 1
      BY <2>1
    <3>4. CASE i \in 1..m /\ j \in 1..m
      BY <2>1, <2>4, <3>4 DEF Selected
    <3>. QED
      BY <2>4, <3>1, <3>2, <3>3, <3>4
  <2>5. Len(g) <= k + 1
    <3>1. m <= k
      BY DEF Selected
    <3>. HIDE DEF g, m
    <3>. QED
      BY <1>1, <2>1, <3>1
  <2>. HIDE DEF g
  <2>6. Selected(g, s, T, k + 1)
    BY <2>1, <2>2, <2>3, <2>4, <2>5 DEF Selected
  <2>. QED
    BY <1>3, <2>6 DEF g
<1>. QED
  BY <1>2, <1>3

\* A selection is a sequence, of the elements in T and of no others, and repeats none
\* that was not repeated.
LEMMA FilteredProperties ==
    ASSUME NEW A, NEW s \in Seq(A), NEW T
    PROVE  Filtered(s, T) \in Seq(A) /\ Selected(Filtered(s, T), s, T, Len(s))
<1>1. PICK f \in [0..Len(s) -> Seq(A)] : Filtered(s, T) = f[Len(s)] /\ Selects(f, s, T)
  BY FilteredSteps
<1>. DEFINE S == {k \in 0..Len(s) : Selected(f[k], s, T, k)}
<1>2. 0 \in S
  BY <1>1 DEF Selects, Selected
<1>3. ASSUME NEW k \in 0..Len(s), k \in S, k < Len(s) PROVE k + 1 \in S
  <2>1. k + 1 \in 1..Len(s) /\ k + 1 \in 0..Len(s) /\ (k + 1) - 1 = k /\ k \in 0..Len(s) - 1 /\ f[k] \in Seq(A)
    BY <1>3
  <2>2. f[k + 1] = IF s[k + 1] \in T THEN Append(f[k], s[k + 1]) ELSE f[k]
    BY <1>1, <2>1 DEF Selects
  <2>3. Selected(IF s[k + 1] \in T THEN Append(f[k], s[k + 1]) ELSE f[k], s, T, k + 1)
    BY <1>3, <2>1, SelectedNext
  <2>4. Selected(f[k + 1], s, T, k + 1)
    BY <2>2, <2>3, Zenon
  <2>. QED
    BY <2>1, <2>4
<1>4. Len(s) \in Nat /\ Len(s) \in 0..Len(s)
  OBVIOUS
<1>5. Len(s) \in S
  <2>. HIDE DEF S
  <2>. QED
    BY <1>2, <1>3, <1>4, Induction
<1>. QED
  BY <1>1, <1>4, <1>5

\* What a sequence holds, and that it holds nothing twice.
Members(s) == {s[i] : i \in 1..Len(s)}
NoRepeats(s) == \A i, j \in 1..Len(s) : s[i] = s[j] => i = j

\* A selection in these terms.
LEMMA FilteredMembers ==
    ASSUME NEW A, NEW s \in Seq(A), NEW T
    PROVE  /\ Filtered(s, T) \in Seq(A)
           /\ Members(Filtered(s, T)) = Members(s) \cap T
           /\ NoRepeats(s) => NoRepeats(Filtered(s, T))
<1>1. Filtered(s, T) \in Seq(A) /\ Selected(Filtered(s, T), s, T, Len(s))
  BY FilteredProperties
<1>2. ASSUME NEW o \in Seq(A), Selected(o, s, T, Len(s))
      PROVE  Members(o) = Members(s) \cap T /\ (NoRepeats(s) => NoRepeats(o))
  <2>1. Members(o) \subseteq Members(s) \cap T
    BY <1>2 DEF Selected, Members
  <2>2. ASSUME NEW m \in Members(s), m \in T PROVE m \in Members(o)
    <3>1. PICK j \in 1..Len(s) : m = s[j]
      BY DEF Members
    <3>2. \E i \in 1..Len(o) : o[i] = s[j]
      BY <1>2, <2>2, <3>1 DEF Selected
    <3>. QED
      BY <3>1, <3>2 DEF Members
  <2>3. NoRepeats(s) => NoRepeats(o)
    BY <1>2 DEF Selected, NoRepeats
  <2>. QED
    BY <2>1, <2>2, <2>3
<1>. QED
  BY <1>1, <1>2

\* The first element and the others.
LEMMA MembersPop ==
    ASSUME NEW A, NEW s \in Seq(A), s # <<>>
    PROVE  /\ Head(s) \in A /\ Tail(s) \in Seq(A)
           /\ Members(s) = {Head(s)} \cup Members(Tail(s))
           /\ NoRepeats(s) => Head(s) \notin Members(Tail(s)) /\ NoRepeats(Tail(s))
<1>1. Len(s) \in Nat \ {0} /\ Head(s) = s[1] /\ Tail(s) \in Seq(A) /\ Len(Tail(s)) = Len(s) - 1
  OBVIOUS
<1>2. \A i \in 1..Len(s) - 1 : Tail(s)[i] = s[i + 1]
  OBVIOUS
<1>3. Head(s) \in A
  BY <1>1
<1>4. Members(s) \subseteq {Head(s)} \cup Members(Tail(s))
  <2>. SUFFICES ASSUME NEW i \in 1..Len(s) PROVE s[i] \in {Head(s)} \cup Members(Tail(s))
    BY DEF Members
  <2>1. CASE i = 1
    BY <1>1, <2>1
  <2>2. CASE i # 1
    <3>1. i - 1 \in 1..Len(s) - 1 /\ (i - 1) + 1 = i
      BY <1>1, <2>2
    <3>2. Tail(s)[i - 1] = s[i]
      BY <1>2, <3>1
    <3>. QED
      BY <1>1, <3>1, <3>2 DEF Members
  <2>. QED
    BY <2>1, <2>2
<1>5. {Head(s)} \cup Members(Tail(s)) \subseteq Members(s)
  <2>1. Head(s) \in Members(s)
    BY <1>1 DEF Members
  <2>2. ASSUME NEW i \in 1..Len(s) - 1 PROVE Tail(s)[i] \in Members(s)
    <3>1. i + 1 \in 1..Len(s)
      BY <1>1
    <3>. QED
      BY <1>2, <3>1 DEF Members
  <2>. QED
    BY <1>1, <2>1, <2>2 DEF Members
<1>6. ASSUME NoRepeats(s) PROVE Head(s) \notin Members(Tail(s)) /\ NoRepeats(Tail(s))
  <2>1. ASSUME NEW i \in 1..Len(s) - 1 PROVE Tail(s)[i] # Head(s)
    <3>1. i + 1 \in 1..Len(s) /\ 1 \in 1..Len(s) /\ i + 1 # 1
      BY <1>1
    <3>. QED
      BY <1>1, <1>2, <1>6, <3>1 DEF NoRepeats
  <2>2. ASSUME NEW i \in 1..Len(s) - 1, NEW j \in 1..Len(s) - 1, Tail(s)[i] = Tail(s)[j] PROVE i = j
    <3>1. i + 1 \in 1..Len(s) /\ j + 1 \in 1..Len(s)
      BY <1>1
    <3>2. s[i + 1] = s[j + 1]
      BY <1>2, <2>2
    <3>3. i + 1 = j + 1
      BY <1>6, <3>1, <3>2 DEF NoRepeats
    <3>. QED
      BY <3>3
  <2>. QED
    BY <1>1, <2>1, <2>2 DEF Members, NoRepeats
<1>. QED
  BY <1>1, <1>3, <1>4, <1>5, <1>6

\* An empty sequence holds nothing.
LEMMA MembersEmpty ==
    ASSUME NEW s, s = <<>>
    PROVE  Members(s) = {}
  BY DEF Members

\* Taking the last element of a list or leaving it.
LEMMA FilteredAppend ==
    ASSUME NEW A, NEW s \in Seq(A), NEW x \in A, NEW T
    PROVE  Filtered(Append(s, x), T) = IF x \in T THEN Append(Filtered(s, T), x) ELSE Filtered(s, T)
<1>. DEFINE t == Append(s, x)  n == Len(s)
<1>1. t \in Seq(A) /\ Len(t) = n + 1 /\ n \in Nat /\ t[n + 1] = x /\ \A i \in 1..n : t[i] = s[i]
  OBVIOUS
<1>2. PICK f \in [0..n -> Seq(A)] : Filtered(s, T) = f[n] /\ Selects(f, s, T)
  BY FilteredSteps
<1>. HIDE DEF t
<1>3. PICK g \in [0..Len(t) -> Seq(A)] : Filtered(t, T) = g[Len(t)] /\ Selects(g, t, T)
  BY <1>1, FilteredSteps
<1>. DEFINE Same == {i \in 0..n : g[i] = f[i]}
<1>4. 0 \in Same
  BY <1>1, <1>2, <1>3 DEF Selects
<1>5. \A k \in 0..n : k \in Same /\ k < n => k + 1 \in Same
  <2>. SUFFICES ASSUME NEW k \in 0..n, k \in Same, k < n PROVE k + 1 \in Same
    BY Zenon
  <2>1. k + 1 \in 1..n /\ k + 1 \in 1..Len(t) /\ (k + 1) - 1 = k /\ t[k + 1] = s[k + 1]
    BY <1>1
  <2>2. f[k + 1] = IF s[k + 1] \in T THEN Append(f[k], s[k + 1]) ELSE f[k]
    BY <1>2, <2>1 DEF Selects
  <2>3. g[k + 1] = IF t[k + 1] \in T THEN Append(g[k], t[k + 1]) ELSE g[k]
    BY <1>3, <2>1 DEF Selects
  <2>. QED
    BY <2>1, <2>2, <2>3
<1>6. g[n] = f[n]
  <2>1. n \in 0..n
    BY <1>1
  <2>2. n \in Same
    <3>. HIDE DEF Same, n
    <3>. QED
      BY <1>1, <1>4, <1>5, <2>1, Induction
  <2>. QED
    BY <2>2
<1>7. g[n + 1] = IF t[n + 1] \in T THEN Append(g[n], t[n + 1]) ELSE g[n]
  <2>1. n + 1 \in 1..Len(t) /\ (n + 1) - 1 = n
    BY <1>1
  <2>. QED
    BY <1>3, <2>1 DEF Selects
<1>. QED
  BY <1>1, <1>2, <1>3, <1>6, <1>7 DEF t
=============================================================================
