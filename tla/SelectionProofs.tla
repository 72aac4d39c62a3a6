-------------------------- MODULE SelectionProofs --------------------------
(***************************************************************************)
(* What Select returns, for every sequence and set.  The library's         *)
(* induction theorems take an operator, so induction is by least           *)
(* counterexample here: a set of numbers that is not empty has a least     *)
(* element (LeastNumber).                                                  *)
(***************************************************************************)
EXTENDS Selection, SequencesExt, WellFoundedInduction, TLAPS

LEMMA LeastNumber ==
  ASSUME NEW T \in SUBSET Nat, T # {}
  PROVE  \E n \in T : \A m \in T : n <= m
<1> DEFINE R == {p \in Nat \X Nat : p[1] < p[2]}
<1>1. IsWellFoundedOn(R, Nat)
  BY NatLessThanWellFounded DEF OpToRel
<1> HIDE DEF R
<1>2. PICK n \in T : \A m \in T : ~ (<<m, n>> \in R)
  BY <1>1, WFMin
<1>3. \A m \in T : n <= m
  <2> SUFFICES ASSUME NEW m \in T, m < n PROVE FALSE
    OBVIOUS
  <2>1. <<m, n>> \in Nat \X Nat /\ <<m, n>>[1] < <<m, n>>[2]
    OBVIOUS
  <2> QED
    BY <1>2, <2>1 DEF R
<1> QED
  BY <1>3

\* A set of numbers that has 0, and with each number below n its successor,
\* has every number up to n.
LEMMA UpTo ==
  ASSUME NEW n \in Nat, NEW T, 0 \in T, \A m \in 0 .. n : m \in T /\ m < n => m + 1 \in T
  PROVE  \A m \in 0 .. n : m \in T
<1> DEFINE Bad == {m \in 0 .. n : m \notin T}
<1> SUFFICES ASSUME Bad # {} PROVE FALSE
  OBVIOUS
<1>1. PICK b \in Bad : \A m \in Bad : b <= m
  <2>1. Bad \in SUBSET Nat
    OBVIOUS
  <2> HIDE DEF Bad
  <2> QED
    BY <2>1, LeastNumber
<1>2. b \in 0 .. n /\ b \notin T /\ b # 0
  BY <1>1
<1>3. b - 1 \in 0 .. n /\ b - 1 < n /\ b - 1 < b /\ (b - 1) + 1 = b
  BY <1>2
<1>4. b - 1 \in T
  BY <1>1, <1>3
<1> QED
  BY <1>2, <1>3, <1>4

-----------------------------------------------------------------------------
(* The recursion is well defined.                                          *)

SelectStep(g, n, seq, S) ==
  IF n = 0 THEN <<>>
  ELSE IF seq[n] \in S THEN Append(g[n - 1], seq[n]) ELSE g[n - 1]

LEMMA SelectedEquation ==
  ASSUME NEW T, NEW seq \in Seq(T), NEW S
  PROVE  Selected(seq, S) = [n \in 0 .. Len(seq) |-> SelectStep(Selected(seq, S), n, seq, S)]
<1> DEFINE Fits(g, k) == g = [n \in 0 .. k |-> SelectStep(g, n, seq, S)]
           Good == {k \in Nat : \E g : Fits(g, k)}
<1>1. Len(seq) \in Nat
  OBVIOUS
<1>2. 0 \in Good
  <2> DEFINE g == [n \in 0 .. 0 |-> <<>>]
  <2>1. \A n \in 0 .. 0 : SelectStep(g, n, seq, S) = <<>>
    BY DEF SelectStep
  <2>2. g = [n \in 0 .. 0 |-> SelectStep(g, n, seq, S)]
    BY <2>1
  <2> QED
    BY <2>2
<1>3. ASSUME NEW k \in 0 .. Len(seq), k \in Good
      PROVE  k + 1 \in Good
  <2>1. PICK g : Fits(g, k)
    BY <1>3
  <2> DEFINE last == IF seq[k + 1] \in S THEN Append(g[k], seq[k + 1]) ELSE g[k]
             h == [n \in 0 .. k + 1 |-> IF n = k + 1 THEN last ELSE g[n]]
  <2>2. \A n \in 0 .. k : g[n] = SelectStep(g, n, seq, S)
    BY <2>1
  <2> HIDE DEF Fits
  <2>3. \A n \in 0 .. k : (n - 1 \in 0 .. k + 1 /\ n - 1 # k + 1) \/ n = 0
    OBVIOUS
  <2>4. ASSUME NEW n \in 0 .. k + 1
        PROVE  h[n] = SelectStep(h, n, seq, S)
    <3>1. CASE n = k + 1
      <4>1. h[n] = last /\ n # 0 /\ h[n - 1] = g[k]
        BY <3>1
      <4> QED
        BY <3>1, <4>1 DEF SelectStep
    <3>2. CASE n \in 1 .. k
      <4>1. h[n] = g[n] /\ n # 0 /\ h[n - 1] = g[n - 1]
        BY <3>2
      <4> HIDE DEF h
      <4> QED
        BY <2>2, <3>2, <4>1 DEF SelectStep
    <3>3. CASE n = 0
      <4>1. h[n] = g[n]
        BY <3>3
      <4> HIDE DEF h
      <4> QED
        BY <2>2, <3>3, <4>1 DEF SelectStep
    <3> QED
      BY <3>1, <3>2, <3>3
  <2>5. h = [n \in 0 .. k + 1 |-> SelectStep(h, n, seq, S)]
    <3>1. h = [n \in 0 .. k + 1 |-> h[n]]
      OBVIOUS
    <3> HIDE DEF h
    <3> QED
      BY <2>4, <3>1
  <2>6. Fits(h, k + 1)
    BY <2>5 DEF Fits
  <2> QED
    BY <2>6
<1>4. Len(seq) \in Good
  <2> HIDE DEF Good
  <2>1. \A m \in 0 .. Len(seq) : m \in Good /\ m < Len(seq) => m + 1 \in Good
    BY <1>3
  <2>2. \A m \in 0 .. Len(seq) : m \in Good
    BY <1>1, <1>2, <2>1, UpTo
  <2> QED
    BY <1>1, <2>2
<1>5. \E g : g = [n \in 0 .. Len(seq) |-> SelectStep(g, n, seq, S)]
  BY <1>4
<1>6. Selected(seq, S) = CHOOSE g : g = [n \in 0 .. Len(seq) |-> SelectStep(g, n, seq, S)]
  BY DEF Selected, SelectStep
<1> QED
  BY <1>5, <1>6

LEMMA SelectedNone ==
  ASSUME NEW T, NEW seq \in Seq(T), NEW S
  PROVE  Selected(seq, S)[0] = <<>>
<1> DEFINE f == Selected(seq, S)
<1>1. f = [n \in 0 .. Len(seq) |-> SelectStep(f, n, seq, S)] /\ 0 \in 0 .. Len(seq)
  BY SelectedEquation
<1> HIDE DEF f
<1>2. f[0] = SelectStep(f, 0, seq, S)
  BY <1>1
<1> QED
  BY <1>2 DEF SelectStep, f

\* Step by step: nothing of nothing, then one element more or none.
LEMMA SelectedSteps ==
  ASSUME NEW T, NEW seq \in Seq(T), NEW S
  PROVE  /\ Selected(seq, S)[0] = <<>>
         /\ \A n \in 1 .. Len(seq) :
              Selected(seq, S)[n] = IF seq[n] \in S THEN Append(Selected(seq, S)[n - 1], seq[n])
                                                    ELSE Selected(seq, S)[n - 1]
         /\ \A n \in 0 .. Len(seq) : Selected(seq, S)[n] \in Seq(T \cap S)
<1> DEFINE f == Selected(seq, S)
<1>1. \A n \in 0 .. Len(seq) : f[n] = SelectStep(f, n, seq, S)
  <2>1. f = [n \in 0 .. Len(seq) |-> SelectStep(f, n, seq, S)]
    BY SelectedEquation
  <2> HIDE DEF f
  <2> QED
    BY <2>1
<1> HIDE DEF f
<1>2. f[0] = <<>>
  BY <1>1 DEF SelectStep
<1>3. \A n \in 1 .. Len(seq) : f[n] = IF seq[n] \in S THEN Append(f[n - 1], seq[n]) ELSE f[n - 1]
  BY <1>1 DEF SelectStep
<1>4. \A n \in 0 .. Len(seq) : f[n] \in Seq(T \cap S)
  <2> DEFINE U == T \cap S
             Typed == {n \in Nat : f[n] \in Seq(U)}
  <2> HIDE DEF U
  <2>1. 0 \in Typed
    <3>1. <<>> \in Seq(U)
      OBVIOUS
    <3> QED
      BY <1>2, <3>1
  <2>2. ASSUME NEW m \in 0 .. Len(seq), m \in Typed, m < Len(seq)
        PROVE  m + 1 \in Typed
    <3>1. m + 1 \in 1 .. Len(seq) /\ seq[m + 1] \in T /\ (m + 1) - 1 = m /\ f[m] \in Seq(U)
      BY <2>2
    <3>2. f[m + 1] = IF seq[m + 1] \in S THEN Append(f[m], seq[m + 1]) ELSE f[m]
      BY <1>3, <3>1
    <3>3. seq[m + 1] \in S => seq[m + 1] \in U
      BY <3>1 DEF U
    <3>4. f[m + 1] \in Seq(U)
      BY <3>1, <3>2, <3>3
    <3> QED
      BY <2>2, <3>4
  <2> HIDE DEF Typed
  <2>3. \A m \in 0 .. Len(seq) : m \in Typed /\ m < Len(seq) => m + 1 \in Typed
    BY <2>2
  <2>4. \A m \in 0 .. Len(seq) : m \in Typed
    BY <2>1, <2>3, UpTo
  <2> QED
    BY <2>4 DEF Typed, U
<1> QED
  BY <1>2, <1>3, <1>4 DEF f

\* What is selected from a prefix depends on the prefix only, and of the set
\* on the elements the prefix has.
LEMMA SelectedAgree ==
  ASSUME NEW T, NEW s \in Seq(T), NEW t \in Seq(T), NEW S, NEW R, NEW k \in Nat,
         k <= Len(s), k <= Len(t),
         \A n \in 1 .. k : s[n] = t[n] /\ (s[n] \in S <=> t[n] \in R)
  PROVE  \A n \in 0 .. k : Selected(s, S)[n] = Selected(t, R)[n]
<1> DEFINE f == Selected(s, S)
           g == Selected(t, R)
           Same == {n \in Nat : f[n] = g[n]}
<1>1. f[0] = <<>> /\ g[0] = <<>>
  BY SelectedSteps
<1>2. \A n \in 1 .. Len(s) : f[n] = IF s[n] \in S THEN Append(f[n - 1], s[n]) ELSE f[n - 1]
  BY SelectedSteps
<1>3. \A n \in 1 .. Len(t) : g[n] = IF t[n] \in R THEN Append(g[n - 1], t[n]) ELSE g[n - 1]
  BY SelectedSteps
<1> HIDE DEF f, g
<1>4. 0 \in Same
  BY <1>1
<1>5. ASSUME NEW m \in 0 .. k, m \in Same, m < k
      PROVE  m + 1 \in Same
  <2>1. m + 1 \in 1 .. Len(s) /\ m + 1 \in 1 .. Len(t) /\ m + 1 \in 1 .. k /\ (m + 1) - 1 = m
    BY <1>5
  <2> QED
    BY <1>2, <1>3, <1>5, <2>1
<1> HIDE DEF Same
<1>6. \A m \in 0 .. k : m \in Same /\ m < k => m + 1 \in Same
  BY <1>5
<1>7. \A m \in 0 .. k : m \in Same
  BY <1>4, <1>6, UpTo
<1> QED
  BY <1>7 DEF Same, f, g

-----------------------------------------------------------------------------
(* What the models need of it.                                             *)

\* The selection from a sequence has the sequence's elements that are in the
\* set, and none from an empty one.
LEMMA SelectTyped ==
  ASSUME NEW T, NEW seq \in Seq(T), NEW S
  PROVE  Select(seq, S) \in Seq(T \cap S)
<1>1. Len(seq) \in 0 .. Len(seq)
  OBVIOUS
<1> QED
  BY <1>1, SelectedSteps DEF Select

LEMMA SelectEmpty ==
  ASSUME NEW S
  PROVE  Select(<<>>, S) = <<>>
<1> DEFINE none == <<>>
<1>1. none \in Seq({}) /\ Len(none) = 0
  OBVIOUS
<1> HIDE DEF none
<1>2. Selected(none, S)[0] = <<>>
  BY <1>1, SelectedNone
<1>3. Select(none, S) = <<>>
  BY <1>1, <1>2 DEF Select
<1> QED
  BY <1>3 DEF none

\* Only the elements the sequence has matter of the set.
LEMMA SelectSame ==
  ASSUME NEW T, NEW seq \in Seq(T), NEW S, NEW R,
         \A n \in 1 .. Len(seq) : seq[n] \in S <=> seq[n] \in R
  PROVE  Select(seq, S) = Select(seq, R)
<1>1. Len(seq) \in Nat
  OBVIOUS
<1>2. \A n \in 0 .. Len(seq) : Selected(seq, S)[n] = Selected(seq, R)[n]
  BY <1>1, SelectedAgree
<1> QED
  BY <1>1, <1>2 DEF Select

\* An element more is selected or not, and nothing else changes.
LEMMA SelectAppend ==
  ASSUME NEW T, NEW seq \in Seq(T), NEW e \in T, NEW S
  PROVE  Select(Append(seq, e), S) = IF e \in S THEN Append(Select(seq, S), e)
                                               ELSE Select(seq, S)
<1> DEFINE t == Append(seq, e)
           k == Len(seq)
<1>1. t \in Seq(T) /\ Len(t) = k + 1 /\ k \in Nat /\ t[k + 1] = e
      /\ \A n \in 1 .. k : t[n] = seq[n]
  OBVIOUS
<1> HIDE DEF t, k
<1>2. Selected(seq, S)[k] = Selected(t, S)[k]
  <2>1. k \in 0 .. k /\ k <= Len(seq) /\ k <= Len(t)
    BY <1>1 DEF k
  <2>2. k \in Nat /\ \A n \in 1 .. k : seq[n] = t[n] /\ (seq[n] \in S <=> t[n] \in S)
    BY <1>1
  <2>3. t \in Seq(T)
    BY <1>1
  <2>4. \A n \in 0 .. k : Selected(seq, S)[n] = Selected(t, S)[n]
    BY <2>1, <2>2, <2>3, SelectedAgree
  <2> QED
    BY <2>1, <2>4
<1>3. k + 1 \in 1 .. Len(t) /\ (k + 1) - 1 = k
  BY <1>1
<1>4. Selected(t, S)[k + 1] = IF t[k + 1] \in S THEN Append(Selected(t, S)[(k + 1) - 1], t[k + 1])
                                                ELSE Selected(t, S)[(k + 1) - 1]
  <2>1. t \in Seq(T)
    BY <1>1
  <2>2. \A n \in 1 .. Len(t) : Selected(t, S)[n] = IF t[n] \in S THEN Append(Selected(t, S)[n - 1], t[n])
                                                     ELSE Selected(t, S)[n - 1]
    BY <2>1, SelectedSteps
  <2> QED
    BY <1>3, <2>2
<1>5. Select(t, S) = Selected(t, S)[k + 1] /\ Select(seq, S) = Selected(seq, S)[k]
  BY <1>1 DEF Select, k
<1>6. Select(t, S) = IF e \in S THEN Append(Select(seq, S), e) ELSE Select(seq, S)
  BY <1>1, <1>2, <1>3, <1>4, <1>5
<1> QED
  BY <1>6 DEF t

\* The selection from a prefix is no longer than the selection from the whole.
LEMMA SelectMonotone ==
  ASSUME NEW T, NEW seq \in Seq(T), NEW S, NEW k \in 0 .. Len(seq)
  PROVE  /\ Len(Selected(seq, S)[k]) <= Len(Select(seq, S))
         /\ Select(SubSeq(seq, 1, k), S) = Selected(seq, S)[k]
<1> DEFINE f == Selected(seq, S)
<1>1. /\ \A n \in 1 .. Len(seq) : f[n] = IF seq[n] \in S THEN Append(f[n - 1], seq[n]) ELSE f[n - 1]
      /\ \A n \in 0 .. Len(seq) : f[n] \in Seq(T \cap S)
  BY SelectedSteps
<1>2. Len(seq) \in Nat /\ k \in Nat
  OBVIOUS
<1> HIDE DEF f
<1> DEFINE Above == {d \in Nat : k + d <= Len(seq) => Len(f[k]) <= Len(f[k + d])}
<1>3. 0 \in Above
  BY <1>1, <1>2
<1>4. ASSUME NEW d \in 0 .. Len(seq) - k, d \in Above, d < Len(seq) - k
      PROVE  d + 1 \in Above
  <2>1. k + (d + 1) \in 1 .. Len(seq) /\ (k + (d + 1)) - 1 = k + d /\ k + d <= Len(seq)
        /\ k + d \in 0 .. Len(seq)
    BY <1>2, <1>4
  <2>2. Len(f[k]) <= Len(f[k + d]) /\ f[k + d] \in Seq(T \cap S) /\ f[k] \in Seq(T \cap S)
    BY <1>1, <1>2, <1>4, <2>1
  <2>3. \/ f[k + (d + 1)] = f[k + d]
        \/ /\ f[k + (d + 1)] = Append(f[k + d], seq[k + (d + 1)])
           /\ seq[k + (d + 1)] \in T \cap S
    <3>1. seq[k + (d + 1)] \in T
      BY <2>1
    <3> QED
      BY <1>1, <2>1, <3>1
  <2>4. Len(f[k + d]) <= Len(f[k + (d + 1)])
    BY <2>2, <2>3
  <2>5. Len(f[k + (d + 1)]) \in Nat /\ Len(f[k + d]) \in Nat /\ Len(f[k]) \in Nat
    BY <2>2, <2>3
  <2>6. Len(f[k]) <= Len(f[k + (d + 1)])
    BY <2>2, <2>4, <2>5
  <2> QED
    BY <2>6
<1> HIDE DEF Above
<1>5. \A d \in 0 .. Len(seq) - k : d \in Above
  <2>1. Len(seq) - k \in Nat
    BY <1>2
  <2>2. \A d \in 0 .. Len(seq) - k : d \in Above /\ d < Len(seq) - k => d + 1 \in Above
    BY <1>4
  <2> QED
    BY <1>3, <2>1, <2>2, UpTo
<1>6. Len(f[k]) <= Len(f[Len(seq)])
  <2>1. Len(seq) - k \in Above
    BY <1>2, <1>5
  <2>2. k + (Len(seq) - k) = Len(seq)
    BY <1>2
  <2> QED
    BY <1>2, <2>1, <2>2 DEF Above
<1>7. Select(SubSeq(seq, 1, k), S) = f[k]
  <2> DEFINE t == SubSeq(seq, 1, k)
  <2>1. t \in Seq(T) /\ Len(t) = k /\ \A n \in 1 .. k : t[n] = seq[n]
    BY <1>2
  <2> HIDE DEF t
  <2>2. \A n \in 0 .. k : Selected(t, S)[n] = Selected(seq, S)[n]
    BY <1>2, <2>1, SelectedAgree
  <2>3. Select(t, S) = f[k]
    BY <1>2, <2>1, <2>2 DEF Select, f
  <2> QED
    BY <2>3 DEF t
<1> QED
  BY <1>6, <1>7 DEF Select, f
-----------------------------------------------------------------------------
(* Selections of the numbers 1 .. n: the members of the set, ascending.    *)

Numbers(n) == [i \in 1 .. n |-> i]

Ascends(s) == \A m, n \in 1 .. Len(s) : m < n => s[m] < s[n]
Lists(s, S) == (\A i \in S : \E n \in 1 .. Len(s) : s[n] = i) /\ \A n \in 1 .. Len(s) : s[n] \in S

LEMMA AppendAscends ==
  ASSUME NEW s \in Seq(Nat), Ascends(s), NEW S \in SUBSET Nat, Lists(s, S),
         NEW e \in Nat, \A i \in S : i < e
  PROVE  Append(s, e) \in Seq(Nat) /\ Ascends(Append(s, e)) /\ Lists(Append(s, e), S \cup {e})
<1> DEFINE t == Append(s, e)
<1>1. /\ t \in Seq(Nat) /\ Len(t) = Len(s) + 1 /\ Len(s) \in Nat
      /\ t[Len(s) + 1] = e /\ \A n \in 1 .. Len(s) : t[n] = s[n] /\ s[n] \in Nat
  OBVIOUS
<1> HIDE DEF t
<1>2. \A n \in 1 .. Len(s) : s[n] < e
  BY DEF Lists
<1>3. Ascends(t)
  <2> SUFFICES ASSUME NEW m \in 1 .. Len(t), NEW n \in 1 .. Len(t), m < n
               PROVE  t[m] < t[n]
    BY DEF Ascends
  <2>1. m \in 1 .. Len(s)
    BY <1>1
  <2>2. n \in 1 .. Len(s) \/ n = Len(s) + 1
    BY <1>1
  <2> QED
    BY <1>1, <1>2, <2>1, <2>2 DEF Ascends
<1>4. Lists(t, S \cup {e})
  <2>1. \A n \in 1 .. Len(t) : n \in 1 .. Len(s) \/ n = Len(s) + 1
    BY <1>1
  <2>2. \A n \in 1 .. Len(t) : t[n] \in S \cup {e}
    BY <1>1, <2>1 DEF Lists
  <2>3. Len(s) + 1 \in 1 .. Len(t) /\ \A n \in 1 .. Len(s) : n \in 1 .. Len(t)
    BY <1>1
  <2>4. \A i \in S \cup {e} : \E n \in 1 .. Len(t) : t[n] = i
    BY <1>1, <2>3 DEF Lists
  <2> QED
    BY <2>2, <2>4 DEF Lists
<1> QED
  BY <1>1, <1>3, <1>4 DEF t

\* What is selected from the numbers 1 .. n is the members of the set among
\* them, each once, in ascending order: a room read off the feed is exactly
\* the room's entries, in the order the backend wrote them.
THEOREM SelectNumbers ==
  ASSUME NEW n \in Nat, NEW S
  PROVE  /\ Select(Numbers(n), S) \in Seq(Nat)
         /\ Ascends(Select(Numbers(n), S)) /\ Lists(Select(Numbers(n), S), S \cap 1 .. n)
<1> DEFINE f == Selected(Numbers(n), S)
           Fine == {k \in Nat : f[k] \in Seq(Nat) /\ Ascends(f[k]) /\ Lists(f[k], S \cap 1 .. k)}
<1>1. Numbers(n) \in Seq(Nat) /\ Len(Numbers(n)) = n /\ \A k \in 1 .. n : Numbers(n)[k] = k
  BY DEF Numbers
<1>2. f[0] = <<>> /\ \A k \in 1 .. n : f[k] = IF k \in S THEN Append(f[k - 1], k) ELSE f[k - 1]
  <2> DEFINE all == Numbers(n)
  <2> HIDE DEF all
  <2>1. all \in Seq(Nat)
    BY <1>1 DEF all
  <2>2. Selected(all, S)[0] = <<>>
    BY <2>1, SelectedNone
  <2>3. \A k \in 1 .. Len(all) : Selected(all, S)[k] = IF all[k] \in S
          THEN Append(Selected(all, S)[k - 1], all[k]) ELSE Selected(all, S)[k - 1]
    BY <2>1, SelectedSteps
  <2> QED
    BY <1>1, <2>1, <2>2, <2>3 DEF all
<1> HIDE DEF f
<1>3. 0 \in Fine
  <2> DEFINE none == f[0]
  <2>1. none \in Seq(Nat) /\ Len(none) = 0
    BY <1>2
  <2>2. S \cap 1 .. 0 = {}
    OBVIOUS
  <2> HIDE DEF none
  <2>3. Ascends(none) /\ Lists(none, {})
    BY <2>1 DEF Ascends, Lists
  <2> QED
    BY <2>1, <2>2, <2>3 DEF none
<1>4. ASSUME NEW k \in 0 .. n, k \in Fine, k < n
      PROVE  k + 1 \in Fine
  <2>1. k + 1 \in 1 .. n /\ (k + 1) - 1 = k /\ k + 1 \in Nat
    BY <1>4
  <2>2. f[k] \in Seq(Nat) /\ Ascends(f[k]) /\ Lists(f[k], S \cap 1 .. k)
    BY <1>4
  <2>3. S \cap 1 .. k + 1 = (S \cap 1 .. k) \cup (IF k + 1 \in S THEN {k + 1} ELSE {})
    BY <2>1
  <2>4. CASE k + 1 \in S
    <3>1. S \cap 1 .. k \in SUBSET Nat /\ \A i \in S \cap 1 .. k : i < k + 1
      BY <2>1
    <3>2. Append(f[k], k + 1) \in Seq(Nat) /\ Ascends(Append(f[k], k + 1))
          /\ Lists(Append(f[k], k + 1), (S \cap 1 .. k) \cup {k + 1})
      BY <2>1, <2>2, <3>1, AppendAscends
    <3>3. f[k + 1] = Append(f[k], k + 1)
      BY <1>2, <2>1, <2>4
    <3> QED
      BY <2>1, <2>3, <2>4, <3>2, <3>3
  <2>5. CASE k + 1 \notin S
    <3>1. f[k + 1] = f[k] /\ S \cap 1 .. k + 1 = S \cap 1 .. k
      BY <1>2, <2>1, <2>3, <2>5
    <3> QED
      BY <2>1, <2>2, <3>1
  <2> QED
    BY <2>4, <2>5
<1> HIDE DEF Fine
<1>5. n \in Fine
  <2>1. \A k \in 0 .. n : k \in Fine /\ k < n => k + 1 \in Fine
    BY <1>4
  <2>2. \A k \in 0 .. n : k \in Fine
    BY <1>3, <2>1, UpTo
  <2> QED
    BY <2>2
<1> QED
  BY <1>1, <1>5 DEF Select, Fine, f

-----------------------------------------------------------------------------
(* A recursion over the elements of a list, and what FlattenSeq makes of  *)
(* a list of lists.                                                        *)

\* A recursive definition over the numbers from 1 to n has a solution.
Solves(g, n, base, G) == g = [i \in 1 .. n |-> IF i = 1 THEN base ELSE G[<<i, g[i - 1]>>]]

\* There is one for every number, whatever the step.
LEMMA Recursion ==
  ASSUME NEW n \in Nat, NEW V, NEW base \in V, NEW G \in [(1 .. n) \X V -> V]
  PROVE  \E g : Solves(g, n, base, G) /\ \A i \in 1 .. n : g[i] \in V
<1> DEFINE Fits(g, k) == /\ g = [i \in 1 .. k |-> IF i = 1 THEN base ELSE G[<<i, g[i - 1]>>]]
                         /\ \A i \in 1 .. k : g[i] \in V
           Good == {k \in Nat : \E g : Fits(g, k)}
<1>1. 0 \in Good
  <2>1. Fits(<<>>, 0)
    OBVIOUS
  <2> QED
    BY <2>1
<1>2. ASSUME NEW k \in 0 .. n, k \in Good, k < n
      PROVE  k + 1 \in Good
  <2>1. PICK g : Fits(g, k)
    BY <1>2
  <2> DEFINE last == IF k = 0 THEN base ELSE G[<<k + 1, g[k]>>]
             h == [i \in 1 .. k + 1 |-> IF i = k + 1 THEN last ELSE g[i]]
  <2>2. \A i \in 1 .. k : g[i] \in V /\ g[i] = IF i = 1 THEN base ELSE G[<<i, g[i - 1]>>]
    BY <2>1
  <2>3. last \in V
    <3>1. CASE k = 0
      BY <3>1
    <3>2. CASE k # 0
      <4>1. k \in 1 .. k /\ k + 1 \in 1 .. n
        BY <1>2, <3>2
      <4>2. g[k] \in V
        BY <2>2, <4>1
      <4>3. G[<<k + 1, g[k]>>] \in V
        BY <4>1, <4>2
      <4> QED
        BY <3>2, <4>3
    <3> QED
      BY <3>1, <3>2
  <2>4. ASSUME NEW i \in 1 .. k + 1
        PROVE  h[i] = (IF i = 1 THEN base ELSE G[<<i, h[i - 1]>>]) /\ h[i] \in V
    <3>1. CASE i = k + 1
      <4>1. h[i] = last /\ (k # 0 => h[i - 1] = g[k]) /\ (i = 1 <=> k = 0) /\ i - 1 = k
        BY <1>2, <3>1
      <4>2. last = IF k = 0 THEN base ELSE G[<<k + 1, g[k]>>]
        OBVIOUS
      <4> HIDE DEF h, last
      <4> QED
        BY <2>3, <3>1, <4>1, <4>2
    <3>2. CASE i \in 1 .. k
      <4>1. h[i] = g[i] /\ (i # 1 => h[i - 1] = g[i - 1])
        BY <1>2, <3>2
      <4> HIDE DEF h
      <4> QED
        BY <2>2, <3>2, <4>1
    <3> QED
      BY <1>2, <3>1, <3>2
  <2>5. h = [i \in 1 .. k + 1 |-> h[i]]
    OBVIOUS
  <2> HIDE DEF h
  <2>6. h = [i \in 1 .. k + 1 |-> IF i = 1 THEN base ELSE G[<<i, h[i - 1]>>]]
    BY <2>4, <2>5
  <2>7. Fits(h, k + 1)
    BY <2>4, <2>6
  <2>8. k + 1 \in Nat
    BY <1>2
  <2> HIDE DEF Fits, h
  <2> QED
    BY <2>7, <2>8
<1> HIDE DEF Good
<1>3. \A m \in 0 .. n : m \in Good
  BY <1>1, <1>2, UpTo
<1>4. n \in Good
  BY <1>3
<1> QED
  BY <1>4 DEF Good, Solves

\* The lists, one after the other: f[i] is the first i of them.
Joined(parts, f) ==
  f = [i \in 1 .. Len(parts) |-> IF i = 1 THEN parts[i] ELSE f[i - 1] \o parts[i]]

\* FlattenSeq joins them in their order.
LEMMA Flattens ==
  ASSUME NEW T, NEW parts \in Seq(Seq(T)), Len(parts) > 0
  PROVE  \E f : Joined(parts, f) /\ FlattenSeq(parts) = f[Len(parts)]
<1> DEFINE n == Len(parts)
           V == Seq(T)
           G == [p \in (1 .. n) \X V |-> p[2] \o parts[p[1]]]
<1>1. n \in Nat /\ \A i \in 1 .. n : parts[i] \in V
  OBVIOUS
<1>2. G \in [(1 .. n) \X V -> V]
  <2>1. \A p \in (1 .. n) \X V : p[1] \in 1 .. n /\ p[2] \in V
    OBVIOUS
  <2>2. \A p \in (1 .. n) \X V : p[2] \o parts[p[1]] \in V
    BY <1>1, <2>1
  <2> QED
    BY <2>2
<1>3. parts[1] \in V
  BY <1>1
<1>4. \A i \in 1 .. n, v \in V : G[<<i, v>>] = v \o parts[i]
  OBVIOUS
<1> HIDE DEF G, V, n
<1>5. PICK g : Solves(g, n, parts[1], G) /\ \A i \in 1 .. n : g[i] \in V
  <2>1. n \in Nat
    BY <1>1
  <2> QED
    BY <1>2, <1>3, <2>1, Recursion
<1>6. \A i \in 1 .. n : g[i] = IF i = 1 THEN parts[i] ELSE g[i - 1] \o parts[i]
  <2> SUFFICES ASSUME NEW i \in 1 .. n
               PROVE  g[i] = IF i = 1 THEN parts[i] ELSE g[i - 1] \o parts[i]
    OBVIOUS
  <2>1. g[i] = IF i = 1 THEN parts[1] ELSE G[<<i, g[i - 1]>>]
    BY <1>5 DEF Solves
  <2>2. i # 1 => i - 1 \in 1 .. n
    BY <1>1
  <2> QED
    BY <1>4, <1>5, <2>1, <2>2
<1>7. g = [i \in 1 .. n |-> g[i]]
  BY <1>5 DEF Solves
<1>8. Joined(parts, g)
  BY <1>6, <1>7 DEF Joined, n
<1> DEFINE f == CHOOSE f : Joined(parts, f)
<1>9. Joined(parts, f)
  BY <1>8
<1>10. FlattenSeq(parts) = f[n]
  BY <1>1 DEF FlattenSeq, Joined, n
<1> QED
  BY <1>9, <1>10 DEF n
=============================================================================
