---------------------------- MODULE Lists_proof ----------------------------
(***************************************************************************)
(* Facts about lists that the proofs about several parts rest on.  What a  *)
(* recursive function computes is shown by induction; the provers cannot   *)
(* instantiate the library's induction theorems, so Upward states it of a  *)
(* set of numbers instead of a predicate.                                  *)
(***************************************************************************)
EXTENDS Lists, SequencesExt, SequenceTheorems, WellFoundedInduction, TLAPS

(* A set that holds 0, and with each number below N the next, holds all up to N. *)
LEMMA Upward ==
    ASSUME NEW N \in Nat, NEW S, 0 \in S, \A n \in 0 .. N - 1 : n \in S => n + 1 \in S
    PROVE  0 .. N \subseteq S
<1> DEFINE less == {ss \in Nat \X Nat : ss[1] < ss[2]}
           out == (0 .. N) \ S
<1>1. IsWellFoundedOn(less, Nat)
  BY NatLessThanWellFounded DEF OpToRel
<1> SUFFICES ASSUME out # {}
             PROVE  FALSE
  OBVIOUS
<1>2. PICK least \in out : \A p \in out : ~(<<p, least>> \in less)
  <2>1. out \subseteq Nat
    OBVIOUS
  <2> HIDE DEF out, less
  <2> QED BY <1>1, <2>1, WFMin
<1>3. least # 0 /\ least - 1 \in 0 .. N - 1
  OBVIOUS
<1>4. least - 1 \in S
  <2>1. <<least - 1, least>> \in less
    BY <1>3
  <2> QED BY <1>2, <1>3, <2>1
<1> QED BY <1>3, <1>4

-----------------------------------------------------------------------------
(* What is left when one element goes: the ones before it, and the ones after it, one place earlier. *)
LEMMA Removed ==
    ASSUME NEW S, NEW s \in Seq(S), NEW t \in 1 .. Len(s)
    PROVE  /\ RemoveAt(s, t) \in Seq(S) /\ Len(RemoveAt(s, t)) = Len(s) - 1
           /\ \A i \in 1 .. Len(s) - 1 : RemoveAt(s, t)[i] = s[IF i < t THEN i ELSE i + 1]
<1> DEFINE before == SubSeq(s, 1, t - 1)
           after == SubSeq(s, t + 1, Len(s))
<1>1. Len(s) \in Nat /\ t \in Int /\ \A i \in 1 .. Len(s) : s[i] \in S
  BY LenProperties, ElementOfSeq
<1>2. /\ before \in Seq(S) /\ Len(before) = t - 1
      /\ \A i \in 1 .. t - 1 : before[i] = s[i]
  BY <1>1, SubSeqProperties
<1>3. /\ after \in Seq(S) /\ Len(after) = Len(s) - t
      /\ \A i \in 1 .. Len(s) - t : after[i] = s[t + i]
  <2>1. \A i \in t + 1 .. Len(s) : s[i] \in S
    BY <1>1
  <2>2. /\ after \in Seq(S) /\ Len(after) = IF t + 1 <= Len(s) THEN Len(s) - (t + 1) + 1 ELSE 0
        /\ \A i \in 1 .. Len(s) - (t + 1) + 1 : after[i] = s[(t + 1) + i - 1]
    BY <1>1, <2>1, SubSeqProperties
  <2> QED BY <1>1, <2>2
<1>4. RemoveAt(s, t) = before \o after
  BY DEF RemoveAt
<1> HIDE DEF before, after
<1>5. /\ before \o after \in Seq(S) /\ Len(before \o after) = Len(before) + Len(after)
      /\ \A i \in 1 .. Len(before) + Len(after) :
            (before \o after)[i] = IF i <= Len(before) THEN before[i] ELSE after[i - Len(before)]
  BY <1>2, <1>3, ConcatProperties
<1>6. ASSUME NEW i \in 1 .. Len(s) - 1
      PROVE  RemoveAt(s, t)[i] = s[IF i < t THEN i ELSE i + 1]
  <2>1. i \in 1 .. Len(before) + Len(after)
    BY <1>1, <1>2, <1>3
  <2>2. CASE i < t
    BY <1>1, <1>2, <1>4, <1>5, <2>1, <2>2
  <2>3. CASE ~(i < t)
    <3>1. i - (t - 1) \in 1 .. Len(s) - t /\ ~(i <= t - 1) /\ t + (i - (t - 1)) = i + 1
      BY <1>1, <2>3
    <3>2. RemoveAt(s, t)[i] = after[i - (t - 1)]
      BY <1>2, <1>4, <1>5, <2>1, <3>1
    <3> QED BY <1>3, <2>3, <3>1, <3>2
  <2> QED BY <2>2, <2>3
<1> QED BY <1>1, <1>2, <1>3, <1>4, <1>5, <1>6

(* The least of some numbers. *)
LEMMA Least ==
    ASSUME NEW I \in SUBSET Nat, I # {}
    PROVE  Min(I) \in I /\ \A i \in I : Min(I) <= i
<1> DEFINE less == {ss \in Nat \X Nat : ss[1] < ss[2]}
<1>1. IsWellFoundedOn(less, Nat)
  BY NatLessThanWellFounded DEF OpToRel
<1>2. PICK least \in I : \A i \in I : ~(<<i, least>> \in less)
  BY <1>1, WFMin
<1>3. ASSUME NEW i \in I
      PROVE  least <= i
  <2>1. i < least => <<i, least>> \in less
    OBVIOUS
  <2> QED BY <1>2, <2>1
<1> QED BY <1>3 DEF Min

-----------------------------------------------------------------------------
(* What Filtered computes, from the first element on. *)
Extended(s, keep, f, n) == IF s[n] \in keep THEN Append(f[n - 1], s[n]) ELSE f[n - 1]
ComputesFiltered(s, keep, f, m) ==
    /\ f = [n \in 0 .. m |-> f[n]]
    /\ f[0] = <<>>
    /\ \A n \in 1 .. m : f[n] = Extended(s, keep, f, n)

LEMMA FilteredComputed ==
    ASSUME NEW s, Len(s) \in Nat, NEW keep
    PROVE  \E f : ComputesFiltered(s, keep, f, Len(s)) /\ Filtered(s, keep) = f[Len(s)]
<1> DEFINE N == Len(s)
           good == {m \in 0 .. N : \E f : ComputesFiltered(s, keep, f, m)}
           Body(f) == [n \in 0 .. N |->
                         IF n = 0 THEN <<>>
                         ELSE IF s[n] \in keep THEN Append(f[n - 1], s[n]) ELSE f[n - 1]]
           all == CHOOSE f : f = Body(f)
<1>1. 0 \in good
  <2>1. ComputesFiltered(s, keep, [n \in 0 .. 0 |-> <<>>], 0)
    BY DEF ComputesFiltered
  <2> QED BY <2>1
<1>2. ASSUME NEW m \in 0 .. N - 1, m \in good
      PROVE  m + 1 \in good
  <2>1. PICK f : ComputesFiltered(s, keep, f, m)
    BY <1>2
  <2> DEFINE last == Extended(s, keep, f, m + 1)
             g == [n \in 0 .. m + 1 |-> IF n = m + 1 THEN last ELSE f[n]]
  <2>2. g[0] = <<>> /\ g[m + 1] = last /\ \A n \in 0 .. m : g[n] = f[n]
    BY <2>1 DEF ComputesFiltered
  <2>3. g = [n \in 0 .. m + 1 |-> g[n]]
    OBVIOUS
  <2> HIDE DEF g
  <2>4. ASSUME NEW n \in 1 .. m + 1
        PROVE  g[n] = Extended(s, keep, g, n)
    <3>1. n - 1 \in 0 .. m /\ g[n - 1] = f[n - 1]
      BY <2>2
    <3>2. CASE n = m + 1
      BY <2>2, <3>1, <3>2 DEF Extended
    <3>3. CASE n # m + 1
      <4>1. n \in 1 .. m /\ g[n] = f[n]
        BY <2>2, <3>3
      <4>2. f[n] = Extended(s, keep, f, n)
        BY <2>1, <4>1 DEF ComputesFiltered
      <4> QED BY <3>1, <4>1, <4>2 DEF Extended
    <3> QED BY <3>2, <3>3
  <2>5. ComputesFiltered(s, keep, g, m + 1)
    BY <2>2, <2>3, <2>4 DEF ComputesFiltered
  <2> QED BY <2>5
<1>3. N \in good
  <2> HIDE DEF good
  <2>1. 0 .. N \subseteq good
    BY <1>1, <1>2, Upward
  <2> QED BY <2>1
<1>4. PICK f : ComputesFiltered(s, keep, f, N)
  BY <1>3
<1>5. f = Body(f)
  <2>1. ASSUME NEW n \in 0 .. N
        PROVE  f[n] = IF n = 0 THEN <<>>
                      ELSE IF s[n] \in keep THEN Append(f[n - 1], s[n]) ELSE f[n - 1]
    <3>1. n # 0 => f[n] = Extended(s, keep, f, n)
      BY <1>1, <1>4 DEF ComputesFiltered
    <3>2. f[0] = <<>>
      BY <1>4 DEF ComputesFiltered
    <3> QED BY <3>1, <3>2 DEF Extended
  <2>2. f = [n \in 0 .. N |-> f[n]]
    BY <1>4 DEF ComputesFiltered
  <2> QED BY <2>1, <2>2
<1>6. all = Body(all)
  BY <1>5
<1>7. ComputesFiltered(s, keep, all, N)
  <2>1. all = [n \in 0 .. N |-> all[n]] /\ all[0] = <<>> /\ \A n \in 1 .. N : all[n] = Extended(s, keep, all, n)
    <3> HIDE DEF all
    <3>1. \A n \in 0 .. N : all[n] = IF n = 0 THEN <<>>
                                    ELSE IF s[n] \in keep THEN Append(all[n - 1], s[n]) ELSE all[n - 1]
      BY <1>6
    <3>2. all = [n \in 0 .. N |-> all[n]]
      BY <1>6
    <3>3. ASSUME NEW n \in 1 .. N
          PROVE  all[n] = Extended(s, keep, all, n)
      <4>1. n \in 0 .. N /\ n # 0
        OBVIOUS
      <4> QED BY <3>1, <4>1 DEF Extended
    <3>4. all[0] = <<>>
      <4>1. 0 \in 0 .. N
        OBVIOUS
      <4> QED BY <3>1, <4>1
    <3> QED BY <3>2, <3>3, <3>4
  <2> HIDE DEF all
  <2> QED BY <2>1 DEF ComputesFiltered
<1>8. Filtered(s, keep) = all[N]
  BY DEF Filtered
<1> QED BY <1>7, <1>8

(* The elements are those of s that are in keep, and there are no more of them than s has. *)
LEMMA FilteredIs ==
    ASSUME NEW S, NEW s \in Seq(S), NEW keep
    PROVE  /\ Filtered(s, keep) \in Seq(S) /\ Len(Filtered(s, keep)) \in 0 .. Len(s)
           /\ \A i \in 1 .. Len(Filtered(s, keep)) : Filtered(s, keep)[i] \in keep /\ \E j \in 1 .. Len(s) : s[j] = Filtered(s, keep)[i]
           /\ \A j \in 1 .. Len(s) : s[j] \in keep => \E i \in 1 .. Len(Filtered(s, keep)) : Filtered(s, keep)[i] = s[j]
<1> DEFINE N == Len(s)
           Fits(k, n) ==
             /\ k \in Seq(S) /\ Len(k) \in 0 .. n
             /\ \A i \in 1 .. Len(k) : k[i] \in keep /\ \E j \in 1 .. n : s[j] = k[i]
             /\ \A j \in 1 .. n : s[j] \in keep => \E i \in 1 .. Len(k) : k[i] = s[j]
<1>1. N \in Nat /\ \A n \in 1 .. N : s[n] \in S
  BY LenProperties, ElementOfSeq
<1>2. PICK f : ComputesFiltered(s, keep, f, N) /\ Filtered(s, keep) = f[N]
  BY <1>1, FilteredComputed
<1> DEFINE good == {n \in 0 .. N : Fits(f[n], n)}
<1>3. 0 \in good
  <2>1. f[0] = <<>> /\ <<>> \in Seq(S) /\ Len(<<>>) = 0
    BY <1>2 DEF ComputesFiltered
  <2>2. Fits(f[0], 0)
    BY <2>1
  <2> HIDE DEF Fits
  <2> QED BY <1>1, <2>2
<1>4. ASSUME NEW n \in 0 .. N - 1, n \in good
      PROVE  n + 1 \in good
  <2> DEFINE k == f[n]
             x == s[n + 1]
             l == f[n + 1]
  <2>1. Fits(k, n) /\ n + 1 \in 1 .. N /\ x \in S
    BY <1>1, <1>4
  <2>2. l = IF x \in keep THEN Append(k, x) ELSE k
    <3>1. f[n + 1] = Extended(s, keep, f, n + 1)
      BY <1>2, <2>1 DEF ComputesFiltered
    <3>2. (n + 1) - 1 = n
      OBVIOUS
    <3> QED BY <3>1, <3>2 DEF Extended
  <2> HIDE DEF k, l
  <2>3. CASE x \in keep
    <3>1. /\ Append(k, x) \in Seq(S) /\ Len(Append(k, x)) = Len(k) + 1 /\ Append(k, x)[Len(k) + 1] = x
          /\ \A i \in 1 .. Len(k) : Append(k, x)[i] = k[i]
      BY <2>1, AppendProperties
    <3> DEFINE a == Append(k, x)
    <3> HIDE DEF a
    <3>2. Len(k) \in Nat /\ Len(a) = Len(k) + 1 /\ a[Len(k) + 1] = x /\ \A i \in 1 .. Len(k) : a[i] = k[i]
      BY <2>1, <3>1 DEF a
    <3>3. \A i \in 1 .. Len(a) : a[i] \in keep /\ \E j \in 1 .. n + 1 : s[j] = a[i]
      <4> SUFFICES ASSUME NEW i \in 1 .. Len(a)
                   PROVE  a[i] \in keep /\ \E j \in 1 .. n + 1 : s[j] = a[i]
        OBVIOUS
      <4>1. CASE i = Len(k) + 1
        BY <2>3, <3>2, <4>1
      <4>2. CASE i # Len(k) + 1
        <5>1. i \in 1 .. Len(k)
          BY <3>2, <4>2
        <5> QED BY SMTT(60), <2>1, <3>2, <5>1
      <4> QED BY <4>1, <4>2
    <3>4. \A j \in 1 .. n + 1 : s[j] \in keep => \E i \in 1 .. Len(a) : a[i] = s[j]
      <4> SUFFICES ASSUME NEW j \in 1 .. n + 1, s[j] \in keep
                   PROVE  \E i \in 1 .. Len(a) : a[i] = s[j]
        OBVIOUS
      <4>1. CASE j = n + 1
        BY <3>2, <4>1
      <4>2. CASE j # n + 1
        <5>1. j \in 1 .. n
          BY <4>2
        <5>2. PICK i \in 1 .. Len(k) : k[i] = s[j]
          BY <2>1, <5>1
        <5>3. i \in 1 .. Len(a) /\ a[i] = s[j]
          BY <3>2, <5>2
        <5> QED BY <5>3
      <4> QED BY <4>1, <4>2
    <3>5. l = a /\ a \in Seq(S) /\ Len(a) \in 0 .. n + 1
      BY <2>1, <2>2, <2>3, <3>1, <3>2 DEF a
    <3>6. Fits(l, n + 1)
      BY <3>3, <3>4, <3>5
    <3> QED BY <2>1, <3>6 DEF l
  <2>4. CASE x \notin keep
    <3>1. l = k
      BY <2>2, <2>4
    <3>2. \A j \in 1 .. n + 1 : s[j] \in keep => j \in 1 .. n
      BY <2>4
    <3>3. Fits(l, n + 1)
      BY <2>1, <3>1, <3>2
    <3> QED BY <2>1, <3>3 DEF l
  <2> QED BY <2>3, <2>4
<1>5. N \in good
  <2> HIDE DEF good
  <2>1. 0 .. N \subseteq good
    BY <1>1, <1>3, <1>4, Upward
  <2> QED BY <1>1, <2>1
<1>6. Fits(Filtered(s, keep), N)
  BY <1>2, <1>5
<1> QED BY <1>6

(* Of a list whose elements are in keep from some place on, the end is kept. *)
LEMMA FilteredEnd ==
    ASSUME NEW S, NEW s \in Seq(S), NEW keep, \A i, j \in 1 .. Len(s) : i < j /\ s[i] \in keep => s[j] \in keep
    PROVE  LET k == Filtered(s, keep)
               d == Len(s) - Len(k)
           IN /\ \A i \in 1 .. Len(k) : k[i] = s[d + i]
              /\ \A i \in 1 .. d : s[i] \notin keep
<1> DEFINE N == Len(s)
           Fits(k, n) ==
             /\ k \in Seq(S) /\ Len(k) \in 0 .. n
             /\ \A i \in 1 .. Len(k) : k[i] = s[(n - Len(k)) + i] /\ k[i] \in keep
             /\ \A i \in 1 .. n - Len(k) : s[i] \notin keep
<1>1. N \in Nat /\ \A n \in 1 .. N : s[n] \in S
  BY LenProperties, ElementOfSeq
<1>2. PICK f : ComputesFiltered(s, keep, f, N) /\ Filtered(s, keep) = f[N]
  BY <1>1, FilteredComputed
<1> DEFINE good == {n \in 0 .. N : Fits(f[n], n)}
<1>3. 0 \in good
  <2>1. f[0] = <<>> /\ <<>> \in Seq(S) /\ Len(<<>>) = 0
    BY <1>2 DEF ComputesFiltered
  <2>2. Fits(f[0], 0)
    BY <2>1
  <2> HIDE DEF Fits
  <2> QED BY <1>1, <2>2
<1>4. ASSUME NEW n \in 0 .. N - 1, n \in good
      PROVE  n + 1 \in good
  <2> DEFINE k == f[n]
             x == s[n + 1]
             l == f[n + 1]
  <2>1. Fits(k, n) /\ n + 1 \in 1 .. N /\ x \in S
    BY <1>1, <1>4
  <2>2. l = IF x \in keep THEN Append(k, x) ELSE k
    <3>1. f[n + 1] = Extended(s, keep, f, n + 1)
      BY <1>2, <2>1 DEF ComputesFiltered
    <3>2. (n + 1) - 1 = n
      OBVIOUS
    <3> QED BY <3>1, <3>2 DEF Extended
  <2> HIDE DEF k, l
  <2>3. CASE x \in keep
    <3> DEFINE a == Append(k, x)
    <3>1. /\ a \in Seq(S) /\ Len(a) = Len(k) + 1 /\ a[Len(k) + 1] = x /\ Len(k) \in 0 .. n
          /\ \A i \in 1 .. Len(k) : a[i] = k[i]
      BY <2>1, AppendProperties
    <3>2. l = a
      BY <2>2, <2>3
    <3> HIDE DEF a
    <3>3. ASSUME NEW i \in 1 .. Len(a)
          PROVE  a[i] = s[((n + 1) - Len(a)) + i] /\ a[i] \in keep
      <4>1. ((n + 1) - Len(a)) + i = (n - Len(k)) + i
        BY <3>1
      <4>2. CASE i = Len(k) + 1
        <5>1. (n - Len(k)) + i = n + 1
          BY <3>1, <4>2
        <5> QED BY <2>3, <3>1, <4>1, <4>2, <5>1
      <4>3. CASE i # Len(k) + 1
        <5>1. i \in 1 .. Len(k)
          BY <3>1, <4>3
        <5> QED BY <2>1, <3>1, <4>1, <5>1
      <4> QED BY <4>2, <4>3
    <3>4. (n + 1) - Len(a) = n - Len(k) /\ Len(a) \in 0 .. n + 1
      BY <3>1
    <3>5. Fits(a, n + 1)
      BY <2>1, <3>1, <3>3, <3>4
    <3>6. Fits(l, n + 1) /\ n + 1 \in 0 .. N
      BY <2>1, <3>2, <3>5
    <3> HIDE DEF Fits
    <3> QED BY <3>6 DEF l
  <2>4. CASE x \notin keep
    <3>1. ASSUME NEW i \in 1 .. n
          PROVE  s[i] \notin keep
      <4>1. i < n + 1 /\ i \in 1 .. N
        BY <1>1
      <4> QED BY <2>1, <2>4, <4>1
    <3>2. Len(k) = 0
      <4>1. Len(k) # 0 => 1 \in 1 .. Len(k) /\ (n - Len(k)) + 1 \in 1 .. n
        BY <2>1
      <4> QED BY <2>1, <3>1, <4>1
    <3>3. l = k
      BY <2>2, <2>4
    <3>4. \A i \in 1 .. n + 1 : s[i] \notin keep
      BY <2>4, <3>1
    <3>5. Fits(l, n + 1)
      BY <2>1, <3>2, <3>3, <3>4
    <3> QED BY <2>1, <3>5 DEF l
  <2> QED BY <2>3, <2>4
<1>5. N \in good
  <2> HIDE DEF good
  <2>1. 0 .. N \subseteq good
    BY <1>1, <1>3, <1>4, Upward
  <2> QED BY <1>1, <2>1
<1>6. Fits(Filtered(s, keep), N)
  BY <1>2, <1>5
<1> QED BY <1>6

(* One after the other, lists of elements of S are a list of elements of S. *)
LEMMA FlattenedIs ==
    ASSUME NEW S, NEW lists, Len(lists) \in Nat, lists = <<>> \/ Len(lists) > 0,
           \A i \in 1 .. Len(lists) : lists[i] \in Seq(S)
    PROVE  FlattenSeq(lists) \in Seq(S)
<1> DEFINE N == Len(lists)
           Body(f) == [i \in 1 .. N |-> IF i = 1 THEN lists[i] ELSE f[i - 1] \o lists[i]]
           Computes(f, m) ==
             /\ f = [n \in 1 .. m |-> f[n]]
             /\ \A n \in 1 .. m : f[n] = IF n = 1 THEN lists[n] ELSE f[n - 1] \o lists[n]
           good == {m \in 0 .. N : \E f : Computes(f, m) /\ \A n \in 1 .. m : f[n] \in Seq(S)}
           all == CHOOSE f : f = Body(f)
<1>1. 0 \in good
  <2>1. Computes([n \in 1 .. 0 |-> <<>>], 0)
    OBVIOUS
  <2>2. \A n \in 1 .. 0 : FALSE
    OBVIOUS
  <2> HIDE DEF Computes
  <2> QED BY <2>1, <2>2
<1>2. ASSUME NEW m \in 0 .. N - 1, m \in good
      PROVE  m + 1 \in good
  <2>1. PICK f : Computes(f, m) /\ \A n \in 1 .. m : f[n] \in Seq(S)
    BY <1>2
  <2> DEFINE last == IF m = 0 THEN lists[m + 1] ELSE f[m] \o lists[m + 1]
             g == [n \in 1 .. m + 1 |-> IF n = m + 1 THEN last ELSE f[n]]
  <2>2. g[m + 1] = last /\ \A n \in 1 .. m : g[n] = f[n]
    <3> HIDE DEF last
    <3>1. m + 1 \in 1 .. m + 1 /\ \A n \in 1 .. m : n \in 1 .. m + 1 /\ n # m + 1
      OBVIOUS
    <3> QED BY <3>1
  <2>3. g = [n \in 1 .. m + 1 |-> g[n]]
    <3> HIDE DEF last
    <3> QED OBVIOUS
  <2>4. last \in Seq(S)
    <3>1. lists[m + 1] \in Seq(S) /\ (m # 0 => f[m] \in Seq(S))
      BY <2>1
    <3> QED BY <3>1, ConcatProperties
  <2> HIDE DEF g, last
  <2>5. ASSUME NEW n \in 1 .. m + 1
        PROVE  g[n] = (IF n = 1 THEN lists[n] ELSE g[n - 1] \o lists[n]) /\ g[n] \in Seq(S)
    <3>1. CASE n = m + 1
      <4>1. g[n] = last /\ (n # 1 => n - 1 = m /\ m \in 1 .. m /\ g[n - 1] = f[m])
        BY <2>2, <3>1
      <4>2. n = 1 <=> m = 0
        BY <3>1
      <4> QED BY <2>4, <3>1, <4>1, <4>2 DEF last
    <3>2. CASE n # m + 1
      <4>1. n \in 1 .. m /\ g[n] = f[n] /\ (n # 1 => n - 1 \in 1 .. m /\ g[n - 1] = f[n - 1])
        BY <2>2, <3>2
      <4> QED BY <2>1, <4>1
    <3> QED BY <3>1, <3>2
  <2>6. Computes(g, m + 1) /\ \A n \in 1 .. m + 1 : g[n] \in Seq(S)
    BY <2>3, <2>5
  <2> HIDE DEF Computes
  <2> QED BY <2>6
<1>3. N \in good
  <2> HIDE DEF good
  <2>1. 0 .. N \subseteq good
    BY <1>1, <1>2, Upward
  <2> QED BY <2>1
<1>4. PICK f : Computes(f, N) /\ \A n \in 1 .. N : f[n] \in Seq(S)
  BY <1>3
<1>5. f = Body(f)
  BY <1>4
<1>6. all = Body(all)
  BY <1>5
<1> DEFINE sound == {m \in 0 .. N : m = 0 \/ all[m] \in Seq(S)}
<1>7. \A n \in 1 .. N : all[n] = IF n = 1 THEN lists[n] ELSE all[n - 1] \o lists[n]
  <2> HIDE DEF all
  <2> QED BY <1>6
<1> HIDE DEF all
<1>8. ASSUME NEW m \in 0 .. N - 1, m \in sound
      PROVE  m + 1 \in sound
  <2>1. m + 1 \in 1 .. N /\ lists[m + 1] \in Seq(S) /\ (m + 1) - 1 = m /\ (m + 1 = 1 <=> m = 0)
    OBVIOUS
  <2>2. all[m + 1] = IF m = 0 THEN lists[m + 1] ELSE all[m] \o lists[m + 1]
    BY <1>7, <2>1
  <2>3. m # 0 => all[m] \in Seq(S)
    BY <1>8
  <2>4. m # 0 => all[m] \o lists[m + 1] \in Seq(S)
    BY <2>1, <2>3, ConcatProperties
  <2>5. all[m + 1] \in Seq(S) /\ m + 1 \in 0 .. N
    BY <2>1, <2>2, <2>4
  <2> QED BY <2>5
<1>9. N # 0 => all[N] \in Seq(S)
  <2>1. 0 \in sound
    OBVIOUS
  <2> HIDE DEF sound
  <2>2. 0 .. N \subseteq sound
    BY <1>8, <2>1, Upward
  <2> QED BY <2>2 DEF sound
<1>10. N # 0 => FlattenSeq(lists) = all[N]
  BY DEF FlattenSeq, all
<1>11. N = 0 => FlattenSeq(lists) = <<>> /\ <<>> \in Seq(S)
  BY DEF FlattenSeq
<1> QED BY <1>9, <1>10, <1>11

(* The elements that are left come in the order in which they were. *)
LEMMA FilteredAt ==
    ASSUME NEW S, NEW s \in Seq(S), NEW keep
    PROVE  \E at \in [1 .. Len(Filtered(s, keep)) -> 1 .. Len(s)] :
              /\ \A i \in 1 .. Len(Filtered(s, keep)) : Filtered(s, keep)[i] = s[at[i]]
              /\ \A i, j \in 1 .. Len(Filtered(s, keep)) : i < j => at[i] < at[j]
<1> DEFINE N == Len(s)
           Places(k, at) ==
             /\ \A i \in 1 .. Len(k) : k[i] = s[at[i]]
             /\ \A i, j \in 1 .. Len(k) : i < j => at[i] < at[j]
           Fits(k, n) == k \in Seq(S) /\ \E at \in [1 .. Len(k) -> 1 .. n] : Places(k, at)
<1>1. N \in Nat /\ \A n \in 1 .. N : s[n] \in S
  BY LenProperties, ElementOfSeq
<1>2. PICK f : ComputesFiltered(s, keep, f, N) /\ Filtered(s, keep) = f[N]
  BY <1>1, FilteredComputed
<1> DEFINE good == {n \in 0 .. N : Fits(f[n], n)}
<1>3. 0 \in good
  <2>1. f[0] = <<>> /\ <<>> \in Seq(S) /\ Len(<<>>) = 0
    BY <1>2 DEF ComputesFiltered
  <2>2. [i \in 1 .. 0 |-> 1] \in [1 .. 0 -> 1 .. 0] /\ Places(<<>>, [i \in 1 .. 0 |-> 1])
    BY <2>1
  <2> HIDE DEF Places
  <2>3. Fits(f[0], 0)
    BY <2>1, <2>2
  <2> HIDE DEF Fits
  <2> QED BY <1>1, <2>3
<1>4. ASSUME NEW n \in 0 .. N - 1, n \in good
      PROVE  n + 1 \in good
  <2> DEFINE k == f[n]
             x == s[n + 1]
             l == f[n + 1]
  <2>1. k \in Seq(S) /\ n + 1 \in 1 .. N /\ x \in S /\ Len(k) \in Nat
    BY <1>1, <1>4, LenProperties
  <2>2. PICK at \in [1 .. Len(k) -> 1 .. n] : Places(k, at)
    BY <1>4
  <2>3. l = IF x \in keep THEN Append(k, x) ELSE k
    <3>1. f[n + 1] = Extended(s, keep, f, n + 1)
      BY <1>2, <2>1 DEF ComputesFiltered
    <3>2. (n + 1) - 1 = n
      OBVIOUS
    <3> QED BY <3>1, <3>2 DEF Extended
  <2> HIDE DEF k, l
  <2>4. CASE x \in keep
    <3> DEFINE a == Append(k, x)
               m == Len(k)
               to == [i \in 1 .. m + 1 |-> IF i = m + 1 THEN n + 1 ELSE at[i]]
    <3>1. /\ a \in Seq(S) /\ Len(a) = m + 1 /\ a[m + 1] = x
          /\ \A i \in 1 .. m : a[i] = k[i]
      BY <2>1, AppendProperties
    <3>2. m \in Nat /\ at \in [1 .. m -> 1 .. n]
      BY <2>1, <2>2
    <3> HIDE DEF a, m
    <3>3. to[m + 1] = n + 1 /\ \A i \in 1 .. m : to[i] = at[i] /\ at[i] \in 1 .. n
      BY <3>2
    <3>4. to \in [1 .. m + 1 -> 1 .. n + 1]
      BY <3>2
    <3> HIDE DEF to
    <3>5. ASSUME NEW i \in 1 .. m + 1
          PROVE  a[i] = s[to[i]]
      <4>1. CASE i = m + 1
        BY <3>1, <3>3, <4>1
      <4>2. CASE i # m + 1
        <5>1. i \in 1 .. m
          BY <3>2, <4>2
        <5> QED BY <2>2, <3>1, <3>3, <5>1 DEF m
      <4> QED BY <4>1, <4>2
    <3>6. ASSUME NEW i \in 1 .. m + 1, NEW j \in 1 .. m + 1, i < j
          PROVE  to[i] < to[j]
      <4>1. i \in 1 .. m
        BY <3>2, <3>6
      <4>2. CASE j = m + 1
        BY <3>3, <4>1, <4>2
      <4>3. CASE j # m + 1
        <5>1. j \in 1 .. m
          BY <3>2, <4>3
        <5> QED BY <2>2, <3>3, <3>6, <4>1, <5>1 DEF m
      <4> QED BY <4>2, <4>3
    <3>7. Places(a, to) /\ to \in [1 .. Len(a) -> 1 .. n + 1]
      BY <3>1, <3>4, <3>5, <3>6
    <3>8. l = a
      BY <2>3, <2>4 DEF a
    <3> HIDE DEF Places
    <3>9. Fits(l, n + 1)
      BY <3>1, <3>7, <3>8
    <3> QED BY <2>1, <3>9 DEF l
  <2>5. CASE x \notin keep
    <3>1. l = k /\ at \in [1 .. Len(k) -> 1 .. n + 1]
      BY <2>1, <2>3, <2>5
    <3> HIDE DEF Places
    <3>2. Fits(l, n + 1)
      BY <2>1, <2>2, <3>1
    <3> QED BY <2>1, <3>2 DEF l
  <2> QED BY <2>4, <2>5
<1>5. N \in good
  <2> HIDE DEF good
  <2>1. 0 .. N \subseteq good
    BY <1>1, <1>3, <1>4, Upward
  <2> QED BY <1>1, <2>1
<1>6. Fits(Filtered(s, keep), N)
  BY <1>2, <1>5
<1> QED BY <1>6

(* Of different elements, the first one stays the first, and no other one becomes it. *)
LEMMA FilteredFirst ==
    ASSUME NEW S, NEW s \in Seq(S), NEW keep, \A i \in 2 .. Len(s) : s[i] # s[1]
    PROVE  LET k == Filtered(s, keep) IN
           /\ s[1] \in keep /\ Len(s) > 0 => k # <<>> /\ k[1] = s[1]
           /\ \A i \in 1 .. Len(k) : k[i] = s[1] => i = 1 /\ s[1] \in keep
<1> DEFINE k == Filtered(s, keep)
<1>1. Len(s) \in Nat /\ k \in Seq(S) /\ Len(k) \in Nat
  BY LenProperties, FilteredIs
<1>2. PICK at \in [1 .. Len(k) -> 1 .. Len(s)] :
         /\ \A i \in 1 .. Len(k) : k[i] = s[at[i]]
         /\ \A i, j \in 1 .. Len(k) : i < j => at[i] < at[j]
  BY FilteredAt
<1>3. /\ \A i \in 1 .. Len(k) : k[i] \in keep
      /\ \A j \in 1 .. Len(s) : s[j] \in keep => \E i \in 1 .. Len(k) : k[i] = s[j]
  BY FilteredIs
<1> HIDE DEF k
<1>4. ASSUME NEW i \in 1 .. Len(k), k[i] = s[1]
      PROVE  i = 1 /\ s[1] \in keep
  <2>1. at[i] = 1
    <3>1. at[i] \in 1 .. Len(s) /\ s[at[i]] = s[1]
      BY <1>2, <1>4
    <3>2. at[i] # 1 => at[i] \in 2 .. Len(s)
      BY <1>1, <3>1
    <3> QED BY <3>1, <3>2
  <2>2. i # 1 => 1 \in 1 .. Len(k) /\ 1 < i /\ at[1] \in Nat /\ at[1] > 0
    BY <1>1, <1>2
  <2>3. i = 1
    BY <1>2, <2>1, <2>2
  <2> QED BY <1>3, <1>4, <2>3
<1>5. ASSUME s[1] \in keep, Len(s) > 0
      PROVE  k # <<>> /\ k[1] = s[1]
  <2>1. PICK i \in 1 .. Len(k) : k[i] = s[1]
    BY <1>1, <1>3, <1>5
  <2>2. i = 1
    BY <1>4, <2>1
  <2>3. Len(k) # 0
    BY <1>1, <2>1
  <2>4. k # <<>>
    BY <2>3
  <2> QED BY <2>1, <2>2, <2>4
<1> QED BY <1>4, <1>5 DEF k

-----------------------------------------------------------------------------
(* What is computed in N steps, the next always from the last, can be computed. *)
StepsFrom(x, f, next, S, N) ==
    f \in [0 .. N -> S] /\ f[0] = x /\ \A k \in 1 .. N : f[k] = next[k][f[k - 1]]

LEMMA Stepwise ==
    ASSUME NEW S, NEW x \in S, NEW N \in Nat, NEW next \in [1 .. N -> [S -> S]]
    PROVE  \E f : StepsFrom(x, f, next, S, N)
<1> DEFINE Right(f, m) == f \in [0 .. m -> S] /\ f[0] = x /\ \A k \in 1 .. m : f[k] = next[k][f[k - 1]]
           good == {m \in 0 .. N : \E f : Right(f, m)}
<1>1. 0 \in good
  <2> DEFINE only == [n \in 0 .. 0 |-> x]
  <2>1. Right(only, 0)
    OBVIOUS
  <2> HIDE DEF only
  <2>2. \E f : Right(f, 0)
    BY <2>1
  <2> QED BY <2>2
<1>2. ASSUME NEW m \in 0 .. N - 1, m \in good
      PROVE  m + 1 \in good
  <2>1. PICK f : Right(f, m)
    BY <1>2
  <2> DEFINE last == next[m + 1][f[m]]
             g == [n \in 0 .. m + 1 |-> IF n = m + 1 THEN last ELSE f[n]]
  <2>2. last \in S
    <3>1. m + 1 \in 1 .. N /\ f[m] \in S
      BY <2>1
    <3> QED BY <3>1
  <2>3. g[0] = x /\ g[m + 1] = last /\ \A n \in 0 .. m : g[n] = f[n]
    BY <2>1
  <2>4. g \in [0 .. m + 1 -> S]
    <3>1. ASSUME NEW n \in 0 .. m + 1
          PROVE  (IF n = m + 1 THEN last ELSE f[n]) \in S
      <4>1. CASE n = m + 1
        BY <2>2, <4>1
      <4>2. CASE n # m + 1
        <5>1. n \in 0 .. m
          BY <4>2
        <5> QED BY <2>1, <4>2, <5>1
      <4> QED BY <4>1, <4>2
    <3> HIDE DEF last
    <3> QED BY <3>1
  <2> HIDE DEF g
  <2>5. ASSUME NEW k \in 1 .. m + 1
        PROVE  g[k] = next[k][g[k - 1]]
    <3>1. k - 1 \in 0 .. m /\ g[k - 1] = f[k - 1]
      BY <2>3
    <3>2. CASE k = m + 1
      BY <2>3, <3>1, <3>2
    <3>3. CASE k # m + 1
      <4>1. k \in 1 .. m /\ k \in 0 .. m
        BY <3>3
      <4> QED BY <2>1, <2>3, <3>1, <4>1
    <3> QED BY <3>2, <3>3
  <2>6. Right(g, m + 1)
    BY <2>3, <2>4, <2>5
  <2> QED BY <2>6
<1>3. N \in good
  <2> HIDE DEF good
  <2>1. 0 .. N \subseteq good
    BY <1>1, <1>2, Upward
  <2> QED BY <2>1
<1>4. PICK f : Right(f, N)
  BY <1>3
<1> QED BY <1>4 DEF StepsFrom
=============================================================================
