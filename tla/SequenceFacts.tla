---------------------------- MODULE SequenceFacts ----------------------------
(***************************************************************************)
(* Facts about sequences that the proofs about queues of locks, of editors *)
(* and of messages have in common.                                         *)
(***************************************************************************)
EXTENDS Integers, Sequences, SequencesExt, SequenceTheorems, WellFoundedInduction, TLAPS

\* Removing one element by its place.
LEMMA RemoveAtIs ==
    ASSUME NEW S, NEW q \in Seq(S), NEW k \in 1 .. Len(q)
    PROVE  /\ RemoveAt(q, k) \in Seq(S) /\ Len(RemoveAt(q, k)) = Len(q) - 1
           /\ \A i \in 1 .. Len(q) - 1 :
                RemoveAt(q, k)[i] = IF i < k THEN q[i] ELSE q[i + 1]
<1> DEFINE before == SubSeq(q, 1, k - 1)
           after == SubSeq(q, k + 1, Len(q))
<1>1. Len(q) \in Nat /\ \A i \in 1 .. Len(q) : q[i] \in S
  BY LenProperties, ElementOfSeq
<1>2. /\ before \in Seq(S) /\ Len(before) = k - 1
      /\ \A i \in 1 .. k - 1 : before[i] = q[i]
  <2>1. \A i \in 1 .. k - 1 : q[i] \in S
    BY <1>1
  <2> QED
    BY <1>1, <2>1, SubSeqProperties
<1>3. /\ after \in Seq(S) /\ Len(after) = Len(q) - k
      /\ \A i \in 1 .. Len(q) - k : after[i] = q[k + i]
  <2>1. \A i \in k + 1 .. Len(q) : q[i] \in S
    BY <1>1
  <2>2. /\ after \in Seq(S)
        /\ Len(after) = IF k + 1 <= Len(q) THEN Len(q) - (k + 1) + 1 ELSE 0
        /\ \A i \in 1 .. Len(q) - (k + 1) + 1 : after[i] = q[(k + 1) + i - 1]
    BY <1>1, <2>1, SubSeqProperties
  <2> QED
    BY <1>1, <2>2
<1> HIDE DEF before, after
<1>4. Len(before) + Len(after) = Len(q) - 1
  BY <1>1, <1>2, <1>3
<1>5. /\ before \o after \in Seq(S) /\ Len(before \o after) = Len(q) - 1
      /\ \A i \in 1 .. Len(q) - 1 : (before \o after)[i] =
            IF i <= Len(before) THEN before[i] ELSE after[i - Len(before)]
  <2>1. /\ before \o after \in Seq(S) /\ Len(before \o after) = Len(before) + Len(after)
        /\ \A i \in 1 .. Len(before) + Len(after) : (before \o after)[i] =
              IF i <= Len(before) THEN before[i] ELSE after[i - Len(before)]
    BY <1>2, <1>3, ConcatProperties
  <2> QED
    BY <1>4, <2>1
<1> DEFINE both == before \o after
<1>6. \A i \in 1 .. Len(q) - 1 :
        both[i] = IF i <= Len(before) THEN before[i] ELSE after[i - Len(before)]
  BY <1>5
<1> HIDE DEF both
<1>7. ASSUME NEW i \in 1 .. Len(q) - 1
      PROVE  both[i] = IF i < k THEN q[i] ELSE q[i + 1]
  <2>1. CASE i < k
    BY <1>1, <1>2, <1>6, <2>1
  <2>2. CASE i >= k
    <3>1. i - (k - 1) \in 1 .. Len(q) - k /\ k + (i - (k - 1)) = i + 1
      BY <1>1, <2>2
    <3>2. both[i] = after[i - (k - 1)]
      BY <1>1, <1>2, <1>6, <2>2
    <3> QED
      BY <1>3, <2>2, <3>1, <3>2
  <2> QED
    BY <1>1, <2>1, <2>2
<1>8. RemoveAt(q, k) = both
  BY DEF RemoveAt, both, before, after
<1> QED
  BY <1>5, <1>7, <1>8 DEF both

\* What a queue holds after something joined it, was taken from it, or was
\* added as a whole.
LEMMA AppendRange ==
    ASSUME NEW S, NEW s \in Seq(S), NEW x \in S
    PROVE  Range(Append(s, x)) = Range(s) \cup {x}
<1>1. DOMAIN s = 1 .. Len(s) /\ Len(s) \in Nat
  BY LenProperties
<1>2. DOMAIN Append(s, x) = 1 .. Len(s) + 1 /\ Append(s, x)[Len(s) + 1] = x
      /\ \A i \in 1 .. Len(s) : Append(s, x)[i] = s[i]
  BY <1>1, AppendProperties
<1> QED
  BY <1>1, <1>2 DEF Range

LEMMA ConcatRange ==
    ASSUME NEW S, NEW s \in Seq(S), NEW t \in Seq(S)
    PROVE  s \o t \in Seq(S) /\ Range(s \o t) = Range(s) \cup Range(t)
<1> DEFINE both == s \o t
<1>1. DOMAIN s = 1 .. Len(s) /\ Len(s) \in Nat /\ DOMAIN t = 1 .. Len(t) /\ Len(t) \in Nat
  BY LenProperties
<1>2. /\ both \in Seq(S) /\ DOMAIN both = 1 .. Len(s) + Len(t)
      /\ \A i \in 1 .. Len(s) + Len(t) : both[i] = IF i <= Len(s) THEN s[i] ELSE t[i - Len(s)]
  BY <1>1, ConcatProperties, LenProperties
<1> HIDE DEF both
<1>3. ASSUME NEW i \in DOMAIN both
      PROVE  both[i] \in Range(s) \cup Range(t)
  <2>1. CASE i <= Len(s)
    <3>1. i \in DOMAIN s /\ both[i] = s[i]
      BY <1>1, <1>2, <2>1
    <3> QED
      BY <3>1 DEF Range
  <2>2. CASE i > Len(s)
    <3>1. i - Len(s) \in DOMAIN t /\ both[i] = t[i - Len(s)]
      BY <1>1, <1>2, <2>2
    <3> QED
      BY <3>1 DEF Range
  <2> QED
    BY <1>1, <1>2, <2>1, <2>2
<1>4. \A i \in DOMAIN s : i \in DOMAIN both /\ both[i] = s[i]
  BY <1>1, <1>2
<1>5. \A i \in DOMAIN t : i + Len(s) \in DOMAIN both /\ both[i + Len(s)] = t[i]
  BY <1>1, <1>2
<1>6. Range(both) \subseteq Range(s) \cup Range(t)
  BY <1>3 DEF Range
<1>7. Range(s) \subseteq Range(both)
  BY <1>4 DEF Range
<1>8. Range(t) \subseteq Range(both)
  BY <1>5 DEF Range
<1> QED
  BY <1>2, <1>6, <1>7, <1>8 DEF both

LEMMA TailRange ==
    ASSUME NEW S, NEW s \in Seq(S), s # <<>>
    PROVE  /\ Head(s) \in S /\ Tail(s) \in Seq(S) /\ Len(Tail(s)) = Len(s) - 1
           /\ \A i \in 1 .. Len(s) - 1 : Tail(s)[i] = s[i + 1]
           /\ Head(s) = s[1] /\ Range(s) = {Head(s)} \cup Range(Tail(s))
<1>1. DOMAIN s = 1 .. Len(s) /\ Len(s) \in Nat /\ Len(s) > 0
  BY LenProperties, EmptySeq
<1>2. /\ Head(s) \in S /\ Tail(s) \in Seq(S) /\ Len(Tail(s)) = Len(s) - 1
      /\ \A i \in 1 .. Len(s) - 1 : Tail(s)[i] = s[i + 1]
  BY HeadTailProperties
<1>3. Head(s) = s[1]
  BY <1>1
<1>4. DOMAIN Tail(s) = 1 .. Len(s) - 1
  BY <1>2, LenProperties
<1> DEFINE rest == Tail(s)
<1>5. /\ DOMAIN rest = 1 .. Len(s) - 1 /\ \A i \in 1 .. Len(s) - 1 : rest[i] = s[i + 1]
  BY <1>2, <1>4
<1> HIDE DEF rest
<1>6. \A i \in 1 .. Len(s) : i = 1 \/ (i - 1 \in 1 .. Len(s) - 1 /\ rest[i - 1] = s[i])
  BY <1>1, <1>5
<1>7. Range(s) \subseteq {s[1]} \cup Range(rest)
  <2>1. ASSUME NEW i \in DOMAIN s
        PROVE  s[i] \in {s[1]} \cup Range(rest)
    BY <1>1, <1>5, <1>6 DEF Range
  <2> QED
    BY <2>1 DEF Range
<1>8. s[1] \in Range(s)
  BY <1>1 DEF Range
<1>9. Range(rest) \subseteq Range(s)
  <2>1. ASSUME NEW i \in DOMAIN rest
        PROVE  i + 1 \in DOMAIN s /\ rest[i] = s[i + 1]
    BY <1>1, <1>5
  <2> QED
    BY <2>1 DEF Range
<1> QED
  BY <1>2, <1>3, <1>7, <1>8, <1>9 DEF rest

LEMMA RangeInside ==
    ASSUME NEW S, NEW s \in Seq(S)
    PROVE  Range(s) \subseteq S /\ (s = <<>> <=> Range(s) = {})
<1>1. DOMAIN s = 1 .. Len(s) /\ Len(s) \in Nat /\ (s = <<>> <=> Len(s) = 0)
  BY LenProperties, EmptySeq
<1>2. \A i \in 1 .. Len(s) : s[i] \in S
  BY ElementOfSeq
<1>3. Len(s) > 0 => 1 \in DOMAIN s
  BY <1>1
<1>4. Range(s) \subseteq S
  BY <1>1, <1>2 DEF Range
<1>5. Len(s) > 0 => s[1] \in Range(s)
  BY <1>3 DEF Range
<1>6. Len(s) = 0 => DOMAIN s = {}
  BY <1>1
<1>7. Len(s) = 0 => Range(s) = {}
  BY <1>6 DEF Range
<1> QED
  BY <1>1, <1>4, <1>5, <1>7

\* Queues that hold everything at most once: one joins at the end, one leaves,
\* or all up to one leave.
LEMMA JoinsOnce ==
    ASSUME NEW S, NEW s \in Seq(S), IsInjective(s), NEW x \in S, x \notin Range(s)
    PROVE  Append(s, x) \in Seq(S) /\ IsInjective(Append(s, x))
<1> DEFINE now == Append(s, x)
<1>1. DOMAIN s = 1 .. Len(s) /\ Len(s) \in Nat
  BY LenProperties
<1>2. /\ now \in Seq(S) /\ DOMAIN now = 1 .. Len(s) + 1 /\ now[Len(s) + 1] = x
      /\ \A i \in 1 .. Len(s) : now[i] = s[i]
  BY <1>1, AppendProperties
<1> HIDE DEF now
<1>3. \A i \in 1 .. Len(s) : s[i] # x
  BY <1>1 DEF Range
<1>4. \A i, j \in 1 .. Len(s) : s[i] = s[j] => i = j
  BY <1>1 DEF IsInjective
<1>5. IsInjective(now)
  BY <1>1, <1>2, <1>3, <1>4 DEF IsInjective
<1> QED
  BY <1>2, <1>5 DEF now

LEMMA LeavesOnce ==
    ASSUME NEW S, NEW s \in Seq(S), IsInjective(s), NEW k \in 1 .. Len(s)
    PROVE  /\ RemoveAt(s, k) \in Seq(S) /\ IsInjective(RemoveAt(s, k))
           /\ Range(RemoveAt(s, k)) = Range(s) \ {s[k]}
<1> DEFINE now == RemoveAt(s, k)
<1>1. DOMAIN s = 1 .. Len(s) /\ Len(s) \in Nat
  BY LenProperties
<1>2. /\ now \in Seq(S) /\ Len(now) = Len(s) - 1
      /\ \A i \in 1 .. Len(s) - 1 : now[i] = IF i < k THEN s[i] ELSE s[i + 1]
  BY RemoveAtIs
<1>3. DOMAIN now = 1 .. Len(s) - 1
  BY <1>2, LenProperties
<1> HIDE DEF now
<1>4. \A i, j \in 1 .. Len(s) : s[i] = s[j] => i = j
  BY <1>1 DEF IsInjective
<1>5. \A i, j \in 1 .. Len(s) - 1 : now[i] = now[j] => i = j
  BY <1>1, <1>2, <1>4
<1>6. IsInjective(now)
  BY <1>3, <1>5 DEF IsInjective
<1>7. ASSUME NEW i \in 1 .. Len(s) - 1
      PROVE  now[i] \in Range(s) /\ now[i] # s[k]
  <2>1. i \in DOMAIN s /\ i + 1 \in DOMAIN s /\ k \in DOMAIN s
    BY <1>1
  <2>2. i < k => now[i] = s[i]
    BY <1>2
  <2>3. ~(i < k) => now[i] = s[i + 1] /\ i + 1 # k
    BY <1>1, <1>2
  <2> QED
    BY <1>1, <1>4, <2>1, <2>2, <2>3 DEF Range
<1>8. ASSUME NEW i \in 1 .. Len(s), i # k
      PROVE  s[i] \in Range(now)
  <2>1. CASE i < k
    <3>1. i \in 1 .. Len(s) - 1 /\ now[i] = s[i]
      BY <1>1, <1>2, <2>1
    <3> QED
      BY <1>3, <3>1 DEF Range
  <2>2. CASE i > k
    <3>1. i - 1 \in 1 .. Len(s) - 1 /\ now[i - 1] = s[i]
      BY <1>1, <1>2, <2>2
    <3> QED
      BY <1>3, <3>1 DEF Range
  <2> QED
    BY <1>8, <2>1, <2>2
<1>9. Range(now) \subseteq Range(s) \ {s[k]}
  BY <1>3, <1>7 DEF Range
<1>10. Range(s) \ {s[k]} \subseteq Range(now)
  BY <1>1, <1>8 DEF Range
<1> QED
  BY <1>2, <1>6, <1>9, <1>10 DEF now

LEMMA SuffixOnce ==
    ASSUME NEW S, NEW s \in Seq(S), IsInjective(s), NEW k \in 1 .. Len(s)
    PROVE  LET now == SubSeq(s, k + 1, Len(s))
           IN  now \in Seq(S) /\ IsInjective(now) /\ Range(now) \subseteq Range(s) \ {s[k]}
<1> DEFINE now == SubSeq(s, k + 1, Len(s))
<1>1. DOMAIN s = 1 .. Len(s) /\ Len(s) \in Nat
  BY LenProperties
<1>2. \A i \in k + 1 .. Len(s) : s[i] \in S
  BY <1>1, ElementOfSeq
<1>3. /\ now \in Seq(S) /\ Len(now) = IF k + 1 <= Len(s) THEN Len(s) - (k + 1) + 1 ELSE 0
      /\ \A i \in 1 .. Len(s) - (k + 1) + 1 : now[i] = s[(k + 1) + i - 1]
  BY <1>1, <1>2, SubSeqProperties
<1> HIDE DEF now
<1>4. Len(now) = Len(s) - k /\ DOMAIN now = 1 .. Len(s) - k
  <2> DEFINE n == Len(s)
             m == Len(now)
  <2>1. n \in Nat /\ k \in 1 .. n /\ m = IF k + 1 <= n THEN n - (k + 1) + 1 ELSE 0
    BY <1>1, <1>3
  <2> HIDE DEF n, m
  <2>2. m = n - k
    BY <2>1
  <2>3. DOMAIN now = 1 .. Len(now)
    BY <1>3, LenProperties
  <2> QED
    BY <2>2, <2>3 DEF n, m
<1>5. \A i \in 1 .. Len(s) - k : now[i] = s[k + i]
  <2>1. k \in Nat /\ k <= Len(s)
    BY <1>1
  <2>2. \A i \in 1 .. Len(s) - k : i \in 1 .. Len(s) - (k + 1) + 1 /\ (k + 1) + i - 1 = k + i
    BY <1>1, <2>1
  <2> QED
    BY <1>3, <2>2
<1>6. \A i, j \in 1 .. Len(s) : s[i] = s[j] => i = j
  BY <1>1 DEF IsInjective
<1>7. IsInjective(now)
  <2>1. ASSUME NEW i \in 1 .. Len(s) - k, NEW j \in 1 .. Len(s) - k, now[i] = now[j]
        PROVE  i = j
    <3>1. k + i \in 1 .. Len(s) /\ k + j \in 1 .. Len(s) /\ s[k + i] = s[k + j]
      BY <1>1, <1>5, <2>1
    <3>2. k + i = k + j
      BY <1>6, <3>1
    <3> QED
      BY <1>1, <3>2
  <2> QED
    BY <1>4, <2>1 DEF IsInjective
<1>8. ASSUME NEW i \in 1 .. Len(s) - k
      PROVE  now[i] \in Range(s) \ {s[k]}
  <2>1. k + i \in 1 .. Len(s) /\ k + i # k
    BY <1>1
  <2> QED
    BY <1>1, <1>5, <1>6, <2>1 DEF Range
<1> QED
  BY <1>3, <1>4, <1>7, <1>8 DEF now, Range

\* s has m at most once.
OnceIn(m, s) == \A i, j \in DOMAIN s : s[i] = m /\ s[j] = m => i = j

LEMMA OnceTail ==
    ASSUME NEW S, NEW s \in Seq(S), s # <<>>, NEW m, OnceIn(m, s)
    PROVE  OnceIn(m, Tail(s)) /\ (Head(s) = m => m \notin Range(Tail(s)))
<1> DEFINE rest == Tail(s)
<1>1. /\ DOMAIN s = 1 .. Len(s) /\ Len(s) \in Nat /\ Len(s) > 0
      /\ Head(s) = s[1] /\ DOMAIN rest = 1 .. Len(s) - 1
      /\ \A i \in 1 .. Len(s) - 1 : rest[i] = s[i + 1]
  BY TailRange, LenProperties, EmptySeq
<1> HIDE DEF rest
<1>2. ASSUME NEW i \in DOMAIN rest, rest[i] = m
      PROVE  /\ i + 1 \in DOMAIN s /\ s[i + 1] = m /\ i \in Nat
             /\ Head(s) # m
  BY <1>1, <1>2 DEF OnceIn
<1>3. OnceIn(m, rest)
  <2>1. ASSUME NEW i \in DOMAIN rest, NEW j \in DOMAIN rest, rest[i] = m, rest[j] = m
        PROVE  i = j
    <3>1. i + 1 = j + 1 /\ i \in Nat /\ j \in Nat
      BY <1>2, <2>1 DEF OnceIn
    <3> QED
      BY <3>1
  <2> QED
    BY <2>1 DEF OnceIn
<1>4. Head(s) = m => m \notin Range(rest)
  BY <1>2 DEF Range
<1> QED
  BY <1>3, <1>4 DEF rest

LEMMA OnceConcat ==
    ASSUME NEW S, NEW s \in Seq(S), NEW t \in Seq(S), NEW m, OnceIn(m, s), OnceIn(m, t),
           m \notin Range(s) \/ m \notin Range(t)
    PROVE  OnceIn(m, s \o t)
<1> DEFINE both == s \o t
<1>1. DOMAIN s = 1 .. Len(s) /\ Len(s) \in Nat /\ DOMAIN t = 1 .. Len(t) /\ Len(t) \in Nat
  BY LenProperties
<1>2. /\ DOMAIN both = 1 .. Len(s) + Len(t)
      /\ \A i \in 1 .. Len(s) + Len(t) : both[i] = IF i <= Len(s) THEN s[i] ELSE t[i - Len(s)]
  BY <1>1, ConcatProperties, LenProperties
<1> HIDE DEF both
<1>3. ASSUME NEW i \in DOMAIN both, both[i] = m
      PROVE  /\ i \in Nat
             /\ \/ i \in DOMAIN s /\ s[i] = m
                \/ i - Len(s) \in DOMAIN t /\ t[i - Len(s)] = m
  BY <1>1, <1>2, <1>3
<1>4. (\A i \in DOMAIN s : s[i] # m) \/ (\A i \in DOMAIN t : t[i] # m)
  BY DEF Range
<1>5. ASSUME NEW i \in DOMAIN both, NEW j \in DOMAIN both, both[i] = m, both[j] = m
      PROVE  i = j
  <2>1. i \in Nat /\ j \in Nat
    BY <1>3, <1>5
  <2>2. CASE \A n \in DOMAIN t : t[n] # m
    BY <1>3, <1>5, <2>2 DEF OnceIn
  <2>3. CASE \A n \in DOMAIN s : s[n] # m
    <3>1. i - Len(s) = j - Len(s)
      BY <1>3, <1>5, <2>3 DEF OnceIn
    <3> QED
      BY <1>1, <2>1, <3>1
  <2> QED
    BY <1>4, <2>2, <2>3
<1>6. OnceIn(m, both)
  BY <1>5 DEF OnceIn
<1> QED
  BY <1>6 DEF both

LEMMA OneIs ==
    ASSUME NEW S, NEW x \in S, NEW m
    PROVE  <<x>> \in Seq(S) /\ Range(<<x>>) = {x} /\ OnceIn(m, <<x>>)
BY DEF Range, OnceIn

LEMMA TwoAre ==
    ASSUME NEW S, NEW x \in S, NEW y \in S
    PROVE  <<x, y>> \in Seq(S) /\ Range(<<x, y>>) = {x, y}
<1>1. <<x, y>> \in Seq(S) /\ DOMAIN <<x, y>> = {1, 2}
  OBVIOUS
<1>2. <<x, y>>[1] = x /\ <<x, y>>[2] = y
  OBVIOUS
<1> DEFINE two == <<x, y>>
<1>3. DOMAIN two = {1, 2} /\ two[1] = x /\ two[2] = y
  BY <1>1, <1>2
<1> HIDE DEF two
<1>4. Range(two) = {x, y}
  BY <1>3 DEF Range
<1> QED
  BY <1>1, <1>4 DEF two

LEMMA NoneIs == Range(<<>>) = {} /\ \A m : OnceIn(m, <<>>)
BY DEF Range, OnceIn

\* A set of places has a first one.
LEMMA FirstIs ==
    ASSUME NEW places \in SUBSET Nat, places # {}
    PROVE  \E i \in places : \A j \in places : i <= j
<1>1. \E i \in places : \A j \in places : ~ (<<j, i>> \in OpToRel(<, Nat))
  BY NatLessThanWellFounded, WFMin
<1>2. ASSUME NEW i \in places, NEW j \in places, i > j
      PROVE  <<j, i>> \in OpToRel(<, Nat)
  <2>1. <<j, i>> \in Nat \X Nat /\ <<j, i>>[1] < <<j, i>>[2]
    BY <1>2
  <2> QED
    BY <2>1 DEF OpToRel
<1>3. \E i \in places : \A j \in places : ~ (i > j)
  BY <1>1, <1>2
<1> QED
  BY <1>3
=============================================================================
