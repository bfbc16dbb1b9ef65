------------------------- MODULE Consultation_proofs -------------------------
(***************************************************************************)
(* The pure half of the program does what its comments promise: for queries   *)
(* of any length over any words, any machine, silent sources and hosts.       *)
(***************************************************************************)
EXTENDS Consultation, FiniteSetTheorems, SequenceTheorems, WellFoundedInduction, TLAPS

-----------------------------------------------------------------------------
(* Induction over the natural numbers, as a statement about sets. *)

LessThan == {pair \in Nat \X Nat : pair[1] < pair[2]}

LEMMA LessThanWellFounded == IsWellFoundedOn(LessThan, Nat)
BY NatLessThanWellFounded DEF OpToRel, LessThan

LEMMA LeastElement ==
  ASSUME NEW S, S \subseteq Nat, S # {}
  PROVE  \E m \in S : \A n \in S : m <= n
<1>1. PICK m \in S : \A n \in S : ~(<<n, m>> \in LessThan)
  BY LessThanWellFounded, WFMin
<1>2. \A n \in S : m <= n
  <2> TAKE n \in S
  <2>1. <<n, m>> \in Nat \X Nat
    OBVIOUS
  <2>2. ~(n < m)
    BY <1>1, <2>1 DEF LessThan
  <2>3. QED
    BY <2>2
<1>3. QED
  BY <1>2

LEMMA Induction ==
  ASSUME NEW S, 0 \in S, \A n \in Nat : n \in S => n + 1 \in S
  PROVE  \A n \in Nat : n \in S
<1>1. SUFFICES ASSUME Nat \ S # {} PROVE FALSE
  OBVIOUS
<1>2. PICK m \in Nat \ S : \A n \in Nat \ S : m <= n
  BY <1>1, LeastElement
<1>3. m - 1 \in Nat /\ m - 1 \in S
  BY <1>2
<1>4. QED
  BY <1>2, <1>3

-----------------------------------------------------------------------------
(* Filtered is a recursive function: it satisfies its recursion, and what it    *)
(* keeps are the elements of the set, at places that grow.                    *)

FilteredRecursion(seq, S, kept, n) ==
  kept = [i \in 0 .. n |->
            IF i = 0 THEN <<>>
            ELSE IF seq[i] \in S THEN Append(kept[i - 1], seq[i])
            ELSE kept[i - 1]]

LEMMA FilteredExists ==
  ASSUME NEW seq, NEW S, NEW n \in Nat
  PROVE  \E kept : FilteredRecursion(seq, S, kept, n)
<1> DEFINE K == {k \in Nat : \E f : FilteredRecursion(seq, S, f, k)}
<1>1. 0 \in K
  <2>1. FilteredRecursion(seq, S, [i \in 0 .. 0 |-> <<>>], 0)
    BY DEF FilteredRecursion
  <2>2. QED
    BY <2>1
<1>2. \A k \in Nat : k \in K => k + 1 \in K
  <2> SUFFICES ASSUME NEW k \in Nat, NEW f, FilteredRecursion(seq, S, f, k)
               PROVE  \E g : FilteredRecursion(seq, S, g, k + 1)
    OBVIOUS
  <2> DEFINE g == [i \in 0 .. k + 1 |->
                     IF i <= k THEN f[i]
                     ELSE IF i = 0 THEN <<>>
                     ELSE IF seq[i] \in S THEN Append(f[i - 1], seq[i])
                     ELSE f[i - 1]]
  <2>1. \A i \in 0 .. k : f[i] = IF i = 0 THEN <<>>
                                 ELSE IF seq[i] \in S THEN Append(f[i - 1], seq[i])
                                 ELSE f[i - 1]
    BY DEF FilteredRecursion
  <2>2. \A i \in 0 .. k + 1 : g[i] = IF i = 0 THEN <<>>
                                     ELSE IF seq[i] \in S THEN Append(g[i - 1], seq[i])
                                     ELSE g[i - 1]
    BY <2>1
  <2>3. FilteredRecursion(seq, S, g, k + 1)
    BY <2>2 DEF FilteredRecursion
  <2>4. QED
    BY <2>3
<1> HIDE DEF K
<1>3. n \in K
  BY <1>1, <1>2, Induction
<1>4. QED
  BY <1>3 DEF K

\* The places in the first n elements that the result comes from.
Places(result, seq, S, n, place) ==
  /\ place \in [1 .. Len(result) -> 1 .. n]
  /\ \A k \in 1 .. Len(result) : result[k] = seq[place[k]] /\ seq[place[k]] \in S
  /\ \A j, k \in 1 .. Len(result) : j < k => place[j] < place[k]
  /\ \A i \in 1 .. n : seq[i] \in S => \E k \in 1 .. Len(result) : place[k] = i
  /\ (\A i \in 1 .. n : seq[i] \in S) => Len(result) = n /\ \A i \in 1 .. n : result[i] = seq[i]

LEMMA PlacesKept ==
  ASSUME NEW T, NEW seq \in Seq(T), NEW S, NEW k \in Nat, k + 1 <= Len(seq),
         NEW result \in Seq(T), NEW place, Places(result, seq, S, k, place),
         seq[k + 1] \in S
  PROVE  /\ Append(result, seq[k + 1]) \in Seq(T)
         /\ \E p : Places(Append(result, seq[k + 1]), seq, S, k + 1, p)
<1> DEFINE r == Append(result, seq[k + 1])
           m == Len(result)
           p == [j \in 1 .. m + 1 |-> IF j <= m THEN place[j] ELSE k + 1]
<1>1. seq[k + 1] \in T
  <2>1. k + 1 \in 1 .. Len(seq)
    OBVIOUS
  <2>2. QED
    BY <2>1
<1>2. /\ r \in Seq(T) /\ Len(r) = m + 1 /\ m \in Nat
      /\ \A j \in 1 .. m : r[j] = result[j]
      /\ r[m + 1] = seq[k + 1]
  BY <1>1, AppendProperties
<1> HIDE DEF r, m
<1>3. /\ place \in [1 .. m -> 1 .. k]
      /\ \A j \in 1 .. m : result[j] = seq[place[j]] /\ seq[place[j]] \in S
      /\ \A i, j \in 1 .. m : i < j => place[i] < place[j]
      /\ \A i \in 1 .. k : seq[i] \in S => \E j \in 1 .. m : place[j] = i
      /\ (\A i \in 1 .. k : seq[i] \in S) => m = k /\ \A i \in 1 .. k : result[i] = seq[i]
  BY DEF Places, m
<1>4. \A j \in 1 .. m + 1 : j \in 1 .. m \/ j = m + 1
  BY <1>2
<1>5. /\ p[m + 1] = k + 1
      /\ \A j \in 1 .. m : p[j] = place[j] /\ place[j] \in 1 .. k
  BY <1>2, <1>3
<1>6. p \in [1 .. m + 1 -> 1 .. k + 1]
  <2>1. \A j \in 1 .. m + 1 : p[j] \in 1 .. k + 1
    <3> HIDE DEF p
    <3>1. \A j \in 1 .. k : j \in 1 .. k + 1
      OBVIOUS
    <3>2. k + 1 \in 1 .. k + 1
      OBVIOUS
    <3>3. QED
      BY <1>4, <1>5, <3>1, <3>2
  <2>2. QED
    BY <2>1
<1> HIDE DEF p
<1>7. \A j \in 1 .. m + 1 : r[j] = seq[p[j]] /\ seq[p[j]] \in S
  BY <1>2, <1>3, <1>4, <1>5
<1>8. \A i, j \in 1 .. m + 1 : i < j => p[i] < p[j]
  <2> TAKE i, j \in 1 .. m + 1
  <2>1. CASE j \in 1 .. m
    <3>1. i < j => i \in 1 .. m
      BY <1>2, <2>1
    <3>2. QED
      BY <1>3, <1>5, <2>1, <3>1
  <2>2. CASE j = m + 1
    BY <1>2, <1>3, <1>4, <1>5, <2>2
  <2>3. QED
    BY <1>4, <2>1, <2>2
<1>9. \A i \in 1 .. k + 1 : seq[i] \in S => \E j \in 1 .. m + 1 : p[j] = i
  <2> TAKE i \in 1 .. k + 1
  <2>1. CASE i = k + 1
    BY <1>2, <1>5, <2>1
  <2>2. CASE i # k + 1
    <3>1. i \in 1 .. k
      BY <2>2
    <3>2. \A j \in 1 .. m : j \in 1 .. m + 1
      BY <1>2
    <3>3. QED
      BY <1>3, <1>5, <3>1, <3>2
  <2>3. QED
    BY <2>1, <2>2
<1>10. (\A i \in 1 .. k + 1 : seq[i] \in S) => m + 1 = k + 1 /\ \A i \in 1 .. k + 1 : r[i] = seq[i]
  <2> SUFFICES ASSUME \A i \in 1 .. k + 1 : seq[i] \in S
               PROVE  m + 1 = k + 1 /\ \A i \in 1 .. k + 1 : r[i] = seq[i]
    OBVIOUS
  <2>1. m = k /\ \A i \in 1 .. k : result[i] = seq[i]
    BY <1>3
  <2>2. QED
    BY <1>2, <2>1
<1>11. Places(r, seq, S, k + 1, p)
  BY <1>2, <1>6, <1>7, <1>8, <1>9, <1>10 DEF Places
<1>12. QED
  BY <1>2, <1>11 DEF r

LEMMA FilteredPlaces ==
  ASSUME NEW T, NEW seq \in Seq(T), NEW S
  PROVE  /\ Filtered(seq, S) \in Seq(T)
         /\ \E place : Places(Filtered(seq, S), seq, S, Len(seq), place)
<1> DEFINE f == CHOOSE kept : FilteredRecursion(seq, S, kept, Len(seq))
<1>1. Len(seq) \in Nat
  OBVIOUS
<1>2. Filtered(seq, S) = f[Len(seq)]
  BY DEF Filtered, FilteredRecursion
<1>3. FilteredRecursion(seq, S, f, Len(seq))
  BY <1>1, FilteredExists
<1> HIDE DEF f
<1>4. \A i \in 0 .. Len(seq) : f[i] = IF i = 0 THEN <<>>
                                      ELSE IF seq[i] \in S THEN Append(f[i - 1], seq[i])
                                      ELSE f[i - 1]
  BY <1>3 DEF FilteredRecursion
<1> DEFINE Good(k) == f[k] \in Seq(T) /\ \E place : Places(f[k], seq, S, k, place)
           K == {k \in Nat : k <= Len(seq) => Good(k)}
<1>5. 0 \in K
  <2>1. f[0] = <<>>
    BY <1>1, <1>4
  <2>2. Places(<<>>, seq, S, 0, [i \in 1 .. 0 |-> 1])
    BY DEF Places
  <2>3. <<>> \in Seq(T)
    OBVIOUS
  <2>4. QED
    BY <2>1, <2>2, <2>3
<1>6. ASSUME NEW k \in Nat, k \in K, k + 1 <= Len(seq) PROVE Good(k + 1)
  <2>1. f[k] \in Seq(T) /\ \E place : Places(f[k], seq, S, k, place)
    BY <1>1, <1>6
  <2>2. k + 1 \in 0 .. Len(seq) /\ k + 1 # 0 /\ (k + 1) - 1 = k
    BY <1>1, <1>6
  <2>3. PICK place : Places(f[k], seq, S, k, place)
    BY <2>1
  <2>4. CASE seq[k + 1] \in S
    <3>1. f[k + 1] = Append(f[k], seq[k + 1])
      BY <1>4, <2>2, <2>4
    <3>2. QED
      BY <1>6, <2>1, <2>3, <2>4, <3>1, PlacesKept
  <2>5. CASE seq[k + 1] \notin S
    <3>1. f[k + 1] = f[k]
      BY <1>4, <2>2, <2>5
    <3>2. Places(f[k], seq, S, k + 1, place)
      <4> DEFINE m == Len(f[k])
      <4>1. /\ place \in [1 .. m -> 1 .. k]
            /\ \A j \in 1 .. m : f[k][j] = seq[place[j]] /\ seq[place[j]] \in S
            /\ \A i, j \in 1 .. m : i < j => place[i] < place[j]
            /\ \A i \in 1 .. k : seq[i] \in S => \E j \in 1 .. m : place[j] = i
        BY <2>3 DEF Places
      <4>2. place \in [1 .. m -> 1 .. k + 1]
        BY <4>1
      <4>3. \A i \in 1 .. k + 1 : seq[i] \in S => i \in 1 .. k
        BY <2>5
      <4>4. ~(\A i \in 1 .. k + 1 : seq[i] \in S)
        BY <2>5
      <4>5. QED
        BY <4>1, <4>2, <4>3, <4>4 DEF Places
    <3>3. QED
      BY <2>1, <3>1, <3>2
  <2>6. QED
    BY <2>4, <2>5
<1> HIDE DEF Good
<1>7. ASSUME NEW k \in Nat, k \in K PROVE k + 1 \in K
  <2>1. k + 1 <= Len(seq) => Good(k + 1)
    BY <1>6, <1>7
  <2>2. QED
    BY <2>1
<1>8. Len(seq) \in K
  <2> HIDE DEF K
  <2>1. QED
    BY <1>1, <1>5, <1>7, Induction
<1>9. Good(Len(seq))
  BY <1>1, <1>8
<1>10. QED
  BY <1>2, <1>9 DEF Good

-----------------------------------------------------------------------------
(* FlattenSeq holds what its parts hold.                                     *)

FlattenRecursion(seqs, flatten, n) ==
  flatten = [i \in 1 .. n |-> IF i = 1 THEN seqs[i] ELSE flatten[i - 1] \o seqs[i]]

LEMMA FlattenExists ==
  ASSUME NEW seqs, NEW n \in Nat
  PROVE  \E flatten : FlattenRecursion(seqs, flatten, n)
<1> DEFINE S == {k \in Nat : \E flatten : FlattenRecursion(seqs, flatten, k)}
<1>1. 0 \in S
  <2>1. FlattenRecursion(seqs, [i \in 1 .. 0 |-> seqs[i]], 0)
    BY DEF FlattenRecursion
  <2>2. QED
    BY <2>1
<1>2. \A k \in Nat : k \in S => k + 1 \in S
  <2> SUFFICES ASSUME NEW k \in Nat, NEW f, FlattenRecursion(seqs, f, k)
               PROVE  \E flatten : FlattenRecursion(seqs, flatten, k + 1)
    OBVIOUS
  <2> DEFINE g == [i \in 1 .. k + 1 |->
                     IF i <= k THEN f[i] ELSE IF i = 1 THEN seqs[i] ELSE f[i - 1] \o seqs[i]]
  <2>1. \A i \in 1 .. k : f[i] = IF i = 1 THEN seqs[i] ELSE f[i - 1] \o seqs[i]
    BY DEF FlattenRecursion
  <2>2. \A i \in 1 .. k + 1 : g[i] = IF i = 1 THEN seqs[i] ELSE g[i - 1] \o seqs[i]
    BY <2>1
  <2>3. FlattenRecursion(seqs, g, k + 1)
    BY <2>2 DEF FlattenRecursion
  <2>4. QED
    BY <2>3
<1> HIDE DEF S
<1>3. n \in S
  BY <1>1, <1>2, Induction
<1>4. QED
  BY <1>3 DEF S

Unites(c, a, b) == ToSet(c) = ToSet(a) \cup ToSet(b)

LEMMA JoinedSet ==
  ASSUME NEW S, NEW a \in Seq(S), NEW b \in Seq(S), NEW c, c = a \o b
  PROVE  c \in Seq(S) /\ Unites(c, a, b)
<1>1. c \in Seq(S) /\ Len(c) = Len(a) + Len(b) /\ Len(a) \in Nat /\ Len(b) \in Nat
      /\ DOMAIN c = 1 .. Len(c) /\ DOMAIN a = 1 .. Len(a) /\ DOMAIN b = 1 .. Len(b)
  BY ConcatProperties
<1>2. \A i \in 1 .. Len(a) + Len(b) : c[i] = IF i <= Len(a) THEN a[i] ELSE b[i - Len(a)]
  BY ConcatProperties
<1>3. ASSUME NEW j \in 1 .. Len(b) PROVE \E n \in 1 .. Len(c) : c[n] = b[j]
  <2>1. /\ Len(a) + j \in 1 .. Len(a) + Len(b) /\ ~(Len(a) + j <= Len(a))
        /\ (Len(a) + j) - Len(a) = j
    BY <1>1
  <2>2. c[Len(a) + j] = b[j]
    BY <2>1, <1>2
  <2>3. QED
    BY <2>1, <2>2, <1>1
<1>4. \A i \in 1 .. Len(a) : i \in 1 .. Len(c) /\ c[i] = a[i]
  BY <1>1, <1>2
<1>5. ASSUME NEW i \in 1 .. Len(c)
      PROVE  (\E j \in 1 .. Len(a) : c[i] = a[j]) \/ (\E j \in 1 .. Len(b) : c[i] = b[j])
  <2>1. CASE i <= Len(a)
    BY <1>1, <1>2, <2>1
  <2>2. CASE ~(i <= Len(a))
    <3>1. i - Len(a) \in 1 .. Len(b) /\ c[i] = b[i - Len(a)]
      BY <1>1, <1>2, <2>2
    <3>2. QED
      BY <3>1
  <2>3. QED
    BY <2>1, <2>2
<1>6. ToSet(c) \subseteq ToSet(a) \cup ToSet(b)
  BY <1>1, <1>5 DEF ToSet
<1>7. ToSet(a) \subseteq ToSet(c)
  BY <1>1, <1>4 DEF ToSet
<1>8. ToSet(b) \subseteq ToSet(c)
  BY <1>1, <1>3 DEF ToSet
<1>9. ToSet(c) = ToSet(a) \cup ToSet(b)
  BY <1>6, <1>7, <1>8
<1>10. QED
  BY <1>1, <1>9 DEF Unites

LEMMA FlattenElements ==
  ASSUME NEW S, NEW seqs \in Seq(Seq(S))
  PROVE  /\ FlattenSeq(seqs) \in Seq(S)
         /\ ToSet(FlattenSeq(seqs)) = UNION {ToSet(seqs[m]) : m \in 1 .. Len(seqs)}
<1> DEFINE f == CHOOSE flatten : FlattenRecursion(seqs, flatten, Len(seqs))
<1>1. Len(seqs) \in Nat /\ \A m \in 1 .. Len(seqs) : seqs[m] \in Seq(S)
  OBVIOUS
<1>2. CASE Len(seqs) = 0
  <2>1. FlattenSeq(seqs) = seqs /\ seqs = <<>>
    BY <1>2 DEF FlattenSeq
  <2>2. ToSet(<<>>) = {}
    BY DEF ToSet
  <2>3. <<>> \in Seq(S)
    OBVIOUS
  <2>4. QED
    BY <2>1, <2>2, <2>3, <1>2
<1>3. CASE Len(seqs) # 0
  <2>1. FlattenSeq(seqs) = f[Len(seqs)]
    BY <1>3 DEF FlattenSeq, FlattenRecursion
  <2>2. FlattenRecursion(seqs, f, Len(seqs))
    BY <1>1, FlattenExists
  <2> HIDE DEF f
  <2>3. \A i \in 1 .. Len(seqs) : f[i] = IF i = 1 THEN seqs[i] ELSE f[i - 1] \o seqs[i]
    BY <2>2 DEF FlattenRecursion
  <2> DEFINE Good(k) == f[k] \in Seq(S) /\ ToSet(f[k]) = UNION {ToSet(seqs[m]) : m \in 1 .. k}
             T == {k \in Nat : k \in 1 .. Len(seqs) => Good(k)}
  <2>4. 0 \in T
    OBVIOUS
  <2>5. ASSUME NEW k \in Nat, k \in T, k + 1 \in 1 .. Len(seqs) PROVE Good(k + 1)
    <3>1. CASE k = 0
      <4>1. f[1] = seqs[1] /\ seqs[1] \in Seq(S)
        BY <3>1, <2>3, <2>5, <1>1
      <4>2. UNION {ToSet(seqs[m]) : m \in 1 .. 1} = ToSet(seqs[1])
        OBVIOUS
      <4>3. QED
        BY <4>1, <4>2, <3>1
    <3>2. CASE k # 0
      <4>1. Good(k)
        BY <3>2, <2>5
      <4>2. f[k + 1] = f[k] \o seqs[k + 1]
        <5>1. (k + 1) - 1 = k /\ k + 1 # 1
          BY <3>2
        <5>2. QED
          BY <5>1, <2>3, <2>5
      <4>3. f[k + 1] \in Seq(S) /\ ToSet(f[k + 1]) = ToSet(f[k]) \cup ToSet(seqs[k + 1])
        <5>1. f[k] \in Seq(S) /\ seqs[k + 1] \in Seq(S)
          BY <4>1, <2>5, <1>1
        <5> DEFINE a == f[k]
                   b == seqs[k + 1]
                   c == f[k + 1]
        <5>2. a \in Seq(S) /\ b \in Seq(S) /\ c = a \o b
          BY <4>2, <5>1
        <5> HIDE DEF a, b, c
        <5>3. c \in Seq(S) /\ Unites(c, a, b)
          BY <5>2, JoinedSet
        <5>4. QED
          BY <5>3 DEF a, b, c, Unites
      <4>4. UNION {ToSet(seqs[m]) : m \in 1 .. k + 1}
              = (UNION {ToSet(seqs[m]) : m \in 1 .. k}) \cup ToSet(seqs[k + 1])
        <5>1. 1 .. k + 1 = (1 .. k) \cup {k + 1}
          OBVIOUS
        <5>2. QED
          BY <5>1
      <4>5. QED
        BY <4>1, <4>3, <4>4
    <3>3. QED
      BY <3>1, <3>2
  <2> HIDE DEF Good
  <2>6. ASSUME NEW k \in Nat, k \in T PROVE k + 1 \in T
    <3>1. k + 1 \in 1 .. Len(seqs) => Good(k + 1)
      BY <2>5, <2>6
    <3>2. QED
      BY <3>1
  <2>7. Len(seqs) \in T
    <3> HIDE DEF T
    <3>1. QED
      BY <1>1, <2>4, <2>6, Induction
  <2>8. Len(seqs) \in 1 .. Len(seqs)
    BY <1>1, <1>3
  <2>9. QED
    BY <2>1, <2>7, <2>8 DEF Good
<1>4. QED
  BY <1>2, <1>3

-----------------------------------------------------------------------------
(* The facts of a machine.                                                   *)

Mounts == {"storage-/", "storage-C:", "storage-/data"}
FactLike ==
  [id : FixedIds \cup Mounts, check : CheckName, severity : {"ok", "warning", "error"}]

LEMMA CheckNames ==
  /\ CheckName = {"cpu", "ram", "gpu", "temperature", "storage", "processes", "network"}
  /\ DOMAIN CheckOrder = 1 .. 7 /\ Len(CheckOrder) = 7
  /\ \A n \in 1 .. 7 : CheckOrder[n] \in CheckName
  /\ CheckName = {CheckOrder[n] : n \in 1 .. 7}
<1>1. DOMAIN CheckOrder = 1 .. 7 /\ Len(CheckOrder) = 7
  BY DEF CheckOrder
<1>2. \A n \in 1 .. 7 : n = 1 \/ n = 2 \/ n = 3 \/ n = 4 \/ n = 5 \/ n = 6 \/ n = 7
  OBVIOUS
<1>3. /\ CheckOrder[1] = "cpu" /\ CheckOrder[2] = "ram" /\ CheckOrder[3] = "gpu"
      /\ CheckOrder[4] = "temperature" /\ CheckOrder[5] = "storage"
      /\ CheckOrder[6] = "processes" /\ CheckOrder[7] = "network"
  BY DEF CheckOrder
<1>4. CheckName = {CheckOrder[n] : n \in 1 .. 7}
  BY <1>1 DEF CheckName, ToSet
<1>5. QED
  BY <1>1, <1>2, <1>3, <1>4

LEMMA Singleton ==
  ASSUME NEW S, NEW x \in S
  PROVE  <<x>> \in Seq(S) /\ ToSet(<<x>>) = {x} /\ <<>> \in Seq(S) /\ ToSet(<<>>) = {}
BY DEF ToSet

\* What a system of an adapter shows of each check is about that check.
LEMMA FactsOfChecks ==
  ASSUME NEW name \in PlatformName, NEW machine, NEW silent, NEW s,
         s = SystemInfo(name, machine, silent), NEW check \in CheckName
  PROVE  FactsOf(s, check) \in Seq(FactLike) /\ \A f \in ToSet(FactsOf(s, check)) : f.check = check
<1>1. \A value, error, warning : Graded(value, error, warning) \in {"ok", "warning", "error"}
  BY DEF Graded
<1>2. ASSUME NEW c \in CheckName, NEW id \in FixedIds \cup Mounts,
             NEW severity \in {"ok", "warning", "error"}
      PROVE  Fact(id, c, severity) \in FactLike /\ Fact(id, c, severity).check = c
  BY DEF Fact, FactLike
<1>3. /\ "cpu-status" \in FixedIds /\ "ram-status" \in FixedIds /\ "gpu-generic-driver" \in FixedIds
      /\ "gpu-driver-ok" \in FixedIds /\ "temperature-status" \in FixedIds /\ "processes-ok" \in FixedIds
      /\ "heavy-processes" \in FixedIds /\ "network-status" \in FixedIds
  BY DEF FixedIds
<1>4. CASE check = "cpu"
  <2>1. CpuSeverity(s.cpu) \in {"ok", "warning", "error"}
    BY DEF CpuSeverity
  <2>2. CpuFact(s) \in FactLike /\ CpuFact(s).check = "cpu"
    BY <1>2, <1>3, <1>4, <2>1 DEF CpuFact
  <2>3. FactsOf(s, check) = <<CpuFact(s)>>
    BY <1>4 DEF FactsOf
  <2>4. QED
    BY <1>4, <2>2, <2>3, Singleton
<1>5. CASE check = "ram"
  <2>1. RamSeverity(s.ram) \in {"ok", "warning", "error"}
    BY <1>1 DEF RamSeverity
  <2>2. RamFact(s) \in FactLike /\ RamFact(s).check = "ram"
    BY <1>2, <1>3, <1>5, <2>1 DEF RamFact
  <2>3. FactsOf(s, check) = <<RamFact(s)>>
    BY <1>5 DEF FactsOf
  <2>4. QED
    BY <1>5, <2>2, <2>3, Singleton
<1>6. CASE check = "gpu"
  <2>1. GpuFact(s) \in FactLike /\ GpuFact(s).check = "gpu"
    BY <1>2, <1>3, <1>6 DEF GpuFact
  <2>2. FactsOf(s, check) = <<GpuFact(s)>>
    BY <1>6 DEF FactsOf
  <2>3. QED
    BY <1>6, <2>1, <2>2, Singleton
<1>7. CASE check = "temperature"
  <2>1. TemperatureSeverity(s.temperature) \in {"ok", "warning", "error"}
    BY <1>1 DEF TemperatureSeverity
  <2>2. TemperatureFact(s) \in FactLike /\ TemperatureFact(s).check = "temperature"
    BY <1>2, <1>3, <1>7, <2>1 DEF TemperatureFact
  <2>3. FactsOf(s, check) = IF s.temperature = 0 THEN <<>> ELSE <<TemperatureFact(s)>>
    BY <1>7 DEF FactsOf
  <2>4. QED
    BY <1>7, <2>2, <2>3, Singleton
<1>8. CASE check = "storage"
  <2>1. s.disks = Disks(name, machine, silent)
    BY DEF SystemInfo
  <2>2. Mount(name) \in Mounts
    BY DEF Mount, Mounts, PlatformName
  <2>3. \/ s.disks = <<>>
        \/ \E used : s.disks = <<[id |-> Mount(name), used |-> used]>>
    BY <2>1 DEF Disks
  <2>4. FactsOf(s, check) = StorageFacts(s)
    BY <1>8 DEF FactsOf
  <2>5. CASE s.disks = <<>>
    <3>1. StorageFacts(s) = <<>>
      BY <2>5 DEF StorageFacts
    <3>2. <<>> \in Seq(FactLike) /\ ToSet(<<>>) = {}
      BY DEF ToSet
    <3>3. QED
      BY <2>4, <3>1, <3>2
  <2>6. CASE \E used : s.disks = <<[id |-> Mount(name), used |-> used]>>
    <3>1. PICK used : s.disks = <<[id |-> Mount(name), used |-> used]>>
      BY <2>6
    <3> DEFINE fact == Fact(Mount(name), "storage", DiskSeverity(used))
    <3>2. DiskSeverity(used) \in {"ok", "warning", "error"}
      BY <1>1 DEF DiskSeverity
    <3>3. fact \in FactLike /\ fact.check = "storage"
      BY <1>2, <1>8, <2>2, <3>2
    <3>4. StorageFacts(s) = <<fact>>
      BY <3>1 DEF StorageFacts
    <3> HIDE DEF fact
    <3>5. FactsOf(s, check) = <<fact>>
      BY <2>4, <3>4
    <3>6. <<fact>> \in Seq(FactLike) /\ ToSet(<<fact>>) = {fact}
      BY <3>3, Singleton
    <3>7. QED
      BY <1>8, <3>3, <3>5, <3>6
  <2>7. QED
    BY <2>3, <2>5, <2>6
<1>9. CASE check = "processes"
  <2>1. ProcessesFact(s) \in FactLike /\ ProcessesFact(s).check = "processes"
    BY <1>2, <1>3, <1>9 DEF ProcessesFact, QuietProcesses
  <2>2. FactsOf(s, check) = <<ProcessesFact(s)>>
    BY <1>9 DEF FactsOf
  <2>3. QED
    BY <1>9, <2>1, <2>2, Singleton
<1>10. CASE check = "network"
  <2>1. NetworkFact \in FactLike /\ NetworkFact.check = "network"
    BY <1>2, <1>3, <1>10 DEF NetworkFact
  <2>2. FactsOf(s, check) = <<NetworkFact>>
    BY <1>10 DEF FactsOf
  <2>3. QED
    BY <1>10, <2>1, <2>2, Singleton
<1>11. QED
  BY <1>4, <1>5, <1>6, <1>7, <1>8, <1>9, <1>10, CheckNames

\* A diagnosis reports the facts of its checks, and nothing else.
LEMMA AnalyzedFacts ==
  ASSUME NEW name \in PlatformName, NEW machine, NEW silent, NEW checks, NEW s,
         s = SystemInfo(name, machine, silent)
  PROVE  /\ AnalyzeForQuery(s, checks) \in Seq(FactLike)
         /\ ToSet(AnalyzeForQuery(s, checks)) =
              UNION {ToSet(FactsOf(s, c)) : c \in checks \cap CheckName}
<1> DEFINE parts == [n \in DOMAIN CheckOrder |->
                      IF CheckOrder[n] \in checks THEN FactsOf(s, CheckOrder[n]) ELSE <<>>]
<1>1. <<>> \in Seq(FactLike) /\ ToSet(<<>>) = {}
  BY DEF ToSet
<1>2. \A c \in CheckName : FactsOf(s, c) \in Seq(FactLike)
  BY FactsOfChecks
<1>3. \A n \in 1 .. 7 : parts[n] = IF CheckOrder[n] \in checks THEN FactsOf(s, CheckOrder[n]) ELSE <<>>
  BY CheckNames
<1>4. parts \in Seq(Seq(FactLike)) /\ Len(parts) = 7
  <2>1. \A n \in 1 .. 7 : parts[n] \in Seq(FactLike)
    <3> HIDE DEF parts
    <3> TAKE n \in 1 .. 7
    <3>1. CheckOrder[n] \in CheckName
      BY CheckNames
    <3>2. FactsOf(s, CheckOrder[n]) \in Seq(FactLike)
      BY <1>2, <3>1
    <3>3. QED
      BY <1>1, <1>3, <3>2
  <2>2. QED
    BY <2>1, CheckNames
<1> HIDE DEF parts
<1>5. /\ FlattenSeq(parts) \in Seq(FactLike)
      /\ ToSet(FlattenSeq(parts)) = UNION {ToSet(parts[m]) : m \in 1 .. Len(parts)}
  BY <1>4, FlattenElements
<1>6. UNION {ToSet(parts[m]) : m \in 1 .. 7} = UNION {ToSet(FactsOf(s, c)) : c \in checks \cap CheckName}
  <2>1. ASSUME NEW m \in 1 .. 7, NEW x \in ToSet(parts[m])
        PROVE  x \in UNION {ToSet(FactsOf(s, c)) : c \in checks \cap CheckName}
    <3>1. CheckOrder[m] \in checks /\ parts[m] = FactsOf(s, CheckOrder[m])
      BY <1>1, <1>3, <2>1
    <3>2. CheckOrder[m] \in checks \cap CheckName
      BY <3>1, CheckNames
    <3>3. QED
      BY <2>1, <3>1, <3>2
  <2>2. ASSUME NEW c \in checks \cap CheckName, NEW x \in ToSet(FactsOf(s, c))
        PROVE  x \in UNION {ToSet(parts[m]) : m \in 1 .. 7}
    <3>1. PICK m \in 1 .. 7 : CheckOrder[m] = c
      BY <2>2, CheckNames
    <3>2. parts[m] = FactsOf(s, c)
      BY <1>3, <2>2, <3>1
    <3>3. QED
      BY <2>2, <3>2
  <2>3. QED
    BY <2>1, <2>2
<1>7. QED
  BY <1>4, <1>5, <1>6 DEF AnalyzeForQuery, parts

-----------------------------------------------------------------------------
(* What each state says of how it came about.                                *)

Observation(checks, found) ==
  \E name \in PlatformName, machine \in Machines, silent \in Silences :
    found = AnalyzeForQuery(SystemInfo(name, machine, silent), checks)

AskInv ==
  /\ stage = "idle" => platform = "none"
  /\ stage = "rejected" /\ platform = "none" => query \in Queries /\ AnalysisThrows(query)
  /\ stage = "selected" =>
       /\ query \in Queries /\ ~AnalysisThrows(query)
       /\ selection = ScoreContext(query, SelectChecks(query))

AnswerInv ==
  /\ stage \in {"selected", "observed", "answered"} =>
       \E q \in Queries : ~AnalysisThrows(q) /\ domain = IdentifySymptomDomain(q)
                            /\ selection = ScoreContext(q, SelectChecks(q))
  /\ stage \in {"observed", "answered"} => Observation(selection.checks, facts)
  /\ stage = "answered" =>
       answer = [actions |-> MapActions(facts, platform),
                 observability |-> ComputeObservability(selection.checks, facts),
                 gap |-> CriticalGap(domain, facts),
                 next |-> NextDomains(domain, selection.checks, facts)]

AssessInv ==
  stage = "assessed" =>
    \E model \in DOMAIN ModelSpecs, host \in Hosts :
      assessed = [model |-> model, host |-> host, verdict |-> CanExecute(ModelSpecs[model], host)]

ExamineInv ==
  /\ stage \in {"detected", "examined"} => platform \in PlatformName
  /\ stage = "examined" =>
       \E machine \in Machines, silent \in Silences :
         examined = [machine |-> machine, silent |-> silent,
                     report |-> RunDoctor(platform, machine, silent)]

ConsultationInv == AskInv /\ AnswerInv /\ AssessInv /\ ExamineInv

LEMMA PlatformDetected ==
  ASSUME NEW env
  PROVE  DetectPlatform(env) \in PlatformName \cup {"unknown"}
BY DEF DetectPlatform, PlatformName

LEMMA ConsultationInvariant == Spec => []ConsultationInv
<1>1. Init => ConsultationInv
  BY DEF Init, ConsultationInv, AskInv, AnswerInv, AssessInv, ExamineInv
<1>2. ConsultationInv /\ [Next]_vars => ConsultationInv'
  <2> SUFFICES ASSUME ConsultationInv, [Next]_vars PROVE ConsultationInv'
    OBVIOUS
  <2>0. AskInv /\ AnswerInv /\ AssessInv /\ ExamineInv
    BY DEF ConsultationInv
  <2>1. ASSUME NEW q \in Queries, Ask(q) PROVE ConsultationInv'
    <3>1. /\ stage = "idle" /\ query' = q /\ platform' = platform
          /\ domain' = IdentifySymptomDomain(q)
          /\ \/ AnalysisThrows(q) /\ stage' = "rejected"
             \/ /\ ~AnalysisThrows(q) /\ stage' = "selected"
                /\ selection' = ScoreContext(q, SelectChecks(q))
      BY <2>1 DEF Ask
    <3>2. AskInv'
      BY <3>1 DEF AskInv, Queries
    <3>3. AnswerInv'
      BY <3>1 DEF AnswerInv, Queries
    <3>4. AssessInv' /\ ExamineInv'
      BY <3>1 DEF AssessInv, ExamineInv
    <3>5. QED
      BY <3>2, <3>3, <3>4 DEF ConsultationInv
  <2>2. ASSUME NEW name \in PlatformName, NEW machine \in Machines, NEW silent \in Silences,
               Observe(name, machine, silent)
        PROVE  ConsultationInv'
    <3>1. /\ stage = "selected" /\ stage' = "observed"
          /\ facts' = AnalyzeForQuery(SystemInfo(name, machine, silent), selection.checks)
          /\ UNCHANGED <<domain, selection>>
      BY <2>2 DEF Observe
    <3>2. AskInv' /\ AssessInv' /\ ExamineInv'
      BY <3>1 DEF AskInv, AssessInv, ExamineInv
    <3>3. Observation(selection, facts)' <=> Observation(selection', facts')
      BY DEF Observation
    <3>4. Observation(selection'.checks, facts')
      BY <3>1 DEF Observation
    <3>5. AnswerInv'
      BY <2>0, <3>1, <3>4 DEF AnswerInv, Observation, Queries
    <3>6. QED
      BY <3>2, <3>5 DEF ConsultationInv
  <2>3. CASE Answer
    <3>1. /\ stage = "observed" /\ stage' = "answered"
          /\ answer' = [actions |-> MapActions(facts, platform),
                        observability |-> ComputeObservability(selection.checks, facts),
                        gap |-> CriticalGap(domain, facts),
                        next |-> NextDomains(domain, selection.checks, facts)]
          /\ UNCHANGED <<domain, selection, facts, platform>>
      BY <2>3 DEF Answer
    <3>2. AskInv' /\ AssessInv' /\ ExamineInv'
      BY <3>1 DEF AskInv, AssessInv, ExamineInv
    <3>3. AnswerInv'
      BY <2>0, <3>1 DEF AnswerInv, Observation, Queries
    <3>4. QED
      BY <3>2, <3>3 DEF ConsultationInv
  <2>4. ASSUME NEW model \in DOMAIN ModelSpecs, NEW host \in Hosts, Assess(model, host)
        PROVE  ConsultationInv'
    <3>1. /\ stage = "idle" /\ stage' = "assessed" /\ platform' = platform
          /\ assessed' = [model |-> model, host |-> host, verdict |-> CanExecute(ModelSpecs[model], host)]
      BY <2>4 DEF Assess
    <3>2. AskInv' /\ AnswerInv' /\ ExamineInv'
      BY <3>1 DEF AskInv, AnswerInv, ExamineInv
    <3>3. AssessInv'
      BY <3>1 DEF AssessInv
    <3>4. QED
      BY <3>2, <3>3 DEF ConsultationInv
  <2>5. ASSUME NEW env \in Environment, Detect(env) PROVE ConsultationInv'
    <3>1. /\ platform' \in PlatformName \cup {"unknown"}
          /\ stage' = IF platform' = "unknown" THEN "rejected" ELSE "detected"
      BY <2>5, PlatformDetected DEF Detect
    <3>2. AskInv' /\ AnswerInv' /\ AssessInv' /\ ExamineInv'
      BY <3>1 DEF AskInv, AnswerInv, AssessInv, ExamineInv, PlatformName
    <3>3. QED
      BY <3>2 DEF ConsultationInv
  <2>6. ASSUME NEW machine \in Machines, NEW silent \in Silences, Examine(machine, silent)
        PROVE  ConsultationInv'
    <3>1. /\ stage = "detected" /\ stage' = "examined" /\ platform' = platform
          /\ examined' = [machine |-> machine, silent |-> silent,
                          report |-> RunDoctor(platform, machine, silent)]
      BY <2>6 DEF Examine
    <3>2. AskInv' /\ AnswerInv' /\ AssessInv'
      BY <3>1 DEF AskInv, AnswerInv, AssessInv
    <3>3. ExamineInv'
      BY <2>0, <3>1 DEF ExamineInv
    <3>4. QED
      BY <3>2, <3>3 DEF ConsultationInv
  <2>7. CASE UNCHANGED vars
    <3>1. UNCHANGED <<stage, query, domain, selection, facts, platform, answer, assessed, examined>>
      BY <2>7 DEF vars
    <3>2. AskInv' /\ AnswerInv' /\ AssessInv' /\ ExamineInv'
      BY <2>0, <3>1 DEF AskInv, AnswerInv, AssessInv, ExamineInv, Observation, Queries
    <3>3. QED
      BY <3>2 DEF ConsultationInv
  <2>8. QED
    BY <2>1, <2>2, <2>3, <2>4, <2>5, <2>6, <2>7 DEF Next
<1>3. QED
  BY <1>1, <1>2, PTL DEF Spec

-----------------------------------------------------------------------------
(* Whether a model can run.                                                  *)

HostForm == [ram : Nat \cup {Unknown}, cores : Nat, genericGpu : BOOLEAN, temperature : Nat \cup {Unknown}]

LEMMA Models ==
  /\ \A model \in DOMAIN ModelSpecs :
       /\ ModelSpecs[model].ram \in Nat \ {0} /\ ModelSpecs[model].cores \in Nat
       /\ ModelSpecs[model].gpu \in BOOLEAN /\ ModelSpecs[model].maxContext \in {2048, 4096, 8192}
  /\ AlternativeModels \subseteq DOMAIN ModelSpecs
<1>1. DOMAIN ModelSpecs = {"gemma_2b_q4", "gemma_2b_q8", "qwen25_7b_q4", "qwen25_7b_q8", "llama_70b_q4"}
  BY DEF ModelSpecs
<1>2. /\ ModelSpecs["gemma_2b_q4"] = [ram |-> 15, cores |-> 2, gpu |-> FALSE, maxContext |-> 2048]
      /\ ModelSpecs["gemma_2b_q8"] = [ram |-> 25, cores |-> 2, gpu |-> FALSE, maxContext |-> 2048]
      /\ ModelSpecs["qwen25_7b_q4"] = [ram |-> 40, cores |-> 4, gpu |-> FALSE, maxContext |-> 4096]
      /\ ModelSpecs["qwen25_7b_q8"] = [ram |-> 70, cores |-> 4, gpu |-> FALSE, maxContext |-> 4096]
      /\ ModelSpecs["llama_70b_q4"] = [ram |-> 400, cores |-> 8, gpu |-> TRUE, maxContext |-> 8192]
  BY DEF ModelSpecs, Spec4
<1>3. \A model \in DOMAIN ModelSpecs :
        /\ ModelSpecs[model].ram \in Nat \ {0} /\ ModelSpecs[model].cores \in Nat
        /\ ModelSpecs[model].gpu \in BOOLEAN /\ ModelSpecs[model].maxContext \in {2048, 4096, 8192}
  <2> SUFFICES ASSUME NEW model \in DOMAIN ModelSpecs
               PROVE  /\ ModelSpecs[model].ram \in Nat \ {0} /\ ModelSpecs[model].cores \in Nat
                      /\ ModelSpecs[model].gpu \in BOOLEAN
                      /\ ModelSpecs[model].maxContext \in {2048, 4096, 8192}
    OBVIOUS
  <2>1. CASE model = "gemma_2b_q4"
    <3>1. ModelSpecs[model] = ModelSpecs["gemma_2b_q4"]
      BY <2>1
    <3>2. QED
      BY <1>2, <3>1
  <2>2. CASE model = "gemma_2b_q8"
    <3>1. ModelSpecs[model] = ModelSpecs["gemma_2b_q8"]
      BY <2>2
    <3>2. QED
      BY <1>2, <3>1
  <2>3. CASE model = "qwen25_7b_q4"
    <3>1. ModelSpecs[model] = ModelSpecs["qwen25_7b_q4"]
      BY <2>3
    <3>2. QED
      BY <1>2, <3>1
  <2>4. CASE model = "qwen25_7b_q8"
    <3>1. ModelSpecs[model] = ModelSpecs["qwen25_7b_q8"]
      BY <2>4
    <3>2. QED
      BY <1>2, <3>1
  <2>5. CASE model = "llama_70b_q4"
    <3>1. ModelSpecs[model] = ModelSpecs["llama_70b_q4"]
      BY <2>5
    <3>2. QED
      BY <1>2, <3>1
  <2>6. QED
    BY <1>1, <2>1, <2>2, <2>3, <2>4, <2>5
<1>4. QED
  BY <1>1, <1>3 DEF AlternativeModels

\* No verdict of a check gets worse on a machine that is no worse.
LEMMA ChecksAreMonotone ==
  ASSUME NEW model \in DOMAIN ModelSpecs, NEW host \in HostForm, NEW other \in HostForm,
         NoWorse(host, other)
  PROVE  LET m == ModelSpecs[model]
         IN /\ Level(CheckRAM(m, host)) >= Level(CheckRAM(m, other))
            /\ Level(CheckCPU(m, host)) >= Level(CheckCPU(m, other))
            /\ Level(CheckGPU(m, host)) >= Level(CheckGPU(m, other))
            /\ Level(CheckTemperature(host)) >= Level(CheckTemperature(other))
<1> DEFINE m == ModelSpecs[model]
<1>1. m.ram \in Nat /\ m.cores \in Nat /\ m.gpu \in BOOLEAN
  BY Models
<1>2. /\ host.ram \in Int /\ other.ram \in Int /\ host.cores \in Nat /\ other.cores \in Nat
      /\ host.temperature \in Int /\ other.temperature \in Int
      /\ host.genericGpu \in BOOLEAN /\ other.genericGpu \in BOOLEAN
  BY DEF HostForm, Unknown
<1> HIDE DEF m
<1>3. Level(CheckRAM(m, host)) >= Level(CheckRAM(m, other))
  BY <1>1, <1>2 DEF NoWorse, CheckRAM, Level
<1>4. Level(CheckCPU(m, host)) >= Level(CheckCPU(m, other))
  BY <1>1, <1>2 DEF NoWorse, CheckCPU, Level
<1>5. Level(CheckGPU(m, host)) >= Level(CheckGPU(m, other))
  BY <1>1, <1>2 DEF NoWorse, CheckGPU, Level
<1>6. Level(CheckTemperature(host)) >= Level(CheckTemperature(other))
  BY <1>1, <1>2 DEF NoWorse, CheckTemperature, Level
<1>7. QED
  BY <1>3, <1>4, <1>5, <1>6 DEF m

\* The worst of some levels is the least of them.
LEMMA WorstIsLeast ==
  ASSUME NEW levels \in SUBSET {"fit", "constrained", "unfit"}, levels # {}
  PROVE  /\ Worst(levels) \in levels
         /\ \A level \in levels : Level(Worst(levels)) <= Level(level)
BY DEF Worst, Level

LEMMA VerdictLevels ==
  ASSUME NEW m, NEW host
  PROVE  Verdicts(m, host) \in SUBSET {"fit", "constrained", "unfit"} /\ Verdicts(m, host) # {}
BY DEF Verdicts, CheckRAM, CheckCPU, CheckGPU, CheckTemperature

\* A better machine never gets a worse verdict, limits come with constrained and with
\* nothing else, and what is offered instead needs less memory
\* (model-feasibility.ts:1-12, "worst verdict wins").
THEOREM FeasibilityMonotone == Spec => []FeasibilityIsMonotone
<1>1. ConsultationInv => FeasibilityIsMonotone
  <2> SUFFICES ASSUME ConsultationInv, stage = "assessed"
               PROVE  /\ \A host \in Hosts : NoWorse(host, assessed.host) =>
                           Level(CanExecute(ModelSpecs[assessed.model], host).level)
                             >= Level(assessed.verdict.level)
                      /\ (assessed.verdict.limits # NoLimits) <=> assessed.verdict.level = "constrained"
                      /\ \A a \in assessed.verdict.alternatives :
                           ModelSpecs[a].ram < ModelSpecs[assessed.model].ram
    BY DEF FeasibilityIsMonotone
  <2>1. PICK model \in DOMAIN ModelSpecs, other \in Hosts :
          assessed = [model |-> model, host |-> other, verdict |-> CanExecute(ModelSpecs[model], other)]
    BY DEF ConsultationInv, AssessInv
  <2> DEFINE m == ModelSpecs[model]
             verdict == CanExecute(m, other)
  <2>2. assessed.model = model /\ assessed.host = other /\ assessed.verdict = verdict
    BY <2>1
  <2>3. Hosts \subseteq HostForm
    BY ConsultationAssumption DEF HostForm
  <2>4. /\ verdict.level = Worst(Verdicts(m, other))
        /\ verdict.limits = IF verdict.level = "constrained" THEN ExecutionLimits(m) ELSE NoLimits
        /\ verdict.alternatives \subseteq {a \in AlternativeModels : ModelSpecs[a].ram < m.ram}
    BY DEF CanExecute
  <2>5. ASSUME NEW host \in Hosts, NoWorse(host, other)
        PROVE  Level(CanExecute(m, host).level) >= Level(verdict.level)
    <3>1. CanExecute(m, host).level = Worst(Verdicts(m, host))
      BY DEF CanExecute
    <3> HIDE DEF m, verdict
    <3>2. Worst(Verdicts(m, host)) \in Verdicts(m, host)
      BY VerdictLevels, WorstIsLeast
    <3>3. \A level \in Verdicts(m, other) : Level(verdict.level) <= Level(level)
      BY <2>4, VerdictLevels, WorstIsLeast
    <3>4. /\ Level(CheckRAM(m, host)) >= Level(CheckRAM(m, other))
          /\ Level(CheckCPU(m, host)) >= Level(CheckCPU(m, other))
          /\ Level(CheckGPU(m, host)) >= Level(CheckGPU(m, other))
          /\ Level(CheckTemperature(host)) >= Level(CheckTemperature(other))
      BY <2>3, <2>5, ChecksAreMonotone DEF m
    <3>5. /\ Level(verdict.level) <= Level(CheckRAM(m, other))
          /\ Level(verdict.level) <= Level(CheckCPU(m, other))
          /\ Level(verdict.level) <= Level(CheckGPU(m, other))
          /\ Level(verdict.level) <= Level(CheckTemperature(other))
      BY <3>3 DEF Verdicts
    <3>6. /\ \A level \in Verdicts(m, host) : Level(level) \in Int
          /\ \A level \in Verdicts(m, other) : Level(level) \in Int
          /\ Level(verdict.level) \in Int
      <4>1. \A level \in {"fit", "constrained", "unfit"} : Level(level) \in Int
        BY DEF Level
      <4>2. verdict.level \in Verdicts(m, other)
        BY <2>4, VerdictLevels, WorstIsLeast
      <4>3. QED
        BY <4>1, <4>2, VerdictLevels
    <3>7. Worst(Verdicts(m, host)) \in {CheckRAM(m, host), CheckCPU(m, host), CheckGPU(m, host), CheckTemperature(host)}
      BY <3>2 DEF Verdicts
    <3>8. /\ Level(CheckRAM(m, host)) \in Int /\ Level(CheckCPU(m, host)) \in Int
          /\ Level(CheckGPU(m, host)) \in Int /\ Level(CheckTemperature(host)) \in Int
          /\ Level(CheckRAM(m, other)) \in Int /\ Level(CheckCPU(m, other)) \in Int
          /\ Level(CheckGPU(m, other)) \in Int /\ Level(CheckTemperature(other)) \in Int
      BY <3>6 DEF Verdicts
    <3>9. QED
      BY <3>1, <3>4, <3>5, <3>6, <3>7, <3>8
  <2>6. ExecutionLimits(m) # NoLimits
    BY DEF ExecutionLimits, NoLimits
  <2>7. QED
    <3> HIDE DEF verdict
    <3>1. \A host \in Hosts : NoWorse(host, assessed.host) =>
            Level(CanExecute(ModelSpecs[assessed.model], host).level) >= Level(assessed.verdict.level)
      BY <2>2, <2>5
    <3>2. (assessed.verdict.limits # NoLimits) <=> assessed.verdict.level = "constrained"
      BY <2>2, <2>4, <2>6
    <3>3. \A a \in assessed.verdict.alternatives : ModelSpecs[a].ram < ModelSpecs[assessed.model].ram
      BY <2>2, <2>4
    <3>4. QED
      BY <3>1, <3>2, <3>3
<1>2. QED
  BY <1>1, ConsultationInvariant, PTL

-----------------------------------------------------------------------------
(* The doctor and a diagnosis of the same machine.                           *)

LEMMA DisksOfSystem ==
  ASSUME NEW name \in PlatformName, NEW machine, NEW silent, NEW s,
         s = SystemInfo(name, machine, silent)
  PROVE  \/ s.disks = <<>>
         \/ \E used : s.disks = <<[id |-> Mount(name), used |-> used]>>
<1>1. s.disks = Disks(name, machine, silent)
  BY DEF SystemInfo
<1>2. QED
  BY <1>1 DEF Disks

\* What a diagnosis of everything reports.
ReportedOf(s, f) ==
  \/ f = CpuFact(s) \/ f = RamFact(s) \/ f = GpuFact(s) \/ f = ProcessesFact(s) \/ f = NetworkFact
  \/ s.temperature # 0 /\ f = TemperatureFact(s)
  \/ f \in ToSet(StorageFacts(s))

LEMMA ReportedFacts ==
  ASSUME NEW name \in PlatformName, NEW machine, NEW silent, NEW s,
         s = SystemInfo(name, machine, silent)
  PROVE  \A f : f \in ToSet(AnalyzeForQuery(s, CheckName)) <=> ReportedOf(s, f)
<1>1. ToSet(AnalyzeForQuery(s, CheckName)) = UNION {ToSet(FactsOf(s, c)) : c \in CheckName}
  <2>1. CheckName \cap CheckName = CheckName
    OBVIOUS
  <2>2. QED
    BY <2>1, AnalyzedFacts
<1>2. /\ FactsOf(s, "cpu") = <<CpuFact(s)>> /\ FactsOf(s, "ram") = <<RamFact(s)>>
      /\ FactsOf(s, "gpu") = <<GpuFact(s)>> /\ FactsOf(s, "processes") = <<ProcessesFact(s)>>
      /\ FactsOf(s, "network") = <<NetworkFact>> /\ FactsOf(s, "storage") = StorageFacts(s)
      /\ FactsOf(s, "temperature") = IF s.temperature = 0 THEN <<>> ELSE <<TemperatureFact(s)>>
  BY DEF FactsOf
<1>3. ToSet(<<>>) = {} /\ \A x : ToSet(<<x>>) = {x}
  BY DEF ToSet
<1>4. \A f : f \in ToSet(FactsOf(s, "temperature")) <=> s.temperature # 0 /\ f = TemperatureFact(s)
  BY <1>2, <1>3
<1>5. \A f : f \in UNION {ToSet(FactsOf(s, c)) : c \in CheckName} <=>
        \/ f \in ToSet(FactsOf(s, "cpu")) \/ f \in ToSet(FactsOf(s, "ram"))
        \/ f \in ToSet(FactsOf(s, "gpu")) \/ f \in ToSet(FactsOf(s, "temperature"))
        \/ f \in ToSet(FactsOf(s, "storage")) \/ f \in ToSet(FactsOf(s, "processes"))
        \/ f \in ToSet(FactsOf(s, "network"))
  BY CheckNames
<1>6. \A f : f \in ToSet(FactsOf(s, "cpu")) <=> f = CpuFact(s)
  BY <1>2, <1>3
<1>7. \A f : f \in ToSet(FactsOf(s, "ram")) <=> f = RamFact(s)
  BY <1>2, <1>3
<1>8. \A f : f \in ToSet(FactsOf(s, "gpu")) <=> f = GpuFact(s)
  BY <1>2, <1>3
<1>9. \A f : f \in ToSet(FactsOf(s, "processes")) <=> f = ProcessesFact(s)
  BY <1>2, <1>3
<1>10. \A f : f \in ToSet(FactsOf(s, "network")) <=> f = NetworkFact
  BY <1>2, <1>3
<1>11. \A f : f \in ToSet(FactsOf(s, "storage")) <=> f \in ToSet(StorageFacts(s))
  BY <1>2
<1>12. QED
  BY <1>1, <1>4, <1>5, <1>6, <1>7, <1>8, <1>9, <1>10, <1>11 DEF ReportedOf

\* The items of the doctor that a diagnosis has facts for.
SharedIds == {"ram-usage", "ram-status", "gpu-generic-driver", "gpu-driver", "gpu-driver-ok",
              "storage-/", "storage-C:", "storage-/data", "temperature-cpu", "temperature-status"}

LEMMA SharedItems ==
  ASSUME NEW name, NEW system, NEW known, NEW tools, NEW privileges,
         NEW i \in AnalyzeSystem(name, system, known, tools, privileges), i.id \in SharedIds
  PROVE  \/ i = RamItem(system, known) \/ i = GpuItem(system)
         \/ i \in StorageItems(system) \/ i \in TemperatureItems(system)
<1>1. \A id, severity : Item(id, severity).id = id
  BY DEF Item
<1>2. CASE i \in ToolItems(name, tools)
  <2>1. i.id \in ToolsOf(name)
    BY <1>1, <1>2 DEF ToolItems
  <2>2. QED
    BY <2>1 DEF ToolsOf, SharedIds
<1>3. CASE i \in AdbItems(name, tools, privileges)
  <2>1. i.id \in {"adb-binario", "adb-dispositivo"}
    BY <1>1, <1>3 DEF AdbItems
  <2>2. QED
    BY <2>1 DEF SharedIds
<1>4. CASE i \in PrivilegeItems(name, privileges)
  <2>1. i.id \in {"shell", "shizuku", "root"}
    BY <1>1, <1>4 DEF PrivilegeItems
  <2>2. QED
    BY <2>1 DEF SharedIds
<1>5. CASE i = Item("os-version", "ok") \/ i = Item("cpu-model", "ok")
  BY <1>1, <1>5 DEF SharedIds
<1>6. QED
  BY <1>2, <1>3, <1>4, <1>5 DEF AnalyzeSystem

LEMMA OneSeverity ==
  ASSUME NEW items, NEW ids, NEW x \in items, x.id \in ids,
         \A i \in items : i.id \in ids => i.severity = x.severity
  PROVE  SeverityOf(items, ids) = {x.severity}
BY DEF SeverityOf

LEMMA NoSeverity ==
  ASSUME NEW items, NEW ids, \A i \in items : i.id \notin ids
  PROVE  SeverityOf(items, ids) = {}
BY DEF SeverityOf

LEMMA SharedSeverities ==
  ASSUME NEW name \in PlatformName, NEW machine, NEW silent, NEW s,
         s = SystemInfo(name, machine, silent), NEW known, NEW tools, NEW privileges, NEW ids
  PROVE  LET items == AnalyzeSystem(name, s, known, tools, privileges)
             diagnosed == ToSet(AnalyzeForQuery(s, CheckName))
         IN /\ ids = {"ram-usage", "ram-status"} =>
                 /\ SeverityOf(items, ids) = {IF known THEN RamSeverity(s.ram) ELSE "unknown"}
                 /\ SeverityOf(diagnosed, ids) = {RamSeverity(s.ram)}
            /\ ids = {"gpu-generic-driver", "gpu-driver", "gpu-driver-ok"} =>
                 SeverityOf(items, ids) = SeverityOf(diagnosed, ids)
            /\ ids = {Mount(name)} => SeverityOf(items, ids) = SeverityOf(diagnosed, ids)
            /\ ids = {"temperature-cpu", "temperature-status"} =>
                 SeverityOf(items, ids) = SeverityOf(diagnosed, ids)
<1> DEFINE items == AnalyzeSystem(name, s, known, tools, privileges)
           diagnosed == ToSet(AnalyzeForQuery(s, CheckName))
<1>1. /\ RamItem(s, known) \in items /\ GpuItem(s) \in items
      /\ StorageItems(s) \subseteq items /\ TemperatureItems(s) \subseteq items
  BY DEF AnalyzeSystem
<1>2. \A i \in items : i.id \in SharedIds =>
        \/ i = RamItem(s, known) \/ i = GpuItem(s)
        \/ i \in StorageItems(s) \/ i \in TemperatureItems(s)
  BY SharedItems
<1>3. \A f : f \in diagnosed <=> ReportedOf(s, f)
  BY ReportedFacts
<1>4. /\ RamItem(s, known).id = "ram-usage"
      /\ RamItem(s, known).severity = IF known THEN RamSeverity(s.ram) ELSE "unknown"
      /\ GpuItem(s).id = IF s.genericGpu THEN "gpu-generic-driver" ELSE "gpu-driver"
      /\ GpuItem(s).severity = IF s.genericGpu THEN "warning" ELSE "ok"
      /\ \A i \in TemperatureItems(s) : s.temperature # 0 /\ i.id = "temperature-cpu"
           /\ i.severity = TemperatureSeverity(s.temperature)
      /\ s.temperature # 0 =>
           Item("temperature-cpu", TemperatureSeverity(s.temperature)) \in TemperatureItems(s)
  BY DEF RamItem, GpuItem, TemperatureItems, Item, RamSeverity, TemperatureSeverity
<1>5. /\ CpuFact(s).id = "cpu-status" /\ RamFact(s).id = "ram-status"
      /\ RamFact(s).severity = RamSeverity(s.ram)
      /\ GpuFact(s).id = IF s.genericGpu THEN "gpu-generic-driver" ELSE "gpu-driver-ok"
      /\ GpuFact(s).severity = IF s.genericGpu THEN "warning" ELSE "ok"
      /\ ProcessesFact(s).id \in {"processes-ok", "heavy-processes"} /\ NetworkFact.id = "network-status"
      /\ TemperatureFact(s).id = "temperature-status"
      /\ TemperatureFact(s).severity = TemperatureSeverity(s.temperature)
  BY DEF CpuFact, RamFact, GpuFact, ProcessesFact, QuietProcesses, NetworkFact, TemperatureFact, Fact
<1>6. Mount(name) \in {"storage-/", "storage-C:", "storage-/data"}
  BY DEF Mount, PlatformName
<1>7. \/ StorageItems(s) = {} /\ ToSet(StorageFacts(s)) = {}
      \/ \E used : /\ StorageItems(s) = {Item(Mount(name), DiskSeverity(used))}
                   /\ ToSet(StorageFacts(s)) = {Fact(Mount(name), "storage", DiskSeverity(used))}
  <2>1. CASE s.disks = <<>>
    BY <2>1 DEF StorageItems, StorageFacts, ToSet
  <2>2. CASE \E used : s.disks = <<[id |-> Mount(name), used |-> used]>>
    <3>1. PICK used : s.disks = <<[id |-> Mount(name), used |-> used]>>
      BY <2>2
    <3> DEFINE disk == [id |-> Mount(name), used |-> used]
    <3>2. disk.id = Mount(name) /\ disk.used = used
      OBVIOUS
    <3>3. s.disks = <<disk>>
      BY <3>1
    <3> HIDE DEF disk
    <3>4. ToSet(s.disks) = {disk}
      BY <3>3 DEF ToSet
    <3>5. StorageItems(s) = {Item(Mount(name), DiskSeverity(used))}
      BY <3>2, <3>4 DEF StorageItems, DiskSeverity
    <3>6. StorageFacts(s) = <<Fact(Mount(name), "storage", DiskSeverity(used))>>
      BY <3>2, <3>3 DEF StorageFacts
    <3>7. \A x : ToSet(<<x>>) = {x}
      BY DEF ToSet
    <3>8. QED
      BY <3>5, <3>6, <3>7
  <2>3. QED
    BY <2>1, <2>2, DisksOfSystem
<1>8. /\ \A i \in StorageItems(s) : i.id = Mount(name)
      /\ \A f \in ToSet(StorageFacts(s)) : f.id = Mount(name)
  BY <1>7 DEF Item, Fact
<1> HIDE DEF items, diagnosed
<1>9. ASSUME ids = {"ram-usage", "ram-status"}
      PROVE  /\ SeverityOf(items, ids) = {IF known THEN RamSeverity(s.ram) ELSE "unknown"}
             /\ SeverityOf(diagnosed, ids) = {RamSeverity(s.ram)}
  <2>1. \A i \in items : i.id \in ids => i = RamItem(s, known)
    BY <1>2, <1>4, <1>6, <1>8, <1>9 DEF SharedIds
  <2>2. \A f \in diagnosed : f.id \in ids => f = RamFact(s)
    BY <1>3, <1>5, <1>6, <1>8, <1>9 DEF ReportedOf
  <2>3. RamFact(s) \in diagnosed
    BY <1>3 DEF ReportedOf
  <2>4. SeverityOf(items, ids) = {RamItem(s, known).severity}
    BY <1>1, <1>4, <1>9, <2>1, OneSeverity
  <2>5. SeverityOf(diagnosed, ids) = {RamFact(s).severity}
    BY <1>5, <1>9, <2>2, <2>3, OneSeverity
  <2>6. QED
    BY <1>4, <1>5, <2>4, <2>5
<1>10. ASSUME ids = {"gpu-generic-driver", "gpu-driver", "gpu-driver-ok"}
       PROVE  SeverityOf(items, ids) = SeverityOf(diagnosed, ids)
  <2>1. \A i \in items : i.id \in ids => i = GpuItem(s)
    BY <1>2, <1>4, <1>6, <1>8, <1>10 DEF SharedIds
  <2>2. \A f \in diagnosed : f.id \in ids => f = GpuFact(s)
    BY <1>3, <1>5, <1>6, <1>8, <1>10 DEF ReportedOf
  <2>3. GpuFact(s) \in diagnosed
    BY <1>3 DEF ReportedOf
  <2>4. SeverityOf(items, ids) = {GpuItem(s).severity}
    BY <1>1, <1>4, <1>10, <2>1, OneSeverity
  <2>5. SeverityOf(diagnosed, ids) = {GpuFact(s).severity}
    BY <1>5, <1>10, <2>2, <2>3, OneSeverity
  <2>6. QED
    BY <1>4, <1>5, <2>4, <2>5
<1>11. ASSUME ids = {Mount(name)}
       PROVE  SeverityOf(items, ids) = SeverityOf(diagnosed, ids)
  <2>1. \A i \in items : i.id \in ids => i \in StorageItems(s)
    BY <1>2, <1>4, <1>6, <1>11 DEF SharedIds
  <2>2. \A f \in diagnosed : f.id \in ids => f \in ToSet(StorageFacts(s))
    BY <1>3, <1>5, <1>6, <1>11 DEF ReportedOf
  <2>3. ToSet(StorageFacts(s)) \subseteq diagnosed
    BY <1>3 DEF ReportedOf
  <2>4. CASE StorageItems(s) = {} /\ ToSet(StorageFacts(s)) = {}
    <3>1. (\A i \in items : i.id \notin ids) /\ (\A f \in diagnosed : f.id \notin ids)
      BY <2>1, <2>2, <2>4
    <3>2. QED
      BY <3>1, NoSeverity
  <2>5. CASE \E used : /\ StorageItems(s) = {Item(Mount(name), DiskSeverity(used))}
                       /\ ToSet(StorageFacts(s)) = {Fact(Mount(name), "storage", DiskSeverity(used))}
    <3>1. PICK used : /\ StorageItems(s) = {Item(Mount(name), DiskSeverity(used))}
                      /\ ToSet(StorageFacts(s)) = {Fact(Mount(name), "storage", DiskSeverity(used))}
      BY <2>5
    <3> DEFINE item == Item(Mount(name), DiskSeverity(used))
               fact == Fact(Mount(name), "storage", DiskSeverity(used))
    <3>2. item.id = Mount(name) /\ fact.id = Mount(name) /\ item.severity = fact.severity
      BY DEF Item, Fact
    <3> HIDE DEF item, fact
    <3>3. /\ item \in items /\ fact \in diagnosed
          /\ \A i \in items : i.id \in ids => i = item
          /\ \A f \in diagnosed : f.id \in ids => f = fact
      BY <1>1, <2>1, <2>2, <2>3, <3>1 DEF item, fact
    <3>4. SeverityOf(items, ids) = {item.severity}
      BY <1>11, <3>2, <3>3, OneSeverity
    <3>5. SeverityOf(diagnosed, ids) = {fact.severity}
      BY <1>11, <3>2, <3>3, OneSeverity
    <3>6. QED
      BY <3>2, <3>4, <3>5
  <2>6. QED
    BY <1>7, <2>4, <2>5
<1>12. ASSUME ids = {"temperature-cpu", "temperature-status"}
       PROVE  SeverityOf(items, ids) = SeverityOf(diagnosed, ids)
  <2>1. \A i \in items : i.id \in ids => i \in TemperatureItems(s)
    BY <1>2, <1>4, <1>6, <1>8, <1>12 DEF SharedIds
  <2>2. \A f \in diagnosed : f.id \in ids => s.temperature # 0 /\ f = TemperatureFact(s)
    BY <1>3, <1>5, <1>6, <1>8, <1>12 DEF ReportedOf
  <2>3. CASE s.temperature = 0
    <3>1. (\A i \in items : i.id \notin ids) /\ (\A f \in diagnosed : f.id \notin ids)
      BY <1>4, <2>1, <2>2, <2>3
    <3>2. QED
      BY <3>1, NoSeverity
  <2>4. CASE s.temperature # 0
    <3> DEFINE item == Item("temperature-cpu", TemperatureSeverity(s.temperature))
    <3>1. item.id = "temperature-cpu" /\ item.severity = TemperatureSeverity(s.temperature)
      BY DEF Item
    <3>2. item \in items
      BY <1>1, <1>4, <2>4
    <3>3. TemperatureFact(s) \in diagnosed
      BY <1>3, <2>4 DEF ReportedOf
    <3>4. \A i \in items : i.id \in ids => i.severity = TemperatureSeverity(s.temperature)
      BY <1>4, <2>1
    <3> HIDE DEF item
    <3>5. SeverityOf(items, ids) = {item.severity}
      BY <1>12, <3>1, <3>2, <3>4, OneSeverity
    <3>6. SeverityOf(diagnosed, ids) = {TemperatureFact(s).severity}
      BY <1>5, <1>12, <2>2, <3>3, OneSeverity
    <3>7. QED
      BY <1>5, <3>1, <3>5, <3>6
  <2>5. QED
    BY <2>3, <2>4
<1>13. QED
  BY <1>9, <1>10, <1>11, <1>12 DEF items, diagnosed

\* What buffy doctor calls observed was measured or is filled in by the adapter, the
\* doctor and a diagnosis of the same machine agree, and the doctor says that it does
\* not know only what was not measured (context.ts:14, doctor.ts:48-100).
THEOREM DoctorHonest == Spec => []DoctorIsHonest
<1>1. ConsultationInv => DoctorIsHonest
  <2> SUFFICES ASSUME ConsultationInv, stage = "examined"
               PROVE  DoctorIsHonest
    BY DEF DoctorIsHonest
  <2>1. PICK machine \in Machines, silent \in Silences :
          examined = [machine |-> machine, silent |-> silent,
                      report |-> RunDoctor(platform, machine, silent)]
    BY DEF ConsultationInv, ExamineInv
  <2>2. platform \in PlatformName
    BY DEF ConsultationInv, ExamineInv
  <2> DEFINE s == SystemInfo(platform, machine, silent)
             known == HasMemory(platform, silent)
             tools == Capabilities(platform, machine, silent)
             privileges == Privileges(platform, machine, silent)
             items == AnalyzeSystem(platform, s, known, tools, privileges)
             diagnosed == ToSet(AnalyzeForQuery(s, CheckName))
  <2>3. /\ examined.silent = silent /\ examined.report.system = s /\ examined.report.items = items
        /\ examined.report.observed = ObservedFields(platform, s, known, silent)
    BY <2>1 DEF RunDoctor
  <2>4. ASSUME NEW measure \in ObservedFields(platform, s, known, silent)
        PROVE  Measured(platform, measure, silent) \/ FilledIn(measure)
    <3>1. CASE measure \in {"model", "card"}
      BY <3>1 DEF FilledIn
    <3>2. CASE measure = "cores"
      BY <2>4, <3>2 DEF ObservedFields, FilledIn
    <3>3. CASE measure = "memory"
      BY <2>4, <3>3 DEF ObservedFields, FilledIn, HasMemory
    <3>4. CASE measure = "temperature"
      <4>1. s.temperature # 0
        BY <2>4, <3>4 DEF ObservedFields
      <4>2. s.temperature = IfMeasured(platform, "temperature", silent, machine.temperature)
        BY DEF SystemInfo
      <4>3. QED
        BY <3>4, <4>1, <4>2 DEF IfMeasured
    <3>5. CASE measure = "disk"
      <4>1. s.disks # <<>>
        BY <2>4, <3>5 DEF ObservedFields
      <4>2. s.disks = Disks(platform, machine, silent)
        BY DEF SystemInfo
      <4>3. Measured(platform, "disk", silent) \/ platform = "android-termux"
        BY <4>1, <4>2 DEF Disks
      <4>4. QED
        BY <3>5, <4>3 DEF FilledIn
    <3>6. QED
      BY <2>4, <3>1, <3>2, <3>3, <3>4, <3>5 DEF ObservedFields
  <2> HIDE DEF known, tools, privileges
  <2>5. ASSUME NEW check \in {"ram", "gpu", "storage", "temperature"}
        PROVE  SeverityOf(items, SameIds(check)) \in {SeverityOf(diagnosed, SameIds(check)), {"unknown"}}
    <3>1. CASE check = "ram"
      <4>1. SameIds(check) = {"ram-usage", "ram-status"}
        BY <3>1 DEF SameIds
      <4>2. SeverityOf(items, {"ram-usage", "ram-status"}) = {IF known THEN RamSeverity(s.ram) ELSE "unknown"}
        BY <2>2, SharedSeverities
      <4>3. SeverityOf(diagnosed, {"ram-usage", "ram-status"}) = {RamSeverity(s.ram)}
        BY <2>2, SharedSeverities
      <4> HIDE DEF s, items, diagnosed
      <4>4. QED
        BY <4>1, <4>2, <4>3
    <3>2. CASE check = "gpu"
      <4>1. SameIds(check) = {"gpu-generic-driver", "gpu-driver", "gpu-driver-ok"}
        BY <3>2 DEF SameIds
      <4>2. SeverityOf(items, SameIds(check)) = SeverityOf(diagnosed, SameIds(check))
        BY <2>2, <4>1, SharedSeverities
      <4>3. QED
        BY <4>2
    <3>3. CASE check = "storage"
      <4>1. SameIds(check) = {Mount(platform)}
        BY <3>3 DEF SameIds
      <4>2. SeverityOf(items, SameIds(check)) = SeverityOf(diagnosed, SameIds(check))
        BY <2>2, <4>1, SharedSeverities
      <4>3. QED
        BY <4>2
    <3>4. CASE check = "temperature"
      <4>1. SameIds(check) = {"temperature-cpu", "temperature-status"}
        BY <3>4 DEF SameIds
      <4>2. SeverityOf(items, SameIds(check)) = SeverityOf(diagnosed, SameIds(check))
        BY <2>2, <4>1, SharedSeverities
      <4>3. QED
        BY <4>2
    <3>5. QED
      BY <3>1, <3>2, <3>3, <3>4
  <2>6. ASSUME Item("ram-usage", "unknown") \in items PROVE ~Measured(platform, "memory", silent)
    <3> DEFINE item == Item("ram-usage", "unknown")
    <3>1. item.id = "ram-usage" /\ item.severity = "unknown"
      BY DEF Item
    <3>2. SeverityOf(items, {"ram-usage", "ram-status"}) = {IF known THEN RamSeverity(s.ram) ELSE "unknown"}
      BY <2>2, SharedSeverities
    <3>3. RamSeverity(s.ram) \in {"ok", "warning", "error"}
      BY DEF RamSeverity, Graded
    <3> HIDE DEF item, items, s
    <3>4. item \in items
      BY <2>6 DEF item
    <3>5. item.severity \in SeverityOf(items, {"ram-usage", "ram-status"})
      BY <3>1, <3>4 DEF SeverityOf
    <3>6. ~known
      BY <3>1, <3>2, <3>3, <3>5
    <3>7. QED
      BY <3>6 DEF known, HasMemory
  <2> HIDE DEF s, items, diagnosed
  <2>7. /\ \A measure \in examined.report.observed :
             Measured(platform, measure, examined.silent) \/ FilledIn(measure)
        /\ \A check \in {"ram", "gpu", "storage", "temperature"} :
             SeverityOf(examined.report.items, SameIds(check)) \in
               {SeverityOf(ToSet(AnalyzeForQuery(examined.report.system, CheckName)), SameIds(check)),
                {"unknown"}}
        /\ Item("ram-usage", "unknown") \in examined.report.items =>
             ~Measured(platform, "memory", examined.silent)
    BY <2>3, <2>4, <2>5, <2>6 DEF diagnosed
  <2>8. QED
    BY <2>7 DEF DoctorIsHonest
<1>2. QED
  BY <1>1, ConsultationInvariant, PTL

-----------------------------------------------------------------------------
(* The fragments of a query are pieces of it.                                *)

\* What SplitFragments keeps after a word.
AfterWord(q, i, before) ==
  IF Meaning[q[i]].conjunction /\ i < Len(q) /\ before.last # <<>>
    THEN [done |-> Append(before.done, before.last), last |-> <<>>]
    ELSE [done |-> before.done, last |-> Append(before.last, q[i])]

SplitRecursion(q, read, n) ==
  read = [i \in 0 .. n |->
            IF i = 0 THEN [done |-> <<>>, last |-> <<>>] ELSE AfterWord(q, i, read[i - 1])]

LEMMA SplitExists ==
  ASSUME NEW q, NEW n \in Nat
  PROVE  \E read : SplitRecursion(q, read, n)
<1> DEFINE K == {k \in Nat : \E f : SplitRecursion(q, f, k)}
           Start == [done |-> <<>>, last |-> <<>>]
<1>1. 0 \in K
  <2>1. SplitRecursion(q, [i \in 0 .. 0 |-> Start], 0)
    BY DEF SplitRecursion
  <2>2. QED
    BY <2>1
<1>2. \A k \in Nat : k \in K => k + 1 \in K
  <2> SUFFICES ASSUME NEW k \in Nat, NEW f, SplitRecursion(q, f, k)
               PROVE  \E g : SplitRecursion(q, g, k + 1)
    OBVIOUS
  <2> DEFINE g == [i \in 0 .. k + 1 |->
                     IF i <= k THEN f[i] ELSE IF i = 0 THEN Start ELSE AfterWord(q, i, f[i - 1])]
  <2>1. \A i \in 0 .. k : f[i] = IF i = 0 THEN Start ELSE AfterWord(q, i, f[i - 1])
    BY DEF SplitRecursion
  <2> HIDE DEF Start
  <2>2. \A i \in 0 .. k + 1 : g[i] = IF i = 0 THEN Start ELSE AfterWord(q, i, g[i - 1])
    BY <2>1
  <2>3. SplitRecursion(q, g, k + 1)
    BY <2>2 DEF SplitRecursion, Start
  <2>4. QED
    BY <2>3
<1> HIDE DEF K
<1>3. n \in K
  BY <1>1, <1>2, Induction
<1>4. QED
  BY <1>3 DEF K

\* A piece of a query, from a place on.
PieceAt(f, q, n, offset) == offset + Len(f) <= n /\ \A i \in 1 .. Len(f) : f[i] = q[offset + i]
Piece(f, q, n) == \E offset \in Nat : PieceAt(f, q, n, offset)

\* What has been read of a query after n words.
Reading(q, n, state) ==
  /\ state.done \in Seq(Seq(Word)) /\ state.last \in Seq(Word)
  /\ n - Len(state.last) \in Nat /\ PieceAt(state.last, q, n, n - Len(state.last))
  /\ \A k \in 1 .. Len(state.done) : Piece(state.done[k], q, n)
  /\ state.done = <<>> => Len(state.last) = n

LEMMA ReadingKept ==
  ASSUME NEW q \in Seq(Word), NEW n \in Nat, n + 1 <= Len(q), NEW state, Reading(q, n, state)
  PROVE  Reading(q, n + 1, AfterWord(q, n + 1, state))
<1> DEFINE done == state.done
           last == state.last
<1>1. /\ done \in Seq(Seq(Word)) /\ last \in Seq(Word)
      /\ n - Len(last) \in Nat /\ PieceAt(last, q, n, n - Len(last))
      /\ \A k \in 1 .. Len(done) : Piece(done[k], q, n)
      /\ done = <<>> => Len(last) = n
  BY DEF Reading
<1>2. ASSUME NEW f \in Seq(Word), Piece(f, q, n) PROVE Piece(f, q, n + 1)
  <2>1. PICK offset \in Nat : PieceAt(f, q, n, offset)
    BY <1>2 DEF Piece
  <2>2. Len(f) \in Nat
    BY <1>2
  <2>3. PieceAt(f, q, n + 1, offset)
    BY <2>1, <2>2 DEF PieceAt
  <2>4. QED
    BY <2>3 DEF Piece
<1> HIDE DEF done, last
<1>3. Len(done) \in Nat /\ Len(last) \in Nat /\ \A k \in 1 .. Len(done) : done[k] \in Seq(Word)
  BY <1>1
<1>4. \A k \in 1 .. Len(done) : Piece(done[k], q, n + 1)
  BY <1>1, <1>2, <1>3
<1>5. CASE Meaning[q[n + 1]].conjunction /\ n + 1 < Len(q) /\ last # <<>>
  <2> DEFINE finished == Append(done, last)
  <2>1. AfterWord(q, n + 1, state) = [done |-> finished, last |-> <<>>]
    BY <1>5 DEF AfterWord, done, last
  <2>2. /\ finished \in Seq(Seq(Word)) /\ Len(finished) = Len(done) + 1
        /\ \A k \in 1 .. Len(done) : finished[k] = done[k]
        /\ finished[Len(done) + 1] = last
    BY <1>1, <1>3
  <2>3. Piece(last, q, n + 1)
    BY <1>1, <1>2 DEF Piece
  <2> HIDE DEF finished
  <2>4. \A k \in 1 .. Len(finished) : Piece(finished[k], q, n + 1)
    <3> TAKE k \in 1 .. Len(finished)
    <3>1. k \in 1 .. Len(done) \/ k = Len(done) + 1
      BY <1>3, <2>2
    <3>2. QED
      BY <1>4, <2>2, <2>3, <3>1
  <2>5. <<>> \in Seq(Word) /\ Len(<<>>) = 0
    OBVIOUS
  <2>6. PieceAt(<<>>, q, n + 1, n + 1)
    BY <2>5 DEF PieceAt
  <2>7. finished # <<>>
    BY <1>3, <2>2
  <2>8. Reading(q, n + 1, [done |-> finished, last |-> <<>>])
    BY <2>2, <2>4, <2>5, <2>6, <2>7 DEF Reading
  <2>9. QED
    BY <2>1, <2>8
<1>6. CASE ~(Meaning[q[n + 1]].conjunction /\ n + 1 < Len(q) /\ last # <<>>)
  <2> DEFINE longer == Append(last, q[n + 1])
  <2>1. AfterWord(q, n + 1, state) = [done |-> done, last |-> longer]
    BY <1>6 DEF AfterWord, done, last
  <2>2. q[n + 1] \in Word
    BY ElementOfSeq
  <2>3. /\ longer \in Seq(Word) /\ Len(longer) = Len(last) + 1
        /\ \A k \in 1 .. Len(last) : longer[k] = last[k]
        /\ longer[Len(last) + 1] = q[n + 1]
    BY <1>1, <1>3, <2>2
  <2> HIDE DEF longer
  <2>4. \A k \in 1 .. Len(last) : last[k] = q[(n - Len(last)) + k]
    BY <1>1 DEF PieceAt
  <2>5. \A k \in 1 .. Len(longer) : longer[k] = q[((n + 1) - Len(longer)) + k]
    <3> TAKE k \in 1 .. Len(longer)
    <3>1. (n + 1) - Len(longer) = n - Len(last)
      BY <1>3, <2>3
    <3>2. CASE k \in 1 .. Len(last)
      BY <2>3, <2>4, <3>1, <3>2
    <3>3. CASE k = Len(last) + 1
      <4>1. (n - Len(last)) + k = n + 1
        BY <1>3, <3>3
      <4>2. QED
        BY <2>3, <3>1, <3>3, <4>1
    <3>4. QED
      BY <1>3, <2>3, <3>2, <3>3
  <2>6. (n + 1) - Len(longer) \in Nat /\ PieceAt(longer, q, n + 1, (n + 1) - Len(longer))
    BY <1>1, <1>3, <2>3, <2>5 DEF PieceAt
  <2>7. done = <<>> => Len(longer) = n + 1
    BY <1>1, <2>3
  <2>8. Reading(q, n + 1, [done |-> done, last |-> longer])
    BY <1>1, <1>4, <2>3, <2>6, <2>7 DEF Reading
  <2>9. QED
    BY <2>1, <2>8
<1>7. QED
  BY <1>5, <1>6

\* A query has fragments, they are pieces of it, and the only one is all of it.
LEMMA FragmentsArePieces ==
  ASSUME NEW q \in Seq(Word)
  PROVE  /\ SplitFragments(q) \in Seq(Seq(Word)) /\ Len(SplitFragments(q)) \in Nat \ {0}
         /\ \A f \in ToSet(SplitFragments(q)) : f \in Seq(Word) /\ Piece(f, q, Len(q))
         /\ Len(SplitFragments(q)) = 1 => SplitFragments(q)[1] = q
<1> DEFINE read == CHOOSE r : SplitRecursion(q, r, Len(q))
<1>1. Len(q) \in Nat
  OBVIOUS
<1>2. SplitFragments(q) = Append(read[Len(q)].done, read[Len(q)].last)
  BY DEF SplitFragments, SplitRecursion, AfterWord
<1>3. SplitRecursion(q, read, Len(q))
  BY <1>1, SplitExists
<1> HIDE DEF read
<1>4. \A i \in 0 .. Len(q) :
        read[i] = IF i = 0 THEN [done |-> <<>>, last |-> <<>>] ELSE AfterWord(q, i, read[i - 1])
  BY <1>3 DEF SplitRecursion
<1> DEFINE K == {k \in Nat : k <= Len(q) => Reading(q, k, read[k])}
<1>5. 0 \in K
  <2>1. read[0] = [done |-> <<>>, last |-> <<>>]
    BY <1>1, <1>4
  <2>2. <<>> \in Seq(Word) /\ <<>> \in Seq(Seq(Word)) /\ Len(<<>>) = 0 /\ PieceAt(<<>>, q, 0, 0)
    BY DEF PieceAt
  <2> DEFINE start == read[0]
  <2>3. start.done = <<>> /\ start.last = <<>> /\ 0 - 0 = 0 /\ \A k \in 1 .. 0 : FALSE
    BY <2>1
  <2> HIDE DEF start
  <2>4. Reading(q, 0, start)
    BY <2>2, <2>3 DEF Reading
  <2>5. QED
    BY <2>4 DEF start
<1>6. ASSUME NEW k \in Nat, k \in K PROVE k + 1 \in K
  <2> SUFFICES ASSUME k + 1 <= Len(q) PROVE Reading(q, k + 1, read[k + 1])
    OBVIOUS
  <2>1. Reading(q, k, read[k])
    BY <1>1, <1>6
  <2>2. k + 1 \in 0 .. Len(q) /\ k + 1 # 0 /\ (k + 1) - 1 = k
    BY <1>1
  <2>3. read[k + 1] = AfterWord(q, k + 1, read[k])
    BY <1>4, <2>2
  <2>4. QED
    BY <2>1, <2>3, ReadingKept
<1>7. Len(q) \in K
  <2> HIDE DEF K
  <2>1. QED
    BY <1>1, <1>5, <1>6, Induction
<1> DEFINE done == read[Len(q)].done
           last == read[Len(q)].last
           fragments == Append(done, last)
<1>8. /\ done \in Seq(Seq(Word)) /\ last \in Seq(Word)
      /\ Len(q) - Len(last) \in Nat /\ PieceAt(last, q, Len(q), Len(q) - Len(last))
      /\ \A k \in 1 .. Len(done) : Piece(done[k], q, Len(q))
      /\ done = <<>> => Len(last) = Len(q)
  BY <1>1, <1>7 DEF Reading
<1> HIDE DEF done, last, K
<1>9. /\ fragments \in Seq(Seq(Word)) /\ Len(fragments) = Len(done) + 1 /\ Len(done) \in Nat
      /\ \A k \in 1 .. Len(done) : fragments[k] = done[k]
      /\ fragments[Len(done) + 1] = last
  BY <1>8
<1>10. SplitFragments(q) = fragments
  BY <1>2 DEF done, last
<1> HIDE DEF fragments
<1>11. ASSUME NEW f \in ToSet(fragments) PROVE f \in Seq(Word) /\ Piece(f, q, Len(q))
  <2>1. PICK k \in 1 .. Len(fragments) : f = fragments[k]
    BY <1>9, <1>11 DEF ToSet
  <2>2. fragments[k] \in Seq(Word)
    BY <1>9, <2>1, ElementOfSeq
  <2>3. CASE k \in 1 .. Len(done)
    BY <1>8, <1>9, <2>1, <2>2, <2>3
  <2>4. CASE k = Len(done) + 1
    <3>1. Piece(last, q, Len(q))
      BY <1>8 DEF Piece
    <3>2. QED
      BY <1>9, <2>1, <2>2, <2>4, <3>1
  <2>5. QED
    BY <1>9, <2>1, <2>3, <2>4
<1>12. ASSUME Len(fragments) = 1 PROVE fragments[1] = q
  <2>1. Len(done) = 0 /\ Len(done) + 1 = 1 /\ fragments[1] = last
    <3>1. Len(done) + 1 = 1
      BY <1>9, <1>12
    <3>2. QED
      BY <1>9, <3>1
  <2>2. done = <<>>
    BY <1>8, <2>1
  <2>3. Len(last) = Len(q) /\ Len(q) - Len(last) = 0
    BY <1>1, <1>8, <2>2
  <2>4. \A i \in 1 .. Len(last) : last[i] = q[i]
    BY <1>1, <1>8, <2>3 DEF PieceAt
  <2>5. last = q
    BY <1>8, <2>3, <2>4, SeqEqual
  <2>6. QED
    BY <2>1, <2>5
<1>13. QED
  BY <1>9, <1>10, <1>11, <1>12

-----------------------------------------------------------------------------
(* What a modifier is bound to.                                              *)

LEMMA FirstNumbers ==
  ASSUME NEW k \in Nat
  PROVE  IsFiniteSet(1 .. k) /\ Cardinality(1 .. k) = k
<1>1. IsFiniteSet(1 .. k) /\ Cardinality(1 .. k) = IF 1 > k THEN 0 ELSE k - 1 + 1
  BY FS_Interval
<1>2. QED
  BY <1>1

NoLetters(f) == {n \in DOMAIN f : ~Meaning[f[n]].letters}

LEMMA TokensOfFragment ==
  ASSUME NEW f \in Seq(Word)
  PROVE  /\ Tokens(f) \in Seq(Word)
         /\ \A k \in 1 .. Len(Tokens(f)) : \E m \in 1 .. Len(f) : Tokens(f)[k] = f[m]
         /\ Plain(f) => Len(Tokens(f)) = Len(f) /\ \A k \in 1 .. Len(f) : Tokens(f)[k] = f[k]
         /\ IsFiniteSet(NoLetters(f)) /\ Cardinality(NoLetters(f)) >= Len(f) - Len(Tokens(f))
<1> DEFINE S == {w \in Word : Meaning[w].letters}
           tokens == Tokens(f)
<1>1. /\ Filtered(f, S) \in Seq(Word)
      /\ \E place : Places(Filtered(f, S), f, S, Len(f), place)
  BY FilteredPlaces
<1>2. tokens = Filtered(f, S)
  BY DEF Tokens
<1>3. PICK place : Places(tokens, f, S, Len(f), place)
  BY <1>1, <1>2
<1>4. /\ Len(f) \in Nat /\ DOMAIN f = 1 .. Len(f) /\ Len(tokens) \in Nat /\ tokens \in Seq(Word)
      /\ \A m \in 1 .. Len(f) : f[m] \in Word
  <2> HIDE DEF tokens, S
  <2>1. QED
    BY <1>1, <1>2, ElementOfSeq
<1>5. \A m \in 1 .. Len(f) : f[m] \in S <=> Meaning[f[m]].letters
  BY <1>4
<1> HIDE DEF tokens, S
<1>6. /\ place \in [1 .. Len(tokens) -> 1 .. Len(f)]
      /\ \A k \in 1 .. Len(tokens) : tokens[k] = f[place[k]] /\ f[place[k]] \in S
      /\ \A i \in 1 .. Len(f) : f[i] \in S => \E k \in 1 .. Len(tokens) : place[k] = i
      /\ (\A i \in 1 .. Len(f) : f[i] \in S) => Len(tokens) = Len(f) /\ \A i \in 1 .. Len(f) : tokens[i] = f[i]
  BY <1>3 DEF Places
<1>7. \A k \in 1 .. Len(tokens) : \E m \in 1 .. Len(f) : tokens[k] = f[m]
  BY <1>6
<1>8. ASSUME Plain(f) PROVE Len(tokens) = Len(f) /\ \A k \in 1 .. Len(f) : tokens[k] = f[k]
  <2>1. \A i \in 1 .. Len(f) : f[i] \in S
    BY <1>4, <1>5, <1>8 DEF Plain
  <2>2. QED
    BY <1>6, <2>1
<1> DEFINE lettered == {m \in 1 .. Len(f) : f[m] \in S}
<1>9. IsFiniteSet(lettered) /\ Cardinality(lettered) <= Len(tokens)
  <2>1. place \in Surjection(1 .. Len(tokens), lettered)
    <3>1. place \in [1 .. Len(tokens) -> lettered]
      BY <1>6
    <3>2. \A m \in lettered : \E k \in 1 .. Len(tokens) : place[k] = m
      BY <1>6
    <3> HIDE DEF lettered
    <3>3. QED
      BY <3>1, <3>2 DEF Surjection
  <2>2. IsFiniteSet(1 .. Len(tokens)) /\ Cardinality(1 .. Len(tokens)) = Len(tokens)
    BY <1>4, FirstNumbers
  <2> HIDE DEF lettered
  <2>3. QED
    BY <2>1, <2>2, FS_Surjection
<1>10. NoLetters(f) = (1 .. Len(f)) \ lettered
  BY <1>4, <1>5 DEF NoLetters
<1>11. IsFiniteSet(NoLetters(f)) /\ Cardinality(NoLetters(f)) >= Len(f) - Len(tokens)
  <2>1. IsFiniteSet(1 .. Len(f)) /\ Cardinality(1 .. Len(f)) = Len(f)
    BY <1>4, FirstNumbers
  <2>2. lettered \cup NoLetters(f) = 1 .. Len(f) /\ lettered \cap NoLetters(f) = {}
        /\ NoLetters(f) \subseteq 1 .. Len(f)
    BY <1>10
  <2> HIDE DEF lettered
  <2>3. IsFiniteSet(NoLetters(f))
    BY <2>1, <2>2, FS_Subset
  <2>4. Cardinality(lettered \cup NoLetters(f)) =
          Cardinality(lettered) + Cardinality(NoLetters(f)) - Cardinality(lettered \cap NoLetters(f))
    BY <1>9, <2>3, FS_Union
  <2>5. Cardinality(lettered \cap NoLetters(f)) = 0
    BY <2>2, FS_EmptySet
  <2>6. Cardinality(lettered) \in Nat /\ Cardinality(NoLetters(f)) \in Nat
    BY <1>9, <2>3, FS_CardinalityType
  <2> DEFINE a == Cardinality(lettered)
             b == Cardinality(NoLetters(f))
             all == Cardinality(1 .. Len(f))
  <2>7. all = a + b - 0 /\ all = Len(f) /\ a <= Len(tokens) /\ a \in Nat /\ b \in Nat
    BY <1>9, <2>1, <2>2, <2>4, <2>5, <2>6
  <2> HIDE DEF a, b, all
  <2>8. b >= Len(f) - Len(tokens)
    BY <1>4, <2>7
  <2>9. QED
    BY <2>3, <2>8 DEF b
<1>12. QED
  BY <1>4, <1>7, <1>8, <1>11 DEF tokens

\* A look back or forward by a number of words, back no further than there are any.
LookOf(tokens, n, look) ==
  \E o \in 1 .. WindowSize :
    \/ o < n /\ look = [turn |-> 2 * o - 1, at |-> n - o]
    \/ n + o <= Len(tokens) /\ look = [turn |-> 2 * o, at |-> n + o]

LEMMA LooksAre ==
  ASSUME NEW tokens \in Seq(Word), NEW n \in Nat \ {0}, NEW look
  PROVE  look \in Looks(tokens, n) <=> LookOf(tokens, n, look)
<1> DEFINE least == Min({WindowSize, n - 1})
<1>1. least \in Nat /\ least <= WindowSize /\ least <= n - 1 /\ (least = WindowSize \/ least = n - 1)
  <2> DEFINE pair == {WindowSize, n - 1}
  <2>1. \E x \in pair : \A y \in pair : x <= y
    BY DEF WindowSize
  <2>2. Min(pair) \in pair /\ \A y \in pair : Min(pair) <= y
    BY <2>1 DEF Min
  <2>3. QED
    BY <2>2 DEF WindowSize
<1> HIDE DEF least
<1>2. \A o : o \in 1 .. least <=> o \in 1 .. WindowSize /\ o < n
  BY <1>1 DEF WindowSize
<1>3. look \in Looks(tokens, n) <=>
        \/ \E o \in 1 .. least : look = [turn |-> 2 * o - 1, at |-> n - o]
        \/ \E o \in {o \in 1 .. WindowSize : n + o <= Len(tokens)} : look = [turn |-> 2 * o, at |-> n + o]
  BY DEF Looks, least
<1>4. QED
  BY <1>2, <1>3 DEF LookOf

\* The search ends at the first of the looks that end it.
LEMMA FirstLook ==
  ASSUME NEW tokens \in Seq(Word), NEW n \in Nat \ {0}, Decisive(tokens, n) # {},
         NEW look, look = First(Decisive(tokens, n))
  PROVE  /\ look \in Decisive(tokens, n) /\ LookOf(tokens, n, look)
         /\ \A other \in Decisive(tokens, n) : LookOf(tokens, n, other) /\ look.turn <= other.turn
<1> DEFINE D == Decisive(tokens, n)
           turns == {l.turn : l \in D}
<1>1. \A l \in D : LookOf(tokens, n, l)
  BY LooksAre DEF Decisive
<1>2. \A l \in D : l.turn \in Nat
  BY <1>1 DEF LookOf, WindowSize
<1> HIDE DEF D
<1>3. PICK turn \in turns : \A t \in turns : turn <= t
  <2>1. turns \subseteq Nat /\ turns # {}
    BY <1>2 DEF D
  <2>2. QED
    BY <2>1, LeastElement
<1>4. \E l \in D : \A m \in D : l.turn <= m.turn
  BY <1>3
<1>5. First(D) \in D /\ \A m \in D : First(D).turn <= m.turn
  BY <1>4 DEF First
<1>6. QED
  BY <1>1, <1>5 DEF D

\* A modifier that is bound is bound to an entity of its fragment.
LEMMA BoundToEntity ==
  ASSUME NEW f \in Seq(Word), ~Throws(f), NEW n \in BoundModifiers(f),
         NEW look, look = First(Decisive(Tokens(f), n))
  PROVE  /\ n \in ModifierIndices(f) /\ look.at \in 1 .. Len(Tokens(f))
         /\ \E m \in EntityIndices(f) : Tokens(f)[look.at] = f[m]
<1> DEFINE tokens == Tokens(f)
<1>1. /\ tokens \in Seq(Word) /\ Len(tokens) \in Nat /\ DOMAIN f = 1 .. Len(f)
      /\ \A k \in 1 .. Len(tokens) : \E m \in 1 .. Len(f) : tokens[k] = f[m]
  BY TokensOfFragment
<1>2. n \in ModifierIndices(f) /\ Decisive(tokens, n) # {}
  BY DEF BoundModifiers
<1>3. n \in Nat \ {0}
  BY <1>1, <1>2 DEF ModifierIndices
<1>4. ~(look.at > Len(tokens))
  BY <1>2 DEF Throws
<1> HIDE DEF tokens
<1>5. look \in Decisive(tokens, n) /\ LookOf(tokens, n, look)
  BY <1>1, <1>2, <1>3, FirstLook DEF tokens
<1>6. look.at \in Nat \ {0}
  BY <1>3, <1>5 DEF LookOf, WindowSize
<1>7. look.at \in 1 .. Len(tokens)
  BY <1>1, <1>4, <1>6
<1>8. Meaning[tokens[look.at]].entity # {}
  BY <1>4, <1>5 DEF Decisive
<1>9. PICK m \in 1 .. Len(f) : tokens[look.at] = f[m]
  BY <1>1, <1>7
<1>10. m \in EntityIndices(f)
  BY <1>1, <1>8, <1>9 DEF EntityIndices
<1>11. QED
  BY <1>2, <1>7, <1>9, <1>10 DEF tokens

\* So the checks that are bound are those of an entity beside a modifier.
LEMMA BoundChecks ==
  ASSUME NEW f \in Seq(Word), ~Throws(f), NEW c \in EntityChecks(f)
  PROVE  /\ ModifierIndices(f) # {} /\ c \in CheckName
         /\ \E n \in EntityIndices(f) : c \in Meaning[f[n]].entity
<1>1. PICK n \in BoundModifiers(f) : c \in Meaning[Tokens(f)[First(Decisive(Tokens(f), n)).at]].entity
  BY DEF EntityChecks
<1> DEFINE look == First(Decisive(Tokens(f), n))
<1>2. n \in ModifierIndices(f) /\ \E m \in EntityIndices(f) : Tokens(f)[look.at] = f[m]
  BY BoundToEntity
<1>3. PICK m \in EntityIndices(f) : Tokens(f)[look.at] = f[m]
  BY <1>2
<1>4. c \in Meaning[f[m]].entity
  BY <1>1, <1>3
<1>5. f[m] \in Word
  <2>1. m \in 1 .. Len(f)
    BY <1>3 DEF EntityIndices
  <2>2. QED
    BY <2>1, ElementOfSeq
<1>6. c \in CheckName
  BY <1>4, <1>5, MeaningAssumption
<1>7. QED
  BY <1>2, <1>3, <1>4, <1>6

LEMMA SpecificChecksAreChecks == \A p \in DOMAIN SpecificChecks : SpecificChecks[p] \subseteq CheckName
BY CheckNames DEF SpecificChecks

LEMMA SelectedAreChecks ==
  ASSUME NEW q \in Seq(Word)
  PROVE  SelectChecks(q) \subseteq CheckName
<1>1. \A w \in ToSet(q) : w \in Word
  <2> TAKE w \in ToSet(q)
  <2>1. PICK n \in 1 .. Len(q) : w = q[n]
    BY DEF ToSet
  <2>2. QED
    BY <2>1, ElementOfSeq
<1>2. PerformanceChecks \subseteq CheckName /\ DefaultDiagnosticChecks \subseteq CheckName
  BY CheckNames DEF PerformanceChecks, DefaultDiagnosticChecks
<1>3. \A w \in ToSet(q) : \A p \in Meaning[w].specific : SpecificChecks[p] \subseteq CheckName
  BY <1>1, SpecificChecksAreChecks, MeaningAssumption
<1>4. Matched(q) \subseteq CheckName
  <2> DEFINE found == UNION {UNION {SpecificChecks[p] : p \in Meaning[w].specific} : w \in ToSet(q)}
             added == IF \E w \in ToSet(q) : Meaning[w].performance THEN PerformanceChecks ELSE {}
  <2>1. found \subseteq CheckName
    BY <1>3
  <2>2. added \subseteq CheckName
    BY <1>2
  <2>3. Matched(q) = found \cup added
    BY DEF Matched
  <2> HIDE DEF found, added
  <2>4. QED
    BY <2>1, <2>2, <2>3
<1>5. QED
  BY <1>2, <1>4 DEF SelectChecks

\* What the scoring selects, when the analysis does not throw.
LEMMA ScoredChecks ==
  ASSUME NEW q \in Seq(Word)
  PROVE  LET fragments == SplitFragments(q)
             lexical == SelectChecks(q)
             checks == ScoreContext(q, lexical).checks
         IN /\ lexical = {} => checks = {}
            /\ lexical # {} /\ Len(fragments) = 1 => checks = (lexical \cup EntityChecks(fragments[1]))
            /\ lexical # {} /\ Len(fragments) # 1 => checks = UNION {FragmentChecks(f) : f \in ToSet(fragments)}
BY DEF ScoreContext, Selected

\* Every selected check is selected by the words of a fragment, or bound there.
LEMMA ChecksAreJustified ==
  ASSUME NEW q \in Seq(Word), ~AnalysisThrows(q), NEW c \in ScoreContext(q, SelectChecks(q)).checks
  PROVE  /\ c \in CheckName
         /\ \E f \in ToSet(SplitFragments(q)) :
              c \in SelectChecks(f) \/ \E n \in EntityIndices(f) :
                c \in Meaning[f[n]].entity /\ ModifierIndices(f) # {}
<1> DEFINE fragments == SplitFragments(q)
<1>1. /\ fragments \in Seq(Seq(Word)) /\ Len(fragments) \in Nat \ {0}
      /\ \A f \in ToSet(fragments) : f \in Seq(Word)
      /\ Len(fragments) = 1 => fragments[1] = q
  BY FragmentsArePieces
<1>2. SelectChecks(q) # {} /\ \A f \in ToSet(fragments) : ~Throws(f)
  BY ScoredChecks DEF AnalysisThrows
<1> HIDE DEF fragments
<1>3. PICK f \in ToSet(fragments) : c \in SelectChecks(f) \/ c \in EntityChecks(f)
  <2>1. CASE Len(fragments) = 1
    <3>1. fragments[1] \in ToSet(fragments)
      BY <2>1 DEF ToSet
    <3>2. c \in SelectChecks(q) \cup EntityChecks(fragments[1])
      BY <1>2, <2>1, ScoredChecks DEF fragments
    <3>3. QED
      BY <1>1, <2>1, <3>1, <3>2
  <2>2. CASE Len(fragments) # 1
    <3>1. c \in UNION {FragmentChecks(f) : f \in ToSet(fragments)}
      BY <1>2, <2>2, ScoredChecks DEF fragments
    <3>2. PICK f \in ToSet(fragments) : c \in FragmentChecks(f)
      BY <3>1
    <3>3. QED
      BY <3>2 DEF FragmentChecks
  <2>3. QED
    BY <2>1, <2>2
<1>4. f \in Seq(Word) /\ ~Throws(f)
  BY <1>1, <1>2
<1>5. CASE c \in SelectChecks(f)
  BY <1>4, <1>5, SelectedAreChecks DEF fragments
<1>6. CASE c \in EntityChecks(f)
  BY <1>4, <1>6, BoundChecks DEF fragments
<1>7. QED
  BY <1>3, <1>5, <1>6

-----------------------------------------------------------------------------
(* What comes next.                                                          *)

SymptomDomain ==
  {"network", "storage", "performance", "temperature", "memory", "gpu", "processes", "unknown"}

LEMMA DomainOfSymptom ==
  ASSUME NEW q
  PROVE  IdentifySymptomDomain(q) \in SymptomDomain
<1> DEFINE matching == Filtered(SymptomOrder, Symptoms(q))
<1>1. SymptomOrder \in Seq(SymptomDomain)
  BY DEF SymptomOrder, SymptomDomain
<1>2. matching \in Seq(SymptomDomain)
  BY <1>1, FilteredPlaces
<1>3. IdentifySymptomDomain(q) = IF matching = <<>> THEN "unknown" ELSE matching[1]
  BY DEF IdentifySymptomDomain
<1> HIDE DEF matching
<1>4. CASE matching = <<>>
  BY <1>3, <1>4 DEF SymptomDomain
<1>5. CASE matching # <<>>
  <2>1. 1 \in 1 .. Len(matching)
    BY <1>2, <1>5
  <2>2. matching[1] \in SymptomDomain
    BY <1>2, <2>1, ElementOfSeq
  <2>3. QED
    BY <1>3, <1>5, <2>2
<1>6. QED
  BY <1>4, <1>5

\* The router sends to the review only when every selected check showed something and
\* the symptom's own domain did (diagnostic-router.ts:224).
THEOREM ReviewSeen == Spec => []ReviewMeansSeen
<1>1. ConsultationInv => ReviewMeansSeen
  <2> SUFFICES ASSUME ConsultationInv, stage = "answered", "review" \in answer.next
               PROVE  /\ ~answer.gap
                      /\ \A c \in selection.checks : \E n \in DOMAIN facts : facts[n].check = c
                      /\ domain # "unknown" => \E n \in DOMAIN facts : facts[n].check = domain
    BY DEF ReviewMeansSeen
  <2>1. PICK q \in Queries : /\ ~AnalysisThrows(q) /\ domain = IdentifySymptomDomain(q)
                             /\ selection = ScoreContext(q, SelectChecks(q))
    BY DEF ConsultationInv, AnswerInv
  <2>2. q \in Seq(Word)
    BY DEF Queries
  <2>3. /\ answer.gap = CriticalGap(domain, facts)
        /\ answer.next = NextDomains(domain, selection.checks, facts)
    BY DEF ConsultationInv, AnswerInv
  <2>4. PICK name \in PlatformName, machine \in Machines, silent \in Silences :
          facts = AnalyzeForQuery(SystemInfo(name, machine, silent), selection.checks)
    BY DEF ConsultationInv, AnswerInv, Observation
  <2> DEFINE s == SystemInfo(name, machine, silent)
  <2>5. /\ facts \in Seq(FactLike)
        /\ ToSet(facts) = UNION {ToSet(FactsOf(s, c)) : c \in selection.checks \cap CheckName}
    BY <2>4, AnalyzedFacts
  <2> HIDE DEF s
  <2>6. domain \in SymptomDomain
    BY <2>1, DomainOfSymptom
  <2>7. ~CriticalGap(domain, facts)
    BY <2>3, <2>6 DEF NextDomains, SymptomDomain
  <2>8. NotRun(selection.checks, facts) = {}
    BY <2>3, <2>7 DEF NextDomains, NotRun, RouterObservable
  <2>9. \A c \in selection.checks : c \in CheckName
    BY <2>1, <2>2, ChecksAreJustified
  <2>10. ASSUME NEW c \in selection.checks
         PROVE  \E n \in DOMAIN facts : facts[n].check = c
    <3>1. CASE c \in RouterObservable
      BY <2>8, <3>1 DEF NotRun, Observed
    <3>2. CASE c \notin RouterObservable
      <4>1. c = "network"
        BY <2>9, <2>10, <3>2, CheckNames DEF RouterObservable
      <4>2. FactsOf(s, c) = <<NetworkFact>>
        BY <4>1 DEF FactsOf
      <4>3. NetworkFact \in ToSet(FactsOf(s, c))
        BY <4>2 DEF ToSet
      <4>4. c \in selection.checks \cap CheckName
        BY <2>9, <2>10
      <4>5. NetworkFact \in ToSet(facts)
        BY <2>5, <4>3, <4>4
      <4>6. PICK n \in DOMAIN facts : facts[n] = NetworkFact
        BY <4>5 DEF ToSet
      <4>7. NetworkFact.check = "network"
        BY DEF NetworkFact, Fact
      <4>8. QED
        BY <4>1, <4>6, <4>7
    <3>3. QED
      BY <3>1, <3>2
  <2>11. domain # "unknown" => \E n \in DOMAIN facts : facts[n].check = domain
    BY <2>7 DEF CriticalGap, Observed
  <2>12. ~answer.gap
    BY <2>3, <2>7
  <2>13. QED
    BY <2>10, <2>11, <2>12
<1>2. QED
  BY <1>1, ConsultationInvariant, PTL

-----------------------------------------------------------------------------
(* The selection.                                                            *)

\* The words without letters of a piece are words without letters of the query.
LEMMA NoLettersOfPiece ==
  ASSUME NEW q \in Seq(Word), NEW f \in Seq(Word), Piece(f, q, Len(q))
  PROVE  /\ \A n \in DOMAIN f : \E m \in DOMAIN q : q[m] = f[n]
         /\ IsFiniteSet(NoLetters(q)) /\ Cardinality(NoLetters(f)) <= Cardinality(NoLetters(q))
<1>1. PICK offset \in Nat : PieceAt(f, q, Len(q), offset)
  BY DEF Piece
<1>2. /\ DOMAIN f = 1 .. Len(f) /\ Len(f) \in Nat /\ DOMAIN q = 1 .. Len(q) /\ Len(q) \in Nat
      /\ offset + Len(f) <= Len(q) /\ \A i \in 1 .. Len(f) : f[i] = q[offset + i]
  BY <1>1 DEF PieceAt
<1>3. \A n \in 1 .. Len(f) : offset + n \in 1 .. Len(q) /\ q[offset + n] = f[n]
  BY <1>2
<1> DEFINE place == [n \in NoLetters(f) |-> offset + n]
<1>4. place \in Injection(NoLetters(f), NoLetters(q))
  <2>1. NoLetters(f) \subseteq Nat
    BY <1>2 DEF NoLetters
  <2>2. \A n \in NoLetters(f) : offset + n \in NoLetters(q)
    BY <1>2, <1>3 DEF NoLetters
  <2>3. \A m, n \in NoLetters(f) : offset + m = offset + n => m = n
    BY <2>1
  <2>4. QED
    BY <2>2, <2>3 DEF Injection, IsInjective
<1>5. IsFiniteSet(NoLetters(q))
  BY TokensOfFragment
<1> HIDE DEF place
<1>6. Cardinality(NoLetters(f)) <= Cardinality(NoLetters(q))
  BY <1>4, <1>5, FS_Injection
<1>7. QED
  BY <1>2, <1>3, <1>5, <1>6

\* The binding throws only beyond the tokens, so words without letters precede the modifier.
LEMMA ThrowsWithoutLetters ==
  ASSUME NEW f \in Seq(Word), Throws(f)
  PROVE  ModifierIndices(f) # {} /\ Cardinality(NoLetters(f)) >= 2
<1> DEFINE tokens == Tokens(f)
<1>1. PICK n \in ModifierIndices(f) :
        Decisive(tokens, n) # {} /\ First(Decisive(tokens, n)).at > Len(tokens)
  BY DEF Throws
<1> DEFINE look == First(Decisive(tokens, n))
<1>2. /\ tokens \in Seq(Word) /\ Len(tokens) \in Nat /\ DOMAIN f = 1 .. Len(f) /\ Len(f) \in Nat
      /\ IsFiniteSet(NoLetters(f)) /\ Cardinality(NoLetters(f)) >= Len(f) - Len(tokens)
  BY TokensOfFragment
<1>3. n \in 1 .. Len(f)
  BY <1>2 DEF ModifierIndices
<1> HIDE DEF tokens, look
<1>4. LookOf(tokens, n, look)
  BY <1>1, <1>2, <1>3, FirstLook DEF look
<1>5. \E o \in 1 .. WindowSize : look.at = n - o
  BY <1>1, <1>2, <1>3, <1>4 DEF LookOf, WindowSize, look
<1>6. Len(f) - Len(tokens) >= 2
  BY <1>1, <1>2, <1>3, <1>5 DEF WindowSize, look
<1>7. Cardinality(NoLetters(f)) \in Nat
  BY <1>2, FS_CardinalityType
<1>8. Cardinality(NoLetters(f)) >= 2
  BY <1>2, <1>6, <1>7
<1>9. QED
  BY <1>1, <1>8

\* In a fragment of words with letters a modifier is bound to its closest entity.
LEMMA BoundToClosest ==
  ASSUME NEW f \in Seq(Word), Plain(f), ~Throws(f), NEW n \in ModifierIndices(f),
         ClosestEntities(f, n) # {}
  PROVE  /\ n \in BoundModifiers(f)
         /\ \E m \in ClosestEntities(f, n) : Meaning[f[m]].entity \subseteq EntityChecks(f)
<1> DEFINE tokens == Tokens(f)
<1>1. /\ tokens \in Seq(Word) /\ Len(tokens) = Len(f) /\ DOMAIN f = 1 .. Len(f) /\ Len(f) \in Nat
      /\ \A k \in 1 .. Len(f) : tokens[k] = f[k]
  BY TokensOfFragment
<1>2. n \in 1 .. Len(f)
  BY <1>1 DEF ModifierIndices
<1> HIDE DEF tokens
<1> DEFINE near == {m \in EntityIndices(f) : Apart(m, n) \in 1 .. WindowSize}
<1>3. ASSUME NEW m \in near
      PROVE  \E l \in Decisive(tokens, n) : LookOf(tokens, n, l) /\ l.at = m /\ l.turn <= 2 * Apart(m, n)
    <2>1. m \in 1 .. Len(f) /\ Meaning[f[m]].entity # {} /\ Apart(m, n) \in 1 .. WindowSize
      BY <1>1, <1>3 DEF EntityIndices
    <2>2. CASE m < n
      <3> DEFINE o == n - m
                 l == [turn |-> 2 * o - 1, at |-> n - o]
      <3>1. o \in 1 .. WindowSize /\ o < n /\ n - o = m /\ Apart(m, n) = o
        BY <1>2, <2>1, <2>2 DEF Apart
      <3>2. LookOf(tokens, n, l)
        BY <3>1 DEF LookOf
      <3>3. l \in Looks(tokens, n)
        BY <1>1, <1>2, <3>2, LooksAre
      <3>4. l.at = m /\ l.turn = 2 * o - 1
        BY <3>1
      <3>5. l \in Decisive(tokens, n)
        BY <1>1, <2>1, <3>3, <3>4 DEF Decisive
      <3>6. l.turn <= 2 * Apart(m, n)
        BY <3>1, <3>4 DEF WindowSize
      <3>7. QED
        BY <3>2, <3>4, <3>5, <3>6
    <2>3. CASE ~(m < n)
      <3> DEFINE o == m - n
                 l == [turn |-> 2 * o, at |-> n + o]
      <3>1. o \in 1 .. WindowSize /\ n + o = m /\ Apart(m, n) = o
        BY <1>2, <2>1, <2>3 DEF Apart
      <3>2. LookOf(tokens, n, l)
        BY <1>1, <2>1, <3>1 DEF LookOf
      <3>3. l \in Looks(tokens, n)
        BY <1>1, <1>2, <3>2, LooksAre
      <3>4. l.at = m /\ l.turn = 2 * o
        BY <3>1
      <3>5. l \in Decisive(tokens, n)
        BY <1>1, <2>1, <3>3, <3>4 DEF Decisive
      <3>6. l.turn <= 2 * Apart(m, n)
        BY <3>1, <3>4 DEF WindowSize
      <3>7. QED
        BY <3>2, <3>4, <3>5, <3>6
    <2>4. QED
      BY <2>2, <2>3
<1>4. near # {}
  BY DEF ClosestEntities
<1>5. Decisive(tokens, n) # {}
  BY <1>3, <1>4
<1>6. n \in BoundModifiers(f)
  BY <1>5 DEF BoundModifiers, tokens
<1> DEFINE look == First(Decisive(tokens, n))
           at == look.at
<1>7. at \in 1 .. Len(tokens)
  BY <1>6, BoundToEntity DEF tokens
<1>8. /\ look \in Decisive(tokens, n) /\ LookOf(tokens, n, look)
      /\ \A other \in Decisive(tokens, n) : look.turn <= other.turn
  BY <1>1, <1>2, <1>5, FirstLook
<1> HIDE DEF look
<1>9. at \in EntityIndices(f)
  <2>1. Meaning[tokens[at]].entity # {}
    BY <1>1, <1>7, <1>8 DEF Decisive
  <2>2. QED
    BY <1>1, <1>7, <2>1 DEF EntityIndices
<1>10. Apart(at, n) \in 1 .. WindowSize /\ 2 * Apart(at, n) - 1 <= look.turn /\ look.turn \in Int
  BY <1>1, <1>2, <1>8 DEF LookOf, Apart, WindowSize
<1>11. ASSUME NEW k \in near PROVE Apart(at, n) <= Apart(k, n)
  <2>1. PICK l \in Decisive(tokens, n) :
          LookOf(tokens, n, l) /\ l.at = k /\ l.turn <= 2 * Apart(k, n)
    BY <1>3
  <2>2. look.turn <= l.turn /\ l.turn \in Int
    BY <1>2, <1>8, <2>1 DEF LookOf, WindowSize
  <2>3. Apart(k, n) \in Int /\ Apart(at, n) \in Int
    BY <1>10 DEF WindowSize
  <2>4. QED
    BY <1>10, <2>1, <2>2, <2>3
<1>12. at \in ClosestEntities(f, n)
  BY <1>9, <1>10, <1>11 DEF ClosestEntities
<1>13. Meaning[f[at]].entity \subseteq EntityChecks(f)
  <2>1. Meaning[tokens[at]].entity \subseteq EntityChecks(f)
    BY <1>6 DEF EntityChecks, tokens, look
  <2>2. tokens[at] = f[at]
    BY <1>1, <1>7
  <2>3. QED
    BY <2>1, <2>2
<1>14. QED
  BY <1>6, <1>12, <1>13

\* A modifier selects the checks of its closest entity, a query of one fragment loses no
\* check its words select, each selected check is selected by the words of a fragment or
\* bound there, and the analysis throws only when words without letters come with a
\* modifier (entity-modifier.ts, context-scorer.ts).
THEOREM SelectionJustified == Spec => []SelectionIsJustified
<1>1. ConsultationInv => SelectionIsJustified
  <2> SUFFICES ASSUME ConsultationInv PROVE SelectionIsJustified
    OBVIOUS
  <2> DEFINE fragments == SplitFragments(query)
             lexical == SelectChecks(query)
  <2>1. ASSUME stage = "rejected", platform = "none"
        PROVE  \E n \in DOMAIN query : Meaning[query[n]].modifier
                 /\ Cardinality({m \in DOMAIN query : ~Meaning[query[m]].letters}) >= 2
    <3>1. query \in Queries /\ AnalysisThrows(query)
      BY <2>1 DEF ConsultationInv, AskInv
    <3>2. query \in Seq(Word)
      BY <3>1 DEF Queries
    <3>3. PICK f \in ToSet(fragments) : Throws(f)
      BY <3>1 DEF AnalysisThrows
    <3>4. f \in Seq(Word) /\ Piece(f, query, Len(query))
      BY <3>2, <3>3, FragmentsArePieces
    <3> HIDE DEF fragments
    <3>5. ModifierIndices(f) # {} /\ Cardinality(NoLetters(f)) >= 2
      BY <3>3, <3>4, ThrowsWithoutLetters
    <3>6. PICK n \in DOMAIN f : Meaning[f[n]].modifier
      BY <3>5 DEF ModifierIndices
    <3>7. PICK m \in DOMAIN query : query[m] = f[n]
      BY <3>2, <3>4, NoLettersOfPiece
    <3>8. Meaning[query[m]].modifier
      BY <3>6, <3>7
    <3>9. Cardinality(NoLetters(f)) <= Cardinality(NoLetters(query))
          /\ Cardinality(NoLetters(f)) \in Nat /\ Cardinality(NoLetters(query)) \in Nat
      BY <3>2, <3>4, NoLettersOfPiece, TokensOfFragment, FS_CardinalityType
    <3>10. Cardinality(NoLetters(query)) >= 2
      BY <3>5, <3>9
    <3>11. QED
      BY <3>7, <3>8, <3>10 DEF NoLetters
  <2>2. ASSUME stage = "selected"
        PROVE  /\ \A f \in ToSet(fragments) : \A n \in ModifierIndices(f) :
                    Plain(f) /\ ClosestEntities(f, n) # {} /\ SelectChecks(query) # {} =>
                      \E m \in ClosestEntities(f, n) : Meaning[f[m]].entity \subseteq selection.checks
               /\ Len(fragments) = 1 => SelectChecks(query) \subseteq selection.checks
               /\ \A c \in selection.checks : \E f \in ToSet(fragments) :
                    c \in SelectChecks(f) \/ \E n \in EntityIndices(f) :
                      c \in Meaning[f[n]].entity /\ ModifierIndices(f) # {}
    <3>1. query \in Queries /\ ~AnalysisThrows(query) /\ selection = ScoreContext(query, lexical)
      BY <2>2 DEF ConsultationInv, AskInv
    <3>2. query \in Seq(Word)
      BY <3>1 DEF Queries
    <3>3. /\ lexical = {} => selection.checks = {}
          /\ lexical # {} /\ Len(fragments) = 1 =>
               selection.checks = (lexical \cup EntityChecks(fragments[1]))
          /\ lexical # {} /\ Len(fragments) # 1 =>
               selection.checks = UNION {FragmentChecks(f) : f \in ToSet(fragments)}
      BY <3>1, <3>2, ScoredChecks
    <3>4. \A c \in selection.checks : \E f \in ToSet(fragments) :
            c \in SelectChecks(f) \/ \E n \in EntityIndices(f) :
              c \in Meaning[f[n]].entity /\ ModifierIndices(f) # {}
      BY <3>1, <3>2, ChecksAreJustified
    <3>5. /\ Len(fragments) \in Nat /\ fragments \in Seq(Seq(Word))
          /\ \A f \in ToSet(fragments) : f \in Seq(Word)
      BY <3>2, FragmentsArePieces
    <3>6. lexical # {} => \A f \in ToSet(fragments) : ~Throws(f)
      BY <3>1 DEF AnalysisThrows
    <3> HIDE DEF fragments, lexical
    <3>7. ASSUME NEW f \in ToSet(fragments), lexical # {}, BoundModifiers(f) # {}
          PROVE  EntityChecks(f) \subseteq selection.checks
      <4>1. CASE Len(fragments) = 1
        <5>1. f = fragments[1]
          BY <3>5, <3>7, <4>1 DEF ToSet
        <5>2. QED
          BY <3>3, <3>7, <4>1, <5>1
      <4>2. CASE Len(fragments) # 1
        <5>1. FragmentChecks(f) = EntityChecks(f)
          BY <3>7 DEF FragmentChecks
        <5>2. QED
          BY <3>3, <3>7, <4>2, <5>1
      <4>3. QED
        BY <4>1, <4>2
    <3>8. ASSUME NEW f \in ToSet(fragments), NEW n \in ModifierIndices(f),
                 Plain(f), ClosestEntities(f, n) # {}, lexical # {}
          PROVE  \E m \in ClosestEntities(f, n) : Meaning[f[m]].entity \subseteq selection.checks
      <4>1. f \in Seq(Word) /\ ~Throws(f)
        BY <3>5, <3>6, <3>8
      <4>2. /\ n \in BoundModifiers(f)
            /\ \E m \in ClosestEntities(f, n) : Meaning[f[m]].entity \subseteq EntityChecks(f)
        BY <3>8, <4>1, BoundToClosest
      <4>3. EntityChecks(f) \subseteq selection.checks
        BY <3>7, <3>8, <4>2
      <4>4. QED
        BY <4>2, <4>3
    <3>9. Len(fragments) = 1 => lexical \subseteq selection.checks
      BY <3>3
    <3>10. QED
      BY <3>4, <3>8, <3>9 DEF lexical
  <2>3. QED
    BY <2>1, <2>2 DEF SelectionIsJustified
<1>2. QED
  BY <1>1, ConsultationInvariant, PTL

-----------------------------------------------------------------------------
(* The catalogue of actions.                                                 *)

CatalogEntries == ToSet(ActionCatalog)

LEMMA CatalogIs ==
  /\ ActionCatalog \in Seq(CatalogEntries)
  /\ \A e \in CatalogEntries :
       \/ e = CloseHeavyProcesses \/ e = ClearMemory \/ e = CheckThermal \/ e = FreeDiskSpace
       \/ e = InstallGpuDriver \/ e = RestartNetwork \/ e = CloseChromeTabs \/ e = InspectProcesses
       \/ e = CheckStartup \/ e = ClearAppCache \/ e = InspectStorageDetail \/ e = RestartService
       \/ e = CheckPermissions \/ e = CheckToolsAvailability \/ e = SafeReboot
<1> DEFINE e15 == 1 .. 15
<1>1. Len(ActionCatalog) = 15 /\ DOMAIN ActionCatalog = e15
  BY DEF ActionCatalog
<1>2. /\ ActionCatalog[1] = CloseHeavyProcesses /\ ActionCatalog[2] = ClearMemory
      /\ ActionCatalog[3] = CheckThermal /\ ActionCatalog[4] = FreeDiskSpace
      /\ ActionCatalog[5] = InstallGpuDriver /\ ActionCatalog[6] = RestartNetwork
      /\ ActionCatalog[7] = CloseChromeTabs /\ ActionCatalog[8] = InspectProcesses
      /\ ActionCatalog[9] = CheckStartup /\ ActionCatalog[10] = ClearAppCache
      /\ ActionCatalog[11] = InspectStorageDetail /\ ActionCatalog[12] = RestartService
      /\ ActionCatalog[13] = CheckPermissions /\ ActionCatalog[14] = CheckToolsAvailability
      /\ ActionCatalog[15] = SafeReboot
  BY DEF ActionCatalog
<1>3. \A e \in CatalogEntries : \E n \in e15 : e = ActionCatalog[n]
  BY <1>1 DEF CatalogEntries, ToSet
<1>4. \A n \in e15 : n = 1 \/ n = 2 \/ n = 3 \/ n = 4 \/ n = 5 \/ n = 6 \/ n = 7 \/ n = 8 \/ n = 9
        \/ n = 10 \/ n = 11 \/ n = 12 \/ n = 13 \/ n = 14 \/ n = 15
  OBVIOUS
<1>5. \A n \in e15 : ActionCatalog[n] \in CatalogEntries
  BY <1>1 DEF CatalogEntries, ToSet
<1>6. ActionCatalog = [n \in e15 |-> ActionCatalog[n]]
  BY <1>1 DEF ActionCatalog
<1>7. ActionCatalog \in Seq(CatalogEntries)
  <2>1. ActionCatalog \in [1 .. 15 -> CatalogEntries]
    BY <1>5, <1>6
  <2>2. QED
    BY <2>1, SeqDef
<1>8. QED
  BY <1>2, <1>3, <1>4, <1>7

\* What an entry says but for its steps.
Says(e, id, family, minSeverity, minMatches, triggers) ==
  /\ e.id = id /\ e.family = family /\ e.minSeverity = minSeverity /\ e.minMatches = minMatches
  /\ e.triggers = triggers

LEMMA EntriesSay ==
  /\ Says(CloseHeavyProcesses, "close-heavy-processes", "mitigate", "warning", 1, {"heavy-processes", "cpu-status"})
  /\ Says(ClearMemory, "clear-memory", "mitigate", "warning", 1, {"ram-status"})
  /\ Says(CheckThermal, "check-thermal", "investigate", "warning", 1, {"temperature-status"})
  /\ Says(FreeDiskSpace, "free-disk-space", "maintenance", "warning", 1, {"storage-/"})
  /\ Says(InstallGpuDriver, "install-gpu-driver", "mitigate", "warning", 1, {"gpu-generic-driver"})
  /\ Says(RestartNetwork, "restart-network", "mitigate", "warning", 1, {"network-status"})
  /\ Says(CloseChromeTabs, "close-chrome-tabs", "mitigate", "warning", 1, {"heavy-processes"})
  /\ Says(InspectProcesses, "inspect-processes", "investigate", "warning", 1,
          {"heavy-processes", "cpu-status", "ram-status"})
  /\ Says(CheckStartup, "check-startup", "investigate", "warning", 1, {"cpu-status", "ram-status"})
  /\ Says(ClearAppCache, "clear-app-cache", "maintenance", "warning", 1, {"storage-/data", "storage-/"})
  /\ Says(InspectStorageDetail, "inspect-storage-detail", "investigate", "warning", 1, {"storage-/"})
  /\ Says(RestartService, "restart-service", "mitigate", "error", 1, {"network-status"})
  /\ Says(CheckPermissions, "check-permissions", "inform", "warning", 1, {"permissions-status", "tools-status"})
  /\ Says(CheckToolsAvailability, "check-tools-availability", "inform", "warning", 1, {"tools-status"})
  /\ Says(SafeReboot, "safe-reboot", "escalate", "error", 2, {"cpu-status", "ram-status", "temperature-status"})
<1>1. \A id, family, severity, triggers, steps :
        Says(AnyOf(id, family, severity, triggers, steps), id, family, severity, 1, triggers)
  BY DEF AnyOf, Says
<1>2. Says(SafeReboot, "safe-reboot", "escalate", "error", 2, {"cpu-status", "ram-status", "temperature-status"})
  BY DEF SafeReboot, AnyOf, Says
<1>3. QED
  BY <1>1, <1>2
     DEF CloseHeavyProcesses, ClearMemory, CheckThermal, FreeDiskSpace, InstallGpuDriver, RestartNetwork,
         CloseChromeTabs, InspectProcesses, CheckStartup, ClearAppCache, InspectStorageDetail,
         RestartService, CheckPermissions, CheckToolsAvailability

\* No two entries have the same id; a family is one of the order; a trigger is due to
\* a severity above ok, for one match unless an error is needed.
LEMMA CatalogEntry ==
  /\ \A a, b \in CatalogEntries : a.id = b.id => a = b
  /\ \A e \in CatalogEntries :
       /\ e.family \in ToSet(FamilyOrder)
       /\ e.minSeverity \in {"warning", "error"} /\ e.minMatches \in {1, 2}
       /\ IsFiniteSet(e.triggers)
<1>1. ASSUME NEW a \in CatalogEntries, NEW b \in CatalogEntries, a.id = b.id PROVE a = b
  <2>1. /\ CloseHeavyProcesses.id = "close-heavy-processes" /\ ClearMemory.id = "clear-memory"
        /\ CheckThermal.id = "check-thermal" /\ FreeDiskSpace.id = "free-disk-space"
        /\ InstallGpuDriver.id = "install-gpu-driver" /\ RestartNetwork.id = "restart-network"
        /\ CloseChromeTabs.id = "close-chrome-tabs" /\ InspectProcesses.id = "inspect-processes"
        /\ CheckStartup.id = "check-startup" /\ ClearAppCache.id = "clear-app-cache"
        /\ InspectStorageDetail.id = "inspect-storage-detail" /\ RestartService.id = "restart-service"
        /\ CheckPermissions.id = "check-permissions" /\ CheckToolsAvailability.id = "check-tools-availability"
        /\ SafeReboot.id = "safe-reboot"
    BY EntriesSay DEF Says
  <2>2. QED
    BY <1>1, <2>1, CatalogIs
<1>2. ToSet(FamilyOrder) = {"investigate", "mitigate", "inform", "maintenance", "escalate"}
  BY DEF FamilyOrder, ToSet
<1>3. ASSUME NEW e \in CatalogEntries
      PROVE  /\ e.family \in ToSet(FamilyOrder)
             /\ e.minSeverity \in {"warning", "error"} /\ e.minMatches \in {1, 2}
  BY <1>2, <1>3, CatalogIs, EntriesSay DEF Says
<1>4. ASSUME NEW e \in CatalogEntries PROVE IsFiniteSet(e.triggers)
  <2>1. \A x : IsFiniteSet({x})
    BY FS_Singleton
  <2>2. \A x, y : IsFiniteSet({x, y})
    <3> TAKE x, y
    <3>1. {x, y} = {x} \cup {y}
      OBVIOUS
    <3> DEFINE S == {x}
    <3>2. IsFiniteSet(S)
      BY <2>1
    <3> HIDE DEF S
    <3>3. IsFiniteSet(S \cup {y})
      BY <3>2, FS_AddElement
    <3>4. QED
      BY <3>1, <3>3 DEF S
  <2>3. \A x, y, z : IsFiniteSet({x, y, z})
    <3> TAKE x, y, z
    <3>1. {x, y, z} = {x, y} \cup {z}
      OBVIOUS
    <3> DEFINE S == {x, y}
    <3>2. IsFiniteSet(S)
      BY <2>2
    <3> HIDE DEF S
    <3>3. IsFiniteSet(S \cup {z})
      BY <3>2, FS_AddElement
    <3>4. QED
      BY <3>1, <3>3 DEF S
  <2> DEFINE Ids == {"heavy-processes", "cpu-status", "ram-status", "temperature-status", "storage-/",
                     "gpu-generic-driver", "network-status", "storage-/data", "permissions-status",
                     "tools-status"}
  <2>4. e.triggers \subseteq Ids
    BY <1>4, CatalogIs, EntriesSay DEF Says
  <2>5. IsFiniteSet(Ids)
    <3>1. /\ IsFiniteSet({"heavy-processes", "cpu-status", "ram-status"})
          /\ IsFiniteSet({"temperature-status", "storage-/", "gpu-generic-driver"})
          /\ IsFiniteSet({"network-status", "storage-/data", "permissions-status"})
          /\ IsFiniteSet({"tools-status"})
      BY <2>1, <2>3
    <3>2. Ids = (({"heavy-processes", "cpu-status", "ram-status"}
                  \cup {"temperature-status", "storage-/", "gpu-generic-driver"})
                  \cup {"network-status", "storage-/data", "permissions-status"}) \cup {"tools-status"}
      OBVIOUS
    <3> HIDE DEF Ids
    <3>3. QED
      BY <3>1, <3>2, FS_Union
  <2> HIDE DEF Ids
  <2>6. QED
    BY <2>4, <2>5, FS_Subset
<1>5. QED
  BY <1>1, <1>3, <1>4

-----------------------------------------------------------------------------
(* The choice among the eligible.                                            *)

OfFamily(eligible, f) == {n \in DOMAIN eligible : eligible[n].family = f}

\* The numbers by which two entries are compared.
Matches(eligible, found, k) == Cardinality(MatchedChecks(eligible[k], found))
Triggers(eligible, k) == Cardinality(eligible[k].triggers)

LEMMA PreferredIs ==
  ASSUME NEW eligible, NEW found, NEW m, NEW n
  PROVE  Preferred(eligible, m, n, found) <=>
           \/ Matches(eligible, found, m) > Matches(eligible, found, n)
           \/ /\ Matches(eligible, found, m) = Matches(eligible, found, n)
              /\ Triggers(eligible, m) < Triggers(eligible, n)
           \/ /\ Matches(eligible, found, m) = Matches(eligible, found, n)
              /\ Triggers(eligible, m) = Triggers(eligible, n)
              /\ m <= n
BY DEF Preferred, Matches, Triggers

LEMMA MatchesAreFinite ==
  ASSUME NEW found \in Seq(FactLike), NEW e
  PROVE  /\ IsFiniteSet(MatchedChecks(e, found))
         /\ Cardinality(MatchedChecks(e, found)) \in Nat
         /\ Cardinality(MatchedChecks(e, found)) <= Len(found)
<1>1. DOMAIN found = 1 .. Len(found) /\ Len(found) \in Nat
  OBVIOUS
<1>2. IsFiniteSet(1 .. Len(found)) /\ Cardinality(1 .. Len(found)) = Len(found)
  BY <1>1, FirstNumbers
<1>3. MatchedChecks(e, found) \subseteq 1 .. Len(found)
  BY <1>1 DEF MatchedChecks
<1>4. QED
  BY <1>2, <1>3, FS_Subset, FS_CardinalityType

LEMMA BestExists ==
  ASSUME NEW eligible \in Seq(CatalogEntries), NEW found \in Seq(FactLike), NEW f,
         OfFamily(eligible, f) # {}
  PROVE  \E m \in OfFamily(eligible, f) : \A n \in OfFamily(eligible, f) : Preferred(eligible, m, n, found)
<1> DEFINE N == OfFamily(eligible, f)
           matches(k) == Matches(eligible, found, k)
           triggers(k) == Triggers(eligible, k)
<1>1. N \subseteq Nat /\ N # {} /\ \A k \in N : eligible[k] \in CatalogEntries
  <2>1. DOMAIN eligible = 1 .. Len(eligible) /\ Len(eligible) \in Nat
    OBVIOUS
  <2>2. N \subseteq 1 .. Len(eligible)
    BY <2>1 DEF OfFamily
  <2>3. QED
    BY <2>1, <2>2, ElementOfSeq
<1>2. \A k \in N : matches(k) \in Nat /\ matches(k) <= Len(found)
  BY MatchesAreFinite DEF Matches
<1>3. \A k \in N : triggers(k) \in Nat
  <2> TAKE k \in N
  <2>1. eligible[k] \in CatalogEntries
    BY <1>1
  <2>2. IsFiniteSet(eligible[k].triggers)
    BY <2>1, CatalogEntry
  <2>3. Cardinality(eligible[k].triggers) \in Nat
    BY <2>2, FS_CardinalityType
  <2>4. QED
    BY <2>3 DEF Triggers
<1>4. Len(found) \in Nat
  OBVIOUS
<1> HIDE DEF N, matches, triggers
<1>5. PICK a \in N : \A k \in N : matches(k) <= matches(a)
  <2> DEFINE short == {Len(found) - matches(k) : k \in N}
  <2>1. short \subseteq Nat /\ short # {}
    <3>1. \A k \in N : Len(found) - matches(k) \in Nat
      BY <1>2, <1>4
    <3>2. QED
      BY <1>1, <3>1
  <2> HIDE DEF short
  <2>2. PICK least \in short : \A x \in short : least <= x
    BY <2>1, LeastElement
  <2>3. PICK b \in N : least = Len(found) - matches(b)
    BY <2>2 DEF short
  <2>4. \A k \in N : Len(found) - matches(b) <= Len(found) - matches(k)
    BY <2>2, <2>3 DEF short
  <2>5. QED
    BY <1>2, <1>4, <2>3, <2>4
<1> DEFINE N1 == {k \in N : matches(k) = matches(a)}
<1>6. PICK b \in N1 : \A k \in N1 : triggers(b) <= triggers(k)
  <2> DEFINE few == {triggers(k) : k \in N1}
  <2>1. few \subseteq Nat /\ few # {}
    BY <1>3, <1>5
  <2> HIDE DEF few
  <2>2. PICK least \in few : \A x \in few : least <= x
    BY <2>1, LeastElement
  <2>3. QED
    BY <2>2 DEF few
<1> DEFINE N2 == {k \in N1 : triggers(k) = triggers(b)}
<1>7. PICK m \in N2 : \A k \in N2 : m <= k
  <2>1. N2 \subseteq Nat /\ N2 # {}
    BY <1>1, <1>6
  <2> HIDE DEF N2
  <2>2. QED
    BY <2>1, LeastElement
<1>8. \A n \in N : \/ matches(m) > matches(n)
                   \/ matches(m) = matches(n) /\ triggers(m) < triggers(n)
                   \/ matches(m) = matches(n) /\ triggers(m) = triggers(n) /\ m <= n
  <2> TAKE n \in N
  <2>1. m \in N /\ matches(m) = matches(a) /\ triggers(m) = triggers(b)
    BY <1>7
  <2>2. CASE matches(n) # matches(a)
    BY <1>2, <1>5, <2>1, <2>2
  <2>3. CASE matches(n) = matches(a) /\ triggers(n) # triggers(b)
    BY <1>3, <1>6, <2>1, <2>3
  <2>4. CASE matches(n) = matches(a) /\ triggers(n) = triggers(b)
    BY <1>7, <2>1, <2>4
  <2>5. QED
    BY <2>2, <2>3, <2>4
<1>9. m \in N
  BY <1>7
<1>10. \A n \in N : Preferred(eligible, m, n, found)
  BY <1>8, PreferredIs DEF matches, triggers
<1>11. QED
  BY <1>9, <1>10 DEF N

LEMMA Families ==
  /\ FamilyOrder \in Seq(ToSet(FamilyOrder)) /\ Len(FamilyOrder) = 5
  /\ \A i, j \in 1 .. 5 : FamilyOrder[i] = FamilyOrder[j] => i = j
  /\ \A i \in 1 .. 5 : FamilyOrder[i] \in ToSet(FamilyOrder)
  /\ \A f \in ToSet(FamilyOrder) : \E i \in 1 .. 5 : FamilyOrder[i] = f
  /\ \A i \in 1 .. 5 : FamilyRank(FamilyOrder[i]) = i
<1>1. Len(FamilyOrder) = 5 /\ DOMAIN FamilyOrder = 1 .. 5
  BY DEF FamilyOrder
<1>2. \A i \in 1 .. 5 : i = 1 \/ i = 2 \/ i = 3 \/ i = 4 \/ i = 5
  OBVIOUS
<1>3. /\ FamilyOrder[1] = "investigate" /\ FamilyOrder[2] = "mitigate" /\ FamilyOrder[3] = "inform"
      /\ FamilyOrder[4] = "maintenance" /\ FamilyOrder[5] = "escalate"
  BY DEF FamilyOrder
<1>4. \A i, j \in 1 .. 5 : FamilyOrder[i] = FamilyOrder[j] => i = j
  BY <1>2, <1>3
<1>5. /\ \A i \in 1 .. 5 : FamilyOrder[i] \in ToSet(FamilyOrder)
      /\ \A f \in ToSet(FamilyOrder) : \E i \in 1 .. 5 : FamilyOrder[i] = f
  BY <1>1 DEF ToSet
<1>6. FamilyOrder \in Seq(ToSet(FamilyOrder))
  <2>1. FamilyOrder = [i \in 1 .. 5 |-> FamilyOrder[i]]
    BY <1>1 DEF FamilyOrder
  <2>2. FamilyOrder \in [1 .. 5 -> ToSet(FamilyOrder)]
    BY <1>5, <2>1
  <2>3. QED
    BY <2>2, SeqDef
<1>7. \A i \in 1 .. 5 : FamilyRank(FamilyOrder[i]) = i
  BY <1>1, <1>4 DEF FamilyRank
<1>8. QED
  BY <1>1, <1>4, <1>5, <1>6, <1>7

\* How the chosen relate to the eligible: rank gives the place of their families.
ChosenFrom(eligible, found, resolved, rank) ==
  /\ resolved \in Seq(CatalogEntries) /\ Len(resolved) <= MaxActions
  /\ rank \in [1 .. Len(resolved) -> 1 .. 5]
  /\ \A m, n \in 1 .. Len(resolved) : m < n => rank[m] < rank[n]
  /\ \A n \in 1 .. Len(resolved) :
       \E m \in OfFamily(eligible, FamilyOrder[rank[n]]) :
         /\ resolved[n] = eligible[m]
         /\ \A k \in OfFamily(eligible, FamilyOrder[rank[n]]) :
              Matches(eligible, found, m) >= Matches(eligible, found, k)
  /\ \A i \in 1 .. 5 : OfFamily(eligible, FamilyOrder[i]) # {} =>
       \/ \E n \in 1 .. Len(resolved) : rank[n] = i
       \/ Len(resolved) = MaxActions /\ \A n \in 1 .. Len(resolved) : rank[n] < i

BestOf(eligible, found, f) ==
  CHOOSE m \in OfFamily(eligible, f) : \A n \in OfFamily(eligible, f) : Preferred(eligible, m, n, found)
PresentIn(eligible) == Filtered(FamilyOrder, {f \in ToSet(FamilyOrder) : OfFamily(eligible, f) # {}})

LEMMA ResolvedIs ==
  ASSUME NEW eligible, NEW found
  PROVE  LET chosen == [n \in DOMAIN PresentIn(eligible) |->
                          eligible[BestOf(eligible, found, PresentIn(eligible)[n])]]
         IN ResolveConflicts(eligible, found) =
              IF Len(chosen) > MaxActions THEN SubSeq(chosen, 1, MaxActions) ELSE chosen
BY DEF ResolveConflicts, BestOf, OfFamily, PresentIn

LEMMA ResolvedAreChosen ==
  ASSUME NEW eligible \in Seq(CatalogEntries), NEW found \in Seq(FactLike),
         NEW resolved, resolved = ResolveConflicts(eligible, found)
  PROVE  \E rank : ChosenFrom(eligible, found, resolved, rank)
<1> DEFINE S == {f \in ToSet(FamilyOrder) : OfFamily(eligible, f) # {}}
           present == PresentIn(eligible)
           best(n) == BestOf(eligible, found, present[n])
           chosen == [n \in DOMAIN present |-> eligible[best(n)]]
<1>1. present \in Seq(ToSet(FamilyOrder)) /\ \E place : Places(present, FamilyOrder, S, Len(FamilyOrder), place)
  BY Families, FilteredPlaces DEF PresentIn
<1>2. PICK place : Places(present, FamilyOrder, S, 5, place)
  BY <1>1, Families
<1>3. resolved = IF Len(chosen) > MaxActions THEN SubSeq(chosen, 1, MaxActions) ELSE chosen
  BY ResolvedIs
<1>4. Len(present) \in Nat /\ DOMAIN present = 1 .. Len(present)
  BY <1>1
<1>5. \A f : f \in S <=> f \in ToSet(FamilyOrder) /\ OfFamily(eligible, f) # {}
  OBVIOUS
<1> HIDE DEF present, S
<1>6. /\ place \in [1 .. Len(present) -> 1 .. 5]
      /\ \A n \in 1 .. Len(present) : present[n] = FamilyOrder[place[n]] /\ FamilyOrder[place[n]] \in S
      /\ \A m, n \in 1 .. Len(present) : m < n => place[m] < place[n]
      /\ \A i \in 1 .. 5 : FamilyOrder[i] \in S => \E n \in 1 .. Len(present) : place[n] = i
  BY <1>2 DEF Places
<1>7. ASSUME NEW n \in 1 .. Len(present)
      PROVE  /\ best(n) \in OfFamily(eligible, FamilyOrder[place[n]])
             /\ \A k \in OfFamily(eligible, FamilyOrder[place[n]]) :
                  Matches(eligible, found, best(n)) >= Matches(eligible, found, k)
  <2> DEFINE f == FamilyOrder[place[n]]
             m == best(n)
  <2>1. present[n] = f /\ OfFamily(eligible, f) # {}
    BY <1>5, <1>6
  <2>2. m = BestOf(eligible, found, f)
    BY <2>1
  <2> HIDE DEF f, m
  <2>3. \E k \in OfFamily(eligible, f) : \A l \in OfFamily(eligible, f) : Preferred(eligible, k, l, found)
    BY <2>1, BestExists
  <2>4. m \in OfFamily(eligible, f) /\ \A l \in OfFamily(eligible, f) : Preferred(eligible, m, l, found)
    BY <2>2, <2>3 DEF BestOf
  <2>5. \A l \in OfFamily(eligible, f) : Matches(eligible, found, m) >= Matches(eligible, found, l)
    <3> TAKE l \in OfFamily(eligible, f)
    <3>1. Matches(eligible, found, m) \in Nat /\ Matches(eligible, found, l) \in Nat
      BY MatchesAreFinite DEF Matches
    <3>2. Preferred(eligible, m, l, found)
      BY <2>4
    <3>3. QED
      BY <3>1, <3>2, PreferredIs
  <2>6. QED
    BY <2>4, <2>5 DEF f, m
<1>8. \A n \in 1 .. Len(present) : chosen[n] = eligible[best(n)] /\ chosen[n] \in CatalogEntries
  <2> TAKE n \in 1 .. Len(present)
  <2>1. chosen[n] = eligible[best(n)]
    BY <1>4
  <2>2. best(n) \in OfFamily(eligible, FamilyOrder[place[n]])
    BY <1>7
  <2> HIDE DEF chosen, best
  <2>3. best(n) \in 1 .. Len(eligible)
    BY <2>2 DEF OfFamily
  <2>4. eligible[best(n)] \in CatalogEntries
    BY <2>3, ElementOfSeq
  <2>5. QED
    BY <2>1, <2>4
<1>9. chosen \in Seq(CatalogEntries) /\ Len(chosen) = Len(present)
  <2>1. chosen \in [1 .. Len(present) -> CatalogEntries]
    BY <1>4, <1>8
  <2>2. chosen \in Seq(CatalogEntries)
    BY <1>4, <2>1, SeqDef
  <2>3. DOMAIN chosen = 1 .. Len(present)
    BY <1>4
  <2> HIDE DEF chosen
  <2>4. QED
    BY <1>4, <2>2, <2>3
<1> HIDE DEF chosen, best
<1>10. /\ resolved \in Seq(CatalogEntries) /\ Len(resolved) \in Nat
       /\ Len(resolved) = IF Len(present) > MaxActions THEN MaxActions ELSE Len(present)
       /\ \A n \in 1 .. Len(resolved) : resolved[n] = chosen[n]
  <2>1. CASE Len(chosen) > MaxActions
    <3>1. resolved = SubSeq(chosen, 1, MaxActions)
      BY <1>3, <2>1
    <3>2. MaxActions = 3 /\ 1 \in 1 .. Len(chosen) + 1 /\ 3 \in 0 .. Len(chosen) /\ Len(chosen) \in Nat
      BY <1>4, <1>9, <2>1 DEF MaxActions
    <3>3. /\ SubSeq(chosen, 1, 3) \in Seq(CatalogEntries) /\ Len(SubSeq(chosen, 1, 3)) = 3
          /\ \A i \in 1 .. 3 : SubSeq(chosen, 1, 3)[i] = chosen[i]
      BY <1>9, <3>2
    <3>4. QED
      BY <1>9, <2>1, <3>1, <3>2, <3>3
  <2>2. CASE ~(Len(chosen) > MaxActions)
    BY <1>3, <1>4, <1>9, <2>2
  <2>3. QED
    BY <2>1, <2>2
<1>11. Len(resolved) <= MaxActions /\ Len(resolved) <= Len(present)
  BY <1>4, <1>10 DEF MaxActions
<1> DEFINE rank == [n \in 1 .. Len(resolved) |-> place[n]]
<1>12. \A n \in 1 .. Len(resolved) : n \in 1 .. Len(present) /\ rank[n] = place[n] /\ rank[n] \in 1 .. 5
  <2> TAKE n \in 1 .. Len(resolved)
  <2> HIDE DEF rank
  <2>1. n \in 1 .. Len(present)
    BY <1>4, <1>10, <1>11
  <2>2. rank[n] = place[n]
    BY DEF rank
  <2>3. place[n] \in 1 .. 5
    BY <1>6, <2>1
  <2>4. QED
    BY <2>1, <2>2, <2>3
<1>13. rank \in [1 .. Len(resolved) -> 1 .. 5]
  BY <1>12
<1> HIDE DEF rank
<1>14. ASSUME NEW n \in 1 .. Len(resolved)
       PROVE  \E m \in OfFamily(eligible, FamilyOrder[rank[n]]) :
                /\ resolved[n] = eligible[m]
                /\ \A k \in OfFamily(eligible, FamilyOrder[rank[n]]) :
                     Matches(eligible, found, m) >= Matches(eligible, found, k)
  BY <1>7, <1>8, <1>10, <1>12
<1>15. ASSUME NEW i \in 1 .. 5, OfFamily(eligible, FamilyOrder[i]) # {}
       PROVE  \/ \E n \in 1 .. Len(resolved) : rank[n] = i
              \/ Len(resolved) = MaxActions /\ \A n \in 1 .. Len(resolved) : rank[n] < i
  <2>1. FamilyOrder[i] \in S
    BY <1>5, <1>15, Families
  <2>2. PICK j \in 1 .. Len(present) : place[j] = i
    BY <1>6, <2>1
  <2>3. CASE j <= Len(resolved)
    <3>1. j \in 1 .. Len(resolved)
      BY <1>10, <2>3
    <3>2. QED
      BY <1>12, <2>2, <3>1
  <2>4. CASE ~(j <= Len(resolved))
    <3>1. Len(resolved) = MaxActions
      BY <1>4, <1>10, <2>4
    <3>2. \A n \in 1 .. Len(resolved) : rank[n] < i
      <4> TAKE n \in 1 .. Len(resolved)
      <4>1. n \in 1 .. Len(present) /\ n < j
        BY <1>10, <1>12, <2>4
      <4>2. QED
        BY <1>6, <1>12, <2>2, <4>1
    <3>3. QED
      BY <3>1, <3>2
  <2>5. QED
    BY <2>3, <2>4
<1>16. \A m, n \in 1 .. Len(resolved) : m < n => rank[m] < rank[n]
  BY <1>6, <1>12
<1>17. QED
  BY <1>10, <1>11, <1>13, <1>14, <1>15, <1>16 DEF ChosenFrom

\* The eligible are the entries of the catalogue that are.
LEMMA EligibleAre ==
  ASSUME NEW found, NEW eligible, eligible = FindActionsForChecks(found)
  PROVE  /\ eligible \in Seq(CatalogEntries)
         /\ \A m \in DOMAIN eligible : CheckEligibility(eligible[m], found)
         /\ \A e \in CatalogEntries : CheckEligibility(e, found) => \E m \in DOMAIN eligible : eligible[m] = e
<1> DEFINE S == {entry \in ToSet(ActionCatalog) : CheckEligibility(entry, found)}
<1>1. eligible = Filtered(ActionCatalog, S)
  BY DEF FindActionsForChecks
<1>2. \A e : e \in S <=> e \in CatalogEntries /\ CheckEligibility(e, found)
  BY DEF CatalogEntries
<1> HIDE DEF S
<1>3. /\ eligible \in Seq(CatalogEntries)
      /\ \E place : Places(eligible, ActionCatalog, S, Len(ActionCatalog), place)
  BY <1>1, CatalogIs, FilteredPlaces
<1>4. PICK place : Places(eligible, ActionCatalog, S, Len(ActionCatalog), place)
  BY <1>3
<1>5. /\ \A m \in 1 .. Len(eligible) : eligible[m] = ActionCatalog[place[m]] /\ ActionCatalog[place[m]] \in S
      /\ \A i \in 1 .. Len(ActionCatalog) : ActionCatalog[i] \in S =>
           \E m \in 1 .. Len(eligible) : place[m] = i
  BY <1>4 DEF Places
<1>6. DOMAIN eligible = 1 .. Len(eligible)
  BY <1>3
<1>7. \A e \in CatalogEntries : \E i \in 1 .. Len(ActionCatalog) : e = ActionCatalog[i]
  <2>1. DOMAIN ActionCatalog = 1 .. Len(ActionCatalog)
    BY CatalogIs
  <2>2. QED
    BY <2>1 DEF CatalogEntries, ToSet
<1>8. \A m \in DOMAIN eligible : CheckEligibility(eligible[m], found)
  BY <1>2, <1>5, <1>6
<1>9. ASSUME NEW e \in CatalogEntries, CheckEligibility(e, found)
      PROVE  \E m \in DOMAIN eligible : eligible[m] = e
  BY <1>2, <1>5, <1>6, <1>7, <1>9
<1>10. QED
  BY <1>3, <1>8, <1>9

LEMMA EntryOfItsId == \A e \in CatalogEntries : EntryOf(e.id) = e
BY CatalogEntry DEF EntryOf, CatalogEntries

\* An entry is eligible for one alarming fact, and only with one.
LEMMA EligibleWhenAlarmed ==
  ASSUME NEW found \in Seq(FactLike), NEW e \in CatalogEntries
  PROVE  LET alarming == {n \in MatchedChecks(e, found) : found[n].severity # "ok"}
         IN /\ CheckEligibility(e, found) => alarming # {}
            /\ e.minMatches = 1 /\ e.minSeverity = "warning" /\ alarming # {} => CheckEligibility(e, found)
<1> DEFINE matched == MatchedChecks(e, found)
<1>1. /\ SeverityRank["ok"] = 0 /\ SeverityRank["warning"] = 1
      /\ SeverityRank["error"] = 2 /\ SeverityRank["unknown"] = 3
  BY DEF SeverityRank
<1>2. e.minSeverity \in {"warning", "error"} /\ IsFiniteSet(matched) /\ Cardinality(matched) \in Nat
  BY CatalogEntry, MatchesAreFinite
<1>3. \A n \in matched : found[n].severity \in {"ok", "warning", "error"}
  <2> TAKE n \in matched
  <2>1. n \in 1 .. Len(found)
    BY DEF MatchedChecks
  <2>2. found[n] \in FactLike
    BY <2>1, ElementOfSeq
  <2>3. QED
    BY <2>2 DEF FactLike
<1>4. CheckEligibility(e, found) <=>
        /\ \E n \in matched : SeverityRank[found[n].severity] >= SeverityRank[e.minSeverity]
        /\ Cardinality(matched) >= e.minMatches
  BY DEF CheckEligibility, SeverityMeetsMinimum
<1> HIDE DEF matched
<1>5. ASSUME CheckEligibility(e, found) PROVE \E n \in matched : found[n].severity # "ok"
  BY <1>1, <1>2, <1>3, <1>4, <1>5
<1>6. ASSUME e.minMatches = 1, e.minSeverity = "warning", NEW n \in matched, found[n].severity # "ok"
      PROVE  CheckEligibility(e, found)
  <2>1. SeverityRank[found[n].severity] >= SeverityRank[e.minSeverity]
    BY <1>1, <1>3, <1>6
  <2>2. Cardinality(matched) # 0
    BY <1>2, <1>6, FS_EmptySet
  <2>3. QED
    BY <1>2, <1>4, <1>6, <2>1, <2>2
<1>7. QED
  BY <1>5, <1>6 DEF matched

\* What is recommended: at most three, no two of a family, each because of a fact that is
\* not ok; none has fewer of its triggers reported than another eligible one of its family,
\* and none is kept back but for the families before it (action-mapper.ts).
THEOREM RecommendationsBest == Spec => []RecommendationsAreTheBest
<1>1. ConsultationInv => RecommendationsAreTheBest
  <2> SUFFICES ASSUME ConsultationInv, stage = "answered"
               PROVE  RecommendationsAreTheBest
    BY DEF RecommendationsAreTheBest
  <2>1. facts \in Seq(FactLike)
    <3>1. PICK name \in PlatformName, machine \in Machines, silent \in Silences :
            facts = AnalyzeForQuery(SystemInfo(name, machine, silent), selection.checks)
      BY DEF ConsultationInv, AnswerInv, Observation
    <3>2. QED
      BY <3>1, AnalyzedFacts
  <2> DEFINE eligible == FindActionsForChecks(facts)
             resolved == ResolveConflicts(eligible, facts)
  <2>2. answer.actions = [n \in DOMAIN resolved |->
          [id |-> resolved[n].id, confidence |-> Confidence(resolved[n].steps[platform])]]
    BY DEF ConsultationInv, AnswerInv, MapActions
  <2>3. /\ eligible \in Seq(CatalogEntries)
        /\ \A m \in DOMAIN eligible : CheckEligibility(eligible[m], facts)
        /\ \A e \in CatalogEntries : CheckEligibility(e, facts) => \E m \in DOMAIN eligible : eligible[m] = e
    BY EligibleAre
  <2> HIDE DEF eligible
  <2>4. PICK rank : ChosenFrom(eligible, facts, resolved, rank)
    BY <2>1, <2>3, ResolvedAreChosen
  <2> HIDE DEF resolved
  <2>5. /\ resolved \in Seq(CatalogEntries) /\ Len(resolved) <= MaxActions
        /\ rank \in [1 .. Len(resolved) -> 1 .. 5]
        /\ \A m, n \in 1 .. Len(resolved) : m < n => rank[m] < rank[n]
        /\ \A n \in 1 .. Len(resolved) :
             \E m \in OfFamily(eligible, FamilyOrder[rank[n]]) :
               /\ resolved[n] = eligible[m]
               /\ \A k \in OfFamily(eligible, FamilyOrder[rank[n]]) :
                    Matches(eligible, facts, m) >= Matches(eligible, facts, k)
        /\ \A i \in 1 .. 5 : OfFamily(eligible, FamilyOrder[i]) # {} =>
             \/ \E n \in 1 .. Len(resolved) : rank[n] = i
             \/ Len(resolved) = MaxActions /\ \A n \in 1 .. Len(resolved) : rank[n] < i
    BY <2>4 DEF ChosenFrom
  <2>6. DOMAIN resolved = 1 .. Len(resolved) /\ Len(resolved) \in Nat
        /\ \A n \in 1 .. Len(resolved) : resolved[n] \in CatalogEntries
    BY <2>5, ElementOfSeq
  <2>7. DOMAIN answer.actions = 1 .. Len(resolved) /\ Len(answer.actions) = Len(resolved)
        /\ \A n \in 1 .. Len(resolved) : EntryOf(answer.actions[n].id) = resolved[n]
    BY <2>2, <2>6, EntryOfItsId
  <2>8. Chosen = {resolved[n] : n \in 1 .. Len(resolved)}
    BY <2>7 DEF Chosen
  <2>9. \A n \in 1 .. Len(resolved) :
          resolved[n].family = FamilyOrder[rank[n]] /\ rank[n] \in 1 .. 5
    BY <2>5 DEF OfFamily
  <2>10. \A m, n \in 1 .. Len(resolved) : resolved[m].family = resolved[n].family => m = n
    <3> TAKE m, n \in 1 .. Len(resolved)
    <3>1. resolved[m].family = resolved[n].family => rank[m] = rank[n]
      BY <2>9, Families
    <3>2. m < n \/ n < m \/ m = n
      OBVIOUS
    <3>3. rank[m] \in Nat /\ rank[n] \in Nat
      BY <2>9
    <3>4. (m < n => rank[m] < rank[n]) /\ (n < m => rank[n] < rank[m])
      BY <2>5
    <3>5. QED
      BY <3>1, <3>2, <3>3, <3>4
  <2>11. Cardinality(Chosen) = Len(resolved)
    <3> DEFINE number == [n \in 1 .. Len(resolved) |-> resolved[n]]
    <3>1. number \in Bijection(1 .. Len(resolved), Chosen)
      <4>1. number \in [1 .. Len(resolved) -> Chosen]
        BY <2>8
      <4>2. \A m, n \in 1 .. Len(resolved) : number[m] = number[n] => m = n
        BY <2>10
      <4>3. \A e \in Chosen : \E n \in 1 .. Len(resolved) : number[n] = e
        BY <2>8
      <4> HIDE DEF number
      <4>4. QED
        BY <4>1, <4>2, <4>3 DEF Bijection, Injection, Surjection, IsInjective
    <3>2. ExistsBijection(1 .. Len(resolved), Chosen)
      BY <3>1 DEF ExistsBijection
    <3>3. IsFiniteSet(1 .. Len(resolved)) /\ Cardinality(1 .. Len(resolved)) = Len(resolved)
      BY <2>6, FirstNumbers
    <3>4. QED
      BY <3>2, <3>3, FS_Bijection
  <2>12. \A a, b \in Chosen : a.family = b.family => a = b
    BY <2>8, <2>10
  <2>13. \A a \in Chosen : Alarming(a) # {}
    <3> TAKE a \in Chosen
    <3>1. PICK n \in 1 .. Len(resolved) : a = resolved[n]
      BY <2>8
    <3>2. a \in CatalogEntries /\ CheckEligibility(a, facts)
      BY <2>3, <2>5, <2>6, <3>1 DEF OfFamily
    <3>3. QED
      BY <2>1, <3>2, EligibleWhenAlarmed DEF Alarming
  <2>14. ASSUME NEW entry \in CatalogEntries, entry.minMatches = 1, entry.minSeverity = "warning",
                Alarming(entry) # {}
         PROVE  \/ \E a \in Chosen :
                     /\ a.family = entry.family
                     /\ Cardinality(MatchedChecks(a, facts)) >= Cardinality(MatchedChecks(entry, facts))
                \/ /\ Len(resolved) = MaxActions
                   /\ \A a \in Chosen : FamilyRank(a.family) < FamilyRank(entry.family)
    <3>1. CheckEligibility(entry, facts)
      BY <2>1, <2>14, EligibleWhenAlarmed DEF Alarming
    <3>2. PICK k \in DOMAIN eligible : eligible[k] = entry
      BY <2>3, <3>1
    <3>3. PICK i \in 1 .. 5 : FamilyOrder[i] = entry.family
      BY <2>14, CatalogEntry, Families
    <3>4. k \in OfFamily(eligible, FamilyOrder[i])
      BY <3>2, <3>3 DEF OfFamily
    <3>5. CASE \E n \in 1 .. Len(resolved) : rank[n] = i
      <4>1. PICK n \in 1 .. Len(resolved) : rank[n] = i
        BY <3>5
      <4>2. PICK m \in OfFamily(eligible, FamilyOrder[i]) :
              resolved[n] = eligible[m] /\ Matches(eligible, facts, m) >= Matches(eligible, facts, k)
        BY <2>5, <3>4, <4>1
      <4>3. resolved[n] \in Chosen /\ resolved[n].family = entry.family
        BY <2>8, <2>9, <3>3, <4>1
      <4>4. Cardinality(MatchedChecks(resolved[n], facts)) >= Cardinality(MatchedChecks(entry, facts))
        BY <3>2, <4>2 DEF Matches
      <4>5. QED
        BY <4>3, <4>4
    <3>6. CASE Len(resolved) = MaxActions /\ \A n \in 1 .. Len(resolved) : rank[n] < i
      <4>1. ASSUME NEW a \in Chosen PROVE FamilyRank(a.family) < FamilyRank(entry.family)
        <5>1. PICK n \in 1 .. Len(resolved) : a = resolved[n]
          BY <2>8, <4>1
        <5>2. FamilyRank(a.family) = rank[n] /\ FamilyRank(entry.family) = i
          BY <2>9, <3>3, <5>1, Families
        <5>3. QED
          BY <3>6, <5>2
      <4>2. QED
        BY <3>6, <4>1
    <3>7. QED
      BY <2>5, <3>4, <3>5, <3>6
  <2>15. QED
    BY <2>5, <2>7, <2>11, <2>12, <2>13, <2>14 DEF RecommendationsAreTheBest, CatalogEntries
<1>2. QED
  BY <1>1, ConsultationInvariant, PTL

=============================================================================
