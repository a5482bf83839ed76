------------------------------ MODULE QueueLemmas ------------------------------
(***************************************************************************)
(* Facts about the sequences that model the client's channels and its list *)
(* of workers: what is in them after one element was appended or taken     *)
(* out, as long as no element is in them twice.                            *)
(***************************************************************************)
EXTENDS Integers, SequencesExt, TLAPS, SequenceTheorems

(* What a send leaves in a channel.                                        *)
LEMMA ToSetAppend ==
    ASSUME NEW S, NEW q \in Seq(S), NEW e \in S
    PROVE  ToSet(Append(q, e)) = ToSet(q) \cup {e}
<1>. DEFINE r == Append(q, e)
            n == Len(q)
<1>1. /\ DOMAIN r = 1..(n + 1) /\ r[n + 1] = e /\ \A j \in 1..n : r[j] = q[j]
      /\ DOMAIN q = 1..n /\ n \in Nat
  OBVIOUS
<1>. HIDE DEF r, n
<1>2. ToSet(r) = ToSet(q) \cup {e}
  BY <1>1 DEF ToSet
<1>. QED BY <1>2 DEF r

LEMMA AppendKeepsInjective ==
    ASSUME NEW S, NEW q \in Seq(S), NEW e \in S, IsInjective(q), e \notin ToSet(q)
    PROVE  IsInjective(Append(q, e))
<1>. DEFINE r == Append(q, e)
            n == Len(q)
<1>1. /\ DOMAIN r = 1..(n + 1) /\ r[n + 1] = e /\ \A j \in 1..n : r[j] = q[j]
      /\ DOMAIN q = 1..n /\ n \in Nat
  OBVIOUS
<1>2. \A j, k \in 1..n : q[j] = q[k] => j = k
  BY <1>1 DEF IsInjective
<1>3. \A j \in 1..n : q[j] # e
  BY <1>1 DEF ToSet
<1>. HIDE DEF r, n
<1>4. ASSUME NEW j \in DOMAIN r, NEW k \in DOMAIN r, r[j] = r[k]
      PROVE  j = k
  <2>1. CASE j \in 1..n /\ k \in 1..n
    BY <2>1, <1>1, <1>2, <1>4
  <2>2. CASE j = n + 1 \/ k = n + 1
    BY <2>2, <1>1, <1>3, <1>4
  <2>. QED BY <1>1, <2>1, <2>2
<1>. QED BY <1>4 DEF IsInjective, r

(* What a receive leaves in a channel.                                     *)
LEMMA TakeHead ==
    ASSUME NEW S, NEW q \in Seq(S), q # <<>>
    PROVE  /\ Head(q) \in S /\ Head(q) \in ToSet(q)
           /\ Tail(q) \in Seq(S) /\ ToSet(Tail(q)) \subseteq ToSet(q)
           /\ ToSet(q) \subseteq ToSet(Tail(q)) \cup {Head(q)}
<1>. DEFINE n == Len(q)
            r == Tail(q)
<1>1. n \in Nat \ {0} /\ Head(q) = q[1] /\ DOMAIN q = 1..n /\ q[1] \in S
  OBVIOUS
<1>2. r \in Seq(S) /\ DOMAIN r = 1..(n - 1) /\ \A i \in 1..(n - 1) : r[i] = q[i + 1]
  OBVIOUS
<1>. HIDE DEF n, r
<1>3. Head(q) \in ToSet(q)
  BY <1>1 DEF ToSet
<1>4. ToSet(r) \subseteq ToSet(q)
  BY <1>1, <1>2 DEF ToSet
<1>5. ToSet(q) \subseteq ToSet(r) \cup {Head(q)}
  <2>1. SUFFICES ASSUME NEW i \in 1..n, i # 1 PROVE q[i] \in ToSet(r)
    BY <1>1 DEF ToSet
  <2>2. i - 1 \in 1..(n - 1) /\ (i - 1) + 1 = i
    BY <1>1, <2>1
  <2>3. r[i - 1] = q[i]
    BY <1>2, <2>2
  <2>. QED BY <1>2, <2>2, <2>3 DEF ToSet
<1>. QED BY <1>1, <1>2, <1>3, <1>4, <1>5 DEF r

LEMMA TakeHeadInjective ==
    ASSUME NEW S, NEW q \in Seq(S), q # <<>>, IsInjective(q)
    PROVE  /\ ToSet(Tail(q)) = ToSet(q) \ {Head(q)}
           /\ IsInjective(Tail(q))
<1>. DEFINE n == Len(q)
            r == Tail(q)
<1>1. n \in Nat \ {0} /\ Head(q) = q[1] /\ DOMAIN q = 1..n
  OBVIOUS
<1>2. DOMAIN r = 1..(n - 1) /\ \A i \in 1..(n - 1) : r[i] = q[i + 1]
  OBVIOUS
<1>3. \A j, k \in 1..n : q[j] = q[k] => j = k
  BY <1>1 DEF IsInjective
<1>. HIDE DEF n, r
<1>4. Head(q) \notin ToSet(r)
  <2>1. SUFFICES ASSUME NEW i \in 1..(n - 1), r[i] = q[1] PROVE FALSE
    BY <1>1, <1>2 DEF ToSet
  <2>2. i + 1 \in 1..n /\ 1 \in 1..n /\ i + 1 # 1
    BY <1>1
  <2>. QED BY <1>2, <1>3, <2>1, <2>2
<1>5. ToSet(r) = ToSet(q) \ {Head(q)}
  BY <1>4, TakeHead DEF r
<1>6. ASSUME NEW j \in DOMAIN r, NEW k \in DOMAIN r, r[j] = r[k]
      PROVE  j = k
  <2>1. j + 1 \in 1..n /\ k + 1 \in 1..n /\ q[j + 1] = q[k + 1] /\ j \in Int /\ k \in Int
    BY <1>1, <1>2, <1>6
  <2>2. j + 1 = k + 1
    BY <2>1, <1>3
  <2>. QED BY <2>1, <2>2
<1>. QED BY <1>5, <1>6 DEF IsInjective, r

-------------------------------------------------------------------------------
(* What "append(d.workers[:i], d.workers[i+1:]...)" leaves.                *)
LEMMA RemoveAtFacts ==
    ASSUME NEW S, NEW q \in Seq(S), NEW i \in 1..Len(q)
    PROVE  /\ RemoveAt(q, i) \in Seq(S)
           /\ Len(RemoveAt(q, i)) = Len(q) - 1
           /\ \A j \in 1..(Len(q) - 1) :
                 RemoveAt(q, i)[j] = IF j < i THEN q[j] ELSE q[j + 1]
<1>. DEFINE n == Len(q)
            a == SubSeq(q, 1, i - 1)
            b == SubSeq(q, i + 1, n)
<1>1. n \in Nat /\ i \in Int /\ 1 <= i /\ i <= n
  OBVIOUS
<1>2. \A j \in 1..n : q[j] \in S
  OBVIOUS
<1>. HIDE DEF n
<1>3. a \in Seq(S) /\ Len(a) = i - 1 /\ \A j \in 1..(i - 1) : a[j] = q[j]
  BY <1>1, <1>2, SubSeqProperties
<1>4. /\ b \in Seq(S) /\ Len(b) = n - i
      /\ \A j \in 1..(n - i) : b[j] = q[j + i]
  BY <1>1, <1>2, SubSeqProperties
<1>. HIDE DEF a, b
<1>5. /\ a \o b \in Seq(S)
      /\ Len(a \o b) = n - 1
      /\ \A j \in 1..(n - 1) : (a \o b)[j] = IF j <= i - 1 THEN a[j] ELSE b[j - (i - 1)]
  <2>1. /\ a \o b \in Seq(S)
        /\ Len(a \o b) = Len(a) + Len(b)
        /\ \A j \in 1..(Len(a) + Len(b)) :
              (a \o b)[j] = IF j <= Len(a) THEN a[j] ELSE b[j - Len(a)]
    BY <1>3, <1>4, ConcatProperties, Zenon
  <2>2. Len(a) = i - 1 /\ Len(b) = n - i /\ (i - 1) + (n - i) = n - 1
    BY <1>1, <1>3, <1>4
  <2>. QED BY <2>1, <2>2, Zenon
<1>6. ASSUME NEW j \in 1..(n - 1)
      PROVE  (a \o b)[j] = IF j < i THEN q[j] ELSE q[j + 1]
  <2>1. CASE j < i
    BY <2>1, <1>1, <1>3, <1>5
  <2>2. CASE ~(j < i)
    <3>1. (a \o b)[j] = b[j - (i - 1)] /\ j - (i - 1) \in 1..(n - i)
      BY <2>2, <1>1, <1>5
    <3>2. (j - (i - 1)) + i = j + 1
      BY <1>1
    <3>. QED BY <3>1, <3>2, <2>2, <1>4
  <2>. QED BY <2>1, <2>2
<1>7. RemoveAt(q, i) = a \o b
  BY DEF RemoveAt, a, b, n
<1>. QED
  BY <1>5, <1>6, <1>7 DEF n

LEMMA RemoveAtKeepsInjective ==
    ASSUME NEW S, NEW q \in Seq(S), NEW i \in 1..Len(q), IsInjective(q)
    PROVE  IsInjective(RemoveAt(q, i))
<1>. DEFINE r == RemoveAt(q, i)
            at(j) == IF j < i THEN j ELSE j + 1
<1>1. r \in Seq(S) /\ Len(r) = Len(q) - 1 /\ DOMAIN r = 1..(Len(q) - 1)
  BY RemoveAtFacts
<1>2. \A j \in 1..(Len(q) - 1) : r[j] = q[at(j)] /\ at(j) \in 1..Len(q)
  BY RemoveAtFacts
<1>3. \A j, k \in 1..Len(q) : q[j] = q[k] => j = k
  BY DEF IsInjective
<1>. HIDE DEF r
<1>4. ASSUME NEW j \in DOMAIN r, NEW k \in DOMAIN r, r[j] = r[k]
      PROVE  j = k
  <2>1. q[at(j)] = q[at(k)] /\ at(j) \in 1..Len(q) /\ at(k) \in 1..Len(q)
    BY <1>1, <1>2, <1>4
  <2>2. at(j) = at(k)
    BY <2>1, <1>3
  <2>3. j \in Int /\ k \in Int /\ i \in Int
    BY <1>1
  <2>. QED BY <2>2, <2>3
<1>5. IsInjective(r) BY <1>4, Zenon DEF IsInjective
<1>. QED BY <1>5 DEF r

LEMMA ToSetRemoveAt ==
    ASSUME NEW S, NEW q \in Seq(S), NEW i \in 1..Len(q), IsInjective(q)
    PROVE  ToSet(RemoveAt(q, i)) = ToSet(q) \ {q[i]}
<1>. DEFINE r == RemoveAt(q, i)
            n == Len(q)
            at(j) == IF j < i THEN j ELSE j + 1
<1>1. DOMAIN r = 1..(n - 1) /\ DOMAIN q = 1..n /\ n \in Nat /\ i \in 1..n
  BY RemoveAtFacts
<1>2. \A j \in 1..(n - 1) : r[j] = q[at(j)] /\ at(j) \in 1..n /\ at(j) # i
  BY RemoveAtFacts
<1>3. \A j, k \in 1..n : q[j] = q[k] => j = k
  BY DEF IsInjective
<1>. HIDE DEF r, n
<1>4. ToSet(r) \subseteq ToSet(q) \ {q[i]}
  <2>. SUFFICES ASSUME NEW j \in 1..(n - 1) PROVE r[j] \in ToSet(q) \ {q[i]}
    BY <1>1 DEF ToSet
  <2>1. r[j] = q[at(j)] /\ at(j) \in 1..n /\ at(j) # i
    BY <1>2
  <2>. HIDE DEF at
  <2>2. q[at(j)] # q[i]
    BY <1>1, <1>3, <2>1
  <2>. QED BY <1>1, <2>1, <2>2 DEF ToSet
<1>5. ToSet(q) \ {q[i]} \subseteq ToSet(r)
  <2>1. SUFFICES ASSUME NEW k \in 1..n, k # i PROVE q[k] \in ToSet(r)
    BY <1>1 DEF ToSet
  <2>2. CASE k < i
    <3>1. k \in 1..(n - 1) /\ at(k) = k
      BY <1>1, <2>2
    <3>. QED BY <1>1, <1>2, <3>1 DEF ToSet
  <2>3. CASE k > i
    <3>1. k - 1 \in 1..(n - 1) /\ at(k - 1) = k
      BY <1>1, <2>3
    <3>2. r[k - 1] = q[k]
      BY <1>2, <3>1
    <3>. QED BY <1>1, <3>1, <3>2 DEF ToSet
  <2>. QED BY <1>1, <2>1, <2>2, <2>3
<1>. QED BY <1>4, <1>5 DEF r
===============================================================================
