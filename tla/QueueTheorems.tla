---------------------------- MODULE QueueTheorems ----------------------------
(***************************************************************************)
(* Facts about sequences used as queues, for the proofs about the thread   *)
(* pool and the connection pool: what pushes and pops do to the contents,  *)
(* to a history, and to a queue that holds nothing twice.                  *)
(***************************************************************************)
EXTENDS Naturals, Sequences, FiniteSets, Functions,
        SequenceTheorems, FunctionTheorems, FiniteSetTheorems, TLAPS

\* Pushing at the back of a queue pushes at the back of its whole history.
LEMMA AppendToSuffix ==
  ASSUME NEW S, NEW s \in Seq(S), NEW q \in Seq(S), NEW x \in S
  PROVE  s \o Append(q, x) = Append(s \o q, x)
  OBVIOUS

\* Moving the front of a queue to the back of what precedes it changes
\* nothing to their concatenation.
LEMMA MoveHead ==
  ASSUME NEW S, NEW s \in Seq(S), NEW q \in Seq(S), q # <<>>
  PROVE  Append(s, Head(q)) \o Tail(q) = s \o q
  OBVIOUS

\* What a queue holds after a push.
LEMMA RangeAppend ==
  ASSUME NEW S, NEW s \in Seq(S), NEW x \in S
  PROVE  Range(Append(s, x)) = Range(s) \union {x}
<1> DEFINE t == Append(s, x)
<1>1. t \in Seq(S) /\ Len(t) = Len(s) + 1 /\ t[Len(s) + 1] = x
  OBVIOUS
<1>2. \A i \in 1 .. Len(s) : t[i] = s[i]
  OBVIOUS
<1>3. DOMAIN t = 1 .. Len(s) + 1 /\ DOMAIN s = 1 .. Len(s) /\ Len(s) \in Nat
  BY <1>1
<1> HIDE DEF t
<1>4. Range(t) \subseteq Range(s) \union {x}
  BY <1>1, <1>2, <1>3 DEF Range
<1>5. Range(s) \union {x} \subseteq Range(t)
  BY <1>1, <1>2, <1>3 DEF Range
<1> QED
  BY <1>4, <1>5 DEF t

\* A push of something new keeps a sequence free of repetitions.
LEMMA InjectiveAppend ==
  ASSUME NEW S, NEW s \in Seq(S), NEW x \in S \ Range(s), IsInjective(s)
  PROVE  IsInjective(Append(s, x))
  BY RangeEquality, AppendProperties DEF IsInjective

\* Nothing occurs both in the first part and at the front of the second part
\* of a sequence free of repetitions.
LEMMA FrontIsFresh ==
  ASSUME NEW S, NEW s \in Seq(S), NEW q \in Seq(S), q # <<>>,
         IsInjective(s \o q)
  PROVE  Head(q) \notin Range(s)
<1> DEFINE t == s \o q
<1>1. \A i \in 1 .. Len(s) : i \in DOMAIN t /\ t[i] = s[i]
  OBVIOUS
<1>2. Len(s) + 1 \in DOMAIN t /\ t[Len(s) + 1] = Head(q)
  OBVIOUS
<1>3. DOMAIN s = 1 .. Len(s) /\ Len(s) \in Nat
  OBVIOUS
<1> HIDE DEF t
<1>4. ASSUME NEW i \in 1 .. Len(s), s[i] = Head(q) PROVE FALSE
  <2>1. t[i] = t[Len(s) + 1] /\ i # Len(s) + 1
    BY <1>1, <1>2, <1>3, <1>4
  <2> QED
    BY <2>1, <1>1, <1>2 DEF t, IsInjective
<1> QED
  BY <1>3, <1>4 DEF Range

\* What is left after the first n entries of a queue have been dropped.
LEMMA Drop ==
  ASSUME NEW S, NEW q \in Seq(S), NEW n \in 0 .. Len(q)
  PROVE  LET r == SubSeq(q, n + 1, Len(q))
         IN  /\ r \in Seq(S)
             /\ Len(r) = Len(q) - n
             /\ \A i \in 1 .. Len(r) : r[i] = q[n + i]
<1>1. Len(q) \in Nat /\ \A i \in n + 1 .. Len(q) : q[i] \in S
  OBVIOUS
<1> DEFINE r == SubSeq(q, n + 1, Len(q))
<1>2. /\ r \in Seq(S)
      /\ Len(r) = IF n + 1 <= Len(q) THEN Len(q) - (n + 1) + 1 ELSE 0
      /\ \A i \in 1 .. Len(q) - (n + 1) + 1 : r[i] = q[n + 1 + i - 1]
  BY <1>1, SubSeqProperties
<1>3. Len(r) = Len(q) - n
  BY <1>1, <1>2
<1> HIDE DEF r
<1>4. \A i \in 1 .. Len(r) : r[i] = q[n + i]
  BY <1>1, <1>2, <1>3
<1> QED
  BY <1>2, <1>3, <1>4 DEF r

\* Dropping entries of a queue that holds nothing twice removes exactly those
\* entries from what it holds, and it still holds nothing twice.
LEMMA DropInjective ==
  ASSUME NEW S, NEW q \in Seq(S), NEW n \in 0 .. Len(q), IsInjective(q)
  PROVE  LET r == SubSeq(q, n + 1, Len(q))
         IN  /\ IsInjective(r)
             /\ Range(r) = Range(q) \ {q[i] : i \in 1 .. n}
<1> DEFINE r == SubSeq(q, n + 1, Len(q))
<1>0. /\ r \in Seq(S) /\ Len(r) = Len(q) - n
      /\ \A i \in 1 .. Len(r) : r[i] = q[n + i]
  BY Drop
<1> HIDE DEF r
<1>1. /\ Len(q) \in Nat /\ DOMAIN q = 1 .. Len(q)
      /\ Len(r) \in Nat /\ DOMAIN r = 1 .. Len(r)
  BY <1>0
<1>2. \A i, j \in 1 .. Len(q) : q[i] = q[j] => i = j
  BY <1>1 DEF IsInjective
<1>3. IsInjective(r)
  BY <1>0, <1>1, <1>2 DEF IsInjective
<1>4. ASSUME NEW y \in Range(r) PROVE y \in Range(q) \ {q[i] : i \in 1 .. n}
  <2>1. PICK i \in 1 .. Len(r) : y = q[n + i]
    BY <1>0, <1>1, <1>4 DEF Range
  <2>2. n + i \in 1 .. Len(q)
    BY <1>0, <1>1
  <2>3. \A k \in 1 .. n : q[k] # y
    BY <1>1, <1>2, <2>1, <2>2
  <2> QED
    BY <1>1, <2>1, <2>2, <2>3 DEF Range
<1>5. ASSUME NEW y \in Range(q), y \notin {q[i] : i \in 1 .. n} PROVE y \in Range(r)
  <2>1. PICK k \in 1 .. Len(q) : y = q[k]
    BY <1>1 DEF Range
  <2>2. k \notin 1 .. n
    BY <2>1, <1>5
  <2>3. k - n \in 1 .. Len(r) /\ n + (k - n) = k
    BY <1>0, <1>1, <2>2
  <2> QED
    BY <1>0, <1>1, <2>1, <2>3 DEF Range
<1> QED
  BY <1>3, <1>4, <1>5 DEF r

\* A queue holds no more things than it has places.
LEMMA RangeCardinality ==
  ASSUME NEW S, NEW q \in Seq(S)
  PROVE  IsFiniteSet(Range(q)) /\ Cardinality(Range(q)) <= Len(q)
<1>1. Len(q) \in Nat /\ DOMAIN q = 1 .. Len(q)
  OBVIOUS
<1>2. q \in Surjection(1 .. Len(q), Range(q))
  BY <1>1 DEF Surjection, Range
<1>3. IsFiniteSet(1 .. Len(q)) /\ Cardinality(1 .. Len(q)) = Len(q)
  BY <1>1, FS_Interval
<1> QED
  BY <1>2, <1>3, FS_Surjection

=============================================================================
