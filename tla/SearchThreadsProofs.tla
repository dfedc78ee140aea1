------------------------ MODULE SearchThreadsProofs ------------------------
(***************************************************************************)
(* The safety of the thread pool for any number of threads and commands.   *)
(*                                                                         *)
(* None of the properties is inductive: each rests on where the UCI thread *)
(* and the searching main thread are in their programs.  What has still to *)
(* be done is a sequence of steps, so the invariant is about its order:    *)
(* the UCI thread touches nothing that a search uses before it has waited  *)
(* for the search (UciOrder); it awaits every short job it posts           *)
(* (JobsAreAwaited); the main thread comes to its answer only after it has *)
(* waited for every helper it started (HelpersAreAwaited).                 *)
(***************************************************************************)
EXTENDS SearchThreads, SequenceTheorems, FiniteSetTheorems, TLAPS

(***************************************************************************)
(* Programs written down as sequences of steps, and what can be said of    *)
(* the order in which they do things: A and B are sets of steps.  Each     *)
(* predicate is characterised on the first step and the rest, and on a     *)
(* concatenation, which is how programs are consumed and composed.         *)
(***************************************************************************)

\* s does a step of A.
Has(s, A) == \E i \in 1..Len(s) : s[i] \in A

\* s does a step of B before any step of A.
Guarded(s, A, B) ==
  \A i \in 1..Len(s) : s[i] \in A => \E j \in 1..Len(s) : j < i /\ s[j] \in B

\* s does a step of B after every step of A.
Awaited(s, A, B) ==
  \A i \in 1..Len(s) : s[i] \in A => \E j \in 1..Len(s) : i < j /\ s[j] \in B

\* s does no step of B after a step of A.
Barred(s, A, B) ==
  \A i, k \in 1..Len(s) : i < k /\ s[i] \in A => s[k] \notin B

\* Between a step of A and a later one of C, s does one of B.
Separated(s, A, B, C) ==
  \A i, k \in 1..Len(s) :
    i < k /\ s[i] \in A /\ s[k] \in C => \E j \in 1..Len(s) : i < j /\ j < k /\ s[j] \in B
-----------------------------------------------------------------------------
\* What Head and Tail select.
LEMMA HeadTail ==
  ASSUME NEW S, NEW s \in Seq(S), s # <<>>
  PROVE  /\ Head(s) \in S /\ Tail(s) \in Seq(S) /\ Head(s) = s[1]
         /\ Len(s) \in Nat \ {0} /\ Len(Tail(s)) \in Nat /\ Len(Tail(s)) = Len(s) - 1
         /\ \A i \in 1..Len(Tail(s)) : Tail(s)[i] = s[i + 1]
         /\ \A i \in 1..Len(s) : i # 1 => i - 1 \in 1..Len(Tail(s)) /\ s[i] = Tail(s)[i - 1]
BY SMT

\* The empty program does nothing, so nothing is out of order in it.
LEMMA EmptyOrder ==
  /\ \A A : ~Has(<<>>, A)
  /\ \A A, B : Guarded(<<>>, A, B) /\ Awaited(<<>>, A, B) /\ Barred(<<>>, A, B)
  /\ \A A, B, C : Separated(<<>>, A, B, C)
BY DEF Has, Guarded, Awaited, Barred, Separated

\* A program is its first step and the rest.
LEMMA FirstStep ==
  ASSUME NEW S, NEW s \in Seq(S), s # <<>>
  PROVE  /\ \A A : Has(s, A) <=> Head(s) \in A \/ Has(Tail(s), A)
         /\ \A A, B : Guarded(s, A, B) <=>
              Head(s) \notin A /\ (Head(s) \in B \/ Guarded(Tail(s), A, B))
         /\ \A A, B : Awaited(s, A, B) <=>
              (Head(s) \in A => Has(Tail(s), B)) /\ Awaited(Tail(s), A, B)
         /\ \A A, B : Barred(s, A, B) <=>
              (Head(s) \in A => ~Has(Tail(s), B)) /\ Barred(Tail(s), A, B)
         /\ \A A, B, C : Separated(s, A, B, C) <=>
              (Head(s) \in A => Guarded(Tail(s), C, B)) /\ Separated(Tail(s), A, B, C)
<1> DEFINE h == Head(s)
           t == Tail(s)
<1>1. /\ h = s[1] /\ t \in Seq(S) /\ Len(s) \in Nat \ {0} /\ Len(t) = Len(s) - 1 /\ Len(t) \in Nat
      /\ \A i \in 1..Len(t) : t[i] = s[i + 1]
      /\ \A i \in 1..Len(s) : i # 1 => i - 1 \in 1..Len(t) /\ s[i] = t[i - 1]
  BY HeadTail
<1> HIDE DEF h, t
<1>2. ASSUME NEW A PROVE Has(s, A) <=> h \in A \/ Has(t, A)
  BY <1>1 DEF Has
<1>3. ASSUME NEW A, NEW B PROVE Guarded(s, A, B) <=> h \notin A /\ (h \in B \/ Guarded(t, A, B))
  <2>1. ASSUME Guarded(s, A, B) PROVE h \notin A /\ (h \in B \/ Guarded(t, A, B))
    <3>1. h \notin A
      BY <1>1, <2>1 DEF Guarded
    <3>2. ASSUME h \notin B, NEW i \in 1..Len(t), t[i] \in A
          PROVE  \E j \in 1..Len(t) : j < i /\ t[j] \in B
      <4>1. i + 1 \in 1..Len(s) /\ s[i + 1] \in A
        BY <1>1, <3>2
      <4>2. PICK j \in 1..Len(s) : j < i + 1 /\ s[j] \in B
        BY <4>1, <2>1 DEF Guarded
      <4>3. j # 1
        BY <4>2, <3>2, <1>1
      <4>4. j - 1 \in 1..Len(t) /\ j - 1 < i /\ t[j - 1] \in B
        BY <4>2, <4>3, <1>1
      <4> QED BY <4>4
    <3> QED BY <3>1, <3>2 DEF Guarded
  <2>2. ASSUME h \notin A, h \in B \/ Guarded(t, A, B) PROVE Guarded(s, A, B)
    <3>1. SUFFICES ASSUME NEW i \in 1..Len(s), s[i] \in A
                   PROVE  \E j \in 1..Len(s) : j < i /\ s[j] \in B
      BY DEF Guarded
    <3>2. i # 1 /\ i - 1 \in 1..Len(t) /\ t[i - 1] \in A /\ 1 < i
      BY <1>1, <2>2, <3>1
    <3>3. CASE h \in B
      BY <1>1, <3>2, <3>3
    <3>4. CASE Guarded(t, A, B)
      <4>1. PICK j \in 1..Len(t) : j < i - 1 /\ t[j] \in B
        BY <3>2, <3>4 DEF Guarded
      <4>2. j + 1 \in 1..Len(s) /\ j + 1 < i /\ s[j + 1] \in B
        BY <4>1, <1>1, <3>2
      <4> QED BY <4>2
    <3> QED BY <2>2, <3>3, <3>4
  <2> QED BY <2>1, <2>2
<1>4. ASSUME NEW A, NEW B PROVE Awaited(s, A, B) <=> (h \in A => Has(t, B)) /\ Awaited(t, A, B)
  <2>1. ASSUME Awaited(s, A, B), NEW i \in 1..Len(s), s[i] \in A
        PROVE  \E j \in 1..Len(t) : i < j + 1 /\ t[j] \in B
    <3>1. PICK j \in 1..Len(s) : i < j /\ s[j] \in B
      BY <2>1 DEF Awaited
    <3>2. j # 1 /\ j - 1 \in 1..Len(t) /\ t[j - 1] \in B /\ i < (j - 1) + 1
      BY <3>1, <1>1
    <3> QED BY <3>2
  <2>2. ASSUME Awaited(s, A, B) PROVE (h \in A => Has(t, B)) /\ Awaited(t, A, B)
    <3>1. h \in A => Has(t, B)
      BY <2>1, <2>2, <1>1 DEF Has
    <3>2. ASSUME NEW i \in 1..Len(t), t[i] \in A
          PROVE  \E j \in 1..Len(t) : i < j /\ t[j] \in B
      <4>1. i + 1 \in 1..Len(s) /\ s[i + 1] \in A
        BY <1>1, <3>2
      <4> QED BY <4>1, <2>1, <2>2
    <3> QED BY <3>1, <3>2 DEF Awaited
  <2>3. ASSUME h \in A => Has(t, B), Awaited(t, A, B), NEW i \in 1..Len(s), s[i] \in A
        PROVE  \E j \in 1..Len(s) : i < j /\ s[j] \in B
    <3>1. \E j \in 1..Len(t) : i < j + 1 /\ t[j] \in B
      <4>1. CASE i = 1
        BY <4>1, <2>3, <1>1 DEF Has
      <4>2. CASE i # 1
        <5>1. i - 1 \in 1..Len(t) /\ t[i - 1] \in A
          BY <4>2, <2>3, <1>1
        <5>2. PICK j \in 1..Len(t) : i - 1 < j /\ t[j] \in B
          BY <5>1, <2>3 DEF Awaited
        <5> QED BY <5>2
      <4> QED BY <4>1, <4>2
    <3>2. PICK j \in 1..Len(t) : i < j + 1 /\ t[j] \in B
      BY <3>1
    <3>3. j + 1 \in 1..Len(s) /\ s[j + 1] \in B
      BY <3>2, <1>1
    <3> QED BY <3>2, <3>3
  <2> QED BY <2>2, <2>3 DEF Awaited
<1>5. ASSUME NEW A, NEW B PROVE Barred(s, A, B) <=> (h \in A => ~Has(t, B)) /\ Barred(t, A, B)
  <2>1. ASSUME Barred(s, A, B) PROVE (h \in A => ~Has(t, B)) /\ Barred(t, A, B)
    <3>1. ASSUME NEW k \in 1..Len(t), h \in A PROVE t[k] \notin B
      <4>1. k + 1 \in 1..Len(s) /\ 1 \in 1..Len(s) /\ 1 < k + 1 /\ s[k + 1] = t[k]
        BY <1>1
      <4> QED BY <4>1, <3>1, <2>1, <1>1 DEF Barred
    <3>2. ASSUME NEW i \in 1..Len(t), NEW k \in 1..Len(t), i < k, t[i] \in A
          PROVE  t[k] \notin B
      <4>1. /\ k + 1 \in 1..Len(s) /\ i + 1 \in 1..Len(s) /\ i + 1 < k + 1
            /\ s[k + 1] = t[k] /\ s[i + 1] \in A
        BY <1>1, <3>2
      <4> QED BY <4>1, <2>1 DEF Barred
    <3> QED BY <3>1, <3>2 DEF Has, Barred
  <2>2. ASSUME h \in A => ~Has(t, B), Barred(t, A, B),
               NEW i \in 1..Len(s), NEW k \in 1..Len(s), i < k, s[i] \in A
        PROVE  s[k] \notin B
    <3>1. k # 1 /\ k - 1 \in 1..Len(t) /\ s[k] = t[k - 1]
      BY <1>1, <2>2
    <3>2. CASE i = 1
      BY <3>1, <3>2, <2>2, <1>1 DEF Has
    <3>3. CASE i # 1
      <4>1. i - 1 \in 1..Len(t) /\ t[i - 1] \in A /\ i - 1 < k - 1
        BY <3>3, <2>2, <1>1
      <4> QED BY <4>1, <3>1, <2>2 DEF Barred
    <3> QED BY <3>2, <3>3
  <2> QED BY <2>1, <2>2 DEF Barred
<1>6. ASSUME NEW A, NEW B, NEW C
      PROVE  Separated(s, A, B, C) <=> (h \in A => Guarded(t, C, B)) /\ Separated(t, A, B, C)
  <2>1. ASSUME Separated(s, A, B, C), NEW i \in 1..Len(s), s[i] \in A,
               NEW k \in 1..Len(t), i < k + 1, t[k] \in C
        PROVE  \E j \in 1..Len(t) : i < j + 1 /\ j < k /\ t[j] \in B
    <3>1. k + 1 \in 1..Len(s) /\ s[k + 1] \in C
      BY <1>1, <2>1
    <3>2. PICK j \in 1..Len(s) : i < j /\ j < k + 1 /\ s[j] \in B
      BY <2>1, <3>1 DEF Separated
    <3>3. /\ j # 1 /\ j - 1 \in 1..Len(t) /\ t[j - 1] \in B
          /\ i < (j - 1) + 1 /\ j - 1 < k
      BY <3>2, <1>1
    <3> QED BY <3>3
  <2>2. ASSUME Separated(s, A, B, C)
        PROVE  (h \in A => Guarded(t, C, B)) /\ Separated(t, A, B, C)
    <3>1. h \in A => Guarded(t, C, B)
      BY <2>1, <2>2, <1>1 DEF Guarded
    <3>2. ASSUME NEW i \in 1..Len(t), NEW k \in 1..Len(t), i < k, t[i] \in A, t[k] \in C
          PROVE  \E j \in 1..Len(t) : i < j /\ j < k /\ t[j] \in B
      <4>1. i + 1 \in 1..Len(s) /\ s[i + 1] \in A /\ i + 1 < k + 1
        BY <1>1, <3>2
      <4>2. PICK j \in 1..Len(t) : i + 1 < j + 1 /\ j < k /\ t[j] \in B
        BY <4>1, <3>2, <2>1, <2>2
      <4> QED BY <4>2
    <3> QED BY <3>1, <3>2 DEF Separated
  <2>3. ASSUME h \in A => Guarded(t, C, B), Separated(t, A, B, C),
               NEW i \in 1..Len(s), NEW k \in 1..Len(s), i < k, s[i] \in A, s[k] \in C
        PROVE  \E j \in 1..Len(s) : i < j /\ j < k /\ s[j] \in B
    <3>1. k # 1 /\ k - 1 \in 1..Len(t) /\ t[k - 1] \in C
      BY <1>1, <2>3
    <3>2. \E j \in 1..Len(t) : i < j + 1 /\ j < k - 1 /\ t[j] \in B
      <4>1. CASE i = 1
        <5>1. PICK j \in 1..Len(t) : j < k - 1 /\ t[j] \in B
          BY <4>1, <3>1, <2>3, <1>1 DEF Guarded
        <5> QED BY <5>1, <4>1
      <4>2. CASE i # 1
        <5>1. i - 1 \in 1..Len(t) /\ t[i - 1] \in A /\ i - 1 < k - 1
          BY <4>2, <2>3, <1>1
        <5>2. PICK j \in 1..Len(t) : i - 1 < j /\ j < k - 1 /\ t[j] \in B
          BY <5>1, <3>1, <2>3 DEF Separated
        <5> QED BY <5>2
      <4> QED BY <4>1, <4>2
    <3>3. PICK j \in 1..Len(t) : i < j + 1 /\ j < k - 1 /\ t[j] \in B
      BY <3>2
    <3>4. j + 1 \in 1..Len(s) /\ s[j + 1] \in B /\ j + 1 < k
      BY <3>3, <1>1
    <3> QED BY <3>3, <3>4
  <2> QED BY <2>2, <2>3 DEF Separated
<1> QED BY <1>2, <1>3, <1>4, <1>5, <1>6 DEF h, t

\* What a program never does needs no order.
LEMMA Absent ==
  ASSUME NEW s
  PROVE  /\ \A A, B : ~Has(s, A) => Guarded(s, A, B) /\ Awaited(s, A, B) /\ Barred(s, A, B)
         /\ \A A, B : ~Has(s, B) => Barred(s, A, B)
         /\ \A A, B, C : ~Has(s, A) \/ ~Has(s, C) => Separated(s, A, B, C)
BY DEF Has, Guarded, Awaited, Barred, Separated

\* What the elements of a concatenation are.
LEMMA Joined ==
  ASSUME NEW S, NEW p \in Seq(S), NEW q \in Seq(S)
  PROVE  /\ p \o q \in Seq(S) /\ Len(p) \in Nat /\ Len(q) \in Nat
         /\ Len(p \o q) = Len(p) + Len(q)
         /\ \A i \in 1..Len(p) : i \in 1..Len(p \o q) /\ (p \o q)[i] = p[i]
         /\ \A i \in 1..Len(q) : Len(p) + i \in 1..Len(p \o q) /\ (p \o q)[Len(p) + i] = q[i]
         /\ \A i \in 1..Len(p \o q) :
              \/ i \in 1..Len(p) /\ (p \o q)[i] = p[i]
              \/ /\ i > Len(p) /\ i - Len(p) \in 1..Len(q)
                 /\ (p \o q)[i] = q[i - Len(p)]
<1>1. /\ p \o q \in Seq(S) /\ Len(p) \in Nat /\ Len(q) \in Nat
      /\ Len(p \o q) = Len(p) + Len(q)
      /\ \A i \in 1..(Len(p) + Len(q)) : (p \o q)[i] =
                     IF i <= Len(p) THEN p[i] ELSE q[i - Len(p)]
  BY ConcatProperties
<1> DEFINE r == p \o q
<1> HIDE DEF r
<1>2. /\ r \in Seq(S) /\ Len(p) \in Nat /\ Len(q) \in Nat
      /\ Len(r) = Len(p) + Len(q)
      /\ \A i \in 1..(Len(p) + Len(q)) : r[i] = IF i <= Len(p) THEN p[i] ELSE q[i - Len(p)]
  BY <1>1 DEF r
<1>3. \A i \in 1..Len(p) : i \in 1..Len(r) /\ r[i] = p[i]
  BY <1>2
<1>4. \A i \in 1..Len(q) : Len(p) + i \in 1..Len(r) /\ r[Len(p) + i] = q[i]
  <2> TAKE i \in 1..Len(q)
  <2>1. Len(p) + i \in 1..Len(r) /\ ~(Len(p) + i <= Len(p)) /\ (Len(p) + i) - Len(p) = i
    BY <1>2
  <2> QED BY <2>1, <1>2
<1>5. \A i \in 1..Len(r) : \/ i \in 1..Len(p) /\ r[i] = p[i]
                           \/ i > Len(p) /\ i - Len(p) \in 1..Len(q) /\ r[i] = q[i - Len(p)]
  BY <1>2
<1> QED BY <1>2, <1>3, <1>4, <1>5 DEF r

\* A program that is composed of two.
LEMMA Composed ==
  ASSUME NEW S, NEW p \in Seq(S), NEW q \in Seq(S)
  PROVE  /\ \A A : Has(p \o q, A) <=> Has(p, A) \/ Has(q, A)
         /\ \A A, B : Guarded(p, A, B) /\ (Has(p, B) \/ Guarded(q, A, B)) => Guarded(p \o q, A, B)
         /\ \A A, B : (Awaited(p, A, B) \/ Has(q, B)) /\ Awaited(q, A, B) => Awaited(p \o q, A, B)
         /\ \A A, B : Barred(p, A, B) /\ Barred(q, A, B) /\ (Has(p, A) => ~Has(q, B))
              => Barred(p \o q, A, B)
         /\ \A A, B, C :
              Separated(p, A, B, C) /\ Separated(q, A, B, C) /\ (Has(p, A) => Guarded(q, C, B))
                => Separated(p \o q, A, B, C)
<1> DEFINE r == p \o q
<1>1. /\ r \in Seq(S) /\ Len(p) \in Nat /\ Len(q) \in Nat /\ Len(r) = Len(p) + Len(q)
      /\ \A i \in 1..Len(p) : i \in 1..Len(r) /\ r[i] = p[i]
      /\ \A i \in 1..Len(q) : Len(p) + i \in 1..Len(r) /\ r[Len(p) + i] = q[i]
      /\ \A i \in 1..Len(r) : \/ i \in 1..Len(p) /\ r[i] = p[i]
                              \/ i > Len(p) /\ i - Len(p) \in 1..Len(q) /\ r[i] = q[i - Len(p)]
  BY Joined
<1> HIDE DEF r
<1>2. ASSUME NEW A PROVE Has(r, A) <=> Has(p, A) \/ Has(q, A)
  <2>1. ASSUME Has(r, A) PROVE Has(p, A) \/ Has(q, A)
    BY <1>1, <2>1 DEF Has
  <2>2. ASSUME Has(p, A) PROVE Has(r, A)
    BY <1>1, <2>2 DEF Has
  <2>3. ASSUME Has(q, A) PROVE Has(r, A)
    BY <1>1, <2>3 DEF Has
  <2> QED BY <2>1, <2>2, <2>3
<1>3. ASSUME NEW A, NEW B, Guarded(p, A, B), Has(p, B) \/ Guarded(q, A, B) PROVE Guarded(r, A, B)
  <2>1. SUFFICES ASSUME NEW i \in 1..Len(r), r[i] \in A
                 PROVE  \E j \in 1..Len(r) : j < i /\ r[j] \in B
    BY DEF Guarded
  <2>2. CASE i \in 1..Len(p) /\ r[i] = p[i]
    BY <2>1, <2>2, <1>1, <1>3 DEF Guarded
  <2>3. CASE i > Len(p) /\ i - Len(p) \in 1..Len(q) /\ r[i] = q[i - Len(p)]
    <3>1. CASE Has(p, B)
      <4>1. PICK j \in 1..Len(p) : p[j] \in B
        BY <3>1 DEF Has
      <4>2. j \in 1..Len(r) /\ r[j] \in B
        BY <4>1, <1>1
      <4>3. j < i
        BY <2>3, <1>1
      <4> QED BY <4>2, <4>3
    <3>2. CASE Guarded(q, A, B)
      <4>1. PICK j \in 1..Len(q) : j < i - Len(p) /\ q[j] \in B
        BY <3>2, <2>1, <2>3 DEF Guarded
      <4>2. Len(p) + j \in 1..Len(r) /\ r[Len(p) + j] \in B /\ Len(p) + j < i
        BY <4>1, <1>1, <2>3
      <4> QED BY <4>2
    <3> QED BY <3>1, <3>2, <1>3
  <2> QED BY <2>2, <2>3, <1>1
<1>4. ASSUME NEW A, NEW B, Awaited(p, A, B) \/ Has(q, B), Awaited(q, A, B) PROVE Awaited(r, A, B)
  <2>1. SUFFICES ASSUME NEW i \in 1..Len(r), r[i] \in A
                 PROVE  \E j \in 1..Len(r) : i < j /\ r[j] \in B
    BY DEF Awaited
  <2>2. CASE i \in 1..Len(p) /\ r[i] = p[i]
    <3>1. CASE Awaited(p, A, B)
      BY <2>1, <2>2, <3>1, <1>1 DEF Awaited
    <3>2. CASE Has(q, B)
      <4>1. PICK j \in 1..Len(q) : q[j] \in B
        BY <3>2 DEF Has
      <4>2. Len(p) + j \in 1..Len(r) /\ r[Len(p) + j] \in B /\ i < Len(p) + j
        BY <4>1, <2>2, <1>1
      <4> QED BY <4>2
    <3> QED BY <3>1, <3>2, <1>4
  <2>3. CASE i > Len(p) /\ i - Len(p) \in 1..Len(q) /\ r[i] = q[i - Len(p)]
    <3>1. PICK j \in 1..Len(q) : i - Len(p) < j /\ q[j] \in B
      BY <2>1, <2>3, <1>4 DEF Awaited
    <3>2. Len(p) + j \in 1..Len(r) /\ r[Len(p) + j] \in B /\ i < Len(p) + j
      BY <3>1, <1>1, <2>3
    <3> QED BY <3>2
  <2> QED BY <2>2, <2>3, <1>1
<1>5. ASSUME NEW A, NEW B, Barred(p, A, B), Barred(q, A, B), Has(p, A) => ~Has(q, B)
      PROVE  Barred(r, A, B)
  <2>1. SUFFICES ASSUME NEW i \in 1..Len(r), NEW k \in 1..Len(r), i < k, r[i] \in A
                 PROVE  r[k] \notin B
    BY DEF Barred
  <2>2. CASE k \in 1..Len(p) /\ r[k] = p[k]
    <3>1. i \in 1..Len(p) /\ p[i] \in A
      BY <2>1, <2>2, <1>1
    <3> QED BY <3>1, <2>1, <2>2, <1>5 DEF Barred
  <2>3. CASE k > Len(p) /\ k - Len(p) \in 1..Len(q) /\ r[k] = q[k - Len(p)]
    <3>1. CASE i \in 1..Len(p) /\ r[i] = p[i]
      BY <2>1, <2>3, <3>1, <1>5 DEF Has
    <3>2. CASE i > Len(p) /\ i - Len(p) \in 1..Len(q) /\ r[i] = q[i - Len(p)]
      <4>1. i - Len(p) < k - Len(p)
        BY <2>1, <1>1
      <4> QED BY <4>1, <2>1, <2>3, <3>2, <1>5 DEF Barred
    <3> QED BY <3>1, <3>2, <1>1
  <2> QED BY <2>2, <2>3, <1>1
<1>6. ASSUME NEW A, NEW B, NEW C, Separated(p, A, B, C), Separated(q, A, B, C),
             Has(p, A) => Guarded(q, C, B)
      PROVE  Separated(r, A, B, C)
  <2>1. SUFFICES ASSUME NEW i \in 1..Len(r), NEW k \in 1..Len(r), i < k, r[i] \in A, r[k] \in C
                 PROVE  \E j \in 1..Len(r) : i < j /\ j < k /\ r[j] \in B
    BY DEF Separated
  <2>2. CASE k \in 1..Len(p) /\ r[k] = p[k]
    <3>1. i \in 1..Len(p) /\ p[i] \in A /\ p[k] \in C
      BY <2>1, <2>2, <1>1
    <3>2. PICK j \in 1..Len(p) : i < j /\ j < k /\ p[j] \in B
      BY <3>1, <2>1, <2>2, <1>6 DEF Separated
    <3>3. j \in 1..Len(r) /\ r[j] \in B
      BY <3>2, <1>1
    <3> QED BY <3>2, <3>3
  <2>3. CASE k > Len(p) /\ k - Len(p) \in 1..Len(q) /\ r[k] = q[k - Len(p)]
    <3>1. \E j \in 1..Len(q) : i < Len(p) + j /\ j < k - Len(p) /\ q[j] \in B
      <4>1. CASE i \in 1..Len(p) /\ r[i] = p[i]
        <5>1. PICK j \in 1..Len(q) : j < k - Len(p) /\ q[j] \in B
          BY <2>1, <2>3, <4>1, <1>6 DEF Has, Guarded
        <5> QED BY <5>1, <4>1, <1>1
      <4>2. CASE i > Len(p) /\ i - Len(p) \in 1..Len(q) /\ r[i] = q[i - Len(p)]
        <5>1. i - Len(p) < k - Len(p)
          BY <2>1, <1>1
        <5>2. PICK j \in 1..Len(q) : i - Len(p) < j /\ j < k - Len(p) /\ q[j] \in B
          BY <5>1, <2>1, <2>3, <4>2, <1>6 DEF Separated
        <5> QED BY <5>2, <1>1
      <4> QED BY <4>1, <4>2, <1>1
    <3>2. PICK j \in 1..Len(q) : i < Len(p) + j /\ j < k - Len(p) /\ q[j] \in B
      BY <3>1
    <3>3. Len(p) + j \in 1..Len(r) /\ r[Len(p) + j] \in B /\ Len(p) + j < k
      BY <3>2, <1>1, <2>3
    <3> QED BY <3>2, <3>3
  <2> QED BY <2>2, <2>3, <1>1
<1> QED BY <1>2, <1>3, <1>4, <1>5, <1>6 DEF r

\* A program of one step.
LEMMA Single ==
  ASSUME NEW a
  PROVE  /\ \A A : Has(<<a>>, A) <=> a \in A
         /\ \A A, B : /\ Guarded(<<a>>, A, B) <=> a \notin A
                      /\ Awaited(<<a>>, A, B) <=> a \notin A
                      /\ Barred(<<a>>, A, B)
         /\ \A A, B, C : Separated(<<a>>, A, B, C)
BY DEF Has, Guarded, Awaited, Barred, Separated

\* Two steps put before a program are put there one by one.
LEMMA Pair ==
  ASSUME NEW S, NEW s \in Seq(S), NEW a \in S, NEW b \in S
  PROVE  <<a, b>> \o s = <<a>> \o (<<b>> \o s)
<1>1. <<a>> \in Seq(S) /\ <<b>> \in Seq(S) /\ <<a, b>> \in Seq(S)
  OBVIOUS
<1>2. <<a, b>> = <<a>> \o <<b>>
  <2> DEFINE u == <<a>>
             v == <<b>>
             w == <<a, b>>
  <2>1. /\ Len(u) = 1 /\ u[1] = a /\ Len(v) = 1 /\ v[1] = b
        /\ Len(w) = 2 /\ w[1] = a /\ w[2] = b
    OBVIOUS
  <2>2. u \in Seq(S) /\ v \in Seq(S) /\ w \in Seq(S)
    BY <1>1
  <2> HIDE DEF u, v, w
  <2>3. /\ u \o v \in Seq(S) /\ Len(u \o v) = Len(u) + Len(v)
        /\ \A i \in 1..Len(u) : (u \o v)[i] = u[i]
        /\ \A i \in 1..Len(v) : (u \o v)[Len(u) + i] = v[i]
    BY <2>2, Joined
  <2>4. Len(u \o v) = 2 /\ (u \o v)[1] = a /\ (u \o v)[2] = b
    <3>1. 1 \in 1..1 /\ 1 + 1 = 2
      OBVIOUS
    <3> QED BY <2>1, <2>3, <3>1
  <2>5. \A i \in 1..Len(w) : w[i] = (u \o v)[i]
    <3>1. \A i \in 1..2 : i = 1 \/ i = 2
      OBVIOUS
    <3> QED BY <2>1, <2>4, <3>1
  <2>6. w = u \o v
    BY <2>1, <2>2, <2>3, <2>4, <2>5, SeqEqual
  <2> QED BY <2>6 DEF u, v, w
<1> QED BY ONLY <1>1, <1>2, ConcatAssociative, s \in Seq(S)

\* A step put before a program.
LEMMA Put ==
  ASSUME NEW S, NEW s \in Seq(S), NEW a \in S
  PROVE  /\ <<a>> \o s \in Seq(S) /\ <<a>> \o s # <<>>
         /\ Head(<<a>> \o s) = a /\ Tail(<<a>> \o s) = s
<1>1. <<a>> \in Seq(S) /\ Len(<<a>>) = 1 /\ <<a>>[1] = a
  OBVIOUS
<1>2. <<a>> \o s \in Seq(S) /\ <<a>> \o s # <<>> /\ Head(<<a>> \o s) = a
  OBVIOUS
<1>3. Tail(<<a>> \o s) = s
  <2>1. /\ <<a>> \o s \in Seq(S) /\ Len(<<a>> \o s) = 1 + Len(s) /\ Len(s) \in Nat
        /\ \A i \in 1..Len(s) : (<<a>> \o s)[1 + i] = s[i]
    BY <1>1, Joined
  <2>2. /\ Tail(<<a>> \o s) \in Seq(S) /\ Len(Tail(<<a>> \o s)) = Len(s)
        /\ \A i \in 1..Len(s) : Tail(<<a>> \o s)[i] = (<<a>> \o s)[i + 1]
    BY <2>1, <1>2, HeadTail
  <2>3. \A i \in 1..Len(s) : Tail(<<a>> \o s)[i] = s[i]
    BY <2>1, <2>2
  <2> QED BY <2>2, <2>3, SeqEqual
<1> QED BY <1>2, <1>3

\* Steps put before a program.
LEMMA Prefixed ==
  ASSUME NEW S, NEW s \in Seq(S), NEW a \in S
  PROVE  /\ <<a>> \o s \in Seq(S) /\ <<a>> \o s # <<>>
         /\ Head(<<a>> \o s) = a /\ Tail(<<a>> \o s) = s
         /\ <<>> \o s = s
         /\ \A b \in S : <<a, b>> \o s = <<a>> \o (<<b>> \o s)
         /\ \A b, c \in S : <<a, b, c>> \o s = <<a>> \o (<<b>> \o (<<c>> \o s))
<1>1. <<a>> \in Seq(S) /\ Len(<<a>>) = 1 /\ <<a>>[1] = a
  OBVIOUS
<1>2. /\ <<a>> \o s \in Seq(S) /\ <<a>> \o s # <<>>
      /\ Head(<<a>> \o s) = a /\ Tail(<<a>> \o s) = s
  BY Put
<1>4. <<>> \o s = s
  BY ConcatEmptySeq
<1>5. ASSUME NEW b \in S PROVE <<a, b>> \o s = <<a>> \o (<<b>> \o s)
  BY Pair
<1>6. ASSUME NEW b \in S, NEW c \in S PROVE <<a, b, c>> \o s = <<a>> \o (<<b>> \o (<<c>> \o s))
  <2>1. <<a, b, c>> = <<a>> \o <<b, c>> /\ <<b, c>> \in Seq(S)
    <3> DEFINE u == <<a>>
               v == <<b, c>>
               w == <<a, b, c>>
    <3>1. /\ u \in Seq(S) /\ v \in Seq(S) /\ w \in Seq(S) /\ Len(u) = 1 /\ Len(v) = 2 /\ Len(w) = 3
          /\ u[1] = a /\ v[1] = b /\ v[2] = c /\ w[1] = a /\ w[2] = b /\ w[3] = c
      OBVIOUS
    <3> HIDE DEF u, v, w
    <3>2. /\ u \o v \in Seq(S) /\ Len(u \o v) = Len(u) + Len(v)
          /\ \A i \in 1..(Len(u) + Len(v)) :
               (u \o v)[i] = IF i <= Len(u) THEN u[i] ELSE v[i - Len(u)]
      BY <3>1, ConcatProperties
    <3>3. Len(u \o v) = 3 /\ (u \o v)[1] = a /\ (u \o v)[2] = b /\ (u \o v)[3] = c
      BY <3>1, <3>2
    <3>4. \A i \in 1..Len(w) : w[i] = (u \o v)[i]
      BY <3>1, <3>3
    <3>5. w = u \o v
      BY <3>1, <3>2, <3>3, <3>4, SeqEqual
    <3> QED BY <3>1, <3>5 DEF u, v, w
  <2>2. <<a, b, c>> \o s = <<a>> \o (<<b, c>> \o s)
    BY <2>1, <1>1, ConcatAssociative
  <2>4. <<b, c>> \o s = <<b>> \o (<<c>> \o s)
    BY Pair
  <2> QED BY <2>2, <2>4
<1> QED BY <1>2, <1>4, <1>5, <1>6

\* What a program does after one step is put before it.
LEMMA Preceded ==
  ASSUME NEW S, NEW s \in Seq(S), NEW a \in S
  PROVE  /\ <<a>> \o s \in Seq(S) /\ <<a>> \o s # <<>>
         /\ Head(<<a>> \o s) = a /\ Tail(<<a>> \o s) = s
         /\ \A A : Has(<<a>> \o s, A) <=> a \in A \/ Has(s, A)
         /\ \A A, B : Guarded(<<a>> \o s, A, B) <=> a \notin A /\ (a \in B \/ Guarded(s, A, B))
         /\ \A A, B : Awaited(<<a>> \o s, A, B) <=> (a \in A => Has(s, B)) /\ Awaited(s, A, B)
         /\ \A A, B : Barred(<<a>> \o s, A, B) <=> (a \in A => ~Has(s, B)) /\ Barred(s, A, B)
         /\ \A A, B, C : Separated(<<a>> \o s, A, B, C) <=>
              (a \in A => Guarded(s, C, B)) /\ Separated(s, A, B, C)
<1>1. /\ <<a>> \o s \in Seq(S) /\ <<a>> \o s # <<>>
      /\ Head(<<a>> \o s) = a /\ Tail(<<a>> \o s) = s
  BY Put
<1> DEFINE r == <<a>> \o s
<1>2. r \in Seq(S) /\ r # <<>> /\ Head(r) = a /\ Tail(r) = s
  BY <1>1
<1> HIDE DEF r
<1>3. /\ \A A : Has(r, A) <=> a \in A \/ Has(s, A)
      /\ \A A, B : Guarded(r, A, B) <=> a \notin A /\ (a \in B \/ Guarded(s, A, B))
      /\ \A A, B : Awaited(r, A, B) <=> (a \in A => Has(s, B)) /\ Awaited(s, A, B)
      /\ \A A, B : Barred(r, A, B) <=> (a \in A => ~Has(s, B)) /\ Barred(s, A, B)
      /\ \A A, B, C : Separated(r, A, B, C) <=>
           (a \in A => Guarded(s, C, B)) /\ Separated(s, A, B, C)
  BY <1>2, FirstStep
<1> QED BY <1>1, <1>3 DEF r

\* A program composed of two begins where the first one begins.
LEMMA HeadJoined ==
  ASSUME NEW S, NEW p \in Seq(S), NEW q \in Seq(S), p # <<>>
  PROVE  p \o q # <<>> /\ Head(p \o q) = Head(p)
<1>1. Len(p) \in Nat \ {0} /\ Len(q) \in Nat /\ p \o q \in Seq(S) /\ Head(p) = p[1]
  BY HeadTail, Joined
<1>2. Len(p \o q) = Len(p) + Len(q) /\ (p \o q)[1] = p[1]
  BY <1>1, Joined
<1>3. p \o q # <<>>
  BY <1>1, <1>2
<1> QED BY <1>1, <1>2, <1>3, HeadTail

\* A program does nothing but what it is made of.
LEMMA Within ==
  ASSUME NEW S, NEW s \in Seq(S), NEW A, \A a \in S : a \notin A
  PROVE  ~Has(s, A)
BY DEF Has
-----------------------------------------------------------------------------

UciOps == {"wait", "run", "notify", "kill", "join", "make", "resize", "restore", "free", "network"}
MainOps == {"wait", "run", "notify", "deepen", "linger", "raise", "bestmove", "return",
            "pondered", "timeout"}
Steps == [op : UciOps \cup MainOps, th : Pool, job : Jobs]
           \cup [op : {"begin"}, th : {Main}, job : {"none"}, limits : Limits]

Op(o) == {s \in Steps : s.op = o}
On(o, t) == {s \in Steps : s.op = o /\ s.th = t}
Posts(t, j) == {s \in Steps : s.op = "run" /\ s.th = t /\ s.job = j}
ShortJobs == {"setup", "alloc", "clear", "zero"}
ShortRuns(t) == {s \in Steps : s.op = "run" /\ s.th = t /\ s.job \in ShortJobs}

UciSteps == {s \in Steps : s.op \in UciOps \cup {"begin"}}
\* The main thread starts and awaits its helpers.
MainSteps == {s \in Steps : /\ s.op \in MainOps
                            /\ s.op \in {"run", "wait"} => s.th # Main
                            /\ s.op = "run" => s.job = "search"}

\* The parts of Resize and TearDown that end threads and make them.
Kills(m) == Each(1, m, LAMBDA t : Step("kill", t))
Makes(m) == Each(1, m, LAMBDA t : Step("make", t))

U == todo[UCI]
M == todo[Main]
-----------------------------------------------------------------------------
\* TypeOK without the bounds that follow from counting answers; a thread that
\* does not search is asleep or gone, and one that runs has taken its job.
ThreadTypes ==
  /\ n \in Pool
  /\ pc \in [Pool -> {"gone", "top", "asleep", "job"}]
  /\ searching \in [Pool -> BOOLEAN] /\ exit \in [Pool -> BOOLEAN]
  /\ jobFunc \in [Pool -> Jobs] /\ job \in [Pool -> Jobs]
  /\ \A t \in Pool : /\ jobFunc[t] # "none" => searching[t]
                     /\ pc[t] \in {"top", "job"} => searching[t] /\ jobFunc[t] = "none"
  /\ waiters \in [Pool -> SUBSET (Pool \cup {UCI})]

ProgramTypes ==
  /\ todo \in [{UCI, Main} -> Seq(Steps)]
  /\ U \in Seq(UciSteps) /\ M \in Seq(MainSteps)

CommandTypes ==
  /\ stop \in BOOLEAN /\ ponder \in BOOLEAN /\ stopOnPonderhit \in BOOLEAN
  /\ limits \in Limits
  /\ setUp \in [Pool -> [go : Nat, list : 0..(MaxCommands + 1)]]
  /\ {states, setupStates, pos} \subseteq 0..(MaxCommands + 1)
  /\ loop \in BOOLEAN /\ told \subseteq {"stop", "ponderhit"} /\ cout \in {"engine", "host"}
  /\ commands \in 0..MaxCommands /\ gos \in Nat
  /\ printed \in [{"engine", "host"} -> Nat]

Types == ThreadTypes /\ ProgramTypes /\ CommandTypes

\* The threads that exist are those of the pool; it is resized, and a thread is
\* made anew, when the old ones have been joined.
Alive(t) == pc[t] # "gone"
MakesBeyond(m) == {s \in Steps : s.op = "make" /\ s.th > m}

Lives ==
  /\ \A t \in Pool : pc[t] = "job" <=> job[t] # "none"
  /\ \A t \in Pool : Alive(t) =>
       t <= n /\ Guarded(U, Op("resize") \cup On("make", t), On("kill", t) \cup On("join", t))
  /\ \A m \in Pool : Has(U, On("resize", m)) => ~Has(U, MakesBeyond(m))
  /\ Guarded(U, MakesBeyond(n), Op("resize"))
  /\ \A t \in Pool : Barred(U, On("make", t), Op("resize") \cup On("make", t))

\* Who is blocked on another thread is about to wait for it or to give it a job.
Blocked ==
  \A t \in Pool : \A w \in waiters[t] : w # t =>
    /\ w \in {UCI, Main} /\ todo[w] # <<>>
    /\ Head(todo[w]).op \in {"wait", "run"} /\ Head(todo[w]).th = t
    /\ w = Main => job[Main] = "search"
-----------------------------------------------------------------------------
Busy(t) == job[t] = "search" \/ (Posted(t) /\ jobFunc[t] = "search")
Quiet == \A t \in Pool : ~Busy(t)
Short(t) == job[t] \in ShortJobs \/ jobFunc[t] \in ShortJobs

\* What the UCI thread does only when nothing searches.
NeedQuiet == {s \in UciSteps : /\ s.op \notin {"restore", "notify", "network"}
                               /\ ~(s.op = "wait" /\ s.th = Main)}

\* A search that the UCI thread is about to start: "go", not the end of a thread.
Asked == Has(U, Posts(Main, "search")) /\ ~exit[Main]

\* What the UCI thread does to the pool and to the network.
Changes == Op("kill") \cup Op("make") \cup Op("resize") \cup Op("network")

UciOrder ==
  /\ Quiet \/ Guarded(U, NeedQuiet, On("wait", Main))
  /\ \A t \in Pool : Has(U, Posts(t, "search")) => t = Main \/ exit[t]
  /\ U # <<>> => \A t \in Pool : Has(Tail(U), Posts(t, "search")) => t = Main /\ ~exit[Main]
  /\ Asked => /\ Barred(U, Posts(Main, "search"), UciSteps)
              /\ ~Has(U, Changes)
  /\ loop => /\ exit[Main] => Has(U, On("make", Main))
             /\ Awaited(U, On("kill", Main), On("make", Main))

JobsAreAwaited ==
  \A t \in Pool :
    /\ Short(t) => Quiet /\ Has(U, On("wait", t))
    /\ Awaited(U, ShortRuns(t), On("wait", t))

\* Where the main thread compares what the helpers found, and after.
Endings == Op("bestmove") \cup Op("return")

MainOrder ==
  /\ job[Main] # "search" => M = <<>>
  /\ Awaited(M, MainSteps \ Op("return"), Op("return"))
  /\ Barred(M, Op("return"), MainSteps)
  /\ Barred(M, Op("bestmove"), MainSteps \ Op("return"))

RunsBeyond(m) == {s \in Steps : s.op = "run" /\ s.th > m}

HelpersAreAwaited ==
  /\ \A t \in Pool \ {Main} :
       /\ Busy(t) => t <= n /\ M # <<>> /\ Guarded(M, Endings, On("wait", t))
       /\ Separated(M, On("run", t), On("wait", t), Endings)
  /\ ~Has(M, RunsBeyond(n))
-----------------------------------------------------------------------------
\* Worker t has the position of the current "go" and the list of its game.
Current(t) == setUp[t] = [go |-> gos, list |-> setupStates]

SetUpBeforeSearch ==
  /\ Busy(Main) => setupStates # 0 /\ \A t \in 1..n : Current(t)
  /\ Asked => \/ Has(U, Op("begin"))
              \/ setupStates # 0
  /\ Asked => \A t \in 1..n :
       \/ Has(U, Posts(t, "setup"))
       \/ ~Has(U, Op("begin")) /\ ("setup" \in {job[t], jobFunc[t]} \/ Current(t))

\* A "go" begins after it has waited for the search before it, and counts once.
GoOrder ==
  /\ Barred(U, UciSteps \ On("wait", Main), Op("begin"))
  /\ Has(U, Op("begin")) => Asked /\ gos < commands
  /\ gos <= commands

GameAlive == pos # 0 /\ pos = IF states # 0 THEN states ELSE setupStates

\* Searches that have begun and not answered: at most one.
Starting == Asked /\ ~Has(U, Op("begin"))
Searching == \/ Posted(Main) /\ jobFunc[Main] = "search"
             \/ job[Main] = "search" /\ (M = <<>> \/ Has(M, Op("bestmove")))

Counted ==
  /\ Starting => Quiet
  /\ gos = Answers + IF Starting \/ Searching THEN 1 ELSE 0
  /\ \A t \in Pool : setUp[t].go <= gos

NetworkOrder == Polite => Answers = gos \/ Guarded(U, Op("network"), On("wait", Main))

\* The contract does not keep the answer back.
Free == Contract!MayAnswer

\* A search whose answer is kept back goes on, or lingers.
Held ==
  \/ Free
  \/ /\ ~stop /\ ~Has(M, Op("timeout"))
     /\ Guarded(M, Op("raise"), Op("linger"))
     /\ limits.moves => Guarded(M, Op("bestmove"), Op("linger"))
     /\ limits.ponder /\ "ponderhit" \notin told => ponder
-----------------------------------------------------------------------------
(* The programs: what their parts do, and in which order. *)

\* What is done for each thread from a to b is done for those and no others.
LEMMA WaitsDo ==
  ASSUME NEW a \in Nat, NEW b \in Nat, a <= b + 1
  PROVE  /\ \A S : (\A t \in a..b : Step("wait", t) \in S) => Waits(a, b) \in Seq(S)
         /\ \A A : Has(Waits(a, b), A) <=> \E t \in a..b : Step("wait", t) \in A
<1> DEFINE w == Waits(a, b)
           k == b - a + 1
<1>1. w = [i \in 1..k |-> Step("wait", a + i - 1)]
  BY DEF Waits, Each
<1>2. k \in Nat /\ \A i \in 1..k : a + i - 1 \in a..b
  OBVIOUS
<1>3. Len(w) = k
  BY <1>1, <1>2
<1>4. ASSUME NEW S, \A t \in a..b : Step("wait", t) \in S PROVE w \in Seq(S)
  BY <1>1, <1>2, <1>4, SeqDef
<1>5. ASSUME NEW A PROVE Has(w, A) <=> \E t \in a..b : Step("wait", t) \in A
  <2>1. ASSUME Has(w, A) PROVE \E t \in a..b : Step("wait", t) \in A
    BY <2>1, <1>1, <1>2, <1>3 DEF Has
  <2>2. ASSUME NEW t \in a..b, Step("wait", t) \in A PROVE Has(w, A)
    <3>1. t - a + 1 \in 1..k /\ a + (t - a + 1) - 1 = t
      OBVIOUS
    <3> QED BY <3>1, <2>2, <1>1, <1>3 DEF Has
  <2> QED BY <2>1, <2>2
<1> QED BY <1>4, <1>5

\* The same for jobs.
LEMMA RunsDo ==
  ASSUME NEW a \in Nat, NEW b \in Nat, a <= b + 1, NEW j
  PROVE  /\ \A S : (\A t \in a..b : Run(t, j) \in S) => Runs(a, b, j) \in Seq(S)
         /\ \A A : Has(Runs(a, b, j), A) <=> \E t \in a..b : Run(t, j) \in A
<1> DEFINE w == Runs(a, b, j)
           k == b - a + 1
<1>1. w = [i \in 1..k |-> Run(a + i - 1, j)]
  BY DEF Runs, Each
<1>2. k \in Nat /\ \A i \in 1..k : a + i - 1 \in a..b
  OBVIOUS
<1>3. Len(w) = k
  BY <1>1, <1>2
<1>4. ASSUME NEW S, \A t \in a..b : Run(t, j) \in S PROVE w \in Seq(S)
  BY <1>1, <1>2, <1>4, SeqDef
<1>5. ASSUME NEW A PROVE Has(w, A) <=> \E t \in a..b : Run(t, j) \in A
  <2>1. ASSUME Has(w, A) PROVE \E t \in a..b : Run(t, j) \in A
    BY <2>1, <1>1, <1>2, <1>3 DEF Has
  <2>2. ASSUME NEW t \in a..b, Run(t, j) \in A PROVE Has(w, A)
    <3>1. t - a + 1 \in 1..k /\ a + (t - a + 1) - 1 = t
      OBVIOUS
    <3> QED BY <3>1, <2>2, <1>1, <1>3 DEF Has
  <2> QED BY <2>1, <2>2
<1> QED BY <1>4, <1>5

\* The same for the end of threads.
LEMMA KillsDo ==
  ASSUME NEW m \in Nat
  PROVE  /\ \A S : (\A t \in 1..m : Step("kill", t) \in S) => Kills(m) \in Seq(S)
         /\ \A A : Has(Kills(m), A) <=> \E t \in 1..m : Step("kill", t) \in A
<1> DEFINE w == Kills(m)
           k == m - 1 + 1
<1>1. w = [i \in 1..k |-> Step("kill", 1 + i - 1)]
  BY DEF Kills, Each
<1>2. k \in Nat /\ \A i \in 1..k : 1 + i - 1 \in 1..m
  OBVIOUS
<1>3. Len(w) = k
  BY <1>1, <1>2
<1>4. ASSUME NEW S, \A t \in 1..m : Step("kill", t) \in S PROVE w \in Seq(S)
  BY <1>1, <1>2, <1>4, SeqDef
<1>5. ASSUME NEW A PROVE Has(w, A) <=> \E t \in 1..m : Step("kill", t) \in A
  <2>1. ASSUME Has(w, A) PROVE \E t \in 1..m : Step("kill", t) \in A
    BY <2>1, <1>1, <1>2, <1>3 DEF Has
  <2>2. ASSUME NEW t \in 1..m, Step("kill", t) \in A PROVE Has(w, A)
    <3>1. t - 1 + 1 \in 1..k /\ 1 + (t - 1 + 1) - 1 = t
      OBVIOUS
    <3> QED BY <3>1, <2>2, <1>1, <1>3 DEF Has
  <2> QED BY <2>1, <2>2
<1> QED BY <1>4, <1>5

\* The same for new threads.
LEMMA MakesDo ==
  ASSUME NEW m \in Nat
  PROVE  /\ \A S : (\A t \in 1..m : Step("make", t) \in S) => Makes(m) \in Seq(S)
         /\ \A A : Has(Makes(m), A) <=> \E t \in 1..m : Step("make", t) \in A
<1> DEFINE w == Makes(m)
           k == m - 1 + 1
<1>1. w = [i \in 1..k |-> Step("make", 1 + i - 1)]
  BY DEF Makes, Each
<1>2. k \in Nat /\ \A i \in 1..k : 1 + i - 1 \in 1..m
  OBVIOUS
<1>3. Len(w) = k
  BY <1>1, <1>2
<1>4. ASSUME NEW S, \A t \in 1..m : Step("make", t) \in S PROVE w \in Seq(S)
  BY <1>1, <1>2, <1>4, SeqDef
<1>5. ASSUME NEW A PROVE Has(w, A) <=> \E t \in 1..m : Step("make", t) \in A
  <2>1. ASSUME Has(w, A) PROVE \E t \in 1..m : Step("make", t) \in A
    BY <2>1, <1>1, <1>2, <1>3 DEF Has
  <2>2. ASSUME NEW t \in 1..m, Step("make", t) \in A PROVE Has(w, A)
    <3>1. t - 1 + 1 \in 1..k /\ 1 + (t - 1 + 1) - 1 = t
      OBVIOUS
    <3> QED BY <3>1, <2>2, <1>1, <1>3 DEF Has
  <2> QED BY <2>1, <2>2
<1> QED BY <1>4, <1>5

\* A pool of m threads.
LEMMA PoolRange ==
  ASSUME NEW m \in Pool
  PROVE  /\ m \in Nat /\ 1 <= m /\ 1..m \subseteq Pool /\ Main \in 1..m /\ Main \in Pool
         /\ UCI \notin Pool /\ UCI # Main
BY PoolAssumption DEF Pool, Main, UCI

\* Steps have the fields they are written down with.
LEMMA StepFields ==
  ASSUME NEW t \in Pool
  PROVE  /\ \A o \in UciOps : Step(o, t) \in UciSteps
         /\ \A o \in UciOps \cup MainOps : /\ Step(o, t) \in Steps
                                           /\ Step(o, t).op = o /\ Step(o, t).th = t
                                           /\ Step(o, t).job = "none"
         /\ \A j \in Jobs : /\ Run(t, j) \in UciSteps /\ Run(t, j) \in Steps
                            /\ Run(t, j).op = "run" /\ Run(t, j).th = t /\ Run(t, j).job = j
         /\ Main \in Pool
BY PoolAssumption DEF Step, Run, Steps, UciSteps, UciOps, MainOps, Jobs, Pool, Main

\* What waits and gives short jobs, and replaces the network.
Chores == {s \in UciSteps : s.op \in {"wait", "network"} \/ (s.op = "run" /\ s.job \in ShortJobs)}

\* A part that awaits the short jobs it posts.
Tidy(H) == H \in Seq(UciSteps) /\ \A t \in Pool : Awaited(H, ShortRuns(t), On("wait", t))

\* Parts that await their jobs compose to programs that do.
LEMMA TidyParts ==
  ASSUME NEW p, Tidy(p), NEW q, Tidy(q)
  PROVE  Tidy(p \o q)
<1>1. p \o q \in Seq(UciSteps)
  BY ConcatProperties DEF Tidy
<1>2. ASSUME NEW t \in Pool PROVE Awaited(p \o q, ShortRuns(t), On("wait", t))
  BY Composed DEF Tidy
<1> QED BY <1>1, <1>2 DEF Tidy

\* One round of a short job over the threads a to b is a chore that is awaited.
LEMMA Round ==
  ASSUME NEW m \in Pool, NEW j \in ShortJobs
  PROVE  /\ Runs(1, m, j) \o Waits(1, m) \in Seq(Chores)
         /\ Tidy(Runs(1, m, j) \o Waits(1, m))
         /\ \A A : Has(Runs(1, m, j) \o Waits(1, m), A) <=>
                     \E t \in 1..m : Run(t, j) \in A \/ Step("wait", t) \in A
<1> DEFINE r == Runs(1, m, j)
           w == Waits(1, m)
<1>1. 1 \in Nat /\ m \in Nat /\ 1 <= m + 1 /\ 1..m \subseteq Pool /\ j \in Jobs
  BY PoolAssumption DEF Pool, ShortJobs, Jobs
<1>2. \A t \in 1..m : /\ Run(t, j) \in Chores /\ Run(t, j) \in UciSteps
                      /\ Step("wait", t) \in Chores /\ Step("wait", t) \in UciSteps
                      /\ Step("wait", t) \in On("wait", t)
                      /\ \A u \in Pool : /\ Step("wait", t) \notin ShortRuns(u)
                                         /\ Run(t, j) \in ShortRuns(u) => u = t
  BY <1>1, StepFields DEF Chores, On, ShortRuns, UciOps
<1>3. /\ r \in Seq(Chores) /\ r \in Seq(UciSteps)
      /\ \A A : Has(r, A) <=> \E t \in 1..m : Run(t, j) \in A
  BY <1>1, <1>2, RunsDo
<1>4. /\ w \in Seq(Chores) /\ w \in Seq(UciSteps)
      /\ \A A : Has(w, A) <=> \E t \in 1..m : Step("wait", t) \in A
  BY <1>1, <1>2, WaitsDo
<1> HIDE DEF r, w
<1>8. r \in Seq(UciSteps) /\ w \in Seq(UciSteps)
  BY <1>3, <1>4
<1>5. r \o w \in Seq(Chores) /\ r \o w \in Seq(UciSteps)
  BY <1>3, <1>4, ConcatProperties
<1>6. ASSUME NEW t \in Pool PROVE Awaited(r \o w, ShortRuns(t), On("wait", t))
  <2>1. Awaited(w, ShortRuns(t), On("wait", t))
    BY <1>2, <1>4, Absent
  <2>2. CASE t \in 1..m
    <3>1. Step("wait", t) \in On("wait", t)
      BY <1>2, <2>2
    <3>2. Has(w, On("wait", t)) <=> \E u \in 1..m : Step("wait", u) \in On("wait", t)
      BY <1>4
    <3>3. Has(w, On("wait", t))
      BY <3>1, <3>2, <2>2
    <3> QED BY <3>3, <2>1, <1>8, Composed
  <2>3. CASE t \notin 1..m
    <3>0. ~Has(r, ShortRuns(t))
      BY <1>2, <1>3, <2>3
    <3>1. Awaited(r, ShortRuns(t), On("wait", t))
      BY <3>0, Absent
    <3> QED BY <3>1, <2>1, <1>8, Composed
  <2> QED BY <2>2, <2>3
<1>7. ASSUME NEW A PROVE Has(r \o w, A) <=> \E t \in 1..m : Run(t, j) \in A \/ Step("wait", t) \in A
  BY <1>3, <1>4, Composed
<1> QED BY <1>5, <1>6, <1>7 DEF Tidy, r, w

\* What the UCI thread has to do when it starts to execute a command, with k
\* threads: the order it keeps is the one the invariant needs.
Program(H, k) ==
  /\ H \in Seq(UciSteps)
  /\ \A t \in 1..k : Guarded(H, Op("resize") \cup On("make", t), On("kill", t) \cup On("join", t))
  /\ \A m \in Pool : Has(H, On("resize", m)) => ~Has(H, MakesBeyond(m))
  /\ Guarded(H, MakesBeyond(k), Op("resize"))
  /\ \A t \in Pool : Barred(H, On("make", t), Op("resize") \cup On("make", t))
  /\ Guarded(H, NeedQuiet, On("wait", Main))
  /\ \A t \in Pool : Awaited(H, ShortRuns(t), On("wait", t))
  /\ Barred(H, UciSteps \ On("wait", Main), Op("begin"))
  /\ \A t \in Pool : Has(H, Posts(t, "search")) => t = Main /\ Has(H, Op("begin"))
  /\ Has(H, Op("begin")) =>
       /\ Has(H, Posts(Main, "search")) /\ Barred(H, Posts(Main, "search"), UciSteps)
       /\ ~Has(H, Changes)
       /\ \A t \in 1..k : Has(H, Posts(t, "setup"))

\* In the UCI loop, the first main thread is only ended to be made anew.
Renewing(H) == Awaited(H, On("kill", Main), On("make", Main))

Gated(H) == Guarded(H, Op("network"), On("wait", Main))

\* A command that first waits for the search, and then only gives short jobs and
\* waits for them.
LEMMA ChoreProgram ==
  ASSUME NEW k \in Pool, NEW H \in Seq(Chores), Tidy(H), H # <<>>, Head(H) = Step("wait", Main)
  PROVE  Program(H, k) /\ Renewing(H) /\ Gated(H)
<1>1. /\ Head(H) \in On("wait", Main) /\ Head(H) \notin NeedQuiet /\ Head(H) \notin Op("network")
      /\ H \in Seq(UciSteps)
  BY StepFields DEF On, NeedQuiet, Op, UciOps, Tidy
<1>2. Guarded(H, NeedQuiet, On("wait", Main)) /\ Gated(H)
  BY <1>1, FirstStep DEF Gated
<1>3. /\ ~Has(H, Op("begin")) /\ ~Has(H, On("kill", Main))
      /\ \A t \in Pool : /\ ~Has(H, Op("resize") \cup On("make", t)) /\ ~Has(H, On("make", t))
                         /\ ~Has(H, On("resize", t)) /\ ~Has(H, MakesBeyond(t))
                         /\ ~Has(H, Posts(t, "search"))
  <2>1. \A c \in Chores :
          /\ c \notin Op("begin") /\ c \notin On("kill", Main)
          /\ \A t \in Pool : /\ c \notin Op("resize") \cup On("make", t) /\ c \notin On("make", t)
                             /\ c \notin On("resize", t) /\ c \notin MakesBeyond(t)
                             /\ c \notin Posts(t, "search")
    BY DEF Chores, Op, On, MakesBeyond, Posts, ShortJobs
  <2> QED BY <2>1, Within
<1>4. ~Has(H, MakesBeyond(k)) /\ 1..k \subseteq Pool
  BY <1>3, PoolRange
<1>5. /\ Guarded(H, MakesBeyond(k), Op("resize"))
      /\ Barred(H, UciSteps \ On("wait", Main), Op("begin")) /\ Renewing(H)
  BY <1>3, <1>4, Absent DEF Renewing
<1>6. ASSUME NEW t \in Pool
      PROVE  /\ Guarded(H, Op("resize") \cup On("make", t), On("kill", t) \cup On("join", t))
             /\ Barred(H, On("make", t), Op("resize") \cup On("make", t))
  BY <1>3, Absent
<1> QED BY <1>1, <1>2, <1>3, <1>4, <1>5, <1>6 DEF Program, Tidy

\* The parts that the commands are made of.
LEMMA ChoreParts ==
  ASSUME NEW m \in Pool
  PROVE  /\ <<Step("wait", Main)>> \in Seq(Chores) /\ Tidy(<<Step("wait", Main)>>)
         /\ Clear(m) \in Seq(Chores) /\ Tidy(Clear(m))
         /\ ClearTT(m) \in Seq(Chores) /\ Tidy(ClearTT(m))
         /\ Waits(2, m) \in Seq(Chores) /\ Tidy(Waits(2, m))
<1>1. \A t \in Pool : /\ Step("wait", t) \in Chores /\ Step("wait", t) \in UciSteps
                      /\ \A u \in Pool : Step("wait", t) \notin ShortRuns(u)
  BY StepFields DEF Chores, ShortRuns, UciOps
<1>2. <<Step("wait", Main)>> \in Seq(Chores) /\ Tidy(<<Step("wait", Main)>>)
  <2>1. <<Step("wait", Main)>> \in Seq(Chores)
    BY <1>1, PoolRange
  <2>2. <<Step("wait", Main)>> \in Seq(UciSteps)
    BY <1>1, PoolRange
  <2> QED BY <1>1, <2>1, <2>2, PoolRange, Single DEF Tidy
<1>3. Clear(m) \in Seq(Chores) /\ Tidy(Clear(m))
  BY Round DEF Clear, ShortJobs
<1>4. ClearTT(m) \in Seq(Chores) /\ Tidy(ClearTT(m))
  BY Round DEF ClearTT, ShortJobs
<1>5. Waits(2, m) \in Seq(Chores) /\ Tidy(Waits(2, m))
  <2>1. 2 \in Nat /\ m \in Nat /\ 2 <= m + 1 /\ 2..m \subseteq Pool
    BY PoolAssumption DEF Pool
  <2>2. /\ Waits(2, m) \in Seq(Chores) /\ Waits(2, m) \in Seq(UciSteps)
        /\ \A A : Has(Waits(2, m), A) <=> \E t \in 2..m : Step("wait", t) \in A
    BY <1>1, <2>1, WaitsDo
  <2>3. \A u \in Pool : ~Has(Waits(2, m), ShortRuns(u))
    BY <1>1, <2>1, <2>2
  <2> QED BY <2>2, <2>3, Absent DEF Tidy
<1> QED BY <1>2, <1>3, <1>4, <1>5

\* Chores compose to chores, and begin where the first begins.
LEMMA MoreChores ==
  ASSUME NEW p \in Seq(Chores), Tidy(p), p # <<>>, NEW q \in Seq(Chores), Tidy(q)
  PROVE  p \o q \in Seq(Chores) /\ Tidy(p \o q) /\ p \o q # <<>> /\ Head(p \o q) = Head(p)
BY ConcatProperties, TidyParts, HeadJoined

\* ucinewgame and the options that leave the threads alone.
LEMMA ChoreCommands ==
  ASSUME NEW k \in Pool, NEW H \in {SearchClear(k), Hash(k), ClearHash(k), EvalFile(k)}
  PROVE  Program(H, k) /\ Renewing(H) /\ Gated(H)
<1> DEFINE w == <<Step("wait", Main)>>
           net == Step("network", Main)
<1>1. w \in Seq(Chores) /\ Tidy(w) /\ w # <<>> /\ Head(w) = Step("wait", Main)
  BY ChoreParts
<1>2. Step("wait", Main) \in Chores /\ net \in Chores
  BY StepFields, PoolRange DEF Chores, UciOps
<1>3. <<Step("wait", Main), Step("wait", Main)>> = w \o w
  BY <1>2
<1>4. <<Step("wait", Main), net>> = w \o <<net>>
  BY <1>2
<1>5. <<net>> \in Seq(Chores) /\ Tidy(<<net>>)
  <2>1. <<net>> \in Seq(Chores)
    BY <1>2
  <2>2. <<net>> \in Seq(UciSteps)
    BY <1>2 DEF Chores
  <2>3. \A t \in Pool : net \notin ShortRuns(t)
    BY StepFields, PoolRange DEF ShortRuns, UciOps
  <2> QED BY <2>1, <2>2, <2>3, Single DEF Tidy
<1>6. Clear(k) \in Seq(Chores) /\ Tidy(Clear(k)) /\ ClearTT(k) \in Seq(Chores) /\ Tidy(ClearTT(k))
  BY ChoreParts
<1> HIDE DEF w, net
<1>7. CASE H = SearchClear(k)
  <2>1. H = (w \o ClearTT(k)) \o Clear(k)
    BY <1>7 DEF SearchClear, w
  <2> DEFINE p == w \o ClearTT(k)
  <2>2. p \in Seq(Chores) /\ Tidy(p) /\ p # <<>> /\ Head(p) = Head(w)
    BY <1>1, <1>6, MoreChores
  <2> HIDE DEF p
  <2>3. H = p \o Clear(k)
    BY <2>1 DEF p
  <2>4. H \in Seq(Chores) /\ Tidy(H) /\ H # <<>> /\ Head(H) = Head(p)
    BY <1>6, <2>2, <2>3, MoreChores
  <2> QED BY <1>1, <2>2, <2>4, ChoreProgram
<1>8. CASE H = Hash(k)
  <2>1. w \o w \in Seq(Chores) /\ Tidy(w \o w) /\ w \o w # <<>> /\ Head(w \o w) = Head(w)
    BY <1>1, MoreChores
  <2>2. H = (w \o w) \o ClearTT(k)
    BY <1>3, <1>8 DEF Hash
  <2> DEFINE p == w \o w
  <2> HIDE DEF p
  <2>3. H \in Seq(Chores) /\ Tidy(H) /\ H # <<>> /\ Head(H) = Head(p)
    BY <1>6, <2>1, <2>2, MoreChores DEF p
  <2> QED BY <1>1, <2>1, <2>3, ChoreProgram DEF p
<1>9. CASE H = ClearHash(k)
  <2>1. H = w \o SearchClear(k)
    BY <1>9 DEF ClearHash, w
  <2>2. SearchClear(k) = (w \o ClearTT(k)) \o Clear(k)
    BY DEF SearchClear, w
  <2> DEFINE p == w \o ClearTT(k)
  <2>3. p \in Seq(Chores) /\ Tidy(p) /\ p # <<>>
    BY <1>1, <1>6, MoreChores
  <2> HIDE DEF p
  <2>4. SearchClear(k) \in Seq(Chores) /\ Tidy(SearchClear(k))
    BY <1>6, <2>2, <2>3, MoreChores DEF p
  <2>5. H \in Seq(Chores) /\ Tidy(H) /\ H # <<>> /\ Head(H) = Head(w)
    BY <1>1, <2>1, <2>4, MoreChores
  <2> QED BY <1>1, <2>5, ChoreProgram
<1>10. CASE H = EvalFile(k)
  <2>1. H = (w \o <<net>>) \o Clear(k)
    BY <1>4, <1>10 DEF EvalFile, net
  <2> DEFINE p == w \o <<net>>
  <2>2. p \in Seq(Chores) /\ Tidy(p) /\ p # <<>> /\ Head(p) = Head(w)
    BY <1>1, <1>5, MoreChores
  <2> HIDE DEF p
  <2>3. H \in Seq(Chores) /\ Tidy(H) /\ H # <<>> /\ Head(H) = Head(p)
    BY <1>6, <2>1, <2>2, MoreChores DEF p
  <2> QED BY <1>1, <2>2, <2>3, ChoreProgram
<1> QED BY <1>7, <1>8, <1>9, <1>10

\* The pool grows from nothing to m threads.
LEMMA GrowDoes ==
  ASSUME NEW m \in Pool
  PROVE  /\ Tidy(Grow(m)) /\ ~Has(Grow(m), MakesBeyond(m)) /\ Has(Grow(m), On("make", Main))
         /\ ~Has(Grow(m), Op("begin")) /\ ~Has(Grow(m), Op("resize")) /\ ~Has(Grow(m), Op("kill"))
         /\ \A t \in Pool : /\ Barred(Grow(m), On("make", t), Op("resize") \cup On("make", t))
                            /\ ~Has(Grow(m), Posts(t, "search"))
<1> DEFINE w == <<Step("wait", Main)>>
           mk == Makes(m)
           ww == <<Step("wait", Main), Step("wait", Main)>>
           p == Clear(m)
           q == ClearTT(m)
<1>1. Grow(m) = ((mk \o p) \o ww) \o q
  BY DEF Grow, Makes
<1>2. ww \in Seq(Chores) /\ Tidy(ww)
  <2>1. w \in Seq(Chores) /\ Tidy(w) /\ w # <<>>
    BY ChoreParts
  <2>2. Step("wait", Main) \in Chores
    BY StepFields, PoolRange DEF Chores, UciOps
  <2>3. ww = w \o w
    BY <2>2
  <2> HIDE DEF ww, w
  <2> QED BY <2>1, <2>3, MoreChores
<1>3. p \in Seq(Chores) /\ Tidy(p) /\ q \in Seq(Chores) /\ Tidy(q)
  BY ChoreParts
<1>4. /\ 1..m \subseteq Pool /\ m \in Nat /\ Main \in 1..m /\ Main \in Pool
  BY PoolRange
<1>5. \A t \in 1..m : /\ Step("make", t) \in UciSteps /\ Step("make", t) \in Steps
                      /\ Step("make", t).op = "make" /\ Step("make", t).th = t
  BY <1>4, StepFields DEF UciOps
<1>6. mk \in Seq(UciSteps) /\ \A A : Has(mk, A) <=> \E t \in 1..m : Step("make", t) \in A
  BY <1>4, <1>5, MakesDo
<1>7. /\ ~Has(mk, MakesBeyond(m)) /\ Has(mk, On("make", Main))
      /\ ~Has(mk, Op("begin")) /\ ~Has(mk, Op("resize")) /\ ~Has(mk, Op("kill"))
      /\ \A t \in Pool : ~Has(mk, Posts(t, "search")) /\ ~Has(mk, ShortRuns(t))
  <2>1. \A t \in 1..m :
          /\ Step("make", t) \notin MakesBeyond(m)
          /\ Step("make", t) \notin Op("begin") /\ Step("make", t) \notin Op("resize")
          /\ Step("make", t) \notin Op("kill")
          /\ \A u \in Pool : Step("make", t) \notin Posts(u, "search") \cup ShortRuns(u)
    BY <1>4, <1>5 DEF MakesBeyond, Op, Posts, ShortRuns
  <2>2. Step("make", Main) \in On("make", Main)
    BY <1>4, <1>5 DEF On
  <2>3. ~Has(mk, MakesBeyond(m)) /\ ~Has(mk, Op("begin")) /\ ~Has(mk, Op("resize")) /\ ~Has(mk, Op("kill"))
    BY <2>1, <1>6
  <2>4. ASSUME NEW u \in Pool PROVE ~Has(mk, Posts(u, "search")) /\ ~Has(mk, ShortRuns(u))
    BY <2>1, <1>6
  <2>5. Has(mk, On("make", Main))
    BY <2>2, <1>4, <1>6
  <2> QED BY <2>3, <2>4, <2>5
<1>8. Tidy(mk)
  BY <1>6, <1>7, Absent DEF Tidy
<1>9. ASSUME NEW t \in Pool PROVE Barred(mk, On("make", t), Op("resize") \cup On("make", t))
  <2>1. mk = [i \in 1..m |-> Step("make", i)]
    BY <1>4 DEF Makes, Each
  <2>2. Len(mk) = m /\ \A i \in 1..m : mk[i] = Step("make", i)
    BY <2>1, <1>4
  <2>3. \A i \in 1..m : mk[i].op = "make" /\ mk[i].th = i
    BY <2>2, <1>5
  <2> HIDE DEF mk
  <2>4. ASSUME NEW i \in 1..m, NEW k \in 1..m, i < k, mk[i] \in On("make", t)
        PROVE  mk[k] \notin Op("resize") \cup On("make", t)
    BY <2>3, <2>4 DEF Op, On
  <2> QED BY <2>2, <2>4 DEF Barred
<1> HIDE DEF mk, ww, p, q
<1> DEFINE r == mk \o p
           s == r \o ww
<1>10. \A c \in Chores :
         /\ c \notin MakesBeyond(m) /\ c \notin Op("begin") /\ c \notin Op("resize") /\ c \notin Op("kill")
         /\ \A t \in Pool : /\ c \notin Posts(t, "search") /\ c \notin On("make", t)
                            /\ c \notin Op("resize") \cup On("make", t)
  BY DEF Chores, MakesBeyond, Op, On, Posts, ShortJobs
<1>11. \A x \in {p, ww, q} :
         /\ x \in Seq(UciSteps)
         /\ ~Has(x, MakesBeyond(m)) /\ ~Has(x, Op("begin")) /\ ~Has(x, Op("resize")) /\ ~Has(x, Op("kill"))
         /\ \A t \in Pool : /\ ~Has(x, Posts(t, "search")) /\ ~Has(x, On("make", t))
                            /\ ~Has(x, Op("resize") \cup On("make", t))
  <2>1. \A x \in {p, ww, q} : x \in Seq(Chores) /\ x \in Seq(UciSteps)
    BY <1>2, <1>3 DEF Tidy
  <2> QED BY <2>1, <1>10, Within
<1>12. r \in Seq(UciSteps) /\ s \in Seq(UciSteps)
  BY <1>6, <1>11, ConcatProperties
<1>13. ASSUME NEW A PROVE Has(Grow(m), A) <=> Has(mk, A) \/ Has(p, A) \/ Has(ww, A) \/ Has(q, A)
  <2>1. Has(r, A) <=> Has(mk, A) \/ Has(p, A)
    BY <1>6, <1>11, Composed
  <2> HIDE DEF r
  <2>2. Has(s, A) <=> Has(r, A) \/ Has(ww, A)
    BY <1>12, <1>11, Composed
  <2> HIDE DEF s
  <2>3. Grow(m) = s \o q
    BY <1>1 DEF s, r
  <2>4. Has(Grow(m), A) <=> Has(s, A) \/ Has(q, A)
    BY <2>3, <1>12, <1>11, Composed
  <2> QED BY <2>1, <2>2, <2>4
<1>14. Tidy(Grow(m))
  <2>1. Tidy(r)
    BY <1>8, <1>3, TidyParts
  <2> HIDE DEF r
  <2>2. Tidy(s)
    BY <2>1, <1>2, TidyParts
  <2> HIDE DEF s
  <2>3. Grow(m) = s \o q
    BY <1>1 DEF s, r
  <2> QED BY <2>2, <2>3, <1>3, TidyParts
<1>15. ASSUME NEW t \in Pool PROVE Barred(Grow(m), On("make", t), Op("resize") \cup On("make", t))
  <2> DEFINE A == On("make", t)
             B == Op("resize") \cup On("make", t)
  <2>1. ~Has(p, B) /\ ~Has(ww, B) /\ ~Has(q, B) /\ Barred(mk, A, B)
    BY <1>9, <1>11
  <2> HIDE DEF A, B
  <2>2. Barred(p, A, B) /\ Barred(ww, A, B) /\ Barred(q, A, B)
    BY <2>1, Absent
  <2>3. Barred(r, A, B)
    BY <2>1, <2>2, <1>6, <1>11, Composed
  <2> HIDE DEF r
  <2>4. Barred(s, A, B)
    BY <2>1, <2>2, <2>3, <1>12, <1>11, Composed
  <2> HIDE DEF s
  <2>5. Grow(m) = s \o q
    BY <1>1 DEF s, r
  <2>6. Barred(Grow(m), A, B)
    BY <2>1, <2>2, <2>4, <2>5, <1>12, <1>11, Composed
  <2> QED BY <2>6 DEF A, B
<1> QED BY <1>7, <1>11, <1>13, <1>14, <1>15

\* The end of the k threads there are.
LEMMA KillsAre ==
  ASSUME NEW k \in Pool
  PROVE  /\ Tidy(Kills(k)) /\ \A t \in 1..k : Has(Kills(k), On("kill", t))
         /\ \A A : (\A s \in Op("kill") : s \notin A) => ~Has(Kills(k), A)
<1>1. 1..k \subseteq Pool /\ k \in Nat
  BY PoolRange
<1>2. \A t \in 1..k : /\ Step("kill", t) \in UciSteps /\ Step("kill", t) \in Op("kill")
                      /\ Step("kill", t) \in On("kill", t)
  BY <1>1, StepFields DEF UciOps, Op, On
<1>3. Kills(k) \in Seq(UciSteps) /\ \A A : Has(Kills(k), A) <=> \E t \in 1..k : Step("kill", t) \in A
  BY <1>1, <1>2, KillsDo
<1>4. \A A : (\A s \in Op("kill") : s \notin A) => ~Has(Kills(k), A)
  BY <1>2, <1>3
<1>5. \A t \in Pool : ~Has(Kills(k), ShortRuns(t))
  <2>1. \A s \in Op("kill") : \A t \in Pool : s \notin ShortRuns(t)
    BY DEF Op, ShortRuns
  <2> QED BY <2>1, <1>4
<1>6. ASSUME NEW t \in 1..k PROVE Has(Kills(k), On("kill", t))
  <2>1. Has(Kills(k), On("kill", t)) <=> \E u \in 1..k : Step("kill", u) \in On("kill", t)
    BY <1>3
  <2> QED BY <2>1, <1>2
<1> QED BY <1>3, <1>4, <1>5, <1>6, Absent DEF Tidy

\* The part of Resize before the new threads: P, the end of the k threads there
\* are, and a pool of m.
Shrink(P, k, m) == (P \o Kills(k)) \o <<Step("resize", m)>>

\* The threads are ended before the pool is resized.
LEMMA ShrinkDoes ==
  ASSUME NEW k \in Pool, NEW m \in Pool,
         NEW P \in Seq(Chores), Tidy(P), P # <<>>
  PROVE  /\ Tidy(Shrink(P, k, m)) /\ Shrink(P, k, m) # <<>> /\ Head(Shrink(P, k, m)) = Head(P)
         /\ \A t \in 1..k : Has(Shrink(P, k, m), On("kill", t) \cup On("join", t))
         /\ \A t \in 1..k : Guarded(Shrink(P, k, m), Op("resize") \cup On("make", t), On("kill", t) \cup On("join", t))
         /\ Has(Shrink(P, k, m), Op("resize")) /\ \A t \in Pool : t # m => ~Has(Shrink(P, k, m), On("resize", t))
         /\ ~Has(Shrink(P, k, m), Op("make")) /\ ~Has(Shrink(P, k, m), Op("begin")) /\ \A t \in Pool : ~Has(Shrink(P, k, m), Posts(t, "search"))
<1> DEFINE K == Kills(k)
           X == P \o K
           rs == Step("resize", m)
<1>1. /\ Tidy(K) /\ \A t \in 1..k : Has(K, On("kill", t))
      /\ \A A : (\A s \in Op("kill") : s \notin A) => ~Has(K, A)
  BY KillsAre
<1>2. /\ rs \in UciSteps /\ rs \in Op("resize")
      /\ \A t \in Pool : t # m => rs \notin On("resize", t)
      /\ \A t \in Pool : rs \notin ShortRuns(t) /\ rs \notin Posts(t, "search")
      /\ rs \notin Op("make") /\ rs \notin Op("begin")
  BY StepFields DEF UciOps, Op, On, ShortRuns, Posts
<1>3. 1..k \subseteq Pool
  BY PoolRange
<1> HIDE DEF K, rs
<1>4. P \in Seq(UciSteps) /\ K \in Seq(UciSteps)
  BY <1>1 DEF Tidy
<1>5. X \in Seq(UciSteps) /\ Tidy(X) /\ X # <<>> /\ Head(X) = Head(P)
  BY <1>1, <1>4, ConcatProperties, TidyParts, HeadJoined
<1> DEFINE z == <<rs>>
<1>6. z \in Seq(UciSteps) /\ Tidy(z) /\ \A A : Has(z, A) <=> rs \in A
  <2>1. z \in Seq(UciSteps)
    BY <1>2
  <2> QED BY <2>1, <1>2, Single DEF Tidy
<1> HIDE DEF z
<1>7. \A s \in Op("kill") \cup Chores :
        /\ s \notin Op("resize") /\ s \notin Op("make") /\ s \notin Op("begin")
        /\ \A t \in Pool : /\ s \notin Posts(t, "search") /\ s \notin On("resize", t)
                           /\ s \notin Op("resize") \cup On("make", t)
  BY DEF Op, On, Chores, Posts, ShortJobs
<1>8. ASSUME NEW A, \A s \in Op("kill") \cup Chores : s \notin A PROVE ~Has(X, A)
  <2>0. (\A s \in Chores : s \notin A) /\ (\A s \in Op("kill") : s \notin A)
    BY <1>8
  <2>1. ~Has(P, A)
    BY <2>0, Within
  <2>2. ~Has(K, A)
    BY <2>0, <1>1
  <2> QED BY <2>1, <2>2, <1>4, Composed
<1>9. \A t \in 1..k : Has(X, On("kill", t))
  BY <1>1, <1>4, Composed
<1> HIDE DEF X
<1> DEFINE Y == X \o z
<1>11. \A A : Has(Y, A) <=> Has(X, A) \/ rs \in A
  BY <1>5, <1>6, Composed
<1>12. Tidy(Y) /\ Y # <<>> /\ Head(Y) = Head(P)
  <2>1. Tidy(Y)
    BY <1>5, <1>6, TidyParts
  <2> QED BY <2>1, <1>5, <1>6, HeadJoined
<1>13. ASSUME NEW t \in 1..k
       PROVE  /\ Has(Y, On("kill", t) \cup On("join", t))
              /\ Guarded(Y, Op("resize") \cup On("make", t), On("kill", t) \cup On("join", t))
  <2>1. Has(X, On("kill", t) \cup On("join", t))
    BY <1>9 DEF Has
  <2>2. ~Has(X, Op("resize") \cup On("make", t))
    BY <1>3, <1>7, <1>8
  <2>3. Guarded(X, Op("resize") \cup On("make", t), On("kill", t) \cup On("join", t))
    BY <2>2, Absent
  <2> QED BY <2>1, <2>3, <1>5, <1>6, Composed
<1>14. /\ Has(Y, Op("resize")) /\ ~Has(Y, Op("make")) /\ ~Has(Y, Op("begin"))
       /\ \A t \in Pool : ~Has(Y, Posts(t, "search")) /\ (t # m => ~Has(Y, On("resize", t)))
  <2> HIDE DEF Y
  <2> QED BY <1>2, <1>7, <1>8, <1>11
<1>15. Y = Shrink(P, k, m)
  BY DEF Shrink, X, K, rs, z
<1> HIDE DEF Y
<1> QED BY <1>12, <1>13, <1>14, <1>15

\* setoption of "Threads".
LEMMA ResizeProgram ==
  ASSUME NEW k \in Pool, NEW m \in Pool
  PROVE  /\ Program(Resize(k, m), k) /\ Renewing(Resize(k, m)) /\ Gated(Resize(k, m))
         /\ Resize(k, m) # <<>> /\ Head(Resize(k, m)) = Step("wait", Main)
         /\ ~Has(Resize(k, m), Op("begin"))
<1> DEFINE w == <<Step("wait", Main)>>
           P == (w \o Waits(2, k)) \o w
           Y == Shrink(P, k, m)
           G == Grow(m)
           H == Y \o G
<1>1. Resize(k, m) = H
  BY DEF Resize, Shrink, Kills
<1>2. w \in Seq(Chores) /\ Tidy(w) /\ w # <<>> /\ Head(w) = Step("wait", Main)
  BY ChoreParts
<1>3. Waits(2, k) \in Seq(Chores) /\ Tidy(Waits(2, k))
  BY ChoreParts
<1> HIDE DEF w
<1>4. P \in Seq(Chores) /\ Tidy(P) /\ P # <<>> /\ Head(P) = Step("wait", Main)
  <2> DEFINE p == w \o Waits(2, k)
  <2>1. p \in Seq(Chores) /\ Tidy(p) /\ p # <<>> /\ Head(p) = Head(w)
    BY <1>2, <1>3, MoreChores
  <2> HIDE DEF p
  <2>2. p \o w \in Seq(Chores) /\ Tidy(p \o w) /\ p \o w # <<>> /\ Head(p \o w) = Head(p)
    BY <1>2, <2>1, MoreChores
  <2> QED BY <1>2, <2>1, <2>2 DEF p
<1> HIDE DEF P
<1>5. /\ Tidy(Y) /\ Y # <<>> /\ Head(Y) = Step("wait", Main)
      /\ \A t \in 1..k : Has(Y, On("kill", t) \cup On("join", t))
      /\ \A t \in 1..k : Guarded(Y, Op("resize") \cup On("make", t), On("kill", t) \cup On("join", t))
      /\ Has(Y, Op("resize")) /\ \A t \in Pool : t # m => ~Has(Y, On("resize", t))
      /\ ~Has(Y, Op("make")) /\ ~Has(Y, Op("begin")) /\ \A t \in Pool : ~Has(Y, Posts(t, "search"))
  BY <1>4, ShrinkDoes
<1>6. /\ Tidy(G) /\ ~Has(G, MakesBeyond(m)) /\ Has(G, On("make", Main))
      /\ ~Has(G, Op("begin")) /\ ~Has(G, Op("resize")) /\ ~Has(G, Op("kill"))
      /\ \A t \in Pool : /\ Barred(G, On("make", t), Op("resize") \cup On("make", t))
                         /\ ~Has(G, Posts(t, "search"))
  BY GrowDoes
<1> HIDE DEF Y, G
<1>7. Y \in Seq(UciSteps) /\ G \in Seq(UciSteps) /\ H \in Seq(UciSteps)
  BY <1>5, <1>6, ConcatProperties DEF Tidy
<1>8. Tidy(H) /\ H # <<>> /\ Head(H) = Step("wait", Main)
  <2>1. Tidy(H)
    BY <1>5, <1>6, TidyParts
  <2> QED BY <1>5, <1>7, <2>1, HeadJoined
<1>9. \A A : Has(H, A) <=> Has(Y, A) \/ Has(G, A)
  BY <1>7, Composed
<1>10. \A t \in Pool : /\ ~Has(Y, On("make", t)) /\ ~Has(Y, MakesBeyond(t))
                       /\ ~Has(G, On("resize", t))
  BY <1>5, <1>6 DEF Has, On, Op, MakesBeyond
<1>11. \A t \in 1..k : Guarded(H, Op("resize") \cup On("make", t), On("kill", t) \cup On("join", t))
  BY <1>5, <1>7, Composed
<1>12. \A t \in Pool : Has(H, On("resize", t)) => ~Has(H, MakesBeyond(t))
  <2>1. ASSUME NEW t \in Pool, Has(H, On("resize", t)) PROVE t = m
    BY <2>1, <1>5, <1>9, <1>10
  <2> QED BY <2>1, <1>6, <1>9, <1>10
<1>13. Guarded(H, MakesBeyond(k), Op("resize"))
  <2>1. Guarded(Y, MakesBeyond(k), Op("resize"))
    BY <1>10, Absent
  <2> QED BY <2>1, <1>5, <1>7, Composed
<1>14. \A t \in Pool : Barred(H, On("make", t), Op("resize") \cup On("make", t))
  <2> TAKE t \in Pool
  <2>1. Barred(Y, On("make", t), Op("resize") \cup On("make", t))
    BY <1>10, Absent
  <2> QED BY <2>1, <1>6, <1>7, <1>10, Composed
<1>15. Guarded(H, NeedQuiet, On("wait", Main)) /\ Gated(H)
  <2>1. /\ Head(H) \in On("wait", Main) /\ Head(H) \notin NeedQuiet /\ Head(H) \notin Op("network")
    BY <1>8, StepFields, PoolRange DEF On, NeedQuiet, Op, UciOps
  <2> HIDE DEF H
  <2> QED BY <2>1, <1>7, <1>8, FirstStep DEF Gated
<1>16. /\ ~Has(H, Op("begin")) /\ Barred(H, UciSteps \ On("wait", Main), Op("begin"))
       /\ \A t \in Pool : ~Has(H, Posts(t, "search"))
  <2>1. ~Has(H, Op("begin")) /\ \A t \in Pool : ~Has(H, Posts(t, "search"))
    BY <1>5, <1>6, <1>9
  <2> QED BY <2>1, Absent
<1>17. Renewing(H)
  <2>1. ~Has(G, On("kill", Main))
    BY <1>6 DEF Has, On, Op
  <2>2. Awaited(G, On("kill", Main), On("make", Main))
    BY <2>1, Absent
  <2> QED BY <2>2, <1>6, <1>7, Composed DEF Renewing
<1> HIDE DEF H
<1>18. Program(H, k)
  BY <1>7, <1>8, <1>11, <1>12, <1>13, <1>14, <1>15, <1>16 DEF Program, Tidy
<1> QED BY <1>1, <1>8, <1>15, <1>16, <1>17, <1>18

\* setoption of "NumaPolicy": the same after a new network.
LEMMA NumaProgram ==
  ASSUME NEW k \in Pool
  PROVE  Program(NumaPolicy(k), k) /\ Renewing(NumaPolicy(k)) /\ Gated(NumaPolicy(k))
<1> DEFINE w == Step("wait", Main)
           net == Step("network", Main)
           R == Resize(k, k)
           T == Tail(R)
           N == <<net>> \o T
           H == <<w>> \o N
<1>1. /\ Program(R, k) /\ Renewing(R) /\ R # <<>> /\ Head(R) = w /\ ~Has(R, Op("begin"))
  BY ResizeProgram
<1>2. w \in UciSteps /\ net \in UciSteps
  BY StepFields, PoolRange DEF UciOps
<1>3. R \in Seq(UciSteps) /\ T \in Seq(UciSteps)
  BY <1>1, HeadTail DEF Program
<1>4. /\ w \in On("wait", Main)
      /\ \A x \in {w, net} : /\ x \notin Op("resize") /\ x \notin Op("begin")
                             /\ x \notin On("kill", Main)
                             /\ \A t \in Pool : /\ x \notin On("kill", t) \cup On("join", t)
                                                /\ x \notin Op("resize") \cup On("make", t)
                                                /\ x \notin On("make", t) /\ x \notin On("resize", t)
                                                /\ x \notin MakesBeyond(t) /\ x \notin ShortRuns(t)
                                                /\ x \notin Posts(t, "search")
      /\ w \notin NeedQuiet /\ w \notin Op("network")
  BY StepFields, PoolRange DEF On, NeedQuiet, Op, UciOps, MakesBeyond, ShortRuns, Posts
<1> HIDE DEF w, net, R
<1>5. /\ N \in Seq(UciSteps) /\ N # <<>> /\ Head(N) = net /\ Tail(N) = T
  BY <1>2, <1>3, Prefixed
<1> HIDE DEF N
<1>6. /\ H \in Seq(UciSteps) /\ H # <<>> /\ Head(H) = w /\ Tail(H) = N
  BY <1>2, <1>5, Prefixed
<1>7. NumaPolicy(k) = H
  <2>1. NumaPolicy(k) = <<w, net>> \o T
    BY DEF NumaPolicy, w, net, R
  <2> QED BY <2>1, <1>2, <1>3, Pair DEF N
<1> HIDE DEF H, T
<1>8. /\ \A A : Has(R, A) <=> Head(R) \in A \/ Has(T, A)
      /\ \A A, B : Guarded(R, A, B) <=> Head(R) \notin A /\ (Head(R) \in B \/ Guarded(T, A, B))
      /\ \A A, B : Awaited(R, A, B) => Awaited(T, A, B)
      /\ \A A, B : Barred(R, A, B) => Barred(T, A, B)
  BY <1>1, <1>3, FirstStep DEF T
<1>9. /\ \A A : Has(N, A) <=> net \in A \/ Has(T, A)
      /\ \A A, B : Guarded(N, A, B) <=> net \notin A /\ (net \in B \/ Guarded(T, A, B))
      /\ \A A, B : Awaited(N, A, B) <=> (net \in A => Has(T, B)) /\ Awaited(T, A, B)
      /\ \A A, B : Barred(N, A, B) <=> (net \in A => ~Has(T, B)) /\ Barred(T, A, B)
  BY <1>5, FirstStep
<1>10. /\ \A A : Has(H, A) <=> w \in A \/ Has(N, A)
       /\ \A A, B : Guarded(H, A, B) <=> w \notin A /\ (w \in B \/ Guarded(N, A, B))
       /\ \A A, B : Awaited(H, A, B) <=> (w \in A => Has(N, B)) /\ Awaited(N, A, B)
       /\ \A A, B : Barred(H, A, B) <=> (w \in A => ~Has(N, B)) /\ Barred(N, A, B)
  BY <1>6, FirstStep
<1>11. ASSUME NEW t \in 1..k
       PROVE  Guarded(H, Op("resize") \cup On("make", t), On("kill", t) \cup On("join", t))
  <2>1. t \in Pool
    BY PoolRange
  <2>2. Guarded(T, Op("resize") \cup On("make", t), On("kill", t) \cup On("join", t))
    BY <1>1, <1>4, <1>8, <2>1 DEF Program
  <2> QED BY <2>1, <2>2, <1>4, <1>9, <1>10
<1>12. ASSUME NEW t \in Pool
       PROVE  /\ Has(H, On("resize", t)) => ~Has(H, MakesBeyond(t))
              /\ Barred(H, On("make", t), Op("resize") \cup On("make", t))
              /\ Awaited(H, ShortRuns(t), On("wait", t))
              /\ ~Has(H, Posts(t, "search"))
  BY <1>1, <1>4, <1>8, <1>9, <1>10 DEF Program
<1>13. Guarded(H, MakesBeyond(k), Op("resize"))
  BY <1>1, <1>4, <1>8, <1>9, <1>10 DEF Program
<1>14. Guarded(H, NeedQuiet, On("wait", Main)) /\ Gated(H)
  BY <1>4, <1>10 DEF Gated
<1>15. ~Has(H, Op("begin"))
  <2>1. ~Has(T, Op("begin"))
    <3>1. Has(R, Op("begin")) <=> Head(R) \in Op("begin") \/ Has(T, Op("begin"))
      BY <1>8
    <3> QED BY <3>1, <1>1
  <2>2. ~Has(N, Op("begin"))
    BY <2>1, <1>4, <1>9
  <2> QED BY <2>2, <1>4, <1>10
<1>16. Barred(H, UciSteps \ On("wait", Main), Op("begin"))
  BY <1>15, Absent
<1>17. Renewing(H)
  BY <1>1, <1>4, <1>8, <1>9, <1>10 DEF Renewing
<1> QED BY <1>6, <1>7, <1>11, <1>12, <1>13, <1>14, <1>15, <1>16, <1>17 DEF Program

\* "quit": ~Engine waits for the search before it ends the threads.
LEMMA TearDownProgram ==
  ASSUME NEW k \in Pool
  PROVE  Program(TearDown(k), k) /\ Gated(TearDown(k)) /\ ~Has(TearDown(k), Op("begin"))
<1> DEFINE r == Step("restore", Main)
           w == Step("wait", Main)
           f == Step("free", Main)
           p == <<r, w>>
           q == <<f, w>>
           K == Kills(k)
           H == (p \o q) \o K
<1>1. r \in UciSteps /\ w \in UciSteps /\ f \in UciSteps
  BY StepFields, PoolRange DEF UciOps
<1>2. /\ w \in On("wait", Main) /\ r \notin NeedQuiet /\ w \notin NeedQuiet
      /\ \A x \in {r, w, f} : /\ x \notin Op("resize") /\ x \notin Op("begin") /\ x \notin Op("network")
                              /\ \A t \in Pool : /\ x \notin Op("resize") \cup On("make", t)
                                                 /\ x \notin On("make", t) /\ x \notin On("resize", t)
                                                 /\ x \notin MakesBeyond(t) /\ x \notin ShortRuns(t)
                                                 /\ x \notin Posts(t, "search")
  BY StepFields, PoolRange DEF On, NeedQuiet, Op, UciOps, MakesBeyond, ShortRuns, Posts
<1>3. TearDown(k) = <<r, w, f, w>> \o K
  BY DEF TearDown, Kills
<1>4. Tidy(K) /\ \A A : (\A s \in Op("kill") : s \notin A) => ~Has(K, A)
  BY KillsAre
<1> HIDE DEF r, w, f, K
<1>5. <<r, w, f, w>> = p \o q
  <2> DEFINE u == <<r, w, f, w>>
  <2>1. /\ p \in Seq(UciSteps) /\ q \in Seq(UciSteps) /\ u \in Seq(UciSteps)
        /\ Len(p) = 2 /\ Len(q) = 2 /\ Len(u) = 4 /\ p[1] = r /\ p[2] = w /\ q[1] = f /\ q[2] = w
        /\ u[1] = r /\ u[2] = w /\ u[3] = f /\ u[4] = w
    <3> HIDE DEF UciSteps
    <3>1. p \in Seq(UciSteps) /\ Len(p) = 2 /\ p[1] = r /\ p[2] = w
      BY <1>1
    <3>2. q \in Seq(UciSteps) /\ Len(q) = 2 /\ q[1] = f /\ q[2] = w
      BY <1>1
    <3>3. u \in Seq(UciSteps)
      BY <1>1, SMT
    <3>4. Len(u) = 4 /\ u[1] = r /\ u[2] = w /\ u[3] = f /\ u[4] = w
      OBVIOUS
    <3> QED BY <3>1, <3>2, <3>3, <3>4
  <2> HIDE DEF p, q, u
  <2>2. /\ p \o q \in Seq(UciSteps) /\ Len(p \o q) = Len(p) + Len(q)
        /\ \A i \in 1..(Len(p) + Len(q)) :
             (p \o q)[i] = IF i <= Len(p) THEN p[i] ELSE q[i - Len(p)]
    BY <2>1, ConcatProperties
  <2>3. /\ Len(p \o q) = 4 /\ (p \o q)[1] = r /\ (p \o q)[2] = w /\ (p \o q)[3] = f /\ (p \o q)[4] = w
    BY <2>1, <2>2
  <2>4. \A i \in 1..Len(u) : u[i] = (p \o q)[i]
    BY <2>1, <2>3
  <2>5. u = p \o q
    BY <2>1, <2>2, <2>3, <2>4, SeqEqual
  <2> QED BY <2>5 DEF u
<1>6. /\ p \in Seq(UciSteps) /\ q \in Seq(UciSteps) /\ K \in Seq(UciSteps)
      /\ \A A : Has(p, A) <=> r \in A \/ w \in A
      /\ \A A : Has(q, A) <=> f \in A \/ w \in A
  <2>3. p \in Seq(UciSteps) /\ q \in Seq(UciSteps) /\ K \in Seq(UciSteps)
    BY <1>1, <1>4 DEF Tidy
  <2>4. ASSUME NEW A PROVE Has(p, A) <=> r \in A \/ w \in A
    BY <1>1 DEF Has
  <2>5. ASSUME NEW A PROVE Has(q, A) <=> f \in A \/ w \in A
    BY <1>1 DEF Has
  <2> QED BY <2>3, <2>4, <2>5
<1>7. Guarded(p, NeedQuiet, On("wait", Main))
  BY <1>1, <1>2 DEF Guarded
<1>8. p \o q \in Seq(UciSteps) /\ \A A : Has(p \o q, A) <=> r \in A \/ w \in A \/ f \in A
  BY <1>6, Composed, ConcatProperties
<1>9. Has(p, On("wait", Main))
  BY <1>2, <1>6
<1> HIDE DEF p, q
<1>10. Guarded(p \o q, NeedQuiet, On("wait", Main))
  BY <1>6, <1>7, <1>9, Composed
<1>11. Has(p \o q, On("wait", Main))
  BY <1>2, <1>8
<1> DEFINE s == p \o q
<1>12. s \in Seq(UciSteps) /\ \A A : Has(s, A) <=> r \in A \/ w \in A \/ f \in A
  BY <1>8
<1>13. Guarded(s, NeedQuiet, On("wait", Main)) /\ Has(s, On("wait", Main))
  BY <1>10, <1>11
<1>14. TearDown(k) = H
  BY <1>3, <1>5
<1> HIDE DEF s
<1>15. s \o K \in Seq(UciSteps) /\ \A A : Has(s \o K, A) <=> Has(s, A) \/ Has(K, A)
  BY <1>6, <1>12, Composed, ConcatProperties
<1>16. Guarded(s \o K, NeedQuiet, On("wait", Main))
  BY <1>6, <1>12, <1>13, Composed
<1>17. H = s \o K
  BY DEF s
<1> HIDE DEF H
<1>18. H \in Seq(UciSteps) /\ \A A : Has(H, A) <=> r \in A \/ w \in A \/ f \in A \/ Has(K, A)
  BY <1>12, <1>15, <1>17
<1>19. \A x \in Op("kill") :
         /\ x \notin Op("resize") /\ x \notin Op("begin") /\ x \notin Op("network")
         /\ \A t \in Pool : /\ x \notin Op("resize") \cup On("make", t)
                            /\ x \notin On("make", t) /\ x \notin On("resize", t)
                            /\ x \notin MakesBeyond(t) /\ x \notin ShortRuns(t)
                            /\ x \notin Posts(t, "search")
  BY DEF On, Op, MakesBeyond, ShortRuns, Posts
<1>20. /\ ~Has(H, Op("begin")) /\ ~Has(H, Op("network"))
       /\ \A t \in Pool : /\ ~Has(H, Op("resize") \cup On("make", t))
                          /\ ~Has(H, On("make", t)) /\ ~Has(H, On("resize", t))
                          /\ ~Has(H, MakesBeyond(t)) /\ ~Has(H, ShortRuns(t))
                          /\ ~Has(H, Posts(t, "search"))
  <2>1. ASSUME NEW A, \A x \in Op("kill") \cup {r, w, f} : x \notin A PROVE ~Has(H, A)
    BY <2>1, <1>4, <1>18
  <2> QED BY <2>1, <1>2, <1>19
<1>21. /\ Gated(H) /\ Barred(H, UciSteps \ On("wait", Main), Op("begin"))
       /\ Guarded(H, MakesBeyond(k), Op("resize"))
  BY <1>20, Absent DEF Gated
<1>22. ASSUME NEW t \in Pool
       PROVE  /\ Guarded(H, Op("resize") \cup On("make", t), On("kill", t) \cup On("join", t))
              /\ Barred(H, On("make", t), Op("resize") \cup On("make", t))
              /\ Awaited(H, ShortRuns(t), On("wait", t))
  BY <1>20, Absent
<1>23. 1..k \subseteq Pool
  BY PoolRange
<1>24. Guarded(H, NeedQuiet, On("wait", Main))
  BY <1>16, <1>17
<1>25. Program(H, k)
  BY <1>18, <1>20, <1>21, <1>22, <1>23, <1>24 DEF Program
<1> QED BY <1>14, <1>20, <1>21, <1>25

\* "export_net".
LEMMA ExportProgram ==
  ASSUME NEW k \in Pool
  PROVE  /\ Program(<<Step("network", Main)>>, k) /\ Renewing(<<Step("network", Main)>>)
         /\ ~Has(<<Step("network", Main)>>, Op("begin"))
<1> DEFINE x == Step("network", Main)
           H == <<x>>
<1>1. /\ x \in UciSteps /\ x \notin NeedQuiet /\ x \notin Op("begin") /\ x \notin On("kill", Main)
      /\ x \notin MakesBeyond(k)
      /\ \A t \in Pool : /\ x \notin Op("resize") \cup On("make", t) /\ x \notin On("resize", t)
                         /\ x \notin ShortRuns(t) /\ x \notin Posts(t, "search")
  BY StepFields, PoolRange DEF On, NeedQuiet, Op, UciOps, MakesBeyond, ShortRuns, Posts
<1> HIDE DEF x
<1>2. H \in Seq(UciSteps) /\ 1..k \subseteq Pool
  BY <1>1, PoolRange
<1>3. /\ \A A : Has(H, A) <=> x \in A
      /\ \A A, B : /\ Guarded(H, A, B) <=> x \notin A
                   /\ Awaited(H, A, B) <=> x \notin A
                   /\ Barred(H, A, B)
  BY Single
<1> HIDE DEF H
<1>4. Program(H, k) /\ Renewing(H) /\ ~Has(H, Op("begin"))
  BY <1>1, <1>2, <1>3 DEF Program, Renewing
<1> QED BY <1>4 DEF H, x

\* "go": it waits for the search before, sets up all workers and waits for them.
LEMMA GoProgram ==
  ASSUME NEW k \in Pool, NEW l \in Limits
  PROVE  Program(Go(k, l), k) /\ Renewing(Go(k, l)) /\ Gated(Go(k, l))
<1> DEFINE w == Step("wait", Main)
           b == Begin(l)
           p == <<w, b>>
           R == Runs(1, k, "setup") \o Waits(1, k)
           x == Run(Main, "search")
           z == <<x>>
<1>1. w \in UciSteps /\ x \in UciSteps /\ "setup" \in ShortJobs /\ "setup" # "search"
  BY StepFields, PoolRange DEF UciOps, Jobs, ShortJobs
<1>2. b \in UciSteps /\ b.op = "begin"
  BY DEF Begin, UciSteps, UciOps, Steps
<1>3. /\ w \in On("wait", Main) /\ b \in Op("begin") /\ x \in Posts(Main, "search")
      /\ w \notin NeedQuiet /\ w \notin UciSteps \ On("wait", Main)
      /\ x \notin Op("begin") /\ x \notin MakesBeyond(k)
      /\ \A y \in {w, b} : y \notin MakesBeyond(k) /\ \A t \in Pool : y \notin Posts(t, "search")
      /\ \A y \in {w, b, x} : /\ y \notin On("kill", Main) /\ y \notin Op("network")
                              /\ y \notin Changes
                              /\ \A t \in Pool : /\ y \notin Op("resize") \cup On("make", t)
                                                 /\ y \notin On("resize", t) /\ y \notin ShortRuns(t)
                                                 /\ t # Main => y \notin Posts(t, "search")
  <2>1. /\ w.op = "wait" /\ w.th = Main /\ w \in Steps
        /\ x.op = "run" /\ x.th = Main /\ x.job = "search" /\ x \in Steps /\ b \in Steps
    BY <1>2, StepFields, PoolRange DEF UciOps, Jobs, UciSteps
  <2> HIDE DEF w, x, b
  <2>2. /\ w \in On("wait", Main) /\ b \in Op("begin") /\ x \in Posts(Main, "search")
        /\ w \notin NeedQuiet /\ w \notin UciSteps \ On("wait", Main)
        /\ x \notin Op("begin") /\ x \notin MakesBeyond(k)
    BY <1>1, <1>2, <2>1 DEF On, NeedQuiet, Op, MakesBeyond, Posts
  <2>3. \A y \in {w, b} : y \notin MakesBeyond(k) /\ \A t \in Pool : y \notin Posts(t, "search")
    BY <1>2, <2>1 DEF MakesBeyond, Posts
  <2>4. \A y \in {w, b, x} :
          /\ y \notin On("kill", Main) /\ y \notin Op("network")
          /\ y \notin Changes
    BY <1>2, <2>1 DEF On, Op, Changes
  <2>5. \A y \in {w, b, x} : \A t \in Pool :
          /\ y \notin Op("resize") \cup On("make", t)
          /\ y \notin On("resize", t) /\ y \notin ShortRuns(t)
          /\ t # Main => y \notin Posts(t, "search")
    BY <1>2, <2>1 DEF On, Op, ShortRuns, Posts, ShortJobs
  <2> QED BY <2>2, <2>3, <2>4, <2>5
<1>4. 1..k \subseteq Pool /\ Main \in 1..k /\ k \in Nat
  BY PoolRange
<1>5. /\ R \in Seq(UciSteps) /\ Tidy(R)
      /\ \A A : Has(R, A) <=> \E t \in 1..k : Run(t, "setup") \in A \/ Step("wait", t) \in A
  BY <1>1, Round DEF Tidy
<1>6. \A t \in 1..k : \A y \in {Run(t, "setup"), Step("wait", t)} :
         /\ y \notin MakesBeyond(k) /\ y \notin Op("begin") /\ y \notin On("kill", Main)
         /\ y \notin Op("network") /\ y \notin Changes
         /\ \A u \in Pool : /\ y \notin Op("resize") \cup On("make", u)
                            /\ y \notin On("resize", u) /\ y \notin Posts(u, "search")
  BY <1>1, <1>4, StepFields DEF On, Op, Changes, UciOps, MakesBeyond, Posts, Jobs
<1>7. \A t \in 1..k : Run(t, "setup") \in Posts(t, "setup")
  BY <1>4, StepFields DEF Posts, Jobs
<1> HIDE DEF w, b, x, R
<1>8. p \in Seq(UciSteps) /\ z \in Seq(UciSteps) /\ \A A : Has(p, A) <=> w \in A \/ b \in A
  <2>1. p \in Seq(UciSteps) /\ z \in Seq(UciSteps)
    BY <1>1, <1>2
  <2>2. ASSUME NEW A PROVE Has(p, A) <=> w \in A \/ b \in A
    BY <1>1, <1>2 DEF Has
  <2> QED BY <2>1, <2>2
<1>9. /\ Guarded(p, NeedQuiet, On("wait", Main))
      /\ Barred(p, UciSteps \ On("wait", Main), Op("begin"))
      /\ Has(p, On("wait", Main)) /\ Has(p, Op("begin"))
  <2>1. Guarded(p, NeedQuiet, On("wait", Main))
    BY <1>1, <1>2, <1>3 DEF Guarded
  <2>2. Barred(p, UciSteps \ On("wait", Main), Op("begin"))
    BY <1>1, <1>2, <1>3 DEF Barred
  <2> QED BY <2>1, <2>2, <1>3, <1>8
<1>10. \A A : Has(z, A) <=> x \in A
  BY Single
<1>11. \A A, B : Barred(z, A, B)
  BY Single
<1> HIDE DEF p, z
<1> DEFINE q == p \o R
           H == q \o z
<1>12. q \in Seq(UciSteps) /\ \A A : Has(q, A) <=> w \in A \/ b \in A \/ Has(R, A)
  BY <1>5, <1>8, Composed, ConcatProperties
<1>13. /\ Guarded(q, NeedQuiet, On("wait", Main))
       /\ Barred(q, UciSteps \ On("wait", Main), Op("begin"))
       /\ Has(q, On("wait", Main)) /\ Has(q, Op("begin"))
  <2>1. ~Has(R, Op("begin"))
    BY <1>5, <1>6
  <2>2. Barred(R, UciSteps \ On("wait", Main), Op("begin"))
    BY <2>1, Absent
  <2>3. Guarded(q, NeedQuiet, On("wait", Main))
    BY <1>5, <1>8, <1>9, Composed
  <2>4. Barred(q, UciSteps \ On("wait", Main), Op("begin"))
    BY <2>1, <2>2, <1>5, <1>8, <1>9, Composed
  <2> QED BY <2>3, <2>4, <1>3, <1>12
<1> HIDE DEF q
<1>14. H \in Seq(UciSteps) /\ \A A : Has(H, A) <=> w \in A \/ b \in A \/ Has(R, A) \/ x \in A
  BY <1>8, <1>10, <1>12, Composed, ConcatProperties
<1>15. /\ Guarded(H, NeedQuiet, On("wait", Main))
       /\ Barred(H, UciSteps \ On("wait", Main), Op("begin"))
  <2>1. ~Has(z, Op("begin"))
    BY <1>3, <1>10
  <2> QED BY <2>1, <1>8, <1>11, <1>12, <1>13, Composed
<1>16. \A t \in Pool : Awaited(H, ShortRuns(t), On("wait", t))
  <2> TAKE t \in Pool
  <2>1. ~Has(p, ShortRuns(t)) /\ ~Has(z, ShortRuns(t))
    BY <1>3, <1>8, <1>10
  <2>2. Awaited(p, ShortRuns(t), On("wait", t)) /\ Awaited(z, ShortRuns(t), On("wait", t))
    BY <2>1, Absent
  <2>3. Awaited(R, ShortRuns(t), On("wait", t))
    BY <1>5 DEF Tidy
  <2>4. Awaited(q, ShortRuns(t), On("wait", t))
    BY <2>2, <2>3, <1>5, <1>8, Composed DEF q
  <2> QED BY <2>2, <2>4, <1>8, <1>12, Composed
<1>17. Barred(H, Posts(Main, "search"), UciSteps)
  <2>1. ~Has(q, Posts(Main, "search"))
    <3>1. ~Has(R, Posts(Main, "search"))
      BY <1>4, <1>5, <1>6
    <3>2. w \notin Posts(Main, "search") /\ b \notin Posts(Main, "search")
      BY <1>3, <1>4
    <3> QED BY <3>1, <3>2, <1>12
  <2>2. Barred(q, Posts(Main, "search"), UciSteps)
    BY <2>1, Absent
  <2> QED BY <2>1, <2>2, <1>8, <1>11, <1>12, Composed
<1>18. Go(k, l) = H
  <2> DEFINE ru == Runs(1, k, "setup")
             wa == Waits(1, k)
  <2>1. 1 \in Nat /\ 1 <= k + 1 /\ "setup" \in Jobs
    BY <1>4 DEF Jobs
  <2>2. \A t \in 1..k : Run(t, "setup") \in UciSteps /\ Step("wait", t) \in UciSteps
    BY <1>4, <2>1, StepFields DEF UciOps
  <2>3. ru \in Seq(UciSteps) /\ wa \in Seq(UciSteps)
    BY <1>4, <2>1, <2>2, RunsDo, WaitsDo
  <2>4. Go(k, l) = ((p \o ru) \o wa) \o z
    BY DEF Go, p, z, w, b, x
  <2>5. R = ru \o wa
    BY DEF R
  <2> HIDE DEF ru, wa
  <2>6. (p \o ru) \o wa = p \o (ru \o wa)
    BY <1>8, <2>3, ConcatAssociative
  <2>7. (p \o ru) \o wa = q
    BY <2>5, <2>6 DEF q
  <2> QED BY <2>4, <2>7
<1> HIDE DEF H
<1>19. ASSUME NEW A, w \notin A, b \notin A, x \notin A,
              \A t \in 1..k : Run(t, "setup") \notin A /\ Step("wait", t) \notin A
       PROVE  ~Has(H, A)
  BY <1>19, <1>5, <1>14
<1>20. /\ ~Has(H, MakesBeyond(k)) /\ ~Has(H, Op("network")) /\ ~Has(H, On("kill", Main))
       /\ ~Has(H, Changes)
       /\ \A t \in Pool : /\ ~Has(H, Op("resize") \cup On("make", t)) /\ ~Has(H, On("resize", t))
                          /\ t # Main => ~Has(H, Posts(t, "search"))
  BY <1>3, <1>6, <1>19
<1>21. Has(H, Op("begin")) /\ Has(H, Posts(Main, "search"))
  BY <1>3, <1>14
<1>22. ASSUME NEW t \in 1..k PROVE Has(H, Posts(t, "setup"))
  <2>1. Has(R, Posts(t, "setup"))
    BY <1>5, <1>7
  <2> QED BY <2>1, <1>14
<1>23. Guarded(H, MakesBeyond(k), Op("resize")) /\ Gated(H) /\ Renewing(H)
  BY <1>20, Absent DEF Gated, Renewing
<1>24. ASSUME NEW t \in Pool
       PROVE  /\ Guarded(H, Op("resize") \cup On("make", t), On("kill", t) \cup On("join", t))
              /\ Barred(H, On("make", t), Op("resize") \cup On("make", t))
  <2>1. ~Has(H, Op("resize") \cup On("make", t))
    BY <1>20
  <2>2. Guarded(H, Op("resize") \cup On("make", t), On("kill", t) \cup On("join", t))
    BY <2>1, Absent
  <2> QED BY <2>1, <2>2, Absent
<1>25. Program(H, k)
  BY <1>4, <1>14, <1>15, <1>16, <1>17, <1>20, <1>21, <1>22, <1>23, <1>24 DEF Program
<1> QED BY <1>18, <1>23, <1>25
-----------------------------------------------------------------------------
(* What a step does to the programs. *)

\* A step of the UCI thread, or of the main thread, puts steps in the place of
\* the first one of its own program and leaves the other program alone.
LEMMA Rests ==
  ASSUME Types
  PROVE  /\ \A s : Rest(UCI, s) => U' = s \o Tail(U) /\ M' = M
         /\ \A s : Rest(Main, s) => M' = s \o Tail(M) /\ U' = U
         /\ U # <<>> => /\ Head(U) \in UciSteps /\ Tail(U) \in Seq(UciSteps)
                        /\ Done(UCI) => U' = Tail(U) /\ M' = M
         /\ M # <<>> => /\ Head(M) \in MainSteps /\ Tail(M) \in Seq(MainSteps)
                        /\ Done(Main) => M' = Tail(M) /\ U' = U
<1>1. UCI \in {UCI, Main} /\ Main \in {UCI, Main} /\ UCI # Main /\ DOMAIN todo = {UCI, Main}
  BY DEF UCI, Main, Types, ThreadTypes, ProgramTypes, CommandTypes
<1>2. /\ \A s : Rest(UCI, s) => U' = s \o Tail(U) /\ M' = M
      /\ \A s : Rest(Main, s) => M' = s \o Tail(M) /\ U' = U
  BY <1>1 DEF Rest, U, M
<1>3. U # <<>> => Head(U) \in UciSteps /\ Tail(U) \in Seq(UciSteps)
  BY HeadTail DEF Types, ThreadTypes, ProgramTypes, CommandTypes
<1>4. M # <<>> => Head(M) \in MainSteps /\ Tail(M) \in Seq(MainSteps)
  BY HeadTail DEF Types, ThreadTypes, ProgramTypes, CommandTypes
<1>5. ASSUME U # <<>>, Done(UCI) PROVE U' = Tail(U) /\ M' = M
  <2>1. U' = <<>> \o Tail(U) /\ M' = M
    BY <1>2, <1>5 DEF Done
  <2> QED BY <2>1, <1>3, <1>5, ConcatEmptySeq
<1>6. ASSUME M # <<>>, Done(Main) PROVE M' = Tail(M) /\ U' = U
  <2>1. M' = <<>> \o Tail(M) /\ U' = U
    BY <1>2, <1>6 DEF Done
  <2> QED BY <2>1, <1>4, <1>6, ConcatEmptySeq
<1> QED BY <1>2, <1>3, <1>4, <1>5, <1>6

\* The first step of a program has the fields of a step.
LEMMA Heads ==
  ASSUME Types
  PROVE  /\ U # <<>> => Head(U) \in UciSteps /\ Head(U) \in Steps
                        /\ Head(U).th \in Pool /\ (Head(U).op # "begin" => Head(U).job \in Jobs)
         /\ M # <<>> => Head(M) \in MainSteps /\ Head(M) \in Steps
                        /\ Head(M).th \in Pool /\ Head(M).job \in Jobs
<1>1. \A s \in Steps : s.th \in Pool /\ (s.op # "begin" => s.job \in Jobs)
  BY PoolRange, PoolAssumption DEF Steps, Pool, Main
<1>2. \A s \in MainSteps : s.op # "begin"
  BY DEF MainSteps, MainOps
<1> QED BY <1>1, <1>2, Rests DEF UciSteps, MainSteps

\* A command leaves these alone, and is read when the one before has ended.
Reading ==
  /\ loop /\ U = <<>> /\ M' = M
  /\ UNCHANGED <<n, cvs, setUp, setupStates, gos, limits, cout, printed, stopOnPonderhit>>
  /\ commands \in Nat /\ commands' \in commands..(commands + 1) /\ commands' <= MaxCommands

\* What the UCI thread does at once when it reads a command.
Flagged ==
  /\ loop' \in BOOLEAN /\ told' \in {told, told \cup {"stop"}, told \cup {"ponderhit"}}
  /\ stop' => stop \/ "stop" \in told'
  /\ ponder' = ponder \/ (ponder' = FALSE /\ (limits.ponder => "ponderhit" \in told'))
  /\ stop' \in BOOLEAN /\ ponder' \in BOOLEAN

\* The program it then has to execute.
Programmed ==
  /\ Program(U', n) /\ (loop' => Renewing(U')) /\ UNCHANGED lists
  /\ todo' \in [{UCI, Main} -> Seq(Steps)]
  /\ Has(U', Op("begin")) => commands' = commands + 1
  /\ Polite => Answers = gos \/ Gated(U')

\* What reading a command amounts to, if it counts at all.
LEMMA StartsReading ==
  ASSUME Types, loop, U = <<>>, M' = M,
         UNCHANGED <<n, cvs, setUp, setupStates, gos, limits, cout, printed, stopOnPonderhit>>,
         commands' = commands \/ (commands < MaxCommands /\ commands' = commands + 1)
  PROVE  Reading
<1>1. MaxCommands \in Nat /\ commands \in 0..MaxCommands
  BY PoolAssumption DEF Types, ThreadTypes, ProgramTypes, CommandTypes
<1>2. commands \in Nat /\ commands' \in commands..(commands + 1) /\ commands' <= MaxCommands
  BY <1>1
<1> QED BY <1>2 DEF Reading

\* Reading one of the commands that wait for the search.
LEMMA WaitingReads ==
  ASSUME Types, NEW H, Program(H, n), Renewing(H), Gated(H), Waiting(H)
  PROVE  Reading /\ Flagged /\ Programmed
<1>1. /\ loop /\ U = <<>> /\ commands < MaxCommands /\ commands' = commands + 1
      /\ todo' = [todo EXCEPT ![UCI] = H]
      /\ UNCHANGED <<n, cvs, flags, limits, loop, gos, told, setUp, lists, cout, printed>>
  BY DEF Waiting, Read, U
<1>2. UCI # Main /\ DOMAIN todo = {UCI, Main} /\ H \in Seq(UciSteps)
  BY DEF UCI, Main, Types, ThreadTypes, ProgramTypes, CommandTypes, Program
<1>3. U' = H /\ M' = M
  BY <1>1, <1>2 DEF U, M
<1>4. H \in Seq(Steps)
  <2>1. UciSteps \subseteq Steps
    BY DEF UciSteps
  <2> QED BY <1>2, <2>1, SeqMonotonic
<1>5. todo' \in [{UCI, Main} -> Seq(Steps)]
  BY <1>1, <1>4 DEF Types, ThreadTypes, ProgramTypes, CommandTypes
<1>6. Reading
  BY <1>1, <1>3, StartsReading DEF flags, lists
<1>7. Flagged
  BY <1>1 DEF Flagged, Types, ThreadTypes, ProgramTypes, CommandTypes, flags
<1> QED BY <1>1, <1>3, <1>5, <1>6, <1>7 DEF Programmed

\* Reading a command, whichever it is.
LEMMA Reads ==
  ASSUME Types, ReadCommand
  PROVE  /\ Reading /\ Flagged
         /\ Programmed \/ /\ UNCHANGED <<todo, loop>>
                          /\ \/ UNCHANGED lists
                             \/ states' = commands' + 1 /\ pos' = states' /\ UNCHANGED setupStates
<1>1. CASE ReadGo
  <2>1. PICK l \in Searches : Waiting(Go(n, l))
    BY <1>1 DEF ReadGo
  <2>2. l \in Limits
    BY PoolAssumption
  <2> QED BY <2>1, <2>2, GoProgram, WaitingReads DEF Types, ThreadTypes, ProgramTypes, CommandTypes
<1>2. CASE ReadNewGame
  BY <1>2, ChoreCommands, WaitingReads DEF ReadNewGame, Types, ThreadTypes, ProgramTypes, CommandTypes
<1>3. CASE ReadThreads
  BY <1>3, ResizeProgram, WaitingReads DEF ReadThreads, Types, ThreadTypes, ProgramTypes, CommandTypes
<1>4. CASE ReadOption
  <2>1. PICK H \in {Hash(n), ClearHash(n), EvalFile(n), NumaPolicy(n)} : Waiting(H)
    BY <1>4 DEF ReadOption
  <2>2. Program(H, n) /\ Renewing(H) /\ Gated(H)
    BY ChoreCommands, NumaProgram DEF Types, ThreadTypes, ProgramTypes, CommandTypes
  <2> QED BY <2>1, <2>2, WaitingReads
<1>5. CASE ReadPosition
  <2>1. /\ loop /\ U = <<>> /\ commands < MaxCommands /\ commands' = commands + 1
        /\ states' = commands' + 1 /\ pos' = states'
        /\ UNCHANGED <<n, cvs, todo, flags, limits, loop, gos, told, setUp, setupStates, cout, printed>>
    BY <1>5 DEF ReadPosition, Read, U
  <2>2. Reading
    BY <2>1, StartsReading DEF flags, M
  <2>3. Flagged
    BY <2>1 DEF Flagged, flags, Types, ThreadTypes, ProgramTypes, CommandTypes
  <2> QED BY <2>1, <2>2, <2>3
<1>6. CASE ReadExport
  <2> DEFINE x == <<Step("network", Main)>>
  <2>1. /\ loop /\ U = <<>> /\ commands < MaxCommands /\ commands' = commands + 1
        /\ todo' = [todo EXCEPT ![UCI] = x] /\ (Polite => Answers = gos)
        /\ UNCHANGED <<n, cvs, flags, limits, loop, gos, told, setUp, lists, cout, printed>>
    BY <1>6 DEF ReadExport, Read, U
  <2>2. Program(x, n) /\ Renewing(x) /\ ~Has(x, Op("begin"))
    BY ExportProgram DEF Types, ThreadTypes, ProgramTypes, CommandTypes
  <2> HIDE DEF x
  <2>3. UCI # Main /\ DOMAIN todo = {UCI, Main} /\ x \in Seq(UciSteps)
    BY <2>2 DEF UCI, Main, Program, Types, ThreadTypes, ProgramTypes, CommandTypes
  <2>4. U' = x /\ M' = M
    BY <2>1, <2>3 DEF U, M
  <2>5. x \in Seq(Steps)
    <3>1. UciSteps \subseteq Steps
      BY DEF UciSteps
    <3> QED BY <2>3, <3>1, SeqMonotonic
  <2>6. todo' \in [{UCI, Main} -> Seq(Steps)]
    BY <2>1, <2>5 DEF Types, ThreadTypes, ProgramTypes, CommandTypes
  <2>7. Reading
    BY <2>1, <2>4, StartsReading DEF flags, lists
  <2>8. Flagged
    BY <2>1 DEF Flagged, flags, Types, ThreadTypes, ProgramTypes, CommandTypes
  <2> QED BY <2>1, <2>2, <2>4, <2>6, <2>7, <2>8 DEF Programmed
<1>7. CASE ReadStop
  <2>1. /\ loop /\ U = <<>> /\ commands < MaxCommands /\ commands' = commands + 1
        /\ UNCHANGED <<n, cvs, todo, limits, loop, gos, setUp, lists, cout, printed, stopOnPonderhit>>
    BY <1>7 DEF ReadStop, Read, U
  <2>2. Reading
    BY <2>1, StartsReading DEF lists, M
  <2>3. UNCHANGED <<todo, loop, lists>> /\ Flagged
    BY <1>7, <2>1 DEF ReadStop, Flagged, Types, ThreadTypes, ProgramTypes, CommandTypes
  <2> QED BY <2>1, <2>2, <2>3
<1>8. CASE ReadPonderhit
  <2>1. /\ loop /\ U = <<>> /\ commands < MaxCommands /\ commands' = commands + 1
        /\ UNCHANGED <<n, cvs, todo, limits, loop, gos, setUp, lists, cout, printed, stopOnPonderhit>>
    BY <1>8 DEF ReadPonderhit, Read, U
  <2>2. Reading
    BY <2>1, StartsReading DEF lists, M
  <2>3. UNCHANGED <<todo, loop, lists>> /\ Flagged
    BY <1>8, <2>1 DEF ReadPonderhit, Flagged, Types, ThreadTypes, ProgramTypes, CommandTypes
  <2> QED BY <2>1, <2>2, <2>3
<1>9. CASE ReadQuit
  <2> DEFINE x == TearDown(n)
  <2>1. /\ loop /\ U = <<>> /\ loop' = FALSE /\ stop' = TRUE /\ told' = told \cup {"stop"}
        /\ todo' = [todo EXCEPT ![UCI] = x]
        /\ UNCHANGED <<n, cvs, ponder, stopOnPonderhit, limits, commands, gos, setUp, lists, cout, printed>>
    BY <1>9 DEF ReadQuit, U
  <2>2. Program(x, n) /\ Gated(x) /\ ~Has(x, Op("begin"))
    BY TearDownProgram DEF Types, ThreadTypes, ProgramTypes, CommandTypes
  <2> HIDE DEF x
  <2>3. UCI # Main /\ DOMAIN todo = {UCI, Main} /\ x \in Seq(UciSteps)
    BY <2>2 DEF UCI, Main, Program, Types, ThreadTypes, ProgramTypes, CommandTypes
  <2>4. U' = x /\ M' = M
    BY <2>1, <2>3 DEF U, M
  <2>5. x \in Seq(Steps)
    <3>1. UciSteps \subseteq Steps
      BY DEF UciSteps
    <3> QED BY <2>3, <3>1, SeqMonotonic
  <2>6. todo' \in [{UCI, Main} -> Seq(Steps)]
    BY <2>1, <2>5 DEF Types, ThreadTypes, ProgramTypes, CommandTypes
  <2>7. Reading
    BY <2>1, <2>4, StartsReading DEF lists
  <2>8. Flagged
    BY <2>1 DEF Flagged, Types, ThreadTypes, ProgramTypes, CommandTypes
  <2> QED BY <2>1, <2>2, <2>4, <2>6, <2>7, <2>8 DEF Programmed
<1> QED BY <1>1, <1>2, <1>3, <1>4, <1>5, <1>6, <1>7, <1>8, <1>9 DEF ReadCommand
-----------------------------------------------------------------------------
\* The inductive invariant.
Order == UciOrder /\ JobsAreAwaited /\ MainOrder /\ HelpersAreAwaited
Games == SetUpBeforeSearch /\ GoOrder /\ GameAlive
Answering == Counted /\ NetworkOrder /\ Held
IInv == Types /\ Lives /\ Blocked /\ Order /\ Games /\ Answering

\* It holds when the Engine constructor has ended.
LEMMA InitIInv ==
  ASSUME Init
  PROVE  IInv
<1>1. MaxThreads \in Nat \ {0} /\ MaxCommands \in Nat /\ 1 \in Pool /\ 0 \notin Pool
  BY PoolAssumption DEF Pool
<1>2. U = <<>> /\ M = <<>>
  BY DEF Init, U, M, UCI, Main
<1>3. /\ \A t \in Pool : job[t] = "none" /\ jobFunc[t] = "none" /\ ~exit[t]
      /\ \A t \in Pool : pc[t] \in {"asleep", "gone"} /\ (pc[t] # "gone" => t = 1)
      /\ n = 1 /\ \A t \in Pool : setUp[t].go = 0
  BY DEF Init
<1>4. Quiet /\ \A t \in Pool : ~Busy(t) /\ ~Short(t)
  BY <1>3 DEF Quiet, Busy, Short, ShortJobs
<1>5. Types
  <2>1. ThreadTypes
    BY <1>1 DEF Init, ThreadTypes, Jobs, UCI
  <2>2. <<>> \in Seq(Steps) /\ <<>> \in Seq(UciSteps) /\ <<>> \in Seq(MainSteps)
    OBVIOUS
  <2>3. ProgramTypes
    BY <1>2, <2>2 DEF Init, ProgramTypes
  <2>4. CommandTypes
    <3>1. 0 \in 0..(MaxCommands + 1) /\ 1 \in 0..(MaxCommands + 1) /\ 0 \in 0..MaxCommands
      BY <1>1
    <3>2. [go |-> 0, list |-> 0] \in [go : Nat, list : 0..(MaxCommands + 1)]
      BY <3>1
    <3>3. setUp \in [Pool -> [go : Nat, list : 0..(MaxCommands + 1)]]
      BY <3>2 DEF Init
    <3>4. {states, setupStates, pos} \subseteq 0..(MaxCommands + 1)
      BY <3>1 DEF Init
    <3>5. limits \in Limits /\ printed \in [{"engine", "host"} -> Nat]
      BY DEF Init, Limits
    <3> QED BY <3>1, <3>3, <3>4, <3>5 DEF Init, CommandTypes
  <2> QED BY <2>1, <2>3, <2>4 DEF Types
<1>6. Lives
  BY <1>1, <1>2, <1>3, EmptyOrder DEF Lives, Alive
<1>7. Blocked
  BY <1>1 DEF Init, Blocked
<1>8. Order
  <2>1. UciOrder
    BY <1>2, <1>3, <1>4, <1>1, EmptyOrder DEF UciOrder, Asked, Main
  <2>2. JobsAreAwaited
    BY <1>2, <1>4, EmptyOrder DEF JobsAreAwaited
  <2>3. MainOrder
    BY <1>2, EmptyOrder DEF MainOrder
  <2>4. HelpersAreAwaited
    BY <1>2, <1>4, EmptyOrder DEF HelpersAreAwaited
  <2> QED BY <2>1, <2>2, <2>3, <2>4 DEF Order
<1>9. ~Asked /\ ~Has(U, Op("begin")) /\ ~Has(M, Op("bestmove"))
  BY <1>2, EmptyOrder DEF Asked
<1>10. Games
  <2>1. SetUpBeforeSearch
    BY <1>1, <1>4, <1>9 DEF SetUpBeforeSearch, Main
  <2>2. GoOrder
    BY <1>2, <1>9, EmptyOrder DEF GoOrder, Init
  <2>3. GameAlive
    BY DEF GameAlive, Init
  <2> QED BY <2>1, <2>2, <2>3 DEF Games
<1>11. Answering
  <2>1. Counted
    BY <1>1, <1>3, <1>9 DEF Counted, Starting, Searching, Posted, Answers, Init, Main
  <2>2. NetworkOrder
    BY DEF NetworkOrder, Answers, Init
  <2>3. Held
    BY DEF Held, Free, Contract!MayAnswer, Init
  <2> QED BY <2>1, <2>2, <2>3 DEF Answering
<1> QED BY <1>5, <1>6, <1>7, <1>8, <1>10, <1>11 DEF IInv

\* A thread that is not marked as searching has no job; when it is the main
\* thread, no thread has one that searches.
LEMMA Resting ==
  ASSUME Types, Lives, MainOrder, HelpersAreAwaited
  PROVE  /\ \A t \in Pool : ~searching[t] =>
              jobFunc[t] = "none" /\ job[t] = "none" /\ ~Busy(t) /\ ~Short(t)
         /\ \A t \in Pool : pc[t] = "job" => jobFunc[t] = "none"
         /\ job[Main] # "search" => M = <<>> /\ \A t \in Pool \ {Main} : ~Busy(t)
         /\ ~searching[Main] => Quiet
         /\ Quiet => M = <<>> /\ ~Searching
<1>1. Main \in Pool
  BY PoolRange, PoolAssumption DEF Main, Pool
<1>2. ASSUME NEW t \in Pool, ~searching[t]
      PROVE  jobFunc[t] = "none" /\ job[t] = "none" /\ ~Busy(t) /\ ~Short(t)
  <2>1. jobFunc[t] = "none" /\ pc[t] # "job"
    BY <1>2 DEF Types, ThreadTypes
  <2>2. job[t] = "none"
    BY <2>1 DEF Lives
  <2> QED BY <2>1, <2>2 DEF Busy, Short, ShortJobs
<1>3. \A t \in Pool : pc[t] = "job" => jobFunc[t] = "none"
  BY DEF Types, ThreadTypes
<1>4. ASSUME job[Main] # "search"
      PROVE  M = <<>> /\ \A t \in Pool \ {Main} : ~Busy(t)
  BY <1>4 DEF MainOrder, HelpersAreAwaited
<1>5. ~searching[Main] => Quiet
  BY <1>1, <1>2, <1>4 DEF Quiet
<1>6. ASSUME Quiet PROVE M = <<>> /\ ~Searching
  <2>1. ~Busy(Main)
    BY <1>1, <1>6 DEF Quiet
  <2> QED BY <2>1, <1>4 DEF Busy, Searching
<1> QED BY <1>2, <1>3, <1>4, <1>5, <1>6
-----------------------------------------------------------------------------
\* What each part of the invariant is about: it is kept where that is.
LEMMA Untouched ==
  ASSUME IInv
  PROVE  /\ U' = U /\ UNCHANGED <<exit, jobFunc, job, loop>> => UciOrder'
         /\ U' = U /\ UNCHANGED <<exit, jobFunc, job>> => JobsAreAwaited'
         /\ M' = M /\ UNCHANGED job => MainOrder'
         /\ M' = M /\ UNCHANGED <<n, exit, jobFunc, job>> => HelpersAreAwaited'
         /\ U' = U /\ UNCHANGED <<n, exit, jobFunc, job, setUp, gos, setupStates>> => SetUpBeforeSearch'
         /\ U' = U /\ UNCHANGED <<exit, gos, commands>> => GoOrder'
         /\ UNCHANGED lists => GameAlive'
         /\ U' = U /\ M' = M /\ UNCHANGED <<exit, jobFunc, job, gos, printed, setUp>> => Counted'
         /\ U' = U /\ UNCHANGED <<gos, printed>> => NetworkOrder'
         /\ M' = M /\ UNCHANGED <<limits, told, stop, ponder>> => Held'
<1>1. /\ UciOrder /\ JobsAreAwaited /\ MainOrder /\ HelpersAreAwaited
      /\ SetUpBeforeSearch /\ GoOrder /\ GameAlive /\ Counted /\ NetworkOrder /\ Held
  BY DEF IInv, Order, Games, Answering
<1>2. U' = U /\ UNCHANGED <<exit, jobFunc, job, loop>> => UciOrder'
  BY <1>1 DEF UciOrder, Quiet, Busy, Posted, Asked
<1>3. U' = U /\ UNCHANGED <<exit, jobFunc, job>> => JobsAreAwaited'
  BY <1>1 DEF JobsAreAwaited, Quiet, Busy, Posted, Short
<1>4. M' = M /\ UNCHANGED job => MainOrder'
  BY <1>1 DEF MainOrder
<1>5. M' = M /\ UNCHANGED <<n, exit, jobFunc, job>> => HelpersAreAwaited'
  BY <1>1 DEF HelpersAreAwaited, Busy, Posted
<1>6. U' = U /\ UNCHANGED <<n, exit, jobFunc, job, setUp, gos, setupStates>> => SetUpBeforeSearch'
  BY <1>1 DEF SetUpBeforeSearch, Busy, Posted, Asked, Current
<1>7. U' = U /\ UNCHANGED <<exit, gos, commands>> => GoOrder'
  BY <1>1 DEF GoOrder, Asked
<1>8. UNCHANGED lists => GameAlive'
  BY <1>1 DEF GameAlive, lists
<1>9. U' = U /\ M' = M /\ UNCHANGED <<exit, jobFunc, job, gos, printed, setUp>> => Counted'
  BY <1>1 DEF Counted, Starting, Searching, Asked, Quiet, Busy, Posted, Answers
<1>10. U' = U /\ UNCHANGED <<gos, printed>> => NetworkOrder'
  BY <1>1 DEF NetworkOrder, Answers
<1>11. M' = M /\ UNCHANGED <<limits, told, stop, ponder>> => Held'
  BY <1>1 DEF Held, Free, Contract!MayAnswer
<1> QED BY <1>2, <1>3, <1>4, <1>5, <1>6, <1>7, <1>8, <1>9, <1>10, <1>11

\* Threads may end, park, and take up jobs they had before.
LEMMA LivesUntouched ==
  ASSUME Lives, U' = U, UNCHANGED <<n, job>>,
         \A t \in Pool : (Alive(t)' => Alive(t)) /\ (pc'[t] = "job" <=> pc[t] = "job")
  PROVE  Lives'
<1>1. \A t \in Pool : pc'[t] = "job" <=> job'[t] # "none"
  BY DEF Lives
<1>2. \A t \in Pool : Alive(t)' =>
        t <= n' /\ Guarded(U', Op("resize") \cup On("make", t), On("kill", t) \cup On("join", t))
  BY DEF Lives
<1> QED BY <1>1, <1>2 DEF Lives
-----------------------------------------------------------------------------
\* The steps after which the UCI thread goes on to the rest of its program.
Passing == {"wait", "notify", "join", "restore", "free", "network", "begin"}

\* The step a is done and R is left: nothing is out of order in the rest, for a
\* wait has come to its end.
LEMMA UciAdvances ==
  ASSUME IInv, NEW a \in UciSteps, NEW R \in Seq(UciSteps), U # <<>>, a = Head(U), R = Tail(U),
         a.op \in Passing, U' = R, M' = M, UNCHANGED <<n, pc, exit, jobFunc, job, loop>>,
         a.op = "wait" => ~searching[a.th], a.op = "join" => pc[a.th] = "gone"
  PROVE  Lives' /\ Order'
<1>1. /\ Types /\ Lives /\ UciOrder /\ JobsAreAwaited /\ MainOrder /\ HelpersAreAwaited
      /\ U \in Seq(UciSteps) /\ n \in Pool
  BY DEF IInv, Order, Types, ProgramTypes, ThreadTypes
<1>2. /\ \A A : Has(U, A) <=> a \in A \/ Has(R, A)
      /\ \A A, B : Guarded(U, A, B) <=> a \notin A /\ (a \in B \/ Guarded(R, A, B))
      /\ \A A, B : Awaited(U, A, B) <=> (a \in A => Has(R, B)) /\ Awaited(R, A, B)
      /\ \A A, B : Barred(U, A, B) <=> (a \in A => ~Has(R, B)) /\ Barred(R, A, B)
  BY <1>1, FirstStep
<1>3. /\ a \notin Op("resize") /\ a \notin Op("kill") /\ a \notin Op("make")
      /\ \A t \in Pool : /\ a \notin On("kill", t) /\ a \notin On("make", t)
                         /\ a \notin On("resize", t) /\ a \notin ShortRuns(t)
                         /\ \A j : a \notin Posts(t, j)
                         /\ a \in On("wait", t) => ~searching[t]
                         /\ a \in On("join", t) => pc[t] = "gone"
  BY DEF Passing, Op, On, ShortRuns, Posts
<1>4. Main \in Pool
  BY PoolRange, PoolAssumption DEF Main, Pool
<1>5. Lives'
  <2>1. ASSUME NEW t \in Pool, Alive(t)
        PROVE  Guarded(R, Op("resize") \cup On("make", t), On("kill", t) \cup On("join", t))
    <3>1. Guarded(U, Op("resize") \cup On("make", t), On("kill", t) \cup On("join", t))
      BY <1>1, <2>1 DEF Lives
    <3>2. a \notin On("kill", t) \cup On("join", t)
      BY <1>3, <2>1 DEF Alive
    <3> QED BY <1>2, <3>1, <3>2
  <2>2. \A m \in Pool : Has(R, On("resize", m)) => ~Has(R, MakesBeyond(m))
    BY <1>1, <1>2 DEF Lives
  <2>3. Guarded(R, MakesBeyond(n), Op("resize"))
    BY <1>1, <1>2, <1>3 DEF Lives
  <2>4. \A t \in Pool : Barred(R, On("make", t), Op("resize") \cup On("make", t))
    BY <1>1, <1>2 DEF Lives
  <2> QED BY <1>1, <2>1, <2>2, <2>3, <2>4 DEF Lives, Alive
<1>6. /\ Quiet' <=> Quiet
      /\ Asked' => Asked
      /\ \A t \in Pool : Short(t)' <=> Short(t)
      /\ exit' = exit /\ loop' = loop
  BY <1>2 DEF Quiet, Busy, Posted, Asked, Short
<1>7. UciOrder'
  <2>1. Quiet \/ Guarded(R, NeedQuiet, On("wait", Main))
    BY <1>1, <1>2, <1>3, <1>4, Resting DEF UciOrder
  <2>2. \A t \in Pool : Has(R, Posts(t, "search")) => t = Main /\ ~exit[Main]
    BY <1>1 DEF UciOrder
  <2>3. R # <<>> => \A t \in Pool : Has(Tail(R), Posts(t, "search")) => t = Main /\ ~exit[Main]
    BY <2>2, FirstStep
  <2>4. Asked => Barred(R, Posts(Main, "search"), UciSteps) /\ ~Has(R, Changes)
    BY <1>1, <1>2 DEF UciOrder
  <2>5. loop => /\ exit[Main] => Has(R, On("make", Main))
                /\ Awaited(R, On("kill", Main), On("make", Main))
    BY <1>1, <1>2, <1>3, <1>4 DEF UciOrder
  <2> QED BY <1>6, <2>1, <2>2, <2>3, <2>4, <2>5 DEF UciOrder
<1>8. JobsAreAwaited'
  <2>1. ASSUME NEW t \in Pool
        PROVE  Awaited(R, ShortRuns(t), On("wait", t)) /\ (Short(t) => Quiet /\ Has(R, On("wait", t)))
    <3>1. Awaited(R, ShortRuns(t), On("wait", t))
      BY <1>1, <1>2 DEF JobsAreAwaited
    <3>2. ASSUME Short(t) PROVE Quiet /\ Has(R, On("wait", t))
      <4>1. Quiet /\ Has(U, On("wait", t))
        BY <1>1, <3>2 DEF JobsAreAwaited
      <4>2. a \notin On("wait", t)
        BY <1>1, <1>3, <3>2, Resting
      <4> QED BY <1>2, <4>1, <4>2
    <3> QED BY <3>1, <3>2
  <2> QED BY <1>6, <2>1 DEF JobsAreAwaited
<1>9. MainOrder' /\ HelpersAreAwaited'
  BY Untouched
<1> QED BY <1>5, <1>7, <1>8, <1>9 DEF Order

\* The same for the games and the answers, when a new game does not begin.
LEMMA UciAdvancesOn ==
  ASSUME IInv, NEW a \in UciSteps, NEW R \in Seq(UciSteps), U # <<>>, a = Head(U), R = Tail(U),
         a.op \in Passing \ {"begin"}, U' = R, M' = M,
         UNCHANGED <<n, exit, jobFunc, job, flags, uci, setUp, lists, printed>>,
         a.op = "wait" => ~searching[a.th]
  PROVE  Games' /\ Answering'
<1>1. /\ Types /\ Lives /\ UciOrder /\ MainOrder /\ HelpersAreAwaited
      /\ SetUpBeforeSearch /\ GoOrder /\ Counted /\ NetworkOrder
      /\ U \in Seq(UciSteps) /\ n \in Pool /\ U' = R
      /\ UNCHANGED <<limits, told, stop, ponder, gos, commands, states, setupStates, pos>>
  BY DEF IInv, Order, Games, Answering, Types, ProgramTypes, ThreadTypes, flags, uci, lists
<1>2. /\ \A A : Has(U, A) <=> a \in A \/ Has(R, A)
      /\ \A A, B : Guarded(U, A, B) <=> a \notin A /\ (a \in B \/ Guarded(R, A, B))
      /\ \A A, B : Barred(U, A, B) <=> (a \in A => ~Has(R, B)) /\ Barred(R, A, B)
  BY <1>1, FirstStep
<1>3. /\ a \notin Op("begin") /\ \A t \in Pool : \A j : a \notin Posts(t, j)
      /\ a \in On("wait", Main) => ~searching[Main]
  BY DEF Passing, Op, On, Posts
<1>4. Main \in Pool /\ 1..n \subseteq Pool
  BY <1>1, PoolRange
<1>5. /\ (Asked' <=> Asked) /\ (Has(U', Op("begin")) <=> Has(U, Op("begin")))
      /\ \A t \in Pool : Has(U', Posts(t, "setup")) <=> Has(U, Posts(t, "setup"))
  BY <1>1, <1>2, <1>3, <1>4 DEF Asked
<1>6. Quiet' = Quiet /\ \A t \in Pool : Busy(t)' = Busy(t)
  BY DEF Quiet, Busy, Posted
<1>7. SetUpBeforeSearch'
  BY <1>1, <1>4, <1>5, <1>6 DEF SetUpBeforeSearch, Current
<1>8. GoOrder'
  <2>1. Barred(R, UciSteps \ On("wait", Main), Op("begin"))
    BY <1>1, <1>2 DEF GoOrder
  <2> QED BY <2>1, <1>1, <1>5 DEF GoOrder
<1>9. Starting' = Starting /\ Searching' = Searching /\ Answers' = Answers
  BY <1>5 DEF Starting, Searching, Posted, Answers
<1>10. Counted'
  BY <1>1, <1>6, <1>9 DEF Counted
<1>11. NetworkOrder'
  <2>1. ASSUME Polite, Answers # gos PROVE Guarded(R, Op("network"), On("wait", Main))
    <3>1. Guarded(U, Op("network"), On("wait", Main))
      BY <1>1, <2>1 DEF NetworkOrder
    <3>2. CASE a \notin On("wait", Main)
      BY <1>2, <3>1, <3>2
    <3>3. CASE a \in On("wait", Main)
      <4>1. ~Searching
        BY <1>1, <1>3, <3>3, Resting
      <4>2. Asked
        BY <1>1, <2>1, <4>1 DEF Counted, Starting, Answers, Types, CommandTypes
      <4>3. ~Has(R, Op("network"))
        <5>1. ~Has(R, Changes)
          BY <1>1, <1>2, <4>2 DEF UciOrder
        <5> QED BY <5>1 DEF Has, Changes
      <4> QED BY <4>3, Absent
    <3> QED BY <3>2, <3>3
  <2> QED BY <1>1, <1>9, <2>1 DEF NetworkOrder
<1>12. GameAlive' /\ Held'
  BY <1>1, Untouched DEF lists
<1> QED BY <1>7, <1>8, <1>10, <1>11, <1>12 DEF Games, Answering
-----------------------------------------------------------------------------
\* The UCI thread gives thread t the job j, and has still to notify it: b.  When
\* it is the job of the main thread to search, nothing else is left to do.
LEMMA UciPosts ==
  ASSUME IInv, NEW a \in UciSteps, NEW R \in Seq(UciSteps), U # <<>>, a = Head(U), R = Tail(U),
         NEW t \in Pool, NEW j \in Jobs, a.op = "run", a.th = t, a.job = j, ~searching[t],
         NEW b \in UciSteps, b.op = "notify", U' = <<b>> \o R, M' = M,
         jobFunc' = [jobFunc EXCEPT ![t] = j],
         UNCHANGED <<n, pc, exit, job, flags, uci, setUp, lists, printed>>
  PROVE  Lives' /\ Order' /\ Games' /\ Answering'
<1>1. /\ Types /\ Lives /\ UciOrder /\ JobsAreAwaited /\ MainOrder /\ HelpersAreAwaited
      /\ SetUpBeforeSearch /\ GoOrder /\ Counted /\ NetworkOrder
      /\ U \in Seq(UciSteps) /\ n \in Pool /\ jobFunc \in [Pool -> Jobs]
      /\ UNCHANGED <<limits, told, stop, ponder, gos, commands, loop, states, setupStates, pos>>
  BY DEF IInv, Order, Games, Answering, Types, ProgramTypes, ThreadTypes, flags, uci, lists
<1>2. /\ \A A : Has(U, A) <=> a \in A \/ Has(R, A)
      /\ \A A, B : Guarded(U, A, B) <=> a \notin A /\ (a \in B \/ Guarded(R, A, B))
      /\ \A A, B : Awaited(U, A, B) <=> (a \in A => Has(R, B)) /\ Awaited(R, A, B)
      /\ \A A, B : Barred(U, A, B) <=> (a \in A => ~Has(R, B)) /\ Barred(R, A, B)
  BY <1>1, FirstStep
<1>3. /\ U' # <<>> /\ Tail(U') = R
      /\ \A A : Has(U', A) <=> b \in A \/ Has(R, A)
      /\ \A A, B : Guarded(U', A, B) <=> b \notin A /\ (b \in B \/ Guarded(R, A, B))
      /\ \A A, B : Awaited(U', A, B) <=> (b \in A => Has(R, B)) /\ Awaited(R, A, B)
      /\ \A A, B : Barred(U', A, B) <=> (b \in A => ~Has(R, B)) /\ Barred(R, A, B)
  <2> DEFINE q == <<b>> \o R
  <2>1. /\ q # <<>> /\ Tail(q) = R
        /\ \A A : Has(q, A) <=> b \in A \/ Has(R, A)
        /\ \A A, B : Guarded(q, A, B) <=> b \notin A /\ (b \in B \/ Guarded(R, A, B))
        /\ \A A, B : Awaited(q, A, B) <=> (b \in A => Has(R, B)) /\ Awaited(R, A, B)
        /\ \A A, B : Barred(q, A, B) <=> (b \in A => ~Has(R, B)) /\ Barred(R, A, B)
    <3>1. b \in UciSteps /\ R \in Seq(UciSteps)
      OBVIOUS
    <3> QED BY ONLY <3>1, Preceded, SMTT(30)
  <2>2. U' = q
    OBVIOUS
  <2> QED BY ONLY <2>1, <2>2
<1>4. /\ a \in NeedQuiet /\ a \in UciSteps \ On("wait", Main) /\ a \notin On("wait", Main)
      /\ a \notin Op("begin") /\ a \notin Op("resize") /\ a \notin MakesBeyond(n) /\ a \notin Changes
      /\ a \notin On("make", Main)
      /\ \A u \in Pool : /\ a \notin On("kill", u) /\ a \notin On("join", u)
                         /\ a \notin On("make", u) /\ a \notin On("wait", u)
      /\ j \in ShortJobs => a \in ShortRuns(t)
      /\ \A u \in Pool : \A i : a \in Posts(u, i) <=> u = t /\ i = j
  <2>1. a \in Steps
    BY DEF UciSteps
  <2> QED BY <2>1 DEF NeedQuiet, On, Op, MakesBeyond, ShortRuns, Posts, Changes
<1>5. /\ b \notin NeedQuiet /\ b \in UciSteps \ On("wait", Main) /\ b \notin On("kill", Main)
      /\ b \notin Op("begin") /\ b \notin Op("resize") /\ b \notin MakesBeyond(n) /\ b \notin Changes
      /\ b \notin Op("network")
      /\ \A m \in Pool : b \notin MakesBeyond(m) /\ b \notin On("resize", m)
      /\ \A u \in Pool : /\ b \notin Op("resize") \cup On("make", u) /\ b \notin On("make", u)
                         /\ b \notin ShortRuns(u) /\ \A i : b \notin Posts(u, i)
  BY DEF NeedQuiet, On, Op, MakesBeyond, ShortRuns, Posts, Changes
<1>6. Main \in Pool /\ 1..n \subseteq Pool
  BY <1>1, PoolRange
<1>7. /\ jobFunc[t] = "none" /\ job[t] = "none" /\ jobFunc'[t] = j
      /\ \A u \in Pool : u # t => jobFunc'[u] = jobFunc[u]
      /\ Quiet /\ ~Searching
  <2>1. Quiet
    BY <1>1, <1>2, <1>4 DEF UciOrder
  <2> QED BY <1>1, <2>1, Resting
<1>8. ~Has(R, Op("begin")) /\ ~Has(U, Op("begin")) /\ ~Has(U', Op("begin"))
  BY <1>1, <1>2, <1>3, <1>4, <1>5 DEF GoOrder
\* The search that "go" asked for, and not the end of a thread.
<1> DEFINE Last == j = "search" /\ ~exit[t]
<1>9. ASSUME Last PROVE t = Main /\ Asked /\ ~Has(R, UciSteps)
  BY <1>1, <1>2, <1>4, <1>9 DEF UciOrder, Asked
<1>10. ASSUME ~Last PROVE Quiet' /\ \A u \in Pool : ~Busy(u)'
  BY <1>7, <1>10 DEF Quiet, Busy, Posted
<1>11. \A u \in Pool : /\ Busy(u) = FALSE
                       /\ u # t => ~Busy(u)'
                       /\ u # t => Short(u)' = Short(u)
                       /\ Short(t)' => j \in ShortJobs
  BY <1>7 DEF Quiet, Busy, Posted, Short, ShortJobs
<1>12. \A A : A \subseteq UciSteps /\ Last => ~Has(R, A)
  BY <1>9 DEF Has
<1>13. NeedQuiet \subseteq UciSteps /\ \A u \in Pool : On("wait", u) \subseteq UciSteps
  BY DEF NeedQuiet, On, UciSteps, UciOps
<1> HIDE DEF Last
<1>14. Lives'
  <2>1. ASSUME NEW u \in Pool, Alive(u)
        PROVE  Guarded(U', Op("resize") \cup On("make", u), On("kill", u) \cup On("join", u))
    <3>1. Guarded(U, Op("resize") \cup On("make", u), On("kill", u) \cup On("join", u))
      BY <1>1, <2>1 DEF Lives
    <3>2. a \notin On("kill", u) \cup On("join", u)
      BY <1>4
    <3>3. b \notin Op("resize") \cup On("make", u)
      BY <1>5
    <3> QED BY <1>2, <1>3, <3>1, <3>2, <3>3
  <2>2. \A m \in Pool : Has(U', On("resize", m)) => ~Has(U', MakesBeyond(m))
    BY <1>1, <1>2, <1>3, <1>5 DEF Lives
  <2>3. Guarded(U', MakesBeyond(n), Op("resize"))
    BY <1>1, <1>2, <1>3, <1>4, <1>5 DEF Lives
  <2>4. \A u \in Pool : Barred(U', On("make", u), Op("resize") \cup On("make", u))
    BY <1>1, <1>2, <1>3, <1>5 DEF Lives
  <2> QED BY <1>1, <2>1, <2>2, <2>3, <2>4 DEF Lives, Alive
<1>15. UciOrder'
  <2>1. Quiet' \/ Guarded(U', NeedQuiet, On("wait", Main))
    <3>1. CASE Last
      <4>1. Guarded(R, NeedQuiet, On("wait", Main))
        BY <1>12, <1>13, <3>1, Absent
      <4> QED BY <1>3, <1>5, <4>1
    <3> QED BY <1>10, <3>1
  <2>2. \A u \in Pool : Has(R, Posts(u, "search")) => u = Main /\ ~exit[Main]
    BY <1>1 DEF UciOrder
  <2>3. \A u \in Pool : Has(U', Posts(u, "search")) => u = Main
    BY <1>3, <1>5, <2>2
  <2>4. ASSUME Asked' PROVE Barred(U', Posts(Main, "search"), UciSteps) /\ ~Has(U', Changes)
    <3>1. Asked
      BY <1>2, <1>3, <1>5, <1>6, <2>4 DEF Asked
    <3> QED BY <1>1, <1>2, <1>3, <1>5, <1>6, <3>1 DEF UciOrder
  <2>5. loop => /\ exit[Main] => Has(U', On("make", Main))
                /\ Awaited(U', On("kill", Main), On("make", Main))
    BY <1>1, <1>2, <1>3, <1>4, <1>5 DEF UciOrder
  <2> QED BY <1>1, <1>3, <2>1, <2>2, <2>3, <2>4, <2>5 DEF UciOrder
<1>16. JobsAreAwaited'
  <2>1. ASSUME NEW u \in Pool PROVE Awaited(U', ShortRuns(u), On("wait", u))
    BY <1>1, <1>2, <1>3, <1>5 DEF JobsAreAwaited
  <2>2. ASSUME NEW u \in Pool, Short(u)' PROVE Quiet' /\ Has(U', On("wait", u))
    <3>1. CASE u = t
      <4>1. j \in ShortJobs
        BY <1>11, <2>2, <3>1
      <4>2. ~Last
        BY <4>1 DEF Last, ShortJobs
      <4>3. Has(R, On("wait", t))
        BY <1>1, <1>2, <1>4, <4>1 DEF JobsAreAwaited
      <4> QED BY <1>3, <1>10, <3>1, <4>2, <4>3
    <3>2. CASE u # t
      <4>1. Has(R, On("wait", u))
        BY <1>1, <1>2, <1>4, <1>11, <2>2, <3>2 DEF JobsAreAwaited
      <4>2. ~Last
        BY <1>12, <1>13, <4>1
      <4> QED BY <1>3, <1>10, <4>1, <4>2
    <3> QED BY <3>1, <3>2
  <2> QED BY <2>1, <2>2 DEF JobsAreAwaited
<1>17. MainOrder'
  BY Untouched
<1>18. HelpersAreAwaited'
  <2>1. \A u \in Pool \ {Main} : ~Busy(u)'
    BY <1>9, <1>10, <1>11
  <2> QED BY <1>1, <2>1 DEF HelpersAreAwaited
<1>19. Order'
  BY <1>15, <1>16, <1>17, <1>18 DEF Order
<1>20. SetUpBeforeSearch'
  <2>1. ASSUME Busy(Main)' PROVE setupStates # 0 /\ \A u \in 1..n : Current(u)
    <3>1. Last
      BY <1>6, <1>10, <2>1
    <3>2. setupStates # 0
      BY <1>1, <1>8, <1>9, <3>1 DEF SetUpBeforeSearch
    <3>3. ASSUME NEW u \in 1..n PROVE Current(u)
      <4>1. ~Has(U, Posts(u, "setup"))
        <5>1. ~Has(R, Posts(u, "setup"))
          BY <1>12, <3>1 DEF Posts, UciSteps, UciOps
        <5>2. a \notin Posts(u, "setup")
          BY <1>4, <1>6, <3>1 DEF Last
        <5> QED BY <1>2, <5>1, <5>2
      <4>2. ~Short(u)
        <5>1. ~Has(R, On("wait", u))
          BY <1>6, <1>12, <1>13, <3>1
        <5> QED BY <5>1, <1>1, <1>2, <1>4, <1>6 DEF JobsAreAwaited
      <4>3. "setup" \notin {job[u], jobFunc[u]}
        BY <4>2 DEF Short, ShortJobs
      <4> QED BY <1>1, <1>9, <3>1, <4>1, <4>3 DEF SetUpBeforeSearch
    <3> QED BY <3>2, <3>3
  <2>2. Asked' => Asked
    BY <1>2, <1>3, <1>5, <1>6 DEF Asked
  <2>3. Asked' => setupStates # 0
    BY <1>1, <1>8, <2>2 DEF SetUpBeforeSearch
  <2>4. ASSUME Asked', NEW u \in 1..n
        PROVE  Has(U', Posts(u, "setup")) \/ "setup" \in {job[u], jobFunc'[u]} \/ Current(u)
    <3>1. Has(U, Posts(u, "setup")) \/ "setup" \in {job[u], jobFunc[u]} \/ Current(u)
      BY <1>1, <2>2, <2>4 DEF SetUpBeforeSearch
    <3> QED BY <3>1, <1>2, <1>3, <1>4, <1>6, <1>7
  <2> QED BY <1>1, <1>8, <2>1, <2>3, <2>4 DEF SetUpBeforeSearch, Current
<1>21. GoOrder'
  <2>1. Barred(R, UciSteps \ On("wait", Main), Op("begin"))
    BY <1>8, Absent
  <2> QED BY <1>1, <1>3, <1>8, <2>1 DEF GoOrder
<1>22. Games'
  BY <1>1, <1>20, <1>21, Untouched DEF Games, lists
<1>23. Counted'
  <2>1. Answers' = Answers /\ (Starting <=> Asked)
    BY <1>8 DEF Answers, Starting
  <2>2. CASE Last
    <3>1. ~Asked'
      <4>1. ~Has(R, Posts(Main, "search"))
        BY <1>12, <2>2 DEF Posts, UciSteps, UciOps
      <4> QED BY <1>3, <1>5, <1>6, <4>1 DEF Asked
    <3>2. Searching'
      BY <1>7, <1>9, <2>2 DEF Searching, Posted, Last
    <3>3. Starting
      BY <1>9, <2>1, <2>2
    <3> QED BY <1>1, <2>1, <3>1, <3>2, <3>3 DEF Counted, Starting
  <2>3. CASE ~Last
    <3>1. Asked' <=> Asked
      <4>1. a \in Posts(Main, "search") => exit[Main]
        BY <1>4, <1>6, <2>3 DEF Last
      <4> QED BY <1>2, <1>3, <1>5, <1>6, <4>1 DEF Asked
    <3>2. Searching' <=> Searching
      BY <1>7, <2>3 DEF Searching, Posted, Last
    <3>3. Starting' <=> Starting
      BY <1>8, <3>1 DEF Starting
    <3> QED BY <1>1, <1>10, <2>1, <2>3, <3>2, <3>3 DEF Counted
  <2> QED BY <2>2, <2>3
<1>24. NetworkOrder'
  BY <1>1, <1>2, <1>3, <1>4, <1>5 DEF NetworkOrder, Answers
<1>25. Held'
  BY <1>1, Untouched
<1> QED BY <1>14, <1>19, <1>22, <1>23, <1>24, <1>25 DEF Answering
-----------------------------------------------------------------------------
\* When nothing searches and the UCI thread changes the pool, no search has been
\* asked for, and the parts of the invariant about searches hold of themselves.
LEMMA NothingSearches ==
  ASSUME IInv, Types', U' \in Seq(UciSteps), M' = M, Quiet, Quiet', ~Asked, ~Asked',
         ~Has(U', Op("begin")), Polite => Answers' = gos' \/ Guarded(U', Op("network"), On("wait", Main)),
         UNCHANGED <<job, flags, uci, setUp, lists, printed>>
  PROVE  MainOrder' /\ HelpersAreAwaited' /\ Games' /\ Answering'
<1>1. /\ Types /\ Lives /\ UciOrder /\ JobsAreAwaited /\ MainOrder /\ HelpersAreAwaited
      /\ SetUpBeforeSearch /\ GoOrder /\ Counted /\ NetworkOrder
      /\ UNCHANGED <<limits, told, stop, ponder, gos, commands, loop, states, setupStates, pos>>
      /\ n' \in Pool
  BY DEF IInv, Order, Games, Answering, Types, ProgramTypes, ThreadTypes, flags, uci, lists
<1>2. M = <<>> /\ ~Searching
  BY <1>1, Resting
<1>3. Main \in Pool
  BY <1>1, PoolRange
<1>4. \A t \in Pool : ~Busy(t)'
  BY DEF Quiet
<1>5. MainOrder'
  BY Untouched
<1>6. HelpersAreAwaited'
  BY <1>2, <1>4, EmptyOrder DEF HelpersAreAwaited
<1>7. SetUpBeforeSearch'
  BY <1>3, <1>4 DEF SetUpBeforeSearch
<1>8. GoOrder'
  <2>1. Barred(U', UciSteps \ On("wait", Main), Op("begin"))
    BY Absent
  <2> QED BY <1>1, <2>1 DEF GoOrder
<1>9. GameAlive'
  BY Untouched
<1>10. Counted'
  <2>1. ~Starting /\ ~Starting' /\ Answers' = Answers
    BY DEF Starting, Answers
  <2>2. ~Searching'
    BY <1>2, <1>3, <1>4 DEF Searching, Busy
  <2> QED BY <1>1, <1>2, <2>1, <2>2 DEF Counted
<1>11. NetworkOrder'
  BY DEF NetworkOrder
<1>12. Held'
  BY <1>1, Untouched
<1> QED BY <1>5, <1>6, <1>7, <1>8, <1>9, <1>10, <1>11, <1>12 DEF Games, Answering

\* The UCI thread ends thread t: it tells it to exit, by the job b, and joins it, c.
LEMMA UciKills ==
  ASSUME IInv, Types', NEW a \in UciSteps, NEW R \in Seq(UciSteps), U # <<>>, a = Head(U), R = Tail(U),
         NEW t \in Pool, a.op = "kill", a.th = t,
         NEW b \in UciSteps, b.op = "run", b.th = t, b.job = "search",
         NEW c \in UciSteps, c.op = "join", c.th = t, U' = <<b>> \o (<<c>> \o R), M' = M,
         exit' = [exit EXCEPT ![t] = TRUE],
         UNCHANGED <<n, pc, jobFunc, job, flags, uci, setUp, lists, printed>>
  PROVE  Lives' /\ Order' /\ Games' /\ Answering'
<1>1. /\ Types /\ Lives /\ UciOrder /\ JobsAreAwaited /\ GoOrder /\ NetworkOrder
      /\ U \in Seq(UciSteps) /\ n \in Pool /\ exit \in [Pool -> BOOLEAN] /\ loop' = loop
      /\ gos' = gos /\ Answers' = Answers
  BY DEF IInv, Order, Games, Answering, Types, ProgramTypes, ThreadTypes, uci, Answers
<1>2. /\ \A A : Has(U, A) <=> a \in A \/ Has(R, A)
      /\ \A A, B : Guarded(U, A, B) <=> a \notin A /\ (a \in B \/ Guarded(R, A, B))
      /\ \A A, B : Awaited(U, A, B) <=> (a \in A => Has(R, B)) /\ Awaited(R, A, B)
      /\ \A A, B : Barred(U, A, B) <=> (a \in A => ~Has(R, B)) /\ Barred(R, A, B)
  BY <1>1, FirstStep
<1>3. /\ U' \in Seq(UciSteps) /\ U' # <<>>
      /\ \A A : Has(U', A) <=> b \in A \/ c \in A \/ Has(R, A)
      /\ \A A : Has(Tail(U'), A) <=> c \in A \/ Has(R, A)
      /\ \A A, B : Guarded(U', A, B) <=>
           b \notin A /\ (b \in B \/ (c \notin A /\ (c \in B \/ Guarded(R, A, B))))
      /\ \A A, B : b \notin A /\ c \notin A =>
           /\ Awaited(R, A, B) => Awaited(U', A, B)
           /\ Barred(R, A, B) => Barred(U', A, B)
  <2> DEFINE q == <<c>> \o R
             r == <<b>> \o q
  <2>1. b \in UciSteps /\ c \in UciSteps /\ R \in Seq(UciSteps)
    OBVIOUS
  <2>2. /\ q \in Seq(UciSteps)
        /\ \A A : Has(q, A) <=> c \in A \/ Has(R, A)
        /\ \A A, B : Guarded(q, A, B) <=> c \notin A /\ (c \in B \/ Guarded(R, A, B))
        /\ \A A, B : Awaited(q, A, B) <=> (c \in A => Has(R, B)) /\ Awaited(R, A, B)
        /\ \A A, B : Barred(q, A, B) <=> (c \in A => ~Has(R, B)) /\ Barred(R, A, B)
    BY ONLY <2>1, Preceded
  <2> HIDE DEF q
  <2>3. /\ r \in Seq(UciSteps) /\ r # <<>> /\ Tail(r) = q
        /\ \A A : Has(r, A) <=> b \in A \/ Has(q, A)
        /\ \A A, B : Guarded(r, A, B) <=> b \notin A /\ (b \in B \/ Guarded(q, A, B))
        /\ \A A, B : Awaited(r, A, B) <=> (b \in A => Has(q, B)) /\ Awaited(q, A, B)
        /\ \A A, B : Barred(r, A, B) <=> (b \in A => ~Has(q, B)) /\ Barred(q, A, B)
    BY ONLY <2>1, <2>2, Preceded, ZenonT(40)
  <2>4. U' = r
    BY DEF q
  <2> HIDE DEF r
  <2> QED BY ONLY <2>2, <2>3, <2>4
<1>4. /\ a \in NeedQuiet /\ a \in UciSteps \ On("wait", Main)
      /\ a \notin Op("begin") /\ a \notin Op("resize") /\ a \notin MakesBeyond(n) /\ a \in Changes
      /\ a \notin Op("network") /\ a \notin On("wait", Main) /\ a \notin On("make", Main)
      /\ t = Main => a \in On("kill", Main)
      /\ \A u \in Pool : /\ u # t => a \notin On("kill", u) /\ a \notin On("join", u)
                         /\ a \notin On("wait", u) /\ a \notin Posts(u, "search")
  <2>1. a \in Steps
    BY DEF UciSteps
  <2> QED BY <2>1 DEF NeedQuiet, On, Op, MakesBeyond, Posts, Changes
<1>5. \A d \in {b, c} :
        /\ d \notin Op("begin") /\ d \notin Op("resize") /\ d \notin MakesBeyond(n)
        /\ d \notin Op("network") /\ d \notin On("kill", Main)
        /\ \A m \in Pool : d \notin MakesBeyond(m) /\ d \notin On("resize", m)
        /\ \A u \in Pool : /\ d \notin Op("resize") \cup On("make", u) /\ d \notin On("make", u)
                           /\ d \notin ShortRuns(u)
                           /\ u # t => d \notin Posts(u, "search")
  BY DEF On, Op, MakesBeyond, ShortRuns, Posts, ShortJobs
<1>6. c \in On("join", t) /\ \A u \in Pool : c \notin Posts(u, "search")
  <2>1. c \in Steps
    BY DEF UciSteps
  <2> QED BY <2>1 DEF On, Posts
<1>7. Main \in Pool
  BY <1>1, PoolRange
<1>8. Quiet
  BY <1>1, <1>2, <1>4 DEF UciOrder
<1>9. exit'[t] /\ \A u \in Pool : u # t => exit'[u] = exit[u]
  BY <1>1
<1>10. Quiet' /\ \A u \in Pool : Short(u)' <=> Short(u)
  BY <1>8, <1>9 DEF Quiet, Busy, Posted, Short
<1>11. ~Asked
  BY <1>1, <1>2, <1>4 DEF UciOrder
<1>12. \A u \in Pool : ~Has(R, Posts(u, "search"))
  BY <1>1, <1>2, <1>7, <1>11 DEF UciOrder, Asked
<1>13. ~Asked'
  BY <1>3, <1>5, <1>6, <1>7, <1>9, <1>12 DEF Asked
<1>14. ~Has(U', Op("begin"))
  BY <1>1, <1>2, <1>3, <1>4, <1>5 DEF GoOrder
<1>15. Lives'
  <2>1. ASSUME NEW u \in Pool, Alive(u)
        PROVE  Guarded(U', Op("resize") \cup On("make", u), On("kill", u) \cup On("join", u))
    <3>1. Guarded(U, Op("resize") \cup On("make", u), On("kill", u) \cup On("join", u))
      BY <1>1, <2>1 DEF Lives
    <3>2. /\ b \notin Op("resize") \cup On("make", u)
          /\ c \notin Op("resize") \cup On("make", u)
      BY <1>5
    <3>3. CASE u = t
      BY <1>3, <1>6, <3>2, <3>3
    <3>4. CASE u # t
      <4>1. a \notin On("kill", u) \cup On("join", u)
        BY <1>4, <3>4
      <4> QED BY <1>2, <1>3, <3>1, <3>2, <4>1
    <3> QED BY <3>3, <3>4
  <2>2. \A m \in Pool : Has(U', On("resize", m)) => ~Has(U', MakesBeyond(m))
    BY <1>1, <1>2, <1>3, <1>5 DEF Lives
  <2>3. Guarded(U', MakesBeyond(n), Op("resize"))
    BY <1>1, <1>2, <1>3, <1>4, <1>5 DEF Lives
  <2>4. \A u \in Pool : Barred(U', On("make", u), Op("resize") \cup On("make", u))
    BY <1>1, <1>2, <1>3, <1>5 DEF Lives
  <2> QED BY <1>1, <2>1, <2>2, <2>3, <2>4 DEF Lives, Alive
<1>16. UciOrder'
  <2>1. \A u \in Pool : Has(U', Posts(u, "search")) => exit'[u]
    BY <1>3, <1>5, <1>6, <1>9, <1>12
  <2>2. \A u \in Pool : ~Has(Tail(U'), Posts(u, "search"))
    BY <1>3, <1>6, <1>12
  <2>3. loop => /\ exit'[Main] => Has(U', On("make", Main))
                /\ Awaited(U', On("kill", Main), On("make", Main))
    BY <1>1, <1>2, <1>3, <1>4, <1>5, <1>7, <1>9 DEF UciOrder
  <2> QED BY <1>1, <1>10, <1>13, <2>1, <2>2, <2>3 DEF UciOrder
<1>17. JobsAreAwaited'
  <2>1. ASSUME NEW u \in Pool
        PROVE  /\ Awaited(U', ShortRuns(u), On("wait", u))
               /\ Short(u) => Has(U', On("wait", u))
    BY <1>1, <1>2, <1>3, <1>4, <1>5 DEF JobsAreAwaited
  <2> QED BY <1>10, <2>1 DEF JobsAreAwaited
<1>18. Polite => Answers' = gos' \/ Guarded(U', Op("network"), On("wait", Main))
  BY <1>1, <1>2, <1>3, <1>4, <1>5 DEF NetworkOrder
<1>19. MainOrder' /\ HelpersAreAwaited' /\ Games' /\ Answering'
  BY <1>3, <1>8, <1>10, <1>11, <1>13, <1>14, <1>18, NothingSearches
<1> QED BY <1>15, <1>16, <1>17, <1>19 DEF Order
-----------------------------------------------------------------------------
\* The UCI thread makes thread t anew: it waits for it (w), has it allocate its
\* worker (r), and waits for that (w).
LEMMA UciMakes ==
  ASSUME IInv, Types', NEW a \in UciSteps, NEW R \in Seq(UciSteps), U # <<>>, a = Head(U), R = Tail(U),
         NEW t \in Pool, a.op = "make", a.th = t,
         NEW w \in UciSteps, w.op = "wait", w.th = t,
         NEW r \in UciSteps, r.op = "run", r.th = t, r.job = "alloc",
         U' = <<w>> \o (<<r>> \o (<<w>> \o R)), M' = M,
         pc' = [pc EXCEPT ![t] = "top"], exit' = [exit EXCEPT ![t] = FALSE],
         jobFunc' = [jobFunc EXCEPT ![t] = "none"],
         UNCHANGED <<n, job, flags, uci, setUp, lists, printed>>
  PROVE  Lives' /\ Order' /\ Games' /\ Answering'
<1>1. /\ Types /\ Lives /\ UciOrder /\ JobsAreAwaited /\ GoOrder /\ NetworkOrder
      /\ U \in Seq(UciSteps) /\ n \in Pool /\ exit \in [Pool -> BOOLEAN] /\ loop' = loop
      /\ pc \in [Pool -> {"gone", "top", "asleep", "job"}] /\ jobFunc \in [Pool -> Jobs]
      /\ gos' = gos /\ Answers' = Answers
  BY DEF IInv, Order, Games, Answering, Types, ProgramTypes, ThreadTypes, uci, Answers
<1>2. /\ \A A : Has(U, A) <=> a \in A \/ Has(R, A)
      /\ \A A, B : Guarded(U, A, B) <=> a \notin A /\ (a \in B \/ Guarded(R, A, B))
      /\ \A A, B : Awaited(U, A, B) <=> (a \in A => Has(R, B)) /\ Awaited(R, A, B)
      /\ \A A, B : Barred(U, A, B) <=> (a \in A => ~Has(R, B)) /\ Barred(R, A, B)
  BY <1>1, FirstStep
<1>3. /\ U' \in Seq(UciSteps) /\ U' # <<>>
      /\ \A A : Has(U', A) <=> w \in A \/ r \in A \/ Has(R, A)
      /\ \A A : Has(Tail(U'), A) <=> r \in A \/ w \in A \/ Has(R, A)
      /\ \A A, B : w \notin A /\ r \notin A /\ Guarded(R, A, B) => Guarded(U', A, B)
      /\ \A A, B : w \notin A /\ r \notin A /\ Barred(R, A, B) => Barred(U', A, B)
      /\ \A A, B : w \notin A /\ (r \in A => w \in B) /\ Awaited(R, A, B) => Awaited(U', A, B)
  <2> DEFINE p == <<w>> \o R
             q == <<r>> \o p
             s == <<w>> \o q
  <2>1. w \in UciSteps /\ r \in UciSteps /\ R \in Seq(UciSteps)
    OBVIOUS
  <2>2. /\ p \in Seq(UciSteps)
        /\ \A A : Has(p, A) <=> w \in A \/ Has(R, A)
        /\ \A A, B : Guarded(p, A, B) <=> w \notin A /\ (w \in B \/ Guarded(R, A, B))
        /\ \A A, B : Awaited(p, A, B) <=> (w \in A => Has(R, B)) /\ Awaited(R, A, B)
        /\ \A A, B : Barred(p, A, B) <=> (w \in A => ~Has(R, B)) /\ Barred(R, A, B)
    BY ONLY <2>1, Preceded
  <2> HIDE DEF p
  <2>3. /\ q \in Seq(UciSteps)
        /\ \A A : Has(q, A) <=> r \in A \/ Has(p, A)
        /\ \A A, B : Guarded(q, A, B) <=> r \notin A /\ (r \in B \/ Guarded(p, A, B))
        /\ \A A, B : Awaited(q, A, B) <=> (r \in A => Has(p, B)) /\ Awaited(p, A, B)
        /\ \A A, B : Barred(q, A, B) <=> (r \in A => ~Has(p, B)) /\ Barred(p, A, B)
    BY ONLY <2>1, <2>2, Preceded, SMTT(30)
  <2> HIDE DEF q
  <2>4. /\ s \in Seq(UciSteps) /\ s # <<>> /\ Tail(s) = q
        /\ \A A : Has(s, A) <=> w \in A \/ Has(q, A)
        /\ \A A, B : Guarded(s, A, B) <=> w \notin A /\ (w \in B \/ Guarded(q, A, B))
        /\ \A A, B : Awaited(s, A, B) <=> (w \in A => Has(q, B)) /\ Awaited(q, A, B)
        /\ \A A, B : Barred(s, A, B) <=> (w \in A => ~Has(q, B)) /\ Barred(q, A, B)
    BY ONLY <2>1, <2>3, Preceded, ZenonT(40)
  <2>5. U' = s
    BY DEF p, q
  <2> HIDE DEF s
  <2> QED BY ONLY <2>2, <2>3, <2>4, <2>5
<1>4. /\ a \in NeedQuiet /\ a \in UciSteps \ On("wait", Main) /\ a \in Changes
      /\ a \notin Op("begin") /\ a \notin Op("resize") /\ a \in On("make", t)
      /\ a \notin Op("network") /\ a \notin On("wait", Main)
      /\ t # Main => a \notin On("make", Main)
      /\ t > n => a \in MakesBeyond(n)
      /\ \A u \in Pool : /\ a \notin On("kill", u) /\ a \notin On("join", u)
                         /\ a \notin On("wait", u)
  <2>1. a \in Steps
    BY DEF UciSteps
  <2> QED BY <2>1 DEF NeedQuiet, On, Op, MakesBeyond, Changes
<1>5. \A d \in {w, r} :
        /\ d \notin Op("begin") /\ d \notin Op("resize") /\ d \notin MakesBeyond(n)
        /\ d \notin Op("network") /\ d \notin On("kill", Main)
        /\ \A m \in Pool : d \notin MakesBeyond(m) /\ d \notin On("resize", m)
        /\ \A u \in Pool : /\ d \notin Op("resize") \cup On("make", u) /\ d \notin On("make", u)
                           /\ u # t => d \notin ShortRuns(u)
                           /\ d \notin Posts(u, "search")
  BY DEF On, Op, MakesBeyond, ShortRuns, Posts, ShortJobs
<1>6. w \in On("wait", t) /\ \A u \in Pool : w \notin ShortRuns(u)
  <2>1. w \in Steps
    BY DEF UciSteps
  <2> QED BY <2>1 DEF On, ShortRuns
<1>7. Main \in Pool /\ t \in Nat /\ n \in Nat
  BY <1>1, PoolRange
<1>8. Quiet
  BY <1>1, <1>2, <1>4 DEF UciOrder
<1>9. pc[t] = "gone" /\ job[t] = "none"
  <2>1. ~Guarded(U, Op("resize") \cup On("make", t), On("kill", t) \cup On("join", t))
    BY <1>2, <1>4
  <2>2. ~Alive(t)
    BY <1>1, <2>1 DEF Lives
  <2> QED BY <1>1, <2>2 DEF Alive, Lives
<1>10. /\ exit'[t] = FALSE /\ \A u \in Pool : u # t => exit'[u] = exit[u]
       /\ jobFunc'[t] = "none" /\ \A u \in Pool : u # t => jobFunc'[u] = jobFunc[u]
       /\ pc'[t] = "top" /\ \A u \in Pool : u # t => pc'[u] = pc[u]
  BY <1>1
<1>11. Quiet' /\ ~Short(t)' /\ \A u \in Pool : Short(u)' => Short(u)
  BY <1>8, <1>9, <1>10 DEF Quiet, Busy, Posted, Short, ShortJobs
<1>12. ~Asked
  BY <1>1, <1>2, <1>4 DEF UciOrder
<1>13. \A u \in Pool : ~Has(R, Posts(u, "search"))
  BY <1>1, <1>2, <1>7, <1>12 DEF UciOrder, Asked
<1>14. ~Asked' /\ \A u \in Pool : ~Has(U', Posts(u, "search")) /\ ~Has(Tail(U'), Posts(u, "search"))
  BY <1>3, <1>5, <1>7, <1>13 DEF Asked
<1>15. ~Has(U', Op("begin"))
  BY <1>1, <1>2, <1>3, <1>4, <1>5 DEF GoOrder
<1>16. Lives'
  <2>1. ASSUME NEW u \in Pool, Alive(u)'
        PROVE  /\ u <= n
               /\ Guarded(U', Op("resize") \cup On("make", u), On("kill", u) \cup On("join", u))
    <3>1. /\ w \notin Op("resize") \cup On("make", u)
          /\ r \notin Op("resize") \cup On("make", u)
      BY <1>5
    <3>2. CASE u = t
      <4>1. a \notin MakesBeyond(n)
        BY <1>1, <1>2 DEF Lives
      <4>2. u <= n
        BY <1>4, <1>7, <3>2, <4>1
      <4>3. ~Has(R, Op("resize") \cup On("make", t))
        BY <1>1, <1>2, <1>4 DEF Lives
      <4>4. Guarded(R, Op("resize") \cup On("make", u), On("kill", u) \cup On("join", u))
        BY <3>2, <4>3, Absent
      <4> QED BY <1>3, <3>1, <4>2, <4>4
    <3>3. CASE u # t
      <4>1. Alive(u)
        BY <1>10, <2>1, <3>3 DEF Alive
      <4>2. /\ u <= n
            /\ Guarded(U, Op("resize") \cup On("make", u), On("kill", u) \cup On("join", u))
        BY <1>1, <4>1 DEF Lives
      <4>3. a \notin On("kill", u) \cup On("join", u)
        BY <1>4
      <4> QED BY <1>2, <1>3, <3>1, <4>2, <4>3
    <3> QED BY <3>2, <3>3
  <2>2. \A m \in Pool : Has(U', On("resize", m)) => ~Has(U', MakesBeyond(m))
    BY <1>1, <1>2, <1>3, <1>5 DEF Lives
  <2>3. Guarded(U', MakesBeyond(n), Op("resize"))
    BY <1>1, <1>2, <1>3, <1>4, <1>5 DEF Lives
  <2>4. \A u \in Pool : Barred(U', On("make", u), Op("resize") \cup On("make", u))
    BY <1>1, <1>2, <1>3, <1>5 DEF Lives
  <2>5. \A u \in Pool : pc'[u] = "job" <=> job'[u] # "none"
    BY <1>1, <1>9, <1>10 DEF Lives
  <2> QED BY <1>1, <2>1, <2>2, <2>3, <2>4, <2>5 DEF Lives
<1>17. UciOrder'
  <2>1. loop => /\ exit'[Main] => Has(U', On("make", Main))
                /\ Awaited(U', On("kill", Main), On("make", Main))
    BY <1>1, <1>2, <1>3, <1>4, <1>5, <1>7, <1>10 DEF UciOrder
  <2> QED BY <1>1, <1>11, <1>14, <2>1 DEF UciOrder
<1>18. JobsAreAwaited'
  <2>1. ASSUME NEW u \in Pool PROVE Awaited(U', ShortRuns(u), On("wait", u))
    <3>1. Awaited(R, ShortRuns(u), On("wait", u))
      BY <1>1, <1>2 DEF JobsAreAwaited
    <3> QED BY <1>3, <1>5, <1>6, <3>1
  <2>2. ASSUME NEW u \in Pool, Short(u)' PROVE Has(U', On("wait", u))
    BY <1>1, <1>2, <1>3, <1>4, <1>11, <2>2 DEF JobsAreAwaited
  <2> QED BY <1>11, <2>1, <2>2 DEF JobsAreAwaited
<1>19. Polite => Answers' = gos' \/ Guarded(U', Op("network"), On("wait", Main))
  BY <1>1, <1>2, <1>3, <1>4, <1>5 DEF NetworkOrder
<1>20. MainOrder' /\ HelpersAreAwaited' /\ Games' /\ Answering'
  BY <1>3, <1>8, <1>11, <1>12, <1>14, <1>15, <1>19, NothingSearches
<1> QED BY <1>16, <1>17, <1>18, <1>20 DEF Order

\* The UCI thread changes the size of the pool, which has no threads left.
LEMMA UciResizes ==
  ASSUME IInv, Types', NEW a \in UciSteps, NEW R \in Seq(UciSteps), U # <<>>, a = Head(U), R = Tail(U),
         a.op = "resize", n' = a.th, U' = R, M' = M,
         UNCHANGED <<cvs, flags, uci, setUp, lists, printed>>
  PROVE  Lives' /\ Order' /\ Games' /\ Answering'
<1>1. /\ Types /\ Lives /\ UciOrder /\ JobsAreAwaited /\ GoOrder /\ NetworkOrder
      /\ U \in Seq(UciSteps) /\ n' \in Pool /\ UNCHANGED <<pc, exit, job, jobFunc, loop>>
      /\ gos' = gos /\ Answers' = Answers
  BY DEF IInv, Order, Games, Answering, Types, ProgramTypes, ThreadTypes, uci, Answers, cvs
<1>2. /\ \A A : Has(U, A) <=> a \in A \/ Has(R, A)
      /\ \A A, B : Guarded(U, A, B) <=> a \notin A /\ (a \in B \/ Guarded(R, A, B))
      /\ \A A, B : Awaited(U, A, B) <=> (a \in A => Has(R, B)) /\ Awaited(R, A, B)
      /\ \A A, B : Barred(U, A, B) <=> (a \in A => ~Has(R, B)) /\ Barred(R, A, B)
  BY <1>1, FirstStep
<1>3. /\ a \in NeedQuiet /\ a \in UciSteps \ On("wait", Main) /\ a \in Changes
      /\ a \notin Op("begin") /\ a \in Op("resize") /\ a \in On("resize", n')
      /\ a \notin Op("network") /\ a \notin On("wait", Main) /\ a \notin On("make", Main)
      /\ \A u \in Pool : a \notin On("wait", u)
  <2>1. a \in Steps
    BY DEF UciSteps
  <2> QED BY <2>1 DEF NeedQuiet, On, Op, Changes
<1>4. Main \in Pool
  BY <1>1, PoolRange
<1>5. Quiet /\ Quiet' /\ \A u \in Pool : Short(u)' <=> Short(u)
  <2>1. Quiet
    BY <1>1, <1>2, <1>3 DEF UciOrder
  <2> QED BY <1>1, <2>1 DEF Quiet, Busy, Posted, Short
<1>6. ASSUME NEW t \in Pool PROVE ~Alive(t)
  <2>1. a \in Op("resize") \cup On("make", t)
    BY <1>3
  <2>2. ~Guarded(U, Op("resize") \cup On("make", t), On("kill", t) \cup On("join", t))
    BY <1>2, <2>1
  <2> QED BY <1>1, <2>2 DEF Lives
<1>7. ~Asked
  BY <1>1, <1>2, <1>3 DEF UciOrder
<1>8. \A u \in Pool : ~Has(R, Posts(u, "search"))
  BY <1>1, <1>2, <1>4, <1>7 DEF UciOrder, Asked
<1>9. ~Asked' /\ ~Has(U', Op("begin"))
  BY <1>1, <1>2, <1>3, <1>4, <1>8 DEF Asked, GoOrder
<1>10. Lives'
  <2>1. \A m \in Pool : Has(R, On("resize", m)) => ~Has(R, MakesBeyond(m))
    BY <1>1, <1>2 DEF Lives
  <2>2. Guarded(R, MakesBeyond(n'), Op("resize"))
    <3>1. ~Has(R, MakesBeyond(n'))
      BY <1>1, <1>2, <1>3 DEF Lives
    <3> QED BY <3>1, Absent
  <2>3. \A t \in Pool : Barred(R, On("make", t), Op("resize") \cup On("make", t))
    BY <1>1, <1>2 DEF Lives
  <2>4. \A t \in Pool : ~Alive(t)'
    BY <1>1, <1>6 DEF Alive
  <2> QED BY <1>1, <2>1, <2>2, <2>3, <2>4 DEF Lives
<1>11. UciOrder'
  <2>1. R # <<>> => \A u \in Pool : ~Has(Tail(R), Posts(u, "search"))
    BY <1>8, FirstStep
  <2>2. loop => /\ exit[Main] => Has(R, On("make", Main))
                /\ Awaited(R, On("kill", Main), On("make", Main))
    BY <1>1, <1>2, <1>3, <1>4 DEF UciOrder
  <2> QED BY <1>1, <1>5, <1>8, <1>9, <2>1, <2>2 DEF UciOrder
<1>12. JobsAreAwaited'
  <2>1. ASSUME NEW u \in Pool
        PROVE  Awaited(R, ShortRuns(u), On("wait", u)) /\ (Short(u) => Has(R, On("wait", u)))
    BY <1>1, <1>2, <1>3 DEF JobsAreAwaited
  <2> QED BY <1>5, <2>1 DEF JobsAreAwaited
<1>13. Polite => Answers' = gos' \/ Guarded(U', Op("network"), On("wait", Main))
  BY <1>1, <1>2, <1>3 DEF NetworkOrder
<1>14. MainOrder' /\ HelpersAreAwaited' /\ Games' /\ Answering'
  BY <1>1, <1>5, <1>7, <1>9, <1>13, NothingSearches
<1> QED BY <1>10, <1>11, <1>12, <1>14 DEF Order
-----------------------------------------------------------------------------
\* The UCI thread begins the search that "go" asked for: the game of the engine's
\* position becomes the one of the search.
LEMMA UciBegins ==
  ASSUME IInv, NEW a \in UciSteps, NEW R \in Seq(UciSteps), U # <<>>, a = Head(U), R = Tail(U),
         a.op = "begin", U' = R, M' = M, gos' = gos + 1, stop' = FALSE, told' = {},
         ponder' = limits'.ponder, states' = 0, pos' = pos,
         setupStates' = IF states = 0 THEN setupStates ELSE states,
         UNCHANGED <<n, pc, exit, jobFunc, job, loop, commands, setUp, printed>>
  PROVE  Games' /\ Answering'
<1>1. /\ Types /\ Lives /\ UciOrder /\ MainOrder /\ HelpersAreAwaited
      /\ SetUpBeforeSearch /\ GoOrder /\ GameAlive /\ Counted
      /\ U \in Seq(UciSteps) /\ n \in Pool
      /\ gos \in Nat /\ commands \in Nat /\ Answers \in Nat /\ setUp \in [Pool -> [go : Nat, list : 0..(MaxCommands + 1)]]
  <2>1. CommandTypes
    BY DEF IInv, Types
  <2>2. gos \in Nat /\ commands \in Nat /\ Answers \in Nat
    BY <2>1, PoolAssumption DEF CommandTypes, Answers
  <2> QED BY <2>1, <2>2 DEF IInv, Order, Games, Answering, Types, ProgramTypes, ThreadTypes, CommandTypes
<1>2. /\ \A A : Has(U, A) <=> a \in A \/ Has(R, A)
      /\ \A A, B : Guarded(U, A, B) <=> a \notin A /\ (a \in B \/ Guarded(R, A, B))
      /\ \A A, B : Barred(U, A, B) <=> (a \in A => ~Has(R, B)) /\ Barred(R, A, B)
  BY <1>1, FirstStep
<1>3. /\ a \in NeedQuiet /\ a \in UciSteps \ On("wait", Main) /\ a \in Op("begin")
      /\ a \notin On("wait", Main) /\ \A t \in Pool : \A j : a \notin Posts(t, j)
  <2>1. a \in Steps
    BY DEF UciSteps
  <2> QED BY <2>1 DEF NeedQuiet, On, Op, Posts
<1>4. Main \in Pool /\ 1..n \subseteq Pool
  BY <1>1, PoolRange
<1>5. Quiet /\ M = <<>> /\ ~Searching
  <2>1. Quiet
    BY <1>1, <1>2, <1>3 DEF UciOrder
  <2> QED BY <1>1, <2>1, Resting
<1>6. Quiet' /\ ~Busy(Main)' /\ ~Searching'
  <2>1. Quiet' /\ ~Busy(Main)'
    BY <1>4, <1>5 DEF Quiet, Busy, Posted
  <2> QED BY <2>1 DEF Searching, Busy
<1>7. ~Has(R, Op("begin")) /\ Asked /\ Asked' /\ gos < commands
  BY <1>1, <1>2, <1>3, <1>4 DEF GoOrder, Asked
<1>8. setupStates' = pos /\ pos # 0
  BY <1>1 DEF GameAlive
<1>9. SetUpBeforeSearch'
  <2>1. ASSUME NEW t \in 1..n PROVE Has(R, Posts(t, "setup"))
    BY <1>1, <1>2, <1>3, <1>4, <1>7 DEF SetUpBeforeSearch
  <2> QED BY <1>6, <1>8, <2>1 DEF SetUpBeforeSearch
<1>10. GoOrder'
  <2>1. Barred(R, UciSteps \ On("wait", Main), Op("begin"))
    BY <1>7, Absent
  <2> QED BY <1>1, <1>7, <2>1 DEF GoOrder
<1>11. GameAlive'
  BY <1>8 DEF GameAlive
<1>12. Counted'
  <2>1. ~Starting /\ Starting' /\ Answers' = Answers
    BY <1>2, <1>3, <1>7 DEF Starting, Answers
  <2>2. gos = Answers
    BY <1>1, <1>5, <2>1 DEF Counted
  <2>3. gos' = Answers' + 1 /\ \A t \in Pool : setUp'[t].go <= gos'
    BY <1>1, <2>1, <2>2 DEF Counted
  <2> QED BY <1>6, <2>1, <2>3 DEF Counted
<1>13. NetworkOrder'
  <2>1. ~Has(R, Op("network"))
    <3>1. ~Has(R, Changes)
      BY <1>1, <1>2, <1>7 DEF UciOrder
    <3> QED BY <3>1 DEF Has, Changes
  <2>2. Guarded(R, Op("network"), On("wait", Main))
    BY <2>1, Absent
  <2> QED BY <2>2 DEF NetworkOrder
<1>14. Held'
  <2>1. /\ ~Has(M', Op("timeout")) /\ Guarded(M', Op("raise"), Op("linger"))
        /\ Guarded(M', Op("bestmove"), Op("linger"))
    BY <1>5, EmptyOrder
  <2> QED BY <2>1 DEF Held
<1> QED BY <1>9, <1>10, <1>11, <1>12, <1>13, <1>14 DEF Games, Answering
-----------------------------------------------------------------------------
\* The searching main thread has done the step a, before its answer: the helpers it
\* started are still awaited.
LEMMA MainAdvances ==
  ASSUME IInv, NEW a \in MainSteps, NEW R \in Seq(MainSteps), M # <<>>, a = Head(M), R = Tail(M),
         a.op \notin {"bestmove", "return"}, a.op = "wait" => ~searching[a.th],
         job[Main] = "search", M' = R, U' = U, UNCHANGED <<n, exit, jobFunc, job, gos, printed, setUp>>
  PROVE  MainOrder' /\ HelpersAreAwaited' /\ Counted'
<1>1. /\ Types /\ Lives /\ MainOrder /\ HelpersAreAwaited /\ Counted /\ M \in Seq(MainSteps)
  BY DEF IInv, Order, Answering, Types, ProgramTypes
<1>2. /\ \A A : Has(M, A) <=> a \in A \/ Has(R, A)
      /\ \A A, B : Guarded(M, A, B) <=> a \notin A /\ (a \in B \/ Guarded(R, A, B))
      /\ \A A, B : Awaited(M, A, B) <=> (a \in A => Has(R, B)) /\ Awaited(R, A, B)
      /\ \A A, B : Barred(M, A, B) <=> (a \in A => ~Has(R, B)) /\ Barred(R, A, B)
      /\ \A A, B, C : Separated(M, A, B, C) <=>
           (a \in A => Guarded(R, C, B)) /\ Separated(R, A, B, C)
  BY <1>1, FirstStep
<1>3. /\ a \in MainSteps \ Op("return") /\ a \notin Op("bestmove") /\ a \notin Endings
      /\ \A t \in Pool : a \in On("wait", t) => ~searching[t]
  BY DEF Op, On, Endings
<1>4. Has(R, Op("return")) /\ R # <<>>
  <2>1. Has(R, Op("return"))
    BY <1>1, <1>2, <1>3 DEF MainOrder
  <2> QED BY ONLY <2>1, EmptyOrder
<1>5. (Quiet' <=> Quiet) /\ \A t \in Pool : Busy(t)' <=> Busy(t)
  BY DEF Quiet, Busy, Posted
<1>6. MainOrder'
  BY <1>1, <1>2 DEF MainOrder
<1>7. HelpersAreAwaited'
  <2>1. ASSUME NEW t \in Pool \ {Main}, Busy(t) PROVE t <= n /\ Guarded(R, Endings, On("wait", t))
    <3>1. t <= n /\ Guarded(M, Endings, On("wait", t))
      BY <1>1, <2>1 DEF HelpersAreAwaited
    <3>2. a \notin On("wait", t)
      BY <1>1, <1>3, <2>1, Resting
    <3> QED BY <1>2, <3>1, <3>2
  <2>2. ASSUME NEW t \in Pool \ {Main} PROVE Separated(R, On("run", t), On("wait", t), Endings)
    BY <1>1, <1>2 DEF HelpersAreAwaited
  <2>3. ~Has(R, RunsBeyond(n))
    BY <1>1, <1>2 DEF HelpersAreAwaited
  <2> QED BY <1>4, <1>5, <2>1, <2>2, <2>3 DEF HelpersAreAwaited
<1>8. Counted'
  <2>1. (Starting' <=> Starting) /\ Answers' = Answers
    BY DEF Starting, Asked, Answers
  <2>2. Searching' <=> Searching
    BY <1>2, <1>3, <1>4 DEF Searching, Posted
  <2> QED BY <1>1, <1>5, <2>1, <2>2 DEF Counted
<1> QED BY <1>6, <1>7, <1>8

\* It has prefixed what it has to do with the step b, instead of the step a.
LEMMA MainPuts ==
  ASSUME IInv, NEW a \in MainSteps, NEW R \in Seq(MainSteps), NEW b \in MainSteps,
         a.op \notin {"bestmove", "return", "wait"},
         b.op \notin {"bestmove", "return", "run"},
         NEW q \in Seq(MainSteps), q = <<b>> \o R, M # <<>>, a = Head(M), R = Tail(M)
  PROVE  /\ q # <<>> /\ (Has(q, Op("bestmove")) <=> Has(M, Op("bestmove")))
         /\ Awaited(q, MainSteps \ Op("return"), Op("return"))
         /\ Barred(q, Op("return"), MainSteps)
         /\ Barred(q, Op("bestmove"), MainSteps \ Op("return"))
         /\ \A t \in Pool \ {Main} :
              /\ Busy(t) => Guarded(q, Endings, On("wait", t))
              /\ a \in On("run", t) => Guarded(q, Endings, On("wait", t))
              /\ Separated(q, On("run", t), On("wait", t), Endings)
         /\ ~Has(q, RunsBeyond(n))
<1>1. MainOrder /\ HelpersAreAwaited /\ M \in Seq(MainSteps)
  BY DEF IInv, Order, Types, ProgramTypes
<1>2. /\ \A A : Has(M, A) <=> a \in A \/ Has(R, A)
      /\ \A A, B : Guarded(M, A, B) <=> a \notin A /\ (a \in B \/ Guarded(R, A, B))
      /\ \A A, B : Awaited(M, A, B) <=> (a \in A => Has(R, B)) /\ Awaited(R, A, B)
      /\ \A A, B : Barred(M, A, B) <=> (a \in A => ~Has(R, B)) /\ Barred(R, A, B)
      /\ \A A, B, C : Separated(M, A, B, C) <=>
           (a \in A => Guarded(R, C, B)) /\ Separated(R, A, B, C)
  BY <1>1, FirstStep
<1>3. /\ q # <<>>
      /\ \A A : Has(q, A) <=> b \in A \/ Has(R, A)
      /\ \A A, B : Guarded(q, A, B) <=> b \notin A /\ (b \in B \/ Guarded(R, A, B))
      /\ \A A, B : Awaited(q, A, B) <=> (b \in A => Has(R, B)) /\ Awaited(R, A, B)
      /\ \A A, B : Barred(q, A, B) <=> (b \in A => ~Has(R, B)) /\ Barred(R, A, B)
      /\ \A A, B, C : Separated(q, A, B, C) <=>
           (b \in A => Guarded(R, C, B)) /\ Separated(R, A, B, C)
  <2>1. b \in MainSteps /\ R \in Seq(MainSteps)
    OBVIOUS
  <2> DEFINE r == <<b>> \o R
  <2>2. /\ r # <<>>
        /\ \A A : Has(r, A) <=> b \in A \/ Has(R, A)
        /\ \A A, B : Guarded(r, A, B) <=> b \notin A /\ (b \in B \/ Guarded(R, A, B))
        /\ \A A, B : Awaited(r, A, B) <=> (b \in A => Has(R, B)) /\ Awaited(R, A, B)
        /\ \A A, B : Barred(r, A, B) <=> (b \in A => ~Has(R, B)) /\ Barred(R, A, B)
        /\ \A A, B, C : Separated(r, A, B, C) <=>
             (b \in A => Guarded(R, C, B)) /\ Separated(R, A, B, C)
    BY ONLY <2>1, Preceded
  <2>3. q = r
    OBVIOUS
  <2> HIDE DEF r
  <2> QED BY ONLY <2>2, <2>3
<1>4. /\ a \in MainSteps \ Op("return") /\ a \notin Op("bestmove") /\ a \notin Op("return")
      /\ a \notin Endings /\ \A t \in Pool : a \notin On("wait", t)
  BY DEF Op, On, Endings
<1>5. /\ b \notin Op("return") /\ b \notin Op("bestmove") /\ b \notin Endings
      /\ b \notin RunsBeyond(n) /\ \A t \in Pool : b \notin On("run", t)
  BY DEF Op, On, Endings, RunsBeyond
<1>6. Has(R, Op("return"))
  BY <1>1, <1>2, <1>4 DEF MainOrder
<1>7. /\ Awaited(R, MainSteps \ Op("return"), Op("return"))
      /\ Barred(R, Op("return"), MainSteps)
      /\ Barred(R, Op("bestmove"), MainSteps \ Op("return"))
  BY <1>1, <1>2 DEF MainOrder
<1>8. ASSUME NEW t \in Pool \ {Main}
      PROVE  /\ Busy(t) => Guarded(R, Endings, On("wait", t))
             /\ a \in On("run", t) => Guarded(R, Endings, On("wait", t))
             /\ Separated(R, On("run", t), On("wait", t), Endings)
  <2>1. Separated(M, On("run", t), On("wait", t), Endings)
    BY <1>1 DEF HelpersAreAwaited
  <2>2. Busy(t) => Guarded(M, Endings, On("wait", t))
    BY <1>1 DEF HelpersAreAwaited
  <2> QED BY <1>2, <1>4, <2>1, <2>2
<1>9. ~Has(R, RunsBeyond(n))
  BY <1>1, <1>2 DEF HelpersAreAwaited
<1>10. Has(q, Op("bestmove")) <=> Has(M, Op("bestmove"))
  BY <1>2, <1>3, <1>4, <1>5
<1>11. ASSUME NEW t \in Pool \ {Main}
       PROVE  /\ Busy(t) => Guarded(q, Endings, On("wait", t))
              /\ a \in On("run", t) => Guarded(q, Endings, On("wait", t))
              /\ Separated(q, On("run", t), On("wait", t), Endings)
  BY <1>3, <1>5, <1>8
<1>12. ~Has(q, RunsBeyond(n))
  BY <1>3, <1>5, <1>9
<1> QED BY <1>3, <1>5, <1>6, <1>7, <1>10, <1>11, <1>12
-----------------------------------------------------------------------------
\* The main thread gives helper t the job to search, and has still to notify it: b.
LEMMA MainRuns ==
  ASSUME IInv, NEW a \in MainSteps, NEW R \in Seq(MainSteps), M # <<>>, a = Head(M), R = Tail(M),
         NEW t \in Pool, a.op = "run", a.th = t, ~searching[t], job[Main] = "search",
         NEW b \in MainSteps, b.op = "notify",
         NEW q \in Seq(MainSteps), q = <<b>> \o R, M' = q, U' = U,
         jobFunc' = [jobFunc EXCEPT ![t] = "search"],
         UNCHANGED <<n, exit, job, flags, uci, setUp, lists, printed>>
  PROVE  Order' /\ Games' /\ Answering'
<1>1. /\ Types /\ Lives /\ UciOrder /\ JobsAreAwaited /\ MainOrder /\ HelpersAreAwaited
      /\ SetUpBeforeSearch /\ Counted /\ NetworkOrder /\ Held
      /\ M \in Seq(MainSteps) /\ n \in Pool /\ jobFunc \in [Pool -> Jobs]
      /\ UNCHANGED <<limits, told, stop, ponder, gos, commands, loop, states, setupStates, pos>>
  BY DEF IInv, Order, Games, Answering, Types, ProgramTypes, ThreadTypes, flags, uci, lists
<1>2. Main \in Pool /\ 1..n \subseteq Pool /\ t # Main /\ t \in Nat /\ n \in Nat
  BY <1>1, PoolRange DEF MainSteps
<1>3. /\ q # <<>> /\ (Has(q, Op("bestmove")) <=> Has(M, Op("bestmove")))
      /\ Awaited(q, MainSteps \ Op("return"), Op("return"))
      /\ Barred(q, Op("return"), MainSteps)
      /\ Barred(q, Op("bestmove"), MainSteps \ Op("return"))
      /\ \A u \in Pool \ {Main} :
           /\ Busy(u) => Guarded(q, Endings, On("wait", u))
           /\ a \in On("run", u) => Guarded(q, Endings, On("wait", u))
           /\ Separated(q, On("run", u), On("wait", u), Endings)
      /\ ~Has(q, RunsBeyond(n))
  BY MainPuts
<1>4. a \in On("run", t) /\ (t > n => a \in RunsBeyond(n))
  BY DEF MainSteps, On, RunsBeyond
<1>5. t <= n
  <2>1. a \notin RunsBeyond(n)
    BY <1>1, FirstStep DEF HelpersAreAwaited
  <2> QED BY <1>2, <1>4, <2>1
<1>6. /\ jobFunc[t] = "none" /\ job[t] = "none" /\ jobFunc'[t] = "search"
      /\ \A u \in Pool : u # t => jobFunc'[u] = jobFunc[u]
  BY <1>1, Resting
<1>7. Busy(Main) /\ ~Quiet /\ ~Starting /\ \A u \in Pool : ~Short(u)
  <2>1. Busy(Main) /\ ~Quiet
    BY <1>2 DEF Busy, Quiet
  <2> QED BY <1>1, <2>1 DEF Counted, JobsAreAwaited
<1>8. \A u \in Pool : /\ ~Short(u)'
                      /\ u # t => (Busy(u)' <=> Busy(u))
                      /\ "setup" \in {job[u], jobFunc'[u]} <=> "setup" \in {job[u], jobFunc[u]}
  BY <1>6, <1>7 DEF Short, ShortJobs, Busy, Posted
<1>9. UciOrder'
  <2>1. Asked' <=> Asked
    BY DEF Asked
  <2>2. Guarded(U, NeedQuiet, On("wait", Main))
    BY <1>1, <1>7 DEF UciOrder
  <2> QED BY <1>1, <2>1, <2>2 DEF UciOrder
<1>10. JobsAreAwaited'
  BY <1>1, <1>8 DEF JobsAreAwaited
<1>11. MainOrder'
  BY <1>3 DEF MainOrder
<1>12. HelpersAreAwaited'
  <2>1. ASSUME NEW u \in Pool \ {Main}, Busy(u)' PROVE u <= n /\ Guarded(q, Endings, On("wait", u))
    <3>1. CASE u = t
      BY <1>3, <1>4, <1>5, <3>1
    <3>2. CASE u # t
      BY <1>1, <1>3, <1>8, <2>1, <3>2 DEF HelpersAreAwaited
    <3> QED BY <3>1, <3>2
  <2> QED BY <1>3, <2>1 DEF HelpersAreAwaited
<1>13. SetUpBeforeSearch'
  <2>1. (Asked' <=> Asked) /\ (Busy(Main)' <=> Busy(Main))
    BY <1>2, <1>8 DEF Asked
  <2> QED BY <1>1, <1>2, <1>7, <1>8, <2>1 DEF SetUpBeforeSearch, Current
<1>14. GoOrder' /\ GameAlive' /\ NetworkOrder'
  BY <1>1, Untouched DEF lists
<1>15. Counted'
  <2>1. (Starting' <=> Starting) /\ Answers' = Answers
    BY DEF Starting, Asked, Answers
  <2>2. Searching' <=> Searching
    BY <1>2, <1>3, <1>6 DEF Searching, Posted
  <2> QED BY <1>1, <1>7, <2>1, <2>2 DEF Counted
<1>16. Held'
  <2>1. /\ Has(q, Op("timeout")) <=> Has(M, Op("timeout"))
        /\ Guarded(q, Op("raise"), Op("linger")) <=> Guarded(M, Op("raise"), Op("linger"))
        /\ Guarded(q, Op("bestmove"), Op("linger")) <=> Guarded(M, Op("bestmove"), Op("linger"))
    <3>1. \A o \in {"timeout", "raise", "bestmove", "linger"} : a \notin Op(o) /\ b \notin Op(o)
      BY DEF Op
    <3>2. /\ \A A : Has(M, A) <=> a \in A \/ Has(R, A)
          /\ \A A, B : Guarded(M, A, B) <=> a \notin A /\ (a \in B \/ Guarded(R, A, B))
      BY <1>1, FirstStep
    <3>3. /\ \A A : Has(q, A) <=> b \in A \/ Has(R, A)
          /\ \A A, B : Guarded(q, A, B) <=> b \notin A /\ (b \in B \/ Guarded(R, A, B))
      <4>1. b \in MainSteps /\ R \in Seq(MainSteps)
        OBVIOUS
      <4> DEFINE r == <<b>> \o R
      <4>2. /\ \A A : Has(r, A) <=> b \in A \/ Has(R, A)
            /\ \A A, B : Guarded(r, A, B) <=> b \notin A /\ (b \in B \/ Guarded(R, A, B))
        BY ONLY <4>1, Preceded
      <4>3. q = r
        OBVIOUS
      <4> HIDE DEF r
      <4> QED BY ONLY <4>2, <4>3
    <3> QED BY <3>1, <3>2, <3>3
  <2> QED BY <1>1, <2>1 DEF Held, Free, Contract!MayAnswer
<1> QED BY <1>9, <1>10, <1>11, <1>12, <1>13, <1>14, <1>15, <1>16 DEF Order, Games, Answering

\* An answer that is kept back still is when the main thread has done the step a.
LEMMA MainHeld ==
  ASSUME IInv, NEW a \in MainSteps, NEW R \in Seq(MainSteps), M # <<>>, a = Head(M), R = Tail(M),
         M' = R, UNCHANGED <<limits, told, ponder>>,
         \/ stop' = stop /\ a.op # "linger"
         \/ a.op \in {"timeout", "raise"}
         \/ stop' = stop /\ (stop \/ (~ponder /\ ~limits.infinite))
  PROVE  Held'
<1>1. Held /\ M \in Seq(MainSteps) /\ a \in Steps
  BY DEF IInv, Answering, Types, ProgramTypes, CommandTypes, MainSteps
<1>2. /\ \A A : Has(M, A) <=> a \in A \/ Has(R, A)
      /\ \A A, B : Guarded(M, A, B) <=> a \notin A /\ (a \in B \/ Guarded(R, A, B))
  BY <1>1, FirstStep
<1>3. CASE Free
  BY <1>3 DEF Held, Free, Contract!MayAnswer
<1>4. CASE ~Free
  <2>1. /\ ~stop /\ ~Has(M, Op("timeout")) /\ Guarded(M, Op("raise"), Op("linger"))
        /\ limits.moves => Guarded(M, Op("bestmove"), Op("linger"))
        /\ limits.ponder /\ "ponderhit" \notin told => ponder
    BY <1>1, <1>4 DEF Held
  <2>2. a \notin Op("timeout") /\ a \notin Op("raise")
    BY <1>2, <2>1
  <2>3. a.op \notin {"timeout", "raise"}
    BY <1>1, <2>2 DEF Op
  <2>4. a \notin Op("linger") /\ stop' = stop
    <3>1. ponder \/ limits.infinite
      BY <1>4, <2>1 DEF Free, Contract!MayAnswer
    <3> QED BY <1>1, <2>1, <2>3, <3>1 DEF Op
  <2>5. /\ ~Has(R, Op("timeout")) /\ Guarded(R, Op("raise"), Op("linger"))
        /\ limits.moves => Guarded(R, Op("bestmove"), Op("linger"))
    BY <1>2, <2>1, <2>4
  <2> QED BY <2>1, <2>4, <2>5 DEF Held
<1> QED BY <1>3, <1>4
-----------------------------------------------------------------------------
\* What the main thread has to do when it starts: H.
MainProgram(H) ==
  /\ H \in Seq(MainSteps) /\ H # <<>> /\ Has(H, Op("bestmove"))
  /\ Awaited(H, MainSteps \ Op("return"), Op("return"))
  /\ Barred(H, Op("return"), MainSteps)
  /\ Barred(H, Op("bestmove"), MainSteps \ Op("return"))
  /\ \A t \in Pool \ {Main} : Separated(H, On("run", t), On("wait", t), Endings)
  /\ ~Has(H, RunsBeyond(n))
  /\ ~Has(H, Op("timeout")) /\ Guarded(H, Op("raise"), Op("linger"))
  /\ limits.moves => Guarded(H, Op("bestmove"), Op("linger"))

\* Without root moves there is nothing to search: the answer, and the return.
LEMMA NoMovesProgram ==
  ASSUME Types, ~limits.moves
  PROVE  MainProgram(<<Step("bestmove", Main)>> \o <<Step("return", Main)>>)
<1> DEFINE b == Step("bestmove", Main)
           r == Step("return", Main)
           z == <<r>>
           H == <<b>> \o z
<1>1. n \in Pool
  BY DEF Types, ThreadTypes
<1>2. b \in MainSteps /\ r \in MainSteps /\ b.op = "bestmove" /\ r.op = "return"
  <2>1. /\ b \in Steps /\ b.op = "bestmove" /\ r \in Steps /\ r.op = "return"
    BY <1>1, PoolRange, StepFields DEF MainOps
  <2> HIDE DEF b, r
  <2> QED BY <2>1 DEF MainSteps, MainOps
<1> HIDE DEF b, r
<1>3. /\ z \in Seq(MainSteps) /\ \A A : Has(z, A) <=> r \in A
      /\ \A A, B : /\ Guarded(z, A, B) <=> r \notin A
                   /\ Awaited(z, A, B) <=> r \notin A
                   /\ Barred(z, A, B)
      /\ \A A, B, C : Separated(z, A, B, C)
  BY ONLY <1>2, Single
<1> HIDE DEF z
<1>4. /\ H \in Seq(MainSteps) /\ H # <<>>
      /\ \A A : Has(H, A) <=> b \in A \/ Has(z, A)
      /\ \A A, B : Guarded(H, A, B) <=> b \notin A /\ (b \in B \/ Guarded(z, A, B))
      /\ \A A, B : Awaited(H, A, B) <=> (b \in A => Has(z, B)) /\ Awaited(z, A, B)
      /\ \A A, B : Barred(H, A, B) <=> (b \in A => ~Has(z, B)) /\ Barred(z, A, B)
      /\ \A A, B, C : Separated(H, A, B, C) <=>
           (b \in A => Guarded(z, C, B)) /\ Separated(z, A, B, C)
  BY ONLY <1>2, <1>3, Preceded
<1> HIDE DEF H
<1>5. /\ b \in Op("bestmove") /\ r \in Op("return") /\ r \notin MainSteps \ Op("return")
      /\ \A d \in {b, r} : /\ d \notin Op("timeout") /\ d \notin Op("raise")
                           /\ d \notin RunsBeyond(n) /\ \A t \in Pool : d \notin On("run", t)
      /\ b \notin Op("return")
  BY <1>2 DEF Op, On, RunsBeyond, MainSteps
<1>6. MainProgram(H)
  BY <1>3, <1>4, <1>5 DEF MainProgram
<1> QED BY <1>6 DEF H, b, z, r

\* A search starts the helpers, and awaits them before the answer.
LEMMA SearchProgram ==
  ASSUME Types
  PROVE  MainProgram(Search(n) \o <<Step("return", Main)>>)
<1> DEFINE d == Step("deepen", Main)
           l == Step("linger", Main)
           f == Step("raise", Main)
           b == Step("bestmove", Main)
           r == Step("return", Main)
           p == Runs(2, n, "search")
           k == <<d, l, f>>
           w == Waits(2, n)
           x == p \o k
           y == (w \o <<b>>) \o <<r>>
           H == x \o y
<1>1. n \in Pool /\ n \in Nat /\ 2 <= n + 1 /\ 2 \in Nat /\ \A t \in 2..n : t \in Pool /\ t # Main
  BY PoolAssumption DEF Types, ThreadTypes, Pool, Main
<1>2. /\ d \in MainSteps /\ l \in MainSteps /\ f \in MainSteps /\ b \in MainSteps /\ r \in MainSteps
      /\ d.op = "deepen" /\ l.op = "linger" /\ f.op = "raise" /\ b.op = "bestmove" /\ r.op = "return"
  <2>1. /\ d \in Steps /\ l \in Steps /\ f \in Steps /\ b \in Steps /\ r \in Steps
        /\ d.op = "deepen" /\ l.op = "linger" /\ f.op = "raise" /\ b.op = "bestmove" /\ r.op = "return"
    BY <1>1, PoolRange, StepFields DEF MainOps
  <2> HIDE DEF d, l, f, b, r
  <2> QED BY <2>1 DEF MainSteps, MainOps
<1>3. ASSUME NEW t \in 2..n
      PROVE  /\ Run(t, "search") \in MainSteps /\ Run(t, "search").op = "run"
             /\ Run(t, "search").th = t
             /\ Step("wait", t) \in MainSteps /\ Step("wait", t).op = "wait" /\ Step("wait", t).th = t
  <2> DEFINE u == Run(t, "search")
             v == Step("wait", t)
  <2>1. /\ u \in Steps /\ u.op = "run" /\ u.th = t /\ u.job = "search"
        /\ v \in Steps /\ v.op = "wait" /\ v.th = t
    BY <1>1, StepFields DEF MainOps, Jobs
  <2> HIDE DEF u, v
  <2>2. u \in MainSteps /\ v \in MainSteps
    BY <1>1, <2>1 DEF MainSteps, MainOps
  <2> QED BY <2>1, <2>2 DEF u, v
<1>4. p \in Seq(MainSteps) /\ \A A : Has(p, A) <=> \E t \in 2..n : Run(t, "search") \in A
  BY <1>1, <1>3, RunsDo
<1>5. w \in Seq(MainSteps) /\ \A A : Has(w, A) <=> \E t \in 2..n : Step("wait", t) \in A
  BY <1>1, <1>3, WaitsDo
<1> HIDE DEF d, l, f, b, r, p, w
<1>6. k \in Seq(MainSteps) /\ \A A : Has(k, A) <=> d \in A \/ l \in A \/ f \in A
  BY <1>2 DEF Has
<1>7. Guarded(k, Op("raise"), Op("linger"))
  <2>1. l \in Op("linger") /\ d \notin Op("raise") /\ l \notin Op("raise")
    BY <1>2 DEF Op, MainSteps
  <2> QED BY <2>1 DEF Guarded
<1> HIDE DEF k
<1>8. /\ x \in Seq(MainSteps)
      /\ \A A : Has(x, A) <=> Has(p, A) \/ d \in A \/ l \in A \/ f \in A
      /\ \A A, B : Guarded(p, A, B) /\ Guarded(k, A, B) => Guarded(x, A, B)
  BY <1>4, <1>6, Composed, ConcatProperties
<1>9. /\ y \in Seq(MainSteps)
      /\ \A A : Has(y, A) <=> Has(w, A) \/ b \in A \/ r \in A
      /\ \A A, B : Guarded(w, A, B) /\ Has(w, B) => Guarded(y, A, B)
      /\ Awaited(y, MainSteps \ Op("return"), Op("return"))
      /\ Barred(y, Op("return"), MainSteps)
      /\ Barred(y, Op("bestmove"), MainSteps \ Op("return"))
  <2> DEFINE v == <<b>>
             z == <<r>>
             g == w \o v
  <2>1. /\ v \in Seq(MainSteps) /\ \A A : Has(v, A) <=> b \in A
        /\ \A A, B : Barred(v, A, B) /\ (Guarded(v, A, B) <=> b \notin A)
    BY ONLY <1>2, Single
  <2>2. /\ z \in Seq(MainSteps) /\ \A A : Has(z, A) <=> r \in A
        /\ \A A, B : Barred(z, A, B) /\ (Awaited(z, A, B) <=> r \notin A)
    BY ONLY <1>2, Single
  <2> HIDE DEF v, z
  <2>3. /\ g \in Seq(MainSteps) /\ \A A : Has(g, A) <=> Has(w, A) \/ b \in A
        /\ \A A, B : Guarded(w, A, B) /\ Has(w, B) => Guarded(g, A, B)
        /\ \A A, B : Barred(w, A, B) /\ (Has(w, A) => b \notin B) => Barred(g, A, B)
    BY ONLY <1>5, <2>1, Composed, ConcatProperties
  <2> HIDE DEF g
  <2> DEFINE yy == g \o z
  <2>4. /\ yy \in Seq(MainSteps) /\ \A A : Has(yy, A) <=> Has(g, A) \/ r \in A
        /\ \A A, B : Guarded(g, A, B) /\ Has(g, B) => Guarded(yy, A, B)
        /\ \A A, B : Has(z, B) /\ r \notin A => Awaited(yy, A, B)
        /\ \A A, B : Barred(g, A, B) /\ (Has(g, A) => r \notin B) => Barred(yy, A, B)
    BY ONLY <2>2, <2>3, Composed, ConcatProperties
  <2>5. y = yy
    BY DEF yy, g, v, z
  <2> HIDE DEF yy
  <2>6. /\ r \in Op("return") /\ r \notin MainSteps \ Op("return")
        /\ b \notin Op("return") /\ b \in Op("bestmove")
    BY <1>2 DEF Op, MainSteps
  <2>7. ~Has(w, Op("return")) /\ ~Has(w, Op("bestmove"))
    BY <1>3, <1>5 DEF Op
  <2>8. ~Has(g, Op("return"))
    BY <2>3, <2>6, <2>7
  <2>9. Barred(g, Op("return"), MainSteps)
    BY <2>8, Absent
  <2>10. Barred(w, Op("bestmove"), MainSteps \ Op("return"))
    BY <2>7, Absent
  <2>11. Barred(g, Op("bestmove"), MainSteps \ Op("return"))
    BY <2>3, <2>7, <2>10
  <2>12. Awaited(yy, MainSteps \ Op("return"), Op("return"))
    BY <2>2, <2>4, <2>6
  <2>13. Barred(yy, Op("return"), MainSteps)
    BY <2>4, <2>8, <2>9
  <2>14. Barred(yy, Op("bestmove"), MainSteps \ Op("return"))
    BY <2>4, <2>6, <2>11
  <2> QED BY <2>3, <2>4, <2>5, <2>12, <2>13, <2>14
<1>10. Search(n) \o <<r>> = H
  <2> DEFINE v == <<b>>
             z == <<r>>
             g == w \o v
  <2>1. v \in Seq(MainSteps) /\ z \in Seq(MainSteps)
    BY <1>2
  <2>2. g \in Seq(MainSteps)
    BY <1>5, <2>1, ConcatProperties
  <2>3. Search(n) = (x \o w) \o v
    BY DEF Search, x, p, k, w, d, l, f, b
  <2> HIDE DEF v, z, x
  <2>4. (x \o w) \o v = x \o g
    BY <1>5, <1>8, <2>1, ConcatAssociative
  <2> HIDE DEF g
  <2>5. (x \o g) \o z = x \o (g \o z)
    BY <1>8, <2>1, <2>2, ConcatAssociative, SMTT(30)
  <2>6. y = g \o z
    BY DEF g, v, z
  <2> HIDE DEF y
  <2> QED BY <2>3, <2>4, <2>5, <2>6 DEF z, x
<1> HIDE DEF x, y
<1>11. /\ H \in Seq(MainSteps)
       /\ \A A : Has(H, A) <=> Has(x, A) \/ Has(y, A)
       /\ \A A, B : Guarded(x, A, B) /\ Has(x, B) => Guarded(H, A, B)
       /\ \A A, B : Has(y, B) /\ Awaited(y, A, B) => Awaited(H, A, B)
       /\ \A A, B : Barred(x, A, B) /\ Barred(y, A, B) /\ ~Has(x, A) => Barred(H, A, B)
       /\ \A A, B, C :
            Separated(x, A, B, C) /\ Separated(y, A, B, C) /\ (Has(x, A) => Guarded(y, C, B))
              => Separated(H, A, B, C)
  BY ONLY <1>8, <1>9, Composed, ConcatProperties
<1> HIDE DEF H
<1>12. /\ r \in Op("return") /\ b \in Op("bestmove") /\ l \in Op("linger")
       /\ \A e \in {d, l, f, b, r} :
            /\ e \notin RunsBeyond(n) /\ e \notin Op("timeout")
            /\ \A t \in Pool : e \notin On("run", t)
       /\ \A e \in {d, l, f} : e \notin Endings /\ e \notin Op("return") /\ e \notin Op("bestmove")
  BY <1>2 DEF Op, On, RunsBeyond, MainSteps, Endings
<1>13. /\ \A t \in 2..n : /\ Run(t, "search") \notin Endings /\ Run(t, "search") \notin Op("return")
                          /\ Run(t, "search") \notin Op("bestmove") /\ Run(t, "search") \notin Op("raise")
                          /\ Run(t, "search") \notin Op("timeout") /\ Run(t, "search") \notin RunsBeyond(n)
                          /\ \A u \in Pool : Run(t, "search") \in On("run", u) => u = t
       /\ \A t \in 2..n : /\ Step("wait", t) \notin Endings /\ Step("wait", t) \notin Op("timeout")
                          /\ Step("wait", t) \notin RunsBeyond(n) /\ Step("wait", t) \in On("wait", t)
                          /\ \A u \in Pool : Step("wait", t) \notin On("run", u)
  <2>1. \A t \in 2..n : ~(t > n)
    BY <1>1
  <2> QED BY <1>3, <2>1 DEF Op, On, RunsBeyond, MainSteps, Endings
<1>14. /\ ~Has(x, Endings) /\ ~Has(x, Op("return")) /\ ~Has(x, Op("bestmove"))
       /\ ~Has(p, Op("raise")) /\ ~Has(H, RunsBeyond(n)) /\ ~Has(H, Op("timeout"))
       /\ \A t \in Pool : /\ ~Has(y, On("run", t))
                          /\ Has(x, On("run", t)) => t \in 2..n
  BY <1>4, <1>5, <1>8, <1>9, <1>11, <1>12, <1>13
<1>15. Has(H, Op("bestmove")) /\ Has(y, Op("return")) /\ Has(x, Op("linger"))
  BY <1>8, <1>9, <1>11, <1>12
<1>16. H # <<>>
  BY <1>15, EmptyOrder
<1>17. Awaited(H, MainSteps \ Op("return"), Op("return"))
  BY <1>9, <1>11, <1>15
<1>18. Barred(H, Op("return"), MainSteps) /\ Barred(H, Op("bestmove"), MainSteps \ Op("return"))
  <2>1. Barred(x, Op("return"), MainSteps) /\ Barred(x, Op("bestmove"), MainSteps \ Op("return"))
    BY <1>14, Absent
  <2> QED BY <1>9, <1>11, <1>14, <2>1
<1>19. ASSUME NEW t \in Pool \ {Main} PROVE Separated(H, On("run", t), On("wait", t), Endings)
  <2>1. Separated(x, On("run", t), On("wait", t), Endings)
    BY <1>14, Absent
  <2>2. Separated(y, On("run", t), On("wait", t), Endings)
    BY <1>14, Absent
  <2>3. ASSUME Has(x, On("run", t)) PROVE Guarded(y, Endings, On("wait", t))
    <3>1. Has(w, On("wait", t))
      BY <1>5, <1>13, <1>14, <2>3
    <3>2. ~Has(w, Endings)
      BY <1>5, <1>13
    <3>3. Guarded(w, Endings, On("wait", t))
      BY <3>2, Absent
    <3> QED BY <1>9, <3>1, <3>3
  <2> QED BY <1>11, <2>1, <2>2, <2>3
<1>20. Guarded(H, Op("raise"), Op("linger")) /\ Guarded(H, Op("bestmove"), Op("linger"))
  <2>1. Guarded(p, Op("raise"), Op("linger")) /\ Guarded(x, Op("bestmove"), Op("linger"))
    BY <1>14, Absent
  <2>2. Guarded(x, Op("raise"), Op("linger"))
    BY <1>7, <1>8, <2>1
  <2> QED BY <1>11, <1>15, <2>1, <2>2
<1>21. MainProgram(H)
  BY <1>11, <1>14, <1>15, <1>16, <1>17, <1>18, <1>19, <1>20 DEF MainProgram
<1> QED BY <1>10, <1>21 DEF r
-----------------------------------------------------------------------------
\* The main thread starts a search, or the answer when there are no root moves.
LEMMA MainStarts ==
  ASSUME IInv, pc[Main] = "job", job[Main] = "search", M = <<>>,
         NEW H, MainProgram(H), M' = H, U' = U, UNCHANGED <<mainOnly, flags, printed>>
  PROVE  MainOrder' /\ HelpersAreAwaited' /\ Counted' /\ Held'
<1>1. /\ Types /\ Lives /\ MainOrder /\ HelpersAreAwaited /\ Counted /\ Held
      /\ UNCHANGED <<n, exit, jobFunc, job, limits, gos, told, stop, ponder, setUp, printed>>
  BY DEF IInv, Order, Answering, mainOnly, cvs, uci, flags
<1>2. MainOrder'
  BY <1>1 DEF MainOrder, MainProgram
<1>3. \A t \in Pool : Busy(t)' <=> Busy(t)
  BY <1>1 DEF Busy, Posted
<1>4. HelpersAreAwaited'
  BY <1>1, <1>3 DEF HelpersAreAwaited, MainProgram
<1>5. Counted'
  <2>1. (Starting' <=> Starting) /\ Answers' = Answers /\ (Quiet' <=> Quiet)
    BY <1>1 DEF Starting, Asked, Answers, Quiet, Busy, Posted
  <2>2. Searching /\ Searching'
    BY <1>1 DEF Searching, MainProgram
  <2> QED BY <1>1, <2>1, <2>2 DEF Counted
<1>6. Held'
  BY <1>1 DEF Held, Free, Contract!MayAnswer, MainProgram
<1> QED BY <1>2, <1>4, <1>5, <1>6

\* The main thread answers: every helper has been awaited.
LEMMA MainAnswers ==
  ASSUME IInv, NEW a \in MainSteps, NEW R \in Seq(MainSteps), M # <<>>, a = Head(M), R = Tail(M),
         a.op = "bestmove", pc[Main] = "job", job[Main] = "search", M' = R, U' = U,
         UNCHANGED <<n, exit, jobFunc, job, gos, setUp>>, Answers' = Answers + 1
  PROVE  MainOrder' /\ HelpersAreAwaited' /\ Counted' /\ NetworkOrder'
<1>1. /\ Types /\ Lives /\ MainOrder /\ HelpersAreAwaited /\ Counted /\ M \in Seq(MainSteps)
      /\ Main \in Pool /\ gos \in Nat /\ Answers \in Nat
  <2>1. Types /\ n \in Pool /\ CommandTypes
    BY DEF IInv, Types, ThreadTypes
  <2>2. Main \in Pool
    BY <2>1, PoolRange
  <2>3. gos \in Nat /\ Answers \in Nat
    BY <2>1 DEF CommandTypes, Answers
  <2> QED BY <2>1, <2>2, <2>3 DEF IInv, Order, Answering, Types, ProgramTypes
<1>2. /\ \A A : Has(M, A) <=> a \in A \/ Has(R, A)
      /\ \A A, B : Guarded(M, A, B) <=> a \notin A /\ (a \in B \/ Guarded(R, A, B))
      /\ \A A, B : Awaited(M, A, B) <=> (a \in A => Has(R, B)) /\ Awaited(R, A, B)
      /\ \A A, B : Barred(M, A, B) <=> (a \in A => ~Has(R, B)) /\ Barred(R, A, B)
      /\ \A A, B, C : Separated(M, A, B, C) <=>
           (a \in A => Guarded(R, C, B)) /\ Separated(R, A, B, C)
  BY <1>1, FirstStep
<1>3. a \in MainSteps \ Op("return") /\ a \in Op("bestmove") /\ a \in Endings
  <2>1. a \in Steps
    BY DEF MainSteps
  <2> QED BY <2>1 DEF Op, Endings
<1>4. Has(R, Op("return")) /\ ~Has(R, Op("bestmove"))
  <2>1. Has(R, Op("return")) /\ ~Has(R, MainSteps \ Op("return"))
    BY <1>1, <1>2, <1>3 DEF MainOrder
  <2>2. Op("bestmove") \cap MainSteps \subseteq MainSteps \ Op("return")
    BY DEF Op
  <2> QED BY <2>1, <2>2 DEF Has
<1>5. R # <<>>
  BY ONLY <1>4, EmptyOrder
<1>6. \A t \in Pool \ {Main} : ~Busy(t) /\ ~Busy(t)'
  BY <1>1, <1>2, <1>3 DEF HelpersAreAwaited, Busy, Posted
<1>7. Busy(Main) /\ ~Quiet /\ jobFunc[Main] = "none"
  BY <1>1, Resting DEF Busy, Quiet
<1>8. MainOrder'
  BY <1>1, <1>2 DEF MainOrder
<1>9. HelpersAreAwaited'
  <2>1. ASSUME NEW t \in Pool \ {Main} PROVE Separated(R, On("run", t), On("wait", t), Endings)
    BY <1>1, <1>2 DEF HelpersAreAwaited
  <2>2. ~Has(R, RunsBeyond(n))
    BY <1>1, <1>2 DEF HelpersAreAwaited
  <2> QED BY <1>6, <2>1, <2>2 DEF HelpersAreAwaited
<1>10. gos = Answers'
  <2>1. Searching
    BY <1>2, <1>3 DEF Searching
  <2> QED BY <1>1, <2>1 DEF Counted
<1>11. Counted'
  <2>1. ~Starting /\ ~Starting'
    BY <1>1, <1>7 DEF Counted, Starting, Asked
  <2>2. ~Searching'
    BY <1>4, <1>5, <1>7 DEF Searching
  <2> QED BY <1>1, <1>10, <2>1, <2>2 DEF Counted
<1>12. NetworkOrder'
  BY <1>10 DEF NetworkOrder
<1> QED BY <1>8, <1>9, <1>11, <1>12

\* The main thread returns from start_searching.
LEMMA MainReturns ==
  ASSUME IInv, NEW a \in MainSteps, NEW R \in Seq(MainSteps), M # <<>>, a = Head(M), R = Tail(M),
         a.op = "return", pc[Main] = "job", job[Main] = "search", M' = R, U' = U,
         pc' = [pc EXCEPT ![Main] = "top"], job' = [job EXCEPT ![Main] = "none"],
         UNCHANGED <<n, exit, jobFunc, uci, lists, flags, setUp, printed>>
  PROVE  Lives' /\ Order' /\ Games' /\ Answering'
<1>1. /\ Types /\ Lives /\ UciOrder /\ JobsAreAwaited /\ MainOrder /\ HelpersAreAwaited
      /\ SetUpBeforeSearch /\ Counted /\ Held /\ M \in Seq(MainSteps) /\ Main \in Pool
      /\ job \in [Pool -> Jobs] /\ pc \in [Pool -> {"gone", "top", "asleep", "job"}]
      /\ UNCHANGED <<limits, told, stop, ponder, gos, commands, loop, states, setupStates, pos>>
  <2>1. n \in Pool
    BY DEF IInv, Types, ThreadTypes
  <2>2. Main \in Pool
    BY <2>1, PoolRange
  <2> QED BY <2>2 DEF IInv, Order, Games, Answering, Types, ProgramTypes, ThreadTypes, flags, uci, lists
<1>2. /\ \A A : Has(M, A) <=> a \in A \/ Has(R, A)
      /\ \A A, B : Guarded(M, A, B) <=> a \notin A /\ (a \in B \/ Guarded(R, A, B))
      /\ \A A, B : Barred(M, A, B) <=> (a \in A => ~Has(R, B)) /\ Barred(R, A, B)
  BY <1>1, FirstStep
<1>3. a \in Op("return") /\ a \in Endings /\ a \notin Op("bestmove")
  <2>1. a \in Steps
    BY DEF MainSteps
  <2> QED BY <2>1 DEF Op, Endings
<1>4. R = <<>>
  <2>1. ~Has(R, MainSteps)
    BY <1>1, <1>2, <1>3 DEF MainOrder
  <2>2. ASSUME R # <<>> PROVE FALSE
    <3>1. Head(R) \in MainSteps
      BY <2>2, HeadTail
    <3> QED BY <2>1, <2>2, <3>1, FirstStep
  <2> QED BY <2>2
<1>5. \A t \in Pool \ {Main} : ~Busy(t)
  BY <1>1, <1>2, <1>3 DEF HelpersAreAwaited
<1>6. /\ Busy(Main) /\ ~Quiet /\ jobFunc[Main] = "none" /\ \A t \in Pool : ~Short(t)
      /\ ~Starting /\ ~Searching
  <2>1. Busy(Main) /\ ~Quiet /\ jobFunc[Main] = "none"
    BY <1>1, Resting DEF Busy, Quiet
  <2>2. ~Has(M, Op("bestmove"))
    BY <1>2, <1>3, <1>4, EmptyOrder
  <2> QED BY <1>1, <2>1, <2>2 DEF JobsAreAwaited, Counted, Searching
<1>7. /\ job'[Main] = "none" /\ pc'[Main] = "top"
      /\ \A t \in Pool : t # Main => job'[t] = job[t] /\ pc'[t] = pc[t]
  BY <1>1
<1>8. Quiet' /\ \A t \in Pool : ~Busy(t)' /\ ~Short(t)'
  BY <1>5, <1>6, <1>7 DEF Quiet, Busy, Posted, Short, ShortJobs
<1>9. Lives'
  <2>1. \A t \in Pool : (Alive(t)' <=> Alive(t)) /\ (pc'[t] = "job" <=> job'[t] # "none")
    BY <1>1, <1>7 DEF Lives, Alive
  <2> QED BY <1>1, <2>1 DEF Lives
<1>10. UciOrder'
  <2>1. Asked' <=> Asked
    BY DEF Asked
  <2> QED BY <1>1, <1>8, <2>1 DEF UciOrder
<1>11. JobsAreAwaited'
  BY <1>1, <1>8 DEF JobsAreAwaited
<1>12. MainOrder' /\ HelpersAreAwaited'
  BY <1>4, <1>8, EmptyOrder DEF MainOrder, HelpersAreAwaited
<1>13. SetUpBeforeSearch'
  <2>1. Asked' <=> Asked
    BY DEF Asked
  <2>2. \A t \in Pool : "setup" \in {job'[t], jobFunc'[t]} <=> "setup" \in {job[t], jobFunc[t]}
    BY <1>7
  <2>3. \A t \in 1..n : t \in Pool
    <3>1. n \in Pool
      BY DEF IInv, Types, ThreadTypes
    <3> QED BY <3>1, PoolRange
  <2>4. ~Busy(Main)' /\ \A t \in Pool : Current(t)' <=> Current(t)
    BY <1>1, <1>8 DEF Current
  <2>5. ASSUME Asked PROVE setupStates # 0 \/ Has(U, Op("begin"))
    BY <1>1, <2>5 DEF SetUpBeforeSearch
  <2>6. ASSUME Asked, NEW t \in 1..n
        PROVE  \/ Has(U, Posts(t, "setup"))
               \/ ~Has(U, Op("begin")) /\ ("setup" \in {job'[t], jobFunc'[t]} \/ Current(t)')
    <3>1. \/ Has(U, Posts(t, "setup"))
          \/ ~Has(U, Op("begin")) /\ ("setup" \in {job[t], jobFunc[t]} \/ Current(t))
      BY <1>1, <2>6 DEF SetUpBeforeSearch
    <3> QED BY <2>2, <2>3, <2>4, <3>1
  <2> QED BY <1>1, <2>1, <2>4, <2>5, <2>6 DEF SetUpBeforeSearch
<1>14. GoOrder' /\ GameAlive' /\ NetworkOrder'
  BY <1>1, Untouched DEF lists
<1>15. Counted'
  <2>1. ~Starting' /\ Answers' = Answers
    BY <1>6 DEF Starting, Asked, Answers
  <2>2. ~Searching'
    BY <1>1, <1>8 DEF Searching, Busy
  <2> QED BY <1>1, <1>6, <2>1, <2>2 DEF Counted
<1>16. Held'
  BY <1>1, MainHeld
<1> QED BY <1>9, <1>10, <1>11, <1>12, <1>13, <1>14, <1>15, <1>16 DEF Order, Games, Answering
-----------------------------------------------------------------------------
\* The time of an iteration was up: the main thread says so, b, and deepens on, c.
LEMMA MainTimes ==
  ASSUME IInv, NEW a \in MainSteps, NEW R \in Seq(MainSteps), M # <<>>, a = Head(M), R = Tail(M),
         a.op = "deepen", limits.clock,
         NEW b \in MainSteps, b.op \in {"pondered", "timeout"}, b.op = "timeout" => ~ponder,
         NEW c \in MainSteps, c.op = "deepen",
         NEW q \in Seq(MainSteps), q = <<c>> \o R,
         NEW s \in Seq(MainSteps), s = <<b>> \o q, M' = s, U' = U, job[Main] = "search",
         UNCHANGED <<n, exit, jobFunc, job, limits, gos, told, stop, ponder, setUp, printed>>
  PROVE  MainOrder' /\ HelpersAreAwaited' /\ Counted' /\ Held'
<1>1. /\ MainOrder /\ HelpersAreAwaited /\ Counted /\ Held /\ M \in Seq(MainSteps)
  BY DEF IInv, Order, Answering, Types, ProgramTypes, CommandTypes
<1>2. /\ q # <<>> /\ (Has(q, Op("bestmove")) <=> Has(M, Op("bestmove")))
      /\ Awaited(q, MainSteps \ Op("return"), Op("return"))
      /\ Barred(q, Op("return"), MainSteps)
      /\ Barred(q, Op("bestmove"), MainSteps \ Op("return"))
      /\ \A t \in Pool \ {Main} :
           /\ Busy(t) => Guarded(q, Endings, On("wait", t))
           /\ Separated(q, On("run", t), On("wait", t), Endings)
      /\ ~Has(q, RunsBeyond(n))
  BY MainPuts
<1>3. /\ s # <<>>
      /\ \A A : Has(s, A) <=> b \in A \/ Has(q, A)
      /\ \A A, B : Guarded(s, A, B) <=> b \notin A /\ (b \in B \/ Guarded(q, A, B))
      /\ \A A, B : Awaited(s, A, B) <=> (b \in A => Has(q, B)) /\ Awaited(q, A, B)
      /\ \A A, B : Barred(s, A, B) <=> (b \in A => ~Has(q, B)) /\ Barred(q, A, B)
      /\ \A A, B, C : Separated(s, A, B, C) <=>
           (b \in A => Guarded(q, C, B)) /\ Separated(q, A, B, C)
  <2>1. b \in MainSteps /\ q \in Seq(MainSteps)
    OBVIOUS
  <2> DEFINE r == <<b>> \o q
  <2>2. /\ r # <<>>
        /\ \A A : Has(r, A) <=> b \in A \/ Has(q, A)
        /\ \A A, B : Guarded(r, A, B) <=> b \notin A /\ (b \in B \/ Guarded(q, A, B))
        /\ \A A, B : Awaited(r, A, B) <=> (b \in A => Has(q, B)) /\ Awaited(q, A, B)
        /\ \A A, B : Barred(r, A, B) <=> (b \in A => ~Has(q, B)) /\ Barred(q, A, B)
        /\ \A A, B, C : Separated(r, A, B, C) <=>
             (b \in A => Guarded(q, C, B)) /\ Separated(q, A, B, C)
    BY ONLY <2>1, Preceded
  <2>3. s = r
    OBVIOUS
  <2> HIDE DEF r
  <2> QED BY ONLY <2>2, <2>3
<1>4. /\ a \in MainSteps \ Op("return")
      /\ b \notin Op("return") /\ b \notin Op("bestmove") /\ b \notin Endings
      /\ b \notin RunsBeyond(n) /\ \A t \in Pool : b \notin On("run", t)
      /\ b \notin Op("raise") /\ (b \in Op("timeout") => ~ponder)
  BY DEF Op, On, Endings, RunsBeyond
<1>5. Has(q, Op("return"))
  <2>1. Has(R, Op("return"))
    BY <1>1, <1>4, FirstStep DEF MainOrder
  <2>2. c \in MainSteps /\ R \in Seq(MainSteps)
    OBVIOUS
  <2> DEFINE r == <<c>> \o R
  <2>3. \A A : Has(r, A) <=> c \in A \/ Has(R, A)
    BY ONLY <2>2, Preceded
  <2>4. q = r
    OBVIOUS
  <2> HIDE DEF r
  <2> QED BY <2>1, <2>3, <2>4
<1>6. MainOrder'
  BY <1>2, <1>3, <1>4, <1>5 DEF MainOrder
<1>7. \A t \in Pool : Busy(t)' <=> Busy(t)
  BY DEF Busy, Posted
<1>8. HelpersAreAwaited'
  <2>1. ASSUME NEW t \in Pool \ {Main}
        PROVE  /\ Busy(t) => t <= n /\ Guarded(s, Endings, On("wait", t))
               /\ Separated(s, On("run", t), On("wait", t), Endings)
    BY <1>1, <1>2, <1>3, <1>4 DEF HelpersAreAwaited
  <2>2. ~Has(s, RunsBeyond(n))
    BY <1>2, <1>3, <1>4
  <2> QED BY <1>3, <1>7, <2>1, <2>2 DEF HelpersAreAwaited
<1>9. Counted'
  <2>1. (Starting' <=> Starting) /\ Answers' = Answers /\ (Quiet' <=> Quiet)
    BY DEF Starting, Asked, Answers, Quiet, Busy, Posted
  <2>2. Searching' <=> Searching
    BY <1>2, <1>3, <1>4 DEF Searching, Posted
  <2> QED BY <1>1, <2>1, <2>2 DEF Counted
<1>10. Held'
  <2>1. /\ Has(q, Op("timeout")) <=> Has(M, Op("timeout"))
        /\ Guarded(q, Op("raise"), Op("linger")) <=> Guarded(M, Op("raise"), Op("linger"))
        /\ Guarded(q, Op("bestmove"), Op("linger")) <=> Guarded(M, Op("bestmove"), Op("linger"))
    <3>1. \A o \in {"timeout", "raise", "bestmove", "linger"} : a \notin Op(o) /\ c \notin Op(o)
      BY DEF Op
    <3>2. /\ \A A : Has(M, A) <=> a \in A \/ Has(R, A)
          /\ \A A, B : Guarded(M, A, B) <=> a \notin A /\ (a \in B \/ Guarded(R, A, B))
      BY <1>1, FirstStep
    <3>3. /\ \A A : Has(q, A) <=> c \in A \/ Has(R, A)
          /\ \A A, B : Guarded(q, A, B) <=> c \notin A /\ (c \in B \/ Guarded(R, A, B))
      <4>1. c \in MainSteps /\ R \in Seq(MainSteps)
        OBVIOUS
      <4> DEFINE r == <<c>> \o R
      <4>2. /\ \A A : Has(r, A) <=> c \in A \/ Has(R, A)
            /\ \A A, B : Guarded(r, A, B) <=> c \notin A /\ (c \in B \/ Guarded(R, A, B))
        BY ONLY <4>1, Preceded
      <4>3. q = r
        OBVIOUS
      <4> HIDE DEF r
      <4> QED BY ONLY <4>2, <4>3
    <3> QED BY <3>1, <3>2, <3>3
  <2>2. CASE Free
    BY <2>2 DEF Held, Free, Contract!MayAnswer
  <2>3. CASE ~Free
    <3>1. limits.ponder /\ "ponderhit" \notin told
      BY <2>3 DEF Free, Contract!MayAnswer
    <3>2. ponder /\ b \notin Op("timeout")
      BY <1>1, <1>4, <2>3, <3>1 DEF Held
    <3>3. /\ ~Has(q, Op("timeout")) /\ Guarded(q, Op("raise"), Op("linger"))
          /\ limits.moves => Guarded(q, Op("bestmove"), Op("linger"))
          /\ ~stop
      BY <1>1, <2>1, <2>3 DEF Held
    <3>4. /\ ~Has(s, Op("timeout")) /\ Guarded(s, Op("raise"), Op("linger"))
          /\ limits.moves => Guarded(s, Op("bestmove"), Op("linger"))
      BY <1>3, <1>4, <3>2, <3>3
    <3> QED BY <3>2, <3>3, <3>4 DEF Held
  <2> QED BY <2>2, <2>3
<1> QED BY <1>6, <1>8, <1>9, <1>10

\* A woken thread takes the job that was posted to it: it stays as busy as it was.
LEMMA TakesJob ==
  ASSUME IInv, NEW t \in Pool, pc[t] = "asleep", searching[t], ~exit[t],
         pc' = [pc EXCEPT ![t] = IF jobFunc[t] = "none" THEN "top" ELSE "job"],
         job' = [job EXCEPT ![t] = jobFunc[t]], jobFunc' = [jobFunc EXCEPT ![t] = "none"],
         UNCHANGED <<n, todo, exit, flags, uci, lists, setUp, printed>>
  PROVE  Lives' /\ Order' /\ Games' /\ Answering'
<1>1. /\ Types /\ Lives /\ UciOrder /\ JobsAreAwaited /\ MainOrder /\ HelpersAreAwaited
      /\ SetUpBeforeSearch /\ Counted
      /\ job \in [Pool -> Jobs] /\ pc \in [Pool -> {"gone", "top", "asleep", "job"}]
      /\ jobFunc \in [Pool -> Jobs]
      /\ UNCHANGED <<limits, told, stop, ponder, gos, commands, loop, states, setupStates, pos>>
      /\ U' = U /\ M' = M
  BY DEF IInv, Order, Games, Answering, Types, ThreadTypes, flags, uci, lists, U, M
<1>2. job[t] = "none"
  BY <1>1 DEF Lives
<1>3. /\ job'[t] = jobFunc[t] /\ jobFunc'[t] = "none"
      /\ pc'[t] = IF jobFunc[t] = "none" THEN "top" ELSE "job"
      /\ \A u \in Pool : u # t => job'[u] = job[u] /\ jobFunc'[u] = jobFunc[u] /\ pc'[u] = pc[u]
  BY <1>1
<1>4. \A u \in Pool : /\ Busy(u)' <=> Busy(u)
                      /\ Short(u)' <=> Short(u)
                      /\ "setup" \in {job'[u], jobFunc'[u]} <=> "setup" \in {job[u], jobFunc[u]}
  BY <1>2, <1>3 DEF Busy, Posted, Short, ShortJobs
<1>5. (Quiet' <=> Quiet) /\ (Asked' <=> Asked) /\ (Starting' <=> Starting)
  BY <1>1, <1>4 DEF Quiet, Asked, Starting
<1>6. Main \in Pool /\ 1..n \subseteq Pool
  <2>1. n \in Pool
    BY <1>1 DEF Types, ThreadTypes
  <2> QED BY <2>1, PoolRange
<1>7. Lives'
  <2>1. \A u \in Pool : (Alive(u)' <=> Alive(u)) /\ (pc'[u] = "job" <=> job'[u] # "none")
    BY <1>1, <1>3 DEF Lives, Alive
  <2> QED BY <1>1, <2>1 DEF Lives
<1>8. UciOrder'
  BY <1>1, <1>5 DEF UciOrder
<1>9. JobsAreAwaited'
  BY <1>1, <1>4, <1>5 DEF JobsAreAwaited
<1>10. MainOrder'
  <2>1. job'[Main] # "search" => M = <<>>
    BY <1>1, <1>2, <1>3, <1>6 DEF MainOrder
  <2> QED BY <1>1, <2>1 DEF MainOrder
<1>11. HelpersAreAwaited'
  BY <1>1, <1>4 DEF HelpersAreAwaited
<1>12. SetUpBeforeSearch'
  <2>1. \A u \in Pool : Current(u)' <=> Current(u)
    BY <1>1 DEF Current
  <2>2. Busy(Main)' => setupStates # 0 /\ \A u \in 1..n : Current(u)
    BY <1>1, <1>4, <1>6 DEF SetUpBeforeSearch
  <2>3. Asked => setupStates # 0 \/ Has(U, Op("begin"))
    BY <1>1 DEF SetUpBeforeSearch
  <2>4. ASSUME Asked, NEW u \in 1..n
        PROVE  \/ Has(U, Posts(u, "setup"))
               \/ ~Has(U, Op("begin")) /\ ("setup" \in {job'[u], jobFunc'[u]} \/ Current(u)')
    <3>1. \/ Has(U, Posts(u, "setup"))
          \/ ~Has(U, Op("begin")) /\ ("setup" \in {job[u], jobFunc[u]} \/ Current(u))
      BY <1>1, <2>4 DEF SetUpBeforeSearch
    <3> QED BY <1>4, <1>6, <2>1, <3>1
  <2> QED BY <1>1, <1>5, <1>6, <2>1, <2>2, <2>3, <2>4 DEF SetUpBeforeSearch
<1>13. GoOrder' /\ GameAlive' /\ NetworkOrder' /\ Held'
  BY <1>1, Untouched DEF lists
<1>14. Counted'
  <2>1. Searching' <=> Searching
    <3>1. CASE t = Main
      <4>1. M = <<>> /\ job[Main] = "none"
        BY <1>1, <1>2, <3>1 DEF MainOrder
      <4> QED BY <1>1, <1>3, <3>1, <4>1 DEF Searching, Posted
    <3>2. CASE t # Main
      BY <1>1, <1>3, <1>6, <3>2 DEF Searching, Posted
    <3> QED BY <3>1, <3>2
  <2> QED BY <1>1, <1>5, <2>1 DEF Counted, Answers
<1> QED BY <1>7, <1>8, <1>9, <1>10, <1>11, <1>12, <1>13, <1>14 DEF Order, Games, Answering

\* Thread t has done its short job, or, as a helper, its search; no other thread
\* than t is set up meanwhile.
LEMMA EndsJob ==
  ASSUME IInv, NEW t \in Pool, pc[t] = "job", t = Main => job[t] # "search",
         setUp' = IF job[t] = "setup" THEN [setUp EXCEPT ![t] = [go |-> gos, list |-> setupStates]]
                  ELSE setUp,
         job[t] \in ShortJobs \cup {"search"},
         JobEnds(t), UNCHANGED <<n, todo, flags, uci, lists, printed>>
  PROVE  Lives' /\ Order' /\ Games' /\ Answering'
<1>1. /\ Types /\ Lives /\ UciOrder /\ JobsAreAwaited /\ MainOrder /\ HelpersAreAwaited
      /\ SetUpBeforeSearch /\ Counted
      /\ job \in [Pool -> Jobs] /\ pc \in [Pool -> {"gone", "top", "asleep", "job"}]
      /\ setUp \in [Pool -> [go : Nat, list : 0..(MaxCommands + 1)]] /\ gos \in Nat
      /\ UNCHANGED <<limits, told, stop, ponder, gos, commands, loop, states, setupStates, pos>>
      /\ pc' = [pc EXCEPT ![t] = "top"] /\ job' = [job EXCEPT ![t] = "none"]
      /\ UNCHANGED <<exit, jobFunc>> /\ U' = U /\ M' = M
  BY DEF IInv, Order, Games, Answering, Types, ThreadTypes, CommandTypes, flags, uci, lists, JobEnds, U, M
<1>2. /\ job'[t] = "none" /\ pc'[t] = "top" /\ jobFunc[t] = "none"
      /\ \A u \in Pool : u # t => job'[u] = job[u] /\ pc'[u] = pc[u] /\ setUp'[u] = setUp[u]
      /\ job[t] = "setup" => setUp'[t] = [go |-> gos, list |-> setupStates]
      /\ job[t] # "setup" => setUp'[t] = setUp[t]
  BY <1>1, Resting
<1>3. Main \in Pool /\ 1..n \subseteq Pool
  <2>1. n \in Pool
    BY <1>1 DEF Types, ThreadTypes
  <2> QED BY <2>1, PoolRange
<1>4. /\ \A u \in Pool : (Busy(u)' => Busy(u)) /\ (Short(u)' => Short(u))
      /\ Busy(Main)' <=> Busy(Main)
      /\ Quiet => Quiet'
      /\ Asked' <=> Asked
      /\ \A u \in Pool : Current(u) => Current(u)'
      /\ job[t] = "setup" => Current(t)'
  <2>1. \A u \in Pool : (Busy(u)' => Busy(u)) /\ (Short(u)' => Short(u))
    BY <1>1, <1>2 DEF Busy, Posted, Short, ShortJobs
  <2>2. Busy(Main)' <=> Busy(Main)
    BY <1>1, <1>2, <1>3 DEF Busy, Posted
  <2>3. \A u \in Pool : Current(u) => Current(u)'
    BY <1>1, <1>2 DEF Current
  <2>4. job[t] = "setup" => Current(t)'
    BY <1>1, <1>2 DEF Current
  <2> QED BY <1>1, <2>1, <2>2, <2>3, <2>4 DEF Quiet, Asked
<1>5. Quiet' \/ Guarded(U, NeedQuiet, On("wait", Main))
  BY <1>1, <1>4 DEF UciOrder
<1>6. UciOrder'
  BY <1>1, <1>4, <1>5 DEF UciOrder
<1>7. JobsAreAwaited'
  BY <1>1, <1>4 DEF JobsAreAwaited
<1>8. job'[Main] # "search" => M = <<>>
  BY <1>1, <1>2, <1>3 DEF MainOrder
<1>9. MainOrder'
  BY <1>1, <1>8 DEF MainOrder
<1>10. HelpersAreAwaited'
  BY <1>1, <1>4 DEF HelpersAreAwaited
<1>11. Lives'
  <2>1. \A u \in Pool : (Alive(u)' <=> Alive(u)) /\ (pc'[u] = "job" <=> job'[u] # "none")
    BY <1>1, <1>2 DEF Lives, Alive
  <2> QED BY <1>1, <2>1 DEF Lives
<1>12. SetUpBeforeSearch'
  <2>1. Busy(Main)' => setupStates # 0 /\ \A u \in 1..n : Current(u)'
    BY <1>1, <1>3, <1>4 DEF SetUpBeforeSearch
  <2>2. Asked => setupStates # 0 \/ Has(U, Op("begin"))
    BY <1>1 DEF SetUpBeforeSearch
  <2>3. ASSUME Asked, NEW u \in 1..n
        PROVE  \/ Has(U, Posts(u, "setup"))
               \/ ~Has(U, Op("begin")) /\ ("setup" \in {job'[u], jobFunc'[u]} \/ Current(u)')
    <3>1. \/ Has(U, Posts(u, "setup"))
          \/ ~Has(U, Op("begin")) /\ ("setup" \in {job[u], jobFunc[u]} \/ Current(u))
      BY <1>1, <2>3 DEF SetUpBeforeSearch
    <3>2. "setup" \in {job[u], jobFunc[u]} => "setup" \in {job'[u], jobFunc'[u]} \/ Current(u)'
      BY <1>1, <1>2, <1>3, <1>4
    <3> QED BY <1>3, <1>4, <3>1, <3>2
  <2> QED BY <1>1, <1>4, <2>1, <2>2, <2>3 DEF SetUpBeforeSearch
<1>13. GoOrder' /\ GameAlive' /\ NetworkOrder' /\ Held'
  BY <1>1, Untouched DEF lists
<1>14. Counted'
  <2>1. (Starting' <=> Starting) /\ Answers' = Answers
    BY <1>1, <1>4 DEF Starting, Answers
  <2>2. Searching' <=> Searching
    BY <1>1, <1>2, <1>3 DEF Searching, Posted
  <2>3. \A u \in Pool : setUp'[u].go <= gos
    <3>1. \A u \in Pool : setUp[u].go <= gos
      BY <1>1 DEF Counted
    <3> QED BY <1>1, <1>2, <3>1
  <2> QED BY <1>1, <1>4, <2>1, <2>2, <2>3 DEF Counted
<1> QED BY <1>6, <1>7, <1>9, <1>10, <1>11, <1>12, <1>13, <1>14 DEF Order, Games, Answering
-----------------------------------------------------------------------------
\* The UCI thread has steps s of its own to do in the place of the first one.
LEMMA UciRests ==
  ASSUME Types, U # <<>>, NEW s \in Seq(UciSteps), Rest(UCI, s)
  PROVE  U' = s \o Tail(U) /\ M' = M /\ ProgramTypes'
<1>1. U' = s \o Tail(U) /\ M' = M /\ Tail(U) \in Seq(UciSteps)
  BY Rests
<1>2. s \o Tail(U) \in Seq(UciSteps)
  BY <1>1, ConcatProperties
<1>3. s \o Tail(U) \in Seq(Steps)
  <2>1. UciSteps \subseteq Steps
    BY DEF UciSteps
  <2> QED BY <1>2, <2>1, SeqMonotonic
<1>4. todo' \in [{UCI, Main} -> Seq(Steps)] /\ M \in Seq(MainSteps)
  BY <1>3 DEF Rest, Types, ProgramTypes, U
<1> QED BY <1>1, <1>2, <1>4 DEF ProgramTypes

\* The same of the main thread.
LEMMA MainRests ==
  ASSUME Types, M # <<>>, NEW s \in Seq(MainSteps), Rest(Main, s)
  PROVE  M' = s \o Tail(M) /\ U' = U /\ ProgramTypes'
<1>1. M' = s \o Tail(M) /\ U' = U /\ Tail(M) \in Seq(MainSteps)
  BY Rests
<1>2. s \o Tail(M) \in Seq(MainSteps)
  BY <1>1, ConcatProperties
<1>3. s \o Tail(M) \in Seq(Steps)
  <2>1. MainSteps \subseteq Steps
    BY DEF MainSteps
  <2> QED BY <1>2, <2>1, SeqMonotonic
<1>4. todo' \in [{UCI, Main} -> Seq(Steps)] /\ U \in Seq(UciSteps)
  BY <1>3 DEF Rest, Types, ProgramTypes, M
<1> QED BY <1>1, <1>2, <1>4 DEF ProgramTypes

\* A thread that comes to its next step has one, and is blocked nowhere.
LEMMA Steps1 ==
  ASSUME IInv
  PROVE  /\ \A o : AtStep(UCI, o) =>
              /\ U # <<>> /\ Head(U).op = o /\ Head(U) \in UciSteps /\ Head(U) \in Steps
              /\ Next1(UCI) = Head(U) /\ Head(U).th \in Pool /\ Tail(U) \in Seq(UciSteps)
              /\ \A t \in Pool : UCI \notin waiters[t]
         /\ \A o : AtStep(Main, o) =>
              /\ M # <<>> /\ Head(M).op = o /\ Head(M) \in MainSteps /\ Head(M) \in Steps
              /\ Next1(Main) = Head(M) /\ Head(M).th \in Pool /\ Tail(M) \in Seq(MainSteps)
              /\ \A t \in Pool : Main \notin waiters[t]
              /\ job[Main] = "search" /\ pc[Main] = "job" /\ o \in MainOps
         /\ Main \in Pool /\ n \in Pool
<1>1. Types /\ Lives /\ n \in Pool
  BY DEF IInv, Types, ThreadTypes
<1>2. Main \in Pool
  BY <1>1, PoolRange
<1>3. \A o : AtStep(UCI, o) =>
        /\ U # <<>> /\ Head(U).op = o /\ Next1(UCI) = Head(U)
        /\ \A t \in Pool : UCI \notin waiters[t]
  BY DEF AtStep, U, Next1
<1>4. \A o : AtStep(Main, o) =>
        /\ M # <<>> /\ Head(M).op = o /\ Next1(Main) = Head(M)
        /\ \A t \in Pool : Main \notin waiters[t]
        /\ job[Main] = "search"
  BY DEF AtStep, M, Next1
<1>5. job[Main] = "search" => pc[Main] = "job"
  BY <1>1, <1>2 DEF Lives
<1>6. /\ U # <<>> => Head(U) \in UciSteps /\ Head(U) \in Steps /\ Head(U).th \in Pool
      /\ M # <<>> => Head(M) \in MainSteps /\ Head(M) \in Steps /\ Head(M).th \in Pool
  BY <1>1, Heads
<1>7. /\ U # <<>> => Tail(U) \in Seq(UciSteps)
      /\ M # <<>> => Tail(M) \in Seq(MainSteps)
  BY <1>1, Rests
<1>8. M # <<>> => Head(M).op \in MainOps
  BY <1>6 DEF MainSteps
<1> QED BY <1>1, <1>2, <1>3, <1>4, <1>5, <1>6, <1>7, <1>8

\* Nobody comes to be blocked, and those who are do not move.
LEMMA BlockedKept ==
  ASSUME IInv, \A t \in Pool : \A w \in waiters'[t] : w # t => w \in waiters[t],
         \/ U' = U
         \/ \A t \in Pool : UCI \notin waiters[t]
         \/ U = <<>>,
         \/ M' = M /\ UNCHANGED job
         \/ M' = M /\ job[Main] # "search"
         \/ M' = M /\ job'[Main] = job[Main]
         \/ \A t \in Pool : Main \notin waiters[t]
  PROVE  Blocked'
<1>1. Blocked
  BY DEF IInv
<1>2. UCI \notin Pool
  BY DEF UCI, Pool
<1>3. ASSUME NEW t \in Pool, NEW w \in waiters'[t], w # t
      PROVE  /\ w \in {UCI, Main} /\ todo'[w] # <<>>
             /\ Head(todo'[w]).op \in {"wait", "run"} /\ Head(todo'[w]).th = t
             /\ w = Main => job'[Main] = "search"
  <2>1. w \in waiters[t]
    BY <1>3
  <2>2. /\ w \in {UCI, Main} /\ todo[w] # <<>>
        /\ Head(todo[w]).op \in {"wait", "run"} /\ Head(todo[w]).th = t
        /\ w = Main => job[Main] = "search"
    BY <1>1, <1>3, <2>1 DEF Blocked
  <2>3. CASE w = UCI
    <3>1. todo'[w] = todo[w]
      BY <2>1, <2>2, <2>3 DEF U
    <3> QED BY <2>2, <2>3, <3>1 DEF UCI, Main
  <2>4. CASE w = Main
    <3>1. todo'[w] = todo[w] /\ job'[Main] = "search"
      BY <2>1, <2>2, <2>4 DEF M
    <3> QED BY <2>2, <3>1
  <2> QED BY <2>2, <2>3, <2>4
<1> QED BY <1>3 DEF Blocked
-----------------------------------------------------------------------------
(* The steps of Next, one by one: each keeps the invariant. *)

\* The types are kept where nothing is written.
LEMMA TypesKept ==
  ASSUME Types
  PROVE  /\ UNCHANGED <<n, pc, searching, exit, jobFunc, job>>
              /\ waiters' \in [Pool -> SUBSET (Pool \cup {UCI})] => ThreadTypes'
         /\ UNCHANGED <<n, cvs>> => ThreadTypes'
         /\ UNCHANGED todo => ProgramTypes'
         /\ UNCHANGED <<flags, uci, setUp, lists, cout, printed>> => CommandTypes'
<1>1. /\ UNCHANGED <<n, pc, searching, exit, jobFunc, job>>
           /\ waiters' \in [Pool -> SUBSET (Pool \cup {UCI})] => ThreadTypes'
  BY DEF Types, ThreadTypes
<1>2. UNCHANGED <<n, cvs>> => ThreadTypes'
  BY DEF Types, ThreadTypes, cvs
<1>3. UNCHANGED todo => ProgramTypes'
  BY DEF Types, ProgramTypes, U, M
<1>4. UNCHANGED <<flags, uci, setUp, lists, cout, printed>> => CommandTypes'
  BY DEF Types, CommandTypes, flags, uci, lists
<1> QED BY <1>1, <1>2, <1>3, <1>4

\* Who blocks on thread t is one more there, and a notification wakes one.
LEMMA Waiters ==
  ASSUME Types, NEW t \in Pool
  PROVE  /\ \A p \in Pool \cup {UCI} : Block(p, t) =>
              /\ waiters' \in [Pool -> SUBSET (Pool \cup {UCI})]
              /\ \A u \in Pool : \A w \in waiters'[u] : w \in waiters[u] \/ (w = p /\ u = t)
         /\ NotifyOne(t) =>
              /\ waiters' \in [Pool -> SUBSET (Pool \cup {UCI})]
              /\ \A u \in Pool : \A w \in waiters'[u] : w \in waiters[u]
<1>1. waiters \in [Pool -> SUBSET (Pool \cup {UCI})]
  BY DEF Types, ThreadTypes
<1>2. ASSUME NEW p \in Pool \cup {UCI}, Block(p, t)
      PROVE  /\ waiters' \in [Pool -> SUBSET (Pool \cup {UCI})]
             /\ \A u \in Pool : \A w \in waiters'[u] : w \in waiters[u] \/ (w = p /\ u = t)
  BY <1>1, <1>2 DEF Block
<1>3. ASSUME NotifyOne(t)
      PROVE  /\ waiters' \in [Pool -> SUBSET (Pool \cup {UCI})]
             /\ \A u \in Pool : \A w \in waiters'[u] : w \in waiters[u]
  <2>1. waiters' = waiters \/ \E w \in waiters[t] : waiters' = [waiters EXCEPT ![t] = @ \ {w}]
    BY <1>3 DEF NotifyOne
  <2> QED BY <1>1, <2>1
<1> QED BY <1>2, <1>3

\* A thread comes to be blocked on the one that it is about to wait for, or to
\* give a job: nothing else changes.
LEMMA BlocksOn ==
  ASSUME IInv, NEW p \in {UCI, Main}, NEW t \in Pool, Block(p, t), todo[p] # <<>>,
         Head(todo[p]).op \in {"wait", "run"}, Head(todo[p]).th = t,
         p = Main => job[Main] = "search",
         UNCHANGED <<n, pc, searching, exit, jobFunc, job, todo, flags, uci, setUp, lists, cout, printed>>
  PROVE  IInv'
<1>1. Types /\ Lives /\ Blocked /\ p \in Pool \cup {UCI} /\ M' = M /\ U' = U
  BY PoolRange, PoolAssumption DEF IInv, Types, Main, Pool, M, U
<1>2. /\ waiters' \in [Pool -> SUBSET (Pool \cup {UCI})]
      /\ \A u \in Pool : \A w \in waiters'[u] : w \in waiters[u] \/ (w = p /\ u = t)
  BY <1>1, Waiters
<1>3. Types'
  BY <1>1, <1>2, TypesKept DEF Types
<1>4. Blocked'
  BY <1>1, <1>2 DEF Blocked
<1>5. Lives'
  BY <1>1, LivesUntouched DEF Alive
<1>6. Order' /\ Games' /\ Answering'
  BY <1>1, Untouched DEF Order, Games, Answering, uci, lists, flags
<1> QED BY <1>3, <1>4, <1>5, <1>6 DEF IInv

\* The UCI thread has done its step, and goes on to the rest of its program.
LEMMA UciPasses ==
  ASSUME IInv, NEW o \in Passing \ {"begin"}, AtStep(UCI, o), Done(UCI),
         o = "wait" => ~searching[Next1(UCI).th], o = "join" => pc[Next1(UCI).th] = "gone",
         waiters' \in [Pool -> SUBSET (Pool \cup {UCI})],
         \A u \in Pool : \A w \in waiters'[u] : w \in waiters[u], cout' \in {"engine", "host"},
         UNCHANGED <<n, pc, searching, exit, jobFunc, job, flags, uci, setUp, lists, printed>>
  PROVE  IInv'
<1> DEFINE a == Head(U)
           R == Tail(U)
<1>1. /\ U # <<>> /\ a.op = o /\ a \in UciSteps /\ a.th \in Pool /\ R \in Seq(UciSteps)
      /\ Next1(UCI) = a /\ \A t \in Pool : UCI \notin waiters[t]
  BY Steps1
<1>2. Types
  BY DEF IInv
<1>3. U' = R /\ M' = M /\ ProgramTypes'
  <2>1. <<>> \in Seq(UciSteps) /\ Rest(UCI, <<>>)
    BY DEF Done
  <2>2. M' = M /\ ProgramTypes' /\ U' = R
    BY <2>1, <1>1, <1>2, UciRests, Rests
  <2> QED BY <2>2
<1>4. Types'
  <2>1. ThreadTypes'
    BY <1>2, TypesKept
  <2>2. CommandTypes'
    BY <1>2 DEF Types, CommandTypes, flags, uci, lists
  <2> QED BY <1>3, <2>1, <2>2 DEF Types
<1>5. Blocked'
  BY <1>1, <1>3, BlockedKept
<1>6. a = Head(U) /\ R = Tail(U) /\ a.op \in Passing \ {"begin"}
  BY <1>1
<1> HIDE DEF a, R
<1>7. Lives' /\ Order'
  BY <1>1, <1>3, <1>6, UciAdvances DEF uci
<1>8. Games' /\ Answering'
  BY <1>1, <1>3, <1>6, UciAdvancesOn
<1> QED BY <1>4, <1>5, <1>7, <1>8 DEF IInv

\* wait_for_search_finished, notify_one, the end of a join, and the steps of the
\* UCI thread that only let it go on.
LEMMA UciWaits ==
  ASSUME IInv, \/ WaitFinished(UCI) \/ NotifyWorker(UCI) \/ Join(UCI)
               \/ RestoreCout \/ FreeMembers \/ ReplaceNetwork
  PROVE  IInv'
<1>1. Types /\ \A t \in Pool : \A w \in waiters[t] : w \in waiters[t]
  BY DEF IInv
<1>2. waiters \in [Pool -> SUBSET (Pool \cup {UCI})] /\ cout \in {"engine", "host"}
  BY <1>1 DEF Types, ThreadTypes, CommandTypes
<1>3. {"wait", "notify", "join", "restore", "free", "network"} \subseteq Passing \ {"begin"}
  BY DEF Passing
<1>4. CASE WaitFinished(UCI)
  <2>1. AtStep(UCI, "wait")
    BY <1>4 DEF WaitFinished
  <2>2. CASE searching[Next1(UCI).th]
    <3>1. Block(UCI, Next1(UCI).th)
          /\ UNCHANGED <<n, pc, searching, exit, jobFunc, job, todo, flags, uci, setUp, lists, cout, printed>>
      BY <1>4, <2>2 DEF WaitFinished
    <3>2. /\ todo[UCI] # <<>> /\ Head(todo[UCI]).op \in {"wait", "run"} /\ Next1(UCI).th \in Pool
          /\ Head(todo[UCI]).th = Next1(UCI).th
      BY <2>1, Steps1 DEF U
    <3>3. UCI # Main
      BY DEF UCI, Main
    <3> QED BY <3>1, <3>2, <3>3, BlocksOn
  <2>3. CASE ~searching[Next1(UCI).th]
    <3>1. Done(UCI) /\ UNCHANGED <<waiters, cout>>
          /\ UNCHANGED <<n, pc, searching, exit, jobFunc, job, flags, uci, setUp, lists, printed>>
      BY <1>4, <2>3 DEF WaitFinished
    <3> QED BY <1>1, <1>2, <1>3, <2>1, <2>3, <3>1, UciPasses
  <2> QED BY <2>2, <2>3
<1>5. CASE NotifyWorker(UCI)
  <2>1. /\ AtStep(UCI, "notify") /\ NotifyOne(Next1(UCI).th) /\ Done(UCI) /\ cout' = cout
        /\ UNCHANGED <<n, pc, searching, exit, jobFunc, job, flags, uci, setUp, lists, printed>>
    BY <1>5 DEF NotifyWorker
  <2>2. Next1(UCI).th \in Pool
    BY <2>1, Steps1
  <2>3. /\ waiters' \in [Pool -> SUBSET (Pool \cup {UCI})]
        /\ \A u \in Pool : \A w \in waiters'[u] : w \in waiters[u]
    BY <1>1, <2>1, <2>2, Waiters
  <2> QED BY <1>2, <1>3, <2>1, <2>3, UciPasses
<1>6. CASE Join(UCI)
  <2>1. /\ AtStep(UCI, "join") /\ pc[Next1(UCI).th] = "gone" /\ Done(UCI) /\ UNCHANGED <<waiters, cout>>
        /\ UNCHANGED <<n, pc, searching, exit, jobFunc, job, flags, uci, setUp, lists, printed>>
    BY <1>6 DEF Join, cvs
  <2> QED BY <1>1, <1>2, <1>3, <2>1, UciPasses
<1>7. CASE RestoreCout
  <2>1. /\ AtStep(UCI, "restore") /\ Done(UCI) /\ UNCHANGED waiters /\ cout' = "host"
        /\ UNCHANGED <<n, pc, searching, exit, jobFunc, job, flags, uci, setUp, lists, printed>>
    BY <1>7 DEF RestoreCout, cvs
  <2> QED BY <1>1, <1>2, <1>3, <2>1, UciPasses
<1>8. CASE FreeMembers
  <2>1. /\ AtStep(UCI, "free") /\ Done(UCI) /\ UNCHANGED <<waiters, cout>>
        /\ UNCHANGED <<n, pc, searching, exit, jobFunc, job, flags, uci, setUp, lists, printed>>
    BY <1>8 DEF FreeMembers, cvs
  <2> QED BY <1>1, <1>2, <1>3, <2>1, UciPasses
<1>9. CASE ReplaceNetwork
  <2>1. /\ AtStep(UCI, "network") /\ Done(UCI) /\ UNCHANGED <<waiters, cout>>
        /\ UNCHANGED <<n, pc, searching, exit, jobFunc, job, flags, uci, setUp, lists, printed>>
    BY <1>9 DEF ReplaceNetwork, cvs
  <2> QED BY <1>1, <1>2, <1>3, <2>1, UciPasses
<1> QED BY <1>4, <1>5, <1>6, <1>7, <1>8, <1>9

\* run_custom_job, by the UCI thread.
LEMMA UciRuns ==
  ASSUME IInv, RunCustomJob(UCI)
  PROVE  IInv'
<1> DEFINE a == Head(U)
           R == Tail(U)
           t == a.th
           j == a.job
           b == Step("notify", t)
<1>1. AtStep(UCI, "run") /\ Next1(UCI) = a /\ Types
  BY DEF RunCustomJob, Next1, U, IInv
<1>2. /\ U # <<>> /\ a.op = "run" /\ a \in UciSteps /\ t \in Pool /\ R \in Seq(UciSteps)
      /\ \A u \in Pool : UCI \notin waiters[u]
  BY <1>1, Steps1
<1>3. CASE searching[t]
  <2>1. Block(UCI, t)
        /\ UNCHANGED <<n, pc, searching, exit, jobFunc, job, todo, flags, uci, setUp, lists, cout, printed>>
    BY <1>1, <1>3 DEF RunCustomJob
  <2>2. todo[UCI] # <<>> /\ Head(todo[UCI]).op \in {"wait", "run"} /\ Head(todo[UCI]).th = t
    BY <1>2 DEF U
  <2>3. UCI # Main
    BY DEF UCI, Main
  <2> QED BY <1>2, <2>1, <2>2, <2>3, BlocksOn
<1>4. CASE ~searching[t]
  <2>1. /\ jobFunc' = [jobFunc EXCEPT ![t] = j] /\ searching' = [searching EXCEPT ![t] = TRUE]
        /\ Rest(UCI, <<b>>) /\ UNCHANGED <<waiters, cout>>
        /\ UNCHANGED <<n, pc, exit, job, flags, uci, setUp, lists, printed>>
    BY <1>1, <1>4 DEF RunCustomJob
  <2>2. j \in Jobs
    BY <1>1, <1>2, Heads
  <2>3. b \in UciSteps /\ b.op = "notify"
    BY <1>2, StepFields DEF UciOps
  <2>4. U' = <<b>> \o R /\ M' = M /\ ProgramTypes'
    <3>1. <<b>> \in Seq(UciSteps)
      BY <2>3
    <3> QED BY <1>1, <1>2, <2>1, <3>1, UciRests
  <2>5. pc[t] \notin {"top", "job"}
    BY <1>1, <1>2, <1>4 DEF Types, ThreadTypes
  <2>6. Types'
    <3>1. ThreadTypes'
      BY <1>1, <1>2, <2>1, <2>2, <2>5 DEF Types, ThreadTypes
    <3>2. CommandTypes'
      BY <1>1, <2>1, TypesKept
    <3> QED BY <2>4, <3>1, <3>2 DEF Types
  <2>7. Blocked'
    BY <1>2, <2>1, <2>4, BlockedKept
  <2>8. a = Head(U) /\ R = Tail(U) /\ a.th = t /\ a.job = j
    OBVIOUS
  <2> HIDE DEF a, R, t, j, b
  <2>9. Lives' /\ Order' /\ Games' /\ Answering'
    BY <1>2, <1>4, <2>1, <2>2, <2>3, <2>4, <2>8, UciPosts
  <2> QED BY <2>6, <2>7, <2>9 DEF IInv
<1> QED BY <1>3, <1>4

\* ~Thread.
LEMMA UciEnds ==
  ASSUME IInv, Kill(UCI)
  PROVE  IInv'
<1> DEFINE a == Head(U)
           R == Tail(U)
           t == a.th
           b == Run(t, "search")
           c == Step("join", t)
<1>1. /\ AtStep(UCI, "kill") /\ Next1(UCI) = a /\ Types
      /\ exit' = [exit EXCEPT ![t] = TRUE] /\ Rest(UCI, <<b, c>>)
      /\ UNCHANGED <<n, pc, searching, jobFunc, job, waiters, flags, uci, setUp, lists, cout, printed>>
  BY DEF Kill, Next1, U, IInv
<1>2. /\ U # <<>> /\ a.op = "kill" /\ a \in UciSteps /\ t \in Pool /\ R \in Seq(UciSteps)
      /\ \A u \in Pool : UCI \notin waiters[u]
  BY <1>1, Steps1
<1>3. /\ b \in UciSteps /\ b.op = "run" /\ b.th = t /\ b.job = "search"
      /\ c \in UciSteps /\ c.op = "join" /\ c.th = t
  BY <1>2, StepFields DEF UciOps, Jobs
<1>4. U' = <<b, c>> \o R /\ M' = M /\ ProgramTypes'
  <2>1. <<b, c>> \in Seq(UciSteps)
    BY <1>3
  <2> QED BY <1>1, <1>2, <2>1, UciRests
<1>5. Types'
  <2>1. ThreadTypes'
    BY <1>1, <1>2 DEF Types, ThreadTypes
  <2>2. CommandTypes'
    BY <1>1, TypesKept
  <2> QED BY <1>4, <2>1, <2>2 DEF Types
<1>6. Blocked'
  BY <1>1, <1>2, <1>4, BlockedKept
<1>7. a = Head(U) /\ R = Tail(U) /\ a.th = t
  OBVIOUS
<1> HIDE DEF a, R, t, b, c
<1>8. U' = <<b>> \o (<<c>> \o R)
  <2>1. R \in Seq(UciSteps) /\ b \in UciSteps /\ c \in UciSteps
    BY <1>2, <1>3
  <2>2. <<b, c>> \o R = <<b>> \o (<<c>> \o R)
    BY ONLY <2>1, Pair
  <2> QED BY <1>4, <2>2
<1>9. Lives' /\ Order' /\ Games' /\ Answering'
  BY <1>1, <1>2, <1>3, <1>4, <1>5, <1>7, <1>8, UciKills
<1> QED BY <1>5, <1>6, <1>9 DEF IInv

\* Thread::Thread.
LEMMA UciCreates ==
  ASSUME IInv, Make(UCI)
  PROVE  IInv'
<1> DEFINE a == Head(U)
           R == Tail(U)
           t == a.th
           w == Step("wait", t)
           r == Run(t, "alloc")
<1>1. /\ AtStep(UCI, "make") /\ Next1(UCI) = a /\ Types /\ Lives
      /\ pc' = [pc EXCEPT ![t] = "top"] /\ searching' = [searching EXCEPT ![t] = TRUE]
      /\ exit' = [exit EXCEPT ![t] = FALSE] /\ jobFunc' = [jobFunc EXCEPT ![t] = "none"]
      /\ Rest(UCI, <<w, r, w>>)
      /\ UNCHANGED <<n, job, waiters, flags, uci, setUp, lists, cout, printed>>
  BY DEF Make, Next1, U, IInv
<1>2. /\ U # <<>> /\ a.op = "make" /\ a \in UciSteps /\ t \in Pool /\ R \in Seq(UciSteps)
      /\ \A u \in Pool : UCI \notin waiters[u]
  BY <1>1, Steps1
<1>3. /\ w \in UciSteps /\ w.op = "wait" /\ w.th = t
      /\ r \in UciSteps /\ r.op = "run" /\ r.th = t /\ r.job = "alloc"
  BY <1>2, StepFields DEF UciOps, Jobs
<1>4. U' = <<w, r, w>> \o R /\ M' = M /\ ProgramTypes'
  <2>1. <<w, r, w>> \in Seq(UciSteps)
    BY <1>3
  <2> QED BY <1>1, <1>2, <2>1, UciRests
<1>5. Types'
  <2>1. ThreadTypes'
    BY <1>1, <1>2 DEF Types, ThreadTypes, Jobs
  <2>2. CommandTypes'
    BY <1>1, TypesKept
  <2> QED BY <1>4, <2>1, <2>2 DEF Types
<1>6. Blocked'
  BY <1>1, <1>2, <1>4, BlockedKept
<1>7. a = Head(U) /\ R = Tail(U) /\ a.th = t
  OBVIOUS
<1> HIDE DEF a, R, t, w, r
<1>8. U' = <<w>> \o (<<r>> \o (<<w>> \o R))
  BY <1>2, <1>3, <1>4, Prefixed, SMTT(30)
<1>9. Lives' /\ Order' /\ Games' /\ Answering'
  BY <1>1, <1>2, <1>3, <1>4, <1>5, <1>7, <1>8, UciMakes
<1> QED BY <1>5, <1>6, <1>9 DEF IInv

\* The vector of threads is resized.
LEMMA UciSetsSize ==
  ASSUME IInv, SetSize(UCI)
  PROVE  IInv'
<1> DEFINE a == Head(U)
           R == Tail(U)
<1>1. /\ AtStep(UCI, "resize") /\ Next1(UCI) = a /\ Types /\ n' = a.th /\ Done(UCI)
      /\ UNCHANGED <<cvs, flags, uci, setUp, lists, cout, printed>>
  BY DEF SetSize, Next1, U, IInv
<1>2. /\ U # <<>> /\ a.op = "resize" /\ a \in UciSteps /\ a.th \in Pool /\ R \in Seq(UciSteps)
      /\ \A u \in Pool : UCI \notin waiters[u]
  BY <1>1, Steps1
<1>3. U' = R /\ M' = M /\ ProgramTypes'
  <2>1. <<>> \in Seq(UciSteps) /\ Rest(UCI, <<>>)
    BY <1>1 DEF Done
  <2>2. M' = M /\ ProgramTypes' /\ U' = R
    BY <2>1, <1>1, <1>2, UciRests, Rests
  <2> QED BY <2>2
<1>4. Types'
  <2>1. ThreadTypes'
    BY <1>1, <1>2 DEF Types, ThreadTypes, cvs
  <2>2. CommandTypes'
    BY <1>1, TypesKept
  <2> QED BY <1>3, <2>1, <2>2 DEF Types
<1>5. Blocked'
  BY <1>1, <1>2, <1>3, BlockedKept DEF cvs
<1>6. a = Head(U) /\ R = Tail(U)
  OBVIOUS
<1> HIDE DEF a, R
<1>7. Lives' /\ Order' /\ Games' /\ Answering'
  BY <1>1, <1>2, <1>3, <1>4, <1>6, UciResizes
<1> QED BY <1>4, <1>5, <1>7 DEF IInv

\* start_thinking, after it has waited for the search before.
LEMMA UciBeginsGo ==
  ASSUME IInv, BeginSearch
  PROVE  IInv'
<1> DEFINE a == Head(U)
           R == Tail(U)
<1>1. /\ AtStep(UCI, "begin") /\ Types /\ Done(UCI) /\ Next1(UCI) = a
      /\ stop' = FALSE /\ stopOnPonderhit' = FALSE
      /\ limits' = a.limits /\ ponder' = limits'.ponder
      /\ gos' = gos + 1 /\ told' = {}
      /\ setupStates' = (IF states = 0 THEN setupStates ELSE states) /\ states' = 0
      /\ UNCHANGED <<n, cvs, loop, commands, setUp, pos, cout, printed>>
  BY DEF BeginSearch, Next1, U, IInv
<1>2. /\ U # <<>> /\ a.op = "begin" /\ a \in UciSteps /\ a.th \in Pool /\ R \in Seq(UciSteps)
      /\ a \in Steps /\ \A u \in Pool : UCI \notin waiters[u]
  BY <1>1, Steps1
<1>3. U' = R /\ M' = M /\ ProgramTypes'
  <2>1. <<>> \in Seq(UciSteps) /\ Rest(UCI, <<>>)
    BY <1>1 DEF Done
  <2>2. M' = M /\ ProgramTypes' /\ U' = R
    BY <2>1, <1>1, <1>2, UciRests, Rests
  <2> QED BY <2>2
<1>4. Types'
  <2>1. ThreadTypes'
    BY <1>1, TypesKept
  <2>2. a.limits \in Limits
    BY <1>2 DEF Steps, UciOps, MainOps
  <2>3. limits' \in Limits /\ ponder' \in BOOLEAN
    BY <1>1, <2>2 DEF Limits
  <2>4. /\ states \in 0..(MaxCommands + 1) /\ setupStates \in 0..(MaxCommands + 1)
        /\ pos \in 0..(MaxCommands + 1) /\ gos \in Nat /\ MaxCommands \in Nat
    BY <1>1, PoolAssumption DEF Types, CommandTypes
  <2>5. gos' \in Nat /\ {states', setupStates', pos'} \subseteq 0..(MaxCommands + 1)
    BY <1>1, <2>4
  <2>6. /\ setUp' \in [Pool -> [go : Nat, list : 0..(MaxCommands + 1)]]
        /\ loop' \in BOOLEAN /\ cout' \in {"engine", "host"} /\ commands' \in 0..MaxCommands
        /\ printed' \in [{"engine", "host"} -> Nat]
    BY <1>1 DEF Types, CommandTypes
  <2>7. CommandTypes'
    BY <1>1, <2>3, <2>5, <2>6 DEF CommandTypes
  <2> QED BY <1>3, <2>1, <2>7 DEF Types
<1>5. Blocked'
  BY <1>1, <1>2, <1>3, BlockedKept DEF cvs
<1>6. a = Head(U) /\ R = Tail(U) /\ a.op \in Passing /\ a.op \notin {"wait", "join"}
  BY <1>2 DEF Passing
<1> HIDE DEF a, R
<1>7. UNCHANGED <<n, pc, exit, jobFunc, job, loop>>
  BY <1>1 DEF cvs
<1>8. Lives' /\ Order'
  BY <1>2, <1>3, <1>6, <1>7, UciAdvances
<1>9. Games' /\ Answering'
  BY <1>1, <1>2, <1>3, <1>6, <1>7, UciBegins
<1> QED BY <1>4, <1>5, <1>8, <1>9 DEF IInv

\* A step of the UCI thread keeps the invariant.
LEMMA UciIInv ==
  ASSUME IInv, UciStep
  PROVE  IInv'
BY UciWaits, UciRuns, UciEnds, UciCreates, UciSetsSize, UciBeginsGo DEF UciStep, Proceed

\* A step of the searching main thread that changes neither the pool nor a job,
\* nor what the UCI thread has to do, leaves most of the invariant alone.
LEMMA MainLeaves ==
  ASSUME IInv, Types', U' = U, \A t \in Pool : Main \notin waiters[t],
         \A u \in Pool : \A w \in waiters'[u] : w \in waiters[u],
         UNCHANGED <<n, pc, exit, jobFunc, job, gos, commands, setUp, lists, loop>>,
         MainOrder' /\ HelpersAreAwaited' /\ Counted' /\ Held', NetworkOrder'
  PROVE  IInv'
<1>1. Lives'
  BY LivesUntouched DEF IInv, Alive
<1>2. Blocked'
  BY BlockedKept
<1>3. UciOrder' /\ JobsAreAwaited' /\ SetUpBeforeSearch' /\ GoOrder' /\ GameAlive'
  BY Untouched DEF lists
<1> QED BY <1>1, <1>2, <1>3 DEF IInv, Order, Games, Answering

\* The main thread has done its step, and goes on to the rest of its program.
LEMMA MainPasses ==
  ASSUME IInv, NEW o, o \notin {"bestmove", "return"}, AtStep(Main, o), Done(Main),
         o = "wait" => ~searching[Next1(Main).th],
         waiters' \in [Pool -> SUBSET (Pool \cup {UCI})],
         \A u \in Pool : \A w \in waiters'[u] : w \in waiters[u],
         UNCHANGED <<n, pc, searching, exit, jobFunc, job, uci, setUp, lists, cout, printed, ponder>>,
         stop' \in BOOLEAN, stopOnPonderhit' \in BOOLEAN,
         \/ stop' = stop /\ o # "linger"
         \/ o \in {"timeout", "raise"}
         \/ stop' = stop /\ (stop \/ (~ponder /\ ~limits.infinite))
  PROVE  IInv'
<1> DEFINE a == Head(M)
           R == Tail(M)
<1>1. /\ M # <<>> /\ a.op = o /\ a \in MainSteps /\ R \in Seq(MainSteps)
      /\ Next1(Main) = a /\ (\A t \in Pool : Main \notin waiters[t]) /\ job[Main] = "search"
  BY Steps1
<1>2. Types
  BY DEF IInv
<1>3. M' = R /\ U' = U /\ ProgramTypes'
  <2>1. <<>> \in Seq(MainSteps) /\ Rest(Main, <<>>)
    BY DEF Done
  <2>2. U' = U /\ ProgramTypes' /\ M' = R
    BY <2>1, <1>1, <1>2, MainRests, Rests
  <2> QED BY <2>2
<1>4. Types'
  <2>1. ThreadTypes'
    BY <1>2, TypesKept
  <2>2. CommandTypes'
    BY <1>2 DEF Types, CommandTypes, uci, lists
  <2> QED BY <1>3, <2>1, <2>2 DEF Types
<1>5. a = Head(M) /\ R = Tail(M) /\ (a.op = "wait" => ~searching[a.th])
  BY <1>1
<1> HIDE DEF a, R
<1>6. MainOrder' /\ HelpersAreAwaited' /\ Counted'
  BY <1>1, <1>3, <1>5, MainAdvances DEF uci
<1>7. Held'
  <2>1. UNCHANGED <<limits, told, ponder>>
    BY DEF uci
  <2> QED BY <1>1, <1>3, <1>5, <2>1, MainHeld
<1>8. NetworkOrder'
  BY <1>3, Untouched DEF uci
<1> QED BY <1>1, <1>3, <1>4, <1>6, <1>7, <1>8, MainLeaves DEF uci

\* The main thread waits for a helper, notifies one, says that its time is up,
\* raises the stop, or has been told to end.
LEMMA MainWaits ==
  ASSUME IInv, \/ WaitFinished(Main) \/ NotifyWorker(Main) \/ Pondered \/ Raise
               \/ DeepenEnds \/ Linger
  PROVE  IInv'
<1>1. Types /\ \A t \in Pool : \A w \in waiters[t] : w \in waiters[t]
  BY DEF IInv
<1>2. /\ waiters \in [Pool -> SUBSET (Pool \cup {UCI})]
      /\ stop \in BOOLEAN /\ stopOnPonderhit \in BOOLEAN
  BY <1>1 DEF Types, ThreadTypes, CommandTypes
<1>3. CASE WaitFinished(Main)
  <2>1. AtStep(Main, "wait")
    BY <1>3 DEF WaitFinished
  <2>2. CASE searching[Next1(Main).th]
    <3>1. Block(Main, Next1(Main).th)
          /\ UNCHANGED <<n, pc, searching, exit, jobFunc, job, todo, flags, uci, setUp, lists, cout, printed>>
      BY <1>3, <2>2 DEF WaitFinished
    <3>2. /\ todo[Main] # <<>> /\ Head(todo[Main]).op \in {"wait", "run"} /\ Next1(Main).th \in Pool
          /\ Head(todo[Main]).th = Next1(Main).th /\ job[Main] = "search"
      BY <2>1, Steps1 DEF M
    <3> QED BY <3>1, <3>2, BlocksOn
  <2>3. CASE ~searching[Next1(Main).th]
    <3>1. Done(Main) /\ UNCHANGED <<waiters, stop, stopOnPonderhit>>
          /\ UNCHANGED <<n, pc, searching, exit, jobFunc, job, uci, setUp, lists, cout, printed, ponder>>
      BY <1>3, <2>3 DEF WaitFinished, flags
    <3> QED BY <1>1, <1>2, <2>1, <2>3, <3>1, MainPasses
  <2> QED BY <2>2, <2>3
<1>4. CASE NotifyWorker(Main)
  <2>1. /\ AtStep(Main, "notify") /\ NotifyOne(Next1(Main).th) /\ Done(Main)
        /\ UNCHANGED <<stop, stopOnPonderhit>>
        /\ UNCHANGED <<n, pc, searching, exit, jobFunc, job, uci, setUp, lists, cout, printed, ponder>>
    BY <1>4 DEF NotifyWorker, flags
  <2>2. Next1(Main).th \in Pool
    BY <2>1, Steps1
  <2>3. /\ waiters' \in [Pool -> SUBSET (Pool \cup {UCI})]
        /\ \A u \in Pool : \A w \in waiters'[u] : w \in waiters[u]
    BY <1>1, <2>1, <2>2, Waiters
  <2> QED BY <1>2, <2>1, <2>3, MainPasses
<1>5. CASE Pondered
  <2>1. /\ AtStep(Main, "pondered") /\ Done(Main) /\ UNCHANGED <<waiters, stop>> /\ stopOnPonderhit' = TRUE
        /\ UNCHANGED <<n, pc, searching, exit, jobFunc, job, uci, setUp, lists, cout, printed, ponder>>
    BY <1>5 DEF Pondered, mainOnly, cvs
  <2> QED BY <1>1, <1>2, <2>1, MainPasses
<1>6. CASE Raise
  <2>1. /\ Done(Main) /\ UNCHANGED <<waiters, stopOnPonderhit>> /\ stop' = TRUE
        /\ UNCHANGED <<n, pc, searching, exit, jobFunc, job, uci, setUp, lists, cout, printed, ponder>>
    BY <1>6 DEF Raise, mainOnly, cvs
  <2>2. PICK o \in {"timeout", "raise"} : AtStep(Main, o)
    BY <1>6 DEF Raise
  <2> QED BY <1>1, <1>2, <2>1, <2>2, MainPasses
<1>7. CASE DeepenEnds
  <2>1. /\ AtStep(Main, "deepen") /\ Done(Main) /\ UNCHANGED <<waiters, stop, stopOnPonderhit>>
        /\ UNCHANGED <<n, pc, searching, exit, jobFunc, job, uci, setUp, lists, cout, printed, ponder>>
    BY <1>7 DEF DeepenEnds, mainOnly, cvs, flags
  <2> QED BY <1>1, <1>2, <2>1, MainPasses
<1>8. CASE Linger
  <2>1. /\ AtStep(Main, "linger") /\ Done(Main) /\ UNCHANGED <<waiters, stop, stopOnPonderhit>>
        /\ stop \/ (~ponder /\ ~limits.infinite)
        /\ UNCHANGED <<n, pc, searching, exit, jobFunc, job, uci, setUp, lists, cout, printed, ponder>>
    BY <1>8 DEF Linger, mainOnly, cvs, flags
  <2> QED BY <1>1, <1>2, <2>1, MainPasses
<1> QED BY <1>3, <1>4, <1>5, <1>6, <1>7, <1>8

\* run_custom_job, by the main thread: start_searching of the helpers.
LEMMA MainRunsJob ==
  ASSUME IInv, RunCustomJob(Main)
  PROVE  IInv'
<1> DEFINE a == Head(M)
           R == Tail(M)
           t == a.th
           b == Step("notify", t)
           q == <<b>> \o R
<1>1. AtStep(Main, "run") /\ Next1(Main) = a /\ Types /\ Lives
  BY DEF RunCustomJob, Next1, M, IInv
<1>2. /\ M # <<>> /\ a.op = "run" /\ a \in MainSteps /\ t \in Pool /\ R \in Seq(MainSteps)
      /\ (\A u \in Pool : Main \notin waiters[u]) /\ job[Main] = "search"
  BY <1>1, Steps1
<1>3. CASE searching[t]
  <2>1. Block(Main, t)
        /\ UNCHANGED <<n, pc, searching, exit, jobFunc, job, todo, flags, uci, setUp, lists, cout, printed>>
    BY <1>1, <1>3 DEF RunCustomJob
  <2>2. todo[Main] # <<>> /\ Head(todo[Main]).op \in {"wait", "run"} /\ Head(todo[Main]).th = t
    BY <1>2 DEF M
  <2> QED BY <1>2, <2>1, <2>2, BlocksOn
<1>4. CASE ~searching[t]
  <2>1. a.job = "search"
    BY <1>2 DEF MainSteps
  <2>2. /\ jobFunc' = [jobFunc EXCEPT ![t] = "search"] /\ searching' = [searching EXCEPT ![t] = TRUE]
        /\ Rest(Main, <<b>>) /\ UNCHANGED <<waiters, cout>>
        /\ UNCHANGED <<n, pc, exit, job, flags, uci, setUp, lists, printed>>
    BY <1>1, <1>4, <2>1 DEF RunCustomJob
  <2>3. b \in MainSteps /\ b.op = "notify"
    BY <1>2, StepFields DEF UciOps, MainOps, MainSteps
  <2>4. M' = q /\ U' = U /\ ProgramTypes' /\ q \in Seq(MainSteps)
    <3>1. <<b>> \in Seq(MainSteps)
      BY <2>3
    <3>2. M' = q /\ U' = U /\ ProgramTypes'
      BY <1>1, <1>2, <2>2, <3>1, MainRests
    <3> QED BY <1>2, <3>1, <3>2, ConcatProperties
  <2>5. pc[t] \notin {"top", "job"}
    BY <1>1, <1>2, <1>4 DEF Types, ThreadTypes
  <2>6. Types'
    <3>1. ThreadTypes'
      BY <1>1, <1>2, <2>2, <2>5 DEF Types, ThreadTypes, Jobs
    <3>2. CommandTypes'
      BY <1>1, <2>2, TypesKept
    <3> QED BY <2>4, <3>1, <3>2 DEF Types
  <2>7. Blocked'
    BY <1>2, <2>2, <2>4, BlockedKept
  <2>8. Lives'
    BY <1>1, <2>2, <2>4, LivesUntouched DEF Alive
  <2>9. a = Head(M) /\ R = Tail(M) /\ a.th = t /\ q = <<b>> \o R
    OBVIOUS
  <2> HIDE DEF a, R, t, b, q
  <2>10. Order' /\ Games' /\ Answering'
    BY <1>2, <1>4, <2>2, <2>3, <2>4, <2>9, MainRuns
  <2> QED BY <2>6, <2>7, <2>8, <2>10 DEF IInv
<1> QED BY <1>3, <1>4

\* Worker::start_searching of the main thread begins.
LEMMA MainBegins ==
  ASSUME IInv, StartMain
  PROVE  IInv'
<1> DEFINE H == (IF limits.moves THEN Search(n) ELSE <<Step("bestmove", Main)>>)
                  \o <<Step("return", Main)>>
<1>1. /\ pc[Main] = "job" /\ job[Main] = "search" /\ M = <<>> /\ Types /\ Blocked
      /\ todo' = [todo EXCEPT ![Main] = H]
      /\ UNCHANGED <<mainOnly, flags, printed>>
  BY DEF StartMain, M, IInv
<1>2. MainProgram(H)
  BY <1>1, NoMovesProgram, SearchProgram
<1> HIDE DEF H
<1>3. H \in Seq(MainSteps)
  BY <1>2 DEF MainProgram
<1>4. M' = H /\ U' = U /\ ProgramTypes'
  <2>1. H \in Seq(Steps)
    <3>1. MainSteps \subseteq Steps
      BY DEF MainSteps
    <3> QED BY <1>3, <3>1, SeqMonotonic
  <2>2. M' = H /\ U' = U /\ todo' \in [{UCI, Main} -> Seq(Steps)] /\ U \in Seq(UciSteps)
    BY <1>1, <2>1 DEF M, U, UCI, Main, Types, ProgramTypes
  <2> QED BY <1>3, <2>2 DEF ProgramTypes
<1>5. Types'
  BY <1>1, <1>4, TypesKept DEF Types, mainOnly
<1>6. \A t \in Pool : Main \in waiters[t] => t = Main
  BY <1>1 DEF Blocked, M
<1>7. MainOrder' /\ HelpersAreAwaited' /\ Counted' /\ Held'
  BY <1>1, <1>2, <1>4, MainStarts
<1>8. Lives'
  BY <1>1, <1>4, LivesUntouched DEF IInv, Alive, mainOnly, cvs
<1>9. Blocked'
  <2>1. U' = U /\ waiters' = waiters /\ job' = job /\ UCI # Main
    BY <1>1, <1>4 DEF mainOnly, cvs, UCI, Main
  <2> QED BY <1>1, <1>6, <2>1 DEF Blocked, U
<1>10. UciOrder' /\ JobsAreAwaited' /\ SetUpBeforeSearch' /\ GoOrder' /\ GameAlive' /\ NetworkOrder'
  BY <1>1, <1>4, Untouched DEF mainOnly, cvs, uci, lists
<1> QED BY <1>5, <1>7, <1>8, <1>9, <1>10 DEF IInv, Order, Games, Answering

\* updates.onBestmove.
LEMMA MainSays ==
  ASSUME IInv, BestMove
  PROVE  IInv'
<1> DEFINE a == Head(M)
           R == Tail(M)
<1>1. /\ AtStep(Main, "bestmove") /\ Next1(Main) = a /\ Types /\ Done(Main)
      /\ printed' = [printed EXCEPT ![cout] = @ + 1] /\ UNCHANGED <<mainOnly, flags>>
  BY DEF BestMove, Next1, M, IInv
<1>2. /\ M # <<>> /\ a.op = "bestmove" /\ a \in MainSteps /\ R \in Seq(MainSteps)
      /\ (\A u \in Pool : Main \notin waiters[u]) /\ job[Main] = "search" /\ pc[Main] = "job"
  BY <1>1, Steps1
<1>3. M' = R /\ U' = U /\ ProgramTypes'
  <2>1. <<>> \in Seq(MainSteps) /\ Rest(Main, <<>>)
    BY <1>1 DEF Done
  <2>2. U' = U /\ ProgramTypes' /\ M' = R
    BY <2>1, <1>1, <1>2, MainRests, Rests
  <2> QED BY <2>2
<1>4. /\ printed' \in [{"engine", "host"} -> Nat] /\ Answers' = Answers + 1
  BY <1>1 DEF Types, CommandTypes, Answers
<1>5. UNCHANGED <<n, pc, searching, exit, jobFunc, job, waiters, limits, loop, commands, gos, told,
                  setUp, lists, cout, stop, ponder, stopOnPonderhit>>
  BY <1>1 DEF mainOnly, cvs, uci, flags
<1>6. Types'
  <2>1. ThreadTypes'
    BY <1>1, <1>5, TypesKept DEF cvs
  <2>2. CommandTypes'
    BY <1>1, <1>4, <1>5 DEF Types, CommandTypes, lists
  <2> QED BY <1>3, <2>1, <2>2 DEF Types
<1>7. a = Head(M) /\ R = Tail(M)
  OBVIOUS
<1> HIDE DEF a, R
<1>8. MainOrder' /\ HelpersAreAwaited' /\ Counted' /\ NetworkOrder'
  BY <1>2, <1>3, <1>4, <1>5, <1>7, MainAnswers
<1>9. Held'
  BY <1>2, <1>3, <1>5, <1>7, MainHeld
<1> QED BY <1>2, <1>3, <1>5, <1>6, <1>8, <1>9, MainLeaves

\* start_searching returns to idle_loop.
LEMMA MainLeavesJob ==
  ASSUME IInv, ReturnMain
  PROVE  IInv'
<1> DEFINE a == Head(M)
           R == Tail(M)
<1>1. /\ AtStep(Main, "return") /\ Next1(Main) = a /\ Types /\ Done(Main)
      /\ pc' = [pc EXCEPT ![Main] = "top"] /\ job' = [job EXCEPT ![Main] = "none"]
      /\ UNCHANGED <<searching, exit, jobFunc, waiters>>
      /\ UNCHANGED <<n, uci, lists, cout, flags, setUp, printed>>
  BY DEF ReturnMain, JobEnds, Next1, M, IInv
<1>2. /\ M # <<>> /\ a.op = "return" /\ a \in MainSteps /\ R \in Seq(MainSteps) /\ Main \in Pool
      /\ (\A u \in Pool : Main \notin waiters[u]) /\ job[Main] = "search" /\ pc[Main] = "job"
  BY <1>1, Steps1
<1>3. M' = R /\ U' = U /\ ProgramTypes'
  <2>1. <<>> \in Seq(MainSteps) /\ Rest(Main, <<>>)
    BY <1>1 DEF Done
  <2>2. U' = U /\ ProgramTypes' /\ M' = R
    BY <2>1, <1>1, <1>2, MainRests, Rests
  <2> QED BY <2>2
<1>4. Types'
  <2>1. ThreadTypes'
    BY <1>1, <1>2 DEF Types, ThreadTypes, Jobs
  <2>2. CommandTypes'
    BY <1>1, TypesKept
  <2> QED BY <1>3, <2>1, <2>2 DEF Types
<1>5. Blocked'
  BY <1>1, <1>2, <1>3, BlockedKept
<1>6. a = Head(M) /\ R = Tail(M)
  OBVIOUS
<1> HIDE DEF a, R
<1>7. Lives' /\ Order' /\ Games' /\ Answering'
  BY <1>1, <1>2, <1>3, <1>6, MainReturns
<1> QED BY <1>4, <1>5, <1>7 DEF IInv

\* The main thread neither ends nor makes threads.
LEMMA MainMakesNone ==
  ASSUME IInv, Kill(Main) \/ Join(Main) \/ Make(Main) \/ SetSize(Main)
  PROVE  FALSE
<1>1. \E o \in {"kill", "join", "make", "resize"} : AtStep(Main, o)
  BY DEF Kill, Join, Make, SetSize
<1>2. \A o : AtStep(Main, o) => o \in MainOps
  BY Steps1
<1> QED BY <1>1, <1>2 DEF MainOps

\* A step of the main thread keeps the invariant.
LEMMA MainIInv ==
  ASSUME IInv, MainStep
  PROVE  IInv'
BY MainWaits, MainRunsJob, MainBegins, MainSays, MainLeavesJob, MainMakesNone DEF MainStep, Proceed

\* The end of an iteration when the time is up.
LEMMA MainIsLate ==
  ASSUME IInv, TimeIsUp
  PROVE  IInv'
<1> DEFINE a == Head(M)
           R == Tail(M)
           b == Step(IF ponder THEN "pondered" ELSE "timeout", Main)
           c == Step("deepen", Main)
           q == <<c>> \o R
           s == <<b>> \o q
<1>1. /\ AtStep(Main, "deepen") /\ Types /\ limits.clock /\ Rest(Main, <<b, c>>)
      /\ UNCHANGED <<mainOnly, flags, printed>>
  BY DEF TimeIsUp, IInv
<1>2. /\ M # <<>> /\ a.op = "deepen" /\ a \in MainSteps /\ R \in Seq(MainSteps) /\ Main \in Pool
      /\ (\A u \in Pool : Main \notin waiters[u]) /\ job[Main] = "search"
  BY <1>1, Steps1
<1>3. /\ b \in MainSteps /\ b.op \in {"pondered", "timeout"} /\ (b.op = "timeout" => ~ponder)
      /\ c \in MainSteps /\ c.op = "deepen"
  BY <1>2, StepFields DEF UciOps, MainOps, MainSteps
<1>4. M' = <<b, c>> \o R /\ U' = U /\ ProgramTypes'
  <2>1. <<b, c>> \in Seq(MainSteps)
    BY <1>3
  <2> QED BY <1>1, <1>2, <2>1, MainRests
<1>5. a = Head(M) /\ R = Tail(M) /\ q = <<c>> \o R /\ s = <<b>> \o q
  OBVIOUS
<1> HIDE DEF a, R, b, c
<1>6. q \in Seq(MainSteps) /\ s \in Seq(MainSteps) /\ M' = s
  <2>1. R \in Seq(MainSteps) /\ b \in MainSteps /\ c \in MainSteps
    BY <1>2, <1>3
  <2>2. <<b, c>> \o R = <<b>> \o (<<c>> \o R)
    BY ONLY <2>1, Pair
  <2>3. <<c>> \o R \in Seq(MainSteps)
    BY ONLY <2>1, Preceded
  <2>4. <<b>> \o (<<c>> \o R) \in Seq(MainSteps)
    BY ONLY <2>1, <2>3, Preceded
  <2> QED BY <1>4, <2>2, <2>3, <2>4
<1> HIDE DEF q, s
<1>7. Types'
  BY <1>1, <1>4, TypesKept DEF Types, mainOnly
<1>8. UNCHANGED <<n, pc, exit, jobFunc, job, waiters, limits, gos, commands, told, stop, ponder, setUp,
                  printed, lists, loop>>
  BY <1>1 DEF mainOnly, cvs, uci, flags
<1>9. MainOrder' /\ HelpersAreAwaited' /\ Counted' /\ Held'
  BY <1>1, <1>2, <1>3, <1>4, <1>5, <1>6, <1>8, MainTimes
<1>10. NetworkOrder'
  BY <1>4, <1>8, Untouched
<1> QED BY <1>2, <1>4, <1>7, <1>8, <1>9, <1>10, MainLeaves

\* check_time raises the stop; a root fail low withdraws the wish to stop.
LEMMA MainChecks ==
  ASSUME IInv, CheckTime \/ FailLow
  PROVE  IInv'
<1>1. /\ AtStep(Main, "deepen") /\ Types /\ UNCHANGED <<mainOnly, todo, ponder, printed>>
      /\ stop' \in BOOLEAN /\ stopOnPonderhit' \in BOOLEAN
      /\ stop' = stop \/ (Limited /\ ~ponder)
  BY DEF CheckTime, FailLow, IInv, Types, CommandTypes
<1>2. (\A u \in Pool : Main \notin waiters[u]) /\ M' = M /\ U' = U
  BY <1>1, Steps1 DEF M, U
<1>3. UNCHANGED <<n, pc, exit, jobFunc, job, waiters, limits, gos, commands, told, ponder, setUp,
                  printed, lists, loop>>
  BY <1>1 DEF mainOnly, cvs, uci
<1>4. Types'
  <2>1. ThreadTypes' /\ ProgramTypes'
    BY <1>1, TypesKept DEF mainOnly
  <2>2. CommandTypes'
    BY <1>1 DEF Types, CommandTypes, mainOnly, uci, lists
  <2> QED BY <2>1, <2>2 DEF Types
<1>5. MainOrder' /\ HelpersAreAwaited' /\ Counted' /\ NetworkOrder'
  BY <1>2, <1>3, Untouched
<1>6. Held'
  <2>1. CASE stop' = stop
    BY <1>2, <1>3, <2>1, Untouched
  <2>2. CASE Limited /\ ~ponder
    <3>1. Held
      BY DEF IInv, Answering
    <3>2. Free
      BY <2>2, <3>1 DEF Held, Free, Contract!MayAnswer, Limited
    <3> QED BY <1>3, <3>2 DEF Held, Free, Contract!MayAnswer
  <2> QED BY <1>1, <2>1, <2>2
<1> QED BY <1>2, <1>3, <1>4, <1>5, <1>6, MainLeaves

\* A step of the search of the main thread keeps the invariant.
LEMMA Search1IInv ==
  ASSUME IInv, Search1
  PROVE  IInv'
BY MainIsLate, MainChecks, MainWaits DEF Search1

\* A thread is blocked on its own condition variable, parks, is woken for nothing
\* or ends: no job changes hands.
LEMMA ThreadRests ==
  ASSUME IInv, Types',
         \A u \in Pool : \A w \in waiters'[u] : w # u => w \in waiters[u],
         \A u \in Pool : (Alive(u)' => Alive(u)) /\ (pc'[u] = "job" <=> pc[u] = "job"),
         UNCHANGED <<n, todo, exit, job, jobFunc, flags, uci, setUp, lists, printed>>
  PROVE  IInv'
<1>1. U' = U /\ M' = M
  BY DEF U, M
<1>2. Lives' /\ Blocked'
  BY <1>1, LivesUntouched, BlockedKept DEF IInv
<1>3. Order' /\ Games' /\ Answering'
  BY <1>1, Untouched DEF Order, Games, Answering, uci, flags, lists
<1> QED BY <1>2, <1>3 DEF IInv

\* The thread parks.
LEMMA ThreadParks ==
  ASSUME IInv, NEW t \in Pool, Park(t)
  PROVE  IInv'
<1>1. /\ pc[t] = "top" /\ pc' = [pc EXCEPT ![t] = "asleep"] /\ Types
      /\ searching' = [searching EXCEPT ![t] = FALSE]
      /\ UNCHANGED <<poolOnly, exit, jobFunc, job, flags, setUp, printed>>
  BY DEF Park, IInv
<1>2. /\ waiters' \in [Pool -> SUBSET (Pool \cup {UCI})]
      /\ \A u \in Pool : \A w \in waiters'[u] : w # u => w \in waiters[u]
  <2>1. waiters \in [Pool -> SUBSET (Pool \cup {UCI})]
    BY <1>1 DEF Types, ThreadTypes
  <2>2. \/ waiters' = [waiters EXCEPT ![t] = {t}]
        \/ \E w \in waiters[t] : waiters' = [waiters EXCEPT ![t] = (@ \ {w}) \cup {t}]
    BY DEF Park
  <2> QED BY <2>1, <2>2
<1>3. jobFunc[t] = "none"
  BY <1>1 DEF Types, ThreadTypes
<1>4. Types'
  <2>1. ThreadTypes'
    BY <1>1, <1>2, <1>3 DEF Types, ThreadTypes, poolOnly
  <2>2. ProgramTypes' /\ CommandTypes'
    BY <1>1, TypesKept DEF poolOnly
  <2> QED BY <2>1, <2>2 DEF Types
<1>5. \A u \in Pool : (Alive(u)' => Alive(u)) /\ (pc'[u] = "job" <=> pc[u] = "job")
  BY <1>1 DEF Types, ThreadTypes, Alive
<1> QED BY <1>1, <1>2, <1>4, <1>5, ThreadRests DEF poolOnly

\* The woken thread goes back to sleep, ends, or takes its job.
LEMMA ThreadWakes ==
  ASSUME IInv, NEW t \in Pool, Wake(t)
  PROVE  IInv'
<1>1. /\ pc[t] = "asleep" /\ Types /\ UNCHANGED <<poolOnly, searching, exit, flags, setUp, printed>>
  BY DEF Wake, IInv
<1>2. U' = U /\ M' = M /\ \A u \in Pool : \A w \in waiters[u] : w \in waiters[u]
  BY <1>1 DEF U, M, poolOnly
<1>3. ProgramTypes' /\ CommandTypes'
  BY <1>1, TypesKept DEF poolOnly
<1>4. CASE ~searching[t]
  <2>1. Block(t, t) /\ UNCHANGED <<pc, job, jobFunc>>
    BY <1>4 DEF Wake
  <2>2. /\ waiters' \in [Pool -> SUBSET (Pool \cup {UCI})]
        /\ \A u \in Pool : \A w \in waiters'[u] : w # u => w \in waiters[u]
    BY <1>1, <2>1, Waiters
  <2>3. Types'
    BY <1>1, <1>3, <2>1, <2>2, TypesKept DEF Types, poolOnly
  <2>4. \A u \in Pool : (Alive(u)' => Alive(u)) /\ (pc'[u] = "job" <=> pc[u] = "job")
    BY <2>1 DEF Alive
  <2> QED BY <1>1, <2>1, <2>2, <2>3, <2>4, ThreadRests DEF poolOnly
<1>5. CASE searching[t] /\ exit[t]
  <2>1. UNCHANGED <<waiters, job, jobFunc>> /\ pc' = [pc EXCEPT ![t] = "gone"]
    BY <1>5 DEF Wake
  <2>2. Types'
    <3>1. ThreadTypes'
      BY <1>1, <2>1 DEF Types, ThreadTypes, poolOnly
    <3> QED BY <1>3, <3>1 DEF Types
  <2>3. \A u \in Pool : (Alive(u)' => Alive(u)) /\ (pc'[u] = "job" <=> pc[u] = "job")
    BY <1>1, <2>1 DEF Types, ThreadTypes, Alive
  <2> QED BY <1>1, <1>2, <2>1, <2>2, <2>3, ThreadRests DEF poolOnly
<1>6. CASE searching[t] /\ ~exit[t]
  <2>1. /\ UNCHANGED waiters
        /\ pc' = [pc EXCEPT ![t] = IF jobFunc[t] = "none" THEN "top" ELSE "job"]
        /\ job' = [job EXCEPT ![t] = jobFunc[t]]
        /\ jobFunc' = [jobFunc EXCEPT ![t] = "none"]
    BY <1>6 DEF Wake
  <2>2. Types'
    <3>1. ThreadTypes'
      BY <1>1, <1>6, <2>1 DEF Types, ThreadTypes, poolOnly, Jobs
    <3> QED BY <1>3, <3>1 DEF Types
  <2>3. job[t] = "none"
    BY <1>1 DEF IInv, Lives, Types, ThreadTypes
  <2>4. M' = M /\ (job[Main] # "search" \/ job'[Main] = job[Main])
    BY <1>1, <1>2, <2>1, <2>3 DEF Types, ThreadTypes
  <2>5. Blocked'
    BY <1>2, <2>1, <2>4, BlockedKept
  <2>6. Lives' /\ Order' /\ Games' /\ Answering'
    BY <1>1, <1>6, <2>1, TakesJob DEF poolOnly
  <2> QED BY <2>2, <2>5, <2>6 DEF IInv
<1> QED BY <1>4, <1>5, <1>6

\* The thread has done its short job, or, as a helper, its search.
LEMMA ThreadEndsJob ==
  ASSUME IInv, NEW t \in Pool, ShortJob(t) \/ HelperSearch(t)
  PROVE  IInv'
<1>1. /\ pc[t] = "job" /\ JobEnds(t) /\ Types /\ UNCHANGED <<poolOnly, flags, printed>>
      /\ t = Main => job[t] # "search"
      /\ job[t] \in ShortJobs \cup {"search"}
      /\ setUp' = IF job[t] = "setup" THEN [setUp EXCEPT ![t] = [go |-> gos, list |-> setupStates]]
                  ELSE setUp
  BY DEF ShortJob, HelperSearch, ShortJobs, IInv
<1>2. /\ UNCHANGED <<n, todo, uci, lists, cout, searching, exit, jobFunc, waiters>>
      /\ pc' = [pc EXCEPT ![t] = "top"] /\ job' = [job EXCEPT ![t] = "none"]
  BY <1>1 DEF poolOnly, JobEnds
<1>3. Types'
  <2>1. ThreadTypes'
    BY <1>1, <1>2 DEF Types, ThreadTypes, Jobs
  <2>2. ProgramTypes'
    BY <1>1, <1>2, TypesKept
  <2>3. gos \in Nat /\ setupStates \in 0..(MaxCommands + 1)
        /\ setUp \in [Pool -> [go : Nat, list : 0..(MaxCommands + 1)]]
    BY <1>1 DEF Types, CommandTypes
  <2>4. setUp' \in [Pool -> [go : Nat, list : 0..(MaxCommands + 1)]]
    BY <1>1, <2>3
  <2>5. CommandTypes'
    BY <1>1, <1>2, <2>4 DEF Types, CommandTypes, flags, uci, lists
  <2> QED BY <2>1, <2>2, <2>5 DEF Types
<1>4. U' = U /\ M' = M /\ (job[Main] # "search" \/ job'[Main] = job[Main])
  BY <1>1, <1>2 DEF U, M, Types, ThreadTypes
<1>5. Blocked'
  BY <1>2, <1>4, BlockedKept
<1>6. Lives' /\ Order' /\ Games' /\ Answering'
  BY <1>1, <1>2, EndsJob
<1> QED BY <1>3, <1>5, <1>6 DEF IInv

\* A thread has found the mate that "go mate" asked for: its answer is not kept back.
LEMMA ThreadMates ==
  ASSUME IInv, NEW t \in Pool, MateFound(t)
  PROVE  IInv'
<1>1. /\ limits.mate /\ stop' = TRUE /\ Types
      /\ UNCHANGED <<n, cvs, todo, uci, lists, cout, ponder, stopOnPonderhit, setUp, printed>>
  BY DEF MateFound, poolOnly, IInv
<1>2. /\ UNCHANGED <<n, pc, exit, jobFunc, job, waiters, limits, gos, commands, loop, setUp, printed>>
      /\ U' = U /\ M' = M
  BY <1>1 DEF cvs, uci, U, M
<1>3. Types'
  <2>1. ThreadTypes' /\ ProgramTypes'
    BY <1>1, TypesKept
  <2>2. CommandTypes'
    BY <1>1 DEF Types, CommandTypes, uci, lists
  <2> QED BY <2>1, <2>2 DEF Types
<1>4. Lives' /\ Blocked'
  BY <1>2, LivesUntouched, BlockedKept DEF IInv, Alive
<1>5. Held'
  BY <1>1, <1>2 DEF Held, Free, Contract!MayAnswer
<1>6. Order' /\ Games' /\ Answering'
  BY <1>1, <1>2, <1>5, Untouched DEF Order, Games, Answering, lists
<1> QED BY <1>3, <1>4, <1>6 DEF IInv

\* A step of a thread of the pool keeps the invariant.
LEMMA PoolIInv ==
  ASSUME IInv, NEW t \in Pool, PoolStep(t)
  PROVE  IInv'
BY ThreadParks, ThreadWakes, ThreadEndsJob, ThreadMates DEF PoolStep

\* A waiter wakes for nothing.
LEMMA SpuriousIInv ==
  ASSUME IInv, NEW w \in Pool \cup {UCI}, SpuriousWake(w)
  PROVE  IInv'
<1>1. Types /\ UNCHANGED <<poolOnly, pc, searching, exit, jobFunc, job, flags, setUp, printed>>
  BY DEF SpuriousWake, IInv
<1>2. PICK t \in Pool : waiters' = [waiters EXCEPT ![t] = @ \ {w}]
  BY DEF SpuriousWake
<1>3. /\ waiters' \in [Pool -> SUBSET (Pool \cup {UCI})]
      /\ \A u \in Pool : \A v \in waiters'[u] : v # u => v \in waiters[u]
  BY <1>1, <1>2 DEF Types, ThreadTypes
<1>4. Types'
  BY <1>1, <1>3, TypesKept DEF Types, poolOnly
<1>5. \A u \in Pool : (Alive(u)' => Alive(u)) /\ (pc'[u] = "job" <=> pc[u] = "job")
  BY <1>1 DEF Alive
<1> QED BY <1>1, <1>2, <1>3, <1>4, <1>5, ThreadRests DEF poolOnly

\* What a command that is read leaves alone, or writes at once.
LEMMA ReadsLeave ==
  ASSUME IInv, Reading, Flagged
  PROVE  /\ Types /\ ThreadTypes' /\ Blocked' /\ MainOrder' /\ HelpersAreAwaited' /\ Held'
         /\ ~Asked /\ ~Starting /\ ~exit[Main] /\ ~exit'[Main]
         /\ \A t \in Pool : ~Short(t) /\ ~Short(t)'
         /\ (Quiet' <=> Quiet) /\ (Searching' <=> Searching) /\ Answers' = Answers
         /\ \A t \in Pool : (Busy(t)' <=> Busy(t)) /\ (Alive(t)' <=> Alive(t))
         /\ gos' = gos /\ gos \in Nat /\ gos <= commands /\ gos <= commands'
<1>1. /\ loop /\ U = <<>> /\ M' = M /\ Types /\ commands' \in commands..(commands + 1)
      /\ UNCHANGED <<n, cvs, pc, exit, jobFunc, job, waiters, setUp, limits, gos, printed>>
      /\ commands \in Nat
  BY DEF Reading, IInv, cvs
<1>2. \A A : ~Has(U, A)
  BY <1>1, EmptyOrder
<1>3. UciOrder /\ JobsAreAwaited /\ GoOrder /\ Held
  BY DEF IInv, Order, Games, Answering
<1>4. ThreadTypes'
  BY <1>1, TypesKept
<1>5. Blocked'
  BY <1>1, BlockedKept
<1>6. MainOrder' /\ HelpersAreAwaited'
  BY <1>1, Untouched
<1>7. Held'
  <2>1. /\ \A w \in told : w \in told'
        /\ (stop' => stop \/ "stop" \in told') /\ limits' = limits /\ M' = M
        /\ (ponder' = ponder \/ (limits.ponder => "ponderhit" \in told'))
    BY <1>1 DEF Flagged
  <2>2. CASE Free'
    BY <2>2 DEF Held
  <2>3. CASE ~Free'
    <3>1. ~Free /\ "stop" \notin told'
      BY <2>1, <2>3 DEF Free, Contract!MayAnswer
    <3>2. /\ ~stop /\ ~Has(M, Op("timeout")) /\ Guarded(M, Op("raise"), Op("linger"))
          /\ limits.moves => Guarded(M, Op("bestmove"), Op("linger"))
          /\ limits.ponder /\ "ponderhit" \notin told => ponder
      BY <1>3, <3>1 DEF Held
    <3>3. ~stop'
      BY <2>1, <3>1, <3>2
    <3>4. limits'.ponder /\ "ponderhit" \notin told' => ponder'
      BY <2>1, <3>2
    <3> QED BY <2>1, <3>2, <3>3, <3>4 DEF Held
  <2> QED BY <2>2, <2>3
<1>8. ~Asked /\ ~Starting /\ ~exit[Main] /\ ~exit'[Main]
  BY <1>1, <1>2, <1>3 DEF Asked, Starting, UciOrder
<1>9. \A t \in Pool : ~Short(t)
  BY <1>2, <1>3 DEF JobsAreAwaited
<1>10. \A t \in Pool : (Short(t)' <=> Short(t)) /\ (Busy(t)' <=> Busy(t)) /\ (Alive(t)' <=> Alive(t))
  BY <1>1 DEF Short, Busy, Posted, Alive
<1>11. (Quiet' <=> Quiet) /\ (Searching' <=> Searching) /\ Answers' = Answers
  BY <1>1, <1>10 DEF Quiet, Searching, Posted, Answers
<1>12. gos' = gos /\ gos \in Nat /\ gos <= commands /\ gos <= commands'
  BY <1>1, <1>3 DEF GoOrder, Types, CommandTypes
<1> QED BY <1>1, <1>4, <1>5, <1>6, <1>7, <1>8, <1>9, <1>10, <1>11, <1>12

\* A command that gives the UCI thread a program to execute.
LEMMA ReadsProgram ==
  ASSUME IInv, Reading, Flagged, Programmed
  PROVE  IInv'
<1>1. /\ UNCHANGED <<n, pc, exit, jobFunc, job, setUp, setupStates, gos, limits, cout, printed>>
      /\ UNCHANGED <<states, pos, stopOnPonderhit>> /\ M' = M
      /\ commands \in Nat /\ commands' \in commands..(commands + 1) /\ commands' <= MaxCommands
  BY DEF Reading, Programmed, cvs, lists
<1>2. /\ Types /\ ThreadTypes' /\ Blocked' /\ MainOrder' /\ HelpersAreAwaited' /\ Held'
      /\ ~Asked /\ ~Starting /\ ~exit[Main] /\ ~exit'[Main]
      /\ \A t \in Pool : ~Short(t) /\ ~Short(t)'
      /\ (Quiet' <=> Quiet) /\ (Searching' <=> Searching) /\ Answers' = Answers
      /\ \A t \in Pool : (Busy(t)' <=> Busy(t)) /\ (Alive(t)' <=> Alive(t))
      /\ gos' = gos /\ gos \in Nat /\ gos <= commands /\ gos <= commands'
  BY ReadsLeave
<1>3. /\ Program(U', n) /\ (loop' => Renewing(U')) /\ todo' \in [{UCI, Main} -> Seq(Steps)]
      /\ (Has(U', Op("begin")) => commands' = commands + 1) /\ (Polite => Answers = gos \/ Gated(U'))
  BY DEF Programmed
<1>4. /\ Lives /\ SetUpBeforeSearch /\ GameAlive /\ Counted /\ n \in Pool
  BY DEF IInv, Games, Answering, Types, ThreadTypes
<1>5. U' \in Seq(UciSteps)
  BY <1>3 DEF Program
<1>6. Types'
  <2>1. ProgramTypes'
    BY <1>1, <1>2, <1>3, <1>5 DEF Types, ProgramTypes
  <2>2. CommandTypes'
    BY <1>1, <1>2, PoolAssumption DEF Types, CommandTypes, Flagged
  <2> QED BY <1>2, <2>1, <2>2 DEF Types
<1>7. Lives'
  <2>1. \A t \in Pool : pc'[t] = "job" <=> job'[t] # "none"
    BY <1>1, <1>4 DEF Lives
  <2>2. ASSUME NEW t \in Pool, Alive(t)'
        PROVE  t <= n' /\ Guarded(U', Op("resize") \cup On("make", t), On("kill", t) \cup On("join", t))
    <3>1. t <= n
      BY <1>2, <1>4, <2>2 DEF Lives
    <3>2. t \in 1..n
      BY <1>4, <3>1 DEF Pool
    <3> QED BY <1>1, <1>3, <3>1, <3>2 DEF Program
  <2>3. /\ \A m \in Pool : Has(U', On("resize", m)) => ~Has(U', MakesBeyond(m))
        /\ Guarded(U', MakesBeyond(n), Op("resize"))
        /\ \A t \in Pool : Barred(U', On("make", t), Op("resize") \cup On("make", t))
    BY <1>3 DEF Program
  <2> QED BY <1>1, <2>1, <2>2, <2>3 DEF Lives
<1>8. Has(U', Posts(Main, "search")) => Has(U', Op("begin"))
  <2>1. Main \in Pool
    BY <1>4, PoolRange
  <2> QED BY <1>3, <2>1 DEF Program
<1>9. UciOrder'
  <2>1. Guarded(U', NeedQuiet, On("wait", Main))
        /\ \A t \in Pool : Has(U', Posts(t, "search")) => t = Main
    BY <1>3 DEF Program
  <2>2. ASSUME U' # <<>>, NEW t \in Pool, Has(Tail(U'), Posts(t, "search"))
        PROVE  t = Main /\ ~exit'[Main]
    <3>1. Has(U', Posts(t, "search"))
      BY <1>5, <2>2, FirstStep
    <3> QED BY <1>2, <2>1, <3>1
  <2>3. Asked' => Barred(U', Posts(Main, "search"), UciSteps) /\ ~Has(U', Changes)
    BY <1>3, <1>8 DEF Program, Asked
  <2>4. loop' => Awaited(U', On("kill", Main), On("make", Main))
    BY <1>3 DEF Renewing
  <2> QED BY <1>2, <2>1, <2>2, <2>3, <2>4 DEF UciOrder
<1>10. JobsAreAwaited'
  BY <1>2, <1>3 DEF JobsAreAwaited, Program
<1>11. SetUpBeforeSearch'
  <2>1. Busy(Main)' => setupStates' # 0 /\ \A t \in 1..n' : Current(t)'
    <3>1. Main \in Pool
      BY <1>4, PoolRange
    <3> QED BY <1>1, <1>2, <1>4, <3>1 DEF SetUpBeforeSearch, Current
  <2>2. Asked' => Has(U', Op("begin")) /\ \A t \in 1..n' : Has(U', Posts(t, "setup"))
    BY <1>1, <1>3, <1>8 DEF Asked, Program
  <2> QED BY <2>1, <2>2 DEF SetUpBeforeSearch
<1>12. GoOrder'
  <2>1. Has(U', Op("begin")) => Asked' /\ gos' < commands'
    BY <1>1, <1>2, <1>3 DEF Program, Asked
  <2>2. Barred(U', UciSteps \ On("wait", Main), Op("begin"))
    BY <1>3 DEF Program
  <2> QED BY <1>2, <2>1, <2>2 DEF GoOrder
<1>13. GameAlive'
  BY <1>1, <1>4 DEF GameAlive
<1>14. Counted'
  <2>1. ~Starting'
    BY <1>8 DEF Starting, Asked
  <2> QED BY <1>1, <1>2, <1>4, <2>1 DEF Counted
<1>15. NetworkOrder'
  BY <1>2, <1>3 DEF NetworkOrder, Gated
<1> QED BY <1>2, <1>6, <1>7, <1>9, <1>10, <1>11, <1>12, <1>13, <1>14, <1>15
        DEF IInv, Order, Games, Answering

\* A command that the UCI thread executes at once.
LEMMA ReadsAtOnce ==
  ASSUME IInv, Reading, Flagged, UNCHANGED <<todo, loop>>,
         UNCHANGED lists \/ (states' = commands' + 1 /\ pos' = states' /\ UNCHANGED setupStates)
  PROVE  IInv'
<1>1. /\ UNCHANGED <<n, pc, exit, jobFunc, job, setUp, setupStates, gos, limits, cout, printed>>
      /\ UNCHANGED stopOnPonderhit /\ M' = M /\ U = <<>> /\ U' = U
      /\ commands \in Nat /\ commands' \in commands..(commands + 1) /\ commands' <= MaxCommands
  BY DEF Reading, cvs, U
<1>2. /\ Types /\ ThreadTypes' /\ Blocked' /\ MainOrder' /\ HelpersAreAwaited' /\ Held'
      /\ gos <= commands' /\ \A t \in Pool : Alive(t)' <=> Alive(t)
  BY ReadsLeave
<1>3. states' \in 0..(MaxCommands + 1) /\ pos' \in 0..(MaxCommands + 1)
  BY <1>1, <1>2, PoolAssumption DEF Types, CommandTypes, lists
<1>4. Types'
  <2>1. ProgramTypes'
    BY <1>2, TypesKept
  <2>2. CommandTypes'
    BY <1>1, <1>2, <1>3, PoolAssumption DEF Types, CommandTypes, Flagged
  <2> QED BY <1>2, <2>1, <2>2 DEF Types
<1>5. Lives'
  BY <1>1, <1>2, LivesUntouched DEF IInv
<1>6. UciOrder' /\ JobsAreAwaited' /\ SetUpBeforeSearch' /\ Counted' /\ NetworkOrder'
  BY <1>1, Untouched
<1>7. GoOrder'
  BY <1>1, <1>2, EmptyOrder DEF GoOrder
<1>8. GameAlive'
  <2>1. CASE UNCHANGED lists
    BY <2>1, Untouched
  <2>2. CASE states' = commands' + 1 /\ pos' = states' /\ UNCHANGED setupStates
    <3>1. commands' \in Nat
      BY <1>1
    <3>2. states' = commands' + 1 /\ pos' = states'
      BY <2>2
    <3>3. \A c \in Nat : c + 1 # 0
      OBVIOUS
    <3>4. states' # 0
      BY <3>1, <3>2, <3>3, Zenon
    <3> QED BY ONLY <3>2, <3>4 DEF GameAlive
  <2> QED BY <2>1, <2>2
<1> QED BY <1>2, <1>4, <1>5, <1>6, <1>7, <1>8 DEF IInv, Order, Games, Answering

\* Reading a command keeps the invariant.
LEMMA ReadIInv ==
  ASSUME IInv, ReadCommand
  PROVE  IInv'
<1>1. Types
  BY DEF IInv
<1>2. /\ Reading /\ Flagged
      /\ \/ Programmed
         \/ /\ UNCHANGED <<todo, loop>>
            /\ \/ UNCHANGED lists
               \/ states' = commands' + 1 /\ pos' = states' /\ UNCHANGED setupStates
  BY <1>1, Reads
<1> QED BY <1>2, ReadsProgram, ReadsAtOnce

\* Nothing happens.
LEMMA StuttersIInv ==
  ASSUME IInv, UNCHANGED vars
  PROVE  IInv'
<1>1. /\ Types /\ UNCHANGED <<n, cvs, todo, flags, uci, setUp, lists, cout, printed>>
      /\ UNCHANGED <<pc, exit, job, jobFunc, waiters>>
  BY DEF IInv, vars, cvs
<1>2. Types'
  BY <1>1, TypesKept DEF Types
<1> QED BY <1>1, <1>2, ThreadRests DEF Alive

\* Every step keeps the invariant.
LEMMA NextIInv ==
  ASSUME IInv, [Next]_vars
  PROVE  IInv'
<1>1. CASE \E t \in Pool : PoolStep(t)
  BY <1>1, PoolIInv
<1>2. CASE \E w \in Pool \cup {UCI} : SpuriousWake(w)
  BY <1>2, SpuriousIInv
<1>3. CASE ReadCommand \/ UciStep \/ MainStep \/ Search1
  BY <1>3, ReadIInv, UciIInv, MainIInv, Search1IInv
<1>4. CASE Finished \/ UNCHANGED vars
  BY <1>4, StuttersIInv DEF Finished
<1> QED BY <1>1, <1>2, <1>3, <1>4 DEF Next

\* The order of the programs, and what it promises of the threads, hold always.
THEOREM AlwaysIInv == Spec => []IInv
<1>1. Init => IInv
  BY InitIInv
<1>2. IInv /\ [Next]_vars => IInv'
  BY NextIInv
<1> QED BY <1>1, <1>2, PTL DEF Spec
-----------------------------------------------------------------------------
(* What the invariant says of the properties. *)

\* The counters stay within the commands that were read.
LEMMA TypesFollow ==
  ASSUME IInv
  PROVE  TypeOK
<1>1. /\ Types /\ gos \in Nat /\ gos <= commands /\ Counted /\ commands \in 0..MaxCommands
      /\ MaxCommands \in Nat
  BY PoolAssumption DEF IInv, Games, GoOrder, Answering, Types, CommandTypes
<1>2. gos \in 0..MaxCommands
  BY <1>1
<1>3. setUp \in [Pool -> [go : 0..MaxCommands, list : 0..(MaxCommands + 1)]]
  <2>1. setUp \in [Pool -> [go : Nat, list : 0..(MaxCommands + 1)]] /\ \A t \in Pool : setUp[t].go <= gos
    BY <1>1 DEF Types, CommandTypes, Counted
  <2>2. ASSUME NEW t \in Pool
        PROVE  setUp[t] \in [go : 0..MaxCommands, list : 0..(MaxCommands + 1)]
    <3>1. setUp[t] \in [go : Nat, list : 0..(MaxCommands + 1)]
      BY <2>1
    <3>2. setUp[t].go \in 0..MaxCommands
      BY <1>1, <2>1, <3>1
    <3> QED BY <3>1, <3>2
  <2> QED BY <2>1, <2>2
<1>4. printed \in [{"engine", "host"} -> 0..MaxCommands]
  <2>1. /\ printed \in [{"engine", "host"} -> Nat]
        /\ gos = Answers + IF Starting \/ Searching THEN 1 ELSE 0
    BY <1>1 DEF Types, CommandTypes, Counted
  <2>2. Answers = printed["engine"] + printed["host"] /\ printed["engine"] \in Nat /\ printed["host"] \in Nat
    BY <2>1 DEF Answers
  <2>3. gos = Answers \/ gos = Answers + 1
    BY <2>1, <2>2
  <2>4. printed["engine"] \in 0..MaxCommands /\ printed["host"] \in 0..MaxCommands
    BY <1>1, <2>2, <2>3
  <2> QED BY <2>1, <2>4
<1>5. \A t \in Pool : jobFunc[t] # "none" => searching[t]
  BY <1>1 DEF Types, ThreadTypes
<1> QED BY <1>1, <1>2, <1>3, <1>4, <1>5 DEF Types, ThreadTypes, CommandTypes, TypeOK

\* The UCI thread does not block on a helper while the main thread does: it would
\* have waited for the main thread first.
LEMMA OneWaits ==
  ASSUME IInv
  PROVE  OneWaiter
<1>1. Types /\ Blocked /\ UciOrder
  BY DEF IInv, Order
<1>2. ASSUME NEW t \in Pool
      PROVE  Cardinality(waiters[t] \ {t}) <= 1
  <2>1. \A w \in waiters[t] \ {t} :
          /\ w \in {UCI, Main} /\ todo[w] # <<>>
          /\ Head(todo[w]).op \in {"wait", "run"} /\ Head(todo[w]).th = t
          /\ (w = Main => job[Main] = "search")
    BY <1>1 DEF Blocked
  <2>2. ~(UCI \in waiters[t] \ {t} /\ Main \in waiters[t] \ {t})
    <3>1. SUFFICES ASSUME UCI \in waiters[t] \ {t}, Main \in waiters[t] \ {t}
                   PROVE  FALSE
      OBVIOUS
    <3>2. /\ U # <<>> /\ Head(U).op \in {"wait", "run"} /\ Head(U).th = t /\ t # Main
          /\ job[Main] = "search"
      BY <2>1, <3>1 DEF U
    <3>3. Main \in Pool
      BY <1>1, PoolRange DEF Types, ThreadTypes
    <3>4. ~Quiet
      BY <3>2, <3>3 DEF Quiet, Busy
    <3>5. Head(U) \notin NeedQuiet
      BY <1>1, <3>2, <3>4, FirstStep DEF UciOrder, Types, ProgramTypes
    <3>6. Head(U) \in NeedQuiet
      BY <1>1, <3>2, Heads DEF NeedQuiet
    <3> QED BY <3>5, <3>6
  <2>3. \E w : waiters[t] \ {t} \subseteq {w}
    BY <2>1, <2>2
  <2>4. PICK w : waiters[t] \ {t} \subseteq {w}
    BY <2>3
  <2>5. waiters[t] \ {t} = {} \/ waiters[t] \ {t} = {w}
    BY <2>4
  <2>6. Cardinality({}) = 0 /\ Cardinality({w}) = 1
    BY FS_EmptySet, FS_Singleton
  <2> QED BY <2>5, <2>6
<1> QED BY <1>2 DEF OneWaiter

\* A short job is awaited, by the thread whose locals it captured.
LEMMA CapturesLive ==
  ASSUME IInv
  PROVE  CapturesAlive
<1>1. JobsAreAwaited
  BY DEF IInv, Order
<1>2. ASSUME NEW t \in Pool,
             {job[t], IF exit[t] THEN "none" ELSE jobFunc[t]} \cap {"setup", "alloc"} # {}
      PROVE  \E i \in 1..Len(todo[UCI]) : todo[UCI][i].op = "wait" /\ todo[UCI][i].th = t
  <2>1. Short(t)
    BY <1>2 DEF Short, ShortJobs
  <2>2. Has(U, On("wait", t))
    BY <1>1, <2>1 DEF JobsAreAwaited
  <2> QED BY <2>2 DEF Has, On, U
<1> QED BY <1>2 DEF CapturesAlive

\* Who searches belongs to the search of the main thread, and was set up for it.
LEMMA SearchersFollow ==
  ASSUME IInv
  PROVE  SearchersAreCurrent
<1>1. Types /\ MainOrder /\ HelpersAreAwaited /\ SetUpBeforeSearch /\ GameAlive /\ n \in Pool
  BY DEF IInv, Order, Games, Types, ThreadTypes
<1>2. n \in Nat /\ 1..n \subseteq Pool /\ Main \in 1..n /\ Main \in Pool
  BY <1>1, PoolRange
<1>3. ASSUME NEW t \in Pool \ {Main}, Busy(t)
      PROVE  job[Main] = "search" /\ M # <<>> /\ Head(M) \notin Endings /\ t \in 1..n
  <2>1. M # <<>> /\ Guarded(M, Endings, On("wait", t)) /\ t <= n
    BY <1>1, <1>3 DEF HelpersAreAwaited
  <2>2. job[Main] = "search"
    BY <1>1, <2>1 DEF MainOrder
  <2>3. Head(M) \notin Endings
    BY <1>1, <2>1, FirstStep DEF Types, ProgramTypes
  <2>4. t \in 1..n
    BY <1>2, <2>1 DEF Pool
  <2> QED BY <2>1, <2>2, <2>3, <2>4
<1>4. ASSUME NEW t \in Pool, job[t] = "search"
      PROVE  setUp[t].go = gos /\ setUp[t].list = setupStates /\ setupStates # 0
  <2>1. Busy(t)
    BY <1>4 DEF Busy
  <2>2. Busy(Main) /\ t \in 1..n
    BY <1>2, <1>3, <2>1 DEF Busy
  <2>3. Current(t) /\ setupStates # 0
    BY <1>1, <2>2 DEF SetUpBeforeSearch
  <2> QED BY <2>3 DEF Current
<1>5. SearchersAgree
  BY <1>4 DEF SearchersAgree
<1>6. StatesAlive
  <2>1. pos \in {states, setupStates} \ {0}
    BY <1>1 DEF GameAlive
  <2> QED BY <1>4, <2>1 DEF StatesAlive
<1>7. HelpersQuiet
  <2>1. ASSUME NEW t \in Pool \ {Main}, job[t] = "search" \/ (Posted(t) /\ jobFunc[t] = "search")
        PROVE  /\ job[Main] = "search" /\ todo[Main] # <<>>
               /\ Next1(Main).op \notin {"bestmove", "return"}
    <3>1. job[Main] = "search" /\ M # <<>> /\ Head(M) \notin Endings
      BY <1>3, <2>1 DEF Busy
    <3>2. Head(M) \in Steps
      BY <1>1, <3>1, Heads
    <3> QED BY <3>1, <3>2 DEF Endings, Op, M, Next1
  <2> QED BY <2>1 DEF HelpersQuiet
<1> QED BY <1>5, <1>6, <1>7 DEF SearchersAreCurrent

\* What the UCI thread changes under no search, it does when nothing searches.
LEMMA TablesFollow ==
  ASSUME IInv
  PROVE  NoTableChange
<1>1. Types /\ UciOrder /\ JobsAreAwaited
  BY DEF IInv, Order
<1>2. CASE \E t \in Pool : job[t] \in {"clear", "zero", "alloc"}
  <2>1. Quiet
    BY <1>1, <1>2 DEF JobsAreAwaited, Short, ShortJobs
  <2> QED BY <2>1 DEF NoTableChange, Quiet, Busy
<1>3. CASE todo[UCI] # <<>> /\ Next1(UCI).op \in {"kill", "make", "resize", "free"}
  <2>1. U # <<>> /\ Head(U).op \in {"kill", "make", "resize", "free"}
    BY <1>3 DEF U, Next1
  <2>2. Head(U) \in NeedQuiet
    BY <1>1, <2>1, Heads DEF NeedQuiet
  <2>3. Quiet
    BY <1>1, <2>1, <2>2, FirstStep DEF UciOrder, Types, ProgramTypes
  <2> QED BY <2>3 DEF NoTableChange, Quiet, Busy
<1> QED BY <1>2, <1>3 DEF NoTableChange

\* A host that is polite has no search open when the network is replaced.
LEMMA NetworkFollows ==
  ASSUME IInv, Polite
  PROVE  NoNetworkChange
<1>1. Types /\ (Answers = gos \/ Guarded(U, Op("network"), On("wait", Main)))
  BY DEF IInv, Answering, NetworkOrder
<1>2. ASSUME todo[UCI] # <<>>, Next1(UCI).op = "network"
      PROVE  Answers = gos
  <2>1. U # <<>> /\ Head(U).op = "network"
    BY <1>2 DEF U, Next1
  <2>2. Head(U) \in Op("network")
    BY <1>1, <2>1, Heads DEF Op
  <2> QED BY <1>1, <2>1, <2>2, FirstStep DEF Types, ProgramTypes
<1> QED BY <1>2 DEF NoNetworkChange

\* Every variable has its type; nobody takes a notification meant for another,
\* for at most one waits at a time on the condition variable that a thread and
\* those who wait for it share; and the locals of the UCI thread outlive the jobs
\* that captured them by reference (run_custom_job, wait_for_search_finished).
THEOREM WaitsAlwaysSound == Spec => []WaitsAreSound
<1>1. IInv => WaitsAreSound
  BY TypesFollow, OneWaits, CapturesLive DEF WaitsAreSound
<1> QED BY <1>1, AlwaysIInv, PTL

\* All who search belong to the current "go", have its position and a game that is
\* not freed, and are awaited before the main thread compares what they found.
THEOREM SearchersAlwaysCurrent == Spec => []SearchersAreCurrent
<1>1. IInv => SearchersAreCurrent
  BY SearchersFollow
<1> QED BY <1>1, AlwaysIInv, PTL

\* Whatever the host sends, the pool, the hash table and the histories are changed
\* when nothing searches, and freed only then.
THEOREM TablesAlwaysKept == Spec => []NoTableChange
<1>1. IInv => NoTableChange
  BY TablesFollow
<1> QED BY <1>1, AlwaysIInv, PTL

\* Under a host that does not export the network during a search, neither they nor
\* the network are changed from a "go" to its answer.
THEOREM ChangesAlwaysWait == Polite => (Spec => []NoChangeUnderSearch)
<1>1. ASSUME Polite
      PROVE  Spec => []NoChangeUnderSearch
  <2>1. IInv => NoChangeUnderSearch
    BY <1>1, TablesFollow, NetworkFollows DEF NoChangeUnderSearch
  <2> QED BY <2>1, AlwaysIInv, PTL
<1> QED BY <1>1
-----------------------------------------------------------------------------
(* The pool implements UciContract. *)

contract == <<gos, Answers, limits, told>>

\* The steps of the UCI thread, but for BeginSearch, are hidden from the host.
LEMMA UciHidden ==
  ASSUME UciStep
  PROVE  BeginSearch \/ UNCHANGED contract
<1>1. ASSUME Proceed(UCI)
      PROVE  UNCHANGED contract
  <2>1. UNCHANGED <<uci, printed>>
    BY <1>1 DEF Proceed, WaitFinished, RunCustomJob, NotifyWorker, Kill, Join, Make, SetSize
  <2> QED BY <2>1 DEF contract, uci, Answers
<1>2. ASSUME RestoreCout \/ FreeMembers \/ ReplaceNetwork
      PROVE  UNCHANGED contract
  BY <1>2 DEF RestoreCout, FreeMembers, ReplaceNetwork, contract, uci, Answers
<1> QED BY <1>1, <1>2 DEF UciStep

\* So are those of the searching main thread, but for BestMove.
LEMMA MainHidden ==
  ASSUME MainStep \/ Search1
  PROVE  BestMove \/ UNCHANGED contract
<1>1. ASSUME Proceed(Main)
      PROVE  UNCHANGED contract
  <2>1. UNCHANGED <<uci, printed>>
    BY <1>1 DEF Proceed, WaitFinished, RunCustomJob, NotifyWorker, Kill, Join, Make, SetSize
  <2> QED BY <2>1 DEF contract, uci, Answers
<1>2. ASSUME StartMain \/ Pondered \/ Raise \/ Linger \/ ReturnMain \/ Search1
      PROVE  UNCHANGED contract
  <2>1. UNCHANGED <<uci, printed>>
    BY <1>2 DEF StartMain, Pondered, Raise, Linger, ReturnMain, Search1, TimeIsUp, CheckTime,
                FailLow, DeepenEnds, mainOnly
  <2> QED BY <2>1 DEF contract, uci, Answers
<1> QED BY <1>1, <1>2 DEF MainStep

\* So are those of the threads of the pool.
LEMMA PoolHidden ==
  ASSUME (\E t \in Pool : PoolStep(t)) \/ (\E w \in Pool \cup {UCI} : SpuriousWake(w))
  PROVE  UNCHANGED contract
<1>1. UNCHANGED <<uci, printed>>
  BY DEF PoolStep, Park, Wake, ShortJob, HelperSearch, MateFound, SpuriousWake, poolOnly
<1> QED BY <1>1 DEF contract, uci, Answers

\* A search begins when the one before has answered.
LEMMA BeginIsGo ==
  ASSUME IInv, BeginSearch
  PROVE  Contract!Go
<1> DEFINE a == Head(U)
<1>1. /\ U # <<>> /\ a.op = "begin" /\ a \in UciSteps /\ a \in Steps /\ Next1(UCI) = a
  BY Steps1 DEF BeginSearch
<1>2. /\ Types /\ Lives /\ UciOrder /\ MainOrder /\ HelpersAreAwaited /\ GoOrder /\ Counted
  BY DEF IInv, Order, Games, Answering
<1>3. Has(U, Op("begin"))
  BY <1>1, <1>2, FirstStep DEF Types, ProgramTypes, Op
<1>4. Quiet
  <2>1. a \in NeedQuiet
    BY <1>1 DEF NeedQuiet
  <2> QED BY <1>1, <1>2, <2>1, FirstStep DEF UciOrder, Types, ProgramTypes
<1>5. ~Starting /\ ~Searching
  BY <1>2, <1>3, <1>4, Resting DEF Starting
<1>6. Answers = gos
  <2>1. printed["engine"] \in Nat /\ printed["host"] \in Nat
    BY <1>2 DEF Types, CommandTypes
  <2> QED BY <1>2, <1>5, <2>1 DEF Counted, Answers
<1>7. a.limits \in Limits
  BY <1>1 DEF Steps, UciOps, MainOps
<1>8. limits' = a.limits /\ gos' = gos + 1 /\ told' = {} /\ printed' = printed
  BY <1>1 DEF BeginSearch
<1>9. limits' \in Contract!Limits /\ Answers' = Answers
  BY <1>7, <1>8 DEF Limits, Contract!Limits, Answers
<1> QED BY <1>6, <1>8, <1>9 DEF Contract!Go

\* An answer is the one of the last "go", and is not kept back.
LEMMA BestMoveIsAnswer ==
  ASSUME IInv, BestMove
  PROVE  Contract!Answer
<1> DEFINE a == Head(M)
<1>1. M # <<>> /\ a.op = "bestmove" /\ a \in MainSteps /\ a \in Steps /\ job[Main] = "search"
  BY Steps1 DEF BestMove
<1>2. Types /\ Counted /\ Held
  BY DEF IInv, Answering
<1>3. a \in Op("bestmove")
  BY <1>1 DEF Op
<1>4. Searching
  <2>1. Has(M, Op("bestmove"))
    BY <1>1, <1>2, <1>3, FirstStep DEF Types, ProgramTypes
  <2> QED BY <1>1, <2>1 DEF Searching
<1>5. /\ printed \in [{"engine", "host"} -> Nat] /\ cout \in {"engine", "host"}
      /\ printed' = [printed EXCEPT ![cout] = @ + 1]
  BY <1>2 DEF Types, CommandTypes, BestMove
<1>6. Answers \in Nat /\ Answers' = Answers + 1
  BY <1>5 DEF Answers
<1>7. Answers < gos
  BY <1>2, <1>4, <1>6 DEF Counted
<1>8. Free
  <2>1. ~Guarded(M, Op("bestmove"), Op("linger"))
    BY <1>1, <1>2, <1>3, FirstStep DEF Types, ProgramTypes
  <2>2. Free \/ ~limits.moves
    BY <1>2, <2>1 DEF Held
  <2> QED BY <2>2 DEF Free, Contract!MayAnswer
<1>9. UNCHANGED <<gos, limits, told>>
  BY DEF BestMove, mainOnly, uci
<1> QED BY <1>6, <1>7, <1>8, <1>9 DEF Contract!Answer, Free

\* A command may ask for the answer; nothing else of it shows.
LEMMA ReadTells ==
  ASSUME IInv, ReadCommand
  PROVE  Contract!Tell \/ UNCHANGED contract
<1>1. Types
  BY DEF IInv
<1>2. Reading /\ Flagged
  BY <1>1, Reads
<1>3. UNCHANGED <<gos, limits, printed>> /\ Answers' = Answers
  BY <1>2 DEF Reading, Answers
<1>4. told' \in {told, told \cup {"stop"}, told \cup {"ponderhit"}}
  BY <1>2 DEF Flagged
<1> QED BY <1>3, <1>4 DEF Contract!Tell, contract

\* Every step is one of the contract, or hidden.
LEMMA NextContract ==
  ASSUME IInv, [Next]_vars
  PROVE  [Contract!Next]_(Contract!vars)
<1>1. UNCHANGED contract => UNCHANGED Contract!vars
  BY DEF contract, Contract!vars
<1>2. CASE ReadCommand
  BY <1>1, <1>2, ReadTells DEF Contract!Next
<1>3. CASE UciStep
  BY <1>1, <1>3, UciHidden, BeginIsGo DEF Contract!Next
<1>4. CASE MainStep \/ Search1
  BY <1>1, <1>4, MainHidden, BestMoveIsAnswer DEF Contract!Next
<1>5. CASE (\E t \in Pool : PoolStep(t)) \/ (\E w \in Pool \cup {UCI} : SpuriousWake(w))
  BY <1>1, <1>5, PoolHidden
<1>6. CASE Finished \/ UNCHANGED vars
  <2>1. UNCHANGED <<uci, printed>>
    BY <1>6 DEF Finished, vars
  <2>2. UNCHANGED contract
    BY <2>1 DEF uci, contract, Answers
  <2> QED BY <1>1, <2>2
<1> QED BY <1>2, <1>3, <1>4, <1>5, <1>6 DEF Next

\* Whatever the threads do, whatever the host sends and however a "go" combines its
\* limits, it is answered by one bestmove before the next one starts; a pondering
\* one not before "stop" or "ponderhit" and an infinite one not before "stop", unless
\* there is nothing to search, it looks for a mate too, or, of an infinite one, it
\* has a clock or a budget (iterative_deepening, check_time, start_searching).
THEOREM Refinement == Spec => ImplementsUciContract
<1>1. Init => Contract!Init
  BY DEF Init, Contract!Init, Contract!Limits, Answers
<1>2. IInv /\ [Next]_vars => [Contract!Next]_(Contract!vars)
  BY NextContract
<1> QED BY <1>1, <1>2, AlwaysIInv, PTL DEF Spec, ImplementsUciContract, Contract!Spec
=============================================================================
